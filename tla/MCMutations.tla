----------------------------- MODULE MCMutations -----------------------------
(***************************************************************************)
(* Three scenarios of POST /mutations in one run.  "idem": two attempts    *)
(* share a request id and may differ in operation, generation and          *)
(* deadline.  "retries": three attempts of one request.  "nonce": two      *)
(* attempts with ids and operations of their own compete for one nonce.    *)
(***************************************************************************)
EXTENDS Mutations, TLC

CONSTANTS h1, h2, h3, r1, r2, split, rename, close, zap, t1

VARIABLE scenario

MCSymmetry == Permutations({h1, h2})

Attempts(rids, ops, gens, confs, deadlines) ==
    [session : Sessions, rid : rids, op : ops, gen : gens, conf : confs, deadline : deadlines]

Inputs ==
    [idem    |-> Attempts({r1}, {split, rename}, {0, 1}, {NoToken}, {0, 3}),
     retries |-> Attempts({r1}, {split}, {1}, {NoToken}, {0}),
     nonce   |-> Attempts({r1, r2}, {close, zap}, {1}, {t1, NoToken}, {0})]

Active == [idem |-> {h1, h2}, retries |-> {h1, h2, h3}, nonce |-> {h1, h2}]

Idle == Attempts({r1}, {split}, {1}, {NoToken}, {0})

MCInit ==
    /\ scenario \in DOMAIN Inputs
    /\ \E m \in [Active[scenario] -> Inputs[scenario]], i \in Idle :
          msg = [h \in Handlers |-> IF h \in Active[scenario] THEN m[h] ELSE i]
    /\ Init

MaxOf == [idem |-> [now |-> 3, gens |-> 1], retries |-> [now |-> 3, gens |-> 0],
          nonce |-> [now |-> 2, gens |-> 2]]

MCNext ==
    /\ Next
    /\ now' <= MaxOf[scenario].now
    /\ genChanges' <= MaxOf[scenario].gens
    /\ scenario # "nonce" => nonces' = nonces
    /\ nonces'[t1].state = "live" => nonces'[t1].gen = 1
    /\ \A h \in Handlers \ Active[scenario] : phase'[h] = "peek"
    /\ UNCHANGED scenario

MCSpec == MCInit /\ [][MCNext]_<<vars, scenario>>

=============================================================================
