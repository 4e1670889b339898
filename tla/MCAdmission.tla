----------------------------- MODULE MCAdmission -----------------------------
(***************************************************************************)
(* Who gets in.  Side by side: the gate in quick mode (the module itself), *)
(* the gate in named mode (two scenarios), and the signing keys that named *)
(* mode trusts.  A behaviour is one of the component `part' names; the     *)
(* others rest in their initial state.                                     *)
(***************************************************************************)
EXTENDS AuthGate, KeyCache, TLC

VARIABLES part,
    time, records, drawn, current, closed, shown, rotating, request, used, ended

(* Named mode: two identities, and tokens that expire before the session would. *)
Gate == INSTANCE AuthGate
        WITH Named <- TRUE, Subjects <- {"u", "v"}, Expiries <- {1, 4}, TTL <- 3,
             Idle <- 1, Skew <- 1, MaxSid <- 2, MaxSecret <- 1, MaxTime <- 2,
             clock <- time, sessions <- records, issued <- drawn, secret <- current,
             invalidated <- closed, links <- shown, rotator <- rotating, rq <- request,
             spent <- used, revoked <- ended

gateVars == <<time, records, drawn, current, closed, shown, rotating, request, used, ended>>

ASSUME Gate!AuthAssumption

MCInit ==
    /\ part \in {"quick", "crowd", "expiry", "keys"}
    /\ Init /\ Gate!Init /\ KeyInit

(* Reads and logouts of one identity that overlap. *)
Crowd ==
    /\ time' <= 1
    /\ \A r \in Reqs : /\ request'[r].kind \in {"read", "logout"}
                       /\ request'[r].subj # "v" /\ request'[r].exp <= 1

(* One request after the other, of two identities, over a longer time. *)
Expiry == Cardinality({r \in Reqs : request'[r].pc # "idle"}) <= 1

(* Callers ask for the ids of documents that exist (1 to 3). *)
KnownIds == \A c \in Callers : pc'[c] # "idle" => kid'[c] # 0

MCNext ==
    /\ part' = part
    /\ \/ part = "quick" /\ Next /\ UNCHANGED <<gateVars, keyVars>>
       \/ part = "crowd" /\ Gate!Next /\ Crowd /\ UNCHANGED <<vars, keyVars>>
       \/ part = "expiry" /\ Gate!Next /\ Expiry /\ UNCHANGED <<vars, keyVars>>
       \/ part = "keys" /\ KeyNext /\ KnownIds /\ UNCHANGED <<vars, gateVars>>

MCSpec == MCInit /\ [][MCNext]_<<part, vars, gateVars, keyVars>>

MCSymmetry == Permutations(Reqs)

(* Sessions in named mode: no more of one identity than requests that run at
   once; none identified after its logout; none refreshed after it expired; none
   of another subject than the token's (EnsureSession, GetByIdentity, Get). *)
NamedSessions ==
    /\ [](Gate!BoundedPerIdentity /\ Gate!LogoutIsFinal)
    /\ Gate!ExpiredStaysDead
    /\ Gate!ProvisionedIsOwn
=============================================================================
