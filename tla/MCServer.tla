------------------------------ MODULE MCServer ------------------------------
(***************************************************************************)
(* What the HTTP server owes its browsers in the end.  Two components are  *)
(* put side by side: the event hub, and POST /mutations.  A behaviour is   *)
(* one of the component `part' names; the other rests.                     *)
(***************************************************************************)
EXTENDS EventHub

VARIABLES part,
    now, gen, pastGens, genChanges, idem, nonces, msg, attempt, budget, ctxEnd,
    resp, inbox, executed, dispatched, lastDone

(* Two attempts with one request id at one confirmed operation. *)
Posts == INSTANCE Mutations
         WITH Handlers <- {"h1", "h2"}, Sessions <- {"s"}, RequestIds <- {"r"},
              Ops <- {"close"}, PaneOps <- {"close"}, ConfirmOps <- {"close"},
              Gens <- {1}, Deadlines <- {0}, Tokens <- {"t"}, NoToken <- "none",
              ServerDeadline <- 1, Skew <- 0, IdempotencyTTL <- 1,
              ConfirmationTTL <- 1, MinReservation <- 0, Grace <- 1, MaxTime <- 2,
              MaxGenChanges <- 0, phase <- attempt

postVars == <<now, gen, pastGens, genChanges, idem, nonces, msg, attempt, budget, ctxEnd,
              resp, inbox, executed, dispatched, lastDone>>
allVars == <<part, vars, postVars>>

MCInit ==
    /\ part \in {"hub", "posts"}
    /\ Init /\ Posts!Init
    /\ part # "posts" => \A h \in DOMAIN msg : msg[h].conf = "none"

MCNext ==
    /\ part' = part
    /\ \/ part = "hub" /\ Next /\ UNCHANGED postVars
       \/ part = "posts" /\ Posts!Next /\ UNCHANGED vars

(* Each component's own fairness, asked while it is the one that runs. *)
HubFairness ==
    /\ WF_vars(part = "hub" /\ Forwarder)
    /\ \A b \in Browsers :
          /\ WF_vars(part = "hub" /\ (ReadInitial(b) \/ SendOK(b) \/ SendFail(b)))
          /\ WF_vars(part = "hub" /\ (Receive(b) \/ Stop(b)))
          /\ SF_vars(part = "hub" /\ Stop(b)) /\ SF_vars(part = "hub" /\ Remove(b))
          /\ SF_vars(part = "hub" /\ SendFail(b))
    /\ WF_vars(part = "hub" /\ CancelSub) /\ SF_vars(part = "hub" /\ CloseClients)

PostFairness ==
    \A h \in {"h1", "h2"} : WF_postVars(part = "posts" /\ Posts!HandlerStep(h))

MCSpec == MCInit /\ [][MCNext]_allVars /\ HubFairness /\ PostFairness

(* What the server owes its clients in the end: a stream is served and Close
   releases it (Hub), an attempt at a mutation is answered, and no request id
   stays reserved, also when the caller gave up (handleMutations, idemStore). *)
ServerSettles ==
    /\ Served /\ CloseReleases
    /\ part = "posts" => Posts!AllAnswered /\ Posts!KeysUnwedged
=============================================================================
