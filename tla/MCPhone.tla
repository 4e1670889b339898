------------------------------- MODULE MCPhone -------------------------------
(***************************************************************************)
(* The phone's own state.  Side by side: the copy of the snapshot (two     *)
(* scenarios), the list of runs, the terminal socket (two scenarios) and   *)
(* the launch of a run.  A behaviour is one of the component `part' names; *)
(* the others rest in their initial state.                                 *)
(***************************************************************************)
EXTENDS SnapshotStore, RunSource, AttachSocket, LaunchFlow

VARIABLE part

MCInit ==
    /\ part \in {"sockets", "polling", "runs", "attach", "takeover", "launch"}
    /\ StoreInit /\ RunsInit /\ TermInit /\ LaunchInit
    /\ part # "launch" => target = "new"
    /\ conn = {"s1"}

(* One snapshot, sockets that come and go.  Slots are taken in order. *)
SocketsOnly ==
    /\ newest' = 1
    /\ poll'["p2"].at # "none" /\ poll["p2"].at = "none" => poll["p1"].at # "none"
    /\ loop'["l2"] # "off" /\ loop["l2"] = "off" => loop["l1"] # "off"
    /\ sock'["s2"] # "unused" /\ sock["s2"] = "unused" => sock["s1"] # "unused"

(* A network that lets no WebSocket through, and a relay that moves on. *)
PollingOnly ==
    /\ \A s \in Sockets : sock'[s] # "open"
    /\ poll'["p2"] = NoPoll /\ loop'["l2"] = "off" /\ wakes' = 0

(* A takeover of a pane that stays, with two sockets. *)
TakeoverOnly == era' = "ours" /\ link'["s3"] = "unused"

MCNext ==
    /\ part' = part
    /\ \/ part = "sockets" /\ StoreNext /\ SocketsOnly /\ UNCHANGED <<runVars, termVars, launchVars>>
       \/ part = "polling" /\ StoreNext /\ PollingOnly /\ UNCHANGED <<runVars, termVars, launchVars>>
       \/ part = "runs" /\ RunsNext /\ UNCHANGED <<storeVars, termVars, launchVars>>
       \/ /\ part = "attach" /\ TermNext /\ ~asking'
          /\ UNCHANGED <<storeVars, runVars, launchVars>>
       \/ /\ part = "takeover" /\ TermNext /\ TakeoverOnly
          /\ UNCHANGED <<storeVars, runVars, launchVars>>
       \/ part = "launch" /\ LaunchNext /\ UNCHANGED <<storeVars, runVars, termVars>>

(* Each component's own fairness, asked while it is the one that runs. *)
Storing == part \in {"sockets", "polling"}

StoreFairness ==
    /\ WF_storeVars(Storing /\ Booted) /\ WF_storeVars(Storing /\ ReconnectFires)
    /\ \A s \in Sockets :
          /\ WF_storeVars(Storing /\ Push(s)) /\ WF_storeVars(Storing /\ Message(s))
          /\ WF_storeVars(Storing /\ sock[s] = "closing" /\ Close(s))
          /\ WF_storeVars(Storing /\ sock[s] = "connecting"
                       /\ ((part = "sockets" /\ SocketOpens(s)) \/ Close(s)))
    /\ \A p \in Polls : WF_storeVars(Storing /\ Respond(p)) /\ WF_storeVars(Storing /\ Settle(p))
    /\ \A l \in Loops : WF_storeVars(Storing /\ \E p \in Polls : TickFires(l, p))

RunFairness ==
    /\ WF_runVars(part = "runs" /\ SnapshotArrives)
    /\ WF_runVars(part = "runs" /\ CapabilitiesArrive)
    /\ \A c \in Fetches : /\ WF_runVars(part = "runs" /\ RunsAnswered(c))
                          /\ WF_runVars(part = "runs" /\ FetchDone(c))

Attaching == part \in {"attach", "takeover"}

TermFairness ==
    /\ WF_termVars(Attaching /\ PaneSnapshotArrives)
    /\ WF_termVars(Attaching /\ TimerFires)
    /\ \A s \in Links :
          /\ WF_termVars(Attaching /\ link[s] = "connecting"
                           /\ (LinkOpens(s) \/ LinkCloses(s)))
          /\ WF_termVars(Attaching /\ link[s] = "closing" /\ LinkCloses(s))
          /\ WF_termVars(Attaching /\ link[s] = "open" /\ era # "ours" /\ LinkCloses(s))

LaunchFairness ==
    \A c \in Activations : WF_launchVars(part = "launch" /\ Answer(c))

MCSpec ==
    /\ MCInit /\ [][MCNext]_<<part, storeVars, runVars, termVars, launchVars>>
    /\ StoreFairness /\ RunFairness /\ TermFairness /\ LaunchFairness

(* The stores come to rest: where no socket opens, polling shows the relay's
   snapshot once that rests; a stopped store stops; an open view lists the runs or
   says that it cannot; a pane that moved on is reported; a launch settles
   (store.ts, RunSource.reconcile, stopIfPaneMovedOn, execute). *)
PhoneSettles ==
    /\ part = "polling" => Converges
    /\ StopsForGood
    /\ part = "runs" => Reconciled
    /\ part = "attach" => SaysSo
    /\ part = "launch" => Settles
=============================================================================
