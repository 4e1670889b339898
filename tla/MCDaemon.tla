------------------------------ MODULE MCDaemon ------------------------------
(***************************************************************************)
(* The serve process and the commands around it: the state directory (the  *)
(* module itself), the control socket, and the stack that the process      *)
(* builds and tears down.  A behaviour is one scenario of the component    *)
(* `part' names; the others rest in their initial state.                   *)
(***************************************************************************)
EXTENDS StateDir

VARIABLES part,
    loop, cur, fails, call, handler, wg, conns, exempt, cut, closer, others, stopping,
    main, held, tun, tready, tstop, sup, stopCh, ctx, health, status, ctl, once, late

(* Nothing delays an answer and no start runs out of time. *)
Prompt == INSTANCE StateDir
          WITH Ops <- {"start", "stop", "toggle"}, Slow <- FALSE, Timeouts <- FALSE,
               Reaps <- FALSE
Control == INSTANCE ControlServer
           WITH Clients <- {"c1", "c2", "c3"}, Stops <- {"c1"}, Idles <- {"c2"},
                None <- "none", MaxFails <- 1, Signals <- FALSE
Stops2 == INSTANCE ControlServer
          WITH Clients <- {"c1", "c2", "c3"}, Stops <- {"c1", "c2"}, Idles <- {"c3"},
               None <- "none", MaxFails <- 1, Signals <- TRUE
Serve == INSTANCE Stack
         WITH Requests <- {"r1", "r2"}, Quick <- FALSE, ServeFails <- FALSE, Expires <- TRUE
Startup == INSTANCE Stack
           WITH Requests <- {"r1", "r2"}, Quick <- TRUE, ServeFails <- TRUE, Expires <- FALSE

controlVars == <<loop, cur, fails, call, handler, wg, conns, exempt, cut, closer, others,
                 stopping>>
stackVars == <<main, held, tun, tready, tstop, sup, stopCh, ctx, health, status, ctl, once,
               late>>

ASSUME /\ Control!ControlServerAssumption /\ Stops2!ControlServerAssumption
       /\ Serve!StackAssumption /\ Startup!StackAssumption

MCInit ==
    /\ part \in {"dir", "prompt", "control", "stops", "close", "serve", "startup"}
    /\ DirInit /\ Control!Init /\ Serve!Init

(* A start-up is watched by one status request. *)
OneRequest == status'["r2"] = "new"

MCNext ==
    /\ part' = part
    /\ \/ part = "dir" /\ DirNext /\ UNCHANGED <<controlVars, stackVars>>
       \/ part = "prompt" /\ Prompt!DirNext /\ UNCHANGED <<controlVars, stackVars>>
       \/ part = "control" /\ Control!Next /\ UNCHANGED <<dirVars, stackVars>>
       \/ part \in {"stops", "close"} /\ Stops2!Next /\ UNCHANGED <<dirVars, stackVars>>
       \/ part = "serve" /\ Serve!Next /\ UNCHANGED <<dirVars, controlVars>>
       \/ part = "startup" /\ Startup!Next /\ OneRequest /\ UNCHANGED <<dirVars, controlVars>>

(* Each component's own fairness, asked while it is the one that runs.  In "close"
   no read deadline ever passes. *)
DirFairness ==
    /\ \A c \in Cmds : WF_dirVars(part = "prompt" /\ Prompt!CmdStep(c))
    /\ \A i \in Serves : WF_dirVars(part = "prompt" /\ Prompt!ServeStep(i))

ControlFairness ==
    /\ \A c \in {"c1", "c2", "c3"} :
         /\ WF_controlVars(part \in {"stops", "close"} /\ Stops2!HandlerStep(c))
         /\ WF_controlVars(part = "stops" /\ Stops2!ReadDeadline(c))
    /\ WF_controlVars(part \in {"stops", "close"} /\ Stops2!LoopStep)
    /\ WF_controlVars(part \in {"stops", "close"} /\ Stops2!CloseStep)

StackFairness ==
    /\ WF_stackVars(part = "startup" /\ Startup!MainStep)
    /\ WF_stackVars(part = "startup" /\ main # "exited" /\ Startup!ChildStep)
    /\ WF_stackVars(part = "startup" /\ main # "exited" /\ Startup!TunStops)

MCSpec ==
    /\ MCInit /\ [][MCNext]_<<part, dirVars, controlVars, stackVars>>
    /\ DirFairness /\ ControlFairness /\ StackFairness

(* The teardown is in order: the client that asked for the stop is answered before
   the socket goes; the lock outlives socket and tunnel; the process ends with
   everything let go of, whichever caller ran Shutdown; no late probe overwrites
   the health "stopping" (setExempt, Shutdown, reconcileHealth). *)
TeardownOrdered ==
    /\ [](part = "control" => Control!StopReplied)
    /\ [](part = "serve" => Serve!LockLast)
    /\ [](part \in {"serve", "startup"} => Serve!ExitClean)
    /\ Serve!StoppingSticks

(* Commands and daemon come to an end: a start that lost the race adopts the
   winner; a stop frees the lock; Close returns however clients behave; a client
   that dialed is served through accept errors; an idle client does not hold the
   shutdown up; a stop request or a signal ends the process (waitReady, serve,
   ControlServer.Close, acceptLoop, Shutdown). *)
DaemonSettles ==
    /\ part = "prompt" => Prompt!LoserAdopts /\ Prompt!StopFrees
    /\ part = "stops" => Stops2!CloseReturns /\ Stops2!DialServed
    /\ part = "close" => Stops2!IdleEnds
    /\ part = "startup" => Startup!StopEnds
=============================================================================
