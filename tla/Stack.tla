-------------------------------- MODULE Stack --------------------------------
(***************************************************************************)
(* The serve process from its first resource to its last: buildStack and     *)
(* abort (integration/stack.go), daemon.Serve, the status handler and its    *)
(* health, Shutdown with its two callers (daemon/daemon.go), and the         *)
(* supervisor of the tunnel child (daemon/supervise.go, tunnelchild.go).     *)
(* The tunnel is what its supervisor shows: starting, up, or terminal.       *)
(***************************************************************************)
EXTENDS Naturals, Sequences, FiniteSets

CONSTANTS Requests,    \* status requests
          Quick,       \* the public URL is learned from the tunnel
          ServeFails,  \* writing runtime.json or binding the socket may fail
          Expires      \* the deadline of a teardown may pass

StackAssumption == {Quick, ServeFails, Expires} \subseteq BOOLEAN

(* buildStack acquires these in this order. *)
Steps == <<"lock", "listener", "tunnel", "url", "auditor", "server">>

VARIABLES main,     \* a step of buildStack, or where the main goroutine is
          held,     \* resources acquired and not yet let go
          tun, tready, tstop,   \* the tunnel, its Ready channel, its Stop
          sup, stopCh,          \* the child supervisor
          ctx,      \* the serve context is live
          health,
          status,   \* the status requests
          ctl,      \* the goroutine a stop request starts
          once,     \* the body of Shutdown
          late      \* some teardown ran out of time

vars == <<main, held, tun, tready, tstop, sup, stopCh, ctx, health, status, ctl, once, late>>
tunnel == <<tun, tready, tstop>>
child == <<sup, stopCh>>
front == <<health, status, ctl, once>>

Terminal == tun \in {"degraded", "stopped"}
Returned == sup \in {"stopped", "degraded", "skipped"}
TunnelGone == tun = "off" \/ Terminal
Building == {"begin"} \cup {Steps[k] : k \in DOMAIN Steps}

TypeOK ==
    /\ main \in Building \cup {"serving", "closing", "waiting", "aborting", "exited"}
    /\ held \subseteq {Steps[k] : k \in DOMAIN Steps} \cup {"control"}
    /\ tun \in {"off", "starting", "up", "degraded", "stopped"}
    /\ {tready, tstop, stopCh, ctx, late} \subseteq BOOLEAN
    /\ sup \in {"new", "top", "await", "exit", "stop", "stopped", "degraded", "skipped"}
    /\ health \in {"starting", "ready", "degraded", "stopping"}
    /\ status \in [Requests -> {"new", "ready", "unready", "done"}]
    /\ ctl \in {"none", "waiting", "done"}
    /\ once \in {"new", "marked", "cancelled", "children", "control", "done"}
    /\ "control" \in held => "lock" \in held

Init ==
    /\ main = "begin" /\ held = {}
    /\ tun = "off" /\ tready = FALSE /\ tstop = FALSE
    /\ sup = "new" /\ stopCh = FALSE /\ ctx = TRUE
    /\ health = "starting" /\ status = [r \in Requests |-> "new"]
    /\ ctl = "none" /\ once = "new" /\ late = FALSE

-----------------------------------------------------------------------------
(* buildStack: one step after another; in quick mode the URL needs a tunnel  *)
(* that became ready.                                                        *)
After(step) == IF step = "begin" THEN Steps[1]
               ELSE LET k == CHOOSE j \in DOMAIN Steps : Steps[j] = step
                    IN  Steps[k + 1]

buildStack ==
    /\ main \in Building \ {"server"}
    /\ LET step == After(main)
       IN  /\ step = "url" /\ Quick => tready
           /\ main' = step
           /\ held' = held \cup {step}
           /\ IF step = "tunnel" THEN tun' = "starting" ELSE UNCHANGED tun
    /\ UNCHANGED <<tready, tstop, child, ctx, front, late>>

BuildFails ==
    /\ main \in Building \ {"server"}
    /\ main' = "aborting"
    /\ UNCHANGED <<held, tunnel, child, ctx, front, late>>

(* abort: the server, the listener, the tunnel child, the audit log, and the *)
(* lock last.  Serve returns and its context goes.                           *)
AbortTunnel ==
    /\ main = "aborting" /\ "tunnel" \in held /\ ~tstop
    /\ held' = held \ {"server", "listener"}
    /\ tstop' = TRUE
    /\ UNCHANGED <<main, tun, tready, child, ctx, front, late>>

abort ==
    /\ main = "aborting" /\ ("tunnel" \in held => tstop)
    /\ \/ TunnelGone /\ UNCHANGED late
       \/ ~TunnelGone /\ Expires /\ late' = TRUE
    /\ held' = {} /\ main' = "exited" /\ ctx' = FALSE
    /\ UNCHANGED <<tunnel, child, front>>

-----------------------------------------------------------------------------
(* daemon.Serve: runtime.json, the socket, the child supervisor.             *)
ServeUp ==
    /\ main = "server"
    /\ main' = "serving"
    /\ held' = held \cup {"control"}
    /\ sup' = "top"
    /\ UNCHANGED <<tunnel, stopCh, ctx, front, late>>

(* It releases the lock itself before it reports the failure. *)
ServeError ==
    /\ main = "server" /\ ServeFails
    /\ main' = "aborting"
    /\ held' = held \ {"lock"}
    /\ UNCHANGED <<tunnel, child, ctx, front, late>>

(* The probes: http is always ready, the tunnel once its Ready channel is    *)
(* closed, herdr and the state engine are as they are.                       *)
TunnelReady == tready

probeComponents(r) ==
    /\ status[r] = "new" /\ "control" \in held
    /\ \E others \in BOOLEAN :
          status' = [status EXCEPT ![r] = IF TunnelReady /\ others THEN "ready" ELSE "unready"]
    /\ UNCHANGED <<main, held, tunnel, child, ctx, health, ctl, once, late>>

reconcileHealth(r) ==
    /\ status[r] \in {"ready", "unready"} /\ main # "exited"
    /\ health' = IF health = "stopping" THEN health
                 ELSE IF status[r] = "ready" THEN "ready" ELSE "degraded"
    /\ status' = [status EXCEPT ![r] = "done"]
    /\ UNCHANGED <<main, held, tunnel, child, ctx, ctl, once, late>>

(* A stop request, or a signal. *)
handleStop ==
    /\ "control" \in held /\ ctl = "none"
    /\ ctl' = "waiting"
    /\ UNCHANGED <<main, held, tunnel, child, ctx, health, status, once, late>>

Signal ==
    /\ main # "exited" /\ ctx
    /\ ctx' = FALSE
    /\ UNCHANGED <<main, held, tunnel, child, front, late>>

-----------------------------------------------------------------------------
(* Shutdown: whichever caller comes first runs the body, the other waits.    *)
Called == ctl = "waiting" \/ main = "waiting"

ShutdownMark ==
    /\ Called /\ once = "new"
    /\ once' = "marked" /\ health' = "stopping"
    /\ UNCHANGED <<main, held, tunnel, child, ctx, status, ctl, late>>

OnStop ==
    /\ once = "marked"
    /\ once' = "cancelled" /\ ctx' = FALSE
    /\ UNCHANGED <<main, held, tunnel, child, health, status, ctl, late>>

StopChildren ==
    /\ once = "cancelled"
    /\ once' = "children" /\ stopCh' = TRUE
    /\ UNCHANGED <<main, held, tunnel, sup, ctx, health, status, ctl, late>>

(* Mutant: the children are not waited for. *)
waitWithCtxNot ==
    /\ once = "children"
    /\ UNCHANGED late
    /\ once' = "control" /\ held' = held \ {"control"}
    /\ UNCHANGED <<main, tunnel, child, ctx, health, status, ctl>>

(* The supervisor's Run returned, or the deadline passed; the control socket *)
(* is closed.                                                                *)
waitWithCtx ==
    /\ once = "children"
    /\ \/ Returned /\ UNCHANGED late
       \/ ~Returned /\ Expires /\ late' = TRUE
    /\ once' = "control" /\ held' = held \ {"control"}
    /\ UNCHANGED <<main, tunnel, child, ctx, health, status, ctl>>

ReleaseLock ==
    /\ once = "control"
    /\ once' = "done" /\ held' = held \ {"lock"}
    /\ ctl' = IF ctl = "waiting" THEN "done" ELSE ctl
    /\ UNCHANGED <<main, tunnel, child, ctx, health, status, late>>

(* A stop that finds Shutdown done returns. *)
ControlReturns ==
    /\ ctl = "waiting" /\ once = "done" /\ main # "exited"
    /\ ctl' = "done"
    /\ UNCHANGED <<main, held, tunnel, child, ctx, health, status, once, late>>

(* stack.shutdown: the relay and its HTTP server, then the daemon, then the  *)
(* audit log.                                                                *)
shutdown ==
    /\ main = "serving" /\ ~ctx
    /\ main' = "closing"
    /\ held' = held \ {"server"}
    /\ UNCHANGED <<tunnel, child, ctx, front, late>>

shutdownDaemon ==
    /\ main = "closing"
    /\ main' = "waiting"
    /\ held' = held \ {"listener"}
    /\ UNCHANGED <<tunnel, child, ctx, front, late>>

Exit ==
    /\ main = "waiting" /\ once = "done"
    /\ main' = "exited"
    /\ held' = held \ {"auditor"}
    /\ UNCHANGED <<tunnel, child, ctx, front, late>>

-----------------------------------------------------------------------------
(* The child supervisor, which never restarts the tunnel.  Stopped before it *)
(* looked at its child, it returns without stopping it ("skipped").          *)
shouldStop == stopCh \/ ~ctx

SupStep(from, to) == sup = from /\ sup' = to
SupFrame == UNCHANGED <<main, held, tun, tready, stopCh, ctx, front, late>>

SupRun ==
    /\ \/ shouldStop /\ SupStep("top", "skipped")
       \/ ~shouldStop /\ SupStep("top", "await")
    /\ UNCHANGED tstop /\ SupFrame

(* awaitExit: the child's exit, a stop and the context race.                 *)
awaitExit ==
    /\ \/ Terminal /\ SupStep("await", "exit") /\ UNCHANGED tstop
       \/ shouldStop /\ SupStep("await", "stop") /\ tstop' = TRUE
    /\ SupFrame

DeliberateStop ==
    /\ Terminal /\ SupStep("stop", "stopped")
    /\ UNCHANGED tstop /\ SupFrame

giveUpOrWait ==
    /\ SupStep("exit", IF shouldStop THEN "stopped" ELSE "degraded")
    /\ UNCHANGED tstop /\ SupFrame

(* The tunnel supervisor. *)
TunFrame == UNCHANGED <<main, held, tstop, child, ctx, front, late>>

TunUp == tun = "starting" /\ tun' = "up" /\ tready' = TRUE /\ TunFrame
TunRestarts == tun = "up" /\ tun' = "starting" /\ UNCHANGED tready /\ TunFrame
TunDegrades == tun \in {"starting", "up"} /\ tun' = "degraded" /\ UNCHANGED tready /\ TunFrame
TunStops == /\ tun \in {"starting", "up"} /\ (tstop \/ ~ctx)
            /\ tun' = "stopped" /\ UNCHANGED tready /\ TunFrame

MainStep == \/ AbortTunnel \/ abort \/ ShutdownMark \/ OnStop \/ StopChildren \/ waitWithCtx
            \/ ReleaseLock \/ ControlReturns \/ shutdown \/ shutdownDaemon \/ Exit
ChildStep == SupRun \/ awaitExit \/ DeliberateStop \/ giveUpOrWait

Next ==
    \/ buildStack \/ BuildFails \/ ServeUp \/ ServeError
    \/ handleStop \/ Signal \/ MainStep
    \/ \E r \in Requests : probeComponents(r) \/ reconcileHealth(r)
    \/ main # "exited" /\ (ChildStep \/ TunUp \/ TunRestarts \/ TunDegrades \/ TunStops)

Spec == Init /\ [][Next]_vars

(* Goroutines run and a tunnel asked to stop does.  A tunnel need not come   *)
(* up, and nobody has to stop the daemon.                                    *)
FairSpec ==
    /\ Spec
    /\ WF_vars(MainStep)
    /\ WF_vars(main # "exited" /\ ChildStep)
    /\ WF_vars(main # "exited" /\ TunStops)

-----------------------------------------------------------------------------
(* The lock outlives the control socket and the tunnel: the next daemon can  *)
(* neither bind while this one answers nor meet its cloudflared, unless a    *)
(* teardown deadline passed or the supervisor never got to its child.        *)
LockLast ==
    "lock" \notin held =>
       "control" \notin held /\ (TunnelGone \/ late \/ sup = "skipped")

(* The process ends with everything let go of, whichever of the two callers  *)
(* ran Shutdown: main waits for a body it does not run.                      *)
ExitClean ==
    main = "exited" => held \subseteq {"tunnel", "url"} /\ (once # "new" => once = "done")

(* Once a shutdown began, the health stays "stopping": a status probe that   *)
(* began before cannot overwrite it (reconcileHealth checks under the lock). *)
StoppingSticks == [][health = "stopping" => health' = "stopping"]_vars

(* A stop request and a signal, alone or together, end the process.          *)
StopEnds == (main = "serving" /\ (ctl = "waiting" \/ ~ctx)) ~> main = "exited"

(* stack.go:331-332: the teardown will "stop the daemon (which stops         *)
(* cloudflared)"; deadlines aside, the process leaves no tunnel behind.      *)
TunnelStopped == main = "exited" => TunnelGone \/ late

(* daemon.go:119-121: on the tunnel's terminal exit the supervisor "records  *)
(* degraded and stops, leaving the probe to report the tunnel unavailable".  *)
ProbeSeesDegraded == sup = "degraded" => ~TunnelReady
=============================================================================
