------------------------------- MODULE Tunnel -------------------------------
(***************************************************************************)
(* The supervisor of the cloudflared child (internal/tunnel): the restart   *)
(* loop of supervisor.go, the child of process.go, and the pidfile with     *)
(* which orphan.go finds, after a crash of the daemon, the child the dead   *)
(* daemon left behind.                                                      *)
(*                                                                          *)
(* The operating system is part of the model: `table' says what runs under  *)
(* each pid, pids are recycled, and strangers (a cloudflared of the user's  *)
(* own, or any other program) may get the pid the pidfile names.  One unit  *)
(* of `clock' is a second; the 50 ms polls and the goroutine switches are   *)
(* far below it, so time passes only while the supervisor waits.            *)
(***************************************************************************)
EXTENDS Integers, FiniteSets

CONSTANTS Pids,            \* the pids of the machine
          NoPid,
          MaxClock,        \* bound on the clock
          MaxCrashes,      \* bound on how often the daemon is killed
          MaxStrangers,    \* bound on the unrelated processes
          MaxConsecutive,  \* supervisor.go:135 (5)
          Tolerance,       \* startTimeTolerance, orphan.go:175 (3 s)
          Grace,           \* Config.GracePeriod
          TokenCommand,    \* the token-command strategy writes a temporary file
          PsMayFail,       \* ps may be unavailable, or fail
          WriteMayFail     \* writing the pidfile may fail

ASSUME TunnelAssumption ==
    /\ NoPid \notin Pids
    /\ {MaxClock, MaxCrashes, MaxStrangers, Tolerance} \subseteq Nat
    /\ {MaxConsecutive, Grace} \subseteq Nat \ {0}
    /\ {TokenCommand, PsMayFail, WriteMayFail} \subseteq BOOLEAN

VARIABLES clock,
          table,        \* what runs under each pid
          pidfile,      \* the record on disk: survives a crash
          crashes,
          pc,           \* where the supervise loop is; "down": no daemon
          handle,       \* pid of the running child of this daemon
          hready,       \* its readiness channel is closed
          hdone,        \* its exit was reaped
          stop,         \* Supervisor.Stop closed stopCh
          ctx,          \* the serve context is cancelled
          token,        \* the temporary token file of this attempt exists
          consecutive,
          aged,         \* the child stayed ready past the stability window
          deadline,     \* of the grace period that is running
          state,        \* Supervisor.State
          left,         \* the recorded pid that was left because unverified
          lost          \* orphans no record leads to (history)

vars == <<clock, table, pidfile, crashes, pc, handle, hready, hdone, stop, ctx,
          token, consecutive, aged, deadline, state, left, lost>>

NoRecord == [pid |-> NoPid, created |-> 0]
Free == [what |-> "free", at |-> 0 - 2 * Tolerance - 1, hit |-> "none"]
Strangers == {"cloudflared", "other"}
Alive(p) == p # NoPid /\ table[p].what # "free"
Stopping == stop \/ ctx
Running == {"record", "wait", "ready", "term", "kill"}

TypeOK ==
    /\ clock \in 0..MaxClock
    /\ table \in [Pids -> [what : {"free", "child"} \cup Strangers,
                           at : (0 - 2 * Tolerance - 1)..MaxClock, hit : {"none", "term", "kill"}]]
    /\ pidfile \in [pid : Pids \cup {NoPid}, created : 0..MaxClock]
    /\ crashes \in 0..MaxCrashes
    /\ pc \in {"down", "reconcile", "orphan", "loop", "start", "sleep", "exit", "done"}
              \cup Running
    /\ handle \in Pids \cup {NoPid}
    /\ {hready, hdone, stop, ctx, token, aged} \subseteq BOOLEAN
    /\ consecutive \in 0..MaxConsecutive
    /\ deadline \in 0..MaxClock
    /\ state \in {"starting", "ready", "stopped", "degraded"}
    /\ left \in Pids \cup {NoPid}
    /\ lost \subseteq Pids

Init ==
    /\ clock = 0
    /\ table = [p \in Pids |-> Free]
    /\ pidfile = NoRecord
    /\ crashes = 0
    /\ pc = "reconcile"
    /\ handle = NoPid
    /\ hready = FALSE /\ hdone = FALSE
    /\ stop = FALSE /\ ctx = FALSE
    /\ token = FALSE
    /\ consecutive = 0
    /\ aged = FALSE
    /\ deadline = 0
    /\ state = "starting"
    /\ left = NoPid
    /\ lost = {}

daemonVars == <<hready, hdone, stop, ctx, token, consecutive, aged, state>>

-----------------------------------------------------------------------------
(* Signals.  SIGKILL ends whatever runs under the pid; SIGTERM is noted, and *)
(* the process may exit later (Exits) or ignore it.                          *)

(* The end of a grace period that starts now; the bound of the clock cuts it. *)
GraceEnd == IF clock + Grace > MaxClock THEN MaxClock ELSE clock + Grace

Gone == [what |-> "free", at |-> clock, hit |-> "none"]

SignalTerm(p) == IF Alive(p) THEN [table EXCEPT ![p].hit = "term"] ELSE table

SignalKill(p) ==
    IF Alive(p) THEN [table EXCEPT ![p] = [Gone EXCEPT !.hit = "kill"]] ELSE table

-----------------------------------------------------------------------------
(* reconcileOrphan: what a new daemon does with the record of the old one.  *)

(* Mutant: the start time is not compared. *)
VerifyBasenameOnly(rec) == table[rec.pid].what \in {"child", "cloudflared"}

(* Mutant: the tolerance is exclusive. *)
VerifyExclusive(rec) ==
    /\ table[rec.pid].what \in {"child", "cloudflared"}
    /\ table[rec.pid].at - rec.created \in (1 - Tolerance)..(Tolerance - 1)

verifyProcessIdentity(rec) ==
    /\ table[rec.pid].what \in {"child", "cloudflared"}
    /\ table[rec.pid].at - rec.created \in (0 - Tolerance)..Tolerance

NothingRecorded ==
    /\ pc = "reconcile"
    /\ ~Alive(pidfile.pid)
    /\ pidfile' = NoRecord
    /\ pc' = "loop"
    /\ UNCHANGED <<clock, table, crashes, handle, deadline, left, lost, daemonVars>>

OrphanTerm ==
    /\ pc = "reconcile"
    /\ Alive(pidfile.pid)
    /\ verifyProcessIdentity(pidfile)
    /\ table' = SignalTerm(pidfile.pid)
    /\ deadline' = GraceEnd
    /\ pc' = "orphan"
    /\ UNCHANGED <<clock, pidfile, crashes, handle, left, lost, daemonVars>>

LeaveUnverified ==
    /\ pc = "reconcile"
    /\ Alive(pidfile.pid)
    /\ \/ ~verifyProcessIdentity(pidfile) /\ UNCHANGED lost
       \/ PsMayFail /\ lost' = lost \cup {pidfile.pid}
    /\ left' = pidfile.pid
    /\ pc' = "loop"
    /\ UNCHANGED <<clock, table, pidfile, crashes, handle, deadline, daemonVars>>

(* terminateGroup: the poll that finds the orphan gone, or the grace period  *)
(* ends and the group is killed; either way the record goes.                 *)
terminateGroup ==
    /\ pc = "orphan"
    /\ \/ ~Alive(pidfile.pid) /\ UNCHANGED table
       \/ clock >= deadline /\ table' = SignalKill(pidfile.pid)
    /\ pidfile' = NoRecord
    /\ pc' = "loop"
    /\ UNCHANGED <<clock, crashes, handle, deadline, left, lost, daemonVars>>

-----------------------------------------------------------------------------
(* The supervise loop.                                                       *)

Finish(st) == state' = st /\ pc' = "exit"

(* `failures' is the counter the attempt ended with. *)
afterFailure(failures) ==
    \/ /\ Stopping
       /\ Finish("stopped")
       /\ UNCHANGED consecutive
    \/ /\ ~Stopping
       /\ consecutive' = failures + 1
       /\ IF failures + 1 >= MaxConsecutive THEN Finish("degraded")
          ELSE state' = "starting" /\ pc' = "sleep"

LoopStops ==
    /\ pc = "loop"
    /\ Stopping
    /\ Finish("stopped")
    /\ UNCHANGED <<clock, table, pidfile, crashes, handle, deadline, left, lost,
                   hready, hdone, stop, ctx, token, consecutive, aged>>

(* The temporary token file of an attempt, and its removal.                  *)
writeTokenFile == token' = TokenCommand
cleanup == token' = FALSE

(* The token command fails, or its output is refused, or cannot be written.  *)
runTokenCommand ==
    /\ pc = "loop"
    /\ ~Stopping
    /\ TokenCommand
    /\ afterFailure(consecutive)
    /\ UNCHANGED <<clock, table, pidfile, crashes, handle, deadline, left, lost,
                   hready, hdone, stop, ctx, token, aged>>

prepareToken ==
    /\ pc = "loop"
    /\ ~Stopping
    /\ writeTokenFile
    /\ pc' = "start"
    /\ UNCHANGED <<clock, table, pidfile, crashes, handle, deadline, left, lost,
                   hready, hdone, stop, ctx, consecutive, aged, state>>

StartFails ==
    /\ pc = "start"
    /\ cleanup
    /\ afterFailure(consecutive)
    /\ UNCHANGED <<clock, table, pidfile, crashes, handle, deadline, left, lost,
                   hready, hdone, stop, ctx, aged>>

startProcess ==
    /\ pc = "start"
    /\ \E p \in Pids :
          /\ ~Alive(p)
          /\ table' = [table EXCEPT ![p] = [what |-> "child", at |-> clock, hit |-> "none"]]
          /\ handle' = p
          /\ lost' = lost \ {p}
    /\ hready' = FALSE /\ hdone' = FALSE /\ aged' = FALSE
    /\ pc' = "record"
    /\ UNCHANGED <<clock, pidfile, crashes, deadline, left, stop, ctx, token,
                   consecutive, state>>

(* The record replaces the old one by a rename, or an error, which nobody    *)
(* looks at, leaves the old one.                                             *)
writePidRecord(p) ==
    \/ pidfile' = [pid |-> p, created |-> clock]
    \/ WriteMayFail /\ UNCHANGED pidfile

recordPid ==
    /\ pc = "record"
    /\ writePidRecord(handle)
    /\ pc' = "wait"
    /\ UNCHANGED <<clock, table, crashes, handle, deadline, left, lost, daemonVars>>

-----------------------------------------------------------------------------
(* waitAttempt.  A select whose channels are ready together may take any.    *)

ReadySeen ==
    /\ pc = "wait"
    /\ hready
    /\ cleanup
    /\ state' = "ready"
    /\ pc' = "ready"
    /\ UNCHANGED <<clock, table, pidfile, crashes, handle, deadline, left, lost,
                   hready, hdone, stop, ctx, consecutive, aged>>

(* The child exited: before it was ready, or after; a run that was ready     *)
(* longer than the stability window starts the counter again.                *)
ExitSeen ==
    /\ pc \in {"wait", "ready"}
    /\ hdone
    /\ cleanup
    /\ afterFailure(IF pc = "ready" /\ aged THEN 0 ELSE consecutive)
    /\ handle' = NoPid
    /\ UNCHANGED <<clock, table, pidfile, crashes, deadline, left, lost,
                   hready, hdone, stop, ctx, aged>>

(* gracefulStop and process.stop: SIGTERM to the group ...                   *)
StopSeen ==
    /\ pc \in {"wait", "ready"}
    /\ Stopping
    /\ table' = SignalTerm(handle)
    /\ deadline' = GraceEnd
    /\ pc' = "term"
    /\ UNCHANGED <<clock, pidfile, crashes, handle, left, lost, daemonVars>>

(* ... SIGKILL when the grace period is over ...                             *)
GraceExpires ==
    /\ pc = "term"
    /\ clock >= deadline
    /\ table' = SignalKill(handle)
    /\ pc' = "kill"
    /\ UNCHANGED <<clock, pidfile, crashes, handle, deadline, left, lost, daemonVars>>

(* ... and the stop ends when the exit is reaped, or two seconds after the   *)
(* SIGKILL (a descendant that holds the pipe delays the reaping as long).    *)
Stopped ==
    /\ \/ pc = "term" /\ hdone
       \/ pc = "kill"
    /\ cleanup
    /\ Finish("stopped")
    /\ handle' = NoPid
    /\ UNCHANGED <<clock, table, pidfile, crashes, deadline, left, lost,
                   hready, hdone, stop, ctx, consecutive, aged>>

(* defaultSleep: the backoff ends, or a stop interrupts it.                  *)
Wakes ==
    /\ pc = "sleep"
    /\ pc' = "loop"
    /\ UNCHANGED <<clock, table, pidfile, crashes, handle, deadline, left, lost, daemonVars>>

(* The deferred calls of run: the record is removed, doneCh closed.          *)
RunReturns ==
    /\ pc = "exit"
    /\ pidfile' = NoRecord
    /\ pc' = "done"
    /\ UNCHANGED <<clock, table, crashes, handle, deadline, left, lost, daemonVars>>

-----------------------------------------------------------------------------
(* The child, its reaper, the exec package.                                  *)

(* handleLine, markReady: the log announces the URL or the connection.       *)
ChildReady ==
    /\ pc \in Running
    /\ table[handle].what = "child"
    /\ ~hready /\ ~hdone
    /\ hready' = TRUE
    /\ UNCHANGED <<clock, table, pidfile, crashes, pc, handle, deadline, left, lost,
                   hdone, stop, ctx, token, consecutive, aged, state>>

Exits(p) ==
    /\ table[p].what = "child"
    /\ table' = [table EXCEPT ![p] = Gone]
    /\ lost' = lost \ {p}
    /\ UNCHANGED <<clock, pidfile, crashes, pc, handle, deadline, left, daemonVars>>

(* The goroutine of startProcess that waits for the child.                   *)
Reap ==
    /\ pc \in Running
    /\ ~Alive(handle)
    /\ ~hdone
    /\ hdone' = TRUE
    /\ UNCHANGED <<clock, table, pidfile, crashes, pc, handle, deadline, left, lost,
                   hready, stop, ctx, token, consecutive, aged, state>>

(* cmd.Cancel: the child's context is derived from the serve context.        *)
ContextKill ==
    /\ pc \in Running
    /\ ctx
    /\ ~hdone
    /\ table[handle].what = "child"
    /\ table' = SignalKill(handle)
    /\ UNCHANGED <<clock, pidfile, crashes, pc, handle, deadline, left, lost, daemonVars>>

Ages ==
    /\ pc = "ready"
    /\ ~hdone
    /\ ~aged
    /\ aged' = TRUE
    /\ UNCHANGED <<clock, table, pidfile, crashes, pc, handle, deadline, left, lost,
                   hready, hdone, stop, ctx, token, consecutive, state>>

-----------------------------------------------------------------------------
(* The rest of the daemon and of the machine.                                *)

Stop ==
    /\ pc # "down"
    /\ ~stop
    /\ stop' = TRUE
    /\ UNCHANGED <<clock, table, pidfile, crashes, pc, handle, deadline, left, lost,
                   hready, hdone, ctx, token, consecutive, aged, state>>

Cancel ==
    /\ pc # "down"
    /\ ~ctx
    /\ ctx' = TRUE
    /\ UNCHANGED <<clock, table, pidfile, crashes, pc, handle, deadline, left, lost,
                   hready, hdone, stop, token, consecutive, aged, state>>

ForgetDaemon ==
    /\ pc' = "down"
    /\ handle' = NoPid
    /\ hready' = FALSE /\ hdone' = FALSE
    /\ stop' = FALSE /\ ctx' = FALSE
    /\ token' = FALSE
    /\ consecutive' = 0
    /\ aged' = FALSE
    /\ deadline' = 0
    /\ state' = "starting"

(* The daemon ends after its supervisor did.                                 *)
DaemonExits ==
    /\ pc = "done"
    /\ Stopping
    /\ ForgetDaemon
    /\ UNCHANGED <<clock, table, pidfile, crashes, left, lost>>

(* SIGKILL, out of memory, a panic: nothing unwinds, the child lives on.     *)
Crash ==
    /\ pc # "down"
    /\ crashes < MaxCrashes
    /\ crashes' = crashes + 1
    /\ lost' = IF Alive(handle) /\ (pidfile.pid # handle \/ pidfile.created < table[handle].at)
               THEN lost \cup {handle} ELSE lost
    /\ ForgetDaemon
    /\ UNCHANGED <<clock, table, pidfile, left>>

Restart ==
    /\ pc = "down"
    /\ pc' = "reconcile"
    /\ left' = NoPid
    /\ UNCHANGED <<clock, table, pidfile, crashes, handle, deadline, lost, daemonVars>>

(* A pid is recycled only after the kernel went through the others: later,   *)
(* after its last process ended, than the delay of the record (see Waiting)  *)
(* and the tolerance of its check together.                                  *)
StrangerStarts(p) ==
    /\ Cardinality({q \in Pids : table[q].what \in Strangers}) < MaxStrangers
    /\ ~Alive(p)
    /\ clock > table[p].at + 2 * Tolerance
    /\ p = handle => hdone                \* a zombie keeps its pid
    /\ \E w \in Strangers :
          table' = [table EXCEPT ![p] = [what |-> w, at |-> clock, hit |-> "none"]]
    /\ UNCHANGED <<clock, pidfile, crashes, pc, handle, deadline, left, lost, daemonVars>>

(* Time passes while the supervisor waits for something that is not there.   *)
(* Between the start of a child and its record pass at most Tolerance units. *)
Waiting ==
    \/ pc \in {"down", "done", "sleep"}
    \/ pc = "record" /\ clock < table[handle].at + Tolerance
    \/ pc = "orphan" /\ Alive(pidfile.pid) /\ clock < deadline
    \/ pc \in {"wait", "ready"} /\ Alive(handle) /\ ~Stopping
    \/ pc = "term" /\ Alive(handle) /\ clock < deadline

Tick ==
    /\ clock < MaxClock
    /\ Waiting
    /\ clock' = clock + 1
    /\ UNCHANGED <<table, pidfile, crashes, pc, handle, deadline, left, lost, daemonVars>>

Step ==
    \/ NothingRecorded \/ OrphanTerm \/ LeaveUnverified \/ terminateGroup
    \/ LoopStops \/ runTokenCommand \/ prepareToken \/ StartFails \/ startProcess \/ recordPid
    \/ ReadySeen \/ ExitSeen \/ StopSeen \/ GraceExpires \/ Stopped
    \/ Wakes \/ RunReturns \/ Reap

Next ==
    \/ Step
    \/ ChildReady \/ (\E p \in Pids : Exits(p)) \/ ContextKill \/ Ages
    \/ Stop \/ Cancel \/ DaemonExits \/ Crash \/ Restart
    \/ (\E p \in Pids : StrangerStarts(p)) \/ Tick

Spec == Init /\ [][Next]_vars

(* The goroutines of the daemon run, timers fire.  Nothing is assumed of the *)
(* child: it may ignore SIGTERM and run for ever.                            *)
FairSpec == Spec /\ WF_vars(Step) /\ WF_vars(Tick) /\ WF_vars(Wakes) /\ WF_vars(Reap)

-----------------------------------------------------------------------------
(* A signal never reaches a process that is not a child of this program,     *)
(* whatever pid it got: reconcileOrphan kills only "when, and only when" the *)
(* recorded process is the one that runs (orphan.go:97-100), and the stop of *)
(* a child that exited meanwhile hits nobody else.                           *)
NoStrangerSignalled ==
    \A p \in Pids : table[p].what \in Strangers => table[p].hit = "none"

(* At most one cloudflared runs for this program while a child of the        *)
(* present daemon does: restarts wait for the exit, and a crashed daemon's   *)
(* child is ended before a new one starts, unless no record leads to it.     *)
NoOrphanBeside ==
    pc \in Running =>
        \A p \in Pids \ (lost \cup {handle}) : table[p].what # "child"

(* The temporary token file exists only while an attempt is on its way to    *)
(* readiness: every path out of waitAttempt and a failed start remove it.    *)
TokenGone == token => pc \in {"start", "record", "wait", "term", "kill"}

(* When the supervise loop returned, the child of this daemon is gone        *)
(* (supervisor.go:193: "On any exit (stopped/degraded) the child is gone"),  *)
(* so removing the record loses nothing.                                     *)
GoneAtExit ==
    pc \in {"exit", "done"} => \A p \in Pids \ lost : table[p].what # "child"

(* Nothing of an attempt stays behind it: no second child, no child after the    *)
(* loop, no token file (superviseLoop, waitAttempt, cleanupOrphan).              *)
NothingLeft == NoOrphanBeside /\ GoneAtExit /\ TokenGone

(* A stop ends: within the grace period and the kill that follows it, even   *)
(* if the child ignores SIGTERM, the supervise loop returns.                 *)
StopCompletes == (Stopping /\ pc # "down") ~> (pc \in {"done", "down"})

(* A child that crashes again and again without being ready for the          *)
(* stability window drives the supervisor to give up instead of restarting   *)
(* it for ever.                                                              *)
FlappingEnds == ([]<>(pc = "sleep") /\ <>[](~aged)) => <>(pc = "done")

(* orphan.go:24-27: the next start ends the orphan "before starting a fresh  *)
(* child".                                                                   *)
OrphanClosed == pc \in Running => \A p \in Pids \ {handle} : table[p].what # "child"

(* orphan.go:100-101 and :121: a record that could not be verified is        *)
(* retained "for a later, confirmable attempt".                              *)
RecordRetained == Alive(left) => pidfile.pid = left

(* SPEC.md:325-326: a stopping daemon "asks cloudflared to terminate, waits  *)
(* for a bounded grace period, then kills".                                  *)
GraceGiven ==
    [][\A p \in Pids : table'[p].hit = "kill" /\ table[p].hit # "kill"
          => table[p].hit = "term" /\ clock >= deadline]_vars
=============================================================================
