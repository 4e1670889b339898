------------------------------ MODULE StateDir ------------------------------
(***************************************************************************)
(* Who owns the state directory: the commands of the CLI (start, stop,       *)
(* toggle; integration/runtime.go, app/commands.go), the detached serve      *)
(* processes they spawn (integration/stack.go, daemon.Serve, Shutdown), and  *)
(* the three files they meet at: the advisory lock, runtime.json and the     *)
(* control socket (daemon/statelock.go, runtime.go, control.go,              *)
(* reconcile.go).  Commands run concurrently, a serve process may be killed  *)
(* at any point, pids are recycled, and a child that exited stays a zombie,  *)
(* alive to a signal 0, until the command that spawned it ends.              *)
(***************************************************************************)
EXTENDS Naturals, FiniteSets

CONSTANTS Cmds,        \* invocations of the CLI
          Serves,      \* serve processes; each is its own instance id
          None,
          Ops,         \* subset of {"start", "stop", "toggle", "serve"}
          MaxKills,    \* bound on killed serve processes
          Slow,        \* a status answer may take longer than the probe waits
          Fails,       \* serve may fail to build its stack
          Quick,       \* quick mode, or named
          Timeouts,    \* a start may run out of time
          Reaps,       \* spawnServe (a field of Runtime) leaves no zombie
          Recycle      \* pids of dead processes may be reused

ASSUME StateDirAssumption ==
    /\ None \notin Serves \cup Cmds
    /\ Ops \subseteq {"start", "stop", "toggle", "serve"}
    /\ MaxKills \in Nat
    /\ {Slow, Fails, Quick, Timeouts, Reaps, Recycle} \subseteq BOOLEAN

VARIABLES lock,      \* holder of the flock
          runtime,   \* instance named by runtime.json
          socket,    \* instance listening at the socket path
          serve,     \* where each serve process is
          recycled,  \* dead serves whose pid is another process by now
          kills,
          cmd        \* the commands

dirVars == <<lock, runtime, socket, serve, recycled, kills, cmd>>

Live(i) == serve[i] \notin {"none", "dead"}

NewCmd == [op |-> "none", at |-> "new", rec |-> None, child |-> None, res |-> "none"]

DirTypeOK ==
    /\ {lock, runtime, socket} \subseteq Serves \cup {None}
    /\ serve \in [Serves -> {"none", "boot", "locked", "runtime", "serving",
                             "closing", "closed", "dead"}]
    /\ recycled \subseteq {i \in Serves : serve[i] = "dead"}
    /\ kills \in 0..MaxKills
    /\ cmd \in [Cmds -> [op : {"none", "start", "stop", "toggle", "serve"},
                         at : {"new", "read", "probe", "clean", "spawn", "wait",
                               "confirm", "ask", "end"},
                         rec : Serves \cup {None}, child : Serves \cup {None},
                         res : {"none", "started", "already", "stopped", "notrunning",
                                "exited", "timeout", "error"}]]
    /\ \A c \in Cmds : /\ cmd[c].at \in {"wait", "confirm"} <=> cmd[c].child # None
                       /\ cmd[c].at \in {"probe", "ask"} => cmd[c].rec # None

DirInit ==
    /\ lock = None /\ runtime = None /\ socket = None
    /\ serve = [i \in Serves |-> "none"]
    /\ recycled = {}
    /\ kills = 0
    /\ cmd = [c \in Cmds |-> NewCmd]

files == <<lock, runtime, socket>>
procs == <<serve, recycled, kills>>

(* ProcessAlive: signal 0 reaches a running process, a recycled pid, and a   *)
(* zombie whose parent has not ended: defaultSpawnServe releases its child    *)
(* and never waits for it.                                                   *)
Zombie(i) == ~Reaps /\ serve[i] = "dead" /\ \E c \in Cmds : cmd[c].child = i /\ cmd[c].at # "end"
ProcessAlive(i) == Live(i) \/ i \in recycled \/ Zombie(i)

(* A daemon whose socket is reachable answers until it closes it.            *)
Answers(i) == i # None /\ socket = i /\ serve[i] \in {"serving", "closing"}

Goto(c, at) == cmd' = [cmd EXCEPT ![c].at = at]
End(c, res) == cmd' = [cmd EXCEPT ![c] = [NewCmd EXCEPT !.op = cmd[c].op,
                                                       !.at = "end", !.res = res]]

-----------------------------------------------------------------------------
(* A command begins; Reconcile reads runtime.json.  "serve" and the          *)
(* foreground start become a serve process themselves.                       *)

Begin(c) ==
    /\ cmd[c].at = "new"
    /\ \E op \in Ops \ {"serve"} : cmd' = [cmd EXCEPT ![c].op = op, ![c].at = "read"]
    /\ UNCHANGED <<files, procs>>

Foreground(c) ==
    /\ cmd[c].at = "new"
    /\ "serve" \in Ops
    /\ \E i \in Serves : serve[i] = "none" /\ serve' = [serve EXCEPT ![i] = "boot"]
    /\ cmd' = [cmd EXCEPT ![c].op = "serve", ![c].at = "end"]
    /\ UNCHANGED <<files, recycled, kills>>

(* What a command does when no daemon runs. *)
NotRunning(c, stale) ==
    \/ cmd[c].op = "toggle" /\ cmd' = [cmd EXCEPT ![c].op = "start", ![c].at = "read"]
    \/ cmd[c].op # "toggle" /\ stale /\ Goto(c, "clean")
    \/ cmd[c].op = "start" /\ ~stale /\ Goto(c, "spawn")
    \/ cmd[c].op = "stop" /\ ~stale /\ End(c, "notrunning")

LoadRuntime(c) ==
    /\ cmd[c].at = "read"
    /\ \/ runtime = None /\ NotRunning(c, FALSE)
       \/ runtime # None /\ cmd' = [cmd EXCEPT ![c].rec = runtime, ![c].at = "probe"]
    /\ UNCHANGED <<files, procs>>

(* The probe of the recorded daemon: its pid, its socket, its instance id.   *)
ProbeFails(c) ==
    /\ cmd[c].at = "probe"
    /\ \/ ~ProcessAlive(cmd[c].rec)
       \/ ~Answers(cmd[c].rec)
       \/ Slow
    /\ NotRunning(c, TRUE)
    /\ UNCHANGED <<files, procs>>

(* Mutant: a live pid is proof enough. *)
ProbePidOnly(c) ==
    /\ cmd[c].at = "probe"
    /\ ProcessAlive(cmd[c].rec)
    /\ \/ cmd[c].op = "start" /\ End(c, "already")
       \/ cmd[c].op = "stop" /\ Goto(c, "ask")
       \/ cmd[c].op = "toggle" /\ cmd' = [cmd EXCEPT ![c].op = "stop", ![c].at = "read"]
    /\ UNCHANGED <<files, procs>>

ProbeRunning(c) ==
    /\ cmd[c].at = "probe"
    /\ ProcessAlive(cmd[c].rec)
    /\ Answers(cmd[c].rec)
    /\ \/ cmd[c].op = "start" /\ End(c, "already")
       \/ cmd[c].op = "stop" /\ Goto(c, "ask")
       \/ cmd[c].op = "toggle" /\ cmd' = [cmd EXCEPT ![c].op = "stop", ![c].at = "read"]
    /\ UNCHANGED <<files, procs>>

CleanupStale(c) ==
    /\ cmd[c].at = "clean"
    /\ runtime' = None
    /\ socket' = None
    /\ IF cmd[c].op = "start" THEN Goto(c, "spawn") ELSE End(c, "notrunning")
    /\ UNCHANGED <<lock, procs>>

-----------------------------------------------------------------------------
(* Start: spawn a serve process, wait for a daemon to answer.                *)

spawnServe(c) ==
    /\ cmd[c].at = "spawn"
    /\ \E i \in Serves :
          /\ serve[i] = "none"
          /\ serve' = [serve EXCEPT ![i] = "boot"]
          /\ cmd' = [cmd EXCEPT ![c].at = "wait", ![c].child = i]
    /\ UNCHANGED <<files, recycled, kills>>

(* waitReady takes the daemon that answers, whoever spawned it.              *)
WaitAnswered(c) ==
    /\ cmd[c].at = "wait"
    /\ Answers(socket)
    /\ Goto(c, "confirm")
    /\ UNCHANGED <<files, procs>>

(* Its child is gone and, at a last look, no daemon answers.                 *)
WaitExited(c) ==
    /\ cmd[c].at = "wait"
    /\ ~ProcessAlive(cmd[c].child)
    /\ ~Answers(socket)
    /\ End(c, "exited")
    /\ UNCHANGED <<files, procs>>

(* Mutant: the front door is confirmed only for the start's own child. *)
ConfirmOwn(c) ==
    /\ cmd[c].at = "confirm"
    /\ Answers(socket)
    /\ socket = cmd[c].child
    /\ End(c, "started")
    /\ UNCHANGED <<files, procs>>

(* The front door is confirmed.  In named mode any daemon that answers can   *)
(* report its tunnel ready; in quick mode the public probe carries the token *)
(* that only the start's own child was given.                                *)
Confirm(c) ==
    /\ cmd[c].at = "confirm"
    /\ ProcessAlive(cmd[c].child)
    /\ Answers(socket)
    /\ Quick => socket = cmd[c].child
    /\ End(c, "started")
    /\ UNCHANGED <<files, procs>>

ConfirmExited(c) ==
    /\ cmd[c].at = "confirm"
    /\ ~ProcessAlive(cmd[c].child)
    /\ End(c, "exited")
    /\ UNCHANGED <<files, procs>>

TimesOut(c) ==
    /\ Timeouts
    /\ cmd[c].at \in {"wait", "confirm"}
    /\ End(c, "timeout")
    /\ UNCHANGED <<files, procs>>

(* Stop: the stop request over the control socket.                           *)
AskStop(c) ==
    /\ cmd[c].at = "ask"
    /\ \/ /\ Answers(socket)
          /\ serve' = [serve EXCEPT ![socket] = "closing"]
          /\ End(c, "stopped")
       \/ /\ ~Answers(socket)
          /\ End(c, "error")
          /\ UNCHANGED serve
    /\ UNCHANGED <<files, recycled, kills>>

-----------------------------------------------------------------------------
(* The serve process.                                                        *)

Moves(i, from, to) == serve[i] = from /\ serve' = [serve EXCEPT ![i] = to]

AcquireStateLock(i) ==
    /\ lock = None
    /\ Moves(i, "boot", "locked")
    /\ lock' = i
    /\ UNCHANGED <<runtime, socket, recycled, kills, cmd>>

ErrStateLocked(i) ==
    /\ lock # None
    /\ Moves(i, "boot", "dead")
    /\ UNCHANGED <<files, recycled, kills, cmd>>

(* buildStack, before or after it took the lock, or daemon.Serve fails:      *)
(* abort releases what was taken.                                            *)
abort(i) ==
    /\ Fails
    /\ \E at \in {"boot", "locked", "runtime"} : Moves(i, at, "dead")
    /\ lock' = IF lock = i THEN None ELSE lock
    /\ UNCHANGED <<runtime, socket, recycled, kills, cmd>>

WriteRuntime(i) ==
    /\ Moves(i, "locked", "runtime")
    /\ runtime' = i
    /\ UNCHANGED <<lock, socket, recycled, kills, cmd>>

(* A stale socket file is removed, then the listener bound.                  *)
Listen(i) ==
    /\ Moves(i, "runtime", "serving")
    /\ socket' = i
    /\ UNCHANGED <<lock, runtime, recycled, kills, cmd>>

(* A signal, instead of the stop command.                                    *)
Signalled(i) ==
    /\ Moves(i, "serving", "closing")
    /\ UNCHANGED <<files, recycled, kills, cmd>>

(* Mutant: the lock is released before the socket is closed. *)
CloseUnlocked(i) ==
    /\ Moves(i, "closing", "closed")
    /\ lock' = None
    /\ UNCHANGED <<runtime, socket, recycled, kills, cmd>>

(* ControlServer.Close removes the file at the path.                         *)
CloseControl(i) ==
    /\ Moves(i, "closing", "closed")
    /\ socket' = None
    /\ UNCHANGED <<lock, runtime, recycled, kills, cmd>>

Release(i) ==
    /\ Moves(i, "closed", "dead")
    /\ lock' = IF lock = i THEN None ELSE lock
    /\ UNCHANGED <<runtime, socket, recycled, kills, cmd>>

(* The kernel drops the lock of a killed process; the files stay.            *)
Kill(i) ==
    /\ Live(i)
    /\ kills < MaxKills
    /\ kills' = kills + 1
    /\ serve' = [serve EXCEPT ![i] = "dead"]
    /\ lock' = IF lock = i THEN None ELSE lock
    /\ UNCHANGED <<runtime, socket, recycled, cmd>>

PidRecycled(i) ==
    /\ Recycle
    /\ serve[i] = "dead"
    /\ ~Zombie(i)
    /\ i \notin recycled
    /\ recycled' = recycled \cup {i}
    /\ UNCHANGED <<files, serve, kills, cmd>>

CmdStep(c) ==
    \/ LoadRuntime(c) \/ ProbeFails(c) \/ ProbeRunning(c) \/ CleanupStale(c)
    \/ spawnServe(c) \/ WaitAnswered(c) \/ WaitExited(c) \/ Confirm(c)
    \/ ConfirmExited(c) \/ AskStop(c)

ServeStep(i) ==
    \/ AcquireStateLock(i) \/ ErrStateLocked(i) \/ abort(i) \/ WriteRuntime(i)
    \/ Listen(i) \/ CloseControl(i) \/ Release(i)

DirNext ==
    \/ \E c \in Cmds : Begin(c) \/ Foreground(c) \/ CmdStep(c) \/ TimesOut(c)
    \/ \E i \in Serves : ServeStep(i) \/ Signalled(i) \/ Kill(i) \/ PidRecycled(i)

DirSpec == DirInit /\ [][DirNext]_dirVars

(* Commands poll and serve processes run; nobody has to stop a daemon.       *)
FairDirSpec ==
    /\ DirSpec
    /\ \A c \in Cmds : WF_dirVars(CmdStep(c))
    /\ \A i \in Serves : WF_dirVars(ServeStep(i))

-----------------------------------------------------------------------------
(* The control socket and runtime.json belong to the daemon that holds the   *)
(* lock, or to one whose teardown is past them: the lock spans the bind and  *)
(* is released last, so no daemon tears down what another one bound.         *)
FilesOwned ==
    /\ socket # None => lock = socket \/ serve[socket] = "dead"
    /\ runtime # None => lock = runtime \/ serve[runtime] = "dead"

(* A start says that the daemon runs only while one answers at the socket,   *)
(* and that one holds the lock: a recycled pid, or files left behind by a    *)
(* crash, never pass for a daemon (Reconcile, waitReady).                    *)
SuccessMeansDaemon ==
    [][\A c \in Cmds : cmd[c].res = "none" /\ cmd'[c].res \in {"started", "already"} =>
          socket # None /\ lock = socket /\ serve[socket] \in {"serving", "closing"}]_dirVars

(* runtime.go:391-392: a start whose child lost the race for the lock "must  *)
(* still adopt the winning daemon", unless that daemon stops meanwhile.      *)
LoserAdopts ==
    \A c \in Cmds, i \in Serves :
       (cmd[c].at = "confirm" /\ socket = i)
          ~> (cmd[c].res = "started" \/ socket # i \/ ~Answers(i))

(* A daemon asked to stop ends and lets go of the lock, so that the next     *)
(* start can have the directory.                                             *)
StopFrees == \A i \in Serves : (serve[i] = "closing") ~> (serve[i] = "dead" /\ lock # i)

(* statelock.go:20-22: "concurrent starts cannot remove or rebind each       *)
(* other's control socket".                                                  *)
LiveSocketKept == \A i \in Serves : serve[i] = "serving" => socket = i

(* runtime.go:386-387: waitReady ends when "the spawned process exits        *)
(* without any daemon coming up".                                            *)
ExitNoticed ==
    \A c \in Cmds : (cmd[c].at = "wait" /\ serve[cmd[c].child] = "dead"
                       /\ \A i \in Serves : ~Live(i)) ~> (cmd[c].at = "end")
=============================================================================
