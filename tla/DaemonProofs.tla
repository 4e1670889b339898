---------------------------- MODULE DaemonProofs ----------------------------
(***************************************************************************)
(* The serve process and what hangs on it, for any number of pids,         *)
(* strangers, kills, seconds, control clients and status requests: the     *)
(* cloudflared child and the record that outlives its daemon (Tunnel), the *)
(* order in which a serve process lets go of what it holds (Stack), and    *)
(* its control socket (ControlServer).                                     *)
(***************************************************************************)
EXTENDS Tunnel, TLAPS

-----------------------------------------------------------------------------
(* The tunnel child and its record *)

(* What the record and the table say of each other.  A record is written at
   most Tolerance after its process started or, if that is over already, ended;
   so a stranger, who came more than twice Tolerance after that end, is told
   from the recorded process by its start time. *)
RecordOK ==
    /\ pidfile.created <= clock
    /\ pidfile.pid # NoPid =>
          IF table[pidfile.pid].what \in Strangers
          THEN table[pidfile.pid].at > pidfile.created + Tolerance
          ELSE pidfile.created <= table[pidfile.pid].at + Tolerance

(* While a child is supervised its pid is nobody else's: too little time passes
   between its end and the moment the supervisor turns to something else. *)
HandleOK ==
    /\ pc \in Running <=> handle # NoPid
    /\ pc \in Running =>
          /\ table[handle].what \in {"free", "child"}
          /\ pc = "record" \/ table[handle].what = "free" => clock <= table[handle].at + Tolerance
          /\ hdone \/ pc = "kill" => table[handle].what = "free"

(* The same for the orphan that is being ended. *)
OrphanOK ==
    pc = "orphan" =>
        /\ pidfile.pid # NoPid
        /\ table[pidfile.pid].what \in {"free", "child"}
        /\ table[pidfile.pid].what = "free" => clock <= table[pidfile.pid].at

(* A child that is neither supervised nor given up is found through the
   record, which identifies it; and only until the orphan was dealt with. *)
ChildrenOK ==
    \A p \in Pids \ (lost \cup {handle}) :
        table[p].what = "child" =>
            /\ pc \in {"down", "reconcile", "orphan"}
            /\ pidfile.pid = p
            /\ table[p].at - pidfile.created \in (0 - Tolerance)..Tolerance

CounterOK == consecutive = MaxConsecutive => pc \in {"exit", "done"}

IInv ==
    /\ TypeOK /\ CounterOK /\ TokenGone
    /\ RecordOK /\ HandleOK /\ OrphanOK /\ ChildrenOK /\ NoStrangerSignalled

Entry == [what : {"free", "child"} \cup Strangers,
          at : (0 - 2 * Tolerance - 1)..MaxClock, hit : {"none", "term", "kill"}]

FlagsOK == {hready, hdone, stop, ctx, token, aged} \subseteq BOOLEAN

NumbersOK ==
    /\ clock \in 0..MaxClock
    /\ table \in [Pids -> Entry]
    /\ pidfile \in [pid : Pids \cup {NoPid}, created : 0..MaxClock]
    /\ crashes \in 0..MaxCrashes
    /\ pc \in {"down", "reconcile", "orphan", "loop", "start", "sleep", "exit", "done"}
              \cup Running
    /\ handle \in Pids \cup {NoPid}
    /\ consecutive \in 0..MaxConsecutive
    /\ deadline \in 0..MaxClock
    /\ state \in {"starting", "ready", "stopped", "degraded"}
    /\ left \in Pids \cup {NoPid}
    /\ lost \subseteq Pids

(* The two halves of TypeOK. *)
LEMMA TunnelTypes == TypeOK <=> NumbersOK /\ FlagsOK
BY Zenon DEF TypeOK, NumbersOK, FlagsOK, Entry

(* No record, no child. *)
LEMMA InitIInv == Init => IInv
<1> SUFFICES ASSUME Init PROVE IInv
  BY Zenon
<1> USE TunnelAssumption DEF Init, Free, NoRecord, Running, Strangers
<1>1. TypeOK
  <2>1. /\ MaxClock \in Nat /\ MaxCrashes \in Nat /\ Tolerance \in Nat
        /\ MaxConsecutive \in Nat \ {0}
    BY Zenon
  <2>2. Free \in Entry
    BY <2>1 DEF Entry
  <2>3. table \in [Pids -> Entry]
    BY <2>2, Zenon
  <2>4. pidfile \in [pid : Pids \cup {NoPid}, created : 0..MaxClock]
    BY <2>1
  <2>5. NumbersOK
    BY <2>1, <2>3, <2>4 DEF NumbersOK
  <2>6. FlagsOK
    BY Zenon DEF FlagsOK
  <2> QED BY <2>5, <2>6, TunnelTypes, Zenon
<1>2. CounterOK /\ TokenGone /\ RecordOK /\ HandleOK /\ OrphanOK /\ NoStrangerSignalled
  BY DEF CounterOK, TokenGone, RecordOK, HandleOK, OrphanOK, NoStrangerSignalled
<1>3. ChildrenOK
  BY Zenon DEF ChildrenOK
<1> QED BY <1>1, <1>2, <1>3, Zenon DEF IInv

(* The table after one entry was replaced. *)
LEMMA ReplaceEntry ==
    ASSUME TypeOK, NEW p \in Pids, NEW e \in Entry, table' = [table EXCEPT ![p] = e]
    PROVE  /\ table' \in [Pids -> Entry]
           /\ table'[p] = e
           /\ \A q \in Pids \ {p} : table'[q] = table[q]
BY Zenon DEF TypeOK, Entry

(* SIGTERM leaves a mark on a process and nothing else. *)
LEMMA TermSignal ==
    ASSUME TypeOK, NEW p \in Pids, table' = SignalTerm(p)
    PROVE  /\ table' \in [Pids -> Entry]
           /\ \A q \in Pids : table'[q].what = table[q].what /\ table'[q].at = table[q].at
           /\ \A q \in Pids \ {p} : table'[q].hit = table[q].hit
<1>1. table \in [Pids -> Entry]
  BY Zenon DEF TypeOK, Entry
<1> QED BY <1>1, Zenon DEF SignalTerm, Alive, Entry

(* SIGKILL ends what runs under the pid. *)
LEMMA KillSignal ==
    ASSUME TypeOK, NEW p \in Pids, table' = SignalKill(p)
    PROVE  /\ table' \in [Pids -> Entry]
           /\ table'[p].what = "free"
           /\ \A q \in Pids \ {p} : table'[q] = table[q]
           /\ IF table[p].what = "free" THEN table'[p] = table[p] ELSE table'[p].at = clock
<1>1. table \in [Pids -> Entry] /\ clock \in 0..MaxClock
  BY Zenon DEF TypeOK, Entry
<1> DEFINE e == [what |-> "free", at |-> clock, hit |-> "kill"]
<1>2. e \in Entry
  BY <1>1, TunnelAssumption DEF Entry
<1>3. CASE table[p].what = "free"
  BY <1>1, <1>3, Zenon DEF SignalKill, Alive
<1>4. CASE table[p].what # "free"
  <2>1. [Gone EXCEPT !.hit = "kill"] = e
    BY DEF Gone
  <2>2. table' = [table EXCEPT ![p] = e]
    BY <1>4, <2>1, TunnelAssumption, Zenon DEF SignalKill, Alive
  <2> QED BY <1>1, <1>2, <1>4, <2>2
<1> QED BY <1>3, <1>4, Zenon

(* The steps that leave the daemon's own variables alone ... *)
OutsideStep ==
    \/ NothingRecorded \/ OrphanTerm \/ LeaveUnverified \/ terminateGroup \/ recordPid
    \/ StopSeen \/ GraceExpires \/ Wakes \/ RunReturns \/ (\E p \in Pids : Exits(p))
    \/ ContextKill \/ Restart \/ (\E p \in Pids : StrangerStarts(p)) \/ Tick

(* ... and those that leave the table, the record and the clock alone. *)
InsideStep ==
    \/ LoopStops \/ runTokenCommand \/ prepareToken \/ StartFails \/ ReadySeen \/ ExitSeen
    \/ Stopped \/ Reap \/ ChildReady \/ Ages \/ Stop \/ Cancel \/ DaemonExits \/ Crash

(* A step is taken outside the daemon, inside it, or starts the child. *)
LEMMA NextSteps == Next => OutsideStep \/ InsideStep \/ startProcess
BY Zenon DEF Next, Step, OutsideStep, InsideStep

(* Steps of the daemon alone leave clock, process table and record. *)
LEMMA InsideFrame == InsideStep => UNCHANGED <<clock, table, pidfile>>
BY Zenon DEF InsideStep, LoopStops, runTokenCommand, prepareToken, StartFails, ReadySeen, ExitSeen,
   Stopped, Reap, ChildReady, Ages, Stop, Cancel, DaemonExits, Crash

(* Steps outside the daemon leave its variables. *)
LEMMA OutsideFrame == OutsideStep => UNCHANGED daemonVars
BY Zenon DEF OutsideStep, NothingRecorded, OrphanTerm, LeaveUnverified, terminateGroup, recordPid,
   StopSeen, GraceExpires, Wakes, RunReturns, Exits, ContextKill, Restart, StrangerStarts, Tick

(* Flags stay flags. *)
LEMMA FlagsStep == FlagsOK /\ Next => FlagsOK'
<1> SUFFICES ASSUME FlagsOK, Next PROVE FlagsOK'
  BY Zenon
<1>1. CASE OutsideStep
  BY <1>1, OutsideFrame, Zenon DEF FlagsOK, daemonVars
<1>2. CASE \/ LoopStops \/ runTokenCommand \/ StartFails \/ ReadySeen \/ ExitSeen \/ Stopped
           \/ Reap \/ ChildReady \/ Ages \/ Stop \/ Cancel
  BY <1>2, Zenon DEF FlagsOK, LoopStops, runTokenCommand, StartFails, ReadySeen, ExitSeen,
     Stopped, Reap, ChildReady, Ages, Stop, Cancel, cleanup
<1>3. CASE prepareToken
  BY <1>3, TunnelAssumption, Zenon DEF FlagsOK, prepareToken, writeTokenFile
<1>4. CASE DaemonExits \/ Crash \/ startProcess
  BY <1>4, Zenon DEF FlagsOK, DaemonExits, Crash, ForgetDaemon, startProcess
<1> QED BY <1>1, <1>2, <1>3, <1>4, NextSteps, Zenon DEF InsideStep

(* The constants, for the arithmetic. *)
LEMMA Bounds ==
    /\ MaxClock \in Nat /\ MaxCrashes \in Nat /\ Tolerance \in Nat
    /\ MaxConsecutive \in Nat \ {0} /\ Grace \in Nat \ {0}
    /\ NoPid \notin Pids
BY TunnelAssumption, Zenon

(* The end of the grace period lies within the clock (gracefulKill). *)
LEMMA GraceEnds == clock \in 0..MaxClock => GraceEnd \in 0..MaxClock
BY Bounds DEF GraceEnd

(* afterFailure counts up to the limit, and gives up there. *)
LEMMA Failures ==
    ASSUME NEW n \in 0..(MaxConsecutive - 1), consecutive \in 0..(MaxConsecutive - 1),
           afterFailure(n)
    PROVE  /\ pc' \in {"exit", "sleep"}
           /\ state' \in {"starting", "stopped", "degraded"}
           /\ consecutive' \in 0..MaxConsecutive
           /\ consecutive' = MaxConsecutive => pc' = "exit"
BY Bounds DEF afterFailure, Finish

(* Times and counters stay in their ranges. *)
LEMMA NumbersStep == TypeOK /\ CounterOK /\ HandleOK /\ OrphanOK /\ Next => NumbersOK' /\ CounterOK'
<1> SUFFICES ASSUME TypeOK, CounterOK, HandleOK, OrphanOK, Next
             PROVE  NumbersOK' /\ CounterOK'
  BY Zenon
<1>0. NumbersOK
  BY TunnelTypes, Zenon
<1> USE Bounds DEF NumbersOK, CounterOK, Running
<1>1. CASE NothingRecorded \/ LeaveUnverified \/ Wakes \/ RunReturns \/ Restart
  BY <1>0, <1>1 DEF NothingRecorded, LeaveUnverified, Wakes, RunReturns, Restart, NoRecord,
     daemonVars, Alive
<1>2. CASE OrphanTerm
  <2>1. pidfile.pid \in Pids
    BY <1>0, <1>2, Zenon DEF OrphanTerm, Alive
  <2> QED BY <1>0, <1>2, <2>1, TermSignal, GraceEnds, Zenon DEF OrphanTerm, daemonVars
<1>3. CASE terminateGroup
  <2>1. pidfile.pid \in Pids
    BY <1>0, <1>3, Zenon DEF terminateGroup, OrphanOK
  <2> QED BY <1>0, <1>3, <2>1, KillSignal DEF terminateGroup, NoRecord, daemonVars
<1>4. CASE LoopStops \/ prepareToken \/ ReadySeen \/ Reap \/ ChildReady \/ Ages \/ Stop \/ Cancel
           \/ Stopped
  BY <1>0, <1>4, Zenon DEF LoopStops, prepareToken, ReadySeen, Reap, ChildReady, Ages, Stop, Cancel,
     Stopped, Finish
<1>5. CASE runTokenCommand \/ StartFails \/ ExitSeen
  <2>1. consecutive \in 0..(MaxConsecutive - 1)
    BY <1>0, <1>5 DEF runTokenCommand, StartFails, ExitSeen
  <2>2. \E n \in 0..(MaxConsecutive - 1) : afterFailure(n)
    BY <1>5, <2>1 DEF runTokenCommand, StartFails, ExitSeen
  <2>3. /\ pc' \in {"exit", "sleep"}
        /\ state' \in {"starting", "stopped", "degraded"}
        /\ consecutive' \in 0..MaxConsecutive
        /\ consecutive' = MaxConsecutive => pc' = "exit"
    BY <2>1, <2>2, Failures, Zenon
  <2> QED BY <1>0, <1>5, <2>3, Zenon DEF runTokenCommand, StartFails, ExitSeen
<1>6. CASE startProcess
  <2>1. PICK p \in Pids :
          /\ table' = [table EXCEPT ![p] = [what |-> "child", at |-> clock, hit |-> "none"]]
          /\ handle' = p
          /\ lost' = lost \ {p}
    BY <1>6, Zenon DEF startProcess
  <2>2. [what |-> "child", at |-> clock, hit |-> "none"] \in Entry
    BY <1>0 DEF Entry
  <2>3. table' \in [Pids -> Entry]
    BY <2>1, <2>2, ReplaceEntry, ZenonT(60)
  <2> QED BY <1>0, <1>6, <2>1, <2>3, Zenon DEF startProcess
<1>7. CASE recordPid
  BY <1>0, <1>7 DEF recordPid, writePidRecord, daemonVars
<1>8. CASE StopSeen
  <2>1. handle \in Pids
    BY <1>0, <1>8, Zenon DEF StopSeen, HandleOK
  <2> QED BY <1>0, <1>8, <2>1, TermSignal, GraceEnds, Zenon DEF StopSeen, daemonVars
<1>9. CASE GraceExpires \/ ContextKill
  <2>1. handle \in Pids
    BY <1>0, <1>9, Zenon DEF GraceExpires, ContextKill, HandleOK
  <2> QED BY <1>0, <1>9, <2>1, KillSignal, Zenon DEF GraceExpires, ContextKill, daemonVars
<1>10. CASE \E p \in Pids : Exits(p)
  <2>1. PICK p \in Pids : Exits(p)
    BY <1>10, Zenon
  <2>2. Gone \in Entry
    BY <1>0 DEF Entry, Gone
  <2>3. table' \in [Pids -> Entry]
    BY <2>1, <2>2, ReplaceEntry, Zenon DEF Exits
  <2> QED BY <1>0, <2>1, <2>3, Zenon DEF Exits, daemonVars
<1>11. CASE \E p \in Pids : StrangerStarts(p)
  <2>1. PICK p \in Pids, w \in Strangers :
          /\ table' = [table EXCEPT ![p] = [what |-> w, at |-> clock, hit |-> "none"]]
          /\ UNCHANGED <<clock, pidfile, crashes, pc, handle, deadline, left, lost, daemonVars>>
    BY <1>11, Zenon DEF StrangerStarts
  <2>2. [what |-> w, at |-> clock, hit |-> "none"] \in Entry
    BY <1>0 DEF Entry
  <2>3. table' \in [Pids -> Entry]
    BY <2>1, <2>2, ReplaceEntry, ZenonT(60)
  <2> QED BY <1>0, <2>1, <2>3, Zenon DEF daemonVars
<1>12. CASE DaemonExits \/ Crash
  BY <1>0, <1>12 DEF DaemonExits, Crash, ForgetDaemon, Alive
<1>13. CASE Tick
  BY <1>0, <1>13 DEF Tick, daemonVars
<1> QED BY <1>1, <1>2, <1>3, <1>4, <1>5, <1>6, <1>7, <1>8, <1>9, <1>10, <1>11, <1>12, <1>13,
           NextSteps, Zenon DEF OutsideStep, InsideStep

(* The token file is removed on every way out (removeToken). *)
LEMMA TokenStep == TokenGone /\ Next => TokenGone'
<1> SUFFICES ASSUME TokenGone, Next PROVE TokenGone'
  BY Zenon
<1> USE DEF TokenGone
<1>1. CASE OutsideStep
  <2>1. token' = token
    BY <1>1, OutsideFrame, Zenon DEF daemonVars
  <2> QED BY <1>1, <2>1, Zenon DEF OutsideStep, NothingRecorded, OrphanTerm, LeaveUnverified,
         terminateGroup, recordPid, StopSeen, GraceExpires, Wakes, RunReturns, Exits, ContextKill,
         Restart, StrangerStarts, Tick
<1>2. CASE InsideStep
  BY <1>2, Zenon DEF InsideStep, LoopStops, runTokenCommand, prepareToken, StartFails, ReadySeen,
     ExitSeen, Stopped, Reap, ChildReady, Ages, Stop, Cancel, DaemonExits, Crash, ForgetDaemon,
     cleanup
<1>3. CASE startProcess
  BY <1>3, Zenon DEF startProcess
<1> QED BY <1>1, <1>2, <1>3, NextSteps, Zenon

(* The conjuncts that speak of the child, the record and the table. *)
ChildInv == RecordOK /\ HandleOK /\ OrphanOK /\ ChildrenOK /\ NoStrangerSignalled

(* The steps inside the daemon: they let go of a child that is gone, or crash. *)
LEMMA ChildInside == NumbersOK /\ NumbersOK' /\ ChildInv /\ InsideStep => ChildInv'
<1> SUFFICES ASSUME NumbersOK, NumbersOK', ChildInv, InsideStep PROVE ChildInv'
  BY Zenon
<1>0. UNCHANGED <<clock, table, pidfile>>
  BY InsideFrame, Zenon
<1> USE Bounds, <1>0 DEF Running
<1>1. RecordOK' /\ NoStrangerSignalled'
  BY Zenon DEF ChildInv, RecordOK, NoStrangerSignalled
<1>2. CASE LoopStops \/ runTokenCommand \/ prepareToken \/ StartFails
  <2>1. /\ pc \in {"loop", "start"}
        /\ pc' \in {"exit", "sleep", "start"}
        /\ UNCHANGED <<handle, lost, hdone>>
    BY <1>2, Zenon DEF LoopStops, runTokenCommand, prepareToken, StartFails, afterFailure, Finish
  <2>2. HandleOK' /\ OrphanOK'
    BY <2>1, Zenon DEF ChildInv, HandleOK, OrphanOK
  <2>3. ChildrenOK'
    BY <2>1, Zenon DEF ChildInv, ChildrenOK
  <2> QED BY <1>1, <2>2, <2>3, Zenon DEF ChildInv
<1>3. CASE ReadySeen \/ Reap \/ ChildReady \/ Ages \/ Stop \/ Cancel
  <2>1. /\ pc' = pc \/ (pc = "wait" /\ pc' = "ready")
        /\ UNCHANGED <<handle, lost>>
        /\ hdone' = hdone \/ (pc \in Running /\ ~Alive(handle))
    BY <1>3, Zenon DEF ReadySeen, Reap, ChildReady, Ages, Stop, Cancel
  <2>2. HandleOK' /\ OrphanOK'
    BY <2>1 DEF ChildInv, HandleOK, OrphanOK, Alive
  <2>3. ChildrenOK'
    BY <2>1, Zenon DEF ChildInv, ChildrenOK
  <2> QED BY <1>1, <2>2, <2>3, Zenon DEF ChildInv
<1>4. CASE ExitSeen \/ Stopped \/ DaemonExits
  <2>1. /\ pc' \in {"exit", "sleep", "down"}
        /\ handle' = NoPid
        /\ lost' = lost
        /\ \/ pc \in Running /\ (hdone \/ pc = "kill")
           \/ pc = "done"
    BY <1>4, Zenon DEF ExitSeen, Stopped, DaemonExits, ForgetDaemon, afterFailure, Finish
  <2>2. HandleOK' /\ OrphanOK'
    BY <2>1, Zenon DEF HandleOK, OrphanOK
  <2>3. handle # NoPid => table[handle].what = "free"
    BY <2>1, Zenon DEF ChildInv, HandleOK
  <2>4. ChildrenOK'
    BY <2>1, <2>3 DEF ChildInv, ChildrenOK
  <2> QED BY <1>1, <2>2, <2>4, Zenon DEF ChildInv
<1>5. CASE Crash
  <2>1. /\ pc' = "down"
        /\ handle' = NoPid
        /\ lost' = IF /\ Alive(handle)
                      /\ pidfile.pid # handle \/ pidfile.created < table[handle].at
                   THEN lost \cup {handle} ELSE lost
    BY <1>5, Zenon DEF Crash, ForgetDaemon
  <2>2. HandleOK' /\ OrphanOK'
    BY <2>1, Zenon DEF HandleOK, OrphanOK
  <2>3. ASSUME NEW p \in Pids \ lost', table[p].what = "child"
        PROVE  pidfile.pid = p /\ table[p].at - pidfile.created \in (0 - Tolerance)..Tolerance
    <3>1. CASE p # handle
      BY <2>1, <2>3, <3>1, Zenon DEF ChildInv, ChildrenOK
    <3>2. CASE p = handle
      <4>1. pidfile.pid = p /\ ~ (pidfile.created < table[p].at)
        BY <2>1, <2>3, <3>2, Zenon DEF Alive
      <4>2. pidfile.created <= table[p].at + Tolerance
        BY <2>3, <4>1, Zenon DEF ChildInv, RecordOK, Strangers
      <4>3. table[p].at \in Int /\ pidfile.created \in Int
        BY DEF NumbersOK, Entry
      <4> QED BY <4>1, <4>2, <4>3
    <3> QED BY <3>1, <3>2, Zenon
  <2>4. ChildrenOK'
    BY <2>1, <2>3, Zenon DEF ChildrenOK
  <2> QED BY <1>1, <2>2, <2>4, Zenon DEF ChildInv
<1> QED BY <1>2, <1>3, <1>4, <1>5, Zenon DEF InsideStep

(* The steps that touch neither the daemon's variables nor the table: the record
   is dropped when it leads to nobody, kept or written, and time passes only
   while nothing that the clock decides is pending. *)
LEMMA ChildRecord ==
    ASSUME NumbersOK, NumbersOK', ChildInv,
           \/ NothingRecorded \/ LeaveUnverified \/ recordPid \/ Wakes \/ RunReturns \/ Restart
           \/ Tick
    PROVE  ChildInv'
<1> USE Bounds DEF Running
<1>0. table' = table /\ handle' = handle /\ hdone' = hdone
  BY Zenon DEF NothingRecorded, LeaveUnverified, recordPid, Wakes, RunReturns, Restart, Tick, daemonVars
<1>1. NoStrangerSignalled'
  BY SMTT(60), <1>0 DEF ChildInv, NoStrangerSignalled
<1>2. CASE NothingRecorded \/ RunReturns
  <2>1. /\ pc \in {"reconcile", "exit"} /\ pc' \in {"loop", "done"}
        /\ pc = "reconcile" => ~Alive(pidfile.pid)
        /\ pidfile' = [pid |-> NoPid, created |-> 0]
        /\ UNCHANGED <<clock, lost>>
    BY <1>2, Zenon DEF NothingRecorded, RunReturns, NoRecord
  <2>2. RecordOK' /\ HandleOK' /\ OrphanOK'
    BY SMTT(60), <1>0, <2>1 DEF ChildInv, RecordOK, HandleOK, OrphanOK, NumbersOK
  <2>3. ChildrenOK'
    BY SMTT(60), <1>0, <2>1 DEF ChildInv, ChildrenOK, Alive
  <2> QED BY <1>1, <2>2, <2>3, Zenon DEF ChildInv
<1>3. CASE LeaveUnverified
  <2>1. /\ pc = "reconcile" /\ pc' = "loop"
        /\ UNCHANGED <<clock, pidfile>>
        /\ \/ ~verifyProcessIdentity(pidfile) /\ lost' = lost
           \/ lost' = lost \cup {pidfile.pid}
    BY <1>3, Zenon DEF LeaveUnverified
  <2>2. RecordOK' /\ HandleOK' /\ OrphanOK'
    BY SMTT(60), <1>0, <2>1 DEF ChildInv, RecordOK, HandleOK, OrphanOK
  <2>3. ASSUME NEW p \in Pids \ (lost \cup {handle}), table[p].what = "child"
        PROVE  verifyProcessIdentity(pidfile) /\ pidfile.pid = p
    BY SMTT(60), <2>3 DEF ChildInv, ChildrenOK, verifyProcessIdentity
  <2>4. ChildrenOK'
    BY <1>0, <2>1, <2>3, Zenon DEF ChildrenOK
  <2> QED BY <1>1, <2>2, <2>4, Zenon DEF ChildInv
<1>4. CASE recordPid
  <2>1. /\ pc = "record" /\ pc' = "wait"
        /\ UNCHANGED <<clock, lost>>
        /\ pidfile' = [pid |-> handle, created |-> clock] \/ pidfile' = pidfile
    BY <1>4, Zenon DEF recordPid, writePidRecord
  <2>2. HandleOK' /\ OrphanOK'
    BY SMTT(60), <1>0, <2>1 DEF ChildInv, HandleOK, OrphanOK
  <2>3. RecordOK'
    BY SMTT(60), <1>0, <2>1 DEF ChildInv, RecordOK, HandleOK, NumbersOK, Strangers
  <2>4. ChildrenOK'
    BY SMTT(60), <1>0, <2>1 DEF ChildInv, ChildrenOK
  <2> QED BY <1>1, <2>2, <2>3, <2>4, Zenon DEF ChildInv
<1>5. CASE Wakes \/ Restart
  <2>1. /\ pc \in {"sleep", "down"} /\ pc' \in {"loop", "reconcile"}
        /\ pc = "sleep" \/ pc' = "reconcile"
        /\ UNCHANGED <<clock, pidfile, lost>>
    BY <1>5, Zenon DEF Wakes, Restart
  <2>2. RecordOK' /\ HandleOK' /\ OrphanOK'
    BY SMTT(60), <1>0, <2>1 DEF ChildInv, RecordOK, HandleOK, OrphanOK
  <2>3. ChildrenOK'
    BY SMTT(60), <1>0, <2>1 DEF ChildInv, ChildrenOK
  <2> QED BY <1>1, <2>2, <2>3, Zenon DEF ChildInv
<1>6. CASE Tick
  <2>1. UNCHANGED <<pc, pidfile, lost>> /\ clock' = clock + 1 /\ Waiting
    BY <1>6, Zenon DEF Tick
  <2>2. \A p \in Pids : table[p].at \in Int
    BY SMTT(60) DEF NumbersOK, Entry
  <2>3. RecordOK'
    BY SMTT(60), <1>0, <2>1 DEF ChildInv, RecordOK, NumbersOK
  <2>4. HandleOK'
    BY SMTT(60), <1>0, <2>1, <2>2 DEF ChildInv, HandleOK, NumbersOK, Waiting, Alive
  <2>5. OrphanOK'
    BY SMTT(60), <1>0, <2>1 DEF ChildInv, OrphanOK, Waiting, Alive
  <2>6. ChildrenOK'
    BY SMTT(60), <1>0, <2>1 DEF ChildInv, ChildrenOK
  <2> QED BY <1>1, <2>3, <2>4, <2>5, <2>6, Zenon DEF ChildInv
<1> QED BY <1>2, <1>3, <1>4, <1>5, <1>6, Zenon

(* The signals reach the child, or nobody. *)
LEMMA ChildSignals ==
    ASSUME TypeOK, NumbersOK', ChildInv,
           OrphanTerm \/ terminateGroup \/ StopSeen \/ GraceExpires \/ ContextKill
    PROVE  ChildInv'
<1>0. NumbersOK
  BY TunnelTypes, Zenon
<1>a. clock \in Int /\ pidfile.created \in Int /\ \A p \in Pids : table[p].at \in Int
  BY SMTT(60), <1>0 DEF NumbersOK, Entry
<1> USE Bounds DEF Running
<1>1. CASE OrphanTerm
  <2>1. /\ pc = "reconcile" /\ pc' = "orphan"
        /\ UNCHANGED <<clock, pidfile, handle, lost, hdone>>
        /\ table' = SignalTerm(pidfile.pid)
        /\ pidfile.pid # NoPid
        /\ verifyProcessIdentity(pidfile)
    BY <1>1, Zenon DEF OrphanTerm, daemonVars, Alive
  <2>2. pidfile.pid \in Pids
    BY <1>0, <2>1, Zenon DEF NumbersOK
  <2>3. table[pidfile.pid].what = "child"
    BY SMTT(60), <1>a, <2>1, <2>2 DEF ChildInv, RecordOK, verifyProcessIdentity, Strangers
  <2>4. /\ \A q \in Pids : table'[q].what = table[q].what /\ table'[q].at = table[q].at
        /\ \A q \in Pids \ {pidfile.pid} : table'[q].hit = table[q].hit
    BY <2>1, <2>2, TermSignal, Zenon
  <2>5. RecordOK' /\ HandleOK' /\ OrphanOK'
    BY SMTT(60), <2>1, <2>2, <2>3, <2>4 DEF ChildInv, RecordOK, HandleOK, OrphanOK
  <2>6. ChildrenOK'
    BY SMTT(60), <2>1, <2>4 DEF ChildInv, ChildrenOK
  <2>7. NoStrangerSignalled'
    BY SMTT(60), <2>3, <2>4 DEF ChildInv, NoStrangerSignalled, Strangers
  <2> QED BY <2>5, <2>6, <2>7, Zenon DEF ChildInv
<1>2. CASE terminateGroup
  <2>1. /\ pc = "orphan" /\ pc' = "loop"
        /\ UNCHANGED <<clock, handle, lost, hdone>>
        /\ pidfile' = [pid |-> NoPid, created |-> 0]
        /\ \/ ~Alive(pidfile.pid) /\ table' = table
           \/ table' = SignalKill(pidfile.pid)
    BY <1>2, Zenon DEF terminateGroup, daemonVars, NoRecord
  <2>2. pidfile.pid \in Pids
    BY SMTT(60), <1>0, <2>1 DEF ChildInv, OrphanOK, NumbersOK
  <2>3. /\ table'[pidfile.pid].what = "free"
        /\ \A q \in Pids \ {pidfile.pid} : table'[q] = table[q]
    BY <2>1, <2>2, KillSignal, Zenon DEF Alive
  <2>4. RecordOK' /\ HandleOK' /\ OrphanOK'
    BY SMTT(60), <1>0, <2>1 DEF ChildInv, RecordOK, HandleOK, OrphanOK, NumbersOK
  <2>5. ChildrenOK'
    BY SMTT(60), <2>1, <2>2, <2>3 DEF ChildInv, ChildrenOK
  <2>6. NoStrangerSignalled'
    BY SMTT(60), <2>2, <2>3 DEF ChildInv, NoStrangerSignalled, Strangers
  <2> QED BY <2>4, <2>5, <2>6, Zenon DEF ChildInv
<1>3. CASE StopSeen
  <2>1. /\ pc \in {"wait", "ready"} /\ pc' = "term"
        /\ UNCHANGED <<clock, pidfile, handle, lost, hdone>>
        /\ table' = SignalTerm(handle)
    BY <1>3, Zenon DEF StopSeen, daemonVars
  <2>2. handle \in Pids /\ table[handle].what \in {"free", "child"}
    BY SMTT(60), <1>0, <2>1 DEF ChildInv, HandleOK, NumbersOK
  <2>3. /\ \A q \in Pids : table'[q].what = table[q].what /\ table'[q].at = table[q].at
        /\ \A q \in Pids \ {handle} : table'[q].hit = table[q].hit
    BY <2>1, <2>2, TermSignal, Zenon
  <2>4. RecordOK'
    BY SMTT(60), <1>0, <2>1, <2>3 DEF ChildInv, RecordOK, NumbersOK
  <2>5. HandleOK' /\ OrphanOK'
    BY SMTT(60), <2>1, <2>2, <2>3 DEF ChildInv, HandleOK, OrphanOK
  <2>6. ChildrenOK'
    BY SMTT(60), <2>1, <2>3 DEF ChildInv, ChildrenOK
  <2>7. NoStrangerSignalled'
    BY SMTT(60), <2>2, <2>3 DEF ChildInv, NoStrangerSignalled, Strangers
  <2> QED BY <2>4, <2>5, <2>6, <2>7, Zenon DEF ChildInv
<1>4. CASE GraceExpires \/ ContextKill
  <2>1. /\ pc \in Running /\ (pc' = "kill" \/ pc' = pc)
        /\ UNCHANGED <<clock, pidfile, handle, lost, hdone>>
        /\ table' = SignalKill(handle)
    BY <1>4, Zenon DEF GraceExpires, ContextKill, daemonVars
  <2>2. handle \in Pids /\ table[handle].what \in {"free", "child"}
    BY SMTT(60), <1>0, <2>1 DEF ChildInv, HandleOK, NumbersOK
  <2>3. /\ table'[handle].what = "free"
        /\ \A q \in Pids \ {handle} : table'[q] = table[q]
        /\ table'[handle] = table[handle] \/ table'[handle].at = clock
        /\ table'[handle] = table[handle] => table[handle].what = "free"
    BY <2>1, <2>2, KillSignal, Zenon
  <2>4. RecordOK'
    BY SMTT(60), <1>0, <1>a, <2>1, <2>2, <2>3 DEF ChildInv, RecordOK, NumbersOK, Strangers
  <2>5. HandleOK' /\ OrphanOK'
    BY SMTT(60), <1>a, <2>1, <2>2, <2>3 DEF ChildInv, HandleOK, OrphanOK
  <2>6. ChildrenOK'
    BY SMTT(60), <2>1, <2>2, <2>3 DEF ChildInv, ChildrenOK
  <2>7. NoStrangerSignalled'
    BY SMTT(60), <2>2, <2>3 DEF ChildInv, NoStrangerSignalled, Strangers
  <2> QED BY <2>4, <2>5, <2>6, <2>7, Zenon DEF ChildInv
<1> QED BY <1>1, <1>2, <1>3, <1>4, Zenon

(* A child starts or ends, or a stranger gets a pid nobody speaks of any more. *)
LEMMA ChildTable ==
    ASSUME TypeOK, NumbersOK', ChildInv,
           startProcess \/ (\E p \in Pids : Exits(p)) \/ (\E p \in Pids : StrangerStarts(p))
    PROVE  ChildInv'
<1>0. NumbersOK
  BY TunnelTypes, Zenon
<1>a. clock \in 0..MaxClock /\ pidfile.created \in Int /\ \A p \in Pids : table[p].at \in Int
  BY SMTT(60), <1>0 DEF NumbersOK, Entry
<1> USE Bounds DEF Running
<1>1. CASE startProcess
  <2> DEFINE e == [what |-> "child", at |-> clock, hit |-> "none"]
  <2>1. PICK p \in Pids : table' = [table EXCEPT ![p] = e] /\ handle' = p /\ lost' = lost \ {p}
                          /\ ~Alive(p)
    BY <1>1, Zenon DEF startProcess
  <2>2. pc = "start" /\ pc' = "record" /\ hdone' = FALSE /\ UNCHANGED <<clock, pidfile>>
    BY <1>1, Zenon DEF startProcess
  <2>3. e \in Entry
    BY SMTT(60), <1>a DEF Entry
  <2>4. table'[p] = e /\ \A q \in Pids \ {p} : table'[q] = table[q]
    BY <2>1, <2>3, ReplaceEntry, ZenonT(60)
  <2>5. p # NoPid
    BY Zenon
  <2>6. RecordOK'
    BY SMTT(60), <1>0, <1>a, <2>1, <2>2, <2>4 DEF ChildInv, RecordOK, NumbersOK, Strangers
  <2>7. HandleOK' /\ OrphanOK'
    BY SMTT(60), <1>a, <2>1, <2>2, <2>4, <2>5 DEF HandleOK, OrphanOK
  <2>8. handle = NoPid
    BY SMTT(60), <2>2 DEF ChildInv, HandleOK
  <2>9. ChildrenOK'
    BY ZenonT(60), <2>1, <2>2, <2>4, <2>8 DEF ChildInv, ChildrenOK
  <2>10. NoStrangerSignalled'
    BY SMTT(60), <2>1, <2>4 DEF ChildInv, NoStrangerSignalled
  <2> QED BY <2>6, <2>7, <2>9, <2>10, Zenon DEF ChildInv
<1>2. CASE \E p \in Pids : Exits(p)
  <2>1. PICK p \in Pids : Exits(p)
    BY <1>2, Zenon
  <2>2. /\ table[p].what = "child"
        /\ table' = [table EXCEPT ![p] = Gone]
        /\ lost' = lost \ {p}
        /\ UNCHANGED <<clock, pidfile, pc, handle, hdone>>
    BY <2>1, Zenon DEF Exits, daemonVars
  <2>3. Gone \in Entry
    BY SMTT(60), <1>a DEF Entry, Gone
  <2>4. table'[p] = Gone /\ \A q \in Pids \ {p} : table'[q] = table[q]
    BY <2>2, <2>3, ReplaceEntry, ZenonT(60)
  <2>5. RecordOK'
    BY SMTT(60), <1>0, <1>a, <2>2, <2>4 DEF ChildInv, RecordOK, NumbersOK, Strangers, Gone
  <2>6. HandleOK'
    BY SMTT(60), <1>0, <1>a, <2>2, <2>4 DEF ChildInv, HandleOK, NumbersOK, Gone
  <2>7. OrphanOK'
    BY SMTT(60), <1>0, <1>a, <2>2, <2>4 DEF ChildInv, OrphanOK, NumbersOK, Gone
  <2>8. ChildrenOK'
    BY SMTT(60), <2>2, <2>4 DEF ChildInv, ChildrenOK, Gone
  <2>9. NoStrangerSignalled'
    BY SMTT(60), <2>4 DEF ChildInv, NoStrangerSignalled, Gone, Strangers
  <2> QED BY <2>5, <2>6, <2>7, <2>8, <2>9, Zenon DEF ChildInv
<1>3. CASE \E p \in Pids : StrangerStarts(p)
  <2>1. PICK p \in Pids : StrangerStarts(p)
    BY <1>3, Zenon
  <2>2. /\ table[p].what = "free"
        /\ clock > table[p].at + 2 * Tolerance
        /\ UNCHANGED <<clock, pidfile, pc, handle, lost, hdone>>
    BY <2>1, Zenon DEF StrangerStarts, daemonVars, Alive
  <2>3. PICK w \in Strangers :
          table' = [table EXCEPT ![p] = [what |-> w, at |-> clock, hit |-> "none"]]
    BY <2>1, Zenon DEF StrangerStarts
  <2> DEFINE e == [what |-> w, at |-> clock, hit |-> "none"]
  <2>4. e \in Entry
    BY SMTT(60), <1>a DEF Entry
  <2>5. table'[p] = e /\ \A q \in Pids \ {p} : table'[q] = table[q]
    BY <2>3, <2>4, ReplaceEntry, ZenonT(60)
  <2>6. RecordOK'
    BY SMTT(60), <1>0, <1>a, <2>2, <2>5 DEF ChildInv, RecordOK, NumbersOK, Strangers
  <2>7. pc \in Running => p # handle
    BY SMTT(60), <1>a, <2>2 DEF ChildInv, HandleOK
  <2>8. pc = "orphan" => p # pidfile.pid
    BY SMTT(60), <1>a, <2>2 DEF ChildInv, OrphanOK
  <2>9. HandleOK' /\ OrphanOK'
    BY SMTT(60), <1>0, <2>2, <2>5, <2>7, <2>8 DEF ChildInv, HandleOK, OrphanOK, NumbersOK
  <2>10. e.what \notin {"free", "child"} /\ e.hit = "none"
    BY Zenon DEF Strangers
  <2> HIDE DEF e
  <2>11. \A q \in Pids : table'[q].what = "child" => q # p /\ table[q].what = "child"
    BY <2>5, <2>10, Zenon
  <2>12. ChildrenOK'
    BY <2>2, <2>5, <2>11 DEF ChildInv, ChildrenOK
  <2>13. NoStrangerSignalled'
    BY <2>5, <2>10, Zenon DEF ChildInv, NoStrangerSignalled
  <2> QED BY <2>6, <2>9, <2>12, <2>13, Zenon DEF ChildInv
<1> QED BY <1>1, <1>2, <1>3, Zenon

(* One step per action of the supervisor and of its surroundings. *)
LEMMA TunnelStep == IInv /\ [Next]_vars => IInv'
<1> SUFFICES ASSUME IInv, [Next]_vars PROVE IInv'
  BY Zenon
<1>0. TypeOK /\ NumbersOK /\ FlagsOK /\ CounterOK /\ TokenGone /\ ChildInv /\ HandleOK /\ OrphanOK
  BY SMTT(60), TunnelTypes DEF IInv, ChildInv
<1>1. CASE Next
  <2>1. NumbersOK' /\ CounterOK'
    BY <1>0, <1>1, NumbersStep, Zenon
  <2>2. TokenGone'
    BY <1>0, <1>1, TokenStep, Zenon
  <2>3. TypeOK'
    <3>1. FlagsOK'
      BY <1>0, <1>1, FlagsStep, Zenon
    <3> QED BY <2>1, <3>1, TunnelTypes, PTL
  <2>4. ChildInv'
    BY SMTT(60), <1>0, <1>1, <2>1, NextSteps, ChildInside, ChildRecord, ChildSignals, ChildTable
       DEF OutsideStep
  <2> QED BY <2>1, <2>2, <2>3, <2>4, Zenon DEF IInv, ChildInv
<1>2. CASE UNCHANGED vars
  <2>1. TypeOK' /\ CounterOK' /\ TokenGone'
    <3>1. TypeOK'
      BY <1>0, <1>2, Zenon DEF vars, TypeOK
    <3>2. CounterOK' /\ TokenGone'
      BY <1>0, <1>2, Zenon DEF vars, CounterOK, TokenGone
    <3> QED BY <3>1, <3>2, Zenon
  <2>2. RecordOK'
    BY <1>0, <1>2, Zenon DEF vars, ChildInv, RecordOK
  <2>3. HandleOK' /\ OrphanOK'
    BY <1>0, <1>2, Zenon DEF vars, HandleOK, OrphanOK
  <2>4. ChildrenOK'
    BY <1>0, <1>2, Zenon DEF vars, ChildInv, ChildrenOK
  <2>5. NoStrangerSignalled'
    BY <1>0, <1>2, Zenon DEF vars, ChildInv, NoStrangerSignalled, Alive
  <2> QED BY <2>1, <2>2, <2>3, <2>4, <2>5, Zenon DEF IInv
<1> QED BY <1>1, <1>2, Zenon

(* The invariant always holds. *)
LEMMA TunnelInvariant == Spec => []IInv
BY InitIInv, TunnelStep, PTL DEF Spec

(* Tunnel's variables keep their types: in particular the failure counter stops
   at the limit of supervisor.go, where the loop gives up. *)
THEOREM TunnelTypeCorrect == Spec => []TypeOK
<1>1. IInv => TypeOK
  BY Zenon DEF IInv
<1> QED BY <1>1, TunnelInvariant, PTL

(* Whatever pids the machine hands out, however often the daemon is killed and
   whatever it finds recorded: no signal of reconcileOrphan, of a stop or of the
   cancelled context reaches a process this program did not start. *)
THEOREM StrangersAreSpared == Spec => []NoStrangerSignalled
<1>1. IInv => NoStrangerSignalled
  BY Zenon DEF IInv
<1> QED BY <1>1, TunnelInvariant, PTL

(* Of the children of this program at most the supervised one runs while one is
   supervised, none runs when the loop has returned, except those no record leads
   to; and no attempt leaves its token file behind (superviseLoop, waitAttempt,
   cleanupOrphan). *)
THEOREM NothingIsLeft == Spec => []NothingLeft
<1>1. IInv => NothingLeft
  <2> SUFFICES ASSUME IInv PROVE NothingLeft
    BY Zenon
  <2>1. NoOrphanBeside
    BY Zenon DEF IInv, ChildrenOK, NoOrphanBeside, Running
  <2>2. GoneAtExit
    <3>1. pc \in {"exit", "done"} => handle = NoPid
      BY Zenon DEF IInv, HandleOK, Running
    <3> QED BY <3>1, Bounds, Zenon DEF IInv, ChildrenOK, GoneAtExit
  <2> QED BY <2>1, <2>2, Zenon DEF NothingLeft, IInv
<1> QED BY <1>1, TunnelInvariant, PTL

-----------------------------------------------------------------------------
(* The stack of the serve process *)

(* The module Stack for any set of status requests; `serving' is the serve context. *)
CONSTANTS Requests, QuickMode, ServeFails, Expires
VARIABLES main, held, tun, tready, tstop, sup, stopCh, serving, health, status, ctl, once, late

Serve == INSTANCE Stack WITH Quick <- QuickMode, ctx <- serving

Resources == {"lock", "listener", "tunnel", "url", "auditor", "server", "control"}
Built == {"begin", "lock", "listener", "tunnel", "url", "auditor", "server"}

(* A stack that is still being built, or given up, has no control socket, no child
   supervisor and no shutdown; its lock comes first and its tunnel third. *)
BuildOK ==
    /\ main \in Built \cup {"aborting"} =>
          once = "new" /\ sup = "new" /\ ctl = "none" /\ "control" \notin held
    /\ main = "begin" => held = {}
    /\ main \in Built \ {"begin"} => "lock" \in held
    /\ main \in {"begin", "lock", "listener"} => tun = "off"
    /\ main = "aborting" /\ ~ServeFails /\ "lock" \notin held => tun = "off"

(* A supervisor that returned without skipping its child saw the tunnel end. *)
SupOK == sup \in {"exit", "stopped", "degraded"} => Serve!Terminal

(* Shutdown lets go of the socket once the supervisor returned or the deadline
   passed, and of the lock after the socket. *)
ShutdownOK ==
    /\ main \in {"serving", "closing", "waiting"} /\ once # "done" => "lock" \in held
    /\ once \in {"control", "done"} => "control" \notin held /\ (Serve!Returned \/ late)
    /\ once = "done" => "lock" \notin held
    /\ once # "new" => health = "stopping"

(* main closes its own resources in turn, and exits through abort, with no
   shutdown ever asked for, or after one that is done. *)
ExitOK ==
    /\ main \in {"closing", "waiting"} => "server" \notin held
    /\ main = "waiting" => "listener" \notin held
    /\ main = "exited" => held \subseteq {"tunnel", "url"}
    /\ main = "exited" /\ once # "done" =>
          once = "new" /\ ctl = "none" /\ (ServeFails \/ Serve!TunnelGone \/ late)

(* The part of the type invariant that the argument needs. *)
StackTypes ==
    /\ main \in Built \cup {"serving", "closing", "waiting", "aborting", "exited"}
    /\ held \subseteq Resources
    /\ tun \in {"off", "starting", "up", "degraded", "stopped"}
    /\ sup \in {"new", "top", "await", "exit", "stop", "stopped", "degraded", "skipped"}
    /\ ctl \in {"none", "waiting", "done"}
    /\ once \in {"new", "marked", "cancelled", "children", "control", "done"}

StackInv == StackTypes /\ BuildOK /\ SupOK /\ ShutdownOK /\ ExitOK

(* After follows the order in which buildStack acquires. *)
LEMMA BuildOrder ==
    /\ Serve!Building = Built
    /\ Serve!After("begin") = "lock" /\ Serve!After("lock") = "listener"
    /\ Serve!After("listener") = "tunnel" /\ Serve!After("tunnel") = "url"
    /\ Serve!After("url") = "auditor" /\ Serve!After("auditor") = "server"
<1>1. DOMAIN Serve!Steps = 1..6
  BY DEF Serve!Steps
<1>2. /\ Serve!Steps[1] = "lock" /\ Serve!Steps[2] = "listener" /\ Serve!Steps[3] = "tunnel"
      /\ Serve!Steps[4] = "url" /\ Serve!Steps[5] = "auditor" /\ Serve!Steps[6] = "server"
  BY Zenon DEF Serve!Steps
<1>3. Serve!Building = Built
  <2>1. {Serve!Steps[k] : k \in 1..6} = Built \ {"begin"}
    BY <1>2 DEF Built
  <2> QED BY <2>1, <1>1, Zenon DEF Serve!Building, Built
<1>4. ASSUME NEW k \in 1..5
      PROVE  Serve!After(Serve!Steps[k]) = Serve!Steps[k + 1]
  <2>1. Serve!Steps[k] # "begin"
    BY <1>2
  <2>2. \A j \in 1..6 : Serve!Steps[j] = Serve!Steps[k] => j = k
    BY <1>2
  <2>3. (CHOOSE j \in DOMAIN Serve!Steps : Serve!Steps[j] = Serve!Steps[k]) = k
    BY <2>2, <1>1
  <2> QED BY <2>1, <2>3, Zenon DEF Serve!After
<1>5. Serve!After("begin") = "lock"
  BY <1>2, Zenon DEF Serve!After
<1>6. /\ Serve!After("lock") = "listener"
      /\ Serve!After("listener") = "tunnel" /\ Serve!After("tunnel") = "url"
      /\ Serve!After("url") = "auditor" /\ Serve!After("auditor") = "server"
  <2> DEFINE S == Serve!Steps
             A(x) == Serve!After(x)
  <2>1. A(S[1]) = S[2] /\ A(S[2]) = S[3] /\ A(S[3]) = S[4] /\ A(S[4]) = S[5] /\ A(S[5]) = S[6]
    BY <1>4
  <2> QED BY <2>1, <1>2, Zenon
<1> QED BY <1>3, <1>5, <1>6, Zenon

(* The invariant holds before buildStack and every step keeps it. *)
LEMMA StackInitInv == Serve!Init => StackInv
BY Zenon DEF Serve!Init, StackInv, StackTypes, BuildOK, SupOK, ShutdownOK, ExitOK, Built, Resources

(* One step per action of the serve process. *)
LEMMA StackStep == StackInv /\ [Serve!Next]_(Serve!vars) => StackInv'
<1> SUFFICES ASSUME StackInv, [Serve!Next]_(Serve!vars) PROVE StackInv'
  BY Zenon
<1> USE DEF StackInv, StackTypes, BuildOK, SupOK, ShutdownOK, ExitOK, Built, Resources,
            Serve!Terminal, Serve!Returned, Serve!TunnelGone
<1>1. CASE Serve!buildStack
  <2>1. main \in Built \ {"server"}
    BY <1>1, BuildOrder, Zenon DEF Serve!buildStack
  <2>2. /\ main' = Serve!After(main) /\ held' = held \cup {Serve!After(main)}
        /\ tun' = IF Serve!After(main) = "tunnel" THEN "starting" ELSE tun
        /\ UNCHANGED <<sup, health, ctl, once, late>>
    BY <1>1, Zenon DEF Serve!buildStack, Serve!front, Serve!child
  <2>3. Serve!After(main) \in Built \ {"begin"}
    BY <2>1, BuildOrder, Zenon
  <2>4. Serve!After(main) = "lock" <=> main = "begin"
    BY <2>1, BuildOrder, Zenon
  <2>5. Serve!After(main) \in {"lock", "listener"} => main \in {"begin", "lock"}
    BY <2>1, BuildOrder, Zenon
  <2>6. Serve!After(main) = "tunnel" => main = "listener"
    BY <2>1, BuildOrder, Zenon
  <2> QED BY <2>1, <2>2, <2>3, <2>4, <2>5, <2>6, ZenonT(60)
<1>2. CASE Serve!BuildFails
  <2>1. main \in Built \ {"server"}
    BY <1>2, BuildOrder, Zenon DEF Serve!BuildFails
  <2> QED BY <1>2, <2>1, Zenon DEF Serve!BuildFails, Serve!tunnel, Serve!child, Serve!front
<1>3. CASE Serve!ServeUp
  BY <1>3, Zenon DEF Serve!ServeUp, Serve!tunnel, Serve!child, Serve!front
<1>4. CASE Serve!ServeError
  BY <1>4, Zenon DEF Serve!ServeError, Serve!tunnel, Serve!child, Serve!front
<1>5. CASE Serve!handleStop
  BY <1>5 DEF Serve!handleStop, Serve!tunnel, Serve!child, Serve!front
<1>6. CASE Serve!Signal
  BY <1>6 DEF Serve!Signal, Serve!tunnel, Serve!child, Serve!front
<1>7. CASE Serve!AbortTunnel
  BY <1>7, Zenon DEF Serve!AbortTunnel, Serve!tunnel, Serve!child, Serve!front
<1>8. CASE Serve!abort
  BY <1>8, Zenon DEF Serve!abort, Serve!tunnel, Serve!child, Serve!front
<1>9. CASE Serve!ShutdownMark
  BY <1>9 DEF Serve!ShutdownMark, Serve!Called, Serve!tunnel, Serve!child, Serve!front
<1>10. CASE Serve!OnStop
  BY <1>10 DEF Serve!OnStop, Serve!tunnel, Serve!child, Serve!front
<1>11. CASE Serve!StopChildren
  BY <1>11 DEF Serve!StopChildren, Serve!tunnel, Serve!child, Serve!front
<1>12. CASE Serve!waitWithCtx
  BY <1>12 DEF Serve!waitWithCtx, Serve!tunnel, Serve!child, Serve!front
<1>13. CASE Serve!ReleaseLock
  BY <1>13 DEF Serve!ReleaseLock, Serve!tunnel, Serve!child, Serve!front
<1>14. CASE Serve!ControlReturns
  BY <1>14 DEF Serve!ControlReturns, Serve!tunnel, Serve!child, Serve!front
<1>15. CASE Serve!shutdown
  BY <1>15 DEF Serve!shutdown, Serve!tunnel, Serve!child, Serve!front
<1>16. CASE Serve!shutdownDaemon
  BY <1>16 DEF Serve!shutdownDaemon, Serve!tunnel, Serve!child, Serve!front
<1>17. CASE Serve!Exit
  BY <1>17, Zenon DEF Serve!Exit, Serve!tunnel, Serve!child, Serve!front
<1>18. ASSUME NEW r \in Requests, Serve!probeComponents(r)
      PROVE  StackInv'
  BY <1>18 DEF Serve!probeComponents, Serve!tunnel, Serve!child
<1>19. ASSUME NEW r \in Requests, Serve!reconcileHealth(r)
      PROVE  StackInv'
  BY <1>19 DEF Serve!reconcileHealth, Serve!tunnel, Serve!child
<1>20. CASE main # "exited" /\ Serve!SupRun
  BY <1>20 DEF Serve!SupRun, Serve!SupStep, Serve!SupFrame, Serve!front
<1>21. CASE main # "exited" /\ Serve!awaitExit
  BY <1>21 DEF Serve!awaitExit, Serve!SupStep, Serve!SupFrame, Serve!front
<1>22. CASE main # "exited" /\ Serve!DeliberateStop
  BY <1>22 DEF Serve!DeliberateStop, Serve!SupStep, Serve!SupFrame, Serve!front
<1>23. CASE main # "exited" /\ Serve!giveUpOrWait
  BY <1>23 DEF Serve!giveUpOrWait, Serve!SupStep, Serve!SupFrame, Serve!front
<1>24. CASE main # "exited" /\ Serve!TunUp
  BY <1>24 DEF Serve!TunUp, Serve!TunFrame, Serve!child, Serve!front
<1>25. CASE main # "exited" /\ Serve!TunRestarts
  BY <1>25 DEF Serve!TunRestarts, Serve!TunFrame, Serve!child, Serve!front
<1>26. CASE main # "exited" /\ Serve!TunDegrades
  BY <1>26 DEF Serve!TunDegrades, Serve!TunFrame, Serve!child, Serve!front
<1>27. CASE main # "exited" /\ Serve!TunStops
  BY <1>27 DEF Serve!TunStops, Serve!TunFrame, Serve!child, Serve!front
<1>28. CASE UNCHANGED Serve!vars
  BY <1>28 DEF Serve!vars
<1> QED BY <1>1, <1>2, <1>3, <1>4, <1>5, <1>6, <1>7, <1>8, <1>9, <1>10, <1>11, <1>12, <1>13, <1>14, <1>15, <1>16, <1>17, <1>18, <1>19, <1>20, <1>21, <1>22, <1>23, <1>24, <1>25, <1>26, <1>27, <1>28, Zenon
        DEF Serve!Next, Serve!MainStep, Serve!ChildStep

(* The invariant of the serve process. *)
LEMMA StackInvariant == Serve!Spec => []StackInv
BY StackInitInv, StackStep, PTL DEF Serve!Spec

(* The lock outlives the control socket and the tunnel (Shutdown, abort): wherever
   the process is, a lock that is not held means no control socket, and no tunnel
   but one whose teardown ran out of time or that the supervisor never got to.
   Serve reports no failure of its own: after one it has let go of the lock first
   (ServeError). *)
THEOREM LockIsLast == ~ServeFails => (Serve!Spec => []Serve!LockLast)
<1> SUFFICES ASSUME ~ServeFails PROVE Serve!Spec => []Serve!LockLast
  BY Zenon
<1>1. StackInv => Serve!LockLast
  BY Zenon DEF StackInv, StackTypes, BuildOK, SupOK, ShutdownOK, ExitOK, Built, Resources, Serve!LockLast,
         Serve!Terminal, Serve!Returned, Serve!TunnelGone
<1> QED BY <1>1, StackInvariant, PTL

(* The process ends with everything let go of, whichever caller ran Shutdown, and
   whichever step of the start failed (abort, stack.shutdown, Shutdown). *)
THEOREM ExitsAreClean == Serve!Spec => []Serve!ExitClean
<1>1. StackInv => Serve!ExitClean
  BY Zenon DEF StackInv, ExitOK, Serve!ExitClean
<1> QED BY <1>1, StackInvariant, PTL

(* Only ShutdownMark and reconcileHealth write the health. *)
LEMMA HealthStep == [Serve!Next]_(Serve!vars) => (health = "stopping" => health' = "stopping")
<1> SUFFICES ASSUME [Serve!Next]_(Serve!vars), health = "stopping" PROVE health' = "stopping"
  BY Zenon
<1>1. CASE Serve!buildStack \/ Serve!BuildFails \/ Serve!ServeUp \/ Serve!ServeError
  BY <1>1, Zenon DEF Serve!buildStack, Serve!BuildFails, Serve!ServeUp, Serve!ServeError, Serve!front
<1>2. CASE Serve!handleStop \/ Serve!Signal \/ Serve!MainStep
  BY <1>2, Zenon DEF Serve!handleStop, Serve!Signal, Serve!MainStep, Serve!AbortTunnel, Serve!abort,
              Serve!ShutdownMark, Serve!OnStop, Serve!StopChildren, Serve!waitWithCtx,
              Serve!ReleaseLock, Serve!ControlReturns, Serve!shutdown, Serve!shutdownDaemon,
              Serve!Exit, Serve!front
<1>3. CASE \E r \in Requests : Serve!probeComponents(r) \/ Serve!reconcileHealth(r)
  BY <1>3, Zenon DEF Serve!probeComponents, Serve!reconcileHealth
<1>4. CASE Serve!ChildStep
  BY <1>4, Zenon DEF Serve!ChildStep, Serve!SupRun, Serve!awaitExit, Serve!DeliberateStop,
              Serve!giveUpOrWait, Serve!SupFrame, Serve!front
<1>5. CASE Serve!TunUp \/ Serve!TunRestarts \/ Serve!TunDegrades \/ Serve!TunStops
  BY <1>5, Zenon DEF Serve!TunUp, Serve!TunRestarts, Serve!TunDegrades, Serve!TunStops,
              Serve!TunFrame, Serve!front
<1>6. CASE UNCHANGED Serve!vars
  BY <1>6, Zenon DEF Serve!vars
<1> QED BY <1>1, <1>2, <1>3, <1>4, <1>5, <1>6, Zenon DEF Serve!Next

(* Health "stopping" is final, however many status probes are under way when the
   shutdown begins (reconcileHealth, Shutdown). *)
THEOREM StoppingIsFinal == Serve!Spec => Serve!StoppingSticks
<1>1. [Serve!Next]_(Serve!vars) => [health = "stopping" => health' = "stopping"]_(Serve!vars)
  BY HealthStep, Zenon
<1> QED BY <1>1, PTL DEF Serve!Spec, Serve!StoppingSticks

-----------------------------------------------------------------------------
(* The control socket *)

(* The module ControlServer for any set of clients. *)
CONSTANTS Clients, Stops, Idles, MaxFails, Signals, None
VARIABLES loop, cur, fails, call, handler, wg, conns, exempt, cut, closer, others, stopping

Control == INSTANCE ControlServer

(* A connection is handed to a handler once, and only a stop request is marked. *)
HandedOnce ==
    /\ \A c \in Clients : call[c] \in {"new", "dialed"} => handler[c] = "none" /\ cur # c
    /\ loop \in {"got", "tracked"} => cur \in Clients /\ handler[cur] = "none"
    /\ \A c \in Clients : handler[c] = "marked" => c \in Stops

(* One client asks for the stop.  From the moment it is exempt nothing cuts its
   connection, and the shutdown starts after that and waits for its handler. *)
Stopper(s) ==
    /\ handler[s] \in {"marked", "writing", "done"} => exempt = s
    /\ stopping => handler[s] \in {"writing", "done"}
    /\ closer # "open" => stopping
    /\ closer \in {"removed", "exited"} => handler[s] = "done"
    /\ s \notin others /\ s \notin cut
    /\ handler[s] = "done" => call[s] = "replied"

(* The part of the type invariant that the argument needs. *)
ControlTypes ==
    /\ call \in [Clients -> {"new", "dialed", "open", "replied", "error"}]
    /\ handler \in [Clients -> {"none", "reading", "working", "marked", "writing", "done"}]
    /\ wg = {c \in Clients : Control!Running(c)}
    /\ closer \in {"open", "snap", "closed", "forced", "removed", "exited"}

ControlInv == ControlTypes /\ HandedOnce /\ \A s \in Stops : Stopper(s)

(* One client sends stop and no signal arrives. *)
OneStop == Control!ControlServerAssumption /\ ~Signals /\ \A s, t \in Stops : s = t

(* No connection yet. *)
LEMMA ControlInit == OneStop /\ Control!Init => ControlInv
<1> SUFFICES ASSUME OneStop, Control!Init PROVE ControlInv
  BY Zenon
<1> USE DEF OneStop, Control!ControlServerAssumption, Control!Init
<1>1. ControlTypes
  BY Zenon DEF ControlTypes, Control!Running
<1>2. HandedOnce
  BY Zenon DEF HandedOnce
<1>3. ASSUME NEW s \in Stops PROVE Stopper(s)
  BY Zenon DEF Stopper
<1> QED BY <1>1, <1>2, <1>3, Zenon DEF ControlInv

(* One step per action of the socket. *)
LEMMA ControlStep == OneStop /\ ControlInv /\ [Control!Next]_(Control!vars) => ControlInv'
<1> SUFFICES ASSUME OneStop, ControlInv, [Control!Next]_(Control!vars) PROVE ControlInv'
  BY Zenon
<1> USE DEF OneStop, Control!ControlServerAssumption, ControlInv, ControlTypes, HandedOnce, Stopper,
            Control!Running, Control!acceptor, Control!closing
<1>1. ASSUME NEW c \in Clients, Control!Dial(c)
      PROVE  ControlInv'
  BY <1>1, Zenon DEF Control!Dial
<1>2. ASSUME NEW c \in Clients, Control!ReadRequest(c)
      PROVE  ControlInv'
  BY <1>2 DEF Control!ReadRequest
<1>3. ASSUME NEW c \in Clients, Control!ReadCut(c)
      PROVE  ControlInv'
  BY <1>3 DEF Control!ReadCut, Control!Ends
<1>4. ASSUME NEW c \in Clients, Control!HandleRequest(c)
      PROVE  ControlInv'
  BY <1>4 DEF Control!HandleRequest
<1>5. ASSUME NEW c \in Clients, Control!setExempt(c)
      PROVE  ControlInv'
  BY <1>5 DEF Control!setExempt
<1>6. ASSUME NEW c \in Clients, Control!handleStop(c)
      PROVE  ControlInv'
  BY <1>6 DEF Control!handleStop
<1>7. ASSUME NEW c \in Clients, Control!writeResponse(c)
      PROVE  ControlInv'
  BY <1>7 DEF Control!writeResponse, Control!Ends
<1>8. ASSUME NEW c \in Clients, Control!ReadDeadline(c)
      PROVE  ControlInv'
  BY <1>8 DEF Control!ReadDeadline, Control!Ends
<1>9. ASSUME NEW c \in Clients, Control!Accept(c)
      PROVE  ControlInv'
  BY <1>9, Zenon DEF Control!Accept, Control!listening
<1>10. CASE Control!AcceptFails
  BY <1>10, Zenon DEF Control!AcceptFails
<1>11. CASE Control!BackoffEnds
  BY <1>11, Zenon DEF Control!BackoffEnds
<1>12. CASE Control!ListenerClosed
  BY <1>12, Zenon DEF Control!ListenerClosed
<1>13. CASE Control!trackConn
  BY <1>13, Zenon DEF Control!trackConn
<1>14. CASE Control!Spawn
  BY <1>14 DEF Control!Spawn
<1>15. CASE Control!Signal
  BY <1>15, Zenon DEF Control!Signal
<1>16. CASE Control!CloseSnapshot
  BY <1>16, Zenon DEF Control!CloseSnapshot
<1>17. CASE Control!CloseListener
  BY <1>17, Zenon DEF Control!CloseListener
<1>18. CASE Control!ForceClose
  BY <1>18, Zenon DEF Control!ForceClose
<1>19. CASE Control!Removed
  BY <1>19, Zenon DEF Control!Removed
<1>20. CASE Control!Exit
  BY <1>20, Zenon DEF Control!Exit
<1>21. CASE UNCHANGED Control!vars
  BY <1>21, Zenon DEF Control!vars
<1> QED BY <1>1, <1>2, <1>3, <1>4, <1>5, <1>6, <1>7, <1>8, <1>9, <1>10, <1>11, <1>12, <1>13, <1>14, <1>15, <1>16, <1>17, <1>18, <1>19, <1>20, <1>21, Zenon
        DEF Control!Next, Control!HandlerStep, Control!LoopStep, Control!CloseStep

(* The client that asked for the stop is answered before the socket goes, however
   many others are connected, dialing or idle (setExempt, ControlServer.Close,
   wg.Wait). *)
THEOREM StopsAreAnswered == OneStop => (Control!Spec => []Control!StopReplied)
<1> SUFFICES ASSUME OneStop PROVE Control!Spec => []Control!StopReplied
  BY Zenon
<1>1. ControlInv => Control!StopReplied
  BY Zenon DEF ControlInv, Stopper, Control!StopReplied
<1> QED BY <1>1, ControlInit, ControlStep, PTL DEF Control!Spec

=============================================================================
