----------------------------- MODULE StateEngine -----------------------------
(***************************************************************************)
(* The poll-as-truth state engine of internal/state (engine.go,            *)
(* subscriber.go, snapshot.go, runs.go) with the goroutine that drains one *)
(* subscription (stateAdapter.Subscribe, internal/integration/adapters.go).*)
(*                                                                         *)
(* Herdr owns the topology: which panes exist, who occupies each (the      *)
(* occupant fingerprint), whether that agent is active, and an output      *)
(* revision.  The engine polls it, one poll at a time, gives every live    *)
(* pane a lifecycle generation, and publishes a numbered snapshot when the *)
(* content hash changed.  Herdr events only wake the poll loop.            *)
(*                                                                         *)
(* Atomicity follows the code: the select loop of Run takes one branch at  *)
(* a time; apply, Subscribe and Runs each hold Engine.mu throughout;       *)
(* reading Herdr and applying the outcome are different steps, with any    *)
(* number of other steps in between.                                       *)
(***************************************************************************)
EXTENDS Integers, FiniteSets

CONSTANTS
    Panes,          \* pane ids
    Occupants,      \* occupant fingerprints
    Clients,        \* Subscription objects (each is used once)
    MaxQueueBytes,  \* per-subscription byte budget; a pane costs one byte
    MaxChanges,     \* bound: how often Herdr changes
    MaxFails        \* bound: how many polls fail while ctx is live

ASSUME BoundsAssumption ==
    /\ MaxQueueBytes \in Nat
    /\ MaxChanges \in Nat
    /\ MaxFails \in Nat

ASSUME PanesAssumption == IsFiniteSet(Panes)

Status == {"idle", "working"}

(* herdr.Snapshot: the panes that exist and what Herdr reports of each. *)
PaneInfo == [occ : Occupants, status : Status, rev : Nat]

(* A map from some of the panes to S: a topology, a generation map, ... *)
IsMap(f, S) == DOMAIN f \subseteq Panes /\ f \in [DOMAIN f -> S]

EmptyMap == [p \in {} |-> 0]

(* state.Snapshot.  The hash is a function of the topology, see Hash. *)
IsSnapshot(s) ==
    /\ s \in [seq : Nat, topo : {s.topo}, gens : {s.gens}]
    /\ IsMap(s.topo, PaneInfo)
    /\ IsMap(s.gens, Nat \ {0})

(* The nil *Snapshot before the first successful poll; live ones have
   seq >= 1. *)
NoSnapshot == [seq |-> 0, topo |-> EmptyMap, gens |-> EmptyMap]

VARIABLES
    herdr,        \* what Herdr would answer now
    changes,      \* number of Herdr changes so far
    fails,        \* number of failed polls so far
    pc,           \* Run: "select", "rearm" or "stopped"
    cancelled,    \* ctx of Run is done
    wake,         \* the buffered wake channel holds a token
    inProgress,   \* Run: a poll goroutine is running or its outcome waits
    queued,       \* Run: one follow-up poll is owed
    poll,         \* the poll goroutine and the done channel
    ticker,       \* the interval the ticker was last set to
    lastPollErr,  \* Engine.lastPollErr # nil
    current,      \* Engine.current (its seq is also Engine.seq)
    generations,  \* Engine.generations
    occupants,    \* Engine.occupants
    subs,         \* Engine.subs
    closed,       \* subscriptions closed
    overflow,     \* subscriptions dropped for exceeding their bounds
    pending,      \* seq of the coalesced pending snapshot, 0 if none
    notify,       \* subscriptions whose notify channel holds a token
    fwd,          \* the forwarder goroutine of each subscription
    cancelSub,    \* progress of the cancel function of each subscription
    delivered,    \* history: newest seq handed to each subscriber
    owed,         \* history: a Wake happened after the last read of Herdr
    held          \* history: the pane identities clients hold

herdrVars == <<herdr, changes>>
loopVars == <<pc, wake, inProgress, queued, ticker>>
engineVars == <<lastPollErr, current, generations, occupants>>
subVars == <<subs, closed, overflow, pending, notify>>
fwdVars == <<fwd, cancelSub, delivered>>
vars == <<herdrVars, fails, loopVars, cancelled, poll, engineVars,
          subVars, fwdVars, owed, held>>

-----------------------------------------------------------------------------
(* snapshot.go *)

(* Mutant: the projection forgets the occupant. *)
HashStatusOnly(topo) == [p \in DOMAIN topo |-> topo[p].status]

(* hashTopology: the projection drops the volatile output revision and keeps
   occupant and status.  A hash stands for the projection it digests. *)
Hash(topo) == [p \in DOMAIN topo |-> <<topo[p].occ, topo[p].status>>]

(* Snapshot.bytes: the wire size grows with the number of panes. *)
Bytes(topo) == Cardinality(DOMAIN topo)

-----------------------------------------------------------------------------
(* Herdr, outside the repository: panes open, close, change occupant,
   change status and print output.  A pane id may come back after it was
   closed. *)

OpenPane(p, o) ==
    /\ p \notin DOMAIN herdr
    /\ herdr' = [q \in DOMAIN herdr \cup {p} |->
                    IF q = p THEN [occ |-> o, status |-> "idle", rev |-> 0]
                             ELSE herdr[q]]

ClosePane(p) ==
    /\ p \in DOMAIN herdr
    /\ herdr' = [q \in DOMAIN herdr \ {p} |-> herdr[q]]

ChangeOccupant(p, o) ==
    /\ p \in DOMAIN herdr
    /\ herdr[p].occ # o
    /\ herdr' = [herdr EXCEPT ![p].occ = o]

ChangeStatus(p, s) ==
    /\ p \in DOMAIN herdr
    /\ herdr[p].status # s
    /\ herdr' = [herdr EXCEPT ![p].status = s]

PrintOutput(p) ==
    /\ p \in DOMAIN herdr
    /\ herdr' = [herdr EXCEPT ![p].rev = @ + 1]

HerdrStep ==
    /\ changes < MaxChanges
    /\ changes' = changes + 1
    /\ \E p \in Panes :
          \/ \E o \in Occupants : OpenPane(p, o)
          \/ ClosePane(p)
          \/ \E o \in Occupants : ChangeOccupant(p, o)
          \/ \E s \in Status : ChangeStatus(p, s)
          \/ PrintOutput(p)
    /\ UNCHANGED <<fails, loopVars, cancelled, poll, engineVars, subVars,
                   fwdVars, owed, held>>

-----------------------------------------------------------------------------
(* The poll loop, Engine.Run *)

Idle == [state |-> "none", topo |-> EmptyMap]
Calling == [state |-> "calling", topo |-> EmptyMap]
Failed == [state |-> "failed", topo |-> EmptyMap]
Read(topo) == [state |-> "read", topo |-> topo]
IsPoll(o) ==
    /\ o \in [state : {"none", "calling", "failed", "read"}, topo : {o.topo}]
    /\ IsMap(o.topo, PaneInfo)

(* Mutant: a trigger during a poll is dropped. *)
TriggerDropped(busy) ==
    /\ UNCHANGED queued
    /\ inProgress' = TRUE
    /\ poll' = IF busy THEN poll ELSE Calling

(* The trigger closure: one poll at a time, at most one queued follow-up. *)
Trigger(busy) ==
    IF busy
      THEN /\ queued' = TRUE
           /\ inProgress' = TRUE
           /\ UNCHANGED poll
      ELSE /\ UNCHANGED queued
           /\ inProgress' = TRUE
           /\ poll' = Calling

(* Wake: a non-blocking send on the one-slot channel. *)
Wake ==
    /\ wake' = TRUE
    /\ owed' = TRUE
    /\ UNCHANGED <<herdrVars, fails, pc, inProgress, queued, ticker, cancelled,
                   poll, engineVars, subVars, fwdVars, held>>

(* The ticker branch of the select. *)
Tick ==
    /\ pc = "select"
    /\ Trigger(inProgress)
    /\ UNCHANGED <<herdrVars, fails, pc, wake, ticker, cancelled, engineVars,
                   subVars, fwdVars, owed, held>>

(* The wake branch of the select. *)
TakeWake ==
    /\ pc = "select"
    /\ wake
    /\ wake' = FALSE
    /\ Trigger(inProgress)
    /\ UNCHANGED <<herdrVars, fails, pc, ticker, cancelled, engineVars, subVars,
                   fwdVars, owed, held>>

(* The poll goroutine: source.Snapshot(ctx) answers, the outcome goes to the
   one-slot done channel. *)
PollRead ==
    /\ poll = Calling
    /\ poll' = Read(herdr)
    /\ owed' = FALSE
    /\ UNCHANGED <<herdrVars, fails, loopVars, cancelled, engineVars, subVars,
                   fwdVars, held>>

(* ... or the call fails, at the latest when ctx is done. *)
PollFail ==
    /\ poll = Calling
    /\ cancelled \/ fails < MaxFails
    /\ fails' = IF cancelled THEN fails ELSE fails + 1
    /\ poll' = Failed
    /\ owed' = FALSE
    /\ UNCHANGED <<herdrVars, loopVars, cancelled, engineVars, subVars, fwdVars,
                   held>>

(* Subscription.enqueue of one snapshot on a set of queues: coalesce to the
   newest, or overflow and close when even that one exceeds the byte budget.
   (maxItems is at least 1 after New clamps it, so it never trips.)  The
   queues that accepted are Accepting(targets, snap). *)
Accepting(targets, snap) ==
    {c \in targets : c \notin closed /\ Bytes(snap.topo) <= MaxQueueBytes}

(* Mutant: a full queue keeps its older snapshot. *)
EnqueueKeepOld(targets, snap) ==
    LET ok == Accepting(targets, snap)
        bad == targets \ ok
    IN /\ closed' = closed \cup bad
       /\ overflow' = overflow \cup (bad \ closed)
       /\ pending' = [c \in Clients |->
                        IF c \in ok /\ pending[c] = 0 THEN snap.seq
                        ELSE IF c \in bad THEN 0
                        ELSE pending[c]]
       /\ notify' = notify \cup ok

Enqueue(targets, snap) ==
    LET ok == Accepting(targets, snap)
        bad == targets \ ok
    IN /\ closed' = closed \cup bad
       /\ overflow' = overflow \cup (bad \ closed)
       /\ pending' = [c \in Clients |-> IF c \in ok THEN snap.seq
                                       ELSE IF c \in bad THEN 0
                                       ELSE pending[c]]
       /\ notify' = notify \cup ok

(* Mutant: a changed occupant keeps the generation. *)
GenerationsNotBumped(topo) ==
    /\ generations' = [p \in DOMAIN topo |->
                          IF p \in DOMAIN generations THEN generations[p] ELSE 1]
    /\ occupants' = [p \in DOMAIN topo |-> topo[p].occ]

(* updateGenerationsLocked: new panes start at 1, a changed occupant bumps,
   absent panes are dropped. *)
UpdateGenerations(topo) ==
    /\ generations' = [p \in DOMAIN topo |->
                          IF p \notin DOMAIN generations THEN 1
                          ELSE IF occupants[p] # topo[p].occ
                                 THEN generations[p] + 1
                                 ELSE generations[p]]
    /\ occupants' = [p \in DOMAIN topo |-> topo[p].occ]

(* History: a held pane identity is no longer continuous once an applied
   poll did not show its pane. *)
UpdateHeld(topo) ==
    held' = {[h EXCEPT !.kept = @ /\ h.pane \in DOMAIN topo] : h \in held}

(* apply on success: generations first, then publish and broadcast only if
   the content hash changed (broadcastLocked drops the queues that refused). *)
ApplyTopology(topo) ==
    /\ lastPollErr' = FALSE
    /\ UpdateGenerations(topo)
    /\ UpdateHeld(topo)
    /\ IF current.seq # 0 /\ Hash(current.topo) = Hash(topo)
         THEN UNCHANGED <<current, subVars>>
         ELSE /\ current' = [seq |-> current.seq + 1, topo |-> topo,
                             gens |-> generations']
              /\ Enqueue(subs, current')
              /\ subs' = Accepting(subs, current')

(* apply on error: the last good state stays. *)
ApplyError ==
    /\ lastPollErr' = TRUE
    /\ UNCHANGED <<current, generations, occupants, subVars, held>>

(* Mutant: the done branch leaves inProgress set. *)
TakeDoneStillBusy ==
    /\ pc = "select"
    /\ poll.state \in {"read", "failed"}
    /\ pc' = "rearm"
    /\ poll' = Idle
    /\ IF poll.state = "read" THEN ApplyTopology(poll.topo) ELSE ApplyError
    /\ UNCHANGED <<herdrVars, fails, wake, inProgress, queued, ticker,
                   cancelled, fwdVars, owed>>

(* The done branch of the select, up to the return of apply. *)
TakeDone ==
    /\ pc = "select"
    /\ poll.state \in {"read", "failed"}
    /\ pc' = "rearm"
    /\ inProgress' = FALSE
    /\ poll' = Idle
    /\ IF poll.state = "read" THEN ApplyTopology(poll.topo) ELSE ApplyError
    /\ UNCHANGED <<herdrVars, fails, wake, queued, ticker, cancelled, fwdVars,
                   owed>>

(* active: a subscriber, or an active agent in the published topology. *)
Active ==
    \/ subs # {}
    \/ \E p \in DOMAIN current.topo : current.topo[p].status = "working"

(* The rest of the done branch: re-arm the ticker, run the queued follow-up. *)
Rearm ==
    /\ pc = "rearm"
    /\ pc' = "select"
    /\ ticker' = IF Active THEN "hot" ELSE "cold"
    /\ IF queued
         THEN /\ queued' = FALSE
              /\ inProgress' = TRUE
              /\ poll' = Calling
         ELSE UNCHANGED <<queued, inProgress, poll>>
    /\ UNCHANGED <<herdrVars, fails, wake, cancelled, engineVars, subVars,
                   fwdVars, owed, held>>

Cancel ==
    /\ ~cancelled
    /\ cancelled' = TRUE
    /\ UNCHANGED <<herdrVars, fails, loopVars, poll, engineVars, subVars,
                   fwdVars, owed, held>>

(* The ctx.Done branch of the select; the other ready branches compete. *)
Stop ==
    /\ pc = "select"
    /\ cancelled
    /\ pc' = "stopped"
    /\ UNCHANGED <<herdrVars, fails, wake, inProgress, queued, ticker,
                   cancelled, poll, engineVars, subVars, fwdVars, owed, held>>

-----------------------------------------------------------------------------
(* Subscriptions and the goroutine that drains each of them *)

(* Engine.Subscribe (seeded through enqueue; not registered when the seed
   overflows), then stateAdapter.Subscribe starts the forwarder. *)
Subscribe(c) ==
    /\ fwd[c] = "none"
    /\ fwd' = [fwd EXCEPT ![c] = "wait"]
    /\ IF current.seq = 0
         THEN /\ subs' = subs \cup {c}
              /\ UNCHANGED <<closed, overflow, pending, notify>>
         ELSE /\ Enqueue({c}, current)
              /\ subs' = subs \cup Accepting({c}, current)
    /\ UNCHANGED <<herdrVars, fails, loopVars, cancelled, poll, engineVars,
                   cancelSub, delivered, owed, held>>

(* The forwarder receives from Notify ... *)
FwdNotify(c) ==
    /\ fwd[c] = "wait"
    /\ c \in notify
    /\ notify' = notify \ {c}
    /\ fwd' = [fwd EXCEPT ![c] = "drain"]
    /\ UNCHANGED <<herdrVars, fails, loopVars, cancelled, poll, engineVars,
                   subs, closed, overflow, pending, cancelSub, delivered, owed,
                   held>>

(* ... and drains: the pending snapshot, if any, goes to the callback. *)
FwdDrain(c) ==
    /\ fwd[c] = "drain"
    /\ fwd' = [fwd EXCEPT ![c] = "wait"]
    /\ pending' = [pending EXCEPT ![c] = 0]
    /\ delivered' = IF pending[c] = 0
                      THEN delivered
                      ELSE [delivered EXCEPT ![c] = pending[c]]
    /\ UNCHANGED <<herdrVars, fails, loopVars, cancelled, poll, engineVars,
                   subs, closed, overflow, notify, cancelSub, owed, held>>

(* The forwarder returns on its own done channel or on sub.Done(). *)
FwdExit(c) ==
    /\ fwd[c] = "wait"
    /\ cancelSub[c] # "no" \/ c \in closed
    /\ fwd' = [fwd EXCEPT ![c] = "exit"]
    /\ UNCHANGED <<herdrVars, fails, loopVars, cancelled, poll, engineVars,
                   subVars, cancelSub, delivered, owed, held>>

(* The cancel function (once.Do): close(done); Unsubscribe removes the queue
   under Engine.mu and then closes it under its own lock. *)
CancelSub(c) ==
    /\ fwd[c] # "none"
    /\ cancelSub[c] = "no"
    /\ cancelSub' = [cancelSub EXCEPT ![c] = "asked"]
    /\ UNCHANGED <<herdrVars, fails, loopVars, cancelled, poll, engineVars,
                   subVars, fwd, delivered, owed, held>>

Unsubscribe(c) ==
    /\ cancelSub[c] = "asked"
    /\ cancelSub' = [cancelSub EXCEPT ![c] = "removed"]
    /\ subs' = subs \ {c}
    /\ UNCHANGED <<herdrVars, fails, loopVars, cancelled, poll, engineVars,
                   closed, overflow, pending, notify, fwd, delivered, owed,
                   held>>

Close(c) ==
    /\ cancelSub[c] = "removed"
    /\ cancelSub' = [cancelSub EXCEPT ![c] = "closed"]
    /\ closed' = closed \cup {c}
    /\ pending' = [pending EXCEPT ![c] = 0]
    /\ UNCHANGED <<herdrVars, fails, loopVars, cancelled, poll, engineVars,
                   subs, overflow, notify, fwd, delivered, owed, held>>

-----------------------------------------------------------------------------
(* runs.go: the run projection, read by a client that later presents the
   pane id and the generation back to a guard. *)

Runs ==
    [p \in DOMAIN current.topo \cap DOMAIN generations |->
        [gen |-> generations[p], incarnation |-> occupants[p],
         rev |-> current.topo[p].rev]]

CheckGeneration(p, g) ==
    p \in DOMAIN generations /\ generations[p] = g

(* GET /runs: a client learns the identity of one run.  Held identities do
   not interact, so one at a time is general. *)
ReadRuns(p) ==
    /\ held = {}
    /\ p \in DOMAIN Runs
    /\ held' = {[pane |-> p, gen |-> Runs[p].gen, occ |-> Runs[p].incarnation,
                 kept |-> TRUE]}
    /\ UNCHANGED <<herdrVars, fails, loopVars, cancelled, poll, engineVars,
                   subVars, fwdVars, owed>>

-----------------------------------------------------------------------------
Init ==
    /\ herdr \in UNION {[P -> [occ : Occupants, status : Status, rev : {0}]] :
                         P \in SUBSET Panes}
    /\ changes = 0
    /\ fails = 0
    /\ pc = "select"
    /\ cancelled = FALSE
    /\ wake = FALSE
    /\ inProgress = TRUE       \* "poll once at startup"
    /\ queued = FALSE
    /\ poll = Calling
    /\ ticker = "cold"
    /\ lastPollErr = FALSE
    /\ current = NoSnapshot
    /\ generations = EmptyMap
    /\ occupants = EmptyMap
    /\ subs = {}
    /\ closed = {}
    /\ overflow = {}
    /\ pending = [c \in Clients |-> 0]
    /\ notify = {}
    /\ fwd = [c \in Clients |-> "none"]
    /\ cancelSub = [c \in Clients |-> "no"]
    /\ delivered = [c \in Clients |-> 0]
    /\ owed = FALSE
    /\ held = {}

LoopStep == Tick \/ TakeWake \/ TakeDone \/ Rearm \/ Stop
PollStep == PollRead \/ PollFail
FwdStep(c) == FwdNotify(c) \/ FwdDrain(c) \/ FwdExit(c)
CancelStep(c) == Unsubscribe(c) \/ Close(c)

Next ==
    \/ HerdrStep
    \/ Wake
    \/ LoopStep
    \/ PollStep
    \/ Cancel
    \/ \E c \in Clients : Subscribe(c) \/ FwdStep(c) \/ CancelSub(c)
                             \/ CancelStep(c)
    \/ \E p \in Panes : ReadRuns(p)

Spec == Init /\ [][Next]_vars

(* Herdr calls and goroutines make progress; every ready branch of a Go
   select is taken eventually (the choice is uniform), which for the
   ctx.Done branch, competing with the others for ever, is strong fairness. *)
Fairness ==
    /\ WF_vars(PollStep)
    /\ WF_vars(Tick)
    /\ WF_vars(TakeWake)
    /\ WF_vars(TakeDone)
    /\ WF_vars(Rearm)
    /\ SF_vars(Stop)
    /\ \A c \in Clients : WF_vars(FwdStep(c)) /\ WF_vars(CancelStep(c))

FairSpec == Spec /\ Fairness

-----------------------------------------------------------------------------
(* Properties *)

Held == [pane : Panes, gen : Nat \ {0}, occ : Occupants, kept : BOOLEAN]

HerdrTypeOK ==
    /\ IsMap(herdr, PaneInfo)
    /\ changes \in 0..MaxChanges

LoopTypeOK ==
    /\ fails \in 0..MaxFails
    /\ pc \in {"select", "rearm", "stopped"}
    /\ cancelled \in BOOLEAN
    /\ wake \in BOOLEAN
    /\ inProgress \in BOOLEAN
    /\ queued \in BOOLEAN
    /\ IsPoll(poll)
    /\ ticker \in {"hot", "cold"}
    /\ owed \in BOOLEAN

EngineTypeOK ==
    /\ lastPollErr \in BOOLEAN
    /\ IsSnapshot(current)
    /\ IsMap(generations, Nat \ {0})
    /\ IsMap(occupants, Occupants)
    /\ held \subseteq Held

SubTypeOK ==
    /\ subs \subseteq Clients
    /\ closed \subseteq Clients
    /\ overflow \subseteq Clients
    /\ pending \in [Clients -> Nat]
    /\ notify \subseteq Clients
    /\ fwd \in [Clients -> {"none", "wait", "drain", "exit"}]
    /\ cancelSub \in [Clients -> {"no", "asked", "removed", "closed"}]
    /\ delivered \in [Clients -> Nat]

(* Every variable has its type; generations of live panes start at 1
   (mutations.go rejects expected_generation 0 on the strength of that). *)
TypeOK == HerdrTypeOK /\ LoopTypeOK /\ EngineTypeOK /\ SubTypeOK

(* runs.go: "a run's asserted generation and the generation a mutation is
   checked against can never disagree".  The generations in the published
   snapshot are the ones the guard reads, and they belong to exactly the
   occupants the published topology shows, although apply updates the maps
   before it decides not to publish. *)
GenerationsAgree ==
    /\ current.gens = generations
    /\ DOMAIN generations = DOMAIN current.topo
    /\ DOMAIN occupants = DOMAIN current.topo
    /\ \A p \in DOMAIN current.topo : occupants[p] = current.topo[p].occ

(* doc.go: a wakeup triggers a poll, and one that arrives while a poll runs
   queues exactly one follow-up.  While the loop runs, a wakeup Herdr has not
   been read after is still in the channel, queued, or about to be read. *)
NoLostWake ==
    owed /\ pc # "stopped" => wake \/ queued \/ poll = Calling

(* The generation guard: as long as applied polls kept showing the pane, a
   generation that still matches names the occupant the client saw. *)
HeldGuardSound ==
    \A h \in held :
        h.kept /\ CheckGeneration(h.pane, h.gen) => occupants[h.pane] = h.occ

(* What makes HeldGuardSound inductive: generations of a pane that stays only
   grow, and they move exactly with its occupant. *)
HeldInv ==
    \A h \in held :
        h.kept => /\ h.pane \in DOMAIN generations
                  /\ h.gen <= generations[h.pane]
                  /\ h.gen = generations[h.pane] => occupants[h.pane] = h.occ

(* Coalescing loses nothing: a registered subscriber either has been handed
   the published snapshot or has exactly that one pending. *)
NewestOrDelivered ==
    \A c \in subs : current.seq \in {pending[c], delivered[c]}

(* A pending snapshot of a registered queue is announced: the notify token
   is in the channel or the forwarder is on its way to drain (or has returned,
   which for a registered queue takes a cancellation). *)
NoLostNotify ==
    \A c \in subs : pending[c] # 0 => c \in notify \/ fwd[c] \in {"drain", "exit"}

(* No snapshot is handed over twice and none out of order, across coalescing,
   cancellation and overflow. *)
NoRedelivery ==
    \A c \in Clients : pending[c] # 0 => /\ pending[c] > delivered[c]
                                         /\ pending[c] <= current.seq

(* What a subscriber may rely on, of enqueue, Drain and Unsubscribe together:
   the newest snapshot, announced, once and in order. *)
QueueSound == NewestOrDelivered /\ NoLostNotify /\ NoRedelivery

(* What makes the three inductive: a subscription not yet made is empty, one
   that is closed is neither registered nor holds anything, and a queue holds
   something only while it is registered or between Unsubscribe's two locks. *)
QueueInv ==
    \A c \in Clients :
        /\ fwd[c] = "none" => /\ c \notin subs \cup closed
                              /\ pending[c] = 0
                              /\ delivered[c] = 0
                              /\ cancelSub[c] = "no"
        /\ c \in closed => c \notin subs /\ pending[c] = 0
        /\ cancelSub[c] \in {"removed", "closed"} => c \notin subs
        /\ delivered[c] <= current.seq

(* integration/stack.go stateHealth *)
StateHealthy == current.seq # 0 /\ ~lastPollErr

(* doc.go: "A missed event therefore costs at most one interval, never state
   correctness."  Once Herdr rests and answers, the published content is
   Herdr's and the engine reports healthy, whatever wakeups were lost. *)
Converges ==
    <>[](pc = "stopped" \/ (StateHealthy /\ Hash(current.topo) = Hash(herdr)))

(* doc.go: the poll cadence is hot while an agent works or a client is
   subscribed and relaxes to cold otherwise (once things rest). *)
CadenceSettles ==
    <>[](pc = "stopped" \/
         (ticker = "hot" <=>
            subs # {} \/ \E p \in DOMAIN herdr : herdr[p].status = "working"))

(* Every registered subscriber catches up with the published snapshot. *)
SubscribersServed ==
    \A c \in Clients : []<>(c \notin subs \/ delivered[c] = current.seq)

(* The forwarder goroutine of a cancelled or overflowed subscription ends. *)
ForwarderExits ==
    \A c \in Clients :
        (c \in closed \/ cancelSub[c] # "no") ~> fwd[c] = "exit"

(* Run returns once its context is done, whatever else stays ready. *)
CancelStops == cancelled ~> pc = "stopped"

(* Left alone, the engine comes to rest on Herdr's state, with its cadence and
   its subscribers following; cancelled, its goroutines end (Run, forward). *)
EngineSettles ==
    Converges /\ CadenceSettles /\ SubscribersServed /\ ForwarderExits /\ CancelStops

(* engine.go updateGenerationsLocked: "A dropped id's generation lookup
   fails, so any mutation still holding it is rejected." *)
DroppedGenerationRejected ==
    \A h \in held : ~h.kept => ~CheckGeneration(h.pane, h.gen)

(* runs.go, Run.Revision and Run.StateChangeSeq: "Both let a client detect
   movement without holding content."  Output that Herdr has reported to the
   engine eventually moves the revision that Runs shows. *)
RevisionMoves ==
    <>[](pc = "stopped" \/
         \A p \in DOMAIN Runs \cap DOMAIN herdr : Runs[p].rev = herdr[p].rev)
=============================================================================
