-------------------------- MODULE StateEngineProofs --------------------------
(***************************************************************************)
(* Safety of the state engine for every set of panes, occupants and        *)
(* subscriptions, every byte budget and every number of changes, and that  *)
(* its subscriptions implement ConflatingTopic.  At the end, who owns the  *)
(* files of the state directory, for any number of commands, serve         *)
(* processes, kills and recycled pids.                                     *)
(***************************************************************************)
EXTENDS TopicRefinement, StateDir, TLAPS

(* The empty map is a map into anything. *)
LEMMA EmptyMapLemma ==
    ASSUME NEW S
    PROVE  IsMap(EmptyMap, S) /\ DOMAIN EmptyMap = {}
BY Zenon DEF IsMap, EmptyMap

(* hashTopology determines the panes and their occupants: what survives the
   projection is enough to know that equal hashes mean equal occupants. *)
LEMMA HashDeterminesOccupants ==
    ASSUME NEW s, NEW t, Hash(s) = Hash(t)
    PROVE  /\ DOMAIN s = DOMAIN t
           /\ \A p \in DOMAIN s : s[p].occ = t[p].occ
<1>1. DOMAIN s = DOMAIN Hash(s) /\ DOMAIN t = DOMAIN Hash(t)
  BY Zenon DEF Hash
<1>2. DOMAIN s = DOMAIN t
  BY <1>1, Zenon
<1>3. ASSUME NEW p \in DOMAIN s PROVE s[p].occ = t[p].occ
  <2>1. Hash(s)[p] = <<s[p].occ, s[p].status>>
    BY Zenon DEF Hash
  <2>2. Hash(t)[p] = <<t[p].occ, t[p].status>>
    BY <1>2, Zenon DEF Hash
  <2> QED BY <2>1, <2>2
<1> QED BY <1>2, <1>3, Zenon

-----------------------------------------------------------------------------
(* Types *)

(* The initial state, with the startup poll running, has its types. *)
LEMMA InitTypeOK == Init => TypeOK
<1> SUFFICES ASSUME Init PROVE TypeOK
  BY Zenon
<1>1. IsMap(herdr, PaneInfo)
  BY DEF Init, IsMap, PaneInfo
<1>2. IsMap(EmptyMap, PaneInfo) /\ IsMap(EmptyMap, Nat \ {0})
      /\ IsMap(EmptyMap, Occupants)
  BY EmptyMapLemma, Zenon
<1>3. IsPoll(poll)
  BY <1>2, Zenon DEF Init, IsPoll, Calling
<1>4. IsSnapshot(current)
  BY <1>2, Zenon DEF Init, IsSnapshot, NoSnapshot
<1>5. HerdrTypeOK
  BY <1>1, BoundsAssumption DEF Init, HerdrTypeOK
<1>6. LoopTypeOK
  <2>1. fails \in 0..MaxFails
    BY BoundsAssumption DEF Init
  <2>2. inProgress \in BOOLEAN
    BY Zenon DEF Init
  <2> QED BY <1>3, <2>1, <2>2, Zenon DEF Init, LoopTypeOK
<1>7. EngineTypeOK
  BY <1>2, <1>4, ZenonT(60) DEF Init, EngineTypeOK
<1>8. SubTypeOK
  BY Zenon DEF Init, SubTypeOK
<1> QED BY <1>5, <1>6, <1>7, <1>8, Zenon DEF TypeOK

(* Herdr's own changes leave it a well-typed topology. *)
LEMMA HerdrStepType == TypeOK /\ HerdrStep => IsMap(herdr', PaneInfo)
<1> SUFFICES ASSUME TypeOK, HerdrStep PROVE IsMap(herdr', PaneInfo)
  BY Zenon
<1>1. IsMap(herdr, PaneInfo)
  BY Zenon DEF TypeOK, HerdrTypeOK
<1>2. PICK p \in Panes :
          \/ \E o \in Occupants : OpenPane(p, o)
          \/ ClosePane(p)
          \/ \E o \in Occupants : ChangeOccupant(p, o)
          \/ \E s \in Status : ChangeStatus(p, s)
          \/ PrintOutput(p)
  BY Zenon DEF HerdrStep
<1>3. CASE \E o \in Occupants : OpenPane(p, o)
  BY <1>1, <1>3 DEF OpenPane, IsMap, PaneInfo, Status
<1>4. CASE ClosePane(p)
  BY <1>1, <1>4, Zenon DEF ClosePane, IsMap
<1>5. CASE \E o \in Occupants : ChangeOccupant(p, o)
  BY <1>1, <1>5, Zenon DEF ChangeOccupant, IsMap, PaneInfo
<1>6. CASE \E s \in Status : ChangeStatus(p, s)
  BY <1>1, <1>6, Zenon DEF ChangeStatus, IsMap, PaneInfo
<1>7. CASE PrintOutput(p)
  BY <1>1, <1>7 DEF PrintOutput, IsMap, PaneInfo
<1> QED BY <1>2, <1>3, <1>4, <1>5, <1>6, <1>7, Zenon

(* Subscription.enqueue keeps the queues well-typed. *)
LEMMA EnqueueType ==
    ASSUME SubTypeOK, NEW targets \in SUBSET Clients, NEW snap,
           snap.seq \in Nat, Enqueue(targets, snap)
    PROVE  /\ closed' \subseteq Clients
           /\ overflow' \subseteq Clients
           /\ notify' \subseteq Clients
           /\ pending' \in [Clients -> Nat]
           /\ Accepting(targets, snap) \subseteq targets
BY Zenon DEF SubTypeOK, Enqueue, Accepting

(* updateGenerationsLocked yields a generation of at least 1 and the observed
   occupant for exactly the panes of the polled topology. *)
LEMMA UpdateGenerationsType ==
    ASSUME EngineTypeOK, NEW topo, IsMap(topo, PaneInfo),
           UpdateGenerations(topo)
    PROVE  /\ IsMap(generations', Nat \ {0})
           /\ IsMap(occupants', Occupants)
           /\ DOMAIN generations' = DOMAIN topo
           /\ DOMAIN occupants' = DOMAIN topo
           /\ \A p \in DOMAIN topo : occupants'[p] = topo[p].occ
<1>1. \A p \in DOMAIN topo : topo[p].occ \in Occupants
  BY Zenon DEF IsMap, PaneInfo
<1>2. \A p \in DOMAIN generations : generations[p] \in Nat \ {0}
  BY Zenon DEF EngineTypeOK, IsMap
<1>3. \A p \in DOMAIN topo : generations'[p] \in Nat \ {0}
  BY <1>2 DEF UpdateGenerations
<1> QED BY <1>1, <1>3, Zenon DEF UpdateGenerations, IsMap

(* Marking held identities as interrupted keeps their type. *)
LEMMA UpdateHeldType ==
    ASSUME EngineTypeOK, NEW topo, UpdateHeld(topo)
    PROVE  held' \subseteq Held
<1>1. ASSUME NEW h \in held
      PROVE  [h EXCEPT !.kept = @ /\ h.pane \in DOMAIN topo] \in Held
  BY ZenonT(60) DEF EngineTypeOK, Held
<1> QED BY <1>1, Zenon DEF UpdateHeld

(* A successful apply, published or not, keeps the engine's and the queues'
   types. *)
LEMMA ApplyTopologyType ==
    ASSUME EngineTypeOK, SubTypeOK, NEW topo, IsMap(topo, PaneInfo),
           ApplyTopology(topo), UNCHANGED fwdVars
    PROVE  EngineTypeOK' /\ SubTypeOK'
<1>1. /\ IsMap(generations', Nat \ {0})
      /\ IsMap(occupants', Occupants)
  BY UpdateGenerationsType, Zenon DEF ApplyTopology
<1>2. held' \subseteq Held
  BY UpdateHeldType, Zenon DEF ApplyTopology
<1>3. lastPollErr' \in BOOLEAN
  BY Zenon DEF ApplyTopology
<1>4. CASE UNCHANGED <<current, subVars>>
  BY <1>1, <1>2, <1>3, <1>4, Zenon
  DEF EngineTypeOK, SubTypeOK, subVars, fwdVars, IsSnapshot
<1>5. CASE ~UNCHANGED <<current, subVars>>
  <2>1. /\ current' = [seq |-> current.seq + 1, topo |-> topo,
                       gens |-> generations']
        /\ Enqueue(subs, current')
        /\ subs' = Accepting(subs, current')
    BY <1>5, Zenon DEF ApplyTopology
  <2>2. current'.seq \in Nat
    BY <2>1 DEF EngineTypeOK, IsSnapshot
  <2>3. IsSnapshot(current')
    BY <2>1, <2>2, <1>1, Zenon DEF IsSnapshot
  <2>4. subs \in SUBSET Clients
    BY Zenon DEF SubTypeOK
  <2>5. /\ closed' \subseteq Clients
        /\ overflow' \subseteq Clients
        /\ notify' \subseteq Clients
        /\ pending' \in [Clients -> Nat]
        /\ Accepting(subs, current') \subseteq subs
    BY <2>1, <2>2, <2>4, EnqueueType, Zenon
  <2>6. SubTypeOK'
    BY <2>1, <2>4, <2>5, Zenon DEF SubTypeOK, fwdVars
  <2> QED BY <1>1, <1>2, <1>3, <2>3, <2>6, Zenon DEF EngineTypeOK, IsSnapshot
<1> QED BY <1>4, <1>5, Zenon

(* The three ways a poll outcome is replaced keep it well-typed. *)
LEMMA PollTypes ==
    /\ IsPoll(Idle) /\ IsPoll(Calling) /\ IsPoll(Failed)
    /\ \A t : IsMap(t, PaneInfo) => IsPoll(Read(t))
BY EmptyMapLemma, Zenon DEF IsPoll, Idle, Calling, Failed, Read

(* The trigger closure keeps the loop's flags and the poll well-typed. *)
LEMMA TriggerType ==
    ASSUME LoopTypeOK, Trigger(inProgress)
    PROVE  /\ inProgress' \in BOOLEAN
           /\ queued' \in BOOLEAN
           /\ IsPoll(poll')
<1>1. inProgress' \in BOOLEAN
  BY Zenon DEF Trigger
<1>2. queued' \in BOOLEAN
  BY Zenon DEF Trigger, LoopTypeOK
<1>3. IsPoll(poll')
  <2>1. CASE inProgress
    BY <2>1, Zenon DEF Trigger, LoopTypeOK, IsPoll
  <2>2. CASE ~inProgress
    BY <2>2, PollTypes, Zenon DEF Trigger, LoopTypeOK
  <2> QED BY <2>1, <2>2, Zenon
<1> QED BY <1>1, <1>2, <1>3, Zenon

(* Every step keeps the types of the poll loop. *)
LEMMA LoopTypeStep ==
    ASSUME TypeOK, Next
    PROVE  LoopTypeOK'
<1> USE DEF TypeOK
<1>1. CASE UNCHANGED <<fails, loopVars, cancelled, poll, owed>>
  BY <1>1, Zenon DEF LoopTypeOK, loopVars, IsPoll
<1>2. CASE Wake
  <2>1. wake' \in BOOLEAN /\ owed' \in BOOLEAN
    BY <1>2, Zenon DEF Wake
  <2> QED BY <1>2, <2>1, Zenon DEF Wake, LoopTypeOK, IsPoll
<1>3. CASE Tick
  BY <1>3, TriggerType, Zenon DEF Tick, LoopTypeOK
<1>4. CASE TakeWake
  <2>1. wake' \in BOOLEAN
    BY <1>4, Zenon DEF TakeWake
  <2> QED BY <1>4, <2>1, TriggerType, Zenon DEF TakeWake, LoopTypeOK
<1>5. CASE PollRead
  <2>1. IsPoll(poll')
    BY <1>5, PollTypes, Zenon DEF PollRead, HerdrTypeOK
  <2>2. owed' \in BOOLEAN
    BY <1>5, Zenon DEF PollRead
  <2> QED BY <1>5, <2>1, <2>2, Zenon DEF PollRead, LoopTypeOK, loopVars
<1>6. CASE PollFail
  <2>1. IsPoll(poll')
    BY <1>6, PollTypes, Zenon DEF PollFail
  <2>2. owed' \in BOOLEAN
    BY <1>6, Zenon DEF PollFail
  <2>3. fails' \in 0..MaxFails
    BY <1>6, BoundsAssumption DEF PollFail, LoopTypeOK
  <2> QED BY <1>6, <2>1, <2>2, <2>3, Zenon DEF PollFail, LoopTypeOK, loopVars
<1>7. CASE TakeDone
  <2>1. IsPoll(poll')
    BY <1>7, PollTypes, Zenon DEF TakeDone
  <2>2. inProgress' \in BOOLEAN
    BY <1>7, Zenon DEF TakeDone
  <2> QED BY <1>7, <2>1, <2>2, Zenon DEF TakeDone, LoopTypeOK
<1>8. CASE Rearm
  <2>1. IsPoll(poll')
    <3>1. CASE queued
      BY <1>8, <3>1, PollTypes, Zenon DEF Rearm
    <3>2. CASE ~queued
      BY <1>8, <3>2, Zenon DEF Rearm, LoopTypeOK, IsPoll
    <3> QED BY <3>1, <3>2, Zenon
  <2>2. inProgress' \in BOOLEAN /\ queued' \in BOOLEAN
    BY <1>8, Zenon DEF Rearm, LoopTypeOK
  <2>3. ticker' \in {"hot", "cold"} /\ pc' \in {"select", "rearm", "stopped"}
    BY <1>8, Zenon DEF Rearm
  <2> QED BY <1>8, <2>1, <2>2, <2>3, Zenon DEF Rearm, LoopTypeOK
<1>9. CASE Cancel
  <2>1. cancelled' \in BOOLEAN
    BY <1>9, Zenon DEF Cancel
  <2> QED BY <1>9, <2>1, Zenon DEF Cancel, LoopTypeOK, loopVars, IsPoll
<1>10. CASE Stop
  BY <1>10, Zenon DEF Stop, LoopTypeOK, IsPoll
<1>11. ASSUME NEW c \in Clients,
              Subscribe(c) \/ FwdStep(c) \/ CancelSub(c) \/ CancelStep(c)
       PROVE  UNCHANGED <<fails, loopVars, cancelled, poll, owed>>
  BY <1>11, Zenon DEF Subscribe, FwdStep, FwdNotify, FwdDrain, FwdExit, CancelSub,
               CancelStep, Unsubscribe, Close
<1>12. CASE HerdrStep
  BY <1>1, <1>12, Zenon DEF HerdrStep
<1>13. CASE \E p \in Panes : ReadRuns(p)
  BY <1>1, <1>13, Zenon DEF ReadRuns
<1> QED
  BY <1>1, <1>2, <1>3, <1>4, <1>5, <1>6, <1>7, <1>8, <1>9, <1>10, <1>11, <1>12,
     <1>13, Zenon
  DEF Next, LoopStep, PollStep

(* Every step keeps the types of the engine, the queues and their goroutines. *)
LEMMA EngineSubTypeStep ==
    ASSUME TypeOK, GenerationsAgree, Next
    PROVE  EngineTypeOK' /\ SubTypeOK'
<1> USE DEF TypeOK
<1>1. CASE UNCHANGED <<engineVars, subVars, fwdVars, held>>
  BY <1>1, Zenon DEF EngineTypeOK, SubTypeOK, engineVars, subVars, fwdVars, IsSnapshot
<1>2. CASE TakeDone
  <2>1. CASE poll.state = "read"
    <3>1. ApplyTopology(poll.topo) /\ UNCHANGED fwdVars
      BY <1>2, <2>1, Zenon DEF TakeDone
    <3>2. IsMap(poll.topo, PaneInfo)
      BY Zenon DEF LoopTypeOK, IsPoll
    <3> QED BY <3>1, <3>2, ApplyTopologyType, Zenon
  <2>2. CASE poll.state # "read"
    <3>1. ApplyError /\ UNCHANGED fwdVars
      BY <1>2, <2>2, Zenon DEF TakeDone
    <3>2. lastPollErr' \in BOOLEAN
      BY <3>1, Zenon DEF ApplyError
    <3> QED BY <3>1, <3>2, Zenon
      DEF ApplyError, EngineTypeOK, SubTypeOK, subVars, fwdVars, IsSnapshot
  <2> QED BY <2>1, <2>2, Zenon
<1>3. ASSUME NEW p \in Panes, ReadRuns(p)
      PROVE  EngineTypeOK' /\ SubTypeOK'
  <2>1. held' \subseteq Held
    <3>1. p \in DOMAIN generations /\ p \in DOMAIN current.topo
      BY <1>3, Zenon DEF ReadRuns, Runs
    <3>2. generations[p] \in Nat \ {0}
      BY <3>1, Zenon DEF EngineTypeOK, IsMap
    <3>3. occupants[p] \in Occupants
      BY <3>1, Zenon DEF EngineTypeOK, IsMap, GenerationsAgree
    <3> QED BY <1>3, <3>1, <3>2, <3>3 DEF ReadRuns, Runs, Held
  <2> QED BY <1>3, <2>1, Zenon
    DEF ReadRuns, EngineTypeOK, SubTypeOK, engineVars, subVars, fwdVars, IsSnapshot
<1>4. ASSUME NEW c \in Clients, Subscribe(c)
      PROVE  EngineTypeOK' /\ SubTypeOK'
  <2>1. EngineTypeOK'
    BY <1>4, Zenon DEF Subscribe, EngineTypeOK, engineVars, IsSnapshot
  <2>2. fwd' \in [Clients -> {"none", "wait", "drain", "exit"}]
    BY <1>4, Zenon DEF Subscribe, SubTypeOK
  <2>3. CASE current.seq = 0
    BY <1>4, <2>1, <2>2, <2>3 DEF Subscribe, SubTypeOK
  <2>4. CASE current.seq # 0
    <3>1. Enqueue({c}, current) /\ subs' = subs \cup Accepting({c}, current)
      BY <1>4, <2>4, Zenon DEF Subscribe
    <3>2. current.seq \in Nat /\ {c} \in SUBSET Clients
      BY Zenon DEF EngineTypeOK, IsSnapshot
    <3>3. /\ closed' \subseteq Clients
          /\ overflow' \subseteq Clients
          /\ notify' \subseteq Clients
          /\ pending' \in [Clients -> Nat]
          /\ Accepting({c}, current) \subseteq {c}
      BY <3>1, <3>2, EnqueueType, Zenon
    <3> QED BY <1>4, <2>1, <2>2, <3>1, <3>3, ZenonT(60) DEF Subscribe, SubTypeOK
  <2> QED BY <2>3, <2>4, Zenon
<1>5. ASSUME NEW c \in Clients, FwdStep(c) \/ CancelSub(c) \/ CancelStep(c)
      PROVE  EngineTypeOK' /\ SubTypeOK'
  <2>1. UNCHANGED <<engineVars, held>>
    BY <1>5, Zenon DEF FwdStep, FwdNotify, FwdDrain, FwdExit, CancelSub, CancelStep,
                Unsubscribe, Close
  <2>2. EngineTypeOK'
    BY <2>1, Zenon DEF EngineTypeOK, engineVars, IsSnapshot
  <2>3. CASE FwdStep(c)
    BY <2>2, <2>3 DEF FwdStep, FwdNotify, FwdDrain, FwdExit, SubTypeOK, subVars
  <2>4. CASE CancelSub(c) \/ CancelStep(c)
    BY <2>2, <2>4 DEF CancelSub, CancelStep, Unsubscribe, Close, SubTypeOK, subVars
  <2> QED BY <1>5, <2>2, <2>3, <2>4, Zenon
<1>6. CASE HerdrStep \/ Wake \/ Tick \/ TakeWake \/ Rearm \/ Stop \/ PollStep
           \/ Cancel
  BY <1>1, <1>6, Zenon DEF HerdrStep, Wake, Tick, TakeWake, Rearm, Stop, PollStep,
                    PollRead, PollFail, Cancel
<1> QED BY <1>2, <1>3, <1>4, <1>5, <1>6, Zenon DEF Next, LoopStep

(* Every step keeps Herdr's types. *)
LEMMA HerdrTypeStep ==
    ASSUME TypeOK, Next
    PROVE  HerdrTypeOK'
<1>1. CASE HerdrStep
  BY <1>1, HerdrStepType, BoundsAssumption DEF HerdrStep, TypeOK, HerdrTypeOK
<1>2. CASE ~HerdrStep
  <2>1. UNCHANGED herdrVars
    BY <1>2, Zenon DEF Next, Wake, LoopStep, Tick, TakeWake, TakeDone, Rearm, Stop,
       PollStep, PollRead, PollFail, Cancel, Subscribe, FwdStep, FwdNotify,
       FwdDrain, FwdExit, CancelSub, CancelStep, Unsubscribe, Close, ReadRuns
  <2> QED BY <2>1, Zenon DEF TypeOK, HerdrTypeOK, herdrVars
<1> QED BY <1>1, <1>2, Zenon

-----------------------------------------------------------------------------
(* Generations *)

(* apply keeps the published generations and the guard's in step, also when
   it updates the maps and then publishes nothing because the hash is the
   same. *)
LEMMA ApplyTopologyAgrees ==
    ASSUME EngineTypeOK, GenerationsAgree, NEW topo, IsMap(topo, PaneInfo),
           ApplyTopology(topo)
    PROVE  GenerationsAgree'
<1>1. /\ DOMAIN generations' = DOMAIN topo
      /\ DOMAIN occupants' = DOMAIN topo
      /\ \A p \in DOMAIN topo : occupants'[p] = topo[p].occ
  BY UpdateGenerationsType, Zenon DEF ApplyTopology
<1>2. CASE current.seq # 0 /\ Hash(current.topo) = Hash(topo)
  <2>1. current' = current
    BY <1>2, Zenon DEF ApplyTopology
  <2>2. /\ DOMAIN current.topo = DOMAIN topo
        /\ \A p \in DOMAIN topo : current.topo[p].occ = topo[p].occ
    BY <1>2, HashDeterminesOccupants, Zenon
  <2>3. \A p \in DOMAIN topo : /\ p \in DOMAIN generations
                                /\ occupants[p] = topo[p].occ
    BY <2>2, Zenon DEF GenerationsAgree
  <2>4. generations' = [p \in DOMAIN topo |-> generations[p]]
    BY <2>3, Zenon DEF ApplyTopology, UpdateGenerations
  <2>5. generations' = generations
    BY <2>2, <2>4, Zenon DEF GenerationsAgree, EngineTypeOK, IsMap
  <2> QED BY <1>1, <2>1, <2>2, <2>5, Zenon DEF GenerationsAgree
<1>3. CASE ~(current.seq # 0 /\ Hash(current.topo) = Hash(topo))
  <2>1. current' = [seq |-> current.seq + 1, topo |-> topo,
                    gens |-> generations']
    BY <1>3, Zenon DEF ApplyTopology
  <2> QED BY <1>1, <2>1, Zenon DEF GenerationsAgree
<1> QED BY <1>2, <1>3, Zenon

(* No step lets published and guarded generations disagree. *)
LEMMA GenerationsAgreeStep ==
    ASSUME TypeOK, GenerationsAgree, Next
    PROVE  GenerationsAgree'
<1>1. CASE TakeDone
  <2>1. CASE poll.state = "read"
    <3>1. ApplyTopology(poll.topo) /\ IsMap(poll.topo, PaneInfo)
      BY <1>1, <2>1, Zenon DEF TakeDone, TypeOK, LoopTypeOK, IsPoll
    <3> QED BY <3>1, ApplyTopologyAgrees, Zenon DEF TypeOK
  <2>2. CASE poll.state # "read"
    BY <1>1, <2>2, Zenon DEF TakeDone, ApplyError, GenerationsAgree
  <2> QED BY <2>1, <2>2, Zenon
<1>2. CASE ~TakeDone
  <2>1. UNCHANGED engineVars
    BY <1>2, Zenon DEF Next, HerdrStep, Wake, LoopStep, Tick, TakeWake, Rearm, Stop,
       PollStep, PollRead, PollFail, Cancel, Subscribe, FwdStep, FwdNotify,
       FwdDrain, FwdExit, CancelSub, CancelStep, Unsubscribe, Close, ReadRuns
  <2> QED BY <2>1, Zenon DEF engineVars, GenerationsAgree
<1> QED BY <1>1, <1>2, Zenon

(* The two are inductive together: the type of a held identity needs the
   occupant map to cover the generation map. *)
LEMMA TypeAndGenerationsInductive ==
    TypeOK /\ GenerationsAgree /\ [Next]_vars => TypeOK' /\ GenerationsAgree'
<1> SUFFICES ASSUME TypeOK, GenerationsAgree, [Next]_vars
             PROVE  TypeOK' /\ GenerationsAgree'
  BY Zenon
<1>1. CASE Next
  <2>1. HerdrTypeOK'
    BY <1>1, HerdrTypeStep, Zenon
  <2>2. LoopTypeOK'
    BY <1>1, LoopTypeStep, Zenon
  <2>3. EngineTypeOK' /\ SubTypeOK'
    BY <1>1, EngineSubTypeStep, Zenon
  <2>4. GenerationsAgree'
    BY <1>1, GenerationsAgreeStep, Zenon
  <2> QED BY <2>1, <2>2, <2>3, <2>4, Zenon DEF TypeOK
<1>2. CASE UNCHANGED vars
  <2>1. HerdrTypeOK'
    BY <1>2, Zenon DEF vars, herdrVars, TypeOK, HerdrTypeOK
  <2>2. LoopTypeOK'
    BY <1>2, Zenon DEF vars, loopVars, TypeOK, LoopTypeOK, IsPoll
  <2>3. EngineTypeOK'
    BY <1>2, Zenon DEF vars, engineVars, TypeOK, EngineTypeOK, IsSnapshot
  <2>4. SubTypeOK'
    BY <1>2, Zenon DEF vars, subVars, fwdVars, TypeOK, SubTypeOK
  <2>5. GenerationsAgree'
    BY <1>2, Zenon DEF vars, engineVars, GenerationsAgree
  <2> QED BY <2>1, <2>2, <2>3, <2>4, <2>5, Zenon DEF TypeOK
<1> QED BY <1>1, <1>2, Zenon

(* Before the first poll there are no generations at all. *)
LEMMA InitGenerationsAgree == Init => GenerationsAgree
<1> SUFFICES ASSUME Init PROVE GenerationsAgree
  BY Zenon
<1>1. /\ generations = EmptyMap /\ occupants = EmptyMap
      /\ current.topo = EmptyMap /\ current.gens = EmptyMap
  BY Zenon DEF Init, NoSnapshot
<1> QED BY <1>1, EmptyMapLemma, Zenon DEF GenerationsAgree

(* Type correctness of the engine, its poll loop and its queues. *)
THEOREM TypeCorrect == Spec => []TypeOK
<1>1. Init => TypeOK /\ GenerationsAgree
  BY InitTypeOK, InitGenerationsAgree, Zenon
<1> QED BY <1>1, TypeAndGenerationsInductive, PTL DEF Spec

(* runs.go: the generation a run asserts and the generation a mutation is
   checked against never disagree. *)
THEOREM GenerationsAlwaysAgree == Spec => []GenerationsAgree
<1>1. Init => TypeOK /\ GenerationsAgree
  BY InitTypeOK, InitGenerationsAgree, Zenon
<1> QED BY <1>1, TypeAndGenerationsInductive, PTL DEF Spec

-----------------------------------------------------------------------------
(* Wakeups *)

(* doc.go: no wakeup is lost while the loop runs.  The invariant is inductive
   as it stands: whoever clears one of its three places fills another. *)
THEOREM WakeupsAreKept == Spec => []NoLostWake
<1>1. Init => NoLostWake
  BY Zenon DEF Init, NoLostWake
<1>2. NoLostWake /\ [Next]_vars => NoLostWake'
  <2> SUFFICES ASSUME NoLostWake, [Next]_vars PROVE NoLostWake'
    BY Zenon
  <2>1. CASE Wake
    BY <2>1, Zenon DEF Wake, NoLostWake
  <2>2. CASE Tick \/ TakeWake
    BY <2>2, Zenon DEF Tick, TakeWake, Trigger, NoLostWake
  <2>3. CASE TakeDone
    <3>1. poll # Calling
      BY <2>3 DEF TakeDone, Calling
    <3> QED BY <2>3, <3>1, Zenon DEF TakeDone, NoLostWake
  <2>4. CASE Rearm
    BY <2>4, Zenon DEF Rearm, NoLostWake
  <2>5. CASE PollStep
    BY <2>5, Zenon DEF PollStep, PollRead, PollFail, NoLostWake
  <2>6. CASE Stop
    BY <2>6, Zenon DEF Stop, NoLostWake
  <2>7. CASE UNCHANGED <<pc, wake, queued, poll, owed>>
    BY <2>7, Zenon DEF NoLostWake
  <2>8. CASE \/ HerdrStep \/ Cancel \/ UNCHANGED vars
             \/ \E c \in Clients : Subscribe(c) \/ FwdStep(c) \/ CancelSub(c)
                                      \/ CancelStep(c)
             \/ \E p \in Panes : ReadRuns(p)
    BY <2>7, <2>8, ZenonT(60) DEF HerdrStep, Cancel, Subscribe, FwdStep, FwdNotify, FwdDrain,
       FwdExit, CancelSub, CancelStep, Unsubscribe, Close, ReadRuns, loopVars,
       vars
  <2> QED BY <2>1, <2>2, <2>3, <2>4, <2>5, <2>6, <2>8, Zenon DEF Next, LoopStep
<1> QED BY <1>1, <1>2, PTL DEF Spec

-----------------------------------------------------------------------------
(* The generation guard *)

(* An applied poll that still shows the pane moves its generation up exactly
   when its occupant changed. *)
LEMMA ApplyTopologyHeld ==
    ASSUME EngineTypeOK, GenerationsAgree, HeldInv, NEW topo,
           IsMap(topo, PaneInfo), ApplyTopology(topo)
    PROVE  HeldInv'
<1> SUFFICES ASSUME NEW h \in held', h.kept
             PROVE  /\ h.pane \in DOMAIN generations'
                    /\ h.gen <= generations'[h.pane]
                    /\ h.gen = generations'[h.pane] => occupants'[h.pane] = h.occ
  BY Zenon DEF HeldInv
<1>1. PICK g \in held : h = [g EXCEPT !.kept = @ /\ g.pane \in DOMAIN topo]
  BY Zenon DEF ApplyTopology, UpdateHeld
<1>2. g \in Held
  BY Zenon DEF EngineTypeOK
<1>3. /\ g.kept /\ g.pane \in DOMAIN topo
      /\ h.pane = g.pane /\ h.gen = g.gen /\ h.occ = g.occ
  BY <1>1, <1>2, ZenonT(60) DEF Held
<1>4. /\ g.pane \in DOMAIN generations
      /\ g.gen <= generations[g.pane]
      /\ g.gen = generations[g.pane] => occupants[g.pane] = g.occ
  BY <1>3, Zenon DEF HeldInv
<1>5. generations[g.pane] \in Nat /\ g.gen \in Nat
  BY <1>2, <1>4, Zenon DEF EngineTypeOK, IsMap, Held
<1>6. /\ DOMAIN generations' = DOMAIN topo
      /\ occupants'[g.pane] = topo[g.pane].occ
      /\ generations'[g.pane] = IF occupants[g.pane] # topo[g.pane].occ
                                  THEN generations[g.pane] + 1
                                  ELSE generations[g.pane]
  BY <1>3, <1>4, Zenon DEF ApplyTopology, UpdateGenerations
<1>7. CASE occupants[g.pane] = topo[g.pane].occ
  <2>1. generations'[g.pane] = generations[g.pane]
    BY <1>6, <1>7, Zenon
  <2> QED BY <1>3, <1>4, <1>6, <1>7, <2>1, Zenon
<1>8. CASE occupants[g.pane] # topo[g.pane].occ
  <2>1. generations'[g.pane] = generations[g.pane] + 1
    BY <1>6, <1>8, Zenon
  <2>2. g.gen <= generations'[g.pane] /\ g.gen # generations'[g.pane]
    BY <1>4, <1>5, <2>1
  <2> QED BY <1>3, <1>6, <2>2, Zenon
<1> QED BY <1>7, <1>8, Zenon

(* Held identities stay behind or equal to the generation of their pane. *)
LEMMA HeldInvStep ==
    ASSUME TypeOK, GenerationsAgree, HeldInv, [Next]_vars
    PROVE  HeldInv'
<1>1. CASE TakeDone
  <2>1. CASE poll.state = "read"
    <3>1. ApplyTopology(poll.topo) /\ IsMap(poll.topo, PaneInfo)
      BY <1>1, <2>1, Zenon DEF TakeDone, TypeOK, LoopTypeOK, IsPoll
    <3> QED BY <3>1, ApplyTopologyHeld, Zenon DEF TypeOK
  <2>2. CASE poll.state # "read"
    BY <1>1, <2>2, Zenon DEF TakeDone, ApplyError, HeldInv
  <2> QED BY <2>1, <2>2, Zenon
<1>2. ASSUME NEW p \in Panes, ReadRuns(p) PROVE HeldInv'
  <2>1. /\ p \in DOMAIN generations
        /\ held' = {[pane |-> p, gen |-> generations[p], occ |-> occupants[p],
                     kept |-> TRUE]}
        /\ UNCHANGED engineVars
    BY <1>2, Zenon DEF ReadRuns, Runs
  <2>2. generations[p] \in Nat
    BY <2>1, Zenon DEF TypeOK, EngineTypeOK, IsMap
  <2>3. generations' = generations /\ occupants' = occupants
    BY <2>1, Zenon DEF engineVars
  <2>4. \A h \in held' : h.pane = p /\ h.gen = generations[p] /\ h.occ = occupants[p]
    BY <2>1
  <2> SUFFICES ASSUME NEW h \in held'
               PROVE  /\ h.pane \in DOMAIN generations
                      /\ h.gen <= generations[h.pane]
                      /\ h.gen = generations[h.pane] => occupants[h.pane] = h.occ
    BY <2>3, Zenon DEF HeldInv
  <2>5. h.pane = p /\ h.gen = generations[p] /\ h.occ = occupants[p]
    BY <2>4, Zenon
  <2> QED BY <2>1, <2>2, <2>5
<1>3. CASE UNCHANGED <<generations, occupants, held>>
  BY <1>3, Zenon DEF HeldInv
<1>4. CASE \/ HerdrStep \/ Wake \/ Tick \/ TakeWake \/ Rearm \/ Stop \/ PollStep
           \/ Cancel \/ UNCHANGED vars
           \/ \E c \in Clients : Subscribe(c) \/ FwdStep(c) \/ CancelSub(c)
                                    \/ CancelStep(c)
  BY <1>3, <1>4, Zenon DEF HerdrStep, Wake, Tick, TakeWake, Rearm, Stop, PollStep,
     PollRead, PollFail, Cancel, Subscribe, FwdStep, FwdNotify, FwdDrain,
     FwdExit, CancelSub, CancelStep, Unsubscribe, Close, engineVars, vars
<1> QED BY <1>1, <1>2, <1>4, Zenon DEF Next, LoopStep

(* The generation guard admits a request only for the occupant its client
   saw, for as long as polls kept showing the pane. *)
THEOREM GuardIsSound == Spec => []HeldGuardSound
<1>1. Init => TypeOK /\ GenerationsAgree /\ HeldInv
  BY InitTypeOK, InitGenerationsAgree, Zenon DEF Init, HeldInv
<1>2. TypeOK /\ GenerationsAgree /\ HeldInv /\ [Next]_vars
      => TypeOK' /\ GenerationsAgree' /\ HeldInv'
  BY TypeAndGenerationsInductive, HeldInvStep, Zenon
<1>3. HeldInv => HeldGuardSound
  BY Zenon DEF HeldInv, HeldGuardSound, CheckGeneration
<1> QED BY <1>1, <1>2, <1>3, PTL DEF Spec

-----------------------------------------------------------------------------
(* Subscriptions *)

QueuesOK == QueueInv /\ NewestOrDelivered /\ NoLostNotify /\ NoRedelivery

(* What enqueue does to one queue. *)
LEMMA EnqueueEffect ==
    ASSUME SubTypeOK, NEW targets \in SUBSET Clients, NEW snap,
           Enqueue(targets, snap), NEW c \in Clients
    PROVE  /\ c \in Accepting(targets, snap) =>
                 pending'[c] = snap.seq /\ c \in notify' /\ (c \in closed' <=> c \in closed)
           /\ c \in targets \ Accepting(targets, snap) =>
                 pending'[c] = 0 /\ c \in closed'
           /\ c \notin targets =>
                 /\ pending'[c] = pending[c]
                 /\ (c \in notify' <=> c \in notify)
                 /\ (c \in closed' <=> c \in closed)
           /\ Accepting(targets, snap) \subseteq targets \ closed
BY Zenon DEF SubTypeOK, Enqueue, Accepting

(* A publication reaches every registered queue or closes it. *)
LEMMA ApplyTopologyQueues ==
    ASSUME EngineTypeOK, SubTypeOK, QueuesOK, NEW topo, ApplyTopology(topo),
           UNCHANGED fwdVars
    PROVE  QueuesOK'
<1>1. CASE UNCHANGED <<current, subVars>>
  BY <1>1, Zenon DEF QueuesOK, QueueInv, NewestOrDelivered, NoLostNotify, NoRedelivery,
     subVars, fwdVars
<1>2. CASE ~UNCHANGED <<current, subVars>>
  <2>1. /\ current' = [seq |-> current.seq + 1, topo |-> topo,
                       gens |-> generations']
        /\ Enqueue(subs, current')
        /\ subs' = Accepting(subs, current')
    BY <1>2, Zenon DEF ApplyTopology
  <2>2. current.seq \in Nat /\ current'.seq = current.seq + 1
    BY <2>1, Zenon DEF EngineTypeOK, IsSnapshot
  <2>3. subs \in SUBSET Clients
    BY Zenon DEF SubTypeOK
  <2>4. ASSUME NEW c \in Clients
        PROVE  /\ c \in subs' =>
                     pending'[c] = current'.seq /\ c \in notify' /\ c \notin closed'
                     /\ c \in subs
               /\ c \in subs \ subs' => pending'[c] = 0 /\ c \in closed'
               /\ c \notin subs =>
                     /\ pending'[c] = pending[c]
                     /\ (c \in notify' <=> c \in notify)
                     /\ (c \in closed' <=> c \in closed)
    <3>0. PICK snap : snap = current'
      BY Zenon
    <3> DEFINE ok == Accepting(subs, snap)
    <3>e. Enqueue(subs, snap)
      BY <2>1, <3>0, Zenon
    <3>1. /\ c \in ok =>
                pending'[c] = snap.seq /\ c \in notify'
                /\ (c \in closed' <=> c \in closed)
          /\ c \in subs \ ok => pending'[c] = 0 /\ c \in closed'
          /\ c \notin subs => /\ pending'[c] = pending[c]
                             /\ (c \in notify' <=> c \in notify)
                             /\ (c \in closed' <=> c \in closed)
          /\ ok \subseteq subs \ closed
      BY <2>3, <2>4, <3>e, EnqueueEffect, Zenon
    <3>2. subs' = ok
      BY <2>1, <3>0, Zenon
    <3> HIDE DEF ok
    <3> QED BY <3>0, <3>1, <3>2, Zenon
  <2>5. /\ fwd' = fwd /\ cancelSub' = cancelSub /\ delivered' = delivered
        /\ delivered \in [Clients -> Nat] /\ pending \in [Clients -> Nat]
    BY Zenon DEF fwdVars, SubTypeOK
  <2>6. QueueInv'
    <3> SUFFICES ASSUME NEW c \in Clients
                 PROVE  /\ fwd[c] = "none" => /\ c \notin subs' \cup closed'
                                              /\ pending'[c] = 0
                                              /\ delivered[c] = 0
                                              /\ cancelSub[c] = "no"
                        /\ c \in closed' => c \notin subs' /\ pending'[c] = 0
                        /\ cancelSub[c] \in {"removed", "closed"} => c \notin subs'
                        /\ delivered[c] <= current'.seq
      BY <2>5, Zenon DEF QueueInv
    <3>1. /\ fwd[c] = "none" => /\ c \notin subs \cup closed
                                /\ pending[c] = 0
                                /\ delivered[c] = 0
                                /\ cancelSub[c] = "no"
          /\ c \in closed => c \notin subs /\ pending[c] = 0
          /\ cancelSub[c] \in {"removed", "closed"} => c \notin subs
          /\ delivered[c] <= current.seq
      BY Zenon DEF QueuesOK, QueueInv
    <3>2. delivered[c] <= current'.seq
      BY <2>2, <2>5, <3>1
    <3> QED BY <2>4, <3>1, <3>2, Zenon
  <2>7. NewestOrDelivered' /\ NoLostNotify'
    <3>1. subs' \subseteq Clients
      BY <2>1, <2>3, Zenon DEF Accepting
    <3> QED BY <2>4, <3>1, Zenon DEF NewestOrDelivered, NoLostNotify
  <2>8. NoRedelivery'
    <3> SUFFICES ASSUME NEW c \in Clients, pending'[c] # 0
                 PROVE  pending'[c] > delivered[c] /\ pending'[c] <= current'.seq
      BY <2>5, Zenon DEF NoRedelivery
    <3>1. delivered[c] <= current.seq /\ delivered[c] \in Nat /\ pending[c] \in Nat
      BY <2>5, Zenon DEF QueuesOK, QueueInv
    <3>2. CASE pending'[c] = current'.seq
      BY <2>2, <3>1, <3>2
    <3>3. CASE pending'[c] = pending[c]
      <4>1. pending[c] > delivered[c] /\ pending[c] <= current.seq
        BY <3>3, Zenon DEF QueuesOK, NoRedelivery
      <4> QED BY <2>2, <3>1, <3>3, <4>1
    <3> QED BY <2>4, <3>2, <3>3, Zenon
  <2> QED BY <2>6, <2>7, <2>8, Zenon DEF QueuesOK
<1> QED BY <1>1, <1>2, Zenon

(* A new subscription is seeded with the published snapshot or refused. *)
LEMMA SubscribeQueues ==
    ASSUME EngineTypeOK, SubTypeOK, QueuesOK, NEW c \in Clients, Subscribe(c)
    PROVE  QueuesOK'
<1>1. /\ fwd[c] = "none" /\ c \notin subs \cup closed /\ pending[c] = 0
      /\ delivered[c] = 0 /\ cancelSub[c] = "no"
  BY Zenon DEF Subscribe, QueuesOK, QueueInv
<1>2. /\ fwd' = [fwd EXCEPT ![c] = "wait"] /\ cancelSub' = cancelSub
      /\ delivered' = delivered /\ current' = current
      /\ fwd \in [Clients -> {"none", "wait", "drain", "exit"}]
      /\ subs \subseteq Clients
      /\ current.seq \in Nat
  BY Zenon DEF Subscribe, engineVars, SubTypeOK, EngineTypeOK, IsSnapshot
<1>3. ASSUME NEW d \in Clients, d # c
      PROVE  /\ (d \in subs' <=> d \in subs)
             /\ (d \in closed' <=> d \in closed)
             /\ (d \in notify' <=> d \in notify)
             /\ pending'[d] = pending[d]
  <2>1. CASE current.seq = 0
    BY <1>3, <2>1, Zenon DEF Subscribe
  <2>2. CASE current.seq # 0
    <3>1. Enqueue({c}, current) /\ subs' = subs \cup Accepting({c}, current)
      BY <2>2, Zenon DEF Subscribe
    <3>2. d \notin {c} /\ {c} \in SUBSET Clients
      BY <1>3, Zenon
    <3>3. d \notin Accepting({c}, current)
      BY <3>2, Zenon DEF Accepting
    <3>4. /\ pending'[d] = pending[d]
          /\ (d \in notify' <=> d \in notify)
          /\ (d \in closed' <=> d \in closed)
      BY <1>3, <3>1, <3>2, EnqueueEffect, Zenon
    <3> QED BY <3>1, <3>3, <3>4, Zenon
  <2> QED BY <2>1, <2>2, Zenon
<1>4. /\ c \in subs' => pending'[c] = current.seq /\ c \notin closed'
      /\ c \in subs' /\ current.seq # 0 => c \in notify'
      /\ c \notin subs' => pending'[c] = 0
      /\ subs' \subseteq Clients
  <2>1. CASE current.seq = 0
    BY <2>1, <1>1, <1>2, Zenon DEF Subscribe
  <2>2. CASE current.seq # 0
    <3>1. Enqueue({c}, current) /\ subs' = subs \cup Accepting({c}, current)
      BY <2>2, Zenon DEF Subscribe
    <3>2. c \in Accepting({c}, current) <=> c \in subs'
      BY <1>1, <3>1, Zenon DEF Accepting
    <3>3. Accepting({c}, current) \subseteq {c}
      BY Zenon DEF Accepting
    <3>4. {c} \in SUBSET Clients
      BY Zenon
    <3>5. /\ c \in subs' => /\ pending'[c] = current.seq /\ c \in notify'
                            /\ (c \in closed' <=> c \in closed)
          /\ c \notin subs' => pending'[c] = 0
      BY <3>1, <3>2, <3>4, EnqueueEffect, Zenon
    <3>6. subs' \subseteq Clients
      BY <1>2, <3>1, <3>3, Zenon
    <3> QED BY <1>1, <3>5, <3>6, Zenon
  <2> QED BY <2>1, <2>2, Zenon
<1>5. QueueInv'
  BY <1>1, <1>2, <1>3, <1>4, Zenon DEF QueuesOK, QueueInv
<1>6. NewestOrDelivered'
  BY <1>2, <1>3, <1>4, Zenon DEF QueuesOK, NewestOrDelivered
<1>7. NoLostNotify'
  BY <1>2, <1>3, <1>4, Zenon DEF QueuesOK, NoLostNotify
<1>8. NoRedelivery'
  <2> SUFFICES ASSUME NEW d \in Clients, pending'[d] # 0
               PROVE  pending'[d] > delivered[d] /\ pending'[d] <= current.seq
    BY <1>2, Zenon DEF NoRedelivery
  <2>1. CASE d # c
    BY <1>3, <2>1, Zenon DEF QueuesOK, NoRedelivery
  <2>2. CASE d = c
    <3>1. delivered[d] = 0 /\ pending'[d] = current.seq
      BY <1>1, <1>4, <2>2, Zenon
    <3>2. current.seq > 0
      BY <1>2, <3>1
    <3> QED BY <1>2, <3>1, <3>2
  <2> QED BY <2>1, <2>2, Zenon
<1> QED BY <1>5, <1>6, <1>7, <1>8, Zenon DEF QueuesOK

(* The forwarder and the cancel function. *)
LEMMA ForwarderQueues ==
    ASSUME EngineTypeOK, SubTypeOK, QueuesOK, NEW c \in Clients,
           FwdStep(c) \/ CancelSub(c) \/ CancelStep(c)
    PROVE  QueuesOK'
<1>1. current' = current /\ current.seq \in Nat
  BY Zenon DEF FwdStep, FwdNotify, FwdDrain, FwdExit, CancelSub, CancelStep,
     Unsubscribe, Close, engineVars, EngineTypeOK, IsSnapshot
<1> USE DEF SubTypeOK
<1>2. CASE FwdNotify(c)
  <2>1. QueueInv'
    BY <1>1, <1>2, Zenon DEF FwdNotify, QueuesOK, QueueInv, NoRedelivery
  <2>2. NewestOrDelivered'
    BY <1>1, <1>2, Zenon DEF FwdNotify, QueuesOK, QueueInv, NewestOrDelivered
  <2>3. NoLostNotify'
    BY <1>1, <1>2, Zenon DEF FwdNotify, QueuesOK, NoLostNotify
  <2>4. NoRedelivery'
    BY <1>1, <1>2, Zenon DEF FwdNotify, QueuesOK, NoRedelivery
  <2> QED BY <2>1, <2>2, <2>3, <2>4, Zenon DEF QueuesOK
<1>3. CASE FwdDrain(c)
  <2>1. QueueInv'
    BY <1>1, <1>3, Zenon DEF FwdDrain, QueuesOK, QueueInv, NoRedelivery
  <2>2. NewestOrDelivered'
    <3> SUFFICES ASSUME NEW d \in subs
                 PROVE  current.seq \in {pending'[d], delivered'[d]}
      BY <1>1, <1>3, Zenon DEF FwdDrain, NewestOrDelivered
    <3>1. current.seq \in {pending[d], delivered[d]} /\ d \in Clients
      BY Zenon DEF QueuesOK, NewestOrDelivered
    <3>2. CASE d # c
      <4>1. pending'[d] = pending[d] /\ delivered'[d] = delivered[d]
        BY <1>3, <3>1, <3>2, Zenon DEF FwdDrain
      <4> QED BY <3>1, <4>1, Zenon
    <3>3. CASE d = c /\ pending[c] = 0
      <4>1. pending'[d] = pending[d] /\ delivered'[d] = delivered[d]
        BY <1>3, <3>3, Zenon DEF FwdDrain
      <4> QED BY <3>1, <4>1, Zenon
    <3>4. CASE d = c /\ pending[c] # 0
      <4>1. delivered'[d] = pending[d]
        BY <1>3, <3>4, Zenon DEF FwdDrain
      <4>2. delivered[d] < pending[d] /\ pending[d] <= current.seq
        BY <3>4, Zenon DEF QueuesOK, NoRedelivery
      <4>3. delivered[d] \in Nat /\ pending[d] \in Nat
        BY <3>1, Zenon
      <4>4. current.seq # delivered[d]
        BY <1>1, <4>2, <4>3
      <4> QED BY <3>1, <4>1, <4>4, Zenon
    <3> QED BY <3>2, <3>3, <3>4, Zenon
  <2>3. NoLostNotify'
    BY <1>1, <1>3, Zenon DEF FwdDrain, QueuesOK, NoLostNotify
  <2>4. NoRedelivery'
    BY <1>1, <1>3, Zenon DEF FwdDrain, QueuesOK, NoRedelivery
  <2> QED BY <2>1, <2>2, <2>3, <2>4, Zenon DEF QueuesOK
<1>4. CASE FwdExit(c)
  <2>1. QueueInv'
    BY <1>1, <1>4, Zenon DEF FwdExit, subVars, QueuesOK, QueueInv, NoRedelivery
  <2>2. NewestOrDelivered'
    BY <1>1, <1>4, Zenon DEF FwdExit, subVars, QueuesOK, QueueInv, NewestOrDelivered
  <2>3. NoLostNotify'
    BY <1>1, <1>4, Zenon DEF FwdExit, subVars, QueuesOK, NoLostNotify
  <2>4. NoRedelivery'
    BY <1>1, <1>4, Zenon DEF FwdExit, subVars, QueuesOK, NoRedelivery
  <2> QED BY <2>1, <2>2, <2>3, <2>4, Zenon DEF QueuesOK
<1>5. CASE CancelSub(c)
  <2>1. QueueInv'
    BY <1>1, <1>5, Zenon DEF CancelSub, subVars, QueuesOK, QueueInv, NoRedelivery
  <2>2. NewestOrDelivered'
    BY <1>1, <1>5, Zenon DEF CancelSub, subVars, QueuesOK, QueueInv, NewestOrDelivered
  <2>3. NoLostNotify'
    BY <1>1, <1>5, Zenon DEF CancelSub, subVars, QueuesOK, NoLostNotify
  <2>4. NoRedelivery'
    BY <1>1, <1>5, Zenon DEF CancelSub, subVars, QueuesOK, NoRedelivery
  <2> QED BY <2>1, <2>2, <2>3, <2>4, Zenon DEF QueuesOK
<1>6. CASE Unsubscribe(c)
  <2>1. QueueInv'
    BY <1>1, <1>6, Zenon DEF Unsubscribe, QueuesOK, QueueInv, NoRedelivery
  <2>2. NewestOrDelivered'
    BY <1>1, <1>6, Zenon DEF Unsubscribe, QueuesOK, QueueInv, NewestOrDelivered
  <2>3. NoLostNotify'
    BY <1>1, <1>6, Zenon DEF Unsubscribe, QueuesOK, NoLostNotify
  <2>4. NoRedelivery'
    BY <1>1, <1>6, Zenon DEF Unsubscribe, QueuesOK, NoRedelivery
  <2> QED BY <2>1, <2>2, <2>3, <2>4, Zenon DEF QueuesOK
<1>7. CASE Close(c)
  <2>1. QueueInv'
    BY <1>1, <1>7, Zenon DEF Close, QueuesOK, QueueInv, NoRedelivery
  <2>2. NewestOrDelivered'
    BY <1>1, <1>7, Zenon DEF Close, QueuesOK, QueueInv, NewestOrDelivered
  <2>3. NoLostNotify'
    BY <1>1, <1>7, Zenon DEF Close, QueuesOK, NoLostNotify
  <2>4. NoRedelivery'
    BY <1>1, <1>7, Zenon DEF Close, QueuesOK, NoRedelivery
  <2> QED BY <2>1, <2>2, <2>3, <2>4, Zenon DEF QueuesOK
<1> QED BY <1>2, <1>3, <1>4, <1>5, <1>6, <1>7, Zenon DEF FwdStep, CancelStep

(* Every step keeps the queue invariants. *)
LEMMA QueuesStep ==
    ASSUME TypeOK, QueuesOK, [Next]_vars
    PROVE  QueuesOK'
<1> USE DEF TypeOK
<1>1. CASE TakeDone
  <2>1. CASE poll.state = "read"
    <3>1. ApplyTopology(poll.topo) /\ UNCHANGED fwdVars
      BY <1>1, <2>1, Zenon DEF TakeDone
    <3> QED BY <3>1, ApplyTopologyQueues, Zenon
  <2>2. CASE poll.state # "read"
    BY <1>1, <2>2, Zenon DEF TakeDone, ApplyError, subVars, fwdVars, QueuesOK, QueueInv,
       NewestOrDelivered, NoLostNotify, NoRedelivery
  <2> QED BY <2>1, <2>2, Zenon
<1>2. CASE \E c \in Clients : Subscribe(c)
  BY <1>2, SubscribeQueues, Zenon
<1>3. CASE \E c \in Clients : FwdStep(c) \/ CancelSub(c) \/ CancelStep(c)
  BY <1>3, ForwarderQueues, Zenon
<1>4. CASE UNCHANGED <<current, subVars, fwdVars>>
  BY <1>4, Zenon DEF subVars, fwdVars, QueuesOK, QueueInv, NewestOrDelivered,
     NoLostNotify, NoRedelivery
<1>5. CASE \/ HerdrStep \/ Wake \/ Tick \/ TakeWake \/ Rearm \/ Stop \/ PollStep
           \/ Cancel \/ UNCHANGED vars
           \/ \E p \in Panes : ReadRuns(p)
  BY <1>4, <1>5, Zenon DEF HerdrStep, Wake, Tick, TakeWake, Rearm, Stop, PollStep,
     PollRead, PollFail, Cancel, ReadRuns, engineVars, vars
<1> QED BY <1>1, <1>2, <1>3, <1>5, Zenon DEF Next, LoopStep

(* There are no subscriptions at the start. *)
LEMMA InitQueues == Init => QueuesOK
<1> SUFFICES ASSUME Init PROVE QueuesOK
  BY Zenon
<1>1. subs = {} /\ closed = {} /\ current.seq = 0
  BY Zenon DEF Init, NoSnapshot
<1>2. \A c \in Clients : /\ pending[c] = 0 /\ delivered[c] = 0
                         /\ cancelSub[c] = "no"
  BY Zenon DEF Init
<1>3. QueueInv
  <2>1. \A c \in Clients : delivered[c] <= current.seq
    <3>1. 0 <= 0
      OBVIOUS
    <3>2. \A c \in Clients : delivered[c] = current.seq
      BY <1>1, <1>2, Zenon
    <3>3. current.seq <= current.seq
      BY <1>1, <3>1, Zenon
    <3> QED BY <3>2, <3>3, Zenon
  <2>2. \A c \in Clients : c \notin subs /\ c \notin closed
    BY <1>1, Zenon
  <2> QED BY <1>2, <2>1, <2>2, Zenon DEF QueueInv
<1>4. NewestOrDelivered /\ NoLostNotify
  BY <1>1, Zenon DEF NewestOrDelivered, NoLostNotify
<1>5. NoRedelivery
  BY <1>2, Zenon DEF NoRedelivery
<1> QED BY <1>3, <1>4, <1>5, Zenon DEF QueuesOK

(* The queue invariants hold in every reachable state. *)
LEMMA QueuesAlwaysOK == Spec => []QueuesOK
<1>1. Init => TypeOK /\ GenerationsAgree /\ QueuesOK
  BY InitTypeOK, InitGenerationsAgree, InitQueues, Zenon
<1>2. TypeOK /\ GenerationsAgree /\ QueuesOK /\ [Next]_vars
      => TypeOK' /\ GenerationsAgree' /\ QueuesOK'
  BY TypeAndGenerationsInductive, QueuesStep, Zenon
<1> QED BY <1>1, <1>2, PTL DEF Spec

(* Coalescing in enqueue loses nothing: every registered subscriber has the
   published snapshot or has it pending, for any number of subscribers. *)
THEOREM NewestIsNeverLost == Spec => []NewestOrDelivered
<1>1. QueuesOK => NewestOrDelivered
  BY Zenon DEF QueuesOK
<1> QED BY <1>1, QueuesAlwaysOK, PTL

(* The one-slot notify channel loses no announcement: a pending snapshot of a
   registered subscription is signalled or about to be drained. *)
THEOREM AnnouncementsAreKept == Spec => []NoLostNotify
<1>1. QueuesOK => NoLostNotify
  BY Zenon DEF QueuesOK
<1> QED BY <1>1, QueuesAlwaysOK, PTL

(* Drain hands no snapshot over twice and none out of order. *)
THEOREM NothingIsRedelivered == Spec => []NoRedelivery
<1>1. QueuesOK => NoRedelivery
  BY Zenon DEF QueuesOK
<1> QED BY <1>1, QueuesAlwaysOK, PTL

(* Subscribers get the newest snapshot, announced, once and in order: the three
   together, of enqueue, Drain and Unsubscribe. *)
THEOREM QueuesAreSound == Spec => []QueueSound
<1>1. QueuesOK => QueueSound
  BY Zenon DEF QueuesOK, QueueSound
<1> QED BY <1>1, QueuesAlwaysOK, PTL

-----------------------------------------------------------------------------
(* The subscriptions implement ConflatingTopic.  The queue invariants are what
   makes each step fit: a new subscription's slot is empty, and Close empties
   the slot of one that was removed. *)

Used == {c \in Clients : fwd[c] # "none"}

(* Steps that touch neither snapshot nor queues, and start no forwarder, leave
   the topic alone. *)
LEMMA StutterMaps ==
    ASSUME UNCHANGED <<current, subs, pending, delivered>>, Used' = Used
    PROVE  UNCHANGED Topic!topicVars
BY Zenon DEF Topic!topicVars, Used

(* apply: a publication is one Publish, in which the queues that accepted
   the snapshot are the subscribers that fit. *)
LEMMA ApplyMaps ==
    ASSUME EngineTypeOK, SubTypeOK, NEW topo, ApplyTopology(topo), UNCHANGED fwdVars
    PROVE  [Topic!Next]_(Topic!topicVars)
<1>1. Used' = Used /\ delivered' = delivered
  BY Zenon DEF Used, fwdVars
<1>2. CASE UNCHANGED <<current, subVars>>
  BY <1>1, <1>2, StutterMaps, Zenon DEF subVars
<1>3. CASE ~UNCHANGED <<current, subVars>>
  <2>1. /\ current' = [seq |-> current.seq + 1, topo |-> topo, gens |-> generations']
        /\ Enqueue(subs, current')
        /\ subs' = Accepting(subs, current')
    BY <1>3, Zenon DEF ApplyTopology
  <2>2. PICK snap : snap = current'
    BY Zenon
  <2>3. current'.seq = current.seq + 1 /\ snap.seq = current.seq + 1
    BY <2>1, <2>2, Zenon
  <2>4. subs' \subseteq subs
    BY <2>1, Zenon DEF Accepting
  <2>5. pending' = [c \in Clients |-> IF c \in subs' THEN current.seq + 1
                                     ELSE IF c \in subs THEN 0
                                     ELSE pending[c]]
    <3>1. pending' = [c \in Clients |->
                        IF c \in Accepting(subs, snap) THEN snap.seq
                        ELSE IF c \in subs \ Accepting(subs, snap) THEN 0
                        ELSE pending[c]]
      BY <2>1, <2>2, Zenon DEF Enqueue
    <3>2. subs' = Accepting(subs, snap)
      BY <2>1, <2>2, Zenon
    <3> QED BY <2>3, <3>1, <3>2, Zenon
  <2>6. Topic!Publish
    BY <1>1, <2>3, <2>4, <2>5, Zenon DEF Topic!Publish, Used
  <2> QED BY <2>6, Zenon DEF Topic!Next
<1> QED BY <1>2, <1>3, Zenon

(* Engine.Subscribe is Open, with the published snapshot or refused. *)
LEMMA SubscribeMaps ==
    ASSUME EngineTypeOK, SubTypeOK, QueuesOK, NEW c \in Clients, Subscribe(c)
    PROVE  Topic!Open(c)
<1>1. fwd[c] = "none" /\ pending[c] = 0 /\ c \notin subs \cup closed
  BY Zenon DEF Subscribe, QueuesOK, QueueInv
<1>2. current' = current /\ delivered' = delivered /\ fwd' = [fwd EXCEPT ![c] = "wait"]
  BY Zenon DEF Subscribe, engineVars
<1>3. Used' = Used \cup {c} /\ c \notin Used
  BY <1>1, <1>2, Zenon DEF Used, SubTypeOK
<1>4. CASE current.seq = 0
  <2>1. subs' = subs \cup {c} /\ pending' = pending
    BY <1>4, Zenon DEF Subscribe
  <2>2. pending' = [pending EXCEPT ![c] = current.seq]
    BY <1>1, <1>4, <2>1, Zenon DEF SubTypeOK
  <2> QED BY <1>2, <1>3, <2>1, <2>2, ZenonT(60) DEF Topic!Open, Used
<1>5. CASE current.seq # 0
  <2>1. Enqueue({c}, current) /\ subs' = subs \cup Accepting({c}, current)
    BY <1>5, Zenon DEF Subscribe
  <2>2. pending' = [d \in Clients |->
                      IF d \in Accepting({c}, current) THEN current.seq
                      ELSE IF d \in {c} \ Accepting({c}, current) THEN 0
                      ELSE pending[d]]
    BY <2>1, Zenon DEF Enqueue
  <2>3. CASE Accepting({c}, current) = {c}
    <3>1. pending' = [pending EXCEPT ![c] = current.seq]
      BY <2>2, <2>3, Zenon DEF SubTypeOK
    <3>2. subs' = subs \cup {c}
      BY <2>1, <2>3, Zenon
    <3> QED BY <1>2, <1>3, <3>1, <3>2, Zenon DEF Topic!Open, Used
  <2>4. CASE Accepting({c}, current) = {}
    <3>1. pending' = pending
      BY <1>1, <2>2, <2>4, Zenon DEF SubTypeOK
    <3>2. subs' = subs
      BY <2>1, <2>4, Zenon
    <3> QED BY <1>2, <1>3, <3>1, <3>2, Zenon DEF Topic!Open, Used
  <2>5. Accepting({c}, current) \subseteq {c}
    BY Zenon DEF Accepting
  <2> QED BY <2>3, <2>4, <2>5, Zenon
<1> QED BY <1>4, <1>5, Zenon

(* The forwarder's Drain is Take, Unsubscribe is Leave, Close is Discard. *)
LEMMA ForwarderMaps ==
    ASSUME SubTypeOK, QueuesOK, NEW c \in Clients,
           FwdStep(c) \/ CancelSub(c) \/ CancelStep(c)
    PROVE  [Topic!Next]_(Topic!topicVars)
<1>0. /\ fwd \in [Clients -> {"none", "wait", "drain", "exit"}]
      /\ pending \in [Clients -> Nat] /\ delivered \in [Clients -> Nat]
  BY Zenon DEF SubTypeOK
<1>1. CASE FwdNotify(c) \/ FwdExit(c)
  <2>1. Used' = Used
    BY <1>0, <1>1, Zenon DEF FwdNotify, FwdExit, Used
  <2> QED BY <1>1, <2>1, StutterMaps, Zenon DEF FwdNotify, FwdExit, engineVars, subVars
<1>2. CASE FwdDrain(c)
  <2>1. Used' = Used
    BY <1>0, <1>2, Zenon DEF FwdDrain, Used
  <2>2. current' = current /\ subs' = subs /\ pending' = [pending EXCEPT ![c] = 0]
    BY <1>2, Zenon DEF FwdDrain, engineVars
  <2>3. CASE pending[c] = 0
    <3>1. pending' = pending /\ delivered' = delivered
      BY <1>0, <1>2, <2>2, <2>3, Zenon DEF FwdDrain
    <3> QED BY <2>1, <2>2, <3>1, StutterMaps, Zenon
  <2>4. CASE pending[c] # 0
    <3>1. delivered' = [delivered EXCEPT ![c] = pending[c]]
      BY <1>2, <2>4, Zenon DEF FwdDrain
    <3>2. Topic!Take(c)
      BY <2>1, <2>2, <2>4, <3>1, Zenon DEF Topic!Take, Used
    <3> QED BY <3>2, Zenon DEF Topic!Next
  <2> QED BY <2>3, <2>4, Zenon
<1>3. CASE CancelSub(c)
  <2>1. Used' = Used
    BY <1>3, Zenon DEF CancelSub, Used
  <2> QED BY <1>3, <2>1, StutterMaps, Zenon DEF CancelSub, engineVars, subVars
<1>4. CASE Unsubscribe(c)
  <2>1. Used' = Used /\ subs' = subs \ {c} /\ UNCHANGED <<current, pending, delivered>>
    BY <1>4, Zenon DEF Unsubscribe, Used, engineVars
  <2>2. CASE c \in subs
    <3>1. Topic!Leave(c)
      BY <2>1, <2>2, Zenon DEF Topic!Leave, Used
    <3> QED BY <3>1, Zenon DEF Topic!Next
  <2>3. CASE c \notin subs
    BY <2>1, <2>3, StutterMaps, Zenon
  <2> QED BY <2>2, <2>3, Zenon
<1>5. CASE Close(c)
  <2>1. /\ Used' = Used /\ pending' = [pending EXCEPT ![c] = 0]
        /\ UNCHANGED <<current, subs, delivered>>
    BY <1>5, Zenon DEF Close, Used, engineVars
  <2>2. c \in Used /\ c \notin subs
    BY <1>5, Zenon DEF Close, Used, QueuesOK, QueueInv
  <2>3. Topic!Discard(c)
    BY <2>1, <2>2, Zenon DEF Topic!Discard, Used
  <2> QED BY <2>3, Zenon DEF Topic!Next
<1> QED BY <1>1, <1>2, <1>3, <1>4, <1>5, Zenon DEF FwdStep, CancelStep

(* Every step of the engine is a step of the topic or leaves it alone. *)
LEMMA StepMaps ==
    ASSUME TypeOK, QueuesOK, [Next]_vars
    PROVE  [Topic!Next]_(Topic!topicVars)
<1> USE DEF TypeOK
<1>1. CASE TakeDone
  <2>1. CASE poll.state = "read"
    <3>1. ApplyTopology(poll.topo) /\ UNCHANGED fwdVars
      BY <1>1, <2>1, Zenon DEF TakeDone
    <3> QED BY <3>1, ApplyMaps, Zenon
  <2>2. CASE poll.state # "read"
    <3>1. UNCHANGED <<current, subVars, fwdVars>>
      BY <1>1, <2>2, Zenon DEF TakeDone, ApplyError
    <3> QED BY <3>1, StutterMaps, Zenon DEF subVars, fwdVars, Used
  <2> QED BY <2>1, <2>2, Zenon
<1>2. CASE \E c \in Clients : Subscribe(c)
  BY <1>2, SubscribeMaps, Zenon DEF Topic!Next
<1>3. CASE \E c \in Clients : FwdStep(c) \/ CancelSub(c) \/ CancelStep(c)
  BY <1>3, ForwarderMaps, Zenon
<1>4. CASE \/ HerdrStep \/ Wake \/ Tick \/ TakeWake \/ Rearm \/ Stop \/ PollStep
           \/ Cancel \/ UNCHANGED vars
           \/ \E p \in Panes : ReadRuns(p)
  <2>1. UNCHANGED <<current, subVars, fwdVars>>
    BY <1>4, Zenon DEF HerdrStep, Wake, Tick, TakeWake, Rearm, Stop, PollStep, PollRead,
       PollFail, Cancel, ReadRuns, engineVars, vars
  <2> QED BY <2>1, StutterMaps, Zenon DEF subVars, fwdVars, Used
<1> QED BY <1>1, <1>2, <1>3, <1>4, Zenon DEF Next, LoopStep

(* The engine starts as the topic does. *)
LEMMA InitMaps == Init => Topic!Init
<1> SUFFICES ASSUME Init PROVE Topic!Init
  BY Zenon
<1>1. /\ current = NoSnapshot /\ subs = {}
      /\ fwd = [c \in Clients |-> "none"]
      /\ pending = [c \in Clients |-> 0] /\ delivered = [c \in Clients |-> 0]
  BY Zenon DEF Init
<1>2. current.seq = 0
  BY <1>1, Zenon DEF NoSnapshot
<1>3. {c \in Clients : fwd[c] # "none"} = {}
  BY <1>1, Zenon
<1> QED BY <1>1, <1>2, <1>3, Zenon DEF Topic!Init

(* Engine.Subscribe, apply, Drain, Unsubscribe and Close implement the
   conflating topic, which is what the event hub is specified over. *)
THEOREM EngineImplementsTopic == Spec => ImplementsTopic
<1>1. Init => TypeOK /\ GenerationsAgree /\ QueuesOK
  BY InitTypeOK, InitGenerationsAgree, InitQueues, Zenon
<1>2. TypeOK /\ GenerationsAgree /\ QueuesOK /\ [Next]_vars
      => TypeOK' /\ GenerationsAgree' /\ QueuesOK'
  BY TypeAndGenerationsInductive, QueuesStep, Zenon
<1>3. TypeOK /\ QueuesOK /\ [Next]_vars => [Topic!Next]_(Topic!topicVars)
  BY StepMaps, Zenon
<1> QED BY <1>1, <1>2, <1>3, InitMaps, PTL DEF Spec, ImplementsTopic, Topic!Spec

-----------------------------------------------------------------------------
(* The state directory *)

Owning == {"locked", "runtime", "serving", "closing", "closed"}

(* The lock is held by exactly the process that is between AcquireStateLock
   and the end of its teardown, so by one at most. *)
LockOK == \A i \in Serves : serve[i] \in Owning <=> lock = i

DirInv == DirTypeOK /\ LockOK /\ FilesOwned

(* The parts of DirTypeOK about files and processes, and about commands. *)
ProcsOK ==
    /\ {lock, runtime, socket} \subseteq Serves \cup {None}
    /\ serve \in [Serves -> {"none", "boot", "locked", "runtime", "serving",
                             "closing", "closed", "dead"}]
    /\ recycled \subseteq {i \in Serves : serve[i] = "dead"}
    /\ kills \in 0..MaxKills

CmdRecord ==
    [op : {"none", "start", "stop", "toggle", "serve"},
     at : {"new", "read", "probe", "clean", "spawn", "wait", "confirm", "ask", "end"},
     rec : Serves \cup {None}, child : Serves \cup {None},
     res : {"none", "started", "already", "stopped", "notrunning",
            "exited", "timeout", "error"}]

CmdOK(r) ==
    /\ r \in CmdRecord
    /\ r.at \in {"wait", "confirm"} <=> r.child # None
    /\ r.at \in {"probe", "ask"} => r.rec # None

(* The types of the state directory, process by process and command by command. *)
LEMMA DirTypes == DirTypeOK <=> ProcsOK /\ cmd \in [Cmds -> CmdRecord] /\ \A c \in Cmds : CmdOK(cmd[c])
BY Zenon DEF DirTypeOK, ProcsOK, CmdRecord, CmdOK

(* No daemon runs and no command has begun. *)
LEMMA DirInitInv == DirInit => DirInv
<1> SUFFICES ASSUME DirInit PROVE DirInv
  BY Zenon
<1>1. DirTypeOK
  <2>1. ProcsOK
    BY StateDirAssumption DEF DirInit, ProcsOK
  <2>2. CmdOK(NewCmd)
    BY Zenon DEF CmdOK, CmdRecord, NewCmd
  <2>3. cmd = [c \in Cmds |-> NewCmd]
    BY Zenon DEF DirInit
  <2>4. cmd \in [Cmds -> CmdRecord] /\ \A c \in Cmds : CmdOK(cmd[c])
    BY <2>2, <2>3, Zenon DEF CmdOK
  <2> QED BY <2>1, <2>4, DirTypes, Zenon
<1>2. LockOK
  BY StateDirAssumption, Zenon DEF DirInit, LockOK, Owning
<1>3. FilesOwned
  BY Zenon DEF DirInit, FilesOwned
<1> QED BY <1>1, <1>2, <1>3, Zenon DEF DirInv

(* A step replaces the record of one command at most. *)
LEMMA CmdStepTyped ==
    ASSUME DirTypeOK, ProcsOK', NEW c \in Cmds, NEW r, CmdOK(r), cmd' = [cmd EXCEPT ![c] = r]
    PROVE  DirTypeOK'
<1>1. cmd \in [Cmds -> CmdRecord] /\ \A d \in Cmds : CmdOK(cmd[d])
  BY DirTypes, Zenon
<1>2. cmd' \in [Cmds -> CmdRecord] /\ \A d \in Cmds : CmdOK(cmd'[d])
  BY <1>1, Zenon DEF CmdOK
<1> QED BY <1>2, Zenon DEF DirTypeOK, ProcsOK, CmdOK, CmdRecord

(* A command that ends keeps the types. *)
LEMMA EndTyped ==
    ASSUME DirTypeOK, ProcsOK', NEW c \in Cmds,
           NEW res \in {"started", "already", "stopped", "notrunning", "exited", "timeout", "error"},
           End(c, res)
    PROVE  DirTypeOK'
<1> DEFINE r == [NewCmd EXCEPT !.op = cmd[c].op, !.at = "end", !.res = res]
<1>1. CmdOK(r)
  BY Zenon DEF DirTypeOK, CmdOK, CmdRecord, NewCmd
<1>2. cmd' = [cmd EXCEPT ![c] = r]
  BY Zenon DEF End
<1> HIDE DEF r
<1> QED BY <1>1, <1>2, CmdStepTyped, Zenon

(* A command that moves on keeps the types. *)
LEMMA GotoTyped ==
    ASSUME DirTypeOK, ProcsOK', NEW c \in Cmds,
           NEW at \in {"read", "clean", "spawn", "confirm", "ask"}, Goto(c, at),
           at = "confirm" <=> cmd[c].child # None,
           at = "ask" => cmd[c].rec # None
    PROVE  DirTypeOK'
<1> DEFINE r == [cmd[c] EXCEPT !.at = at]
<1>1. CmdOK(r)
  BY DEF DirTypeOK, CmdOK, CmdRecord
<1>2. cmd' = [cmd EXCEPT ![c] = r]
  BY Zenon DEF Goto, DirTypeOK
<1> HIDE DEF r
<1> QED BY <1>1, <1>2, CmdStepTyped, Zenon

(* A command that turns to another operation starts over with reading. *)
LEMMA TurnTyped ==
    ASSUME DirTypeOK, ProcsOK', NEW c \in Cmds, NEW op \in {"start", "stop", "toggle"},
           cmd[c].child = None,
           cmd' = [cmd EXCEPT ![c].op = op, ![c].at = "read"]
    PROVE  DirTypeOK'
<1> DEFINE r == [cmd[c] EXCEPT !.op = op, !.at = "read"]
<1>0. cmd[c] \in CmdRecord
  BY Zenon DEF DirTypeOK, CmdRecord
<1>1. CmdOK(r)
  BY <1>0, ZenonT(60) DEF CmdOK, CmdRecord
<1>2. cmd' = [cmd EXCEPT ![c] = r]
  BY ZenonT(60) DEF DirTypeOK
<1> HIDE DEF r
<1> QED BY <1>1, <1>2, CmdStepTyped, Zenon

(* Reconcile and what follows when no daemon was found. *)
LEMMA NotRunningTyped ==
    ASSUME DirTypeOK, ProcsOK', NEW c \in Cmds, NEW stale \in BOOLEAN,
           cmd[c].at \in {"read", "probe"}, NotRunning(c, stale)
    PROVE  DirTypeOK'
<1>1. cmd[c].child = None
  BY Zenon DEF DirTypeOK
<1>2. CASE cmd[c].op = "toggle" /\ cmd' = [cmd EXCEPT ![c].op = "start", ![c].at = "read"]
  BY <1>1, <1>2, TurnTyped, Zenon
<1>3. CASE Goto(c, "clean") \/ Goto(c, "spawn")
  BY <1>1, <1>3, GotoTyped, Zenon
<1>4. CASE End(c, "notrunning")
  BY <1>4, EndTyped, Zenon
<1> QED BY <1>2, <1>3, <1>4, Zenon DEF NotRunning

(* The steps of a command keep the types. *)
LEMMA CmdTypes ==
    ASSUME DirTypeOK, NEW c \in Cmds,
           Begin(c) \/ Foreground(c) \/ CmdStep(c) \/ TimesOut(c)
    PROVE  DirTypeOK'
<1>0. /\ ProcsOK /\ CmdOK(cmd[c])
      /\ cmd[c].at \in {"wait", "confirm"} <=> cmd[c].child # None
  BY DirTypes, Zenon DEF CmdOK
<1>1. CASE \/ Begin(c) \/ LoadRuntime(c) \/ ProbeFails(c) \/ ProbeRunning(c) \/ WaitAnswered(c)
           \/ WaitExited(c) \/ Confirm(c) \/ ConfirmExited(c) \/ TimesOut(c)
  <2>. UNCHANGED <<files, procs>>
    BY <1>1, Zenon DEF Begin, LoadRuntime, ProbeFails, ProbeRunning, WaitAnswered, WaitExited,
       Confirm, ConfirmExited, TimesOut
  <2>0. ProcsOK'
    BY <1>0, Zenon DEF ProcsOK, files, procs
  <2>1. CASE Begin(c)
    BY <1>0, <2>0, <2>1, TurnTyped, StateDirAssumption, Zenon DEF Begin
  <2>2. CASE LoadRuntime(c)
    <3>1. CASE runtime # None
      <4> DEFINE r == [cmd[c] EXCEPT !.rec = runtime, !.at = "probe"]
      <4>1. CmdOK(r) /\ cmd' = [cmd EXCEPT ![c] = r]
        BY <2>2, <3>1, <1>0, ZenonT(60) DEF LoadRuntime, DirTypeOK, CmdOK, CmdRecord
      <4> HIDE DEF r
      <4> QED BY <2>0, <4>1, CmdStepTyped, Zenon
    <3>2. CASE runtime = None
      BY <2>0, <2>2, <3>2, NotRunningTyped, Zenon DEF LoadRuntime
    <3> QED BY <3>1, <3>2, Zenon
  <2>3. CASE ProbeFails(c)
    BY <2>0, <2>3, NotRunningTyped, Zenon DEF ProbeFails
  <2>4. CASE ProbeRunning(c)
    <3>1. cmd[c].rec # None /\ cmd[c].child = None
      BY <1>0, <2>4, Zenon DEF ProbeRunning, CmdOK
    <3> QED BY <2>0, <2>4, <3>1, EndTyped, GotoTyped, TurnTyped, Zenon DEF ProbeRunning
  <2>5. CASE WaitAnswered(c)
    BY <1>0, <2>0, <2>5, GotoTyped, Zenon DEF WaitAnswered
  <2>6. CASE WaitExited(c) \/ Confirm(c) \/ ConfirmExited(c) \/ TimesOut(c)
    BY <2>0, <2>6, EndTyped, Zenon DEF WaitExited, Confirm, ConfirmExited, TimesOut
  <2> QED BY <1>1, <2>1, <2>2, <2>3, <2>4, <2>5, <2>6, Zenon
<1>2. CASE CleanupStale(c)
  <2>1. ProcsOK'
    BY <1>0, <1>2, Zenon DEF ProcsOK, CleanupStale, procs
  <2> QED BY <1>0, <1>2, <2>1, EndTyped, GotoTyped, Zenon DEF CleanupStale
<1>3. CASE spawnServe(c)
  <2>1. PICK i \in Serves :
          /\ serve[i] = "none"
          /\ serve' = [serve EXCEPT ![i] = "boot"]
          /\ cmd' = [cmd EXCEPT ![c].at = "wait", ![c].child = i]
    BY <1>3, Zenon DEF spawnServe
  <2>2. ProcsOK'
    BY <1>0, <1>3, <2>1, Zenon DEF ProcsOK, spawnServe, files
  <2> DEFINE r == [cmd[c] EXCEPT !.at = "wait", !.child = i]
  <2>3. CmdOK(r) /\ cmd' = [cmd EXCEPT ![c] = r]
    BY <1>0, <2>1, StateDirAssumption, ZenonT(60) DEF DirTypeOK, CmdOK, CmdRecord
  <2> HIDE DEF r
  <2> QED BY <2>2, <2>3, CmdStepTyped, Zenon
<1>4. CASE Foreground(c)
  <2>1. ProcsOK'
    BY <1>0, <1>4, Zenon DEF ProcsOK, Foreground, files
  <2> DEFINE r == [cmd[c] EXCEPT !.op = "serve", !.at = "end"]
  <2>2. CmdOK(r) /\ cmd' = [cmd EXCEPT ![c] = r]
    BY <1>0, <1>4 DEF Foreground, DirTypeOK, CmdOK, CmdRecord
  <2> HIDE DEF r
  <2> QED BY <2>1, <2>2, CmdStepTyped, Zenon
<1>5. CASE AskStop(c)
  <2>1. ProcsOK'
    BY <1>0, <1>5, Zenon DEF ProcsOK, AskStop, Answers, files
  <2> QED BY <1>5, <2>1, EndTyped, Zenon DEF AskStop
<1> QED BY <1>1, <1>2, <1>3, <1>4, <1>5, Zenon DEF CmdStep

(* The serve processes leave the commands alone. *)
LEMMA ServeTypes ==
    ASSUME DirTypeOK, NEW i \in Serves,
           ServeStep(i) \/ Signalled(i) \/ Kill(i) \/ PidRecycled(i)
    PROVE  DirTypeOK'
<1>0. ProcsOK
  BY DirTypes, Zenon
<1>1. cmd' = cmd
  BY Zenon DEF ServeStep, AcquireStateLock, ErrStateLocked, abort, WriteRuntime, Listen, CloseControl,
     Release, Signalled, Kill, PidRecycled
<1>2. ProcsOK'
  <2>1. CASE AcquireStateLock(i) \/ ErrStateLocked(i) \/ WriteRuntime(i) \/ Listen(i)
    BY <1>0, <2>1, Zenon DEF ProcsOK, AcquireStateLock, ErrStateLocked, WriteRuntime, Listen, Moves, files
  <2>2. CASE abort(i) \/ CloseControl(i) \/ Release(i) \/ Signalled(i)
    BY <1>0, <2>2, Zenon DEF ProcsOK, abort, CloseControl, Release, Signalled, Moves, files
  <2>3. CASE Kill(i)
    <3>1. /\ kills' \in 0..MaxKills
          /\ {lock', runtime', socket'} \subseteq Serves \cup {None}
      BY <1>0, <2>3, StateDirAssumption DEF ProcsOK, Kill
    <3>2. serve' \in [Serves -> {"none", "boot", "locked", "runtime", "serving",
                                 "closing", "closed", "dead"}]
      BY <1>0, <2>3, Zenon DEF ProcsOK, Kill
    <3>3. recycled' \subseteq {j \in Serves : serve'[j] = "dead"}
      BY <1>0, <2>3, Zenon DEF ProcsOK, Kill
    <3> QED BY <3>1, <3>2, <3>3, Zenon DEF ProcsOK
  <2>4. CASE PidRecycled(i)
    BY <1>0, <2>4, Zenon DEF ProcsOK, PidRecycled, files
  <2> QED BY <2>1, <2>2, <2>3, <2>4, Zenon DEF ServeStep
<1> QED BY <1>1, <1>2, Zenon DEF DirTypeOK, ProcsOK

(* Commands hold no lock: they may move a daemon that answers towards its end,
   and remove files. *)
LEMMA CmdFiles ==
    ASSUME DirInv, NEW c \in Cmds,
           Begin(c) \/ Foreground(c) \/ CmdStep(c) \/ TimesOut(c)
    PROVE  LockOK' /\ FilesOwned'
<1> USE DEF DirInv, LockOK, FilesOwned, Owning
<1>1. CASE \/ Begin(c) \/ LoadRuntime(c) \/ ProbeFails(c) \/ ProbeRunning(c) \/ WaitAnswered(c)
           \/ WaitExited(c) \/ Confirm(c) \/ ConfirmExited(c) \/ TimesOut(c)
  BY <1>1, Zenon DEF Begin, LoadRuntime, ProbeFails, ProbeRunning, WaitAnswered, WaitExited,
     Confirm, ConfirmExited, TimesOut, files, procs
<1>2. CASE CleanupStale(c)
  BY <1>2, Zenon DEF CleanupStale, procs
<1>3. CASE spawnServe(c) \/ Foreground(c)
  BY <1>3 DEF spawnServe, Foreground, files, DirTypeOK
<1>4. CASE AskStop(c)
  BY <1>4, Zenon DEF AskStop, Answers, files, DirTypeOK
<1> QED BY <1>1, <1>2, <1>3, <1>4, Zenon DEF CmdStep

(* A serve process writes runtime.json and binds the socket while it holds the
   lock, and lets go of the lock when it ends, in order or not. *)
LEMMA ServeFiles ==
    ASSUME DirInv, NEW i \in Serves,
           ServeStep(i) \/ Signalled(i) \/ Kill(i) \/ PidRecycled(i)
    PROVE  LockOK' /\ FilesOwned'
<1>a. /\ {lock, runtime, socket} \subseteq Serves \cup {None} /\ None \notin Serves
      /\ DOMAIN serve = Serves
  BY StateDirAssumption, Zenon DEF DirInv, DirTypeOK
<1>b. \A j \in Serves : serve[j] \in Owning <=> lock = j
  BY Zenon DEF DirInv, LockOK
<1>c. FilesOwned
  BY Zenon DEF DirInv
<1> DEFINE To(point) == serve'[i] = point /\ \A j \in Serves \ {i} : serve'[j] = serve[j]
<1>d. ASSUME NEW point, serve' = [serve EXCEPT ![i] = point] PROVE To(point)
  BY <1>a, <1>d, Zenon
(* The process ends, and the lock is not its own afterwards. *)
<1>e. ASSUME To("dead"), lock' = IF lock = i THEN None ELSE lock, UNCHANGED <<runtime, socket>>
      PROVE  LockOK' /\ FilesOwned'
  <2>1. LockOK'
    BY <1>a, <1>b, <1>e, Zenon DEF LockOK, Owning
  <2>2. FilesOwned'
    BY <1>a, <1>c, <1>e, Zenon DEF FilesOwned
  <2> QED BY <2>1, <2>2, Zenon
(* The process keeps the lock and may set a file of its own or remove the socket. *)
<1>f. ASSUME NEW point \in Owning, To(point), serve[i] \in Owning, lock' = lock,
             runtime' \in {runtime, i}, socket' \in {socket, i, None}
      PROVE  LockOK' /\ FilesOwned'
  <2>1. LockOK'
    BY <1>a, <1>b, <1>f, Zenon DEF LockOK
  <2>2. lock = i
    BY <1>b, <1>f, Zenon
  <2>3. FilesOwned'
    BY <1>a, <1>c, <1>f, <2>2, Zenon DEF FilesOwned
  <2> QED BY <2>1, <2>3, Zenon
<1>1. CASE AcquireStateLock(i)
  <2>1. lock = None /\ lock' = i /\ To("locked") /\ UNCHANGED <<runtime, socket>> /\ serve[i] = "boot"
    BY <1>1, <1>d, Zenon DEF AcquireStateLock, Moves
  <2>2. LockOK'
    BY <1>a, <1>b, <2>1, Zenon DEF LockOK, Owning
  <2>3. FilesOwned'
    <3>1. (socket # None => serve[socket] = "dead") /\ (runtime # None => serve[runtime] = "dead")
      BY <1>a, <1>c, <2>1, Zenon DEF FilesOwned
    <3>2. (socket # None => serve'[socket] = "dead") /\ (runtime # None => serve'[runtime] = "dead")
      BY <1>a, <2>1, <3>1, Zenon
    <3> QED BY <2>1, <3>2, Zenon DEF FilesOwned
  <2> QED BY <2>2, <2>3, Zenon
<1>2. CASE ErrStateLocked(i)
  <2>1. serve[i] = "boot" /\ To("dead") /\ UNCHANGED <<lock, runtime, socket>>
    BY <1>2, <1>d, Zenon DEF ErrStateLocked, Moves, files
  <2>2. lock # i
    BY <2>1, <1>b, Zenon DEF Owning
  <2> QED BY <1>e, <2>1, <2>2, Zenon
<1>3. CASE abort(i) \/ Release(i)
  <2>1. To("dead") /\ lock' = (IF lock = i THEN None ELSE lock) /\ UNCHANGED <<runtime, socket>>
    BY <1>3, <1>d, Zenon DEF abort, Release, Moves
  <2> QED BY <1>e, <2>1, Zenon
<1>4. CASE WriteRuntime(i)
  <2>1. serve[i] = "locked" /\ To("runtime") /\ lock' = lock /\ runtime' = i /\ socket' = socket
    BY <1>4, <1>d, Zenon DEF WriteRuntime, Moves
  <2> QED BY <1>f, <2>1, Zenon DEF Owning
<1>5. CASE Listen(i)
  <2>1. serve[i] = "runtime" /\ To("serving") /\ lock' = lock /\ runtime' = runtime /\ socket' = i
    BY <1>5, <1>d, Zenon DEF Listen, Moves
  <2> QED BY <1>f, <2>1, Zenon DEF Owning
<1>6. CASE Signalled(i)
  <2>1. serve[i] = "serving" /\ To("closing") /\ UNCHANGED <<lock, runtime, socket>>
    BY <1>6, <1>d, Zenon DEF Signalled, Moves, files
  <2> QED BY <1>f, <2>1, Zenon DEF Owning
<1>7. CASE CloseControl(i)
  <2>1. serve[i] = "closing" /\ To("closed") /\ lock' = lock /\ runtime' = runtime /\ socket' = None
    BY <1>7, <1>d, Zenon DEF CloseControl, Moves
  <2> QED BY <1>f, <2>1, Zenon DEF Owning
<1>8. CASE Kill(i)
  <2>1. To("dead") /\ lock' = (IF lock = i THEN None ELSE lock) /\ UNCHANGED <<runtime, socket>>
    BY <1>8, <1>d, Zenon DEF Kill
  <2> QED BY <1>e, <2>1, Zenon
<1>9. CASE PidRecycled(i)
  BY <1>9, <1>b, <1>c, Zenon DEF PidRecycled, files, LockOK, FilesOwned
<1> QED BY <1>1, <1>2, <1>3, <1>4, <1>5, <1>6, <1>7, <1>8, <1>9, Zenon DEF ServeStep

(* One step per action of serve processes, commands and their surroundings. *)
LEMMA DirStepInv == DirInv /\ [DirNext]_dirVars => DirInv'
<1> SUFFICES ASSUME DirInv, [DirNext]_dirVars PROVE DirInv'
  BY Zenon
<1>1. CASE UNCHANGED dirVars
  BY <1>1, Zenon DEF dirVars, DirInv, DirTypeOK, LockOK, FilesOwned
<1>2. CASE DirNext
  <2>1. DirTypeOK'
    BY <1>2, CmdTypes, ServeTypes, Zenon DEF DirNext, DirInv
  <2>2. LockOK' /\ FilesOwned'
    BY <1>2, CmdFiles, ServeFiles, Zenon DEF DirNext
  <2> QED BY <2>1, <2>2, Zenon DEF DirInv
<1> QED BY <1>1, <1>2, Zenon

(* The kernel's lock keeps serve processes apart: between AcquireStateLock and
   the end of the teardown there is one at a time (statelock.go). *)
THEOREM OneDaemonAtATime ==
    DirSpec => [](\A i, j \in Serves : serve[i] \in Owning /\ serve[j] \in Owning => i = j)
<1>1. DirInv => \A i, j \in Serves : serve[i] \in Owning /\ serve[j] \in Owning => i = j
  BY Zenon DEF DirInv, LockOK
<1> QED BY <1>1, DirInitInv, DirStepInv, PTL DEF DirSpec

(* runtime.json and the socket belong to the daemon that holds the lock or to a
   dead one, with any number of commands that clean up without the lock and of
   serve processes killed anywhere (AcquireStateLock, Serve, Shutdown). *)
THEOREM FilesAreOwned == DirSpec => []FilesOwned
<1>1. DirInv => FilesOwned
  BY Zenon DEF DirInv
<1> QED BY <1>1, DirInitInv, DirStepInv, PTL DEF DirSpec

(* Only a daemon that answers ends a start with success. *)
LEMMA SuccessStep ==
    ASSUME DirInv, DirNext, NEW c \in Cmds,
           cmd[c].res = "none", cmd'[c].res \in {"started", "already"}
    PROVE  socket # None /\ lock = socket /\ serve[socket] \in {"serving", "closing"}
<1>1. SUFFICES Answers(socket)
  BY Zenon DEF Answers, DirInv, DirTypeOK, LockOK, Owning
<1>2. ASSUME NEW d \in Cmds, NEW res, End(d, res), res \notin {"started", "already"}
      PROVE  FALSE
  BY <1>2, Zenon DEF End, NewCmd, DirInv, DirTypeOK
<1>3. ASSUME NEW d \in Cmds, NEW at, Goto(d, at)
      PROVE  FALSE
  BY <1>3, Zenon DEF Goto, DirInv, DirTypeOK
<1>4. ASSUME NEW d \in Cmds, NEW stale, NotRunning(d, stale)
      PROVE  FALSE
  BY <1>2, <1>3, <1>4 DEF NotRunning, DirInv, DirTypeOK
<1>5. cmd' # cmd
  BY Zenon
<1>6. PICK d \in Cmds : Begin(d) \/ Foreground(d) \/ CmdStep(d) \/ TimesOut(d)
  BY <1>5, Zenon DEF DirNext, ServeStep, AcquireStateLock, ErrStateLocked, abort, WriteRuntime, Listen,
     CloseControl, Release, Signalled, Kill, PidRecycled
<1>7. CASE ProbeRunning(d) \/ Confirm(d)
  BY <1>7, Zenon DEF ProbeRunning, Confirm, Answers
<1>8. CASE WaitExited(d) \/ ConfirmExited(d) \/ TimesOut(d) \/ AskStop(d) \/ CleanupStale(d)
           \/ WaitAnswered(d) \/ ProbeFails(d)
  BY <1>2, <1>3, <1>4, <1>8, Zenon
     DEF WaitExited, ConfirmExited, TimesOut, AskStop, CleanupStale, WaitAnswered, ProbeFails
<1>9. CASE LoadRuntime(d)
  <2>1. CASE NotRunning(d, FALSE)
    BY <1>4, <2>1, Zenon
  <2>2. CASE cmd' = [cmd EXCEPT ![d].rec = runtime, ![d].at = "probe"]
    <3>1. cmd'[c].res = cmd[c].res
      BY <2>2, SMTT(60) DEF DirInv, DirTypeOK
    <3> QED BY <3>1, Zenon
  <2> QED BY <1>9, <2>1, <2>2, Zenon DEF LoadRuntime
<1>10. CASE Begin(d)
  BY <1>10 DEF Begin, DirInv, DirTypeOK
<1>11. CASE Foreground(d)
  BY <1>11 DEF Foreground, DirInv, DirTypeOK
<1>12. CASE spawnServe(d)
  BY <1>12 DEF spawnServe, DirInv, DirTypeOK
<1> QED BY <1>6, <1>7, <1>8, <1>9, <1>10, <1>11, <1>12, Zenon DEF CmdStep

(* A start that reports success, its own or that a daemon ran already, left a
   daemon that holds the lock and answers at the socket, whatever files, recycled
   pids and competing starts there are (Reconcile, waitReady). *)
THEOREM SuccessesMeanDaemons == DirSpec => SuccessMeansDaemon
<1>1. DirInv /\ [DirNext]_dirVars =>
        [\A c \in Cmds : cmd[c].res = "none" /\ cmd'[c].res \in {"started", "already"} =>
            socket # None /\ lock = socket /\ serve[socket] \in {"serving", "closing"}]_dirVars
  BY SuccessStep, Zenon
<1> QED BY <1>1, DirInitInv, DirStepInv, PTL DEF DirSpec, SuccessMeansDaemon
=============================================================================
