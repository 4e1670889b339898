--------------------------- MODULE MutationsProofs ---------------------------
(***************************************************************************)
(* Proofs about Mutations for every set of handlers, sessions, request     *)
(* ids, operations and nonces and all durations TimesAssumption allows:    *)
(* types, sole ownership of a reserved key, no repeat of an answered       *)
(* request, ownership of answers, single use of nonces.                    *)
(*                                                                         *)
(* The invariant is TypeOK, OwnerInv, AnsweredInv, AnswerInv and NonceInv. *)
(* OwnerInv carries the timing argument: a reservation outlives the        *)
(* context of the handler that made it by at least Grace.                  *)
(***************************************************************************)
EXTENDS Mutations, TLAPS

-----------------------------------------------------------------------------
(* Types *)

(* Keys and fingerprints of requests, and the reservation's length: at least
   twice the deadline. *)
LEMMA MessageFacts ==
    /\ \A m \in Messages : Key(m) \in Keys /\ Fingerprint(m) \in Fingerprints
    /\ ReservationTTL \in Nat
    /\ ReservationTTL >= 2 * ServerDeadline
BY TimesAssumption DEF Messages, Key, Keys, Fingerprint, Fingerprints,
                       ReservationTTL

(* The answers the handlers build are responses. *)
LEMMA ResponseType ==
    ASSUME NEW c \in Codes, NEW b \in BOOLEAN, NEW h \in Handlers
    PROVE  Response(c, b, h) \in Responses
BY Zenon DEF Response, Responses

(* The entries of the idempotency store: what an entry of each state has. *)
LEMMA EntryFacts ==
    ASSUME NEW e \in Entries
    PROVE  /\ e.state \in {"none", "pending", "done"}
           /\ e.state # "none" => e.exp \in Nat /\ e.fp \in Fingerprints
                                  /\ e.by \in Handlers
           /\ e.state = "done" => e.resp \in Responses
BY DEF Entries, NoEntry

(* Pending and Done build entries. *)
LEMMA EntryTypes ==
    ASSUME TypeOK, NEW h \in Handlers, NEW x \in Nat
    PROVE  /\ NoEntry \in Entries
           /\ Pending(h, x) \in Entries
           /\ Done(h, x) \in Entries
<1>1. Fingerprint(msg[h]) \in Fingerprints
  BY MessageFacts, Zenon DEF TypeOK
<1>2. resp[h] \in Responses
  BY Zenon DEF TypeOK
<1>. QED  BY <1>1, <1>2, Zenon DEF Entries, Pending, Done

(* Collecting expired entries keeps the store a store. *)
LEMMA CollectedType ==
    ASSUME TypeOK
    PROVE  Collected \in [Keys -> Entries]
BY Zenon DEF TypeOK, Collected, Entries

(* Consuming a nonce keeps the nonce store a store. *)
LEMMA ConsumedType ==
    ASSUME TypeOK, NEW m
    PROVE  Consumed(m) \in [Tokens -> Nonces]
BY Zenon DEF TypeOK, Consumed, Nonces

(* The budget of a handler that goes on is positive and at most the
   server's. *)
LEMMA BudgetType ==
    ASSUME TypeOK, NEW m \in Messages, Budget(m) > 0
    PROVE  Budget(m) \in 0..ServerDeadline
<1>1. m.deadline \in Nat /\ now \in Nat
  BY TimesAssumption, Zenon DEF TypeOK, Messages
<1>2. ServerDeadline \in Nat /\ Skew \in Nat
  BY TimesAssumption, Zenon
<1>. QED  BY <1>1, <1>2 DEF Budget

(* The initial state has its types. *)
LEMMA InitTypes == Init => TypeOK
<1>. SUFFICES ASSUME Init PROVE TypeOK
  BY Zenon
<1>1. NoEntry \in Entries /\ NoNonce \in Nonces
  BY Zenon DEF Entries, Nonces
<1>2. \A h \in Handlers : Response("none", FALSE, h) \in Responses
  BY Zenon DEF Response, Responses, Codes
<1>3. /\ now \in Nat /\ gen \in Nat /\ pastGens \subseteq Nat
      /\ genChanges \in Nat /\ msg \in [Handlers -> Messages]
      /\ inbox \subseteq Handlers /\ executed \subseteq Handlers
      /\ dispatched \subseteq Handlers
  BY DEF Init
<1>4. /\ idem \in [Keys -> Entries]
      /\ nonces \in [Tokens -> Nonces]
      /\ resp \in [Handlers -> Responses]
  BY <1>1, <1>2, Zenon DEF Init
<1>5. /\ phase \in [Handlers -> Owning \cup {"peek", "guard", "reserve", "done"}]
      /\ ctxEnd \in [Handlers -> Nat]
      /\ lastDone \in [Keys -> Nat \cup {Never}]
  BY Zenon DEF Init
<1>6. budget \in [Handlers -> 0..ServerDeadline]
  BY TimesAssumption DEF Init
<1>. QED  BY <1>3, <1>4, <1>5, <1>6, Zenon DEF TypeOK

(* An answer is a typed step of the handler's own variables. *)
LEMMA AnswerType ==
    ASSUME TypeOK, NEW h \in Handlers, NEW r \in Responses, Answer(h, r)
    PROVE  /\ phase' \in [Handlers -> Owning \cup {"peek", "guard", "reserve",
                                                   "done"}]
           /\ resp' \in [Handlers -> Responses]
           /\ budget' = budget /\ ctxEnd' = ctxEnd
BY Zenon DEF TypeOK, Answer, Move

(* Every step of a handler keeps the types. *)
LEMMA HandlerTypeStep ==
    ASSUME TypeOK, NEW h \in Handlers, HandlerStep(h)
    PROVE  TypeOK'
<1>. USE DEF TypeOK
<1>0. /\ msg[h] \in Messages
      /\ Key(msg[h]) \in Keys
      /\ idem[Key(msg[h])] \in Entries
  BY MessageFacts, Zenon
<1>r. \A c \in Codes, b \in BOOLEAN : Response(c, b, h) \in Responses
  BY ResponseType, Zenon
<1>e. NoEntry \in Entries
  BY Zenon DEF Entries
<1>1. CASE Peek(h)
  <2>1. idem' \in [Keys -> Entries]
    BY <1>0, <1>1, <1>e, Zenon DEF Peek
  <2>2. \/ \E r \in Responses : Answer(h, r)
        \/ Move(h, "guard") /\ UNCHANGED <<budget, ctxEnd, resp>>
    BY <1>0, <1>1, <1>r, EntryFacts, Zenon DEF Peek, Codes
  <2>3. CASE \E r \in Responses : Answer(h, r)
    BY <1>1, <2>1, <2>3, AnswerType, Zenon
       DEF Peek, worldVars, herdrVars, historyVars
  <2>4. CASE Move(h, "guard") /\ UNCHANGED <<budget, ctxEnd, resp>>
    BY <1>1, <2>1, <2>4, Zenon
       DEF Peek, Move, worldVars, herdrVars, historyVars
  <2>. QED  BY <2>2, <2>3, <2>4, Zenon
<1>2. CASE Guard(h)
  <2>2. \/ \E r \in Responses : Answer(h, r)
        \/ /\ Budget(msg[h]) > 0
           /\ budget' = [budget EXCEPT ![h] = Budget(msg[h])]
           /\ Move(h, "reserve") /\ UNCHANGED <<ctxEnd, resp>>
    <3>1. (msg[h].gen # 0) \in BOOLEAN
      BY Zenon
    <3>. QED  BY <1>2, <1>r, <3>1, Zenon DEF Guard, Codes
  <2>3. CASE \E r \in Responses : Answer(h, r)
    BY <1>2, <2>3, AnswerType, Zenon
       DEF Guard, worldVars, storeVars, herdrVars, historyVars
  <2>4. CASE /\ Budget(msg[h]) > 0
             /\ budget' = [budget EXCEPT ![h] = Budget(msg[h])]
             /\ Move(h, "reserve") /\ UNCHANGED <<ctxEnd, resp>>
    <3>1. Budget(msg[h]) \in 0..ServerDeadline
      BY <1>0, <2>4, BudgetType, Zenon
    <3>. QED  BY <1>2, <2>4, <3>1, Zenon
       DEF Guard, Move, worldVars, storeVars, herdrVars, historyVars
  <2>. QED  BY <2>2, <2>3, <2>4, Zenon
<1>3. CASE Reserve(h)
  <2>0. /\ Collected \in [Keys -> Entries]
        /\ Collected[Key(msg[h])] \in Entries
    BY <1>0, CollectedType, Zenon
  <2>2. \/ idem' = Collected /\ \E r \in Responses : Answer(h, r)
        \/ /\ idem' = [Collected EXCEPT
                         ![Key(msg[h])] = Pending(h, now + ReservationTTL)]
           /\ ctxEnd' = [ctxEnd EXCEPT ![h] = now + budget[h]]
           /\ Move(h, "attempt") /\ UNCHANGED <<budget, resp>>
    BY <1>3, <1>r, <2>0, EntryFacts, Zenon DEF Reserve, Codes
  <2>3. CASE idem' = Collected /\ \E r \in Responses : Answer(h, r)
    BY <1>3, <2>0, <2>3, AnswerType, Zenon
       DEF Reserve, worldVars, herdrVars, historyVars
  <2>4. CASE /\ idem' = [Collected EXCEPT
                         ![Key(msg[h])] = Pending(h, now + ReservationTTL)]
             /\ ctxEnd' = [ctxEnd EXCEPT ![h] = now + budget[h]]
             /\ Move(h, "attempt") /\ UNCHANGED <<budget, resp>>
    <3>1. now + ReservationTTL \in Nat /\ now + budget[h] \in Nat
      BY MessageFacts, TimesAssumption
    <3>2. Pending(h, now + ReservationTTL) \in Entries
      BY <3>1, EntryTypes, Zenon
    <3>3. idem' \in [Keys -> Entries]
      BY <2>0, <2>4, <3>2, Zenon
    <3>. QED  BY <1>3, <2>4, <3>1, <3>3, Zenon
       DEF Reserve, Move, Owning, worldVars, herdrVars, historyVars
  <2>. QED  BY <2>2, <2>3, <2>4, Zenon
<1>4. CASE GiveUp(h)
  BY <1>4, <1>r, Zenon DEF GiveUp, Move, Owning, Codes, worldVars, storeVars,
                    herdrVars, historyVars
<1>5. CASE RefuseNonce(h)
  BY <1>5, <1>r, ConsumedType, Zenon DEF RefuseNonce, Move, Owning, Codes, worldVars,
                    herdrVars, historyVars
<1>6. CASE Dispatch(h)
  <2>1. nonces' \in [Tokens -> Nonces]
    BY <1>6, ConsumedType, Zenon DEF Dispatch
  <2>. QED  BY <1>6, <2>1, Zenon DEF Dispatch, Move, Owning, worldVars
<1>7. CASE ReturnOk(h) \/ ReturnFailed(h) \/ ReturnUncertain(h) \/ Panic(h)
  <2>1. \E r \in Responses, p \in {"complete", "release"} : Return(h, p, r)
    BY <1>7, <1>r, Zenon DEF ReturnOk, ReturnFailed, ReturnUncertain, Panic, Codes
  <2>. QED  BY <2>1 DEF Return, Move, Owning, worldVars, storeVars, herdrVars,
                        historyVars
<1>8. CASE Release(h)
  BY <1>0, <1>8, <1>e, Zenon DEF Release, Move, worldVars, herdrVars, historyVars
<1>9. CASE Complete(h)
  <2>1. now + IdempotencyTTL \in Nat
    BY TimesAssumption
  <2>2. Done(h, now + IdempotencyTTL) \in Entries
    BY <2>1, EntryTypes, Zenon
  <2>. QED  BY <1>0, <1>9, <2>2, Zenon DEF Complete, Move, worldVars, herdrVars
<1>. QED
  BY <1>1, <1>2, <1>3, <1>4, <1>5, <1>6, <1>7, <1>8, <1>9, Zenon DEF HandlerStep

(* Every step keeps the types. *)
LEMMA TypeStep ==
    ASSUME TypeOK, [Next]_vars
    PROVE  TypeOK'
<1>. USE DEF TypeOK
<1>1. CASE \E h \in Handlers : HandlerStep(h)
  BY <1>1, HandlerTypeStep, Zenon
<1>2. CASE \E h \in Handlers : HerdrStep(h)
  BY <1>2, Zenon DEF HerdrStep, HerdrExecute, HerdrRefuse, worldVars, storeVars,
              handlerVars, historyVars
<1>3. CASE ConfirmStep
  <2>. PICK t \in Tokens, s \in Sessions, op \in ConfirmOps, g \in Gens :
              Confirm(t, s, op, g)
    BY <1>3, Zenon DEF ConfirmStep
  <2>1. Nonce(s, op, g) \in Nonces /\ Spent \in Nonces
    <3>1. now + ConfirmationTTL \in Nat /\ op \in Ops
      BY TimesAssumption, OpsAssumption
    <3>. QED  BY <3>1, Zenon DEF Nonce, Nonces
  <2>2. nonces' \in [Tokens -> Nonces]
    BY <2>1, Zenon DEF Confirm
  <2>. QED  BY <2>2, Zenon DEF Confirm, worldVars, handlerVars, herdrVars, historyVars
<1>4. CASE GenerationChange
  <2>1. gen' \in Nat /\ genChanges' \in Nat
    BY <1>4 DEF GenerationChange
  <2>2. pastGens' \subseteq Nat
    BY <1>4, <2>1, Zenon DEF GenerationChange
  <2>. QED  BY <1>4, <2>1, <2>2, Zenon DEF GenerationChange, storeVars, handlerVars,
                                    herdrVars, historyVars
<1>5. CASE Advance
  BY <1>5 DEF Advance, storeVars, handlerVars, herdrVars, historyVars
<1>6. CASE UNCHANGED vars
  BY <1>6, Zenon DEF vars, worldVars, storeVars, handlerVars, herdrVars, historyVars
<1>. QED  BY <1>1, <1>2, <1>3, <1>4, <1>5, <1>6, Zenon DEF Next

(* No reachable state breaks the types: in particular every handler that gets
   past the deadline check of handleMutations has a budget within the
   server's own deadline. *)
THEOREM TypesHold == Spec => []TypeOK
BY InitTypes, TypeStep, PTL DEF Spec

-----------------------------------------------------------------------------
(* Ownership of a reserved key *)

(* A live entry survives collection; what is collected was expired. *)
LEMMA CollectedFacts ==
    ASSUME TypeOK, NEW k \in Keys
    PROVE  /\ Live(idem[k]) => Collected[k] = idem[k]
           /\ ~Live(idem[k]) => Collected[k].state = "none"
BY Zenon DEF Collected, NoEntry

(* Steps that leave the reservations alone: the store, the messages, the
   contexts and the clock stay, and no handler starts to own a key. *)
LEMMA OwnerFrame ==
    ASSUME OwnerInv,
           UNCHANGED <<now, idem, msg, ctxEnd>>,
           \A h \in Handlers : phase'[h] \in Owning => phase[h] \in Owning
    PROVE  OwnerInv'
BY Zenon DEF OwnerInv

(* Owning is lost by no interleaving: the entry a handler owns is its own,
   pending, and outlives the handler's deadline plus Grace. *)
LEMMA OwnerHandlerStep ==
    ASSUME TypeOK, OwnerInv, NEW h \in Handlers, HandlerStep(h)
    PROVE  OwnerInv'
<1>0. /\ \A i \in Handlers : msg[i] \in Messages /\ Key(msg[i]) \in Keys
      /\ now \in Nat
      /\ \A i \in Handlers : ctxEnd[i] \in Nat
      /\ phase \in [Handlers -> Owning \cup {"peek", "guard", "reserve", "done"}]
  BY MessageFacts, Zenon DEF TypeOK
<1>i. idem \in [Keys -> Entries]
  BY Zenon DEF TypeOK
<1>l. \A i \in Handlers : phase[i] \in Owning => Live(idem[Key(msg[i])])
  <2>. SUFFICES ASSUME NEW i \in Handlers, phase[i] \in Owning
                PROVE  Live(idem[Key(msg[i])])
    BY Zenon
  <2>1. idem[Key(msg[i])].exp \in Nat
    BY <1>0, <1>i, EntryFacts, Zenon DEF OwnerInv
  <2>. QED  BY <1>0, <2>1, TimesAssumption DEF OwnerInv, Live
<1>1. CASE Peek(h)
  <2>1. \A i \in Handlers : phase'[i] \in Owning => phase[i] \in Owning /\ i # h
    BY <1>0, <1>1, Zenon DEF Peek, Answer, Move, Owning
  <2>2. \A i \in Handlers : phase[i] \in Owning =>
                               idem'[Key(msg[i])] = idem[Key(msg[i])]
    BY <1>0, <1>1, <1>i, <1>l, Zenon DEF Peek
  <2>3. UNCHANGED <<now, msg, ctxEnd>>
    BY <1>1, Zenon DEF Peek, Answer, worldVars
  <2>. QED  BY <2>1, <2>2, <2>3, Zenon DEF OwnerInv
<1>2. CASE Guard(h)
  <2>1. \A i \in Handlers : phase'[i] \in Owning => phase[i] \in Owning
    BY <1>0, <1>2, Zenon DEF Guard, Answer, Move, Owning
  <2>2. UNCHANGED <<now, idem, msg, ctxEnd>>
    BY <1>2, Zenon DEF Guard, Answer, worldVars, storeVars
  <2>. QED  BY <2>1, <2>2, OwnerFrame, Zenon
<1>3. CASE Reserve(h)
  <2>0. \A i \in Handlers : phase[i] \in Owning =>
                               Collected[Key(msg[i])] = idem[Key(msg[i])]
    BY <1>0, <1>l, CollectedFacts, Zenon
  <2>1. CASE Collected[Key(msg[h])].state # "none"
    <3>1. \A i \in Handlers : phase'[i] \in Owning => phase[i] \in Owning
      BY <1>0, <1>3, <2>1, Zenon DEF Reserve, Answer, Move, Owning
    <3>2. UNCHANGED <<now, msg, ctxEnd>> /\ idem' = Collected
      BY <1>3, <2>1, Zenon DEF Reserve, Answer, worldVars
    <3>. QED  BY <2>0, <3>1, <3>2, Zenon DEF OwnerInv
  <2>2. CASE Collected[Key(msg[h])].state = "none"
    <3>1. /\ idem' = [Collected EXCEPT
                        ![Key(msg[h])] = Pending(h, now + ReservationTTL)]
          /\ ctxEnd' = [ctxEnd EXCEPT ![h] = now + budget[h]]
          /\ phase' = [phase EXCEPT ![h] = "attempt"]
          /\ UNCHANGED <<now, msg>>
      BY <1>3, <2>2, Zenon DEF Reserve, Move, worldVars
    <3>2. Collected \in [Keys -> Entries]
      BY CollectedType, Zenon
    <3>3. \A i \in Handlers : i # h /\ phase'[i] \in Owning =>
             /\ phase[i] \in Owning
             /\ Key(msg[i]) # Key(msg[h])
             /\ idem'[Key(msg[i])] = idem[Key(msg[i])]
             /\ ctxEnd'[i] = ctxEnd[i]
      <4>. SUFFICES ASSUME NEW i \in Handlers, i # h, phase'[i] \in Owning
                    PROVE  /\ phase[i] \in Owning
                           /\ Key(msg[i]) # Key(msg[h])
                           /\ idem'[Key(msg[i])] = idem[Key(msg[i])]
                           /\ ctxEnd'[i] = ctxEnd[i]
        BY Zenon
      <4>1. phase[i] \in Owning /\ ctxEnd'[i] = ctxEnd[i]
        BY <1>0, <3>1, Zenon DEF TypeOK
      <4>2. Key(msg[i]) # Key(msg[h])
        BY <2>0, <2>2, <4>1 DEF OwnerInv
      <4>. QED  BY <1>0, <2>0, <3>1, <3>2, <4>1, <4>2, Zenon
    <3>4. /\ idem'[Key(msg[h])] = Pending(h, now + ReservationTTL)
          /\ ctxEnd'[h] = now + budget[h]
      BY <1>0, <3>1, <3>2, Zenon DEF TypeOK
    <3>5. budget[h] \in 0..ServerDeadline
      BY Zenon DEF TypeOK
    <3>6. /\ now <= now + budget[h] + Grace
          /\ now + budget[h] + Grace <= now + ReservationTTL
      BY <1>0, <3>5, MessageFacts, TimesAssumption
    <3>7. \A i \in Handlers : i = h =>
            LET e == idem'[Key(msg[i])]
            IN /\ e.state = "pending" /\ e.by = i
               /\ e.fp = Fingerprint(msg[i])
               /\ now <= ctxEnd'[i] + Grace
               /\ ctxEnd'[i] + Grace <= e.exp
      <4>1. ctxEnd'[h] + Grace = now + budget[h] + Grace
        BY <3>4, Zenon
      <4>2. /\ Pending(h, now + ReservationTTL).state = "pending"
            /\ Pending(h, now + ReservationTTL).by = h
            /\ Pending(h, now + ReservationTTL).fp = Fingerprint(msg[h])
            /\ Pending(h, now + ReservationTTL).exp = now + ReservationTTL
        BY Zenon DEF Pending
      <4>. QED  BY <3>4, <3>6, <4>1, <4>2, Zenon
    <3>8. ASSUME NEW i \in Handlers, phase'[i] \in Owning
          PROVE  LET e == idem'[Key(msg[i])]
                 IN /\ e.state = "pending" /\ e.by = i
                    /\ e.fp = Fingerprint(msg[i])
                    /\ now <= ctxEnd'[i] + Grace
                    /\ ctxEnd'[i] + Grace <= e.exp
      <4>1. CASE i = h
        BY <4>1, <3>7, Zenon
      <4>2. CASE i # h
        BY <4>2, <3>3, <3>8, Zenon DEF OwnerInv
      <4>. QED  BY <4>1, <4>2, Zenon
    <3>9. now' = now /\ msg' = msg
      BY <3>1, Zenon
    <3>. QED  BY <3>8, <3>9, Zenon DEF OwnerInv
  <2>. QED  BY <2>1, <2>2, Zenon
<1>4. CASE \/ GiveUp(h) \/ RefuseNonce(h) \/ Dispatch(h) \/ ReturnOk(h)
           \/ ReturnFailed(h) \/ ReturnUncertain(h) \/ Panic(h)
  <2>1. \A i \in Handlers : phase'[i] \in Owning => phase[i] \in Owning
    BY <1>0, <1>4, Zenon DEF GiveUp, RefuseNonce, Dispatch, ReturnOk, ReturnFailed,
                      ReturnUncertain, Panic, Return, Move, Owning
  <2>2. UNCHANGED <<now, idem, msg, ctxEnd>>
    BY <1>4, Zenon DEF GiveUp, RefuseNonce, Dispatch, ReturnOk, ReturnFailed,
                ReturnUncertain, Panic, Return, worldVars, storeVars
  <2>. QED  BY <2>1, <2>2, OwnerFrame, Zenon
<1>5. CASE Release(h) \/ Complete(h)
  <2>1. phase[h] \in Owning /\ UNCHANGED <<now, msg, ctxEnd>>
    BY <1>5, Zenon DEF Release, Complete, Owning, worldVars
  <2>2. \A i \in Handlers : phase'[i] \in Owning => phase[i] \in Owning /\ i # h
    BY <1>0, <1>5, Zenon DEF Release, Complete, Move, Owning
  <2>3. \A i \in Handlers : phase[i] \in Owning /\ i # h =>
                               Key(msg[i]) # Key(msg[h])
    BY <2>1, Zenon DEF OwnerInv
  <2>4. \A i \in Handlers : phase[i] \in Owning /\ i # h =>
                               idem'[Key(msg[i])] = idem[Key(msg[i])]
    BY <1>0, <1>5, <1>i, <2>3, Zenon DEF Release, Complete
  <2>. QED  BY <2>1, <2>2, <2>4, Zenon DEF OwnerInv
<1>. QED  BY <1>1, <1>2, <1>3, <1>4, <1>5, Zenon DEF HandlerStep

(* Herdr, confirmations and generation changes touch no reservation; the
   clock waits for the owners. *)
LEMMA OwnerStep ==
    ASSUME TypeOK, OwnerInv, [Next]_vars
    PROVE  OwnerInv'
<1>1. CASE \E h \in Handlers : HandlerStep(h)
  BY <1>1, OwnerHandlerStep, Zenon
<1>2. CASE \/ \E h \in Handlers : HerdrStep(h)
           \/ ConfirmStep \/ GenerationChange \/ UNCHANGED vars
  <2>1. UNCHANGED <<now, idem, msg, ctxEnd, phase>>
    BY <1>2, Zenon DEF HerdrStep, HerdrExecute, HerdrRefuse, ConfirmStep, Confirm,
                GenerationChange, vars, worldVars, storeVars, handlerVars
  <2>. QED  BY <2>1, OwnerFrame, Zenon
<1>3. CASE Advance
  <2>1. now' = now + 1 /\ UNCHANGED <<idem, msg, ctxEnd, phase>>
    BY <1>3, Zenon DEF Advance, storeVars, handlerVars
  <2>2. \A h \in Handlers : phase[h] \in Owning => now + 1 <= ctxEnd[h] + Grace
    BY <1>3, TimesAssumption DEF Advance, TypeOK
  <2>. QED  BY <2>1, <2>2, Zenon DEF OwnerInv
<1>. QED  BY <1>1, <1>2, <1>3, Zenon DEF Next

(* Nobody owns a key at the start. *)
LEMMA InitOwner == Init => OwnerInv
BY Zenon DEF Init, OwnerInv, Owning

(* stores.go, "concurrent retries of the same request execute exactly once":
   from reserve to complete or release the pending entry of the key is the
   handler's own, for any number of concurrent attempts and any durations
   with Grace within the server's deadline. *)
THEOREM OwnersAreSole == Spec => []SoleOwner
<1>1. OwnerInv => SoleOwner
  BY Zenon DEF OwnerInv, SoleOwner
<1>. QED  BY <1>1, InitTypes, TypeStep, InitOwner, OwnerStep, PTL DEF Spec

-----------------------------------------------------------------------------
(* Answered keys *)

(* A key that was answered keeps its cached answer until it expires. *)
LEMMA AnsweredStep ==
    ASSUME TypeOK, OwnerInv, AnsweredInv, [Next]_vars
    PROVE  AnsweredInv'
<1>0. /\ now \in Nat /\ IdempotencyTTL \in Nat
      /\ \A k \in Keys : lastDone[k] \in Nat \cup {Never}
      /\ idem \in [Keys -> Entries]
      /\ \A h \in Handlers : Key(msg[h]) \in Keys
      /\ lastDone \in [Keys -> Nat \cup {Never}]
  BY MessageFacts, TimesAssumption, Zenon DEF TypeOK
<1>l. \A k \in Keys : Answered(k) => Live(idem[k])
  BY <1>0, Zenon DEF AnsweredInv, Answered, Live
<1>f. ASSUME UNCHANGED <<now, lastDone>>,
             \A k \in Keys : Answered(k) => idem'[k] = idem[k]
      PROVE  AnsweredInv'
  BY <1>f, Zenon DEF AnsweredInv, Answered
<1>1. ASSUME NEW h \in Handlers, Peek(h)
      PROVE  AnsweredInv'
  <2>1. UNCHANGED <<now, lastDone>>
    BY <1>1, Zenon DEF Peek, worldVars, historyVars
  <2>2. \A k \in Keys : Answered(k) => idem'[k] = idem[k]
    BY <1>0, <1>1, <1>l, Zenon DEF Peek
  <2>. QED  BY <2>1, <2>2, <1>f, Zenon
<1>2. ASSUME NEW h \in Handlers, Reserve(h)
      PROVE  AnsweredInv'
  <2>1. UNCHANGED <<now, lastDone>>
    BY <1>2, Zenon DEF Reserve, worldVars, historyVars
  <2>2. Collected \in [Keys -> Entries]
    BY CollectedType, Zenon
  <2>3. \A k \in Keys : Answered(k) => Collected[k] = idem[k]
    BY <1>l, CollectedFacts, Zenon
  <2>4. Collected[Key(msg[h])].state = "none" => ~Answered(Key(msg[h]))
    BY <1>0, <2>3, Zenon DEF AnsweredInv
  <2>5. \A k \in Keys : Answered(k) => idem'[k] = Collected[k]
    BY <1>0, <1>2, <2>2, <2>4, Zenon DEF Reserve
  <2>. QED  BY <2>1, <2>3, <2>5, <1>f, Zenon
<1>3. ASSUME NEW h \in Handlers, Release(h)
      PROVE  AnsweredInv'
  <2>1. UNCHANGED <<now, lastDone>>
    BY <1>3, Zenon DEF Release, worldVars, historyVars
  <2>2. \A k \in Keys : Answered(k) => idem'[k] = idem[k]
    BY <1>0, <1>3, Zenon DEF Release, AnsweredInv
  <2>. QED  BY <2>1, <2>2, <1>f, Zenon
<1>4. ASSUME NEW h \in Handlers, Complete(h)
      PROVE  AnsweredInv'
  <2>1. /\ now' = now
        /\ idem' = [idem EXCEPT ![Key(msg[h])] = Done(h, now + IdempotencyTTL)]
        /\ lastDone' = [lastDone EXCEPT ![Key(msg[h])] = now]
    BY <1>4, Zenon DEF Complete, worldVars
  <2>. SUFFICES ASSUME NEW k \in Keys, Answered(k)'
                PROVE  /\ idem'[k].state = "done"
                       /\ idem'[k].exp = lastDone'[k] + IdempotencyTTL
    BY Zenon DEF AnsweredInv
  <2>2. CASE k = Key(msg[h])
    BY <1>0, <2>1, <2>2, Zenon DEF Done
  <2>3. CASE k # Key(msg[h])
    BY <1>0, <2>1, <2>3, Zenon DEF AnsweredInv, Answered
  <2>. QED  BY <2>2, <2>3, Zenon
<1>5. ASSUME NEW h \in Handlers,
             \/ Guard(h) \/ GiveUp(h) \/ RefuseNonce(h) \/ Dispatch(h)
             \/ ReturnOk(h) \/ ReturnFailed(h) \/ ReturnUncertain(h) \/ Panic(h)
      PROVE  AnsweredInv'
  <2>1. UNCHANGED <<now, lastDone, idem>>
    BY <1>5, Zenon DEF Guard, GiveUp, RefuseNonce, Dispatch, ReturnOk, ReturnFailed,
                ReturnUncertain, Panic, Return, worldVars, storeVars, historyVars
  <2>. QED  BY <2>1, <1>f, Zenon
<1>6. CASE \/ \E h \in Handlers : HerdrStep(h)
           \/ ConfirmStep \/ GenerationChange \/ UNCHANGED vars
  <2>1. UNCHANGED <<now, lastDone, idem>>
    BY <1>6, Zenon DEF HerdrStep, HerdrExecute, HerdrRefuse, ConfirmStep, Confirm,
                GenerationChange, vars, worldVars, storeVars, historyVars
  <2>. QED  BY <2>1, <1>f, Zenon
<1>7. CASE Advance
  <2>1. now' = now + 1 /\ UNCHANGED <<idem, lastDone>>
    BY <1>7, Zenon DEF Advance, storeVars, historyVars
  <2>. QED  BY <1>0, <2>1 DEF AnsweredInv, Answered
<1>. QED  BY <1>1, <1>2, <1>3, <1>4, <1>5, <1>6, <1>7, Zenon DEF Next, HandlerStep

(* Nothing is answered at the start. *)
LEMMA InitAnswered == Init => AnsweredInv
BY Zenon DEF Init, AnsweredInv, Answered, Never

(* SPEC, "a network retry cannot repeat a mutation", for requests that were
   answered: no attempt calls Mutate while the cached answer of its key
   lives. *)
THEOREM AnsweredIsNotRepeated == Spec => NoRepeatAfterAnswer
<1>1. ASSUME TypeOK, OwnerInv, AnsweredInv, [Next]_vars
      PROVE  [\A h \in Handlers :
                h \in dispatched' \ dispatched => ~Answered(Key(msg[h]))]_vars
  <2>. SUFFICES ASSUME NEW h \in Handlers, h \in dispatched' \ dispatched
                PROVE  ~Answered(Key(msg[h]))
    BY Zenon
  <2>1. Dispatch(h)
    BY <1>1 DEF Next, HandlerStep, HerdrStep, ConfirmStep, Peek, Guard, Reserve,
       GiveUp, RefuseNonce, Dispatch, ReturnOk, ReturnFailed, ReturnUncertain,
       Panic, Return, Release, Complete, HerdrExecute, HerdrRefuse, Confirm,
       GenerationChange, Advance, vars, historyVars
  <2>2. idem[Key(msg[h])].state = "pending"
    BY <1>1, <2>1, Zenon DEF Dispatch, OwnerInv, Owning
  <2>3. Key(msg[h]) \in Keys
    BY <1>1, MessageFacts, Zenon DEF TypeOK
  <2>. QED  BY <1>1, <2>2, <2>3, Zenon DEF AnsweredInv
<1>. QED
  BY <1>1, InitTypes, TypeStep, InitOwner, OwnerStep, InitAnswered,
     AnsweredStep, PTL DEF Spec, NoRepeatAfterAnswer

-----------------------------------------------------------------------------
(* Nonces *)

(* A spent nonce stays spent, and dispatching a confirmed operation spends
   the nonce it presents. *)
LEMMA NonceStep ==
    ASSUME TypeOK, NonceInv, [Next]_vars
    PROVE  NonceInv'
<1>0. dispatched \subseteq Handlers /\ nonces \in [Tokens -> Nonces]
  BY Zenon DEF TypeOK
<1>f. ASSUME UNCHANGED <<dispatched, msg>>,
             \A t \in Tokens : nonces[t] = Spent => nonces'[t] = Spent
      PROVE  NonceInv'
  BY <1>f, Zenon DEF NonceInv
<1>1. ASSUME NEW h \in Handlers, Dispatch(h)
      PROVE  NonceInv'
  <2>1. dispatched' = dispatched \cup {h} /\ msg' = msg
    BY <1>1, Zenon DEF Dispatch
  <2>2. \A t \in Tokens : nonces[t] = Spent => nonces'[t] = Spent
    BY <1>1, Zenon DEF Dispatch, Consumed, Spent
  <2>3. NeedsConfirmation(msg[h]) => /\ msg[h].conf \in Tokens
                                     /\ nonces'[msg[h].conf] = Spent
    BY <1>1, Zenon DEF Dispatch, Matches, Consumed
  <2>4. NeedsConfirmation(msg[h])' = NeedsConfirmation(msg[h])
    BY <2>1, Zenon DEF NeedsConfirmation
  <2>. QED  BY <2>1, <2>2, <2>3, <2>4, Zenon DEF NonceInv, NeedsConfirmation
<1>2. ASSUME NEW h \in Handlers, RefuseNonce(h)
      PROVE  NonceInv'
  <2>1. UNCHANGED <<dispatched, msg>>
    BY <1>2, Zenon DEF RefuseNonce, historyVars
  <2>2. \A t \in Tokens : nonces[t] = Spent => nonces'[t] = Spent
    BY <1>2, Zenon DEF RefuseNonce, Consumed, Spent
  <2>. QED  BY <2>1, <2>2, <1>f, Zenon
<1>3. CASE ConfirmStep
  <2>1. UNCHANGED <<dispatched, msg>>
    BY <1>3, Zenon DEF ConfirmStep, Confirm, historyVars
  <2>2. \A t \in Tokens : nonces[t] = Spent => nonces'[t] = Spent
    BY <1>3 DEF ConfirmStep, Confirm, Spent, NoNonce
  <2>. QED  BY <2>1, <2>2, <1>f, Zenon
<1>4. ASSUME NEW h \in Handlers,
             \/ Peek(h) \/ Guard(h) \/ Reserve(h) \/ GiveUp(h)
             \/ ReturnOk(h) \/ ReturnFailed(h) \/ ReturnUncertain(h) \/ Panic(h)
             \/ Release(h) \/ Complete(h) \/ HerdrStep(h)
      PROVE  NonceInv'
  <2>1. UNCHANGED <<dispatched, msg, nonces>>
    BY <1>4, Zenon DEF Peek, Guard, Reserve, GiveUp, ReturnOk, ReturnFailed,
       ReturnUncertain, Panic, Return, Release, Complete, HerdrStep,
       HerdrExecute, HerdrRefuse, storeVars, historyVars
  <2>. QED  BY <2>1, <1>f, Zenon
<1>5. CASE GenerationChange \/ Advance \/ UNCHANGED vars
  <2>1. UNCHANGED <<dispatched, msg, nonces>>
    BY <1>5, Zenon DEF GenerationChange, Advance, vars, storeVars, historyVars
  <2>. QED  BY <2>1, <1>f, Zenon
<1>. QED  BY <1>1, <1>2, <1>3, <1>4, <1>5, Zenon DEF Next, HandlerStep

(* The two dispatches of one nonce would both have to find it live, but the
   first leaves it spent. *)
LEMMA NonceSingleUseStep ==
    ASSUME TypeOK, NonceInv, NonceSingleUse, [Next]_vars
    PROVE  NonceSingleUse'
<1>f. ASSUME UNCHANGED <<dispatched, msg>>
      PROVE  NonceSingleUse'
  BY <1>f, Zenon DEF NonceSingleUse, NeedsConfirmation
<1>1. ASSUME NEW h \in Handlers, Dispatch(h)
      PROVE  NonceSingleUse'
  <2>1. dispatched' = dispatched \cup {h} /\ msg' = msg
    BY <1>1, Zenon DEF Dispatch
  <2>2. \A i \in dispatched :
           NeedsConfirmation(msg[h]) /\ NeedsConfirmation(msg[i]) =>
              msg[i].conf # msg[h].conf
    <3>1. NeedsConfirmation(msg[h]) => nonces[msg[h].conf].state = "live"
      BY <1>1, Zenon DEF Dispatch, Matches
    <3>2. \A i \in dispatched :
             NeedsConfirmation(msg[i]) => nonces[msg[i].conf].state = "spent"
      <4>1. Spent.state = "spent"
        BY Zenon DEF Spent
      <4>. QED  BY <4>1, Zenon DEF NonceInv
    <3>. QED  BY <3>1, <3>2, Zenon
  <2>. QED  BY <2>1, <2>2 DEF NonceSingleUse, NeedsConfirmation
<1>2. CASE ~\E h \in Handlers : Dispatch(h)
  <2>1. UNCHANGED <<dispatched, msg>>
    BY <1>2, Zenon DEF Next, HandlerStep, HerdrStep, ConfirmStep, Peek, Guard, Reserve,
       GiveUp, RefuseNonce, ReturnOk, ReturnFailed, ReturnUncertain, Panic,
       Return, Release, Complete, HerdrExecute, HerdrRefuse, Confirm,
       GenerationChange, Advance, vars, historyVars
  <2>. QED  BY <2>1, <1>f, Zenon
<1>. QED  BY <1>1, <1>2, Zenon

(* nonceStore.consume: one confirmation lets at most one confirmed operation
   through to Herdr, for any number of attempts, sessions and nonces. *)
THEOREM NoncesAreSingleUse == Spec => []NonceSingleUse
<1>1. Init => NonceInv /\ NonceSingleUse
  BY Zenon DEF Init, NonceInv, NonceSingleUse
<1>. QED
  BY <1>1, InitTypes, TypeStep, NonceStep, NonceSingleUseStep, PTL DEF Spec

-----------------------------------------------------------------------------
(* Answers *)

(* The part of AnswerInv about one handler. *)
HandlerAnswers(h) ==
    /\ phase[h] \in {"peek", "guard", "reserve", "attempt"} => h \notin dispatched
    /\ phase[h] \in {"peek", "guard", "reserve", "attempt", "calling"} =>
          resp[h].code = "none" /\ ~resp[h].retryable
    /\ phase[h] = "calling" => h \in dispatched
    /\ phase[h] = "complete" => resp[h].code \in {"ok", "failed"}
    /\ resp[h].code \in {"ok", "failed"} =>
          DefiniteFor(resp[h], Key(msg[h]), Fingerprint(msg[h]))

(* The part of AnswerInv about one key. *)
KeyAnswers(k) ==
    idem[k].state = "done" => DefiniteFor(idem[k].resp, k, idem[k].fp)

(* AnswerInv is the conjunction of these parts. *)
LEMMA AnswerParts ==
    AnswerInv <=> /\ \A k \in Keys : KeyAnswers(k)
                  /\ \A h \in Handlers : HandlerAnswers(h)
BY Zenon DEF AnswerInv, KeyAnswers, HandlerAnswers

(* A definite answer stays one: what was dispatched or executed stays so. *)
LEMMA DefiniteStays ==
    ASSUME NEW r, NEW k, NEW fp, DefiniteFor(r, k, fp),
           msg' = msg, dispatched \subseteq dispatched', executed \subseteq executed'
    PROVE  DefiniteFor(r, k, fp)'
BY Zenon DEF DefiniteFor, Key, Fingerprint

(* A handler that did not move keeps its part. *)
LEMMA OthersKeep ==
    ASSUME NEW i \in Handlers, HandlerAnswers(i),
           phase'[i] = phase[i], resp'[i] = resp[i], msg' = msg,
           dispatched \subseteq dispatched', executed \subseteq executed',
           i \in dispatched' => i \in dispatched
    PROVE  HandlerAnswers(i)'
<1>1. Key(msg[i])' = Key(msg[i]) /\ Fingerprint(msg[i])' = Fingerprint(msg[i])
  BY Zenon DEF Key, Fingerprint
<1>2. resp[i].code \in {"ok", "failed"} =>
        DefiniteFor(resp[i], Key(msg[i]), Fingerprint(msg[i]))'
  BY DefiniteStays, <1>1, Zenon DEF HandlerAnswers, DefiniteFor, Key, Fingerprint
<1>. QED  BY <1>1, <1>2, Zenon DEF HandlerAnswers, DefiniteFor, Key, Fingerprint

(* An entry that is unchanged, or is not an answer, keeps its part. *)
LEMMA KeyKeeps ==
    ASSUME NEW k \in Keys, KeyAnswers(k), msg' = msg,
           dispatched \subseteq dispatched', executed \subseteq executed',
           idem'[k] = idem[k] \/ idem'[k].state # "done"
    PROVE  KeyAnswers(k)'
BY Zenon DEF KeyAnswers, DefiniteFor, Key, Fingerprint

(* Replayed answers come from the cache, cached answers from the owner, and
   the owner's from Herdr. *)
LEMMA AnswerHandlerStep ==
    ASSUME TypeOK, OwnerInv, AnswerInv, NEW h \in Handlers, HandlerStep(h)
    PROVE  AnswerInv'
<1>0. /\ idem \in [Keys -> Entries]
      /\ phase \in [Handlers -> Owning \cup {"peek", "guard", "reserve", "done"}]
      /\ resp \in [Handlers -> Responses]
      /\ \A i \in Handlers : Key(msg[i]) \in Keys
  BY MessageFacts, Zenon DEF TypeOK
<1>p. /\ \A k \in Keys : KeyAnswers(k)
      /\ \A i \in Handlers : HandlerAnswers(i)
  BY AnswerParts, Zenon
<1>n. NoEntry.state # "done" /\ Collected \in [Keys -> Entries]
  BY CollectedType, Zenon DEF NoEntry
<1>g. /\ msg' = msg
      /\ executed' = executed
      /\ dispatched \subseteq dispatched'
      /\ \A i \in Handlers : i # h /\ i \in dispatched' => i \in dispatched
      /\ \A i \in Handlers : i # h => phase'[i] = phase[i] /\ resp'[i] = resp[i]
  <2>1. /\ msg' = msg
        /\ executed' = executed
        /\ dispatched' = dispatched \/ dispatched' = dispatched \cup {h}
    BY Zenon DEF HandlerStep, Peek, Guard, Reserve, GiveUp, RefuseNonce, Dispatch,
       ReturnOk, ReturnFailed, ReturnUncertain, Panic, Return, Release,
       Complete, herdrVars, historyVars
  <2>2. \A i \in Handlers : i # h => phase'[i] = phase[i] /\ resp'[i] = resp[i]
    BY <1>0, Zenon DEF HandlerStep, Peek, Guard, Reserve, GiveUp, RefuseNonce, Dispatch,
       ReturnOk, ReturnFailed, ReturnUncertain, Panic, Return, Release,
       Complete, Answer, Move
  <2>. QED  BY <2>1, <2>2, Zenon
<1>o. \A i \in Handlers : i # h => HandlerAnswers(i)'
  BY <1>g, <1>p, OthersKeep, Zenon
<1>a. ASSUME NEW r, Answer(h, r), h \notin dispatched, dispatched' = dispatched,
             \/ r.code \notin {"ok", "failed"}
             \/ DefiniteFor(r, Key(msg[h]), Fingerprint(msg[h]))
      PROVE  HandlerAnswers(h)'
  <2>1. phase'[h] = "done" /\ resp'[h] = r
    BY <1>0, <1>a, Zenon DEF Answer, Move
  <2>2. DefiniteFor(r, Key(msg[h]), Fingerprint(msg[h])) =>
        DefiniteFor(resp[h], Key(msg[h]), Fingerprint(msg[h]))'
    BY <1>g, <2>1, Zenon DEF DefiniteFor, Key, Fingerprint
  <2>. QED  BY <1>a, <2>1, <2>2, Zenon DEF HandlerAnswers
<1>q. SUFFICES /\ \A k \in Keys : idem'[k] = idem[k] \/ KeyAnswers(k)'
                                      \/ idem'[k].state # "done"
               /\ HandlerAnswers(h)'
  <2>1. \A k \in Keys : KeyAnswers(k)'
    BY <1>q, <1>g, <1>p, KeyKeeps, Zenon
  <2>2. \A i \in Handlers : HandlerAnswers(i)'
    BY <1>q, <1>o, Zenon
  <2>. QED  BY <2>1, <2>2, Zenon DEF AnswerInv, KeyAnswers, HandlerAnswers
<1>1. CASE Peek(h)
  <2>1. \A k \in Keys : idem'[k] = idem[k] \/ idem'[k].state # "done"
    BY <1>0, <1>1, <1>n, Zenon DEF Peek
  <2>2. h \notin dispatched /\ dispatched' = dispatched
    BY <1>1, <1>p, Zenon DEF Peek, HandlerAnswers, historyVars
  <2>3. CASE \E r : /\ Answer(h, r)
                    /\ \/ r.code \notin {"ok", "failed"}
                       \/ DefiniteFor(r, Key(msg[h]), Fingerprint(msg[h]))
    BY <2>1, <2>2, <2>3, <1>a, Zenon
  <2>4. CASE Move(h, "guard") /\ UNCHANGED resp
    <3>1. phase'[h] = "guard" /\ resp'[h] = resp[h]
      BY <1>0, <2>4, Zenon DEF Move
    <3>2. resp[h].code = "none" /\ ~resp[h].retryable
      BY <1>1, <1>p, Zenon DEF Peek, HandlerAnswers
    <3>. QED  BY <2>1, <2>2, <3>1, <3>2, Zenon DEF HandlerAnswers
  <2>5. \/ \E r : /\ Answer(h, r)
                  /\ \/ r.code \notin {"ok", "failed"}
                     \/ DefiniteFor(r, Key(msg[h]), Fingerprint(msg[h]))
        \/ Move(h, "guard") /\ UNCHANGED resp
    <3>1. Response("conflict", FALSE, h).code \notin {"ok", "failed"}
      BY Zenon DEF Response
    <3>2. idem[Key(msg[h])].state = "done" =>
            DefiniteFor(idem[Key(msg[h])].resp, Key(msg[h]), idem[Key(msg[h])].fp)
      BY <1>0, <1>p, Zenon DEF KeyAnswers
    <3>. QED  BY <1>1, <3>1, <3>2, Zenon DEF Peek
  <2>. QED  BY <2>3, <2>4, <2>5, Zenon
<1>2. CASE Guard(h)
  <2>1. idem' = idem /\ dispatched' = dispatched /\ h \notin dispatched
    BY <1>2, <1>p, Zenon DEF Guard, HandlerAnswers, storeVars, historyVars
  <2>2. CASE \E r : Answer(h, r) /\ r.code \notin {"ok", "failed"}
    BY <2>1, <2>2, <1>a, Zenon
  <2>3. CASE Move(h, "reserve") /\ UNCHANGED resp
    <3>1. phase'[h] = "reserve" /\ resp'[h] = resp[h]
      BY <1>0, <2>3, Zenon DEF Move
    <3>2. resp[h].code = "none" /\ ~resp[h].retryable
      BY <1>2, <1>p, Zenon DEF Guard, HandlerAnswers
    <3>. QED  BY <2>1, <3>1, <3>2, Zenon DEF HandlerAnswers
  <2>4. \/ \E r : Answer(h, r) /\ r.code \notin {"ok", "failed"}
        \/ Move(h, "reserve") /\ UNCHANGED resp
    <3>1. \A c \in {"confirmation_needed", "generation_stale",
                     "deadline_exceeded"}, b \in BOOLEAN :
             Response(c, b, h).code \notin {"ok", "failed"}
      BY Zenon DEF Response
    <3>2. (msg[h].gen # 0) \in BOOLEAN
      BY Zenon
    <3>3. \/ Answer(h, Response("confirmation_needed", FALSE, h))
          \/ Answer(h, Response("generation_stale", msg[h].gen # 0, h))
          \/ Answer(h, Response("deadline_exceeded", TRUE, h))
          \/ Move(h, "reserve") /\ UNCHANGED resp
      BY <1>2, Zenon DEF Guard
    <3>. QED  BY <3>1, <3>2, <3>3, Zenon
  <2>. QED  BY <2>2, <2>3, <2>4, Zenon
<1>3. CASE Reserve(h)
  <2>1. \A k \in Keys : Collected[k] = idem[k] \/ Collected[k].state # "done"
    BY <1>n, Zenon DEF Collected
  <2>2. \A k \in Keys : idem'[k] = idem[k] \/ idem'[k].state # "done"
    <3>1. Pending(h, now + ReservationTTL).state # "done"
      BY Zenon DEF Pending
    <3>. QED  BY <1>0, <1>3, <1>n, <2>1, <3>1, Zenon DEF Reserve
  <2>3. h \notin dispatched /\ dispatched' = dispatched
    BY <1>3, <1>p, Zenon DEF Reserve, HandlerAnswers, historyVars
  <2>4. CASE \E r : /\ Answer(h, r)
                    /\ \/ r.code \notin {"ok", "failed"}
                       \/ DefiniteFor(r, Key(msg[h]), Fingerprint(msg[h]))
    BY <2>2, <2>3, <2>4, <1>a, Zenon
  <2>5. CASE Move(h, "attempt") /\ UNCHANGED resp
    <3>1. phase'[h] = "attempt" /\ resp'[h] = resp[h]
      BY <1>0, <2>5, Zenon DEF Move
    <3>2. resp[h].code = "none" /\ ~resp[h].retryable
      BY <1>3, <1>p, Zenon DEF Reserve, HandlerAnswers
    <3>. QED  BY <2>2, <2>3, <3>1, <3>2, Zenon DEF HandlerAnswers
  <2>6. \/ \E r : /\ Answer(h, r)
                  /\ \/ r.code \notin {"ok", "failed"}
                     \/ DefiniteFor(r, Key(msg[h]), Fingerprint(msg[h]))
        \/ Move(h, "attempt") /\ UNCHANGED resp
    <3>1. \A b \in BOOLEAN : Response("conflict", b, h).code \notin {"ok", "failed"}
      BY Zenon DEF Response
    <3>2. Collected[Key(msg[h])].state = "done" =>
            DefiniteFor(Collected[Key(msg[h])].resp, Key(msg[h]),
                        Collected[Key(msg[h])].fp)
      BY <1>0, <1>p, <2>1, Zenon DEF KeyAnswers
    <3>. QED  BY <1>3, <3>1, <3>2, Zenon DEF Reserve
  <2>. QED  BY <2>4, <2>5, <2>6, Zenon
<1>4. CASE GiveUp(h) \/ RefuseNonce(h)
  <2>1. /\ idem' = idem
        /\ phase'[h] = "release"
        /\ resp'[h].code \notin {"ok", "failed"}
    <3>1. CASE GiveUp(h)
      BY <1>0, <3>1, Zenon DEF GiveUp, Move, Response, storeVars
    <3>2. CASE RefuseNonce(h)
      BY <1>0, <3>2, Zenon DEF RefuseNonce, Move, Response
    <3>. QED  BY <1>4, <3>1, <3>2, Zenon
  <2>. QED  BY <2>1, Zenon DEF HandlerAnswers
<1>5. CASE Dispatch(h)
  <2>1. /\ idem' = idem
        /\ phase'[h] = "calling" /\ resp'[h] = resp[h]
        /\ dispatched' = dispatched \cup {h}
    BY <1>0, <1>5, Zenon DEF Dispatch, Move
  <2>2. resp[h].code = "none" /\ ~resp[h].retryable
    BY <1>5, <1>p, Zenon DEF Dispatch, HandlerAnswers
  <2>. QED  BY <2>1, <2>2, Zenon DEF HandlerAnswers
<1>6. CASE ReturnOk(h) \/ ReturnFailed(h)
  <2>1. h \in dispatched
    BY <1>6, <1>p, Zenon DEF ReturnOk, ReturnFailed, Return, HandlerAnswers
  <2>2. /\ idem' = idem /\ dispatched' = dispatched
        /\ phase'[h] = "complete"
        /\ \/ resp'[h] = Response("ok", FALSE, h) /\ h \in executed
           \/ resp'[h] = Response("failed", FALSE, h)
    BY <1>0, <1>6, Zenon DEF ReturnOk, ReturnFailed, Return, Move, storeVars, historyVars
  <2>3. DefiniteFor(resp[h], Key(msg[h]), Fingerprint(msg[h]))'
    <3>1. /\ resp'[h].code \in {"ok", "failed"} /\ ~resp'[h].retryable
          /\ resp'[h].by = h
          /\ resp'[h].code = "ok" => h \in executed
      <4>1. CASE resp'[h] = Response("ok", FALSE, h) /\ h \in executed
        <5>1. /\ Response("ok", FALSE, h).code = "ok"
              /\ ~Response("ok", FALSE, h).retryable
              /\ Response("ok", FALSE, h).by = h
          BY Zenon DEF Response
        <5>. QED  BY <4>1, <5>1, Zenon
      <4>2. CASE resp'[h] = Response("failed", FALSE, h)
        <5>1. /\ Response("failed", FALSE, h).code = "failed"
              /\ ~Response("failed", FALSE, h).retryable
              /\ Response("failed", FALSE, h).by = h
          BY Zenon DEF Response
        <5>. QED  BY <4>2, <5>1, Zenon
      <4>. QED  BY <2>2, <4>1, <4>2, Zenon
    <3>. QED  BY <1>g, <2>1, <2>2, <3>1, Zenon DEF DefiniteFor, Key, Fingerprint
  <2>4. resp'[h].code \in {"ok", "failed"}
    BY <2>3, Zenon DEF DefiniteFor
  <2>5. HandlerAnswers(h)'
    BY <2>2, <2>3, <2>4, Zenon DEF HandlerAnswers
  <2>. QED  BY <2>2, <2>5, Zenon
<1>7. CASE ReturnUncertain(h) \/ Panic(h)
  <2>1. /\ idem' = idem
        /\ phase'[h] = "release"
        /\ resp'[h].code \notin {"ok", "failed"}
    <3>1. CASE ReturnUncertain(h)
      BY <1>0, <3>1, Zenon DEF ReturnUncertain, Return, Move, Response, storeVars
    <3>2. CASE Panic(h)
      BY <1>0, <3>2, Zenon DEF Panic, Return, Move, Response, storeVars
    <3>. QED  BY <1>7, <3>1, <3>2, Zenon
  <2>. QED  BY <2>1, Zenon DEF HandlerAnswers
<1>8. CASE Release(h)
  <2>1. \A k \in Keys : idem'[k] = idem[k] \/ idem'[k].state # "done"
    BY <1>0, <1>8, <1>n, Zenon DEF Release
  <2>2. phase'[h] = "done" /\ resp'[h] = resp[h] /\ dispatched' = dispatched
    BY <1>0, <1>8, Zenon DEF Release, Move, historyVars
  <2>3. HandlerAnswers(h)'
    BY <1>g, <1>p, <2>2, Zenon DEF HandlerAnswers, DefiniteFor, Key, Fingerprint
  <2>. QED  BY <2>1, <2>3, Zenon
<1>9. CASE Complete(h)
  <2>1. /\ phase'[h] = "done" /\ resp'[h] = resp[h] /\ dispatched' = dispatched
        /\ idem' = [idem EXCEPT ![Key(msg[h])] = Done(h, now + IdempotencyTTL)]
    BY <1>0, <1>9, Zenon DEF Complete, Move
  <2>2. DefiniteFor(resp[h], Key(msg[h]), Fingerprint(msg[h]))
    BY <1>9, <1>p, Zenon DEF Complete, HandlerAnswers
  <2>3. HandlerAnswers(h)'
    BY <1>g, <1>p, <2>1, Zenon DEF HandlerAnswers, DefiniteFor, Key, Fingerprint
  <2>4. \A k \in Keys : k = Key(msg[h]) => KeyAnswers(k)'
    <3>1. /\ idem'[Key(msg[h])].resp = resp[h]
          /\ idem'[Key(msg[h])].fp = Fingerprint(msg[h])
      BY <1>0, <2>1, Zenon DEF Done
    <3>2. DefiniteFor(resp[h], Key(msg[h]), Fingerprint(msg[h]))'
      BY <1>g, <2>1, <2>2, Zenon DEF DefiniteFor, Key, Fingerprint
    <3>3. /\ Key(msg[h])' = Key(msg[h])
          /\ Fingerprint(msg[h])' = Fingerprint(msg[h])
      BY <1>g, Zenon DEF Key, Fingerprint
    <3>. QED  BY <2>1, <3>1, <3>2, <3>3, Zenon DEF KeyAnswers
  <2>5. \A k \in Keys : k # Key(msg[h]) => idem'[k] = idem[k]
    BY <1>0, <2>1, Zenon
  <2>. QED  BY <2>3, <2>4, <2>5, Zenon
<1>. QED
  BY <1>1, <1>2, <1>3, <1>4, <1>5, <1>6, <1>7, <1>8, <1>9, Zenon DEF HandlerStep

(* Herdr, the clock and the other environment steps keep AnswerInv. *)
LEMMA AnswerStep ==
    ASSUME TypeOK, OwnerInv, AnswerInv, [Next]_vars
    PROVE  AnswerInv'
<1>1. CASE \E h \in Handlers : HandlerStep(h)
  BY <1>1, AnswerHandlerStep, Zenon
<1>2. CASE ~\E h \in Handlers : HandlerStep(h)
  <2>1. /\ UNCHANGED <<idem, msg, phase, resp, dispatched>>
        /\ executed \subseteq executed'
    BY <1>2, Zenon DEF Next, HerdrStep, HerdrExecute, HerdrRefuse, ConfirmStep, Confirm,
       GenerationChange, Advance, vars, storeVars, handlerVars, herdrVars,
       historyVars
  <2>2. /\ \A k \in Keys : KeyAnswers(k)
        /\ \A i \in Handlers : HandlerAnswers(i)
    BY AnswerParts, Zenon
  <2>3. \A k \in Keys : KeyAnswers(k)'
    BY <2>1, <2>2, KeyKeeps, Zenon
  <2>4. \A i \in Handlers : HandlerAnswers(i)'
    BY <2>1, <2>2, OthersKeep, Zenon
  <2>. QED  BY <2>3, <2>4, Zenon DEF AnswerInv, KeyAnswers, HandlerAnswers
<1>. QED  BY <1>1, <1>2, Zenon

(* There are no answers at the start. *)
LEMMA InitAnswer == Init => AnswerInv
<1> SUFFICES ASSUME Init PROVE AnswerInv
  BY Zenon
<1>1. \A k \in Keys : idem[k].state # "done"
  BY Zenon DEF Init, NoEntry
<1>2. /\ dispatched = {}
      /\ \A h \in Handlers : /\ phase[h] = "peek"
                             /\ resp[h].code = "none" /\ ~resp[h].retryable
  BY Zenon DEF Init, Response
<1>. QED  BY <1>1, <1>2, Zenon DEF AnswerInv

(* replay and complete: a definite answer any attempt gets was produced for
   its own key and payload by an attempt that reached Herdr, and success
   means that Herdr executed it. *)
THEOREM AnswersAreOwned == Spec => []AnswersAreOwn
<1>1. AnswerInv => AnswersAreOwn
  BY Zenon DEF AnswerInv, AnswersAreOwn, DefiniteFor
<1>. QED
  BY <1>1, InitTypes, TypeStep, InitOwner, OwnerStep, InitAnswer, AnswerStep, PTL
     DEF Spec

(* A dispatched confirmed operation never answers "retry as is". *)
LEMMA RetryStep ==
    ASSUME TypeOK, AnswerInv, AnswerInv', RetryableIsSafe, [Next]_vars
    PROVE  RetryableIsSafe'
<1>0. /\ phase \in [Handlers -> Owning \cup {"peek", "guard", "reserve", "done"}]
      /\ resp \in [Handlers -> Responses]
      /\ dispatched \subseteq Handlers
  BY Zenon DEF TypeOK
<1>1. \A k \in Keys : idem'[k].state = "done" => ~idem'[k].resp.retryable
  BY Zenon DEF AnswerInv, DefiniteFor
<1>q. SUFFICES ASSUME NEW i \in dispatched', NeedsConfirmation(msg'[i])
               PROVE  ~resp'[i].retryable
  BY <1>1, Zenon DEF RetryableIsSafe, NeedsConfirmation
<1>m. msg' = msg
  BY Zenon DEF Next, HandlerStep, HerdrStep, ConfirmStep, Peek, Guard, Reserve,
     GiveUp, RefuseNonce, Dispatch, ReturnOk, ReturnFailed, ReturnUncertain,
     Panic, Return, Release, Complete, HerdrExecute, HerdrRefuse, Confirm,
     GenerationChange, Advance, vars
<1>f. ASSUME i \in dispatched, resp'[i] = resp[i]
      PROVE  ~resp'[i].retryable
  BY <1>f, <1>m, <1>q, Zenon DEF RetryableIsSafe
<1>2. ASSUME NEW h \in Handlers,
             \/ Peek(h) \/ Guard(h) \/ Reserve(h) \/ GiveUp(h) \/ RefuseNonce(h)
      PROVE  ~resp'[i].retryable
  <2>1. h \notin dispatched /\ dispatched' = dispatched
    BY <1>2, Zenon DEF Peek, Guard, Reserve, GiveUp, RefuseNonce, AnswerInv, historyVars
  <2>2. i # h /\ i \in dispatched
    BY <2>1, Zenon
  <2>3. resp'[i] = resp[i]
    BY <1>0, <1>2, <2>2, Zenon DEF Peek, Guard, Reserve, GiveUp, RefuseNonce, Answer
  <2>. QED  BY <2>2, <2>3, <1>f, Zenon
<1>3. ASSUME NEW h \in Handlers, Dispatch(h)
      PROVE  ~resp'[i].retryable
  <2>1. resp' = resp /\ dispatched' = dispatched \cup {h}
    BY <1>3, Zenon DEF Dispatch
  <2>2. ~resp[h].retryable
    BY <1>3, Zenon DEF Dispatch, AnswerInv
  <2>. QED  BY <2>1, <2>2, <1>f, Zenon
<1>4. ASSUME NEW h \in Handlers,
             \/ ReturnOk(h) \/ ReturnFailed(h) \/ ReturnUncertain(h) \/ Panic(h)
      PROVE  ~resp'[i].retryable
  <2>1. dispatched' = dispatched
    BY <1>4, Zenon DEF ReturnOk, ReturnFailed, ReturnUncertain, Panic, Return, historyVars
  <2>2. CASE i = h
    <3>1. NeedsConfirmation(msg[h]) => ~resp'[h].retryable
      <4>1. \/ \E c \in Codes : resp'[h] = Response(c, FALSE, h)
            \/ /\ ~NeedsConfirmation(msg[h])
               /\ resp'[h] = Response("unavailable", TRUE, h)
        BY <1>0, <1>4, Zenon DEF ReturnOk, ReturnFailed, ReturnUncertain, Panic, Return,
           Codes
      <4>2. \A c \in Codes : Response(c, FALSE, h).retryable = FALSE
        BY Zenon DEF Response
      <4>. QED  BY <4>1, <4>2, Zenon
    <3>. QED  BY <1>m, <1>q, <2>2, <3>1, Zenon
  <2>3. CASE i # h
    <3>1. resp'[i] = resp[i]
      BY <1>0, <1>4, <2>1, <2>3, Zenon DEF ReturnOk, ReturnFailed, ReturnUncertain,
         Panic, Return
    <3>. QED  BY <2>1, <3>1, <1>f, Zenon
  <2>. QED  BY <2>2, <2>3, Zenon
<1>5. ASSUME NEW h \in Handlers, Release(h) \/ Complete(h) \/ HerdrStep(h)
      PROVE  ~resp'[i].retryable
  <2>1. UNCHANGED <<resp, dispatched>>
    BY <1>5, Zenon DEF Release, Complete, HerdrStep, HerdrExecute, HerdrRefuse,
       handlerVars, historyVars
  <2>. QED  BY <2>1, <1>f, Zenon
<1>6. CASE ConfirmStep \/ GenerationChange \/ Advance \/ UNCHANGED vars
  <2>1. UNCHANGED <<resp, dispatched>>
    BY <1>6, Zenon DEF ConfirmStep, Confirm, GenerationChange, Advance, vars,
       handlerVars, historyVars
  <2>. QED  BY <2>1, <1>f, Zenon
<1>. QED  BY <1>2, <1>3, <1>4, <1>5, <1>6, Zenon DEF Next, HandlerStep

(* mutations.go, "do not claim the request is retryable as-is": an operation
   whose nonce was spent on a dispatch is never answered as retryable, and no
   retryable answer is cached. *)
THEOREM SpentIsNotRetryable == Spec => []RetryableIsSafe
<1>1. Init => RetryableIsSafe
  BY DEF Init, RetryableIsSafe, NoEntry
<1>. QED
  BY <1>1, InitTypes, TypeStep, InitOwner, OwnerStep, InitAnswer, AnswerStep,
     RetryStep, PTL DEF Spec

(* One confirmation, one dispatch, and no answer that invites its reuse
   (nonceStore.consume, dispatchGuarded), for every store, time and bound. *)
THEOREM NoncesAreSound == Spec => []NoncesSound
<1>1. NonceSingleUse /\ RetryableIsSafe => NoncesSound
  BY Zenon DEF NoncesSound
<1>. QED
  BY <1>1, NoncesAreSingleUse, SpentIsNotRetryable, PTL
=============================================================================
