------------------------------ MODULE Mutations ------------------------------
(***************************************************************************)
(* POST /mutations and POST /confirmations (internal/server/mutations.go)  *)
(* with the two stores they share (internal/server/stores.go): idemStore,  *)
(* which reserves a request id and caches its answer, and nonceStore,      *)
(* which holds single-use confirmation nonces.                             *)
(*                                                                         *)
(* Each handler is one HTTP attempt in its own goroutine: a first attempt, *)
(* a retry, or a duplicate the network made.  It takes one step per lock   *)
(* acquisition, so attempts interleave between any two of them, with each  *)
(* other, with the pane's generation changing in the state engine, with    *)
(* Herdr executing what it was sent, and with the clock.  Herdr may        *)
(* execute a request whose caller has already given up on it.              *)
(*                                                                         *)
(* One pane stands for the guarded resource; a fingerprint is the pair of  *)
(* the operation (with its canonical params) and the asserted generation,  *)
(* which is what requestFingerprint digests.                               *)
(***************************************************************************)
EXTENDS Integers, FiniteSets

CONSTANTS
    Handlers,        \* HTTP attempts
    Sessions,        \* session ids
    RequestIds,      \* client-chosen request ids
    Ops,             \* operations together with their params
    PaneOps,         \* operations whose resource is a pane
    ConfirmOps,      \* operations that require a confirmation
    Gens,            \* generations that clients assert (0: missing)
    Deadlines,       \* client deadlines (0: none)
    Tokens,          \* confirmation nonces
    NoToken,         \* the empty confirmation
    ServerDeadline,  \* ServerMutationDeadline
    Skew,            \* DeadlineSkew
    IdempotencyTTL,
    ConfirmationTTL,
    MinReservation,  \* the 30 s floor of reservationTTL
    Grace,           \* time from the deadline until the key is resolved
    MaxTime,         \* bound: the clock
    MaxGenChanges    \* bound: changes of the pane's generation

ASSUME OpsAssumption ==
    /\ PaneOps \subseteq Ops
    /\ ConfirmOps \subseteq Ops
    /\ NoToken \notin Tokens

(* server.Config defaults every duration to a positive value; a handler is
   assumed to resolve its key within Grace of its deadline, no longer than
   the deadline itself. *)
ASSUME TimesAssumption ==
    /\ Gens \subseteq Nat
    /\ Deadlines \subseteq Nat
    /\ ServerDeadline \in Nat \ {0}
    /\ Skew \in Nat
    /\ IdempotencyTTL \in Nat \ {0}
    /\ ConfirmationTTL \in Nat \ {0}
    /\ MinReservation \in Nat
    /\ Grace \in 0..ServerDeadline
    /\ MaxTime \in Nat
    /\ MaxGenChanges \in Nat

Messages == [session : Sessions, rid : RequestIds, op : Ops, gen : Gens,
             conf : Tokens \cup {NoToken}, deadline : Deadlines]

Keys == Sessions \X RequestIds
Key(m) == <<m.session, m.rid>>
Fingerprint(m) == <<m.op, m.gen>>

(* Mutant: a reservation lasts one deadline only. *)
ReservationTTLShort == ServerDeadline

(* reservationTTL *)
ReservationTTL ==
    IF 2 * ServerDeadline < MinReservation THEN MinReservation
                                           ELSE 2 * ServerDeadline

Never == -1

VARIABLES
    now,         \* the clock
    gen,         \* State.Generation of the pane, 0 when it is gone
    pastGens,    \* the generations the pane has had
    genChanges,  \* number of generation changes so far
    idem,        \* idemStore.m
    nonces,      \* nonceStore.m
    msg,         \* the request each handler carries
    phase,       \* where each handler is
    budget,      \* serverBudget of each handler
    ctxEnd,      \* when the handler's ctx expires
    resp,        \* what the handler answers
    inbox,       \* handlers whose request Herdr has yet to process
    executed,    \* handlers whose request took effect in Herdr
    dispatched,  \* history: handlers that called Mutate
    lastDone     \* history: when a definite answer of a key was cached

storeVars == <<idem, nonces>>
worldVars == <<now, gen, pastGens, genChanges>>
herdrVars == <<inbox, executed>>
handlerVars == <<phase, budget, ctxEnd, resp>>
historyVars == <<dispatched, lastDone>>
vars == <<worldVars, storeVars, msg, handlerVars, herdrVars, historyVars>>

(* An answer: its code, whether the client may retry as is, and the handler
   that produced it (a replay keeps the producer). *)
Codes == {"none", "ok", "failed", "unavailable", "deadline_exceeded",
          "conflict", "generation_stale", "confirmation_needed",
          "confirmation_invalid", "aborted"}
Response(code, retryable, h) == [code |-> code, retryable |-> retryable, by |-> h]

NoEntry == [state |-> "none"]
Pending(h, exp) == [state |-> "pending", fp |-> Fingerprint(msg[h]), by |-> h,
                    exp |-> exp]
Done(h, exp) == [state |-> "done", fp |-> Fingerprint(msg[h]), by |-> h,
                 exp |-> exp, resp |-> resp[h]]

(* Phases in which a handler owns its reservation. *)
Owning == {"attempt", "calling", "release", "complete"}

NeedsConfirmation(m) == m.op \in ConfirmOps

Move(h, p) == phase' = [phase EXCEPT ![h] = p]

Answer(h, r) ==
    /\ Move(h, "done")
    /\ resp' = [resp EXCEPT ![h] = r]
    /\ UNCHANGED <<budget, ctxEnd>>

-----------------------------------------------------------------------------
(* The idempotency store *)

Live(e) == e.state # "none" /\ now <= e.exp

(* gcLocked *)
Collected == [k \in Keys |-> IF Live(idem[k]) THEN idem[k] ELSE NoEntry]

(* Mutant: a request id is replayed whatever the payload. *)
PeekAnyPayload(h) ==
    LET m == msg[h]
        e == idem[Key(m)]
    IN /\ phase[h] = "peek"
       /\ idem' = IF Live(e) THEN idem ELSE [idem EXCEPT ![Key(m)] = NoEntry]
       /\ \/ /\ Live(e) /\ e.state = "done"
             /\ Answer(h, e.resp)
          \/ /\ Live(e) => e.state = "pending"
             /\ Move(h, "guard")
             /\ UNCHANGED <<budget, ctxEnd, resp>>
       /\ UNCHANGED <<worldVars, nonces, msg, herdrVars, historyVars>>

(* handleMutations up to idemStore.peek, which drops an expired entry. *)
Peek(h) ==
    LET m == msg[h]
        e == idem[Key(m)]
    IN /\ phase[h] = "peek"
       /\ idem' = IF Live(e) THEN idem ELSE [idem EXCEPT ![Key(m)] = NoEntry]
       /\ \/ /\ Live(e) /\ e.fp # Fingerprint(m)
             /\ Answer(h, Response("conflict", FALSE, h))
          \/ /\ Live(e) /\ e.fp = Fingerprint(m) /\ e.state = "done"
             /\ Answer(h, e.resp)
          \/ /\ Live(e) => e.fp = Fingerprint(m) /\ e.state = "pending"
             /\ Move(h, "guard")
             /\ UNCHANGED <<budget, ctxEnd, resp>>
       /\ UNCHANGED <<worldVars, nonces, msg, herdrVars, historyVars>>

(* The server's budget: its own cap, or what the client has left. *)
Budget(m) ==
    IF m.deadline = 0 THEN ServerDeadline
    ELSE IF m.deadline - now - Skew < ServerDeadline
           THEN m.deadline - now - Skew
           ELSE ServerDeadline

GenerationOk(m) == m.op \in PaneOps => m.gen # 0 /\ gen = m.gen

(* Presence of the confirmation, generation guard, deadline. *)
Guard(h) ==
    LET m == msg[h]
        confirmed == NeedsConfirmation(m) => m.conf # NoToken
    IN /\ phase[h] = "guard"
       /\ \/ /\ ~confirmed
             /\ Answer(h, Response("confirmation_needed", FALSE, h))
          \/ /\ confirmed /\ ~GenerationOk(m)
             /\ Answer(h, Response("generation_stale", m.gen # 0, h))
          \/ /\ confirmed /\ GenerationOk(m) /\ Budget(m) <= 0
             /\ Answer(h, Response("deadline_exceeded", TRUE, h))
          \/ /\ confirmed /\ GenerationOk(m) /\ Budget(m) > 0
             /\ budget' = [budget EXCEPT ![h] = Budget(m)]
             /\ Move(h, "reserve")
             /\ UNCHANGED <<ctxEnd, resp>>
       /\ UNCHANGED <<worldVars, storeVars, msg, herdrVars, historyVars>>

(* idemStore.reserve, then context.WithTimeout. *)
Reserve(h) ==
    LET m == msg[h]
        e == Collected[Key(m)]
    IN /\ phase[h] = "reserve"
       /\ \/ /\ e.state # "none" /\ e.fp # Fingerprint(m)
             /\ idem' = Collected
             /\ Answer(h, Response("conflict", FALSE, h))
          \/ /\ e.state = "pending" /\ e.fp = Fingerprint(m)
             /\ idem' = Collected
             /\ Answer(h, Response("conflict", TRUE, h))
          \/ /\ e.state = "done" /\ e.fp = Fingerprint(m)
             /\ idem' = Collected
             /\ Answer(h, e.resp)
          \/ /\ e.state = "none"
             /\ idem' = [Collected EXCEPT
                            ![Key(m)] = Pending(h, now + ReservationTTL)]
             /\ ctxEnd' = [ctxEnd EXCEPT ![h] = now + budget[h]]
             /\ Move(h, "attempt")
             /\ UNCHANGED <<budget, resp>>
       /\ UNCHANGED <<worldVars, nonces, msg, herdrVars, historyVars>>

(* idemStore.release drops the pending entry of the key, whoever made it. *)
Release(h) ==
    LET k == Key(msg[h])
    IN /\ phase[h] = "release"
       /\ idem' = IF idem[k].state = "pending"
                    THEN [idem EXCEPT ![k] = NoEntry] ELSE idem
       /\ Move(h, "done")
       /\ UNCHANGED <<worldVars, nonces, msg, budget, ctxEnd, resp, herdrVars,
                      historyVars>>

(* Mutant: the answer is not cached. *)
CompleteUncached(h) ==
    LET k == Key(msg[h])
    IN /\ phase[h] = "complete"
       /\ idem' = [idem EXCEPT ![k] = NoEntry]
       /\ lastDone' = [lastDone EXCEPT ![k] = now]
       /\ Move(h, "done")
       /\ UNCHANGED <<worldVars, nonces, msg, budget, ctxEnd, resp, herdrVars,
                      dispatched>>

(* idemStore.complete overwrites the entry of the key, whatever it is. *)
Complete(h) ==
    LET k == Key(msg[h])
    IN /\ phase[h] = "complete"
       /\ idem' = [idem EXCEPT ![k] = Done(h, now + IdempotencyTTL)]
       /\ lastDone' = [lastDone EXCEPT ![k] = now]
       /\ Move(h, "done")
       /\ UNCHANGED <<worldVars, nonces, msg, budget, ctxEnd, resp, herdrVars,
                      dispatched>>

-----------------------------------------------------------------------------
(* The nonce store *)

NoNonce == [state |-> "none"]
Spent == [state |-> "spent"]
Nonce(s, op, g) == [state |-> "live", session |-> s, op |-> op, gen |-> g,
                    exp |-> now + ConfirmationTTL]

(* handleConfirmations.  The generation was read before the nonce is issued
   and may have moved on since.  Issuing collects the expired nonces. *)
Confirm(t, s, op, g) ==
    /\ nonces[t] = NoNonce
    /\ op \in ConfirmOps
    /\ op \in PaneOps => g \in pastGens /\ g # 0
    /\ nonces' = [u \in Tokens |->
                    IF u = t THEN Nonce(s, op, g)
                    ELSE IF nonces[u].state = "live" /\ now > nonces[u].exp
                           THEN Spent ELSE nonces[u]]
    /\ UNCHANGED <<worldVars, idem, msg, handlerVars, herdrVars, historyVars>>

(* nonceStore.consume succeeds: unexpired and every bound field matches. *)
Matches(m) ==
    /\ m.conf \in Tokens
    /\ nonces[m.conf].state = "live"
    /\ now <= nonces[m.conf].exp
    /\ nonces[m.conf].session = m.session
    /\ nonces[m.conf].op = m.op
    /\ nonces[m.conf].gen = m.gen

(* Mutant: consume checks the nonce and leaves it. *)
ConsumedNot(m) == nonces

(* Any use burns the nonce, a mismatched one too. *)
Consumed(m) ==
    [t \in Tokens |-> IF t = m.conf /\ nonces[t].state = "live"
                        THEN Spent ELSE nonces[t]]

-----------------------------------------------------------------------------
(* Dispatch *)

(* Mutant: the early return on a done context forgets the release. *)
GiveUpUnreleased(h) ==
    /\ phase[h] = "attempt"
    /\ Answer(h, Response("deadline_exceeded", TRUE, h))
    /\ UNCHANGED <<worldVars, storeVars, msg, herdrVars, historyVars>>

(* The context is done before dispatch (deadline, or the peer left): the
   nonce stays. *)
GiveUp(h) ==
    /\ phase[h] = "attempt"
    /\ Move(h, "release")
    /\ resp' = [resp EXCEPT ![h] = Response("deadline_exceeded", TRUE, h)]
    /\ UNCHANGED <<worldVars, storeVars, msg, budget, ctxEnd, herdrVars,
                   historyVars>>

(* The ctx check passed (it is first made when ctx is fresh, so at any later
   time it may have passed already), but the nonce does not match. *)
RefuseNonce(h) ==
    /\ phase[h] = "attempt"
    /\ NeedsConfirmation(msg[h])
    /\ ~Matches(msg[h])
    /\ nonces' = Consumed(msg[h])
    /\ Move(h, "release")
    /\ resp' = [resp EXCEPT ![h] = Response("confirmation_invalid", FALSE, h)]
    /\ UNCHANGED <<worldVars, idem, msg, budget, ctxEnd, herdrVars, historyVars>>

(* The nonce is spent and Mutator.Mutate is called. *)
Dispatch(h) ==
    /\ phase[h] = "attempt"
    /\ IF NeedsConfirmation(msg[h])
         THEN Matches(msg[h]) /\ nonces' = Consumed(msg[h])
         ELSE UNCHANGED nonces
    /\ Move(h, "calling")
    /\ inbox' = inbox \cup {h}
    /\ dispatched' = dispatched \cup {h}
    /\ UNCHANGED <<worldVars, idem, msg, budget, ctxEnd, resp, executed,
                   lastDone>>

(* Herdr, outside the repository, executes or refuses a request it was sent,
   at any time; a lost request is one it never gets to. *)
HerdrExecute(h) ==
    /\ h \in inbox
    /\ inbox' = inbox \ {h}
    /\ executed' = executed \cup {h}
    /\ UNCHANGED <<worldVars, storeVars, msg, handlerVars, historyVars>>

HerdrRefuse(h) ==
    /\ h \in inbox
    /\ inbox' = inbox \ {h}
    /\ UNCHANGED <<worldVars, storeVars, msg, handlerVars, executed, historyVars>>

Return(h, next, r) ==
    /\ phase[h] = "calling"
    /\ Move(h, next)
    /\ resp' = [resp EXCEPT ![h] = r]
    /\ UNCHANGED <<worldVars, storeVars, msg, budget, ctxEnd, herdrVars,
                   historyVars>>

ReturnOk(h) ==
    /\ h \in executed
    /\ Return(h, "complete", Response("ok", FALSE, h))

(* A definite upstream error while the context is live: Herdr refused, or
   answered something the client could not decode. *)
ReturnFailed(h) ==
    /\ h \notin inbox
    /\ now < ctxEnd[h]
    /\ Return(h, "complete", Response("failed", FALSE, h))

(* Timeout, cancellation or a transport fault: whether Herdr acted is not
   known.  A confirmed operation needs a fresh confirmation to retry. *)
ReturnUncertain(h) ==
    Return(h, "release",
           IF NeedsConfirmation(msg[h])
             THEN Response("confirmation_needed", FALSE, h)
             ELSE Response("unavailable", TRUE, h))

(* The handler panics in Mutate; its deferred function releases the key. *)
Panic(h) == Return(h, "release", Response("aborted", FALSE, h))

-----------------------------------------------------------------------------
(* The environment *)

(* The state engine bumps the generation, drops the pane, or sees it again. *)
GenerationChange ==
    /\ genChanges < MaxGenChanges
    /\ genChanges' = genChanges + 1
    /\ \/ gen # 0 /\ gen' = gen + 1
       \/ gen # 0 /\ gen' = 0
       \/ gen = 0 /\ gen' = 1
    /\ pastGens' = pastGens \cup {gen'}
    /\ UNCHANGED <<now, storeVars, msg, handlerVars, herdrVars, historyVars>>

(* Time passes, but a handler that owns a reservation resolves it within
   Grace of its context's deadline (every Herdr call honours ctx). *)
Advance ==
    /\ now < MaxTime
    /\ \A h \in Handlers : phase[h] \in Owning => now < ctxEnd[h] + Grace
    /\ now' = now + 1
    /\ UNCHANGED <<gen, pastGens, genChanges, storeVars, msg, handlerVars,
                   herdrVars, historyVars>>

Init ==
    /\ now = 0
    /\ gen = 1
    /\ pastGens = {1}
    /\ genChanges = 0
    /\ idem = [k \in Keys |-> NoEntry]
    /\ nonces = [t \in Tokens |-> NoNonce]
    /\ msg \in [Handlers -> Messages]
    /\ phase = [h \in Handlers |-> "peek"]
    /\ budget = [h \in Handlers |-> 0]
    /\ ctxEnd = [h \in Handlers |-> 0]
    /\ resp = [h \in Handlers |-> Response("none", FALSE, h)]
    /\ inbox = {}
    /\ executed = {}
    /\ dispatched = {}
    /\ lastDone = [k \in Keys |-> Never]

HandlerStep(h) ==
    \/ Peek(h) \/ Guard(h) \/ Reserve(h)
    \/ GiveUp(h) \/ RefuseNonce(h) \/ Dispatch(h)
    \/ ReturnOk(h) \/ ReturnFailed(h) \/ ReturnUncertain(h) \/ Panic(h)
    \/ Release(h) \/ Complete(h)

HerdrStep(h) == HerdrExecute(h) \/ HerdrRefuse(h)

ConfirmStep ==
    \E t \in Tokens, s \in Sessions, op \in ConfirmOps, g \in Gens :
        Confirm(t, s, op, g)

Next ==
    \/ \E h \in Handlers : HandlerStep(h) \/ HerdrStep(h)
    \/ ConfirmStep
    \/ GenerationChange
    \/ Advance

Spec == Init /\ [][Next]_vars

(* A handler that is not blocked goes on: it waits for no lock longer than a
   critical section, and Mutate returns at the latest when ctx expires. *)
FairSpec == Spec /\ \A h \in Handlers : WF_vars(HandlerStep(h))

-----------------------------------------------------------------------------
(* Properties *)

Fingerprints == Ops \X Gens
Responses == [code : Codes, retryable : BOOLEAN, by : Handlers]
Entries ==
    {NoEntry}
    \cup [state : {"pending"}, fp : Fingerprints, by : Handlers, exp : Nat]
    \cup [state : {"done"}, fp : Fingerprints, by : Handlers, exp : Nat,
          resp : Responses]
Nonces ==
    {NoNonce, Spent}
    \cup [state : {"live"}, session : Sessions, op : Ops, gen : Gens, exp : Nat]

(* Every variable has its type; in particular no handler goes on with a
   budget that is not positive. *)
TypeOK ==
    /\ now \in Nat
    /\ gen \in Nat
    /\ pastGens \subseteq Nat
    /\ genChanges \in Nat
    /\ idem \in [Keys -> Entries]
    /\ nonces \in [Tokens -> Nonces]
    /\ msg \in [Handlers -> Messages]
    /\ phase \in [Handlers -> Owning \cup {"peek", "guard", "reserve", "done"}]
    /\ budget \in [Handlers -> 0..ServerDeadline]
    /\ ctxEnd \in [Handlers -> Nat]
    /\ resp \in [Handlers -> Responses]
    /\ inbox \subseteq Handlers
    /\ executed \subseteq Handlers
    /\ dispatched \subseteq Handlers
    /\ lastDone \in [Keys -> Nat \cup {Never}]

(* stores.go: reservations make "concurrent retries of the same request
   execute exactly once", and release "only removes the entry if it is still
   this caller's pending reservation".  From reserve until it resolves the
   key, a handler's own pending entry stays in the store, so no other attempt
   holds the key, and the owner-blind release and complete hit its entry. *)
SoleOwner ==
    \A h \in Handlers :
        phase[h] \in Owning => /\ idem[Key(msg[h])].state = "pending"
                               /\ idem[Key(msg[h])].by = h

(* What makes SoleOwner inductive: the owner resolves its key before the
   reservation can expire. *)
OwnerInv ==
    \A h \in Handlers :
        LET e == idem[Key(msg[h])]
        IN phase[h] \in Owning =>
              /\ e.state = "pending"
              /\ e.by = h
              /\ e.fp = Fingerprint(msg[h])
              /\ now <= ctxEnd[h] + Grace
              /\ ctxEnd[h] + Grace <= e.exp

(* A definite answer of the key is still to be replayed. *)
Answered(k) == lastDone[k] # Never /\ now <= lastDone[k] + IdempotencyTTL

(* "Cache idempotent results [...] so a network retry cannot repeat a
   mutation": once an attempt got a definite answer, no attempt with the same
   request id reaches Herdr until the cached answer expires. *)
NoRepeatAfterAnswer ==
    [][\A h \in Handlers :
          h \in dispatched' \ dispatched => ~Answered(Key(msg[h]))]_vars

(* What makes NoRepeatAfterAnswer hold: such a key has a cached answer. *)
AnsweredInv ==
    \A k \in Keys :
        Answered(k) => /\ idem[k].state = "done"
                       /\ idem[k].exp = lastDone[k] + IdempotencyTTL

(* A definite answer, replayed or not, belongs to the payload that asked: it
   was produced for the same key, operation and asserted generation by an
   attempt that reached Herdr, and "ok" means that Herdr executed it. *)
AnswersAreOwn ==
    \A h \in Handlers :
        LET b == resp[h].by
        IN resp[h].code \in {"ok", "failed"} =>
              /\ b \in dispatched
              /\ Key(msg[b]) = Key(msg[h])
              /\ Fingerprint(msg[b]) = Fingerprint(msg[h])
              /\ resp[h].code = "ok" => b \in executed

(* A response is a definite answer for payload fp of key k. *)
DefiniteFor(r, k, fp) ==
    /\ r.code \in {"ok", "failed"}
    /\ ~r.retryable
    /\ r.by \in dispatched
    /\ Key(msg[r.by]) = k
    /\ Fingerprint(msg[r.by]) = fp
    /\ r.code = "ok" => r.by \in executed

(* What makes AnswersAreOwn and RetryableIsSafe inductive: where answers come
   from, and what a handler has done and said in each phase. *)
AnswerInv ==
    /\ \A k \in Keys : idem[k].state = "done" =>
                           DefiniteFor(idem[k].resp, k, idem[k].fp)
    /\ \A h \in Handlers :
          /\ phase[h] \in {"peek", "guard", "reserve", "attempt"} =>
                h \notin dispatched
          /\ phase[h] \in {"peek", "guard", "reserve", "attempt", "calling"} =>
                resp[h].code = "none" /\ ~resp[h].retryable
          /\ phase[h] = "calling" => h \in dispatched
          /\ phase[h] = "complete" => resp[h].code \in {"ok", "failed"}
          /\ resp[h].code \in {"ok", "failed"} =>
                DefiniteFor(resp[h], Key(msg[h]), Fingerprint(msg[h]))

(* nonceStore: one confirmation lets at most one confirmed operation through
   to Herdr, whatever request ids and sessions present it. *)
NonceSingleUse ==
    \A h, i \in dispatched :
        /\ NeedsConfirmation(msg[h]) /\ NeedsConfirmation(msg[i])
        /\ msg[h].conf = msg[i].conf
        => h = i

(* What makes NonceSingleUse inductive: dispatching leaves the nonce spent. *)
NonceInv ==
    \A h \in dispatched :
        NeedsConfirmation(msg[h]) => /\ msg[h].conf \in Tokens
                                     /\ nonces[msg[h].conf] = Spent

(* "Do not claim the request is retryable as-is" once its nonce is spent, and
   "Never cache a retryable failure". *)
RetryableIsSafe ==
    /\ \A h \in dispatched : NeedsConfirmation(msg[h]) => ~resp[h].retryable
    /\ \A k \in Keys : idem[k].state = "done" => ~idem[k].resp.retryable

(* What a confirmation is good for: one dispatch, and no answer that invites a
   retry with the same nonce (nonceStore.consume, dispatchGuarded). *)
NoncesSound == NonceSingleUse /\ RetryableIsSafe

(* Every attempt is answered ... *)
AllAnswered == \A h \in Handlers : <>(phase[h] = "done")

(* ... and no key stays reserved ("retryable rather than wedged"). *)
KeysUnwedged == \A k \in Keys : <>[](idem[k].state # "pending")

(* stores.go: "idemStore caches mutation responses by session+request id so a
   network retry cannot repeat a mutation". *)
RetryCannotRepeat ==
    \A k \in Keys : Cardinality({h \in executed : Key(msg[h]) = k}) <= 1
=============================================================================
