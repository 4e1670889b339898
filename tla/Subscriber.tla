----------------------------- MODULE Subscriber -----------------------------
(***************************************************************************)
(* The reconnecting events.subscribe connection (herdr/events.go), the     *)
(* loop of stack.go that turns its wakeups into engine wakes, and the poll *)
(* those wakes lead to.  Herdr's state is a version number; an event frame *)
(* announces a change but carries nothing, because "events only wake; the  *)
(* engine re-reads the snapshot for truth".                                *)
(*                                                                         *)
(* Time passes in ticks: one tick ages a live subscription (up to the age  *)
(* that counts as stable) and shortens a reconnect wait.                   *)
(***************************************************************************)
EXTENDS Naturals, FiniteSetsExt

CONSTANTS
    Initial, MaxDelay, Factor,  \* the normalised Backoff
    StableAfter,                \* stableAfter, in ticks
    MaxVersion,                 \* bound on Herdr's changes
    MaxFails                    \* the count of flaps saturates here

(* Backoff.normalized *)
BackoffAssumption ==
    /\ Initial \in Nat \ {0} /\ MaxDelay \in Nat /\ Factor \in Nat \ {0}
    /\ MaxDelay >= Initial
    /\ StableAfter \in Nat \ {0} /\ MaxVersion \in Nat
    /\ MaxFails \in Nat /\ Initial * Factor^(MaxFails - 1) >= MaxDelay

VARIABLES
    pc,         \* Run: "dial", "first", "live", "judge", "wait" or "done"
    delay,      \* the next reconnect wait
    stable,     \* what the last session returned
    gotEvent,   \* a post-start event was read
    age,        \* ticks since startedAt, at most StableAfter
    left,       \* ticks until clock.After fires
    cancelled,  \* serveCtx is done
    served,     \* Herdr's side of the connection: "none", "open", "started", "lost"
    frames,     \* event frames on the connection, not yet read
    wake,       \* the subscriber's one buffered wakeup
    forwarded,  \* the engine's pending wake
    version,    \* Herdr's state
    seen,       \* the version of the engine's last snapshot
    fails       \* consecutive sessions that proved nothing, at most MaxFails

subscriber == <<pc, delay, stable, gotEvent, age, left>>
vars == <<pc, delay, stable, gotEvent, age, left, cancelled, served, frames, wake,
          forwarded, version, seen, fails>>

Init ==
    /\ pc = "dial" /\ delay = Initial /\ stable = FALSE /\ gotEvent = FALSE
    /\ age = 0 /\ left = 0 /\ cancelled = FALSE
    /\ served = "none" /\ frames = 0 /\ wake = FALSE /\ forwarded = FALSE
    /\ version = 0 /\ seen = 0 /\ fails = 0

(* Backoff.next *)
NextDelay(d) == Max({Min({d * Factor, MaxDelay}), Initial})

-----------------------------------------------------------------------------
(* Herdr: it starts a subscription, changes, announces its changes on the   *)
(* started subscription, and loses the connection at any moment.            *)

HerdrStarts ==
    /\ served = "open"
    /\ served' = "started"
    /\ UNCHANGED <<subscriber, cancelled, frames, wake, forwarded, version, seen, fails>>

HerdrChanges ==
    /\ version < MaxVersion
    /\ version' = version + 1
    /\ frames' = IF served = "started" THEN frames + 1 ELSE frames
    /\ UNCHANGED <<subscriber, cancelled, served, wake, forwarded, seen, fails>>

(* A refusal, a first frame of another type and a drop all end the same way. *)
HerdrDrops ==
    /\ served \in {"open", "started"}
    /\ served' = "lost"
    /\ UNCHANGED <<subscriber, cancelled, frames, wake, forwarded, version, seen, fails>>

-----------------------------------------------------------------------------
(* session *)

EndSession(isStable) ==
    /\ pc' = "judge"
    /\ stable' = isStable
    /\ served' = "none" /\ frames' = 0
    /\ fails' = IF isStable THEN 0 ELSE Min({fails + 1, MaxFails})
    /\ UNCHANGED <<delay, gotEvent, age, left, cancelled, forwarded, version, seen>>

Dial ==
    /\ pc = "dial" /\ ~cancelled
    /\ pc' = "first" /\ served' = "open" /\ gotEvent' = FALSE /\ age' = 0
    /\ UNCHANGED <<delay, stable, left, cancelled, frames, wake, forwarded, version,
                   seen, fails>>

DialFails ==
    /\ pc = "dial"
    /\ EndSession(FALSE)
    /\ UNCHANGED wake

(* Mutant: no resync on (re)connection. *)
StartedSilently ==
    /\ pc = "first" /\ served = "started"
    /\ pc' = "live"
    /\ UNCHANGED <<delay, stable, gotEvent, age, left, cancelled, served, frames, wake,
                   forwarded, version, seen, fails>>

(* The subscription_started frame: startedAt is taken, then a wakeup is sent. *)
Started ==
    /\ pc = "first" /\ served = "started"
    /\ pc' = "live" /\ wake' = TRUE
    /\ UNCHANGED <<delay, stable, gotEvent, age, left, cancelled, served, frames,
                   forwarded, version, seen, fails>>

FirstFails ==
    /\ pc = "first" /\ (served = "lost" \/ cancelled)
    /\ EndSession(FALSE)
    /\ UNCHANGED wake

(* Each event frame sends one wakeup; signals collapse into the one slot. *)
ReadEvent ==
    /\ pc = "live" /\ frames > 0
    /\ frames' = frames - 1 /\ gotEvent' = TRUE /\ wake' = TRUE
    /\ UNCHANGED <<pc, delay, stable, age, left, cancelled, served, forwarded, version,
                   seen, fails>>

(* A drop after the frames it delivered; cancellation closes at any time. *)
ReadFails ==
    /\ pc = "live" /\ ((served = "lost" /\ frames = 0) \/ cancelled)
    /\ EndSession(gotEvent \/ age >= StableAfter)
    /\ UNCHANGED wake

-----------------------------------------------------------------------------
(* Run *)

Cancel ==
    /\ ~cancelled /\ cancelled' = TRUE
    /\ UNCHANGED <<subscriber, served, frames, wake, forwarded, version, seen, fails>>

Return ==
    /\ cancelled /\ pc \in {"dial", "judge", "wait"}
    /\ pc' = "done"
    /\ UNCHANGED <<delay, stable, gotEvent, age, left, cancelled, served, frames, wake,
                   forwarded, version, seen, fails>>

(* Only a stable session resets the delay. *)
Judge ==
    /\ pc = "judge" /\ ~cancelled
    /\ LET d == IF stable THEN Initial ELSE delay
       IN  delay' = d /\ left' = d
    /\ pc' = "wait"
    /\ UNCHANGED <<stable, gotEvent, age, cancelled, served, frames, wake, forwarded,
                   version, seen, fails>>

Reconnect ==
    /\ pc = "wait" /\ left = 0
    /\ pc' = "dial"
    /\ delay' = IF stable THEN delay ELSE NextDelay(delay)
    /\ UNCHANGED <<stable, gotEvent, age, left, cancelled, served, frames, wake,
                   forwarded, version, seen, fails>>

Tick ==
    /\ \/ pc = "wait" /\ left > 0 /\ left' = left - 1 /\ age' = age
       \/ pc = "live" /\ age < StableAfter /\ age' = age + 1 /\ left' = left
    /\ UNCHANGED <<pc, delay, stable, gotEvent, cancelled, served, frames, wake,
                   forwarded, version, seen, fails>>

-----------------------------------------------------------------------------
(* The wake loop of buildStack, and the poll the engine answers a wake with. *)

ForwardWake ==
    /\ wake /\ ~cancelled
    /\ wake' = FALSE /\ forwarded' = TRUE
    /\ UNCHANGED <<subscriber, cancelled, served, frames, version, seen, fails>>

EnginePolls ==
    /\ forwarded /\ forwarded' = FALSE
    /\ seen' = version
    /\ UNCHANGED <<subscriber, cancelled, served, frames, wake, version, fails>>

Relay == \/ Dial \/ DialFails \/ Started \/ FirstFails \/ ReadEvent \/ ReadFails
         \/ Return \/ Judge \/ Reconnect

Next == HerdrStarts \/ HerdrChanges \/ HerdrDrops \/ Relay \/ Cancel \/ Tick
        \/ ForwardWake \/ EnginePolls

Spec == Init /\ [][Next]_vars

(* The goroutines run, timers fire and polls end; nothing is asked of Herdr. *)
FairSpec ==
    Spec /\ WF_vars(Relay) /\ WF_vars(Tick) /\ WF_vars(ForwardWake) /\ WF_vars(EnginePolls)

-----------------------------------------------------------------------------
(***************************************************************************)
(* Type invariant.                                                         *)
(***************************************************************************)
TypeOK ==
    /\ pc \in {"dial", "first", "live", "judge", "wait", "done"}
    /\ delay \in Initial..MaxDelay /\ left \in 0..MaxDelay
    /\ stable \in BOOLEAN /\ gotEvent \in BOOLEAN /\ cancelled \in BOOLEAN
    /\ wake \in BOOLEAN /\ forwarded \in BOOLEAN
    /\ age \in 0..StableAfter
    /\ served \in {"none", "open", "started", "lost"}
    /\ frames \in 0..MaxVersion /\ version \in 0..MaxVersion /\ seen \in 0..version
    /\ fails \in 0..MaxFails

(***************************************************************************)
(* "The subscriber ... emits a wakeup on every (re)connection so the       *)
(* engine resyncs after any gap", and extra signals may collapse: when a   *)
(* started subscription has nothing left to read and no wakeup is pending  *)
(* anywhere on the way to the engine, the engine has Herdr's state.        *)
(***************************************************************************)
QuietMeansSynced ==
    pc = "live" /\ served = "started" /\ frames = 0 /\ ~wake /\ ~forwarded
        => seen = version

(***************************************************************************)
(* "A server that accepts the subscription and immediately drops it ...    *)
(* backs off exponentially instead of hammering reconnects": the wait      *)
(* before a reconnection is the initial delay after a stable session, and  *)
(* otherwise grows with the run of sessions that proved nothing, to the    *)
(* maximum.                                                                *)
(***************************************************************************)
BackoffMatchesFlaps ==
    pc = "wait" =>
        delay = IF fails = 0 THEN Initial
                ELSE Min({Initial * Factor^(fails - 1), MaxDelay})

(***************************************************************************)
(* A change is seen: while a subscription is live, whatever Herdr's state  *)
(* was is in a snapshot of the engine in the end, unless the subscription  *)
(* is lost or the relay stops first.                                       *)
(***************************************************************************)
ChangesSeen ==
    \A v \in 0..MaxVersion :
        (pc = "live" /\ served = "started" /\ version = v)
            ~> (seen >= v \/ pc # "live" \/ cancelled)

(***************************************************************************)
(* Cancellation ends the subscriber, whatever it is blocked in: the read   *)
(* of a silent connection is unwound by closing it (session).              *)
(***************************************************************************)
CancelEnds == cancelled ~> pc = "done"

=============================================================================
