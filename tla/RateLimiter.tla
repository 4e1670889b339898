---------------------------- MODULE RateLimiter ----------------------------
(***************************************************************************)
(* The per-key token bucket of internal/server/stores.go.  allow reads the *)
(* clock before it takes the mutex, so calls may be processed out of the   *)
(* order of their times.  A token is Every units of credit, which keeps    *)
(* the arithmetic in whole units of time.                                  *)
(***************************************************************************)
EXTENDS Integers

CONSTANTS
    Keys, Callers,
    Every, Burst,             \* rateLimiter.every and burst
    SweepInterval, IdleTTL,   \* rlSweepInterval and rlIdleTTL
    Delay,                    \* longest wait for the mutex
    MaxTime                   \* bound

Cap == Burst * Every

(* A bucket that is idle for IdleTTL has refilled, with room to spare for
   two calls that wait for the mutex (4 s against 10 min by default). *)
ASSUME LimitAssumption ==
    /\ Every \in Nat /\ Burst \in Nat /\ Cap \in Nat /\ Every > 0 /\ Burst > 0
    /\ SweepInterval \in Nat /\ IdleTTL \in Nat /\ Delay \in Nat /\ MaxTime \in Nat
    /\ Cap >= Every
    /\ IdleTTL >= Cap + 2 * Delay

VARIABLES
    clock,
    m,            \* keys that have a bucket
    credit, last, \* bucket.tokens * Every and bucket.last
    lastSweep,
    call,         \* each caller: idle, or waiting with its key and its time
    since, count  \* history: a window of time, and what was allowed in it

buckets == <<m, credit, last, lastSweep>>
window == <<since, count>>
limitVars == <<clock, buckets, call, window>>

NoCaller == [is |-> "idle"]

LimitInit ==
    /\ clock = 0
    /\ m = {}
    /\ credit = [k \in Keys |-> 0] /\ last = [k \in Keys |-> 0]
    /\ lastSweep = 0
    /\ call = [c \in Callers |-> NoCaller]
    /\ since = [k \in Keys |-> 0] /\ count = [k \in Keys |-> 0]

ReadClock(c, k) ==
    /\ call[c] = NoCaller
    /\ call' = [call EXCEPT ![c] = [is |-> "waits", key |-> k, now |-> clock]]
    /\ UNCHANGED <<clock, buckets, window>>

(* sweepLocked: at most once per interval, buckets idle for IdleTTL go. *)
Swept(now, k) ==
    IF now - lastSweep < SweepInterval THEN m
    ELSE {x \in m : now - last[x] < IdleTTL}

(* Time that passed adds credit up to the capacity; a call that is processed
   late subtracts what its predecessor already added. *)
Filled(now, k) ==
    IF credit[k] + (now - last[k]) > Cap THEN Cap ELSE credit[k] + (now - last[k])

(* Mutant: the first call of a bucket is free. *)
OutcomeFree(now, k, kept) ==
    IF k \notin kept THEN [ok |-> TRUE, credit |-> Cap]
    ELSE IF Filled(now, k) < Every THEN [ok |-> FALSE, credit |-> Filled(now, k)]
    ELSE [ok |-> TRUE, credit |-> Filled(now, k) - Every]

(* A new bucket is full; the call takes one token if there is one. *)
Outcome(now, k, kept) ==
    IF k \notin kept THEN [ok |-> TRUE, credit |-> Cap - Every]
    ELSE IF Filled(now, k) < Every THEN [ok |-> FALSE, credit |-> Filled(now, k)]
    ELSE [ok |-> TRUE, credit |-> Filled(now, k) - Every]

(* allow, from the lock to the unlock. *)
Allow(c, k, now) ==
    /\ call[c] = [is |-> "waits", key |-> k, now |-> now]
    /\ LET kept == Swept(now, k)
           out == Outcome(now, k, kept)
       IN /\ m' = kept \cup {k}
          /\ lastSweep' = IF now - lastSweep < SweepInterval THEN lastSweep ELSE now
          /\ credit' = [credit EXCEPT ![k] = out.credit]
          /\ last' = [last EXCEPT ![k] = now]
          /\ count' = [count EXCEPT ![k] = IF out.ok THEN @ + 1 ELSE @]
    /\ call' = [call EXCEPT ![c] = NoCaller]
    /\ UNCHANGED <<clock, since>>

(* The history variables may start a window at any time. *)
StartWindow(k) ==
    /\ since' = [since EXCEPT ![k] = clock]
    /\ count' = [count EXCEPT ![k] = 0]
    /\ UNCHANGED <<clock, buckets, call>>

(* No call waits longer than Delay for the mutex. *)
Tick ==
    /\ clock < MaxTime
    /\ \A c \in Callers : call[c] # NoCaller => clock + 1 - call[c].now <= Delay
    /\ clock' = clock + 1
    /\ UNCHANGED <<buckets, call, window>>

LimitNext ==
    \/ Tick
    \/ \E k \in Keys : StartWindow(k)
    \/ \E c \in Callers, k \in Keys : ReadClock(c, k) \/ \E now \in 0..clock : Allow(c, k, now)

LimitSpec == LimitInit /\ [][LimitNext]_limitVars

-----------------------------------------------------------------------------

IsCall(x) ==
    \/ x = NoCaller
    \/ /\ x = [is |-> "waits", key |-> x.key, now |-> x.now]
       /\ x.key \in Keys /\ x.now \in 0..clock /\ clock - x.now <= Delay

LimitTypeOK ==
    /\ clock \in Nat
    /\ m \subseteq Keys
    /\ credit \in [Keys -> Int] /\ last \in [Keys -> 0..clock] /\ lastSweep \in 0..clock
    /\ \A c \in Callers : IsCall(call[c])
    /\ since \in [Keys -> 0..clock] /\ count \in [Keys -> Nat]
    /\ \A k \in Keys : credit[k] <= Cap

(* In every window of time a key is allowed its burst and one call per Every,
   give or take the wait for the mutex, although calls are processed out of
   order and idle buckets are forgotten (rateLimiter.allow, sweepLocked). *)
RateBound == \A k \in Keys : count[k] * Every <= Cap + (clock - since[k]) + Delay

(* No bucket stays longer than a sweep interval after it has been idle for
   IdleTTL, as long as calls come: the map cannot grow without bound. *)
IdleBucketsGo == \A k \in m : last[k] > lastSweep - IdleTTL

(* The limiter limits although it forgets, and forgets although calls come out
   of order (allow, sweepLocked). *)
BucketsSound == RateBound /\ IdleBucketsGo

=============================================================================
