----------------------------- MODULE CallProofs -----------------------------
(***************************************************************************)
(* One request in and one call out.  On the way in, the rate limiter keeps *)
(* its bound for every rate, burst, sweep interval and wait for the mutex, *)
(* and the routes into a pane answer for the occupant that was asked for.  *)
(* On the way out, however many calls of the Herdr client run at once, a   *)
(* success is the caller's own and nothing outlives a call; the cached     *)
(* agent kinds are served in time; and whatever becomes of the event       *)
(* subscription, a quiet one means that the engine has Herdr's state.      *)
(***************************************************************************)
EXTENDS RateLimiter, PaneRoutes, HerdrCall, AgentKinds, TLAPS

-----------------------------------------------------------------------------
(* The rate limiter.  RateBound is not inductive: whether one more call fits
   depends on the credit left, on the time of the last call and, for a forgotten
   bucket, on how long ago that was.  Account says so. *)

(* The earliest time a call counted in the window can have read. *)
Start(k) == since[k] - Delay

(* A bucket's credit and what it allowed in the window are paid for by the
   capacity and the time since the start; its debt is bounded by the wait. *)
Kept(k) ==
    /\ credit[k] - last[k] >= -clock
    /\ credit[k] >= -Delay
    /\ count[k] > 0 =>
          /\ last[k] >= Start(k)
          /\ credit[k] + count[k] * Every <= Cap + (last[k] - Start(k))

(* What a forgotten bucket allowed is paid for by time alone. *)
Forgotten(k) == count[k] > 0 => count[k] * Every <= (clock - Delay) - Start(k)

Account == \A k \in Keys : IF k \in m THEN Kept(k) ELSE Forgotten(k)

LimitInv == LimitTypeOK /\ Account /\ IdleBucketsGo

-----------------------------------------------------------------------------
(* One more call costs one interval. *)
LEMMA OneMore ==
    \A n \in Nat : n * Every \in Nat /\ (n + 1) * Every = n * Every + Every
BY LimitAssumption DEF Cap

(* A waiting call's time is at most Delay behind the clock. *)
LEMMA CallTime ==
    ASSUME LimitTypeOK, NEW c \in Callers, NEW k, NEW now,
           call[c] = [is |-> "waits", key |-> k, now |-> now]
    PROVE  k \in Keys /\ now \in 0..clock /\ now >= clock - Delay
<1>1. IsCall(call[c])
  BY Zenon DEF LimitTypeOK
<1>2. call[c] # NoCaller /\ call[c].key = k /\ call[c].now = now
  BY DEF NoCaller
<1>3. k \in Keys /\ now \in 0..clock /\ clock - now <= Delay
  BY <1>1, <1>2, Zenon DEF IsCall
<1> QED BY <1>3, LimitAssumption DEF LimitTypeOK

(* What a call leaves in a bucket that is kept: the time that passed, up to
   the capacity, less one interval if it was allowed. *)
LEMMA OutcomeKept ==
    ASSUME LimitTypeOK, NEW k \in Keys, NEW now \in 0..clock, NEW kept, k \in kept
    PROVE  LET out == Outcome(now, k, kept)
               full == credit[k] + (now - last[k])
           IN  /\ out.credit \in Int /\ out.credit <= Cap
               /\ \/ out.ok = TRUE /\ out.credit >= 0 /\ out.credit + Every <= full
                                    /\ out.credit + Every <= Cap
                  \/ out.ok = FALSE /\ out.credit = full
<1>1. credit[k] \in Int /\ last[k] \in Int /\ now \in Int /\ Cap \in Int /\ Every \in Int
  BY LimitAssumption DEF LimitTypeOK
<1>2. /\ Filled(now, k) \in Int /\ Filled(now, k) <= Cap
      /\ Filled(now, k) <= credit[k] + (now - last[k])
      /\ Filled(now, k) = Cap \/ Filled(now, k) = credit[k] + (now - last[k])
  BY <1>1 DEF Filled
<1>3. CASE Filled(now, k) < Every
  <2>1. Outcome(now, k, kept) = [ok |-> FALSE, credit |-> Filled(now, k)]
    BY <1>3, Zenon DEF Outcome
  <2>2. Filled(now, k) = credit[k] + (now - last[k])
    BY <1>1, <1>2, <1>3, LimitAssumption
  <2> QED BY <2>1, <2>2, <1>2
<1>4. CASE ~(Filled(now, k) < Every)
  <2>1. Outcome(now, k, kept) = [ok |-> TRUE, credit |-> Filled(now, k) - Every]
    BY <1>4, Zenon DEF Outcome
  <2> QED BY <2>1, <1>1, <1>2, <1>4, LimitAssumption
<1> QED BY <1>3, <1>4, Zenon

(* A call that finds no bucket starts a full one and takes a token. *)
LEMMA OutcomeNew ==
    ASSUME NEW k, NEW now, NEW kept, k \notin kept
    PROVE  Outcome(now, k, kept) = [ok |-> TRUE, credit |-> Cap - Every]
BY Zenon DEF Outcome

-----------------------------------------------------------------------------
(* The limiter starts with no buckets and nothing allowed. *)
LEMMA LimitInitInv == LimitInit => LimitInv
<1> SUFFICES ASSUME LimitInit PROVE LimitInv
  BY Zenon
<1>1. LimitTypeOK
  BY LimitAssumption DEF LimitInit, LimitTypeOK, IsCall, NoCaller
<1> QED BY <1>1 DEF LimitInit, LimitInv, Account, Forgotten, IdleBucketsGo

(* allow keeps the types; the capacity bounds every credit. *)
LEMMA AllowType ==
    ASSUME LimitTypeOK, NEW c \in Callers, NEW k \in Keys, NEW now \in 0..clock, Allow(c, k, now)
    PROVE  LimitTypeOK'
<1> DEFINE kept == Swept(now, k)
           out == Outcome(now, k, kept)
<1>1. out.credit \in Int /\ out.credit <= Cap /\ out.ok \in BOOLEAN
  <2>1. CASE k \in kept
    BY <2>1, OutcomeKept, Zenon
  <2>2. CASE k \notin kept
    <3>1. out = [ok |-> TRUE, credit |-> Cap - Every]
      BY <2>2, OutcomeNew, Zenon
    <3> QED BY <3>1, LimitAssumption
  <2> QED BY <2>1, <2>2, Zenon
<1>2. kept \subseteq m
  BY Zenon DEF Swept
<1>3. /\ m' = kept \cup {k}
      /\ lastSweep' \in {lastSweep, now}
      /\ credit' = [credit EXCEPT ![k] = out.credit]
      /\ last' = [last EXCEPT ![k] = now]
      /\ count' = [count EXCEPT ![k] = IF out.ok THEN @ + 1 ELSE @]
      /\ call' = [call EXCEPT ![c] = NoCaller]
      /\ clock' = clock /\ since' = since
  BY Zenon DEF Allow
<1> HIDE DEF kept, out
<1>4. \A d \in Callers : IsCall(call[d])'
  BY <1>3 DEF LimitTypeOK, IsCall, NoCaller
<1>5. credit' \in [Keys -> Int] /\ \A x \in Keys : credit'[x] <= Cap
  BY <1>1, <1>3, Zenon DEF LimitTypeOK
<1>6. last' \in [Keys -> 0..clock] /\ lastSweep' \in 0..clock /\ m' \subseteq Keys
  BY <1>2, <1>3, Zenon DEF LimitTypeOK
<1>7. count' \in [Keys -> Nat]
  BY <1>1, <1>3 DEF LimitTypeOK
<1> QED BY <1>3, <1>4, <1>5, <1>6, <1>7, Zenon DEF LimitTypeOK, Cap

(* allow keeps the account of the key it is called for. *)
LEMMA AllowOwn ==
    ASSUME LimitTypeOK, Account, NEW c \in Callers, NEW k \in Keys, NEW now \in 0..clock,
           Allow(c, k, now)
    PROVE  Kept(k)'
<1> DEFINE kept == Swept(now, k)
           out == Outcome(now, k, kept)
           W == count[k] * Every
<1>1. /\ credit'[k] = out.credit /\ last'[k] = now
      /\ count'[k] = IF out.ok THEN count[k] + 1 ELSE count[k]
      /\ clock' = clock /\ since' = since
  BY Zenon DEF Allow, LimitTypeOK
<1>2. now >= clock - Delay
  BY CallTime, Zenon DEF Allow
<1>3. /\ clock \in Nat /\ now \in Int /\ now <= clock /\ since[k] \in Int /\ since[k] <= clock
      /\ credit[k] \in Int /\ last[k] \in Int /\ count[k] \in Nat
      /\ Cap \in Int /\ Every \in Int /\ Every > 0 /\ Cap >= Every /\ Delay \in Nat
  BY LimitAssumption DEF LimitTypeOK
<1>4. W \in Nat /\ (count[k] + 1) * Every = W + Every /\ (count[k] = 0 => W = 0)
  BY <1>3, OneMore
<1>5. CASE k \in kept
  <2>1. Kept(k)
    BY <1>5, Zenon DEF Account, Swept
  <2>2. CASE out.ok
    <3>1. /\ out.credit \in Int /\ out.credit >= 0
          /\ out.credit + Every <= credit[k] + (now - last[k]) /\ out.credit + Every <= Cap
      BY <1>5, <2>2, OutcomeKept, Zenon
    <3>2. credit'[k] = out.credit /\ count'[k] * Every = W + Every
      BY <1>1, <1>4, <2>2, Zenon
    <3>3. count[k] > 0 => credit[k] + W <= Cap + (last[k] - (since[k] - Delay))
      BY <2>1, Zenon DEF Kept, Start
    <3> HIDE DEF kept, out, W
    <3>4. credit'[k] + count'[k] * Every <= Cap + (now - (since[k] - Delay))
      BY <1>2, <1>3, <1>4, <3>1, <3>2, <3>3
    <3> QED BY <1>1, <1>2, <1>3, <3>1, <3>2, <3>4 DEF Kept, Start, Cap
  <2>3. CASE ~out.ok
    <3>1. out.credit = credit[k] + (now - last[k])
      BY <1>5, <2>3, OutcomeKept, Zenon
    <3>2. credit'[k] = out.credit /\ count'[k] = count[k] /\ count'[k] * Every = W
      BY <1>1, <2>3, Zenon
    <3>3. /\ count[k] > 0 => credit[k] + W <= Cap + (last[k] - (since[k] - Delay))
          /\ credit[k] - last[k] >= -clock
      BY <2>1, Zenon DEF Kept, Start
    <3> HIDE DEF kept, out, W
    <3>4. count[k] > 0 =>
             credit'[k] + count'[k] * Every <= Cap + (now - (since[k] - Delay))
      BY <1>2, <1>3, <1>4, <3>1, <3>2, <3>3
    <3> QED BY <1>1, <1>2, <1>3, <3>1, <3>2, <3>3, <3>4 DEF Kept, Start, Cap
  <2> QED BY <2>2, <2>3, Zenon
<1>6. CASE k \notin kept
  <2>1. out = [ok |-> TRUE, credit |-> Cap - Every]
    BY <1>6, OutcomeNew, Zenon
  <2>2. credit'[k] = Cap - Every /\ count'[k] * Every = W + Every
    BY <1>1, <1>4, <2>1
  <2>3. count[k] > 0 => W <= (clock - Delay) - (since[k] - Delay)
    <3>1. CASE k \notin m
      BY <3>1, Zenon DEF Account, Forgotten, Start
    <3>2. CASE k \in m
      <4>1. Kept(k)
        BY <3>2, Zenon DEF Account
      <4>2. now - last[k] >= IdleTTL
        BY <1>3, <1>6, <3>2, LimitAssumption DEF Swept
      <4>3. /\ credit[k] >= -Delay
            /\ count[k] > 0 => credit[k] + W <= Cap + (last[k] - (since[k] - Delay))
        BY <4>1, Zenon DEF Kept, Start
      <4> HIDE DEF kept, out, W
      <4> QED BY <1>3, <1>4, <4>2, <4>3, LimitAssumption
    <3> QED BY <3>1, <3>2, Zenon
  <2> HIDE DEF kept, out, W
  <2>4. credit'[k] + count'[k] * Every <= Cap + (now - (since[k] - Delay))
    BY <1>2, <1>3, <1>4, <2>2, <2>3
  <2> QED BY <1>1, <1>2, <1>3, <2>2, <2>4 DEF Kept, Start, Cap
<1> QED BY <1>5, <1>6, Zenon

(* The sweep keeps the account of every other key, which it may forget. *)
LEMMA AllowOther ==
    ASSUME LimitTypeOK, Account, NEW c \in Callers, NEW k \in Keys, NEW now \in 0..clock,
           Allow(c, k, now), NEW x \in Keys, x # k
    PROVE  IF x \in m' THEN Kept(x)' ELSE Forgotten(x)'
<1> DEFINE W == count[x] * Every
<1>1. /\ credit'[x] = credit[x] /\ last'[x] = last[x] /\ count'[x] = count[x]
      /\ clock' = clock /\ since' = since /\ (x \in m' <=> x \in Swept(now, k))
  BY Zenon DEF Allow, LimitTypeOK
<1>2. CASE x \in Swept(now, k)
  <2>1. Kept(x)
    BY <1>2, Zenon DEF Account, Swept
  <2> QED BY <1>1, <1>2, <2>1, Zenon DEF Kept, Start, Cap
<1>3. CASE x \notin m
  <2>1. Forgotten(x) /\ x \notin Swept(now, k)
    BY <1>3, Zenon DEF Account, Swept
  <2> QED BY <1>1, <2>1, Zenon DEF Forgotten, Start
<1>4. CASE x \in m /\ x \notin Swept(now, k)
  <2>1. /\ clock \in Nat /\ now \in Int /\ now <= clock /\ since[x] \in Int
        /\ credit[x] \in Int /\ last[x] \in Int /\ Cap \in Int /\ Delay \in Nat
        /\ count[x] \in Nat /\ W \in Nat
    BY LimitAssumption, OneMore DEF LimitTypeOK
  <2>2. now - last[x] >= IdleTTL
    BY <1>4, <2>1, LimitAssumption DEF Swept
  <2>3. /\ credit[x] >= -Delay
        /\ count[x] > 0 => credit[x] + W <= Cap + (last[x] - (since[x] - Delay))
    BY <1>4, Zenon DEF Account, Kept, Start
  <2>4. count[x] > 0 => W <= (clock - Delay) - (since[x] - Delay)
    <3> HIDE DEF W
    <3> QED BY <2>1, <2>2, <2>3, LimitAssumption
  <2> QED BY <1>1, <1>4, <2>4, Zenon DEF Forgotten, Start
<1> QED BY <1>2, <1>3, <1>4, Zenon

(* A sweep leaves no bucket that was idle for IdleTTL, and no call is so late
   that its own bucket looks idle. *)
LEMMA AllowIdle ==
    ASSUME LimitTypeOK, IdleBucketsGo, NEW c \in Callers, NEW k \in Keys, NEW now \in 0..clock,
           Allow(c, k, now)
    PROVE  IdleBucketsGo'
<1>1. /\ clock \in Nat /\ now \in Int /\ lastSweep \in Int /\ lastSweep <= clock
      /\ IdleTTL \in Int /\ IdleTTL > Delay /\ Delay \in Nat /\ SweepInterval \in Nat
  BY LimitAssumption DEF LimitTypeOK
<1>2. now >= clock - Delay
  BY CallTime, Zenon DEF Allow
<1>3. /\ m' = Swept(now, k) \cup {k}
      /\ lastSweep' = IF now - lastSweep < SweepInterval THEN lastSweep ELSE now
      /\ last' = [last EXCEPT ![k] = now]
  BY Zenon DEF Allow
<1>4. last'[k] > lastSweep' - IdleTTL
  BY <1>1, <1>2, <1>3 DEF LimitTypeOK
<1>5. ASSUME NEW x \in m', x # k PROVE last'[x] > lastSweep' - IdleTTL
  <2>1. x \in m /\ last'[x] = last[x] /\ last[x] \in Int
    BY <1>3, <1>5 DEF Swept, LimitTypeOK
  <2>2. last[x] > lastSweep - IdleTTL
    BY <2>1, Zenon DEF IdleBucketsGo
  <2>3. now - lastSweep < SweepInterval \/ now - last[x] < IdleTTL
    BY <1>3, <1>5, Zenon DEF Swept
  <2> QED BY <1>1, <1>3, <2>1, <2>2, <2>3
<1> QED BY <1>4, <1>5, Zenon DEF IdleBucketsGo

(* Every step keeps the types, the accounts and the sweep's promise. *)
LEMMA LimitStep == LimitInv /\ [LimitNext]_limitVars => LimitInv'
<1> SUFFICES ASSUME LimitInv, [LimitNext]_limitVars PROVE LimitInv'
  BY Zenon
<1> USE DEF LimitInv
<1>1. CASE Tick
  <2>1. clock \in Nat /\ clock' = clock + 1 /\ UNCHANGED <<buckets, call, window>>
    BY <1>1, Zenon DEF Tick, LimitTypeOK
  <2>2. \A c \in Callers : IsCall(call[c])'
    <3> SUFFICES ASSUME NEW c \in Callers PROVE IsCall(call[c])'
      BY Zenon
    <3>1. CASE call[c] = NoCaller
      BY <2>1, <3>1, Zenon DEF IsCall, NoCaller
    <3>2. CASE call[c] # NoCaller
      <4>1. IsCall(call[c]) /\ clock + 1 - call[c].now <= Delay
        BY <1>1, <3>2, Zenon DEF Tick, LimitTypeOK
      <4>2. /\ call[c] = [is |-> "waits", key |-> call[c].key, now |-> call[c].now]
            /\ call[c].key \in Keys /\ call[c].now \in 0..clock
        BY <3>2, <4>1, Zenon DEF IsCall
      <4>3. call[c].now \in 0..(clock + 1)
        BY <2>1, <4>2
      <4> QED BY <2>1, <4>1, <4>2, <4>3 DEF IsCall
    <3> QED BY <3>1, <3>2, Zenon
  <2>3. LimitTypeOK'
    BY <2>1, <2>2 DEF LimitTypeOK, buckets, window, Cap
  <2>4. Account'
    <3> SUFFICES ASSUME NEW k \in Keys
                 PROVE  IF k \in m' THEN Kept(k)' ELSE Forgotten(k)'
      BY Zenon DEF Account
    <3>1. /\ credit[k] \in Int /\ last[k] \in Int /\ since[k] \in Int /\ Delay \in Nat
          /\ count[k] * Every \in Nat
      BY OneMore, LimitAssumption DEF LimitTypeOK
    <3>2. UNCHANGED <<m, credit, last, since, count>>
      BY <2>1, Zenon DEF buckets, window
    <3>3. CASE k \in m
      <4>1. Kept(k)
        BY <3>3, Zenon DEF Account
      <4> QED BY <2>1, <3>1, <3>2, <3>3, <4>1 DEF Kept, Start, Cap
    <3>4. CASE k \notin m
      <4>1. Forgotten(k)
        BY <3>4, Zenon DEF Account
      <4> QED BY <2>1, <3>1, <3>2, <3>4, <4>1 DEF Forgotten, Start
    <3> QED BY <3>3, <3>4, Zenon
  <2>5. IdleBucketsGo'
    BY <2>1, Zenon DEF IdleBucketsGo, buckets
  <2> QED BY <2>3, <2>4, <2>5, Zenon
<1>2. ASSUME NEW k \in Keys, StartWindow(k) PROVE LimitInv'
  <2>1. LimitTypeOK'
    BY <1>2 DEF StartWindow, buckets, LimitTypeOK, IsCall, Cap
  <2>2. Account'
    <3> SUFFICES ASSUME NEW x \in Keys
                 PROVE  IF x \in m' THEN Kept(x)' ELSE Forgotten(x)'
      BY Zenon DEF Account
    <3>1. UNCHANGED <<m, credit, last, clock>>
      BY <1>2, Zenon DEF StartWindow, buckets
    <3>2. count'[x] = 0 \/ (count'[x] = count[x] /\ since'[x] = since[x])
      BY <1>2, Zenon DEF StartWindow, LimitTypeOK
    <3>3. IF x \in m THEN Kept(x) ELSE Forgotten(x)
      BY Zenon DEF Account
    <3> QED BY <3>1, <3>2, <3>3 DEF Kept, Forgotten, Start, Cap
  <2>3. IdleBucketsGo'
    BY <1>2, Zenon DEF StartWindow, buckets, IdleBucketsGo
  <2> QED BY <2>1, <2>2, <2>3, Zenon
<1>3. ASSUME NEW c \in Callers, NEW k \in Keys, ReadClock(c, k) PROVE LimitInv'
  <2>1. UNCHANGED <<clock, m, credit, last, lastSweep, since, count>>
    BY <1>3, Zenon DEF ReadClock, buckets, window
  <2>2. call' = [call EXCEPT ![c] = [is |-> "waits", key |-> k, now |-> clock]]
    BY <1>3, Zenon DEF ReadClock
  <2>3. \A d \in Callers : IsCall(call[d])'
    BY <2>1, <2>2, LimitAssumption DEF LimitTypeOK, IsCall
  <2>4. LimitTypeOK'
    BY <2>1, <2>3, Zenon DEF LimitTypeOK, Cap
  <2> QED BY <2>1, <2>4, Zenon DEF Account, Kept, Forgotten, Start, IdleBucketsGo, Cap
<1>4. ASSUME NEW c \in Callers, NEW k \in Keys, NEW now \in 0..clock, Allow(c, k, now)
      PROVE  LimitInv'
  <2>1. k \in m'
    BY <1>4, Zenon DEF Allow
  <2>2. Account'
    BY <1>4, <2>1, AllowOwn, AllowOther, Zenon DEF Account
  <2> QED BY <1>4, <2>2, AllowType, AllowIdle, Zenon
<1>5. CASE UNCHANGED limitVars
  <2>1. UNCHANGED <<clock, m, credit, last, lastSweep, call, since, count>>
    BY <1>5, Zenon DEF limitVars, buckets, window
  <2> QED BY <2>1, Zenon DEF LimitTypeOK, IsCall, Account, Kept, Forgotten, Start, IdleBucketsGo, Cap
<1> QED BY <1>1, <1>2, <1>3, <1>4, <1>5, Zenon DEF LimitNext

-----------------------------------------------------------------------------
(* Types, and a credit that never exceeds the capacity. *)
THEOREM LimiterTypeCorrect == LimitSpec => []LimitTypeOK
<1>1. LimitInv => LimitTypeOK
  BY Zenon DEF LimitInv
<1> QED BY <1>1, LimitInitInv, LimitStep, PTL DEF LimitSpec

(* rateLimiter.allow: in every window of time a key is allowed its burst and
   one call per interval, give or take the wait for the mutex, for every
   burst, rate and sweep interval, although calls are processed out of order
   and idle buckets are forgotten. *)
THEOREM RateIsBounded == LimitSpec => []RateBound
<1>1. LimitInv => RateBound
  <2> SUFFICES ASSUME LimitInv, NEW k \in Keys
               PROVE  count[k] * Every <= Cap + (clock - since[k]) + Delay
    BY Zenon DEF RateBound
  <2> DEFINE W == count[k] * Every
  <2>1. /\ clock \in Nat /\ since[k] \in Int /\ since[k] <= clock /\ credit[k] \in Int
        /\ last[k] \in Int /\ count[k] \in Nat /\ W \in Nat /\ (count[k] = 0 => W = 0)
        /\ Cap \in Nat /\ Delay \in Nat
    BY OneMore, LimitAssumption DEF LimitInv, LimitTypeOK
  <2>2. CASE k \in m
    <3>1. /\ credit[k] - last[k] >= -clock
          /\ count[k] > 0 => credit[k] + W <= Cap + (last[k] - (since[k] - Delay))
      BY <2>2, Zenon DEF LimitInv, Account, Kept, Start
    <3> HIDE DEF W
    <3>2. W <= Cap + (clock - since[k]) + Delay
      BY <2>1, <3>1
    <3> QED BY <3>2, Zenon DEF W
  <2>3. CASE k \notin m
    <3>1. count[k] > 0 => W <= (clock - Delay) - (since[k] - Delay)
      BY <2>3, Zenon DEF LimitInv, Account, Forgotten, Start
    <3> HIDE DEF W
    <3>2. W <= Cap + (clock - since[k]) + Delay
      BY <2>1, <3>1
    <3> QED BY <3>2, Zenon DEF W
  <2> QED BY <2>2, <2>3, Zenon
<1> QED BY <1>1, LimitInitInv, LimitStep, PTL DEF LimitSpec

(* sweepLocked: after a sweep no bucket is left that had been idle for
   IdleTTL, and none becomes that old unswept while calls come. *)
THEOREM IdleBucketsAreForgotten == LimitSpec => []IdleBucketsGo
<1>1. LimitInv => IdleBucketsGo
  BY Zenon DEF LimitInv
<1> QED BY <1>1, LimitInitInv, LimitStep, PTL DEF LimitSpec

(* The limiter limits although it forgets, and forgets although calls come out
   of order (allow, sweepLocked). *)
THEOREM BucketsAreSound == LimitSpec => []BucketsSound
<1>1. RateBound /\ IdleBucketsGo => BucketsSound
  BY Zenon DEF BucketsSound
<1> QED BY <1>1, RateIsBounded, IdleBucketsAreForgotten, PTL

-----------------------------------------------------------------------------
(* A call of Herdr *)

(* Whom a frame on c's connection is about. *)
About(c, f) == IF f.id = "" THEN c ELSE f.id

(* A success frame on the wire is about an applied request. *)
WireTrue(c) == \A f \in wire[c] : f.body = "result" => applied[About(c, f)]

(* The connection and the goroutine exist between dialling and returning. *)
Stages(c) ==
    /\ pc[c] = "start" => conn[c] = "none" /\ worker[c] = "none"
    /\ pc[c] = "returned" => conn[c] \in {"none", "closed"} /\ worker[c] \in {"none", "gone"}

OwnSuccess(c) == outcome[c] = "ok" => applied[c]

IInv == TypeOK /\ \A c \in Calls : WireTrue(c) /\ Stages(c) /\ OwnSuccess(c)

(* Nothing has been asked of Herdr yet. *)
LEMMA InitIInv == Init => IInv
  BY DEF Init, IInv, TypeOK, WireTrue, Stages, OwnSuccess, None

(* What decoding a frame that is on the wire can say. *)
LEMMA DecodeIsHonest ==
    ASSUME IInv, NEW c \in Calls, NEW f \in wire[c]
    PROVE  /\ decodeResponse(c, f) \in Outcomes
           /\ decodeResponse(c, f) = "ok" => applied[c]
<1>1. f \in Frames BY Zenon DEF IInv, TypeOK
<1>2. decodeResponse(c, f) \in Outcomes BY Zenon DEF decodeResponse, Outcomes
<1>3. ASSUME decodeResponse(c, f) = "ok" PROVE applied[c]
  <2>1. f.body \notin {"malformed", "error", "empty", "other_type"} /\ f.id \in {"", c}
    BY <1>3, Zenon DEF decodeResponse
  <2>2. f.body = "result" BY <1>1, <2>1, Zenon DEF Frames
  <2>3. About(c, f) = c BY <2>1, Zenon DEF About
  <2> QED BY <2>2, <2>3, Zenon DEF IInv, WireTrue
<1> QED BY <1>2, <1>3, Zenon

(* A step of a call that leaves Herdr's side alone keeps the invariant if the
   call's own part of it still holds. *)
LEMMA CallFrame ==
    ASSUME IInv, NEW c \in Calls, TypeOK', UNCHANGED <<wire, applied>>,
           \A d \in Calls \ {c} : /\ pc'[d] = pc[d] /\ conn'[d] = conn[d]
                                  /\ worker'[d] = worker[d] /\ outcome'[d] = outcome[d],
           Stages(c)', OwnSuccess(c)'
    PROVE  IInv'
<1>1. \A d \in Calls : WireTrue(d)' BY Zenon DEF IInv, WireTrue, About
<1>2. \A d \in Calls \ {c} : Stages(d)' /\ OwnSuccess(d)' BY Zenon DEF IInv, Stages, OwnSuccess
<1> QED BY <1>1, <1>2, Zenon DEF IInv

(* The steps of the caller. *)
LEMMA CallerKeeps == ASSUME IInv, NEW c \in Calls, Caller(c) PROVE IInv'
<1>0. TypeOK /\ Stages(c) /\ OwnSuccess(c) BY Zenon DEF IInv
<1>1. CASE Dial(c)
  <2>1. TypeOK' BY <1>0, <1>1, Zenon DEF Dial, Returns, TypeOK, Outcomes
  <2>2. Stages(c)' /\ OwnSuccess(c)'
    BY <1>0, <1>1, Zenon DEF Dial, Returns, TypeOK, Stages, OwnSuccess
  <2> QED BY <1>0, <1>1, <2>1, <2>2, CallFrame DEF Dial, Returns, TypeOK
<1>2. CASE SelectDone(c)
  <2>1. PICK why \in Outcomes : Returns(c, why) /\ (why = "ok" => applied[c])
    <3>1. CASE worker[c] = "frame"
      <4>1. PICK f \in wire[c] : Returns(c, decodeResponse(c, f))
        BY <1>2, <3>1, Zenon DEF SelectDone
      <4> QED BY <4>1, DecodeIsHonest, Zenon
    <3>2. CASE worker[c] # "frame" BY <1>2, <3>2, Zenon DEF SelectDone, Outcomes
    <3> QED BY <3>1, <3>2, Zenon
  <2>2. TypeOK' BY <1>0, <1>2, <2>1, Zenon DEF SelectDone, Returns, TypeOK
  <2>3. Stages(c)' /\ OwnSuccess(c)'
    BY <1>0, <1>2, <2>1, Zenon DEF SelectDone, Returns, TypeOK, Stages, OwnSuccess
  <2> QED BY <1>0, <1>2, <2>1, <2>2, <2>3, CallFrame, Zenon DEF SelectDone, Returns, TypeOK
<1>3. CASE GiveUp(c)
  <2>1. TypeOK' BY <1>0, <1>3, Zenon DEF GiveUp, TypeOK
  <2>2. Stages(c)' /\ OwnSuccess(c)'
    BY <1>0, <1>3, Zenon DEF GiveUp, TypeOK, Stages, OwnSuccess
  <2> QED BY <1>0, <1>3, <2>1, <2>2, CallFrame, Zenon DEF GiveUp, TypeOK
<1>4. CASE Reaped(c)
  <2>1. PICK why \in {"canceled", "timeout"} : Returns(c, why) BY <1>4, Zenon DEF Reaped
  <2>2. TypeOK' BY <1>0, <1>4, <2>1, Zenon DEF Reaped, Returns, TypeOK, Outcomes
  <2>3. Stages(c)' /\ OwnSuccess(c)'
    BY <1>0, <1>4, <2>1, Zenon DEF Reaped, Returns, TypeOK, Stages, OwnSuccess
  <2> QED BY <1>0, <1>4, <2>1, <2>2, <2>3, CallFrame, Zenon DEF Reaped, Returns, TypeOK
<1> QED BY <1>1, <1>2, <1>3, <1>4, Zenon DEF Caller

(* The steps of the goroutine. *)
LEMMA WorkerKeeps == ASSUME IInv, NEW c \in Calls, Worker(c) PROVE IInv'
<1>0. TypeOK /\ Stages(c) /\ OwnSuccess(c) BY Zenon DEF IInv
<1>1. PICK w \in {"read", "frame", "error"} : worker' = [worker EXCEPT ![c] = w]
  BY Zenon DEF Worker, Write, ReadFrame, WorkerFails
<1>2. /\ worker[c] \in {"write", "read"}
      /\ UNCHANGED <<pc, conn, wire, applied, ctx, timer, outcome>>
      /\ received' = received \/ received' = [received EXCEPT ![c] = TRUE]
  BY Zenon DEF Worker, Write, ReadFrame, WorkerFails
<1>3. TypeOK' BY <1>0, <1>1, <1>2, Zenon DEF TypeOK
<1>4. Stages(c)' /\ OwnSuccess(c)' BY <1>0, <1>1, <1>2, Zenon DEF TypeOK, Stages, OwnSuccess
<1> QED BY <1>0, <1>1, <1>2, <1>3, <1>4, CallFrame, Zenon DEF TypeOK

(* Herdr's steps. *)
LEMMA HerdrKeeps ==
    ASSUME IInv, NEW c \in Calls, HerdrApplies(c) \/ HerdrReplies(c) \/ HerdrBreaks(c)
    PROVE  IInv'
<1>0. TypeOK BY Zenon DEF IInv
<1>1. CASE HerdrApplies(c)
  <2>1. \A d \in Calls : applied[d] => applied'[d] BY <1>0, <1>1, Zenon DEF HerdrApplies, TypeOK
  <2>2. TypeOK' BY <1>0, <1>1, Zenon DEF HerdrApplies, TypeOK
  <2>3. ASSUME NEW d \in Calls PROVE WireTrue(d)'
    <3>1. \A f \in Frames : About(d, f) \in Calls BY Zenon DEF Frames, About
    <3>2. wire[d] \subseteq Frames BY <1>0, Zenon DEF TypeOK
    <3> QED BY <1>1, <2>1, <3>1, <3>2, Zenon DEF HerdrApplies, IInv, WireTrue, About
  <2>4. \A d \in Calls : Stages(d)' /\ OwnSuccess(d)'
    BY <1>1, <2>1, Zenon DEF HerdrApplies, IInv, Stages, OwnSuccess
  <2> QED BY <2>2, <2>3, <2>4, Zenon DEF IInv
<1>2. CASE HerdrReplies(c)
  <2>1. PICK f \in Frames : /\ f.body = "result" => applied[About(c, f)]
                            /\ wire' = [wire EXCEPT ![c] = {f}]
    BY <1>2, Zenon DEF HerdrReplies, About
  <2>2. TypeOK' BY <1>0, <1>2, <2>1 DEF HerdrReplies, TypeOK
  <2>3. ASSUME NEW d \in Calls PROVE WireTrue(d)'
    <3>1. applied' = applied BY <1>2, Zenon DEF HerdrReplies
    <3>2. CASE d = c
      <4>1. wire'[d] = {f} BY <1>0, <2>1, <3>2, Zenon DEF TypeOK
      <4> QED BY <2>1, <3>1, <3>2, <4>1, Zenon DEF WireTrue, About
    <3>3. CASE d # c
      <4>1. wire'[d] = wire[d] BY <1>0, <2>1, <3>3, Zenon DEF TypeOK
      <4> QED BY <3>1, <4>1, Zenon DEF IInv, WireTrue, About
    <3> QED BY <3>2, <3>3, Zenon
  <2>4. \A d \in Calls : Stages(d)' /\ OwnSuccess(d)'
    BY <1>2, Zenon DEF HerdrReplies, IInv, Stages, OwnSuccess
  <2> QED BY <2>2, <2>3, <2>4, Zenon DEF IInv
<1>3. CASE HerdrBreaks(c)
  <2>1. TypeOK' BY <1>0, <1>3, Zenon DEF HerdrBreaks, TypeOK
  <2>2. Stages(c)' /\ OwnSuccess(c)'
    BY <1>0, <1>3, Zenon DEF HerdrBreaks, IInv, TypeOK, Stages, OwnSuccess
  <2> QED BY <1>0, <1>3, <2>1, <2>2, CallFrame, Zenon DEF HerdrBreaks, TypeOK
<1> QED BY <1>1, <1>2, <1>3, Zenon

(* Every step keeps the invariant. *)
LEMMA NextIInv == IInv /\ [Next]_vars => IInv'
<1> SUFFICES ASSUME IInv, [Next]_vars PROVE IInv' BY Zenon
<1>0. TypeOK BY Zenon DEF IInv
<1>1. ASSUME NEW c \in Calls, ContextEnds(c) \/ Timeout(c) PROVE IInv'
  <2>1. TypeOK' BY <1>0, <1>1 DEF ContextEnds, Timeout, TypeOK
  <2>2. Stages(c)' /\ OwnSuccess(c)' BY <1>1, Zenon DEF ContextEnds, Timeout, IInv, Stages, OwnSuccess
  <2> QED BY <1>1, <2>1, <2>2, CallFrame, Zenon DEF ContextEnds, Timeout
<1>2. CASE UNCHANGED vars
  BY <1>2, Zenon DEF vars, IInv, TypeOK, WireTrue, Stages, OwnSuccess, About
<1> QED BY <1>1, <1>2, CallerKeeps, WorkerKeeps, HerdrKeeps, Zenon DEF Next

(* The invariant holds throughout. *)
LEMMA Invariance == Spec => []IInv
  BY InitIInv, NextIInv, PTL DEF Spec

(* call returns no error only for a request Herdr carried out, whoever's
   answer comes on the connection: SuccessIsOwn, of decodeResponse. *)
THEOREM SuccessesAreOwn == Spec => []SuccessIsOwn
<1>1. IInv => SuccessIsOwn BY Zenon DEF IInv, OwnSuccess, SuccessIsOwn
<1> QED BY <1>1, Invariance, PTL

(* A call that has returned, on whichever path, has closed its connection and
   reaped its goroutine: NothingLeaks, of Client.call. *)
THEOREM CallsLeaveNothing == Spec => []NothingLeaks
<1>1. IInv => NothingLeaks BY Zenon DEF IInv, Stages, NothingLeaks
<1> QED BY <1>1, Invariance, PTL

(* A call that returns reports its own outcome and leaves nothing behind, for any
   number of concurrent calls (Client.call, decodeResponse). *)
THEOREM CallsAreSound == Spec => []CallSound
<1>1. SuccessIsOwn /\ NothingLeaks => CallSound
  BY Zenon DEF CallSound
<1> QED BY <1>1, SuccessesAreOwn, CallsLeaveNothing, PTL

-----------------------------------------------------------------------------
(* The routes into one pane. *)

(* A request that has begun. *)
Begun == [at : {"nonce", "guard", "find", "read", "launch", "ok", "refused", "failed"},
          kind : {"run", "pane", "attach", "takeover"}, s : Sessions, g : Nat, n : Confirmations,
          stale : BOOLEAN, run : Nat, gen : Nat, out : Nat]

(* Types; generations, occupants and lives of the pane are not bounded. *)
RouteTypes ==
    /\ occ \in Nat /\ fresh \in Nat
    /\ known \in [occ : Nat, gen : Nat, life : Nat]
    /\ nonce \in [Confirmations -> [s : Sessions \cup {"none", "used", "expired"}, g : Nat]]
    /\ req \in [Requests -> {Idle} \cup Begun]

(* RoutesGuarded is not inductive: what a late step may answer was settled by the
   guard.  While the engine has not forgotten the pane its generation only grows, so
   a stale request stays behind it; and a confirmation is spent by the request it lets
   pass. *)
RequestOK(r) ==
    /\ req[r].at \in {"read", "ok"} /\ req[r].kind = "run" => req[r].gen = req[r].g
    /\ req[r].stale /\ known.life = 0 => req[r].g < known.gen
    /\ req[r].at \in {"find", "read", "launch", "ok"} /\ req[r].kind # "pane" =>
          ~(req[r].stale /\ known.life = 0)
    /\ req[r].kind = "takeover" => req[r].at \notin {"find", "read"}
    /\ req[r].kind = "run" => req[r].at # "launch"
    /\ Admitted(r) => nonce[req[r].n] = Scope("used", 0)

RouteInv ==
    /\ RouteTypes
    /\ \A r \in Requests : req[r] # Idle => RequestOK(r)
    /\ TakeoverOnce

(* Nobody has asked. *)
LEMMA RouteInitInv == RouteInit => RouteInv
<1> SUFFICES ASSUME RouteInit PROVE RouteInv
  BY Zenon
<1>1. \A r \in Requests : req[r] = Idle
  BY Zenon DEF RouteInit
<1>2. RouteTypes
  BY Zenon DEF RouteInit, RouteTypes, Unminted, Scope
<1>3. \A r \in Requests : ~Admitted(r)
  BY <1>1 DEF Admitted, Idle
<1> QED BY <1>1, <1>2, <1>3, Zenon DEF RouteInv, TakeoverOnce

(* A request that has begun is not idle. *)
LEMMA IdleApart == \A q \in Begun : q # Idle /\ q.at # "idle"
BY DEF Begun, Idle

(* One step per action: Herdr, the engine, the steps of a request, confirmations. *)
LEMMA RouteStep == RouteInv /\ [RouteNext]_routeVars => RouteInv'
<1> SUFFICES ASSUME RouteInv, [RouteNext]_routeVars PROVE RouteInv'
  BY Zenon
<1>1. CASE Replace
  <2>1. occ' \in Nat /\ fresh' \in Nat /\ UNCHANGED <<known, nonce, req>>
    BY <1>1 DEF Replace, RouteInv, RouteTypes
  <2> QED BY <2>1, Zenon DEF RouteInv, RouteTypes, RequestOK, Admitted, TakeoverOnce
<1>2. CASE Poll
  <2>1. /\ known' \in [occ : Nat, gen : Nat, life : Nat]
        /\ known'.life = 0 => known.life = 0 /\ known'.gen >= known.gen
        /\ UNCHANGED <<occ, fresh, nonce, req>>
    <3>1. known \in [occ : Nat, gen : Nat, life : Nat] /\ occ \in Nat
      BY Zenon DEF RouteInv, RouteTypes
    <3>2. CASE occ = known.occ
      <4>1. known' = known /\ UNCHANGED <<occ, fresh, nonce, req>>
        BY <1>2, <3>2, Zenon DEF Poll
      <4>2. known' \in [occ : Nat, gen : Nat, life : Nat]
        BY <3>1, <4>1, Zenon
      <4>3. known'.life = 0 => known.life = 0 /\ known'.gen >= known.gen
        BY <3>1, <4>1
      <4> QED BY <4>1, <4>2, <4>3, Zenon
    <3>3. CASE occ # known.occ /\ occ = 0
      <4>1. known' = [occ |-> 0, gen |-> 0, life |-> known.life + 1] /\ UNCHANGED <<occ, fresh, nonce, req>>
        BY <1>2, <3>3, Zenon DEF Poll
      <4>2. known' \in [occ : Nat, gen : Nat, life : Nat]
        BY <3>1, <4>1
      <4>3. known'.life = known.life + 1 /\ known.life \in Nat /\ known.gen \in Nat
        BY <3>1, <4>1, Zenon
      <4> QED BY <4>1, <4>2, <4>3
    <3>4. CASE occ # known.occ /\ occ # 0
      <4>1. known' = [occ |-> occ, gen |-> known.gen + 1, life |-> known.life] /\ UNCHANGED <<occ, fresh, nonce, req>>
        BY <1>2, <3>4, Zenon DEF Poll
      <4>2. known' \in [occ : Nat, gen : Nat, life : Nat]
        BY <3>1, <4>1
      <4>3. known'.life = known.life /\ known'.gen = known.gen + 1 /\ known.life \in Nat /\ known.gen \in Nat
        BY <3>1, <4>1, Zenon
      <4> QED BY <4>1, <4>2, <4>3
    <3> QED BY <3>2, <3>3, <3>4, Zenon
  <2>2. RouteTypes' /\ TakeoverOnce'
    BY <2>1, Zenon DEF RouteInv, RouteTypes, TakeoverOnce, Admitted
  <2>3. ASSUME NEW r \in Requests, req[r] # Idle PROVE RequestOK(r)'
    <3>1. RequestOK(r) /\ req[r].g \in Nat /\ known.gen \in Nat
      BY <2>3, Zenon DEF RouteInv, RouteTypes, Begun
    <3> QED BY <2>1, <2>3, <3>1 DEF RequestOK, Admitted
  <2> QED BY <2>1, <2>2, <2>3, Zenon DEF RouteInv
(* One request changes, the engine and the other requests do not. *)
<1>3. ASSUME NEW r \in Requests, req'[r] \in Begun,
             req' \in [Requests -> {Idle} \cup Begun],
             \A t \in Requests : t # r => req'[t] = req[t],
             UNCHANGED <<occ, fresh, known, nonce>>, RequestOK(r)',
             Admitted(r)' => Admitted(r) /\ req'[r].n = req[r].n
      PROVE  RouteInv'
  <2>1. RouteTypes'
    BY <1>3, Zenon DEF RouteInv, RouteTypes, Idle
  <2>2. ASSUME NEW t \in Requests, t # r, req'[t] # Idle PROVE RequestOK(t)'
    BY <1>3, <2>2, Zenon DEF RouteInv, RequestOK, Admitted
  <2>3. \A t \in Requests : Admitted(t)' => Admitted(t) /\ req'[t].n = req[t].n
    BY <1>3, Zenon DEF Admitted
  <2>4. TakeoverOnce'
    BY <2>3, Zenon DEF RouteInv, TakeoverOnce
  <2>5. Idle' = Idle
    BY Zenon DEF Idle
  <2> QED BY <1>3, <2>1, <2>2, <2>4, <2>5, Zenon DEF RouteInv
<1>4. ASSUME NEW r \in Requests, NEW kind \in {"run", "pane", "attach", "takeover"},
             NEW s \in Sessions, NEW g \in 1 .. known.gen, NEW n \in Confirmations,
             Begin(r, kind, s, g, n)
      PROVE  RouteInv'
  <2> DEFINE q == [at |-> IF kind = "takeover" THEN "nonce"
                          ELSE IF kind = "pane" THEN "read" ELSE "guard",
                   kind |-> kind, s |-> s, g |-> g, n |-> n,
                   stale |-> g # known.gen, run |-> 0, gen |-> 0, out |-> 0]
  <2>0. known.gen \in Nat /\ g \in Nat /\ g <= known.gen
    BY DEF RouteInv, RouteTypes
  <2>1. /\ q \in Begun /\ q.kind = kind /\ q.g = g /\ (q.stale => g # known.gen)
        /\ kind = "takeover" => q.at = "nonce"
        /\ kind = "pane" => q.at = "read"
        /\ kind \in {"run", "attach"} => q.at = "guard"
    BY <2>0, Zenon DEF Begun
  <2>2. req' = [req EXCEPT ![r] = q] /\ UNCHANGED <<occ, fresh, known, nonce>>
    BY <1>4, Zenon DEF Begin
  <2> HIDE DEF q
  <2>3. /\ req'[r] = q /\ req' \in [Requests -> {Idle} \cup Begun]
        /\ \A t \in Requests : t # r => req'[t] = req[t]
    BY <2>1, <2>2, Zenon DEF RouteInv, RouteTypes
  <2>4. RequestOK(r)' /\ ~Admitted(r)'
    BY <2>0, <2>1, <2>2, <2>3 DEF RequestOK, Admitted
  <2> QED BY <1>3, <2>1, <2>2, <2>3, <2>4, Zenon
(* What a request that has begun keeps through its later steps. *)
<1>5. ASSUME NEW r \in Requests, req[r].at # "idle"
      PROVE  req[r] \in Begun /\ req[r] # Idle /\ RequestOK(r)
  BY <1>5 DEF RouteInv, RouteTypes, Idle
<1>6. ASSUME NEW r \in Requests, Guard(r) PROVE RouteInv'
  <2>1. req[r].at = "guard" /\ UNCHANGED <<occ, fresh, known, nonce>>
    BY <1>6, Zenon DEF Guard
  <2>2. req[r] \in Begun /\ RequestOK(r)
    BY <1>5, <2>1, Zenon
  <2>3. known.occ \in Nat /\ known.gen \in Nat
    BY Zenon DEF RouteInv, RouteTypes
  <2> DEFINE at == IF ~Passes(r) THEN "refused"
                   ELSE IF req[r].kind = "run" THEN "find" ELSE "launch"
             q == [req[r] EXCEPT !.at = at, !.run = known.occ]
  <2>4. req' = [req EXCEPT ![r].at = at, ![r].run = known.occ]
    BY <1>6, Zenon DEF Guard
  <2>5. /\ at \in {"refused", "find", "launch"}
        /\ at # "refused" => known.gen = req[r].g
        /\ at = "find" => req[r].kind = "run"
        /\ at = "launch" => req[r].kind # "run"
    BY Zenon DEF Passes
  <2> HIDE DEF at
  <2>6. /\ q \in Begun /\ q.at = at /\ q.kind = req[r].kind /\ q.g = req[r].g
        /\ q.stale = req[r].stale /\ q.n = req[r].n /\ q.gen = req[r].gen
    BY <2>2, <2>3, <2>5, Zenon DEF Begun
  <2>7. /\ req'[r] = q /\ req' \in [Requests -> {Idle} \cup Begun]
        /\ \A t \in Requests : t # r => req'[t] = req[t]
    BY <2>4, <2>6, Zenon DEF RouteInv, RouteTypes
  <2> HIDE DEF q
  <2>8. RequestOK(r)'
    <3>1. q.g \in Nat /\ q.kind \in {"run", "pane", "attach", "takeover"} /\ q.gen \in Nat
      BY <2>6, Zenon DEF Begun
    <3>2. q.stale /\ known.life = 0 => q.g < known.gen
      BY <2>2, <2>6, Zenon DEF RequestOK
    <3>3. q.at # "refused" => known.gen = q.g
      BY <2>5, <2>6, Zenon
    <3>4. Admitted(r)' => Admitted(r) /\ nonce[q.n] = Scope("used", 0)
      BY <2>1, <2>2, <2>6, <2>7, Zenon DEF Admitted, RequestOK
    <3>5. q.at \in {"refused", "find", "launch"} /\ UNCHANGED <<known, nonce>>
      BY <2>1, <2>5, <2>6, Zenon
    <3>6. q.at # "refused" => ~(q.stale /\ known.life = 0)
      BY <2>3, <3>1, <3>2, <3>3
    <3>7. (q.kind = "takeover" => q.at # "find") /\ (q.kind = "run" => q.at # "launch")
      BY <2>5, <2>6, Zenon
    <3>8. req'[r] = q
      BY <2>7, Zenon
    <3> QED BY <3>2, <3>4, <3>5, <3>6, <3>7, <3>8, Zenon DEF RequestOK
  <2>9. Admitted(r)' => Admitted(r) /\ req'[r].n = req[r].n
    BY <2>1, <2>6, <2>7, Zenon DEF Admitted
  <2> QED BY <1>3, <2>1, <2>6, <2>7, <2>8, <2>9, Zenon
<1>7. ASSUME NEW r \in Requests, FindRun(r) PROVE RouteInv'
  <2>1. req[r].at = "find" /\ UNCHANGED <<occ, fresh, known, nonce>>
    BY <1>7, Zenon DEF FindRun
  <2>2. req[r] \in Begun /\ RequestOK(r)
    BY <1>5, <2>1, Zenon
  <2>3. known.occ \in Nat /\ known.gen \in Nat
    BY Zenon DEF RouteInv, RouteTypes
  <2> DEFINE q == IF known.occ \notin agents \/ known.gen # req[r].g
                  THEN [req[r] EXCEPT !.at = "refused"]
                  ELSE [req[r] EXCEPT !.at = "read", !.run = known.occ, !.gen = known.gen]
  <2>4. req' = [req EXCEPT ![r] = q]
    BY <1>7, Zenon DEF FindRun
  <2>5. /\ q \in Begun /\ q.at \in {"refused", "read"} /\ q.kind = req[r].kind /\ q.g = req[r].g
        /\ q.stale = req[r].stale /\ q.n = req[r].n
        /\ q.at = "read" => q.gen = q.g
    <3>1. CASE known.occ \notin agents \/ known.gen # req[r].g
      BY <2>2, <3>1, Zenon DEF Begun
    <3>2. CASE ~(known.occ \notin agents \/ known.gen # req[r].g)
      BY <2>2, <2>3, <3>2, Zenon DEF Begun
    <3> QED BY <3>1, <3>2, Zenon
  <2> HIDE DEF q
  <2>6. /\ req'[r] = q /\ req' \in [Requests -> {Idle} \cup Begun]
        /\ \A t \in Requests : t # r => req'[t] = req[t]
    BY <2>4, <2>5, Zenon DEF RouteInv, RouteTypes
  <2>7. RequestOK(r)' /\ ~Admitted(r)'
    BY <2>1, <2>2, <2>5, <2>6, Zenon DEF RequestOK, Admitted
  <2> QED BY <1>3, <2>1, <2>5, <2>6, <2>7, Zenon
<1>8. ASSUME NEW r \in Requests, ReadPane(r) \/ Launch(r) PROVE RouteInv'
  <2>1. req[r].at \in {"read", "launch"} /\ UNCHANGED <<occ, fresh, known, nonce>>
    BY <1>8, Zenon DEF ReadPane, Launch
  <2>2. req[r] \in Begun /\ RequestOK(r) /\ occ \in Nat
    BY <1>5, <2>1, Zenon DEF RouteInv, RouteTypes
  <2>3. \/ req' = [req EXCEPT ![r].at = "ok", ![r].out = occ]
        \/ req' = [req EXCEPT ![r].at = "failed"]
    BY <1>8, Zenon DEF ReadPane, Launch
  <2>4. /\ req'[r] \in Begun /\ req'[r].at \in {"ok", "failed"} /\ req'[r].kind = req[r].kind
        /\ req'[r].g = req[r].g /\ req'[r].stale = req[r].stale /\ req'[r].n = req[r].n
        /\ req'[r].gen = req[r].gen
    <3>1. CASE req' = [req EXCEPT ![r].at = "ok", ![r].out = occ]
      <4>1. req'[r] = [req[r] EXCEPT !.at = "ok", !.out = occ]
        BY <3>1, Zenon DEF RouteInv, RouteTypes
      <4> QED BY <2>2, <4>1, Zenon DEF Begun
    <3>2. CASE req' = [req EXCEPT ![r].at = "failed"]
      <4>1. req'[r] = [req[r] EXCEPT !.at = "failed"]
        BY <3>2, Zenon DEF RouteInv, RouteTypes
      <4> QED BY <2>2, <4>1, Zenon DEF Begun
    <3> QED BY <2>3, <3>1, <3>2, Zenon
  <2>5. /\ \A t \in Requests : t # r => req'[t] = req[t]
        /\ req' \in [Requests -> {Idle} \cup Begun]
    BY <2>3, <2>4, Zenon DEF RouteInv, RouteTypes
  <2>6. Admitted(r)' => Admitted(r) /\ req'[r].n = req[r].n
    BY <2>1, <2>2, <2>4, Zenon DEF Admitted, RequestOK
  <2>7. RequestOK(r)'
    BY <2>1, <2>2, <2>4, <2>6, Zenon DEF RequestOK, Admitted
  <2> QED BY <1>3, <2>1, <2>4, <2>5, <2>6, <2>7, Zenon
<1>9. ASSUME NEW r \in Requests, Consume(r) PROVE RouteInv'
  <2> DEFINE n == req[r].n
             at == IF Granted(r) THEN "guard" ELSE "refused"
             q == [req[r] EXCEPT !.at = at]
  <2>1. req[r].at = "nonce" /\ UNCHANGED <<occ, fresh, known>>
    BY <1>9, Zenon DEF Consume
  <2>2. req[r] \in Begun /\ RequestOK(r) /\ n \in Confirmations
    BY <1>5, <2>1, Zenon DEF Begun
  <2>3. nonce' = [nonce EXCEPT ![n] = IF @ = Unminted THEN @ ELSE Scope("used", 0)]
    BY <1>9, Zenon DEF Consume
  <2>4. /\ nonce' \in [Confirmations -> [s : Sessions \cup {"none", "used", "expired"}, g : Nat]]
        /\ \A o \in Confirmations : nonce[o] = Scope("used", 0) => nonce'[o] = Scope("used", 0)
    BY <2>2, <2>3, Zenon DEF RouteInv, RouteTypes, Scope, Unminted
  <2>5. Granted(r) => nonce[n].s \in Sessions /\ nonce'[n] = Scope("used", 0)
    <3>1. ASSUME Granted(r) PROVE nonce[n] = Scope(req[r].s, req[r].g) /\ req[r].s \in Sessions
      BY <2>2, <3>1, Zenon DEF Granted, Begun
    <3>2. ASSUME Granted(r) PROVE nonce[n] # Unminted /\ nonce[n].s \in Sessions
      BY <3>1, <3>2, RoutesAssumption DEF Scope, Unminted
    <3> QED BY <2>2, <2>3, <3>2, Zenon DEF RouteInv, RouteTypes
  <2>6. req' = [req EXCEPT ![r].at = at]
    BY <1>9, Zenon DEF Consume
  <2>7. /\ at \in {"guard", "refused"} /\ (at = "guard" => Granted(r))
    BY Zenon
  <2> HIDE DEF at
  <2>8. /\ q \in Begun /\ q.at = at /\ q.kind = req[r].kind /\ q.g = req[r].g
        /\ q.stale = req[r].stale /\ q.n = n
    BY <2>2, <2>7, Zenon DEF Begun
  <2>9. /\ req'[r] = q /\ req' \in [Requests -> {Idle} \cup Begun]
        /\ \A t \in Requests : t # r => req'[t] = req[t]
    BY <2>6, <2>8, Zenon DEF RouteInv, RouteTypes
  <2> HIDE DEF q, n
  <2>10. RequestOK(r)'
    BY <2>1, <2>2, <2>5, <2>7, <2>8, <2>9, Zenon DEF RequestOK, Admitted
  <2>11. ASSUME NEW t \in Requests, t # r, req'[t] # Idle PROVE RequestOK(t)'
    <3>1. req[t] # Idle /\ req[t] \in Begun /\ req'[t] = req[t] /\ RequestOK(t)
      BY <2>9, <2>11, Zenon DEF RouteInv, RouteTypes
    <3>2. req[t].n \in Confirmations
      BY <3>1, Zenon DEF Begun
    <3> QED BY <2>1, <2>4, <3>1, <3>2, Zenon DEF RequestOK, Admitted
  <2>12. \A t \in Requests : t # r /\ Admitted(t) /\ at = "guard" => req[t].n # n
    <3> SUFFICES ASSUME NEW t \in Requests, t # r, Admitted(t), Granted(r) PROVE req[t].n # n
      BY <2>7, Zenon
    <3>1. nonce[req[t].n] = Scope("used", 0)
      BY <1>5, Zenon DEF Admitted, RequestOK
    <3>2. nonce[n].s # "used"
      BY <2>5, RoutesAssumption, Zenon
    <3> QED BY <3>1, <3>2 DEF Scope
  <2>13. TakeoverOnce'
    <3>1. \A t \in Requests : t # r => (Admitted(t)' <=> Admitted(t)) /\ req'[t].n = req[t].n
      BY <2>9, Zenon DEF Admitted
    <3>2. req'[r].n = n /\ (Admitted(r)' => at = "guard")
      BY <2>7, <2>8, <2>9, Zenon DEF Admitted
    <3> QED BY <2>12, <3>1, <3>2, Zenon DEF RouteInv, TakeoverOnce
  <2>14. RouteTypes'
    BY <2>1, <2>4, <2>9, Zenon DEF RouteInv, RouteTypes, Idle
  <2> QED BY <2>10, <2>11, <2>13, <2>14, Zenon DEF RouteInv, Idle
<1>10. ASSUME NEW n \in Confirmations, Expire(n) \/ (\E s \in Sessions : Mint(n, s)) PROVE RouteInv'
  <2>1. /\ UNCHANGED <<occ, fresh, known, req>> /\ nonce[n] # Scope("used", 0)
        /\ \A o \in Confirmations : o # n => nonce'[o] = nonce[o]
        /\ nonce' \in [Confirmations -> [s : Sessions \cup {"none", "used", "expired"}, g : Nat]]
    <3>1. CASE Expire(n)
      BY <3>1, RoutesAssumption DEF Expire, RouteInv, RouteTypes, Scope
    <3>2. CASE \E s \in Sessions : Mint(n, s)
      BY <3>2 DEF Mint, RouteInv, RouteTypes, Scope, Unminted
    <3> QED BY <1>10, <3>1, <3>2, Zenon
  <2>2. RouteTypes' /\ TakeoverOnce'
    BY <2>1, Zenon DEF RouteInv, RouteTypes, TakeoverOnce, Admitted
  <2>3. ASSUME NEW r \in Requests, req[r] # Idle PROVE RequestOK(r)'
    <3>1. RequestOK(r) /\ req[r].n \in Confirmations
      BY <2>3, Zenon DEF RouteInv, RouteTypes, Begun
    <3>2. Admitted(r) => req[r].n # n
      BY <2>1, <3>1, Zenon DEF RequestOK
    <3> QED BY <2>1, <3>1, <3>2, Zenon DEF RequestOK, Admitted
  <2> QED BY <2>1, <2>2, <2>3, Zenon DEF RouteInv, Idle
<1>11. CASE UNCHANGED routeVars
  <2>1. UNCHANGED <<occ, fresh, known, nonce, req>>
    BY <1>11, Zenon DEF routeVars
  <2>2. RouteTypes' /\ TakeoverOnce'
    BY <2>1, Zenon DEF RouteInv, RouteTypes, TakeoverOnce, Admitted
  <2>3. \A r \in Requests : RequestOK(r) => RequestOK(r)'
    BY <2>1 DEF RequestOK, Admitted
  <2> QED BY <2>1, <2>2, <2>3, Zenon DEF RouteInv, Idle
<1> QED BY <1>1, <1>2, <1>4, <1>6, <1>7, <1>8, <1>9, <1>10, <1>11, Zenon DEF RouteNext

(* A run is answered under the generation that was asserted, nothing goes through a
   replacement the engine had seen, and a confirmation admits one takeover, for any
   number of requests, sessions, confirmations and occupants (handleRun,
   handleTerminal). *)
THEOREM RoutesAreGuarded == RouteSpec => []RoutesGuarded
<1>1. RouteInv => RoutesGuarded
  <2> SUFFICES ASSUME RouteInv PROVE RoutesGuarded
    BY Zenon
  <2>1. ASSUME NEW r \in Requests, req[r].at = "ok" PROVE RequestOK(r)
    <3>1. req[r] # Idle
      BY <2>1 DEF Idle
    <3> QED BY <3>1, Zenon DEF RouteInv
  <2>2. RunAsserted
    BY <2>1, Zenon DEF RunAsserted, Answered, RequestOK
  <2>3. SeenReplacementRefused
    BY <2>1, Zenon DEF SeenReplacementRefused, Answered, RequestOK
  <2> QED BY <2>2, <2>3, Zenon DEF RouteInv, RoutesGuarded
<1> QED BY <1>1, RouteInitInv, RouteStep, PTL DEF RouteSpec

-----------------------------------------------------------------------------
(* The cache of agent kinds. *)

(* Who checks or discovers holds the mutex, and a discovery is under way only while the
   cache has nothing fresh. *)
KindInv ==
    /\ moment \in Nat /\ fetchedAt \in Nat
    /\ stage \in [Askers -> {"idle", "lock", "check", "discover", "returned"}]
    /\ got \in [Askers -> [list : Int, failed : BOOLEAN]]
    /\ cached \in Int /\ build \in Nat
    /\ \A c \in Askers : stage[c] \in {"check", "discover"} => holder = c
    /\ \A c \in Askers : stage[c] = "discover" => ~Fresh

(* What one step of the cache keeps: both action properties of KindsServed. *)
Promise ==
    /\ \A c \in Askers :
          stage[c] # "returned" /\ stage'[c] = "returned" /\ got'[c].list # -1 =>
              /\ moment - fetchedAt' <= 2 * TTL
              /\ moment - fetchedAt' >= TTL => got'[c].failed
    /\ \A c, d \in Askers : stage'[c] = "discover" /\ stage'[d] = "discover" => c = d
    /\ loaded /\ cached' # cached => moment - fetchedAt >= TTL

(* Nothing loaded, nobody waiting. *)
LEMMA KindInitInv == KindInit => KindInv
BY DEF KindInit, KindInv, Nothing

(* One step per action of a caller. *)
LEMMA KindStep ==
    ASSUME KindInv, [KindNext]_kindVars
    PROVE  KindInv' /\ (Promise \/ UNCHANGED kindVars)
<1>0. TTL \in Nat \ {0} /\ Nobody \notin Askers
  BY KindsAssumption, Zenon
<1> USE DEF KindInv, Promise, Fresh, Age
<1>1. CASE MomentPasses \/ Upgrade
  BY <1>0, <1>1 DEF MomentPasses, Upgrade
<1>2. ASSUME NEW c \in Askers, Enter(c) PROVE KindInv' /\ Promise
  BY <1>0, <1>2, Zenon DEF Enter
<1>3. ASSUME NEW c \in Askers, Lock(c) PROVE KindInv' /\ Promise
  BY <1>0, <1>3, Zenon DEF Lock
<1>4. ASSUME NEW c \in Askers, ServeFresh(c) PROVE KindInv' /\ Promise
  BY <1>0, <1>4 DEF ServeFresh, Return
<1>5. ASSUME NEW c \in Askers, StartDiscovery(c) PROVE KindInv' /\ Promise
  BY <1>0, <1>5, Zenon DEF StartDiscovery
<1>6. ASSUME NEW c \in Askers, DiscoverySucceeds(c) PROVE KindInv' /\ Promise
  BY <1>0, <1>6 DEF DiscoverySucceeds, Return
<1>7. ASSUME NEW c \in Askers, DiscoveryFails(c) PROVE KindInv' /\ Promise
  <2>1. PICK l \in Int :
            /\ l # -1 => Grace
            /\ stage' = [stage EXCEPT ![c] = "returned"]
            /\ got' = [got EXCEPT ![c] = [list |-> l, failed |-> TRUE]]
    BY <1>7 DEF DiscoveryFails, Return
  <2>2. stage[c] = "discover" /\ UNCHANGED <<moment, build, loaded, cached, fetchedAt>>
    BY <1>7, Zenon DEF DiscoveryFails
  <2>3. \A d \in Askers : stage[d] \in {"check", "discover"} => d = c
    BY <2>2, Zenon
  <2>4. KindInv'
    BY <2>1, <2>2, <2>3, Zenon
  <2>5. got'[c].list = l /\ got'[c].failed = TRUE
    BY <2>1, Zenon
  <2> QED BY <1>0, <2>1, <2>2, <2>3, <2>4, <2>5, Zenon DEF Grace
<1>8. ASSUME NEW c \in Askers, Leave(c) PROVE KindInv' /\ Promise
  BY <1>0, <1>8 DEF Leave, Nothing
<1>9. CASE UNCHANGED kindVars
  BY <1>0, <1>9, Zenon DEF kindVars
<1> QED BY <1>1, <1>2, <1>3, <1>4, <1>5, <1>6, <1>7, <1>8, <1>9, Zenon DEF KindNext, Discovery

(* A list is served at most one extra TTL after its discovery, past its TTL only to a
   caller whose own discovery failed; one discovery runs at a time and a successful one
   stands for a TTL, for any TTL and any number of callers (agentKinds.list). *)
THEOREM KindsAreServed == KindSpec => KindsServed
<1>1. KindInv /\ [KindNext]_kindVars => KindInv'
  BY KindStep, Zenon
<1>2. KindInv /\ [KindNext]_kindVars =>
        [\A c \in Askers :
          stage[c] # "returned" /\ stage'[c] = "returned" /\ got'[c].list # -1 =>
              /\ moment - fetchedAt' <= 2 * TTL
              /\ moment - fetchedAt' >= TTL => got'[c].failed]_kindVars
  BY KindStep, Zenon DEF Promise
<1>3. KindInv /\ [KindNext]_kindVars =>
        [/\ \A c, d \in Askers : stage'[c] = "discover" /\ stage'[d] = "discover" => c = d
         /\ loaded /\ cached' # cached => moment - fetchedAt >= TTL]_kindVars
  BY KindStep, Zenon DEF Promise
<1> QED BY <1>1, <1>2, <1>3, KindInitInv, PTL DEF KindSpec, KindsServed, ServedInTime, OneRefreshPerTTL

-----------------------------------------------------------------------------
(* The event subscription: the module Subscriber, for any backoff *)

CONSTANTS Initial, MaxDelay, Factor, StableAfter, MaxVersion, MaxFails
VARIABLES loop, delay, stable, gotEvent, age, left, cancelled, served, frames, wake,
          forwarded, version, seen, fails

Events == INSTANCE Subscriber WITH pc <- loop

(* A live subscription was started, so whatever Herdr changes from then on leaves a
   frame to read: without this, QuietMeansSynced is not kept by HerdrChanges. *)
SyncInv ==
    /\ frames \in Nat
    /\ loop = "live" => served \in {"started", "lost"}
    /\ Events!QuietMeansSynced

(* No subscription yet. *)
LEMMA SyncInit == Events!Init => SyncInv
BY DEF Events!Init, SyncInv, Events!QuietMeansSynced

(* One step for each party: Herdr, the session, Run, the wake loop. *)
LEMMA SyncStep == SyncInv /\ [Events!Next]_(Events!vars) => SyncInv'
<1> SUFFICES ASSUME SyncInv, [Events!Next]_(Events!vars) PROVE SyncInv'
  BY Zenon
<1> USE DEF SyncInv, Events!QuietMeansSynced
<1>1. CASE Events!HerdrStarts \/ Events!HerdrDrops
  BY <1>1, Zenon DEF Events!HerdrStarts, Events!HerdrDrops, Events!subscriber
<1>2. CASE Events!HerdrChanges
  BY SMTT(60), <1>2 DEF Events!HerdrChanges, Events!subscriber
<1>3. CASE Events!Dial \/ Events!DialFails \/ Events!Started
  BY <1>3 DEF Events!Dial, Events!DialFails, Events!Started, Events!EndSession
<1>4. CASE Events!FirstFails \/ Events!ReadEvent \/ Events!ReadFails
  BY <1>4 DEF Events!FirstFails, Events!ReadEvent, Events!ReadFails, Events!EndSession
<1>5. CASE Events!Return \/ Events!Judge \/ Events!Reconnect \/ Events!Cancel \/ Events!Tick
  BY <1>5, Zenon DEF Events!Return, Events!Judge, Events!Reconnect, Events!Cancel, Events!Tick, Events!subscriber
<1>6. CASE Events!ForwardWake \/ Events!EnginePolls
  BY <1>6, Zenon DEF Events!ForwardWake, Events!EnginePolls, Events!subscriber
<1>7. CASE UNCHANGED Events!vars
  BY <1>7, Zenon DEF Events!vars
<1> QED BY <1>1, <1>2, <1>3, <1>4, <1>5, <1>6, <1>7, Zenon DEF Events!Next, Events!Relay

(* "Events only wake; the engine re-reads the snapshot for truth": a started
   subscription with nothing left to read and no wakeup anywhere on its way to the
   engine means that the engine has Herdr's state, through any sequence of drops,
   refusals, flaps and collapsed signals (Subscriber.session, signal; the wake loop
   of buildStack). *)
THEOREM QuietIsSynced == Events!Spec => []Events!QuietMeansSynced
<1>1. SyncInv => Events!QuietMeansSynced
  BY Zenon DEF SyncInv
<1> QED BY <1>1, SyncInit, SyncStep, PTL DEF Events!Spec

=============================================================================
