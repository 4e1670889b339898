------------------------------ MODULE KeyCache ------------------------------
(***************************************************************************)
(* The signing-key cache behind Access token verification:                 *)
(* internal/auth/jwks.go, singleflight.go and Verify of jwt.go.            *)
(*                                                                         *)
(* The certs endpoint publishes documents numbered 1, 2, ...; document d   *)
(* holds the key ids d and d + 1, so a rotation keeps one key.  Time moves *)
(* only while no caller is in the middle of a local computation: a tick is *)
(* long compared with the steps between two lock operations.               *)
(***************************************************************************)
EXTENDS Integers, FiniteSets

CONSTANTS
    Callers,
    KeyTTL,        \* lifetime of fetched keys
    MinRefresh,    \* throttle on refreshes for unknown ids
    MaxDoc, MaxWall   \* bounds

ASSUME KeyAssumption ==
    /\ {KeyTTL, MinRefresh, MaxDoc, MaxWall} \subseteq Nat
    /\ "none" \notin Callers

VARIABLES
    wall,
    published,      \* document the endpoint serves now
    doc,            \* document the cache holds, 0 before the first
    fetchedAt,
    lastAttempt,    \* -MinRefresh stands for the zero time
    call,           \* singleflight: leader of the call in the map, and its result
    pc, kid,        \* of each caller
    lead,           \* the call a caller waits for is over with this result
    reply,          \* document a leader's fetch has received
    started,        \* history: when a caller looked up
    answer          \* what PublicKey returned, and the fetch time it rests on

cache == <<doc, fetchedAt, lastAttempt>>
caller == <<pc, kid, started, answer>>
keyVars == <<wall, published, cache, call, caller, lead, reply>>

NoCall == [leader |-> "none", result |-> "none"]
NoAnswer == [is |-> "none", at |-> 0]

KeyInit ==
    /\ wall = 0 /\ published = 1
    /\ doc = 0 /\ fetchedAt = 0 /\ lastAttempt = -MinRefresh
    /\ call = NoCall
    /\ pc = [c \in Callers |-> "idle"] /\ kid = [c \in Callers |-> 0]
    /\ lead = [c \in Callers |-> "none"] /\ reply = [c \in Callers |-> 0]
    /\ started = [c \in Callers |-> 0] /\ answer = [c \in Callers |-> NoAnswer]

Holds(d, k) == d # 0 /\ k \in {d, d + 1}

Fresh == doc # 0 /\ wall - fetchedAt < KeyTTL

Return(c, is) == answer' = [answer EXCEPT ![c] = [is |-> is, at |-> fetchedAt]]

Proceed(c, to) == pc' = [pc EXCEPT ![c] = to]

(* PublicKey up to the first unlock: a fresh key is returned; an unknown id
   is refused while the last attempt is recent; else a refresh. *)
Lookup(c) ==
    /\ pc[c] = "idle"
    /\ \E k \in 0..MaxDoc + 1 :
          /\ kid' = [kid EXCEPT ![c] = k]
          /\ \/ /\ Fresh /\ Holds(doc, k)
                /\ Return(c, "key") /\ Proceed(c, "verify")
             \/ /\ Fresh /\ ~Holds(doc, k) /\ wall - lastAttempt < MinRefresh
                /\ Return(c, "unknown") /\ Proceed(c, "verify")
             \/ /\ ~Fresh \/ (~Holds(doc, k) /\ wall - lastAttempt >= MinRefresh)
                /\ Return(c, "none") /\ Proceed(c, "do")
    /\ started' = [started EXCEPT ![c] = wall]
    /\ lead' = [lead EXCEPT ![c] = "none"]
    /\ UNCHANGED <<wall, published, cache, call, reply>>

(* Mutant: every caller fetches for itself. *)
JoinAlone(c) ==
    /\ pc[c] = "do"
    /\ call' = [leader |-> c, result |-> "none"]
    /\ Proceed(c, "attempt")
    /\ UNCHANGED <<wall, published, cache, kid, started, answer, lead, reply>>

(* singleflight Do: the caller becomes the leader of a call, or shares the
   one in the map, which may be over but not yet deleted. *)
Join(c) ==
    /\ pc[c] = "do"
    /\ IF call = NoCall
       THEN /\ call' = [leader |-> c, result |-> "none"]
            /\ Proceed(c, "attempt")
            /\ UNCHANGED lead
       ELSE /\ lead' = [lead EXCEPT ![c] = call.result]
            /\ Proceed(c, "wait")
            /\ UNCHANGED call
    /\ UNCHANGED <<wall, published, cache, kid, started, answer, reply>>

(* refresh: the attempt is recorded first, the request goes out, and the
   endpoint answers with the document of that moment. *)
Attempt(c) ==
    /\ pc[c] = "attempt"
    /\ lastAttempt' = wall
    /\ Proceed(c, "fetch")
    /\ UNCHANGED <<wall, published, doc, fetchedAt, call, kid, started, answer, lead, reply>>

Respond(c) ==
    /\ pc[c] = "fetch"
    /\ reply' = [reply EXCEPT ![c] = published]
    /\ Proceed(c, "body")
    /\ UNCHANGED <<wall, published, cache, call, kid, started, answer, lead>>

Install(c) ==
    /\ pc[c] = "body"
    /\ doc' = reply[c] /\ fetchedAt' = wall
    /\ lead' = [lead EXCEPT ![c] = "ok"]
    /\ Proceed(c, "done")
    /\ UNCHANGED <<wall, published, lastAttempt, call, kid, started, answer, reply>>

(* No connection, a bad status, a body without a usable key, a timeout, or
   the leader's request was cancelled. *)
FetchFails(c) ==
    /\ pc[c] \in {"fetch", "body"}
    /\ lead' = [lead EXCEPT ![c] = "failed"]
    /\ Proceed(c, "done")
    /\ UNCHANGED <<wall, published, cache, call, kid, started, answer, reply>>

(* wg.Done: the waiting callers may go on. *)
Announce(c) ==
    /\ pc[c] = "done"
    /\ call' = [call EXCEPT !.result = lead[c]]
    /\ lead' = [x \in Callers |-> IF pc[x] = "wait" THEN lead[c] ELSE lead[x]]
    /\ Proceed(c, "unmap")
    /\ UNCHANGED <<wall, published, cache, kid, started, answer, reply>>

Unmap(c) ==
    /\ pc[c] = "unmap"
    /\ call' = NoCall
    /\ Proceed(c, "reread")
    /\ UNCHANGED <<wall, published, cache, kid, started, answer, lead, reply>>

Wake(c) ==
    /\ pc[c] = "wait" /\ lead[c] # "none"
    /\ Proceed(c, "reread")
    /\ UNCHANGED <<wall, published, cache, call, kid, started, answer, lead, reply>>

(* At most one extra lifetime beyond expiry. *)
Acceptable == wall - fetchedAt <= 2 * KeyTTL

Reread(c) ==
    /\ pc[c] = "reread"
    /\ Return(c, IF lead[c] = "ok"
                 THEN IF Holds(doc, kid[c]) THEN "key" ELSE "unknown"
                 ELSE IF Holds(doc, kid[c]) /\ Acceptable THEN "key" ELSE "unavailable")
    /\ Proceed(c, "verify")
    /\ UNCHANGED <<wall, published, cache, call, kid, started, lead, reply>>

(* Verify: without a key the token is refused; with one, signature, times,
   issuer, audience and allowlist decide, none of which touches the cache. *)
VerifyToken(c) ==
    /\ pc[c] = "verify"
    /\ Proceed(c, "idle")
    /\ answer' = [answer EXCEPT ![c] = NoAnswer]
    /\ UNCHANGED <<wall, published, cache, call, kid, started, lead, reply>>

RotateKeys ==
    /\ published < MaxDoc
    /\ published' = published + 1
    /\ UNCHANGED <<wall, cache, call, caller, lead, reply>>

WallTick ==
    /\ wall < MaxWall
    /\ \A c \in Callers : pc[c] \in {"idle", "fetch", "body"} \/ (pc[c] = "wait" /\ lead[c] = "none")
    /\ wall' = wall + 1
    /\ UNCHANGED <<published, cache, call, caller, lead, reply>>

Fetch(c) == Respond(c) \/ Install(c) \/ FetchFails(c)

Local(c) ==
    \/ Join(c) \/ Attempt(c) \/ Announce(c) \/ Unmap(c) \/ Wake(c)
    \/ Reread(c) \/ VerifyToken(c)

KeyNext == RotateKeys \/ WallTick \/ \E c \in Callers : Lookup(c) \/ Fetch(c) \/ Local(c)

KeySpec == KeyInit /\ [][KeyNext]_keyVars

(* The HTTP client has a timeout, so a fetch ends. *)
FairKeySpec == KeySpec /\ \A c \in Callers : WF_keyVars(Fetch(c)) /\ WF_keyVars(Local(c))

-----------------------------------------------------------------------------

KeyTypeOK ==
    /\ wall \in 0..MaxWall /\ published \in 1..MaxDoc
    /\ doc \in 0..published /\ fetchedAt \in 0..wall
    /\ lastAttempt \in {-MinRefresh} \cup 0..wall
    /\ call = NoCall \/ (call.leader \in Callers /\ call.result \in {"none", "ok", "failed"})
    /\ kid \in [Callers -> 0..MaxDoc + 1] /\ lead \in [Callers -> {"none", "ok", "failed"}]
    /\ reply \in [Callers -> 0..published]

(* The cache never goes back to an older document: refreshes do not overlap
   (singleflightGroup.Do around JWKSCache.refresh). *)
KeysNeverGoBack == [][doc' >= doc]_keyVars

(* No caller is given a key from a fetch that was older than two lifetimes
   when the caller came (JWKSCache.PublicKey). *)
StaleKeyBounded ==
    \A c \in Callers : answer[c].is = "key" => answer[c].at >= started[c] - 2 * KeyTTL

(* No caller is given a key from a fetch that was older than two lifetimes when
   the caller came, and the cache never goes back to an older document
   (JWKSCache.PublicKey, singleflightGroup.Do around refresh). *)
KeysSound == []StaleKeyBounded /\ KeysNeverGoBack

(* Nobody waits for ever, whoever leads the refresh and however it ends. *)
AllAnswered == \A c \in Callers : (pc[c] # "idle") ~> (pc[c] = "idle")

(* What singleflight.go and the throttle say of a burst: one fetch.  A refresh
   for an unknown id does not follow the last attempt within MinRefresh. *)
OneFetchPerBurst ==
    [][\A c \in Callers :
          (pc[c] = "attempt" /\ pc'[c] = "fetch" /\ Fresh) => wall - lastAttempt >= MinRefresh]_keyVars

=============================================================================
