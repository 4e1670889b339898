--------------------------- MODULE AuthGateProofs ---------------------------
(***************************************************************************)
(* Pairing secrets, logout and sessions, for any number of concurrent      *)
(* requests, sessions and secrets, and the signing keys, for any number of *)
(* callers.  A request holds on to what it read (its session, the secret   *)
(* it was given, the refresh it waits for) while others rotate the secret, *)
(* end the session or install new keys; the invariants relate the two.     *)
(***************************************************************************)
EXTENDS AuthGate, KeyCache, FiniteSetTheorems, TLAPS

Pc == {"idle", "access", "session", "ensure", "lookup", "create", "origin", "csrf",
       "type", "token", "verify", "paired", "handle"}

Request0 == [pc : Pc, kind : Kinds, cookie : Nat, subj : Subjects \cup {NoSubject},
             exp : Nat, given : Nat, csrf : Nat, sid : Nat, dead : SUBSET Nat]

ReqOK ==
    /\ issued \in Nat
    /\ rq \in [Reqs -> Request0]
    /\ \A r \in Reqs : rq[r].cookie <= issued /\ rq[r].sid <= issued

(* A revoked id is not in the store and never will be; no request that came
   after the revocation runs as it. *)
RevokedOK ==
    /\ DOMAIN sessions \subseteq 1..issued
    /\ revoked \subseteq (1..issued) \ DOMAIN sessions
    /\ \A r \in Reqs : rq[r].dead \subseteq revoked /\ rq[r].sid \notin rq[r].dead

(* Secrets are numbered as they are drawn, and only the last can be unspent
   and current. *)
SecretOK ==
    /\ secret \in Nat \ {0}
    /\ spent \subseteq 1..secret /\ links \subseteq 1..secret
    /\ SecretSingleUse

Inv == ReqOK /\ RevokedOK /\ SecretOK

-----------------------------------------------------------------------------
(* The state a server starts in. *)
LEMMA InitInv == Init => Inv
<1> SUFFICES ASSUME Init PROVE Inv
  BY Zenon
<1>1. IdleReq \in Request0
  BY Zenon DEF IdleReq, Request0, Pc, Kinds
<1>2. ReqOK
  BY <1>1 DEF Init, ReqOK, IdleReq
<1>3. RevokedOK
  <2>1. DOMAIN sessions = {} /\ revoked = {}
    BY Zenon DEF Init
  <2>2. \A r \in Reqs : rq[r].dead = {}
    BY Zenon DEF Init, IdleReq
  <2>3. DOMAIN sessions \subseteq 1..issued /\ revoked \subseteq (1..issued) \ DOMAIN sessions
    BY <2>1, Zenon
  <2>4. \A r \in Reqs : rq[r].dead \subseteq revoked /\ rq[r].sid \notin rq[r].dead
    BY <2>1, <2>2, Zenon
  <2> QED BY <2>3, <2>4, Zenon DEF RevokedOK
<1>4. SecretOK
  BY DEF Init, SecretOK, SecretSingleUse
<1> QED BY <1>2, <1>3, <1>4, Zenon DEF Inv

(* What a step of a request does to its record: it ends, or it moves on,
   with the session it had, one of the store, or the one just created. *)
LEMMA Moves ==
    ASSUME ReqOK, DOMAIN sessions \subseteq 1..issued, NEW r \in Reqs, Request(r)
    PROVE  \/ rq' = [rq EXCEPT ![r] = IdleReq]
           \/ \E p \in Pc : rq' = [rq EXCEPT ![r].pc = p]
           \/ \E p \in Pc, s \in DOMAIN sessions \cup ({issued'} \ {issued}) :
                 rq' = [rq EXCEPT ![r].pc = p, ![r].sid = s]
<1> USE DEF Pc, Goto, Reject, GotoAs
<1>1. CASE Access(r)
  BY <1>1, Zenon DEF Access
<1>2. CASE SessionLookup(r)
  BY <1>2, Zenon DEF SessionLookup, Live
<1>3. CASE Ensure(r)
  BY <1>3, Zenon DEF Ensure
<1>4. CASE LookupIdentity(r)
  BY <1>4, Zenon DEF LookupIdentity, Newest, Candidates, Live
<1>5. CASE CreateAuto(r)
  <2>1. CASE Create(rq[r].subj, rq[r].exp, TRUE) /\ GotoAs(r, "origin", issued + 1)
    <3>1. issued' = issued + 1 /\ issued' # issued
      BY <2>1 DEF Create, ReqOK
    <3> QED BY <2>1, <3>1, Zenon
  <2> QED BY <1>5, <2>1, Zenon DEF CreateAuto
<1>6. CASE Origin(r)
  BY <1>6, Zenon DEF Origin
<1>7. CASE Csrf(r)
  BY <1>7, Zenon DEF Csrf
<1>8. CASE TypeAndLimit(r)
  BY <1>8, Zenon DEF TypeAndLimit
<1>9. CASE PairToken(r)
  BY <1>9, Zenon DEF PairToken
<1>10. CASE Verify(r)
  BY <1>10, Zenon DEF Verify
<1>11. CASE CreatePaired(r) \/ Serve(r) \/ Logout(r)
  BY <1>11, Zenon DEF CreatePaired, Serve, Logout
<1> QED BY <1>1, <1>2, <1>3, <1>4, <1>5, <1>6, <1>7, <1>8, <1>9, <1>10, <1>11, Zenon DEF Request

(* What a step does to the store: ids are drawn one at a time, and only the
   id just drawn enters it. *)
LEMMA StoreMoves ==
    ASSUME ReqOK, Next
    PROVE  /\ issued' \in {issued, issued + 1}
           /\ DOMAIN sessions' \subseteq DOMAIN sessions \cup ({issued'} \ {issued})
<1> USE DEF ReqOK
<1>1. CASE UNCHANGED store
  BY <1>1, Zenon DEF store
<1>2. ASSUME NEW S, sessions' = Without(S), UNCHANGED issued
      PROVE  DOMAIN sessions' \subseteq DOMAIN sessions
  BY <1>2, Zenon DEF Without
<1>3. ASSUME NEW s, Get(s) PROVE DOMAIN sessions' \subseteq DOMAIN sessions
  BY <1>3, Zenon DEF Get, Without
<1>4. ASSUME NEW u, NEW e, NEW a, Create(u, e, a)
      PROVE  /\ issued' = issued + 1 /\ issued' # issued
             /\ DOMAIN sessions' \subseteq DOMAIN sessions \cup {issued'}
  BY <1>4 DEF Create
<1>5. CASE GC
  BY <1>2, <1>5, Zenon DEF GC
<1>6. CASE Tick \/ Rotate \/ ShowLink \/ \E r \in Reqs : Arrive(r)
  BY <1>1, <1>6, Zenon DEF Tick, Rotate, ShowLink, Arrive, store
<1>7. ASSUME NEW r \in Reqs, Request(r)
      PROVE  /\ issued' \in {issued, issued + 1}
             /\ DOMAIN sessions' \subseteq DOMAIN sessions \cup ({issued'} \ {issued})
  <2>1. CASE SessionLookup(r) \/ Csrf(r)
    BY <1>3, <2>1, Zenon DEF SessionLookup, Csrf
  <2>2. CASE LookupIdentity(r)
    <3>1. issued' = issued
      BY <2>2, Zenon DEF LookupIdentity
    <3>2. DOMAIN sessions' = DOMAIN Without(Dead)
      BY <2>2, Zenon DEF LookupIdentity
    <3> QED BY <3>1, <3>2, Zenon DEF Without
  <2>3. CASE CreateAuto(r)
    BY <1>1, <1>4, <2>3, Zenon DEF CreateAuto
  <2>4. CASE CreatePaired(r)
    BY <1>1, <1>4, <2>4, Zenon DEF CreatePaired
  <2>5. CASE Logout(r)
    BY <1>2, <2>5, Zenon DEF Logout
  <2>6. CASE Access(r) \/ Ensure(r) \/ Origin(r) \/ TypeAndLimit(r) \/ PairToken(r)
                \/ Verify(r) \/ Serve(r)
    BY <1>1, <2>6, Zenon DEF Access, Ensure, Origin, TypeAndLimit, PairToken, Verify, Serve
  <2> QED BY <1>7, <2>1, <2>2, <2>3, <2>4, <2>5, <2>6, Zenon DEF Request
<1> QED BY <1>5, <1>6, <1>7, Zenon DEF Next

(* Only a logout revokes, the session of its own cookie, which it removes. *)
LEMMA RevokedMoves ==
    ASSUME Next
    PROVE  \/ revoked' = revoked
           \/ \E r \in Reqs : /\ sessions' = Without({rq[r].cookie})
                              /\ revoked' = revoked \cup ({rq[r].cookie} \ {0})
                              /\ rq' = [rq EXCEPT ![r] = IdleReq]
                              /\ issued' = issued
<1>1. CASE \E r \in Reqs : Logout(r)
  BY <1>1, Zenon DEF Logout, Reject
<1>2. CASE ~\E r \in Reqs : Logout(r)
  BY <1>2, Zenon DEF Next, Tick, GC, Rotate, ShowLink, Arrive, Request, Access, SessionLookup,
     Ensure, LookupIdentity, CreateAuto, Origin, Csrf, TypeAndLimit, PairToken, Verify,
     CreatePaired, Serve
<1> QED BY <1>1, <1>2, Zenon

(* A request that arrives shows a cookie handed out before, has no session
   yet, and remembers what was revoked before it. *)
LEMMA ArriveMoves ==
    ASSUME ReqOK, SecretOK, revoked \subseteq Nat, NEW r \in Reqs, Arrive(r)
    PROVE  \E q \in Request0 : /\ rq' = [rq EXCEPT ![r] = q]
                              /\ q.cookie <= issued /\ q.sid = 0 /\ q.dead = revoked
                              /\ q.pc = "access"
<1>1. PICK kind \in Kinds, cookie \in 0..issued, csrf \in 0..issued,
           given \in links \cup {0},
           subj \in IF Named THEN Subjects \cup {NoSubject} ELSE {NoSubject},
           exp \in IF Named THEN Expiries ELSE {0} :
           /\ kind = "pair" => cookie = 0 /\ csrf = 0 /\ given # 0
           /\ kind # "pair" => given = 0
           /\ kind = "read" => csrf = 0
           /\ rq' = [rq EXCEPT ![r] =
                       [pc |-> "access", kind |-> kind, cookie |-> cookie, subj |-> subj,
                        exp |-> exp, given |-> given, csrf |-> csrf, sid |-> 0,
                        dead |-> revoked]]
  BY Zenon DEF Arrive
<1>2. /\ cookie \in Nat /\ cookie <= issued /\ csrf \in Nat /\ given \in Nat
  BY DEF ReqOK, SecretOK
<1>3. exp \in Nat /\ subj \in Subjects \cup {NoSubject}
  BY AuthAssumption
<1>4. [pc |-> "access", kind |-> kind, cookie |-> cookie, subj |-> subj,
       exp |-> exp, given |-> given, csrf |-> csrf, sid |-> 0, dead |-> revoked] \in Request0
  BY <1>2, <1>3, Zenon DEF Request0, Pc
<1> QED BY <1>1, <1>2, <1>4, Zenon

(* Every step moves at most one request, in one of these ways. *)
LEMMA RqMoves ==
    ASSUME Inv, Next
    PROVE  \/ rq' = rq
           \/ \E r \in Reqs, q \in Request0 :
                 /\ rq' = [rq EXCEPT ![r] = q]
                 /\ q.cookie <= issued
                 /\ \/ q.sid = 0 /\ q.dead \subseteq revoked
                    \/ q.dead = rq[r].dead
                       /\ q.sid \in {rq[r].sid} \cup DOMAIN sessions \cup ({issued'} \ {issued})
<1>1. IdleReq \in Request0 /\ IdleReq.cookie = 0 /\ IdleReq.sid = 0 /\ IdleReq.dead = {}
  BY Zenon DEF IdleReq, Request0, Pc, Kinds
<1>2. issued \in Nat /\ issued' \in Nat /\ DOMAIN sessions \subseteq Nat
  BY StoreMoves DEF Inv, ReqOK, RevokedOK
<1>3. CASE Tick \/ GC \/ Rotate \/ ShowLink
  BY <1>3, Zenon DEF Tick, GC, Rotate, ShowLink
<1>4. ASSUME NEW r \in Reqs, Arrive(r)
      PROVE  \E q \in Request0 : /\ rq' = [rq EXCEPT ![r] = q] /\ q.cookie <= issued
                                /\ q.sid = 0 /\ q.dead \subseteq revoked
  <2>1. revoked \subseteq Nat
    BY DEF Inv, RevokedOK
  <2> QED BY <1>4, <2>1, ArriveMoves, Zenon DEF Inv
<1>5. ASSUME NEW r \in Reqs, Request(r)
      PROVE  \E q \in Request0 :
                 /\ rq' = [rq EXCEPT ![r] = q]
                 /\ q.cookie <= issued
                 /\ \/ q.sid = 0 /\ q.dead \subseteq revoked
                    \/ q.dead = rq[r].dead
                       /\ q.sid \in {rq[r].sid} \cup DOMAIN sessions \cup ({issued'} \ {issued})
  <2>0. rq[r] \in Request0 /\ rq[r].cookie <= issued
    BY Zenon DEF Inv, ReqOK
  <2>1. CASE rq' = [rq EXCEPT ![r] = IdleReq]
    <3>1. IdleReq.cookie <= issued /\ IdleReq.dead \subseteq revoked
      BY <1>1, <1>2
    <3> QED BY <1>1, <2>1, <3>1, Zenon
  <2>2. ASSUME NEW p \in Pc, rq' = [rq EXCEPT ![r].pc = p]
        PROVE  \E q \in Request0 : /\ rq' = [rq EXCEPT ![r] = q] /\ q.cookie <= issued
                                  /\ q.dead = rq[r].dead /\ q.sid = rq[r].sid
    <3> DEFINE q == [rq[r] EXCEPT !.pc = p]
    <3>1. q \in Request0 /\ q.cookie <= issued /\ q.dead = rq[r].dead /\ q.sid = rq[r].sid
      BY <2>0, Zenon DEF Request0
    <3>2. rq' = [rq EXCEPT ![r] = q]
      BY <2>2, Zenon
    <3> QED BY <3>1, <3>2, Zenon
  <2>3. ASSUME NEW p \in Pc, NEW s \in DOMAIN sessions \cup ({issued'} \ {issued}),
               rq' = [rq EXCEPT ![r].pc = p, ![r].sid = s]
        PROVE  \E q \in Request0 : /\ rq' = [rq EXCEPT ![r] = q] /\ q.cookie <= issued
                                  /\ q.dead = rq[r].dead /\ q.sid = s
    <3> DEFINE q == [rq[r] EXCEPT !.pc = p, !.sid = s]
    <3>1. s \in Nat
      BY <1>2, Zenon
    <3>2. q \in Request0 /\ q.cookie <= issued /\ q.dead = rq[r].dead /\ q.sid = s
      BY <2>0, <3>1, Zenon DEF Request0
    <3>3. rq' = [rq EXCEPT ![r] = q]
      BY <2>0, <2>3, Zenon DEF Inv, ReqOK
    <3> QED BY <3>2, <3>3, Zenon
  <2>4. CASE \E p \in Pc : rq' = [rq EXCEPT ![r].pc = p]
    <3>1. \E q \in Request0 : /\ rq' = [rq EXCEPT ![r] = q] /\ q.cookie <= issued
                             /\ q.dead = rq[r].dead /\ q.sid = rq[r].sid
      BY <2>2, <2>4, Zenon
    <3> QED BY <3>1, Zenon
  <2>5. CASE \E p \in Pc, s \in DOMAIN sessions \cup ({issued'} \ {issued}) :
                rq' = [rq EXCEPT ![r].pc = p, ![r].sid = s]
    <3>1. PICK p \in Pc, s \in DOMAIN sessions \cup ({issued'} \ {issued}) :
                rq' = [rq EXCEPT ![r].pc = p, ![r].sid = s]
      BY <2>5, Zenon
    <3>2. \E q \in Request0 : /\ rq' = [rq EXCEPT ![r] = q] /\ q.cookie <= issued
                             /\ q.dead = rq[r].dead /\ q.sid = s
      BY <2>3, <3>1, Zenon
    <3> QED BY <3>2, Zenon
  <2>6. \/ rq' = [rq EXCEPT ![r] = IdleReq]
        \/ \E p \in Pc : rq' = [rq EXCEPT ![r].pc = p]
        \/ \E p \in Pc, s \in DOMAIN sessions \cup ({issued'} \ {issued}) :
              rq' = [rq EXCEPT ![r].pc = p, ![r].sid = s]
    BY <1>5, Moves, Zenon DEF Inv, RevokedOK
  <2> QED BY <2>1, <2>4, <2>5, <2>6, Zenon
<1> QED BY <1>3, <1>4, <1>5, Zenon DEF Next

(* The records stay well formed. *)
LEMMA ReqStep == ASSUME Inv, Next PROVE ReqOK'
<1>1. issued \in Nat /\ issued' \in Nat /\ issued <= issued'
  BY StoreMoves DEF Inv, ReqOK
<1>2. CASE rq' = rq
  BY <1>1, <1>2 DEF Inv, ReqOK, Request0
<1>3. ASSUME NEW r \in Reqs, NEW q \in Request0, rq' = [rq EXCEPT ![r] = q],
             q.cookie <= issued,
             q.sid \in {0, rq[r].sid} \cup DOMAIN sessions \cup ({issued'} \ {issued})
      PROVE  ReqOK'
  <2>1. q.sid <= issued' /\ q.cookie <= issued'
    BY <1>1, <1>3 DEF Inv, ReqOK, RevokedOK, Request0
  <2>2. \A x \in Reqs : x # r => rq'[x] = rq[x]
    BY <1>3, Zenon DEF Inv, ReqOK
  <2>3. rq'[r] = q /\ rq' \in [Reqs -> Request0]
    BY <1>3, Zenon DEF Inv, ReqOK
  <2>4. \A x \in Reqs : rq'[x].cookie <= issued' /\ rq'[x].sid <= issued'
    BY <1>1, <2>1, <2>2, <2>3 DEF Inv, ReqOK, Request0
  <2> QED BY <1>1, <2>3, <2>4, Zenon DEF ReqOK
<1>4. ASSUME NEW r \in Reqs, NEW q \in Request0,
             \/ q.sid = 0 /\ q.dead \subseteq revoked
             \/ q.dead = rq[r].dead
                /\ q.sid \in {rq[r].sid} \cup DOMAIN sessions \cup ({issued'} \ {issued})
      PROVE  q.sid \in {0, rq[r].sid} \cup DOMAIN sessions \cup ({issued'} \ {issued})
  BY <1>4, Zenon
<1> QED BY <1>2, <1>3, <1>4, RqMoves, Zenon

(* Nothing brings a revoked session back, and no request takes it up. *)
LEMMA RevokedStep == ASSUME Inv, Next PROVE RevokedOK'
<1>1. /\ issued \in Nat /\ issued' \in {issued, issued + 1}
      /\ DOMAIN sessions' \subseteq DOMAIN sessions \cup ({issued'} \ {issued})
      /\ DOMAIN sessions \subseteq 1..issued
      /\ revoked \subseteq (1..issued) \ DOMAIN sessions
  BY StoreMoves, Zenon DEF Inv, ReqOK, RevokedOK
<1>2. DOMAIN sessions' \subseteq 1..issued'
  BY <1>1
<1>3. revoked \subseteq revoked' /\ revoked' \subseteq (1..issued') \ DOMAIN sessions'
  <2>1. CASE revoked' = revoked
    BY <1>1, <2>1
  <2>2. ASSUME NEW r \in Reqs, sessions' = Without({rq[r].cookie}), issued' = issued,
               revoked' = revoked \cup ({rq[r].cookie} \ {0})
        PROVE  revoked \subseteq revoked' /\ revoked' \subseteq (1..issued') \ DOMAIN sessions'
    <3>1. rq[r].cookie \in 0..issued
      BY <1>1 DEF Inv, ReqOK, Request0
    <3>2. DOMAIN sessions' = DOMAIN sessions \ {rq[r].cookie}
      BY <2>2, Zenon DEF Without
    <3>3. {rq[r].cookie} \ {0} \subseteq 1..issued
      BY <1>1, <3>1
    <3> QED BY <1>1, <2>2, <3>2, <3>3, Zenon
  <2> QED BY <2>1, <2>2, RevokedMoves, Zenon
<1>4. \A x \in Reqs : rq[x].dead \subseteq revoked /\ rq[x].sid \notin rq[x].dead
  BY Zenon DEF Inv, RevokedOK
<1>5. CASE rq' = rq
  BY <1>2, <1>3, <1>4, <1>5, Zenon DEF RevokedOK
<1>6. ASSUME NEW r \in Reqs, NEW q \in Request0, rq' = [rq EXCEPT ![r] = q],
             \/ q.sid = 0 /\ q.dead \subseteq revoked
             \/ q.dead = rq[r].dead
                /\ q.sid \in {rq[r].sid} \cup DOMAIN sessions \cup ({issued'} \ {issued})
      PROVE  RevokedOK'
  <2>1. q.dead \subseteq revoked
    BY <1>4, <1>6, Zenon
  <2>2. 0 \notin revoked /\ revoked \cap DOMAIN sessions = {}
        /\ revoked \cap ({issued'} \ {issued}) = {}
    BY <1>1
  <2>3. q.sid \notin q.dead
    BY <1>4, <1>6, <2>1, <2>2, Zenon
  <2>4. rq'[r] = q /\ \A x \in Reqs : x # r => rq'[x] = rq[x]
    BY <1>6, Zenon DEF Inv, ReqOK
  <2>5. \A x \in Reqs : rq'[x].dead \subseteq revoked' /\ rq'[x].sid \notin rq'[x].dead
    BY <1>3, <1>4, <2>1, <2>3, <2>4, Zenon
  <2> QED BY <1>2, <1>3, <2>5, Zenon DEF RevokedOK
<1> QED BY <1>5, <1>6, RqMoves, Zenon

(* A secret that has matched is current only while pairing is shut down. *)
LEMMA SecretStep == ASSUME SecretOK, Next PROVE SecretOK'
<1> USE DEF SecretOK, SecretSingleUse
<1>1. CASE UNCHANGED <<secret, invalidated, links, spent>>
  BY <1>1, Zenon
<1>2. CASE Rotate
  BY <1>2 DEF Rotate
<1>3. CASE ShowLink
  BY <1>3 DEF ShowLink
<1>4. ASSUME NEW r \in Reqs, Verify(r) PROVE SecretOK'
  <2>1. links' = links
    BY <1>4, Zenon DEF Verify
  <2>2. CASE UNCHANGED <<spent, secret, invalidated>>
    BY <2>1, <2>2, Zenon
  <2>3. CASE spent' = spent \cup {secret} /\ secret' = secret + 1
    BY <2>1, <2>3
  <2>4. CASE spent' = spent \cup {secret} /\ invalidated' = TRUE /\ secret' = secret
    BY <2>1, <2>4
  <2> QED BY <1>4, <2>2, <2>3, <2>4, Zenon DEF Verify
<1>5. CASE ~(Rotate \/ ShowLink \/ \E r \in Reqs : Verify(r))
  <2>1. UNCHANGED <<secret, invalidated, links, spent>>
    BY <1>5, Zenon DEF Next, Tick, GC, Arrive, Request, Access, SessionLookup, Ensure,
       LookupIdentity, CreateAuto, Origin, Csrf, TypeAndLimit, PairToken, CreatePaired,
       Serve, Logout, pairing
  <2> QED BY <1>1, <2>1, Zenon
<1> QED BY <1>2, <1>3, <1>4, <1>5, Zenon

(* The invariant is kept by every step. *)
LEMMA InvStep == Inv /\ [Next]_vars => Inv'
<1> SUFFICES ASSUME Inv, [Next]_vars PROVE Inv'
  BY Zenon
<1>1. CASE Next
  BY <1>1, ReqStep, RevokedStep, SecretStep, Zenon DEF Inv
<1>2. CASE UNCHANGED vars
  <2>1. UNCHANGED <<sessions, issued, secret, invalidated, links, rq, spent, revoked>>
    BY <1>2, Zenon DEF vars, store, pairing
  <2> QED BY <2>1, Zenon DEF Inv, ReqOK, RevokedOK, SecretOK, SecretSingleUse, Request0
<1> QED BY <1>1, <1>2, Zenon

-----------------------------------------------------------------------------
(* Pairing.Verify and Rotate: the current secret has not matched before,
   unless pairing is shut down. *)
THEOREM SecretsAreSingleUse == Spec => []SecretSingleUse
<1>1. Inv => SecretSingleUse
  BY Zenon DEF Inv, SecretOK
<1> QED BY <1>1, InitInv, InvStep, PTL DEF Spec

(* A request that arrives after a logout is never identified as the session
   that was ended, however many requests, sessions and logouts there are. *)
THEOREM LogoutsAreFinal == Spec => []LogoutIsFinal
<1>1. Inv => LogoutIsFinal
  BY Zenon DEF Inv, RevokedOK, LogoutIsFinal
<1> QED BY <1>1, InitInv, InvStep, PTL DEF Spec

(* Only Verify leads a request to a session, and only on a secret that never
   matched before. *)
LEMMA AdmitStep ==
    ASSUME Inv, Next, NEW r \in Reqs, At(r, "verify"), rq'[r].pc = "paired"
    PROVE  rq[r].given \notin spent
<1> USE DEF Goto, GotoAs, Reject, At
<1>0. rq \in [Reqs -> Request0]
  BY Zenon DEF Inv, ReqOK
<1>1. Verify(r)
  <2>1. rq'[r] # rq[r]
    BY Zenon
  <2>2. PICK x \in Reqs : Arrive(x) \/ Request(x)
    BY <2>1, Zenon DEF Next, Tick, GC, Rotate, ShowLink
  <2>3. x = r
    <3>1. CASE Arrive(x)
      <4>1. revoked \subseteq Nat
        BY DEF Inv, RevokedOK
      <4>2. PICK q \in Request0 : rq' = [rq EXCEPT ![x] = q]
        BY <3>1, <4>1, ArriveMoves, Zenon DEF Inv
      <4> QED BY <1>0, <2>1, <4>2, Zenon
    <3>2. CASE Request(x)
      <4>1. \/ rq' = [rq EXCEPT ![x] = IdleReq]
            \/ \E p \in Pc : rq' = [rq EXCEPT ![x].pc = p]
            \/ \E p \in Pc, s \in DOMAIN sessions \cup ({issued'} \ {issued}) :
                  rq' = [rq EXCEPT ![x].pc = p, ![x].sid = s]
        BY <3>2, Moves, Zenon DEF Inv, RevokedOK
      <4> QED BY <1>0, <2>1, <4>1, Zenon
    <3> QED BY <2>2, <3>1, <3>2, Zenon
  <2> QED BY <2>2, <2>3, Zenon DEF Arrive, Request, Access, SessionLookup, Ensure, LookupIdentity,
          CreateAuto, Origin, Csrf, TypeAndLimit, PairToken, CreatePaired, Serve, Logout
<1>2. ~invalidated /\ rq[r].given = secret
  <2>1. IdleReq.pc # "paired" /\ [rq EXCEPT ![r] = IdleReq][r] = IdleReq
    BY <1>0, Zenon DEF IdleReq
  <2> QED BY <1>1, <2>1, Zenon DEF Verify
<1> QED BY <1>2, Zenon DEF Inv, SecretOK, SecretSingleUse

(* A pairing secret admits at most once: no two requests pair with it. *)
THEOREM SecretsAdmitOnce == Spec => AdmitsOnce
<1>1. Inv /\ [Next]_vars =>
        [\A r \in Reqs : (At(r, "verify") /\ rq'[r].pc = "paired")
                            => rq[r].given \notin spent]_vars
  BY AdmitStep, Zenon
<1> QED BY <1>1, InitInv, InvStep, PTL DEF Spec, AdmitsOnce

-----------------------------------------------------------------------------
(* Quick mode: a session for every secret that matched, and no other. *)

Waiting == {r \in Reqs : At(r, "paired")}

QuickInv ==
    ~Named => /\ \A r \in Reqs : rq[r].pc \notin {"ensure", "lookup", "create"}
              /\ IsFiniteSet(spent)
              /\ issued + Cardinality(Waiting) <= Cardinality(spent)

(* A quick-mode server starts with no session and no secret spent. *)
LEMMA InitQuick == Init => QuickInv
<1> SUFFICES ASSUME Init PROVE QuickInv
  BY Zenon
<1>1. \A r \in Reqs : rq[r].pc = "idle"
  BY Zenon DEF Init, IdleReq
<1>2. Waiting = {} /\ spent = {} /\ issued = 0
  BY <1>1, Zenon DEF Init, Waiting, At
<1>3. IsFiniteSet(spent) /\ Cardinality(spent) = 0 /\ Cardinality(Waiting) = 0
  BY <1>2, FS_EmptySet, Zenon
<1> QED BY <1>1, <1>2, <1>3 DEF QuickInv

(* No step of quick mode reaches the provisioning steps, and only Verify
   reaches "paired". *)
LEMMA QuickMoves ==
    ASSUME Inv, QuickInv, ~Named, Next
    PROVE  /\ \A r \in Reqs : rq'[r].pc \notin {"ensure", "lookup", "create"}
           /\ \A r \in Reqs : rq'[r].pc = "paired" /\ rq[r].pc # "paired" => Verify(r)
<1>0. rq \in [Reqs -> Request0] /\ \A r \in Reqs : rq[r].pc \notin {"ensure", "lookup", "create"}
  BY Zenon DEF Inv, ReqOK, QuickInv
<1>1. CASE rq' = rq
  BY <1>0, <1>1, Zenon
<1>2. ASSUME NEW x \in Reqs, Arrive(x)
      PROVE  rq'[x].pc = "access" /\ \A r \in Reqs : r # x => rq'[r] = rq[r]
  <2>1. revoked \subseteq Nat
    BY DEF Inv, RevokedOK
  <2>2. PICK q \in Request0 : rq' = [rq EXCEPT ![x] = q] /\ q.pc = "access"
    BY <1>2, <2>1, ArriveMoves, Zenon DEF Inv
  <2> QED BY <1>0, <2>2, Zenon
<1>3. ASSUME NEW x \in Reqs, Request(x)
      PROVE  \A r \in Reqs : r # x => rq'[r] = rq[r]
  <2>1. \/ rq' = [rq EXCEPT ![x] = IdleReq]
        \/ \E p \in Pc : rq' = [rq EXCEPT ![x].pc = p]
        \/ \E p \in Pc, s \in DOMAIN sessions \cup ({issued'} \ {issued}) :
              rq' = [rq EXCEPT ![x].pc = p, ![x].sid = s]
    BY <1>3, Moves, Zenon DEF Inv, RevokedOK
  <2> QED BY <1>0, <2>1, Zenon
<1>4. ASSUME NEW x \in Reqs, Request(x)
      PROVE  /\ rq'[x].pc \notin {"ensure", "lookup", "create"}
             /\ rq'[x].pc = "paired" => Verify(x)
  <2> USE DEF Goto, GotoAs, Reject
  <2>0. /\ [rq EXCEPT ![x] = IdleReq][x].pc = "idle"
        /\ \A p \in Pc : [rq EXCEPT ![x].pc = p][x].pc = p
        /\ \A s \in Nat : [rq EXCEPT ![x].pc = "origin", ![x].sid = s][x].pc = "origin"
    BY <1>0, Zenon DEF IdleReq, Request0
  <2>1. ~(Ensure(x) \/ LookupIdentity(x) \/ CreateAuto(x))
    BY <1>0, Zenon DEF Ensure, LookupIdentity, CreateAuto, At
  <2>2. CASE SessionLookup(x)
    <3>1. rq[x].cookie \in Nat
      BY <1>0, Zenon DEF Request0
    <3> QED BY <2>0, <2>2, <3>1, Zenon DEF SessionLookup, Pc
  <2>3. CASE Verify(x)
    BY <2>0, <2>3, Zenon DEF Verify, Pc
  <2>4. CASE Access(x) \/ Origin(x) \/ Csrf(x) \/ TypeAndLimit(x) \/ PairToken(x)
                \/ CreatePaired(x) \/ Serve(x) \/ Logout(x)
    BY <2>0, <2>4, Zenon DEF Access, Origin, Csrf, TypeAndLimit, PairToken, CreatePaired, Serve,
       Logout, Pc
  <2> QED BY <1>4, <2>1, <2>2, <2>3, <2>4, Zenon DEF Request
<1>5. CASE \E x \in Reqs : Arrive(x)
  BY <1>0, <1>2, <1>5, Zenon
<1>6. CASE \E x \in Reqs : Request(x)
  BY <1>0, <1>3, <1>4, <1>6, Zenon
<1>7. CASE Tick \/ GC \/ Rotate \/ ShowLink
  BY <1>1, <1>7, Zenon DEF Tick, GC, Rotate, ShowLink
<1> QED BY <1>5, <1>6, <1>7, Zenon DEF Next

(* A match spends a fresh secret for the one request it lets wait; a session
   is created for a request that stops waiting. *)
LEMMA QuickStep == Inv /\ QuickInv /\ [Next]_vars => QuickInv'
<1> SUFFICES ASSUME Inv, QuickInv, [Next]_vars, ~Named PROVE QuickInv'
  BY Zenon DEF QuickInv
<1>1. CASE UNCHANGED vars
  BY <1>1, Zenon DEF vars, store, QuickInv, Waiting, At
<1>2. CASE Next
  <2>0. /\ \A r \in Reqs : rq'[r].pc \notin {"ensure", "lookup", "create"}
        /\ \A r \in Reqs : rq'[r].pc = "paired" /\ rq[r].pc # "paired" => Verify(r)
    BY <1>2, QuickMoves, Zenon
  <2>1. /\ IsFiniteSet(Waiting) /\ IsFiniteSet(spent)
        /\ Cardinality(Waiting) \in Nat /\ Cardinality(spent) \in Nat /\ issued \in Nat
        /\ issued + Cardinality(Waiting) <= Cardinality(spent)
    <3>1. IsFiniteSet(Waiting)
      BY FS_Subset, AuthAssumption, Zenon DEF Waiting
    <3> QED BY <3>1, FS_CardinalityType, Zenon DEF QuickInv, Inv, ReqOK
  <2>2. ASSUME NEW x \in Reqs, Verify(x) PROVE QuickInv'
    <3>1. issued' = issued
      BY <2>2, Zenon DEF Verify, store
    <3>2. rq \in [Reqs -> Request0]
      BY Zenon DEF Inv, ReqOK
    <3>3. \A r \in Reqs : r # x => rq'[r] = rq[r]
      BY <2>2, <3>2, Zenon DEF Verify, Goto, Reject
    <3>4. CASE ~invalidated /\ rq[x].given = secret
      <4>1. spent' = spent \cup {secret} /\ secret \notin spent
        BY <2>2, <3>4, Zenon DEF Verify, Inv, SecretOK, SecretSingleUse
      <4>2. IsFiniteSet(spent') /\ Cardinality(spent') = Cardinality(spent) + 1
        BY <2>1, <4>1, FS_AddElement, Zenon
      <4>3. Waiting' \subseteq Waiting \cup {x}
        BY <3>3, Zenon DEF Waiting, At
      <4>4. /\ IsFiniteSet(Waiting \cup {x})
            /\ Cardinality(Waiting \cup {x}) <= Cardinality(Waiting) + 1
        BY <2>1, FS_AddElement
      <4>5. Cardinality(Waiting') <= Cardinality(Waiting \cup {x})
            /\ Cardinality(Waiting') \in Nat /\ Cardinality(Waiting \cup {x}) \in Nat
        BY <4>3, <4>4, FS_Subset, FS_CardinalityType, Zenon
      <4>6. issued' + Cardinality(Waiting') <= Cardinality(spent')
        BY <2>1, <3>1, <4>2, <4>4, <4>5
      <4> QED BY <2>0, <4>2, <4>6, Zenon DEF QuickInv
    <3>5. CASE ~(~invalidated /\ rq[x].given = secret)
      <4>1. spent' = spent /\ rq' = [rq EXCEPT ![x] = IdleReq]
        BY <2>2, <3>5, Zenon DEF Verify, Reject
      <4>2. Waiting' \subseteq Waiting
        BY <3>2, <4>1, Zenon DEF Waiting, At, IdleReq
      <4>3. Cardinality(Waiting') <= Cardinality(Waiting) /\ Cardinality(Waiting') \in Nat
        BY <2>1, <4>2, FS_Subset, FS_CardinalityType, Zenon
      <4>4. issued' + Cardinality(Waiting') <= Cardinality(spent')
        BY <2>1, <3>1, <4>1, <4>3
      <4> QED BY <2>0, <2>1, <4>1, <4>4, Zenon DEF QuickInv
    <3> QED BY <3>4, <3>5, Zenon
  <2>3. ASSUME NEW x \in Reqs, CreatePaired(x) PROVE QuickInv'
    <3>1. /\ spent' = spent /\ issued' \in {issued, issued + 1}
          /\ rq' = [rq EXCEPT ![x] = IdleReq] /\ x \in Waiting
      BY <2>3, Zenon DEF CreatePaired, Reject, Create, store, Waiting
    <3>2. Waiting' \subseteq Waiting \ {x}
      BY <3>1, Zenon DEF Waiting, At, IdleReq, Inv, ReqOK
    <3>3. /\ IsFiniteSet(Waiting \ {x})
          /\ Cardinality(Waiting \ {x}) = Cardinality(Waiting) - 1
      BY <2>1, <3>1, FS_RemoveElement, Zenon
    <3>4. Cardinality(Waiting') <= Cardinality(Waiting \ {x}) /\ Cardinality(Waiting') \in Nat
      BY <3>2, <3>3, FS_Subset, FS_CardinalityType, Zenon
    <3>5. issued' + Cardinality(Waiting') <= Cardinality(spent')
      BY <2>1, <3>1, <3>3, <3>4
    <3> QED BY <2>0, <2>1, <3>1, <3>5, Zenon DEF QuickInv
  <2>4. CASE ~\E x \in Reqs : Verify(x) \/ CreatePaired(x)
    <3>1. ~\E x \in Reqs : CreateAuto(x)
      BY Zenon DEF CreateAuto, At, QuickInv
    <3>2. issued' = issued /\ spent' = spent
      BY <1>2, <2>4, <3>1, Zenon DEF Next, Tick, GC, Rotate, ShowLink, Arrive, Request, Access,
         SessionLookup, Ensure, LookupIdentity, Origin, Csrf, TypeAndLimit, PairToken, Serve,
         Logout, store
    <3>3. Waiting' \subseteq Waiting
      BY <2>0, <2>4, Zenon DEF Waiting, At
    <3>4. Cardinality(Waiting') <= Cardinality(Waiting) /\ Cardinality(Waiting') \in Nat
      BY <2>1, <3>3, FS_Subset, FS_CardinalityType, Zenon
    <3>5. issued' + Cardinality(Waiting') <= Cardinality(spent')
      BY <2>1, <3>2, <3>4
    <3> QED BY <2>0, <2>1, <3>2, <3>5, Zenon DEF QuickInv
  <2> QED BY <2>2, <2>3, <2>4, Zenon
<1> QED BY <1>1, <1>2, Zenon

(* Without an edge identity nobody gets a session but by a pairing secret of
   its own: wrap, EnsureSession and Pair in quick mode. *)
THEOREM QuickSessionsArePaired == Spec => []QuickMeansPaired
<1>1. Inv /\ QuickInv => QuickMeansPaired
  <2> SUFFICES ASSUME Inv, QuickInv, ~Named PROVE issued <= Cardinality(spent)
    BY Zenon DEF QuickMeansPaired
  <2>1. IsFiniteSet(Waiting)
    BY FS_Subset, AuthAssumption, Zenon DEF Waiting
  <2>2. Cardinality(Waiting) \in Nat /\ Cardinality(spent) \in Nat /\ issued \in Nat
    BY <2>1, FS_CardinalityType, Zenon DEF QuickInv, Inv, ReqOK
  <2> QED BY <2>2 DEF QuickInv
<1> QED BY <1>1, InitInv, InvStep, InitQuick, QuickStep, PTL DEF Spec

(* Pairing in quick mode as a whole: an unused secret, admission by an unused
   secret only, and a secret behind every session (Pairing.Verify, Rotate). *)
THEOREM PairingIsSound == Spec => PairingSound
BY SecretsAreSingleUse, QuickSessionsArePaired, SecretsAdmitOnce, PTL DEF PairingSound

-----------------------------------------------------------------------------
(* Named mode: the records of the store. *)

Session0 == [subj : Subjects \cup {NoSubject}, created : Nat, seen : Nat, auto : BOOLEAN,
             expires : Nat]

SessOK == clock \in Nat /\ \A s \in DOMAIN sessions : sessions[s] \in Session0

(* Records are removed or stay as they are; a live one may be refreshed. *)
Keeps ==
    \A s \in DOMAIN sessions' :
        /\ s \in DOMAIN sessions
        /\ \/ sessions'[s] = sessions[s]
           \/ s \in Live /\ sessions'[s] = [sessions[s] EXCEPT !.seen = clock]

(* A record is added under a fresh id. *)
Adds(subj, exp, auto) ==
    /\ issued' = issued + 1
    /\ \A s \in DOMAIN sessions' :
          IF s = issued' THEN sessions'[s] = NewSession(subj, exp, auto)
          ELSE s \in DOMAIN sessions /\ sessions'[s] = sessions[s]

(* Deleting sessions leaves the others as they are (delete, janitor). *)
LEMMA WithoutKeeps == ASSUME NEW S, sessions' = Without(S) PROVE Keeps
BY Zenon DEF Keeps, Without

(* Looking a session up keeps every other session (Store.Get). *)
LEMMA GetKeeps == ASSUME NEW s, Get(s) PROVE Keeps
<1>1. CASE s \notin DOMAIN sessions
  BY <1>1, Zenon DEF Get, Keeps
<1>2. CASE s \in DOMAIN sessions /\ Expired(s)
  BY <1>2, WithoutKeeps, Zenon DEF Get
<1>3. CASE s \in DOMAIN sessions /\ ~Expired(s)
  BY <1>3, Zenon DEF Get, Keeps, Live
<1> QED BY <1>1, <1>2, <1>3, Zenon

(* Creating one adds one session of that identity and expiry (Store.Create). *)
LEMMA CreateAdds == ASSUME NEW u, NEW e, NEW a, Create(u, e, a) PROVE Adds(u, e, a)
BY Zenon DEF Create, Adds

(* Every step keeps the records, or creates one for a request that was to be
   provisioned or that paired. *)
LEMMA RecordMoves ==
    ASSUME Next
    PROVE  \/ Keeps
           \/ \E r \in Reqs : CreateAuto(r) /\ Adds(rq[r].subj, rq[r].exp, TRUE)
                              /\ GotoAs(r, "origin", issued + 1)
           \/ \E r \in Reqs : CreatePaired(r) /\ Adds(rq[r].subj, rq[r].exp, FALSE)
<1>1. sessions' = sessions => Keeps
  BY Zenon DEF Keeps
<1>2. CASE GC
  BY <1>2, WithoutKeeps, Zenon DEF GC
<1>3. CASE Tick \/ Rotate \/ ShowLink \/ \E r \in Reqs : Arrive(r)
  BY <1>1, <1>3, Zenon DEF Tick, Rotate, ShowLink, Arrive, store
<1>4. ASSUME NEW r \in Reqs, Request(r)
      PROVE  \/ Keeps
             \/ CreateAuto(r) /\ Adds(rq[r].subj, rq[r].exp, TRUE)
                /\ GotoAs(r, "origin", issued + 1)
             \/ CreatePaired(r) /\ Adds(rq[r].subj, rq[r].exp, FALSE)
  <2>1. CASE SessionLookup(r) \/ Csrf(r)
    BY <2>1, GetKeeps, Zenon DEF SessionLookup, Csrf
  <2>2. CASE LookupIdentity(r)
    <3>1. CASE sessions' = Without(Dead)
      BY <3>1, WithoutKeeps, Zenon
    <3>2. ASSUME NEW s \in Newest(Candidates(rq[r].subj)),
                 sessions' = [Without(Dead) EXCEPT ![s].seen = clock]
          PROVE  Keeps
      <4>1. s \in Live
        BY Zenon DEF Newest, Candidates
      <4> QED BY <3>2, <4>1, Zenon DEF Keeps, Without, Live, Dead
    <3> QED BY <2>2, <3>1, <3>2, Zenon DEF LookupIdentity
  <2>3. CASE CreateAuto(r)
    BY <1>1, <2>3, CreateAdds, Zenon DEF CreateAuto, store
  <2>4. CASE CreatePaired(r)
    BY <1>1, <2>4, CreateAdds, Zenon DEF CreatePaired, store
  <2>5. CASE Logout(r)
    BY <2>5, WithoutKeeps, Zenon DEF Logout
  <2>6. CASE Access(r) \/ Ensure(r) \/ Origin(r) \/ TypeAndLimit(r) \/ PairToken(r)
                \/ Verify(r) \/ Serve(r)
    BY <1>1, <2>6, Zenon DEF Access, Ensure, Origin, TypeAndLimit, PairToken, Verify, Serve, store
  <2> QED BY <1>4, <2>1, <2>2, <2>3, <2>4, <2>5, <2>6, Zenon DEF Request
<1> QED BY <1>2, <1>3, <1>4, Zenon DEF Next

(* Only Tick moves the clock. *)
LEMMA ClockMoves == Next => clock' = clock \/ Tick
BY Zenon DEF Next, GC, Rotate, ShowLink, Arrive, Request, Access, SessionLookup, Ensure,
   LookupIdentity, CreateAuto, Origin, Csrf, TypeAndLimit, PairToken, Verify, CreatePaired,
   Serve, Logout

(* No sessions at first. *)
LEMMA InitSess == Init => SessOK
BY DEF Init, SessOK

(* The records stay well formed: a lifetime is a time, capped or not. *)
LEMMA SessStep == Inv /\ SessOK /\ [Next]_vars => SessOK'
<1> SUFFICES ASSUME Inv, SessOK, [Next]_vars PROVE SessOK'
  BY Zenon
<1>1. CASE UNCHANGED vars
  BY <1>1, Zenon DEF vars, store, SessOK, Session0
<1>2. CASE Next
  <2>1. clock' \in Nat
    BY <1>2, ClockMoves DEF SessOK, Tick
  <2>2. CASE Keeps
    <3>1. ASSUME NEW s \in DOMAIN sessions' PROVE sessions'[s] \in Session0
      <4>1. /\ sessions[s] \in Session0 /\ clock \in Nat
            /\ sessions'[s] \in {sessions[s], [sessions[s] EXCEPT !.seen = clock]}
        BY <2>2, Zenon DEF Keeps, SessOK
      <4> QED BY <4>1, Zenon DEF Session0
    <3> QED BY <2>1, <3>1, Zenon DEF SessOK
  <2>3. ASSUME NEW r \in Reqs, NEW a \in BOOLEAN, Adds(rq[r].subj, rq[r].exp, a) PROVE SessOK'
    <3>1. /\ rq[r].subj \in Subjects \cup {NoSubject} /\ rq[r].exp \in Nat
          /\ clock \in Nat /\ TTL \in Nat
      BY AuthAssumption, Zenon DEF Inv, ReqOK, Request0, SessOK
    <3>2. NewSession(rq[r].subj, rq[r].exp, a) \in Session0
      BY <3>1 DEF NewSession, Session0, Min2
    <3>3. \A s \in DOMAIN sessions' : sessions'[s] \in Session0
      BY <2>3, <3>2, Zenon DEF Adds, SessOK
    <3> QED BY <2>1, <3>3, Zenon DEF SessOK
  <2> QED BY <1>2, <2>2, <2>3, RecordMoves, Zenon
<1> QED BY <1>1, <1>2, Zenon

(* Get, GetByIdentity, ValidateCSRF: no late look-up refreshes a session that
   has expired, by lifetime or by idleness. *)
THEOREM ExpiredSessionsStayDead == Spec => ExpiredStaysDead
<1>1. ASSUME Inv, Next, NEW s \in Dead, s \in DOMAIN sessions'
      PROVE  sessions'[s].seen = sessions[s].seen
  <2>1. CASE Keeps
    BY <1>1, <2>1, Zenon DEF Keeps, Dead
  <2>2. ASSUME NEW u, NEW e, NEW a, Adds(u, e, a) PROVE sessions'[s].seen = sessions[s].seen
    <3>1. s # issued'
      BY <1>1, <2>2 DEF Inv, ReqOK, RevokedOK, Dead, Adds
    <3> QED BY <1>1, <2>2, <3>1, Zenon DEF Adds
  <2> QED BY <1>1, <2>1, <2>2, RecordMoves, Zenon
<1>2. Inv /\ [Next]_vars =>
        [\A s \in Dead : s \in DOMAIN sessions' => sessions'[s].seen = sessions[s].seen]_vars
  BY <1>1, Zenon
<1> QED BY <1>2, InitInv, InvStep, PTL DEF Spec, ExpiredStaysDead

(* A step of one request leaves the others alone. *)
LEMMA OthersStay ==
    ASSUME Inv, NEW x \in Reqs, Arrive(x) \/ Request(x)
    PROVE  \A r \in Reqs \ {x} : rq'[r] = rq[r]
<1>0. rq \in [Reqs -> Request0] /\ revoked \subseteq Nat
  BY DEF Inv, ReqOK, RevokedOK
<1>1. CASE Arrive(x)
  <2>1. PICK q \in Request0 : rq' = [rq EXCEPT ![x] = q]
    BY <1>0, <1>1, ArriveMoves, Zenon DEF Inv
  <2> QED BY <1>0, <2>1, Zenon
<1>2. CASE Request(x)
  <2>1. \/ rq' = [rq EXCEPT ![x] = IdleReq]
        \/ \E p \in Pc : rq' = [rq EXCEPT ![x].pc = p]
        \/ \E p \in Pc, s \in DOMAIN sessions \cup ({issued'} \ {issued}) :
              rq' = [rq EXCEPT ![x].pc = p, ![x].sid = s]
    BY <1>2, Moves, Zenon DEF Inv, RevokedOK
  <2> QED BY <1>0, <2>1, Zenon
<1> QED BY <1>1, <1>2, Zenon

(* The step of a request that is being provisioned is its own. *)
LEMMA OwnStep ==
    ASSUME Inv, Next, NEW r \in Reqs, rq'[r] # rq[r]
    PROVE  Arrive(r) \/ Request(r)
<1>1. PICK x \in Reqs : Arrive(x) \/ Request(x)
  BY Zenon DEF Next, Tick, GC, Rotate, ShowLink
<1> QED BY <1>1, OthersStay, Zenon

(* EnsureSession: a provisioned request runs as the subject of its own token,
   whichever session it found or created, and whoever else is provisioned. *)
THEOREM ProvisionedSessionsAreOwn == Spec => ProvisionedIsOwn
<1>1. ASSUME Inv, SessOK, Next, NEW r \in Reqs, At(r, "lookup") \/ At(r, "create"),
             rq'[r].pc = "origin"
      PROVE  sessions'[rq'[r].sid].subj = rq[r].subj
  <2>0. rq \in [Reqs -> Request0] /\ issued \in Nat
    BY <1>1, Zenon DEF Inv, ReqOK
  <2>1. /\ \A s : [rq EXCEPT ![r].pc = "origin", ![r].sid = s][r].sid = s
        /\ [rq EXCEPT ![r].pc = "create"][r].pc = "create"
        /\ [rq EXCEPT ![r] = IdleReq][r].pc = "idle"
    BY <2>0, Zenon DEF Request0, IdleReq
  <2>2. LookupIdentity(r) \/ CreateAuto(r)
    BY <1>1, OwnStep, Zenon DEF At, Arrive, Request, Access, SessionLookup, Ensure, Origin, Csrf,
       TypeAndLimit, PairToken, Verify, CreatePaired, Serve, Logout
  <2>3. CASE LookupIdentity(r)
    <3>1. PICK s \in Newest(Candidates(rq[r].subj)) :
            /\ sessions' = [Without(Dead) EXCEPT ![s].seen = clock]
            /\ GotoAs(r, "origin", s)
      BY <1>1, <2>1, <2>3, Zenon DEF LookupIdentity, Goto
    <3>2. s \in Live /\ sessions[s].subj = rq[r].subj
      BY Zenon DEF Newest, Candidates
    <3>3. sessions'[s].subj = sessions[s].subj
      BY <3>1, <3>2 DEF Without, Live, Dead
    <3> QED BY <2>1, <3>1, <3>2, <3>3, Zenon DEF GotoAs
  <2>4. CASE CreateAuto(r)
    <3>1. Create(rq[r].subj, rq[r].exp, TRUE) /\ GotoAs(r, "origin", issued + 1)
      BY <1>1, <2>1, <2>4, Zenon DEF CreateAuto, Reject
    <3>2. sessions'[issued + 1].subj = rq[r].subj
      BY <3>1, Zenon DEF Create, NewSession
    <3> QED BY <2>1, <3>1, <3>2, Zenon DEF GotoAs
  <2> QED BY <2>2, <2>3, <2>4, Zenon
<1>2. Inv /\ SessOK /\ [Next]_vars =>
        [\A r \in Reqs : (At(r, "lookup") \/ At(r, "create")) /\ rq'[r].pc = "origin"
                            => sessions'[rq'[r].sid].subj = rq[r].subj]_vars
  BY <1>1, Zenon
<1> QED BY <1>2, InitInv, InvStep, InitSess, SessStep, PTL DEF Spec, ProvisionedIsOwn

LiveAuto(u) == {s \in Live : sessions[s].auto /\ sessions[s].subj = u}
Creating(u) == {r \in Reqs : At(r, "create") /\ rq[r].subj = u}

(* No session comes back to life: time only ends them, and a refresh is of one
   that is live. *)
LEMMA LiveShrinks ==
    ASSUME SessOK, SessOK', clock <= clock', NEW s \in DOMAIN sessions, s \in DOMAIN sessions',
           s \in Live', sessions'[s] = sessions[s]
    PROVE  s \in Live
<1>1. /\ clock \in Nat /\ clock' \in Nat /\ Idle \in Nat
      /\ sessions[s].seen \in Nat /\ sessions[s].expires \in Nat
  BY AuthAssumption, Zenon DEF SessOK, Session0
<1>2. ~ExpiredAt(sessions[s], clock')
  BY Zenon DEF Live, Expired
<1>3. ~ExpiredAt(sessions[s], clock)
  BY <1>1, <1>2 DEF ExpiredAt
<1> QED BY <1>3, Zenon DEF Live, Expired

(* The sessions EnsureSession made for an identity only shrink while none is added. *)
LEMMA LiveAutoShrinks ==
    ASSUME SessOK, SessOK', clock <= clock', Keeps, NEW u
    PROVE  LiveAuto(u)' \subseteq LiveAuto(u)
<1> SUFFICES ASSUME NEW s \in Live', sessions'[s].auto, sessions'[s].subj = u
             PROVE  s \in Live /\ sessions[s].auto /\ sessions[s].subj = u
  BY Zenon DEF LiveAuto
<1>1. s \in DOMAIN sessions' /\ s \in DOMAIN sessions
  BY Zenon DEF Live, Keeps
<1>2. sessions[s] \in Session0
  BY <1>1, Zenon DEF SessOK
<1>3. CASE sessions'[s] = sessions[s]
  BY <1>1, <1>3, LiveShrinks, Zenon
<1>4. CASE s \in Live /\ sessions'[s] = [sessions[s] EXCEPT !.seen = clock]
  BY <1>2, <1>4, Zenon DEF Session0
<1> QED BY <1>1, <1>3, <1>4, Zenon DEF Keeps

(* Only a look-up that finds nothing leads a request to create a session. *)
LEMMA CreatingMoves ==
    ASSUME Inv, Next, NEW r \in Reqs, rq'[r].pc = "create"
    PROVE  /\ rq'[r].subj = rq[r].subj
           /\ \/ At(r, "create") /\ ~CreateAuto(r)
              \/ LookupIdentity(r) /\ Candidates(rq[r].subj) = {}
<1>0. rq \in [Reqs -> Request0] /\ revoked \subseteq Nat
  BY DEF Inv, ReqOK, RevokedOK
<1>1. /\ [rq EXCEPT ![r] = IdleReq][r].pc = "idle"
      /\ \A p \in Pc : [rq EXCEPT ![r].pc = p][r].pc = p
      /\ \A p \in Pc : [rq EXCEPT ![r].pc = p][r].subj = rq[r].subj
      /\ \A s : [rq EXCEPT ![r].pc = "origin", ![r].sid = s][r].pc = "origin"
  BY <1>0, Zenon DEF IdleReq, Request0
<1>2. ~Arrive(r)
  <2>1. SUFFICES ASSUME Arrive(r) PROVE FALSE
    BY Zenon
  <2>2. PICK q \in Request0 : rq' = [rq EXCEPT ![r] = q] /\ q.pc = "access"
    BY <1>0, <2>1, ArriveMoves, Zenon DEF Inv
  <2> QED BY <1>0, <2>2, Zenon
<1>3. ~CreateAuto(r)
  BY <1>1, Zenon DEF CreateAuto, Reject, GotoAs
<1>4. CASE rq'[r] = rq[r]
  BY <1>3, <1>4, Zenon DEF At
<1>5. CASE rq'[r] # rq[r]
  <2>1. Request(r)
    BY <1>2, <1>5, OwnStep, Zenon
  <2>2. LookupIdentity(r)
    <3> USE DEF Reject, Goto, GotoAs, Pc
    <3>0. ~SessionLookup(r)
      <4>1. [rq EXCEPT ![r].pc = "origin", ![r].sid = rq[r].cookie][r].pc = "origin"
        BY <1>1
      <4> QED BY <1>1, <4>1, Zenon DEF SessionLookup
    <3>1. ~Verify(r)
      BY <1>1, Zenon DEF Verify
    <3>2. ~(Access(r) \/ Ensure(r) \/ Origin(r) \/ Csrf(r) \/ TypeAndLimit(r) \/ PairToken(r))
      BY <1>1, Zenon DEF Access, Ensure, Origin, Csrf, TypeAndLimit, PairToken
    <3>3. ~(CreatePaired(r) \/ Serve(r) \/ Logout(r))
      BY <1>1, Zenon DEF CreatePaired, Serve, Logout
    <3> QED BY <1>3, <2>1, <3>0, <3>1, <3>2, <3>3, Zenon DEF Request
  <2>3. Candidates(rq[r].subj) = {} /\ Goto(r, "create")
    BY <1>1, <2>2, Zenon DEF LookupIdentity, GotoAs
  <2> QED BY <1>1, <2>2, <2>3, Zenon DEF Goto, Pc
<1> QED BY <1>4, <1>5, Zenon

(* What a creation adds to the live sessions of an identity. *)
LEMMA LiveAutoAdds ==
    ASSUME SessOK, SessOK', clock <= clock', NEW u, NEW v, NEW e, NEW a, Adds(v, e, a)
    PROVE  LiveAuto(u)' \subseteq LiveAuto(u) \cup (IF a /\ v = u THEN {issued'} ELSE {})
<1> SUFFICES ASSUME NEW s \in Live', sessions'[s].auto, sessions'[s].subj = u
             PROVE  s \in LiveAuto(u) \/ (a /\ v = u /\ s = issued')
  BY Zenon DEF LiveAuto
<1>1. s \in DOMAIN sessions'
  BY Zenon DEF Live
<1>2. CASE s = issued'
  BY <1>1, <1>2 DEF Adds, NewSession
<1>3. CASE s # issued'
  <2>1. s \in DOMAIN sessions /\ sessions'[s] = sessions[s]
    BY <1>1, <1>3, Zenon DEF Adds
  <2> QED BY <1>1, <2>1, LiveShrinks, Zenon DEF LiveAuto
<1> QED BY <1>2, <1>3, Zenon

(* The sets that are counted are finite. *)
LEMMA SetsFinite ==
    ASSUME Inv, NEW u
    PROVE  /\ IsFiniteSet(LiveAuto(u)) /\ Cardinality(LiveAuto(u)) \in Nat
           /\ IsFiniteSet(Creating(u)) /\ Cardinality(Creating(u)) \in Nat
<1>1. issued \in Nat /\ LiveAuto(u) \subseteq 1..issued
  BY Zenon DEF Inv, ReqOK, RevokedOK, LiveAuto, Live
<1>2. IsFiniteSet(1..issued)
  BY <1>1, FS_Interval
<1>3. IsFiniteSet(LiveAuto(u))
  BY <1>1, <1>2, FS_Subset, Zenon
<1>4. IsFiniteSet(Creating(u))
  BY FS_Subset, AuthAssumption, Zenon DEF Creating
<1> QED BY <1>3, <1>4, FS_CardinalityType, Zenon

(* A look-up lets a request create a session only when its identity has none;
   a creation turns one request into one session; nothing else adds either. *)
LEMMA BoundStep == Inv /\ SessOK /\ SessOK' /\ BoundedPerIdentity /\ Next => BoundedPerIdentity'
<1> SUFFICES ASSUME Inv, SessOK, SessOK', BoundedPerIdentity, Next, NEW u \in Subjects
             PROVE  Cardinality(LiveAuto(u)') + Cardinality(Creating(u)') <= Cardinality(Reqs)
  BY Zenon DEF BoundedPerIdentity, LiveAuto, Creating
<1>0. /\ IsFiniteSet(LiveAuto(u)) /\ Cardinality(LiveAuto(u)) \in Nat
      /\ IsFiniteSet(Creating(u)) /\ Cardinality(Creating(u)) \in Nat
      /\ Cardinality(Reqs) \in Nat
      /\ Cardinality(LiveAuto(u)) + Cardinality(Creating(u)) <= Cardinality(Reqs)
  <2>1. Cardinality(Reqs) \in Nat
    BY FS_CardinalityType, AuthAssumption, Zenon
  <2> QED BY <2>1, SetsFinite, Zenon DEF BoundedPerIdentity, LiveAuto, Creating
<1>1. clock <= clock'
  BY ClockMoves DEF SessOK, Tick
<1>2. ASSUME NEW S, NEW T, IsFiniteSet(S), T \subseteq S
      PROVE  Cardinality(T) \in Nat /\ Cardinality(T) <= Cardinality(S)
  BY <1>2, FS_Subset, FS_CardinalityType, Zenon
<1>3. ASSUME NEW r \in Creating(u)'
      PROVE  \/ r \in Creating(u) /\ ~CreateAuto(r)
             \/ LookupIdentity(r) /\ Candidates(u) = {}
  BY <1>3, CreatingMoves, Zenon DEF Creating, At
<1>4. CASE Keeps /\ \E r \in Reqs : LookupIdentity(r) /\ Candidates(u) = {}
  <2>1. LiveAuto(u)' = {}
    BY <1>1, <1>4, LiveAutoShrinks, Zenon DEF LiveAuto, Candidates
  <2>2. Cardinality(LiveAuto(u)') = 0
    BY <2>1, FS_EmptySet, Zenon
  <2>3. Cardinality(Creating(u)') \in Nat /\ Cardinality(Creating(u)') <= Cardinality(Reqs)
    <3>1. Creating(u)' \subseteq Reqs
      BY Zenon DEF Creating
    <3> QED BY <1>2, <3>1, AuthAssumption, Zenon
  <2> QED BY <2>2, <2>3
<1>5. CASE Keeps /\ ~\E r \in Reqs : LookupIdentity(r) /\ Candidates(u) = {}
  <2>1. LiveAuto(u)' \subseteq LiveAuto(u)
    BY <1>1, <1>5, LiveAutoShrinks, Zenon
  <2>2. Creating(u)' \subseteq Creating(u)
    BY <1>3, <1>5, Zenon DEF Creating
  <2> QED BY <1>0, <1>2, <2>1, <2>2
<1>6. ASSUME NEW x \in Reqs, CreateAuto(x), Adds(rq[x].subj, rq[x].exp, TRUE)
      PROVE  Cardinality(LiveAuto(u)') + Cardinality(Creating(u)') <= Cardinality(Reqs)
  <2>1. \A r \in Reqs : ~LookupIdentity(r)
    BY <1>6 DEF Adds, LookupIdentity, Inv, ReqOK
  <2>2. Creating(u)' \subseteq Creating(u) \ {x}
    BY <1>3, <1>6, <2>1, Zenon DEF Creating
  <2>3. CASE rq[x].subj = u
    <3>1. LiveAuto(u)' \subseteq LiveAuto(u) \cup {issued'}
      BY <1>1, <1>6, <2>3, LiveAutoAdds, Zenon
    <3>2. x \in Creating(u)
      BY <1>6, <2>3, Zenon DEF CreateAuto, Creating
    <3>3. /\ IsFiniteSet(LiveAuto(u) \cup {issued'})
          /\ Cardinality(LiveAuto(u) \cup {issued'}) <= Cardinality(LiveAuto(u)) + 1
          /\ Cardinality(LiveAuto(u) \cup {issued'}) \in Nat
      <4>1. /\ IsFiniteSet(LiveAuto(u) \cup {issued'})
            /\ \/ Cardinality(LiveAuto(u) \cup {issued'}) = Cardinality(LiveAuto(u))
               \/ Cardinality(LiveAuto(u) \cup {issued'}) = Cardinality(LiveAuto(u)) + 1
        BY <1>0, FS_AddElement, Zenon
      <4> QED BY <1>0, <4>1
    <3>4. /\ IsFiniteSet(Creating(u) \ {x})
          /\ Cardinality(Creating(u) \ {x}) = Cardinality(Creating(u)) - 1
      BY <1>0, <3>2, FS_RemoveElement, Zenon
    <3>5. /\ Cardinality(LiveAuto(u)') \in Nat
          /\ Cardinality(LiveAuto(u)') <= Cardinality(LiveAuto(u) \cup {issued'})
      BY <1>2, <3>1, <3>3, Zenon
    <3>6. /\ Cardinality(Creating(u)') \in Nat
          /\ Cardinality(Creating(u)') <= Cardinality(Creating(u) \ {x})
      BY <1>2, <2>2, <3>4, Zenon
    <3> QED BY <1>0, <3>3, <3>4, <3>5, <3>6
  <2>4. CASE rq[x].subj # u
    <3>1. LiveAuto(u)' \subseteq LiveAuto(u)
      BY <1>1, <1>6, <2>4, LiveAutoAdds, Zenon
    <3>2. Creating(u)' \subseteq Creating(u)
      BY <2>2, Zenon
    <3> QED BY <1>0, <1>2, <3>1, <3>2
  <2> QED BY <2>3, <2>4, Zenon
<1>7. ASSUME NEW x \in Reqs, CreatePaired(x), Adds(rq[x].subj, rq[x].exp, FALSE)
      PROVE  Cardinality(LiveAuto(u)') + Cardinality(Creating(u)') <= Cardinality(Reqs)
  <2>1. \A r \in Reqs : ~LookupIdentity(r)
    BY <1>7 DEF Adds, LookupIdentity, Inv, ReqOK
  <2>2. Creating(u)' \subseteq Creating(u)
    BY <1>3, <2>1, Zenon DEF Creating
  <2>3. LiveAuto(u)' \subseteq LiveAuto(u)
    BY <1>1, <1>7, LiveAutoAdds, Zenon
  <2> QED BY <1>0, <1>2, <2>2, <2>3
<1> QED BY <1>4, <1>5, <1>6, <1>7, RecordMoves, Zenon

(* EnsureSession looks up and creates in two critical sections; all the same
   one identity never has more provisioned sessions, alive or about to be
   created, than requests that run at once, however long the server runs. *)
THEOREM SessionsPerIdentityAreBounded == Spec => []BoundedPerIdentity
<1>1. Init => BoundedPerIdentity
  <2> SUFFICES ASSUME Init, NEW u \in Subjects
               PROVE  Cardinality(LiveAuto(u)) + Cardinality(Creating(u)) <= Cardinality(Reqs)
    BY Zenon DEF BoundedPerIdentity, LiveAuto, Creating
  <2>1. LiveAuto(u) = {}
    BY Zenon DEF Init, LiveAuto, Live
  <2>2. Creating(u) = {}
    BY Zenon DEF Init, Creating, At, IdleReq
  <2>3. Cardinality(Reqs) \in Nat
    BY FS_CardinalityType, AuthAssumption, Zenon
  <2> QED BY <2>1, <2>2, <2>3, FS_EmptySet
<1>2. BoundedPerIdentity /\ UNCHANGED vars => BoundedPerIdentity'
  BY Zenon DEF vars, store, BoundedPerIdentity, Live, Expired, At
<1> QED BY <1>1, <1>2, BoundStep, InitInv, InvStep, InitSess, SessStep, PTL DEF Spec

-----------------------------------------------------------------------------
(* The signing keys. *)

Results == {"none", "ok", "failed"}
Flying == {"attempt", "fetch", "body", "done", "unmap"}
Steps == {"idle", "do", "wait", "reread", "verify"} \cup Flying
Answers == [is : {"none", "key", "unknown", "unavailable"}, at : Nat]
Flights == [leader : Callers, result : Results]

KeysTyped ==
    /\ wall \in Nat /\ published \in Nat /\ doc \in Nat /\ fetchedAt \in Nat
    /\ call \in {NoCall} \cup Flights
    /\ pc \in [Callers -> Steps] /\ lead \in [Callers -> Results]
    /\ reply \in [Callers -> Nat] /\ started \in [Callers -> Nat]
    /\ answer \in [Callers -> Answers]

(* There is one refresh at a time, the one in singleflight's map; its result is
   there once its leader has announced it. *)
OneFlight ==
    /\ \A c \in Callers : pc[c] \in Flying => call # NoCall /\ call.leader = c
    /\ call # NoCall =>
          /\ pc[call.leader] \in Flying
          /\ call.result = IF pc[call.leader] = "unmap" THEN lead[call.leader] ELSE "none"

(* What the flight brings is no older than what the cache has. *)
NewerReply ==
    /\ doc <= published
    /\ \A c \in Callers : pc[c] = "body" => doc <= reply[c] /\ reply[c] <= published

(* Whoever is told of a success finds keys fetched after it came. *)
SuccessIsRecent ==
    /\ fetchedAt <= wall
    /\ \A c \in Callers :
          /\ started[c] <= wall
          /\ lead[c] = "ok" => started[c] <= fetchedAt
          /\ lead[c] = "ok" /\ pc[c] \in {"done", "unmap"} => fetchedAt = wall

KeyInv == KeysTyped /\ OneFlight /\ NewerReply /\ SuccessIsRecent /\ StaleKeyBounded

(* The durations are numbers, and no flight is no call. *)
LEMMA KeyNumbers == KeyTTL \in Nat /\ MinRefresh \in Nat /\ MaxDoc \in Nat /\ NoCall \notin Flights
BY KeyAssumption, Zenon DEF NoCall, Flights

(* No keys, no flight (NewJWKS). *)
LEMMA InitKeys == KeyInit => KeyInv
<1> SUFFICES ASSUME KeyInit PROVE KeyInv
  BY Zenon
<1>1. KeysTyped
  BY Zenon DEF KeyInit, KeysTyped, NoAnswer, Answers, Steps, Results
<1>2. OneFlight /\ NewerReply /\ SuccessIsRecent
  BY DEF KeyInit, OneFlight, NewerReply, SuccessIsRecent, Flying
<1>3. StaleKeyBounded
  BY Zenon DEF KeyInit, StaleKeyBounded, NoAnswer
<1> QED BY <1>1, <1>2, <1>3, Zenon DEF KeyInv

(* The environment: the endpoint rotates its keys, time passes. *)
LEMMA KeysOutside == KeyInv /\ (RotateKeys \/ WallTick) => KeyInv'
<1> SUFFICES ASSUME KeyInv, RotateKeys \/ WallTick PROVE KeyInv'
  BY Zenon
<1>0. UNCHANGED <<doc, fetchedAt, call, pc, started, answer, lead, reply>>
  BY Zenon DEF RotateKeys, WallTick, cache, caller
<1> USE DEF KeyInv
<1>1. CASE RotateKeys
  <2>1. published' = published + 1 /\ wall' = wall
    BY <1>1, Zenon DEF RotateKeys
  <2>2. KeysTyped' /\ OneFlight' /\ SuccessIsRecent' /\ StaleKeyBounded'
    BY <1>0, <2>1 DEF KeysTyped, OneFlight, SuccessIsRecent, StaleKeyBounded
  <2>3. NewerReply'
    BY <1>0, <2>1 DEF KeysTyped, NewerReply
  <2> QED BY <2>2, <2>3, Zenon
<1>2. CASE WallTick
  <2>1. /\ published' = published /\ wall' = wall + 1
        /\ \A c \in Callers : pc[c] \notin {"done", "unmap"}
    BY <1>2, Zenon DEF WallTick
  <2>2. KeysTyped' /\ OneFlight' /\ NewerReply' /\ StaleKeyBounded'
    BY <1>0, <2>1 DEF KeysTyped, OneFlight, NewerReply, StaleKeyBounded
  <2>3. SuccessIsRecent'
    BY <1>0, <2>1 DEF KeysTyped, SuccessIsRecent
  <2> QED BY <2>2, <2>3, Zenon
<1> QED BY <1>1, <1>2, Zenon

(* A caller that is on its own, before the refresh and after it. *)
LEMMA KeysAlone ==
    ASSUME KeyInv, NEW c \in Callers, Lookup(c) \/ Wake(c) \/ Reread(c) \/ VerifyToken(c)
    PROVE  KeyInv'
<1> USE KeyNumbers DEF KeyInv, Proceed, Return
<1>1. CASE Lookup(c)
  <2>1. PICK is \in {"key", "unknown", "none"}, to \in {"verify", "do"} :
          /\ is = "key" => Fresh
          /\ answer' = [answer EXCEPT ![c] = [is |-> is, at |-> fetchedAt]]
          /\ pc' = [pc EXCEPT ![c] = to]
    BY <1>1, Zenon DEF Lookup
  <2>2. /\ pc[c] = "idle"
        /\ started' = [started EXCEPT ![c] = wall]
        /\ lead' = [lead EXCEPT ![c] = "none"]
        /\ UNCHANGED <<wall, published, doc, fetchedAt, call, reply>>
    BY <1>1, Zenon DEF Lookup, cache
  <2>3. KeysTyped'
    BY <2>1, <2>2, Zenon DEF KeysTyped, Steps, Results, Answers
  <2>4. OneFlight'
    BY <2>1, <2>2, Zenon DEF KeysTyped, OneFlight, Flying, Flights
  <2>5. NewerReply' /\ SuccessIsRecent'
    BY <2>1, <2>2 DEF KeysTyped, NewerReply, SuccessIsRecent
  <2>6. StaleKeyBounded'
    BY <2>1, <2>2 DEF KeysTyped, StaleKeyBounded, Fresh
  <2> QED BY <2>3, <2>4, <2>5, <2>6, Zenon
<1>2. CASE Wake(c)
  <2>1. /\ pc[c] = "wait" /\ pc' = [pc EXCEPT ![c] = "reread"]
        /\ UNCHANGED <<wall, published, doc, fetchedAt, call, started, answer, lead, reply>>
    BY <1>2, Zenon DEF Wake, cache
  <2>2. KeysTyped'
    BY <2>1, Zenon DEF KeysTyped, Steps
  <2>3. OneFlight'
    BY <2>1, Zenon DEF KeysTyped, OneFlight, Flying, Flights
  <2>4. NewerReply' /\ SuccessIsRecent' /\ StaleKeyBounded'
    BY <2>1, Zenon DEF KeysTyped, NewerReply, SuccessIsRecent, StaleKeyBounded
  <2> QED BY <2>2, <2>3, <2>4, Zenon
<1>3. CASE Reread(c)
  <2> DEFINE is == IF lead[c] = "ok"
                   THEN IF Holds(doc, kid[c]) THEN "key" ELSE "unknown"
                   ELSE IF Holds(doc, kid[c]) /\ Acceptable THEN "key" ELSE "unavailable"
  <2>0. answer' = [answer EXCEPT ![c] = [is |-> is, at |-> fetchedAt]]
    BY <1>3, Zenon DEF Reread
  <2>a. /\ is \in {"key", "unknown", "unavailable"}
        /\ is = "key" => lead[c] = "ok" \/ Acceptable
    BY Zenon
  <2> HIDE DEF is
  <2>1. /\ is \in {"key", "unknown", "unavailable"}
        /\ is = "key" => lead[c] = "ok" \/ Acceptable
        /\ answer' = [answer EXCEPT ![c] = [is |-> is, at |-> fetchedAt]]
    BY <2>0, <2>a, Zenon
  <2>2. /\ pc[c] = "reread" /\ pc' = [pc EXCEPT ![c] = "verify"]
        /\ UNCHANGED <<wall, published, doc, fetchedAt, call, started, lead, reply>>
    BY <1>3, Zenon DEF Reread, cache
  <2>3. KeysTyped'
    BY <2>1, <2>2, Zenon DEF KeysTyped, Steps, Answers
  <2>4. OneFlight'
    BY <2>2, Zenon DEF KeysTyped, OneFlight, Flying, Flights
  <2>5. NewerReply' /\ SuccessIsRecent'
    BY <2>2, Zenon DEF KeysTyped, NewerReply, SuccessIsRecent
  <2>6. StaleKeyBounded'
    BY <2>1, <2>2 DEF KeysTyped, StaleKeyBounded, SuccessIsRecent, Acceptable
  <2> QED BY <2>3, <2>4, <2>5, <2>6, Zenon
<1>4. CASE VerifyToken(c)
  <2>1. /\ pc[c] = "verify" /\ pc' = [pc EXCEPT ![c] = "idle"]
        /\ answer' = [answer EXCEPT ![c] = NoAnswer]
        /\ UNCHANGED <<wall, published, doc, fetchedAt, call, started, lead, reply>>
    BY <1>4, Zenon DEF VerifyToken, cache
  <2>2. KeysTyped'
    BY <2>1, Zenon DEF KeysTyped, Steps, Answers, NoAnswer
  <2>3. OneFlight'
    BY <2>1, Zenon DEF KeysTyped, OneFlight, Flying, Flights
  <2>4. NewerReply' /\ SuccessIsRecent'
    BY <2>1, Zenon DEF KeysTyped, NewerReply, SuccessIsRecent
  <2>5. StaleKeyBounded'
    BY <2>1, Zenon DEF KeysTyped, StaleKeyBounded, NoAnswer
  <2> QED BY <2>2, <2>3, <2>4, <2>5, Zenon
<1> QED BY <1>1, <1>2, <1>3, <1>4, Zenon

(* The flight: the one caller that refreshes, and those that join it. *)
LEMMA KeysFlight ==
    ASSUME KeyInv, NEW c \in Callers,
           \/ Join(c) \/ Attempt(c) \/ Respond(c) \/ Install(c) \/ FetchFails(c)
           \/ Announce(c) \/ Unmap(c)
    PROVE  KeyInv'
<1> USE KeyNumbers DEF KeyInv, Proceed
<1>1. CASE Join(c) /\ call = NoCall
  <2>1. /\ pc[c] = "do" /\ pc' = [pc EXCEPT ![c] = "attempt"]
        /\ call' = [leader |-> c, result |-> "none"]
        /\ UNCHANGED <<wall, published, doc, fetchedAt, started, answer, lead, reply>>
    BY <1>1, Zenon DEF Join, cache
  <2>2. \A x \in Callers : pc[x] \notin Flying
    BY <1>1, Zenon DEF OneFlight
  <2>3. call' \in Flights
    BY <2>1, Zenon DEF Flights, Results
  <2>4. KeysTyped'
    BY <2>1, <2>3, Zenon DEF KeysTyped, Steps, Flying
  <2>5. OneFlight'
    BY <2>1, <2>2, <2>3, Zenon DEF KeysTyped, OneFlight, Flying
  <2>6. NewerReply' /\ SuccessIsRecent' /\ StaleKeyBounded'
    BY <2>1, Zenon DEF KeysTyped, NewerReply, SuccessIsRecent, StaleKeyBounded
  <2> QED BY <2>4, <2>5, <2>6, Zenon
<1>2. CASE Join(c) /\ call # NoCall
  <2>1. /\ pc[c] = "do" /\ pc' = [pc EXCEPT ![c] = "wait"]
        /\ lead' = [lead EXCEPT ![c] = call.result]
        /\ UNCHANGED <<wall, published, doc, fetchedAt, call, started, answer, reply>>
    BY <1>2, Zenon DEF Join, cache
  <2>2. call \in Flights /\ call.leader \in Callers /\ call.result \in Results
    BY <1>2, Zenon DEF KeysTyped, Flights
  <2>3. call.leader # c
    BY <1>2, <2>1, Zenon DEF OneFlight, Flying
  <2>4. call.result = "ok" => fetchedAt = wall
    BY <1>2, <2>2, Zenon DEF OneFlight, SuccessIsRecent
  <2>5. KeysTyped'
    BY <2>1, <2>2, Zenon DEF KeysTyped, Steps
  <2>6. OneFlight'
    BY <2>1, <2>2, <2>3, Zenon DEF KeysTyped, OneFlight, Flying
  <2>7. NewerReply' /\ StaleKeyBounded'
    BY <2>1, Zenon DEF KeysTyped, NewerReply, StaleKeyBounded
  <2>8. SuccessIsRecent'
    BY <2>1, <2>4, Zenon DEF KeysTyped, SuccessIsRecent
  <2> QED BY <2>5, <2>6, <2>7, <2>8, Zenon
<1>3. CASE Attempt(c) \/ Respond(c)
  <2>1. /\ \/ pc[c] = "attempt" /\ pc' = [pc EXCEPT ![c] = "fetch"] /\ reply' = reply
           \/ /\ pc[c] = "fetch" /\ pc' = [pc EXCEPT ![c] = "body"]
              /\ reply' = [reply EXCEPT ![c] = published]
        /\ UNCHANGED <<wall, published, doc, fetchedAt, call, started, answer, lead>>
    BY <1>3, Zenon DEF Attempt, Respond, cache
  <2>2. KeysTyped'
    BY <2>1, Zenon DEF KeysTyped, Steps, Flying
  <2>3. OneFlight'
    BY <2>1, Zenon DEF KeysTyped, OneFlight, Flying, Flights
  <2>4. NewerReply'
    BY <2>1 DEF KeysTyped, NewerReply
  <2>5. SuccessIsRecent' /\ StaleKeyBounded'
    BY <2>1, Zenon DEF KeysTyped, SuccessIsRecent, StaleKeyBounded
  <2> QED BY <2>2, <2>3, <2>4, <2>5, Zenon
<1>4. CASE Install(c)
  <2>1. /\ pc[c] = "body" /\ pc' = [pc EXCEPT ![c] = "done"]
        /\ doc' = reply[c] /\ fetchedAt' = wall
        /\ lead' = [lead EXCEPT ![c] = "ok"]
        /\ UNCHANGED <<wall, published, call, started, answer, reply>>
    BY <1>4, Zenon DEF Install
  <2>2. KeysTyped'
    BY <2>1, Zenon DEF KeysTyped, Steps, Flying, Results
  <2>3. OneFlight'
    BY <2>1, Zenon DEF KeysTyped, OneFlight, Flying, Flights
  <2>4. \A x \in Callers : pc'[x] # "body"
    BY <2>1, Zenon DEF KeysTyped, OneFlight, Flying
  <2>5. NewerReply'
    BY <2>1, <2>4, Zenon DEF KeysTyped, NewerReply
  <2>6. SuccessIsRecent' /\ StaleKeyBounded'
    BY <2>1 DEF KeysTyped, SuccessIsRecent, StaleKeyBounded
  <2> QED BY <2>2, <2>3, <2>5, <2>6, Zenon
<1>5. CASE FetchFails(c)
  <2>1. /\ pc[c] \in {"fetch", "body"} /\ pc' = [pc EXCEPT ![c] = "done"]
        /\ lead' = [lead EXCEPT ![c] = "failed"]
        /\ UNCHANGED <<wall, published, doc, fetchedAt, call, started, answer, reply>>
    BY <1>5, Zenon DEF FetchFails, cache
  <2>2. KeysTyped'
    BY <2>1, Zenon DEF KeysTyped, Steps, Flying, Results
  <2>3. OneFlight'
    BY <2>1, Zenon DEF KeysTyped, OneFlight, Flying, Flights
  <2>4. NewerReply' /\ SuccessIsRecent' /\ StaleKeyBounded'
    BY <2>1, Zenon DEF KeysTyped, NewerReply, SuccessIsRecent, StaleKeyBounded
  <2> QED BY <2>2, <2>3, <2>4, Zenon
<1>6. CASE Announce(c)
  <2>1. /\ pc[c] = "done" /\ pc' = [pc EXCEPT ![c] = "unmap"]
        /\ call' = [call EXCEPT !.result = lead[c]]
        /\ lead' = [x \in Callers |-> IF pc[x] = "wait" THEN lead[c] ELSE lead[x]]
        /\ UNCHANGED <<wall, published, doc, fetchedAt, started, answer, reply>>
    BY <1>6, Zenon DEF Announce, cache
  <2>2. call \in Flights /\ call.leader = c
    BY <2>1, Zenon DEF KeysTyped, OneFlight, Flying
  <2>3. call' \in Flights /\ call'.leader = c /\ call'.result = lead[c] /\ lead'[c] = lead[c]
    BY <2>1, <2>2, Zenon DEF KeysTyped, Flights
  <2>4. KeysTyped'
    BY <2>1, <2>3, Zenon DEF KeysTyped, Steps, Flying
  <2>5. OneFlight'
    BY <2>1, <2>2, <2>3, Zenon DEF KeysTyped, OneFlight, Flying
  <2>6. NewerReply' /\ StaleKeyBounded'
    BY <2>1, Zenon DEF KeysTyped, NewerReply, StaleKeyBounded
  <2>7. SuccessIsRecent'
    BY <2>1, Zenon DEF KeysTyped, SuccessIsRecent
  <2> QED BY <2>4, <2>5, <2>6, <2>7, Zenon
<1>7. CASE Unmap(c)
  <2>1. /\ pc[c] = "unmap" /\ pc' = [pc EXCEPT ![c] = "reread"]
        /\ call' = NoCall
        /\ UNCHANGED <<wall, published, doc, fetchedAt, started, answer, lead, reply>>
    BY <1>7, Zenon DEF Unmap, cache
  <2>2. KeysTyped'
    BY <2>1, Zenon DEF KeysTyped, Steps
  <2>3. OneFlight'
    BY <2>1, Zenon DEF KeysTyped, OneFlight, Flying
  <2>4. NewerReply' /\ SuccessIsRecent' /\ StaleKeyBounded'
    BY <2>1, Zenon DEF KeysTyped, NewerReply, SuccessIsRecent, StaleKeyBounded
  <2> QED BY <2>2, <2>3, <2>4, Zenon
<1> QED BY <1>1, <1>2, <1>3, <1>4, <1>5, <1>6, <1>7, Zenon

(* One step per part of PublicKey and of the flight. *)
LEMMA KeyStep == KeyInv /\ [KeyNext]_keyVars => KeyInv'
<1> SUFFICES ASSUME KeyInv, [KeyNext]_keyVars PROVE KeyInv'
  BY Zenon
<1>1. CASE KeyNext
  BY <1>1, KeysOutside, KeysAlone, KeysFlight, Zenon DEF KeyNext, Fetch, Local
<1>2. CASE UNCHANGED keyVars
  BY <1>2, Zenon DEF keyVars, cache, caller, KeyInv, KeysTyped, OneFlight, NewerReply,
     SuccessIsRecent, StaleKeyBounded
<1> QED BY <1>1, <1>2, Zenon

(* Only a leader installs a document, and no other was installed since its
   answer came. *)
LEMMA NoOlderDocument == KeyInv /\ KeyNext => doc' >= doc
<1> SUFFICES ASSUME KeyInv, KeyNext PROVE doc' >= doc
  BY Zenon
<1>0. doc \in Nat
  BY Zenon DEF KeyInv, KeysTyped
<1>1. ASSUME NEW c \in Callers, Install(c) PROVE doc' >= doc
  BY <1>1, Zenon DEF Install, KeyInv, KeysTyped, NewerReply
<1>2. CASE ~\E c \in Callers : Install(c)
  <2>1. doc' = doc
    BY <1>2, Zenon DEF KeyNext, RotateKeys, WallTick, Lookup, Fetch, Local, Respond, FetchFails, Join,
       Attempt, Announce, Unmap, Wake, Reread, VerifyToken, cache
  <2> QED BY <1>0, <2>1
<1> QED BY <1>1, <1>2, Zenon

(* JWKSCache.PublicKey and singleflightGroup.Do, for any number of callers, any
   lifetimes and however the endpoint fails or rotates: nobody is given a key from
   a fetch more than two lifetimes older than its question, and the cache never
   goes back to an older document. *)
THEOREM KeysAreSound == KeySpec => KeysSound
<1>1. KeyInv => StaleKeyBounded
  BY Zenon DEF KeyInv
<1>2. KeyInv /\ [KeyNext]_keyVars => [doc' >= doc]_keyVars
  BY NoOlderDocument, Zenon
<1> QED BY <1>1, <1>2, InitKeys, KeyStep, PTL DEF KeySpec, KeysSound, KeysNeverGoBack
=============================================================================
