------------------------------ MODULE AuthGate ------------------------------
(***************************************************************************)
(* Pairing, sessions and the security middleware: internal/auth/session.go *)
(* and pairing.go, internal/integration/auth.go, and wrap with the pairing *)
(* and session handlers of internal/server.  Requests run concurrently;    *)
(* each call that takes a store's mutex is one step.                       *)
(*                                                                         *)
(* Session ids and secrets are random: they are numbered in the order in   *)
(* which they are drawn, and a client can only present one it was given.   *)
(* An Access token is its subject and its expiry; signatures and keys are  *)
(* the subject of module KeyCache.                                         *)
(***************************************************************************)
EXTENDS Integers, FiniteSets

CONSTANTS
    Named,       \* named mode; FALSE is quick mode
    Reqs,        \* concurrent requests
    Subjects,    \* identities an Access token can carry
    Expiries,    \* expiry times of Access tokens
    TTL, Idle,   \* session lifetime and idle timeout (0 disables it)
    Skew,        \* tolerance on a token's expiry
    MaxSid, MaxSecret, MaxTime   \* bounds

ASSUME AuthAssumption ==
    /\ Named \in BOOLEAN
    /\ Expiries \subseteq Nat \ {0}
    /\ {TTL, Idle, Skew, MaxSid, MaxSecret, MaxTime} \subseteq Nat
    /\ MaxSecret >= 1 /\ IsFiniteSet(Reqs)

VARIABLES
    clock,
    sessions,      \* SessionStore.sessions: id |-> record
    issued,        \* ids drawn so far
    secret,        \* Pairing.secret: number of the current secret
    invalidated,   \* Pairing.invalidated
    links,         \* secrets shown in a pairing link
    rotator,       \* RotatePairing: "idle" | "rotated"
    rq,            \* one record per request
    spent,         \* history: secrets that matched in a Verify
    revoked        \* history: ids deleted by a logout

store == <<sessions, issued>>
pairing == <<secret, invalidated, links, rotator>>
vars == <<clock, store, pairing, rq, spent, revoked>>

NoSubject == "nobody"   \* a quick-mode identity, or a token without claims
Kinds == {"pair", "read", "write", "logout"}

IdleReq == [pc |-> "idle", kind |-> "read", cookie |-> 0, subj |-> NoSubject, exp |-> 0,
            given |-> 0, csrf |-> 0, sid |-> 0, dead |-> {}]

Init ==
    /\ clock = 0
    /\ sessions = [s \in {} |-> 0] /\ issued = 0
    /\ secret = 1 /\ invalidated = FALSE /\ links = {} /\ rotator = "idle"
    /\ rq = [r \in Reqs |-> IdleReq]
    /\ spent = {} /\ revoked = {}

-----------------------------------------------------------------------------
(* session.go *)

Min2(a, b) == IF a < b THEN a ELSE b

ExpiredAt(sess, now) ==
    \/ now >= sess.expires
    \/ Idle > 0 /\ now - sess.seen > Idle

Expired(s) == ExpiredAt(sessions[s], clock)

Without(dead) == [s \in DOMAIN sessions \ dead |-> sessions[s]]

Live == {s \in DOMAIN sessions : ~Expired(s)}
Dead == DOMAIN sessions \ Live

(* Get: an expired session is removed, a live one is refreshed. *)
Get(s) ==
    sessions' = IF s \notin DOMAIN sessions THEN sessions
                ELSE IF Expired(s) THEN Without({s})
                ELSE [sessions EXCEPT ![s].seen = clock]

(* GetByIdentity: the newest live session of the subject; what is expired is
   removed on the way. *)
Candidates(subj) == {s \in Live : sessions[s].subj = subj}

Newest(S) == {s \in S : \A t \in S : sessions[s].created >= sessions[t].created}

(* Create: the lifetime is capped at the token's expiry, if there is one. *)
NewSession(subj, exp, auto) ==
    [subj |-> subj, created |-> clock, seen |-> clock, auto |-> auto,
     expires |-> IF exp = 0 THEN clock + TTL ELSE Min2(clock + TTL, exp)]

Create(subj, exp, auto) ==
    /\ issued < MaxSid
    /\ issued' = issued + 1
    /\ sessions' = [s \in DOMAIN sessions \cup {issued + 1} |->
                      IF s = issued + 1 THEN NewSession(subj, exp, auto) ELSE sessions[s]]

GC ==
    /\ Dead # {}
    /\ sessions' = Without(Dead)
    /\ UNCHANGED <<clock, issued, pairing, rq, spent, revoked>>

Tick ==
    /\ clock < MaxTime
    /\ clock' = clock + 1
    /\ UNCHANGED <<store, pairing, rq, spent, revoked>>

-----------------------------------------------------------------------------
(* routes.go: wrap *)

At(r, pc) == rq[r].pc = pc
Goto(r, pc) == rq' = [rq EXCEPT ![r].pc = pc]
GotoAs(r, pc, s) == rq' = [rq EXCEPT ![r].pc = pc, ![r].sid = s]
Reject(r) == rq' = [rq EXCEPT ![r] = IdleReq]

(* A request: any cookie and CSRF token handed out so far, any secret of a
   link, and a token.  A quick tunnel has no token. *)
Arrive(r) ==
    /\ At(r, "idle")
    /\ \E kind \in Kinds, cookie \in 0..issued, csrf \in 0..issued,
          given \in links \cup {0},
          subj \in IF Named THEN Subjects \cup {NoSubject} ELSE {NoSubject},
          exp \in IF Named THEN Expiries ELSE {0} :
          /\ kind = "pair" => cookie = 0 /\ csrf = 0 /\ given # 0
          /\ kind # "pair" => given = 0
          /\ kind = "read" => csrf = 0
          /\ rq' = [rq EXCEPT ![r] =
                      [pc |-> "access", kind |-> kind, cookie |-> cookie, subj |-> subj,
                       exp |-> exp, given |-> given, csrf |-> csrf, sid |-> 0,
                       dead |-> revoked]]
    /\ UNCHANGED <<clock, store, pairing, spent, revoked>>

TokenOK(r) == Named => clock <= rq[r].exp + Skew

(* VerifyAccess. *)
Access(r) ==
    /\ At(r, "access")
    /\ IF ~TokenOK(r) THEN Reject(r)
       ELSE Goto(r, IF rq[r].kind = "pair" THEN "origin" ELSE "session")
    /\ UNCHANGED <<clock, store, pairing, spent, revoked>>

(* sessionFromRequest; named mode goes on to provisionSession. *)
SessionLookup(r) ==
    /\ At(r, "session")
    /\ Get(rq[r].cookie)
    /\ IF rq[r].cookie \in Live THEN GotoAs(r, "origin", rq[r].cookie)
       ELSE IF Named THEN Goto(r, "ensure")
       ELSE Reject(r)
    /\ UNCHANGED <<clock, issued, pairing, spent, revoked>>

(* EnsureSession reads the token again; it must name somebody. *)
Ensure(r) ==
    /\ At(r, "ensure")
    /\ IF TokenOK(r) /\ rq[r].subj # NoSubject THEN Goto(r, "lookup") ELSE Reject(r)
    /\ UNCHANGED <<clock, store, pairing, spent, revoked>>

(* Mutant: a session is created without looking for one. *)
LookupIdentitySkipped(r) ==
    /\ At(r, "lookup")
    /\ Goto(r, "create")
    /\ UNCHANGED <<clock, store, pairing, spent, revoked>>

LookupIdentity(r) ==
    /\ At(r, "lookup")
    /\ LET found == Candidates(rq[r].subj)
       IN \/ /\ found = {}
             /\ sessions' = Without(Dead)
             /\ Goto(r, "create")
          \/ \E s \in Newest(found) :
                /\ sessions' = [Without(Dead) EXCEPT ![s].seen = clock]
                /\ GotoAs(r, "origin", s)
    /\ UNCHANGED <<clock, issued, pairing, spent, revoked>>

(* Creating draws three random values: the entropy source may fail. *)
CreateAuto(r) ==
    /\ At(r, "create")
    /\ \/ Create(rq[r].subj, rq[r].exp, TRUE) /\ GotoAs(r, "origin", issued + 1)
       \/ UNCHANGED store /\ Reject(r)
    /\ UNCHANGED <<clock, pairing, spent, revoked>>

(* Origin and CrossOriginProtection may refuse what mutates, or a read that
   opens a WebSocket. *)
Origin(r) ==
    /\ At(r, "origin")
    /\ \/ Reject(r)
       \/ Goto(r, IF rq[r].kind \in {"write", "logout"} THEN "csrf" ELSE "type")
    /\ UNCHANGED <<clock, store, pairing, spent, revoked>>

(* ValidateCSRF looks the session up again. *)
Csrf(r) ==
    /\ At(r, "csrf")
    /\ Get(rq[r].sid)
    /\ IF rq[r].sid \in Live /\ rq[r].csrf = rq[r].sid THEN Goto(r, "type") ELSE Reject(r)
    /\ UNCHANGED <<clock, issued, pairing, spent, revoked>>

(* Content type of a POST, then the rate limiter: either may refuse. *)
TypeAndLimit(r) ==
    /\ At(r, "type")
    /\ \/ Reject(r)
       \/ Goto(r, IF rq[r].kind = "pair" THEN "token" ELSE "handle")
    /\ UNCHANGED <<clock, store, pairing, spent, revoked>>

-----------------------------------------------------------------------------
(* pairing.go, auth.go: Pair *)

(* Pair reads the Access token again before it touches the secret. *)
PairToken(r) ==
    /\ At(r, "token")
    /\ IF TokenOK(r) THEN Goto(r, "verify") ELSE Reject(r)
    /\ UNCHANGED <<clock, store, pairing, spent, revoked>>

(* Mutant: a failed rotation still admits. *)
VerifyFailOpen(r) ==
    /\ At(r, "verify")
    /\ IF ~invalidated /\ rq[r].given = secret
       THEN /\ spent' = spent \cup {secret}
            /\ \/ secret < MaxSecret /\ secret' = secret + 1
               \/ UNCHANGED secret
            /\ Goto(r, "paired")
       ELSE UNCHANGED <<spent, secret>> /\ Reject(r)
    /\ UNCHANGED <<clock, store, invalidated, links, rotator, revoked>>

(* Verify: on a match the secret is replaced before anything else; when no
   new one can be drawn the pairing is invalidated and nobody gets in. *)
Verify(r) ==
    /\ At(r, "verify")
    /\ IF ~invalidated /\ rq[r].given = secret
       THEN /\ spent' = spent \cup {secret}
            /\ \/ /\ secret < MaxSecret /\ secret' = secret + 1
                  /\ UNCHANGED invalidated
                  /\ Goto(r, "paired")
               \/ /\ invalidated' = TRUE
                  /\ UNCHANGED secret
                  /\ Reject(r)
       ELSE UNCHANGED <<spent, secret, invalidated>> /\ Reject(r)
    /\ UNCHANGED <<clock, store, links, rotator, revoked>>

CreatePaired(r) ==
    /\ At(r, "paired")
    /\ \/ Create(rq[r].subj, rq[r].exp, FALSE)
       \/ UNCHANGED store
    /\ Reject(r)
    /\ UNCHANGED <<clock, pairing, spent, revoked>>

(* RotatePairing: Rotate and Link take the mutex one after the other. *)
Rotate ==
    /\ rotator = "idle"
    /\ secret < MaxSecret
    /\ secret' = secret + 1
    /\ invalidated' = FALSE
    /\ rotator' = "rotated"
    /\ UNCHANGED <<clock, store, links, rq, spent, revoked>>

ShowLink ==
    /\ rotator = "rotated"
    /\ links' = links \cup {secret}
    /\ rotator' = "idle"
    /\ UNCHANGED <<clock, store, secret, invalidated, rq, spent, revoked>>

-----------------------------------------------------------------------------
(* Handlers behind the middleware. *)

Serve(r) ==
    /\ At(r, "handle") /\ rq[r].kind \in {"read", "write"}
    /\ Reject(r)
    /\ UNCHANGED <<clock, store, pairing, spent, revoked>>

(* Mutant: only the cookie is cleared. *)
LogoutCookieOnly(r) ==
    /\ At(r, "handle") /\ rq[r].kind = "logout"
    /\ revoked' = revoked \cup ({rq[r].cookie} \ {0})
    /\ Reject(r)
    /\ UNCHANGED <<clock, store, pairing, spent>>

(* handleDeleteSession revokes the session of the request's own cookie. *)
Logout(r) ==
    /\ At(r, "handle") /\ rq[r].kind = "logout"
    /\ sessions' = Without({rq[r].cookie})
    /\ revoked' = revoked \cup ({rq[r].cookie} \ {0})
    /\ Reject(r)
    /\ UNCHANGED <<clock, issued, pairing, spent>>

Request(r) ==
    \/ Access(r) \/ SessionLookup(r) \/ Ensure(r) \/ LookupIdentity(r) \/ CreateAuto(r)
    \/ Origin(r) \/ Csrf(r) \/ TypeAndLimit(r)
    \/ PairToken(r) \/ Verify(r) \/ CreatePaired(r) \/ Serve(r) \/ Logout(r)

Next ==
    \/ Tick \/ GC \/ Rotate \/ ShowLink
    \/ \E r \in Reqs : Arrive(r) \/ Request(r)

Spec == Init /\ [][Next]_vars

(* The janitor's ticker fires again and again. *)
FairSpec == Spec /\ WF_vars(GC)

-----------------------------------------------------------------------------

TypeOK ==
    /\ clock \in 0..MaxTime /\ issued \in 0..MaxSid /\ secret \in 1..MaxSecret
    /\ DOMAIN sessions \subseteq 1..issued
    /\ \A s \in DOMAIN sessions :
          /\ sessions[s].subj \in Subjects \cup {NoSubject}
          /\ sessions[s].created <= sessions[s].seen /\ sessions[s].seen <= clock
          /\ sessions[s].expires <= sessions[s].created + TTL
    /\ invalidated \in BOOLEAN /\ links \subseteq 1..secret /\ spent \subseteq links
    /\ rotator \in {"idle", "rotated"} /\ revoked \subseteq 1..issued
    /\ \A r \in Reqs : rq[r].sid \in 0..issued /\ rq[r].given \in links \cup {0}

(* A pairing secret admits once: the current secret has not matched before,
   unless pairing is shut down, and a Verify that admits never matched a
   secret for the second time (Pairing.Verify, Rotate). *)
SecretSingleUse == secret \in spent => invalidated
AdmitsOnce ==
    [][\A r \in Reqs : (At(r, "verify") /\ rq'[r].pc = "paired") => rq[r].given \notin spent]_vars

(* Without an edge identity every session stands for a secret of its own
   (wrap, EnsureSession and Pair in quick mode). *)
QuickMeansPaired == ~Named => issued <= Cardinality(spent)

(* Pairing in quick mode: the current secret is unused, an admission is by an
   unused secret, and there are no more sessions than secrets used (Pairing). *)
PairingSound == [](SecretSingleUse /\ QuickMeansPaired) /\ AdmitsOnce

(* A request that arrives after a logout is never identified as the session
   that was ended, whether it shows the old cookie or is provisioned. *)
LogoutIsFinal == \A r \in Reqs : rq[r].sid \notin rq[r].dead

(* A session that has expired, by lifetime or by idleness, is never refreshed
   again by a late look-up (Get, GetByIdentity). *)
ExpiredStaysDead ==
    [][\A s \in Dead : s \in DOMAIN sessions' => sessions'[s].seen = sessions[s].seen]_vars

(* Look-up and creation are two critical sections, so concurrent requests may
   each create a session; but what is live and what is about to be created
   never exceeds the number of requests that run at once (EnsureSession). *)
BoundedPerIdentity ==
    \A u \in Subjects :
        Cardinality({s \in Live : sessions[s].auto /\ sessions[s].subj = u})
          + Cardinality({r \in Reqs : At(r, "create") /\ rq[r].subj = u}) <= Cardinality(Reqs)

(* A provisioned request runs as the subject of its own token. *)
ProvisionedIsOwn ==
    [][\A r \in Reqs : (At(r, "lookup") \/ At(r, "create")) /\ rq'[r].pc = "origin"
                          => sessions'[rq'[r].sid].subj = rq[r].subj]_vars

(* The janitor removes every expired session (RunJanitor). *)
ExpiredEvicted == \A s \in 1..MaxSid : (s \in Dead) ~> (s \notin DOMAIN sessions)

(* What SPEC.md says of provisioning: cookie-less requests of one identity
   share one session. *)
OneSessionPerIdentity ==
    \A s, t \in Live : (sessions[s].auto /\ sessions[t].auto
                          /\ sessions[s].subj = sessions[t].subj) => s = t

(* What SPEC.md says of DELETE /session: it revokes the session record of the
   request. *)
LogoutRevokes ==
    [][\A r \in Reqs : (At(r, "handle") /\ rq[r].kind = "logout" /\ rq'[r].pc = "idle")
                          => rq[r].sid \notin DOMAIN sessions']_vars

=============================================================================
