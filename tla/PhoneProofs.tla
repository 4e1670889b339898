----------------------------- MODULE PhoneProofs -----------------------------
(***************************************************************************)
(* What the phone shows.  A terminal is held as long as its view and no    *)
(* longer; the list of runs never goes back or passes off a made-up list   *)
(* as the relay's; and a launch does what its receipt says.                *)
(***************************************************************************)
EXTENDS RunSource, AttachSocket, LaunchFlow, TLAPS

(* The terminal socket. *)

(* What the phone has been shown of the pane has happened, and as long as the view goes
   on it has a connection or a timer. *)
StopInv ==
    /\ seen # "ours" => era # "ours"
    /\ StopsOnProof

(* The view connects when it mounts. *)
LEMMA StopInit == TermInit => StopInv
BY Zenon DEF TermInit, StopInv, StopsOnProof

(* One step per handler. *)
LEMMA StopStep == StopInv /\ [TermNext]_termVars => StopInv'
<1> SUFFICES ASSUME StopInv, [TermNext]_termVars PROVE StopInv'
  BY Zenon
<1> USE DEF StopInv, StopsOnProof
<1>1. CASE PaneChanges \/ PaneSnapshotArrives
  BY <1>1 DEF PaneChanges, PaneSnapshotArrives
<1>2. CASE TimerFires
  BY <1>2, Zenon DEF TimerFires, MovedOn, open, scheduleReconnect, pane
<1>3. CASE Unmount
  BY <1>3, Zenon DEF Unmount, pane
<1>4. CASE AskTakeover \/ TakeoverRefused
  BY <1>4 DEF AskTakeover, TakeoverRefused, pane
<1>5. CASE TakeoverGranted
  BY <1>5, Zenon DEF TakeoverGranted, open, scheduleReconnect, pane
<1>6. ASSUME NEW s \in Links, LinkOpens(s) \/ Opened(s) \/ Conflict(s) \/ LinkError(s)
      PROVE  StopInv'
  BY <1>6 DEF LinkOpens, Opened, Conflict, LinkError, pane
<1>7. ASSUME NEW s \in Links, LinkCloses(s)
      PROVE  StopInv'
  BY <1>7, Zenon DEF LinkCloses, scheduleReconnect, pane
<1>8. CASE UNCHANGED termVars
  BY <1>8, Zenon DEF termVars, pane
<1> QED BY <1>1, <1>2, <1>3, <1>4, <1>5, <1>6, <1>7, <1>8, Zenon DEF TermNext

LinkActive(s) == link[s] \in {"connecting", "open", "closing"}

(* Until a takeover is granted, at most one socket is not yet closed, it is the current
   one, and a timer runs only when there is none.  UnmountReleases and KeptAlive do not
   say which socket an onclose that is still to come belongs to. *)
Holding ==
    /\ mounted \in BOOLEAN /\ conn \subseteq Links
    /\ link \in [Links -> {"unused", "connecting", "open", "closing", "closed"}]
    /\ \A s \in Links : LinkActive(s) /\ mounted => conn = {s}
    /\ \A s \in conn : LinkActive(s)
    /\ timer # "none" => mounted /\ \A s \in Links : ~LinkActive(s)
    /\ ~mounted => \A s \in Links : link[s] \notin {"connecting", "open"}
    /\ \A s \in Links : link[s] = "open" => pinging

HoldInv == issued \in Nat /\ (issued = 0 => Holding)

(* One socket, connecting. *)
LEMMA HoldInit == TermInit => HoldInv
BY DEF TermInit, HoldInv, Holding, LinkActive

(* One step per handler; a granted takeover ends what is claimed. *)
LEMMA HoldStep == HoldInv /\ [TermNext]_termVars => HoldInv'
<1> SUFFICES ASSUME HoldInv, [TermNext]_termVars PROVE HoldInv'
  BY Zenon
<1>0. CASE TakeoverGranted
  BY <1>0 DEF TakeoverGranted, HoldInv
<1>1. CASE ~TakeoverGranted
  <2>1. issued' = issued
    BY <1>1, Zenon DEF TermNext, termVars, dialog, PaneChanges, PaneSnapshotArrives, TimerFires, Unmount,
       AskTakeover, TakeoverRefused, LinkOpens, Opened, Conflict, LinkError, LinkCloses
  <2> SUFFICES ASSUME Holding PROVE Holding'
    BY <2>1, Zenon DEF HoldInv
  <2> USE DEF Holding, LinkActive
  <2>2. CASE PaneChanges \/ PaneSnapshotArrives
    BY <2>2 DEF PaneChanges, PaneSnapshotArrives
  <2>3. CASE TimerFires
    <3>1. CASE timer = "check" /\ MovedOn
      BY <2>3, <3>1, Zenon DEF TimerFires
    <3>2. CASE open(take, "none") /\ UNCHANGED <<invalidated, pinging>>
      <4>0. /\ mounted' = mounted /\ mounted /\ pinging' = pinging
            /\ \A s \in Links : ~LinkActive(s)
        BY <2>3, <3>2, Zenon DEF TimerFires
      <4>1. CASE UNCHANGED <<conn, link>>
        BY <4>0, <4>1, <3>2, Zenon DEF open, scheduleReconnect
      <4>2. CASE \E s \in Links : /\ link' = [link EXCEPT ![s] = "connecting"]
                                 /\ conn' = {s} /\ timer' = "none"
        BY <4>0, <4>2, Zenon
      <4> QED BY <3>2, <4>1, <4>2, Zenon DEF open
    <3> QED BY <2>3, <3>1, <3>2, Zenon DEF TimerFires
  <2>4. CASE Unmount
    BY <2>4, Zenon DEF Unmount, LinkLive
  <2>5. CASE AskTakeover \/ TakeoverRefused
    BY <2>5 DEF AskTakeover, TakeoverRefused
  <2>6. ASSUME NEW s \in Links, LinkOpens(s)
        PROVE  Holding'
    BY <2>6, Zenon DEF LinkOpens
  <2>7. ASSUME NEW s \in Links, Opened(s) \/ Conflict(s)
        PROVE  Holding'
    BY <2>7 DEF Opened, Conflict
  <2>8. ASSUME NEW s \in Links, LinkError(s)
        PROVE  Holding'
    BY <2>8, Zenon DEF LinkError, LinkLive
  <2>9. ASSUME NEW s \in Links, LinkCloses(s)
        PROVE  Holding'
    BY <2>9, Zenon DEF LinkCloses, scheduleReconnect
  <2>10. CASE UNCHANGED termVars
    BY <2>10, Zenon DEF termVars
  <2> QED BY <1>1, <2>2, <2>3, <2>4, <2>5, <2>6, <2>7, <2>8, <2>9, <2>10, Zenon DEF TermNext
<1> QED BY <1>0, <1>1, Zenon

(* Until a takeover is granted nothing of an attach outlives its view and an open
   connection is kept alive; and retrying stops only on proof that the pane moved on:
   for any number of sockets, retries and takeovers (TerminalSocket.close, startPing,
   scheduleReconnect, stopIfPaneMovedOn). *)
THEOREM TerminalsAreHeld == TermSpec => []TerminalHeld
<1>1. HoldInv /\ StopInv => TerminalHeld
  BY Zenon DEF HoldInv, Holding, LinkActive, LinkLive, StopInv, TerminalHeld, UnmountReleases, KeptAlive
<1> QED BY <1>1, HoldInit, HoldStep, StopInit, StopStep, PTL DEF TermSpec

(* Without a takeover no second connection lives beside the current one: OneLink, of
   open, onclose and the reconnect timer. *)
THEOREM AttachIsSingle == TermSpec => [](issued = 0 => OneLink)
<1>1. HoldInv => (issued = 0 => OneLink)
  <2> SUFFICES ASSUME HoldInv, issued = 0 PROVE OneLink
    BY Zenon
  <2>1. ASSUME NEW s \in Links, LinkLive(s) PROVE mounted /\ conn = {s}
    BY <2>1, Zenon DEF HoldInv, Holding, LinkActive, LinkLive
  <2> QED BY <2>1, Zenon DEF OneLink
<1> QED BY <1>1, HoldInit, HoldStep, PTL DEF TermSpec

-----------------------------------------------------------------------------
(* The list of runs. *)

(* The fields of the source, and the app store beside it. *)
RunFields ==
    [list : [from : {"none", "snapshot", "relay"}, v : Nat], structured : BOOLEAN,
     loading : BOOLEAN, error : BOOLEAN, fetched : Nat, inFlight : BOOLEAN,
     pending : BOOLEAN, send : BOOLEAN]

AppStates == [snap : Nat, caps : BOOLEAN]

(* What holds of the fields r beside an app store a, heard or not. *)
FieldsOK(r, a) ==
    /\ r \in RunFields
    /\ r.pending => r.inFlight
    /\ r.inFlight => r.structured
    /\ r.structured => a.caps /\ r.list.from # "snapshot"
    /\ r.list.v <= a.snap \/ r.list.v <= topology
    /\ r.fetched <= a.snap
    /\ r.structured /\ ~r.inFlight => r.error \/ r.list.v >= r.fetched
    /\ r.loading /\ ~r.inFlight => r.structured /\ r.fetched = 0

(* The app store's last change was acted upon, or will be. *)
Heard(r, a) == r.structured /\ ~r.pending => r.fetched = a.snap

(* At most one request is under way, and what it was answered is not older than the
   list it will replace. *)
RequestsOK ==
    /\ request \in [Fetches -> [at : {"none", "sent", "answered", "failed"}, v : Nat]]
    /\ \A c \in Fetches : request[c].at = "none" => request[c] = NoFetch
    /\ \A c, d \in Fetches : request[c] # NoFetch /\ request[d] # NoFetch => c = d
    /\ \A c \in Fetches : request[c] # NoFetch => inFlight
    /\ \A c \in Fetches : request[c].at = "answered" =>
          request[c].v >= fetchedHash /\ request[c].v >= list.v /\ request[c].v <= topology

(* ListHonest is not inductive: what a list at rest shows was settled when the request
   was sent, by the hash it was sent for. *)
RunInv ==
    /\ topology \in Nat /\ app \in AppStates /\ app.snap <= topology /\ attached \in BOOLEAN
    /\ FieldsOK(Fields, app)
    /\ attached => Heard(Fields, app)
    /\ RequestsOK

(* Nothing shown, nothing asked. *)
LEMMA RunInitInv == RunsInit => RunInv
<1> SUFFICES ASSUME RunsInit PROVE RunInv
  BY Zenon
<1>1. /\ topology = 1 /\ app = [snap |-> 0, caps |-> FALSE] /\ attached = FALSE
      /\ request = [c \in Fetches |-> NoFetch]
      /\ Fields = [list |-> NoList, structured |-> FALSE, loading |-> FALSE, error |-> FALSE,
                    fetched |-> 0, inFlight |-> FALSE, pending |-> FALSE, send |-> FALSE]
  BY Zenon DEF RunsInit, Fields
<1>2. FieldsOK(Fields, app) /\ Heard(Fields, app)
  BY <1>1 DEF FieldsOK, Heard, RunFields, NoList
<1>3. RequestsOK
  BY <1>1, Zenon DEF RequestsOK, NoFetch
<1>4. topology \in Nat /\ app \in AppStates /\ app.snap <= topology
  BY <1>1 DEF AppStates
<1> QED BY <1>1, <1>2, <1>3, <1>4, Zenon DEF RunInv

(* What fetch does to the fields. *)
LEMMA FetchFacts ==
    ASSUME NEW r \in RunFields, NEW h \in Nat
    PROVE  LET q == fetch(r, h) IN
           /\ q \in RunFields
           /\ q.list = r.list /\ q.structured = r.structured /\ q.error = r.error
           /\ r.inFlight => q.fetched = r.fetched /\ q.pending /\ q.loading = r.loading
                            /\ q.send = r.send
           /\ ~r.inFlight => q.fetched = h /\ q.pending = r.pending /\ q.send
           /\ q.inFlight
BY Zenon DEF fetch, RunFields

(* What dropping the projection does to the fields. *)
LEMMA DropFacts ==
    ASSUME NEW r \in RunFields
    PROVE  LET q == DropProjection(r) IN
           /\ q \in RunFields
           /\ q.structured
           /\ q.inFlight = r.inFlight /\ q.pending = r.pending /\ q.send = r.send
           /\ r.structured => q = r
           /\ ~r.structured => q.list = NoList /\ q.loading /\ ~q.error /\ q.fetched = 0
BY Zenon DEF DropProjection, RunFields, NoList

(* reconcile leaves the fields in order and the app store heard. *)
LEMMA ReconcileOK ==
    ASSUME NEW r, NEW a0, NEW a \in AppStates, topology \in Nat, FieldsOK(r, a0), a0 \in AppStates,
           a0.snap <= a.snap, a0.caps => a.caps, a.snap <= topology, r.send = FALSE
    PROVE  LET q == reconcile(r, a) IN
           /\ FieldsOK(q, a) /\ Heard(q, a)
           /\ q.send => ~r.inFlight /\ q.inFlight
           /\ r.inFlight => q.fetched = r.fetched /\ q.list = r.list /\ q.inFlight
           /\ r.structured => q.list = r.list
<1>0. r \in RunFields
  BY Zenon DEF FieldsOK
<1>1. CASE ~a.caps
  <2> DEFINE q == [r EXCEPT !.list = [from |-> "snapshot", v |-> a.snap], !.loading = FALSE,
                   !.error = FALSE, !.fetched = 0]
  <2>1. reconcile(r, a) = q
    BY <1>1, Zenon DEF reconcile
  <2>2. /\ q \in RunFields /\ q.list = [from |-> "snapshot", v |-> a.snap] /\ ~q.loading
        /\ q.fetched = 0 /\ q.structured = r.structured /\ q.inFlight = r.inFlight
        /\ q.pending = r.pending /\ q.send = r.send
    BY <1>0, Zenon DEF RunFields, AppStates
  <2>3. ~r.structured /\ ~r.inFlight
    BY <1>1, <1>0, Zenon DEF FieldsOK, RunFields, AppStates
  <2> HIDE DEF q
  <2> QED BY <2>1, <2>2, <2>3 DEF FieldsOK, Heard, AppStates
<1>2. CASE a.caps
  <2> DEFINE d == DropProjection(r)
             f == fetch(d, a.snap)
  <2>1. reconcile(r, a) = IF d.fetched = a.snap THEN d ELSE f
    BY <1>2, Zenon DEF reconcile
  <2>2. /\ d \in RunFields /\ d.structured
        /\ d.inFlight = r.inFlight /\ d.pending = r.pending /\ d.send = r.send
        /\ r.structured => d = r
        /\ ~r.structured => d.list = NoList /\ d.loading /\ ~d.error /\ d.fetched = 0
    BY <1>0, DropFacts, Zenon
  <2>3. /\ f \in RunFields
        /\ f.list = d.list /\ f.structured = d.structured /\ f.error = d.error
        /\ d.inFlight => f.fetched = d.fetched /\ f.pending /\ f.loading = d.loading
                         /\ f.send = d.send
        /\ ~d.inFlight => f.fetched = a.snap /\ f.pending = d.pending /\ f.send
        /\ f.inFlight
    BY <2>2, FetchFacts, Zenon DEF AppStates
  <2> HIDE DEF d, f
  <2>4. FieldsOK(d, a) /\ (r.inFlight => r.structured)
    BY <2>2, <1>2, <1>0 DEF FieldsOK, AppStates, RunFields, NoList
  <2>5. CASE d.fetched = a.snap
    BY <2>1, <2>2, <2>4, <2>5, <1>0, Zenon DEF FieldsOK, Heard, AppStates, RunFields
  <2>6. CASE d.fetched # a.snap
    <3>1. FieldsOK(f, a)
      BY <2>2, <2>3, <2>4 DEF FieldsOK, AppStates, RunFields
    <3>2. Heard(f, a)
      BY <2>3, Zenon DEF Heard, RunFields
    <3>3. r.inFlight \in BOOLEAN /\ (r.inFlight => d = r)
      BY <1>0, <2>2, <2>4, Zenon DEF RunFields
    <3>4. /\ f.send => ~r.inFlight /\ f.inFlight
          /\ r.inFlight => f.fetched = r.fetched /\ f.list = r.list /\ f.inFlight
          /\ r.structured => f.list = r.list
      BY <2>2, <2>3, <3>3, Zenon
    <3> QED BY <2>1, <2>6, <3>1, <3>2, <3>4, Zenon
  <2> QED BY <2>5, <2>6, Zenon
<1> QED BY <1>1, <1>2, <1>0, Zenon DEF AppStates

(* The fields become the reconciled ones while the requests stay, but for a new one. *)
LEMMA BecomeOK ==
    ASSUME NEW r, NEW a \in AppStates, RunInv, app' = a, UNCHANGED topology,
           FieldsOK(r, app), app.snap <= a.snap, app.caps => a.caps, a.snap <= topology,
           r.send = FALSE, r.inFlight = inFlight, r.list = list, r.fetched <= fetchedHash,
           r.structured = structured,
           attached' \in BOOLEAN, Become(reconcile(r, a), request)
    PROVE  RunInv' /\ (structured => list' = list)
<1> DEFINE q == reconcile(r, a)
<1>1. /\ FieldsOK(q, a) /\ Heard(q, a)
      /\ q.send => ~r.inFlight /\ q.inFlight
      /\ r.inFlight => q.fetched = r.fetched /\ q.list = r.list /\ q.inFlight
      /\ r.structured => q.list = r.list
  BY ReconcileOK, Zenon DEF RunInv
<1>2. Become(q, request)
  BY Zenon
<1> HIDE DEF q
<1>3. /\ list' = q.list /\ structured' = q.structured /\ loading' = q.loading
      /\ error' = q.error /\ fetchedHash' = q.fetched /\ inFlight' = q.inFlight
      /\ pending' = q.pending
  BY <1>2, Zenon DEF Become
<1>4. /\ Fields' \in RunFields
      /\ Fields'.list = q.list /\ Fields'.structured = q.structured
      /\ Fields'.loading = q.loading /\ Fields'.error = q.error /\ Fields'.fetched = q.fetched
      /\ Fields'.inFlight = q.inFlight /\ Fields'.pending = q.pending
  BY <1>1, <1>3, Zenon DEF Fields, FieldsOK, RunFields
<1>5. FieldsOK(Fields, app)' /\ Heard(Fields, app)'
  BY <1>1, <1>4, Zenon DEF FieldsOK, Heard
<1>6. RequestsOK'
  <2>1. /\ fetchedHash \in Nat /\ list.v \in Nat /\ q.fetched \in Nat /\ r.fetched \in Nat
        /\ inFlight \in BOOLEAN
    BY <1>1, Zenon DEF RunInv, FieldsOK, Fields, RunFields
  <2>2. CASE ~q.send
    <3>1. request' = request
      BY <1>2, <2>2, Zenon DEF Become
    <3> QED BY <1>1, <1>3, <2>1, <3>1 DEF RunInv, RequestsOK, NoFetch
  <2>3. CASE q.send
    <3>1. PICK c \in Fetches : request[c] = NoFetch /\ request' = [request EXCEPT ![c].at = "sent"]
      BY <1>2, <2>3, Zenon DEF Become
    <3>2. \A d \in Fetches : request[d] = NoFetch
      BY <1>1, <2>3, Zenon DEF RunInv, RequestsOK
    <3>3. \A d \in Fetches : request'[d] = IF d = c THEN [at |-> "sent", v |-> 0] ELSE NoFetch
      BY <3>1, <3>2 DEF RunInv, RequestsOK, NoFetch
    <3> QED BY <1>1, <1>3, <2>3, <3>1, <3>3 DEF RunInv, RequestsOK, NoFetch
  <2> QED BY <2>2, <2>3, Zenon
<1> QED BY <1>1, <1>3, <1>5, <1>6, Zenon DEF RunInv

(* The settled request, the same with one request less. *)
LEMMA DoneOK ==
    ASSUME RunInv, NEW c \in Fetches, FetchDone(c)
    PROVE  RunInv' /\ list'.v >= list.v
<1> DEFINE r == IF request[c].at = "failed" THEN Failed(Fields) ELSE Answered(Fields, request[c].v)
           done == [r EXCEPT !.inFlight = FALSE]
           rest == [done EXCEPT !.pending = FALSE]
           q == Finally(r)
           base == [request EXCEPT ![c] = NoFetch]
<1>1. /\ request[c].at \in {"answered", "failed"} /\ Become(q, base)
      /\ UNCHANGED <<topology, app, attached>>
  BY Zenon DEF FetchDone
<1>2. /\ Fields \in RunFields /\ Fields.send = FALSE /\ Fields.list = list
      /\ Fields.structured = structured /\ Fields.fetched = fetchedHash
      /\ Fields.pending = pending /\ inFlight
      /\ request[c].v \in Nat /\ topology \in Nat
      /\ structured /\ list.from # "snapshot" /\ app.caps
      /\ request[c].at = "answered" => request[c].v >= fetchedHash /\ request[c].v >= list.v
                                     /\ request[c].v <= topology
  BY <1>1 DEF RunInv, RequestsOK, FieldsOK, Fields, NoFetch
<1>3. /\ r \in RunFields /\ r.structured /\ r.pending = pending /\ r.fetched = fetchedHash
      /\ r.send = FALSE /\ r.loading = FALSE
      /\ r.list.v >= list.v /\ r.list.from # "snapshot"
      /\ r.list.v <= app.snap \/ r.list.v <= topology
      /\ r.error \/ r.list.v >= fetchedHash
  <2>1. CASE request[c].at = "failed"
    <3>1. r = [Fields EXCEPT !.loading = FALSE, !.error = TRUE]
      BY <2>1, Zenon DEF Failed
    <3>2. Fields.list.v <= app.snap \/ Fields.list.v <= topology
      BY Zenon DEF RunInv, FieldsOK
    <3>3. /\ r \in RunFields /\ r.structured = structured /\ r.pending = pending
          /\ r.fetched = fetchedHash /\ r.send = FALSE /\ r.loading = FALSE /\ r.error = TRUE
          /\ r.list = list /\ list.v \in Nat
      BY <1>2, <3>1, Zenon DEF RunFields
    <3> HIDE DEF r
    <3>4. r.list.v = list.v /\ r.list.from = list.from /\ Fields.list.v = list.v
      BY <1>2, <3>3, Zenon
    <3>5. r.structured /\ r.error
      BY <1>2, <3>3, Zenon
    <3>6. r.list.v >= list.v /\ (r.list.v <= app.snap \/ r.list.v <= topology)
      BY <3>2, <3>3, <3>4
    <3> QED BY <1>2, <3>3, <3>4, <3>5, <3>6, Zenon
  <2>2. CASE request[c].at = "answered"
    <3> DEFINE new == [from |-> "relay", v |-> request[c].v]
    <3>1. r = [Fields EXCEPT !.list = new, !.loading = FALSE, !.error = FALSE]
      BY <2>2, Zenon DEF Answered
    <3>2. /\ new \in [from : {"none", "snapshot", "relay"}, v : Nat]
          /\ new.from = "relay" /\ new.v = request[c].v
      BY <1>2, Zenon
    <3> HIDE DEF new, r
    <3>3. r \in RunFields
      BY <1>2, <3>1, <3>2, Zenon DEF RunFields
    <3>4. /\ r.structured = structured /\ r.pending = pending
          /\ r.fetched = fetchedHash /\ r.send = FALSE /\ r.loading = FALSE /\ r.list = new
      BY <1>2, <3>1, <3>2, Zenon DEF RunFields
    <3> QED BY <1>2, <2>2, <3>2, <3>3, <3>4, Zenon
  <2> QED BY <1>1, <2>1, <2>2, Zenon
<1> HIDE DEF r
<1>4. /\ done \in RunFields /\ done.list = r.list /\ done.structured /\ done.loading = FALSE
      /\ done.error = r.error /\ done.fetched = fetchedHash /\ done.inFlight = FALSE
      /\ done.pending = pending /\ done.send = FALSE
  BY <1>3, Zenon DEF RunFields
<1> HIDE DEF done
<1>5. /\ rest \in RunFields /\ rest.list = r.list /\ rest.structured /\ rest.loading = FALSE
      /\ rest.error = r.error /\ rest.fetched = fetchedHash /\ rest.inFlight = FALSE
      /\ rest.pending = FALSE /\ rest.send = FALSE
  BY <1>4, Zenon DEF RunFields
<1> HIDE DEF rest
<1>6. fetchedHash <= app.snap /\ fetchedHash \in Nat /\ app \in AppStates /\ app.snap <= topology
      /\ pending \in BOOLEAN
  BY <1>2, Zenon DEF RunInv, FieldsOK, RunFields
<1>7. FieldsOK(rest, app)
  BY <1>2, <1>3, <1>5, <1>6, Zenon DEF FieldsOK, AppStates
<1>8. /\ FieldsOK(q, app) /\ (attached => Heard(q, app)) /\ q.list = r.list
      /\ q.send => q.inFlight
  <2>1. CASE pending
    <3>1. q = reconcile(rest, app)
      BY <1>3, <2>1, Zenon DEF Finally, done, rest
    <3>2. app.snap <= app.snap
      BY <1>6 DEF AppStates
    <3>3. LET p == reconcile(rest, app) IN
          /\ FieldsOK(p, app) /\ Heard(p, app)
          /\ p.send => ~rest.inFlight /\ p.inFlight
          /\ rest.structured => p.list = rest.list
      BY <1>2, <1>5, <1>6, <1>7, <3>2, ReconcileOK, Zenon
    <3> HIDE DEF q
    <3> QED BY <1>5, <3>1, <3>3, Zenon
  <2>2. CASE ~pending
    <3>1. q = done
      BY <1>3, <2>2, Zenon DEF Finally, done
    <3>2. FieldsOK(done, app)
      BY <1>2, <1>3, <1>4, <1>6, <2>2, Zenon DEF FieldsOK, AppStates
    <3>3. attached => fetchedHash = app.snap
      BY <1>2, <2>2, Zenon DEF RunInv, Heard
    <3> QED BY <1>4, <3>1, <3>2, <3>3, Zenon DEF Heard
  <2> QED BY <2>1, <2>2, <1>6, Zenon
<1>9. Become(q, base) /\ list.v \in Nat
  BY <1>1, <1>2, Zenon DEF RunFields
<1> HIDE DEF q
<1>10. /\ list' = q.list /\ structured' = q.structured /\ loading' = q.loading
       /\ error' = q.error /\ fetchedHash' = q.fetched /\ inFlight' = q.inFlight
       /\ pending' = q.pending
  BY <1>9, Zenon DEF Become
<1>11. /\ Fields' \in RunFields
       /\ Fields'.list = q.list /\ Fields'.structured = q.structured
       /\ Fields'.loading = q.loading /\ Fields'.error = q.error /\ Fields'.fetched = q.fetched
       /\ Fields'.inFlight = q.inFlight /\ Fields'.pending = q.pending
  BY <1>8, <1>10, Zenon DEF Fields, FieldsOK, RunFields
<1>12. FieldsOK(Fields, app)' /\ (attached' => Heard(Fields, app)')
  BY <1>1, <1>8, <1>11, Zenon DEF FieldsOK, Heard
<1>13. RequestsOK'
  <2>1. \A d \in Fetches : base[d] = NoFetch
    BY <1>1 DEF RunInv, RequestsOK, NoFetch
  <2>2. base \in [Fetches -> [at : {"none", "sent", "answered", "failed"}, v : Nat]]
    BY Zenon DEF RunInv, RequestsOK, NoFetch
  <2> HIDE DEF base
  <2>3. CASE ~q.send
    <3>1. request' = base
      BY <1>9, <2>3, Zenon DEF Become
    <3> QED BY <2>1, <2>2, <3>1 DEF RequestsOK, NoFetch
  <2>4. CASE q.send
    <3>1. PICK e \in Fetches : request' = [base EXCEPT ![e].at = "sent"]
      BY <1>9, <2>4, Zenon DEF Become
    <3>2. \A d \in Fetches : request'[d] = IF d = e THEN [at |-> "sent", v |-> 0] ELSE NoFetch
      BY <2>1, <2>2, <3>1 DEF NoFetch
    <3> QED BY <1>8, <1>10, <2>2, <2>4, <3>1, <3>2 DEF RequestsOK, NoFetch
  <2> QED BY <2>3, <2>4, Zenon
<1> QED BY <1>1, <1>3, <1>8, <1>10, <1>12, <1>13, Zenon DEF RunInv

(* The fields as they are, or with the hash forgotten, are what reconcile may start from. *)
LEMMA FieldsNow ==
    ASSUME RunInv
    PROVE  /\ app \in AppStates /\ app.snap <= app.snap /\ app.snap <= topology
           /\ FieldsOK(Fields, app) /\ Fields.send = FALSE /\ Fields.inFlight = inFlight
           /\ Fields.list = list /\ Fields.structured = structured
           /\ Fields.fetched = fetchedHash /\ fetchedHash \in Nat
<1>1. /\ Fields.send = FALSE /\ Fields.inFlight = inFlight /\ Fields.list = list
      /\ Fields.structured = structured /\ Fields.fetched = fetchedHash
  BY Zenon DEF Fields
<1>2. FieldsOK(Fields, app) /\ app \in AppStates /\ app.snap <= topology
  BY Zenon DEF RunInv
<1>3. app.snap \in Nat /\ Fields \in RunFields
  BY <1>2, Zenon DEF AppStates, FieldsOK
<1>4. Fields.fetched \in Nat
  BY <1>3, Zenon DEF RunFields
<1> QED BY <1>1, <1>2, <1>3, <1>4

(* A change of the app store, heard or not. *)
LEMMA AppStep ==
    ASSUME RunInv, NEW a \in AppStates, AppChanges(a), UNCHANGED <<topology, attached>>,
           app.snap <= a.snap, app.caps => a.caps, a.snap <= topology
    PROVE  RunInv' /\ (structured => list' = list)
<1>1. CASE attached
  <2>1. app' = a /\ Become(reconcile(Fields, a), request)
    BY <1>1, Zenon DEF AppChanges
  <2>2. attached' \in BOOLEAN
    BY Zenon DEF RunInv
  <2>3. Fields.fetched <= fetchedHash
    BY FieldsNow
  <2> QED BY <2>1, <2>2, <2>3, FieldsNow, BecomeOK, Zenon
<1>2. CASE ~attached
  <2>1. app' = a /\ UNCHANGED source
    BY <1>2, Zenon DEF AppChanges
  <2>2. Fields' = Fields /\ RequestsOK'
    BY <2>1, Zenon DEF source, Fields, RequestsOK, RunInv
  <2>3. FieldsOK(Fields, a)
    BY FieldsNow DEF FieldsOK, AppStates, RunFields
  <2>4. FieldsOK(Fields, app)'
    BY <2>1, <2>2, <2>3, Zenon DEF FieldsOK
  <2> QED BY <1>2, <2>1, <2>2, <2>4, Zenon DEF RunInv, source
<1> QED BY <1>1, <1>2, Zenon DEF RunInv

(* One step per action: the relay, the app store, the views, the request. *)
LEMMA RunStep ==
    ASSUME ~Recurs, RunInv, [RunsNext]_runVars
    PROVE  RunInv' /\ (structured => list'.v >= list.v)
<1>0. list.v \in Nat /\ topology \in Nat /\ app \in AppStates /\ app.snap <= topology
  BY Zenon DEF RunInv, FieldsOK, Fields, RunFields
<1>1. CASE RelayChanges
  <2>1. topology' \in Nat /\ topology' > topology /\ UNCHANGED <<app, attached, source>>
    BY <1>0, <1>1 DEF RelayChanges
  <2>2. Fields' = Fields
    BY <2>1, Zenon DEF source, Fields
  <2>3. FieldsOK(Fields, app)'
    BY <1>0, <2>1, <2>2 DEF RunInv, FieldsOK, RunFields, AppStates
  <2>4. RequestsOK'
    BY <1>0, <2>1 DEF RunInv, RequestsOK, source
  <2> QED BY <1>0, <2>1, <2>2, <2>3, <2>4 DEF RunInv, Heard, source, AppStates
<1>2. CASE SnapshotArrives
  <2> DEFINE a == [app EXCEPT !.snap = topology]
  <2>1. AppChanges(a) /\ UNCHANGED <<topology, attached>>
    BY <1>2, Zenon DEF SnapshotArrives
  <2>2. a \in AppStates /\ a.snap = topology /\ a.caps = app.caps
    BY <1>0, Zenon DEF AppStates
  <2> HIDE DEF a
  <2>3. RunInv' /\ (structured => list' = list)
    BY <1>0, <2>1, <2>2, AppStep
  <2> QED BY <1>0, <2>3
<1>3. CASE CapabilitiesArrive
  <2> DEFINE a == [app EXCEPT !.caps = TRUE]
  <2>1. AppChanges(a) /\ UNCHANGED <<topology, attached>>
    BY <1>3, Zenon DEF CapabilitiesArrive
  <2>2. a \in AppStates /\ a.snap = app.snap /\ a.caps = TRUE /\ app.snap \in Nat
    BY <1>0, Zenon DEF AppStates
  <2> HIDE DEF a
  <2>3. RunInv' /\ (structured => list' = list)
    BY <1>0, <2>1, <2>2, AppStep
  <2> QED BY <1>0, <2>3
<1>4. CASE Attach
  <2>1. /\ attached' \in BOOLEAN /\ Become(reconcile(Fields, app), request)
        /\ UNCHANGED <<topology, app>> /\ Fields.fetched <= fetchedHash
    BY <1>4, FieldsNow DEF Attach
  <2>2. RunInv' /\ (structured => list' = list)
    BY <2>1, FieldsNow, BecomeOK, Zenon
  <2> QED BY <1>0, <2>2
<1>5. CASE Release
  <2>1. UNCHANGED <<topology, app, source>> /\ attached' = FALSE
    BY <1>5, Zenon DEF Release
  <2>2. Fields' = Fields /\ RequestsOK'
    BY <2>1, Zenon DEF source, Fields, RequestsOK, RunInv
  <2>3. FieldsOK(Fields, app)'
    BY <2>1, <2>2, Zenon DEF RunInv, FieldsOK
  <2>4. attached' \in BOOLEAN /\ ~attached' /\ list' = list
    BY <2>1, Zenon DEF source
  <2> QED BY <1>0, <2>1, <2>2, <2>3, <2>4 DEF RunInv
<1>6. CASE Refresh
  <2> DEFINE r == [Fields EXCEPT !.fetched = 0]
  <2>1. /\ attached' \in BOOLEAN /\ Become(reconcile(r, app), request)
        /\ UNCHANGED <<topology, app>>
    BY <1>6, Zenon DEF Refresh, RunInv
  <2>2. Fields \in RunFields
    BY FieldsNow, Zenon DEF FieldsOK
  <2>3. /\ r \in RunFields /\ r.list = list /\ r.structured = structured /\ r.fetched = 0
        /\ r.send = FALSE /\ r.inFlight = inFlight /\ r.loading = Fields.loading
        /\ r.error = Fields.error /\ r.pending = Fields.pending
    BY <2>2, FieldsNow, Zenon DEF RunFields
  <2> HIDE DEF r
  <2>4. FieldsOK(r, app) /\ r.fetched <= fetchedHash
    BY <1>0, <2>2, <2>3, FieldsNow DEF FieldsOK, AppStates, RunFields
  <2>5. RunInv' /\ (structured => list' = list)
    BY <2>1, <2>3, <2>4, FieldsNow, BecomeOK, Zenon
  <2> QED BY <1>0, <2>5
<1>7. ASSUME NEW c \in Fetches, RunsAnswered(c)
      PROVE  RunInv' /\ (structured => list'.v >= list.v)
  <2>1. /\ UNCHANGED <<topology, app, attached, list, structured, loading, error, fetchedHash,
                       inFlight, pending>>
        /\ request[c].at = "sent"
        /\ \/ request' = [request EXCEPT ![c] = [at |-> "answered", v |-> topology]]
           \/ request' = [request EXCEPT ![c].at = "failed"]
    BY <1>7, Zenon DEF RunsAnswered
  <2>2. Fields' = Fields
    BY <2>1, Zenon DEF Fields
  <2>3. FieldsOK(Fields, app)'
    BY <2>1, <2>2, Zenon DEF RunInv, FieldsOK
  <2>4. fetchedHash <= topology /\ (list.v <= topology) /\ fetchedHash \in Nat
    <3>1. FieldsOK(Fields, app) /\ app.snap <= topology /\ topology \in Nat
      BY Zenon DEF RunInv
    <3>2. app.snap \in Nat /\ Fields.list = list /\ Fields.fetched = fetchedHash
      BY FieldsNow, Zenon DEF AppStates
    <3>3. fetchedHash \in Nat /\ list.v \in Nat
      BY <3>1, <3>2, Zenon DEF FieldsOK, RunFields
    <3>4. fetchedHash <= app.snap /\ (list.v <= app.snap \/ list.v <= topology)
      BY <3>1, <3>2, Zenon DEF FieldsOK
    <3> QED BY <3>1, <3>2, <3>3, <3>4
  <2>5. RequestsOK'
    <3>1. CASE request' = [request EXCEPT ![c] = [at |-> "answered", v |-> topology]]
      BY <1>0, <2>1, <2>4, <3>1 DEF RunInv, RequestsOK, NoFetch
    <3>2. CASE request' = [request EXCEPT ![c].at = "failed"]
      <4>1. \A d \in Fetches : /\ d # c => request'[d] = request[d]
                               /\ d = c => request'[d] = [at |-> "failed", v |-> request[c].v]
        BY <3>2, Zenon DEF RunInv, RequestsOK
      <4>2. request' \in [Fetches -> [at : {"none", "sent", "answered", "failed"}, v : Nat]]
        BY <3>2, Zenon DEF RunInv, RequestsOK
      <4>3. \A d \in Fetches : /\ request'[d] # NoFetch => request[d] # NoFetch
                               /\ request'[d].at = "answered" => request'[d] = request[d]
                               /\ request'[d].at = "none" => request'[d] = request[d]
        BY <2>1, <4>1 DEF NoFetch
      <4>4. RequestsOK /\ UNCHANGED <<topology, list, fetchedHash, inFlight>>
        BY <2>1, Zenon DEF RunInv
      <4>5. \A d, e \in Fetches : request'[d] # NoFetch /\ request'[e] # NoFetch => d = e
        BY <4>3, <4>4, Zenon DEF RequestsOK
      <4>6. \A d \in Fetches : /\ request'[d].at = "none" => request'[d] = NoFetch
                               /\ request'[d] # NoFetch => inFlight'
        BY <4>3, <4>4, Zenon DEF RequestsOK
      <4>7. \A d \in Fetches : request'[d].at = "answered" =>
               request'[d].v >= fetchedHash' /\ request'[d].v >= list'.v /\ request'[d].v <= topology'
        <5> TAKE d \in Fetches
        <5> HAVE request'[d].at = "answered"
        <5>1. request'[d] = request[d]
          BY <4>3, Zenon
        <5>2. request[d].v >= fetchedHash /\ request[d].v >= list.v /\ request[d].v <= topology
          BY <4>4, <5>1, Zenon DEF RequestsOK
        <5> QED BY <4>4, <5>1, <5>2, Zenon
      <4>8. NoFetch' = NoFetch
        BY Zenon DEF NoFetch
      <4> QED BY <4>2, <4>5, <4>6, <4>7, <4>8, Zenon DEF RequestsOK
    <3> QED BY <2>1, <3>1, <3>2, Zenon
  <2>6. attached' => Heard(Fields, app)'
    BY <2>1, <2>2, Zenon DEF RunInv, Heard
  <2> QED BY <1>0, <2>1, <2>3, <2>5, <2>6 DEF RunInv
<1>8. ASSUME NEW c \in Fetches, FetchDone(c)
      PROVE  RunInv' /\ (structured => list'.v >= list.v)
  BY <1>8, DoneOK, Zenon
<1>9. CASE UNCHANGED runVars
  <2>1. UNCHANGED <<topology, app, attached, source>>
    BY <1>9, Zenon DEF runVars
  <2>2. Fields' = Fields /\ RequestsOK'
    BY <2>1, Zenon DEF source, Fields, RequestsOK, RunInv
  <2>3. FieldsOK(Fields, app)'
    BY <2>1, <2>2, Zenon DEF RunInv, FieldsOK
  <2> QED BY <1>0, <2>1, <2>2, <2>3 DEF RunInv, source, Heard
<1> QED BY <1>1, <1>2, <1>3, <1>4, <1>5, <1>6, <1>7, <1>8, <1>9, Zenon DEF RunsNext

(* What the invariant says of the list. *)
LEMMA RunInvMeans ==
    RunInv => IdsAreTheRelays /\ SettledIsCurrent /\ LoadingIsReal
<1> SUFFICES ASSUME RunInv PROVE IdsAreTheRelays /\ SettledIsCurrent /\ LoadingIsReal
  BY Zenon
<1>1. FieldsOK(Fields, app) /\ (attached => Heard(Fields, app))
  BY Zenon DEF RunInv
<1>2. /\ Fields.list = list /\ Fields.structured = structured /\ Fields.pending = pending
      /\ Fields.inFlight = inFlight /\ Fields.fetched = fetchedHash /\ Fields.error = error
      /\ Fields.loading = loading
  BY Zenon DEF Fields
<1> QED BY <1>1, <1>2, Zenon DEF FieldsOK, Heard, IdsAreTheRelays, SettledIsCurrent, LoadingIsReal

(* The list of runs is honest, as long as the relay's topology does not return to an
   earlier content, for any number of contents, requests, failures and views: no made-up
   ids are shown as the relay's, a list at rest is as new as the snapshot beside it or
   says that it could not be read, and an older list never replaces a newer one
   (RunSource.reconcile, fetch). *)
THEOREM RunListHonest == ~Recurs => (RunsSpec => ListHonest)
<1> SUFFICES ASSUME ~Recurs PROVE RunsSpec => ListHonest
  BY Zenon
<1>1. RunInv /\ [RunsNext]_runVars => RunInv'
  BY RunStep, Zenon
<1>2. RunInv /\ [RunsNext]_runVars => [structured => list'.v >= list.v]_runVars
  BY RunStep, Zenon
<1> QED BY <1>1, <1>2, RunInitInv, RunInvMeans, PTL DEF RunsSpec, ListHonest, ListMovesForward

-----------------------------------------------------------------------------
(* The launch flow. *)

(* The steps of a launch. *)
Names == {"workspace", "pane", "agent", "prompt"}

(* The sequence of steps and the set of them. *)
LEMMA StepNames == Steps = Names /\ DOMAIN LAUNCH_STEPS = 1..4
BY DEF Steps, LAUNCH_STEPS, Names

(* A step starts when those before it are done; only a prompt's delivery is uncertain. *)
StepsShape(st) ==
    /\ st \in [Names -> Statuses]
    /\ st["pane"] # "pending" => st["workspace"] = "done"
    /\ st["agent"] # "pending" => st["pane"] = "done"
    /\ st["prompt"] # "pending" => st["agent"] = "done"
    /\ \A s \in {"workspace", "pane", "agent"} : st[s] # "delivery_unknown"

(* No step is under way or has failed. *)
Clear(st) == \A s \in Names : st[s] \notin {"running", "failed"}

(* nextStep is the one pending step whose predecessors are done. *)
LEMMA NextStepIs ==
    ASSUME NEW st, StepsShape(st), Clear(st)
    PROVE  /\ nextStep(st) \in Names \cup {"none"}
           /\ nextStep(st) = "none" => st["prompt"] # "pending"
           /\ \A s \in Names : nextStep(st) = s => st[s] = "pending"
           /\ nextStep(st) = "pane" => st["workspace"] = "done"
           /\ nextStep(st) = "agent" => st["pane"] = "done"
           /\ nextStep(st) = "prompt" => st["agent"] = "done"
<1> DEFINE left == {i \in DOMAIN LAUNCH_STEPS : st[LAUNCH_STEPS[i]] \notin SETTLED}
<1>1. nextStep(st) = IF left = {} THEN "none" ELSE LAUNCH_STEPS[Least(left)]
  BY Zenon DEF nextStep
<1>2. /\ LAUNCH_STEPS[1] = "workspace" /\ LAUNCH_STEPS[2] = "pane"
      /\ LAUNCH_STEPS[3] = "agent" /\ LAUNCH_STEPS[4] = "prompt"
  BY Zenon DEF LAUNCH_STEPS
<1>3. \A i \in 1..4 : i \in left <=> st[LAUNCH_STEPS[i]] = "pending"
  BY <1>2, StepNames DEF StepsShape, Clear, Names, Statuses, SETTLED
<1>4. left \subseteq 1..4
  BY StepNames, Zenon
<1> HIDE DEF left
<1>5. CASE left = {}
  BY <1>1, <1>2, <1>3, <1>5 DEF Names
<1>6. CASE left # {}
  <2>1. \E m \in left : \A j \in left : m <= j
    <3>1. CASE 1 \in left
      BY <1>4, <3>1
    <3>2. CASE 1 \notin left /\ 2 \in left
      BY <1>4, <3>2
    <3>3. CASE 1 \notin left /\ 2 \notin left /\ 3 \in left
      BY <1>4, <3>3
    <3>4. CASE 1 \notin left /\ 2 \notin left /\ 3 \notin left
      <4>1. \A j \in left : j = 4
        BY <1>4, <3>4
      <4> QED BY <1>6, <4>1
    <3> QED BY <3>1, <3>2, <3>3, <3>4, Zenon
  <2>2. Least(left) \in left /\ \A j \in left : Least(left) <= j
    BY <2>1, Zenon DEF Least
  <2> DEFINE m == Least(left)
  <2>3. m \in left /\ m \in 1..4 /\ (\A j \in left : m <= j) /\ nextStep(st) = LAUNCH_STEPS[m]
    BY <1>1, <1>4, <1>6, <2>2, Zenon
  <2> HIDE DEF m
  <2>4. \A j \in 1..4 : j < m => st[LAUNCH_STEPS[j]] # "pending"
    BY <1>3, <2>3
  <2>5. st[LAUNCH_STEPS[m]] = "pending"
    BY <1>3, <2>3, Zenon
  <2>6. CASE m = 1
    BY <1>2, <2>3, <2>5, <2>6, Zenon DEF Names
  <2>7. CASE m = 2
    BY <1>2, <2>3, <2>4, <2>5, <2>7 DEF Names, StepsShape, Clear, Statuses
  <2>8. CASE m = 3
    BY <1>2, <2>3, <2>4, <2>5, <2>8 DEF Names, StepsShape, Clear, Statuses
  <2>9. CASE m = 4
    BY <1>2, <2>3, <2>4, <2>5, <2>9 DEF Names, StepsShape, Clear, Statuses
  <2> QED BY <2>3, <2>6, <2>7, <2>8, <2>9
<1> QED BY <1>5, <1>6, Zenon

(* What the script leaves when it has run to its next await, from the steps st. *)
Stopped(c) ==
    /\ activation' = [activation EXCEPT ![c] = Idle] /\ phase' = "settled"
    /\ \A s \in Names : steps'[s] # "running"

Awaits(c, ph) ==
    \E s \in Names, at \in {"call", "split", "gen"} :
        /\ activation' = [activation EXCEPT ![c] = Waiting("execute", s, at, draft)] /\ phase' = ph
        /\ steps'[s] = "running"

Ran(c, ph, st) ==
    /\ StepsShape(steps')
    /\ \A s \in Names : st[s] = "done" => steps'[s] = "done"
    /\ st["prompt"] = "delivery_unknown" => steps'["prompt"] = "delivery_unknown"
    /\ steps'["prompt"] \in {"done", "delivery_unknown"} => steps'["prompt"] = st["prompt"]
    /\ Stopped(c) \/ Awaits(c, ph)

(* A wait, a failure and an iteration leave what Ran says. *)
LEMMA WaitRuns ==
    ASSUME NEW c, NEW ph, NEW st, NEW cr, NEW s \in Names, NEW at \in {"call", "split", "gen"},
           StepsShape(st), Clear(st), nextStep(st) = s, Wait(c, s, at, ph, st, cr)
    PROVE  Ran(c, ph, st)
<1>1. steps' = [st EXCEPT ![s] = "running"]
  BY Zenon DEF Wait
<1>2. Awaits(c, ph)
  BY <1>1, Zenon DEF Wait, Awaits, StepsShape, Names
<1>3. st[s] = "pending"
  BY NextStepIs, Zenon
<1>4. StepsShape(steps')
  BY <1>1, NextStepIs, Zenon DEF StepsShape, Names, Statuses
<1> QED BY <1>1, <1>2, <1>3, <1>4, Zenon DEF Ran, StepsShape, Names

(* A failed step ends the orchestration (fail). *)
LEMMA FailRuns ==
    ASSUME NEW c, NEW ph, NEW st, NEW cr, NEW s \in Names, StepsShape(st), Clear(st),
           nextStep(st) = s, fail(c, s, st, cr)
    PROVE  Ran(c, ph, st)
<1>1. steps' = [st EXCEPT ![s] = "failed"]
  BY Zenon DEF fail
<1>2. Stopped(c)
  BY <1>1, Zenon DEF fail, Stopped, StepsShape, Clear, Names
<1>3. st[s] = "pending"
  BY NextStepIs, Zenon
<1>4. StepsShape(steps')
  BY <1>1, NextStepIs, Zenon DEF StepsShape, Names, Statuses
<1> QED BY <1>1, <1>2, <1>3, <1>4, Zenon DEF Ran, StepsShape, Names

(* The loop of execute waits for the next step, fails, or is done. *)
LEMMA IterateRuns ==
    ASSUME NEW c, NEW ph, NEW st, NEW cr, StepsShape(st), Clear(st), Iterate(c, ph, st, cr)
    PROVE  Ran(c, ph, st)
<1>1. CASE /\ nextStep(st) = "none" /\ phase' = "settled" /\ steps' = st
           /\ activation' = [activation EXCEPT ![c] = Idle]
  BY <1>1, Zenon DEF Ran, Stopped, Clear
<1>2. CASE nextStep(st) = "workspace" /\ Wait(c, nextStep(st), "call", ph, st, cr)
  BY <1>2, WaitRuns, Zenon DEF Names
<1>3. CASE nextStep(st) = "pane" /\ PaneStep(c, ph, st, cr)
  BY <1>3, WaitRuns, FailRuns, Zenon DEF PaneStep, Names
<1>4. CASE nextStep(st) \in {"agent", "prompt"} /\ Wait(c, nextStep(st), "gen", ph, st, cr)
  BY <1>4, WaitRuns, Zenon DEF Names
<1>5. CASE nextStep(st) \in {"agent", "prompt"} /\ fail(c, nextStep(st), st, cr)
  BY <1>5, FailRuns, Zenon DEF Names
<1> QED BY <1>1, <1>2, <1>3, <1>4, <1>5, Zenon DEF Iterate

(* So does execute, which may first complete the workspace step. *)
LEMMA ExecuteRuns ==
    ASSUME NEW c, NEW ph, NEW st, NEW cr, StepsShape(st), Clear(st), execute(c, ph, st, cr)
    PROVE  Ran(c, ph, st)
<1>1. CASE nextStep(st) = "workspace" /\ target = "existing"
  <2>1. CASE fail(c, "workspace", st, cr)
    BY <1>1, <2>1, FailRuns, Zenon DEF Names
  <2>2. CASE Iterate(c, ph, [st EXCEPT !["workspace"] = "done"], [cr EXCEPT !.ws = TRUE])
    <3> DEFINE lk == [st EXCEPT !["workspace"] = "done"]
               kr == [cr EXCEPT !.ws = TRUE]
    <3>1. st["workspace"] = "pending"
      BY <1>1, NextStepIs, Zenon DEF Names
    <3>2. StepsShape(lk) /\ Clear(lk)
      BY <3>1, Zenon DEF StepsShape, Clear, Names, Statuses
    <3>3. \A s \in Names \ {"workspace"} : lk[s] = st[s]
      BY Zenon DEF StepsShape, Names
    <3>4. Iterate(c, ph, lk, kr)
      BY <2>2, Zenon
    <3> HIDE DEF lk, kr
    <3>5. Ran(c, ph, lk)
      BY <3>2, <3>4, IterateRuns, Zenon
    <3> QED BY <3>1, <3>3, <3>5, Zenon DEF Ran, Names
  <2> QED BY <1>1, <2>1, <2>2, Zenon DEF execute
<1>2. CASE ~(nextStep(st) = "workspace" /\ target = "existing")
  BY <1>2, IterateRuns, Zenon DEF execute
<1> QED BY <1>1, <1>2, Zenon

(* Where an activation can be. *)
Slots == [at : {"idle", "call", "split", "gen"}, kind : {"none", "execute", "resend"},
          step : Names \cup {"none"}, draft : Nat]

Acting(c) == activation[c].at # "idle"

(* One activation at a time, and the step it works on is the one that runs. *)
ActivationsOK ==
    /\ activation \in [Activations -> Slots]
    /\ \A c, d \in Activations : Acting(c) /\ Acting(d) => c = d
    /\ \A c \in Activations : Acting(c) =>
          /\ activation[c].draft = draft
          /\ activation[c].step \in Names /\ steps[activation[c].step] = "running"
          /\ \/ activation[c].kind = "execute" /\ phase = "running"
             \/ activation[c].kind = "resend" /\ phase = "settled" /\ activation[c].step = "prompt"
    /\ (\A c \in Activations : ~Acting(c)) => \A s \in Names : steps[s] # "running"
    /\ phase = "compose" => Clear(steps) /\ \A c \in Activations : ~Acting(c)

(* What Herdr took is covered by what was asked: an objective that can still be sent
   without asking was taken at most as often as it was asked for again. *)
BooksOK ==
    /\ reached \in [1..MaxDrafts -> Nat] /\ asked \in [1..MaxDrafts -> Nat]
    /\ \A d \in 1..MaxDrafts : reached[d] <= 1 + asked[d]
    /\ \A d \in 1..MaxDrafts : d > draft => reached[d] = 0
    /\ steps["prompt"] \in {"pending", "running", "failed"} => reached[draft] <= asked[draft]
    /\ steps["prompt"] = "done" => draft \in confirmed

(* LaunchHonest is not inductive: a receipt is settled by the prompt's answer, and whether
   one more send is covered depends on what was asked before. *)
LaunchInv ==
    /\ MaxDrafts \in Nat /\ draft \in 1..MaxDrafts
    /\ StepsShape(steps) /\ ActivationsOK /\ BooksOK

(* Completed steps of a draft stay completed. *)
Kept == draft' = draft => \A s \in Names : steps[s] = "done" => steps'[s] = "done"

(* A new draft has nothing done. *)
LEMMA InitialSteps ==
    StepsShape(initialSteps) /\ Clear(initialSteps) /\ initialSteps["prompt"] = "pending"
BY StepNames, Zenon DEF StepsShape, Clear, initialSteps, Names, Statuses

(* A draft nobody has launched. *)
LEMMA LaunchInitInv == LaunchInit => LaunchInv
<1> SUFFICES ASSUME LaunchInit PROVE LaunchInv
  BY Zenon
<1>1. Idle \in Slots /\ Idle.at = "idle"
  BY Zenon DEF Idle, Waiting, Slots
<1>2. MaxDrafts \in Nat /\ draft \in 1..MaxDrafts /\ steps = initialSteps
  BY LaunchAssumption DEF LaunchInit
<1>3. ActivationsOK
  BY <1>1, <1>2, InitialSteps, Zenon DEF LaunchInit, ActivationsOK, Acting, Clear
<1>4. BooksOK
  BY <1>2, InitialSteps DEF LaunchInit, BooksOK
<1> QED BY <1>2, <1>3, <1>4, InitialSteps, Zenon DEF LaunchInv

(* The activation c has run to its next await. *)
LEMMA RanCalls ==
    ASSUME LaunchInv, NEW c \in Activations, NEW st, UNCHANGED draft, Ran(c, "running", st),
           \A d \in Activations : Acting(d) => d = c
    PROVE  ActivationsOK'
<1>1. activation \in [Activations -> Slots] /\ draft \in Nat
  BY DEF LaunchInv, ActivationsOK
<1>2. CASE Stopped(c)
  <2>1. Idle \in Slots /\ Idle.at = "idle"
    BY Zenon DEF Idle, Waiting, Slots
  <2>2. activation' \in [Activations -> Slots] /\ \A d \in Activations : ~Acting(d)'
    BY <1>1, <1>2, <2>1, Zenon DEF Stopped, Acting
  <2> QED BY <1>2, <2>2, Zenon DEF Stopped, ActivationsOK
<1>3. CASE Awaits(c, "running")
  <2>1. PICK s \in Names, at \in {"call", "split", "gen"} :
            /\ activation' = [activation EXCEPT ![c] = Waiting("execute", s, at, draft)]
            /\ phase' = "running" /\ steps'[s] = "running"
    BY <1>3, Zenon DEF Awaits
  <2> DEFINE w == Waiting("execute", s, at, draft)
  <2>2. w \in Slots /\ w.at # "idle" /\ w.kind = "execute" /\ w.step = s /\ w.draft = draft
    BY <1>1, Zenon DEF Waiting, Slots
  <2> HIDE DEF w
  <2>3. /\ activation' \in [Activations -> Slots] /\ activation'[c] = w
        /\ \A d \in Activations : Acting(d)' <=> d = c
    BY <1>1, <2>1, <2>2, Zenon DEF Acting, w
  <2> QED BY <2>1, <2>2, <2>3, Zenon DEF ActivationsOK
<1> QED BY <1>2, <1>3, Zenon DEF Ran

(* Nothing was sent, and the prompt is where it was, or runs. *)
LEMMA BooksKept ==
    ASSUME LaunchInv, UNCHANGED <<draft, asked, reached, confirmed>>, StepsShape(steps'),
           steps'["prompt"] \in {"done", "delivery_unknown"} => steps'["prompt"] = steps["prompt"],
           steps["prompt"] \in {"done", "delivery_unknown"} => steps'["prompt"] = steps["prompt"]
    PROVE  BooksOK'
BY Zenon DEF LaunchInv, BooksOK, StepsShape, Names, Statuses

(* The step that was awaited is done, and the script goes on. *)
LEMMA GoesOn ==
    ASSUME LaunchInv, NEW c \in Activations, NEW s \in Names, NEW at \in {"call", "split", "gen"},
           Executing(c, s, at), NEW cr, UNCHANGED draft,
           execute(c, phase, [steps EXCEPT ![s] = "done"], cr)
    PROVE  /\ StepsShape(steps') /\ ActivationsOK' /\ Kept
           /\ s # "prompt" => steps["prompt"] = "pending"
           /\ s # "prompt" => steps'["prompt"] \notin {"done", "delivery_unknown"}
           /\ s = "prompt" => steps'["prompt"] = "done"
<1> DEFINE st == [steps EXCEPT ![s] = "done"]
<1>1. Acting(c) /\ activation[c].step = s /\ activation[c].kind = "execute"
  BY Zenon DEF Executing, Acting
<1>2. phase = "running" /\ steps[s] = "running" /\ \A d \in Activations : Acting(d) => d = c
  BY <1>1, Zenon DEF LaunchInv, ActivationsOK
<1>3. StepsShape(st) /\ Clear(st)
  BY <1>2, Zenon DEF LaunchInv, StepsShape, Clear, Names, Statuses
<1>4. /\ \A t \in Names : steps[t] = "done" => st[t] = "done"
      /\ s # "prompt" => steps["prompt"] = "pending" /\ st["prompt"] = "pending"
      /\ s = "prompt" => st["prompt"] = "done"
  BY <1>2, Zenon DEF LaunchInv, StepsShape, Names, Statuses
<1>5. execute(c, phase, st, cr)
  BY Zenon
<1> HIDE DEF st
<1>6. Ran(c, "running", st)
  BY <1>2, <1>3, <1>5, ExecuteRuns, Zenon
<1>7. ActivationsOK'
  BY <1>2, <1>6, RanCalls, Zenon
<1> QED BY <1>4, <1>6, <1>7, Zenon DEF Ran, Kept, Names

(* The step that was awaited failed. *)
LEMMA StopsThere ==
    ASSUME LaunchInv, NEW c \in Activations, NEW s \in Names, NEW at \in {"call", "split", "gen"},
           Executing(c, s, at), NEW cr, UNCHANGED draft, fail(c, s, steps, cr)
    PROVE  /\ StepsShape(steps') /\ ActivationsOK' /\ Kept
           /\ steps["prompt"] \in {"pending", "running"}
           /\ steps'["prompt"] \in {"pending", "failed"}
<1>1. Acting(c) /\ activation[c].step = s /\ activation[c].kind = "execute"
  BY Zenon DEF Executing, Acting
<1>2. phase = "running" /\ steps[s] = "running" /\ \A d \in Activations : Acting(d) => d = c
  BY <1>1, Zenon DEF LaunchInv, ActivationsOK
<1>3. /\ steps' = [steps EXCEPT ![s] = "failed"] /\ phase' = "settled"
      /\ activation' = [activation EXCEPT ![c] = Idle]
  BY Zenon DEF fail
<1>4. /\ StepsShape(steps') /\ \A t \in Names : steps'[t] # "running"
      /\ steps["prompt"] \in {"pending", "running"}
      /\ steps'["prompt"] \in {"pending", "failed"}
  BY <1>2, <1>3, Zenon DEF LaunchInv, StepsShape, Names, Statuses
<1>5. Kept
  BY <1>2, <1>3, Zenon DEF LaunchInv, StepsShape, Names, Kept
<1>6. Idle \in Slots /\ Idle.at = "idle"
  BY Zenon DEF Idle, Waiting, Slots
<1>7. activation' \in [Activations -> Slots] /\ \A d \in Activations : ~Acting(d)'
  BY <1>2, <1>3, <1>6, Zenon DEF LaunchInv, ActivationsOK, Acting
<1> QED BY <1>3, <1>4, <1>5, <1>7, Zenon DEF ActivationsOK

(* Only where the activation waits changes. *)
LEMMA MovesOn ==
    ASSUME LaunchInv, NEW c \in Activations, NEW at \in {"call", "split", "gen"}, Acting(c),
           UNCHANGED <<draft, steps, phase>>, activation' = [activation EXCEPT ![c].at = at]
    PROVE  ActivationsOK'
<1>1. activation \in [Activations -> Slots]
  BY Zenon DEF LaunchInv, ActivationsOK
<1>2. /\ activation'[c].at = at /\ activation'[c].kind = activation[c].kind /\ activation'[c].step = activation[c].step
      /\ activation'[c].draft = activation[c].draft /\ activation' \in [Activations -> Slots]
      /\ \A d \in Activations : d # c => activation'[d] = activation[d]
  BY <1>1, Zenon DEF Slots
<1>3. \A d \in Activations : Acting(d)' <=> d = c
  BY <1>2, Zenon DEF LaunchInv, ActivationsOK, Acting
<1>4. \A d \in Activations : Acting(d) <=> d = c
  BY Zenon DEF LaunchInv, ActivationsOK
<1> QED BY <1>2, <1>3, <1>4 DEF LaunchInv, ActivationsOK

(* The answers before the prompt. *)
LEMMA SetupStep ==
    ASSUME LaunchInv, NEW c \in Activations,
           WorkspaceAnswer(c) \/ SplitAnswer(c) \/ PaneGeneration(c) \/ StepGeneration(c)
           \/ AgentAnswer(c)
    PROVE  LaunchInv' /\ Kept
<1> USE DEF Names
<1>0. UNCHANGED <<draft, asked, reached, confirmed>>
  BY Zenon DEF WorkspaceAnswer, SplitAnswer, PaneGeneration, StepGeneration, AgentAnswer, Quiet, herdr
<1>1. ASSUME NEW s \in {"workspace", "pane", "agent"}, NEW at \in {"call", "split", "gen"},
             Executing(c, s, at), NEW cr, execute(c, phase, [steps EXCEPT ![s] = "done"], cr)
      PROVE  LaunchInv' /\ Kept
  <2>1. /\ StepsShape(steps') /\ ActivationsOK' /\ Kept /\ steps["prompt"] = "pending"
        /\ steps'["prompt"] \notin {"done", "delivery_unknown"}
    BY <1>0, <1>1, GoesOn, Zenon
  <2> QED BY <1>0, <2>1, BooksKept, Zenon DEF LaunchInv
<1>2. ASSUME NEW s \in Names, NEW at \in {"call", "split", "gen"},
             Executing(c, s, at), NEW cr, fail(c, s, steps, cr)
      PROVE  LaunchInv' /\ Kept
  <2>1. /\ StepsShape(steps') /\ ActivationsOK' /\ Kept /\ steps["prompt"] \in {"pending", "running"}
        /\ steps'["prompt"] \in {"pending", "failed"}
    BY <1>0, <1>2, StopsThere, Zenon
  <2> QED BY <1>0, <2>1, BooksKept, Zenon DEF LaunchInv
<1>3. ASSUME NEW at \in {"call", "gen"}, Acting(c), UNCHANGED <<phase, steps>>,
             activation' = [activation EXCEPT ![c].at = at]
      PROVE  LaunchInv' /\ Kept
  BY <1>0, <1>3, MovesOn, Zenon DEF LaunchInv, BooksOK, Kept
<1>4. CASE WorkspaceAnswer(c)
  BY <1>1, <1>2, <1>4, Zenon DEF WorkspaceAnswer
<1>5. CASE SplitAnswer(c)
  BY <1>2, <1>3, <1>5, Zenon DEF SplitAnswer, Executing, Acting
<1>6. CASE PaneGeneration(c)
  BY <1>1, <1>2, <1>6, Zenon DEF PaneGeneration
<1>7. CASE StepGeneration(c)
  <2>1. PICK s \in {"agent", "prompt"} :
            Executing(c, s, "gen") /\ (fail(c, s, steps, created) \/ Send(c, s))
    BY <1>7, Zenon DEF StepGeneration
  <2>2. CASE fail(c, s, steps, created)
    BY <1>2, <2>1, <2>2, Zenon
  <2>3. CASE Send(c, s)
    BY <1>3, <2>1, <2>3, Zenon DEF Send, Executing, Acting
  <2> QED BY <2>1, <2>2, <2>3, Zenon
<1>8. CASE AgentAnswer(c)
  BY <1>1, <1>2, <1>8, Zenon DEF AgentAnswer
<1> QED BY <1>4, <1>5, <1>6, <1>7, <1>8, Zenon

(* What an answered prompt adds to the books of its draft. *)
LEMMA DeliveredBooks ==
    ASSUME LaunchInv, NEW c \in Activations, Acting(c), NEW o \in Outcomes, Delivered(c, o),
           steps["prompt"] = "running", UNCHANGED <<draft, asked>>, StepsShape(steps'),
           steps'["prompt"] = "done" => o.kind = "accepted",
           steps'["prompt"] \in {"pending", "running", "failed"} => o.kind = "rejected"
    PROVE  BooksOK'
<1>1. activation[c].draft = draft /\ draft \in 1..MaxDrafts /\ reached[draft] <= asked[draft]
  BY Zenon DEF LaunchInv, ActivationsOK, BooksOK
<1>2. o.kind = "rejected" => o.took = FALSE
  BY DEF Outcomes
<1>3. /\ reached' = IF o.took THEN [reached EXCEPT ![draft] = @ + 1] ELSE reached
      /\ confirmed' = IF o.kind = "accepted" THEN confirmed \cup {draft} ELSE confirmed
  BY <1>1, Zenon DEF Delivered
<1>4. CASE o.took
  <2>1. reached' = [reached EXCEPT ![draft] = @ + 1] /\ o.kind # "rejected"
    BY <1>2, <1>3, <1>4, Zenon
  <2>2. reached \in [1..MaxDrafts -> Nat] /\ asked \in [1..MaxDrafts -> Nat]
    BY Zenon DEF LaunchInv, BooksOK
  <2>3. /\ reached' \in [1..MaxDrafts -> Nat]
        /\ \A d \in 1..MaxDrafts : reached'[d] = IF d = draft THEN reached[d] + 1 ELSE reached[d]
    BY <1>1, <2>1, <2>2
  <2>4. \A d \in 1..MaxDrafts : reached'[d] <= 1 + asked[d]
    <3>1. \A d \in 1..MaxDrafts : reached[d] <= 1 + asked[d]
      BY Zenon DEF LaunchInv, BooksOK
    <3> QED BY <1>1, <2>2, <2>3, <3>1
  <2>5. \A d \in 1..MaxDrafts : d > draft => reached'[d] = 0
    BY <1>1, <2>3 DEF LaunchInv, BooksOK
  <2>6. steps'["prompt"] \notin {"pending", "running", "failed"}
    BY <2>1, Zenon
  <2>7. steps'["prompt"] = "done" => draft \in confirmed'
    BY <1>3, Zenon
  <2> QED BY <2>2, <2>3, <2>4, <2>5, <2>6, <2>7, Zenon DEF BooksOK
<1>5. CASE ~o.took
  BY <1>1, <1>3, <1>5, Zenon DEF LaunchInv, BooksOK
<1> QED BY <1>4, <1>5, Zenon

(* The activation ends, and only the prompt's status is new. *)
LEMMA PromptEnds ==
    ASSUME LaunchInv, NEW c \in Activations, Acting(c), activation[c].step = "prompt", UNCHANGED draft,
           NEW x \in {"done", "failed", "delivery_unknown"}, phase' = "settled",
           steps' = [steps EXCEPT !["prompt"] = x], activation' = [activation EXCEPT ![c] = Idle]
    PROVE  StepsShape(steps') /\ ActivationsOK' /\ Kept /\ steps["prompt"] = "running" /\ steps'["prompt"] = x
<1>1. steps["prompt"] = "running" /\ \A d \in Activations : Acting(d) => d = c
  BY Zenon DEF LaunchInv, ActivationsOK
<1>2. /\ StepsShape(steps') /\ (\A t \in Names : steps'[t] # "running") /\ Kept
      /\ steps'["prompt"] = x
  BY <1>1, Zenon DEF LaunchInv, StepsShape, Names, Statuses, Kept
<1>3. Idle \in Slots /\ Idle.at = "idle"
  BY Zenon DEF Idle, Waiting, Slots
<1>4. activation' \in [Activations -> Slots] /\ \A d \in Activations : ~Acting(d)'
  BY <1>1, <1>3, Zenon DEF LaunchInv, ActivationsOK, Acting
<1> QED BY <1>1, <1>2, <1>4, Zenon DEF ActivationsOK

(* The prompt's answer. *)
LEMMA PromptStep ==
    ASSUME LaunchInv, NEW c \in Activations, PromptAnswer(c)
    PROVE  LaunchInv' /\ Kept
<1> USE DEF Names
<1>1. PICK o \in Outcomes :
          /\ Delivered(c, o)
          /\ \/ o.kind = "accepted" /\ execute(c, phase, [steps EXCEPT !["prompt"] = "done"], created)
             \/ o.kind = "rejected" /\ fail(c, "prompt", steps, created)
             \/ /\ o.kind = "delivery_unknown"
                /\ steps' = [steps EXCEPT !["prompt"] = o.kind]
                /\ phase' = "settled" /\ created' = created
                /\ activation' = [activation EXCEPT ![c] = Idle]
  BY Zenon DEF PromptAnswer
<1>2. /\ Executing(c, "prompt", "call") /\ UNCHANGED <<draft, asked>>
      /\ Acting(c) /\ activation[c].step = "prompt"
  BY Zenon DEF PromptAnswer, Quiet, Executing, Acting
<1>3. steps["prompt"] = "running"
  BY <1>2, Zenon DEF LaunchInv, ActivationsOK
<1>4. CASE o.kind = "accepted" /\ execute(c, phase, [steps EXCEPT !["prompt"] = "done"], created)
  <2>1. StepsShape(steps') /\ ActivationsOK' /\ Kept /\ steps'["prompt"] = "done"
    BY <1>2, <1>4, GoesOn, Zenon
  <2>2. BooksOK'
    BY <1>1, <1>2, <1>3, <1>4, <2>1, DeliveredBooks, Zenon
  <2> QED BY <1>2, <2>1, <2>2, Zenon DEF LaunchInv
<1>5. CASE o.kind = "rejected" /\ fail(c, "prompt", steps, created)
  <2>1. StepsShape(steps') /\ ActivationsOK' /\ Kept /\ steps'["prompt"] \in {"pending", "failed"}
    BY <1>2, <1>5, StopsThere, Zenon
  <2>2. BooksOK'
    BY <1>1, <1>2, <1>3, <1>5, <2>1, DeliveredBooks, Zenon
  <2> QED BY <1>2, <2>1, <2>2, Zenon DEF LaunchInv
<1>6. CASE /\ o.kind = "delivery_unknown" /\ steps' = [steps EXCEPT !["prompt"] = o.kind]
           /\ phase' = "settled" /\ activation' = [activation EXCEPT ![c] = Idle]
  <2>1. StepsShape(steps') /\ ActivationsOK' /\ Kept /\ steps'["prompt"] = "delivery_unknown"
    BY <1>2, <1>6, PromptEnds, Zenon
  <2>2. BooksOK'
    BY <1>1, <1>2, <1>3, <1>6, <2>1, DeliveredBooks, Zenon
  <2> QED BY <1>2, <2>1, <2>2, Zenon DEF LaunchInv
<1> QED BY <1>1, <1>4, <1>5, <1>6, Zenon

(* The answers to resendObjective. *)
LEMMA ResendStep ==
    ASSUME LaunchInv, NEW c \in Activations, ResendGeneration(c) \/ ResendAnswer(c)
    PROVE  LaunchInv' /\ Kept
<1>1. /\ Acting(c) /\ activation[c].kind = "resend" /\ UNCHANGED <<draft, asked, phase>>
  BY Zenon DEF ResendGeneration, ResendAnswer, Resending, Acting, Quiet
<1>2. activation[c].step = "prompt" /\ phase = "settled" /\ steps["prompt"] = "running"
  BY <1>1, Zenon DEF LaunchInv, ActivationsOK
<1>3. CASE ResendGeneration(c)
  <2>1. UNCHANGED <<reached, confirmed>>
    BY <1>3, Zenon DEF ResendGeneration, herdr
  <2>2. CASE steps' = [steps EXCEPT !["prompt"] = "failed"] /\ activation' = [activation EXCEPT ![c] = Idle]
    <3>1. StepsShape(steps') /\ ActivationsOK' /\ Kept /\ steps'["prompt"] = "failed"
      BY <1>1, <1>2, <2>2, PromptEnds, Zenon
    <3> QED BY <1>1, <1>2, <2>1, <3>1, BooksKept, Zenon DEF LaunchInv
  <2>3. CASE activation' = [activation EXCEPT ![c].at = "call"] /\ UNCHANGED steps
    BY <1>1, <2>1, <2>3, MovesOn, Zenon DEF LaunchInv, BooksOK, Kept
  <2> QED BY <1>3, <2>2, <2>3, Zenon DEF ResendGeneration
<1>4. CASE ResendAnswer(c)
  <2>1. PICK o \in Outcomes :
            /\ Delivered(c, o)
            /\ steps' = [steps EXCEPT !["prompt"] =
                            CASE o.kind = "accepted" -> "done"
                              [] o.kind = "rejected" -> "failed"
                              [] OTHER -> o.kind]
    BY <1>4, Zenon DEF ResendAnswer
  <2>2. activation' = [activation EXCEPT ![c] = Idle]
    BY <1>4, Zenon DEF ResendAnswer
  <2>3. PICK x \in {"done", "failed", "delivery_unknown"} :
            /\ steps' = [steps EXCEPT !["prompt"] = x]
            /\ x = "done" => o.kind = "accepted"
            /\ x = "failed" => o.kind = "rejected"
    <3>1. o.kind \in {"accepted", "rejected", "delivery_unknown"}
      BY DEF Outcomes
    <3> QED BY <2>1, <3>1, Zenon
  <2>4. StepsShape(steps') /\ ActivationsOK' /\ Kept /\ steps'["prompt"] = x
    BY <1>1, <1>2, <2>2, <2>3, PromptEnds, Zenon
  <2>5. BooksOK'
    BY <1>1, <1>2, <2>1, <2>3, <2>4, DeliveredBooks, Zenon
  <2> QED BY <1>1, <2>4, <2>5, Zenon DEF LaunchInv
<1> QED BY <1>3, <1>4, Zenon

(* A button that starts the script when nothing is active. *)
LEMMA Starts ==
    ASSUME LaunchInv, NEW c \in Activations, NEW st, NEW cr, execute(c, "running", st, cr),
           StepsShape(st), Clear(st), \A d \in Activations : ~Acting(d),
           UNCHANGED <<draft, asked, reached, confirmed>>,
           \A s \in Names : steps[s] = "done" => st[s] = "done",
           steps["prompt"] \in {"done", "delivery_unknown"} => st["prompt"] = steps["prompt"],
           st["prompt"] \in {"done", "delivery_unknown"} => st["prompt"] = steps["prompt"]
    PROVE  LaunchInv' /\ Kept
<1>1. Ran(c, "running", st)
  BY ExecuteRuns, Zenon
<1>2. ActivationsOK'
  BY <1>1, RanCalls, Zenon
<1>3. StepsShape(steps') /\ Kept
  BY <1>1, Zenon DEF Ran, Kept
<1>4. BooksOK'
  BY <1>1, <1>3, BooksKept, Zenon DEF Ran, Names
<1> QED BY <1>2, <1>3, <1>4, Zenon DEF LaunchInv

(* The three buttons. *)
LEMMA LaunchButton ==
    ASSUME LaunchInv, NEW c \in Activations, Launch(c)
    PROVE  LaunchInv' /\ Kept
<1>1. execute(c, "running", steps, created) /\ phase = "compose"
      /\ UNCHANGED <<draft, asked, reached, confirmed>>
  BY Zenon DEF Launch, herdr
<1>2. StepsShape(steps) /\ Clear(steps) /\ \A d \in Activations : ~Acting(d)
  BY <1>1, Zenon DEF LaunchInv, ActivationsOK
<1> QED BY <1>1, <1>2, Starts, Zenon

(* Retry starts again from the failed step (prepareRetry). *)
LEMMA RetryButton ==
    ASSUME LaunchInv, NEW c \in Activations, Retry(c)
    PROVE  LaunchInv' /\ Kept
<1>1. /\ execute(c, "running", prepareRetry(steps), created) /\ phase = "settled"
      /\ UNCHANGED <<draft, asked, reached, confirmed>>
  BY Zenon DEF Retry, herdr
<1>2. StepsShape(steps)
  BY Zenon DEF LaunchInv
<1>3. \E s \in Names : steps[s] = "failed"
  BY <1>2, Zenon DEF Retry, StepsShape
<1>4. steps["prompt"] # "running"
  BY <1>2, <1>3, Zenon DEF StepsShape, Names
<1>5. \A d \in Activations : ~Acting(d)
  BY <1>1, <1>4, Zenon DEF LaunchInv, ActivationsOK
<1>6. \A s \in Names : steps[s] # "running"
  BY <1>5, Zenon DEF LaunchInv, ActivationsOK
<1> DEFINE st == prepareRetry(steps)
<1>7. /\ st \in [Names -> Statuses]
      /\ \A s \in Names : st[s] = IF steps[s] = "failed" THEN "pending" ELSE steps[s]
  BY <1>2, Zenon DEF prepareRetry, StepsShape, Names, Statuses
<1>8. execute(c, "running", st, created)
  BY <1>1, Zenon
<1> HIDE DEF st
<1>9. StepsShape(st) /\ Clear(st)
  BY <1>2, <1>6, <1>7, Zenon DEF StepsShape, Clear, Names
<1>10. /\ \A s \in Names : steps[s] = "done" => st[s] = "done"
       /\ steps["prompt"] \in {"done", "delivery_unknown"} => st["prompt"] = steps["prompt"]
       /\ st["prompt"] \in {"done", "delivery_unknown"} => st["prompt"] = steps["prompt"]
  BY <1>7, Zenon DEF Names
<1> QED BY <1>1, <1>5, <1>8, <1>9, <1>10, Starts, Zenon

(* Resend is counted as asked for (the resend button). *)
LEMMA ResendButton ==
    ASSUME LaunchInv, NEW c \in Activations, ResendObjective(c)
    PROVE  LaunchInv' /\ Kept
<1>1. /\ phase = "settled" /\ UNCHANGED <<draft, phase, reached, confirmed>>
      /\ asked' = [asked EXCEPT ![draft] = @ + 1]
      /\ steps' = [steps EXCEPT !["prompt"] = "running"]
      /\ activation' = [activation EXCEPT ![c] = Waiting("resend", "prompt", "gen", draft)]
  BY Zenon DEF ResendObjective, herdr
<1>2. StepsShape(steps)
  BY Zenon DEF LaunchInv
<1>3. steps["prompt"] = "delivery_unknown"
  BY <1>2, Zenon DEF ResendObjective, StepsShape, Names
<1>4. \A d \in Activations : ~Acting(d)
  BY <1>1, <1>3, Zenon DEF LaunchInv, ActivationsOK
<1>5. StepsShape(steps') /\ Kept /\ steps'["prompt"] = "running"
  BY <1>1, <1>2, <1>3, Zenon DEF StepsShape, Names, Statuses, Kept
<1>6. ActivationsOK'
  <2> DEFINE w == Waiting("resend", "prompt", "gen", draft)
  <2>1. /\ w \in Slots /\ w.at # "idle" /\ w.kind = "resend" /\ w.step = "prompt"
        /\ w.draft = draft
    BY DEF Waiting, Slots, Names, LaunchInv
  <2>2. activation' = [activation EXCEPT ![c] = w] /\ activation \in [Activations -> Slots]
    BY <1>1, Zenon DEF LaunchInv, ActivationsOK
  <2> HIDE DEF w
  <2>3. /\ activation' \in [Activations -> Slots] /\ activation'[c] = w
        /\ \A d \in Activations : Acting(d)' <=> d = c
    BY <1>4, <2>1, <2>2, Zenon DEF Acting
  <2> QED BY <1>1, <1>5, <2>1, <2>3, Zenon DEF ActivationsOK, Names
<1>7. BooksOK'
  <2>1. /\ reached \in [1..MaxDrafts -> Nat] /\ asked \in [1..MaxDrafts -> Nat]
        /\ draft \in 1..MaxDrafts
        /\ \A d \in 1..MaxDrafts : reached[d] <= 1 + asked[d]
        /\ \A d \in 1..MaxDrafts : d > draft => reached[d] = 0
    BY Zenon DEF LaunchInv, BooksOK
  <2>2. /\ asked' \in [1..MaxDrafts -> Nat]
        /\ \A d \in 1..MaxDrafts : asked'[d] = IF d = draft THEN asked[d] + 1 ELSE asked[d]
    BY <1>1, <2>1
  <2>3. (\A d \in 1..MaxDrafts : reached[d] <= 1 + asked'[d]) /\ reached[draft] <= asked'[draft]
    BY <2>1, <2>2
  <2> QED BY <1>1, <1>5, <2>1, <2>2, <2>3, Zenon DEF BooksOK
<1> QED BY <1>1, <1>5, <1>6, <1>7, Zenon DEF LaunchInv

(* Another draft. *)
LEMMA ResetStep ==
    ASSUME ~EarlyReset, LaunchInv, Reset
    PROVE  LaunchInv' /\ Kept
<1>1. /\ \A c \in Activations : ~Acting(c)
      /\ draft < MaxDrafts /\ draft' = draft + 1 /\ phase' = "compose" /\ steps' = initialSteps
      /\ UNCHANGED <<activation, asked, reached, confirmed>>
  BY Zenon DEF Reset, Free, Acting, herdr
<1>2. /\ draft' \in 1..MaxDrafts /\ draft' > draft /\ reached[draft'] = 0
      /\ asked[draft'] \in Nat
  BY <1>1 DEF LaunchInv, BooksOK
<1>3. Kept
  BY <1>1, <1>2 DEF LaunchInv, Kept
<1>4. StepsShape(steps') /\ Clear(steps') /\ steps'["prompt"] = "pending"
  BY <1>1, InitialSteps, Zenon
<1>5. ActivationsOK'
  BY <1>1, <1>4, Zenon DEF LaunchInv, ActivationsOK, Acting, Clear
<1>6. BooksOK'
  BY <1>1, <1>2, <1>4 DEF LaunchInv, BooksOK
<1> QED BY <1>2, <1>3, <1>4, <1>5, <1>6, Zenon DEF LaunchInv

(* One step per await and button. *)
LEMMA LaunchStep ==
    ASSUME ~EarlyReset, LaunchInv, [LaunchNext]_launchVars
    PROVE  LaunchInv' /\ Kept
<1>1. ASSUME NEW c \in Activations, Answer(c) \/ Launch(c) \/ Retry(c) \/ ResendObjective(c)
      PROVE  LaunchInv' /\ Kept
  BY <1>1, SetupStep, PromptStep, ResendStep, LaunchButton, RetryButton, ResendButton, Zenon DEF Answer
<1>2. CASE UNCHANGED launchVars
  <2>1. UNCHANGED <<draft, steps, phase, activation, asked, reached, confirmed>>
    BY <1>2, Zenon DEF launchVars, store, herdr
  <2>2. ActivationsOK'
    BY <2>1, Zenon DEF LaunchInv, ActivationsOK, Acting
  <2>3. BooksOK' /\ Kept
    BY <2>1, Zenon DEF LaunchInv, BooksOK, Kept
  <2> QED BY <2>1, <2>2, <2>3, Zenon DEF LaunchInv
<1> QED BY <1>1, <1>2, ResetStep, Zenon DEF LaunchNext

(* What the invariant says of the receipt. *)
LEMMA LaunchInvMeans == LaunchInv => ReceiptHonest /\ OneLaunch /\ DuplicatesWereAsked
<1> SUFFICES ASSUME LaunchInv PROVE ReceiptHonest /\ OneLaunch /\ DuplicatesWereAsked
  BY Zenon
<1>1. ReceiptHonest
  BY Zenon DEF LaunchInv, BooksOK, StepsShape, Names, ReceiptHonest
<1>2. OneLaunch
  BY Zenon DEF LaunchInv, ActivationsOK, Acting, Free, Orchestrates, OneLaunch
<1>3. DuplicatesWereAsked
  BY Zenon DEF LaunchInv, BooksOK, DuplicatesWereAsked
<1> QED BY <1>1, <1>2, <1>3, Zenon

(* A launch is honest, as long as the operator does not start another run while a call is
   in flight, for any number of activations, drafts, retries and resends: a receipt of
   success belongs to a confirmed objective, one orchestration runs at a time, the agent
   gets the objective once and once more for each time the operator asks, and completed
   work is kept (LaunchStore, nextStep, classifySend, prepareRetry). *)
THEOREM LaunchIsHonest == ~EarlyReset => (LaunchSpec => LaunchHonest)
<1> SUFFICES ASSUME ~EarlyReset PROVE LaunchSpec => LaunchHonest
  BY Zenon
<1>1. LaunchInit => LaunchInv
  BY LaunchInitInv, Zenon
<1>2. LaunchInv /\ [LaunchNext]_launchVars => LaunchInv'
  BY LaunchStep, Zenon
<1>3. LaunchInv /\ [LaunchNext]_launchVars =>
          [draft' = draft => \A s \in DOMAIN steps : steps[s] = "done" => steps'[s] = "done"]_launchVars
  BY LaunchStep, Zenon DEF Kept, LaunchInv, StepsShape
<1> QED BY <1>1, <1>2, <1>3, LaunchInvMeans, PTL DEF LaunchSpec, LaunchHonest, WorkIsKept

=============================================================================
