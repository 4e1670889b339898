----------------------------- MODULE RunSource ------------------------------
(***************************************************************************)
(* The phone's list of runs: web/src/lib/run-source.ts.  A change of the   *)
(* app store's snapshot is the signal to fetch the list; signals that come *)
(* while a fetch is under way are folded into one.  The relay's topology   *)
(* is the number of its content: equal content has an equal hash.          *)
(***************************************************************************)
EXTENDS Naturals, FiniteSets

CONSTANTS
    Contents,     \* contents the relay's topology can have: 1..Contents
    MaxChanges,   \* bound: changes of the topology
    Recurs,       \* whether a topology can return to an earlier content
    Fetches,      \* GET /runs requests, each a slot
    MaxMisses,    \* bound: requests that fail
    MaxViews      \* bound: times a view subscribes or asks for a refresh

ASSUME SourceAssumption ==
    /\ Contents \in Nat \ {0} /\ MaxChanges \in Nat /\ Recurs \in BOOLEAN
    /\ IsFiniteSet(Fetches) /\ MaxMisses \in Nat /\ MaxViews \in Nat

VARIABLES
    topology,     \* content of the relay's topology
    changes,
    app,          \* the app store: [snap (0 if none), caps (the run contract is known)]
    attached,     \* RunSource.detach is set
    list,         \* state.runs: [from |-> "none" | "snapshot" | "relay", v]
    structured,   \* state.fidelity
    loading, error,
    fetchedHash, inFlight, pending,
    request,      \* requests in flight: "none" | "sent" | "failed" | content answered
    misses, views

source == <<list, structured, loading, error, fetchedHash, inFlight, pending, request>>
runVars == <<topology, changes, app, attached, source, misses, views>>

NoFetch == [at |-> "none", v |-> 0]
NoList == [from |-> "none", v |-> 0]

RunsInit ==
    /\ topology = 1 /\ changes = 0
    /\ app = [snap |-> 0, caps |-> FALSE] /\ attached = FALSE
    /\ list = NoList /\ structured = FALSE /\ loading = FALSE /\ error = FALSE
    /\ fetchedHash = 0 /\ inFlight = FALSE /\ pending = FALSE
    /\ request = [c \in Fetches |-> NoFetch]
    /\ misses = 0 /\ views = 0

(***************************************************************************)
(* fetch and reconcile, as functions of the source's fields; r.send asks   *)
(* for a request.                                                          *)
(***************************************************************************)
Fields == [list |-> list, structured |-> structured, loading |-> loading, error |-> error,
           fetched |-> fetchedHash, inFlight |-> inFlight, pending |-> pending, send |-> FALSE]

fetch(r, hash) ==
    IF r.inFlight THEN [r EXCEPT !.pending = TRUE]
    ELSE [r EXCEPT !.inFlight = TRUE, !.fetched = hash, !.send = TRUE,
                   !.loading = (@ \/ r.list.v = 0)]

(* The relay speaks the contract: the projected list goes. *)
DropProjection(r) ==
    IF r.structured THEN r
    ELSE [r EXCEPT !.list = NoList, !.structured = TRUE, !.error = FALSE,
                   !.loading = TRUE, !.fetched = 0]

(* Projected from the snapshot, or fetched if the snapshot is another one than
   the last fetch was made for. *)
reconcile(r, a) ==
    IF ~a.caps
    THEN [r EXCEPT !.list = [from |-> "snapshot", v |-> a.snap], !.loading = FALSE,
                   !.error = FALSE, !.fetched = 0]
    ELSE LET d == DropProjection(r)
         IN  IF d.fetched = a.snap THEN d ELSE fetch(d, a.snap)

(* The fields become r, with at most one new request; base is the requests
   that remain. *)
Become(r, base) ==
    /\ list' = r.list /\ structured' = r.structured
    /\ loading' = r.loading /\ error' = r.error
    /\ fetchedHash' = r.fetched /\ inFlight' = r.inFlight /\ pending' = r.pending
    /\ IF r.send THEN \E c \in Fetches : /\ base[c] = NoFetch
                                         /\ request' = [base EXCEPT ![c].at = "sent"]
       ELSE request' = base

(* A change of the app store is heard while attached. *)
AppChanges(a) ==
    /\ app' = a
    /\ IF attached THEN Become(reconcile(Fields, a), request) ELSE UNCHANGED source

(***************************************************************************)
(* The relay, the app store and the views.                                 *)
(***************************************************************************)
RelayChanges ==
    /\ changes < MaxChanges /\ changes' = changes + 1
    /\ topology' \in 1..Contents /\ topology' # topology /\ (~Recurs => topology' > topology)
    /\ UNCHANGED <<app, attached, source, misses, views>>

SnapshotArrives ==
    /\ app.snap # topology
    /\ AppChanges([app EXCEPT !.snap = topology])
    /\ UNCHANGED <<topology, changes, attached, misses, views>>

CapabilitiesArrive ==
    /\ ~app.caps
    /\ AppChanges([app EXCEPT !.caps = TRUE])
    /\ UNCHANGED <<topology, changes, attached, misses, views>>

(* The first view: getState, then subscribe. *)
Attach ==
    /\ ~attached /\ attached' = TRUE
    /\ views < MaxViews /\ views' = views + 1
    /\ Become(reconcile(Fields, app), request)
    /\ UNCHANGED <<topology, changes, app, misses>>

Release ==
    /\ attached /\ attached' = FALSE
    /\ UNCHANGED <<topology, changes, app, source, misses, views>>

(* refresh, from a view's retry. *)
Refresh ==
    /\ attached /\ views < MaxViews /\ views' = views + 1
    /\ Become(reconcile([Fields EXCEPT !.fetched = 0], app), request)
    /\ UNCHANGED <<topology, changes, app, attached, misses>>

(***************************************************************************)
(* The request.                                                            *)
(***************************************************************************)
RunsAnswered(c) ==
    /\ request[c].at = "sent"
    /\ \/ request' = [request EXCEPT ![c] = [at |-> "answered", v |-> topology]] /\ misses' = misses
       \/ misses < MaxMisses /\ misses' = misses + 1 /\ request' = [request EXCEPT ![c].at = "failed"]
    /\ UNCHANGED <<topology, changes, app, attached, list, structured, loading, error,
                   fetchedHash, inFlight, pending, views>>

(* The finally of fetch. *)
Finally(r) ==
    LET done == [r EXCEPT !.inFlight = FALSE]
    IN  IF r.pending THEN reconcile([done EXCEPT !.pending = FALSE], app) ELSE done

(* Mutant: a failed read says nothing. *)
FailedSilent(r) == [r EXCEPT !.loading = FALSE]

(* Mutant: a failed read empties the list. *)
FailedEmpties(r) == [r EXCEPT !.list = NoList, !.loading = FALSE, !.error = TRUE]

(* The catch of fetch keeps the last good list. *)
Failed(r) == [r EXCEPT !.loading = FALSE, !.error = TRUE]

Answered(r, v) ==
    [r EXCEPT !.list = [from |-> "relay", v |-> v], !.loading = FALSE, !.error = FALSE]

FetchDone(c) ==
    /\ request[c].at \in {"answered", "failed"}
    /\ LET r == IF request[c].at = "failed" THEN Failed(Fields) ELSE Answered(Fields, request[c].v)
       IN  Become(Finally(r), [request EXCEPT ![c] = NoFetch])
    /\ UNCHANGED <<topology, changes, app, attached, misses, views>>

RunsNext ==
    \/ RelayChanges \/ SnapshotArrives \/ CapabilitiesArrive
    \/ Attach \/ Release \/ Refresh
    \/ \E c \in Fetches : RunsAnswered(c) \/ FetchDone(c)

RunsSpec == RunsInit /\ [][RunsNext]_runVars

(* Snapshots arrive, requests are answered or time out, and script runs. *)
RunsFairSpec ==
    /\ RunsSpec
    /\ WF_runVars(SnapshotArrives) /\ WF_runVars(CapabilitiesArrive)
    /\ \A c \in Fetches : WF_runVars(RunsAnswered(c)) /\ WF_runVars(FetchDone(c))

-----------------------------------------------------------------------------

RunsTypeOK ==
    /\ list \in [from : {"none", "snapshot", "relay"}, v : 0..Contents]
    /\ fetchedHash \in 0..Contents
    /\ inFlight <=> \E c \in Fetches : request[c] # NoFetch
    /\ pending => inFlight

(* Ids made up from the snapshot are never shown as the relay's: the list of
   a relay that speaks the contract is the relay's own (reconcile). *)
IdsAreTheRelays == structured => list.from # "snapshot"

(* A list that is at rest is as new as the snapshot beside it, or says that
   it could not be read; wakeups folded into a fetch are not lost (fetch). *)
SettledIsCurrent ==
    attached /\ structured /\ ~inFlight => error \/ list.v >= app.snap

(* An open inbox says it is loading only while something is (fetch, reconcile). *)
LoadingIsReal == attached /\ loading => inFlight \/ app.snap = 0

(* With one request at a time, an older list never replaces a newer one, and
   a failed read never empties it (fetch). *)
ListMovesForward == [][structured => list'.v >= list.v]_runVars

(* The run list is honest: ids made up from the snapshot are never shown as the
   relay's, a list at rest is as new as the snapshot beside it or says that it
   could not be read, loading is said only while something is, and an older list
   never replaces a newer one (RunSource.reconcile, fetch). *)
ListHonest ==
    /\ [](IdsAreTheRelays /\ SettledIsCurrent /\ LoadingIsReal)
    /\ ListMovesForward

(* Once the relay's runs no longer change, an open view lists them or says
   that it cannot: "a missed wakeup costs one poll interval rather than
   correctness" (reconcile). *)
Reconciled == <>[](attached => error \/ list.v = topology)

=============================================================================
