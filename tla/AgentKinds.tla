----------------------------- MODULE AgentKinds -----------------------------
(***************************************************************************)
(* The cache of startable agent kinds (integration/agentkinds.go) in front *)
(* of the `herdr agent` subprocess (herdr/discover.go).  Callers are the   *)
(* capabilities document and the validation of agent.start; all of them    *)
(* queue on one mutex, which is held while the subprocess runs.            *)
(*                                                                         *)
(* What Herdr can start is one set of kinds per build; a build replaces    *)
(* another at any moment.  Time passes between any two steps.              *)
(***************************************************************************)
EXTENDS Integers

CONSTANTS
    Askers,     \* requests in flight
    TTL,        \* agentKindsTTL, in ticks
    MaxMoment,  \* bound on the clock
    MaxBuild    \* bound on the builds of Herdr

Nobody == "none"

ASSUME KindsAssumption ==
    /\ TTL \in Nat \ {0} /\ MaxMoment \in Nat /\ MaxBuild \in Nat
    /\ Nobody \notin Askers

VARIABLES
    moment,     \* a.now()
    build,      \* the build of Herdr that is installed
    loaded, cached, fetchedAt,  \* the cache: the build it lists, and when
    stage,      \* per caller: "idle", "lock", "check", "discover" or "returned"
    got,        \* per caller: [list, failed], what list returned and whether its
                \* own discovery failed; list is -1 for an error
    holder,     \* the caller that holds the mutex, or Nobody
    ran         \* the times at which subprocesses were started

kindVars == <<moment, build, loaded, cached, fetchedAt, stage, got, holder, ran>>

Nothing == [list |-> -1, failed |-> FALSE]

KindInit ==
    /\ moment = 0 /\ build = 0
    /\ loaded = FALSE /\ cached = -1 /\ fetchedAt = 0
    /\ stage = [c \in Askers |-> "idle"] /\ got = [c \in Askers |-> Nothing]
    /\ holder = Nobody /\ ran = {}

Age == moment - fetchedAt

-----------------------------------------------------------------------------
Enter(c) ==
    /\ stage[c] = "idle"
    /\ stage' = [stage EXCEPT ![c] = "lock"]
    /\ UNCHANGED <<moment, build, loaded, cached, fetchedAt, got, holder, ran>>

Lock(c) ==
    /\ stage[c] = "lock" /\ holder = Nobody
    /\ holder' = c
    /\ stage' = [stage EXCEPT ![c] = "check"]
    /\ UNCHANGED <<moment, build, loaded, cached, fetchedAt, got, ran>>

Return(c, list, failed) ==
    /\ stage' = [stage EXCEPT ![c] = "returned"]
    /\ got' = [got EXCEPT ![c] = [list |-> list, failed |-> failed]]
    /\ holder' = Nobody

Fresh == loaded /\ Age < TTL

ServeFresh(c) ==
    /\ stage[c] = "check" /\ Fresh
    /\ Return(c, cached, FALSE)
    /\ UNCHANGED <<moment, build, loaded, cached, fetchedAt, ran>>

(* StartableAgentKinds: the subprocess is started under the mutex. *)
StartDiscovery(c) ==
    /\ stage[c] = "check" /\ ~Fresh
    /\ stage' = [stage EXCEPT ![c] = "discover"]
    /\ ran' = ran \cup {moment}
    /\ UNCHANGED <<moment, build, loaded, cached, fetchedAt, got, holder>>

(* A kinds line was parsed: the cache takes it, stamped after the discovery. *)
DiscoverySucceeds(c) ==
    /\ stage[c] = "discover"
    /\ cached' = build /\ fetchedAt' = moment /\ loaded' = TRUE
    /\ Return(c, build, FALSE)
    /\ UNCHANGED <<moment, build, ran>>

(* Mutant: the last good value is served however old it is. *)
GraceForever == loaded

Grace == loaded /\ Age <= 2 * TTL

(* No kinds line, a context that ended, a binary that could not run: the    *)
(* last good value serves for at most one extra TTL.                        *)
DiscoveryFails(c) ==
    /\ stage[c] = "discover"
    /\ IF Grace THEN Return(c, cached, TRUE) ELSE Return(c, -1, TRUE)
    /\ UNCHANGED <<moment, build, loaded, cached, fetchedAt, ran>>

(* The request is answered; the next one comes. *)
Leave(c) ==
    /\ stage[c] = "returned"
    /\ stage' = [stage EXCEPT ![c] = "idle"]
    /\ got' = [got EXCEPT ![c] = Nothing]
    /\ UNCHANGED <<moment, build, loaded, cached, fetchedAt, holder, ran>>

MomentPasses ==
    /\ moment < MaxMoment /\ moment' = moment + 1
    /\ UNCHANGED <<build, loaded, cached, fetchedAt, stage, got, holder, ran>>

Upgrade ==
    /\ build < MaxBuild /\ build' = build + 1
    /\ UNCHANGED <<moment, loaded, cached, fetchedAt, stage, got, holder, ran>>

Discovery(c) == DiscoverySucceeds(c) \/ DiscoveryFails(c)

KindNext ==
    \/ MomentPasses \/ Upgrade
    \/ \E c \in Askers :
          \/ Enter(c) \/ Lock(c) \/ ServeFresh(c) \/ StartDiscovery(c)
          \/ Discovery(c) \/ Leave(c)

KindSpec == KindInit /\ [][KindNext]_kindVars

(* The context bounds the subprocess, and a Go mutex starves nobody. *)
KindFairSpec ==
    KindSpec /\ \A c \in Askers :
        /\ SF_kindVars(Lock(c)) /\ WF_kindVars(ServeFresh(c) \/ StartDiscovery(c))
        /\ WF_kindVars(Discovery(c))

-----------------------------------------------------------------------------
(***************************************************************************)
(* Type invariant.                                                         *)
(***************************************************************************)
KindTypeOK ==
    /\ moment \in 0..MaxMoment /\ build \in 0..MaxBuild
    /\ loaded \in BOOLEAN /\ cached \in -1..MaxBuild /\ fetchedAt \in 0..moment
    /\ stage \in [Askers -> {"idle", "lock", "check", "discover", "returned"}]
    /\ got \in [Askers -> [list : -1..MaxBuild, failed : BOOLEAN]]
    /\ holder \in Askers \cup {Nobody}
    /\ ran \subseteq 0..MaxMoment

(***************************************************************************)
(* A list is served at most one extra TTL after it was discovered, and a   *)
(* list past its TTL only by a caller whose own discovery just failed      *)
(* (list: "the last good value if it is at most one extra TTL old").       *)
(* Waiting for the mutex, or for a slow discovery, does not age it past    *)
(* that.                                                                   *)
(***************************************************************************)
ServedInTime ==
    [][\A c \in Askers :
          stage[c] # "returned" /\ stage'[c] = "returned" /\ got'[c].list # -1 =>
              /\ moment - fetchedAt' <= 2 * TTL
              /\ moment - fetchedAt' >= TTL => got'[c].failed]_kindVars

(***************************************************************************)
(* The cache "serializes concurrent refreshes" and re-checks after the     *)
(* wait: no two subprocesses run at once, and however many callers queue   *)
(* behind a discovery that succeeds, the next successful one is a TTL away.*)
(***************************************************************************)
OneRefreshPerTTL ==
    [][/\ \A c, d \in Askers : stage'[c] = "discover" /\ stage'[d] = "discover" => c = d
       /\ loaded /\ cached' # cached => moment - fetchedAt >= TTL]_kindVars

(***************************************************************************)
(* A list of kinds is served at most one extra TTL after its discovery,    *)
(* past its TTL only after a failed discovery of one's own; no two         *)
(* discoveries run at once and a successful one stands for a TTL           *)
(* (agentKinds.list).                                                      *)
(***************************************************************************)
KindsServed == ServedInTime /\ OneRefreshPerTTL

(***************************************************************************)
(* Every call of list returns, also behind a mutex held by another         *)
(* caller's discovery.                                                     *)
(***************************************************************************)
ListReturns == \A c \in Askers : stage[c] = "lock" ~> stage[c] = "returned"

(***************************************************************************)
(* "It refreshes at most once per TTL" (agentKinds), so that no request    *)
(* "spawns a `herdr agent` subprocess on every request" (agentKindsTTL):   *)
(* two subprocesses start at least a TTL apart.                            *)
(***************************************************************************)
SpawnsSpaced == \A s, t \in ran : s < t => t - s >= TTL

(***************************************************************************)
(* "When discovery is currently failing, it omits the kinds ... instead of *)
(* a stale or invented list" (capabilitiesJSON), and an agent "is never    *)
(* started against a stale or guessed set" (validate): a caller whose      *)
(* discovery failed gets no list.                                          *)
(***************************************************************************)
NoStaleList == \A c \in Askers : got[c].failed => got[c].list = -1

=============================================================================
