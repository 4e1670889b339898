----------------------------- MODULE MCOutcalls -----------------------------
(***************************************************************************)
(* Everything in the relay that waits for somebody else: a call of Herdr   *)
(* and the discovery of agent kinds behind its cache (the modules it       *)
(* extends), the event subscription, and the fetch of signing keys behind  *)
(* its own cache.  A behaviour is one of the component `part' names; the   *)
(* others rest in their initial state.                                     *)
(***************************************************************************)
EXTENDS HerdrCall, AgentKinds

VARIABLES part,
    loop, delay, stable, gotEvent, age, left, cancelled, served, frames, wake, forwarded,
    version, seen, fails,
    clock, published, doc, fetched, lastAttempt, call, step, kid, lead, reply, started, answer

Events == INSTANCE Subscriber
          WITH Initial <- 1, MaxDelay <- 3, Factor <- 2, StableAfter <- 2, MaxVersion <- 2,
               MaxFails <- 3, pc <- loop
Keys == INSTANCE KeyCache
        WITH Callers <- Calls, KeyTTL <- 1, MinRefresh <- 1, MaxDoc <- 1, MaxWall <- 1,
             wall <- clock, pc <- step, fetchedAt <- fetched

eventVars == <<loop, delay, stable, gotEvent, age, left, cancelled, served, frames, wake,
               forwarded, version, seen, fails>>
keyVars == <<clock, published, doc, fetched, lastAttempt, call, step, kid, lead, reply,
             started, answer>>

ASSUME Events!BackoffAssumption /\ Keys!KeyAssumption

MCInit ==
    /\ part \in {"call", "events", "kinds", "keys"}
    /\ Init /\ Events!Init /\ KindInit /\ Keys!KeyInit

(* Calls do not meet, each has a connection of its own: call b may be on its way
   so that Herdr can send its answer to call a; it goes no further. *)
OneCall ==
    /\ pc'["b"] \in {"start", "select"} /\ ctx'["b"] = "live" /\ ~timer'["b"]
    /\ conn'["b"] \in {"none", "open"} /\ worker'["b"] # "error" /\ wire'["b"] = {}

MCNext ==
    /\ part' = part
    /\ \/ part = "call" /\ Next /\ OneCall /\ UNCHANGED <<eventVars, kindVars, keyVars>>
       \/ part = "events" /\ Events!Next /\ UNCHANGED <<vars, kindVars, keyVars>>
       \/ part = "kinds" /\ KindNext /\ UNCHANGED <<vars, eventVars, keyVars>>
       \/ part = "keys" /\ Keys!KeyNext /\ UNCHANGED <<vars, eventVars, kindVars>>

(* Each component's own fairness, asked while it is the one that runs. *)
CallFairness ==
    /\ WF_vars(part = "call" /\ Caller("a"))
    /\ WF_vars(part = "call" /\ Worker("a"))
    /\ WF_vars(part = "call" /\ Timeout("a"))

EventFairness ==
    /\ WF_eventVars(part = "events" /\ Events!Relay)
    /\ WF_eventVars(part = "events" /\ Events!Tick)
    /\ WF_eventVars(part = "events" /\ Events!ForwardWake)
    /\ WF_eventVars(part = "events" /\ Events!EnginePolls)

KindFairness ==
    \A c \in Askers :
        /\ SF_kindVars(part = "kinds" /\ Lock(c))
        /\ WF_kindVars(part = "kinds" /\ (ServeFresh(c) \/ StartDiscovery(c)))
        /\ WF_kindVars(part = "kinds" /\ Discovery(c))

KeyFairness ==
    \A c \in Calls :
        /\ WF_keyVars(part = "keys" /\ Keys!Fetch(c))
        /\ WF_keyVars(part = "keys" /\ Keys!Local(c))

MCSpec ==
    /\ MCInit /\ [][MCNext]_<<part, vars, eventVars, kindVars, keyVars>>
    /\ CallFairness /\ EventFairness /\ KindFairness /\ KeyFairness

(* A started subscription with nothing left to read and no wakeup on its way
   means that the engine has Herdr's state; the wait before a reconnection grows
   with the run of sessions that proved nothing (Subscriber.Run, session). *)
EventsFollowed ==
    part = "events" => Events!QuietMeansSynced /\ Events!BackoffMatchesFlaps

(* Nobody waits for ever on a peer: a call of Herdr returns whatever Herdr does, a
   live subscription shows every state in the end and a cancelled one ends, every
   list returns and everybody who waits for a key is answered (Client.call,
   Subscriber.session, agentKinds.list, singleflightGroup.Do). *)
CallsReturn ==
    /\ part = "call" => <>(pc["a"] = "returned")
    /\ part = "events" => Events!ChangesSeen /\ Events!CancelEnds
    /\ part = "kinds" => ListReturns
    /\ part = "keys" => Keys!AllAnswered
=============================================================================
