--------------------------- MODULE SnapshotStore ---------------------------
(***************************************************************************)
(* The phone's copy of the relay's snapshot: web/src/lib/store.ts.  Frames *)
(* of the events socket and answers to polls travel on connections of      *)
(* their own and are applied as they arrive.  A snapshot is its version,   *)
(* which is also its hash and ETag.  Delays, the health clock and the      *)
(* session are left out.                                                   *)
(***************************************************************************)
EXTENDS Naturals, Sequences, FiniteSets

CONSTANTS
    Sockets,       \* WebSocket objects; one that has closed is used again
    Polls,         \* requests for /snapshot in flight, each a slot
    Loops,         \* chains of tick timers, each a slot
    MaxSnapshots,  \* bound: versions the relay publishes
    MaxFails,      \* bound: polls that fail
    MaxWakes,      \* bound: revalidations and polls after a mutation
    SocketsOpen    \* whether the network lets a WebSocket through

ASSUME StoreAssumption ==
    /\ IsFiniteSet(Sockets) /\ IsFiniteSet(Polls) /\ IsFiniteSet(Loops)
    /\ MaxSnapshots \in Nat \ {0} /\ MaxFails \in Nat /\ MaxWakes \in Nat
    /\ SocketsOpen \in BOOLEAN

VARIABLES
    newest,      \* the relay's snapshot
    life,        \* "boot" (start awaits the session) | "on" | "off"
    shown,       \* state.snapshot, 0 if none
    etag,        \* AppStore.etag, 0 if none
    ws,          \* AppStore.ws: a singleton, or empty for null
    sock,        \* readyState of each socket, "unused" before its first use
    stream,      \* frames on their way to each socket
    pushed,      \* last version the relay wrote to each socket
    reconnect,   \* whether reconnectTimer will fire
    pollTimer,   \* the chain whose timer it names: a singleton, or empty
    loop,        \* each chain: "off" | "armed" | "polling"
    poll,        \* requests in flight
    fails, wakes

relay == <<newest, stream, pushed>>
view == <<shown, etag>>
chains == <<pollTimer, loop>>
storeVars == <<relay, life, view, ws, sock, reconnect, chains, poll, fails, wakes>>

NoPoll == [at |-> "none", by |-> {}, etag |-> 0, v |-> 0]

StoreInit ==
    /\ newest = 1 /\ life = "boot" /\ shown = 0 /\ etag = 0
    /\ ws = {} /\ sock = [s \in Sockets |-> "unused"]
    /\ stream = [s \in Sockets |-> <<>>] /\ pushed = [s \in Sockets |-> 0]
    /\ reconnect = FALSE
    /\ pollTimer = {} /\ loop = [l \in Loops |-> "off"]
    /\ poll = [p \in Polls |-> NoPoll]
    /\ fails = 0 /\ wakes = 0

(***************************************************************************)
(* The relay: /events sends the newest snapshot, /snapshot answers 304 to  *)
(* the current ETag.                                                       *)
(***************************************************************************)
NewSnapshot ==
    /\ newest < MaxSnapshots /\ newest' = newest + 1
    /\ UNCHANGED <<life, view, ws, sock, stream, pushed, reconnect, chains, poll, fails, wakes>>

Push(s) ==
    /\ sock[s] = "open" /\ pushed[s] < newest
    /\ stream' = [stream EXCEPT ![s] = Append(@, newest)]
    /\ pushed' = [pushed EXCEPT ![s] = newest]
    /\ UNCHANGED <<newest, life, view, ws, sock, reconnect, chains, poll, fails, wakes>>

Respond(p) ==
    /\ poll[p].at = "sent"
    /\ \/ poll' = [poll EXCEPT ![p].at = "answered", ![p].v = newest] /\ fails' = fails
       \/ /\ fails < MaxFails /\ fails' = fails + 1
          /\ poll' = [poll EXCEPT ![p].at = "failed"]
    /\ UNCHANGED <<relay, life, view, ws, sock, reconnect, chains, wakes>>

(***************************************************************************)
(* Sockets.                                                                *)
(***************************************************************************)
Live(s) == sock[s] \in {"connecting", "open"}

(* openSocket: a new WebSocket, or scheduleReconnect if that throws. *)
openSocket(armed) ==
    \/ \E s \in Sockets :
          /\ sock[s] \in {"unused", "closed"} /\ s \notin ws
          /\ sock' = [sock EXCEPT ![s] = "connecting"]
          /\ ws' = {s}
          /\ reconnect' = armed
    \/ reconnect' = TRUE /\ UNCHANGED <<ws, sock>>

(* start goes on once it has the session, or has failed to get it. *)
Booted ==
    /\ life = "boot" /\ life' = "on"
    /\ openSocket(reconnect)
    /\ UNCHANGED <<relay, view, chains, poll, fails, wakes>>

SocketOpens(s) ==
    /\ SocketsOpen /\ sock[s] = "connecting"
    /\ sock' = [sock EXCEPT ![s] = "open"]
    /\ pushed' = [pushed EXCEPT ![s] = 0]
    /\ UNCHANGED <<newest, stream, life, view, ws, reconnect, chains, poll, fails, wakes>>

(* onmessage and ingest. *)
Message(s) ==
    /\ sock[s] = "open" /\ stream[s] # <<>>
    /\ shown' = Head(stream[s])
    /\ stream' = [stream EXCEPT ![s] = Tail(@)]
    /\ UNCHANGED <<newest, pushed, life, etag, ws, sock, reconnect, chains, poll, fails, wakes>>

(* onerror closes the socket; onclose follows. *)
SocketError(s) ==
    /\ Live(s) /\ sock' = [sock EXCEPT ![s] = "closing"]
    /\ UNCHANGED <<relay, life, view, ws, reconnect, chains, poll, fails, wakes>>

(* Nothing if pollTimer names a timer, fired or not. *)
startPollFallback ==
    IF pollTimer # {} THEN UNCHANGED chains
    ELSE \E l \in Loops : /\ loop[l] = "off"
                          /\ loop' = [loop EXCEPT ![l] = "armed"]
                          /\ pollTimer' = {l}

(* onclose: only the current socket is replaced. *)
Close(s) ==
    /\ sock[s] \in {"connecting", "open", "closing"}
    /\ sock' = [sock EXCEPT ![s] = "closed"] /\ stream' = [stream EXCEPT ![s] = <<>>]
    /\ IF s \in ws THEN ws' = {} /\ reconnect' = TRUE /\ startPollFallback
       ELSE UNCHANGED <<ws, reconnect, chains>>
    /\ UNCHANGED <<newest, pushed, life, view, poll, fails, wakes>>

ReconnectFires ==
    /\ reconnect
    /\ openSocket(FALSE)
    /\ UNCHANGED <<relay, life, view, chains, poll, fails, wakes>>

(***************************************************************************)
(* Polls.                                                                  *)
(***************************************************************************)
send(p, by) == poll' = [poll EXCEPT ![p] = [NoPoll EXCEPT !.at = "sent", !.by = by, !.etag = etag]]

Wake == wakes < MaxWakes /\ wakes' = wakes + 1

(* Mutant: revalidate drops the timer but not the socket it has lost. *)
RevalidateDrops(p) ==
    /\ life = "on" /\ Wake /\ poll[p].at = "none"
    /\ reconnect' = FALSE
    /\ send(p, {})
    /\ UNCHANGED <<relay, life, view, ws, sock, chains, fails>>

(* revalidate: on focus, on return to the page, from a button. *)
Revalidate(p) ==
    /\ life = "on" /\ Wake /\ poll[p].at = "none"
    /\ IF \E s \in ws : Live(s) THEN UNCHANGED <<ws, sock, reconnect>> ELSE openSocket(FALSE)
    /\ send(p, {})
    /\ UNCHANGED <<relay, life, view, chains, fails>>

(* runMutation polls once it has its answer, also when the store has stopped. *)
MutationPoll(p) ==
    /\ life # "boot" /\ Wake /\ poll[p].at = "none"
    /\ send(p, {})
    /\ UNCHANGED <<relay, life, view, ws, sock, reconnect, chains, fails>>

(* tick: pollTimer keeps naming the timer that fired. *)
TickFires(l, p) ==
    /\ loop[l] = "armed" /\ poll[p].at = "none"
    /\ loop' = [loop EXCEPT ![l] = "polling"]
    /\ send(p, {l})
    /\ UNCHANGED <<relay, life, view, ws, sock, reconnect, pollTimer, fails, wakes>>

(* Cancelling the timer pollTimer names stops the chain unless it fired. *)
cleared == [l \in Loops |-> IF l \in pollTimer /\ loop[l] = "armed" THEN "off" ELSE loop[l]]

(* What pollOnce and the rest of tick do to the chains: stopPollFallback when
   the socket is open, then the chain that polled arms its next timer. *)
AfterPoll(by, ok) ==
    LET open == ok /\ \E s \in ws : sock[s] = "open"
        base == IF open THEN cleared ELSE loop
    IN  /\ loop' = [l \in Loops |-> IF l \notin by THEN base[l]
                                    ELSE IF life = "on" THEN "armed" ELSE "off"]
        /\ pollTimer' = IF by # {} /\ life = "on" THEN by ELSE IF open THEN {} ELSE pollTimer

PollDone(p) ==
    /\ poll[p].at = "answered"
    /\ etag' = poll[p].v
    /\ shown' = IF poll[p].etag = poll[p].v THEN shown ELSE poll[p].v
    /\ AfterPoll(poll[p].by, TRUE)
    /\ poll' = [poll EXCEPT ![p] = NoPoll]
    /\ UNCHANGED <<relay, life, ws, sock, reconnect, fails, wakes>>

PollFailed(p) ==
    /\ poll[p].at = "failed"
    /\ AfterPoll(poll[p].by, FALSE)
    /\ poll' = [poll EXCEPT ![p] = NoPoll]
    /\ UNCHANGED <<relay, life, view, ws, sock, reconnect, fails, wakes>>

(* stop, when the session is ended. *)
StoreStops ==
    /\ life = "on" /\ life' = "off"
    /\ sock' = [s \in Sockets |-> IF s \in ws /\ Live(s) THEN "closing" ELSE sock[s]]
    /\ ws' = {} /\ reconnect' = FALSE
    /\ loop' = cleared
    /\ UNCHANGED <<relay, view, pollTimer, poll, fails, wakes>>

Settle(p) == PollDone(p) \/ PollFailed(p)

StoreNext ==
    \/ NewSnapshot \/ Booted \/ ReconnectFires \/ StoreStops
    \/ \E s \in Sockets : Push(s) \/ SocketOpens(s) \/ Message(s) \/ SocketError(s) \/ Close(s)
    \/ \E p \in Polls : \/ Revalidate(p) \/ MutationPoll(p) \/ Respond(p) \/ Settle(p)
                        \/ \E l \in Loops : TickFires(l, p)

StoreSpec == StoreInit /\ [][StoreNext]_storeVars

(* Timers fire, requests are answered or time out, and script runs.  Frames
   are delivered while a socket lasts; an attempt to connect ends one way or the
   other; nothing makes a socket open or last. *)
StoreFairSpec ==
    /\ StoreSpec
    /\ WF_storeVars(Booted) /\ WF_storeVars(ReconnectFires)
    /\ \A s \in Sockets : /\ WF_storeVars(Push(s)) /\ WF_storeVars(Message(s))
                          /\ WF_storeVars(sock[s] = "closing" /\ Close(s))
                          /\ WF_storeVars(sock[s] = "connecting" /\ (SocketOpens(s) \/ Close(s)))
    /\ \A p \in Polls : WF_storeVars(Respond(p)) /\ WF_storeVars(Settle(p))
    /\ \A l \in Loops : WF_storeVars(\E p \in Polls : TickFires(l, p))

-----------------------------------------------------------------------------

StoreTypeOK ==
    /\ shown \in 0..newest /\ etag \in 0..newest /\ newest \in 1..MaxSnapshots
    /\ ws \subseteq Sockets /\ Cardinality(ws) <= 1 /\ pollTimer \subseteq Loops
    /\ sock \in [Sockets -> {"unused", "connecting", "open", "closing", "closed"}]
    /\ loop \in [Loops -> {"off", "armed", "polling"}]
    /\ \A l \in Loops : loop[l] = "polling" <=> \E p \in Polls : l \in poll[p].by

(* The store never holds two sockets that deliver frames: one is opened only
   when the current one is gone or closing (openSocket, revalidate, onclose). *)
OneSocket == \A s \in Sockets : Live(s) => s \in ws

(* A running store without a socket has its reconnect timer armed, whatever
   order revalidation, errors and closes come in (scheduleReconnect). *)
NeverStranded == life = "on" /\ ws = {} => reconnect

(* A running store that has lost its socket polls (startPollFallback). *)
PollCovers ==
    (life = "on" /\ ws = {} /\ \E s \in Sockets : sock[s] = "closed")
        => \E l \in Loops : loop[l] # "off"

(* A running store always has a way to its next snapshot, a socket or a reconnect
   timer with polling beside it, and never two sockets (openSocket, onclose, tick). *)
Connected == OneSocket /\ NeverStranded /\ PollCovers

(* A stopped store comes to rest: its timers, chains and sockets end, also a
   chain that was waiting for an answer (stop, tick). *)
StopsForGood ==
    life = "off" ~> [](/\ ~reconnect /\ \A l \in Loops : loop[l] = "off"
                       /\ \A s \in Sockets : sock[s] \in {"unused", "closed"})

(* Once the relay's snapshot no longer changes, the phone shows it (onmessage:
   the poll fallback "keeps state correct"). *)
Converges == <>[](life = "off" \/ shown = newest)

(* Polling is the fallback: with a socket that stays open it ends
   (stopPollFallback). *)
FallbackEnds ==
    <>[](\E s \in ws : sock[s] = "open") => <>[](\A l \in Loops : loop[l] = "off")

=============================================================================
