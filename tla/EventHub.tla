------------------------------ MODULE EventHub ------------------------------
(***************************************************************************)
(* The fan-out of snapshots to browsers: internal/server/events.go, over   *)
(* the subscription of internal/integration/adapters.go.  The state engine *)
(* appears as the topic it implements (module TopicRefinement); the hub is *)
(* its one subscriber.  A version stands for the snapshot that carries it. *)
(***************************************************************************)
EXTENDS Integers

CONSTANTS
    Hub,          \* the hub's subscription
    Browsers,     \* event sockets, each used once
    MaxVersions   \* bound: versions the engine publishes

ASSUME HubAssumption == MaxVersions \in Nat

VARIABLES
    latest, used, open, slot, got,   \* the topic
    fwd,       \* adapter goroutine: "wait" | "carry" | "send" | "done"
    carry,     \* version drained and not yet broadcast
    todo,      \* clients this broadcast has still to reach
    cur,       \* step of enqueue at a client whose queue was full
    clients,   \* hub.clients
    ch,        \* eventClient.ch, capacity one, 0 if empty
    done,      \* eventClients whose done channel is closed
    phase,     \* handleEvents of each browser
    hand,      \* snapshot its send is writing
    wire,      \* last version written to its socket
    frames,    \* 0, 1 or 2 (many) frames written
    away,      \* browsers that stopped answering
    closing    \* Server.Close: "no" | "base" | "cancel" | "sub" |
               \* "drained" | "closed"

Engine == INSTANCE ConflatingTopic WITH Subs <- {Hub}

topic == <<latest, used, open, slot, got>>
caster == <<fwd, carry, todo, cur>>
socket == <<phase, hand, wire, frames>>
vars == <<topic, caster, clients, ch, done, socket, away, closing>>

(* The program counter of enqueue when no client is in the middle of it. *)
Between == [at |-> "none"]

(* newHub subscribes before the server handles a request. *)
Init ==
    /\ latest = 0 /\ used = {Hub} /\ open = {Hub}
    /\ slot = [s \in {Hub} |-> 0] /\ got = [s \in {Hub} |-> 0]
    /\ fwd = "wait" /\ carry = 0 /\ todo = {} /\ cur = Between
    /\ clients = {} /\ done = {}
    /\ ch = [b \in Browsers |-> 0]
    /\ phase = [b \in Browsers |-> "none"]
    /\ hand = [b \in Browsers |-> 0]
    /\ wire = [b \in Browsers |-> 0]
    /\ frames = [b \in Browsers |-> 0]
    /\ away = {} /\ closing = "no"

(* The engine publishes; a snapshot over the byte budget drops the hub. *)
Publish ==
    /\ latest < MaxVersions
    /\ Engine!Publish
    /\ UNCHANGED <<caster, clients, ch, done, socket, away, closing>>

(***************************************************************************)
(* The adapter's goroutine and hub.broadcast.  The read lock is held while *)
(* fwd = "send": add, remove and close wait for it.                        *)
(***************************************************************************)
Drain ==
    /\ fwd = "wait"
    /\ Engine!Take(Hub)
    /\ carry' = slot[Hub]
    /\ fwd' = "carry"
    /\ UNCHANGED <<todo, cur, clients, ch, done, socket, away, closing>>

BroadcastBegin ==
    /\ fwd = "carry"
    /\ todo' = clients
    /\ fwd' = "send"
    /\ UNCHANGED <<topic, carry, cur, clients, ch, done, socket, away, closing>>

(* Mutant: a full queue keeps what it has. *)
EnqueueOfferKeepsOld(b) ==
    /\ fwd = "send" /\ cur = Between /\ b \in todo
    /\ ch' = [ch EXCEPT ![b] = IF @ = 0 THEN carry ELSE @]
    /\ todo' = todo \ {b}
    /\ UNCHANGED <<topic, fwd, carry, cur, clients, done, socket, away, closing>>

(* The first select of enqueue: a free place takes the snapshot. *)
EnqueueOffer(b) ==
    /\ fwd = "send" /\ cur = Between /\ b \in todo
    /\ IF ch[b] = 0
       THEN ch' = [ch EXCEPT ![b] = carry] /\ todo' = todo \ {b} /\ cur' = cur
       ELSE cur' = [at |-> "full", b |-> b] /\ UNCHANGED <<ch, todo>>
    /\ UNCHANGED <<topic, fwd, carry, clients, done, socket, away, closing>>

(* The second: whatever is in the queue by now is dropped. *)
EnqueueDrop ==
    /\ cur.at = "full"
    /\ ch' = [ch EXCEPT ![cur.b] = 0]
    /\ cur' = [cur EXCEPT !.at = "dropped"]
    /\ UNCHANGED <<topic, fwd, carry, todo, clients, done, socket, away, closing>>

(* The third: the newest snapshot takes the place if it is still free. *)
EnqueuePut ==
    /\ cur.at = "dropped"
    /\ ch' = [ch EXCEPT ![cur.b] = IF @ = 0 THEN carry ELSE @]
    /\ todo' = todo \ {cur.b}
    /\ cur' = Between
    /\ UNCHANGED <<topic, fwd, carry, clients, done, socket, away, closing>>

BroadcastEnd ==
    /\ fwd = "send" /\ todo = {}
    /\ fwd' = "wait" /\ carry' = 0
    /\ UNCHANGED <<topic, todo, cur, clients, ch, done, socket, away, closing>>

(* The goroutine ends once its subscription is closed or cancelled. *)
ForwarderExit ==
    /\ fwd = "wait"
    /\ Hub \notin open \/ closing \notin {"no", "base"}
    /\ fwd' = "done"
    /\ UNCHANGED <<topic, carry, todo, cur, clients, ch, done, socket, away, closing>>

(***************************************************************************)
(* handleEvents of browser b.                                              *)
(***************************************************************************)
Locked == fwd = "send"   \* the broadcaster holds hub.mu

Step(b, from, to) == phase[b] = from /\ phase' = [phase EXCEPT ![b] = to]

Add(b) ==
    /\ Step(b, "none", "added")
    /\ ~Locked
    /\ clients' = clients \cup {b}
    /\ UNCHANGED <<topic, caster, ch, done, hand, wire, frames, away, closing>>

(* The argument of the first send: State.Snapshot(). *)
ReadInitial(b) ==
    /\ Step(b, "added", "write")
    /\ hand' = [hand EXCEPT ![b] = latest]
    /\ UNCHANGED <<topic, caster, clients, ch, done, wire, frames, away, closing>>

(* Closing the server cancels the context every handler's is derived from. *)
BaseDone == closing # "no"

(* The reader goroutine closes done and cancels the handler's context when
   the peer goes away. *)
Cancelled(b) == b \in done \/ BaseDone

(* A write to a peer that went away may still be buffered. *)
SendOK(b) ==
    /\ Step(b, "write", "loop")
    /\ wire' = [wire EXCEPT ![b] = hand[b]]
    /\ frames' = [frames EXCEPT ![b] = IF @ = 2 THEN 2 ELSE @ + 1]
    /\ hand' = [hand EXCEPT ![b] = 0]
    /\ UNCHANGED <<topic, caster, clients, ch, done, away, closing>>

SendFail(b) ==
    /\ Step(b, "write", "leave")
    /\ b \in away \/ Cancelled(b)
    /\ hand' = [hand EXCEPT ![b] = 0]
    /\ UNCHANGED <<topic, caster, clients, ch, done, wire, frames, away, closing>>

(* Mutant: the queue is read but not emptied. *)
ReceivePeeks(b) ==
    /\ Step(b, "loop", "write")
    /\ ch[b] # 0
    /\ hand' = [hand EXCEPT ![b] = ch[b]]
    /\ UNCHANGED <<topic, caster, clients, ch, done, wire, frames, away, closing>>

(* Of several ready cases select takes any: a closed done does not keep it
   from taking a queued snapshot first. *)
Receive(b) ==
    /\ Step(b, "loop", "write")
    /\ ch[b] # 0
    /\ hand' = [hand EXCEPT ![b] = ch[b]]
    /\ ch' = [ch EXCEPT ![b] = 0]
    /\ UNCHANGED <<topic, caster, clients, done, wire, frames, away, closing>>

(* ctx.Done, client.done, or a ping that nobody answers. *)
Stop(b) ==
    /\ Step(b, "loop", "leave")
    /\ b \in away \/ Cancelled(b)
    /\ UNCHANGED <<topic, caster, clients, ch, done, hand, wire, frames, away, closing>>

Remove(b) ==
    /\ Step(b, "leave", "gone")
    /\ ~Locked
    /\ clients' = clients \ {b}
    /\ done' = done \cup {b}
    /\ UNCHANGED <<topic, caster, ch, hand, wire, frames, away, closing>>

(* The peer closes, or is silent from now on. *)
GoAway(b) ==
    /\ b \notin away
    /\ phase[b] \in {"added", "write", "loop"}
    /\ away' = away \cup {b}
    /\ UNCHANGED <<topic, caster, clients, ch, done, socket, closing>>

(* conn.Read fails in the reader goroutine. *)
ReaderStops(b) ==
    /\ phase[b] \in {"added", "write", "loop"}
    /\ b \in away \/ BaseDone
    /\ b \notin done
    /\ done' = done \cup {b}
    /\ UNCHANGED <<topic, caster, clients, ch, socket, away, closing>>

(***************************************************************************)
(* Server.Close: baseCancel, then hub.close.                               *)
(***************************************************************************)
BaseCancel ==
    /\ closing = "no"
    /\ closing' = "base"
    /\ UNCHANGED <<topic, caster, clients, ch, done, socket, away>>

(* cancelSub tells the goroutine to end, then Unsubscribe takes the
   subscription out of the engine, unless an overflow has, and closes it. *)
CancelSub ==
    \/ /\ closing = "base"
       /\ closing' = "cancel"
       /\ UNCHANGED <<topic, caster, clients, ch, done, socket, away>>
    \/ /\ closing = "cancel"
       /\ IF Hub \in open THEN Engine!Leave(Hub) ELSE UNCHANGED topic
       /\ closing' = "sub"
       /\ UNCHANGED <<caster, clients, ch, done, socket, away>>
    \/ /\ closing = "sub"
       /\ Engine!Discard(Hub)
       /\ closing' = "drained"
       /\ UNCHANGED <<caster, clients, ch, done, socket, away>>

CloseClients ==
    /\ closing = "drained"
    /\ ~Locked
    /\ done' = done \cup clients
    /\ clients' = {}
    /\ closing' = "closed"
    /\ UNCHANGED <<topic, caster, ch, socket, away>>

Forwarder ==
    \/ Drain \/ BroadcastBegin \/ (\E b \in Browsers : EnqueueOffer(b))
    \/ EnqueueDrop \/ EnqueuePut \/ BroadcastEnd \/ ForwarderExit

Handler(b) ==
    \/ ReadInitial(b) \/ SendOK(b) \/ SendFail(b) \/ Receive(b) \/ Stop(b)
    \/ Remove(b)

Closer == BaseCancel \/ CancelSub \/ CloseClients

Next ==
    \/ Publish
    \/ Forwarder
    \/ \E b \in Browsers : Add(b) \/ Handler(b) \/ GoAway(b) \/ ReaderStops(b)
    \/ Closer

Spec == Init /\ [][Next]_vars

(* Goroutines run; write and ping deadlines expire, so a handler that faces
   a silent peer goes on; taking hub.mu is fair.  Browsers owe nothing, and
   the server need not be closed. *)
FairSpec ==
    /\ Spec
    /\ WF_vars(Forwarder)
    /\ \A b \in Browsers : /\ WF_vars(ReadInitial(b) \/ SendOK(b) \/ SendFail(b))
                           /\ WF_vars(Receive(b) \/ Stop(b))
                           /\ SF_vars(Stop(b)) /\ SF_vars(Remove(b))
                           /\ SF_vars(SendFail(b))
    /\ WF_vars(CancelSub) /\ SF_vars(CloseClients)

-----------------------------------------------------------------------------

TypeOK ==
    /\ latest \in 0..MaxVersions /\ slot[Hub] \in 0..latest /\ got[Hub] \in 0..latest
    /\ fwd \in {"wait", "carry", "send", "done"} /\ carry \in 0..latest
    /\ todo \subseteq clients /\ clients \subseteq Browsers
    /\ cur = Between \/ (cur.at \in {"full", "dropped"} /\ cur.b \in todo)
    /\ ch \in [Browsers -> 0..latest] /\ done \subseteq Browsers
    /\ phase \in [Browsers -> {"none", "added", "write", "loop", "leave", "gone"}]
    /\ hand \in [Browsers -> 0..latest] /\ wire \in [Browsers -> 0..latest]
    /\ frames \in [Browsers -> 0..2] /\ away \subseteq Browsers

(* The version a browser ends up with if nothing more is published: what is
   queued is written last. *)
Final(b) == IF ch[b] # 0 THEN ch[b] ELSE IF phase[b] = "write" THEN hand[b] ELSE wire[b]

(* Between two broadcasts no streaming browser will be left with a snapshot
   older than the last one the hub was given, whatever the order in which
   enqueue's three selects, the initial snapshot and the writer ran
   (eventClient.enqueue, handleEvents). *)
LastFrameIsNewest ==
    fwd = "wait" => \A b \in clients : phase[b] \in {"write", "loop"} => Final(b) >= got[Hub]

(* Frames carry ever newer snapshots, except that the one after the initial
   snapshot may repeat it or be older: it was queued between hub.add and the
   read of State.Snapshot() (handleEvents). *)
OnlyFirstFrameAhead ==
    [][\A b \in Browsers : (phase[b] = "write" /\ phase'[b] = "loop" /\ frames[b] = 2)
                              => wire'[b] > wire[b]]_vars

(* A streaming browser is eventually shown every published version or a newer
   one, unless it is let go, the server closes, or the hub's only
   subscription was dropped: after that the hub is silent for good. *)
Served ==
    \A b \in Browsers : \A v \in 1..MaxVersions :
        (latest >= v /\ phase[b] = "loop")
            ~> \/ wire[b] >= v \/ phase[b] = "gone" \/ Hub \notin open \/ closing # "no"

(* Once the server closes, every handler ends and leaves the hub, also one
   that joins while hub.close runs (Server.Close, handleEvents). *)
CloseReleases ==
    \A b \in Browsers :
        (closing = "closed" /\ phase[b] # "none") ~> (phase[b] = "gone" /\ b \notin clients)

=============================================================================
