---------------------------- MODULE StreamProofs ----------------------------
(***************************************************************************)
(* The stream of snapshots, from the relay's hub to the phone's store.     *)
(* The event hub serves any number of browsers the newest snapshot last.   *)
(* The argument follows one browser: a snapshot reaches it through its     *)
(* one-place queue, the frame being written and the socket, and each of    *)
(* the three selects of enqueue may meet any stage of the writer.  The     *)
(* phone's store stays connected, for any number of sockets, chains and    *)
(* requests: one socket delivers frames, a lost one is reconnected and     *)
(* polling covers the gap.                                                 *)
(***************************************************************************)
EXTENDS EventHub, SnapshotStore, TLAPS

Phases == {"none", "added", "write", "loop", "leave", "gone"}

(* The topic's one subscription. *)
TopicOK ==
    /\ latest \in Nat /\ latest <= MaxVersions
    /\ slot \in [{Hub} -> Nat] /\ got \in [{Hub} -> Nat] /\ open \subseteq {Hub}
    /\ slot[Hub] <= latest /\ got[Hub] <= latest
    /\ slot[Hub] # 0 => slot[Hub] > got[Hub]

(* The broadcaster; between its second and third select nobody else fills the
   queue it emptied. *)
CasterOK ==
    /\ fwd \in {"wait", "carry", "send", "done"}
    /\ carry \in Nat /\ carry <= latest
    /\ fwd \in {"carry", "send"} => carry = got[Hub] /\ carry # 0
    /\ todo \subseteq clients /\ clients \subseteq Browsers
    /\ fwd # "send" => todo = {}
    /\ \/ cur = Between
       \/ \E b \in todo : \/ cur = [at |-> "full", b |-> b]
                          \/ cur = [at |-> "dropped", b |-> b] /\ ch[b] = 0

SocketOK ==
    /\ ch \in [Browsers -> Nat] /\ hand \in [Browsers -> Nat] /\ wire \in [Browsers -> Nat]
    /\ frames \in [Browsers -> 0..2] /\ phase \in [Browsers -> Phases]
    /\ done \subseteq Browsers /\ away \subseteq Browsers

(* The last snapshot b's writer took from its queue, 0 if none. *)
Taken(b) ==
    IF phase[b] = "write" THEN IF frames[b] = 0 THEN 0 ELSE hand[b]
    ELSE IF frames[b] = 2 THEN wire[b] ELSE 0

(* The broadcast of got[Hub] has not come to b yet. *)
Due(b) == fwd = "carry" \/ b \in todo

(* The broadcast of got[Hub] has passed b. *)
Passed(b) == b \in clients /\ (fwd = "wait" \/ (fwd = "send" /\ b \notin todo))

BrowserOK(b) ==
    /\ hand[b] <= latest /\ wire[b] <= latest /\ ch[b] <= got[Hub] /\ Taken(b) <= got[Hub]
    /\ phase[b] = "none" => b \notin clients /\ ch[b] = 0
    /\ phase[b] \in {"none", "added"} => frames[b] = 0
    /\ Due(b) => ch[b] < carry /\ Taken(b) < carry
    /\ ch[b] # 0 => Taken(b) < ch[b]
    /\ phase[b] = "write" /\ frames[b] = 2 => wire[b] < hand[b]
    /\ Passed(b) /\ phase[b] = "added" => ch[b] = 0 \/ ch[b] >= got[Hub]
    /\ Passed(b) /\ phase[b] \in {"write", "loop"} => Final(b) >= got[Hub]

Inv == TopicOK /\ CasterOK /\ SocketOK /\ \A b \in Browsers : BrowserOK(b)

-----------------------------------------------------------------------------
(* The hub starts with an empty topic and no browsers. *)
LEMMA InitInv == Init => Inv
<1> SUFFICES ASSUME Init PROVE Inv
  BY Zenon
<1>1. TopicOK
  BY HubAssumption DEF Init, TopicOK
<1>2. CasterOK
  BY DEF Init, CasterOK
<1>3. SocketOK
  BY DEF Init, SocketOK, Phases
<1>4. ASSUME NEW b \in Browsers PROVE BrowserOK(b)
  BY DEF Init, BrowserOK, Taken, Due, Passed
<1> QED BY <1>1, <1>2, <1>3, <1>4, Zenon DEF Inv

(* What a browser's part of the invariant depends on: it is kept when nothing
   of the browser and the broadcast changes, and latest only grows. *)
LEMMA BrowserFrame ==
    ASSUME Inv, NEW b \in Browsers, latest' \in Nat, latest <= latest',
           UNCHANGED <<got, fwd, carry>>, b \in todo' <=> b \in todo,
           b \in clients' => b \in clients,
           ch'[b] = ch[b], phase'[b] = phase[b], frames'[b] = frames[b],
           hand'[b] = hand[b], wire'[b] = wire[b]
    PROVE  BrowserOK(b)'
<1>1. BrowserOK(b) /\ latest \in Nat /\ hand[b] \in Nat /\ wire[b] \in Nat
  BY Zenon DEF Inv, TopicOK, SocketOK
<1>2. Taken(b)' = Taken(b) /\ Final(b)' = Final(b) /\ (Passed(b)' => Passed(b))
      /\ (Due(b)' <=> Due(b))
  BY Zenon DEF Taken, Final, Passed, Due
<1>3. hand'[b] <= latest' /\ wire'[b] <= latest'
  BY <1>1 DEF BrowserOK
<1> HIDE DEF Taken, Final, Passed, Due
<1> QED BY <1>1, <1>2, <1>3, Zenon DEF BrowserOK

(* Publishing leaves the broadcast of an older version as it is. *)
LEMMA PublishInv == ASSUME Inv, Publish PROVE Inv'
<1>1. UNCHANGED <<caster, clients, ch, done, socket, away, closing>> /\ latest < MaxVersions
  BY Zenon DEF Publish
<1>2. /\ latest' = latest + 1 /\ got' = got
      /\ \E fit \in SUBSET open :
            /\ open' = fit
            /\ slot' = [s \in {Hub} |-> IF s \in fit THEN latest + 1
                                        ELSE IF s \in open THEN 0 ELSE slot[s]]
  BY Zenon DEF Publish, Engine!Publish
<1>3. TopicOK'
  BY <1>1, <1>2, HubAssumption DEF Inv, TopicOK
<1>4. CasterOK' /\ SocketOK'
  BY <1>1, <1>2 DEF Inv, TopicOK, CasterOK, SocketOK, caster, socket
<1>5. ASSUME NEW b \in Browsers PROVE BrowserOK(b)'
  BY <1>1, <1>2, BrowserFrame DEF Inv, TopicOK, caster, socket
<1> QED BY <1>3, <1>4, <1>5, Zenon DEF Inv

(* Drain: what is drained is newer than everything handed over before. *)
LEMMA DrainInv == ASSUME Inv, Drain PROVE Inv'
<1>1. /\ fwd = "wait" /\ fwd' = "carry" /\ carry' = slot[Hub]
      /\ UNCHANGED <<todo, cur, clients, ch, done, phase, hand, wire, frames, away>>
  BY Zenon DEF Drain, socket
<1>2. /\ slot[Hub] # 0 /\ got' = [got EXCEPT ![Hub] = slot[Hub]]
      /\ slot' = [slot EXCEPT ![Hub] = 0] /\ latest' = latest /\ open' = open
  BY Zenon DEF Drain, Engine!Take
<1>3. got'[Hub] = slot[Hub] /\ got[Hub] < slot[Hub] /\ got[Hub] \in Nat /\ slot[Hub] \in Nat
      /\ slot[Hub] <= latest /\ latest \in Nat
  BY <1>2, Zenon DEF Inv, TopicOK
<1>4. TopicOK'
  BY <1>2, <1>3 DEF Inv, TopicOK
<1>5. CasterOK' /\ SocketOK'
  BY <1>1, <1>2, <1>3, Zenon DEF Inv, TopicOK, CasterOK, SocketOK
<1>6. ASSUME NEW b \in Browsers PROVE BrowserOK(b)'
  <2>1. BrowserOK(b) /\ ch[b] \in Nat /\ hand[b] \in Nat /\ wire[b] \in Nat
    BY Zenon DEF Inv, SocketOK
  <2>2. Taken(b)' = Taken(b) /\ Taken(b) \in Nat /\ ~Passed(b)'
    BY <1>1, <2>1, Zenon DEF Taken, Passed
  <2>3. ch[b] <= got[Hub] /\ Taken(b) <= got[Hub]
    BY <2>1, Zenon DEF BrowserOK
  <2> HIDE DEF Taken, Passed
  <2>4. ch'[b] < carry' /\ Taken(b)' < carry' /\ ch'[b] <= got'[Hub] /\ Taken(b)' <= got'[Hub]
    BY <1>1, <1>3, <2>1, <2>2, <2>3
  <2> QED BY <1>1, <1>2, <2>1, <2>2, <2>4, Zenon DEF BrowserOK
<1> QED BY <1>4, <1>5, <1>6, Zenon DEF Inv

(* BroadcastBegin takes the lock: every client is due. *)
LEMMA BeginInv == ASSUME Inv, BroadcastBegin PROVE Inv'
<1>1. /\ fwd = "carry" /\ fwd' = "send" /\ todo' = clients
      /\ UNCHANGED <<latest, used, open, slot, got, carry, cur, clients, ch, done, phase, hand,
                     wire, frames, away>>
  BY Zenon DEF BroadcastBegin, topic, socket
<1>2. TopicOK' /\ CasterOK' /\ SocketOK'
  BY <1>1, Zenon DEF Inv, TopicOK, CasterOK, SocketOK
<1>3. ASSUME NEW b \in Browsers PROVE BrowserOK(b)'
  <2>1. BrowserOK(b) /\ Due(b)
    BY <1>1, Zenon DEF Inv, Due
  <2>2. Taken(b)' = Taken(b) /\ ~Passed(b)'
    BY <1>1, Zenon DEF Taken, Passed
  <2> QED BY <1>1, <2>1, <2>2, Zenon DEF BrowserOK
<1> QED BY <1>2, <1>3, Zenon DEF Inv

(* BroadcastEnd releases it: the broadcast has passed every client. *)
LEMMA EndInv == ASSUME Inv, BroadcastEnd PROVE Inv'
<1>1. /\ fwd = "send" /\ todo = {} /\ fwd' = "wait" /\ carry' = 0
      /\ UNCHANGED <<latest, used, open, slot, got, todo, cur, clients, ch, done, phase, hand,
                     wire, frames, away>>
  BY Zenon DEF BroadcastEnd, topic, socket
<1>2. TopicOK' /\ CasterOK' /\ SocketOK'
  BY <1>1 DEF Inv, TopicOK, CasterOK, SocketOK
<1>3. ASSUME NEW b \in Browsers PROVE BrowserOK(b)'
  <2>1. BrowserOK(b) /\ (Passed(b)' => Passed(b)) /\ ~Due(b)'
    BY <1>1, Zenon DEF Inv, Due, Passed
  <2>2. Taken(b)' = Taken(b) /\ Final(b)' = Final(b)
    BY <1>1, Zenon DEF Taken, Final
  <2> QED BY <1>1, <2>1, <2>2, Zenon DEF BrowserOK
<1> QED BY <1>2, <1>3, Zenon DEF Inv

(* The first select of enqueue. *)
LEMMA OfferInv == ASSUME Inv, NEW a \in Browsers, EnqueueOffer(a) PROVE Inv'
<1>1. /\ fwd = "send" /\ cur = Between /\ a \in todo
      /\ UNCHANGED <<latest, used, open, slot, got, fwd, carry, clients, done, phase, hand, wire,
                     frames, away>>
  BY Zenon DEF EnqueueOffer, topic, socket
<1>2. TopicOK'
  BY <1>1, Zenon DEF Inv, TopicOK
<1>3. CASE ch[a] = 0
  <2>1. ch' = [ch EXCEPT ![a] = carry] /\ todo' = todo \ {a} /\ cur' = cur
    BY <1>3, Zenon DEF EnqueueOffer
  <2>2. CasterOK' /\ SocketOK'
    BY <1>1, <2>1, Zenon DEF Inv, CasterOK, SocketOK
  <2>3. ASSUME NEW b \in Browsers, b # a PROVE BrowserOK(b)'
    <3>1. ch'[b] = ch[b] /\ (b \in todo' <=> b \in todo)
      BY <2>1, <2>3, Zenon DEF Inv, SocketOK
    <3> QED BY <1>1, <3>1, BrowserFrame DEF Inv, TopicOK
  <2>4. BrowserOK(a)'
    BY <1>1, <2>1, HubAssumption DEF Inv, TopicOK, CasterOK, SocketOK, BrowserOK, Taken, Due, Passed, Final
  <2> QED BY <1>2, <2>2, <2>3, <2>4, Zenon DEF Inv
<1>4. CASE ch[a] # 0
  <2>1. ch' = ch /\ todo' = todo /\ cur' = [at |-> "full", b |-> a]
    BY <1>4, Zenon DEF EnqueueOffer
  <2>2. CasterOK' /\ SocketOK'
    BY <1>1, <2>1, Zenon DEF Inv, CasterOK, SocketOK
  <2>3. ASSUME NEW b \in Browsers PROVE BrowserOK(b)'
    BY <1>1, <2>1, BrowserFrame DEF Inv, TopicOK
  <2> QED BY <1>2, <2>2, <2>3, Zenon DEF Inv
<1> QED BY <1>3, <1>4, Zenon

(* The second select: the client is still due, so an empty queue owes nothing. *)
LEMMA DropInv == ASSUME Inv, EnqueueDrop PROVE Inv'
<1>1. /\ cur.at = "full" /\ ch' = [ch EXCEPT ![cur.b] = 0] /\ cur' = [cur EXCEPT !.at = "dropped"]
      /\ UNCHANGED <<latest, used, open, slot, got, fwd, carry, todo, clients, done, phase, hand,
                     wire, frames, away>>
  BY Zenon DEF EnqueueDrop, topic, socket
<1>2. PICK a \in todo : cur = [at |-> "full", b |-> a]
  BY <1>1 DEF Inv, CasterOK, Between
<1>3. a \in Browsers /\ a \in clients /\ fwd = "send" /\ ch' = [ch EXCEPT ![a] = 0]
      /\ cur' = [at |-> "dropped", b |-> a] /\ ch'[a] = 0
  BY <1>1, <1>2, Zenon DEF Inv, CasterOK, SocketOK
<1>4. TopicOK' /\ SocketOK'
  BY <1>1, <1>3 DEF Inv, TopicOK, SocketOK
<1>5. CasterOK'
  BY <1>1, <1>2, <1>3, Zenon DEF Inv, CasterOK
<1>6. ASSUME NEW b \in Browsers, b # a PROVE BrowserOK(b)'
  <2>1. ch'[b] = ch[b]
    BY <1>3, <1>6, Zenon DEF Inv, SocketOK
  <2> QED BY <1>1, <2>1, BrowserFrame DEF Inv, TopicOK
<1>7. BrowserOK(a)'
  BY <1>1, <1>2, <1>3 DEF Inv, TopicOK, CasterOK, SocketOK, BrowserOK, Taken, Due, Passed
<1> QED BY <1>4, <1>5, <1>6, <1>7, Zenon DEF Inv

(* The third select finds the place free, since only the broadcaster fills it. *)
LEMMA PutInv == ASSUME Inv, EnqueuePut PROVE Inv'
<1>1. /\ cur.at = "dropped" /\ todo' = todo \ {cur.b} /\ cur' = Between
      /\ ch' = [ch EXCEPT ![cur.b] = IF @ = 0 THEN carry ELSE @]
      /\ UNCHANGED <<latest, used, open, slot, got, fwd, carry, clients, done, phase, hand,
                     wire, frames, away>>
  BY Zenon DEF EnqueuePut, topic, socket
<1>2. PICK a \in todo : cur = [at |-> "dropped", b |-> a] /\ ch[a] = 0
  BY <1>1 DEF Inv, CasterOK, Between
<1>3. a \in Browsers /\ a \in clients /\ fwd = "send" /\ ch' = [ch EXCEPT ![a] = carry]
      /\ todo' = todo \ {a}
  BY <1>1, <1>2, Zenon DEF Inv, CasterOK, SocketOK
<1>4. TopicOK' /\ SocketOK'
  BY <1>1, <1>3, Zenon DEF Inv, TopicOK, CasterOK, SocketOK
<1>5. CasterOK'
  BY <1>1, <1>3, Zenon DEF Inv, CasterOK
<1>6. ASSUME NEW b \in Browsers, b # a PROVE BrowserOK(b)'
  <2>1. ch'[b] = ch[b] /\ (b \in todo' <=> b \in todo)
    BY <1>3, <1>6, Zenon DEF Inv, SocketOK
  <2> QED BY <1>1, <2>1, BrowserFrame DEF Inv, TopicOK
<1>7. BrowserOK(a)'
  BY <1>1, <1>2, <1>3 DEF Inv, TopicOK, CasterOK, SocketOK, BrowserOK, Taken, Due, Passed, Final
<1> QED BY <1>4, <1>5, <1>6, <1>7, Zenon DEF Inv

(* The broadcaster ends only between two broadcasts. *)
LEMMA ExitInv == ASSUME Inv, ForwarderExit PROVE Inv'
<1>1. /\ fwd = "wait" /\ fwd' = "done"
      /\ UNCHANGED <<latest, used, open, slot, got, carry, todo, cur, clients, ch, done, phase, hand,
                     wire, frames, away>>
  BY Zenon DEF ForwarderExit, topic, socket
<1>2. TopicOK' /\ CasterOK' /\ SocketOK'
  BY <1>1, Zenon DEF Inv, TopicOK, CasterOK, SocketOK
<1>3. ASSUME NEW b \in Browsers PROVE BrowserOK(b)'
  <2>1. BrowserOK(b) /\ ~Passed(b)' /\ ~Due(b)' /\ Taken(b)' = Taken(b)
    BY <1>1, Zenon DEF Inv, CasterOK, Due, Passed, Taken
  <2> QED BY <1>1, <2>1, Zenon DEF BrowserOK
<1> QED BY <1>2, <1>3, Zenon DEF Inv

-----------------------------------------------------------------------------

(* A new client has an empty queue and has written nothing. *)
LEMMA AddInv == ASSUME Inv, NEW a \in Browsers, Add(a) PROVE Inv'
<1>1. /\ phase[a] = "none" /\ phase' = [phase EXCEPT ![a] = "added"] /\ fwd # "send" /\ clients' = clients \cup {a}
      /\ UNCHANGED <<latest, used, open, slot, got, fwd, carry, todo, cur>>
      /\ UNCHANGED <<ch, done, hand, wire, frames, away>>
  BY Zenon DEF Add, Step, topic, caster, socket, Locked
<1>2. TopicOK'
  BY <1>1, Zenon DEF Inv, TopicOK
<1>3. CasterOK' /\ SocketOK'
  BY <1>1, Zenon DEF Inv, TopicOK, CasterOK, SocketOK, Phases
<1>4. ASSUME NEW b \in Browsers, b # a PROVE BrowserOK(b)'
  <2>1. /\ ch'[b] = ch[b] /\ phase'[b] = phase[b] /\ frames'[b] = frames[b]
        /\ hand'[b] = hand[b] /\ wire'[b] = wire[b] /\ (b \in clients' => b \in clients)
    BY <1>1, <1>4, Zenon DEF Inv, SocketOK
  <2>2. latest' \in Nat /\ latest <= latest'
    BY <1>1 DEF Inv, TopicOK
  <2> QED BY <1>1, <2>1, <2>2, BrowserFrame, Zenon
<1>5. BrowserOK(a)'
  BY <1>1, Zenon DEF Inv, TopicOK, CasterOK, SocketOK, BrowserOK, Taken, Due, Passed, Final
<1> QED BY <1>2, <1>3, <1>4, <1>5, Zenon DEF Inv

(* The initial snapshot is at least as new as anything the hub was given. *)
LEMMA InitialInv == ASSUME Inv, NEW a \in Browsers, ReadInitial(a) PROVE Inv'
<1>1. /\ phase[a] = "added" /\ phase' = [phase EXCEPT ![a] = "write"] /\ hand' = [hand EXCEPT ![a] = latest]
      /\ UNCHANGED <<latest, used, open, slot, got, fwd, carry, todo, cur>>
      /\ UNCHANGED <<clients, ch, done, wire, frames, away>>
  BY Zenon DEF ReadInitial, Step, topic, caster, socket, Locked
<1>2. TopicOK'
  BY <1>1, Zenon DEF Inv, TopicOK
<1>3. CasterOK' /\ SocketOK'
  BY <1>1, Zenon DEF Inv, TopicOK, CasterOK, SocketOK, Phases
<1>4. ASSUME NEW b \in Browsers, b # a PROVE BrowserOK(b)'
  <2>1. /\ ch'[b] = ch[b] /\ phase'[b] = phase[b] /\ frames'[b] = frames[b]
        /\ hand'[b] = hand[b] /\ wire'[b] = wire[b] /\ (b \in clients' => b \in clients)
    BY <1>1, <1>4, Zenon DEF Inv, SocketOK
  <2>2. latest' \in Nat /\ latest <= latest'
    BY <1>1 DEF Inv, TopicOK
  <2> QED BY <1>1, <2>1, <2>2, BrowserFrame, Zenon
<1>5. BrowserOK(a)'
  BY <1>1 DEF Inv, TopicOK, CasterOK, SocketOK, BrowserOK, Taken, Due, Passed, Final
<1> QED BY <1>2, <1>3, <1>4, <1>5, Zenon DEF Inv

(* A written frame is what the writer held. *)
LEMMA SendOKInv == ASSUME Inv, NEW a \in Browsers, SendOK(a) PROVE Inv'
<1>1. /\ phase[a] = "write" /\ phase' = [phase EXCEPT ![a] = "loop"]
      /\ wire' = [wire EXCEPT ![a] = hand[a]] /\ hand' = [hand EXCEPT ![a] = 0]
      /\ frames' = [frames EXCEPT ![a] = IF @ = 2 THEN 2 ELSE @ + 1]
      /\ UNCHANGED <<latest, used, open, slot, got, fwd, carry, todo, cur>>
      /\ UNCHANGED <<clients, ch, done, away>>
  BY Zenon DEF SendOK, Step, topic, caster, socket, Locked
<1>2. TopicOK'
  BY <1>1, Zenon DEF Inv, TopicOK
<1>3. CasterOK' /\ SocketOK'
  BY <1>1 DEF Inv, TopicOK, CasterOK, SocketOK, Phases
<1>4. ASSUME NEW b \in Browsers, b # a PROVE BrowserOK(b)'
  <2>1. /\ ch'[b] = ch[b] /\ phase'[b] = phase[b] /\ frames'[b] = frames[b]
        /\ hand'[b] = hand[b] /\ wire'[b] = wire[b] /\ (b \in clients' => b \in clients)
    BY <1>1, <1>4, Zenon DEF Inv, SocketOK
  <2>2. latest' \in Nat /\ latest <= latest'
    BY <1>1 DEF Inv, TopicOK
  <2> QED BY <1>1, <2>1, <2>2, BrowserFrame, Zenon
<1>5. BrowserOK(a)'
  BY <1>1 DEF Inv, TopicOK, CasterOK, SocketOK, BrowserOK, Taken, Due, Passed, Final
<1> QED BY <1>2, <1>3, <1>4, <1>5, Zenon DEF Inv

(* A failed write ends the handler. *)
LEMMA SendFailInv == ASSUME Inv, NEW a \in Browsers, SendFail(a) PROVE Inv'
<1>1. /\ phase[a] = "write" /\ phase' = [phase EXCEPT ![a] = "leave"] /\ hand' = [hand EXCEPT ![a] = 0]
      /\ UNCHANGED <<latest, used, open, slot, got, fwd, carry, todo, cur>>
      /\ UNCHANGED <<clients, ch, done, wire, frames, away>>
  BY Zenon DEF SendFail, Step, topic, caster, socket, Locked
<1>2. TopicOK'
  BY <1>1, Zenon DEF Inv, TopicOK
<1>3. CasterOK' /\ SocketOK'
  BY <1>1, Zenon DEF Inv, TopicOK, CasterOK, SocketOK, Phases
<1>4. ASSUME NEW b \in Browsers, b # a PROVE BrowserOK(b)'
  <2>1. /\ ch'[b] = ch[b] /\ phase'[b] = phase[b] /\ frames'[b] = frames[b]
        /\ hand'[b] = hand[b] /\ wire'[b] = wire[b] /\ (b \in clients' => b \in clients)
    BY <1>1, <1>4, Zenon DEF Inv, SocketOK
  <2>2. latest' \in Nat /\ latest <= latest'
    BY <1>1 DEF Inv, TopicOK
  <2> QED BY <1>1, <2>1, <2>2, BrowserFrame, Zenon
<1>5. BrowserOK(a)'
  BY <1>1 DEF Inv, TopicOK, CasterOK, SocketOK, BrowserOK, Taken, Due, Passed, Final
<1> QED BY <1>2, <1>3, <1>4, <1>5, Zenon DEF Inv

(* The writer takes from its queue what is newer than what it took before. *)
LEMMA ReceiveInv == ASSUME Inv, NEW a \in Browsers, Receive(a) PROVE Inv'
<1>1. /\ phase[a] = "loop" /\ phase' = [phase EXCEPT ![a] = "write"]
      /\ ch[a] # 0 /\ hand' = [hand EXCEPT ![a] = ch[a]] /\ ch' = [ch EXCEPT ![a] = 0]
      /\ UNCHANGED <<latest, used, open, slot, got, fwd, carry, todo, cur>>
      /\ UNCHANGED <<clients, done, wire, frames, away>>
  BY Zenon DEF Receive, Step, topic, caster, socket, Locked
<1>2. TopicOK'
  BY <1>1, Zenon DEF Inv, TopicOK
<1>3. CasterOK' /\ SocketOK'
  BY <1>1, Zenon DEF Inv, TopicOK, CasterOK, SocketOK, Phases
<1>4. ASSUME NEW b \in Browsers, b # a PROVE BrowserOK(b)'
  <2>1. /\ ch'[b] = ch[b] /\ phase'[b] = phase[b] /\ frames'[b] = frames[b]
        /\ hand'[b] = hand[b] /\ wire'[b] = wire[b] /\ (b \in clients' => b \in clients)
    BY <1>1, <1>4, Zenon DEF Inv, SocketOK
  <2>2. latest' \in Nat /\ latest <= latest'
    BY <1>1 DEF Inv, TopicOK
  <2> QED BY <1>1, <2>1, <2>2, BrowserFrame, Zenon
<1>5. BrowserOK(a)'
  BY <1>1 DEF Inv, TopicOK, CasterOK, SocketOK, BrowserOK, Taken, Due, Passed, Final
<1> QED BY <1>2, <1>3, <1>4, <1>5, Zenon DEF Inv

(* A handler stops. *)
LEMMA StopInv == ASSUME Inv, NEW a \in Browsers, Stop(a) PROVE Inv'
<1>1. /\ phase[a] = "loop" /\ phase' = [phase EXCEPT ![a] = "leave"]
      /\ UNCHANGED <<latest, used, open, slot, got, fwd, carry, todo, cur>>
      /\ UNCHANGED <<clients, ch, done, hand, wire, frames, away>>
  BY Zenon DEF Stop, Step, topic, caster, socket, Locked
<1>2. TopicOK'
  BY <1>1, Zenon DEF Inv, TopicOK
<1>3. CasterOK' /\ SocketOK'
  BY <1>1, Zenon DEF Inv, TopicOK, CasterOK, SocketOK, Phases
<1>4. ASSUME NEW b \in Browsers, b # a PROVE BrowserOK(b)'
  <2>1. /\ ch'[b] = ch[b] /\ phase'[b] = phase[b] /\ frames'[b] = frames[b]
        /\ hand'[b] = hand[b] /\ wire'[b] = wire[b] /\ (b \in clients' => b \in clients)
    BY <1>1, <1>4, Zenon DEF Inv, SocketOK
  <2>2. latest' \in Nat /\ latest <= latest'
    BY <1>1 DEF Inv, TopicOK
  <2> QED BY <1>1, <2>1, <2>2, BrowserFrame, Zenon
<1>5. BrowserOK(a)'
  BY <1>1, Zenon DEF Inv, TopicOK, CasterOK, SocketOK, BrowserOK, Taken, Due, Passed, Final
<1> QED BY <1>2, <1>3, <1>4, <1>5, Zenon DEF Inv

(* A client leaves the hub while no broadcast runs. *)
LEMMA RemoveInv == ASSUME Inv, NEW a \in Browsers, Remove(a) PROVE Inv'
<1>1. /\ phase[a] = "leave" /\ phase' = [phase EXCEPT ![a] = "gone"] /\ fwd # "send"
      /\ clients' = clients \ {a} /\ done' = done \cup {a}
      /\ UNCHANGED <<latest, used, open, slot, got, fwd, carry, todo, cur>>
      /\ UNCHANGED <<ch, hand, wire, frames, away>>
  BY Zenon DEF Remove, Step, topic, caster, socket, Locked
<1>2. TopicOK'
  BY <1>1, Zenon DEF Inv, TopicOK
<1>3. CasterOK' /\ SocketOK'
  BY <1>1, Zenon DEF Inv, TopicOK, CasterOK, SocketOK, Phases
<1>4. ASSUME NEW b \in Browsers, b # a PROVE BrowserOK(b)'
  <2>1. /\ ch'[b] = ch[b] /\ phase'[b] = phase[b] /\ frames'[b] = frames[b]
        /\ hand'[b] = hand[b] /\ wire'[b] = wire[b] /\ (b \in clients' => b \in clients)
    BY <1>1, <1>4, Zenon DEF Inv, SocketOK
  <2>2. latest' \in Nat /\ latest <= latest'
    BY <1>1 DEF Inv, TopicOK
  <2> QED BY <1>1, <2>1, <2>2, BrowserFrame, Zenon
<1>5. BrowserOK(a)'
  BY <1>1, Zenon DEF Inv, TopicOK, CasterOK, SocketOK, BrowserOK, Taken, Due, Passed, Final
<1> QED BY <1>2, <1>3, <1>4, <1>5, Zenon DEF Inv

-----------------------------------------------------------------------------
(* Peers that go away, the reader and the close of the server move nothing
   that a frame is made of; clients only leave, and not during a broadcast. *)
LEMMA QuietInv ==
    ASSUME Inv, UNCHANGED <<latest, got, caster, ch, socket>>, TopicOK',
           clients' \subseteq clients, todo \subseteq clients',
           done' \subseteq Browsers, away' \subseteq Browsers
    PROVE  Inv'
<1>1. UNCHANGED <<fwd, carry, todo, cur, phase, hand, wire, frames, ch, latest, got>>
  BY Zenon DEF caster, socket
<1>2. CasterOK' /\ SocketOK'
  BY <1>1, Zenon DEF Inv, CasterOK, SocketOK
<1>3. ASSUME NEW b \in Browsers PROVE BrowserOK(b)'
  BY <1>1, BrowserFrame DEF Inv, TopicOK
<1> QED BY <1>2, <1>3, Zenon DEF Inv

(* GoAway and ReaderStops touch only the peer's flags. *)
LEMMA PeerInv ==
    ASSUME Inv, NEW a \in Browsers, GoAway(a) \/ ReaderStops(a)
    PROVE  Inv'
<1>1. UNCHANGED <<topic, caster, clients, ch, socket>>
  BY Zenon DEF GoAway, ReaderStops
<1>2. done' \subseteq Browsers /\ away' \subseteq Browsers
  BY Zenon DEF GoAway, ReaderStops, Inv, SocketOK
<1>3. TopicOK' /\ UNCHANGED <<latest, got>>
  BY <1>1, Zenon DEF topic, Inv, TopicOK
<1>4. clients' \subseteq clients /\ todo \subseteq clients'
  BY <1>1, Zenon DEF Inv, CasterOK
<1> QED BY <1>1, <1>2, <1>3, <1>4, QuietInv, Zenon

(* The three steps of Server.Close. *)
LEMMA CloserInv == ASSUME Inv, Closer PROVE Inv'
<1>1. CASE BaseCancel \/ CancelSub
  <2>1. UNCHANGED <<caster, clients, ch, done, socket, away>>
    BY <1>1, Zenon DEF BaseCancel, CancelSub
  <2>2. /\ latest' = latest /\ got' = got /\ open' \subseteq open
        /\ slot' = slot \/ slot' = [slot EXCEPT ![Hub] = 0]
    BY <1>1, Zenon DEF BaseCancel, CancelSub, topic, Engine!Leave, Engine!Discard
  <2>3. TopicOK'
    BY <2>2 DEF Inv, TopicOK
  <2>4. clients' \subseteq clients /\ todo \subseteq clients' /\ done' \subseteq Browsers
        /\ away' \subseteq Browsers
    BY <2>1, Zenon DEF Inv, CasterOK, SocketOK
  <2> QED BY <2>1, <2>2, <2>3, <2>4, QuietInv, Zenon
<1>2. CASE CloseClients
  <2>1. UNCHANGED <<topic, caster, ch, socket, away>> /\ fwd # "send" /\ clients' = {}
        /\ done' = done \cup clients
    BY <1>2, Zenon DEF CloseClients, Locked
  <2>2. TopicOK' /\ UNCHANGED <<latest, got>>
    BY <2>1, Zenon DEF topic, Inv, TopicOK
  <2>3. clients' \subseteq clients /\ todo \subseteq clients' /\ done' \subseteq Browsers
        /\ away' \subseteq Browsers
    BY <2>1, Zenon DEF Inv, CasterOK, SocketOK
  <2> QED BY <2>1, <2>2, <2>3, QuietInv, Zenon
<1> QED BY <1>1, <1>2, Zenon DEF Closer

(* A step that changes nothing. *)
LEMMA StutterInv == ASSUME Inv, UNCHANGED vars PROVE Inv'
<1>1. UNCHANGED <<topic, caster, clients, ch, done, socket, away>>
  BY Zenon DEF vars
<1>2. TopicOK' /\ UNCHANGED <<latest, got>>
  BY <1>1, Zenon DEF topic, Inv, TopicOK
<1>3. clients' \subseteq clients /\ todo \subseteq clients' /\ done' \subseteq Browsers
      /\ away' \subseteq Browsers
  BY <1>1, Zenon DEF Inv, CasterOK, SocketOK
<1> QED BY <1>1, <1>2, <1>3, QuietInv, Zenon

-----------------------------------------------------------------------------
(* Every step keeps the invariant. *)
LEMMA NextInv == ASSUME Inv, [Next]_vars PROVE Inv'
<1>1. CASE Publish
  BY <1>1, PublishInv, Zenon
<1>2. CASE Forwarder
  <2>1. CASE \E a \in Browsers : EnqueueOffer(a)
    BY <2>1, OfferInv, Zenon
  <2>2. CASE Drain \/ BroadcastBegin \/ EnqueueDrop
    BY <2>2, DrainInv, BeginInv, DropInv, Zenon
  <2>3. CASE EnqueuePut \/ BroadcastEnd \/ ForwarderExit
    BY <2>3, PutInv, EndInv, ExitInv, Zenon
  <2> QED BY <1>2, <2>1, <2>2, <2>3, Zenon DEF Forwarder
<1>3. ASSUME NEW a \in Browsers, Add(a) \/ Handler(a) \/ GoAway(a) \/ ReaderStops(a)
      PROVE  Inv'
  <2>1. CASE Add(a) \/ ReadInitial(a) \/ SendOK(a) \/ SendFail(a)
    BY <2>1, AddInv, InitialInv, SendOKInv, SendFailInv, Zenon
  <2>2. CASE Receive(a) \/ Stop(a) \/ Remove(a)
    BY <2>2, ReceiveInv, StopInv, RemoveInv, Zenon
  <2>3. CASE GoAway(a) \/ ReaderStops(a)
    BY <2>3, PeerInv, Zenon
  <2> QED BY <1>3, <2>1, <2>2, <2>3, Zenon DEF Handler
<1>4. CASE Closer
  BY <1>4, CloserInv, Zenon
<1>5. CASE UNCHANGED vars
  BY <1>5, StutterInv, Zenon
<1> QED BY <1>1, <1>2, <1>3, <1>4, <1>5, Zenon DEF Next

(* Between two broadcasts every streaming browser holds, or has queued, the
   last snapshot the hub was given or a newer one, for any number of browsers
   and versions (eventClient.enqueue, handleEvents). *)
THEOREM StreamsEndNewest == Spec => []LastFrameIsNewest
<1>1. Inv => LastFrameIsNewest
  BY Zenon DEF Inv, CasterOK, BrowserOK, Passed, LastFrameIsNewest
<1> QED BY <1>1, InitInv, NextInv, PTL DEF Spec

(* After its second frame a browser is never written the same or an older
   snapshot (eventClient.enqueue, handleEvents). *)
THEOREM StreamsMoveForward == Spec => OnlyFirstFrameAhead
<1> DEFINE Ahead == \A b \in Browsers : (phase[b] = "write" /\ phase'[b] = "loop" /\ frames[b] = 2)
                                            => wire'[b] > wire[b]
<1>1. ASSUME Inv, [Next]_vars PROVE [Ahead]_vars
  <2> SUFFICES ASSUME Next, NEW b \in Browsers, phase[b] = "write", phase'[b] = "loop", frames[b] = 2
               PROVE  wire'[b] > wire[b]
    BY <1>1, Zenon
  <2>1. wire[b] < hand[b] /\ hand[b] \in Nat /\ wire[b] \in Nat /\ wire \in [Browsers -> Nat]
        /\ phase \in [Browsers -> Phases]
    BY <1>1, Zenon DEF Inv, BrowserOK, SocketOK
  <2>2. SendOK(b)
    <3>1. phase' # phase
      BY Zenon
    <3>2. PICK a \in Browsers : Add(a) \/ Handler(a) \/ GoAway(a) \/ ReaderStops(a)
      BY <3>1, Zenon DEF Next, Publish, Forwarder, Closer, Drain, BroadcastBegin, EnqueueOffer, EnqueueDrop,
                  EnqueuePut, BroadcastEnd, ForwarderExit, BaseCancel, CancelSub, CloseClients, socket
    <3>3. \E p, q \in Phases : Step(a, p, q)
      BY <3>1, <3>2, Zenon DEF Handler, Add, ReadInitial, SendOK, SendFail, Receive, Stop, Remove,
                       GoAway, ReaderStops, socket, Phases
    <3>4. a = b
      BY <3>3, <2>1, Zenon DEF Step
    <3> QED BY <3>2, <3>4, <2>1, <3>1, Zenon DEF Handler, Add, ReadInitial, SendFail, Receive, Stop, Remove,
                       GoAway, ReaderStops, socket, Step
  <2> QED BY <2>1, <2>2, Zenon DEF SendOK
<1> QED BY <1>1, InitInv, NextInv, PTL DEF Spec, OnlyFirstFrameAhead, Ahead

-----------------------------------------------------------------------------
(* The phone's store. *)

(***************************************************************************)
(* What ties the socket, the two timers and the chains together.  A        *)
(* reconnect timer and a live socket exclude each other, and a timer named *)
(* by pollTimer belongs to a chain that goes on.                           *)
(***************************************************************************)
SocketStates == {"unused", "connecting", "open", "closing", "closed"}

Requests == [at : {"none", "sent", "answered", "failed"}, by : SUBSET Loops,
             etag : Nat, v : Nat]

StoreShape ==
    /\ life \in {"boot", "on", "off"}
    /\ ws \subseteq Sockets /\ \A s, t \in ws : s = t
    /\ sock \in [Sockets -> SocketStates]
    /\ reconnect \in BOOLEAN
    /\ pollTimer \subseteq Loops
    /\ loop \in [Loops -> {"off", "armed", "polling"}]
    /\ newest \in Nat /\ etag \in Nat
    /\ poll \in [Polls -> Requests]

Connection ==
    /\ \A s \in Sockets : Live(s) => s \in ws
    /\ \A s \in ws : sock[s] \in {"connecting", "open", "closing"}
    /\ reconnect => \A s \in ws : ~Live(s)
    /\ life # "on" => ws = {} /\ ~reconnect
    /\ life = "boot" => \A s \in Sockets : sock[s] = "unused"

Cover ==
    /\ life = "on" => \A l \in pollTimer : loop[l] # "off"
    /\ life = "boot" => pollTimer = {}
    /\ (life = "on" /\ ws = {} /\ \E s \in Sockets : sock[s] # "unused")
          => \E l \in Loops : loop[l] # "off"

StoreInv == StoreShape /\ Connection /\ NeverStranded /\ Cover

(* A store that starts has neither socket nor timer. *)
LEMMA StoreInitInv == StoreInit => StoreInv
<1> SUFFICES ASSUME StoreInit PROVE StoreInv BY Zenon
<1>1. NoPoll \in Requests BY Zenon DEF NoPoll, Requests
<1>2. StoreShape BY <1>1, Zenon DEF StoreInit, StoreShape, SocketStates
<1>3. Connection /\ NeverStranded /\ Cover
  BY Zenon DEF StoreInit, Connection, Cover, NeverStranded, Live
<1> QED BY <1>2, <1>3, Zenon DEF StoreInv

(* A step that leaves the sockets, the timers and the chains alone keeps the
   invariant. *)
LEMMA StoreFrame ==
    ASSUME StoreInv, UNCHANGED <<life, ws, sock, reconnect, pollTimer, loop>>,
           newest' \in Nat, etag' \in Nat, poll' \in [Polls -> Requests]
    PROVE  StoreInv'
<1>1. StoreShape' BY Zenon DEF StoreInv, StoreShape
<1>2. Connection' BY Zenon DEF StoreInv, Connection, Live
<1>3. NeverStranded' /\ Cover' BY Zenon DEF StoreInv, Cover, NeverStranded
<1> QED BY <1>1, <1>2, <1>3, Zenon DEF StoreInv

(* A request sent is a request. *)
LEMMA SendShape ==
    ASSUME StoreInv, NEW p \in Polls, NEW by \in SUBSET Loops, send(p, by)
    PROVE  poll' \in [Polls -> Requests]
<1>1. [NoPoll EXCEPT !.at = "sent", !.by = by, !.etag = etag] \in Requests
  BY Zenon DEF NoPoll, Requests, StoreInv, StoreShape
<1> QED BY <1>1, Zenon DEF send, StoreInv, StoreShape

(* openSocket, where no socket is live: one is connecting, or the timer is
   armed. *)
LEMMA OpenKeeps ==
    ASSUME StoreInv, life # "off", life' = "on", \A s \in ws : ~Live(s), openSocket(FALSE),
           UNCHANGED <<pollTimer, loop, newest, etag>>, poll' \in [Polls -> Requests]
    PROVE  StoreInv'
<1>1. StoreShape' BY Zenon DEF StoreInv, StoreShape, SocketStates, openSocket
<1>2. Connection' BY DEF StoreInv, StoreShape, SocketStates, Connection, Live, openSocket
<1>3. NeverStranded' BY Zenon DEF StoreInv, NeverStranded, StoreShape, openSocket
<1>4. Cover'
  <2>1. CASE life = "on" BY <2>1, Zenon DEF StoreInv, StoreShape, Cover, openSocket
  <2>2. CASE life = "boot"
    <3>1. ws' # {} \/ ~\E s \in Sockets : sock'[s] # "unused"
      BY <2>2, Zenon DEF StoreInv, StoreShape, Connection, openSocket
    <3> QED BY <2>2, <3>1, Zenon DEF StoreInv, Cover
  <2> QED BY <2>1, <2>2, Zenon DEF StoreInv, StoreShape
<1> QED BY <1>1, <1>2, <1>3, <1>4, Zenon DEF StoreInv

(* onclose replaces the current socket by the two timers. *)
LEMMA CloseKeeps == ASSUME StoreInv, NEW s \in Sockets, Close(s) PROVE StoreInv'
<1> USE DEF Close
<1>1. CASE s \in ws
  <2>1. life = "on" /\ ws' = {} /\ reconnect' BY <1>1, Zenon DEF StoreInv, Connection
  <2>2. StoreShape' BY <1>1, Zenon DEF StoreInv, StoreShape, SocketStates, startPollFallback, chains, view
  <2>3. \A t \in Sockets : Live(t)' => Live(t) /\ t # s BY Zenon DEF StoreInv, StoreShape, Live
  <2>4. Connection' BY <1>1, <2>1, <2>3, Zenon DEF StoreInv, StoreShape, Connection, Live
  <2>5. NeverStranded' BY <2>1, Zenon DEF NeverStranded
  <2>6. (\A l \in pollTimer' : loop'[l] # "off") /\ pollTimer' # {}
    BY <1>1, <2>1, Zenon DEF StoreInv, StoreShape, Cover, startPollFallback, chains
  <2>7. Cover' BY <2>1, <2>2, <2>6, Zenon DEF StoreShape, Cover
  <2> QED BY <2>2, <2>4, <2>5, <2>7, Zenon DEF StoreInv
<1>2. CASE s \notin ws
  <2>1. UNCHANGED <<ws, reconnect, pollTimer, loop>> BY <1>2, Zenon DEF chains
  <2>2. StoreShape' BY <2>1, Zenon DEF StoreInv, StoreShape, SocketStates, view
  <2>3. Connection' BY <1>2, <2>1, Zenon DEF StoreInv, StoreShape, Connection, Live
  <2>4. NeverStranded' BY <2>1, Zenon DEF StoreInv, NeverStranded
  <2>5. Cover'
    <3>1. \E t \in Sockets : sock[t] # "unused" BY Zenon
    <3> QED BY <2>1, <3>1, Zenon DEF StoreInv, Cover
  <2> QED BY <2>2, <2>3, <2>4, <2>5, Zenon DEF StoreInv
<1> QED BY <1>1, <1>2, Zenon

(* What a finished poll does to the chains. *)
LEMMA AfterPollKeeps ==
    ASSUME StoreInv, NEW by \in SUBSET Loops, NEW ok \in BOOLEAN, AfterPoll(by, ok),
           UNCHANGED <<life, ws, sock, reconnect, newest>>,
           etag' \in Nat, poll' \in [Polls -> Requests]
    PROVE  StoreInv'
<1> DEFINE isOpen == ok /\ \E s \in ws : sock[s] = "open"
<1>1. cleared \in [Loops -> {"off", "armed", "polling"}] BY Zenon DEF cleared, StoreInv, StoreShape
<1>2. StoreShape' BY <1>1, Zenon DEF AfterPoll, StoreInv, StoreShape
<1>3. Connection' /\ NeverStranded' BY Zenon DEF StoreInv, Connection, Live, NeverStranded
<1>4. Cover'
  <2>1. CASE life = "on" /\ by # {}
    <3>1. pollTimer' = by /\ \A l \in by : loop'[l] = "armed" BY <2>1, Zenon DEF AfterPoll
    <3> QED BY <2>1, <3>1, Zenon DEF Cover
  <2>2. CASE by = {} /\ isOpen
    <3>1. pollTimer' = {} /\ ws # {} BY <2>2, Zenon DEF AfterPoll
    <3> QED BY <3>1, Zenon DEF Cover
  <2>3. CASE by = {} /\ ~isOpen
    <3>1. pollTimer' = pollTimer /\ \A l \in Loops : loop'[l] = loop[l]
      BY <2>3, Zenon DEF AfterPoll
    <3> QED BY <3>1, Zenon DEF StoreInv, StoreShape, Cover
  <2>4. CASE life # "on" /\ by # {}
    <3>1. pollTimer' = {} \/ pollTimer' = pollTimer BY <2>4, Zenon DEF AfterPoll
    <3> QED BY <2>4, <3>1, Zenon DEF StoreInv, Cover
  <2> QED BY <2>1, <2>2, <2>3, <2>4, Zenon
<1> QED BY <1>2, <1>3, <1>4, Zenon DEF StoreInv

(* Every step keeps the invariant. *)
LEMMA StoreStep == StoreInv /\ [StoreNext]_storeVars => StoreInv'
<1> SUFFICES ASSUME StoreInv, [StoreNext]_storeVars PROVE StoreInv' BY Zenon
<1> USE DEF relay, view, chains
<1>0. StoreShape /\ Connection BY Zenon DEF StoreInv
<1>1. CASE NewSnapshot
  <2>1. newest' \in Nat BY <1>0, <1>1 DEF NewSnapshot, StoreShape
  <2> QED BY <1>0, <1>1, <2>1, StoreFrame, Zenon DEF NewSnapshot, StoreShape
<1>2. CASE Booted
  <2>1. ~reconnect /\ ws = {} BY <1>0, <1>2, Zenon DEF Booted, Connection
  <2>2. openSocket(FALSE) BY <1>0, <1>2, <2>1, Zenon DEF Booted, StoreShape
  <2> QED BY <1>0, <1>2, <2>1, <2>2, OpenKeeps, Zenon DEF Booted, StoreShape
<1>3. CASE ReconnectFires
  <2>1. life = "on" /\ \A s \in ws : ~Live(s) BY <1>0, <1>3, Zenon DEF ReconnectFires, Connection
  <2> QED BY <1>0, <1>3, <2>1, OpenKeeps, Zenon DEF ReconnectFires, StoreShape
<1>4. CASE StoreStops
  <2>1. cleared \in [Loops -> {"off", "armed", "polling"}] BY <1>0, Zenon DEF cleared, StoreShape
  <2>2. StoreShape' BY <1>0, <1>4, <2>1, Zenon DEF StoreStops, StoreShape, SocketStates
  <2>3. \A s \in Sockets : ~Live(s)' BY <1>0, <1>4, Zenon DEF StoreStops, StoreShape, Connection, Live
  <2>4. Connection' BY <1>4, <2>3, Zenon DEF StoreStops, Connection
  <2>5. NeverStranded' /\ Cover' BY <1>4, Zenon DEF StoreStops, NeverStranded, Cover
  <2> QED BY <2>2, <2>4, <2>5, Zenon DEF StoreInv
<1>5. ASSUME NEW s \in Sockets, Push(s) \/ Message(s) PROVE StoreInv'
  BY <1>0, <1>5, StoreFrame, Zenon DEF Push, Message, StoreShape
<1>6. ASSUME NEW s \in Sockets, SocketOpens(s) PROVE StoreInv'
  <2>1. s \in ws BY <1>0, <1>6, Zenon DEF SocketOpens, Connection, Live
  <2>2. \A t \in Sockets : Live(t)' <=> Live(t) BY <1>0, <1>6, Zenon DEF SocketOpens, StoreShape, Live
  <2>3. StoreShape' BY <1>0, <1>6, Zenon DEF SocketOpens, StoreShape, SocketStates
  <2>4. Connection' BY <1>0, <1>6, <2>1, <2>2, Zenon DEF SocketOpens, Connection, StoreShape
  <2>5. NeverStranded' /\ Cover' BY <1>6, <2>1, Zenon DEF SocketOpens, StoreInv, NeverStranded, Cover
  <2> QED BY <2>3, <2>4, <2>5, Zenon DEF StoreInv
<1>7. ASSUME NEW s \in Sockets, SocketError(s) PROVE StoreInv'
  <2>1. s \in ws BY <1>0, <1>7, Zenon DEF SocketError, Connection
  <2>2. \A t \in Sockets : Live(t)' => Live(t) BY <1>0, <1>7, Zenon DEF SocketError, StoreShape, Live
  <2>3. StoreShape' BY <1>0, <1>7, Zenon DEF SocketError, StoreShape, SocketStates
  <2>4. Connection' BY <1>0, <1>7, <2>1, <2>2, Zenon DEF SocketError, Connection, StoreShape
  <2>5. NeverStranded' /\ Cover' BY <1>7, <2>1, Zenon DEF SocketError, StoreInv, NeverStranded, Cover
  <2> QED BY <2>3, <2>4, <2>5, Zenon DEF StoreInv
<1>8. ASSUME NEW s \in Sockets, Close(s) PROVE StoreInv' BY <1>8, CloseKeeps, Zenon
<1>9. ASSUME NEW p \in Polls, Revalidate(p) PROVE StoreInv'
  <2>1. poll' \in [Polls -> Requests] BY <1>9, SendShape, Zenon DEF Revalidate
  <2>2. CASE \E s \in ws : Live(s)
    BY <1>0, <1>9, <2>1, <2>2, StoreFrame, Zenon DEF Revalidate, StoreShape
  <2>3. CASE ~\E s \in ws : Live(s)
    BY <1>0, <1>9, <2>1, <2>3, OpenKeeps, Zenon DEF Revalidate, StoreShape
  <2> QED BY <2>2, <2>3, Zenon
<1>10. ASSUME NEW p \in Polls, MutationPoll(p) PROVE StoreInv'
  <2>1. poll' \in [Polls -> Requests] BY <1>10, SendShape, Zenon DEF MutationPoll
  <2> QED BY <1>0, <1>10, <2>1, StoreFrame, Zenon DEF MutationPoll, StoreShape
<1>11. ASSUME NEW p \in Polls, Respond(p) PROVE StoreInv'
  <2>1. poll' \in [Polls -> Requests] BY <1>0, <1>11 DEF Respond, StoreShape, Requests
  <2> QED BY <1>0, <1>11, <2>1, StoreFrame, Zenon DEF Respond, StoreShape
<1>12. ASSUME NEW p \in Polls, Settle(p) PROVE StoreInv'
  <2>1. poll[p].by \in SUBSET Loops /\ poll[p].v \in Nat BY <1>0, Zenon DEF StoreShape, Requests
  <2>2. poll' \in [Polls -> Requests]
    <3>1. NoPoll \in Requests BY Zenon DEF NoPoll, Requests
    <3>2. poll' = [poll EXCEPT ![p] = NoPoll] BY <1>12, Zenon DEF Settle, PollDone, PollFailed
    <3> QED BY <1>0, <3>1, <3>2, Zenon DEF StoreShape
  <2>3. etag' \in Nat BY <1>0, <1>12, <2>1, Zenon DEF Settle, PollDone, PollFailed, StoreShape
  <2>4. PICK ok \in BOOLEAN : AfterPoll(poll[p].by, ok)
    BY <1>12, Zenon DEF Settle, PollDone, PollFailed
  <2> QED BY <1>12, <2>1, <2>2, <2>3, <2>4, AfterPollKeeps, Zenon DEF Settle, PollDone, PollFailed
<1>13. ASSUME NEW p \in Polls, NEW l \in Loops, TickFires(l, p) PROVE StoreInv'
  <2>1. poll' \in [Polls -> Requests] BY <1>13, SendShape, Zenon DEF TickFires
  <2>2. StoreShape' BY <1>0, <1>13, <2>1, Zenon DEF TickFires, StoreShape
  <2>3. Connection' /\ NeverStranded'
    BY <1>13, Zenon DEF TickFires, StoreInv, Connection, Live, NeverStranded
  <2>4. \A k \in Loops : loop[k] # "off" => loop'[k] # "off"
    BY <1>0, <1>13, Zenon DEF TickFires, StoreShape
  <2>5. Cover' BY <1>0, <1>13, <2>4, Zenon DEF TickFires, StoreInv, StoreShape, Cover
  <2> QED BY <2>2, <2>3, <2>5, Zenon DEF StoreInv
<1>14. CASE UNCHANGED storeVars BY <1>0, <1>14, StoreFrame, Zenon DEF storeVars, StoreShape
<1> QED BY <1>1, <1>2, <1>3, <1>4, <1>5, <1>6, <1>7, <1>8, <1>9, <1>10, <1>11, <1>12, <1>13,
            <1>14, Zenon DEF StoreNext

(* The invariant of the connection holds throughout. *)
LEMMA StoreInvariance == StoreSpec => []StoreInv
  BY StoreInitInv, StoreStep, PTL DEF StoreSpec

(* However many sockets errors, closes, timers and wake-ups open, frames come
   from one at a time: OneSocket, of openSocket, onclose and revalidate. *)
THEOREM FramesHaveOneSource == StoreSpec => []OneSocket
<1>1. StoreInv => OneSocket BY Zenon DEF StoreInv, Connection, OneSocket
<1> QED BY <1>1, StoreInvariance, PTL

(* A running store without a socket will try again: NeverStranded, of
   scheduleReconnect. *)
THEOREM LossIsReconnected == StoreSpec => []NeverStranded
<1>1. StoreInv => NeverStranded BY Zenon DEF StoreInv
<1> QED BY <1>1, StoreInvariance, PTL

(* A running store that has lost its socket is polling: PollCovers, of
   startPollFallback and tick. *)
THEOREM LossIsPolled == StoreSpec => []PollCovers
<1>1. StoreInv => PollCovers BY Zenon DEF StoreInv, StoreShape, SocketStates, Cover, PollCovers
<1> QED BY <1>1, StoreInvariance, PTL

(* A running store always has a way to its next snapshot, and never two sockets
   that deliver (openSocket, onclose, scheduleReconnect, tick). *)
THEOREM StoresStayConnected == StoreSpec => []Connected
<1>1. OneSocket /\ NeverStranded /\ PollCovers => Connected
  BY Zenon DEF Connected
<1> QED BY <1>1, FramesHaveOneSource, LossIsReconnected, LossIsPolled, PTL

=============================================================================
