---------------------------- MODULE AttachSocket ----------------------------
(***************************************************************************)
(* The phone's terminal connection: web/src/lib/terminal-socket.ts, with   *)
(* the takeover of web/src/components/terminal-view.tsx.  A WebSocket      *)
(* closes some time after it is told to, and timers and answers fall in    *)
(* between.  The bytes of the terminal, its size and delays are left out.  *)
(***************************************************************************)
EXTENDS Naturals, FiniteSets

CONSTANTS
    Links,          \* WebSocket objects; one that has closed is used again
    MaxTakeovers    \* bound: confirmations the operator asks for

ASSUME AttachAssumption == IsFiniteSet(Links) /\ MaxTakeovers \in Nat

VARIABLES
    era,          \* the pane: "ours" (the generation attached) | "replaced" | "gone"
    seen,         \* the same as the phone's snapshot has it
    spent,        \* nonces the relay has consumed
    mounted,      \* the view is on screen: ~closedByClient
    conn,         \* TerminalSocket.ws: a singleton, or empty for null
    link,         \* readyState of each socket
    with,         \* the nonce in each socket's URL, 0 if none
    take,         \* connectOpts.confirmation, 0 if none
    everOpened,
    timer,        \* reconnectTimer: "none" | "plain" | "check" (handshakeFailed)
    pinging,      \* whether pingTimer runs
    status,       \* what onStatus last said
    invalidated,
    conflict,     \* the view offers to take over
    asking,       \* takeover awaits its nonce
    issued,       \* nonces issued so far
    uses          \* how often each nonce was put in a URL

pane == <<era, seen>>
dialog == <<conflict, asking, issued>>
termVars == <<pane, spent, mounted, conn, link, with, take, everOpened, timer, pinging,
          status, invalidated, dialog, uses>>

LinkLive(s) == link[s] \in {"connecting", "open"}

Final == {"pane-replaced", "agent-ended"}

(* The view mounts and connects. *)
TermInit ==
    /\ era = "ours" /\ seen = "ours" /\ spent = {} /\ mounted = TRUE
    /\ \E s \in Links : /\ conn = {s}
                        /\ link = [r \in Links |-> IF r = s THEN "connecting" ELSE "unused"]
    /\ with = [s \in Links |-> 0] /\ take = 0
    /\ everOpened = FALSE /\ timer = "none" /\ pinging = FALSE
    /\ status = "connecting" /\ invalidated = FALSE
    /\ conflict = FALSE /\ asking = FALSE /\ issued = 0
    /\ uses = [n \in 1..MaxTakeovers |-> 0]

(***************************************************************************)
(* The relay and the snapshot.                                             *)
(***************************************************************************)
PaneChanges ==
    /\ \/ era = "ours" /\ era' \in {"replaced", "gone"}
       \/ era = "replaced" /\ era' = "gone"
    /\ UNCHANGED <<seen, spent, mounted, conn, link, with, take, everOpened, timer, pinging,
                   status, invalidated, dialog, uses>>

PaneSnapshotArrives ==
    /\ seen # era /\ seen' = era
    /\ UNCHANGED <<era, spent, mounted, conn, link, with, take, everOpened, timer, pinging,
                   status, invalidated, dialog, uses>>

(***************************************************************************)
(* Opening and closing.                                                    *)
(***************************************************************************)
Bump(f, n) == [m \in DOMAIN f |-> IF m = n /\ f[m] < 2 THEN f[m] + 1 ELSE f[m]]

(* scheduleReconnect: drops the takeover, keeps the generation. *)
scheduleReconnect(opened) ==
    /\ timer' = IF opened THEN "plain" ELSE "check"
    /\ take' = 0
    /\ status' = "reconnecting"

(* open, with the nonce of the options; t is reconnectTimer on entry.  Which of
   the two statuses is shown depends on the attempts Backoff has counted. *)
open(n, t) ==
    \/ \E s \in Links :
          /\ link[s] \in {"unused", "closed"} /\ s \notin conn
          /\ link' = [link EXCEPT ![s] = "connecting"]
          /\ with' = [with EXCEPT ![s] = n]
          /\ conn' = {s} /\ everOpened' = FALSE
          /\ take' = n /\ timer' = t
          /\ uses' = Bump(uses, n)
          /\ status' \in {"connecting", "reconnecting"}
    \/ /\ scheduleReconnect(everOpened)
       /\ UNCHANGED <<conn, link, with, everOpened, uses>>

(* onopen.  The relay has checked the generation and consumed the nonce. *)
LinkOpens(s) ==
    /\ link[s] = "connecting"
    /\ era = "ours" /\ with[s] \notin spent
    /\ link' = [link EXCEPT ![s] = "open"]
    /\ spent' = spent \cup ({with[s]} \ {0})
    /\ everOpened' = TRUE /\ pinging' = TRUE /\ status' = "open"
    /\ UNCHANGED <<pane, mounted, conn, with, take, timer, invalidated, dialog, uses>>

(* terminal.opened and terminal.conflict reach the view. *)
Opened(s) ==
    /\ link[s] = "open" /\ conflict /\ conflict' = FALSE
    /\ UNCHANGED <<pane, spent, mounted, conn, link, with, take, everOpened, timer, pinging,
                   status, invalidated, asking, issued, uses>>

Conflict(s) ==
    /\ link[s] = "open" /\ with[s] = 0
    /\ conflict' = TRUE /\ status' = "conflict"
    /\ UNCHANGED <<pane, spent, mounted, conn, link, with, take, everOpened, timer, pinging,
                   invalidated, asking, issued, uses>>

(* onerror closes the socket; onclose follows.  The relay may have consumed
   the nonce of a handshake that then fails. *)
LinkError(s) ==
    /\ LinkLive(s)
    /\ link' = [link EXCEPT ![s] = "closing"]
    /\ \/ spent' = spent
       \/ link[s] = "connecting" /\ spent' = spent \cup ({with[s]} \ {0})
    /\ UNCHANGED <<pane, mounted, conn, with, take, everOpened, timer, pinging,
                   status, invalidated, dialog, uses>>

(* onclose, of any socket. *)
LinkCloses(s) ==
    /\ link[s] \in {"connecting", "open", "closing"}
    /\ link' = [link EXCEPT ![s] = "closed"]
    /\ pinging' = FALSE /\ conn' = conn \ {s}
    /\ IF mounted THEN scheduleReconnect(everOpened)
       ELSE status' = "closed" /\ UNCHANGED <<timer, take>>
    /\ UNCHANGED <<pane, spent, mounted, with, everOpened, invalidated, dialog, uses>>

(* stopIfPaneMovedOn's question to the snapshot. *)
MovedOn == seen # "ours"

(* The reconnect timer. *)
TimerFires ==
    /\ timer # "none" /\ mounted
    /\ IF timer = "check" /\ MovedOn
       THEN /\ invalidated' = TRUE /\ pinging' = FALSE /\ timer' = "none"
            /\ status' = IF seen = "gone" THEN "agent-ended" ELSE "pane-replaced"
            /\ UNCHANGED <<conn, link, with, take, everOpened, uses>>
       ELSE open(take, "none") /\ UNCHANGED <<invalidated, pinging>>
    /\ UNCHANGED <<pane, spent, mounted, dialog>>

(***************************************************************************)
(* The view.                                                               *)
(***************************************************************************)
AskTakeover ==
    /\ mounted /\ conflict /\ ~asking
    /\ issued < MaxTakeovers
    /\ asking' = TRUE
    /\ UNCHANGED <<pane, spent, mounted, conn, link, with, take, everOpened, timer, pinging,
                   status, invalidated, conflict, issued, uses>>

TakeoverRefused ==
    /\ asking /\ asking' = FALSE
    /\ UNCHANGED <<pane, spent, mounted, conn, link, with, take, everOpened, timer, pinging,
                   status, invalidated, conflict, issued, uses>>

(* The nonce arrives: connect, if the view is still there.  The socket it had
   and a timer already armed are left as they are. *)
TakeoverGranted ==
    /\ asking /\ asking' = FALSE
    /\ issued' = issued + 1 /\ conflict' = FALSE
    /\ IF mounted THEN invalidated' = FALSE /\ open(issued + 1, timer)
       ELSE UNCHANGED <<conn, link, with, take, everOpened, timer, status, invalidated, uses>>
    /\ UNCHANGED <<pane, spent, mounted, pinging>>

(* Mutant: the timer survives the view. *)
UnmountKeepsTimer ==
    /\ mounted /\ mounted' = FALSE
    /\ pinging' = FALSE
    /\ link' = [s \in Links |-> IF s \in conn /\ LinkLive(s) THEN "closing" ELSE link[s]]
    /\ conn' = {}
    /\ UNCHANGED <<pane, spent, with, take, everOpened, timer, status, invalidated, dialog, uses>>

(* The view goes, or comes back for another generation: close. *)
Unmount ==
    /\ mounted /\ mounted' = FALSE
    /\ timer' = "none" /\ pinging' = FALSE
    /\ link' = [s \in Links |-> IF s \in conn /\ LinkLive(s) THEN "closing" ELSE link[s]]
    /\ conn' = {}
    /\ UNCHANGED <<pane, spent, with, take, everOpened, status, invalidated, dialog, uses>>

TermNext ==
    \/ PaneChanges \/ PaneSnapshotArrives \/ TimerFires \/ Unmount
    \/ AskTakeover \/ TakeoverRefused \/ TakeoverGranted
    \/ \E s \in Links : LinkOpens(s) \/ Opened(s) \/ Conflict(s) \/ LinkError(s) \/ LinkCloses(s)

TermSpec == TermInit /\ [][TermNext]_termVars

(* Timers fire, snapshots arrive, an attempt to connect ends, and the relay
   closes a connection whose pane is not the one attached. *)
TermFairSpec ==
    /\ TermSpec
    /\ WF_termVars(PaneSnapshotArrives) /\ WF_termVars(TimerFires)
    /\ \A s \in Links :
          /\ WF_termVars(link[s] = "connecting" /\ (LinkOpens(s) \/ LinkCloses(s)))
          /\ WF_termVars(link[s] = "closing" /\ LinkCloses(s))
          /\ WF_termVars(link[s] = "open" /\ era # "ours" /\ LinkCloses(s))

-----------------------------------------------------------------------------

TermTypeOK ==
    /\ conn \subseteq Links /\ Cardinality(conn) <= 1
    /\ link \in [Links -> {"unused", "connecting", "open", "closing", "closed"}]
    /\ timer \in {"none", "plain", "check"}
    /\ take \in 0..issued /\ \A s \in Links : with[s] \in 0..issued
    /\ \A n \in 1..MaxTakeovers : n > issued => uses[n] = 0

(* An attach is single: no second connection lives beside the current one
   (open, onclose, the reconnect timer). *)
OneLink == \A s \in Links : LinkLive(s) => s \in conn

(* Nothing of the attach outlives its view: no connection holds the pane and
   no timer will open one (close; terminal-socket.test.ts: "sends release on
   client close"). *)
UnmountReleases == ~mounted => timer = "none" /\ \A s \in Links : ~LinkLive(s)

(* Retrying is given up "only ever *stop* on proof" that the pane has moved on
   (scheduleReconnect, stopIfPaneMovedOn). *)
StopsOnProof ==
    /\ invalidated => era # "ours"
    /\ mounted /\ ~invalidated => timer # "none" \/ conn # {}

(* An open current connection is kept alive by pings (startPing, stopPing). *)
KeptAlive == \A s \in conn : link[s] = "open" => pinging

(* The terminal socket: until a takeover is granted nothing of an attach outlives its
   view and an open current connection is kept alive; and retrying stops only on proof
   that the pane moved on (TerminalSocket.close, startPing, scheduleReconnect). *)
TerminalHeld ==
    /\ issued = 0 => UnmountReleases /\ KeptAlive
    /\ StopsOnProof

(* A takeover nonce is single-use: it is put in one URL (scheduleReconnect:
   "the takeover nonce was single-use"). *)
NonceOnce == \A n \in 1..MaxTakeovers : uses[n] <= 1

(* A pane that has moved on is reported, not reattached for ever
   (stopIfPaneMovedOn). *)
SaysSo == era # "ours" ~> (status \in Final \/ ~mounted)

=============================================================================
