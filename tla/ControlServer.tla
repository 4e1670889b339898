---------------------------- MODULE ControlServer ----------------------------
(***************************************************************************)
(* The private control socket (daemon/control.go): the accept loop, one      *)
(* handler per connection, the stop request that leads to the shutdown, and  *)
(* Close, which runs beside both.  The mutex guards closed, conns and exempt;*)
(* between two of its critical sections anything may happen.                 *)
(***************************************************************************)
EXTENDS Naturals, FiniteSets

CONSTANTS Clients,      \* control clients, each makes one call
          Stops,        \* those that send stop
          Idles,        \* those that connect and send nothing
          None,
          MaxFails,     \* bound on transient accept errors
          Signals       \* the daemon may be stopped by a signal too

ControlServerAssumption ==
    /\ None \notin Clients
    /\ Stops \subseteq Clients /\ Idles \subseteq Clients \ Stops
    /\ MaxFails \in Nat /\ Signals \in BOOLEAN

VARIABLES loop,      \* the accept loop
          cur,       \* the connection Accept returned last
          fails,
          call,      \* each client's call
          handler,   \* each connection's handler
          wg,        \* handlers the wait group counts
          conns,     \* tracked connections
          exempt,
          cut,       \* connections the server closed under a handler
          closer,    \* Close
          others,    \* the snapshot Close took
          stopping   \* Shutdown was called

vars == <<loop, cur, fails, call, handler, wg, conns, exempt, cut, closer, others, stopping>>
acceptor == <<loop, cur, fails>>
closing == <<closer, others, stopping>>

Running(c) == handler[c] \in {"reading", "working", "marked", "writing"}

TypeOK ==
    /\ loop \in {"accept", "got", "tracked", "backoff", "returned"}
    /\ cur \in Clients \cup {None}
    /\ cur = None <=> loop \notin {"got", "tracked"}
    /\ fails \in 0..MaxFails
    /\ call \in [Clients -> {"new", "dialed", "open", "replied", "error"}]
    /\ handler \in [Clients -> {"none", "reading", "working", "marked", "writing", "done"}]
    /\ wg = {c \in Clients : Running(c)}
    /\ conns \subseteq Clients
    /\ exempt \in Stops \cup {None}
    /\ cut \subseteq Clients
    /\ closer \in {"open", "snap", "closed", "forced", "removed", "exited"}
    /\ others \subseteq Clients
    /\ stopping \in BOOLEAN

Init ==
    /\ loop = "accept" /\ cur = None /\ fails = 0
    /\ call = [c \in Clients |-> "new"]
    /\ handler = [c \in Clients |-> "none"]
    /\ wg = {} /\ conns = {} /\ exempt = None /\ cut = {}
    /\ closer = "open" /\ others = {} /\ stopping = FALSE

listening == closer \in {"open", "snap"}

-----------------------------------------------------------------------------
(* A client dials; a call into a closed listener fails.                      *)
Dial(c) ==
    /\ call[c] = "new"
    /\ call' = [call EXCEPT ![c] = IF listening THEN "dialed" ELSE "error"]
    /\ UNCHANGED <<acceptor, handler, wg, conns, exempt, cut, closing>>

(* The accept loop. *)
Accept(c) ==
    /\ loop = "accept" /\ listening
    /\ call[c] = "dialed"
    /\ loop' = "got" /\ cur' = c
    /\ call' = [call EXCEPT ![c] = "open"]
    /\ UNCHANGED <<fails, handler, wg, conns, exempt, cut, closing>>

(* A transient error while the listener is open, and its bounded delay.      *)
AcceptFails ==
    /\ loop = "accept" /\ listening
    /\ fails < MaxFails
    /\ fails' = fails + 1
    /\ loop' = IF closer = "open" THEN "backoff" ELSE "returned"
    /\ UNCHANGED <<cur, call, handler, wg, conns, exempt, cut, closing>>

BackoffEnds ==
    /\ loop = "backoff"
    /\ \/ loop' = "accept"
       \/ closer # "open" /\ loop' = "returned"
    /\ UNCHANGED <<cur, fails, call, handler, wg, conns, exempt, cut, closing>>

ListenerClosed ==
    /\ loop = "accept" /\ ~listening
    /\ loop' = "returned"
    /\ UNCHANGED <<cur, fails, call, handler, wg, conns, exempt, cut, closing>>

trackConn ==
    /\ loop = "got"
    /\ conns' = conns \cup {cur}
    /\ loop' = "tracked"
    /\ UNCHANGED <<cur, fails, call, handler, wg, exempt, cut, closing>>

(* wg.Add, and the handler's goroutine. *)
Spawn ==
    /\ loop = "tracked"
    /\ wg' = wg \cup {cur}
    /\ handler' = [handler EXCEPT ![cur] = "reading"]
    /\ loop' = "accept" /\ cur' = None
    /\ UNCHANGED <<fails, call, conns, exempt, cut, closing>>

-----------------------------------------------------------------------------
(* A handler: the connection is closed, untracked and counted down however   *)
(* it ends.                                                                  *)
Ends(c, outcome) ==
    /\ handler' = [handler EXCEPT ![c] = "done"]
    /\ wg' = wg \ {c}
    /\ conns' = conns \ {c}
    /\ call' = [call EXCEPT ![c] = outcome]

ReadRequest(c) ==
    /\ handler[c] = "reading" /\ c \notin cut
    /\ c \notin Idles
    /\ handler' = [handler EXCEPT ![c] = "working"]
    /\ UNCHANGED <<acceptor, call, wg, conns, exempt, cut, closing>>

(* Nothing was read: the connection was closed, or its deadline passed.      *)
ReadCut(c) ==
    /\ handler[c] = "reading" /\ c \in cut
    /\ Ends(c, "error")
    /\ UNCHANGED <<acceptor, exempt, cut, closing>>

ReadDeadline(c) ==
    /\ handler[c] = "reading" /\ c \in Idles
    /\ Ends(c, "error")
    /\ UNCHANGED <<acceptor, exempt, cut, closing>>

(* Status and rotate-pairing are answered, as is a request that is none.     *)
HandleRequest(c) ==
    /\ handler[c] = "working" /\ c \notin Stops
    /\ handler' = [handler EXCEPT ![c] = "writing"]
    /\ UNCHANGED <<acceptor, call, wg, conns, exempt, cut, closing>>

setExempt(c) ==
    /\ handler[c] = "working" /\ c \in Stops
    /\ exempt' = c
    /\ handler' = [handler EXCEPT ![c] = "marked"]
    /\ UNCHANGED <<acceptor, call, wg, conns, cut, closing>>

(* handleStop starts Shutdown in a goroutine of its own. *)
handleStop(c) ==
    /\ handler[c] = "marked"
    /\ stopping' = TRUE
    /\ handler' = [handler EXCEPT ![c] = "writing"]
    /\ UNCHANGED <<acceptor, call, wg, conns, exempt, cut, closer, others>>

writeResponse(c) ==
    /\ handler[c] = "writing"
    /\ Ends(c, IF c \in cut THEN "error" ELSE "replied")
    /\ UNCHANGED <<acceptor, exempt, cut, closing>>

-----------------------------------------------------------------------------
(* Shutdown and Close. *)
Signal ==
    /\ Signals
    /\ ~stopping
    /\ stopping' = TRUE
    /\ UNCHANGED <<acceptor, call, handler, wg, conns, exempt, cut, closer, others>>

(* The critical section of Close: closed, and what to close besides exempt.  *)
CloseSnapshot ==
    /\ stopping /\ closer = "open"
    /\ closer' = "snap"
    /\ others' = conns \ {exempt}
    /\ UNCHANGED <<acceptor, call, handler, wg, conns, exempt, cut, stopping>>

(* The listener goes, and with it the connections nobody accepted.           *)
CloseListener ==
    /\ closer = "snap"
    /\ closer' = "closed"
    /\ call' = [c \in Clients |-> IF call[c] = "dialed" THEN "error" ELSE call[c]]
    /\ UNCHANGED <<acceptor, handler, wg, conns, exempt, cut, others, stopping>>

ForceClose ==
    /\ closer = "closed"
    /\ closer' = "forced"
    /\ cut' = cut \cup (others \cap conns)
    /\ UNCHANGED <<acceptor, call, handler, wg, conns, exempt, others, stopping>>

(* wg.Wait returns and the socket file is removed. *)
Removed ==
    /\ closer = "forced"
    /\ wg = {}
    /\ closer' = "removed"
    /\ UNCHANGED <<acceptor, call, handler, wg, conns, exempt, cut, others, stopping>>

(* The process exits: every connection left is reset. *)
Exit ==
    /\ closer = "removed"
    /\ closer' = "exited"
    /\ loop' = "returned" /\ cur' = None
    /\ handler' = [c \in Clients |-> IF Running(c) THEN "done" ELSE handler[c]]
    /\ wg' = {}
    /\ call' = [c \in Clients |-> IF call[c] = "open" THEN "error" ELSE call[c]]
    /\ UNCHANGED <<fails, conns, exempt, cut, others, stopping>>

HandlerStep(c) ==
    \/ ReadRequest(c) \/ ReadCut(c) \/ HandleRequest(c)
    \/ setExempt(c) \/ handleStop(c) \/ writeResponse(c)

LoopStep ==
    \/ BackoffEnds \/ ListenerClosed \/ trackConn \/ Spawn
    \/ \E c \in Clients : Accept(c)

CloseStep == CloseSnapshot \/ CloseListener \/ ForceClose \/ Removed

Next ==
    \/ \E c \in Clients : Dial(c) \/ HandlerStep(c) \/ ReadDeadline(c)
    \/ LoopStep \/ AcceptFails \/ CloseStep \/ Signal \/ Exit

Spec == Init /\ [][Next]_vars

(* Goroutines run; nobody has to connect or to stop the daemon.              *)
PromptSpec ==
    /\ Spec
    /\ \A c \in Clients : WF_vars(HandlerStep(c))
    /\ WF_vars(LoopStep)
    /\ WF_vars(CloseStep)

(* Besides, the deadline of a read passes in the end.                        *)
FairSpec == PromptSpec /\ \A c \in Clients : WF_vars(ReadDeadline(c))

-----------------------------------------------------------------------------
(* The client that asked for the stop gets its answer before the socket      *)
(* goes: its connection is exempt from the forced close, and Close waits for *)
(* its handler (setExempt before handlers.Stop, wg.Wait before the process   *)
(* ends).  control.go:275-276: "The connection currently handling a stop     *)
(* request (if any) is left open so its response can flush".                 *)
StopReplied == \A c \in Stops : handler[c] = "done" => call[c] = "replied"

(* An idle client cannot hold the shutdown up to its deadline: a connection  *)
(* that was tracked when the close began ends although no deadline passes.   *)
IdleEnds ==
    \A c \in Clients :
       (closer = "snap" /\ c \in others) ~> (handler[c] = "done" \/ closer = "exited")

(* Close returns, however clients behave and whatever the accept loop was    *)
(* doing: handlers are bounded by deadlines.                                 *)
CloseReturns == stopping ~> closer \in {"removed", "exited"}

(* A transient accept error never disables the socket: a client that dialed  *)
(* is served unless the daemon is shutting down.                             *)
DialServed ==
    \A c \in Clients : (call[c] = "dialed") ~> (call[c] # "dialed" \/ stopping)

(* control.go:272-273: Close "unblocks in-flight handlers, waits for them to *)
(* finish, and removes the socket file".                                     *)
RemovedAfterHandlers == closer = "removed" => \A c \in Clients : ~Running(c)
=============================================================================
