----------------------------- MODULE MCChildren -----------------------------
(***************************************************************************)
(* The processes the relay runs: the tunnel child and a terminal's         *)
(* controller behind its bridge (the modules themselves, with              *)
(* interchangeable pids), and what is read from the child's output.  A     *)
(* behaviour is one scenario of the component `part' names; the others     *)
(* rest in their initial state.                                            *)
(***************************************************************************)
EXTENDS Tunnel, TerminalBridge, TLC

VARIABLES part,
    fed, closed, buf, dropping, out, job, url, ready, sup, learned

Log == INSTANCE TunnelLog
       WITH Streams <- {"stdout", "stderr"}, Urls <- {"u1", "u2"}, NoUrl <- "", Quick <- TRUE,
            MaxLine <- 2, MaxSymbols <- 2
Lines == INSTANCE TunnelLog
         WITH Streams <- {"stdout"}, Urls <- {"u1"}, NoUrl <- "", Quick <- FALSE,
              MaxLine <- 2, MaxSymbols <- 6

logVars == <<fed, closed, buf, dropping, out, job, url, ready, sup, learned>>

ASSUME Log!TunnelLogAssumption /\ Lines!TunnelLogAssumption

Symmetry == Permutations(Pids)

MCInit ==
    /\ part \in {"tunnel", "log", "lines", "output", "pong", "input"}
    /\ Init /\ BridgeInit
    /\ IF part = "lines" THEN Lines!Init ELSE Log!Init

(* Output: the browser leaves, the controller ends, or the server does. *)
Output == keys' = 0 /\ resizes' = 0 /\ pongs' = 0 /\ close'.why # "policy"

(* A ping of the browser, an oversized message of its or the end of the server
   while the controller is quiet. *)
Pong ==
    /\ keys' = 0 /\ resizes' = 0 /\ lastSeq' = -1
    /\ close'.why = "policy" \/ ~base' => pongs' = 0

(* Input: a quiet controller and a live server, up to the teardown. *)
Input ==
    /\ lastSeq' = -1 /\ pongs' = 0 /\ base' /\ close'.why # "policy"
    /\ keys' + resizes' <= 3 /\ main' = "wait" /\ pg' = "loop"

MCNext ==
    /\ part' = part
    /\ \/ part = "tunnel" /\ Next /\ UNCHANGED <<logVars, bridgeVars>>
       \/ part = "log" /\ Log!Next /\ UNCHANGED <<vars, bridgeVars>>
       \/ part = "lines" /\ Lines!Next /\ UNCHANGED <<vars, bridgeVars>>
       \/ part = "output" /\ BridgeNext /\ Output /\ UNCHANGED <<vars, logVars>>
       \/ part = "pong" /\ BridgeNext /\ Pong /\ UNCHANGED <<vars, logVars>>
       \/ part = "input" /\ BridgeNext /\ Input /\ UNCHANGED <<vars, logVars>>

MCSpec == MCInit /\ [][MCNext]_<<part, vars, logVars, bridgeVars>>

(* What is read from the child's output: a Quick Tunnel that reports readiness has
   its URL, for every reader and order of lines; a later URL never replaces it; a
   stream that ended was captured as exactly its lines, the over-long ones cut
   (realProcess.handleLine, lineWriter.Write, flush). *)
LogUnderstood ==
    /\ part = "log" => Log!ReadyHasUrl /\ Log!UrlStable
    /\ part = "lines" => Lines!LinesCaptured
=============================================================================
