----------------------------- MODULE HerdrCall ------------------------------
(***************************************************************************)
(* One request to Herdr (herdr/client.go): a dedicated connection, a       *)
(* goroutine that writes the request and reads one frame, and a select     *)
(* over the caller's context, the client's timeout and that goroutine.     *)
(* Herdr is external: it may apply a request and never answer, answer with *)
(* an error, a foreign id or another type, or break the connection.        *)
(***************************************************************************)
EXTENDS Naturals, FiniteSets

CONSTANTS
    Calls       \* concurrent calls of one client; a call is its request id

(* Why a call returned. *)
Outcomes == {"ok", "connect", "transport", "too_large", "protocol", "unexpected_type",
             "upstream", "timeout", "canceled"}

(* What Herdr can put on the wire in answer to call c. *)
Frames == [id : Calls \cup {""}, body : {"result", "other_type", "empty", "error", "malformed"}]

None == "none"

VARIABLES
    pc,         \* call: "start", "select", "reap" or "returned"
    conn,       \* the connection: "none", "open", "broken" or "closed"
    worker,     \* the goroutine: "none", "write", "read", "frame", "error" or "gone"
    wire,       \* the frame Herdr wrote on the connection: {} or a singleton
    applied,    \* Herdr carried out the request
    received,   \* Herdr holds the request
    ctx,        \* the caller's context: "live", "deadline" or "canceled"
    timer,      \* c.clock.After has fired
    outcome     \* what the call returned

vars == <<pc, conn, worker, wire, applied, received, ctx, timer, outcome>>

Init ==
    /\ pc = [c \in Calls |-> "start"] /\ conn = [c \in Calls |-> "none"]
    /\ worker = [c \in Calls |-> "none"]
    /\ wire = [c \in Calls |-> {}] /\ applied = [c \in Calls |-> FALSE]
    /\ received = [c \in Calls |-> FALSE] /\ ctx = [c \in Calls |-> "live"]
    /\ timer = [c \in Calls |-> FALSE] /\ outcome = [c \in Calls |-> None]

Returns(c, why) ==
    /\ pc' = [pc EXCEPT ![c] = "returned"]
    /\ outcome' = [outcome EXCEPT ![c] = why]
    /\ conn' = [conn EXCEPT ![c] = IF @ = "none" THEN @ ELSE "closed"]

-----------------------------------------------------------------------------
(* The caller *)

Dial(c) ==
    /\ pc[c] = "start"
    /\ \/ /\ Returns(c, "connect")
          /\ UNCHANGED worker
       \/ /\ ctx[c] = "live"
          /\ pc' = [pc EXCEPT ![c] = "select"]
          /\ conn' = [conn EXCEPT ![c] = "open"]
          /\ worker' = [worker EXCEPT ![c] = "write"]
          /\ UNCHANGED outcome
    /\ UNCHANGED <<wire, applied, received, ctx, timer>>

(* Mutant: a foreign id is not compared. *)
decodeResponseAnyId(c, f) ==
    CASE f.body = "malformed" -> "protocol"
      [] f.body = "error" -> "upstream"
      [] f.body = "empty" -> "protocol"
      [] f.body = "other_type" -> "unexpected_type"
      [] OTHER -> "ok"

(* A server error need not echo the id, and an empty id is tolerated. *)
decodeResponse(c, f) ==
    IF f.body = "malformed" THEN "protocol"
    ELSE IF f.body = "error" THEN "upstream"
    ELSE IF f.id \notin {"", c} \/ f.body = "empty" THEN "protocol"
    ELSE IF f.body = "other_type" THEN "unexpected_type"
    ELSE "ok"

(* case rt := <-done, with classifyIOError for the goroutine's error. *)
SelectDone(c) ==
    /\ pc[c] = "select" /\ worker[c] \in {"frame", "error"}
    /\ \E why \in IF worker[c] = "frame"
                  THEN {decodeResponse(c, f) : f \in wire[c]}
                  ELSE {"transport", "too_large"} : Returns(c, why)
    /\ worker' = [worker EXCEPT ![c] = "gone"]
    /\ UNCHANGED <<wire, applied, received, ctx, timer>>

(* Mutant: the caller does not close the connection before it waits. *)
GiveUpOpen(c) ==
    /\ pc[c] = "select" /\ (ctx[c] # "live" \/ timer[c])
    /\ pc' = [pc EXCEPT ![c] = "reap"]
    /\ UNCHANGED <<conn, worker, wire, applied, received, ctx, timer, outcome>>

(* case <-ctx.Done() or <-timeout: close to unblock the read, then reap. *)
GiveUp(c) ==
    /\ pc[c] = "select" /\ (ctx[c] # "live" \/ timer[c])
    /\ pc' = [pc EXCEPT ![c] = "reap"]
    /\ conn' = [conn EXCEPT ![c] = "closed"]
    /\ UNCHANGED <<worker, wire, applied, received, ctx, timer, outcome>>

(* <-done; which of the two cases was taken decides the error. *)
Reaped(c) ==
    /\ pc[c] = "reap" /\ worker[c] \in {"frame", "error"}
    /\ \E why \in (IF ctx[c] = "canceled" THEN {"canceled"} ELSE {})
                  \cup (IF ctx[c] = "deadline" \/ timer[c] THEN {"timeout"} ELSE {}) :
          Returns(c, why)
    /\ worker' = [worker EXCEPT ![c] = "gone"]
    /\ UNCHANGED <<wire, applied, received, ctx, timer>>

-----------------------------------------------------------------------------
(* The goroutine: write, then read one bounded frame. *)

Write(c) ==
    /\ worker[c] = "write" /\ conn[c] = "open"
    /\ worker' = [worker EXCEPT ![c] = "read"]
    /\ received' = [received EXCEPT ![c] = TRUE]
    /\ UNCHANGED <<pc, conn, wire, applied, ctx, timer, outcome>>

ReadFrame(c) ==
    /\ worker[c] = "read" /\ conn[c] # "closed" /\ wire[c] # {}
    /\ worker' = [worker EXCEPT ![c] = "frame"]
    /\ UNCHANGED <<pc, conn, wire, applied, received, ctx, timer, outcome>>

(* A broken or closed connection, a truncated or an oversized frame. *)
WorkerFails(c) ==
    /\ \/ worker[c] \in {"write", "read"} /\ conn[c] # "open"
       \/ worker[c] = "read" /\ wire[c] # {}
    /\ worker' = [worker EXCEPT ![c] = "error"]
    /\ UNCHANGED <<pc, conn, wire, applied, received, ctx, timer, outcome>>

-----------------------------------------------------------------------------
(* Herdr, the caller's context and the clock *)

HerdrApplies(c) ==
    /\ received[c] /\ ~applied[c] /\ wire[c] = {}
    /\ applied' = [applied EXCEPT ![c] = TRUE]
    /\ UNCHANGED <<pc, conn, worker, wire, received, ctx, timer, outcome>>

(* A success frame answers an applied request; no other promise is made. *)
HerdrReplies(c) ==
    /\ received[c] /\ wire[c] = {} /\ conn[c] = "open"
    /\ \E f \in Frames :
          /\ f.body = "result" => applied[IF f.id = "" THEN c ELSE f.id]
          /\ wire' = [wire EXCEPT ![c] = {f}]
    /\ UNCHANGED <<pc, conn, worker, applied, received, ctx, timer, outcome>>

HerdrBreaks(c) ==
    /\ conn[c] = "open"
    /\ conn' = [conn EXCEPT ![c] = "broken"]
    /\ UNCHANGED <<pc, worker, wire, applied, received, ctx, timer, outcome>>

ContextEnds(c) ==
    /\ ctx[c] = "live" /\ pc[c] # "returned"
    /\ ctx' \in {[ctx EXCEPT ![c] = "deadline"], [ctx EXCEPT ![c] = "canceled"]}
    /\ UNCHANGED <<pc, conn, worker, wire, applied, received, timer, outcome>>

Timeout(c) ==
    /\ pc[c] = "select" /\ ~timer[c]
    /\ timer' = [timer EXCEPT ![c] = TRUE]
    /\ UNCHANGED <<pc, conn, worker, wire, applied, received, ctx, outcome>>

Caller(c) == Dial(c) \/ SelectDone(c) \/ GiveUp(c) \/ Reaped(c)
Worker(c) == Write(c) \/ ReadFrame(c) \/ WorkerFails(c)

Next == \E c \in Calls :
            \/ Caller(c) \/ Worker(c) \/ HerdrApplies(c) \/ HerdrReplies(c)
            \/ HerdrBreaks(c) \/ ContextEnds(c) \/ Timeout(c)

Spec == Init /\ [][Next]_vars

(* Goroutines run and the timer fires; nothing is asked of Herdr. *)
FairSpec ==
    Spec /\ \A c \in Calls : WF_vars(Caller(c)) /\ WF_vars(Worker(c)) /\ WF_vars(Timeout(c))

-----------------------------------------------------------------------------
(***************************************************************************)
(* Type invariant.                                                         *)
(***************************************************************************)
TypeOK ==
    /\ pc \in [Calls -> {"start", "select", "reap", "returned"}]
    /\ conn \in [Calls -> {"none", "open", "broken", "closed"}]
    /\ worker \in [Calls -> {"none", "write", "read", "frame", "error", "gone"}]
    /\ wire \in [Calls -> SUBSET Frames]
    /\ applied \in [Calls -> BOOLEAN] /\ received \in [Calls -> BOOLEAN]
    /\ ctx \in [Calls -> {"live", "deadline", "canceled"}] /\ timer \in [Calls -> BOOLEAN]
    /\ outcome \in [Calls -> Outcomes \cup {None}]

(***************************************************************************)
(* A success is the caller's own: call returns no error only when Herdr    *)
(* carried out that very request, even though another call's answer may    *)
(* arrive on its connection ("It validates the response id").              *)
(***************************************************************************)
SuccessIsOwn == \A c \in Calls : outcome[c] = "ok" => applied[c]

(***************************************************************************)
(* Nothing outlives a call: when it has returned its connection is closed  *)
(* and its goroutine is gone ("reap it; the channel is buffered so this    *)
(* never leaks").                                                          *)
(***************************************************************************)
NothingLeaks ==
    \A c \in Calls : pc[c] = "returned" =>
        conn[c] \in {"none", "closed"} /\ worker[c] \in {"none", "gone"}

(* A call that returns reports its own outcome and leaves nothing behind
   (Client.call, decodeResponse). *)
CallSound == SuccessIsOwn /\ NothingLeaks

(***************************************************************************)
(* A call returns, whatever Herdr does: the timeout bounds a silent peer   *)
(* and closing the connection ends the read that would block the reaping.  *)
(***************************************************************************)
CallReturns == \A c \in Calls : <>(pc[c] = "returned")

=============================================================================
