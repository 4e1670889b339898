----------------------------- MODULE TunnelLog ------------------------------
(***************************************************************************)
(* How the readiness and the public URL of the tunnel are learned from what *)
(* cloudflared writes (internal/tunnel/process.go, logparse.go): the two     *)
(* output streams are cut into bounded lines, each line is classified, a     *)
(* URL is published, the child is marked ready, the supervisor copies the    *)
(* URL and signals readiness, and the start-up of a Quick Tunnel, which      *)
(* waits for that signal, reads it (integration/stack.go).                   *)
(*                                                                          *)
(* What a stream carries is a sequence of symbols: a newline, a Quick Tunnel *)
(* URL, a "connection registered" marker, or anything else.                  *)
(***************************************************************************)
EXTENDS Naturals, Sequences, SequencesExt

CONSTANTS Streams,       \* stdout and stderr
          Urls, NoUrl,
          Quick,         \* ModeQuick; else ModeNamed
          MaxLine,       \* maxCapturedLineBytes
          MaxSymbols     \* bound on what a stream carries

TunnelLogAssumption ==
    /\ NoUrl \notin Urls
    /\ Quick \in BOOLEAN
    /\ MaxLine \in Nat \ {0}
    /\ MaxSymbols \in Nat

Newline == "newline"
Connected == "connected"
Other == "other"
Symbols == Urls \cup {Newline, Connected, Other}

VARIABLES fed,       \* what each stream has carried (history)
          closed,    \* the stream ended
          buf,       \* lineWriter.buf
          dropping,  \* lineWriter.dropping
          out,       \* lines handed to onLine (history)
          job,       \* the step of handleLine each writer is in
          url,       \* realProcess.publicURL
          ready,     \* realProcess.readyCh is closed
          sup,       \* Supervisor: url, and whether Ready is closed
          learned    \* what waitQuickTunnelURL returned

vars == <<fed, closed, buf, dropping, out, job, url, ready, sup, learned>>

Idle == [at |-> "idle", line |-> <<>>]
ConfiguredUrl == CHOOSE u \in Urls : TRUE    \* Config.PublicURL of a named tunnel

TypeOK ==
    /\ fed \in [Streams -> Seq(Symbols)]
    /\ closed \in [Streams -> BOOLEAN]
    /\ buf \in [Streams -> Seq(Symbols \ {Newline})]
    /\ \A s \in Streams : Len(buf[s]) <= MaxLine
    /\ dropping \in [Streams -> BOOLEAN]
    /\ out \in [Streams -> Seq(Seq(Symbols \ {Newline}))]
    /\ job \in [Streams -> [at : {"idle", "line", "mark"}, line : Seq(Symbols)]]
    /\ url \in Urls \cup {NoUrl}
    /\ ready \in BOOLEAN
    /\ sup \in [url : Urls \cup {NoUrl}, at : {"wait", "copied", "ready"}]
    /\ learned \in Urls \cup {NoUrl, "none", "error"}

namedURL == IF Quick THEN NoUrl ELSE ConfiguredUrl

Init ==
    /\ fed = [s \in Streams |-> <<>>]
    /\ closed = [s \in Streams |-> FALSE]
    /\ buf = [s \in Streams |-> <<>>]
    /\ dropping = [s \in Streams |-> FALSE]
    /\ out = [s \in Streams |-> <<>>]
    /\ job = [s \in Streams |-> Idle]
    /\ url = namedURL
    /\ ready = FALSE
    /\ sup = [url |-> NoUrl, at |-> "wait"]
    /\ learned = "none"

-----------------------------------------------------------------------------
(* lineWriter.                                                               *)

(* emit: an empty line is not handed on. *)
emit(s) ==
    IF buf[s] = <<>>
    THEN UNCHANGED <<out, job>>
    ELSE /\ out' = [out EXCEPT ![s] = Append(@, buf[s])]
         /\ job' = [job EXCEPT ![s] = [at |-> "line", line |-> buf[s]]]

Write(s, c) ==
    \/ /\ c = Newline
       /\ IF dropping[s] THEN UNCHANGED <<out, job>> ELSE emit(s)
       /\ buf' = [buf EXCEPT ![s] = <<>>]
       /\ dropping' = [dropping EXCEPT ![s] = FALSE]
    \/ /\ c # Newline
       /\ dropping[s]
       /\ UNCHANGED <<out, job, buf, dropping>>
    \/ /\ c # Newline
       /\ ~dropping[s]
       /\ Len(buf[s]) >= MaxLine
       /\ emit(s)
       /\ buf' = [buf EXCEPT ![s] = <<>>]
       /\ dropping' = [dropping EXCEPT ![s] = TRUE]
    \/ /\ c # Newline
       /\ ~dropping[s]
       /\ Len(buf[s]) < MaxLine
       /\ buf' = [buf EXCEPT ![s] = Append(@, c)]
       /\ UNCHANGED <<out, job, dropping>>

(* The writer's mutex is held across onLine: a stream feeds one line a time. *)
Feed(s) ==
    /\ ~closed[s]
    /\ job[s] = Idle
    /\ Len(fed[s]) < MaxSymbols
    /\ \E c \in Symbols :
          /\ fed' = [fed EXCEPT ![s] = Append(@, c)]
          /\ Write(s, c)
    /\ UNCHANGED <<closed, url, ready, sup, learned>>

flush(s) ==
    /\ ~closed[s]
    /\ job[s] = Idle
    /\ closed' = [closed EXCEPT ![s] = TRUE]
    /\ IF dropping[s] THEN UNCHANGED <<out, job>> ELSE emit(s)
    /\ buf' = [buf EXCEPT ![s] = <<>>]
    /\ dropping' = [dropping EXCEPT ![s] = FALSE]
    /\ UNCHANGED <<fed, url, ready, sup, learned>>

-----------------------------------------------------------------------------
(* classify and handleLine: a URL anywhere in the line goes before a marker.  *)

UrlIn(line) == SelectSeq(line, LAMBDA c : c \in Urls)
IsQuickURL(line) == UrlIn(line) # <<>>
IsConnRegistered(line) == ~IsQuickURL(line) /\ Contains(line, Connected)

(* The URL is set under the mutex, readiness is marked after it. *)
handleLine(s) ==
    /\ job[s].at = "line"
    /\ url' = IF IsQuickURL(job[s].line) /\ url = NoUrl THEN Head(UrlIn(job[s].line)) ELSE url
    /\ job' = IF (IF Quick THEN IsQuickURL(job[s].line) ELSE IsConnRegistered(job[s].line))
              THEN [job EXCEPT ![s].at = "mark"] ELSE [job EXCEPT ![s] = Idle]
    /\ UNCHANGED <<fed, closed, buf, dropping, out, ready, sup, learned>>

markReady(s) ==
    /\ job[s].at = "mark"
    /\ ready' = TRUE
    /\ job' = [job EXCEPT ![s] = Idle]
    /\ UNCHANGED <<fed, closed, buf, dropping, out, url, sup, learned>>

-----------------------------------------------------------------------------
(* The supervisor: waitAttempt copies the URL, then signalReady.             *)
CopyUrl ==
    /\ sup.at = "wait"
    /\ ready
    /\ sup' = [url |-> url, at |-> "copied"]
    /\ UNCHANGED <<fed, closed, buf, dropping, out, job, url, ready, learned>>

(* Mutant: readiness is signalled before the URL is copied. *)
SignalFirst ==
    /\ \/ sup.at = "wait" /\ ready /\ sup' = [sup EXCEPT !.at = "ready"]
       \/ sup.at = "ready" /\ sup.url # url /\ sup' = [sup EXCEPT !.url = url]
    /\ UNCHANGED <<fed, closed, buf, dropping, out, job, url, ready, learned>>

signalReady ==
    /\ sup.at = "copied"
    /\ sup' = [sup EXCEPT !.at = "ready"]
    /\ UNCHANGED <<fed, closed, buf, dropping, out, job, url, ready, learned>>

(* The start-up of quick mode reads the URL once Ready is closed.            *)
waitQuickTunnelURL ==
    /\ Quick
    /\ learned = "none"
    /\ sup.at = "ready"
    /\ learned' = IF sup.url = NoUrl THEN "error" ELSE sup.url
    /\ UNCHANGED <<fed, closed, buf, dropping, out, job, url, ready, sup>>

Next ==
    \/ \E s \in Streams : Feed(s) \/ flush(s) \/ handleLine(s) \/ markReady(s)
    \/ CopyUrl \/ signalReady \/ waitQuickTunnelURL

Spec == Init /\ [][Next]_vars

-----------------------------------------------------------------------------
(* The lines a stream is made of, by definition: the non-empty stretches     *)
(* between newlines, each cut to the bound.                                   *)
Ends(f) == {i \in 1..Len(f) : f[i] = Newline} \cup {Len(f) + 1}
Starts(f) == {1} \cup {i + 1 : i \in {j \in 1..Len(f) : f[j] = Newline}}
LineAt(f, i) == SubSeq(f, i, (CHOOSE e \in Ends(f) : e >= i /\ \A d \in Ends(f) : d >= i => e <= d) - 1)
Cut(line) == SubSeq(line, 1, IF Len(line) > MaxLine THEN MaxLine ELSE Len(line))
LinesOf(f) ==
    LET starts == SetToSortSeq({i \in Starts(f) : LineAt(f, i) # <<>>}, <)
    IN [k \in 1..Len(starts) |-> Cut(LineAt(f, starts[k]))]

(* A stream that ended was captured as exactly its lines: an over-long line  *)
(* is truncated, never split in two, never an end of the capture, and the    *)
(* last line needs no newline (lineWriter, flush).                           *)
LinesCaptured == \A s \in Streams : closed[s] => out[s] = LinesOf(fed[s])

(* A Quick Tunnel that reports readiness has its URL, for every reader: the  *)
(* start-up never fails with "became ready without publishing a URL"         *)
(* (stack.go:392), whichever stream announced what, in whatever order.       *)
ReadyHasUrl == (ready \/ sup.at # "wait") => url # NoUrl /\ learned # "error"

(* The URL the server was built with is the one the child keeps reporting:   *)
(* a later URL of the same child never replaces it.                          *)
UrlStable == learned \in Urls => learned = url
=============================================================================
