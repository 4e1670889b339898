--------------------------- MODULE TerminalBridge ---------------------------
(***************************************************************************)
(* One interactive terminal: the six goroutines of internal/terminal/      *)
(* bridge.go between a browser's socket (internal/server/terminalroute.go) *)
(* and a controller process (internal/terminal/controller.go).             *)
(*                                                                         *)
(* A record is chosen when it is read from the controller, and a message   *)
(* when it is read from the browser, so neither pipe is a variable.  A     *)
(* frame is its sequence number.  Input, scroll and release commands are   *)
(* numbered as they are read; a resize is numbered too and stands for its  *)
(* dimensions.  A goroutine that sets the close reason and returns cancels *)
(* the context in the same step: only other closers and the teardown, both *)
(* waiting for that cancellation or harmless before it, could tell.        *)
(***************************************************************************)
EXTENDS Integers, Sequences

CONSTANTS
    Seqs,         \* sequence numbers the controller may put on a frame
    OutQueue,     \* capacity of outCh
    StdinQueue,   \* capacity of stdinCh
    MaxKeys,      \* bound: input, scroll and release commands
    MaxResizes,   \* bound: resize commands
    MaxPongs,     \* bound: application pings
    Endings       \* what may end the session from outside, beside the
                  \* controller: of "leave", "vanish", "large", "server"

ASSUME BridgeAssumption ==
    /\ Seqs \subseteq Nat
    /\ OutQueue \in Nat \ {0} /\ StdinQueue \in Nat \ {0}
    /\ MaxKeys \in Nat /\ MaxResizes \in Nat /\ MaxPongs \in Nat
    /\ Endings \subseteq {"leave", "vanish", "large", "server"}

VARIABLES
    ctrl,      \* controller process: "running" | "exited"
    rd,        \* readController: at "scan" | "offer" | "wait" | "end"
    lastSeq,   \* lastSeq, or -1 while haveSeq is false
    accepted,  \* history: frames that passed handleFrame, in order
    outCh, stdinCh,
    resizeCh,  \* 0 if empty
    wr,        \* writeLoop: at "idle" | "made" | "writing" | "done"
    cut,       \* the write in progress has been cancelled
    sent,      \* what has been written to the socket
    failed,    \* a write to the socket failed
    st,        \* stdinLoop: at "idle" | "writing" | "end"
    applied,   \* commands the controller received
    rz,        \* resizeLoop: at "loop" | "send" | "end", with its pending
    br,        \* readBrowser: at "read" | "stdin" | "full" | "emptied" | "end"
    keys, resizes, pongs,   \* commands read so far
    pg,        \* pingLoop: "loop" | "ping" | "end"
    main,      \* run: "wait" | "grace" | "aborted" | "join" | "reap" | "returned"
    done,      \* ctx is cancelled
    base,      \* the server's context is alive
    close,     \* closeSet, closeReason and closeMsg
    sock,      \* "open" | "closed"
    away,      \* the browser vanished without closing
    late       \* history: writes completed after the abort

reader == <<rd, lastSeq, accepted>>
writer == <<wr, cut, sent, failed>>
input == <<st, applied>>
browser == <<br, keys, resizes, pongs>>
life == <<main, done, base, close, sock>>
bridgeVars == <<ctrl, reader, outCh, stdinCh, resizeCh, writer, input, rz, browser,
          pg, life, away, late>>

Frame(n) == [t |-> "frame", n |-> n]
Text(kind) == [t |-> kind, n |-> 0]
Key(n) == [t |-> "key", n |-> n]
ReleaseCmd(n) == [t |-> "release", n |-> n]
Resize(n) == [t |-> "resize", n |-> n]
Nothing == [t |-> "nothing", n |-> 0]
At(pc) == [at |-> pc, m |-> Nothing]
Holding(pc, m) == [at |-> pc, m |-> m]

(* Run, after a successful launch, with the text that announces it. *)
BridgeInit ==
    /\ ctrl = "running"
    /\ rd = At("scan") /\ lastSeq = -1 /\ accepted = <<>>
    /\ outCh = <<Text("opened")>> /\ stdinCh = <<>> /\ resizeCh = 0
    /\ wr = At("idle") /\ cut = FALSE /\ sent = <<>> /\ failed = FALSE
    /\ st = At("idle") /\ applied = <<>>
    /\ rz = At("loop")
    /\ br = At("read") /\ keys = 0 /\ resizes = 0 /\ pongs = 0
    /\ pg = "loop" /\ main = "wait" /\ done = FALSE /\ base = TRUE
    /\ close = [set |-> FALSE, why |-> "", msg |-> "none"]
    /\ sock = "open" /\ away = FALSE /\ late = 0

(* setClose: the first closer wins. *)
SetClose(why, msg) ==
    close' = IF close.set THEN close
             ELSE [set |-> TRUE, why |-> why, msg |-> msg]

CancelRun == done' = TRUE /\ UNCHANGED <<main, base, sock>>

Quit(why, msg) == SetClose(why, msg) /\ CancelRun

(* A goroutine returns without a reason of its own. *)
Return == CancelRun /\ close' = close

(* sendText: a full queue drops the message. *)
SendText(kind) ==
    \/ /\ Len(outCh) < OutQueue
       /\ outCh' = Append(outCh, Text(kind))
    \/ /\ Len(outCh) = OutQueue \/ done
       /\ outCh' = outCh

-----------------------------------------------------------------------------
(***************************************************************************)
(* readController                                                          *)
(***************************************************************************)
readerFrame == <<ctrl, stdinCh, resizeCh, writer, input, rz, browser, pg, away, late>>

Monotonic(n) == lastSeq = -1 \/ n > lastSeq

(***************************************************************************)
(* handleFrame up to its enqueue.  The payload may be good, undecodable,   *)
(* over the limit, or filtered to nothing; the record may carry metadata.  *)
(***************************************************************************)
ReadFrame(n) ==
    /\ rd.at = "scan"
    /\ \/ /\ ~Monotonic(n)
          /\ Quit("policy", "closed")
          /\ rd' = At("end")
          /\ UNCHANGED <<lastSeq, accepted, outCh>>
       \/ /\ Monotonic(n)
          /\ lastSeq' = n
          /\ \/ /\ rd' = Holding("offer", Frame(n))
                /\ accepted' = Append(accepted, n)
                /\ outCh' = outCh \/ SendText("resized")
                /\ UNCHANGED life
             \/ /\ outCh' = outCh \/ SendText("resized")
                /\ UNCHANGED <<rd, accepted, life>>
             \/ /\ Quit("policy", "closed")
                /\ rd' = At("end")
                /\ UNCHANGED <<accepted, outCh>>
    /\ UNCHANGED readerFrame

(* enqueue's first select, and its second once the first found no place. *)
Offer ==
    /\ rd.at \in {"offer", "wait"}
    /\ Len(outCh) < OutQueue
    /\ outCh' = Append(outCh, rd.m)
    /\ rd' = At("scan")
    /\ UNCHANGED <<lastSeq, accepted, life, readerFrame>>

OfferFull ==
    /\ rd.at = "offer" /\ Len(outCh) = OutQueue /\ ~done
    /\ rd' = [rd EXCEPT !.at = "wait"]
    /\ UNCHANGED <<lastSeq, accepted, outCh, life, readerFrame>>

OfferCancelled ==
    /\ rd.at \in {"offer", "wait"} /\ done
    /\ rd' = At("end")
    /\ Return
    /\ UNCHANGED <<lastSeq, accepted, outCh, readerFrame>>

(* Mutant: a slow client loses a frame instead of its session. *)
OfferTimeoutDrops ==
    /\ rd.at = "wait" /\ Len(outCh) = OutQueue
    /\ rd' = At("scan")
    /\ UNCHANGED <<lastSeq, accepted, outCh, life, readerFrame>>

(* WriteTimeout passed and the queue is still full. *)
OfferTimeout ==
    /\ rd.at = "wait"
    /\ rd' = At("end")
    /\ Quit("slow", "none")
    /\ UNCHANGED <<lastSeq, accepted, outCh, readerFrame>>

(* handleControllerClosed: the reason is a conflict or any other. *)
ReadClosed(msg) ==
    /\ rd.at = "scan"
    /\ Quit(msg, msg)
    /\ rd' = Holding("end", Text(msg))
    /\ UNCHANGED <<lastSeq, accepted, outCh, readerFrame>>

ReadEOF ==
    /\ rd.at = "scan" /\ ctrl = "exited"
    /\ Quit("ended", "closed")
    /\ rd' = At("end")
    /\ UNCHANGED <<lastSeq, accepted, outCh, readerFrame>>

-----------------------------------------------------------------------------
(***************************************************************************)
(* writeLoop and drainOut over coderConn.write: the context of a write is  *)
(* made first and registered for cancellation afterwards.                  *)
(***************************************************************************)
writerFrame == <<ctrl, reader, stdinCh, resizeCh, input, rz, browser, pg, away>>

(***************************************************************************)
(* Both selects take what is queued; the deadline is reset to now +        *)
(* WriteTimeout for every message.                                         *)
(***************************************************************************)
TakeOut ==
    /\ wr.at = "idle" /\ outCh # <<>>
    /\ wr' = Holding("made", Head(outCh))
    /\ outCh' = Tail(outCh)
    /\ cut' = FALSE
    /\ UNCHANGED <<sent, failed, life, late, writerFrame>>

Register ==
    /\ wr.at = "made"
    /\ wr' = [wr EXCEPT !.at = "writing"]
    /\ UNCHANGED <<cut, sent, failed, outCh, life, late, writerFrame>>

WriteOK ==
    /\ wr.at = "writing" /\ ~cut /\ sock = "open" /\ base
    /\ sent' = Append(sent, wr.m)
    /\ late' = IF main = "aborted" THEN late + 1 ELSE late
    /\ wr' = At("idle")
    /\ UNCHANGED <<cut, failed, outCh, life, writerFrame>>

(* The deadline, a cancelled context or a dead peer closes the socket. *)
WriteFail ==
    /\ wr.at = "writing"
    /\ wr' = At("done")
    /\ failed' = TRUE /\ sock' = "closed"
    /\ done' = TRUE
    /\ UNCHANGED <<cut, sent, outCh, main, base, close, late, writerFrame>>

WriterEnds ==
    /\ wr.at = "idle" /\ done /\ outCh = <<>>
    /\ wr' = At("done")
    /\ UNCHANGED <<cut, sent, failed, outCh, life, late, writerFrame>>

-----------------------------------------------------------------------------
(***************************************************************************)
(* stdinLoop and resizeLoop                                                *)
(***************************************************************************)
inputFrame == <<ctrl, reader, outCh, writer, browser, pg, away, late>>

StdinTake ==
    /\ st.at = "idle" /\ stdinCh # <<>>
    /\ st' = Holding("writing", Head(stdinCh))
    /\ stdinCh' = Tail(stdinCh)
    /\ UNCHANGED <<applied, resizeCh, rz, life, inputFrame>>

StdinWrite ==
    /\ st.at = "writing" /\ ctrl = "running" /\ main = "wait"
    /\ applied' = Append(applied, st.m)
    /\ st' = At("idle")
    /\ UNCHANGED <<stdinCh, resizeCh, rz, life, inputFrame>>

(* The process is gone, or Terminate closed the pipe. *)
StdinFail ==
    /\ st.at = "writing" /\ (ctrl = "exited" \/ main # "wait")
    /\ st' = At("end")
    /\ Quit("stdin", "none")
    /\ UNCHANGED <<applied, stdinCh, resizeCh, rz, inputFrame>>

StdinEnds ==
    /\ st.at = "idle" /\ done
    /\ st' = At("end")
    /\ UNCHANGED <<applied, stdinCh, resizeCh, rz, life, inputFrame>>

ResizeTake ==
    /\ rz.at = "loop" /\ resizeCh # 0
    /\ rz' = Holding("loop", Resize(resizeCh))
    /\ resizeCh' = 0
    /\ UNCHANGED <<input, stdinCh, life, inputFrame>>

ResizeTick ==
    /\ rz.at = "loop" /\ rz.m # Nothing
    /\ rz' = [rz EXCEPT !.at = "send"]
    /\ UNCHANGED <<input, stdinCh, resizeCh, life, inputFrame>>

(* sendStdin: a place in the queue, or the cancellation. *)
ResizeSend ==
    /\ rz.at = "send"
    /\ \/ Len(stdinCh) < StdinQueue /\ stdinCh' = Append(stdinCh, rz.m)
       \/ done /\ stdinCh' = stdinCh
    /\ rz' = At("loop")
    /\ UNCHANGED <<input, resizeCh, life, inputFrame>>

ResizeEnds ==
    /\ rz.at = "loop" /\ done
    /\ rz' = At("end")
    /\ UNCHANGED <<input, stdinCh, resizeCh, life, inputFrame>>

-----------------------------------------------------------------------------
(***************************************************************************)
(* readBrowser.  NextRead reads the state of the context once a message    *)
(* has been handled, before the following ReadMessage.                     *)
(***************************************************************************)
browserFrame == <<ctrl, reader, writer, input, rz, pg, away, late>>

NextRead == At(IF done THEN "end" ELSE "read")

(* handleInput, and a scroll or release command of handleCommand. *)
ReadKey ==
    /\ br.at = "read" /\ sock = "open" /\ ~away /\ keys < MaxKeys
    /\ keys' = keys + 1
    /\ \/ br' = Holding("stdin", Key(keys + 1))
       \/ br' = Holding("stdin", ReleaseCmd(keys + 1))
    /\ UNCHANGED <<resizes, pongs, outCh, stdinCh, resizeCh, life, browserFrame>>

SendKey ==
    /\ br.at = "stdin"
    /\ \/ Len(stdinCh) < StdinQueue /\ stdinCh' = Append(stdinCh, br.m)
       \/ done /\ stdinCh' = stdinCh
    /\ br' = NextRead
    /\ UNCHANGED <<keys, resizes, pongs, outCh, resizeCh, life, browserFrame>>

ReadTooLarge ==
    /\ "large" \in Endings
    /\ br.at = "read" /\ sock = "open" /\ ~away
    /\ br' = At("end")
    /\ Quit("policy", "none")
    /\ UNCHANGED <<keys, resizes, pongs, outCh, stdinCh, resizeCh, browserFrame>>

(* A valid resize: the first select of pushResize. *)
ReadResize ==
    /\ br.at = "read" /\ sock = "open" /\ ~away /\ resizes < MaxResizes
    /\ resizes' = resizes + 1
    /\ IF resizeCh = 0
       THEN resizeCh' = resizes + 1 /\ br' = NextRead
       ELSE resizeCh' = resizeCh /\ br' = Holding("full", Resize(resizes + 1))
    /\ UNCHANGED <<keys, pongs, outCh, stdinCh, life, browserFrame>>

(* Its second select, whether or not the coalescer was faster. *)
PushEmpty ==
    /\ br.at = "full"
    /\ resizeCh' = 0
    /\ br' = [br EXCEPT !.at = "emptied"]
    /\ UNCHANGED <<keys, resizes, pongs, outCh, stdinCh, life, browserFrame>>

PushPut ==
    /\ br.at = "emptied"
    /\ resizeCh' = IF resizeCh = 0 THEN br.m.n ELSE resizeCh
    /\ br' = NextRead
    /\ UNCHANGED <<keys, resizes, pongs, outCh, stdinCh, life, browserFrame>>

ReadPing ==
    /\ br.at = "read" /\ sock = "open" /\ ~away /\ pongs < MaxPongs
    /\ pongs' = pongs + 1
    /\ SendText("pong")
    /\ br' = NextRead
    /\ UNCHANGED <<keys, resizes, stdinCh, resizeCh, life, browserFrame>>

(* The browser closes its socket, or this side has. *)
ReadError ==
    /\ br.at = "read"
    /\ sock = "closed" \/ ("leave" \in Endings /\ ~away)
    /\ br' = IF sock = "open" THEN Holding("end", Text("left")) ELSE At("end")
    /\ SetClose("client", "none")
    /\ done' = TRUE /\ sock' = "closed"
    /\ UNCHANGED <<keys, resizes, pongs, outCh, stdinCh, resizeCh, main, base,
                   browserFrame>>

-----------------------------------------------------------------------------
(***************************************************************************)
(* pingLoop, run's teardown, and the environment                           *)
(***************************************************************************)
pingFrame == <<ctrl, reader, outCh, stdinCh, resizeCh, writer, input, rz, browser, away, late>>

PingTick ==
    /\ pg = "loop" /\ ~done
    /\ pg' = "ping"
    /\ UNCHANGED <<life, pingFrame>>

PingOK ==
    /\ pg = "ping" /\ sock = "open" /\ ~away
    /\ pg' = "loop"
    /\ UNCHANGED <<life, pingFrame>>

PingFail ==
    /\ pg = "ping" /\ (sock = "closed" \/ away)
    /\ pg' = "end"
    /\ Quit("ping", "none")
    /\ UNCHANGED pingFrame

PingEnds ==
    /\ pg = "loop" /\ done
    /\ pg' = "end"
    /\ UNCHANGED <<life, pingFrame>>

mainFrame == <<reader, outCh, stdinCh, resizeCh, wr, failed, input, rz, browser, pg, away, late>>

(* Terminate signals the process group and closes stdin. *)
Terminate ==
    /\ main = "wait" /\ done
    /\ main' = "grace"
    /\ UNCHANGED <<ctrl, cut, sent, done, base, close, sock, mainFrame>>

(* SetWriteDeadline(now) after the grace period: it cancels a registered write. *)
Abort ==
    /\ main = "grace" /\ wr.at # "done"
    /\ main' = "aborted"
    /\ cut' = (wr.at = "writing")
    /\ UNCHANGED <<ctrl, sent, done, base, close, sock, mainFrame>>

(* Mutant: the socket is closed after the readers have returned. *)
FinalCloseLate ==
    /\ main \in {"grace", "aborted"} /\ wr.at = "done"
    /\ rd.at = "end" /\ st.at = "end" /\ rz.at = "end" /\ br.at = "end" /\ pg = "end"
    /\ main' = "join" /\ sock' = "closed"
    /\ UNCHANGED <<ctrl, cut, sent, done, base, close, mainFrame>>

(* finalClose, once the writer is done. *)
FinalClose ==
    /\ main \in {"grace", "aborted"} /\ wr.at = "done"
    /\ \/ close.msg # "none" /\ sock = "open" /\ base /\ sent' = Append(sent, Text(close.msg))
       \/ (close.msg = "none" \/ sock = "closed" \/ ~base \/ away) /\ sent' = sent
    /\ main' = "join" /\ sock' = "closed"
    /\ UNCHANGED <<ctrl, cut, done, base, close, mainFrame>>

(* wg.Wait *)
Join ==
    /\ main = "join"
    /\ rd.at = "end" /\ st.at = "end" /\ rz.at = "end" /\ br.at = "end" /\ pg = "end"
    /\ main' = "reap"
    /\ UNCHANGED <<ctrl, cut, sent, done, base, close, sock, mainFrame>>

ReapController ==
    /\ main = "reap" /\ ctrl = "exited"
    /\ main' = "returned"
    /\ UNCHANGED <<ctrl, cut, sent, done, base, close, sock, mainFrame>>

(* The server closes: its context ends the run, its reads and its writes. *)
ServerCloses ==
    /\ "server" \in Endings /\ base
    /\ base' = FALSE /\ done' = TRUE /\ sock' = "closed"
    /\ UNCHANGED <<ctrl, cut, sent, main, close, mainFrame>>

(* The process ends by itself, or is killed once its context is cancelled. *)
CtrlExit ==
    /\ ctrl = "running"
    /\ ctrl' = "exited"
    /\ UNCHANGED <<reader, outCh, stdinCh, resizeCh, writer, input, rz, browser,
                   pg, life, away, late>>

Vanish ==
    /\ "vanish" \in Endings /\ ~away /\ sock = "open"
    /\ away' = TRUE
    /\ UNCHANGED <<ctrl, reader, outCh, stdinCh, resizeCh, writer, input, rz,
                   browser, pg, life, late>>

(* Everything has returned. *)
Over == main = "returned" /\ UNCHANGED bridgeVars

BridgeNext ==
    \/ \E n \in Seqs : ReadFrame(n)
    \/ Offer \/ OfferFull \/ OfferCancelled \/ OfferTimeout
    \/ \E msg \in {"conflict", "closed"} : ReadClosed(msg)
    \/ ReadEOF
    \/ TakeOut \/ Register \/ WriteOK \/ WriteFail \/ WriterEnds
    \/ StdinTake \/ StdinWrite \/ StdinFail \/ StdinEnds
    \/ ResizeTake \/ ResizeTick \/ ResizeSend \/ ResizeEnds
    \/ ReadKey \/ SendKey \/ ReadTooLarge \/ ReadPing \/ ReadError
    \/ ReadResize \/ PushEmpty \/ PushPut
    \/ PingTick \/ PingOK \/ PingFail \/ PingEnds
    \/ Terminate \/ Abort \/ FinalClose \/ Join \/ ReapController
    \/ ServerCloses \/ CtrlExit \/ Vanish \/ Over

BridgeSpec == BridgeInit /\ [][BridgeNext]_bridgeVars

(***************************************************************************)
(* Goroutines run; writes, pings and the wait of enqueue have deadlines;   *)
(* the controller reads its stdin, exits after a release and does not      *)
(* survive the kill that follows the cancellation of its context.          *)
(***************************************************************************)
Released == \E i \in DOMAIN applied : applied[i].t = "release"

BridgeFairness ==
    /\ WF_bridgeVars(Offer \/ OfferFull \/ OfferCancelled \/ OfferTimeout)
    /\ WF_bridgeVars(ReadEOF)
    /\ WF_bridgeVars(TakeOut \/ Register \/ WriteOK \/ WriteFail \/ WriterEnds)
    /\ WF_bridgeVars(StdinTake \/ StdinWrite \/ StdinFail \/ StdinEnds)
    /\ WF_bridgeVars(ResizeTake \/ ResizeTick \/ ResizeSend) /\ WF_bridgeVars(ResizeEnds)
    /\ WF_bridgeVars(SendKey \/ PushEmpty \/ PushPut)
    /\ WF_bridgeVars(ReadError /\ sock = "closed")
    /\ WF_bridgeVars(PingTick \/ PingFail) /\ WF_bridgeVars(PingOK) /\ WF_bridgeVars(PingEnds)
    /\ WF_bridgeVars(Terminate \/ FinalClose \/ Join \/ ReapController)
    /\ WF_bridgeVars(CtrlExit /\ (done \/ Released))

BridgeFairSpec == BridgeSpec /\ BridgeFairness

-----------------------------------------------------------------------------
Messages == {Frame(n) : n \in Seqs}
            \cup {Text(k) : k \in {"opened", "resized", "pong", "closed", "conflict"}}
Commands == {Key(n) : n \in 1 .. MaxKeys} \cup {ReleaseCmd(n) : n \in 1 .. MaxKeys}
            \cup {Resize(n) : n \in 1 .. MaxResizes}

(* Every queue of the bridge stays within its capacity. *)
BridgeTypeOK ==
    /\ rd.at \in {"scan", "offer", "wait", "end"}
    /\ \A i \in DOMAIN outCh : outCh[i] \in Messages
    /\ Len(outCh) <= OutQueue
    /\ \A i \in DOMAIN stdinCh : stdinCh[i] \in Commands
    /\ Len(stdinCh) <= StdinQueue
    /\ resizeCh \in 0 .. MaxResizes
    /\ wr.at \in {"idle", "made", "writing", "done"}
    /\ main \in {"wait", "grace", "aborted", "join", "reap", "returned"}

Shown(n) == \E i \in DOMAIN sent : sent[i] = Frame(n)

(***************************************************************************)
(* The browser sees the frames the controller produced in sequence order   *)
(* and without a gap: a frame that cannot be delivered ends the session,   *)
(* so that the diffs that follow are never drawn on the wrong screen.      *)
(***************************************************************************)
NoGap ==
    /\ \A i, j \in DOMAIN accepted : i < j => accepted[i] < accepted[j]
    /\ \A i \in DOMAIN sent : sent[i].t = "frame" =>
          /\ \E k \in DOMAIN accepted : accepted[k] = sent[i].n
          /\ \A k \in DOMAIN accepted : accepted[k] < sent[i].n => Shown(accepted[k])
          /\ \A j \in DOMAIN sent : j > i /\ sent[j].t = "frame" => sent[i].n < sent[j].n

(***************************************************************************)
(* When the controller itself ended the session and no write failed, the   *)
(* browser was sent all its output, and the reason after it (drainOut:     *)
(* "so a client sees a controller's final output before the socket         *)
(* closes").                                                               *)
(***************************************************************************)
FinalOutput ==
    (main \in {"join", "reap", "returned"} /\ base /\ ~failed
       /\ close.why \in {"conflict", "closed", "ended"})
    => \A k \in DOMAIN accepted : Shown(accepted[k])

(***************************************************************************)
(* The terminal is announced first, the reason of its end is the last      *)
(* thing written and is the one that was recorded first.                   *)
(***************************************************************************)
ReasonLast ==
    \A i \in DOMAIN sent :
        /\ i = 1 <=> sent[i].t = "opened"
        /\ sent[i].t \in {"closed", "conflict"} => i = Len(sent) /\ sent[i].t = close.msg

(***************************************************************************)
(* The newest size a live session was asked for is never lost, whichever   *)
(* of pushResize, the coalescer and the stdin queue holds it.              *)
(***************************************************************************)
NewestResizeKept ==
    (resizes > 0 /\ ~done) =>
        \/ resizeCh = resizes
        \/ \E g \in {br, rz, st} : g.m = Resize(resizes)
        \/ \E i \in DOMAIN stdinCh : stdinCh[i] = Resize(resizes)
        \/ \E i \in DOMAIN applied : applied[i] = Resize(resizes)

(***************************************************************************)
(* The controller receives the browser's input, scroll and release         *)
(* commands in order with none missing, and no size after a newer one.     *)
(***************************************************************************)
IsKey(m) == m.t \in {"key", "release"}
IsSize(m) == m.t = "resize"

CommandsInOrder ==
    /\ \A i, j \in DOMAIN applied : i < j =>
          /\ IsKey(applied[i]) /\ IsKey(applied[j]) => applied[i].n < applied[j].n
          /\ IsSize(applied[i]) /\ IsSize(applied[j]) => applied[i].n < applied[j].n
    /\ \A i \in DOMAIN applied : IsKey(applied[i]) =>
          \A k \in 1 .. applied[i].n :
              \E j \in DOMAIN applied : IsKey(applied[j]) /\ applied[j].n = k

(* The bridge is faithful both ways: the browser sees the controller's frames in
   order without a gap, all of them before a reason that the controller gave, and
   the first recorded reason last; the controller gets the browser's commands in
   order, and the newest size is never lost (handleFrame, drainOut, setClose,
   readBrowser, stdinLoop, pushResize). *)
BridgeFaithful == NoGap /\ FinalOutput /\ ReasonLast /\ NewestResizeKept /\ CommandsInOrder

(***************************************************************************)
(* Teardown always completes: once the context is cancelled, run returns   *)
(* and the process is reaped ("avoids that deadlock", run).                *)
(***************************************************************************)
TeardownCompletes == done ~> main = "returned"

(***************************************************************************)
(* A browser that asked for release, or vanished, does not keep the        *)
(* terminal.                                                               *)
(***************************************************************************)
ReleaseEnds == (away \/ (br.m.t = "release")) ~> main = "returned"

(* After the grace period at most the message in the writer's hands goes out. *)
AbortStopsWriter == late <= 1

(* A conflict the controller reported reaches a browser that is still there. *)
ConflictTold ==
    (main = "returned" /\ rd.m = Text("conflict") /\ base /\ ~failed /\ ~away
       /\ br.m # Text("left") /\ close.why \notin {"client", "policy", "ping"})
    => sent[Len(sent)] = Text("conflict")
=============================================================================
