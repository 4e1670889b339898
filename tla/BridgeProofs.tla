---------------------------- MODULE BridgeProofs ----------------------------
(***************************************************************************)
(* The terminal bridge is faithful both ways, for any capacity of its      *)
(* queues and any number of frames, commands, sizes and pings.  Frames,    *)
(* commands and sizes each travel along a line of queues and hands; the    *)
(* invariant says of each line that its numbers rise from the far end to   *)
(* the near one, and that none is missing while its carriers live.         *)
(***************************************************************************)
EXTENDS TerminalBridge, TLAPS

(* Everything that travels through the bridge, in either direction. *)
Msgs == [t : {"frame", "opened", "resized", "pong", "closed", "conflict", "left",
              "key", "release", "resize", "nothing"}, n : Nat]

(* t is s with e at its end; t is s without its first element. *)
Added(s, t, e) ==
    \E k \in Nat :
        /\ DOMAIN t = DOMAIN s \cup {k} /\ k \notin DOMAIN s /\ t[k] = e
        /\ \A i \in DOMAIN s : i \in Nat /\ i < k /\ t[i] = s[i]

Dropped(s, t) ==
    /\ 1 \in DOMAIN s /\ Head(s) = s[1]
    /\ \A i \in DOMAIN t : i \in Nat /\ i + 1 \in DOMAIN s /\ t[i] = s[i + 1] /\ 1 < i + 1
    /\ \A i \in DOMAIN s : i \in Nat /\ (i = 1 \/ (i - 1 \in DOMAIN t /\ t[i - 1] = s[i]))

(* What a channel send does to a queue. *)
LEMMA AppendAdds ==
    ASSUME NEW S, NEW s \in Seq(S), NEW e \in S
    PROVE  Append(s, e) \in Seq(S) /\ Added(s, Append(s, e), e)
<1>1. /\ Append(s, e) \in Seq(S) /\ Len(s) \in Nat /\ Len(Append(s, e)) = Len(s) + 1
      /\ DOMAIN s = 1 .. Len(s) /\ DOMAIN Append(s, e) = 1 .. Len(s) + 1
      /\ Append(s, e)[Len(s) + 1] = e
      /\ \A i \in 1 .. Len(s) : Append(s, e)[i] = s[i]
  OBVIOUS
<1>2. 1 .. Len(s) + 1 = 1 .. Len(s) \cup {Len(s) + 1} /\ Len(s) + 1 \notin 1 .. Len(s)
  BY <1>1
<1> QED BY <1>1, <1>2 DEF Added

(* What a channel receive does to a queue. *)
LEMMA TailDrops ==
    ASSUME NEW S, NEW s \in Seq(S), s # <<>>
    PROVE  Tail(s) \in Seq(S) /\ Head(s) \in S /\ Dropped(s, Tail(s))
<1>1. /\ Tail(s) \in Seq(S) /\ Len(s) \in Nat /\ Len(s) > 0 /\ Len(Tail(s)) = Len(s) - 1
      /\ DOMAIN s = 1 .. Len(s) /\ DOMAIN Tail(s) = 1 .. Len(s) - 1
      /\ \A i \in 1 .. Len(s) - 1 : Tail(s)[i] = s[i + 1]
      /\ Head(s) = s[1] /\ s[1] \in S
  OBVIOUS
<1> QED BY <1>1 DEF Dropped

(* Where the goroutines stand, and why a session ends. *)
ReadPts == {"scan", "offer", "wait", "end"}
WritePts == {"idle", "made", "writing", "done"}
BrowserPts == {"read", "stdin", "full", "emptied", "end"}
Whys == {"", "policy", "slow", "conflict", "closed", "ended", "stdin", "client", "ping"}
Endgame == {"conflict", "closed", "ended"}
OverPts == {"join", "reap", "returned"}

(* The way of the output, from the controller to the socket. *)
OutTypes ==
    /\ rd \in [at : ReadPts, m : Msgs]
    /\ lastSeq \in Int /\ lastSeq >= -1
    /\ accepted \in Seq(Nat) /\ outCh \in Seq(Msgs) /\ sent \in Seq(Msgs)
    /\ wr \in [at : WritePts, m : Msgs]

(* The way of the input, from the socket to the controller. *)
InTypes ==
    /\ stdinCh \in Seq(Msgs) /\ applied \in Seq(Msgs)
    /\ st \in [at : {"idle", "writing", "end"}, m : Msgs]
    /\ rz \in [at : {"loop", "send", "end"}, m : Msgs] /\ rz.m.t \in {"resize", "nothing"}
    /\ br \in [at : BrowserPts, m : Msgs]
    /\ keys \in Nat /\ resizes \in Nat /\ resizeCh \in Nat

(* A session that is over while its server lives and no write failed has a reason;
   one that the controller gave was read last; the writer ends after the cancellation
   and before the final close (setClose, writeLoop, run). *)
EndInv ==
    /\ done \in BOOLEAN /\ base \in BOOLEAN /\ failed \in BOOLEAN
    /\ close \in [set : BOOLEAN, why : Whys, msg : {"none", "closed", "conflict"}]
    /\ ~close.set => close.msg = "none" /\ close.why = ""
    /\ done /\ base /\ ~failed => close.set
    /\ close.why \in Endgame => rd.at = "end"
    /\ wr.at = "done" => done
    /\ main \in OverPts => wr.at = "done"
    /\ failed => sock = "closed"

(* The steps of the bridge, by goroutine. *)
ReaderMoves ==
    \/ \E n \in Seqs : ReadFrame(n)
    \/ Offer \/ OfferFull \/ OfferCancelled \/ OfferTimeout
    \/ \E msg \in {"conflict", "closed"} : ReadClosed(msg)
    \/ ReadEOF
WriterMoves == TakeOut \/ Register \/ WriteOK \/ WriteFail \/ WriterEnds
InputMoves ==
    \/ StdinTake \/ StdinWrite \/ StdinFail \/ StdinEnds
    \/ ResizeTake \/ ResizeTick \/ ResizeSend \/ ResizeEnds
BrowserMoves ==
    \/ ReadKey \/ SendKey \/ ReadTooLarge \/ ReadError
    \/ ReadResize \/ PushEmpty \/ PushPut
RestMoves ==
    \/ PingTick \/ PingOK \/ PingFail \/ PingEnds
    \/ Terminate \/ Abort \/ Join \/ ReapController
    \/ ServerCloses \/ CtrlExit \/ Vanish \/ Over

(* Every step is one of these. *)
LEMMA Moves == BridgeNext => ReaderMoves \/ WriterMoves \/ InputMoves \/ BrowserMoves
                       \/ ReadPing \/ FinalClose \/ RestMoves
BY Zenon DEF BridgeNext, ReaderMoves, WriterMoves, InputMoves, BrowserMoves, RestMoves

(* What the output and the input are made of. *)
outVars == <<rd, lastSeq, accepted, outCh, wr, sent>>
inVars == <<stdinCh, applied, st, rz, br, keys, resizes, resizeCh>>

(* The input, the pings and the teardown leave the output alone. *)
LEMMA OutQuiet ==
    ASSUME InputMoves \/ BrowserMoves \/ RestMoves
    PROVE  UNCHANGED outVars
<1>1. CASE InputMoves
  BY <1>1, Zenon DEF InputMoves, outVars, StdinTake, StdinWrite, StdinFail, StdinEnds, ResizeTake,
     ResizeTick, ResizeSend, ResizeEnds, inputFrame, reader, writer
<1>2. CASE BrowserMoves
  BY <1>2, Zenon DEF BrowserMoves, outVars, ReadKey, SendKey, ReadTooLarge, ReadError, ReadResize,
     PushEmpty, PushPut, browserFrame, reader, writer
<1>3. CASE RestMoves
  BY <1>3, Zenon DEF RestMoves, outVars, PingTick, PingOK, PingFail, PingEnds, Terminate, Abort,
     Join, ReapController, ServerCloses, CtrlExit, Vanish, Over, pingFrame, mainFrame, reader, writer, bridgeVars
<1> QED BY <1>1, <1>2, <1>3, Zenon

(* The output, the pings and the teardown leave the input alone. *)
LEMMA InQuiet ==
    ASSUME ReaderMoves \/ WriterMoves \/ FinalClose \/ RestMoves
    PROVE  UNCHANGED inVars
<1>1. CASE ReaderMoves
  BY <1>1, Zenon DEF ReaderMoves, inVars, ReadFrame, Offer, OfferFull, OfferCancelled, OfferTimeout,
     ReadClosed, ReadEOF, readerFrame, input, browser
<1>2. CASE WriterMoves
  BY <1>2, Zenon DEF WriterMoves, inVars, TakeOut, Register, WriteOK, WriteFail, WriterEnds,
     writerFrame, input, browser
<1>3. CASE FinalClose \/ RestMoves
  BY <1>3, Zenon DEF RestMoves, inVars, PingTick, PingOK, PingFail, PingEnds, Terminate, Abort,
     Join, ReapController, ServerCloses, CtrlExit, Vanish, Over, pingFrame, mainFrame, input, browser, bridgeVars,
     FinalClose
<1> QED BY <1>1, <1>2, <1>3, Zenon

(* Every kind of message is one. *)
LEMMA MsgFacts ==
    /\ \A n \in Nat : Frame(n) \in Msgs /\ Key(n) \in Msgs /\ ReleaseCmd(n) \in Msgs /\ Resize(n) \in Msgs
    /\ \A k \in {"opened", "resized", "pong", "closed", "conflict", "left"} : Text(k) \in Msgs
    /\ Nothing \in Msgs
BY Zenon DEF Frame, Key, ReleaseCmd, Resize, Text, Nothing, Msgs

(* sendText queues its text or drops it. *)
LEMMA TextSent ==
    ASSUME outCh \in Seq(Msgs), NEW k \in {"resized", "pong"}, SendText(k)
    PROVE  outCh' \in Seq(Msgs) /\ (outCh' = outCh \/ Added(outCh, outCh', Text(k)))
<1>1. Text(k) \in Msgs
  BY MsgFacts, Zenon
<1>2. Append(outCh, Text(k)) \in Seq(Msgs) /\ Added(outCh, Append(outCh, Text(k)), Text(k))
  BY <1>1, AppendAdds, Zenon
<1> QED BY <1>2, Zenon DEF SendText

(* Every step keeps the types of the output. *)
LEMMA OutTypesStep ==
    ASSUME OutTypes, EndInv, BridgeNext
    PROVE  OutTypes'
<1>1. ASSUME NEW n \in Seqs, ReadFrame(n) PROVE OutTypes'
  <2>1. n \in Nat /\ At("end") \in [at : ReadPts, m : Msgs]
        /\ Holding("offer", Frame(n)) \in [at : ReadPts, m : Msgs] /\ Append(accepted, n) \in Seq(Nat)
    BY MsgFacts, BridgeAssumption DEF At, Holding, ReadPts, OutTypes
  <2>2. outCh' \in Seq(Msgs)
    BY <1>1, TextSent, Zenon DEF ReadFrame, OutTypes
  <2>a. /\ rd' \in {rd, At("end"), Holding("offer", Frame(n))}
        /\ accepted' \in {accepted, Append(accepted, n)} /\ lastSeq' \in {lastSeq, n}
    BY <1>1, Zenon DEF ReadFrame
  <2>b. lastSeq' \in Int /\ lastSeq' >= -1
    BY <2>a, <2>1 DEF OutTypes
  <2>c. accepted' \in Seq(Nat)
    BY <2>a, <2>1, Zenon DEF OutTypes
  <2>3. rd' \in [at : ReadPts, m : Msgs]
    BY <2>a, <2>1, Zenon DEF OutTypes
  <2>4. wr' = wr /\ sent' = sent
    BY <1>1, Zenon DEF ReadFrame, readerFrame, writer
  <2> QED BY <2>b, <2>c, <2>2, <2>3, <2>4, Zenon DEF OutTypes
<1>2. CASE Offer
  <2>1. At("scan") \in [at : ReadPts, m : Msgs] /\ Append(outCh, rd.m) \in Seq(Msgs)
    BY MsgFacts, AppendAdds, Zenon DEF OutTypes, At, ReadPts
  <2> QED BY <1>2, <2>1, Zenon DEF Offer, OutTypes, readerFrame, writer
<1>3. CASE OfferFull
  BY <1>3, Zenon DEF OfferFull, OutTypes, readerFrame, writer, ReadPts
<1>4. CASE OfferCancelled \/ OfferTimeout \/ ReadEOF
  <2>1. At("end") \in [at : ReadPts, m : Msgs]
    BY MsgFacts, Zenon DEF At, ReadPts
  <2> QED BY <1>4, <2>1, Zenon DEF OfferCancelled, OfferTimeout, ReadEOF, OutTypes, readerFrame, writer
<1>5. ASSUME NEW msg \in {"conflict", "closed"}, ReadClosed(msg) PROVE OutTypes'
  <2>1. Holding("end", Text(msg)) \in [at : ReadPts, m : Msgs]
    BY MsgFacts, Zenon DEF Holding, ReadPts
  <2> QED BY <1>5, <2>1, Zenon DEF ReadClosed, OutTypes, readerFrame, writer
<1>6. CASE TakeOut
  <2>1. Tail(outCh) \in Seq(Msgs) /\ Head(outCh) \in Msgs
    BY <1>6, TailDrops, Zenon DEF TakeOut, OutTypes
  <2>2. Holding("made", Head(outCh)) \in [at : WritePts, m : Msgs]
    BY <2>1, Zenon DEF Holding, WritePts
  <2> QED BY <1>6, <2>1, <2>2, Zenon DEF TakeOut, OutTypes, writerFrame, reader
<1>7. CASE Register
  BY <1>7, Zenon DEF Register, OutTypes, writerFrame, reader, WritePts
<1>8. CASE WriteOK
  <2>1. At("idle") \in [at : WritePts, m : Msgs] /\ Append(sent, wr.m) \in Seq(Msgs)
    BY MsgFacts, AppendAdds, Zenon DEF OutTypes, At, WritePts
  <2> QED BY <1>8, <2>1, Zenon DEF WriteOK, OutTypes, writerFrame, reader
<1>9. CASE WriteFail \/ WriterEnds
  <2>1. At("done") \in [at : WritePts, m : Msgs]
    BY MsgFacts, Zenon DEF At, WritePts
  <2> QED BY <1>9, <2>1, Zenon DEF WriteFail, WriterEnds, OutTypes, writerFrame, reader
<1>10. CASE ReadPing
  <2>1. outCh' \in Seq(Msgs)
    BY <1>10, TextSent, Zenon DEF ReadPing, OutTypes
  <2> QED BY <1>10, <2>1, Zenon DEF ReadPing, OutTypes, browserFrame, reader, writer
<1>11. CASE FinalClose
  <2>1. close.msg # "none" => Append(sent, Text(close.msg)) \in Seq(Msgs)
    BY MsgFacts, AppendAdds, Zenon DEF OutTypes, EndInv
  <2>2. sent' \in Seq(Msgs)
    BY <1>11, <2>1, Zenon DEF FinalClose, OutTypes
  <2> QED BY <1>11, <2>2, Zenon DEF FinalClose, OutTypes, mainFrame, reader
<1>12. CASE InputMoves \/ BrowserMoves \/ RestMoves
  BY <1>12, OutQuiet, Zenon DEF outVars, OutTypes
<1> QED BY <1>1, <1>2, <1>3, <1>4, <1>5, <1>6, <1>7, <1>8, <1>9, <1>10, <1>11, <1>12, Moves, Zenon
        DEF ReaderMoves, WriterMoves

(* Every step keeps the types of the input. *)
LEMMA InTypesStep ==
    ASSUME InTypes, BridgeNext
    PROVE  InTypes'
<1> DEFINE Stdins == [at : {"idle", "writing", "end"}, m : Msgs]
           Coalescers == [at : {"loop", "send", "end"}, m : Msgs]
           Browsers == [at : BrowserPts, m : Msgs]
<1>a. /\ At("idle") \in Stdins /\ At("end") \in Stdins
      /\ At("loop") \in Coalescers /\ At("end") \in Coalescers
      /\ At("loop").m.t = "nothing" /\ At("end").m.t = "nothing"
      /\ At("end") \in Browsers /\ NextRead \in Browsers
      /\ Holding("end", Text("left")) \in Browsers
      /\ \A n \in Nat : /\ Holding("loop", Resize(n)) \in Coalescers
                        /\ Holding("loop", Resize(n)).m.t = "resize"
                        /\ Holding("stdin", Key(n)) \in Browsers
                        /\ Holding("stdin", ReleaseCmd(n)) \in Browsers
                        /\ Holding("full", Resize(n)) \in Browsers
  BY MsgFacts, Zenon DEF At, Holding, NextRead, BrowserPts, Nothing, Resize
<1>b. /\ st \in Stdins /\ rz \in Coalescers /\ br \in Browsers /\ st.m \in Msgs /\ rz.m \in Msgs
      /\ br.m \in Msgs /\ br.m.n \in Nat
  BY Zenon DEF InTypes, Msgs
<1>1. CASE StdinTake
  <2>1. Tail(stdinCh) \in Seq(Msgs) /\ Head(stdinCh) \in Msgs
    BY <1>1, TailDrops, Zenon DEF StdinTake, InTypes
  <2>2. Holding("writing", Head(stdinCh)) \in Stdins
    BY <2>1, Zenon DEF Holding
  <2> QED BY <1>1, <2>1, <2>2, Zenon DEF StdinTake, InTypes, inputFrame, browser
<1>2. CASE StdinWrite
  <2>1. Append(applied, st.m) \in Seq(Msgs)
    BY <1>b, AppendAdds, Zenon DEF InTypes
  <2> QED BY <1>2, <2>1, <1>a, Zenon DEF StdinWrite, InTypes, inputFrame, browser
<1>3. CASE StdinFail \/ StdinEnds
  BY <1>3, <1>a, Zenon DEF StdinFail, StdinEnds, InTypes, inputFrame, browser
<1>4. CASE ResizeTake
  BY <1>4, <1>a, Zenon DEF ResizeTake, InTypes, inputFrame, browser, input
<1>5. CASE ResizeTick
  BY <1>5, Zenon DEF ResizeTick, InTypes, inputFrame, browser, input
<1>6. CASE ResizeSend
  <2>1. Append(stdinCh, rz.m) \in Seq(Msgs)
    BY <1>b, AppendAdds, Zenon DEF InTypes
  <2> QED BY <1>6, <2>1, <1>a, Zenon DEF ResizeSend, InTypes, inputFrame, browser, input
<1>7. CASE ResizeEnds
  BY <1>7, <1>a, Zenon DEF ResizeEnds, InTypes, inputFrame, browser, input
<1>8. CASE ReadKey
  <2>1. keys' \in Nat /\ br' \in Browsers
    BY <1>8, <1>a DEF ReadKey, InTypes
  <2> QED BY <1>8, <2>1, Zenon DEF ReadKey, InTypes, browserFrame, input
<1>9. CASE SendKey
  <2>1. Append(stdinCh, br.m) \in Seq(Msgs)
    BY <1>b, AppendAdds, Zenon DEF InTypes
  <2> QED BY <1>9, <2>1, <1>a, Zenon DEF SendKey, InTypes, browserFrame, input
<1>10. CASE ReadTooLarge \/ ReadError
  BY <1>10, <1>a DEF ReadTooLarge, ReadError, InTypes, browserFrame, input
<1>11. CASE ReadResize
  <2>1. resizes' \in Nat /\ br' \in Browsers /\ resizeCh' \in Nat
    BY <1>11, <1>a DEF ReadResize, InTypes
  <2> QED BY <1>11, <2>1, Zenon DEF ReadResize, InTypes, browserFrame, input
<1>12. CASE PushEmpty
  BY <1>12, Zenon DEF PushEmpty, InTypes, browserFrame, input, BrowserPts
<1>13. CASE PushPut
  BY <1>13, <1>a, <1>b, Zenon DEF PushPut, InTypes, browserFrame, input
<1>14. CASE ReadPing
  BY <1>14, <1>a, Zenon DEF ReadPing, InTypes, browserFrame, input
<1>15. CASE ReaderMoves \/ WriterMoves \/ FinalClose \/ RestMoves
  BY <1>15, InQuiet, Zenon DEF inVars, InTypes
<1> QED BY <1>1, <1>2, <1>3, <1>4, <1>5, <1>6, <1>7, <1>8, <1>9, <1>10, <1>11, <1>12, <1>13,
           <1>14, <1>15, Moves, Zenon DEF InputMoves, BrowserMoves

(* setClose leaves a reason, the first one. *)
LEMMA ClosedOnce ==
    ASSUME EndInv, NEW why \in Whys \ {""}, NEW msg \in {"none", "closed", "conflict"},
           SetClose(why, msg)
    PROVE  /\ close' \in [set : BOOLEAN, why : Whys, msg : {"none", "closed", "conflict"}]
           /\ close'.set
           /\ close' = close \/ (~close.set /\ close'.why = why /\ close'.msg = msg)
BY Zenon DEF EndInv, SetClose

(* The session ends with a reason, this one if it is the first. *)
EndWith(why) ==
    /\ close' \in [set : BOOLEAN, why : Whys, msg : {"none", "closed", "conflict"}]
    /\ close'.set
    /\ close' = close \/ (~close.set /\ close'.why = why)

(* Every step keeps EndInv; a controller's reason is recorded from "scan" only, and
   never over another. *)
LEMMA EndStep ==
    ASSUME OutTypes, EndInv, BridgeNext
    PROVE  EndInv' /\ (close'.why \in Endgame => close' = close \/ rd.at = "scan")
                   /\ (close' = close \/ ~close.set)
<1> DEFINE G == EndInv' /\ (close'.why \in Endgame => close' = close \/ rd.at = "scan")
                        /\ (close' = close \/ ~close.set)
<1>a. ASSUME NEW why \in Whys \ {""}, NEW msg \in {"none", "closed", "conflict"}, Quit(why, msg)
      PROVE  EndWith(why) /\ done' = TRUE /\ UNCHANGED <<main, base, sock>>
  BY <1>a, ClosedOnce, Zenon DEF Quit, CancelRun, EndWith
(* A goroutine other than the reader quits. *)
<1>b. ASSUME NEW why \in Whys \ ({""} \cup Endgame), EndWith(why), done' = TRUE, UNCHANGED <<main, base, failed, sock>>,
             wr' = wr, rd'.at \in {rd.at, "end"}
      PROVE  G
  BY <1>b, Zenon DEF EndInv, EndWith, OutTypes, Endgame
<1>c. ASSUME UNCHANGED <<done, main, base, failed, close, sock, wr>>, rd.at = "end" => rd'.at = "end"
      PROVE  G
  BY <1>c, Zenon DEF EndInv
<1>1. ASSUME NEW n \in Seqs, ReadFrame(n) PROVE G
  <2>a. rd.at = "scan" /\ UNCHANGED <<failed, wr>>
    BY <1>1, Zenon DEF ReadFrame, readerFrame, writer
  <2>1. CASE Quit("policy", "closed") /\ rd' = At("end")
    <3>1. EndWith("policy") /\ done' = TRUE /\ UNCHANGED <<main, base, sock>> /\ rd'.at = "end"
      BY <2>1, <1>a, Zenon DEF At, Whys
    <3> QED BY <3>1, <2>a, <1>b, Zenon DEF Whys, Endgame
  <2>2. CASE UNCHANGED life
    BY <2>2, <2>a, <1>c, Zenon DEF life
  <2> QED BY <1>1, <2>1, <2>2, Zenon DEF ReadFrame
<1>2. CASE Offer
  <2> UNCHANGED <<failed, wr>> /\ rd.at # "end"
    BY <1>2, Zenon DEF Offer, readerFrame, writer
  <2> QED BY <1>2, <1>c, Zenon DEF Offer, life
<1>3. CASE OfferFull
  <2> UNCHANGED <<failed, wr>> /\ rd.at # "end"
    BY <1>3, Zenon DEF OfferFull, readerFrame, writer
  <2> QED BY <1>3, <1>c, Zenon DEF OfferFull, life
<1>4. CASE OfferCancelled
  <2> UNCHANGED <<failed, wr>> /\ rd'.at = "end" /\ done /\ done' = TRUE
    BY <1>4, Zenon DEF OfferCancelled, readerFrame, writer, At, Return, CancelRun
  <2> QED BY <1>4, Zenon DEF OfferCancelled, Return, CancelRun, EndInv
<1>5. CASE OfferTimeout
  <2>1. UNCHANGED <<failed, wr>> /\ rd'.at = "end"
    BY <1>5, Zenon DEF OfferTimeout, readerFrame, writer, At
  <2>2. EndWith("slow") /\ done' = TRUE /\ UNCHANGED <<main, base, sock>>
    BY <1>5, <1>a, Zenon DEF OfferTimeout, Whys
  <2> QED BY <2>1, <2>2, <1>b, Zenon DEF Whys, Endgame
<1>6. ASSUME NEW why \in Endgame, EndWith(why), done' = TRUE, UNCHANGED <<main, base, sock, failed, wr>>,
             rd.at = "scan", rd'.at = "end"
      PROVE  G
  BY <1>6, Zenon DEF EndInv, EndWith, Endgame
<1>7. ASSUME NEW msg \in {"conflict", "closed"}, ReadClosed(msg) PROVE G
  <2>1. UNCHANGED <<failed, wr>> /\ rd'.at = "end" /\ rd.at = "scan"
    BY <1>7, Zenon DEF ReadClosed, readerFrame, writer, Holding
  <2>2. EndWith(msg) /\ done' = TRUE /\ UNCHANGED <<main, base, sock>>
    BY <1>7, <1>a, Zenon DEF ReadClosed, Whys
  <2> QED BY <2>1, <2>2, <1>6, Zenon DEF Endgame
<1>8. CASE ReadEOF
  <2>1. UNCHANGED <<failed, wr>> /\ rd'.at = "end" /\ rd.at = "scan"
    BY <1>8, Zenon DEF ReadEOF, readerFrame, writer, At
  <2>2. EndWith("ended") /\ done' = TRUE /\ UNCHANGED <<main, base, sock>>
    BY <1>8, <1>a, Zenon DEF ReadEOF, Whys
  <2> QED BY <2>1, <2>2, <1>6, Zenon DEF Endgame
<1>9. CASE TakeOut \/ WriteOK \/ Register
  <2> /\ UNCHANGED <<failed, rd, done, main, base, close, sock>>
      /\ wr.at # "done" /\ wr'.at # "done"
    BY <1>9 DEF TakeOut, WriteOK, Register, writerFrame, reader, life, Holding, At, OutTypes
  <2> QED BY Zenon DEF EndInv
<1>10. CASE WriterEnds
  <2> /\ UNCHANGED <<failed, rd, done, main, base, close, sock>>
      /\ wr.at # "done" /\ wr'.at = "done" /\ done
    BY <1>10, Zenon DEF WriterEnds, writerFrame, reader, life, At
  <2> QED BY Zenon DEF EndInv
<1>11. CASE WriteFail
  <2> /\ UNCHANGED <<rd, main, base, close>> /\ failed' = TRUE /\ sock' = "closed" /\ done' = TRUE
      /\ wr.at # "done" /\ wr'.at = "done"
    BY <1>11, Zenon DEF WriteFail, writerFrame, reader, At
  <2> QED BY Zenon DEF EndInv
<1>12. CASE StdinFail
  <2>1. UNCHANGED <<failed, wr, rd>>
    BY <1>12, Zenon DEF StdinFail, inputFrame, writer, reader
  <2>2. EndWith("stdin") /\ done' = TRUE /\ UNCHANGED <<main, base, sock>>
    BY <1>12, <1>a, Zenon DEF StdinFail, Whys
  <2> QED BY <2>1, <2>2, <1>b, Zenon DEF Whys, Endgame
<1>13. CASE StdinTake \/ StdinWrite \/ StdinEnds \/ ResizeTake \/ ResizeTick \/ ResizeSend \/ ResizeEnds
  BY <1>13, <1>c, Zenon DEF StdinTake, StdinWrite, StdinEnds, ResizeTake, ResizeTick, ResizeSend, ResizeEnds,
     inputFrame, writer, reader, life
<1>14. CASE ReadKey \/ SendKey \/ ReadResize \/ PushEmpty \/ PushPut \/ ReadPing
  BY <1>14, <1>c, Zenon DEF ReadKey, SendKey, ReadResize, PushEmpty, PushPut, ReadPing, browserFrame, writer, reader, life
<1>15. CASE ReadTooLarge
  <2>1. UNCHANGED <<failed, wr, rd>>
    BY <1>15, Zenon DEF ReadTooLarge, browserFrame, writer, reader
  <2>2. EndWith("policy") /\ done' = TRUE /\ UNCHANGED <<main, base, sock>>
    BY <1>15, <1>a, Zenon DEF ReadTooLarge, Whys
  <2> QED BY <2>1, <2>2, <1>b, Zenon DEF Whys, Endgame
<1>16. CASE ReadError
  <2>1. UNCHANGED <<failed, wr, rd, main, base>> /\ done' = TRUE /\ sock' = "closed"
    BY <1>16, Zenon DEF ReadError, browserFrame, writer, reader
  <2>2. EndWith("client")
    BY <1>16, ClosedOnce, Zenon DEF ReadError, Whys, EndWith
  <2> QED BY <2>1, <2>2, Zenon DEF EndInv, EndWith, Endgame
<1>17. CASE PingFail
  <2>1. UNCHANGED <<failed, wr, rd>>
    BY <1>17, Zenon DEF PingFail, pingFrame, writer, reader
  <2>2. EndWith("ping") /\ done' = TRUE /\ UNCHANGED <<main, base, sock>>
    BY <1>17, <1>a, Zenon DEF PingFail, Whys
  <2> QED BY <2>1, <2>2, <1>b, Zenon DEF Whys, Endgame
<1>18. CASE PingTick \/ PingOK \/ PingEnds \/ CtrlExit \/ Vanish \/ Over
  BY <1>18, <1>c, Zenon DEF PingTick, PingOK, PingEnds, CtrlExit, Vanish, Over, bridgeVars, pingFrame, writer, reader, life
<1>19. CASE Terminate \/ Abort
  <2> UNCHANGED <<failed, wr, rd, done, base, close, sock>> /\ main' \notin OverPts
    BY <1>19, Zenon DEF Terminate, Abort, mainFrame, reader, OverPts
  <2> QED BY Zenon DEF EndInv
<1>20. CASE FinalClose
  <2> UNCHANGED <<failed, wr, rd, done, base, close>> /\ wr.at = "done" /\ sock' = "closed"
    BY <1>20, Zenon DEF FinalClose, mainFrame, reader
  <2> QED BY Zenon DEF EndInv
<1>21. CASE Join \/ ReapController
  <2> UNCHANGED <<failed, wr, rd, done, base, close, sock>> /\ main \in OverPts
    BY <1>21, Zenon DEF Join, ReapController, mainFrame, reader, OverPts
  <2> QED BY Zenon DEF EndInv
<1>22. CASE ServerCloses
  <2> UNCHANGED <<failed, wr, rd, main, close>> /\ done' = TRUE /\ base' = FALSE /\ sock' = "closed"
    BY <1>22, Zenon DEF ServerCloses, mainFrame, reader
  <2> QED BY Zenon DEF EndInv
<1> QED BY <1>1, <1>2, <1>3, <1>4, <1>5, <1>7, <1>8, <1>9, <1>10, <1>11, <1>12, <1>13, <1>14, <1>15,
           <1>16, <1>17, <1>18, <1>19, <1>20, <1>21, <1>22, Zenon DEF BridgeNext

(* The numbers of the messages of s whose kind is in T; of one message; and that
   they rise along s. *)
Nums(T, s) == {x \in Nat : \E i \in DOMAIN s : s[i].t \in T /\ s[i].n = x}
NumOf(T, e) == IF e.t \in T THEN {e.n} ELSE {}
Rising(T, s) == \A i, j \in DOMAIN s : i < j /\ s[i].t \in T /\ s[j].t \in T => s[i].n < s[j].n
AllBelow(X, Y) == \A x \in X, y \in Y : x < y

(* A send adds the number of its message to those of the queue. *)
LEMMA NumsAdded ==
    ASSUME NEW T, NEW s \in Seq(Msgs), NEW t, NEW e \in Msgs, Added(s, t, e)
    PROVE  /\ Nums(T, t) = Nums(T, s) \cup NumOf(T, e)
           /\ Rising(T, s) /\ AllBelow(Nums(T, s), NumOf(T, e)) => Rising(T, t)
<1>a. PICK k \in Nat : /\ DOMAIN t = DOMAIN s \cup {k} /\ k \notin DOMAIN s /\ t[k] = e
                       /\ \A i \in DOMAIN s : i \in Nat /\ i < k /\ t[i] = s[i]
  BY Zenon DEF Added
<1>c. \A i \in DOMAIN s : s[i] \in Msgs
  OBVIOUS
<1>b. e.n \in Nat /\ \A i \in DOMAIN s : s[i].n \in Nat
  BY <1>c, Zenon DEF Msgs
<1>1. \A x \in Nums(T, t) : x \in Nums(T, s) \cup NumOf(T, e)
  BY <1>a, <1>b, Zenon DEF Nums, NumOf
<1>2. \A x \in Nums(T, s) \cup NumOf(T, e) : x \in Nums(T, t)
  BY <1>a, <1>b, Zenon DEF Nums, NumOf
<1>3. ASSUME Rising(T, s), AllBelow(Nums(T, s), NumOf(T, e))
      PROVE  Rising(T, t)
  <2>1. \A i \in DOMAIN s : s[i].t \in T /\ e.t \in T => s[i].n < e.n
    BY <1>3, <1>b, Zenon DEF Nums, NumOf, AllBelow
  <2>2. \A i, j \in DOMAIN s : i < j /\ s[i].t \in T /\ s[j].t \in T => s[i].n < s[j].n
    BY <1>3, Zenon DEF Rising
  <2>3. \A j \in DOMAIN t : ~(k < j)
    BY <1>a
  <2> QED BY <2>1, <2>2, <2>3, <1>a, Zenon DEF Rising
<1> QED BY <1>1, <1>2, <1>3, Zenon

(* A receive takes the number of the first message, the smallest. *)
LEMMA NumsDropped ==
    ASSUME NEW T, NEW s \in Seq(Msgs), NEW t, Dropped(s, t)
    PROVE  /\ Nums(T, s) = NumOf(T, Head(s)) \cup Nums(T, t)
           /\ Rising(T, s) => Rising(T, t) /\ AllBelow(NumOf(T, Head(s)), Nums(T, t))
<1>a. /\ 1 \in DOMAIN s /\ Head(s) = s[1]
      /\ \A i \in DOMAIN t : i \in Nat /\ i + 1 \in DOMAIN s /\ t[i] = s[i + 1] /\ 1 < i + 1
      /\ \A i \in DOMAIN s : i \in Nat /\ (i = 1 \/ (i - 1 \in DOMAIN t /\ t[i - 1] = s[i]))
  BY Zenon DEF Dropped
<1>c. \A i \in DOMAIN s : s[i] \in Msgs
  OBVIOUS
<1>b. \A i \in DOMAIN s : s[i].n \in Nat
  BY <1>c, Zenon DEF Msgs
<1>1. \A x \in Nums(T, s) : x \in NumOf(T, Head(s)) \cup Nums(T, t)
  <2> SUFFICES ASSUME NEW x \in Nat, NEW i \in DOMAIN s, s[i].t \in T, s[i].n = x
               PROVE  x \in NumOf(T, Head(s)) \cup Nums(T, t)
    BY Zenon DEF Nums
  <2>1. CASE i = 1
    BY <2>1, <1>a, Zenon DEF NumOf
  <2>2. CASE i - 1 \in DOMAIN t /\ t[i - 1] = s[i]
    BY <2>2, Zenon DEF Nums
  <2> QED BY <2>1, <2>2, <1>a, Zenon
<1>2. \A x \in NumOf(T, Head(s)) \cup Nums(T, t) : x \in Nums(T, s)
  BY <1>a, <1>b DEF Nums, NumOf
<1>3. ASSUME Rising(T, s)
      PROVE  Rising(T, t) /\ AllBelow(NumOf(T, Head(s)), Nums(T, t))
  <2>1. \A i, j \in DOMAIN t : i < j => i + 1 < j + 1
    BY <1>a
  <2>2. Rising(T, t)
    BY <2>1, <1>a, <1>3, Zenon DEF Rising
  <2>3. AllBelow(NumOf(T, Head(s)), Nums(T, t))
    BY <1>a, <1>3 DEF Rising, NumOf, Nums, AllBelow
  <2> QED BY <2>2, <2>3, Zenon
<1> QED BY <1>1, <1>2, <1>3, Zenon

(* A line of three stations, what has passed, what is in hand and what waits, in
   order; bounded by what comes after. *)
InLine(T, s, H, q) ==
    /\ Rising(T, s) /\ Rising(T, q)
    /\ AllBelow(Nums(T, s), H) /\ AllBelow(Nums(T, s), Nums(T, q)) /\ AllBelow(H, Nums(T, q))

(* The numbers anywhere on the line. *)
Carried(T, s, H, q) == Nums(T, s) \cup H \cup Nums(T, q)

(* A send of a number above all others keeps the line in order. *)
LEMMA LinePut ==
    ASSUME NEW T, NEW s, NEW H, NEW q \in Seq(Msgs), NEW r, NEW e \in Msgs, Added(q, r, e),
           InLine(T, s, H, q), AllBelow(Carried(T, s, H, q), NumOf(T, e))
    PROVE  InLine(T, s, H, r) /\ Carried(T, s, H, r) = Carried(T, s, H, q) \cup NumOf(T, e)
<1>1. Nums(T, r) = Nums(T, q) \cup NumOf(T, e) /\ Rising(T, r)
  <2>1. Rising(T, q) /\ AllBelow(Nums(T, q), NumOf(T, e))
    BY Zenon DEF InLine, AllBelow, Carried
  <2> QED BY <2>1, NumsAdded, Zenon
<1> QED BY <1>1, Zenon DEF InLine, AllBelow, Carried

(* A receive moves the first number from the queue to the hand. *)
LEMMA LineTake ==
    ASSUME NEW T, NEW s, NEW q \in Seq(Msgs), NEW r, Dropped(q, r), InLine(T, s, {}, q)
    PROVE  /\ InLine(T, s, NumOf(T, Head(q)), r)
           /\ Carried(T, s, NumOf(T, Head(q)), r) = Carried(T, s, {}, q)
<1>1. /\ Nums(T, q) = NumOf(T, Head(q)) \cup Nums(T, r)
      /\ Rising(T, r) /\ AllBelow(NumOf(T, Head(q)), Nums(T, r))
  BY NumsDropped DEF InLine
<1> QED BY <1>1, Zenon DEF InLine, AllBelow, Carried

(* A message of another kind changes nothing. *)
LEMMA LineSkip ==
    ASSUME NEW T, NEW s \in Seq(Msgs), NEW t, NEW e \in Msgs, Added(s, t, e), e.t \notin T,
           Rising(T, s)
    PROVE  Nums(T, t) = Nums(T, s) /\ Rising(T, t)
<1>1. NumOf(T, e) = {}
  BY Zenon DEF NumOf
<1>2. AllBelow(Nums(T, s), NumOf(T, e))
  BY <1>1, Zenon DEF AllBelow
<1>3. Nums(T, t) = Nums(T, s) \cup NumOf(T, e) /\ Rising(T, t)
  BY <1>2, NumsAdded, Zenon
<1> QED BY <1>1, <1>3, Zenon

(* The frames: the numbers accepted, in the writer's hand, on their way, and the one that
   the reader holds or gave up (handleFrame, enqueue, writeLoop). *)
Fr == {"frame"}
Acc == {accepted[k] : k \in DOMAIN accepted}
InWriter == IF wr.at \in {"made", "writing"} THEN NumOf(Fr, wr.m) ELSE {}
Flow == Carried(Fr, sent, InWriter, outCh)
Offering == rd.at \in {"offer", "wait"}
Leftover == IF Offering \/ (rd.at = "end" /\ close.why \notin Endgame) THEN {lastSeq} ELSE {}

(* Accepted frames rise, those on their way are in order and the reader's is newer than
   all of them; what was sent has no gap. *)
FrameInv ==
    /\ \A i, j \in DOMAIN accepted : i < j => accepted[i] < accepted[j]
    /\ \A d \in Acc : d \in Nat /\ d <= lastSeq
    /\ InLine(Fr, sent, InWriter, outCh)
    /\ Flow \subseteq Acc
    /\ Offering => rd.m = Frame(lastSeq) /\ lastSeq \in Acc /\ AllBelow(Flow, {lastSeq})
    /\ \A x \in Nums(Fr, sent), d \in Acc : d < x => d \in Nums(Fr, sent)

(* No accepted frame is lost while the writer lives, but for the one the reader could not
   queue; and once the writer drained the queue after a reason of the controller, all
   were sent (drainOut). *)
CoverInv ==
    /\ wr.at # "done" => Acc \subseteq Flow \cup Leftover
    /\ wr.at = "done" /\ base /\ ~failed /\ close.why \in Endgame => Acc \subseteq Nums(Fr, sent)

(* t has the numbers of s, in order if s has. *)
SameNums(T, s, t) == Nums(T, t) = Nums(T, s) /\ (Rising(T, s) => Rising(T, t))

(* A step that moves no frame, or loses the writer's, keeps FrameInv. *)
LEMMA FlowKept ==
    ASSUME OutTypes, FrameInv, SameNums(Fr, sent, sent'), SameNums(Fr, outCh, outCh'),
           InWriter' \in {InWriter, {}}, accepted' = accepted, lastSeq' \in Int, lastSeq' >= lastSeq,
           Offering' => Offering /\ rd'.m = rd.m /\ lastSeq' = lastSeq
    PROVE  FrameInv'
<1>1. Acc' = Acc
  BY Zenon DEF Acc
<1>2. InLine(Fr, sent', InWriter', outCh') /\ Flow' \subseteq Flow
  BY Zenon DEF FrameInv, InLine, SameNums, AllBelow, Flow, Carried
<1>3. \A d \in Acc : d \in Nat /\ d <= lastSeq'
  BY DEF FrameInv, OutTypes
<1>4. Offering' => rd'.m = Frame(lastSeq') /\ lastSeq' \in Acc /\ AllBelow(Flow', {lastSeq'})
  BY <1>2, Zenon DEF FrameInv, AllBelow
<1>5. \A x \in Nums(Fr, sent'), d \in Acc : d < x => d \in Nums(Fr, sent')
  BY Zenon DEF FrameInv, SameNums
<1>6. Flow' \subseteq Acc
  BY <1>2, Zenon DEF FrameInv
<1>7. \A i, j \in DOMAIN accepted' : i < j => accepted'[i] < accepted'[j]
  BY Zenon DEF FrameInv
<1> QED BY <1>1, <1>2, <1>3, <1>4, <1>5, <1>6, <1>7, Zenon DEF FrameInv

(* A step that moves no frame keeps CoverInv. *)
LEMMA CoverKept ==
    ASSUME EndInv, EndInv', CoverInv, close'.why \in Endgame => close' = close \/ rd.at = "scan",
           close' = close \/ ~close.set,
           base' => base, failed => failed', accepted' = accepted,
           Nums(Fr, sent') = Nums(Fr, sent), Nums(Fr, outCh') = Nums(Fr, outCh), InWriter' = InWriter,
           wr'.at = "done" <=> wr.at = "done",
           \/ lastSeq' = lastSeq /\ (rd'.at = rd.at \/ (Offering /\ Offering'))
           \/ rd.at = "scan" /\ rd'.at \in {"scan", "end"}
           \/ Offering /\ rd'.at = "end" /\ lastSeq' = lastSeq
    PROVE  CoverInv'
<1>1. Acc' = Acc /\ Flow' = Flow
  BY Zenon DEF Acc, Flow, Carried
<1>2. rd.at # "scan" /\ close'.why \in Endgame => close' = close
  BY Zenon
<1>3. wr.at # "done" /\ Acc \subseteq Flow \cup Leftover => Acc \subseteq Flow \cup Leftover'
  <2>1. CASE lastSeq' = lastSeq /\ rd'.at = rd.at
    <3>1. rd.at = "end" /\ close.why \notin Endgame => close'.why \notin Endgame
      BY <2>1, <1>2, Zenon
    <3> QED BY <2>1, <3>1, Zenon DEF Leftover, Offering
  <2>2. CASE lastSeq' = lastSeq /\ Offering /\ Offering'
    BY <2>2, Zenon DEF Leftover, Offering
  <2>3. CASE rd.at = "scan"
    BY <2>3, Zenon DEF Leftover, Offering
  <2>4. CASE Offering /\ rd'.at = "end" /\ lastSeq' = lastSeq
    <3>1. close.why \notin Endgame /\ rd.at # "scan"
      BY <2>4, Zenon DEF EndInv, Offering
    <3>2. close'.why \notin Endgame
      BY <3>1, <1>2, Zenon
    <3> QED BY <2>4, <3>2, Zenon DEF Leftover, Offering
  <2> QED BY <2>1, <2>2, <2>3, <2>4, Zenon
<1>4. ASSUME wr'.at = "done", base', ~failed', close'.why \in Endgame
      PROVE  base /\ ~failed /\ close.why \in Endgame
  <2>1. base /\ ~failed /\ done
    BY <1>4, Zenon DEF EndInv
  <2>2. close.set /\ close' = close
    BY <2>1, Zenon DEF EndInv
  <2> QED BY <2>1, <2>2, <1>4, Zenon
<1> QED BY <1>1, <1>3, <1>4, Zenon DEF CoverInv

(* Nothing that ended comes back: the server, the socket, a failed write, the teardown. *)
LEMMA Onward ==
    ASSUME EndInv, BridgeNext
    PROVE  /\ (base' => base) /\ (failed => failed')
           /\ (main \in OverPts => main' \in OverPts) /\ (sock' = "open" => sock = "open")
           /\ (done => done')
<1> DEFINE G == /\ (base' => base) /\ (failed => failed')
                /\ (main \in OverPts => main' \in OverPts) /\ (sock' = "open" => sock = "open")
                /\ (done => done')
<1>z. done' = done \/ done' = TRUE => (done => done')
  BY Zenon
<1>a. (/\ UNCHANGED <<base, failed, main>>
       /\ (sock' = sock \/ sock' = "closed")
       /\ (done' = done \/ done' = TRUE)) => G
  BY <1>z
<1>1. CASE ReaderMoves
  BY <1>1, <1>a, Zenon DEF ReaderMoves, ReadFrame, Offer, OfferFull, OfferCancelled, OfferTimeout,
     ReadClosed, ReadEOF, readerFrame, writer, Quit, Return, CancelRun, life
<1>2. CASE WriteFail
  BY <1>2, Zenon DEF WriteFail
<1>3. CASE TakeOut \/ Register \/ WriteOK \/ WriterEnds
  BY <1>3, <1>a, Zenon DEF TakeOut, Register, WriteOK, WriterEnds, life
<1>4. CASE InputMoves
  BY <1>4, <1>a, Zenon DEF InputMoves, StdinTake, StdinWrite, StdinFail, StdinEnds, ResizeTake,
     ResizeTick, ResizeSend, ResizeEnds, inputFrame, writer, life, Quit, CancelRun
<1>5. CASE BrowserMoves \/ ReadPing
  BY <1>5, <1>a, Zenon DEF BrowserMoves, ReadKey, SendKey, ReadTooLarge, ReadError, ReadResize,
     PushEmpty, PushPut, ReadPing, browserFrame, writer, life, Quit, CancelRun
<1>6. CASE ServerCloses
  BY <1>6, Zenon DEF ServerCloses, mainFrame
<1>7. CASE PingTick \/ PingOK \/ PingFail \/ PingEnds \/ CtrlExit \/ Vanish \/ Over
  BY <1>7, <1>a, Zenon DEF PingTick, PingOK, PingFail, PingEnds, CtrlExit, Vanish, Over, bridgeVars,
     pingFrame, writer, life, Quit, CancelRun
<1>8. CASE Terminate \/ Abort \/ Join \/ ReapController
  BY <1>8 DEF Terminate, Abort, Join, ReapController, mainFrame, OverPts
<1>9. CASE FinalClose
  BY <1>9, Zenon DEF FinalClose, mainFrame, OverPts
<1> QED BY <1>1, <1>2, <1>3, <1>4, <1>5, <1>6, <1>7, <1>8, <1>9, Moves, Zenon DEF RestMoves, WriterMoves

(* A queue has its own numbers. *)
LEMMA SameIsSame ==
    ASSUME NEW T, NEW s \in Seq(Msgs)
    PROVE  SameNums(T, s, s)
BY Zenon DEF SameNums

(* A text is not a frame. *)
LEMMA TextIsSame ==
    ASSUME NEW s \in Seq(Msgs), NEW t, NEW k, Text(k) \in Msgs, k # "frame",
           t = s \/ Added(s, t, Text(k))
    PROVE  SameNums(Fr, s, t)
<1>1. CASE t = s
  BY <1>1, Zenon DEF SameNums
<1>2. CASE Added(s, t, Text(k))
  <2>1. Text(k).t \notin Fr /\ NumOf(Fr, Text(k)) = {}
    BY Zenon DEF Text, Fr, NumOf
  <2>a. Nums(Fr, t) = Nums(Fr, s) \cup NumOf(Fr, Text(k))
    BY <1>2, NumsAdded, Zenon
  <2>2. Nums(Fr, t) = Nums(Fr, s)
    BY <2>1, <2>a, Zenon
  <2>3. Rising(Fr, s) => Rising(Fr, t)
    BY <1>2, <2>1, LineSkip, Zenon
  <2> QED BY <2>2, <2>3, Zenon DEF SameNums
<1> QED BY <1>1, <1>2, Zenon

(* handleFrame accepts a frame. *)
LEMMA FrameRead ==
    ASSUME OutTypes, FrameInv, CoverInv, NEW n \in Nat, Monotonic(n), rd.at = "scan",
           rd' = Holding("offer", Frame(n)), accepted' = Append(accepted, n), lastSeq' = n,
           SameNums(Fr, outCh, outCh'), UNCHANGED <<wr, sent, close, base, failed>>, EndInv
    PROVE  FrameInv' /\ CoverInv'
<1>a. PICK k \in Nat : /\ DOMAIN accepted' = DOMAIN accepted \cup {k} /\ k \notin DOMAIN accepted
                       /\ accepted'[k] = n
                       /\ \A i \in DOMAIN accepted : i \in Nat /\ i < k /\ accepted'[i] = accepted[i]
  <2>1. accepted \in Seq(Nat)
    BY Zenon DEF OutTypes
  <2>2. Added(accepted, Append(accepted, n), n)
    BY <2>1, AppendAdds, Zenon
  <2> QED BY <2>2, Zenon DEF Added
<1>b. \A d \in Acc : d \in Nat /\ d < n
  BY DEF FrameInv, Monotonic, OutTypes
<1>c. Acc' = Acc \cup {n}
  BY <1>a DEF Acc
<1>d. Offering' /\ ~Offering /\ InWriter' = InWriter /\ rd'.m = Frame(n) /\ rd'.at = "offer"
  BY Zenon DEF Offering, InWriter, Holding
<1>e. InLine(Fr, sent', InWriter', outCh') /\ Flow' = Flow
  BY <1>d, Zenon DEF FrameInv, InLine, SameNums, Flow, Carried
<1>1. \A i, j \in DOMAIN accepted' : i < j => accepted'[i] < accepted'[j]
  <2>1. \A i \in DOMAIN accepted : accepted[i] < n
    BY <1>b, Zenon DEF Acc
  <2>2. \A j \in DOMAIN accepted' : ~(k < j)
    BY <1>a
  <2> QED BY <1>a, <2>1, <2>2, Zenon DEF FrameInv
<1>2. \A d \in Acc' : d \in Nat /\ d <= lastSeq'
  BY <1>b, <1>c
<1>3. Flow' \subseteq Acc' /\ lastSeq' \in Acc' /\ AllBelow(Flow', {lastSeq'})
  BY <1>b, <1>c, <1>e, Zenon DEF FrameInv, AllBelow
<1>4. \A x \in Nums(Fr, sent'), d \in Acc' : d < x => d \in Nums(Fr, sent')
  <2>1. \A x \in Nums(Fr, sent) : x \in Nat /\ x < n
    BY <1>b, Zenon DEF FrameInv, Flow, Carried
  <2> QED BY <2>1, <1>c DEF FrameInv
<1>5. Leftover = {} /\ Leftover' = {n}
  BY <1>d, Zenon DEF Leftover, Offering
<1>6. wr'.at # "done" => Acc' \subseteq Flow' \cup Leftover'
  BY <1>c, <1>e, <1>5, Zenon DEF CoverInv
<1>7. close'.why \notin Endgame
  BY Zenon DEF EndInv
<1> QED BY <1>d, <1>e, <1>1, <1>2, <1>3, <1>4, <1>6, <1>7, Zenon DEF FrameInv, CoverInv

(* enqueue finds a place. *)
LEMMA FrameOffered ==
    ASSUME OutTypes, FrameInv, CoverInv, Offering, Added(outCh, outCh', rd.m), rd' = At("scan"),
           UNCHANGED <<accepted, lastSeq, wr, sent, close, base, failed>>, EndInv
    PROVE  FrameInv' /\ CoverInv'
<1>a. rd.m \in Msgs /\ outCh \in Seq(Msgs)
  BY Zenon DEF OutTypes
<1>b. NumOf(Fr, rd.m) = {lastSeq} /\ lastSeq \in Acc /\ AllBelow(Flow, {lastSeq})
  BY DEF FrameInv, Frame, NumOf, Fr
<1>c. InLine(Fr, sent, InWriter, outCh') /\ Carried(Fr, sent, InWriter, outCh') = Flow \cup {lastSeq}
  <2>1. InLine(Fr, sent, InWriter, outCh)
    BY Zenon DEF FrameInv
  <2>2. AllBelow(Carried(Fr, sent, InWriter, outCh), NumOf(Fr, rd.m))
    BY <1>b, Zenon DEF Flow
  <2>3. /\ InLine(Fr, sent, InWriter, outCh')
        /\ Carried(Fr, sent, InWriter, outCh') = Carried(Fr, sent, InWriter, outCh) \cup NumOf(Fr, rd.m)
    BY <1>a, <2>1, <2>2, LinePut
  <2> QED BY <2>3, <1>b, Zenon DEF Flow
<1>d. InWriter' = InWriter /\ Acc' = Acc /\ Flow' = Flow \cup {lastSeq} /\ ~Offering' /\ Leftover = {lastSeq}
  BY <1>c, Zenon DEF InWriter, Acc, Flow, Offering, At, Leftover
<1>1. FrameInv'
  BY <1>b, <1>c, <1>d, Zenon DEF FrameInv
<1>2. CoverInv'
  <2>1. close'.why \notin Endgame
    BY Zenon DEF EndInv, Offering
  <2> QED BY <2>1, <1>d, Zenon DEF CoverInv
<1> QED BY <1>1, <1>2, Zenon

(* The writer takes a message. *)
LEMMA FrameTaken ==
    ASSUME OutTypes, FrameInv, CoverInv, wr.at = "idle", Dropped(outCh, outCh'),
           wr' = Holding("made", Head(outCh)),
           UNCHANGED <<accepted, lastSeq, rd, sent, close, base, failed>>
    PROVE  FrameInv' /\ CoverInv'
<1>a. outCh \in Seq(Msgs)
  BY Zenon DEF OutTypes
<1>b. InWriter = {} /\ InWriter' = NumOf(Fr, Head(outCh)) /\ wr'.at = "made"
  BY Zenon DEF InWriter, Holding
<1>c. InLine(Fr, sent, InWriter', outCh') /\ Carried(Fr, sent, InWriter', outCh') = Flow
  <2>1. InLine(Fr, sent, {}, outCh)
    BY <1>b, Zenon DEF FrameInv
  <2> QED BY <1>a, <1>b, <2>1, LineTake, Zenon DEF Flow
<1>d. Acc' = Acc /\ Flow' = Flow /\ (Offering' <=> Offering) /\ Leftover' = Leftover
  BY <1>c, Zenon DEF Acc, Flow, Offering, Leftover
<1>1. FrameInv'
  BY <1>c, <1>d, Zenon DEF FrameInv
<1>2. CoverInv'
  BY <1>b, <1>d, Zenon DEF CoverInv
<1> QED BY <1>1, <1>2, Zenon

(* A write completes. *)
LEMMA FrameWritten ==
    ASSUME OutTypes, FrameInv, CoverInv, wr.at = "writing", Added(sent, sent', wr.m),
           wr' = At("idle"), UNCHANGED <<accepted, lastSeq, rd, outCh, close, base, failed>>
    PROVE  FrameInv' /\ CoverInv'
<1>a. sent \in Seq(Msgs) /\ outCh \in Seq(Msgs) /\ wr.m \in Msgs /\ lastSeq \in Int
  BY Zenon DEF OutTypes
<1>b. InWriter = NumOf(Fr, wr.m) /\ InWriter' = {} /\ wr'.at = "idle"
  BY Zenon DEF InWriter, At
<1>c. /\ InLine(Fr, sent', {}, outCh) /\ Carried(Fr, sent', {}, outCh) = Flow
      /\ Nums(Fr, sent') = Nums(Fr, sent) \cup NumOf(Fr, wr.m)
  <2>1. InLine(Fr, sent, NumOf(Fr, wr.m), outCh)
    BY <1>b, Zenon DEF FrameInv
  <2>2. /\ InLine(Fr, sent', {}, outCh)
        /\ Carried(Fr, sent', {}, outCh) = Carried(Fr, sent, NumOf(Fr, wr.m), outCh)
        /\ Nums(Fr, sent') = Nums(Fr, sent) \cup NumOf(Fr, wr.m)
    <3>1. Nums(Fr, sent') = Nums(Fr, sent) \cup NumOf(Fr, wr.m)
      BY <1>a, NumsAdded
    <3>2. Rising(Fr, sent')
      BY <1>a, <2>1, NumsAdded, Zenon DEF InLine
    <3> QED BY <3>1, <3>2, <2>1, Zenon DEF InLine, AllBelow, Carried
  <2> QED BY <2>2, <1>b, Zenon DEF Flow
<1>d. Acc' = Acc /\ Flow' = Flow /\ (Offering' <=> Offering) /\ Leftover' = Leftover
  BY <1>b, <1>c, Zenon DEF Acc, Flow, Offering, Leftover
<1>e. \A x \in NumOf(Fr, wr.m), d \in Acc : d < x => d \in Nums(Fr, sent)
  <2> SUFFICES ASSUME NEW x \in NumOf(Fr, wr.m), NEW d \in Acc, d < x
               PROVE  d \in Nums(Fr, sent)
    BY Zenon
  <2>1. x \in Flow /\ x \in Acc /\ x \in Nat /\ d \in Nat /\ x <= lastSeq
    BY <1>b, Zenon DEF FrameInv, Flow, Carried
  <2>2. d \notin Nums(Fr, outCh)
    <3>1. AllBelow(NumOf(Fr, wr.m), Nums(Fr, outCh))
      BY <1>b, Zenon DEF FrameInv, InLine
    <3> QED BY <3>1, <2>1 DEF AllBelow
  <2>3. d # lastSeq
    BY <2>1, <1>a
  <2>4. d \in Flow
    BY <2>3, Zenon DEF CoverInv, Leftover
  <2>5. d \notin InWriter
    BY <1>b, <2>1 DEF NumOf
  <2> QED BY <2>2, <2>4, <2>5, Zenon DEF Flow, Carried
<1>f. \A x \in Nums(Fr, sent'), d \in Acc : d < x => d \in Nums(Fr, sent')
  BY <1>c, <1>e, Zenon DEF FrameInv
<1>1. FrameInv'
  BY <1>b, <1>c, <1>d, <1>f, Zenon DEF FrameInv
<1>2. CoverInv'
  BY <1>b, <1>d, Zenon DEF CoverInv
<1> QED BY <1>1, <1>2, Zenon

(* Every step keeps the frames in order and covered. *)
LEMMA FrameStep ==
    ASSUME OutTypes, EndInv, EndInv', FrameInv, CoverInv, BridgeNext
    PROVE  FrameInv' /\ CoverInv'
<1>a. (close'.why \in Endgame => close' = close \/ rd.at = "scan") /\ (close' = close \/ ~close.set)
  BY EndStep, Zenon
<1>b. (base' => base) /\ (failed => failed')
  BY Onward, Zenon
<1>c. SameNums(Fr, outCh, outCh) /\ SameNums(Fr, sent, sent) /\ lastSeq \in Int /\ lastSeq >= lastSeq
      /\ outCh \in Seq(Msgs) /\ sent \in Seq(Msgs)
  BY SameIsSame DEF OutTypes
<1>t. \A k \in {"resized", "pong", "closed", "conflict"} : k # "frame" /\ Text(k) \in Msgs
  BY MsgFacts, Zenon
<1>1. ASSUME NEW n \in Seqs, ReadFrame(n) PROVE FrameInv' /\ CoverInv'
  <2>a. n \in Nat /\ rd.at = "scan" /\ UNCHANGED <<wr, sent, failed>> /\ InWriter' = InWriter
    BY <1>1, BridgeAssumption, Zenon DEF ReadFrame, readerFrame, writer, InWriter
  <2>b. SameNums(Fr, outCh, outCh')
    <3>1. outCh' = outCh \/ SendText("resized")
      BY <1>1, Zenon DEF ReadFrame
    <3>2. outCh' = outCh \/ Added(outCh, outCh', Text("resized"))
      BY <3>1, <1>c, TextSent, Zenon
    <3> QED BY <3>2, <1>c, <1>t, TextIsSame, Zenon
  <2>1. CASE Monotonic(n) /\ lastSeq' = n /\ rd' = Holding("offer", Frame(n)) /\ accepted' = Append(accepted, n)
              /\ UNCHANGED life
    BY <2>1, <2>a, <2>b, FrameRead, Zenon DEF life
  <2>2. CASE /\ accepted' = accepted /\ (rd' = At("end") \/ rd' = rd)
             /\ lastSeq' = lastSeq \/ (Monotonic(n) /\ lastSeq' = n)
    <3>1. rd'.at \in {"scan", "end"} /\ ~Offering' /\ lastSeq' \in Int /\ lastSeq' >= lastSeq
      BY <2>2, <2>a DEF At, Offering, Monotonic, OutTypes
    <3>2. FrameInv'
      BY <3>1, <2>2, <2>a, <2>b, <1>c, FlowKept, Zenon
    <3>3. Nums(Fr, outCh') = Nums(Fr, outCh) /\ Nums(Fr, sent') = Nums(Fr, sent)
          /\ (wr'.at = "done" <=> wr.at = "done")
      BY <2>a, <2>b, Zenon DEF SameNums
    <3>4. CoverInv'
      BY <3>1, <3>3, <2>2, <2>a, <1>a, <1>b, CoverKept, Zenon
    <3> QED BY <3>2, <3>4, Zenon
  <2> QED BY <1>1, <2>1, <2>2, Zenon DEF ReadFrame
<1>2. CASE Offer
  <2>1. /\ Offering /\ rd' = At("scan") /\ UNCHANGED <<accepted, lastSeq, wr, sent, close, base, failed>>
        /\ outCh' = Append(outCh, rd.m) /\ rd.m \in Msgs
    BY <1>2, Zenon DEF Offer, readerFrame, writer, life, Offering, OutTypes
  <2>2. Added(outCh, outCh', rd.m)
    BY <2>1, <1>c, AppendAdds, Zenon
  <2> QED BY <2>1, <2>2, FrameOffered, Zenon
(* The steps that leave the line alone. *)
<1>d. ASSUME SameNums(Fr, outCh, outCh'), SameNums(Fr, sent, sent'), UNCHANGED <<accepted, lastSeq>>,
             wr' = wr \/ (wr.at = "made" /\ wr' = [wr EXCEPT !.at = "writing"]),
             rd' = rd \/ (Offering /\ rd'.at = "end") \/ (Offering /\ rd'.at = "wait" /\ rd'.m = rd.m)
             \/ (rd.at = "scan" /\ rd'.at = "end")
      PROVE  FrameInv' /\ CoverInv'
  <2>1. InWriter' = InWriter /\ (wr'.at = "done" <=> wr.at = "done")
    BY <1>d, Zenon DEF InWriter, OutTypes, WritePts
  <2>2. (Offering' => Offering /\ rd'.m = rd.m) /\ (rd'.at = "wait" => Offering')
    BY <1>d, Zenon DEF Offering
  <2>3. FrameInv'
    BY <1>d, <2>1, <2>2, <1>c, FlowKept, Zenon
  <2>4. Nums(Fr, outCh') = Nums(Fr, outCh) /\ Nums(Fr, sent') = Nums(Fr, sent)
    BY <1>d, Zenon DEF SameNums
  <2>5. CoverInv'
    BY <1>d, <2>1, <2>2, <2>4, <1>a, <1>b, CoverKept, Zenon
  <2> QED BY <2>3, <2>5, Zenon
<1>3. CASE OfferFull \/ OfferCancelled \/ OfferTimeout
  <2> UNCHANGED <<outCh, sent, accepted, lastSeq, wr>>
      /\ Offering /\ (rd'.at = "end" \/ (rd'.at = "wait" /\ rd'.m = rd.m))
    BY <1>3 DEF OfferFull, OfferCancelled, OfferTimeout, readerFrame, writer, Offering, OutTypes, At
  <2> QED BY <1>c, <1>d, Zenon
<1>4. ASSUME NEW msg \in {"conflict", "closed"}, ReadClosed(msg) PROVE FrameInv' /\ CoverInv'
  <2> UNCHANGED <<outCh, sent, accepted, lastSeq, wr>> /\ rd.at = "scan" /\ rd'.at = "end"
    BY <1>4, Zenon DEF ReadClosed, readerFrame, writer, Holding
  <2> QED BY <1>c, <1>d, Zenon
<1>5. CASE ReadEOF
  <2> UNCHANGED <<outCh, sent, accepted, lastSeq, wr>> /\ rd.at = "scan" /\ rd'.at = "end"
    BY <1>5, Zenon DEF ReadEOF, readerFrame, writer, At
  <2> QED BY <1>c, <1>d, Zenon
<1>6. CASE TakeOut
  <2>1. /\ wr.at = "idle" /\ wr' = Holding("made", Head(outCh))
        /\ UNCHANGED <<accepted, lastSeq, rd, sent, close, base, failed>>
    BY <1>6, Zenon DEF TakeOut, writerFrame, reader, life
  <2>2. Dropped(outCh, outCh')
    BY <1>6, <1>c, TailDrops, Zenon DEF TakeOut
  <2> QED BY <2>1, <2>2, FrameTaken, Zenon
<1>7. CASE Register
  <2> UNCHANGED <<outCh, sent, accepted, lastSeq, rd>> /\ wr.at = "made" /\ wr' = [wr EXCEPT !.at = "writing"]
    BY <1>7, Zenon DEF Register, writerFrame, reader
  <2> QED BY <1>c, <1>d, Zenon
<1>8. CASE WriteOK
  <2>1. /\ wr.at = "writing" /\ wr' = At("idle") /\ wr.m \in Msgs
        /\ UNCHANGED <<accepted, lastSeq, rd, outCh, close, base, failed>>
    BY <1>8, Zenon DEF WriteOK, writerFrame, reader, life, OutTypes
  <2>2. Added(sent, sent', wr.m)
    BY <1>8, <2>1, <1>c, AppendAdds, Zenon DEF WriteOK
  <2> QED BY <2>1, <2>2, FrameWritten, Zenon
<1>9. CASE WriteFail \/ WriterEnds
  <2>1. UNCHANGED <<outCh, sent, accepted, lastSeq, rd>> /\ wr'.at = "done" /\ InWriter' = {}
    BY <1>9 DEF WriteFail, WriterEnds, writerFrame, reader, At, InWriter
  <2>2. FrameInv'
    BY <2>1, <1>c, FlowKept, Zenon DEF Offering
  <2>3. ASSUME ~failed', close'.why \in Endgame
        PROVE  Acc' \subseteq Nums(Fr, sent')
    <3>1. CASE WriteFail
      BY <3>1, <2>3, Zenon DEF WriteFail
    <3>2. CASE WriterEnds
      <4>1. outCh = <<>> /\ close' = close /\ wr.at = "idle"
        BY <3>2, Zenon DEF WriterEnds, life
      <4>2. InWriter = {} /\ Nums(Fr, outCh) = {}
        BY <4>1 DEF InWriter, Nums
      <4>3. rd.at = "end" /\ Leftover = {}
        BY <4>1, <2>3, Zenon DEF EndInv, Leftover, Offering
      <4>4. Acc \subseteq Nums(Fr, sent)
        BY <4>1, <4>2, <4>3, Zenon DEF CoverInv, Flow, Carried
      <4> QED BY <4>4, <2>1, Zenon DEF Acc
    <3> QED BY <3>1, <3>2, <1>9, Zenon
  <2>4. CoverInv'
    BY <2>1, <2>3, Zenon DEF CoverInv
  <2> QED BY <2>2, <2>4, Zenon
<1>10. CASE ReadPing
  <2>1. UNCHANGED <<sent, accepted, lastSeq, rd, wr>> /\ SendText("pong")
    BY <1>10, Zenon DEF ReadPing, browserFrame, reader, writer
  <2>2. outCh' = outCh \/ Added(outCh, outCh', Text("pong"))
    BY <2>1, <1>c, TextSent, Zenon
  <2>3. SameNums(Fr, outCh, outCh')
    BY <2>2, <1>c, <1>t, TextIsSame, Zenon
  <2> QED BY <2>1, <2>3, <1>c, <1>d, Zenon
<1>11. CASE FinalClose
  <2>1. UNCHANGED <<outCh, accepted, lastSeq, rd, wr>>
    BY <1>11, Zenon DEF FinalClose, mainFrame, reader
  <2>2. SameNums(Fr, sent, sent')
    <3>1. CASE sent' = sent
      BY <3>1, <1>c, Zenon
    <3>2. CASE close.msg # "none" /\ sent' = Append(sent, Text(close.msg))
      <4>1. close.msg \in {"closed", "conflict"}
        BY <3>2, Zenon DEF EndInv
      <4>2. Text(close.msg) \in Msgs /\ close.msg # "frame"
        BY <4>1, <1>t, Zenon
      <4>3. Added(sent, sent', Text(close.msg))
        BY <3>2, <4>2, <1>c, AppendAdds, Zenon
      <4> QED BY <4>2, <4>3, <1>c, TextIsSame, Zenon
    <3> QED BY <1>11, <3>1, <3>2, Zenon DEF FinalClose
  <2> QED BY <2>1, <2>2, <1>c, <1>d, Zenon
<1>12. CASE InputMoves \/ BrowserMoves \/ RestMoves
  <2> UNCHANGED <<outCh, sent, accepted, lastSeq, rd, wr>>
    BY <1>12, OutQuiet, Zenon DEF outVars
  <2> QED BY <1>c, <1>d, Zenon
<1> QED BY <1>1, <1>2, <1>3, <1>4, <1>5, <1>6, <1>7, <1>8, <1>9, <1>10, <1>11, <1>12, Moves, Zenon
        DEF ReaderMoves, WriterMoves

(* A reason of the end; the writer holds a message. *)
Closing(e) == e.t \in {"closed", "conflict"}
Held == wr.at \in {"made", "writing"}

(* The announcement is first, wherever it is, and a reason is written by finalClose only. *)
TextInv ==
    /\ \A i \in DOMAIN outCh : ~Closing(outCh[i])
    /\ Held => ~Closing(wr.m)
    /\ sent = <<>> /\ Held => wr.m.t = "opened"
    /\ sent = <<>> /\ wr.at = "idle" => outCh # <<>> /\ outCh[1].t = "opened"
    /\ \A i \in DOMAIN outCh : outCh[i].t = "opened" => i = 1 /\ wr.at = "idle" /\ sent = <<>>
    /\ Held /\ wr.m.t = "opened" => sent = <<>>
    /\ wr.at = "done" /\ sock = "open" => sent # <<>>
    /\ \A i \in DOMAIN sent :
          /\ i = 1 <=> sent[i].t = "opened"
          /\ Closing(sent[i]) => i = Len(sent) /\ sent[i].t = close.msg /\ main \in OverPts

(* Append, by index. *)
LEMMA AppendIs ==
    ASSUME NEW S, NEW s \in Seq(S), NEW e \in S
    PROVE  /\ Append(s, e) # <<>>
           /\ Len(s) \in Nat /\ Len(Append(s, e)) = Len(s) + 1
           /\ DOMAIN s = 1 .. Len(s) /\ DOMAIN Append(s, e) = 1 .. Len(s) + 1
           /\ Append(s, e)[Len(s) + 1] = e
           /\ \A i \in DOMAIN s : Append(s, e)[i] = s[i]
           /\ s = <<>> <=> Len(s) = 0
OBVIOUS

(* What is said of a step that leaves the queue, the writer and the socket's log. *)
LEMMA TextKept ==
    ASSUME EndInv, TextInv, UNCHANGED <<outCh, sent>>,
           wr' = wr \/ (wr'.m = wr.m /\ wr.at = "made" /\ wr'.at = "writing"),
           main \in OverPts => main' \in OverPts, sock' = "open" => sock = "open",
           close' = close \/ ~close.set
    PROVE  TextInv'
<1>1. Held' <=> Held
  BY Zenon DEF Held
<1>2. (wr'.at = "idle" <=> wr.at = "idle") /\ (wr'.at = "done" <=> wr.at = "done") /\ wr'.m = wr.m
  BY Zenon
<1>3. \A i \in DOMAIN sent : Closing(sent[i]) => sent[i].t = close'.msg
  <2>1. \A i \in DOMAIN sent : Closing(sent[i]) => close.msg # "none" /\ sent[i].t = close.msg
    BY Zenon DEF TextInv, Closing
  <2>2. close.msg # "none" => close' = close
    BY Zenon DEF EndInv
  <2> QED BY <2>1, <2>2, Zenon
<1> HIDE DEF Held
<1> QED BY <1>1, <1>2, <1>3, Zenon DEF TextInv

(* A frame, a resize notice or a pong is queued. *)
LEMMA TextQueued ==
    ASSUME TextInv, outCh \in Seq(Msgs), NEW e \in Msgs, ~Closing(e), e.t # "opened",
           outCh' = Append(outCh, e), UNCHANGED <<sent, wr, close, main, sock>>
    PROVE  TextInv'
<1>1. Held' <=> Held
  BY Zenon DEF Held
<1>2. /\ outCh' # <<>> /\ Len(outCh) \in Nat
      /\ DOMAIN outCh = 1 .. Len(outCh) /\ DOMAIN outCh' = 1 .. Len(outCh) + 1
      /\ outCh'[Len(outCh) + 1] = e
      /\ \A i \in DOMAIN outCh : outCh'[i] = outCh[i]
      /\ outCh = <<>> <=> Len(outCh) = 0
  BY AppendIs
<1>3. \A i \in DOMAIN outCh' : (i \in DOMAIN outCh /\ outCh'[i] = outCh[i]) \/ outCh'[i] = e
  BY <1>2
<1>4. outCh # <<>> => outCh'[1] = outCh[1]
  BY <1>2
<1> HIDE DEF Held, Closing
<1>5. \A i \in DOMAIN outCh' : ~Closing(outCh'[i])
  BY <1>3, Zenon DEF TextInv
<1>6. \A i \in DOMAIN outCh' : outCh'[i].t = "opened" => i = 1 /\ wr.at = "idle" /\ sent = <<>>
  BY <1>3, Zenon DEF TextInv
<1>7. sent = <<>> /\ wr.at = "idle" => outCh' # <<>> /\ outCh'[1].t = "opened"
  BY <1>2, <1>4, Zenon DEF TextInv
<1> QED BY <1>1, <1>5, <1>6, <1>7, Zenon DEF TextInv

(* The writer takes a message. *)
LEMMA TextTaken ==
    ASSUME TextInv, outCh \in Seq(Msgs), outCh # <<>>, wr.at = "idle",
           outCh' = Tail(outCh), wr' = Holding("made", Head(outCh)), UNCHANGED <<sent, close, main, sock>>
    PROVE  TextInv'
<1>1. Held' /\ wr'.at = "made" /\ wr'.m = outCh[1] /\ 1 \in DOMAIN outCh
  BY DEF Held, Holding
<1>2. \A i \in DOMAIN outCh' : i \in Nat /\ i + 1 \in DOMAIN outCh /\ outCh'[i] = outCh[i + 1] /\ i + 1 # 1
  BY TailDrops DEF Dropped
<1> HIDE DEF Held, Closing
<1>3. \A i \in DOMAIN outCh' : ~Closing(outCh'[i]) /\ outCh'[i].t # "opened"
  BY <1>2, Zenon DEF TextInv
<1> QED BY <1>1, <1>3, Zenon DEF TextInv

(* A write completes. *)
LEMMA TextWritten ==
    ASSUME EndInv, TextInv, sent \in Seq(Msgs), wr.m \in Msgs, wr.at = "writing",
           sent' = Append(sent, wr.m), wr' = At("idle"), UNCHANGED <<outCh, close, main, sock>>
    PROVE  TextInv'
<1>1. Held /\ ~Held' /\ wr'.at = "idle"
  BY Zenon DEF Held, At
<1>2. /\ sent' # <<>> /\ Len(sent) \in Nat /\ Len(sent') = Len(sent) + 1
      /\ DOMAIN sent = 1 .. Len(sent) /\ DOMAIN sent' = 1 .. Len(sent) + 1
      /\ sent'[Len(sent) + 1] = wr.m
      /\ \A i \in DOMAIN sent : sent'[i] = sent[i]
      /\ sent = <<>> <=> Len(sent) = 0
  BY AppendIs
<1>3. main \notin OverPts
  BY Zenon DEF EndInv
<1>4. \A i \in DOMAIN sent' : (i \in DOMAIN sent /\ sent'[i] = sent[i]) \/ (i = Len(sent) + 1 /\ sent'[i] = wr.m)
  BY <1>2
<1>5. wr.m.t = "opened" <=> sent = <<>>
  BY <1>1, Zenon DEF TextInv
<1>6. \A i \in DOMAIN sent' : i = 1 <=> sent'[i].t = "opened"
  BY <1>2, <1>4, <1>5 DEF TextInv
<1>7. \A i \in DOMAIN sent' : ~Closing(sent'[i])
  BY <1>1, <1>3, <1>4, Zenon DEF TextInv
<1>8. \A i \in DOMAIN outCh : outCh[i].t # "opened"
  BY Zenon DEF TextInv
<1> HIDE DEF Held, Closing
<1> QED BY <1>1, <1>2, <1>6, <1>7, <1>8, Zenon DEF TextInv

(* finalClose writes the reason. *)
LEMMA TextClosed ==
    ASSUME EndInv, TextInv, sent \in Seq(Msgs), Text(close.msg) \in Msgs, wr.at = "done", sock = "open",
           main \notin OverPts, main' \in OverPts, close.msg # "none", sock' = "closed",
           sent' = Append(sent, Text(close.msg)), UNCHANGED <<wr, outCh, close>>
    PROVE  TextInv'
<1>1. ~Held /\ (Held' <=> Held) /\ sent # <<>>
  BY Zenon DEF Held, TextInv
<1>2. /\ sent' # <<>> /\ Len(sent) \in Nat /\ Len(sent') = Len(sent) + 1
      /\ DOMAIN sent = 1 .. Len(sent) /\ DOMAIN sent' = 1 .. Len(sent) + 1
      /\ sent'[Len(sent) + 1] = Text(close.msg)
      /\ \A i \in DOMAIN sent : sent'[i] = sent[i]
      /\ sent = <<>> <=> Len(sent) = 0
  BY AppendIs
<1>3. Text(close.msg).t = close.msg /\ close.msg # "opened"
  BY Zenon DEF Text, EndInv
<1>4. \A i \in DOMAIN sent' : (i \in DOMAIN sent /\ sent'[i] = sent[i]) \/ (i = Len(sent') /\ sent'[i] = Text(close.msg))
  BY <1>2
<1>6. \A i \in DOMAIN sent' : i = 1 <=> sent'[i].t = "opened"
  BY <1>1, <1>2, <1>3, <1>4 DEF TextInv
<1>7. \A i \in DOMAIN sent' : Closing(sent'[i]) => i = Len(sent') /\ sent'[i].t = close.msg
  BY <1>3, <1>4, Zenon DEF TextInv
<1>8. \A i \in DOMAIN outCh : outCh[i].t # "opened"
  BY Zenon DEF TextInv
<1> HIDE DEF Held, Closing
<1> QED BY <1>1, <1>2, <1>6, <1>7, <1>8, Zenon DEF TextInv

(* Every step keeps the announcement first and the reason last. *)
LEMMA TextStep ==
    ASSUME OutTypes, EndInv, FrameInv, TextInv, BridgeNext
    PROVE  TextInv'
<1>a. close' = close \/ ~close.set
  BY EndStep, Zenon
<1>b. (main \in OverPts => main' \in OverPts) /\ (sock' = "open" => sock = "open")
  BY Onward, Zenon
<1>c. outCh \in Seq(Msgs) /\ sent \in Seq(Msgs) /\ wr.m \in Msgs /\ rd.m \in Msgs
  BY Zenon DEF OutTypes
<1>d. ASSUME UNCHANGED <<outCh, sent, wr>> PROVE TextInv'
  BY <1>a, <1>b, <1>d, TextKept, Zenon
<1>e. ASSUME NEW k \in {"resized", "pong"}, SendText(k), UNCHANGED <<sent, wr, close, main, sock>>
      PROVE  TextInv'
  <2>1. Text(k) \in Msgs /\ ~Closing(Text(k)) /\ Text(k).t # "opened"
    BY MsgFacts, Zenon DEF Text, Closing
  <2>2. CASE outCh' = outCh
    BY <2>2, <1>e, <1>d, Zenon
  <2>3. CASE outCh' = Append(outCh, Text(k))
    BY <2>1, <2>3, <1>c, <1>e, TextQueued, Zenon
  <2> QED BY <1>e, <2>2, <2>3, Zenon DEF SendText
<1>1. ASSUME NEW n \in Seqs, ReadFrame(n) PROVE TextInv'
  <2>1. UNCHANGED <<wr, sent>>
    BY <1>1, Zenon DEF ReadFrame, readerFrame, writer
  <2>2. outCh' = outCh \/ (SendText("resized") /\ UNCHANGED <<close, main, sock>>)
    BY <1>1, Zenon DEF ReadFrame, life
  <2> QED BY <2>1, <2>2, <1>d, <1>e, Zenon
<1>2. CASE Offer
  <2>1. rd.m.t = "frame"
    BY <1>2 DEF FrameInv, Offering, Offer, Frame
  <2>2. ~Closing(rd.m) /\ rd.m.t # "opened"
    BY <2>1, Zenon DEF Closing
  <2>3. outCh' = Append(outCh, rd.m) /\ UNCHANGED <<sent, wr, close, main, sock>>
    BY <1>2, Zenon DEF Offer, readerFrame, writer, life
  <2> QED BY <2>2, <2>3, <1>c, TextQueued, Zenon
<1>3. CASE OfferFull \/ OfferCancelled \/ OfferTimeout \/ ReadEOF
  <2> UNCHANGED <<outCh, sent, wr>>
    BY <1>3, Zenon DEF OfferFull, OfferCancelled, OfferTimeout, ReadEOF, readerFrame, writer
  <2> QED BY <1>d, Zenon
<1>4. ASSUME NEW msg \in {"conflict", "closed"}, ReadClosed(msg) PROVE TextInv'
  <2> UNCHANGED <<outCh, sent, wr>>
    BY <1>4, Zenon DEF ReadClosed, readerFrame, writer
  <2> QED BY <1>d, Zenon
<1>5. CASE TakeOut
  BY <1>5, <1>c, TextTaken, Zenon DEF TakeOut, life
<1>6. CASE Register
  <2> UNCHANGED <<outCh, sent>> /\ wr'.m = wr.m /\ wr.at = "made" /\ wr'.at = "writing"
    BY <1>6, Zenon DEF Register, OutTypes, WritePts
  <2> QED BY <1>a, <1>b, TextKept, Zenon
<1>7. CASE WriteOK
  BY <1>7, <1>c, TextWritten, Zenon DEF WriteOK, life
<1>8. CASE WriteFail
  <2> UNCHANGED <<outCh, sent, main, close>> /\ wr.at = "writing" /\ wr'.at = "done" /\ sock' = "closed"
    BY <1>8, Zenon DEF WriteFail, At
  <2> Held /\ ~Held'
    BY Zenon DEF Held
  <2> HIDE DEF Held
  <2> QED BY Zenon DEF TextInv
<1>9. CASE WriterEnds
  <2> UNCHANGED <<outCh, sent, main, close, sock>> /\ wr.at = "idle" /\ wr'.at = "done" /\ outCh = <<>>
    BY <1>9, Zenon DEF WriterEnds, At, life
  <2> ~Held /\ ~Held' /\ DOMAIN outCh = {}
    BY DEF Held
  <2> HIDE DEF Held
  <2> QED BY Zenon DEF TextInv
<1>10. CASE ReadPing
  BY <1>10, <1>e, Zenon DEF ReadPing, browserFrame, writer, life
<1>11. CASE FinalClose
  <2>1. /\ UNCHANGED <<outCh, wr, close>> /\ wr.at = "done" /\ sock' = "closed"
        /\ main' \in OverPts /\ main \notin OverPts
    BY <1>11, Zenon DEF FinalClose, mainFrame, OverPts
  <2>2. CASE sent' = sent
    BY <2>1, <2>2, <1>d, Zenon
  <2>3. CASE close.msg # "none" /\ sock = "open" /\ sent' = Append(sent, Text(close.msg))
    <3>1. close.msg \in {"closed", "conflict"}
      BY <2>3, Zenon DEF EndInv
    <3>2. Text(close.msg) \in Msgs
      BY <3>1, MsgFacts, Zenon
    <3> QED BY <2>1, <2>3, <3>2, <1>c, TextClosed, Zenon
  <2> QED BY <1>11, <2>2, <2>3, Zenon DEF FinalClose
<1>12. CASE InputMoves \/ BrowserMoves \/ RestMoves
  <2> UNCHANGED <<outCh, sent, wr>>
    BY <1>12, OutQuiet, Zenon DEF outVars
  <2> QED BY <1>d, Zenon
<1> QED BY <1>1, <1>2, <1>3, <1>4, <1>5, <1>6, <1>7, <1>8, <1>9, <1>10, <1>11, <1>12, Moves, Zenon
        DEF ReaderMoves, WriterMoves

(* The input, scroll and release commands: in stdinLoop's hand, on their way, and the one
   readBrowser holds or gave up. *)
Ks == {"key", "release"}
KeyHand == IF st.at = "writing" THEN NumOf(Ks, st.m) ELSE {}
KeyFlow == Carried(Ks, applied, KeyHand, stdinCh)
KeyLeft == IF br.at \in {"stdin", "end"} THEN {keys} ELSE {}

(* Commands are numbered as they are read, travel in order and arrive without a gap; none
   is lost while stdinLoop lives. *)
KeyInv ==
    /\ InLine(Ks, applied, KeyHand, stdinCh)
    /\ \A x \in KeyFlow : x \in Nat /\ x <= keys
    /\ br.at = "stdin" => br.m.t \in Ks /\ br.m.n = keys /\ AllBelow(KeyFlow, {keys})
    /\ \A x \in Nums(Ks, applied), d \in 1 .. keys : d < x => d \in Nums(Ks, applied)
    /\ st.at # "end" => 1 .. keys \subseteq KeyFlow \cup KeyLeft

(* A step that moves no command, or loses stdinLoop's, keeps KeyInv. *)
LEMMA KeyKept ==
    ASSUME InTypes, KeyInv, SameNums(Ks, stdinCh, stdinCh'), KeyHand' \in {KeyHand, {}},
           applied' = applied, keys' = keys, br'.at = "stdin" => br' = br,
           br.at \in {"stdin", "end"} => br'.at \in {"stdin", "end"},
           st'.at # "end" => st.at # "end" /\ KeyHand' = KeyHand
    PROVE  KeyInv'
<1>1. InLine(Ks, applied', KeyHand', stdinCh') /\ KeyFlow' \subseteq KeyFlow
  BY Zenon DEF KeyInv, InLine, SameNums, AllBelow, KeyFlow, Carried
<1>2. KeyHand' = KeyHand => KeyFlow' = KeyFlow
  BY Zenon DEF KeyFlow, Carried, SameNums
<1>3. KeyLeft \subseteq KeyLeft'
  BY Zenon DEF KeyLeft
<1>4. br'.at = "stdin" => br'.m.t \in Ks /\ br'.m.n = keys' /\ AllBelow(KeyFlow', {keys'})
  BY <1>1, Zenon DEF KeyInv, AllBelow
<1>5. \A x \in KeyFlow' : x \in Nat /\ x <= keys'
  BY <1>1, Zenon DEF KeyInv
<1>6. st'.at # "end" => 1 .. keys' \subseteq KeyFlow' \cup KeyLeft'
  BY <1>2, <1>3, Zenon DEF KeyInv
<1>7. \A x \in Nums(Ks, applied'), d \in 1 .. keys' : d < x => d \in Nums(Ks, applied')
  BY Zenon DEF KeyInv
<1> QED BY <1>1, <1>4, <1>5, <1>6, <1>7, Zenon DEF KeyInv

(* readBrowser reads a command. *)
LEMMA KeyRead ==
    ASSUME InTypes, KeyInv, br.at = "read", keys' = keys + 1,
           br' = Holding("stdin", Key(keys + 1)) \/ br' = Holding("stdin", ReleaseCmd(keys + 1)),
           UNCHANGED <<stdinCh, applied, st>>
    PROVE  KeyInv'
<1>a. keys \in Nat
  BY Zenon DEF InTypes
<1>1. KeyHand' = KeyHand /\ KeyFlow' = KeyFlow /\ KeyLeft = {} /\ KeyLeft' = {keys + 1}
  BY DEF KeyHand, KeyFlow, KeyLeft, Holding
<1>2. \A x \in KeyFlow' : x \in Nat /\ x <= keys
  BY <1>1, Zenon DEF KeyInv
<1>3. AllBelow(KeyFlow', {keys'}) /\ \A x \in KeyFlow' : x \in Nat /\ x <= keys'
  BY <1>2, <1>a DEF AllBelow
<1>4. br'.m.t \in Ks /\ br'.m.n = keys'
  BY DEF Holding, Key, ReleaseCmd, Ks
<1>5. \A x \in Nums(Ks, applied), d \in 1 .. keys' : d < x => d \in Nums(Ks, applied)
  <2>1. \A x \in Nums(Ks, applied) : x \in Nat /\ x <= keys
    BY Zenon DEF KeyInv, KeyFlow, Carried
  <2> QED BY <2>1, <1>a DEF KeyInv
<1>6. st'.at # "end" => 1 .. keys' \subseteq KeyFlow' \cup KeyLeft'
  <2>1. 1 .. keys' = 1 .. keys \cup {keys + 1}
    BY <1>a
  <2> QED BY <1>1, <2>1, Zenon DEF KeyInv
<1>7. InLine(Ks, applied', KeyHand', stdinCh')
  BY <1>1, Zenon DEF KeyInv
<1> QED BY <1>3, <1>4, <1>5, <1>6, <1>7, Zenon DEF KeyInv

(* sendStdin finds a place. *)
LEMMA KeySent ==
    ASSUME InTypes, KeyInv, br.at = "stdin", Added(stdinCh, stdinCh', br.m), br' = NextRead,
           UNCHANGED <<keys, applied, st>>
    PROVE  KeyInv'
<1>a. keys \in Nat /\ stdinCh \in Seq(Msgs) /\ br.m \in Msgs
  BY Zenon DEF InTypes
<1>b. NumOf(Ks, br.m) = {keys} /\ AllBelow(KeyFlow, {keys}) /\ InLine(Ks, applied, KeyHand, stdinCh)
  BY Zenon DEF KeyInv, NumOf
<1>c. AllBelow(Carried(Ks, applied, KeyHand, stdinCh), NumOf(Ks, br.m))
  BY <1>b, Zenon DEF KeyFlow
<1>d. /\ InLine(Ks, applied, KeyHand, stdinCh')
      /\ Carried(Ks, applied, KeyHand, stdinCh') = Carried(Ks, applied, KeyHand, stdinCh) \cup NumOf(Ks, br.m)
  <2>1. Nums(Ks, stdinCh') = Nums(Ks, stdinCh) \cup NumOf(Ks, br.m)
    BY <1>a, NumsAdded, Zenon
  <2>2. Rising(Ks, stdinCh) /\ AllBelow(Nums(Ks, stdinCh), NumOf(Ks, br.m))
    BY <1>b, <1>c, Zenon DEF InLine, AllBelow, Carried
  <2>3. Rising(Ks, stdinCh')
    BY <1>a, <2>2, NumsAdded, Zenon
  <2> QED BY <2>1, <2>3, <1>b, <1>c, Zenon DEF InLine, AllBelow, Carried
<1>1. KeyHand' = KeyHand /\ KeyFlow' = KeyFlow \cup {keys} /\ KeyLeft \subseteq {keys}
  BY <1>b, <1>d, Zenon DEF KeyHand, KeyFlow, KeyLeft
<1>2. br'.at # "stdin"
  BY Zenon DEF NextRead, At
<1>3. \A x \in KeyFlow' : x \in Nat /\ x <= keys'
  BY <1>a, <1>1 DEF KeyInv
<1>4. st'.at # "end" => 1 .. keys' \subseteq KeyFlow'
  BY <1>1, Zenon DEF KeyInv
<1>5. \A x \in Nums(Ks, applied), d \in 1 .. keys : d < x => d \in Nums(Ks, applied)
  BY Zenon DEF KeyInv
<1> QED BY <1>1, <1>2, <1>3, <1>4, <1>5, <1>d, Zenon DEF KeyInv

(* stdinLoop takes a command. *)
LEMMA KeyTaken ==
    ASSUME InTypes, KeyInv, st.at = "idle", Dropped(stdinCh, stdinCh'),
           st' = Holding("writing", Head(stdinCh)), UNCHANGED <<applied, br, keys>>
    PROVE  KeyInv'
<1>a. stdinCh \in Seq(Msgs)
  BY Zenon DEF InTypes
<1>b. KeyHand = {} /\ KeyHand' = NumOf(Ks, Head(stdinCh)) /\ st'.at = "writing" /\ KeyLeft' = KeyLeft
  BY Zenon DEF KeyHand, Holding, KeyLeft
<1>c. InLine(Ks, applied, {}, stdinCh)
  BY <1>b, Zenon DEF KeyInv
<1>d. /\ InLine(Ks, applied, NumOf(Ks, Head(stdinCh)), stdinCh')
      /\ Carried(Ks, applied, NumOf(Ks, Head(stdinCh)), stdinCh') = Carried(Ks, applied, {}, stdinCh)
  BY <1>a, <1>c, LineTake, Zenon
<1>1. KeyFlow' = KeyFlow
  BY <1>b, <1>d, Zenon DEF KeyFlow
<1> QED BY <1>b, <1>d, <1>1, Zenon DEF KeyInv

(* The controller gets a command. *)
LEMMA KeyWritten ==
    ASSUME InTypes, KeyInv, st.at = "writing", Added(applied, applied', st.m),
           st' = At("idle"), UNCHANGED <<stdinCh, br, keys>>
    PROVE  KeyInv'
<1>a. applied \in Seq(Msgs) /\ st.m \in Msgs /\ keys \in Nat
  BY Zenon DEF InTypes
<1>b. KeyHand = NumOf(Ks, st.m) /\ KeyHand' = {} /\ st'.at = "idle" /\ KeyLeft' = KeyLeft
  BY Zenon DEF KeyHand, At, KeyLeft
<1>c. InLine(Ks, applied, NumOf(Ks, st.m), stdinCh)
  BY <1>b, Zenon DEF KeyInv
<1>d. Nums(Ks, applied') = Nums(Ks, applied) \cup NumOf(Ks, st.m)
  BY <1>a, NumsAdded, Zenon
<1>e. Rising(Ks, applied')
  BY <1>a, <1>c, NumsAdded, Zenon DEF InLine
<1>f. InLine(Ks, applied', {}, stdinCh) /\ KeyFlow' = KeyFlow
  BY <1>b, <1>c, <1>d, <1>e, Zenon DEF InLine, AllBelow, Carried, KeyFlow
<1>g. \A x \in NumOf(Ks, st.m), d \in 1 .. keys : d < x => d \in Nums(Ks, applied)
  <2> SUFFICES ASSUME NEW x \in NumOf(Ks, st.m), NEW d \in 1 .. keys, d < x
               PROVE  d \in Nums(Ks, applied)
    BY Zenon
  <2>1. x \in KeyFlow /\ x \in Nat /\ x <= keys
    BY <1>b, Zenon DEF KeyInv, KeyFlow, Carried
  <2>2. d \notin Nums(Ks, stdinCh)
    BY <2>1, <1>c DEF InLine, AllBelow
  <2>3. d # keys
    BY <2>1, <1>a
  <2>4. d \in KeyFlow
    BY <2>3, Zenon DEF KeyInv, KeyLeft
  <2>5. d \notin KeyHand
    BY <1>b, <2>1 DEF NumOf
  <2> QED BY <2>2, <2>4, <2>5, Zenon DEF KeyFlow, Carried
<1>h. \A x \in Nums(Ks, applied'), d \in 1 .. keys : d < x => d \in Nums(Ks, applied')
  BY <1>d, <1>g, Zenon DEF KeyInv
<1> QED BY <1>b, <1>f, <1>h, Zenon DEF KeyInv

(* The sizes: in stdinLoop's hand, on their way, pending in the coalescer, in resizeCh
   and in pushResize. *)
Rs == {"resize"}
SizeHand == IF st.at = "writing" THEN NumOf(Rs, st.m) ELSE {}
SizeFlow == Carried(Rs, applied, SizeHand, stdinCh)
InCoalescer == NumOf(Rs, rz.m)
InResizeCh == IF resizeCh = 0 THEN {} ELSE {resizeCh}
InBrowser == IF br.at \in {"full", "emptied"} THEN {resizes} ELSE {}

(* Sizes overtake one another nowhere, and a live session has the newest one somewhere.
   Between its two selects pushResize finds resizeCh empty, as it is the only sender. *)
SizeInv ==
    /\ InLine(Rs, applied, SizeHand, stdinCh)
    /\ AllBelow(SizeFlow, InCoalescer) /\ AllBelow(SizeFlow, InResizeCh) /\ AllBelow(SizeFlow, InBrowser)
    /\ AllBelow(InCoalescer, InResizeCh) /\ AllBelow(InCoalescer, InBrowser)
    /\ AllBelow(InResizeCh, InBrowser)
    /\ \A x \in SizeFlow \cup InCoalescer \cup InResizeCh : x \in Nat /\ x <= resizes
    /\ br.at \in {"full", "emptied"} => br.m = Resize(resizes)
    /\ br.at = "emptied" => resizeCh = 0
    /\ resizes > 0 /\ ~done => resizes \in SizeFlow \cup InCoalescer \cup InResizeCh \cup InBrowser

(* A step that moves no size, or loses one after the cancellation, keeps SizeInv. *)
LEMMA SizeKept ==
    ASSUME SizeInv, SameNums(Rs, stdinCh, stdinCh'), SizeHand' \in {SizeHand, {}},
           InCoalescer' \in {InCoalescer, {}}, UNCHANGED <<applied, resizeCh, resizes>>,
           InBrowser' = InBrowser,
           br'.at \in {"full", "emptied"} => br' = br,
           done => done', ~done' => SizeHand' = SizeHand /\ InCoalescer' = InCoalescer
    PROVE  SizeInv'
<1>1. InLine(Rs, applied', SizeHand', stdinCh') /\ SizeFlow' \subseteq SizeFlow
  BY Zenon DEF SizeInv, InLine, SameNums, AllBelow, SizeFlow, Carried
<1>2. SizeHand' = SizeHand => SizeFlow' = SizeFlow
  BY Zenon DEF SizeFlow, Carried, SameNums
<1>3. InResizeCh' = InResizeCh
  BY Zenon DEF InResizeCh
<1>4. /\ AllBelow(SizeFlow', InCoalescer') /\ AllBelow(SizeFlow', InResizeCh')
      /\ AllBelow(SizeFlow', InBrowser') /\ AllBelow(InCoalescer', InResizeCh')
      /\ AllBelow(InCoalescer', InBrowser') /\ AllBelow(InResizeCh', InBrowser')
      /\ \A x \in SizeFlow' \cup InCoalescer' \cup InResizeCh' : x \in Nat /\ x <= resizes
  BY <1>1, <1>3, Zenon DEF SizeInv, AllBelow
<1>5. resizes' > 0 /\ ~done' => resizes' \in SizeFlow' \cup InCoalescer' \cup InResizeCh' \cup InBrowser'
  BY <1>2, <1>3, Zenon DEF SizeInv
<1> QED BY <1>1, <1>4, <1>5, Zenon DEF SizeInv

(* stdinLoop takes a size. *)
LEMMA SizeTaken ==
    ASSUME InTypes, SizeInv, st.at = "idle", Dropped(stdinCh, stdinCh'),
           st' = Holding("writing", Head(stdinCh)), UNCHANGED <<applied, br, rz, resizes, resizeCh, done>>
    PROVE  SizeInv'
<1>a. stdinCh \in Seq(Msgs)
  BY Zenon DEF InTypes
<1>b. SizeHand = {} /\ SizeHand' = NumOf(Rs, Head(stdinCh))
      /\ InCoalescer' = InCoalescer /\ InResizeCh' = InResizeCh /\ InBrowser' = InBrowser
  BY Zenon DEF SizeHand, Holding, InCoalescer, InResizeCh, InBrowser
<1>c. InLine(Rs, applied, {}, stdinCh)
  BY <1>b, Zenon DEF SizeInv
<1>d. /\ InLine(Rs, applied, NumOf(Rs, Head(stdinCh)), stdinCh')
      /\ Carried(Rs, applied, NumOf(Rs, Head(stdinCh)), stdinCh') = Carried(Rs, applied, {}, stdinCh)
  BY <1>a, <1>c, LineTake, Zenon
<1>1. SizeFlow' = SizeFlow
  BY <1>b, <1>d, Zenon DEF SizeFlow
<1> QED BY <1>b, <1>d, <1>1, Zenon DEF SizeInv

(* The controller gets a size. *)
LEMMA SizeWritten ==
    ASSUME InTypes, SizeInv, st.at = "writing", Added(applied, applied', st.m),
           st' = At("idle"), UNCHANGED <<stdinCh, br, rz, resizes, resizeCh, done>>
    PROVE  SizeInv'
<1>a. applied \in Seq(Msgs) /\ st.m \in Msgs
  BY Zenon DEF InTypes
<1>b. SizeHand = NumOf(Rs, st.m) /\ SizeHand' = {}
      /\ InCoalescer' = InCoalescer /\ InResizeCh' = InResizeCh /\ InBrowser' = InBrowser
  BY Zenon DEF SizeHand, At, InCoalescer, InResizeCh, InBrowser
<1>c. InLine(Rs, applied, NumOf(Rs, st.m), stdinCh)
  BY <1>b, Zenon DEF SizeInv
<1>d. Nums(Rs, applied') = Nums(Rs, applied) \cup NumOf(Rs, st.m)
  BY <1>a, NumsAdded, Zenon
<1>e. Rising(Rs, applied')
  BY <1>a, <1>c, NumsAdded, Zenon DEF InLine
<1>f. InLine(Rs, applied', {}, stdinCh) /\ SizeFlow' = SizeFlow
  BY <1>b, <1>c, <1>d, <1>e, Zenon DEF InLine, AllBelow, Carried, SizeFlow
<1> QED BY <1>b, <1>f, Zenon DEF SizeInv

(* The coalescer sends its pending size. *)
LEMMA SizeQueued ==
    ASSUME InTypes, SizeInv, Added(stdinCh, stdinCh', rz.m), rz' = At("loop"),
           UNCHANGED <<applied, st, br, resizes, resizeCh, done>>
    PROVE  SizeInv'
<1>a. stdinCh \in Seq(Msgs) /\ rz.m \in Msgs
  BY Zenon DEF InTypes
<1>b. SizeHand' = SizeHand /\ InCoalescer' = {} /\ InResizeCh' = InResizeCh /\ InBrowser' = InBrowser
  BY Zenon DEF SizeHand, At, Nothing, NumOf, Rs, InCoalescer, InResizeCh, InBrowser
<1>c. InLine(Rs, applied, SizeHand, stdinCh) /\ AllBelow(SizeFlow, InCoalescer)
  BY Zenon DEF SizeInv
<1>d. Nums(Rs, stdinCh') = Nums(Rs, stdinCh) \cup InCoalescer
  BY <1>a, NumsAdded, Zenon DEF InCoalescer
<1>e. Rising(Rs, stdinCh')
  <2>1. Rising(Rs, stdinCh) /\ AllBelow(Nums(Rs, stdinCh), NumOf(Rs, rz.m))
    BY <1>c, Zenon DEF InLine, AllBelow, SizeFlow, Carried, InCoalescer
  <2> QED BY <1>a, <2>1, NumsAdded, Zenon
<1>f. InLine(Rs, applied, SizeHand, stdinCh') /\ SizeFlow' = SizeFlow \cup InCoalescer
  BY <1>b, <1>c, <1>d, <1>e, Zenon DEF InLine, AllBelow, Carried, SizeFlow
<1>g. /\ AllBelow(SizeFlow', InCoalescer') /\ AllBelow(SizeFlow', InResizeCh')
      /\ AllBelow(SizeFlow', InBrowser') /\ AllBelow(InCoalescer', InResizeCh')
      /\ AllBelow(InCoalescer', InBrowser') /\ AllBelow(InResizeCh', InBrowser')
      /\ \A x \in SizeFlow' \cup InCoalescer' \cup InResizeCh' : x \in Nat /\ x <= resizes
  BY <1>b, <1>f, Zenon DEF SizeInv, AllBelow
<1>h. resizes' > 0 /\ ~done' => resizes' \in SizeFlow' \cup InCoalescer' \cup InResizeCh' \cup InBrowser'
  BY <1>b, <1>f, Zenon DEF SizeInv
<1> QED BY <1>b, <1>f, <1>g, <1>h, Zenon DEF SizeInv

(* The coalescer replaces its pending size by a newer one. *)
LEMMA SizePulled ==
    ASSUME InTypes, SizeInv, resizeCh # 0, rz' = Holding("loop", Resize(resizeCh)), resizeCh' = 0,
           UNCHANGED <<stdinCh, applied, st, br, resizes, done>>
    PROVE  SizeInv'
<1>a. resizeCh \in Nat /\ resizes \in Nat
  BY Zenon DEF InTypes
<1>b. /\ SizeHand' = SizeHand /\ SizeFlow' = SizeFlow /\ InResizeCh = {resizeCh}
      /\ InCoalescer' = {resizeCh} /\ InResizeCh' = {} /\ InBrowser' = InBrowser
  BY Zenon DEF SizeHand, SizeFlow, Holding, Resize, NumOf, Rs, InCoalescer, InResizeCh, InBrowser
<1>c. resizes \in SizeFlow \cup InCoalescer => resizes < resizeCh
  BY <1>b, Zenon DEF SizeInv, AllBelow
<1>d. resizeCh <= resizes
  BY <1>b, Zenon DEF SizeInv
<1>e. resizes \notin SizeFlow \cup InCoalescer
  BY <1>a, <1>c, <1>d
<1>g. /\ AllBelow(SizeFlow', InCoalescer') /\ AllBelow(SizeFlow', InResizeCh')
      /\ AllBelow(SizeFlow', InBrowser') /\ AllBelow(InCoalescer', InResizeCh')
      /\ AllBelow(InCoalescer', InBrowser') /\ AllBelow(InResizeCh', InBrowser')
      /\ \A x \in SizeFlow' \cup InCoalescer' \cup InResizeCh' : x \in Nat /\ x <= resizes
  BY <1>b, Zenon DEF SizeInv, AllBelow
<1>h. resizes' > 0 /\ ~done' => resizes' \in SizeFlow' \cup InCoalescer' \cup InResizeCh' \cup InBrowser'
  BY <1>b, <1>e, Zenon DEF SizeInv
<1> QED BY <1>b, <1>g, <1>h, Zenon DEF SizeInv

(* pushResize, first select. *)
LEMMA SizeRead ==
    ASSUME InTypes, SizeInv, br.at = "read", resizes' = resizes + 1,
           IF resizeCh = 0
           THEN resizeCh' = resizes + 1 /\ br' = NextRead
           ELSE resizeCh' = resizeCh /\ br' = Holding("full", Resize(resizes + 1)),
           UNCHANGED <<stdinCh, applied, st, rz, done>>
    PROVE  SizeInv'
<1>a. resizes \in Nat
  BY Zenon DEF InTypes
<1>b. /\ SizeHand' = SizeHand /\ SizeFlow' = SizeFlow /\ InCoalescer' = InCoalescer /\ InBrowser = {}
  BY Zenon DEF SizeHand, SizeFlow, InCoalescer, InBrowser
<1>c. \A x \in SizeFlow \cup InCoalescer \cup InResizeCh : x \in Nat /\ x <= resizes /\ x <= resizes + 1 /\ x < resizes + 1
  BY <1>a DEF SizeInv
<1>1. CASE resizeCh = 0
  <2>1. InResizeCh' = {resizes + 1} /\ InBrowser' = {} /\ br'.at \notin {"full", "emptied"}
    BY <1>1, <1>a DEF InResizeCh, InBrowser, NextRead, At
  <2>g. /\ AllBelow(SizeFlow', InCoalescer') /\ AllBelow(SizeFlow', InResizeCh')
        /\ AllBelow(SizeFlow', InBrowser') /\ AllBelow(InCoalescer', InResizeCh')
        /\ AllBelow(InCoalescer', InBrowser') /\ AllBelow(InResizeCh', InBrowser')
        /\ \A x \in SizeFlow' \cup InCoalescer' \cup InResizeCh' : x \in Nat /\ x <= resizes'
    BY <1>a, <1>b, <1>c, <2>1 DEF SizeInv, AllBelow
  <2> QED BY <1>b, <2>1, <2>g, Zenon DEF SizeInv
<1>2. CASE resizeCh # 0
  <2>1. InResizeCh' = InResizeCh /\ InBrowser' = {resizes + 1} /\ br'.at = "full" /\ br'.m = Resize(resizes')
    BY <1>2, <1>a DEF InResizeCh, InBrowser, Holding
  <2>g. /\ AllBelow(SizeFlow', InCoalescer') /\ AllBelow(SizeFlow', InResizeCh')
        /\ AllBelow(SizeFlow', InBrowser') /\ AllBelow(InCoalescer', InResizeCh')
        /\ AllBelow(InCoalescer', InBrowser') /\ AllBelow(InResizeCh', InBrowser')
        /\ \A x \in SizeFlow' \cup InCoalescer' \cup InResizeCh' : x \in Nat /\ x <= resizes'
    BY <1>a, <1>b, <1>c, <2>1, Zenon DEF SizeInv, AllBelow
  <2> QED BY <1>b, <2>1, <2>g, Zenon DEF SizeInv
<1> QED BY <1>1, <1>2, Zenon

(* pushResize, second select: what it discards is older than what it holds. *)
LEMMA SizeEmptied ==
    ASSUME InTypes, SizeInv, br.at = "full", resizeCh' = 0, br' = [br EXCEPT !.at = "emptied"],
           UNCHANGED <<stdinCh, applied, st, rz, resizes, done>>
    PROVE  SizeInv'
<1>b. /\ SizeHand' = SizeHand /\ SizeFlow' = SizeFlow /\ InCoalescer' = InCoalescer
      /\ InBrowser = {resizes} /\ InBrowser' = {resizes} /\ InResizeCh' = {} /\ br'.m = br.m /\ br'.at = "emptied"
  BY Zenon DEF SizeHand, SizeFlow, InCoalescer, InBrowser, InResizeCh, InTypes
<1>g. /\ AllBelow(SizeFlow', InCoalescer') /\ AllBelow(SizeFlow', InResizeCh')
      /\ AllBelow(SizeFlow', InBrowser') /\ AllBelow(InCoalescer', InResizeCh')
      /\ AllBelow(InCoalescer', InBrowser') /\ AllBelow(InResizeCh', InBrowser')
      /\ \A x \in SizeFlow' \cup InCoalescer' \cup InResizeCh' : x \in Nat /\ x <= resizes
  BY <1>b, Zenon DEF SizeInv, AllBelow
<1> QED BY <1>b, <1>g, Zenon DEF SizeInv

(* pushResize, third select: the place is free. *)
LEMMA SizePut ==
    ASSUME InTypes, SizeInv, br.at = "emptied", resizeCh' = IF resizeCh = 0 THEN br.m.n ELSE resizeCh,
           br' = NextRead, UNCHANGED <<stdinCh, applied, st, rz, resizes, done>>
    PROVE  SizeInv'
<1>a. resizes \in Nat /\ resizeCh = 0 /\ br.m.n = resizes
  BY DEF InTypes, SizeInv, Resize
<1>b. /\ SizeHand' = SizeHand /\ SizeFlow' = SizeFlow /\ InCoalescer' = InCoalescer
      /\ InBrowser = {resizes} /\ InBrowser' = {} /\ br'.at \notin {"full", "emptied"}
  BY Zenon DEF SizeHand, SizeFlow, InCoalescer, InBrowser, NextRead, At
<1>c. InResizeCh' \subseteq {resizes} /\ (resizes > 0 => InResizeCh' = {resizes})
  BY <1>a DEF InResizeCh
<1>d. /\ AllBelow(SizeFlow, {resizes}) /\ AllBelow(InCoalescer, {resizes}) /\ AllBelow(SizeFlow, InCoalescer)
      /\ \A x \in SizeFlow \cup InCoalescer : x \in Nat /\ x <= resizes
  BY <1>b, Zenon DEF SizeInv
<1>e. \A x \in InResizeCh' : x = resizes
  BY <1>c, Zenon
<1>g. /\ AllBelow(SizeFlow', InCoalescer') /\ AllBelow(SizeFlow', InResizeCh')
      /\ AllBelow(SizeFlow', InBrowser') /\ AllBelow(InCoalescer', InResizeCh')
      /\ AllBelow(InCoalescer', InBrowser') /\ AllBelow(InResizeCh', InBrowser')
      /\ \A x \in SizeFlow' \cup InCoalescer' \cup InResizeCh' : x \in Nat /\ x <= resizes
  BY <1>a, <1>b, <1>d, <1>e DEF AllBelow
<1> QED BY <1>b, <1>c, <1>g, Zenon DEF SizeInv

(* A message of another kind leaves a line alone. *)
LEMMA OtherKind ==
    ASSUME NEW T, NEW s \in Seq(Msgs), NEW t, NEW e \in Msgs, Added(s, t, e), e.t \notin T
    PROVE  SameNums(T, s, t)
<1>1. NumOf(T, e) = {}
  BY Zenon DEF NumOf
<1>2. Nums(T, t) = Nums(T, s) \cup NumOf(T, e)
  BY NumsAdded, Zenon
<1>3. Nums(T, t) = Nums(T, s)
  BY <1>1, <1>2, Zenon
<1>4. Rising(T, s) => Rising(T, t)
  BY LineSkip, Zenon
<1> QED BY <1>3, <1>4, Zenon DEF SameNums

(* Every step keeps the input in order. *)
LEMMA InStep ==
    ASSUME InTypes, EndInv, KeyInv, SizeInv, BridgeNext
    PROVE  KeyInv' /\ SizeInv'
<1>a. done => done'
  BY Onward, Zenon
<1>c. /\ SameNums(Ks, stdinCh, stdinCh) /\ SameNums(Rs, stdinCh, stdinCh)
      /\ stdinCh \in Seq(Msgs) /\ applied \in Seq(Msgs) /\ st.m \in Msgs /\ rz.m \in Msgs /\ br.m \in Msgs
  BY SameIsSame, Zenon DEF InTypes
(* Nothing of the line moves; a browser's message may have been read. *)
<1>d. ASSUME UNCHANGED <<stdinCh, applied, st, rz, keys, resizes, resizeCh>>,
             br' = br \/ (br.at = "read" /\ br'.at \in {"read", "end"})
      PROVE  KeyInv' /\ SizeInv'
  <2>1. KeyHand' = KeyHand /\ SizeHand' = SizeHand /\ InCoalescer' = InCoalescer /\ InBrowser' = InBrowser
    BY <1>d, Zenon DEF KeyHand, SizeHand, InCoalescer, InBrowser
  <2>2. br.at \in {"stdin", "end"} => br'.at \in {"stdin", "end"}
    BY <1>d, Zenon
  <2>3. (br'.at = "stdin" => br' = br) /\ (br'.at \in {"full", "emptied"} => br' = br)
    BY <1>d, Zenon
  <2>4. KeyInv'
    BY <1>c, <1>d, <2>1, <2>2, <2>3, KeyKept, Zenon
  <2>5. SizeInv'
    BY <1>a, <1>c, <1>d, <2>1, <2>3, SizeKept, Zenon
  <2> QED BY <2>4, <2>5, Zenon
(* The stdin loop ends. *)
<1>e. ASSUME UNCHANGED <<stdinCh, applied, rz, br, keys, resizes, resizeCh>>, st'.at = "end", done'
      PROVE  KeyInv' /\ SizeInv'
  <2>1. KeyHand' = {} /\ SizeHand' = {} /\ InCoalescer' = InCoalescer /\ InBrowser' = InBrowser
    BY <1>e, Zenon DEF KeyHand, SizeHand, InCoalescer, InBrowser
  <2>2. KeyInv'
    BY <1>c, <1>e, <2>1, KeyKept, Zenon
  <2>3. SizeInv'
    BY <1>a, <1>c, <1>e, <2>1, SizeKept, Zenon
  <2> QED BY <2>2, <2>3, Zenon
<1>1. CASE StdinTake
  <2>1. st.at = "idle" /\ st' = Holding("writing", Head(stdinCh)) /\ UNCHANGED <<applied, br, keys, rz, resizes, resizeCh, done>>
    BY <1>1, Zenon DEF StdinTake, inputFrame, browser, life
  <2>2. Dropped(stdinCh, stdinCh')
    BY <1>1, <1>c, TailDrops, Zenon DEF StdinTake
  <2> QED BY <2>1, <2>2, KeyTaken, SizeTaken, Zenon
<1>2. CASE StdinWrite
  <2>1. st.at = "writing" /\ st' = At("idle") /\ UNCHANGED <<stdinCh, br, keys, rz, resizes, resizeCh, done>>
    BY <1>2, Zenon DEF StdinWrite, inputFrame, browser, life
  <2>2. Added(applied, applied', st.m)
    BY <1>2, <1>c, AppendAdds, Zenon DEF StdinWrite
  <2> QED BY <2>1, <2>2, KeyWritten, SizeWritten, Zenon
<1>3. CASE StdinFail
  <2> UNCHANGED <<stdinCh, applied, rz, br, keys, resizes, resizeCh>> /\ st'.at = "end" /\ done'
    BY <1>3, Zenon DEF StdinFail, Quit, CancelRun, inputFrame, browser, At
  <2> QED BY <1>e, Zenon
<1>4. CASE StdinEnds
  <2> UNCHANGED <<stdinCh, applied, rz, br, keys, resizes, resizeCh>> /\ st'.at = "end" /\ done'
    BY <1>4, <1>a, Zenon DEF StdinEnds, inputFrame, browser, At
  <2> QED BY <1>e, Zenon
<1>5. CASE ResizeTake
  <2>1. /\ resizeCh # 0 /\ rz' = Holding("loop", Resize(resizeCh)) /\ resizeCh' = 0
        /\ UNCHANGED <<stdinCh, applied, st, br, keys, resizes, done>>
    BY <1>5, Zenon DEF ResizeTake, inputFrame, browser, input, life
  <2>2. SizeInv'
    BY <2>1, SizePulled, Zenon
  <2>3. KeyHand' = KeyHand
    BY <2>1, Zenon DEF KeyHand
  <2>4. KeyInv'
    BY <1>c, <2>1, <2>3, KeyKept, Zenon
  <2> QED BY <2>2, <2>4, Zenon
<1>6. CASE ResizeTick
  <2>1. rz'.m = rz.m /\ UNCHANGED <<stdinCh, applied, st, br, keys, resizes, resizeCh, done>>
    BY <1>6, Zenon DEF ResizeTick, inputFrame, browser, input, life, InTypes
  <2>2. KeyHand' = KeyHand /\ SizeHand' = SizeHand /\ InCoalescer' = InCoalescer /\ InBrowser' = InBrowser
    BY <2>1, Zenon DEF KeyHand, SizeHand, InCoalescer, InBrowser
  <2>3. KeyInv'
    BY <1>c, <2>1, <2>2, KeyKept, Zenon
  <2>4. SizeInv'
    BY <1>a, <1>c, <2>1, <2>2, SizeKept, Zenon
  <2> QED BY <2>3, <2>4, Zenon
<1>7. CASE ResizeSend
  <2>1. rz' = At("loop") /\ UNCHANGED <<applied, st, br, keys, resizes, resizeCh, done>>
    BY <1>7, Zenon DEF ResizeSend, inputFrame, browser, input, life
  <2>2. KeyHand' = KeyHand /\ SizeHand' = SizeHand /\ InCoalescer' = {} /\ InBrowser' = InBrowser
    BY <2>1, Zenon DEF KeyHand, SizeHand, InCoalescer, InBrowser, At, Nothing, NumOf, Rs
  <2>3. CASE stdinCh' = stdinCh /\ done
    <3>1. KeyInv'
      BY <1>c, <2>1, <2>2, <2>3, KeyKept, Zenon
    <3>2. SizeInv'
      BY <1>a, <1>c, <2>1, <2>2, <2>3, SizeKept, Zenon
    <3> QED BY <3>1, <3>2, Zenon
  <2>4. CASE stdinCh' = Append(stdinCh, rz.m)
    <3>1. Added(stdinCh, stdinCh', rz.m)
      BY <2>4, <1>c, AppendAdds, Zenon
    <3>2. SizeInv'
      BY <2>1, <3>1, SizeQueued, Zenon
    <3>3. rz.m.t \notin Ks
      BY Zenon DEF InTypes, Ks
    <3>4. SameNums(Ks, stdinCh, stdinCh')
      BY <3>1, <3>3, <1>c, OtherKind, Zenon
    <3>5. KeyInv'
      BY <3>4, <2>1, <2>2, KeyKept, Zenon
    <3> QED BY <3>2, <3>5, Zenon
  <2> QED BY <1>7, <2>3, <2>4, Zenon DEF ResizeSend
<1>8. CASE ResizeEnds
  <2>1. rz' = At("end") /\ done' /\ UNCHANGED <<stdinCh, applied, st, br, keys, resizes, resizeCh>>
    BY <1>8, <1>a, Zenon DEF ResizeEnds, inputFrame, browser, input
  <2>2. KeyHand' = KeyHand /\ SizeHand' = SizeHand /\ InCoalescer' = {} /\ InBrowser' = InBrowser
    BY <2>1, Zenon DEF KeyHand, SizeHand, InCoalescer, InBrowser, At, Nothing, NumOf, Rs
  <2>3. KeyInv'
    BY <1>c, <2>1, <2>2, KeyKept, Zenon
  <2>4. SizeInv'
    BY <1>a, <1>c, <2>1, <2>2, SizeKept, Zenon
  <2> QED BY <2>3, <2>4, Zenon
<1>9. CASE ReadKey
  <2>1. /\ br.at = "read" /\ keys' = keys + 1
        /\ br' = Holding("stdin", Key(keys + 1)) \/ br' = Holding("stdin", ReleaseCmd(keys + 1))
        /\ UNCHANGED <<stdinCh, applied, st, rz, resizes, resizeCh, done>>
    BY <1>9, Zenon DEF ReadKey, browserFrame, input, life
  <2>2. KeyInv'
    BY <2>1, KeyRead, Zenon
  <2>3. /\ SizeHand' = SizeHand /\ InCoalescer' = InCoalescer /\ InBrowser' = InBrowser
        /\ br'.at \notin {"full", "emptied"}
    BY <2>1 DEF SizeHand, InCoalescer, InBrowser, Holding
  <2>4. SizeInv'
    BY <1>a, <1>c, <2>1, <2>3, SizeKept, Zenon
  <2> QED BY <2>2, <2>4, Zenon
<1>10. CASE SendKey
  <2>1. br.at = "stdin" /\ br' = NextRead /\ UNCHANGED <<applied, st, rz, keys, resizes, resizeCh, done>>
    BY <1>10, Zenon DEF SendKey, browserFrame, input, life
  <2>2. /\ KeyHand' = KeyHand /\ SizeHand' = SizeHand /\ InCoalescer' = InCoalescer /\ InBrowser' = InBrowser
        /\ br'.at \in {"read", "end"} /\ (done => br'.at = "end")
    BY <2>1, Zenon DEF KeyHand, SizeHand, InCoalescer, InBrowser, NextRead, At
  <2>3. CASE stdinCh' = stdinCh /\ done
    <3>1. KeyInv'
      BY <1>c, <2>1, <2>2, <2>3, KeyKept, Zenon
    <3>2. SizeInv'
      BY <1>a, <1>c, <2>1, <2>2, <2>3, SizeKept, Zenon
    <3> QED BY <3>1, <3>2, Zenon
  <2>4. CASE stdinCh' = Append(stdinCh, br.m)
    <3>1. Added(stdinCh, stdinCh', br.m)
      BY <2>4, <1>c, AppendAdds, Zenon
    <3>2. KeyInv'
      BY <2>1, <3>1, KeySent, Zenon
    <3>3. br.m.t \notin Rs
      BY <2>1, Zenon DEF KeyInv, Ks, Rs
    <3>4. SameNums(Rs, stdinCh, stdinCh')
      BY <3>1, <3>3, <1>c, OtherKind, Zenon
    <3>5. SizeInv'
      BY <1>a, <3>4, <2>1, <2>2, SizeKept, Zenon
    <3> QED BY <3>2, <3>5, Zenon
  <2> QED BY <1>10, <2>3, <2>4, Zenon DEF SendKey
<1>11. CASE ReadTooLarge \/ ReadPing \/ ReadError
  <2> /\ UNCHANGED <<stdinCh, applied, st, rz, keys, resizes, resizeCh>>
      /\ br.at = "read" /\ br'.at \in {"read", "end"}
    BY <1>11 DEF ReadTooLarge, ReadPing, ReadError, browserFrame, input, NextRead, At, Holding
  <2> QED BY <1>d, Zenon
<1>12. CASE ReadResize
  <2>1. /\ br.at = "read" /\ resizes' = resizes + 1
        /\ UNCHANGED <<stdinCh, applied, st, rz, keys, done>> /\ br'.at \notin {"stdin"}
        /\ IF resizeCh = 0
           THEN resizeCh' = resizes + 1 /\ br' = NextRead
           ELSE resizeCh' = resizeCh /\ br' = Holding("full", Resize(resizes + 1))
    BY <1>12 DEF ReadResize, browserFrame, input, life, NextRead, At, Holding
  <2>2. SizeInv'
    BY <2>1, SizeRead, Zenon
  <2>3. KeyHand' = KeyHand
    BY <2>1, Zenon DEF KeyHand
  <2>4. KeyInv'
    BY <1>c, <2>1, <2>3, KeyKept, Zenon
  <2> QED BY <2>2, <2>4, Zenon
<1>13. CASE PushEmpty
  <2>1. /\ br.at = "full" /\ resizeCh' = 0 /\ br' = [br EXCEPT !.at = "emptied"] /\ br'.at = "emptied"
        /\ UNCHANGED <<stdinCh, applied, st, rz, keys, resizes, done>>
    BY <1>13, Zenon DEF PushEmpty, browserFrame, input, life, InTypes
  <2>2. SizeInv'
    BY <2>1, SizeEmptied, Zenon
  <2>3. KeyHand' = KeyHand
    BY <2>1, Zenon DEF KeyHand
  <2>4. KeyInv'
    BY <1>c, <2>1, <2>3, KeyKept, Zenon
  <2> QED BY <2>2, <2>4, Zenon
<1>14. CASE PushPut
  <2>1. /\ br.at = "emptied" /\ br' = NextRead /\ br'.at \notin {"stdin"}
        /\ resizeCh' = IF resizeCh = 0 THEN br.m.n ELSE resizeCh
        /\ UNCHANGED <<stdinCh, applied, st, rz, keys, resizes, done>>
    BY <1>14, Zenon DEF PushPut, browserFrame, input, life, NextRead, At
  <2>2. SizeInv'
    BY <2>1, SizePut, Zenon
  <2>3. KeyHand' = KeyHand
    BY <2>1, Zenon DEF KeyHand
  <2>4. KeyInv'
    BY <1>c, <2>1, <2>3, KeyKept, Zenon
  <2> QED BY <2>2, <2>4, Zenon
<1>15. CASE ReaderMoves \/ WriterMoves \/ FinalClose \/ RestMoves
  <2> UNCHANGED <<stdinCh, applied, st, rz, br, keys, resizes, resizeCh>>
    BY <1>15, InQuiet, Zenon DEF inVars
  <2> QED BY <1>d, Zenon
<1> QED BY <1>1, <1>2, <1>3, <1>4, <1>5, <1>6, <1>7, <1>8, <1>9, <1>10, <1>11, <1>12, <1>13,
           <1>14, <1>15, Moves, Zenon DEF InputMoves, BrowserMoves

(* The inductive invariant. *)
BridgeInv == OutTypes /\ InTypes /\ EndInv /\ FrameInv /\ CoverInv /\ TextInv /\ KeyInv /\ SizeInv

(* An empty queue carries nothing. *)
LEMMA EmptyNums ==
    ASSUME NEW T
    PROVE  Nums(T, <<>>) = {} /\ Rising(T, <<>>)
<1>1. DOMAIN <<>> = {}
  OBVIOUS
<1> QED BY <1>1, Zenon DEF Nums, Rising

(* A bridge that has just launched its controller satisfies it. *)
LEMMA BridgeInitInv == BridgeInit => BridgeInv
<1> SUFFICES ASSUME BridgeInit PROVE BridgeInv
  BY Zenon
<1>a. /\ rd = At("scan") /\ lastSeq = -1 /\ accepted = <<>> /\ sent = <<>> /\ wr = At("idle")
      /\ outCh = <<Text("opened")>> /\ main = "wait" /\ done = FALSE /\ base = TRUE /\ failed = FALSE
      /\ close = [set |-> FALSE, why |-> "", msg |-> "none"] /\ sock = "open"
  BY Zenon DEF BridgeInit
<1>c. /\ stdinCh = <<>> /\ resizeCh = 0 /\ applied = <<>>
      /\ st = At("idle") /\ rz = At("loop") /\ br = At("read") /\ keys = 0 /\ resizes = 0
  BY Zenon DEF BridgeInit
<1>b. Text("opened") \in Msgs /\ Nothing \in Msgs
  BY MsgFacts, Zenon
<1>j. /\ rd.at = "scan" /\ wr.at = "idle" /\ rd \in [at : ReadPts, m : Msgs] /\ wr \in [at : WritePts, m : Msgs]
  BY <1>a, <1>b, Zenon DEF At, ReadPts, WritePts
<1>k. /\ st.at = "idle" /\ br.at = "read" /\ rz.m = Nothing
      /\ st \in [at : {"idle", "writing", "end"}, m : Msgs]
      /\ rz \in [at : {"loop", "send", "end"}, m : Msgs]
      /\ br \in [at : BrowserPts, m : Msgs]
  BY <1>c, <1>b, Zenon DEF At, BrowserPts
<1>l. <<Text("opened")>> \in Seq(Msgs) /\ <<>> \in Seq(Msgs) /\ <<>> \in Seq(Nat)
  BY <1>b
<1>1. OutTypes
  <2>a. lastSeq = -1
    BY <1>a, Zenon
  <2>1. lastSeq \in Int /\ lastSeq >= -1
    BY <2>a
  <2>2. accepted \in Seq(Nat) /\ outCh \in Seq(Msgs) /\ sent \in Seq(Msgs)
    BY <1>a, <1>l, Zenon
  <2> QED BY <2>1, <2>2, <1>j, Zenon DEF OutTypes
<1>2. InTypes
  BY <1>c, <1>k, <1>l DEF InTypes, Nothing
<1>3. EndInv
  BY <1>a, <1>j, Zenon DEF EndInv, Whys, Endgame, OverPts
<1>d. /\ DOMAIN accepted = {} /\ DOMAIN sent = {} /\ DOMAIN outCh = {1} /\ outCh[1] = Text("opened")
      /\ outCh # <<>>
  <2>1. DOMAIN <<>> = {} /\ DOMAIN <<Text("opened")>> = 1 .. 1 /\ <<Text("opened")>>[1] = Text("opened")
        /\ Len(<<Text("opened")>>) = 1 /\ Len(<<>>) = 0
    OBVIOUS
  <2>2. 1 .. 1 = {1} /\ <<Text("opened")>> # <<>>
    BY <2>1
  <2> QED BY <1>a, <2>1, <2>2, Zenon
<1>e. Nums(Fr, sent) = {} /\ Rising(Fr, sent) /\ Nums(Fr, outCh) = {} /\ Rising(Fr, outCh)
  BY <1>d DEF Nums, Rising, Fr, Text
<1>f. Acc = {} /\ InWriter = {} /\ Flow = {} /\ ~Offering
  BY <1>j, <1>d, <1>e, Zenon DEF Acc, InWriter, Flow, Carried, Offering
<1>4. FrameInv
  BY <1>d, <1>e, <1>f, Zenon DEF FrameInv, InLine, AllBelow
<1>5. CoverInv
  BY <1>f, Zenon DEF CoverInv
<1>6. TextInv
  <2>1. ~Held /\ Text("opened").t = "opened" /\ ~Closing(Text("opened"))
    BY <1>j, Zenon DEF Held, Closing, Text
  <2> QED BY <1>a, <1>d, <1>j, <2>1, Zenon DEF TextInv
<1>g. /\ KeyHand = {} /\ SizeHand = {} /\ InCoalescer = {} /\ InResizeCh = {} /\ InBrowser = {}
  BY <1>c, <1>k DEF KeyHand, SizeHand, InCoalescer, InResizeCh, InBrowser, NumOf, Rs, Nothing
<1>h. /\ Nums(Ks, <<>>) = {} /\ Rising(Ks, <<>>) /\ Nums(Rs, <<>>) = {} /\ Rising(Rs, <<>>)
  BY EmptyNums, Zenon
<1>i. KeyFlow = {} /\ SizeFlow = {}
  BY <1>c, <1>g, <1>h, Zenon DEF KeyFlow, SizeFlow, Carried
<1>7. KeyInv
  <2>1. 1 .. keys = {} /\ br.at = "read"
    BY <1>c, <1>k
  <2>2. InLine(Ks, applied, KeyHand, stdinCh)
    BY <1>c, <1>g, <1>h, Zenon DEF InLine, AllBelow
  <2> QED BY <2>1, <2>2, <1>i, Zenon DEF KeyInv
<1>8. SizeInv
  <2>1. br.at = "read" /\ ~(resizes > 0)
    BY <1>c, <1>k
  <2>2. InLine(Rs, applied, SizeHand, stdinCh)
    BY <1>c, <1>g, <1>h, Zenon DEF InLine, AllBelow
  <2> QED BY <2>1, <2>2, <1>g, <1>i, Zenon DEF SizeInv, AllBelow
<1> QED BY <1>1, <1>2, <1>3, <1>4, <1>5, <1>6, <1>7, <1>8, Zenon DEF BridgeInv

(* Every step keeps it. *)
LEMMA BridgeStep == BridgeInv /\ [BridgeNext]_bridgeVars => BridgeInv'
<1> SUFFICES ASSUME BridgeInv, [BridgeNext]_bridgeVars PROVE BridgeInv'
  BY Zenon
<1> USE DEF BridgeInv
<1>1. CASE BridgeNext
  <2>1. OutTypes'
    BY <1>1, OutTypesStep, Zenon
  <2>2. InTypes'
    BY <1>1, InTypesStep, Zenon
  <2>3. EndInv'
    BY <1>1, EndStep, Zenon
  <2>4. FrameInv' /\ CoverInv'
    BY <1>1, <2>3, FrameStep, Zenon
  <2>5. TextInv'
    BY <1>1, TextStep, Zenon
  <2>6. KeyInv' /\ SizeInv'
    BY <1>1, InStep, Zenon
  <2> QED BY <2>1, <2>2, <2>3, <2>4, <2>5, <2>6, Zenon
<1>2. CASE UNCHANGED bridgeVars
  <2>1. UNCHANGED <<outVars, inVars, life, failed>>
    BY <1>2, Zenon DEF bridgeVars, outVars, inVars, life, reader, writer, input, browser
  <2>a. OutTypes'
    BY <2>1, Zenon DEF outVars, OutTypes
  <2>b. InTypes'
    BY <2>1, Zenon DEF inVars, InTypes
  <2>2. EndInv'
    BY <2>1, Zenon DEF outVars, life, EndInv
  <2>3. FrameInv' /\ CoverInv'
    BY <2>1, Zenon DEF outVars, life, FrameInv, CoverInv, Acc, Flow, InWriter, Leftover, Offering
  <2>4. TextInv'
    BY <2>1, Zenon DEF outVars, life, TextInv, Held
  <2>5. KeyInv' /\ SizeInv'
    BY <2>1, Zenon DEF inVars, life, KeyInv, SizeInv, KeyHand, KeyFlow, KeyLeft, SizeHand, SizeFlow,
       InCoalescer, InResizeCh, InBrowser
  <2> QED BY <2>a, <2>b, <2>2, <2>3, <2>4, <2>5, Zenon
<1> QED BY <1>1, <1>2, Zenon

(* A message of a kind counts among the numbers of that kind. *)
LEMMA NumberIs ==
    ASSUME NEW T, NEW s \in Seq(Msgs)
    PROVE  \A i \in DOMAIN s : s[i] \in Msgs /\ (s[i].t \in T => s[i].n \in Nums(T, s))
<1>1. \A i \in DOMAIN s : s[i] \in Msgs
  OBVIOUS
<1>2. \A i \in DOMAIN s : s[i].n \in Nat
  BY <1>1, Zenon DEF Msgs
<1> QED BY <1>1, <1>2, Zenon DEF Nums

(* A size is its number. *)
LEMMA ResizeIs ==
    ASSUME NEW e \in Msgs, NEW n, n \in NumOf(Rs, e)
    PROVE  e = Resize(n)
BY Zenon DEF NumOf, Rs, Resize, Msgs

(* A frame is its number. *)
LEMMA FrameIs ==
    ASSUME NEW e \in Msgs, e.t \in Fr
    PROVE  e = Frame(e.n)
BY Zenon DEF Fr, Frame, Msgs

(* The invariant says that the bridge is faithful. *)
LEMMA BridgeInvMeans == BridgeInv => BridgeFaithful
<1> SUFFICES ASSUME BridgeInv PROVE BridgeFaithful
  BY Zenon
<1>a. /\ OutTypes /\ InTypes /\ EndInv /\ FrameInv /\ CoverInv /\ TextInv /\ KeyInv /\ SizeInv
  BY Zenon DEF BridgeInv
<1>b. /\ sent \in Seq(Msgs) /\ applied \in Seq(Msgs) /\ stdinCh \in Seq(Msgs)
      /\ st.m \in Msgs /\ rz.m \in Msgs /\ keys \in Nat
  BY <1>a, Zenon DEF OutTypes, InTypes
<1>c. \A n \in Nums(Fr, sent) : Shown(n)
  <2>1. \A i \in DOMAIN sent : sent[i] \in Msgs
    BY <1>b
  <2>2. \A i \in DOMAIN sent : sent[i].t \in Fr => sent[i] = Frame(sent[i].n)
    BY <2>1, FrameIs, Zenon
  <2> QED BY <2>2, Zenon DEF Nums, Shown
<1>d. \A k \in DOMAIN accepted : accepted[k] \in Acc
  BY Zenon DEF Acc
<1>1. NoGap
  <2>1. \A i \in DOMAIN sent : sent[i].t = "frame" => sent[i].n \in Nums(Fr, sent)
    BY <1>b, NumberIs, Zenon DEF Fr
  <2>2. \A i \in DOMAIN sent : sent[i].t = "frame" => \E k \in DOMAIN accepted : accepted[k] = sent[i].n
    BY <2>1, <1>a, Zenon DEF FrameInv, Flow, Carried, Acc
  <2>3. \A i \in DOMAIN sent : sent[i].t = "frame" =>
            \A k \in DOMAIN accepted : accepted[k] < sent[i].n => Shown(accepted[k])
    BY <2>1, <1>a, <1>c, <1>d, Zenon DEF FrameInv
  <2>4. \A i, j \in DOMAIN sent : i < j /\ sent[i].t = "frame" /\ sent[j].t = "frame" => sent[i].n < sent[j].n
    BY <1>a, Zenon DEF FrameInv, InLine, Rising, Fr
  <2>5. \A i, j \in DOMAIN sent : j > i <=> i < j
    BY <1>b, Zenon
  <2>6. \A i, j \in DOMAIN accepted : i < j => accepted[i] < accepted[j]
    BY <1>a, Zenon DEF FrameInv
  <2> QED BY <2>2, <2>3, <2>4, <2>5, <2>6, Zenon DEF NoGap
<1>2. FinalOutput
  <2> SUFFICES ASSUME main \in {"join", "reap", "returned"}, base, ~failed,
                      close.why \in {"conflict", "closed", "ended"}
               PROVE  \A k \in DOMAIN accepted : Shown(accepted[k])
    BY Zenon DEF FinalOutput
  <2>1. wr.at = "done"
    BY <1>a, Zenon DEF EndInv, OverPts
  <2>2. Acc \subseteq Nums(Fr, sent)
    BY <2>1, <1>a, Zenon DEF CoverInv, Endgame
  <2> QED BY <2>2, <1>c, <1>d, Zenon
<1>3. ReasonLast
  BY <1>a, Zenon DEF ReasonLast, TextInv, Closing
<1>4. NewestResizeKept
  <2> SUFFICES ASSUME resizes > 0, ~done
               PROVE  \/ resizeCh = resizes
                      \/ \E g \in {br, rz, st} : g.m = Resize(resizes)
                      \/ \E i \in DOMAIN stdinCh : stdinCh[i] = Resize(resizes)
                      \/ \E i \in DOMAIN applied : applied[i] = Resize(resizes)
    BY Zenon DEF NewestResizeKept
  <2>1. resizes \in SizeFlow \cup InCoalescer \cup InResizeCh \cup InBrowser
    BY <1>a, Zenon DEF SizeInv
  <2>2. CASE resizes \in Nums(Rs, applied)
    <3>1. PICK i \in DOMAIN applied : applied[i].t \in Rs /\ applied[i].n = resizes
      BY <2>2, Zenon DEF Nums
    <3>2. applied[i] \in Msgs /\ resizes \in NumOf(Rs, applied[i])
      BY <3>1, <1>b DEF NumOf
    <3> QED BY <3>2, ResizeIs, Zenon
  <2>3. CASE resizes \in Nums(Rs, stdinCh)
    <3>1. PICK i \in DOMAIN stdinCh : stdinCh[i].t \in Rs /\ stdinCh[i].n = resizes
      BY <2>3, Zenon DEF Nums
    <3>2. stdinCh[i] \in Msgs /\ resizes \in NumOf(Rs, stdinCh[i])
      BY <3>1, <1>b DEF NumOf
    <3> QED BY <3>2, ResizeIs, Zenon
  <2>4. CASE resizes \in SizeHand
    <3>1. resizes \in NumOf(Rs, st.m)
      BY <2>4, Zenon DEF SizeHand
    <3> QED BY <3>1, <1>b, ResizeIs, Zenon
  <2>5. CASE resizes \in InCoalescer
    <3>1. resizes \in NumOf(Rs, rz.m)
      BY <2>5, Zenon DEF InCoalescer
    <3> QED BY <3>1, <1>b, ResizeIs, Zenon
  <2>6. CASE resizes \in InResizeCh
    BY <2>6, Zenon DEF InResizeCh
  <2>7. CASE resizes \in InBrowser
    BY <2>7, <1>a, Zenon DEF InBrowser, SizeInv
  <2> QED BY <2>1, <2>2, <2>3, <2>4, <2>5, <2>6, <2>7, Zenon DEF SizeFlow, Carried
<1>5. CommandsInOrder
  <2>1. Rising(Ks, applied) /\ Rising(Rs, applied)
    BY <1>a, Zenon DEF KeyInv, SizeInv, InLine
  <2>2. \A i, j \in DOMAIN applied : i < j =>
          /\ IsKey(applied[i]) /\ IsKey(applied[j]) => applied[i].n < applied[j].n
          /\ IsSize(applied[i]) /\ IsSize(applied[j]) => applied[i].n < applied[j].n
    BY <2>1, Zenon DEF Rising, IsKey, IsSize, Ks, Rs
  <2>3. ASSUME NEW i \in DOMAIN applied, IsKey(applied[i]), NEW k \in 1 .. applied[i].n
        PROVE  \E j \in DOMAIN applied : IsKey(applied[j]) /\ applied[j].n = k
    <3>1. applied[i].n \in Nums(Ks, applied)
      BY <1>b, <2>3, NumberIs, Zenon DEF IsKey, Ks
    <3>2. applied[i].n \in Nat /\ applied[i].n <= keys
      BY <3>1, <1>a, Zenon DEF KeyInv, KeyFlow, Carried
    <3>3. CASE k = applied[i].n
      BY <3>3, <2>3, Zenon
    <3>4. CASE k < applied[i].n
      <4>1. k \in 1 .. keys
        BY <3>2, <1>b
      <4>2. k \in Nums(Ks, applied)
        BY <4>1, <3>1, <3>4, <1>a, Zenon DEF KeyInv
      <4> QED BY <4>2, Zenon DEF Nums, IsKey, Ks
    <3> QED BY <3>2, <3>3, <3>4
  <2> QED BY <2>2, <2>3, Zenon DEF CommandsInOrder
<1> QED BY <1>1, <1>2, <1>3, <1>4, <1>5, Zenon DEF BridgeFaithful

(* The bridge is faithful both ways, for any queue capacities, frame numbers and number of
   commands: frames reach the browser in order without a gap, all of them before a reason
   the controller gave, and the first recorded reason last; commands reach the controller
   in order, and the newest size is never lost (handleFrame, enqueue, drainOut, setClose,
   finalClose, readBrowser, stdinLoop, pushResize). *)
THEOREM BridgeIsFaithful == BridgeSpec => []BridgeFaithful
<1>1. BridgeInit => BridgeInv
  BY BridgeInitInv, Zenon
<1>2. BridgeInv /\ [BridgeNext]_bridgeVars => BridgeInv'
  BY BridgeStep, Zenon
<1>3. BridgeInv => BridgeFaithful
  BY BridgeInvMeans, Zenon
<1> QED BY <1>1, <1>2, <1>3, PTL DEF BridgeSpec
=============================================================================
