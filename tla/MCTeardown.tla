----------------------------- MODULE MCTeardown -----------------------------
(***************************************************************************)
(* That what the relay runs comes to an end: a terminal's bridge with its  *)
(* controller (the module itself) and the tunnel child.  A behaviour is    *)
(* one scenario of the component `part' names; the other one rests in its  *)
(* initial state.                                                          *)
(***************************************************************************)
EXTENDS TerminalBridge

VARIABLES part,
    clock, table, pidfile, crashes, pc, handle, hready, hdone, stop, ctx, token,
    consecutive, aged, deadline, state, left, lost

Child == INSTANCE Tunnel
         WITH Pids <- {"p1"}, NoPid <- "none", MaxClock <- 2, MaxCrashes <- 1,
              MaxStrangers <- 0, MaxConsecutive <- 2, Tolerance <- 1, Grace <- 1,
              TokenCommand <- TRUE, PsMayFail <- FALSE, WriteMayFail <- FALSE

tunnelVars == <<clock, table, pidfile, crashes, pc, handle, hready, hdone, stop, ctx, token,
                consecutive, aged, deadline, state, left, lost>>

MCInit == part \in {"output", "release", "tunnel"} /\ BridgeInit /\ Child!Init

(* The browser sends nothing; or it releases the terminal of a quiet controller. *)
Silent == keys' = 0
Quiet == lastSeq' = -1

MCNext ==
    /\ part' = part
    /\ \/ part = "output" /\ BridgeNext /\ Silent /\ UNCHANGED tunnelVars
       \/ part = "release" /\ BridgeNext /\ Quiet /\ UNCHANGED tunnelVars
       \/ part = "tunnel" /\ Child!Next /\ UNCHANGED bridgeVars

(* Each component's own fairness, asked while it is the one that runs. *)
Bridging == part \in {"output", "release"}

BridgeRuns ==
    /\ WF_bridgeVars(Bridging /\ (Offer \/ OfferFull \/ OfferCancelled \/ OfferTimeout))
    /\ WF_bridgeVars(Bridging /\ ReadEOF)
    /\ WF_bridgeVars(Bridging /\ (TakeOut \/ Register \/ WriteOK \/ WriteFail \/ WriterEnds))
    /\ WF_bridgeVars(Bridging /\ (StdinTake \/ StdinWrite \/ StdinFail \/ StdinEnds))
    /\ WF_bridgeVars(Bridging /\ (ResizeTake \/ ResizeTick \/ ResizeSend))
    /\ WF_bridgeVars(Bridging /\ ResizeEnds)
    /\ WF_bridgeVars(Bridging /\ (SendKey \/ PushEmpty \/ PushPut))
    /\ WF_bridgeVars(Bridging /\ ReadError /\ sock = "closed")
    /\ WF_bridgeVars(Bridging /\ (PingTick \/ PingFail))
    /\ WF_bridgeVars(Bridging /\ PingOK)
    /\ WF_bridgeVars(Bridging /\ PingEnds)
    /\ WF_bridgeVars(Bridging /\ (Terminate \/ FinalClose \/ Join \/ ReapController))
    /\ WF_bridgeVars(Bridging /\ CtrlExit /\ (done \/ Released))

TunnelRuns ==
    /\ WF_tunnelVars(part = "tunnel" /\ Child!Step)
    /\ WF_tunnelVars(part = "tunnel" /\ Child!Tick)
    /\ WF_tunnelVars(part = "tunnel" /\ Child!Wakes)
    /\ WF_tunnelVars(part = "tunnel" /\ Child!Reap)

MCSpec ==
    /\ MCInit /\ [][MCNext]_<<part, bridgeVars, tunnelVars>>
    /\ BridgeRuns /\ TunnelRuns

(* What the relay runs comes to an end: a bridge once it is cancelled, released or
   its browser vanished; a tunnel child within the grace period and the kill; and
   a child that keeps crashing makes the supervisor give up (bridge.run,
   stopProcess, afterFailure). *)
ChildrenEnd ==
    /\ TeardownCompletes /\ ReleaseEnds
    /\ part = "tunnel" => Child!StopCompletes /\ Child!FlappingEnds
=============================================================================
