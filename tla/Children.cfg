SPECIFICATION MCSpec
CONSTANTS
    Pids = {p1, p2}
    NoPid = NoPid
    MaxClock = 3
    MaxCrashes = 1
    MaxStrangers = 1
    MaxConsecutive = 2
    Tolerance = 1
    Grace = 1
    TokenCommand = TRUE
    PsMayFail = TRUE
    WriteMayFail = TRUE
    Seqs = {0, 1}
    OutQueue = 1
    StdinQueue = 1
    MaxKeys = 2
    MaxResizes = 2
    MaxPongs = 1
    Endings = {"leave", "large", "server"}
INVARIANT NoStrangerSignalled
 
INVARIANT LogUnderstood
INVARIANT BridgeFaithful
SYMMETRY Symmetry

CHECK_DEADLOCK FALSE
