SPECIFICATION MCSpec
CONSTANTS
    Cmds = {c1, c2}
    Serves = {d1, d2}
    None = None
    Ops = {"start", "stop", "toggle", "serve"}
    MaxKills = 1
    Slow = TRUE
    Fails = TRUE
    Quick = FALSE
    Timeouts = TRUE
    Reaps = TRUE
    Recycle = TRUE
INVARIANT FilesOwned
PROPERTY SuccessMeansDaemon
PROPERTY TeardownOrdered
PROPERTY DaemonSettles
CHECK_DEADLOCK FALSE
