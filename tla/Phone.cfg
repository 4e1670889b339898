SPECIFICATION MCSpec
CONSTANTS
    Sockets = {"s1", "s2"}
    Polls = {"p1", "p2"}
    Loops = {"l1", "l2"}
    MaxSnapshots = 3
    MaxFails = 1
    MaxWakes = 1
    SocketsOpen = TRUE
    Contents = 4
    MaxChanges = 3
    Recurs = FALSE
    Fetches = {"c1", "c2"}
    MaxMisses = 2
    MaxViews = 3
    Links = {"s1", "s2", "s3"}
    MaxTakeovers = 1
    Activations = {"c1", "c2"}
    MaxDrafts = 2
    MaxPresses = 4
    EarlyReset = FALSE
INVARIANT Connected
INVARIANT TerminalHeld
 
 
 
CHECK_DEADLOCK FALSE
