SPECIFICATION MCSpec
CONSTANTS
    Keys = {k1, k2}
    Callers = {c1, c2}
    Every = 1
    Burst = 2
    SweepInterval = 2
    IdleTTL = 4
    Delay = 1
    MaxTime = 4
    Requests = {r1, r2}
    Sessions = {s1, s2}
    Confirmations = {n}
    MaxOccupants = 2
INVARIANT BucketsSound
 
 
INVARIANT RoutesGuarded
INVARIANT FilterSound
SYMMETRY MCSymmetry
CHECK_DEADLOCK FALSE
