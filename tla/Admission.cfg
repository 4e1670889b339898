SPECIFICATION MCSpec
CONSTANTS
    Named = FALSE
    Reqs = {r1, r2}
    Subjects = {u}
    Expiries = {1}
    TTL = 2
    Idle = 0
    Skew = 0
    MaxSid = 2
    MaxSecret = 3
    MaxTime = 1
    Callers = {r1, r2}
    KeyTTL = 1
    MinRefresh = 1
    MaxDoc = 2
    MaxWall = 3
INVARIANT LogoutIsFinal
PROPERTY PairingSound
PROPERTY NamedSessions
PROPERTY KeysSound
SYMMETRY MCSymmetry
CHECK_DEADLOCK FALSE
