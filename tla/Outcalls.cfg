SPECIFICATION MCSpec
CONSTANTS
    Calls = {"a", "b"}
    Askers = {"a", "b"}
    TTL = 1
    MaxMoment = 3
    MaxBuild = 1
INVARIANT CallSound
 
PROPERTY KindsServed
 
CHECK_DEADLOCK FALSE
