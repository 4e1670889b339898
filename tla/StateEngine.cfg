SPECIFICATION MCSpec
CONSTANTS
    Panes = {p1, p2}
    Occupants = {a, b}
    Clients = {c1}
    MaxQueueBytes = 1
    MaxChanges = 2
    MaxFails = 0
INVARIANT GenerationsAgree
INVARIANT NoLostWake
INVARIANT HeldGuardSound
INVARIANT QueueSound
PROPERTY ImplementsTopic
SYMMETRY MCSymmetry
