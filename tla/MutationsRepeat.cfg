SPECIFICATION Spec
CONSTANTS
    Handlers = {h1, h2}
    Sessions = {s1}
    RequestIds = {r1}
    Ops = {split}
    PaneOps = {split}
    ConfirmOps = {}
    Gens = {1}
    Deadlines = {0}
    Tokens = {}
    NoToken = NoToken
    ServerDeadline = 1
    Skew = 0
    IdempotencyTTL = 5
    ConfirmationTTL = 1
    MinReservation = 0
    Grace = 1
    MaxTime = 3
    MaxGenChanges = 1
INVARIANT RetryCannotRepeat
CHECK_DEADLOCK FALSE
