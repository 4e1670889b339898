SPECIFICATION MCSpec
CONSTANTS
    h1 = h1
    h2 = h2
    h3 = h3
    r1 = r1
    r2 = r2
    split = split
    rename = rename
    close = close
    zap = zap
    t1 = t1
    NoToken = NoToken
    Handlers = {h1, h2, h3}
    Sessions = {s1}
    RequestIds = {r1, r2}
    Ops = {split, rename, close, zap}
    PaneOps = {split, close}
    ConfirmOps = {close, zap}
    Gens = {0, 1}
    Deadlines = {0, 3}
    Tokens = {t1}
    ServerDeadline = 1
    Skew = 1
    IdempotencyTTL = 1
    ConfirmationTTL = 1
    MinReservation = 0
    Grace = 1
    MaxTime = 3
    MaxGenChanges = 2
INVARIANT AnswersAreOwn
INVARIANT SoleOwner
INVARIANT NoncesSound
PROPERTY NoRepeatAfterAnswer
SYMMETRY MCSymmetry
CHECK_DEADLOCK FALSE
