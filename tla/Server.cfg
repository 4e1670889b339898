SPECIFICATION MCSpec
CONSTANTS
    Hub = h
    Browsers = {b1}
    MaxVersions = 3
INVARIANT LastFrameIsNewest
PROPERTY OnlyFirstFrameAhead
PROPERTY ServerSettles
CHECK_DEADLOCK FALSE
