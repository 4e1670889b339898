SPECIFICATION MCSpec
CONSTANTS
    Seqs = {0}
    OutQueue = 1
    StdinQueue = 1
    MaxKeys = 1
    MaxResizes = 0
    MaxPongs = 0
    Endings = {"vanish"}
PROPERTY ChildrenEnd
CHECK_DEADLOCK FALSE
