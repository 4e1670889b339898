SPECIFICATION FairSpec
CONSTANTS
    Panes = {p1}
    Occupants = {a}
    Clients = {c1}
    MaxQueueBytes = 0
    MaxChanges = 1
    MaxFails = 1
PROPERTY EngineSettles
