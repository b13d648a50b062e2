CONSTANTS
    Keys = {k1, k2}
    NoKey = NoKey
    Requests = {r1, r2, r3}
    TTL = 1
    MaxTurns = 2
    Windows = {3, 4}
    MaxStops = 2
SPECIFICATION Spec
INVARIANTS WholeTurns  CompactionFaithful
CHECK_DEADLOCK FALSE
