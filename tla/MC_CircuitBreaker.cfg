CONSTANTS
    Callers = {c1, c2, c3}
    MinRequests = 2
    ThresholdNum = 1
    ThresholdDen = 2
    WindowDuration = 1
    HalfOpenAfter = 2
    ProbeCount = 2
    MaxTotal = 4
SPECIFICATION FairSpec
INVARIANTS SlotsAccounted
PROPERTIES KeepsPromise ProbingEndsUnlessSlotLost
