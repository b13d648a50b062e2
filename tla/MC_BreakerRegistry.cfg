CONSTANTS
    r1 = r1
    r2 = r2
    q1 = q1
    q2 = q2
    q3 = q3
    Replicas = {r1, r2}
    Requests = {q1, q2, q3}
    Home <- TwoAndOne
    StoreFails = TRUE
    MinRequests = 2
    ThresholdNum = 1
    ThresholdDen = 2
    WindowDuration = 1
    HalfOpenAfter = 1
    ProbeCount = 1
    MaxTotal = 2
    None = None
SPECIFICATION Spec
SYMMETRY Symmetry
INVARIANTS ExclusionHasEvidence SeededOpenWaits
