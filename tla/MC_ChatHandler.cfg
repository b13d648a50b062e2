CONSTANTS
    m1 = m1
    m2 = m2
    m3 = m3
    q1 = q1
    q2 = q2
    Models = {m1, m2, m3}
    Configured = {m1, m2}
    Requests = {q1, q2}
    MinRequests = 1
    ThresholdNum = 1
    ThresholdDen = 2
    WindowDuration = 0
    HalfOpenAfter = 1
    ProbeCount = 1
    MaxTotal = 1
    None = None
SPECIFICATION Spec
SYMMETRY Symmetry
 
PROPERTIES EachKeepsPromise
