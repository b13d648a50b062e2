CONSTANTS
    m1 = m1
    m2 = m2
    q1 = q1
    q2 = q2
    Models = {m1, m2}
    Requests = {q1, q2}
    ChainDefs <- MCChainDefs
    Inputs <- MCInputs
    None = None
    MinRequests = 1
    ThresholdNum = 1
    ThresholdDen = 2
    WindowDuration = 0
    HalfOpenAfter = 1
    ProbeCount = 1
SPECIFICATION Spec
INVARIANTS JudgeHearsSurvivors
PROPERTIES StepsKeepPromise 
