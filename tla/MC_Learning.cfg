SPECIFICATION Spec
CONSTANTS
    Configured <- MCConfigured
    Requests <- MCRequests
    AllowedSets <- MCAllowedSets
    Outcomes <- MCOutcomes
    MinSamples = 2
    MaxCalls = 2
    MaxRatings = 2
    MaxShadows = 1
    cooldownFailureStreak = 2
    cooldownMax = 3
    Window = 2
    MaxSize = 1
    BufSize = 2
CHECK_DEADLOCK FALSE
INVARIANTS CooldownEarned 
PROPERTIES DecisionSound
