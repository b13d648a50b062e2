CONSTANTS
    small = small
    mid1 = mid1
    mid2 = mid2
    large = large
    Models = {small, mid1, mid2, large}
    Window <- Windows
    MaxAttempts = 2
    MaxChain = 3
    None = None
SPECIFICATION FairSpec
INVARIANTS EscalationClimbs CancelStops
PROPERTIES KeepsWalk Terminates
