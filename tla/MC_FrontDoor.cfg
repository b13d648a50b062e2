CONSTANTS
    None = None
    r1 = r1
    r2 = r2
    r3 = r3
    Tenants = {"t1", "t2"}
    Tokens <- MC_Tokens
    Configs <- MC_Configs
    Requests = {r1, r2, r3}
    Credentials <- MC_Credentials
    Estimates = {2, 5}
    Used = {2}
    MaxInFlight = 2
SPECIFICATION Spec
INVARIANTS SlotsAccounted  ReloadConverges
SYMMETRY Slots
CHECK_DEADLOCK FALSE
