CONSTANTS
    NoID = NoID
    Callers <- MC_Callers
    Limits <- MC_Limits
    Costs = {6, 12}
    MaxCalls = 3
    BufSize = 2
    MaxStops = 1
SPECIFICATION Spec
INVARIANTS LedgerBalances ReservationsFit
  
CHECK_DEADLOCK FALSE
