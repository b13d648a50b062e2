CONSTANTS
    Users <- MC_Users
    Messages <- MC_Messages
    Patterns <- MC_Patterns
    MaxPerUser = 2
    MaxSaves = 3
    MaxDeletes = 1
    MaxStops = 1
    MaxFaults = 1
SPECIFICATION Spec
INVARIANTS RestoresExactly JournalCovers DeletedStaysGone
CHECK_DEADLOCK FALSE
