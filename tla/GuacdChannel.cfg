SPECIFICATION Spec
CONSTANTS
    NumConns = 2
    MaxOpens = 2
    MaxReads = 1
    MaxDeaths = 1
    MaxCloses = 2
    MaxInputs = 2
    StrayCloses = FALSE
    Reads <- MCReads
INVARIANTS  DisconnectFirst
PROPERTIES ErrorReported SessionEndsChannel
CHECK_DEADLOCK FALSE
