SPECIFICATION Spec
CONSTANTS
    NumConns = 1
    MaxOpens = 1
    MaxReads = 0
    MaxCloses = 1
    MaxInputs = 1
    MaxDeaths = 0
    StrayCloses = FALSE
    Reads <- MCReads
PROPERTY CloseRemoves
CHECK_DEADLOCK FALSE
