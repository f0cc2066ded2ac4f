CONSTANTS
    Socks5 = TRUE
    NumConns = 1
    MaxData = 1
    MaxResets = 1
    MaxCloses = 1
SPECIFICATION Spec
INVARIANTS  EndedReleases
PROPERTIES PeerFollows ClosingRemoved
CHECK_DEADLOCK FALSE
