SPECIFICATION Spec
CONSTANTS
  Candidates = {c1}
  MaxOffers = 1
  MaxRemotes = 2
  MaxChanges = 2
  MaxRestarts = 2
PROPERTIES BufferedReachAgent SilentPeerCloses LostConnectionCloses KeepaliveEnds
CHECK_DEADLOCK FALSE
