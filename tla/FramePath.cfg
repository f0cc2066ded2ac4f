SPECIFICATION PathSpec
CONSTANTS
  a = a
  b = b
  Quota <- MCQuota
  MaxMessages = 4
  Conns = {a, b}
  MaxPieces = 3
  MaxLost = 1
  BatchLimit = 2
  Sizes = {2, 3}
  MaxFragments = 2
  Word = 2
CHECK_DEADLOCK FALSE
INVARIANTS LosesAtMostOne StreamsInOrder FramesIntact CompleteDelivered
