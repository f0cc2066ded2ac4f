SPECIFICATION Spec
CONSTANTS
  Conns = {c1, c2}
  MaxFrames = 4
  FramesOf <- OneBusy
  MaxQueue = 3
  BatchLimit = 2
  Word = 16
  SctpCapacity = 1
  LowThreshold = 0
CHECK_DEADLOCK FALSE
INVARIANTS CounterExact QueueBounded NothingVanishes
PROPERTY SendersDeliver
