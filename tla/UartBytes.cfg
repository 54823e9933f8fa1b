SPECIFICATION FairSpec
CONSTANTS
  None = None
  Writer = w  Reader = r
  BufLens = {2}
  Depth = 2
  MaxIn = 3  MaxOut = 2
INVARIANTS TypeOK NoLostWakeup NoByteLost
PROPERTIES NoOverwrite ArrivalResolves
