SPECIFICATION TopologySpec
CONSTANTS
  a = a
  b = b
  Managed <- TwoTvs
  Sleepy = {b}
  MaxMoves = 3
INVARIANTS TopologyInv AsSaved
PROPERTIES Settles
CHECK_DEADLOCK FALSE
