SPECIFICATION Spec
CONSTANTS
  a = a
  b = b
  Devices = {a, b}
  Order <- MCOrder
  Handlers = {h1, h2}
  Wakers = {w1, w2}
  Callers <- MCCallers
  Configs <- MCConfigs
INVARIANTS Inv LastWordWins RestoreRemembers
CHECK_DEADLOCK FALSE
SYMMETRY Symmetry
