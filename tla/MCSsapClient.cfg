SPECIFICATION Spec
CONSTANTS
  Callers = {c1, c2}
  MaxIds = 3
  MaxWire = 2
INVARIANTS Inv
PROPERTIES LossIsNoticed KeepsPromise
CHECK_DEADLOCK FALSE
