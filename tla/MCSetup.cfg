SPECIFICATION Spec
CONSTANTS
  MaxEdits = 3
INVARIANTS Inv StaysLoadable EditsKept ReloadTruthful
CHECK_DEADLOCK FALSE
