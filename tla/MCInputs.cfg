SPECIFICATION InputsSpec
CONSTANTS
  a = a
  b = b
  Paths = {a, b}
  MaxDevices = 2
INVARIANTS InputsInv NeverMistaken
PROPERTIES WatchesAll
CHECK_DEADLOCK FALSE
