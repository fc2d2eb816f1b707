SPECIFICATION ReportsSpec
CONSTANTS
  Lines = 2
  QueueSize = 2
INVARIANTS ReportsInv Informed
PROPERTIES QueueMoves
CHECK_DEADLOCK FALSE
