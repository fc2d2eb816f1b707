SPECIFICATION FairSpec
CONSTANTS
  Clients = {1, 2, 3, 4}
  NoClient = NoClient
  Attempts = 2
  Polls = 1
  Modes = {"off", "keep_open"}
  Scenarios <- Ends
PROPERTIES OperationsEnd
CHECK_DEADLOCK FALSE
