SPECIFICATION Spec
CONSTANTS
  Clients = {1, 2, 3, 4, 5, 6}
  NoClient = NoClient
  Attempts = 2
  Polls = 1
  Modes = {"off", "keep_open", "keepalive"}
  Scenarios <- Together
INVARIANTS Inv OneSocket
PROPERTIES RequestsKeepConnection
CHECK_DEADLOCK FALSE
