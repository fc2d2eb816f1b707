SPECIFICATION BridgeSpec
CONSTANTS
  Poller = Poller
  Server = Server
  Coroutines = {Poller, Server}
  Nothing = Nothing
  MaxFrames = 3
  MaxCommands = 1
INVARIANTS BridgeInv CacheTrue LastCommandWins
PROPERTIES ComesToShow
CHECK_DEADLOCK FALSE
