SPECIFICATION FairSpec
CONSTANTS
  Tv = Tv
  Devices = {Tv}
  Wakers <- MCWakers
  Callers <- MCCallers
  Timeout = 1
  Ttl = 1
INVARIANTS Inv DarkIsIdleUnlessExcused
PROPERTIES BlanksOnlyWhenJustified EngineKeepsWatching
