SPECIFICATION Spec
CONSTANTS
  Tv = Tv
  Devices = {Tv}
  Handlers = {h1, h2, h3}
  Callers = {h1, h2, h3}
  Inhibitors = {i1, i2}
  NoInhibitor = NoInhibitor
  Sleeps = 2
INVARIANTS Inv ReadyWhenQuiet SomeoneLetsGo
PROPERTIES CommandsFinishFirst RebootSparesTv
CHECK_DEADLOCK FALSE
SYMMETRY Symmetry
