SPECIFICATION FairSpec
CONSTANTS
  Callers = {c1, c2}
  Tasks = {t1, t2}
  NoTask = NoTask
INVARIANTS Inv
PROPERTIES KeepsPromise EveryCallAnswered BusyEnds
