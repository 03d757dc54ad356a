\* Three tasks and two calls of stop(), which may overlap.
CONSTANTS
  Tasks = {t1, t2, t3}
  Stoppers = {p1, p2}
  None = None
SPECIFICATION FairSpec
INVARIANTS
  NoLostSignal
  RunInOrder
  CleanExit
PROPERTIES
  TaskRuns
  StopReturns
