\* One future with competing writers, every kind of continuation and two
\* threads that wait.
CONSTANTS
  Setters = {s1}
  QuietSetters = {q1}
  Thens = {t1}
  Nexts = {n1}
  Callbacks = {k1}
  Getters = {g1, g2}
  Signal = Signal
  None = None
SPECIFICATION FairSpec
INVARIANTS
  TypeOK
  ContinuationOnce
  SleeperSignalled
  ReadersAgree
  OneSetSucceeds
  ChildSettled
PROPERTIES
  OutcomeStable
  EveryoneServed
  ImplementsOneShot
