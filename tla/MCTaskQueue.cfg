\* One queue with two coroutines, two plain tasks, and contexts for both: a pool
\* that is empty, holds one, or holds two.
CONSTANTS
  ResumableTasks = {r1, r2}
  PlainTasks = {p1, p2}
  Contexts = {c1, c2}
  MaxAwaits = 2
  None = None
SPECIFICATION FairSpec
INVARIANTS
  TypeOK
  ResumeOnlyAwaiting
  CurrentContext
  PoolAccounting
  NoTaskAbandoned
  WakeUpPendingUntilJoin
PROPERTIES
  PushedTaskEnds
  JoinReturnsIfWoken
  ImplementsExecutor
