\* join() discards a queued resume: expected to be violated.
CONSTANTS
  ResumableTasks = {r1}
  PlainTasks = {p1}
  Contexts = {c1}
  MaxAwaits = 1
  None = None
SPECIFICATION FairSpec
PROPERTIES
  JoinReturns
