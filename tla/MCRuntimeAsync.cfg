\* The same with q1 as the queue of async().
CONSTANTS
  Queues = {q1, q2}
  AsyncQueue = q1
  ResumableTasks = {r1, r2}
  PlainTasks = {p1}
  Main = Main
  None = None
SPECIFICATION Spec
INVARIANT AsyncMayPush
CHECK_DEADLOCK FALSE
