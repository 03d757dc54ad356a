\* Two queues, two tasks that may await and one that blocks, pushed and awaited
\* by each other and by the client's thread, which joins the queues at any time.
CONSTANTS
  Queues = {q1, q2}
  AsyncQueue = None
  ResumableTasks = {r1, r2}
  PlainTasks = {p1}
  Main = Main
  None = None
SPECIFICATION Spec
INVARIANTS
  AwaitReturnsHome
  AwaitNeverDeadlocks
PROPERTY EndsOrStuck
\* Everybody may wait for ever.
CHECK_DEADLOCK FALSE
