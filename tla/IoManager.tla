------------------------------ MODULE IoManager ------------------------------
(***************************************************************************)
(* lio::iomanager: the thread that runs the libuv loop, the deque of tasks *)
(* other threads leave for it under mutex_ and announce with               *)
(* uv_async_send, and stop(), which asks the loop to end from a task of    *)
(* its own, waits for that task and joins the thread.                      *)
(*                                                                         *)
(* libuv is external: uv_async_send raises a flag, several sends before    *)
(* the callback make one callback, and the loop clears the flag before it  *)
(* calls back; uv_stop lets the callbacks of the iteration end and then    *)
(* uv_run return.                                                          *)
(***************************************************************************)
EXTENDS Naturals, SequencesExt, Functions

CONSTANTS
  Tasks,     \* functions given to execute
  Stoppers,  \* threads that call stop(), never the loop's own
  None       \* an empty std::function

ASSUME IoManagerConstants ==
  /\ Tasks \cap Stoppers = {}
  /\ None \notin Tasks \cup Stoppers

\* A stopper stands for the task its call of stop() executes, too.
Items == Tasks \cup Stoppers

VARIABLES
  task_queue,   \* task_queue_
  signalled,    \* async_signal_task_ has a send its callback has not seen
  loop,         \* where the thread is, see LoopStates
  tasks,        \* tasks: what on_async_new_task swapped out
  uv_stopped,   \* uv_stop was called
  stopper,      \* where a call of stop() is
  executed,     \* what was given to execute, in that order
  done          \* what ran to its end with its promise set, in that order

vars == <<task_queue, signalled, loop, tasks, uv_stopped, stopper, executed, done>>

LoopStates ==
  { "new",       \* run() was not called
    "polling",   \* uv_run, outside the callback
    "swapping",  \* in on_async_new_task, about to lock mutex_
    "running",   \* runs the tasks it swapped out
    "exited",    \* uv_run returned, the thread ended
    "joined" }   \* thread_.join() returned

StopperStates ==
  { "idle",
    "stopping",  \* found the thread joinable, about to execute the stop task
    "waiting",   \* waits for its task's future
    "joining",   \* in thread_.join()
    "returned",
    "failed" }   \* thread_.join() throws: another call joined the thread

Init ==
  /\ task_queue = <<>>
  /\ signalled = FALSE
  /\ loop = "new"
  /\ tasks = <<>>
  /\ uv_stopped = FALSE
  /\ stopper = [p \in Stoppers |-> "idle"]
  /\ executed = <<>>
  /\ done = <<>>

\* A thread that was joined may be followed by another.
run ==
  /\ loop \in {"new", "joined"}
  /\ loop' = "polling"
  /\ UNCHANGED <<task_queue, signalled, tasks, uv_stopped, stopper, executed, done>>

\* Mutant of Enqueue: nothing is sent to a loop that does not run yet.
EnqueueUnsent(x) ==
  /\ executed' = Append(executed, x)
  /\ task_queue' = Append(task_queue, x)
  /\ signalled' = (signalled \/ loop # "new")
  /\ UNCHANGED <<loop, tasks, uv_stopped, done>>

\* impl::execute: push and send with the mutex held.
Enqueue(x) ==
  /\ executed' = Append(executed, x)
  /\ task_queue' = Append(task_queue, x)
  /\ signalled' = TRUE
  /\ UNCHANGED <<loop, tasks, uv_stopped, done>>

\* execute, from any thread, the loop's own included.
execute(t) ==
  /\ t \notin ToSet(executed)
  /\ Enqueue(t)
  /\ UNCHANGED stopper

------------------------------------------------------------------------------
(* The loop thread. *)

\* The loop sees the flag, clears it and calls async_new_task_cb.
AsyncCallback ==
  /\ loop = "polling"
  /\ ~uv_stopped
  /\ signalled
  /\ signalled' = FALSE
  /\ loop' = "swapping"
  /\ UNCHANGED <<task_queue, tasks, uv_stopped, stopper, executed, done>>

\* Mutant of Swap: the deque is copied.
SwapCopies ==
  /\ loop = "swapping"
  /\ tasks' = task_queue
  /\ loop' = IF task_queue = <<>> THEN "polling" ELSE "running"
  /\ UNCHANGED <<task_queue, signalled, uv_stopped, stopper, executed, done>>

\* tasks.swap(task_queue_); the callback ends when there were none.
Swap ==
  /\ loop = "swapping"
  /\ tasks' = task_queue
  /\ task_queue' = <<>>
  /\ loop' = IF task_queue = <<>> THEN "polling" ELSE "running"
  /\ UNCHANGED <<signalled, uv_stopped, stopper, executed, done>>

\* Mutant of RunTask: the task of stop() does not call uv_stop.
RunTaskOn ==
  /\ loop = "running"
  /\ tasks # <<>>
  /\ done' = Append(done, Head(tasks))
  /\ tasks' = Tail(tasks)
  /\ UNCHANGED <<task_queue, signalled, loop, uv_stopped, stopper, executed>>

\* tasks.front()(): a task runs and its promise is set, or the task of stop()
\* calls uv_stop.
RunTask ==
  /\ loop = "running"
  /\ tasks # <<>>
  /\ done' = Append(done, Head(tasks))
  /\ uv_stopped' = (uv_stopped \/ Head(tasks) \in Stoppers)
  /\ tasks' = Tail(tasks)
  /\ UNCHANGED <<task_queue, signalled, loop, stopper, executed>>

\* The batch is done, and the next one is looked for.
NextBatch ==
  /\ loop = "running"
  /\ tasks = <<>>
  /\ loop' = "swapping"
  /\ UNCHANGED <<task_queue, signalled, tasks, uv_stopped, stopper, executed, done>>

\* Mutant of LeaveRun: the callback ends as soon as the loop is stopped.
LeaveRunAtOnce ==
  /\ loop \in {"polling", "running"}
  /\ uv_stopped
  /\ loop' = "exited"
  /\ uv_stopped' = FALSE
  /\ UNCHANGED <<task_queue, signalled, tasks, stopper, executed, done>>

\* uv_run returns, and forgets that it was stopped.
LeaveRun ==
  /\ loop = "polling"
  /\ uv_stopped
  /\ loop' = "exited"
  /\ uv_stopped' = FALSE
  /\ UNCHANGED <<task_queue, signalled, tasks, stopper, executed, done>>

------------------------------------------------------------------------------
(* stop(). *)

StopperMoves(p, from, to) ==
  stopper[p] = from /\ stopper' = [stopper EXCEPT ![p] = to]

joinable == loop \notin {"new", "joined"}

StopCall(p) ==
  /\ StopperMoves(p, "idle", IF joinable THEN "stopping" ELSE "returned")
  /\ UNCHANGED <<task_queue, signalled, loop, tasks, uv_stopped, executed, done>>

StopExecute(p) ==
  /\ StopperMoves(p, "stopping", "waiting")
  /\ Enqueue(p)

StopWait(p) ==
  /\ p \in ToSet(done)
  /\ StopperMoves(p, "waiting", "joining")
  /\ UNCHANGED <<task_queue, signalled, loop, tasks, uv_stopped, executed, done>>

StopJoin(p) ==
  /\ loop = "exited"
  /\ StopperMoves(p, "joining", "returned")
  /\ loop' = "joined"
  /\ UNCHANGED <<task_queue, signalled, tasks, uv_stopped, executed, done>>

\* Two calls of stop() are not kept apart.
StopJoinFails(p) ==
  /\ loop = "joined"
  /\ StopperMoves(p, "joining", "failed")
  /\ UNCHANGED <<task_queue, signalled, loop, tasks, uv_stopped, executed, done>>

------------------------------------------------------------------------------
Loop == AsyncCallback \/ Swap \/ RunTask \/ NextBatch \/ LeaveRun

Stop(p) == StopCall(p) \/ StopExecute(p)

StopRest(p) == StopWait(p) \/ StopJoin(p) \/ StopJoinFails(p)

\* The loop waits for events until it is stopped: nothing has to happen.
Idle == UNCHANGED vars

Next ==
  \/ run
  \/ \E t \in Tasks : execute(t)
  \/ Loop
  \/ \E p \in Stoppers : Stop(p) \/ StopRest(p)
  \/ Idle

\* The loop thread is scheduled, and a thread inside stop() is.
Fairness ==
  /\ WF_vars(Loop)
  /\ \A p \in Stoppers : WF_vars(StopExecute(p)) /\ WF_vars(StopRest(p))

Spec     == Init /\ [][Next]_vars
FairSpec == Spec /\ Fairness

------------------------------------------------------------------------------
(* Properties. *)

\* Sends are merged and the flag is cleared before the deque is swapped: still,
\* as long as something is in the deque the flag is up or the callback is
\* about to look.
NoLostSignal ==
  task_queue # <<>> => signalled \/ loop \in {"swapping", "running"}

\* What was given to execute runs in that order, none twice, and what has not
\* run is in the batch or in the deque: swapping the deque out while others
\* push loses nothing.
RunInOrder ==
  /\ executed = done \o tasks \o task_queue
  /\ IsInjective(executed)

\* The thread ends with nothing half way: the batch stop()'s task was in has
\* run to its end, and only a stop() makes the thread end.
CleanExit ==
  loop \in {"exited", "joined"} => tasks = <<>> /\ ToSet(done) \cap Stoppers # {}

\* A task runs, unless somebody stops the loop.
TaskRuns ==
  \A t \in Tasks :
    t \in ToSet(executed) /\ loop # "new" ~>
      t \in ToSet(done) \/ ToSet(done) \cap Stoppers # {}

\* A call of stop() returns, unless another call interferes.
StopReturns ==
  \A p \in Stoppers :
    stopper[p] = "stopping" ~>
      stopper[p] = "returned" \/ \E o \in Stoppers \ {p} : stopper[o] # "idle"

=============================================================================
