------------------------------ MODULE TaskQueue ------------------------------
(***************************************************************************)
(* One ltl::detail::task_queue_impl: its worker thread, the deque of work  *)
(* items guarded by mutex_ and cv_, the pool of task_contexts (stackful    *)
(* coroutines) the worker switches to, and ltl::await as seen from a task  *)
(* that runs in such a context.                                            *)
(*                                                                         *)
(* A work item is a task that has not started (a member of Tasks: the      *)
(* std::function handed to push_back or push_back_resumable) or a context  *)
(* (a member of Contexts: the function `ctx->resume()` that await's        *)
(* continuation hands to push_front).  Whether a task is resumable is      *)
(* fixed by the call that pushes it, so it is part of the task's identity. *)
(*                                                                         *)
(* The mutex is held for straight-line code only, so each critical section *)
(* is one action.  Actions of the worker are separate wherever another     *)
(* thread can observe or change what lies between them.                    *)
(***************************************************************************)
EXTENDS Naturals, FiniteSets, SequencesExt, Functions, Subsequences

CONSTANTS
  ResumableTasks,  \* tasks pushed with push_back_resumable
  PlainTasks,      \* tasks pushed with push_back or push_back_and_forget
  Contexts,        \* task_context objects that may ever be allocated
  MaxAwaits,       \* bound: awaits that suspend, per execution of a task
  None             \* null pointer, or no work item

Tasks == ResumableTasks \cup PlainTasks

ASSUME TaskQueueConstants ==
  /\ ResumableTasks \cap PlainTasks = {}
  /\ Tasks \cap Contexts = {}
  /\ None \notin Tasks \cup Contexts
  /\ IsFiniteSet(Contexts)
  /\ MaxAwaits \in Nat

VARIABLES
  \* shared between threads, guarded by mutex_
  queue,               \* queue_
  join,                \* join_
  \* the worker thread
  worker,              \* where the thread function is, see WorkerStates
  item,                \* wi: the work item taken from the queue
  current,             \* current_task_context of the worker thread
  in_progress_count,   \* in_progress_count_
  free_task_contexts,  \* free_task_contexts_, a stack that grows to the right
  \* task_context objects
  created,             \* contexts that are allocated
  func,                \* func_: the task a context was last given
  keep_alive,          \* contexts whose keep_alive_ holds a reference
  suspended,           \* contexts that left through yield() inside await
  continuation,        \* the callback a context registered on a future
  awaits,              \* awaits of the context's task that suspended
  \* callers
  joiner,              \* the thread that calls join()
  pushed,              \* tasks handed to the queue
  done                 \* tasks whose promise is satisfied

sharedVars  == <<queue, join>>
contextVars == <<created, func, keep_alive, suspended>>
poolVars    == <<free_task_contexts, in_progress_count>>
awaitVars   == <<continuation, awaits>>
callerVars  == <<joiner, pushed>>
vars == <<sharedVars, worker, item, current, poolVars, contextVars,
          awaitVars, callerVars, done>>

WorkerStates ==
  { "loop",       \* top of while (true), about to lock mutex_
    "waiting",    \* blocked in cv_.wait
    "woken",      \* notified, about to evaluate the predicate again
    "dispatch",   \* holds wi, mutex_ released
    "plain",      \* runs a non-resumable task on the main context
    "task",       \* runs a task inside the context `current`
    "awaiting",   \* await registered its continuation, about to yield
    "returned",   \* func_() returned, about to call finished_
    "finished",   \* task_complete returned, about to yield for the last time
    "leaving",    \* broke out of the loop
    "exited" }    \* the thread function returned

\* States in which the worker executes on the stack of `current`.
InContext == {"task", "awaiting", "returned", "finished"}

\* The continuation await registers: absent, stored in the future's state, or
\* swapped out by the thread that completes the future and about to run.
ContinuationStates == {"none", "armed", "fired"}

\* An action on the worker that leaves the pool and the contexts alone.
UnchangedContexts == UNCHANGED <<poolVars, contextVars, awaitVars>>

------------------------------------------------------------------------------
Init ==
  /\ queue = <<>>
  /\ join = FALSE
  /\ worker = "loop"
  /\ item = None
  /\ current = None
  /\ in_progress_count = 0
  /\ free_task_contexts = <<>>
  /\ created = {}
  /\ func = [c \in Contexts |-> None]
  /\ keep_alive = {}
  /\ suspended = {}
  /\ continuation = [c \in Contexts |-> "none"]
  /\ awaits = [c \in Contexts |-> 0]
  /\ joiner = "none"
  /\ pushed = {}
  /\ done = {}

------------------------------------------------------------------------------
(* Operations other threads (or running tasks) call on the queue. *)

\* cv_.notify_one(): only the worker ever waits on cv_.
NotifyOne == worker' = IF worker = "waiting" THEN "woken" ELSE worker

\* Mutant of Enqueue: the size is compared before the item is in the deque.
EnqueueTestsEarly(q) ==
  /\ queue' = q
  /\ IF Len(q) = 0 THEN NotifyOne ELSE UNCHANGED worker

\* The common part of push_back and push_front: store the deque, and notify
\* exactly when the item is the only one.
Enqueue(q) ==
  /\ queue' = q
  /\ IF Len(q) = 1 THEN NotifyOne ELSE UNCHANGED worker

\* Mutant of PushBack: emplace_front.
PushBackInFront(t) ==
  /\ t \notin pushed
  /\ pushed' = pushed \cup {t}
  /\ Enqueue(<<t>> \o queue)
  /\ UNCHANGED <<join, item, current, joiner, done>>
  /\ UnchangedContexts

\* push_back: from outside, or by the running task, at any time.
PushBack(t) ==
  /\ t \notin pushed
  /\ pushed' = pushed \cup {t}
  /\ Enqueue(Append(queue, t))
  /\ UNCHANGED <<join, item, current, joiner, done>>
  /\ UnchangedContexts

\* Mutant of JoinCall: the worker is not notified.
JoinCallSilent ==
  /\ joiner = "none"
  /\ joiner' = "joining"
  /\ queue' = <<>>
  /\ join' = TRUE
  /\ UNCHANGED <<worker, item, current, pushed, done>>
  /\ UnchangedContexts

\* join, up to thread_.join(): whatever is in the queue is thrown away.
JoinCall ==
  /\ joiner = "none"
  /\ joiner' = "joining"
  /\ queue' = <<>>
  /\ join' = TRUE
  /\ NotifyOne
  /\ UNCHANGED <<item, current, pushed, done>>
  /\ UnchangedContexts

\* thread_.join() returns; a later join finds the thread not joinable.
JoinReturn ==
  /\ joiner = "joining"
  /\ worker = "exited"
  /\ joiner' = "joined"
  /\ UNCHANGED <<sharedVars, worker, item, current, pushed, done>>
  /\ UnchangedContexts

------------------------------------------------------------------------------
(* The worker's loop. *)

\* Mutant of join_possible: contexts that execute a task are not waited for.
join_at_once == join

join_possible == join /\ in_progress_count = 0

\* The predicate of cv_.wait is false: the thread blocks.
CvWait ==
  /\ worker = "loop"
  /\ queue = <<>>
  /\ ~join_possible
  /\ worker' = "waiting"
  /\ UNCHANGED <<sharedVars, item, current, callerVars, done>>
  /\ UnchangedContexts

\* The wait ends because of a notification, and the predicate is evaluated.
CvWake ==
  /\ worker = "woken"
  /\ worker' = "loop"
  /\ UNCHANGED <<sharedVars, item, current, callerVars, done>>
  /\ UnchangedContexts

\* std::condition_variable may also wake for no reason.
CvSpuriousWake ==
  /\ worker = "waiting"
  /\ worker' = "loop"
  /\ UNCHANGED <<sharedVars, item, current, callerVars, done>>
  /\ UnchangedContexts

PopFront ==
  /\ worker = "loop"
  /\ ~join_possible
  /\ queue # <<>>
  /\ item' = Head(queue)
  /\ queue' = Tail(queue)
  /\ worker' = "dispatch"
  /\ UNCHANGED <<join, current, callerVars, done>>
  /\ UnchangedContexts

LeaveLoop ==
  /\ worker = "loop"
  /\ join_possible
  /\ worker' = "leaving"
  /\ UNCHANGED <<sharedVars, item, current, callerVars, done>>
  /\ UnchangedContexts

\* free_task_contexts_.clear() drops the last reference to every free context.
ThreadExit ==
  /\ worker = "leaving"
  /\ worker' = "exited"
  /\ free_task_contexts' = <<>>
  /\ created' = created \ ToSet(free_task_contexts)
  /\ UNCHANGED <<sharedVars, item, current, in_progress_count, func,
                 keep_alive, suspended, awaitVars, callerVars, done>>

------------------------------------------------------------------------------
(* Running a work item. *)

\* ctx->reset(func), ++in_progress_count_, ctx->resume().
StartIn(c) ==
  /\ func' = [func EXCEPT ![c] = item]
  /\ keep_alive' = keep_alive \cup {c}
  /\ in_progress_count' = in_progress_count + 1
  /\ awaits' = [awaits EXCEPT ![c] = 0]
  /\ current' = c
  /\ worker' = "task"
  /\ item' = None
  /\ UNCHANGED <<sharedVars, suspended, continuation, callerVars, done>>

\* run_in_new_context with an empty pool: a context is allocated.
RunInCreatedContext ==
  /\ worker = "dispatch"
  /\ item \in ResumableTasks
  /\ free_task_contexts = <<>>
  /\ \E c \in Contexts \ created :
       /\ created' = created \cup {c}
       /\ StartIn(c)
  /\ UNCHANGED free_task_contexts

\* Mutant of RunInFreeContext: no pop_back.
RunInSharedContext ==
  /\ worker = "dispatch"
  /\ item \in ResumableTasks
  /\ free_task_contexts # <<>>
  /\ StartIn(free_task_contexts[Len(free_task_contexts)])
  /\ UNCHANGED <<created, free_task_contexts>>

\* run_in_new_context with a free context: the one freed last is taken.
RunInFreeContext ==
  /\ worker = "dispatch"
  /\ item \in ResumableTasks
  /\ free_task_contexts # <<>>
  /\ LET last == Len(free_task_contexts)
     IN  /\ StartIn(free_task_contexts[last])
         /\ free_task_contexts' = SubSeq(free_task_contexts, 1, last - 1)
  /\ UNCHANGED created

\* wi.first() for a task that is not resumable.
RunPlain ==
  /\ worker = "dispatch"
  /\ item \in PlainTasks
  /\ worker' = "plain"
  /\ UNCHANGED <<sharedVars, item, current, callerVars, done>>
  /\ UnchangedContexts

\* Mutant of PlainReturn: a task that is not resumable is counted when it ends.
PlainReturnCounted ==
  /\ worker = "plain"
  /\ done' = done \cup {item}
  /\ item' = None
  /\ worker' = "loop"
  /\ in_progress_count' = in_progress_count - 1
  /\ UNCHANGED <<sharedVars, current, callerVars, free_task_contexts, contextVars,
                 awaitVars>>

PlainReturn ==
  /\ worker = "plain"
  /\ done' = done \cup {item}
  /\ item' = None
  /\ worker' = "loop"
  /\ UNCHANGED <<sharedVars, current, callerVars>>
  /\ UnchangedContexts

\* wi.first() for the function await pushed to the front: ctx->resume().
RunResume ==
  /\ worker = "dispatch"
  /\ item \in Contexts
  /\ current' = item
  /\ suspended' = suspended \ {item}
  /\ worker' = "task"
  /\ item' = None
  /\ UNCHANGED <<sharedVars, poolVars, created, func, keep_alive, awaitVars,
                 callerVars, done>>

------------------------------------------------------------------------------
(* The task inside the context `current`. *)

\* await on a future that is not ready: continue_with stores the callback.
AwaitArm ==
  /\ worker = "task"
  /\ awaits[current] < MaxAwaits
  /\ awaits' = [awaits EXCEPT ![current] = @ + 1]
  /\ continuation' = [continuation EXCEPT ![current] = "armed"]
  /\ worker' = "awaiting"
  /\ UNCHANGED <<sharedVars, item, current, poolVars, contextVars,
                 callerVars, done>>

\* Mutant of AwaitInline: continue_with stores the callback and runs it, too.
AwaitInlineAndStored ==
  /\ worker = "task"
  /\ awaits[current] < MaxAwaits
  /\ awaits' = [awaits EXCEPT ![current] = @ + 1]
  /\ continuation' = [continuation EXCEPT ![current] = "armed"]
  /\ queue' = <<current>> \o queue
  /\ worker' = "awaiting"
  /\ UNCHANGED <<join, item, current, poolVars, contextVars, callerVars, done>>

\* The future became ready between f.ready() and continue_with, which then
\* calls the callback on this thread: push_front of the context's resume.
AwaitInline ==
  /\ worker = "task"
  /\ awaits[current] < MaxAwaits
  /\ awaits' = [awaits EXCEPT ![current] = @ + 1]
  /\ queue' = <<current>> \o queue
  /\ worker' = "awaiting"
  /\ UNCHANGED <<join, item, current, poolVars, contextVars, continuation,
                 callerVars, done>>

\* Mutant of Yield: current_task_context is not reset.
YieldKeepsCurrent ==
  /\ worker = "awaiting"
  /\ suspended' = suspended \cup {current}
  /\ worker' = "loop"
  /\ UNCHANGED <<sharedVars, item, current, poolVars, created, func, keep_alive,
                 awaitVars, callerVars, done>>

\* yield inside await: back to the main context.
Yield ==
  /\ worker = "awaiting"
  /\ suspended' = suspended \cup {current}
  /\ current' = None
  /\ worker' = "loop"
  /\ UNCHANGED <<sharedVars, item, poolVars, created, func, keep_alive,
                 awaitVars, callerVars, done>>

\* func_() satisfies the promise of the task and returns to task_context::run.
TaskReturn ==
  /\ worker = "task"
  /\ done' = done \cup {func[current]}
  /\ worker' = "returned"
  /\ UNCHANGED <<sharedVars, item, current, callerVars>>
  /\ UnchangedContexts

\* finished_ is task_complete.  Its notify_one reaches nobody: the only thread
\* that waits on cv_ is the one that executes it.
task_complete ==
  /\ worker = "returned"
  /\ in_progress_count' = in_progress_count - 1
  /\ free_task_contexts' = Append(free_task_contexts, current)
  /\ worker' = "finished"
  /\ UNCHANGED <<sharedVars, item, current, contextVars, awaitVars,
                 callerVars, done>>

\* keep_alive_.reset() and the last yield; func_ keeps its function.
Park ==
  /\ worker = "finished"
  /\ keep_alive' = keep_alive \ {current}
  /\ current' = None
  /\ worker' = "loop"
  /\ UNCHANGED <<sharedVars, item, poolVars, created, func, suspended,
                 awaitVars, callerVars, done>>

------------------------------------------------------------------------------
(* The thread that completes the future a context awaits. *)

\* Mutant of FutureReady: the callbacks are dropped.
FutureReadySilent(c) ==
  /\ continuation[c] = "armed"
  /\ continuation' = [continuation EXCEPT ![c] = "none"]
  /\ UNCHANGED <<sharedVars, worker, item, current, poolVars, contextVars,
                 awaits, callerVars, done>>

\* set_value (or set_exception) makes the future ready and takes its callbacks.
FutureReady(c) ==
  /\ continuation[c] = "armed"
  /\ continuation' = [continuation EXCEPT ![c] = "fired"]
  /\ UNCHANGED <<sharedVars, worker, item, current, poolVars, contextVars,
                 awaits, callerVars, done>>

\* The callback: await_queue()->push_front(resume).
push_front(c) ==
  /\ continuation[c] = "fired"
  /\ continuation' = [continuation EXCEPT ![c] = "none"]
  /\ Enqueue(<<c>> \o queue)
  /\ UNCHANGED <<join, item, current, poolVars, contextVars, awaits,
                 callerVars, done>>

------------------------------------------------------------------------------
Loop == CvWait \/ CvWake \/ PopFront \/ LeaveLoop \/ ThreadExit
Run  == RunInCreatedContext \/ RunInFreeContext \/ RunPlain \/ PlainReturn \/ RunResume
Task == AwaitArm \/ AwaitInline \/ Yield \/ TaskReturn \/ task_complete \/ Park

Worker == Loop \/ Run \/ Task

\* Everything is over: the thread is joined and no task is left to push.
Terminated == joiner = "joined" /\ pushed = Tasks /\ UNCHANGED vars

\* What every client does: push, and complete the futures tasks wait for.
Environment ==
  \/ \E t \in Tasks : PushBack(t)
  \/ JoinReturn
  \/ \E c \in Contexts : FutureReady(c) \/ push_front(c)

Next ==
  \/ Worker
  \/ CvSpuriousWake
  \/ Environment
  \/ JoinCall
  \/ Terminated

\* The scheduler runs every runnable thread, tasks end or await, and the
\* futures they await are completed.  Nobody is obliged to push or to join, and
\* no wake-up of cv_ without a notification is relied upon.
Fairness ==
  /\ WF_vars(Worker)
  /\ WF_vars(JoinReturn)
  /\ \A c \in Contexts : WF_vars(FutureReady(c)) /\ WF_vars(push_front(c))

Spec     == Init /\ [][Next]_vars
FairSpec == Spec /\ Fairness

------------------------------------------------------------------------------
(* Properties. *)

\* Contexts whose stack is inside await: parked there, or about to park.
Awaiting == suspended \cup (IF worker = "awaiting" THEN {current} ELSE {})

\* Contexts that execute a task: started, and not yet given back by
\* task_complete.
InProgress == keep_alive \ (IF worker = "finished" THEN {current} ELSE {})

\* Contexts in the pool.
Free == ToSet(free_task_contexts)

\* The contexts a deque of work items will resume, and the statement that it
\* resumes none of them twice.
Resumes(q) == {c \in Contexts : \E i \in DOMAIN q : q[i] = c}
ResumesOnce(q) == \A i, j \in DOMAIN q : q[i] \in Contexts /\ q[i] = q[j] => i = j

\* Contexts whose resume is queued, or held by the worker.
ResumePending == Resumes(queue) \cup ({item} \cap Contexts)

\* Type invariant: every variable of the model of task_queue_impl is in range.
TypeOK ==
  /\ queue \in Seq(Tasks \cup Contexts)
  /\ join \in BOOLEAN
  /\ worker \in WorkerStates
  /\ item \in Tasks \cup Contexts \cup {None}
  /\ current \in Contexts \cup {None}
  /\ in_progress_count \in Nat
  /\ free_task_contexts \in Seq(Contexts)
  /\ created \in SUBSET Contexts
  /\ func \in [Contexts -> Tasks \cup {None}]
  /\ keep_alive \in SUBSET Contexts
  /\ suspended \in SUBSET Contexts
  /\ continuation \in [Contexts -> ContinuationStates]
  /\ awaits \in [Contexts -> Nat]
  /\ joiner \in {"none", "joining", "joined"}
  /\ pushed \in SUBSET Tasks
  /\ done \in SUBSET Tasks

\* The resume await pushes names its context by a raw pointer, and contexts are
\* pooled: a resume that arrives twice, or after its task ended, would run
\* another task's stack.  Every resume that is queued, held by the worker or
\* still to be pushed is for a context that waits in await, and there is one.
ResumeOnlyAwaiting ==
  /\ ResumePending \subseteq Awaiting
  /\ \A c \in Contexts : continuation[c] # "none" => c \in Awaiting \ ResumePending
  /\ ResumesOnce(queue)
  /\ item \notin Resumes(queue)

\* The asserts on current_task_context: no context is current when the worker
\* switches to one, and the current one is the one that yields.
CurrentContext ==
  /\ worker \in InContext <=> current # None
  /\ current # None => current \in keep_alive \ suspended

\* Pool accounting: a context that is allocated is in the pool or executes a
\* task, never both, the pool holds none twice, and in_progress_count_, which
\* decides when the thread may leave, counts the contexts that execute a task.
PoolAccounting ==
  /\ created = Free \cup InProgress
  /\ Free \cap InProgress = {}
  /\ IsInjective(free_task_contexts)
  /\ in_progress_count = Cardinality(InProgress)

\* join lets a task that has started end: the worker leaves its loop only when
\* no context is parked in await and none holds a reference to itself.
NoTaskAbandoned ==
  worker \in {"leaving", "exited"} => suspended = {} /\ keep_alive = {}

\* A context in await still has something that will resume it.
WakeUpPending ==
  \A c \in Awaiting : continuation[c] # "none" \/ c \in ResumePending

\* As long as nobody called join, no context in await is forgotten.
WakeUpPendingUntilJoin == ~join => WakeUpPending

\* A task that was pushed is executed to its end, unless join is called: no
\* notification of cv_ is lost and no resumption is.
PushedTaskEnds == \A t \in Tasks : t \in pushed ~> (t \in done \/ join)

\* join() lets the tasks that started run to their end and then returns, unless
\* it threw away the resume of one of them.
JoinReturnsIfWoken == joiner = "joining" /\ WakeUpPending ~> joiner = "joined"

\* join() returns once it is called, whatever was in the queue.
JoinReturns == joiner = "joining" ~> joiner = "joined"

------------------------------------------------------------------------------
(* What the queue promises its clients: see Executor. *)

\* The task the worker executes or has committed to execute.
RunningTask ==
  IF item \in Tasks THEN item
  ELSE IF item \in Contexts THEN func[item]
  ELSE IF worker \in {"task", "awaiting"} THEN func[current]
  ELSE None

Backlog == Only(queue, Tasks)

Exec == INSTANCE Executor WITH
  backlog <- Backlog,
  running <- RunningTask,
  paused  <- {func[c] : c \in suspended} \ {RunningTask},
  ended   <- done,
  stopped <- worker \in {"leaving", "exited"},
  closed  <- join

\* The queue implements the executor.
ImplementsExecutor == Exec!Spec

=============================================================================
