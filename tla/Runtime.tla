------------------------------ MODULE Runtime --------------------------------
(***************************************************************************)
(* Several task queues, each with its worker thread, the tasks that the    *)
(* client's thread and other tasks push to them, and the futures of those  *)
(* tasks.  A future's state remembers the queue of the context its promise *)
(* was created in (await_queue_), and await sends the resume there.        *)
(*                                                                         *)
(* A queue is taken at the grain of what it promises (module Executor): a  *)
(* worker takes items in order, a resumable task leaves the worker free    *)
(* while it awaits, and join ends the thread when none is in progress.     *)
(* The future of a task has the task's name.                               *)
(***************************************************************************)
EXTENDS FiniteSets, SequencesExt

CONSTANTS
  Queues,          \* task queues
  AsyncQueue,      \* the one async() pushes to, if it is used
  ResumableTasks,  \* pushed with push_back_resumable or async
  PlainTasks,      \* pushed with push_back
  Main,            \* the client's thread, which has no task context
  None

Tasks   == ResumableTasks \cup PlainTasks
Threads == Tasks \cup {Main}

ASSUME RuntimeConstants ==
  /\ ResumableTasks \cap PlainTasks = {}
  /\ Main \notin Tasks /\ None \notin Threads \cup Queues
  /\ IsFiniteSet(Tasks)

VARIABLES
  \* queues
  queue,          \* queue_: tasks to start, and tasks to resume
  running,        \* the task the worker executes
  join,           \* join_
  exited,         \* the worker's thread function has returned
  \* tasks and their futures
  on,             \* the queue a task was pushed to
  maker,          \* the thread that pushed it and holds its future
  await_queue,    \* await_queue_ of its future's state
  continuations,  \* tasks whose await left a resume with its future
  started,
  ended,          \* tasks whose promise is set
  discarded,      \* tasks whose start or resume join threw away
  failed,         \* where the process ended, or "no"
  \* threads
  waits,          \* the future a thread waits for in await or get
  shared,         \* a thread has waited for a future that another one made
  joining         \* the queue Main joins

taskVars == <<on, maker, await_queue>>
vars == <<queue, running, join, exited, taskVars, continuations, started, ended,
          discarded, failed, waits, shared, joining>>

Init ==
  /\ queue = [q \in Queues |-> <<>>]
  /\ running = [q \in Queues |-> None]
  /\ join = [q \in Queues |-> FALSE]
  /\ exited = {}
  /\ on = [t \in Tasks |-> None]
  /\ maker = [t \in Tasks |-> None]
  /\ await_queue = [t \in Tasks |-> None]
  /\ continuations = [t \in Tasks |-> <<>>]
  /\ started = {}
  /\ ended = {}
  /\ discarded = {}
  /\ failed = "no"
  /\ waits = [x \in Threads |-> None]
  /\ shared = FALSE
  /\ joining = None

------------------------------------------------------------------------------
\* A task continued on the thread of another queue's worker has overwritten the
\* main context of its own queue: nothing that follows has a defined result.
Defined == failed = "no" /\ \A q \in Queues : running[q] # None => on[running[q]] = q

\* x executes its own code: it is on a worker, or the client's thread, and not
\* blocked.
Executes(x) ==
  /\ Defined
  /\ waits[x] = None
  /\ IF x = Main THEN joining = None ELSE \E q \in Queues : running[q] = x

pushed == {t \in Tasks : on[t] # None}

\* Mutant of get_await_queue: the context is not asked.
get_await_queue_none(x) == None

\* The await queue of a promise x makes: that of x's context.  There is none in
\* the client's thread or in a task that is not resumable.
get_await_queue(x) == IF x \in ResumableTasks THEN on[x] ELSE None

\* push_back, push_back_resumable and async: the promise is created by the caller.
\* The queue of async() is owned by a unique_ptr, so that its shared_from_this()
\* throws.
Push(x, t, q) ==
  /\ Executes(x)
  /\ t \notin pushed
  /\ t \in PlainTasks => q # AsyncQueue
  /\ IF AsyncQueue # None /\ get_await_queue(x) = AsyncQueue
     THEN failed' = "bad_weak_ptr" /\ UNCHANGED <<taskVars, queue>>
     ELSE /\ on' = [on EXCEPT ![t] = q]
          /\ maker' = [maker EXCEPT ![t] = x]
          /\ await_queue' = [await_queue EXCEPT ![t] = get_await_queue(x)]
          /\ queue' = [queue EXCEPT ![q] = Append(@, t)]
          /\ UNCHANGED failed
  /\ UNCHANGED <<running, join, exited, continuations, started, ended, discarded, waits,
                 shared, joining>>

\* x waits for the future of t, which is not ready.
WaitFor(x, t) ==
  /\ Executes(x)
  /\ t \in pushed \ ended
  /\ shared' = (shared \/ maker[t] # x)
  /\ waits' = [waits EXCEPT ![x] = t]
  /\ UNCHANGED <<queue, join, exited, taskVars, started, ended, discarded, failed,
                 joining>>

\* Mutant of Await: the task stays on its worker.
AwaitOnWorker(x, t) ==
  /\ x \in ResumableTasks
  /\ WaitFor(x, t)
  /\ continuations' = [continuations EXCEPT ![t] = Append(@, x)]
  /\ UNCHANGED running

\* await in a task context: leave a resume with the future and yield.
Await(x, t) ==
  /\ x \in ResumableTasks
  /\ WaitFor(x, t)
  /\ continuations' = [continuations EXCEPT ![t] = Append(@, x)]
  /\ running' = [q \in Queues |-> IF running[q] = x THEN None ELSE running[q]]

\* get, wait, and await without a task context: the thread blocks.
Block(x, t) ==
  /\ x \in PlainTasks \cup {Main}
  /\ WaitFor(x, t)
  /\ UNCHANGED <<continuations, running>>

Unblock(x) ==
  /\ x \in PlainTasks \cup {Main}
  /\ Defined
  /\ waits[x] \in ended
  /\ waits' = [waits EXCEPT ![x] = None]
  /\ UNCHANGED <<queue, running, join, exited, taskVars, continuations, started, ended,
                 discarded, failed, shared, joining>>

\* The deque of q once every continuation of t's future has called push_front.
Resumed(t, q) ==
  IF await_queue[t] = q THEN Reverse(continuations[t]) \o queue[q] ELSE queue[q]

\* The task ends: its promise is set, and the continuations run on this worker.
Return(x) ==
  /\ x \in Tasks
  /\ Executes(x)
  /\ ended' = ended \cup {x}
  /\ failed' = IF continuations[x] # <<>> /\ await_queue[x] = None THEN "null queue" ELSE failed
  /\ queue' = [q \in Queues |-> Resumed(x, q)]
  /\ continuations' = [continuations EXCEPT ![x] = <<>>]
  /\ running' = [q \in Queues |-> IF running[q] = x THEN None ELSE running[q]]
  /\ UNCHANGED <<join, exited, taskVars, started, discarded, waits, shared, joining>>

------------------------------------------------------------------------------
(* The workers, and join. *)

\* Tasks of q that have a context: in_progress_count_ is their number.
InProgress(q) == {t \in ResumableTasks \cap (started \ ended) : on[t] = q}

join_possible(q) == join[q] /\ InProgress(q) = {}

\* Mutant of Idle: the worker sleeps through join.
IdleUntilJoin(q) == Defined /\ q \notin exited /\ running[q] = None /\ ~join[q]

Idle(q) == Defined /\ q \notin exited /\ running[q] = None

\* The worker takes the first item: it starts a task or resumes one, whichever
\* queue the task belongs to.
Take(q) ==
  /\ Idle(q) /\ ~join_possible(q)
  /\ queue[q] # <<>>
  /\ LET t == Head(queue[q])
     IN  /\ running' = [running EXCEPT ![q] = t]
         /\ started' = started \cup {t}
         /\ waits' = [waits EXCEPT ![t] = None]
  /\ queue' = [queue EXCEPT ![q] = Tail(@)]
  /\ UNCHANGED <<join, exited, taskVars, continuations, ended, discarded, failed, shared,
                 joining>>

Exit(q) ==
  /\ Idle(q) /\ join_possible(q)
  /\ exited' = exited \cup {q}
  /\ UNCHANGED <<queue, running, join, taskVars, continuations, started, ended,
                 discarded, failed, waits, shared, joining>>

\* Main calls join, on each queue once: the deque is cleared.
JoinCall(q) ==
  /\ Executes(Main)
  /\ ~join[q]
  /\ joining' = q
  /\ join' = [join EXCEPT ![q] = TRUE]
  /\ discarded' = discarded \cup ToSet(queue[q])
  /\ queue' = [queue EXCEPT ![q] = <<>>]
  /\ UNCHANGED <<running, exited, taskVars, continuations, started, ended, failed,
                 waits, shared>>

JoinReturn ==
  /\ joining \in exited
  /\ joining' = None
  /\ UNCHANGED <<queue, running, join, exited, taskVars, continuations, started, ended,
                 discarded, failed, waits, shared>>

------------------------------------------------------------------------------
Next ==
  \/ \E q \in Queues : Take(q) \/ Exit(q) \/ JoinCall(q)
  \/ \E x \in Threads, t \in Tasks, q \in Queues : Push(x, t, q)
  \/ \E x \in ResumableTasks, t \in Tasks : Await(x, t)
  \/ \E x \in PlainTasks \cup {Main} : Unblock(x) \/ \E t \in Tasks : Block(x, t)
  \/ \E x \in Tasks : Return(x)
  \/ JoinReturn

\* What the worker of q does, the code of its task included.
Worker(q) ==
  \/ Take(q) \/ Exit(q)
  \/ \E x \in {running[q]} \cap Tasks :
       \/ Unblock(x) \/ Return(x)
       \/ \E t \in Tasks : Await(x, t) \/ Block(x, t) \/ \E p \in Queues : Push(x, t, p)

\* Workers run, so that tasks, which push and await a bounded number of times,
\* end; a thread in join is scheduled.  Main has to do nothing.
Fairness == WF_vars(JoinReturn) /\ \A q \in Queues : WF_vars(Worker(q))

Spec == Init /\ [][Next]_vars /\ Fairness

------------------------------------------------------------------------------
(* Properties. *)

\* A task that awaits only what it pushed itself is resumed: never through a null
\* queue, and by the one worker of its own queue, also when the task it awaits
\* ran on another.  The future of another thread resumes it on the queue that
\* thread had, or on none.
AwaitReturnsHome ==
  ~shared =>
    /\ failed # "null queue"
    /\ \A q \in Queues : running[q] # None => on[running[q]] = q

\* The README's `async(run).wait();`: run, a task of async(), pushes to queues.
AsyncMayPush == failed # "bad_weak_ptr"

\* Tasks that nothing can start or resume: join threw their item away, or it
\* came when the worker had left.
Lost ==
  discarded \cup UNION {ToSet(queue[q]) : q \in exited}

\* What must happen before t can go on: the task it waits for has to end, or
\* the task that blocks the worker whose deque holds t's start or resume.
WaitsOn(t) ==
  ({waits[t]} \cap (Tasks \ ended))
    \cup {running[q] : q \in {p \in Queues : /\ t \in ToSet(queue[p])
                                              /\ running[p] # None
                                              /\ waits[running[p]] # None}}

\* Tasks that will never end: the largest set in which each is lost or waits on
\* another one of the set.
Stuck ==
  UNION {S \in SUBSET (pushed \ ended) :
           \A t \in S : t \in Lost \/ WaitsOn(t) \cap S # {}}

\* Tasks that await only what they pushed never wait in a circle, across any
\* number of queues: if a task is stuck, somebody called join, or a task that
\* is not resumable blocks a worker.
AwaitNeverDeadlocks ==
  Stuck # {} => shared \/ (\E q \in Queues : join[q]) \/ Stuck \cap PlainTasks # {}

\* Nothing else is forgotten: a task that was pushed ends or is stuck, and join
\* returns unless a task in progress is stuck.
EndsOrStuck ==
  /\ \A t \in Tasks : t \in pushed ~> t \in ended \/ t \in Stuck \/ ~Defined
  /\ \A q \in Queues :
       joining = q ~> joining # q \/ ~Defined \/ Stuck \cap (InProgress(q) \cup {running[q]}) # {}

=============================================================================
