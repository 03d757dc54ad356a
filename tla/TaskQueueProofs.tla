--------------------------- MODULE TaskQueueProofs ---------------------------
(* Safety of TaskQueue for any tasks, any finite set of contexts and any     *)
(* bound on awaits.                                                          *)
EXTENDS TaskQueue, SeqLemmas, FiniteSetTheorems, TLAPS

------------------------------------------------------------------------------
(* The operations on the deque of work items. *)

\* push_back of a task that has not started adds no resume.
LEMMA AppendTask ==
  ASSUME NEW q \in Seq(Tasks \cup Contexts), NEW t \in Tasks
  PROVE  /\ Append(q, t) \in Seq(Tasks \cup Contexts)
         /\ Resumes(Append(q, t)) = Resumes(q)
         /\ ResumesOnce(q) => ResumesOnce(Append(q, t))
<1>1. t \notin Contexts
  BY TaskQueueConstants
<1>2. \A i \in DOMAIN Append(q, t) :
        \/ i \in DOMAIN q /\ Append(q, t)[i] = q[i]
        \/ i = Len(q) + 1 /\ Append(q, t)[i] = t
  OBVIOUS
<1>3. \A i \in DOMAIN q : i \in DOMAIN Append(q, t) /\ Append(q, t)[i] = q[i]
  OBVIOUS
<1>4. Resumes(Append(q, t)) = Resumes(q)
  BY <1>1, <1>2, <1>3, Zenon DEF Resumes
<1>5. ResumesOnce(q) => ResumesOnce(Append(q, t))
  BY <1>1, <1>2, <1>3 DEF ResumesOnce
<1> QED
  BY <1>4, <1>5

\* push_front of the resume of a context that has none in the deque.
LEMMA PushFrontResume ==
  ASSUME NEW q \in Seq(Tasks \cup Contexts), NEW c \in Contexts
  PROVE  /\ <<c>> \o q \in Seq(Tasks \cup Contexts)
         /\ Resumes(<<c>> \o q) = Resumes(q) \cup {c}
         /\ ResumesOnce(q) /\ c \notin Resumes(q) => ResumesOnce(<<c>> \o q)
<1> DEFINE r == <<c>> \o q
<1>1. r \in Seq(Tasks \cup Contexts)
  OBVIOUS
<1>2. /\ 1 \in DOMAIN r /\ r[1] = c
      /\ \A i \in DOMAIN q : i + 1 \in DOMAIN r /\ r[i + 1] = q[i]
  OBVIOUS
<1>3. \A i \in DOMAIN r : i = 1 \/ (i - 1 \in DOMAIN q /\ r[i] = q[i - 1])
  OBVIOUS
<1>4. Resumes(r) = Resumes(q) \cup {c}
  <2>1. ASSUME NEW d \in Resumes(r) PROVE d \in Resumes(q) \cup {c}
    BY <2>1, <1>2, <1>3 DEF Resumes
  <2>2. ASSUME NEW d \in Resumes(q) \cup {c} PROVE d \in Resumes(r)
    BY <2>2, <1>2 DEF Resumes
  <2> QED
    BY <2>1, <2>2
<1>5. ASSUME ResumesOnce(q), c \notin Resumes(q)
      PROVE  ResumesOnce(r)
  <2> SUFFICES ASSUME NEW i \in DOMAIN r, NEW j \in DOMAIN r,
                      r[i] \in Contexts, r[i] = r[j]
               PROVE  i = j
    BY DEF ResumesOnce
  <2>1. CASE i = 1 \/ j = 1
    BY <2>1, <1>2, <1>3, <1>5 DEF Resumes
  <2>2. CASE i # 1 /\ j # 1
    <3>1. /\ i - 1 \in DOMAIN q /\ r[i] = q[i - 1]
          /\ j - 1 \in DOMAIN q /\ r[j] = q[j - 1]
      BY <2>2, <1>3
    <3>2. i - 1 = j - 1
      BY <3>1, <1>5 DEF ResumesOnce
    <3> QED
      BY <3>2, <1>1
  <2> QED
    BY <2>1, <2>2
<1> QED
  BY <1>1, <1>4, <1>5

\* pop_front moves the first item, and with it its resume, to the worker.
LEMMA PopFirst ==
  ASSUME NEW q \in Seq(Tasks \cup Contexts), q # <<>>
  PROVE  /\ Tail(q) \in Seq(Tasks \cup Contexts)
         /\ Head(q) \in Tasks \cup Contexts
         /\ Resumes(q) = Resumes(Tail(q)) \cup ({Head(q)} \cap Contexts)
         /\ ResumesOnce(q) => /\ ResumesOnce(Tail(q))
                              /\ Head(q) \notin Resumes(Tail(q))
<1> DEFINE r == Tail(q)
<1>1. r \in Seq(Tasks \cup Contexts) /\ Head(q) \in Tasks \cup Contexts
  OBVIOUS
<1>2. /\ 1 \in DOMAIN q /\ q[1] = Head(q)
      /\ \A i \in DOMAIN r : i + 1 \in DOMAIN q /\ r[i] = q[i + 1] /\ i + 1 # 1
  OBVIOUS
<1>3. \A i \in DOMAIN q : i = 1 \/ (i - 1 \in DOMAIN r /\ q[i] = r[i - 1])
  OBVIOUS
<1>4. Resumes(q) = Resumes(r) \cup ({Head(q)} \cap Contexts)
  <2>1. ASSUME NEW d \in Resumes(q)
        PROVE  d \in Resumes(r) \cup ({Head(q)} \cap Contexts)
    BY <2>1, <1>2, <1>3 DEF Resumes
  <2>2. ASSUME NEW d \in Resumes(r) \cup ({Head(q)} \cap Contexts)
        PROVE  d \in Resumes(q)
    BY <2>2, <1>2 DEF Resumes
  <2> QED
    BY <2>1, <2>2
<1>5. ASSUME ResumesOnce(q)
      PROVE  ResumesOnce(r) /\ Head(q) \notin Resumes(r)
  <2>1. ASSUME NEW i \in DOMAIN r, NEW j \in DOMAIN r,
               r[i] \in Contexts, r[i] = r[j]
        PROVE  i = j
    <3>1. i + 1 = j + 1
      BY <2>1, <1>2, <1>5 DEF ResumesOnce
    <3> QED
      BY <3>1, <1>1
  <2>2. Head(q) \notin Resumes(r)
    BY <1>2, <1>5 DEF ResumesOnce, Resumes
  <2> QED
    BY <2>1, <2>2 DEF ResumesOnce
<1> QED
  BY <1>1, <1>4, <1>5

\* join throws every item away.
LEMMA ClearQueue == /\ <<>> \in Seq(Tasks \cup Contexts)
                    /\ Resumes(<<>>) = {}
                    /\ ResumesOnce(<<>>)
BY DEF Resumes, ResumesOnce

------------------------------------------------------------------------------
(* The inductive invariant. *)

\* The worker holds a work item exactly between pop_front and its use.
HeldItem ==
  /\ worker \in {"dispatch", "plain"} <=> item # None
  /\ worker = "plain" => item \in PlainTasks

\* A context holds a reference to itself, and a task, exactly while it is the
\* current one or parked in await.
Stacks ==
  /\ worker \in InContext <=> current # None
  /\ keep_alive = suspended \cup ({current} \ {None})
  /\ current \notin suspended
  /\ \A c \in keep_alive : func[c] \in Tasks

\* The thread leaves its loop only after join, with no task in progress.
Leaving == worker \in {"leaving", "exited"} => join /\ in_progress_count = 0

\* Before join, a context in await has a wake-up, also before it has yielded.
WakeUp == ~join => \A c \in Awaiting : continuation[c] # "none" \/ c \in ResumePending

IInv ==
  /\ TypeOK
  /\ HeldItem
  /\ Stacks
  /\ PoolAccounting
  /\ ResumeOnlyAwaiting
  /\ Leaving
  /\ WakeUp

\* The queue starts in the inductive invariant.
LEMMA InitIInv == Init => IInv
<1> SUFFICES ASSUME Init PROVE IInv
  OBVIOUS
<1> USE DEF Init
<1>1. TypeOK
  <2>1. queue \in Seq(Tasks \cup Contexts) /\ free_task_contexts \in Seq(Contexts)
    OBVIOUS
  <2> QED
    BY <2>1 DEF TypeOK, WorkerStates, ContinuationStates
<1>2. HeldItem /\ Stacks /\ Leaving /\ WakeUp
  BY DEF HeldItem, Stacks, Leaving, WakeUp, InContext, Awaiting
<1>3. PoolAccounting
  BY FS_EmptySet DEF PoolAccounting, Free, ToSet, IsInjective, InProgress
<1>4. ResumeOnlyAwaiting
  BY ClearQueue, TaskQueueConstants DEF ResumeOnlyAwaiting, ResumePending, Awaiting
<1> QED
  BY <1>1, <1>2, <1>3, <1>4 DEF IInv


\* Steps of the worker outside any context, and steps of the caller of join,
\* that touch neither the deque nor a context.
LEMMA ControlStep ==
  ASSUME IInv, worker \notin InContext,
         worker' \in WorkerStates \ InContext,
         UNCHANGED <<sharedVars, item, current, poolVars, contextVars, awaitVars>>,
         joiner' \in {"none", "joining", "joined"},
         pushed' \in SUBSET Tasks, done' \in SUBSET Tasks,
         HeldItem', Leaving'
  PROVE  IInv'
<1>1. TypeOK'
  BY DEF IInv, TypeOK, sharedVars, poolVars, contextVars, awaitVars
<1>2. Stacks'
  BY DEF IInv, Stacks, contextVars
<1>3. Awaiting' = Awaiting /\ InProgress' = InProgress /\ ResumePending' = ResumePending
  BY DEF InContext, Awaiting, InProgress, ResumePending, Resumes, contextVars, sharedVars
<1>4. PoolAccounting'
  BY <1>3 DEF IInv, PoolAccounting, Free, poolVars, contextVars
<1>5. ResumeOnlyAwaiting' /\ WakeUp'
  BY <1>3 DEF IInv, ResumeOnlyAwaiting, WakeUp, Resumes, sharedVars, awaitVars
<1> QED
  BY <1>1, <1>2, <1>4, <1>5 DEF IInv

\* Steps that put an item at one end of the deque, or throw all away, and may
\* notify the worker.
LEMMA NotifyStep ==
  ASSUME IInv, worker' = worker \/ (worker = "waiting" /\ worker' = "woken"),
         UNCHANGED <<item, current, poolVars, contextVars>>
  PROVE  /\ worker' \in WorkerStates
         /\ HeldItem' /\ Stacks' /\ PoolAccounting'
         /\ Awaiting' = Awaiting
         /\ worker' \in {"leaving", "exited"} <=> worker \in {"leaving", "exited"}
<1>1. worker' \in WorkerStates /\ HeldItem'
  BY DEF IInv, TypeOK, HeldItem, WorkerStates
<1>2. Stacks'
  BY DEF IInv, Stacks, InContext, contextVars
<1>3. Awaiting' = Awaiting /\ InProgress' = InProgress
  BY DEF Awaiting, InProgress, contextVars
<1>4. PoolAccounting'
  BY <1>3 DEF IInv, PoolAccounting, Free, poolVars, contextVars
<1> QED
  BY <1>1, <1>2, <1>3, <1>4

\* push_back, from any thread, at any time, preserves it.
LEMMA PushBackIInv ==
  ASSUME IInv, NEW t \in Tasks, PushBack(t) PROVE IInv'
<1> USE DEF PushBack, UnchangedContexts
<1>1. queue' = Append(queue, t) /\ (worker' = worker \/ (worker = "waiting" /\ worker' = "woken"))
  BY DEF Enqueue, NotifyOne
<1>2. /\ queue' \in Seq(Tasks \cup Contexts)
      /\ Resumes(queue') = Resumes(queue)
      /\ ResumesOnce(queue) => ResumesOnce(queue')
  BY <1>1, AppendTask DEF IInv, TypeOK
<1>3. /\ worker' \in WorkerStates
      /\ HeldItem' /\ Stacks' /\ PoolAccounting'
      /\ Awaiting' = Awaiting
      /\ worker' \in {"leaving", "exited"} <=> worker \in {"leaving", "exited"}
  BY <1>1, NotifyStep
<1>4. TypeOK'
  BY <1>2, <1>3 DEF IInv, TypeOK, poolVars, contextVars, awaitVars
<1>5. Resumes(queue)' = Resumes(queue) /\ ResumePending' = ResumePending
  BY <1>2 DEF ResumePending, Resumes
<1>6. ResumeOnlyAwaiting'
  BY <1>2, <1>3, <1>5 DEF IInv, ResumeOnlyAwaiting, ResumesOnce, awaitVars
<1>7. Leaving' /\ WakeUp'
  BY <1>3, <1>5 DEF IInv, Leaving, WakeUp, poolVars, awaitVars
<1> QED
  BY <1>3, <1>4, <1>6, <1>7 DEF IInv

\* join preserves it, although it throws resumes away: WakeUp is about the time
\* before join.
LEMMA JoinCallIInv ==
  ASSUME IInv, JoinCall PROVE IInv'
<1> USE DEF JoinCall, UnchangedContexts
<1>1. worker' = worker \/ (worker = "waiting" /\ worker' = "woken")
  BY DEF NotifyOne
<1>2. /\ worker' \in WorkerStates
      /\ HeldItem' /\ Stacks' /\ PoolAccounting'
      /\ Awaiting' = Awaiting
      /\ worker' \in {"leaving", "exited"} <=> worker \in {"leaving", "exited"}
  BY <1>1, NotifyStep
<1>3. TypeOK'
  BY <1>2, ClearQueue DEF IInv, TypeOK, poolVars, contextVars, awaitVars
<1>4. Resumes(queue)' = {} /\ ResumesOnce(queue)'
  BY ClearQueue DEF Resumes, ResumesOnce
<1>5. ResumePending' \subseteq ResumePending
  BY <1>4 DEF ResumePending
<1>6. ResumeOnlyAwaiting'
  BY <1>2, <1>4, <1>5 DEF IInv, ResumeOnlyAwaiting, awaitVars
<1>7. Leaving' /\ WakeUp'
  BY <1>2 DEF IInv, Leaving, WakeUp, poolVars
<1> QED
  BY <1>2, <1>3, <1>6, <1>7 DEF IInv

\* The callback of await moves the wake-up of its context to the deque.
LEMMA PushFrontIInv ==
  ASSUME IInv, NEW c \in Contexts, push_front(c) PROVE IInv'
<1> USE DEF push_front
<1>1. queue' = <<c>> \o queue /\ (worker' = worker \/ (worker = "waiting" /\ worker' = "woken"))
  BY DEF Enqueue, NotifyOne
<1>2. c \in Awaiting /\ c \notin ResumePending
  BY DEF IInv, ResumeOnlyAwaiting
<1>3. /\ queue' \in Seq(Tasks \cup Contexts)
      /\ Resumes(queue') = Resumes(queue) \cup {c}
      /\ ResumesOnce(queue')
  BY <1>1, <1>2, PushFrontResume DEF IInv, TypeOK, ResumeOnlyAwaiting, ResumePending
<1>4. /\ worker' \in WorkerStates
      /\ HeldItem' /\ Stacks' /\ PoolAccounting'
      /\ Awaiting' = Awaiting
      /\ worker' \in {"leaving", "exited"} <=> worker \in {"leaving", "exited"}
  BY <1>1, NotifyStep
<1>5. TypeOK'
  BY <1>3, <1>4 DEF IInv, TypeOK, poolVars, contextVars, callerVars, ContinuationStates
<1>6. /\ Resumes(queue)' = Resumes(queue) \cup {c}
      /\ ResumePending' = ResumePending \cup {c}
  BY <1>3 DEF ResumePending, Resumes
<1>7. ResumeOnlyAwaiting'
  <2>1. \A d \in Contexts : continuation'[d] # "none" => d # c /\ continuation[d] # "none"
    BY DEF IInv, TypeOK
  <2>2. item' \notin Resumes(queue)'
    BY <1>2, <1>6 DEF IInv, ResumeOnlyAwaiting, ResumePending
  <2> QED
    BY <1>2, <1>3, <1>4, <1>6, <2>1, <2>2 DEF IInv, ResumeOnlyAwaiting, ResumesOnce
<1>8. Leaving' /\ WakeUp'
  BY <1>4, <1>6 DEF IInv, TypeOK, Leaving, WakeUp, poolVars
<1> QED
  BY <1>4, <1>5, <1>7, <1>8 DEF IInv

\* A future that becomes ready keeps the wake-ups it holds.
LEMMA FutureReadyIInv ==
  ASSUME IInv, NEW c \in Contexts, FutureReady(c) PROVE IInv'
<1> USE DEF FutureReady
<1>1. TypeOK'
  BY DEF IInv, TypeOK, sharedVars, poolVars, contextVars, callerVars, ContinuationStates
<1>2. HeldItem' /\ Stacks' /\ PoolAccounting' /\ Leaving'
  BY DEF IInv, HeldItem, Stacks, PoolAccounting, Free, InProgress, Leaving,
         sharedVars, poolVars, contextVars
<1>3. Awaiting' = Awaiting /\ ResumePending' = ResumePending
  BY DEF Awaiting, ResumePending, Resumes, sharedVars, contextVars
<1>4. \A d \in Contexts : continuation'[d] # "none" <=> continuation[d] # "none"
  BY DEF IInv, TypeOK
<1>5. ResumeOnlyAwaiting' /\ WakeUp'
  BY <1>3, <1>4 DEF IInv, TypeOK, ResumeOnlyAwaiting, WakeUp, Awaiting, Resumes,
                    ResumesOnce, sharedVars
<1> QED
  BY <1>1, <1>2, <1>5 DEF IInv


\* pop_front moves a wake-up from the deque to the worker.
LEMMA PopFrontIInv ==
  ASSUME IInv, PopFront PROVE IInv'
<1> USE DEF PopFront, UnchangedContexts
<1>1. item = None /\ item \notin Contexts
  BY TaskQueueConstants DEF IInv, HeldItem
<1>2. /\ queue' \in Seq(Tasks \cup Contexts)
      /\ item' \in Tasks \cup Contexts
      /\ Resumes(queue) = Resumes(queue') \cup ({item'} \cap Contexts)
      /\ ResumesOnce(queue') /\ item' \notin Resumes(queue')
  BY PopFirst DEF IInv, TypeOK, ResumeOnlyAwaiting
<1>3. TypeOK'
  BY <1>2 DEF IInv, TypeOK, WorkerStates, poolVars, contextVars, awaitVars, callerVars
<1>4. HeldItem' /\ Leaving'
  BY <1>2, TaskQueueConstants DEF HeldItem, Leaving
<1>5. Stacks'
  BY DEF IInv, Stacks, InContext, contextVars
<1>6. Awaiting' = Awaiting /\ InProgress' = InProgress
  BY DEF Awaiting, InProgress, contextVars
<1>7. ResumePending' = ResumePending
  BY <1>1, <1>2 DEF ResumePending, Resumes
<1>8. PoolAccounting'
  BY <1>6 DEF IInv, PoolAccounting, Free, poolVars, contextVars
<1>9. ResumeOnlyAwaiting' /\ WakeUp'
  BY <1>2, <1>6, <1>7 DEF IInv, ResumeOnlyAwaiting, WakeUp, Resumes, ResumesOnce, awaitVars
<1> QED
  BY <1>3, <1>4, <1>5, <1>8, <1>9 DEF IInv

\* What run_in_new_context does once it has a context that executes no task.
LEMMA StartInIInv ==
  ASSUME IInv, worker = "dispatch", item \in ResumableTasks,
         NEW c \in Contexts, c \notin keep_alive, StartIn(c),
         created' \in SUBSET Contexts, free_task_contexts' \in Seq(Contexts),
         created' = Free' \cup InProgress \cup {c},
         Free' \cap (InProgress \cup {c}) = {},
         IsInjective(free_task_contexts')
  PROVE  IInv'
<1> USE DEF StartIn
<1>1. /\ current = None /\ None \notin Contexts /\ item \in Tasks /\ item \notin Contexts
  BY TaskQueueConstants DEF IInv, Stacks, InContext, Tasks
<1>2. TypeOK'
  BY <1>1 DEF IInv, TypeOK, WorkerStates, sharedVars, callerVars
<1>3. HeldItem' /\ Leaving'
  BY DEF HeldItem, Leaving
<1>4. Stacks'
  BY <1>1 DEF IInv, TypeOK, Stacks, InContext
<1>5. c \notin Awaiting /\ Awaiting' = Awaiting
  BY <1>1 DEF IInv, Stacks, Awaiting
<1>6. InProgress = keep_alive /\ InProgress' = keep_alive \cup {c}
  BY DEF InProgress
<1>7. PoolAccounting'
  <2>1. IsFiniteSet(keep_alive) /\ Cardinality(keep_alive) = in_progress_count
    BY <1>6, TaskQueueConstants, FS_Subset DEF IInv, TypeOK, PoolAccounting
  <2>2. Cardinality(keep_alive \cup {c}) = in_progress_count + 1
    BY <2>1, FS_AddElement
  <2> QED
    BY <1>6, <2>2 DEF PoolAccounting
<1>8. Resumes(queue)' = Resumes(queue) /\ ResumePending' = ResumePending
  BY <1>1 DEF ResumePending, Resumes, sharedVars
<1>9. ResumeOnlyAwaiting' /\ WakeUp'
  BY <1>1, <1>5, <1>8 DEF IInv, ResumeOnlyAwaiting, ResumesOnce, Resumes, WakeUp, sharedVars
<1> QED
  BY <1>2, <1>3, <1>4, <1>7, <1>9 DEF IInv

\* run_in_new_context with an empty pool: the context is a new one.
LEMMA RunInCreatedContextIInv ==
  ASSUME IInv, RunInCreatedContext PROVE IInv'
<1>1. PICK c \in Contexts \ created : created' = created \cup {c} /\ StartIn(c)
  BY DEF RunInCreatedContext
<1>2. Free = {} /\ Free' = Free
  BY DEF RunInCreatedContext, Free, ToSet
<1>3. InProgress = keep_alive /\ created = Free \cup InProgress
  BY DEF RunInCreatedContext, InProgress, IInv, PoolAccounting
<1>4. /\ created' = Free' \cup InProgress \cup {c}
      /\ Free' \cap (InProgress \cup {c}) = {}
      /\ c \notin keep_alive
  BY <1>1, <1>2, <1>3
<1>5. /\ free_task_contexts' \in Seq(Contexts) /\ IsInjective(free_task_contexts')
      /\ created' \in SUBSET Contexts
  BY <1>1 DEF RunInCreatedContext, IInv, TypeOK, PoolAccounting, IsInjective
<1> QED
  BY <1>1, <1>4, <1>5, StartInIInv DEF RunInCreatedContext

\* run_in_new_context with a free context: the pool holds it once, so that it is
\* free no more.
LEMMA RunInFreeContextIInv ==
  ASSUME IInv, RunInFreeContext PROVE IInv'
<1> DEFINE c == free_task_contexts[Len(free_task_contexts)]
<1>1. /\ free_task_contexts' \in Seq(Contexts) /\ c \in Contexts
      /\ Free = Free' \cup {c}
      /\ IsInjective(free_task_contexts') /\ c \notin Free'
  <2>1. /\ free_task_contexts \in Seq(Contexts) /\ free_task_contexts # <<>>
        /\ IsInjective(free_task_contexts)
        /\ free_task_contexts' = SubSeq(free_task_contexts, 1, Len(free_task_contexts) - 1)
    BY DEF RunInFreeContext, IInv, TypeOK, PoolAccounting
  <2>2. /\ free_task_contexts' \in Seq(Contexts) /\ c \in Contexts
        /\ ToSet(free_task_contexts) = ToSet(free_task_contexts') \cup {c}
        /\ IsInjective(free_task_contexts') /\ c \notin ToSet(free_task_contexts')
    BY <2>1, PopLast
  <2> QED
    BY <2>2 DEF Free, ToSet
<1>2. /\ InProgress = keep_alive
      /\ created = Free \cup InProgress /\ Free \cap InProgress = {}
  BY DEF RunInFreeContext, InProgress, IInv, PoolAccounting
<1>3. /\ created' = Free' \cup InProgress \cup {c}
      /\ Free' \cap (InProgress \cup {c}) = {}
      /\ c \notin keep_alive
      /\ created' \in SUBSET Contexts
  BY <1>1, <1>2 DEF RunInFreeContext, IInv, TypeOK
<1> QED
  BY <1>1, <1>3, StartInIInv DEF RunInFreeContext

\* The resume of a context that is parked in await makes it current.
LEMMA RunResumeIInv ==
  ASSUME IInv, RunResume PROVE IInv'
<1> USE DEF RunResume
<1>1. /\ current = None /\ None \notin Contexts
      /\ item \in suspended
      /\ continuation[item] = "none"
      /\ item \notin Resumes(queue)
  BY TaskQueueConstants DEF IInv, Stacks, InContext, ResumeOnlyAwaiting,
     ResumePending, Awaiting
<1>2. TypeOK'
  BY DEF IInv, TypeOK, WorkerStates, sharedVars, poolVars, awaitVars, callerVars
<1>3. HeldItem' /\ Leaving'
  BY DEF HeldItem, Leaving
<1>4. Stacks'
  BY <1>1 DEF IInv, TypeOK, Stacks, InContext
<1>5. Awaiting' = Awaiting \ {item} /\ InProgress' = InProgress
  BY DEF Awaiting, InProgress
<1>6. Resumes(queue)' = Resumes(queue) /\ ResumePending' = ResumePending \ {item}
  BY <1>1 DEF ResumePending, Resumes, sharedVars
<1>7. PoolAccounting'
  BY <1>5 DEF IInv, PoolAccounting, Free, poolVars
<1>8. ResumeOnlyAwaiting'
  <2>1. item' \notin Resumes(queue)'
    BY <1>1, <1>6 DEF Resumes
  <2> QED
    BY <1>1, <1>5, <1>6, <2>1 DEF IInv, ResumeOnlyAwaiting, ResumesOnce, sharedVars, awaitVars
<1>9. WakeUp'
  BY <1>1, <1>5, <1>6 DEF IInv, WakeUp, sharedVars, awaitVars
<1> QED
  BY <1>2, <1>3, <1>4, <1>7, <1>8, <1>9 DEF IInv

\* The thread drops the pool when no task is in progress.
LEMMA ThreadExitIInv ==
  ASSUME IInv, ThreadExit PROVE IInv'
<1> USE DEF ThreadExit
<1>1. TypeOK'
  BY DEF IInv, TypeOK, WorkerStates, sharedVars, awaitVars, callerVars
<1>2. HeldItem' /\ Leaving' /\ Stacks'
  BY DEF IInv, HeldItem, Leaving, Stacks, InContext, sharedVars
<1>3. Awaiting' = Awaiting /\ InProgress' = InProgress /\ ResumePending' = ResumePending
  BY DEF Awaiting, InProgress, ResumePending, Resumes, sharedVars
<1>4. Free' = {} /\ IsInjective(free_task_contexts)'
  BY DEF Free, ToSet, IsInjective
<1>5. PoolAccounting'
  BY <1>3, <1>4 DEF IInv, PoolAccounting, Free
<1>6. ResumeOnlyAwaiting' /\ WakeUp'
  BY <1>3 DEF IInv, ResumeOnlyAwaiting, ResumesOnce, Resumes, WakeUp, sharedVars, awaitVars
<1> QED
  BY <1>1, <1>2, <1>5, <1>6 DEF IInv

------------------------------------------------------------------------------
(* Steps of the task inside the context `current`. *)

\* While a context is current the worker holds no item, and the context is a
\* parked one in no sense: nothing is going to resume it.
LEMMA InTask ==
  ASSUME IInv, worker \in InContext
  PROVE  /\ current \in Contexts /\ current \in keep_alive /\ current \notin suspended
         /\ current # None /\ None \notin Contexts
         /\ item = None
         /\ worker # "awaiting" =>
              current \notin Awaiting /\ current \notin ResumePending
                /\ continuation[current] = "none"
<1>1. /\ current \in Contexts /\ current \in keep_alive /\ current \notin suspended
      /\ current # None /\ None \notin Contexts
  BY TaskQueueConstants DEF IInv, TypeOK, Stacks
<1>2. item = None
  BY DEF IInv, HeldItem, InContext
<1>3. ASSUME worker # "awaiting"
      PROVE  current \notin Awaiting /\ current \notin ResumePending
               /\ continuation[current] = "none"
  BY <1>1, <1>3 DEF IInv, ResumeOnlyAwaiting, Awaiting
<1> QED
  BY <1>1, <1>2, <1>3

\* await leaves its callback with the future: the only wake-up of the context.
LEMMA AwaitArmIInv ==
  ASSUME IInv, AwaitArm PROVE IInv'
<1> USE DEF AwaitArm
<1>1. /\ current \in Contexts /\ current \notin Awaiting
      /\ current \notin ResumePending /\ item = None /\ None \notin Contexts
  BY InTask DEF InContext
<1>2. TypeOK'
  BY <1>1 DEF IInv, TypeOK, WorkerStates, ContinuationStates, sharedVars, poolVars,
     contextVars, callerVars
<1>3. HeldItem' /\ Leaving' /\ Stacks'
  BY DEF IInv, HeldItem, Leaving, Stacks, InContext, contextVars
<1>4. /\ Awaiting' = Awaiting \cup {current} /\ InProgress' = InProgress
      /\ ResumePending' = ResumePending
  BY DEF Awaiting, InProgress, ResumePending, Resumes, contextVars, sharedVars
<1>5. PoolAccounting'
  BY <1>4 DEF IInv, PoolAccounting, Free, poolVars, contextVars
<1>6. /\ continuation'[current] = "armed"
      /\ \A c \in Contexts : c # current => continuation'[c] = continuation[c]
  BY <1>1 DEF IInv, TypeOK
<1>7. ResumeOnlyAwaiting'
  BY <1>1, <1>4, <1>6 DEF IInv, ResumeOnlyAwaiting, ResumesOnce, Resumes, sharedVars
<1>8. WakeUp'
  <2>1. Awaiting \subseteq Contexts
    BY <1>1 DEF Awaiting, IInv, TypeOK
  <2> QED
    BY <1>4, <1>6, <2>1 DEF IInv, WakeUp, sharedVars
<1> QED
  BY <1>2, <1>3, <1>5, <1>7, <1>8 DEF IInv

\* The callback of await runs on the worker itself, before the context yields.
LEMMA AwaitInlineIInv ==
  ASSUME IInv, AwaitInline PROVE IInv'
<1> USE DEF AwaitInline
<1>1. /\ current \in Contexts /\ current \notin Awaiting
      /\ current \notin ResumePending /\ item = None /\ None \notin Contexts
      /\ continuation[current] = "none"
  BY InTask DEF InContext
<1>2. /\ queue' \in Seq(Tasks \cup Contexts)
      /\ Resumes(queue') = Resumes(queue) \cup {current}
      /\ ResumesOnce(queue')
  BY <1>1, PushFrontResume DEF IInv, TypeOK, ResumeOnlyAwaiting, ResumePending
<1>3. TypeOK'
  BY <1>1, <1>2 DEF IInv, TypeOK, WorkerStates, poolVars, contextVars, callerVars
<1>4. HeldItem' /\ Leaving' /\ Stacks'
  BY DEF IInv, HeldItem, Leaving, Stacks, InContext, contextVars
<1>5. Resumes(queue)' = Resumes(queue) \cup {current}
  BY <1>2 DEF Resumes
<1>6. /\ Awaiting' = Awaiting \cup {current} /\ InProgress' = InProgress
      /\ ResumePending' = ResumePending \cup {current}
  BY <1>5 DEF Awaiting, InProgress, ResumePending, contextVars
<1>7. PoolAccounting'
  BY <1>6 DEF IInv, PoolAccounting, Free, poolVars, contextVars
<1>8. ResumeOnlyAwaiting'
  <2>1. item' \notin Resumes(queue)'
    BY <1>1, <1>5 DEF Resumes
  <2> QED
    BY <1>1, <1>2, <1>6, <2>1 DEF IInv, ResumeOnlyAwaiting, ResumesOnce
<1>9. WakeUp'
  BY <1>6 DEF IInv, WakeUp
<1> QED
  BY <1>3, <1>4, <1>7, <1>8, <1>9 DEF IInv

\* The context that leaves through await keeps its wake-up, which may be queued
\* already.
LEMMA YieldIInv ==
  ASSUME IInv, Yield PROVE IInv'
<1> USE DEF Yield
<1>1. /\ current \in Contexts /\ current \in keep_alive /\ None \notin Contexts
      /\ item = None
  BY InTask DEF InContext
<1>2. TypeOK'
  BY <1>1 DEF IInv, TypeOK, WorkerStates, sharedVars, poolVars, awaitVars, callerVars
<1>3. HeldItem' /\ Leaving'
  BY DEF IInv, HeldItem, Leaving
<1>4. Stacks'
  BY <1>1 DEF IInv, TypeOK, Stacks, InContext
<1>5. Awaiting' = Awaiting /\ InProgress' = InProgress /\ ResumePending' = ResumePending
  BY DEF Awaiting, InProgress, ResumePending, Resumes, sharedVars
<1>6. PoolAccounting'
  BY <1>5 DEF IInv, PoolAccounting, Free, poolVars
<1>7. ResumeOnlyAwaiting' /\ WakeUp'
  BY <1>5 DEF IInv, ResumeOnlyAwaiting, ResumesOnce, Resumes, WakeUp, sharedVars, awaitVars
<1> QED
  BY <1>2, <1>3, <1>4, <1>6, <1>7 DEF IInv

\* A task ends in a context that nothing is going to resume.
LEMMA TaskReturnIInv ==
  ASSUME IInv, TaskReturn PROVE IInv'
<1> USE DEF TaskReturn, UnchangedContexts
<1>1. current \in keep_alive /\ func[current] \in Tasks
  BY InTask DEF InContext, IInv, Stacks
<1>2. TypeOK'
  BY <1>1 DEF IInv, TypeOK, WorkerStates, sharedVars, poolVars, contextVars, awaitVars, callerVars
<1>3. HeldItem' /\ Leaving' /\ Stacks'
  BY DEF IInv, HeldItem, Leaving, Stacks, InContext, contextVars
<1>4. Awaiting' = Awaiting /\ InProgress' = InProgress /\ ResumePending' = ResumePending
  BY DEF Awaiting, InProgress, ResumePending, Resumes, sharedVars, contextVars
<1>5. PoolAccounting'
  BY <1>4 DEF IInv, PoolAccounting, Free, poolVars, contextVars
<1>6. ResumeOnlyAwaiting' /\ WakeUp'
  BY <1>4 DEF IInv, ResumeOnlyAwaiting, ResumesOnce, Resumes, WakeUp, sharedVars, awaitVars
<1> QED
  BY <1>2, <1>3, <1>5, <1>6 DEF IInv

\* task_complete gives a context back: one in progress less, one free more.
LEMMA TaskCompleteIInv ==
  ASSUME IInv, task_complete PROVE IInv'
<1> USE DEF task_complete
<1>1. /\ current \in Contexts /\ current \in keep_alive
  BY InTask DEF InContext
<1>2. /\ InProgress = keep_alive
      /\ InProgress' = keep_alive \ {current}
  BY DEF InProgress, contextVars
<1>3. /\ IsFiniteSet(keep_alive)
      /\ Cardinality(keep_alive) = in_progress_count
      /\ Cardinality(keep_alive \ {current}) = in_progress_count - 1
      /\ in_progress_count' \in Nat
  <2>1. IsFiniteSet(keep_alive) /\ Cardinality(keep_alive) = in_progress_count
    BY <1>2, TaskQueueConstants, FS_Subset DEF IInv, TypeOK, PoolAccounting
  <2>2. Cardinality(keep_alive \ {current}) = in_progress_count - 1
    BY <1>1, <2>1, FS_RemoveElement
  <2>3. Cardinality(keep_alive \ {current}) \in Nat
    BY <2>1, FS_RemoveElement, FS_CardinalityType
  <2> QED
    BY <2>1, <2>2, <2>3
<1>4. /\ free_task_contexts' \in Seq(Contexts)
      /\ Free' = Free \cup {current}
      /\ IsInjective(free_task_contexts')
  <2>1. free_task_contexts \in Seq(Contexts) /\ IsInjective(free_task_contexts)
    BY DEF IInv, TypeOK, PoolAccounting
  <2>2. current \notin ToSet(free_task_contexts)
    BY <1>1, <1>2 DEF IInv, PoolAccounting, Free
  <2>3. /\ free_task_contexts' \in Seq(Contexts)
        /\ ToSet(free_task_contexts') = ToSet(free_task_contexts) \cup {current}
        /\ IsInjective(free_task_contexts')
    BY <1>1, <2>1, <2>2, AppendNew
  <2> QED
    BY <2>3 DEF Free, ToSet
<1>5. TypeOK'
  BY <1>3, <1>4 DEF IInv, TypeOK, WorkerStates, sharedVars, contextVars, awaitVars, callerVars
<1>6. HeldItem' /\ Leaving' /\ Stacks'
  BY DEF IInv, HeldItem, Leaving, Stacks, InContext, contextVars
<1>7. PoolAccounting'
  BY <1>1, <1>2, <1>3, <1>4 DEF IInv, PoolAccounting, contextVars, IsInjective
<1>8. Awaiting' = Awaiting /\ ResumePending' = ResumePending
  BY DEF Awaiting, ResumePending, Resumes, sharedVars, contextVars
<1>9. ResumeOnlyAwaiting' /\ WakeUp'
  BY <1>8 DEF IInv, ResumeOnlyAwaiting, ResumesOnce, Resumes, WakeUp, sharedVars, awaitVars
<1> QED
  BY <1>5, <1>6, <1>7, <1>9 DEF IInv

\* The last yield of a context leaves it in the pool only.
LEMMA ParkIInv ==
  ASSUME IInv, Park PROVE IInv'
<1> USE DEF Park
<1>1. /\ current \in Contexts /\ current \in keep_alive /\ None \notin Contexts
      /\ current \notin suspended /\ item = None
  BY InTask DEF InContext
<1>2. TypeOK'
  BY DEF IInv, TypeOK, WorkerStates, sharedVars, poolVars, awaitVars, callerVars
<1>3. HeldItem' /\ Leaving'
  BY DEF IInv, HeldItem, Leaving
<1>4. Stacks'
  BY <1>1 DEF IInv, TypeOK, Stacks, InContext
<1>5. Awaiting' = Awaiting /\ InProgress' = InProgress /\ ResumePending' = ResumePending
  BY DEF Awaiting, InProgress, ResumePending, Resumes, sharedVars
<1>6. PoolAccounting'
  BY <1>5 DEF IInv, PoolAccounting, Free, poolVars
<1>7. ResumeOnlyAwaiting' /\ WakeUp'
  BY <1>5 DEF IInv, ResumeOnlyAwaiting, ResumesOnce, Resumes, WakeUp, sharedVars, awaitVars
<1> QED
  BY <1>2, <1>3, <1>4, <1>6, <1>7 DEF IInv

------------------------------------------------------------------------------
(* Every step. *)

\* Every step of the queue and its clients preserves the inductive invariant.
LEMMA NextIInv == IInv /\ [Next]_vars => IInv'
<1> SUFFICES ASSUME IInv, [Next]_vars PROVE IInv'
  OBVIOUS
<1>1. CASE CvWait \/ CvWake \/ CvSpuriousWake \/ LeaveLoop \/ RunPlain
  <2>1. /\ worker \notin InContext /\ worker' \in WorkerStates \ InContext
        /\ UNCHANGED <<sharedVars, item, current, poolVars, contextVars, awaitVars>>
        /\ UNCHANGED <<joiner, pushed, done>>
    BY <1>1 DEF CvWait, CvWake, CvSpuriousWake, LeaveLoop, RunPlain, UnchangedContexts,
       callerVars, WorkerStates, InContext
  <2>2. HeldItem'
    BY <1>1 DEF CvWait, CvWake, CvSpuriousWake, LeaveLoop, RunPlain, IInv, HeldItem
  <2>3. Leaving'
    BY <1>1, <2>1 DEF CvWait, CvWake, CvSpuriousWake, LeaveLoop, RunPlain, Leaving,
       join_possible, sharedVars, poolVars
  <2> QED
    BY <2>1, <2>2, <2>3, ControlStep DEF IInv, TypeOK
<1>2. CASE PlainReturn
  <2>1. /\ worker \notin InContext /\ worker' \in WorkerStates \ InContext
        /\ UNCHANGED <<sharedVars, current, joiner, pushed>>
        /\ UnchangedContexts
        /\ item \in PlainTasks /\ item' = None
    BY <1>2 DEF PlainReturn, callerVars, WorkerStates, InContext, IInv, HeldItem
  <2>2. TypeOK'
    BY <1>2, <2>1 DEF PlainReturn, IInv, TypeOK, Tasks, UnchangedContexts, sharedVars,
       poolVars, contextVars, awaitVars
  <2>3. HeldItem' /\ Leaving' /\ Stacks'
    BY <1>2, <2>1 DEF PlainReturn, HeldItem, Leaving, IInv, Stacks, InContext,
       UnchangedContexts, contextVars
  <2>4. Awaiting' = Awaiting /\ InProgress' = InProgress
    BY <1>2, <2>1 DEF PlainReturn, Awaiting, InProgress, UnchangedContexts, contextVars
  <2>5. Resumes(queue)' = Resumes(queue) /\ ResumePending' = ResumePending
    BY <2>1, TaskQueueConstants DEF ResumePending, Resumes, Tasks, sharedVars
  <2>6. PoolAccounting'
    BY <2>1, <2>4 DEF IInv, PoolAccounting, Free, UnchangedContexts, poolVars, contextVars
  <2>7. ResumeOnlyAwaiting' /\ WakeUp'
    <3>1. item' \notin Resumes(queue)'
      BY <2>1, TaskQueueConstants DEF Resumes
    <3> QED
      BY <2>1, <2>4, <2>5, <3>1 DEF IInv, ResumeOnlyAwaiting, ResumesOnce, WakeUp,
         UnchangedContexts, sharedVars, awaitVars
  <2> QED
    BY <2>2, <2>3, <2>6, <2>7 DEF IInv
<1>3. CASE JoinReturn
  <2>1. /\ worker \notin InContext /\ worker' \in WorkerStates \ InContext
        /\ UNCHANGED <<sharedVars, item, current, poolVars, contextVars, awaitVars>>
        /\ UNCHANGED <<worker, pushed, done>> /\ joiner' = "joined"
    BY <1>3 DEF JoinReturn, UnchangedContexts, WorkerStates, InContext
  <2>2. HeldItem' /\ Leaving'
    BY <2>1 DEF IInv, HeldItem, Leaving, sharedVars, poolVars
  <2> QED
    BY <2>1, <2>2, ControlStep DEF IInv, TypeOK
<1>4. CASE PopFront
  BY <1>4, PopFrontIInv
<1>5. CASE ThreadExit
  BY <1>5, ThreadExitIInv
<1>6. CASE RunInCreatedContext \/ RunInFreeContext \/ RunResume
  BY <1>6, RunInCreatedContextIInv, RunInFreeContextIInv, RunResumeIInv
<1>7. CASE Task
  BY <1>7, AwaitArmIInv, AwaitInlineIInv, YieldIInv, TaskReturnIInv,
     TaskCompleteIInv, ParkIInv DEF Task
<1>8. ASSUME NEW t \in Tasks, PushBack(t) PROVE IInv'
  BY <1>8, PushBackIInv
<1>9. ASSUME NEW c \in Contexts, FutureReady(c) \/ push_front(c) PROVE IInv'
  BY <1>9, FutureReadyIInv, PushFrontIInv
<1>10. CASE JoinCall
  BY <1>10, JoinCallIInv
<1>11. CASE UNCHANGED vars
  BY <1>11 DEF vars, sharedVars, poolVars, contextVars, awaitVars, callerVars,
     IInv, TypeOK, HeldItem, Stacks, PoolAccounting, ResumeOnlyAwaiting, Leaving,
     WakeUp, Awaiting, InProgress, Free, ResumePending, Resumes, ResumesOnce, IsInjective
<1> QED
  BY <1>1, <1>2, <1>3, <1>4, <1>5, <1>6, <1>7, <1>8, <1>9, <1>10, <1>11
  DEF Next, Worker, Loop, Run, Environment, Terminated

\* The inductive invariant holds in every reachable state.
THEOREM IInvInvariant == Spec => []IInv
BY InitIInv, NextIInv, PTL DEF Spec

\* Type correctness of the model of task_queue_impl.
THEOREM TypeCorrect == Spec => []TypeOK
<1>1. IInv => TypeOK
  BY DEF IInv
<1> QED
  BY <1>1, IInvInvariant, PTL

\* Every resume that is queued or about to be queued is for a context parked in
\* await, and no context has two: push_front never resumes another task's stack.
THEOREM ResumeSafe == Spec => []ResumeOnlyAwaiting
<1>1. IInv => ResumeOnlyAwaiting
  BY DEF IInv
<1> QED
  BY <1>1, IInvInvariant, PTL

\* The asserts on current_task_context in resume, yield and run_in_new_context.
THEOREM CurrentContextSafe == Spec => []CurrentContext
<1>1. IInv => CurrentContext
  BY DEF IInv, Stacks, CurrentContext
<1> QED
  BY <1>1, IInvInvariant, PTL

\* in_progress_count_ counts the contexts that execute a task, and the pool
\* holds each of the others once.
THEOREM PoolSafe == Spec => []PoolAccounting
<1>1. IInv => PoolAccounting
  BY DEF IInv
<1> QED
  BY <1>1, IInvInvariant, PTL

\* The count is zero only when no context executes a task.
LEMMA NothingInProgress ==
  ASSUME IInv, in_progress_count = 0, worker # "finished"
  PROVE  suspended = {} /\ keep_alive = {}
<1>1. InProgress = keep_alive /\ Cardinality(keep_alive) = 0
  BY DEF InProgress, IInv, PoolAccounting
<1>2. keep_alive = {}
  BY <1>1, TaskQueueConstants, FS_Subset, FS_EmptySet DEF IInv, TypeOK
<1> QED
  BY <1>2 DEF IInv, Stacks

\* The worker thread ends only when no task is in progress.
THEOREM ExitSafe == Spec => []NoTaskAbandoned
<1>1. IInv => NoTaskAbandoned
  BY NothingInProgress DEF NoTaskAbandoned, IInv, Leaving
<1> QED
  BY <1>1, IInvInvariant, PTL

\* Until join is called, whatever is parked in await will be resumed: its
\* continuation is registered, or is running, or its resume is queued.
THEOREM WakeUpSafe == Spec => []WakeUpPendingUntilJoin
<1>1. IInv => WakeUpPendingUntilJoin
  BY DEF IInv, WakeUp, WakeUpPendingUntilJoin, WakeUpPending, Awaiting
<1> QED
  BY <1>1, IInvInvariant, PTL

------------------------------------------------------------------------------
(* The queue implements Executor.                                            *)

\* Contexts whose task has not returned.
Unfinished == suspended \cup (IF worker \in {"task", "awaiting"} THEN {current} ELSE {})

\* A task that was pushed and has not ended is in one place: waiting in the
\* deque, held by the worker, or inside one context.
Places ==
  /\ join <=> joiner # "none"
  /\ done \cup ToSet(Backlog) \cup ({item} \cap Tasks) \subseteq pushed
  /\ \A c \in Unfinished : func[c] \in pushed /\ func[c] # item /\ func[c] \notin ToSet(Backlog)
  /\ \A c, d \in Unfinished : func[c] = func[d] => c = d
  /\ IsInjective(Backlog)
  /\ item \notin ToSet(Backlog)

\* Where the running task is, by the state of the worker.
LEMMA Running ==
  IInv => /\ worker \in {"task", "awaiting"} =>
               /\ item = None /\ current \in Contexts /\ current \in keep_alive
               /\ current \notin suspended /\ func[current] \in Tasks
               /\ RunningTask = func[current]
          /\ worker \notin {"task", "awaiting", "dispatch", "plain"} =>
               item = None /\ RunningTask = None
          /\ item \in Tasks => RunningTask = item
          /\ item \in Contexts => item \in suspended /\ RunningTask = func[item]
          /\ suspended \subseteq keep_alive /\ suspended \subseteq Contexts
          /\ \A c \in suspended : func[c] \in Tasks
          /\ \A c \in Contexts : c \notin Tasks /\ c # None
          /\ None \notin Tasks
<1> SUFFICES ASSUME IInv
             PROVE  /\ worker \in {"task", "awaiting"} =>
                         /\ item = None /\ current \in Contexts /\ current \in keep_alive
                         /\ current \notin suspended /\ func[current] \in Tasks
                         /\ RunningTask = func[current]
                    /\ worker \notin {"task", "awaiting", "dispatch", "plain"} =>
                         item = None /\ RunningTask = None
                    /\ item \in Tasks => RunningTask = item
                    /\ item \in Contexts => item \in suspended /\ RunningTask = func[item]
                    /\ suspended \subseteq keep_alive /\ suspended \subseteq Contexts
                    /\ \A c \in suspended : func[c] \in Tasks
                    /\ \A c \in Contexts : c \notin Tasks /\ c # None
                    /\ None \notin Tasks
  OBVIOUS
<1>1. /\ \A c \in Contexts : c \notin Tasks /\ c # None
      /\ None \notin Tasks
  BY TaskQueueConstants DEF Tasks
<1>2. suspended \subseteq keep_alive /\ suspended \subseteq Contexts
  BY DEF IInv, TypeOK, Stacks
<1>3. \A c \in keep_alive : func[c] \in Tasks
  BY DEF IInv, Stacks
<1>4. worker \notin {"dispatch", "plain"} => item = None
  BY DEF IInv, HeldItem
<1>5. ASSUME worker \in {"task", "awaiting"}
      PROVE  current \in Contexts /\ current \in keep_alive /\ current \notin suspended
  BY <1>5, InTask DEF InContext
<1>6. item \in Contexts => item \in suspended
  BY <1>4, <1>1 DEF IInv, ResumeOnlyAwaiting, ResumePending, Awaiting
<1> QED
  BY <1>1, <1>2, <1>3, <1>4, <1>5, <1>6 DEF RunningTask

\* The same of the next state.
LEMMA RunningNext ==
  (IInv => /\ worker \in {"task", "awaiting"} => RunningTask = func[current]
           /\ worker \notin {"task", "awaiting", "dispatch", "plain"} => RunningTask = None
           /\ item \in Tasks => RunningTask = item
           /\ item \in Contexts => RunningTask = func[item])'
<1>1. IInv => /\ worker \in {"task", "awaiting"} => RunningTask = func[current]
              /\ worker \notin {"task", "awaiting", "dispatch", "plain"} => RunningTask = None
              /\ item \in Tasks => RunningTask = item
              /\ item \in Contexts => RunningTask = func[item]
  BY Running
<1> QED
  BY <1>1, PTL

\* The deque of the abstract state.
LEMMA BacklogType ==
  IInv => Backlog \in Seq(Tasks) /\ Exec!Queued = ToSet(Backlog)
<1> SUFFICES ASSUME IInv PROVE Backlog \in Seq(Tasks) /\ Exec!Queued = ToSet(Backlog)
  OBVIOUS
<1>1. queue \in Seq(Tasks \cup Contexts)
  BY DEF IInv, TypeOK
<1> QED
  BY <1>1, OnlyElements DEF Backlog, Exec!Queued, ToSet

\* A step that moves no task preserves Places.
LEMMA SamePlaces ==
  ASSUME Places, Backlog' = Backlog, UNCHANGED <<item, func, join, pushed, done>>,
         Unfinished' = Unfinished, joiner' # "none" <=> joiner # "none"
  PROVE  Places'
BY DEF Places, ToSet, IsInjective

\* A step that the abstract state does not show.
LEMMA Unseen ==
  ASSUME Backlog' = Backlog, RunningTask' = RunningTask, UNCHANGED <<done, join>>,
         {func[c] : c \in suspended}' = {func[c] : c \in suspended},
         worker' \in {"leaving", "exited"} <=> worker \in {"leaving", "exited"}
  PROVE  UNCHANGED Exec!vars
BY DEF Exec!vars

\* Nothing has a place in the beginning.
LEMMA InitExec == Init => Exec!Init /\ Places
<1> SUFFICES ASSUME Init PROVE Exec!Init /\ Places
  OBVIOUS
<1>1. Backlog = <<>>
  BY OnlyOfEmpty DEF Init, Backlog
<1>2. ToSet(Backlog) = {} /\ IsInjective(Backlog)
  BY <1>1, EmptyElements
<1>3. None \notin Tasks /\ None \notin Contexts
  BY TaskQueueConstants DEF Tasks
<1>4. RunningTask = None /\ {func[c] : c \in suspended} = {} /\ Unfinished = {}
  BY <1>3 DEF Init, RunningTask, Unfinished
<1> QED
  BY <1>1, <1>2, <1>3, <1>4 DEF Init, Exec!Init, Places

\* push_back submits a task.
LEMMA PushBackRefines ==
  ASSUME IInv, IInv', Places, NEW t \in Tasks, PushBack(t)
  PROVE  Places' /\ Exec!Submit(t)
<1>1. /\ t \notin pushed /\ pushed' = pushed \cup {t} /\ queue' = Append(queue, t)
      /\ UNCHANGED <<join, item, current, joiner, done, func, suspended>>
      /\ worker' = worker \/ (worker = "waiting" /\ worker' = "woken")
  BY DEF PushBack, Enqueue, NotifyOne, UnchangedContexts, contextVars
<1>2. Backlog' = Append(Backlog, t)
  <2>1. queue \in Seq(Tasks \cup Contexts) /\ t \in Tasks \cup Contexts
    BY DEF IInv, TypeOK
  <2>2. Only(Append(queue, t), Tasks) = Append(Only(queue, Tasks), t)
    BY <2>1, OnlyOfAppend
  <2> QED
    BY <1>1, <2>2, Zenon DEF Backlog
<1>3. Backlog \in Seq(Tasks) /\ Exec!Queued = ToSet(Backlog)
  BY BacklogType
<1>4. t \notin ToSet(Backlog) /\ IsInjective(Backlog)
  BY <1>1 DEF Places
<1>5. ToSet(Append(Backlog, t)) = ToSet(Backlog) \cup {t} /\ IsInjective(Append(Backlog, t))
  BY <1>3, <1>4, AppendNew
<1>6. /\ ToSet(Backlog)' = ToSet(Backlog) \cup {t}
      /\ IsInjective(Backlog)'
  BY <1>2, <1>5 DEF ToSet, IsInjective
<1>7. Unfinished' = Unfinished
  BY <1>1 DEF Unfinished
<1>8. item \in pushed \/ item \notin Tasks
  BY DEF Places
<1>9. Places'
  BY <1>1, <1>6, <1>7, <1>8 DEF Places
<1>10. RunningTask' = RunningTask /\ (worker' \in {"leaving", "exited"} <=> worker \in {"leaving", "exited"})
  BY <1>1 DEF RunningTask
<1>11. t \notin {func[c] : c \in suspended} \ {RunningTask} /\ t \notin done /\ t # RunningTask
  <2>1. \A c \in Unfinished : func[c] # t
    BY <1>1 DEF Places
  <2>2. t # RunningTask
    BY <1>1, <1>8, <2>1, Running DEF RunningTask, Unfinished
  <2> QED
    BY <1>1, <2>1, <2>2 DEF Places, Unfinished
<1> QED
  BY <1>1, <1>2, <1>3, <1>4, <1>9, <1>10, <1>11 DEF Exec!Submit

\* join closes the executor.
LEMMA JoinCallRefines ==
  ASSUME IInv, IInv', Places, JoinCall
  PROVE  Places' /\ Exec!Close
<1>1. /\ joiner = "none" /\ joiner' = "joining" /\ queue' = <<>> /\ join' = TRUE
      /\ UNCHANGED <<pushed, item, current, done, func, suspended>>
      /\ worker' = worker \/ (worker = "waiting" /\ worker' = "woken")
  BY DEF JoinCall, NotifyOne, UnchangedContexts, contextVars
<1>2. Backlog' = <<>>
  BY <1>1, OnlyOfEmpty, Zenon DEF Backlog
<1>3. ToSet(Backlog)' = {} /\ IsInjective(Backlog)'
  BY <1>2, EmptyElements DEF ToSet, IsInjective
<1>4. Unfinished' = Unfinished
  BY <1>1 DEF Unfinished
<1>5. Places'
  BY <1>1, <1>3, <1>4 DEF Places
<1>6. RunningTask' = RunningTask /\ (worker' \in {"leaving", "exited"} <=> worker \in {"leaving", "exited"})
  BY <1>1 DEF RunningTask
<1>7. ~join
  BY <1>1 DEF Places, IInv, TypeOK
<1> QED
  BY <1>1, <1>2, <1>5, <1>6, <1>7 DEF Exec!Close

\* pop_front starts the task it takes, or continues the one whose context it takes.
LEMMA PopFrontRefines ==
  ASSUME IInv, IInv', Places, PopFront
  PROVE  /\ Places'
         /\ Exec!Start \/ \E t \in Tasks : Exec!Continue(t)
<1>1. /\ worker = "loop" /\ queue # <<>> /\ item' = Head(queue) /\ queue' = Tail(queue)
      /\ worker' = "dispatch"
      /\ UNCHANGED <<join, joiner, current, pushed, done, func, suspended>>
  BY DEF PopFront, UnchangedContexts, contextVars, callerVars
<1>2. queue \in Seq(Tasks \cup Contexts) /\ item' \in Tasks \cup Contexts
  BY <1>1 DEF IInv, TypeOK
<1>3. /\ item = None /\ RunningTask = None /\ Unfinished' = Unfinished
      /\ Unfinished = suspended
  BY <1>1, Running DEF Unfinished
<1>4. Backlog \in Seq(Tasks)
  BY BacklogType
<1>5. CASE item' \in Tasks
  <2>1. Only(queue, Tasks) # <<>> /\ Head(Only(queue, Tasks)) = item' /\ Tail(Only(queue, Tasks)) = Only(queue', Tasks)
    BY <1>1, <1>2, <1>5, OnlyOfPop
  <2>2. Backlog # <<>> /\ Head(Backlog) = item' /\ Backlog' = Tail(Backlog)
    BY <2>1, Zenon DEF Backlog
  <2>3. /\ ToSet(Backlog) = ToSet(Tail(Backlog)) \cup {item'}
        /\ IsInjective(Tail(Backlog)) /\ item' \notin ToSet(Tail(Backlog))
    BY <1>4, <2>2, PopHead DEF Places
  <2>4. /\ ToSet(Backlog) = ToSet(Backlog)' \cup {item'}
        /\ IsInjective(Backlog)' /\ item' \notin ToSet(Backlog)'
    BY <2>2, <2>3 DEF ToSet, IsInjective
  <2>5. Places'
    BY <1>1, <1>3, <2>4 DEF Places
  <2>6. RunningTask' = item' /\ item' \notin {func[c] : c \in suspended}
    BY <1>3, <1>5, <2>4, RunningNext DEF Places
  <2>7. None \notin {func[c] : c \in suspended}
    BY Running
  <2>8. Exec!Start
    BY <1>1, <1>3, <2>2, <2>6, <2>7 DEF Exec!Start
  <2> QED
    BY <2>5, <2>8
<1>6. CASE item' \in Contexts
  <2>1. Only(queue, Tasks) = Only(queue', Tasks)
    BY <1>1, <1>2, <1>6, Running, OnlyOfPop
  <2>2. Backlog' = Backlog
    BY <2>1, Zenon DEF Backlog
  <2>3. ToSet(Backlog)' = ToSet(Backlog) /\ IsInjective(Backlog)'
    BY <2>2 DEF Places, ToSet, IsInjective
  <2>4. item' \notin Tasks /\ ToSet(Backlog) \subseteq Tasks
    BY <1>4, <1>6, Running DEF ToSet
  <2>5. \A c \in Unfinished : func[c] \in Tasks
    BY <1>3, Running
  <2>6. Places'
    BY <1>1, <1>3, <2>3, <2>4, <2>5 DEF Places
  <2>7. item' \in suspended
    <3>1. item' \in Resumes(queue)
      BY <1>1, <1>2, <1>6, PopFirst
    <3> QED
      BY <1>1, <3>1 DEF IInv, ResumeOnlyAwaiting, ResumePending, Awaiting
  <2>8. RunningTask' = func[item'] /\ func[item'] \in Tasks
    BY <1>1, <1>6, <2>7, Running, RunningNext
  <2>9. None \notin {func[c] : c \in suspended}
    BY Running
  <2>10. PICK t \in Tasks : t = func[item']
    BY <2>8
  <2>11. Exec!Continue(t)
    BY <1>1, <1>3, <2>2, <2>7, <2>8, <2>9, <2>10 DEF Exec!Continue
  <2> QED
    BY <2>6, <2>11
<1> QED
  BY <1>2, <1>5, <1>6

\* A task that starts in a context moves from the worker's hands to the context.
LEMMA StartInRefines ==
  ASSUME IInv, IInv', Places, RunInCreatedContext \/ RunInFreeContext
  PROVE  Places' /\ UNCHANGED Exec!vars
<1>1. PICK c \in Contexts : StartIn(c) /\ c \notin keep_alive
  <2>1. CASE RunInCreatedContext
    BY <2>1 DEF RunInCreatedContext, IInv, PoolAccounting, InProgress
  <2>2. CASE RunInFreeContext
    <3> DEFINE c == free_task_contexts[Len(free_task_contexts)]
    <3>1. worker = "dispatch" /\ StartIn(c)
      BY <2>2 DEF RunInFreeContext
    <3>2. c \in Contexts /\ c \in Free
      <4>1. free_task_contexts \in Seq(Contexts) /\ free_task_contexts # <<>>
        BY <2>2 DEF RunInFreeContext, IInv, TypeOK
      <4>2. Len(free_task_contexts) \in DOMAIN free_task_contexts
        BY <4>1
      <4> QED
        BY <4>1, <4>2 DEF Free, ToSet
    <3> QED
      BY <3>1, <3>2 DEF IInv, PoolAccounting, InProgress
  <2> QED
    BY <2>1, <2>2
<1>2. /\ item \in Tasks /\ worker = "dispatch" /\ worker' = "task" /\ current' = c
      /\ item' = None /\ func' = [func EXCEPT ![c] = item]
      /\ UNCHANGED <<queue, join, suspended, joiner, pushed, done>>
  BY <1>1 DEF RunInCreatedContext, RunInFreeContext, StartIn, sharedVars, callerVars, Tasks
<1>3. /\ func'[c] = item /\ c \notin suspended
      /\ \A d \in suspended : func'[d] = func[d]
  BY <1>1, <1>2, Running DEF IInv, TypeOK
<1>4. Unfinished = suspended /\ Unfinished' = suspended \cup {c}
  BY <1>2 DEF Unfinished
<1>5. Backlog' = Backlog
  BY <1>2 DEF Backlog
<1>6. ToSet(Backlog)' = ToSet(Backlog) /\ IsInjective(Backlog)'
  BY <1>5 DEF Places, ToSet, IsInjective
<1>7. None \notin Tasks /\ ToSet(Backlog) \subseteq Tasks
  BY BacklogType, Running DEF ToSet
<1>8. item \in pushed /\ pushed \subseteq Tasks
  BY <1>2 DEF Places, IInv, TypeOK
<1>9. Places'
  <2>1. /\ join' <=> joiner' # "none"
        /\ done' \cup ToSet(Backlog)' \cup ({item'} \cap Tasks) \subseteq pushed'
        /\ IsInjective(Backlog)'
        /\ item' \notin ToSet(Backlog)'
    BY <1>2, <1>6, <1>7 DEF Places
  <2>2. \A d \in Unfinished' : /\ func'[d] \in pushed' /\ func'[d] # item'
                               /\ func'[d] \notin ToSet(Backlog)'
    BY <1>2, <1>3, <1>4, <1>6, <1>7, <1>8 DEF Places
  <2>3. \A d, e \in Unfinished' : func'[d] = func'[e] => d = e
    BY <1>3, <1>4 DEF Places
  <2> QED
    BY <2>1, <2>2, <2>3 DEF Places
<1>10. RunningTask' = RunningTask
  BY <1>2, <1>3, Running, RunningNext
<1>11. {func[d] : d \in suspended}' = {func[d] : d \in suspended}
  BY <1>2, <1>3
<1> QED
  BY <1>2, <1>5, <1>9, <1>10, <1>11, Unseen

\* A task that is not resumable ends.
LEMMA PlainReturnRefines ==
  ASSUME IInv, IInv', Places, PlainReturn
  PROVE  Places' /\ Exec!End
<1>1. /\ worker = "plain" /\ worker' = "loop" /\ done' = done \cup {item} /\ item' = None
      /\ UNCHANGED <<queue, join, joiner, pushed, current, func, suspended>>
  BY DEF PlainReturn, UnchangedContexts, contextVars, callerVars, sharedVars
<1>2. item \in Tasks
  BY <1>1 DEF IInv, HeldItem, Tasks
<1>3. Unfinished = suspended /\ Unfinished' = suspended
  BY <1>1 DEF Unfinished
<1>4. Backlog' = Backlog
  BY <1>1 DEF Backlog
<1>5. ToSet(Backlog)' = ToSet(Backlog) /\ IsInjective(Backlog)'
  BY <1>4 DEF Places, ToSet, IsInjective
<1>6. None \notin Tasks /\ ToSet(Backlog) \subseteq Tasks /\ \A c \in suspended : func[c] \in Tasks
  BY BacklogType, Running DEF ToSet
<1>7. Places'
  BY <1>1, <1>2, <1>3, <1>5, <1>6 DEF Places
<1>8. RunningTask = item /\ RunningTask' = None /\ item # None
  BY <1>1, <1>2, <1>6, Running, RunningNext
<1>9. item \notin {func[c] : c \in suspended} /\ None \notin {func[c] : c \in suspended}
  BY <1>3, <1>6 DEF Places
<1> QED
  BY <1>1, <1>4, <1>7, <1>8, <1>9 DEF Exec!End

\* A resume moves its task from the worker's hands to the context.
LEMMA RunResumeRefines ==
  ASSUME IInv, IInv', Places, RunResume
  PROVE  Places' /\ UNCHANGED Exec!vars
<1>1. /\ worker = "dispatch" /\ item \in Contexts /\ current' = item
      /\ suspended' = suspended \ {item} /\ worker' = "task" /\ item' = None
      /\ UNCHANGED <<queue, join, joiner, pushed, done, func>>
  BY DEF RunResume, callerVars, sharedVars
<1>2. item \in suspended /\ RunningTask = func[item] /\ RunningTask' = func[item]
  BY <1>1, Running, RunningNext
<1>3. Unfinished = suspended /\ Unfinished' = suspended
  BY <1>1, <1>2 DEF Unfinished
<1>4. Backlog' = Backlog
  BY <1>1 DEF Backlog
<1>5. ToSet(Backlog)' = ToSet(Backlog) /\ IsInjective(Backlog)'
  BY <1>4 DEF Places, ToSet, IsInjective
<1>6. None \notin Tasks /\ ToSet(Backlog) \subseteq Tasks /\ \A c \in suspended : func[c] \in Tasks
  BY BacklogType, Running DEF ToSet
<1>7. Places'
  BY <1>1, <1>3, <1>5, <1>6 DEF Places
<1>8. {func[c] : c \in suspended}' \ {RunningTask}' = {func[c] : c \in suspended} \ {RunningTask}
  <2>1. \A c, d \in suspended : func[c] = func[d] => c = d
    BY <1>3 DEF Places
  <2> QED
    BY <1>1, <1>2, <2>1
<1> QED
  BY <1>1, <1>2, <1>4, <1>7, <1>8 DEF Exec!vars

\* await pauses the running task when its context yields.
LEMMA YieldRefines ==
  ASSUME IInv, IInv', Places, Yield
  PROVE  Places' /\ Exec!Pause
<1>1. /\ worker = "awaiting" /\ worker' = "loop" /\ suspended' = suspended \cup {current}
      /\ UNCHANGED <<queue, join, joiner, pushed, done, func, item>>
  BY DEF Yield, callerVars, sharedVars
<1>2. /\ RunningTask = func[current] /\ RunningTask' = None
      /\ func[current] \in Tasks
  BY <1>1, Running, RunningNext
<1>3. Unfinished' = Unfinished
  BY <1>1 DEF Unfinished
<1>4. Backlog' = Backlog
  BY <1>1 DEF Backlog
<1>5. Places'
  BY <1>1, <1>3, <1>4, SamePlaces
<1>6. None \notin Tasks /\ \A c \in suspended : func[c] \in Tasks
  BY Running
<1>7. {func[c] : c \in suspended}' \ {RunningTask}'
        = ({func[c] : c \in suspended} \ {RunningTask}) \cup {RunningTask}
  BY <1>1, <1>2, <1>6
<1> QED
  BY <1>1, <1>2, <1>4, <1>5, <1>6, <1>7 DEF Exec!Pause

\* A task that returns in its context ends.
LEMMA TaskReturnRefines ==
  ASSUME IInv, IInv', Places, TaskReturn
  PROVE  Places' /\ Exec!End
<1>1. /\ worker = "task" /\ worker' = "returned" /\ done' = done \cup {func[current]}
      /\ UNCHANGED <<queue, join, joiner, pushed, current, func, item, suspended>>
  BY DEF TaskReturn, UnchangedContexts, contextVars, callerVars, sharedVars
<1>2. /\ RunningTask = func[current] /\ RunningTask' = None
      /\ func[current] \in Tasks /\ current \notin suspended
  BY <1>1, Running, RunningNext
<1>3. Unfinished = suspended \cup {current} /\ Unfinished' = suspended
  BY <1>1 DEF Unfinished
<1>4. Backlog' = Backlog
  BY <1>1 DEF Backlog
<1>5. ToSet(Backlog)' = ToSet(Backlog) /\ IsInjective(Backlog)'
  BY <1>4 DEF Places, ToSet, IsInjective
<1>6. None \notin Tasks /\ \A c \in suspended : func[c] \in Tasks
  BY Running
<1>7. Places'
  BY <1>1, <1>3, <1>5 DEF Places
<1>8. /\ func[current] \notin {func[c] : c \in suspended}
      /\ None \notin {func[c] : c \in suspended}
  BY <1>2, <1>3, <1>6 DEF Places
<1> QED
  BY <1>1, <1>2, <1>4, <1>6, <1>7, <1>8 DEF Exec!End

\* The worker leaves its loop only when nothing runs or is paused.
LEMMA LeaveLoopRefines ==
  ASSUME IInv, IInv', Places, LeaveLoop
  PROVE  Places' /\ Exec!Stop
<1>1. /\ worker = "loop" /\ worker' = "leaving" /\ join
      /\ UNCHANGED <<queue, join, joiner, pushed, done, func, item, suspended>>
  BY DEF LeaveLoop, join_possible, UnchangedContexts, contextVars, callerVars, sharedVars
<1>2. RunningTask = None /\ RunningTask' = None
  BY <1>1, Running, RunningNext
<1>3. Unfinished' = Unfinished
  BY <1>1 DEF Unfinished
<1>4. Backlog' = Backlog
  BY <1>1 DEF Backlog
<1>5. Places'
  BY <1>1, <1>3, <1>4, SamePlaces
<1>6. suspended = {}
  BY <1>1, NothingInProgress DEF LeaveLoop, join_possible
<1> QED
  BY <1>1, <1>2, <1>4, <1>5, <1>6 DEF Exec!Stop

\* The other steps are not seen.
LEMMA UnseenSteps ==
  ASSUME IInv, IInv', Places,
         \/ CvWait \/ CvWake \/ CvSpuriousWake \/ ThreadExit \/ RunPlain \/ JoinReturn
         \/ AwaitArm \/ AwaitInline \/ task_complete \/ Park
         \/ \E c \in Contexts : FutureReady(c) \/ push_front(c)
         \/ UNCHANGED vars
  PROVE  Places' /\ UNCHANGED Exec!vars
<1> USE DEF UnchangedContexts, contextVars, sharedVars, callerVars, awaitVars, poolVars
<1>1. UNCHANGED <<join, pushed, done, func, item, suspended>>
  BY DEF CvWait, CvWake, CvSpuriousWake, ThreadExit, RunPlain, JoinReturn, AwaitArm, AwaitInline,
     task_complete, Park, FutureReady, push_front, vars
<1>2. joiner' # "none" <=> joiner # "none"
  BY DEF CvWait, CvWake, CvSpuriousWake, ThreadExit, RunPlain, JoinReturn, AwaitArm, AwaitInline,
     task_complete, Park, FutureReady, push_front, vars
<1>3. /\ worker' \in {"leaving", "exited"} <=> worker \in {"leaving", "exited"}
      /\ worker' \in {"task", "awaiting"} <=> worker \in {"task", "awaiting"}
      /\ worker \in {"task", "awaiting"} => current' = current
  BY DEF CvWait, CvWake, CvSpuriousWake, ThreadExit, RunPlain, JoinReturn, AwaitArm, AwaitInline,
     task_complete, Park, FutureReady, push_front, Enqueue, NotifyOne, vars
<1>4. queue' = queue \/ \E c \in Contexts : queue' = <<c>> \o queue
  <2>1. CASE AwaitInline
    BY <2>1, InTask DEF AwaitInline, InContext
  <2>2. CASE ~AwaitInline
    BY <2>2 DEF CvWait, CvWake, CvSpuriousWake, ThreadExit, RunPlain, JoinReturn, AwaitArm,
       task_complete, Park, FutureReady, push_front, Enqueue, vars
  <2> QED
    BY <2>1, <2>2
<1>5. Backlog' = Backlog
  <2>1. ASSUME NEW c \in Contexts, queue' = <<c>> \o queue PROVE Backlog' = Backlog
    <3>1. queue \in Seq(Tasks \cup Contexts) /\ c \in Tasks \cup Contexts /\ c \notin Tasks
      BY Running DEF IInv, TypeOK
    <3>2. Only(<<c>> \o queue, Tasks) = Only(queue, Tasks)
      BY <3>1, OnlyOfPushFront
    <3> QED
      BY <2>1, <3>2, Zenon DEF Backlog
  <2> QED
    BY <1>4, <2>1 DEF Backlog
<1>6. Unfinished' = Unfinished /\ RunningTask' = RunningTask
  BY <1>1, <1>3 DEF Unfinished, RunningTask
<1>7. Places'
  BY <1>1, <1>2, <1>5, <1>6, SamePlaces
<1>8. {func[c] : c \in suspended}' = {func[c] : c \in suspended}
  BY <1>1
<1> QED
  BY <1>1, <1>3, <1>5, <1>6, <1>7, <1>8, Unseen

\* Every step is a step of Executor, or none.
LEMMA NextExec ==
  ASSUME IInv, IInv', Places, [Next]_vars PROVE Places' /\ [Exec!Next]_Exec!vars
<1>1. ASSUME NEW t \in Tasks, PushBack(t) PROVE Places' /\ [Exec!Next]_Exec!vars
  BY <1>1, PushBackRefines DEF Exec!Next
<1>2. CASE JoinCall \/ PopFront \/ LeaveLoop
  BY <1>2, JoinCallRefines, PopFrontRefines, LeaveLoopRefines DEF Exec!Next
<1>3. CASE PlainReturn \/ TaskReturn \/ Yield
  BY <1>3, PlainReturnRefines, TaskReturnRefines, YieldRefines DEF Exec!Next
<1>4. CASE RunInCreatedContext \/ RunInFreeContext \/ RunResume
  BY <1>4, StartInRefines, RunResumeRefines
<1>5. CASE \/ CvWait \/ CvWake \/ CvSpuriousWake \/ ThreadExit \/ RunPlain \/ JoinReturn
           \/ AwaitArm \/ AwaitInline \/ task_complete \/ Park
           \/ \E c \in Contexts : FutureReady(c) \/ push_front(c)
           \/ UNCHANGED vars
  BY <1>5, UnseenSteps
<1> QED
  BY <1>1, <1>2, <1>3, <1>4, <1>5
  DEF Next, Worker, Loop, Run, Task, Environment, Terminated

\* A task queue behaves as its clients are told: tasks start in the order of
\* push_back, one at a time, pause in await only and continue where they paused,
\* end once, and join waits for those that started.
THEOREM ExecutorImplemented == Spec => ImplementsExecutor
<1>1. Init => IInv /\ Places /\ Exec!Init
  BY InitIInv, InitExec
<1>2. IInv /\ Places /\ [Next]_vars => IInv' /\ Places' /\ [Exec!Next]_Exec!vars
  BY NextIInv, NextExec
<1> QED
  BY <1>1, <1>2, PTL DEF Spec, ImplementsExecutor, Exec!Spec

=============================================================================
