--------------------------- MODULE IoManagerProofs ---------------------------
(* Safety of IoManager for any tasks and any threads that call stop().       *)
EXTENDS IoManager, SeqLemmas, SequenceTheorems, TLAPS

------------------------------------------------------------------------------
(* The deque of tasks as the three pieces it is in. *)

\* The deque before anything was taken from it.
Whole(s, t, u) == s \o t \o u

\* Taking the first element of one piece and adding it to the piece before
\* changes nothing in the whole.
LEMMA MoveHead ==
  ASSUME NEW S, NEW s \in Seq(S), NEW t \in Seq(S), NEW u \in Seq(S), t # <<>>
  PROVE  Whole(Append(s, Head(t)), Tail(t), u) = Whole(s, t, u)
<1>1. /\ Head(t) \in S /\ Tail(t) \in Seq(S) /\ <<Head(t)>> \in Seq(S)
      /\ t = <<Head(t)>> \o Tail(t)
  OBVIOUS
<1>2. (s \o <<Head(t)>>) \o Tail(t) = s \o (<<Head(t)>> \o Tail(t))
  BY <1>1, ConcatAssociative
<1>3. Append(s, Head(t)) = s \o <<Head(t)>>
  BY <1>1, AppendIsConcat
<1> QED
  BY <1>1, <1>2, <1>3 DEF Whole

\* Moving the last piece to the one before, which is empty, neither.
LEMMA MoveLast ==
  ASSUME NEW S, NEW s \in Seq(S), NEW t \in Seq(S)
  PROVE  Whole(s, t, <<>>) = Whole(s, <<>>, t)
<1>1. s \o t \in Seq(S)
  BY ConcatProperties
<1> QED
  BY <1>1, ConcatEmptySeq DEF Whole

------------------------------------------------------------------------------
(* The inductive invariant. *)

TypeOK ==
  /\ task_queue \in Seq(Items)
  /\ tasks \in Seq(Items)
  /\ executed \in Seq(Items)
  /\ done \in Seq(Items)
  /\ signalled \in BOOLEAN
  /\ uv_stopped \in BOOLEAN
  /\ loop \in LoopStates
  /\ stopper \in [Stoppers -> StopperStates]

\* The task of stop() is executed by a call that is past that point, so that
\* no call can execute it a second time.
StopTaskOnce ==
  \A p \in Stoppers :
    stopper[p] \in {"idle", "stopping"} => p \notin ToSet(executed)

\* The callback keeps its batch to itself: outside the loop over it there is none.
BatchInCallback == tasks # <<>> => loop = "running"

\* uv_stop is called by the task of a stop() and by nothing else, and the thread
\* ends for no other reason.
StoppedByTask ==
  uv_stopped \/ loop \in {"exited", "joined"} => ToSet(done) \cap Stoppers # {}

IInv ==
  /\ TypeOK
  /\ RunInOrder
  /\ StopTaskOnce
  /\ BatchInCallback
  /\ StoppedByTask
  /\ NoLostSignal

\* The manager starts in the inductive invariant.
LEMMA InitIInv == Init => IInv
<1> SUFFICES ASSUME Init PROVE IInv
  OBVIOUS
<1> USE DEF Init
<1>1. TypeOK
  BY EmptyElements DEF TypeOK, LoopStates, StopperStates
<1>2. RunInOrder
  <2>1. <<>> \in Seq(Items)
    BY EmptyElements
  <2>2. <<>> \o <<>> = <<>>
    BY <2>1, ConcatEmptySeq
  <2> QED
    BY <2>2, EmptyElements DEF RunInOrder
<1>3. StopTaskOnce
  BY EmptyElements DEF StopTaskOnce
<1>4. BatchInCallback /\ StoppedByTask /\ NoLostSignal
  BY DEF BatchInCallback, StoppedByTask, NoLostSignal
<1> QED
  BY <1>1, <1>2, <1>3, <1>4 DEF IInv

------------------------------------------------------------------------------
(* Each action preserves it. *)

\* push_back on the last piece is push_back on the whole.
LEMMA AppendToLast ==
  ASSUME TypeOK, NEW x \in Items
  PROVE  Whole(done, tasks, Append(task_queue, x)) = Append(Whole(done, tasks, task_queue), x)
<1>1. done \in Seq(Items) /\ tasks \in Seq(Items) /\ task_queue \in Seq(Items)
  BY DEF TypeOK
<1>2. done \o tasks \in Seq(Items) /\ <<x>> \in Seq(Items)
  BY <1>1, ConcatProperties
<1>3. done \o tasks \o task_queue \in Seq(Items)
  BY <1>1, <1>2, ConcatProperties
<1>4. (done \o tasks \o task_queue) \o <<x>> = (done \o tasks) \o (task_queue \o <<x>>)
  BY <1>1, <1>2, ConcatAssociative
<1> QED
  BY <1>1, <1>3, <1>4, AppendIsConcat DEF Whole

\* impl::execute of something that was not executed before.
LEMMA EnqueueKeeps ==
  ASSUME IInv, NEW x \in Items, x \notin ToSet(executed), Enqueue(x),
         stopper' \in [Stoppers -> StopperStates],
         \A p \in Stoppers :
           stopper'[p] \in {"idle", "stopping"} =>
             p # x /\ stopper[p] \in {"idle", "stopping"}
  PROVE  IInv'
<1> USE DEF Enqueue
<1>1. /\ executed' \in Seq(Items)
      /\ ToSet(executed') = ToSet(executed) \cup {x}
      /\ IsInjective(executed')
  BY AppendNew DEF IInv, TypeOK, RunInOrder
<1>2. task_queue' \in Seq(Items)
  BY AppendNew DEF IInv, TypeOK
<1>3. TypeOK'
  BY <1>1, <1>2 DEF IInv, TypeOK
<1>4. executed' = Whole(done', tasks', task_queue')
  <2>1. executed = Whole(done, tasks, task_queue)
    BY DEF IInv, RunInOrder, Whole
  <2>2. Whole(done, tasks, Append(task_queue, x)) = Append(executed, x)
    BY <2>1, AppendToLast DEF IInv
  <2> QED
    BY <2>2
<1>5. RunInOrder'
  BY <1>1, <1>4 DEF RunInOrder, Whole
<1>6. StopTaskOnce'
  <2> SUFFICES ASSUME NEW p \in Stoppers, stopper'[p] \in {"idle", "stopping"}
               PROVE  p \notin ToSet(executed')
    BY DEF StopTaskOnce
  <2> QED
    BY <1>1 DEF IInv, StopTaskOnce
<1>7. BatchInCallback' /\ StoppedByTask' /\ NoLostSignal'
  BY DEF IInv, BatchInCallback, StoppedByTask, NoLostSignal
<1> QED
  BY <1>3, <1>5, <1>6, <1>7 DEF IInv

\* execute of a client's function preserves it.
LEMMA ExecuteIInv ==
  ASSUME IInv, NEW t \in Tasks, execute(t) PROVE IInv'
<1>1. \A p \in Stoppers : p # t
  BY IoManagerConstants
<1> QED
  BY <1>1, EnqueueKeeps DEF execute, Items, IInv, TypeOK

\* The stop task is executed by a call that has not executed it before.
LEMMA StopExecuteIInv ==
  ASSUME IInv, NEW p \in Stoppers, StopExecute(p) PROVE IInv'
<1>1. p \notin ToSet(executed)
  BY DEF IInv, StopTaskOnce, StopExecute, StopperMoves
<1>2. /\ stopper' \in [Stoppers -> StopperStates]
      /\ stopper'[p] = "waiting"
      /\ \A o \in Stoppers \ {p} : stopper'[o] = stopper[o]
  BY DEF IInv, TypeOK, StopExecute, StopperMoves, StopperStates
<1> QED
  BY <1>1, <1>2, EnqueueKeeps DEF StopExecute, Items

\* Steps that move no task: the thread begins, the callback is called, a batch
\* ends, uv_run returns, and the rest of stop().
LEMMA ControlStep ==
  ASSUME IInv, UNCHANGED <<task_queue, tasks, executed, done>>,
         signalled' \in BOOLEAN, uv_stopped' \in BOOLEAN,
         loop' \in LoopStates, stopper' \in [Stoppers -> StopperStates],
         \A p \in Stoppers :
           stopper'[p] \in {"idle", "stopping"} => stopper[p] \in {"idle", "stopping"},
         BatchInCallback', StoppedByTask', NoLostSignal'
  PROVE  IInv'
<1>1. TypeOK'
  BY DEF IInv, TypeOK
<1>2. RunInOrder' /\ StopTaskOnce'
  BY DEF IInv, RunInOrder, StopTaskOnce
<1> QED
  BY <1>1, <1>2 DEF IInv

\* The control steps of the loop's thread preserve it.
LEMMA LoopControlIInv ==
  ASSUME IInv, run \/ AsyncCallback \/ NextBatch \/ LeaveRun PROVE IInv'
<1> USE DEF IInv, TypeOK, LoopStates, BatchInCallback, StoppedByTask, NoLostSignal
<1>1. CASE run
  BY <1>1, ControlStep DEF run
<1>2. CASE AsyncCallback
  BY <1>2, ControlStep DEF AsyncCallback
<1>3. CASE NextBatch
  BY <1>3, ControlStep DEF NextBatch
<1>4. CASE LeaveRun
  BY <1>4, ControlStep DEF LeaveRun
<1> QED
  BY <1>1, <1>2, <1>3, <1>4

\* What stop() does besides executing its task preserves it.
LEMMA StopControlIInv ==
  ASSUME IInv, NEW p \in Stoppers, StopCall(p) \/ StopRest(p) PROVE IInv'
<1> USE DEF StopRest, StopperMoves, StopperStates
<1>1. stopper' \in [Stoppers -> StopperStates]
  BY DEF IInv, TypeOK, StopCall, StopWait, StopJoin, StopJoinFails
<1>2. \A o \in Stoppers :
        stopper'[o] \in {"idle", "stopping"} => stopper[o] \in {"idle", "stopping"}
  BY DEF IInv, TypeOK, StopCall, StopWait, StopJoin, StopJoinFails
<1>3. /\ UNCHANGED <<task_queue, signalled, tasks, uv_stopped, executed, done>>
      /\ loop' = loop \/ (loop = "exited" /\ loop' = "joined")
  BY DEF StopCall, StopWait, StopJoin, StopJoinFails
<1>4. loop' \in LoopStates /\ BatchInCallback' /\ StoppedByTask' /\ NoLostSignal'
  BY <1>3 DEF IInv, TypeOK, LoopStates, BatchInCallback, StoppedByTask, NoLostSignal
<1> QED
  BY <1>1, <1>2, <1>3, <1>4, ControlStep DEF IInv, TypeOK

\* The swap moves the deque to the batch, which is empty before.
LEMMA SwapIInv ==
  ASSUME IInv, Swap PROVE IInv'
<1> USE DEF Swap
<1>1. tasks = <<>>
  BY DEF IInv, BatchInCallback
<1>2. TypeOK'
  BY EmptyElements DEF IInv, TypeOK, LoopStates
<1>3. Whole(done', tasks', task_queue') = Whole(done, tasks, task_queue)
  BY <1>1, MoveLast DEF IInv, TypeOK
<1>4. RunInOrder'
  BY <1>3 DEF IInv, RunInOrder, Whole
<1>5. StopTaskOnce' /\ BatchInCallback' /\ StoppedByTask' /\ NoLostSignal'
  BY DEF IInv, TypeOK, StopTaskOnce, BatchInCallback, StoppedByTask, NoLostSignal
<1> QED
  BY <1>2, <1>4, <1>5 DEF IInv

\* Running the first task of the batch preserves it.
LEMMA RunTaskIInv ==
  ASSUME IInv, RunTask PROVE IInv'
<1> USE DEF RunTask
<1> DEFINE h == Head(tasks)
<1>1. tasks \in Seq(Items) /\ tasks # <<>> /\ done \in Seq(Items)
  BY DEF IInv, TypeOK
<1>2. h \in Items /\ tasks' \in Seq(Items)
  BY <1>1, PopHead
<1>3. done' \in Seq(Items) /\ ToSet(done') = ToSet(done) \cup {h}
  BY <1>1, <1>2, AppendNew
<1>4. TypeOK'
  BY <1>2, <1>3 DEF IInv, TypeOK
<1>5. Whole(done', tasks', task_queue') = Whole(done, tasks, task_queue)
  BY <1>1, MoveHead DEF IInv, TypeOK
<1>6. RunInOrder'
  BY <1>5 DEF IInv, RunInOrder, Whole
<1>7. StoppedByTask'
  BY <1>3 DEF IInv, StoppedByTask
<1>8. StopTaskOnce' /\ BatchInCallback' /\ NoLostSignal'
  BY DEF IInv, StopTaskOnce, BatchInCallback, NoLostSignal
<1> QED
  BY <1>4, <1>6, <1>7, <1>8 DEF IInv

\* Every step preserves the inductive invariant.
LEMMA NextIInv == IInv /\ [Next]_vars => IInv'
<1> SUFFICES ASSUME IInv, [Next]_vars PROVE IInv'
  OBVIOUS
<1>1. CASE run \/ AsyncCallback \/ NextBatch \/ LeaveRun
  BY <1>1, LoopControlIInv
<1>2. CASE \E t \in Tasks : execute(t)
  BY <1>2, ExecuteIInv
<1>3. CASE Swap
  BY <1>3, SwapIInv
<1>4. CASE RunTask
  BY <1>4, RunTaskIInv
<1>5. CASE \E p \in Stoppers : Stop(p) \/ StopRest(p)
  BY <1>5, StopExecuteIInv, StopControlIInv DEF Stop
<1>6. CASE UNCHANGED vars
  BY <1>6 DEF vars, IInv, TypeOK, RunInOrder, StopTaskOnce, BatchInCallback,
              StoppedByTask, NoLostSignal
<1> QED
  BY <1>1, <1>2, <1>3, <1>4, <1>5, <1>6 DEF Next, Loop, Idle

------------------------------------------------------------------------------
(* The theorems. *)

\* The inductive invariant holds in every reachable state.
THEOREM IInvInvariant == Spec => []IInv
BY InitIInv, NextIInv, PTL DEF Spec

\* Functions given to execute from any threads run in the order of the deque,
\* none twice, and swapping the deque out loses none.
THEOREM OrderSafe == Spec => []RunInOrder
<1>1. IInv => RunInOrder
  BY DEF IInv
<1> QED
  BY <1>1, IInvInvariant, PTL

\* Although libuv merges what uv_async_send announces, the callback is still to
\* look whenever there is something in the deque.
THEOREM SignalSafe == Spec => []NoLostSignal
<1>1. IInv => NoLostSignal
  BY DEF IInv
<1> QED
  BY <1>1, IInvInvariant, PTL

\* The thread ends only after the task of a stop(), with its batch complete.
THEOREM ExitSafe == Spec => []CleanExit
<1>1. IInv => CleanExit
  BY DEF IInv, BatchInCallback, StoppedByTask, CleanExit
<1> QED
  BY <1>1, IInvInvariant, PTL

=============================================================================
