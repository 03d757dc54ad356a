---------------------------- MODULE RuntimeProofs ----------------------------
(* Safety of Runtime for any number of queues and of tasks.                  *)
EXTENDS Runtime, SeqLemmas

------------------------------------------------------------------------------
(* The inductive invariant. *)

TypeOK ==
  /\ queue \in [Queues -> Seq(Tasks)]
  /\ running \in [Queues -> Tasks \cup {None}]
  /\ join \in [Queues -> BOOLEAN]
  /\ on \in [Tasks -> Queues \cup {None}]
  /\ maker \in [Tasks -> Threads \cup {None}]
  /\ await_queue \in [Tasks -> Queues \cup {None}]
  /\ continuations \in [Tasks -> Seq(Tasks)]
  /\ waits \in [Threads -> Tasks \cup {None}]
  /\ shared \in BOOLEAN

\* How a task was pushed: by a task that was pushed itself or by the
\* client's thread; the await queue of its future is that of its maker's context.
Makers ==
  \A t \in pushed :
    /\ maker[t] \in pushed \cup {Main}
    /\ maker[t] \in ResumableTasks => await_queue[t] = on[maker[t]]

\* No circle of tasks in which each was pushed by the next one: of any of them,
\* one has pushed no other.
Forest ==
  \A S \in SUBSET pushed : S # {} => \E t \in S : \A u \in S : maker[u] # t

\* A thread waits for a future that exists, and for its own unless shared.
Waiting ==
  \A x \in Threads :
    waits[x] # None => waits[x] \in pushed /\ (~shared => maker[waits[x]] = x)

\* A resumable task leaves its worker to wait.
OffWorker == \A q \in Queues : running[q] \in ResumableTasks => waits[running[q]] = None

\* Nothing is thrown away, and no worker ends, before join.
UntilJoin == (\A q \in Queues : ~join[q]) => exited = {} /\ discarded = {}

\* The items of a queue, and what its worker runs, are the queue's own.
HomeItems ==
  /\ \A q \in Queues : \A x \in ToSet(queue[q]) : on[x] = q
  /\ \A q \in Queues : running[q] # None => on[running[q]] = q

\* Who left a resume with a future is resumable and has made that future.
HomeResumes ==
  \A t \in Tasks : \A x \in ToSet(continuations[t]) :
    x \in ResumableTasks /\ t \in pushed /\ maker[t] = x

Home == ~shared => failed # "null queue" /\ HomeItems /\ HomeResumes

IInv ==
  /\ TypeOK
  /\ Makers
  /\ Forest
  /\ Waiting
  /\ OffWorker
  /\ UntilJoin
  /\ Home

------------------------------------------------------------------------------
(* Threads and tasks. *)

\* The names of threads, and of no thread.
LEMMA Names ==
  /\ None \notin Threads /\ None \notin Tasks /\ None \notin Queues
  /\ Main \notin Tasks /\ Main \notin ResumableTasks
  /\ Tasks \subseteq Threads /\ Main \in Threads /\ ResumableTasks \subseteq Tasks
  /\ ResumableTasks \cap PlainTasks = {}
BY RuntimeConstants, Zenon DEF Threads, Tasks

\* A task that executes its own code was pushed.
LEMMA ExecutesPushed ==
  ASSUME IInv, NEW x \in Threads, Executes(x), x # Main
  PROVE  x \in pushed /\ waits[x] = None
<1>1. PICK q \in Queues : running[q] = x
  BY DEF Executes
<1>2. x \in Tasks /\ x # None
  BY Names DEF Threads
<1>3. on[x] = q
  BY <1>1, <1>2 DEF Executes, Defined
<1> QED
  BY <1>2, <1>3, Names DEF pushed, Executes

\* The queues are empty at first.
LEMMA InitIInv == Init => IInv
<1> SUFFICES ASSUME Init PROVE IInv
  OBVIOUS
<1>1. \A q \in Queues : queue[q] = <<>> /\ running[q] = None
  BY DEF Init
<1>2. \A t \in Tasks : continuations[t] = <<>> /\ on[t] = None
  BY DEF Init
<1>3. pushed = {}
  BY <1>2 DEF pushed
<1>4. TypeOK
  BY EmptyElements DEF Init, TypeOK
<1>5. Makers /\ Forest
  BY <1>3 DEF Makers, Forest
<1>6. Waiting /\ OffWorker /\ UntilJoin
  BY <1>1, Names DEF Init, Waiting, OffWorker, UntilJoin
<1>7. Home
  <2>1. failed = "no"
    BY DEF Init
  <2>2. HomeItems /\ HomeResumes
    BY <1>1, <1>2, EmptyElements DEF HomeItems, HomeResumes
  <2> QED
    BY <2>1, <2>2 DEF Home
<1> QED
  BY <1>4, <1>5, <1>6, <1>7 DEF IInv

------------------------------------------------------------------------------
(* The actions. *)

\* Only a push changes who made what.
LEMMA SameMakers ==
  ASSUME IInv, UNCHANGED <<on, maker, await_queue>>
  PROVE  Makers' /\ Forest' /\ pushed' = pushed
<1>1. pushed' = pushed
  BY DEF pushed
<1>2. Makers'
  BY <1>1 DEF IInv, Makers
<1>3. Forest'
  BY <1>1 DEF IInv, Forest
<1> QED
  BY <1>1, <1>2, <1>3

\* A push makes a task that nothing else knows yet.
LEMMA PushIInv ==
  ASSUME IInv, NEW x \in Threads, NEW t \in Tasks, NEW q \in Queues, Push(x, t, q)
  PROVE  IInv'
<1>1. /\ Executes(x) /\ t \notin pushed
      /\ UNCHANGED <<running, join, exited, continuations, discarded, waits, shared>>
  BY DEF Push
<1>2. CASE AsyncQueue # None /\ get_await_queue(x) = AsyncQueue
  <2>1. failed' = "bad_weak_ptr" /\ UNCHANGED <<on, maker, await_queue, queue>>
    BY <1>2, Zenon DEF Push, taskVars
  <2>2. pushed' = pushed
    BY <2>1 DEF pushed
  <2>3. TypeOK' /\ Waiting' /\ OffWorker' /\ UntilJoin'
    BY <1>1, <2>1, <2>2 DEF IInv, TypeOK, Waiting, OffWorker, UntilJoin
  <2>4. Makers' /\ Forest'
    BY <2>1, <2>2, SameMakers
  <2>5. Home'
    BY <1>1, <2>1, <2>2 DEF IInv, Home, HomeItems, HomeResumes
  <2> QED
    BY <2>3, <2>4, <2>5 DEF IInv
<1>3. CASE ~(AsyncQueue # None /\ get_await_queue(x) = AsyncQueue)
  <2>1. /\ on' = [on EXCEPT ![t] = q]
        /\ maker' = [maker EXCEPT ![t] = x]
        /\ await_queue' = [await_queue EXCEPT ![t] = get_await_queue(x)]
        /\ queue' = [queue EXCEPT ![q] = Append(@, t)]
        /\ UNCHANGED failed
    BY <1>3, Zenon DEF Push
  <2>2. on[t] = None /\ \A u \in pushed : u # t
    BY <1>1 DEF pushed
  <2>3. x \in pushed \cup {Main} /\ x # t
    BY <1>1, <2>2, ExecutesPushed, Names
  <2>4. get_await_queue(x) \in Queues \cup {None}
    BY Names DEF IInv, TypeOK, get_await_queue
  <2>5. /\ on' \in [Tasks -> Queues \cup {None}]
        /\ on'[t] = q /\ \A u \in Tasks : u # t => on'[u] = on[u]
    BY <2>1 DEF IInv, TypeOK
  <2>6. /\ maker' \in [Tasks -> Threads \cup {None}]
        /\ maker'[t] = x /\ \A u \in Tasks : u # t => maker'[u] = maker[u]
    BY <2>1 DEF IInv, TypeOK
  <2>7. /\ await_queue' \in [Tasks -> Queues \cup {None}]
        /\ await_queue'[t] = get_await_queue(x)
        /\ \A u \in Tasks : u # t => await_queue'[u] = await_queue[u]
    BY <2>1, <2>4 DEF IInv, TypeOK
  <2>8. /\ queue' \in [Queues -> Seq(Tasks)]
        /\ \A p \in Queues : ToSet(queue'[p]) \subseteq
                               ToSet(queue[p]) \cup (IF p = q THEN {t} ELSE {})
    <3>1. queue \in [Queues -> Seq(Tasks)] /\ queue[q] \in Seq(Tasks)
      BY DEF IInv, TypeOK
    <3> DEFINE s == Append(queue[q], t)
    <3>2. s \in Seq(Tasks) /\ ToSet(s) = ToSet(queue[q]) \cup {t}
      BY <3>1, AppendNew
    <3> HIDE DEF s
    <3>3. queue' = [queue EXCEPT ![q] = s]
      BY <2>1 DEF s
    <3> QED
      BY <3>1, <3>2, <3>3
  <2>9. pushed' = pushed \cup {t}
    BY <2>5, Names DEF pushed
  <2>10. TypeOK'
    BY <1>1, <2>5, <2>6, <2>7, <2>8 DEF IInv, TypeOK
  <2>11. Makers'
    <3>1. Makers /\ pushed \subseteq Tasks
      BY DEF IInv, pushed
    <3>2. ASSUME NEW u \in pushed
          PROVE  /\ maker'[u] \in pushed \cup {t, Main}
                 /\ maker'[u] \in ResumableTasks => await_queue'[u] = on'[maker'[u]]
      <4>1. /\ maker'[u] = maker[u] /\ await_queue'[u] = await_queue[u]
            /\ maker[u] \in pushed \cup {Main}
            /\ maker[u] \in ResumableTasks => await_queue[u] = on[maker[u]]
        BY <2>2, <2>6, <2>7, <3>1 DEF Makers
      <4>2. maker[u] \in ResumableTasks => on'[maker[u]] = on[maker[u]]
        BY <2>2, <2>5, <4>1, Names
      <4> QED
        BY <4>1, <4>2
    <3>3. x \in ResumableTasks => await_queue'[t] = on'[x]
      BY <2>3, <2>5, <2>7, Names DEF get_await_queue
    <3> QED
      BY <2>3, <2>6, <2>9, <3>2, <3>3 DEF Makers
  <2>12. Forest'
    <3>1. ASSUME NEW S \in SUBSET (pushed \cup {t}), S # {}
          PROVE  \E v \in S : \A u \in S : maker'[u] # v
      <4>1. CASE t \in S
        <5>1. ASSUME NEW u \in S PROVE maker'[u] # t
          <6>1. CASE u = t
            BY <2>3, <2>6, <6>1
          <6>2. CASE u # t
            <7>1. u \in pushed /\ u \in Tasks
              BY <6>2 DEF pushed
            <7>2. maker'[u] = maker[u] /\ maker[u] \in pushed \cup {Main}
              BY <2>6, <6>2, <7>1 DEF IInv, Makers
            <7> QED
              BY <2>2, <7>2, Names
          <6> QED
            BY <6>1, <6>2
        <5> QED
          BY <4>1, <5>1
      <4>2. CASE t \notin S
        <5>1. S \in SUBSET pushed
          BY <4>2
        <5>2. PICK v \in S : \A u \in S : maker[u] # v
          BY <3>1, <5>1 DEF IInv, Forest
        <5>3. \A u \in S : maker'[u] = maker[u]
          BY <2>6, <4>2, <5>1 DEF pushed
        <5> QED
          BY <5>2, <5>3
      <4> QED
        BY <4>1, <4>2
    <3> QED
      BY <2>9, <3>1 DEF Forest
  <2>13. Waiting'
    <3>1. \A u \in pushed : maker'[u] = maker[u]
      BY <2>2, <2>6 DEF pushed
    <3> QED
      BY <1>1, <2>9, <3>1 DEF IInv, Waiting
  <2>14. OffWorker' /\ UntilJoin'
    BY <1>1 DEF IInv, OffWorker, UntilJoin
  <2>15. Home'
    <3> SUFFICES ASSUME ~shared PROVE failed' # "null queue" /\ HomeItems' /\ HomeResumes'
      BY <1>1 DEF Home
    <3>1. failed # "null queue" /\ HomeItems /\ HomeResumes
      BY DEF IInv, Home
    <3>2. \A u \in Tasks, p \in Queues : on[u] = p => on'[u] = p
      BY <2>2, <2>5, Names
    <3>3. HomeItems'
      <4>1. ASSUME NEW p \in Queues, NEW u \in ToSet(queue'[p]) PROVE on'[u] = p
        <5>1. CASE u \in ToSet(queue[p])
          <6>1. u \in Tasks
            BY <5>1 DEF IInv, TypeOK, ToSet
          <6> QED
            BY <3>1, <3>2, <5>1, <6>1 DEF HomeItems
        <5>2. CASE u \notin ToSet(queue[p])
          BY <2>5, <2>8, <4>1, <5>2
        <5> QED
          BY <5>1, <5>2
      <4>2. ASSUME NEW p \in Queues, running[p] # None PROVE on'[running[p]] = p
        <5>1. running[p] \in Tasks /\ on[running[p]] = p
          BY <3>1, <4>2 DEF IInv, TypeOK, HomeItems
        <5> QED
          BY <3>2, <5>1
      <4> QED
        BY <1>1, <4>1, <4>2 DEF HomeItems
    <3>4. HomeResumes'
      BY <1>1, <2>2, <2>6, <2>9, <3>1 DEF HomeResumes
    <3> QED
      BY <2>1, <3>1, <3>3, <3>4
  <2> QED
    BY <2>10, <2>11, <2>12, <2>13, <2>14, <2>15 DEF IInv
<1> QED
  BY <1>2, <1>3

\* A thread comes to wait for a future: what Await and Block have in common.
LEMMA WaitForWaits ==
  ASSUME IInv, NEW x \in Threads, NEW t \in Tasks, WaitFor(x, t)
  PROVE  /\ Makers' /\ Forest' /\ Waiting' /\ pushed' = pushed
         /\ waits' \in [Threads -> Tasks \cup {None}] /\ shared' \in BOOLEAN
         /\ \A y \in Threads : y # x => waits'[y] = waits[y]
         /\ ~shared' => ~shared /\ maker[t] = x
         /\ t \in pushed
<1>1. /\ t \in pushed /\ shared' = (shared \/ maker[t] # x) /\ waits' = [waits EXCEPT ![x] = t]
      /\ UNCHANGED <<on, maker, await_queue>>
  BY DEF WaitFor, taskVars
<1>2. Makers' /\ Forest' /\ pushed' = pushed
  BY <1>1, SameMakers
<1>3. /\ waits' \in [Threads -> Tasks \cup {None}] /\ waits'[x] = t
      /\ \A y \in Threads : y # x => waits'[y] = waits[y]
  BY <1>1 DEF IInv, TypeOK
<1>4. shared' \in BOOLEAN
  BY <1>1, Zenon
<1>5. ~shared' => ~shared /\ maker[t] = x
  BY <1>1, Zenon
<1>6. Waiting'
  <2>1. ASSUME NEW y \in Threads, waits'[y] # None
        PROVE  waits'[y] \in pushed /\ (~shared' => maker[waits'[y]] = y)
    BY <1>1, <1>3, <1>5, <2>1 DEF IInv, Waiting
  <2> QED
    BY <1>1, <1>2, <2>1 DEF Waiting
<1> QED
  BY <1>1, <1>2, <1>3, <1>4, <1>5, <1>6

\* A resumable task leaves a resume with the future, and its worker.
LEMMA AwaitIInv ==
  ASSUME IInv, NEW x \in ResumableTasks, NEW t \in Tasks, Await(x, t)
  PROVE  IInv'
<1>1. /\ WaitFor(x, t) /\ x \in Threads /\ x \in Tasks
      /\ continuations' = [continuations EXCEPT ![t] = Append(@, x)]
      /\ running' = [q \in Queues |-> IF running[q] = x THEN None ELSE running[q]]
      /\ UNCHANGED <<queue, join, exited, on, maker, await_queue, discarded, failed>>
  BY Names DEF Await, WaitFor, taskVars
<1>2. /\ Makers' /\ Forest' /\ Waiting' /\ pushed' = pushed
      /\ waits' \in [Threads -> Tasks \cup {None}] /\ shared' \in BOOLEAN
      /\ \A y \in Threads : y # x => waits'[y] = waits[y]
      /\ ~shared' => ~shared /\ maker[t] = x
      /\ t \in pushed
  BY <1>1, WaitForWaits
<1>3. /\ continuations' \in [Tasks -> Seq(Tasks)]
      /\ \A u \in Tasks : ToSet(continuations'[u]) \subseteq
                            ToSet(continuations[u]) \cup (IF u = t THEN {x} ELSE {})
  <2>1. continuations \in [Tasks -> Seq(Tasks)] /\ continuations[t] \in Seq(Tasks)
    BY DEF IInv, TypeOK
  <2> DEFINE s == Append(continuations[t], x)
  <2>2. s \in Seq(Tasks) /\ ToSet(s) = ToSet(continuations[t]) \cup {x}
    BY <1>1, <2>1, AppendNew
  <2> HIDE DEF s
  <2>3. continuations' = [continuations EXCEPT ![t] = s]
    BY <1>1 DEF s
  <2> QED
    BY <2>1, <2>2, <2>3
<1>4. /\ running' \in [Queues -> Tasks \cup {None}]
      /\ \A q \in Queues : running'[q] # None => running'[q] = running[q] /\ running[q] # x
  BY <1>1 DEF IInv, TypeOK
<1>5. TypeOK'
  BY <1>1, <1>2, <1>3, <1>4 DEF IInv, TypeOK
<1>6. OffWorker'
  <2>1. ASSUME NEW q \in Queues, running'[q] \in ResumableTasks PROVE waits'[running'[q]] = None
    <3>1. running'[q] # None /\ running'[q] \in Threads
      BY <2>1, Names
    <3> QED
      BY <1>2, <1>4, <2>1, <3>1 DEF IInv, OffWorker
  <2> QED
    BY <2>1 DEF OffWorker
<1>7. UntilJoin'
  BY <1>1 DEF IInv, UntilJoin
<1>8. Home'
  <2> SUFFICES ASSUME ~shared' PROVE failed' # "null queue" /\ HomeItems' /\ HomeResumes'
    BY DEF Home
  <2>1. failed # "null queue" /\ HomeItems /\ HomeResumes /\ maker[t] = x
    BY <1>2 DEF IInv, Home
  <2>2. HomeItems'
    BY <1>1, <1>4, <2>1 DEF HomeItems
  <2>3. HomeResumes'
    <3>1. ASSUME NEW u \in Tasks, NEW y \in ToSet(continuations'[u])
          PROVE  y \in ResumableTasks /\ u \in pushed /\ maker[u] = y
      BY <1>2, <1>3, <2>1, <3>1 DEF HomeResumes
    <3> QED
      BY <1>1, <1>2, <3>1 DEF HomeResumes
  <2> QED
    BY <1>1, <2>1, <2>2, <2>3
<1> QED
  BY <1>2, <1>5, <1>6, <1>7, <1>8 DEF IInv

\* A thread without a context blocks.
LEMMA BlockIInv ==
  ASSUME IInv, NEW x \in PlainTasks \cup {Main}, NEW t \in Tasks, Block(x, t)
  PROVE  IInv'
<1>1. x \in Threads /\ x \notin ResumableTasks
  BY Names DEF Threads, Tasks
<1>2. /\ WaitFor(x, t)
      /\ UNCHANGED <<queue, running, join, exited, on, maker, await_queue, continuations,
                     discarded, failed>>
  BY DEF Block, WaitFor, taskVars
<1>3. /\ Makers' /\ Forest' /\ Waiting' /\ pushed' = pushed
      /\ waits' \in [Threads -> Tasks \cup {None}] /\ shared' \in BOOLEAN
      /\ \A y \in Threads : y # x => waits'[y] = waits[y]
      /\ ~shared' => ~shared
  BY <1>1, <1>2, WaitForWaits
<1>4. TypeOK'
  BY <1>2, <1>3 DEF IInv, TypeOK
<1>5. OffWorker'
  BY <1>1, <1>2, <1>3, Names DEF IInv, OffWorker
<1>6. UntilJoin'
  BY <1>2 DEF IInv, UntilJoin
<1>7. Home'
  BY <1>2, <1>3 DEF IInv, Home, HomeItems, HomeResumes
<1> QED
  BY <1>3, <1>4, <1>5, <1>6, <1>7 DEF IInv

\* The future is ready.
LEMMA UnblockIInv ==
  ASSUME IInv, NEW x \in PlainTasks \cup {Main}, Unblock(x)
  PROVE  IInv'
<1>1. x \in Threads
  BY Names DEF Threads, Tasks
<1>2. /\ waits' = [waits EXCEPT ![x] = None]
      /\ UNCHANGED <<queue, running, join, exited, on, maker, await_queue, continuations,
                     discarded, failed, shared>>
  BY DEF Unblock, taskVars
<1>3. Makers' /\ Forest' /\ pushed' = pushed
  BY <1>2, SameMakers
<1>4. /\ waits' \in [Threads -> Tasks \cup {None}]
      /\ \A y \in Threads : waits'[y] # None => waits'[y] = waits[y]
  BY <1>1, <1>2 DEF IInv, TypeOK
<1>5. TypeOK'
  BY <1>2, <1>4 DEF IInv, TypeOK
<1>6. Waiting'
  BY <1>2, <1>3, <1>4 DEF IInv, Waiting
<1>7. OffWorker'
  BY <1>2, <1>4, Names DEF IInv, OffWorker
<1>8. UntilJoin' /\ Home'
  BY <1>2, <1>3 DEF IInv, UntilJoin, Home, HomeItems, HomeResumes
<1> QED
  BY <1>3, <1>5, <1>6, <1>7, <1>8 DEF IInv

\* A task ends: those that awaited it are pushed to their own queue.
LEMMA ReturnIInv == ASSUME IInv, NEW x \in Tasks, Return(x) PROVE IInv'
<1>1. /\ Executes(x)
      /\ failed' = IF continuations[x] # <<>> /\ await_queue[x] = None THEN "null queue"
                   ELSE failed
      /\ queue' = [q \in Queues |-> Resumed(x, q)]
      /\ continuations' = [continuations EXCEPT ![x] = <<>>]
      /\ running' = [q \in Queues |-> IF running[q] = x THEN None ELSE running[q]]
      /\ UNCHANGED <<join, exited, on, maker, await_queue, discarded, waits, shared>>
  BY DEF Return, taskVars
<1>2. Makers' /\ Forest' /\ pushed' = pushed
  BY <1>1, SameMakers
<1>3. /\ running' \in [Queues -> Tasks \cup {None}]
      /\ \A q \in Queues : running'[q] # None => running'[q] = running[q]
  BY <1>1 DEF IInv, TypeOK
<1>4. /\ continuations' \in [Tasks -> Seq(Tasks)]
      /\ \A u \in Tasks : ToSet(continuations'[u]) \subseteq ToSet(continuations[u])
  <2>1. <<>> \in Seq(Tasks) /\ ToSet(<<>>) = {}
    BY EmptyElements
  <2>2. continuations \in [Tasks -> Seq(Tasks)]
    BY DEF IInv, TypeOK
  <2>3. /\ continuations' \in [Tasks -> Seq(Tasks)] /\ continuations'[x] = <<>>
        /\ \A u \in Tasks : u # x => continuations'[u] = continuations[u]
    BY <1>1, <2>1, <2>2
  <2> QED
    BY <2>1, <2>3
<1>5. /\ queue' \in [Queues -> Seq(Tasks)]
      /\ \A q \in Queues : ToSet(queue'[q]) \subseteq
           ToSet(queue[q]) \cup (IF await_queue[x] = q THEN ToSet(continuations[x]) ELSE {})
  <2>1. ASSUME NEW q \in Queues
        PROVE  /\ Resumed(x, q) \in Seq(Tasks)
               /\ ToSet(Resumed(x, q)) \subseteq
                    ToSet(queue[q]) \cup (IF await_queue[x] = q THEN ToSet(continuations[x]) ELSE {})
    <3>1. queue[q] \in Seq(Tasks) /\ continuations[x] \in Seq(Tasks)
      BY DEF IInv, TypeOK
    <3>2. CASE await_queue[x] = q
      <4>1. Resumed(x, q) = Reverse(continuations[x]) \o queue[q]
        BY <3>2, Zenon DEF Resumed
      <4>2. /\ Reverse(continuations[x]) \o queue[q] \in Seq(Tasks)
            /\ ToSet(Reverse(continuations[x]) \o queue[q]) \subseteq
                 ToSet(continuations[x]) \cup ToSet(queue[q])
        BY <3>1, PushedFront
      <4>3. /\ Resumed(x, q) \in Seq(Tasks)
            /\ ToSet(Resumed(x, q)) \subseteq ToSet(continuations[x]) \cup ToSet(queue[q])
        BY <4>1, <4>2, Zenon
      <4> QED
        BY <3>2, <4>3
    <3>3. CASE await_queue[x] # q
      BY <3>1, <3>3 DEF Resumed
    <3> QED
      BY <3>2, <3>3
  <2> QED
    BY <1>1, <2>1
<1>6. TypeOK'
  BY <1>1, <1>3, <1>4, <1>5 DEF IInv, TypeOK
<1>7. Waiting'
  BY <1>1, <1>2 DEF IInv, Waiting
<1>8. OffWorker'
  BY <1>1, <1>3, Names DEF IInv, OffWorker
<1>9. UntilJoin'
  BY <1>1 DEF IInv, UntilJoin
<1>10. Home'
  <2> SUFFICES ASSUME ~shared PROVE failed' # "null queue" /\ HomeItems' /\ HomeResumes'
    BY <1>1 DEF Home
  <2>1. failed # "null queue" /\ HomeItems /\ HomeResumes
    BY DEF IInv, Home
  <2>2. \A y \in ToSet(continuations[x]) : await_queue[x] = on[y] /\ on[y] # None
    <3>1. ASSUME NEW y \in ToSet(continuations[x])
          PROVE  await_queue[x] = on[y] /\ on[y] # None
      <4>1. x \in pushed /\ maker[x] = y
        BY <2>1, <3>1 DEF HomeResumes
      <4>2. y \in pushed \cup {Main} /\ (y \in ResumableTasks => await_queue[x] = on[y])
        BY <4>1 DEF IInv, Makers
      <4>3. y \in ResumableTasks
        BY <2>1, <3>1 DEF HomeResumes
      <4> QED
        BY <4>2, <4>3, Names DEF pushed
    <3> QED
      BY <3>1
  <2>3. failed' # "null queue"
    <3>1. CASE continuations[x] = <<>>
      BY <1>1, <2>1, <3>1
    <3>2. CASE continuations[x] # <<>>
      <4>1. continuations[x] \in Seq(Tasks)
        BY DEF IInv, TypeOK
      <4>2. \E y : y \in ToSet(continuations[x])
        BY <3>2, <4>1, PopHead
      <4>3. await_queue[x] # None
        BY <2>2, <4>2
      <4> QED
        BY <1>1, <2>1, <4>3
    <3> QED
      BY <3>1, <3>2
  <2>4. HomeItems'
    <3>1. ASSUME NEW q \in Queues, NEW y \in ToSet(queue'[q]) PROVE on[y] = q
      BY <1>5, <2>1, <2>2, <3>1 DEF HomeItems
    <3> QED
      BY <1>1, <1>3, <2>1, <3>1 DEF HomeItems
  <2>5. HomeResumes'
    BY <1>1, <1>2, <1>4, <2>1 DEF HomeResumes
  <2> QED
    BY <2>3, <2>4, <2>5
<1> QED
  BY <1>2, <1>6, <1>7, <1>8, <1>9, <1>10 DEF IInv

\* The worker starts or resumes a task.
LEMMA TakeIInv == ASSUME IInv, NEW q \in Queues, Take(q) PROVE IInv'
<1> DEFINE t == Head(queue[q])
<1>1. /\ queue[q] # <<>> /\ queue[q] \in Seq(Tasks) /\ queue \in [Queues -> Seq(Tasks)]
      /\ running' = [running EXCEPT ![q] = t]
      /\ waits' = [waits EXCEPT ![t] = None]
      /\ queue' = [queue EXCEPT ![q] = Tail(@)]
      /\ UNCHANGED <<join, exited, on, maker, await_queue, continuations, discarded, failed,
                     shared>>
  BY DEF Take, taskVars, IInv, TypeOK
<1>2. /\ Tail(queue[q]) \in Seq(Tasks) /\ t \in Tasks /\ t \in ToSet(queue[q])
      /\ ToSet(Tail(queue[q])) \subseteq ToSet(queue[q])
  BY <1>1, PopHead
<1>3. /\ queue' \in [Queues -> Seq(Tasks)]
      /\ \A p \in Queues : ToSet(queue'[p]) \subseteq ToSet(queue[p])
  <2> DEFINE r == Tail(queue[q])
  <2>1. r \in Seq(Tasks) /\ ToSet(r) \subseteq ToSet(queue[q])
    BY <1>2
  <2> HIDE DEF r
  <2>2. queue' = [queue EXCEPT ![q] = r]
    BY <1>1 DEF r
  <2> QED
    BY <1>1, <2>1, <2>2
<1> HIDE DEF t
<1>4. t \in Threads /\ t # None
  BY <1>2, Names
<1>5. /\ running' \in [Queues -> Tasks \cup {None}] /\ running'[q] = t
      /\ \A p \in Queues : p # q => running'[p] = running[p]
  BY <1>1, <1>2 DEF IInv, TypeOK
<1>6. /\ waits' \in [Threads -> Tasks \cup {None}] /\ waits'[t] = None
      /\ \A y \in Threads : waits'[y] # None => waits'[y] = waits[y]
  BY <1>1, <1>4 DEF IInv, TypeOK
<1>7. Makers' /\ Forest' /\ pushed' = pushed
  BY <1>1, SameMakers
<1>8. TypeOK'
  BY <1>1, <1>3, <1>5, <1>6 DEF IInv, TypeOK
<1>9. Waiting'
  BY <1>1, <1>6, <1>7 DEF IInv, Waiting
<1>10. OffWorker'
  BY <1>5, <1>6, Names DEF IInv, OffWorker
<1>11. UntilJoin'
  BY <1>1 DEF IInv, UntilJoin
<1>12. Home'
  BY <1>1, <1>2, <1>3, <1>5, <1>7 DEF IInv, Home, HomeItems, HomeResumes
<1> QED
  BY <1>7, <1>8, <1>9, <1>10, <1>11, <1>12 DEF IInv

\* The worker ends, or join returns.
LEMMA ExitIInv ==
  ASSUME IInv, JoinReturn \/ \E q \in Queues : Exit(q) PROVE IInv'
<1>1. /\ UNCHANGED <<queue, running, join, on, maker, await_queue, continuations, discarded,
                     failed, waits, shared>>
      /\ exited' = exited \/ \E q \in Queues : join[q]
  BY DEF JoinReturn, Exit, join_possible, taskVars
<1>2. Makers' /\ Forest' /\ pushed' = pushed
  BY <1>1, SameMakers
<1>3. TypeOK' /\ Waiting' /\ OffWorker'
  BY <1>1, <1>2 DEF IInv, TypeOK, Waiting, OffWorker
<1>4. UntilJoin'
  BY <1>1 DEF IInv, UntilJoin
<1>5. Home'
  BY <1>1, <1>2 DEF IInv, Home, HomeItems, HomeResumes
<1> QED
  BY <1>2, <1>3, <1>4, <1>5 DEF IInv

\* join empties the deque.
LEMMA JoinCallIInv == ASSUME IInv, NEW q \in Queues, JoinCall(q) PROVE IInv'
<1>1. /\ join' = [join EXCEPT ![q] = TRUE]
      /\ queue' = [queue EXCEPT ![q] = <<>>]
      /\ UNCHANGED <<running, exited, on, maker, await_queue, continuations, failed, waits,
                     shared>>
  BY DEF JoinCall, taskVars
<1>2. Makers' /\ Forest' /\ pushed' = pushed
  BY <1>1, SameMakers
<1>3. join' \in [Queues -> BOOLEAN] /\ join'[q]
  BY <1>1 DEF IInv, TypeOK
<1>4. /\ queue' \in [Queues -> Seq(Tasks)]
      /\ \A p \in Queues : ToSet(queue'[p]) \subseteq ToSet(queue[p])
  <2>1. <<>> \in Seq(Tasks) /\ ToSet(<<>>) = {}
    BY EmptyElements
  <2>2. queue \in [Queues -> Seq(Tasks)]
    BY DEF IInv, TypeOK
  <2>3. /\ queue' \in [Queues -> Seq(Tasks)] /\ queue'[q] = <<>>
        /\ \A p \in Queues : p # q => queue'[p] = queue[p]
    BY <1>1, <2>1, <2>2
  <2> QED
    BY <2>1, <2>3
<1>5. TypeOK' /\ Waiting' /\ OffWorker'
  BY <1>1, <1>2, <1>3, <1>4 DEF IInv, TypeOK, Waiting, OffWorker
<1>6. UntilJoin'
  BY <1>3 DEF UntilJoin
<1>7. Home'
  BY <1>1, <1>2, <1>4 DEF IInv, Home, HomeItems, HomeResumes
<1> QED
  BY <1>2, <1>5, <1>6, <1>7 DEF IInv

\* Every step.
LEMMA NextIInv == IInv /\ [Next]_vars => IInv'
<1> SUFFICES ASSUME IInv, [Next]_vars PROVE IInv'
  OBVIOUS
<1>1. CASE UNCHANGED vars
  <2>1. UNCHANGED <<queue, running, join, exited, on, maker, await_queue, continuations,
                    discarded, failed, waits, shared>>
    BY <1>1 DEF vars, taskVars
  <2>2. Makers' /\ Forest' /\ pushed' = pushed
    BY <2>1, SameMakers
  <2>3. TypeOK' /\ Waiting' /\ OffWorker' /\ UntilJoin'
    BY <2>1, <2>2 DEF IInv, TypeOK, Waiting, OffWorker, UntilJoin
  <2>4. Home'
    BY <2>1, <2>2 DEF IInv, Home, HomeItems, HomeResumes
  <2> QED
    BY <2>2, <2>3, <2>4 DEF IInv
<1> QED
  BY <1>1, PushIInv, AwaitIInv, BlockIInv, UnblockIInv, ReturnIInv, TakeIInv, ExitIInv,
     JoinCallIInv DEF Next

\* Every state of every program satisfies the inductive invariant.
THEOREM IInvInvariant == Spec => []IInv
<1>1. Init => IInv
  BY InitIInv
<1>2. IInv /\ [Next]_vars => IInv'
  BY NextIInv
<1> QED
  BY <1>1, <1>2, PTL DEF Spec

------------------------------------------------------------------------------
(* What the queues promise to those that await. *)

\* A task that awaits only what it pushed is resumed by its own queue.
THEOREM HomeSafe == Spec => []AwaitReturnsHome
<1>1. IInv => AwaitReturnsHome
  BY DEF IInv, Home, HomeItems, AwaitReturnsHome
<1> QED
  BY <1>1, IInvInvariant, PTL

\* Without join and without tasks that block a worker, a set of stuck tasks would
\* have in each of them the maker of another one of the set: there is none.
THEOREM DeadlockSafe == Spec => []AwaitNeverDeadlocks
<1>1. IInv => AwaitNeverDeadlocks
  <2> SUFFICES ASSUME IInv, Stuck # {}, ~shared, \A q \in Queues : ~join[q],
                      Stuck \cap PlainTasks = {}
               PROVE  FALSE
    BY DEF AwaitNeverDeadlocks
  <2>1. Lost = {}
    BY DEF IInv, UntilJoin, Lost
  <2>2. PICK S \in SUBSET (pushed \ ended) :
          S # {} /\ S \subseteq Stuck /\ \A t \in S : t \in Lost \/ WaitsOn(t) \cap S # {}
    BY DEF Stuck
  <2>3. S \subseteq ResumableTasks /\ S \subseteq pushed
    BY <2>2 DEF pushed, Tasks
  <2>4. ASSUME NEW t \in S PROVE \E u \in S : maker[u] = t
    <3>1. PICK u \in S : u \in WaitsOn(t)
      BY <2>1, <2>2
    <3>2. \A q \in Queues : u = running[q] => waits[running[q]] = None
      BY <2>3 DEF IInv, OffWorker
    <3>3. u = waits[t]
      BY <3>1, <3>2 DEF WaitsOn
    <3>4. t \in Threads /\ u # None
      BY <2>3, <3>1, Names
    <3> QED
      BY <3>3, <3>4 DEF IInv, Waiting
  <2>5. PICK t \in S : \A u \in S : maker[u] # t
    BY <2>2, <2>3 DEF IInv, Forest
  <2> QED
    BY <2>4, <2>5
<1> QED
  BY <1>1, IInvInvariant, PTL

=============================================================================
