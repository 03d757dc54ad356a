-------------------------- MODULE FutureStateProofs --------------------------
(* Safety of FutureState for any threads.                                    *)
EXTENDS FutureState, SeqLemmas

Items == Continuers \cup {Signal}

\* Only one call stores an outcome; it is still running continuations or has
\* returned, and every other writer holds none.
Winner ==
  /\ value = None \/ exception = None
  /\ ready => pc[get] \in {"firing", "done"}
  /\ \A s \in Writers : pc[s] = "firing" => get = s
  /\ \A s \in Setters : pc[s] = "done" => get = s
  /\ \A s \in Writers : cs[s] # <<>> => pc[s] = "firing"

\* Nothing is stored once there is an outcome, and nothing is pending twice.
Lists ==
  /\ ready => continuations = <<>>
  /\ IsInjective(continuations)
  /\ \A s \in Writers : IsInjective(cs[s])

\* How often a continuation ran, by the place of its caller.
Runs ==
  \A k \in Continuers :
    /\ Pending(k) <=> pc[k] = "stored" /\ ran[k] = 0
    /\ pc[k] \in {"idle", "inline"} => ran[k] = 0
    /\ pc[k] = "done" => ran[k] = 1
    /\ ran[k] \in {0, 1}
    /\ k \in called => ran[k] = 1
    /\ ran[k] = 1 \/ pc[k] = "inline" => ready

\* The block's signal is pending as long as it is armed.
BlockSignal ==
  /\ block = "armed" <=> Pending(Signal)
  /\ block = "signalled" => ready
  /\ \A g \in Getters :
       /\ pc[g] = "asleep" => block = "armed"
       /\ pc[g] = "blocking" => block # "absent"

\* What a getter reads, or has read.
Reads ==
  \A g \in Getters :
    /\ pc[g] = "reading" => ready
    /\ pc[g] = "done" => ready /\ got[g] = get
    /\ pc[g] # "done" => got[g] = None

IInv ==
  /\ TypeOK
  /\ Winner
  /\ Lists
  /\ Runs
  /\ BlockSignal
  /\ Reads
  /\ ChildSettled


------------------------------------------------------------------------------
(* The operations on the continuations. *)

\* The four kinds of thread have nothing in common.
LEMMA Kinds ==
  /\ \A s \in Writers : s \notin Continuers /\ s \notin Getters /\ s # None
  /\ \A k \in Continuers : k \notin Getters /\ k # Signal
  /\ Setters \subseteq Writers /\ QuietSetters \subseteq Writers
  /\ Writers \subseteq Threads /\ Continuers \subseteq Threads
  /\ Getters \subseteq Threads
  /\ Signal \in Items /\ Continuers \subseteq Items
BY FutureStateConstants DEF Writers, Continuers, Threads, Items

\* A new state is in the inductive invariant.
LEMMA InitIInv == Init => IInv
<1> SUFFICES ASSUME Init PROVE IInv
  OBVIOUS
<1> USE DEF Init
<1>1. /\ <<>> \in Seq(Continuers \cup {Signal})
      /\ ToSet(continuations) = {} /\ IsInjective(continuations)
      /\ \A s \in Writers : ToSet(cs[s]) = {} /\ IsInjective(cs[s])
  BY EmptyElements
<1>2. \A x : ~Pending(x)
  BY <1>1 DEF Pending
<1>3. TypeOK
  BY <1>1, Kinds DEF TypeOK, WriterStates, ContinuerStates, GetterStates
<1>4. Winner /\ Lists /\ Runs /\ BlockSignal /\ Reads
  BY <1>1, <1>2, Kinds DEF Winner, Lists, Runs, BlockSignal, Reads, ready
<1>5. ChildSettled
  BY DEF ChildSettled, Composers, Continuers
<1> QED
  BY <1>3, <1>4, <1>5 DEF IInv

\* Before an outcome is stored no writer holds a continuation.
LEMMA HeldByNone ==
  ASSUME IInv, ~ready
  PROVE  /\ \A s \in Writers : cs[s] = <<>> /\ ToSet(cs[s]) = {}
         /\ \A x : Pending(x) <=> x \in ToSet(continuations)
<1>1. \A s \in Writers : cs[s] = <<>>
  BY Kinds DEF IInv, Winner, ready, get
<1>2. ToSet(<<>>) = {}
  BY EmptyElements
<1> QED
  BY <1>1, <1>2 DEF Pending

\* The writer that stores the outcome takes every continuation.
LEMMA TakeKeeps ==
  ASSUME IInv, NEW s \in Writers, Take(s)
  PROVE  /\ cs' \in [Writers -> Seq(Continuers \cup {Signal})]
         /\ \A r \in Writers : IsInjective(cs'[r]) /\ (cs'[r] # <<>> => r = s)
         /\ \A x : Pending(x)' <=> Pending(x)
<1>1. /\ \A r \in Writers : cs[r] = <<>> /\ ToSet(cs[r]) = {}
      /\ \A x : Pending(x) <=> x \in ToSet(continuations)
  BY HeldByNone DEF Take
<1>2. /\ cs' = [cs EXCEPT ![s] = continuations]
      /\ cs' \in [Writers -> Seq(Continuers \cup {Signal})]
      /\ cs'[s] = continuations
      /\ \A r \in Writers : r # s => cs'[r] = <<>>
  BY <1>1 DEF Take, IInv, TypeOK
<1>3. ToSet(<<>>) = {} /\ IsInjective(<<>>)
  BY EmptyElements
<1>4. \A x : Pending(x)' <=> x \in ToSet(continuations)
  <2>1. continuations' = <<>>
    BY DEF Take
  <2>2. \A x : Pending(x)' <=> x \in ToSet(<<>>) \/ \E r \in Writers : x \in ToSet(cs'[r])
    BY <2>1 DEF Pending, ToSet
  <2> QED
    BY <1>2, <1>3, <2>2
<1> QED
  BY <1>1, <1>2, <1>3, <1>4 DEF IInv, Lists

\* The loop of the writer takes the first continuation from its list.
LEMMA TailKeeps ==
  ASSUME IInv, NEW s \in Writers, pc[s] = "firing", cs[s] # <<>>,
         cs' = [cs EXCEPT ![s] = Tail(@)], UNCHANGED continuations,
         NEW CONSTANT h, h = Head(cs[s])
  PROVE  /\ h \in Items
         /\ Pending(h) /\ ~Pending(h)'
         /\ \A x : x # h => (Pending(x)' <=> Pending(x))
         /\ cs' \in [Writers -> Seq(Continuers \cup {Signal})]
         /\ \A r \in Writers : IsInjective(cs'[r]) /\ (cs'[r] # <<>> => r = s)
<1>1. /\ cs[s] \in Seq(Continuers \cup {Signal}) /\ IsInjective(cs[s])
      /\ get = s /\ ready
  BY Kinds DEF IInv, TypeOK, Winner, Lists, ready, get
<1>2. /\ Tail(cs[s]) \in Seq(Continuers \cup {Signal})
      /\ h \in Continuers \cup {Signal}
      /\ ToSet(cs[s]) = ToSet(Tail(cs[s])) \cup {h}
      /\ IsInjective(Tail(cs[s])) /\ h \notin ToSet(Tail(cs[s]))
  BY <1>1, PopHead
<1>3. /\ ToSet(<<>>) = {} /\ IsInjective(<<>>)
  BY EmptyElements
<1>4. /\ continuations = <<>>
      /\ \A r \in Writers : r # s => cs[r] = <<>>
  BY <1>1 DEF IInv, Winner, Lists
<1>5. /\ cs' \in [Writers -> Seq(Continuers \cup {Signal})]
      /\ cs'[s] = Tail(cs[s])
      /\ \A r \in Writers : r # s => cs'[r] = <<>>
  BY <1>2, <1>4 DEF IInv, TypeOK
<1>6. \A x : Pending(x) <=> x \in ToSet(cs[s])
  BY <1>3, <1>4 DEF Pending
<1>7. \A x : Pending(x)' <=> x \in ToSet(Tail(cs[s]))
  <2>1. \A x : Pending(x)' <=> x \in ToSet(<<>>) \/ \E r \in Writers : x \in ToSet(cs'[r])
    BY <1>4 DEF Pending, ToSet
  <2> QED
    BY <1>3, <1>5, <2>1
<1>8. /\ h \in Items /\ Pending(h) /\ ~Pending(h)'
      /\ \A x : x # h => (Pending(x)' <=> Pending(x))
  BY <1>2, <1>6, <1>7 DEF Items
<1>9. \A r \in Writers : IsInjective(cs'[r]) /\ (cs'[r] # <<>> => r = s)
  BY <1>2, <1>3, <1>5
<1> QED
  BY <1>5, <1>8, <1>9

\* then, next, continue_with and wait leave one more continuation.
LEMMA AppendKeeps ==
  ASSUME IInv, NEW x \in Items, ~Pending(x), ~ready,
         continuations' = Append(continuations, x), UNCHANGED cs
  PROVE  /\ continuations' \in Seq(Continuers \cup {Signal})
         /\ IsInjective(continuations')
         /\ \A y : Pending(y)' <=> Pending(y) \/ y = x
<1>1. /\ \A r \in Writers : ToSet(cs[r]) = {}
      /\ \A y : Pending(y) <=> y \in ToSet(continuations)
  BY HeldByNone
<1>2. /\ continuations \in Seq(Continuers \cup {Signal})
      /\ IsInjective(continuations) /\ x \in Continuers \cup {Signal}
  BY DEF IInv, TypeOK, Lists, Items
<1>3. /\ continuations' \in Seq(Continuers \cup {Signal})
      /\ ToSet(continuations') = ToSet(continuations) \cup {x}
      /\ IsInjective(continuations')
  BY <1>1, <1>2, AppendNew
<1>4. \A y : Pending(y)' <=> y \in ToSet(continuations') \/ \E r \in Writers : y \in ToSet(cs[r])
  BY DEF Pending, ToSet
<1> QED
  BY <1>1, <1>3, <1>4

------------------------------------------------------------------------------
(* Every step keeps the inductive invariant. *)

\* The writer that stores the outcome is the only one, and takes all continuations.
LEMMA StoreOutcomeIInv ==
  ASSUME IInv, NEW s \in Writers, set_value_impl(s) \/ set_exception(s)
  PROVE  IInv'
<1>1. /\ ~ready /\ Take(s)
      /\ value' \in Writers \cup {None} /\ exception' \in Setters \cup {None}
      /\ ready' /\ get' = s
      /\ value' = None \/ exception' = None
  BY Kinds DEF set_value_impl, set_exception, Take, ready, get, IInv, TypeOK
<1>2. /\ cs' \in [Writers -> Seq(Continuers \cup {Signal})]
      /\ \A r \in Writers : IsInjective(cs'[r]) /\ (cs'[r] # <<>> => r = s)
      /\ \A x : Pending(x)' <=> Pending(x)
  BY <1>1, TakeKeeps
<1>3. /\ pc[s] = "idle" /\ pc' = [pc EXCEPT ![s] = "firing"]
      /\ continuations' = <<>>
      /\ UNCHANGED <<block, got, ran, called, child>>
  BY <1>1 DEF Take, At, clientVars
<1>4. /\ pc'[s] = "firing"
      /\ \A t \in Threads : t # s => pc'[t] = pc[t]
      /\ pc' \in [Threads -> WriterStates \cup ContinuerStates \cup GetterStates]
  BY <1>3, Kinds DEF IInv, TypeOK, WriterStates
<1>5. TypeOK'
  BY <1>1, <1>2, <1>3, <1>4, Kinds, EmptyElements DEF IInv, TypeOK, WriterStates
<1>6. Winner'
  BY <1>1, <1>2, <1>4, Kinds DEF IInv, Winner, TypeOK, ready, get
<1>7. Lists'
  BY <1>2, <1>3, EmptyElements DEF Lists
<1>8. Runs'
  BY <1>1, <1>2, <1>3, <1>4, Kinds DEF IInv, Runs
<1>9. BlockSignal' /\ Reads'
  BY <1>1, <1>2, <1>3, <1>4, Kinds DEF IInv, BlockSignal, Reads
<1>10. ChildSettled'
  BY <1>1, <1>3 DEF IInv, ChildSettled, Runs, Continuers
<1> QED
  BY <1>5, <1>6, <1>7, <1>8, <1>9, <1>10 DEF IInv


\* A call that changes nothing but the place of its thread.
LEMMA PcStep ==
  ASSUME IInv, NEW t \in Threads, NEW q, pc' = [pc EXCEPT ![t] = q],
         UNCHANGED <<stateVars, cs, got, clientVars>>
  PROVE  /\ pc'[t] = q
         /\ \A u \in Threads : u # t => pc'[u] = pc[u]
         /\ ready' = ready /\ get' = get
         /\ \A x : Pending(x)' <=> Pending(x)
         /\ Lists' /\ ChildSettled'
<1>1. pc'[t] = q /\ \A u \in Threads : u # t => pc'[u] = pc[u]
  BY DEF IInv, TypeOK
<1>2. ready' = ready /\ get' = get /\ Lists' /\ ChildSettled'
  BY DEF stateVars, clientVars, IInv, Lists, ChildSettled, ready, get
<1>3. \A x : Pending(x)' <=> Pending(x)
  BY DEF stateVars, Pending
<1> QED
  BY <1>1, <1>2, <1>3

\* A writer that came too late, or that has run every continuation.
LEMMA WriterEndIInv ==
  ASSUME IInv, NEW s \in Writers, SetTooLate(s) \/ FireEnd(s)
  PROVE  IInv'
<1>1. PICK q \in {"threw", "done"} :
        /\ pc' = [pc EXCEPT ![s] = q]
        /\ \/ ready /\ pc[s] = "idle" /\ (s \in Setters <=> q = "threw")
           \/ pc[s] = "firing" /\ q = "done" /\ cs[s] = <<>>
  BY DEF SetTooLate, FireEnd, At
<1>2. UNCHANGED <<stateVars, cs, got, clientVars>>
  BY DEF SetTooLate, FireEnd
<1>3. /\ pc'[s] = q
      /\ \A u \in Threads : u # s => pc'[u] = pc[u]
      /\ ready' = ready /\ get' = get
      /\ \A x : Pending(x)' <=> Pending(x)
      /\ Lists' /\ ChildSettled'
  BY <1>1, <1>2, PcStep, Kinds
<1>4. TypeOK'
  <2>1. pc' \in [Threads -> WriterStates \cup ContinuerStates \cup GetterStates]
    BY <1>1, Kinds DEF IInv, TypeOK, WriterStates
  <2> QED
    BY <1>2, <1>3, <2>1, Kinds DEF IInv, TypeOK, WriterStates, stateVars, clientVars
<1>5. Winner'
  <2>1. UNCHANGED <<value, exception, cs>>
    BY <1>2 DEF stateVars
  <2>2. ready' => pc'[get'] \in {"firing", "done"}
    BY <1>1, <1>3, Kinds DEF IInv, TypeOK, Winner, ready, get
  <2>3. \A r \in Setters : pc'[r] = "done" => get' = r
    BY <1>1, <1>3, Kinds DEF IInv, Winner
  <2>4. \A r \in Writers : /\ pc'[r] = "firing" => get' = r
                           /\ cs'[r] # <<>> => pc'[r] = "firing"
    BY <1>1, <1>3, <2>1, Kinds DEF IInv, Winner
  <2> QED
    BY <2>1, <2>2, <2>3, <2>4 DEF IInv, Winner
<1>6. Runs'
  BY <1>2, <1>3, Kinds DEF IInv, Runs, clientVars
<1>7. BlockSignal' /\ Reads'
  BY <1>2, <1>3, Kinds DEF IInv, BlockSignal, Reads, stateVars
<1> QED
  BY <1>3, <1>4, <1>5, <1>6, <1>7 DEF IInv

\* A continuer that finds the outcome.
LEMMA FindReadyIInv ==
  ASSUME IInv, NEW k \in Continuers, FindReady(k)
  PROVE  IInv'
<1>1. /\ pc' = [pc EXCEPT ![k] = "inline"] /\ pc[k] = "idle" /\ ready
      /\ UNCHANGED <<stateVars, cs, got, clientVars>>
  BY DEF FindReady, At
<1>2. /\ pc'[k] = "inline"
      /\ \A u \in Threads : u # k => pc'[u] = pc[u]
      /\ ready' = ready /\ get' = get
      /\ \A x : Pending(x)' <=> Pending(x)
      /\ Lists' /\ ChildSettled'
  BY <1>1, PcStep, Kinds
<1>3. TypeOK'
  <2>1. pc' \in [Threads -> WriterStates \cup ContinuerStates \cup GetterStates]
    BY <1>1, Kinds DEF IInv, TypeOK, ContinuerStates
  <2> QED
    BY <1>1, <1>2, <2>1, Kinds DEF IInv, TypeOK, ContinuerStates, stateVars, clientVars
<1>4. Winner'
  BY <1>1, <1>2, Kinds DEF IInv, TypeOK, Winner, stateVars, ready, get
<1>5. Runs'
  BY <1>1, <1>2, Kinds DEF IInv, Runs, clientVars
<1>6. BlockSignal' /\ Reads'
  BY <1>1, <1>2, Kinds DEF IInv, BlockSignal, Reads, stateVars
<1> QED
  BY <1>2, <1>3, <1>4, <1>5, <1>6 DEF IInv

\* A getter that moves on without storing anything.
LEMMA GetterIInv ==
  ASSUME IInv, NEW g \in Getters, NEW q \in GetterStates,
         pc' = [pc EXCEPT ![g] = q],
         UNCHANGED <<stateVars, cs, got, clientVars>>,
         q = "reading" => ready,
         q = "asleep" => block = "armed",
         q = "blocking" => block # "absent",
         q # "done", pc[g] # "done"
  PROVE  IInv'
<1>1. /\ pc'[g] = q
      /\ \A u \in Threads : u # g => pc'[u] = pc[u]
      /\ ready' = ready /\ get' = get
      /\ \A x : Pending(x)' <=> Pending(x)
      /\ Lists' /\ ChildSettled'
  BY PcStep, Kinds
<1>2. TypeOK'
  <2>1. pc' \in [Threads -> WriterStates \cup ContinuerStates \cup GetterStates]
    BY Kinds DEF IInv, TypeOK
  <2> QED
    BY <1>1, <2>1, Kinds DEF IInv, TypeOK, stateVars, clientVars
<1>3. Winner'
  BY <1>1, Kinds DEF IInv, TypeOK, Winner, stateVars, ready, get
<1>4. Runs'
  BY <1>1, Kinds DEF IInv, Runs, clientVars
<1>5. BlockSignal' /\ Reads'
  BY <1>1, Kinds DEF IInv, BlockSignal, Reads, stateVars
<1> QED
  BY <1>1, <1>2, <1>3, <1>4, <1>5 DEF IInv


\* Running a continuation that has not run.
LEMMA InvokeKeeps ==
  ASSUME IInv, NEW k \in Continuers, ran[k] = 0, Invoke(k), UNCHANGED exception
  PROVE  /\ ran' \in [Continuers -> Nat] /\ called' \in SUBSET Continuers
         /\ child' \in [Composers -> {"pending", "value", "exception"}]
         /\ ran'[k] = 1 /\ \A j \in Continuers : j # k => ran'[j] = ran[j]
         /\ \A j \in called' : ran'[j] = 1
         /\ ChildSettled'
<1>1. /\ ran' \in [Continuers -> Nat]
      /\ ran'[k] = 1 /\ \A j \in Continuers : j # k => ran'[j] = ran[j]
  BY DEF IInv, TypeOK, Invoke
<1>2. /\ called' \in SUBSET Continuers
      /\ child' \in [Composers -> {"pending", "value", "exception"}]
      /\ \A j \in Composers : j # k => child'[j] = child[j] /\ (j \in called' => j \in called)
      /\ k \in Composers => child'[k] # "pending"
      /\ k \in Nexts /\ exception # None => child'[k] = "exception" /\ called' = called
  BY FutureStateConstants DEF IInv, TypeOK, Invoke, InvokeThen, InvokeNext, InvokeCallback,
     Composers, Continuers
<1>3. k \notin called
  BY DEF IInv, Runs
<1>4. ASSUME NEW j \in called' PROVE ran'[j] = 1
  <2>1. j = k \/ j \in called
    BY <1>4 DEF Invoke, InvokeThen, InvokeNext, InvokeCallback
  <2> QED
    BY <1>1, <2>1 DEF IInv, TypeOK, Runs
<1>5. ChildSettled'
  <2> SUFFICES ASSUME NEW j \in Composers
               PROVE  /\ child'[j] # "pending" <=> ran'[j] > 0
                      /\ j \in Nexts /\ ran'[j] > 0 /\ exception # None =>
                           child'[j] = "exception" /\ j \notin called'
    BY DEF ChildSettled
  <2>1. CASE j = k
    BY <1>1, <1>2, <1>3, <2>1
  <2>2. CASE j # k
    BY <1>1, <1>2, <2>2 DEF IInv, ChildSettled, Continuers
  <2> QED
    BY <2>1, <2>2
<1> QED
  BY <1>1, <1>2, <1>4, <1>5

\* A continuation leaves the hands of the writer as it runs, and settles its child.
LEMMA FireContinuationIInv ==
  ASSUME IInv, NEW s \in Writers, FireContinuation(s)
  PROVE  IInv'
<1>1. PICK k : k = Head(cs[s])
  OBVIOUS
<1>2. /\ pc[s] = "firing" /\ cs[s] # <<>> /\ cs' = [cs EXCEPT ![s] = Tail(@)]
      /\ k # Signal /\ Invoke(k)
      /\ UNCHANGED <<value, exception, continuations, block, pc, got>>
  BY <1>1 DEF FireContinuation, stateVars
<1>3. /\ k \in Items /\ Pending(k) /\ ~Pending(k)'
      /\ \A x : x # k => (Pending(x)' <=> Pending(x))
      /\ cs' \in [Writers -> Seq(Continuers \cup {Signal})]
      /\ \A r \in Writers : IsInjective(cs'[r]) /\ (cs'[r] # <<>> => r = s)
  BY <1>1, <1>2, TailKeeps
<1>4. k \in Continuers /\ ran[k] = 0 /\ pc[k] = "stored"
  BY <1>2, <1>3 DEF Items, IInv, Runs
<1>5. /\ ran' \in [Continuers -> Nat] /\ called' \in SUBSET Continuers
      /\ child' \in [Composers -> {"pending", "value", "exception"}]
      /\ ran'[k] = 1 /\ \A j \in Continuers : j # k => ran'[j] = ran[j]
      /\ \A j \in called' : ran'[j] = 1
      /\ ChildSettled'
  BY <1>2, <1>4, InvokeKeeps
<1>6. ready /\ ready' = ready /\ get' = get
  BY <1>2, Kinds DEF IInv, Winner, ready, get
<1>7. TypeOK'
  BY <1>2, <1>3, <1>5 DEF IInv, TypeOK
<1>8. Winner' /\ Lists'
  BY <1>2, <1>3, <1>6 DEF IInv, Winner, Lists
<1>9. Runs'
  BY <1>2, <1>3, <1>4, <1>5, <1>6 DEF IInv, Runs
<1>10. BlockSignal' /\ Reads'
  BY <1>2, <1>3, <1>6 DEF IInv, BlockSignal, Reads
<1> QED
  BY <1>5, <1>7, <1>8, <1>9, <1>10 DEF IInv

\* block::signal wakes every thread that sleeps, so that none needs another.
LEMMA SignalIInv ==
  ASSUME IInv, NEW s \in Writers, signal(s)
  PROVE  IInv'
<1>1. /\ pc[s] = "firing" /\ cs[s] # <<>> /\ cs' = [cs EXCEPT ![s] = Tail(@)]
      /\ Signal = Head(cs[s])
      /\ block' = "signalled"
      /\ pc' = [t \in Threads |-> IF pc[t] = "asleep" THEN "blocking" ELSE pc[t]]
      /\ UNCHANGED <<value, exception, continuations, got, ran, called, child>>
  BY DEF signal, clientVars
<1>2. /\ ~Pending(Signal)'
      /\ \A x : x # Signal => (Pending(x)' <=> Pending(x))
      /\ cs' \in [Writers -> Seq(Continuers \cup {Signal})]
      /\ \A r \in Writers : IsInjective(cs'[r]) /\ (cs'[r] # <<>> => r = s)
  BY <1>1, TailKeeps
<1>3. ready /\ ready' = ready /\ get' = get
  BY <1>1, Kinds DEF IInv, Winner, ready, get
<1>4. /\ \A r \in Writers : pc'[r] = pc[r]
      /\ \A k \in Continuers : pc'[k] = pc[k]
      /\ \A g \in Getters : \/ pc'[g] = pc[g] /\ pc[g] # "asleep"
                            \/ pc[g] = "asleep" /\ pc'[g] = "blocking"
  <2>1. /\ \A r \in Writers : pc[r] # "asleep"
        /\ \A k \in Continuers : pc[k] # "asleep"
    BY DEF IInv, TypeOK, WriterStates, ContinuerStates
  <2> QED
    BY <1>1, <2>1, Kinds
<1>5. TypeOK'
  <2>1. pc' \in [Threads -> WriterStates \cup ContinuerStates \cup GetterStates]
    BY <1>1 DEF IInv, TypeOK, GetterStates
  <2> QED
    BY <1>1, <1>2, <1>4, <2>1 DEF IInv, TypeOK, GetterStates
<1>6. Winner' /\ Lists'
  BY <1>1, <1>2, <1>3, <1>4, Kinds DEF IInv, TypeOK, Winner, Lists, ready, get
<1>7. Runs'
  BY <1>1, <1>2, <1>3, <1>4, Kinds DEF IInv, Runs
<1>8. BlockSignal' /\ Reads'
  BY <1>1, <1>2, <1>3, <1>4 DEF IInv, BlockSignal, Reads
<1>9. ChildSettled'
  BY <1>1 DEF IInv, ChildSettled
<1> QED
  BY <1>5, <1>6, <1>7, <1>8, <1>9 DEF IInv

\* A continuation that comes before the outcome is stored behind the others.
LEMMA StoreIInv ==
  ASSUME IInv, NEW k \in Continuers, Store(k)
  PROVE  IInv'
<1>1. /\ ~ready /\ pc[k] = "idle" /\ pc' = [pc EXCEPT ![k] = "stored"]
      /\ continuations' = Append(continuations, k)
      /\ UNCHANGED <<value, exception, block, cs, got, ran, called, child>>
  BY DEF Store, At, clientVars
<1>2. ~Pending(k) /\ ran[k] = 0 /\ k \in Items
  BY <1>1, Kinds DEF IInv, Runs
<1>3. /\ continuations' \in Seq(Continuers \cup {Signal})
      /\ IsInjective(continuations')
      /\ \A y : Pending(y)' <=> Pending(y) \/ y = k
  BY <1>1, <1>2, AppendKeeps
<1>4. /\ ~ready' /\ get' = get
      /\ pc'[k] = "stored" /\ \A u \in Threads : u # k => pc'[u] = pc[u]
  BY <1>1, Kinds DEF ready, get, IInv, TypeOK
<1>5. TypeOK'
  <2>1. pc' \in [Threads -> WriterStates \cup ContinuerStates \cup GetterStates]
    BY <1>1, Kinds DEF IInv, TypeOK, ContinuerStates
  <2> QED
    BY <1>1, <1>3, <1>4, <2>1, Kinds DEF IInv, TypeOK, ContinuerStates
<1>6. Winner' /\ Lists'
  BY <1>1, <1>3, <1>4, Kinds DEF IInv, Winner, Lists
<1>7. Runs'
  BY <1>1, <1>2, <1>3, <1>4, Kinds DEF IInv, Runs
<1>8. BlockSignal' /\ Reads'
  BY <1>1, <1>3, <1>4, Kinds DEF IInv, BlockSignal, Reads, ready
<1>9. ChildSettled'
  BY <1>1 DEF IInv, ChildSettled
<1> QED
  BY <1>5, <1>6, <1>7, <1>8, <1>9 DEF IInv

\* A continuation that comes after the outcome runs once, in its own thread.
LEMMA RunInlineIInv ==
  ASSUME IInv, NEW k \in Continuers, RunInline(k)
  PROVE  IInv'
<1>1. /\ pc[k] = "inline" /\ pc' = [pc EXCEPT ![k] = "done"] /\ Invoke(k)
      /\ UNCHANGED <<value, exception, continuations, block, cs, got>>
  BY DEF RunInline, At, stateVars
<1>2. ran[k] = 0 /\ ready /\ ~Pending(k)
  BY <1>1 DEF IInv, Runs
<1>3. /\ ran' \in [Continuers -> Nat] /\ called' \in SUBSET Continuers
      /\ child' \in [Composers -> {"pending", "value", "exception"}]
      /\ ran'[k] = 1 /\ \A j \in Continuers : j # k => ran'[j] = ran[j]
      /\ \A j \in called' : ran'[j] = 1
      /\ ChildSettled'
  BY <1>1, <1>2, InvokeKeeps
<1>4. /\ ready' /\ get' = get
      /\ pc'[k] = "done" /\ \A u \in Threads : u # k => pc'[u] = pc[u]
      /\ \A x : Pending(x)' <=> Pending(x)
  BY <1>1, <1>2, Kinds DEF ready, get, Pending, IInv, TypeOK
<1>5. TypeOK'
  <2>1. pc' \in [Threads -> WriterStates \cup ContinuerStates \cup GetterStates]
    BY <1>1, Kinds DEF IInv, TypeOK, ContinuerStates
  <2> QED
    BY <1>1, <1>3, <1>4, <2>1, Kinds DEF IInv, TypeOK, ContinuerStates
<1>6. Winner' /\ Lists'
  BY <1>1, <1>2, <1>4, Kinds DEF IInv, TypeOK, Winner, Lists, ready, get
<1>7. Runs'
  BY <1>1, <1>2, <1>3, <1>4, Kinds DEF IInv, Runs
<1>8. BlockSignal' /\ Reads'
  BY <1>1, <1>4, Kinds DEF IInv, BlockSignal, Reads, ready
<1> QED
  BY <1>3, <1>5, <1>6, <1>7, <1>8 DEF IInv

\* The first thread that waits leaves the signal with the continuations.
LEMMA WaitBlockIInv ==
  ASSUME IInv, NEW g \in Getters, WaitBlock(g)
  PROVE  IInv'
<1>1. /\ ~ready /\ pc[g] = "idle" /\ pc' = [pc EXCEPT ![g] = "blocking"]
      /\ UNCHANGED <<value, exception, cs, got, clientVars>>
  BY DEF WaitBlock, At
<1>2. CASE block # "absent"
  <2>1. UNCHANGED <<stateVars, cs, got, clientVars>>
    BY <1>1, <1>2 DEF WaitBlock, stateVars
  <2> QED
    BY <1>1, <1>2, <2>1, GetterIInv DEF GetterStates
<1>3. CASE block = "absent"
  <2>1. block' = "armed" /\ continuations' = Append(continuations, Signal)
    BY <1>3 DEF WaitBlock
  <2>2. ~Pending(Signal)
    BY <1>3 DEF IInv, BlockSignal
  <2>3. /\ continuations' \in Seq(Continuers \cup {Signal})
        /\ IsInjective(continuations')
        /\ \A y : Pending(y)' <=> Pending(y) \/ y = Signal
    BY <1>1, <2>1, <2>2, AppendKeeps, Kinds
  <2>4. /\ ~ready' /\ get' = get
        /\ pc'[g] = "blocking" /\ \A u \in Threads : u # g => pc'[u] = pc[u]
    BY <1>1, Kinds DEF ready, get, IInv, TypeOK
  <2>5. TypeOK'
    <3>1. pc' \in [Threads -> WriterStates \cup ContinuerStates \cup GetterStates]
      BY <1>1, Kinds DEF IInv, TypeOK, GetterStates
    <3> QED
      BY <1>1, <2>1, <2>3, <2>4, <3>1, Kinds DEF IInv, TypeOK, GetterStates, clientVars
  <2>6. Winner' /\ Lists'
    BY <1>1, <2>3, <2>4, Kinds DEF IInv, Winner, Lists
  <2>7. Runs'
    BY <1>1, <2>3, <2>4, Kinds DEF IInv, Runs, clientVars
  <2>8. BlockSignal' /\ Reads'
    BY <1>1, <1>3, <2>1, <2>3, <2>4, Kinds DEF IInv, BlockSignal, Reads
  <2>9. ChildSettled'
    BY <1>1 DEF IInv, ChildSettled, clientVars
  <2> QED
    BY <2>5, <2>6, <2>7, <2>8, <2>9 DEF IInv
<1> QED
  BY <1>2, <1>3

\* A getter reads an outcome that is there and will not change.
LEMMA ReadIInv ==
  ASSUME IInv, NEW g \in Getters, Read(g)
  PROVE  IInv'
<1>1. /\ pc[g] = "reading" /\ pc' = [pc EXCEPT ![g] = "done"]
      /\ got' = [got EXCEPT ![g] = get]
      /\ UNCHANGED <<stateVars, cs, clientVars>>
  BY DEF Read, At
<1>2. ready
  BY <1>1 DEF IInv, Reads
<1>3. /\ ready' /\ get' = get
      /\ pc'[g] = "done" /\ \A u \in Threads : u # g => pc'[u] = pc[u]
      /\ \A x : Pending(x)' <=> Pending(x)
  BY <1>1, <1>2, Kinds DEF ready, get, Pending, stateVars, IInv, TypeOK
<1>4. /\ got' \in [Getters -> Writers \cup {None}]
      /\ got'[g] = get /\ \A h \in Getters : h # g => got'[h] = got[h]
  BY <1>1, Kinds DEF IInv, TypeOK, get
<1>5. TypeOK'
  <2>1. pc' \in [Threads -> WriterStates \cup ContinuerStates \cup GetterStates]
    BY <1>1, Kinds DEF IInv, TypeOK, GetterStates
  <2> QED
    BY <1>1, <1>3, <1>4, <2>1, Kinds DEF IInv, TypeOK, GetterStates, stateVars, clientVars
<1>6. Winner' /\ Lists'
  BY <1>1, <1>2, <1>3, Kinds DEF IInv, TypeOK, Winner, Lists, stateVars, ready, get
<1>7. Runs' /\ ChildSettled'
  <2>1. Runs'
    BY <1>1, <1>2, <1>3, Kinds DEF IInv, Runs, clientVars
  <2>2. ChildSettled'
    BY <1>1 DEF IInv, ChildSettled, clientVars, stateVars
  <2> QED
    BY <2>1, <2>2
<1>8. BlockSignal' /\ Reads'
  BY <1>1, <1>2, <1>3, <1>4, Kinds DEF IInv, BlockSignal, Reads, stateVars
<1> QED
  BY <1>5, <1>6, <1>7, <1>8 DEF IInv

\* Every step of every thread preserves the inductive invariant.
LEMMA NextIInv == IInv /\ [Next]_vars => IInv'
<1> SUFFICES ASSUME IInv, [Next]_vars PROVE IInv'
  OBVIOUS
<1>1. ASSUME NEW s \in Writers, WriterStep(s) \/ Fire(s) PROVE IInv'
  BY <1>1, StoreOutcomeIInv, WriterEndIInv, FireContinuationIInv, SignalIInv
  DEF WriterStep, Fire
<1>2. ASSUME NEW k \in Continuers, ContinuerStep(k) \/ RunInline(k) PROVE IInv'
  BY <1>2, StoreIInv, FindReadyIInv, RunInlineIInv DEF ContinuerStep
<1>3. ASSUME NEW g \in Getters, Wait(g) \/ Blocked(g) \/ SpuriousWake(g) PROVE IInv'
  <2>1. CASE WaitBlock(g) \/ Read(g)
    BY <2>1, WaitBlockIInv, ReadIInv
  <2>2. CASE WaitReady(g) \/ Sleep(g) \/ Awake(g) \/ SpuriousWake(g)
    <3>1. PICK q \in {"reading", "asleep", "blocking"} :
            /\ pc' = [pc EXCEPT ![g] = q] /\ pc[g] # "done"
            /\ q = "reading" => ready \/ block = "signalled"
            /\ q = "asleep" => pc[g] = "blocking" /\ block # "signalled"
            /\ q = "blocking" => pc[g] = "asleep"
      BY <2>2 DEF WaitReady, Sleep, Awake, SpuriousWake, At
    <3>2. UNCHANGED <<stateVars, cs, got, clientVars>>
      BY <2>2 DEF WaitReady, Sleep, Awake, SpuriousWake
    <3>3. /\ q = "reading" => ready
          /\ q = "asleep" => block = "armed"
          /\ q = "blocking" => block # "absent"
      BY <3>1 DEF IInv, TypeOK, BlockSignal
    <3> QED
      BY <3>1, <3>2, <3>3, GetterIInv DEF GetterStates
  <2> QED
    BY <1>3, <2>1, <2>2 DEF Wait, Blocked
<1>4. CASE UNCHANGED vars
  <2>1. \A x : Pending(x)' <=> Pending(x)
    BY <1>4 DEF vars, stateVars, Pending
  <2> QED
    BY <1>4, <2>1 DEF vars, stateVars, clientVars, IInv, TypeOK, Winner, Lists, Runs,
       BlockSignal, Reads, ChildSettled, ready, get
<1> QED
  BY <1>1, <1>2, <1>3, <1>4 DEF Next, Terminated

------------------------------------------------------------------------------
(* The theorems. *)

\* The inductive invariant holds in every reachable state.
THEOREM IInvInvariant == Spec => []IInv
BY InitIInv, NextIInv, PTL DEF Spec

\* Type correctness of the model of future_state.
THEOREM TypeCorrect == Spec => []TypeOK
<1>1. IInv => TypeOK
  BY DEF IInv
<1> QED
  BY <1>1, IInvInvariant, PTL

\* A stored continuation is neither lost nor run twice, and runs only after an
\* outcome is stored.
THEOREM ContinuationsSafe == Spec => []ContinuationOnce
<1>1. IInv => ContinuationOnce
  BY DEF IInv, Runs, ContinuationOnce
<1> QED
  BY <1>1, IInvInvariant, PTL

\* No wake-up of a thread that waits for the future is lost.
THEOREM WaitersSafe == Spec => []SleeperSignalled
<1>1. IInv => SleeperSignalled
  BY DEF IInv, BlockSignal, SleeperSignalled
<1> QED
  BY <1>1, IInvInvariant, PTL

\* Reading without the lock is safe: the outcome is there, and it is the same
\* for every reader.
THEOREM ReadersSafe == Spec => []ReadersAgree
<1>1. IInv => ReadersAgree
  BY DEF IInv, Reads, Winner, ReadersAgree, ready, get
<1> QED
  BY <1>1, IInvInvariant, PTL

\* Of the set_value and set_exception calls on a promise one succeeds.
THEOREM SetOnce == Spec => []OneSetSucceeds
<1>1. IInv => OneSetSucceeds
  <2> SUFFICES ASSUME IInv, NEW s \in Setters
               PROVE  pc[s] \in {"firing", "done"} <=> get = s
    BY DEF OneSetSucceeds
  <2> QED
    BY Kinds DEF IInv, Winner, ready, get
<1> QED
  BY <1>1, IInvInvariant, PTL

\* Every future that then and next returned is settled when its continuation
\* ran, and next hands an exception on.
THEOREM ChildrenSafe == Spec => []ChildSettled
<1>1. IInv => ChildSettled
  BY DEF IInv
<1> QED
  BY <1>1, IInvInvariant, PTL

\* The outcome of a future never changes once it is stored.
THEOREM OutcomeNeverChanges == Spec => OutcomeStable
<1>1. [Next]_vars => (ready => UNCHANGED <<value, exception>>)
  <2> SUFFICES ASSUME [Next]_vars, ready PROVE UNCHANGED <<value, exception>>
    OBVIOUS
  <2> USE DEF stateVars
  <2>1. ASSUME NEW s \in Writers, WriterStep(s) \/ Fire(s)
        PROVE  UNCHANGED <<value, exception>>
    BY <2>1 DEF WriterStep, Fire, set_value_impl, set_exception, Take, SetTooLate,
       FireContinuation, signal, FireEnd
  <2>2. ASSUME NEW k \in Continuers, ContinuerStep(k) \/ RunInline(k)
        PROVE  UNCHANGED <<value, exception>>
    BY <2>2 DEF ContinuerStep, Store, FindReady, RunInline
  <2>3. ASSUME NEW g \in Getters, Wait(g) \/ Blocked(g) \/ SpuriousWake(g)
        PROVE  UNCHANGED <<value, exception>>
    BY <2>3 DEF Wait, Blocked, WaitReady, WaitBlock, Sleep, Awake, SpuriousWake, Read
  <2>4. CASE UNCHANGED vars
    BY <2>4 DEF vars
  <2> QED
    BY <2>1, <2>2, <2>3, <2>4 DEF Next, Terminated
<1> QED
  BY <1>1, PTL DEF Spec, OutcomeStable

------------------------------------------------------------------------------
(* The state implements OneShot.                                             *)

\* The backlog is what the writer holds once there is an outcome, and what is
\* stored before.
LEMMA BacklogIs ==
  IInv => /\ ready => /\ get \in Writers /\ get # None
                      /\ cs[get] \in Seq(Items)
                      /\ Backlog = Only(cs[get], Continuers)
          /\ ~ready => /\ get = None
                       /\ continuations \in Seq(Items)
                       /\ Backlog = Only(continuations, Continuers)
          /\ \A k \in Continuers : k \in Promised!Waiting => Pending(k)
<1> SUFFICES ASSUME IInv
             PROVE  /\ ready => /\ get \in Writers /\ get # None
                                /\ cs[get] \in Seq(Items)
                                /\ Backlog = Only(cs[get], Continuers)
                    /\ ~ready => /\ get = None
                                 /\ continuations \in Seq(Items)
                                 /\ Backlog = Only(continuations, Continuers)
                    /\ \A k \in Continuers : k \in Promised!Waiting => Pending(k)
  OBVIOUS
<1>1. Promised!Waiting = ToSet(Backlog)
  BY DEF Promised!Waiting, ToSet
<1>2. CASE ready
  <2>1. get \in Writers /\ get # None
    BY <1>2, Kinds DEF IInv, TypeOK, ready, get
  <2>2. cs[get] \in Seq(Items) /\ continuations = <<>>
    BY <1>2, <2>1 DEF IInv, TypeOK, Lists, Items
  <2>3. cs[get] \o continuations = cs[get]
    <3> DEFINE s == cs[get]
    <3> HIDE DEF s
    <3>1. s \in Seq(Items)
      BY <2>2 DEF s
    <3>2. s \o <<>> = s
      BY <3>1
    <3> QED
      BY <2>2, <3>2 DEF s
  <2>4. Backlog = Only(cs[get], Continuers)
    BY <1>2, <2>3, Zenon DEF Backlog
  <2>5. ToSet(Backlog) = ToSet(cs[get]) \cap Continuers
    BY <2>2, <2>4, OnlyElements
  <2> QED
    BY <1>1, <1>2, <2>1, <2>2, <2>4, <2>5 DEF Pending
<1>3. CASE ~ready
  <2>1. get = None /\ continuations \in Seq(Items)
    BY <1>3 DEF IInv, TypeOK, Items, ready, get
  <2>2. Backlog = Only(continuations, Continuers)
    BY <1>3, Zenon DEF Backlog
  <2>3. ToSet(Backlog) = ToSet(continuations) \cap Continuers
    BY <2>1, <2>2, OnlyElements
  <2> QED
    BY <1>1, <1>3, <2>1, <2>2, <2>3 DEF Pending
<1> QED
  BY <1>2, <1>3

\* The same of the next state.
LEMMA BacklogIsNext ==
  (IInv => /\ ready => /\ get \in Writers /\ get # None
                       /\ cs[get] \in Seq(Items)
                       /\ Backlog = Only(cs[get], Continuers)
           /\ ~ready => /\ get = None
                        /\ continuations \in Seq(Items)
                        /\ Backlog = Only(continuations, Continuers))'
<1>1. IInv => /\ ready => /\ get \in Writers /\ get # None
                          /\ cs[get] \in Seq(Items)
                          /\ Backlog = Only(cs[get], Continuers)
              /\ ~ready => /\ get = None
                           /\ continuations \in Seq(Items)
                           /\ Backlog = Only(continuations, Continuers)
  BY BacklogIs
<1> QED
  BY <1>1, PTL

\* The initial state is one of OneShot.
LEMMA InitPromised == Init => Promised!Init
<1> SUFFICES ASSUME Init PROVE Promised!Init
  OBVIOUS
<1>1. ~ready /\ get = None /\ continuations = <<>>
  BY DEF Init, ready, get
<1>2. Backlog = <<>>
  BY <1>1, OnlyOfEmpty, Zenon DEF Backlog
<1> QED
  BY <1>1, <1>2 DEF Init, Promised!Init

\* A step that leaves the result, the backlog and what clients see alone.
LEMMA Stutter ==
  ASSUME IInv, UNCHANGED <<value, exception, ran, got>>, Backlog' = Backlog
  PROVE  UNCHANGED Promised!vars
BY DEF Promised!vars, get

\* So is a step that only moves a thread.
LEMMA SameBacklog ==
  ASSUME UNCHANGED <<stateVars, cs>>
  PROVE  Backlog' = Backlog
BY DEF stateVars, Backlog, ready, get

\* Storing the outcome writes the result.
LEMMA StoreOutcomeRefines ==
  ASSUME IInv, IInv', NEW s \in Writers, set_value_impl(s) \/ set_exception(s)
  PROVE  Promised!Write(s)
<1>1. /\ ~ready /\ Take(s) /\ ready' /\ get' = s
  BY Kinds DEF set_value_impl, set_exception, Take, ready, get, IInv, TypeOK
<1>2. cs'[s] = continuations /\ UNCHANGED <<got, ran>>
  BY <1>1 DEF Take, IInv, TypeOK, clientVars
<1>3. Backlog' = Only(cs'[get'], Continuers)
  BY <1>1, BacklogIsNext
<1>4. Backlog = Only(continuations, Continuers) /\ get = None
  BY <1>1, BacklogIs
<1> QED
  BY <1>1, <1>2, <1>3, <1>4 DEF Promised!Write

\* A continuation that the loop runs is the first of the backlog.
LEMMA FireContinuationRefines ==
  ASSUME IInv, IInv', NEW s \in Writers, FireContinuation(s)
  PROVE  Promised!RunFirst
<1>1. PICK k : k = Head(cs[s])
  OBVIOUS
<1>2. /\ pc[s] = "firing" /\ cs[s] # <<>> /\ cs' = [cs EXCEPT ![s] = Tail(@)]
      /\ k # Signal /\ Invoke(k)
      /\ UNCHANGED <<value, exception, continuations, got>>
  BY <1>1 DEF FireContinuation, stateVars
<1>3. k \in Items /\ Pending(k)
  BY <1>1, <1>2, TailKeeps
<1>4. k \in Continuers /\ ran[k] = 0
  BY <1>2, <1>3 DEF Items, IInv, Runs
<1>5. ready /\ get = s /\ ready' /\ get' = s /\ cs'[s] = Tail(cs[s])
  BY <1>2, Kinds DEF IInv, TypeOK, Winner, ready, get
<1>6. /\ get # None /\ cs[s] \in Seq(Items)
      /\ Backlog = Only(cs[s], Continuers) /\ Backlog' = Only(Tail(cs[s]), Continuers)
  BY <1>5, BacklogIs, BacklogIsNext
<1>7. Backlog # <<>> /\ Head(Backlog) = k /\ Backlog' = Tail(Backlog)
  BY <1>1, <1>2, <1>4, <1>6, OnlyOfPop
<1>8. ran' = [ran EXCEPT ![k] = 1]
  BY <1>2, <1>4 DEF Invoke, IInv, TypeOK
<1>9. UNCHANGED <<get, got>>
  BY <1>2, <1>5
<1> QED
  BY <1>4, <1>6, <1>7, <1>8, <1>9 DEF Promised!RunFirst, Promised!Start

\* The signal is not in the backlog.
LEMMA SignalRefines ==
  ASSUME IInv, IInv', NEW s \in Writers, signal(s)
  PROVE  UNCHANGED Promised!vars
<1>1. /\ pc[s] = "firing" /\ cs[s] # <<>> /\ cs' = [cs EXCEPT ![s] = Tail(@)]
      /\ Signal = Head(cs[s])
      /\ UNCHANGED <<value, exception, continuations, got, ran>>
  BY DEF signal, clientVars
<1>2. ready /\ get = s /\ ready' /\ get' = s /\ cs'[s] = Tail(cs[s])
  BY <1>1, Kinds DEF IInv, TypeOK, Winner, ready, get
<1>3. /\ cs[s] \in Seq(Items)
      /\ Backlog = Only(cs[s], Continuers) /\ Backlog' = Only(Tail(cs[s]), Continuers)
  BY <1>2, BacklogIs, BacklogIsNext
<1>4. Backlog' = Backlog
  BY <1>1, <1>3, Kinds, OnlyOfPop
<1> QED
  BY <1>1, <1>4, Stutter

\* A continuation that is stored goes to the end of the backlog.
LEMMA StoreRefines ==
  ASSUME IInv, IInv', NEW k \in Continuers, Store(k)
  PROVE  Promised!Leave(k)
<1>1. /\ ~ready /\ pc[k] = "idle" /\ continuations' = Append(continuations, k)
      /\ UNCHANGED <<value, exception, got, ran>>
  BY DEF Store, At, clientVars
<1>2. ~ready' /\ UNCHANGED get
  BY <1>1 DEF ready, get
<1>3. /\ get = None /\ continuations \in Seq(Items)
      /\ Backlog = Only(continuations, Continuers)
      /\ Backlog' = Only(continuations', Continuers)
  BY <1>1, <1>2, BacklogIs, BacklogIsNext
<1>4. Backlog' = Append(Backlog, k)
  <2>1. k \in Items
    BY Kinds
  <2>2. Only(Append(continuations, k), Continuers) = Append(Only(continuations, Continuers), k)
    BY <1>3, <2>1, OnlyOfAppend
  <2> QED
    BY <1>1, <1>3, <2>2, Zenon
<1>5. k \notin Promised!Waiting
  BY <1>1, BacklogIs DEF IInv, Runs
<1> QED
  BY <1>1, <1>2, <1>3, <1>4, <1>5 DEF Promised!Leave

\* A continuation that comes too late is not in the backlog.
LEMMA RunInlineRefines ==
  ASSUME IInv, IInv', NEW k \in Continuers, RunInline(k)
  PROVE  Promised!RunLate(k)
<1>1. /\ pc[k] = "inline" /\ Invoke(k)
      /\ UNCHANGED <<stateVars, cs, got>>
  BY DEF RunInline, At
<1>2. ran[k] = 0 /\ ready /\ ~Pending(k)
  BY <1>1 DEF IInv, Runs
<1>3. k \notin Promised!Waiting /\ get # None
  BY <1>2, BacklogIs
<1>4. Backlog' = Backlog /\ UNCHANGED <<get, got>>
  BY <1>1, SameBacklog DEF stateVars, get
<1>5. ran' = [ran EXCEPT ![k] = 1]
  BY <1>1, <1>2 DEF Invoke, IInv, TypeOK
<1> QED
  BY <1>2, <1>3, <1>4, <1>5 DEF Promised!RunLate, Promised!Start

\* The first thread that waits leaves no client behind.
LEMMA WaitBlockRefines ==
  ASSUME IInv, IInv', NEW g \in Getters, WaitBlock(g)
  PROVE  UNCHANGED Promised!vars
<1>1. /\ ~ready /\ UNCHANGED <<value, exception, cs, got, ran>>
      /\ continuations' = continuations \/ continuations' = Append(continuations, Signal)
  BY DEF WaitBlock, clientVars
<1>2. ~ready'
  BY <1>1 DEF ready
<1>3. /\ continuations \in Seq(Items)
      /\ Backlog = Only(continuations, Continuers)
      /\ Backlog' = Only(continuations', Continuers)
  BY <1>1, <1>2, BacklogIs, BacklogIsNext
<1>4. Backlog' = Backlog
  <2>1. Signal \in Items /\ Signal \notin Continuers
    BY Kinds
  <2>2. Only(Append(continuations, Signal), Continuers) = Only(continuations, Continuers)
    BY <1>3, <2>1, OnlyOfAppend
  <2> QED
    BY <1>1, <1>3, <2>2, Zenon
<1> QED
  BY <1>1, <1>4, Stutter

\* A getter reads the result.
LEMMA ReadRefines ==
  ASSUME IInv, NEW g \in Getters, Read(g)
  PROVE  Promised!Read(g)
<1>1. /\ pc[g] = "reading" /\ got' = [got EXCEPT ![g] = get]
      /\ UNCHANGED <<stateVars, cs, clientVars>>
  BY DEF Read, At
<1>2. ready /\ got[g] = None
  BY <1>1 DEF IInv, Reads
<1>3. get # None
  BY <1>2, BacklogIs
<1>4. Backlog' = Backlog /\ UNCHANGED <<get, ran>>
  BY <1>1, SameBacklog DEF stateVars, clientVars, get
<1> QED
  BY <1>1, <1>2, <1>3, <1>4 DEF Promised!Read

\* Every step is a step of OneShot, or none.
LEMMA NextPromised ==
  ASSUME IInv, IInv', [Next]_vars PROVE [Promised!Next]_Promised!vars
<1>1. ASSUME UNCHANGED <<stateVars, cs, got, clientVars>>
      PROVE  UNCHANGED Promised!vars
  BY <1>1, SameBacklog, Stutter DEF stateVars, clientVars
<1>2. ASSUME NEW s \in Writers, WriterStep(s) \/ Fire(s)
      PROVE  [Promised!Next]_Promised!vars
  <2>1. CASE set_value_impl(s) \/ set_exception(s)
    BY <2>1, StoreOutcomeRefines DEF Promised!Next
  <2>2. CASE FireContinuation(s)
    BY <2>2, FireContinuationRefines DEF Promised!Next
  <2>3. CASE signal(s)
    BY <2>3, SignalRefines
  <2>4. CASE SetTooLate(s) \/ FireEnd(s)
    BY <1>1, <2>4 DEF SetTooLate, FireEnd
  <2> QED
    BY <1>2, <2>1, <2>2, <2>3, <2>4 DEF WriterStep, Fire
<1>3. ASSUME NEW k \in Continuers, ContinuerStep(k) \/ RunInline(k)
      PROVE  [Promised!Next]_Promised!vars
  <2>1. CASE Store(k)
    BY <2>1, StoreRefines DEF Promised!Next
  <2>2. CASE FindReady(k)
    BY <1>1, <2>2 DEF FindReady
  <2>3. CASE RunInline(k)
    BY <2>3, RunInlineRefines DEF Promised!Next
  <2> QED
    BY <1>3, <2>1, <2>2, <2>3 DEF ContinuerStep
<1>4. ASSUME NEW g \in Getters, Wait(g) \/ Blocked(g) \/ SpuriousWake(g)
      PROVE  [Promised!Next]_Promised!vars
  <2>1. CASE WaitBlock(g)
    BY <2>1, WaitBlockRefines
  <2>2. CASE Read(g)
    BY <2>2, ReadRefines DEF Promised!Next
  <2>3. CASE WaitReady(g) \/ Sleep(g) \/ Awake(g) \/ SpuriousWake(g)
    BY <1>1, <2>3 DEF WaitReady, Sleep, Awake, SpuriousWake
  <2> QED
    BY <1>4, <2>1, <2>2, <2>3 DEF Wait, Blocked
<1>5. CASE UNCHANGED vars
  BY <1>1, <1>5 DEF vars
<1> QED
  BY <1>2, <1>3, <1>4, <1>5 DEF Next, Terminated

\* future_state behaves as its clients are told: one result, for ever, and every
\* function left with it runs after the result, once, in the order they came.
THEOREM OneShotImplemented == Spec => ImplementsOneShot
<1>1. IInv /\ IInv' /\ [Next]_vars => [Promised!Next]_Promised!vars
  BY NextPromised
<1> QED
  BY <1>1, InitPromised, IInvInvariant, PTL DEF Spec, ImplementsOneShot, Promised!Spec

=============================================================================
