-------------------------- MODULE CombinatorsProofs --------------------------
(* Safety of Combinators for a range of any length over any futures.         *)
EXTENDS Combinators, SeqLemmas, FiniteSetTheorems, TLAPS

------------------------------------------------------------------------------
(* The inductive invariant. *)

TypeOK ==
  /\ call \in Calls
  /\ fs \in [Positions -> Futures \cup {Invalid}]
  /\ outcome \in [Cells -> {"pending", "value", "exception"}]
  /\ stored \in [Cells -> Seq(Nat)]
  /\ firing \in [Cells -> Seq(Nat)]
  /\ inline \in Nat \cup {None}
  /\ i \in Nat
  /\ counter \in Nat

\* Continuation k was left, and has not run.
HeldIn(k, st, fi, inl) ==
  inl = k \/ \E c \in Cells : k \in ToSet(st[c]) \/ k \in ToSet(fi[c])

Held(k) == HeldIn(k, stored, firing, inline)

\* It is with the future it watches as long as that is pending, and about to
\* run afterwards.
Where ==
  /\ \A c \in Cells : \A k \in ToSet(stored[c]) : Watched(k) = c /\ outcome[c] = "pending"
  /\ \A c \in Cells : \A k \in ToSet(firing[c]) : Watched(k) = c /\ outcome[c] # "pending"
  /\ inline # None => Watched(inline) \in Cells /\ outcome[Watched(inline)] # "pending"

\* It is in one place, and is that of an earlier iteration.
Once ==
  /\ i <= Iterations
  /\ \A c \in Cells :
       IsInjective(stored[c]) /\ IsInjective(firing[c]) /\ inline \notin ToSet(firing[c])
  /\ \A k \in Nat : Held(k) => k < i

\* An iteration that has been made and left nothing that is still to run has
\* seen its future complete, or had none.
Looked ==
  \A k \in Nat :
    k < i /\ ~Held(k) => Watched(k) = Invalid \/ outcome[Watched(k)] # "pending"

\* The future made for element p of a tuple completes with the iteration for p.
Elements ==
  call = "when_all tuple" =>
    \A p \in Positions : outcome[p] = "pending" <=> p >= i \/ Held(p)

\* The iterations whose continuation calls dec.
Deccers == IF call = "when_all tuple" THEN N..2 * N - 1 ELSE 0..N - 1

\* Those that have not called it.
Outstanding == {k \in Deccers : k >= i \/ Held(k)}

\* The counter counts them, and the promise is set with the last one.
Count ==
  /\ counter = Cardinality(Outstanding)
  /\ counter # 0 => result = None
  /\ counter = 0 => result = "ready"

AllOf == IsWhenAll => Once /\ Looked /\ Elements /\ Count

\* when_any_ready answers with a position only when the future it watches is
\* complete.
AnyOf ==
  call = "when_any" /\ result # None /\ result # NoneValid =>
    fs[0] \in Cells /\ outcome[fs[0]] # "pending"

\* unwrap looks at the inner future only after the outer one had a value, and
\* hands over the outcome of the inner one.
Unwrapped ==
  call = "unwrap" =>
    /\ fs[0] \in Cells
    /\ Held(1) => outcome[fs[0]] = "value"
    /\ result \in {"value", "exception"} =>
         fs[1] \in Cells /\ outcome[fs[0]] = "value" /\ outcome[fs[1]] = result

IInv ==
  /\ TypeOK
  /\ Where
  /\ AllOf
  /\ AnyOf
  /\ Unwrapped


------------------------------------------------------------------------------
(* Facts about the iterations. *)

\* The range has a position.
LEMMA NPositive == N \in Nat /\ N > 0
<1>1. N \in Nat \ {0}
  BY CombinatorsConstants, Zenon
<1> QED
  BY <1>1

\* No iteration is named None.
LEMMA NoneNoIteration == \A k \in Nat : k # None
BY CombinatorsConstants, Zenon

\* The loop is bounded.
LEMMA IterationsNat == Iterations \in Nat
<1>1. Iterations \in {1, N, 2 * N}
  BY DEF Iterations
<1> QED
  BY <1>1, NPositive

\* The iterations that call dec are as many as the range has positions.
LEMMA DeccersCount ==
  /\ Deccers \subseteq Nat
  /\ IsFiniteSet(Deccers)
  /\ Cardinality(Deccers) = N
  /\ IsWhenAll => \A k \in Deccers : k < Iterations
<1>1. N \in Nat /\ N > 0
  BY NPositive
<1>2. /\ IsFiniteSet(N..2 * N - 1) /\ Cardinality(N..2 * N - 1) = N
      /\ IsFiniteSet(0..N - 1) /\ Cardinality(0..N - 1) = N
  BY <1>1, FS_Interval
<1>3. Deccers \in {N..2 * N - 1, 0..N - 1}
  BY DEF Deccers
<1>4. N..2 * N - 1 \subseteq Nat /\ 0..N - 1 \subseteq Nat
  BY <1>1
<1>5. IsWhenAll => \A k \in Deccers : k < Iterations
  <2>1. ASSUME call = "when_all tuple" PROVE \A k \in Deccers : k < Iterations
    <3>1. Deccers = N..2 * N - 1 /\ Iterations = 2 * N
      BY <2>1 DEF Deccers, Iterations
    <3> QED
      BY <1>1, <3>1
  <2>2. ASSUME call = "when_all" PROVE \A k \in Deccers : k < Iterations
    <3>1. Deccers = 0..N - 1 /\ Iterations = N
      BY <2>2 DEF Deccers, Iterations
    <3> QED
      BY <1>1, <3>1
  <2> QED
    BY <2>1, <2>2 DEF IsWhenAll
<1> QED
  BY <1>2, <1>3, <1>4, <1>5

\* A call starts in the inductive invariant.
LEMMA InitIInv == Init => IInv
<1> SUFFICES ASSUME Init PROVE IInv
  OBVIOUS
<1>1. N \in Nat /\ N > 0 /\ \A k \in Nat : k # None
  BY NPositive, NoneNoIteration
<1>2. /\ stored = [c \in Cells |-> <<>>] /\ firing = [c \in Cells |-> <<>>]
      /\ inline = None /\ i = 0 /\ counter = N /\ result = None
      /\ outcome = [c \in Cells |-> "pending"]
      /\ call \in Calls /\ fs \in [Positions -> Futures \cup {Invalid}]
  BY DEF Init, diff
<1>3. \A c \in Cells : stored[c] = <<>> /\ firing[c] = <<>>
  BY <1>2
<1>4. TypeOK
  BY <1>1, <1>2, EmptyElements DEF TypeOK
<1>5. Where
  BY <1>2, <1>3, EmptyElements DEF Where
<1>6. \A k \in Nat : ~Held(k)
  BY <1>1, <1>2, <1>3, EmptyElements DEF Held, HeldIn
<1>7. ASSUME IsWhenAll PROVE Once /\ Looked /\ Elements
  <2>1. 0 <= Iterations
    <3>1. Iterations \in {N, 2 * N}
      BY <1>7 DEF Iterations, IsWhenAll
    <3> QED
      BY <1>1, <3>1
  <2>2. \A c \in Cells : inline \notin ToSet(firing[c])
    BY <1>3, EmptyElements
  <2>3. Once
    BY <1>2, <1>3, <1>6, <2>1, <2>2, EmptyElements DEF Once
  <2>4. Looked
    BY <1>2 DEF Looked
  <2>5. Elements
    <3>1. \A p \in Positions : p >= 0 /\ p \in Cells
      BY <1>1 DEF Positions, Cells
    <3> QED
      BY <1>2, <3>1 DEF Elements
  <2> QED
    BY <2>3, <2>4, <2>5
<1>8. Count
  <2>1. Outstanding = Deccers
    <3>1. \A k \in Deccers : k >= i
      BY <1>2, DeccersCount
    <3> QED
      BY <3>1 DEF Outstanding
  <2> QED
    BY <1>1, <1>2, <2>1, DeccersCount DEF Count
<1>9. AnyOf
  BY <1>2 DEF AnyOf
<1>10. call = "unwrap" => fs[0] \in Cells
  BY DEF Init, Cells
<1>11. Unwrapped
  BY <1>2, <1>6, <1>10, CombinatorsConstants DEF Unwrapped
<1> QED
  BY <1>4, <1>5, <1>7, <1>8, <1>9, <1>11 DEF IInv, AllOf

\* What futures hold are iterations.
LEMMA IterationsHeld ==
  ASSUME IInv
  PROVE  \A c \in Cells : ToSet(stored[c]) \subseteq Nat /\ ToSet(firing[c]) \subseteq Nat
<1>1. ASSUME NEW s \in Seq(Nat) PROVE ToSet(s) \subseteq Nat
  BY DEF ToSet
<1>2. stored \in [Cells -> Seq(Nat)] /\ firing \in [Cells -> Seq(Nat)]
  BY DEF IInv, TypeOK
<1> QED
  BY <1>1, <1>2

\* A continuation that is held watches a future, and belongs to an iteration.
LEMMA HeldWatches ==
  ASSUME IInv, NEW k \in Nat, Held(k) PROVE Watched(k) \in Cells
<1>1. k # None
  BY NoneNoIteration
<1> QED
  BY <1>1 DEF IInv, Where, Held, HeldIn

------------------------------------------------------------------------------
(* What a step does to the counting. *)

\* Steps after which what a complete future told is still true.
LEMMA OutcomeKept ==
  ASSUME IInv, UNCHANGED <<call, fs>>,
         \A c \in Cells : outcome[c] # "pending" => outcome'[c] = outcome[c]
  PROVE  /\ result' = result => AnyOf'
         /\ UNCHANGED result /\ (HeldIn(1, stored', firing', inline') => Held(1)) =>
              Unwrapped'
<1>1. result' = result => AnyOf'
  <2>1. SUFFICES ASSUME result' = result, call = "when_any", result # None, result # NoneValid
                 PROVE  fs'[0] \in Cells /\ outcome'[fs'[0]] # "pending"
    BY Zenon DEF AnyOf
  <2>2. fs[0] \in Cells /\ outcome[fs[0]] # "pending"
    BY <2>1, Zenon DEF IInv, AnyOf
  <2> QED
    BY <2>2
<1>2. UNCHANGED result /\ (HeldIn(1, stored', firing', inline') => Held(1)) => Unwrapped'
  BY DEF IInv, Unwrapped, Held
<1> QED
  BY <1>1, <1>2

\* The futures of a call, and what it does with them, stay the same.
LEMMA SameCall ==
  ASSUME UNCHANGED <<call, fs>>
  PROVE  /\ Iterations' = Iterations /\ Deccers' = Deccers /\ IsWhenAll' = IsWhenAll
         /\ \A k : Watched(k)' = Watched(k)
BY DEF Iterations, Deccers, IsWhenAll, Watched

\* An iteration looks at a future, or at one without a state; the second walk
\* over a tuple finds a future at every position.
LEMMA WatchedLooking ==
  ASSUME IInv, NEW k \in Nat, k < Iterations, IsWhenAll \/ call = "when_any" \/ call = "unwrap"
  PROVE  /\ Watched(k) \in Cells \cup {Invalid}
         /\ call = "when_all tuple" /\ k >= N => Watched(k) \in Positions
         /\ Watched(k) = Invalid => Watched(k) \notin Cells
<1>1. /\ N \in Nat /\ N > 0  /\ fs \in [Positions -> Futures \cup {Invalid}]
  BY NPositive DEF IInv, TypeOK
<1>2. Futures \subseteq Cells /\ Positions \subseteq Cells /\ Positions = 0..N - 1
  BY DEF Cells, Positions
<1>3. Invalid \notin Cells
  BY CombinatorsConstants, Zenon DEF Cells
<1>4. CASE call = "when_all tuple"
  <2>1. k < 2 * N
    BY <1>4 DEF Iterations
  <2>2. CASE k >= N
    <3>1. Watched(k) = k - N
      BY <1>4, <2>2 DEF Watched
    <3>2. k - N \in Positions
      BY <1>1, <1>2, <2>1, <2>2
    <3> QED
      BY <3>1, <3>2, <1>2, <1>3
  <2>3. CASE k < N
    <3>1. k \in Positions /\ ~(k >= N)
      BY <1>1, <1>2, <2>3
    <3>2. Watched(k) = fs[k]
      BY <1>4, <3>1 DEF Watched
    <3> QED
      BY <1>1, <1>2, <1>3, <3>1, <3>2
  <2>4. k >= N \/ k < N
    BY <1>1
  <2> QED
    BY <2>2, <2>3, <2>4, Zenon
<1>5. CASE call = "when_any"
  <2>1. 0 \in Positions
    BY <1>1, <1>2
  <2>2. Watched(k) = fs[0]
    BY <1>5 DEF Watched
  <2>3. fs[0] \in Futures \cup {Invalid}
    BY <1>1, <2>1
  <2> QED
    BY <1>2, <1>3, <1>5, <2>2, <2>3
<1>6. CASE call \in {"when_all", "unwrap"}
  <2>1. k < N
    <3>1. Iterations \in {1, N}
      BY <1>6 DEF Iterations
    <3>2. N \in Nat /\ N > 0 
      BY <1>1
    <3> QED
      BY <3>1, <3>2
  <2>2. k \in Positions /\ ~(k >= N)
    BY <1>1, <1>2, <2>1
  <2>3. Watched(k) = fs[k]
    BY <1>6, <2>2 DEF Watched
  <2> QED
    BY <1>1, <1>2, <1>3, <1>6, <2>2, <2>3
<1> QED
  BY <1>4, <1>5, <1>6 DEF IsWhenAll

------------------------------------------------------------------------------
(* A continuation is taken to run: from the future that was found ready, or *)
(* from those a complete future left. *)

\* What Run is given.
Taken(k, rest, left) ==
  /\ k \in Nat /\ Held(k)
  /\ Watched(k) \in Cells /\ outcome[Watched(k)] # "pending"
  /\ rest \in {None, inline}
  /\ left \in [Cells -> Seq(Nat)]
  /\ \A c \in Cells : ToSet(left[c]) \subseteq ToSet(firing[c])
  /\ IsWhenAll => \A c \in Cells : IsInjective(left[c]) /\ rest \notin ToSet(left[c])
  /\ \A j \in Nat : HeldIn(j, stored, left, rest) => Held(j)
  /\ IsWhenAll => \A j \in Nat : HeldIn(j, stored, left, rest) <=> Held(j) /\ j # k

\* The caller runs the continuation it kept.
LEMMA TakenInline == ASSUME IInv, inline # None PROVE Taken(inline, None, firing)
<1>1. inline \in Nat /\ firing \in [Cells -> Seq(Nat)]
  BY DEF IInv, TypeOK
<1>2. Watched(inline) \in Cells /\ outcome[Watched(inline)] # "pending"
  BY DEF IInv, Where
<1>3. \A c \in Cells : inline \notin ToSet(stored[c])
  BY <1>2 DEF IInv, Where
<1>4. \A c \in Cells : None \notin ToSet(firing[c])
  BY IterationsHeld, NoneNoIteration
<1>5. \A j \in Nat : j # None
  BY NoneNoIteration
<1>6. \A j \in Nat : HeldIn(j, stored, firing, None) => Held(j)
  BY <1>5 DEF HeldIn, Held
<1>7. ASSUME IsWhenAll
      PROVE  /\ \A c \in Cells : IsInjective(firing[c]) /\ None \notin ToSet(firing[c])
             /\ \A j \in Nat : HeldIn(j, stored, firing, None) <=> Held(j) /\ j # inline
  <2>1. \A c \in Cells : IsInjective(firing[c]) /\ inline \notin ToSet(firing[c])
    BY <1>7 DEF IInv, AllOf, Once
  <2> QED
    BY <1>3, <1>4, <1>5, <2>1 DEF HeldIn, Held
<1>8. Held(inline)
  BY DEF Held, HeldIn
<1> QED
  BY <1>1, <1>2, <1>6, <1>7, <1>8 DEF Taken

\* A thread that completed a future runs the first that is left.
LEMMA TakenFiring ==
  ASSUME IInv, NEW c \in Cells, firing[c] # <<>>
  PROVE  Taken(Head(firing[c]), inline, [firing EXCEPT ![c] = Tail(@)])
<1> DEFINE k == Head(firing[c])
           left == [firing EXCEPT ![c] = Tail(@)]
<1>1. firing \in [Cells -> Seq(Nat)] /\ firing[c] \in Seq(Nat)
  BY DEF IInv, TypeOK
<1>2. /\ Tail(firing[c]) \in Seq(Nat) /\ k \in Nat
      /\ ToSet(firing[c]) = ToSet(Tail(firing[c])) \cup {k}
      /\ IsInjective(firing[c]) => IsInjective(Tail(firing[c])) /\ k \notin ToSet(Tail(firing[c]))
  BY <1>1, PopHead
<1>3. /\ left \in [Cells -> Seq(Nat)] /\ left[c] = Tail(firing[c])
      /\ \A d \in Cells : d # c => left[d] = firing[d]
  BY <1>1, <1>2
<1> HIDE DEF k, left
<1>4. Watched(k) = c /\ outcome[c] # "pending"
  BY <1>2 DEF IInv, Where
<1>5. \A d \in Cells : ToSet(left[d]) \subseteq ToSet(firing[d])
  BY <1>2, <1>3
<1>6. Held(k)
  BY <1>2 DEF Held, HeldIn
<1>7. \A j \in Nat : HeldIn(j, stored, left, inline) => Held(j)
  BY <1>5 DEF Held, HeldIn
<1>8. ASSUME IsWhenAll
      PROVE  /\ \A d \in Cells : IsInjective(left[d]) /\ inline \notin ToSet(left[d])
             /\ \A j \in Nat : HeldIn(j, stored, left, inline) <=> Held(j) /\ j # k
  <2>1. \A d \in Cells : IsInjective(firing[d]) /\ inline \notin ToSet(firing[d])
    BY <1>8 DEF IInv, AllOf, Once
  <2>2. \A d \in Cells : IsInjective(left[d]) /\ inline \notin ToSet(left[d])
    BY <1>2, <1>3, <1>5, <2>1
  <2>3. inline # k
    BY <1>2, <2>1
  <2>4. \A d \in Cells : k \notin ToSet(stored[d]) /\ k \notin ToSet(left[d])
    <3>1. \A d \in Cells : k \notin ToSet(stored[d])
      BY <1>4 DEF IInv, Where
    <3>2. \A d \in Cells : d # c => k \notin ToSet(firing[d])
      BY <1>4 DEF IInv, Where
    <3>3. k \notin ToSet(left[c])
      BY <1>2, <1>3, <2>1
    <3> QED
      BY <1>3, <3>1, <3>2, <3>3
  <2>5. \A j \in Nat : Held(j) /\ j # k => HeldIn(j, stored, left, inline)
    BY <1>2, <1>3 DEF Held, HeldIn
  <2> QED
    BY <1>7, <2>2, <2>3, <2>4, <2>5 DEF HeldIn
<1>9. Taken(k, inline, left)
  BY <1>2, <1>3, <1>4, <1>5, <1>6, <1>7, <1>8 DEF Taken
<1> QED
  BY <1>9 DEF k, left

------------------------------------------------------------------------------
(* A continuation is left with a future. *)

\* continue_with keeps what is said of the places of continuations, and adds at
\* most the one that is left.
LEMMA ContinueWith ==
  ASSUME IInv, NEW k \in Nat, Watched(k) \in Cells,
         NEW rest \in {None, inline}, NEW left \in [Cells -> Seq(Nat)],
         \A c \in Cells : ToSet(left[c]) \subseteq ToSet(firing[c]),
         continue_with(k, rest), firing' = left, UNCHANGED <<call, fs, outcome>>
  PROVE  /\ stored' \in [Cells -> Seq(Nat)]
         /\ inline' \in {rest, k}
         /\ Where'
         /\ \A c \in Cells : ToSet(stored[c]) \subseteq ToSet(stored'[c])
         /\ HeldIn(k, stored', firing', inline')
         /\ \A j \in Nat : HeldIn(j, stored', firing', inline') => Held(j) \/ j = k
         /\ \A c \in Cells : k \notin ToSet(stored[c]) /\ IsInjective(stored[c]) =>
              IsInjective(stored'[c])
<1> DEFINE w == Watched(k)
<1>1. /\ stored \in [Cells -> Seq(Nat)]
      /\ \A j \in Nat : j # None
      /\ inline \in Nat \cup {None}
  BY NoneNoIteration DEF IInv, TypeOK
<1>2. \A j : Watched(j)' = Watched(j)
  BY SameCall
<1>3. Where
  BY DEF IInv
<1>4. CASE outcome[w] = "pending"
  <2>1. stored' = [stored EXCEPT ![w] = Append(@, k)] /\ inline' = rest
    BY <1>4 DEF continue_with
  <2>2. /\ Append(stored[w], k) \in Seq(Nat)
        /\ ToSet(Append(stored[w], k)) = ToSet(stored[w]) \cup {k}
        /\ IsInjective(stored[w]) /\ k \notin ToSet(stored[w]) => IsInjective(Append(stored[w], k))
    BY <1>1, AppendNew
  <2> DEFINE s == Append(stored[w], k)
  <2> HIDE DEF s
  <2>3. stored' = [stored EXCEPT ![w] = s]
    BY <2>1 DEF s
  <2>4. /\ stored' \in [Cells -> Seq(Nat)] /\ stored'[w] = s
        /\ \A c \in Cells : c # w => stored'[c] = stored[c]
    BY <1>1, <2>2, <2>3 DEF s
  <2>5. ToSet(s) = ToSet(stored[w]) \cup {k}
    BY <2>2 DEF s
  <2>6. \A c \in Cells : k \notin ToSet(stored[c]) /\ IsInjective(stored[c]) => IsInjective(stored'[c])
    BY <2>2, <2>4 DEF s
  <2> HIDE DEF w
  <2>7. /\ \A c \in Cells : ToSet(stored[c]) \subseteq ToSet(stored'[c])
        /\ k \in ToSet(stored'[w]) /\ w \in Cells
    BY <2>4, <2>5 DEF w
  <2>8. Where'
    <3>1. ASSUME NEW c \in Cells, NEW j \in ToSet(stored'[c])
          PROVE  Watched(j) = c /\ outcome[c] = "pending"
      <4>1. CASE j \in ToSet(stored[c])
        BY <4>1, <1>3 DEF Where
      <4>2. CASE j \notin ToSet(stored[c])
        <5>1. c = w /\ j = k
          BY <2>4, <2>5, <3>1, <4>2
        <5> QED
          BY <5>1, <1>4 DEF w
      <4> QED
        BY <4>1, <4>2
    <3>2. ASSUME NEW c \in Cells, NEW j \in ToSet(left[c])
          PROVE  Watched(j) = c /\ outcome[c] # "pending"
      BY <3>2, <1>3 DEF Where
    <3>3. rest # None => Watched(rest) \in Cells /\ outcome[Watched(rest)] # "pending"
      BY <1>3 DEF Where
    <3> QED
      BY <3>1, <3>2, <3>3, <1>2, <2>1 DEF Where
  <2>9. \A j \in Nat : HeldIn(j, stored', firing', inline') => Held(j) \/ j = k
    <3>1. ASSUME NEW j \in Nat, NEW c \in Cells, j \in ToSet(stored'[c])
          PROVE  Held(j) \/ j = k
      BY <3>1, <2>4, <2>5 DEF Held, HeldIn
    <3>2. ASSUME NEW j \in Nat, NEW c \in Cells, j \in ToSet(left[c])
          PROVE  Held(j)
      BY <3>2 DEF Held, HeldIn
    <3>3. ASSUME NEW j \in Nat, rest = j PROVE Held(j)
      BY <1>1, <3>3 DEF Held, HeldIn
    <3> QED
      BY <2>1, <3>1, <3>2, <3>3 DEF HeldIn
  <2> QED
    BY <2>1, <2>4, <2>6, <2>7, <2>8, <2>9 DEF HeldIn
<1>5. CASE outcome[w] # "pending"
  <2>1. inline' = k /\ stored' = stored
    BY <1>5 DEF continue_with
  <2>2. Where'
    <3>1. ASSUME NEW c \in Cells, NEW j \in ToSet(left[c])
          PROVE  Watched(j) = c /\ outcome[c] # "pending"
      BY <3>1, <1>3 DEF Where
    <3> QED
      BY <3>1, <1>2, <1>3, <1>5, <2>1 DEF Where
  <2> QED
    BY <1>1, <2>1, <2>2 DEF Held, HeldIn
<1> QED
  BY <1>4, <1>5

\* Every step is one of a call.
LEMMA CallKinds == ASSUME IInv PROVE IsWhenAll \/ call = "when_any" \/ call = "unwrap"
<1>1. Calls \subseteq {"when_all", "when_all tuple", "when_any", "unwrap"}
  BY CombinatorsConstants, Zenon
<1> QED
  BY <1>1 DEF IInv, TypeOK, IsWhenAll

------------------------------------------------------------------------------
(* The actions. *)

\* The iteration that looks at a future with a state leaves its continuation.
LEMMA RegisterIInv == ASSUME IInv, Register PROVE IInv'
<1>1. /\ i < Iterations /\ inline = None /\ Watched(i) # Invalid
      /\ continue_with(i, None) /\ i' = i + 1
      /\ UNCHANGED <<call, fs, outcome, firing, counter, result, vector>>
  BY DEF Register, Looking
<1>2. i \in Nat /\ counter \in Nat /\ firing \in [Cells -> Seq(Nat)] /\ i # None
  BY NoneNoIteration DEF IInv, TypeOK
<1>3. Watched(i) \in Cells
  BY <1>1, <1>2, CallKinds, WatchedLooking
<1>4. /\ stored' \in [Cells -> Seq(Nat)] /\ inline' \in {None, i} /\ Where'
      /\ \A c \in Cells : ToSet(stored[c]) \subseteq ToSet(stored'[c])
      /\ HeldIn(i, stored', firing', inline')
      /\ \A j \in Nat : HeldIn(j, stored', firing', inline') => Held(j) \/ j = i
      /\ \A c \in Cells : i \notin ToSet(stored[c]) /\ IsInjective(stored[c]) =>
           IsInjective(stored'[c])
  BY <1>1, <1>2, <1>3, ContinueWith
<1>5. /\ Iterations' = Iterations /\ Deccers' = Deccers /\ IsWhenAll' = IsWhenAll
      /\ \A k : Watched(k)' = Watched(k)
  BY <1>1, SameCall
<1>6. TypeOK'
  BY <1>1, <1>2, <1>4 DEF IInv, TypeOK
<1>7. ASSUME IsWhenAll PROVE Once' /\ Looked' /\ Elements' /\ Count'
  <2>1. Once /\ Looked /\ Elements /\ Count
    BY <1>7 DEF IInv, AllOf
  <2>2. ~Held(i)
    BY <1>2, <2>1 DEF Once
  <2>3. \A j \in Nat : HeldIn(j, stored', firing', inline') <=> Held(j) \/ j = i
    <3>1. ASSUME NEW j \in Nat, Held(j) PROVE HeldIn(j, stored', firing', inline')
      BY <1>1, <1>4, <3>1, NoneNoIteration DEF Held, HeldIn
    <3> QED
      BY <1>4, <3>1
  <2>4. Once'
    <3>1. i' <= Iterations
      <4>1. Iterations \in Nat
        BY IterationsNat
      <4> QED
        BY <1>1, <1>2, <4>1
    <3>2. ASSUME NEW c \in Cells
          PROVE  IsInjective(stored'[c]) /\ IsInjective(firing[c]) /\ inline' \notin ToSet(firing[c])
      <4>1. i \notin ToSet(stored[c]) /\ i \notin ToSet(firing[c])
        BY <2>2 DEF Held, HeldIn
      <4>2. None \notin ToSet(firing[c])
        BY IterationsHeld, NoneNoIteration
      <4> QED
        BY <1>4, <2>1, <4>1, <4>2 DEF Once
    <3>3. \A j \in Nat : HeldIn(j, stored', firing', inline') => j < i'
      BY <1>1, <1>2, <2>1, <2>3 DEF Once
    <3> QED
      BY <1>1, <1>5, <3>1, <3>2, <3>3 DEF Once, Held
  <2>5. Looked'
    <3>1. ASSUME NEW j \in Nat, j < i + 1, ~HeldIn(j, stored', firing', inline')
          PROVE  Watched(j) = Invalid \/ outcome[Watched(j)] # "pending"
      <4>1. j < i /\ ~Held(j)
        BY <1>2, <2>3, <3>1
      <4> QED
        BY <2>1, <4>1 DEF Looked
    <3> QED
      BY <1>1, <1>5, <3>1 DEF Looked, Held
  <2>6. Elements'
    <3>1. Positions \subseteq Nat
      BY NPositive DEF Positions
    <3>2. ASSUME NEW p \in Positions
          PROVE  p >= i \/ Held(p) <=> p >= i' \/ HeldIn(p, stored', firing', inline')
      BY <1>1, <1>2, <2>3, <3>1
    <3> QED
      BY <1>1, <2>1, <3>2 DEF Elements, Held
  <2>7. Count'
    <3>1. ASSUME NEW k \in Deccers
          PROVE  k >= i \/ Held(k) <=> k >= i' \/ HeldIn(k, stored', firing', inline')
      BY <1>1, <1>2, <2>3, DeccersCount
    <3>2. Outstanding' = Outstanding
      BY <1>5, <3>1 DEF Outstanding, Held
    <3> QED
      BY <1>1, <2>1, <3>2 DEF Count
  <2> QED
    BY <2>4, <2>5, <2>6, <2>7
<1>8. AnyOf'
  BY <1>1, OutcomeKept
<1>9. Unwrapped'
  <2>1. ASSUME call = "unwrap" PROVE HeldIn(1, stored', firing', inline') => Held(1)
    <3>1. Iterations = 1
      BY <2>1 DEF Iterations
    <3> QED
      BY <1>1, <1>2, <1>4, <3>1
  <2> QED
    BY <1>1, <2>1, OutcomeKept DEF Unwrapped
<1> QED
  BY <1>4, <1>5, <1>6, <1>7, <1>8, <1>9 DEF IInv, AllOf

\* The number before a number.
LEMMA Predecessor ==
  \A m, n \in Nat : m = n + 1 => m # 0 /\ (n # 0 <=> m # 1)
OBVIOUS

\* dec counts down one of the iterations that had not called it; the promise is
\* set, and set once, with the last of them.
LEMMA DecCount ==
  ASSUME IInv, IsWhenAll, dec, NEW k \in Outstanding, Outstanding' = Outstanding \ {k}
  PROVE  Count' /\ counter' \in Nat
<1>1. Count
  BY DEF IInv, AllOf
<1>2. IsFiniteSet(Outstanding)
  BY DeccersCount, FS_Subset DEF Outstanding
<1>3. /\ Cardinality(Outstanding \ {k}) = Cardinality(Outstanding) - 1
      /\ Cardinality(Outstanding \ {k}) \in Nat /\ Cardinality(Outstanding) \in Nat
  BY <1>2, FS_RemoveElement, FS_CardinalityType
<1>4. counter = Cardinality(Outstanding) /\ counter' = Cardinality(Outstanding')
  BY <1>1, <1>3 DEF Count, dec
<1>5. counter \in Nat /\ counter' \in Nat /\ counter = counter' + 1
  BY <1>3, <1>4
<1>6. result = None
  <2>1. counter # 0
    BY <1>5, Predecessor, Zenon
  <2> QED
    BY <1>1, <2>1 DEF Count
<1>7. result' = IF counter # 1 THEN result ELSE IF result = None THEN "ready" ELSE "broken"
  BY DEF dec
<1>8. counter' # 0 <=> counter # 1
  BY <1>5, Predecessor, Zenon
<1>9. (counter' # 0 => result' = None) /\ (counter' = 0 => result' = "ready")
  BY <1>6, <1>7, <1>8
<1> QED
  BY <1>4, <1>5, <1>9 DEF Count

\* The iteration that looks at a future without a state.
LEMMA RegisterInvalidIInv == ASSUME IInv, RegisterInvalid PROVE IInv'
<1>0. i < Iterations /\ i' = i + 1 /\ i \in Nat /\ N \in Nat /\ N > 0
  BY NPositive, Zenon DEF RegisterInvalid, Looking, IInv, TypeOK
<1>1. /\ Watched(i) = Invalid
      /\ call = "when_all" => dec
      /\ call # "when_all" => UNCHANGED <<counter, result>>
      /\ call = "when_all tuple" => outcome' = [outcome EXCEPT ![i] = "value"]
      /\ call # "when_all tuple" => UNCHANGED outcome
      /\ UNCHANGED <<call, fs, stored, firing, inline>>
  BY Zenon DEF RegisterInvalid, Looking
<1>2. counter \in Nat /\ outcome \in [Cells -> {"pending", "value", "exception"}]
  BY DEF IInv, TypeOK
<1>3. /\ Iterations' = Iterations /\ Deccers' = Deccers /\ IsWhenAll' = IsWhenAll
      /\ \A k : Watched(k)' = Watched(k) /\ Held(k)' = Held(k)
  BY <1>1, SameCall DEF Held, HeldIn
<1>4. Watched(i) \notin Cells /\ (call = "when_all tuple" => i < N)
  <2>1. Watched(i) = Invalid => Watched(i) \notin Cells
    BY <1>0, CallKinds, WatchedLooking
  <2>2. call = "when_all tuple" /\ i >= N => Watched(i) \in Positions
    BY <1>0, CallKinds, WatchedLooking
  <2>3. i >= N \/ i < N
    BY <1>0
  <2> QED
    BY <1>1, <2>1, <2>2, <2>3 DEF Cells
<1>5. IsWhenAll => Once /\ Looked /\ Elements /\ Count
  BY DEF IInv, AllOf
<1>6. ASSUME call = "when_all tuple"
      PROVE  /\ i \in Positions /\ i \in Cells /\ outcome[i] = "pending" /\ outcome'[i] = "value"
             /\ outcome' \in [Cells -> {"pending", "value", "exception"}]
             /\ \A c \in Cells : c # i => outcome'[c] = outcome[c]
             /\ \A k \in Nat : Held(k) => Watched(k) # i
  <2>1. i \in Positions /\ i \in Cells
    <3>1. i < N
      BY <1>4, <1>6
    <3>2. i \in 0..N - 1
      BY <1>0, <3>1
    <3> QED
      BY <3>2 DEF Positions, Cells
  <2>2. outcome[i] = "pending"
    <3>1. i >= i
      BY <1>0
    <3> QED
      BY <1>5, <1>6, <2>1, <3>1 DEF Elements, IsWhenAll
  <2>3. ASSUME NEW k \in Nat, Held(k), Watched(k) = i PROVE FALSE
    <3>1. k < i
      BY <1>5, <1>6, <2>3 DEF Once, IsWhenAll
    <3>a. i < N
      BY <1>4, <1>6
    <3>2. ~(k >= N) /\ k \in Positions
      BY <1>0, <3>1, <3>a DEF Positions
    <3>3. Watched(k) = fs[k]
      BY <1>6, <3>2 DEF Watched
    <3>4. fs[k] \in Futures \cup {Invalid}
      BY <3>2 DEF IInv, TypeOK
    <3>5. Invalid \notin Positions /\ Futures \cap Positions = {}
      BY CombinatorsConstants, Zenon
    <3> QED
      BY <2>1, <2>3, <3>3, <3>4, <3>5
  <2> QED
    BY <1>1, <1>2, <1>6, <2>1, <2>2, <2>3
<1>7. \A c \in Cells :
        (\E k \in Nat : Held(k) /\ Watched(k) = c) => outcome'[c] = outcome[c]
  BY <1>1, <1>6
<1>8. \A c \in Cells : outcome[c] # "pending" => outcome'[c] = outcome[c]
  BY <1>1, <1>6
<1>9. outcome' \in [Cells -> {"pending", "value", "exception"}]
  BY <1>1, <1>2, <1>6
<1>10. Where'
  <2>1. \A c \in Cells : \A k \in ToSet(stored[c]) \cup ToSet(firing[c]) :
          Held(k) /\ k \in Nat
    BY IterationsHeld DEF Held, HeldIn
  <2>2. Where
    BY DEF IInv
  <2>3. ASSUME NEW c \in Cells, NEW k \in ToSet(stored[c])
        PROVE  Watched(k) = c /\ outcome'[c] = "pending"
    BY <1>7, <2>1, <2>2, <2>3 DEF Where
  <2>4. ASSUME NEW c \in Cells, NEW k \in ToSet(firing[c])
        PROVE  Watched(k) = c /\ outcome'[c] # "pending"
    BY <1>7, <2>1, <2>2, <2>4 DEF Where
  <2>5. inline # None => Watched(inline) \in Cells /\ outcome'[Watched(inline)] # "pending"
    BY <1>8, <2>2 DEF Where
  <2> QED
    BY <1>1, <1>3, <2>3, <2>4, <2>5 DEF Where
<1>11. ASSUME IsWhenAll PROVE Once' /\ Looked' /\ Elements' /\ Count' /\ counter' \in Nat
  <2>1. ~Held(i)
    <3>1. ~(i < i)
      BY <1>0
    <3> QED
      BY <1>0, <1>5, <1>11, <3>1 DEF Once
  <2>2. Once'
    <3>1. i' <= Iterations
      BY <1>0, IterationsNat
    <3>2. \A j \in Nat : Held(j) => j < i'
      <4>1. \A j \in Nat : Held(j) => j < i
        BY <1>5, <1>11 DEF Once
      <4> QED
        BY <1>0, <4>1
    <3> QED
      BY <1>1, <1>3, <1>5, <1>11, <3>1, <3>2 DEF Once
  <2>3. Looked'
    <3>1. ASSUME NEW j \in Nat, j < i + 1, ~Held(j)
          PROVE  Watched(j) = Invalid \/ outcome'[Watched(j)] # "pending"
      <4>1. CASE j = i
        BY <4>1, <1>1
      <4>2. CASE j # i
        <5>1. j < i
          BY <1>0, <3>1, <4>2
        <5>2. Watched(j) = Invalid \/ outcome[Watched(j)] # "pending"
          BY <1>5, <1>11, <3>1, <5>1 DEF Looked
        <5>3. j < Iterations
          BY <1>0, <5>1, IterationsNat
        <5>4. Watched(j) \in Cells \cup {Invalid}
          BY <5>3, CallKinds, WatchedLooking
        <5> QED
          BY <1>8, <5>2, <5>4
      <4> QED
        BY <4>1, <4>2
    <3> QED
      BY <1>0, <1>1, <1>3, <3>1 DEF Looked
  <2>4. Elements'
    <3>1. Positions \subseteq Nat /\ Positions \subseteq Cells
      BY NPositive DEF Positions, Cells
    <3>2. ASSUME NEW p \in Positions, call = "when_all tuple"
          PROVE  outcome'[p] = "pending" <=> p >= i' \/ Held(p)
      <4>1. CASE p = i
        <5>1. ~(i >= i')
          BY <1>0
        <5> QED
          BY <1>6, <2>1, <3>2, <4>1, <5>1
      <4>2. CASE p # i
        <5>1. p >= i' <=> p >= i
          BY <1>0, <3>1, <4>2
        <5>2. outcome'[p] = outcome[p]
          BY <1>6, <3>1, <3>2, <4>2
        <5> QED
          BY <1>5, <1>11, <3>2, <5>1, <5>2 DEF Elements
      <4> QED
        BY <4>1, <4>2
    <3> QED
      BY <1>1, <1>3, <3>2 DEF Elements
  <2>5. Outstanding' = Outstanding \ {i}
    <3>1. ASSUME NEW k \in Deccers
          PROVE  k >= i' \/ Held(k) <=> (k >= i \/ Held(k)) /\ k # i
      BY <1>0, <2>1, DeccersCount
    <3> QED
      BY <1>3, <3>1 DEF Outstanding
  <2>6. CASE call = "when_all"
    <3>1. i \in Outstanding
      <4>1. i < N
        <5>1. Iterations = N
          BY <2>6 DEF Iterations
        <5> QED
          BY <1>0, <5>1
      <4>2. i \in 0..N - 1 /\ i >= i
        BY <1>0, <4>1
      <4> QED
        BY <2>6, <4>2 DEF Outstanding, Deccers
    <3> QED
      BY <1>1, <1>11, <2>2, <2>3, <2>4, <2>5, <2>6, <3>1, DecCount
  <2>7. CASE call = "when_all tuple"
    <3>1. i \notin Outstanding
      <4>1. Deccers = N..2 * N - 1
        BY <2>7 DEF Deccers
      <4>2. i < N
        BY <1>4, <2>7
      <4>3. i \notin N..2 * N - 1
        BY <1>0, <4>2
      <4> QED
        BY <4>1, <4>3 DEF Outstanding
    <3>2. Outstanding' = Outstanding
      BY <2>5, <3>1
    <3>3. Count'
      BY <1>1, <1>5, <1>11, <2>7, <3>2 DEF Count
    <3> QED
      BY <1>1, <1>2, <2>2, <2>3, <2>4, <2>7, <3>3
  <2> QED
    BY <1>11, <2>6, <2>7 DEF IsWhenAll
<1>12. TypeOK'
  <2>1. counter' \in Nat /\ i' \in Nat
    <3>1. call = "when_all" => IsWhenAll
      BY DEF IsWhenAll
    <3>2. counter' \in Nat
      BY <1>1, <1>2, <1>11, <3>1
    <3> QED
      BY <1>0, <3>2
  <2> QED
    BY <1>1, <1>9, <2>1 DEF IInv, TypeOK
<1>13. AnyOf'
  BY <1>1, <1>8, OutcomeKept DEF AnyOf
<1>14. Unwrapped'
  <2>1. HeldIn(1, stored', firing', inline') => Held(1)
    BY <1>1 DEF Held, HeldIn
  <2> QED
    BY <1>1, <1>8, <2>1, OutcomeKept DEF Unwrapped
<1> QED
  BY <1>3, <1>10, <1>11, <1>12, <1>13, <1>14 DEF IInv, AllOf

\* A continuation that leaves the futures as they are keeps what is said of the
\* places of the others.
LEMMA RunPlaces ==
  ASSUME IInv, NEW k, NEW rest, NEW left, Taken(k, rest, left),
         inline' = rest, firing' = left, UNCHANGED <<call, fs, i, outcome, stored>>
  PROVE  /\ Where'
         /\ counter' \in Nat => TypeOK'
         /\ IsWhenAll => Once' /\ Looked'
         /\ IsWhenAll /\ (call = "when_all tuple" => k \notin Positions) => Elements'
         /\ IsWhenAll => Outstanding' = Outstanding \ {k}
<1>1. /\ k \in Nat /\ Held(k) /\ outcome[Watched(k)] # "pending"
      /\ rest \in {None, inline} /\ left \in [Cells -> Seq(Nat)]
      /\ \A c \in Cells : ToSet(left[c]) \subseteq ToSet(firing[c])
      /\ IsWhenAll => \A c \in Cells : IsInjective(left[c]) /\ rest \notin ToSet(left[c])
      /\ IsWhenAll => \A j \in Nat : HeldIn(j, stored, left, rest) <=> Held(j) /\ j # k
  BY DEF Taken
<1>2. /\ Iterations' = Iterations /\ Deccers' = Deccers /\ IsWhenAll' = IsWhenAll
      /\ \A j : Watched(j)' = Watched(j)
  BY SameCall
<1>3. Where'
  <2>1. Where
    BY DEF IInv
  <2>2. ASSUME NEW c \in Cells, NEW j \in ToSet(left[c])
        PROVE  Watched(j) = c /\ outcome[c] # "pending"
    BY <1>1, <2>1, <2>2 DEF Where
  <2>3. rest # None => Watched(rest) \in Cells /\ outcome[Watched(rest)] # "pending"
    BY <1>1, <2>1 DEF Where
  <2> QED
    BY <1>2, <2>1, <2>2, <2>3 DEF Where
<1>4. counter' \in Nat => TypeOK'
  BY <1>1 DEF IInv, TypeOK
<1>5. IsWhenAll => Once /\ Looked /\ Elements
  BY DEF IInv, AllOf
<1>6. IsWhenAll => Once'
  BY <1>1, <1>2, <1>5 DEF Once, Held
<1>7. IsWhenAll => Looked'
  BY <1>1, <1>2, <1>5 DEF Looked, Held
<1>8. IsWhenAll /\ (call = "when_all tuple" => k \notin Positions) => Elements'
  <2>1. Positions \subseteq Nat
    BY NPositive DEF Positions
  <2> QED
    BY <1>1, <1>5, <2>1 DEF Elements, Held
<1>9. IsWhenAll => Outstanding' = Outstanding \ {k}
  <2>1. SUFFICES ASSUME IsWhenAll PROVE Outstanding' = Outstanding \ {k}
    OBVIOUS
  <2>2. k < i /\ ~(k >= i)
    <3>1. k < i
      BY <1>1, <1>5, <2>1 DEF Once
    <3>2. k \in Nat /\ i \in Nat
      BY <1>1 DEF IInv, TypeOK
    <3> QED
      BY <3>1, <3>2
  <2>3. ASSUME NEW j \in Deccers
        PROVE  j >= i \/ HeldIn(j, stored', firing', inline') <=> (j >= i \/ Held(j)) /\ j # k
    BY <1>1, <2>1, <2>2, DeccersCount
  <2> QED
    BY <1>2, <2>3 DEF Outstanding, Held
<1> QED
  BY <1>3, <1>4, <1>6, <1>7, <1>8, <1>9

\* A continuation of when_all_ready.
LEMMA RunDecIInv ==
  ASSUME IInv, NEW k, NEW rest, NEW left, Taken(k, rest, left),
         RunDec(k, rest, left), UNCHANGED <<call, fs, i, at_least_one_valid, vector>>
  PROVE  IInv'
<1>1. /\ call = "when_all" \/ (call = "when_all tuple" /\ k >= N)
      /\ dec /\ inline' = rest /\ firing' = left /\ UNCHANGED <<outcome, stored>>
  BY DEF RunDec
<1>2. IsWhenAll /\ IsWhenAll' /\ call # "when_any" /\ call # "unwrap"
  BY <1>1 DEF IsWhenAll
<1>3. call = "when_all tuple" => k >= N /\ k \notin Positions
  <2>1. k \in Nat /\ N \in Nat
    BY NPositive DEF Taken
  <2>2. k >= N => k \notin 0..N - 1
    BY <2>1
  <2> QED
    BY <1>1, <2>2 DEF Positions
<1>4. /\ Where' /\ (counter' \in Nat => TypeOK') /\ Once' /\ Looked' /\ Elements'
      /\ Outstanding' = Outstanding \ {k}
  BY <1>1, <1>2, <1>3, RunPlaces
<1>5. k \in Outstanding
  <2>1. k \in Nat /\ Held(k) /\ N \in Nat
    BY NPositive DEF Taken
  <2>2. k < Iterations
    <3>1. k < i /\ i <= Iterations
      BY <1>2, <2>1 DEF IInv, AllOf, Once
    <3>2. i \in Nat
      BY DEF IInv, TypeOK
    <3> QED
      BY <2>1, <3>1, <3>2, IterationsNat
  <2>3. CASE call = "when_all"
    <3>1. Iterations = N /\ Deccers = 0..N - 1
      BY <2>3 DEF Iterations, Deccers
    <3>2. k \in 0..N - 1
      BY <2>1, <2>2, <3>1
    <3> QED
      BY <2>1, <3>1, <3>2 DEF Outstanding
  <2>4. CASE call = "when_all tuple"
    <3>1. Iterations = 2 * N /\ Deccers = N..2 * N - 1
      BY <2>4 DEF Iterations, Deccers
    <3>2. k >= N
      BY <1>3, <2>4
    <3>3. k \in N..2 * N - 1
      BY <2>1, <2>2, <3>1, <3>2
    <3> QED
      BY <2>1, <3>1, <3>3 DEF Outstanding
  <2> QED
    BY <1>1, <2>3, <2>4
<1>6. Count' /\ counter' \in Nat
  BY <1>1, <1>2, <1>4, <1>5, DecCount
<1> QED
  BY <1>2, <1>4, <1>6 DEF IInv, AllOf, AnyOf, Unwrapped

\* The continuation that when_any_ready left.
LEMMA RunAnswerIInv ==
  ASSUME IInv, NEW k, NEW rest, NEW left, Taken(k, rest, left),
         RunAnswer(k, rest, left), UNCHANGED <<call, fs, i, at_least_one_valid, vector>>
  PROVE  IInv'
<1>1. /\ call = "when_any" /\ inline' = rest /\ firing' = left
      /\ UNCHANGED <<outcome, stored, counter>>
  BY DEF RunAnswer
<1>2. ~IsWhenAll' /\ call' # "unwrap"
  BY <1>1 DEF IsWhenAll
<1>3. counter' \in Nat
  BY <1>1 DEF IInv, TypeOK
<1>4. Where' /\ TypeOK'
  BY <1>1, <1>3, RunPlaces
<1>5. Watched(k) = fs[0] /\ Watched(k) \in Cells /\ outcome[Watched(k)] # "pending"
  BY <1>1 DEF Watched, Taken
<1>6. AnyOf'
  BY <1>1, <1>5 DEF AnyOf
<1> QED
  BY <1>2, <1>4, <1>6 DEF IInv, AllOf, Unwrapped

\* The outer future of unwrap holds an exception.
LEMMA RunOuterThrowsIInv ==
  ASSUME IInv, NEW k, NEW rest, NEW left, Taken(k, rest, left),
         RunOuterThrows(k, rest, left), UNCHANGED <<call, fs, i, at_least_one_valid, vector>>
  PROVE  IInv'
<1>1. /\ call = "unwrap" /\ inline' = rest /\ firing' = left
      /\ UNCHANGED <<outcome, stored, counter, result>>
  BY DEF RunOuterThrows
<1>2. ~IsWhenAll' /\ call' # "when_any"
  BY <1>1 DEF IsWhenAll
<1>3. counter' \in Nat
  BY <1>1 DEF IInv, TypeOK
<1>4. Where' /\ TypeOK'
  BY <1>1, <1>3, RunPlaces
<1>5. HeldIn(1, stored', firing', inline') => Held(1)
  BY <1>1 DEF Taken
<1>6. Unwrapped'
  BY <1>1, <1>5, OutcomeKept
<1> QED
  BY <1>2, <1>4, <1>6 DEF IInv, AllOf, AnyOf

\* The inner future is complete, and its outcome is passed on.
LEMMA RunInnerIInv ==
  ASSUME IInv, NEW k, NEW rest, NEW left, Taken(k, rest, left),
         RunInner(k, rest, left), UNCHANGED <<call, fs, i, at_least_one_valid, vector>>
  PROVE  IInv'
<1>1. /\ call = "unwrap" /\ k = 1 /\ inline' = rest /\ firing' = left
      /\ result' = outcome[fs[1]] /\ UNCHANGED <<outcome, stored, counter>>
  BY DEF RunInner
<1>2. ~IsWhenAll' /\ call' # "when_any"
  BY <1>1 DEF IsWhenAll
<1>3. counter' \in Nat
  BY <1>1 DEF IInv, TypeOK
<1>4. Where' /\ TypeOK'
  BY <1>1, <1>3, RunPlaces
<1>5. Watched(1) \in Cells /\ Held(1) /\ (HeldIn(1, stored', firing', inline') => Held(1))
  BY <1>1 DEF Taken
<1>6. Watched(1) = fs[1]
  <2>1. "unwrap" \in Calls
    BY <1>1 DEF IInv, TypeOK
  <2>2. N \in Nat /\ N > 1
    BY <2>1, NPositive, CombinatorsConstants, Zenon
  <2>3. ~(1 >= N)
    BY <2>2
  <2> QED
    BY <1>1, <2>3 DEF Watched
<1>7. fs[0] \in Cells /\ outcome[fs[0]] = "value"
  BY <1>1, <1>5 DEF IInv, Unwrapped
<1>8. Unwrapped'
  BY <1>1, <1>5, <1>6, <1>7 DEF Unwrapped, Held
<1> QED
  BY <1>2, <1>4, <1>8 DEF IInv, AllOf, AnyOf

\* The outer future of unwrap has a value: the inner one is looked at.
LEMMA RunOuterIInv ==
  ASSUME IInv, NEW k, NEW rest, NEW left, Taken(k, rest, left),
         RunOuter(k, rest, left), UNCHANGED <<call, fs, i, at_least_one_valid, vector>>
  PROVE  IInv'
<1>1. /\ call = "unwrap" /\ outcome[fs[0]] = "value" /\ firing' = left
      /\ UNCHANGED <<outcome, counter>>
  BY DEF RunOuter
<1>2. ~IsWhenAll' /\ call' # "when_any"
  BY <1>1 DEF IsWhenAll
<1>3. /\ left \in [Cells -> Seq(Nat)] /\ rest \in {None, inline}
      /\ \A c \in Cells : ToSet(left[c]) \subseteq ToSet(firing[c])
  BY DEF Taken
<1>4. fs[0] \in Cells
  BY <1>1 DEF IInv, Unwrapped
<1>5. CASE fs[1] = Invalid
  <2>1. result' = "crashed" /\ inline' = rest /\ UNCHANGED stored
    BY <1>5 DEF RunOuter
  <2>2. counter' \in Nat
    BY <1>1 DEF IInv, TypeOK
  <2>3. Where' /\ TypeOK'
    BY <1>1, <2>1, <2>2, RunPlaces
  <2>4. Unwrapped'
    BY <1>1, <1>4, <2>1 DEF Unwrapped
  <2> QED
    BY <1>2, <2>3, <2>4 DEF IInv, AllOf, AnyOf
<1>6. CASE fs[1] # Invalid
  <2>1. continue_with(1, rest) /\ UNCHANGED result
    BY <1>6 DEF RunOuter
  <2>2. Watched(1) = fs[1] /\ fs[1] \in Cells
    <3>1. "unwrap" \in Calls
      BY <1>1 DEF IInv, TypeOK
    <3>2. N \in Nat /\ N > 1
      BY <3>1, NPositive, CombinatorsConstants, Zenon
    <3>3. ~(1 >= N) /\ 1 \in 0..N - 1
      BY <3>2
    <3>4. fs[1] \in Futures
      BY <1>6, <3>3 DEF IInv, TypeOK, Positions
    <3> QED
      BY <1>1, <3>3, <3>4 DEF Watched, Cells
  <2>3. /\ stored' \in [Cells -> Seq(Nat)] /\ inline' \in {rest, 1} /\ Where'
    BY <1>1, <1>3, <2>1, <2>2, ContinueWith
  <2>4. TypeOK'
    BY <1>1, <1>3, <2>3 DEF IInv, TypeOK
  <2>5. Unwrapped'
    BY <1>1, <1>4, <2>1 DEF IInv, Unwrapped
  <2> QED
    BY <1>2, <2>3, <2>4, <2>5 DEF IInv, AllOf, AnyOf
<1> QED
  BY <1>5, <1>6

\* A future made for an element of a tuple completes: what it held is to run.
LEMMA RunElementIInv ==
  ASSUME IInv, NEW k, NEW rest, NEW left, Taken(k, rest, left),
         RunElement(k, rest, left), UNCHANGED <<call, fs, i, at_least_one_valid, vector>>
  PROVE  IInv'
<1>1. /\ call = "when_all tuple" /\ inline' = rest /\ k < N
      /\ outcome' = [outcome EXCEPT ![k] = "value"]
      /\ stored' = [stored EXCEPT ![k] = <<>>]
      /\ firing' = [left EXCEPT ![k] = stored[k]]
      /\ UNCHANGED <<counter, result>>
  BY DEF RunElement
<1>2. /\ k \in Nat /\ Held(k) /\ outcome[Watched(k)] # "pending"
      /\ rest \in {None, inline} /\ left \in [Cells -> Seq(Nat)]
      /\ \A c \in Cells : ToSet(left[c]) \subseteq ToSet(firing[c])
  BY DEF Taken
<1>3. IsWhenAll /\ IsWhenAll' /\ call' # "when_any" /\ call' # "unwrap"
  BY <1>1 DEF IsWhenAll
<1>4. /\ \A c \in Cells : IsInjective(left[c]) /\ rest \notin ToSet(left[c])
      /\ \A j \in Nat : HeldIn(j, stored, left, rest) <=> Held(j) /\ j # k
  BY <1>3 DEF Taken
<1>5. Where /\ Once /\ Looked /\ Elements /\ Count
  BY <1>3 DEF IInv, AllOf
<1>6. /\ Iterations' = Iterations /\ Deccers' = Deccers
      /\ \A j : Watched(j)' = Watched(j)
  BY SameCall
<1>7. /\ k \in Positions /\ k \in Cells
      /\ k \notin N..2 * N - 1
  <2>1. k \in Nat /\ k < N /\ N \in Nat
    BY <1>1, <1>2, NPositive
  <2> QED
    BY <2>1 DEF Positions, Cells
<1>8. outcome[k] = "pending"
  BY <1>1, <1>2, <1>5, <1>7 DEF Elements
<1>9. /\ outcome \in [Cells -> {"pending", "value", "exception"}]
      /\ stored \in [Cells -> Seq(Nat)]
  BY DEF IInv, TypeOK
<1>10. /\ outcome' \in [Cells -> {"pending", "value", "exception"}]
       /\ outcome'[k] = "value" /\ \A c \in Cells : c # k => outcome'[c] = outcome[c]
  BY <1>1, <1>7, <1>9
<1>11. /\ stored' \in [Cells -> Seq(Nat)]
       /\ stored'[k] = <<>> /\ \A c \in Cells : c # k => stored'[c] = stored[c]
  <2>1. <<>> \in Seq(Nat)
    OBVIOUS
  <2> QED
    BY <1>1, <1>7, <1>9, <2>1
<1>12. /\ firing' \in [Cells -> Seq(Nat)]
       /\ firing'[k] = stored[k] /\ \A c \in Cells : c # k => firing'[c] = left[c]
  BY <1>1, <1>2, <1>7, <1>9
<1>13. ToSet(stored'[k]) = {} /\ ToSet(left[k]) = {} /\ IsInjective(stored'[k])
  <2>1. ToSet(firing[k]) = {}
    BY <1>5, <1>7, <1>8 DEF Where
  <2> QED
    BY <1>2, <1>7, <1>11, <2>1, EmptyElements
<1>14. TypeOK'
  BY <1>2, <1>1, <1>10, <1>11, <1>12 DEF IInv, TypeOK
<1>15. Where'
  <2>1. ASSUME NEW c \in Cells, NEW j \in ToSet(stored'[c])
        PROVE  Watched(j) = c /\ outcome'[c] = "pending"
    BY <2>1, <1>5, <1>10, <1>11, <1>13 DEF Where
  <2>2. ASSUME NEW c \in Cells, NEW j \in ToSet(firing'[c])
        PROVE  Watched(j) = c /\ outcome'[c] # "pending"
    <3>1. CASE c = k
      BY <2>2, <3>1, <1>5, <1>10, <1>12 DEF Where
    <3>2. CASE c # k
      BY <2>2, <3>2, <1>2, <1>5, <1>10, <1>12 DEF Where
    <3> QED
      BY <3>1, <3>2
  <2>3. rest # None => Watched(rest) \in Cells /\ outcome'[Watched(rest)] # "pending"
    BY <1>2, <1>5, <1>8, <1>10 DEF Where
  <2> QED
    BY <1>1, <1>6, <2>1, <2>2, <2>3 DEF Where
<1>16. \A j \in Nat : HeldIn(j, stored', firing', inline') <=> Held(j) /\ j # k
  <2>1. \A j : (\E c \in Cells : j \in ToSet(stored'[c]) \/ j \in ToSet(firing'[c])) <=>
               (\E c \in Cells : j \in ToSet(stored[c]) \/ j \in ToSet(left[c]))
    BY <1>7, <1>11, <1>12, <1>13
  <2> QED
    BY <1>1, <1>4, <2>1 DEF HeldIn
<1>17. Once'
  <2>1. ASSUME NEW c \in Cells
        PROVE  /\ IsInjective(stored'[c]) /\ IsInjective(firing'[c])
               /\ rest \notin ToSet(firing'[c])
    <3>1. CASE c = k
      <4>1. rest \notin ToSet(stored[k])
        <5>1. None \notin ToSet(stored[k])
          BY <1>7, IterationsHeld, NoneNoIteration
        <5>2. inline # None => inline \notin ToSet(stored[k])
          BY <1>5, <1>7, <1>8 DEF Where
        <5> QED
          BY <1>2, <5>1, <5>2
      <4> QED
        BY <1>5, <1>7, <1>12, <1>13, <3>1, <4>1 DEF Once
    <3>2. CASE c # k
      BY <1>4, <1>5, <1>11, <1>12, <3>2 DEF Once
    <3> QED
      BY <3>1, <3>2
  <2>2. \A j \in Nat : HeldIn(j, stored', firing', inline') => j < i
    BY <1>5, <1>16 DEF Once
  <2> QED
    BY <1>1, <1>5, <1>6, <2>1, <2>2 DEF Once, Held
<1>18. Looked'
  <2>1. ASSUME NEW j \in Nat, j < i, ~HeldIn(j, stored', firing', inline')
        PROVE  Watched(j) = Invalid \/ outcome'[Watched(j)] # "pending"
    <3>1. Watched(j) \in Cells \cup {Invalid}
      <4>1. j < Iterations
        <5>1. i <= Iterations /\ i \in Nat
          BY <1>5 DEF Once, IInv, TypeOK
        <5> QED
          BY <2>1, <5>1, IterationsNat
      <4> QED
        BY <4>1, CallKinds, WatchedLooking
    <3>2. Watched(j) = Invalid \/ outcome[Watched(j)] # "pending"
      BY <1>2, <1>5, <1>16, <2>1 DEF Looked
    <3> QED
      BY <1>8, <1>10, <3>1, <3>2
  <2> QED
    BY <1>6, <2>1 DEF Looked, Held
<1>19. Elements'
  <2>1. Positions \subseteq Nat /\ Positions \subseteq Cells
    BY NPositive DEF Positions, Cells
  <2>2. ~(k >= i)
    <3>1. k < i
      BY <1>2, <1>5 DEF Once
    <3>2. i \in Nat
      BY DEF IInv, TypeOK
    <3> QED
      BY <1>2, <3>1, <3>2
  <2>3. ASSUME NEW p \in Positions
        PROVE  outcome'[p] = "pending" <=> p >= i \/ HeldIn(p, stored', firing', inline')
    <3>1. CASE p = k
      BY <1>2, <1>10, <1>16, <2>2, <3>1
    <3>2. CASE p # k
      BY <1>1, <1>5, <1>10, <1>16, <2>1, <3>2 DEF Elements
    <3> QED
      BY <3>1, <3>2
  <2> QED
    BY <2>3 DEF Elements, Held
<1>20. Count'
  <2>1. k \notin Deccers
    BY <1>1, <1>7 DEF Deccers
  <2>2. Outstanding' = Outstanding
    BY <1>6, <1>16, <2>1, DeccersCount DEF Outstanding, Held
  <2> QED
    BY <1>1, <1>5, <2>2 DEF Count
<1> QED
  BY <1>3, <1>14, <1>15, <1>17, <1>18, <1>19, <1>20 DEF IInv, AllOf, AnyOf, Unwrapped

\* Whatever a thread has taken to run.
LEMMA RunIInv ==
  ASSUME IInv, NEW k, NEW rest, NEW left, Taken(k, rest, left), Run(k, rest, left)
  PROVE  IInv'
BY RunDecIInv, RunElementIInv, RunAnswerIInv, RunOuterIInv, RunOuterThrowsIInv, RunInnerIInv
   DEF Run

\* Some thread completes a future: what it held is to run.
LEMMA CompleteIInv == ASSUME IInv, NEW f \in Futures, Complete(f) PROVE IInv'
<1>1. /\ outcome[f] = "pending"
      /\ firing' = [firing EXCEPT ![f] = stored[f]]
      /\ stored' = [stored EXCEPT ![f] = <<>>]
      /\ UNCHANGED <<call, fs, inline, i, counter, result>>
  BY DEF Complete
<1>2. PICK o \in {"value", "exception"} : outcome' = [outcome EXCEPT ![f] = o]
  BY DEF Complete
<1>3. f \in Cells /\ f \notin Positions
  BY CombinatorsConstants, Zenon DEF Cells
<1>4. /\ outcome \in [Cells -> {"pending", "value", "exception"}]
      /\ stored \in [Cells -> Seq(Nat)] /\ firing \in [Cells -> Seq(Nat)]
  BY DEF IInv, TypeOK
<1>5. /\ Iterations' = Iterations /\ Deccers' = Deccers /\ IsWhenAll' = IsWhenAll
      /\ \A j : Watched(j)' = Watched(j)
  BY <1>1, SameCall
<1>6. Where
  BY DEF IInv
<1>7. /\ outcome' \in [Cells -> {"pending", "value", "exception"}]
      /\ outcome'[f] # "pending" /\ \A c \in Cells : c # f => outcome'[c] = outcome[c]
  BY <1>2, <1>3, <1>4
<1>8. /\ stored' \in [Cells -> Seq(Nat)]
      /\ stored'[f] = <<>> /\ \A c \in Cells : c # f => stored'[c] = stored[c]
  <2>1. <<>> \in Seq(Nat)
    OBVIOUS
  <2> QED
    BY <1>1, <1>3, <1>4, <2>1
<1>9. /\ firing' \in [Cells -> Seq(Nat)]
      /\ firing'[f] = stored[f] /\ \A c \in Cells : c # f => firing'[c] = firing[c]
  BY <1>1, <1>3, <1>4
<1>10. ToSet(stored'[f]) = {} /\ ToSet(firing[f]) = {} /\ IsInjective(stored'[f])
  <2>1. ToSet(firing[f]) = {}
    BY <1>1, <1>3, <1>6 DEF Where
  <2> QED
    BY <1>8, <2>1, EmptyElements
<1>11. TypeOK'
  BY <1>1, <1>7, <1>8, <1>9 DEF IInv, TypeOK
<1>12. \A c \in Cells : outcome[c] # "pending" => outcome'[c] = outcome[c]
  BY <1>1, <1>7
<1>13. Where'
  <2>1. ASSUME NEW c \in Cells, NEW j \in ToSet(stored'[c])
        PROVE  Watched(j) = c /\ outcome'[c] = "pending"
    BY <2>1, <1>6, <1>7, <1>8, <1>10 DEF Where
  <2>2. ASSUME NEW c \in Cells, NEW j \in ToSet(firing'[c])
        PROVE  Watched(j) = c /\ outcome'[c] # "pending"
    <3>1. CASE c = f
      BY <2>2, <3>1, <1>6, <1>7, <1>9 DEF Where
    <3>2. CASE c # f
      BY <2>2, <3>2, <1>6, <1>7, <1>9 DEF Where
    <3> QED
      BY <3>1, <3>2
  <2>3. inline # None => Watched(inline) \in Cells /\ outcome'[Watched(inline)] # "pending"
    BY <1>6, <1>12 DEF Where
  <2> QED
    BY <1>1, <1>5, <2>1, <2>2, <2>3 DEF Where
<1>14. \A j : HeldIn(j, stored', firing', inline') <=> Held(j)
  <2>1. \A j : (\E c \in Cells : j \in ToSet(stored'[c]) \/ j \in ToSet(firing'[c])) <=>
               (\E c \in Cells : j \in ToSet(stored[c]) \/ j \in ToSet(firing[c]))
    BY <1>3, <1>8, <1>9, <1>10
  <2> QED
    BY <1>1, <2>1 DEF HeldIn, Held
<1>15. ASSUME IsWhenAll PROVE Once' /\ Looked' /\ Elements' /\ Count'
  <2>1. Once /\ Looked /\ Elements /\ Count
    BY <1>15 DEF IInv, AllOf
  <2>2. Once'
    <3>1. ASSUME NEW c \in Cells
          PROVE  /\ IsInjective(stored'[c]) /\ IsInjective(firing'[c])
                 /\ inline \notin ToSet(firing'[c])
      <4>1. inline \notin ToSet(stored[f])
        <5>1. None \notin ToSet(stored[f])
          BY <1>3, IterationsHeld, NoneNoIteration
        <5>2. inline # None => inline \notin ToSet(stored[f])
          BY <1>1, <1>3, <1>6 DEF Where
        <5> QED
          BY <5>1, <5>2
      <4>2. CASE c = f
        BY <1>3, <1>9, <1>10, <2>1, <4>1, <4>2 DEF Once
      <4>3. CASE c # f
        BY <1>8, <1>9, <2>1, <4>3 DEF Once
      <4> QED
        BY <4>2, <4>3
    <3> QED
      BY <1>1, <1>5, <1>14, <2>1, <3>1 DEF Once, Held
  <2>3. Looked'
    <3>1. ASSUME NEW j \in Nat, j < i, ~Held(j)
          PROVE  Watched(j) = Invalid \/ outcome'[Watched(j)] # "pending"
      <4>1. j < Iterations
        <5>1. i <= Iterations /\ i \in Nat
          BY <2>1 DEF Once, IInv, TypeOK
        <5> QED
          BY <3>1, <5>1, IterationsNat
      <4>2. Watched(j) \in Cells \cup {Invalid}
        BY <4>1, CallKinds, WatchedLooking
      <4>3. Watched(j) = Invalid \/ outcome[Watched(j)] # "pending"
        BY <2>1, <3>1 DEF Looked
      <4> QED
        BY <1>12, <4>2, <4>3
    <3> QED
      BY <1>1, <1>5, <1>14, <3>1 DEF Looked, Held
  <2>4. Elements'
    <3>1. \A p \in Positions : outcome'[p] = outcome[p]
      BY <1>3, <1>7 DEF Cells
    <3> QED
      BY <1>1, <1>14, <2>1, <3>1 DEF Elements, Held
  <2>5. Count'
    <3>1. Outstanding' = Outstanding
      BY <1>1, <1>5, <1>14 DEF Outstanding, Held
    <3> QED
      BY <1>1, <2>1, <3>1 DEF Count
  <2> QED
    BY <2>2, <2>3, <2>4, <2>5
<1>16. AnyOf' /\ Unwrapped'
  BY <1>1, <1>12, <1>14, OutcomeKept
<1> QED
  BY <1>5, <1>11, <1>13, <1>15, <1>16 DEF IInv, AllOf

\* Nothing of the invariant depends on the flag and on the future of when_all.
LEMMA SameState ==
  ASSUME IInv, UNCHANGED <<call, fs, outcome, stored, firing, inline, counter>>,
         ~IsWhenAll \/ UNCHANGED <<i, result>>,
         call = "when_any" \/ UNCHANGED result, i' \in Nat, AnyOf'
  PROVE  IInv'
<1>1. /\ Iterations' = Iterations /\ Deccers' = Deccers /\ IsWhenAll' = IsWhenAll
      /\ \A j : Watched(j)' = Watched(j) /\ Held(j)' = Held(j)
  BY SameCall DEF Held, HeldIn
<1>2. TypeOK' /\ Where'
  BY <1>1 DEF IInv, TypeOK, Where
<1>3. ASSUME IsWhenAll PROVE Once' /\ Looked' /\ Elements' /\ Count'
  <2>1. UNCHANGED <<i, result>> /\ Once /\ Looked /\ Elements /\ Count
    BY <1>3 DEF IInv, AllOf
  <2>2. Outstanding' = Outstanding
    BY <1>1, <2>1 DEF Outstanding
  <2> QED
    BY <1>1, <2>1, <2>2 DEF Once, Looked, Elements, Count
<1>4. Unwrapped'
  BY <1>1 DEF IInv, Unwrapped
<1> QED
  BY <1>1, <1>2, <1>3, <1>4 DEF IInv, AllOf

\* when_any_ready after its loop.
LEMMA AnswerNoneValidIInv == ASSUME IInv, AnswerNoneValid PROVE IInv'
<1>1. /\ call = "when_any" /\ i = N /\ i' = N + 1
      /\ result' = IF at_least_one_valid THEN result ELSE NoneValid
      /\ UNCHANGED <<call, fs, outcome, stored, firing, inline, counter>>
  BY DEF AnswerNoneValid
<1>2. ~IsWhenAll /\ i' \in Nat
  BY <1>1, NPositive DEF IsWhenAll
<1>3. AnyOf'
  BY <1>1 DEF IInv, AnyOf
<1> QED
  BY <1>1, <1>2, <1>3, SameState

\* Every step.
LEMMA NextIInv == IInv /\ [Next]_vars => IInv'
<1> SUFFICES ASSUME IInv, [Next]_vars PROVE IInv'
  OBVIOUS
<1>1. CASE RunInline
  <2>1. Taken(inline, None, firing)
    BY <1>1, TakenInline DEF RunInline
  <2>2. Run(inline, None, firing)
    BY <1>1 DEF RunInline
  <2> QED
    BY <2>1, <2>2, RunIInv
<1>2. ASSUME NEW c \in Cells, Fire(c) PROVE IInv'
  <2>1. Taken(Head(firing[c]), inline, [firing EXCEPT ![c] = Tail(@)])
    BY <1>2, TakenFiring DEF Fire
  <2>2. Run(Head(firing[c]), inline, [firing EXCEPT ![c] = Tail(@)])
    BY <1>2 DEF Fire
  <2> QED
    BY <2>1, <2>2, RunIInv
<1>3. CASE Collect \/ UNCHANGED vars
  <2>1. UNCHANGED <<call, fs, outcome, stored, firing, inline, i, counter, result>>
    BY <1>3 DEF Collect, vars
  <2>2. i' \in Nat /\ AnyOf'
    BY <2>1 DEF IInv, TypeOK, AnyOf
  <2> QED
    BY <2>1, <2>2, SameState
<1> QED
  BY <1>1, <1>2, <1>3, RegisterIInv, RegisterInvalidIInv, AnswerNoneValidIInv, CompleteIInv
     DEF Next, Caller, Terminated

\* Every state of every call satisfies the inductive invariant.
THEOREM IInvInvariant == Spec => []IInv
<1>1. Init => IInv
  BY InitIInv
<1>2. IInv /\ [Next]_vars => IInv'
  BY NextIInv
<1> QED
  BY <1>1, <1>2, PTL DEF Spec

------------------------------------------------------------------------------
(* What the calls promise. *)

\* The counter of when_all_ready reaches zero once: set_value is called once,
\* and never throws.
THEOREM OnceSafe == Spec => []SetOnce
<1>1. IInv => SetOnce
  <2>1. ASSUME IInv, IsWhenAll PROVE result # "broken"
    <3>1. result \in {None, "ready"}
      BY <2>1 DEF IInv, AllOf, Count
    <3>2. None # "broken"
      BY CombinatorsConstants, Zenon
    <3> QED
      BY <3>1, <3>2
  <2> QED
    BY <2>1 DEF SetOnce
<1> QED
  BY <1>1, IInvInvariant, PTL

\* The future of when_all_ready is ready only when every valid future is: the
\* get() of when_all's continuation never blocks.
THEOREM ReadySafe == Spec => []ReadyMeansAll
<1>1. IInv => ReadyMeansAll
  <2> SUFFICES ASSUME IInv, IsWhenAll, result # None, NEW p \in Positions, Incomplete(p)
               PROVE  FALSE
    BY DEF ReadyMeansAll
  <2>1. Once /\ Looked /\ Elements /\ Count
    BY DEF IInv, AllOf
  <2>2. fs[p] \in Futures /\ outcome[fs[p]] = "pending"
    BY DEF Incomplete
  <2>3. Outstanding = {}
    <3>1. Cardinality(Outstanding) = 0
      BY <2>1 DEF Count
    <3>2. IsFiniteSet(Outstanding)
      BY DeccersCount, FS_Subset DEF Outstanding
    <3> QED
      BY <3>1, <3>2, FS_EmptySet
  <2>4. /\ p \in Nat /\ p < N /\ ~(p >= N) /\ p + N \in N..2 * N - 1 /\ p \in 0..N - 1
        /\ p + N \in Nat /\ p + N >= N /\ p + N - N = p
    BY NPositive DEF Positions
  <2>5. Watched(p) = fs[p]
    BY <2>4 DEF Watched, IsWhenAll
  <2>6. fs[p] # Invalid
    BY <2>2, CombinatorsConstants, Zenon
  <2>7. \A k \in Deccers : k < i /\ ~Held(k)
    <3>1. \A k \in Deccers : ~(k >= i) /\ ~Held(k)
      BY <2>3 DEF Outstanding
    <3>2. i \in Nat /\ \A k \in Deccers : k \in Nat
      BY DeccersCount DEF IInv, TypeOK
    <3> QED
      BY <3>1, <3>2
  <2>8. CASE call = "when_all"
    <3>1. p \in Deccers
      BY <2>4, <2>8 DEF Deccers
    <3> QED
      BY <2>1, <2>2, <2>4, <2>5, <2>6, <2>7, <3>1 DEF Looked
  <2>9. CASE call = "when_all tuple"
    <3>1. p + N \in Deccers
      BY <2>4, <2>9 DEF Deccers
    <3>2. Watched(p + N) = p
      <4>1. \A k : k >= N => Watched(k) = k - N
        BY <2>9 DEF Watched
      <4>2. Watched(p + N) = (p + N) - N
        BY <2>4, <4>1
      <4>3. (p + N) - N = p
        BY <2>4, NPositive
      <4> QED
        BY <4>2, <4>3, Zenon
    <3>3. p # Invalid
      BY CombinatorsConstants, Zenon
    <3>4. outcome[p] # "pending"
      BY <2>1, <2>4, <2>7, <3>1, <3>2, <3>3 DEF Looked
    <3>5. ~(p >= i) /\ ~Held(p)
      BY <2>1, <2>9, <3>4 DEF Elements
    <3>6. p < i
      <4>1. i \in Nat
        BY DEF IInv, TypeOK
      <4> QED
        BY <2>4, <3>5, <4>1
    <3> QED
      BY <2>1, <2>2, <2>4, <2>5, <2>6, <3>5, <3>6 DEF Looked
  <2> QED
    BY <2>8, <2>9 DEF IsWhenAll
<1> QED
  BY <1>1, IInvInvariant, PTL

\* when_any_ready answers a position only when the future it watched is complete.
THEOREM AnswerSafe == Spec => []AnswerReady
<1>1. IInv => AnswerReady
  BY DEF IInv, AnyOf, AnswerReady
<1> QED
  BY <1>1, IInvInvariant, PTL

\* A future that unwrap made has the outcome of the inner future.
THEOREM OutcomeSafe == Spec => []SameOutcome
<1>1. IInv => SameOutcome
  BY DEF IInv, Unwrapped, SameOutcome
<1> QED
  BY <1>1, IInvInvariant, PTL

=============================================================================
