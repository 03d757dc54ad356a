------------------------------ MODULE SeqLemmas ------------------------------
(* The elements of a sequence used as a deque or as a stack: what its         *)
(* operations do to the set of elements, and that none comes to occur twice.  *)
EXTENDS Integers, SequencesExt, Functions, Subsequences, SequenceTheorems,
        WellFoundedInduction, TLAPS

\* push_back of an element that is not there.
LEMMA AppendNew ==
  ASSUME NEW S, NEW s \in Seq(S), NEW c \in S
  PROVE  /\ Append(s, c) \in Seq(S)
         /\ ToSet(Append(s, c)) = ToSet(s) \cup {c}
         /\ IsInjective(s) /\ c \notin ToSet(s) => IsInjective(Append(s, c))
<1>1. /\ Append(s, c) \in Seq(S)
      /\ Len(s) + 1 \in DOMAIN Append(s, c) /\ Append(s, c)[Len(s) + 1] = c
      /\ \A i \in DOMAIN s : i \in DOMAIN Append(s, c) /\ Append(s, c)[i] = s[i]
      /\ \A i \in DOMAIN Append(s, c) : i = Len(s) + 1 \/ i \in DOMAIN s
  OBVIOUS
<1>2. ToSet(Append(s, c)) = ToSet(s) \cup {c}
  <2>1. ASSUME NEW d \in ToSet(Append(s, c)) PROVE d \in ToSet(s) \cup {c}
    BY <2>1, <1>1 DEF ToSet
  <2>2. ASSUME NEW d \in ToSet(s) \cup {c} PROVE d \in ToSet(Append(s, c))
    BY <2>2, <1>1 DEF ToSet
  <2> QED
    BY <2>1, <2>2
<1>3. ASSUME IsInjective(s), c \notin ToSet(s) PROVE IsInjective(Append(s, c))
  BY <1>1, <1>3 DEF IsInjective, ToSet
<1> QED
  BY <1>1, <1>2, <1>3

\* pop_back, with back().
LEMMA PopLast ==
  ASSUME NEW S, NEW s \in Seq(S), s # <<>>
  PROVE  LET c == s[Len(s)]
             r == SubSeq(s, 1, Len(s) - 1)
         IN  /\ r \in Seq(S)
             /\ c \in S
             /\ ToSet(s) = ToSet(r) \cup {c}
             /\ IsInjective(s) => IsInjective(r) /\ c \notin ToSet(r)
<1> DEFINE c == s[Len(s)]
           r == SubSeq(s, 1, Len(s) - 1)
<1>1. /\ r \in Seq(S) /\ Len(s) \in DOMAIN s /\ c \in S
      /\ \A i \in DOMAIN r : i \in DOMAIN s /\ r[i] = s[i] /\ i # Len(s)
      /\ \A i \in DOMAIN s : i = Len(s) \/ i \in DOMAIN r
  OBVIOUS
<1>2. ToSet(s) = ToSet(r) \cup {c}
  <2>1. ASSUME NEW d \in ToSet(s) PROVE d \in ToSet(r) \cup {c}
    BY <2>1, <1>1 DEF ToSet
  <2>2. ASSUME NEW d \in ToSet(r) \cup {c} PROVE d \in ToSet(s)
    BY <2>2, <1>1 DEF ToSet
  <2> QED
    BY <2>1, <2>2
<1>3. ASSUME IsInjective(s) PROVE IsInjective(r) /\ c \notin ToSet(r)
  BY <1>1, <1>3 DEF IsInjective, ToSet
<1> QED
  BY <1>1, <1>2, <1>3

\* pop_front, with front().
LEMMA PopHead ==
  ASSUME NEW S, NEW s \in Seq(S), s # <<>>
  PROVE  /\ Tail(s) \in Seq(S)
         /\ Head(s) \in S
         /\ ToSet(s) = ToSet(Tail(s)) \cup {Head(s)}
         /\ IsInjective(s) => IsInjective(Tail(s)) /\ Head(s) \notin ToSet(Tail(s))
<1> DEFINE r == Tail(s)
<1>1. /\ r \in Seq(S) /\ 1 \in DOMAIN s /\ s[1] = Head(s) /\ Head(s) \in S
      /\ \A i \in DOMAIN r : i + 1 \in DOMAIN s /\ r[i] = s[i + 1] /\ i + 1 # 1
      /\ \A i \in DOMAIN s : i = 1 \/ (i - 1 \in DOMAIN r /\ s[i] = r[i - 1])
  OBVIOUS
<1>2. ToSet(s) = ToSet(r) \cup {Head(s)}
  <2>1. ASSUME NEW d \in ToSet(s) PROVE d \in ToSet(r) \cup {Head(s)}
    BY <2>1, <1>1 DEF ToSet
  <2>2. ASSUME NEW d \in ToSet(r) \cup {Head(s)} PROVE d \in ToSet(s)
    BY <2>2, <1>1 DEF ToSet
  <2> QED
    BY <2>1, <2>2
<1>3. ASSUME IsInjective(s) PROVE IsInjective(r) /\ Head(s) \notin ToSet(r)
  <2>1. ASSUME NEW i \in DOMAIN r, NEW j \in DOMAIN r, r[i] = r[j] PROVE i = j
    <3>1. i + 1 = j + 1
      BY <2>1, <1>1, <1>3 DEF IsInjective
    <3> QED
      BY <3>1, <1>1
  <2>2. Head(s) \notin ToSet(r)
    BY <1>1, <1>3 DEF IsInjective, ToSet
  <2> QED
    BY <2>1, <2>2 DEF IsInjective
<1> QED
  BY <1>1, <1>2, <1>3

\* The empty sequence.
LEMMA EmptyElements ==
  ASSUME NEW S
  PROVE  <<>> \in Seq(S) /\ ToSet(<<>>) = {} /\ IsInjective(<<>>)
BY DEF ToSet, IsInjective

\* push_front of each element of s, in order.
LEMMA PushedFront ==
  ASSUME NEW S, NEW s \in Seq(S), NEW t \in Seq(S)
  PROVE  /\ Reverse(s) \o t \in Seq(S)
         /\ ToSet(Reverse(s) \o t) \subseteq ToSet(s) \cup ToSet(t)
<1> DEFINE r == Reverse(s)
           w == r \o t
<1>1. /\ r \in Seq(S) /\ Len(r) = Len(s)
      /\ \A j \in 1..Len(s) : r[j] = s[(Len(s) - j) + 1] /\ (Len(s) - j) + 1 \in DOMAIN s
  BY DEF Reverse
<1> HIDE DEF r
<1>2. /\ w \in Seq(S)
      /\ \A j \in DOMAIN w : \/ j \in 1..Len(r) /\ w[j] = r[j]
                             \/ j - Len(r) \in DOMAIN t /\ w[j] = t[j - Len(r)]
  BY <1>1
<1>3. \A j \in DOMAIN w : (\E m \in DOMAIN s : w[j] = s[m]) \/ (\E m \in DOMAIN t : w[j] = t[m])
  BY <1>1, <1>2
<1> HIDE DEF w
<1>4. ToSet(w) \subseteq ToSet(s) \cup ToSet(t)
  BY <1>3 DEF ToSet
<1> QED
  BY <1>2, <1>4 DEF w, r

\* A prefix, element by element.
LEMMA PrefixElements ==
  ASSUME NEW S, NEW s \in Seq(S), NEW t \in Seq(S)
  PROVE  IsPrefix(s, t) <=> Len(s) <= Len(t) /\ \A j \in 1..Len(s) : s[j] = t[j]
<1>1. ASSUME Len(s) <= Len(t)
      PROVE  SubSeq(s, 1, Len(s)) = SubSeq(t, 1, Len(s)) <=> \A j \in 1..Len(s) : s[j] = t[j]
  <2> DEFINE a == SubSeq(s, 1, Len(s))
             b == SubSeq(t, 1, Len(s))
  <2>1. /\ a \in Seq(S) /\ b \in Seq(S) /\ Len(a) = Len(s) /\ Len(b) = Len(s)
        /\ \A j \in 1..Len(s) : a[j] = s[j] /\ b[j] = t[j]
    BY <1>1
  <2> HIDE DEF a, b
  <2>2. ASSUME \A j \in 1..Len(s) : s[j] = t[j] PROVE a = b
    BY <2>1, <2>2, SeqEqual
  <2>3. ASSUME a = b PROVE \A j \in 1..Len(s) : s[j] = t[j]
    BY <2>1, <2>3
  <2> QED
    BY <2>2, <2>3 DEF a, b
<1> QED
  BY <1>1 DEF IsPrefix

\* A queue and a prefix of it: push_back to the queue.
LEMMA PrefixAppend ==
  ASSUME NEW S, NEW s \in Seq(S), NEW t \in Seq(S), NEW c \in S, IsPrefix(s, t)
  PROVE  IsPrefix(s, Append(t, c))
<1>1. Len(s) <= Len(t) /\ \A j \in 1..Len(s) : s[j] = t[j]
  BY PrefixElements
<1>2. /\ Append(t, c) \in Seq(S) /\ Len(s) <= Len(Append(t, c))
      /\ \A j \in 1..Len(s) : s[j] = Append(t, c)[j]
  BY <1>1
<1> QED
  BY <1>2, PrefixElements

\* pop_front of both.
LEMMA PrefixTail ==
  ASSUME NEW S, NEW s \in Seq(S), NEW t \in Seq(S), s # <<>>, IsPrefix(s, t)
  PROVE  t # <<>> /\ IsPrefix(Tail(s), Tail(t))
<1>1. Len(s) <= Len(t) /\ \A j \in 1..Len(s) : s[j] = t[j]
  BY PrefixElements
<1>2. t # <<>>
  BY <1>1
<1>3. /\ Tail(s) \in Seq(S) /\ Tail(t) \in Seq(S) /\ Len(Tail(s)) <= Len(Tail(t))
      /\ \A j \in 1..Len(Tail(s)) : Tail(s)[j] = Tail(t)[j]
  BY <1>1, <1>2
<1> QED
  BY <1>2, <1>3, PrefixElements

\* A queue is a prefix of itself.
LEMMA PrefixSelf == ASSUME NEW S, NEW s \in Seq(S) PROVE IsPrefix(s, s)
BY PrefixElements

------------------------------------------------------------------------------
(* The elements of a sequence that are in a set: see Subsequences.           *)

\* Induction on natural numbers, for a set instead of a predicate.
LEMMA SetInduction ==
  ASSUME NEW T, 0 \in T, \A n \in Nat : n \in T => n + 1 \in T
  PROVE  \A n \in Nat : n \in T
<1> DEFINE R == OpToRel(<, Nat)
           Bad == Nat \ T
<1>1. SUFFICES ASSUME Bad # {} PROVE FALSE
  OBVIOUS
<1>2. IsWellFoundedOn(R, Nat)
  BY NatLessThanWellFounded, Zenon DEF R
<1>3. PICK x \in Bad : \A y \in Bad : ~(<<y, x>> \in R)
  <2>1. Bad \subseteq Nat
    OBVIOUS
  <2> HIDE DEF Bad, R
  <2> QED
    BY <1>1, <1>2, <2>1, WFMin, Zenon
<1>4. x # 0 /\ x - 1 \in Nat /\ x = (x - 1) + 1
  OBVIOUS
<1>5. <<x - 1, x>> \in R
  BY <1>4 DEF R, OpToRel
<1>6. x - 1 \in T
  BY <1>3, <1>4, <1>5
<1> QED
  BY <1>4, <1>6

\* The function Only defines, for the first n elements.
Filters(f, s, T, n) ==
  f = [i \in 0..n |-> IF i = 0 THEN <<>>
                      ELSE IF s[i] \in T THEN Append(f[i - 1], s[i])
                      ELSE f[i - 1]]

\* It exists.
LEMMA FilterExists ==
  ASSUME NEW s, NEW T
  PROVE  \A n \in Nat : \E f : Filters(f, s, T, n)
<1> DEFINE Good == {n \in Nat : \E f : Filters(f, s, T, n)}
<1>1. 0 \in Good
  <2>1. Filters([i \in 0..0 |-> <<>>], s, T, 0)
    BY DEF Filters
  <2> QED
    BY <2>1
<1>2. ASSUME NEW n \in Nat, n \in Good PROVE n + 1 \in Good
  <2>1. PICK f : Filters(f, s, T, n)
    BY <1>2
  <2> DEFINE last == IF s[n + 1] \in T THEN Append(f[n], s[n + 1]) ELSE f[n]
             g == [i \in 0..(n + 1) |-> IF i = n + 1 THEN last ELSE f[i]]
  <2>2. \A i \in 0..n : f[i] = IF i = 0 THEN <<>>
                               ELSE IF s[i] \in T THEN Append(f[i - 1], s[i])
                               ELSE f[i - 1]
    BY <2>1 DEF Filters
  <2>3. \A i \in 0..(n + 1) : g[i] = IF i = 0 THEN <<>>
                                     ELSE IF s[i] \in T THEN Append(g[i - 1], s[i])
                                     ELSE g[i - 1]
    <3> SUFFICES ASSUME NEW i \in 0..(n + 1)
                 PROVE  g[i] = IF i = 0 THEN <<>>
                               ELSE IF s[i] \in T THEN Append(g[i - 1], s[i])
                               ELSE g[i - 1]
      OBVIOUS
    <3>1. CASE i = n + 1
      <4>1. g[i] = last /\ g[i - 1] = f[n] /\ i # 0
        BY <3>1
      <4> HIDE DEF g
      <4> QED
        BY <3>1, <4>1
    <3>2. CASE i # n + 1
      <4>1. g[i] = f[i] /\ (i # 0 => g[i - 1] = f[i - 1]) /\ i \in 0..n
        BY <3>2
      <4> HIDE DEF g
      <4> QED
        BY <2>2, <4>1
    <3> QED
      BY <3>1, <3>2
  <2>4. g = [i \in 0..(n + 1) |-> g[i]]
    OBVIOUS
  <2>5. Filters(g, s, T, n + 1)
    <3> HIDE DEF g
    <3> QED
      BY <2>3, <2>4 DEF Filters
  <2> QED
    BY <2>5
<1> HIDE DEF Good
<1>3. \A n \in Nat : n \in Good
  BY <1>1, <1>2, SetInduction
<1> QED
  BY <1>3 DEF Good

\* Its value at i depends on the first i elements only.
LEMMA FilterUnique ==
  ASSUME NEW s, NEW t, NEW T, NEW f, NEW g, NEW m \in Nat, NEW n \in Nat, m <= n,
         Filters(f, s, T, m), Filters(g, t, T, n), \A i \in 1..m : s[i] = t[i]
  PROVE  \A i \in 0..m : f[i] = g[i]
<1> DEFINE Good == {i \in Nat : i <= m => f[i] = g[i]}
<1>1. /\ \A i \in 0..m : f[i] = IF i = 0 THEN <<>>
                                ELSE IF s[i] \in T THEN Append(f[i - 1], s[i])
                                ELSE f[i - 1]
      /\ \A i \in 0..n : g[i] = IF i = 0 THEN <<>>
                                ELSE IF t[i] \in T THEN Append(g[i - 1], t[i])
                                ELSE g[i - 1]
  BY DEF Filters
<1>2. 0 \in Good
  BY <1>1
<1>3. ASSUME NEW i \in Nat, i \in Good PROVE i + 1 \in Good
  <2> SUFFICES ASSUME i + 1 <= m PROVE f[i + 1] = g[i + 1]
    OBVIOUS
  <2>1. /\ i + 1 \in 1..m /\ i + 1 \in 0..m /\ i + 1 \in 0..n
        /\ i + 1 # 0 /\ (i + 1) - 1 = i
    OBVIOUS
  <2>2. f[i] = g[i] /\ s[i + 1] = t[i + 1]
    BY <1>3, <2>1
  <2>3. f[i + 1] = IF s[i + 1] \in T THEN Append(f[i], s[i + 1]) ELSE f[i]
    BY <1>1, <2>1
  <2>4. g[i + 1] = IF t[i + 1] \in T THEN Append(g[i], t[i + 1]) ELSE g[i]
    BY <1>1, <2>1
  <2> QED
    BY <2>2, <2>3, <2>4
<1> HIDE DEF Good
<1>4. \A i \in Nat : i \in Good
  BY <1>2, <1>3, SetInduction
<1> QED
  BY <1>4 DEF Good

\* Only is the last value of any such function.
LEMMA OnlyIsFilter ==
  ASSUME NEW S, NEW s \in Seq(S), NEW T, NEW f, NEW n \in Nat, Len(s) <= n, Filters(f, s, T, n)
  PROVE  Only(s, T) = f[Len(s)]
<1>1. Len(s) \in Nat
  OBVIOUS
<1> DEFINE among == CHOOSE g : Filters(g, s, T, Len(s))
<1>2. Filters(among, s, T, Len(s))
  BY <1>1, FilterExists
<1>3. Only(s, T) = among[Len(s)]
  BY DEF Only, Filters
<1>4. \A i \in 0..Len(s) : among[i] = f[i]
  <2> HIDE DEF among
  <2> QED
    BY <1>1, <1>2, FilterUnique
<1> QED
  BY <1>1, <1>3, <1>4

\* What is kept of the empty sequence.
LEMMA OnlyOfEmpty == ASSUME NEW T PROVE Only(<<>>, T) = <<>>
<1> DEFINE e == <<>>
<1>1. e \in Seq(T) /\ Len(e) = 0 /\ Len(e) <= 0 /\ 0 \in Nat
  OBVIOUS
<1> HIDE DEF e
<1>2. PICK f : Filters(f, e, T, 0)
  BY FilterExists
<1>3. Only(e, T) = f[Len(e)]
  BY <1>1, <1>2, OnlyIsFilter
<1>4. f[0] = <<>>
  BY <1>2 DEF Filters
<1> QED
  BY <1>1, <1>3, <1>4, Zenon DEF e

\* push_back.
LEMMA OnlyOfAppend ==
  ASSUME NEW S, NEW s \in Seq(S), NEW T, NEW c \in S
  PROVE  Only(Append(s, c), T) = IF c \in T THEN Append(Only(s, T), c) ELSE Only(s, T)
<1> DEFINE r == Append(s, c)
           n == Len(s)
<1>1. /\ r \in Seq(S) /\ Len(r) = n + 1 /\ n \in Nat /\ n <= n + 1 /\ n + 1 \in Nat
      /\ r[n + 1] = c /\ \A i \in 1..n : s[i] = r[i]
  OBVIOUS
<1> HIDE DEF r
<1>2. PICK f : Filters(f, r, T, n + 1)
  BY <1>1, FilterExists
<1>3. PICK g : Filters(g, s, T, n)
  BY <1>1, FilterExists
<1>4. Only(r, T) = f[n + 1]
  <2>1. Len(r) <= n + 1
    BY <1>1
  <2> QED
    BY <1>1, <1>2, <2>1, OnlyIsFilter
<1>5. Only(s, T) = g[n]
  BY <1>1, <1>3, OnlyIsFilter
<1>6. g[n] = f[n]
  <2>1. \A i \in 0..n : g[i] = f[i]
    <3> HIDE DEF n
    <3> QED
      BY <1>1, <1>2, <1>3, FilterUnique
  <2> QED
    BY <1>1, <2>1
<1>7. f[n + 1] = IF c \in T THEN Append(f[n], c) ELSE f[n]
  <2>1. \A i \in 0..(n + 1) : f[i] = IF i = 0 THEN <<>>
                                     ELSE IF r[i] \in T THEN Append(f[i - 1], r[i])
                                     ELSE f[i - 1]
    BY <1>2 DEF Filters
  <2>2. n + 1 \in 0..(n + 1) /\ n + 1 # 0 /\ (n + 1) - 1 = n
    BY <1>1
  <2> HIDE DEF n
  <2> QED
    BY <1>1, <2>1, <2>2
<1> QED
  BY <1>4, <1>5, <1>6, <1>7 DEF r

\* The elements that are kept are those of the sequence that are in the set.
LEMMA OnlyElements ==
  ASSUME NEW S, NEW s \in Seq(S), NEW T
  PROVE  Only(s, T) \in Seq(T) /\ ToSet(Only(s, T)) = ToSet(s) \cap T
<1> DEFINE n == Len(s)
<1>1. n \in Nat
  OBVIOUS
<1>2. PICK f : Filters(f, s, T, n)
  BY <1>1, FilterExists
<1>3. Only(s, T) = f[n]
  BY <1>1, <1>2, OnlyIsFilter
<1>4. \A i \in 0..n : f[i] = IF i = 0 THEN <<>>
                             ELSE IF s[i] \in T THEN Append(f[i - 1], s[i])
                             ELSE f[i - 1]
  BY <1>2 DEF Filters
<1> DEFINE Upto(i) == {s[j] : j \in 1..i} \cap T
           Good == {i \in Nat : i <= n => f[i] \in Seq(T) /\ ToSet(f[i]) = Upto(i)}
<1>5. 0 \in Good
  <2>1. f[0] = <<>> /\ 1..0 = {}
    BY <1>1, <1>4
  <2>2. Upto(0) = {}
    BY <2>1
  <2> QED
    BY <2>1, <2>2, EmptyElements
<1>6. ASSUME NEW i \in Nat, i \in Good PROVE i + 1 \in Good
  <2> SUFFICES ASSUME i + 1 <= n
               PROVE  f[i + 1] \in Seq(T) /\ ToSet(f[i + 1]) = Upto(i + 1)
    OBVIOUS
  <2>1. i + 1 \in 0..n /\ i + 1 # 0 /\ (i + 1) - 1 = i /\ i <= n /\ 1..(i + 1) = 1..i \cup {i + 1}
    BY <1>1
  <2>2. f[i] \in Seq(T) /\ ToSet(f[i]) = Upto(i)
    BY <1>6, <2>1
  <2>3. f[i + 1] = IF s[i + 1] \in T THEN Append(f[i], s[i + 1]) ELSE f[i]
    BY <1>4, <2>1
  <2>4. Upto(i + 1) = Upto(i) \cup ({s[i + 1]} \cap T)
    BY <2>1
  <2> HIDE DEF Upto
  <2>5. CASE s[i + 1] \in T
    <3>1. f[i + 1] \in Seq(T) /\ ToSet(f[i + 1]) = ToSet(f[i]) \cup {s[i + 1]}
      BY <2>2, <2>3, <2>5, AppendNew
    <3> QED
      BY <2>2, <2>4, <2>5, <3>1
  <2>6. CASE s[i + 1] \notin T
    BY <2>2, <2>3, <2>4, <2>6
  <2> QED
    BY <2>5, <2>6
<1> HIDE DEF Good
<1>7. \A i \in Nat : i \in Good
  BY <1>5, <1>6, SetInduction
<1>8. f[n] \in Seq(T) /\ ToSet(f[n]) = Upto(n)
  BY <1>1, <1>7 DEF Good
<1>9. {s[j] : j \in 1..n} = ToSet(s)
  BY DEF ToSet
<1> QED
  BY <1>3, <1>8, <1>9

\* An element in front of what is kept, if it is kept.
InFront(h, u, T) == IF h \in T THEN <<h>> \o u ELSE u

\* It does not matter which end is extended first.
LEMMA InFrontAppend ==
  ASSUME NEW S, NEW u \in Seq(S), NEW h \in S, NEW c \in S, NEW T
  PROVE  InFront(h, Append(u, c), T) = Append(InFront(h, u, T), c)
<1>1. <<h>> \o Append(u, c) = Append(<<h>> \o u, c)
  <2> DEFINE a == <<h>> \o Append(u, c)
             b == Append(<<h>> \o u, c)
  <2>1. /\ a \in Seq(S) /\ b \in Seq(S) /\ Len(a) = Len(u) + 2 /\ Len(b) = Len(u) + 2
        /\ \A i \in 1..(Len(u) + 2) : a[i] = b[i]
    OBVIOUS
  <2> HIDE DEF a, b
  <2>2. a = b
    BY <2>1, SeqEqual
  <2> QED
    BY <2>2 DEF a, b
<1> QED
  BY <1>1 DEF InFront

\* What is kept of a sequence, by its first element and the others.
LEMMA OnlyOfTail ==
  ASSUME NEW S, NEW s \in Seq(S), NEW T, s # <<>>
  PROVE  Only(s, T) = InFront(Head(s), Only(Tail(s), T), T)
<1> DEFINE r == Tail(s)
           n == Len(r)
           h == Head(s)
<1>1. /\ r \in Seq(S) /\ n \in Nat /\ n + 1 \in Nat /\ Len(s) = n + 1 /\ s[1] = h /\ h \in S
      /\ \A i \in 1..n : r[i] = s[i + 1] /\ r[i] \in S
  OBVIOUS
<1> HIDE DEF r, h
<1>2. PICK f : Filters(f, s, T, n + 1)
  BY <1>1, FilterExists
<1>3. PICK g : Filters(g, r, T, n)
  BY <1>1, FilterExists
<1>4. Only(s, T) = f[n + 1]
  <2>1. Len(s) <= n + 1 /\ n + 1 \in Nat
    BY <1>1
  <2> HIDE DEF n
  <2> QED
    BY <1>1, <1>2, <2>1, OnlyIsFilter
<1>5. Only(r, T) = g[n]
  BY <1>1, <1>3, OnlyIsFilter
<1> HIDE DEF n
<1>6. \A i \in 0..(n + 1) : f[i] = IF i = 0 THEN <<>>
                                   ELSE IF s[i] \in T THEN Append(f[i - 1], s[i])
                                   ELSE f[i - 1]
  BY <1>2 DEF Filters
<1>7. \A i \in 0..n : g[i] = IF i = 0 THEN <<>>
                             ELSE IF r[i] \in T THEN Append(g[i - 1], r[i])
                             ELSE g[i - 1]
  BY <1>3 DEF Filters
<1> DEFINE Good == {i \in Nat : i <= n => g[i] \in Seq(S) /\ f[i + 1] = InFront(h, g[i], T)}
<1>8. 0 \in Good
  <2>1. /\ 0 \in 0..n /\ 0 \in 0..(n + 1) /\ 1 \in 0..(n + 1) /\ 1 # 0 /\ 1 - 1 = 0 /\ 0 + 1 = 1
    BY <1>1
  <2>2. g[0] = <<>> /\ f[0] = <<>>
    BY <1>6, <1>7, <2>1
  <2>3. f[1] = IF h \in T THEN Append(<<>>, h) ELSE <<>>
    BY <1>1, <1>6, <2>1, <2>2
  <2>4. f[1] = InFront(h, <<>>, T)
    BY <2>3 DEF InFront
  <2>5. g[0] \in Seq(S) /\ f[0 + 1] = InFront(h, g[0], T)
    BY <2>1, <2>2, <2>4
  <2> QED
    BY <2>5
<1>9. ASSUME NEW i \in Nat, i \in Good PROVE i + 1 \in Good
  <2> SUFFICES ASSUME i + 1 <= n
               PROVE  g[i + 1] \in Seq(S) /\ f[(i + 1) + 1] = InFront(h, g[i + 1], T)
    OBVIOUS
  <2> DEFINE c == r[i + 1]
  <2>1. /\ i + 1 \in 0..n /\ i + 1 # 0 /\ (i + 1) - 1 = i /\ i <= n /\ i + 1 \in 1..n
        /\ (i + 1) + 1 \in 0..(n + 1) /\ (i + 1) + 1 # 0 /\ ((i + 1) + 1) - 1 = i + 1
    BY <1>1
  <2>2. g[i] \in Seq(S) /\ f[i + 1] = InFront(h, g[i], T)
    BY <1>9, <2>1
  <2>3. c \in S /\ s[(i + 1) + 1] = c
    BY <1>1, <2>1
  <2>4. g[i + 1] = IF c \in T THEN Append(g[i], c) ELSE g[i]
    BY <1>7, <2>1
  <2>5. f[(i + 1) + 1] = IF c \in T THEN Append(f[i + 1], c) ELSE f[i + 1]
    BY <1>6, <2>1, <2>3
  <2> HIDE DEF c
  <2>6. CASE c \in T
    <3>1. g[i + 1] \in Seq(S)
      BY <2>2, <2>3, <2>4, <2>6
    <3>2. InFront(h, Append(g[i], c), T) = Append(InFront(h, g[i], T), c)
      BY <1>1, <2>2, <2>3, InFrontAppend
    <3> QED
      BY <2>2, <2>4, <2>5, <2>6, <3>1, <3>2, Zenon
  <2>7. CASE c \notin T
    BY <2>2, <2>4, <2>5, <2>7, Zenon
  <2> QED
    BY <2>6, <2>7
<1> HIDE DEF Good
<1>10. \A i \in Nat : i \in Good
  BY <1>8, <1>9, SetInduction
<1>11. f[n + 1] = InFront(h, g[n], T)
  BY <1>1, <1>10 DEF Good
<1> QED
  BY <1>4, <1>5, <1>11 DEF r, h

\* pop_front.
LEMMA OnlyOfPop ==
  ASSUME NEW S, NEW s \in Seq(S), NEW T, s # <<>>
  PROVE  /\ Head(s) \in T => /\ Only(s, T) # <<>>
                             /\ Head(Only(s, T)) = Head(s)
                             /\ Tail(Only(s, T)) = Only(Tail(s), T)
         /\ Head(s) \notin T => Only(s, T) = Only(Tail(s), T)
<1>1. Tail(s) \in Seq(S)
  OBVIOUS
<1>2. Only(Tail(s), T) \in Seq(T)
  BY <1>1, OnlyElements
<1>3. Only(s, T) = InFront(Head(s), Only(Tail(s), T), T)
  BY OnlyOfTail
<1>4. ASSUME NEW h \in T, NEW u \in Seq(T)
      PROVE  <<h>> \o u # <<>> /\ Head(<<h>> \o u) = h /\ Tail(<<h>> \o u) = u
  <2> DEFINE w == <<h>> \o u
  <2>1. /\ w \in Seq(T) /\ Len(w) = Len(u) + 1 /\ w[1] = h
        /\ \A i \in 1..Len(u) : w[i + 1] = u[i]
    OBVIOUS
  <2> HIDE DEF w
  <2>2. w # <<>> /\ Head(w) = h
    BY <2>1
  <2>3. Tail(w) \in Seq(T) /\ Len(Tail(w)) = Len(u) /\ \A i \in 1..Len(u) : Tail(w)[i] = u[i]
    BY <2>1, <2>2
  <2>4. Tail(w) = u
    BY <2>3, SeqEqual
  <2> QED
    BY <2>2, <2>4 DEF w
<1> QED
  BY <1>2, <1>3, <1>4 DEF InFront

\* push_front.
LEMMA OnlyOfPushFront ==
  ASSUME NEW S, NEW s \in Seq(S), NEW T, NEW c \in S, c \notin T
  PROVE  Only(<<c>> \o s, T) = Only(s, T)
<1> DEFINE w == <<c>> \o s
<1>1. w \in Seq(S) /\ w # <<>> /\ Head(w) = c /\ Len(w) = Len(s) + 1
  OBVIOUS
<1>2. \A i \in 1..Len(s) : w[i + 1] = s[i]
  OBVIOUS
<1> HIDE DEF w
<1>3. Tail(w) \in Seq(S) /\ Len(Tail(w)) = Len(s) /\ \A i \in 1..Len(s) : Tail(w)[i] = s[i]
  BY <1>1, <1>2
<1>4. Tail(w) = s
  BY <1>3, SeqEqual
<1>5. Only(w, T) = Only(Tail(w), T)
  BY <1>1, OnlyOfPop
<1> QED
  BY <1>4, <1>5 DEF w

=============================================================================
