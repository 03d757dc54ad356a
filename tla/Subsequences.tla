---------------------------- MODULE Subsequences ----------------------------
(* What SelectSeq does with the test that an element is in a set, as a        *)
(* recursive function: the provers know no definition of SelectSeq.           *)
EXTENDS Naturals, Sequences

\* The elements of the sequence s that are in the set T, in their order.
Only(s, T) ==
  LET among[i \in 0..Len(s)] ==  \* those of the first i elements
        IF i = 0 THEN <<>>
        ELSE IF s[i] \in T THEN Append(among[i - 1], s[i])
        ELSE among[i - 1]
  IN  among[Len(s)]

=============================================================================
