---------------------------- MODULE MCCombinators ----------------------------
(* Finite instances of Combinators for TLC.  Liveness is checked in the same
   runs, so no symmetry is declared. *)
EXTENDS Combinators

=============================================================================
