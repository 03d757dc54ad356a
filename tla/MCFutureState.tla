---------------------------- MODULE MCFutureState ----------------------------
(* Finite instances of FutureState for TLC: the invariants and the liveness of one future.
   Liveness is checked in the same runs, so no symmetry is declared. *)
EXTENDS FutureState, TLC

=============================================================================
