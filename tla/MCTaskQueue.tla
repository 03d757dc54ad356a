----------------------------- MODULE MCTaskQueue -----------------------------
(* Finite instances of TaskQueue for TLC: the invariants and the liveness of one queue.
   Liveness is checked in the same runs, so no symmetry is declared. *)
EXTENDS TaskQueue, TLC

=============================================================================
