----------------------------- MODULE MCIoManager -----------------------------
(* Finite instances of IoManager for TLC: one loop, its clients and two calls of stop.
   Liveness is checked in the same runs, so no symmetry is declared. *)
EXTENDS IoManager, TLC

=============================================================================
