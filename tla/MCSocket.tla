------------------------------ MODULE MCSocket -------------------------------
(* Finite instances of Socket for TLC: one connection with pipelined calls. *)
EXTENDS Socket, TLC

=============================================================================
