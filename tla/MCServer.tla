------------------------------ MODULE MCServer -------------------------------
(* Finite instances of Server for TLC: one server with its connections.     *)
EXTENDS Server, TLC

=============================================================================
