------------------------------ MODULE MCRuntime ------------------------------
(* Two queues, two resumable tasks, a plain one, and a client that joins.   *)
EXTENDS Runtime

=============================================================================
