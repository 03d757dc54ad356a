------------------------------- MODULE OneShot -------------------------------
(***************************************************************************)
(* What a future promises, without its lock, its block and its lists: one  *)
(* writer decides the result, for ever; a client's function runs once and  *)
(* never before there is a result; functions left with the future before   *)
(* there was one run in the order they came; a reader that returns has     *)
(* read the result.                                                        *)
(***************************************************************************)
EXTENDS Naturals, Sequences

CONSTANTS Writers, Clients, Readers, None

VARIABLES
  result,   \* the writer whose result counts, or None
  pending,  \* clients whose function waits for the result, in order
  runs,     \* how often a client's function was started
  seen      \* the result a reader returned with, or None

vars == <<result, pending, runs, seen>>

Init ==
  /\ result = None
  /\ pending = <<>>
  /\ runs = [c \in Clients |-> 0]
  /\ seen = [r \in Readers |-> None]

Waiting == {pending[i] : i \in DOMAIN pending}

Write(w) ==
  /\ result = None
  /\ result' = w
  /\ UNCHANGED <<pending, runs, seen>>

Leave(c) ==
  /\ result = None
  /\ c \notin Waiting
  /\ pending' = Append(pending, c)
  /\ UNCHANGED <<result, runs, seen>>

Start(c) ==
  /\ result # None
  /\ runs[c] = 0
  /\ runs' = [runs EXCEPT ![c] = 1]

RunFirst ==
  /\ pending # <<>>
  /\ Start(Head(pending))
  /\ pending' = Tail(pending)
  /\ UNCHANGED <<result, seen>>

\* A client that came when the result was there runs its function itself, and
\* may do so before the pending ones have run.
RunLate(c) ==
  /\ c \notin Waiting
  /\ Start(c)
  /\ UNCHANGED <<result, pending, seen>>

Read(r) ==
  /\ result # None
  /\ seen[r] = None
  /\ seen' = [seen EXCEPT ![r] = result]
  /\ UNCHANGED <<result, pending, runs>>

Next ==
  \/ \E w \in Writers : Write(w)
  \/ \E c \in Clients : Leave(c) \/ RunLate(c)
  \/ RunFirst
  \/ \E r \in Readers : Read(r)

Spec == Init /\ [][Next]_vars

=============================================================================
