------------------------------ MODULE Executor ------------------------------
(***************************************************************************)
(* What a task queue promises, without its thread, its condition variable  *)
(* and its contexts: tasks start one at a time in the order they were      *)
(* submitted, a task that started is either the running one or paused, it  *)
(* continues only from where it paused, each task ends at most once, and   *)
(* the executor stops only after it was closed and only when no task is    *)
(* running or paused.  Closing discards the tasks that have not started.   *)
(***************************************************************************)
EXTENDS Sequences

CONSTANTS Tasks, None

VARIABLES
  backlog,  \* tasks submitted and not started, in order
  running,  \* the task that executes, or None
  paused,   \* tasks that started and wait for something
  ended,    \* tasks that ran to their end
  closed,   \* the executor was asked to stop
  stopped   \* nothing will run any more

vars == <<backlog, running, paused, ended, closed, stopped>>

Queued == {backlog[i] : i \in DOMAIN backlog}

Init ==
  /\ backlog = <<>>
  /\ running = None
  /\ paused = {}
  /\ ended = {}
  /\ closed = FALSE
  /\ stopped = FALSE

Submit(t) ==
  /\ t \notin Queued \cup paused \cup ended \cup {running}
  /\ backlog' = Append(backlog, t)
  /\ UNCHANGED <<running, paused, ended, closed, stopped>>

Start ==
  /\ ~stopped
  /\ running = None
  /\ backlog # <<>>
  /\ running' = Head(backlog)
  /\ backlog' = Tail(backlog)
  /\ UNCHANGED <<paused, ended, closed, stopped>>

Pause ==
  /\ running # None
  /\ paused' = paused \cup {running}
  /\ running' = None
  /\ UNCHANGED <<backlog, ended, closed, stopped>>

Continue(t) ==
  /\ ~stopped
  /\ running = None
  /\ t \in paused
  /\ running' = t
  /\ paused' = paused \ {t}
  /\ UNCHANGED <<backlog, ended, closed, stopped>>

End ==
  /\ running # None
  /\ ended' = ended \cup {running}
  /\ running' = None
  /\ UNCHANGED <<backlog, paused, closed, stopped>>

Close ==
  /\ ~closed
  /\ closed' = TRUE
  /\ backlog' = <<>>
  /\ UNCHANGED <<running, paused, ended, stopped>>

Stop ==
  /\ closed /\ ~stopped
  /\ running = None
  /\ paused = {}
  /\ stopped' = TRUE
  /\ UNCHANGED <<backlog, running, paused, ended, closed>>

Next ==
  \/ \E t \in Tasks : Submit(t) \/ Continue(t)
  \/ Start \/ Pause \/ End \/ Close \/ Stop

Spec == Init /\ [][Next]_vars

=============================================================================
