----------------------------- MODULE FutureState -----------------------------
(***************************************************************************)
(* One ltl::detail::future_state: the value or exception a promise stores, *)
(* the continuations that wait for it, and the block that threads sleep    *)
(* on, used by several threads at once.  Every thread makes one call; the  *)
(* calls of a real thread are calls of several threads of the model.       *)
(*                                                                         *)
(* The state's mutex_ is held for straight-line code only, so a critical   *)
(* section is one action; the continuations run outside it, one action     *)
(* each, and block::wait is a step of its own.  A value is represented by  *)
(* the thread that stored it.  Continuations return: what they do to other *)
(* futures is not part of this module.                                     *)
(***************************************************************************)
EXTENDS Naturals, SequencesExt, Functions, Subsequences

CONSTANTS
  Setters,       \* call promise::set_value or promise::set_exception
  QuietSetters,  \* call set_value_impl(v, false), as when_any_ready does
  Thens,         \* call future::then
  Nexts,         \* call future::next
  Callbacks,     \* call continue_with, as await, unwrap and when_all do
  Getters,       \* call future::get (future::wait without the last step)
  Signal,        \* the continuation bound to block::signal
  None           \* null pointer

Writers   == Setters \cup QuietSetters
Composers == Thens \cup Nexts
Continuers == Composers \cup Callbacks
Threads   == Writers \cup Continuers \cup Getters

ASSUME FutureStateConstants ==
  /\ Setters \cap QuietSetters = {}
  /\ Thens \cap Nexts = {}
  /\ Composers \cap Callbacks = {}
  /\ Writers \cap Continuers = {}
  /\ Getters \cap (Writers \cup Continuers) = {}
  /\ None \notin Threads
  /\ Signal \notin Threads

VARIABLES
  \* guarded by mutex_
  value,          \* value_: the thread that stored it, or None
  exception,      \* exception_: the thread that stored it, or None
  continuations,  \* continuations_
  block,          \* block_: absent, armed, or signalled_
  \* threads
  pc,             \* where a thread is in its call
  cs,             \* cs: the continuations a writer swapped out
  got,            \* what a getter's get() returned or rethrew
  \* the functions given to then, next and continue_with
  ran,            \* how often the continuation was invoked
  called,         \* continuations whose user function was called
  child           \* the future then or next returned

stateVars  == <<value, exception, continuations, block>>
clientVars == <<ran, called, child>>
vars == <<stateVars, pc, cs, got, clientVars>>

WriterStates ==
  { "idle",
    "firing",    \* stored its outcome, running the continuations in cs
    "threw",     \* promise_already_satisfied
    "done" }

ContinuerStates ==
  { "idle",
    "stored",    \* returned; the continuation is left with the state
    "inline",    \* saw the outcome, about to run the continuation itself
    "done" }

GetterStates ==
  { "idle",
    "blocking",  \* in block::wait, about to evaluate signalled_
    "asleep",    \* in the wait set of the block's cv_
    "reading",   \* wait() returned, about to read without the lock
    "done" }


\* ready(): an outcome is stored.
ready == value # None \/ exception # None

\* state::get(): an exception is rethrown, or the value dereferenced.
get == IF exception # None THEN exception ELSE value

At(t, from, to) == pc[t] = from /\ pc' = [pc EXCEPT ![t] = to]

------------------------------------------------------------------------------
Init ==
  /\ value = None
  /\ exception = None
  /\ continuations = <<>>
  /\ block = "absent"
  /\ pc = [t \in Threads |-> "idle"]
  /\ cs = [s \in Writers |-> <<>>]
  /\ got = [g \in Getters |-> None]
  /\ ran = [k \in Continuers |-> 0]
  /\ called = {}
  /\ child = [k \in Composers |-> "pending"]

------------------------------------------------------------------------------
(* Storing the outcome. *)

\* Mutant of Take: the continuations are copied, not swapped.
TakeCopy(s) ==
  /\ ~ ready
  /\ At(s, "idle", "firing")
  /\ cs' = [cs EXCEPT ![s] = continuations]
  /\ UNCHANGED <<continuations, block, got, clientVars>>

\* The part set_value_impl and set_exception share: swap the continuations out.
Take(s) ==
  /\ ~ready
  /\ At(s, "idle", "firing")
  /\ cs' = [cs EXCEPT ![s] = continuations]
  /\ continuations' = <<>>
  /\ UNCHANGED <<block, got, clientVars>>

\* Mutant of set_value_impl: stores without looking.
OverwriteValue(s) ==
  /\ value' = s
  /\ At(s, "idle", "firing")
  /\ cs' = [cs EXCEPT ![s] = continuations]
  /\ continuations' = <<>>
  /\ UNCHANGED <<exception, block, got, clientVars>>

set_value_impl(s) ==
  /\ value' = s
  /\ UNCHANGED exception
  /\ Take(s)

\* Mutant of set_exception: looks for an exception only.
ExceptionBesideValue(s) ==
  /\ s \in Setters
  /\ exception = None
  /\ exception' = s
  /\ At(s, "idle", "firing")
  /\ cs' = [cs EXCEPT ![s] = continuations]
  /\ continuations' = <<>>
  /\ UNCHANGED <<value, block, got, clientVars>>

set_exception(s) ==
  /\ s \in Setters
  /\ exception' = s
  /\ UNCHANGED value
  /\ Take(s)

\* Mutant of SetTooLate: allow_exception is false for every caller.
SetTooLateQuietly(s) ==
  /\ ready
  /\ At(s, "idle", "done")
  /\ UNCHANGED <<stateVars, cs, got, clientVars>>

\* The outcome is there already: promise_already_satisfied, or allow_exception
\* is false and the call returns.
SetTooLate(s) ==
  /\ ready
  /\ At(s, "idle", IF s \in Setters THEN "threw" ELSE "done")
  /\ UNCHANGED <<stateVars, cs, got, clientVars>>

------------------------------------------------------------------------------
(* Running a continuation. *)

\* invoke_and_set_value, for then: the function, called with the future, ends
\* or throws, and the child future is given what it did.
InvokeThen(k) ==
  /\ k \in Thens
  /\ called' = called \cup {k}
  /\ \E outcome \in {"value", "exception"} :
       child' = [child EXCEPT ![k] = outcome]

\* Mutant of InvokeNext: the function is called without get().
InvokeNextAnyway(k) ==
  /\ k \in Nexts
  /\ called' = called \cup {k}
  /\ \E outcome \in {"value", "exception"} :
       child' = [child EXCEPT ![k] = outcome]

\* The same for next: get_and_compose calls get() first, and an exception of
\* this future becomes the child's without a call of the function.
InvokeNext(k) ==
  /\ k \in Nexts
  /\ IF exception # None
     THEN /\ child' = [child EXCEPT ![k] = "exception"]
          /\ UNCHANGED called
     ELSE /\ called' = called \cup {k}
          /\ \E outcome \in {"value", "exception"} :
               child' = [child EXCEPT ![k] = outcome]

InvokeCallback(k) ==
  /\ k \in Callbacks
  /\ called' = called \cup {k}
  /\ UNCHANGED child

Invoke(k) ==
  /\ ran' = [ran EXCEPT ![k] = @ + 1]
  /\ InvokeThen(k) \/ InvokeNext(k) \/ InvokeCallback(k)

\* The loop `for (auto&& f : cs) f();` of the writer, outside the lock.
FireContinuation(s) ==
  /\ pc[s] = "firing"
  /\ cs[s] # <<>>
  /\ Head(cs[s]) # Signal
  /\ Invoke(Head(cs[s]))
  /\ cs' = [cs EXCEPT ![s] = Tail(@)]
  /\ UNCHANGED <<stateVars, pc, got>>

\* Mutant of signal: notify_one.
signal_one(s) ==
  /\ pc[s] = "firing"
  /\ cs[s] # <<>>
  /\ Head(cs[s]) = Signal
  /\ block' = "signalled"
  /\ LET asleep == {g \in Getters : pc[g] = "asleep"}
     IN  IF asleep = {} THEN UNCHANGED pc
         ELSE \E g \in asleep : pc' = [pc EXCEPT ![g] = "blocking"]
  /\ cs' = [cs EXCEPT ![s] = Tail(@)]
  /\ UNCHANGED <<value, exception, continuations, got, clientVars>>

\* The continuation is block::signal: set signalled_ and notify_all.
signal(s) ==
  /\ pc[s] = "firing"
  /\ cs[s] # <<>>
  /\ Head(cs[s]) = Signal
  /\ block' = "signalled"
  /\ pc' = [t \in Threads |-> IF pc[t] = "asleep" THEN "blocking" ELSE pc[t]]
  /\ cs' = [cs EXCEPT ![s] = Tail(@)]
  /\ UNCHANGED <<value, exception, continuations, got, clientVars>>

\* Mutant of FireEnd: the loop may be left before its end.
FireEndEarly(s) ==
  /\ At(s, "firing", "done")
  /\ UNCHANGED <<stateVars, cs, got, clientVars>>

FireEnd(s) ==
  /\ cs[s] = <<>>
  /\ At(s, "firing", "done")
  /\ UNCHANGED <<stateVars, cs, got, clientVars>>

------------------------------------------------------------------------------
(* then, next and continue_with. *)

\* Mutant of Store: emplace_front.
StoreInFront(k) ==
  /\ ~ready
  /\ At(k, "idle", "stored")
  /\ continuations' = <<k>> \o continuations
  /\ UNCHANGED <<value, exception, block, cs, got, clientVars>>

\* No outcome yet: the continuation is stored.
Store(k) ==
  /\ ~ready
  /\ At(k, "idle", "stored")
  /\ continuations' = Append(continuations, k)
  /\ UNCHANGED <<value, exception, block, cs, got, clientVars>>

\* The outcome is there: the lock is released, and the caller runs the
\* continuation, whether or not those stored earlier have run.
FindReady(k) ==
  /\ ready
  /\ At(k, "idle", "inline")
  /\ UNCHANGED <<stateVars, cs, got, clientVars>>

RunInline(k) ==
  /\ At(k, "inline", "done")
  /\ Invoke(k)
  /\ UNCHANGED <<stateVars, cs, got>>

------------------------------------------------------------------------------
(* get: wait, then read without the lock. *)

WaitReady(g) ==
  /\ ready
  /\ At(g, "idle", "reading")
  /\ UNCHANGED <<stateVars, cs, got, clientVars>>

\* Mutant of WaitBlock: the signal is bound before the block is created.
WaitBlockBindsNull(g) ==
  /\ ~ready
  /\ At(g, "idle", "blocking")
  /\ IF block = "absent"
     THEN /\ block' = "armed"
          /\ continuations' = Append(continuations, None)
     ELSE UNCHANGED <<block, continuations>>
  /\ UNCHANGED <<value, exception, cs, got, clientVars>>

\* No outcome yet: the first thread that waits creates the block and leaves
\* its signal among the continuations.
WaitBlock(g) ==
  /\ ~ready
  /\ At(g, "idle", "blocking")
  /\ IF block = "absent"
     THEN /\ block' = "armed"
          /\ continuations' = Append(continuations, Signal)
     ELSE UNCHANGED <<block, continuations>>
  /\ UNCHANGED <<value, exception, cs, got, clientVars>>

\* block::wait evaluates its predicate with the block's mutex held.
Sleep(g) ==
  /\ block # "signalled"
  /\ At(g, "blocking", "asleep")
  /\ UNCHANGED <<stateVars, cs, got, clientVars>>

Awake(g) ==
  /\ block = "signalled"
  /\ At(g, "blocking", "reading")
  /\ UNCHANGED <<stateVars, cs, got, clientVars>>

\* A condition variable may wake a thread for no reason.
SpuriousWake(g) ==
  /\ At(g, "asleep", "blocking")
  /\ UNCHANGED <<stateVars, cs, got, clientVars>>

Read(g) ==
  /\ At(g, "reading", "done")
  /\ got' = [got EXCEPT ![g] = get]
  /\ UNCHANGED <<stateVars, cs, clientVars>>

------------------------------------------------------------------------------
WriterStep(s) ==
  set_value_impl(s) \/ set_exception(s) \/ SetTooLate(s)

\* What a writer that stored an outcome still has to do.
Fire(s) == FireContinuation(s) \/ signal(s) \/ FireEnd(s)

ContinuerStep(k) == Store(k) \/ FindReady(k)

Wait(g) == WaitReady(g) \/ WaitBlock(g)

Blocked(g) == Sleep(g) \/ Awake(g) \/ Read(g)

\* Every thread has made its call.
Terminated ==
  /\ \A t \in Threads : pc[t] \in {"stored", "threw", "done"}
  /\ UNCHANGED vars

Next ==
  \/ \E s \in Writers : WriterStep(s) \/ Fire(s)
  \/ \E k \in Continuers : ContinuerStep(k) \/ RunInline(k)
  \/ \E g \in Getters : Wait(g) \/ Blocked(g) \/ SpuriousWake(g)
  \/ Terminated

\* Threads that are inside a call are scheduled; nobody is obliged to call.
Fairness ==
  /\ \A s \in Writers : WF_vars(Fire(s))
  /\ \A k \in Continuers : WF_vars(RunInline(k))
  /\ \A g \in Getters : WF_vars(Blocked(g))

Spec     == Init /\ [][Next]_vars
FairSpec == Spec /\ Fairness

------------------------------------------------------------------------------
(* Properties. *)

\* Type invariant: every variable of the model of future_state is in range.
TypeOK ==
  /\ value \in Writers \cup {None}
  /\ exception \in Setters \cup {None}
  /\ continuations \in Seq(Continuers \cup {Signal})
  /\ block \in {"absent", "armed", "signalled"}
  /\ pc \in [Threads -> WriterStates \cup ContinuerStates \cup GetterStates]
  /\ \A s \in Writers : pc[s] \in WriterStates
  /\ \A k \in Continuers : pc[k] \in ContinuerStates
  /\ \A g \in Getters : pc[g] \in GetterStates
  /\ cs \in [Writers -> Seq(Continuers \cup {Signal})]
  /\ got \in [Getters -> Writers \cup {None}]
  /\ ran \in [Continuers -> Nat]
  /\ called \in SUBSET Continuers
  /\ child \in [Composers -> {"pending", "value", "exception"}]

\* Whether a continuation is stored in the state or in the hands of a writer.
Pending(k) ==
  k \in ToSet(continuations) \/ \E s \in Writers : k \in ToSet(cs[s])

\* A continuation that then, next or continue_with left with the state is
\* neither lost between the swap and the loop nor run twice: it is pending or
\* it ran, once, and only after an outcome was stored.
ContinuationOnce ==
  \A k \in Continuers :
    /\ Pending(k) <=> pc[k] = "stored" /\ ran[k] = 0
    /\ ran[k] <= 1
    /\ ran[k] = 1 => ready

\* No thread that sleeps in wait is forgotten: while a getter sleeps, a signal
\* of the block is still to come.
SleeperSignalled ==
  \A g \in Getters : pc[g] = "asleep" => block = "armed" /\ Pending(Signal)

\* get() reads without the lock, "because value does not change once it's
\* set": it never dereferences an empty value, and all readers see one outcome.
ReadersAgree ==
  /\ \A g \in Getters : pc[g] = "reading" => get # None
  /\ \A g \in Getters : pc[g] = "done" => got[g] = get
  /\ value = None \/ exception = None

\* Of several set_value and set_exception calls exactly one succeeds, and the
\* outcome readers see is that of the call that did not throw.
OneSetSucceeds ==
  \A s \in Setters : pc[s] \in {"firing", "done"} <=> get = s

\* The future that then or next returned is settled by the continuation, and
\* next hands on an exception without calling its function.
ChildSettled ==
  \A k \in Composers :
    /\ child[k] # "pending" <=> ran[k] > 0
    /\ k \in Nexts /\ ran[k] > 0 /\ exception # None =>
         child[k] = "exception" /\ k \notin called

\* An outcome, once stored, never changes.
OutcomeStable == [][ready => UNCHANGED <<value, exception>>]_vars

\* Once there is an outcome nobody is kept waiting: a thread inside get()
\* returns and a continuation left with the state runs.
EveryoneServed ==
  /\ \A g \in Getters : ready /\ pc[g] # "idle" ~> pc[g] = "done"
  /\ \A k \in Continuers : ready /\ pc[k] # "idle" ~> ran[k] > 0

\* The continuations the writer that stored the outcome, or the first to come,
\* is to run, without the block's signal.
Backlog ==
  Only(IF ready THEN cs[get] \o continuations ELSE continuations, Continuers)

Promised == INSTANCE OneShot WITH
  Clients <- Continuers,
  Readers <- Getters,
  result  <- get,
  pending <- Backlog,
  runs    <- ran,
  seen    <- got

\* The state implements the one-shot cell its clients think of.
ImplementsOneShot == Promised!Spec

=============================================================================
