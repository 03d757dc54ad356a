----------------------------- MODULE Combinators -----------------------------
(***************************************************************************)
(* The functions that make a future of futures: when_all over a range and  *)
(* over a tuple, when_any_ready over a range, and unwrap.  One thread      *)
(* makes one of these calls while others complete the futures.             *)
(*                                                                         *)
(* A future is used as a one-shot cell (module OneShot): continue_with and *)
(* then leave a continuation with it, which the thread that completes the  *)
(* future runs later, or find it ready, and the caller runs it.  A         *)
(* continuation is named by the iteration that left it.  A range may name  *)
(* a future twice and hold futures without a state.                        *)
(*                                                                         *)
(* unwrap: fs[0] is the outer future and fs[1] its value, the inner one.   *)
(* Positions count from 0, as the result of when_any_ready does.           *)
(***************************************************************************)
EXTENDS Integers, SequencesExt

CONSTANTS
  Calls,      \* which calls are made
  Futures,    \* states of futures
  N,          \* length of the range: diff, or the size of the tuple
  Invalid,    \* a future without a state
  NoneValid,  \* std::size_t(-1)
  None        \* not set, or nothing to run

Positions == 0..N - 1

ASSUME CombinatorsConstants ==
  /\ Calls \subseteq {"when_all", "when_all tuple", "when_any", "unwrap"}
  /\ N \in Nat \ {0} /\ ("unwrap" \in Calls => N > 1)
  /\ Invalid \notin Futures \cup Positions /\ Futures \cap Positions = {}
  /\ NoneValid \notin Positions
  /\ None \notin Nat /\ None # NoneValid
  /\ None \notin {"ready", "broken", "value", "exception"}

\* to_future_void makes a future for each element of a tuple; it is named by
\* the element's position.
Cells == Futures \cup Positions

VARIABLES
  call,                \* the call that is made
  fs,                  \* its futures
  outcome,             \* of each future: pending, value or exception
  stored,              \* the continuations a future holds
  firing,              \* the continuations of a complete future still to run
  inline,              \* a continuation whose future was found ready
  i,                   \* the loop
  at_least_one_valid,
  counter,             \* *counter
  result,              \* what the promise of the call was given
  vector               \* the future when_all returned

vars == <<call, fs, outcome, stored, firing, inline, i, at_least_one_valid, counter,
          result, vector>>

\* Mutant of diff: one short.
diff_short == N - 1

\* What when_all_ready counts down from.
diff == N

Init ==
  /\ call \in Calls
  /\ fs \in [Positions -> Futures \cup {Invalid}]
  /\ call = "unwrap" =>
       fs[0] \in Futures \ {fs[1]} /\ \A p \in Positions \ {0, 1} : fs[p] = Invalid
  /\ outcome = [c \in Cells |-> "pending"]
  /\ stored = [c \in Cells |-> <<>>]
  /\ firing = [c \in Cells |-> <<>>]
  /\ inline = None
  /\ i = 0
  /\ at_least_one_valid = FALSE
  /\ counter = diff
  /\ result = None
  /\ vector = "pending"

------------------------------------------------------------------------------
(* What the caller does: a loop that leaves a continuation with each future. *)

\* A tuple is walked over twice, the second time over the new futures.
Iterations ==
  IF call = "unwrap" THEN 1 ELSE IF call = "when_all tuple" THEN 2 * N ELSE N

\* The future iteration k looks at.  when_any_ready: *first, in every one.
Watched(k) ==
  IF call = "when_any" THEN fs[0] ELSE IF k >= N THEN k - N ELSE fs[k]

\* Mutant of continue_with: a valid future is taken for a ready one.
continue_with_unready(k, rest) == inline' = k /\ UNCHANGED stored

\* Leave k with its future.  If it is ready, k is to run at once; else `rest`
\* is what the thread has to run.
continue_with(k, rest) ==
  LET c == Watched(k)
  IN  IF outcome[c] = "pending"
      THEN stored' = [stored EXCEPT ![c] = Append(@, k)] /\ inline' = rest
      ELSE inline' = k /\ UNCHANGED stored

Looking == i < Iterations /\ inline = None

Register ==
  /\ Looking
  /\ Watched(i) # Invalid
  /\ continue_with(i, None)
  /\ i' = i + 1
  /\ at_least_one_valid' = TRUE
  /\ UNCHANGED <<call, fs, outcome, firing, counter, result, vector>>

\* Mutant of dec: compares with <= after the decrement.
dec_twice ==
  /\ counter' = counter - 1
  /\ result' = IF counter > 2 THEN result ELSE IF result = None THEN "ready" ELSE "broken"

\* Mutant of dec: tests the value after the decrement, not the one before it.
dec_late ==
  /\ counter' = counter - 1
  /\ result' = IF counter # 0 THEN result ELSE "ready"

\* if (counter->fetch_sub(1) == 1) prm->set_value(); broken when that throws.
dec ==
  /\ counter' = counter - 1
  /\ result' = IF counter # 1 THEN result ELSE IF result = None THEN "ready" ELSE "broken"

\* A future without a state counts at once for when_all, is a ready future<void>
\* for a tuple, and nothing for when_any_ready.
RegisterInvalid ==
  /\ Looking
  /\ Watched(i) = Invalid
  /\ i' = i + 1
  /\ IF call = "when_all" THEN dec ELSE UNCHANGED <<counter, result>>
  /\ IF call = "when_all tuple"
     THEN outcome' = [outcome EXCEPT ![i] = "value"]
     ELSE UNCHANGED outcome
  /\ UNCHANGED <<call, fs, stored, firing, inline, at_least_one_valid, vector>>

\* Mutant of AnswerNoneValid: no answer when no future is valid.
AnswerNoneValidSilent ==
  /\ call = "when_any" /\ i = N /\ inline = None
  /\ i' = N + 1
  /\ UNCHANGED <<call, fs, outcome, stored, firing, inline, at_least_one_valid, counter,
                 result, vector>>

\* when_any_ready after its loop.
AnswerNoneValid ==
  /\ call = "when_any" /\ i = N /\ inline = None
  /\ i' = N + 1
  /\ result' = IF at_least_one_valid THEN result ELSE NoneValid
  /\ UNCHANGED <<call, fs, outcome, stored, firing, inline, at_least_one_valid, counter,
                 vector>>

------------------------------------------------------------------------------
(* Continuation k runs; rest and left are what inline and firing are then.   *)

\* dec of when_all_ready.
RunDec(k, rest, left) ==
  /\ call = "when_all" \/ (call = "when_all tuple" /\ k >= N)
  /\ dec
  /\ inline' = rest /\ firing' = left
  /\ UNCHANGED <<outcome, stored>>

\* The function that to_future_void gives to then: it ignores the outcome, and
\* the future of position k is complete.
RunElement(k, rest, left) ==
  /\ call = "when_all tuple" /\ k < N
  /\ outcome' = [outcome EXCEPT ![k] = "value"]
  /\ stored' = [stored EXCEPT ![k] = <<>>]
  /\ firing' = [left EXCEPT ![k] = stored[k]]
  /\ inline' = rest
  /\ UNCHANGED <<counter, result>>

\* set_value_impl(k, false) of when_any_ready: only the first has an effect.
RunAnswer(k, rest, left) ==
  /\ call = "when_any"
  /\ result' = IF result = None THEN k ELSE result
  /\ inline' = rest /\ firing' = left
  /\ UNCHANGED <<outcome, stored, counter>>

\* The outer future of unwrap holds an exception: get() comes before the try,
\* and the exception ends up in the future that then returned, which is dropped.
RunOuterThrows(k, rest, left) ==
  /\ call = "unwrap" /\ k = 0
  /\ outcome[fs[0]] = "exception"
  /\ inline' = rest /\ firing' = left
  /\ UNCHANGED <<outcome, stored, counter, result>>

\* wrapped_state->continue_with(...), which may be called on null.
RunOuter(k, rest, left) ==
  /\ call = "unwrap" /\ k = 0
  /\ outcome[fs[0]] = "value"
  /\ IF fs[1] = Invalid
     THEN result' = "crashed" /\ inline' = rest /\ UNCHANGED stored
     ELSE continue_with(1, rest) /\ UNCHANGED result
  /\ firing' = left
  /\ UNCHANGED <<outcome, counter>>

\* Mutant of RunInner: f.get() is left out for a future<void>.
RunInnerNoGet(k, rest, left) ==
  /\ call = "unwrap" /\ k = 1
  /\ result' = "value"
  /\ inline' = rest /\ firing' = left
  /\ UNCHANGED <<outcome, stored, counter>>

\* get_and_set_value, or set_exception of what f.get() throws.
RunInner(k, rest, left) ==
  /\ call = "unwrap" /\ k = 1
  /\ result' = outcome[fs[1]]
  /\ inline' = rest /\ firing' = left
  /\ UNCHANGED <<outcome, stored, counter>>

Run(k, rest, left) ==
  /\ \/ RunDec(k, rest, left)         \/ RunElement(k, rest, left)
     \/ RunAnswer(k, rest, left)      \/ RunOuter(k, rest, left)
     \/ RunOuterThrows(k, rest, left) \/ RunInner(k, rest, left)
  /\ UNCHANGED <<call, fs, i, at_least_one_valid, vector>>

RunInline == inline # None /\ Run(inline, None, firing)

\* The thread that completed a future runs what the future held, in order.
Fire(c) ==
  /\ firing[c] # <<>>
  /\ Run(Head(firing[c]), inline, [firing EXCEPT ![c] = Tail(@)])

\* Mutant of Complete: the continuations are dropped.
CompleteSilent(f) ==
  /\ outcome[f] = "pending"
  /\ \E o \in {"value", "exception"} : outcome' = [outcome EXCEPT ![f] = o]
  /\ stored' = [stored EXCEPT ![f] = <<>>]
  /\ UNCHANGED <<call, fs, firing, inline, i, at_least_one_valid, counter, result, vector>>

\* Some thread completes a future and takes its continuations.
Complete(f) ==
  /\ outcome[f] = "pending"
  /\ \E o \in {"value", "exception"} : outcome' = [outcome EXCEPT ![f] = o]
  /\ firing' = [firing EXCEPT ![f] = stored[f]]
  /\ stored' = [stored EXCEPT ![f] = <<>>]
  /\ UNCHANGED <<call, fs, inline, i, at_least_one_valid, counter, result, vector>>

------------------------------------------------------------------------------
IsWhenAll == call \in {"when_all", "when_all tuple"}

\* A position get() would wait at: valid and not complete.
Incomplete(p) == fs[p] \in Futures /\ outcome[fs[p]] = "pending"

\* The function when_all gives to then: get() at each position, which throws
\* for an exception and for a future without a state.
Collect ==
  /\ IsWhenAll /\ i = Iterations
  /\ result = "ready"
  /\ vector = "pending"
  /\ ~ \E p \in Positions : Incomplete(p)
  /\ vector' = IF \A p \in Positions : fs[p] \in Futures /\ outcome[fs[p]] = "value"
               THEN "value" ELSE "exception"
  /\ UNCHANGED <<call, fs, outcome, stored, firing, inline, i, at_least_one_valid, counter,
                 result>>

\* Everything is complete and has run.
Terminated ==
  /\ i >= Iterations /\ inline = None
  /\ \A f \in Futures : outcome[f] # "pending"
  /\ \A c \in Cells : firing[c] = <<>>
  /\ UNCHANGED vars

Caller == Register \/ RegisterInvalid \/ AnswerNoneValid \/ RunInline

Next ==
  \/ Caller
  \/ \E f \in Futures : Complete(f)
  \/ \E c \in Cells : Fire(c)
  \/ Collect
  \/ Terminated

\* Threads run what they have to run.  Nothing makes a future complete.
Fairness ==
  /\ WF_vars(Caller) /\ WF_vars(Collect)
  /\ \A c \in Cells : WF_vars(Fire(c))

Spec     == Init /\ [][Next]_vars
FairSpec == Spec /\ Fairness

------------------------------------------------------------------------------
(* Properties. *)

\* when_all_ready is ready only when every valid future is, also when futures
\* complete while the range is still walked over: the get() of when_all's
\* continuation never blocks the thread it runs on.
ReadyMeansAll ==
  IsWhenAll /\ result # None => \A p \in Positions : ~Incomplete(p)

\* Whoever brings the counter to zero is alone: set_value is called once.
SetOnce == IsWhenAll => result # "broken"

\* when_all's future is ready once all futures are.
AllReadyEnds ==
  IsWhenAll /\ (\A p \in Positions : ~Incomplete(p)) ~> vector # "pending"

\* when_any_ready answers a position only when the future it watched is ready.
AnswerReady ==
  call = "when_any" /\ result # None /\ result # NoneValid => outcome[fs[0]] # "pending"

\* when_any_ready has an answer when nothing can complete it, and once the
\* first future is ready.
Answered ==
  /\ call = "when_any" /\ (\A p \in Positions : fs[p] = Invalid) ~> result = NoneValid
  /\ call = "when_any" /\ fs[0] \in Futures /\ ~Incomplete(0) ~> result # None

\* size_t(-1) is the answer only "to avoid blocking forever", when no future of
\* the range is valid.
NoneValidMeansNone ==
  call = "when_any" /\ result = NoneValid => \A p \in Positions : fs[p] = Invalid

\* An unwrapped future that is ready has the outcome of the inner one, in
\* whatever order the two futures and the call complete.
SameOutcome ==
  call = "unwrap" /\ result \in {"value", "exception"} =>
    outcome[fs[0]] = "value" /\ outcome[fs[1]] = result

\* When the outer and the inner future are complete, so is the unwrapped one.
ValuesArrive ==
  call = "unwrap" /\ outcome[fs[0]] = "value" /\ ~Incomplete(1) ~> result # None

\* "ff.get(); // throws": an exception of the outer future arrives.
ExceptionsArrive ==
  call = "unwrap" /\ outcome[fs[0]] = "exception" ~> result = "exception"

=============================================================================
