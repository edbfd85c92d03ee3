----------------------------- MODULE TTCExecutor -----------------------------
(***************************************************************************)
(* src/src/runtime/ttc.py: a TTCExecutor runs its function num_executions  *)
(* times for every call of execute and selects one of the results.         *)
(*                                                                         *)
(* execute takes the results in the order the tasks finish (as_completed). *)
(* It stops early when it has taken early_stop_threshold of them, cancels  *)
(* the others and awaits their end; when a task raised, or execute itself  *)
(* is cancelled, it leaves the others running.  All calls of one executor  *)
(* share its semaphore, so what one call leaves behind delays the next.    *)
(***************************************************************************)
EXTENDS Naturals, Sequences, FiniteSets, SequencesExt

CONSTANTS
  Calls,            \* calls of execute on one executor
  num_executions,   \* TTCConfig
  max_concurrency,  \* TTCConfig; None is any number of all executions together
  Thresholds,       \* early_stop_threshold; 0 is False and 1 is True as well
  Answers,          \* results of the function
  Raised,           \* what a task that raised ends with
  NoAnswer          \* none yet

ASSUME ExecutionsAssumption  == num_executions \in Nat
ASSUME ConcurrencyAssumption == max_concurrency \in Nat
ASSUME AnswersAssumption     == NoAnswer \notin Answers /\ Raised \notin Answers
ASSUME ThresholdsAssumption  == Thresholds \subseteq Nat

Executions == Calls \X (1..num_executions)
Own(c)     == {t \in Executions : t[1] = c}

VARIABLES
  early_stop_threshold,
  accepted,     \* __post_init__ accepted the configuration
  call,         \* where each call of execute is
  stage,        \* each execution's task
  waiting,      \* executions waiting for the semaphore, first come first served
  finished,     \* how tasks of a call that awaits them ended, in order, not yet taken
  results,      \* results each call has taken
  selected      \* what each call returned

config == <<early_stop_threshold, accepted>>
tasks  == <<stage, waiting>>
ttc    == <<config, call, tasks, finished, results, selected>>

TTCTypeOK ==
  /\ early_stop_threshold \in Thresholds /\ accepted \in BOOLEAN
  /\ call \in [Calls -> {"idle", "awaiting", "gathering", "returned", "raised", "cancelled"}]
  /\ stage \in [Executions -> {"none", "waiting", "running", "cancelling", "over"}]
  /\ \A t \in Executions : stage[t] = "waiting" <=> t \in ToSet(waiting)
  /\ \A c \in Calls : /\ finished[c] \in Seq(Answers \cup {Raised})
                      /\ results[c] \in Seq(Answers)
                      /\ Len(results[c]) + Len(finished[c]) <= num_executions
  /\ selected \in [Calls -> Answers \cup {NoAnswer}]

\* __post_init__.  False is an int below 1, so the default is refused.
PostInit(threshold) == num_executions >= 1 /\ max_concurrency >= 1 /\ threshold >= 1

Executing == {t \in Executions : stage[t] \in {"running", "cancelling"}}

(***************************************************************************)
(* Selectors.                                                              *)
(***************************************************************************)
Count(a, rs) == Cardinality({i \in DOMAIN rs : rs[i] = a})

FirstIndex(a, rs) == CHOOSE i \in DOMAIN rs : rs[i] = a /\ \A j \in 1..i - 1 : rs[j] # a

\* Mutant: min for max.
MinorityVote(rs) == CHOOSE a \in ToSet(rs) : \A b \in ToSet(rs) : Count(a, rs) <= Count(b, rs)

\* majority_vote_selector: max over a dict in the order of first occurrence.
MajorityVote(rs) ==
  CHOOSE a \in ToSet(rs) : \A b \in ToSet(rs) \ {a} :
    \/ Count(b, rs) < Count(a, rs)
    \/ Count(b, rs) = Count(a, rs) /\ FirstIndex(a, rs) < FirstIndex(b, rs)

\* _should_early_stop.
ShouldEarlyStop(completed) == early_stop_threshold # 0 /\ completed >= early_stop_threshold

(***************************************************************************)
(* execute.                                                                *)
(***************************************************************************)
\* All tasks are created at once and come to the semaphore in that order.
Execute(c) ==
  /\ accepted /\ call[c] = "idle"
  /\ call' = [call EXCEPT ![c] = "awaiting"]
  /\ stage' = [t \in Executions |-> IF t \in Own(c) THEN "waiting" ELSE stage[t]]
  /\ waiting' = waiting \o [i \in 1..num_executions |-> <<c, i>>]
  /\ UNCHANGED <<config, finished, results, selected>>

\* Mutant: an early stop does not await the tasks it cancels.
AfterCancelReturns == "returned"

\* Where an early stop goes after cancelling.
AfterCancel == "gathering"

\* Tasks that wait leave the queue; those that run end at their next await.
CancelRemaining(c) ==
  /\ stage' = [t \in Executions |->
       CASE t \in Own(c) /\ stage[t] = "waiting" -> "over"
         [] t \in Own(c) /\ stage[t] = "running" -> "cancelling"
         [] OTHER -> stage[t]]
  /\ waiting' = SelectSeq(waiting, LAMBDA t : t[1] # c)

\* The loop over as_completed is left; what finishes from here on nobody takes.
Leave(c) == finished' = [finished EXCEPT ![c] = <<>>]

\* One turn of the loop: the next finished task returned.
TakeResult(c) ==
  LET rs == Append(results[c], Head(finished[c]))
  IN  /\ call[c] = "awaiting" /\ finished[c] # <<>>
      /\ Head(finished[c]) # Raised
      /\ results' = [results EXCEPT ![c] = rs]
      /\ \/ /\ ShouldEarlyStop(Len(rs))
            /\ call' = [call EXCEPT ![c] = AfterCancel]
            /\ Leave(c) /\ CancelRemaining(c)
            /\ UNCHANGED selected
         \/ /\ ~ShouldEarlyStop(Len(rs)) /\ Len(rs) = num_executions
            /\ call' = [call EXCEPT ![c] = "returned"]
            /\ selected' = [selected EXCEPT ![c] = MajorityVote(rs)]
            /\ Leave(c) /\ UNCHANGED tasks
         \/ /\ ~ShouldEarlyStop(Len(rs)) /\ Len(rs) < num_executions
            /\ finished' = [finished EXCEPT ![c] = Tail(@)]
            /\ UNCHANGED <<call, tasks, selected>>
      /\ UNCHANGED config

\* The gather over all tasks returned, whatever they ended with.
Gathered(c) ==
  /\ call[c] = "gathering"
  /\ \A t \in Own(c) : stage[t] \in {"none", "over"}
  /\ call' = [call EXCEPT ![c] = "returned"]
  /\ selected' = [selected EXCEPT ![c] = MajorityVote(results[c])]
  /\ UNCHANGED <<config, tasks, finished, results>>

\* "await coro" raises what the task raised; the other tasks go on.
TakeFailure(c) ==
  /\ call[c] = "awaiting" /\ finished[c] # <<>>
  /\ Head(finished[c]) = Raised
  /\ call' = [call EXCEPT ![c] = "raised"]
  /\ Leave(c)
  /\ UNCHANGED <<config, tasks, results, selected>>

\* execute itself is cancelled; gather cancels its tasks, as_completed does not.
CancelCall(c) ==
  /\ call[c] \in {"awaiting", "gathering"}
  /\ call' = [call EXCEPT ![c] = "cancelled"]
  /\ Leave(c)
  /\ UNCHANGED <<config, tasks, results, selected>>

(***************************************************************************)
(* _execute_single.                                                        *)
(***************************************************************************)
\* The semaphore admits the first that waits; how it hands a permit over is in
\* NIMClient.
Start(t) ==
  /\ stage[t] = "waiting"
  /\ waiting # <<>> /\ t = Head(waiting)
  /\ Cardinality(Executing) < max_concurrency
  /\ waiting' = Tail(waiting)
  /\ stage' = [stage EXCEPT ![t] = "running"]
  /\ UNCHANGED <<config, call, finished, results, selected>>

\* The task ends; its call, if it still looks, finds it among the finished.
End(t, outcome) ==
  /\ stage[t] = "running"
  /\ stage' = [stage EXCEPT ![t] = "over"]
  /\ finished' = [finished EXCEPT ![t[1]] = IF call[t[1]] = "awaiting" THEN Append(@, outcome) ELSE @]
  /\ UNCHANGED <<config, call, waiting, results, selected>>

Complete(t, a) == End(t, a)

Fail(t) == End(t, Raised)

\* Mutant: a cancelled task keeps its permit.
CancelledStays(t) == stage[t] = "cancelling" /\ UNCHANGED ttc

\* The cancelled function ended; the permit is free.
Cancelled(t) ==
  /\ stage[t] = "cancelling"
  /\ stage' = [stage EXCEPT ![t] = "over"]
  /\ UNCHANGED <<config, call, waiting, finished, results, selected>>

TTCInit ==
  /\ early_stop_threshold \in Thresholds
  /\ accepted = PostInit(early_stop_threshold)
  /\ call = [c \in Calls |-> "idle"]
  /\ stage = [t \in Executions |-> "none"]
  /\ waiting = <<>>
  /\ finished = [c \in Calls |-> <<>>]
  /\ results = [c \in Calls |-> <<>>]
  /\ selected = [c \in Calls |-> NoAnswer]

CallStep(c) == TakeResult(c) \/ TakeFailure(c) \/ Gathered(c)
TaskEnds(t) == (\E a \in Answers : Complete(t, a)) \/ Fail(t) \/ Cancelled(t)

TTCNext ==
  \/ \E c \in Calls : Execute(c) \/ CallStep(c) \/ CancelCall(c)
  \/ \E t \in Executions : Start(t) \/ TaskEnds(t)

TTCSpec == TTCInit /\ [][TTCNext]_ttc

\* asyncio runs a task that can go on, and the function ends, with or without a
\* result (for a call of the model, NIMClient's InvokesEnd): one after the other.
TTCFairSpec ==
  /\ TTCSpec
  /\ \A c \in Calls : WF_ttc(CallStep(c))
  /\ WF_ttc(\E t \in Executions : Start(t))
  /\ WF_ttc(\E t \in Executions : TaskEnds(t))

(***************************************************************************)
(* Properties.                                                             *)
(***************************************************************************)
\* A call that returned, early or not, has no task left that could still use the
\* model or hold a permit.  (One that raised or was cancelled may have.)
\* Code: ttc.py execute, the gather after cancel.
ReturnedCallsAreQuiet ==
  \A c \in Calls : call[c] = "returned" => \A t \in Own(c) : stage[t] \in {"none", "over"}

\* What a call selects has as many votes as any other answer among the results it
\* took, whether it stopped early or not and whatever its other tasks end with.
\* Code: ttc.py execute, majority_vote_selector.
SelectedByPlurality ==
  \A c \in Calls : call[c] = "returned" =>
    \A a \in Answers : Count(a, results[c]) <= Count(selected[c], results[c])

\* A call that returned before its last result did so because early_stop_threshold
\* of the results it took agree.
\* Code: ttc.py _should_early_stop; "Stop if 3 results agree" at line 54.
StopsOnAgreement ==
  \A c \in Calls : call[c] = "returned" =>
    \/ Len(results[c]) = num_executions
    \/ \E a \in Answers : Count(a, results[c]) >= early_stop_threshold

\* Every call ends, also when tasks that earlier calls left behind hold the
\* permits it needs.
\* Code: ttc.py execute, _execute_single.
ExecuteEnds ==
  \A c \in Calls : call[c] = "awaiting" ~> call[c] \in {"returned", "raised", "cancelled"}
==============================================================================
