---------------------------- MODULE WorkflowState ----------------------------
(***************************************************************************)
(* The state a workflow carries from node to node, BaseState in            *)
(* src/src/state/state_schema.py, and the decisions that nodes record in   *)
(* it, made by GuardrailsEngine in src/src/governance/guardrails.py and by *)
(* ValidationDecision.merge in src/src/contracts/base_contracts.py.        *)
(*                                                                         *)
(* Every method of BaseState returns a new state.  Between two nodes the   *)
(* state is a dict (to_state_dict, from_state_dict).  Lists of which only  *)
(* membership is ever read, signals and decisions, are sets; a decision is *)
(* its verdict, its suggested action and its errors.  Timestamps, metadata *)
(* and per-node statistics are left out.                                   *)
(***************************************************************************)
EXTENDS Naturals, Sequences, FiniteSets, SequencesExt

CONSTANTS
  Payloads,              \* payload ids
  ArtifactIds, Types,    \* artifact ids and artifact types
  NoArtifact,
  Signals,               \* the signals nodes emit
  max_iterations,        \* of the state
  max_tokens_per_execution,
  guard_iterations,      \* the guardrails engine has limits of its own
  guard_tokens,
  InputErrors,           \* the sets of errors the checks of an input's text find
  OutputErrors           \* the same for an output; {"none"} is no output, or {}

ASSUME ArtifactAssumption == NoArtifact \notin Types

VARIABLES
  state,
  dequeued,  \* history: the payloads taken from the queue, in order
  retyped,   \* history: artifact ids that were added with two types
  refused    \* history: the kinds of refusals that were recorded

workflow == <<state, dequeued, retyped, refused>>

Actions == {"CONTINUE", "HALT", "RETRY", "BRANCH"}

ASSUME SignalsAssumption == Signals \subseteq Actions

\* Refusals of run_full_validation, and of the rails, which may not ask to halt.
Refusals == {"combined", "by rails", "by rails without HALT"}

\* record_validation keeps the decision; is_terminal reads these two fields of it.
Verdict == [valid : BOOLEAN, action : Actions]

StateTypeOK ==
  /\ state \in [iteration : Nat, tokens : Nat,
                artifacts : [ArtifactIds -> Types \cup {NoArtifact}],
                index     : [Types -> SUBSET ArtifactIds],
                pending   : Seq(Payloads), processed : SUBSET Payloads,
                signals   : SUBSET Actions, decisions : SUBSET Verdict]
  /\ dequeued \in Seq(Payloads)
  /\ retyped \subseteq ArtifactIds
  /\ refused \subseteq Refusals

(***************************************************************************)
(* Methods of BaseState.                                                   *)
(***************************************************************************)
Terminal(s) ==
  \/ s.iteration >= max_iterations
  \/ s.tokens >= max_tokens_per_execution
  \/ "HALT" \in s.signals
  \/ [valid |-> FALSE, action |-> "HALT"] \in s.decisions

\* Mutant: the index is made anew.
AddArtifactNewIndex(s, a, t) ==
  [s EXCEPT !.artifacts[a] = t, !.index = [u \in Types |-> IF u = t THEN {a} ELSE {}]]

\* The id stays in the index of the type it had.
AddArtifact(s, a, t) == [s EXCEPT !.artifacts[a] = t, !.index[t] = @ \cup {a}]

ArtifactsOfType(s, t) == {a \in s.index[t] : s.artifacts[a] # NoArtifact}

\* Mutant: only what is pending counts as known.
EnqueueIfNotPending(s, p) ==
  IF Contains(s.pending, p) THEN s
  ELSE [s EXCEPT !.pending = Append(@, p), !.processed = @ \cup {p}]

Enqueue(s, p) ==
  IF p \in s.processed THEN s
  ELSE [s EXCEPT !.pending = Append(@, p), !.processed = @ \cup {p}]

\* What LangGraph carries from one node to the next: sets become lists and back.
ToStateDict(s) ==
  [s EXCEPT !.index = [t \in Types |-> SetToSeq(s.index[t])], !.processed = SetToSeq(@)]

FromStateDict(d) ==
  [d EXCEPT !.index = [t \in Types |-> ToSet(d.index[t])], !.processed = ToSet(@)]

(***************************************************************************)
(* Guardrails: a validator's result is its set of errors.                  *)
(***************************************************************************)
Result(errors) ==
  [valid |-> errors = {}, errors |-> errors, action |-> IF errors = {} THEN "CONTINUE" ELSE "HALT"]

\* validate_input, with a state or without.
ValidateInput(found, given) ==
  Result(found \cup
         (IF given /\ state.iteration >= guard_iterations THEN {"iteration limit"} ELSE {}) \cup
         (IF given /\ state.tokens >= guard_tokens THEN {"token budget"} ELSE {}))

\* validate_transition knows these nodes only.
ValidTransitions ==
  {<<"entry", "processor">>, <<"entry", "validator">>, <<"entry", "end">>,
   <<"processor", "validator">>, <<"processor", "processor">>, <<"processor", "end">>,
   <<"validator", "processor">>, <<"validator", "end">>}

\* validate_output, of an output whose text shows these errors.
ValidateOutput(found) == Result(found)

\* validate_resource_limits, a placeholder that finds nothing.
ValidateResourceLimits == Result({})

ValidateTransition(t) == Result(IF t \in ValidTransitions THEN {} ELSE {"invalid transition"})

\* run_full_validation: an output that is None or empty is not validated, a
\* transition (t, <<>> when the caller gives no nodes) only with a state.
Results(input, output, t, given) ==
  <<ValidateInput(input, given)>> \o
  (IF output = {"none"} THEN <<>> ELSE <<ValidateOutput(output)>>) \o
  (IF given /\ t # <<>> THEN <<ValidateTransition(t)>> ELSE <<>>) \o
  (IF given THEN <<ValidateResourceLimits>> ELSE <<>>)

\* Mutant: the last validator's action stands.
CombineLastAction(results) ==
  [valid  |-> \A i \in DOMAIN results : results[i].valid,
   errors |-> UNION {results[i].errors : i \in DOMAIN results},
   action |-> Last(results).action]

\* _combine_decisions.
Combine(results) ==
  [valid  |-> \A i \in DOMAIN results : results[i].valid,
   errors |-> UNION {results[i].errors : i \in DOMAIN results},
   action |-> IF \E i \in DOMAIN results : results[i].action = "HALT" THEN "HALT" ELSE "CONTINUE"]

\* ValidationDecision.merge.
Merge(d, e) ==
  [valid  |-> d.valid /\ e.valid,
   errors |-> d.errors \cup e.errors,
   action |-> IF "HALT" \in {d.action, e.action} THEN "HALT" ELSE "CONTINUE"]

RecordValidation(s, d) ==
  [s EXCEPT !.decisions = @ \cup {[valid |-> d.valid, action |-> d.action]}]

(***************************************************************************)
(* What a node may do with the state it is given.                          *)
(***************************************************************************)
Becomes(s) == state' = s /\ UNCHANGED <<dequeued, retyped, refused>>

\* Bounds: max_iterations and max_tokens_per_execution, where nothing more happens
\* that a later state does not also show.
IncrementIteration ==
  /\ state.iteration < max_iterations
  /\ Becomes([state EXCEPT !.iteration = @ + 1])

UpdateNodeMetrics ==
  /\ state.tokens < max_tokens_per_execution
  /\ Becomes([state EXCEPT !.tokens = @ + 1])

EmitSignal(action) == Becomes([state EXCEPT !.signals = @ \cup {action}])

EnqueuePayload(p) == Becomes(Enqueue(state, p))

\* dequeue_payload on an empty queue returns None and the same state.
DequeuePayload ==
  /\ state.pending # <<>>
  /\ state' = [state EXCEPT !.pending = Tail(@)]
  /\ dequeued' = Append(dequeued, Head(state.pending))
  /\ UNCHANGED <<retyped, refused>>

AddArtifactItem(a, t) ==
  /\ state' = AddArtifact(state, a, t)
  /\ retyped' = IF state.artifacts[a] \in {t, NoArtifact} THEN retyped ELSE retyped \cup {a}
  /\ UNCHANGED <<dequeued, refused>>

\* run_full_validation and record_validation.
Validate(input, output, t, given) ==
  LET decision == Combine(Results(input, output, t, given)) IN
  /\ state' = RecordValidation(state, decision)
  /\ refused' = refused \cup (IF decision.valid THEN {} ELSE {"combined"})
  /\ UNCHANGED <<dequeued, retyped>>

\* Mutant: an exception of the rails lets the workflow go on.
RailsRaisedGoesOn == [valid |-> FALSE, action |-> "CONTINUE"]

\* run_rails_validation: an exception of the rails, and an answer whose action is not
\* one, is a refusal that halts.
RailsRaised == [valid |-> FALSE, action |-> "HALT"]

\* An answer that is a dict is taken as it is, and means CONTINUE when it names no
\* action, also when it is a refusal.  Any other answer is the one without both keys.
RailsAnswered(valid, action) ==
  [valid |-> valid, action |-> IF action = "none" THEN "CONTINUE" ELSE action]

\* record_validation of the rails' decision; asked is the action they asked for.
ValidateByRails(decision, asked) ==
  /\ state' = RecordValidation(state, decision)
  /\ refused' = refused \cup
       (IF decision.valid THEN {}
        ELSE IF asked = "HALT" THEN {"by rails"} ELSE {"by rails without HALT"})
  /\ UNCHANGED <<dequeued, retyped>>

EnterNextNode == Becomes(FromStateDict(ToStateDict(state)))

StateInit ==
  /\ state = [iteration |-> 0, tokens |-> 0,
              artifacts |-> [a \in ArtifactIds |-> NoArtifact], index |-> [t \in Types |-> {}],
              pending |-> <<>>, processed |-> {}, signals |-> {}, decisions |-> {}]
  /\ dequeued = <<>> /\ retyped = {} /\ refused = {}

Transitions == {<<>>, <<"entry", "processor">>, <<"validator", "validator">>}

StateNext ==
  \/ IncrementIteration \/ UpdateNodeMetrics \/ DequeuePayload \/ EnterNextNode
  \/ \E action \in Signals : EmitSignal(action)
  \/ \E p \in Payloads : EnqueuePayload(p)
  \/ \E a \in ArtifactIds, t \in Types : AddArtifactItem(a, t)
  \/ \E input \in InputErrors, output \in OutputErrors, t \in Transitions, given \in BOOLEAN :
       Validate(input, output, t, given)
  \/ ValidateByRails(RailsRaised, "HALT")
  \/ \E valid \in BOOLEAN, action \in {"HALT", "CONTINUE", "none"} :
       ValidateByRails(RailsAnswered(valid, action), action)

StateSpec == StateInit /\ [][StateNext]_workflow

(***************************************************************************)
(* Properties.                                                             *)
(***************************************************************************)
\* A payload id goes through the queue at most once, whatever order nodes enqueue,
\* dequeue and hand the state on in, and none that was accepted is lost: what was
\* dequeued and what is pending are together the accepted ids, each once.
\* Code: state_schema.py enqueue_payload, dequeue_payload, to_state_dict.
PayloadsOnce ==
  LET through == dequeued \o state.pending
  IN  IsInjective(through) /\ ToSet(through) = state.processed

\* An artifact is found under its type, and a look-up by type finds another type's
\* artifact only when that id was added with two types.
\* Code: state_schema.py add_artifact, get_artifacts_by_type.
ArtifactsFound ==
  /\ \A a \in ArtifactIds : state.artifacts[a] # NoArtifact =>
       a \in ArtifactsOfType(state, state.artifacts[a])
  /\ \A t \in Types, a \in ArtifactIds \ retyped :
       a \in ArtifactsOfType(state, t) => state.artifacts[a] = t

\* Once a refusal of a full validation, whichever of its validators refused, or of rails
\* that raised or asked to halt, is recorded, the state is terminal for good, whatever
\* else is recorded and however often the state becomes a dict.  A refusal of the rails
\* that names no action halts nothing: run_rails_validation takes it for CONTINUE.
\* Code: guardrails.py _combine_decisions, run_rails_validation, state_schema.py
\* record_validation, is_terminal.
RefusalHalts == refused \cap {"combined", "by rails"} # {} => Terminal(state)
==============================================================================
