------------------------------ MODULE MCExecutors ------------------------------
(***************************************************************************)
(* Small instances of EventStore, TTCExecutor and Observability for TLC,   *)
(* with fairness.  They share no state: in each behaviour one of them runs *)
(* and the others stay as they are at first, so only the fairness of the   *)
(* one that runs is asked for.                                             *)
(***************************************************************************)
EXTENDS EventStore, TTCExecutor, Observability

CONSTANTS w1, w2, u1, e1, e2, a, b, c1, c2

VARIABLE component

\* EventStore.  The second batch resubmits an event of the first.
TwoWriters == {w1, w2}
OneUuid    == {u1}
TwoBatches == {<<e1, e2>>, <<e2>>}

\* TTCExecutor.
TwoCalls       == {c1, c2}
TwoAnswers     == {a, b}
SomeThresholds == {0, 2, 4}

\* Observability.  A type that makes a step of the trajectory, one that is mapped
\* differently by the bridge and makes another, and one that makes none.
SomeKinds == {"llm_start", "tool_end", "mark"}

store == vars
all   == <<component, store, ttc, plugin>>

InStore(A)  == component = "store" /\ A /\ UNCHANGED <<component, ttc, plugin>>
InTTC(A)    == component = "ttc" /\ A /\ UNCHANGED <<component, store, plugin>>
InPlugin(A) == component = "plugin" /\ A /\ UNCHANGED <<component, store, ttc>>

ExecutorsInit ==
  /\ component \in {"store", "ttc", "plugin"}
  /\ Init /\ TTCInit /\ PluginInit
  /\ component # "ttc" => early_stop_threshold = 2

ExecutorsNext == InStore(Next) \/ InTTC(TTCNext) \/ InPlugin(PluginNext)

\* Only one component takes steps in a behaviour, so fairness of a disjunction over
\* components is the fairness of each.
ExecutorsSpec ==
  /\ ExecutorsInit /\ [][ExecutorsNext]_all
  /\ WF_all(InStore(Resume(w1)) \/ InTTC(CallStep(c1)) \/ InPlugin(Activate))
  /\ WF_all(InStore(Resume(w2)) \/ InTTC(CallStep(c2)) \/ InPlugin(StartFlush))
  /\ WF_all(InStore(Worker) \/ InTTC(\E t \in Executions : Start(t)) \/ InPlugin(Deactivate))
  /\ WF_all(InTTC(\E t \in Executions : TaskEnds(t))
              \/ InPlugin(Recorded("task") \/ RecordFailed("task")))
  /\ WF_all(InPlugin(Recorded("forced") \/ RecordFailed("forced")))
================================================================================
