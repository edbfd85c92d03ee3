----------------------------- MODULE MCComponents -----------------------------
(***************************************************************************)
(* Small instances of EventStoreLifecycle, WorkflowGraph, WorkflowState,   *)
(* ModelRouter and GitOps for TLC, with the fairness of the first.  They   *)
(* share no state, so their interleavings would show nothing: in each      *)
(* behaviour one component runs and the others stay as they are at first.  *)
(***************************************************************************)
EXTENDS EventStoreLifecycle, WorkflowGraph, WorkflowState, ModelRouter, GitOps

CONSTANTS w1, w2, closer1, closer2, k1, k2, n1, n2, n3, p1, p2, a1, a2,
          code_type, doc_type, t1, t2, m1, m2, r1, r2, r3, d1, d2

VARIABLE component

\* EventStoreLifecycle.
TwoWriters == {w1, w2}
TwoClosers == {closer1, closer2}
TwoConns   == {k1, k2}

\* WorkflowGraph.
ThreeNames == {n1, n2, n3}

\* WorkflowState.
TwoPayloads    == {p1, p2}
TwoArtifacts   == {a1, a2}
TwoTypes       == {code_type, doc_type}
OnlyHalt       == {"HALT"}
SomeInputErrors  == {{}, {"forbidden pattern"}}
SomeOutputErrors == {{"none"}, {}, {"deprecated NIM"}}

\* ModelRouter.  Three files: two targets, a file whose second model is rejected, a
\* file without an enabled default.
Model(n, m, v, e) == [name |-> n, model |-> m, valid |-> v, enabled |-> e]
FirstFile == <<Model("default", m1, TRUE, TRUE), Model("coding", m1, TRUE, TRUE)>>
ThreeFiles ==
  {FirstFile,
   <<Model("default", m2, TRUE, TRUE), Model("coding", m2, FALSE, TRUE)>>,
   <<Model("coding", m2, TRUE, TRUE), Model("default", m2, TRUE, FALSE)>>}
TwoTargets == {"default", "coding"}
TwoTasks   == {t1, t2}

\* GitOps.  Two repositories whose names differ in "/" and "_", and a third.
ThreeRepos == {r1, r2, r3}
TwoDirs    == {d1, d2}
DirOf(r)   == IF r = r3 THEN d2 ELSE d1

store  == vars
others == <<graph, workflow, router, git>>
all    == <<component, store, others>>

InStore(A) == component = "store" /\ A /\ UNCHANGED <<component, others>>

ComponentsInit ==
  /\ component \in {"store", "graph", "state", "router", "git"}
  /\ Init /\ GraphInit /\ StateInit /\ RouterInit /\ GitInit
  /\ component # "store"  => schema
  /\ component # "router" => file = FirstFile
  /\ component # "git"    => tree = [d \in Dirs |-> NoTree]

ComponentsNext ==
  \/ InStore(Next)
  \/ /\ UNCHANGED <<component, store>>
     /\ \/ component = "graph"  /\ GraphNext  /\ UNCHANGED <<workflow, router, git>>
        \/ component = "state"  /\ StateNext  /\ UNCHANGED <<graph, router, git>>
        \/ component = "router" /\ RouterNext /\ UNCHANGED <<graph, workflow, git>>
        \/ component = "git"    /\ GitNext    /\ UNCHANGED <<graph, workflow, router>>

ComponentsSpec ==
  /\ ComponentsInit /\ [][ComponentsNext]_all
  /\ \A c \in Callers : WF_all(InStore(Resume(c)))
===============================================================================
