--------------------------- MODULE Components_proofs ---------------------------
(***************************************************************************)
(* Proofs about the components that share no state with any other:         *)
(* WorkflowGraph, WorkflowState, ModelRouter and GitOps.  One section for  *)
(* each: its inductive invariant, the lemma that its steps preserve it,    *)
(* and the theorems, for every value of the constants.                     *)
(***************************************************************************)
EXTENDS WorkflowGraph, WorkflowState, ModelRouter, GitOps, DataLemmas

(***************************************************************************)
(* WorkflowGraph: what a compiled graph may route to.                      *)
(***************************************************************************)
GraphTyped ==
  /\ nodes \subseteq Names /\ edges \subseteq Edge
  /\ conditional \in [Names -> Seq(Targets)]
  /\ compiled.shared \subseteq Names
  /\ DOMAIN compiled.map = Names
  /\ DOMAIN after = Names

\* A node that shares its list with the compiled graph has in its edge map what the list
\* held at compile, and END.
SharedKnown ==
  \A n \in compiled.shared : END \in compiled.map[n]
                             /\ Range(conditional[n]) \subseteq compiled.map[n] \cup after[n]

GraphInv == GraphTyped /\ SharedKnown

LEMMA InitGraphInv == GraphInit => GraphInv
<1> SUFFICES ASSUME GraphInit PROVE GraphInv
  OBVIOUS
<1>1. \A n \in Names : conditional[n] \in Seq(Targets)
  BY EmptySeq DEF GraphInit
<1> QED BY <1>1 DEF GraphInit, GraphInv, GraphTyped, SharedKnown, NotCompiled

LEMMA StepGraphInv == GraphInv /\ [GraphNext]_graph => GraphInv'
<1> SUFFICES ASSUME GraphInv, [GraphNext]_graph PROVE GraphInv'
  OBVIOUS
<1> USE DEF GraphInv
<1>1. CASE UNCHANGED graph
  BY <1>1 DEF graph, engine, GraphTyped, SharedKnown
<1>2. CASE Compile
  <2>1. /\ compiled' = [entry |-> entry, map |-> [n \in Names |-> EdgeMap(n)],
                        shared |-> {n \in Names : Len(conditional[n]) >= 2}]
        /\ after' = [n \in Names |-> {}] /\ UNCHANGED engine
    BY <1>2 DEF Compile
  <2>2. /\ compiled'.shared = {n \in Names : Len(conditional[n]) >= 2}
        /\ compiled'.map = [n \in Names |-> EdgeMap(n)]
    BY <2>1
  <2>3. GraphTyped'
    BY <2>1, <2>2 DEF GraphTyped, engine, Edge, Targets
  <2>4. ASSUME NEW n \in compiled'.shared
        PROVE  END \in compiled'.map[n] /\ Range(conditional'[n]) \subseteq compiled'.map[n]
    <3>1. n \in Names /\ Len(conditional[n]) >= 2
      BY <2>2, <2>4
    <3>2. conditional[n] # <<>>
      BY <3>1, EmptySeq
    <3> QED BY <2>1, <2>2, <3>1, <3>2 DEF EdgeMap, engine
  <2> QED BY <2>3, <2>4 DEF SharedKnown
<1>3. ASSUME NEW n \in Names, RegisterNode(n) \/ SetEntryPoint(n)
      PROVE  GraphInv'
  BY <1>3 DEF RegisterNode, SetEntryPoint, GraphTyped, SharedKnown, Targets, Edge
<1>4. ASSUME NEW m \in Names, NEW n \in Targets, NEW c \in BOOLEAN, RegisterEdge(m, n, c)
      PROVE  GraphInv'
  <2>1. [from |-> m, to |-> n, condition |-> c] \in Edge
    BY DEF Edge
  <2>2. edges' \subseteq Edge /\ UNCHANGED <<nodes, conditional, compiled, after>>
    BY <1>4, <2>1 DEF RegisterEdge, GraphTyped
  <2> QED BY <2>2 DEF GraphTyped, SharedKnown, Edge, Targets
<1>5. ASSUME NEW m \in Names, NEW n \in Targets, RegisterConditionalEdge(m, n)
      PROVE  GraphInv'
  <2>1. conditional[m] \in Seq(Targets)
    BY DEF GraphTyped
  <2>2. /\ Append(conditional[m], n) \in Seq(Targets)
        /\ Range(Append(conditional[m], n)) = Range(conditional[m]) \cup {n}
    BY <2>1, OneMore, AppendProperties
  <2>3. /\ conditional' = [conditional EXCEPT ![m] = Append(@, n)]
        /\ UNCHANGED <<nodes, edges, entry, compiled>>
        /\ compiled # NotCompiled => after' = [after EXCEPT ![m] = @ \cup {n}]
        /\ compiled = NotCompiled => after' = after
    BY <1>5 DEF RegisterConditionalEdge
  <2>4. GraphTyped'
    BY <2>2, <2>3 DEF GraphTyped
  <2>5. CASE compiled = NotCompiled
    BY <2>3, <2>4, <2>5 DEF NotCompiled, SharedKnown
  <2>6. CASE compiled # NotCompiled
    <3>1. ASSUME NEW k \in compiled.shared
          PROVE  Range(conditional'[k]) \subseteq compiled.map[k] \cup after'[k]
      <4>1. k \in Names
        BY DEF GraphTyped
      <4>2. CASE k = m
        BY <2>2, <2>3, <2>6, <3>1, <4>2 DEF GraphTyped, SharedKnown
      <4>3. CASE k # m
        BY <2>3, <2>6, <3>1, <4>1, <4>3 DEF GraphTyped, SharedKnown
      <4> QED BY <4>2, <4>3
    <3> QED BY <2>3, <2>4, <3>1 DEF SharedKnown
  <2> QED BY <2>5, <2>6
<1> QED BY <1>1, <1>2, <1>3, <1>4, <1>5 DEF GraphNext

\* A compiled graph routes to a target LangGraph does not know for the node only if the
\* conditional edge to it was registered after compile.
\* Code: engine.py compile, register_conditional_edge.
THEOREM RoutesAreKnown == GraphSpec => []CompiledRoutesKnown
<1>1. GraphInv => CompiledRoutesKnown
  BY DEF GraphInv, SharedKnown, CompiledRoutesKnown, Routes
<1> QED BY <1>1, InitGraphInv, StepGraphInv, PTL DEF GraphSpec

(***************************************************************************)
(* WorkflowGraph: what validate_graph says.                                *)
(***************************************************************************)
\* Visit is defined by recursion over the subsets of a finite set, so it is first shown
\* that the function exists: the closure under successors is one.
Closed(T) == \A n \in T : Successors(n) \ {END} \subseteq T
Closure(R) == {x \in Names : \A T \in SUBSET Names : R \subseteq T /\ Closed(T) => x \in T}

LEMMA SuccessorsAreNames ==
  ASSUME GraphTyped, NEW n \in Names
  PROVE  Successors(n) \ {END} \subseteq Names
<1>1. Range(conditional[n]) \subseteq Targets
  BY LenProperties DEF GraphTyped, Range
<1> QED BY <1>1 DEF GraphTyped, Successors, Edge, Targets

LEMMA VisitUnfolds ==
  ASSUME GraphTyped, NEW R \in SUBSET Names
  PROVE  /\ Beyond(R) \subseteq Names
         /\ Visit[R] = IF Beyond(R) = {} THEN R ELSE Visit[R \cup Beyond(R)]
<1> DEFINE Rounds(v) == v = [Q \in SUBSET Names |-> IF Beyond(Q) = {} THEN Q
                                                    ELSE v[Q \cup Beyond(Q)]]
           v0 == [Q \in SUBSET Names |-> Closure(Q)]
<1>1. \A Q \in SUBSET Names : Beyond(Q) \subseteq Names
  BY SuccessorsAreNames DEF Beyond
<1>2. ASSUME NEW Q \in SUBSET Names, Beyond(Q) = {}
      PROVE  Closure(Q) = Q
  <2>1. Closed(Q)
    BY <1>2 DEF Beyond, Closed
  <2> QED BY <2>1 DEF Closure
<1>3. ASSUME NEW Q \in SUBSET Names
      PROVE  Closure(Q) = Closure(Q \cup Beyond(Q))
  <2>1. \A T \in SUBSET Names : Q \subseteq T /\ Closed(T) => Q \cup Beyond(Q) \subseteq T
    BY DEF Beyond, Closed
  <2> QED BY <2>1 DEF Closure
<1>4. Rounds(v0)
  <2>1. \A Q \in SUBSET Names :
          Closure(Q) = IF Beyond(Q) = {} THEN Q ELSE v0[Q \cup Beyond(Q)]
    BY <1>1, <1>2, <1>3
  <2> QED BY <2>1
<1>5. Visit = CHOOSE v : Rounds(v)
  BY DEF Visit
<1>6. Rounds(Visit)
  <2> HIDE DEF Rounds, v0
  <2> QED BY <1>4, <1>5
<1> QED BY <1>1, <1>6

\* The worklist does not leave a set of names that is closed under successors.
LEMMA VisitStays ==
  ASSUME GraphTyped, NEW T \in SUBSET Names, Closed(T), NEW R \in SUBSET T
  PROVE  Visit[R] \subseteq T
<1> DEFINE F == {T \ Q : Q \in {P \in SUBSET T : ~(Visit[P] \subseteq T)}}
<1> SUFFICES ASSUME F # {} PROVE FALSE
  OBVIOUS
<1>1. F \in SUBSET SUBSET T /\ IsFiniteSet(T)
  BY NamesAssumption, FS_Subset
<1>2. PICK m : Minimal(m, F)
  <2> HIDE DEF F
  <2> QED BY <1>1, MinimalSet
<1>3. PICK Q \in SUBSET T : ~(Visit[Q] \subseteq T) /\ m = T \ Q
  BY <1>2 DEF Minimal
<1>4. /\ Q \in SUBSET Names
      /\ Visit[Q] = IF Beyond(Q) = {} THEN Q ELSE Visit[Q \cup Beyond(Q)]
  BY <1>3, VisitUnfolds
<1>5. Beyond(Q) # {} /\ Beyond(Q) \subseteq T \ Q
  BY <1>3, <1>4 DEF Beyond, Closed
<1> DEFINE B == Q \cup Beyond(Q)
<1>6. B \in SUBSET T /\ ~(Visit[B] \subseteq T)
  BY <1>3, <1>4, <1>5
<1>7. T \ B \in F /\ T \ B \subseteq m /\ T \ B # m
  BY <1>3, <1>5, <1>6
<1> QED BY <1>2, <1>7 DEF Minimal

\* When validate_graph warns of nothing, every node is on a path of registered edges of
\* both kinds from the entry point, for any number of nodes and edges.
\* Code: engine.py validate_graph.
THEOREM ValidGraphsRun == GraphSpec => []CleanGraphsRun
<1>1. ASSUME GraphInv PROVE CleanGraphsRun
  <2> SUFFICES ASSUME Warnings = {}, Acceptable, NEW S \in SUBSET nodes, entry \in S,
                      \A n \in S : Successors(n) \cap nodes \subseteq S
               PROVE  nodes \subseteq S
    BY DEF CleanGraphsRun
  <2>1. GraphTyped /\ S \in SUBSET Names
    BY <1>1 DEF GraphInv, GraphTyped
  <2>2. ASSUME NEW n \in S PROVE Successors(n) \ {END} \subseteq S
    <3>1. n \in Names /\ (conditional[n] # <<>> => Range(conditional[n]) \subseteq nodes \cup {END})
      BY <2>1 DEF Acceptable
    <3>2. conditional[n] = <<>> => Range(conditional[n]) = {}
      BY DEF Range
    <3>3. Successors(n) \subseteq nodes \cup {END}
      BY <3>1, <3>2 DEF Successors, Acceptable
    <3> QED BY <3>3
  <2>3. Visit[{entry}] \subseteq S
    BY <2>1, <2>2, VisitStays DEF Closed
  <2>4. nodes \subseteq Reached /\ entry # NoNode
    BY DEF Warnings
  <2> QED BY <2>3, <2>4 DEF Reached
<1> QED BY <1>1, InitGraphInv, StepGraphInv, PTL DEF GraphSpec

(***************************************************************************)
(* WorkflowState: payloads, artifacts and refusals.                        *)
(***************************************************************************)
StateTyped ==
  /\ state \in [iteration : Nat, tokens : Nat,
                artifacts : [ArtifactIds -> Types \cup {NoArtifact}],
                index     : [Types -> SUBSET ArtifactIds],
                pending   : Seq(Payloads), processed : SUBSET Payloads,
                signals   : SUBSET Actions, decisions : SUBSET Verdict]
  /\ dequeued \in Seq(Payloads)
  /\ IsFiniteSet(state.processed) /\ \A t \in Types : IsFiniteSet(state.index[t])

\* The payloads that went through the queue, or are in it, are the accepted, each once.
Through == dequeued \o state.pending
PayloadsInv == Queue(Payloads, Through) /\ ToSet(Through) = state.processed

\* The index has every artifact under its type, and under another only when retyped.
IndexInv ==
  /\ \A a \in ArtifactIds : state.artifacts[a] # NoArtifact => a \in state.index[state.artifacts[a]]
  /\ \A t \in Types : \A a \in state.index[t] \ retyped : state.artifacts[a] = t

Refusal    == [valid |-> FALSE, action |-> "HALT"]
RefusalInv == "combined" \in refused \/ "by rails" \in refused => Refusal \in state.decisions

StateInv == StateTyped /\ PayloadsInv /\ IndexInv /\ RefusalInv

LEMMA InitStateInv == StateInit => StateInv
<1> SUFFICES ASSUME StateInit PROVE StateInv
  OBVIOUS
<1>1. /\ state.iteration = 0 /\ state.tokens = 0
      /\ state.artifacts = [a \in ArtifactIds |-> NoArtifact] /\ state.index = [t \in Types |-> {}]
      /\ state.pending = <<>> /\ state.processed = {}
      /\ state.signals = {} /\ state.decisions = {}
      /\ dequeued = <<>> /\ retyped = {} /\ refused = {}
  BY DEF StateInit
<1>2. /\ <<>> \in Seq(Payloads) /\ <<>> \o <<>> = <<>> /\ Len(<<>>) = 0
      /\ Queue(Payloads, <<>>) /\ ToSet(<<>>) = {}
  BY EmptySeq, ConcatEmptySeq, NobodyWaits DEF ToSet
<1>3. StateTyped
  BY <1>1, <1>2, FS_EmptySet DEF StateInit, StateTyped
<1>4. PayloadsInv
  BY <1>1, <1>2 DEF PayloadsInv, Through
<1>5. IndexInv /\ RefusalInv
  BY <1>1 DEF IndexInv, RefusalInv
<1> QED BY <1>3, <1>4, <1>5 DEF StateInv

\* The state survives the way through a dict.
LEMMA DictAndBack == StateTyped => FromStateDict(ToStateDict(state)) = state
<1> SUFFICES ASSUME StateTyped PROVE FromStateDict(ToStateDict(state)) = state
  OBVIOUS
<1> DEFINE d == ToStateDict(state)
<1>1. /\ d = [state EXCEPT !.index = [t \in Types |-> SetToSeq(state.index[t])],
                           !.processed = SetToSeq(state.processed)]
  BY DEF ToStateDict
<1>2. /\ d.index = [t \in Types |-> SetToSeq(state.index[t])]
      /\ d.processed = SetToSeq(state.processed)
      /\ d.iteration = state.iteration /\ d.tokens = state.tokens
      /\ d.artifacts = state.artifacts /\ d.pending = state.pending
      /\ d.signals = state.signals /\ d.decisions = state.decisions
      /\ DOMAIN d = DOMAIN state
  BY <1>1 DEF StateTyped
<1>3. ToSet(d.processed) = state.processed
  BY <1>2, ThereAndBack DEF StateTyped
<1>4. ASSUME NEW t \in Types PROVE ToSet(d.index[t]) = state.index[t]
  BY <1>2, <1>4, ThereAndBack DEF StateTyped
<1>5. [t \in Types |-> ToSet(d.index[t])] = state.index
  BY <1>4 DEF StateTyped
<1> HIDE DEF d
<1>6. [d EXCEPT !.index = [t \in Types |-> ToSet(d.index[t])], !.processed = ToSet(d.processed)] = state
  BY <1>1, <1>2, <1>3, <1>5 DEF StateTyped
<1> QED BY <1>6 DEF d, FromStateDict

\* A decision that refuses halts: each validator's result does, and combining keeps it.
Decisive(r) == ~r.valid => r.action = "HALT"

LEMMA CombinedHalts ==
  ASSUME NEW n \in Nat, NEW results, DOMAIN results = 1..n,
         \A i \in 1..n : results[i].valid \in BOOLEAN /\ Decisive(results[i])
  PROVE  /\ Combine(results).valid \in BOOLEAN
         /\ Combine(results).action \in {"HALT", "CONTINUE"}
         /\ Decisive(Combine(results))
BY DEF Combine, Decisive

LEMMA ResultsDecisive ==
  ASSUME NEW input, NEW output, NEW t, NEW given \in BOOLEAN
  PROVE  \E n \in Nat : /\ DOMAIN Results(input, output, t, given) = 1..n
                        /\ \A i \in 1..n :
                             LET r == Results(input, output, t, given)[i]
                             IN  r.valid \in BOOLEAN /\ Decisive(r)
<1> DEFINE V == {ValidateInput(input, given), ValidateOutput(output), ValidateTransition(t),
                 ValidateResourceLimits}
           w == Results(input, output, t, given)
<1>1. \A r \in V : r.valid \in BOOLEAN /\ Decisive(r)
  <2>1. \A errors : /\ Result(errors).valid = (errors = {})
                    /\ Result(errors).action = IF errors = {} THEN "CONTINUE" ELSE "HALT"
    BY DEF Result
  <2>2. \A errors : Result(errors).valid \in BOOLEAN /\ Decisive(Result(errors))
    BY <2>1 DEF Decisive
  <2> QED
    BY <2>2 DEF ValidateInput, ValidateOutput, ValidateTransition, ValidateResourceLimits
<1>2. w \in Seq(V)
  <2> DEFINE first  == <<ValidateInput(input, given)>>
             second == IF output = {"none"} THEN <<>> ELSE <<ValidateOutput(output)>>
             third  == IF given /\ t # <<>> THEN <<ValidateTransition(t)>> ELSE <<>>
             fourth == IF given THEN <<ValidateResourceLimits>> ELSE <<>>
  <2>1. first \in Seq(V) /\ second \in Seq(V) /\ third \in Seq(V) /\ fourth \in Seq(V)
    <3>1. /\ ValidateInput(input, given) \in V /\ ValidateOutput(output) \in V
          /\ ValidateTransition(t) \in V /\ ValidateResourceLimits \in V
      OBVIOUS
    <3> HIDE DEF V
    <3>2. <<>> \in Seq(V) /\ \A r \in V : <<r>> \in Seq(V)
      BY EmptySeq
    <3>3. second \in Seq(V)
      BY <3>1, <3>2
    <3>4. third \in Seq(V)
      BY <3>1, <3>2
    <3>5. fourth \in Seq(V)
      BY <3>1, <3>2
    <3> QED BY <3>1, <3>2, <3>3, <3>4, <3>5
  <2>2. w = first \o second \o third \o fourth
    BY DEF Results
  <2> HIDE DEF first, second, third, fourth, V
  <2>3. first \o second \in Seq(V)
    BY <2>1, ConcatProperties
  <2>4. first \o second \o third \in Seq(V)
    BY <2>1, <2>3, ConcatProperties
  <2> QED BY <2>1, <2>2, <2>4, ConcatProperties
<1> HIDE DEF V, w
<1>3. Len(w) \in Nat /\ DOMAIN w = 1..Len(w) /\ \A i \in 1..Len(w) : w[i] \in V
  BY <1>2, LenProperties, ElementOfSeq
<1> QED BY <1>1, <1>3 DEF w

\* A payload joins the queue, or leaves it.
LEMMA EnqueueInv ==
  ASSUME StateTyped, PayloadsInv, NEW p \in Payloads, p \notin state.processed,
         state'.pending = Append(state.pending, p), state'.processed = state.processed \cup {p},
         dequeued' = dequeued
  PROVE  PayloadsInv' /\ state'.pending \in Seq(Payloads)
<1>1. state.pending \in Seq(Payloads) /\ dequeued \in Seq(Payloads)
  BY DEF StateTyped
<1>2. Through' = Append(Through, p)
  BY <1>1, AppendProperties, ConcatProperties DEF Through
<1>3. Through \in Seq(Payloads) /\ ~Contains(Through, p)
  BY LenProperties DEF PayloadsInv, Queue, ToSet, Contains
<1>4. Queue(Payloads, Append(Through, p))
  BY <1>3, Joined DEF PayloadsInv
<1>5. ToSet(Append(Through, p)) = ToSet(Through) \cup {p}
  BY <1>3, OneMore
<1> QED BY <1>1, <1>2, <1>4, <1>5, AppendProperties DEF PayloadsInv

LEMMA DequeueInv ==
  ASSUME StateTyped, PayloadsInv, DequeuePayload
  PROVE  PayloadsInv' /\ state'.pending \in Seq(Payloads) /\ dequeued' \in Seq(Payloads)
<1>1. /\ state.pending \in Seq(Payloads) /\ dequeued \in Seq(Payloads) /\ state.pending # <<>>
      /\ state'.pending = Tail(state.pending) /\ state'.processed = state.processed
      /\ dequeued' = Append(dequeued, Head(state.pending))
  BY DEF StateTyped, DequeuePayload
<1>2. Through' = Through
  BY <1>1, HeadMoves DEF Through
<1> QED BY <1>1, <1>2, HeadTailProperties, AppendProperties DEF PayloadsInv

LEMMA StepStateInv == StateInv /\ [StateNext]_workflow => StateInv'
<1> SUFFICES ASSUME StateInv, [StateNext]_workflow PROVE StateInv'
  OBVIOUS
<1>0. StateTyped /\ PayloadsInv /\ IndexInv /\ RefusalInv
  BY DEF StateInv
<1>1. CASE UNCHANGED workflow
  BY <1>0, <1>1 DEF workflow, StateInv, StateTyped, PayloadsInv, Through, IndexInv, RefusalInv
<1>2. CASE IncrementIteration \/ UpdateNodeMetrics
  <2>1. /\ UNCHANGED <<dequeued, retyped, refused>>
        /\ \/ state' = [state EXCEPT !.iteration = @ + 1]
           \/ state' = [state EXCEPT !.tokens = @ + 1]
    BY <1>2 DEF IncrementIteration, UpdateNodeMetrics, Becomes
  <2>2. StateTyped'
    BY <1>0, <2>1 DEF StateTyped
  <2> QED
    BY <1>0, <2>1, <2>2 DEF StateInv, StateTyped, PayloadsInv, Through, IndexInv, RefusalInv
<1>3. ASSUME NEW action \in Signals, EmitSignal(action) PROVE StateInv'
  <2>1. /\ UNCHANGED <<dequeued, retyped, refused>>
        /\ state' = [state EXCEPT !.signals = @ \cup {action}]
    BY <1>3 DEF EmitSignal, Becomes
  <2>2. action \in Actions
    BY SignalsAssumption
  <2>3. StateTyped'
    BY <1>0, <2>1, <2>2 DEF StateTyped
  <2> QED
    BY <1>0, <2>1, <2>3 DEF StateInv, StateTyped, PayloadsInv, Through, IndexInv, RefusalInv
<1>4. ASSUME NEW p \in Payloads, EnqueuePayload(p) PROVE StateInv'
  <2>1. UNCHANGED <<dequeued, retyped, refused>> /\ state' = Enqueue(state, p)
    BY <1>4 DEF EnqueuePayload, Becomes
  <2>2. CASE p \in state.processed
    BY <1>0, <2>1, <2>2 DEF Enqueue, StateInv, StateTyped, PayloadsInv, Through, IndexInv, RefusalInv
  <2>3. CASE p \notin state.processed
    <3>1. state' = [state EXCEPT !.pending = Append(@, p), !.processed = @ \cup {p}]
      BY <2>1, <2>3 DEF Enqueue
    <3>2. /\ state'.pending = Append(state.pending, p)
          /\ state'.processed = state.processed \cup {p}
          /\ state'.iteration = state.iteration /\ state'.tokens = state.tokens
          /\ state'.artifacts = state.artifacts /\ state'.index = state.index
          /\ state'.signals = state.signals /\ state'.decisions = state.decisions
      BY <1>0, <3>1 DEF StateTyped
    <3>3. PayloadsInv' /\ state'.pending \in Seq(Payloads)
      BY <1>0, <2>1, <2>3, <3>2, EnqueueInv
    <3>4. IsFiniteSet(state'.processed)
      <4>1. IsFiniteSet(state.processed \cup {p})
        BY <1>0, FS_AddElement DEF StateTyped
      <4> QED BY <3>2, <4>1
    <3>5. StateTyped'
      BY <1>0, <2>1, <3>1, <3>2, <3>3, <3>4 DEF StateTyped
    <3>6. IndexInv'
      BY <1>0, <2>1, <3>2 DEF IndexInv
    <3>7. RefusalInv'
      BY <1>0, <2>1, <3>2 DEF RefusalInv
    <3> QED BY <3>3, <3>5, <3>6, <3>7 DEF StateInv
  <2> QED BY <2>2, <2>3
<1>5. CASE DequeuePayload
  <2>1. state' = [state EXCEPT !.pending = Tail(@)] /\ UNCHANGED <<retyped, refused>>
    BY <1>5 DEF DequeuePayload
  <2>2. PayloadsInv' /\ state'.pending \in Seq(Payloads) /\ dequeued' \in Seq(Payloads)
    BY <1>0, <1>5, DequeueInv
  <2>3. /\ state'.processed = state.processed
        /\ state'.iteration = state.iteration /\ state'.tokens = state.tokens
        /\ state'.artifacts = state.artifacts /\ state'.index = state.index
        /\ state'.signals = state.signals /\ state'.decisions = state.decisions
    BY <1>0, <2>1 DEF StateTyped
  <2>4. StateTyped'
    BY <1>0, <2>1, <2>2, <2>3 DEF StateTyped
  <2>5. IndexInv'
    BY <1>0, <2>1, <2>3 DEF IndexInv
  <2>6. RefusalInv'
    BY <1>0, <2>1, <2>3 DEF RefusalInv
  <2> QED BY <2>2, <2>4, <2>5, <2>6 DEF StateInv
<1>6. ASSUME NEW a \in ArtifactIds, NEW t \in Types, AddArtifactItem(a, t) PROVE StateInv'
  <2>1. /\ state' = [state EXCEPT !.artifacts[a] = t, !.index[t] = @ \cup {a}]
        /\ retyped' = IF state.artifacts[a] \in {t, NoArtifact} THEN retyped ELSE retyped \cup {a}
        /\ UNCHANGED <<dequeued, refused>>
    BY <1>6 DEF AddArtifactItem, AddArtifact
  <2>2. /\ state'.artifacts = [state.artifacts EXCEPT ![a] = t]
        /\ state'.index = [state.index EXCEPT ![t] = @ \cup {a}]
        /\ state'.pending = state.pending /\ state'.processed = state.processed
        /\ state'.iteration = state.iteration /\ state'.tokens = state.tokens
        /\ state'.signals = state.signals /\ state'.decisions = state.decisions
    BY <1>0, <2>1 DEF StateTyped
  <2>3. \A u \in Types : IsFiniteSet(state'.index[u])
    <3>1. IsFiniteSet(state.index[t] \cup {a})
      BY <1>0, FS_AddElement DEF StateTyped
    <3> QED BY <1>0, <2>2, <3>1 DEF StateTyped
  <2>4. StateTyped'
    BY <1>0, <2>1, <2>2, <2>3 DEF StateTyped
  <2>5. IndexInv'
    <3>1. ASSUME NEW b \in ArtifactIds, state'.artifacts[b] # NoArtifact
          PROVE  b \in state'.index[state'.artifacts[b]]
      BY <1>0, <2>2, <3>1, ArtifactAssumption DEF StateTyped, IndexInv
    <3>2. ASSUME NEW u \in Types, NEW b \in state'.index[u] \ retyped'
          PROVE  state'.artifacts[b] = u
      <4>1. CASE b = a /\ u = t
        BY <1>0, <2>2, <4>1 DEF StateTyped
      <4>2. CASE ~(b = a /\ u = t)
        <5>1. b \in state.index[u] \ retyped /\ b \in ArtifactIds
          BY <1>0, <2>1, <2>2, <3>2, <4>2 DEF StateTyped
        <5>2. state.artifacts[b] = u
          BY <1>0, <5>1 DEF IndexInv
        <5>3. b = a => state.artifacts[a] \in {t, NoArtifact}
          BY <2>1, <3>2
        <5>4. b # a
          BY <4>2, <5>2, <5>3, ArtifactAssumption
        <5> QED BY <1>0, <2>2, <5>1, <5>2, <5>4 DEF StateTyped
      <4> QED BY <4>1, <4>2
    <3> QED BY <3>1, <3>2 DEF IndexInv
  <2> QED
    BY <1>0, <2>1, <2>2, <2>4, <2>5 DEF StateInv, PayloadsInv, Through, RefusalInv
<1>7. ASSUME NEW input, NEW output, NEW t, NEW given \in BOOLEAN, Validate(input, output, t, given)
      PROVE  StateInv'
  <2> DEFINE decision == Combine(Results(input, output, t, given))
             verdict  == [valid |-> decision.valid, action |-> decision.action]
  <2>1. /\ state' = [state EXCEPT !.decisions = @ \cup {verdict}]
        /\ refused' = refused \cup (IF decision.valid THEN {} ELSE {"combined"})
        /\ UNCHANGED <<dequeued, retyped>>
    BY <1>7 DEF Validate, RecordValidation
  <2>2. /\ decision.valid \in BOOLEAN /\ decision.action \in {"HALT", "CONTINUE"}
        /\ Decisive(decision)
    BY ResultsDecisive, CombinedHalts
  <2> HIDE DEF decision
  <2>3. verdict \in Verdict /\ (~decision.valid => verdict = Refusal)
    BY <2>2 DEF Verdict, Actions, Refusal, Decisive
  <2>4. RefusalInv'
    BY <1>0, <2>1, <2>3 DEF StateTyped, RefusalInv
  <2> QED
    BY <1>0, <2>1, <2>3, <2>4 DEF StateInv, StateTyped, PayloadsInv, Through, IndexInv
<1>8. ASSUME NEW d, NEW asked, ValidateByRails(d, asked), d \in Verdict,
             ~d.valid /\ asked = "HALT" => d = Refusal
      PROVE  StateInv'
  <2>1. /\ state' = [state EXCEPT !.decisions = @ \cup {[valid |-> d.valid, action |-> d.action]}]
        /\ refused' = refused \cup
             (IF d.valid THEN {} ELSE IF asked = "HALT" THEN {"by rails"} ELSE {"by rails without HALT"})
        /\ UNCHANGED <<dequeued, retyped>>
    BY <1>8 DEF ValidateByRails, RecordValidation
  <2>2. [valid |-> d.valid, action |-> d.action] = d
    BY <1>8 DEF Verdict
  <2>3. RefusalInv'
    BY <1>0, <1>8, <2>1, <2>2 DEF StateTyped, RefusalInv
  <2> QED
    BY <1>0, <1>8, <2>1, <2>2, <2>3 DEF StateInv, StateTyped, PayloadsInv, Through, IndexInv
<1>10. CASE ValidateByRails(RailsRaised, "HALT")
  <2>1. RailsRaised = Refusal /\ Refusal \in Verdict
    BY DEF RailsRaised, Refusal, Verdict, Actions
  <2> QED BY <1>8, <1>10, <2>1
<1>11. ASSUME NEW valid \in BOOLEAN, NEW action \in {"HALT", "CONTINUE", "none"},
              ValidateByRails(RailsAnswered(valid, action), action)
       PROVE  StateInv'
  <2> DEFINE d == RailsAnswered(valid, action)
  <2>1. d \in Verdict /\ (~d.valid /\ action = "HALT" => d = Refusal)
    BY DEF RailsAnswered, Refusal, Verdict, Actions
  <2> HIDE DEF d
  <2> QED BY <1>8, <1>11, <2>1 DEF d
<1>9. CASE EnterNextNode
  <2>1. UNCHANGED <<state, dequeued, retyped, refused>>
    BY <1>0, <1>9, DictAndBack DEF EnterNextNode, Becomes
  <2> QED
    BY <1>0, <2>1 DEF StateInv, StateTyped, PayloadsInv, Through, IndexInv, RefusalInv
<1> QED
  BY <1>1, <1>2, <1>3, <1>4, <1>5, <1>6, <1>7, <1>9, <1>10, <1>11 DEF StateNext

(***************************************************************************)
(* WorkflowState: combining decisions is merging them one by one.          *)
(***************************************************************************)
\* What merging a decision with those of a set of places in a sequence gives, whatever
\* the order.
Merged(d, q, s) ==
  [valid  |-> d.valid /\ \A i \in s : q[i].valid,
   errors |-> d.errors \cup UNION {q[i].errors : i \in s},
   action |-> IF d.action = "HALT" \/ \E i \in s : q[i].action = "HALT" THEN "HALT" ELSE "CONTINUE"]

IsDecision(d) ==
  /\ DOMAIN d = {"valid", "errors", "action"}
  /\ d = [valid |-> d.valid, errors |-> d.errors, action |-> d.action]
  /\ d.valid \in BOOLEAN /\ d.action \in {"HALT", "CONTINUE"}

LEMMA OneMoreSet ==
  ASSUME NEW A, NEW B
  PROVE  UNION (A \cup {B}) = (UNION A) \cup B
OBVIOUS

LEMMA MergedNone ==
  ASSUME NEW d, IsDecision(d), NEW q
  PROVE  Merged(d, q, {}) = d
BY DEF Merged, IsDecision

LEMMA MergedUnfolds ==
  ASSUME NEW d, NEW q, NEW s, NEW x \in s
  PROVE  Merged(d, q, s) = Merge(Merged(d, q, s \ {x}), q[x])
<1>1. /\ \A i \in s : i \in s \ {x} \/ i = x
      /\ s = (s \ {x}) \cup {x}
  OBVIOUS
<1>2. UNION {q[i].errors : i \in s} = (UNION {q[i].errors : i \in s \ {x}}) \cup q[x].errors
  <2> DEFINE A == {q[i].errors : i \in s \ {x}}
             B == q[x].errors
             C == {q[i].errors : i \in s}
  <2>1. C = A \cup {B}
    BY <1>1
  <2>2. UNION C = (UNION A) \cup B
    <3> HIDE DEF A, B, C
    <3> QED BY <2>1, OneMoreSet
  <2> QED BY <2>2
<1>3. (\A i \in s : q[i].valid) <=> (\A i \in s \ {x} : q[i].valid) /\ q[x].valid
  BY <1>1
<1>4. (\E i \in s : q[i].action = "HALT") <=>
        (\E i \in s \ {x} : q[i].action = "HALT") \/ q[x].action = "HALT"
  BY <1>1
<1>5. Merged(d, q, s) = Merge(Merged(d, q, s \ {x}), q[x])
  <2> DEFINE e == Merged(d, q, s \ {x})
  <2>1. /\ e.valid = (d.valid /\ \A i \in s \ {x} : q[i].valid)
        /\ e.errors = d.errors \cup UNION {q[i].errors : i \in s \ {x}}
        /\ e.action = IF d.action = "HALT" \/ \E i \in s \ {x} : q[i].action = "HALT"
                      THEN "HALT" ELSE "CONTINUE"
    BY DEF Merged
  <2> HIDE DEF e
  <2>2. (e.valid /\ q[x].valid) = (d.valid /\ \A i \in s : q[i].valid)
    BY <1>3, <2>1
  <2>3. e.errors \cup q[x].errors = d.errors \cup UNION {q[i].errors : i \in s}
    BY <1>2, <2>1
  <2>4. (IF "HALT" \in {e.action, q[x].action} THEN "HALT" ELSE "CONTINUE")
        = IF d.action = "HALT" \/ \E i \in s : q[i].action = "HALT" THEN "HALT" ELSE "CONTINUE"
    BY <1>4, <2>1
  <2> QED BY <2>2, <2>3, <2>4 DEF Merged, Merge, e
<1> QED BY <1>5

\* The fold that merges decisions from the left is what Merged says.
LEMMA FoldIsMerged ==
  ASSUME NEW d, IsDecision(d), NEW q, NEW n \in Nat, DOMAIN q = 1..n
  PROVE  FoldLeft(Merge, d, q) = Merged(d, q, 1..n)
<1> DEFINE D == 1..n
           Folds(g) == g = [s \in SUBSET D |-> IF s = {} THEN d
                                               ELSE Merge(g[s \ {Max(s)}], q[Max(s)])]
           iter == CHOOSE g : Folds(g)
           g0 == [s \in SUBSET D |-> Merged(d, q, s)]
<1>1. FoldLeft(Merge, d, q) = iter[D]
  BY DEF FoldLeft, MapThenFoldSet
<1>2. IsFiniteSet(D) /\ D \subseteq Int
  BY FS_Interval
<1>3. \A s \in SUBSET D : s # {} => Max(s) \in s
  BY <1>2, Greatest, FS_Subset
<1>4. \A s \in SUBSET D : Merged(d, q, s) = IF s = {} THEN d
                            ELSE Merge(Merged(d, q, s \ {Max(s)}), q[Max(s)])
  <2> SUFFICES ASSUME NEW s \in SUBSET D, s # {}
               PROVE  Merged(d, q, s) = Merge(Merged(d, q, s \ {Max(s)}), q[Max(s)])
    BY MergedNone
  <2>1. Max(s) \in s
    BY <1>3
  <2>2. \A x \in s : Merged(d, q, s) = Merge(Merged(d, q, s \ {x}), q[x])
    BY MergedUnfolds
  <2> QED BY <2>1, <2>2
<1>5. Folds(g0)
  <2>1. \A s \in SUBSET D : g0[s] = IF s = {} THEN d ELSE Merge(g0[s \ {Max(s)}], q[Max(s)])
    BY <1>4
  <2> QED BY <2>1
<1>6. Folds(iter)
  <2> HIDE DEF Folds, g0
  <2> QED BY <1>5
<1> HIDE DEF iter
<1>7. \A s \in SUBSET D : iter[s] = Merged(d, q, s)
  <2> DEFINE F == {s \in SUBSET D : iter[s] # Merged(d, q, s)}
  <2> SUFFICES ASSUME F # {} PROVE FALSE
    OBVIOUS
  <2>1. PICK s : Minimal(s, F)
    <3>1. F \in SUBSET SUBSET D
      OBVIOUS
    <3> HIDE DEF F
    <3> QED BY <1>2, <3>1, MinimalSet
  <2>2. s \in SUBSET D /\ iter[s] # Merged(d, q, s)
    BY <2>1 DEF Minimal
  <2>3. iter[s] = IF s = {} THEN d ELSE Merge(iter[s \ {Max(s)}], q[Max(s)])
    BY <1>6, <2>2
  <2>4. s # {} /\ Max(s) \in s
    BY <1>3, <1>4, <2>2, <2>3
  <2>5. s \ {Max(s)} \in SUBSET D /\ s \ {Max(s)} # s
    BY <2>2, <2>4
  <2>6. iter[s \ {Max(s)}] = Merged(d, q, s \ {Max(s)})
    BY <2>1, <2>5 DEF Minimal
  <2> QED BY <1>4, <2>2, <2>3, <2>4, <2>6
<1> QED BY <1>1, <1>7

\* The combined decision of any number of validators is what merging theirs one by one
\* gives.  Code: guardrails.py _combine_decisions, base_contracts.py merge.
THEOREM CombiningMerges ==
  ASSUME NEW n \in Nat \ {0}, NEW E, NEW results \in [1..n -> {Result(errors) : errors \in E}]
  PROVE  Combine(results) = FoldLeft(Merge, Head(results), Tail(results))
<1> DEFINE V == {Result(errors) : errors \in E}
           d == Head(results)
           q == Tail(results)
<1>1. /\ results \in Seq(V) /\ Len(results) = n /\ results # <<>>
      /\ DOMAIN results = 1..n
  OBVIOUS
<1>2. /\ d = results[1] /\ q \in Seq(V) /\ Len(q) = n - 1
      /\ \A i \in 1..n - 1 : q[i] = results[i + 1]
  BY <1>1, HeadTailProperties
<1>3. DOMAIN q = 1..n - 1 /\ n - 1 \in Nat
  BY <1>2, LenProperties
<1>4. \A i \in 1..n : /\ IsDecision(results[i])
                      /\ results[i].action \in {"HALT", "CONTINUE"}
  <2>1. \A errors : /\ Result(errors).valid = (errors = {}) /\ Result(errors).errors = errors
                    /\ Result(errors).action = IF errors = {} THEN "CONTINUE" ELSE "HALT"
                    /\ DOMAIN Result(errors) = {"valid", "errors", "action"}
                    /\ Result(errors) = [valid |-> Result(errors).valid,
                                         errors |-> Result(errors).errors,
                                         action |-> Result(errors).action]
    BY DEF Result
  <2>2. \A errors : IsDecision(Result(errors))
    BY <2>1 DEF IsDecision
  <2> QED BY <1>1, <2>1, <2>2
<1> HIDE DEF V, d, q
<1>5. FoldLeft(Merge, d, q) = Merged(d, q, 1..n - 1)
  BY <1>1, <1>2, <1>3, <1>4, FoldIsMerged
<1>6. \A j \in 1..n : j = 1 \/ \E i \in 1..n - 1 : j = i + 1
  <2>1. \A j \in 1..n : j # 1 => j - 1 \in 1..n - 1 /\ j = (j - 1) + 1
    OBVIOUS
  <2> QED BY <2>1
<1>7. 1 \in 1..n /\ \A i \in 1..n - 1 : i + 1 \in 1..n
  OBVIOUS
<1>8. (\A j \in 1..n : results[j].valid) <=> (d.valid /\ \A i \in 1..n - 1 : q[i].valid)
  <2>1. ASSUME \A j \in 1..n : results[j].valid
        PROVE  d.valid /\ \A i \in 1..n - 1 : q[i].valid
    BY <1>2, <1>7, <2>1
  <2>2. ASSUME d.valid, \A i \in 1..n - 1 : q[i].valid, NEW j \in 1..n
        PROVE  results[j].valid
    BY <1>2, <1>6, <2>2
  <2> QED BY <2>1, <2>2
<1> DEFINE A == {q[i].errors : i \in 1..n - 1}
           B == d.errors
           C == {results[j].errors : j \in 1..n}
<1>9. UNION C = B \cup UNION A
  <2>1. ASSUME NEW x \in C PROVE x \in A \cup {B}
    <3>1. PICK j \in 1..n : x = results[j].errors
      OBVIOUS
    <3>2. CASE j = 1
      BY <1>2, <3>1, <3>2
    <3>3. ASSUME NEW i \in 1..n - 1, j = i + 1 PROVE x \in A
      BY <1>2, <3>1, <3>3
    <3> QED BY <1>6, <3>2, <3>3
  <2>2. ASSUME NEW x \in A PROVE x \in C
    BY <1>2, <1>7
  <2>3. B \in C
    BY <1>2
  <2> HIDE DEF A, B, C
  <2>4. C = A \cup {B}
    BY <2>1, <2>2, <2>3
  <2> QED BY <2>4, OneMoreSet
<1>10. (IF \E j \in 1..n : results[j].action = "HALT" THEN "HALT" ELSE "CONTINUE")
       = IF d.action = "HALT" \/ \E i \in 1..n - 1 : q[i].action = "HALT" THEN "HALT" ELSE "CONTINUE"
  <2>1. (\E j \in 1..n : results[j].action = "HALT")
        <=> (d.action = "HALT" \/ \E i \in 1..n - 1 : q[i].action = "HALT")
    <3>1. ASSUME NEW j \in 1..n, results[j].action = "HALT"
          PROVE  d.action = "HALT" \/ \E i \in 1..n - 1 : q[i].action = "HALT"
      BY <1>2, <1>6, <3>1
    <3>2. d.action = "HALT" => \E j \in 1..n : results[j].action = "HALT"
      BY <1>2, <1>7
    <3>3. ASSUME NEW i \in 1..n - 1, q[i].action = "HALT"
          PROVE  \E j \in 1..n : results[j].action = "HALT"
      BY <1>2, <1>7, <3>3
    <3> QED BY <3>1, <3>2, <3>3
  <2> QED BY <2>1
<1>11. Combine(results) = Merged(d, q, 1..n - 1)
  BY <1>1, <1>8, <1>9, <1>10 DEF Combine, Merged
<1> QED BY <1>5, <1>11 DEF d, q

\* A payload goes through the queue at most once and none that was accepted is lost,
\* whatever the nodes do and however often the state travels as a dict.
\* Code: state_schema.py enqueue_payload, dequeue_payload, to_state_dict.
THEOREM PayloadsGoOnce == StateSpec => []PayloadsOnce
<1>1. StateInv => PayloadsOnce
  BY LenProperties DEF StateInv, PayloadsInv, Through, Queue, PayloadsOnce, IsInjective
<1> QED BY <1>1, InitStateInv, StepStateInv, PTL DEF StateSpec

\* An artifact is found under its type, and under another only when its id was added with
\* two types.  Code: state_schema.py add_artifact, get_artifacts_by_type.
THEOREM ArtifactsAreFound == StateSpec => []ArtifactsFound
<1>1. StateInv => ArtifactsFound
  BY DEF StateInv, IndexInv, ArtifactsFound, ArtifactsOfType
<1> QED BY <1>1, InitStateInv, StepStateInv, PTL DEF StateSpec

\* A recorded refusal makes the state terminal for good.
\* Code: guardrails.py _combine_decisions, state_schema.py is_terminal.
THEOREM RefusalsHalt == StateSpec => []RefusalHalts
<1>1. StateInv => RefusalHalts
  BY DEF StateInv, RefusalInv, Refusal, RefusalHalts, Terminal
<1> QED BY <1>1, InitStateInv, StepStateInv, PTL DEF StateSpec

(***************************************************************************)
(* ModelRouter: a client for a target, and its limiter.                    *)
(***************************************************************************)
\* There is a target named "default", and no client is the absence of one.
RouterConstants ==
  /\ "default" \in TargetNames
  /\ \A target, id : [target |-> target, id |-> id] # NoClient

\* A call that started after the last load holds a client, the one of its target.
RInv ==
  /\ DOMAIN targets = TargetNames /\ DOMAIN clients = TargetNames /\ DOMAIN calls = Tasks
  /\ \A c \in Tasks : DOMAIN calls[c] = {"target", "client", "current"}
                         /\ calls[c].target \in TargetNames
  /\ \A c \in Tasks : calls[c].current => calls[c].client # NoClient
  /\ CallsShareTheCurrentClient

LEMMA InitRInv == RouterConstants /\ RouterInit => RInv
BY DEF RouterConstants, RouterInit, RInv, CallsShareTheCurrentClient, NoCall, TargetsOf

LEMMA LoadRInv ==
  ASSUME RInv, LoadConfig
  PROVE  RInv'
<1>1. /\ DOMAIN targets' = TargetNames /\ DOMAIN calls' = Tasks
      /\ clients' = [n \in TargetNames |-> NoClient]
      /\ \A c \in Tasks : calls'[c] = [calls[c] EXCEPT !.current = FALSE]
  BY DEF LoadConfig, TargetsOf, Superseded
<1>2. \A c \in Tasks : /\ ~calls'[c].current /\ calls'[c].target = calls[c].target
                         /\ DOMAIN calls'[c] = DOMAIN calls[c]
  BY <1>1 DEF RInv
<1> QED BY <1>1, <1>2 DEF RInv, CallsShareTheCurrentClient

LEMMA RouteRInv ==
  ASSUME RouterConstants, RInv, NEW c \in Tasks, NEW task, Route(c, task)
  PROVE  RInv'
<1> DEFINE n == Target(task)
           client == IF clients[n] # NoClient THEN clients[n]
                     ELSE [target |-> targets[n], id |-> made + 1]
           call == [target |-> n, client |-> client, current |-> TRUE]
<1>1. n \in TargetNames
  BY DEF Target, RouterConstants
<1>2. /\ clients' = [clients EXCEPT ![n] = client] /\ targets' = targets
      /\ calls' = [calls EXCEPT ![c] = call]
  BY DEF Route, Pooled
<1>3. client # NoClient /\ client.target = targets[n]
  BY <1>1 DEF RInv, CallsShareTheCurrentClient, RouterConstants
<1>4. \A d \in Tasks : calls[d].current /\ calls[d].target = n => client = calls[d].client
  BY DEF RInv, CallsShareTheCurrentClient
<1>5. /\ call.target = n /\ call.client = client /\ call.current
      /\ DOMAIN call = {"target", "client", "current"}
  OBVIOUS
<1> HIDE DEF n, client, call
<1>6. /\ clients'[n] = client /\ DOMAIN clients' = TargetNames
      /\ \A m \in TargetNames \ {n} : clients'[m] = clients[m]
      /\ calls'[c] = call /\ DOMAIN calls' = Tasks
      /\ \A d \in Tasks \ {c} : calls'[d] = calls[d]
  BY <1>1, <1>2 DEF RInv
<1>7. ASSUME NEW d \in Tasks, calls'[d].current
      PROVE  calls'[d].client = clients'[calls'[d].target] /\ calls'[d].client # NoClient
  <2>1. CASE d = c
    BY <1>3, <1>5, <1>6, <2>1
  <2>2. CASE d # c
    BY <1>4, <1>6, <1>7, <2>2 DEF RInv, CallsShareTheCurrentClient
  <2> QED BY <2>1, <2>2
<1>8. \A m \in TargetNames : clients'[m] # NoClient => clients'[m].target = targets'[m]
  BY <1>2, <1>3, <1>6 DEF RInv, CallsShareTheCurrentClient
<1> QED BY <1>1, <1>2, <1>5, <1>6, <1>7, <1>8 DEF RInv, CallsShareTheCurrentClient

LEMMA StepRInv ==
  ASSUME RouterConstants, RInv, [RouterNext]_router
  PROVE  RInv'
<1>1. CASE LoadConfig
  BY <1>1, LoadRInv
<1>2. CASE Edit
  BY <1>2 DEF Edit, RInv, CallsShareTheCurrentClient
<1>3. ASSUME NEW c \in Tasks, Answer(c)
      PROVE  RInv'
  BY <1>3 DEF Answer, NoCall, RouterConstants, RInv, CallsShareTheCurrentClient
<1>4. ASSUME NEW c \in Tasks, NEW task, Route(c, task)
      PROVE  RInv'
  BY <1>4, RouteRInv
<1>5. CASE UNCHANGED router
  BY <1>5 DEF router, RInv, CallsShareTheCurrentClient
<1> QED BY <1>1, <1>2, <1>3, <1>4, <1>5 DEF RouterNext

\* Between two loads all calls to a target share one client, made for the target as it
\* was loaded last, for any number of callers and whatever the file holds.
\* Code: router.py _load_config, get_client, route, reload.
THEOREM CurrentClientIsShared ==
  ASSUME RouterConstants
  PROVE  RouterSpec => []CallsShareTheCurrentClient
<1>1. RouterSpec => []RInv
  BY InitRInv, StepRInv, PTL DEF RouterSpec
<1>2. RInv => CallsShareTheCurrentClient
  BY DEF RInv
<1> QED BY <1>1, <1>2, PTL

(***************************************************************************)
(* GitOps: what a clone reports and what it leaves behind.                 *)
(***************************************************************************)
\* The variables the argument needs to be functions or sets.
Typed ==
  /\ DOMAIN await = Repos /\ DOMAIN leader = Repos /\ DOMAIN code = Repos
  /\ DOMAIN helper = Repos /\ DOMAIN success = Repos /\ DOMAIN commit = Repos
  /\ DOMAIN tree = Dirs
  /\ \A r \in Repos : leader[r] \in {"none", "started", "cloning", "exited"}

\* Where a task awaits says what is left of the processes it started.
Placed(r) ==
  /\ await[r] = "semaphore" => leader[r] = "none" /\ ~helper[r]
  /\ await[r] = "rev-parse" => leader[r] = "exited" /\ ~helper[r]
  /\ await[r] = "wait" => ~GitRuns(r) /\ (helper[r] => r \in reaped)
  /\ await[r] = "done" => ~(GitRuns(r) \/ helper[r]) \/ r \in reaped

\* A repository that shares its directory with none finds there what its git left.
Reported(r) ==
  /\ leader[r] = "exited" /\ code[r] = EXIT_SUCCESS /\ ~Collides(r) =>
       tree[Dir(r)] = [repo |-> r, complete |-> TRUE]
  /\ await[r] = "rev-parse" => code[r] = EXIT_SUCCESS
  /\ success[r] => await[r] = "done" /\ leader[r] = "exited" /\ code[r] = EXIT_SUCCESS
  /\ success[r] /\ ~Collides(r) => commit[r] \in {r, NoRepo}
  /\ commit[r] # NoRepo => success[r]

GInv == Typed /\ \A r \in Repos : Placed(r) /\ Reported(r)

\* Only the tasks and the git of a directory's repositories write there.
LEMMA OtherDirectory ==
  ASSUME NEW r \in Repos, NEW q \in Repos \ {r}, ~Collides(r)
  PROVE  Dir(q) # Dir(r)
BY DEF Collides

LEMMA InitGInv == GitInit => GInv
<1> SUFFICES ASSUME GitInit PROVE GInv
  OBVIOUS
<1>1. Typed
  BY DEF GitInit, Typed, NoTree
<1> QED BY <1>1 DEF GitInit, GInv, Placed, Reported

LEMMA StepGInv ==
  ASSUME \A r \in Repos : Dir(r) \in Dirs, GInv, [GitNext]_git
  PROVE  GInv'
<1> USE DEF EXIT_SUCCESS, SIGKILL, FATAL
<1> DEFINE Step(r) == \/ CloneRepo(r) \/ NotStarted(r) \/ Communicated(r)
                      \/ TimedOut(r) \/ Waited(r) \/ RevParsed(r)
                      \/ GitStarts(r) \/ GitSucceeds(r) \/ GitFails(r) \/ HelperEnds(r)
<1>1. CASE UNCHANGED git
  BY <1>1 DEF git, clones, process, GInv, Typed, Placed, Reported, GitRuns
<1>2. CASE CancelClones
  <2>1. /\ UNCHANGED <<leader, code, helper, tree, success, commit, reaped>>
        /\ DOMAIN await' = Repos
        /\ \A r \in Repos : await'[r] = IF await[r] \in CloneEnded THEN await[r] ELSE "cancelled"
    BY <1>2 DEF CancelClones, process
  <2> QED BY <2>1 DEF GInv, Typed, Placed, Reported, GitRuns, CloneEnded
<1>3. ASSUME NEW r \in Repos, Step(r)
      PROVE  GInv'
  <2>1. Typed'
    BY <1>3 DEF GInv, Typed, CloneRepo, NotStarted, Communicated, TimedOut, Waited, RevParsed,
      GitStarts, GitSucceeds, GitFails, HelperEnds, Done, KillGroup, process, clones, NoTree
  <2>2. Placed(r)'
    BY <1>3 DEF GInv, Typed, Placed, GitRuns, CloneRepo, NotStarted, Communicated, TimedOut,
      Waited, RevParsed, GitStarts, GitSucceeds, GitFails, HelperEnds, Done, KillGroup,
      process, clones
  <2>3. Reported(r)'
    <3>1. CASE CloneRepo(r)
      BY <3>1 DEF GInv, Typed, Placed, Reported, GitRuns, process, clones, CloneRepo, NoTree
    <3>2. CASE NotStarted(r)
      BY <3>2 DEF GInv, Typed, Placed, Reported, GitRuns, process, clones, NotStarted, NoTree
    <3>3. CASE Communicated(r)
      BY <3>3 DEF GInv, Typed, Placed, Reported, GitRuns, process, clones, Communicated, Succeeded, Done
    <3>4. CASE TimedOut(r)
      BY <3>4 DEF GInv, Typed, Placed, Reported, GitRuns, process, clones, TimedOut, KillGroup
    <3>5. CASE Waited(r)
      BY <3>5 DEF GInv, Typed, Placed, Reported, GitRuns, process, clones, Waited, Done
    <3>6. CASE RevParsed(r)
      BY <3>6 DEF GInv, Typed, Placed, Reported, GitRuns, process, clones, RevParsed, Done
    <3>7. CASE GitStarts(r)
      BY <3>7 DEF GInv, Typed, Placed, Reported, GitRuns, process, clones, GitStarts, NoTree
    <3>8. CASE GitSucceeds(r)
      <4>1. leader[r] = "cloning" /\ ~success[r] /\ await[r] # "rev-parse" /\ commit[r] = NoRepo
        BY <3>8 DEF GInv, Placed, Reported, GitSucceeds
      <4>2. tree'[Dir(r)] = [repo |-> r, complete |-> TRUE]
        BY <3>8 DEF GInv, Typed, GitSucceeds
      <4> QED BY <3>8, <4>1, <4>2 DEF Reported, GitSucceeds, clones
    <3>9. CASE GitFails(r)
      <4>1. leader[r] = "cloning" /\ ~success[r] /\ await[r] # "rev-parse" /\ commit[r] = NoRepo
        BY <3>9 DEF GInv, Placed, Reported, GitFails
      <4>2. code'[r] = FATAL
        BY <3>9 DEF GInv, Typed, GitFails
      <4> QED BY <3>9, <4>1, <4>2 DEF Reported, GitFails, clones
    <3>10. CASE HelperEnds(r)
      BY <3>10 DEF GInv, Typed, Placed, Reported, GitRuns, process, clones, HelperEnds
    <3> QED BY <1>3, <3>1, <3>2, <3>3, <3>4, <3>5, <3>6, <3>7, <3>8, <3>9, <3>10
  <2>4. ASSUME NEW q \in Repos \ {r}
        PROVE  Placed(q)' /\ Reported(q)'
    <3>1. /\ await'[q] = await[q] /\ leader'[q] = leader[q] /\ code'[q] = code[q]
          /\ helper'[q] = helper[q] /\ success'[q] = success[q] /\ commit'[q] = commit[q]
          /\ q \in reaped => q \in reaped'
      BY <1>3, <2>4 DEF GInv, Typed, CloneRepo, NotStarted, Communicated, TimedOut, Waited,
        RevParsed, GitStarts, GitSucceeds, GitFails, HelperEnds, Done, KillGroup, process, clones
    <3>2. ~Collides(q) => tree'[Dir(q)] = tree[Dir(q)]
      <4>1. tree' = tree \/ \E v : tree' = [tree EXCEPT ![Dir(r)] = v]
        BY <1>3 DEF CloneRepo, NotStarted, Communicated, TimedOut, Waited, RevParsed,
          GitStarts, GitSucceeds, GitFails, HelperEnds, Done, KillGroup, process, clones
      <4> QED BY <4>1, <2>4, OtherDirectory DEF GInv, Typed
    <3> QED BY <3>1, <3>2 DEF GInv, Placed, Reported, GitRuns
  <2> QED BY <2>1, <2>2, <2>3, <2>4 DEF GInv
<1> QED BY <1>1, <1>2, <1>3 DEF GitNext

\* The inductive invariant: what a task awaits, what is left of its processes and what
\* they left in the directory agree.  Code: git_ops.py clone_repo, runner.py run.
THEOREM GitInvariant ==
  ASSUME \A r \in Repos : Dir(r) \in Dirs
  PROVE  GitSpec => []GInv
BY InitGInv, StepGInv, PTL DEF GitSpec

\* A clone reported as a success has its complete tree in its directory and reports its
\* own commit, for every set of repositories of which it shares its directory with none.
\* Code: git_ops.py clone_repo, clone_repos_parallel.
THEOREM ClonesAreThere ==
  ASSUME \A r \in Repos : Dir(r) \in Dirs
  PROVE  GitSpec => []SuccessMeansTree
<1>1. GInv => SuccessMeansTree
  BY DEF GInv, Reported, SuccessMeansTree
<1> QED BY <1>1, GitInvariant, PTL

\* What a call started is gone when it has ended, unless git had exited before the
\* timeout fired.  Code: runner.py run.
THEOREM NoStrayWithoutCause ==
  ASSUME \A r \in Repos : Dir(r) \in Dirs
  PROVE  GitSpec => []StraysHaveCause
<1>1. GInv => StraysHaveCause
  BY DEF GInv, Placed, StraysHaveCause
<1> QED BY <1>1, GitInvariant, PTL
================================================================================
