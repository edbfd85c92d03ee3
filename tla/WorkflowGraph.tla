---------------------------- MODULE WorkflowGraph ----------------------------
(***************************************************************************)
(* How a workflow is put together: the registration methods of             *)
(* WorkflowEngine in src/src/runtime/engine.py, validate_graph and compile.*)
(* Runs of the compiled graph are in WorkflowRuns.                         *)
(*                                                                         *)
(* Registration may go on after compile, and the compiled graph keeps      *)
(* parts of the engine: the routing function of a node with two or more    *)
(* conditional edges holds the engine's own list of them.                  *)
(***************************************************************************)
EXTENDS Naturals, Sequences, FiniteSets, Functions

CONSTANTS
  Names,            \* names the callers use for nodes
  END,              \* LangGraph's END
  NoNode,           \* None
  MaxRegistrations  \* bound on the edges of both kinds

ASSUME NamesAssumption == IsFiniteSet(Names)

VARIABLES
  nodes,            \* _nodes
  edges,            \* _edges
  conditional,      \* _conditional_edges: the targets of each node, in order
  entry,            \* _entry_point
  compiled,         \* _compiled_graph
  after             \* history: targets of a node registered since compile

engine == <<nodes, edges, conditional, entry>>
graph  == <<engine, compiled, after>>

Targets == Names \cup {END}
Edge    == [from : Names, to : Targets, condition : BOOLEAN]

\* Of what StateGraph was given: the edge map of a node's conditional edges, and
\* the nodes whose routing function reads the engine's list.
NotCompiled == [entry |-> NoNode, map |-> [n \in Names |-> {}], shared |-> {}]

GraphTypeOK ==
  /\ nodes \subseteq Names /\ edges \subseteq Edge
  /\ conditional \in [Names -> Seq(Targets)]
  /\ entry \in nodes \cup {NoNode}
  /\ compiled.entry \in nodes \cup {NoNode} /\ compiled.shared \subseteq nodes
  /\ \A n \in Names : compiled.map[n] \subseteq nodes \cup {END}
  /\ after \in [Names -> SUBSET Targets]

Registered ==
  Cardinality(edges) + Cardinality(UNION {{n} \X DOMAIN conditional[n] : n \in Names})

(***************************************************************************)
(* Registration.  A method that raises changes nothing.                    *)
(***************************************************************************)
\* register_node; a name there is raises.
RegisterNode(n) ==
  /\ n \notin nodes
  /\ nodes' = nodes \cup {n}
  /\ UNCHANGED <<edges, conditional, entry, compiled, after>>

\* register_edge; unknown ends raise.  Callers do not register an edge twice.
RegisterEdge(m, n, condition) ==
  LET edge == [from |-> m, to |-> n, condition |-> condition] IN
  /\ m \in nodes /\ n \in nodes \cup {END}
  /\ edge \notin edges /\ Registered < MaxRegistrations
  /\ edges' = edges \cup {edge}
  /\ UNCHANGED <<nodes, conditional, entry, compiled, after>>

\* register_conditional_edge checks neither end.
RegisterConditionalEdge(m, n) ==
  /\ Registered < MaxRegistrations
  /\ conditional' = [conditional EXCEPT ![m] = Append(@, n)]
  /\ after' = IF compiled = NotCompiled THEN after ELSE [after EXCEPT ![m] = @ \cup {n}]
  /\ UNCHANGED <<nodes, edges, entry, compiled>>

SetEntryPoint(n) ==
  /\ n \in nodes
  /\ entry' = n
  /\ UNCHANGED <<nodes, edges, conditional, compiled, after>>

(***************************************************************************)
(* validate_graph.                                                         *)
(***************************************************************************)
Successors(n) ==
  {e.to : e \in {f \in edges : f.from = n}} \cup Range(conditional[n])

\* Mutant: a node with an incoming edge counts as reached.
ReachedByAnEdge ==
  IF entry = NoNode THEN {} ELSE {entry} \cup ((UNION {Successors(n) : n \in nodes}) \ {END})

\* What a round of the worklist adds.
Beyond(reachable) == (UNION {Successors(n) : n \in reachable}) \ (reachable \cup {END})

\* The worklist: what is visited does not depend on the order.
Visit[reachable \in SUBSET Names] ==
  IF Beyond(reachable) = {} THEN reachable ELSE Visit[reachable \cup Beyond(reachable)]

Reached == IF entry = NoNode THEN {} ELSE Visit[{entry}]

NoWayOn == {n \in nodes : Successors(n) = {}}

\* The warnings name what they are about.
Warnings ==
  (IF entry = NoNode THEN {<<"no entry point", NoNode>>} ELSE {}) \cup
  (IF nodes = {} THEN {<<"no nodes", NoNode>>} ELSE {}) \cup
  {<<"unreachable", n>> : n \in nodes \ Reached} \cup
  {<<"no outgoing edges", n>> : n \in NoWayOn}

(***************************************************************************)
(* compile.                                                                *)
(***************************************************************************)
\* LangGraph refuses edges of unknown nodes, and two branches out of one node
\* whose functions have the same name: those compile makes of an edge with a
\* condition, or of a single conditional edge, have none.
Unnamed(n) == {e \in edges : e.from = n /\ e.condition}
Acceptable ==
  /\ \A e \in edges : e.from \in nodes /\ e.to \in nodes \cup {END}
  /\ \A n \in Names : conditional[n] # <<>> =>
       n \in nodes /\ Range(conditional[n]) \subseteq nodes \cup {END}
  /\ \A n \in nodes :
       Cardinality(Unnamed(n)) + (IF Len(conditional[n]) = 1 THEN 1 ELSE 0) <= 1

\* Mutant: edge_map[END] = END is forgotten.
EdgeMapWithoutEnd(n) == Range(conditional[n])

EdgeMap(n) == IF conditional[n] = <<>> THEN {} ELSE Range(conditional[n]) \cup {END}

\* Without an entry point, or when LangGraph refuses, compile raises.  The routing
\* function of two or more conditional edges is given the list itself.
Compile ==
  /\ entry # NoNode /\ Acceptable
  /\ compiled' = [entry |-> entry, map |-> [n \in Names |-> EdgeMap(n)],
                  shared |-> {n \in Names : Len(conditional[n]) >= 2}]
  /\ after' = [n \in Names |-> {}]
  /\ UNCHANGED engine

\* What the routing function of a compiled node may return.
Routes(n) ==
  IF n \in compiled.shared THEN Range(conditional[n]) \cup {END} ELSE compiled.map[n]

GraphInit ==
  /\ nodes = {} /\ edges = {} /\ entry = NoNode
  /\ conditional = [n \in Names |-> <<>>]
  /\ compiled = NotCompiled
  /\ after = [n \in Names |-> {}]

GraphNext ==
  \/ Compile
  \/ \E n \in Names : RegisterNode(n) \/ SetEntryPoint(n)
  \/ \E m \in Names, n \in Targets :
       RegisterConditionalEdge(m, n) \/ \E c \in BOOLEAN : RegisterEdge(m, n, c)

GraphSpec == GraphInit /\ [][GraphNext]_graph

(***************************************************************************)
(* Properties.                                                             *)
(***************************************************************************)
\* When validate_graph warns of nothing, every node is on a path of registered edges of
\* both kinds from the entry point, without a detour over names that are not
\* registered: a set of nodes that has the entry point, and with a node the nodes its
\* edges lead to, has them all.
\* Code: engine.py validate_graph.
CleanGraphsRun ==
  Warnings = {} /\ Acceptable =>
    \A S \in SUBSET nodes :
      entry \in S /\ (\A n \in S : Successors(n) \cap nodes \subseteq S) => S = nodes

\* A compiled graph routes only to targets LangGraph knows for that node, except to
\* those of conditional edges registered after compile at a node whose list the
\* compiled graph shares: taking such an edge is an error in the middle of a run.
\* Code: engine.py compile, register_conditional_edge.
CompiledRoutesKnown ==
  \A n \in Names : Routes(n) \ compiled.map[n] \subseteq after[n]
==============================================================================
