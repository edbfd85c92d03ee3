-------------------------- MODULE WorkflowRuns_proofs --------------------------
(***************************************************************************)
(* Theorems about WorkflowRuns, for every set of runs, every graph without *)
(* parallel branches and every recursion limit: type correctness, that the *)
(* records of a run have no gaps, that a run that returned has them all,   *)
(* that scopes are balanced, and that nothing is recorded once the client  *)
(* is done.                                                                *)
(***************************************************************************)
EXTENDS WorkflowRuns, SequenceTheorems, TLAPS

(***************************************************************************)
(* The part of the invariant that is about what runs record, by what the   *)
(* actions are built from.                                                 *)
(***************************************************************************)
RunTypes ==
  /\ pc \in [Runs -> {"idle", "created"} \cup Active \cup Ended]
  /\ path \in [Runs -> Seq(Nodes)]
  /\ \A r \in Runs : Len(path[r]) <= MaxSteps
  /\ inflight \subseteq Records
  /\ durable \subseteq Records

RecInv ==
  /\ RunTypes
  /\ PathOfRun
  /\ IssuedInOrder
  /\ StepsDone
  /\ OutcomeAfterStart
  /\ ErrorIsLast

\* A run that has entered a node is at one of the steps 1..MaxSteps, and
\* Awaited(r) and the records it may await there are records.
LEMMA StepOfRun ==
  ASSUME RunTypes, NEW r \in Runs, path[r] # <<>>
  PROVE  /\ Len(path[r]) \in 1..MaxSteps
         /\ path[r][Len(path[r])] \in Nodes
         /\ \A t \in Types : Record(r, Len(path[r]), t) \in Records
<1>1. path[r] \in Seq(Nodes) /\ Len(path[r]) <= MaxSteps
  BY DEF RunTypes
<1>2. Len(path[r]) \in Nat /\ Len(path[r]) # 0
  BY <1>1, LenProperties, EmptySeq
<1>3. Len(path[r]) \in 1..MaxSteps
  BY <1>1, <1>2, StepsAssumption
<1>4. path[r][Len(path[r])] \in Nodes
  BY <1>1, <1>2, ElementOfSeq
<1> QED BY <1>3, <1>4 DEF Record, Records

\* A run never routes outside the graph.
LEMMA TargetsInGraph ==
  ASSUME NEW n \in Nodes, NEW m \in Targets(n), m # END
  PROVE  m \in Nodes
BY GraphAssumption DEF Targets, From, Edges

\* Awaiting the next record of the current node.
LEMMA AwaitKeeps ==
  ASSUME RecInv, NEW r \in Runs, NEW t \in {"NODE_COMPLETE", "METRIC", "NODE_ERROR"},
         Await(r, t),
         pc[r] \in {"executing", "NODE_COMPLETE", "METRIC"},
         t = "METRIC" => Has(r, Len(path[r]), "NODE_COMPLETE")
  PROVE  RecInv'
<1> DEFINE k == Len(path[r])
           e == Record(r, k, t)
<1>1. path[r] # <<>>
  BY DEF RecInv, PathOfRun, Active
<1>2. k \in 1..MaxSteps /\ e \in Records
  BY <1>1, StepOfRun DEF RecInv, Types
<1>3. /\ pc' = [pc EXCEPT ![r] = t]
      /\ inflight' = inflight \cup {e}
      /\ path' = path
      /\ durable' = durable
  BY DEF Await
<1>4. Record(r, k, "NODE_START") \in durable
  BY DEF RecInv, OutcomeAfterStart, Active, Has
<1>5. e.run = r /\ e.step = k /\ e.type = t
  BY DEF Record
<1>6. RunTypes'
  BY <1>2, <1>3 DEF RecInv, RunTypes, Active
<1>7. PathOfRun'
  BY <1>1, <1>3 DEF RecInv, RunTypes, PathOfRun, Active
<1>8. IssuedInOrder'
  <2> SUFFICES ASSUME NEW f \in inflight' \cup durable'
               PROVE  /\ f.step <= Len(path[f.run])
                      /\ f.type # "NODE_START" => Record(f.run, f.step, "NODE_START") \in durable
                      /\ f.type = "METRIC" => Record(f.run, f.step, "NODE_COMPLETE") \in durable
    BY <1>3 DEF IssuedInOrder, Known
  <2>1. CASE f = e
    BY <1>2, <1>4, <1>5, <2>1 DEF Has
  <2>2. CASE f \in inflight \cup durable
    BY <2>2 DEF RecInv, IssuedInOrder, Known
  <2> QED BY <1>3, <2>1, <2>2
<1>9. StepsDone'
  BY <1>3 DEF RecInv, StepsDone, Has
<1>10. OutcomeAfterStart'
  BY <1>3, <1>4 DEF RecInv, RunTypes, OutcomeAfterStart, Has, Active
<1>11. ErrorIsLast'
  <2> SUFFICES ASSUME NEW f \in inflight' \cup durable', f.type = "NODE_ERROR"
               PROVE  /\ f.step = Len(path[f.run])
                      /\ pc'[f.run] \in {"NODE_ERROR", "raised", "cancelled"}
    BY <1>3 DEF ErrorIsLast, Known
  <2>1. CASE f = e
    BY <1>3, <1>5, <2>1 DEF RecInv, RunTypes
  <2>2. CASE f \in inflight \cup durable
    <3>1. /\ f.step = Len(path[f.run])
          /\ pc[f.run] \in {"NODE_ERROR", "raised", "cancelled"}
      BY <2>2 DEF RecInv, ErrorIsLast, Known
    <3>2. f.run # r
      BY <3>1
    <3> QED BY <1>3, <3>1, <3>2 DEF RecInv, RunTypes
  <2> QED BY <1>3, <2>1, <2>2
<1> QED BY <1>6, <1>7, <1>8, <1>9, <1>10, <1>11 DEF RecInv

\* Entering a node: the first one, or the next one of a run whose last node was
\* completed and measured.
LEMMA EnterKeeps ==
  ASSUME RecInv, NEW r \in Runs, NEW n \in Nodes, EnterNode(r, n),
         \/ pc[r] \in {"idle", "created"}
         \/ pc[r] = "METRIC" /\ Has(r, Len(path[r]), "METRIC") /\ Len(path[r]) < MaxSteps
  PROVE  RecInv'
<1> DEFINE k == Len(path[r])
           e == Record(r, k + 1, "NODE_START")
<1>1. path[r] \in Seq(Nodes) /\ k \in Nat
  BY LenProperties DEF RecInv, RunTypes
<1>2. k < MaxSteps
  <2>1. CASE pc[r] \in {"idle", "created"}
    <3>1. k = 0
      BY <2>1, EmptySeq DEF RecInv, PathOfRun
    <3> QED BY <3>1, StepsAssumption
  <2>2. CASE pc[r] = "METRIC"
    BY <2>2
  <2> QED BY <2>1, <2>2
<1>3. k + 1 \in 1..MaxSteps
  BY <1>1, <1>2, StepsAssumption
<1>4. e \in Records /\ e.run = r /\ e.step = k + 1 /\ e.type = "NODE_START"
  BY <1>3 DEF Record, Records, Types
<1>5. /\ pc' = [pc EXCEPT ![r] = "NODE_START"]
      /\ path' = [path EXCEPT ![r] = Append(@, n)]
      /\ inflight' = inflight \cup {e}
      /\ durable' = durable
  BY DEF EnterNode
<1>6. /\ path'[r] = Append(path[r], n)
      /\ path'[r] \in Seq(Nodes)
      /\ path'[r] # <<>>
      /\ Len(path'[r]) = k + 1
      /\ \A q \in Runs \ {r} : path'[q] = path[q] /\ pc'[q] = pc[q]
      /\ pc'[r] = "NODE_START"
  BY <1>1, <1>5, AppendProperties DEF RecInv, RunTypes
<1>7. RunTypes'
  <2>1. path' \in [Runs -> Seq(Nodes)]
    BY <1>5, <1>6 DEF RecInv, RunTypes
  <2>2. \A q \in Runs : Len(path'[q]) <= MaxSteps
    BY <1>3, <1>6 DEF RecInv, RunTypes
  <2>3. pc' \in [Runs -> {"idle", "created"} \cup Active \cup Ended]
    BY <1>5 DEF RecInv, RunTypes, Active
  <2>4. inflight' \subseteq Records /\ durable' \subseteq Records
    BY <1>4, <1>5 DEF RecInv, RunTypes
  <2> QED BY <2>1, <2>2, <2>3, <2>4 DEF RunTypes
<1>8. PathOfRun'
  BY <1>6 DEF RecInv, PathOfRun
<1>9. IssuedInOrder'
  <2> SUFFICES ASSUME NEW f \in inflight' \cup durable'
               PROVE  /\ f.step <= Len(path'[f.run])
                      /\ f.type # "NODE_START" => Record(f.run, f.step, "NODE_START") \in durable
                      /\ f.type = "METRIC" => Record(f.run, f.step, "NODE_COMPLETE") \in durable
    BY <1>5 DEF IssuedInOrder, Known
  <2>1. CASE f = e
    BY <1>1, <1>4, <1>6, <2>1
  <2>2. CASE f \in inflight \cup durable
    <3>1. f \in Records /\ f.run \in Runs /\ f.step \in Nat
      BY <2>2, StepsAssumption DEF RecInv, RunTypes, Records
    <3>2. f.step <= Len(path[f.run])
      BY <2>2 DEF RecInv, IssuedInOrder, Known
    <3>3. f.step <= Len(path'[f.run])
      BY <1>1, <1>6, <3>1, <3>2
    <3> QED BY <2>2, <3>3 DEF RecInv, IssuedInOrder, Known
  <2> QED BY <1>5, <2>1, <2>2
<1>10. StepsDone'
  <2> SUFFICES ASSUME NEW q \in Runs, NEW j \in 1..MaxSteps, j < Len(path'[q])
               PROVE  Record(q, j, "METRIC") \in durable
    BY <1>5 DEF StepsDone, Has
  <2>1. CASE q = r
    <3>1. j \in Nat /\ j <= k
      BY <1>1, <1>6, <2>1
    <3>2. CASE j < k
      BY <2>1, <3>2 DEF RecInv, StepsDone, Has
    <3>3. CASE j = k
      <4>1. path[r] # <<>>
        BY <1>1, <3>3, EmptySeq
      <4>2. pc[r] = "METRIC"
        BY <4>1 DEF RecInv, PathOfRun
      <4> QED BY <2>1, <3>3, <4>2 DEF Has
    <3> QED BY <1>1, <3>1, <3>2, <3>3
  <2>2. CASE q # r
    BY <1>6, <2>2 DEF RecInv, StepsDone, Has
  <2> QED BY <2>1, <2>2
<1>11. OutcomeAfterStart'
  <2> SUFFICES ASSUME NEW q \in Runs
               PROVE  LET j == Len(path'[q])
                      IN  /\ pc'[q] \in Active \ {"NODE_START"} => Record(q, j, "NODE_START") \in durable
                          /\ pc'[q] = "METRIC" => Record(q, j, "NODE_COMPLETE") \in durable
                          /\ pc'[q] = "returned" => Record(q, j, "METRIC") \in durable
    BY <1>5 DEF OutcomeAfterStart, Has
  <2> QED BY <1>6 DEF RecInv, OutcomeAfterStart, Has
<1>12. ErrorIsLast'
  <2> SUFFICES ASSUME NEW f \in inflight' \cup durable', f.type = "NODE_ERROR"
               PROVE  /\ f.step = Len(path'[f.run])
                      /\ pc'[f.run] \in {"NODE_ERROR", "raised", "cancelled"}
    BY <1>5 DEF ErrorIsLast, Known
  <2>1. f \in inflight \cup durable
    BY <1>4, <1>5
  <2>2. /\ f.step = Len(path[f.run])
        /\ pc[f.run] \in {"NODE_ERROR", "raised", "cancelled"}
        /\ f.run \in Runs
    BY <2>1 DEF RecInv, RunTypes, Records, ErrorIsLast, Known
  <2> QED BY <1>6, <2>2
<1> QED BY <1>7, <1>8, <1>9, <1>10, <1>11, <1>12 DEF RecInv

\* The runs of a set end, as they do by EndRun and by Cancel.
LEMMA EndKeeps ==
  ASSUME RecInv, NEW R \in SUBSET Runs, NEW how \in Ended,
         pc' = [r \in Runs |-> IF r \in R THEN how ELSE pc[r]],
         UNCHANGED <<path, store>>,
         how = "returned" => \A r \in R : /\ pc[r] = "METRIC"
                                          /\ Has(r, Len(path[r]), "METRIC")
  PROVE  RecInv'
<1>1. RunTypes'
  BY DEF RecInv, RunTypes, store
<1>2. PathOfRun'
  BY DEF RecInv, PathOfRun, Active, Ended
<1>3. IssuedInOrder'
  BY DEF RecInv, IssuedInOrder, Known, store
<1>4. StepsDone'
  BY DEF RecInv, StepsDone, Has, store
<1>5. OutcomeAfterStart'
  BY DEF RecInv, OutcomeAfterStart, Has, Active, Ended, store
<1>6. ErrorIsLast'
  <2> SUFFICES ASSUME NEW f \in inflight \cup durable, f.type = "NODE_ERROR"
               PROVE  /\ f.step = Len(path[f.run])
                      /\ pc'[f.run] \in {"NODE_ERROR", "raised", "cancelled"}
    BY DEF ErrorIsLast, Known, store
  <2>1. /\ f.step = Len(path[f.run])
        /\ pc[f.run] \in {"NODE_ERROR", "raised", "cancelled"}
        /\ f.run \in Runs
    BY DEF RecInv, RunTypes, Records, ErrorIsLast, Known
  <2> QED BY <2>1 DEF Ended
<1> QED BY <1>1, <1>2, <1>3, <1>4, <1>5, <1>6 DEF RecInv

\* The store decides a recording.
LEMMA DecideKeeps ==
  ASSUME RecInv, Decide
  PROVE  RecInv'
<1> PICK e \in inflight : /\ inflight' = inflight \ {e}
                          /\ durable' = durable \cup {e} \/ durable' = durable
  BY DEF Decide
<1>1. pc' = pc /\ path' = path
  BY DEF Decide
<1>2. durable \subseteq durable' /\ inflight' \cup durable' \subseteq inflight \cup durable
  OBVIOUS
<1>3. RunTypes'
  BY <1>1 DEF RecInv, RunTypes
<1>4. PathOfRun'
  BY <1>1 DEF RecInv, PathOfRun
<1>5. IssuedInOrder'
  BY <1>1, <1>2 DEF RecInv, IssuedInOrder, Known
<1>6. StepsDone'
  BY <1>1, <1>2 DEF RecInv, StepsDone, Has
<1>7. OutcomeAfterStart'
  BY <1>1, <1>2 DEF RecInv, OutcomeAfterStart, Has
<1>8. ErrorIsLast'
  BY <1>1, <1>2 DEF RecInv, ErrorIsLast, Known
<1> QED BY <1>3, <1>4, <1>5, <1>6, <1>7, <1>8 DEF RecInv

(***************************************************************************)
(* The part that is about the client and the scopes.                       *)
(***************************************************************************)
ScopeTypes == /\ stack \in [Runs \cup {Client} -> Runs \cup {NoStack}]
              /\ scopes \in [Runs -> SUBSET Runs]

ClientTypes == /\ client \in {"ready", "ainvoke", "abatch"} \cup Ended
               /\ batch \subseteq Runs

ScopeInv  == ScopeTypes /\ ScopesBalanced
ClientInv == ClientTypes /\ ClientAwaits

LEMMA InvParts == /\ IInv => RecInv /\ ScopeInv /\ ClientInv
                  /\ RecInv' /\ ScopeInv' /\ ClientInv' => IInv'
BY DEF IInv, RecInv, ScopeInv, ClientInv, TypeOK, RunTypes, ScopeTypes, ClientTypes

\* A run that starts opens its scope, in its own context or in the client's.
LEMMA OpenKeeps ==
  ASSUME RunTypes, ScopeInv, NEW r \in Runs, NEW c \in {r, Client},
         OpenScope(r, c), pc' = [pc EXCEPT ![r] = "NODE_START"], pc[r] \notin Active
  PROVE  ScopeInv'
<1> DEFINE s == StackOf(c, r)
<1>1. s \in Runs
  BY DEF StackOf, ScopeInv, ScopeTypes
<1> HIDE DEF s
<1>2. /\ stack' = [stack EXCEPT ![c] = s, ![r] = s]
      /\ scopes' = [scopes EXCEPT ![s] = @ \cup {r}]
  BY DEF OpenScope, s
<1>3. ScopeTypes'
  BY <1>1, <1>2 DEF ScopeInv, ScopeTypes
<1>4. stack'[r] = s /\ \A q \in Runs \ {r} : stack'[q] = stack[q]
  BY <1>2, NamesAssumption DEF ScopeInv, ScopeTypes
<1>5. pc'[r] \in Active /\ \A q \in Runs \ {r} : pc'[q] = pc[q]
  BY DEF RunTypes, Active
<1>6. \A q, z \in Runs : q \in scopes'[z] <=> q \in scopes[z] \/ (q = r /\ z = s)
  BY <1>1, <1>2 DEF ScopeInv, ScopeTypes
<1>7. ScopesBalanced'
  <2> SUFFICES ASSUME NEW q \in Runs, NEW z \in Runs
               PROVE  q \in scopes'[z] <=> pc'[q] \in Active /\ stack'[q] = z
    BY DEF ScopesBalanced
  <2>1. q \in scopes[z] <=> pc[q] \in Active /\ stack[q] = z
    BY DEF ScopeInv, ScopesBalanced
  <2>2. CASE q = r
    BY <1>4, <1>5, <1>6, <2>1, <2>2
  <2>3. CASE q # r
    BY <1>4, <1>5, <1>6, <2>1, <2>3
  <2> QED BY <2>2, <2>3
<1> QED BY <1>3, <1>7 DEF ScopeInv

\* Runs that end close their scopes.
LEMMA CloseKeeps ==
  ASSUME RunTypes, ScopeInv, NEW R \in SUBSET Runs, NEW how \in Ended, CloseScopes(R),
         pc' = [r \in Runs |-> IF r \in R THEN how ELSE pc[r]]
  PROVE  ScopeInv'
<1>1. ScopeTypes'
  BY DEF CloseScopes, ScopeInv, ScopeTypes
<1>2. ScopesBalanced'
  BY DEF CloseScopes, ScopeInv, ScopeTypes, ScopesBalanced, RunTypes, Active, Ended
<1> QED BY <1>1, <1>2 DEF ScopeInv

\* A step in which the same runs are under way, with their stacks.
LEMMA SameScopes ==
  ASSUME ScopeInv, UNCHANGED scope,
         \A r \in Runs : pc'[r] \in Active <=> pc[r] \in Active
  PROVE  ScopeInv'
BY DEF ScopeInv, ScopeTypes, ScopesBalanced, scope

\* A run of a client that awaits it, or was left by it, moves on.
LEMMA ClientKeeps ==
  ASSUME ClientInv, UNCHANGED <<client, batch>>,
         \A r \in Runs : pc'[r] \in Active \cup {"created"} => pc[r] \in Active \cup {"created"}
  PROVE  ClientInv'
BY DEF ClientInv, ClientTypes, ClientAwaits

\* A run leaves its coroutine.
LEMMA EndRunKeeps ==
  ASSUME IInv, NEW r \in Runs, NEW how \in Ended, EndRun(r, how),
         UNCHANGED <<client, batch>>,
         how = "returned" => pc[r] = "METRIC" /\ Has(r, Len(path[r]), "METRIC")
  PROVE  IInv'
<1>1. RecInv /\ RunTypes /\ ScopeInv /\ ClientInv
  BY InvParts DEF RecInv
<1>2. pc' = [q \in Runs |-> IF q \in {r} THEN how ELSE pc[q]]
  BY <1>1 DEF EndRun, RunTypes
<1>3. UNCHANGED <<path, store>> /\ CloseScopes({r})
  BY DEF EndRun
<1>4. RecInv'
  BY <1>1, <1>2, <1>3, EndKeeps
<1>5. ScopeInv'
  BY <1>1, <1>2, <1>3, CloseKeeps
<1>6. ClientInv'
  <2>1. \A q \in Runs : pc'[q] \in Active \cup {"created"} => pc[q] \in Active \cup {"created"}
    BY <1>2 DEF Active, Ended
  <2> QED BY <1>1, <2>1, ClientKeeps
<1> QED BY <1>4, <1>5, <1>6, InvParts

\* A run awaits another record of its node.
LEMMA AwaitStep ==
  ASSUME IInv, NEW r \in Runs, NEW t \in {"NODE_COMPLETE", "METRIC", "NODE_ERROR"},
         Await(r, t), UNCHANGED <<client, batch>>,
         pc[r] \in {"executing", "NODE_COMPLETE", "METRIC"},
         t = "METRIC" => Has(r, Len(path[r]), "NODE_COMPLETE")
  PROVE  IInv'
<1>1. RecInv /\ RunTypes /\ ScopeInv /\ ClientInv
  BY InvParts DEF RecInv
<1>2. RecInv'
  BY <1>1, AwaitKeeps
<1>3. \A q \in Runs : \/ pc'[q] = pc[q]
                      \/ pc'[q] \in Active /\ pc[q] \in Active
  BY <1>1 DEF Await, RunTypes, Active
<1>4. ScopeInv'
  BY <1>1, <1>3, SameScopes DEF Await
<1>5. ClientInv'
  BY <1>1, <1>3, ClientKeeps
<1> QED BY <1>2, <1>4, <1>5, InvParts

(***************************************************************************)
(* The invariant.                                                          *)
(***************************************************************************)
LEMMA InitInv == Init => IInv
<1> SUFFICES ASSUME Init PROVE IInv
  OBVIOUS
<1>1. path \in [Runs -> Seq(Nodes)] /\ \A r \in Runs : path[r] = <<>> /\ Len(path[r]) = 0
  BY EmptySeq DEF Init
<1>2. TypeOK
  BY <1>1, StepsAssumption DEF Init, TypeOK
<1>3. PathOfRun /\ IssuedInOrder /\ OutcomeAfterStart /\ ErrorIsLast /\ ClientAwaits
  BY <1>1 DEF Init, PathOfRun, IssuedInOrder, OutcomeAfterStart, ErrorIsLast,
              ClientAwaits, Known, Active
<1>4. StepsDone
  BY <1>1, StepsAssumption DEF StepsDone
<1>5. ScopesBalanced
  BY DEF Init, ScopesBalanced, Active
<1> QED BY <1>2, <1>3, <1>4, <1>5 DEF IInv

\* The client's steps.
LEMMA ClientStep ==
  ASSUME IInv, Call \/ Return \/ Cancel
  PROVE  IInv'
<1>1. RecInv /\ RunTypes /\ ScopeInv /\ ClientInv
  BY InvParts DEF RecInv
<1>2. ASSUME NEW r \in Runs, Ainvoke(r) PROVE IInv'
  <2>1. EnterNode(r, Entry) /\ pc[r] = "idle" /\ OpenScope(r, Client)
    BY <1>2 DEF Ainvoke
  <2>2. RecInv'
    BY <1>1, <2>1, EnterKeeps, GraphAssumption
  <2>3. ScopeInv'
    BY <1>1, <2>1, OpenKeeps DEF EnterNode, Active
  <2>4. ClientInv'
    BY <1>1, <1>2, <2>1 DEF Ainvoke, EnterNode, ClientInv, ClientTypes, ClientAwaits, RunTypes, Ended
  <2> QED BY <2>2, <2>3, <2>4, InvParts
<1>3. ASSUME Abatch PROVE IInv'
  <2>1. \A r \in Runs : pc'[r] = pc[r] \/ (pc[r] = "idle" /\ pc'[r] = "created" /\ r \in batch')
    BY <1>3 DEF Abatch
  <2>2. RecInv'
    <3>1. RunTypes'
      BY <1>1, <1>3 DEF Abatch, RunTypes, store
    <3>2. PathOfRun' /\ IssuedInOrder' /\ StepsDone'
      BY <1>1, <1>3, <2>1 DEF Abatch, RecInv, PathOfRun, IssuedInOrder, StepsDone, Known, Has,
                              store, Active
    <3>3. OutcomeAfterStart'
      BY <1>1, <1>3, <2>1 DEF Abatch, RecInv, OutcomeAfterStart, Has, store, Active
    <3>4. ErrorIsLast'
      <4> SUFFICES ASSUME NEW f \in Known, f.type = "NODE_ERROR"
                   PROVE  /\ f.step = Len(path[f.run])
                          /\ pc'[f.run] \in {"NODE_ERROR", "raised", "cancelled"}
        BY <1>3 DEF Abatch, ErrorIsLast, Known, store
      <4>1. f.run \in Runs
        BY <1>1 DEF RunTypes, Records, Known
      <4> QED BY <1>1, <2>1, <4>1 DEF RecInv, ErrorIsLast
    <3> QED BY <3>1, <3>2, <3>3, <3>4 DEF RecInv
  <2>3. ScopeInv'
    <3>1. ScopeTypes'
      BY <1>1, <1>3 DEF Abatch, ScopeInv, ScopeTypes
    <3>2. ScopesBalanced'
      <4> SUFFICES ASSUME NEW r \in Runs, NEW s \in Runs
                   PROVE  r \in scopes[s] <=> pc'[r] \in Active /\ stack'[r] = s
        BY <1>3 DEF Abatch, ScopesBalanced
      <4>1. r \in scopes[s] <=> pc[r] \in Active /\ stack[r] = s
        BY <1>1 DEF ScopeInv, ScopesBalanced
      <4>2. CASE pc[r] = "idle"
        BY <1>3, <4>1, <4>2 DEF Abatch, Active
      <4>3. CASE pc[r] # "idle"
        BY <1>3, <4>1, <4>3 DEF Abatch
      <4> QED BY <4>2, <4>3
    <3> QED BY <3>1, <3>2 DEF ScopeInv
  <2>4. ClientInv'
    BY <1>1, <1>3, <2>1 DEF Abatch, ClientInv, ClientTypes, ClientAwaits, Ended
  <2> QED BY <2>2, <2>3, <2>4, InvParts
<1>4. ASSUME Return PROVE IInv'
  <2>1. UNCHANGED <<batch, pc, path, store, scope>>
    BY <1>4 DEF Return, AinvokeOver, AbatchReturns, AbatchRaises
  <2>2. RecInv'
    BY <1>1, <2>1 DEF RecInv, RunTypes, PathOfRun, IssuedInOrder, StepsDone, OutcomeAfterStart,
                      ErrorIsLast, Known, Has, store
  <2>3. ScopeInv'
    BY <1>1, <2>1, SameScopes
  <2>4. ClientInv'
    BY <1>1, <1>4, <2>1 DEF Return, AinvokeOver, AbatchReturns, AbatchRaises,
                            ClientInv, ClientTypes, ClientAwaits, Active, Ended
  <2> QED BY <2>2, <2>3, <2>4, InvParts
<1>5. ASSUME Cancel PROVE IInv'
  <2> DEFINE R == {r \in batch : pc[r] \notin Ended}
  <2>1. /\ client \in {"ainvoke", "abatch"} /\ client' = "cancelled"
        /\ pc' = [r \in Runs |-> IF r \in R THEN "cancelled" ELSE pc[r]]
        /\ CloseScopes(R)
        /\ UNCHANGED <<batch, path, store>>
    BY <1>5 DEF Cancel
  <2>2. R \in SUBSET Runs /\ "cancelled" \in Ended
    BY <1>1 DEF ClientInv, ClientTypes, Ended
  <2>3. RecInv'
    BY <1>1, <2>1, <2>2, EndKeeps
  <2>4. ScopeInv'
    BY <1>1, <2>1, <2>2, CloseKeeps
  <2>5. ClientInv'
    BY <1>1, <2>1 DEF ClientInv, ClientTypes, ClientAwaits, Active, Ended
  <2> QED BY <2>3, <2>4, <2>5, InvParts
<1> QED BY <1>2, <1>3, <1>4, <1>5 DEF Call

\* The steps of a run.
LEMMA RunStep ==
  ASSUME IInv, NEW r \in Runs, Step(r)
  PROVE  IInv'
<1>1. RecInv /\ RunTypes /\ ScopeInv /\ ClientInv
  BY InvParts DEF RecInv
<1>2. CASE Start(r)
  <2>1. pc[r] = "created" /\ EnterNode(r, Entry) /\ OpenScope(r, r) /\ UNCHANGED <<client, batch>>
    BY <1>2 DEF Start
  <2>2. RecInv'
    BY <1>1, <2>1, EnterKeeps, GraphAssumption
  <2>3. ScopeInv'
    BY <1>1, <2>1, OpenKeeps DEF EnterNode, Active
  <2>4. ClientInv'
    <3>1. \A q \in Runs : pc'[q] = pc[q] \/ q = r
      BY <1>1, <2>1 DEF EnterNode, RunTypes
    <3> QED BY <1>1, <2>1, <3>1, ClientKeeps
  <2> QED BY <2>2, <2>3, <2>4, InvParts
<1>3. CASE Started(r)
  <2>1. CASE pc' = [pc EXCEPT ![r] = "executing"] /\ Recorded(r) /\ UNCHANGED <<path, store, scope>>
    <3>1. pc[r] = "NODE_START" /\ UNCHANGED <<client, batch>>
      BY <1>3 DEF Started
    <3>2. Record(r, Len(path[r]), "NODE_START") \in durable
      BY <2>1, <3>1 DEF Recorded, Awaited
    <3>3. /\ pc'[r] = "executing"
          /\ \A q \in Runs \ {r} : pc'[q] = pc[q]
      BY <1>1, <2>1 DEF RunTypes
    <3>4. RecInv'
      <4>1. RunTypes'
        BY <1>1, <2>1 DEF RunTypes, store, Active
      <4>2. PathOfRun' /\ IssuedInOrder' /\ StepsDone'
        BY <1>1, <2>1, <3>1, <3>3 DEF RecInv, PathOfRun, IssuedInOrder, StepsDone, Known, Has,
                                      store, Active
      <4>3. OutcomeAfterStart'
        BY <1>1, <2>1, <3>2, <3>3 DEF RecInv, OutcomeAfterStart, Has, store
      <4>4. ErrorIsLast'
        <5> SUFFICES ASSUME NEW f \in Known, f.type = "NODE_ERROR"
                     PROVE  /\ f.step = Len(path[f.run])
                            /\ pc'[f.run] \in {"NODE_ERROR", "raised", "cancelled"}
          BY <2>1 DEF ErrorIsLast, Known, store
        <5>1. f.run \in Runs
          BY <1>1 DEF RunTypes, Records, Known
        <5> QED BY <1>1, <3>1, <3>3, <5>1 DEF RecInv, ErrorIsLast
      <4> QED BY <4>1, <4>2, <4>3, <4>4 DEF RecInv
    <3>5. ScopeInv'
      BY <1>1, <2>1, <3>1, <3>3, SameScopes DEF Active
    <3>6. ClientInv'
      BY <1>1, <3>1, <3>3, ClientKeeps DEF Active
    <3> QED BY <3>4, <3>5, <3>6, InvParts
  <2>2. CASE EndRun(r, "raised")
    BY <1>3, <2>2, EndRunKeeps DEF Started, Ended
  <2> QED BY <1>3, <2>1, <2>2 DEF Started
<1>4. CASE NodeDone(r)
  BY <1>4, AwaitStep DEF NodeDone
<1>5. CASE Completed(r)
  <2>1. pc[r] = "NODE_COMPLETE" /\ UNCHANGED <<client, batch>>
    BY <1>5 DEF Completed
  <2>2. CASE Recorded(r) /\ Await(r, "METRIC")
    <3>1. Has(r, Len(path[r]), "NODE_COMPLETE")
      BY <2>1, <2>2 DEF Recorded, Awaited, Has
    <3> QED BY <2>1, <2>2, <3>1, AwaitStep
  <2>3. CASE Await(r, "NODE_ERROR")
    BY <2>1, <2>3, AwaitStep
  <2> QED BY <1>5, <2>2, <2>3 DEF Completed
<1>6. CASE Measured(r)
  <2>1. pc[r] = "METRIC" /\ UNCHANGED <<client, batch>>
    BY <1>6 DEF Measured
  <2>2. CASE Await(r, "NODE_ERROR")
    BY <2>1, <2>2, AwaitStep
  <2>3. ASSUME Recorded(r), NEW n \in Targets(path[r][Len(path[r])]),
               \/ n = END /\ EndRun(r, "returned")
               \/ n # END /\ Len(path[r]) < MaxSteps /\ EnterNode(r, n) /\ UNCHANGED scope
               \/ n # END /\ Len(path[r]) = MaxSteps /\ EndRun(r, "raised")
        PROVE  IInv'
    <3>1. Has(r, Len(path[r]), "METRIC")
      BY <2>1, <2>3 DEF Recorded, Awaited, Has
    <3>2. CASE EndRun(r, "returned")
      BY <2>1, <3>1, <3>2, EndRunKeeps DEF Ended
    <3>3. CASE EndRun(r, "raised")
      BY <2>1, <3>3, EndRunKeeps DEF Ended
    <3>4. CASE n # END /\ Len(path[r]) < MaxSteps /\ EnterNode(r, n) /\ UNCHANGED scope
      <4>1. path[r][Len(path[r])] \in Nodes
        BY <1>1, <2>1, StepOfRun DEF RecInv, PathOfRun, Active
      <4>2. n \in Nodes
        BY <2>3, <3>4, <4>1, TargetsInGraph
      <4>3. RecInv'
        BY <1>1, <2>1, <3>1, <3>4, <4>2, EnterKeeps
      <4>4. \A q \in Runs : \/ pc'[q] = pc[q]
                            \/ pc'[q] \in Active /\ pc[q] \in Active
        BY <1>1, <2>1, <3>4 DEF EnterNode, RunTypes, Active
      <4>5. ScopeInv'
        BY <1>1, <3>4, <4>4, SameScopes
      <4>6. ClientInv'
        BY <1>1, <2>1, <4>4, ClientKeeps
      <4> QED BY <4>3, <4>5, <4>6, InvParts
    <3> QED BY <2>3, <3>2, <3>3, <3>4
  <2> QED BY <1>6, <2>2, <2>3 DEF Measured
<1>7. CASE Errored(r)
  BY <1>7, EndRunKeeps DEF Errored, Ended
<1> QED BY <1>2, <1>3, <1>4, <1>5, <1>6, <1>7 DEF Step

LEMMA NextInv == IInv /\ [Next]_vars => IInv'
<1> SUFFICES ASSUME IInv, [Next]_vars PROVE IInv'
  OBVIOUS
<1>1. RecInv /\ ScopeInv /\ ClientInv
  BY InvParts
<1>2. CASE Call \/ Return \/ Cancel
  BY <1>2, ClientStep
<1>3. CASE Decide
  <2>1. RecInv'
    BY <1>1, <1>3, DecideKeeps
  <2>2. ScopeInv'
    BY <1>1, <1>3, SameScopes DEF Decide
  <2>3. ClientInv'
    BY <1>1, <1>3, ClientKeeps DEF Decide
  <2> QED BY <2>1, <2>2, <2>3, InvParts
<1>4. CASE \E r \in Runs : Step(r)
  BY <1>4, RunStep
<1>5. CASE UNCHANGED vars
  BY <1>5 DEF vars, store, scope, IInv, TypeOK, PathOfRun, IssuedInOrder, StepsDone,
              OutcomeAfterStart, ErrorIsLast, ClientAwaits, ScopesBalanced, Known, Has
<1> QED BY <1>2, <1>3, <1>4, <1>5 DEF Next

\* The inductive invariant holds in every state.
THEOREM Invariance == Spec => []IInv
BY InitInv, NextInv, PTL DEF Spec

\* Every variable keeps its type; in particular no run enters a node beyond the
\* recursion limit or outside the graph.
THEOREM TypeCorrect == Spec => []TypeOK
<1>1. IInv => TypeOK
  BY DEF IInv
<1> QED BY <1>1, Invariance, PTL

\* The records of every run are, in every state, those of an execution without
\* gaps, whatever the store refuses and whenever the client is cancelled.
THEOREM RunsReplay == Spec => []ReplayHasNoGaps
<1>1. IInv => ReplayHasNoGaps
  <2> SUFFICES ASSUME IInv, NEW r \in Runs, NEW k \in 1..MaxSteps
               PROVE  /\ Has(r, k, "NODE_COMPLETE") \/ Has(r, k, "NODE_ERROR") => Has(r, k, "NODE_START")
                      /\ Has(r, k, "METRIC") => Has(r, k, "NODE_COMPLETE")
                      /\ Has(r, k, "NODE_START") /\ k > 1 =>
                           Has(r, k - 1, "METRIC") /\ ~Has(r, k - 1, "NODE_ERROR")
    BY DEF ReplayHasNoGaps
  <2>1. \A t \in Types : /\ Record(r, k, t).run = r
                         /\ Record(r, k, t).step = k
                         /\ Record(r, k, t).type = t
    BY DEF Record
  <2>2. Has(r, k, "NODE_COMPLETE") \/ Has(r, k, "NODE_ERROR") => Has(r, k, "NODE_START")
    BY <2>1 DEF IInv, IssuedInOrder, Known, Has, Types
  <2>3. Has(r, k, "METRIC") => Has(r, k, "NODE_COMPLETE")
    BY <2>1 DEF IInv, IssuedInOrder, Known, Has, Types
  <2>4. ASSUME Has(r, k, "NODE_START"), k > 1
        PROVE  Has(r, k - 1, "METRIC") /\ ~Has(r, k - 1, "NODE_ERROR")
    <3>1. k <= Len(path[r]) /\ Len(path[r]) \in Nat
      BY <2>1, <2>4, LenProperties DEF IInv, TypeOK, IssuedInOrder, Known, Has, Types
    <3>2. k - 1 \in 1..MaxSteps /\ k - 1 < Len(path[r])
      BY <2>4, <3>1, StepsAssumption
    <3>3. Has(r, k - 1, "METRIC")
      BY <3>2 DEF IInv, StepsDone
    <3>4. ~Has(r, k - 1, "NODE_ERROR")
      BY <3>1, <3>2 DEF IInv, ErrorIsLast, Known, Has, Record
    <3> QED BY <3>3, <3>4
  <2> QED BY <2>2, <2>3, <2>4
<1> QED BY <1>1, Invariance, PTL

\* The result of a run that returned is backed by all its records.
THEOREM ReturnedReplay == Spec => []ReturnedRunsReplay
<1>1. IInv => ReturnedRunsReplay
  <2> SUFFICES ASSUME IInv, NEW r \in Runs, pc[r] = "returned"
               PROVE  {e \in durable : e.run = r} =
                        {Record(r, k, t) : k \in 1..Len(path[r]), t \in Types \ {"NODE_ERROR"}}
    BY DEF ReturnedRunsReplay
  <2>1. path[r] # <<>> /\ path[r] \in Seq(Nodes) /\ Len(path[r]) <= MaxSteps
    BY DEF IInv, PathOfRun, TypeOK
  <2>2. Len(path[r]) \in Nat \ {0}
    BY <2>1, EmptySeq
  <2>3. ASSUME NEW e \in durable, e.run = r
        PROVE  \E k \in 1..Len(path[r]), t \in Types \ {"NODE_ERROR"} : e = Record(r, k, t)
    <3>1. e \in Records
      BY DEF IInv, TypeOK
    <3>2. e = Record(r, e.step, e.type) /\ e.step \in 1..MaxSteps /\ e.type \in Types
      BY <2>3, <3>1 DEF Records, Record
    <3>3. e.step \in 1..Len(path[r])
      BY <2>2, <2>3, <3>2 DEF IInv, IssuedInOrder, Known
    <3>4. e.type # "NODE_ERROR"
      BY <2>3 DEF IInv, ErrorIsLast, Known
    <3> QED BY <3>2, <3>3, <3>4
  <2>4. ASSUME NEW k \in 1..Len(path[r]), NEW t \in Types \ {"NODE_ERROR"}
        PROVE  Record(r, k, t) \in durable /\ Record(r, k, t).run = r
    <3>1. k \in 1..MaxSteps
      BY <2>1, <2>2, StepsAssumption
    <3>2. Has(r, k, "METRIC")
      <4>1. CASE k < Len(path[r])
        BY <3>1, <4>1 DEF IInv, StepsDone
      <4>2. CASE k = Len(path[r])
        BY <4>2 DEF IInv, OutcomeAfterStart
      <4> QED BY <2>2, <4>1, <4>2
    <3>3. Has(r, k, "NODE_COMPLETE") /\ Has(r, k, "NODE_START")
      BY <3>2 DEF IInv, IssuedInOrder, Known, Has, Record
    <3> QED BY <3>2, <3>3 DEF Has, Types, Record
  <2> DEFINE Full == {Record(r, k, t) : k \in 1..Len(path[r]), t \in Types \ {"NODE_ERROR"}}
  <2>5. \A e \in {f \in durable : f.run = r} : e \in Full
    BY <2>3
  <2>6. \A e \in Full : e \in {f \in durable : f.run = r}
    BY <2>4
  <2> QED BY <2>5, <2>6
<1> QED BY <1>1, Invariance, PTL

\* No scope is leaked or closed twice, in whatever order runs that share a stack
\* end.
THEOREM Balanced == Spec => []ScopesBalanced
<1>1. IInv => ScopesBalanced
  BY DEF IInv
<1> QED BY <1>1, Invariance, PTL

\* Once the client is done with its runs nothing more is recorded.
THEOREM Quiet == Spec => QuietAfterEnd
<1>1. IInv /\ [Next]_vars => [(client \in {"returned", "cancelled"}) => inflight' \subseteq inflight]_vars
  <2> SUFFICES ASSUME IInv, Next, client \in {"returned", "cancelled"}
               PROVE  inflight' \subseteq inflight
    OBVIOUS
  <2>1. \A r \in Runs : pc[r] \notin Active \cup {"created"}
    BY DEF IInv, ClientAwaits
  <2>2. \A r \in Runs : ~Step(r)
    BY <2>1 DEF Step, Start, Started, NodeDone, Completed, Measured, Errored, Active
  <2>3. ~Call /\ ~Cancel
    BY DEF Call, Ainvoke, Abatch, Cancel
  <2>4. CASE Return
    BY <2>4 DEF Return, AinvokeOver, AbatchReturns, AbatchRaises, store
  <2>5. CASE Decide
    BY <2>5 DEF Decide
  <2> QED BY <2>2, <2>3, <2>4, <2>5 DEF Next
<1> QED BY <1>1, Invariance, PTL DEF Spec, QuietAfterEnd
================================================================================
