----------------------------- MODULE WorkflowRuns -----------------------------
(***************************************************************************)
(* Executions of a compiled workflow, src/src/runtime/engine.py: a client  *)
(* task that calls ainvoke and then abatch, the runs these start, the      *)
(* wrapper around every node function that records what the node does, and *)
(* the workflow scopes of nemo_relay_integration.py in its fallback mode,  *)
(* the only one the declared dependencies allow.                           *)
(*                                                                         *)
(* The event store is taken at what EventStore shows of it (EventLog and   *)
(* FailedLeavesNothing): a recording that is in flight is decided once, it *)
(* becomes durable or is refused, also after its task was cancelled.       *)
(*                                                                         *)
(* LangGraph is external: it runs one node after the other along the       *)
(* registered edges and raises beyond its recursion limit.  Several direct *)
(* edges out of one node (parallel branches) are not modelled.             *)
(***************************************************************************)
EXTENDS Naturals, Sequences

CONSTANTS
  Runs,         \* initial states, each with an execution id of its own
  Nodes,        \* registered nodes
  Entry,        \* entry point
  END,          \* LangGraph's END
  Direct,       \* edges without a condition: <<from, to>>
  Conditional,  \* edges with one
  MaxSteps,     \* LangGraph's recursion_limit, in nodes
  Client,       \* the client task, as the owner of a context
  NoStack       \* None, for a context variable that is not set

Edges == Direct \cup Conditional

ASSUME GraphAssumption == /\ Entry \in Nodes
                          /\ END \notin Nodes
                          /\ Edges \subseteq Nodes \X (Nodes \cup {END})
ASSUME OneBranchAssumption ==
  \A e \in Direct, f \in Edges : e[1] = f[1] => e = f
ASSUME StepsAssumption == MaxSteps \in Nat \ {0}
ASSUME NamesAssumption == Client \notin Runs /\ NoStack \notin Runs

VARIABLES
  client,    \* what the client task is doing
  batch,     \* the runs its current ainvoke or abatch awaits
  pc,        \* where each run awaits
  path,      \* the nodes each run has entered, in order
  inflight,  \* records handed to the store and not decided
  durable,   \* records in the store
  stack,     \* _scope_stack_var in the context of the client and of each run
  scopes     \* handles on each scope stack (nothing reads their order); a stack
             \* is named by the run that created it, a handle by its run

store == <<inflight, durable>>
scope == <<stack, scopes>>
vars  == <<client, batch, pc, path, store, scope>>

Types   == {"NODE_START", "NODE_COMPLETE", "METRIC", "NODE_ERROR"}
Records == [run : Runs, step : 1..MaxSteps, type : Types]

Active  == {"NODE_START", "executing", "NODE_COMPLETE", "METRIC", "NODE_ERROR"}
Ended   == {"returned", "raised", "cancelled"}

TypeOK ==
  /\ client \in {"ready", "ainvoke", "abatch"} \cup Ended
  /\ batch \subseteq Runs
  /\ pc \in [Runs -> {"idle", "created"} \cup Active \cup Ended]
  /\ path \in [Runs -> Seq(Nodes)]
  /\ \A r \in Runs : Len(path[r]) <= MaxSteps
  /\ inflight \subseteq Records
  /\ durable \subseteq Records
  /\ stack \in [Runs \cup {Client} -> Runs \cup {NoStack}]
  /\ scopes \in [Runs -> SUBSET Runs]

(***************************************************************************)
(* Recording.                                                              *)
(***************************************************************************)
Record(r, k, t) == [run |-> r, step |-> k, type |-> t]

\* The record run r awaits: its pc is the record's type.
Awaited(r) == Record(r, Len(path[r]), pc[r])

Recording(r) == pc[r] \in Types
Recorded(r)  == Recording(r) /\ Awaited(r) \in durable
Refused(r)   == Recording(r) /\ Awaited(r) \notin inflight \cup durable

\* Await the recording of a record of the current node.
Await(r, t) ==
  /\ pc' = [pc EXCEPT ![r] = t]
  /\ inflight' = inflight \cup {Record(r, Len(path[r]), t)}
  /\ UNCHANGED <<path, durable, scope>>

\* Enter node n: the wrapper records NODE_START before its try block.
EnterNode(r, n) ==
  /\ pc' = [pc EXCEPT ![r] = "NODE_START"]
  /\ path' = [path EXCEPT ![r] = Append(@, n)]
  /\ inflight' = inflight \cup {Record(r, Len(path[r]) + 1, "NODE_START")}
  /\ UNCHANGED durable

(***************************************************************************)
(* Scopes.                                                                 *)
(***************************************************************************)
\* get_scope_stack: the stack of the context, or a new one.
StackOf(c, r) == IF stack[c] = NoStack THEN r ELSE stack[c]

\* workflow_scope: push the run's handle on the stack of the context c.
OpenScope(r, c) ==
  LET s == StackOf(c, r)
  IN  /\ stack' = [stack EXCEPT ![c] = s, ![r] = s]
      /\ scopes' = [scopes EXCEPT ![s] = @ \cup {r}]

\* Mutant: the whole stack is dropped with the scope.
DropStacks(R) ==
  /\ scopes' = [s \in Runs |-> IF \E r \in R : stack[r] = s THEN {} ELSE scopes[s]]
  /\ UNCHANGED stack

\* close_workflow_scope: the handles of the runs R leave their stacks; the
\* contexts keep them.
CloseScopes(R) ==
  /\ scopes' = [s \in Runs |-> scopes[s] \ R]
  /\ UNCHANGED stack

\* The run is over; workflow_scope closes on every way out.
EndRun(r, how) ==
  /\ pc' = [pc EXCEPT ![r] = how]
  /\ CloseScopes({r})
  /\ UNCHANGED <<path, store>>

(***************************************************************************)
(* Routing: a direct edge is followed; of conditional edges, the first     *)
(* whose condition (the user's function) holds, and END when none does.    *)
(***************************************************************************)
From(n, edges) == {e[2] : e \in {f \in edges : f[1] = n}}

Targets(n) == From(n, Direct) \cup (IF From(n, Direct) = {} THEN From(n, Conditional) \cup {END}
                                                           ELSE {})

(***************************************************************************)
(* The client.                                                             *)
(***************************************************************************)
\* ainvoke runs in the client's own context, up to its first node.
Ainvoke(r) ==
  /\ client = "ready"
  /\ pc[r] = "idle"
  /\ client' = "ainvoke"
  /\ batch' = {r}
  /\ OpenScope(r, Client)
  /\ EnterNode(r, Entry)

\* ainvoke returned or raised; the client goes on either way.
AinvokeOver ==
  /\ client = "ainvoke"
  /\ \A r \in batch : pc[r] \in Ended
  /\ client' = "ready"
  /\ UNCHANGED <<batch, pc, path, store, scope>>

\* abatch: gather makes a task of every run, with a copy of the client's context.
Abatch ==
  /\ client = "ready"
  /\ client' = "abatch"
  /\ batch' = {r \in Runs : pc[r] = "idle"}
  /\ pc' = [r \in Runs |-> IF r \in batch' THEN "created" ELSE pc[r]]
  /\ stack' = [c \in Runs \cup {Client} |-> IF c \in batch' THEN stack[Client] ELSE stack[c]]
  /\ UNCHANGED <<path, store, scopes>>

\* gather returns when every run has returned ...
AbatchReturns ==
  /\ client = "abatch"
  /\ \A r \in batch : pc[r] = "returned"
  /\ client' = "returned"
  /\ UNCHANGED <<batch, pc, path, store, scope>>

\* ... and raises as soon as one has raised; the others go on.
AbatchRaises ==
  /\ client = "abatch"
  /\ \E r \in batch : pc[r] = "raised"
  /\ client' = "raised"
  /\ UNCHANGED <<batch, pc, path, store, scope>>

\* Mutant: the client is cancelled and its runs are not.
CancelClientOnly ==
  /\ client \in {"ainvoke", "abatch"}
  /\ client' = "cancelled"
  /\ UNCHANGED <<batch, pc, path, store, scope>>

\* The client is cancelled, and with it every run it awaits, at whatever await
\* that is.  "except Exception" does not see a cancellation: nothing is recorded.
Cancel ==
  /\ client \in {"ainvoke", "abatch"}
  /\ client' = "cancelled"
  /\ LET R == {r \in batch : pc[r] \notin Ended}
     IN  /\ pc' = [r \in Runs |-> IF r \in R THEN "cancelled" ELSE pc[r]]
         /\ CloseScopes(R)
  /\ UNCHANGED <<batch, path, store>>

(***************************************************************************)
(* A run, from await to await.                                             *)
(***************************************************************************)
\* A task of abatch runs for the first time.
Start(r) ==
  /\ pc[r] = "created"
  /\ OpenScope(r, r)
  /\ EnterNode(r, Entry)
  /\ UNCHANGED <<client, batch>>

\* NODE_START is recorded: call the node function; or its recording raised,
\* which the wrapper does not catch.
Started(r) ==
  /\ pc[r] = "NODE_START"
  /\ \/ /\ Recorded(r)
        /\ pc' = [pc EXCEPT ![r] = "executing"]
        /\ UNCHANGED <<path, store, scope>>
     \/ /\ Refused(r)
        /\ EndRun(r, "raised")
  /\ UNCHANGED <<client, batch>>

\* The node function returned or raised.
NodeDone(r) ==
  /\ pc[r] = "executing"
  /\ Await(r, "NODE_COMPLETE") \/ Await(r, "NODE_ERROR")
  /\ UNCHANGED <<client, batch>>

\* Mutant: a recording that raised is taken for done.
CompletedAnyway(r) ==
  /\ pc[r] = "NODE_COMPLETE"
  /\ Recorded(r) \/ Refused(r)
  /\ Await(r, "METRIC")
  /\ UNCHANGED <<client, batch>>

\* NODE_COMPLETE is recorded, and the metric is next; if its recording raised,
\* the handler records NODE_ERROR.
Completed(r) ==
  /\ pc[r] = "NODE_COMPLETE"
  /\ \/ Recorded(r) /\ Await(r, "METRIC")
     \/ Refused(r) /\ Await(r, "NODE_ERROR")
  /\ UNCHANGED <<client, batch>>

\* The metric is recorded and the wrapper returns: LangGraph enters the next
\* node, or ends the run.  If its recording raised, or what the node returned
\* cannot be converted to a dict (it is None, say), NODE_ERROR follows the
\* NODE_COMPLETE, in the second case the metric too.
Measured(r) ==
  /\ pc[r] = "METRIC"
  /\ \/ /\ Recorded(r)
        /\ \E n \in Targets(path[r][Len(path[r])]) :
             \/ n = END /\ EndRun(r, "returned")
             \/ n # END /\ Len(path[r]) < MaxSteps /\ EnterNode(r, n) /\ UNCHANGED scope
             \/ n # END /\ Len(path[r]) = MaxSteps /\ EndRun(r, "raised")
     \/ (Recorded(r) \/ Refused(r)) /\ Await(r, "NODE_ERROR")
  /\ UNCHANGED <<client, batch>>

\* Mutant: an error that is not recorded is waited for.
ErroredIfRecorded(r) ==
  /\ pc[r] = "NODE_ERROR"
  /\ Recorded(r)
  /\ EndRun(r, "raised")
  /\ UNCHANGED <<client, batch>>

\* Mutant: NODE_ERROR is issued and not awaited, and the state is returned.
ErrorSwallowed(r) ==
  /\ pc[r] = "NODE_ERROR"
  /\ EndRun(r, "returned")
  /\ UNCHANGED <<client, batch>>

\* NODE_ERROR is recorded or its recording raised: an exception leaves the run.
Errored(r) ==
  /\ pc[r] = "NODE_ERROR"
  /\ Recorded(r) \/ Refused(r)
  /\ EndRun(r, "raised")
  /\ UNCHANGED <<client, batch>>

(***************************************************************************)
(* The store decides a recording.                                          *)
(***************************************************************************)
Decide ==
  /\ \E e \in inflight :
       /\ inflight' = inflight \ {e}
       /\ \/ durable' = durable \cup {e}
          \/ UNCHANGED durable
  /\ UNCHANGED <<client, batch, pc, path, scope>>

(***************************************************************************)
(* Specification.                                                          *)
(***************************************************************************)
Init ==
  /\ client = "ready"
  /\ batch = {}
  /\ pc = [r \in Runs |-> "idle"]
  /\ path = [r \in Runs |-> <<>>]
  /\ inflight = {}
  /\ durable = {}
  /\ stack = [c \in Runs \cup {Client} |-> NoStack]
  /\ scopes = [s \in Runs |-> {}]

Call   == (\E r \in Runs : Ainvoke(r)) \/ Abatch
Return == AinvokeOver \/ AbatchReturns \/ AbatchRaises

Step(r) == \/ Start(r) \/ Started(r) \/ NodeDone(r) \/ Completed(r)
           \/ Measured(r) \/ Errored(r)

Next == Call \/ Return \/ Cancel \/ Decide \/ \E r \in Runs : Step(r)

Spec == Init /\ [][Next]_vars

\* Every recording is decided (EventStore!CallsEnd), every node function ends,
\* and the event loop runs every ready task.
Fairness == /\ WF_vars(Return)
            /\ WF_vars(Decide)
            /\ \A r \in Runs : WF_vars(Step(r))

FairSpec == Spec /\ Fairness

(***************************************************************************)
(* Properties.                                                             *)
(***************************************************************************)
Has(r, k, t) == Record(r, k, t) \in durable

\* "Full replay": the records of a run are, at every moment and after every
\* crash, refusal or cancellation, those of an execution without gaps.  A step
\* has an outcome only after its start, a metric only after its completion, and
\* starts only after the step before was completed, measured and not in error.
ReplayHasNoGaps ==
  \A r \in Runs, k \in 1..MaxSteps :
    /\ Has(r, k, "NODE_COMPLETE") \/ Has(r, k, "NODE_ERROR") => Has(r, k, "NODE_START")
    /\ Has(r, k, "METRIC") => Has(r, k, "NODE_COMPLETE")
    /\ Has(r, k, "NODE_START") /\ k > 1 =>
         Has(r, k - 1, "METRIC") /\ ~Has(r, k - 1, "NODE_ERROR")

\* The result of a run is backed by the store: a run that returned has every
\* record of its path, and no error.
ReturnedRunsReplay ==
  \A r \in Runs : pc[r] = "returned" =>
    {e \in durable : e.run = r} =
      {Record(r, k, t) : k \in 1..Len(path[r]), t \in Types \ {"NODE_ERROR"}}

\* Scopes are balanced although runs that share a stack close in any order: a
\* run under way has its handle on its own stack and no other, and a run that is
\* over has left none behind.
ScopesBalanced ==
  \A r, s \in Runs : r \in scopes[s] <=> pc[r] \in Active /\ stack[r] = s

\* Once the client is done with its runs, by abatch's return or by cancellation,
\* no run of it records anything more (what was in flight may still land).
QuietAfterEnd ==
  [][(client \in {"returned", "cancelled"}) => inflight' \subseteq inflight]_vars

\* Every run that was started ends, also those abatch left behind when it raised: as
\* no run is started twice, there comes a moment when none is under way.
UnderWay(r) == pc[r] \in Active \cup {"created"}
RunsEnd     == (\E r \in Runs : UnderWay(r)) ~> (\A r \in Runs : ~UnderWay(r))

(***************************************************************************)
(* The inductive invariant behind the safety properties above: with the    *)
(* types and the scopes, what has been recorded and what may still be.     *)
(***************************************************************************)
Known == inflight \cup durable

\* A run not under way has entered no node; one under way is at its last.
PathOfRun ==
  \A r \in Runs :
    /\ pc[r] \in {"idle", "created"} => path[r] = <<>>
    /\ pc[r] \in Active \cup {"returned"} => path[r] # <<>>

\* What an execution has recorded, or may still have recorded, is in order, and
\* each record was issued only when the one before it was durable.
IssuedInOrder ==
  \A e \in Known :
    LET Durable(k, t) == Record(e.run, k, t) \in durable
    IN  /\ e.step <= Len(path[e.run])
        /\ e.type # "NODE_START" => Durable(e.step, "NODE_START")
        /\ e.type = "METRIC" => Durable(e.step, "NODE_COMPLETE")

\* Every step but the last was completed and measured, and none of them failed.
StepsDone ==
  \A r \in Runs : \A k \in 1..MaxSteps : k < Len(path[r]) => Has(r, k, "METRIC")

\* The awaits of the wrapper come in order.
OutcomeAfterStart ==
  \A r \in Runs :
    LET k == Len(path[r])
    IN  /\ pc[r] \in Active \ {"NODE_START"} => Has(r, k, "NODE_START")
        /\ pc[r] = "METRIC" => Has(r, k, "NODE_COMPLETE")
        /\ pc[r] = "returned" => Has(r, k, "METRIC")

\* An error is the last thing a run records.
ErrorIsLast ==
  \A e \in Known : e.type = "NODE_ERROR" =>
    /\ e.step = Len(path[e.run])
    /\ pc[e.run] \in {"NODE_ERROR", "raised", "cancelled"}

\* Only a client that awaits them, or that was left by an exception of one of
\* them, has runs under way.
ClientAwaits ==
  \A r \in Runs : pc[r] \in Active \cup {"created"} =>
    \/ client \in {"ainvoke", "abatch"} /\ r \in batch
    \/ client = "raised"

IInv ==
  /\ TypeOK
  /\ PathOfRun
  /\ IssuedInOrder
  /\ StepsDone
  /\ OutcomeAfterStart
  /\ ErrorIsLast
  /\ ClientAwaits
  /\ ScopesBalanced

(***************************************************************************)
(* What the documentation says and the code does not do.                   *)
(***************************************************************************)
\* README: "Batch execution (20 concurrent workflows, each with isolated NeMo
\* Relay scope)".  No two runs under way share a scope stack.
ScopesIsolated ==
  \A r, q \in Runs : pc[r] \in Active /\ pc[q] \in Active /\ stack[r] = stack[q] => r = q
===============================================================================
