# Verification of the NeMo chassis in TLA+

This directory models the program in `src/src/` where its behaviour is hard to
test: how asyncio tasks share an event store, a model gateway, a router, an
executor and a workflow engine, and what the state they pass around promises
after a long sequence of legal calls. The modules are checked with TLC on small
instances, and theorems about all of them are proved with TLAPS for every value of
their constants.

    tlc -config EventStore_writers.cfg MCEventStore.tla     # one run
    tlapm EventStore_proofs.tla                             # the proofs of a module

`PROJECT.json` holds the index: components, runs, the mutant that breaks each
property, the source lines of every definition, findings, hazards, theorems.

## 1. The system

Everything runs on one asyncio event loop. A task runs undisturbed from one
`await` to the next, so an action of a model is the code between two awaits.
What makes the code hard is what may happen at an await: another task runs,
the task is cancelled, a shared attribute (`self._conn`, the write lock, a
scope stack) is replaced, a library call fails.

| Component | Source | State | Operations | What is hard | What makes it correct | Module |
|---|---|---|---|---|---|---|
| Event store, writes | `state/event_store.py` | one connection, a lock, SQLite's implicit transaction | `record_event`, `record_events_batch`, `_execute_write` | several writers on one connection, a lock that is replaced, retries, cancellation with a job in the queue | an acknowledged event is durable; a failed call leaves nothing; no call hangs | `EventStore` |
| Event store, connection | same | `_conn`, `_initialized` | `_initialize`, `close` | two first calls, close against calls in flight | tables exist before an INSERT; a store that says it is initialised is usable | `EventStoreLifecycle` |
| Event store, sessions and reads | same | rows of sessions, timeline, events, metrics, snapshots | `update_session_state`, `append_timeline`, `delete_session`, `delete_execution`, `get_latest_snapshot`, `generate_handoff`, exports | read, then write across awaits; several commits per operation; a crash between them; a recovery by the caller's iteration | acknowledged rows survive and are recovered, deletions are complete, lost updates have only the known cause | `SessionStore` |
| NIM client | `infrastructure/nim_client.py` | semaphore, token bucket, counters | `ainvoke`, retries, continuations | permits across retries, continuations and cancellation; time | permits conserved, the rate bounded, every call ends | `NIMClient` |
| Workflow engine, runs | `runtime/engine.py` | runs under way | `ainvoke`, `abatch`, the node wrapper | runs side by side, recordings that fail, one run of a batch failing, cancellation | the recorded events of a run replay without gaps | `WorkflowRuns` |
| Workflow engine, graph | same | nodes, edges, entry point, compiled graph | `register_*`, `set_entry_point`, `compile`, `validate_graph` | registrations in any order, also after `compile` | a graph without warnings has every node on a path; a compiled graph knows its routes | `WorkflowGraph` |
| NeMo Relay integration | `infrastructure/nemo_relay_integration.py` | context variables, scope stacks | `workflow_scope`, `use_scope_stack`, `get_scope_stack` | what a task inherits from its parent's context | scopes balanced; runs isolated | `WorkflowRuns` |
| Workflow state, guardrails | `state/state_schema.py`, `governance/guardrails.py`, `contracts/base_contracts.py` | payload queue, artifact index, signals, decisions | `enqueue_payload`, `dequeue_payload`, `add_artifact`, `run_full_validation`, `record_validation` | long sequences of legal calls; combining decisions | no payload twice, artifacts found, a refusal stops the workflow | `WorkflowState` |
| Test-time compute | `runtime/ttc.py` | semaphore, tasks of a call | `execute`, `majority_vote_selector` | early stop cancels the losers; one of several fails; the next call needs the permits | a call that returned left nothing running; the plurality of what it took wins | `TTCExecutor` |
| Observability | `observability/` | buffer, flush task | `on_event`, `force_flush`, `activate`, `deactivate`, trajectory | buffer taken before an await; two flushes; shutdown order | every event is settled, once | `Observability` |
| Router | `routing/router.py` | targets and clients | `route`, `reload`, `get_client` | reload against routes in flight, an invalid file | calls to a target share the client made for it | `ModelRouter` |
| Sandbox, Git | `sandbox/runner.py`, `infrastructure/git_ops.py` | child processes, clone directories | `run`, `clone_repo`, `clone_repos_parallel` | timeout against exit; directories that collide; cancellation | a success means a clone; nothing keeps running without a cause | `GitOps` |
| Registries, data classes, vector store | `governance/`, `config/`, `contracts/`, `vectorstore/` | tables, data classes, an index | look-ups, templates | little | - | - |

How they interact: the engine's node wrapper awaits the event store three times
per node; nodes call the NIM client and the router; the TTC executor runs
several calls of a client side by side and cancels some; the observability
subscriber writes to the event store from its flush task; the engine opens a
scope per run through the NeMo Relay integration.

## 2. The modules

    EventLog  <--implements--  EventStore           <--  EventStore_proofs
    (abstract)                 EventStoreLifecycle  <--  EventStoreLifecycle_proofs
                               SessionStore         <--  SessionStore_proofs
                               NIMClient            <--  NIMClient_proofs
                               WorkflowRuns         <--  WorkflowRuns_proofs
      MCComponents    { WorkflowGraph, WorkflowState,
                        ModelRouter, GitOps }       <--  Components_proofs
      MCExecutors     { TTCExecutor, Observability } <-- Executors_proofs

    DataLemmas: finite sets of numbers, bijections and waiting queues, for
                EventStore_proofs, SessionStore_proofs, NIMClient_proofs and
                Executors_proofs

Every component that is run alone has an `MC` module of its own with its small
sets, and one `.cfg` per run. `MCComponents` (which also runs `EventStoreLifecycle`)
and `MCExecutors` (which also runs `EventStore`) run several components that share
no state: interleaving them would only multiply states, so a variable `component`
is chosen at first and one of them runs in each behaviour. They extend the modules,
whose definitions therefore carry the component's name (`GraphNext`, `RouterSpec`,
`TTCInit`): the properties checked there are the ones the theorems state.

Definitions marked "Mutant" in a module are wrong versions of the definition
that follows them, a slip a programmer could make; no specification uses them.
For each property a mutant is listed that TLC shows to violate it, so that no
property is true by the shape of the model.

### EventLog

What the store promises, without lock, connection or transaction: events are
submitted, submitted events become durable in any order, durable events are
acknowledged. It promises no grouping of a batch, since the code keeps none.

### EventStore (`event_store.py` 183-198, 292-383)

The callers are tasks in `record_event` or `record_events_batch`; `pc` says
which await each is at ("lock", "begin", "insert", "commit", "backoff"). The
connection's worker thread is external: aiosqlite's FIFO queue `jobs` and
SQLite's transaction `tx`, `pending`, `durable`. A job runs even when the task
that issued it is gone (`Orphan`).

- The lock. `_get_lock` compares `lock._loop` with the running loop, and
  asyncio sets `_loop` only when a task has to wait. So `GetLock` returns a new
  lock until one was contended, and two `record_event` calls can be inside "the"
  write lock at once. `BoundLockExcludes` says what the lock does guarantee. Only
  the current lock is kept: a lock that was replaced has no waiters.
- `_execute_write` takes the lock, executes one INSERT, commits, and retries on
  "database is locked" (`BackOff`, `Retry`), re-reading the lock each time.
  The other one-row inserts (`record_node_metric`, `snapshot_state`,
  `create_session`, `append_timeline`) take the same path and are the same
  action. Bound: `Uuids`, the ids that may be drawn, bounds the calls.
- The file is in WAL mode. What meets "database is locked" is the statement that
  takes the file's write lock, the INSERT or BEGIN; a COMMIT comes with that lock, or
  with nothing to commit, and `DbCommit` is never told so. The code's retry loop also
  wraps the COMMIT, but only a disk that fails could make it raise there, and such
  disks are not modelled.
- `record_events_batch` issues BEGIN, the INSERTs and COMMIT, without a retry
  and without a rollback.
- `Cancel` stops a caller at any await, as `ttc.py` 100-107 does.

### EventStoreLifecycle (`event_store.py` 200-311)

`_initialize`, `close` and a one-row write across connections. Every await
re-reads `self._conn`, so `target` records on which connection a job runs. The
file has one write lock (`writer`); a closed connection rolls back. There is no
asyncio lock: only a batch ever waits for it, and until then every caller gets
a new one.

### SessionStore (`event_store.py` 299-355, 447-986)

The methods that take several statements, on one connection that all tasks
share. A call is its list of statements (`First`, `AfterCommit` and the reads);
a write is a statement (`Executed`) and a COMMIT (`Commit`), between which any
other task runs. `view` is what the connection sees, `durable` what the file has:
any COMMIT copies the one to the other, whoever issued it. `Crash` puts `view`
back to `durable`; it happens at most once. A row is named after the task that
writes it, the session's by the task that created it (`created`, its `created_at`,
which no update writes), and `stamp` orders the timestamps. `late`, `before`, `found`
and `removed` are history. The session's id is also the execution id of its events,
metrics and snapshots, as `export_session_artifacts` reads them. Foreign keys are off
in the code (no PRAGMA), so an INSERT into the timeline never asks for the session.

`get_latest_snapshot` is `ORDER BY iteration DESC LIMIT 1`, and the iteration is the
caller's: `LatestSnapshots` are the snapshots of the highest iteration, of which the
file may give any, and a snapshot of a lower iteration is not found however late it
was taken. `AckedSurvive` says so of a recovery (`Recover`); its mutant orders by time.

### NIMClient (`nim_client.py` 51-119, 204-270)

`ainvoke` with its continuation loop, tenacity's retries of each request, the
semaphore as permits plus a FIFO of waiters, the token bucket in discrete time
(`Tick`; a token costs `Cost` ticks of refill). A sleeper is kept as the time it
still sleeps and the bucket's timestamp as an age, so no clock grows. `nominal`
and `actual` are meters: a leaky bucket that every request charges, which goes
below zero exactly when some window has seen more requests than the stated
bound.

### WorkflowRuns (`engine.py` 83-122, 171-206, 366-484, 543-560; `nemo_relay_integration.py` 61-63, 249-328)

A client task calls `ainvoke` any number of times and then `abatch` with the
executions that are left. `pc[r]` is the record a run awaits: NODE_START,
NODE_COMPLETE, METRIC, NODE_ERROR, or "executing" inside the node function.

- The wrapper: NODE_START is recorded before the `try`, so its failure leaves
  the run unrecorded; NODE_COMPLETE and the metric are recorded inside it, so
  the failure of either is followed by NODE_ERROR for a node that succeeded. So is
  a result that cannot be converted once the metric is recorded.
- `asyncio.gather` raises with the first failing run (`AbatchRaises`) and leaves
  the others running. Cancelling the client cancels the runs it awaits, which
  record nothing (`except Exception` does not see a cancellation).
- The event store appears as `inflight` and `durable`: a recording is decided
  once, durable or refused. That is what `EventLog` and `FailedLeavesNothing`
  say of the store; it holds while the store keeps one connection
  (see finding 2).
- Scopes: in the fallback mode, the only one the declared dependencies allow
  (nemo-relay is not among them), `use_scope_stack` installs nothing and
  `get_scope_stack` makes a stack in the context it is called from. `ainvoke`
  runs in its caller's context, the tasks of `abatch` in copies of it.
- LangGraph is external: one node after the other along the registered edges,
  an exception beyond `recursion_limit`. A node with parallel branches is
  excluded by `OneBranchAssumption`.

### WorkflowGraph (`engine.py` 229-343, 434-493, 576-617)

One action per registration method, with its check as guard (a method that
raises changes nothing); `register_conditional_edge` has none. `Compile` keeps
what LangGraph was given: the edge maps (`EdgeMap`) and the nodes whose routing
function holds the engine's own list (`shared`), through which registrations
after compile reach the compiled graph. `Reached` is the worklist of
`validate_graph`, a recursive function of the set of nodes reached so far
(`Visit`); `CleanGraphsRun` says what its verdict means without it: no set of nodes
that has the entry and is closed under the edges leaves a node out. What LangGraph
refuses (`Acceptable`) is external. Bound: `MaxRegistrations`.

### WorkflowState (`state_schema.py` 23-287, `guardrails.py` 200-554, `base_contracts.py` 200-217)

Every method of `BaseState` returns a new state, so the methods are operators
and an action applies one. `EnterNextNode` is the trip through a dict that
LangGraph makes between two nodes. A validator's result is the set of errors its
patterns find, an input of the model; the limits of the guardrails engine are
its own, not the state's. `Combine` is `_combine_decisions`. `RailsRaised` and
`RailsAnswered` are what `run_rails_validation` makes of an exception and of an
answer: a refusal that names no action becomes CONTINUE (line 507) and stops
nothing, so `refused` records which kind of refusal each was and `RefusalHalts` speaks
of those of full validations and of rails that raised or asked to halt.

### TTCExecutor (`ttc.py` 21-37, 61-148)

`PostInit` is the check of the configuration (which refuses the default
`early_stop_threshold`, `False`, because `False` is an integer below 1).
`ShouldEarlyStop` counts results, whatever they are; that it does not count agreeing
ones, as the module's docstring has it, is finding 6. A call
takes results in the order its tasks finish (`TakeResult`), stops early and then
awaits the tasks it cancelled (`Gathered`), or raises with the first failure
(`TakeFailure`) or is cancelled (`CancelCall`), leaving its tasks behind. The
calls share the semaphore: `waiting` is its FIFO, the executions in `Executing`
hold its permits; how a permit changes hands is in `NIMClient`.

### Observability (`subscribers.py` 24-117, `plugin.py` 40-113, `event_bridge.py` 29-62, `exporters.py` 111-217)

`Emit` is the synchronous `on_event` of both subscribers. A flush (`Take`) copies
and clears the buffer and then awaits one `record_event` per event: `rest` is what
it has still to write. Two may run at once, the scheduled one and that of
`Deactivate`. A recording that raises has stored nothing (`FailedLeavesNothing` of
`EventStore`) and drops the rest (`RecordFailed`). A flush that is cancelled drops
the rest as well, but the INSERT of the `record_event` it awaited may be on its way
to the worker (an `Orphan` of `EventStore`): the record is then `issued` and in
`doubt` (`FlushCancelled`) until it turns out that its row is in the table or `lost`
(`DoubtEnds`). `ToRecord` is the map of types; `Trajectory` is the loop that builds
the steps, a fold of `AddStep` over the records. Bound: `MaxEvents`.

### ModelRouter (`router.py` 22-209)

`LoadConfig` clears both tables before it reads the models and stops at the first
one that is rejected. `Route` makes a client on demand; its identity stands for
its rate limiter. `Edit` is the operator changing the file. Bound: `MaxClients`.

### GitOps (`git_ops.py` 91-201, `runner.py` 30-33, 146-192)

Each repository has a task and a child: a leader (git) and a helper that holds
its pipes. `communicate` returns when the leader has exited and nobody holds the
pipes; the timeout kills the group by the leader's id, which finds nothing once
asyncio has reaped it (`KillGroup`). Before a clone the directory is removed,
whoever's it is; a removal that raises may leave a part of it (`NotStarted`). git
and its transport are external.

## 3. The runs

| Run | Question | Instance | Distinct states |
|---|---|---|---|
| `writers` | Is what was acknowledged durable, and does what failed leave nothing, with cancellation at every await? Is the lock leaked, and when does it exclude? Does the inductive invariant hold? | 3 tasks, 2 single events, batches `<<e1,e2>>` and `<<e2>>` (a resubmission), 2 attempts, another process on the file; symmetry of tasks and ids | 549 thousand |
| `batch_atomic` | Is a batch in the file whole or not at all? (violated) | 2 tasks, 1 event, 1 batch | - |
| `lifecycle_durability` | Is what was acknowledged durable? (violated) | 2 writers | - |
| `sessions` | Do acknowledged rows survive a crash, and what does a recovery find; are deletions complete; where do orphans and lost updates come from; is a handoff current? | 3 tasks with one call each of any of 12 methods, 2 columns, 2 iterations, handoffs of 1 entry, one crash; symmetry of tasks and columns | 1.71 million |
| `session_deletion` | Is all data of a session gone when `delete_session` returned? (violated) | the same, no symmetry | - |
| `nim` | Are permits conserved; which rate is kept; how many requests does a call send; does every `ainvoke` end? | 3 tasks, 1 permit, bucket of 1 token, 1 tick per token, 2 attempts, 1 continuation, fairness | 467 thousand |
| `nim_rpm` | Is the documented rate kept? (violated) | 2 tasks, 2 permits, 2 ticks per token | - |
| `workflow_batch` | Do the records of a run replay without gaps; does a returned run have them all; are scopes balanced; is all quiet after the end; does every run end? | 3 runs, a loop of two nodes, at most 2 nodes per run, fairness | 877 thousand |
| `workflow_isolation` | Do runs under way have scope stacks of their own? (violated) | the same | - |
| `components` | Are there tables before INSERTs, is a store usable that says it is initialised, are losses only through a second connection, does every store call end? Does `validate_graph` agree with reachability, and does a compiled graph know its routes? No payload twice, artifacts found, refusals final? One client per target? Are clones there, and which processes stay? | store: 2 writers, 2 closers, 2 connections, 2 attempts, fresh or old file, fairness; graph: 3 names, 3 registrations; state: 2 payloads, 2 artifact ids and types, limits of 1 and 2; router: 2 callers, 2 targets, 3 files, 3 clients; clones: 3 repositories, 2 directories, 2 permits | 520 thousand |
| `executors` | Does the store implement `EventLog`, and does every call end? Is a call of `execute` that returned quiet, does the plurality win, does every call end? Is every event in one place, do the trajectories agree, is what was delivered settled? | store: 2 tasks, 1 single event, both batches of `writers`, 2 attempts; TTC: 2 calls of 3 executions, 2 permits, thresholds 0, 2, 4, 2 answers; plugin: 4 events of 3 kinds, threshold 2; fairness | 269 thousand |
| `ttc_agreement` | Does the early stop wait for results that agree? (violated) | 1 call of 3 executions, threshold 2, 2 answers | - |

Why the bounds are enough. Two tasks make every pairwise race; a third is there
where one more matters: a waiter behind a hand-over (`writers`, `nim`), a second
writer and a reader or a deletion (`sessions`), two runs of a batch on a stack
left by an earlier run (`workflow_batch`), a clone beside two that collide
(`components`). Two attempts are the first failure, a retry and exhaustion; the
code's 10 and 3 only repeat the middle one. Two rows are the least batch that can
be half written. A handoff of one entry is full after one. A bucket of one token
is empty after one request. `nim` with two permits (774 thousand states) passes
as well; it takes about four minutes and is not kept as a run. Two nodes are a first node, a
last one at the limit, and a step between them; three names in a graph are an
entry, a node reached, and one that is not, or a detour. Thresholds 0, 2 and 4
are refused, less than and more than the three executions. Two iterations are an earlier
and a later one, and two snapshots of the same. Four events are a
full buffer of two for the task and two more for the forced flush. Two connections are
the first and its replacement. Symmetry is used only in runs without temporal
properties other than action properties. `RunsEnd` is one leads-to from "some run is
under way" to "none is", which says as much as one per run (there are finitely many,
and a run never starts again) and which TLC checks in half the time. `CHECK_DEADLOCK
FALSE` is set everywhere because all of these systems stop legitimately when every
call has ended.

Fairness, in the runs with a liveness property only:

- Every task that is ready is resumed (`Resume`, `Step`, `CallStep`, `StartFlush`):
  asyncio's ready queue is FIFO. So is the semaphore of the executor (`Start`).
- The worker thread executes every job; a busy file answers after `busy_timeout`.
- Time passes, and a request is answered or times out (the client is built with
  a timeout).
- In `WorkflowRuns`, every recording is decided (that is `EventStore!CallsEnd`)
  and every node function ends; in `Observability`, `record_event` returns or
  raises, and the engine activates the plugin and deactivates it in a `finally`; for
  the end of a cancelled INSERT (`DoubtEnds`) no fairness is asked.
- In `TTCExecutor` the function of an execution ends (`TaskEnds`; for a call of
  the model that is `InvokesEnd`).
- Nobody has to call, to close, to cancel or to emit.

What the violated runs show (details under "findings" in `PROJECT.json`):

1. `batch_atomic`: the COMMIT of another call on the shared connection makes
   half of a batch durable; the docstring promises a single transaction.
2. `lifecycle_durability`: two first writes both connect; one INSERT and its
   COMMIT run on different connections and the acknowledged event is lost.
   `LossNeedsSecondConnection` says this is the only way.
3. `nim_rpm`: the refill of the time a task sleeps is credited to others too.
   `ThroughputBound` is the rate that is kept, `(MaxConcurrent + 1)` times the
   documented one.
4. `workflow_isolation`: after one `ainvoke`, the runs of an `abatch` in the
   same task, the sequence the README shows, share a scope stack.
   `ScopesBalanced` holds nevertheless.
5. `session_deletion`: `delete_session`, documented to delete all data for a session,
   leaves an event that was recorded for it before. `DeletionsAreComplete` is what it
   and `delete_execution` do: every row of their own tables, the session's included.
6. `ttc_agreement`: with a threshold of two, documented as "stop if results agree", a
   call stops after two results that differ. The default of the threshold, documented
   as valid, is refused by the constructor, so that the stop cannot be turned off
   but by a threshold above the number of executions.

Some properties state what a reader might not expect of the code, and hold:
`UpdatesLostOnlyToOverlap` (two concurrent updates of different columns lose
one), `OrphansAreLate` (timeline entries can be left without a session),
`SelectedByPlurality` (the plurality is that of the results taken: an answer the
cancelled executions would have given does not count), `AckedSurvive` (a recovery
finds the highest iteration, where the docstring of `get_latest_snapshot` says the
most recent snapshot), `RefusalHalts` (without the rails' refusals that name no action),
`CompiledRoutesKnown` and `ArtifactsFound` with their exceptions. The exception
is part of the statement so that nothing else may cause the same loss.

`TypeOK` is part of `IInv`, and so of a run and of a theorem, in `EventStore` and
`WorkflowRuns`. In the other modules it documents the variables; it was checked
on the instances above and is not listed with a run.

## 4. The proofs

The theorems hold for every finite or infinite choice of the constants that
meets the named assumptions of the module (distinct model values; at least one
attempt or step; batches are non-empty; the graph's edges join its nodes and no
node has a direct edge beside another edge; names are finitely many and signals
are actions) and the assumptions named here.

### EventStore_proofs

`TypeCorrect`, `Invariance`, `AckedEventsAreDurable`, `StoreImplementsLog`,
`LockIsNeverLeaked`, `BoundLocksExclude`, `FailuresLeaveNothing`.

`AckedDurable` is not inductive: that a commit's "ok" makes the caller's rows
durable depends on where these rows were before. `IInv` adds: a queued job with a
task is the statement that task awaits, and it has no other (`JobsOwned`); the
INSERT counter is in range (`NextInRange`); a row whose INSERT succeeded is in the
open transaction or the file (`InsertedKept`); a commit answered "ok" has put the
caller's rows there (`CommitDurable`); rows come from callers (`RowsSubmitted`).
The argument never uses the lock: it works for any interleaving on one
connection because a transaction is ended only by a commit. The refinement maps
`submitted`, `durable` and `acked` to the variables of the same names: a call is
`Submit`, a COMMIT job is a `Persist`, a commit's answer an `Acknowledge`, any
other step stutters.

`LockIsNeverLeaked` and `BoundLocksExclude` rest on `LInv`: the waiters are a
queue without repetition of tasks that await the lock, none of them its holder
(`DataLemmas` says what joining, serving and leaving do to such a queue).

`FailuresLeaveNothing` assumes that the ids `record_event` draws are not ids of
batches: `\A b \in Batches : IdsOf(b) \cap Uuids = {}`. In the code they are
fresh UUIDs. `FailInv` says that a drawn id is only in its own call's rows, that
no orphaned job carries an id of a call that is still going on or failed, and
that it is inserted only when the INSERT that inserts it is answered "ok".

### EventStoreLifecycle_proofs

`TypeCorrect`, `TablesFirst`, `UsableUntilClosed`, `OneConnectionIsDurable`; each
of the last three has an inductive invariant of its own.

- `Tabled`: tables exist once any caller is past the script, and once
  `_initialized` is set; nothing ever drops them.
- `Usable`: while no `close` was called, every connection that was opened is open,
  the store has one as soon as somebody is past `connect`, and a caller past
  `_initialize` writes on one of them. With `close` the property fails, which is
  why the statement stops there.
- `Safe`: as long as one connection was opened, what a writer inserted waits in
  that connection's transaction until its COMMIT. A row is lost only when its
  connection is closed between the two, and then the COMMIT raises, on the same
  connection, and the row is not acknowledged. That the two are the same
  connection is all the property needs, and all that fails with a second one.

### SessionStore_proofs

`AcknowledgedRowsSurvive`, `DeletionsComplete`, `NoOlderOrphans`,
`HandoffsShowTheNewest`, `UpdatesAreLostOnlyToOverlap`; no assumption beyond the
module's own. A task executes only the statements of its method
(`Placed`). A row is in the view from its INSERT and in the file from its return,
unless removed (`RowsKept`): any COMMIT copies the whole view, so another task's
only helps. A recovery reads such a view: it has every snapshot that had returned and
was not removed, and gives one of the highest iteration there is (`RecoveredBy`, kept
afterwards because iterations never change, `StillRecovered`). For the deletions,
the rows a call found belong to tasks past their INSERT, which insert no more
(`RowsRan`), so what a DELETE took cannot come back (`Deleted`); that covers the
session's row, which a later `create_session` makes anew under another `created`.
For the orphans, the same of the timeline entries that are not `late`, together with
the fact that a session an update writes back is one it has read (`Fetched`).

For the handoffs, timestamps of calls are distinct (`Stamped`, with the number of
calls as their bound, so that the next one is new); then an entry that is not among
the `n` newest has exactly `n` newer ones among these (`RecentShows`), which is what
a handoff had when it read and keeps afterwards (`Handed`: no stamp of a call that
was made ever changes).

For the updates, `Lasts` follows one update that has no excuse. A task still at
work then neither creates nor deletes the session, and if it updates it changes
another column and called after the first update had returned (`Harmless`). So the
session is there when the update writes, its value stays in the view and the file,
and every later update that is about to write has read it, which is the part that
makes the invariant inductive: what `update_session_state` writes back is all it
has read.

### WorkflowRuns_proofs

`TypeCorrect`, `Invariance`, `RunsReplay`, `ReturnedReplay`, `Balanced`, `Quiet`.

`ReplayHasNoGaps` speaks of durable records only and is not inductive: a record
in flight may become durable at any later moment, even after its run was
cancelled. `IInv` therefore speaks of records known to the store, in flight or
durable: each was issued when its predecessors were durable (`IssuedInOrder`);
every step but the last is measured (`StepsDone`); a run's await says what of
its last step is durable (`OutcomeAfterStart`); a NODE_ERROR belongs to the last
step of a run that can only raise (`ErrorIsLast`); a run under way is awaited by
the client, or was left by an `abatch` that raised (`ClientAwaits`). Type
correctness itself needs the invariant, since the length of a path is bounded
because a run that starts has an empty one (`PathOfRun`). The proof has a lemma
for each thing the actions are built from (await a record, enter a node, end a
run, open and close a scope) and then one step per action.

### NIMClient_proofs

`PermitsAreConserved`: the invariant `Balanced` says that permits left and the
set of holders add up to `MaxConcurrent`, that the waiters are a queue without
repetition in which no holder stands, and that it is empty while a permit is
left. Each thing that happens to a semaphore (taken, queued, released with a
hand-over, withdrawn) is a lemma, and the actions are combinations of them.
`RequestsAreBounded`: requests sent, and the one that may still be sent for the
current attempt, are at most `continuations * MaxAttempts + attempt`.
`RateIsBounded`: the meter `actual` falls with a request and rises with time. The
invariant `Covered` says that it is at least what is in the bucket, in ticks, and
what the sleepers already have of their tokens: what each took from the bucket and
the ticks it has slept since. That credit is counted as a set of pairs of a task and
a tick (`Credit`). A tick adds at most one pair per sleeping task; sleeping tasks hold
a permit each and are therefore at most `MaxConcurrent`; and the bucket gains at most
one tick more.

### Executors_proofs

`QuietWhenReturned`. That the last result leaves no task is a matter of counting:
while a call awaits, the tasks that are over are as many as the results it has
taken and those it may still take (`Counted`), so when it has taken
`num_executions` all of them are over. After an early stop the `gather` says it.

`PluralityIsSelected`. A call that awaits has fewer results than its threshold
(`Configured`, `Chosen`), and one that returned has selected by `MajorityVote`,
whose two CHOOSEs must be shown to have something to choose: an answer with the
most votes exists because counts are bounded by the number of results
(`CountBounds`, `Elected`), its first place because a set of positions has a least
element (`FirstPlace`).

`NoEventLostOrDoubled`. `ConservedInv` says that every number up to `emitted`
stands in one of the five places (buffer, two flushes, issued, dropped), that only
issued records are in doubt or lost, and that the places' sizes add up to `emitted`.
The sum is what makes them disjoint and free of repetition: a step that moves a
record preserves sum and union, and from both the absence of repetition follows
when it is needed (`NothingShared`), instead of being carried along for each pair
of places.

`TrajectoriesAreTheSame`. `TrajectoryInv` adds that the collected events are all
the emitted ones in order, that a record in the buffer, a flush or the store is
`ToRecord` of the event of its number, and that unless flushes overlapped the
store, the flush that is under way and the buffer stand in the order of the
numbers. When everything is issued and nothing in doubt or lost, the records are
then a permutation of the events', and the same sequence if nothing overlapped. What
`Trajectory`, a fold, makes of two such sequences is compared by the lemmas
`TrajectoryByTurns` (the fold's values for the prefixes) and `TrajectoryHas` (its
steps are those of the records that have one).

### Components_proofs

The graph: `RoutesAreKnown`, from an invariant about the list a compiled graph
shares with the engine; `ValidGraphsRun`, for which the traversal is shown to end
with a set that is closed and within every closed set that has the entry. This is
an induction on the number of names not yet reached.

The workflow state: `PayloadsGoOnce` (the queue and what left it are one sequence
without repetition, whose members are the accepted ids), `ArtifactsAreFound`,
`RefusalsHalt`, and `CombiningMerges`, which says for any number of results that the
decision of `_combine_decisions` is the fold of `ValidationDecision.merge`.

The router: `CurrentClientIsShared`, with `RouterConstants`: "default" is a target
name, and no client is the absence of one. A call that started after the last load
holds a client, the one in the pool for its target.

The clones: `GitInvariant`, `ClonesAreThere` and `NoStrayWithoutCause`, for
directories `Dir(r)` in `Dirs`. `GInv` says for each place of a task what is left of
its processes (`Placed`), and that an exit with success in a directory nobody shares
left the complete tree there, which only that repository's task and git can change
(`Reported`).

### DataLemmas, and induction

The induction theorems of the library take an operator as a parameter, which the
provers used here cannot instantiate. Where an induction over numbers is needed it
is made by hand, from a least counterexample: a non-empty set of numbers has a
least member (`Least`), whose predecessor is then not in the set. So are the
existence of the function a fold or a recursive definition stands for (`FoldExists`,
and the same for `Visit`), the unfolding of these, and the properties of counts and
traversals above. Every such induction is written out for one set, which is what it
costs. `SelectSeq` cannot be reasoned about, since the prover does not unfold it;
the models use folds.

### Only model-checked

- Liveness (`CallsEnd`, `InvokesEnd`, `RunsEnd`, `ExecuteEnds`,
  `DeliveredIsSettled`): the prover handles neither fairness nor ENABLED here.
- That the wrapper of `WorkflowRuns` may take `EventStore` for its `Decide`, that
  the executor's semaphore is that of `NIMClient`, and that one-row writes may be
  taken apart into `EventStore` (retries, lock) and `SessionStore` (tables), are
  arguments, not theorems.

## 5. Not modelled, and the plan

Left out:

- formatting, exports, text of messages and answers, regular expressions of the
  detectors, the tables of the registries, policies and prompts, the Pydantic
  data classes, FAISS;
- LangGraph's, SQLite's and git's internals beyond their use here, and disks that
  fail (so that a COMMIT never raises);
- the native mode of NeMo Relay, with propagation, forked contexts and plugin
  hooks, which the declared dependencies do not install;
- `astream` of the engine and of the NIM client: its consumer decides when an
  iteration goes on, so a permit is held, and a scope open, as long as it likes;
- nodes with parallel branches; `StrictRateLimiter`, whose rate is aiolimiter's;
- `validate_with_policy`, which calls a method that does not exist;
- in `abatch` of the NIM client, what its caller sees when one request fails:
  the requests themselves are `NIMClient`'s callers.

What would add most next:

1. A composition of `WorkflowRuns` with `EventStore` in place of `Decide`, and a
   refinement that shows the abstraction right.
2. An abstract semaphore that `NIMClient`, `TTCExecutor` and `GitOps` implement.
3. `astream` with a consumer that stops early.
