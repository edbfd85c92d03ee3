-------------------------- MODULE SessionStore_proofs --------------------------
(***************************************************************************)
(* Theorems about SessionStore, for any set of tasks, any columns and any  *)
(* limit: what was acknowledged survives and is what a recovery finds,     *)
(* what a deletion removed stays removed, no deletion orphans an older     *)
(* timeline entry, a handoff shows the newest entries, and an update is    *)
(* only lost to one that overlaps it.                                      *)
(***************************************************************************)
EXTENDS SessionStore, DataLemmas, TLAPS

(***************************************************************************)
(* The inductive invariant.                                                *)
(***************************************************************************)
Columns == {"session", "created", "timeline", "events", "metrics", "snapshots"}

Typed ==
  /\ DOMAIN view = Columns /\ DOMAIN durable = Columns
  /\ method \in [Tasks -> Ops \cup {"none"}]
  /\ pc \in [Tasks -> PCs]
  /\ open \in [Tasks -> BOOLEAN]
  /\ DOMAIN found = Tasks

\* A task executes only the statements of the method it called.
Placed ==
  \A t \in Tasks :
    /\ open[t] => pc[t] \in Writes
    /\ method[t] = "create"   => pc[t] \in {"insert_session"} \cup Ended
    /\ method[t] = "append"   => pc[t] \in {"insert_timeline"} \cup Ended
    /\ method[t] = "record"   => pc[t] \in {"insert_event"} \cup Ended
    /\ method[t] = "metric"   => pc[t] \in {"insert_metric"} \cup Ended
    /\ method[t] = "snapshot" => pc[t] \in {"insert_snapshot"} \cup Ended
    /\ method[t] = "delete_session" => pc[t] \in {"delete_timeline", "delete_session"} \cup Ended
    /\ method[t] = "delete_execution" =>
         pc[t] \in {"delete_events", "delete_metrics", "delete_snapshots"} \cup Ended
    /\ method[t] = "latest"   => pc[t] \in {"read_snapshots"} \cup Ended

\* The row a task has inserted is in the table until a DELETE takes it, and in the
\* file once the task has returned.
Kept(o, v, d) ==
  \A t \in Tasks \ removed : method[t] = o =>
    /\ open[t] \/ pc[t] = "returned" => t \in v
    /\ pc[t] = "returned" => t \in d

RowsKept ==
  /\ Kept("create",   view.created,   durable.created)
  /\ Kept("append",   view.timeline,  durable.timeline)
  /\ Kept("record",   view.events,    durable.events)
  /\ Kept("metric",   view.metrics,   durable.metrics)
  /\ Kept("snapshot", view.snapshots, durable.snapshots)

(***************************************************************************)
(* Types and places.                                                       *)
(***************************************************************************)
USE DEF Ended, db, hist

LEMMA InitTyped == Init => Typed /\ Placed
<1> SUFFICES ASSUME Init PROVE Typed /\ Placed
  OBVIOUS
<1>1. Typed
  BY DEF Init, Typed, Columns, PCs
<1>2. Placed
  BY DEF Init, Placed
<1> QED BY <1>1, <1>2

Inserts ==
  {"insert_session", "insert_timeline", "insert_event", "insert_metric", "insert_snapshot"}

\* A query, and an INSERT that is refused, only move their task on.
Moved(t, where) ==
  /\ pc[t] \in Reads \cup {"insert_session"} /\ ~open[t]
  /\ where \in PCs \ (Inserts \cup {"idle"})
  /\ pc[t] = "insert_session" => where = "raised"
  /\ pc[t] = "read_snapshots" => where = "returned"
  /\ Goto(t, where)
  /\ UNCHANGED <<view, durable, method, open, found, removed, late>>

\* The methods the invariant speaks of do not query.
LEMMA MovedOthers ==
  ASSUME Typed, Placed, NEW t \in Tasks, NEW where, Moved(t, where)
  PROVE  /\ method[t] \notin {"append", "record", "metric", "snapshot", "delete_session", "delete_execution"}
         /\ \A u \in Tasks \ {t} : pc'[u] = pc[u]
  BY DEF Typed, Placed, Moved, Goto, Reads

LEMMA MovedTyped ==
  ASSUME Typed, Placed, NEW t \in Tasks, NEW where, Moved(t, where)
  PROVE  Typed' /\ Placed'
<1>1. Typed'
  BY DEF Typed, Moved, Goto
<1>2. pc'[t] = where
  BY DEF Typed, Moved, Goto
<1>3. method[t] = "create" => where = "raised"
  BY DEF Placed, Moved, Reads
<1>4. method[t] = "latest" => where = "returned"
  BY DEF Placed, Moved, Reads
<1>5. Placed'
  BY <1>2, <1>3, <1>4, MovedOthers DEF Placed, Moved
<1> QED BY <1>1, <1>5

LEMMA CommitTyped ==
  ASSUME Typed, Placed, NEW t \in Tasks, Commit(t)
  PROVE  Typed' /\ Placed'
<1>1. pc[t] \in Writes /\ Following(pc[t]) \in PCs
  BY DEF Placed, Commit, Following, AfterCommit, PCs, Writes
<1>2. Typed'
  BY <1>1 DEF Typed, Commit, Goto
<1>3. Placed'
  BY <1>1 DEF Typed, Placed, Commit, Goto, Following, AfterCommit, Writes
<1> QED BY <1>2, <1>3

LEMMA CallTyped ==
  ASSUME Typed, Placed, NEW t \in Tasks, NEW o \in Ops, NEW f, NEW i, Call(t, o, f, i)
  PROVE  Typed' /\ Placed'
<1>1. First[o] \in PCs
  BY DEF Ops, First, PCs, Writes, Reads
<1>3. Typed'
  BY <1>1 DEF Typed, Call, Goto
<1>4. ~open[t]
  BY DEF Placed, Call, Writes
<1>5. Placed'
  BY <1>4 DEF Typed, Placed, Call, Goto, First
<1> QED BY <1>3, <1>5

LEMMA CrashTyped ==
  ASSUME Typed, Placed, Crash
  PROVE  Typed' /\ Placed'
<1>1. Typed'
  BY DEF Typed, Crash, PCs
<1>2. Placed'
  BY DEF Typed, Placed, Crash
<1> QED BY <1>1, <1>2

LEMMA ReadsMove ==
  ASSUME NEW t \in Tasks, ReadSession(t) \/ Handoff(t) \/ Export(t) \/ Summarize(t) \/ Recover(t)
  PROVE  \E where : Moved(t, where)
<1>1. CASE ReadSession(t)
  BY <1>1 DEF ReadSession, ReadThen, Moved, At, Reads, Inserts, PCs, Writes
<1>2. CASE Handoff(t)
  BY <1>2 DEF Handoff, ReadThen, Moved, At, Reads, Inserts, PCs
<1>3. CASE Export(t)
  BY <1>3 DEF Export, ReadThen, Moved, At, Reads, Inserts, PCs
<1>4. CASE Summarize(t)
  BY <1>4 DEF Summarize, ReadThen, Moved, At, Reads, Inserts, PCs
<1>5. CASE Recover(t)
  BY <1>5 DEF Recover, ReadThen, Moved, At, Reads, Inserts, PCs
<1> QED BY <1>1, <1>2, <1>3, <1>4, <1>5

(***************************************************************************)
(* What the statements that write do to the tables.                        *)
(***************************************************************************)
Column(t, c, insert, delete) ==
  IF pc[t] = insert THEN view[c] \cup {t} ELSE IF pc[t] = delete THEN {} ELSE view[c]

Written(t, tables) ==
  /\ pc[t] \in Writes /\ ~open[t]
  /\ Executed(t, tables) /\ DOMAIN tables = Columns
  /\ tables.created   = Column(t, "created", "insert_session", "delete_session")
  /\ tables.timeline  = Column(t, "timeline", "insert_timeline", "delete_timeline")
  /\ tables.events    = Column(t, "events", "insert_event", "delete_events")
  /\ tables.metrics   = Column(t, "metrics", "insert_metric", "delete_metrics")
  /\ tables.snapshots = Column(t, "snapshots", "insert_snapshot", "delete_snapshots")
  /\ removed \subseteq removed'
  /\ pc[t] = "delete_session"   => view.created \subseteq removed'
  /\ pc[t] = "delete_timeline"  => view.timeline \subseteq removed'
  /\ pc[t] = "delete_events"    => view.events \subseteq removed'
  /\ pc[t] = "delete_metrics"   => view.metrics \subseteq removed'
  /\ pc[t] = "delete_snapshots" => view.snapshots \subseteq removed'

Write(t) ==
  \/ InsertSession(t) \/ InsertTimeline(t)
  \/ InsertEvent(t) \/ InsertMetric(t) \/ InsertSnapshot(t)
  \/ UpdateSession(t) \/ DeleteSession(t) \/ DeleteExecution(t)

LEMMA WritesAreWritten ==
  ASSUME Typed, NEW t \in Tasks, Write(t)
  PROVE  (\E tables : Written(t, tables)) \/ (\E where : Moved(t, where))
<1>1. CASE InsertTimeline(t)
  <2> DEFINE tables == [view EXCEPT !.timeline = @ \cup {t}]
  <2>1. Executed(t, tables) /\ pc[t] = "insert_timeline" /\ ~open[t] /\ UNCHANGED removed
    BY <1>1 DEF InsertTimeline, At
  <2>2. /\ DOMAIN tables = Columns /\ tables.timeline = view.timeline \cup {t}
        /\ \A c \in Columns \ {"timeline"} : tables[c] = view[c]
    BY DEF Typed, Columns
  <2> HIDE DEF tables
  <2> QED BY <2>1, <2>2 DEF Written, Column, Writes, Columns
<1>2. CASE InsertEvent(t)
  <2> DEFINE tables == [view EXCEPT !.events = @ \cup {t}]
  <2>1. Executed(t, tables) /\ pc[t] = "insert_event" /\ ~open[t] /\ UNCHANGED removed
    BY <1>2 DEF InsertEvent, At
  <2>2. /\ DOMAIN tables = Columns /\ tables.events = view.events \cup {t}
        /\ \A c \in Columns \ {"events"} : tables[c] = view[c]
    BY DEF Typed, Columns
  <2> HIDE DEF tables
  <2> QED BY <2>1, <2>2 DEF Written, Column, Writes, Columns
<1>3. CASE InsertMetric(t)
  <2> DEFINE tables == [view EXCEPT !.metrics = @ \cup {t}]
  <2>1. Executed(t, tables) /\ pc[t] = "insert_metric" /\ ~open[t] /\ UNCHANGED removed
    BY <1>3 DEF InsertMetric, At
  <2>2. /\ DOMAIN tables = Columns /\ tables.metrics = view.metrics \cup {t}
        /\ \A c \in Columns \ {"metrics"} : tables[c] = view[c]
    BY DEF Typed, Columns
  <2> HIDE DEF tables
  <2> QED BY <2>1, <2>2 DEF Written, Column, Writes, Columns
<1>4. CASE InsertSnapshot(t)
  <2> DEFINE tables == [view EXCEPT !.snapshots = @ \cup {t}]
  <2>1. Executed(t, tables) /\ pc[t] = "insert_snapshot" /\ ~open[t] /\ UNCHANGED removed
    BY <1>4 DEF InsertSnapshot, At
  <2>2. /\ DOMAIN tables = Columns /\ tables.snapshots = view.snapshots \cup {t}
        /\ \A c \in Columns \ {"snapshots"} : tables[c] = view[c]
    BY DEF Typed, Columns
  <2> HIDE DEF tables
  <2> QED BY <2>1, <2>2 DEF Written, Column, Writes, Columns
<1>5. CASE DeleteSession(t) /\ At(t, "delete_timeline")
  <2> DEFINE tables == [view EXCEPT !.timeline = {}]
  <2>1. Executed(t, tables) /\ pc[t] = "delete_timeline" /\ ~open[t] /\ removed' = removed \cup view.timeline
    BY <1>5 DEF DeleteSession, DeleteRows, At
  <2>2. /\ DOMAIN tables = Columns /\ tables.timeline = {}
        /\ \A c \in Columns \ {"timeline"} : tables[c] = view[c]
    BY DEF Typed, Columns
  <2> HIDE DEF tables
  <2> QED BY <2>1, <2>2 DEF Written, Column, Writes, Columns
<1>6. CASE DeleteExecution(t) /\ At(t, "delete_events")
  <2> DEFINE tables == [view EXCEPT !.events = {}]
  <2>1. Executed(t, tables) /\ pc[t] = "delete_events" /\ ~open[t] /\ removed' = removed \cup view.events
    BY <1>6 DEF DeleteExecution, DeleteRows, At
  <2>2. /\ DOMAIN tables = Columns /\ tables.events = {}
        /\ \A c \in Columns \ {"events"} : tables[c] = view[c]
    BY DEF Typed, Columns
  <2> HIDE DEF tables
  <2> QED BY <2>1, <2>2 DEF Written, Column, Writes, Columns
<1>7. CASE DeleteExecution(t) /\ At(t, "delete_metrics")
  <2> DEFINE tables == [view EXCEPT !.metrics = {}]
  <2>1. Executed(t, tables) /\ pc[t] = "delete_metrics" /\ ~open[t] /\ removed' = removed \cup view.metrics
    BY <1>7 DEF DeleteExecution, DeleteRows, At
  <2>2. /\ DOMAIN tables = Columns /\ tables.metrics = {}
        /\ \A c \in Columns \ {"metrics"} : tables[c] = view[c]
    BY DEF Typed, Columns
  <2> HIDE DEF tables
  <2> QED BY <2>1, <2>2 DEF Written, Column, Writes, Columns
<1>8. CASE DeleteExecution(t) /\ At(t, "delete_snapshots")
  <2> DEFINE tables == [view EXCEPT !.snapshots = {}]
  <2>1. Executed(t, tables) /\ pc[t] = "delete_snapshots" /\ ~open[t] /\ removed' = removed \cup view.snapshots
    BY <1>8 DEF DeleteExecution, DeleteRows, At
  <2>2. /\ DOMAIN tables = Columns /\ tables.snapshots = {}
        /\ \A c \in Columns \ {"snapshots"} : tables[c] = view[c]
    BY DEF Typed, Columns
  <2> HIDE DEF tables
  <2> QED BY <2>1, <2>2 DEF Written, Column, Writes, Columns
<1>9. CASE DeleteSession(t) /\ At(t, "delete_session")
  <2> DEFINE tables == NoSessionIn(view)
  <2>1. Executed(t, tables) /\ pc[t] = "delete_session" /\ ~open[t] /\ removed' = removed \cup view.created
    BY <1>9 DEF DeleteSession, DeleteRows, At
  <2>2. /\ DOMAIN tables = Columns /\ tables.created = {}
        /\ \A c \in Columns \ {"session", "created"} : tables[c] = view[c]
    BY DEF Typed, Columns, NoSessionIn
  <2> HIDE DEF tables
  <2> QED BY <2>1, <2>2 DEF Written, Column, Writes, Columns
<1>10. CASE InsertSession(t) /\ view.session = NoSession
  <2> DEFINE tables == [view EXCEPT !.session = [f \in Fields |-> t], !.created = @ \cup {t}]
  <2>1. Executed(t, tables) /\ pc[t] = "insert_session" /\ ~open[t] /\ removed \subseteq removed'
    BY <1>10 DEF InsertSession, At
  <2>2. /\ DOMAIN tables = Columns /\ tables.created = view.created \cup {t}
        /\ \A c \in Columns \ {"session", "created"} : tables[c] = view[c]
    BY DEF Typed, Columns
  <2> HIDE DEF tables
  <2> QED BY <2>1, <2>2 DEF Written, Column, Writes, Columns
<1>11. CASE UpdateSession(t)
  <2> DEFINE tables == IF view.session = NoSession THEN view ELSE [view EXCEPT !.session = Updated(t)]
  <2>1. Executed(t, tables) /\ pc[t] = "update_session" /\ ~open[t] /\ removed \subseteq removed'
    BY <1>11 DEF UpdateSession, At
  <2>2. DOMAIN tables = Columns /\ \A c \in Columns \ {"session"} : tables[c] = view[c]
    BY DEF Typed
  <2> HIDE DEF tables
  <2> QED BY <2>1, <2>2 DEF Written, Column, Writes, Columns
<1>12. CASE InsertSession(t) /\ view.session # NoSession
  <2>1. Moved(t, "raised")
    BY <1>12 DEF InsertSession, At, Moved, Inserts, PCs
  <2> QED BY <2>1
<1>13. /\ DeleteSession(t) => At(t, "delete_timeline") \/ At(t, "delete_session")
       /\ DeleteExecution(t) =>
            At(t, "delete_events") \/ At(t, "delete_metrics") \/ At(t, "delete_snapshots")
  BY DEF DeleteSession, DeleteExecution
<1> QED BY <1>1, <1>2, <1>3, <1>4, <1>5, <1>6, <1>7, <1>8, <1>9, <1>10, <1>11, <1>12, <1>13 DEF Write

LEMMA WrittenTyped ==
  ASSUME Typed, Placed, NEW t \in Tasks, NEW tables, Written(t, tables)
  PROVE  Typed' /\ Placed'
<1>1. Typed'
  BY DEF Typed, Written, Executed
<1>2. Placed'
  BY DEF Typed, Placed, Written, Executed
<1> QED BY <1>1, <1>2

(***************************************************************************)
(* What was inserted is kept.                                              *)
(***************************************************************************)
LEMMA MovedKept ==
  ASSUME Typed, Placed, RowsKept, NEW t \in Tasks, NEW where, Moved(t, where)
  PROVE  RowsKept'
<1>1. pc'[t] = where /\ (method[t] = "create" => where = "raised")
  BY DEF Typed, Placed, Moved, Goto, Reads
<1> QED BY <1>1, MovedOthers DEF RowsKept, Kept, Moved

LEMMA CommitKept ==
  ASSUME Typed, Placed, RowsKept, NEW t \in Tasks, Commit(t)
  PROVE  RowsKept'
<1>1. \A u \in Tasks : (open'[u] => open[u]) /\ (pc'[u] = "returned" => open[u] \/ pc[u] = "returned")
  BY DEF Typed, Commit, Goto
<1>2. UNCHANGED <<view, method, removed>> /\ durable' = view
  BY DEF Commit
<1> QED BY <1>1, <1>2 DEF RowsKept, Kept

LEMMA CallKept ==
  ASSUME Typed, Placed, RowsKept, NEW t \in Tasks, NEW o \in Ops, NEW f, NEW i, Call(t, o, f, i)
  PROVE  RowsKept'
<1>1. ~open'[t] /\ pc'[t] # "returned"
  BY DEF Typed, Placed, Call, Goto, First, Ops, Writes
<1>2. \A u \in Tasks \ {t} : method'[u] = method[u] /\ open'[u] = open[u] /\ pc'[u] = pc[u]
  BY DEF Typed, Call, Goto
<1>3. UNCHANGED <<view, durable, removed>>
  BY DEF Call
<1> QED BY <1>1, <1>2, <1>3 DEF RowsKept, Kept

LEMMA CrashKept ==
  ASSUME Typed, Placed, RowsKept, Crash
  PROVE  RowsKept'
  BY DEF Typed, RowsKept, Kept, Crash

\* A statement keeps the other rows of every column, or records them as removed.
LEMMA WrittenKept ==
  ASSUME Typed, Placed, RowsKept, NEW t \in Tasks, NEW tables, Written(t, tables)
  PROVE  RowsKept'
<1>1. /\ method' = method /\ pc' = pc /\ pc[t] # "returned" /\ ~open[t] /\ removed \subseteq removed'
      /\ \A u \in Tasks \ {t} : open'[u] = open[u]
      /\ view' = tables /\ durable' = durable
  BY DEF Typed, Written, Executed, Writes
<1>2. /\ tables.timeline = Column(t, "timeline", "insert_timeline", "delete_timeline")
      /\ pc[t] = "delete_timeline" => view.timeline \subseteq removed'
      /\ method[t] = "append" => pc[t] = "insert_timeline"
  BY DEF Written, Placed, Writes
<1>3. /\ tables.events = Column(t, "events", "insert_event", "delete_events")
      /\ pc[t] = "delete_events" => view.events \subseteq removed'
      /\ method[t] = "record" => pc[t] = "insert_event"
  BY DEF Written, Placed, Writes
<1>4. /\ tables.metrics = Column(t, "metrics", "insert_metric", "delete_metrics")
      /\ pc[t] = "delete_metrics" => view.metrics \subseteq removed'
      /\ method[t] = "metric" => pc[t] = "insert_metric"
  BY DEF Written, Placed, Writes
<1>5. /\ tables.snapshots = Column(t, "snapshots", "insert_snapshot", "delete_snapshots")
      /\ pc[t] = "delete_snapshots" => view.snapshots \subseteq removed'
      /\ method[t] = "snapshot" => pc[t] = "insert_snapshot"
  BY DEF Written, Placed, Writes
<1>10. /\ tables.created = Column(t, "created", "insert_session", "delete_session")
       /\ pc[t] = "delete_session" => view.created \subseteq removed'
       /\ method[t] = "create" => pc[t] = "insert_session"
  BY DEF Written, Placed, Writes
<1>6. Kept("append", view.timeline, durable.timeline)'
  BY <1>1, <1>2 DEF RowsKept, Kept, Column
<1>7. Kept("record", view.events, durable.events)'
  BY <1>1, <1>3 DEF RowsKept, Kept, Column
<1>8. Kept("metric", view.metrics, durable.metrics)'
  BY <1>1, <1>4 DEF RowsKept, Kept, Column
<1>9. Kept("snapshot", view.snapshots, durable.snapshots)'
  BY <1>1, <1>5 DEF RowsKept, Kept, Column
<1>11. Kept("create", view.created, durable.created)'
  BY <1>1, <1>10 DEF RowsKept, Kept, Column
<1> QED BY <1>6, <1>7, <1>8, <1>9, <1>11 DEF RowsKept

LEMMA StepKept ==
  ASSUME Typed, Placed, RowsKept, [Next]_vars
  PROVE  Typed' /\ Placed' /\ RowsKept'
<1>1. CASE Crash
  BY <1>1, CrashTyped, CrashKept
<1>2. ASSUME NEW t \in Tasks, Step(t) PROVE Typed' /\ Placed' /\ RowsKept'
  <2>1. CASE Commit(t)
    BY <2>1, CommitTyped, CommitKept
  <2>2. CASE ReadSession(t) \/ Handoff(t) \/ Export(t) \/ Summarize(t) \/ Recover(t)
    BY <2>2, ReadsMove, MovedTyped, MovedKept
  <2>3. CASE Write(t)
    BY <2>3, WritesAreWritten, WrittenTyped, WrittenKept, MovedTyped, MovedKept
  <2> QED BY <1>2, <2>1, <2>2, <2>3 DEF Step, Write
<1>3. ASSUME NEW t \in Tasks, NEW o \in Ops, NEW f, NEW i, Call(t, o, f, i)
      PROVE  Typed' /\ Placed' /\ RowsKept'
  BY <1>3, CallTyped, CallKept
<1>4. CASE UNCHANGED vars
  BY <1>4 DEF vars, task, Typed, Placed, RowsKept, Kept
<1> QED BY <1>1, <1>2, <1>3, <1>4 DEF Next

LEMMA InitKept == Init => RowsKept
  BY DEF Init, RowsKept, Kept

LEMMA Keeping == Spec => [](Typed /\ Placed /\ RowsKept)
<1>1. Init => Typed /\ Placed /\ RowsKept
  BY InitTyped, InitKept
<1>2. Typed /\ Placed /\ RowsKept /\ [Next]_vars => (Typed /\ Placed /\ RowsKept)'
  BY StepKept
<1> QED BY <1>1, <1>2, PTL DEF Spec

(***************************************************************************)
(* What was deleted does not come back.                                    *)
(***************************************************************************)
\* Nobody will insert row r any more.
Ran(r) == r = Initial \/ (r \in Tasks /\ pc[r] # "idle" /\ (pc[r] \in Inserts => open[r]))

\* Only a task that is past its INSERT has a row, or had one when another called.
RowsRan ==
  /\ \A v \in {view, durable} : v.timeline \subseteq Tasks /\ v.snapshots \subseteq Tasks
  /\ \A r \in Rows(view) \cup Rows(durable) : Ran(r)
  /\ \A t \in Tasks : \A r \in found[t] : Ran(r)

\* A deletion's rows are gone from a column of the view once its DELETE has run, and
\* from the file's once it went on to another statement.
Gone(o, statement, later, v, d) ==
  \A t \in Tasks : method[t] = o =>
    /\ (pc[t] = statement /\ open[t]) \/ pc[t] \in later => found[t] \cap v = {}
    /\ pc[t] \in later => found[t] \cap d = {}

Deleted ==
  /\ Gone("delete_session", "delete_timeline", {"delete_session", "returned"},
          view.timeline, durable.timeline)
  /\ Gone("delete_session", "delete_session", {"returned"}, view.created, durable.created)
  /\ Gone("delete_execution", "delete_events", {"delete_metrics", "delete_snapshots", "returned"},
          view.events, durable.events)
  /\ Gone("delete_execution", "delete_metrics", {"delete_snapshots", "returned"},
          view.metrics, durable.metrics)
  /\ Gone("delete_execution", "delete_snapshots", {"returned"},
          view.snapshots, durable.snapshots)

LEMMA MovedDeleted ==
  ASSUME Typed, Placed, RowsRan, Deleted, NEW t \in Tasks, NEW where, Moved(t, where)
  PROVE  RowsRan' /\ Deleted'
<1>1. pc'[t] = where /\ open' = open /\ where \notin Inserts \cup {"idle"}
  BY DEF Typed, Moved, Goto
<1>2. ASSUME NEW r, Ran(r) PROVE Ran(r)'
  <2>1. CASE r = t
    BY <1>1, <1>2, <2>1 DEF Ran
  <2>2. CASE r # t
    BY <1>1, <1>2, <2>2, MovedOthers DEF Ran
  <2> QED BY <2>1, <2>2
<1>3. RowsRan'
  BY <1>2 DEF RowsRan, Moved, Rows
<1>4. Deleted'
  BY MovedOthers DEF Deleted, Gone, Moved
<1> QED BY <1>3, <1>4

LEMMA CommitDeleted ==
  ASSUME Typed, Placed, RowsRan, Deleted, NEW t \in Tasks, Commit(t)
  PROVE  RowsRan' /\ Deleted'
<1>1. /\ \A u \in Tasks \ {t} : pc'[u] = pc[u] /\ open'[u] = open[u]
      /\ pc'[t] = Following(pc[t]) /\ open[t] /\ ~open'[t]
      /\ UNCHANGED <<view, method, found>> /\ durable' = view
  BY DEF Typed, Commit, Goto
<1>2. pc[t] \in Writes /\ pc'[t] \in {"delete_session", "delete_metrics", "delete_snapshots", "returned"}
  BY <1>1 DEF Placed, Following, AfterCommit
<1>3. \A r : Ran(r) => Ran(r)'
  BY <1>1, <1>2 DEF Ran, Inserts
<1>4. RowsRan'
  BY <1>1, <1>3 DEF RowsRan, Rows
<1>5. Deleted'
  <2>1. method[t] = "delete_session" =>
          \/ pc[t] = "delete_timeline" /\ pc'[t] = "delete_session"
          \/ pc[t] = "delete_session" /\ pc'[t] = "returned"
    BY <1>1, <1>2 DEF Placed, Following, AfterCommit, Writes
  <2>2. method[t] = "delete_execution" =>
          \/ pc[t] = "delete_events" /\ pc'[t] = "delete_metrics"
          \/ pc[t] = "delete_metrics" /\ pc'[t] = "delete_snapshots"
          \/ pc[t] = "delete_snapshots" /\ pc'[t] = "returned"
    BY <1>1, <1>2 DEF Placed, Following, AfterCommit, Writes
  <2> QED BY <1>1, <2>1, <2>2 DEF Deleted, Gone
<1> QED BY <1>4, <1>5

LEMMA CallDeleted ==
  ASSUME Typed, Placed, RowsRan, Deleted, NEW t \in Tasks, NEW o \in Ops, NEW f, NEW i, Call(t, o, f, i)
  PROVE  RowsRan' /\ Deleted'
<1>1. /\ \A u \in Tasks \ {t} : pc'[u] = pc[u] /\ method'[u] = method[u] /\ found'[u] = found[u]
      /\ pc[t] = "idle" /\ pc'[t] = First[o] /\ method'[t] = o /\ found'[t] = Rows(view)
      /\ UNCHANGED <<view, durable, open>>
  BY DEF Typed, Call, Goto
<1>2. ~open[t]
  BY <1>1 DEF Placed, Writes
<1>3. \A r : Ran(r) => r # t /\ Ran(r)'
  BY <1>1, InitialAssumption DEF Ran
<1>4. RowsRan'
  BY <1>1, <1>3 DEF RowsRan, Rows
<1>5. Deleted'
  BY <1>1, <1>2 DEF Deleted, Gone, First, Ops
<1> QED BY <1>4, <1>5

LEMMA CrashDeleted ==
  ASSUME Typed, Placed, RowsRan, Deleted, Crash
  PROVE  RowsRan' /\ Deleted'
<1>1. \A r : Ran(r) => Ran(r)'
  BY DEF Typed, Ran, Crash, Inserts
<1>2. RowsRan'
  BY <1>1 DEF RowsRan, Crash, Rows
<1>3. Deleted'
  BY DEF Typed, Deleted, Gone, Crash
<1> QED BY <1>2, <1>3

\* A statement adds at most its own task's row, when that INSERT had not run, and a
\* DELETE leaves nothing in its column.
LEMMA WrittenDeleted ==
  ASSUME Typed, Placed, RowsRan, Deleted, NEW t \in Tasks, NEW tables, Written(t, tables)
  PROVE  RowsRan' /\ Deleted'
<1>1. /\ method' = method /\ pc' = pc /\ found' = found
      /\ \A u \in Tasks \ {t} : open'[u] = open[u]
      /\ ~open[t] /\ open'[t] /\ view' = tables /\ durable' = durable
  BY DEF Typed, Written, Executed
<1>2. \A r : Ran(r) => Ran(r)'
  BY <1>1 DEF Ran
<1>3. pc[t] \in Inserts => \A u \in Tasks : t \notin found[u]
  BY <1>1, InitialAssumption DEF Ran, RowsRan
<1>4. Ran(t)'
  BY <1>1 DEF Ran, Written, Writes
<1>5. Rows(tables) \subseteq Rows(view) \cup {t}
  BY DEF Written, Column, Rows
<1>8. tables.timeline \subseteq Tasks /\ tables.snapshots \subseteq Tasks
  BY DEF Written, Column, RowsRan
<1>6. RowsRan'
  BY <1>1, <1>2, <1>4, <1>5, <1>8 DEF RowsRan, Rows
<1>7. Deleted'
  <2>1. tables.timeline = Column(t, "timeline", "insert_timeline", "delete_timeline")
    BY DEF Written
  <2>2. tables.events = Column(t, "events", "insert_event", "delete_events")
    BY DEF Written
  <2>3. tables.metrics = Column(t, "metrics", "insert_metric", "delete_metrics")
    BY DEF Written
  <2>4. tables.snapshots = Column(t, "snapshots", "insert_snapshot", "delete_snapshots")
    BY DEF Written
  <2>5. Gone("delete_session", "delete_timeline", {"delete_session", "returned"},
             view.timeline, durable.timeline)'
    BY <1>1, <1>3, <2>1 DEF Deleted, Gone, Column, Inserts
  <2>6. Gone("delete_execution", "delete_events", {"delete_metrics", "delete_snapshots", "returned"},
             view.events, durable.events)'
    BY <1>1, <1>3, <2>2 DEF Deleted, Gone, Column, Inserts
  <2>7. Gone("delete_execution", "delete_metrics", {"delete_snapshots", "returned"},
             view.metrics, durable.metrics)'
    BY <1>1, <1>3, <2>3 DEF Deleted, Gone, Column, Inserts
  <2>8. Gone("delete_execution", "delete_snapshots", {"returned"},
             view.snapshots, durable.snapshots)'
    BY <1>1, <1>3, <2>4 DEF Deleted, Gone, Column, Inserts
  <2>9. tables.created = Column(t, "created", "insert_session", "delete_session")
    BY DEF Written
  <2>10. Gone("delete_session", "delete_session", {"returned"}, view.created, durable.created)'
    BY <1>1, <1>3, <2>9 DEF Deleted, Gone, Column, Inserts
  <2> QED BY <2>5, <2>6, <2>7, <2>8, <2>10 DEF Deleted
<1> QED BY <1>6, <1>7

LEMMA StepDeleted ==
  ASSUME Typed, Placed, RowsRan, Deleted, [Next]_vars
  PROVE  RowsRan' /\ Deleted'
<1>1. CASE Crash
  BY <1>1, CrashDeleted
<1>2. ASSUME NEW t \in Tasks, Step(t) PROVE RowsRan' /\ Deleted'
  <2>1. CASE Commit(t)
    BY <2>1, CommitDeleted
  <2>2. CASE ReadSession(t) \/ Handoff(t) \/ Export(t) \/ Summarize(t) \/ Recover(t)
    BY <2>2, ReadsMove, MovedDeleted
  <2>3. CASE Write(t)
    BY <2>3, WritesAreWritten, WrittenDeleted, MovedDeleted
  <2> QED BY <1>2, <2>1, <2>2, <2>3 DEF Step, Write
<1>3. ASSUME NEW t \in Tasks, NEW o \in Ops, NEW f, NEW i, Call(t, o, f, i)
      PROVE  RowsRan' /\ Deleted'
  BY <1>3, CallDeleted
<1>4. CASE UNCHANGED vars
  BY <1>4 DEF vars, task, RowsRan, Rows, Ran, Deleted, Gone
<1> QED BY <1>1, <1>2, <1>3, <1>4 DEF Next

LEMMA InitDeleted == Init => RowsRan /\ Deleted
  BY DEF Init, RowsRan, Rows, Ran, Deleted, Gone

\* A deletion that returned has removed from the file every row its method is for, of
\* those there were when it was called: the session and its timeline, or the events, the
\* metrics and the snapshots; although it commits table by table and others insert,
\* create the session again and commit in between (event_store.py delete_session,
\* delete_execution).
THEOREM DeletionsComplete == Spec => []DeletionsAreComplete
<1>1. Init => RowsRan /\ Deleted
  BY InitDeleted
<1>2. Typed /\ Placed /\ RowsKept /\ RowsRan /\ Deleted /\ [Next]_vars => (RowsRan /\ Deleted)'
  BY StepDeleted
<1>3. Typed /\ Deleted => DeletionsAreComplete
  BY DEF Deleted, Gone, DeletionsAreComplete, Returned
<1> QED BY <1>1, <1>2, <1>3, Keeping, PTL DEF Spec

(***************************************************************************)
(* What an update writes back is a session, never the absence of one.      *)
(***************************************************************************)
Fetched ==
  /\ view.session \in Session \cup {NoSession} /\ durable.session \in Session \cup {NoSession}
  /\ DOMAIN got = Tasks /\ field \in [Tasks -> Fields \cup {NoField}]
  /\ \A t \in Tasks :
       /\ pc[t] \in {"idle", "read_session", "read_snapshots"} => got[t] = <<>>
       /\ pc[t] = "update_session" => got[t][1] \in Session /\ field[t] \in Fields

\* No entry is older than the loss of its session: once a DELETE of the timeline has
\* run and until the session's has, and while there is none, all entries are late.
Orphans ==
  /\ view.session = NoSession \/ Passed => view.timeline \subseteq late
  /\ durable.session = NoSession => durable.timeline \subseteq late

LEMMA UpdatedIsSession ==
  ASSUME Fetched, NEW t \in Tasks, pc[t] = "update_session"
  PROVE  Updated(t) \in Session /\ Updated(t) # NoSession
<1>1. got[t][1] \in [Fields -> Tasks \cup {Initial}] /\ field[t] \in Fields
  BY DEF Fetched, Session
<1>2. Updated(t) \in [Fields -> Tasks \cup {Initial}]
  BY <1>1 DEF Updated
<1> QED BY <1>2, NoSessionAssumption DEF Session

\* What a step of a task that writes leaves of the others.
LEMMA WriteOrphans ==
  ASSUME Typed, Placed, Fetched, Orphans, NEW t \in Tasks, Write(t)
  PROVE  Fetched' /\ Orphans'
<1>1. ASSUME NEW tables, Executed(t, tables), pc[t] \in Writes, ~open[t],
             tables.session \in Session \cup {NoSession}
      PROVE  /\ Fetched'
             /\ pc[t] # "delete_timeline" => (Passed' => Passed)
             /\ view' = tables /\ durable' = durable
  <2>1. /\ UNCHANGED <<method, pc, durable, got, field>> /\ view' = tables
        /\ \A u \in Tasks \ {t} : open'[u] = open[u]
        /\ open'[t]
    BY <1>1 DEF Typed, Executed
  <2>2. Fetched'
    BY <1>1, <2>1 DEF Fetched
  <2>3. pc[t] # "delete_timeline" => (Passed' => Passed)
    BY <2>1 DEF Passed
  <2> QED BY <2>1, <2>2, <2>3
<1>2. CASE InsertTimeline(t)
  <2> DEFINE tables == [view EXCEPT !.timeline = @ \cup {t}]
  <2>1. tables.timeline = view.timeline \cup {t} /\ tables.session = view.session
    BY DEF Typed, Columns
  <2>2. /\ Executed(t, tables) /\ pc[t] = "insert_timeline" /\ ~open[t]
        /\ late' = IF view.session = NoSession \/ Passed THEN late \cup {t} ELSE late
    BY <1>2 DEF InsertTimeline, At
  <2> HIDE DEF tables
  <2>3. Fetched' /\ (Passed' => Passed) /\ view' = tables /\ durable' = durable
    BY <1>1, <2>1, <2>2 DEF Writes, Fetched
  <2> QED BY <2>1, <2>2, <2>3 DEF Orphans
<1>3. ASSUME NEW tables, Executed(t, tables), pc[t] \in Writes \ {"delete_timeline"}, ~open[t],
             late' = late, tables.timeline = view.timeline, tables.session = view.session
      PROVE  Fetched' /\ Orphans'
  <2>1. Fetched' /\ (Passed' => Passed) /\ view' = tables /\ durable' = durable
    BY <1>1, <1>3 DEF Fetched
  <2> QED BY <1>3, <2>1 DEF Orphans
<1>4. CASE InsertEvent(t)
  <2>1. Executed(t, [view EXCEPT !.events = @ \cup {t}]) /\ pc[t] = "insert_event" /\ ~open[t] /\ late' = late
    BY <1>4 DEF InsertEvent, At
  <2> QED BY <1>3, <2>1 DEF Typed, Columns, Writes
<1>5. CASE InsertMetric(t)
  <2>1. Executed(t, [view EXCEPT !.metrics = @ \cup {t}]) /\ pc[t] = "insert_metric" /\ ~open[t] /\ late' = late
    BY <1>5 DEF InsertMetric, At
  <2> QED BY <1>3, <2>1 DEF Typed, Columns, Writes
<1>6. CASE InsertSnapshot(t)
  <2>1. Executed(t, [view EXCEPT !.snapshots = @ \cup {t}]) /\ pc[t] = "insert_snapshot" /\ ~open[t] /\ late' = late
    BY <1>6 DEF InsertSnapshot, At
  <2> QED BY <1>3, <2>1 DEF Typed, Columns, Writes
<1>7. CASE DeleteExecution(t)
  <2>1. \E c \in {"events", "metrics", "snapshots"} : Executed(t, [view EXCEPT ![c] = {}])
    BY <1>7 DEF DeleteExecution, DeleteRows
  <2>2. pc[t] \in Writes \ {"delete_timeline"} /\ ~open[t] /\ late' = late
    BY <1>7 DEF DeleteExecution, DeleteRows, At, Writes
  <2> QED BY <1>3, <2>1, <2>2 DEF Typed, Columns
<1>8. CASE DeleteSession(t) /\ At(t, "delete_timeline")
  <2> DEFINE tables == [view EXCEPT !.timeline = {}]
  <2>1. tables.timeline = {} /\ tables.session = view.session
    BY DEF Typed, Columns
  <2>2. Executed(t, tables) /\ pc[t] = "delete_timeline" /\ ~open[t] /\ late' = late
    BY <1>8 DEF DeleteSession, DeleteRows, At
  <2> HIDE DEF tables
  <2>3. Fetched' /\ view' = tables /\ durable' = durable
    BY <1>1, <2>1, <2>2 DEF Writes, Fetched
  <2> QED BY <2>1, <2>2, <2>3 DEF Orphans
<1>9. CASE DeleteSession(t) /\ At(t, "delete_session")
  <2> DEFINE tables == NoSessionIn(view)
  <2>1. tables.timeline = view.timeline /\ tables.session = NoSession
    BY DEF Typed, Columns, NoSessionIn
  <2>2. Executed(t, tables) /\ pc[t] = "delete_session" /\ ~open[t] /\ late' = late
    BY <1>9 DEF DeleteSession, DeleteRows, At
  <2> HIDE DEF tables
  <2>3. Passed
    BY <2>2 DEF Passed
  <2>4. Fetched' /\ view' = tables /\ durable' = durable
    BY <1>1, <2>1, <2>2 DEF Writes, Fetched
  <2> QED BY <2>1, <2>2, <2>3, <2>4 DEF Orphans
<1>10. ASSUME NEW tables, Executed(t, tables), pc[t] \in Writes \ {"delete_timeline"}, ~open[t],
              late' = late, tables.timeline = view.timeline, tables.session \in Session
       PROVE  Fetched' /\ Orphans'
  <2>1. Fetched' /\ (Passed' => Passed) /\ view' = tables /\ durable' = durable
    BY <1>1, <1>10
  <2>2. tables.session # NoSession
    BY <1>10, NoSessionAssumption DEF Session
  <2> QED BY <1>10, <2>1, <2>2 DEF Orphans
<1>11. CASE InsertSession(t)
  <2>1. CASE view.session = NoSession
    <3> DEFINE tables == [view EXCEPT !.session = [f \in Fields |-> t], !.created = @ \cup {t}]
    <3>1. tables.timeline = view.timeline /\ tables.session = [f \in Fields |-> t]
      BY DEF Typed, Columns
    <3>2. tables.session \in Session
      BY <3>1 DEF Session
    <3>3. Executed(t, tables) /\ pc[t] = "insert_session" /\ ~open[t] /\ late' = late
      BY <1>11, <2>1 DEF InsertSession, At
    <3> HIDE DEF tables
    <3> QED BY <1>10, <3>1, <3>2, <3>3 DEF Writes
  <2>2. CASE view.session # NoSession
    <3>1. UNCHANGED <<view, durable, field, open, got, late>> /\ pc' = [pc EXCEPT ![t] = "raised"]
      BY <1>11, <2>2 DEF InsertSession, Goto
    <3> QED BY <3>1 DEF Fetched, Orphans, Passed, Typed
  <2> QED BY <2>1, <2>2
<1>12. CASE UpdateSession(t)
  <2>1. pc[t] = "update_session" /\ ~open[t] /\ late' = late
    BY <1>12 DEF UpdateSession, At
  <2>2. CASE view.session = NoSession
    <3>1. Executed(t, view)
      BY <1>12, <2>2 DEF UpdateSession
    <3> QED BY <1>3, <2>1, <3>1 DEF Writes
  <2>3. CASE view.session # NoSession
    <3> DEFINE tables == [view EXCEPT !.session = Updated(t)]
    <3>1. tables.timeline = view.timeline /\ tables.session = Updated(t)
      BY DEF Typed, Columns
    <3>2. Executed(t, tables)
      BY <1>12, <2>3 DEF UpdateSession
    <3> HIDE DEF tables
    <3> QED BY <1>10, <2>1, <3>1, <3>2, UpdatedIsSession DEF Writes
  <2> QED BY <2>2, <2>3
<1>13. DeleteSession(t) => At(t, "delete_timeline") \/ At(t, "delete_session")
  BY DEF DeleteSession
<1> QED BY <1>2, <1>4, <1>5, <1>6, <1>7, <1>8, <1>9, <1>11, <1>12, <1>13 DEF Write

LEMMA ReadOrphans ==
  ASSUME Typed, Placed, Fetched, Orphans, NEW t \in Tasks,
         ReadSession(t) \/ Handoff(t) \/ Export(t) \/ Summarize(t) \/ Recover(t)
  PROVE  Fetched' /\ Orphans'
<1>1. PICK result, where : ReadThen(t, result, where)
  BY DEF ReadSession, Handoff, Export, Summarize, Recover
<1>2. /\ UNCHANGED <<view, durable, field, open, late>> /\ DOMAIN got' = DOMAIN got
      /\ \A u \in Tasks \ {t} : pc'[u] = pc[u] /\ got'[u] = got[u]
      /\ pc'[t] = where /\ (t \in DOMAIN got => got'[t] = Append(got[t], result))
      /\ got' = [got EXCEPT ![t] = Append(@, result)]
  BY <1>1 DEF Typed, ReadThen, Goto
<1>3. pc'[t] \notin {"idle", "read_session", "read_snapshots", "delete_timeline", "delete_session"}
  BY DEF ReadSession, Handoff, Export, Summarize, Recover, ReadThen, Goto, Typed
<1>4. Orphans'
  BY <1>2, <1>3 DEF Orphans, Passed
<1>5. CASE pc'[t] = "update_session"
  <2>1. ~(Handoff(t) \/ Export(t) \/ Summarize(t) \/ Recover(t))
    BY <1>5 DEF Handoff, Export, Summarize, Recover, ReadThen, Goto, Typed
  <2>2. ReadSession(t)
    BY <2>1
  <2>3. pc[t] = "read_session" /\ pc[t] # "update_session"
    BY <2>2 DEF ReadSession, At
  <2>4. got' = [got EXCEPT ![t] = Append(@, view.session)]
    BY <2>2 DEF ReadSession, ReadThen
  <2>5. view.session # NoSession
    BY <1>5, <2>2 DEF ReadSession, ReadThen, Goto, Typed
  <2>6. field[t] # NoField
    BY <1>5, <2>2 DEF ReadSession, ReadThen, Goto, Typed
  <2>7. view.session \in Session /\ field[t] \in Fields
    BY <2>5, <2>6 DEF Fetched
  <2>8. got[t] = <<>> /\ t \in DOMAIN got
    BY <2>3 DEF Fetched
  <2>9. got'[t] = Append(<<>>, view.session)
    BY <2>4, <2>8
  <2>10. got'[t][1] \in Session
    BY <2>7, <2>9
  <2>11. pc'[t] # "idle" /\ pc'[t] # "read_session" /\ pc'[t] # "read_snapshots"
    BY <1>5
  <2> QED BY <1>2, <1>4, <2>7, <2>10, <2>11 DEF Fetched
<1>6. CASE pc'[t] # "update_session"
  BY <1>2, <1>3, <1>4, <1>6 DEF Fetched
<1> QED BY <1>5, <1>6

LEMMA CommitOrphans ==
  ASSUME Typed, Placed, Fetched, Orphans, NEW t \in Tasks, Commit(t)
  PROVE  Fetched' /\ Orphans'
<1>1. /\ \A u \in Tasks \ {t} : pc'[u] = pc[u] /\ open'[u] = open[u]
      /\ pc'[t] = Following(pc[t]) /\ open[t] /\ ~open'[t]
      /\ UNCHANGED <<view, field, got, late>> /\ durable' = view
  BY DEF Typed, Commit, Goto
<1>2. /\ pc'[t] \in {"delete_session", "delete_metrics", "delete_snapshots", "returned"}
      /\ pc'[t] = "delete_session" => pc[t] = "delete_timeline"
  BY <1>1 DEF Following, AfterCommit
<1>3. Passed' => Passed
  BY <1>1, <1>2 DEF Passed
<1>4. Fetched'
  BY <1>1, <1>2 DEF Fetched
<1> QED BY <1>1, <1>3, <1>4 DEF Orphans

LEMMA CallOrphans ==
  ASSUME Typed, Placed, Fetched, Orphans, NEW t \in Tasks, NEW o \in Ops,
         NEW f \in Fields \cup {NoField}, NEW i, Call(t, o, f, i)
  PROVE  Fetched' /\ Orphans'
<1>1. /\ \A u \in Tasks \ {t} : pc'[u] = pc[u] /\ field'[u] = field[u]
      /\ pc[t] = "idle" /\ pc'[t] = First[o] /\ field' = [field EXCEPT ![t] = f]
      /\ UNCHANGED <<view, durable, open, got, late>>
  BY DEF Typed, Fetched, Call, Goto
<1>2. pc'[t] \notin {"delete_session", "update_session"} /\ ~open[t]
  BY <1>1 DEF First, Ops, Placed, Writes
<1>3. Passed' => Passed
  BY <1>1, <1>2 DEF Passed
<1>4. Fetched'
  BY <1>1, <1>2 DEF Fetched
<1> QED BY <1>1, <1>3, <1>4 DEF Orphans

LEMMA CrashOrphans ==
  ASSUME Typed, Placed, Fetched, Orphans, Crash
  PROVE  Fetched' /\ Orphans'
<1>1. ~Passed'
  BY DEF Typed, Crash, Passed
<1>2. UNCHANGED <<durable, got, field, late>> /\ view' = durable
  BY DEF Crash
<1>3. \A t \in Tasks : \/ pc'[t] = pc[t] /\ pc[t] \in {"idle"} \cup Ended
                       \/ pc'[t] = "crashed"
  BY DEF Typed, Crash
<1>4. Fetched'
  BY <1>2, <1>3 DEF Fetched
<1> QED BY <1>1, <1>2, <1>4 DEF Orphans

LEMMA StepOrphans ==
  ASSUME Typed, Placed, Fetched, Orphans, [Next]_vars
  PROVE  Fetched' /\ Orphans'
<1>1. CASE Crash
  BY <1>1, CrashOrphans
<1>2. ASSUME NEW t \in Tasks, Step(t) PROVE Fetched' /\ Orphans'
  BY <1>2, CommitOrphans, ReadOrphans, WriteOrphans DEF Step, Write
<1>3. ASSUME NEW t \in Tasks, NEW o \in Ops, NEW f \in Fields \cup {NoField}, NEW i, Call(t, o, f, i)
      PROVE  Fetched' /\ Orphans'
  BY <1>3, CallOrphans
<1>4. CASE UNCHANGED vars
  BY <1>4 DEF vars, task, Fetched, Orphans, Passed
<1> QED BY <1>1, <1>2, <1>3, <1>4 DEF Next

LEMMA InitOrphans == Init => Fetched /\ Orphans
<1> SUFFICES ASSUME Init PROVE Fetched /\ Orphans
  OBVIOUS
<1>1. view.session = [f \in Fields |-> Initial] /\ durable = view /\ view.timeline = {}
  BY DEF Init
<1>2. view.session \in Session
  BY <1>1 DEF Session
<1>3. Fetched
  BY <1>1, <1>2 DEF Init, Fetched
<1> QED BY <1>1, <1>3 DEF Orphans

\* In the file, a timeline without its session consists of entries that were appended
\* when the session was gone or its deletion past the timeline; no deletion, completed
\* or cut off by a crash, orphans an older one (event_store.py delete_session).
THEOREM NoOlderOrphans == Spec => []OrphansAreLate
<1>1. Typed /\ Placed /\ Fetched /\ Orphans /\ [Next]_vars => (Fetched /\ Orphans)'
  BY StepOrphans
<1>2. Orphans => OrphansAreLate
  BY DEF Orphans, OrphansAreLate
<1>3. Typed /\ Placed /\ RowsKept => Typed /\ Placed
  OBVIOUS
<1> QED BY <1>1, <1>2, <1>3, InitOrphans, Keeping, PTL DEF Spec

(***************************************************************************)
(* The newest entries.                                                     *)
(***************************************************************************)
\* No two calls have the same timestamp.
Called == {t \in Tasks : pc[t] # "idle"}

Stamped ==
  /\ IsFiniteSet(Called)
  /\ stamp \in [Tasks -> Nat]
  /\ \A t \in Called : stamp[t] <= Cardinality(Called)
  /\ \A t, u \in Called : stamp[t] = stamp[u] => t = u

\* Of entries that are not the newest n, each has n newer ones among these.
LEMMA RecentShows ==
  ASSUME Stamped, NEW S, S \subseteq Called, NEW e \in S, NEW n \in Nat \ {0},
         e \notin Recent(S, n)
  PROVE  Cardinality({u \in Recent(S, n) : stamp[e] < stamp[u]}) = n
<1> DEFINE Above(t) == {u \in S : stamp[t] < stamp[u]}
           R == Recent(S, n)
           r == Cardinality(R)
<1>1. /\ IsFiniteSet(S) /\ \A t \in S : stamp[t] \in Nat
      /\ \A t, u \in S : stamp[t] = stamp[u] => t = u
  BY FS_Subset DEF Stamped, Called
<1>2. ASSUME NEW t \in S
      PROVE  /\ IsFiniteSet(Above(t)) /\ Cardinality(Above(t)) \in Nat
             /\ t \in R <=> Cardinality(Above(t)) < n
  <2>1. IsFiniteSet(Above(t))
    BY <1>1, FS_Subset, Above(t) \subseteq S
  <2>2. Cardinality(Above(t)) \in Nat
    BY <2>1, FS_CardinalityType
  <2> QED BY <2>1, <2>2 DEF Recent
<1>3. R \subseteq S /\ e \in S \ R
  BY DEF Recent
<1>4. IsFiniteSet(R) /\ r \in Nat
  <2>1. IsFiniteSet(R)
    BY <1>1, <1>3, FS_Subset
  <2> QED BY <2>1, FS_CardinalityType
<1> HIDE DEF R
\* What is newer than one of the newest is one of them.
<1>5. ASSUME NEW t \in R, NEW u \in S, stamp[t] < stamp[u] PROVE u \in R
  <2>0. t \in S
    BY <1>3
  <2>1. Above(u) \subseteq Above(t)
    BY <1>1, <1>5, <2>0
  <2>2. Cardinality(Above(u)) <= Cardinality(Above(t))
    BY <1>2, <2>0, <2>1, FS_Subset
  <2>3. Cardinality(Above(t)) < n /\ Cardinality(Above(t)) \in Nat /\ Cardinality(Above(u)) \in Nat
    BY <1>2, <1>5, <2>0
  <2> DEFINE a == Cardinality(Above(t))
             b == Cardinality(Above(u))
  <2> HIDE DEF a, b
  <2>4. b < n
    BY <2>2, <2>3 DEF a, b
  <2> QED BY <1>2, <2>4 DEF b
<1>6. ASSUME NEW t \in S \ R PROVE \A u \in R : stamp[t] < stamp[u]
  <2> SUFFICES ASSUME NEW u \in R, ~(stamp[t] < stamp[u]) PROVE FALSE
    OBVIOUS
  <2>1. u \in S /\ u # t
    BY <1>3
  <2>2. stamp[u] < stamp[t]
    BY <1>1, <2>1
  <2> QED BY <1>5, <2>2
\* The newest of the others has all of them above it, so they are at least n.
<1>7. n <= r
  <2> DEFINE P == {stamp[t] : t \in S \ R}
  <2>1. P # {} /\ P \subseteq Int
    BY <1>1, <1>3
  <2>2. IsFiniteSet(P)
    <3> DEFINE f == [t \in S \ R |-> stamp[t]]
    <3>1. f \in Surjection(S \ R, P)
      BY DEF Surjection
    <3>2. IsFiniteSet(S \ R)
      BY <1>1, FS_Difference
    <3> HIDE DEF f, P
    <3> QED BY <3>1, <3>2, FS_Surjection
  <2>3. PICK m \in P : \A k \in P : k <= m
    <3> HIDE DEF P
    <3> QED BY <2>1, <2>2, Greatest
  <2>4. PICK g \in S \ R : stamp[g] = m
    OBVIOUS
  <2>5. \A t \in S \ R : stamp[t] <= stamp[g]
    BY <2>3, <2>4
  <2>6. Above(g) = R
    <3>1. ASSUME NEW u \in Above(g) PROVE u \in R
      BY <1>1, <2>4, <2>5, <3>1
    <3> QED BY <1>3, <1>6, <2>4, <3>1
  <2>7. Cardinality(Above(g)) \in Nat /\ ~(Cardinality(Above(g)) < n)
    BY <1>2, <2>4
  <2> QED BY <1>4, <2>6, <2>7
\* The oldest of them has the others above it, so they are at most n.
<1>8. r <= n
  <2> DEFINE P == {stamp[t] : t \in R}
  <2>1. R # {} /\ P \subseteq Nat
    <3>1. R # {}
      BY <1>4, <1>7, FS_EmptySet
    <3> QED BY <1>1, <1>3, <3>1
  <2>2. PICK m \in P : \A k \in P : m <= k
    <3>1. P \in SUBSET Nat /\ P # {}
      BY <2>1
    <3> HIDE DEF P
    <3> QED BY <3>1, Least
  <2>3. PICK l \in R : stamp[l] = m
    OBVIOUS
  <2>4. \A t \in R : stamp[l] <= stamp[t]
    BY <2>2, <2>3
  <2>5. Above(l) = R \ {l}
    <3>1. ASSUME NEW u \in Above(l) PROVE u \in R \ {l}
      BY <1>1, <1>3, <1>5, <2>3, <3>1
    <3>2. ASSUME NEW u \in R \ {l} PROVE u \in Above(l)
      BY <1>1, <1>3, <2>3, <2>4, <3>2
    <3> QED BY <3>1, <3>2
  <2>6. Cardinality(R \ {l}) = r - 1
    BY <1>4, <2>3, FS_RemoveElement
  <2>7. Cardinality(Above(l)) < n
    BY <1>2, <1>3, <2>3
  <2>8. r - 1 < n
    BY <2>5, <2>6, <2>7
  <2> HIDE DEF r
  <2> QED BY <1>4, <2>8
<1>9. {u \in R : stamp[e] < stamp[u]} = R
  BY <1>3, <1>6
<1> QED BY <1>4, <1>7, <1>8, <1>9 DEF R

(***************************************************************************)
(* What a statement of one task leaves alone.                              *)
(***************************************************************************)
Steps(t) ==
  /\ UNCHANGED <<method, field, iteration, stamp, before>> /\ removed \subseteq removed'
  /\ pc[t] \notin {"idle"} \cup Ended /\ pc'[t] # "idle"
  /\ \A u \in Tasks \ {t} : pc'[u] = pc[u] /\ open'[u] = open[u] /\ got'[u] = got[u]

LEMMA ExecutedSteps ==
  ASSUME Typed, NEW t \in Tasks, NEW tables, Executed(t, tables), pc[t] \in Writes,
         removed \subseteq removed'
  PROVE  Steps(t)
<1>1. UNCHANGED <<method, field, iteration, stamp, before, pc, got>> /\ open' = [open EXCEPT ![t] = TRUE]
  BY DEF Executed
<1>2. pc[t] \notin {"idle"} \cup Ended
  BY DEF Writes
<1>3. \A u \in Tasks \ {t} : open'[u] = open[u]
  BY <1>1 DEF Typed
<1> QED BY <1>1, <1>2, <1>3 DEF Steps

LEMMA ReadSteps ==
  ASSUME Typed, Fetched, NEW t \in Tasks, NEW result, NEW where, ReadThen(t, result, where),
         pc[t] \in Reads, where # "idle"
  PROVE  Steps(t)
<1>1. /\ UNCHANGED <<method, field, iteration, stamp, before, open, removed>>
      /\ pc' = [pc EXCEPT ![t] = where] /\ got' = [got EXCEPT ![t] = Append(@, result)]
  BY DEF ReadThen, Goto
<1>2. pc[t] \notin {"idle"} \cup Ended
  BY DEF Reads
<1>3. pc'[t] = where /\ \A u \in Tasks \ {t} : pc'[u] = pc[u]
  BY <1>1 DEF Typed
<1>4. \A u \in Tasks \ {t} : got'[u] = got[u]
  BY <1>1 DEF Fetched
<1> QED BY <1>1, <1>2, <1>3, <1>4 DEF Steps

LEMMA StepSteps ==
  ASSUME Typed, Placed, Fetched, NEW t \in Tasks, Step(t)
  PROVE  Steps(t)
<1>3. CASE InsertTimeline(t) \/ InsertEvent(t) \/ InsertMetric(t) \/ InsertSnapshot(t)
  <2>1. \E tables : Executed(t, tables)
    BY <1>3 DEF InsertTimeline, InsertEvent, InsertMetric, InsertSnapshot
  <2>2. pc[t] \in Writes /\ removed \subseteq removed'
    BY <1>3 DEF InsertTimeline, InsertEvent, InsertMetric, InsertSnapshot, At, Writes
  <2> QED BY <2>1, <2>2, ExecutedSteps
<1>4. CASE UpdateSession(t)
  <2>1. \E tables : Executed(t, tables)
    BY <1>4 DEF UpdateSession
  <2>2. pc[t] \in Writes /\ removed \subseteq removed'
    BY <1>4 DEF UpdateSession, At, Writes
  <2> QED BY <2>1, <2>2, ExecutedSteps
<1>5. CASE DeleteSession(t) \/ DeleteExecution(t)
  <2>1. \E tables : Executed(t, tables)
    BY <1>5 DEF DeleteSession, DeleteExecution, DeleteRows
  <2>2. pc[t] \in Writes /\ removed \subseteq removed'
    BY <1>5 DEF DeleteSession, DeleteExecution, DeleteRows, At, Writes
  <2> QED BY <2>1, <2>2, ExecutedSteps
<1>6. CASE InsertSession(t)
  <2>0. pc[t] = "insert_session" /\ removed' = removed
    BY <1>6 DEF InsertSession, At
  <2>1. CASE \E tables : Executed(t, tables)
    BY <2>0, <2>1, ExecutedSteps DEF Writes
  <2>2. CASE Goto(t, "raised") /\ UNCHANGED <<db, method, field, iteration, open, got, stamp, crashed, found, before>>
    <3>1. pc'[t] = "raised" /\ \A u \in Tasks \ {t} : pc'[u] = pc[u]
      BY <2>2 DEF Goto, Typed
    <3> QED BY <2>0, <2>2, <3>1 DEF Steps
  <2> QED BY <1>6, <2>1, <2>2 DEF InsertSession
<1>7. CASE Commit(t)
  <2>1. pc[t] \in Writes
    BY <1>7 DEF Commit, Placed
  <2>2. Following(pc[t]) # "idle"
    BY <2>1 DEF Following, AfterCommit, Writes
  <2>3. pc[t] \notin {"idle"} \cup Ended
    BY <2>1 DEF Writes
  <2>4. pc'[t] = Following(pc[t]) /\ \A u \in Tasks \ {t} : pc'[u] = pc[u] /\ open'[u] = open[u]
    BY <1>7 DEF Commit, Goto, Typed
  <2>5. UNCHANGED <<method, field, iteration, stamp, before, got, removed>>
    BY <1>7 DEF Commit
  <2> QED BY <2>2, <2>3, <2>4, <2>5 DEF Steps
<1>8. CASE ReadSession(t) \/ Handoff(t) \/ Export(t) \/ Summarize(t) \/ Recover(t)
  <2>1. PICK result, where : ReadThen(t, result, where)
    BY <1>8 DEF ReadSession, Handoff, Export, Summarize, Recover
  <2>2. pc[t] \in Reads
    BY <1>8 DEF ReadSession, Handoff, Export, Summarize, Recover, At, Reads
  <2>3. pc'[t] # "idle"
    BY <1>8 DEF ReadSession, Handoff, Export, Summarize, Recover, ReadThen, Goto, Typed
  <2>4. pc'[t] = where
    BY <2>1 DEF ReadThen, Goto, Typed
  <2> QED BY <2>1, <2>2, <2>3, <2>4, ReadSteps
<1> QED BY <1>3, <1>4, <1>5, <1>6, <1>7, <1>8 DEF Step

LEMMA StepStamped ==
  ASSUME Typed, Placed, Fetched, Stamped, [Next]_vars
  PROVE  Stamped'
<1>0. pc \in [Tasks -> PCs]
  BY DEF Typed
<1>1. ASSUME Called' = Called, stamp' = stamp PROVE Stamped'
  BY <1>1 DEF Stamped
<1>2. CASE Crash
  BY <1>0, <1>1, <1>2 DEF Crash, Called
<1>3. ASSUME NEW t \in Tasks, Step(t) PROVE Stamped'
  <2>1. Steps(t)
    BY <1>3, StepSteps
  <2>2. Called' = Called
    BY <1>0, <2>1 DEF Steps, Called
  <2> QED BY <1>1, <2>1, <2>2 DEF Steps
<1>4. ASSUME NEW t \in Tasks, NEW o \in Ops, NEW f, NEW i, Call(t, o, f, i) PROVE Stamped'
  <2> DEFINE n == Cardinality(Called)
  <2>1. IsFiniteSet(Called) /\ n \in Nat
    BY FS_CardinalityType DEF Stamped
  <2>2. pc[t] = "idle" /\ pc' = [pc EXCEPT ![t] = First[o]] /\ stamp' = [stamp EXCEPT ![t] = n + 1]
    BY <1>4 DEF Call, Goto, Called
  <2>3. First[o] # "idle"
    BY DEF First, Ops
  <2>4. Called' = Called \cup {t} /\ t \notin Called
    BY <1>0, <2>2, <2>3 DEF Called
  <2>5. IsFiniteSet(Called') /\ Cardinality(Called') = n + 1
    BY <2>1, <2>4, FS_AddElement
  <2> HIDE DEF n
  <2>6. \A u \in Called : stamp[u] \in Nat /\ stamp[u] <= n
    BY DEF Stamped, Called, n
  <2>7. stamp' \in [Tasks -> Nat] /\ stamp'[t] = n + 1 /\ \A u \in Called : stamp'[u] = stamp[u]
    BY <2>1, <2>2, <2>4 DEF Stamped, Called
  <2>8. \A u \in Called' : stamp'[u] <= n + 1
    BY <2>1, <2>4, <2>6, <2>7
  <2>9. \A u, v \in Called' : stamp'[u] = stamp'[v] => u = v
    BY <2>1, <2>4, <2>6, <2>7 DEF Stamped
  <2> QED BY <2>5, <2>7, <2>8, <2>9 DEF Stamped
<1>5. CASE UNCHANGED vars
  BY <1>1, <1>5 DEF vars, task, Called
<1> QED BY <1>2, <1>3, <1>4, <1>5 DEF Next

(***************************************************************************)
(* What a handoff read.                                                    *)
(***************************************************************************)
Shown(t) ==
  \A e \in before[t] \ removed : method[e] = "append" =>
    \/ e \in got[t][2]
    \/ Cardinality({u \in got[t][2] : stamp[e] < stamp[u]}) = Limit

HandedTo(t) ==
  method[t] = "handoff" =>
    /\ pc[t] \in {"read_session", "read_timeline"} \cup Ended
    /\ pc[t] = "read_timeline" => \E s : got[t] = <<s>>
    /\ pc[t] = "returned" /\ Len(got[t]) = 2 => got[t][2] \subseteq Called /\ Shown(t)

\* What a recovery read.
RecoveredBy(t) ==
  method[t] = "latest" /\ pc[t] = "returned" =>
    /\ got[t][1] \subseteq Called
    /\ \A s \in before[t] \ removed : method[s] = "snapshot" =>
         \E u \in got[t][1] : iteration[s] <= iteration[u]

Handed ==
  /\ DOMAIN before = Tasks /\ DOMAIN iteration = Tasks
  /\ \A t \in Tasks : before[t] \subseteq {u \in Tasks : pc[u] = "returned"}
  /\ \A t \in Tasks : HandedTo(t) /\ RecoveredBy(t)

LEMMA StillHanded ==
  ASSUME Handed, NEW t \in Tasks, removed \subseteq removed',
         method'[t] = method[t], got'[t] = got[t], before'[t] = before[t],
         pc'[t] = pc[t] \/ pc'[t] = "crashed",
         \A u \in Called : u \in Called' /\ method'[u] = method[u] /\ stamp'[u] = stamp[u]
  PROVE  HandedTo(t)'
<1>1. CASE method[t] = "handoff" /\ pc[t] = "returned" /\ Len(got[t]) = 2 /\ pc'[t] = pc[t]
  <2>1. got[t][2] \subseteq Called /\ Shown(t)
    BY <1>1 DEF Handed, HandedTo
  <2>2. ASSUME NEW e \in before[t] \ removed', method'[e] = "append", e \notin got[t][2]
        PROVE  Cardinality({u \in got[t][2] : stamp'[e] < stamp'[u]}) = Limit
    <3>1. e \in Called
      BY DEF Handed, Called
    <3>2. {u \in got[t][2] : stamp'[e] < stamp'[u]} = {u \in got[t][2] : stamp[e] < stamp[u]}
      BY <2>1, <3>1
    <3> QED BY <2>1, <2>2, <3>1, <3>2 DEF Shown
  <2>3. Shown(t)'
    BY <2>2 DEF Shown
  <2> QED BY <1>1, <2>1, <2>3 DEF HandedTo
<1>2. CASE ~(method[t] = "handoff" /\ pc[t] = "returned" /\ Len(got[t]) = 2 /\ pc'[t] = pc[t])
  BY <1>2 DEF Handed, HandedTo
<1> QED BY <1>1, <1>2

LEMMA StillRecovered ==
  ASSUME Handed, NEW t \in Tasks, removed \subseteq removed',
         method'[t] = method[t], got'[t] = got[t], before'[t] = before[t],
         pc'[t] = pc[t] \/ pc'[t] = "crashed",
         \A u \in Called : u \in Called' /\ method'[u] = method[u] /\ iteration'[u] = iteration[u]
  PROVE  RecoveredBy(t)'
<1> SUFFICES ASSUME method[t] = "latest", pc[t] = "returned"
             PROVE  /\ got[t][1] \subseteq Called'
                    /\ \A s \in before[t] \ removed' : method'[s] = "snapshot" =>
                         \E u \in got[t][1] : iteration'[s] <= iteration'[u]
  BY DEF RecoveredBy
<1>1. /\ got[t][1] \subseteq Called
      /\ \A s \in before[t] \ removed : method[s] = "snapshot" =>
           \E u \in got[t][1] : iteration[s] <= iteration[u]
  BY DEF Handed, RecoveredBy
<1>2. before[t] \subseteq Called
  BY DEF Handed, Called
<1> QED BY <1>1, <1>2

LEMMA CallHanded ==
  ASSUME Typed, Placed, Stamped, Handed, Fetched, NEW t \in Tasks, NEW o \in Ops, NEW f, NEW i, Call(t, o, f, i)
  PROVE  Handed'
<1>1. /\ pc[t] = "idle" /\ pc'[t] = First[o] /\ method'[t] = o /\ before'[t] = {u \in Tasks : pc[u] = "returned"}
      /\ \A u \in Tasks \ {t} : /\ pc'[u] = pc[u] /\ method'[u] = method[u] /\ stamp'[u] = stamp[u]
                                /\ before'[u] = before[u] /\ iteration'[u] = iteration[u]
      /\ DOMAIN before' = Tasks /\ DOMAIN iteration' = Tasks /\ UNCHANGED <<got, removed>>
  BY DEF Call, Goto, Typed, Stamped, Handed
<1>2. \A u \in Called : /\ u # t /\ u \in Called' /\ method'[u] = method[u] /\ stamp'[u] = stamp[u]
                        /\ iteration'[u] = iteration[u]
  BY <1>1 DEF Called
<1>3. \A u \in Tasks \ {t} : HandedTo(u)' /\ RecoveredBy(u)'
  BY <1>1, <1>2, StillHanded, StillRecovered
<1>4. HandedTo(t)' /\ RecoveredBy(t)'
  BY <1>1 DEF HandedTo, RecoveredBy, First, Ops
<1>5. \A u \in Tasks : before'[u] \subseteq {v \in Tasks : pc'[v] = "returned"}
  BY <1>1 DEF Handed
<1> QED BY <1>1, <1>3, <1>4, <1>5 DEF Handed

\* A handoff whose read is the newest of the timeline has what it must show.
LEMMA HandoffShows ==
  ASSUME Typed, RowsKept, RowsRan, Stamped, Handed, NEW t \in Tasks,
         NEW e \in before[t] \ removed, method[e] = "append", e \notin RecentTimeline(Limit)
  PROVE  Cardinality({u \in RecentTimeline(Limit) : stamp[e] < stamp[u]}) = Limit
<1>1. e \in Tasks /\ pc[e] = "returned"
  BY DEF Handed
<1>2. e \in view.timeline
  BY <1>1 DEF RowsKept, Kept
<1>3. view.timeline \subseteq Called
  BY InitialAssumption DEF RowsRan, Rows, Ran, Called
<1>4. e \notin Recent(view.timeline, Limit)
  BY DEF RecentTimeline
<1> DEFINE S == view.timeline
<1> HIDE DEF S
<1>5. e \in S /\ S \subseteq Called /\ e \notin Recent(S, Limit)
  BY <1>2, <1>3, <1>4 DEF S
<1>6. Cardinality({u \in Recent(S, Limit) : stamp[e] < stamp[u]}) = Limit
  BY <1>5, RecentShows, LimitAssumption
<1> QED BY <1>6 DEF S, RecentTimeline

LEMMA StepsHanded ==
  ASSUME Typed, Placed, RowsKept, RowsRan, Fetched, Stamped, Handed, NEW t \in Tasks, Step(t)
  PROVE  Handed'
<1>1. Steps(t)
  BY StepSteps
<1>2. Called' = Called
  BY <1>1 DEF Steps, Called, Typed
<1>3. \A u \in Called : /\ u \in Called' /\ method'[u] = method[u] /\ stamp'[u] = stamp[u]
                        /\ iteration'[u] = iteration[u]
  BY <1>1, <1>2 DEF Steps
<1>4. \A u \in Tasks \ {t} : HandedTo(u)' /\ RecoveredBy(u)'
  BY <1>1, <1>3, StillHanded, StillRecovered DEF Steps
<1>5. \A u \in Tasks : before'[u] \subseteq {v \in Tasks : pc'[v] = "returned"}
  BY <1>1 DEF Handed, Steps
<1>6. HandedTo(t)'
  <2> SUFFICES ASSUME method[t] = "handoff" PROVE HandedTo(t)'
    BY <1>1 DEF Steps, HandedTo
  <2>1. pc[t] \in {"read_session", "read_timeline"} /\ ~open[t]
    BY <1>1 DEF Handed, HandedTo, Steps, Placed, Writes
  <2>2. ReadSession(t) \/ Handoff(t)
    BY <2>1 DEF Step, InsertSession, InsertTimeline, InsertEvent, InsertMetric, InsertSnapshot,
         UpdateSession, DeleteSession, DeleteExecution, Commit, Export, Summarize, Recover, At
  <2>3. CASE ReadSession(t)
    <3>1. pc[t] = "read_session" /\ got[t] = <<>> /\ t \in DOMAIN got
      BY <2>3 DEF ReadSession, At, Fetched
    <3>2. got'[t] = <<view.session>>
      BY <2>3, <3>1 DEF ReadSession, ReadThen
    <3>3. pc'[t] \in {"read_timeline", "returned"}
      BY <2>3 DEF ReadSession, ReadThen, Goto, Typed
    <3> QED BY <3>2, <3>3 DEF HandedTo
  <2>4. CASE Handoff(t)
    <3>1. PICK s : got[t] = <<s>>
      BY <2>4 DEF Handoff, At, Handed, HandedTo
    <3>2. /\ pc'[t] = "returned" /\ UNCHANGED <<method, before, stamp, removed>>
          /\ got' = [got EXCEPT ![t] = Append(@, RecentTimeline(Limit))]
      BY <2>4 DEF Handoff, ReadThen, Goto, Typed
    <3>3. got'[t] = Append(<<s>>, RecentTimeline(Limit))
      BY <3>1, <3>2 DEF Fetched
    <3> DEFINE R == RecentTimeline(Limit)
    <3>4. R \subseteq Called
      BY InitialAssumption DEF RecentTimeline, Recent, RowsRan, Rows, Ran, Called
    <3>5. \A e \in before[t] \ removed : method[e] = "append" /\ e \notin R =>
            Cardinality({u \in R : stamp[e] < stamp[u]}) = Limit
      BY HandoffShows
    <3> HIDE DEF R
    <3>6. got'[t][2] = R
      BY <3>3 DEF R
    <3>7. Shown(t)'
      BY <3>2, <3>5, <3>6 DEF Shown
    <3> QED BY <1>2, <3>2, <3>4, <3>6, <3>7 DEF HandedTo
  <2> QED BY <2>2, <2>3, <2>4
<1>7. RecoveredBy(t)'
  <2> SUFFICES ASSUME method[t] = "latest" PROVE RecoveredBy(t)'
    BY <1>1 DEF Steps, RecoveredBy
  <2>1. pc[t] = "read_snapshots" /\ ~open[t]
    BY <1>1 DEF Steps, Placed, Writes
  <2>2. Recover(t)
    BY <2>1 DEF Step, InsertSession, InsertTimeline, InsertEvent, InsertMetric, InsertSnapshot,
         UpdateSession, DeleteSession, DeleteExecution, Commit, ReadSession, Handoff, Export, Summarize, At
  <2>3. got[t] = <<>> /\ t \in DOMAIN got
    BY <2>1 DEF Fetched
  <2>4. view.snapshots \subseteq Called
    BY InitialAssumption DEF RowsRan, Rows, Ran, Called
  <2>5. PICK S : /\ got' = [got EXCEPT ![t] = Append(@, S)]
                 /\ S \subseteq view.snapshots
                 /\ \A s \in view.snapshots : \E u \in S : iteration[s] <= iteration[u]
    <3>1. CASE view.snapshots = {} /\ ReadThen(t, {}, "returned")
      BY <3>1 DEF ReadThen
    <3>2. ASSUME NEW u \in LatestSnapshots, ReadThen(t, {u}, "returned")
          PROVE  /\ got' = [got EXCEPT ![t] = Append(@, {u})]
                 /\ {u} \subseteq view.snapshots
                 /\ \A s \in view.snapshots : \E v \in {u} : iteration[s] <= iteration[v]
      BY <3>2 DEF ReadThen, LatestSnapshots
    <3> QED BY <2>2, <3>1, <3>2 DEF Recover
  <2>6. got'[t] = Append(<<>>, S)
    BY <2>3, <2>5
  <2>7. got'[t][1] = S
    BY <2>6
  <2>8. ASSUME NEW s \in before[t] \ removed, method[s] = "snapshot" PROVE s \in view.snapshots
    BY <2>8 DEF Handed, RowsKept, Kept
  <2> QED BY <1>1, <1>2, <2>4, <2>5, <2>7, <2>8 DEF RecoveredBy, Steps
<1> QED BY <1>1, <1>4, <1>5, <1>6, <1>7 DEF Handed, Steps

LEMMA CrashHanded ==
  ASSUME Typed, Handed, Crash
  PROVE  Handed'
<1>1. /\ UNCHANGED <<method, field, iteration, got, stamp, before, removed>>
      /\ \A t \in Tasks : /\ pc'[t] = pc[t] \/ pc'[t] = "crashed"
                          /\ pc[t] = "returned" => pc'[t] = "returned"
                          /\ pc[t] # "idle" => pc'[t] # "idle"
  BY DEF Crash, Typed
<1>2. \A u \in Called : u \in Called'
  BY <1>1 DEF Called
<1>3. \A t \in Tasks : HandedTo(t)' /\ RecoveredBy(t)'
  BY <1>1, <1>2, StillHanded, StillRecovered
<1> QED BY <1>1, <1>3 DEF Handed

LEMMA StepHanded ==
  ASSUME Typed, Placed, RowsKept, RowsRan, Fetched, Stamped, Handed, [Next]_vars
  PROVE  Handed'
<1>1. CASE UNCHANGED vars
  <2>1. UNCHANGED <<method, iteration, pc, got, stamp, before, removed>> /\ Called' = Called
    BY <1>1 DEF vars, task, Called
  <2>2. \A t \in Tasks : HandedTo(t)' /\ RecoveredBy(t)'
    BY <2>1, StillHanded, StillRecovered
  <2> QED BY <2>1, <2>2 DEF Handed
<1> QED BY <1>1, CallHanded, StepsHanded, CrashHanded DEF Next

LEMMA InitHanded == Init => Stamped /\ Handed
<1> SUFFICES ASSUME Init PROVE Stamped /\ Handed
  OBVIOUS
<1>1. Called = {}
  BY DEF Init, Called
<1>2. Stamped
  BY <1>1, FS_EmptySet DEF Init, Stamped
<1> QED BY <1>2 DEF Init, Handed, HandedTo, RecoveredBy

\* Every row whose INSERT was acknowledged is in the file unless a DELETE took it,
\* whatever other tasks commit, delete or leave uncommitted, and also after a crash; and
\* a recovery finds a snapshot of no earlier iteration than any that was acknowledged
\* before it and not removed (event_store.py create_session, append_timeline,
\* record_event, record_node_metric, snapshot_state, get_latest_snapshot).
THEOREM AcknowledgedRowsSurvive == Spec => []AckedSurvive
<1> DEFINE I == RowsRan /\ Deleted /\ Fetched /\ Orphans /\ Stamped /\ Handed
<1>1. Init => I
  BY InitDeleted, InitOrphans, InitHanded
<1>2. Typed /\ Placed /\ RowsKept /\ I /\ [Next]_vars => I'
  BY StepDeleted, StepOrphans, StepStamped, StepHanded
<1>3. RowsKept /\ I => AckedSurvive
  BY DEF RowsKept, Kept, Handed, RecoveredBy, AckedSurvive, Returned
<1> QED BY <1>1, <1>2, <1>3, Keeping, PTL DEF Spec

\* A handoff of a session shows every entry whose append had returned before it was
\* asked for, unless it was deleted or newer entries take all the room
\* (event_store.py generate_handoff, get_recent_timeline).
THEOREM HandoffsShowTheNewest == Spec => []HandoffsAreCurrent
<1> DEFINE I == RowsRan /\ Deleted /\ Fetched /\ Orphans /\ Stamped /\ Handed
<1>1. Init => I
  BY InitDeleted, InitOrphans, InitHanded
<1>2. Typed /\ Placed /\ RowsKept /\ I /\ [Next]_vars => I'
  BY StepDeleted, StepOrphans, StepStamped, StepHanded
<1>3. I => HandoffsAreCurrent
  BY DEF Handed, HandedTo, Shown, HandoffsAreCurrent, Returned
<1> QED BY <1>1, <1>2, <1>3, Keeping, PTL DEF Spec

(***************************************************************************)
(* What an update wrote.                                                   *)
(***************************************************************************)
\* The statements that touch a session are those of the methods that do.
OriginOf(u) ==
  /\ pc[u] = "idle" => method[u] = "none"
  /\ pc[u] = "insert_session" => method[u] = "create"
  /\ pc[u] \in {"delete_timeline", "delete_session"} => method[u] = "delete_session"
  /\ pc[u] = "update_session" => method[u] = "update"
  /\ method[u] = "update" => pc[u] \in {"read_session", "update_session"} \cup Ended

Origins == \A u \in Tasks : OriginOf(u)

LEMMA StepOrigins ==
  ASSUME Typed, Placed, Fetched, Origins, [Next]_vars
  PROVE  Origins'
<1>1. CASE Crash
  BY <1>1 DEF Typed, Crash, Origins, OriginOf
<1>2. ASSUME NEW t \in Tasks, Step(t) PROVE Origins'
  <2>1. Steps(t)
    BY <1>2, StepSteps
  <2>2. method' = method /\ \A u \in Tasks \ {t} : pc'[u] = pc[u]
    BY <2>1 DEF Steps
  <2>3. CASE Commit(t)
    <3>1. pc[t] \in Writes /\ pc'[t] = Following(pc[t])
      BY <2>3 DEF Placed, Commit, Goto, Typed
    <3>2. OriginOf(t)'
      BY <2>2, <3>1 DEF Origins, OriginOf, Following, AfterCommit, Writes
    <3> QED BY <2>2, <3>2 DEF Origins, OriginOf
  <2>4. CASE Write(t)
    <3>1. pc'[t] = pc[t] \/ pc'[t] = "raised"
      BY <2>4 DEF Write, InsertSession, InsertTimeline, InsertEvent, InsertMetric, InsertSnapshot,
           UpdateSession, DeleteSession, DeleteExecution, DeleteRows, Executed, Goto, Typed
    <3> QED BY <2>2, <3>1 DEF Origins, OriginOf
  <2>5. CASE ReadSession(t)
    <3>1. pc'[t] \in {"raised", "returned", "read_timeline", "update_session"} /\
          (pc'[t] = "update_session" => method[t] = "update") /\
          (pc'[t] = "read_timeline" => method[t] # "update")
      BY <2>5 DEF ReadSession, ReadThen, Goto, Typed
    <3> QED BY <2>2, <3>1 DEF Origins, OriginOf
  <2>6. CASE Handoff(t) \/ Export(t) \/ Summarize(t) \/ Recover(t)
    <3>1. pc[t] \in Reads \ {"read_session"}
      BY <2>6 DEF Handoff, Export, Summarize, Recover, At, Reads
    <3>2. pc'[t] \in (Reads \ {"read_session"}) \cup {"returned"}
      BY <2>6 DEF Handoff, Export, Summarize, Recover, ReadThen, Goto, Typed, Reads
    <3> QED BY <2>2, <3>1, <3>2 DEF Origins, OriginOf, Reads
  <2> QED BY <1>2, <2>3, <2>4, <2>5, <2>6 DEF Step, Write
<1>3. ASSUME NEW t \in Tasks, NEW o \in Ops, NEW f, NEW i, Call(t, o, f, i)
      PROVE  Origins'
  <2>1. /\ pc'[t] = First[o] /\ method'[t] = o
        /\ \A u \in Tasks \ {t} : pc'[u] = pc[u] /\ method'[u] = method[u]
    BY <1>3 DEF Typed, Call, Goto
  <2> QED BY <2>1 DEF Origins, OriginOf, First, Ops
<1>4. CASE UNCHANGED vars
  BY <1>4 DEF vars, task, Origins, OriginOf
<1> QED BY <1>1, <1>2, <1>3, <1>4 DEF Next

\* What may take an update away again.
Excused(t) ==
  \E u \in Tasks \ ({t} \cup before[t]) :
    \/ method[u] \in {"create", "delete_session"}
    \/ method[u] = "update" /\ (field[u] = field[t] \/ t \notin before[u])

In(t, s)  == s # NoSession /\ s[field[t]] = t
Stored(t) == pc[t] = "returned" /\ method[t] = "update" /\ field[t] # NoField /\ got[t] # <<NoSession>>

\* Without an excuse: the session is there when the update comes to write it, what it
\* wrote is in the session and, once it returned, in the file, and a later update that
\* is about to write has read it.
Lasts(t) ==
  method[t] = "update" /\ ~Excused(t) =>
    /\ pc[t] = "update_session" => view.session # NoSession /\ (open[t] => In(t, view.session))
    /\ Stored(t) =>
         /\ In(t, view.session) /\ In(t, durable.session)
         /\ \A u \in Tasks : pc[u] = "update_session" /\ t \in before[u] => In(t, got[u][1])

LEMMA ExcuseStays ==
  ASSUME Origins, NEW t \in Tasks, field'[t] = field[t], before'[t] = before[t],
         \A u \in Called : method'[u] = method[u] /\ field'[u] = field[u] /\ before'[u] = before[u],
         Excused(t)
  PROVE  Excused(t)'
<1>1. PICK u \in Tasks \ ({t} \cup before[t]) :
        \/ method[u] \in {"create", "delete_session"}
        \/ method[u] = "update" /\ (field[u] = field[t] \/ t \notin before[u])
  BY DEF Excused
<1>2. u \in Called
  BY <1>1 DEF Origins, OriginOf, Called
<1> QED BY <1>1, <1>2 DEF Excused

\* A task that is still at work and gives an update no excuse.
LEMMA Harmless ==
  ASSUME Handed, NEW t \in Tasks, method[t] = "update", ~Excused(t),
         NEW u \in Tasks, u # t, pc[u] # "returned"
  PROVE  /\ method[u] \notin {"create", "delete_session"}
         /\ method[u] = "update" => field[u] # field[t] /\ t \in before[u] /\ pc[t] = "returned"
<1>1. u \notin before[t]
  BY DEF Handed
<1> QED BY <1>1 DEF Excused, Handed

\* What becomes of the session when a statement that neither creates nor deletes it runs.
LEMMA SessionAfter ==
  ASSUME Typed, NEW t \in Tasks, Write(t), pc[t] \notin {"insert_session", "delete_session"}
  PROVE  /\ UNCHANGED <<method, field, before, pc, got, durable>> /\ open'[t]
         /\ view'.session = IF pc[t] = "update_session" /\ view.session # NoSession
                            THEN Updated(t) ELSE view.session
<1>0. DOMAIN view = Columns /\ t \in DOMAIN open
  BY DEF Typed
<1>1. ASSUME NEW tables, Executed(t, tables)
      PROVE  UNCHANGED <<method, field, before, pc, got, durable>> /\ open'[t] /\ view' = tables
  BY <1>0, <1>1 DEF Executed
<1>2. ASSUME NEW c \in Columns \ {"session"}, NEW rows, Executed(t, [view EXCEPT ![c] = rows]),
             pc[t] # "update_session"
      PROVE  /\ UNCHANGED <<method, field, before, pc, got, durable>> /\ open'[t]
             /\ view'.session = IF pc[t] = "update_session" /\ view.session # NoSession
                                THEN Updated(t) ELSE view.session
  <2>1. [view EXCEPT ![c] = rows].session = view.session
    BY <1>0 DEF Columns
  <2> QED BY <1>1, <1>2, <2>1
<1>3. CASE InsertTimeline(t)
  <2>1. Executed(t, [view EXCEPT !.timeline = @ \cup {t}]) /\ pc[t] = "insert_timeline"
    BY <1>3 DEF InsertTimeline, At
  <2>2. [view EXCEPT !.timeline = @ \cup {t}] = [view EXCEPT !["timeline"] = view.timeline \cup {t}]
    OBVIOUS
  <2> QED BY <1>2, <2>1, <2>2 DEF Columns
<1>4. CASE InsertEvent(t)
  <2>1. Executed(t, [view EXCEPT !.events = @ \cup {t}]) /\ pc[t] = "insert_event"
    BY <1>4 DEF InsertEvent, At
  <2> QED BY <1>2, <2>1 DEF Columns
<1>5. CASE InsertMetric(t)
  <2>1. Executed(t, [view EXCEPT !.metrics = @ \cup {t}]) /\ pc[t] = "insert_metric"
    BY <1>5 DEF InsertMetric, At
  <2> QED BY <1>2, <2>1 DEF Columns
<1>6. CASE InsertSnapshot(t)
  <2>1. Executed(t, [view EXCEPT !.snapshots = @ \cup {t}]) /\ pc[t] = "insert_snapshot"
    BY <1>6 DEF InsertSnapshot, At
  <2> QED BY <1>2, <2>1 DEF Columns
<1>7. CASE DeleteExecution(t) \/ DeleteSession(t)
  <2>1. \E c \in Columns \ {"session"} : Executed(t, [view EXCEPT ![c] = {}])
    BY <1>7 DEF DeleteExecution, DeleteSession, DeleteRows, At, Columns
  <2>2. pc[t] # "update_session"
    BY <1>7 DEF DeleteExecution, DeleteSession, At
  <2> QED BY <1>2, <2>1, <2>2
<1>8. CASE UpdateSession(t)
  <2>1. pc[t] = "update_session"
    BY <1>8 DEF UpdateSession, At
  <2>2. CASE view.session = NoSession
    BY <1>1, <1>8, <2>2 DEF UpdateSession
  <2>3. CASE view.session # NoSession
    <3> DEFINE tables == [view EXCEPT !.session = Updated(t)]
    <3>1. Executed(t, tables)
      BY <1>8, <2>3 DEF UpdateSession
    <3>2. tables.session = Updated(t)
      BY <1>0 DEF Columns
    <3> HIDE DEF tables
    <3>3. UNCHANGED <<method, field, before, pc, got, durable>> /\ open'[t] /\ view' = tables
      BY <1>1, <3>1
    <3> QED BY <2>1, <2>3, <3>2, <3>3
  <2> QED BY <2>2, <2>3
<1>9. ~InsertSession(t)
  BY DEF InsertSession, At
<1> QED BY <1>3, <1>4, <1>5, <1>6, <1>7, <1>8, <1>9 DEF Write

\* An update keeps the columns of the session it has read that it does not write.
LEMMA UpdatedColumns ==
  ASSUME Fetched, NEW u \in Tasks, pc[u] = "update_session"
  PROVE  /\ In(u, Updated(u))
         /\ \A t \in Tasks : field[t] \in Fields /\ field[t] # field[u] /\ In(t, got[u][1])
                           => In(t, Updated(u))
<1>1. got[u][1] \in [Fields -> Tasks \cup {Initial}] /\ field[u] \in Fields
  BY DEF Fetched, Session
<1>2. Updated(u) # NoSession
  BY UpdatedIsSession
<1> QED BY <1>1, <1>2 DEF In, Updated

LEMMA WriteLasts ==
  ASSUME Typed, Placed, Fetched, Handed, Origins, NEW t \in Tasks, method[t] = "update", ~Excused(t),
         Lasts(t), NEW u \in Tasks, Write(u)
  PROVE  Lasts(t)'
<1>0. pc[u] \in Writes
  BY DEF Write, InsertSession, InsertTimeline, InsertEvent, InsertMetric, InsertSnapshot,
         UpdateSession, DeleteSession, DeleteExecution, At, Writes
<1>1. pc[u] \notin {"insert_session", "delete_session"}
  <2>1. CASE u = t
    BY <1>0, <2>1 DEF Origins, OriginOf, Writes
  <2>2. CASE u # t
    BY <1>0, <2>2, Harmless DEF Origins, OriginOf, Writes
  <2> QED BY <2>1, <2>2
<1>2. /\ UNCHANGED <<method, field, before, pc, got, durable>> /\ open'[u]
      /\ view'.session = IF pc[u] = "update_session" /\ view.session # NoSession
                         THEN Updated(u) ELSE view.session
  BY <1>1, SessionAfter
<1>3. Steps(u)
  BY StepSteps DEF Step, Write
<1>4. CASE u = t
  <2>1. pc[t] = "update_session"
    BY <1>0, <1>4 DEF Origins, OriginOf, Writes
  <2>2. In(t, Updated(t))
    BY <2>1, UpdatedColumns
  <2>3. view'.session = Updated(t)
    BY <1>2, <1>4, <2>1 DEF Lasts
  <2>4. Updated(t) # NoSession /\ In(t, view'.session)
    BY <2>2, <2>3 DEF In
  <2> QED BY <1>2, <2>1, <2>3, <2>4 DEF Lasts, Stored, In
<1>5. CASE u # t /\ pc[u] = "update_session"
  <2>1. field[u] # field[t] /\ t \in before[u] /\ pc[t] = "returned"
    BY <1>0, <1>5, Harmless DEF Origins, OriginOf
  <2>2. ASSUME Stored(t) PROVE In(t, view'.session)
    <3>1. In(t, got[u][1]) /\ In(t, view.session)
      BY <1>5, <2>1, <2>2 DEF Lasts
    <3>2. field[t] \in Fields
      BY <2>2 DEF Stored, Fetched
    <3>3. In(t, Updated(u))
      BY <1>5, <2>1, <3>1, <3>2, UpdatedColumns
    <3> QED BY <1>2, <1>5, <3>1, <3>3 DEF In
  <2> QED BY <1>2, <2>1, <2>2 DEF Lasts, Stored, In
<1>6. CASE u # t /\ pc[u] # "update_session"
  <2>1. view'.session = view.session /\ open'[t] = open[t]
    BY <1>2, <1>3, <1>6 DEF Steps
  <2> QED BY <1>2, <2>1 DEF Lasts, Stored, In
<1> QED BY <1>4, <1>5, <1>6

LEMMA CommitLasts ==
  ASSUME Typed, Placed, Fetched, Handed, Origins, NEW t \in Tasks, method[t] = "update", ~Excused(t),
         Lasts(t), NEW u \in Tasks, Commit(u)
  PROVE  Lasts(t)'
<1>1. /\ UNCHANGED <<view, method, field, got, before>> /\ durable' = view
      /\ pc'[u] = Following(pc[u]) /\ open[u] /\ ~open'[u] /\ pc[u] \in Writes
      /\ \A v \in Tasks \ {u} : pc'[v] = pc[v] /\ open'[v] = open[v]
  BY DEF Typed, Placed, Commit, Goto
<1>2. pc'[u] # "update_session"
  BY <1>1 DEF Following, AfterCommit
<1>3. CASE u = t
  <2>1. pc[t] = "update_session" /\ pc'[t] = "returned"
    BY <1>1, <1>3 DEF Origins, OriginOf, Writes, Following, AfterCommit
  <2>2. In(t, view.session)
    BY <1>1, <1>3, <2>1 DEF Lasts
  <2>3. \A v \in Tasks : t \notin before[v]
    BY <2>1 DEF Handed
  <2> QED BY <1>1, <2>1, <2>2, <2>3 DEF Lasts, In
<1>4. CASE u # t
  <2>1. pc'[t] = pc[t] /\ open'[t] = open[t]
    BY <1>1, <1>4
  <2>2. \A v \in Tasks : pc'[v] = "update_session" => pc[v] = "update_session"
    BY <1>1, <1>2
  <2> QED BY <1>1, <2>1, <2>2 DEF Lasts, Stored, In
<1> QED BY <1>3, <1>4

LEMMA ReadLasts ==
  ASSUME Typed, Placed, Fetched, Handed, Origins, NEW t \in Tasks, method[t] = "update", ~Excused(t),
         Lasts(t), NEW u \in Tasks, ReadSession(u) \/ Handoff(u) \/ Export(u) \/ Summarize(u) \/ Recover(u)
  PROVE  Lasts(t)'
<1>1. PICK result, where : ReadThen(u, result, where)
  BY DEF ReadSession, Handoff, Export, Summarize, Recover
<1>2. /\ UNCHANGED <<view, durable, method, field, open, before>>
      /\ \A v \in Tasks \ {u} : pc'[v] = pc[v] /\ got'[v] = got[v]
  BY <1>1 DEF Typed, Fetched, ReadThen, Goto
<1>3. pc[u] \in Reads /\ ~open[u]
  BY DEF ReadSession, Handoff, Export, Summarize, Recover, At, Reads
<1>4. CASE u = t
  <2>1. pc[t] = "read_session" /\ got[t] = <<>>
    BY <1>3, <1>4 DEF Origins, OriginOf, Reads, Fetched
  <2>2. ReadSession(t)
    BY <1>4, <2>1 DEF Handoff, Export, Summarize, Recover, At
  <2>3. got'[t] = <<view.session>>
    BY <2>1, <2>2 DEF ReadSession, ReadThen, Fetched
  <2>4. /\ pc'[t] = "update_session" => view.session # NoSession
        /\ pc'[t] = "returned" => view.session = NoSession \/ field[t] = NoField
    BY <2>2 DEF ReadSession, ReadThen, Goto, Typed
  <2> QED BY <1>2, <1>3, <1>4, <2>3, <2>4 DEF Lasts, Stored
<1>5. CASE u # t
  <2>1. /\ pc'[t] = pc[t] /\ got'[t] = got[t] /\ open'[t] = open[t]
        /\ Stored(t)' => Stored(t)
    BY <1>2, <1>5 DEF Stored
  <2>2. ASSUME Stored(t), pc'[u] = "update_session", t \in before[u]
        PROVE  In(t, got'[u][1])
    <3>1. ReadSession(u)
      BY <2>2 DEF Handoff, Export, Summarize, Recover, ReadThen, Goto, Typed
    <3>2. got[u] = <<>> /\ u \in DOMAIN got
      BY <3>1 DEF ReadSession, At, Fetched
    <3>3. got'[u] = <<view.session>>
      BY <3>1, <3>2 DEF ReadSession, ReadThen
    <3> QED BY <2>2, <3>3 DEF Lasts
  <2> QED BY <1>2, <2>1, <2>2 DEF Lasts, In
<1> QED BY <1>4, <1>5

LEMMA CallLasts ==
  ASSUME Typed, Placed, Fetched, Stamped, Handed, Origins, NEW t \in Tasks, Lasts(t),
         NEW u \in Tasks, NEW o \in Ops, NEW f, NEW i, Call(u, o, f, i)
  PROVE  Lasts(t)'
<1>1. /\ pc[u] = "idle" /\ pc'[u] = First[o] /\ UNCHANGED <<view, durable, open, got>>
      /\ \A v \in Tasks \ {u} : /\ pc'[v] = pc[v] /\ method'[v] = method[v] /\ field'[v] = field[v]
                                /\ before'[v] = before[v]
  BY DEF Typed, Fetched, Handed, Call, Goto
<1>2. pc'[u] \notin {"update_session", "returned"}
  BY <1>1 DEF First, Ops
<1>3. CASE u = t
  BY <1>2, <1>3 DEF Lasts, Stored
<1>4. CASE u # t
  <2>1. \A v \in Called : method'[v] = method[v] /\ field'[v] = field[v] /\ before'[v] = before[v]
    BY <1>1 DEF Called
  <2>2. Excused(t) => Excused(t)'
    BY <1>1, <1>4, <2>1, ExcuseStays
  <2>3. \A v \in Tasks : pc'[v] = "update_session" => pc[v] = "update_session" /\ before'[v] = before[v]
    BY <1>1, <1>2
  <2> QED BY <1>1, <1>4, <2>2, <2>3 DEF Lasts, Stored, In
<1> QED BY <1>3, <1>4

LEMMA CrashLasts ==
  ASSUME Typed, NEW t \in Tasks, method[t] = "update", ~Excused(t), Lasts(t), Crash
  PROVE  Lasts(t)'
<1>1. /\ UNCHANGED <<durable, method, field, got, before>> /\ view' = durable
      /\ \A v \in Tasks : pc'[v] # "update_session" /\ (pc'[v] = "returned" => pc[v] = "returned")
  BY DEF Typed, Crash
<1> QED BY <1>1 DEF Lasts, Stored, In

LEMMA StepLasts ==
  ASSUME Typed, Placed, Fetched, Stamped, Handed, Origins, NEW t \in Tasks, Lasts(t), [Next]_vars
  PROVE  Lasts(t)'
<1>1. CASE UNCHANGED vars
  <2>1. UNCHANGED <<view, durable, method, field, pc, open, got, before>>
    BY <1>1 DEF vars, task
  <2>2. Excused(t)' <=> Excused(t)
    BY <2>1 DEF Excused
  <2> QED BY <2>1, <2>2 DEF Lasts, Stored, In
<1>2. ASSUME NEW u \in Tasks, NEW o \in Ops, NEW f, NEW i, Call(u, o, f, i) PROVE Lasts(t)'
  BY <1>2, CallLasts
<1>3. CASE Crash \/ \E u \in Tasks : Step(u)
  <2>1. UNCHANGED <<method, field, before>>
    BY <1>3, StepSteps DEF Crash, Steps
  <2>2. Excused(t)' <=> Excused(t)
    BY <2>1 DEF Excused
  <2>3. SUFFICES ASSUME method[t] = "update", ~Excused(t) PROVE Lasts(t)'
    BY <2>1, <2>2 DEF Lasts
  <2> QED BY <1>3, <2>3, CrashLasts, WriteLasts, CommitLasts, ReadLasts DEF Step, Write
<1> QED BY <1>1, <1>2, <1>3 DEF Next

LEMMA InitLasts == Init => Origins /\ \A t \in Tasks : Lasts(t)
  BY DEF Init, Origins, OriginOf, Lasts

\* An update that returned is in the file, unless its column was written again, the
\* session was deleted or created, or another update was under way at the same time;
\* no crash and no other call takes it away (event_store.py update_session_state).
THEOREM UpdatesAreLostOnlyToOverlap == Spec => []UpdatesLostOnlyToOverlap
<1> DEFINE I == /\ RowsRan /\ Deleted /\ Fetched /\ Orphans /\ Stamped /\ Handed
                /\ Origins /\ \A t \in Tasks : Lasts(t)
<1>1. Init => I
  BY InitDeleted, InitOrphans, InitHanded, InitLasts
<1>2. Typed /\ Placed /\ RowsKept /\ I /\ [Next]_vars => I'
  BY StepDeleted, StepOrphans, StepStamped, StepHanded, StepOrigins, StepLasts
<1>3. I => UpdatesLostOnlyToOverlap
  BY DEF Lasts, Stored, In, Excused, UpdatesLostOnlyToOverlap, Returned
<1> QED BY <1>1, <1>2, <1>3, Keeping, PTL DEF Spec
===============================================================================
