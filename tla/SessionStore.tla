----------------------------- MODULE SessionStore -----------------------------
(***************************************************************************)
(* The methods of src/src/state/event_store.py that take several           *)
(* statements: sessions and their timeline, the deletion of executions,    *)
(* the reports read with one query after the other, and the recovery from  *)
(* the latest snapshot.  All tables of one session, whose id is also the   *)
(* execution id its events are stored under (export_session_artifacts      *)
(* reads them so).                                                         *)
(*                                                                         *)
(* Every write is one statement and one COMMIT of its own; no statement of *)
(* this module waits for the write lock (see EventStoreLifecycle), so any  *)
(* task's statement can run between the two, and any COMMIT commits what   *)
(* all tasks have done on the connection.  Reads use the same connection   *)
(* and see what is not committed.  A process that dies loses that.  The    *)
(* retries of _execute_write are in EventStore.                            *)
(***************************************************************************)
EXTENDS Naturals, FiniteSets, Sequences

CONSTANTS
  Tasks,        \* asyncio tasks; each makes one call, its row is named after it
  Fields,       \* updatable columns of a session
  NoField,      \* what an update that names no such column changes
  Initial,      \* their values in the session there is at first, and its creator
  Iterations,   \* iterations callers give their snapshots
  NoSession,    \* no row in table sessions
  Limit         \* timeline entries in a handoff (10 in the code)

ASSUME InitialAssumption   == Initial \notin Tasks
ASSUME NoSessionAssumption == NoSession \notin [Fields -> Tasks \cup {Initial}]
ASSUME IterationsAssumption == Iterations \subseteq Nat /\ 0 \in Iterations
ASSUME NoFieldAssumption   == NoField \notin Fields
ASSUME LimitAssumption     == Limit \in Nat \ {0}

VARIABLES
  view,         \* the tables as the connection sees them
  durable,      \* the tables as the file has them
  method,       \* the method each task called
  field,        \* the column an update changes
  iteration,    \* the iteration a snapshot is of
  pc,           \* the statement each task executes next, or how it ended
  open,         \* that statement has run, its COMMIT has not
  got,          \* what each task has read
  stamp,        \* the timestamp each task's row carries; order of the calls
  crashed,      \* the process died and was restarted
  found,        \* history: the rows there were when a task called
  before,       \* history: the tasks that had returned when a task called
  removed,      \* history: rows a DELETE took from the view, committed or not
  late          \* history: timeline entries written where no session was,
                \* or one whose timeline a deletion had passed

db   == <<view, durable>>
task == <<method, field, iteration, pc, open, got, stamp>>
hist == <<found, before, removed, late>>
vars == <<db, task, crashed, hist>>

Session == [Fields -> Tasks \cup {Initial}]
\* created is created_at of the session's row, which no update writes: it tells the
\* rows of two creations apart, and is {} where there is no row.
Tables  == [session : Session \cup {NoSession}, created : SUBSET (Tasks \cup {Initial}),
            timeline : SUBSET Tasks, events : SUBSET Tasks, metrics : SUBSET Tasks,
            snapshots : SUBSET Tasks]

\* The first statement of each method, and what follows a COMMIT or a read.
First == [create |-> "insert_session",   append   |-> "insert_timeline",
          record |-> "insert_event",     metric   |-> "insert_metric",
          snapshot |-> "insert_snapshot", update  |-> "read_session",
          delete_session |-> "delete_timeline", delete_execution |-> "delete_events",
          handoff |-> "read_session",    export   |-> "read_session",
          summary |-> "count_events",    latest |-> "read_snapshots"]

AfterCommit == [delete_timeline |-> "delete_session",
                delete_events |-> "delete_metrics", delete_metrics |-> "delete_snapshots"]

Ops    == DOMAIN First
Ended  == {"returned", "raised", "crashed"}
Writes == {"insert_session", "insert_timeline", "insert_event", "insert_metric",
           "insert_snapshot", "update_session", "delete_timeline", "delete_session",
           "delete_events", "delete_metrics", "delete_snapshots"}
Reads  == {"read_session", "read_timeline", "read_session_again", "read_timeline_again",
           "read_events", "count_events", "read_metrics", "first_event", "last_event",
           "read_snapshots"}
PCs    == {"idle"} \cup Writes \cup Reads \cup Ended

Rows(v) == v.created \cup v.timeline \cup v.events \cup v.metrics \cup v.snapshots

\* Each task is well placed, and a statement waits for its COMMIT only if it writes.
TypeOK ==
  /\ view \in Tables /\ durable \in Tables
  /\ \A v \in {view, durable} : Cardinality(v.created) = IF v.session = NoSession THEN 0 ELSE 1
  /\ method \in [Tasks -> Ops \cup {"none"}]
  /\ pc \in [Tasks -> PCs]
  /\ open \in [Tasks -> BOOLEAN]
  /\ \A t \in Tasks : open[t] => pc[t] \in Writes
  /\ \A t \in Tasks : Len(got[t]) <= 5
  /\ stamp \in [Tasks -> 0..Cardinality(Tasks)]
  /\ crashed \in BOOLEAN
  /\ found \in [Tasks -> SUBSET (Tasks \cup {Initial})] /\ before \in [Tasks -> SUBSET Tasks]
  /\ field \in [Tasks -> Fields \cup {NoField}] /\ iteration \in [Tasks -> Iterations]
  /\ removed \subseteq Tasks \cup {Initial} /\ late \subseteq Tasks

(***************************************************************************)
(* Queries.                                                                *)
(***************************************************************************)
Oldest(S) == {t \in S : \A u \in S : stamp[t] <= stamp[u]}
Newest(S) == {t \in S : \A u \in S : stamp[u] <= stamp[t]}

\* Mutant: ORDER BY timestamp ASC LIMIT n.
RecentFromStart(S, n) == {t \in S : Cardinality({u \in S : stamp[u] < stamp[t]}) < n}

\* get_recent_timeline, list_sessions: ORDER BY timestamp DESC LIMIT n.
Recent(S, n) == {t \in S : Cardinality({u \in S : stamp[t] < stamp[u]}) < n}

RecentTimeline(n) == Recent(view.timeline, n)

\* Mutant: ORDER BY timestamp DESC LIMIT 1.
NewestSnapshots == Newest(view.snapshots)

\* get_latest_snapshot: ORDER BY iteration DESC LIMIT 1, where the iteration is the
\* caller's.  Of several snapshots of one iteration the file may give any.
LatestSnapshots ==
  {t \in view.snapshots : \A u \in view.snapshots : iteration[u] <= iteration[t]}

(***************************************************************************)
(* Pieces of the actions.                                                  *)
(***************************************************************************)
Goto(t, where) == pc' = [pc EXCEPT ![t] = where]

\* A statement that writes ran on the connection.
Executed(t, tables) ==
  /\ view' = tables
  /\ open' = [open EXCEPT ![t] = TRUE]
  /\ UNCHANGED <<durable, method, field, iteration, pc, got, stamp, crashed, found, before>>

\* A query returned result.
ReadThen(t, result, where) ==
  /\ got' = [got EXCEPT ![t] = Append(@, result)]
  /\ Goto(t, where)
  /\ UNCHANGED <<db, method, field, iteration, open, stamp, crashed, found, before, removed, late>>

At(t, statement) == pc[t] = statement /\ ~open[t]

(***************************************************************************)
(* A task calls a method; record_event and the others take their           *)
(* timestamps before they write.                                           *)
(***************************************************************************)
Call(t, o, f, i) ==
  /\ pc[t] = "idle"
  /\ f # NoField => o = "update"
  /\ i # 0 => o = "snapshot"
  /\ field' = [field EXCEPT ![t] = f]
  /\ iteration' = [iteration EXCEPT ![t] = i]
  /\ method' = [method EXCEPT ![t] = o]
  /\ Goto(t, First[o])
  /\ stamp' = [stamp EXCEPT ![t] = Cardinality({u \in Tasks : pc[u] # "idle"}) + 1]
  /\ found' = [found EXCEPT ![t] = Rows(view)]
  /\ before' = [before EXCEPT ![t] = {u \in Tasks : pc[u] = "returned"}]
  /\ UNCHANGED <<db, open, got, crashed, removed, late>>

(***************************************************************************)
(* Writes.                                                                 *)
(***************************************************************************)
\* create_session; the primary key refuses a session there is.
InsertSession(t) ==
  /\ At(t, "insert_session")
  /\ \/ /\ view.session = NoSession
        /\ Executed(t, [view EXCEPT !.session = [f \in Fields |-> t], !.created = @ \cup {t}])
     \/ /\ view.session # NoSession
        /\ Goto(t, "raised")
        /\ UNCHANGED <<db, method, field, iteration, open, got, stamp, crashed, found, before>>
  /\ UNCHANGED <<removed, late>>

\* A deletion has removed the timeline and has still to remove the session.
Passed == \E u \in Tasks : \/ pc[u] = "delete_timeline" /\ open[u]
                           \/ pc[u] = "delete_session" /\ ~open[u]

\* append_timeline; foreign keys are off, so the session need not exist.
InsertTimeline(t) ==
  /\ At(t, "insert_timeline")
  /\ Executed(t, [view EXCEPT !.timeline = @ \cup {t}])
  /\ late' = IF view.session = NoSession \/ Passed THEN late \cup {t} ELSE late
  /\ UNCHANGED removed

\* record_event, for the session's events.
InsertEvent(t) ==
  /\ At(t, "insert_event")
  /\ Executed(t, [view EXCEPT !.events = @ \cup {t}])
  /\ UNCHANGED <<removed, late>>

\* record_node_metric.
InsertMetric(t) ==
  /\ At(t, "insert_metric")
  /\ Executed(t, [view EXCEPT !.metrics = @ \cup {t}])
  /\ UNCHANGED <<removed, late>>

\* snapshot_state.
InsertSnapshot(t) ==
  /\ At(t, "insert_snapshot")
  /\ Executed(t, [view EXCEPT !.snapshots = @ \cup {t}])
  /\ UNCHANGED <<removed, late>>

\* Mutant: the other columns are all taken from the one that is updated.
UpdatedMixedUp(t) == [f \in Fields |-> IF f = field[t] THEN t ELSE got[t][1][field[t]]]

\* The record update_session_state builds from the session it has read.
Updated(t) == [got[t][1] EXCEPT ![field[t]] = t]

\* update_session_state writes every column but created_at; without a row it changes
\* nothing, and returns the record all the same.
UpdateSession(t) ==
  /\ At(t, "update_session")
  /\ Executed(t, IF view.session = NoSession THEN view ELSE [view EXCEPT !.session = Updated(t)])
  /\ UNCHANGED <<removed, late>>

\* A DELETE of all the rows one table has of the session.
DeleteRows(t, rows, tables) ==
  /\ Executed(t, tables)
  /\ removed' = removed \cup rows
  /\ UNCHANGED late

NoSessionIn(v) == [v EXCEPT !.session = NoSession, !.created = {}]

\* Mutant: the session is deleted before its timeline.
DeleteSessionFirst(t) ==
  \/ At(t, "delete_timeline") /\ DeleteRows(t, view.created, NoSessionIn(view))
  \/ At(t, "delete_session")  /\ DeleteRows(t, view.timeline, [view EXCEPT !.timeline = {}])

\* delete_session: the timeline, then the session, each with a COMMIT.
DeleteSession(t) ==
  \/ At(t, "delete_timeline") /\ DeleteRows(t, view.timeline, [view EXCEPT !.timeline = {}])
  \/ At(t, "delete_session")  /\ DeleteRows(t, view.created, NoSessionIn(view))

\* delete_execution: the same for three tables.
DeleteExecution(t) ==
  \/ At(t, "delete_events")    /\ DeleteRows(t, view.events, [view EXCEPT !.events = {}])
  \/ At(t, "delete_metrics")   /\ DeleteRows(t, view.metrics, [view EXCEPT !.metrics = {}])
  \/ At(t, "delete_snapshots") /\ DeleteRows(t, view.snapshots, [view EXCEPT !.snapshots = {}])

\* Mutant: delete_execution forgets its last table.
FollowingShort(statement) ==
  IF statement \in {"delete_timeline", "delete_events"} THEN AfterCommit[statement] ELSE "returned"

\* Where a task goes after the COMMIT of its statement.
Following(statement) ==
  IF statement \in DOMAIN AfterCommit THEN AfterCommit[statement] ELSE "returned"

\* Mutant: the COMMIT is forgotten.
CommitForgotten(t) ==
  /\ open[t]
  /\ open' = [open EXCEPT ![t] = FALSE]
  /\ Goto(t, Following(pc[t]))
  /\ UNCHANGED <<db, method, field, iteration, got, stamp, crashed, hist>>

Commit(t) ==
  /\ open[t]
  /\ durable' = view
  /\ open' = [open EXCEPT ![t] = FALSE]
  /\ Goto(t, Following(pc[t]))
  /\ UNCHANGED <<view, method, field, iteration, got, stamp, crashed, hist>>

(***************************************************************************)
(* Reads: get_session, get_recent_timeline, get_latest_snapshot and the    *)
(* queries of generate_handoff, export_session_artifacts and               *)
(* get_execution_summary.                                                  *)
(***************************************************************************)
\* Without a session update_session_state returns None, generate_handoff "not
\* found", and export_session_artifacts raises.  An update of no known column
\* returns what it read.
ReadSession(t) ==
  /\ At(t, "read_session")
  /\ ReadThen(t, view.session,
       IF view.session = NoSession THEN IF method[t] = "export" THEN "raised" ELSE "returned"
       ELSE IF method[t] # "update" THEN "read_timeline"
       ELSE IF field[t] = NoField THEN "returned" ELSE "update_session")

\* generate_handoff.
Handoff(t) ==
  /\ method[t] = "handoff" /\ At(t, "read_timeline")
  /\ ReadThen(t, RecentTimeline(Limit), "returned")

\* export_session_artifacts: the timeline, the handoff, with reads of its own
\* and the text "not found" where the session has gone, then the events.
Export(t) ==
  /\ method[t] = "export"
  /\ \/ At(t, "read_timeline") /\ ReadThen(t, view.timeline, "read_session_again")
     \/ /\ At(t, "read_session_again")
        /\ ReadThen(t, view.session,
             IF view.session = NoSession THEN "read_events" ELSE "read_timeline_again")
     \/ At(t, "read_timeline_again") /\ ReadThen(t, RecentTimeline(Limit), "read_events")
     \/ At(t, "read_events") /\ ReadThen(t, view.events, "returned")

\* get_execution_summary: four queries.  The set counted stands for the count.
Summarize(t) ==
  /\ \/ At(t, "count_events") /\ ReadThen(t, view.events, "read_metrics")
     \/ At(t, "read_metrics") /\ ReadThen(t, view.metrics, "first_event")
     \/ At(t, "first_event")  /\ ReadThen(t, Oldest(view.events), "last_event")
     \/ At(t, "last_event")   /\ ReadThen(t, Newest(view.events), "returned")

\* get_latest_snapshot; None where there is none.
Recover(t) ==
  /\ At(t, "read_snapshots")
  /\ \/ view.snapshots = {} /\ ReadThen(t, {}, "returned")
     \/ \E u \in LatestSnapshots : ReadThen(t, {u}, "returned")

(***************************************************************************)
(* The process dies once and is restarted: what was not committed is gone. *)
(***************************************************************************)
Crash ==
  /\ ~crashed
  /\ crashed' = TRUE
  /\ view' = durable
  /\ pc' = [t \in Tasks |-> IF pc[t] \in {"idle"} \cup Ended THEN pc[t] ELSE "crashed"]
  /\ open' = [t \in Tasks |-> FALSE]
  /\ UNCHANGED <<durable, method, field, iteration, got, stamp, hist>>

\* The store of a session that exists and has nothing else yet.
Init ==
  /\ view = [session |-> [f \in Fields |-> Initial], created |-> {Initial}, timeline |-> {},
             events |-> {}, metrics |-> {}, snapshots |-> {}]
  /\ durable = view
  /\ method = [t \in Tasks |-> "none"] /\ field = [t \in Tasks |-> NoField]
  /\ iteration = [t \in Tasks |-> 0]
  /\ pc = [t \in Tasks |-> "idle"]
  /\ open = [t \in Tasks |-> FALSE]
  /\ got = [t \in Tasks |-> <<>>] /\ stamp = [t \in Tasks |-> 0]
  /\ crashed = FALSE
  /\ found = [t \in Tasks |-> {}] /\ before = [t \in Tasks |-> {}]
  /\ removed = {} /\ late = {}

Step(t) ==
  \/ InsertSession(t) \/ InsertTimeline(t)
  \/ InsertEvent(t) \/ InsertMetric(t) \/ InsertSnapshot(t)
  \/ UpdateSession(t)
  \/ DeleteSession(t) \/ DeleteExecution(t) \/ Commit(t)
  \/ ReadSession(t) \/ Handoff(t) \/ Export(t) \/ Summarize(t) \/ Recover(t)

Next ==
  \/ Crash
  \/ \E t \in Tasks :
       Step(t) \/ \E o \in Ops, f \in Fields \cup {NoField}, i \in Iterations : Call(t, o, f, i)

Spec == Init /\ [][Next]_vars

(***************************************************************************)
(* Properties.                                                             *)
(***************************************************************************)
Returned(t, o) == pc[t] = "returned" /\ method[t] = o

\* Every row whose INSERT was acknowledged is in the file, also after a crash,
\* unless a DELETE removed it.  A recovery from the latest snapshot, also one after a
\* crash, finds a snapshot, and none of an earlier iteration than any snapshot that was
\* acknowledged before and not removed.
\* Code: every method of event_store.py that inserts one row, get_latest_snapshot.
AckedSurvive ==
  /\ \A t \in Tasks \ removed :
       /\ Returned(t, "create")   => t \in durable.created
       /\ Returned(t, "append")   => t \in durable.timeline
       /\ Returned(t, "record")   => t \in durable.events
       /\ Returned(t, "metric")   => t \in durable.metrics
       /\ Returned(t, "snapshot") => t \in durable.snapshots
  /\ \A t \in Tasks : Returned(t, "latest") =>
       \A s \in before[t] \ removed : method[s] = "snapshot" =>
         \E u \in got[t][1] : iteration[s] <= iteration[u]

\* A deletion that returned has removed every row its method is for from the file, of
\* those there were when it was called: the session and its timeline, or the events, the
\* metrics and the snapshots.  It commits table by table, and others commit, and insert
\* or create the session again, in between.
\* Code: event_store.py delete_session, delete_execution.
DeletionsAreComplete ==
  \A t \in Tasks :
    /\ Returned(t, "delete_session")   => found[t] \cap (durable.created \cup durable.timeline) = {}
    /\ Returned(t, "delete_execution") =>
         found[t] \cap (durable.events \cup durable.metrics \cup durable.snapshots) = {}

\* A timeline entry without a session, which foreign keys would refuse, was
\* appended when no session was there or its deletion was past the timeline:
\* no deletion, completed or cut off by a crash, makes one of an older entry.
\* Code: event_store.py delete_session, append_timeline.
OrphansAreLate == durable.session = NoSession => durable.timeline \subseteq late

\* A handoff of a session shows every entry whose append had returned before it
\* was asked for, unless it was deleted or newer entries take all the room.
\* Code: event_store.py generate_handoff, get_recent_timeline.
HandoffsAreCurrent ==
  \A t \in Tasks : Returned(t, "handoff") /\ Len(got[t]) = 2 =>
    \A e \in before[t] \ removed : method[e] = "append" =>
      \/ e \in got[t][2]
      \/ Cardinality({u \in got[t][2] : stamp[e] < stamp[u]}) = Limit

\* An update that returned is in the file, unless its column was written again, the
\* session was deleted or created, or another update was under way at the same time:
\* that one has read the session before and writes the old value back.
\* Code: event_store.py update_session_state.
UpdatesLostOnlyToOverlap ==
  \A t \in Tasks : Returned(t, "update") /\ field[t] # NoField /\ got[t] # <<NoSession>> =>
    \/ durable.session # NoSession /\ durable.session[field[t]] = t
    \/ \E u \in Tasks \ ({t} \cup before[t]) :
         \/ method[u] \in {"create", "delete_session"}
         \/ method[u] = "update" /\ (field[u] = field[t] \/ t \notin before[u])

(***************************************************************************)
(* What the code and its documentation say, and the code does not do.      *)
(***************************************************************************)
\* delete_session: "Delete all data for a session (for testing/cleanup)."  No row of
\* the session that was there when it was called is in the file when it has returned,
\* in whichever table.
DeletesAllData == \A t \in Tasks : Returned(t, "delete_session") => found[t] \cap Rows(durable) = {}
===============================================================================
