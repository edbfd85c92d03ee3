-------------------------- MODULE EventStoreLifecycle --------------------------
(***************************************************************************)
(* The other half of src/src/state/event_store.py: how the connection of   *)
(* an EventStore comes and goes under concurrent use.  Every write first   *)
(* awaits _initialize; close drops the connection.  EventStore models what *)
(* happens between, on one connection.                                     *)
(*                                                                         *)
(* The methods read self._conn anew at every await, so a call may run its  *)
(* INSERT on one connection and its COMMIT on another.  A caller's job     *)
(* runs on the connection self._conn was when the job was issued: target.  *)
(*                                                                         *)
(* There is no lock in this module: only record_events_batch ever makes a  *)
(* task wait for the write lock, and until one has, _get_lock returns a    *)
(* new lock to every caller (see EventStore!GetLock), so "async with" on   *)
(* it never waits here, neither in _initialize nor in _execute_write.      *)
(***************************************************************************)
EXTENDS Naturals, FiniteSets

CONSTANTS
  Writers,      \* tasks that record one event each; the event is its writer
  Closers,      \* tasks that call close once
  Conns,        \* aiosqlite connections the tasks may open
  NoConn,       \* None
  MaxRetries    \* max_retries of _execute_write (10 in the code)

Callers == Writers \cup Closers

ASSUME CallersAssumption == Writers \cap Closers = {}
ASSUME ConnsAssumption   == IsFiniteSet(Conns) /\ Cardinality(Conns) >= Cardinality(Writers)
ASSUME NoConnAssumption  == NoConn \notin Conns
ASSUME RetriesAssumption == MaxRetries \in Nat \ {0}

VARIABLES
  conn,         \* self._conn
  initialized,  \* self._initialized
  pc,           \* where each task awaits
  target,       \* connection each task's job runs on
  attempt,      \* attempt of the retry loop, from 1
  status,       \* each connection: "unused", "open" or "closed"
  uncommitted,  \* rows in each connection's open transaction
  writer,       \* connection whose transaction holds the file's write lock
  schema,       \* the tables exist in the file
  durable,      \* committed rows
  acked         \* history: writers whose call returned normally

self == <<conn, initialized>>
task == <<pc, target, attempt>>
disk == <<writer, schema, durable>>
vars == <<self, task, status, uncommitted, disk, acked>>

PCs == {"idle", "connect", "pragma", "script", "init_commit", "insert", "backoff",
        "commit", "close", "returned", "raised", "assertion_failed"}
Ended == {"returned", "raised", "assertion_failed"}

TypeOK ==
  /\ conn \in Conns \cup {NoConn}
  /\ initialized \in BOOLEAN
  /\ pc \in [Callers -> PCs]
  /\ target \in [Callers -> Conns \cup {NoConn}]
  /\ attempt \in [Callers -> 1..MaxRetries]
  /\ status \in [Conns -> {"unused", "open", "closed"}]
  /\ uncommitted \in [Conns -> SUBSET Writers]
  /\ writer \in Conns \cup {NoConn}
  /\ schema \in BOOLEAN
  /\ durable \subseteq Writers
  /\ acked \subseteq Writers

(***************************************************************************)
(* Pieces of the actions.                                                  *)
(***************************************************************************)
Goto(c, where) == pc' = [pc EXCEPT ![c] = where]

\* "await self._conn.<op>": queue the job on the connection self._conn is now;
\* on None this is an AttributeError.
IssueOn(c, k, where) ==
  IF k = NoConn
  THEN Goto(c, "raised") /\ UNCHANGED target
  ELSE Goto(c, where) /\ target' = [target EXCEPT ![c] = k]

\* _execute_write after _initialize: the assertion, then the INSERT.
StartInsert(c, k) ==
  IF k = NoConn
  THEN Goto(c, "assertion_failed") /\ UNCHANGED target
  ELSE IssueOn(c, k, "insert")

\* COMMIT on connection k; without an open transaction it changes nothing.
CommitOn(k) ==
  /\ durable' = durable \cup uncommitted[k]
  /\ uncommitted' = [uncommitted EXCEPT ![k] = {}]
  /\ writer' = IF writer = k THEN NoConn ELSE writer

Alive(c) == status[target[c]] = "open"

\* Another connection's transaction holds the file's write lock.
Blocked(c) == writer \notin {NoConn, target[c]}

(***************************************************************************)
(* Actions of a writer: record_event, _execute_write, _initialize.         *)
(***************************************************************************)
\* Mutant: the connection, and not the flag, tells an initialised store.
RecordEventIfConnected(c) ==
  /\ pc[c] = "idle"
  /\ IF conn # NoConn
     THEN StartInsert(c, conn)
     ELSE Goto(c, "connect") /\ UNCHANGED target
  /\ UNCHANGED <<self, attempt, status, uncommitted, disk, acked>>

\* Mutant: the flag is set before the work is done.
RecordEventFlagFirst(c) ==
  /\ pc[c] = "idle"
  /\ initialized' = TRUE
  /\ IF initialized
     THEN StartInsert(c, conn)
     ELSE Goto(c, "connect") /\ UNCHANGED target
  /\ UNCHANGED <<conn, attempt, status, uncommitted, disk, acked>>

RecordEvent(c) ==
  /\ pc[c] = "idle"
  /\ IF initialized
     THEN StartInsert(c, conn)
     ELSE Goto(c, "connect") /\ UNCHANGED target
  /\ UNCHANGED <<self, attempt, status, uncommitted, disk, acked>>

\* aiosqlite.connect returned: self._conn is overwritten, whatever it was.
Connected(c) ==
  /\ pc[c] = "connect"
  /\ \E k \in Conns :
       /\ status[k] = "unused"
       /\ status' = [status EXCEPT ![k] = "open"]
       /\ conn' = k
       /\ IssueOn(c, k, "pragma")
  /\ UNCHANGED <<initialized, attempt, uncommitted, disk, acked>>

\* Mutant: the job of a connection that was closed meanwhile is never answered.
PragmasUnanswered(c) ==
  /\ pc[c] = "pragma" /\ Alive(c)
  /\ IssueOn(c, conn, "script")
  /\ UNCHANGED <<self, attempt, status, uncommitted, disk, acked>>

\* The two PRAGMAs ran; switching to WAL can find the file locked when other
\* connections use it.
Pragmas(c) ==
  /\ pc[c] = "pragma"
  /\ \/ Alive(c) /\ IssueOn(c, conn, "script")
     \/ /\ ~Alive(c) \/ \E k \in Conns \ {target[c]} : status[k] = "open"
        /\ Goto(c, "raised")
        /\ UNCHANGED target
  /\ UNCHANGED <<self, attempt, status, uncommitted, disk, acked>>

\* executescript commits what the connection has open, then creates the tables
\* that do not exist, for which it needs the file's write lock.
Script(c) ==
  /\ pc[c] = "script"
  /\ \/ /\ Alive(c)
        /\ CommitOn(target[c])
        /\ \/ /\ schema \/ ~Blocked(c)
              /\ schema' = TRUE
              /\ IssueOn(c, conn, "init_commit")
           \/ /\ ~schema /\ Blocked(c)
              /\ UNCHANGED <<schema, target>>
              /\ Goto(c, "raised")
     \/ /\ ~Alive(c)
        /\ Goto(c, "raised")
        /\ UNCHANGED <<target, uncommitted, disk>>
  /\ UNCHANGED <<self, attempt, status, acked>>

\* The last await of _initialize; the caller goes on to its INSERT at once.
Initialized(c) ==
  /\ pc[c] = "init_commit"
  /\ \/ /\ Alive(c)
        /\ CommitOn(target[c])
        /\ initialized' = TRUE
        /\ StartInsert(c, conn)
        /\ UNCHANGED schema
     \/ /\ ~Alive(c)
        /\ Goto(c, "raised")
        /\ UNCHANGED <<initialized, target, uncommitted, disk>>
  /\ UNCHANGED <<conn, attempt, status, acked>>

\* The INSERT ran and the commit is issued, on what self._conn is by now.
Inserted(c) ==
  /\ pc[c] = "insert"
  /\ Alive(c) /\ schema /\ ~Blocked(c)
  /\ uncommitted' = [uncommitted EXCEPT ![target[c]] = @ \cup {c}]
  /\ writer' = target[c]
  /\ IssueOn(c, conn, "commit")
  /\ UNCHANGED <<self, attempt, status, schema, durable, acked>>

\* "database is locked": sleep and try again, while attempts are left.
InsertLocked(c) ==
  /\ pc[c] = "insert"
  /\ Alive(c) /\ schema /\ Blocked(c)
  /\ IF attempt[c] < MaxRetries
     THEN Goto(c, "backoff") /\ attempt' = [attempt EXCEPT ![c] = @ + 1]
     ELSE Goto(c, "raised") /\ UNCHANGED attempt
  /\ UNCHANGED <<self, target, status, uncommitted, disk, acked>>

\* The connection was closed, or the table does not exist: no retry.
InsertFailed(c) ==
  /\ pc[c] = "insert"
  /\ ~Alive(c) \/ ~schema
  /\ Goto(c, "raised")
  /\ UNCHANGED <<self, target, attempt, status, uncommitted, disk, acked>>

Retry(c) ==
  /\ pc[c] = "backoff"
  /\ IssueOn(c, conn, "insert")
  /\ UNCHANGED <<self, attempt, status, uncommitted, disk, acked>>

\* Mutant: the error of a commit on a closed connection is swallowed.
CommittedAnyway(c) ==
  /\ pc[c] = "commit"
  /\ IF Alive(c) THEN CommitOn(target[c]) ELSE UNCHANGED <<uncommitted, writer, durable>>
  /\ acked' = acked \cup {c}
  /\ Goto(c, "returned")
  /\ UNCHANGED <<self, target, attempt, status, schema>>

\* The commit ran, and record_event returns.
Committed(c) ==
  /\ pc[c] = "commit"
  /\ \/ /\ Alive(c)
        /\ CommitOn(target[c])
        /\ acked' = acked \cup {c}
        /\ Goto(c, "returned")
     \/ /\ ~Alive(c)
        /\ Goto(c, "raised")
        /\ UNCHANGED <<uncommitted, writer, durable, acked>>
  /\ UNCHANGED <<self, target, attempt, status, schema>>

(***************************************************************************)
(* close.                                                                  *)
(***************************************************************************)
Close(c) ==
  /\ pc[c] = "idle"
  /\ IF conn = NoConn
     THEN Goto(c, "returned") /\ UNCHANGED target
     ELSE IssueOn(c, conn, "close")
  /\ UNCHANGED <<self, attempt, status, uncommitted, disk, acked>>

\* The connection is closed, which rolls its transaction back; then the store
\* forgets whatever connection it has by now.
Closed(c) ==
  /\ pc[c] = "close"
  /\ status' = [status EXCEPT ![target[c]] = "closed"]
  /\ uncommitted' = [uncommitted EXCEPT ![target[c]] = {}]
  /\ writer' = IF writer = target[c] THEN NoConn ELSE writer
  /\ conn' = NoConn
  /\ initialized' = FALSE
  /\ Goto(c, "returned")
  /\ UNCHANGED <<target, attempt, schema, durable, acked>>

(***************************************************************************)
(* Specification.                                                          *)
(***************************************************************************)
Init ==
  /\ conn = NoConn
  /\ initialized = FALSE
  /\ pc = [c \in Callers |-> "idle"]
  /\ target = [c \in Callers |-> NoConn]
  /\ attempt = [c \in Callers |-> 1]
  /\ status = [k \in Conns |-> "unused"]
  /\ uncommitted = [k \in Conns |-> {}]
  /\ writer = NoConn
  /\ schema \in BOOLEAN          \* a fresh file, or one of an earlier run
  /\ durable = {}
  /\ acked = {}

Resume(c) ==
  \/ Connected(c) \/ Pragmas(c) \/ Script(c) \/ Initialized(c)
  \/ Inserted(c) \/ InsertLocked(c) \/ InsertFailed(c) \/ Retry(c) \/ Committed(c)
  \/ Closed(c)

Next ==
  \/ \E c \in Writers : RecordEvent(c)
  \/ \E c \in Closers : Close(c)
  \/ \E c \in Callers : Resume(c)

Spec == Init /\ [][Next]_vars

\* Every job of a connection's thread ends (a busy file after busy_timeout) and
\* the event loop resumes every task whose await is over.
FairSpec == Spec /\ \A c \in Callers : WF_vars(Resume(c))

(***************************************************************************)
(* Properties.                                                             *)
(***************************************************************************)
Opened == {k \in Conns : status[k] # "unused"}

\* An acknowledged event is missing from the file only when the store has
\* replaced its connection, or is about to: with one connection ever opened,
\* no interleaving of writers and close loses one.
LossNeedsSecondConnection == ~(acked \subseteq durable) => Cardinality(Opened) > 1

\* No INSERT ever reaches a file without the events table, however many tasks
\* are inside _initialize and however often the store was closed meanwhile.
SchemaBeforeInsert == \A c \in Writers : pc[c] \in {"insert", "commit"} => schema

\* Every call ends.
CallsEnd == \A c \in Callers : pc[c] # "idle" ~> pc[c] \in Ended

\* Until somebody calls close the store stays usable: once _initialized is set,
\* self._conn is an open connection, however many tasks are still inside
\* _initialize and about to replace it.
NoCloseYet == \A c \in Closers : pc[c] = "idle"
UsableOnceInitialized == initialized /\ NoCloseYet => conn # NoConn /\ status[conn] = "open"

(***************************************************************************)
(* What the code and its documentation say, and the code does not do.      *)
(***************************************************************************)
\* README: "Append-only aiosqlite with WAL mode ... Durability".
AckedDurable == acked \subseteq durable
===============================================================================
