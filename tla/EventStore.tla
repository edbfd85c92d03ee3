------------------------------ MODULE EventStore ------------------------------
(***************************************************************************)
(* The write path of src/src/state/event_store.py over an initialised      *)
(* store: record_event (and every other call of _execute_write that        *)
(* inserts one row) and record_events_batch, run by any number of asyncio  *)
(* tasks that share one EventStore, hence one aiosqlite connection.        *)
(*                                                                         *)
(* Three parties take steps.                                               *)
(*   - The callers.  A caller runs from one await to the next, so every    *)
(*     action of a caller below is the code between two awaits.            *)
(*   - The connection's worker thread (external: aiosqlite and sqlite3).   *)
(*     It takes jobs in FIFO order; a job runs even when the task that     *)
(*     issued it was cancelled meanwhile.                                  *)
(*   - Whoever cancels a caller (TTCExecutor.execute cancels the losers of *)
(*     an early stop; engine users cancel runs).                           *)
(*                                                                         *)
(* sqlite3 opens a transaction implicitly before the first INSERT; nothing *)
(* in the code rolls back, so a transaction is only ever ended by a        *)
(* commit, whoever issues it.                                              *)
(*                                                                         *)
(* The file is in WAL mode (the PRAGMA of _initialize): a writer takes the *)
(* file's write lock with its first statement, and only taking it meets    *)
(* "database is locked".  A COMMIT comes with that lock, or with nothing   *)
(* to commit, and is never told so.  A disk that fails is not modelled.    *)
(***************************************************************************)
EXTENDS Naturals, Sequences, FiniteSets

CONSTANTS
  Callers,        \* asyncio tasks that write to the store
  NoOne,          \* no caller: a free lock, a job whose task was cancelled
  Uuids,          \* the ids record_event may draw (bounds its calls)
  Batches,        \* the event-id sequences passed to record_events_batch
  MaxRetries,     \* max_retries of _execute_write (10 in the code)
  OtherWriters    \* TRUE iff other connections write to the same file

IdsOf(s) == {s[i] : i \in 1..Len(s)}
Ids == Uuids \cup UNION {IdsOf(b) : b \in Batches}

ASSUME NoOneAssumption   == NoOne \notin Callers
ASSUME BatchesAssumption == Batches \subseteq Seq(Ids) \ {<<>>}
ASSUME RetriesAssumption == MaxRetries \in Nat \ {0}
ASSUME OtherAssumption   == OtherWriters \in BOOLEAN

VARIABLES
  pc,        \* where each caller awaits
  op,        \* the method each caller is in
  rows,      \* the ids of the rows each caller's call writes, in order
  next,      \* index in rows of the INSERT being executed
  attempt,   \* attempt of the retry loop of _execute_write, from 1
  reply,     \* result of the caller's last job, "none" while it is queued
  lock,      \* the lock self._write_lock refers to
  jobs,      \* the connection's job queue
  tx,        \* transaction of the connection
  pending,   \* rows inserted in the open transaction
  durable,   \* committed rows
  submitted, \* history: every id handed to the store
  acked,     \* history: every id whose call returned normally
  failed     \* history: ids of record_event calls that raised

ctl  == <<pc, op, rows, next, attempt, reply>>
db   == <<tx, pending, durable>>
hist == <<submitted, acked, failed>>
vars == <<ctl, lock, jobs, db, hist>>

PCs     == {"idle", "lock", "begin", "insert", "commit", "backoff", "cancelled"}
Ops     == {"record_event", "record_events_batch"}
Replies == {"none", "ok", "busy", "unique", "nested"}
Job     == [who : Callers \cup {NoOne}, do : {"begin", "insert", "commit"},
            ins : SUBSET Ids]      \* ins: the row of an INSERT

Locks   == [holder : Callers \cup {NoOne}, bound : BOOLEAN, waiters : Seq(Callers)]

TypeOK ==
  /\ pc \in [Callers -> PCs]
  /\ op \in [Callers -> Ops]
  /\ rows \in [Callers -> Seq(Ids)]
  /\ next \in [Callers -> Nat]
  /\ attempt \in [Callers -> 1..MaxRetries]
  /\ reply \in [Callers -> Replies]
  /\ lock \in Locks
  /\ jobs \in Seq(Job)
  /\ tx \in {"none", "read", "write"}
  /\ pending \subseteq Ids
  /\ durable \subseteq Ids
  /\ submitted \subseteq Ids
  /\ acked \subseteq Ids
  /\ failed \subseteq Ids

(***************************************************************************)
(* asyncio.Lock, as the code uses it.                                      *)
(*                                                                         *)
(* _get_lock compares lock._loop with the running loop; but _loop stays    *)
(* None until a task has had to WAIT for the lock.  So it returns the      *)
(* current lock once that lock is bound by contention, and a new one       *)
(* before.  A lock that was replaced has no waiters (waiting would have    *)
(* bound it), so only the current one is kept in the state: a holder of a  *)
(* replaced lock releases it with no effect on anybody.                    *)
(***************************************************************************)
FreshLock == [holder |-> NoOne, bound |-> FALSE, waiters |-> <<>>]

\* Mutant: a new lock for every call, contention or not.
GetLockAlwaysNew == FreshLock

GetLock == IF lock.bound THEN lock ELSE FreshLock

Free(l) == l.holder = NoOne

Wait(l, c) == [l EXCEPT !.bound = TRUE, !.waiters = Append(@, c)]

\* Release wakes the first waiter; newcomers queue behind it, so the lock
\* is handed over.
HandOver(l) ==
  IF l.waiters = <<>>
  THEN [l EXCEPT !.holder = NoOne]
  ELSE [l EXCEPT !.holder = Head(l.waiters), !.waiters = Tail(@)]

(***************************************************************************)
(* Pieces of the callers' actions.                                         *)
(***************************************************************************)
Issue(c, what, ins) ==
  /\ jobs' = Append(jobs, [who |-> c, do |-> what, ins |-> ins])
  /\ reply' = [reply EXCEPT ![c] = "none"]
  /\ pc' = [pc EXCEPT ![c] = what]

\* First statement under the lock: INSERT, or the BEGIN of a batch.
IssueFirst(c, o, r) ==
  IF o = "record_event" THEN Issue(c, "insert", {r[1]}) ELSE Issue(c, "begin", {})

\* "async with l": take l and go on to the first statement, or wait for l.
Acquire(c, l, o, r) ==
  \/ /\ Free(l)
     /\ lock' = [l EXCEPT !.holder = c]
     /\ IssueFirst(c, o, r)
  \/ /\ ~Free(l)
     /\ lock' = Wait(l, c)
     /\ pc' = [pc EXCEPT ![c] = "lock"]
     /\ UNCHANGED <<jobs, reply>>

\* Mutant: the lock is acquired, and released on no path.
ReleaseNever(c) == UNCHANGED lock

\* Leaving "async with": release the lock, if it is still the current one.
Release(c) == lock' = IF lock.holder = c THEN HandOver(lock) ELSE lock

Begin(c, o, r) ==
  /\ op' = [op EXCEPT ![c] = o]
  /\ rows' = [rows EXCEPT ![c] = r]
  /\ submitted' = submitted \cup IdsOf(r)

InCall(c) == pc[c] \notin {"idle", "cancelled"}

\* The call is over: the caller is idle again, or cancelled for good.
Finish(c, end) ==
  /\ pc' = [pc EXCEPT ![c] = end]
  /\ rows' = [rows EXCEPT ![c] = <<>>]
  /\ next' = [next EXCEPT ![c] = 1]
  /\ attempt' = [attempt EXCEPT ![c] = 1]
  /\ reply' = [reply EXCEPT ![c] = "none"]
  /\ UNCHANGED op

(***************************************************************************)
(* Actions of a caller.                                                    *)
(***************************************************************************)

\* Mutant: an id that may have been used before.
RecordEventAgain(c) ==
  /\ pc[c] = "idle"
  /\ \E u \in Uuids :
       /\ Begin(c, "record_event", <<u>>)
       /\ Acquire(c, GetLock, "record_event", <<u>>)
  /\ UNCHANGED <<next, attempt, db, acked, failed>>

\* record_event up to its first await: draw an id, call _execute_write.
RecordEvent(c) ==
  /\ pc[c] = "idle"
  /\ \E u \in Uuids \ submitted :
       /\ Begin(c, "record_event", <<u>>)
       /\ Acquire(c, GetLock, "record_event", <<u>>)
  /\ UNCHANGED <<next, attempt, db, acked, failed>>

\* record_events_batch up to its first await.  It locks self._write_lock
\* itself, not what _get_lock would return.
RecordBatch(c) ==
  /\ pc[c] = "idle"
  /\ \E b \in Batches :
       /\ Begin(c, "record_events_batch", b)
       /\ Acquire(c, lock, "record_events_batch", b)
  /\ UNCHANGED <<next, attempt, db, acked, failed>>

\* A waiter the lock was handed to resumes.
Acquired(c) ==
  /\ pc[c] = "lock"
  /\ lock.holder = c
  /\ IssueFirst(c, op[c], rows[c])
  /\ UNCHANGED <<op, rows, next, attempt, lock, db, hist>>

\* BEGIN TRANSACTION succeeded: the batch goes on to its first INSERT.
Begun(c) ==
  /\ pc[c] = "begin"
  /\ reply[c] = "ok"
  /\ Issue(c, "insert", {rows[c][1]})
  /\ UNCHANGED <<op, rows, next, attempt, lock, db, hist>>

\* An INSERT succeeded and the batch has more of them.
NextInsert(c) ==
  /\ pc[c] = "insert"
  /\ reply[c] = "ok"
  /\ next[c] < Len(rows[c])
  /\ next' = [next EXCEPT ![c] = @ + 1]
  /\ Issue(c, "insert", {rows[c][next[c] + 1]})
  /\ UNCHANGED <<op, rows, attempt, lock, db, hist>>

\* The last INSERT succeeded: commit.
IssueCommit(c) ==
  /\ pc[c] = "insert"
  /\ reply[c] = "ok"
  /\ next[c] = Len(rows[c])
  /\ Issue(c, "commit", {})
  /\ UNCHANGED <<op, rows, next, attempt, lock, db, hist>>

\* Mutant: the commit is issued and not awaited.
CommitNotAwaited(c) ==
  /\ pc[c] = "commit"
  /\ acked' = acked \cup IdsOf(rows[c])
  /\ Release(c)
  /\ Finish(c, "idle")
  /\ UNCHANGED <<jobs, db, submitted, failed>>

\* The commit succeeded: release the lock and return to the user.  (A batch
\* closes the cursor of its BEGIN first, which changes nothing here.)
Committed(c) ==
  /\ pc[c] = "commit"
  /\ reply[c] = "ok"
  /\ acked' = acked \cup IdsOf(rows[c])
  /\ Release(c)
  /\ Finish(c, "idle")
  /\ UNCHANGED <<jobs, db, submitted, failed>>

\* _execute_write caught "database is locked" and has attempts left: it has
\* left "async with" and sleeps.
BackOff(c) ==
  /\ pc[c] = "insert"
  /\ reply[c] = "busy"
  /\ op[c] = "record_event"
  /\ attempt[c] < MaxRetries
  /\ attempt' = [attempt EXCEPT ![c] = @ + 1]
  /\ pc' = [pc EXCEPT ![c] = "backoff"]
  /\ Release(c)
  /\ UNCHANGED <<op, rows, next, reply, jobs, db, hist>>

\* The sleep ends: the next attempt calls _get_lock afresh.
Retry(c) ==
  /\ pc[c] = "backoff"
  /\ Acquire(c, GetLock, op[c], rows[c])
  /\ UNCHANGED <<op, rows, next, attempt, db, hist>>

\* Mutant: the failing call rolls the shared connection back.
RaiseRollsBack(c) ==
  /\ pc[c] \in {"begin", "insert"}
  /\ reply[c] \in {"busy", "unique", "nested"}
  /\ ~ /\ reply[c] = "busy"
       /\ op[c] = "record_event"
       /\ attempt[c] < MaxRetries
  /\ tx' = "none"
  /\ pending' = {}
  /\ failed' = IF op[c] = "record_event" THEN failed \cup IdsOf(rows[c]) ELSE failed
  /\ Release(c)
  /\ Finish(c, "idle")
  /\ UNCHANGED <<jobs, durable, submitted, acked>>

\* The statement failed for good: the exception leaves "async with" and the
\* method.  Nothing rolls the transaction back.
Raise(c) ==
  /\ pc[c] \in {"begin", "insert"}
  /\ reply[c] \in {"busy", "unique", "nested"}
  /\ ~ /\ reply[c] = "busy"
       /\ op[c] = "record_event"
       /\ attempt[c] < MaxRetries
  /\ failed' = IF op[c] = "record_event" THEN failed \cup IdsOf(rows[c]) ELSE failed
  /\ Release(c)
  /\ Finish(c, "idle")
  /\ UNCHANGED <<jobs, db, submitted, acked>>

\* The task is cancelled at the await it is in, and is over.  Its queued job stays and
\* runs; a waiter leaves the lock's queue; the lock is released.
Orphan(c) ==
  [i \in 1..Len(jobs) |-> IF jobs[i].who = c THEN [jobs[i] EXCEPT !.who = NoOne]
                                             ELSE jobs[i]]

WithoutWaiter(l, c) ==
  IF \E i \in 1..Len(l.waiters) : l.waiters[i] = c
  THEN LET i == CHOOSE i \in 1..Len(l.waiters) : l.waiters[i] = c
       IN  [l EXCEPT !.waiters = SubSeq(@, 1, i - 1) \o SubSeq(@, i + 1, Len(@))]
  ELSE l

Cancel(c) ==
  /\ InCall(c)
  /\ lock' = IF lock.holder = c THEN HandOver(lock) ELSE WithoutWaiter(lock, c)
  /\ jobs' = Orphan(c)
  /\ Finish(c, "cancelled")
  /\ UNCHANGED <<db, hist>>

(***************************************************************************)
(* The connection's worker thread: one job at a time, in order.            *)
(***************************************************************************)
Reply(r) ==
  /\ jobs' = Tail(jobs)
  /\ reply' = IF Head(jobs).who \in Callers
              THEN [reply EXCEPT ![Head(jobs).who] = r] ELSE reply
  /\ UNCHANGED <<pc, op, rows, next, attempt, lock, hist>>

Running(what) == jobs # <<>> /\ Head(jobs).do = what

\* BEGIN TRANSACTION is an error while a transaction is open.
DbBegin ==
  /\ Running("begin")
  /\ \/ tx = "none" /\ tx' = "read"    /\ Reply("ok")
     \/ tx # "none" /\ UNCHANGED tx /\ Reply("nested")
  /\ UNCHANGED <<pending, durable>>

\* INSERT opens a transaction when none is.  It fails when another connection
\* holds the file's write lock longer than busy_timeout, and when the id
\* exists; either failure leaves the transaction open.
DbInsert ==
  /\ Running("insert")
  /\ LET row == Head(jobs).ins
     IN  \/ /\ OtherWriters /\ tx # "write"
            /\ tx' = "read"
            /\ UNCHANGED pending
            /\ Reply("busy")
         \/ /\ row \subseteq pending \cup durable
            /\ tx' = "write"
            /\ UNCHANGED pending
            /\ Reply("unique")
         \/ /\ ~(row \subseteq pending \cup durable)
            /\ tx' = "write"
            /\ pending' = pending \cup row
            /\ Reply("ok")
  /\ UNCHANGED durable

\* COMMIT makes every row of the open transaction durable, whoever inserted
\* it; without a transaction it does nothing.
DbCommit ==
  /\ Running("commit")
  /\ tx' = "none"
  /\ pending' = {}
  /\ durable' = durable \cup pending
  /\ Reply("ok")

(***************************************************************************)
(* Specification.                                                          *)
(***************************************************************************)
Init ==
  /\ pc = [c \in Callers |-> "idle"]
  /\ op = [c \in Callers |-> "record_event"]
  /\ rows = [c \in Callers |-> <<>>]
  /\ next = [c \in Callers |-> 1]
  /\ attempt = [c \in Callers |-> 1]
  /\ reply = [c \in Callers |-> "none"]
  /\ lock = FreshLock              \* the lock _initialize created and released
  /\ jobs = <<>>
  /\ tx = "none"
  /\ pending = {}
  /\ durable = {}
  /\ submitted = {}
  /\ acked = {}
  /\ failed = {}

\* What a caller does on its own once a call is under way.
Resume(c) ==
  \/ Acquired(c) \/ Begun(c) \/ NextInsert(c) \/ IssueCommit(c)
  \/ Committed(c) \/ BackOff(c) \/ Retry(c) \/ Raise(c)

Call(c) == RecordEvent(c) \/ RecordBatch(c)

Worker == DbBegin \/ DbInsert \/ DbCommit

Next ==
  \/ \E c \in Callers : Call(c) \/ Resume(c) \/ Cancel(c)
  \/ Worker

Spec == Init /\ [][Next]_vars

\* The event loop runs every ready task and the worker thread every job; no
\* caller has to make a call, and nobody has to cancel.
Fairness ==
  /\ \A c \in Callers : WF_vars(Resume(c))
  /\ WF_vars(Worker)

FairSpec == Spec /\ Fairness

(***************************************************************************)
(* Properties.                                                             *)
(***************************************************************************)
InLock(c) == pc[c] \in {"begin", "insert", "commit"}

\* An id whose recording call returned normally is in the file: no commit of
\* another caller, failed statement or cancellation in between loses it.
AckedDurable == acked \subseteq durable

\* A record_event that raised has left nothing behind: its row is not in the
\* file and not in the open transaction, where a later commit would pick it up.
FailedLeavesNothing == failed \cap (pending \cup durable) = {}

\* No path out of "async with" (success, exception, cancellation while
\* waiting, holding or just handed the lock) leaks the lock: whoever holds it
\* is inside a call, and tasks wait only for a lock that is held.
LockNeverLeaks ==
  /\ lock.holder \in Callers => pc[lock.holder] \in {"lock", "begin", "insert", "commit"}
  /\ lock.waiters # <<>> => lock.bound /\ lock.holder \in Callers

\* Once a task has waited for the lock, _get_lock stops replacing it: from
\* then on the callers inside the critical section without the current lock
\* can only become fewer.
Strays == {c \in Callers : InLock(c) /\ lock.holder # c}
BoundLockExcludes == [][lock.bound => lock'.bound /\ Strays' \subseteq Strays]_vars

\* Every call ends: it returns, raises, or is cancelled.
CallsEnd == \A c \in Callers : InCall(c) ~> ~InCall(c)

\* The store implements the append-only log it promises.
Log == INSTANCE EventLog WITH Events <- Ids
ImplementsLog == Log!Spec

(***************************************************************************)
(* The inductive invariant behind AckedDurable and ImplementsLog.          *)
(***************************************************************************)
\* A queued job that still has a task belongs to the statement that task
\* awaits, and no task has two jobs.
JobsOwned ==
  /\ \A i \in 1..Len(jobs) : jobs[i].who \in Callers =>
       LET c == jobs[i].who
       IN  /\ pc[c] = jobs[i].do
           /\ reply[c] = "none"
           /\ pc[c] = "insert" => jobs[i].ins = {rows[c][next[c]]}
  /\ \A i, k \in 1..Len(jobs) :
       jobs[i].who \in Callers /\ jobs[i].who = jobs[k].who => i = k

\* A call writes at least one row, record_event exactly one; next is the first
\* of them until the INSERTs begin, and always one of them.
NextInRange ==
  \A c \in Callers :
    /\ InCall(c) => next[c] \in 1..Len(rows[c])
    /\ InCall(c) /\ op[c] = "record_event" => Len(rows[c]) = 1
    /\ pc[c] \notin {"insert", "commit"} => next[c] = 1

\* The INSERT of the i-th row of c's call has succeeded.
Inserted(c, i) ==
  \/ pc[c] = "commit"
  \/ pc[c] = "insert" /\ (i < next[c] \/ (i = next[c] /\ reply[c] = "ok"))

\* A row stays in the open transaction until some commit makes it durable.
InsertedKept ==
  \A c \in Callers : \A i \in 1..Len(rows[c]) :
    Inserted(c, i) => rows[c][i] \in pending \cup durable

\* The rows of a call are durable when the reply to its commit arrives.
CommitDurable ==
  \A c \in Callers : pc[c] = "commit" /\ reply[c] = "ok" => IdsOf(rows[c]) \subseteq durable

\* Rows come from the callers only.
RowsSubmitted ==
  /\ pending \cup durable \subseteq submitted
  /\ \A c \in Callers : IdsOf(rows[c]) \subseteq submitted
  /\ \A i \in 1..Len(jobs) : jobs[i].ins \subseteq submitted

IInv ==
  /\ TypeOK
  /\ JobsOwned
  /\ NextInRange
  /\ InsertedKept
  /\ CommitDurable
  /\ RowsSubmitted
  /\ AckedDurable

(***************************************************************************)
(* What the documentation says and the code does not do.                   *)
(***************************************************************************)
\* record_events_batch: "Record multiple events in a single transaction."
\* The rows of a batch are in the file all together or not at all.
BatchAtomic ==
  \A b \in Batches : IdsOf(b) \subseteq durable \/ IdsOf(b) \cap durable = {}
===============================================================================
