--------------------------- MODULE EventStore_proofs ---------------------------
(***************************************************************************)
(* Theorems about EventStore, for every set of callers, ids and batches:   *)
(* type correctness, that an acknowledged event is durable, and that the   *)
(* store implements EventLog.                                              *)
(***************************************************************************)
EXTENDS EventStore, DataLemmas, SequenceTheorems, TLAPS

(***************************************************************************)
(* The lock.                                                               *)
(***************************************************************************)

\* Every operation of asyncio.Lock the code performs yields a lock.
LEMMA LockOperations ==
  ASSUME NEW l \in Locks, NEW c \in Callers
  PROVE  /\ [l EXCEPT !.holder = c] \in Locks
         /\ Wait(l, c) \in Locks
         /\ HandOver(l) \in Locks
         /\ WithoutWaiter(l, c) \in Locks
<1>1. [l EXCEPT !.holder = c] \in Locks
  BY DEF Locks
<1>2. Wait(l, c) \in Locks
  <2>1. Append(l.waiters, c) \in Seq(Callers)
    BY AppendProperties DEF Locks
  <2> QED BY <2>1 DEF Locks, Wait
<1>3. HandOver(l) \in Locks
  <2>1. CASE l.waiters = <<>>
    BY <2>1 DEF Locks, HandOver
  <2>2. CASE l.waiters # <<>>
    <3>1. Head(l.waiters) \in Callers /\ Tail(l.waiters) \in Seq(Callers)
      BY <2>2, HeadTailProperties DEF Locks
    <3> QED BY <2>2, <3>1 DEF Locks, HandOver
  <2> QED BY <2>1, <2>2
<1>4. WithoutWaiter(l, c) \in Locks
  <2>1. CASE \E i \in 1..Len(l.waiters) : l.waiters[i] = c
    <3> DEFINE i == CHOOSE i \in 1..Len(l.waiters) : l.waiters[i] = c
               w == SubSeq(l.waiters, 1, i - 1) \o SubSeq(l.waiters, i + 1, Len(l.waiters))
    <3>1. i \in 1..Len(l.waiters)
      BY <2>1
    <3>2. l.waiters \in Seq(Callers)
      BY DEF Locks
    <3> HIDE DEF i
    <3>3. w \in Seq(Callers)
      <4>1. SubSeq(l.waiters, 1, i - 1) \in Seq(Callers)
        BY <3>1, <3>2
      <4>2. SubSeq(l.waiters, i + 1, Len(l.waiters)) \in Seq(Callers)
        BY <3>1, <3>2
      <4> QED BY <4>1, <4>2
    <3>4. WithoutWaiter(l, c) = [l EXCEPT !.waiters = w]
      BY <2>1 DEF WithoutWaiter, i
    <3> QED BY <3>3, <3>4 DEF Locks
  <2>2. CASE ~ \E i \in 1..Len(l.waiters) : l.waiters[i] = c
    BY <2>2 DEF WithoutWaiter
  <2> QED BY <2>1, <2>2
<1> QED BY <1>1, <1>2, <1>3, <1>4

LEMMA LockTypes ==
  ASSUME TypeOK
  PROVE  /\ FreshLock \in Locks
         /\ GetLock \in Locks
         /\ \A c \in Callers : Release(c) => lock' \in Locks
         /\ \A c \in Callers : Cancel(c) => lock' \in Locks
<1>1. FreshLock \in Locks
  BY DEF FreshLock, Locks
<1>2. lock \in Locks
  BY DEF TypeOK
<1> QED BY <1>1, <1>2, LockOperations DEF GetLock, Release, Cancel

(***************************************************************************)
(* Type correctness.                                                       *)
(***************************************************************************)

\* A job that is queued leaves the control state well typed.
LEMMA IssueTypes ==
  ASSUME TypeOK, NEW c \in Callers, NEW what \in {"begin", "insert", "commit"},
         NEW ins \in SUBSET Ids, Issue(c, what, ins)
  PROVE  /\ jobs' \in Seq(Job)
         /\ reply' \in [Callers -> Replies]
         /\ pc' \in [Callers -> PCs]
<1>1. [who |-> c, do |-> what, ins |-> ins] \in Job
  BY DEF Job
<1>2. jobs' \in Seq(Job)
  BY <1>1, AppendProperties DEF Issue, TypeOK
<1>3. reply' \in [Callers -> Replies] /\ pc' \in [Callers -> PCs]
  BY DEF Issue, TypeOK, Replies, PCs
<1> QED BY <1>2, <1>3

\* So does entering "async with" on any lock.
LEMMA AcquireTypes ==
  ASSUME TypeOK, NEW c \in Callers, NEW l \in Locks, NEW o \in Ops,
         NEW r \in Seq(Ids) \ {<<>>}, Acquire(c, l, o, r)
  PROVE  /\ jobs' \in Seq(Job)
         /\ reply' \in [Callers -> Replies]
         /\ pc' \in [Callers -> PCs]
         /\ lock' \in Locks
<1>1. CASE Free(l) /\ lock' = [l EXCEPT !.holder = c] /\ IssueFirst(c, o, r)
  <2>1. {r[1]} \in SUBSET Ids
    OBVIOUS
  <2>2. lock' \in Locks
    BY <1>1, LockOperations
  <2> QED BY <1>1, <2>1, <2>2, IssueTypes DEF IssueFirst
<1>2. CASE ~Free(l) /\ lock' = Wait(l, c) /\ pc' = [pc EXCEPT ![c] = "lock"]
           /\ UNCHANGED <<jobs, reply>>
  <2>1. lock' \in Locks
    BY <1>2, LockOperations
  <2> QED BY <1>2, <2>1 DEF TypeOK, PCs
<1> QED BY <1>1, <1>2 DEF Acquire

\* And ending a call.
LEMMA FinishTypes ==
  ASSUME TypeOK, NEW c \in Callers, NEW end \in {"idle", "cancelled"}, Finish(c, end)
  PROVE  /\ pc' \in [Callers -> PCs]
         /\ op' \in [Callers -> Ops]
         /\ rows' \in [Callers -> Seq(Ids)]
         /\ next' \in [Callers -> Nat]
         /\ attempt' \in [Callers -> 1..MaxRetries]
         /\ reply' \in [Callers -> Replies]
<1>1. <<>> \in Seq(Ids)
  OBVIOUS
<1>2. 1 \in 1..MaxRetries
  BY RetriesAssumption
<1> QED BY <1>1, <1>2 DEF Finish, TypeOK, PCs, Replies

\* Cancelling a task changes the owner of a job and nothing else.
LEMMA OrphanTypes ==
  ASSUME jobs \in Seq(Job), NEW c \in Callers
  PROVE  Orphan(c) \in Seq(Job)
<1>1. \A i \in 1..Len(jobs) : [jobs[i] EXCEPT !.who = NoOne] \in Job
  <2> SUFFICES ASSUME NEW i \in 1..Len(jobs) PROVE [jobs[i] EXCEPT !.who = NoOne] \in Job
    OBVIOUS
  <2>1. jobs[i] \in Job
    BY ElementOfSeq
  <2> QED BY <2>1 DEF Job
<1> HIDE DEF Job
<1>2. Orphan(c) \in [1..Len(jobs) -> Job]
  BY <1>1 DEF Orphan
<1>3. Len(jobs) \in Nat
  OBVIOUS
<1> HIDE DEF Orphan
<1> QED BY <1>2, <1>3

LEMMA InitTypeOK == Init => TypeOK
<1> SUFFICES ASSUME Init PROVE TypeOK
  OBVIOUS
<1>1. <<>> \in Seq(Ids) /\ <<>> \in Seq(Job) /\ 1 \in 1..MaxRetries
  BY RetriesAssumption
<1>2. FreshLock \in Locks
  BY DEF FreshLock, Locks
<1> QED BY <1>1, <1>2 DEF Init, TypeOK, PCs, Ops, Replies

\* A call has rows, and next points to one of them.
LEMMA RowsOfCall ==
  ASSUME TypeOK, NextInRange, NEW c \in Callers, InCall(c)
  PROVE  /\ rows[c] \in Seq(Ids) \ {<<>>}
         /\ next[c] \in 1..Len(rows[c])
         /\ {rows[c][1]} \in SUBSET Ids
<1>1. next[c] \in 1..Len(rows[c])
  BY DEF NextInRange
<1>2. rows[c] \in Seq(Ids)
  BY DEF TypeOK
<1>3. Len(rows[c]) \in Nat /\ 1 \in 1..Len(rows[c])
  BY <1>1, <1>2
<1> QED BY <1>1, <1>2, <1>3, ElementOfSeq, EmptySeq

\* Every step of a caller keeps the types.
LEMMA CallerTypeOK ==
  ASSUME TypeOK, NextInRange, NEW c \in Callers, Call(c) \/ Resume(c) \/ Cancel(c)
  PROVE  TypeOK'
<1> USE DEF db, hist
<1>1. CASE RecordEvent(c)
  <2>1. PICK u \in Uuids \ submitted :
          Begin(c, "record_event", <<u>>) /\ Acquire(c, GetLock, "record_event", <<u>>)
    BY <1>1 DEF RecordEvent
  <2>2. <<u>> \in Seq(Ids) \ {<<>>} /\ IdsOf(<<u>>) \subseteq Ids
    BY DEF Ids, IdsOf
  <2>3. "record_event" \in Ops /\ GetLock \in Locks
    BY LockTypes DEF Ops
  <2>4. jobs' \in Seq(Job) /\ reply' \in [Callers -> Replies]
        /\ pc' \in [Callers -> PCs] /\ lock' \in Locks
    BY <2>1, <2>2, <2>3, AcquireTypes
  <2> QED BY <1>1, <2>1, <2>2, <2>3, <2>4 DEF RecordEvent, Begin, TypeOK
<1>2. CASE RecordBatch(c)
  <2>1. PICK b \in Batches :
          Begin(c, "record_events_batch", b) /\ Acquire(c, lock, "record_events_batch", b)
    BY <1>2 DEF RecordBatch
  <2>2. b \in Seq(Ids) \ {<<>>} /\ IdsOf(b) \subseteq Ids
    BY BatchesAssumption DEF IdsOf
  <2>3. "record_events_batch" \in Ops /\ lock \in Locks
    BY DEF Ops, TypeOK
  <2>4. jobs' \in Seq(Job) /\ reply' \in [Callers -> Replies]
        /\ pc' \in [Callers -> PCs] /\ lock' \in Locks
    BY <2>1, <2>2, <2>3, AcquireTypes
  <2> QED BY <1>2, <2>1, <2>2, <2>3, <2>4 DEF RecordBatch, Begin, TypeOK
<1>3. CASE Acquired(c)
  <2>1. rows[c] \in Seq(Ids) \ {<<>>}
    BY <1>3, RowsOfCall DEF Acquired, InCall
  <2>2. {rows[c][1]} \in SUBSET Ids
    BY <2>1
  <2>3. jobs' \in Seq(Job) /\ reply' \in [Callers -> Replies] /\ pc' \in [Callers -> PCs]
    BY <1>3, <2>2, IssueTypes DEF Acquired, IssueFirst
  <2> QED BY <1>3, <2>3 DEF Acquired, TypeOK
<1>4. CASE Begun(c)
  <2>1. {rows[c][1]} \in SUBSET Ids
    BY <1>4, RowsOfCall DEF Begun, InCall
  <2>2. jobs' \in Seq(Job) /\ reply' \in [Callers -> Replies] /\ pc' \in [Callers -> PCs]
    BY <1>4, <2>1, IssueTypes DEF Begun
  <2> QED BY <1>4, <2>2 DEF Begun, TypeOK
<1>5. CASE NextInsert(c)
  <2>1. {rows[c][next[c] + 1]} \in SUBSET Ids
    BY <1>5 DEF NextInsert, TypeOK
  <2>2. jobs' \in Seq(Job) /\ reply' \in [Callers -> Replies] /\ pc' \in [Callers -> PCs]
    BY <1>5, <2>1, IssueTypes DEF NextInsert
  <2>3. next' \in [Callers -> Nat]
    BY <1>5 DEF NextInsert, TypeOK
  <2> QED BY <1>5, <2>2, <2>3 DEF NextInsert, TypeOK
<1>6. CASE IssueCommit(c)
  <2>1. jobs' \in Seq(Job) /\ reply' \in [Callers -> Replies] /\ pc' \in [Callers -> PCs]
    BY <1>6, IssueTypes DEF IssueCommit
  <2> QED BY <1>6, <2>1 DEF IssueCommit, TypeOK
<1>7. CASE Committed(c)
  <2>1. lock' \in Locks /\ IdsOf(rows[c]) \subseteq Ids
    BY <1>7, LockTypes DEF Committed, IdsOf, TypeOK
  <2> QED BY <1>7, <2>1, FinishTypes DEF Committed, TypeOK
<1>8. CASE BackOff(c)
  <2>1. lock' \in Locks
    BY <1>8, LockTypes DEF BackOff
  <2>2. attempt' \in [Callers -> 1..MaxRetries]
    BY <1>8, RetriesAssumption DEF BackOff, TypeOK
  <2> QED BY <1>8, <2>1, <2>2 DEF BackOff, TypeOK, PCs
<1>9. CASE Retry(c)
  <2>1. rows[c] \in Seq(Ids) \ {<<>>} /\ op[c] \in Ops
    BY <1>9, RowsOfCall DEF Retry, InCall, TypeOK
  <2>2. GetLock \in Locks
    BY LockTypes
  <2>3. jobs' \in Seq(Job) /\ reply' \in [Callers -> Replies]
        /\ pc' \in [Callers -> PCs] /\ lock' \in Locks
    BY <1>9, <2>1, <2>2, AcquireTypes DEF Retry
  <2> QED BY <1>9, <2>3 DEF Retry, TypeOK
<1>10. CASE Raise(c)
  <2>1. lock' \in Locks /\ IdsOf(rows[c]) \subseteq Ids
    BY <1>10, LockTypes DEF Raise, IdsOf, TypeOK
  <2> QED BY <1>10, <2>1, FinishTypes DEF Raise, TypeOK
<1>11. CASE Cancel(c)
  <2>1. lock' \in Locks
    BY <1>11, LockTypes
  <2>2. jobs' \in Seq(Job)
    BY <1>11, OrphanTypes DEF Cancel, TypeOK
  <2> QED BY <1>11, <2>1, <2>2, FinishTypes DEF Cancel, TypeOK
<1> QED BY <1>1, <1>2, <1>3, <1>4, <1>5, <1>6, <1>7, <1>8, <1>9, <1>10, <1>11
        DEF Call, Resume

\* So does every job of the worker thread.
LEMMA WorkerTypeOK ==
  ASSUME TypeOK, Worker
  PROVE  TypeOK'
<1> USE DEF db, hist
<1>1. ASSUME jobs # <<>>, NEW r \in Replies, Reply(r)
      PROVE  /\ jobs' \in Seq(Job)
             /\ reply' \in [Callers -> Replies]
             /\ UNCHANGED <<pc, op, rows, next, attempt, lock, hist>>
  <2>1. jobs' \in Seq(Job)
    BY <1>1, HeadTailProperties DEF Reply, TypeOK
  <2> QED BY <1>1, <2>1 DEF Reply, TypeOK
<1>2. jobs # <<>> /\ Head(jobs).ins \subseteq Ids
  <2>1. jobs # <<>>
    BY DEF Worker, DbBegin, DbInsert, DbCommit, Running
  <2>2. Head(jobs) \in Job
    BY <2>1, HeadTailProperties DEF TypeOK
  <2> QED BY <2>1, <2>2 DEF Job
<1>3. "ok" \in Replies /\ "busy" \in Replies /\ "unique" \in Replies /\ "nested" \in Replies
  BY DEF Replies
<1>4. CASE DbBegin
  BY <1>1, <1>2, <1>3, <1>4 DEF DbBegin, TypeOK
<1>5. CASE DbInsert
  BY <1>1, <1>2, <1>3, <1>5 DEF DbInsert, TypeOK
<1>6. CASE DbCommit
  BY <1>1, <1>2, <1>3, <1>6 DEF DbCommit, TypeOK
<1> QED BY <1>4, <1>5, <1>6 DEF Worker

\* A step of one caller leaves every other caller alone.
OthersKept(c) ==
  \A d \in Callers \ {c} : /\ pc'[d] = pc[d]
                           /\ op'[d] = op[d]
                           /\ rows'[d] = rows[d]
                           /\ next'[d] = next[d]
                           /\ reply'[d] = reply[d]

LEMMA OneCallerMoves ==
  ASSUME TypeOK, NEW c \in Callers, Call(c) \/ Resume(c) \/ Cancel(c)
  PROVE  OthersKept(c)
<1> USE DEF TypeOK, OthersKept
<1>1. CASE Call(c)
  BY <1>1 DEF Call, RecordEvent, RecordBatch, Begin, Acquire, Issue, IssueFirst
<1>2. CASE Acquired(c) \/ Begun(c) \/ NextInsert(c) \/ IssueCommit(c)
  BY <1>2 DEF Acquired, Begun, NextInsert, IssueCommit, Issue, IssueFirst
<1>3. CASE Committed(c) \/ BackOff(c) \/ Raise(c)
  BY <1>3 DEF Committed, BackOff, Raise, Finish
<1>4. CASE Retry(c)
  BY <1>4 DEF Retry, Acquire, Issue, IssueFirst
<1>5. CASE Cancel(c)
  BY <1>5 DEF Cancel, Finish
<1> QED BY <1>1, <1>2, <1>3, <1>4, <1>5 DEF Resume

\* next stays inside the rows of the call.
LEMMA RangeStep ==
  ASSUME TypeOK, NextInRange, [Next]_vars
  PROVE  NextInRange'
<1> USE DEF InCall, NextInRange, TypeOK, ctl
<1>1. CASE Worker
  BY <1>1 DEF Worker, DbBegin, DbInsert, DbCommit, Reply
<1>2. CASE UNCHANGED vars
  BY <1>2 DEF vars
<1>3. ASSUME NEW c \in Callers, Call(c) \/ Resume(c) \/ Cancel(c)
      PROVE  NextInRange'
  <2> SUFFICES /\ InCall(c)' => next'[c] \in 1..Len(rows'[c])
               /\ InCall(c)' /\ op'[c] = "record_event" => Len(rows'[c]) = 1
               /\ pc'[c] \notin {"insert", "commit"} => next'[c] = 1
    <3>1. OthersKept(c)
      BY <1>3, OneCallerMoves
    <3> SUFFICES ASSUME NEW d \in Callers \ {c}
                 PROVE  /\ InCall(d)' => next'[d] \in 1..Len(rows'[d])
                        /\ InCall(d)' /\ op'[d] = "record_event" => Len(rows'[d]) = 1
                        /\ pc'[d] \notin {"insert", "commit"} => next'[d] = 1
      OBVIOUS
    <3> QED BY <3>1 DEF OthersKept
  <2>1. CASE RecordEvent(c)
    <3>1. PICK u \in Uuids \ submitted :
            /\ rows' = [rows EXCEPT ![c] = <<u>>]
            /\ Acquire(c, GetLock, "record_event", <<u>>)
      BY <2>1 DEF RecordEvent, Begin
    <3>2. next'[c] = 1 /\ rows'[c] = <<u>> /\ Len(<<u>>) = 1
      BY <2>1, <3>1 DEF RecordEvent
    <3> QED BY <3>2
  <2>2. CASE RecordBatch(c)
    <3>1. PICK b \in Batches : rows' = [rows EXCEPT ![c] = b] /\ op' = [op EXCEPT ![c] = "record_events_batch"]
      BY <2>2 DEF RecordBatch, Begin
    <3>2. 1 \in 1..Len(b)
      <4>1. b \in Seq(Ids) /\ b # <<>>
        BY BatchesAssumption
      <4> QED BY <4>1, EmptySeq
    <3>3. next'[c] = 1 /\ rows'[c] = b /\ op'[c] = "record_events_batch"
      BY <2>2, <3>1 DEF RecordBatch
    <3> QED BY <3>2, <3>3
  <2>3. CASE Cancel(c)
    BY <2>3 DEF Cancel, Finish
  <2>4. CASE NextInsert(c)
    <3>0. InCall(c) /\ next[c] < Len(rows[c])
      BY <2>4 DEF NextInsert
    <3>1. next[c] \in 1..Len(rows[c]) /\ Len(rows[c]) \in Nat /\ next[c] < Len(rows[c])
      BY <3>0, RowsOfCall
    <3>2. next'[c] = next[c] + 1 /\ rows'[c] = rows[c] /\ op'[c] = op[c]
      BY <2>4 DEF NextInsert
    <3>3. pc'[c] = "insert" /\ pc[c] = "insert"
      BY <2>4 DEF NextInsert, Issue
    <3>4. next'[c] \in 1..Len(rows'[c])
      BY <3>1, <3>2
    <3> QED BY <3>2, <3>3, <3>4
  <2>5. CASE Acquired(c) \/ Begun(c) \/ IssueCommit(c)
    BY <2>5 DEF Acquired, Begun, IssueCommit, IssueFirst, Issue
  <2>6. CASE Committed(c) \/ Raise(c)
    BY <2>6 DEF Committed, Raise, Finish
  <2>7. CASE BackOff(c)
    <3>1. rows'[c] = rows[c] /\ next'[c] = next[c] /\ op'[c] = op[c] /\ InCall(c)
      BY <2>7 DEF BackOff
    <3>2. Len(rows[c]) = 1 /\ next[c] \in 1..Len(rows[c])
      BY <2>7, <3>1 DEF BackOff
    <3>3. next[c] = 1
      BY <3>2
    <3> QED BY <3>1, <3>2, <3>3
  <2>8. CASE Retry(c)
    BY <2>8 DEF Retry, Acquire, Issue, IssueFirst
  <2> QED BY <1>3, <2>1, <2>2, <2>3, <2>4, <2>5, <2>6, <2>7, <2>8 DEF Call, Resume
<1> QED BY <1>1, <1>2, <1>3 DEF Next

\* The variables keep their types in every behaviour.
THEOREM TypeCorrect == Spec => []TypeOK
<1>1. Init => TypeOK /\ NextInRange
  BY InitTypeOK DEF Init, NextInRange, InCall
<1>2. TypeOK /\ NextInRange /\ [Next]_vars => TypeOK' /\ NextInRange'
  <2> SUFFICES ASSUME TypeOK, NextInRange, [Next]_vars PROVE TypeOK'
    BY RangeStep
  <2>1. CASE UNCHANGED vars
    BY <2>1 DEF vars, ctl, db, hist, TypeOK
  <2> QED BY <2>1, CallerTypeOK, WorkerTypeOK DEF Next
<1> QED BY <1>1, <1>2, PTL DEF Spec

(***************************************************************************)
(* The job queue.                                                          *)
(***************************************************************************)
NoJobOf(c) == \A i \in 1..Len(jobs) : jobs[i].who # c

\* A task that is not awaiting a statement's reply has no job in the queue.
LEMMA IdleHasNoJob ==
  ASSUME TypeOK, JobsOwned, NEW c \in Callers,
         pc[c] \notin {"begin", "insert", "commit"} \/ reply[c] # "none"
  PROVE  NoJobOf(c)
<1> SUFFICES ASSUME NEW i \in 1..Len(jobs), jobs[i].who = c PROVE FALSE
  BY DEF NoJobOf
<1>1. jobs[i] \in Job
  BY ElementOfSeq DEF TypeOK
<1>2. pc[c] = jobs[i].do /\ reply[c] = "none"
  BY DEF JobsOwned
<1> QED BY <1>1, <1>2 DEF Job

\* Queuing a statement of a caller without one keeps JobsOwned.
LEMMA IssueOwned ==
  ASSUME TypeOK, JobsOwned, NEW c \in Callers, NoJobOf(c), OthersKept(c),
         NEW what \in {"begin", "insert", "commit"}, NEW ins \in SUBSET Ids,
         Issue(c, what, ins), what = "insert" => ins = {rows'[c][next'[c]]}
  PROVE  JobsOwned'
<1> DEFINE new == [who |-> c, do |-> what, ins |-> ins]
           n == Len(jobs)
<1>1. new \in Job
  BY DEF Job
<1>2. /\ Len(jobs') = n + 1
      /\ \A i \in 1..n : jobs'[i] = jobs[i]
      /\ jobs'[n + 1] = new
      /\ n \in Nat
  BY <1>1, AppendProperties DEF Issue, TypeOK
<1>3. pc'[c] = what /\ reply'[c] = "none"
  BY DEF Issue, TypeOK
<1>4. ASSUME NEW i \in 1..Len(jobs'), jobs'[i].who \in Callers
      PROVE  LET d == jobs'[i].who
             IN  /\ pc'[d] = jobs'[i].do
                 /\ reply'[d] = "none"
                 /\ pc'[d] = "insert" => jobs'[i].ins = {rows'[d][next'[d]]}
  <2>1. CASE i = n + 1
    BY <1>2, <1>3, <2>1
  <2>2. CASE i \in 1..n
    <3>1. jobs'[i] = jobs[i] /\ jobs[i].who \in Callers \ {c}
      BY <1>2, <1>4, <2>2 DEF NoJobOf
    <3> QED BY <3>1, <2>2 DEF JobsOwned, OthersKept
  <2> QED BY <1>2, <2>1, <2>2
<1>5. ASSUME NEW i \in 1..Len(jobs'), NEW k \in 1..Len(jobs'),
             jobs'[i].who \in Callers, jobs'[i].who = jobs'[k].who
      PROVE  i = k
  <2>1. CASE i \in 1..n /\ k \in 1..n
    BY <1>2, <1>5, <2>1 DEF JobsOwned
  <2>2. CASE i = n + 1 \/ k = n + 1
    BY <1>2, <1>5, <2>2 DEF NoJobOf
  <2> QED BY <1>2, <2>1, <2>2
<1> QED BY <1>4, <1>5 DEF JobsOwned

\* A step of a caller without a job that does not touch the queue keeps it.
LEMMA QuietOwned ==
  ASSUME JobsOwned, NEW c \in Callers, NoJobOf(c), OthersKept(c), jobs' = jobs
  PROVE  JobsOwned'
<1>1. ASSUME NEW i \in 1..Len(jobs), jobs[i].who \in Callers
      PROVE  LET d == jobs[i].who
             IN  /\ pc'[d] = jobs[i].do
                 /\ reply'[d] = "none"
                 /\ pc'[d] = "insert" => jobs[i].ins = {rows'[d][next'[d]]}
  <2>1. jobs[i].who \in Callers \ {c}
    BY <1>1 DEF NoJobOf
  <2> QED BY <2>1, <1>1 DEF JobsOwned, OthersKept
<1> QED BY <1>1 DEF JobsOwned

\* A step of a caller keeps JobsOwned.
LEMMA CallerOwned ==
  ASSUME TypeOK, NextInRange, JobsOwned, NEW c \in Callers,
         Call(c) \/ Resume(c) \/ Cancel(c)
  PROVE  JobsOwned'
<1>0. OthersKept(c)
  BY OneCallerMoves
<1>1. ASSUME NoJobOf(c), NEW l, NEW o \in Ops, NEW r \in Seq(Ids) \ {<<>>},
             Acquire(c, l, o, r), rows'[c] = r, next'[c] = 1
      PROVE  JobsOwned'
  <2>1. CASE IssueFirst(c, o, r)
    <3>1. {r[1]} \in SUBSET Ids
      BY <1>1
    <3>2. CASE o = "record_event"
      BY <1>0, <1>1, <2>1, <3>1, <3>2, IssueOwned DEF IssueFirst
    <3>3. CASE o # "record_event"
      BY <1>0, <1>1, <2>1, <3>3, IssueOwned DEF IssueFirst
    <3> QED BY <3>2, <3>3
  <2>2. CASE UNCHANGED <<jobs, reply>>
    BY <1>0, <1>1, <2>2, QuietOwned
  <2> QED BY <1>1, <2>1, <2>2 DEF Acquire
<1>2. CASE RecordEvent(c)
  <2>1. PICK u \in Uuids \ submitted :
          Begin(c, "record_event", <<u>>) /\ Acquire(c, GetLock, "record_event", <<u>>)
    BY <1>2 DEF RecordEvent
  <2>2. <<u>> \in Seq(Ids) \ {<<>>} /\ "record_event" \in Ops
    BY DEF Ids, Ops
  <2>3. rows'[c] = <<u>> /\ next'[c] = 1
    BY <1>2, <2>1 DEF RecordEvent, Begin, TypeOK, NextInRange
  <2>4. NoJobOf(c)
    BY <1>2, IdleHasNoJob DEF RecordEvent
  <2> QED BY <1>1, <2>1, <2>2, <2>3, <2>4
<1>3. CASE RecordBatch(c)
  <2>1. PICK b \in Batches :
          Begin(c, "record_events_batch", b) /\ Acquire(c, lock, "record_events_batch", b)
    BY <1>3 DEF RecordBatch
  <2>2. b \in Seq(Ids) \ {<<>>} /\ "record_events_batch" \in Ops
    BY BatchesAssumption DEF Ops
  <2>3. rows'[c] = b /\ next'[c] = 1
    BY <1>3, <2>1 DEF RecordBatch, Begin, TypeOK, NextInRange
  <2>4. NoJobOf(c)
    BY <1>3, IdleHasNoJob DEF RecordBatch
  <2> QED BY <1>1, <2>1, <2>2, <2>3, <2>4
<1>4. CASE Acquired(c)
  <2>1. NoJobOf(c) /\ InCall(c)
    BY <1>4, IdleHasNoJob DEF Acquired, InCall
  <2>2. next'[c] = 1 /\ rows'[c] = rows[c] /\ {rows[c][1]} \in SUBSET Ids
    BY <1>4, <2>1, RowsOfCall DEF Acquired, NextInRange
  <2>3. CASE op[c] = "record_event"
    BY <1>0, <1>4, <2>1, <2>2, <2>3, IssueOwned DEF Acquired, IssueFirst
  <2>4. CASE op[c] # "record_event"
    BY <1>0, <1>4, <2>1, <2>2, <2>4, IssueOwned DEF Acquired, IssueFirst
  <2> QED BY <2>3, <2>4
<1>5. CASE Begun(c)
  <2>1. NoJobOf(c) /\ InCall(c)
    BY <1>5, IdleHasNoJob DEF Begun, InCall
  <2>2. next'[c] = 1 /\ rows'[c] = rows[c] /\ {rows[c][1]} \in SUBSET Ids
    BY <1>5, <2>1, RowsOfCall DEF Begun, NextInRange
  <2> QED BY <1>0, <1>5, <2>1, <2>2, IssueOwned DEF Begun
<1>6. CASE NextInsert(c)
  <2>1. NoJobOf(c) /\ InCall(c)
    BY <1>6, IdleHasNoJob DEF NextInsert, InCall
  <2>2. next'[c] = next[c] + 1 /\ rows'[c] = rows[c]
    BY <1>6 DEF NextInsert, TypeOK
  <2>3. {rows[c][next[c] + 1]} \in SUBSET Ids
    <3>1. next[c] + 1 \in 1..Len(rows[c])
      BY <1>6, <2>1, RowsOfCall DEF NextInsert
    <3> QED BY <2>1, <3>1, RowsOfCall, ElementOfSeq
  <2> QED BY <1>0, <1>6, <2>1, <2>2, <2>3, IssueOwned DEF NextInsert
<1>7. CASE IssueCommit(c)
  <2>1. NoJobOf(c)
    BY <1>7, IdleHasNoJob DEF IssueCommit
  <2> QED BY <1>0, <1>7, <2>1, IssueOwned DEF IssueCommit
<1>8. CASE Committed(c) \/ BackOff(c) \/ Raise(c)
  <2>1. NoJobOf(c) /\ jobs' = jobs
    BY <1>8, IdleHasNoJob DEF Committed, BackOff, Raise
  <2> QED BY <1>0, <2>1, QuietOwned
<1>9. CASE Retry(c)
  <2>1. NoJobOf(c) /\ InCall(c)
    BY <1>9, IdleHasNoJob DEF Retry, InCall
  <2>2. rows[c] \in Seq(Ids) \ {<<>>} /\ op[c] \in Ops
    BY <2>1, RowsOfCall DEF TypeOK
  <2>3. rows'[c] = rows[c] /\ next'[c] = 1
    BY <1>9 DEF Retry, NextInRange
  <2> QED BY <1>1, <1>9, <2>1, <2>2, <2>3 DEF Retry
<1>10. CASE Cancel(c)
  <2>1. /\ Len(jobs') = Len(jobs)
        /\ \A i \in 1..Len(jobs) : jobs[i] \in Job
        /\ \A i \in 1..Len(jobs) :
             jobs'[i] = IF jobs[i].who = c THEN [jobs[i] EXCEPT !.who = NoOne] ELSE jobs[i]
    <3>1. jobs' = Orphan(c) /\ Len(jobs) \in Nat
      BY <1>10 DEF Cancel, TypeOK
    <3>2. \A i \in 1..Len(jobs) : jobs[i] \in Job
      BY ElementOfSeq DEF TypeOK
    <3> QED BY <3>1, <3>2 DEF Orphan
  <2>2. \A i \in 1..Len(jobs) : jobs'[i].who \in Callers =>
          jobs'[i] = jobs[i] /\ jobs[i].who \in Callers \ {c}
    <3> SUFFICES ASSUME NEW i \in 1..Len(jobs), jobs'[i].who \in Callers
                 PROVE  jobs'[i] = jobs[i] /\ jobs[i].who \in Callers \ {c}
      OBVIOUS
    <3>1. CASE jobs[i].who = c
      <4>1. jobs'[i].who = NoOne
        BY <2>1, <3>1 DEF Job
      <4> QED BY <4>1, NoOneAssumption
    <3>2. CASE jobs[i].who # c
      BY <2>1, <3>2
    <3> QED BY <3>1, <3>2
  <2>3. ASSUME NEW i \in 1..Len(jobs), jobs'[i].who \in Callers
        PROVE  LET d == jobs'[i].who
               IN  /\ pc'[d] = jobs'[i].do
                   /\ reply'[d] = "none"
                   /\ pc'[d] = "insert" => jobs'[i].ins = {rows'[d][next'[d]]}
    BY <1>0, <2>2, <2>3 DEF JobsOwned, OthersKept
  <2>4. ASSUME NEW i \in 1..Len(jobs), NEW k \in 1..Len(jobs),
               jobs'[i].who \in Callers, jobs'[i].who = jobs'[k].who
        PROVE  i = k
    BY <2>2, <2>4 DEF JobsOwned
  <2> QED BY <2>1, <2>3, <2>4 DEF JobsOwned
<1> QED BY <1>2, <1>3, <1>4, <1>5, <1>6, <1>7, <1>8, <1>9, <1>10 DEF Call, Resume

\* What a job of the worker thread does to the control state: the queue loses
\* its head, whose task, if it still waits, gets a reply.
LEMMA WorkerMoves ==
  ASSUME TypeOK, Worker
  PROVE  /\ jobs # <<>>
         /\ Head(jobs) = jobs[1] /\ jobs[1] \in Job /\ 1 \in 1..Len(jobs)
         /\ Len(jobs') = Len(jobs) - 1 /\ Len(jobs) \in Nat
         /\ \A i \in 1..Len(jobs') : jobs'[i] = jobs[i + 1] /\ i + 1 \in 1..Len(jobs)
         /\ UNCHANGED <<pc, op, rows, next, hist>>
         /\ \A c \in Callers : c # jobs[1].who => reply'[c] = reply[c]
<1>1. jobs # <<>> /\ jobs' = Tail(jobs) /\ UNCHANGED <<pc, op, rows, next, hist>>
  BY DEF Worker, DbBegin, DbInsert, DbCommit, Running, Reply
<1>2. jobs \in Seq(Job) /\ Len(jobs) \in Nat /\ Len(jobs) # 0
  BY <1>1, EmptySeq DEF TypeOK
<1>3. Head(jobs) = jobs[1] /\ jobs[1] \in Job /\ 1 \in 1..Len(jobs)
  BY <1>2, ElementOfSeq
<1>4. /\ Len(jobs') = Len(jobs) - 1
      /\ \A i \in 1..Len(jobs') : jobs'[i] = jobs[i + 1] /\ i + 1 \in 1..Len(jobs)
  BY <1>1, <1>2, HeadTailProperties
<1>5. \A c \in Callers : c # jobs[1].who => reply'[c] = reply[c]
  BY <1>3 DEF Worker, DbBegin, DbInsert, DbCommit, Reply, TypeOK
<1> QED BY <1>1, <1>2, <1>3, <1>4, <1>5

LEMMA WorkerOwned ==
  ASSUME TypeOK, JobsOwned, Worker
  PROVE  JobsOwned'
<1>1. ASSUME NEW i \in 1..Len(jobs'), jobs'[i].who \in Callers
      PROVE  LET c == jobs'[i].who
             IN  /\ pc'[c] = jobs'[i].do
                 /\ reply'[c] = "none"
                 /\ pc'[c] = "insert" => jobs'[i].ins = {rows'[c][next'[c]]}
  <2>1. jobs'[i] = jobs[i + 1] /\ i + 1 \in 1..Len(jobs) /\ i + 1 # 1 /\ 1 \in 1..Len(jobs)
    BY WorkerMoves
  <2>2. jobs[i + 1].who # jobs[1].who
    BY <1>1, <2>1 DEF JobsOwned
  <2> QED BY <1>1, <2>1, <2>2, WorkerMoves DEF JobsOwned
<1>2. ASSUME NEW i \in 1..Len(jobs'), NEW k \in 1..Len(jobs'),
             jobs'[i].who \in Callers, jobs'[i].who = jobs'[k].who
      PROVE  i = k
  <2>1. /\ jobs'[i] = jobs[i + 1] /\ i + 1 \in 1..Len(jobs)
        /\ jobs'[k] = jobs[k + 1] /\ k + 1 \in 1..Len(jobs)
    BY WorkerMoves
  <2>2. i + 1 = k + 1
    BY <1>2, <2>1 DEF JobsOwned
  <2> QED BY <2>2
<1> QED BY <1>1, <1>2 DEF JobsOwned

(***************************************************************************)
(* The rows.                                                               *)
(***************************************************************************)
RowInv == InsertedKept /\ CommitDurable /\ RowsSubmitted /\ AckedDurable

\* A job of the worker thread keeps every inserted row in the transaction or
\* in the file, and moves the whole transaction into the file at a commit.
LEMMA WorkerRows ==
  ASSUME TypeOK, NextInRange, JobsOwned, RowInv, Worker
  PROVE  RowInv'
<1> DEFINE j == jobs[1]
<1>0. /\ pending \cup durable \subseteq pending' \cup durable'
      /\ durable \subseteq durable'
  BY DEF Worker, DbBegin, DbInsert, DbCommit
<1>1. \A c \in Callers : reply'[c] # reply[c] =>
        /\ c = j.who /\ reply[c] = "none" /\ pc[c] = j.do
        /\ pc[c] = "insert" => j.ins = {rows[c][next[c]]}
  BY WorkerMoves DEF JobsOwned
<1>2. InsertedKept'
  <2> SUFFICES ASSUME NEW c \in Callers, NEW i \in 1..Len(rows'[c]), Inserted(c, i)'
               PROVE  rows'[c][i] \in pending' \cup durable'
    BY DEF InsertedKept
  <2>1. UNCHANGED <<pc, rows, next>>
    BY WorkerMoves
  <2>2. CASE Inserted(c, i)
    BY <1>0, <2>1, <2>2 DEF RowInv, InsertedKept
  <2>3. CASE ~Inserted(c, i)
    <3>1. pc[c] = "insert" /\ i = next[c] /\ reply'[c] = "ok" /\ reply[c] # "ok"
      BY <2>1, <2>3 DEF Inserted
    <3>2. j.do = "insert" /\ j.who = c /\ j.ins = {rows[c][i]}
      BY <1>1, <3>1
    <3>3. DbInsert
      BY <3>2, WorkerMoves DEF Worker, DbBegin, DbCommit, Running
    <3>4. pending' = pending \cup j.ins
      BY <3>1, <3>2, <3>3, WorkerMoves DEF DbInsert, Reply, TypeOK
    <3> QED BY <2>1, <3>2, <3>4
  <2> QED BY <2>2, <2>3
<1>3. CommitDurable'
  <2> SUFFICES ASSUME NEW c \in Callers, pc'[c] = "commit", reply'[c] = "ok"
               PROVE  IdsOf(rows'[c]) \subseteq durable'
    BY DEF CommitDurable
  <2>1. UNCHANGED <<pc, rows, next>>
    BY WorkerMoves
  <2>2. CASE reply[c] = "ok"
    BY <1>0, <2>1, <2>2 DEF RowInv, CommitDurable
  <2>3. CASE reply[c] # "ok"
    <3>1. j.do = "commit"
      BY <1>1, <2>1, <2>3
    <3>2. DbCommit
      BY <3>1, WorkerMoves DEF Worker, DbBegin, DbInsert, Running
    <3>3. durable' = pending \cup durable
      BY <3>2 DEF DbCommit
    <3>4. \A i \in 1..Len(rows[c]) : rows[c][i] \in pending \cup durable
      BY <2>1 DEF RowInv, InsertedKept, Inserted
    <3> QED BY <2>1, <3>3, <3>4 DEF IdsOf
  <2> QED BY <2>2, <2>3
<1>4. RowsSubmitted'
  <2>1. UNCHANGED <<rows, submitted>>
    BY WorkerMoves DEF hist
  <2>2. j.ins \subseteq submitted
    BY WorkerMoves DEF RowInv, RowsSubmitted
  <2>3. pending' \cup durable' \subseteq pending \cup durable \cup j.ins
    BY WorkerMoves DEF Worker, DbBegin, DbInsert, DbCommit
  <2>4. \A i \in 1..Len(jobs') : jobs'[i].ins \subseteq submitted
    BY WorkerMoves DEF RowInv, RowsSubmitted
  <2> QED BY <2>1, <2>2, <2>3, <2>4 DEF RowInv, RowsSubmitted
<1>5. AckedDurable'
  BY <1>0, WorkerMoves DEF RowInv, AckedDurable, hist
<1> QED BY <1>2, <1>3, <1>4, <1>5 DEF RowInv

\* A step of a caller leaves the database alone; what it newly claims to have
\* inserted or committed, the replies it got support.
LEMMA CallerRows ==
  ASSUME TypeOK, NextInRange, JobsOwned, RowInv, NEW c \in Callers,
         Call(c) \/ Resume(c) \/ Cancel(c)
  PROVE  RowInv'
<1>0. OthersKept(c) /\ UNCHANGED <<pending, durable>>
  <2>1. UNCHANGED <<pending, durable>>
    BY DEF Call, RecordEvent, RecordBatch, Resume, Acquired, Begun, NextInsert,
           IssueCommit, Committed, BackOff, Retry, Raise, Cancel, db
  <2> QED BY <2>1, OneCallerMoves
<1>1. InsertedKept'
  <2> SUFFICES ASSUME NEW i \in 1..Len(rows'[c]), Inserted(c, i)'
               PROVE  rows'[c][i] \in pending \cup durable
    BY <1>0 DEF RowInv, InsertedKept, Inserted, OthersKept
  <2>1. CASE IssueCommit(c)
    <3>1. rows'[c] = rows[c] /\ InCall(c)
      BY <2>1 DEF IssueCommit, InCall
    <3>2. i < next[c] \/ i = next[c]
      BY <2>1, <3>1, RowsOfCall DEF IssueCommit
    <3>3. Inserted(c, i)
      BY <2>1, <3>2 DEF IssueCommit, Inserted
    <3> QED BY <3>1, <3>3 DEF RowInv, InsertedKept
  <2>2. CASE NextInsert(c)
    <3>1. rows'[c] = rows[c] /\ next'[c] = next[c] + 1 /\ InCall(c) /\ reply'[c] = "none"
          /\ pc'[c] = "insert"
      BY <2>2 DEF NextInsert, Issue, InCall, TypeOK
    <3>2. i < next[c] + 1 /\ next[c] \in Nat /\ i \in Nat
      BY <3>1, RowsOfCall DEF Inserted
    <3>3. Inserted(c, i)
      <4>1. i < next[c] \/ i = next[c]
        BY <3>2
      <4> QED BY <2>2, <4>1 DEF NextInsert, Inserted
    <3> QED BY <3>1, <3>3 DEF RowInv, InsertedKept
  <2>3. CASE RecordEvent(c) \/ RecordBatch(c) \/ Acquired(c) \/ Begun(c) \/ Retry(c)
    <3>1. next'[c] = 1 /\ (pc'[c] = "insert" => reply'[c] = "none") /\ pc'[c] # "commit"
      BY <2>3 DEF RecordEvent, RecordBatch, Acquired, Begun, Retry, Acquire, IssueFirst,
                  Issue, NextInRange, TypeOK
    <3>2. FALSE
      BY <3>1 DEF Inserted
    <3> QED BY <3>2
  <2>4. CASE Committed(c) \/ BackOff(c) \/ Raise(c) \/ Cancel(c)
    BY <2>4 DEF Committed, BackOff, Raise, Cancel, Finish, Inserted, TypeOK
  <2> QED BY <2>1, <2>2, <2>3, <2>4 DEF Call, Resume
<1>2. CommitDurable'
  <2> SUFFICES ASSUME pc'[c] = "commit", reply'[c] = "ok"
               PROVE  FALSE
    BY <1>0 DEF RowInv, CommitDurable, OthersKept
  <2>1. CASE Call(c) \/ Acquired(c) \/ Retry(c)
    BY <2>1 DEF Call, RecordEvent, RecordBatch, Acquired, Retry, Acquire, IssueFirst,
                Issue, TypeOK
  <2>2. CASE Begun(c) \/ NextInsert(c) \/ IssueCommit(c)
    BY <2>2 DEF Begun, NextInsert, IssueCommit, Issue, TypeOK
  <2>3. CASE Committed(c) \/ BackOff(c) \/ Raise(c) \/ Cancel(c)
    BY <2>3 DEF Committed, BackOff, Raise, Cancel, Finish, TypeOK
  <2> QED BY <2>1, <2>2, <2>3 DEF Resume
<1>3. RowsSubmitted'
  <2>1. submitted \subseteq submitted' /\ IdsOf(rows'[c]) \subseteq submitted'
    <3>1. CASE Call(c)
      BY <3>1 DEF Call, RecordEvent, RecordBatch, Begin, TypeOK
    <3>2. CASE Acquired(c) \/ Begun(c) \/ NextInsert(c) \/ IssueCommit(c) \/ BackOff(c) \/ Retry(c)
      BY <3>2 DEF Acquired, Begun, NextInsert, IssueCommit, BackOff, Retry, hist,
                  RowInv, RowsSubmitted
    <3>3. CASE Committed(c) \/ Raise(c) \/ Cancel(c)
      <4>1. submitted' = submitted /\ rows'[c] = <<>>
        BY <3>3 DEF Committed, Raise, Cancel, Finish, hist, TypeOK
      <4> QED BY <4>1 DEF IdsOf
    <3> QED BY <3>1, <3>2, <3>3 DEF Resume
  <2>2. ASSUME NEW what \in {"begin", "insert", "commit"}, NEW ins \in SUBSET Ids,
               Issue(c, what, ins), ins \subseteq submitted'
        PROVE  \A i \in 1..Len(jobs') : jobs'[i].ins \subseteq submitted'
    <3>1. [who |-> c, do |-> what, ins |-> ins] \in Job
      BY DEF Job
    <3>2. /\ Len(jobs') = Len(jobs) + 1 /\ Len(jobs) \in Nat
          /\ \A i \in 1..Len(jobs) : jobs'[i] = jobs[i]
          /\ jobs'[Len(jobs) + 1].ins = ins
      BY <2>2, <3>1, AppendProperties DEF Issue, TypeOK
    <3> QED BY <2>1, <2>2, <3>2 DEF RowInv, RowsSubmitted
  <2>3. ASSUME NEW l, NEW o \in Ops, NEW r \in Seq(Ids) \ {<<>>},
               Acquire(c, l, o, r), IdsOf(r) \subseteq submitted'
        PROVE  \A i \in 1..Len(jobs') : jobs'[i].ins \subseteq submitted'
    <3>1. {r[1]} \in SUBSET Ids /\ {r[1]} \subseteq IdsOf(r)
      <4>1. 1 \in 1..Len(r)
        BY EmptySeq
      <4> QED BY <4>1, ElementOfSeq DEF IdsOf
    <3>2. CASE IssueFirst(c, o, r)
      BY <2>2, <2>3, <3>1, <3>2 DEF IssueFirst
    <3>3. CASE UNCHANGED jobs
      BY <2>1, <3>3 DEF RowInv, RowsSubmitted
    <3> QED BY <2>3, <3>2, <3>3 DEF Acquire
  <2>4. \A i \in 1..Len(jobs') : jobs'[i].ins \subseteq submitted'
    <3>1. CASE RecordEvent(c)
      <4>1. PICK u \in Uuids \ submitted :
              Begin(c, "record_event", <<u>>) /\ Acquire(c, GetLock, "record_event", <<u>>)
        BY <3>1 DEF RecordEvent
      <4>2. <<u>> \in Seq(Ids) \ {<<>>} /\ "record_event" \in Ops
        BY DEF Ids, Ops
      <4> QED BY <2>3, <4>1, <4>2 DEF Begin
    <3>2. CASE RecordBatch(c)
      <4>1. PICK b \in Batches :
              Begin(c, "record_events_batch", b) /\ Acquire(c, lock, "record_events_batch", b)
        BY <3>2 DEF RecordBatch
      <4>2. b \in Seq(Ids) \ {<<>>} /\ "record_events_batch" \in Ops
        BY BatchesAssumption DEF Ops
      <4> QED BY <2>3, <4>1, <4>2 DEF Begin
    <3>3. CASE Acquired(c) \/ Begun(c) \/ NextInsert(c) \/ Retry(c)
      <4>1. InCall(c) /\ rows'[c] = rows[c] /\ op[c] \in Ops
        BY <3>3 DEF Acquired, Begun, NextInsert, Retry, InCall, TypeOK
      <4>2. rows[c] \in Seq(Ids) \ {<<>>} /\ IdsOf(rows[c]) \subseteq submitted'
        BY <2>1, <4>1, RowsOfCall
      <4>3. {rows[c][1]} \in SUBSET Ids /\ {rows[c][1]} \subseteq IdsOf(rows[c])
        <5>1. 1 \in 1..Len(rows[c])
          BY <4>2, EmptySeq
        <5> QED BY <4>2, <5>1, ElementOfSeq DEF IdsOf
      <4>4. CASE Acquired(c)
        BY <2>2, <4>2, <4>3, <4>4 DEF Acquired, IssueFirst
      <4>5. CASE Begun(c)
        BY <2>2, <4>2, <4>3, <4>5 DEF Begun
      <4>6. CASE NextInsert(c)
        <5>1. next[c] + 1 \in 1..Len(rows[c])
          BY <4>1, <4>6, RowsOfCall DEF NextInsert
        <5>2. {rows[c][next[c] + 1]} \in SUBSET Ids
              /\ {rows[c][next[c] + 1]} \subseteq IdsOf(rows[c])
          BY <4>2, <5>1, ElementOfSeq DEF IdsOf
        <5> QED BY <2>2, <4>2, <4>6, <5>2 DEF NextInsert
      <4>7. CASE Retry(c)
        BY <2>3, <4>1, <4>2, <4>7 DEF Retry
      <4> QED BY <3>3, <4>4, <4>5, <4>6, <4>7
    <3>4. CASE IssueCommit(c)
      BY <2>2, <3>4 DEF IssueCommit
    <3>5. CASE Committed(c) \/ BackOff(c) \/ Raise(c)
      BY <2>1, <3>5 DEF Committed, BackOff, Raise, RowInv, RowsSubmitted
    <3>6. CASE Cancel(c)
      <4>1. jobs' = Orphan(c) /\ Len(jobs) \in Nat
        BY <3>6 DEF Cancel, TypeOK
      <4>2. \A i \in 1..Len(jobs) : jobs[i] \in Job
        BY ElementOfSeq DEF TypeOK
      <4>3. Len(jobs') = Len(jobs) /\ \A i \in 1..Len(jobs) : jobs'[i].ins = jobs[i].ins
        BY <4>1, <4>2 DEF Orphan, Job
      <4> QED BY <2>1, <4>3 DEF RowInv, RowsSubmitted
    <3> QED BY <3>1, <3>2, <3>3, <3>4, <3>5, <3>6 DEF Call, Resume
  <2> QED BY <1>0, <2>1, <2>4 DEF RowInv, RowsSubmitted, OthersKept
<1>4. AckedDurable'
  <2>1. CASE Committed(c)
    <3>1. IdsOf(rows[c]) \subseteq durable
      BY <2>1 DEF Committed, RowInv, CommitDurable
    <3> QED BY <1>0, <2>1, <3>1 DEF Committed, RowInv, AckedDurable
  <2>2. CASE ~Committed(c)
    <3>1. acked' = acked
      BY <2>2 DEF Call, RecordEvent, RecordBatch, Resume, Acquired, Begun, NextInsert,
                  IssueCommit, BackOff, Retry, Raise, Cancel, hist
    <3> QED BY <1>0, <3>1 DEF RowInv, AckedDurable
  <2> QED BY <2>1, <2>2
<1> QED BY <1>1, <1>2, <1>3, <1>4 DEF RowInv

(***************************************************************************)
(* The theorems.                                                           *)
(***************************************************************************)
LEMMA InitInv == Init => IInv
<1> SUFFICES ASSUME Init PROVE IInv
  OBVIOUS
<1>1. TypeOK
  BY InitTypeOK
<1>2. JobsOwned /\ NextInRange /\ InsertedKept /\ CommitDurable /\ AckedDurable
  BY DEF Init, JobsOwned, NextInRange, InCall, InsertedKept, Inserted, CommitDurable,
         AckedDurable
<1>3. RowsSubmitted
  BY DEF Init, RowsSubmitted, IdsOf
<1> QED BY <1>1, <1>2, <1>3 DEF IInv

LEMMA StepInv == IInv /\ [Next]_vars => IInv'
<1> SUFFICES ASSUME IInv, [Next]_vars PROVE IInv'
  OBVIOUS
<1> USE DEF IInv
<1>1. NextInRange'
  BY RangeStep
<1>2. ASSUME NEW c \in Callers, Call(c) \/ Resume(c) \/ Cancel(c)
      PROVE  TypeOK' /\ JobsOwned' /\ RowInv'
  BY <1>2, CallerTypeOK, CallerOwned, CallerRows DEF RowInv
<1>3. ASSUME Worker
      PROVE  TypeOK' /\ JobsOwned' /\ RowInv'
  BY <1>3, WorkerTypeOK, WorkerOwned, WorkerRows DEF RowInv
<1>4. ASSUME UNCHANGED vars
      PROVE  TypeOK' /\ JobsOwned' /\ RowInv'
  <2>1. TypeOK' /\ JobsOwned'
    BY <1>4 DEF vars, ctl, db, hist, TypeOK, JobsOwned
  <2>2. InsertedKept' /\ CommitDurable'
    BY <1>4 DEF vars, ctl, db, InsertedKept, Inserted, CommitDurable
  <2>3. RowsSubmitted' /\ AckedDurable'
    BY <1>4 DEF vars, ctl, db, hist, RowsSubmitted, AckedDurable
  <2> QED BY <2>1, <2>2, <2>3 DEF RowInv
<1>5. TypeOK' /\ JobsOwned' /\ RowInv'
  BY <1>2, <1>3, <1>4 DEF Next
<1> QED BY <1>1, <1>5 DEF RowInv

\* The inductive invariant holds in every behaviour.
THEOREM Invariance == Spec => []IInv
BY InitInv, StepInv, PTL DEF Spec

\* Whatever the interleaving of callers, cancellations and failed statements,
\* an event whose recording call returned is in the file.
THEOREM AckedEventsAreDurable == Spec => []AckedDurable
<1>1. IInv => AckedDurable
  BY DEF IInv
<1> QED BY <1>1, Invariance, PTL

\* Every step of the store is a step of the append-only log, or no step of it:
\* rows are only added, only rows a caller submitted, and an acknowledgement
\* only follows durability.
THEOREM StoreImplementsLog == Spec => ImplementsLog
<1>1. Init => Log!Init
  BY DEF Init, Log!Init
<1>2. IInv /\ [Next]_vars => [Log!Next]_(Log!logvars)
  <2> SUFFICES ASSUME IInv, IInv', [Next]_vars PROVE [Log!Next]_(Log!logvars)
    BY StepInv
  <2> USE DEF Log!Next, Log!logvars, Log!Submit, Log!Persist, Log!Acknowledge
  <2>1. CASE UNCHANGED vars
    BY <2>1 DEF vars, db, hist
  <2>2. ASSUME NEW c \in Callers, RecordEvent(c)
        PROVE  [Log!Next]_(Log!logvars)
    <3>1. PICK u \in Uuids \ submitted : submitted' = submitted \cup IdsOf(<<u>>)
      BY <2>2 DEF RecordEvent, Begin
    <3>2. IdsOf(<<u>>) \in SUBSET Ids
      BY DEF IdsOf, Ids
    <3> QED BY <2>2, <3>1, <3>2 DEF RecordEvent, db
  <2>3. ASSUME NEW c \in Callers, RecordBatch(c)
        PROVE  [Log!Next]_(Log!logvars)
    <3>1. PICK b \in Batches : submitted' = submitted \cup IdsOf(b)
      BY <2>3 DEF RecordBatch, Begin
    <3>2. IdsOf(b) \in SUBSET Ids
      BY BatchesAssumption, ElementOfSeq DEF IdsOf
    <3> QED BY <2>3, <3>1, <3>2 DEF RecordBatch, db
  <2>4. ASSUME NEW c \in Callers, Committed(c)
        PROVE  [Log!Next]_(Log!logvars)
    <3>1. IdsOf(rows[c]) \in SUBSET Ids /\ IdsOf(rows[c]) \subseteq durable
      BY <2>4, ElementOfSeq DEF Committed, IInv, CommitDurable, TypeOK, IdsOf
    <3> QED BY <2>4, <3>1 DEF Committed, db
  <2>5. ASSUME NEW c \in Callers,
               Acquired(c) \/ Begun(c) \/ NextInsert(c) \/ IssueCommit(c) \/ BackOff(c)
                 \/ Retry(c) \/ Raise(c) \/ Cancel(c)
        PROVE  [Log!Next]_(Log!logvars)
    BY <2>5 DEF Acquired, Begun, NextInsert, IssueCommit, BackOff, Retry, Raise, Cancel,
                db, hist
  <2>6. CASE DbBegin \/ DbInsert
    BY <2>6 DEF DbBegin, DbInsert, Reply, hist
  <2>7. CASE DbCommit
    <3>1. pending \in SUBSET Ids /\ pending \subseteq submitted
      BY DEF IInv, TypeOK, RowsSubmitted
    <3> QED BY <2>7, <3>1 DEF DbCommit, Reply, hist
  <2> QED BY <2>1, <2>2, <2>3, <2>4, <2>5, <2>6, <2>7 DEF Next, Call, Resume, Worker
<1> QED BY <1>1, <1>2, Invariance, PTL DEF Spec, ImplementsLog, Log!Spec

(***************************************************************************)
(* The lock is not leaked.                                                 *)
(***************************************************************************)
\* With the tasks at p: who holds l is inside a call, and who waits for l waits, once,
\* for a lock that somebody else holds.
Kept(p, l) ==
  /\ l.holder \in Callers => p[l.holder] \in {"lock", "begin", "insert", "commit"}
  /\ l.waiters # <<>> => l.bound /\ l.holder \in Callers
  /\ Queue(Callers, l.waiters)
  /\ \A c \in Callers : Contains(l.waiters, c) => p[c] = "lock" /\ c # l.holder

LInv == TypeOK /\ Kept(pc, lock)

\* A lock _get_lock makes is kept, whoever is where.
LEMMA FreshKept ==
  ASSUME NEW p
  PROVE  FreshLock \in Locks /\ Kept(p, FreshLock)
<1>1. FreshLock \in Locks /\ FreshLock.holder = NoOne /\ FreshLock.waiters = <<>>
  BY DEF FreshLock, Locks
<1> QED BY <1>1, NobodyWaits, NoOneAssumption DEF Kept

\* Entering "async with".
LEMMA AcquireKept ==
  ASSUME LInv, NEW c \in Callers, pc[c] \in {"idle", "backoff"},
         NEW l \in {lock, FreshLock}, NEW o, NEW r, Acquire(c, l, o, r)
  PROVE  Kept(pc, lock)'
<1>1. /\ l \in Locks /\ Kept(pc, l) /\ pc \in [Callers -> PCs]
      /\ l.holder # c /\ ~Contains(l.waiters, c)
  BY FreshKept DEF LInv, TypeOK, Kept
<1>2. CASE Free(l) /\ lock' = [l EXCEPT !.holder = c] /\ IssueFirst(c, o, r)
  <2>1. l.waiters = <<>> /\ lock'.waiters = <<>> /\ lock'.holder = c
    BY <1>1, <1>2, NoOneAssumption DEF Free, Kept, Locks
  <2>2. pc'[c] \in {"begin", "insert"}
    BY <1>1, <1>2 DEF IssueFirst, Issue
  <2> QED BY <2>1, <2>2, NobodyWaits DEF Kept
<1>3. CASE ~Free(l) /\ lock' = Wait(l, c) /\ pc' = [pc EXCEPT ![c] = "lock"]
  <2>1. /\ lock'.holder = l.holder /\ lock'.bound = TRUE
        /\ lock'.waiters = Append(l.waiters, c)
    BY <1>1, <1>3 DEF Wait, Locks
  <2>2. l.holder \in Callers
    BY <1>1, <1>3 DEF Free, Locks
  <2>3. /\ Queue(Callers, Append(l.waiters, c))
        /\ \A d : Contains(Append(l.waiters, c), d) <=> Contains(l.waiters, d) \/ d = c
    BY <1>1, Joined DEF Kept
  <2>4. \A d \in Callers \ {c} : pc'[d] = pc[d]
    BY <1>3
  <2>5. pc'[c] = "lock"
    BY <1>1, <1>3
  <2> QED BY <1>1, <2>1, <2>2, <2>3, <2>4, <2>5 DEF Kept
<1> QED BY <1>2, <1>3 DEF Acquire

\* Leaving "async with", which hands the lock over to the first that waits.
LEMMA HandOverKept ==
  ASSUME LInv, NEW c \in Callers, lock.holder = c, lock' = HandOver(lock),
         NEW where, pc' = [pc EXCEPT ![c] = where]
  PROVE  Kept(pc, lock)'
<1>1. /\ lock \in Locks /\ Kept(pc, lock) /\ pc \in [Callers -> PCs]
  BY DEF LInv, TypeOK
<1>2. \A d \in Callers \ {c} : pc'[d] = pc[d]
  OBVIOUS
<1>3. CASE lock.waiters = <<>>
  <2>1. lock'.holder = NoOne /\ lock'.waiters = <<>>
    BY <1>1, <1>3 DEF HandOver, Locks
  <2> QED BY <2>1, NobodyWaits, NoOneAssumption DEF Kept
<1>4. CASE lock.waiters # <<>>
  <2> DEFINE h == Head(lock.waiters)
  <2>1. /\ Queue(Callers, Tail(lock.waiters)) /\ h \in Callers /\ Contains(lock.waiters, h)
        /\ \A d : Contains(Tail(lock.waiters), d) <=> Contains(lock.waiters, d) /\ d # h
    BY <1>1, <1>4, Served DEF Kept
  <2>2. /\ lock'.holder = h /\ lock'.bound = lock.bound
        /\ lock'.waiters = Tail(lock.waiters)
    BY <1>1, <1>4 DEF HandOver, Locks
  <2>3. lock.bound /\ h # c /\ pc[h] = "lock" /\ ~Contains(lock.waiters, c)
    BY <1>1, <1>4, <2>1 DEF Kept
  <2> HIDE DEF h
  <2> QED BY <1>1, <1>2, <2>1, <2>2, <2>3 DEF Kept
<1> QED BY <1>3, <1>4

\* A task that does not wait moves, and keeps the lock if it has it.
LEMMA MoveKept ==
  ASSUME LInv, NEW c \in Callers, lock' = lock, ~Contains(lock.waiters, c),
         NEW where, pc' = [pc EXCEPT ![c] = where],
         lock.holder = c => where \in {"begin", "insert", "commit"}
  PROVE  Kept(pc, lock)'
BY DEF LInv, TypeOK, Kept

LEMMA WithdrawnKept ==
  ASSUME LInv, NEW c \in Callers, lock.holder # c, lock' = WithoutWaiter(lock, c),
         NEW where, pc' = [pc EXCEPT ![c] = where]
  PROVE  Kept(pc, lock)'
<1>1. /\ lock \in Locks /\ Kept(pc, lock) /\ pc \in [Callers -> PCs]
  BY DEF LInv, TypeOK
<1>2. CASE ~Contains(lock.waiters, c)
  <2>1. lock' = lock
    BY <1>2 DEF WithoutWaiter, Contains
  <2> QED BY <1>2, <2>1, MoveKept
<1>3. CASE Contains(lock.waiters, c)
  <2> DEFINE i == CHOOSE i \in 1..Len(lock.waiters) : lock.waiters[i] = c
             v == RemoveAt(lock.waiters, i)
  <2>1. i \in 1..Len(lock.waiters) /\ lock.waiters[i] = c
    BY <1>3 DEF Contains
  <2>2. /\ Queue(Callers, v)
        /\ \A d : Contains(v, d) <=> Contains(lock.waiters, d) /\ d # c
    <3> HIDE DEF i
    <3>1. Queue(Callers, lock.waiters)
      BY <1>1 DEF Kept
    <3>2. /\ Queue(Callers, RemoveAt(lock.waiters, i))
          /\ \A d : Contains(RemoveAt(lock.waiters, i), d) <=>
                 Contains(lock.waiters, d) /\ d # lock.waiters[i]
      BY <2>1, <3>1, Removed
    <3> QED BY <2>1, <3>2
  <2>3. /\ lock'.holder = lock.holder /\ lock'.bound = lock.bound
        /\ lock'.waiters = v
    <3>1. lock' = [lock EXCEPT !.waiters = v]
      BY <1>3 DEF WithoutWaiter, Contains, RemoveAt
    <3> HIDE DEF v
    <3> QED BY <1>1, <3>1 DEF Locks
  <2>4. lock.waiters # <<>>
    BY <1>3, NobodyWaits
  <2> HIDE DEF v
  <2>5. \A d \in Callers \ {c} : pc'[d] = pc[d]
    OBVIOUS
  <2> QED BY <1>1, <2>2, <2>3, <2>4, <2>5 DEF Kept
<1> QED BY <1>2, <1>3

LEMMA CallerKept ==
  ASSUME LInv, NEW c \in Callers, Call(c) \/ Resume(c) \/ Cancel(c)
  PROVE  Kept(pc, lock)'
<1>0. /\ pc[c] # "lock" => ~Contains(lock.waiters, c)
      /\ lock.holder = c => ~Contains(lock.waiters, c)
      /\ GetLock \in {lock, FreshLock}
  BY DEF LInv, Kept, GetLock
<1>1. CASE Call(c) \/ Retry(c)
  <2>1. pc[c] \in {"idle", "backoff"}
    BY <1>1 DEF Call, RecordEvent, RecordBatch, Retry
  <2>2. PICK l \in {lock, FreshLock}, o \in Ops, r \in Seq(Ids) : Acquire(c, l, o, r)
    <3>1. CASE RecordEvent(c)
      <4>1. PICK u \in Uuids : Acquire(c, GetLock, "record_event", <<u>>)
        BY <3>1 DEF RecordEvent
      <4>2. <<u>> \in Seq(Ids) /\ "record_event" \in Ops
        BY DEF Ids, Ops
      <4> QED BY <1>0, <4>1, <4>2
    <3>2. CASE RecordBatch(c)
      <4>1. PICK b \in Batches : Acquire(c, lock, "record_events_batch", b)
        BY <3>2 DEF RecordBatch
      <4>2. b \in Seq(Ids) /\ "record_events_batch" \in Ops
        BY BatchesAssumption DEF Ops
      <4> QED BY <4>1, <4>2
    <3>3. CASE Retry(c)
      BY <1>0, <3>3 DEF Retry, LInv, TypeOK
    <3> QED BY <1>1, <3>1, <3>2, <3>3 DEF Call
  <2> QED BY <2>1, <2>2, AcquireKept
<1>2. CASE Acquired(c) \/ Begun(c) \/ NextInsert(c) \/ IssueCommit(c)
  <2>1. lock' = lock /\ ~Contains(lock.waiters, c)
    BY <1>0, <1>2 DEF Acquired, Begun, NextInsert, IssueCommit
  <2>2. \E where \in {"begin", "insert", "commit"} : pc' = [pc EXCEPT ![c] = where]
    BY <1>2 DEF Acquired, Begun, NextInsert, IssueCommit, IssueFirst, Issue
  <2> QED BY <2>1, <2>2, MoveKept
<1>3. CASE Committed(c) \/ BackOff(c) \/ Raise(c)
  <2>1. Release(c) /\ ~Contains(lock.waiters, c)
    BY <1>0, <1>3 DEF Committed, BackOff, Raise
  <2>2. PICK where \in {"idle", "backoff"} : pc' = [pc EXCEPT ![c] = where]
    BY <1>3 DEF Committed, BackOff, Raise, Finish
  <2>3. CASE lock.holder = c
    BY <2>1, <2>2, <2>3, HandOverKept DEF Release
  <2>4. CASE lock.holder # c
    BY <2>1, <2>2, <2>4, MoveKept DEF Release
  <2> QED BY <2>3, <2>4
<1>4. CASE Cancel(c)
  <2>1. pc' = [pc EXCEPT ![c] = "cancelled"]
    BY <1>4 DEF Cancel, Finish
  <2> QED BY <1>4, <2>1, HandOverKept, WithdrawnKept DEF Cancel
<1> QED BY <1>1, <1>2, <1>3, <1>4 DEF Resume

\* No path out of "async with" leaks the lock, for any number of tasks.
\* Code: event_store.py _get_lock, _execute_write, record_events_batch.
THEOREM LockIsNeverLeaked == Spec => []LockNeverLeaks
<1>1. Init => Kept(pc, lock)
  BY FreshKept DEF Init
<1>2. TypeOK /\ Kept(pc, lock) /\ [Next]_vars => Kept(pc, lock)'
  <2> SUFFICES ASSUME LInv, [Next]_vars PROVE Kept(pc, lock)'
    BY DEF LInv
  <2>1. CASE UNCHANGED <<pc, lock>>
    BY <2>1 DEF LInv, Kept
  <2>2. CASE Worker \/ UNCHANGED vars
    BY <2>1, <2>2 DEF Worker, DbBegin, DbInsert, DbCommit, Reply, vars, ctl
  <2>3. ASSUME NEW c \in Callers, Call(c) \/ Resume(c) \/ Cancel(c) PROVE Kept(pc, lock)'
    BY <2>3, CallerKept
  <2> QED BY <2>2, <2>3 DEF Next
<1>3. Kept(pc, lock) => LockNeverLeaks
  BY DEF Kept, LockNeverLeaks
<1> QED BY <1>1, <1>2, <1>3, TypeCorrect, PTL DEF Spec

\* Once the lock is bound it is never replaced, and no task enters a section without it.
\* Code: event_store.py _get_lock, which compares the lock's loop.
THEOREM BoundLocksExclude == Spec => BoundLockExcludes
<1>1. TypeOK /\ [Next]_vars => [lock.bound => lock'.bound /\ Strays' \subseteq Strays]_vars
  <2> SUFFICES ASSUME TypeOK, [Next]_vars, lock.bound
               PROVE  lock'.bound /\ Strays' \subseteq Strays
    OBVIOUS
  <2>0. lock \in Locks /\ pc \in [Callers -> PCs] /\ GetLock = lock
    BY DEF TypeOK, GetLock
  <2>1. CASE UNCHANGED <<pc, lock>>
    BY <2>1 DEF Strays, InLock
  <2>2. CASE Worker \/ UNCHANGED vars
    BY <2>1, <2>2 DEF Worker, DbBegin, DbInsert, DbCommit, Reply, vars, ctl
  <2>3. ASSUME NEW c \in Callers, Call(c) \/ Retry(c)
        PROVE  lock'.bound /\ Strays' \subseteq Strays
    <3>1. PICK o, r : Acquire(c, lock, o, r)
      BY <2>0, <2>3 DEF Call, RecordEvent, RecordBatch, Retry
    <3>2. CASE Free(lock) /\ lock' = [lock EXCEPT !.holder = c] /\ IssueFirst(c, o, r)
      <4>1. lock'.bound /\ lock'.holder = c /\ lock.holder \notin Callers
        BY <2>0, <3>2, NoOneAssumption DEF Free, Locks
      <4>2. \A d \in Callers \ {c} : pc'[d] = pc[d]
        BY <2>0, <3>2 DEF IssueFirst, Issue
      <4> QED BY <4>1, <4>2 DEF Strays, InLock
    <3>3. CASE lock' = Wait(lock, c) /\ pc' = [pc EXCEPT ![c] = "lock"]
      <4>1. lock'.bound /\ lock'.holder = lock.holder
        BY <2>0, <3>3 DEF Wait, Locks
      <4> QED BY <2>0, <3>3, <4>1 DEF Strays, InLock
    <3> QED BY <3>1, <3>2, <3>3 DEF Acquire
  <2>4. ASSUME NEW c \in Callers, Acquired(c) \/ Begun(c) \/ NextInsert(c) \/ IssueCommit(c)
        PROVE  lock'.bound /\ Strays' \subseteq Strays
    <3>1. lock' = lock /\ (InLock(c) \/ lock.holder = c)
      BY <2>4 DEF Acquired, Begun, NextInsert, IssueCommit, InLock
    <3>2. \A d \in Callers \ {c} : pc'[d] = pc[d]
      BY <2>0, <2>4 DEF Acquired, Begun, NextInsert, IssueCommit, IssueFirst, Issue
    <3> QED BY <3>1, <3>2 DEF Strays, InLock
  <2>5. ASSUME NEW c \in Callers, Committed(c) \/ BackOff(c) \/ Raise(c) \/ Cancel(c)
        PROVE  lock'.bound /\ Strays' \subseteq Strays
    <3>1. pc'[c] \notin {"begin", "insert", "commit"} /\ \A d \in Callers \ {c} : pc'[d] = pc[d]
      BY <2>0, <2>5 DEF Committed, BackOff, Raise, Cancel, Finish
    <3>2. \/ lock.holder = c
          \/ lock'.holder = lock.holder
      BY <2>0, <2>5 DEF Committed, BackOff, Raise, Cancel, Release, WithoutWaiter, Locks
    <3>3. lock'.bound
      BY <2>0, <2>5 DEF Committed, BackOff, Raise, Cancel, Release, HandOver, WithoutWaiter, Locks
    <3> QED BY <3>1, <3>2, <3>3 DEF Strays, InLock
  <2> QED BY <2>2, <2>3, <2>4, <2>5 DEF Next, Resume
<1> QED BY <1>1, TypeCorrect, PTL DEF Spec, BoundLockExcludes

(***************************************************************************)
(* A failed record_event leaves nothing, where the ids it draws (UUIDs)    *)
(* are not ids of batches.                                                 *)
(***************************************************************************)
Single(c) == InCall(c) /\ op[c] = "record_event"
Row(c)    == rows[c][1]

\* Only record_event has ids of Uuids, every call its own.
RowsDrawn ==
  /\ \A c \in Callers : Single(c) => Row(c) \in Uuids
  /\ \A c \in Callers : InCall(c) /\ ~Single(c) => IdsOf(rows[c]) \cap Uuids = {}
  /\ \A c, d \in Callers : Single(c) /\ Single(d) /\ Row(c) = Row(d) => c = d

\* What a cancelled task left in the queue is nobody's row any more.
OrphansApart ==
  \A i \in 1..Len(jobs) :
    /\ jobs[i].do # "insert" => jobs[i].ins = {}
    /\ jobs[i].who = NoOne => /\ jobs[i].ins \cap failed = {}
                              /\ \A c \in Callers : Single(c) => Row(c) \notin jobs[i].ins

\* The row of a call under way is in the store only if its INSERT succeeded.
OwnRowOnly ==
  \A c \in Callers : Single(c) =>
    /\ Row(c) \notin failed
    /\ Row(c) \in pending \cup durable => Inserted(c, 1)

FailInv ==
  /\ failed \subseteq submitted \cap Uuids
  /\ RowsDrawn
  /\ OrphansApart
  /\ OwnRowOnly
  /\ FailedLeavesNothing

\* A call of record_event has one row, and next is its index.
LEMMA SingleRow ==
  ASSUME IInv, NEW c \in Callers, Single(c)
  PROVE  next[c] = 1 /\ Len(rows[c]) = 1 /\ IdsOf(rows[c]) = {Row(c)}
<1>1. next[c] \in 1..Len(rows[c]) /\ Len(rows[c]) = 1
  BY DEF IInv, NextInRange, Single
<1> QED BY <1>1 DEF IdsOf, Row

\* An INSERT with a task inserts a row of that task's call.
LEMMA JobsRow ==
  ASSUME IInv, NEW i \in 1..Len(jobs), NEW c \in Callers, jobs[i].who = c,
         jobs[i].do = "insert"
  PROVE  /\ InCall(c) /\ pc[c] = "insert" /\ reply[c] = "none"
         /\ jobs[i].ins \subseteq IdsOf(rows[c])
         /\ Single(c) => jobs[i].ins = {Row(c)}
<1>1. pc[c] = "insert" /\ reply[c] = "none" /\ jobs[i].ins = {rows[c][next[c]]}
  BY DEF IInv, JobsOwned
<1>2. InCall(c) /\ next[c] \in 1..Len(rows[c])
  BY <1>1 DEF IInv, NextInRange, InCall
<1> QED BY <1>1, <1>2, SingleRow DEF IdsOf, Row

LEMMA WorkerFails ==
  ASSUME IInv, FailInv, Worker
  PROVE  FailInv'
<1> DEFINE j == jobs[1]
<1>1. /\ UNCHANGED <<pc, op, rows, next, failed, submitted>>
      /\ j \in Job /\ 1 \in 1..Len(jobs)
      /\ \A i \in 1..Len(jobs') : jobs'[i] = jobs[i + 1] /\ i + 1 \in 1..Len(jobs)
      /\ \A c \in Callers : c # j.who => reply'[c] = reply[c]
  BY WorkerMoves DEF IInv, hist
<1>2. \A c \in Callers : (Single(c)' <=> Single(c)) /\ Row(c)' = Row(c)
  BY <1>1 DEF Single, InCall, Row
<1>3. RowsDrawn'
  BY <1>1, <1>2 DEF FailInv, RowsDrawn, InCall, Single
<1>4. OrphansApart'
  BY <1>1, <1>2 DEF FailInv, OrphansApart
<1>5. ASSUME NEW c \in Callers, Inserted(c, 1) PROVE Inserted(c, 1)'
  <2>1. CASE reply'[c] = reply[c]
    BY <1>1, <1>5, <2>1 DEF Inserted
  <2>2. CASE reply'[c] # reply[c]
    <3>1. c = j.who /\ reply[c] = "none"
      BY <1>1, <2>2 DEF IInv, JobsOwned
    <3> QED BY <1>1, <1>5, <3>1 DEF Inserted
  <2> QED BY <2>1, <2>2
<1>6. CASE pending' \cup durable' = pending \cup durable
  BY <1>1, <1>2, <1>3, <1>4, <1>5, <1>6 DEF FailInv, OwnRowOnly, FailedLeavesNothing
<1>7. CASE /\ j.do = "insert" /\ pending' = pending \cup j.ins /\ durable' = durable
           /\ j.who \in Callers => reply'[j.who] = "ok"
  <2>1. j.ins \cap failed = {}
    <3>1. CASE j.who = NoOne
      BY <1>1, <3>1 DEF FailInv, OrphansApart
    <3>2. CASE j.who \in Callers
      <4>1. /\ InCall(j.who) /\ j.ins \subseteq IdsOf(rows[j.who])
            /\ Single(j.who) => j.ins = {Row(j.who)}
        BY <1>1, <1>7, <3>2, JobsRow
      <4> QED BY <3>2, <4>1 DEF FailInv, RowsDrawn, OwnRowOnly
    <3> QED BY <1>1, <3>1, <3>2 DEF Job
  <2>2. ASSUME NEW c \in Callers, Single(c), Row(c) \in pending' \cup durable'
        PROVE  Inserted(c, 1)'
    <3>1. CASE Row(c) \in pending \cup durable
      BY <1>5, <2>2, <3>1 DEF FailInv, OwnRowOnly
    <3>2. CASE Row(c) \in j.ins
      <4>1. j.who \in Callers
        BY <1>1, <2>2, <3>2 DEF FailInv, OrphansApart, Job
      <4>2. /\ InCall(j.who) /\ pc[j.who] = "insert"
            /\ j.ins \subseteq IdsOf(rows[j.who])
            /\ Single(j.who) => j.ins = {Row(j.who)}
        BY <1>1, <1>7, <4>1, JobsRow
      <4>3. Row(c) \in Uuids
        BY <2>2 DEF FailInv, RowsDrawn
      <4>4. Single(j.who)
        BY <3>2, <4>1, <4>2, <4>3 DEF FailInv, RowsDrawn
      <4>5. j.who = c
        BY <2>2, <3>2, <4>1, <4>2, <4>4 DEF FailInv, RowsDrawn
      <4>6. next[c] = 1
        BY <2>2, SingleRow
      <4> QED BY <1>1, <1>7, <4>1, <4>2, <4>5, <4>6 DEF Inserted
    <3> QED BY <1>7, <2>2, <3>1, <3>2
  <2>3. OwnRowOnly'
    BY <1>1, <1>2, <2>2 DEF FailInv, OwnRowOnly
  <2>4. FailedLeavesNothing'
    BY <1>1, <1>7, <2>1 DEF FailInv, FailedLeavesNothing
  <2> QED BY <1>1, <1>3, <1>4, <2>3, <2>4 DEF FailInv
<1>8. \/ pending' \cup durable' = pending \cup durable
      \/ /\ j.do = "insert" /\ pending' = pending \cup j.ins /\ durable' = durable
         /\ j.who \in Callers => reply'[j.who] = "ok"
  <2>1. CASE DbBegin \/ DbCommit
    BY <2>1 DEF DbBegin, DbCommit
  <2>2. CASE DbInsert
    BY <2>2, WorkerMoves DEF DbInsert, Running, Reply, IInv, TypeOK
  <2> QED BY <2>1, <2>2 DEF Worker
<1> QED BY <1>6, <1>7, <1>8

\* The queue after a statement of c was put into it, or not.
LEMMA QueueGrows ==
  ASSUME TypeOK, NEW c \in Callers, NEW what \in {"begin", "insert", "commit"},
         NEW ins \in SUBSET Ids, what # "insert" => ins = {},
         Issue(c, what, ins)
  PROVE  \A i \in 1..Len(jobs') :
           \/ i \in 1..Len(jobs) /\ jobs'[i] = jobs[i]
           \/ jobs'[i].who = c /\ (jobs'[i].do # "insert" => jobs'[i].ins = {})
<1> DEFINE new == [who |-> c, do |-> what, ins |-> ins]
<1>1. new \in Job
  BY DEF Job
<1>2. /\ Len(jobs') = Len(jobs) + 1 /\ Len(jobs) \in Nat
      /\ \A i \in 1..Len(jobs) : jobs'[i] = jobs[i]
      /\ jobs'[Len(jobs) + 1] = new
  BY <1>1, AppendProperties DEF Issue, TypeOK
<1> QED BY <1>2

JobsGrow(c) ==
  \A i \in 1..Len(jobs') :
    \/ i \in 1..Len(jobs) /\ jobs'[i] = jobs[i]
    \/ jobs'[i].who = c /\ (jobs'[i].do # "insert" => jobs'[i].ins = {})

LEMMA AcquireGrows ==
  ASSUME TypeOK, NEW c \in Callers, NEW l, NEW o, NEW r, {r[1]} \in SUBSET Ids,
         Acquire(c, l, o, r)
  PROVE  JobsGrow(c)
<1>1. CASE jobs' = jobs
  BY <1>1 DEF JobsGrow
<1>2. CASE Issue(c, "insert", {r[1]})
  BY <1>2, QueueGrows DEF JobsGrow
<1>3. CASE Issue(c, "begin", {})
  BY <1>3, QueueGrows DEF JobsGrow
<1> QED BY <1>1, <1>2, <1>3 DEF Acquire, IssueFirst

\* The other calls are what they were.
LEMMA OtherRows ==
  ASSUME NEW c \in Callers, OthersKept(c), NEW d \in Callers \ {c}
  PROVE  /\ (Single(d)' <=> Single(d)) /\ (InCall(d)' <=> InCall(d))
         /\ Row(d)' = Row(d) /\ IdsOf(rows[d])' = IdsOf(rows[d])
         /\ Inserted(d, 1)' <=> Inserted(d, 1)
BY DEF OthersKept, Single, InCall, Row, IdsOf, Inserted

\* A call that goes on keeps its row.
LEMMA ContinueFails ==
  ASSUME IInv, FailInv, NEW c \in Callers, OthersKept(c), JobsGrow(c),
         InCall(c), InCall(c)', op'[c] = op[c], rows'[c] = rows[c],
         UNCHANGED <<pending, durable, submitted, failed>>,
         Single(c) /\ Inserted(c, 1) => Inserted(c, 1)'
  PROVE  FailInv'
<1>1. ASSUME NEW d \in Callers
      PROVE  /\ (Single(d)' <=> Single(d)) /\ (InCall(d)' <=> InCall(d))
             /\ Row(d)' = Row(d) /\ IdsOf(rows[d])' = IdsOf(rows[d])
             /\ Single(d) /\ Inserted(d, 1) => Inserted(d, 1)'
  <2>1. CASE d = c
    BY <2>1 DEF Single, Row, IdsOf
  <2>2. CASE d # c
    BY <2>2, OtherRows
  <2> QED BY <2>1, <2>2
<1>2. RowsDrawn'
  BY <1>1 DEF FailInv, RowsDrawn
<1>3. OrphansApart'
  BY <1>1, NoOneAssumption DEF FailInv, OrphansApart, JobsGrow
<1>4. OwnRowOnly'
  BY <1>1 DEF FailInv, OwnRowOnly
<1> QED BY <1>2, <1>3, <1>4 DEF FailInv, FailedLeavesNothing

\* A new call draws a row that is nowhere yet, or has none of Uuids.
LEMMA StartFails ==
  ASSUME IInv, FailInv, NEW c \in Callers, OthersKept(c), JobsGrow(c),
         ~InCall(c), InCall(c)', submitted \subseteq submitted',
         UNCHANGED <<pending, durable, failed>>,
         IF op'[c] = "record_event" THEN rows'[c][1] \in Uuids \ submitted
                                    ELSE IdsOf(rows'[c]) \cap Uuids = {}
  PROVE  FailInv'
<1>1. /\ pending \cup durable \subseteq submitted /\ failed \subseteq submitted
      /\ \A i \in 1..Len(jobs) : jobs[i].ins \subseteq submitted
  BY DEF IInv, RowsSubmitted, FailInv
<1>2. ASSUME NEW d \in Callers, Single(d) PROVE Row(d) \in submitted
  <2>1. IdsOf(rows[d]) \subseteq submitted
    BY DEF IInv, RowsSubmitted
  <2> QED BY <1>2, <2>1, SingleRow
<1>3. ~Single(c) /\ (Single(c)' => Row(c)' \in Uuids \ submitted)
  BY DEF Single, Row
<1>4. RowsDrawn'
  <2>1. ASSUME NEW d \in Callers
        PROVE  /\ Single(d)' => Row(d)' \in Uuids
               /\ InCall(d)' /\ ~Single(d)' => IdsOf(rows[d])' \cap Uuids = {}
    <3>1. CASE d = c
      BY <1>3, <3>1 DEF Single
    <3>2. CASE d # c
      BY <3>2, OtherRows DEF FailInv, RowsDrawn
    <3> QED BY <3>1, <3>2
  <2>2. ASSUME NEW d \in Callers, NEW e \in Callers, Single(d)', Single(e)', Row(d)' = Row(e)'
        PROVE  d = e
    <3>1. CASE d # c /\ e # c
      BY <2>2, <3>1, OtherRows DEF FailInv, RowsDrawn
    <3>2. CASE d = c /\ e # c
      BY <1>2, <1>3, <2>2, <3>2, OtherRows
    <3>3. CASE d # c /\ e = c
      BY <1>2, <1>3, <2>2, <3>3, OtherRows
    <3> QED BY <3>1, <3>2, <3>3
  <2> QED BY <2>1, <2>2 DEF RowsDrawn
<1>5. OrphansApart'
  <2>1. ASSUME NEW i \in 1..Len(jobs), jobs[i].who = NoOne, NEW d \in Callers, Single(d)'
        PROVE  Row(d)' \notin jobs[i].ins
    <3>1. CASE d = c
      BY <1>1, <1>3, <2>1, <3>1
    <3>2. CASE d # c
      BY <2>1, <3>2, OtherRows DEF FailInv, OrphansApart
    <3> QED BY <3>1, <3>2
  <2> QED BY <2>1, NoOneAssumption DEF FailInv, OrphansApart, JobsGrow
<1>6. OwnRowOnly'
  <2> SUFFICES ASSUME NEW d \in Callers, Single(d)'
               PROVE  /\ Row(d)' \notin failed
                      /\ Row(d)' \in pending \cup durable => Inserted(d, 1)'
    BY DEF OwnRowOnly
  <2>1. CASE d = c
    BY <1>1, <1>3, <2>1
  <2>2. CASE d # c
    BY <2>2, OtherRows DEF FailInv, OwnRowOnly
  <2> QED BY <2>1, <2>2
<1> QED BY <1>4, <1>5, <1>6 DEF FailInv, FailedLeavesNothing

\* A call that ends, failed or not; a failed one has not inserted its row.
LEMMA EndFails ==
  ASSUME IInv, FailInv, NEW c \in Callers, OthersKept(c), ~InCall(c)', jobs' = jobs,
         UNCHANGED <<pending, durable, submitted>>,
         \/ failed' = failed
         \/ Single(c) /\ ~Inserted(c, 1) /\ failed' = failed \cup {Row(c)}
  PROVE  FailInv'
<1>1. ~Single(c)'
  BY DEF Single
<1>2. ASSUME NEW d \in Callers, Single(d)'
      PROVE  /\ d # c /\ Single(d) /\ Row(d)' = Row(d)
             /\ Inserted(d, 1)' <=> Inserted(d, 1)
  BY <1>1, <1>2, OtherRows
<1>3. RowsDrawn'
  BY <1>1, OtherRows DEF FailInv, RowsDrawn
<1>4. CASE failed' = failed
  BY <1>2, <1>3, <1>4 DEF FailInv, OrphansApart, OwnRowOnly, FailedLeavesNothing
<1>5. CASE Single(c) /\ ~Inserted(c, 1) /\ failed' = failed \cup {Row(c)}
  <2>1. Row(c) \in submitted \cap Uuids
    <3>1. IdsOf(rows[c]) \subseteq submitted
      BY DEF IInv, RowsSubmitted
    <3> QED BY <1>5, <3>1, SingleRow DEF FailInv, RowsDrawn
  <2>2. Row(c) \notin pending \cup durable
    BY <1>5 DEF FailInv, OwnRowOnly
  <2>3. \A d \in Callers : Single(d)' => Row(d) # Row(c)
    BY <1>2, <1>5 DEF FailInv, RowsDrawn
  <2>4. OrphansApart'
    BY <1>2, <1>5 DEF FailInv, OrphansApart
  <2>5. OwnRowOnly'
    BY <1>2, <1>5, <2>3 DEF FailInv, OwnRowOnly
  <2> QED BY <1>3, <1>5, <2>1, <2>2, <2>4, <2>5 DEF FailInv, FailedLeavesNothing
<1> QED BY <1>4, <1>5

\* A cancelled call's row is left to its orphaned job.
LEMMA CancelFails ==
  ASSUME IInv, FailInv, NEW c \in Callers, Cancel(c), OthersKept(c)
  PROVE  FailInv'
<1>1. /\ ~InCall(c)' /\ InCall(c) /\ jobs' = Orphan(c)
      /\ UNCHANGED <<pending, durable, submitted, failed>>
  BY DEF Cancel, Finish, InCall, db, hist, IInv, TypeOK
<1>2. ASSUME NEW d \in Callers, Single(d)'
      PROVE  /\ d # c /\ Single(d) /\ Row(d)' = Row(d)
             /\ Inserted(d, 1)' <=> Inserted(d, 1)
  BY <1>1, <1>2, OtherRows DEF Single
<1>3. RowsDrawn'
  BY <1>1, OtherRows DEF FailInv, RowsDrawn, Single
<1>4. OwnRowOnly' /\ FailedLeavesNothing'
  BY <1>1, <1>2 DEF FailInv, OwnRowOnly, FailedLeavesNothing
<1>5. OrphansApart'
  <2>1. /\ Len(jobs') = Len(jobs)
        /\ \A i \in 1..Len(jobs) : /\ jobs'[i].do = jobs[i].do /\ jobs'[i].ins = jobs[i].ins
                                    /\ jobs'[i].who = IF jobs[i].who = c THEN NoOne ELSE jobs[i].who
    <3>1. jobs \in Seq(Job) /\ Len(jobs) \in Nat
      BY DEF IInv, TypeOK
    <3>2. \A i \in 1..Len(jobs) : jobs[i] \in Job
      BY <3>1, ElementOfSeq
    <3>3. jobs' = [i \in 1..Len(jobs) |-> IF jobs[i].who = c THEN [jobs[i] EXCEPT !.who = NoOne]
                                                             ELSE jobs[i]]
      BY <1>1 DEF Orphan
    <3>4. jobs' \in Seq(Job)
      BY <1>1, <3>1, OrphanTypes
    <3>5. Len(jobs') = Len(jobs)
      BY <3>1, <3>3, <3>4, LenProperties
    <3> QED BY <3>2, <3>3, <3>5 DEF Job
  <2> SUFFICES ASSUME NEW i \in 1..Len(jobs)
               PROVE  /\ jobs[i].do # "insert" => jobs[i].ins = {}
                      /\ jobs'[i].who = NoOne =>
                           /\ jobs[i].ins \cap failed = {}
                           /\ \A d \in Callers : Single(d)' => Row(d)' \notin jobs[i].ins
    BY <1>1, <2>1 DEF OrphansApart
  <2>2. CASE jobs[i].who # c
    BY <1>2, <2>1, <2>2 DEF FailInv, OrphansApart
  <2>3. CASE jobs[i].who = c /\ jobs[i].do # "insert"
    BY <2>3 DEF FailInv, OrphansApart
  <2>4. CASE jobs[i].who = c /\ jobs[i].do = "insert"
    <3>1. /\ jobs[i].ins \subseteq IdsOf(rows[c])
          /\ Single(c) => jobs[i].ins = {Row(c)}
      BY <2>4, JobsRow
    <3>2. CASE Single(c)
      BY <1>2, <2>4, <3>1, <3>2 DEF FailInv, OwnRowOnly, RowsDrawn
    <3>3. CASE ~Single(c)
      <4>1. IdsOf(rows[c]) \cap Uuids = {}
        BY <1>1, <3>3 DEF FailInv, RowsDrawn
      <4> QED BY <1>2, <2>4, <3>1, <4>1 DEF FailInv, RowsDrawn
    <3> QED BY <3>2, <3>3
  <2> QED BY <2>2, <2>3, <2>4
<1> QED BY <1>1, <1>3, <1>4, <1>5 DEF FailInv

LEMMA CallerFails ==
  ASSUME \A b \in Batches : IdsOf(b) \cap Uuids = {},
         IInv, FailInv, NEW c \in Callers, Call(c) \/ Resume(c) \/ Cancel(c)
  PROVE  FailInv'
<1>0. OthersKept(c) /\ TypeOK
  BY OneCallerMoves DEF IInv
<1>1. CASE RecordEvent(c)
  <2>1. PICK u \in Uuids \ submitted :
          Begin(c, "record_event", <<u>>) /\ Acquire(c, GetLock, "record_event", <<u>>)
    BY <1>1 DEF RecordEvent
  <2>2. JobsGrow(c)
    BY <1>0, <2>1, AcquireGrows DEF Ids
  <2>3. op'[c] = "record_event" /\ rows'[c] = <<u>> /\ submitted \subseteq submitted'
    BY <1>0, <2>1 DEF Begin, TypeOK
  <2>4. ~InCall(c) /\ InCall(c)' /\ UNCHANGED <<pending, durable, failed>>
    BY <1>0, <1>1, <2>1 DEF RecordEvent, InCall, Acquire, IssueFirst, Issue, db, TypeOK
  <2> QED BY <1>0, <2>1, <2>2, <2>3, <2>4, StartFails
<1>2. CASE RecordBatch(c)
  <2>1. PICK b \in Batches :
          /\ Begin(c, "record_events_batch", b)
          /\ Acquire(c, lock, "record_events_batch", b)
    BY <1>2 DEF RecordBatch
  <2>2. {b[1]} \in SUBSET Ids
    <3>1. b \in Seq(Ids) /\ b # <<>>
      BY BatchesAssumption
    <3>2. 1 \in 1..Len(b)
      BY <3>1, EmptySeq
    <3> QED BY <3>1, <3>2, ElementOfSeq
  <2>3. JobsGrow(c)
    BY <1>0, <2>1, <2>2, AcquireGrows
  <2>4. op'[c] = "record_events_batch" /\ rows'[c] = b /\ submitted \subseteq submitted'
    BY <1>0, <2>1 DEF Begin, TypeOK
  <2>5. ~InCall(c) /\ InCall(c)' /\ UNCHANGED <<pending, durable, failed>>
    BY <1>0, <1>2, <2>1 DEF RecordBatch, InCall, Acquire, IssueFirst, Issue, db, TypeOK
  <2> QED BY <1>0, <2>1, <2>3, <2>4, <2>5, StartFails
<1>3. CASE Acquired(c) \/ Begun(c) \/ NextInsert(c) \/ IssueCommit(c) \/ Retry(c) \/ BackOff(c)
  <2>1. /\ UNCHANGED <<pending, durable, submitted, failed, op, rows>>
        /\ InCall(c) /\ InCall(c)'
    BY <1>0, <1>3 DEF Acquired, Begun, NextInsert, IssueCommit, Retry, BackOff, Acquire,
                      IssueFirst, Issue, InCall, db, hist, TypeOK
  <2>2. JobsGrow(c)
    <3>1. {rows[c][1]} \in SUBSET Ids
      BY <2>1, RowsOfCall DEF IInv
    <3>2. CASE Retry(c)
      BY <1>0, <3>1, <3>2, AcquireGrows DEF Retry
    <3>3. CASE Acquired(c)
      BY <1>0, <3>1, <3>3, QueueGrows DEF Acquired, IssueFirst, JobsGrow
    <3>4. CASE Begun(c)
      BY <1>0, <3>1, <3>4, QueueGrows DEF Begun, JobsGrow
    <3>5. CASE NextInsert(c)
      <4>1. next[c] + 1 \in 1..Len(rows[c]) /\ rows[c] \in Seq(Ids)
        BY <1>0, <2>1, <3>5 DEF NextInsert, IInv, NextInRange, TypeOK
      <4>2. {rows[c][next[c] + 1]} \in SUBSET Ids
        BY <4>1, ElementOfSeq
      <4> QED BY <1>0, <3>5, <4>2, QueueGrows DEF NextInsert, JobsGrow
    <3>6. CASE IssueCommit(c)
      BY <1>0, <3>6, QueueGrows DEF IssueCommit, JobsGrow
    <3>7. CASE BackOff(c)
      BY <3>7 DEF BackOff, JobsGrow
    <3> QED BY <1>3, <3>2, <3>3, <3>4, <3>5, <3>6, <3>7
  <2>3. Single(c) /\ Inserted(c, 1) => Inserted(c, 1)'
    <3> SUFFICES ASSUME Single(c), Inserted(c, 1) PROVE Inserted(c, 1)'
      OBVIOUS
    <3>1. next[c] = 1 /\ Len(rows[c]) = 1
      BY SingleRow
    <3>2. IssueCommit(c)
      BY <1>3, <3>1 DEF Inserted, Acquired, Begun, NextInsert, Retry, BackOff
    <3> QED BY <1>0, <3>2 DEF IssueCommit, Issue, Inserted, TypeOK
  <2> QED BY <1>0, <2>1, <2>2, <2>3, ContinueFails
<1>4. CASE Committed(c) \/ Raise(c)
  <2>1. ~InCall(c)' /\ UNCHANGED <<jobs, pending, durable, submitted>>
    BY <1>0, <1>4 DEF Committed, Raise, Finish, InCall, db, TypeOK
  <2>2. \/ failed' = failed
        \/ Single(c) /\ ~Inserted(c, 1) /\ failed' = failed \cup {Row(c)}
    <3>1. CASE Committed(c) \/ (Raise(c) /\ op[c] # "record_event")
      BY <3>1 DEF Committed, Raise
    <3>2. CASE Raise(c) /\ op[c] = "record_event"
      <4>1. Single(c) /\ reply[c] # "ok" /\ pc[c] # "commit"
        BY <3>2 DEF Raise, Single, InCall
      <4>2. next[c] = 1 /\ IdsOf(rows[c]) = {Row(c)}
        BY <4>1, SingleRow
      <4> QED BY <3>2, <4>1, <4>2 DEF Raise, Inserted
    <3> QED BY <1>4, <3>1, <3>2
  <2> QED BY <1>0, <2>1, <2>2, EndFails
<1>5. CASE Cancel(c)
  BY <1>0, <1>5, CancelFails
<1> QED BY <1>1, <1>2, <1>3, <1>4, <1>5 DEF Call, Resume

\* Where the ids record_event draws are not ids of batches, a record_event that raised
\* left its row neither in the file nor in the open transaction, whatever else happens.
\* Code: event_store.py _execute_write, its retries and its missing rollback.
THEOREM FailuresLeaveNothing ==
  ASSUME \A b \in Batches : IdsOf(b) \cap Uuids = {}
  PROVE  Spec => []FailedLeavesNothing
<1>1. Init => FailInv
  BY DEF Init, FailInv, RowsDrawn, OrphansApart, OwnRowOnly, FailedLeavesNothing, Single, InCall
<1>2. IInv /\ FailInv /\ [Next]_vars => FailInv'
  <2> SUFFICES ASSUME IInv, FailInv, [Next]_vars PROVE FailInv'
    OBVIOUS
  <2>1. CASE UNCHANGED vars
    BY <2>1 DEF vars, ctl, db, hist, FailInv, RowsDrawn, OrphansApart, OwnRowOnly,
                FailedLeavesNothing, Single, InCall, Row, Inserted
  <2> QED BY <2>1, WorkerFails, CallerFails DEF Next
<1>3. FailInv => FailedLeavesNothing
  BY DEF FailInv
<1> QED BY <1>1, <1>2, <1>3, Invariance, PTL DEF Spec
===============================================================================
