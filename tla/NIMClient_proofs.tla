--------------------------- MODULE NIMClient_proofs ---------------------------
(***************************************************************************)
(* Proofs about NIMClient, for any tasks, permits, attempts and            *)
(* continuations: permits are conserved, an ainvoke sends a bounded number *)
(* of requests, and all of them together keep to a rate.                   *)
(***************************************************************************)
EXTENDS NIMClient, DataLemmas, FiniteSetTheorems, SequenceTheorems, TLAPS

(***************************************************************************)
(* The semaphore: s with the tasks H that hold a permit.                   *)
(***************************************************************************)
Balanced(s, H) ==
  /\ s \in [permits : Nat, waiters : Seq(Callers)]
  /\ Queue(Callers, s.waiters)
  /\ H \subseteq Callers /\ IsFiniteSet(H)
  /\ s.permits + Cardinality(H) = MaxConcurrent
  /\ s.permits > 0 => s.waiters = <<>>
  /\ \A c \in H : ~Contains(s.waiters, c)

\* The holders once c has released.
Left(s, H, c) == (H \ {c}) \cup (IF s.waiters = <<>> THEN {} ELSE {Head(s.waiters)})

LEMMA ReleasedBalanced ==
  ASSUME NEW s, NEW H, Balanced(s, H), NEW c \in H
  PROVE  /\ Balanced(Released(s), Left(s, H, c))
         /\ c \notin Left(s, H, c) /\ ~Contains(Released(s).waiters, c)
<1>1. /\ s \in [permits : Nat, waiters : Seq(Callers)] /\ Queue(Callers, s.waiters)
      /\ H \subseteq Callers /\ IsFiniteSet(H)
      /\ s.permits + Cardinality(H) = MaxConcurrent
      /\ s.permits > 0 => s.waiters = <<>>
      /\ \A d \in H : ~Contains(s.waiters, d)
  BY DEF Balanced
<1>2. /\ IsFiniteSet(H \ {c}) /\ Cardinality(H \ {c}) = Cardinality(H) - 1
      /\ Cardinality(H) \in Nat
  BY <1>1, FS_RemoveElement, FS_CardinalityType
<1>3. CASE s.waiters = <<>>
  <2>1. Left(s, H, c) = H \ {c}
    BY <1>3 DEF Left
  <2>2. /\ Released(s) \in [permits : Nat, waiters : Seq(Callers)]
        /\ Released(s).permits = s.permits + 1 /\ Released(s).waiters = <<>>
    BY <1>1, <1>3 DEF Released
  <2>3. s.permits + 1 + (Cardinality(H) - 1) = MaxConcurrent
    BY <1>1, <1>2
  <2> QED BY <1>1, <1>2, <1>3, <2>1, <2>2, <2>3, NobodyWaits DEF Balanced
<1>4. CASE s.waiters # <<>>
  <2> DEFINE h == Head(s.waiters)
  <2>1. /\ Queue(Callers, Tail(s.waiters)) /\ h \in Callers /\ Contains(s.waiters, h)
        /\ \A d : Contains(Tail(s.waiters), d) <=> Contains(s.waiters, d) /\ d # h
    BY <1>1, <1>4, Served
  <2>2. /\ Released(s) \in [permits : Nat, waiters : Seq(Callers)]
        /\ Released(s).permits = s.permits /\ Released(s).waiters = Tail(s.waiters)
    BY <1>1, <1>4, <2>1 DEF Released, Queue
  <2>3. h \notin H
    BY <1>1, <2>1
  <2>4. Left(s, H, c) = (H \ {c}) \cup {h}
    BY <1>4 DEF Left
  <2>5. /\ IsFiniteSet((H \ {c}) \cup {h})
        /\ Cardinality((H \ {c}) \cup {h}) = Cardinality(H \ {c}) + 1
    BY <1>2, <2>3, FS_AddElement
  <2>6. Cardinality((H \ {c}) \cup {h}) = Cardinality(H)
    BY <1>2, <2>5
  <2> HIDE DEF h
  <2> QED BY <1>1, <1>4, <2>1, <2>2, <2>3, <2>4, <2>5, <2>6 DEF Balanced
<1> QED BY <1>3, <1>4

LEMMA TakenBalanced ==
  ASSUME NEW s, NEW H, Balanced(s, H), s.permits > 0, NEW c \in Callers \ H
  PROVE  Balanced([s EXCEPT !.permits = @ - 1], H \cup {c})
<1>1. /\ s \in [permits : Nat, waiters : Seq(Callers)] /\ Queue(Callers, s.waiters)
      /\ H \subseteq Callers /\ IsFiniteSet(H)
      /\ s.permits + Cardinality(H) = MaxConcurrent /\ s.waiters = <<>>
  BY DEF Balanced
<1>2. /\ IsFiniteSet(H \cup {c}) /\ Cardinality(H \cup {c}) = Cardinality(H) + 1
      /\ Cardinality(H) \in Nat
  BY <1>1, FS_AddElement, FS_CardinalityType
<1> DEFINE t == [s EXCEPT !.permits = @ - 1]
<1>3. /\ t \in [permits : Nat, waiters : Seq(Callers)]
      /\ t.permits = s.permits - 1 /\ t.waiters = <<>>
  BY <1>1
<1>4. s.permits - 1 + (Cardinality(H) + 1) = MaxConcurrent
  BY <1>1, <1>2
<1> HIDE DEF t
<1>5. Balanced(t, H \cup {c})
  BY <1>1, <1>2, <1>3, <1>4, NobodyWaits DEF Balanced
<1> QED BY <1>5 DEF t

LEMMA QueuedBalanced ==
  ASSUME NEW s, NEW H, Balanced(s, H), s.permits = 0,
         NEW c \in Callers \ H, ~Contains(s.waiters, c)
  PROVE  Balanced([s EXCEPT !.waiters = Append(@, c)], H)
<1>1. /\ s \in [permits : Nat, waiters : Seq(Callers)] /\ Queue(Callers, s.waiters)
      /\ \A d \in H : ~Contains(s.waiters, d)
  BY DEF Balanced
<1>2. /\ Queue(Callers, Append(s.waiters, c))
      /\ \A d : Contains(Append(s.waiters, c), d) <=> Contains(s.waiters, d) \/ d = c
  BY <1>1, Joined
<1> DEFINE t == [s EXCEPT !.waiters = Append(@, c)]
<1>3. /\ t \in [permits : Nat, waiters : Seq(Callers)]
      /\ t.permits = 0 /\ t.waiters = Append(s.waiters, c)
  BY <1>1, <1>2 DEF Queue
<1> HIDE DEF t
<1>4. Balanced(t, H)
  BY <1>1, <1>2, <1>3 DEF Balanced
<1> QED BY <1>4 DEF t

LEMMA WithdrawnBalanced ==
  ASSUME NEW s, NEW H, Balanced(s, H), NEW c, Contains(s.waiters, c)
  PROVE  /\ Balanced(Withdrawn(s, c), H)
         /\ \A d : Contains(Withdrawn(s, c).waiters, d) <=> Contains(s.waiters, d) /\ d # c
<1> DEFINE p == CHOOSE i \in DOMAIN s.waiters : s.waiters[i] = c
           v == RemoveAt(s.waiters, p)
<1>1. /\ s \in [permits : Nat, waiters : Seq(Callers)] /\ Queue(Callers, s.waiters)
      /\ s.permits > 0 => s.waiters = <<>>
      /\ \A d \in H : ~Contains(s.waiters, d)
  BY DEF Balanced
<1>2. p \in 1..Len(s.waiters) /\ s.waiters[p] = c
  BY <1>1, LenProperties DEF Contains, Queue
<1>3. /\ Queue(Callers, v)
      /\ \A d : Contains(v, d) <=> Contains(s.waiters, d) /\ d # c
  BY <1>1, <1>2, Removed
<1>4. /\ Withdrawn(s, c) \in [permits : Nat, waiters : Seq(Callers)]
      /\ Withdrawn(s, c).permits = s.permits /\ Withdrawn(s, c).waiters = v
  BY <1>1, <1>3 DEF Withdrawn, Queue
<1>5. s.waiters # <<>>
  BY NobodyWaits
<1> HIDE DEF p, v
<1> QED BY <1>1, <1>3, <1>4, <1>5 DEF Balanced

(***************************************************************************)
(* Permits are conserved.                                                  *)
(***************************************************************************)
Holders == {c \in Callers : Holding(c)}

PInv ==
  /\ pc \in [Callers -> PCs]
  /\ Balanced(sem, Holders)
  /\ \A c \in Callers : Contains(sem.waiters, c) => pc[c] = "semaphore"

Holds(where, s, d) == \/ where \in {"sleep", "request"}
                      \/ where = "semaphore" /\ ~Contains(s.waiters, d)

\* H and the queue of s are right for every task but c.
Others(s, H, c) ==
  \A d \in Callers \ {c} : /\ d \in H <=> Holds(pc[d], s, d)
                           /\ Contains(s.waiters, d) => pc[d] = "semaphore"

\* Only c moves, and H and the queue are right for where it goes.
LEMMA Moved ==
  ASSUME PInv, NEW c \in Callers, NEW where \in PCs, pc' = [pc EXCEPT ![c] = where],
         NEW H, Balanced(sem', H), Others(sem', H, c),
         c \in H <=> Holds(where, sem', c),
         Contains(sem'.waiters, c) => where = "semaphore"
  PROVE  PInv'
<1>1. pc' \in [Callers -> PCs] /\ H \subseteq Callers
  BY DEF PInv, Balanced
<1>2. ASSUME NEW d \in Callers PROVE /\ d \in H <=> d \in Holders'
                                     /\ Contains(sem'.waiters, d) => pc'[d] = "semaphore"
  <2>1. CASE d = c
    BY <1>1, <2>1 DEF PInv, Holders, Holding, Waiting, Holds
  <2>2. CASE d # c
    BY <1>1, <2>2 DEF PInv, Holders, Holding, Waiting, Others, Holds
  <2> QED BY <2>1, <2>2
<1>3. H = Holders'
  BY <1>1, <1>2 DEF Holders
<1> QED BY <1>1, <1>2, <1>3 DEF PInv

LEMMA PInvOthers ==
  ASSUME PInv, NEW c \in Callers
  PROVE  /\ Others(sem, Holders, c)
         /\ c \in Holders <=> Holds(pc[c], sem, c)
         /\ Contains(sem.waiters, c) => pc[c] = "semaphore"
BY DEF PInv, Others, Holders, Holding, Waiting, Holds

LEMMA ReleasedOthers ==
  ASSUME PInv, NEW c \in Holders
  PROVE  /\ Balanced(Released(sem), Left(sem, Holders, c))
         /\ Others(Released(sem), Left(sem, Holders, c), c)
         /\ c \notin Left(sem, Holders, c) /\ ~Contains(Released(sem).waiters, c)
<1> DEFINE s == Released(sem)
           H == Left(sem, Holders, c)
<1>1. Balanced(s, H) /\ c \notin H /\ ~Contains(s.waiters, c)
  BY ReleasedBalanced DEF PInv
<1>2. c \in Callers /\ sem \in [permits : Nat, waiters : Seq(Callers)] /\ Queue(Callers, sem.waiters)
  BY DEF PInv, Balanced, Holders
<1>3. Others(sem, Holders, c)
  BY <1>2, PInvOthers
<1>4. ASSUME NEW d \in Callers \ {c}
      PROVE  /\ d \in H <=> Holds(pc[d], s, d)
             /\ Contains(s.waiters, d) => pc[d] = "semaphore"
  <2>1. /\ d \in Holders <=> Holds(pc[d], sem, d)
        /\ Contains(sem.waiters, d) => pc[d] = "semaphore"
    BY <1>3 DEF Others
  <2>2. CASE sem.waiters = <<>>
    <3>1. s.waiters = <<>> /\ (d \in H <=> d \in Holders)
      BY <1>2, <2>2 DEF Released, Left
    <3> QED BY <2>1, <2>2, <3>1 DEF Holds
  <2>3. CASE sem.waiters # <<>>
    <3>1. /\ Contains(sem.waiters, Head(sem.waiters))
          /\ Contains(Tail(sem.waiters), d) <=> Contains(sem.waiters, d) /\ d # Head(sem.waiters)
      BY <1>2, <2>3, Served
    <3>2. /\ s.waiters = Tail(sem.waiters)
          /\ d \in H <=> d \in Holders \/ d = Head(sem.waiters)
      BY <1>2, <2>3 DEF Released, Left
    <3> QED BY <2>1, <3>1, <3>2 DEF Holds
  <2> QED BY <2>2, <2>3
<1>5. Others(s, H, c)
  BY <1>4 DEF Others
<1> QED BY <1>1, <1>5

LEMMA AcquirePInv ==
  ASSUME PInv, NEW c \in Callers, NEW s, NEW H, Balanced(s, H), Others(s, H, c),
         c \notin H, ~Contains(s.waiters, c), Acquire(c, s)
  PROVE  PInv'
<1>0. s \in [permits : Nat, waiters : Seq(Callers)] /\ Queue(Callers, s.waiters)
  BY DEF Balanced
<1>1. CASE s.permits > 0 /\ sem' = [s EXCEPT !.permits = @ - 1] /\ Take(c)
  <2>1. Balanced(sem', H \cup {c}) /\ sem'.waiters = s.waiters
    BY <1>0, <1>1, TakenBalanced
  <2>2. PICK where \in {"sleep", "request"} : pc' = [pc EXCEPT ![c] = where]
    BY <1>1 DEF Take, SendRequest
  <2>3. Others(sem', H \cup {c}, c)
    BY <2>1 DEF Others, Holds
  <2> QED BY <2>1, <2>2, <2>3, Moved DEF Holds, PCs
<1>2. CASE /\ s.permits = 0 /\ sem' = [s EXCEPT !.waiters = Append(@, c)]
           /\ pc' = [pc EXCEPT ![c] = "semaphore"]
  <2>1. Balanced(sem', H)
    BY <1>2, QueuedBalanced
  <2>2. \A d : Contains(sem'.waiters, d) <=> Contains(s.waiters, d) \/ d = c
    BY <1>0, <1>2, Joined
  <2>3. Others(sem', H, c)
    BY <2>2 DEF Others, Holds
  <2> QED BY <1>2, <2>1, <2>2, <2>3, Moved DEF Holds, PCs
<1> QED BY <1>1, <1>2 DEF Acquire

\* A task that gives its permit back and goes where it holds none.
LEMMA GiveBackPInv ==
  ASSUME PInv, NEW c \in Holders, sem' = Released(sem),
         NEW where \in {"backoff", "returned", "raised", "cancelled"},
         pc' = [pc EXCEPT ![c] = where]
  PROVE  PInv'
<1>1. c \in Callers
  BY DEF Holders
<1> QED BY <1>1, ReleasedOthers, Moved DEF Holds, PCs

LEMMA CancelPInv ==
  ASSUME PInv, NEW c \in Callers, Cancel(c)
  PROVE  PInv'
<1>1. pc' = [pc EXCEPT ![c] = "cancelled"]
  BY DEF Cancel
<1>2. CASE Holding(c)
  <2>1. c \in Holders /\ sem' = Released(sem)
    BY <1>2 DEF Cancel, Holders
  <2> QED BY <1>1, <2>1, GiveBackPInv
<1>3. CASE ~Holding(c) /\ Waiting(c)
  <2>1. sem' = Withdrawn(sem, c) /\ Contains(sem.waiters, c) /\ c \notin Holders
    BY <1>3 DEF Cancel, Holders, Waiting
  <2>2. /\ Balanced(sem', Holders)
        /\ \A d : Contains(sem'.waiters, d) <=> Contains(sem.waiters, d) /\ d # c
    BY <2>1, WithdrawnBalanced DEF PInv
  <2>3. Others(sem', Holders, c)
    BY <2>2, PInvOthers DEF Others, Holds
  <2> QED BY <1>1, <2>1, <2>2, <2>3, Moved DEF Holds, PCs
<1>4. CASE ~Holding(c) /\ ~Waiting(c)
  <2>1. sem' = sem /\ c \notin Holders /\ ~Contains(sem.waiters, c)
    BY <1>4, PInvOthers DEF Cancel, Holders, Holding, Waiting
  <2>2. Balanced(sem', Holders) /\ Others(sem', Holders, c)
    BY <2>1, PInvOthers DEF PInv
  <2> QED BY <1>1, <2>1, <2>2, Moved DEF Holds, PCs
<1> QED BY <1>2, <1>3, <1>4

\* A task that keeps its permit.
LEMMA KeepPInv ==
  ASSUME PInv, NEW c \in Callers, c \in Holders, sem' = sem,
         ~Contains(sem.waiters, c),
         NEW where \in {"sleep", "request"}, pc' = [pc EXCEPT ![c] = where]
  PROVE  PInv'
<1>1. Balanced(sem', Holders) /\ Others(sem', Holders, c)
  BY PInvOthers DEF PInv
<1> QED BY <1>1, Moved DEF Holds, PCs

LEMMA InitPInv == Init => PInv
<1> SUFFICES ASSUME Init PROVE PInv
  OBVIOUS
<1>1. pc \in [Callers -> PCs]
  BY DEF Init, PCs
<1>2. Holders = {}
  BY DEF Init, Holders, Holding
<1>3. /\ sem \in [permits : Nat, waiters : Seq(Callers)]
      /\ sem.waiters = <<>> /\ sem.permits = MaxConcurrent /\ MaxConcurrent \in Nat
  BY PositiveAssumption, EmptySeq DEF Init
<1>4. MaxConcurrent + 0 = MaxConcurrent
  BY <1>3
<1>5. Balanced(sem, {})
  BY <1>3, <1>4, FS_EmptySet, NobodyWaits DEF Balanced
<1> QED BY <1>1, <1>2, <1>3, <1>5, NobodyWaits DEF PInv

LEMMA StepPInv == PInv /\ [Next]_vars => PInv'
<1> SUFFICES ASSUME PInv, [Next]_vars PROVE PInv'
  OBVIOUS
<1>0. ASSUME NEW c \in Callers, pc[c] \notin {"semaphore", "sleep", "request"}
      PROVE  /\ Balanced(sem, Holders) /\ Others(sem, Holders, c)
             /\ c \notin Holders /\ ~Contains(sem.waiters, c)
  BY <1>0, PInvOthers DEF PInv, Holds
<1>1. CASE UNCHANGED vars \/ Tick
  <2>1. pc' = pc /\ sem' = sem
    BY <1>1 DEF vars, task, Tick
  <2> QED BY <2>1 DEF PInv, Holders, Holding, Waiting
<1>2. ASSUME NEW c \in Callers, Invoke(c) \/ Retry(c) PROVE PInv'
  <2>1. pc[c] \notin {"semaphore", "sleep", "request"} /\ Acquire(c, sem)
    BY <1>2 DEF Invoke, Retry
  <2> QED BY <1>0, <2>1, AcquirePInv
<1>3. ASSUME NEW c \in Callers, Granted(c) \/ Slept(c) PROVE PInv'
  <2>1. c \in Holders /\ ~Contains(sem.waiters, c) /\ sem' = sem
    BY <1>3, PInvOthers DEF Granted, Slept, Holders, Holding, Waiting
  <2>2. PICK where \in {"sleep", "request"} : pc' = [pc EXCEPT ![c] = where]
    BY <1>3 DEF Granted, Slept, Take, SendRequest
  <2> QED BY <2>1, <2>2, KeepPInv
<1>4. ASSUME NEW c \in Callers, pc[c] = "request" PROVE c \in Holders
  BY <1>4 DEF Holders, Holding
<1>5. ASSUME NEW c \in Callers, Answered(c) \/ Failed(c) \/ Fatal(c) PROVE PInv'
  <2>1. pc[c] = "request" /\ sem' = Released(sem)
    BY <1>5 DEF Answered, Failed, Fatal
  <2>2. PICK where \in {"backoff", "returned", "raised", "cancelled"} : pc' = [pc EXCEPT ![c] = where]
    BY <1>5 DEF Answered, Failed, Fatal
  <2> QED BY <1>4, <2>1, <2>2, GiveBackPInv
<1>6. ASSUME NEW c \in Callers, Truncated(c) PROVE PInv'
  <2>1. c \in Holders /\ Acquire(c, Released(sem))
    BY <1>4, <1>6 DEF Truncated
  <2> QED BY <2>1, ReleasedOthers, AcquirePInv
<1>7. ASSUME NEW c \in Callers, Cancel(c) PROVE PInv'
  BY <1>7, CancelPInv
<1> QED BY <1>1, <1>2, <1>3, <1>5, <1>6, <1>7 DEF Next, Resume

(***************************************************************************)
(* Requests are bounded.                                                   *)
(***************************************************************************)
\* A request may still be sent for the current attempt.
Unsent(c) == IF pc[c] \in {"idle", "semaphore", "sleep", "backoff"} THEN 1 ELSE 0

RInv ==
  /\ DOMAIN pc = Callers
  /\ attempt \in [Callers -> 1..MaxAttempts]
  /\ continuations \in [Callers -> 0..MaxContinuations]
  /\ sent \in [Callers -> Nat]
  /\ \A c \in Callers : sent[c] + Unsent(c) <= continuations[c] * MaxAttempts + attempt[c]

\* The attempts of the continuations before the next one.
LEMMA NextContinuation ==
  ASSUME NEW k \in Nat, NEW m \in Nat, NEW a \in 1..m, NEW n \in Nat, n <= k * m + a
  PROVE  n + 1 <= (k + 1) * m + 1
<1>1. (k + 1) * m = k * m + m /\ k * m \in Nat
  OBVIOUS
<1> QED BY <1>1

\* The attempts of all continuations.
LEMMA AllContinuations ==
  ASSUME NEW l \in Nat, NEW k \in 0..l, NEW m \in Nat, NEW a \in 1..m,
         NEW n \in Nat, n <= k * m + a
  PROVE  n <= m * (l + 1)
<1>1. PICK d \in Nat : l = k + d
  BY l - k \in Nat
<1>2. m * (l + 1) = k * m + d * m + m /\ k * m \in Nat /\ d * m \in Nat
  BY <1>1
<1> QED BY <1>2

\* Once acquire returns to the loop, the request of this attempt is sent or not.
LEMMA AcquireSends ==
  ASSUME DOMAIN pc = Callers, sent \in [Callers -> Nat], NEW c \in Callers, NEW s,
         Acquire(c, s) \/ Take(c)
  PROVE  /\ DOMAIN pc' = Callers /\ sent' \in [Callers -> Nat]
         /\ sent'[c] + Unsent(c)' = sent[c] + 1
         /\ \A d \in Callers \ {c} : pc'[d] = pc[d] /\ sent'[d] = sent[d]
BY DEF Acquire, Take, SendRequest, Unsent, meters

LEMMA InitRInv == Init => RInv
<1> SUFFICES ASSUME Init PROVE RInv
  OBVIOUS
<1>1. MaxAttempts \in Nat \ {0} /\ MaxContinuations \in Nat
  BY PositiveAssumption, ContinuationsAssumption
<1>2. 0 * MaxAttempts = 0
  BY <1>1
<1> QED BY <1>1, <1>2 DEF Init, RInv, Unsent

LEMMA StepRInv == RInv /\ [Next]_vars => RInv'
<1> SUFFICES ASSUME RInv, [Next]_vars PROVE RInv'
  OBVIOUS
<1>0. MaxAttempts \in Nat \ {0} /\ MaxContinuations \in Nat
  BY PositiveAssumption, ContinuationsAssumption
<1> DEFINE Bound(c) == sent[c] + Unsent(c) <= continuations[c] * MaxAttempts + attempt[c]
<1>1. CASE UNCHANGED vars \/ Tick
  BY <1>1 DEF vars, task, Tick, RInv, Unsent
<1>2. ASSUME NEW c \in Callers, Invoke(c) \/ Retry(c) \/ Granted(c) \/ Slept(c)
      PROVE  RInv'
  <2>1. UNCHANGED <<attempt, continuations>> /\ Unsent(c) = 1
    BY <1>2 DEF Invoke, Retry, Granted, Slept, Unsent
  <2>2. /\ DOMAIN pc' = Callers /\ sent' \in [Callers -> Nat]
        /\ sent'[c] + Unsent(c)' = sent[c] + 1
        /\ \A d \in Callers \ {c} : pc'[d] = pc[d] /\ sent'[d] = sent[d]
    <3>1. CASE Invoke(c) \/ Retry(c) \/ Granted(c)
      BY <3>1, AcquireSends DEF Invoke, Retry, Granted, RInv
    <3>2. CASE Slept(c)
      BY <3>2 DEF Slept, SendRequest, Unsent, RInv
    <3> QED BY <1>2, <3>1, <3>2
  <2>3. ASSUME NEW d \in Callers PROVE Bound(d)'
    <3>1. CASE d = c
      BY <2>1, <2>2, <3>1 DEF RInv
    <3>2. CASE d # c
      BY <2>1, <2>2, <3>2 DEF RInv, Unsent
    <3> QED BY <3>1, <3>2
  <2> QED BY <2>1, <2>2, <2>3 DEF RInv
<1>3. ASSUME NEW c \in Callers, Answered(c) \/ Failed(c) \/ Fatal(c) \/ Cancel(c)
      PROVE  RInv'
  <2>1. UNCHANGED <<continuations, sent>>
    BY <1>3 DEF Answered, Failed, Fatal, Cancel
  <2>2. /\ DOMAIN pc' = Callers /\ attempt' \in [Callers -> 1..MaxAttempts]
        /\ attempt'[c] - Unsent(c)' >= attempt[c] - Unsent(c)
        /\ \A d \in Callers \ {c} : pc'[d] = pc[d] /\ attempt'[d] = attempt[d]
    <3>1. CASE Answered(c) \/ Fatal(c)
      BY <1>0, <3>1 DEF Answered, Fatal, RInv, Unsent
    <3>2. CASE Failed(c)
      BY <1>0, <3>2 DEF Failed, RInv, Unsent
    <3>3. CASE Cancel(c)
      BY <1>0, <3>3 DEF Cancel, RInv, Unsent
    <3> QED BY <1>3, <3>1, <3>2, <3>3
  <2>3. ASSUME NEW d \in Callers PROVE Bound(d)'
    <3>0. continuations[d] * MaxAttempts \in Nat
      BY <1>0 DEF RInv
    <3>1. CASE d = c
      BY <2>1, <2>2, <3>0, <3>1 DEF RInv, Unsent
    <3>2. CASE d # c
      BY <2>1, <2>2, <3>2 DEF RInv, Unsent
    <3> QED BY <3>1, <3>2
  <2> QED BY <2>1, <2>2, <2>3 DEF RInv
<1>4. ASSUME NEW c \in Callers, Truncated(c) PROVE RInv'
  <2>1. /\ pc[c] = "request" /\ continuations[c] < MaxContinuations
        /\ continuations' = [continuations EXCEPT ![c] = @ + 1]
        /\ attempt' = [attempt EXCEPT ![c] = 1]
    BY <1>4 DEF Truncated
  <2>2. /\ DOMAIN pc' = Callers /\ sent' \in [Callers -> Nat]
        /\ sent'[c] + Unsent(c)' = sent[c] + 1
        /\ \A d \in Callers \ {c} : pc'[d] = pc[d] /\ sent'[d] = sent[d]
    BY <1>4, AcquireSends DEF Truncated, RInv
  <2>3. /\ attempt' \in [Callers -> 1..MaxAttempts]
        /\ continuations' \in [Callers -> 0..MaxContinuations]
    BY <1>0, <2>1 DEF RInv
  <2>4. ASSUME NEW d \in Callers PROVE Bound(d)'
    <3>1. CASE d = c
      <4>1. sent[c] <= continuations[c] * MaxAttempts + attempt[c]
        BY <2>1 DEF RInv, Unsent
      <4>2. sent[c] + 1 <= (continuations[c] + 1) * MaxAttempts + 1
        BY <1>0, <4>1, NextContinuation DEF RInv
      <4>3. continuations'[c] = continuations[c] + 1 /\ attempt'[c] = 1
        BY <2>1 DEF RInv
      <4> QED BY <2>2, <3>1, <4>2, <4>3
    <3>2. CASE d # c
      BY <2>1, <2>2, <3>2 DEF RInv, Unsent
    <3> QED BY <3>1, <3>2
  <2> QED BY <2>2, <2>3, <2>4 DEF RInv
<1> QED BY <1>1, <1>2, <1>3, <1>4 DEF Next, Resume

(***************************************************************************)
(* The rate.                                                               *)
(***************************************************************************)
\* The ticks a task has been given for its token, one by one.
Ticks(c, n) == {<<c, i>> : i \in 1..n}

LEMMA TicksCounted ==
  ASSUME NEW c, NEW n \in Nat
  PROVE  IsFiniteSet(Ticks(c, n)) /\ Cardinality(Ticks(c, n)) = n
<1> DEFINE f == [i \in 1..n |-> <<c, i>>]
<1>1. f \in Surjection(1..n, Ticks(c, n)) /\ f \in Injection(1..n, Ticks(c, n))
  BY DEF Surjection, Injection, IsInjective, Ticks
<1>2. IsFiniteSet(1..n) /\ Cardinality(1..n) = n
  BY FS_Interval
<1> HIDE DEF f
<1> QED BY <1>1, <1>2, FS_Surjection

Filled == AtMost(Full, tokens + age)

\* A sleeping task has of its token what it took from the bucket and what it has slept.
Credit == {x \in Callers \X (1..Cost) : pc[x[1]] = "sleep" /\ x[2] <= Cost - remaining[x[1]]}

\* The meter of the rate the code keeps to is charged once for a request; until then
\* the bucket and the sleeping tasks have that much.
Covered ==
  /\ tokens \in 0..Full /\ age \in Nat /\ remaining \in [Callers -> 0..Cost]
  /\ actual \in Int /\ Filled + Cardinality(Credit) <= actual

Sleepers == {c \in Callers : pc[c] = "sleep"}

LEMMA Sizes == /\ MaxConcurrent \in Nat \ {0} /\ Cost \in Nat \ {0}
               /\ Full \in Nat \ {0} /\ MaxConcurrent * Cost \in Nat
               /\ Burst = Full + MaxConcurrent * Cost /\ Burst \in Nat /\ Cost <= Full
<1>1. MaxConcurrent \in Nat \ {0} /\ Capacity \in Nat \ {0} /\ Cost \in Nat \ {0}
  BY PositiveAssumption
<1>2. \A a, b \in Nat \ {0} : a * b \in Nat \ {0} /\ b <= a * b
  OBVIOUS
<1> QED BY <1>1, <1>2 DEF Full, Burst

LEMMA FewSleepers ==
  ASSUME PInv
  PROVE  IsFiniteSet(Sleepers) /\ Cardinality(Sleepers) \in 0..MaxConcurrent
<1>1. /\ IsFiniteSet(Holders) /\ sem.permits \in Nat
      /\ sem.permits + Cardinality(Holders) = MaxConcurrent
  BY DEF PInv, Balanced
<1>2. Sleepers \subseteq Holders
  BY DEF Sleepers, Holders, Holding
<1>3. IsFiniteSet(Sleepers) /\ Cardinality(Sleepers) <= Cardinality(Holders)
  BY <1>1, <1>2, FS_Subset
<1>4. Cardinality(Sleepers) \in Nat /\ Cardinality(Holders) \in Nat
  BY <1>1, <1>3, FS_CardinalityType
<1> QED BY <1>1, <1>3, <1>4, Sizes

\* No more than a token for every permit.
LEMMA CreditFits ==
  ASSUME PInv, NEW U, U \subseteq Sleepers \X (1..Cost)
  PROVE  IsFiniteSet(U) /\ Cardinality(U) \in 0..MaxConcurrent * Cost
<1> DEFINE S == Sleepers
           C == 1..Cost
           p == Cardinality(S \X C)
           u == Cardinality(U)
<1>1. IsFiniteSet(S) /\ Cardinality(S) \in 0..MaxConcurrent
  BY FewSleepers
<1>2. IsFiniteSet(C) /\ Cardinality(C) = Cost
  BY Sizes, FS_Interval
<1>3. U \subseteq S \X C
  OBVIOUS
<1> HIDE DEF S, C
<1>4. IsFiniteSet(S \X C) /\ p = Cardinality(S) * Cardinality(C)
  BY <1>1, <1>2, FS_Product
<1>5. IsFiniteSet(U) /\ u <= p
  BY <1>3, <1>4, FS_Subset
<1>6. u \in Nat
  BY <1>5, FS_CardinalityType
<1>7. \A k \in Nat : \A m \in Nat : \A s \in 0..m : s * k <= m * k
  OBVIOUS
<1>8. p <= MaxConcurrent * Cost
  BY <1>1, <1>2, <1>4, <1>7, Sizes
<1>9. p \in Nat /\ MaxConcurrent * Cost \in Nat
  BY <1>4, FS_CardinalityType, Sizes
<1> HIDE DEF p, u
<1>10. u \in 0..MaxConcurrent * Cost
  <2> DEFINE q == MaxConcurrent * Cost
  <2>1. q \in Nat /\ p <= q
    BY <1>8, <1>9
  <2> HIDE DEF q
  <2>2. u \in 0..q
    BY <1>5, <1>6, <1>9, <2>1
  <2> QED BY <2>2 DEF q
<1> QED BY <1>5, <1>10 DEF u

LEMMA CreditBounded ==
  ASSUME PInv
  PROVE  IsFiniteSet(Credit) /\ Cardinality(Credit) \in Nat
<1>1. Credit \subseteq Sleepers \X (1..Cost)
  BY DEF Credit, Sleepers
<1>2. IsFiniteSet(Credit)
  BY <1>1, CreditFits
<1> QED BY <1>2, FS_CardinalityType

\* A step that charges nothing, fills nothing and lets nobody begin to sleep.
LEMMA NothingCharged ==
  ASSUME PInv, Covered, UNCHANGED <<tokens, age, actual>>,
         remaining' \in [Callers -> 0..Cost], Credit' \subseteq Credit
  PROVE  Covered'
<1>1. IsFiniteSet(Credit) /\ Cardinality(Credit) \in Nat
  BY CreditBounded
<1>2. IsFiniteSet(Credit') /\ Cardinality(Credit') <= Cardinality(Credit)
  BY <1>1, FS_Subset
<1>3. Cardinality(Credit') \in Nat
  BY <1>2, FS_CardinalityType
<1>4. Filled' = Filled /\ Filled \in Int
  BY Sizes DEF Filled, AtMost, Covered
<1> HIDE DEF Filled
<1> QED BY <1>1, <1>2, <1>3, <1>4 DEF Covered, Filled

\* Every step but Take, Slept and Tick is of that kind.
LEMMA LeavesCovered ==
  ASSUME PInv, Covered, NEW c \in Callers, NEW where \in PCs \ {"sleep"},
         pc' = [pc EXCEPT ![c] = where], UNCHANGED <<tokens, age, actual>>,
         remaining' = remaining \/ remaining' = [remaining EXCEPT ![c] = 0]
  PROVE  Covered'
<1>1. /\ pc \in [Callers -> PCs] /\ remaining \in [Callers -> 0..Cost]
      /\ 0 \in 0..Cost
  BY Sizes DEF PInv, Covered
<1>2. remaining' \in [Callers -> 0..Cost]
  BY <1>1
<1>3. /\ pc'[c] # "sleep"
      /\ \A d \in Callers \ {c} : pc'[d] = pc[d] /\ remaining'[d] = remaining[d]
  BY <1>1
<1>4. Credit' \subseteq Credit
  BY <1>3 DEF Credit
<1> QED BY <1>2, <1>4, NothingCharged

LEMMA TakeCovered ==
  ASSUME PInv, Covered, NEW c \in Callers, pc[c] # "sleep", Take(c)
  PROVE  Covered'
<1> DEFINE n == Cardinality(Credit)
           m == Cardinality(Credit')
           filled == Filled
<1>0. /\ IsFiniteSet(Credit) /\ n \in Nat
      /\ filled \in 0..Full /\ filled + n <= actual /\ actual \in Int
      /\ pc \in [Callers -> PCs] /\ remaining \in [Callers -> 0..Cost]
      /\ Cost \in Nat \ {0} /\ Cost <= Full /\ Full \in Nat
  BY CreditBounded, Sizes DEF Covered, Filled, AtMost, PInv
<1>1. age' = 0 /\ filled = AtMost(Full, tokens + age)
  BY DEF Take, Filled
<1> HIDE DEF n, m, filled
<1>2. CASE filled >= Cost
  <2>1. /\ tokens' = filled - Cost /\ remaining' = remaining
        /\ pc' = [pc EXCEPT ![c] = "request"] /\ actual' = Charge(actual)
    BY <1>0, <1>1, <1>2 DEF Take, SendRequest
  <2>2. \A d \in Callers : pc'[d] = "sleep" => pc[d] = "sleep"
    BY <1>0, <2>1
  <2>3. Credit' \subseteq Credit
    BY <2>1, <2>2 DEF Credit
  <2>4. IsFiniteSet(Credit') /\ m <= n
    BY <1>0, <2>3, FS_Subset DEF m, n
  <2>5. m \in Nat
    BY <2>4, FS_CardinalityType DEF m
  <2>6. actual' = actual - Cost
    BY <1>0, <1>2, <2>1 DEF Charge, AtLeast
  <2>7. Filled' = filled - Cost
    BY <1>0, <1>1, <1>2, <2>1 DEF Filled, AtMost
  <2>8. Filled' + m <= actual' /\ actual' \in Int /\ tokens' \in 0..Full
    BY <1>0, <1>2, <2>1, <2>4, <2>5, <2>6, <2>7
  <2> QED BY <1>0, <1>1, <2>1, <2>8 DEF Covered, m
<1>3. CASE filled < Cost
  <2>1. /\ tokens' = 0 /\ remaining' = [remaining EXCEPT ![c] = Cost - filled]
        /\ pc' = [pc EXCEPT ![c] = "sleep"] /\ actual' = actual
    BY <1>0, <1>1, <1>3 DEF Take, SendRequest, meters
  <2>2. Cost - filled \in 0..Cost
    BY <1>0, <1>3
  <2>3. remaining' \in [Callers -> 0..Cost] /\ Cost - remaining'[c] = filled
    BY <1>0, <2>1, <2>2
  <2>4. \A d \in Callers \ {c} : pc'[d] = pc[d] /\ remaining'[d] = remaining[d]
    BY <1>0, <2>1
  <2>5. Credit' \subseteq Credit \cup Ticks(c, filled)
    <3>1. ASSUME NEW d \in Callers, NEW i \in 1..Cost, pc'[d] = "sleep", i <= Cost - remaining'[d]
          PROVE  <<d, i>> \in Credit \cup Ticks(c, filled)
      <4>1. CASE d = c
        <5>1. i \in 1..filled
          BY <1>0, <2>3, <3>1, <4>1
        <5> QED BY <4>1, <5>1 DEF Ticks
      <4>2. CASE d # c
        BY <2>4, <3>1, <4>2 DEF Credit
      <4> QED BY <4>1, <4>2
    <3> QED BY <3>1 DEF Credit
  <2>6. IsFiniteSet(Ticks(c, filled)) /\ Cardinality(Ticks(c, filled)) = filled
    BY <1>0, TicksCounted
  <2>7. IsFiniteSet(Credit') /\ m <= n + filled
    BY <1>0, <2>5, <2>6, OfTwo DEF m, n
  <2>8. m \in Nat
    BY <2>7, FS_CardinalityType DEF m
  <2>9. Filled' = 0
    BY <1>0, <1>1, <2>1 DEF Filled, AtMost
  <2>10. Filled' + m <= actual' /\ actual' \in Int /\ tokens' \in 0..Full
    BY <1>0, <2>1, <2>7, <2>8, <2>9
  <2> QED BY <1>1, <2>3, <2>10 DEF Covered, m
<1> QED BY <1>0, <1>2, <1>3

LEMMA SleptCovered ==
  ASSUME PInv, Covered, NEW c \in Callers, Slept(c)
  PROVE  Covered'
<1> DEFINE n == Cardinality(Credit)
           m == Cardinality(Credit')
           k == Cardinality(Credit \ Ticks(c, Cost))
<1>0. /\ IsFiniteSet(Credit) /\ n \in Nat
      /\ Filled \in 0..Full /\ Filled + n <= actual /\ actual \in Int
      /\ pc \in [Callers -> PCs] /\ remaining \in [Callers -> 0..Cost]
      /\ Cost \in Nat \ {0} /\ Full \in Nat
  BY CreditBounded, Sizes DEF Covered, Filled, AtMost, PInv
<1>1. /\ pc[c] = "sleep" /\ remaining[c] = 0 /\ pc' = [pc EXCEPT ![c] = "request"]
      /\ UNCHANGED <<tokens, age, remaining>> /\ actual' = Charge(actual)
  BY DEF Slept, SendRequest, bucket
<1>2. Ticks(c, Cost) \subseteq Credit
  BY <1>0, <1>1 DEF Ticks, Credit
<1>3. Credit' \subseteq Credit \ Ticks(c, Cost)
  <2>1. pc'[c] # "sleep" /\ \A d \in Callers : pc'[d] = "sleep" => pc[d] = "sleep"
    BY <1>0, <1>1
  <2> QED BY <1>1, <2>1 DEF Credit, Ticks
<1> HIDE DEF n, m, k
<1>4. IsFiniteSet(Credit \ Ticks(c, Cost)) /\ k = n - Cost
  <2>1. Credit \cap Ticks(c, Cost) = Ticks(c, Cost)
    BY <1>2
  <2>2. Cardinality(Ticks(c, Cost)) = Cost
    BY <1>0, TicksCounted
  <2>3. /\ IsFiniteSet(Credit \ Ticks(c, Cost))
        /\ Cardinality(Credit \ Ticks(c, Cost))
             = Cardinality(Credit) - Cardinality(Credit \cap Ticks(c, Cost))
    BY <1>0, FS_Difference
  <2> QED BY <2>1, <2>2, <2>3 DEF n, k
<1>5. IsFiniteSet(Credit') /\ m <= k
  BY <1>3, <1>4, FS_Subset DEF m, k
<1>6. m \in Nat
  BY <1>5, FS_CardinalityType DEF m
<1>7. Filled' = Filled
  BY <1>1 DEF Filled
<1>8. actual' = actual - Cost
  BY <1>0, <1>1, <1>4, <1>5, <1>6 DEF Charge, AtLeast
<1>9. Filled' + m <= actual' /\ actual' \in Int
  BY <1>0, <1>4, <1>5, <1>6, <1>7, <1>8
<1> QED BY <1>0, <1>1, <1>9 DEF Covered, m

\* A tick gives every sleeping task at most one more.
LEMMA TickCredit ==
  ASSUME PInv, Covered, Tick
  PROVE  /\ Cardinality(Credit') \in 0..MaxConcurrent * Cost
         /\ Cardinality(Credit') <= Cardinality(Credit) + MaxConcurrent
<1> DEFINE n == Cardinality(Credit)
           m == Cardinality(Credit')
           fresh == [c \in Sleepers |-> <<c, Cost - remaining[c] + 1>>]
           Fresh == {fresh[c] : c \in Sleepers}
           s == Cardinality(Sleepers)
           g == Cardinality(Fresh)
<1>0. /\ pc \in [Callers -> PCs] /\ remaining \in [Callers -> 0..Cost] /\ Cost \in Nat
      /\ MaxConcurrent \in Nat
  BY Sizes DEF Covered, PInv
<1>1. /\ pc' = pc /\ remaining' = [c \in Callers |-> AtLeast(0, remaining[c] - 1)]
  BY DEF Tick, task
<1>2. Credit' \subseteq Credit \cup Fresh
  <2>1. ASSUME NEW c \in Callers, NEW i \in 1..Cost, pc[c] = "sleep", i <= Cost - remaining'[c]
        PROVE  <<c, i>> \in Credit \cup Fresh
    <3>0. remaining[c] \in 0..Cost /\ remaining'[c] = AtLeast(0, remaining[c] - 1)
      BY <1>0, <1>1
    <3>1. CASE i <= Cost - remaining[c]
      BY <2>1, <3>1 DEF Credit
    <3>2. CASE ~(i <= Cost - remaining[c])
      <4>1. i = Cost - remaining[c] + 1
        BY <1>0, <2>1, <3>0, <3>2 DEF AtLeast
      <4>2. c \in Sleepers
        BY <2>1 DEF Sleepers
      <4>3. fresh[c] = <<c, i>>
        BY <4>1, <4>2
      <4> QED BY <4>2, <4>3
    <3> QED BY <3>1, <3>2
  <2>2. ASSUME NEW x \in Credit' PROVE x \in Credit \cup Fresh
    <3>1. /\ x \in Callers \X (1..Cost) /\ pc[x[1]] = "sleep"
          /\ x[2] <= Cost - remaining'[x[1]]
      BY <1>1, <2>2 DEF Credit
    <3>2. PICK c \in Callers, i \in 1..Cost : x = <<c, i>>
      BY <3>1
    <3> HIDE DEF Fresh
    <3> QED BY <2>1, <3>1, <3>2
  <2> QED BY <2>2
<1>3. IsFiniteSet(Sleepers) /\ s \in 0..MaxConcurrent
  BY FewSleepers
<1>4. IsFiniteSet(Fresh) /\ g <= s
  <2>1. fresh \in Surjection(Sleepers, Fresh)
    BY DEF Surjection
  <2> HIDE DEF fresh, Fresh
  <2> QED BY <1>3, <2>1, FS_Surjection
<1>5. g \in Nat
  BY <1>4, FS_CardinalityType
<1>6. IsFiniteSet(Credit) /\ n \in Nat
  BY CreditBounded
<1>7. m <= n + g
  BY <1>2, <1>4, <1>6, OfTwo
<1>8. IsFiniteSet(Credit') /\ m \in 0..MaxConcurrent * Cost
  <2>1. Credit' \subseteq Sleepers \X (1..Cost)
    BY <1>1 DEF Credit, Sleepers
  <2> QED BY <2>1, CreditFits
<1>9. m \in Nat
  BY <1>8, FS_CardinalityType
<1>10. m <= n + MaxConcurrent
  <2> HIDE DEF n, m, s, g, fresh, Fresh
  <2> QED BY <1>0, <1>3, <1>4, <1>5, <1>6, <1>7, <1>9
<1> QED BY <1>8, <1>10

LEMMA GainCovers ==
  ASSUME NEW full \in Nat, NEW b \in Nat, NEW k \in Nat, NEW f \in 0..full, NEW n \in Nat,
         NEW m \in 0..b, NEW a \in Int, NEW f1 \in 0..full,
         f + n <= a, f1 <= f + 1, m <= n + k
  PROVE  f1 + m <= Gain(a, k + 1, full + b)
BY DEF Gain, AtMost

LEMMA TickCovered ==
  ASSUME PInv, Covered, Tick
  PROVE  Covered'
<1> DEFINE n == Cardinality(Credit)
           m == Cardinality(Credit')
           b == MaxConcurrent * Cost
<1>0. /\ n \in Nat /\ Filled \in 0..Full /\ Filled + n <= actual /\ actual \in Int
      /\ remaining \in [Callers -> 0..Cost] /\ tokens \in 0..Full /\ age \in Nat
      /\ Cost \in Nat \ {0} /\ Full \in Nat /\ MaxConcurrent \in Nat /\ b \in Nat
      /\ Burst = Full + b
  BY CreditBounded, Sizes DEF Covered, Filled, AtMost
<1>1. /\ age' = AtMost(Full, age + 1) /\ UNCHANGED tokens
      /\ remaining' = [c \in Callers |-> AtLeast(0, remaining[c] - 1)]
      /\ actual' = Gain(actual, MaxConcurrent + 1, Full + b)
  BY <1>0 DEF Tick
<1>2. remaining' \in [Callers -> 0..Cost]
  BY <1>0, <1>1 DEF AtLeast
<1>3. Filled' <= Filled + 1 /\ Filled' \in 0..Full /\ age' \in Nat
  BY <1>0, <1>1 DEF Filled, AtMost
<1>4. m \in 0..b /\ m <= n + MaxConcurrent
  BY TickCredit
<1> HIDE DEF n, m, b
<1>5. Filled' + m <= actual'
  BY <1>0, <1>1, <1>3, <1>4, GainCovers
<1>6. actual' \in Int
  BY <1>0, <1>1 DEF Gain, AtMost
<1> QED BY <1>0, <1>1, <1>2, <1>3, <1>5, <1>6 DEF Covered, m

LEMMA InitCovered == Init => Covered
<1> SUFFICES ASSUME Init PROVE Covered
  OBVIOUS
<1>1. Credit = {}
  BY DEF Init, Credit
<1>2. Cardinality(Credit) = 0
  BY <1>1, FS_EmptySet
<1>3. Filled = Full
  BY Sizes DEF Init, Filled, AtMost
<1> QED BY <1>2, <1>3, Sizes DEF Init, Covered

LEMMA StepCovered == PInv /\ Covered /\ [Next]_vars => Covered'
<1> SUFFICES ASSUME PInv, Covered, [Next]_vars PROVE Covered'
  OBVIOUS
<1>1. CASE UNCHANGED vars
  BY <1>1 DEF vars, task, bucket, meters, Covered, Filled, Credit
<1>2. ASSUME NEW c \in Callers, NEW s, Acquire(c, s), pc[c] # "sleep" PROVE Covered'
  <2>1. CASE Take(c)
    BY <1>2, <2>1, TakeCovered
  <2>2. CASE pc' = [pc EXCEPT ![c] = "semaphore"] /\ UNCHANGED <<bucket, sent, meters>>
    BY <2>2, LeavesCovered DEF bucket, meters, PCs
  <2> QED BY <1>2, <2>1, <2>2 DEF Acquire
<1>3. ASSUME NEW c \in Callers, Invoke(c) \/ Retry(c) \/ Truncated(c) PROVE Covered'
  BY <1>2, <1>3 DEF Invoke, Retry, Truncated
<1>4. ASSUME NEW c \in Callers, Granted(c) PROVE Covered'
  BY <1>4, TakeCovered DEF Granted
<1>5. ASSUME NEW c \in Callers, Slept(c) PROVE Covered'
  BY <1>5, SleptCovered
<1>6. ASSUME NEW c \in Callers, Answered(c) \/ Failed(c) \/ Fatal(c) \/ Cancel(c) PROVE Covered'
  <2>1. /\ \E where \in PCs \ {"sleep"} : pc' = [pc EXCEPT ![c] = where]
        /\ UNCHANGED <<tokens, age, actual>>
        /\ remaining' = remaining \/ remaining' = [remaining EXCEPT ![c] = 0]
    BY <1>6 DEF Answered, Failed, Fatal, Cancel, PCs, bucket, meters
  <2> QED BY <2>1, LeavesCovered
<1>7. CASE Tick
  BY <1>7, TickCovered
<1> QED BY <1>1, <1>3, <1>4, <1>5, <1>6, <1>7 DEF Next, Resume

(***************************************************************************)
(* Theorems.                                                               *)
(***************************************************************************)
\* Permits are conserved whatever fails, is retried, continues or is cancelled, and
\* nobody waits while one is left.
\* Code: nim_client.py RateLimiter.acquire, _invoke_single_call.
THEOREM PermitsAreConserved == Spec => []PermitsConserved
<1>1. PInv => PermitsConserved
  BY DEF PInv, Balanced, PermitsConserved, Holders
<1> QED BY <1>1, InitPInv, StepPInv, PTL DEF Spec

\* One ainvoke sends at most MaxAttempts requests for its first answer and for each
\* continuation, however failures and truncated answers alternate.
\* Code: nim_client.py _invoke_single_call's retry, ainvoke's continuation loop.
THEOREM RequestsAreBounded == Spec => []RequestsBounded
<1>1. RInv => RequestsBounded
  <2> SUFFICES ASSUME RInv, NEW c \in Callers PROVE sent[c] <= MaxSent
    BY DEF RequestsBounded
  <2>1. MaxAttempts \in Nat /\ MaxContinuations \in Nat
    BY PositiveAssumption, ContinuationsAssumption
  <2>2. sent[c] <= continuations[c] * MaxAttempts + attempt[c]
    BY <2>1 DEF RInv, Unsent
  <2> QED BY <2>1, <2>2, AllContinuations DEF RInv, MaxSent
<1> QED BY <1>1, InitRInv, StepRInv, PTL DEF Spec

\* Any T ticks see at most Capacity + MaxConcurrent + (MaxConcurrent + 1) * T / Cost
\* requests, for every number of callers, permits and tokens and every cost of a token:
\* tasks that sleep for the same token are as many as there are permits.
\* Code: nim_client.py TokenBucket.take, RateLimiter.acquire.
THEOREM RateIsBounded == Spec => []ThroughputBound
<1>1. PInv /\ Covered => ThroughputBound
  <2> SUFFICES ASSUME PInv, Covered PROVE actual >= 0
    BY DEF ThroughputBound
  <2>1. Cardinality(Credit) \in Nat /\ Filled \in Nat
    BY CreditBounded, Sizes DEF Covered, Filled, AtMost
  <2> HIDE DEF Filled
  <2> QED BY <2>1 DEF Covered
<1> QED BY <1>1, InitPInv, StepPInv, InitCovered, StepCovered, PTL DEF Spec
==============================================================================
