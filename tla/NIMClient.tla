------------------------------- MODULE NIMClient -------------------------------
(***************************************************************************)
(* The gateway to the model API, src/src/infrastructure/nim_client.py:     *)
(* tasks call NIMClient.ainvoke, which sends one request and more of them  *)
(* while the answer is truncated; every request is retried by tenacity and *)
(* goes through RateLimiter.acquire, a semaphore (concurrency) around a    *)
(* TokenBucket (requests per minute).                                      *)
(*                                                                         *)
(* Time is discrete: Tick is one unit.  A token is Cost units of refill,   *)
(* of which the bucket gains one per tick (refill_rate = 1/Cost).  The     *)
(* bucket's _last_refill timestamp is kept as the age of the last refill,  *)
(* and a sleeping task as the time it still has to sleep, so no clock      *)
(* grows.                                                                  *)
(***************************************************************************)
EXTENDS Integers, Sequences, FiniteSets, SequencesExt

CONSTANTS
  Callers,            \* tasks, each of which calls ainvoke once
  MaxConcurrent,      \* permits of the semaphore
  Capacity,           \* tokens the bucket holds (max_rpm)
  Cost,               \* ticks to refill one token
  MaxAttempts,        \* stop_after_attempt (3 in the code)
  MaxContinuations    \* max_continuations

ASSUME PositiveAssumption ==
  {MaxConcurrent, Capacity, Cost, MaxAttempts} \subseteq Nat \ {0}
ASSUME ContinuationsAssumption == MaxContinuations \in Nat

VARIABLES
  pc,             \* where each task awaits
  sem,            \* the semaphore: permits left and FIFO of waiting tasks
  tokens,         \* TokenBucket._tokens, in refill units
  age,            \* ticks since TokenBucket._last_refill
  remaining,      \* ticks a sleeping task still sleeps
  attempt,        \* tenacity attempt of the current request, from 1
  continuations,  \* continuations of the current ainvoke
  sent,           \* history: requests the current ainvoke has sent
  nominal,        \* meter of the documented rate, see Metered
  actual          \* meter of the rate the code keeps to

task   == <<pc, attempt, continuations, sent>>
bucket == <<tokens, age, remaining>>
meters == <<nominal, actual>>
vars   == <<task, sem, bucket, meters>>

Full  == Capacity * Cost
Burst == Full + MaxConcurrent * Cost

PCs   == {"idle", "semaphore", "sleep", "request", "backoff",
          "returned", "raised", "cancelled"}
Ended == {"returned", "raised", "cancelled"}
MaxSent == MaxAttempts * (MaxContinuations + 1)

TypeOK ==
  /\ pc \in [Callers -> PCs]
  /\ sem \in [permits : 0..MaxConcurrent, waiters : Seq(Callers)]
  /\ tokens \in 0..Full
  /\ age \in 0..Full
  /\ remaining \in [Callers -> 0..Cost]
  /\ attempt \in [Callers -> 1..MaxAttempts]
  /\ continuations \in [Callers -> 0..MaxContinuations]
  /\ sent \in [Callers -> Nat]
  /\ nominal \in -1..Full
  /\ actual \in -1..Burst

AtMost(bound, n)  == IF n > bound THEN bound ELSE n
AtLeast(bound, n) == IF n < bound THEN bound ELSE n

(***************************************************************************)
(* asyncio.Semaphore: release hands the permit to the first waiter.        *)
(***************************************************************************)
Released(s) ==
  IF s.waiters = <<>> THEN [s EXCEPT !.permits = @ + 1]
                      ELSE [s EXCEPT !.waiters = Tail(@)]

\* A task that is cancelled while it waits leaves the queue.
Withdrawn(s, c) ==
  LET place == CHOOSE i \in DOMAIN s.waiters : s.waiters[i] = c
  IN  [s EXCEPT !.waiters = RemoveAt(@, place)]

Waiting(c) == pc[c] = "semaphore" /\ Contains(sem.waiters, c)
Holding(c) == \/ pc[c] \in {"sleep", "request"}
              \/ pc[c] = "semaphore" /\ ~Waiting(c)

(***************************************************************************)
(* Meters.  A meter of rate r and burst b is a counter that gains r per    *)
(* tick up to b and loses Cost per request; it stays at or above zero iff  *)
(* every window of T ticks has at most (b + r * T) / Cost requests.  Once  *)
(* below zero it stays there.                                              *)
(***************************************************************************)
Charge(m) == IF m < 0 THEN -1 ELSE AtLeast(-1, m - Cost)
Gain(m, rate, burst) == IF m < 0 THEN -1 ELSE AtMost(burst, m + rate)

SendRequest(c) ==
  /\ pc' = [pc EXCEPT ![c] = "request"]
  /\ sent' = [sent EXCEPT ![c] = @ + 1]
  /\ nominal' = Charge(nominal)
  /\ actual' = Charge(actual)

(***************************************************************************)
(* RateLimiter.acquire, up to the next await.                              *)
(***************************************************************************)
\* Mutant: _last_refill is not moved, so the same time refills again.
TakeKeepsAge(c) ==
  LET filled == AtMost(Full, tokens + age)
  IN  /\ UNCHANGED age
      /\ \/ /\ filled >= Cost
            /\ tokens' = filled - Cost
            /\ UNCHANGED remaining
            /\ SendRequest(c)
         \/ /\ filled < Cost
            /\ tokens' = 0
            /\ remaining' = [remaining EXCEPT ![c] = Cost - filled]
            /\ pc' = [pc EXCEPT ![c] = "sleep"]
            /\ UNCHANGED <<sent, meters>>

\* TokenBucket.take(1): refill, then take a token, or empty the bucket and
\* sleep as long as the rest of the token takes to refill.
Take(c) ==
  LET filled == AtMost(Full, tokens + age)
  IN  /\ age' = 0
      /\ \/ /\ filled >= Cost
            /\ tokens' = filled - Cost
            /\ UNCHANGED remaining
            /\ SendRequest(c)
         \/ /\ filled < Cost
            /\ tokens' = 0
            /\ remaining' = [remaining EXCEPT ![c] = Cost - filled]
            /\ pc' = [pc EXCEPT ![c] = "sleep"]
            /\ UNCHANGED <<sent, meters>>

Acquire(c, s) ==
  \/ /\ s.permits > 0
     /\ sem' = [s EXCEPT !.permits = @ - 1]
     /\ Take(c)
  \/ /\ s.permits = 0
     /\ sem' = [s EXCEPT !.waiters = Append(@, c)]
     /\ pc' = [pc EXCEPT ![c] = "semaphore"]
     /\ UNCHANGED <<bucket, sent, meters>>

(***************************************************************************)
(* Actions of a task.                                                      *)
(***************************************************************************)
Invoke(c) ==
  /\ pc[c] = "idle"
  /\ Acquire(c, sem)
  /\ UNCHANGED <<attempt, continuations>>

\* The semaphore's permit was handed to c.
Granted(c) ==
  /\ pc[c] = "semaphore" /\ ~Waiting(c)
  /\ Take(c)
  /\ UNCHANGED <<sem, attempt, continuations>>

\* asyncio.sleep(wait_time) is over: send, whatever the bucket holds by now.
Slept(c) ==
  /\ pc[c] = "sleep"
  /\ remaining[c] = 0
  /\ SendRequest(c)
  /\ UNCHANGED <<sem, bucket, attempt, continuations>>

\* Mutant: an answered request keeps its permit.
AnsweredKeepsPermit(c) ==
  /\ pc[c] = "request"
  /\ pc' = [pc EXCEPT ![c] = "returned"]
  /\ UNCHANGED <<sem, attempt, continuations, sent, bucket, meters>>

\* The last answer of an ainvoke: complete, or truncated with no continuation
\* left.  The permit is released and ainvoke returns.
Answered(c) ==
  /\ pc[c] = "request"
  /\ pc' = [pc EXCEPT ![c] = "returned"]
  /\ sem' = Released(sem)
  /\ UNCHANGED <<attempt, continuations, sent, bucket, meters>>

\* Mutant: the continuations are not counted.
TruncatedForever(c) ==
  /\ pc[c] = "request"
  /\ continuations[c] < MaxContinuations
  /\ attempt' = [attempt EXCEPT ![c] = 1]
  /\ Acquire(c, Released(sem))
  /\ UNCHANGED continuations

\* A truncated answer (finish_reason "length"): release, then ask for the rest
\* at once, with attempts of its own.
Truncated(c) ==
  /\ pc[c] = "request"
  /\ continuations[c] < MaxContinuations
  /\ continuations' = [continuations EXCEPT ![c] = @ + 1]
  /\ attempt' = [attempt EXCEPT ![c] = 1]
  /\ Acquire(c, Released(sem))

\* ConnectionError, TimeoutError or IOError: tenacity sleeps outside the
\* limiter and tries again, MaxAttempts times in all.
Failed(c) ==
  /\ pc[c] = "request"
  /\ sem' = Released(sem)
  /\ \/ /\ attempt[c] < MaxAttempts
        /\ attempt' = [attempt EXCEPT ![c] = @ + 1]
        /\ pc' = [pc EXCEPT ![c] = "backoff"]
     \/ /\ attempt[c] = MaxAttempts
        /\ pc' = [pc EXCEPT ![c] = "raised"]
        /\ UNCHANGED attempt
  /\ UNCHANGED <<continuations, sent, bucket, meters>>

\* Any other exception is not retried.
Fatal(c) ==
  /\ pc[c] = "request"
  /\ sem' = Released(sem)
  /\ pc' = [pc EXCEPT ![c] = "raised"]
  /\ UNCHANGED <<attempt, continuations, sent, bucket, meters>>

\* wait_exponential_jitter is over (its length is not modelled).
Retry(c) ==
  /\ pc[c] = "backoff"
  /\ Acquire(c, sem)
  /\ UNCHANGED <<attempt, continuations>>

\* Mutant: a permit handed to a task that is cancelled before it resumes is lost.
CancelLosesHandover(c) ==
  /\ pc[c] \in {"semaphore", "sleep", "request", "backoff"}
  /\ sem' = IF pc[c] \in {"sleep", "request"} THEN Released(sem)
            ELSE IF Waiting(c) THEN Withdrawn(sem, c) ELSE sem
  /\ remaining' = [remaining EXCEPT ![c] = 0]
  /\ pc' = [pc EXCEPT ![c] = "cancelled"]
  /\ UNCHANGED <<attempt, continuations, sent, tokens, age, meters>>

\* The task is cancelled wherever it awaits; "async with" gives the permit back.
Cancel(c) ==
  /\ pc[c] \in {"semaphore", "sleep", "request", "backoff"}
  /\ sem' = IF Holding(c) THEN Released(sem)
            ELSE IF Waiting(c) THEN Withdrawn(sem, c) ELSE sem
  /\ remaining' = [remaining EXCEPT ![c] = 0]
  /\ pc' = [pc EXCEPT ![c] = "cancelled"]
  /\ UNCHANGED <<attempt, continuations, sent, tokens, age, meters>>

\* One unit of time.  A task may wake later than it asked to.
Tick ==
  /\ age' = AtMost(Full, age + 1)
  /\ remaining' = [c \in Callers |-> AtLeast(0, remaining[c] - 1)]
  /\ nominal' = Gain(nominal, 1, Full)
  /\ actual' = Gain(actual, MaxConcurrent + 1, Burst)
  /\ UNCHANGED <<task, sem, tokens>>

(***************************************************************************)
(* Specification.                                                          *)
(***************************************************************************)
Init ==
  /\ pc = [c \in Callers |-> "idle"]
  /\ sem = [permits |-> MaxConcurrent, waiters |-> <<>>]
  /\ tokens = Full
  /\ age = 0
  /\ remaining = [c \in Callers |-> 0]
  /\ attempt = [c \in Callers |-> 1]
  /\ continuations = [c \in Callers |-> 0]
  /\ sent = [c \in Callers |-> 0]
  /\ nominal = Full
  /\ actual = Burst

Resume(c) ==
  \/ Granted(c) \/ Slept(c) \/ Retry(c)
  \/ Answered(c) \/ Truncated(c) \/ Failed(c) \/ Fatal(c)

Next ==
  \/ \E c \in Callers : Invoke(c) \/ Resume(c) \/ Cancel(c)
  \/ Tick

Spec == Init /\ [][Next]_vars

\* Time passes; the API answers every request or the request times out (the
\* client is built with a timeout); the event loop runs every ready task.
FairSpec == Spec /\ WF_vars(Tick) /\ \A c \in Callers : WF_vars(Resume(c))

(***************************************************************************)
(* Properties.                                                             *)
(***************************************************************************)
\* Permits are neither lost nor made: the ones left and the tasks that hold one
\* (sending, sleeping for a token or just handed one) add up, through every
\* retry, continuation, exception and cancellation; and nobody waits while one
\* is left.
PermitsConserved ==
  /\ sem.permits + Cardinality({c \in Callers : Holding(c)}) = MaxConcurrent
  /\ sem.permits > 0 => sem.waiters = <<>>

\* The rate the limiter does guarantee: any T ticks see at most
\*   Capacity + MaxConcurrent + (MaxConcurrent + 1) * T / Cost
\* requests.  The refill of the time a task sleeps is also handed to others,
\* once per permit, which is where the factor comes from.
ThroughputBound == actual >= 0

\* One ainvoke sends at most three requests per continuation, however its
\* failures and truncations alternate.
RequestsBounded == \A c \in Callers : sent[c] <= MaxSent

\* Every ainvoke ends: no task starves at the semaphore or sleeps for ever.
InvokesEnd == \A c \in Callers : pc[c] # "idle" ~> pc[c] \in Ended

(***************************************************************************)
(* What the documentation says and the code does not do.                   *)
(***************************************************************************)
\* RateLimiter.acquire: "Ensures compliance with maximum concurrency and RPM
\* bounds."  Any T ticks see at most Capacity + T / Cost requests: the bucket's
\* burst and its refill.
WithinRPM == nominal >= 0
===============================================================================
