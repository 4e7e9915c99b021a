---------------------------- MODULE RetrySchedule ----------------------------
(***************************************************************************)
(* When a failed message is tried again: retryBackoff of the pool          *)
(* (internal/worker/pool.go), the score EnqueueWithDelay gives it and the  *)
(* sweep of RequeueDue (internal/queue/redis_adapter.go), which any worker *)
(* process runs by its own clock.  WorkerPool leaves the times out, and    *)
(* lets any message of the retry set be due.                               *)
(*                                                                         *)
(* A time is a number of ticks, UnitsPerMs of them to a millisecond; a     *)
(* time.Duration is an integer of Width bits.  The processes' clocks are   *)
(* ahead of `now` by their offsets.                                        *)
(***************************************************************************)
EXTENDS Integers, FiniteSets, Sequences

CONSTANTS
  Messages,         \* the messages that fail
  Processes,        \* the worker processes
  Base, MaxDelay,   \* Config.RetryBackoffBase, Config.RetryBackoffMax
  MaxRetries,       \* Config.MaxRetries
  Batch,            \* Config.RetryMoveBatch
  UnitsPerMs,       \* ticks in a millisecond
  Width,            \* bits of a time.Duration
  MaxSkew,          \* bound: how far two clocks are apart
  LastFailure       \* bound: the time after which nothing fails

\* math.Pow(2, n), exact for the n it is asked about.
Power[n \in Nat] == IF n = 0 THEN 1 ELSE 2 * Power[n - 1]

\* NewPool replaces what is not positive.
ASSUME ScheduleAssumption ==
  /\ \A n \in {Base, MaxDelay, MaxRetries, Batch, UnitsPerMs, Width} : n \in Nat \ {0}
  /\ Base < Power[Width - 1] /\ MaxDelay < Power[Width - 1]
  /\ MaxSkew \in Nat /\ LastFailure \in Nat
  /\ IsFiniteSet(Messages)

VARIABLES
  now,              \* the time
  offset,           \* for each process, how far its clock is ahead
  attempts,         \* for each message, the attempts that failed
  retry             \* the retry set: [id, score, since, delay], of which `since`
                    \* and `delay` are history: when it was put there, for how long
vars == <<now, offset, attempts, retry>>

-----------------------------------------------------------------------------
Horizon == LastFailure + MaxDelay + MaxSkew + UnitsPerMs

Entry == [id : Messages, score : 0 .. Horizon, since : 0 .. LastFailure, delay : 0 .. MaxDelay]

InRetry(m) == \E e \in retry : e.id = m

TypeOK ==
  /\ now \in 0 .. Horizon
  /\ offset \in [Processes -> 0 .. MaxSkew]
  /\ attempts \in [Messages -> 0 .. MaxRetries + 1]
  /\ retry \subseteq Entry
  /\ \A d, e \in retry : d.id = e.id => d = e

Init ==
  /\ now = 0
  /\ offset \in [Processes -> 0 .. MaxSkew]
  /\ attempts = [m \in Messages |-> 0]
  /\ retry = {}

UnixMilli(t) == t \div UnitsPerMs
Clock(p) == now + offset[p]

-----------------------------------------------------------------------------
\* A float64 made a time.Duration.  What comes of one that does not fit depends
\* on the machine: the least integer on amd64, the greatest on arm64.
Durations(x) ==
  IF x < Power[Width - 1] THEN {x} ELSE {-Power[Width - 1], Power[Width - 1] - 1}

Capped(delay) == IF delay > MaxDelay THEN MaxDelay ELSE delay

\* Mutants: one power too many, and no cap.
RetryBackoffEarlier(attempt) ==
  IF attempt <= 0 THEN {Base}
  ELSE {Capped(d) : d \in Durations(Base * Power[attempt])}

RetryBackoffUncapped(attempt) ==
  IF attempt <= 0 THEN {Base} ELSE Durations(Base * Power[attempt - 1])

RetryBackoff(attempt) ==
  IF attempt <= 0 THEN {Base}
  ELSE {Capped(d) : d \in Durations(Base * Power[attempt - 1])}

\* Mutant: the score is the time of the failure.
EnqueueWithoutDelay(p, m, delay) ==
  LET d == IF delay < 0 THEN 0 ELSE delay IN
  retry' = retry \cup {[id |-> m, score |-> UnixMilli(Clock(p)), since |-> now, delay |-> d]}

\* Mutant: a negative delay is taken as it is.
EnqueueUnclamped(p, m, delay) ==
  retry' = retry \cup {[id |-> m, score |-> UnixMilli(Clock(p) + delay),
                        since |-> now, delay |-> delay]}

EnqueueWithDelay(p, m, delay) ==
  LET d == IF delay < 0 THEN 0 ELSE delay IN
  retry' = retry \cup {[id |-> m, score |-> UnixMilli(Clock(p) + d),
                        since |-> now, delay |-> d]}

\* handleFailure in process p.
HandleFailure(p, m) ==
  /\ ~InRetry(m) /\ attempts[m] <= MaxRetries
  /\ now <= LastFailure
  /\ attempts' = [attempts EXCEPT ![m] = @ + 1]
  /\ IF attempts'[m] > MaxRetries
     THEN UNCHANGED retry
     ELSE \E delay \in RetryBackoff(attempts'[m]) : EnqueueWithDelay(p, m, delay)
  /\ UNCHANGED <<now, offset>>

\* The first of the due messages by their scores, a batch of them if there are
\* as many.
FirstByScore(due) ==
  {s \in SUBSET due :
     /\ Cardinality(s) <= Batch
     /\ s # due => Cardinality(s) = Batch
     /\ \A d \in s : \A e \in due \ s : d.score <= e.score}

\* The script, run by process p: what it moves is any worker's again.
RequeueDue(p) ==
  LET due == {e \in retry : e.score <= UnixMilli(Clock(p))} IN
  /\ due # {}
  /\ \E moved \in FirstByScore(due) : retry' = retry \ moved
  /\ UNCHANGED <<now, offset, attempts>>

\* The sweeps of the promoter come at an interval: how long a message is due
\* before it is moved is bounded in the model by nothing but their fairness.
Tick ==
  /\ now < Horizon
  /\ now' = now + 1
  /\ UNCHANGED <<offset, attempts, retry>>

Next ==
  \/ Tick
  \/ \E p \in Processes : RequeueDue(p) \/ \E m \in Messages : HandleFailure(p, m)

Spec == Init /\ [][Next]_vars

\* Time passes, and the ticker of every promoter fires.
FairSpec ==
  /\ Spec
  /\ WF_vars(Tick)
  /\ \A p \in Processes : WF_vars(RequeueDue(p))
-----------------------------------------------------------------------------
\* What the backoff should be, without floats: doubled with each attempt, at
\* most MaxDelay.
Backoff[n \in Nat] ==
  IF n <= 1 THEN Capped(Base) ELSE Capped(2 * Backoff[n - 1])

Fits(n) == Base * Power[n - 1] < Power[Width - 1]

\* The delay a message waits is the doubled one; where the product no longer
\* fits a Duration it is the greatest, or none at all: never a negative one,
\* never one beyond the cap.
DelayDoubles ==
  \A e \in retry :
    LET n == attempts[e.id] IN
    IF Fits(n) THEN e.delay = Backoff[n] ELSE e.delay \in {0, MaxDelay}

\* A message is moved before its delay is over by less than a millisecond, which
\* UnixMilli cuts off, and what the clocks are apart, whoever moves it.
NeverEarly ==
  [][\A e \in retry \ retry' : now > e.since + e.delay - UnitsPerMs - MaxSkew]_vars

\* Every message put in the retry set leaves it, also past a full batch of
\* others and where the delay overflowed.
RetryComes == \A m \in Messages : InRetry(m) ~> ~InRetry(m)
=============================================================================
