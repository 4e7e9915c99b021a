------------------------ MODULE RetryScheduleProofs ------------------------
(***************************************************************************)
(* Proofs about RetrySchedule, for any backoff, cap, width of a duration,  *)
(* clocks and messages: its types, among them that every delay is between  *)
(* none and the cap, and that no message is promoted early.                *)
(***************************************************************************)
EXTENDS RetrySchedule, WellFoundedInduction, TLAPS

\* UnixMilli cuts off less than a millisecond.
LEMMA UnixMilliFloor ==
  ASSUME NEW t \in Int
  PROVE  /\ UnixMilli(t) \in Int
         /\ UnitsPerMs * UnixMilli(t) <= t
         /\ t < UnitsPerMs * UnixMilli(t) + UnitsPerMs
BY ScheduleAssumption DEF UnixMilli

\* A time that is not negative has a score between 0 and itself.
LEMMA UnixMilliRange ==
  ASSUME NEW t \in Nat
  PROVE  UnixMilli(t) \in 0 .. t
BY ScheduleAssumption DEF UnixMilli

-----------------------------------------------------------------------------
(* The two recursive functions.  What holds of every number is shown by    *)
(* looking at the least one it fails for.                                  *)

LEMMA LeastNumber ==
  ASSUME NEW S \in SUBSET Nat, S # {}
  PROVE  \E x \in S : \A y \in S : x <= y
<1>1. PICK x \in S : \A y \in S : ~(<<y, x>> \in OpToRel(<, Nat))
  BY NatLessThanWellFounded, WFMin, Zenon
<1>2. \A y \in S : ~(y < x)
  BY <1>1, Zenon DEF OpToRel
<1> QED BY <1>2

\* The powers of two up to n.
Doubling(f, n) == f \in [0 .. n -> Nat] /\ \A k \in 0 .. n : f[k] = IF k = 0 THEN 1 ELSE 2 * f[k - 1]

LEMMA DoublingExists == ASSUME NEW n \in Nat PROVE \E f : Doubling(f, n)
<1> DEFINE Failing == {m \in Nat : ~ \E f : Doubling(f, m)}
<1> SUFFICES ASSUME Failing # {} PROVE FALSE
  OBVIOUS
<1>1. PICK m \in Failing : \A y \in Failing : m <= y
  <2>1. Failing \in SUBSET Nat
    OBVIOUS
  <2> HIDE DEF Failing
  <2> QED BY <2>1, LeastNumber
<1>2. Doubling([k \in 0 .. 0 |-> 1], 0)
  BY DEF Doubling
<1>3. m # 0
  BY <1>1, <1>2
<1>4. m - 1 \in Nat /\ m - 1 \notin Failing
  BY <1>1, <1>3
<1>5. PICK f : Doubling(f, m - 1)
  BY <1>4
<1>6. Doubling([k \in 0 .. m |-> IF k = m THEN 2 * f[m - 1] ELSE f[k]], m)
  BY <1>3, <1>4, <1>5 DEF Doubling
<1> QED BY <1>1, <1>6

LEMMA DoublingUnique ==
  ASSUME NEW m \in Nat, NEW n \in Nat, NEW f, Doubling(f, m), NEW g, Doubling(g, n),
         NEW k \in Nat, k <= m, k <= n
  PROVE  f[k] = g[k]
<1> DEFINE Differ == {i \in Nat : i <= m /\ i <= n /\ f[i] # g[i]}
<1> SUFFICES ASSUME Differ # {} PROVE FALSE
  OBVIOUS
<1>1. PICK i \in Differ : \A y \in Differ : i <= y
  <2>1. Differ \in SUBSET Nat
    OBVIOUS
  <2> HIDE DEF Differ
  <2> QED BY <2>1, LeastNumber
<1>2. i # 0
  BY <1>1 DEF Doubling
<1>3. i - 1 \in Nat /\ i - 1 \notin Differ
  BY <1>1, <1>2
<1>4. f[i - 1] = g[i - 1]
  BY <1>1, <1>3
<1> QED BY <1>1, <1>2, <1>4 DEF Doubling

\* Power is the function its definition describes.
LEMMA PowerIs ==
  /\ Power \in [Nat -> Nat]
  /\ Power[0] = 1
  /\ \A n \in Nat : Power[n + 1] = 2 * Power[n]
<1> DEFINE Upto(n) == CHOOSE f : Doubling(f, n)
           P == [n \in Nat |-> Upto(n)[n]]
<1>1. \A n \in Nat : Doubling(Upto(n), n)
  BY DoublingExists
<1> HIDE DEF Upto
<1>2. ASSUME NEW n \in Nat PROVE P[n] \in Nat /\ P[n] = IF n = 0 THEN 1 ELSE 2 * P[n - 1]
  <2>1. P[n] \in Nat /\ P[n] = IF n = 0 THEN 1 ELSE 2 * Upto(n)[n - 1]
    BY <1>1 DEF Doubling
  <2>2. n # 0 => n - 1 \in Nat /\ Upto(n)[n - 1] = Upto(n - 1)[n - 1]
    BY <1>1, DoublingUnique
  <2> QED BY <2>1, <2>2
<1>3. P = [n \in Nat |-> IF n = 0 THEN 1 ELSE 2 * P[n - 1]]
  BY <1>2
<1> HIDE DEF P
<1>4. Power = [n \in Nat |-> IF n = 0 THEN 1 ELSE 2 * Power[n - 1]]
  BY <1>3 DEF Power
<1> DEFINE Q == [n \in Nat |-> IF n = 0 THEN 1 ELSE 2 * Power[n - 1]]
<1>5. \A n \in Nat : Power[n] = IF n = 0 THEN 1 ELSE 2 * Power[n - 1]
  BY <1>4
<1>6. \A n \in Nat : Power[n] \in Nat
  <2> DEFINE Failing == {m \in Nat : Power[m] \notin Nat}
  <2> SUFFICES ASSUME Failing # {} PROVE FALSE
    OBVIOUS
  <2>1. PICK m \in Failing : \A y \in Failing : m <= y
    <3>1. Failing \in SUBSET Nat
      OBVIOUS
    <3> HIDE DEF Failing
    <3> QED BY <3>1, LeastNumber
  <2>2. m # 0
    BY <1>5, <2>1
  <2>3. m - 1 \in Nat /\ Power[m - 1] \in Nat
    BY <2>1, <2>2
  <2> QED BY <1>5, <2>1, <2>2, <2>3
<1>7. Power \in [Nat -> Nat]
  <2>1. Power = [n \in Nat |-> Power[n]]
    BY <1>4, <1>5
  <2> QED BY <1>6, <2>1
<1> QED BY <1>5, <1>7

\* Doubling and capping again is capping once.
LEMMA CappedDoubled ==
  ASSUME NEW x \in Nat
  PROVE  Capped(2 * Capped(x)) = Capped(2 * x)
BY ScheduleAssumption DEF Capped

\* Backoff, which doubles and caps with each attempt, is the doubled base, capped.
LEMMA BackoffIs == \A n \in Nat \ {0} : Backoff[n] = Capped(Base * Power[n - 1])
<1> DEFINE Delay(n) == IF n = 0 THEN Capped(Base) ELSE Capped(Base * Power[n - 1])
           B == [n \in Nat |-> Delay(n)]
<1>1. Base \in Nat
  BY ScheduleAssumption
<1>2. Delay(0) = Capped(Base) /\ Delay(1) = Capped(Base)
  BY <1>1, PowerIs
<1>3. ASSUME NEW n \in Nat, n > 1 PROVE Delay(n) = Capped(2 * Delay(n - 1))
  <2>1. n - 2 \in Nat /\ Power[n - 2] \in Nat
    BY <1>3, PowerIs
  <2>2. Power[(n - 2) + 1] = 2 * Power[n - 2]
    BY <2>1, PowerIs
  <2>3. (n - 2) + 1 = n - 1 /\ (n - 1) - 1 = n - 2
    BY <1>3
  <2>4. \A a, b \in Nat : a * b \in Nat /\ a * (2 * b) = 2 * (a * b)
    OBVIOUS
  <2>5. Base * Power[n - 2] \in Nat /\ Base * Power[n - 1] = 2 * (Base * Power[n - 2])
    <3>1. Power[n - 1] = 2 * Power[n - 2]
      BY <2>2, <2>3
    <3> QED BY <1>1, <2>1, <2>4, <3>1
  <2>6. Delay(n - 1) = Capped(Base * Power[n - 2])
    BY <1>3, <2>3
  <2>7. Delay(n) = Capped(2 * (Base * Power[n - 2]))
    BY <1>3, <2>5
  <2> QED BY <2>5, <2>6, <2>7, CappedDoubled
<1> HIDE DEF Delay
<1>4. B = [n \in Nat |-> IF n <= 1 THEN Capped(Base) ELSE Capped(2 * B[n - 1])]
  <2>1. ASSUME NEW n \in Nat
        PROVE  B[n] = IF n <= 1 THEN Capped(Base) ELSE Capped(2 * B[n - 1])
    BY <1>2, <1>3
  <2> QED BY <2>1
<1> HIDE DEF B
<1>5. Backoff = [n \in Nat |-> IF n <= 1 THEN Capped(Base) ELSE Capped(2 * Backoff[n - 1])]
  BY <1>4 DEF Backoff
<1>6. \A n \in Nat : Backoff[n] = IF n <= 1 THEN Capped(Base) ELSE Capped(2 * Backoff[n - 1])
  BY <1>5
<1>7. \A n \in Nat : Backoff[n] = Delay(n)
  <2> DEFINE Differ == {m \in Nat : Backoff[m] # Delay(m)}
  <2> SUFFICES ASSUME Differ # {} PROVE FALSE
    OBVIOUS
  <2>1. PICK m \in Differ : \A y \in Differ : m <= y
    <3>1. Differ \in SUBSET Nat
      OBVIOUS
    <3> HIDE DEF Differ
    <3> QED BY <3>1, LeastNumber
  <2>2. m > 1
    BY <1>2, <1>6, <2>1
  <2>3. m - 1 \in Nat /\ Backoff[m - 1] = Delay(m - 1)
    BY <2>1, <2>2
  <2> QED BY <1>3, <1>6, <2>1, <2>2, <2>3
<1> QED BY <1>7 DEF Delay

\* The greatest duration is beyond the cap.
LEMMA WidthFacts == Power[Width - 1] \in Nat /\ MaxDelay < Power[Width - 1]
<1>1. Width \in Nat \ {0}
  BY Zenon, ScheduleAssumption
<1>2. Width - 1 \in Nat
  BY <1>1
<1> QED BY <1>2, PowerIs, ScheduleAssumption

\* retryBackoff returns a duration that is at most the cap, for every attempt
\* handleFailure asks about; it is the doubled one if that fits, and otherwise the
\* cap or a negative one.
LEMMA BackoffCapped ==
  ASSUME NEW n \in Nat \ {0}, NEW delay \in RetryBackoff(n)
  PROVE  /\ delay \in Int /\ delay <= MaxDelay
         /\ Fits(n) => delay = Backoff[n] /\ delay >= 0
         /\ ~Fits(n) => delay < 0 \/ delay = MaxDelay
<1>1. Power[n - 1] \in Nat
  BY PowerIs
<1>2. Base * Power[n - 1] \in Nat
  <2>1. \A a, b \in Nat : a * b \in Nat
    OBVIOUS
  <2> QED BY <1>1, <2>1, ScheduleAssumption
<1>3. PICK d \in Durations(Base * Power[n - 1]) : delay = Capped(d)
  BY DEF RetryBackoff
<1>4. CASE Fits(n)
  <2>1. d = Base * Power[n - 1]
    BY <1>3, <1>4 DEF Durations, Fits
  <2>2. delay = Backoff[n]
    BY <1>3, <2>1, BackoffIs
  <2> QED BY <1>2, <1>3, <1>4, <2>1, <2>2, ScheduleAssumption DEF Capped
<1>5. CASE ~Fits(n)
  <2>1. d \in {-Power[Width - 1], Power[Width - 1] - 1}
    BY <1>3, <1>5 DEF Durations, Fits
  <2> QED BY <1>3, <1>5, <2>1, WidthFacts, ScheduleAssumption DEF Capped
<1> QED BY <1>4, <1>5

-----------------------------------------------------------------------------
\* The delay DelayDoubles asks for.
Doubled(delay, n) == IF Fits(n) THEN delay = Backoff[n] ELSE delay \in {0, MaxDelay}

\* What a failure puts in the retry set: a well-typed entry, due after its
\* delay by the clock of the process.
LEMMA EntryOfFailure ==
  ASSUME TypeOK, NEW p \in Processes, NEW m \in Messages, HandleFailure(p, m),
         retry' # retry
  PROVE  \E e \in Entry :
           /\ retry' = retry \cup {e} /\ e.id = m
           /\ e.score = UnixMilli(now + offset[p] + e.delay) /\ e.since = now
           /\ Doubled(e.delay, attempts'[m])
<1>1. PICK delay \in RetryBackoff(attempts'[m]) : EnqueueWithDelay(p, m, delay)
  BY DEF HandleFailure
<1> DEFINE d == IF delay < 0 THEN 0 ELSE delay
           e == [id |-> m, score |-> UnixMilli(now + offset[p] + d), since |-> now, delay |-> d]
<1>2. attempts'[m] \in Nat \ {0}
  BY DEF TypeOK, HandleFailure
<1>3. d \in 0 .. MaxDelay
  BY <1>1, <1>2, BackoffCapped, ScheduleAssumption
<1>4. now \in 0 .. LastFailure /\ offset[p] \in 0 .. MaxSkew
  BY ScheduleAssumption DEF TypeOK, HandleFailure
<1>5. UnixMilli(now + offset[p] + d) \in 0 .. Horizon
  <2>1. now + offset[p] + d \in Nat /\ now + offset[p] + d <= Horizon
    BY <1>3, <1>4, ScheduleAssumption DEF Horizon
  <2>2. UnixMilli(now + offset[p] + d) \in 0 .. (now + offset[p] + d)
    BY <2>1, UnixMilliRange
  <2>3. Horizon \in Nat
    BY ScheduleAssumption DEF Horizon
  <2> QED
    BY <2>1, <2>2, <2>3
<1>6. retry' = retry \cup {e}
  BY <1>1, <1>4 DEF EnqueueWithDelay, Clock
<1>7. e \in Entry
  BY <1>3, <1>4, <1>5 DEF Entry
<1>8. Doubled(d, attempts'[m])
  BY <1>1, <1>2, BackoffCapped, ScheduleAssumption DEF Doubled
<1> QED
  BY <1>6, <1>7, <1>8

\* Every step keeps the types.
LEMMA TypeStep == TypeOK /\ [Next]_vars => TypeOK'
<1> SUFFICES ASSUME TypeOK, [Next]_vars PROVE TypeOK'
  OBVIOUS
<1>1. CASE Tick
  BY <1>1, ScheduleAssumption DEF Tick, TypeOK, Horizon, Entry
<1>2. ASSUME NEW p \in Processes, RequeueDue(p) PROVE TypeOK'
  BY <1>2 DEF RequeueDue, TypeOK, Horizon, Entry
<1>3. ASSUME NEW p \in Processes, NEW m \in Messages, HandleFailure(p, m) PROVE TypeOK'
  <2>1. now' = now /\ offset' = offset
    BY <1>3 DEF HandleFailure
  <2>2. attempts' \in [Messages -> 0 .. MaxRetries + 1]
    BY <1>3, ScheduleAssumption DEF HandleFailure, TypeOK
  <2>3. retry' \subseteq Entry /\ \A d, e \in retry' : d.id = e.id => d = e
    <3>1. CASE retry' = retry
      BY <3>1 DEF TypeOK
    <3>2. CASE retry' # retry
      <4>1. PICK e \in Entry : retry' = retry \cup {e} /\ e.id = m
        BY <1>3, <3>2, EntryOfFailure
      <4>2. \A d \in retry : d.id # m
        BY <1>3 DEF HandleFailure, InRetry
      <4> QED
        BY <4>1, <4>2 DEF TypeOK
    <3> QED
      BY <3>1, <3>2
  <2> QED
    BY <2>1, <2>2, <2>3 DEF TypeOK, Horizon, Entry
<1>4. CASE UNCHANGED vars
  BY <1>4 DEF vars, TypeOK, Horizon, Entry
<1> QED
  BY <1>1, <1>2, <1>3, <1>4 DEF Next

\* Type correctness: in particular, every delay is in 0 .. MaxDelay, whatever
\* becomes of a product that no longer fits a time.Duration.
THEOREM TypeCorrect == Spec => []TypeOK
<1>1. Init => TypeOK
  BY ScheduleAssumption DEF Init, TypeOK, Horizon
<1> QED
  BY <1>1, TypeStep, PTL DEF Spec

-----------------------------------------------------------------------------
\* A score is at most a millisecond short of when the delay ends, by any clock
\* that is not behind `now`.
ScoreCovers == \A e \in retry : e.since + e.delay - UnitsPerMs < UnitsPerMs * e.score

\* Every step keeps it.
LEMMA ScoreCoversStep == TypeOK /\ ScoreCovers /\ [Next]_vars => ScoreCovers'
<1> SUFFICES ASSUME TypeOK, ScoreCovers, [Next]_vars PROVE ScoreCovers'
  OBVIOUS
<1>1. CASE retry' \subseteq retry
  BY <1>1 DEF ScoreCovers
<1>2. ASSUME NEW p \in Processes, NEW m \in Messages, HandleFailure(p, m), retry' # retry
      PROVE  ScoreCovers'
  <2>1. PICK e \in Entry :
          /\ retry' = retry \cup {e}
          /\ e.score = UnixMilli(now + offset[p] + e.delay) /\ e.since = now
    BY <1>2, EntryOfFailure
  <2>2. now \in Nat /\ offset[p] \in Nat /\ e.delay \in Nat /\ e.score \in Int
    BY <2>1, ScheduleAssumption DEF TypeOK, Entry, Horizon
  <2>3. now + offset[p] + e.delay < UnitsPerMs * e.score + UnitsPerMs
    BY <2>1, <2>2, UnixMilliFloor
  <2>4. UnitsPerMs * e.score \in Int /\ UnitsPerMs \in Nat
    BY <2>2, ScheduleAssumption
  <2>5. e.since + e.delay - UnitsPerMs < UnitsPerMs * e.score
    BY <2>1, <2>2, <2>3, <2>4
  <2> QED
    BY <2>1, <2>5 DEF ScoreCovers
<1>3. retry' \subseteq retry
        \/ \E p \in Processes, m \in Messages : HandleFailure(p, m) /\ retry' # retry
  BY DEF Next, Tick, RequeueDue, FirstByScore, vars
<1> QED
  BY <1>1, <1>2, <1>3

\* No message is promoted before its delay is over by a millisecond and the
\* skew of the clocks, for every backoff and any clocks.
THEOREM Punctual == Spec => NeverEarly
<1>1. Init => TypeOK /\ ScoreCovers
  BY ScheduleAssumption DEF Init, TypeOK, Horizon, ScoreCovers
<1>2. ASSUME TypeOK, ScoreCovers, [Next]_vars
      PROVE  [\A e \in retry \ retry' : now > e.since + e.delay - UnitsPerMs - MaxSkew]_vars
  <2> SUFFICES ASSUME NEW e \in retry \ retry'
               PROVE  now > e.since + e.delay - UnitsPerMs - MaxSkew
    OBVIOUS
  <2>1. PICK p \in Processes : RequeueDue(p)
    <3>1. \A p \in Processes, m \in Messages : HandleFailure(p, m) => retry \subseteq retry'
      BY DEF HandleFailure, EnqueueWithDelay
    <3> QED
      BY <1>2, <3>1 DEF Next, Tick, vars
  <2>2. e.score <= UnixMilli(now + offset[p])
    BY <2>1 DEF RequeueDue, FirstByScore, Clock
  <2>3. /\ now \in Nat /\ offset[p] \in 0 .. MaxSkew
        /\ e.score \in Int /\ e.since \in Int /\ e.delay \in Int
    BY <1>2, ScheduleAssumption DEF TypeOK, Entry, Horizon
  <2>4. UnixMilli(now + offset[p]) \in Int
    BY <2>3, UnixMilliFloor, ScheduleAssumption
  <2>5. UnitsPerMs * UnixMilli(now + offset[p]) <= now + offset[p]
    BY <2>3, UnixMilliFloor, ScheduleAssumption
  <2>6. UnitsPerMs * e.score <= UnitsPerMs * UnixMilli(now + offset[p])
    BY <2>2, <2>3, <2>4, ScheduleAssumption
  <2>7. e.since + e.delay - UnitsPerMs < UnitsPerMs * e.score
    BY <1>2 DEF ScoreCovers
  <2>8. UnitsPerMs \in Nat /\ MaxSkew \in Nat /\ UnitsPerMs * e.score \in Int
        /\ UnitsPerMs * UnixMilli(now + offset[p]) \in Int
    BY <2>3, <2>4, ScheduleAssumption
  <2> QED
    BY <2>3, <2>5, <2>6, <2>7, <2>8
<1>3. TypeOK /\ ScoreCovers /\ [Next]_vars => (TypeOK /\ ScoreCovers)'
  BY TypeStep, ScoreCoversStep
<1> QED
  BY <1>1, <1>2, <1>3, PTL DEF Spec, NeverEarly

-----------------------------------------------------------------------------
\* Every step keeps the delays doubled: the attempts of a message stay while it is
\* in the retry set.
LEMMA DelayDoublesStep == TypeOK /\ DelayDoubles /\ [Next]_vars => DelayDoubles'
<1> SUFFICES ASSUME TypeOK, DelayDoubles, [Next]_vars PROVE DelayDoubles'
  OBVIOUS
<1>1. \A e \in retry : Doubled(e.delay, attempts[e.id])
  BY DEF DelayDoubles, Doubled
<1>2. SUFFICES \A e \in retry' : Doubled(e.delay, attempts'[e.id])
  BY DEF DelayDoubles, Doubled, Fits
<1>3. CASE retry' \subseteq retry /\ attempts' = attempts
  BY <1>1, <1>3
<1>4. ASSUME NEW p \in Processes, NEW m \in Messages, HandleFailure(p, m)
      PROVE  \A e \in retry' : Doubled(e.delay, attempts'[e.id])
  <2>1. \A e \in retry : e.id \in Messages \ {m} /\ attempts'[e.id] = attempts[e.id]
    BY <1>4 DEF HandleFailure, InRetry, TypeOK, Entry
  <2>2. \A e \in retry : Doubled(e.delay, attempts'[e.id])
    BY <1>1, <2>1
  <2>3. CASE retry' = retry
    BY <2>2, <2>3
  <2>4. CASE retry' # retry
    <3>1. PICK e \in Entry : retry' = retry \cup {e} /\ e.id = m /\ Doubled(e.delay, attempts'[m])
      BY <1>4, <2>4, EntryOfFailure
    <3> QED
      BY <2>2, <3>1
  <2> QED
    BY <2>3, <2>4
<1> QED
  BY <1>3, <1>4 DEF Next, Tick, RequeueDue, FirstByScore, vars

\* A message waits its doubled and capped delay, for every base, cap and width of a
\* duration; where the product no longer fits it waits the cap or not at all.
THEOREM DelaysDouble == Spec => []DelayDoubles
<1>1. Init => TypeOK /\ DelayDoubles
  BY ScheduleAssumption DEF Init, TypeOK, Horizon, DelayDoubles
<1>2. TypeOK /\ DelayDoubles /\ [Next]_vars => (TypeOK /\ DelayDoubles)'
  BY TypeStep, DelayDoublesStep
<1> QED
  BY <1>1, <1>2, PTL DEF Spec
=============================================================================
