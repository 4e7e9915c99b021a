----------------------- MODULE RecoveryServiceProofs -----------------------
(***************************************************************************)
(* Proofs about RecoveryService, for any jobs, sweepers, batch and number  *)
(* of faults: how often recovery enqueues a job.                           *)
(*                                                                         *)
(* A sweeper owes a job a message while the job's row is stale, or on its  *)
(* lists.  A row that turns stale makes every sweeper owe one at most, the *)
(* message pays it, and only an error lets a sweeper owe it again.         *)
(***************************************************************************)
EXTENDS RecoveryService, JobStoreLemmas, FiniteSetTheorems, SequenceTheorems,
        WellFoundedInduction

\* The job a call is at, and whether the call, or the next one, has to enqueue j.
At(c) == IF c.processing # {} THEN Min(c.processing) ELSE Min(c.pending)

Owes(c, row, j) ==
  /\ ~(c.pc = "update" /\ j = At(c))
  /\ row.stale \/ j \in c.processing \cup c.pending

Debtors(j) == {s \in Sweepers : Owes(sweep[s], jobs[j], j)}

\* A row ages only while its job waits or is worked on.
StaleIsActive == \A j \in Jobs : jobs[j].stale => jobs[j].status \in {"pending", "processing"}

\* No job is on both lists of a call: a row that changed its status after it
\* was listed is fresh, or too young for this call.
Separate(c, tab) ==
  /\ c.processing \cap c.pending = {}
  /\ c.pc \in {"idle", "processing"} => c.processing = {}
  /\ c.pc \in {"idle"} \cup Dedicated => c.pending = {}
  /\ c.pc \in {"len", "pending"} =>
       \A j \in c.processing : tab[j].stale /\ j \notin c.young => tab[j].status = "processing"

OnceListed == \A s \in Sweepers : Separate(sweep[s], jobs)

Paid ==
  \A j \in Jobs :
    requeued[j] + Cardinality(Debtors(j)) <= aged[j] * Cardinality(Sweepers) + upsets

SweepInv == TypeOK /\ StaleIsActive /\ OnceListed /\ Paid

\* How a step may change the account of a job: what is enqueued and owed grows by
\* no more than what ageing and upsets grant.
Settled(j) ==
  requeued'[j] + Cardinality(Debtors(j)') + aged[j] * Cardinality(Sweepers) + upsets
    <= requeued[j] + Cardinality(Debtors(j)) + aged'[j] * Cardinality(Sweepers) + upsets'

Settles == \A j \in Jobs : Settled(j)

\* What each step does for the invariant.
Kept == TypeOK' /\ StaleIsActive' /\ OnceListed' /\ Settles

-----------------------------------------------------------------------------
\* The job the loops are at is on its list.
LEMMA MinIsMember ==
  ASSUME NEW S \in SUBSET Nat, S # {}
  PROVE  Min(S) \in S
<1>1. PICK x \in S : \A y \in S : ~(<<y, x>> \in OpToRel(<, Nat))
  BY NatLessThanWellFounded, WFMin, Zenon
<1>2. \A y \in S : ~(y < x)
  BY <1>1, Zenon DEF OpToRel
<1>3. \A y \in S : x <= y
  BY <1>2
<1> QED BY <1>3, Zenon DEF Min

LEMMA CurrentIsListed ==
  ASSUME TypeOK, NEW s \in Sweepers, sweep[s].processing \cup sweep[s].pending # {}
  PROVE  /\ Current(s) \in Jobs
         /\ sweep[s].processing # {} => Current(s) \in sweep[s].processing
         /\ sweep[s].processing = {} => Current(s) \in sweep[s].pending
<1>1. sweep[s].processing \in SUBSET Jobs /\ sweep[s].pending \in SUBSET Jobs
  BY DEF TypeOK, Sweep
<1>2. sweep[s].processing \in SUBSET Nat /\ sweep[s].pending \in SUBSET Nat
  BY <1>1, JobsAssumption
<1>3. sweep[s].processing # {} => Min(sweep[s].processing) \in sweep[s].processing
  BY <1>2, MinIsMember
<1>4. sweep[s].pending # {} => Min(sweep[s].pending) \in sweep[s].pending
  BY <1>2, MinIsMember
<1> QED BY <1>1, <1>3, <1>4 DEF Current

LEMMA CurrentIsAt == \A s : Current(s) = At(sweep[s])
BY DEF Current, At

LEMMA DebtorsFinite ==
  ASSUME NEW j
  PROVE  /\ IsFiniteSet(Debtors(j)) /\ Cardinality(Debtors(j)) \in Nat
         /\ Cardinality(Debtors(j)) <= Cardinality(Sweepers)
         /\ IsFiniteSet(Debtors(j)') /\ Cardinality(Debtors(j)') \in Nat
         /\ Cardinality(Debtors(j)') <= Cardinality(Sweepers)
<1>1. Debtors(j) \in SUBSET Sweepers /\ Debtors(j)' \in SUBSET Sweepers
  BY DEF Debtors
<1> QED BY <1>1, RecoveryAssumption, FS_Subset, FS_CardinalityType

-----------------------------------------------------------------------------
(* What a step may change of the account of a job.                         *)

\* The terms of the account.
LEMMA Account ==
  ASSUME SweepInv, NEW j \in Jobs
  PROVE  /\ requeued[j] + Cardinality(Debtors(j)) <= aged[j] * Cardinality(Sweepers) + upsets
         /\ requeued[j] \in Nat /\ aged[j] \in Nat /\ upsets \in Nat
         /\ Cardinality(Debtors(j)) \in Nat /\ Cardinality(Sweepers) \in Nat
         /\ aged[j] * Cardinality(Sweepers) \in Nat
<1>1. requeued[j] \in Nat /\ aged[j] \in Nat /\ upsets \in Nat
  BY RecoveryAssumption DEF SweepInv, TypeOK
<1>2. Cardinality(Debtors(j)) \in Nat /\ Cardinality(Sweepers) \in Nat
  BY DebtorsFinite, RecoveryAssumption, FS_CardinalityType
<1>3. aged[j] * Cardinality(Sweepers) \in Nat
  <2>1. \A a, n \in Nat : a * n \in Nat
    OBVIOUS
  <2> QED BY <1>1, <1>2, <2>1
<1> QED BY <1>1, <1>2, <1>3 DEF SweepInv, Paid

\* Nobody owes more than before.
LEMMA NoNewDebt ==
  ASSUME SweepInv, NEW j \in Jobs,
         requeued'[j] = requeued[j], aged'[j] = aged[j],
         upsets' \in {upsets, upsets + 1}, Debtors(j)' \subseteq Debtors(j)
  PROVE  Settled(j)
<1>1. Cardinality(Debtors(j)') <= Cardinality(Debtors(j))
  BY DebtorsFinite, FS_Subset
<1>2. Cardinality(Debtors(j)') \in Nat
  BY DebtorsFinite
<1> QED BY <1>1, <1>2, Account DEF Settled

\* A message is enqueued by a sweeper that owed it.
LEMMA DebtPaid ==
  ASSUME SweepInv, NEW j \in Jobs, NEW s \in Debtors(j),
         requeued'[j] = requeued[j] + 1, aged'[j] = aged[j],
         upsets' = upsets, Debtors(j)' \subseteq Debtors(j) \ {s}
  PROVE  Settled(j)
<1>1. IsFiniteSet(Debtors(j) \ {s}) /\ Cardinality(Debtors(j) \ {s}) = Cardinality(Debtors(j)) - 1
  BY DebtorsFinite, FS_RemoveElement
<1>2. Cardinality(Debtors(j)') <= Cardinality(Debtors(j) \ {s})
  BY <1>1, FS_Subset
<1>3. Cardinality(Debtors(j)') \in Nat
  BY DebtorsFinite
<1> QED BY <1>1, <1>2, <1>3, Account DEF Settled

\* An error pays for a message, or lets one sweeper owe it again.
LEMMA ErrorPays ==
  ASSUME SweepInv, NEW j \in Jobs, NEW s,
         aged'[j] = aged[j], upsets' = upsets + 1,
         \/ requeued'[j] = requeued[j] + 1 /\ Debtors(j)' \subseteq Debtors(j)
         \/ requeued'[j] = requeued[j] /\ Debtors(j)' \subseteq Debtors(j) \cup {s}
  PROVE  Settled(j)
<1>1. /\ IsFiniteSet(Debtors(j) \cup {s})
      /\ Cardinality(Debtors(j) \cup {s}) \in Nat
      /\ Cardinality(Debtors(j) \cup {s}) <= Cardinality(Debtors(j)) + 1
  <2>1. IsFiniteSet(Debtors(j)) /\ Cardinality(Debtors(j)) \in Nat
    BY DebtorsFinite
  <2>2. /\ IsFiniteSet(Debtors(j) \cup {s})
        /\ Cardinality(Debtors(j) \cup {s})
             = IF s \in Debtors(j) THEN Cardinality(Debtors(j)) ELSE Cardinality(Debtors(j)) + 1
    BY <2>1, FS_AddElement
  <2> QED BY <2>1, <2>2
<1>2. Cardinality(Debtors(j)') \in Nat
  BY DebtorsFinite
<1>3. CASE requeued'[j] = requeued[j] + 1 /\ Debtors(j)' \subseteq Debtors(j)
  <2>1. Cardinality(Debtors(j)') <= Cardinality(Debtors(j))
    BY <1>3, DebtorsFinite, FS_Subset
  <2> QED BY <1>2, <1>3, <2>1, Account DEF Settled
<1>4. CASE requeued'[j] = requeued[j] /\ Debtors(j)' \subseteq Debtors(j) \cup {s}
  <2>1. Cardinality(Debtors(j)') <= Cardinality(Debtors(j) \cup {s})
    BY <1>1, <1>4, FS_Subset
  <2> QED BY <1>1, <1>2, <1>4, <2>1, Account DEF Settled
<1> QED BY <1>3, <1>4

\* The row turns stale: everybody may owe one more.
LEMMA AgingGrants ==
  ASSUME SweepInv, NEW j \in Jobs,
         requeued'[j] = requeued[j], aged'[j] = aged[j] + 1, upsets' = upsets
  PROVE  Settled(j)
<1>1. Cardinality(Debtors(j)') \in Nat /\ Cardinality(Debtors(j)') <= Cardinality(Sweepers)
  BY DebtorsFinite
<1>2. aged'[j] * Cardinality(Sweepers) = aged[j] * Cardinality(Sweepers) + Cardinality(Sweepers)
  <2>1. \A a, n \in Nat : (a + 1) * n = a * n + n
    OBVIOUS
  <2> QED BY <2>1, Account
<1> QED BY <1>1, <1>2, Account DEF Settled

-----------------------------------------------------------------------------
\* One sweeper moves on, and rows are at most refreshed.
LEMMA DebtorsAfter ==
  ASSUME SweepInv, NEW s \in Sweepers, NEW c \in Sweep, sweep' = [sweep EXCEPT ![s] = c],
         NEW k \in Jobs, jobs'[k] = jobs[k] \/ ~jobs'[k].stale
  PROVE  /\ Debtors(k)' \subseteq Debtors(k) \cup {s}
         /\ (Owes(c, jobs'[k], k) => Owes(sweep[s], jobs[k], k)) => Debtors(k)' \subseteq Debtors(k)
         /\ ~Owes(c, jobs'[k], k) => Debtors(k)' \subseteq Debtors(k) \ {s}
<1>1. sweep'[s] = c /\ \A v \in Sweepers \ {s} : sweep'[v] = sweep[v]
  BY DEF SweepInv, TypeOK
<1>2. \A v \in Sweepers \ {s} : Owes(sweep[v], jobs'[k], k) => Owes(sweep[v], jobs[k], k)
  BY DEF Owes
<1>3. Debtors(k)' = {v \in Sweepers : Owes(sweep'[v], jobs'[k], k)}
  BY DEF Debtors, Owes
<1> QED BY <1>1, <1>2, <1>3, Zenon DEF Debtors

\* A sweep that follows the rules keeps them.
LEMMA Moved ==
  ASSUME SweepInv, NEW s \in Sweepers, NEW c \in Sweep, sweep' = [sweep EXCEPT ![s] = c],
         Separate(c, jobs'), jobs' \in [Jobs -> Row],
         c.pc \in {"enqueue", "update"} => c.processing \cup c.pending # {},
         \A k \in Jobs : jobs'[k] = jobs[k] \/ ~jobs'[k].stale
  PROVE  /\ sweep' \in [Sweepers -> Sweep]
         /\ \A v \in Sweepers : sweep'[v].pc \in {"enqueue", "update"}
                                  => sweep'[v].processing \cup sweep'[v].pending # {}
         /\ StaleIsActive' /\ OnceListed'
<1>1. sweep \in [Sweepers -> Sweep]
  BY DEF SweepInv, TypeOK
<1>2. sweep' \in [Sweepers -> Sweep]
  BY <1>1
<1>3. sweep'[s] = c /\ \A v \in Sweepers \ {s} : sweep'[v] = sweep[v]
  BY <1>1
<1>4. StaleIsActive'
  BY DEF SweepInv, StaleIsActive
<1>5. ASSUME NEW v \in Sweepers \ {s} PROVE Separate(sweep[v], jobs')
  BY <1>1 DEF SweepInv, OnceListed, Separate, Sweep
<1>6. \A v \in Sweepers : Separate(sweep'[v], jobs')
  BY <1>3, <1>5
<1>7. OnceListed'
  BY <1>6 DEF OnceListed, Separate
<1>8. \A v \in Sweepers : sweep'[v].pc \in {"enqueue", "update"}
                            => sweep'[v].processing \cup sweep'[v].pending # {}
  BY <1>3 DEF SweepInv, TypeOK
<1> QED BY <1>2, <1>4, <1>7, <1>8

\* Where the loop over what is left starts, or the call ends.
Left(c, P, Q) ==
  /\ c.processing = P /\ c.pending = Q /\ c.pc \in {"idle", "enqueue"}
  /\ c.pc = "idle" => P = {} /\ Q = {}
  /\ c.pc = "enqueue" => P \cup Q # {}

LEMMA ContinueFacts ==
  ASSUME NEW s \in Sweepers, NEW P \in SUBSET Jobs, NEW Q \in SUBSET Jobs, Continue(s, P, Q)
  PROVE  \E c \in Sweep : sweep' = [sweep EXCEPT ![s] = c] /\ Left(c, P, Q)
<1>1. CASE P \cup Q = {}
  <2>1. sweep' = [sweep EXCEPT ![s] = Idle]
    BY <1>1 DEF Continue, Return
  <2>2. Idle \in Sweep /\ Idle.processing = P /\ Idle.pending = Q /\ Idle.pc = "idle"
    BY <1>1 DEF Idle, Sweep
  <2> QED BY <1>1, <2>1, <2>2 DEF Left
<1>2. CASE P \cup Q # {}
  <2> DEFINE c == [pc |-> "enqueue", processing |-> P, pending |-> Q, young |-> {}]
  <2>1. sweep' = [sweep EXCEPT ![s] = c]
    BY <1>2 DEF Continue, Goto
  <2>2. c \in Sweep /\ c.processing = P /\ c.pending = Q /\ c.pc = "enqueue"
    BY DEF Sweep
  <2> QED BY <1>2, <2>1, <2>2 DEF Left
<1> QED BY <1>1, <1>2

LEMMA ListStuckFacts ==
  ASSUME NEW st, NEW young
  PROVE  /\ ListStuck(jobs, st, young, BatchSize) \in SUBSET Jobs
         /\ \A j \in ListStuck(jobs, st, young, BatchSize) :
              jobs[j].status = st /\ jobs[j].stale /\ j \notin young
BY DEF ListStuck

\* What the statements of a sweep or an attempt do to the rows.
LEMMA Refreshed ==
  ASSUME NEW tab \in [Jobs -> Row], NEW j \in Jobs, NEW st \in Status,
         NEW new \in {tab, UpdateJobStatus(tab, j, st), MarkProcessing(tab, j), InsertJob(tab, j)}
  PROVE  /\ new \in [Jobs -> Row]
         /\ \A k \in Jobs : new[k] = tab[k] \/ ~new[k].stale
<1>1. new \in [Jobs -> Row]
  BY StatementsTyped
<1>2. \A k \in Jobs : UpdateJobStatus(tab, j, st)[k] = tab[k] \/ ~UpdateJobStatus(tab, j, st)[k].stale
  BY DEF UpdateJobStatus
<1>3. \A k \in Jobs : MarkProcessing(tab, j)[k] = tab[k] \/ ~MarkProcessing(tab, j)[k].stale
  BY DEF UpdateJobStatus, MarkProcessing
<1>4. \A k \in Jobs : InsertJob(tab, j)[k] = tab[k] \/ ~InsertJob(tab, j)[k].stale
  BY DEF InsertJob, NewRow
<1> QED BY <1>1, <1>2, <1>3, <1>4

\* Steps of the environment that leave the sweeps alone.
LEMMA Elsewhere ==
  ASSUME SweepInv, jobs' \in [Jobs -> Row],
         \A k \in Jobs : jobs'[k] = jobs[k] \/ ~jobs'[k].stale,
         sweep' = sweep, aged' = aged, requeued' = requeued,
         upsets' \in {upsets, upsets + 1}
  PROVE  StaleIsActive' /\ OnceListed' /\ Settles
<1>1. StaleIsActive'
  BY DEF SweepInv, StaleIsActive
<1>2. ASSUME NEW v \in Sweepers PROVE Separate(sweep[v], jobs')
  BY DEF SweepInv, OnceListed, Separate, TypeOK, Sweep
<1>3. OnceListed'
  BY <1>2 DEF OnceListed, Separate
<1>4. ASSUME NEW k \in Jobs PROVE Debtors(k)' \subseteq Debtors(k)
  BY DEF Debtors, Owes, At
<1>5. Settles
  BY <1>4, NoNewDebt DEF Settles
<1> QED BY <1>1, <1>3, <1>5

-----------------------------------------------------------------------------
(* The calls of Recover.                                                   *)

\* A step within a call that writes no row and enqueues nothing.
LEMMA QuietStep ==
  ASSUME SweepInv, NEW s \in Sweepers, NEW c \in Sweep, sweep' = [sweep EXCEPT ![s] = c],
         UNCHANGED <<jobs, messages, holders, history>>,
         Separate(c, jobs),
         c.pc \in {"enqueue", "update"} => c.processing \cup c.pending # {},
         \A k \in Jobs : Owes(c, jobs[k], k) => Owes(sweep[s], jobs[k], k)
  PROVE  Kept
<1>1. /\ jobs' = jobs /\ main' = main /\ taken' = taken /\ retry' = retry /\ holders' = holders
      /\ aged' = aged /\ requeued' = requeued /\ upsets' = upsets
  BY DEF messages, history
<1>2. jobs' \in [Jobs -> Row] /\ \A k \in Jobs : jobs'[k] = jobs[k] \/ ~jobs'[k].stale
  BY <1>1 DEF SweepInv, TypeOK
<1>3. /\ sweep' \in [Sweepers -> Sweep]
      /\ \A v \in Sweepers : sweep'[v].pc \in {"enqueue", "update"}
                               => sweep'[v].processing \cup sweep'[v].pending # {}
      /\ StaleIsActive' /\ OnceListed'
  <2>1. Separate(c, jobs')
    BY <1>1
  <2> QED BY <1>2, <2>1, Moved
<1>4. TypeOK'
  BY <1>1, <1>3 DEF SweepInv, TypeOK
<1>5. ASSUME NEW k \in Jobs PROVE Debtors(k)' \subseteq Debtors(k)
  <2>1. jobs'[k] = jobs[k] /\ (Owes(c, jobs'[k], k) => Owes(sweep[s], jobs[k], k))
    BY <1>1
  <2> QED BY <2>1, DebtorsAfter
<1>6. Settles
  BY <1>1, <1>5, NoNewDebt DEF Settles
<1> QED BY <1>3, <1>4, <1>6 DEF Kept

LEMMA BeginStep ==
  ASSUME SweepInv, NEW s \in Sweepers, Begin(s) PROVE Kept
<1> DEFINE c == [pc |-> "processing", processing |-> {}, pending |-> {}, young |-> {}]
<1>1. c \in Sweep /\ sweep' = [sweep EXCEPT ![s] = c] /\ Separate(c, jobs)
  BY DEF Sweep, Begin, Goto, Separate, Dedicated
<1>2. \A k \in Jobs : Owes(c, jobs[k], k) => Owes(sweep[s], jobs[k], k)
  BY DEF Owes, Begin
<1>3. c.pc = "processing" /\ UNCHANGED <<jobs, messages, holders, history>>
  BY DEF Begin
<1> HIDE DEF c
<1> QED BY <1>1, <1>2, <1>3, QuietStep

LEMMA ListProcessingStep ==
  ASSUME SweepInv, NEW s \in Sweepers, ListProcessing(s) PROVE Kept
<1> DEFINE young == sweep[s].young
           found == ListStuck(jobs, "processing", young, BatchSize)
           c == [pc |-> "len", processing |-> found, pending |-> {}, young |-> young]
<1>1. young \in SUBSET Jobs
  BY DEF SweepInv, TypeOK, Sweep
<1>2. found \in SUBSET Jobs /\ \A j \in found : jobs[j].status = "processing" /\ jobs[j].stale
  BY ListStuckFacts
<1>3. sweep' = [sweep EXCEPT ![s] = c]
  BY DEF ListProcessing, Goto
<1> HIDE DEF young, found
<1>4. c \in Sweep /\ Separate(c, jobs) /\ c.pc = "len"
  BY <1>1, <1>2 DEF Sweep, Separate, Dedicated
<1>5. \A k \in Jobs : Owes(c, jobs[k], k) => Owes(sweep[s], jobs[k], k)
  BY <1>2 DEF Owes, ListProcessing
<1>6. UNCHANGED <<jobs, messages, holders, history>>
  BY DEF ListProcessing
<1> HIDE DEF c
<1> QED BY <1>3, <1>4, <1>5, <1>6, QuietStep

LEMMA MeasureQueueStep ==
  ASSUME SweepInv, NEW s \in Sweepers, MeasureQueue(s) PROVE Kept
<1>1. /\ sweep[s].processing \in SUBSET Jobs /\ sweep[s].young \in SUBSET Jobs
      /\ sweep[s].pc = "len" /\ Separate(sweep[s], jobs) /\ sweep[s].pending = {}
  BY DEF SweepInv, TypeOK, Sweep, OnceListed, Separate, Dedicated, MeasureQueue
<1>2. UNCHANGED <<jobs, messages, holders, history>>
  BY DEF MeasureQueue
<1>3. CASE Len(main) = 0
  <2> DEFINE c == [pc |-> "pending", processing |-> sweep[s].processing, pending |-> {},
                   young |-> sweep[s].young]
  <2>1. c \in Sweep /\ sweep' = [sweep EXCEPT ![s] = c] /\ c.pc = "pending"
    BY <1>1, <1>3 DEF Sweep, MeasureQueue, Goto
  <2>2. Separate(c, jobs)
    BY <1>1 DEF Separate, Dedicated
  <2>3. \A k \in Jobs : Owes(c, jobs[k], k) => Owes(sweep[s], jobs[k], k)
    BY <1>1 DEF Owes
  <2> HIDE DEF c
  <2> QED BY <1>2, <2>1, <2>2, <2>3, QuietStep
<1>4. CASE Len(main) # 0
  <2>1. Continue(s, sweep[s].processing, {})
    BY <1>4 DEF MeasureQueue
  <2>2. PICK c \in Sweep : sweep' = [sweep EXCEPT ![s] = c] /\ Left(c, sweep[s].processing, {})
    BY <1>1, <2>1, ContinueFacts
  <2>3. Separate(c, jobs) /\ (c.pc \in {"enqueue", "update"} => c.processing \cup c.pending # {})
    BY <2>2 DEF Left, Separate, Dedicated
  <2>4. \A k \in Jobs : Owes(c, jobs[k], k) => Owes(sweep[s], jobs[k], k)
    BY <1>1, <2>2 DEF Left, Owes
  <2> QED BY <1>2, <2>2, <2>3, <2>4, QuietStep
<1> QED BY <1>3, <1>4

LEMMA ListPendingStep ==
  ASSUME SweepInv, NEW s \in Sweepers, ListPending(s) PROVE Kept
<1> DEFINE found == ListStuck(jobs, "pending", sweep[s].young, BatchSize)
<1>1. /\ sweep[s].processing \in SUBSET Jobs
      /\ sweep[s].pc = "pending" /\ Separate(sweep[s], jobs) /\ sweep[s].pending = {}
  BY DEF SweepInv, TypeOK, Sweep, OnceListed, Separate, Dedicated, ListPending
<1>2. /\ found \in SUBSET Jobs
      /\ \A j \in found : jobs[j].status = "pending" /\ jobs[j].stale /\ j \notin sweep[s].young
  BY ListStuckFacts
<1>3. Continue(s, sweep[s].processing, found) /\ UNCHANGED <<jobs, messages, holders, history>>
  BY DEF ListPending
<1>4. sweep[s].processing \cap found = {}
  <2>1. \A j \in sweep[s].processing : jobs[j].stale /\ j \notin sweep[s].young
                                         => jobs[j].status = "processing"
    BY <1>1 DEF Separate
  <2>2. ASSUME NEW j \in sweep[s].processing, j \in found PROVE FALSE
    <3>1. jobs[j].status = "processing" /\ jobs[j].status = "pending"
      BY <1>2, <2>1, <2>2
    <3> QED BY <3>1
  <2> QED BY <2>2
<1> HIDE DEF found
<1>5. PICK c \in Sweep : sweep' = [sweep EXCEPT ![s] = c] /\ Left(c, sweep[s].processing, found)
  BY <1>1, <1>2, <1>3, ContinueFacts
<1>6. Separate(c, jobs) /\ (c.pc \in {"enqueue", "update"} => c.processing \cup c.pending # {})
  BY <1>4, <1>5 DEF Left, Separate, Dedicated
<1>7. \A k \in Jobs : Owes(c, jobs[k], k) => Owes(sweep[s], jobs[k], k)
  BY <1>1, <1>2, <1>5 DEF Left, Owes
<1> QED BY <1>3, <1>5, <1>6, <1>7, QuietStep

\* A call ends without an error's effect on anything but itself: the lists are
\* lost, and what stays stale is owed by the next call.
LEMMA ReturnFacts ==
  ASSUME SweepInv, NEW s \in Sweepers, Return(s), jobs' \in [Jobs -> Row],
         \A k \in Jobs : jobs'[k] = jobs[k] \/ ~jobs'[k].stale
  PROVE  /\ sweep' \in [Sweepers -> Sweep]
         /\ \A v \in Sweepers : sweep'[v].pc \in {"enqueue", "update"}
                                  => sweep'[v].processing \cup sweep'[v].pending # {}
         /\ StaleIsActive' /\ OnceListed'
         /\ \A k \in Jobs : Debtors(k)' \subseteq Debtors(k) \cup {s}
         /\ \A k \in Jobs : ~(sweep[s].pc = "update" /\ k = Current(s))
                              => Debtors(k)' \subseteq Debtors(k)
<1>1. Idle \in Sweep /\ sweep' = [sweep EXCEPT ![s] = Idle]
  BY DEF Return, Idle, Sweep
<1>2. Separate(Idle, jobs') /\ Idle.pc = "idle"
  BY DEF Separate, Idle, Dedicated
<1>3. \A k \in Jobs : ~(sweep[s].pc = "update" /\ k = Current(s))
                        => (Owes(Idle, jobs'[k], k) => Owes(sweep[s], jobs[k], k))
  BY CurrentIsAt DEF Owes, Idle
<1> HIDE DEF Idle
<1>4. ASSUME NEW k \in Jobs
      PROVE  /\ Debtors(k)' \subseteq Debtors(k) \cup {s}
             /\ ~(sweep[s].pc = "update" /\ k = Current(s)) => Debtors(k)' \subseteq Debtors(k)
  BY <1>1, <1>3, DebtorsAfter
<1>5. /\ sweep' \in [Sweepers -> Sweep]
      /\ \A v \in Sweepers : sweep'[v].pc \in {"enqueue", "update"}
                               => sweep'[v].processing \cup sweep'[v].pending # {}
      /\ StaleIsActive' /\ OnceListed'
  BY <1>1, <1>2, Moved
<1> QED BY <1>4, <1>5

LEMMA ListingErrorStep ==
  ASSUME SweepInv, NEW s \in Sweepers, ListingError(s) PROVE Kept
<1>1. /\ jobs' = jobs /\ main' = main /\ taken' = taken /\ retry' = retry /\ holders' = holders
      /\ aged' = aged /\ requeued' = requeued
      /\ upsets' = upsets + 1 /\ upsets' \in 0 .. MaxUpsets /\ Return(s)
  BY RecoveryAssumption DEF SweepInv, TypeOK, ListingError, messages, Upset
<1>2. jobs' \in [Jobs -> Row] /\ \A k \in Jobs : jobs'[k] = jobs[k] \/ ~jobs'[k].stale
  BY <1>1 DEF SweepInv, TypeOK
<1>3. /\ sweep' \in [Sweepers -> Sweep]
      /\ \A v \in Sweepers : sweep'[v].pc \in {"enqueue", "update"}
                               => sweep'[v].processing \cup sweep'[v].pending # {}
      /\ StaleIsActive' /\ OnceListed'
      /\ \A k \in Jobs : Debtors(k)' \subseteq Debtors(k) \cup {s}
  BY <1>1, <1>2, ReturnFacts
<1>4. TypeOK'
  BY <1>1, <1>3 DEF SweepInv, TypeOK
<1>5. Settles
  BY <1>1, <1>3, ErrorPays DEF Settles
<1> QED BY <1>3, <1>4, <1>5 DEF Kept

\* A message of the job is pushed.
LEMMA RequeueFacts ==
  ASSUME TypeOK, NEW s \in Sweepers, Current(s) \in Jobs, Requeue(s)
  PROVE  /\ main' \in Seq(Jobs) /\ taken' = taken /\ retry' = retry
         /\ requeued' \in [Jobs -> Nat] /\ requeued'[Current(s)] = requeued[Current(s)] + 1
         /\ \A k \in Jobs \ {Current(s)} : requeued'[k] = requeued[k]
<1>1. main' \in Seq(Jobs)
  BY AppendProperties DEF TypeOK, Requeue
<1>2. requeued \in [Jobs -> Nat] /\ requeued' = [requeued EXCEPT ![Current(s)] = @ + 1]
  BY DEF TypeOK, Requeue, Add
<1>3. taken' = taken /\ retry' = retry
  BY DEF Requeue
<1> QED BY <1>1, <1>2, <1>3

LEMMA EnqueueNextStep ==
  ASSUME SweepInv, NEW s \in Sweepers, EnqueueNext(s) PROVE Kept
<1> DEFINE c == [pc |-> "update", processing |-> sweep[s].processing,
                 pending |-> sweep[s].pending, young |-> {}]
           j == Current(s)
<1>1. /\ sweep[s] \in Sweep /\ sweep[s].pc = "enqueue" /\ Separate(sweep[s], jobs)
      /\ sweep[s].processing \cup sweep[s].pending # {}
  BY DEF SweepInv, TypeOK, OnceListed, EnqueueNext
<1>2. j \in Jobs /\ j \in sweep[s].processing \cup sweep[s].pending
  BY <1>1, CurrentIsListed DEF SweepInv
<1>3. /\ main' \in Seq(Jobs) /\ taken' = taken /\ retry' = retry
      /\ requeued' \in [Jobs -> Nat] /\ requeued'[j] = requeued[j] + 1
      /\ \A k \in Jobs \ {j} : requeued'[k] = requeued[k]
  BY <1>2, RequeueFacts DEF SweepInv, EnqueueNext
<1>4. jobs' = jobs /\ holders' = holders /\ aged' = aged /\ upsets' = upsets
  BY DEF EnqueueNext
<1>5. /\ c \in Sweep /\ sweep' = [sweep EXCEPT ![s] = c]
      /\ c.pc = "update" /\ c.processing \cup c.pending # {} /\ At(c) = j
  BY <1>1 DEF Sweep, EnqueueNext, Goto, At, Current
<1>6. Separate(c, jobs)
  BY <1>1 DEF Separate, Dedicated
<1>7. /\ ~Owes(c, jobs[j], j) /\ s \in Debtors(j)
      /\ \A k \in Jobs : Owes(c, jobs[k], k) => Owes(sweep[s], jobs[k], k)
  BY <1>1, <1>2, <1>5 DEF Owes, Debtors
<1> HIDE DEF c, j
<1>8. jobs' \in [Jobs -> Row] /\ \A k \in Jobs : jobs'[k] = jobs[k] \/ ~jobs'[k].stale
  BY <1>4 DEF SweepInv, TypeOK
<1>9. /\ sweep' \in [Sweepers -> Sweep]
      /\ \A v \in Sweepers : sweep'[v].pc \in {"enqueue", "update"}
                               => sweep'[v].processing \cup sweep'[v].pending # {}
      /\ StaleIsActive' /\ OnceListed'
  BY <1>4, <1>5, <1>6, <1>8, Moved
<1>10. TypeOK'
  BY <1>3, <1>4, <1>9 DEF SweepInv, TypeOK
<1>11. ASSUME NEW k \in Jobs PROVE Settled(k)
  <2>1. jobs'[k] = jobs[k]
    BY <1>4
  <2>2. CASE k = j
    <3>1. ~Owes(c, jobs'[k], k)
      BY <1>7, <2>1, <2>2
    <3>2. Debtors(k)' \subseteq Debtors(k) \ {s}
      BY <1>5, <1>8, <3>1, DebtorsAfter
    <3> QED BY <1>3, <1>4, <1>7, <2>2, <3>2, DebtPaid
  <2>3. CASE k # j
    <3>1. Owes(c, jobs'[k], k) => Owes(sweep[s], jobs[k], k)
      BY <1>7, <2>1
    <3>2. Debtors(k)' \subseteq Debtors(k)
      BY <1>5, <1>8, <3>1, DebtorsAfter
    <3> QED BY <1>3, <1>4, <2>3, <3>2, NoNewDebt
  <2> QED BY <2>2, <2>3
<1>12. Settles
  BY <1>11 DEF Settles
<1> QED BY <1>9, <1>10, <1>12 DEF Kept

LEMMA EnqueueErrorStep ==
  ASSUME SweepInv, NEW s \in Sweepers, EnqueueError(s) PROVE Kept
<1> DEFINE j == Current(s)
<1>1. /\ sweep[s].pc = "enqueue" /\ sweep[s].processing \cup sweep[s].pending # {}
  BY DEF SweepInv, TypeOK, EnqueueError
<1>2. j \in Jobs
  BY <1>1, CurrentIsListed DEF SweepInv
<1>3. /\ main' \in Seq(Jobs) /\ taken' = taken /\ retry' = retry /\ requeued' \in [Jobs -> Nat]
      /\ \A k \in Jobs : requeued'[k] \in {requeued[k], requeued[k] + 1}
  <2>1. CASE Requeue(s)
    <3>1. /\ main' \in Seq(Jobs) /\ taken' = taken /\ retry' = retry
          /\ requeued' \in [Jobs -> Nat] /\ requeued'[j] = requeued[j] + 1
          /\ \A k \in Jobs \ {j} : requeued'[k] = requeued[k]
      BY <1>2, <2>1, RequeueFacts DEF SweepInv
    <3> QED BY <3>1
  <2>2. CASE UNCHANGED <<messages, requeued>>
    BY <2>2 DEF SweepInv, TypeOK, messages
  <2> QED BY <2>1, <2>2 DEF EnqueueError
<1>4. /\ jobs' = jobs /\ holders' = holders /\ aged' = aged /\ Return(s)
      /\ upsets' = upsets + 1 /\ upsets' \in 0 .. MaxUpsets
  BY RecoveryAssumption DEF SweepInv, TypeOK, EnqueueError, Upset
<1>5. jobs' \in [Jobs -> Row] /\ \A k \in Jobs : jobs'[k] = jobs[k] \/ ~jobs'[k].stale
  BY <1>4 DEF SweepInv, TypeOK
<1>6. /\ sweep' \in [Sweepers -> Sweep]
      /\ \A v \in Sweepers : sweep'[v].pc \in {"enqueue", "update"}
                               => sweep'[v].processing \cup sweep'[v].pending # {}
      /\ StaleIsActive' /\ OnceListed'
      /\ \A k \in Jobs : Debtors(k)' \subseteq Debtors(k)
  BY <1>1, <1>4, <1>5, ReturnFacts
<1>7. TypeOK'
  BY <1>3, <1>4, <1>6 DEF SweepInv, TypeOK
<1>8. ASSUME NEW k \in Jobs PROVE Settled(k)
  <2>1. Debtors(k)' \subseteq Debtors(k) /\ Debtors(k)' \subseteq Debtors(k) \cup {s}
    BY <1>6
  <2> QED BY <1>3, <1>4, <2>1, ErrorPays
<1>9. Settles
  BY <1>8 DEF Settles
<1> QED BY <1>6, <1>7, <1>9 DEF Kept

\* The row is fresh again, and off the list.
LEMMA UpdateNextStep ==
  ASSUME SweepInv, NEW s \in Sweepers, UpdateNext(s) PROVE Kept
<1> DEFINE j == Current(s)
           P == sweep[s].processing
           Q == sweep[s].pending
           P1 == P \ {j}
           Q1 == IF P # {} THEN Q ELSE Q \ {j}
<1>1. /\ P \in SUBSET Jobs /\ Q \in SUBSET Jobs /\ P \cap Q = {} /\ P \cup Q # {}
      /\ sweep[s].pc = "update"
  BY DEF SweepInv, TypeOK, Sweep, OnceListed, Separate, UpdateNext
<1>2. j \in Jobs /\ (P # {} => j \in P) /\ (P = {} => j \in Q)
  BY <1>1, CurrentIsListed DEF SweepInv
<1>3. /\ Continue(s, P1, Q1) /\ jobs' = UpdateJobStatus(jobs, j, "pending")
      /\ UNCHANGED <<messages, holders, history>>
  BY DEF UpdateNext
<1>4. At(sweep[s]) = j
  BY CurrentIsAt
<1> HIDE DEF j, P, Q
<1>5. /\ P1 \in SUBSET Jobs /\ Q1 \in SUBSET Jobs /\ P1 \cap Q1 = {} /\ j \notin P1 \cup Q1
      /\ P1 \subseteq P /\ Q1 \subseteq Q
  BY <1>1, <1>2
<1> HIDE DEF P1, Q1
<1>6. PICK c \in Sweep : sweep' = [sweep EXCEPT ![s] = c] /\ Left(c, P1, Q1)
  BY <1>3, <1>5, ContinueFacts
<1>7. jobs \in [Jobs -> Row] /\ jobs' \in [Jobs -> Row]
        /\ \A k \in Jobs : jobs'[k] = jobs[k] \/ ~jobs'[k].stale
  BY <1>2, <1>3, Refreshed DEF SweepInv, TypeOK, Status
<1>8. ~jobs'[j].stale
  BY <1>2, <1>3, <1>7 DEF SweepInv, StaleIsActive, UpdateJobStatus, Exists, Status
<1>9. /\ sweep' \in [Sweepers -> Sweep]
      /\ \A v \in Sweepers : sweep'[v].pc \in {"enqueue", "update"}
                               => sweep'[v].processing \cup sweep'[v].pending # {}
      /\ StaleIsActive' /\ OnceListed'
  <2>1. Separate(c, jobs') /\ (c.pc \in {"enqueue", "update"} => c.processing \cup c.pending # {})
    BY <1>5, <1>6 DEF Left, Separate, Dedicated
  <2> QED BY <1>6, <1>7, <2>1, Moved
<1>10. /\ main' = main /\ taken' = taken /\ retry' = retry /\ holders' = holders
       /\ aged' = aged /\ requeued' = requeued /\ upsets' = upsets
  BY <1>3 DEF messages, history
<1>11. TypeOK'
  BY <1>7, <1>9, <1>10 DEF SweepInv, TypeOK
<1>12. ASSUME NEW k \in Jobs PROVE Debtors(k)' \subseteq Debtors(k)
  <2>1. CASE k = j
    <3>1. ~Owes(c, jobs'[k], k)
      BY <1>5, <1>6, <1>8, <2>1 DEF Left, Owes
    <3> QED BY <1>6, <1>7, <3>1, DebtorsAfter
  <2>2. CASE k # j
    <3>1. Owes(c, jobs'[k], k) => Owes(sweep[s], jobs[k], k)
      BY <1>4, <1>5, <1>6, <1>7, <2>2 DEF Left, Owes, P, Q
    <3> QED BY <1>6, <1>7, <3>1, DebtorsAfter
  <2> QED BY <2>1, <2>2
<1>13. Settles
  BY <1>10, <1>12, NoNewDebt DEF Settles
<1> QED BY <1>9, <1>11, <1>13 DEF Kept

\* The connection of the call is closed before its loops: the write always has
\* one, so that only an error of the database ends the call here.
LEMMA UpdateErrorStep ==
  ASSUME SweepInv, NEW s \in Sweepers, UpdateError(s) PROVE Kept
<1> DEFINE j == Current(s)
<1>1. /\ sweep[s].pc = "update" /\ sweep[s].processing \cup sweep[s].pending # {}
  BY DEF SweepInv, TypeOK, UpdateError
<1>2. j \in Jobs
  BY <1>1, CurrentIsListed DEF SweepInv
<1>3. HasConnection(s)
  BY <1>1, RecoveryAssumption DEF HasConnection, Dedicated
<1>4. /\ Upset /\ jobs' \in AfterError(jobs, UpdateJobStatus(jobs, j, "pending")) /\ Return(s)
      /\ UNCHANGED <<messages, holders, aged, requeued>>
  BY <1>3 DEF UpdateError
<1>5. /\ main' = main /\ taken' = taken /\ retry' = retry /\ holders' = holders
      /\ aged' = aged /\ requeued' = requeued
      /\ upsets' = upsets + 1 /\ upsets' \in 0 .. MaxUpsets
  BY <1>4, RecoveryAssumption DEF SweepInv, TypeOK, messages, Upset
<1> HIDE DEF j
<1>6. jobs' \in [Jobs -> Row] /\ \A k \in Jobs : jobs'[k] = jobs[k] \/ ~jobs'[k].stale
  BY <1>2, <1>4, Refreshed DEF SweepInv, TypeOK, Status, AfterError
<1>7. /\ sweep' \in [Sweepers -> Sweep]
      /\ \A v \in Sweepers : sweep'[v].pc \in {"enqueue", "update"}
                               => sweep'[v].processing \cup sweep'[v].pending # {}
      /\ StaleIsActive' /\ OnceListed'
      /\ \A k \in Jobs : Debtors(k)' \subseteq Debtors(k) \cup {s}
  BY <1>4, <1>6, ReturnFacts
<1>8. TypeOK'
  BY <1>5, <1>6, <1>7 DEF SweepInv, TypeOK
<1>9. Settles
  BY <1>5, <1>7, ErrorPays DEF Settles
<1> QED BY <1>7, <1>8, <1>9 DEF Kept

-----------------------------------------------------------------------------
(* The environment.                                                        *)

LEMMA AddTyped ==
  ASSUME NEW f \in [Jobs -> Nat], NEW j \in Jobs
  PROVE  /\ Add(f, j, 1) \in [Jobs -> Nat]
         /\ f[j] > 0 => Add(f, j, -1) \in [Jobs -> Nat]
BY DEF Add

LEMMA FewerTyped ==
  ASSUME NEW f \in [Jobs -> Nat], NEW g \in Fewer(f) PROVE g \in [Jobs -> Nat]
BY DEF Fewer

LEMMA TimesTyped ==
  ASSUME NEW s \in Seq(Jobs), NEW j PROVE Times(j, s) \in Nat
<1>1. IsFiniteSet(DOMAIN s)
  BY LenProperties, FS_Interval
<1>2. IsFiniteSet({i \in DOMAIN s : s[i] = j})
  BY <1>1, FS_Subset
<1> QED BY <1>2, FS_CardinalityType DEF Times

\* A step that writes no row.
LEMMA MessageStep ==
  ASSUME SweepInv, main' \in Seq(Jobs), taken' \in [Jobs -> Nat], retry' \in [Jobs -> Nat],
         holders' \in [Jobs -> Nat], jobs' = jobs, sweep' = sweep,
         aged' = aged, requeued' = requeued,
         upsets' \in {upsets, upsets + 1}, upsets' \in 0 .. MaxUpsets
  PROVE  Kept
<1>1. jobs' \in [Jobs -> Row] /\ \A k \in Jobs : jobs'[k] = jobs[k] \/ ~jobs'[k].stale
  BY DEF SweepInv, TypeOK
<1>2. StaleIsActive' /\ OnceListed' /\ Settles
  BY <1>1, Elsewhere
<1>3. TypeOK'
  BY DEF SweepInv, TypeOK
<1> QED BY <1>2, <1>3 DEF Kept

\* A step that executes a statement.
LEMMA RowStep ==
  ASSUME SweepInv, main' \in Seq(Jobs), taken' \in [Jobs -> Nat], retry' = retry,
         holders' \in [Jobs -> Nat], NEW j \in Jobs, NEW st \in Status,
         jobs' \in {jobs, UpdateJobStatus(jobs, j, st), MarkProcessing(jobs, j), InsertJob(jobs, j)},
         sweep' = sweep, aged' = aged, requeued' = requeued, upsets' = upsets
  PROVE  Kept
<1>1. jobs' \in [Jobs -> Row] /\ \A k \in Jobs : jobs'[k] = jobs[k] \/ ~jobs'[k].stale
  BY Refreshed DEF SweepInv, TypeOK
<1>2. StaleIsActive' /\ OnceListed' /\ Settles
  BY <1>1, Elsewhere
<1>3. TypeOK'
  BY <1>1 DEF SweepInv, TypeOK
<1> QED BY <1>2, <1>3 DEF Kept

LEMMA AgeStep ==
  ASSUME SweepInv, NEW j \in Jobs, Age(j) PROVE Kept
<1>1. /\ jobs \in [Jobs -> Row] /\ sweep \in [Sweepers -> Sweep] /\ aged \in [Jobs -> 0 .. MaxAged]
      /\ jobs[j].status \in {"pending", "processing"} /\ ~jobs[j].stale /\ aged[j] < MaxAged
      /\ jobs' = [jobs EXCEPT ![j].stale = TRUE]
      /\ aged' = [aged EXCEPT ![j] = @ + 1]
      /\ main' = main /\ taken' = taken /\ retry' = retry /\ holders' = holders
      /\ requeued' = requeued /\ upsets' = upsets
  BY DEF SweepInv, TypeOK, Age, Aged, Add, messages
<1>2. /\ jobs' \in [Jobs -> Row] /\ \A k \in Jobs : jobs'[k].status = jobs[k].status
      /\ \A k \in Jobs \ {j} : jobs'[k] = jobs[k]
  BY <1>1 DEF Row
<1>3. aged' \in [Jobs -> 0 .. MaxAged] /\ aged'[j] = aged[j] + 1
        /\ \A k \in Jobs \ {j} : aged'[k] = aged[k]
  BY <1>1, RecoveryAssumption
<1>4. ASSUME NEW v \in Sweepers
      PROVE  /\ sweep'[v] \in Sweep
             /\ sweep'[v].pc = sweep[v].pc /\ sweep'[v].processing = sweep[v].processing
             /\ sweep'[v].pending = sweep[v].pending
             /\ sweep[v].pc \in Dedicated => sweep'[v].young = sweep[v].young \cup {j}
             /\ sweep[v].pc \notin Dedicated => sweep'[v] = sweep[v]
  <2>1. sweep[v] \in Sweep
    BY <1>1
  <2>2. sweep'[v] = IF sweep[v].pc \in Dedicated
                    THEN [sweep[v] EXCEPT !.young = @ \cup {j}] ELSE sweep[v]
    BY DEF Age
  <2> QED BY <2>1, <2>2 DEF Sweep
<1>5. sweep' \in [Sweepers -> Sweep]
  <2>1. DOMAIN sweep' = Sweepers /\ sweep' = [s \in Sweepers |-> sweep'[s]]
    BY DEF Age
  <2> QED BY <1>4, <2>1
<1>6. TypeOK'
  BY <1>1, <1>2, <1>3, <1>4, <1>5 DEF SweepInv, TypeOK
<1>7. StaleIsActive'
  BY <1>1, <1>2 DEF SweepInv, StaleIsActive
<1>8. OnceListed'
  <2>1. ASSUME NEW v \in Sweepers PROVE Separate(sweep'[v], jobs')
    <3>1. Separate(sweep[v], jobs)
      BY DEF SweepInv, OnceListed
    <3>2. CASE sweep[v].pc \in {"len", "pending"}
      <4>1. sweep'[v].young = sweep[v].young \cup {j} /\ sweep[v].processing \subseteq Jobs
        BY <1>1, <1>4, <3>2 DEF Dedicated, Sweep
      <4> QED BY <1>2, <1>4, <3>1, <4>1 DEF Separate
    <3>3. CASE sweep[v].pc \notin {"len", "pending"}
      BY <1>4, <3>1, <3>3 DEF Separate
    <3> QED BY <3>2, <3>3
  <2> QED BY <2>1 DEF OnceListed, Separate
<1>9. ASSUME NEW k \in Jobs PROVE Settled(k)
  <2>1. CASE k = j
    BY <1>1, <1>3, <2>1, AgingGrants
  <2>2. CASE k # j
    <3>1. Debtors(k)' \subseteq Debtors(k)
      BY <1>2, <1>4, <2>2 DEF Debtors, Owes, At
    <3> QED BY <1>1, <1>3, <2>2, <3>1, NoNewDebt
  <2> QED BY <2>1, <2>2
<1>10. Settles
  BY <1>9 DEF Settles
<1> QED BY <1>6, <1>7, <1>8, <1>10 DEF Kept

LEMMA CrashStep ==
  ASSUME SweepInv, NEW s \in Sweepers, Crash(s) PROVE Kept
<1>1. /\ jobs' = jobs /\ main' = main /\ retry' = retry
      /\ aged' = aged /\ requeued' = requeued
      /\ upsets' = upsets + 1 /\ upsets' \in 0 .. MaxUpsets /\ Return(s)
      /\ taken' \in [Jobs -> Nat] /\ holders' \in [Jobs -> Nat]
  <2>1. taken' \in [Jobs -> Nat] /\ holders' \in [Jobs -> Nat]
    BY FewerTyped DEF SweepInv, TypeOK, Crash
  <2> QED BY <2>1, RecoveryAssumption DEF SweepInv, TypeOK, Crash, Upset
<1>2. jobs' \in [Jobs -> Row] /\ \A k \in Jobs : jobs'[k] = jobs[k] \/ ~jobs'[k].stale
  BY <1>1 DEF SweepInv, TypeOK
<1>3. /\ sweep' \in [Sweepers -> Sweep]
      /\ \A v \in Sweepers : sweep'[v].pc \in {"enqueue", "update"}
                               => sweep'[v].processing \cup sweep'[v].pending # {}
      /\ StaleIsActive' /\ OnceListed'
      /\ \A k \in Jobs : Debtors(k)' \subseteq Debtors(k) \cup {s}
  BY <1>1, <1>2, ReturnFacts
<1>4. TypeOK'
  BY <1>1, <1>3 DEF SweepInv, TypeOK
<1>5. Settles
  BY <1>1, <1>3, ErrorPays DEF Settles
<1> QED BY <1>3, <1>4, <1>5 DEF Kept

\* What a holder may do to the row of its job: write the status it has, or one
\* of the two that end an attempt.
LEMMA HolderWrites ==
  ASSUME jobs \in [Jobs -> Row], NEW j \in Jobs, SetOutputDir(j) \/ Complete(j) \/ Fail(j)
  PROVE  \E last \in Status : /\ jobs' \in {jobs, UpdateJobStatus(jobs, j, last)}
                             /\ last \in {jobs[j].status, "failed", "completed"}
<1>1. PICK last \in {jobs[j].status, "failed", "completed"} :
        jobs' \in {jobs, UpdateJobStatus(jobs, j, last)}
  <2>1. CASE SetOutputDir(j)
    BY <2>1 DEF SetOutputDir, Touch
  <2>2. CASE Complete(j)
    BY <2>2 DEF Complete
  <2>3. CASE Fail(j)
    BY <2>3 DEF Fail, AfterError
  <2> QED BY <2>1, <2>2, <2>3
<1>2. CASE last \in Status
  BY <1>1, <1>2
<1>3. CASE last \notin Status
  <2>1. last = jobs[j].status
    BY <1>1, <1>3 DEF Status
  <2>2. jobs' = jobs
    BY <1>1, <1>3, <2>1, KeptStatus DEF Touch
  <2> QED BY <2>2 DEF Status
<1> QED BY <1>2, <1>3

LEMMA EnvironmentStep ==
  ASSUME SweepInv, Environment PROVE Kept
<1>0. /\ main \in Seq(Jobs) /\ taken \in [Jobs -> Nat] /\ retry \in [Jobs -> Nat]
      /\ holders \in [Jobs -> Nat] /\ upsets \in 0 .. MaxUpsets
      /\ {"pending", "completed", "failed"} \subseteq Status
  BY DEF SweepInv, TypeOK, Status
<1>1. CASE Dequeue
  <2>1. Tail(main) \in Seq(Jobs) /\ Head(main) \in Jobs
    BY <1>0, <1>1, HeadTailProperties DEF Dequeue
  <2>2. main' = Tail(main) /\ taken' \in [Jobs -> Nat]
    BY <1>0, <1>1, <2>1, AddTyped DEF Dequeue
  <2> QED BY <1>0, <1>1, <2>1, <2>2, MessageStep DEF Dequeue, history
<1>2. CASE Drop
  <2>1. taken' \in [Jobs -> Nat]
    BY <1>0, <1>2, FewerTyped DEF Drop
  <2> QED BY <1>0, <1>2, <2>1, MessageStep DEF Drop, history
<1>3. ASSUME NEW j \in Jobs, Submit(j) PROVE Kept
  <2>1. Append(main, j) \in Seq(Jobs)
    BY <1>0, AppendProperties
  <2>2. main' \in Seq(Jobs)
    BY <1>0, <1>3, <2>1 DEF Submit
  <2> QED BY <1>0, <1>3, <2>2, RowStep DEF Submit, history
<1>4. ASSUME NEW j \in Jobs, Acquire(j) PROVE Kept
  <2>1. taken' \in [Jobs -> Nat] /\ holders' \in [Jobs -> Nat]
    BY <1>0, <1>4, AddTyped DEF Acquire
  <2> QED BY <1>0, <1>4, <2>1, RowStep DEF Acquire, history
<1>5. ASSUME NEW j \in Jobs, AcquireError(j) PROVE Kept
  BY <1>0, <1>5, RowStep DEF AcquireError, history, messages
<1>6. ASSUME NEW j \in Jobs, SetOutputDir(j) \/ Complete(j) \/ Fail(j) PROVE Kept
  <2>1. holders' \in [Jobs -> Nat] /\ taken' \in [Jobs -> Nat]
    BY <1>0, <1>6, AddTyped DEF SetOutputDir, Complete, Fail, messages
  <2>2. PICK last \in Status : jobs' \in {jobs, UpdateJobStatus(jobs, j, last)}
    BY <1>6, HolderWrites DEF SweepInv, TypeOK
  <2>3. /\ main' = main /\ retry' = retry /\ sweep' = sweep
        /\ aged' = aged /\ requeued' = requeued /\ upsets' = upsets
    BY <1>6 DEF SetOutputDir, Complete, Fail, messages, history
  <2> QED BY <1>0, <2>1, <2>2, <2>3, RowStep
<1>7. ASSUME NEW j \in Jobs, PutBack(j) PROVE Kept
  <2>1. taken' \in [Jobs -> Nat] /\ retry' \in [Jobs -> Nat]
    BY <1>0, <1>7, AddTyped DEF PutBack
  <2>2. upsets' = upsets + 1 /\ upsets' \in 0 .. MaxUpsets
    BY <1>0, <1>7, RecoveryAssumption DEF PutBack, Upset
  <2> QED BY <1>0, <1>7, <2>1, <2>2, MessageStep DEF PutBack
<1>8. CASE Promote
  <2>1. PICK s \in UNION {[1 .. n -> Jobs] : n \in 1 .. RetryMoveBatch} :
          /\ \A j \in Jobs : Times(j, s) <= retry[j]
          /\ retry' = [j \in Jobs |-> retry[j] - Times(j, s)]
          /\ main' = main \o s
    BY <1>8 DEF Promote
  <2>2. s \in Seq(Jobs)
    BY RecoveryAssumption, SeqDef
  <2>3. \A j \in Jobs : Times(j, s) \in Nat
    BY <2>2, TimesTyped
  <2>4. retry' \in [Jobs -> Nat] /\ main' \in Seq(Jobs)
    BY <1>0, <2>1, <2>2, <2>3, ConcatProperties
  <2> QED BY <1>0, <1>8, <2>4, MessageStep DEF Promote, history
<1> QED
  BY <1>1, <1>2, <1>3, <1>4, <1>5, <1>6, <1>7, <1>8, AgeStep, CrashStep
  DEF Environment

-----------------------------------------------------------------------------
LEMMA InitInv == Init => SweepInv
<1> SUFFICES ASSUME Init PROVE SweepInv
  OBVIOUS
<1>1. Idle \in Sweep /\ Idle.pc = "idle" /\ Idle.processing = {} /\ Idle.pending = {}
  BY DEF Idle, Sweep
<1>2. jobs \in [Jobs -> Row] /\ \A j \in Jobs : ~jobs[j].stale
  BY DEF Init, EmptyTable, Row, NewRow, Absent
<1>3. /\ main = <<>> /\ main \in Seq(Jobs) /\ upsets = 0
      /\ \A count \in {taken, retry, holders, requeued, aged} : count = [j \in Jobs |-> 0]
      /\ sweep = [s \in Sweepers |-> Idle]
  BY DEF Init
<1> HIDE DEF Idle
<1>4. TypeOK
  BY <1>1, <1>2, <1>3, RecoveryAssumption DEF TypeOK
<1>5. StaleIsActive /\ OnceListed
  BY <1>1, <1>2, <1>3 DEF StaleIsActive, OnceListed, Separate
<1>6. Paid
  <2>1. ASSUME NEW j \in Jobs
        PROVE  requeued[j] + Cardinality(Debtors(j)) <= aged[j] * Cardinality(Sweepers) + upsets
    <3>1. Debtors(j) = {}
      BY <1>1, <1>2, <1>3 DEF Debtors, Owes
    <3>2. Cardinality(Debtors(j)) = 0
      BY <3>1, FS_EmptySet, Zenon
    <3>3. Cardinality(Sweepers) \in Nat
      BY RecoveryAssumption, FS_CardinalityType
    <3> QED BY <1>3, <3>2, <3>3
  <2> QED BY <2>1 DEF Paid
<1> QED BY <1>4, <1>5, <1>6 DEF SweepInv

LEMMA StepKept == SweepInv /\ [Next]_vars => Kept
<1> SUFFICES ASSUME SweepInv, [Next]_vars PROVE Kept
  OBVIOUS
<1>1. ASSUME NEW s \in Sweepers, Begin(s) \/ Recover(s) PROVE Kept
  BY <1>1, BeginStep, ListProcessingStep, MeasureQueueStep, ListPendingStep, ListingErrorStep,
     EnqueueNextStep, EnqueueErrorStep, UpdateNextStep, UpdateErrorStep
  DEF Recover
<1>2. CASE Environment
  BY <1>2, EnvironmentStep
<1>3. CASE UNCHANGED vars
  BY <1>3, MessageStep DEF vars, messages, history, SweepInv, TypeOK
<1> QED BY <1>1, <1>2, <1>3 DEF Next

LEMMA StepInv == SweepInv /\ [Next]_vars => SweepInv'
<1> SUFFICES ASSUME SweepInv, Kept PROVE SweepInv'
  BY StepKept
<1>1. ASSUME NEW j \in Jobs
      PROVE  requeued'[j] + Cardinality(Debtors(j)') <= aged'[j] * Cardinality(Sweepers) + upsets'
  <2>1. requeued'[j] \in Nat /\ aged'[j] \in Nat /\ upsets' \in Nat
    BY RecoveryAssumption DEF Kept, TypeOK
  <2>2. Cardinality(Debtors(j)') \in Nat
    BY DebtorsFinite
  <2>3. aged'[j] * Cardinality(Sweepers) \in Nat
    <3>1. \A a, n \in Nat : a * n \in Nat
      OBVIOUS
    <3> QED BY <2>1, <3>1, Account
  <2>4. Settled(j)
    BY DEF Kept, Settles
  <2> QED BY <2>1, <2>2, <2>3, <2>4, Account DEF Settled
<1>2. Paid'
  BY <1>1 DEF Paid
<1> QED BY <1>2 DEF Kept, SweepInv

LEMMA Invariance == Spec => []SweepInv
BY InitInv, StepInv, PTL DEF Spec

\* The variables keep their types: no message or attempt of a job is counted
\* below zero, and a call that enqueues or writes has a job left to.
THEOREM TypeCorrect == Spec => []TypeOK
<1>1. SweepInv => TypeOK
  BY DEF SweepInv
<1> QED BY <1>1, Invariance, PTL

LEMMA Bounded ==
  ASSUME SweepInv
  PROVE  ReenqueueBounded
<1> SUFFICES ASSUME NEW j \in Jobs
             PROVE  requeued[j] <= aged[j] * Cardinality(Sweepers) + upsets
  BY DEF ReenqueueBounded
<1> QED BY Account

\* For any number of sweepers, jobs, lists cut short and crashes: recovery
\* enqueues a job at most once per sweeper and each time its row turned stale,
\* and once more for each error.
THEOREM EnqueuesBounded == Spec => []ReenqueueBounded
BY Bounded, Invariance, PTL

-----------------------------------------------------------------------------
(* The attempts that hold a job.                                           *)

\* A row an attempt may acquire, or that is not there yet, is an attempt to come; so
\* is a write of `pending` that a sweep still owes.
Free(j) == IF jobs[j].status \in {"none", "pending", "failed"} THEN 1 ELSE 0

Granted(j) ==
  /\ holders[j] + Free(j) + Cardinality(Writing(j)) <= 1 + requeued[j]
  /\ requeued[j] = 0 /\ holders[j] > 0 => jobs[j].status = "processing"
  /\ Writing(j) # {} => requeued[j] > 0

\* What a sweep has listed has a row.
ListedHasRow ==
  \A s \in Sweepers :
    \A j \in sweep[s].processing \cup sweep[s].pending : jobs[j].status # "none"

GrantInv == SweepInv /\ ListedHasRow /\ \A j \in Jobs : Granted(j)

LEMMA GrantTypes ==
  ASSUME SweepInv, SweepInv', NEW j \in Jobs
  PROVE  /\ holders[j] \in Nat /\ requeued[j] \in Nat /\ Free(j) \in {0, 1}
         /\ holders'[j] \in Nat /\ requeued'[j] \in Nat /\ Free(j)' \in {0, 1}
         /\ IsFiniteSet(Writing(j)) /\ Cardinality(Writing(j)) \in Nat
         /\ Cardinality(Writing(j)') \in Nat
<1>1. Writing(j) \in SUBSET Sweepers /\ Writing(j)' \in SUBSET Sweepers
  BY DEF Writing
<1>2. /\ IsFiniteSet(Writing(j)) /\ Cardinality(Writing(j)) \in Nat
      /\ Cardinality(Writing(j)') \in Nat
  BY <1>1, RecoveryAssumption, FS_Subset, FS_CardinalityType
<1> QED BY <1>2 DEF SweepInv, TypeOK, Free

\* A step that acquires nothing, frees nothing and lets no sweep write.
LEMMA NothingGranted ==
  ASSUME SweepInv, SweepInv', NEW j \in Jobs, Granted(j),
         Writing(j)' \subseteq Writing(j), jobs'[j].status = jobs[j].status,
         holders'[j] <= holders[j], requeued'[j] >= requeued[j]
  PROVE  Granted(j)'
<1>1. Cardinality(Writing(j)') <= Cardinality(Writing(j))
  BY GrantTypes, FS_Subset
<1>2. Free(j)' = Free(j)
  BY DEF Free
<1>3. holders'[j] + Free(j)' + Cardinality(Writing(j)') <= 1 + requeued'[j]
  BY <1>1, <1>2, GrantTypes DEF Granted
<1>4. requeued'[j] = 0 /\ holders'[j] > 0 => jobs'[j].status = "processing"
  BY GrantTypes DEF Granted
<1>5. Writing(j)' # {} => requeued'[j] > 0
  BY GrantTypes DEF Granted
<1> QED BY <1>3, <1>4, <1>5 DEF Granted

\* A sweep that writes the row, or whose write failed, frees it at most.
LEMMA WriteGrants ==
  ASSUME SweepInv, SweepInv', NEW j \in Jobs, Granted(j), NEW s \in Writing(j),
         Writing(j)' \subseteq Writing(j) \ {s},
         holders'[j] = holders[j], requeued'[j] = requeued[j]
  PROVE  Granted(j)'
<1>1. /\ IsFiniteSet(Writing(j) \ {s})
      /\ Cardinality(Writing(j) \ {s}) = Cardinality(Writing(j)) - 1
  BY GrantTypes, FS_RemoveElement
<1>2. Cardinality(Writing(j)') <= Cardinality(Writing(j) \ {s})
  BY <1>1, FS_Subset
<1>3. requeued[j] > 0
  BY DEF Granted
<1>4. holders'[j] + Free(j)' + Cardinality(Writing(j)') <= 1 + requeued'[j]
  BY <1>1, <1>2, GrantTypes DEF Granted
<1> QED BY <1>3, <1>4, GrantTypes DEF Granted

\* A sweep enqueues the job, and will write it.
LEMMA EnqueueGrants ==
  ASSUME SweepInv, SweepInv', NEW j \in Jobs, Granted(j), NEW s,
         Writing(j)' \subseteq Writing(j) \cup {s}, jobs'[j].status = jobs[j].status,
         holders'[j] = holders[j], requeued'[j] = requeued[j] + 1
  PROVE  Granted(j)'
<1>1. /\ IsFiniteSet(Writing(j) \cup {s})
      /\ Cardinality(Writing(j) \cup {s})
           = IF s \in Writing(j) THEN Cardinality(Writing(j)) ELSE Cardinality(Writing(j)) + 1
  BY GrantTypes, FS_AddElement
<1>2. Cardinality(Writing(j)') <= Cardinality(Writing(j) \cup {s})
  BY <1>1, FS_Subset
<1>3. Free(j)' = Free(j)
  BY DEF Free
<1>4. holders'[j] + Free(j)' + Cardinality(Writing(j)') <= 1 + requeued'[j]
  BY <1>1, <1>2, <1>3, GrantTypes DEF Granted
<1> QED BY <1>4, GrantTypes DEF Granted

\* The steps of an attempt: it takes the free row, or gives up its hold.
LEMMA AttemptGrants ==
  ASSUME SweepInv, SweepInv', NEW j \in Jobs, Granted(j), sweep' = sweep,
         requeued'[j] = requeued[j],
         \/ Markable(jobs, j) /\ holders'[j] \in {holders[j], holders[j] + 1}
              /\ jobs'[j].status = "processing"
         \/ holders[j] > 0 /\ holders'[j] = holders[j] - 1
         \/ jobs[j].status = "none" /\ jobs'[j].status = "pending" /\ holders'[j] = holders[j]
  PROVE  Granted(j)'
<1>1. Writing(j)' = Writing(j)
  BY DEF Writing, Current
<1>2. CASE Markable(jobs, j) /\ holders'[j] \in {holders[j], holders[j] + 1}
             /\ jobs'[j].status = "processing"
  <2>1. Free(j) = 1 /\ Free(j)' = 0
    BY <1>2 DEF Free, Markable
  <2> QED BY <1>1, <1>2, <2>1, GrantTypes DEF Granted
<1>3. CASE holders[j] > 0 /\ holders'[j] = holders[j] - 1
  <2>1. holders'[j] + Free(j)' + Cardinality(Writing(j)') <= 1 + requeued'[j]
    BY <1>1, <1>3, GrantTypes DEF Granted
  <2>2. requeued'[j] = 0 => holders'[j] = 0
    BY <1>3, GrantTypes DEF Granted
  <2> QED BY <1>1, <2>1, <2>2, GrantTypes DEF Granted
<1>4. CASE jobs[j].status = "none" /\ jobs'[j].status = "pending" /\ holders'[j] = holders[j]
  <2>1. Free(j) = 1 /\ Free(j)' = 1
    BY <1>4 DEF Free
  <2> QED BY <1>1, <1>4, <2>1, GrantTypes DEF Granted
<1> QED BY <1>2, <1>3, <1>4

-----------------------------------------------------------------------------
\* What the steps of a sweep do to its call, and so to what it has listed.
LEMMA WritingAfter ==
  ASSUME SweepInv, NEW s \in Sweepers, NEW c \in Sweep, sweep' = [sweep EXCEPT ![s] = c],
         NEW j \in Jobs
  PROVE  /\ Writing(j)' \subseteq Writing(j) \cup {s}
         /\ ~(c.pc = "update" /\ At(c) = j) => Writing(j)' \subseteq Writing(j) \ {s}
<1>1. sweep'[s] = c /\ \A v \in Sweepers \ {s} : sweep'[v] = sweep[v]
  BY DEF SweepInv, TypeOK
<1>2. Writing(j) = {v \in Sweepers : sweep[v].pc = "update" /\ At(sweep[v]) = j}
  BY CurrentIsAt DEF Writing
<1>3. Writing(j)' = {v \in Sweepers : sweep'[v].pc = "update" /\ At(sweep'[v]) = j}
  BY DEF Writing, Current, At
<1> QED BY <1>1, <1>2, <1>3

LEMMA ListedAfter ==
  ASSUME SweepInv, ListedHasRow, NEW s \in Sweepers, NEW c, sweep' = [sweep EXCEPT ![s] = c],
         \A j \in Jobs : jobs'[j].status = "none" => jobs[j].status = "none",
         \A j \in c.processing \cup c.pending : j \in Jobs /\ jobs[j].status # "none"
  PROVE  ListedHasRow'
<1>1. sweep'[s] = c /\ \A v \in Sweepers \ {s} : sweep'[v] = sweep[v]
  BY DEF SweepInv, TypeOK
<1>2. \A v \in Sweepers : sweep[v].processing \subseteq Jobs /\ sweep[v].pending \subseteq Jobs
  BY DEF SweepInv, TypeOK, Sweep
<1>3. ASSUME NEW v \in Sweepers, NEW j \in sweep'[v].processing \cup sweep'[v].pending
      PROVE  jobs'[j].status # "none"
  BY <1>1, <1>2, <1>3 DEF ListedHasRow
<1> QED BY <1>3 DEF ListedHasRow

LEMMA ListedStays ==
  ASSUME SweepInv, ListedHasRow,
         \A s \in Sweepers : /\ sweep'[s].processing = sweep[s].processing
                             /\ sweep'[s].pending = sweep[s].pending,
         \A j \in Jobs : jobs'[j].status = "none" => jobs[j].status = "none"
  PROVE  ListedHasRow'
<1>1. \A v \in Sweepers : sweep[v].processing \subseteq Jobs /\ sweep[v].pending \subseteq Jobs
  BY DEF SweepInv, TypeOK, Sweep
<1>2. ASSUME NEW v \in Sweepers, NEW j \in sweep'[v].processing \cup sweep'[v].pending
      PROVE  jobs'[j].status # "none"
  BY <1>1, <1>2 DEF ListedHasRow
<1> QED BY <1>2 DEF ListedHasRow

\* The calls: where they go, and with which lists.
CallMoves(s, c) ==
  /\ sweep' = [sweep EXCEPT ![s] = c]
  /\ \A j \in c.processing \cup c.pending : j \in Jobs /\ jobs[j].status # "none"

LEMMA ListingMoves ==
  ASSUME SweepInv, ListedHasRow, NEW s \in Sweepers,
         \/ Begin(s) \/ ListProcessing(s) \/ MeasureQueue(s) \/ ListPending(s)
         \/ ListingError(s) \/ EnqueueError(s) \/ UpdateError(s) \/ Crash(s)
  PROVE  \E c \in Sweep : CallMoves(s, c) /\ c.pc # "update"
<1> DEFINE P == sweep[s].processing
           Q == sweep[s].pending
           Y == sweep[s].young
<1>1. P \in SUBSET Jobs /\ Q \in SUBSET Jobs /\ Y \in SUBSET Jobs
  BY DEF SweepInv, TypeOK, Sweep
<1>2. \A j \in P \cup Q : jobs[j].status # "none"
  BY DEF ListedHasRow
<1>3. \A st \in {"processing", "pending"} :
        \A j \in ListStuck(jobs, st, Y, BatchSize) : j \in Jobs /\ jobs[j].status # "none"
  BY ListStuckFacts
<1>4. CASE Begin(s)
  <2> DEFINE c == [pc |-> "processing", processing |-> {}, pending |-> {}, young |-> {}]
  <2>1. c \in Sweep /\ sweep' = [sweep EXCEPT ![s] = c] /\ c.pc # "update"
        /\ c.processing \cup c.pending = {}
    BY <1>4 DEF Sweep, Begin, Goto
  <2> QED BY <2>1 DEF CallMoves
<1>5. CASE ListProcessing(s)
  <2> DEFINE L == ListStuck(jobs, "processing", Y, BatchSize)
             c == [pc |-> "len", processing |-> L, pending |-> {}, young |-> Y]
  <2>1. sweep' = [sweep EXCEPT ![s] = c]
    BY <1>5 DEF ListProcessing, Goto
  <2>2. L \in SUBSET Jobs
    BY ListStuckFacts
  <2> HIDE DEF L
  <2>3. c \in Sweep /\ c.pc # "update" /\ c.processing \cup c.pending = L
    BY <1>1, <2>2 DEF Sweep
  <2> QED BY <1>3, <2>1, <2>3 DEF CallMoves, L
<1>6. ASSUME NEW Q1 \in SUBSET Jobs, Continue(s, P, Q1), \A j \in Q1 : jobs[j].status # "none"
      PROVE  \E c \in Sweep : CallMoves(s, c) /\ c.pc # "update"
  <2>1. PICK c \in Sweep : sweep' = [sweep EXCEPT ![s] = c] /\ Left(c, P, Q1)
    BY <1>1, <1>6, ContinueFacts
  <2>2. c.pc # "update" /\ c.processing \cup c.pending = P \cup Q1
    BY <2>1 DEF Left
  <2> QED BY <1>1, <1>2, <1>6, <2>1, <2>2 DEF CallMoves
<1>7. CASE MeasureQueue(s)
  <2>1. CASE Len(main) = 0
    <3> DEFINE c == [pc |-> "pending", processing |-> P, pending |-> {}, young |-> Y]
    <3>1. c \in Sweep /\ sweep' = [sweep EXCEPT ![s] = c] /\ c.pc # "update"
          /\ c.processing \cup c.pending = P
      BY <1>1, <1>7, <2>1 DEF Sweep, MeasureQueue, Goto
    <3> QED BY <1>1, <1>2, <3>1 DEF CallMoves
  <2>2. CASE Len(main) # 0
    <3>1. Continue(s, P, {})
      BY <1>7, <2>2 DEF MeasureQueue
    <3> QED BY <1>6, <3>1
  <2> QED BY <2>1, <2>2
<1>8. CASE ListPending(s)
  <2>1. Continue(s, P, ListStuck(jobs, "pending", Y, BatchSize))
    BY <1>8 DEF ListPending
  <2>2. ListStuck(jobs, "pending", Y, BatchSize) \in SUBSET Jobs
    BY ListStuckFacts
  <2> QED BY <1>3, <1>6, <2>1, <2>2
<1>9. CASE ListingError(s) \/ EnqueueError(s) \/ UpdateError(s) \/ Crash(s)
  <2>1. sweep' = [sweep EXCEPT ![s] = Idle]
    BY <1>9 DEF ListingError, EnqueueError, UpdateError, Crash, Return
  <2>2. Idle \in Sweep /\ Idle.pc # "update" /\ Idle.processing \cup Idle.pending = {}
    BY DEF Idle, Sweep
  <2> QED BY <2>1, <2>2 DEF CallMoves
<1> QED BY <1>4, <1>5, <1>7, <1>8, <1>9

\* The steps of a sweep that write no row.
LEMMA SweepGrants ==
  ASSUME GrantInv, SweepInv', NEW s \in Sweepers,
         \/ Begin(s) \/ ListProcessing(s) \/ MeasureQueue(s) \/ ListPending(s)
         \/ ListingError(s) \/ EnqueueError(s) \/ Crash(s)
  PROVE  GrantInv'
<1>1. PICK c \in Sweep : CallMoves(s, c) /\ c.pc # "update"
  BY ListingMoves DEF GrantInv
<1>2. jobs' = jobs
  BY DEF Begin, ListProcessing, MeasureQueue, ListPending, ListingError, EnqueueError, Crash
<1>3. ListedHasRow'
  BY <1>1, <1>2, ListedAfter DEF GrantInv, CallMoves
<1>4. ASSUME NEW j \in Jobs PROVE holders'[j] <= holders[j] /\ requeued'[j] >= requeued[j]
  <2>1. holders[j] \in Nat /\ requeued[j] \in Nat
    BY DEF GrantInv, SweepInv, TypeOK
  <2>2. CASE \/ Begin(s) \/ ListProcessing(s) \/ MeasureQueue(s) \/ ListPending(s)
             \/ ListingError(s)
    <3>1. holders' = holders /\ requeued' = requeued
      BY <2>2 DEF Begin, ListProcessing, MeasureQueue, ListPending, ListingError, history
    <3> QED BY <2>1, <3>1
  <2>3. CASE EnqueueError(s)
    <3>1. holders' = holders
      BY <2>3 DEF EnqueueError
    <3>2. requeued' = requeued \/ requeued' = Add(requeued, Current(s), 1)
      BY <2>3 DEF EnqueueError, Requeue
    <3>3. requeued'[j] >= requeued[j]
      <4>1. requeued \in [Jobs -> Nat]
        BY DEF GrantInv, SweepInv, TypeOK
      <4>2. requeued' = requeued
              \/ requeued' = [requeued EXCEPT ![Current(s)] = requeued[Current(s)] + 1]
        BY <3>2 DEF Add
      <4> QED BY <2>1, <4>1, <4>2
    <3> QED BY <2>1, <3>1, <3>3
  <2>4. CASE Crash(s)
    <3>1. holders' \in Fewer(holders) /\ requeued' = requeued
      BY <2>4 DEF Crash
    <3> QED BY <2>1, <3>1 DEF Fewer
  <2> QED BY <2>2, <2>3, <2>4
<1>5. ASSUME NEW j \in Jobs PROVE Granted(j)'
  <2>1. Writing(j)' \subseteq Writing(j)
    BY <1>1, WritingAfter DEF GrantInv, CallMoves
  <2> QED BY <1>2, <1>4, <2>1, NothingGranted DEF GrantInv
<1> QED BY <1>3, <1>5 DEF GrantInv

LEMMA EnqueueNextGrants ==
  ASSUME GrantInv, SweepInv', NEW s \in Sweepers, EnqueueNext(s)
  PROVE  GrantInv'
<1> DEFINE c == [pc |-> "update", processing |-> sweep[s].processing,
                 pending |-> sweep[s].pending, young |-> {}]
<1>1. c \in Sweep /\ sweep' = [sweep EXCEPT ![s] = c] /\ At(c) = Current(s)
      /\ c.processing = sweep[s].processing /\ c.pending = sweep[s].pending
  BY DEF GrantInv, SweepInv, TypeOK, Sweep, EnqueueNext, Goto, At, Current
<1> HIDE DEF c
<1>2. jobs' = jobs /\ holders' = holders
  BY DEF EnqueueNext
<1>3. \A j \in sweep[s].processing \cup sweep[s].pending : j \in Jobs /\ jobs[j].status # "none"
  BY DEF GrantInv, SweepInv, TypeOK, Sweep, ListedHasRow
<1>4. ListedHasRow'
  BY <1>1, <1>2, <1>3, ListedAfter DEF GrantInv
<1>5. Current(s) \in Jobs /\ Requeue(s)
  BY CurrentIsListed DEF EnqueueNext, GrantInv, SweepInv, TypeOK
<1>6. /\ requeued'[Current(s)] = requeued[Current(s)] + 1
      /\ \A k \in Jobs \ {Current(s)} : requeued'[k] = requeued[k]
  BY <1>5, RequeueFacts DEF GrantInv, SweepInv
<1>7. ASSUME NEW j \in Jobs PROVE Granted(j)'
  <2>1. CASE j = Current(s)
    <3>1. Writing(j)' \subseteq Writing(j) \cup {s}
      BY <1>1, WritingAfter DEF GrantInv
    <3> QED BY <1>2, <1>6, <2>1, <3>1, EnqueueGrants DEF GrantInv
  <2>2. CASE j # Current(s)
    <3>1. Writing(j)' \subseteq Writing(j)
      BY <1>1, <2>2, WritingAfter DEF GrantInv
    <3>2. requeued'[j] >= requeued[j] /\ holders'[j] <= holders[j]
      BY <1>2, <1>6, <2>2, GrantTypes DEF GrantInv
    <3> QED BY <1>2, <3>1, <3>2, NothingGranted DEF GrantInv
  <2> QED BY <2>1, <2>2
<1> QED BY <1>4, <1>7 DEF GrantInv

\* The write of `pending`, done or not.
LEMMA UpdateGrants ==
  ASSUME GrantInv, SweepInv', NEW s \in Sweepers, UpdateNext(s) \/ UpdateError(s)
  PROVE  GrantInv'
<1> DEFINE j == Current(s)
           P == sweep[s].processing
           Q == sweep[s].pending
           P1 == P \ {j}
           Q1 == IF P # {} THEN Q ELSE Q \ {j}
<1>1. /\ P \in SUBSET Jobs /\ Q \in SUBSET Jobs /\ P \cup Q # {} /\ sweep[s].pc = "update"
      /\ j \in Jobs /\ jobs \in [Jobs -> Row]
  BY CurrentIsListed DEF GrantInv, SweepInv, TypeOK, Sweep, UpdateNext, UpdateError
<1>2. \A k \in P \cup Q : k \in Jobs /\ jobs[k].status # "none"
  BY <1>1 DEF GrantInv, ListedHasRow
<1>3. PICK c \in Sweep : CallMoves(s, c) /\ c.pc # "update"
  <2>1. CASE UpdateError(s)
    BY <2>1, ListingMoves DEF GrantInv
  <2>2. CASE UpdateNext(s)
    <3>1. Continue(s, P1, Q1)
      BY <2>2 DEF UpdateNext
    <3>2. P1 \in SUBSET Jobs /\ Q1 \in SUBSET Jobs /\ P1 \cup Q1 \subseteq P \cup Q
      BY <1>1
    <3> HIDE DEF P1, Q1
    <3>3. PICK c \in Sweep : sweep' = [sweep EXCEPT ![s] = c] /\ Left(c, P1, Q1)
      BY <3>1, <3>2, ContinueFacts
    <3>4. c.pc # "update" /\ c.processing \cup c.pending = P1 \cup Q1
      BY <3>3 DEF Left
    <3> QED BY <1>2, <3>2, <3>3, <3>4 DEF CallMoves
  <2> QED BY <2>1, <2>2
<1>4. jobs' \in {jobs, UpdateJobStatus(jobs, j, "pending")}
  BY DEF UpdateNext, UpdateError, AfterError
<1>5. holders' = holders /\ requeued' = requeued
  BY DEF UpdateNext, UpdateError, history
<1> HIDE DEF j
<1>6. /\ \A k \in Jobs \ {j} : jobs'[k].status = jobs[k].status
      /\ jobs'[j].status = "none" => jobs[j].status = "none"
  BY <1>1, <1>4, StatementsLocal, StatementsStatus DEF Status
<1>7. ListedHasRow'
  BY <1>3, <1>6, ListedAfter DEF GrantInv, CallMoves
<1>8. s \in Writing(j)
  BY <1>1 DEF Writing, j
<1>9. ASSUME NEW k \in Jobs PROVE Granted(k)'
  <2>1. Writing(k)' \subseteq Writing(k) \ {s}
    BY <1>3, WritingAfter DEF GrantInv, CallMoves
  <2>2. CASE k = j
    BY <1>5, <1>8, <2>1, <2>2, WriteGrants DEF GrantInv
  <2>3. CASE k # j
    <3>1. requeued'[k] >= requeued[k] /\ holders'[k] <= holders[k]
      BY <1>5, GrantTypes DEF GrantInv
    <3> QED BY <1>6, <2>1, <2>3, <3>1, NothingGranted DEF GrantInv
  <2> QED BY <2>2, <2>3
<1> QED BY <1>7, <1>9 DEF GrantInv

\* The steps of uploads and attempts, on the row of their job.
LEMMA RowGrants ==
  ASSUME GrantInv, SweepInv', NEW j \in Jobs, sweep' = sweep, requeued' = requeued,
         \A k \in Jobs \ {j} : jobs'[k].status = jobs[k].status /\ holders'[k] = holders[k],
         jobs'[j].status = "none" => jobs[j].status = "none",
         Granted(j)'
  PROVE  GrantInv'
<1>1. ListedHasRow'
  BY ListedStays DEF GrantInv
<1>2. ASSUME NEW k \in Jobs \ {j} PROVE Granted(k)'
  <2>1. Writing(k)' = Writing(k)
    BY DEF Writing, Current
  <2>2. requeued'[k] >= requeued[k] /\ holders'[k] <= holders[k]
    BY GrantTypes DEF GrantInv
  <2> QED BY <2>1, <2>2, NothingGranted DEF GrantInv
<1> QED BY <1>1, <1>2 DEF GrantInv

LEMMA AddAt ==
  ASSUME NEW f \in [Jobs -> Nat], NEW j \in Jobs, NEW n \in Int
  PROVE  Add(f, j, n)[j] = f[j] + n /\ \A k \in Jobs \ {j} : Add(f, j, n)[k] = f[k]
BY DEF Add

LEMMA EnvironmentGrants == ASSUME GrantInv, SweepInv', Environment PROVE GrantInv'
<1>0. /\ jobs \in [Jobs -> Row] /\ holders \in [Jobs -> Nat] /\ SweepInv
      /\ \A j \in Jobs : holders[j] \in Nat /\ requeued[j] \in Nat /\ Granted(j)
      /\ {"pending", "processing", "completed", "failed"} = Status
  BY DEF GrantInv, SweepInv, TypeOK, Status
<1>1. ASSUME jobs' = jobs, sweep' = sweep, holders' = holders, requeued' = requeued PROVE GrantInv'
  <2>1. ListedHasRow'
    BY <1>1, ListedStays DEF GrantInv
  <2>2. ASSUME NEW k \in Jobs PROVE Granted(k)'
    <3>1. Writing(k)' = Writing(k)
      BY <1>1 DEF Writing, Current
    <3>2. requeued'[k] >= requeued[k] /\ holders'[k] <= holders[k]
      BY <1>0, <1>1
    <3> QED BY <1>0, <1>1, <3>1, <3>2, NothingGranted
  <2> QED BY <2>1, <2>2 DEF GrantInv
<1>2. CASE Dequeue \/ Drop \/ Promote \/ \E j \in Jobs : PutBack(j)
  BY <1>1, <1>2 DEF Dequeue, Drop, Promote, PutBack, history
<1>3. ASSUME NEW j \in Jobs, Submit(j) PROVE GrantInv'
  <2>1. /\ jobs[j].status = "none" /\ jobs' = InsertJob(jobs, j) /\ holders' = holders
        /\ sweep' = sweep /\ requeued' = requeued
    BY <1>3 DEF Submit, history
  <2>2. jobs'[j].status = "pending" /\ \A k \in Jobs \ {j} : jobs'[k] = jobs[k]
    BY <1>0, <2>1, StatementsLocal, StatementsStatus
  <2>3. Granted(j)'
    BY <1>0, <2>1, <2>2, AttemptGrants
  <2> QED BY <2>1, <2>2, <2>3, RowGrants
<1>4. ASSUME NEW j \in Jobs, Acquire(j) PROVE GrantInv'
  <2>1. /\ Markable(jobs, j) /\ jobs' = MarkProcessing(jobs, j) /\ holders' = Add(holders, j, 1)
        /\ sweep' = sweep /\ requeued' = requeued
    BY <1>4 DEF Acquire, history
  <2>2. jobs'[j].status = "processing" /\ \A k \in Jobs \ {j} : jobs'[k] = jobs[k]
    BY <1>0, <2>1, StatementsLocal, StatementsStatus
  <2>3. holders'[j] = holders[j] + 1 /\ \A k \in Jobs \ {j} : holders'[k] = holders[k]
    BY <1>0, <2>1, AddAt
  <2>4. Granted(j)'
    BY <1>0, <2>1, <2>2, <2>3, AttemptGrants
  <2> QED BY <2>1, <2>2, <2>3, <2>4, RowGrants
<1>5. ASSUME NEW j \in Jobs, AcquireError(j) PROVE GrantInv'
  <2>1. /\ jobs' = MarkProcessing(jobs, j) /\ holders' = holders
        /\ sweep' = sweep /\ requeued' = requeued
    BY <1>5 DEF AcquireError, history
  <2>2. CASE ~Markable(jobs, j)
    <3>1. jobs' = jobs
      BY <2>1, <2>2 DEF MarkProcessing
    <3> QED BY <1>1, <2>1, <3>1
  <2>3. CASE Markable(jobs, j)
    <3>1. jobs'[j].status = "processing" /\ \A k \in Jobs \ {j} : jobs'[k] = jobs[k]
      BY <1>0, <2>1, <2>3, StatementsLocal, StatementsStatus
    <3>2. Granted(j)'
      BY <1>0, <2>1, <2>3, <3>1, AttemptGrants
    <3> QED BY <2>1, <3>1, <3>2, RowGrants
  <2> QED BY <2>2, <2>3
<1>6. ASSUME NEW j \in Jobs, SetOutputDir(j) \/ Complete(j) \/ Fail(j) PROVE GrantInv'
  <2>1. /\ holders[j] > 0 /\ sweep' = sweep /\ requeued' = requeued
        /\ \/ SetOutputDir(j) /\ holders' = holders
           \/ holders' = Add(holders, j, -1)
    BY <1>6 DEF SetOutputDir, Complete, Fail, history
  <2>2. PICK last \in Status : jobs' \in {jobs, UpdateJobStatus(jobs, j, last)}
    BY <1>0, <1>6, HolderWrites
  <2>3. /\ \A k \in Jobs \ {j} : jobs'[k] = jobs[k]
        /\ jobs'[j].status = "none" => jobs[j].status = "none"
    BY <1>0, <2>2, StatementsLocal, StatementsStatus DEF Status
  <2>4. CASE SetOutputDir(j) /\ holders' = holders
    <3>1. jobs'[j].status = jobs[j].status
      BY <1>0, <2>4, StatementsStatus, KeptStatus DEF SetOutputDir, Touch
    <3>2. Writing(j)' = Writing(j)
      BY <2>1 DEF Writing, Current
    <3>3. requeued'[j] >= requeued[j] /\ holders'[j] <= holders[j]
      BY <1>0, <2>1, <2>4
    <3>4. Granted(j)'
      BY <1>0, <3>1, <3>2, <3>3, NothingGranted
    <3> QED BY <2>1, <2>3, <2>4, <3>4, RowGrants
  <2>5. CASE holders' = Add(holders, j, -1)
    <3>1. holders'[j] = holders[j] - 1 /\ \A k \in Jobs \ {j} : holders'[k] = holders[k]
      BY <1>0, <2>5, AddAt
    <3>2. Granted(j)'
      BY <1>0, <2>1, <3>1, AttemptGrants
    <3> QED BY <2>1, <2>3, <3>1, <3>2, RowGrants
  <2> QED BY <2>1, <2>4, <2>5
<1>7. ASSUME NEW j \in Jobs, Age(j) PROVE GrantInv'
  <2>1. /\ jobs' = Aged(jobs, j) /\ holders' = holders /\ requeued' = requeued
        /\ sweep' = [s \in Sweepers |->
                 IF sweep[s].pc \in Dedicated
                 THEN [sweep[s] EXCEPT !.young = @ \cup {j}] ELSE sweep[s]]
    BY <1>7 DEF Age
  <2>2. \A k \in Jobs : jobs'[k].status = jobs[k].status
    BY <1>0, <2>1 DEF Aged, Row
  <2>3. \A s \in Sweepers : /\ sweep'[s].pc = sweep[s].pc
                            /\ sweep'[s].processing = sweep[s].processing
                            /\ sweep'[s].pending = sweep[s].pending
    BY <2>1 DEF GrantInv, SweepInv, TypeOK, Sweep
  <2>4. ListedHasRow'
    BY <2>2, <2>3, ListedStays DEF GrantInv
  <2>5. ASSUME NEW k \in Jobs PROVE Granted(k)'
    <3>1. Writing(k)' = Writing(k)
      BY <2>3 DEF Writing, Current
    <3>2. requeued'[k] >= requeued[k] /\ holders'[k] <= holders[k]
      BY <1>0, <2>1
    <3> QED BY <1>0, <2>2, <3>1, <3>2, NothingGranted
  <2> QED BY <2>4, <2>5 DEF GrantInv
<1> QED BY <1>2, <1>3, <1>4, <1>5, <1>6, <1>7, SweepGrants DEF Environment

LEMMA GrantStep == GrantInv /\ [Next]_vars => GrantInv'
<1> SUFFICES ASSUME GrantInv, [Next]_vars PROVE GrantInv'
  OBVIOUS
<1>1. SweepInv'
  BY StepInv DEF GrantInv
<1>2. ASSUME NEW s \in Sweepers, Begin(s) \/ Recover(s) PROVE GrantInv'
  BY <1>1, <1>2, SweepGrants, EnqueueNextGrants, UpdateGrants DEF Recover
<1>3. CASE Environment
  BY <1>1, <1>3, EnvironmentGrants
<1>4. CASE UNCHANGED vars
  <2>1. jobs' = jobs /\ sweep' = sweep /\ holders' = holders /\ requeued' = requeued
    BY <1>4 DEF vars, history
  <2>2. ListedHasRow'
    BY <2>1, ListedStays DEF GrantInv
  <2>3. ASSUME NEW k \in Jobs PROVE Granted(k)'
    <3>1. Writing(k)' = Writing(k)
      BY <2>1 DEF Writing, Current
    <3>2. requeued'[k] >= requeued[k] /\ holders'[k] <= holders[k]
      BY <1>1, <2>1, GrantTypes DEF GrantInv
    <3> QED BY <1>1, <2>1, <3>1, <3>2, NothingGranted DEF GrantInv
  <2> QED BY <1>1, <2>2, <2>3 DEF GrantInv
<1> QED BY <1>2, <1>3, <1>4 DEF Next

LEMMA GrantInit == Init => GrantInv
<1> SUFFICES ASSUME Init PROVE GrantInv
  OBVIOUS
<1>1. \A s \in Sweepers : sweep[s].pc = "idle" /\ sweep[s].processing \cup sweep[s].pending = {}
  BY DEF Init, Idle
<1>2. ListedHasRow
  BY <1>1 DEF ListedHasRow
<1>3. ASSUME NEW j \in Jobs PROVE Granted(j)
  <2>1. Writing(j) = {}
    BY <1>1 DEF Writing
  <2>2. Cardinality(Writing(j)) = 0
    BY <2>1, FS_EmptySet, Zenon
  <2>3. holders[j] = 0 /\ requeued[j] = 0 /\ Free(j) = 1
    BY DEF Init, Free, EmptyTable, NewRow
  <2> QED BY <2>1, <2>2, <2>3 DEF Granted
<1> QED BY <1>2, <1>3, InitInv DEF GrantInv

LEMMA GrantInvariance == Spec => []GrantInv
BY GrantInit, GrantStep, PTL DEF Spec

\* For any number of jobs, messages, attempts, sweepers and faults: the attempts that
\* hold a job are at most one, and one more for each time a sweep enqueued it and is
\* done writing its row.
THEOREM HoldersStayBounded == Spec => []HoldersBounded
<1>1. GrantInv => HoldersBounded
  <2> SUFFICES ASSUME GrantInv, NEW j \in Jobs
               PROVE  holders[j] + Cardinality(Writing(j)) <= 1 + requeued[j]
    BY DEF HoldersBounded
  <2>1. Writing(j) \in SUBSET Sweepers
    BY DEF Writing
  <2>2. Cardinality(Writing(j)) \in Nat /\ holders[j] \in Nat /\ requeued[j] \in Nat
        /\ Free(j) \in {0, 1}
    BY <2>1, RecoveryAssumption, FS_Subset, FS_CardinalityType DEF GrantInv, SweepInv, TypeOK, Free
  <2> QED BY <2>2 DEF GrantInv, Granted
<1> QED BY <1>1, GrantInvariance, PTL

-----------------------------------------------------------------------------
(* The life of a status.                                                   *)

\* What a step may make of the status of a job.
Lives(j) ==
  LET from == jobs[j].status
      to == jobs'[j].status
  IN  \/ /\ from # "none"
         /\ requeued'[j] > 0
         /\ to = from \/ (from \in Status /\ to = "pending")
      \/ /\ requeued'[j] = requeued[j]
         /\ \/ to = from
            \/ from = "none" /\ to = "pending"
            \/ from \in {"pending", "failed"} /\ to = "processing"
            \/ from = "processing" /\ to \in {"completed", "failed"}
            \/ requeued[j] > 0 /\ from \in Status /\ to \in {"completed", "failed"}

\* What it may make of the others, nothing.
Rests(j) == jobs'[j].status = jobs[j].status /\ requeued'[j] = requeued[j]

LEMMA SweepLives ==
  ASSUME GrantInv, SweepInv', NEW s \in Sweepers, Begin(s) \/ Recover(s) \/ Crash(s)
  PROVE  (\A k \in Jobs : Rests(k)) \/ \E j \in Jobs : Lives(j) /\ \A k \in Jobs \ {j} : Rests(k)
<1>0. /\ jobs \in [Jobs -> Row] /\ requeued \in [Jobs -> Nat] /\ SweepInv /\ TypeOK
      /\ \A v \in Sweepers : sweep[v].pc \in {"enqueue", "update"} =>
           Current(v) \in Jobs /\ jobs[Current(v)].status # "none"
  <2>1. ASSUME NEW v \in Sweepers, sweep[v].pc \in {"enqueue", "update"}
        PROVE  Current(v) \in sweep[v].processing \cup sweep[v].pending /\ Current(v) \in Jobs
    BY <2>1, CurrentIsListed DEF GrantInv, SweepInv, TypeOK
  <2> QED BY <2>1 DEF GrantInv, SweepInv, TypeOK, ListedHasRow
<1>1. CASE \/ Begin(s) \/ ListProcessing(s) \/ MeasureQueue(s) \/ ListPending(s)
           \/ ListingError(s) \/ Crash(s)
  <2>1. jobs' = jobs /\ requeued' = requeued
    BY <1>1 DEF Begin, ListProcessing, MeasureQueue, ListPending, ListingError, Crash, history
  <2> QED BY <2>1 DEF Rests
<1>2. CASE EnqueueNext(s) \/ EnqueueError(s)
  <2>1. jobs' = jobs /\ Current(s) \in Jobs /\ jobs[Current(s)].status # "none"
    BY <1>0, <1>2 DEF EnqueueNext, EnqueueError
  <2>2. CASE requeued' = requeued
    BY <2>1, <2>2 DEF Rests
  <2>3. CASE Requeue(s)
    <3>1. /\ requeued'[Current(s)] = requeued[Current(s)] + 1
          /\ \A k \in Jobs \ {Current(s)} : requeued'[k] = requeued[k]
      BY <1>0, <2>1, <2>3, RequeueFacts
    <3>2. requeued'[Current(s)] > 0
      BY <1>0, <2>1, <3>1
    <3>3. Lives(Current(s))
      BY <2>1, <3>2 DEF Lives
    <3>4. \A k \in Jobs \ {Current(s)} : Rests(k)
      BY <2>1, <3>1 DEF Rests
    <3> QED BY <2>1, <3>3, <3>4
  <2> QED BY <1>2, <2>2, <2>3 DEF EnqueueNext, EnqueueError
<1>3. CASE UpdateNext(s) \/ UpdateError(s)
  <2> DEFINE j == Current(s)
  <2>1. /\ j \in Jobs /\ jobs[j].status # "none" /\ requeued' = requeued
        /\ jobs' \in {jobs, UpdateJobStatus(jobs, j, "pending")} /\ s \in Writing(j)
    BY <1>0, <1>3 DEF UpdateNext, UpdateError, history, AfterError, Writing
  <2> HIDE DEF j
  <2>2. requeued[j] > 0
    BY <2>1 DEF GrantInv, Granted
  <2>3. /\ \A k \in Jobs \ {j} : jobs'[k] = jobs[k]
        /\ \/ jobs'[j].status = jobs[j].status
           \/ jobs[j].status \in Status /\ jobs'[j].status = "pending"
    <3>1. CASE jobs' = jobs
      BY <3>1
    <3>2. CASE jobs' = UpdateJobStatus(jobs, j, "pending")
      <4>1. "pending" \in Status
        BY DEF Status
      <4>2. \A k \in Jobs \ {j} : jobs'[k] = jobs[k]
        BY <1>0, <2>1, <3>2, <4>1, StatementsLocal
      <4>3. jobs'[j].status = IF Exists(jobs, j) THEN "pending" ELSE jobs[j].status
        BY <1>0, <2>1, <3>2, <4>1, StatementsStatus
      <4> QED BY <4>2, <4>3 DEF Exists
    <3> QED BY <2>1, <3>1, <3>2
  <2>4. Lives(j)
    BY <1>0, <2>1, <2>2, <2>3 DEF Lives
  <2>5. \A k \in Jobs \ {j} : Rests(k)
    BY <2>1, <2>3 DEF Rests
  <2> QED BY <2>1, <2>4, <2>5
<1> QED BY <1>1, <1>2, <1>3 DEF Recover

LEMMA EnvironmentLives ==
  ASSUME GrantInv, SweepInv', Environment
  PROVE  (\A k \in Jobs : Rests(k)) \/ \E j \in Jobs : Lives(j) /\ \A k \in Jobs \ {j} : Rests(k)
<1>0. /\ jobs \in [Jobs -> Row] /\ requeued \in [Jobs -> Nat]
      /\ \A j \in Jobs : holders[j] \in Nat /\ requeued[j] \in Nat /\ Granted(j)
      /\ {"pending", "processing", "completed", "failed"} = Status
  BY DEF GrantInv, SweepInv, TypeOK, Status
<1>1. CASE Dequeue \/ Drop \/ Promote \/ \E j \in Jobs : PutBack(j)
  <2>1. jobs' = jobs /\ requeued' = requeued
    BY <1>1 DEF Dequeue, Drop, Promote, PutBack, history
  <2> QED BY <2>1 DEF Rests
<1>2. ASSUME NEW j \in Jobs, Submit(j) \/ Acquire(j) \/ AcquireError(j)
      PROVE  Lives(j) /\ \A k \in Jobs \ {j} : Rests(k)
  <2>1. requeued' = requeued
    BY <1>2 DEF Submit, Acquire, AcquireError, history
  <2>2. \/ jobs[j].status = "none" /\ jobs' = InsertJob(jobs, j)
        \/ jobs' = MarkProcessing(jobs, j)
    BY <1>2 DEF Submit, Acquire, AcquireError
  <2>3. /\ \A k \in Jobs \ {j} : jobs'[k] = jobs[k]
        /\ \/ jobs[j].status = "none" /\ jobs'[j].status = "pending"
           \/ Markable(jobs, j) /\ jobs'[j].status = "processing"
           \/ jobs'[j].status = jobs[j].status
    BY <1>0, <2>2, StatementsLocal, StatementsStatus
  <2> QED BY <2>1, <2>3 DEF Lives, Rests, Markable
<1>3. ASSUME NEW j \in Jobs, SetOutputDir(j) \/ Complete(j) \/ Fail(j)
      PROVE  Lives(j) /\ \A k \in Jobs \ {j} : Rests(k)
  <2>1. requeued' = requeued /\ holders[j] > 0
    BY <1>3 DEF SetOutputDir, Complete, Fail, history
  <2>2. PICK last \in Status : /\ jobs' \in {jobs, UpdateJobStatus(jobs, j, last)}
                               /\ last \in {jobs[j].status, "failed", "completed"}
    BY <1>0, <1>3, HolderWrites
  <2>3. /\ \A k \in Jobs \ {j} : jobs'[k] = jobs[k]
        /\ \/ jobs'[j].status = jobs[j].status
           \/ jobs[j].status \in Status /\ jobs'[j].status = last
    BY <1>0, <2>2, StatementsLocal, StatementsStatus DEF Exists
  <2>4. requeued[j] > 0 \/ jobs[j].status = "processing"
    BY <1>0, <2>1 DEF Granted
  <2> QED BY <2>1, <2>2, <2>3, <2>4 DEF Lives, Rests
<1>4. ASSUME NEW j \in Jobs, Age(j) PROVE \A k \in Jobs : Rests(k)
  <2>1. jobs' = Aged(jobs, j) /\ requeued' = requeued
    BY <1>4 DEF Age
  <2> QED BY <1>0, <2>1 DEF Aged, Row, Rests
<1> QED BY <1>1, <1>2, <1>3, <1>4, SweepLives DEF Environment

\* RecoveryService implements JobLifecycle: what a status may become while sweeps,
\* attempts, retries and faults interleave, for any number of each.
THEOREM ImplementsLifecycle == Spec => LifecycleSpec
<1> DEFINE sbar == [j \in Jobs |-> jobs[j].status]
           dbar == {j \in Jobs : requeued[j] > 0}
<1>1. ASSUME Init PROVE Lifecycle!Init
  BY <1>1 DEF Init, Lifecycle!Init, EmptyTable, NewRow
<1>2. ASSUME GrantInv, [Next]_vars PROVE [Lifecycle!Next]_<<sbar, dbar>>
  <2>1. SweepInv' /\ jobs \in [Jobs -> Row] /\ requeued \in [Jobs -> Nat] /\ requeued' \in [Jobs -> Nat]
    BY <1>2, StepInv DEF GrantInv, SweepInv, TypeOK
  <2>2. CASE \A k \in Jobs : Rests(k)
    BY <2>2 DEF Rests
  <2>3. ASSUME NEW j \in Jobs, Lives(j), \A k \in Jobs \ {j} : Rests(k)
        PROVE  [Lifecycle!Next]_<<sbar, dbar>>
    <3>1. sbar' = [sbar EXCEPT ![j] = jobs'[j].status]
      BY <2>3 DEF Rests
    <3>2. dbar' = IF requeued'[j] > 0 THEN dbar \cup {j} ELSE dbar \ {j}
      BY <2>1, <2>3 DEF Rests
    <3>3. CASE requeued'[j] > 0 /\ jobs[j].status # "none"
                 /\ jobs'[j].status = jobs[j].status
      <4>1. sbar' = sbar /\ dbar' = dbar \cup {j} /\ sbar[j] # "none"
        BY <3>1, <3>2, <3>3
      <4> QED BY <4>1 DEF Lifecycle!Next, Lifecycle!Reset
    <3>4. CASE requeued'[j] > 0 /\ jobs[j].status # "none"
                 /\ jobs[j].status \in Status /\ jobs'[j].status = "pending"
      <4>1. sbar' = [sbar EXCEPT ![j] = "pending"] /\ dbar' = dbar \cup {j}
            /\ sbar[j] # "none" /\ sbar[j] \in Status
        BY <3>1, <3>2, <3>4
      <4> QED BY <4>1 DEF Lifecycle!Next, Lifecycle!Reset, Lifecycle!Status, Status
    <3>5. CASE requeued'[j] = requeued[j] /\ jobs'[j].status = jobs[j].status
      <4>1. sbar' = sbar /\ dbar' = dbar
        BY <2>1, <3>1, <3>2, <3>5
      <4> QED BY <4>1
    <3>6. CASE requeued'[j] = requeued[j] /\ jobs'[j].status # jobs[j].status
      <4>1. dbar' = dbar /\ (requeued[j] > 0 => j \in dbar)
        BY <2>1, <3>2, <3>6
      <4>2. CASE ~(requeued'[j] > 0 /\ jobs'[j].status = "pending")
        <5>1. \/ jobs[j].status = "none" /\ jobs'[j].status = "pending"
              \/ jobs[j].status \in {"pending", "failed"} /\ jobs'[j].status = "processing"
              \/ jobs[j].status = "processing" /\ jobs'[j].status \in {"completed", "failed"}
              \/ j \in dbar /\ jobs[j].status \in Status
                   /\ jobs'[j].status \in {"completed", "failed"}
          BY <2>3, <3>6, <4>1, <4>2 DEF Lives
        <5> QED BY <3>1, <4>1, <5>1 DEF Lifecycle!Next, Lifecycle!Submit, Lifecycle!Acquire,
              Lifecycle!Complete, Lifecycle!Fail, Lifecycle!EndLate, Lifecycle!Become,
              Lifecycle!Status, Status
      <4>3. CASE requeued'[j] > 0 /\ jobs'[j].status = "pending" /\ jobs[j].status = "none"
        BY <3>1, <4>1, <4>3 DEF Lifecycle!Next, Lifecycle!Submit, Lifecycle!Become
      <4>4. CASE requeued'[j] > 0 /\ jobs'[j].status = "pending" /\ jobs[j].status # "none"
        <5>1. jobs[j].status \in Status
          BY <2>3, <3>6, <4>4 DEF Lives
        <5> QED BY <3>4, <4>4, <5>1
      <4> QED BY <4>2, <4>3, <4>4
    <3> QED BY <2>3, <3>3, <3>4, <3>5, <3>6 DEF Lives
  <2>4. CASE UNCHANGED vars
    BY <2>2, <2>4 DEF vars, history, Rests
  <2>5. CASE Next
    BY <1>2, <2>1, <2>2, <2>3, <2>5, SweepLives, EnvironmentLives DEF Next
  <2> QED BY <1>2, <2>4, <2>5
<1> QED
  BY <1>1, <1>2, GrantInvariance, PTL DEF Spec, LifecycleSpec, Lifecycle!Spec, Lifecycle!life
=============================================================================
