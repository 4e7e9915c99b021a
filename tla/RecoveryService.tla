--------------------------- MODULE RecoveryService ---------------------------
(***************************************************************************)
(* RecoveryService.Recover (internal/service/recovery_service.go), run by  *)
(* the recovery loop of every worker process: it lists the rows that have  *)
(* been processing for too long and, if the main list is empty, those that *)
(* have been pending for too long; for each it enqueues a new message and  *)
(* then writes `pending`.                                                  *)
(*                                                                         *)
(* Between the listing and the last write everything may change: uploads,  *)
(* the worker pools and their attempts are the environment of this module, *)
(* reduced to where the messages of a job are and how many attempts hold   *)
(* it.  Uploads and attempts may fail and messages may be lost at any      *)
(* time; a sweep that is cut short and a message that is retried are       *)
(* upsets, and their number is bounded.                                    *)
(***************************************************************************)
EXTENDS JobStore, Sequences, FiniteSetsExt

CONSTANTS
  Sweepers,         \* the recovery loops, one for each worker process
  BatchSize,        \* rows one query returns
  Connections,      \* connections of a process to the database
  RetryMoveBatch,   \* messages one sweep of a retry promoter moves
  MaxAged,          \* bound: how often a row turns stale
  MaxUpsets,        \* bound: sweeps cut short, messages retried
  MaxLoad           \* bound: sweeps in progress times rows in the table

ASSUME RecoveryAssumption == /\ IsFiniteSet(Sweepers)
                             /\ BatchSize \in Nat \ {0}
                             /\ Connections \in Nat \ {0}
                             /\ RetryMoveBatch \in Nat \ {0}
                             /\ MaxAged \in Nat /\ MaxUpsets \in Nat
                             /\ MaxLoad \in Nat \ {0}

VARIABLES
  jobs,             \* the jobs table
  main,             \* the main list: the job of each message
  taken,            \* for each job, its messages in the pools that no attempt holds
  retry,            \* for each job, its messages in the retry set
  holders,          \* for each job, the attempts that acquired it and go on
  sweep,            \* for each sweeper, the Recover call it is in
  aged,             \* history: how often the row of the job turned stale
  requeued,         \* history: the messages recovery enqueued for the job
  upsets            \* history: the sweeps cut short and the messages retried

messages == <<main, taken, retry>>
history == <<aged, requeued, upsets>>
vars == <<jobs, messages, holders, sweep, history>>

-----------------------------------------------------------------------------
\* A call in progress: what is left of both lists and, while it is listing,
\* the rows that have turned stale since its cutoffs were computed.
Idle == [pc |-> "idle", processing |-> {}, pending |-> {}, young |-> {}]

Sweep == [pc : {"idle", "processing", "len", "pending", "enqueue", "update"},
          processing : SUBSET Jobs, pending : SUBSET Jobs, young : SUBSET Jobs]

TypeOK ==
  /\ jobs \in [Jobs -> Row]
  /\ main \in Seq(Jobs)
  /\ \A count \in {taken, retry, holders, requeued} : count \in [Jobs -> Nat]
  /\ sweep \in [Sweepers -> Sweep]
  /\ \A s \in Sweepers : sweep[s].pc \in {"enqueue", "update"}
                           => sweep[s].processing \cup sweep[s].pending # {}
  /\ aged \in [Jobs -> 0 .. MaxAged]
  /\ upsets \in 0 .. MaxUpsets

Init ==
  /\ jobs = EmptyTable
  /\ main = <<>>
  /\ taken = [j \in Jobs |-> 0] /\ retry = taken /\ holders = taken
  /\ sweep = [s \in Sweepers |-> Idle]
  /\ aged = taken /\ requeued = taken
  /\ upsets = 0

Upset == upsets < MaxUpsets /\ upsets' = upsets + 1

Add(f, j, n) == [f EXCEPT ![j] = @ + n]
Times(j, s) == Cardinality({i \in DOMAIN s : s[i] = j})

Goto(s, pc, processing, pending, young) ==
  sweep' = [sweep EXCEPT ![s] = [pc |-> pc, processing |-> processing,
                                 pending |-> pending, young |-> young]]

Return(s) == sweep' = [sweep EXCEPT ![s] = Idle]

\* Mutant: the loop does not look whether anything is left.
ContinueAlways(s, processing, pending) ==
  Goto(s, "enqueue", processing, pending, {})

\* The loop over what is left of both lists, or the end of the call.
Continue(s, processing, pending) ==
  IF processing \cup pending = {} THEN Return(s)
  ELSE Goto(s, "enqueue", processing, pending, {})

\* The job the loops are at: each list in the order of created_at, the
\* processing ones first.
Current(s) == IF sweep[s].processing # {} THEN Min(sweep[s].processing)
                                          ELSE Min(sweep[s].pending)

\* Recover keeps a connection to itself while it lists; it is closed before
\* the loops, whose writes take one from the pool.
Dedicated == {"processing", "len", "pending"}
HasConnection(s) == Connections > IF sweep[s].pc \in Dedicated THEN 1 ELSE 0

\* The bound on what goes on at a time: one sweep over many rows, or many sweeps
\* over one.
Load(sweeps, rows) == sweeps * rows <= MaxLoad
Sweeps == Cardinality({s \in Sweepers : sweep[s].pc # "idle"})
Rows == Cardinality({j \in Jobs : Exists(jobs, j)})

-----------------------------------------------------------------------------
\* The ticker fires: the cutoffs are computed and the connection obtained.
Begin(s) ==
  /\ sweep[s].pc = "idle"
  /\ Load(Sweeps + 1, Rows)
  /\ Goto(s, "processing", {}, {}, {})
  /\ UNCHANGED <<jobs, messages, holders, history>>

ListProcessing(s) ==
  /\ sweep[s].pc = "processing"
  /\ LET young == sweep[s].young
     IN  Goto(s, "len", ListStuck(jobs, "processing", young, BatchSize), {}, young)
  /\ UNCHANGED <<jobs, messages, holders, history>>

\* Mutant: pending rows are looked for when the main list is not empty.
MeasureQueueInverted(s) ==
  /\ sweep[s].pc = "len"
  /\ IF Len(main) # 0
     THEN Goto(s, "pending", sweep[s].processing, {}, sweep[s].young)
     ELSE Continue(s, sweep[s].processing, {})
  /\ UNCHANGED <<jobs, messages, holders, history>>

\* Pending rows are looked for only when the main list is empty.
MeasureQueue(s) ==
  /\ sweep[s].pc = "len"
  /\ IF Len(main) = 0
     THEN Goto(s, "pending", sweep[s].processing, {}, sweep[s].young)
     ELSE Continue(s, sweep[s].processing, {})
  /\ UNCHANGED <<jobs, messages, holders, history>>

ListPending(s) ==
  /\ sweep[s].pc = "pending"
  /\ Continue(s, sweep[s].processing, ListStuck(jobs, "pending", sweep[s].young, BatchSize))
  /\ UNCHANGED <<jobs, messages, holders, history>>

\* An error of a query or of LLEN ends the call.
ListingError(s) ==
  /\ sweep[s].pc \in {"processing", "len", "pending"}
  /\ Upset
  /\ Return(s)
  /\ UNCHANGED <<jobs, messages, holders, aged, requeued>>

Requeue(s) ==
  /\ main' = Append(main, Current(s))
  /\ requeued' = Add(requeued, Current(s), 1)
  /\ UNCHANGED <<taken, retry>>

EnqueueNext(s) ==
  /\ sweep[s].pc = "enqueue"
  /\ Requeue(s)
  /\ Goto(s, "update", sweep[s].processing, sweep[s].pending, {})
  /\ UNCHANGED <<jobs, holders, aged, upsets>>

\* The error ends the call; it may hide that the message was pushed.
EnqueueError(s) ==
  /\ sweep[s].pc = "enqueue"
  /\ Upset
  /\ Requeue(s) \/ UNCHANGED <<messages, requeued>>
  /\ Return(s)
  /\ UNCHANGED <<jobs, holders, aged>>

\* Whatever the status has become since the listing, it is made `pending`.
UpdateNext(s) ==
  LET j == Current(s) IN
  /\ sweep[s].pc = "update"
  /\ HasConnection(s)
  /\ jobs' = UpdateJobStatus(jobs, j, "pending")
  /\ Continue(s, sweep[s].processing \ {j},
                 IF sweep[s].processing # {} THEN sweep[s].pending
                                             ELSE sweep[s].pending \ {j})
  /\ UNCHANGED <<messages, holders, history>>

\* The error ends the call: of the database, or after 5 seconds without a
\* connection.  The rest of the lists waits for another sweep.
UpdateError(s) ==
  /\ sweep[s].pc = "update"
  /\ \/ Upset /\ jobs' \in AfterError(jobs, UpdateJobStatus(jobs, Current(s), "pending"))
     \/ ~HasConnection(s) /\ UNCHANGED <<upsets, jobs>>
  /\ Return(s)
  /\ UNCHANGED <<messages, holders, aged, requeued>>

Recover(s) ==
  \/ ListProcessing(s) \/ MeasureQueue(s) \/ ListPending(s) \/ ListingError(s)
  \/ EnqueueNext(s) \/ EnqueueError(s) \/ UpdateNext(s) \/ UpdateError(s)

-----------------------------------------------------------------------------
\* The environment.

\* An upload inserts its row and publishes the message, unless the server dies
\* or cannot delete the row when the publication fails.  (An upload that is
\* rolled back leaves no row to recover.)
Submit(j) ==
  /\ jobs[j].status = "none"
  /\ Load(Sweeps, Rows + 1)
  /\ jobs' = InsertJob(jobs, j)
  /\ main' \in {main, Append(main, j)}
  /\ UNCHANGED <<taken, retry, holders, sweep, history>>

\* A dispatcher's BLPOP, whose reply may be lost with the message.
Dequeue ==
  /\ main # <<>>
  /\ main' = Tail(main)
  /\ taken' \in {taken, Add(taken, Head(main), 1)}
  /\ UNCHANGED <<jobs, retry, holders, sweep, history>>

\* A worker has a message of the job and acquires it.
Acquire(j) ==
  /\ taken[j] > 0
  /\ Markable(jobs, j)
  /\ jobs' = MarkProcessing(jobs, j)
  /\ taken' = Add(taken, j, -1)
  /\ holders' = Add(holders, j, 1)
  /\ UNCHANGED <<main, retry, sweep, history>>

\* An error hides that the job was acquired.
AcquireError(j) ==
  /\ taken[j] > 0
  /\ jobs' = MarkProcessing(jobs, j)
  /\ UNCHANGED <<messages, holders, sweep, history>>

\* A holder that is done with its files writes output_dir.
SetOutputDir(j) ==
  /\ holders[j] > 0
  /\ jobs' = Touch(jobs, j)
  /\ UNCHANGED <<messages, holders, sweep, history>>

\* A holder completes the job.
Complete(j) ==
  /\ holders[j] > 0
  /\ jobs' = UpdateJobStatus(jobs, j, "completed")
  /\ holders' = Add(holders, j, -1)
  /\ UNCHANGED <<messages, sweep, history>>

\* A holder fails, and the message is its worker's again: with the write of
\* `failed`, or at a statement whose error ends the attempt without it.  The last
\* write that was done may also be that of output_dir, which keeps the status.
Fail(j) ==
  /\ holders[j] > 0
  /\ \E last \in {jobs[j].status, "failed", "completed"} :
       jobs' \in AfterError(jobs, UpdateJobStatus(jobs, j, last))
  /\ holders' = Add(holders, j, -1)
  /\ taken' = Add(taken, j, 1)
  /\ UNCHANGED <<main, retry, sweep, history>>

\* handleFailure.  Here any message in a pool may be put in the retry set.
PutBack(j) ==
  /\ taken[j] > 0
  /\ Upset
  /\ taken' = Add(taken, j, -1)
  /\ retry' = Add(retry, j, 1)
  /\ UNCHANGED <<jobs, main, holders, sweep, aged, requeued>>

\* RequeueDue moves a batch of due messages, of any jobs and in any order.
Promote ==
  /\ \E s \in UNION {[1 .. n -> Jobs] : n \in 1 .. RetryMoveBatch} :
       /\ \A j \in Jobs : Times(j, s) <= retry[j]
       /\ retry' = [j \in Jobs |-> retry[j] - Times(j, s)]
       /\ main' = main \o s
  /\ UNCHANGED <<jobs, taken, holders, sweep, history>>

Fewer(f) == {g \in [Jobs -> UNION {0 .. f[j] : j \in Jobs}] :
               \A j \in Jobs : g[j] <= f[j]}

\* A pool is done with a message (its job was skipped with success, it was
\* dead-lettered) or loses some at a stop.
Drop ==
  /\ taken' \in Fewer(taken) \ {taken}
  /\ UNCHANGED <<jobs, main, retry, holders, sweep, history>>

\* A process dies: its Recover call ends, and the attempts and messages its
\* workers had are gone.
Crash(s) ==
  /\ Upset
  /\ Return(s)
  /\ taken' \in Fewer(taken) /\ holders' \in Fewer(holders)
  /\ UNCHANGED <<jobs, main, retry, aged, requeued>>

\* Time passes without an UPDATE of the row, which an attempt does not do
\* while it converts.  The age of the other rows is never looked at.
Age(j) ==
  /\ jobs[j].status \in {"pending", "processing"} /\ ~jobs[j].stale
  /\ aged[j] < MaxAged
  /\ jobs' = Aged(jobs, j)
  /\ aged' = Add(aged, j, 1)
  /\ sweep' = [s \in Sweepers |->
                 IF sweep[s].pc \in Dedicated
                 THEN [sweep[s] EXCEPT !.young = @ \cup {j}] ELSE sweep[s]]
  /\ UNCHANGED <<messages, holders, requeued, upsets>>

Environment ==
  \/ Dequeue \/ Promote \/ Drop
  \/ \E j \in Jobs : \/ Submit(j) \/ Acquire(j) \/ AcquireError(j) \/ SetOutputDir(j)
                     \/ Complete(j) \/ Fail(j) \/ PutBack(j) \/ Age(j)
  \/ \E s \in Sweepers : Crash(s)

Next == (\E s \in Sweepers : Begin(s) \/ Recover(s)) \/ Environment

Spec == Init /\ [][Next]_vars

\* The ticker of every loop fires and a call goes on until it returns, the pools
\* take what is queued, and time passes.  An attempt need not end, and a retry
\* need not come.
Fairness ==
  /\ \A s \in Sweepers : WF_vars(Begin(s) \/ Recover(s))
  /\ WF_vars(Dequeue)
  /\ \A j \in Jobs : WF_vars(Age(j))

FairSpec == Spec /\ Fairness

-----------------------------------------------------------------------------
\* The messages of the job that a worker may still get to.
Messages(j) == Times(j, main) + taken[j] + retry[j]

\* Nobody is working on the job and nobody will.
Orphan(j) ==
  /\ holders[j] = 0
  /\ \/ jobs[j].status = "processing"
     \/ jobs[j].status = "pending" /\ Messages(j) = 0

\* "so atualizamos updated_at para evitar reenfileirar a cada sweep": however
\* many sweeps there are and whatever is done to the row between them, each
\* loop enqueues a job at most once for each time its row turned stale, and
\* once more for each error.
ReenqueueBounded ==
  \A j \in Jobs : requeued[j] <= aged[j] * Cardinality(Sweepers) + upsets

\* A job left processing by a dead attempt, or pending without a message,
\* does not stay so: also behind a full batch of older jobs, beside another
\* sweep, and when a sweep is cut short.  A message lost, or skipped, before the
\* sweep writes `pending` costs the job another wait, which the bound on waits
\* may not grant: then its row is fresh.
OutOfWaits(j) == aged[j] = MaxAged /\ ~jobs[j].stale

OrphanIsRecovered ==
  \A j \in Jobs : Orphan(j) ~> (~Orphan(j) \/ OutOfWaits(j))

\* The sweeps that have enqueued the job and not yet written its row.
Writing(j) == {s \in Sweepers : sweep[s].pc = "update" /\ Current(s) = j}

\* A message alone makes no second attempt: however many travel, and whatever
\* fails, an attempt begins beside another one only after a sweep is done with
\* the job, one for each time it was.  While the sweep has enqueued the job and
\* not yet written `pending`, the message it sent finds the job held.
HoldersBounded ==
  \A j \in Jobs : holders[j] + Cardinality(Writing(j)) <= 1 + requeued[j]

\* The status of every job lives the life that JobLifecycle promises: an attempt
\* that was overlooked, and ends late over a row it does not hold, meets only jobs
\* that a sweep has enqueued.
Lifecycle == INSTANCE JobLifecycle
               WITH status <- [j \in Jobs |-> jobs[j].status],
                    disturbed <- {j \in Jobs : requeued[j] > 0}
LifecycleSpec == Lifecycle!Spec

\* TODO.md:142: no job is processed twice at a time in the face of retries,
\* recovery and duplicated messages.
NoDoubleProcessing == \A j \in Jobs : holders[j] <= 1
=============================================================================
