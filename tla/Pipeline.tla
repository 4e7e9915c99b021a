------------------------------ MODULE Pipeline ------------------------------
(***************************************************************************)
(* The whole system around one job table and one set of Redis keys: the    *)
(* uploads, the pool of a worker process, its calls of ProcessJob, and the *)
(* recovery loops of that process and of others.                           *)
(*                                                                         *)
(* The steps of the pool are WorkerPool's and those of a sweep are         *)
(* RecoveryService's.  This module adds what joins them: when a call of    *)
(* ProcessJob writes the job's row, what its result makes of the message,  *)
(* that a sweep enqueues into the pool's list, and that the recovery loop  *)
(* of a process stops and dies with its pool.  RecoveryService assumes an  *)
(* environment; RecoverySpec says that this is it.                         *)
(*                                                                         *)
(* The conversion is one step, up to the write of output_dir:              *)
(* ProcessingService has its parts.                                        *)
(***************************************************************************)
EXTENDS JobStore, Sequences

CONSTANTS
  MaxSent, MaxRetries, Workers, BufferSize, RetryMoveBatch, \* of the pool
  Sweepers, BatchSize, Connections, MaxAged,                \* of recovery
  Home,             \* the sweeper of the pool's own process
  MaxUpsets         \* bound: Redis and database faults, Stops and crashes

ASSUME SystemAssumption ==
  /\ IsFiniteSet(Jobs) /\ Jobs # {}
  /\ IsFiniteSet(Workers) /\ Workers # {}
  /\ IsFiniteSet(Sweepers) /\ Home \in Sweepers
  /\ {MaxSent, MaxRetries, BufferSize, RetryMoveBatch, BatchSize, Connections} \subseteq Nat \ {0}
  /\ {MaxAged, MaxUpsets} \subseteq Nat

VARIABLES
  main, retry, dead, hand, channel, worker, exited, cancelled,
  sent, upsets, acked, runs,        \* as in WorkerPool
  jobs, sweep, aged, requeued,      \* as in RecoveryService
  stage,            \* for each worker, where its ProcessJob call is
  mishaps           \* history: sweeps cut short and messages retried

Pool == INSTANCE WorkerPool

\* What RecoveryService sees of the pool.
JobOf(m) == m.id[1]
Count(j, msgs) == Cardinality({i \in DOMAIN msgs : JobOf(msgs[i]) = j})
Held == {"held", "saved"}
Holds(w, j) == stage[w] \in Held /\ JobOf(worker[w].msg) = j
Waits(w, j) == stage[w] \notin Held /\ JobOf(worker[w].msg) = j

Queued == [i \in DOMAIN main |-> JobOf(main[i])]
Taken == [j \in Jobs |-> Count(j, hand) + Count(j, channel)
                           + Cardinality({w \in Workers : Waits(w, j)})]
Retrying == [j \in Jobs |-> Cardinality({m \in retry : JobOf(m) = j})]
Holders == [j \in Jobs |-> Cardinality({w \in Workers : Holds(w, j)})]

Recovery == INSTANCE RecoveryService
  WITH main <- Queued, taken <- Taken, retry <- Retrying, holders <- Holders,
       upsets <- mishaps,
       MaxUpsets <- MaxUpsets + MaxRetries * MaxSent * Cardinality(Jobs),
       MaxLoad <- Cardinality(Sweepers) * Cardinality(Jobs)

pool == <<main, retry, dead, hand, channel, worker, exited, cancelled,
          sent, upsets, acked, runs>>
table == <<jobs, sweep, aged, requeued>>
vars == <<pool, table, stage, mishaps>>

-----------------------------------------------------------------------------
TypeOK ==
  /\ Pool!TypeOK
  /\ Recovery!TypeOK
  /\ stage \in [Workers -> {"none", "mark", "status"} \cup Held]
  /\ \A w \in Workers : stage[w] # "none" <=> worker[w].pc = "processing"

Init ==
  /\ Pool!Init
  /\ jobs = EmptyTable
  /\ sweep = [s \in Sweepers |-> Recovery!Idle]
  /\ aged = [j \in Jobs |-> 0] /\ requeued = aged
  /\ stage = [w \in Workers |-> "none"]
  /\ mishaps = 0

-----------------------------------------------------------------------------
\* An upload: its row, its message, and what its rollback leaves of them.
Submit(j) ==
  /\ jobs[j].status = "none"
  /\ Pool!Enqueue(j) \/ UNCHANGED pool
  /\ jobs' = InsertJob(jobs, j)
  /\ UNCHANGED <<sweep, aged, requeued, stage, mishaps>>

Call(w, s) == stage' = [stage EXCEPT ![w] = s]

Take(w) ==
  /\ Pool!Take(w)
  /\ Call(w, "mark")
  /\ UNCHANGED <<table, mishaps>>

\* ProcessJob returns to the worker.
Return(w, ok) == Pool!Processed(w, ok) /\ Call(w, "none")

Calling(w, s) == stage[w] = s /\ UNCHANGED <<sweep, aged, requeued, mishaps>>

TryMark(w) ==
  LET j == JobOf(worker[w].msg) IN
  /\ Calling(w, "mark")
  /\ \/ /\ Markable(jobs, j)
        /\ jobs' = MarkProcessing(jobs, j)
        /\ Call(w, "held") /\ UNCHANGED pool
     \/ /\ ~Markable(jobs, j)
        /\ Call(w, "status") /\ UNCHANGED <<pool, jobs>>
     \/ /\ jobs' \in AfterError(jobs, MarkProcessing(jobs, j))
        /\ Return(w, FALSE)

ReadStatus(w) ==
  /\ Calling(w, "status")
  /\ \/ jobs[JobOf(worker[w].msg)].status \in {"processing", "completed"} /\ Return(w, TRUE)
     \/ Return(w, FALSE)
  /\ UNCHANGED jobs

\* The files are done, and the UPDATE of output_dir makes the row fresh.
SetOutputDir(w) ==
  /\ Calling(w, "held")
  /\ jobs' = Touch(jobs, JobOf(worker[w].msg))
  /\ Call(w, "saved") /\ UNCHANGED pool

Complete(w) ==
  /\ Calling(w, "saved")
  /\ jobs' = UpdateJobStatus(jobs, JobOf(worker[w].msg), "completed")
  /\ Return(w, TRUE)

\* The statuses an attempt that ends at that stage may have written last, if
\* any: with output_dir the one the row has.
LastWritten(w, j) ==
  IF stage[w] = "held" THEN {jobs[j].status, "failed"} ELSE {"completed"}

\* Mutant: the error of a failed attempt is not handed to the pool.
FailSwallowed(w) ==
  LET j == JobOf(worker[w].msg) IN
  /\ \E s \in Held : Calling(w, s)
  /\ \E last \in LastWritten(w, j) :
       jobs' \in AfterError(jobs, UpdateJobStatus(jobs, j, last))
  /\ Return(w, TRUE)

\* The conversion fails, or a statement of the attempt does: its last write
\* may be done or not.
Fail(w) ==
  LET j == JobOf(worker[w].msg) IN
  /\ \E s \in Held : Calling(w, s)
  /\ \E last \in LastWritten(w, j) :
       jobs' \in AfterError(jobs, UpdateJobStatus(jobs, j, last))
  /\ Return(w, FALSE)

HandleFailure(w) ==
  /\ Pool!HandleFailure(w) \/ Pool!HandleFailureError(w)
  /\ mishaps' = IF retry' # retry THEN mishaps + 1 ELSE mishaps
  /\ UNCHANGED <<table, stage>>

WorkerLoop(w) ==
  \/ Take(w) \/ TryMark(w) \/ ReadStatus(w) \/ SetOutputDir(w) \/ Complete(w) \/ Fail(w)
  \/ HandleFailure(w)
  \/ Pool!WorkerExit(w) /\ UNCHANGED <<table, stage, mishaps>>

Dispatcher == Pool!Dispatcher /\ UNCHANGED <<table, stage, mishaps>>

Promoter ==
  /\ Pool!Promote \/ Pool!PromoterExit
  /\ UNCHANGED <<table, stage, mishaps>>

-----------------------------------------------------------------------------
\* The context of a sweep is its process's; cancelled, it fails LLEN and RPUSH
\* but not the statements.
Cancelled(s) == s = Home /\ cancelled

Sweeping == UNCHANGED <<pool, stage>>

BeginSweep(s) == ~Cancelled(s) /\ Sweeping /\ Recovery!Begin(s)

EnqueueNext(s) ==
  /\ ~Cancelled(s) /\ sweep[s].pc = "enqueue"
  /\ Pool!Enqueue(Recovery!Current(s))
  /\ UNCHANGED stage
  /\ Recovery!EnqueueNext(s)

\* An error of a sweep is an upset, or follows from one: its context ended.
Fault(s) == IF Cancelled(s) /\ sweep[s].pc \in {"len", "enqueue"}
            THEN UNCHANGED upsets ELSE Pool!Upset

\* The error of an RPUSH may hide that it was done.
Pushed(j) ==
  /\ sent[j] < MaxSent
  /\ sent' = [sent EXCEPT ![j] = @ + 1]
  /\ main' = Pool!RPush(main, Pool!NewMessage(<<j, sent[j] + 1>>))

SweepError(s) ==
  /\ Fault(s)
  /\ \/ UNCHANGED <<main, sent>>
     \/ sweep[s].pc = "enqueue" /\ Pushed(Recovery!Current(s))
  /\ UNCHANGED <<retry, dead, hand, channel, worker, exited, cancelled, acked, runs, stage>>
  /\ mishaps' = mishaps + 1
  /\ Recovery!ListingError(s) \/ Recovery!EnqueueError(s) \/ Recovery!UpdateError(s)

Sweep(s) ==
  \/ BeginSweep(s) \/ EnqueueNext(s) \/ SweepError(s)
  \/ /\ Sweeping
     /\ \/ Recovery!ListProcessing(s) \/ Recovery!ListPending(s) \/ Recovery!UpdateNext(s)
        \/ ~Cancelled(s) /\ Recovery!MeasureQueue(s)
        \/ Recovery!UpdateError(s) /\ UNCHANGED mishaps

Age(j) == Sweeping /\ Recovery!Age(j)

-----------------------------------------------------------------------------
Stop == Pool!Stop /\ UNCHANGED <<table, stage, mishaps>>

\* Stop also waits for the recovery loop.
Restart ==
  /\ sweep[Home].pc = "idle"
  /\ Pool!Restart
  /\ UNCHANGED <<table, stage, mishaps>>

Crash ==
  /\ Pool!Crash
  /\ stage' = [w \in Workers |-> "none"]
  /\ sweep' = [sweep EXCEPT ![Home] = Recovery!Idle]
  /\ mishaps' = mishaps + 1
  /\ UNCHANGED <<jobs, aged, requeued>>

Next ==
  \/ \E j \in Jobs : Submit(j) \/ Age(j)
  \/ \E w \in Workers : WorkerLoop(w)
  \/ \E s \in Sweepers : Sweep(s)
  \/ Dispatcher \/ Promoter
  \/ Stop \/ Restart \/ Crash

Spec == Init /\ [][Next]_vars

\* The goroutines of the pool and the recovery loops go on, time passes, and a
\* worker process that was stopped is started again.
FairSpec ==
  /\ Spec
  /\ WF_vars(Dispatcher) /\ WF_vars(Promoter) /\ WF_vars(Restart)
  /\ \A w \in Workers : WF_vars(WorkerLoop(w))
  /\ \A s \in Sweepers : WF_vars(Sweep(s))
  /\ \A j \in Jobs : WF_vars(Age(j))

-----------------------------------------------------------------------------
\* What RecoveryService assumes of uploads, pools and attempts, they do.
RecoverySpec == Recovery!Spec

\* The status of every job lives the life that JobLifecycle promises: before a
\* sweep has enqueued it, a message that is retried, delivered beside another one
\* or met by a failing statement never takes a job up that is being processed or
\* is completed.
LifecycleSpec == Recovery!LifecycleSpec

\* The messages live the life that MessageLife promises, also those of recovery,
\* whose enqueue may fail after it was done.
MessageSpec == Pool!MessageSpec

\* A worker may still get to a message of the job.
OnItsWay(j) ==
  \/ \E m \in retry : JobOf(m) = j
  \/ Count(j, main) + Count(j, hand) + Count(j, channel) > 0
  \/ \E w \in Workers : JobOf(worker[w].msg) = j

DeadLettered(j) == \E m \in dead : JobOf(m) = j

Abandoned(j) == jobs[j].status = "failed" /\ ~OnItsWay(j) /\ ~DeadLettered(j)

\* As long as no Redis fault, Stop or crash came in between, a failed job will
\* be tried again or has used its attempts, whatever other messages of the job,
\* sweeps and failing statements did meanwhile.
FailedIsRetried == upsets = 0 => ~ \E j \in Jobs : Abandoned(j)

\* The runs of ProcessJob for a job: of each of its messages, the first, the
\* second, and so on.
Attempts(j) == UNION {{n} \X (1 .. runs[<<j, n>>]) : n \in 1 .. MaxSent}

\* Recovery starts a job over with all its attempts, each time it loses sight of
\* it: ProcessJob runs for a job MaxRetries + 1 times for its upload, and as
\* often again for each sweep its row was too old for and each upset.
AttemptsBounded ==
  \A j \in Jobs :
    Cardinality(Attempts(j)) <= (MaxRetries + 1) * (1 + aged[j] * Cardinality(Sweepers) + upsets)

\* Every job uploaded is completed or dead-lettered in the end, across faults,
\* a Stop or a crash.  Left behind are only a failed job whose message was
\* dropped (see RestartKeepsJobs), and one that needs another wait where
\* the bound grants none.
JobIsConcluded ==
  \A j \in Jobs :
    Exists(jobs, j) ~> \/ jobs[j].status = "completed" \/ DeadLettered(j) \/ Abandoned(j)
                       \/ Recovery!OutOfWaits(j) /\ ~OnItsWay(j)

\* "reinício da aplicação não perde job pendente" (TODO.md:53): a restart loses
\* no job, not one either whose attempt it interrupts.
RestartKeepsJobs == cancelled => ~ \E j \in Jobs : Abandoned(j)
=============================================================================
