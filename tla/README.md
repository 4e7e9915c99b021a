# Verification of go-hls-processor

TLA+ models of the video pipeline (upload, Redis queue, worker pool, conversion,
recovery), model-checked with TLC, with theorems about the core proved with
TLAPS. Paths are relative to the repository; `pool.go:253` means
`internal/worker/pool.go`, line 253.

## The system

A **server** process (`cmd/server`) accepts uploads and serves pages, statuses
and video files. Any number of **worker** processes (`cmd/worker`) convert the
videos. They share a database table (`jobs`), three Redis keys and a data
directory, and nothing else: every interaction goes through one of them.

```
 browser -- upload --> UploadService --INSERT--> jobs table <--UPDATE-- ProcessingService --ffmpeg--> data dir
                            |                        ^                        ^      |
                          RPUSH                    UPDATE                 ProcessJob  PUBLISH
                            v                        |                        |      v
                     main list (Redis) <--RPUSH-- RecoveryService      WorkerPool   SSE -> browser
                       |      ^                                          ^   |
                     BLPOP   RequeueDue (retry set)                      |   | handleFailure
                       +------|------------------------> dispatcher -----+   +--> retry set / dead-letter list
```

### Components

| component | state | operations | interacts with |
|---|---|---|---|
| jobs table, `internal/db/job_repo.go` | a row per job: status, output_dir, created_at, updated_at | `InsertJob`, `UpdateJobStatus` (unconditional), `TryMarkJobProcessing` (conditional), `UpdateJobOutputDir`, `DeleteJob`, the queries | everybody |
| processing, `processing_service.go`, `internal/ffmpeg` | the call in progress, the files of the job | `ProcessJob` | table, disk, progress events |
| worker pool, `pool.go` | the message in the dispatcher's hand, the channel, what each worker runs, the context | dispatcher, workers, `handleFailure`, retry promoter, recovery loop, `Start`, `Stop` | Redis, processing, recovery |
| queue, `internal/queue` | main list, retry sorted set, dead-letter list | `Enqueue`, `DequeueBlocking`, `EnqueueWithDelay`, `RequeueDue`, `Len` | upload, pool, recovery |
| recovery, `recovery_service.go` | two lists of jobs, a dedicated connection | `Recover` | table, main list |
| upload, `upload_service.go` | the request in progress | `UploadAndValidateFile`, with its rollback | disk, table, main list |
| progress, `tracker.go` | none in Redis (Pub/Sub keeps nothing); a subscription per browser | `Report`, `Done`, `Fail`, `ServeSSE` | processing, server, browser |
| the rest | | HTTP routes, metrics and their sampler, validator, migration, load test, page | |

### What is hard here

The database, Redis and the disk are updated one after the other with no
transaction over them, by processes that may die between any two steps.
`PROJECT.json` lists each hazard at its line; in short:

* *who holds a job*: several messages of a job (retries, recovery, repeated
  pushes) reach several workers; only `TryMarkJobProcessing` separates them, and
  all other writes of the status are unconditional;
* *recovery guesses*: it takes the age of a row, and the length of the main list,
  for signs that nobody works on a job; neither is one (a conversion does not
  touch its row; messages in the channel are not in the list);
* *messages travel*: a message leaves the list before anybody acts on it, and goes
  through a hand, a channel, a worker, a retry set and back;
* *errors are ambiguous*: a statement or a push that returned an error may have
  been done;
* *ends of things*: stop with a full channel, last attempt, batch limits, a
  single database connection.

### What makes each component correct

* table and processing: one holder for each time the job was made pending; a
  completed job stays so and has all its files; an announced end is true; the
  status moves only as its life allows;
* pool and queue: a message is in one place, is lost only through a fault, is
  tried at most `MaxRetries + 1` times and by one worker at a time, and never again
  after it ended; it settles in the end; `Stop` returns;
* recovery: what is left behind is found again; a job is enqueued once for each
  wait that ran out; a second attempt beside a first one needs a sweep's push and write;
* all of them together: a failed job is tried again, a job has no more attempts than
  its uploads and recoveries give it, and it is concluded in the end;
* the times of a retry: the delay doubles up to its cap, and no message comes early;
* upload: a row has its input; an accepted upload is complete; a rejected one has
  no row;
* progress: a page shows as completed only what is, and follows what it shows as under
  way; while it follows a job it gets to be subscribed, and an end that reached its
  subscription is shown.

## Modules

| module | models | status |
|---|---|---|
| `JobStore` | `job_repo.go`: the statements as operators on a table | done |
| `JobLifecycle` | abstract: the life of a status, disturbed by recovery; implemented by `ProcessingService`, `RecoveryService` and `Pipeline` | done |
| `ProcessingService` | `ProcessJob` of many workers; uploads, recovery, crashes around it | done |
| `RedisQueue` | messages and the Redis commands | done |
| `MessageLife` | abstract: the life of a message; implemented by `WorkerPool` and `Pipeline` | done |
| `WorkerPool` | dispatcher, workers, promoter, retries, `Stop`, crash | done |
| `RecoveryService` | `Recover` of several processes; pools and uploads around it | done |
| `UploadService` | uploads, rollback, crash of the server; workers around it | done |
| `Progress` | the worker's events, Pub/Sub, `ServeSSE`, the page that follows a job | done |
| `Pipeline` | upload, pool, `ProcessJob` and recovery over one table and one queue: composes `WorkerPool` and `RecoveryService` | done |
| `RetrySchedule` | `retryBackoff` with its overflow, the scores, `RequeueDue`, the clocks | done |
| `Sampler` | the server's sampler of rows and queues | done |
| `JobStoreLemmas`, and a `...Proofs` module for each of `ProcessingService`, `WorkerPool`, `RecoveryService`, `UploadService`, `Progress`, `RetrySchedule`, `Pipeline` | proofs | done |
| `MC*` | instances for TLC | done |

How state and actions correspond to the code:

**JobStore.** A row is a record of its status, whether `output_dir` is set, and
whether its `updated_at` (or `created_at`) is older than the cutoff recovery
applies to its status (`stale`). There are no clocks: a row may turn stale at any
time, every `UPDATE` makes it fresh, also the one of `output_dir`, which is `Touch` to
the modules that look at nothing else in it. Jobs are numbered by `created_at`, the order
of the recovery queries. `AfterError(tab, written)` is the set of tables an error
may leave: the statement done or not, since its context of five seconds can end
between the commit and the answer.

**ProcessingService.** `proc[w]` is the call worker `w` is in: `pc`, the job, how
many parts of the conversion are done, and the result once it has returned. One
action per external effect, in the order of the code: `TryMark` (the `UPDATE`),
`ReadStatus` (the `SELECT` that explains why it matched nothing: another statement,
another moment), `FetchJob`, `MakeOutputDir`, `StartPart`/`EndPart` (each rendition,
the master playlist, the thumbnail: a file is truncated when it is opened and whole
when it is closed), `SetOutputDir`, `MarkCompleted`, `AnnounceDone`, and on the way
out `MarkFailed`, `ReportFailure`. Each may fail where the code has an error return.
`files[j]` are the whole files of the job's directory, `feed[j]` the last event
published. The environment of a call (`SaveInput` ... `Crash`) is what other
components may do to the same row and directory, at any time: that is more than
they do, so what holds here holds of the system, for the statements that say
nothing about how often. `resets[j]` counts recovery's writes.

**JobLifecycle.** What the readers of the table are promised. The status of each row is
mapped to it, and as `disturbed` the jobs recovery took up: in `ProcessingService` those
it has written, in `RecoveryService` and `Pipeline` those it has enqueued, as a worker may
act on the message before the write. Disturbed jobs may become pending from anything, and
an attempt recovery overlooked may end over whatever the row has become. All others live
undisturbed.

**RedisQueue / WorkerPool.** `main`, `retry`, `dead` are the keys; `hand` is what the
dispatcher has popped and not yet sent; `channel` is `p.jobs`; `worker[w]` is where
a worker goroutine is and its message. `HandleFailure` increments the attempts and
writes to the retry set or the dead-letter list; under a cancelled context its write
fails and the message is dropped (`HandleFailureError`), as in the code. Scores and
delays are `RetrySchedule`'s: here any message of the retry set may be due. Two copies of one
payload, which a client that repeats an `RPUSH` makes, are two messages here.

**MessageLife.** What a publisher is promised: a message waits, is tried, and waits again or
ends (`acked`, `dead`, `lost`), with its tries counted. `Life(id)` of `WorkerPool` reads it
off the places a message may be in; the hand, the channel, the main list and the retry set
are all waiting. A message may be lost, with others, only once something went wrong, and
no step leads out of an end: that is the whole of what no acknowledgement leaves to say.

**RecoveryService.** `sweep[s]` is the call of a recovery loop: which step, what is
left of its two lists, and which rows turned stale after its cutoffs were computed
(they are not listed). One action per query, `LLEN`, push and write. The listing keeps
a connection (`Dedicated`), and a write needs one. The rest is the environment, and is
as much as the components do: a message of a job is in the main list, `taken` by a pool
or in `retry`, `holders` are the attempts that acquired the job and go on; messages may
be lost with a reply, dropped, or retried at any time, and attempts end in any way.

**Pipeline.** The pool's steps are `Pool!...` and those of a sweep `Recovery!...`, over
one table and one list; `taken`, `retry` and `holders` of `RecoveryService` are computed
from where the pool's messages are. `stage[w]` is where worker `w`'s `ProcessJob` is:
before the `UPDATE`, before the `SELECT`, holding the job, or holding it with `output_dir`
written; the conversion is one step with that write.
A sweep's push is the pool's `Enqueue`. `Home` is the recovery loop of the pool's own
process, whose context `Stop` cancels and which dies with it. `RecoverySpec` is
`RecoveryService!Spec` under this mapping: what recovery assumes of the rest is what the
rest does. (It did not hold at first: the message lost with the reply of a `BLPOP` was
missing in `RecoveryService`. And its `Promote` moved one message at a time where
`RequeueDue` moves up to `RetryMoveBatch`, so that it held only for a batch of one, the
run's; the proof found that, and the runs have a batch of two now.)

**RetrySchedule.** Time is an integer. A `time.Duration` has `Width` bits, and a product
that does not fit becomes the least integer (amd64) or the greatest (arm64): Go leaves it
open. `Power` is `math.Pow(2, _)`, a recursive function. `EnqueueWithDelay` clamps a negative delay and cuts the score to milliseconds of the
failing process's clock; `RequeueDue` compares with the clock of the sweeping one, in the
order of the scores, a batch at a time.

**Sampler.** `rows` and `size` are the table and the queues, which change while the sampler
goes from its one query through the gauges to one `LLEN` per queue. `rowsSeen` and
`sizeSeen` are what there was since the sample began.

**UploadService.** `upload[j]` is where the request that creates job `j` is; `disk[j]`
what is in its directory; `queued` the jobs with a message. `spoiled` remembers the two
ways a rollback cannot work: an insert that hid its commit, a `DELETE` that failed.

**Progress.** One job and one page. `stream` is the handler of the page's request,
`inbox` what its Redis subscription has received, `wire` what it has written and the
page has not read, `source` the page's `EventSource`. `Publish` reaches only a
subscription that exists, and may be lost. `late` is the write deadline of the response.
`loads` are lists on their way to the page: they arrive in any order, and after events
that are newer. `Flushable` is whether the writer `ServeSSE` gets is an `http.Flusher`:
it is not behind `MetricsMiddleware`, whose `statusRecorder` has no `Flush`.

## Runs

| run | bounds | shows |
|---|---|---|
| `processing` | 3 workers in two processes, 1 job, 2 renditions, 1 recovery write | `ActiveBounded`, `CompletedIsPlayable`, `DoneIsCompleted`, `CompletedIsFinal`, `TypeOK`; `LifecycleSpec`: implements `JobLifecycle` |
| `processing_skip` | 3 workers in two processes, 1 rendition, no recovery write | **violated**: `SkipOnlyWhenHandled` |
| `pool` | 2 workers, 3 messages, buffer 1, 1 retry, batch 2, 2 upsets | `AtMostOnePlace`, `NothingLost`, `RetryLimit`, `EveryMessageSettles`, `StopReturns`, `TypeOK`; `MessageSpec`: implements `MessageLife` |
| `recovery` | 2 sweepers, 2 jobs (two sweeps over one row, or one over two), batch 1, retry batch 2, 1 connection, each row stale once, 1 upset | `ReenqueueBounded`, `HoldersBounded`, `OrphanIsRecovered`, `TypeOK`; `LifecycleSpec`: implements `JobLifecycle` |
| `recovery_double` | 1 sweeper, 1 job, no upset | **violated**: `NoDoubleProcessing` |
| `upload` | 2 uploads | `RowHasInput`, `AcceptedIsReady`, `RejectedLeavesNoRow`, `TypeOK` |
| `progress_stream` | 2 reports, 1 failure, 1 refresh, 1 broken connection; a writer that flushes | `ShownIsTrue`, `UnderWayIsFollowed`, `FollowerIsSubscribed`, `EndIsShown`, `TypeOK` |
| `progress_wiring` | 1 report; a writer that does not flush | **violated**: `FollowerIsSubscribed` |
| `pipeline` | 1 job, 3 messages, 2 workers, buffer 1, 1 retry, batch 2, its row stale once, 1 upset | `FailedIsRetried`, `AttemptsBounded`, `JobIsConcluded`, `TypeOK`; `RecoverySpec`, `LifecycleSpec`, `MessageSpec`: implements `RecoveryService`, `JobLifecycle` and `MessageLife` |
| `pipeline_restart` | 1 job, 1 message, 1 worker, 1 upset | **violated**: `RestartKeepsJobs` |
| `retry_schedule` | 2 messages, 2 processes, 4 retries, 5-bit durations, 2 ticks to the millisecond, clocks 1 apart | `DelayDoubles`, `NeverEarly`, `RetryComes`, `TypeOK` |
| `sampler` | 2 statuses, counts up to 1, 1 fault | **violated**: `GaugesAreSampled` |

*Why these bounds are enough.* Jobs of different names share nothing in processing
and upload but the worker they occupy, so one job (two uploads) with several workers
shows the races. Three workers are one to hold the job, one to acquire it after a
reset and one to read its status in between. In the pool, a message in the channel and
one in the hand fill it when the workers have left, and the third is at a worker or in
Redis; a second upset can hit what the first one set in motion. In recovery a batch of one
with two rows makes a sweep leave a row for the next; two sweeps at once matter over
the same row (`MaxLoad` leaves out two sweeps over two rows). In the pipeline three
messages are an upload's and two of a recovery. One failure and one refresh put three
lists and two ends of an attempt in flight at once. In the schedule base 3 and cap 7 give
3, 6, 7 and, at the fourth attempt, a product that does not fit; two ticks to the
millisecond are the least that UnixMilli can cut. The theorems below remove the bounds for
the safety of every component, by itself and in the pipeline; those of liveness stay.

Every bound on behaviour is a guard: `MaxAged`, `MaxUpsets`, `MaxLoad`, `MaxSent`,
`MaxResets`, `LastFailure` and those of `Progress`. Two of the liveness properties name
theirs: a job whose message is lost just before the sweep writes `pending` needs another
wait, and `OutOfWaits` says that `MaxAged` does not grant it. The runs let a row turn stale
once, so that in them such a job is excused when its first recovery was in vain; that a
second wait repairs it is not checked. What is checked is the first recovery itself,
whatever crashes, fails or is left in a full batch before it.

Three more exceptions are in properties because the code promises nothing there.
`CompletedIsPlayable`, `DoneIsCompleted` and `CompletedIsFinal` are of jobs recovery has
not written: after its write two attempts may be alive (`recovery_double`). The properties
of uploads except the rows that are `spoiled`, which a failed `DELETE` leaves. `EndIsShown`
starts at the subscription: Pub/Sub forgets an end that was published before it.

Deadlock is checked in every run but `upload`, whose requests all end,
`progress_*`, in which the job and the page come to rest, and `retry_schedule`, whose
clock ends.

### The disagreements

* `processing_skip`. The comment of `TryMarkJobProcessing` (`job_repo.go:50-52`) says
  that a job not acquired is being processed by another worker or has been concluded.
  After an attempt that ended without a last write (its `GetJobByID` failed, its
  process died), the row says processing, nobody is, and the retry is skipped with
  success and its message consumed. Recovery repairs this, after its cutoff.
* `recovery_double`. `TODO.md:142` claims that no job is processed twice in the face of
  recovery. A conversion longer than 120 seconds is made pending by recovery while it
  runs, and a second worker acquires the job: two ffmpeg write the same files.
* `progress_wiring`. `README.md:230` lists the stream of progress. The server wraps every
  response writer in one without `Flush` (`main.go:160`, `metrics.go:103`), and `ServeSSE`
  answers 500 to such a writer, which closes the `EventSource`. `progress_stream` shows
  what the stream does with a writer that flushes.

* `pipeline_restart`. `TODO.md:53` claims that a restart loses no pending job. The context
  `Stop` cancels is the one conversions run under and the one `handleFailure` enqueues
  with: the attempts a stop interrupts are written `failed` (with a context of their own)
  and their messages are dropped. Recovery looks for no failed rows. `FailedIsRetried` and
  `JobIsConcluded` say that this needs a Redis fault, a stop or a crash, and that
  nothing else is left behind.
* `sampler`. The gauge of the retry queue can only be 0: it is measured with `LLEN`, and the
  key is a sorted set. With a command for sorted sets in its place the invariant holds:
  the other queues and the statuses are shown as they were during the sample.

Two more, met while modelling and not given a run. `TODO.md:138` claims that there is no
duplicate re-enqueue under a backlog, but jobs that wait in a pool's channel for 15
seconds with an empty main list are enqueued again (`recovery_service.go:70`);
`ReenqueueBounded` is what holds. The comment of `ServeSSE` (`tracker.go:72`) says that it
ends when the job does; a stream that subscribes after the end was published waits until
the browser leaves.

### Fairness

`WorkerPool!FairSpec` is weak fairness of each goroutine's next step: the Go
scheduler runs what can run, `BLPOP` returns within its timeout, the promoter's ticker
fires, and `ProcessJob` returns because its context ends after `JobTimeout`. Nothing
forces an upload, a fault or a stop. `EveryMessageSettles` is stated for behaviours in
which nothing goes wrong around the pool, as the queue has no acknowledgements.
`RecoveryService!FairSpec` has weak fairness of the sweeps, of the pools taking what is
queued and of time passing; an attempt need not end.
`Pipeline!FairSpec` has all of these, and that a worker process that was stopped is
started again, by whoever runs it (`dev.sh` does not): without a worker process no job
is ever concluded. `RetrySchedule!FairSpec`: time passes and the promoters' tickers fire.
`Progress!FairSpec`: requests are served, the handler and the page act on what they
have, timers fire, lists arrive (or their errors), and an attempt that has ended
publishes its end. An attempt need not end, and the deadline need not pass.

## Proofs

Those of the processing core are for any sets of workers, processes and jobs and any
number of renditions. Assumptions: `WorkersAssumption` (the workers are finitely many and a
process is a set of them), `QualitiesAssumption` (at least one rendition),
`ResetsAssumption`.

* `TypeCorrect`: `Spec => []TypeOK`. `TypeOK` is inductive because it also places a
  call in the conversion by its progress (`Positioned`).
* `HoldersBounded`: `Spec => []ActiveBounded`. The bound is not inductive: a job that
  may be acquired is a holder to come. `HolderInv` bounds the *claims* on a job, its
  holders and one more if its row is markable, by `resets + 1`. Acquiring turns the
  free claim into a holder; a failing holder gives its claim back when it writes
  `failed`; only an insert (from none) and recovery's write make a claim. The insert
  needs the conjunct that no call is about a job without a row. The step of
  each action is summarised first (`StepSummary`), then counted.
* `CompletedStays`, from the same invariant: without resets, a completed job with a
  holder would be a holder beside a completed row, and `Exclusive` says that the only
  holder of such a job has it processing or deleted.
* `ImplementsLifecycle`: each action maps to a step of `JobLifecycle` or leaves the
  status as it is. For a job recovery has not written, an unconditional write is a legal
  one because its writer is the holder of a processing row; for the others the life
  allows a late end. Recovery's write is the life's `Reset`.
* `DoneIsTrue` and `CompletedPlays` have their own inductive invariants on top: the
  event follows the write of `completed`, and the parts a holder counts as done are on
  disk, as nobody else truncates them.
* `RetryScheduleProofs`, for any base, cap, width, batch and clocks (`ScheduleAssumption`:
  what `NewPool` makes of the configuration). `TypeCorrect` has in `Entry` that a delay is
  between none and the cap; `BackoffCapped` is the reason, whatever an overflow becomes.
  `Punctual`: `Spec => NeverEarly`, by the invariant `ScoreCovers`, that a score is less
  than a millisecond short of the end of its delay, and the floor `UnixMilli` takes.
  `DelaysDouble`: `Spec => []DelayDoubles`. `Power` and `Backoff` are recursive functions,
  and an induction over their argument is out of the provers' reach. It is not needed for
  `Power`: a set of naturals that is not empty has a least element (`LeastNumber`), so
  what fails somewhere fails first somewhere, and the step before shows it does not. That
  way the doublings up to each `n` exist (`DoublingExists`) and agree (`DoublingUnique`);
  joined, they are a function with the equation that defines `Power` (`PowerIs`).
  From it `BackoffIs`: the backoff of attempt `n` is the product, cut at the cap.
* `UploadServiceProofs`, for any set of jobs and without an assumption: `InputIsKept`,
  `AcceptedStaysReady` and `RejectedIsGone`, which are `RowHasInput`, `AcceptedIsReady`
  and `RejectedLeavesNoRow`. They say nothing of requests that go on, so they are not
  inductive; `Kept` says for each step of a request what its row and its directory
  have: no row before the insert, the input from the save on, both while publishing,
  and after the rollback's DELETE no row unless the job is `spoiled`. A crash ends
  requests at any step and needs only the last conjunct.
* `WorkerPoolProofs`, for any workers, jobs, messages, buffer, batch and upsets
  (`PoolAssumption`, `RedisAssumption`): `NeverTwice` (`AtMostOnePlace`), `NeverLost`
  (`NothingLost`), `RetriesLimited` (`RetryLimit`). They are proved together, as none is
  inductive without the others. `Conserved` counts the occurrences of an id over the six
  places; each action moves one from place to place, which the lemmas on the counts of
  lists, sets and workers add up (`InConcat`, `AtWorkersChange`, ...). `Causes` says that
  a goroutine returns only after a Stop, and a Stop is an upset: without it a `Restart`,
  which drops the channel, could lose a message while nothing went wrong. `Tries` relates
  the runs of an id to the attempts its message carries; it needs that the message is in
  one place, as the second copy's count would be behind when the first one is tried.
  Promoting takes a batch of any size out of the retry set, so `Finite` is there for the
  cardinalities.
  `ImplementsMessageLife`: `Spec => MessageSpec`. Under the invariant the places exclude one
  another (`Apart`), so one place says what life a message leads (`LifeIs`). A step moves one
  message on (`Moves`: publishing, taking, the end of a try), moves waiting ones about
  (`Waited`), or only takes messages away after something went wrong (`Loses`). That a
  message taken has tries left, and one buried has none, is `Tries`.
* `RecoveryServiceProofs`, for any jobs, sweepers, batch, connections and bounds
  (`RecoveryAssumption`): `EnqueuesBounded` is `ReenqueueBounded`. A call that has a job on
  a list, or that may still list it because its row is stale, owes an enqueue;
  `Paid` bounds what was enqueued *and* what is owed, by `aged * |Sweepers| + upsets`. A row
  that ages gives every sweeper a debt at once; a push pays one; a push that is cut short
  may have been done and leaves a row stale, which an upset pays for. What a step may change
  of the account is `Settles`, which the pipeline's proofs use again. `OnceListed` keeps a
  job off the second list of a call that has it on the first: a row that changed its
  status in between is fresh, or has aged after the cutoffs. `StaleIsActive` has rows that
  age only while they wait. `HoldersStayBounded` is `HoldersBounded`: what makes a second
  attempt possible is a row that may be acquired, or a write of `pending` a sweep still owes
  after its push (`Writing`); `GrantInv` bounds the holders, the owed writes and the free row
  together by one more than `requeued`. `ImplementsLifecycle` is `LifecycleSpec`, by the same
  invariant: of a job no sweep has enqueued, a holder is the only one, and its row is
  processing. Typing needs that the write of a row always gets a
  connection, as the listing's is closed before the loops.
* `ProgressProofs`, for any number of reports, failures, refreshes and broken connections
  (`ProgressAssumption`): `PageTellsTheTruth` is `ShownIsTrue`. `Truthful` says it of
  everything that may reach the page: the event to come, those in the subscription and
  on the wire, and the lists. They may overtake one another because a row never
  leaves `completed`. `UnderWayStaysFollowed` is `UnderWayIsFollowed`: what closes the
  `EventSource` shows an end or the list that opens another.
* `PipelineProofs`, for any jobs, workers, sweepers, messages and faults
  (`SystemAssumption`: the finiteness and the ranges the other modules assume, and that
  `Home` is a sweeper). `ImplementsRecovery` is `Spec => RecoverySpec`. Three ideas carry it.
  *The pool's invariant holds here too* (`PoolKept`): its steps are `WorkerPool`'s, but for a
  sweep whose `RPUSH` was done and reported as failed, which is an upset and an `Enqueue`
  in one, and is split in these two. *What recovery sees is a count* (`Seen`): moving a
  message adds one to and takes one from `Queued`, `Taken`, `Retrying` and `Holders`, and
  `StepSeen` maps each step, one lemma per action, to a step of recovery or a stutter;
  that needs `Staged`, where a call of `ProcessJob` may be. *Its upsets are few enough*
  (`Accounted`): recovery's bound on them must hold of the messages retried and the
  sweeps cut short here, and those are not bounded by the pool's upsets alone. Each retry
  uses up an attempt that nobody can make again (`Retried`, at most `MaxRetries` for each
  message), and each sweep cut short is an upset or the one that a cancelled context
  (`Cut`) may still cause.
  `AttemptsStayBounded` is `AttemptsBounded`. `Counted` says that a job has no more messages
  than its upload and recovery's enqueues, `Repaid` is recovery's account with the pool's
  upsets in the place of its own, as a retry makes no sweep enqueue: each mishap but a retry
  comes with an upset or ends a sweep that was cut (`MishapPaid`). A message's runs are the
  pool's `Tries`. `OnlyUpsetsAreRepaid` is the bound on the enqueues by itself.
  `EnqueuesBounded`, `HoldersStayBounded`, `ImplementsLifecycle` and `PoolStaysCorrect` carry
  the promises of recovery and the pool over to the whole system; `ImplementsMessageLife`
  does so for the life of messages, where a sweep's error may publish one.
  `FailedIsTriedAgain` is `FailedIsRetried`, by `FailedIsOpen`: a failed job has a published
  message that no worker acknowledged. It holds under faults too, because `ProcessJob`
  acknowledges a message only with the job completed or in another attempt's hands, and only
  an attempt writes `failed`; without an upset the pool's invariant says that such a message
  is somewhere.

`JobStoreLemmas` states what the statements do to types, to other rows, to the status
and to `output`, once, and the proofs of the processing
core and of the upload cite it. The inductive invariants were model-checked before they
were proved.

Every invariant and every refinement the passing runs check is proved.

*Only model-checked*: everything temporal under fairness, which rests on ENABLED:
`EveryMessageSettles`, `StopReturns`, `OrphanIsRecovered`, `EndIsShown`,
`FollowerIsSubscribed`, `RetryComes`, `JobIsConcluded`. The disagreements, which do not hold.

## Not modelled, and why

Rows read for single statuses, routing, asset serving, configuration, error texts and
logs, counters and histograms: nothing the properties speak of changes there. The arguments
of ffmpeg and the text of the playlists. The validator and the errors package, pure and
unit-tested. The load test. The migration (`cmd/migrate`): a one-shot command, run before
the processes start; of two at once that both find it missing one fails to record the
version and rolls back, which leaves the schema as it should be.

## What is left open

* The liveness properties hold of the bounded runs only. `OrphanIsRecovered` and
  `JobIsConcluded` would be the ones to prove first, by the account of `RecoveryService`.
* What a scrape of `/metrics` sees between `setZeroStatuses` and the counts, and two
  migrations at once, have no property: no document says what they owe.
* After a failure a page may show `failed` for good although the job is retried:
  `UnderWayIsFollowed` speaks of what it shows as under way. Whether that is intended is
  written nowhere.
