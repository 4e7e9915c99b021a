--------------------------- MODULE PipelineProofs ---------------------------
(***************************************************************************)
(* Proofs about Pipeline, for any jobs, workers, sweepers and bounds.      *)
(*                                                                         *)
(* Its steps are the pool's and those of a sweep, so that the invariants   *)
(* proved of WorkerPool hold in it, and RecoverySpec brings those of       *)
(* RecoveryService.                                                        *)
(***************************************************************************)
EXTENDS Pipeline, FiniteSetTheorems, SequenceTheorems, TLAPS

PoolP == INSTANCE WorkerPoolProofs

RecoveryP == INSTANCE RecoveryServiceProofs
  WITH main <- Queued, taken <- Taken, retry <- Retrying, holders <- Holders,
       upsets <- mishaps,
       MaxUpsets <- MaxUpsets + MaxRetries * MaxSent * Cardinality(Jobs),
       MaxLoad <- Cardinality(Sweepers) * Cardinality(Jobs)

-----------------------------------------------------------------------------
\* The assumptions of the two modules.

LEMMA CardinalityIs ==
  \A S : Recovery!Cardinality(S) = Cardinality(S) /\ RecoveryP!Cardinality(S) = Cardinality(S)
BY DEF Recovery!Cardinality, RecoveryP!Cardinality, Cardinality

LEMMA JobCount ==
  /\ Cardinality(Jobs) \in Nat \ {0} /\ Cardinality(Sweepers) \in Nat \ {0}
  /\ MaxRetries * MaxSent * Cardinality(Jobs) \in Nat
  /\ Cardinality(Sweepers) * Cardinality(Jobs) \in Nat \ {0}
<1>1. \A S : IsFiniteSet(S) /\ S # {} => Cardinality(S) \in Nat \ {0}
  BY FS_CardinalityType, FS_EmptySet
<1>2. Cardinality(Jobs) \in Nat \ {0} /\ Cardinality(Sweepers) \in Nat \ {0}
  BY <1>1, SystemAssumption
<1>3. \A a, b \in Nat \ {0} : a * b \in Nat \ {0}
  OBVIOUS
<1>4. MaxRetries \in Nat \ {0} /\ MaxSent \in Nat \ {0}
  BY SystemAssumption
<1>5. MaxRetries * MaxSent \in Nat \ {0}
  BY <1>3, <1>4
<1>6. (MaxRetries * MaxSent) * Cardinality(Jobs) \in Nat \ {0}
  BY <1>2, <1>3, <1>5
<1> QED BY <1>2, <1>3, <1>6

LEMMA PoolAssumed == PoolP!RedisAssumption /\ PoolP!PoolAssumption
<1>1. PoolP!IsFiniteSet(Workers)
  BY SystemAssumption DEF PoolP!IsFiniteSet, IsFiniteSet
<1> QED BY <1>1, SystemAssumption, JobsAssumption DEF PoolP!RedisAssumption, PoolP!PoolAssumption

LEMMA RecoveryAssumed == RecoveryP!JobsAssumption /\ RecoveryP!RecoveryAssumption
<1>1. RecoveryP!IsFiniteSet(Sweepers)
  BY SystemAssumption DEF RecoveryP!IsFiniteSet, IsFiniteSet
<1>2. MaxUpsets + MaxRetries * MaxSent * Cardinality(Jobs) \in Nat
  BY JobCount, SystemAssumption
<1> QED BY <1>1, <1>2, JobCount, SystemAssumption, JobsAssumption
        DEF RecoveryP!JobsAssumption, RecoveryP!RecoveryAssumption

-----------------------------------------------------------------------------
(* The pool.                                                               *)

Trying(id) == \E w \in Workers : worker[w].msg.id = id

LEMMA PoolFacts ==
  ASSUME PoolP!PoolInv
  PROVE  /\ Pool!TypeOK /\ IsFiniteSet(retry)
         /\ exited # {} => cancelled
         /\ cancelled => upsets > 0
         /\ \A w \in Workers : worker[w].msg # Pool!NoMessage =>
              LET m == worker[w].msg IN
              /\ m \in Pool!Message
              /\ m.attempts <= MaxRetries /\ runs[m.id] = m.attempts + 1
              /\ \A v \in Workers \ {w} : worker[v].msg.id # m.id
         /\ channel # <<>> =>
              LET m == Head(channel) IN
              /\ m \in Pool!Message /\ Tail(channel) \in Seq(Pool!Message)
              /\ ~Trying(m.id)
<1>1. Pool!TypeOK
  BY DEF PoolP!PoolInv, PoolP!TypeOK, Pool!TypeOK, PoolP!Message, Pool!Message, PoolP!Ids, Pool!Ids,
         PoolP!Task, Pool!Task, PoolP!NoMessage, Pool!NoMessage
<1>2. (exited # {} => cancelled) /\ (cancelled => upsets > 0) /\ IsFiniteSet(retry)
  BY DEF PoolP!PoolInv, PoolP!Causes, PoolP!Finite, PoolP!IsFiniteSet, IsFiniteSet
<1>3. ASSUME NEW w \in Workers, worker[w].msg # Pool!NoMessage
      PROVE  LET m == worker[w].msg IN
             /\ m \in Pool!Message
             /\ m.attempts <= MaxRetries /\ runs[m.id] = m.attempts + 1
             /\ \A v \in Workers \ {w} : worker[v].msg.id # m.id
  <2>1. worker[w].msg # PoolP!NoMessage
    BY <1>3 DEF PoolP!NoMessage, Pool!NoMessage
  <2>2. worker[w].msg \in Pool!Message
    BY <1>1, <1>3 DEF Pool!TypeOK, Pool!Task
  <2>3. worker[w].msg.attempts <= MaxRetries /\ runs[worker[w].msg.id] = worker[w].msg.attempts + 1
    BY <2>1 DEF PoolP!PoolInv, PoolP!Tries, PoolP!InTry
  <2>4. \A v \in Workers \ {w} : worker[v].msg.id # worker[w].msg.id
    BY <2>1, PoolAssumed, PoolP!BusyAlone
  <2> QED BY <2>2, <2>3, <2>4
<1>4. ASSUME channel # <<>>
      PROVE  LET m == Head(channel) IN
             /\ m \in Pool!Message /\ Tail(channel) \in Seq(Pool!Message)
             /\ ~Trying(m.id)
  <2>1. Head(channel) \in Pool!Message /\ Tail(channel) \in Seq(Pool!Message)
    BY <1>1, <1>4, HeadTailProperties DEF Pool!TypeOK
  <2>2. \A v \in Workers : worker[v].msg.id # Head(channel).id
    BY <1>4, PoolAssumed, PoolP!HeadAlone
  <2> QED BY <2>1, <2>2 DEF Trying
<1> QED BY <1>1, <1>2, <1>3, <1>4

\* The two names of each step.
LEMMA PoolSteps ==
  /\ \A j : Pool!Enqueue(j) <=> PoolP!Enqueue(j)
  /\ Pool!Dispatcher <=> PoolP!Dispatcher
  /\ \A w : Pool!Take(w) <=> PoolP!Take(w)
  /\ \A w : Pool!WorkerExit(w) <=> PoolP!WorkerExit(w)
  /\ \A w : Pool!HandleFailure(w) <=> PoolP!HandleFailure(w)
  /\ \A w : Pool!HandleFailureError(w) <=> PoolP!HandleFailureError(w)
  /\ \A w, ok : Pool!Processed(w, ok) <=> PoolP!Processed(w, ok)
  /\ Pool!Promote <=> PoolP!Promote
  /\ Pool!PromoterExit <=> PoolP!PromoterExit
  /\ Pool!Stop <=> PoolP!Stop
  /\ Pool!Restart <=> PoolP!Restart
  /\ Pool!Crash <=> PoolP!Crash
<1>1. \A j : Pool!Enqueue(j) <=> PoolP!Enqueue(j)
  BY DEF Pool!Enqueue, PoolP!Enqueue, Pool!RPush, PoolP!RPush, Pool!NewMessage, PoolP!NewMessage,
         Pool!pool, PoolP!pool
<1>2. Pool!Dispatcher <=> PoolP!Dispatcher
  <2>1. Pool!Dequeue <=> PoolP!Dequeue
    BY DEF Pool!Dequeue, PoolP!Dequeue, Pool!Closed, PoolP!Closed
  <2>2. Pool!DequeueError <=> PoolP!DequeueError
    BY DEF Pool!DequeueError, PoolP!DequeueError, Pool!Closed, PoolP!Closed, Pool!Upset,
           PoolP!Upset, Pool!pool, PoolP!pool
  <2>3. Pool!DequeueTimeout <=> PoolP!DequeueTimeout
    BY DEF Pool!DequeueTimeout, PoolP!DequeueTimeout, Pool!Closed, PoolP!Closed, Pool!vars,
           PoolP!vars, Pool!redis, PoolP!redis, Pool!pool, PoolP!pool
  <2>4. Pool!Dispatch <=> PoolP!Dispatch
    BY DEF Pool!Dispatch, PoolP!Dispatch, Pool!redis, PoolP!redis
  <2>5. Pool!DispatcherExit <=> PoolP!DispatcherExit
    BY DEF Pool!DispatcherExit, PoolP!DispatcherExit, Pool!Closed, PoolP!Closed, Pool!redis, PoolP!redis
  <2> QED BY <2>1, <2>2, <2>3, <2>4, <2>5 DEF Pool!Dispatcher, PoolP!Dispatcher
<1>3. \A w : Pool!Take(w) <=> PoolP!Take(w)
  BY DEF Pool!Take, PoolP!Take, Pool!redis, PoolP!redis
<1>4. \A w : Pool!WorkerExit(w) <=> PoolP!WorkerExit(w)
  BY DEF Pool!WorkerExit, PoolP!WorkerExit, Pool!Closed, PoolP!Closed, Pool!redis, PoolP!redis
<1>5. \A w : Pool!HandleFailure(w) <=> PoolP!HandleFailure(w)
  BY DEF Pool!HandleFailure, PoolP!HandleFailure, Pool!PutBack, PoolP!PutBack, Pool!Bumped,
         PoolP!Bumped, Pool!Waiting, PoolP!Waiting, Pool!NoMessage, PoolP!NoMessage
<1>6. \A w : Pool!HandleFailureError(w) <=> PoolP!HandleFailureError(w)
  BY DEF Pool!HandleFailureError, PoolP!HandleFailureError, Pool!PutBack, PoolP!PutBack, Pool!Bumped,
         PoolP!Bumped, Pool!Waiting, PoolP!Waiting, Pool!NoMessage, PoolP!NoMessage,
         Pool!Upset, PoolP!Upset, Pool!redis, PoolP!redis
<1>7. \A w, ok : Pool!Processed(w, ok) <=> PoolP!Processed(w, ok)
  BY DEF Pool!Processed, PoolP!Processed, Pool!Waiting, PoolP!Waiting, Pool!NoMessage,
         PoolP!NoMessage, Pool!redis, PoolP!redis
<1>8. Pool!Promote <=> PoolP!Promote
  BY DEF Pool!Promote, PoolP!Promote, Pool!Batches, PoolP!Batches, Pool!Members, PoolP!Members,
         Pool!pool, PoolP!pool
<1>9. Pool!PromoterExit <=> PoolP!PromoterExit
  BY DEF Pool!PromoterExit, PoolP!PromoterExit, Pool!redis, PoolP!redis
<1>10. Pool!Stop <=> PoolP!Stop
  BY DEF Pool!Stop, PoolP!Stop, Pool!Upset, PoolP!Upset, Pool!redis, PoolP!redis
<1>11. Pool!Fresh <=> PoolP!Fresh
  BY DEF Pool!Fresh, PoolP!Fresh, Pool!Waiting, PoolP!Waiting, Pool!NoMessage, PoolP!NoMessage
<1>12. Pool!Restart <=> PoolP!Restart
  BY <1>11 DEF Pool!Restart, PoolP!Restart, Pool!Stopped, PoolP!Stopped, Pool!redis, PoolP!redis
<1>13. Pool!Crash <=> PoolP!Crash
  BY <1>11 DEF Pool!Crash, PoolP!Crash, Pool!Upset, PoolP!Upset, Pool!redis, PoolP!redis
<1> QED BY <1>1, <1>2, <1>3, <1>4, <1>5, <1>6, <1>7, <1>8, <1>9, <1>10, <1>12, <1>13

-----------------------------------------------------------------------------
(* Recovery.                                                               *)

LEMMA RecoveryFacts ==
  ASSUME RecoveryP!SweepInv
  PROVE  /\ Recovery!TypeOK
         /\ \A s \in Sweepers : sweep[s].pc = "enqueue" => Recovery!Current(s) \in Jobs
<1>1. Recovery!TypeOK
  BY DEF RecoveryP!SweepInv, RecoveryP!TypeOK, Recovery!TypeOK, RecoveryP!Row, Recovery!Row,
         RecoveryP!Status, Recovery!Status, RecoveryP!Absent, Recovery!Absent,
         RecoveryP!Sweep, Recovery!Sweep
<1>2. ASSUME NEW s \in Sweepers, sweep[s].pc = "enqueue" PROVE Recovery!Current(s) \in Jobs
  <2>1. RecoveryP!TypeOK /\ sweep[s].processing \cup sweep[s].pending # {}
    BY <1>2 DEF RecoveryP!SweepInv, RecoveryP!TypeOK
  <2>2. RecoveryP!Current(s) \in Jobs
    BY <2>1, RecoveryP!CurrentIsListed, RecoveryAssumed
  <2> QED BY <2>2 DEF RecoveryP!Current, Recovery!Current, RecoveryP!Min, Recovery!Min
<1> QED BY <1>1, <1>2

LEMMA RecoverySteps == [Recovery!Next]_Recovery!vars <=> [RecoveryP!Next]_RecoveryP!vars
<1>1. \A s : Recovery!Begin(s) <=> RecoveryP!Begin(s)
  BY CardinalityIs
  DEF Recovery!Begin, RecoveryP!Begin, Recovery!Load, RecoveryP!Load, Recovery!Sweeps,
      RecoveryP!Sweeps, Recovery!Rows, RecoveryP!Rows, Recovery!Goto, RecoveryP!Goto,
      Recovery!Exists, RecoveryP!Exists, Recovery!Status, RecoveryP!Status,
      Recovery!messages, RecoveryP!messages, Recovery!history, RecoveryP!history
<1>2. /\ \A s, p, q : Recovery!Continue(s, p, q) <=> RecoveryP!Continue(s, p, q)
      /\ \A s : Recovery!Return(s) <=> RecoveryP!Return(s)
      /\ \A s : Recovery!Current(s) = RecoveryP!Current(s)
      /\ Recovery!Upset <=> RecoveryP!Upset
  BY DEF Recovery!Continue, RecoveryP!Continue, Recovery!Return, RecoveryP!Return, Recovery!Goto,
         RecoveryP!Goto, Recovery!Idle, RecoveryP!Idle, Recovery!Current, RecoveryP!Current,
         Recovery!Min, RecoveryP!Min, Recovery!Upset, RecoveryP!Upset
<1>3. \A tab, st, young : Recovery!ListStuck(tab, st, young, BatchSize)
                            = RecoveryP!ListStuck(tab, st, young, BatchSize)
  BY CardinalityIs DEF Recovery!ListStuck, RecoveryP!ListStuck
<1>4. /\ \A tab, j, st : Recovery!UpdateJobStatus(tab, j, st) = RecoveryP!UpdateJobStatus(tab, j, st)
      /\ \A tab, j : Recovery!Markable(tab, j) <=> RecoveryP!Markable(tab, j)
      /\ \A tab, j : Recovery!Exists(tab, j) <=> RecoveryP!Exists(tab, j)
  BY DEF Recovery!UpdateJobStatus, RecoveryP!UpdateJobStatus, Recovery!Markable, RecoveryP!Markable,
         Recovery!Exists, RecoveryP!Exists, Recovery!Status, RecoveryP!Status
<1>5. /\ \A tab, j : Recovery!MarkProcessing(tab, j) = RecoveryP!MarkProcessing(tab, j)
      /\ \A tab, tab2 : Recovery!AfterError(tab, tab2) = RecoveryP!AfterError(tab, tab2)
  BY <1>4 DEF Recovery!MarkProcessing, RecoveryP!MarkProcessing, Recovery!AfterError, RecoveryP!AfterError
<1>6. \A s : Recovery!ListProcessing(s) <=> RecoveryP!ListProcessing(s)
  BY <1>3 DEF Recovery!ListProcessing, RecoveryP!ListProcessing, Recovery!Goto, RecoveryP!Goto,
     Recovery!messages, RecoveryP!messages, Recovery!history, RecoveryP!history
<1>7. \A s : Recovery!MeasureQueue(s) <=> RecoveryP!MeasureQueue(s)
  BY <1>2 DEF Recovery!MeasureQueue, RecoveryP!MeasureQueue, Recovery!Goto, RecoveryP!Goto,
     Recovery!messages, RecoveryP!messages, Recovery!history, RecoveryP!history
<1>8. \A s : Recovery!ListPending(s) <=> RecoveryP!ListPending(s)
  BY <1>2, <1>3 DEF Recovery!ListPending, RecoveryP!ListPending,
     Recovery!messages, RecoveryP!messages, Recovery!history, RecoveryP!history
<1>9. \A s : Recovery!ListingError(s) <=> RecoveryP!ListingError(s)
  BY <1>2 DEF Recovery!ListingError, RecoveryP!ListingError, Recovery!messages, RecoveryP!messages
<1>10. \A s : Recovery!Requeue(s) <=> RecoveryP!Requeue(s)
  BY <1>2 DEF Recovery!Requeue, RecoveryP!Requeue, Recovery!Add, RecoveryP!Add
<1>11. \A s : Recovery!EnqueueNext(s) <=> RecoveryP!EnqueueNext(s)
  BY <1>10 DEF Recovery!EnqueueNext, RecoveryP!EnqueueNext, Recovery!Goto, RecoveryP!Goto
<1>12. \A s : Recovery!EnqueueError(s) <=> RecoveryP!EnqueueError(s)
  BY <1>2, <1>10 DEF Recovery!EnqueueError, RecoveryP!EnqueueError, Recovery!messages, RecoveryP!messages
<1>13. \A s : Recovery!HasConnection(s) <=> RecoveryP!HasConnection(s)
  BY DEF Recovery!HasConnection, RecoveryP!HasConnection, Recovery!Dedicated, RecoveryP!Dedicated
<1>14. \A s : Recovery!UpdateNext(s) <=> RecoveryP!UpdateNext(s)
  BY <1>2, <1>4, <1>13 DEF Recovery!UpdateNext, RecoveryP!UpdateNext,
     Recovery!messages, RecoveryP!messages, Recovery!history, RecoveryP!history
<1>15. \A s : Recovery!UpdateError(s) <=> RecoveryP!UpdateError(s)
  BY <1>2, <1>4, <1>5, <1>13 DEF Recovery!UpdateError, RecoveryP!UpdateError,
     Recovery!messages, RecoveryP!messages
<1>16. Recovery!Environment <=> RecoveryP!Environment
  <2>1. Recovery!Dequeue <=> RecoveryP!Dequeue
    BY DEF Recovery!Dequeue, RecoveryP!Dequeue, Recovery!Add, RecoveryP!Add, Recovery!history, RecoveryP!history
  <2>2. \A j, s : Recovery!Times(j, s) = RecoveryP!Times(j, s)
    BY CardinalityIs DEF Recovery!Times, RecoveryP!Times
  <2>3. Recovery!Promote <=> RecoveryP!Promote
    BY <2>2 DEF Recovery!Promote, RecoveryP!Promote, Recovery!history, RecoveryP!history
  <2>4. \A f : Recovery!Fewer(f) = RecoveryP!Fewer(f)
    BY DEF Recovery!Fewer, RecoveryP!Fewer
  <2>5. Recovery!Drop <=> RecoveryP!Drop
    BY <2>4 DEF Recovery!Drop, RecoveryP!Drop, Recovery!history, RecoveryP!history
  <2>6. \A j : Recovery!Submit(j) <=> RecoveryP!Submit(j)
    BY CardinalityIs, <1>4
    DEF Recovery!Submit, RecoveryP!Submit, Recovery!Load, RecoveryP!Load, Recovery!Sweeps,
      RecoveryP!Sweeps, Recovery!Rows, RecoveryP!Rows, Recovery!InsertJob, RecoveryP!InsertJob,
      Recovery!NewRow, RecoveryP!NewRow, Recovery!history, RecoveryP!history
  <2>7. \A j : Recovery!Acquire(j) <=> RecoveryP!Acquire(j)
    BY <1>4, <1>5 DEF Recovery!Acquire, RecoveryP!Acquire, Recovery!Add, RecoveryP!Add,
       Recovery!history, RecoveryP!history
  <2>8. \A j : Recovery!AcquireError(j) <=> RecoveryP!AcquireError(j)
    BY <1>5 DEF Recovery!AcquireError, RecoveryP!AcquireError, Recovery!messages, RecoveryP!messages,
       Recovery!history, RecoveryP!history
  <2>9. \A j : Recovery!SetOutputDir(j) <=> RecoveryP!SetOutputDir(j)
    BY <1>4 DEF Recovery!SetOutputDir, RecoveryP!SetOutputDir, Recovery!Touch, RecoveryP!Touch,
       Recovery!messages, RecoveryP!messages, Recovery!history, RecoveryP!history
  <2>10. \A j : Recovery!Complete(j) <=> RecoveryP!Complete(j)
    BY <1>4 DEF Recovery!Complete, RecoveryP!Complete, Recovery!Add, RecoveryP!Add,
       Recovery!messages, RecoveryP!messages, Recovery!history, RecoveryP!history
  <2>11. \A j : Recovery!Fail(j) <=> RecoveryP!Fail(j)
    BY <1>4, <1>5 DEF Recovery!Fail, RecoveryP!Fail, Recovery!Add, RecoveryP!Add,
       Recovery!history, RecoveryP!history
  <2>12. \A j : Recovery!PutBack(j) <=> RecoveryP!PutBack(j)
    BY <1>2 DEF Recovery!PutBack, RecoveryP!PutBack, Recovery!Add, RecoveryP!Add
  <2>13. \A j : Recovery!Age(j) <=> RecoveryP!Age(j)
    BY DEF Recovery!Age, RecoveryP!Age, Recovery!Add, RecoveryP!Add, Recovery!Aged, RecoveryP!Aged,
       Recovery!Dedicated, RecoveryP!Dedicated, Recovery!messages, RecoveryP!messages
  <2>14. \A s : Recovery!Crash(s) <=> RecoveryP!Crash(s)
    BY <1>2, <2>4 DEF Recovery!Crash, RecoveryP!Crash
  <2> QED BY <2>1, <2>3, <2>5, <2>6, <2>7, <2>8, <2>9, <2>10, <2>11, <2>12, <2>13,
                <2>14
          DEF Recovery!Environment, RecoveryP!Environment
<1>17. \A s : Recovery!Recover(s) <=> RecoveryP!Recover(s)
  BY <1>6, <1>7, <1>8, <1>9, <1>11, <1>12, <1>14, <1>15 DEF Recovery!Recover, RecoveryP!Recover
<1>18. Recovery!Next <=> RecoveryP!Next
  BY <1>1, <1>16, <1>17 DEF Recovery!Next, RecoveryP!Next
<1> QED BY <1>18 DEF Recovery!vars, RecoveryP!vars, Recovery!messages, RecoveryP!messages,
           Recovery!history, RecoveryP!history

LEMMA RecoveryKept ==
  ASSUME RecoveryP!SweepInv, [Recovery!Next]_Recovery!vars
  PROVE  RecoveryP!SweepInv'
BY RecoverySteps, RecoveryP!StepInv, RecoveryAssumed

-----------------------------------------------------------------------------
(* The pool's invariant holds in the pipeline.                             *)

\* An error of a sweep is not a step of the pool: the push it may hide and the
\* upset it may be come at once.
LEMMA PoolAndSweepError ==
  ASSUME PoolP!PoolInv, RecoveryP!SweepInv, NEW s \in Sweepers, SweepError(s)
  PROVE  PoolP!PoolInv'
<1>1. upsets \in 0 .. MaxUpsets /\ MaxUpsets \in Nat
  BY PoolFacts, SystemAssumption DEF Pool!TypeOK
<1>2. upsets' \in {upsets, upsets + 1} /\ upsets' \in 0 .. MaxUpsets
  BY <1>1 DEF SweepError, Fault, Pool!Upset
<1>3. UNCHANGED <<retry, dead, hand, channel, worker, exited, cancelled, acked, runs>>
  BY DEF SweepError
<1>4. CASE UNCHANGED <<main, sent>>
  BY <1>2, <1>3, <1>4, PoolP!UpsetStep, PoolAssumed DEF PoolP!redis, PoolP!pool
<1>5. CASE sweep[s].pc = "enqueue" /\ Pushed(Recovery!Current(s))
  <2>1. Recovery!Current(s) \in Jobs
    BY <1>5, RecoveryFacts
  <2>2. PoolP!Push(Recovery!Current(s))
    BY <1>3, <1>5 DEF Pushed, PoolP!Push, Pool!RPush, PoolP!RPush, Pool!NewMessage, PoolP!NewMessage,
                      PoolP!pool
  <2> QED BY <1>2, <2>1, <2>2, PoolP!PushStep, PoolAssumed
<1> QED BY <1>4, <1>5 DEF SweepError

\* The other steps are, or leave the pool alone.
LEMMA PoolMoves ==
  ASSUME RecoveryP!SweepInv, [Next]_vars
  PROVE  PoolP!Next \/ UNCHANGED pool \/ \E s \in Sweepers : SweepError(s)
<1>1. ASSUME NEW j \in Jobs, Submit(j) PROVE PoolP!Next \/ UNCHANGED pool
  BY <1>1, PoolSteps DEF Submit, PoolP!Next
<1>2. ASSUME NEW j \in Jobs, Age(j) PROVE UNCHANGED pool
  BY <1>2 DEF Age, Sweeping
<1>3. ASSUME NEW w \in Workers, WorkerLoop(w) PROVE PoolP!Next \/ UNCHANGED pool
  <2>1. PoolP!WorkerLoop(w) => PoolP!Next
    BY DEF PoolP!Next
  <2>2. CASE Take(w)
    BY <2>1, <2>2, PoolSteps DEF Take, PoolP!WorkerLoop
  <2>3. ASSUME NEW ok \in BOOLEAN, Pool!Processed(w, ok) PROVE PoolP!Next
    BY <2>1, <2>3, PoolSteps DEF PoolP!WorkerLoop
  <2>4. CASE TryMark(w) \/ ReadStatus(w) \/ SetOutputDir(w) \/ Complete(w) \/ Fail(w)
    BY <2>3, <2>4 DEF TryMark, ReadStatus, SetOutputDir, Complete, Fail, Return
  <2>5. CASE HandleFailure(w)
    BY <2>1, <2>5, PoolSteps DEF HandleFailure, PoolP!WorkerLoop
  <2>6. CASE Pool!WorkerExit(w)
    BY <2>1, <2>6, PoolSteps DEF PoolP!WorkerLoop
  <2> QED BY <1>3, <2>2, <2>4, <2>5, <2>6 DEF WorkerLoop
<1>4. ASSUME NEW s \in Sweepers, Sweep(s) PROVE PoolP!Next \/ UNCHANGED pool \/ SweepError(s)
  <2>1. CASE EnqueueNext(s)
    <3>1. Recovery!Current(s) \in Jobs
      BY <2>1, RecoveryFacts DEF EnqueueNext
    <3> QED BY <2>1, <3>1, PoolSteps DEF EnqueueNext, PoolP!Next
  <2> QED BY <1>4, <2>1 DEF Sweep, BeginSweep, Sweeping
<1>5. CASE Dispatcher
  BY <1>5, PoolSteps DEF Dispatcher, PoolP!Next
<1>6. CASE Promoter
  BY <1>6, PoolSteps DEF Promoter, PoolP!Next
<1>7. CASE Stop \/ Restart \/ Crash
  BY <1>7, PoolSteps DEF Stop, Restart, Crash, PoolP!Next
<1>8. CASE UNCHANGED vars
  BY <1>8 DEF vars
<1> QED BY <1>1, <1>2, <1>3, <1>4, <1>5, <1>6, <1>7, <1>8 DEF Next

LEMMA PoolKept ==
  ASSUME PoolP!PoolInv, RecoveryP!SweepInv, [Next]_vars
  PROVE  PoolP!PoolInv'
<1>1. PoolP!Next \/ UNCHANGED pool => PoolP!PoolInv'
  BY PoolP!StepInv, PoolAssumed DEF pool, PoolP!vars, PoolP!redis, PoolP!pool
<1> QED BY <1>1, PoolMoves, PoolAndSweepError

-----------------------------------------------------------------------------
(* How many messages of a job there are in a list, a set and at workers.   *)

Bit(b) == IF b THEN 1 ELSE 0

Where(j, s) == {i \in DOMAIN s : JobOf(s[i]) = j}

LEMMA CountIs == \A j, s : Count(j, s) = Cardinality(Where(j, s))
BY DEF Count, Where

LEMMA WhereFinite ==
  ASSUME NEW s \in Seq(Pool!Message), NEW j
  PROVE  IsFiniteSet(Where(j, s)) /\ Count(j, s) \in Nat
<1>1. IsFiniteSet(1 .. Len(s))
  BY FS_Interval, LenProperties
<1>2. Where(j, s) \in SUBSET (1 .. Len(s))
  BY LenProperties DEF Where
<1> QED
  BY <1>1, <1>2, FS_Subset, FS_CardinalityType, CountIs

\* A concatenation has the messages of a job of both lists.
LEMMA CountConcat ==
  ASSUME NEW s \in Seq(Pool!Message), NEW t \in Seq(Pool!Message), NEW j
  PROVE  Count(j, s \o t) = Count(j, s) + Count(j, t)
<1> DEFINE shift == [i \in Where(j, t) |-> i + Len(s)]
           moved == {i + Len(s) : i \in Where(j, t)}
<1>1. /\ Len(s) \in Nat /\ DOMAIN s = 1 .. Len(s)
      /\ Len(t) \in Nat /\ DOMAIN t = 1 .. Len(t)
  BY LenProperties
<1>2. /\ DOMAIN (s \o t) = 1 .. Len(s) + Len(t)
      /\ \A i \in 1 .. Len(s) + Len(t) :
           (s \o t)[i] = IF i <= Len(s) THEN s[i] ELSE t[i - Len(s)]
  BY ConcatProperties, LenProperties
<1>3. Where(j, s \o t) = Where(j, s) \cup moved
  <2>1. ASSUME NEW i \in Where(j, s \o t), i > Len(s) PROVE i \in moved
    <3>1. i - Len(s) \in Where(j, t)
      BY <1>1, <1>2, <2>1 DEF Where
    <3>2. i = (i - Len(s)) + Len(s)
      BY <1>1, <1>2, <2>1 DEF Where
    <3> QED BY <3>1, <3>2
  <2>2. ASSUME NEW i \in Where(j, s \o t), ~(i > Len(s)) PROVE i \in Where(j, s)
    BY <1>1, <1>2, <2>2 DEF Where
  <2>3. Where(j, s) \subseteq Where(j, s \o t)
    BY <1>1, <1>2 DEF Where
  <2>4. ASSUME NEW i \in Where(j, t) PROVE i + Len(s) \in Where(j, s \o t)
    BY <1>1, <1>2 DEF Where
  <2> QED BY <2>1, <2>2, <2>3, <2>4
<1>4. Where(j, s) \cap moved = {}
  BY <1>1 DEF Where
<1>5. IsFiniteSet(moved) /\ Cardinality(moved) = Count(j, t)
  <2>1. shift \in Bijection(Where(j, t), moved)
    <3>1. shift \in [Where(j, t) -> moved]
      OBVIOUS
    <3>2. \A a, b \in Where(j, t) : shift[a] = shift[b] => a = b
      BY <1>1 DEF Where
    <3>3. \A m \in moved : \E a \in Where(j, t) : shift[a] = m
      OBVIOUS
    <3> QED
      BY <3>1, <3>2, <3>3 DEF Bijection, Injection, Surjection, IsInjective
  <2> HIDE DEF shift, moved
  <2> QED
    BY <2>1, WhereFinite, FS_Bijection, CountIs DEF ExistsBijection
<1> HIDE DEF moved
<1>6. Cardinality(Where(j, s) \cap moved) = 0
  BY <1>4, FS_EmptySet, Zenon
<1>7. Count(j, s) \in Nat /\ Count(j, t) \in Nat
  BY WhereFinite
<1>8. IsFiniteSet(Where(j, s))
  BY WhereFinite
<1>9. Cardinality(Where(j, s) \cup moved)
        = Count(j, s) + Count(j, t) - Cardinality(Where(j, s) \cap moved)
  BY <1>5, <1>8, FS_Union, CountIs
<1>10. Cardinality(Where(j, s) \cup moved) = Count(j, s) + Count(j, t)
  BY <1>6, <1>7, <1>9
<1> QED
  BY <1>3, <1>10, CountIs

LEMMA CountShort ==
  ASSUME NEW j
  PROVE  Count(j, <<>>) = 0 /\ \A m : Count(j, <<m>>) = Bit(JobOf(m) = j)
<1>1. Where(j, <<>>) = {} /\ \A m : Where(j, <<m>>) = IF JobOf(m) = j THEN {1} ELSE {}
  BY DEF Where
<1>2. Cardinality({}) = 0 /\ Cardinality({1}) = 1
  BY FS_EmptySet, FS_Singleton
<1> QED BY <1>1, <1>2, CountIs DEF Bit

LEMMA HeadAndTail ==
  ASSUME NEW s \in Seq(Pool!Message), s # <<>>
  PROVE  /\ Head(s) \in Pool!Message /\ Tail(s) \in Seq(Pool!Message)
         /\ \A j : Count(j, s) = Bit(JobOf(Head(s)) = j) + Count(j, Tail(s))
<1>1. /\ Head(s) \in Pool!Message /\ Tail(s) \in Seq(Pool!Message)
      /\ <<Head(s)>> \in Seq(Pool!Message) /\ s = <<Head(s)>> \o Tail(s)
  <2>1. /\ Head(s) \in Pool!Message /\ Tail(s) \in Seq(Pool!Message)
        /\ Len(s) \in Nat \ {0} /\ DOMAIN s = 1 .. Len(s)
        /\ Len(Tail(s)) = Len(s) - 1 /\ DOMAIN Tail(s) = 1 .. Len(s) - 1
        /\ Head(s) = s[1] /\ \A i \in 1 .. Len(s) - 1 : Tail(s)[i] = s[i + 1]
    BY HeadTailProperties, LenProperties, EmptySeq
  <2>2. <<Head(s)>> \in Seq(Pool!Message) /\ Len(<<Head(s)>>) = 1
    BY <2>1
  <2> DEFINE t == <<Head(s)>> \o Tail(s)
  <2>3. t \in Seq(Pool!Message) /\ Len(t) = Len(s)
    BY <2>1, <2>2, ConcatProperties
  <2>4. \A i \in 1 .. Len(s) : s[i] = t[i]
    BY <2>1, <2>2, ConcatProperties
  <2> HIDE DEF t
  <2>5. s = t
    BY <2>3, <2>4, SeqEqual
  <2> QED BY <2>1, <2>2, <2>5 DEF t
<1>2. ASSUME NEW j PROVE Count(j, s) = Bit(JobOf(Head(s)) = j) + Count(j, Tail(s))
  <2>1. Count(j, <<Head(s)>> \o Tail(s)) = Count(j, <<Head(s)>>) + Count(j, Tail(s))
    BY <1>1, CountConcat
  <2>2. Count(j, <<Head(s)>>) = Bit(JobOf(Head(s)) = j)
    BY CountShort
  <2> QED BY <1>1, <2>1, <2>2
<1> QED BY <1>1, <1>2

\* The list as recovery sees it.
JobList(s) == [i \in DOMAIN s |-> JobOf(s[i])]

LEMMA JobOfMessage == \A m \in Pool!Message : JobOf(m) \in Jobs
BY DEF Pool!Message, Pool!Ids, JobOf

LEMMA JobListFacts ==
  ASSUME NEW s \in Seq(Pool!Message)
  PROVE  /\ JobList(s) \in Seq(Jobs) /\ Len(JobList(s)) = Len(s)
         /\ \A t \in Seq(Pool!Message) : JobList(s \o t) = JobList(s) \o JobList(t)
         /\ \A m \in Pool!Message : JobList(Append(s, m)) = Append(JobList(s), JobOf(m))
         /\ s # <<>> => /\ JobList(s) # <<>> /\ Head(JobList(s)) = JobOf(Head(s))
                        /\ JobList(Tail(s)) = Tail(JobList(s))
<1>1. ASSUME NEW t \in Seq(Pool!Message)
      PROVE  /\ JobList(t) \in Seq(Jobs) /\ Len(JobList(t)) = Len(t)
             /\ DOMAIN JobList(t) = 1 .. Len(t) /\ Len(t) \in Nat
             /\ \A i \in 1 .. Len(t) : JobList(t)[i] = JobOf(t[i])
  <2>1. DOMAIN t = 1 .. Len(t) /\ Len(t) \in Nat /\ \A i \in 1 .. Len(t) : t[i] \in Pool!Message
    BY LenProperties
  <2>2. JobList(t) \in [1 .. Len(t) -> Jobs]
    BY <2>1, JobOfMessage DEF JobList
  <2>3. JobList(t) \in Seq(Jobs)
    BY <2>1, <2>2, SeqDef
  <2> QED BY <2>1, <2>2, <2>3, LenProperties DEF JobList
<1>2. ASSUME NEW t \in Seq(Pool!Message)
      PROVE  JobList(s \o t) = JobList(s) \o JobList(t)
  <2>1. /\ s \o t \in Seq(Pool!Message) /\ Len(s \o t) = Len(s) + Len(t)
        /\ \A i \in 1 .. Len(s) + Len(t) :
             (s \o t)[i] = IF i <= Len(s) THEN s[i] ELSE t[i - Len(s)]
    BY ConcatProperties
  <2> DEFINE u == JobList(s \o t)
             v == JobList(s) \o JobList(t)
  <2>2. /\ v \in Seq(Jobs) /\ Len(v) = Len(s) + Len(t)
        /\ \A i \in 1 .. Len(s) + Len(t) :
             v[i] = IF i <= Len(s) THEN JobList(s)[i] ELSE JobList(t)[i - Len(s)]
    <3>1. JobList(s) \in Seq(Jobs) /\ JobList(t) \in Seq(Jobs)
      BY <1>1
    <3>2. /\ v \in Seq(Jobs) /\ Len(v) = Len(JobList(s)) + Len(JobList(t))
          /\ \A i \in 1 .. Len(JobList(s)) + Len(JobList(t)) :
               v[i] = IF i <= Len(JobList(s)) THEN JobList(s)[i]
                                            ELSE JobList(t)[i - Len(JobList(s))]
      BY <3>1, ConcatProperties
    <3>3. Len(JobList(s)) = Len(s) /\ Len(JobList(t)) = Len(t)
      BY <1>1
    <3> HIDE DEF v
    <3> QED BY <3>2, <3>3
  <2>3. u \in Seq(Jobs) /\ Len(u) = Len(s) + Len(t)
        /\ \A i \in 1 .. Len(s) + Len(t) : u[i] = JobOf((s \o t)[i])
    BY <1>1, <2>1
  <2> HIDE DEF u, v
  <2>4. ASSUME NEW i \in 1 .. Len(s) + Len(t) PROVE u[i] = v[i]
    <3>1. CASE i <= Len(s)
      <4>1. i \in 1 .. Len(s)
        BY <1>1, <3>1
      <4> QED BY <1>1, <2>1, <2>2, <2>3, <3>1, <4>1
    <3>2. CASE ~(i <= Len(s))
      <4>1. i - Len(s) \in 1 .. Len(t)
        BY <1>1, <3>2
      <4> QED BY <1>1, <2>1, <2>2, <2>3, <3>2, <4>1
    <3> QED BY <3>1, <3>2
  <2>5. u = v
    BY <2>2, <2>3, <2>4, SeqEqual
  <2> QED BY <2>5 DEF u, v
<1>3. \A m : JobList(<<m>>) = <<JobOf(m)>>
  BY DEF JobList
<1>4. ASSUME NEW m \in Pool!Message PROVE JobList(Append(s, m)) = Append(JobList(s), JobOf(m))
  <2>1. <<m>> \in Seq(Pool!Message) /\ Append(s, m) = s \o <<m>>
    BY AppendIsConcat
  <2>2. Append(JobList(s), JobOf(m)) = JobList(s) \o <<JobOf(m)>>
    BY <1>1, JobOfMessage, AppendIsConcat
  <2> QED BY <1>2, <1>3, <2>1, <2>2
<1>5. ASSUME s # <<>>
      PROVE  /\ JobList(s) # <<>> /\ Head(JobList(s)) = JobOf(Head(s))
             /\ JobList(Tail(s)) = Tail(JobList(s))
  <2>1. /\ Len(s) \in Nat \ {0} /\ Head(s) = s[1] /\ Tail(s) \in Seq(Pool!Message)
        /\ Len(Tail(s)) = Len(s) - 1 /\ \A i \in 1 .. Len(s) - 1 : Tail(s)[i] = s[i + 1]
    BY <1>5, HeadTailProperties, LenProperties, EmptySeq
  <2>2. JobList(s) # <<>>
    BY <1>1, <2>1, EmptySeq
  <2>3. /\ Head(JobList(s)) = JobList(s)[1] /\ Tail(JobList(s)) \in Seq(Jobs)
        /\ Len(Tail(JobList(s))) = Len(s) - 1
        /\ \A i \in 1 .. Len(s) - 1 : Tail(JobList(s))[i] = JobList(s)[i + 1]
    BY <1>1, <2>2, HeadTailProperties
  <2>4. Head(JobList(s)) = JobOf(Head(s))
    BY <1>1, <2>1, <2>3
  <2> DEFINE u == JobList(Tail(s))
             v == Tail(JobList(s))
  <2>5. u \in Seq(Jobs) /\ Len(u) = Len(s) - 1
        /\ \A i \in 1 .. Len(s) - 1 : u[i] = JobOf(Tail(s)[i])
    BY <1>1, <2>1
  <2>6. ASSUME NEW i \in 1 .. Len(s) - 1 PROVE u[i] = v[i]
    <3>1. i + 1 \in 1 .. Len(s)
      BY <2>1
    <3> QED BY <1>1, <2>1, <2>3, <2>5, <3>1
  <2> HIDE DEF u
  <2>7. u = v
    BY <2>3, <2>5, <2>6, SeqEqual
  <2> QED BY <2>2, <2>4, <2>7 DEF u
<1> QED BY <1>1, <1>2, <1>4, <1>5

-----------------------------------------------------------------------------
\* Sets that differ at most in one element.
LEMMA OneElement ==
  ASSUME NEW S, NEW T, IsFiniteSet(S), NEW x, S \ {x} = T \ {x}
  PROVE  /\ Cardinality(S) \in Nat
         /\ Cardinality(T) = Cardinality(S) - Bit(x \in S) + Bit(x \in T)
<1> DEFINE rest == S \ {x}
<1>1. IsFiniteSet(rest) /\ Cardinality(S) \in Nat
      /\ Cardinality(rest) = Cardinality(S) - Bit(x \in S)
  BY FS_RemoveElement, FS_CardinalityType DEF Bit
<1>2. Cardinality(rest \cup {x}) = Cardinality(rest) + 1
  BY <1>1, FS_AddElement
<1>3. T = IF x \in T THEN rest \cup {x} ELSE rest
  OBVIOUS
<1>4. Cardinality(rest) \in Nat
  BY <1>1, FS_CardinalityType
<1> HIDE DEF rest
<1>5. Cardinality(T) = Cardinality(rest) + Bit(x \in T)
  <2>1. CASE x \in T
    <3>1. T = rest \cup {x} /\ Bit(x \in T) = 1
      BY <1>3, <2>1 DEF Bit
    <3> QED BY <1>2, <3>1
  <2>2. CASE x \notin T
    <3>1. T = rest /\ Bit(x \in T) = 0
      BY <1>3, <2>2 DEF Bit
    <3> QED BY <1>4, <3>1
  <2> QED BY <2>1, <2>2
<1> QED BY <1>1, <1>5

Waiters(j) == {w \in Workers : Waits(w, j)}
Keepers(j) == {w \in Workers : Holds(w, j)}
WaitCount(j) == Cardinality(Waiters(j))
HoldCount(j) == Cardinality(Keepers(j))

InRetry(j, R) == {m \in R : JobOf(m) = j}
RetryCount(j, R) == Cardinality(InRetry(j, R))

LEMMA WorkerSetsFinite ==
  ASSUME NEW j
  PROVE  /\ IsFiniteSet(Waiters(j)) /\ WaitCount(j) \in Nat
         /\ IsFiniteSet(Keepers(j)) /\ HoldCount(j) \in Nat
<1>1. Waiters(j) \in SUBSET Workers /\ Keepers(j) \in SUBSET Workers
  BY DEF Waiters, Keepers
<1> QED BY <1>1, SystemAssumption, FS_Subset, FS_CardinalityType DEF WaitCount, HoldCount

\* A step of one worker, seen by a job.
LEMMA OneWorker ==
  ASSUME NEW w \in Workers, NEW j,
         \A v \in Workers \ {w} : worker'[v] = worker[v] /\ stage'[v] = stage[v]
  PROVE  /\ WaitCount(j)' = WaitCount(j) - Bit(Waits(w, j)) + Bit(Waits(w, j)')
         /\ HoldCount(j)' = HoldCount(j) - Bit(Holds(w, j)) + Bit(Holds(w, j)')
<1>1. Waiters(j) \ {w} = Waiters(j)' \ {w} /\ Keepers(j) \ {w} = Keepers(j)' \ {w}
  BY DEF Waiters, Keepers, Waits, Holds
<1>2. /\ w \in Waiters(j) <=> Waits(w, j)
      /\ w \in Waiters(j)' <=> Waits(w, j)'
      /\ w \in Keepers(j) <=> Holds(w, j)
      /\ w \in Keepers(j)' <=> Holds(w, j)'
  BY DEF Waiters, Keepers, Waits, Holds
<1>3. /\ Cardinality(Waiters(j)')
           = Cardinality(Waiters(j)) - Bit(w \in Waiters(j)) + Bit(w \in Waiters(j)')
      /\ Cardinality(Keepers(j)')
           = Cardinality(Keepers(j)) - Bit(w \in Keepers(j)) + Bit(w \in Keepers(j)')
  BY <1>1, WorkerSetsFinite, OneElement
<1> QED BY <1>2, <1>3 DEF WaitCount, HoldCount, Bit

\* What recovery sees, before and after a step.
LEMMA Seen ==
  /\ Queued = JobList(main) /\ Queued' = JobList(main')
  /\ Taken = [j \in Jobs |-> Count(j, hand) + Count(j, channel) + WaitCount(j)]
  /\ Taken' = [j \in Jobs |-> Count(j, hand') + Count(j, channel') + WaitCount(j)']
  /\ Retrying = [j \in Jobs |-> RetryCount(j, retry)]
  /\ Retrying' = [j \in Jobs |-> RetryCount(j, retry')]
  /\ Holders = [j \in Jobs |-> HoldCount(j)]
  /\ Holders' = [j \in Jobs |-> HoldCount(j)']
<1>1. Queued = JobList(main) /\ Queued' = JobList(main')
  BY DEF Queued, JobList
<1>2. /\ Taken = [j \in Jobs |-> Count(j, hand) + Count(j, channel) + WaitCount(j)]
      /\ Taken' = [j \in Jobs |-> Count(j, hand') + Count(j, channel') + WaitCount(j)']
  BY DEF Taken, WaitCount, Waiters, Count
<1>3. /\ Retrying = [j \in Jobs |-> RetryCount(j, retry)]
      /\ Retrying' = [j \in Jobs |-> RetryCount(j, retry')]
  BY DEF Retrying, RetryCount, InRetry
<1>4. /\ Holders = [j \in Jobs |-> HoldCount(j)]
      /\ Holders' = [j \in Jobs |-> HoldCount(j)']
  BY DEF Holders, HoldCount, Keepers
<1> QED BY <1>1, <1>2, <1>3, <1>4

LEMMA SeenTyped ==
  ASSUME Pool!TypeOK, IsFiniteSet(retry)
  PROVE  /\ Queued \in Seq(Jobs)
         /\ Taken \in [Jobs -> Nat] /\ Retrying \in [Jobs -> Nat] /\ Holders \in [Jobs -> Nat]
<1>1. ASSUME NEW j \in Jobs
      PROVE  /\ Count(j, hand) + Count(j, channel) + WaitCount(j) \in Nat
             /\ RetryCount(j, retry) \in Nat /\ HoldCount(j) \in Nat
  <2>1. Count(j, hand) \in Nat /\ Count(j, channel) \in Nat
    BY WhereFinite DEF Pool!TypeOK
  <2>2. InRetry(j, retry) \in SUBSET retry
    BY DEF InRetry
  <2>3. RetryCount(j, retry) \in Nat
    BY <2>2, FS_Subset, FS_CardinalityType DEF RetryCount
  <2> QED BY <2>1, <2>3, WorkerSetsFinite
<1>2. Queued \in Seq(Jobs)
  BY Seen, JobListFacts DEF Pool!TypeOK
<1> QED BY <1>1, <1>2, Seen

-----------------------------------------------------------------------------
(* Each step is one of RecoveryService's.                                  *)

Staged ==
  /\ stage \in [Workers -> {"none", "mark", "status"} \cup Held]
  /\ \A w \in Workers : stage[w] # "none" <=> worker[w].pc = "processing"

LEMMA TableIs ==
  /\ \A tab, j, st : Recovery!UpdateJobStatus(tab, j, st) = UpdateJobStatus(tab, j, st)
  /\ \A tab, j : Recovery!MarkProcessing(tab, j) = MarkProcessing(tab, j)
  /\ \A tab, j : Recovery!Markable(tab, j) <=> Markable(tab, j)
  /\ \A tab, j : Recovery!InsertJob(tab, j) = InsertJob(tab, j)
  /\ \A tab, tab2 : Recovery!AfterError(tab, tab2) = AfterError(tab, tab2)
  /\ \A tab, j : Recovery!Touch(tab, j) = Touch(tab, j)
<1>1. /\ \A tab, j, st : Recovery!UpdateJobStatus(tab, j, st) = UpdateJobStatus(tab, j, st)
      /\ \A tab, j : Recovery!Markable(tab, j) <=> Markable(tab, j)
  BY DEF Recovery!UpdateJobStatus, UpdateJobStatus, Recovery!Exists, Exists, Recovery!Status, Status,
         Recovery!Markable, Markable
<1>2. \A tab, j : Recovery!MarkProcessing(tab, j) = MarkProcessing(tab, j)
  BY <1>1 DEF Recovery!MarkProcessing, MarkProcessing
<1>3. /\ \A tab, j : Recovery!InsertJob(tab, j) = InsertJob(tab, j)
      /\ \A tab, tab2 : Recovery!AfterError(tab, tab2) = AfterError(tab, tab2)
  BY DEF Recovery!InsertJob, InsertJob, Recovery!NewRow, NewRow, Recovery!AfterError, AfterError
<1>4. \A tab, j : Recovery!Touch(tab, j) = Touch(tab, j)
  BY <1>1 DEF Recovery!Touch, Touch
<1> QED BY <1>1, <1>2, <1>3, <1>4

LEMMA AddOne ==
  ASSUME NEW f \in [Jobs -> Nat], NEW g, g = [j \in Jobs |-> g[j]], NEW k \in Jobs,
         \A j \in Jobs : g[j] = IF j = k THEN f[j] + 1 ELSE f[j]
  PROVE  g = Recovery!Add(f, k, 1)
BY DEF Recovery!Add

LEMMA TakeOne ==
  ASSUME NEW f \in [Jobs -> Nat], NEW g, g = [j \in Jobs |-> g[j]], NEW k \in Jobs,
         \A j \in Jobs : g[j] = IF j = k THEN f[j] - 1 ELSE f[j]
  PROVE  g = Recovery!Add(f, k, -1)
BY DEF Recovery!Add

LEMMA FewerIs ==
  ASSUME NEW f \in [Jobs -> Nat], NEW g \in [Jobs -> Nat], \A j \in Jobs : g[j] <= f[j]
  PROVE  g \in Recovery!Fewer(f)
<1>1. \A j \in Jobs : g[j] \in 0 .. f[j]
  OBVIOUS
<1>2. g \in [Jobs -> UNION {0 .. f[j] : j \in Jobs}]
  BY <1>1
<1> QED BY <1>2 DEF Recovery!Fewer

\* A step that at most loses messages a pool has.
LEMMA DropOrStutter ==
  ASSUME Taken \in [Jobs -> Nat], Taken' \in [Jobs -> Nat], \A j \in Jobs : Taken'[j] <= Taken[j],
         Queued' = Queued, Retrying' = Retrying, Holders' = Holders,
         UNCHANGED <<table, mishaps>>
  PROVE  [Recovery!Next]_Recovery!vars
<1>1. Taken' \in Recovery!Fewer(Taken)
  BY FewerIs
<1>2. CASE Taken' = Taken
  BY <1>2 DEF Recovery!vars, Recovery!messages, Recovery!history, table
<1>3. CASE Taken' # Taken
  BY <1>1, <1>3 DEF Recovery!Next, Recovery!Environment, Recovery!Drop, Recovery!history, table
<1> QED BY <1>2, <1>3

\* What recovery sees of a step of one worker.
LEMMA WorkerSeen ==
  ASSUME Pool!TypeOK, IsFiniteSet(retry), NEW w \in Workers,
         UNCHANGED <<main, hand, channel>>,
         \A v \in Workers \ {w} : worker'[v] = worker[v] /\ stage'[v] = stage[v]
  PROVE  /\ Queued' = Queued
         /\ DOMAIN Taken' = Jobs /\ Taken' = [j \in Jobs |-> Taken'[j]]
         /\ DOMAIN Holders' = Jobs /\ Holders' = [j \in Jobs |-> Holders'[j]]
         /\ \A j \in Jobs :
              /\ Taken'[j] = Taken[j] - Bit(Waits(w, j)) + Bit(Waits(w, j)')
              /\ Holders'[j] = Holders[j] - Bit(Holds(w, j)) + Bit(Holds(w, j)')
<1>1. ASSUME NEW j \in Jobs
      PROVE  /\ Taken'[j] = Taken[j] - Bit(Waits(w, j)) + Bit(Waits(w, j)')
             /\ Holders'[j] = Holders[j] - Bit(Holds(w, j)) + Bit(Holds(w, j)')
  <2>1. /\ WaitCount(j)' = WaitCount(j) - Bit(Waits(w, j)) + Bit(Waits(w, j)')
        /\ HoldCount(j)' = HoldCount(j) - Bit(Holds(w, j)) + Bit(Holds(w, j)')
    BY OneWorker
  <2>2. /\ Taken[j] = Count(j, hand) + Count(j, channel) + WaitCount(j)
        /\ Taken'[j] = Count(j, hand) + Count(j, channel) + WaitCount(j)'
        /\ Holders[j] = HoldCount(j) /\ Holders'[j] = HoldCount(j)'
    BY Seen
  <2>3. Count(j, hand) \in Nat /\ Count(j, channel) \in Nat /\ WaitCount(j) \in Nat
    BY WhereFinite, WorkerSetsFinite DEF Pool!TypeOK
  <2>4. Bit(Waits(w, j)) \in Nat /\ Bit(Waits(w, j)') \in Nat
    BY DEF Bit
  <2> QED BY <2>1, <2>2, <2>3, <2>4
<1>2. Queued' = Queued
  BY Seen
<1>3. /\ DOMAIN Taken' = Jobs /\ Taken' = [j \in Jobs |-> Taken'[j]]
      /\ DOMAIN Holders' = Jobs /\ Holders' = [j \in Jobs |-> Holders'[j]]
  BY Seen
<1> QED BY <1>1, <1>2, <1>3

\* The worker's message.
LEMMA AtHand ==
  ASSUME Pool!TypeOK, Staged, NEW w \in Workers
  PROVE  /\ worker[w].pc \in {"processing", "failing"} =>
              /\ worker[w].msg \in Pool!Message /\ worker[w].msg # Pool!NoMessage
              /\ JobOf(worker[w].msg) \in Jobs
         /\ worker[w].pc \notin {"processing", "failing"} =>
              worker[w].msg = Pool!NoMessage /\ stage[w] = "none"
         /\ stage[w] # "none" => worker[w].pc = "processing"
         /\ worker[w].pc = "failing" => stage[w] = "none"
         /\ JobOf(Pool!NoMessage) \notin Jobs
<1>1. worker[w] \in Pool!Task
  BY DEF Pool!TypeOK
<1>2. worker[w].pc \in {"processing", "failing"} <=> worker[w].msg # Pool!NoMessage
  BY DEF Pool!TypeOK
<1>3. worker[w].msg \in Pool!Message \cup {Pool!NoMessage}
  BY <1>1 DEF Pool!Task
<1>4. JobOf(Pool!NoMessage) \notin Jobs
  BY JobsAssumption DEF Pool!NoMessage, JobOf
<1>5. stage[w] # "none" <=> worker[w].pc = "processing"
  BY DEF Staged
<1> QED BY <1>2, <1>3, <1>4, <1>5, JobOfMessage

-----------------------------------------------------------------------------
(***************************************************************************)
(* What RecoveryService calls an upset is here a sweep cut short or a      *)
(* message retried, and its bound on them needs an account: each is an     *)
(* upset of the pool or the retry of an attempt that nobody can make       *)
(* again, but for the one sweep that a cancellation may still cut short.   *)
(***************************************************************************)
Retried ==
  {p \in Pool!Ids \X (1 .. MaxRetries) :
     \/ p[2] < runs[p[1]]
     \/ p[2] = runs[p[1]] /\ ~Trying(p[1])}

Cut == Bit(cancelled /\ sweep[Home].pc # "idle")

Accounted == mishaps + Cut <= upsets + Cardinality(Retried)

LEMMA RetriedBounded ==
  /\ IsFiniteSet(Retried) /\ Cardinality(Retried) \in Nat
  /\ Cardinality(Retried) <= MaxRetries * MaxSent * Cardinality(Jobs)
  /\ IsFiniteSet(Retried') /\ Cardinality(Retried') \in Nat
  /\ Cardinality(Retried') <= MaxRetries * MaxSent * Cardinality(Jobs)
<1>1. MaxSent \in Nat \ {0} /\ MaxRetries \in Nat \ {0} /\ Cardinality(Jobs) \in Nat
  BY SystemAssumption, JobCount
<1>2. \A n \in Nat \ {0} : IsFiniteSet(1 .. n) /\ Cardinality(1 .. n) = n
  BY FS_Interval
<1>3. IsFiniteSet(Pool!Ids) /\ Cardinality(Pool!Ids) = Cardinality(Jobs) * MaxSent
  <2>1. IsFiniteSet(Jobs) /\ IsFiniteSet(1 .. MaxSent) /\ Cardinality(1 .. MaxSent) = MaxSent
    BY <1>1, <1>2, SystemAssumption
  <2>2. /\ IsFiniteSet(Jobs \X (1 .. MaxSent))
        /\ Cardinality(Jobs \X (1 .. MaxSent)) = Cardinality(Jobs) * Cardinality(1 .. MaxSent)
    BY <2>1, FS_Product
  <2> QED BY <2>1, <2>2, Zenon DEF Pool!Ids
<1> DEFINE all == Pool!Ids \X (1 .. MaxRetries)
<1>4. IsFiniteSet(all) /\ Cardinality(all) = (Cardinality(Jobs) * MaxSent) * MaxRetries
  <2>1. IsFiniteSet(1 .. MaxRetries) /\ Cardinality(1 .. MaxRetries) = MaxRetries
    BY <1>1, <1>2
  <2>2. IsFiniteSet(all) /\ Cardinality(all) = Cardinality(Pool!Ids) * Cardinality(1 .. MaxRetries)
    BY <1>3, <2>1, FS_Product
  <2> HIDE DEF all
  <2> QED BY <1>3, <2>1, <2>2, Zenon
<1>5. \A a, b, c \in Nat : (a * b) * c = c * b * a
  OBVIOUS
<1> HIDE DEF all
<1>6. Cardinality(all) = MaxRetries * MaxSent * Cardinality(Jobs)
  BY <1>1, <1>4, <1>5
<1>7. ASSUME NEW R \in SUBSET all
      PROVE  /\ IsFiniteSet(R) /\ Cardinality(R) \in Nat
             /\ Cardinality(R) <= MaxRetries * MaxSent * Cardinality(Jobs)
  BY <1>4, <1>6, FS_Subset, FS_CardinalityType
<1>8. Retried \in SUBSET all /\ Retried' \in SUBSET all
  BY DEF Retried, all
<1> QED BY <1>7, <1>8

\* No step but a Take begins an attempt.
LEMMA RetriedKept ==
  ASSUME UNCHANGED runs, \A id \in Pool!Ids : Trying(id)' => Trying(id)
  PROVE  Retried \subseteq Retried'
<1>1. ASSUME NEW p \in Pool!Ids \X (1 .. MaxRetries), p \in Retried PROVE p \in Retried'
  <2>1. p[1] \in Pool!Ids
    OBVIOUS
  <2>2. Trying(p[1])' => Trying(p[1])
    BY <2>1
  <2>3. p[2] < runs[p[1]] \/ (p[2] = runs[p[1]] /\ ~Trying(p[1]))
    BY <1>1 DEF Retried
  <2>4. p[2] < runs'[p[1]] \/ (p[2] = runs'[p[1]] /\ ~Trying(p[1])')
    BY <2>2, <2>3
  <2> QED BY <2>4 DEF Retried
<1> QED BY <1>1 DEF Retried

LEMMA RetriedTake ==
  ASSUME PoolP!PoolInv, NEW w \in Workers, Pool!Take(w)
  PROVE  Retried \subseteq Retried'
<1>1. Pool!TypeOK /\ channel # <<>> /\ Head(channel) \in Pool!Message /\ ~Trying(Head(channel).id)
  BY PoolFacts DEF Pool!Take
<1> DEFINE id == Head(channel).id
<1>2. /\ id \in Pool!Ids /\ runs \in [Pool!Ids -> Nat] /\ worker \in [Workers -> Pool!Task]
  BY <1>1 DEF Pool!TypeOK, Pool!Message
<1>3. /\ runs' = [runs EXCEPT ![id] = @ + 1]
      /\ worker' = [worker EXCEPT ![w] = [pc |-> "processing", msg |-> Head(channel)]]
  BY DEF Pool!Take
<1>4. /\ \A i \in Pool!Ids : runs'[i] = IF i = id THEN runs[i] + 1 ELSE runs[i]
      /\ \A i \in Pool!Ids : runs[i] \in Nat
  BY <1>2, <1>3
<1>5. \A v \in Workers : worker'[v].msg = IF v = w THEN Head(channel) ELSE worker[v].msg
  BY <1>2, <1>3
<1>6. \A i \in Pool!Ids : i # id => (Trying(i)' => Trying(i))
  BY <1>5 DEF Trying
<1>7. ASSUME NEW p \in Pool!Ids \X (1 .. MaxRetries), p \in Retried PROVE p \in Retried'
  <2>1. p[1] \in Pool!Ids /\ p[2] \in Nat
    OBVIOUS
  <2>2. p[2] < runs[p[1]] \/ (p[2] = runs[p[1]] /\ ~Trying(p[1]))
    BY <1>7 DEF Retried
  <2> HIDE DEF id
  <2>3. p[2] < runs'[p[1]] \/ (p[2] = runs'[p[1]] /\ ~Trying(p[1])')
    <3>1. CASE p[1] = id
      <4>1. runs'[p[1]] = runs[p[1]] + 1 /\ runs[p[1]] \in Nat
        BY <1>4, <2>1, <3>1
      <4>2. p[2] <= runs[p[1]]
        BY <2>1, <2>2, <4>1
      <4> QED BY <2>1, <4>1, <4>2
    <3>2. CASE p[1] # id
      <4>1. runs'[p[1]] = runs[p[1]] /\ (Trying(p[1])' => Trying(p[1]))
        BY <1>4, <1>6, <2>1, <3>2
      <4> QED BY <2>2, <4>1
    <3> QED BY <3>1, <3>2
  <2> QED BY <2>3 DEF Retried
<1> QED BY <1>7 DEF Retried

\* A worker that puts its message down.
LEMMA RetriedPutDown ==
  ASSUME PoolP!PoolInv, NEW w \in Workers, UNCHANGED runs,
         worker' = [worker EXCEPT ![w] = Pool!Waiting]
  PROVE  /\ Retried \subseteq Retried'
         /\ worker[w].msg # Pool!NoMessage /\ worker[w].msg.attempts < MaxRetries =>
              Cardinality(Retried') > Cardinality(Retried)
<1>1. Pool!TypeOK
  BY PoolFacts
<1>2. worker \in [Workers -> Pool!Task]
  BY <1>1 DEF Pool!TypeOK
<1>3. Pool!NoMessage.id \notin Pool!Ids
  BY JobsAssumption DEF Pool!NoMessage, Pool!Ids
<1>4. \A v \in Workers : worker'[v].msg = IF v = w THEN Pool!NoMessage ELSE worker[v].msg
  BY <1>2 DEF Pool!Waiting
<1>5. \A id \in Pool!Ids : Trying(id)' => Trying(id)
  BY <1>3, <1>4 DEF Trying
<1>6. Retried \subseteq Retried'
  BY <1>5, RetriedKept
<1>7. ASSUME worker[w].msg # Pool!NoMessage, worker[w].msg.attempts < MaxRetries
      PROVE  Cardinality(Retried') > Cardinality(Retried)
  <2>1. PICK id, n : id = worker[w].msg.id /\ n = runs[worker[w].msg.id]
    OBVIOUS
  <2>2. /\ worker[w].msg \in Pool!Message /\ n = worker[w].msg.attempts + 1
        /\ \A v \in Workers \ {w} : worker[v].msg.id # id
    BY <1>7, <2>1, PoolFacts
  <2>3. id \in Pool!Ids /\ worker[w].msg.attempts \in Nat
    BY <2>1, <2>2 DEF Pool!Message
  <2> DEFINE p == <<id, n>>
  <2>4. n \in 1 .. MaxRetries /\ p \in Pool!Ids \X (1 .. MaxRetries) /\ p[1] = id /\ p[2] = n
    BY <1>7, <2>2, <2>3, SystemAssumption
  <2>5. p \notin Retried
    BY <2>1, <2>4 DEF Retried, Trying
  <2>6. p \in Retried'
    <3>1. \A v \in Workers : worker'[v].msg.id # id
      BY <1>3, <1>4, <2>2, <2>3
    <3>2. ~Trying(id)'
      BY <3>1 DEF Trying
    <3> QED BY <2>1, <2>4, <3>2 DEF Retried
  <2> HIDE DEF p
  <2>7. Retried \cup {p} \in SUBSET Retried'
    BY <1>6, <2>6
  <2>8. IsFiniteSet(Retried') /\ Cardinality(Retried') \in Nat /\ Cardinality(Retried) \in Nat
    BY RetriedBounded
  <2>9. Cardinality(Retried \cup {p}) = Cardinality(Retried) + 1
    BY <2>5, RetriedBounded, FS_AddElement
  <2>10. Cardinality(Retried \cup {p}) <= Cardinality(Retried')
    BY <2>7, <2>8, FS_Subset
  <2> QED BY <2>8, <2>9, <2>10
<1> QED BY <1>6, <1>7

LEMMA RetriedGrows ==
  ASSUME PoolP!PoolInv, [Next]_vars
  PROVE  Retried \subseteq Retried'
<1>1. Pool!TypeOK
  BY PoolFacts
<1>2. worker \in [Workers -> Pool!Task]
  BY <1>1 DEF Pool!TypeOK
<1>3. ASSUME UNCHANGED <<worker, runs>> PROVE Retried \subseteq Retried'
  BY <1>3, RetriedKept DEF Trying
<1>4. ASSUME NEW w \in Workers, UNCHANGED runs, NEW pc, worker' = [worker EXCEPT ![w].pc = pc]
      PROVE  Retried \subseteq Retried'
  <2>1. \A v \in Workers : worker'[v].msg = worker[v].msg
    BY <1>2, <1>4 DEF Pool!Task
  <2> QED BY <1>4, <2>1, RetriedKept DEF Trying
<1>5. ASSUME UNCHANGED runs, Pool!Fresh PROVE Retried \subseteq Retried'
  <2>1. \A v \in Workers : worker'[v].msg = Pool!NoMessage
    BY <1>5 DEF Pool!Fresh, Pool!Waiting
  <2>2. Pool!NoMessage.id \notin Pool!Ids
    BY JobsAssumption DEF Pool!NoMessage, Pool!Ids
  <2> QED BY <1>5, <2>1, <2>2, RetriedKept DEF Trying
<1>6. ASSUME NEW w \in Workers, NEW ok \in BOOLEAN, Pool!Processed(w, ok)
      PROVE  Retried \subseteq Retried'
  <2>1. CASE ok
    BY <1>6, <2>1, RetriedPutDown DEF Pool!Processed
  <2>2. CASE ~ok
    BY <1>4, <1>6, <2>2 DEF Pool!Processed
  <2> QED BY <2>1, <2>2
<1>7. ASSUME NEW w \in Workers, WorkerLoop(w) PROVE Retried \subseteq Retried'
  <2>1. CASE Take(w)
    BY <2>1, RetriedTake DEF Take
  <2>2. CASE TryMark(w) \/ ReadStatus(w) \/ SetOutputDir(w) \/ Complete(w) \/ Fail(w)
    BY <1>3, <1>6, <2>2 DEF TryMark, ReadStatus, SetOutputDir, Complete, Fail, Return, pool
  <2>3. CASE HandleFailure(w)
    BY <2>3, RetriedPutDown DEF HandleFailure, Pool!HandleFailure, Pool!HandleFailureError
  <2>4. CASE Pool!WorkerExit(w)
    BY <1>4, <2>4 DEF Pool!WorkerExit
  <2> QED BY <1>7, <2>1, <2>2, <2>3, <2>4 DEF WorkerLoop
<1>8. ASSUME NEW s \in Sweepers, Sweep(s) PROVE Retried \subseteq Retried'
  BY <1>3, <1>8 DEF Sweep, BeginSweep, EnqueueNext, SweepError, Sweeping, Pool!Enqueue, pool, Pool!pool
<1>9. ASSUME NEW j \in Jobs, Submit(j) \/ Age(j) PROVE Retried \subseteq Retried'
  BY <1>3, <1>9 DEF Submit, Age, Sweeping, Pool!Enqueue, pool, Pool!pool
<1>10. CASE Dispatcher
  BY <1>3, <1>10 DEF Dispatcher, Pool!Dispatcher, Pool!Dequeue, Pool!DequeueError,
     Pool!DequeueTimeout, Pool!Dispatch, Pool!DispatcherExit, Pool!vars, Pool!pool
<1>11. CASE Promoter
  BY <1>3, <1>11 DEF Promoter, Pool!Promote, Pool!PromoterExit, Pool!pool
<1>12. CASE Stop \/ UNCHANGED vars
  BY <1>3, <1>12 DEF Stop, Pool!Stop, vars, pool
<1>13. CASE Restart \/ Crash
  BY <1>5, <1>13 DEF Restart, Crash, Pool!Restart, Pool!Crash
<1> QED BY <1>7, <1>8, <1>9, <1>10, <1>11, <1>12, <1>13 DEF Next

\* Nothing goes wrong but at the cost of the other side.
LEMMA Balanced ==
  ASSUME Accounted, mishaps \in Nat, mishaps' \in Nat, upsets \in Nat, upsets' \in Nat,
         Retried \subseteq Retried',
         mishaps' + Cut' + upsets <= mishaps + Cut + upsets'
  PROVE  Accounted'
<1>1. /\ Cardinality(Retried) \in Nat /\ Cardinality(Retried') \in Nat
      /\ Cardinality(Retried) <= Cardinality(Retried')
  <2>1. Retried \in SUBSET Retried'
    OBVIOUS
  <2> QED BY <2>1, RetriedBounded, FS_Subset
<1>2. Cut \in Nat /\ Cut' \in Nat
  BY DEF Cut, Bit
<1>3. mishaps + Cut <= upsets + Cardinality(Retried)
  BY DEF Accounted
<1>4. PICK m \in Nat, n \in Nat, u \in Nat, v \in Nat, c \in Nat, d \in Nat, r \in Nat, t \in Nat :
        /\ m = mishaps /\ n = mishaps' /\ u = upsets /\ v = upsets'
        /\ c = Cut /\ d = Cut' /\ r = Cardinality(Retried) /\ t = Cardinality(Retried')
  BY <1>1, <1>2
<1>5. m + c <= u + r /\ r <= t /\ n + d + u <= m + c + v
  BY <1>1, <1>3, <1>4, Zenon
<1>6. n + d <= v + t
  BY <1>5
<1> QED BY <1>4, <1>6, Zenon DEF Accounted

LEMMA MishapsTyped ==
  ASSUME PoolP!PoolInv, RecoveryP!SweepInv, [Next]_vars
  PROVE  mishaps \in Nat /\ upsets \in Nat /\ upsets' \in Nat /\ upsets' <= MaxUpsets
<1>1. mishaps \in 0 .. MaxUpsets + MaxRetries * MaxSent * Cardinality(Jobs)
  BY RecoveryFacts, Zenon DEF Recovery!TypeOK
<1>2. upsets \in 0 .. MaxUpsets
  BY PoolFacts DEF Pool!TypeOK
<1>3. upsets' \in 0 .. MaxUpsets
  BY PoolKept DEF PoolP!PoolInv, PoolP!TypeOK
<1> QED BY <1>1, <1>2, <1>3, JobCount, SystemAssumption

\* A cancelled process begins no sweep.
LEMMA NoNewCut ==
  ASSUME Recovery!TypeOK, [Next]_vars, ~Stop
  PROVE  cancelled' /\ sweep'[Home].pc # "idle" => cancelled /\ sweep[Home].pc # "idle"
<1>1. Home \in Sweepers /\ sweep \in [Sweepers -> Recovery!Sweep]
  BY SystemAssumption DEF Recovery!TypeOK
<1>2. ASSUME UNCHANGED cancelled, UNCHANGED sweep
      PROVE  cancelled' /\ sweep'[Home].pc # "idle" => cancelled /\ sweep[Home].pc # "idle"
  BY <1>2
<1>3. ASSUME NEW s \in Sweepers, NEW c, sweep' = [sweep EXCEPT ![s] = c], UNCHANGED cancelled,
             sweep[s].pc # "idle"
      PROVE  cancelled' /\ sweep'[Home].pc # "idle" => cancelled /\ sweep[Home].pc # "idle"
  BY <1>1, <1>3
<1>4. ASSUME NEW s \in Sweepers, BeginSweep(s)
      PROVE  cancelled' /\ sweep'[Home].pc # "idle" => cancelled /\ sweep[Home].pc # "idle"
  BY <1>1, <1>4 DEF BeginSweep, Cancelled, Sweeping, pool, Recovery!Begin, Recovery!Goto
<1>5. ASSUME NEW s \in Sweepers, Sweep(s), ~BeginSweep(s)
      PROVE  cancelled' /\ sweep'[Home].pc # "idle" => cancelled /\ sweep[Home].pc # "idle"
  <2>1. UNCHANGED cancelled
    BY <1>5 DEF Sweep, EnqueueNext, SweepError, Sweeping, Pool!Enqueue, pool, Pool!pool
  <2>2. sweep[s].pc # "idle" /\ \E c : sweep' = [sweep EXCEPT ![s] = c]
    BY <1>5 DEF Sweep, EnqueueNext, SweepError, Recovery!EnqueueNext, Recovery!ListingError,
       Recovery!EnqueueError, Recovery!UpdateError, Recovery!ListProcessing, Recovery!ListPending,
       Recovery!UpdateNext, Recovery!MeasureQueue, Recovery!Continue, Recovery!Goto, Recovery!Return
  <2> QED BY <1>3, <2>1, <2>2
<1>6. ASSUME NEW j \in Jobs, Submit(j)
      PROVE  cancelled' /\ sweep'[Home].pc # "idle" => cancelled /\ sweep[Home].pc # "idle"
  BY <1>2, <1>6 DEF Submit, Pool!Enqueue, pool, Pool!pool
<1>7. ASSUME NEW j \in Jobs, Age(j)
      PROVE  cancelled' /\ sweep'[Home].pc # "idle" => cancelled /\ sweep[Home].pc # "idle"
  BY <1>1, <1>7 DEF Age, Sweeping, pool, Recovery!Age
<1>8. ASSUME NEW w \in Workers, WorkerLoop(w)
      PROVE  cancelled' /\ sweep'[Home].pc # "idle" => cancelled /\ sweep[Home].pc # "idle"
  <2>1. UNCHANGED <<cancelled, sweep>>
    BY <1>8 DEF WorkerLoop, Take, TryMark, ReadStatus, SetOutputDir, Complete, Fail, HandleFailure, Return,
       Calling, Pool!Take, Pool!Processed, Pool!HandleFailure, Pool!HandleFailureError, Pool!WorkerExit,
       pool, table
  <2> QED BY <1>2, <2>1
<1>9. CASE Dispatcher
  BY <1>2, <1>9 DEF Dispatcher, Pool!Dispatcher, Pool!Dequeue, Pool!DequeueError,
     Pool!DequeueTimeout, Pool!Dispatch, Pool!DispatcherExit, Pool!vars, Pool!pool, table
<1>10. CASE Promoter
  BY <1>2, <1>10 DEF Promoter, Pool!Promote, Pool!PromoterExit, Pool!pool, table
<1>11. CASE Restart \/ Crash
  BY <1>11 DEF Restart, Crash, Pool!Restart, Pool!Crash, Pool!Fresh
<1>12. CASE UNCHANGED vars
  BY <1>2, <1>12 DEF vars, pool, table
<1> QED BY <1>4, <1>5, <1>6, <1>7, <1>8, <1>9, <1>10, <1>11, <1>12 DEF Next

\* A retry, the one mishap that nothing went wrong for.
Retries(w) == HandleFailure(w) /\ retry' # retry

\* Any other mishap comes with an upset, or is the sweep that a cancellation cut
\* short.
LEMMA MishapPaid ==
  ASSUME PoolP!PoolInv, RecoveryP!SweepInv, [Next]_vars, \A w \in Workers : ~Retries(w)
  PROVE  /\ mishaps' \in {mishaps, mishaps + 1}
         /\ mishaps' + Cut' + upsets <= mishaps + Cut + upsets'
<1> DEFINE Balance == /\ mishaps' \in {mishaps, mishaps + 1}
                      /\ mishaps' + Cut' + upsets <= mishaps + Cut + upsets'
<1>1. Pool!TypeOK /\ Recovery!TypeOK /\ Home \in Sweepers
  BY PoolFacts, RecoveryFacts, SystemAssumption
<1>2. mishaps \in Nat /\ upsets \in Nat /\ upsets' \in Nat
  BY MishapsTyped
<1>3. Cut \in {0, 1} /\ Cut' \in {0, 1} /\ (~Stop => Cut' <= Cut)
  BY <1>1, NoNewCut DEF Cut, Bit
<1>4. \A m, u, v \in Nat : \A c, d \in {0, 1} :
        /\ d <= c /\ v >= u => m + d + u <= m + c + v
        /\ d <= c /\ v = u + 1 => (m + 1) + d + u <= m + c + v
        /\ v = u + 1 => m + d + u <= m + 0 + v /\ (m + 1) + 0 + u <= m + c + v
        /\ (m + 1) + 0 + u <= m + 1 + u
  OBVIOUS
<1>5. ASSUME UNCHANGED mishaps, upsets' >= upsets, ~Stop PROVE Balance
  BY <1>2, <1>3, <1>4, <1>5, Zenon
<1>6. ASSUME mishaps' = mishaps + 1, upsets' = upsets + 1, ~Stop PROVE Balance
  BY <1>2, <1>3, <1>4, <1>6, Zenon
<1>7. ASSUME Stop PROVE Balance
  <2>1. mishaps' = mishaps /\ upsets' = upsets + 1 /\ Cut = 0
    BY <1>7 DEF Stop, Pool!Stop, Pool!Upset, Cut, Bit
  <2> QED BY <1>2, <1>3, <1>4, <2>1, Zenon
<1>8. ASSUME Crash PROVE Balance
  <2>1. mishaps' = mishaps + 1 /\ upsets' = upsets + 1 /\ Cut' = 0
    BY <1>8 DEF Crash, Pool!Crash, Pool!Upset, Pool!Fresh, Cut, Bit
  <2> QED BY <1>2, <1>3, <1>4, <2>1, Zenon
<1>9. ASSUME NEW w \in Workers, HandleFailure(w), ~Stop PROVE Balance
  <2>1. mishaps' = mishaps /\ upsets' \in {upsets, upsets + 1}
    BY <1>9 DEF Retries, HandleFailure, Pool!HandleFailure, Pool!HandleFailureError, Pool!Upset
  <2> QED BY <1>2, <1>5, <1>9, <2>1
<1>10. ASSUME NEW s \in Sweepers, SweepError(s), ~Stop PROVE Balance
  <2>1. mishaps' = mishaps + 1
    BY <1>10 DEF SweepError
  <2>2. CASE Cancelled(s) /\ sweep[s].pc \in {"len", "enqueue"}
    <3>1. upsets' = upsets /\ s = Home /\ Cut = 1
      BY <1>10, <2>2 DEF SweepError, Fault, Cancelled, Cut, Bit
    <3>2. sweep'[Home].pc = "idle"
      BY <1>1, <1>10, <3>1 DEF SweepError, Recovery!TypeOK, Recovery!ListingError,
         Recovery!EnqueueError, Recovery!UpdateError, Recovery!Return, Recovery!Idle
    <3>3. Cut' = 0
      BY <3>2 DEF Cut, Bit
    <3> QED BY <1>2, <1>4, <2>1, <3>1, <3>3, Zenon
  <2>3. CASE ~(Cancelled(s) /\ sweep[s].pc \in {"len", "enqueue"})
    <3>1. upsets' = upsets + 1
      BY <1>10, <2>3 DEF SweepError, Fault, Pool!Upset
    <3> QED BY <1>6, <1>10, <2>1, <3>1
  <2> QED BY <2>2, <2>3
<1>11. ASSUME NEW s \in Sweepers, Sweep(s), ~SweepError(s), ~Stop PROVE Balance
  <2>1. UNCHANGED <<mishaps, upsets>>
    BY <1>11 DEF Sweep, BeginSweep, EnqueueNext, Sweeping, pool, Pool!Enqueue, Recovery!Begin,
       Recovery!EnqueueNext, Recovery!ListProcessing, Recovery!ListPending, Recovery!UpdateNext,
       Recovery!MeasureQueue, Recovery!history
  <2> QED BY <1>2, <1>5, <1>11, <2>1
<1>12. ASSUME NEW w \in Workers, WorkerLoop(w), ~HandleFailure(w), ~Stop PROVE Balance
  <2>1. UNCHANGED <<mishaps, upsets>>
    BY <1>12 DEF WorkerLoop, Take, TryMark, ReadStatus, SetOutputDir, Complete, Fail, Return, Calling,
       Pool!Take, Pool!Processed, Pool!WorkerExit, pool
  <2> QED BY <1>2, <1>5, <1>12, <2>1
<1>13. ASSUME NEW j \in Jobs, Submit(j) \/ Age(j), ~Stop PROVE Balance
  <2>1. UNCHANGED <<mishaps, upsets>>
    BY <1>13 DEF Submit, Age, Sweeping, Pool!Enqueue, Recovery!Age, pool
  <2> QED BY <1>2, <1>5, <1>13, <2>1
<1>14. ASSUME Dispatcher \/ Promoter \/ Restart \/ UNCHANGED vars, ~Stop PROVE Balance
  <2>1. UNCHANGED mishaps /\ upsets' \in {upsets, upsets + 1}
    BY <1>14 DEF Dispatcher, Pool!Dispatcher, Pool!Dequeue, Pool!DequeueError, Pool!DequeueTimeout,
       Pool!Dispatch, Pool!DispatcherExit, Pool!vars, Promoter, Pool!Promote, Pool!PromoterExit,
       Restart, Pool!Restart, Pool!Upset, vars, pool
  <2> QED BY <1>2, <1>5, <1>14, <2>1
<1> QED BY <1>7, <1>8, <1>9, <1>10, <1>11, <1>12, <1>13, <1>14 DEF Next

\* A retry takes an attempt that nobody can make again.
LEMMA RetryPaid ==
  ASSUME PoolP!PoolInv, RecoveryP!SweepInv, Accounted, [Next]_vars,
         NEW w \in Workers, Retries(w)
  PROVE  Accounted' /\ mishaps' = mishaps + 1
<1>1. Pool!TypeOK /\ Recovery!TypeOK
  BY PoolFacts, RecoveryFacts
<1>2. mishaps \in Nat /\ upsets \in Nat /\ upsets' \in Nat
  BY MishapsTyped
<1>3. /\ worker' = [worker EXCEPT ![w] = Pool!Waiting] /\ UNCHANGED <<runs, cancelled, sweep>>
      /\ worker[w].pc = "failing"
      /\ upsets' \in {upsets, upsets + 1}
  BY DEF Retries, HandleFailure, Pool!HandleFailure, Pool!HandleFailureError, Pool!Upset, table
<1>4. mishaps' = mishaps + 1
  BY DEF Retries, HandleFailure
<1>5. Pool!PutBack(Pool!Bumped(worker[w].msg))
  BY DEF Retries, HandleFailure, Pool!HandleFailure, Pool!HandleFailureError, Pool!redis
<1>6. worker[w].msg # Pool!NoMessage
  BY <1>1, <1>3 DEF Pool!TypeOK
<1>7. worker[w].msg.attempts \in Nat
  BY <1>6, PoolFacts DEF Pool!Message
<1>8. ~(worker[w].msg.attempts + 1 > MaxRetries)
  BY <1>5 DEF Retries, Pool!PutBack, Pool!Bumped
<1>9. worker[w].msg.attempts < MaxRetries
  BY <1>7, <1>8, SystemAssumption
<1>10. Cardinality(Retried') > Cardinality(Retried)
  BY <1>3, <1>6, <1>9, RetriedPutDown
<1>11. mishaps + Cut <= upsets + Cardinality(Retried)
  BY DEF Accounted
<1>12. Cardinality(Retried) \in Nat /\ Cardinality(Retried') \in Nat
  BY RetriedBounded
<1>13. Cut \in Nat /\ Cut' = Cut /\ upsets <= upsets'
  BY <1>2, <1>3 DEF Cut, Bit
<1>14. \A m, c, u, v, r, t \in Nat : m + c <= u + r /\ r < t /\ u <= v => m + 1 + c <= v + t
  OBVIOUS
<1>15. mishaps + 1 + Cut' <= upsets' + Cardinality(Retried')
  BY <1>2, <1>10, <1>11, <1>12, <1>13, <1>14
<1> QED BY <1>4, <1>15 DEF Accounted

LEMMA AccountKept ==
  ASSUME PoolP!PoolInv, RecoveryP!SweepInv, Accounted, [Next]_vars
  PROVE  /\ Accounted'
         /\ mishaps \in Nat /\ mishaps' \in {mishaps, mishaps + 1}
         /\ mishaps' <= MaxUpsets + MaxRetries * MaxSent * Cardinality(Jobs)
<1>1. mishaps \in Nat /\ upsets \in Nat /\ upsets' \in Nat /\ upsets' <= MaxUpsets
  BY MishapsTyped
<1>2. Accounted' /\ mishaps' \in {mishaps, mishaps + 1}
  <2>1. CASE \E w \in Workers : Retries(w)
    BY <2>1, RetryPaid
  <2>2. CASE \A w \in Workers : ~Retries(w)
    <3>1. /\ mishaps' \in {mishaps, mishaps + 1}
          /\ mishaps' + Cut' + upsets <= mishaps + Cut + upsets'
      BY <2>2, MishapPaid
    <3>2. mishaps' \in Nat
      BY <1>1, <3>1
    <3> QED BY <1>1, <3>1, <3>2, RetriedGrows, Balanced
  <2> QED BY <2>1, <2>2
<1>3. mishaps' + Cut' <= upsets' + Cardinality(Retried')
  BY <1>2 DEF Accounted
<1>4. /\ Cardinality(Retried') \in Nat
      /\ Cardinality(Retried') <= MaxRetries * MaxSent * Cardinality(Jobs)
  BY RetriedBounded
<1>5. mishaps' \in Nat /\ Cut' \in Nat
  BY <1>1, <1>2 DEF Cut, Bit
<1>6. mishaps' <= MaxUpsets + MaxRetries * MaxSent * Cardinality(Jobs)
  BY <1>1, <1>3, <1>4, <1>5, JobCount, SystemAssumption
<1> QED BY <1>1, <1>2, <1>6

-----------------------------------------------------------------------------
(* The steps, as recovery sees them.                                       *)

LEMMA RetryAdd ==
  ASSUME IsFiniteSet(retry), NEW m, m \notin retry, NEW j
  PROVE  RetryCount(j, retry \cup {m}) = RetryCount(j, retry) + Bit(JobOf(m) = j)
<1>1. InRetry(j, retry) \in SUBSET retry
  BY DEF InRetry
<1>2. IsFiniteSet(InRetry(j, retry))
  BY <1>1, FS_Subset
<1>3. InRetry(j, retry) \ {m} = InRetry(j, retry \cup {m}) \ {m}
  BY DEF InRetry
<1>4. m \notin InRetry(j, retry) /\ (m \in InRetry(j, retry \cup {m}) <=> JobOf(m) = j)
  BY DEF InRetry
<1>5. /\ Cardinality(InRetry(j, retry)) \in Nat
      /\ Cardinality(InRetry(j, retry \cup {m}))
           = Cardinality(InRetry(j, retry)) - Bit(m \in InRetry(j, retry))
               + Bit(m \in InRetry(j, retry \cup {m}))
  BY <1>2, <1>3, OneElement
<1> QED BY <1>4, <1>5 DEF RetryCount, Bit

\* A batch takes its messages from the retry set, each once.
LEMMA RetryBatch ==
  ASSUME retry \subseteq Pool!Message, IsFiniteSet(retry),
         NEW s \in Pool!Batches(retry, RetryMoveBatch)
  PROVE  /\ s \in Seq(Pool!Message)
         /\ JobList(s) \in UNION {[1 .. n -> Jobs] : n \in 1 .. RetryMoveBatch}
         /\ \A j : /\ Recovery!Times(j, JobList(s)) = Count(j, s)
                   /\ Count(j, s) \in Nat /\ Count(j, s) <= RetryCount(j, retry)
                   /\ RetryCount(j, retry \ Pool!Members(s)) = RetryCount(j, retry) - Count(j, s)
<1>1. PICK n \in 1 .. RetryMoveBatch : s \in [1 .. n -> retry]
  BY DEF Pool!Batches
<1>2. \A i, k \in DOMAIN s : i # k => s[i] # s[k]
  BY DEF Pool!Batches
<1>3. n \in Nat /\ DOMAIN s = 1 .. n /\ \A i \in 1 .. n : s[i] \in retry
  BY <1>1
<1>4. s \in Seq(Pool!Message)
  BY <1>1, <1>3, SeqDef
<1>5. JobList(s) \in [1 .. n -> Jobs]
  BY <1>3, JobOfMessage DEF JobList
<1>6. ASSUME NEW j
      PROVE  /\ Recovery!Times(j, JobList(s)) = Count(j, s)
             /\ Count(j, s) \in Nat /\ Count(j, s) <= RetryCount(j, retry)
             /\ RetryCount(j, retry \ Pool!Members(s)) = RetryCount(j, retry) - Count(j, s)
  <2>1. Recovery!Times(j, JobList(s)) = Count(j, s)
    <3>1. {i \in DOMAIN JobList(s) : JobList(s)[i] = j} = Where(j, s)
      BY DEF JobList, Where
    <3> QED BY <3>1, CardinalityIs, CountIs DEF Recovery!Times
  <2> DEFINE f == [i \in Where(j, s) |-> s[i]]
             moved == InRetry(j, Pool!Members(s))
  <2>2. f \in Bijection(Where(j, s), moved)
    <3>1. f \in [Where(j, s) -> moved]
      BY DEF Where, InRetry, Pool!Members
    <3>2. \A a, b \in Where(j, s) : f[a] = f[b] => a = b
      BY <1>2 DEF Where
    <3>3. \A m \in moved : \E a \in Where(j, s) : f[a] = m
      BY DEF Where, InRetry, Pool!Members
    <3> QED BY <3>1, <3>2, <3>3 DEF Bijection, Injection, Surjection, IsInjective
  <2>3. IsFiniteSet(Where(j, s)) /\ Count(j, s) \in Nat
    BY <1>4, WhereFinite
  <2> HIDE DEF f
  <2>4. IsFiniteSet(moved) /\ Cardinality(moved) = Count(j, s)
    BY <2>2, <2>3, FS_Bijection, CountIs DEF ExistsBijection
  <2>5. moved \in SUBSET InRetry(j, retry)
    BY <1>3 DEF InRetry, Pool!Members
  <2>6. InRetry(j, retry \ Pool!Members(s)) = InRetry(j, retry) \ moved
    BY DEF InRetry
  <2>7. IsFiniteSet(InRetry(j, retry))
    <3>1. InRetry(j, retry) \in SUBSET retry
      BY DEF InRetry
    <3> QED BY <3>1, FS_Subset
  <2> HIDE DEF moved
  <2>8. /\ Cardinality(InRetry(j, retry)) \in Nat
        /\ Cardinality(moved) <= Cardinality(InRetry(j, retry))
    BY <2>5, <2>7, FS_Subset, FS_CardinalityType
  <2>9. InRetry(j, retry) \cap moved = moved
    BY <2>5
  <2>10. Cardinality(InRetry(j, retry) \ moved)
           = Cardinality(InRetry(j, retry)) - Cardinality(InRetry(j, retry) \cap moved)
    BY <2>4, <2>7, FS_Difference
  <2> QED BY <2>1, <2>3, <2>4, <2>6, <2>8, <2>9, <2>10 DEF RetryCount
<1> QED BY <1>1, <1>4, <1>5, <1>6

LEMMA SameSeen ==
  ASSUME UNCHANGED <<main, retry, hand, channel, stage>>,
         \A w \in Workers : worker'[w].msg = worker[w].msg
  PROVE  Queued' = Queued /\ Taken' = Taken /\ Retrying' = Retrying /\ Holders' = Holders
BY DEF Queued, Taken, Retrying, Holders, Waits, Holds

LEMMA StutterSeen ==
  ASSUME Queued' = Queued, Taken' = Taken, Retrying' = Retrying, Holders' = Holders,
         UNCHANGED <<table, mishaps>>
  PROVE  UNCHANGED Recovery!vars
BY DEF Recovery!vars, Recovery!messages, Recovery!history, table

\* Whatever is submitted is within the bound of RecoveryService.
LEMMA LoadHolds ==
  ASSUME NEW j \in Jobs, jobs[j].status = "none"
  PROVE  Recovery!Load(Recovery!Sweeps, Recovery!Rows + 1)
<1> DEFINE busy == {s \in Sweepers : sweep[s].pc # "idle"}
           rows == {k \in Jobs : Recovery!Exists(jobs, k)}
<1>1. IsFiniteSet(Sweepers) /\ IsFiniteSet(Jobs)
  BY SystemAssumption
<1>2. busy \in SUBSET Sweepers /\ rows \in SUBSET Jobs
  OBVIOUS
<1>3. j \notin rows
  BY DEF Recovery!Exists, Recovery!Status
<1>4. Recovery!Sweeps = Cardinality(busy) /\ Recovery!Rows = Cardinality(rows)
  BY CardinalityIs DEF Recovery!Sweeps, Recovery!Rows
<1> HIDE DEF busy, rows
<1>5. IsFiniteSet(busy) /\ Cardinality(busy) \in Nat /\ Cardinality(busy) <= Cardinality(Sweepers)
  BY <1>1, <1>2, FS_Subset, FS_CardinalityType
<1>6. IsFiniteSet(rows) /\ Cardinality(rows) \in Nat
  BY <1>1, <1>2, FS_Subset, FS_CardinalityType
<1>7. rows \cup {j} \in SUBSET Jobs /\ Cardinality(rows \cup {j}) = Cardinality(rows) + 1
  BY <1>2, <1>3, <1>6, FS_AddElement
<1>8. Cardinality(rows) + 1 <= Cardinality(Jobs)
  BY <1>1, <1>7, FS_Subset
<1>9. \A a, b, c, d \in Nat : a <= c /\ b <= d => a * b <= c * d
  <2>1. \A a, b, c \in Nat : a <= c => a * b <= c * b
    OBVIOUS
  <2>2. \A a, b, c \in Nat : a <= c => b * a <= b * c
    OBVIOUS
  <2> QED BY <2>1, <2>2
<1>10. Cardinality(busy) * (Cardinality(rows) + 1) <= Cardinality(Sweepers) * Cardinality(Jobs)
  BY <1>5, <1>6, <1>8, <1>9, JobCount
<1> QED BY <1>4, <1>10 DEF Recovery!Load

LEMMA PushSeen ==
  ASSUME Pool!TypeOK, NEW j \in Jobs, sent[j] < MaxSent,
         main' = Pool!RPush(main, Pool!NewMessage(<<j, sent[j] + 1>>))
  PROVE  Queued' = Append(Queued, j)
<1> DEFINE m == Pool!NewMessage(<<j, sent[j] + 1>>)
<1>1. sent[j] \in 0 .. MaxSent
  BY DEF Pool!TypeOK
<1>2. sent[j] + 1 \in 1 .. MaxSent
  BY <1>1, SystemAssumption
<1>3. m \in Pool!Message /\ JobOf(m) = j
  BY <1>2, SystemAssumption DEF Pool!NewMessage, Pool!Message, Pool!Ids, JobOf
<1>4. main \in Seq(Pool!Message) /\ main' = Append(main, m)
  BY DEF Pool!TypeOK, Pool!RPush
<1> HIDE DEF m
<1>5. JobList(main') = Append(JobList(main), j)
  BY <1>3, <1>4, JobListFacts
<1> QED BY <1>5, Seen

\* Submit
LEMMA SubmitSeen ==
  ASSUME PoolP!PoolInv, NEW j \in Jobs, Submit(j)
  PROVE  Recovery!Next
<1>1. Pool!TypeOK
  BY PoolFacts
<1>2. jobs[j].status = "none" /\ jobs' = Recovery!InsertJob(jobs, j)
  BY TableIs DEF Submit
<1>3. UNCHANGED <<retry, hand, channel, worker, stage, sweep, aged, requeued, mishaps>>
  BY DEF Submit, Pool!Enqueue, pool, Pool!pool
<1>4. Queued' \in {Queued, Append(Queued, j)}
  <2>1. CASE UNCHANGED pool
    BY <2>1 DEF pool, Queued
  <2>2. CASE Pool!Enqueue(j)
    BY <1>1, <2>2, PushSeen DEF Pool!Enqueue
  <2> QED BY <2>1, <2>2 DEF Submit
<1>5. Taken' = Taken /\ Retrying' = Retrying /\ Holders' = Holders
  BY <1>3 DEF Taken, Retrying, Holders, Waits, Holds
<1>6. Recovery!Submit(j)
  BY <1>2, <1>3, <1>4, <1>5, LoadHolds DEF Recovery!Submit, Recovery!history
<1> QED BY <1>6 DEF Recovery!Next, Recovery!Environment

\* BLPOP, and its lost reply
LEMMA DequeueSeen ==
  ASSUME PoolP!PoolInv, Pool!Dequeue \/ Pool!DequeueError, UNCHANGED <<table, stage, mishaps>>
  PROVE  Recovery!Next
<1>1. /\ Pool!TypeOK /\ IsFiniteSet(retry) /\ main \in Seq(Pool!Message) /\ main # <<>>
      /\ main' = Tail(main)
      /\ Taken \in [Jobs -> Nat]
  BY PoolFacts, SeenTyped DEF Pool!Dequeue, Pool!DequeueError, Pool!TypeOK
<1>2. UNCHANGED <<retry, channel, worker>>
  BY DEF Pool!Dequeue, Pool!DequeueError, Pool!pool
<1>3. /\ Queued # <<>> /\ Queued' = Tail(Queued) /\ Head(Queued) = JobOf(Head(main))
      /\ Head(main) \in Pool!Message /\ Head(Queued) \in Jobs
  BY <1>1, JobListFacts, Seen, HeadAndTail, JobOfMessage
<1>4. Retrying' = Retrying /\ Holders' = Holders
  BY <1>2 DEF Retrying, Holders, Holds
<1>5. Taken' \in {Taken, Recovery!Add(Taken, Head(Queued), 1)}
  <2>1. CASE Pool!DequeueError
    BY <2>1 DEF Pool!DequeueError, Pool!pool, Taken, Waits
  <2>2. CASE Pool!Dequeue
    <3>1. hand = <<>> /\ hand' = <<Head(main)>>
      BY <2>2 DEF Pool!Dequeue
    <3>2. ASSUME NEW j \in Jobs
          PROVE  Taken'[j] = IF j = Head(Queued) THEN Taken[j] + 1 ELSE Taken[j]
      <4>1. Count(j, hand) = 0 /\ Count(j, hand') = Bit(JobOf(Head(main)) = j)
        BY <3>1, CountShort
      <4>2. Count(j, channel) \in Nat /\ Count(j, channel') = Count(j, channel)
        BY <1>1, <1>2, WhereFinite DEF Pool!TypeOK
      <4>3. WaitCount(j)' = WaitCount(j) /\ WaitCount(j) \in Nat
        BY <1>2, WorkerSetsFinite DEF WaitCount, Waiters, Waits
      <4>4. /\ Taken[j] = Count(j, hand) + Count(j, channel) + WaitCount(j)
            /\ Taken'[j] = Count(j, hand') + Count(j, channel') + WaitCount(j)'
        BY Seen
      <4> QED BY <1>3, <4>1, <4>2, <4>3, <4>4 DEF Bit
    <3>3. DOMAIN Taken' = Jobs /\ Taken' = [j \in Jobs |-> Taken'[j]]
      BY Seen
    <3>4. Taken' = Recovery!Add(Taken, Head(Queued), 1)
      <4>1. Taken \in [Jobs -> Nat] /\ Head(Queued) \in Jobs
        BY <1>1, <1>3
      <4>2. PICK k \in Jobs : k = Head(Queued)
        BY <4>1
      <4>3. \A j \in Jobs : Taken'[j] = IF j = k THEN Taken[j] + 1 ELSE Taken[j]
        BY <3>2, <4>2
      <4>4. Taken' = Recovery!Add(Taken, k, 1)
        BY <3>3, <4>1, <4>3, AddOne
      <4> QED BY <4>2, <4>4
    <3> QED BY <3>4
  <2> QED BY <2>1, <2>2
<1>6. Recovery!Dequeue
  BY <1>3, <1>4, <1>5 DEF Recovery!Dequeue, Recovery!history, table
<1> QED BY <1>6 DEF Recovery!Next, Recovery!Environment

LEMMA DispatcherSeen ==
  ASSUME PoolP!PoolInv, Dispatcher
  PROVE  [Recovery!Next]_Recovery!vars
<1>1. /\ Pool!TypeOK /\ IsFiniteSet(retry) /\ UNCHANGED <<table, stage, mishaps>>
      /\ hand \in Seq(Pool!Message) /\ channel \in Seq(Pool!Message)
      /\ Taken \in [Jobs -> Nat]
  BY PoolFacts, SeenTyped DEF Dispatcher, Pool!TypeOK
<1>2. CASE Pool!Dequeue \/ Pool!DequeueError
  BY <1>1, <1>2, DequeueSeen
<1>3. CASE Pool!DequeueTimeout
  <2>1. UNCHANGED <<main, retry, hand, channel, worker>>
    BY <1>3 DEF Pool!DequeueTimeout, Pool!vars, Pool!redis, Pool!pool
  <2> QED BY <1>1, <2>1, SameSeen, StutterSeen
<1>4. CASE Pool!Dispatch
  <2>1. /\ channel' = channel \o hand /\ hand' = <<>>
        /\ UNCHANGED <<main, retry, worker>>
    BY <1>4 DEF Pool!Dispatch, Pool!redis
  <2>2. ASSUME NEW j \in Jobs PROVE Taken'[j] = Taken[j]
    <3>1. Count(j, hand') = 0 /\ Count(j, channel') = Count(j, channel) + Count(j, hand)
      BY <1>1, <2>1, CountShort, CountConcat
    <3>2. Count(j, channel) \in Nat /\ Count(j, hand) \in Nat
      BY <1>1, WhereFinite
    <3>3. WaitCount(j)' = WaitCount(j) /\ WaitCount(j) \in Nat
      BY <1>1, <2>1, WorkerSetsFinite DEF WaitCount, Waiters, Waits
    <3>4. /\ Taken[j] = Count(j, hand) + Count(j, channel) + WaitCount(j)
          /\ Taken'[j] = Count(j, hand') + Count(j, channel') + WaitCount(j)'
      BY Seen
    <3> QED BY <3>1, <3>2, <3>3, <3>4
  <2>3. Taken' = Taken
    BY <2>2, Seen
  <2>4. Queued' = Queued /\ Retrying' = Retrying /\ Holders' = Holders
    BY <1>1, <2>1 DEF Queued, Retrying, Holders, Holds
  <2> QED BY <1>1, <2>3, <2>4, StutterSeen
<1>5. CASE Pool!DispatcherExit
  <2>1. hand' = <<>> /\ UNCHANGED <<main, retry, channel, worker>>
    BY <1>5 DEF Pool!DispatcherExit, Pool!redis
  <2>2. ASSUME NEW j \in Jobs PROVE Taken'[j] <= Taken[j] /\ Taken'[j] \in Nat
    <3>1. Count(j, hand') = 0 /\ Count(j, channel') = Count(j, channel)
      BY <2>1, CountShort
    <3>2. Count(j, channel) \in Nat /\ Count(j, hand) \in Nat
      BY <1>1, WhereFinite
    <3>3. WaitCount(j)' = WaitCount(j) /\ WaitCount(j) \in Nat
      BY <1>1, <2>1, WorkerSetsFinite DEF WaitCount, Waiters, Waits
    <3>4. /\ Taken[j] = Count(j, hand) + Count(j, channel) + WaitCount(j)
          /\ Taken'[j] = Count(j, hand') + Count(j, channel') + WaitCount(j)'
      BY Seen
    <3> QED BY <3>1, <3>2, <3>3, <3>4
  <2>3. Taken' \in [Jobs -> Nat]
    BY <2>2, Seen
  <2>4. Queued' = Queued /\ Retrying' = Retrying /\ Holders' = Holders
    BY <1>1, <2>1 DEF Queued, Retrying, Holders, Holds
  <2> QED BY <1>1, <2>2, <2>3, <2>4, DropOrStutter
<1> QED BY <1>2, <1>3, <1>4, <1>5 DEF Dispatcher, Pool!Dispatcher

\* RequeueDue moves the jobs of its batch.
LEMMA PromoterSeen ==
  ASSUME PoolP!PoolInv, Promoter
  PROVE  [Recovery!Next]_Recovery!vars
<1>1. /\ Pool!TypeOK /\ IsFiniteSet(retry) /\ UNCHANGED <<table, stage, mishaps>>
      /\ main \in Seq(Pool!Message) /\ retry \subseteq Pool!Message
  BY PoolFacts DEF Promoter, Pool!TypeOK
<1>2. CASE Pool!PromoterExit
  <2>1. UNCHANGED <<main, retry, hand, channel, worker>>
    BY <1>2 DEF Pool!PromoterExit, Pool!redis
  <2> QED BY <1>1, <2>1, SameSeen, StutterSeen
<1>3. CASE Pool!Promote
  <2>1. PICK s \in Pool!Batches(retry, RetryMoveBatch) :
          retry' = retry \ Pool!Members(s) /\ main' = main \o s
    BY <1>3 DEF Pool!Promote
  <2>2. UNCHANGED <<hand, channel, worker>>
    BY <1>3 DEF Pool!Promote, Pool!pool
  <2>3. /\ s \in Seq(Pool!Message)
        /\ JobList(s) \in UNION {[1 .. n -> Jobs] : n \in 1 .. RetryMoveBatch}
        /\ \A j : /\ Recovery!Times(j, JobList(s)) = Count(j, s)
                  /\ Count(j, s) \in Nat /\ Count(j, s) <= RetryCount(j, retry)
                  /\ RetryCount(j, retry') = RetryCount(j, retry) - Count(j, s)
    BY <1>1, <2>1, RetryBatch
  <2>4. Taken' = Taken /\ Holders' = Holders
    BY <1>1, <2>2 DEF Taken, Holders, Waits, Holds
  <2>5. Queued' = Queued \o JobList(s)
    BY <1>1, <2>1, <2>3, JobListFacts, Seen
  <2>6. \A j \in Jobs : Recovery!Times(j, JobList(s)) <= Retrying[j]
    BY <2>3, Seen
  <2>7. Retrying' = [j \in Jobs |-> Retrying[j] - Recovery!Times(j, JobList(s))]
    BY <2>3, Seen
  <2>8. Recovery!Promote
    BY <1>1, <2>3, <2>4, <2>5, <2>6, <2>7 DEF Recovery!Promote, Recovery!history, table
  <2> QED BY <2>8 DEF Recovery!Next, Recovery!Environment
<1> QED BY <1>2, <1>3 DEF Promoter

LEMMA TakeSeen ==
  ASSUME PoolP!PoolInv, Staged, NEW w \in Workers, Take(w)
  PROVE  UNCHANGED Recovery!vars
<1>1. /\ Pool!TypeOK /\ IsFiniteSet(retry) /\ UNCHANGED <<main, retry, hand, table, mishaps>>
      /\ channel \in Seq(Pool!Message) /\ channel # <<>> /\ channel' = Tail(channel)
      /\ worker[w].pc = "idle"
      /\ worker \in [Workers -> Pool!Task]
      /\ worker' = [worker EXCEPT ![w] = [pc |-> "processing", msg |-> Head(channel)]]
      /\ stage' = [stage EXCEPT ![w] = "mark"]
  BY PoolFacts DEF Take, Pool!Take, Call, Pool!TypeOK, Pool!redis
<1>2. stage \in [Workers -> {"none", "mark", "status", "held", "saved"}]
  BY DEF Staged, Held
<1>3. /\ \A v \in Workers \ {w} : worker'[v] = worker[v] /\ stage'[v] = stage[v]
      /\ worker'[w].msg = Head(channel) /\ stage'[w] = "mark"
  BY <1>1, <1>2
<1>4. JobOf(worker[w].msg) \notin Jobs
  BY <1>1, AtHand
<1>5. ASSUME NEW j \in Jobs
      PROVE  /\ WaitCount(j)' = WaitCount(j) + Bit(JobOf(Head(channel)) = j)
             /\ HoldCount(j)' = HoldCount(j)
  <2>1. /\ ~Waits(w, j) /\ ~Holds(w, j) /\ ~Holds(w, j)'
        /\ Waits(w, j)' <=> JobOf(Head(channel)) = j
    BY <1>3, <1>4 DEF Waits, Holds, Held
  <2>2. /\ WaitCount(j)' = WaitCount(j) - Bit(Waits(w, j)) + Bit(Waits(w, j)')
        /\ HoldCount(j)' = HoldCount(j) - Bit(Holds(w, j)) + Bit(Holds(w, j)')
    BY <1>3, OneWorker
  <2>3. WaitCount(j) \in Nat /\ HoldCount(j) \in Nat
    BY WorkerSetsFinite
  <2> QED BY <2>1, <2>2, <2>3 DEF Bit
<1>6. ASSUME NEW j \in Jobs PROVE Taken'[j] = Taken[j] /\ Holders'[j] = Holders[j]
  <2>1. Count(j, channel) = Bit(JobOf(Head(channel)) = j) + Count(j, channel')
    BY <1>1, HeadAndTail
  <2>2. Count(j, channel') \in Nat /\ Count(j, hand) \in Nat /\ Count(j, hand') = Count(j, hand)
    <3>1. channel' \in Seq(Pool!Message) /\ hand \in Seq(Pool!Message)
      BY <1>1, HeadAndTail DEF Pool!TypeOK
    <3> QED BY <1>1, <3>1, WhereFinite
  <2>3. WaitCount(j) \in Nat /\ Bit(JobOf(Head(channel)) = j) \in Nat
    BY WorkerSetsFinite DEF Bit
  <2>4. /\ Taken[j] = Count(j, hand) + Count(j, channel) + WaitCount(j)
        /\ Taken'[j] = Count(j, hand') + Count(j, channel') + WaitCount(j)'
        /\ Holders[j] = HoldCount(j) /\ Holders'[j] = HoldCount(j)'
    BY Seen
  <2> QED BY <1>5, <2>1, <2>2, <2>3, <2>4
<1>7. Taken' = Taken /\ Holders' = Holders
  BY <1>6, Seen
<1>8. Queued' = Queued /\ Retrying' = Retrying
  BY <1>1 DEF Queued, Retrying
<1> QED BY <1>1, <1>7, <1>8, StutterSeen

\* Who waits or holds is counted.
LEMMA Positive ==
  ASSUME Pool!TypeOK, NEW w \in Workers, NEW j \in Jobs
  PROVE  (Waits(w, j) => Taken[j] > 0) /\ (Holds(w, j) => Holders[j] > 0)
<1>1. \A S : IsFiniteSet(S) /\ w \in S => Cardinality(S) \in Nat /\ Cardinality(S) > 0
  BY FS_EmptySet, FS_CardinalityType
<1>2. /\ Waits(w, j) => WaitCount(j) > 0
      /\ Holds(w, j) => HoldCount(j) > 0
  BY <1>1, WorkerSetsFinite DEF WaitCount, HoldCount, Waiters, Keepers
<1>3. Count(j, hand) \in Nat /\ Count(j, channel) \in Nat /\ WaitCount(j) \in Nat
  BY WhereFinite, WorkerSetsFinite DEF Pool!TypeOK
<1>4. Taken[j] = Count(j, hand) + Count(j, channel) + WaitCount(j) /\ Holders[j] = HoldCount(j)
  BY Seen
<1> QED BY <1>2, <1>3, <1>4

\* A call of ProcessJob: the worker's message, and what Return makes of it.
LEMMA CallFacts ==
  ASSUME PoolP!PoolInv, Staged, NEW w \in Workers, stage[w] # "none"
  PROVE  /\ Pool!TypeOK /\ IsFiniteSet(retry)
         /\ Taken \in [Jobs -> Nat] /\ Holders \in [Jobs -> Nat]
         /\ JobOf(worker[w].msg) \in Jobs
         /\ \A s : Call(w, s) =>
              stage'[w] = s /\ \A v \in Workers \ {w} : stage'[v] = stage[v]
         /\ \A ok : Return(w, ok) =>
              /\ UNCHANGED <<main, retry, hand, channel>>
              /\ stage'[w] = "none"
              /\ worker'[w].msg = IF ok THEN Pool!NoMessage ELSE worker[w].msg
              /\ \A v \in Workers \ {w} : worker'[v] = worker[v] /\ stage'[v] = stage[v]
<1>1. /\ Pool!TypeOK /\ IsFiniteSet(retry)
      /\ Taken \in [Jobs -> Nat] /\ Holders \in [Jobs -> Nat]
  BY PoolFacts, SeenTyped
<1>2. JobOf(worker[w].msg) \in Jobs
  BY <1>1, AtHand
<1>3. worker \in [Workers -> Pool!Task]
  BY <1>1 DEF Pool!TypeOK
<1>4. stage \in [Workers -> {"none", "mark", "status", "held", "saved"}]
  BY DEF Staged, Held
<1>5. \A s : Call(w, s) => stage'[w] = s /\ \A v \in Workers \ {w} : stage'[v] = stage[v]
  BY <1>4 DEF Call
<1>6. ASSUME NEW ok, Return(w, ok)
      PROVE  /\ UNCHANGED <<main, retry, hand, channel>>
             /\ stage'[w] = "none"
             /\ worker'[w].msg = IF ok THEN Pool!NoMessage ELSE worker[w].msg
             /\ \A v \in Workers \ {w} : worker'[v] = worker[v] /\ stage'[v] = stage[v]
  <2>1. UNCHANGED <<main, retry, hand, channel>> /\ Call(w, "none")
    BY <1>6 DEF Return, Pool!Processed, Pool!redis
  <2>2. /\ ok => worker' = [worker EXCEPT ![w] = Pool!Waiting]
        /\ ~ok => worker' = [worker EXCEPT ![w].pc = "failing"]
    BY <1>6 DEF Return, Pool!Processed
  <2>3. worker'[w].msg = IF ok THEN Pool!NoMessage ELSE worker[w].msg
    BY <1>3, <2>2 DEF Pool!Waiting, Pool!Task
  <2>4. \A v \in Workers \ {w} : worker'[v] = worker[v]
    BY <1>3, <2>2
  <2> QED BY <1>5, <2>1, <2>3, <2>4
<1> QED BY <1>1, <1>2, <1>5, <1>6

LEMMA TryMarkSeen ==
  ASSUME PoolP!PoolInv, Staged, NEW w \in Workers, TryMark(w)
  PROVE  [Recovery!Next]_Recovery!vars
<1>1. /\ stage[w] = "mark" /\ UNCHANGED <<sweep, aged, requeued, mishaps>>
  BY DEF TryMark, Calling
<1>2. PICK k \in Jobs : k = JobOf(worker[w].msg)
  BY <1>1, CallFacts
<1>3. Waits(w, k) /\ \A j \in Jobs : (Waits(w, j) <=> j = k) /\ ~Holds(w, j)
  BY <1>1, <1>2 DEF Waits, Holds, Held
<1>4. Pool!TypeOK /\ IsFiniteSet(retry) /\ Taken \in [Jobs -> Nat] /\ Holders \in [Jobs -> Nat]
  BY <1>1, CallFacts
<1>5. Taken[k] > 0
  BY <1>3, <1>4, Positive
<1>6. CASE Markable(jobs, k) /\ jobs' = MarkProcessing(jobs, k) /\ Call(w, "held") /\ UNCHANGED pool
  <2>1. UNCHANGED <<main, retry, hand, channel, worker>>
    BY <1>6 DEF pool
  <2>2. stage'[w] = "held" /\ \A v \in Workers \ {w} : worker'[v] = worker[v] /\ stage'[v] = stage[v]
    BY <1>1, <1>6, <2>1, CallFacts
  <2>3. /\ Queued' = Queued
        /\ Taken' = [j \in Jobs |-> Taken'[j]] /\ Holders' = [j \in Jobs |-> Holders'[j]]
        /\ \A j \in Jobs :
              /\ Taken'[j] = Taken[j] - Bit(Waits(w, j)) + Bit(Waits(w, j)')
              /\ Holders'[j] = Holders[j] - Bit(Holds(w, j)) + Bit(Holds(w, j)')
    BY <1>4, <2>1, <2>2, WorkerSeen
  <2>4. \A j \in Jobs : ~Waits(w, j)' /\ (Holds(w, j)' <=> j = k)
    BY <1>2, <2>1, <2>2 DEF Waits, Holds, Held
  <2>5. \A j \in Jobs : Taken[j] \in Nat /\ Holders[j] \in Nat
    BY <1>4
  <2>6. /\ \A j \in Jobs : Taken'[j] = IF j = k THEN Taken[j] - 1 ELSE Taken[j]
        /\ \A j \in Jobs : Holders'[j] = IF j = k THEN Holders[j] + 1 ELSE Holders[j]
    BY <1>3, <2>3, <2>4, <2>5 DEF Bit
  <2>7. Taken' = Recovery!Add(Taken, k, -1)
    BY <1>4, <2>3, <2>6, TakeOne
  <2>8. Holders' = Recovery!Add(Holders, k, 1)
    BY <1>4, <2>3, <2>6, AddOne
  <2>9. Retrying' = Retrying
    BY <2>1 DEF Retrying
  <2>10. Recovery!Acquire(k)
    BY <1>1, <1>5, <1>6, <2>3, <2>7, <2>8, <2>9, TableIs DEF Recovery!Acquire, Recovery!history
  <2> QED BY <2>10 DEF Recovery!Next, Recovery!Environment
<1>7. CASE Call(w, "status") /\ UNCHANGED <<pool, jobs>>
  <2>1. UNCHANGED <<main, retry, hand, channel, worker>>
    BY <1>7 DEF pool
  <2>2. stage'[w] = "status" /\ \A v \in Workers \ {w} : stage'[v] = stage[v]
    BY <1>1, <1>7, CallFacts
  <2>3. \A v \in Workers : stage'[v] \in Held <=> stage[v] \in Held
    BY <1>1, <2>2 DEF Held
  <2>4. Queued' = Queued /\ Taken' = Taken /\ Retrying' = Retrying /\ Holders' = Holders
    BY <2>1, <2>3 DEF Queued, Taken, Retrying, Holders, Waits, Holds
  <2> QED BY <1>1, <1>7, <2>4, StutterSeen DEF table
<1>8. CASE jobs' \in AfterError(jobs, MarkProcessing(jobs, k)) /\ Return(w, FALSE)
  <2>1. /\ UNCHANGED <<main, retry, hand, channel>> /\ stage'[w] = "none"
        /\ worker'[w].msg = worker[w].msg
        /\ \A v \in Workers \ {w} : worker'[v] = worker[v] /\ stage'[v] = stage[v]
    BY <1>1, <1>8, CallFacts
  <2>2. \A v \in Workers : (stage'[v] \in Held <=> stage[v] \in Held) /\ worker'[v].msg = worker[v].msg
    BY <1>1, <2>1 DEF Held
  <2>3. Queued' = Queued /\ Taken' = Taken /\ Retrying' = Retrying /\ Holders' = Holders
    BY <2>1, <2>2 DEF Queued, Taken, Retrying, Holders, Waits, Holds
  <2>4. CASE jobs' = jobs
    BY <1>1, <2>3, <2>4, StutterSeen DEF table
  <2>5. CASE jobs' = MarkProcessing(jobs, k)
    <3>1. Recovery!AcquireError(k)
      BY <1>1, <1>5, <2>3, <2>5, TableIs
         DEF Recovery!AcquireError, Recovery!messages, Recovery!history
    <3> QED BY <3>1 DEF Recovery!Next, Recovery!Environment
  <2> QED BY <1>8, <2>4, <2>5 DEF AfterError
<1> QED BY <1>2, <1>6, <1>7, <1>8 DEF TryMark

LEMMA ReadStatusSeen ==
  ASSUME PoolP!PoolInv, Staged, NEW w \in Workers, ReadStatus(w)
  PROVE  [Recovery!Next]_Recovery!vars
<1>1. stage[w] = "status" /\ UNCHANGED <<table, mishaps>>
  BY DEF ReadStatus, Calling, table
<1>2. PICK ok : Return(w, ok)
  BY DEF ReadStatus
<1>3. Pool!TypeOK /\ IsFiniteSet(retry) /\ Taken \in [Jobs -> Nat] /\ Holders \in [Jobs -> Nat]
  BY <1>1, CallFacts
<1>4. /\ UNCHANGED <<main, retry, hand, channel>> /\ stage'[w] = "none"
      /\ worker'[w].msg = IF ok THEN Pool!NoMessage ELSE worker[w].msg
      /\ \A v \in Workers \ {w} : worker'[v] = worker[v] /\ stage'[v] = stage[v]
  BY <1>1, <1>2, CallFacts
<1>5. /\ Queued' = Queued
      /\ Taken' = [j \in Jobs |-> Taken'[j]] /\ Holders' = [j \in Jobs |-> Holders'[j]]
      /\ \A j \in Jobs :
            /\ Taken'[j] = Taken[j] - Bit(Waits(w, j)) + Bit(Waits(w, j)')
            /\ Holders'[j] = Holders[j] - Bit(Holds(w, j)) + Bit(Holds(w, j)')
  BY <1>3, <1>4, WorkerSeen
<1>6. JobOf(Pool!NoMessage) \notin Jobs
  BY <1>3, AtHand
<1>7. \A j \in Jobs : ~Holds(w, j) /\ ~Holds(w, j)' /\ (Waits(w, j)' => Waits(w, j))
  BY <1>1, <1>4, <1>6 DEF Holds, Waits, Held
<1>8. \A j \in Jobs : Holders[j] \in Nat /\ Taken[j] \in Nat
  BY <1>3
<1>9. Holders' = Holders
  <2>1. \A j \in Jobs : Holders'[j] = Holders[j]
    BY <1>5, <1>7, <1>8 DEF Bit
  <2> QED BY <1>3, <1>5, <2>1
<1>10. \A j \in Jobs : Taken'[j] <= Taken[j] /\ Taken'[j] \in Nat
  <2>1. ASSUME NEW j \in Jobs PROVE Taken'[j] <= Taken[j] /\ Taken'[j] \in Nat
    <3>1. Waits(w, j) => Taken[j] > 0
      BY <1>3, Positive
    <3> QED BY <1>5, <1>7, <1>8, <3>1 DEF Bit
  <2> QED BY <2>1
<1>11. Taken' \in [Jobs -> Nat]
  BY <1>5, <1>10
<1>12. Retrying' = Retrying
  BY <1>4 DEF Retrying
<1> QED BY <1>1, <1>3, <1>5, <1>9, <1>10, <1>11, <1>12, DropOrStutter

\* An attempt ends, done or failed.
LEMMA AttemptEnds ==
  ASSUME PoolP!PoolInv, Staged, NEW w \in Workers, stage[w] \in Held, NEW ok, Return(w, ok),
         NEW k \in Jobs, k = JobOf(worker[w].msg)
  PROVE  /\ Holders[k] > 0 /\ Queued' = Queued /\ Retrying' = Retrying
         /\ Holders' = Recovery!Add(Holders, k, -1)
         /\ ok => Taken' = Taken
         /\ ~ok => Taken' = Recovery!Add(Taken, k, 1)
<1>0. stage[w] # "none"
  BY DEF Held
<1>1. Pool!TypeOK /\ IsFiniteSet(retry) /\ Taken \in [Jobs -> Nat] /\ Holders \in [Jobs -> Nat]
  BY <1>0, CallFacts
<1>2. /\ UNCHANGED <<main, retry, hand, channel>> /\ stage'[w] = "none"
      /\ worker'[w].msg = IF ok THEN Pool!NoMessage ELSE worker[w].msg
      /\ \A v \in Workers \ {w} : worker'[v] = worker[v] /\ stage'[v] = stage[v]
  BY <1>0, CallFacts
<1>3. /\ Queued' = Queued
      /\ Taken' = [j \in Jobs |-> Taken'[j]] /\ Holders' = [j \in Jobs |-> Holders'[j]]
      /\ \A j \in Jobs :
            /\ Taken'[j] = Taken[j] - Bit(Waits(w, j)) + Bit(Waits(w, j)')
            /\ Holders'[j] = Holders[j] - Bit(Holds(w, j)) + Bit(Holds(w, j)')
  BY <1>1, <1>2, WorkerSeen
<1>4. JobOf(Pool!NoMessage) \notin Jobs
  BY <1>1, AtHand
<1>5. \A j \in Jobs : /\ Holds(w, j) <=> j = k
                      /\ ~Holds(w, j)' /\ ~Waits(w, j)
                      /\ Waits(w, j)' <=> ~ok /\ j = k
  BY <1>2, <1>4 DEF Holds, Waits, Held
<1>6. \A j \in Jobs : Holders[j] \in Nat /\ Taken[j] \in Nat
  BY <1>1
<1>7. Holders' = Recovery!Add(Holders, k, -1)
  <2>1. \A j \in Jobs : Holders'[j] = IF j = k THEN Holders[j] - 1 ELSE Holders[j]
    BY <1>3, <1>5, <1>6 DEF Bit
  <2> QED BY <1>1, <1>3, <2>1, TakeOne
<1>8. ok => Taken' = Taken
  <2>1. ok => \A j \in Jobs : Taken'[j] = Taken[j]
    BY <1>3, <1>5, <1>6 DEF Bit
  <2> QED BY <1>1, <1>3, <2>1
<1>9. ~ok => Taken' = Recovery!Add(Taken, k, 1)
  <2>1. ~ok => \A j \in Jobs : Taken'[j] = IF j = k THEN Taken[j] + 1 ELSE Taken[j]
    BY <1>3, <1>5, <1>6 DEF Bit
  <2> QED BY <1>1, <1>3, <2>1, AddOne
<1>10. Holders[k] > 0
  BY <1>1, <1>5, Positive
<1>11. Retrying' = Retrying
  BY <1>2 DEF Retrying
<1> QED BY <1>3, <1>7, <1>8, <1>9, <1>10, <1>11

\* What a holder writes: the status its job has, or one that ends an attempt.
LEMMA HolderWrites ==
  ASSUME NEW w \in Workers, SetOutputDir(w) \/ Complete(w) \/ Fail(w),
         NEW k, k = JobOf(worker[w].msg)
  PROVE  \E last \in Status : jobs' \in {jobs, UpdateJobStatus(jobs, k, last)}
<1>1. PICK last \in {jobs[k].status, "failed", "completed"} :
        jobs' \in {jobs, UpdateJobStatus(jobs, k, last)}
  <2>1. CASE SetOutputDir(w)
    BY <2>1 DEF SetOutputDir, Touch
  <2>2. CASE Complete(w)
    BY <2>2 DEF Complete
  <2>3. CASE Fail(w)
    BY <2>3 DEF Fail, LastWritten, AfterError
  <2> QED BY <2>1, <2>2, <2>3
<1>2. CASE last \in Status
  BY <1>1, <1>2
<1>3. CASE last \notin Status
  <2>1. last = jobs[k].status
    BY <1>1, <1>3 DEF Status
  <2>2. jobs' = jobs
    BY <1>1, <1>3, <2>1 DEF UpdateJobStatus, Exists
  <2> QED BY <2>2 DEF Status
<1> QED BY <1>2, <1>3

LEMMA SetOutputDirSeen ==
  ASSUME PoolP!PoolInv, Staged, NEW w \in Workers, SetOutputDir(w)
  PROVE  Recovery!Next
<1>1. /\ stage[w] = "held" /\ UNCHANGED <<sweep, aged, requeued, mishaps>>
      /\ Call(w, "saved") /\ UNCHANGED <<main, retry, hand, channel, worker>>
  BY DEF SetOutputDir, Calling, pool
<1>2. PICK k \in Jobs : k = JobOf(worker[w].msg)
  BY <1>1, CallFacts
<1>3. jobs' = Recovery!Touch(jobs, k)
  BY <1>2, TableIs DEF SetOutputDir
<1>4. stage'[w] = "saved" /\ \A v \in Workers \ {w} : stage'[v] = stage[v]
  BY <1>1, CallFacts
<1>5. \A v \in Workers : stage'[v] \in Held <=> stage[v] \in Held
  BY <1>1, <1>4 DEF Held
<1>6. Queued' = Queued /\ Taken' = Taken /\ Retrying' = Retrying /\ Holders' = Holders
  BY <1>1, <1>5 DEF Queued, Taken, Retrying, Holders, Waits, Holds
<1>7. Holders[k] > 0
  <2>1. Pool!TypeOK /\ Holds(w, k)
    BY <1>1, <1>2, CallFacts DEF Holds, Held
  <2> QED BY <2>1, Positive
<1>8. Recovery!SetOutputDir(k)
  BY <1>1, <1>3, <1>6, <1>7 DEF Recovery!SetOutputDir, Recovery!messages, Recovery!history
<1> QED BY <1>8 DEF Recovery!Next, Recovery!Environment

LEMMA CompleteSeen ==
  ASSUME PoolP!PoolInv, Staged, NEW w \in Workers, Complete(w)
  PROVE  Recovery!Next
<1>1. stage[w] = "saved" /\ UNCHANGED <<sweep, aged, requeued, mishaps>> /\ Return(w, TRUE)
  BY DEF Complete, Calling
<1>2. PICK k \in Jobs : k = JobOf(worker[w].msg)
  BY <1>1, CallFacts
<1>3. jobs' = Recovery!UpdateJobStatus(jobs, k, "completed")
  BY <1>2, TableIs DEF Complete
<1>4. /\ Holders[k] > 0 /\ Queued' = Queued /\ Retrying' = Retrying
      /\ Holders' = Recovery!Add(Holders, k, -1) /\ Taken' = Taken
  BY <1>1, <1>2, AttemptEnds DEF Held
<1>5. Recovery!Complete(k)
  BY <1>1, <1>3, <1>4 DEF Recovery!Complete, Recovery!messages, Recovery!history
<1> QED BY <1>5 DEF Recovery!Next, Recovery!Environment

LEMMA FailSeen ==
  ASSUME PoolP!PoolInv, Staged, NEW w \in Workers, Fail(w)
  PROVE  Recovery!Next
<1>1. stage[w] \in Held /\ UNCHANGED <<sweep, aged, requeued, mishaps>> /\ Return(w, FALSE)
  BY DEF Fail, Calling
<1>2. PICK k \in Jobs : k = JobOf(worker[w].msg)
  <2>1. stage[w] # "none"
    BY <1>1 DEF Held
  <2> QED BY <2>1, CallFacts
<1>3. \E last \in {jobs[k].status, "failed", "completed"} :
        jobs' \in Recovery!AfterError(jobs, Recovery!UpdateJobStatus(jobs, k, last))
  BY <1>2, TableIs DEF Fail, LastWritten
<1>4. /\ Holders[k] > 0 /\ Queued' = Queued /\ Retrying' = Retrying
      /\ Holders' = Recovery!Add(Holders, k, -1) /\ Taken' = Recovery!Add(Taken, k, 1)
  BY <1>1, <1>2, AttemptEnds
<1>5. Recovery!Fail(k)
  BY <1>1, <1>3, <1>4 DEF Recovery!Fail, Recovery!history
<1> QED BY <1>5 DEF Recovery!Next, Recovery!Environment

\* handleFailure: the message is put back, or the pool is done with it.
LEMMA HandleFailureSeen ==
  ASSUME PoolP!PoolInv, Staged, NEW w \in Workers, HandleFailure(w),
         mishaps \in Nat, mishaps' <= MaxUpsets + MaxRetries * MaxSent * Cardinality(Jobs)
  PROVE  [Recovery!Next]_Recovery!vars
<1>1. /\ UNCHANGED <<hand, channel, table, stage>> /\ worker[w].pc = "failing"
      /\ worker' = [worker EXCEPT ![w] = Pool!Waiting]
  BY DEF HandleFailure, Pool!HandleFailure, Pool!HandleFailureError
<1>2. /\ Pool!TypeOK /\ IsFiniteSet(retry)
      /\ Taken \in [Jobs -> Nat] /\ Holders \in [Jobs -> Nat]
      /\ worker \in [Workers -> Pool!Task]
  BY PoolFacts, SeenTyped DEF Pool!TypeOK
<1>3. /\ worker[w].msg \in Pool!Message /\ worker[w].msg # Pool!NoMessage
      /\ JobOf(worker[w].msg) \in Jobs /\ stage[w] = "none"
      /\ JobOf(Pool!NoMessage) \notin Jobs
  BY <1>1, <1>2, AtHand
<1>4. PICK k \in Jobs : k = JobOf(worker[w].msg)
  BY <1>3
<1>5. UNCHANGED main /\ (retry' = retry \/ retry' = retry \cup {Pool!Bumped(worker[w].msg)})
  BY DEF HandleFailure, Pool!HandleFailure, Pool!HandleFailureError, Pool!PutBack, Pool!redis
<1>6. /\ worker'[w].msg = Pool!NoMessage /\ stage'[w] = "none"
      /\ \A v \in Workers \ {w} : worker'[v] = worker[v] /\ stage'[v] = stage[v]
  BY <1>1, <1>2, <1>3 DEF Pool!Waiting
<1>7. /\ Queued' = Queued
      /\ Taken' = [j \in Jobs |-> Taken'[j]] /\ Holders' = [j \in Jobs |-> Holders'[j]]
      /\ \A j \in Jobs :
            /\ Taken'[j] = Taken[j] - Bit(Waits(w, j)) + Bit(Waits(w, j)')
            /\ Holders'[j] = Holders[j] - Bit(Holds(w, j)) + Bit(Holds(w, j)')
  BY <1>1, <1>2, <1>5, <1>6, WorkerSeen
<1>8. \A j \in Jobs : /\ Waits(w, j) <=> j = k
                      /\ ~Waits(w, j)' /\ ~Holds(w, j) /\ ~Holds(w, j)'
  BY <1>3, <1>4, <1>6 DEF Holds, Waits, Held
<1>9. \A j \in Jobs : Holders[j] \in Nat /\ Taken[j] \in Nat
  BY <1>2
<1>10. Holders' = Holders
  <2>1. \A j \in Jobs : Holders'[j] = Holders[j]
    BY <1>7, <1>8, <1>9 DEF Bit
  <2> QED BY <1>2, <1>7, <2>1
<1>11. \A j \in Jobs : Taken'[j] = IF j = k THEN Taken[j] - 1 ELSE Taken[j]
  BY <1>7, <1>8, <1>9 DEF Bit
<1>12. Taken[k] > 0
  BY <1>2, <1>8, Positive
<1>13. CASE retry' = retry
  <2>1. mishaps' = mishaps /\ Retrying' = Retrying
    BY <1>13 DEF HandleFailure, Retrying
  <2>2. \A j \in Jobs : Taken'[j] <= Taken[j] /\ Taken'[j] \in Nat
    BY <1>9, <1>11, <1>12
  <2>3. Taken' \in [Jobs -> Nat]
    BY <1>7, <2>2
  <2> QED BY <1>1, <1>2, <1>7, <1>10, <2>1, <2>2, <2>3, DropOrStutter
<1>14. CASE retry' # retry
  <2>1. mishaps' = mishaps + 1
    BY <1>14 DEF HandleFailure
  <2>2. PICK m : m = Pool!Bumped(worker[w].msg)
    OBVIOUS
  <2>3. retry' = retry \cup {m} /\ m \notin retry /\ JobOf(m) = k
    BY <1>4, <1>5, <1>14, <2>2 DEF Pool!Bumped, JobOf
  <2>4. \A j \in Jobs : RetryCount(j, retry') = RetryCount(j, retry) + Bit(k = j)
    BY <1>2, <2>3, RetryAdd
  <2>5. Retrying \in [Jobs -> Nat] /\ Retrying' = [j \in Jobs |-> Retrying'[j]]
    BY <1>2, Seen, SeenTyped
  <2>6. \A j \in Jobs : /\ Retrying'[j] = RetryCount(j, retry') /\ Retrying[j] = RetryCount(j, retry)
                        /\ Retrying[j] \in Nat
    BY <2>5, Seen
  <2>7. \A j \in Jobs : Retrying'[j] = IF j = k THEN Retrying[j] + 1 ELSE Retrying[j]
    BY <2>4, <2>6 DEF Bit
  <2>8. Retrying' = Recovery!Add(Retrying, k, 1)
    BY <2>5, <2>7, AddOne
  <2>9. Taken' = Recovery!Add(Taken, k, -1)
    BY <1>2, <1>7, <1>11, TakeOne
  <2>10. Recovery!Upset
    <3>1. MaxUpsets + MaxRetries * MaxSent * Cardinality(Jobs) \in Nat
      BY JobCount, SystemAssumption
    <3>2. \A a, b \in Nat : a + 1 <= b => a < b
      OBVIOUS
    <3>3. mishaps < MaxUpsets + MaxRetries * MaxSent * Cardinality(Jobs)
      BY <2>1, <3>1, <3>2, Zenon
    <3> QED BY <2>1, <3>3, Zenon DEF Recovery!Upset
  <2>11. Recovery!PutBack(k)
    BY <1>1, <1>7, <1>10, <1>12, <2>8, <2>9, <2>10 DEF Recovery!PutBack, table
  <2> QED BY <2>11 DEF Recovery!Next, Recovery!Environment
<1> QED BY <1>13, <1>14

LEMMA WorkerExitSeen ==
  ASSUME PoolP!PoolInv, NEW w \in Workers, Pool!WorkerExit(w), UNCHANGED <<table, stage, mishaps>>
  PROVE  UNCHANGED Recovery!vars
<1>1. worker \in [Workers -> Pool!Task] /\ worker' = [worker EXCEPT ![w].pc = "exited"]
  BY PoolFacts DEF Pool!TypeOK, Pool!WorkerExit
<1>2. \A v \in Workers : worker'[v].msg = worker[v].msg
  BY <1>1 DEF Pool!Task
<1>3. UNCHANGED <<main, retry, hand, channel>>
  BY DEF Pool!WorkerExit, Pool!redis
<1> QED BY <1>2, <1>3, SameSeen, StutterSeen

\* A new pool has nothing in it.
LEMMA FreshSeen ==
  ASSUME Pool!Fresh, \A w \in Workers : stage'[w] = "none"
  PROVE  Taken' = [j \in Jobs |-> 0] /\ Holders' = [j \in Jobs |-> 0]
<1>1. hand' = <<>> /\ channel' = <<>> /\ \A w \in Workers : worker'[w].msg = Pool!NoMessage
  BY DEF Pool!Fresh, Pool!Waiting
<1>2. JobOf(Pool!NoMessage) \notin Jobs
  BY JobsAssumption DEF Pool!NoMessage, JobOf
<1>3. ASSUME NEW j \in Jobs
      PROVE  Count(j, hand') + Count(j, channel') + WaitCount(j)' = 0 /\ HoldCount(j)' = 0
  <2>1. Waiters(j)' = {} /\ Keepers(j)' = {}
    BY <1>1, <1>2 DEF Waiters, Keepers, Waits, Holds
  <2>2. WaitCount(j)' = 0 /\ HoldCount(j)' = 0
    BY <2>1, FS_EmptySet DEF WaitCount, HoldCount
  <2>3. Count(j, hand') = 0 /\ Count(j, channel') = 0
    BY <1>1, CountShort
  <2> QED BY <2>2, <2>3
<1> QED BY <1>3, Seen

LEMMA RestartSeen ==
  ASSUME PoolP!PoolInv, Staged, Restart
  PROVE  [Recovery!Next]_Recovery!vars
<1>1. /\ Pool!Stopped /\ Pool!Fresh /\ UNCHANGED <<main, retry, table, stage, mishaps>>
      /\ Pool!TypeOK /\ IsFiniteSet(retry)
      /\ Taken \in [Jobs -> Nat] /\ Holders \in [Jobs -> Nat]
  BY PoolFacts, SeenTyped DEF Restart, Pool!Restart, Pool!redis
<1>2. \A w \in Workers : stage[w] = "none"
  BY <1>1, AtHand DEF Pool!Stopped
<1>3. Taken' = [j \in Jobs |-> 0] /\ Holders' = [j \in Jobs |-> 0]
  BY <1>1, <1>2, FreshSeen
<1>4. Holders' = Holders
  <2>1. \A j \in Jobs : HoldCount(j) = 0
    <3>1. \A j \in Jobs : Keepers(j) = {}
      BY <1>2 DEF Keepers, Holds, Held
    <3> QED BY <3>1, FS_EmptySet DEF HoldCount
  <2> QED BY <1>3, <2>1, Seen
<1>5. Taken' \in [Jobs -> Nat] /\ \A j \in Jobs : Taken'[j] <= Taken[j]
  BY <1>1, <1>3
<1>6. Queued' = Queued /\ Retrying' = Retrying
  BY <1>1 DEF Queued, Retrying
<1> QED BY <1>1, <1>4, <1>5, <1>6, DropOrStutter

LEMMA CrashSeen ==
  ASSUME PoolP!PoolInv, Staged, Crash,
         mishaps \in Nat, mishaps' <= MaxUpsets + MaxRetries * MaxSent * Cardinality(Jobs)
  PROVE  Recovery!Next
<1>1. /\ Pool!Fresh /\ UNCHANGED <<main, retry>> /\ stage' = [w \in Workers |-> "none"]
      /\ UNCHANGED <<jobs, aged, requeued>> /\ mishaps' = mishaps + 1
      /\ Pool!TypeOK /\ IsFiniteSet(retry) /\ Home \in Sweepers
      /\ Taken \in [Jobs -> Nat] /\ Holders \in [Jobs -> Nat]
  BY PoolFacts, SeenTyped, SystemAssumption DEF Crash, Pool!Crash, Pool!redis
<1>2. Taken' = [j \in Jobs |-> 0] /\ Holders' = [j \in Jobs |-> 0]
  BY <1>1, FreshSeen
<1>3. Taken' \in [Jobs -> Nat] /\ \A j \in Jobs : Taken'[j] <= Taken[j]
  BY <1>1, <1>2
<1>4. Holders' \in [Jobs -> Nat] /\ \A j \in Jobs : Holders'[j] <= Holders[j]
  BY <1>1, <1>2
<1>5. Taken' \in Recovery!Fewer(Taken)
  BY <1>1, <1>3, FewerIs
<1>6. Holders' \in Recovery!Fewer(Holders)
  BY <1>1, <1>4, FewerIs
<1>7. Queued' = Queued /\ Retrying' = Retrying
  BY <1>1 DEF Queued, Retrying
<1>8. Recovery!Upset
  <2>1. MaxUpsets + MaxRetries * MaxSent * Cardinality(Jobs) \in Nat
    BY JobCount, SystemAssumption
  <2>2. \A a, b \in Nat : a + 1 <= b => a < b
    OBVIOUS
  <2>3. mishaps < MaxUpsets + MaxRetries * MaxSent * Cardinality(Jobs)
    BY <1>1, <2>1, <2>2, Zenon
  <2> QED BY <1>1, <2>3, Zenon DEF Recovery!Upset
<1>9. Recovery!Return(Home)
  BY DEF Crash, Recovery!Return
<1>10. Recovery!Crash(Home)
  BY <1>1, <1>5, <1>6, <1>7, <1>8, <1>9 DEF Recovery!Crash
<1> QED BY <1>1, <1>10 DEF Recovery!Next, Recovery!Environment

\* Every step.
LEMMA StepSeen ==
  ASSUME PoolP!PoolInv, RecoveryP!SweepInv, Staged, Accounted, [Next]_vars
  PROVE  [Recovery!Next]_Recovery!vars
<1>1. mishaps \in Nat /\ mishaps' <= MaxUpsets + MaxRetries * MaxSent * Cardinality(Jobs)
  BY AccountKept
<1>2. ASSUME NEW j \in Jobs, Submit(j) \/ Age(j) PROVE Recovery!Next
  BY <1>2, SubmitSeen DEF Age, Recovery!Next, Recovery!Environment
<1>3. ASSUME NEW w \in Workers, WorkerLoop(w) PROVE [Recovery!Next]_Recovery!vars
  BY <1>1, <1>3, TakeSeen, TryMarkSeen, ReadStatusSeen, SetOutputDirSeen, CompleteSeen, FailSeen,
     HandleFailureSeen, WorkerExitSeen DEF WorkerLoop
<1>4. ASSUME NEW s \in Sweepers, Sweep(s) PROVE Recovery!Next
  BY <1>4 DEF Sweep, BeginSweep, EnqueueNext, SweepError, Recovery!Recover, Recovery!Next
<1>5. CASE Dispatcher \/ Promoter
  BY <1>5, DispatcherSeen, PromoterSeen
<1>6. CASE Stop
  <2>1. UNCHANGED <<main, retry, hand, channel, worker, stage, table, mishaps>>
    BY <1>6 DEF Stop, Pool!Stop, Pool!redis
  <2> QED BY <2>1, SameSeen, StutterSeen
<1>7. CASE Restart \/ Crash
  BY <1>1, <1>7, RestartSeen, CrashSeen
<1>8. CASE UNCHANGED vars
  <2>1. UNCHANGED <<main, retry, hand, channel, worker, stage, table, mishaps>>
    BY <1>8 DEF vars, pool
  <2> QED BY <2>1, SameSeen, StutterSeen
<1> QED BY <1>2, <1>3, <1>4, <1>5, <1>6, <1>7, <1>8 DEF Next

LEMMA StagedKept ==
  ASSUME PoolP!PoolInv, Staged, [Next]_vars
  PROVE  Staged'
<1> DEFINE S == {"none", "mark", "status", "held", "saved"}
<1>1. /\ worker \in [Workers -> Pool!Task] /\ stage \in [Workers -> S]
      /\ \A w \in Workers : stage[w] # "none" <=> worker[w].pc = "processing"
  BY PoolFacts DEF Pool!TypeOK, Staged, Held
<1>2. ASSUME UNCHANGED <<worker, stage>> PROVE Staged'
  BY <1>1, <1>2 DEF Staged, Held
<1>3. ASSUME NEW w \in Workers, NEW st \in S, stage' = [stage EXCEPT ![w] = st],
             worker'[w].pc = "processing" <=> st # "none",
             \A v \in Workers \ {w} : worker'[v] = worker[v]
      PROVE  Staged'
  BY <1>1, <1>3 DEF Staged, Held
<1>4. ASSUME NEW w \in Workers, WorkerLoop(w) PROVE Staged'
  <2>1. CASE Take(w)
    <3>1. /\ stage' = [stage EXCEPT ![w] = "mark"]
          /\ worker' = [worker EXCEPT ![w] = [pc |-> "processing", msg |-> Head(channel)]]
      BY <2>1 DEF Take, Call, Pool!Take
    <3>2. worker'[w].pc = "processing" /\ \A v \in Workers \ {w} : worker'[v] = worker[v]
      BY <1>1, <3>1
    <3> QED BY <1>3, <3>1, <3>2
  <2>2. ASSUME NEW ok, Return(w, ok) PROVE Staged'
    <3>1. stage' = [stage EXCEPT ![w] = "none"]
      BY <2>2 DEF Return, Call
    <3>2. worker'[w].pc # "processing" /\ \A v \in Workers \ {w} : worker'[v] = worker[v]
      BY <1>1, <2>2 DEF Return, Pool!Processed, Pool!Waiting, Pool!Task
    <3> QED BY <1>3, <3>1, <3>2
  <2>3. ASSUME NEW st \in {"status", "held", "saved"}, Call(w, st), UNCHANGED pool, stage[w] # "none" PROVE Staged'
    <3>1. UNCHANGED worker /\ stage' = [stage EXCEPT ![w] = st]
      BY <2>3 DEF pool, Call
    <3> QED BY <1>1, <1>3, <2>3, <3>1
  <2>4. CASE TryMark(w) \/ ReadStatus(w) \/ SetOutputDir(w) \/ Complete(w) \/ Fail(w)
    BY <2>2, <2>3, <2>4 DEF TryMark, ReadStatus, SetOutputDir, Complete, Fail, Calling
  <2>5. CASE HandleFailure(w) \/ (Pool!WorkerExit(w) /\ UNCHANGED <<table, stage, mishaps>>)
    <3>1. UNCHANGED stage /\ worker[w].pc \in {"failing", "idle"}
      BY <2>5 DEF HandleFailure, Pool!HandleFailure, Pool!HandleFailureError, Pool!WorkerExit
    <3>2. worker'[w].pc # "processing" /\ \A v \in Workers \ {w} : worker'[v] = worker[v]
      BY <1>1, <2>5 DEF HandleFailure, Pool!HandleFailure, Pool!HandleFailureError, Pool!WorkerExit,
         Pool!Waiting, Pool!Task
    <3>3. stage' = [stage EXCEPT ![w] = "none"]
      BY <1>1, <3>1
    <3> QED BY <1>3, <3>2, <3>3
  <2> QED BY <1>4, <2>1, <2>4, <2>5 DEF WorkerLoop
<1>5. ASSUME NEW s \in Sweepers, Sweep(s) PROVE Staged'
  BY <1>2, <1>5 DEF Sweep, BeginSweep, EnqueueNext, SweepError, Sweeping, Pool!Enqueue, pool, Pool!pool
<1>6. ASSUME NEW j \in Jobs, Submit(j) \/ Age(j) PROVE Staged'
  BY <1>2, <1>6 DEF Submit, Age, Sweeping, Pool!Enqueue, pool, Pool!pool
<1>7. CASE Dispatcher
  BY <1>2, <1>7 DEF Dispatcher, Pool!Dispatcher, Pool!Dequeue, Pool!DequeueError,
     Pool!DequeueTimeout, Pool!Dispatch, Pool!DispatcherExit, Pool!vars, Pool!pool
<1>8. CASE Promoter \/ Stop \/ UNCHANGED vars
  BY <1>2, <1>8 DEF Promoter, Pool!Promote, Pool!PromoterExit, Pool!pool, Stop, Pool!Stop, vars, pool
<1>9. CASE Restart
  <2>1. UNCHANGED stage /\ \A w \in Workers : worker'[w].pc = "idle" /\ stage[w] = "none"
    BY <1>1, <1>9 DEF Restart, Pool!Restart, Pool!Stopped, Pool!Fresh, Pool!Waiting
  <2> QED BY <1>1, <2>1 DEF Staged
<1>10. CASE Crash
  <2>1. stage' = [w \in Workers |-> "none"] /\ \A w \in Workers : worker'[w].pc = "idle"
    BY <1>10 DEF Crash, Pool!Crash, Pool!Fresh, Pool!Waiting
  <2> QED BY <2>1 DEF Staged
<1> QED BY <1>4, <1>5, <1>6, <1>7, <1>8, <1>9, <1>10 DEF Next

-----------------------------------------------------------------------------
(***************************************************************************)
(* A failed job has a message that no worker acknowledged, whatever goes   *)
(* wrong: ProcessJob acknowledges a message only with the job completed or *)
(* in another attempt's hands, and nobody else writes `failed`.            *)
(***************************************************************************)
Open(j) == \E id \in Pool!Published : id[1] = j /\ id \notin acked

FailedIsOpen == \A j \in Jobs : jobs[j].status = "failed" => Open(j)

LEMMA PublishedIs == Pool!Published = PoolP!Published
BY DEF Pool!Published, PoolP!Published, Pool!Ids, PoolP!Ids

LEMMA MessageOpen ==
  ASSUME PoolP!PoolInv, NEW w \in Workers, worker[w].pc \in {"processing", "failing"}
  PROVE  worker[w].msg.id \in Pool!Published /\ worker[w].msg.id \notin acked
<1>1. worker[w].msg # PoolP!NoMessage
  BY DEF PoolP!PoolInv, PoolP!TypeOK
<1> QED BY <1>1, PoolP!BusyAlone, PoolAssumed, PublishedIs

\* Nothing is unpublished.
LEMMA PublishedGrows ==
  ASSUME Pool!TypeOK, RecoveryP!SweepInv, [Next]_vars
  PROVE  Pool!Published \subseteq Pool!Published'
<1>1. sent \in [Jobs -> 0 .. MaxSent]
  BY DEF Pool!TypeOK
<1>2. ASSUME UNCHANGED sent PROVE Pool!Published \subseteq Pool!Published'
  BY <1>2 DEF Pool!Published
<1>3. ASSUME NEW j \in Jobs, sent' = [sent EXCEPT ![j] = @ + 1]
      PROVE  Pool!Published \subseteq Pool!Published'
  <2>1. \A k \in Jobs : sent[k] \in Nat /\ sent'[k] \in Nat /\ sent[k] <= sent'[k]
    BY <1>1, <1>3, SystemAssumption
  <2>2. ASSUME NEW id \in Pool!Ids, id[2] <= sent[id[1]] PROVE id[2] <= sent'[id[1]]
    <3>1. id[1] \in Jobs /\ id[2] \in Nat
      BY DEF Pool!Ids
    <3>2. sent[id[1]] \in Nat /\ sent'[id[1]] \in Nat /\ sent[id[1]] <= sent'[id[1]]
      BY <2>1, <3>1
    <3> QED BY <2>2, <3>1, <3>2
  <2> QED BY <2>2 DEF Pool!Published
<1>4. ASSUME NEW j \in Jobs, Submit(j) \/ Age(j) PROVE Pool!Published \subseteq Pool!Published'
  BY <1>2, <1>3, <1>4 DEF Submit, Age, Sweeping, Pool!Enqueue, pool
<1>5. ASSUME NEW s \in Sweepers, Sweep(s) PROVE Pool!Published \subseteq Pool!Published'
  <2>1. sweep[s].pc = "enqueue" => Recovery!Current(s) \in Jobs
    BY RecoveryFacts
  <2>2. CASE EnqueueNext(s)
    BY <1>3, <2>1, <2>2 DEF EnqueueNext, Pool!Enqueue
  <2>3. CASE SweepError(s)
    BY <1>2, <1>3, <2>1, <2>3 DEF SweepError, Pushed
  <2> QED BY <1>2, <1>5, <2>2, <2>3 DEF Sweep, BeginSweep, Sweeping, pool
<1>6. ASSUME NEW w \in Workers, WorkerLoop(w) PROVE Pool!Published \subseteq Pool!Published'
  BY <1>2, <1>6 DEF WorkerLoop, Take, TryMark, ReadStatus, SetOutputDir, Complete, Fail, HandleFailure, Return,
     Pool!Take, Pool!Processed, Pool!HandleFailure, Pool!HandleFailureError, Pool!WorkerExit, pool
<1>7. CASE Dispatcher \/ Promoter
  BY <1>2, <1>7 DEF Dispatcher, Pool!Dispatcher, Pool!Dequeue, Pool!DequeueError,
     Pool!DequeueTimeout, Pool!Dispatch, Pool!DispatcherExit, Pool!vars, Promoter, Pool!Promote,
     Pool!PromoterExit
<1>8. CASE Stop \/ Restart \/ Crash \/ UNCHANGED vars
  BY <1>2, <1>8 DEF Stop, Restart, Crash, Pool!Stop, Pool!Restart, Pool!Crash, vars, pool
<1> QED BY <1>4, <1>5, <1>6, <1>7, <1>8 DEF Next

\* Where nothing is acknowledged and no attempt fails.
LEMMA OpenQuiet ==
  ASSUME FailedIsOpen, Pool!Published \subseteq Pool!Published', UNCHANGED acked,
         \A j \in Jobs : jobs'[j].status = "failed" => jobs[j].status = "failed"
  PROVE  FailedIsOpen'
BY DEF FailedIsOpen, Open

\* Where the message of a job is acknowledged, the job has not failed.
LEMMA OpenReturn ==
  ASSUME FailedIsOpen, Pool!Published \subseteq Pool!Published', PoolP!PoolInv,
         NEW w \in Workers, NEW k, k = JobOf(worker[w].msg), NEW ok, Return(w, ok),
         \A j \in Jobs \ {k} : jobs'[j].status = "failed" => jobs[j].status = "failed",
         ok => jobs'[k].status # "failed"
  PROVE  FailedIsOpen'
<1>1. worker[w].pc = "processing"
  BY DEF Return, Pool!Processed
<1>2. PICK id : id = worker[w].msg.id
  OBVIOUS
<1>3. id \in Pool!Published /\ id \notin acked /\ id[1] = k
  BY <1>1, <1>2, MessageOpen DEF JobOf
<1>4. (ok => acked' = acked \cup {id}) /\ (~ok => acked' = acked)
  BY <1>2 DEF Return, Pool!Processed
<1>5. ASSUME NEW j \in Jobs, jobs'[j].status = "failed" PROVE Open(j)'
  <2>1. CASE j = k
    <3>1. id \in Pool!Published' /\ id[1] = j /\ id \notin acked'
      BY <1>3, <1>4, <1>5, <2>1
    <3> QED BY <3>1 DEF Open
  <2>2. CASE j # k
    <3>1. PICK i \in Pool!Published : i[1] = j /\ i \notin acked
      BY <1>5, <2>2 DEF FailedIsOpen, Open
    <3>2. i \in Pool!Published' /\ i # id /\ i \notin acked'
      BY <1>3, <1>4, <2>2, <3>1
    <3> QED BY <3>1, <3>2 DEF Open
  <2> QED BY <2>1, <2>2
<1> QED BY <1>5 DEF FailedIsOpen

LEMMA TableWrites ==
  ASSUME NEW tab \in [Jobs -> Row], NEW k \in Jobs, NEW j \in Jobs
  PROVE  /\ \A st \in Status :
              UpdateJobStatus(tab, k, st)[j].status
                = IF j = k /\ Exists(tab, k) THEN st ELSE tab[j].status
         /\ MarkProcessing(tab, k)[j].status = "failed" => tab[j].status = "failed"
         /\ InsertJob(tab, k)[j].status = "failed" => tab[j].status = "failed"
         /\ Recovery!Aged(tab, k)[j].status = tab[j].status
<1>1. \A st \in Status : UpdateJobStatus(tab, k, st)[j].status
        = IF j = k /\ Exists(tab, k) THEN st ELSE tab[j].status
  BY DEF UpdateJobStatus, Exists
<1>2. MarkProcessing(tab, k)[j].status = "failed" => tab[j].status = "failed"
  BY <1>1 DEF MarkProcessing, Status
<1>3. InsertJob(tab, k)[j].status = "failed" => tab[j].status = "failed"
  BY DEF InsertJob, NewRow
<1>4. Recovery!Aged(tab, k)[j].status = tab[j].status
  BY DEF Recovery!Aged, Row
<1> QED BY <1>1, <1>2, <1>3, <1>4

LEMMA TouchKeeps ==
  ASSUME NEW tab \in [Jobs -> Row], NEW k \in Jobs, NEW j \in Jobs
  PROVE  Touch(tab, k)[j].status = tab[j].status
<1>1. CASE Exists(tab, k)
  BY <1>1, TableWrites DEF Touch, Exists
<1>2. CASE ~Exists(tab, k)
  BY <1>2 DEF Touch, UpdateJobStatus
<1> QED BY <1>1, <1>2

LEMMA FailedIsOpenKept ==
  ASSUME PoolP!PoolInv, RecoveryP!SweepInv, Staged, FailedIsOpen, [Next]_vars
  PROVE  FailedIsOpen'
<1>1. Pool!TypeOK /\ Pool!Published \subseteq Pool!Published'
  BY PoolFacts, PublishedGrows
<1>2. jobs \in [Jobs -> Row]
  BY RecoveryFacts DEF Recovery!TypeOK, Recovery!Row, Row, Recovery!Status, Status,
     Recovery!Absent, Absent
<1>3. ASSUME UNCHANGED <<jobs, acked>> PROVE FailedIsOpen'
  BY <1>1, <1>3, OpenQuiet
<1>4. ASSUME NEW w \in Workers, WorkerLoop(w) PROVE FailedIsOpen'
  <2>1. CASE Take(w) \/ HandleFailure(w) \/ (Pool!WorkerExit(w) /\ UNCHANGED <<table, stage, mishaps>>)
    BY <1>3, <2>1 DEF Take, Pool!Take, HandleFailure, Pool!HandleFailure, Pool!HandleFailureError,
       Pool!WorkerExit, table
  <2>2. ASSUME stage[w] # "none"
        PROVE  \E k \in Jobs : k = JobOf(worker[w].msg)
    BY <2>2, CallFacts
  <2>3. CASE TryMark(w)
    <3>1. PICK k \in Jobs : k = JobOf(worker[w].msg)
      BY <2>2, <2>3 DEF TryMark, Calling
    <3>2. jobs' \in {jobs, MarkProcessing(jobs, k)}
      BY <2>3, <3>1 DEF TryMark, AfterError
    <3>3. \A j \in Jobs : jobs'[j].status = "failed" => jobs[j].status = "failed"
      BY <1>2, <3>2, TableWrites
    <3>4. UNCHANGED acked
      BY <2>3 DEF TryMark, Return, Pool!Processed, pool
    <3> QED BY <1>1, <3>3, <3>4, OpenQuiet
  <2>4. CASE ReadStatus(w)
    <3>1. PICK k \in Jobs : k = JobOf(worker[w].msg)
      BY <2>2, <2>4 DEF ReadStatus, Calling
    <3>2. UNCHANGED jobs
      BY <2>4 DEF ReadStatus
    <3>3. PICK ok : Return(w, ok) /\ (ok => jobs[k].status \in {"processing", "completed"})
      BY <2>4, <3>1 DEF ReadStatus
    <3>4. ok => jobs'[k].status # "failed"
      BY <3>2, <3>3
    <3> QED BY <1>1, <3>1, <3>2, <3>3, <3>4, OpenReturn
  <2>5. CASE Complete(w)
    <3>1. PICK k \in Jobs : k = JobOf(worker[w].msg)
      BY <2>2, <2>5 DEF Complete, Calling
    <3>2. jobs' = UpdateJobStatus(jobs, k, "completed") /\ Return(w, TRUE)
      BY <2>5, <3>1 DEF Complete
    <3>3. \A j \in Jobs : jobs'[j].status = IF j = k /\ Exists(jobs, k) THEN "completed" ELSE jobs[j].status
      BY <1>2, <3>2, TableWrites DEF Status
    <3>4. jobs'[k].status # "failed"
      BY <3>3 DEF Exists, Status
    <3>5. \A j \in Jobs \ {k} : jobs'[j].status = "failed" => jobs[j].status = "failed"
      BY <3>3
    <3> QED BY <1>1, <3>1, <3>2, <3>4, <3>5, OpenReturn
  <2>6. CASE Fail(w)
    <3>1. PICK k \in Jobs : k = JobOf(worker[w].msg)
      BY <2>2, <2>6 DEF Fail, Calling, Held
    <3>2. PICK last \in Status : jobs' \in {jobs, UpdateJobStatus(jobs, k, last)}
      BY <2>6, <3>1, HolderWrites
    <3>3. \A j \in Jobs \ {k} : jobs'[j].status = jobs[j].status
      BY <1>2, <3>2, TableWrites
    <3>4. Return(w, FALSE)
      BY <2>6 DEF Fail
    <3> QED BY <1>1, <3>1, <3>3, <3>4, OpenReturn
  <2>7. CASE SetOutputDir(w)
    <3>1. PICK k \in Jobs : k = JobOf(worker[w].msg)
      BY <2>2, <2>7 DEF SetOutputDir, Calling
    <3>2. jobs' = Touch(jobs, k) /\ UNCHANGED acked
      BY <2>7, <3>1 DEF SetOutputDir, pool
    <3>3. \A j \in Jobs : jobs'[j].status = "failed" => jobs[j].status = "failed"
      BY <1>2, <3>2, TouchKeeps
    <3> QED BY <1>1, <3>2, <3>3, OpenQuiet
  <2> QED BY <1>4, <2>1, <2>3, <2>4, <2>5, <2>6, <2>7 DEF WorkerLoop
<1>5. ASSUME NEW s \in Sweepers, Sweep(s) PROVE FailedIsOpen'
  <2>1. UNCHANGED acked
    BY <1>5 DEF Sweep, BeginSweep, EnqueueNext, SweepError, Sweeping, Pool!Enqueue, pool
  <2>2. CASE UNCHANGED jobs
    BY <1>3, <2>1, <2>2
  <2>3. CASE jobs' = UpdateJobStatus(jobs, Recovery!Current(s), "pending") /\ sweep[s].pc = "update"
    <3>1. Recovery!Current(s) \in Jobs
      <4>1. RecoveryP!TypeOK /\ sweep[s].processing \cup sweep[s].pending # {}
        BY <2>3 DEF RecoveryP!SweepInv, RecoveryP!TypeOK
      <4>2. RecoveryP!Current(s) \in Jobs
        BY <4>1, RecoveryP!CurrentIsListed, RecoveryAssumed
      <4> QED BY <4>2 DEF RecoveryP!Current, Recovery!Current, RecoveryP!Min, Recovery!Min
    <3>2. PICK k \in Jobs : k = Recovery!Current(s)
      BY <3>1
    <3>3. \A j \in Jobs : jobs'[j].status = "failed" => jobs[j].status = "failed"
      BY <1>2, <2>3, <3>2, TableWrites DEF Status
    <3> QED BY <1>1, <2>1, <3>3, OpenQuiet
  <2>4. \/ UNCHANGED jobs
        \/ jobs' = UpdateJobStatus(jobs, Recovery!Current(s), "pending") /\ sweep[s].pc = "update"
    BY <1>5, TableIs DEF Sweep, BeginSweep, EnqueueNext, SweepError, Recovery!Begin,
       Recovery!EnqueueNext, Recovery!ListingError, Recovery!EnqueueError, Recovery!UpdateError,
       Recovery!ListProcessing, Recovery!ListPending, Recovery!UpdateNext, Recovery!MeasureQueue,
       AfterError
  <2> QED BY <2>2, <2>3, <2>4
<1>6. ASSUME NEW k \in Jobs, Submit(k) PROVE FailedIsOpen'
  <2>1. jobs' = InsertJob(jobs, k) /\ UNCHANGED acked
    BY <1>6 DEF Submit, Pool!Enqueue, pool
  <2>2. \A j \in Jobs : jobs'[j].status = "failed" => jobs[j].status = "failed"
    BY <1>2, <2>1, TableWrites
  <2> QED BY <1>1, <2>1, <2>2, OpenQuiet
<1>7. ASSUME NEW k \in Jobs, Age(k) PROVE FailedIsOpen'
  <2>1. jobs' = Recovery!Aged(jobs, k) /\ UNCHANGED acked
    BY <1>7 DEF Age, Sweeping, pool, Recovery!Age
  <2>2. \A j \in Jobs : jobs'[j].status = "failed" => jobs[j].status = "failed"
    BY <1>2, <2>1, TableWrites
  <2> QED BY <1>1, <2>1, <2>2, OpenQuiet
<1>8. CASE Dispatcher \/ Promoter
  BY <1>3, <1>8 DEF Dispatcher, Pool!Dispatcher, Pool!Dequeue, Pool!DequeueError,
     Pool!DequeueTimeout, Pool!Dispatch, Pool!DispatcherExit, Pool!vars, Promoter, Pool!Promote,
     Pool!PromoterExit, table
<1>9. CASE Stop \/ Restart \/ Crash \/ UNCHANGED vars
  BY <1>3, <1>9 DEF Stop, Restart, Crash, Pool!Stop, Pool!Restart, Pool!Crash, vars, pool, table
<1> QED BY <1>4, <1>5, <1>6, <1>7, <1>8, <1>9 DEF Next

-----------------------------------------------------------------------------
(***************************************************************************)
(* How many messages a job gets: one of its upload, and one for each       *)
(* enqueue of recovery, whose account is paid here by the pool's upsets:   *)
(* a retry upsets RecoveryService, but makes no sweep enqueue again.       *)
(***************************************************************************)
Repaid ==
  \A j \in Jobs :
    requeued[j] + Cardinality(RecoveryP!Debtors(j)) + Cut
      <= aged[j] * Cardinality(Sweepers) + upsets

Uploaded(j) == Bit(jobs[j].status # "none")

Counted == \A j \in Jobs : sent[j] <= Uploaded(j) + requeued[j]

LEMMA StepSettled ==
  ASSUME PoolP!PoolInv, RecoveryP!SweepInv, Staged, Accounted, [Next]_vars, NEW j \in Jobs
  PROVE  requeued'[j] + Cardinality(RecoveryP!Debtors(j)') + aged[j] * Cardinality(Sweepers) + mishaps
           <= requeued[j] + Cardinality(RecoveryP!Debtors(j)) + aged'[j] * Cardinality(Sweepers) + mishaps'
<1>1. [RecoveryP!Next]_RecoveryP!vars
  BY StepSeen, RecoverySteps
<1>2. RecoveryP!Kept
  BY <1>1, RecoveryAssumed, RecoveryP!StepKept
<1>3. RecoveryP!Settled(j)
  BY <1>2 DEF RecoveryP!Kept, RecoveryP!Settles
<1> QED BY <1>3, CardinalityIs DEF RecoveryP!Settled

LEMMA AccountTyped ==
  ASSUME RecoveryP!SweepInv, NEW j \in Jobs
  PROVE  /\ requeued[j] \in Nat /\ aged[j] \in Nat
         /\ Cardinality(RecoveryP!Debtors(j)) \in Nat
         /\ aged[j] * Cardinality(Sweepers) \in Nat
<1>1. /\ requeued[j] \in Nat /\ aged[j] \in Nat
      /\ RecoveryP!Cardinality(RecoveryP!Debtors(j)) \in Nat
      /\ aged[j] * RecoveryP!Cardinality(Sweepers) \in Nat
  BY RecoveryAssumed, RecoveryP!Account
<1> QED BY <1>1, CardinalityIs

LEMMA RepaidKept ==
  ASSUME PoolP!PoolInv, RecoveryP!SweepInv, Staged, Accounted, Repaid, [Next]_vars
  PROVE  Repaid'
<1>1. SUFFICES ASSUME NEW j \in Jobs
               PROVE  requeued'[j] + Cardinality(RecoveryP!Debtors(j)') + Cut'
                        <= aged'[j] * Cardinality(Sweepers) + upsets'
  BY DEF Repaid
<1>2. RecoveryP!SweepInv'
  BY StepSeen, RecoveryKept
<1>3. PICK q \in Nat, d \in Nat, a \in Nat :
        /\ q = requeued[j] /\ d = Cardinality(RecoveryP!Debtors(j))
        /\ a = aged[j] * Cardinality(Sweepers)
  BY AccountTyped
<1>4. PICK q2 \in Nat, d2 \in Nat, a2 \in Nat :
        /\ q2 = requeued'[j] /\ d2 = Cardinality(RecoveryP!Debtors(j)')
        /\ a2 = aged'[j] * Cardinality(Sweepers)
  <2>1. /\ requeued'[j] \in Nat /\ Cardinality(RecoveryP!Debtors(j)') \in Nat
        /\ aged'[j] * Cardinality(Sweepers) \in Nat
    <3>1. RecoveryP!IsFiniteSet(Sweepers) /\ RecoveryP!Cardinality(Sweepers) \in Nat
      BY RecoveryAssumed, CardinalityIs, JobCount DEF RecoveryP!RecoveryAssumption
    <3>2. requeued'[j] \in Nat /\ aged'[j] \in Nat
      BY <1>2, SystemAssumption DEF RecoveryP!SweepInv, RecoveryP!TypeOK
    <3>3. RecoveryP!Cardinality(RecoveryP!Debtors(j)') \in Nat
      BY RecoveryAssumed, RecoveryP!DebtorsFinite
    <3>4. \A n, m \in Nat : n * m \in Nat
      OBVIOUS
    <3> QED BY <3>2, <3>3, <3>4, CardinalityIs, JobCount
  <2> QED BY <2>1
<1>5. PICK m \in Nat, u \in Nat, u2 \in Nat, c \in Nat, c2 \in Nat :
        m = mishaps /\ u = upsets /\ u2 = upsets' /\ c = Cut /\ c2 = Cut'
  BY MishapsTyped DEF Cut, Bit
<1>6. q + d + c <= a + u
  BY <1>3, <1>5, Zenon DEF Repaid
<1>7. CASE \E w \in Workers : Retries(w)
  <2>1. UNCHANGED <<table, cancelled>> /\ upsets' \in {upsets, upsets + 1}
    BY <1>7 DEF Retries, HandleFailure, Pool!HandleFailure, Pool!HandleFailureError, Pool!Upset
  <2>2. RecoveryP!Debtors(j)' = RecoveryP!Debtors(j) /\ Cut' = Cut
    BY <2>1 DEF table, RecoveryP!Debtors, RecoveryP!Owes, RecoveryP!At, Cut, Bit
  <2>3. requeued' = requeued /\ aged' = aged
    BY <2>1 DEF table
  <2>4. q2 = q /\ d2 = d /\ a2 = a /\ c2 = c /\ u2 \in {u, u + 1}
    BY <1>3, <1>4, <1>5, <2>1, <2>2, <2>3, Zenon
  <2>5. q2 + d2 + c2 <= a2 + u2
    BY <1>6, <2>4
  <2> QED BY <1>4, <1>5, <2>5, Zenon
<1>8. CASE \A w \in Workers : ~Retries(w)
  <2>1. PICK m2 \in Nat : m2 = mishaps'
    BY AccountKept
  <2>2. m2 + c2 + u <= m + c + u2
    BY <1>5, <1>8, <2>1, MishapPaid, Zenon
  <2>3. q2 + d2 + a + m <= q + d + a2 + m2
    BY <1>3, <1>4, <1>5, <2>1, StepSettled, Zenon
  <2>4. q2 + d2 + c2 <= a2 + u2
    BY <1>6, <2>2, <2>3
  <2> QED BY <1>4, <1>5, <2>4, Zenon
<1> QED BY <1>7, <1>8

\* No row disappears.
LEMMA RowsStay ==
  ASSUME PoolP!PoolInv, RecoveryP!SweepInv, Staged, [Next]_vars, NEW j \in Jobs,
         jobs[j].status # "none"
  PROVE  jobs'[j].status # "none"
<1>1. jobs \in [Jobs -> Row]
  BY RecoveryFacts DEF Recovery!TypeOK, Recovery!Row, Row, Recovery!Status, Status,
     Recovery!Absent, Absent
<1>2. ASSUME NEW k, NEW st \in Status,
             jobs' \in {jobs, UpdateJobStatus(jobs, k, st), MarkProcessing(jobs, k), InsertJob(jobs, k)}
      PROVE  jobs'[j].status # "none"
  BY <1>1, <1>2 DEF UpdateJobStatus, MarkProcessing, InsertJob, NewRow, Status
<1>3. {"pending", "processing", "completed", "failed"} \subseteq Status
  BY DEF Status
<1>4. ASSUME UNCHANGED jobs PROVE jobs'[j].status # "none"
  BY <1>4
<1>5. ASSUME NEW w \in Workers, WorkerLoop(w) PROVE jobs'[j].status # "none"
  <2>1. CASE TryMark(w)
    BY <1>2, <1>3, <2>1 DEF TryMark, AfterError
  <2>2. CASE SetOutputDir(w) \/ Complete(w) \/ Fail(w)
    BY <1>2, <1>3, <2>2, HolderWrites
  <2>3. CASE Take(w) \/ ReadStatus(w) \/ HandleFailure(w)
             \/ (Pool!WorkerExit(w) /\ UNCHANGED <<table, stage, mishaps>>)
    BY <1>4, <2>3 DEF Take, ReadStatus, HandleFailure, table
  <2> QED BY <1>5, <2>1, <2>2, <2>3 DEF WorkerLoop
<1>6. ASSUME NEW s \in Sweepers, Sweep(s) PROVE jobs'[j].status # "none"
  <2>1. CASE Recovery!UpdateNext(s)
    BY <1>2, <1>3, <2>1, TableIs DEF Recovery!UpdateNext
  <2>2. CASE Recovery!UpdateError(s)
    BY <1>2, <1>3, <2>2, TableIs DEF Recovery!UpdateError, AfterError
  <2>3. CASE UNCHANGED jobs
    BY <1>4, <2>3
  <2> QED BY <1>6, <2>1, <2>2, <2>3 DEF Sweep, BeginSweep, EnqueueNext, SweepError,
          Recovery!Begin, Recovery!EnqueueNext, Recovery!ListingError, Recovery!EnqueueError,
          Recovery!ListProcessing, Recovery!ListPending, Recovery!MeasureQueue
<1>7. ASSUME NEW k \in Jobs, Submit(k) PROVE jobs'[j].status # "none"
  BY <1>2, <1>3, <1>7 DEF Submit
<1>8. ASSUME NEW k \in Jobs, Age(k) PROVE jobs'[j].status # "none"
  BY <1>1, <1>8, TableWrites DEF Age, Recovery!Age
<1>9. CASE Dispatcher \/ Promoter \/ Stop \/ Restart \/ Crash \/ UNCHANGED vars
  BY <1>4, <1>9 DEF Dispatcher, Promoter, Stop, Restart, Crash, table, vars
<1> QED BY <1>5, <1>6, <1>7, <1>8, <1>9 DEF Next

LEMMA CountedKept ==
  ASSUME PoolP!PoolInv, RecoveryP!SweepInv, Staged, Counted, [Next]_vars
  PROVE  Counted'
<1>1. /\ Pool!TypeOK /\ sent \in [Jobs -> 0 .. MaxSent] /\ requeued \in [Jobs -> Nat]
      /\ jobs \in [Jobs -> Row]
  BY PoolFacts, RecoveryFacts DEF Pool!TypeOK, Recovery!TypeOK, Recovery!Row, Row, Recovery!Status,
     Status, Recovery!Absent, Absent
<1>2. \A j \in Jobs : Uploaded(j) \in Nat /\ Uploaded(j)' \in Nat /\ Uploaded(j) <= Uploaded(j)'
  BY RowsStay DEF Uploaded, Bit
<1>3. ASSUME \A j \in Jobs : \/ sent'[j] = sent[j] /\ requeued'[j] \in {requeued[j], requeued[j] + 1}
                             \/ sent'[j] = sent[j] + 1 /\ requeued'[j] = requeued[j] + 1
      PROVE  Counted'
  <2>1. ASSUME NEW j \in Jobs PROVE sent'[j] <= Uploaded(j)' + requeued'[j]
    <3>1. sent[j] <= Uploaded(j) + requeued[j] /\ sent[j] \in Nat /\ requeued[j] \in Nat
      BY <1>1, SystemAssumption DEF Counted
    <3>2. Uploaded(j) \in Nat /\ Uploaded(j)' \in Nat /\ Uploaded(j) <= Uploaded(j)'
      BY <1>2
    <3> QED BY <1>3, <3>1, <3>2
  <2> QED BY <2>1 DEF Counted
<1>4. ASSUME UNCHANGED <<sent, requeued>> PROVE Counted'
  BY <1>3, <1>4
<1>5. ASSUME NEW j \in Jobs, Submit(j) PROVE Counted'
  <2>1. /\ requeued' = requeued
        /\ \A k \in Jobs : sent'[k] = sent[k] \/ (k = j /\ sent'[k] = sent[k] + 1)
    <3>1. requeued' = requeued
      BY <1>5 DEF Submit
    <3>2. CASE sent' = sent
      BY <3>1, <3>2
    <3>3. CASE sent' = [sent EXCEPT ![j] = sent[j] + 1]
      BY <1>1, <3>1, <3>3
    <3> QED BY <1>5, <3>2, <3>3 DEF Submit, Pool!Enqueue, pool
  <2>2. Uploaded(j) = 0 /\ Uploaded(j)' = 1
    BY <1>1, <1>5 DEF Submit, InsertJob, NewRow, Uploaded, Bit
  <2>3. ASSUME NEW k \in Jobs PROVE sent'[k] <= Uploaded(k)' + requeued'[k]
    <3>1. sent[k] <= Uploaded(k) + requeued[k] /\ sent[k] \in Nat /\ requeued[k] \in Nat
      BY <1>1, SystemAssumption DEF Counted
    <3>2. Uploaded(k) \in Nat /\ Uploaded(k)' \in Nat /\ Uploaded(k) <= Uploaded(k)'
      BY <1>2
    <3> QED BY <2>1, <2>2, <3>1, <3>2
  <2> QED BY <2>3 DEF Counted
<1>6. ASSUME NEW s \in Sweepers, Recovery!Requeue(s), Recovery!Current(s) \in Jobs,
             sent' = [sent EXCEPT ![Recovery!Current(s)] = @ + 1]
      PROVE  Counted'
  BY <1>1, <1>3, <1>6 DEF Recovery!Requeue, Recovery!Add
<1>7. ASSUME NEW s \in Sweepers, Sweep(s) PROVE Counted'
  <2>1. CASE EnqueueNext(s)
    <3>1. /\ Recovery!Requeue(s) /\ Recovery!Current(s) \in Jobs
          /\ sent' = [sent EXCEPT ![Recovery!Current(s)] = @ + 1]
      BY <2>1, RecoveryFacts DEF EnqueueNext, Recovery!EnqueueNext, Pool!Enqueue
    <3> QED BY <1>6, <3>1
  <2>2. CASE SweepError(s)
    <3>1. CASE sweep[s].pc = "enqueue" /\ Pushed(Recovery!Current(s))
      <4>1. Recovery!Current(s) \in Jobs /\ sent' = [sent EXCEPT ![Recovery!Current(s)] = @ + 1]
        BY <3>1, RecoveryFacts DEF Pushed
      <4>2. Queued' = Append(Queued, Recovery!Current(s))
        BY <1>1, <3>1, <4>1, PushSeen DEF Pushed
      <4>3. Queued \in Seq(Jobs)
        BY <1>1, Seen, JobListFacts DEF Pool!TypeOK
      <4>4. Queued' # Queued
        <5>1. Len(Append(Queued, Recovery!Current(s))) = Len(Queued) + 1 /\ Len(Queued) \in Nat
          BY <4>1, <4>3, AppendProperties, LenProperties
        <5> QED BY <4>2, <5>1
      <4>5. Recovery!EnqueueError(s)
        BY <2>2, <3>1 DEF SweepError, Recovery!ListingError, Recovery!UpdateError
      <4>6. Recovery!Requeue(s)
        BY <4>4, <4>5 DEF Recovery!EnqueueError, Recovery!messages
      <4> QED BY <1>6, <4>1, <4>6
    <3>2. CASE UNCHANGED <<main, sent>>
      <4>1. \A j \in Jobs : requeued'[j] \in {requeued[j], requeued[j] + 1}
        BY <1>1, <2>2 DEF SweepError, Recovery!ListingError, Recovery!EnqueueError, Recovery!UpdateError,
           Recovery!Requeue, Recovery!Add
      <4> QED BY <1>3, <3>2, <4>1
    <3> QED BY <2>2, <3>1, <3>2 DEF SweepError
  <2>3. CASE UNCHANGED <<sent, requeued>>
    BY <1>4, <2>3
  <2> QED BY <1>7, <2>1, <2>2, <2>3 DEF Sweep, BeginSweep, Sweeping, pool, Recovery!Begin,
          Recovery!ListProcessing, Recovery!ListPending, Recovery!MeasureQueue, Recovery!UpdateNext,
          Recovery!UpdateError, Recovery!history
<1>8. ASSUME NEW w \in Workers, WorkerLoop(w) PROVE Counted'
  BY <1>4, <1>8 DEF WorkerLoop, Take, TryMark, ReadStatus, SetOutputDir, Complete, Fail, HandleFailure, Return,
     Calling, Pool!Take, Pool!Processed, Pool!HandleFailure, Pool!HandleFailureError, Pool!WorkerExit,
     pool, table
<1>9. ASSUME NEW j \in Jobs, Age(j) PROVE Counted'
  BY <1>4, <1>9 DEF Age, Sweeping, pool, Recovery!Age
<1>10. CASE Dispatcher \/ Promoter
  BY <1>4, <1>10 DEF Dispatcher, Pool!Dispatcher, Pool!Dequeue, Pool!DequeueError, Pool!DequeueTimeout,
     Pool!Dispatch, Pool!DispatcherExit, Pool!vars, Pool!pool, Promoter, Pool!Promote, Pool!PromoterExit,
     table
<1>11. CASE Stop \/ Restart \/ Crash \/ UNCHANGED vars
  BY <1>4, <1>11 DEF Stop, Pool!Stop, Restart, Pool!Restart, Crash, Pool!Crash, vars, pool, table
<1> QED BY <1>5, <1>7, <1>8, <1>9, <1>10, <1>11 DEF Next

-----------------------------------------------------------------------------
(***************************************************************************)
(* The inductive invariant: those of the pool and of recovery, where each  *)
(* call of ProcessJob is, the account that keeps what recovery calls       *)
(* upsets within its bound, and the messages of failed jobs.               *)
(***************************************************************************)
Inv ==
  /\ PoolP!PoolInv /\ RecoveryP!SweepInv
  /\ Staged /\ Accounted /\ Repaid /\ Counted /\ FailedIsOpen

LEMMA InitSeen ==
  ASSUME Init
  PROVE  Recovery!Init /\ RecoveryP!Init
<1>1. /\ main = <<>> /\ retry = {} /\ hand = <<>> /\ channel = <<>>
      /\ \A w \in Workers : worker[w].msg = Pool!NoMessage /\ stage[w] = "none"
  BY DEF Init, Pool!Init, Pool!Waiting
<1>2. JobOf(Pool!NoMessage) \notin Jobs
  BY JobsAssumption DEF Pool!NoMessage, JobOf
<1>3. ASSUME NEW j \in Jobs
      PROVE  /\ Count(j, hand) + Count(j, channel) + WaitCount(j) = 0
             /\ HoldCount(j) = 0 /\ RetryCount(j, retry) = 0
  <2>1. Waiters(j) = {} /\ Keepers(j) = {} /\ InRetry(j, retry) = {}
    BY <1>1, <1>2 DEF Waiters, Keepers, Waits, Holds, InRetry
  <2>2. WaitCount(j) = 0 /\ HoldCount(j) = 0 /\ RetryCount(j, retry) = 0
    BY <2>1, FS_EmptySet DEF WaitCount, HoldCount, RetryCount
  <2>3. Count(j, hand) = 0 /\ Count(j, channel) = 0
    BY <1>1, CountShort
  <2> QED BY <2>2, <2>3
<1>4. Queued = <<>>
  BY <1>1 DEF Queued
<1>5. /\ Taken = [j \in Jobs |-> 0] /\ Retrying = [j \in Jobs |-> 0] /\ Holders = [j \in Jobs |-> 0]
  BY <1>3, Seen
<1>6. /\ jobs = EmptyTable /\ sweep = [s \in Sweepers |-> Recovery!Idle]
      /\ aged = [j \in Jobs |-> 0] /\ requeued = [j \in Jobs |-> 0] /\ mishaps = 0
  BY DEF Init
<1>7. Recovery!EmptyTable = EmptyTable /\ RecoveryP!EmptyTable = EmptyTable
      /\ Recovery!Idle = RecoveryP!Idle
  BY DEF Recovery!EmptyTable, RecoveryP!EmptyTable, EmptyTable, Recovery!NewRow, RecoveryP!NewRow,
         NewRow, Recovery!Idle, RecoveryP!Idle
<1> QED BY <1>4, <1>5, <1>6, <1>7 DEF Recovery!Init, RecoveryP!Init

LEMMA InitInv == Init => Inv
<1> SUFFICES ASSUME Init PROVE Inv
  OBVIOUS
<1>1. PoolP!PoolInv
  <2>1. PoolP!Init
    BY DEF Init, Pool!Init, PoolP!Init, Pool!Waiting, PoolP!Waiting, Pool!NoMessage, PoolP!NoMessage,
           Pool!Ids, PoolP!Ids
  <2> QED BY <2>1, PoolP!InitInv, PoolAssumed
<1>2. RecoveryP!SweepInv
  BY InitSeen, RecoveryP!InitInv, RecoveryAssumed
<1>3. Staged
  BY DEF Staged, Init, Pool!Init, Pool!Waiting
<1>4. Accounted
  <2>1. mishaps = 0 /\ upsets = 0 /\ cancelled = FALSE
    BY DEF Init, Pool!Init
  <2>2. Cardinality(Retried) \in Nat /\ Cut = 0
    BY <2>1, RetriedBounded DEF Cut, Bit
  <2> QED BY <2>1, <2>2 DEF Accounted
<1>5. FailedIsOpen
  BY DEF FailedIsOpen, Init, EmptyTable, NewRow
<1>6. Repaid /\ Counted
  <2>1. /\ requeued = [j \in Jobs |-> 0] /\ aged = [j \in Jobs |-> 0] /\ upsets = 0 /\ Cut = 0
        /\ \A j \in Jobs : sent[j] = 0 /\ ~jobs[j].stale /\ jobs[j].status = "none"
        /\ \A s \in Sweepers : sweep[s] = Recovery!Idle
    BY DEF Init, Pool!Init, EmptyTable, NewRow, Absent, Cut, Bit
  <2>2. \A j \in Jobs : RecoveryP!Debtors(j) = {}
    BY <2>1 DEF RecoveryP!Debtors, RecoveryP!Owes, Recovery!Idle
  <2>3. \A j \in Jobs : 0 + 0 + 0 <= 0 * Cardinality(Sweepers) + 0
    BY JobCount
  <2>4. Repaid
    BY <2>1, <2>2, <2>3, FS_EmptySet DEF Repaid
  <2>5. Counted
    BY <2>1 DEF Counted, Uploaded, Bit
  <2> QED BY <2>4, <2>5
<1> QED BY <1>1, <1>2, <1>3, <1>4, <1>5, <1>6 DEF Inv

LEMMA StepInv == Inv /\ [Next]_vars => Inv'
<1> SUFFICES ASSUME Inv, [Next]_vars PROVE Inv'
  OBVIOUS
<1>1. /\ PoolP!PoolInv /\ RecoveryP!SweepInv
      /\ Staged /\ Accounted /\ Repaid /\ Counted /\ FailedIsOpen
  BY DEF Inv
<1>2. PoolP!PoolInv'
  BY <1>1, PoolKept
<1>3. RecoveryP!SweepInv'
  BY <1>1, StepSeen, RecoveryKept
<1>4. Staged'
  BY <1>1, StagedKept
<1>5. Accounted'
  BY <1>1, AccountKept
<1>6. FailedIsOpen'
  BY <1>1, FailedIsOpenKept
<1>7. Repaid' /\ Counted'
  BY <1>1, RepaidKept, CountedKept
<1> QED BY <1>2, <1>3, <1>4, <1>5, <1>6, <1>7 DEF Inv

LEMMA Invariance == Spec => []Inv
BY InitInv, StepInv, PTL DEF Spec

\* The variables keep the types the pool and recovery give them, and a worker
\* processes a message exactly while a call of ProcessJob is at one of its
\* stages.
THEOREM TypeCorrect == Spec => []TypeOK
<1>1. Inv => TypeOK
  BY PoolFacts, RecoveryFacts DEF Inv, Staged, TypeOK
<1> QED BY <1>1, Invariance, PTL

\* Uploads, the pool and the attempts are an environment RecoveryService
\* assumes, for any number of jobs, workers, sweepers and messages: whatever is
\* shown of recovery there holds of the whole system.
THEOREM ImplementsRecovery == Spec => RecoverySpec
<1>1. Init => Recovery!Init
  BY InitSeen
<1>2. Inv /\ [Next]_vars => [Recovery!Next]_Recovery!vars
  BY StepSeen DEF Inv
<1> QED BY <1>1, <1>2, Invariance, PTL DEF Spec, RecoverySpec, Recovery!Spec

\* As long as no Redis fault, Stop or crash came in between, a failed job will be
\* tried again or has used its attempts, whatever its other messages, sweeps and
\* failing statements did.
THEOREM FailedIsTriedAgain == Spec => []FailedIsRetried
<1>1. Inv => FailedIsRetried
  <2> SUFFICES ASSUME Inv, upsets = 0, NEW j \in Jobs, jobs[j].status = "failed"
               PROVE  OnItsWay(j) \/ DeadLettered(j)
    BY DEF FailedIsRetried, Abandoned
  <2>1. PoolP!PoolInv /\ Pool!TypeOK
    BY PoolFacts DEF Inv
  <2>2. PICK id \in Pool!Published : id[1] = j /\ id \notin acked
    BY DEF Inv, FailedIsOpen, Open
  <2>3. \/ \E m \in retry \cup dead \cup PoolP!Members(main) \cup PoolP!Members(hand)
                     \cup PoolP!Members(channel) : m.id = id
        \/ \E w \in Workers : worker[w].msg.id = id
    BY <2>1, <2>2, PublishedIs, PoolAssumed, PoolP!Somewhere
  <2>4. ASSUME NEW s \in Seq(Pool!Message), NEW m \in PoolP!Members(s), m.id = id
        PROVE  Count(j, s) \in Nat /\ Count(j, s) > 0
    <3>1. IsFiniteSet(Where(j, s)) /\ Count(j, s) \in Nat /\ Count(j, s) = Cardinality(Where(j, s))
      BY WhereFinite, CountIs
    <3>2. Where(j, s) # {}
      BY <2>2, <2>4 DEF Where, JobOf, PoolP!Members
    <3> QED BY <3>1, <3>2, FS_EmptySet
  <2>5. /\ main \in Seq(Pool!Message) /\ hand \in Seq(Pool!Message) /\ channel \in Seq(Pool!Message)
        /\ Count(j, main) \in Nat /\ Count(j, hand) \in Nat /\ Count(j, channel) \in Nat
    BY <2>1, WhereFinite DEF Pool!TypeOK
  <2>6. \A m : m.id = id => JobOf(m) = j
    BY <2>2 DEF JobOf
  <2>7. CASE \E m \in retry : m.id = id
    BY <2>6, <2>7 DEF OnItsWay
  <2>8. CASE \E m \in dead : m.id = id
    BY <2>6, <2>8 DEF DeadLettered
  <2>9. CASE \E m \in PoolP!Members(main) \cup PoolP!Members(hand) \cup PoolP!Members(channel) : m.id = id
    <3>1. Count(j, main) > 0 \/ Count(j, hand) > 0 \/ Count(j, channel) > 0
      BY <2>4, <2>5, <2>9
    <3>2. Count(j, main) + Count(j, hand) + Count(j, channel) > 0
      BY <2>5, <3>1
    <3> QED BY <3>2 DEF OnItsWay
  <2>10. CASE \E w \in Workers : worker[w].msg.id = id
    BY <2>6, <2>10 DEF OnItsWay
  <2> QED BY <2>3, <2>7, <2>8, <2>9, <2>10
<1> QED BY <1>1, Invariance, PTL

\* With uploads, sweeps and their faults beside it, and the attempts the pool
\* makes of a message writing the jobs table, the pool still keeps every message
\* in one place, loses none as long as nothing went wrong, and keeps the limit on
\* retries.
THEOREM PoolStaysCorrect ==
  Spec => [](Pool!AtMostOnePlace /\ Pool!NothingLost /\ Pool!RetryLimit)
<1>1. Inv => Pool!AtMostOnePlace /\ Pool!NothingLost /\ Pool!RetryLimit
  <2> SUFFICES ASSUME PoolP!PoolInv
               PROVE  Pool!AtMostOnePlace /\ Pool!NothingLost /\ Pool!RetryLimit
    BY DEF Inv
  <2>1. PoolP!AtMostOnePlace /\ PoolP!NothingLost /\ PoolP!RetryLimit
    BY PoolAssumed, PoolP!Promises
  <2>2. \A id : Pool!Occurrences(id) = PoolP!Occurrences(id)
    <3>1. \A S : Pool!Cardinality(S) = PoolP!Cardinality(S)
      BY DEF Pool!Cardinality, PoolP!Cardinality
    <3> QED BY <3>1 DEF Pool!Occurrences, PoolP!Occurrences
  <2>3. Pool!Ids = PoolP!Ids /\ \A s : Pool!Members(s) = PoolP!Members(s)
    BY DEF Pool!Ids, PoolP!Ids, Pool!Members, PoolP!Members
  <2> QED BY <2>1, <2>2, <2>3, PublishedIs DEF Pool!AtMostOnePlace, PoolP!AtMostOnePlace,
          Pool!NothingLost, PoolP!NothingLost, Pool!RetryLimit, PoolP!RetryLimit
<1> QED BY <1>1, Invariance, PTL

\* Also where the sweeps share the table and the keys with real pools, recovery
\* enqueues a job at most once per sweeper and each time its row turned stale, and
\* once more for each sweep cut short or message retried.
THEOREM EnqueuesBounded == Spec => []Recovery!ReenqueueBounded
<1>1. Inv => Recovery!ReenqueueBounded
  <2> SUFFICES ASSUME RecoveryP!SweepInv PROVE Recovery!ReenqueueBounded
    BY DEF Inv
  <2>1. RecoveryP!ReenqueueBounded
    BY RecoveryAssumed, RecoveryP!Bounded
  <2> QED BY <2>1, CardinalityIs DEF Recovery!ReenqueueBounded, RecoveryP!ReenqueueBounded
<1> QED BY <1>1, Invariance, PTL

\* As EnqueuesBounded, but for nothing that goes well: with the pool's upsets in
\* the place of recovery's, which are also the retries of messages.
THEOREM OnlyUpsetsAreRepaid ==
  Spec => [](\A j \in Jobs : requeued[j] <= aged[j] * Cardinality(Sweepers) + upsets)
<1>1. Inv => \A j \in Jobs : requeued[j] <= aged[j] * Cardinality(Sweepers) + upsets
  <2> SUFFICES ASSUME Inv, NEW j \in Jobs
               PROVE  requeued[j] <= aged[j] * Cardinality(Sweepers) + upsets
    OBVIOUS
  <2>1. requeued[j] + Cardinality(RecoveryP!Debtors(j)) + Cut <= aged[j] * Cardinality(Sweepers) + upsets
    BY DEF Inv, Repaid
  <2>2. /\ requeued[j] \in Nat /\ Cardinality(RecoveryP!Debtors(j)) \in Nat
        /\ aged[j] * Cardinality(Sweepers) \in Nat
    BY AccountTyped DEF Inv
  <2>3. upsets \in Nat /\ Cut \in Nat
    <3>1. upsets \in 0 .. MaxUpsets
      BY PoolFacts DEF Inv, Pool!TypeOK
    <3> QED BY <3>1, SystemAssumption DEF Cut, Bit
  <2> QED BY <2>1, <2>2, <2>3
<1> QED BY <1>1, Invariance, PTL

LEMMA AttemptsOfMessages ==
  ASSUME PoolP!PoolInv, NEW j \in Jobs
  PROVE  /\ sent[j] \in Nat /\ Cardinality(Attempts(j)) \in Nat
         /\ Cardinality(Attempts(j)) <= (MaxRetries + 1) * sent[j]
<1>1. sent[j] \in 0 .. MaxSent /\ runs \in [Pool!Ids -> Nat]
  BY PoolFacts DEF Pool!TypeOK
<1>2. sent[j] \in Nat /\ MaxRetries + 1 \in Nat
  BY <1>1, SystemAssumption
<1>3. ASSUME NEW n \in 1 .. MaxSent
      PROVE  /\ runs[<<j, n>>] \in Nat /\ runs[<<j, n>>] <= MaxRetries + 1
             /\ n \notin 1 .. sent[j] => runs[<<j, n>>] = 0
  <2>1. <<j, n>> \in Pool!Ids /\ Pool!Ids = PoolP!Ids
    BY DEF Pool!Ids, PoolP!Ids
  <2>2. runs[<<j, n>>] <= MaxRetries + 1 /\ (<<j, n>> \notin PoolP!Published => runs[<<j, n>>] = 0)
    BY <2>1 DEF PoolP!PoolInv, PoolP!Tries
  <2>3. <<j, n>> \in PoolP!Published => n \in 1 .. sent[j]
    BY <1>2 DEF PoolP!Published
  <2> QED BY <1>1, <2>1, <2>2, <2>3
<1>4. Attempts(j) \subseteq (1 .. sent[j]) \X (1 .. MaxRetries + 1)
  <2>1. ASSUME NEW n \in 1 .. MaxSent, NEW a \in {n} \X (1 .. runs[<<j, n>>])
        PROVE  a \in (1 .. sent[j]) \X (1 .. MaxRetries + 1)
    <3>1. PICK k \in 1 .. runs[<<j, n>>] : a = <<n, k>>
      BY <2>1
    <3>2. n \in 1 .. sent[j] /\ k \in 1 .. MaxRetries + 1
      BY <1>2, <1>3, <3>1
    <3> QED BY <3>1, <3>2
  <2> QED BY <2>1 DEF Attempts
<1>5. /\ IsFiniteSet(1 .. sent[j]) /\ Cardinality(1 .. sent[j]) = sent[j]
      /\ IsFiniteSet(1 .. MaxRetries + 1) /\ Cardinality(1 .. MaxRetries + 1) = MaxRetries + 1
  <2>1. \A n \in Nat : IsFiniteSet(1 .. n) /\ Cardinality(1 .. n) = n
    BY FS_Interval
  <2> QED BY <1>2, <2>1
<1>6. /\ IsFiniteSet((1 .. sent[j]) \X (1 .. MaxRetries + 1))
      /\ Cardinality((1 .. sent[j]) \X (1 .. MaxRetries + 1)) = sent[j] * (MaxRetries + 1)
  BY <1>5, FS_Product
<1>7. Cardinality(Attempts(j)) <= sent[j] * (MaxRetries + 1) /\ Cardinality(Attempts(j)) \in Nat
  BY <1>4, <1>6, FS_Subset, FS_CardinalityType
<1>8. \A a, b \in Nat : a * b = b * a
  OBVIOUS
<1> QED BY <1>2, <1>7, <1>8

\* ProcessJob runs for a job at most MaxRetries + 1 times for its upload, and as
\* often again for each sweep its row was too old for and each upset, whatever
\* workers, sweeps and retries interleave.
THEOREM AttemptsStayBounded == Spec => []AttemptsBounded
<1>1. Inv => AttemptsBounded
  <2> SUFFICES ASSUME Inv, NEW j \in Jobs
               PROVE  Cardinality(Attempts(j))
                        <= (MaxRetries + 1) * (1 + aged[j] * Cardinality(Sweepers) + upsets)
    BY DEF AttemptsBounded
  <2> DEFINE most == 1 + aged[j] * Cardinality(Sweepers) + upsets
  <2>1. requeued[j] + Cardinality(RecoveryP!Debtors(j)) + Cut <= aged[j] * Cardinality(Sweepers) + upsets
    BY DEF Inv, Repaid
  <2>2. /\ requeued[j] \in Nat /\ Cardinality(RecoveryP!Debtors(j)) \in Nat
        /\ aged[j] * Cardinality(Sweepers) \in Nat
    BY AccountTyped DEF Inv
  <2>3. upsets \in Nat /\ Cut \in Nat /\ Uploaded(j) \in {0, 1} /\ MaxRetries + 1 \in Nat
    <3>1. upsets \in 0 .. MaxUpsets
      BY PoolFacts DEF Inv, Pool!TypeOK
    <3> QED BY <3>1, SystemAssumption DEF Cut, Bit, Uploaded
  <2>4. sent[j] <= Uploaded(j) + requeued[j]
    BY DEF Inv, Counted
  <2>5. /\ sent[j] \in Nat /\ Cardinality(Attempts(j)) \in Nat
        /\ Cardinality(Attempts(j)) <= (MaxRetries + 1) * sent[j]
    BY AttemptsOfMessages DEF Inv
  <2>6. most \in Nat /\ sent[j] <= most
    BY <2>1, <2>2, <2>3, <2>4, <2>5
  <2> HIDE DEF most
  <2>7. \A a, b, m \in Nat : a <= b => m * a <= m * b
    OBVIOUS
  <2>8. \A a, b \in Nat : a * b \in Nat
    OBVIOUS
  <2>9. (MaxRetries + 1) * sent[j] <= (MaxRetries + 1) * most
    BY <2>3, <2>5, <2>6, <2>7
  <2>10. (MaxRetries + 1) * sent[j] \in Nat /\ (MaxRetries + 1) * most \in Nat
    BY <2>3, <2>5, <2>6, <2>8
  <2>11. Cardinality(Attempts(j)) <= (MaxRetries + 1) * most
    BY <2>5, <2>9, <2>10
  <2> QED BY <2>11 DEF most
<1> QED BY <1>1, Invariance, PTL

-----------------------------------------------------------------------------
(* What RecoveryService is shown to promise, in the whole system.          *)

LEMMA LifecycleIs ==
  /\ Recovery!Lifecycle!Init <=> RecoveryP!Lifecycle!Init
  /\ Recovery!Lifecycle!Next <=> RecoveryP!Lifecycle!Next
<1>1. /\ \A j : Recovery!Lifecycle!Submit(j) <=> RecoveryP!Lifecycle!Submit(j)
      /\ \A j : Recovery!Lifecycle!Acquire(j) <=> RecoveryP!Lifecycle!Acquire(j)
  BY DEF Recovery!Lifecycle!Submit, RecoveryP!Lifecycle!Submit, Recovery!Lifecycle!Acquire,
         RecoveryP!Lifecycle!Acquire, Recovery!Lifecycle!Become, RecoveryP!Lifecycle!Become
<1>2. /\ \A j : Recovery!Lifecycle!Complete(j) <=> RecoveryP!Lifecycle!Complete(j)
      /\ \A j : Recovery!Lifecycle!Fail(j) <=> RecoveryP!Lifecycle!Fail(j)
  BY DEF Recovery!Lifecycle!Complete, RecoveryP!Lifecycle!Complete, Recovery!Lifecycle!Fail,
         RecoveryP!Lifecycle!Fail, Recovery!Lifecycle!Become, RecoveryP!Lifecycle!Become
<1>3. /\ \A j : Recovery!Lifecycle!Remove(j) <=> RecoveryP!Lifecycle!Remove(j)
      /\ \A j : Recovery!Lifecycle!EndLate(j) <=> RecoveryP!Lifecycle!EndLate(j)
  BY DEF Recovery!Lifecycle!Remove, RecoveryP!Lifecycle!Remove, Recovery!Lifecycle!EndLate,
         RecoveryP!Lifecycle!EndLate, Recovery!Lifecycle!Become, RecoveryP!Lifecycle!Become,
         Recovery!Lifecycle!Status, RecoveryP!Lifecycle!Status
<1>4. \A j : Recovery!Lifecycle!Reset(j) <=> RecoveryP!Lifecycle!Reset(j)
  BY DEF Recovery!Lifecycle!Reset, RecoveryP!Lifecycle!Reset,
         Recovery!Lifecycle!Status, RecoveryP!Lifecycle!Status
<1>5. Recovery!Lifecycle!Init <=> RecoveryP!Lifecycle!Init
  BY DEF Recovery!Lifecycle!Init, RecoveryP!Lifecycle!Init
<1>6. Recovery!Lifecycle!Next <=> RecoveryP!Lifecycle!Next
  BY <1>1, <1>2, <1>3, <1>4 DEF Recovery!Lifecycle!Next, RecoveryP!Lifecycle!Next
<1> QED BY <1>5, <1>6

LEMMA RecoverySpecs == Spec => RecoveryP!Spec
<1>1. Init => RecoveryP!Init
  BY InitSeen
<1>2. Inv /\ [Next]_vars => [RecoveryP!Next]_RecoveryP!vars
  BY StepSeen, RecoverySteps DEF Inv
<1> QED BY <1>1, <1>2, Invariance, PTL DEF Spec, RecoveryP!Spec

\* While uploads, the pool's retries, the calls of ProcessJob, sweeps and crashes
\* interleave, for any number of each, the status of a job goes the way that
\* JobLifecycle promises; only what a sweep enqueued may be seen to go another.
THEOREM ImplementsLifecycle == Spec => LifecycleSpec
<1>1. RecoveryP!Spec => RecoveryP!LifecycleSpec
  BY RecoveryAssumed, RecoveryP!ImplementsLifecycle
<1>2. RecoveryP!LifecycleSpec => LifecycleSpec
  BY LifecycleIs, PTL DEF RecoveryP!LifecycleSpec, RecoveryP!Lifecycle!Spec, LifecycleSpec,
       Recovery!LifecycleSpec, Recovery!Lifecycle!Spec, RecoveryP!Lifecycle!life, Recovery!Lifecycle!life
<1> QED BY <1>1, <1>2, RecoverySpecs, PTL

\* The attempts that hold a job beside each other are at most one, and one more
\* for each message a sweep has sent and is done with, for any number of workers:
\* retries, duplicates and faults of Redis and the database add none.
THEOREM HoldersStayBounded == Spec => []Recovery!HoldersBounded
<1>1. RecoveryP!Spec => []RecoveryP!HoldersBounded
  BY RecoveryAssumed, RecoveryP!HoldersStayBounded
<1>2. RecoveryP!HoldersBounded => Recovery!HoldersBounded
  <2>1. \A j : Recovery!Writing(j) = RecoveryP!Writing(j)
    BY DEF Recovery!Writing, RecoveryP!Writing, Recovery!Current, RecoveryP!Current,
           Recovery!Min, RecoveryP!Min
  <2> QED BY <2>1, CardinalityIs DEF Recovery!HoldersBounded, RecoveryP!HoldersBounded
<1> QED BY <1>1, <1>2, RecoverySpecs, PTL

-----------------------------------------------------------------------------
(* The life of a message.                                                  *)

LifeInPool == [id \in Pool!Ids |-> Pool!Life(id)]
LifeProved == [id \in PoolP!Ids |-> PoolP!Life(id)]

SameLife == LifeInPool = LifeProved

LEMMA LifeIs == SameLife
<1>1. \A id : Pool!Life(id) = PoolP!Life(id)
  BY PublishedIs DEF Pool!Life, PoolP!Life, Pool!Members, PoolP!Members
<1>2. Pool!Ids = PoolP!Ids
  BY DEF Pool!Ids, PoolP!Ids
<1> QED BY <1>1, <1>2 DEF SameLife, LifeInPool, LifeProved

LEMMA LifeNextIs == SameLife'
BY LifeIs, PTL

LEMMA LivesAre ==
  /\ Pool!Lives!Init <=> PoolP!Lives!Init
  /\ [Pool!Lives!Next]_(Pool!Lives!progress) <=> [PoolP!Lives!Next]_(PoolP!Lives!progress)
<1>1. Pool!Lives!Ids = PoolP!Lives!Ids
  BY DEF Pool!Lives!Ids, PoolP!Lives!Ids
<1>2. \A S, from, to : Pool!Lives!Become(S, from, to) <=> PoolP!Lives!Become(S, from, to)
  BY <1>1, LifeIs, LifeNextIs
  DEF Pool!Lives!Become, PoolP!Lives!Become, SameLife, LifeInPool, LifeProved
<1>3. /\ \A id : Pool!Lives!Publish(id) <=> PoolP!Lives!Publish(id)
      /\ \A id : Pool!Lives!Try(id) <=> PoolP!Lives!Try(id)
      /\ \A id : Pool!Lives!Acknowledge(id) <=> PoolP!Lives!Acknowledge(id)
  BY <1>2 DEF Pool!Lives!Publish, PoolP!Lives!Publish, Pool!Lives!Try, PoolP!Lives!Try,
              Pool!Lives!Acknowledge, PoolP!Lives!Acknowledge
<1>4. /\ \A id : Pool!Lives!Return(id) <=> PoolP!Lives!Return(id)
      /\ \A id : Pool!Lives!Bury(id) <=> PoolP!Lives!Bury(id)
      /\ \A S : Pool!Lives!Fault(S) <=> PoolP!Lives!Fault(S)
  BY <1>2 DEF Pool!Lives!Return, PoolP!Lives!Return, Pool!Lives!Bury, PoolP!Lives!Bury,
              Pool!Lives!Fault, PoolP!Lives!Fault
<1>5. Pool!Lives!Next <=> PoolP!Lives!Next
  BY <1>1, <1>3, <1>4 DEF Pool!Lives!Next, PoolP!Lives!Next
<1>6. /\ Pool!Lives!progress = PoolP!Lives!progress
      /\ Pool!Lives!progress' = PoolP!Lives!progress'
  BY LifeIs, LifeNextIs DEF Pool!Lives!progress, PoolP!Lives!progress, SameLife, LifeInPool, LifeProved
<1>7. Pool!Lives!Init <=> PoolP!Lives!Init
  BY <1>1, LifeIs DEF Pool!Lives!Init, PoolP!Lives!Init, SameLife, LifeInPool, LifeProved
<1> QED BY <1>5, <1>6, <1>7

\* The error of a sweep publishes a message, or is one fault more.
LEMMA SweepErrorLives ==
  ASSUME PoolP!PoolInv, RecoveryP!SweepInv, NEW s \in Sweepers, SweepError(s)
  PROVE  [PoolP!Lives!Next]_(PoolP!Lives!progress)
<1>1. PoolP!PoolInv'
  BY PoolAndSweepError
<1>2. /\ UNCHANGED <<retry, dead, hand, channel, worker, exited, cancelled, acked, runs>>
      /\ upsets' \in {upsets, upsets + 1} /\ upsets \in Nat
  BY PoolFacts, SystemAssumption DEF Pool!TypeOK, SweepError, Fault, Pool!Upset
<1>3. CASE UNCHANGED <<main, sent>> /\ upsets' = upsets
  <2>1. UNCHANGED PoolP!vars
    BY <1>2, <1>3 DEF PoolP!vars, PoolP!redis, PoolP!pool
  <2> QED BY <2>1, PoolP!MessageStep, PoolAssumed
<1>4. CASE UNCHANGED <<main, sent>> /\ upsets' = upsets + 1
  <2>1. upsets' > 0
    BY <1>2, <1>4
  <2>2. PoolP!Queued' = PoolP!Queued
    BY <1>2, <1>4 DEF PoolP!Queued
  <2> QED BY <1>1, <1>2, <1>4, <2>1, <2>2, PoolP!Loses, PoolAssumed
<1>5. CASE sweep[s].pc = "enqueue" /\ Pushed(Recovery!Current(s))
  <2>1. Recovery!Current(s) \in Jobs
    BY <1>5, RecoveryFacts
  <2>2. PoolP!Push(Recovery!Current(s))
    BY <1>2, <1>5 DEF Pushed, PoolP!Push, Pool!RPush, PoolP!RPush, Pool!NewMessage, PoolP!NewMessage,
                      PoolP!pool
  <2> QED BY <1>1, <1>2, <2>1, <2>2, PoolP!PublishLives, PoolAssumed
<1> QED BY <1>2, <1>3, <1>4, <1>5 DEF SweepError

LEMMA MessageMoves ==
  ASSUME Inv, [Next]_vars
  PROVE  [Pool!Lives!Next]_(Pool!Lives!progress)
<1>1. PoolP!PoolInv /\ RecoveryP!SweepInv
  BY DEF Inv
<1>2. PoolP!Next \/ UNCHANGED pool => [PoolP!Lives!Next]_(PoolP!Lives!progress)
  BY <1>1, PoolP!MessageStep, PoolAssumed DEF pool, PoolP!vars, PoolP!redis, PoolP!pool
<1> QED BY <1>1, <1>2, PoolMoves, SweepErrorLives, LivesAre

\* With uploads, sweeps and failing statements beside the pool, every message,
\* also one a sweep sent in vain or beside another of its job, lives the life
\* MessageLife promises: tried by one worker at a time, as often as the limit
\* allows, and never again once it was acknowledged, dead-lettered or lost.
THEOREM ImplementsMessageLife == Spec => MessageSpec
<1>1. Init => Pool!Lives!Init
  <2>1. Init => PoolP!Init
    BY DEF Init, Pool!Init, PoolP!Init, Pool!Waiting, PoolP!Waiting, Pool!NoMessage, PoolP!NoMessage,
           Pool!Ids, PoolP!Ids
  <2> QED BY <2>1, PoolP!InitLives, PoolAssumed, LivesAre
<1>2. Inv /\ [Next]_vars => [Pool!Lives!Next]_(Pool!Lives!progress)
  BY MessageMoves
<1> QED BY <1>1, <1>2, Invariance, PTL DEF Spec, MessageSpec, Pool!MessageSpec, Pool!Lives!Spec
=============================================================================
