----------------------------- MODULE WorkerPool -----------------------------
(***************************************************************************)
(* The worker pool (internal/worker/pool.go): a dispatcher goroutine moves *)
(* messages from the main list into a buffered channel, WorkerCount        *)
(* workers take them from there and run ProcessJob, handleFailure sends a  *)
(* failed message to the retry set or the dead-letter list, and the retry  *)
(* promoter brings due messages back.  Stop cancels the context all of     *)
(* them select on; a process may also die, and a new pool starts over the  *)
(* same Redis keys.                                                        *)
(*                                                                         *)
(* What ProcessJob does is ProcessingService's: here it returns nil or an  *)
(* error.  What can go wrong around the pool (a Redis error, a lost reply, *)
(* a Stop, a crash) is an upset, and their number is bounded.              *)
(***************************************************************************)
EXTENDS RedisQueue

CONSTANTS
  Workers,          \* the worker goroutines, WorkerCount of them
  BufferSize,       \* capacity of the jobs channel
  RetryMoveBatch,   \* messages one sweep of the promoter moves
  MaxUpsets         \* bound: Redis faults, Stops and crashes

ASSUME PoolAssumption == /\ IsFiniteSet(Workers) /\ Workers # {}
                         /\ BufferSize \in Nat \ {0}
                         /\ RetryMoveBatch \in Nat \ {0}
                         /\ MaxUpsets \in Nat

VARIABLES
  main, retry, dead,  \* the Redis keys
  hand,               \* the message the dispatcher holds, if any: <<>> or <<m>>
  channel,            \* p.jobs
  worker,             \* for each worker, where it is and its message
  exited,             \* which of the pool's other goroutines have returned
  cancelled,          \* the pool's context
  sent,               \* for each job, how many messages were enqueued for it
  upsets,             \* history: what went wrong so far
  acked,              \* history: the messages whose ProcessJob returned nil
  runs                \* history: how often ProcessJob was run for a message

redis == <<main, retry, dead>>
pool == <<hand, channel, worker, exited, cancelled>>
vars == <<redis, pool, sent, upsets, acked, runs>>

-----------------------------------------------------------------------------
NoMessage == [id |-> <<-1, 0>>, attempts |-> 0]

Task == [pc : {"idle", "processing", "failing", "exited"}, msg : Message \cup {NoMessage}]
Waiting == [pc |-> "idle", msg |-> NoMessage]

TypeOK ==
  /\ main \in Seq(Message)
  /\ retry \subseteq Message
  /\ dead \subseteq Message
  /\ hand \in Seq(Message) /\ Len(hand) <= 1
  /\ channel \in Seq(Message) /\ Len(channel) <= BufferSize
  /\ worker \in [Workers -> Task]
  /\ \A w \in Workers : worker[w].pc \in {"processing", "failing"} <=> worker[w].msg # NoMessage
  /\ exited \subseteq {"dispatcher", "promoter"}
  /\ cancelled \in BOOLEAN
  /\ sent \in [Jobs -> 0 .. MaxSent]
  /\ upsets \in 0 .. MaxUpsets
  /\ acked \subseteq Ids
  /\ runs \in [Ids -> Nat]

Fresh ==
  /\ hand' = <<>>
  /\ channel' = <<>>
  /\ worker' = [w \in Workers |-> Waiting]
  /\ exited' = {}
  /\ cancelled' = FALSE

Init ==
  /\ main = <<>> /\ retry = {} /\ dead = {}
  /\ hand = <<>> /\ channel = <<>>
  /\ worker = [w \in Workers |-> Waiting]
  /\ exited = {} /\ cancelled = FALSE
  /\ sent = [j \in Jobs |-> 0]
  /\ upsets = 0 /\ acked = {} /\ runs = [i \in Ids |-> 0]

Upset == upsets < MaxUpsets /\ upsets' = upsets + 1

\* The dispatcher closes p.jobs when it returns.
Closed == "dispatcher" \in exited

-----------------------------------------------------------------------------
\* PublishJob of an upload, or Enqueue of a recovery sweep.
Enqueue(j) ==
  /\ sent[j] < MaxSent
  /\ sent' = [sent EXCEPT ![j] = @ + 1]
  /\ main' = RPush(main, NewMessage(<<j, sent[j] + 1>>))
  /\ UNCHANGED <<retry, dead, pool, upsets, acked, runs>>

\* The dispatcher's BLPOP.  The check of the context that precedes it is not a
\* step of its own: a cancellation may always come just after it.
Dequeue ==
  /\ ~Closed /\ hand = <<>> /\ main # <<>>
  /\ main' = Tail(main)
  /\ hand' = <<Head(main)>>
  /\ UNCHANGED <<retry, dead, channel, worker, exited, cancelled, sent, upsets, acked, runs>>

\* Redis popped the message but the reply or its decoding failed: the error is
\* logged and the loop goes on.
DequeueError ==
  /\ ~Closed /\ hand = <<>> /\ main # <<>>
  /\ Upset
  /\ main' = Tail(main)
  /\ UNCHANGED <<retry, dead, pool, sent, acked, runs>>

\* BLPOP times out with nothing to pop.
DequeueTimeout ==
  /\ ~Closed /\ hand = <<>> /\ main = <<>>
  /\ UNCHANGED vars

\* Mutants: a channel without a capacity, and a send that gives up.
DispatchUnbounded ==
  /\ hand # <<>>
  /\ channel' = channel \o hand
  /\ hand' = <<>>
  /\ UNCHANGED <<redis, worker, exited, cancelled, sent, upsets, acked, runs>>

DispatchOrDrop ==
  /\ hand # <<>>
  /\ channel' = IF Len(channel) < BufferSize THEN channel \o hand ELSE channel
  /\ hand' = <<>>
  /\ UNCHANGED <<redis, worker, exited, cancelled, sent, upsets, acked, runs>>

Dispatch ==
  /\ hand # <<>> /\ Len(channel) < BufferSize
  /\ channel' = channel \o hand
  /\ hand' = <<>>
  /\ UNCHANGED <<redis, worker, exited, cancelled, sent, upsets, acked, runs>>

\* Mutant: the context is looked at only while sending.
DispatcherExitSending ==
  /\ ~Closed /\ cancelled /\ hand # <<>>
  /\ exited' = exited \cup {"dispatcher"}
  /\ hand' = <<>>
  /\ UNCHANGED <<redis, channel, worker, cancelled, sent, upsets, acked, runs>>

\* On cancellation the dispatcher returns, with the message it holds, and
\* closes the channel.
DispatcherExit ==
  /\ ~Closed /\ cancelled
  /\ exited' = exited \cup {"dispatcher"}
  /\ hand' = <<>>
  /\ UNCHANGED <<redis, channel, worker, cancelled, sent, upsets, acked, runs>>

\* select prefers neither of its ready cases: after a cancellation a worker
\* may still take messages.
Take(w) ==
  /\ worker[w].pc = "idle" /\ channel # <<>>
  /\ channel' = Tail(channel)
  /\ worker' = [worker EXCEPT ![w] = [pc |-> "processing", msg |-> Head(channel)]]
  /\ runs' = [runs EXCEPT ![Head(channel).id] = @ + 1]
  /\ UNCHANGED <<redis, hand, exited, cancelled, sent, upsets, acked>>

WorkerExit(w) ==
  /\ worker[w].pc = "idle"
  /\ cancelled \/ (Closed /\ channel = <<>>)
  /\ worker' = [worker EXCEPT ![w].pc = "exited"]
  /\ UNCHANGED <<redis, hand, channel, exited, cancelled, sent, upsets, acked, runs>>

\* ProcessJob returns.
Processed(w, ok) ==
  /\ worker[w].pc = "processing"
  /\ IF ok
     THEN /\ worker' = [worker EXCEPT ![w] = Waiting]
          /\ acked' = acked \cup {worker[w].msg.id}
     ELSE /\ worker' = [worker EXCEPT ![w].pc = "failing"]
          /\ UNCHANGED acked
  /\ UNCHANGED <<redis, hand, channel, exited, cancelled, sent, upsets, runs>>

\* Mutants: one attempt too few, and nothing done with the last one.
PutBackEarly(m) ==
  IF m.attempts >= MaxRetries
  THEN dead' = dead \cup {m} /\ UNCHANGED <<main, retry>>
  ELSE retry' = retry \cup {m} /\ UNCHANGED <<main, dead>>

PutBackOrDrop(m) ==
  IF m.attempts > MaxRetries
  THEN UNCHANGED redis
  ELSE retry' = retry \cup {m} /\ UNCHANGED <<main, dead>>

\* handleFailure: one more attempt, and the message goes where it belongs.
PutBack(m) ==
  IF m.attempts > MaxRetries
  THEN dead' = dead \cup {m} /\ UNCHANGED <<main, retry>>
  ELSE retry' = retry \cup {m} /\ UNCHANGED <<main, dead>>

HandleFailure(w) ==
  /\ worker[w].pc = "failing"
  /\ ~cancelled
  /\ PutBack(Bumped(worker[w].msg))
  /\ worker' = [worker EXCEPT ![w] = Waiting]
  /\ UNCHANGED <<hand, channel, exited, cancelled, sent, upsets, acked, runs>>

\* The enqueue fails, and the message is dropped: always under a cancelled
\* context, and by a Redis error, which may hide that the command was done.
HandleFailureError(w) ==
  /\ worker[w].pc = "failing"
  /\ \/ cancelled /\ UNCHANGED <<redis, upsets>>
     \/ ~cancelled /\ Upset /\ (UNCHANGED redis \/ PutBack(Bumped(worker[w].msg)))
  /\ worker' = [worker EXCEPT ![w] = Waiting]
  /\ UNCHANGED <<hand, channel, exited, cancelled, sent, acked, runs>>

\* Mutant: the script pushes what it does not remove.
PromoteCopy ==
  /\ "promoter" \notin exited
  /\ \E s \in Batches(retry, RetryMoveBatch) :
       /\ retry' = retry
       /\ main' = main \o s
  /\ UNCHANGED <<dead, pool, sent, upsets, acked, runs>>

\* The promoter's sweep.  An error of the script changes nothing, or hides
\* that it ran: either way nothing is lost, so it has no action of its own.
Promote ==
  /\ "promoter" \notin exited
  /\ \E s \in Batches(retry, RetryMoveBatch) :
       /\ retry' = retry \ Members(s)
       /\ main' = main \o s
  /\ UNCHANGED <<dead, pool, sent, upsets, acked, runs>>

PromoterExit ==
  /\ "promoter" \notin exited /\ cancelled
  /\ exited' = exited \cup {"promoter"}
  /\ UNCHANGED <<redis, hand, channel, worker, cancelled, sent, upsets, acked, runs>>

Stop ==
  /\ ~cancelled
  /\ Upset
  /\ cancelled' = TRUE
  /\ UNCHANGED <<redis, hand, channel, worker, exited, sent, acked, runs>>

\* Stop's wg.Wait is over.
Stopped ==
  /\ cancelled
  /\ exited = {"dispatcher", "promoter"}
  /\ \A w \in Workers : worker[w].pc = "exited"

\* The process is started again; what its channel still held is gone.
Restart ==
  /\ Stopped
  /\ Fresh
  /\ UNCHANGED <<redis, sent, upsets, acked, runs>>

Crash ==
  /\ Upset
  /\ Fresh
  /\ UNCHANGED <<redis, sent, acked, runs>>

Dispatcher == Dequeue \/ DequeueError \/ DequeueTimeout \/ Dispatch \/ DispatcherExit

WorkerLoop(w) ==
  \/ Take(w) \/ WorkerExit(w) \/ HandleFailure(w) \/ HandleFailureError(w)
  \/ \E ok \in BOOLEAN : Processed(w, ok)

Next ==
  \/ \E j \in Jobs : Enqueue(j)
  \/ Dispatcher
  \/ \E w \in Workers : WorkerLoop(w)
  \/ Promote \/ PromoterExit
  \/ Stop \/ Restart \/ Crash

Spec == Init /\ [][Next]_vars

\* Every goroutine that can go on does: BLPOP answers within its timeout, the
\* ticker fires, a backoff ends, and ProcessJob returns within JobTimeout.
\* Nothing forces a message to be published, a fault or a Stop to happen.
Fairness ==
  /\ WF_vars(Dequeue) /\ WF_vars(Dispatch) /\ WF_vars(DispatcherExit)
  /\ \A w \in Workers : WF_vars(WorkerLoop(w))
  /\ WF_vars(Promote) /\ WF_vars(PromoterExit)

FairSpec == Spec /\ Fairness
-----------------------------------------------------------------------------
\* Where the messages are.
Held == {worker[w].msg : w \in {v \in Workers : worker[v].msg # NoMessage}}

Occurrences(id) ==
    Cardinality({i \in DOMAIN main : main[i].id = id})
  + Cardinality({m \in retry \cup dead : m.id = id})
  + Cardinality({i \in DOMAIN hand : hand[i].id = id})
  + Cardinality({i \in DOMAIN channel : channel[i].id = id})
  + Cardinality({w \in Workers : worker[w].msg.id = id})
  + (IF id \in acked THEN 1 ELSE 0)

Published == {id \in Ids : id[2] <= sent[id[1]]}

\* No message is ever in two places: not in the retry set and at a worker, not
\* promoted twice, not acknowledged and still queued, whatever faults, stops
\* and crashes there were.
AtMostOnePlace == \A id \in Ids : Occurrences(id) <= 1

\* As long as nothing went wrong around the pool, every message published is
\* somewhere: queued, in the process, to be retried, dead or acknowledged.
NothingLost == upsets = 0 => \A id \in Published : Occurrences(id) = 1

\* The retry limit: ProcessJob runs MaxRetries + 1 times at most for a
\* message, a message dead-lettered has used all of them, and the attempts a
\* message carries are the runs of it that failed.
RetryLimit ==
  /\ \A id \in Ids : runs[id] <= MaxRetries + 1
  /\ \A m \in dead : runs[m.id] = MaxRetries + 1
  /\ \A m \in retry \cup Members(main) \cup Members(channel) : runs[m.id] = m.attempts

\* Where a message is in its life.
Life(id) ==
  IF id \notin Published THEN "unsent"
  ELSE IF id \in acked THEN "acked"
  ELSE IF \E m \in dead : m.id = id THEN "dead"
  ELSE IF \E w \in Workers : worker[w].msg.id = id THEN "tried"
  ELSE IF \E m \in retry \cup Members(main) \cup Members(hand) \cup Members(channel) : m.id = id
       THEN "waiting"
  ELSE "lost"

\* Every message lives the life MessageLife promises: it is not tried beside a try
\* of it, nor after it was acknowledged, dead-lettered or lost, whatever workers,
\* retries, sweeps of the promoter, stops and crashes do to it.
Lives == INSTANCE MessageLife
           WITH life <- [id \in Ids |-> Life(id)], tries <- runs, faulty <- upsets > 0
MessageSpec == Lives!Spec

\* Every message is acknowledged or dead-lettered in the end, when nothing
\* goes wrong around the pool.
Settled(id) == id \in acked \/ \E m \in dead : m.id = id
EveryMessageSettles ==
  \A id \in Ids : (id \in Published /\ upsets = 0) ~> (Settled(id) \/ upsets > 0)

\* Stop returns: every goroutine sees the cancellation, the dispatcher also
\* when the channel is full and no worker takes from it any more.
StopReturns == cancelled ~> (Stopped \/ ~cancelled)
=============================================================================
