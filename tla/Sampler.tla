------------------------------ MODULE Sampler ------------------------------
(***************************************************************************)
(* StartStateSampler (internal/observability/metrics.go): the server       *)
(* counts the rows of the jobs table by status and measures the three      *)
(* Redis keys, and shows both as gauges.  The counts are of one statement, *)
(* each length is of a command of its own, and in between jobs and         *)
(* messages go on moving.                                                  *)
(***************************************************************************)
EXTENDS Integers, Sequences, SequencesExt

CONSTANTS
  Statuses,         \* the statuses of a job
  MaxCount,         \* bound: rows with a status, messages in a queue
  MaxFaults         \* bound: errors of the database or of Redis

\* The queues main hands to the sampler, in this order.
queueNames == <<"main", "retry", "dead">>
Queues == ToSet(queueNames)

VARIABLES
  rows,             \* for each status, how many rows have it
  size,             \* for each queue, how many messages it has
  jobsByStatus,     \* the gauge of each status
  queueDepth,       \* the gauge of each queue
  pc,               \* the step the sampler is at
  measured,         \* how many queues this sample has measured
  counts,           \* what GetJobStatusCounts returned
  rowsSeen,         \* history: the counts there were since the sample began
  sizeSeen,         \* history: for each queue, the sizes since then
  faults, faulty    \* history: the errors so far, and whether this sample had one

world == <<rows, size>>
gauges == <<jobsByStatus, queueDepth>>
seen == <<rowsSeen, sizeSeen>>
vars == <<world, gauges, pc, measured, counts, seen, faults, faulty>>

Init ==
  /\ rows = [s \in Statuses |-> 0] /\ size = [q \in Queues |-> 0]
  /\ jobsByStatus = rows /\ queueDepth = size
  /\ pc = "idle" /\ measured = 0 /\ counts = <<>>
  /\ rowsSeen = {} /\ sizeSeen = [q \in Queues |-> {}]
  /\ faults = 0 /\ faulty = FALSE

-----------------------------------------------------------------------------
\* A row is inserted, deleted or given another status, and a message is added to
\* a queue or taken from it, whatever the sampler does.
Differs(f, g) == Cardinality({x \in DOMAIN f : f[x] # g[x]})

See == /\ rowsSeen' = rowsSeen \cup {rows'}
       /\ sizeSeen' = [q \in Queues |-> sizeSeen[q] \cup {size'[q]}]

JobsMove ==
  /\ rows' \in [Statuses -> 0 .. MaxCount] /\ Differs(rows, rows') \in 1 .. 2
  /\ UNCHANGED <<size, gauges, pc, measured, counts, faults, faulty>>
  /\ See

MessagesMove ==
  /\ size' \in [Queues -> 0 .. MaxCount] /\ Differs(size, size') = 1
  /\ UNCHANGED <<rows, gauges, pc, measured, counts, faults, faulty>>
  /\ See

\* The ticker fires, or the sampler starts; its gauges are 0 then already.
Sample ==
  /\ pc = "idle"
  /\ pc' = "rows" /\ measured' = 0
  /\ rowsSeen' = {rows} /\ sizeSeen' = [q \in Queues |-> {size[q]}]
  /\ faulty' = FALSE
  /\ UNCHANGED <<world, gauges, counts, faults>>

Fault == faults < MaxFaults /\ faults' = faults + 1 /\ faulty' = TRUE

\* GROUP BY returns the statuses some row has.
GetJobStatusCounts ==
  /\ pc = "rows"
  /\ \/ /\ counts' = [s \in {t \in Statuses : rows[t] > 0} |-> rows[s]]
        /\ pc' = "zero"
        /\ UNCHANGED <<faults, faulty>>
     \/ Fault /\ pc' = "queues" /\ UNCHANGED counts
  /\ UNCHANGED <<world, gauges, measured, seen>>

\* Whoever reads /metrics now is shown no jobs.
SetZeroStatuses ==
  /\ pc = "zero"
  /\ jobsByStatus' = [s \in Statuses |-> 0]
  /\ pc' = "set"
  /\ UNCHANGED <<world, queueDepth, measured, counts, seen, faults, faulty>>

SetStatuses ==
  /\ pc = "set"
  /\ jobsByStatus' = counts @@ jobsByStatus
  /\ pc' = "queues"
  /\ UNCHANGED <<world, queueDepth, measured, counts, seen, faults, faulty>>

\* The retry queue is a sorted set: LLEN of it is an error of its type, unless
\* it is empty, which is no key at all.
IsList(q) == q # "retry" \/ size[q] = 0

\* Len of the next queue; an error leaves its gauge as it was.
MeasureQueue ==
  /\ pc = "queues"
  /\ LET q == queueNames[measured + 1] IN
     \/ /\ IsList(q)
        /\ queueDepth' = [queueDepth EXCEPT ![q] = size[q]]
        /\ UNCHANGED <<faults, faulty>>
     \/ /\ ~IsList(q)
        /\ UNCHANGED <<queueDepth, faults, faulty>>
     \/ Fault /\ UNCHANGED queueDepth
  /\ measured' = measured + 1
  /\ pc' = IF measured' = Len(queueNames) THEN "idle" ELSE "queues"
  /\ UNCHANGED <<world, jobsByStatus, counts, seen>>

Next ==
  \/ JobsMove \/ MessagesMove
  \/ Sample \/ GetJobStatusCounts \/ SetZeroStatuses \/ SetStatuses \/ MeasureQueue

Spec == Init /\ [][Next]_vars
-----------------------------------------------------------------------------
\* "Tamanho das filas Redis relevantes para processamento." (metrics.go:40), and
\* the jobs by status: when a sample without a fault is over, every gauge shows
\* what there was at some time during it.
GaugesAreSampled ==
  measured = Len(queueNames) /\ ~faulty =>
    /\ jobsByStatus \in rowsSeen
    /\ \A q \in Queues : queueDepth[q] \in sizeSeen[q]
=============================================================================
