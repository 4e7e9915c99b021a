------------------------------ MODULE Progress ------------------------------
(***************************************************************************)
(* A page that follows a job: the worker publishes its progress on a Redis *)
(* channel, which keeps nothing; ServeSSE (internal/progress/tracker.go)   *)
(* subscribes a request to the channel and streams what it hears; the page *)
(* (web/index.html) shows the list it loads and what its EventSource       *)
(* brings, and EventSource reconnects by itself.                           *)
(*                                                                         *)
(* One job and one page: the jobs of a page share nothing but the moment   *)
(* their list is read.  A worker's attempts at the job follow each other,  *)
(* as they do without a recovery write.                                    *)
(***************************************************************************)
EXTENDS Integers, SequencesExt

CONSTANTS
  Flushable,        \* whether the writer ServeSSE is given is an http.Flusher
  MaxReports,       \* bound: progress events of the job
  MaxFailures,      \* bound: failed attempts
  MaxRefreshes,     \* bound: loads the user asks for
  MaxBreaks         \* bound: connections that break

ASSUME ProgressAssumption ==
  /\ Flushable \in BOOLEAN
  /\ {MaxReports, MaxFailures, MaxRefreshes, MaxBreaks} \subseteq Nat

VARIABLES
  status,           \* the status in the job's row
  running,          \* whether an attempt at the job is running
  news,             \* the last event of an attempt, not yet published
  stream,           \* the handler of the page's request
  late,             \* whether the write deadline of its response has passed
  inbox,            \* what its subscription has received
  wire,             \* what it has written and the page has not read
  source,           \* the page's EventSource for the job
  shown,            \* the status the page shows
  loads,            \* the lists on their way to the page: the job's status in
                    \* it, and whether it is the one loaded after the upload
  timers,           \* timers that will load the list
  counts            \* history: what the bounds bound

job == <<status, running, news>>
server == <<stream, late, inbox, wire>>
page == <<source, shown, loads, timers>>
vars == <<job, server, page, counts>>

-----------------------------------------------------------------------------
Statuses == {"pending", "processing", "completed", "failed"}
Final == {"done", "failed"}
Event == {"connected", "progress"} \cup Final

TypeOK ==
  /\ status \in Statuses
  /\ running \in BOOLEAN /\ news \in {"none"} \cup Final
  /\ running => status = "processing" /\ news = "none"
  /\ stream \in {"none", "opening", "subscribed"}
  /\ late \in BOOLEAN
  /\ inbox \in Seq(Event) /\ wire \in Seq(Event)
  /\ inbox # <<>> => stream = "subscribed"
  /\ source \in {"none", "connecting", "open"}
  /\ source # "open" => stream = "none" /\ wire = <<>>
  /\ shown \in Statuses \cup {"none", "error"}
  /\ loads \in Seq([status : Statuses, upload : BOOLEAN])
  /\ timers \in Nat
  /\ counts \in [reports : 0 .. MaxReports, failures : 0 .. MaxFailures,
                 refreshes : 0 .. MaxRefreshes, breaks : 0 .. MaxBreaks]

\* The server has just read the list which the page loads after its upload:
\* the job may be anywhere by then.
Init ==
  /\ status \in Statuses
  /\ running \in BOOLEAN /\ news \in {"none"} \cup Final
  /\ running => status = "processing" /\ news = "none"
  /\ news = "done" => status = "completed"
  /\ news = "failed" => status \in {"processing", "failed"}
  /\ stream = "none" /\ late = FALSE /\ inbox = <<>> /\ wire = <<>>
  /\ source = "none" /\ shown = "none"
  /\ loads = <<[status |-> status, upload |-> TRUE]>> /\ timers = 0
  /\ counts = [reports |-> 0, failures |-> 0, refreshes |-> 0, breaks |-> 0]

Count(what, bound) ==
  counts[what] < bound /\ counts' = [counts EXCEPT ![what] = @ + 1]

-----------------------------------------------------------------------------
\* The worker.

\* PUBLISH reaches whoever is subscribed now; its errors are ignored.
Publish(event) ==
  /\ IF stream = "subscribed" THEN inbox' \in {inbox, Append(inbox, event)}
                              ELSE UNCHANGED inbox
  /\ UNCHANGED <<stream, late, wire>>

Acquire ==
  /\ ~running /\ news = "none" /\ status \in {"pending", "failed"}
  /\ running' = TRUE /\ status' = "processing"
  /\ UNCHANGED <<news, server, page, counts>>

Report ==
  /\ running
  /\ Count("reports", MaxReports)
  /\ Publish("progress")
  /\ UNCHANGED <<job, page>>

Complete ==
  /\ running
  /\ running' = FALSE /\ status' = "completed" /\ news' = "done"
  /\ UNCHANGED <<server, page, counts>>

\* Not every failure is announced, and the write of a status may fail or hide
\* that it was done.
Fail ==
  /\ running
  /\ Count("failures", MaxFailures)
  /\ running' = FALSE
  /\ \/ status' \in {"processing", "failed"} /\ news' \in {"none", "failed"}
     \/ status' = "completed" /\ news' = "none"
  /\ UNCHANGED <<server, page>>

Announce ==
  /\ news # "none"
  /\ Publish(news)
  /\ news' = "none"
  /\ UNCHANGED <<status, running, page, counts>>

-----------------------------------------------------------------------------
\* ServeSSE.
NoStream == stream' = "none" /\ inbox' = <<>> /\ UNCHANGED late

\* Mutant: the writer is wrapped in one that does not flush.
ConnectWrapped ==
  /\ source = "connecting"
  /\ source' = "none"
  /\ UNCHANGED <<job, server, shown, loads, timers, counts>>

\* The request arrives.  Without a Flusher it is answered 500, which closes
\* an EventSource for good; else the headers and a first event go out.
Connect ==
  /\ source = "connecting"
  /\ IF Flushable
     THEN /\ stream' = "opening" /\ late' = FALSE
          /\ wire' = <<"connected">>
          /\ source' = "open"
     ELSE source' = "none" /\ UNCHANGED <<stream, late, wire>>
  /\ UNCHANGED <<job, inbox, shown, loads, timers, counts>>

Subscribe ==
  /\ stream = "opening"
  /\ stream' = "subscribed"
  /\ UNCHANGED <<job, late, inbox, wire, page, counts>>

\* Mutant: the handler returns before it has written the final event.
ForwardEarly ==
  /\ stream = "subscribed" /\ inbox # <<>>
  /\ IF late \/ Head(inbox) \in Final
     THEN NoStream /\ UNCHANGED wire
     ELSE /\ wire' = Append(wire, Head(inbox))
          /\ inbox' = Tail(inbox) /\ UNCHANGED <<stream, late>>
  /\ UNCHANGED <<job, page, counts>>

\* An event is written; after a final one the handler returns.  Past the write
\* deadline the write fails, which ends the request's context: the event is
\* lost, with those behind it.
Forward ==
  /\ stream = "subscribed" /\ inbox # <<>>
  /\ wire' = IF late THEN wire ELSE Append(wire, Head(inbox))
  /\ IF late \/ Head(inbox) \in Final
     THEN NoStream
     ELSE inbox' = Tail(inbox) /\ UNCHANGED <<stream, late>>
  /\ UNCHANGED <<job, page, counts>>

\* WriteTimeout, counted from the request.
DeadlinePasses ==
  /\ stream # "none" /\ ~late
  /\ late' = TRUE
  /\ UNCHANGED <<job, stream, inbox, wire, page, counts>>

\* Mutant: the handler does not watch its request's context.
BreakUnwatched ==
  /\ source = "open"
  /\ Count("breaks", MaxBreaks)
  /\ wire' = <<>>
  /\ source' = "connecting"
  /\ UNCHANGED <<job, stream, late, inbox, shown, loads, timers>>

\* The connection breaks: both sides notice.
Break ==
  /\ source = "open"
  /\ Count("breaks", MaxBreaks)
  /\ NoStream /\ wire' = <<>>
  /\ source' = "connecting"
  /\ UNCHANGED <<job, shown, loads, timers>>

-----------------------------------------------------------------------------
\* The page.

\* subscribeProgress: one EventSource for a job at a time.
Subscribed == IF source = "none" THEN "connecting" ELSE source

\* The response has ended and the page did not close its EventSource: it
\* connects again, after the `retry` it was told.
Reconnect ==
  /\ source = "open" /\ stream = "none" /\ wire = <<>>
  /\ source' = "connecting"
  /\ UNCHANGED <<job, server, shown, loads, timers, counts>>

\* applyProgressUpdate changes the job's item, if a list has put one there.
Show(s) == shown' = IF shown \in {"none", "error"} THEN shown ELSE s

\* onmessage of an event that is not final; the first one changes nothing.
ReceiveProgress ==
  /\ wire # <<>> /\ Head(wire) \notin Final
  /\ IF Head(wire) = "progress" THEN Show("processing") ELSE UNCHANGED shown
  /\ wire' = Tail(wire)
  /\ UNCHANGED <<job, stream, late, inbox, source, loads, timers, counts>>

\* Mutant: `done` is taken for success without looking at `failed`.
ReceiveDone ==
  /\ wire # <<>> /\ Head(wire) \in Final
  /\ Show("completed")
  /\ source' = "none" /\ wire' = <<>> /\ NoStream
  /\ timers' = timers + 1
  /\ UNCHANGED <<job, loads, counts>>

\* onmessage of a final event: the page closes its EventSource and will load
\* the list again.
ReceiveFinal ==
  /\ wire # <<>> /\ Head(wire) \in Final
  /\ Show(IF Head(wire) = "done" THEN "completed" ELSE "failed")
  /\ source' = "none" /\ wire' = <<>> /\ NoStream
  /\ timers' = timers + 1
  /\ UNCHANGED <<job, loads, counts>>

\* The server reads the list for the page.
ReadList == loads' = Append(loads, [status |-> status, upload |-> FALSE])

Refresh ==
  /\ Count("refreshes", MaxRefreshes)
  /\ ReadList
  /\ UNCHANGED <<job, server, source, shown, timers>>

Reload ==
  /\ timers > 0
  /\ timers' = timers - 1
  /\ ReadList
  /\ UNCHANGED <<job, server, source, shown, counts>>

\* Mutant: only the list loaded after the upload makes the page follow the job.
RenderListOnce(i) ==
  /\ loads' = RemoveAt(loads, i)
  /\ shown' \in {loads[i].status, "error"}
  /\ source' = IF loads[i].upload THEN Subscribed ELSE source
  /\ UNCHANGED <<job, server, timers, counts>>

\* A list arrives, perhaps after lists or events that are newer, or an error
\* does.  The page follows the jobs that are not over, and the one it uploaded.
RenderList(i) ==
  /\ loads' = RemoveAt(loads, i)
  /\ \/ /\ shown' = loads[i].status
        /\ source' = IF loads[i].status \in {"pending", "processing"} \/ loads[i].upload
                     THEN Subscribed ELSE source
     \/ /\ shown' = "error"
        /\ source' = IF loads[i].upload THEN Subscribed ELSE source
  /\ UNCHANGED <<job, server, timers, counts>>

Lists == \E i \in DOMAIN loads : RenderList(i)

Worker == Acquire \/ Report \/ Complete \/ Fail \/ Announce
ServeSSE == Connect \/ Subscribe \/ Forward \/ DeadlinePasses \/ Break
Page == Reconnect \/ ReceiveProgress \/ ReceiveFinal \/ Refresh \/ Reload \/ Lists

Next == Worker \/ ServeSSE \/ Page

Spec == Init /\ [][Next]_vars

\* A request is served, a handler and the page act on what they have, timers
\* fire, and an event about to be published is.  An attempt need not end.
Fairness ==
  /\ WF_vars(Announce)
  /\ WF_vars(Connect) /\ WF_vars(Subscribe) /\ WF_vars(Forward)
  /\ WF_vars(Reconnect) /\ WF_vars(ReceiveProgress) /\ WF_vars(ReceiveFinal)
  /\ WF_vars(Reload) /\ WF_vars(Lists)

FairSpec == Spec /\ Fairness

-----------------------------------------------------------------------------
\* The page shows that a job is completed only when it is, although events,
\* lists and reconnections overtake each other.
ShownIsTrue == shown = "completed" => status = "completed"

\* What the page shows as under way it follows: a list that is older than the
\* failure it has heard of, or newer than the retry, makes it subscribe again.
\* (Behind a writer that does not flush it cannot follow anything.)
UnderWayIsFollowed ==
  Flushable /\ shown \in {"pending", "processing"} => source # "none"

\* Between streams that broke, ended or timed out, a page that follows a job
\* gets to be subscribed to its channel.
FollowerIsSubscribed == source = "connecting" ~> stream = "subscribed"

\* An end that has reached the subscription is shown, unless the response is
\* past its deadline or the connection breaks, or the page has no list to show
\* it in.  (A failure ahead of it closes the EventSource, although the job may
\* be retried.)
EndOnItsWay ==
  /\ \E i \in DOMAIN inbox : inbox[i] = "done"
  /\ \A i \in DOMAIN inbox : inbox[i] # "failed"

EndIsShown ==
  \A n \in 0 .. MaxBreaks :
    (EndOnItsWay /\ ~late /\ counts.breaks = n)
      ~> (shown \in {"completed", "error"} \/ late \/ counts.breaks > n)
=============================================================================
