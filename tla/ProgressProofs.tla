--------------------------- MODULE ProgressProofs ---------------------------
(***************************************************************************)
(* Proofs about Progress, for any number of reports, failures, loads and   *)
(* broken connections: what the page shows of a job that is completed.     *)
(*                                                                         *)
(* Events and lists overtake each other on their way to the page, but a    *)
(* row never leaves `completed`, so that all of them, however old, may say *)
(* it once it is true.                                                     *)
(***************************************************************************)
EXTENDS Progress, SequenceTheorems, TLAPS

Contents(s) == {s[i] : i \in DOMAIN s}

List == [status : Statuses, upload : BOOLEAN]

\* Whoever says that the job is completed is right.
Truthful ==
  /\ news = "done" => status = "completed"
  /\ "done" \in Contents(inbox) \cup Contents(wire) => status = "completed"
  /\ \A l \in Contents(loads) : l.status = "completed" => status = "completed"
  /\ ShownIsTrue

PageInv == TypeOK /\ Truthful

-----------------------------------------------------------------------------
\* What the operations on lists leave in them.
LEMMA ContentsOf ==
  ASSUME NEW S, NEW s \in Seq(S)
  PROVE  \A e \in S : Append(s, e) \in Seq(S) /\ Contents(Append(s, e)) \subseteq Contents(s) \cup {e}
BY AppendProperties, LenProperties DEF Contents

LEMMA ContentsOfShort == Contents(<<>>) = {} /\ \A e : Contents(<<e>>) = {e}
BY DEF Contents

LEMMA ContentsOfTail ==
  ASSUME NEW S, NEW s \in Seq(S), s # <<>>
  PROVE  /\ Head(s) \in S /\ Head(s) \in Contents(s)
         /\ Tail(s) \in Seq(S) /\ Contents(Tail(s)) \subseteq Contents(s)
<1>1. /\ Head(s) \in S /\ Tail(s) \in Seq(S)
      /\ Len(s) \in Nat \ {0} /\ DOMAIN s = 1 .. Len(s)
      /\ DOMAIN Tail(s) = 1 .. Len(s) - 1
      /\ Head(s) = s[1] /\ \A i \in 1 .. Len(s) - 1 : Tail(s)[i] = s[i + 1]
  BY HeadTailProperties, LenProperties, EmptySeq
<1> QED BY <1>1 DEF Contents

LEMMA ContentsOfRemoval ==
  ASSUME NEW S, NEW s \in Seq(S), NEW i \in DOMAIN s
  PROVE  /\ s[i] \in S /\ s[i] \in Contents(s)
         /\ RemoveAt(s, i) \in Seq(S) /\ Contents(RemoveAt(s, i)) \subseteq Contents(s)
<1> DEFINE a == SubSeq(s, 1, i - 1)
           b == SubSeq(s, i + 1, Len(s))
<1>1. Len(s) \in Nat /\ DOMAIN s = 1 .. Len(s) /\ i \in 1 .. Len(s) /\ s[i] \in S
  BY LenProperties
<1>2. /\ a \in Seq(S) /\ Len(a) = i - 1 /\ \A k \in 1 .. i - 1 : a[k] = s[k]
  BY <1>1, SubSeqProperties
<1>3. /\ b \in Seq(S) /\ Len(b) = Len(s) - i /\ \A k \in 1 .. Len(s) - i : b[k] = s[i + k]
  BY <1>1, SubSeqProperties
<1>4. RemoveAt(s, i) = a \o b
  BY DEF RemoveAt
<1> HIDE DEF a, b
<1>5. /\ a \o b \in Seq(S) /\ DOMAIN (a \o b) = 1 .. Len(s) - 1
      /\ \A k \in 1 .. Len(s) - 1 : (a \o b)[k] = IF k <= i - 1 THEN a[k] ELSE b[k - (i - 1)]
  <2>1. /\ a \o b \in Seq(S) /\ Len(a \o b) = Len(a) + Len(b)
        /\ \A k \in 1 .. Len(a) + Len(b) :
             (a \o b)[k] = IF k <= Len(a) THEN a[k] ELSE b[k - Len(a)]
    BY <1>2, <1>3, ConcatProperties
  <2>2. Len(a) + Len(b) = Len(s) - 1
    BY <1>1, <1>2, <1>3
  <2>3. DOMAIN (a \o b) = 1 .. Len(a \o b)
    BY <2>1, LenProperties
  <2> QED BY <1>2, <2>1, <2>2, <2>3
<1>6. ASSUME NEW k \in 1 .. Len(s) - 1 PROVE (a \o b)[k] \in Contents(s)
  <2>1. CASE k <= i - 1
    <3>1. k \in 1 .. i - 1 /\ k \in 1 .. Len(s)
      BY <1>1, <2>1
    <3>2. (a \o b)[k] = s[k]
      BY <1>2, <1>5, <2>1, <3>1
    <3> QED BY <1>1, <3>1, <3>2 DEF Contents
  <2>2. CASE ~(k <= i - 1)
    <3>1. k - (i - 1) \in 1 .. Len(s) - i /\ i + (k - (i - 1)) = k + 1 /\ k + 1 \in 1 .. Len(s)
      BY <1>1, <2>2
    <3>2. (a \o b)[k] = s[k + 1]
      BY <1>3, <1>5, <2>2, <3>1
    <3> QED BY <1>1, <3>1, <3>2 DEF Contents
  <2> QED BY <2>1, <2>2
<1>7. Contents(a \o b) \subseteq Contents(s)
  BY <1>5, <1>6 DEF Contents
<1> QED BY <1>1, <1>4, <1>5, <1>7 DEF Contents

-----------------------------------------------------------------------------
Counts == [reports : 0 .. MaxReports, failures : 0 .. MaxFailures,
           refreshes : 0 .. MaxRefreshes, breaks : 0 .. MaxBreaks]

LEMMA Counted ==
  ASSUME PageInv
  PROVE  /\ Count("reports", MaxReports) => counts' \in Counts
         /\ Count("failures", MaxFailures) => counts' \in Counts
         /\ Count("refreshes", MaxRefreshes) => counts' \in Counts
         /\ Count("breaks", MaxBreaks) => counts' \in Counts
<1>1. counts \in Counts
  BY DEF PageInv, TypeOK, Counts
<1>2. MaxReports \in Nat /\ MaxFailures \in Nat /\ MaxRefreshes \in Nat /\ MaxBreaks \in Nat
  BY ProgressAssumption
<1>3. Count("reports", MaxReports) => counts' \in Counts
  BY <1>1, <1>2 DEF Count, Counts
<1>4. Count("failures", MaxFailures) => counts' \in Counts
  BY <1>1, <1>2 DEF Count, Counts
<1>5. Count("refreshes", MaxRefreshes) => counts' \in Counts
  BY <1>1, <1>2 DEF Count, Counts
<1>6. Count("breaks", MaxBreaks) => counts' \in Counts
  BY <1>1, <1>2 DEF Count, Counts
<1> QED BY <1>3, <1>4, <1>5, <1>6

\* A subscription hears the event, or misses it.
LEMMA PublishFacts ==
  ASSUME PageInv, NEW e \in {"progress"} \cup Final, Publish(e),
         e = "done" => status = "completed"
  PROVE  /\ inbox' \in Seq(Event)
         /\ inbox' # <<>> => stream = "subscribed"
         /\ "done" \in Contents(inbox') => status = "completed"
<1>1. inbox \in Seq(Event) /\ e \in Event
  BY DEF PageInv, TypeOK, Event
<1>2. inbox' \in Seq(Event) /\ Contents(inbox') \subseteq Contents(inbox) \cup {e}
  <2>1. inbox' = inbox \/ inbox' = Append(inbox, e)
    BY DEF Publish
  <2>2. Append(inbox, e) \in Seq(Event) /\ Contents(Append(inbox, e)) \subseteq Contents(inbox) \cup {e}
    BY <1>1, ContentsOf
  <2>3. CASE inbox' = inbox
    BY <1>1, <2>3
  <2>4. CASE inbox' = Append(inbox, e)
    BY <2>2, <2>4
  <2> QED BY <2>1, <2>3, <2>4
<1>3. inbox' # <<>> => stream = "subscribed"
  BY DEF PageInv, TypeOK, Publish
<1>4. "done" \in Contents(inbox') => status = "completed"
  BY <1>2 DEF PageInv, Truthful
<1> QED BY <1>2, <1>3, <1>4

\* The worker.
LEMMA WorkerStep ==
  ASSUME PageInv, Worker PROVE PageInv'
<1>1. CASE Acquire
  BY <1>1 DEF PageInv, TypeOK, Truthful, ShownIsTrue, Acquire, server, page, Statuses
<1>2. CASE Report
  <2>1. /\ inbox' \in Seq(Event) /\ (inbox' # <<>> => stream = "subscribed")
        /\ "done" \in Contents(inbox') => status = "completed"
    BY <1>2, PublishFacts DEF Report
  <2>2. counts' \in Counts
    BY <1>2, Counted DEF Report
  <2>3. TypeOK'
    BY <1>2, <2>1, <2>2 DEF PageInv, TypeOK, Report, Counts, Publish, job, page
  <2>4. Truthful'
    BY <1>2, <2>1 DEF PageInv, Truthful, ShownIsTrue, Report, Publish, job, page
  <2> QED BY <2>3, <2>4 DEF PageInv
<1>3. CASE Complete
  BY <1>3 DEF PageInv, TypeOK, Truthful, ShownIsTrue, Complete, server, page, Statuses, Final
<1>4. CASE Fail
  <2>1. counts' \in Counts
    BY <1>4, Counted DEF Fail
  <2>2. TypeOK'
    BY <1>4, <2>1 DEF PageInv, TypeOK, Fail, Counts, server, page, Statuses, Final
  <2>3. Truthful'
    BY <1>4 DEF PageInv, TypeOK, Truthful, ShownIsTrue, Fail, server, page
  <2> QED BY <2>2, <2>3 DEF PageInv
<1>5. CASE Announce
  <2>1. /\ inbox' \in Seq(Event) /\ (inbox' # <<>> => stream = "subscribed")
        /\ "done" \in Contents(inbox') => status = "completed"
    BY <1>5, PublishFacts DEF Announce, PageInv, TypeOK, Truthful
  <2>2. TypeOK'
    BY <1>5, <2>1 DEF PageInv, TypeOK, Announce, Publish, page
  <2>3. Truthful'
    BY <1>5, <2>1 DEF PageInv, Truthful, ShownIsTrue, Announce, Publish, page
  <2> QED BY <2>2, <2>3 DEF PageInv
<1> QED BY <1>1, <1>2, <1>3, <1>4, <1>5 DEF Worker

\* ServeSSE.
LEMMA ServeStep ==
  ASSUME PageInv, ServeSSE PROVE PageInv'
<1>1. CASE Connect
  <2>1. <<"connected">> \in Seq(Event) /\ Contents(<<"connected">>) = {"connected"}
    BY ContentsOfShort DEF Event
  <2>2. wire' \in Seq(Event) /\ Contents(wire') \subseteq Contents(wire) \cup {"connected"}
    BY <1>1, <2>1 DEF Connect, PageInv, TypeOK
  <2>3. TypeOK'
    BY <1>1, <2>2 DEF PageInv, TypeOK, Connect, job
  <2>4. Truthful'
    BY <1>1, <2>2 DEF PageInv, Truthful, ShownIsTrue, Connect, job
  <2> QED BY <2>3, <2>4 DEF PageInv
<1>2. CASE Subscribe
  BY <1>2 DEF PageInv, TypeOK, Truthful, ShownIsTrue, Subscribe, job, page
<1>3. CASE Forward
  <2>1. inbox \in Seq(Event) /\ wire \in Seq(Event) /\ inbox # <<>>
    BY <1>3 DEF Forward, PageInv, TypeOK
  <2>2. /\ Head(inbox) \in Event /\ Head(inbox) \in Contents(inbox)
        /\ Tail(inbox) \in Seq(Event) /\ Contents(Tail(inbox)) \subseteq Contents(inbox)
    BY <2>1, ContentsOfTail
  <2>3. wire' \in Seq(Event) /\ Contents(wire') \subseteq Contents(wire) \cup Contents(inbox)
    BY <1>3, <2>1, <2>2, ContentsOf DEF Forward
  <2>4. /\ inbox' \in Seq(Event) /\ Contents(inbox') \subseteq Contents(inbox)
        /\ inbox' # <<>> => stream' = "subscribed"
        /\ stream' \in {"none", "subscribed"}
    <3>1. CASE stream' = "none" /\ inbox' = <<>>
      BY <3>1, ContentsOfShort
    <3>2. CASE inbox' = Tail(inbox) /\ stream' = stream
      <4>1. stream = "subscribed"
        BY <1>3 DEF Forward
      <4> QED BY <2>2, <3>2, <4>1
    <3> QED BY <1>3, <3>1, <3>2 DEF Forward, NoStream
  <2>5. source = "open" /\ late' \in BOOLEAN
    BY <1>3 DEF Forward, NoStream, PageInv, TypeOK
  <2>6. TypeOK'
    BY <1>3, <2>3, <2>4, <2>5 DEF PageInv, TypeOK, Forward, job, page
  <2>7. Truthful'
    BY <1>3, <2>3, <2>4 DEF PageInv, Truthful, ShownIsTrue, Forward, job, page
  <2> QED BY <2>6, <2>7 DEF PageInv
<1>4. CASE DeadlinePasses
  BY <1>4 DEF PageInv, TypeOK, Truthful, ShownIsTrue, DeadlinePasses, job, page
<1>5. CASE Break
  <2>1. counts' \in Counts
    BY <1>5, Counted DEF Break
  <2>2. TypeOK'
    BY <1>5, <2>1 DEF PageInv, TypeOK, Break, Counts, NoStream, job
  <2>3. Truthful'
    BY <1>5, ContentsOfShort DEF PageInv, Truthful, ShownIsTrue, Break, NoStream, job
  <2> QED BY <2>2, <2>3 DEF PageInv
<1> QED BY <1>1, <1>2, <1>3, <1>4, <1>5 DEF ServeSSE

\* The server reads the row for a list.
LEMMA ReadListFacts ==
  ASSUME PageInv, ReadList
  PROVE  /\ loads' \in Seq(List)
         /\ \A l \in Contents(loads') : l.status = "completed" => status = "completed"
<1> DEFINE new == [status |-> status, upload |-> FALSE]
<1>1. new \in List /\ loads \in Seq(List) /\ loads' = Append(loads, new) /\ new.status = status
  BY DEF PageInv, TypeOK, List, ReadList
<1> HIDE DEF new
<1>2. loads' \in Seq(List) /\ Contents(loads') \subseteq Contents(loads) \cup {new}
  BY <1>1, ContentsOf
<1> QED BY <1>1, <1>2 DEF PageInv, Truthful

\* The page.
LEMMA PageStep ==
  ASSUME PageInv, Page PROVE PageInv'
<1>0. wire \in Seq(Event) /\ loads \in Seq(List)
  BY DEF PageInv, TypeOK, List
<1>1. CASE Reconnect
  BY <1>1 DEF PageInv, TypeOK, Truthful, ShownIsTrue, Reconnect, job, server
<1>2. CASE ReceiveProgress
  <2>1. Tail(wire) \in Seq(Event) /\ Contents(Tail(wire)) \subseteq Contents(wire)
    BY <1>0, <1>2, ContentsOfTail DEF ReceiveProgress
  <2>2. wire' \in Seq(Event) /\ Contents(wire') \subseteq Contents(wire) /\ source = "open"
    BY <1>2, <2>1 DEF ReceiveProgress, PageInv, TypeOK
  <2>3. shown' \in {shown, "processing"}
    BY <1>2 DEF ReceiveProgress, Show
  <2>4. TypeOK'
    BY <1>2, <2>2, <2>3 DEF PageInv, TypeOK, ReceiveProgress, Statuses, job
  <2>5. Truthful'
    BY <1>2, <2>2, <2>3 DEF PageInv, Truthful, ShownIsTrue, ReceiveProgress, job
  <2> QED BY <2>4, <2>5 DEF PageInv
<1>3. CASE ReceiveFinal
  <2>1. Head(wire) \in Contents(wire)
    BY <1>0, <1>3, ContentsOfTail DEF ReceiveFinal
  <2>2. shown' \in Statuses \cup {"none", "error"} /\ (shown' = "completed" => status = "completed")
    BY <1>3, <2>1 DEF PageInv, TypeOK, Truthful, ShownIsTrue, ReceiveFinal, Show, Statuses
  <2>3. TypeOK'
    BY <1>3, <2>2 DEF PageInv, TypeOK, ReceiveFinal, NoStream, job
  <2>4. Truthful'
    BY <1>3, <2>2, ContentsOfShort DEF PageInv, Truthful, ShownIsTrue, ReceiveFinal, NoStream, job
  <2> QED BY <2>3, <2>4 DEF PageInv
<1>4. CASE Refresh
  <2>1. /\ loads' \in Seq(List)
        /\ \A l \in Contents(loads') : l.status = "completed" => status = "completed"
    BY <1>4, ReadListFacts DEF Refresh
  <2>2. counts' \in Counts
    BY <1>4, Counted DEF Refresh
  <2>3. TypeOK'
    BY <1>4, <2>1, <2>2 DEF PageInv, TypeOK, Refresh, Counts, List, job, server
  <2>4. Truthful'
    BY <1>4, <2>1 DEF PageInv, Truthful, ShownIsTrue, Refresh, job, server
  <2> QED BY <2>3, <2>4 DEF PageInv
<1>5. CASE Reload
  <2>1. /\ loads' \in Seq(List)
        /\ \A l \in Contents(loads') : l.status = "completed" => status = "completed"
    BY <1>5, ReadListFacts DEF Reload
  <2>2. TypeOK'
    BY <1>5, <2>1 DEF PageInv, TypeOK, Reload, List, job, server
  <2>3. Truthful'
    BY <1>5, <2>1 DEF PageInv, Truthful, ShownIsTrue, Reload, job, server
  <2> QED BY <2>2, <2>3 DEF PageInv
<1>6. CASE Lists
  <2>1. PICK i \in DOMAIN loads : RenderList(i)
    BY <1>6 DEF Lists
  <2>2. /\ loads[i] \in List /\ loads[i] \in Contents(loads)
        /\ loads' \in Seq(List) /\ Contents(loads') \subseteq Contents(loads)
    BY <1>0, <2>1, ContentsOfRemoval DEF RenderList
  <2>3. /\ shown' \in {loads[i].status, "error"} /\ loads[i].status \in Statuses
        /\ source' \in {"none", "connecting", "open"} /\ (source = "open" => source' = "open")
        /\ source' = "open" => source = "open"
    BY <2>1, <2>2 DEF PageInv, TypeOK, RenderList, Subscribed, List
  <2>4. TypeOK'
    BY <2>1, <2>2, <2>3 DEF PageInv, TypeOK, RenderList, List, job, server
  <2>5. Truthful'
    BY <2>1, <2>2, <2>3 DEF PageInv, Truthful, ShownIsTrue, RenderList, job, server
  <2> QED BY <2>4, <2>5 DEF PageInv
<1> QED BY <1>1, <1>2, <1>3, <1>4, <1>5, <1>6 DEF Page

-----------------------------------------------------------------------------
LEMMA InitInv == Init => PageInv
<1> SUFFICES ASSUME Init PROVE PageInv
  OBVIOUS
<1> DEFINE first == [status |-> status, upload |-> TRUE]
<1>1. first \in List /\ first.status = status /\ loads = <<first>>
  BY DEF Init, List
<1> HIDE DEF first
<1>2. loads \in Seq(List) /\ Contents(loads) = {first}
  BY <1>1, ContentsOfShort
<1>3. counts \in Counts
  BY ProgressAssumption DEF Init, Counts
<1>4. TypeOK
  <2>1. <<>> \in Seq(Event)
    OBVIOUS
  <2>2. inbox = <<>> /\ wire = <<>> /\ timers = 0
    BY DEF Init
  <2>3. inbox \in Seq(Event) /\ wire \in Seq(Event) /\ timers \in Nat
    BY <2>1, <2>2
  <2>4. loads \in Seq([status : Statuses, upload : BOOLEAN])
    BY <1>2 DEF List
  <2>5. counts \in [reports : 0 .. MaxReports, failures : 0 .. MaxFailures,
                    refreshes : 0 .. MaxRefreshes, breaks : 0 .. MaxBreaks]
    BY <1>3 DEF Counts
  <2>6. /\ status \in Statuses
        /\ running \in BOOLEAN /\ news \in {"none"} \cup Final
        /\ running => status = "processing" /\ news = "none"
        /\ stream = "none" /\ late = FALSE /\ source = "none" /\ shown = "none"
    BY DEF Init
  <2> QED BY <2>2, <2>3, <2>4, <2>5, <2>6 DEF TypeOK
<1>5. Truthful
  BY <1>1, <1>2, ContentsOfShort DEF Init, Truthful, ShownIsTrue
<1> QED BY <1>4, <1>5 DEF PageInv

LEMMA StepInv == PageInv /\ [Next]_vars => PageInv'
<1>1. PageInv /\ UNCHANGED vars => PageInv'
  BY DEF vars, job, server, page, PageInv, TypeOK, Truthful, ShownIsTrue
<1> QED BY <1>1, WorkerStep, ServeStep, PageStep DEF Next

LEMMA Invariance == Spec => []PageInv
BY InitInv, StepInv, PTL DEF Spec

\* The variables keep their types: only a subscribed handler has events to
\* forward, and only an open EventSource has a handler and events to read.
THEOREM TypeCorrect == Spec => []TypeOK
<1>1. PageInv => TypeOK
  BY DEF PageInv
<1> QED BY <1>1, Invariance, PTL

\* However late, doubled or lost the events and lists are, the page shows
\* `completed` only if the job's row says so.
THEOREM PageTellsTheTruth == Spec => []ShownIsTrue
<1>1. PageInv => ShownIsTrue
  BY DEF PageInv, Truthful
<1> QED BY <1>1, Invariance, PTL

\* Behind a writer that flushes, the page gives up its EventSource only with an end
\* it shows, and whatever list makes it show the job as under way again makes it
\* follow the job again.
THEOREM UnderWayStaysFollowed == Spec => []UnderWayIsFollowed
<1>1. Init => UnderWayIsFollowed
  BY DEF Init, UnderWayIsFollowed
<1>2. ASSUME PageInv, UnderWayIsFollowed, [Next]_vars PROVE UnderWayIsFollowed'
  <2>1. wire \in Seq(Event) /\ loads \in Seq(List) /\ (source # "open" => wire = <<>>)
    BY <1>2 DEF PageInv, TypeOK, List
  <2>2. CASE Worker \/ Subscribe \/ Forward \/ DeadlinePasses \/ Refresh \/ Reload \/ UNCHANGED vars
    <3>1. shown' = shown /\ source' = source
      BY <2>2 DEF Worker, Acquire, Report, Complete, Fail, Announce, Subscribe, Forward, DeadlinePasses,
                  Refresh, Reload, vars, page
    <3> QED BY <1>2, <3>1 DEF UnderWayIsFollowed
  <2>3. CASE Connect \/ Break \/ Reconnect
    BY <1>2, <2>3 DEF Connect, Break, Reconnect, UnderWayIsFollowed
  <2>4. CASE ReceiveProgress
    BY <2>1, <2>4 DEF ReceiveProgress, UnderWayIsFollowed
  <2>5. CASE ReceiveFinal
    BY <2>5 DEF ReceiveFinal, Show, UnderWayIsFollowed
  <2>6. CASE Lists
    <3>1. PICK i \in DOMAIN loads : RenderList(i)
      BY <2>6 DEF Lists
    <3>2. source' \in {source, Subscribed} /\ Subscribed # "none"
      BY <3>1 DEF RenderList, Subscribed
    <3>3. \/ shown' = "error"
          \/ shown' = loads[i].status
               /\ (loads[i].status \in {"pending", "processing"} => source' = Subscribed)
      BY <3>1 DEF RenderList
    <3> QED BY <3>2, <3>3 DEF UnderWayIsFollowed
  <2> QED BY <1>2, <2>2, <2>3, <2>4, <2>5, <2>6 DEF Next, ServeSSE, Page
<1> QED BY <1>1, <1>2, Invariance, PTL DEF Spec
=============================================================================
