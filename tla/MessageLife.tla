---------------------------- MODULE MessageLife ----------------------------
(***************************************************************************)
(* What whoever publishes a message may count on: it waits until a worker  *)
(* tries it, and after a failed try it waits again, until a try succeeds   *)
(* or the last one has failed.  These ends are for good, and only after a  *)
(* fault, a stop or a crash may a message be lost, for good too.           *)
(***************************************************************************)
EXTENDS RedisQueue

VARIABLES
  life,         \* for each message: unsent, waiting, tried, acked, dead or lost
  tries,        \* for each message, how often it was tried
  faulty        \* whether anything went wrong so far

progress == <<life, tries, faulty>>

Init == /\ life = [id \in Ids |-> "unsent"]
        /\ tries = [id \in Ids |-> 0]
        /\ faulty = FALSE

Become(S, from, to) ==
  /\ \A id \in S : life[id] \in from
  /\ life' = [id \in Ids |-> IF id \in S THEN to ELSE life[id]]

Publish(id) == Become({id}, {"unsent"}, "waiting") /\ UNCHANGED tries

Try(id) ==
  /\ tries[id] <= MaxRetries
  /\ Become({id}, {"waiting"}, "tried")
  /\ tries' = [tries EXCEPT ![id] = @ + 1]

Acknowledge(id) == Become({id}, {"tried"}, "acked") /\ UNCHANGED tries

Return(id) ==
  /\ tries[id] <= MaxRetries
  /\ Become({id}, {"tried"}, "waiting")
  /\ UNCHANGED tries

Bury(id) ==
  /\ tries[id] = MaxRetries + 1
  /\ Become({id}, {"tried"}, "dead")
  /\ UNCHANGED tries

\* Something goes wrong, or has: any messages that were on their way may be lost.
Fault(S) ==
  /\ faulty'
  /\ Become(S, {"waiting", "tried"}, "lost")
  /\ UNCHANGED tries

Next ==
  /\ faulty => faulty'
  /\ \/ \E id \in Ids : \/ Publish(id) \/ Try(id) \/ Acknowledge(id)
                        \/ Return(id) \/ Bury(id)
     \/ \E S \in SUBSET Ids : Fault(S)

Spec == Init /\ [][Next]_progress
=============================================================================
