---------------------------- MODULE JobLifecycle ----------------------------
(***************************************************************************)
(* What the job table promises its readers (the upload page, GET           *)
(* /jobs/{id}, the asset handler): the life of a job's status.  A job is   *)
(* submitted once, only a processing job completes or fails, a failed one  *)
(* may be tried again, and nothing but the rollback of its upload takes a  *)
(* row away, for good.                                                     *)
(*                                                                         *)
(* A recovery sweep disturbs this life: it enqueues the job and makes any  *)
(* row it has pending again, and the attempt it overlooked may end over    *)
(* whatever the row has become.  Only disturbed jobs see that.             *)
(***************************************************************************)
EXTENDS JobStore

VARIABLES
  status,       \* [Jobs -> Status \cup Absent]
  disturbed     \* the jobs recovery took up

life == <<status, disturbed>>

Init == status = [j \in Jobs |-> "none"] /\ disturbed = {}

Become(j, from, to) ==
  /\ status[j] \in from
  /\ status' = [status EXCEPT ![j] = to]
  /\ UNCHANGED disturbed

Submit(j)   == Become(j, {"none"}, "pending")
Acquire(j)  == Become(j, {"pending", "failed"}, "processing")
Complete(j) == Become(j, {"processing"}, "completed")
Fail(j)     == Become(j, {"processing"}, "failed")
Remove(j)   == Become(j, Status, "deleted")

Reset(j) ==
  /\ status[j] # "none"
  /\ \/ UNCHANGED status
     \/ status[j] \in Status /\ status' = [status EXCEPT ![j] = "pending"]
  /\ disturbed' = disturbed \cup {j}

EndLate(j) ==
  /\ j \in disturbed
  /\ Become(j, Status, "completed") \/ Become(j, Status, "failed")

Next == \E j \in Jobs :
          \/ Submit(j) \/ Acquire(j) \/ Complete(j) \/ Fail(j) \/ Remove(j)
          \/ Reset(j) \/ EndLate(j)

Spec == Init /\ [][Next]_life
=============================================================================
