------------------------------ MODULE JobStore ------------------------------
(***************************************************************************)
(* The jobs table (internal/db/job_repo.go), as operators on a table       *)
(* value: every module that shares the database EXTENDS this one and keeps *)
(* the table in a variable.  A job's identity is its rank in created_at,   *)
(* the order in which the recovery queries return rows.                    *)
(*                                                                         *)
(* A row keeps its status, whether output_dir is set, and whether its      *)
(* updated_at (or created_at) is older than the cutoff recovery applies to *)
(* its status.  Clocks are not modelled: a row may turn stale at any time, *)
(* and every UPDATE of the row makes it fresh again.                       *)
(***************************************************************************)
EXTENDS Integers, FiniteSets

CONSTANT Jobs        \* the jobs, numbered by created_at

ASSUME JobsAssumption == Jobs \subseteq Nat

Status == {"pending", "processing", "completed", "failed"}

\* A job without a row: never inserted, or deleted by a rollback.
Absent == {"none", "deleted"}

Row == [status : Status \cup Absent, output : BOOLEAN, stale : BOOLEAN]

NewRow(status) == [status |-> status, output |-> FALSE, stale |-> FALSE]

EmptyTable == [j \in Jobs |-> NewRow("none")]

Exists(tab, j) == tab[j].status \in Status

-----------------------------------------------------------------------------
\* INSERT of a new job; its id is a fresh UUID, so no row has it.
InsertJob(tab, j) == [tab EXCEPT ![j] = NewRow("pending")]

\* Mutant: an UPDATE that forgets updated_at.
UpdateStatusOnly(tab, j, status) ==
  IF Exists(tab, j)
  THEN [tab EXCEPT ![j] = [status |-> status, output |-> @.output, stale |-> @.stale]]
  ELSE tab

\* The unconditional UPDATE: whatever the status was; no row, no effect.
UpdateJobStatus(tab, j, status) ==
  IF Exists(tab, j)
  THEN [tab EXCEPT ![j] = [status |-> status, output |-> @.output, stale |-> FALSE]]
  ELSE tab

\* Mutants: a processing job can be acquired again, or a completed one.
MarkableProcessing(tab, j) == tab[j].status \in {"pending", "processing", "failed"}
MarkableCompleted(tab, j) == tab[j].status \in {"pending", "completed", "failed"}

\* The WHERE clause of the conditional UPDATE in TryMarkJobProcessing.
Markable(tab, j) == tab[j].status \in {"pending", "failed"}

\* Mutant: the UPDATE without its WHERE clause on the status.
MarkAlways(tab, j) == UpdateJobStatus(tab, j, "processing")

MarkProcessing(tab, j) ==
  IF Markable(tab, j) THEN UpdateJobStatus(tab, j, "processing") ELSE tab

UpdateJobOutputDir(tab, j) ==
  IF Exists(tab, j)
  THEN [tab EXCEPT ![j] = [status |-> @.status, output |-> TRUE, stale |-> FALSE]]
  ELSE tab

\* UpdateJobOutputDir as those see it who never look at output_dir: the row is
\* fresh again.
Touch(tab, j) == UpdateJobStatus(tab, j, tab[j].status)

DeleteJob(tab, j) ==
  IF Exists(tab, j)
  THEN [tab EXCEPT ![j] = NewRow("deleted")]
  ELSE tab

\* A statement that returned an error may still have been committed: the
\* context of 5 seconds can expire between the commit and its answer.
AfterError(tab, written) == {tab, written}

\* Time passes: the row becomes older than the cutoff.
Aged(tab, j) == [tab EXCEPT ![j].stale = TRUE]

\* ListStuckProcessingJobs and ListStuckPendingJobs: the `limit` oldest rows
\* with that status among the stale ones, but for those that have turned
\* stale since the cutoff was computed.
ListStuck(tab, status, young, limit) ==
  LET stuck == {j \in Jobs \ young : tab[j].status = status /\ tab[j].stale}
  IN  {j \in stuck : Cardinality({k \in stuck : k < j}) < limit}
=============================================================================
