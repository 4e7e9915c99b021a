--------------------------- MODULE JobStoreLemmas ---------------------------
(***************************************************************************)
(* What each statement on the jobs table does to the row it names, and     *)
(* that it leaves every other row alone.                                   *)
(***************************************************************************)
EXTENDS JobStore, TLAPS

\* Every statement of job_repo.go that writes yields a table again.
LEMMA StatementsTyped ==
  ASSUME NEW tab \in [Jobs -> Row], NEW j \in Jobs
  PROVE  /\ InsertJob(tab, j) \in [Jobs -> Row]
         /\ \A s \in Status : UpdateJobStatus(tab, j, s) \in [Jobs -> Row]
         /\ MarkProcessing(tab, j) \in [Jobs -> Row]
         /\ UpdateJobOutputDir(tab, j) \in [Jobs -> Row]
         /\ DeleteJob(tab, j) \in [Jobs -> Row]
BY DEF InsertJob, UpdateJobStatus, MarkProcessing, UpdateJobOutputDir,
       DeleteJob, Row, NewRow, Status, Absent, Markable, Exists

\* Writing the status a row has, as Touch does: an UPDATE of a job that has no row
\* changes nothing, so that what is written is a status whenever it matters.
LEMMA KeptStatus ==
  ASSUME NEW tab \in [Jobs -> Row], NEW j \in Jobs
  PROVE  tab[j].status \in Status \/ Touch(tab, j) = tab
BY DEF Touch, UpdateJobStatus, Exists

\* A statement touches the row of its own job only.
LEMMA StatementsLocal ==
  ASSUME NEW tab \in [Jobs -> Row], NEW j \in Jobs, NEW k \in Jobs, k # j
  PROVE  /\ InsertJob(tab, j)[k] = tab[k]
         /\ \A s \in Status : UpdateJobStatus(tab, j, s)[k] = tab[k]
         /\ MarkProcessing(tab, j)[k] = tab[k]
         /\ UpdateJobOutputDir(tab, j)[k] = tab[k]
         /\ DeleteJob(tab, j)[k] = tab[k]
BY DEF InsertJob, UpdateJobStatus, MarkProcessing, UpdateJobOutputDir,
       DeleteJob, Row, Exists, Markable

\* The status each statement leaves in the row it names.
LEMMA StatementsStatus ==
  ASSUME NEW tab \in [Jobs -> Row], NEW j \in Jobs
  PROVE  /\ InsertJob(tab, j)[j].status = "pending"
         /\ \A s \in Status : UpdateJobStatus(tab, j, s)[j].status
              = IF Exists(tab, j) THEN s ELSE tab[j].status
         /\ MarkProcessing(tab, j)[j].status
              = IF Markable(tab, j) THEN "processing" ELSE tab[j].status
         /\ UpdateJobOutputDir(tab, j)[j].status = tab[j].status
         /\ DeleteJob(tab, j)[j].status
              = IF Exists(tab, j) THEN "deleted" ELSE tab[j].status
BY DEF InsertJob, UpdateJobStatus, MarkProcessing, UpdateJobOutputDir,
       DeleteJob, Row, NewRow, Status, Absent, Exists, Markable

\* No statement but the DELETE takes output_dir away.
LEMMA StatementsOutput ==
  ASSUME NEW tab \in [Jobs -> Row], NEW j \in Jobs
  PROVE  /\ \A s \in Status : UpdateJobStatus(tab, j, s)[j].output = tab[j].output
         /\ MarkProcessing(tab, j)[j].output = tab[j].output
         /\ Exists(tab, j) => UpdateJobOutputDir(tab, j)[j].output
         /\ tab[j].output => UpdateJobOutputDir(tab, j)[j].output
BY DEF UpdateJobStatus, MarkProcessing, UpdateJobOutputDir, Row, Exists, Markable, Status
=============================================================================
