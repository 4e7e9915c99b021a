---------------------------- MODULE UploadService ----------------------------
(***************************************************************************)
(* UploadService.UploadAndValidateFile (internal/service/                  *)
(* upload_service.go), run by the server for many requests at once: it     *)
(* saves the input in a directory of its own, inserts the row, publishes   *)
(* the message, and rolls the row and the directory back when the          *)
(* publication fails.  A request and the job it creates share a name.      *)
(*                                                                         *)
(* Any step may fail, a failure may hide that the step was done, and the   *)
(* server may die between two steps.  The workers, which may take the      *)
(* message while its upload is being rolled back, are the environment.     *)
(* Requests that the validator refuses never get here.                     *)
(***************************************************************************)
EXTENDS JobStore

VARIABLES
  jobs,             \* the jobs table
  disk,             \* for each job, what is in the data directory
  queued,           \* the jobs that have a message in the main list
  upload,           \* for each job, where its request is
  attempt,          \* for each job, whether a worker got its message
  spoiled           \* history: the jobs whose rollback could not take the row away

vars == <<jobs, disk, queued, upload, attempt, spoiled>>

-----------------------------------------------------------------------------
\* Requests that go on, and their ends.
Busy == {"mkdir", "save", "persist", "cleanup", "publish", "delete", "remove"}
Ended == {"accepted", "rejected", "crashed"}

TypeOK ==
  /\ jobs \in [Jobs -> Row]
  /\ disk \in [Jobs -> SUBSET {"dir", "input", "output"}]
  /\ \A j \in Jobs : disk[j] # {} => "dir" \in disk[j]
  /\ queued \subseteq Jobs /\ spoiled \subseteq Jobs
  /\ upload \in [Jobs -> Busy \cup Ended]
  /\ attempt \in [Jobs -> {"none", "holding", "over"}]

Init ==
  /\ jobs = EmptyTable
  /\ disk = [j \in Jobs |-> {}]
  /\ queued = {} /\ spoiled = {}
  /\ upload = [j \in Jobs |-> "mkdir"]
  /\ attempt = [j \in Jobs |-> "none"]

At(j, pc) == upload[j] = pc
Goto(j, pc) == upload' = [upload EXCEPT ![j] = pc]

-----------------------------------------------------------------------------
\* Mutant: the row comes before the file.
CreateJobDirOnly(j) ==
  /\ At(j, "mkdir")
  /\ \/ disk' = [disk EXCEPT ![j] = {"dir"}] /\ Goto(j, "persist")
     \/ Goto(j, "rejected") /\ UNCHANGED disk
  /\ UNCHANGED <<jobs, queued, attempt, spoiled>>

CreateJobDir(j) ==
  /\ At(j, "mkdir")
  /\ \/ disk' = [disk EXCEPT ![j] = {"dir"}] /\ Goto(j, "save")
     \/ Goto(j, "rejected") /\ UNCHANGED disk
  /\ UNCHANGED <<jobs, queued, attempt, spoiled>>

\* A failed copy takes the file away again, if it can, and leaves the
\* directory.
SaveInputFile(j) ==
  /\ At(j, "save")
  /\ \/ disk' = [disk EXCEPT ![j] = @ \cup {"input"}] /\ Goto(j, "persist")
     \/ disk' \in {disk, [disk EXCEPT ![j] = @ \cup {"input"}]} /\ Goto(j, "rejected")
  /\ UNCHANGED <<jobs, queued, attempt, spoiled>>

PersistJob(j) ==
  /\ At(j, "persist")
  /\ \/ jobs' = InsertJob(jobs, j) /\ Goto(j, "publish") /\ UNCHANGED spoiled
     \/ /\ jobs' \in AfterError(jobs, InsertJob(jobs, j))
        /\ spoiled' = IF jobs' = jobs THEN spoiled ELSE spoiled \cup {j}
        /\ Goto(j, "cleanup")
  /\ UNCHANGED <<disk, queued, attempt>>

\* os.RemoveAll of the job's directory, which may stop half-way.
Removed(j) == disk' \in {[disk EXCEPT ![j] = left] :
                           left \in {{}} \cup {d \in SUBSET disk[j] : "dir" \in d}}

\* After an error of InsertJob only the directory is removed.
RemoveUnsaved(j) ==
  /\ At(j, "cleanup")
  /\ Removed(j)
  /\ Goto(j, "rejected")
  /\ UNCHANGED <<jobs, queued, attempt, spoiled>>

\* Mutants: an error of the publication is swallowed, and a rollback that
\* forgets the row.
EnqueueJobUnchecked(j) ==
  /\ At(j, "publish")
  /\ queued' \in {queued, queued \cup {j}} /\ Goto(j, "accepted")
  /\ UNCHANGED <<jobs, disk, attempt, spoiled>>

EnqueueJobFilesOnly(j) ==
  /\ At(j, "publish")
  /\ \/ queued' = queued \cup {j} /\ Goto(j, "accepted")
     \/ queued' \in {queued, queued \cup {j}} /\ Goto(j, "remove")
  /\ UNCHANGED <<jobs, disk, attempt, spoiled>>

\* PublishJob under the context of the request, which ends with its client.
EnqueueJob(j) ==
  /\ At(j, "publish")
  /\ \/ queued' = queued \cup {j} /\ Goto(j, "accepted")
     \/ queued' \in {queued, queued \cup {j}} /\ Goto(j, "delete")
  /\ UNCHANGED <<jobs, disk, attempt, spoiled>>

\* rollbackJob goes on to the directory whether or not the row was deleted.
DeleteRow(j) ==
  /\ At(j, "delete")
  /\ \/ jobs' = DeleteJob(jobs, j) /\ UNCHANGED spoiled
     \/ /\ jobs' \in AfterError(jobs, DeleteJob(jobs, j))
        /\ spoiled' = IF jobs' = jobs THEN spoiled \cup {j} ELSE spoiled
  /\ Goto(j, "remove")
  /\ UNCHANGED <<disk, queued, attempt>>

RemoveDir(j) ==
  /\ At(j, "remove")
  /\ Removed(j)
  /\ Goto(j, "rejected")
  /\ UNCHANGED <<jobs, queued, attempt, spoiled>>

Upload(j) ==
  \/ CreateJobDir(j) \/ SaveInputFile(j) \/ PersistJob(j) \/ RemoveUnsaved(j)
  \/ EnqueueJob(j) \/ DeleteRow(j) \/ RemoveDir(j)

\* The server dies with the requests it was serving.
ServerCrash ==
  /\ \E j \in Jobs : upload[j] \in Busy
  /\ upload' = [j \in Jobs |-> IF upload[j] \in Busy THEN "crashed" ELSE upload[j]]
  /\ UNCHANGED <<jobs, disk, queued, attempt, spoiled>>

-----------------------------------------------------------------------------
\* The environment: a worker takes the message, and acquires the job if its
\* row is still there.
Take(j) ==
  /\ j \in queued
  /\ queued' = queued \ {j}
  /\ jobs' = MarkProcessing(jobs, j)
  /\ attempt' = [attempt EXCEPT ![j] = IF Markable(jobs, j) THEN "holding" ELSE "over"]
  /\ UNCHANGED <<disk, upload, spoiled>>

\* Mutant: the directory is taken to be there still.
WriteOutputOnly(j) ==
  /\ attempt[j] = "holding"
  /\ disk' = [disk EXCEPT ![j] = @ \cup {"output"}]
  /\ UNCHANGED <<jobs, queued, upload, attempt, spoiled>>

\* It makes the directory, again if need be, and writes its output there.
WriteOutput(j) ==
  /\ attempt[j] = "holding"
  /\ disk' = [disk EXCEPT ![j] = @ \cup {"dir", "output"}]
  /\ UNCHANGED <<jobs, queued, upload, attempt, spoiled>>

Conclude(j) ==
  /\ attempt[j] = "holding"
  /\ \E status \in {"completed", "failed"} : jobs' = UpdateJobStatus(jobs, j, status)
  /\ attempt' = [attempt EXCEPT ![j] = "over"]
  /\ UNCHANGED <<disk, queued, upload, spoiled>>

Next == \/ \E j \in Jobs : Upload(j) \/ Take(j) \/ WriteOutput(j) \/ Conclude(j)
        \/ ServerCrash

Spec == Init /\ [][Next]_vars

-----------------------------------------------------------------------------
\* At every moment, so also when the server dies there, a row has its input
\* on disk: the file is saved before the row is inserted and removed after
\* the row is deleted.  The exceptions are the rows a rollback could not
\* take away: an insert that hid its commit, and a failed DELETE.
RowHasInput ==
  \A j \in Jobs \ spoiled : Exists(jobs, j) => "input" \in disk[j]

\* An upload that was accepted has its row and its input, and its message is
\* queued or a worker has had it: nothing another request, a rollback or a
\* worker does takes them away.
AcceptedIsReady ==
  \A j \in Jobs : upload[j] = "accepted" =>
    /\ Exists(jobs, j) /\ "input" \in disk[j]
    /\ j \in queued \/ attempt[j] # "none"

\* A rejected upload leaves no row, although a worker may have had its
\* message and gone on writing the status of a job that was deleted.
RejectedLeavesNoRow ==
  \A j \in Jobs \ spoiled : upload[j] = "rejected" => ~Exists(jobs, j)
=============================================================================
