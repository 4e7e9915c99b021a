-------------------------- MODULE ProcessingService --------------------------
(***************************************************************************)
(* ProcessingService.ProcessJob (internal/service/processing_service.go),  *)
(* run by many workers at once against one jobs table and one data         *)
(* directory: the conditional UPDATE that hands a job to a worker, the     *)
(* conversion into the job's directory, and the status the attempt ends in.*)
(*                                                                         *)
(* A call is split at its external effects: each action does at most one   *)
(* database statement or one change of the disk, and the progress event    *)
(* that follows it.  The job's context may end at any time, so every step  *)
(* that takes it may fail.                                                 *)
(*                                                                         *)
(* What other components do to the same row and directory is the           *)
(* environment of this module: an upload saves its input, inserts its row  *)
(* and may roll both back, a recovery sweep writes `pending` over any      *)
(* status, a process dies with all its workers, and calls for a job come   *)
(* in any number (retries, recovery, duplicated messages).  The age of a   *)
(* row, which only recovery reads, stays out of this module.               *)
(***************************************************************************)
EXTENDS JobStore

CONSTANTS
  Workers,          \* the goroutines that call ProcessJob, of all processes
  Processes,        \* the sets of workers that live and die together
  NumQualities,     \* len(Qualities): the HLS renditions
  MaxResets         \* bound: writes of `pending` by recovery, for each job

ASSUME WorkersAssumption == IsFiniteSet(Workers) /\ Processes \subseteq SUBSET Workers
ASSUME QualitiesAssumption == NumQualities \in Nat \ {0}
ASSUME ResetsAssumption == MaxResets \in Nat

VARIABLES
  jobs,             \* the jobs table
  proc,             \* for each worker, the ProcessJob call it is in
  files,            \* for each job, the whole files in its directory
  feed,             \* for each job, the last progress event that was published
  resets            \* history: how often recovery wrote `pending` over the job

vars == <<jobs, proc, files, feed, resets>>

-----------------------------------------------------------------------------
\* The files of a job's directory: its input, then what an attempt writes, in
\* that order: each rendition, the master playlist, the thumbnail.
Input == 0
NumParts == NumQualities + 2
Parts == 1 .. NumParts

\* Between acquiring the job and its last status write the attempt is active.
Acquired == {"fetch", "mkdir", "convert", "encoding", "outdir", "complete", "failing"}
PC == {"idle", "mark", "status", "announce", "reporting", "returned"} \cup Acquired

Call == [pc : PC, job : Jobs \cup {-1}, done : 0 .. NumParts, ok : BOOLEAN]

\* How far the conversion is follows from where the call is.
Positioned(c) ==
  /\ c.pc # "idle" => c.job \in Jobs
  /\ c.pc \in {"mark", "status", "fetch", "mkdir"} => c.done = 0
  /\ c.pc \in {"convert", "encoding"} => c.done < NumParts
  /\ c.pc \in {"outdir", "complete"} => c.done = NumParts

Idle == [pc |-> "idle", job |-> -1, done |-> 0, ok |-> FALSE]

Events == {"none", "progress", "done", "failed"}

TypeOK ==
  /\ jobs \in [Jobs -> Row]
  /\ proc \in [Workers -> Call]
  /\ \A w \in Workers : Positioned(proc[w])
  /\ files \in [Jobs -> SUBSET (Parts \cup {Input})]
  /\ feed \in [Jobs -> Events]
  /\ resets \in [Jobs -> 0 .. MaxResets]

Init ==
  /\ jobs = EmptyTable
  /\ proc = [w \in Workers |-> Idle]
  /\ files = [j \in Jobs |-> {}]
  /\ feed = [j \in Jobs |-> "none"]
  /\ resets = [j \in Jobs |-> 0]

-----------------------------------------------------------------------------
At(w, pc) == proc[w].pc = pc

Become(w, pc, done, ok) ==
  proc' = [proc EXCEPT ![w] = [pc |-> pc, job |-> @.job, done |-> done, ok |-> ok]]

Goto(w, pc) == Become(w, pc, proc[w].done, FALSE)

Return(w, ok) == Become(w, "returned", 0, ok)

\* Publishing is best effort: an event is lost when the context has ended or
\* Redis does not answer.
Publish(j, event) == feed' \in {feed, [feed EXCEPT ![j] = event]}

\* A worker takes a message of the job.  The row was inserted before its
\* message was published, but it may have been deleted since.
Begin(w, j) ==
  /\ At(w, "idle")
  /\ jobs[j].status # "none"
  /\ proc' = [proc EXCEPT ![w] = [pc |-> "mark", job |-> j, done |-> 0, ok |-> FALSE]]
  /\ UNCHANGED <<jobs, files, feed, resets>>

\* TryMarkJobProcessing, the UPDATE: it acquires the job, matches no row, or
\* returns an error, with or without having been committed.
TryMark(w) ==
  LET j == proc[w].job IN
  /\ At(w, "mark")
  /\ \/ /\ Markable(jobs, j)
        /\ jobs' = MarkProcessing(jobs, j)
        /\ Goto(w, "fetch")
     \/ /\ ~Markable(jobs, j)
        /\ Goto(w, "status")
        /\ UNCHANGED jobs
     \/ /\ jobs' \in AfterError(jobs, MarkProcessing(jobs, j))
        /\ Return(w, FALSE)
  /\ UNCHANGED <<files, feed, resets>>

\* TryMarkJobProcessing, the SELECT after an UPDATE of no row: a later
\* statement, which sees the table as it is then.  A job found processing or
\* completed is skipped with success, anything else is an error.
ReadStatus(w) ==
  /\ At(w, "status")
  /\ \/ /\ jobs[proc[w].job].status \in {"processing", "completed"}
        /\ Return(w, TRUE)
     \/ Return(w, FALSE)
  /\ UNCHANGED <<jobs, files, feed, resets>>

\* GetJobByID under the job's context; its error leaves the row processing.
FetchJob(w) ==
  LET j == proc[w].job IN
  /\ At(w, "fetch")
  /\ \/ Exists(jobs, j) /\ Goto(w, "mkdir") /\ Publish(j, "progress")
     \/ Return(w, FALSE) /\ UNCHANGED feed
  /\ UNCHANGED <<jobs, files, resets>>

MakeOutputDir(w) ==
  /\ At(w, "mkdir")
  /\ Goto(w, "convert") \/ Goto(w, "failing")
  /\ UNCHANGED <<jobs, files, feed, resets>>

\* ffmpeg (or os.WriteFile, for the master playlist) opens the next file,
\* truncating what an earlier attempt left there.
StartPart(w) ==
  LET j == proc[w].job
      part == proc[w].done + 1 IN
  /\ At(w, "convert")
  /\ \/ /\ Input \in files[j] \/ part = NumQualities + 1
        /\ files' = [files EXCEPT ![j] = @ \ {part}]
        /\ Goto(w, "encoding")
     \/ Goto(w, "failing") /\ UNCHANGED files
  /\ UNCHANGED <<jobs, feed, resets>>

\* Mutants: one part too many, and an error of ffmpeg that is ignored.
EndPartLate(w) ==
  LET j == proc[w].job
      part == proc[w].done + 1 IN
  /\ At(w, "encoding")
  /\ \/ /\ files' = [files EXCEPT ![j] = @ \cup {part}]
        /\ Become(w, IF part > NumParts THEN "outdir" ELSE "convert", part, FALSE)
        /\ IF part > NumParts THEN UNCHANGED feed ELSE Publish(j, "progress")
     \/ Goto(w, "failing") /\ UNCHANGED <<files, feed>>
  /\ UNCHANGED <<jobs, resets>>

EndPartUnchecked(w) ==
  LET j == proc[w].job
      part == proc[w].done + 1 IN
  /\ At(w, "encoding")
  /\ files' \in {files, [files EXCEPT ![j] = @ \cup {part}]}
  /\ Become(w, IF part = NumParts THEN "outdir" ELSE "convert", part, FALSE)
  /\ IF part = NumParts THEN UNCHANGED feed ELSE Publish(j, "progress")
  /\ UNCHANGED <<jobs, resets>>

\* The file is whole, or the run failed and what it left is not.
EndPart(w) ==
  LET j == proc[w].job
      part == proc[w].done + 1 IN
  /\ At(w, "encoding")
  /\ \/ /\ files' = [files EXCEPT ![j] = @ \cup {part}]
        /\ Become(w, IF part = NumParts THEN "outdir" ELSE "convert", part, FALSE)
        /\ IF part = NumParts THEN UNCHANGED feed ELSE Publish(j, "progress")
     \/ Goto(w, "failing") /\ UNCHANGED <<files, feed>>
  /\ UNCHANGED <<jobs, resets>>

\* Mutant: the end is announced before `completed` is written.
SetOutputDirDone(w) ==
  LET j == proc[w].job IN
  /\ At(w, "outdir")
  /\ \/ jobs' = UpdateJobOutputDir(jobs, j) /\ Goto(w, "complete") /\ Publish(j, "done")
     \/ /\ jobs' \in AfterError(jobs, UpdateJobOutputDir(jobs, j))
        /\ Goto(w, "failing") /\ UNCHANGED feed
  /\ UNCHANGED <<files, resets>>

SetOutputDir(w) ==
  LET j == proc[w].job IN
  /\ At(w, "outdir")
  /\ \/ jobs' = UpdateJobOutputDir(jobs, j) /\ Goto(w, "complete")
     \/ jobs' \in AfterError(jobs, UpdateJobOutputDir(jobs, j)) /\ Goto(w, "failing")
  /\ UNCHANGED <<files, feed, resets>>

\* An error of this write is returned without writing `failed`.
MarkCompleted(w) ==
  LET j == proc[w].job
      written == UpdateJobStatus(jobs, j, "completed") IN
  /\ At(w, "complete")
  /\ \/ jobs' = written /\ Goto(w, "announce")
     \/ jobs' \in AfterError(jobs, written) /\ Return(w, FALSE)
  /\ UNCHANGED <<files, feed, resets>>

AnnounceDone(w) ==
  /\ At(w, "announce")
  /\ Publish(proc[w].job, "done")
  /\ Return(w, TRUE)
  /\ UNCHANGED <<jobs, files, resets>>

\* The write of `failed`, its error ignored.  No event follows when it was
\* the write of output_dir that failed, after every part was done.
MarkFailed(w) ==
  LET j == proc[w].job IN
  /\ At(w, "failing")
  /\ jobs' \in AfterError(jobs, UpdateJobStatus(jobs, j, "failed"))
  /\ IF proc[w].done = NumParts THEN Return(w, FALSE) ELSE Goto(w, "reporting")
  /\ UNCHANGED <<files, feed, resets>>

ReportFailure(w) ==
  /\ At(w, "reporting")
  /\ Publish(proc[w].job, "failed")
  /\ Return(w, FALSE)
  /\ UNCHANGED <<jobs, files, resets>>

\* The worker has the result of the call; what it does with it is the pool's.
End(w) ==
  /\ At(w, "returned")
  /\ proc' = [proc EXCEPT ![w] = Idle]
  /\ UNCHANGED <<jobs, files, feed, resets>>

ProcessJob(w) ==
  \/ TryMark(w) \/ ReadStatus(w) \/ FetchJob(w) \/ MakeOutputDir(w)
  \/ StartPart(w) \/ EndPart(w) \/ SetOutputDir(w) \/ MarkCompleted(w)
  \/ AnnounceDone(w) \/ MarkFailed(w) \/ ReportFailure(w)

-----------------------------------------------------------------------------
\* The environment.

\* UploadService, before it has a row: the input is on disk.
SaveInput(j) ==
  /\ jobs[j].status = "none"
  /\ files' = [files EXCEPT ![j] = {Input}]
  /\ UNCHANGED <<jobs, proc, feed, resets>>

PersistJob(j) ==
  /\ jobs[j].status = "none" /\ Input \in files[j]
  /\ jobs' = InsertJob(jobs, j)
  /\ UNCHANGED <<proc, files, feed, resets>>

\* The rollback of an upload: the row and the directory, each step possibly
\* failing, at any time since the publication it undoes may have succeeded.
RollbackRow(j) ==
  /\ Exists(jobs, j)
  /\ jobs' = DeleteJob(jobs, j)
  /\ UNCHANGED <<proc, files, feed, resets>>

RollbackFiles(j) ==
  /\ files[j] # {}
  /\ files' = [files EXCEPT ![j] = {}]
  /\ UNCHANGED <<jobs, proc, feed, resets>>

\* RecoveryService.Recover writes `pending` over a row it listed earlier.
RecoveryReset(j) ==
  /\ jobs[j].status # "none"
  /\ resets[j] < MaxResets
  /\ jobs' = UpdateJobStatus(jobs, j, "pending")
  /\ resets' = [resets EXCEPT ![j] = @ + 1]
  /\ UNCHANGED <<proc, files, feed>>

\* A process dies: its workers are gone, with what they were doing.
Crash(p) ==
  /\ proc' = [w \in Workers |-> IF w \in p THEN Idle ELSE proc[w]]
  /\ UNCHANGED <<jobs, files, feed, resets>>

Environment ==
  \/ \E j \in Jobs : \/ SaveInput(j) \/ PersistJob(j) \/ RollbackRow(j)
                     \/ RollbackFiles(j) \/ RecoveryReset(j)
  \/ \E p \in Processes : Crash(p)

Next ==
  \/ \E w \in Workers : ProcessJob(w) \/ End(w) \/ \E j \in Jobs : Begin(w, j)
  \/ Environment

Spec == Init /\ [][Next]_vars

-----------------------------------------------------------------------------
\* The workers that hold the job: they will still write its status or files.
Active(j) == {w \in Workers : proc[w].job = j /\ proc[w].pc \in Acquired}

\* However many calls there are for a job, by retries, recovery or duplicated
\* messages, and whatever fails or crashes, the conditional UPDATE lets at
\* most one worker hold it for each time its status was made `pending`: once
\* by its upload, and once more for each write of recovery.
ActiveBounded ==
  \A j \in Jobs : Cardinality(Active(j)) <= resets[j] + 1

\* Without a recovery write, a completed job stays completed: no late
\* failure of another attempt and no retry writes over it, only the rollback
\* of its upload takes it away.
CompletedIsFinal ==
  [][\A j \in Jobs :
       jobs[j].status = "completed" /\ resets'[j] = 0
         => jobs'[j].status \in {"completed", "deleted"}]_vars

\* A completed job whose upload was not rolled back has every rendition, the
\* master playlist and the thumbnail whole on disk and its output_dir set:
\* no later attempt is rewriting them while readers are being served.
CompletedIsPlayable ==
  \A j \in Jobs :
    jobs[j].status = "completed" /\ resets[j] = 0 /\ Input \in files[j]
      => Parts \subseteq files[j] /\ jobs[j].output

\* An event that says the job is done is true when a reader acts on it: the
\* job is completed (or was rolled back), even with attempts racing.
DoneIsCompleted ==
  \A j \in Jobs :
    feed[j] = "done" /\ resets[j] = 0 => jobs[j].status \in {"completed", "deleted"}

\* The status of every job lives the life that JobLifecycle promises: only the
\* jobs recovery wrote over see an attempt end over a row it does not hold.
Lifecycle == INSTANCE JobLifecycle
               WITH status <- [j \in Jobs |-> jobs[j].status],
                    disturbed <- {j \in Jobs : resets[j] > 0}
LifecycleSpec == Lifecycle!Spec

\* "acquired=false when another worker is already processing or the job was
\* concluded" (job_repo.go:50-52): a call that skips its job with success
\* leaves it with a worker that holds it, or completed.
SkipOnlyWhenHandled ==
  [][\A w \in Workers :
       At(w, "status") /\ proc'[w].pc = "returned" /\ proc'[w].ok
         => LET j == proc[w].job
            IN  Active(j) # {} \/ jobs[j].status = "completed"]_vars
=============================================================================
