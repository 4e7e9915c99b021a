------------------------ MODULE UploadServiceProofs ------------------------
(***************************************************************************)
(* Proofs about UploadService, for any number of requests: what a row, an  *)
(* accepted upload and a rejected one have, at every step of every request *)
(* and wherever the server dies.                                           *)
(*                                                                         *)
(* The three invariants say nothing of requests that go on, from whose     *)
(* state they follow: Kept says it for each step of a request.             *)
(***************************************************************************)
EXTENDS UploadService, JobStoreLemmas

HasInput(j) == "input" \in disk[j]
Gone(j) == ~Exists(jobs, j) \/ j \in spoiled

Kept(j) ==
  /\ upload[j] \in {"mkdir", "save", "persist"} => ~Exists(jobs, j)
  /\ upload[j] = "save" => "dir" \in disk[j]
  /\ upload[j] = "persist" => HasInput(j)
  /\ upload[j] \in {"publish", "delete", "accepted"} => Exists(jobs, j) /\ HasInput(j)
  /\ upload[j] = "accepted" => j \in queued \/ attempt[j] # "none"
  /\ upload[j] \in {"cleanup", "remove", "rejected"} => Gone(j)
  /\ Gone(j) \/ HasInput(j)

UploadInv == TypeOK /\ \A j \in Jobs : Kept(j)

-----------------------------------------------------------------------------
\* A step that changes nothing of a job, but for the row's status among those
\* of a row that exists, keeps what is kept of it.
LEMMA Untouched ==
  ASSUME NEW k \in Jobs, Kept(k),
         Exists(jobs', k) <=> Exists(jobs, k),
         disk'[k] = disk[k], upload'[k] = upload[k], attempt'[k] = attempt[k],
         k \in queued' <=> k \in queued, k \in spoiled' <=> k \in spoiled
  PROVE  Kept(k)'
BY DEF Kept, Gone, HasInput

\* The statements make a row exist, or no longer exist, as their names say.
LEMMA StatementsExist ==
  ASSUME NEW tab \in [Jobs -> Row], NEW j \in Jobs
  PROVE  /\ Exists(InsertJob(tab, j), j)
         /\ ~Exists(DeleteJob(tab, j), j)
         /\ Exists(MarkProcessing(tab, j), j) <=> Exists(tab, j)
         /\ \A s \in Status : Exists(UpdateJobStatus(tab, j, s), j) <=> Exists(tab, j)
BY StatementsStatus DEF Exists, Markable, Status

LEMMA StatementsExistElsewhere ==
  ASSUME NEW tab \in [Jobs -> Row], NEW j \in Jobs, NEW k \in Jobs, k # j
  PROVE  /\ Exists(InsertJob(tab, j), k) <=> Exists(tab, k)
         /\ Exists(DeleteJob(tab, j), k) <=> Exists(tab, k)
         /\ Exists(MarkProcessing(tab, j), k) <=> Exists(tab, k)
         /\ \A s \in Status : Exists(UpdateJobStatus(tab, j, s), k) <=> Exists(tab, k)
BY StatementsLocal DEF Exists

\* The rollback's RemoveAll leaves a directory, or nothing.
LEMMA RemovedTyped ==
  ASSUME TypeOK, NEW j \in Jobs, Removed(j)
  PROVE  /\ disk' \in [Jobs -> SUBSET {"dir", "input", "output"}]
         /\ \A k \in Jobs : disk'[k] # {} => "dir" \in disk'[k]
         /\ \A k \in Jobs \ {j} : disk'[k] = disk[k]
BY DEF TypeOK, Removed

-----------------------------------------------------------------------------
LEMMA CreateJobDirStep ==
  ASSUME UploadInv, NEW j \in Jobs, CreateJobDir(j) PROVE UploadInv'
<1>1. TypeOK'
  BY DEF UploadInv, TypeOK, CreateJobDir, At, Goto, Busy, Ended
<1>2. ASSUME NEW k \in Jobs PROVE Kept(k)'
  <2>1. CASE k = j
    BY <2>1 DEF UploadInv, TypeOK, CreateJobDir, At, Goto, Kept, Gone, HasInput
  <2>2. CASE k # j
    BY <2>2, Untouched DEF UploadInv, TypeOK, CreateJobDir, Goto
  <2> QED BY <2>1, <2>2
<1> QED BY <1>1, <1>2 DEF UploadInv

LEMMA SaveInputFileStep ==
  ASSUME UploadInv, NEW j \in Jobs, SaveInputFile(j) PROVE UploadInv'
<1>1. TypeOK'
  BY DEF UploadInv, TypeOK, SaveInputFile, At, Goto, Busy, Ended, Kept
<1>2. ASSUME NEW k \in Jobs PROVE Kept(k)'
  <2>1. CASE k = j
    BY <2>1 DEF UploadInv, TypeOK, SaveInputFile, At, Goto, Kept, Gone, HasInput
  <2>2. CASE k # j
    BY <2>2, Untouched DEF UploadInv, TypeOK, SaveInputFile, Goto
  <2> QED BY <2>1, <2>2
<1> QED BY <1>1, <1>2 DEF UploadInv

LEMMA PersistJobStep ==
  ASSUME UploadInv, NEW j \in Jobs, PersistJob(j) PROVE UploadInv'
<1>1. jobs \in [Jobs -> Row]
  BY DEF UploadInv, TypeOK
<1>2. jobs' \in {jobs, InsertJob(jobs, j)}
  BY DEF PersistJob, AfterError
<1>3. TypeOK'
  <2>1. jobs' \in [Jobs -> Row]
    BY <1>1, <1>2, StatementsTyped
  <2> QED
    BY <2>1 DEF UploadInv, TypeOK, PersistJob, Goto, Busy, Ended
<1>4. ASSUME NEW k \in Jobs PROVE Kept(k)'
  <2>1. CASE k = j
    <3>1. Exists(InsertJob(jobs, j), j)
      BY <1>1, StatementsExist
    <3> QED
      BY <2>1, <3>1 DEF UploadInv, TypeOK, PersistJob, AfterError, At, Goto, Kept, Gone, HasInput
  <2>2. CASE k # j
    <3>1. Exists(jobs', k) <=> Exists(jobs, k)
      BY <1>1, <1>2, <2>2, StatementsExistElsewhere
    <3> QED
      BY <2>2, <3>1, Untouched DEF UploadInv, TypeOK, PersistJob, Goto
  <2> QED BY <2>1, <2>2
<1> QED BY <1>3, <1>4 DEF UploadInv

LEMMA RemoveStep ==
  ASSUME UploadInv, NEW j \in Jobs, RemoveUnsaved(j) \/ RemoveDir(j) PROVE UploadInv'
<1>1. Removed(j)
  BY DEF RemoveUnsaved, RemoveDir
<1>2. TypeOK'
  BY <1>1, RemovedTyped DEF UploadInv, TypeOK, RemoveUnsaved, RemoveDir, Goto, Busy, Ended
<1>3. ASSUME NEW k \in Jobs PROVE Kept(k)'
  <2>1. CASE k = j
    BY <2>1 DEF UploadInv, TypeOK, RemoveUnsaved, RemoveDir, At, Goto, Kept, Gone
  <2>2. CASE k # j
    BY <1>1, <2>2, RemovedTyped, Untouched DEF UploadInv, TypeOK, RemoveUnsaved, RemoveDir, Goto
  <2> QED BY <2>1, <2>2
<1> QED BY <1>2, <1>3 DEF UploadInv

LEMMA EnqueueJobStep ==
  ASSUME UploadInv, NEW j \in Jobs, EnqueueJob(j) PROVE UploadInv'
<1>1. TypeOK'
  BY DEF UploadInv, TypeOK, EnqueueJob, Goto, Busy, Ended
<1>2. ASSUME NEW k \in Jobs PROVE Kept(k)'
  <2>1. CASE k = j
    BY <2>1 DEF UploadInv, TypeOK, EnqueueJob, At, Goto, Kept, Gone, HasInput
  <2>2. CASE k # j
    BY <2>2, Untouched DEF UploadInv, TypeOK, EnqueueJob, Goto
  <2> QED BY <2>1, <2>2
<1> QED BY <1>1, <1>2 DEF UploadInv

LEMMA DeleteRowStep ==
  ASSUME UploadInv, NEW j \in Jobs, DeleteRow(j) PROVE UploadInv'
<1>1. jobs \in [Jobs -> Row]
  BY DEF UploadInv, TypeOK
<1>2. jobs' \in {jobs, DeleteJob(jobs, j)}
  BY DEF DeleteRow, AfterError
<1>3. TypeOK'
  <2>1. jobs' \in [Jobs -> Row]
    BY <1>1, <1>2, StatementsTyped
  <2> QED
    BY <2>1 DEF UploadInv, TypeOK, DeleteRow, Goto, Busy, Ended
<1>4. ASSUME NEW k \in Jobs PROVE Kept(k)'
  <2>1. CASE k = j
    <3>1. ~Exists(DeleteJob(jobs, j), j)
      BY <1>1, StatementsExist
    <3> QED
      BY <2>1, <3>1 DEF UploadInv, TypeOK, DeleteRow, AfterError, At, Goto, Kept, Gone, HasInput
  <2>2. CASE k # j
    <3>1. Exists(jobs', k) <=> Exists(jobs, k)
      BY <1>1, <1>2, <2>2, StatementsExistElsewhere
    <3> QED
      BY <2>2, <3>1, Untouched DEF UploadInv, TypeOK, DeleteRow, Goto
  <2> QED BY <2>1, <2>2
<1> QED BY <1>3, <1>4 DEF UploadInv

\* Wherever a request was when the server died, its row, if it has one, has its
\* input.
LEMMA ServerCrashStep ==
  ASSUME UploadInv, ServerCrash PROVE UploadInv'
<1>1. TypeOK'
  BY DEF UploadInv, TypeOK, ServerCrash, Ended
<1>2. ASSUME NEW k \in Jobs PROVE Kept(k)'
  BY DEF UploadInv, TypeOK, ServerCrash, Ended, Busy, Kept, Gone, HasInput
<1> QED BY <1>1, <1>2 DEF UploadInv

-----------------------------------------------------------------------------
\* What a worker does to the row and the directory of a job.
LEMMA WorkerStep ==
  ASSUME UploadInv, NEW j \in Jobs, Take(j) \/ WriteOutput(j) \/ Conclude(j)
  PROVE  UploadInv'
<1>1. jobs \in [Jobs -> Row]
  BY DEF UploadInv, TypeOK
<1>2. jobs' = jobs \/ jobs' = MarkProcessing(jobs, j)
        \/ \E s \in Status : jobs' = UpdateJobStatus(jobs, j, s)
  BY DEF Take, WriteOutput, Conclude, Status
<1>3. jobs' \in [Jobs -> Row]
  BY <1>1, <1>2, StatementsTyped
<1>4. \A k \in Jobs : Exists(jobs', k) <=> Exists(jobs, k)
  BY <1>1, <1>2, StatementsExist, StatementsExistElsewhere
<1>5. TypeOK'
  BY <1>3 DEF UploadInv, TypeOK, Take, WriteOutput, Conclude
<1>6. ASSUME NEW k \in Jobs PROVE Kept(k)'
  <2>1. CASE k = j
    BY <1>4, <2>1 DEF UploadInv, TypeOK, Take, WriteOutput, Conclude, Kept, Gone, HasInput
  <2>2. CASE k # j
    BY <1>4, <2>2, Untouched DEF UploadInv, TypeOK, Take, WriteOutput, Conclude
  <2> QED BY <2>1, <2>2
<1> QED BY <1>5, <1>6 DEF UploadInv

-----------------------------------------------------------------------------
LEMMA InitInv == Init => UploadInv
<1> SUFFICES ASSUME Init PROVE UploadInv
  OBVIOUS
<1>1. TypeOK
  BY DEF Init, TypeOK, EmptyTable, NewRow, Row, Absent, Busy, Ended
<1>2. ASSUME NEW j \in Jobs PROVE Kept(j)
  BY DEF Init, EmptyTable, NewRow, Exists, Status, Kept, Gone
<1> QED BY <1>1, <1>2 DEF UploadInv

LEMMA StepInv == UploadInv /\ [Next]_vars => UploadInv'
<1> SUFFICES ASSUME UploadInv, [Next]_vars PROVE UploadInv'
  OBVIOUS
<1>1. ASSUME NEW j \in Jobs, Upload(j) PROVE UploadInv'
  BY <1>1, CreateJobDirStep, SaveInputFileStep, PersistJobStep, RemoveStep,
     EnqueueJobStep, DeleteRowStep DEF Upload
<1>2. ASSUME NEW j \in Jobs, Take(j) \/ WriteOutput(j) \/ Conclude(j) PROVE UploadInv'
  BY <1>2, WorkerStep
<1>3. CASE ServerCrash
  BY <1>3, ServerCrashStep
<1>4. CASE UNCHANGED vars
  BY <1>4 DEF vars, UploadInv, TypeOK, Kept, Gone, HasInput
<1> QED
  BY <1>1, <1>2, <1>3, <1>4 DEF Next

LEMMA Invariance == Spec => []UploadInv
BY InitInv, StepInv, PTL DEF Spec

\* Type correctness of the uploads: in particular, a file is in a directory.
THEOREM TypeCorrect == Spec => []TypeOK
<1>1. UploadInv => TypeOK
  BY DEF UploadInv
<1> QED
  BY <1>1, Invariance, PTL

\* A row has its input at every moment, also when the server dies there, but
\* for the rows a rollback could not take away.
THEOREM InputIsKept == Spec => []RowHasInput
<1>1. UploadInv => RowHasInput
  BY DEF UploadInv, Kept, Gone, HasInput, RowHasInput
<1> QED
  BY <1>1, Invariance, PTL

\* An accepted upload has its row, its input, and a message or a worker.
THEOREM AcceptedStaysReady == Spec => []AcceptedIsReady
<1>1. UploadInv => AcceptedIsReady
  BY DEF UploadInv, Kept, HasInput, AcceptedIsReady
<1> QED
  BY <1>1, Invariance, PTL

\* A rejected upload leaves no row, whatever a worker did with its message.
THEOREM RejectedIsGone == Spec => []RejectedLeavesNoRow
<1>1. UploadInv => RejectedLeavesNoRow
  BY DEF UploadInv, Kept, Gone, RejectedLeavesNoRow
<1> QED
  BY <1>1, Invariance, PTL
=============================================================================
