----------------------- MODULE ProcessingServiceProofs -----------------------
(***************************************************************************)
(* Theorems about ProcessingService, for any jobs, workers, processes,     *)
(* renditions and number of recovery writes.                               *)
(***************************************************************************)
EXTENDS ProcessingService, JobStoreLemmas, FiniteSetTheorems

-----------------------------------------------------------------------------
(* Lemmas about the two helpers every action is built from.                *)

LEMMA PartsFacts == NumParts \in Nat /\ NumQualities + 1 \in Parts /\ NumParts >= 3
BY QualitiesAssumption DEF NumParts, Parts

\* A worker's step rewrites its own call, which stays with its job.
LEMMA BecomeFacts ==
  ASSUME TypeOK, NEW w \in Workers, proc[w].pc # "idle",
         NEW pc \in PC, NEW done \in 0 .. NumParts, NEW ok \in BOOLEAN,
         Become(w, pc, done, ok),
         Positioned([pc |-> pc, job |-> proc[w].job, done |-> done, ok |-> ok])
  PROVE  /\ proc' \in [Workers -> Call]
         /\ \A v \in Workers : Positioned(proc'[v])
         /\ proc'[w] = [pc |-> pc, job |-> proc[w].job, done |-> done, ok |-> ok]
         /\ \A v \in Workers \ {w} : proc'[v] = proc[v]
BY DEF TypeOK, Become, Call

LEMMA PublishTyped ==
  ASSUME TypeOK, NEW j \in Jobs, NEW e \in Events, Publish(j, e)
  PROVE  feed' \in [Jobs -> Events]
BY DEF TypeOK, Publish

-----------------------------------------------------------------------------
(* Type correctness.                                                       *)

LEMMA StepTyped == TypeOK /\ [Next]_vars => TypeOK'
<1> SUFFICES ASSUME TypeOK, [Next]_vars PROVE TypeOK'
  OBVIOUS
<1> USE DEF PC, Acquired, Positioned, At
<1>1. ASSUME NEW w \in Workers, ProcessJob(w) PROVE TypeOK'
  <2> DEFINE j == proc[w].job
  <2>0. proc[w].pc # "idle" /\ j \in Jobs /\ proc[w].done \in 0 .. NumParts
    BY <1>1 DEF TypeOK, Call, ProcessJob, At, TryMark, ReadStatus, FetchJob,
       MakeOutputDir, StartPart, EndPart, SetOutputDir, MarkCompleted,
       AnnounceDone, MarkFailed, ReportFailure
  <2>z. 0 \in 0 .. NumParts
    BY PartsFacts
  <2>s. /\ MarkProcessing(jobs, j) \in [Jobs -> Row]
        /\ UpdateJobOutputDir(jobs, j) \in [Jobs -> Row]
        /\ UpdateJobStatus(jobs, j, "completed") \in [Jobs -> Row]
        /\ UpdateJobStatus(jobs, j, "failed") \in [Jobs -> Row]
    <3>1. jobs \in [Jobs -> Row] /\ "completed" \in Status /\ "failed" \in Status
      BY DEF TypeOK, Status
    <3>2. QED BY <2>0, <3>1, StatementsTyped
  <2>1. CASE TryMark(w)
    <3>1. jobs' \in [Jobs -> Row]
      BY <2>s, <2>1 DEF TypeOK, TryMark, AfterError
    <3>2. QED
      BY <2>0, <2>1, <2>z, <3>1, BecomeFacts DEF TypeOK, TryMark, Goto, Return
  <2>2. CASE ReadStatus(w)
    BY <2>0, <2>2, <2>z, BecomeFacts DEF TypeOK, ReadStatus, Return
  <2>3. CASE FetchJob(w)
    <3>1. feed' \in [Jobs -> Events]
      BY <2>0, <2>3, PublishTyped DEF FetchJob, Events, TypeOK
    <3>2. QED
      BY <2>0, <2>3, <2>z, <3>1, BecomeFacts DEF TypeOK, FetchJob, Goto, Return
  <2>4. CASE MakeOutputDir(w)
    <3>1. proc[w].done = 0
      BY <2>4 DEF MakeOutputDir, TypeOK
    <3>2. proc' \in [Workers -> Call] /\ \A v \in Workers : Positioned(proc'[v])
      <4>1. CASE Become(w, "convert", 0, FALSE)
        <5>1. 0 < NumParts
          BY PartsFacts
        <5>2. QED BY <2>0, <2>z, <4>1, <5>1, BecomeFacts
      <4>2. CASE Become(w, "failing", 0, FALSE)
        BY <2>0, <2>z, <4>2, BecomeFacts
      <4>3. QED BY <2>4, <3>1, <4>1, <4>2 DEF MakeOutputDir, Goto
    <3>3. QED BY <2>4, <3>2 DEF MakeOutputDir, TypeOK
  <2>5. CASE StartPart(w)
    BY <2>0, <2>5, BecomeFacts DEF TypeOK, StartPart, Goto
  <2>6. CASE EndPart(w)
    <3>1. CASE Goto(w, "failing") /\ UNCHANGED <<files, feed>>
      BY <2>0, <2>6, <3>1, BecomeFacts DEF TypeOK, EndPart, Goto
    <3>2. CASE ~(Goto(w, "failing") /\ UNCHANGED <<files, feed>>)
      <4>1. feed' \in [Jobs -> Events]
        BY <2>0, <2>6, <3>2, PublishTyped DEF EndPart, Events, TypeOK
      <4>2. proc[w].done + 1 \in Parts
        BY <2>0, <2>6, PartsFacts DEF EndPart, At, TypeOK, Positioned, Parts
      <4>3. /\ Become(w, IF proc[w].done + 1 = NumParts THEN "outdir" ELSE "convert",
                       proc[w].done + 1, FALSE)
            /\ files' = [files EXCEPT ![j] = @ \cup {proc[w].done + 1}]
            /\ UNCHANGED <<jobs, resets>>
        BY <2>6, <3>2 DEF EndPart
      <4> DEFINE d == proc[w].done + 1
      <4>d. d \in 0 .. NumParts /\ d <= NumParts
        BY <4>2, PartsFacts DEF Parts
      <4>4. CASE d = NumParts
        <5>1. proc' \in [Workers -> Call] /\ \A v \in Workers : Positioned(proc'[v])
          <6>1. Become(w, "outdir", d, FALSE)
            BY <4>3, <4>4
          <6> HIDE DEF d
          <6>2. QED BY <2>0, <4>d, <4>4, <6>1, BecomeFacts
        <5>2. QED BY <2>0, <4>1, <4>2, <4>3, <5>1 DEF TypeOK
      <4>5. CASE d # NumParts
        <5>1. proc' \in [Workers -> Call] /\ \A v \in Workers : Positioned(proc'[v])
          <6>1. Become(w, "convert", d, FALSE)
            BY <4>3, <4>5
          <6>2. d < NumParts
            BY <4>d, <4>5, PartsFacts
          <6> HIDE DEF d
          <6>3. QED BY <2>0, <4>d, <6>1, <6>2, BecomeFacts
        <5>2. QED BY <2>0, <4>1, <4>2, <4>3, <5>1 DEF TypeOK
      <4>6. QED BY <4>4, <4>5
    <3>3. QED BY <3>1, <3>2
  <2>7. CASE SetOutputDir(w)
    <3>1. jobs' \in [Jobs -> Row]
      BY <2>s, <2>7 DEF TypeOK, SetOutputDir, AfterError
    <3>2. QED
      BY <2>0, <2>7, <3>1, BecomeFacts DEF TypeOK, SetOutputDir, Goto
  <2>8. CASE MarkCompleted(w)
    <3>1. jobs' \in [Jobs -> Row]
      BY <2>s, <2>8 DEF TypeOK, MarkCompleted, AfterError
    <3>2. QED
      BY <2>0, <2>8, <2>z, <3>1, BecomeFacts DEF TypeOK, MarkCompleted, Goto, Return
  <2>9. CASE AnnounceDone(w)
    <3>1. feed' \in [Jobs -> Events]
      BY <2>0, <2>9, PublishTyped DEF AnnounceDone, Events
    <3>2. QED
      BY <2>0, <2>9, <2>z, <3>1, BecomeFacts DEF TypeOK, AnnounceDone, Return
  <2>10. CASE MarkFailed(w)
    <3>1. jobs' \in [Jobs -> Row]
      BY <2>s, <2>10 DEF TypeOK, MarkFailed, AfterError
    <3>2. QED
      BY <2>0, <2>10, <2>z, <3>1, BecomeFacts DEF TypeOK, MarkFailed, Goto, Return
  <2>11. CASE ReportFailure(w)
    <3>1. feed' \in [Jobs -> Events]
      BY <2>0, <2>11, PublishTyped DEF ReportFailure, Events
    <3>2. QED
      BY <2>0, <2>11, <2>z, <3>1, BecomeFacts DEF TypeOK, ReportFailure, Return
  <2>12. QED
    BY <1>1, <2>1, <2>2, <2>3, <2>4, <2>5, <2>6, <2>7, <2>8, <2>9, <2>10, <2>11
       DEF ProcessJob
<1>2. ASSUME NEW w \in Workers, End(w) PROVE TypeOK'
  BY <1>2, PartsFacts DEF TypeOK, End, Idle, Call
<1>3. ASSUME NEW w \in Workers, NEW j \in Jobs, Begin(w, j) PROVE TypeOK'
  BY <1>3, PartsFacts DEF TypeOK, Begin, Call
<1>4. ASSUME NEW j \in Jobs, SaveInput(j) PROVE TypeOK'
  BY <1>4 DEF TypeOK, SaveInput
<1>5. ASSUME NEW j \in Jobs, PersistJob(j) \/ RollbackRow(j) PROVE TypeOK'
  BY <1>5, StatementsTyped DEF TypeOK, PersistJob, RollbackRow, Status
<1>6. ASSUME NEW j \in Jobs, RollbackFiles(j) PROVE TypeOK'
  BY <1>6 DEF TypeOK, RollbackFiles
<1>7. ASSUME NEW j \in Jobs, RecoveryReset(j) PROVE TypeOK'
  <2>1. jobs' \in [Jobs -> Row]
    BY <1>7, StatementsTyped DEF TypeOK, RecoveryReset, Status
  <2>2. resets' \in [Jobs -> 0 .. MaxResets]
    BY <1>7, ResetsAssumption DEF TypeOK, RecoveryReset
  <2>3. QED
    BY <1>7, <2>1, <2>2 DEF TypeOK, RecoveryReset
<1>8. ASSUME NEW p \in Processes, Crash(p) PROVE TypeOK'
  BY <1>8, PartsFacts DEF TypeOK, Crash, Idle, Call
<1>9. CASE UNCHANGED vars
  BY <1>9 DEF TypeOK, vars
<1>10. QED
  BY <1>1, <1>2, <1>3, <1>4, <1>5, <1>6, <1>7, <1>8, <1>9 DEF Next, Environment

LEMMA InitTyped == ASSUME Init PROVE TypeOK
<1>1. jobs \in [Jobs -> Row]
  BY DEF Init, EmptyTable, NewRow, Row, Absent
<1>2. Idle \in Call /\ Positioned(Idle)
  BY PartsFacts DEF Idle, Call, PC, Positioned
<1>3. resets \in [Jobs -> 0 .. MaxResets]
  BY ResetsAssumption DEF Init
<1>4. QED
  BY <1>1, <1>2, <1>3 DEF Init, TypeOK, Events

\* Every variable keeps its type: a call is always in a known step, on a job
\* that exists, with no more parts done than there are.
THEOREM TypeCorrect == Spec => []TypeOK
<1>1. Init => TypeOK
  BY InitTyped
<1>2. QED
  BY <1>1, StepTyped, PTL DEF Spec

-----------------------------------------------------------------------------
(* At most one holder for each time the job was made `pending`.            *)

\* A row that no worker needs to hold: waiting, or done with.  Each of the
\* holders, and a free row, uses up one of the times it became `pending`.
Free(j) == jobs[j].status \in {"pending", "failed", "completed"}

Holders(j) == Cardinality(Active(j))

Claims(j) == Holders(j) + (IF Free(j) THEN 1 ELSE 0)

HolderInv ==
  /\ TypeOK
  /\ \A w \in Workers :
       proc[w].pc # "idle" => jobs[proc[w].job].status # "none"
  /\ \A j \in Jobs : Claims(j) <= resets[j] + 1

Holds(w) == proc[w].pc \in Acquired

\* What a step of ProcessJob can do to the worker's hold on its row: keep
\* both, give up the hold and write any status, take a free row, or neither.
LEMMA StepSummary ==
  ASSUME TypeOK, TypeOK', NEW w \in Workers, ProcessJob(w),
         NEW j, j = proc[w].job
  PROVE  /\ j \in Jobs /\ proc[w].pc # "idle"
         /\ proc'[w].job = j /\ proc'[w].pc # "idle"
         /\ \A v \in Workers \ {w} : proc'[v] = proc[v]
         /\ resets' = resets
         /\ \A k \in Jobs \ {j} : jobs'[k] = jobs[k]
         /\ jobs[j].status # "none" => jobs'[j].status # "none"
         /\ \/ Holds(w) /\ Holds(w)' /\ jobs'[j].status = jobs[j].status
            \/ Holds(w) /\ ~Holds(w)'
            \/ ~Holds(w) /\ Holds(w)' /\ Free(j) /\ ~Free(j)'
            \/ ~Holds(w) /\ ~Holds(w)' /\ (Free(j)' => Free(j))
<1> USE DEF At
<1>1. proc[w].pc # "idle" /\ j \in Jobs /\ jobs \in [Jobs -> Row]
  BY DEF TypeOK, Positioned, ProcessJob, TryMark, ReadStatus, FetchJob,
     MakeOutputDir, StartPart, EndPart, SetOutputDir, MarkCompleted,
     AnnounceDone, MarkFailed, ReportFailure
<1>2. \A k \in Jobs \ {j} :
        /\ MarkProcessing(jobs, j)[k] = jobs[k]
        /\ UpdateJobOutputDir(jobs, j)[k] = jobs[k]
        /\ \A s \in Status : UpdateJobStatus(jobs, j, s)[k] = jobs[k]
  BY <1>1, StatementsLocal
<1>3. /\ \A s \in Status : UpdateJobStatus(jobs, j, s)[j].status
                             = IF Exists(jobs, j) THEN s ELSE jobs[j].status
      /\ MarkProcessing(jobs, j)[j].status
           = IF Markable(jobs, j) THEN "processing" ELSE jobs[j].status
      /\ UpdateJobOutputDir(jobs, j)[j].status = jobs[j].status
  BY <1>1, StatementsStatus
<1>4. CASE TryMark(w)
  <2>1. \A k \in Jobs \ {j} : jobs'[k] = jobs[k]
    BY <1>2, <1>4 DEF TryMark, AfterError
  <2>2. CASE Markable(jobs, j) /\ jobs' = MarkProcessing(jobs, j) /\ Goto(w, "fetch")
    BY <1>1, <1>3, <1>4, <2>1, <2>2
       DEF TryMark, Goto, Become, TypeOK, Holds, Free, Acquired, Markable
  <2>3. CASE Goto(w, "status") /\ UNCHANGED jobs
    BY <1>1, <1>4, <2>1, <2>3 DEF TryMark, Goto, Become, TypeOK, Holds, Free, Acquired
  <2>4. CASE jobs' \in AfterError(jobs, MarkProcessing(jobs, j)) /\ Return(w, FALSE)
    BY <1>1, <1>3, <1>4, <2>1, <2>4
       DEF TryMark, Return, Become, TypeOK, Holds, Free, Acquired, AfterError, Markable
  <2>5. QED BY <1>4, <2>2, <2>3, <2>4 DEF TryMark
<1>5. CASE ReadStatus(w)
  BY <1>1, <1>5 DEF ReadStatus, Return, Become, TypeOK, Holds, Free, Acquired
<1>6. CASE FetchJob(w)
  BY <1>1, <1>6 DEF FetchJob, Goto, Return, Become, TypeOK, Holds, Acquired
<1>7. CASE MakeOutputDir(w)
  BY <1>1, <1>7 DEF MakeOutputDir, Goto, Become, TypeOK, Holds, Acquired
<1>8. CASE StartPart(w)
  BY <1>1, <1>8 DEF StartPart, Goto, Become, TypeOK, Holds, Acquired
<1>9. CASE EndPart(w)
  BY <1>1, <1>9 DEF EndPart, Goto, Become, TypeOK, Holds, Acquired
<1>10. CASE SetOutputDir(w)
  BY <1>1, <1>2, <1>3, <1>10
     DEF SetOutputDir, Goto, Become, TypeOK, Holds, Acquired, AfterError
<1>11. CASE MarkCompleted(w)
  <2>1. "completed" \in Status
    BY DEF Status
  <2>2. /\ \A k \in Jobs \ {j} : jobs'[k] = jobs[k]
        /\ jobs[j].status # "none" => jobs'[j].status # "none"
    BY <1>2, <1>3, <1>11, <2>1 DEF MarkCompleted, AfterError
  <2>3. QED
    BY <1>1, <1>11, <2>2 DEF MarkCompleted, Goto, Return, Become, TypeOK, Holds, Acquired
<1>12. CASE AnnounceDone(w)
  BY <1>1, <1>12 DEF AnnounceDone, Return, Become, TypeOK, Holds, Acquired, Free
<1>13. CASE MarkFailed(w)
  <2>1. "failed" \in Status
    BY DEF Status
  <2>2. /\ \A k \in Jobs \ {j} : jobs'[k] = jobs[k]
        /\ jobs[j].status # "none" => jobs'[j].status # "none"
    BY <1>2, <1>3, <1>13, <2>1 DEF MarkFailed, AfterError
  <2>3. QED
    BY <1>1, <1>13, <2>2 DEF MarkFailed, Goto, Return, Become, TypeOK, Holds, Acquired
<1>14. CASE ReportFailure(w)
  BY <1>1, <1>14 DEF ReportFailure, Return, Become, TypeOK, Holds, Acquired, Free
<1>15. QED
  BY <1>4, <1>5, <1>6, <1>7, <1>8, <1>9, <1>10, <1>11, <1>12, <1>13, <1>14
     DEF ProcessJob

LEMMA ActiveFinite ==
  ASSUME NEW j
  PROVE  /\ IsFiniteSet(Active(j)) /\ Holders(j) \in Nat
         /\ IsFiniteSet(Active(j)') /\ Holders(j)' \in Nat
<1>1. Active(j) \subseteq Workers /\ Active(j)' \subseteq Workers
  BY DEF Active
<1>2. QED
  BY <1>1, WorkersAssumption, FS_Subset, FS_CardinalityType DEF Holders

\* The holders of a job after a step that changes the call of one worker.
LEMMA HoldersChange ==
  ASSUME NEW w \in Workers, NEW j \in Jobs, proc[w].job = j, proc'[w].job = j,
         \A v \in Workers \ {w} : proc'[v] = proc[v]
  PROVE  /\ \A k \in Jobs \ {j} : Active(k)' = Active(k)
         /\ Holds(w) /\ Holds(w)' => Active(j)' = Active(j)
         /\ ~Holds(w) /\ ~Holds(w)' => Active(j)' = Active(j)
         /\ Holds(w) /\ ~Holds(w)' => Holders(j)' = Holders(j) - 1
         /\ ~Holds(w) /\ Holds(w)' => Holders(j)' = Holders(j) + 1
<1>1. \A k \in Jobs \ {j} : Active(k)' = Active(k)
  BY DEF Active
<1>2. (Holds(w) <=> Holds(w)') => Active(j)' = Active(j)
  BY DEF Active, Holds
<1>3. ASSUME Holds(w), ~Holds(w)' PROVE Holders(j)' = Holders(j) - 1
  <2>1. Active(j)' = Active(j) \ {w} /\ w \in Active(j)
    BY <1>3 DEF Active, Holds
  <2>2. QED
    BY <2>1, ActiveFinite, FS_RemoveElement DEF Holders
<1>4. ASSUME ~Holds(w), Holds(w)' PROVE Holders(j)' = Holders(j) + 1
  <2>1. Active(j)' = Active(j) \cup {w} /\ w \notin Active(j)
    BY <1>4 DEF Active, Holds
  <2>2. QED
    BY <2>1, ActiveFinite, FS_AddElement DEF Holders
<1>5. QED
  BY <1>1, <1>2, <1>3, <1>4

LEMMA StepHolderInv == HolderInv /\ [Next]_vars => HolderInv'
<1> SUFFICES ASSUME HolderInv, [Next]_vars PROVE HolderInv'
  OBVIOUS
<1>t. TypeOK /\ TypeOK'
  BY StepTyped DEF HolderInv
<1>r. \A k \in Jobs : resets[k] \in Nat /\ resets'[k] \in Nat
  BY <1>t, ResetsAssumption DEF TypeOK
<1>h. \A k \in Jobs : Holders(k) \in Nat /\ Holders(k)' \in Nat
  BY ActiveFinite
<1>1. ASSUME NEW w \in Workers, ProcessJob(w) PROVE HolderInv'
  <2>0. PICK j : j = proc[w].job
    OBVIOUS
  <2>1. /\ j \in Jobs /\ proc[w].pc # "idle"
        /\ proc'[w].job = j /\ proc'[w].pc # "idle"
        /\ \A v \in Workers \ {w} : proc'[v] = proc[v]
        /\ resets' = resets
        /\ \A k \in Jobs \ {j} : jobs'[k] = jobs[k]
        /\ jobs[j].status # "none" => jobs'[j].status # "none"
        /\ \/ Holds(w) /\ Holds(w)' /\ jobs'[j].status = jobs[j].status
           \/ Holds(w) /\ ~Holds(w)'
           \/ ~Holds(w) /\ Holds(w)' /\ Free(j) /\ ~Free(j)'
           \/ ~Holds(w) /\ ~Holds(w)' /\ (Free(j)' => Free(j))
    BY <1>1, <1>t, <2>0, StepSummary
  <2>2. /\ \A k \in Jobs \ {j} : Active(k)' = Active(k)
        /\ Holds(w) /\ Holds(w)' => Active(j)' = Active(j)
        /\ ~Holds(w) /\ ~Holds(w)' => Active(j)' = Active(j)
        /\ Holds(w) /\ ~Holds(w)' => Holders(j)' = Holders(j) - 1
        /\ ~Holds(w) /\ Holds(w)' => Holders(j)' = Holders(j) + 1
    BY <2>0, <2>1, HoldersChange
  <2>3. ASSUME NEW v \in Workers, proc'[v].pc # "idle"
        PROVE  jobs'[proc'[v].job].status # "none"
    <3>1. v # w => jobs[proc[v].job].status # "none" /\ proc'[v] = proc[v] /\ proc[v].job \in Jobs
      BY <1>t, <2>1, <2>3 DEF HolderInv, TypeOK, Positioned
    <3>2. jobs[j].status # "none"
      BY <2>0, <2>1 DEF HolderInv
    <3>3. QED BY <2>1, <2>3, <3>1, <3>2
  <2>4. ASSUME NEW k \in Jobs PROVE Claims(k)' <= resets'[k] + 1
    <3>1. Claims(k) <= resets[k] + 1 /\ resets'[k] = resets[k]
      BY <2>1 DEF HolderInv
    <3>2. CASE k # j
      BY <2>1, <2>2, <3>1, <3>2 DEF Claims, Holders, Free
    <3>3. CASE k = j
      <4>1. CASE Holds(w) /\ Holds(w)' /\ jobs'[j].status = jobs[j].status
        BY <2>2, <3>1, <3>3, <4>1 DEF Claims, Holders, Free
      <4>2. CASE Holds(w) /\ ~Holds(w)'
        BY <1>h, <1>r, <2>2, <3>1, <3>3, <4>2 DEF Claims
      <4>3. CASE ~Holds(w) /\ Holds(w)' /\ Free(j) /\ ~Free(j)'
        BY <1>h, <1>r, <2>2, <3>1, <3>3, <4>3 DEF Claims
      <4>4. CASE ~Holds(w) /\ ~Holds(w)' /\ (Free(j)' => Free(j))
        <5>1. Holders(j)' = Holders(j)
          BY <2>2, <4>4 DEF Holders
        <5>2. QED BY <1>h, <1>r, <3>1, <3>3, <4>4, <5>1 DEF Claims
      <4>5. QED BY <2>1, <4>1, <4>2, <4>3, <4>4
    <3>4. QED BY <3>2, <3>3
  <2>5. QED BY <1>t, <2>3, <2>4 DEF HolderInv
<1>2. ASSUME NEW w \in Workers, End(w) \/ \E j \in Jobs : Begin(w, j) PROVE HolderInv'
  <2>1. \A k \in Jobs : Active(k)' = Active(k)
    BY <1>2, <1>t DEF Active, End, Begin, Idle, At, Acquired, TypeOK
  <2>2. \A k \in Jobs : Claims(k)' <= resets'[k] + 1
    BY <1>2, <2>1 DEF HolderInv, Claims, Holders, Free, End, Begin
  <2>3. \A v \in Workers : proc'[v].pc # "idle" => jobs'[proc'[v].job].status # "none"
    BY <1>2, <1>t DEF HolderInv, End, Begin, Idle, TypeOK
  <2>4. QED BY <1>t, <2>2, <2>3 DEF HolderInv
<1>3. ASSUME NEW j \in Jobs, SaveInput(j) \/ RollbackFiles(j) PROVE HolderInv'
  BY <1>3, <1>t DEF HolderInv, Claims, Holders, Active, Free, SaveInput, RollbackFiles
<1>4. ASSUME NEW j \in Jobs, PersistJob(j) \/ RollbackRow(j) \/ RecoveryReset(j)
      PROVE  HolderInv'
  <2>1. /\ proc' = proc
        /\ \A k \in Jobs \ {j} : jobs'[k] = jobs[k] /\ resets'[k] = resets[k]
        /\ jobs[j].status # "none" => jobs'[j].status # "none"
        /\ \/ jobs[j].status = "none" /\ resets'[j] = resets[j]
           \/ ~Free(j)' /\ resets'[j] = resets[j]
           \/ resets'[j] = resets[j] + 1
    <3>1. CASE PersistJob(j)
      BY <1>t, <3>1, StatementsLocal, StatementsStatus DEF PersistJob, TypeOK
    <3>2. CASE RollbackRow(j)
      BY <1>t, <3>2, StatementsLocal, StatementsStatus DEF RollbackRow, TypeOK, Free
    <3>3. CASE RecoveryReset(j)
      <4>1. "pending" \in Status
        BY DEF Status
      <4>2. QED BY <1>t, <3>3, <4>1, StatementsLocal, StatementsStatus DEF RecoveryReset, TypeOK
    <3>4. QED BY <1>4, <3>1, <3>2, <3>3
  <2>2. \A k \in Jobs : Active(k)' = Active(k) /\ Holders(k)' = Holders(k)
    BY <2>1 DEF Active, Holders
  <2>3. \A v \in Workers : proc'[v].pc # "idle" => jobs'[proc'[v].job].status # "none"
    BY <1>t, <2>1 DEF HolderInv, TypeOK, Positioned
  <2>4. \A k \in Jobs \ {j} : Claims(k)' <= resets'[k] + 1
    BY <2>1, <2>2 DEF HolderInv, Claims, Free
  <2>5. Claims(j)' <= resets'[j] + 1
    <3>1. CASE jobs[j].status = "none" /\ resets'[j] = resets[j]
      <4>1. Active(j) = {}
        BY <3>1 DEF HolderInv, Active, Acquired
      <4>2. Holders(j)' = 0
        BY <2>2, <4>1, FS_EmptySet DEF Holders
      <4>3. QED BY <1>r, <4>2 DEF Claims
    <3>2. CASE ~Free(j)' /\ resets'[j] = resets[j]
      BY <1>h, <1>r, <2>2, <3>2 DEF Claims, HolderInv
    <3>3. CASE resets'[j] = resets[j] + 1
      <4>1. Holders(j) <= resets[j] + 1
        BY <1>h, <1>r DEF Claims, HolderInv
      <4>2. QED BY <1>h, <1>r, <2>2, <3>3, <4>1 DEF Claims
    <3>4. QED BY <2>1, <3>1, <3>2, <3>3
  <2>6. QED BY <1>t, <2>3, <2>4, <2>5 DEF HolderInv
<1>5. ASSUME NEW p \in Processes, Crash(p) PROVE HolderInv'
  <2>1. /\ \A v \in Workers : proc'[v] = proc[v] \/ proc'[v].pc = "idle"
        /\ jobs' = jobs /\ resets' = resets
    BY <1>5, <1>t DEF Crash, Idle, TypeOK
  <2>2. ASSUME NEW k \in Jobs PROVE Claims(k)' <= resets'[k] + 1
    <3>1. Active(k)' \subseteq Active(k)
      BY <2>1 DEF Active, Acquired
    <3>2. Holders(k)' <= Holders(k)
      BY <3>1, ActiveFinite, FS_Subset DEF Holders
    <3>3. QED BY <1>h, <1>r, <2>1, <3>2 DEF Claims, Free, HolderInv
  <2>3. QED BY <1>t, <2>1, <2>2 DEF HolderInv
<1>6. CASE UNCHANGED vars
  BY <1>6, <1>t DEF vars, HolderInv, Claims, Holders, Active, Free
<1>7. QED
  BY <1>1, <1>2, <1>3, <1>4, <1>5, <1>6 DEF Next, Environment

LEMMA InitHolder == ASSUME Init PROVE HolderInv
<1>1. TypeOK
  BY InitTyped
<1>2. \A j \in Jobs : Active(j) = {} /\ ~Free(j) /\ resets[j] = 0
  BY DEF Init, Active, Idle, Acquired, Free, EmptyTable, NewRow
<1>3. \A j \in Jobs : Claims(j) <= resets[j] + 1
  BY <1>2, FS_EmptySet DEF Claims, Holders
<1>4. QED
  BY <1>1, <1>3 DEF HolderInv, Init, Idle

\* The inductive invariant behind all that follows.
THEOREM HolderInvariant == Spec => []HolderInv
<1>1. Init => HolderInv
  BY InitHolder
<1>2. QED
  BY <1>1, StepHolderInv, PTL DEF Spec

\* At most resets[j] + 1 workers hold a job at any time, whatever the number
\* of workers and calls, of failures and crashes.
THEOREM HoldersBounded == Spec => []ActiveBounded
<1>1. HolderInv => ActiveBounded
  <2> SUFFICES ASSUME HolderInv, NEW j \in Jobs
               PROVE  Cardinality(Active(j)) <= resets[j] + 1
    BY DEF ActiveBounded
  <2>1. Holders(j) \in Nat /\ resets[j] \in Nat
    BY ActiveFinite, ResetsAssumption DEF HolderInv, TypeOK
  <2>2. QED BY <2>1 DEF HolderInv, Claims, Holders
<1>2. QED
  BY <1>1, HolderInvariant, PTL

-----------------------------------------------------------------------------
(* What the bound on the holders of a job gives its readers: theorems on   *)
(* the status, the progress events and the files of a job that recovery    *)
(* has not written over.                                                   *)

Settled == {"completed", "deleted"}

\* The only holder of a job that recovery has not touched.
LEMMA Exclusive ==
  ASSUME HolderInv, NEW j \in Jobs, resets[j] = 0, NEW w \in Active(j)
  PROVE  /\ ~Free(j) /\ jobs[j].status \in {"processing", "deleted"}
         /\ \A v \in Active(j) : v = w
<1>1. Holders(j) \in Nat /\ IsFiniteSet(Active(j)) /\ Claims(j) <= 1
  BY ActiveFinite DEF HolderInv
<1>2. Holders(j) >= 1
  <2>1. Holders(j) # 0
    BY <1>1, FS_EmptySet DEF Holders
  <2>2. QED BY <1>1, <2>1
<1>3. ~Free(j)
  BY <1>1, <1>2 DEF Claims
<1>4. jobs[j].status \in {"processing", "deleted"}
  BY <1>3 DEF Free, HolderInv, TypeOK, Row, Status, Absent, Active, Acquired
<1>5. ASSUME NEW v \in Active(j), v # w PROVE FALSE
  <2>1. IsFiniteSet({w}) /\ Cardinality({w}) = 1
    BY FS_Singleton
  <2>2. IsFiniteSet({w} \cup {v}) /\ Cardinality({w} \cup {v}) = 2
    <3>1. v \notin {w}
      BY <1>5
    <3>2. /\ IsFiniteSet({w} \cup {v})
          /\ Cardinality({w} \cup {v}) = Cardinality({w}) + 1
      BY <2>1, <3>1, FS_AddElement, Zenon
    <3> QED BY <2>1, <3>2
  <2>3. {w} \cup {v} \subseteq Active(j)
    OBVIOUS
  <2>4. 2 <= Holders(j)
    BY <1>1, <2>2, <2>3, FS_Subset DEF Holders
  <2>5. QED BY <1>1, <1>3, <2>4 DEF Claims
<1>6. QED
  BY <1>3, <1>4, <1>5

\* The statuses a step of ProcessJob can write, and where from.
LEMMA StepStatus ==
  ASSUME TypeOK, NEW w \in Workers, ProcessJob(w), NEW j, j = proc[w].job
  PROVE  \/ jobs'[j].status = jobs[j].status
         \/ Markable(jobs, j) /\ jobs'[j].status = "processing"
         \/ /\ Holds(w) /\ Exists(jobs, j)
            /\ \/ jobs'[j].status = "failed"
               \/ At(w, "complete") /\ jobs'[j].status = "completed"
<1>1. j \in Jobs /\ jobs \in [Jobs -> Row]
  BY DEF TypeOK, Positioned, ProcessJob, At, TryMark, ReadStatus, FetchJob,
     MakeOutputDir, StartPart, EndPart, SetOutputDir, MarkCompleted,
     AnnounceDone, MarkFailed, ReportFailure
<1>2. /\ UpdateJobStatus(jobs, j, "completed")[j].status
           = IF Exists(jobs, j) THEN "completed" ELSE jobs[j].status
      /\ UpdateJobStatus(jobs, j, "failed")[j].status
           = IF Exists(jobs, j) THEN "failed" ELSE jobs[j].status
      /\ MarkProcessing(jobs, j)[j].status
           = IF Markable(jobs, j) THEN "processing" ELSE jobs[j].status
      /\ UpdateJobOutputDir(jobs, j)[j].status = jobs[j].status
  <2>1. "completed" \in Status /\ "failed" \in Status
    BY DEF Status
  <2>2. QED BY <1>1, <2>1, StatementsStatus
<1>3. CASE TryMark(w)
  BY <1>2, <1>3 DEF TryMark, AfterError
<1>4. CASE SetOutputDir(w)
  BY <1>2, <1>4 DEF SetOutputDir, AfterError
<1>5. CASE MarkCompleted(w)
  BY <1>2, <1>5 DEF MarkCompleted, AfterError, At, Holds, Acquired
<1>6. CASE MarkFailed(w)
  BY <1>2, <1>6 DEF MarkFailed, AfterError, At, Holds, Acquired
<1>7. CASE jobs' = jobs
  BY <1>7
<1>8. QED
  BY <1>3, <1>4, <1>5, <1>6, <1>7
     DEF ProcessJob, ReadStatus, FetchJob, MakeOutputDir, StartPart, EndPart,
         AnnounceDone, ReportFailure

\* Without a recovery write a step moves one status along its life.
LEMMA StepLife ==
  ASSUME HolderInv, Next, NEW k \in Jobs, resets'[k] = 0
  PROVE  \/ jobs'[k].status = jobs[k].status
         \/ jobs[k].status = "none" /\ jobs'[k].status = "pending"
         \/ Markable(jobs, k) /\ jobs'[k].status = "processing"
         \/ jobs[k].status = "processing" /\ jobs'[k].status = "failed"
         \/ /\ jobs[k].status = "processing" /\ jobs'[k].status = "completed"
            /\ \E w \in Active(k) : At(w, "complete")
         \/ Exists(jobs, k) /\ jobs'[k].status = "deleted"
<1> DEFINE Life ==
       \/ jobs'[k].status = jobs[k].status
       \/ jobs[k].status = "none" /\ jobs'[k].status = "pending"
       \/ Markable(jobs, k) /\ jobs'[k].status = "processing"
       \/ jobs[k].status = "processing" /\ jobs'[k].status = "failed"
       \/ /\ jobs[k].status = "processing" /\ jobs'[k].status = "completed"
          /\ \E w \in Active(k) : At(w, "complete")
       \/ Exists(jobs, k) /\ jobs'[k].status = "deleted"
<1>t. TypeOK /\ TypeOK'
  BY StepTyped DEF HolderInv
<1>1. ASSUME NEW w \in Workers, ProcessJob(w) PROVE Life
  <2>0. PICK j : j = proc[w].job
    OBVIOUS
  <2>1. j \in Jobs /\ resets' = resets /\ \A i \in Jobs \ {j} : jobs'[i] = jobs[i]
    BY <1>1, <1>t, <2>0, StepSummary
  <2>2. CASE k # j
    BY <2>1, <2>2
  <2>3. CASE k = j
    <3>1. Holds(w) => w \in Active(k) /\ jobs[k].status \in {"processing", "deleted"}
      <4>1. Holds(w) => w \in Active(k)
        BY <2>0, <2>3 DEF Holds, Active
      <4>2. QED BY <2>1, <4>1, Exclusive
    <3>2. Holds(w) /\ Exists(jobs, k) => jobs[k].status = "processing"
      BY <3>1 DEF Exists, Status
    <3>3. \/ jobs'[j].status = jobs[j].status
          \/ Markable(jobs, j) /\ jobs'[j].status = "processing"
          \/ /\ Holds(w) /\ Exists(jobs, j)
             /\ \/ jobs'[j].status = "failed"
                \/ At(w, "complete") /\ jobs'[j].status = "completed"
      BY <1>1, <1>t, <2>0, StepStatus
    <3>4. QED BY <2>3, <3>1, <3>2, <3>3
  <2>4. QED BY <2>2, <2>3
<1>2. ASSUME NEW w \in Workers, End(w) \/ \E j \in Jobs : Begin(w, j) PROVE Life
  BY <1>2 DEF End, Begin
<1>3. ASSUME NEW j \in Jobs, SaveInput(j) \/ RollbackFiles(j) PROVE Life
  BY <1>3 DEF SaveInput, RollbackFiles
<1>4. ASSUME NEW j \in Jobs, PersistJob(j) PROVE Life
  <2>1. jobs \in [Jobs -> Row]
    BY <1>t DEF TypeOK
  <2>2. k # j => jobs'[k] = jobs[k]
    BY <1>4, <2>1, StatementsLocal DEF PersistJob
  <2>3. k = j => jobs[k].status = "none" /\ jobs'[k].status = "pending"
    BY <1>4, <2>1, StatementsStatus DEF PersistJob
  <2>4. QED BY <2>2, <2>3
<1>5. ASSUME NEW j \in Jobs, RollbackRow(j) PROVE Life
  BY <1>5, <1>t, StatementsLocal, StatementsStatus DEF RollbackRow, TypeOK
<1>6. ASSUME NEW j \in Jobs, RecoveryReset(j) PROVE Life
  <2>1. "pending" \in Status
    BY DEF Status
  <2>2. k # j
    BY <1>6, <1>t, ResetsAssumption DEF RecoveryReset, TypeOK
  <2>3. QED BY <1>6, <1>t, <2>1, <2>2, StatementsLocal DEF RecoveryReset, TypeOK
<1>7. ASSUME NEW p \in Processes, Crash(p) PROVE Life
  BY <1>7 DEF Crash
<1>8. QED
  BY <1>1, <1>2, <1>3, <1>4, <1>5, <1>6, <1>7 DEF Next, Environment

\* A history counter is never taken back.
LEMMA ResetsKept ==
  ASSUME TypeOK, [Next]_vars, NEW k \in Jobs, resets'[k] = 0
  PROVE  resets[k] = 0
<1>1. CASE \E j \in Jobs : RecoveryReset(j)
  BY <1>1, ResetsAssumption DEF RecoveryReset, TypeOK
<1>2. CASE resets' = resets
  BY <1>2
<1>3. QED
  BY <1>1, <1>2 DEF Next, Environment, ProcessJob, TryMark, ReadStatus, FetchJob,
     MakeOutputDir, StartPart, EndPart, SetOutputDir, MarkCompleted, AnnounceDone,
     MarkFailed, ReportFailure, End, Begin, SaveInput, PersistJob, RollbackRow,
     RollbackFiles, Crash, vars

\* A step writes the row of one job.
LEMMA StepLocal ==
  ASSUME TypeOK, Next, NEW j \in Jobs, jobs'[j].status # jobs[j].status
  PROVE  \A k \in Jobs \ {j} : jobs'[k].status = jobs[k].status
<1>t. TypeOK'
  BY StepTyped
<1>1. ASSUME NEW w \in Workers, ProcessJob(w)
      PROVE  \A k \in Jobs \ {j} : jobs'[k].status = jobs[k].status
  <2>0. PICK i : i = proc[w].job
    OBVIOUS
  <2>1. i \in Jobs /\ \A k \in Jobs \ {i} : jobs'[k] = jobs[k]
    BY <1>1, <1>t, <2>0, StepSummary
  <2>2. QED BY <2>1
<1>2. ASSUME NEW i \in Jobs, PersistJob(i) \/ RollbackRow(i) \/ RecoveryReset(i)
      PROVE  \A k \in Jobs \ {j} : jobs'[k].status = jobs[k].status
  <2>1. "pending" \in Status
    BY DEF Status
  <2>2. \A k \in Jobs \ {i} : jobs'[k] = jobs[k]
    BY <1>2, <2>1, StatementsLocal DEF PersistJob, RollbackRow, RecoveryReset, TypeOK
  <2>3. QED BY <2>2
<1>3. QED
  BY <1>1, <1>2 DEF Next, Environment, End, Begin, SaveInput, RollbackFiles, Crash

-----------------------------------------------------------------------------
\* A completed job stays completed until its upload is rolled back, unless a
\* recovery sweep wrote over it: no racing attempt fails or restarts it.
THEOREM CompletedStays == Spec => CompletedIsFinal
<1>1. ASSUME HolderInv, [Next]_vars
      PROVE  [\A j \in Jobs :
               jobs[j].status = "completed" /\ resets'[j] = 0
                 => jobs'[j].status \in {"completed", "deleted"}]_vars
  <2>1. ASSUME Next, NEW j \in Jobs, jobs[j].status = "completed", resets'[j] = 0
        PROVE  jobs'[j].status \in {"completed", "deleted"}
    <3>1. resets[j] = 0
      BY <1>1, <2>1, ResetsKept DEF HolderInv
    <3>2. QED BY <1>1, <2>1, <3>1, StepLife DEF Markable
  <2>2. QED BY <1>1, <2>1
<1>2. QED
  BY <1>1, HolderInvariant, PTL DEF Spec, CompletedIsFinal

\* Whatever recovery did before, a step that is not its write moves a status
\* only where a statement of ProcessJob or of an upload can move it.
LEMMA StepAny ==
  ASSUME TypeOK, Next, ~ \E j \in Jobs : RecoveryReset(j), NEW k \in Jobs
  PROVE  \/ jobs'[k].status = jobs[k].status
         \/ jobs[k].status = "none" /\ jobs'[k].status = "pending"
         \/ Markable(jobs, k) /\ jobs'[k].status = "processing"
         \/ Exists(jobs, k) /\ jobs'[k].status \in {"completed", "failed", "deleted"}
<1> DEFINE Legal ==
       \/ jobs'[k].status = jobs[k].status
       \/ jobs[k].status = "none" /\ jobs'[k].status = "pending"
       \/ Markable(jobs, k) /\ jobs'[k].status = "processing"
       \/ Exists(jobs, k) /\ jobs'[k].status \in {"completed", "failed", "deleted"}
<1>t. TypeOK' /\ jobs \in [Jobs -> Row]
  BY StepTyped DEF TypeOK
<1>1. ASSUME NEW w \in Workers, ProcessJob(w) PROVE Legal
  <2>0. PICK j : j = proc[w].job
    OBVIOUS
  <2>1. \A i \in Jobs \ {j} : jobs'[i] = jobs[i]
    BY <1>1, <1>t, <2>0, StepSummary
  <2>2. QED BY <1>1, <2>0, <2>1, StepStatus
<1>2. ASSUME NEW j \in Jobs, PersistJob(j) PROVE Legal
  BY <1>2, <1>t, StatementsLocal, StatementsStatus DEF PersistJob
<1>3. ASSUME NEW j \in Jobs, RollbackRow(j) PROVE Legal
  BY <1>3, <1>t, StatementsLocal, StatementsStatus DEF RollbackRow
<1>4. CASE UNCHANGED jobs
  BY <1>4
<1>5. QED
  BY <1>1, <1>2, <1>3, <1>4 DEF Next, Environment, End, Begin, SaveInput,
     RollbackFiles, Crash

\* Only recovery's write is counted.
LEMMA ResetsUnchanged ==
  ASSUME Next, ~ \E j \in Jobs : RecoveryReset(j)
  PROVE  resets' = resets
BY DEF Next, Environment, ProcessJob, TryMark, ReadStatus, FetchJob, MakeOutputDir,
   StartPart, EndPart, SetOutputDir, MarkCompleted, AnnounceDone, MarkFailed,
   ReportFailure, End, Begin, SaveInput, PersistJob, RollbackRow, RollbackFiles, Crash

\* The status column implements JobLifecycle, the jobs recovery wrote over
\* being the disturbed ones.
THEOREM ImplementsLifecycle == Spec => LifecycleSpec
<1> DEFINE sbar == [j \in Jobs |-> jobs[j].status]
           dbar == {j \in Jobs : resets[j] > 0}
<1>1. ASSUME Init PROVE Lifecycle!Init
  BY <1>1 DEF Init, Lifecycle!Init, EmptyTable, NewRow
<1>2. ASSUME HolderInv, [Next]_vars PROVE [Lifecycle!Next]_<<sbar, dbar>>
  <2>t. TypeOK /\ TypeOK'
    BY <1>2, StepTyped DEF HolderInv
  <2>1. CASE UNCHANGED vars
    BY <2>1 DEF vars
  <2>2. ASSUME NEW j \in Jobs, RecoveryReset(j) PROVE Lifecycle!Next
    <3>1. jobs \in [Jobs -> Row] /\ "pending" \in Status
      BY <2>t DEF TypeOK, Status
    <3>2. jobs'[j].status = IF Exists(jobs, j) THEN "pending" ELSE jobs[j].status
      BY <2>2, <3>1, StatementsStatus DEF RecoveryReset
    <3>3. \A k \in Jobs \ {j} : jobs'[k] = jobs[k]
      BY <2>2, <3>1, StatementsLocal DEF RecoveryReset
    <3>4. sbar' = IF sbar[j] \in Status THEN [sbar EXCEPT ![j] = "pending"] ELSE sbar
      BY <3>2, <3>3 DEF Exists
    <3>5. dbar' = dbar \cup {j}
      BY <2>2, <2>t, ResetsAssumption DEF RecoveryReset, TypeOK
    <3>6. sbar[j] # "none"
      BY <2>2 DEF RecoveryReset
    <3>7. QED
      BY <3>4, <3>5, <3>6 DEF Lifecycle!Next, Lifecycle!Reset, Lifecycle!Status, Status
  <2>3. CASE Next /\ ~ \E j \in Jobs : RecoveryReset(j)
    <3>1. resets' = resets /\ dbar' = dbar
      BY <2>3, ResetsUnchanged
    <3>2. CASE \A k \in Jobs : jobs'[k].status = jobs[k].status
      BY <3>1, <3>2
    <3>3. ASSUME NEW j \in Jobs, jobs'[j].status # jobs[j].status
          PROVE  Lifecycle!Next
      <4>1. \A k \in Jobs \ {j} : jobs'[k].status = jobs[k].status
        BY <2>3, <2>t, <3>3, StepLocal
      <4>2. sbar' = [sbar EXCEPT ![j] = jobs'[j].status]
        BY <4>1
      <4>3. CASE resets[j] = 0
        <5>1. \/ jobs[j].status = "none" /\ jobs'[j].status = "pending"
              \/ Markable(jobs, j) /\ jobs'[j].status = "processing"
              \/ jobs[j].status = "processing" /\ jobs'[j].status = "failed"
              \/ jobs[j].status = "processing" /\ jobs'[j].status = "completed"
              \/ Exists(jobs, j) /\ jobs'[j].status = "deleted"
          BY <1>2, <2>3, <3>1, <3>3, <4>3, StepLife
        <5>2. QED
          BY <3>1, <4>2, <5>1 DEF Lifecycle!Next, Lifecycle!Submit, Lifecycle!Acquire,
             Lifecycle!Complete, Lifecycle!Fail, Lifecycle!Remove, Lifecycle!Become,
             Lifecycle!Status, Exists, Markable, Status
      <4>4. CASE resets[j] # 0
        <5>1. j \in dbar
          BY <4>4, <2>t DEF TypeOK
        <5>2. \/ jobs[j].status = "none" /\ jobs'[j].status = "pending"
              \/ Markable(jobs, j) /\ jobs'[j].status = "processing"
              \/ Exists(jobs, j) /\ jobs'[j].status \in {"completed", "failed", "deleted"}
          BY <2>3, <2>t, <3>3, StepAny
        <5>3. QED
          BY <3>1, <4>2, <5>1, <5>2 DEF Lifecycle!Next, Lifecycle!Submit,
             Lifecycle!Acquire, Lifecycle!Remove, Lifecycle!EndLate, Lifecycle!Become,
             Lifecycle!Status, Exists, Markable, Status
      <4>5. QED BY <4>3, <4>4
    <3>4. QED BY <3>2, <3>3
  <2>4. QED BY <1>2, <2>1, <2>2, <2>3
<1>3. QED
  BY <1>1, <1>2, HolderInvariant, PTL DEF Spec, LifecycleSpec, Lifecycle!Spec, Lifecycle!life

-----------------------------------------------------------------------------
(* A `done` event is true.                                                 *)

DoneInv ==
  /\ HolderInv
  /\ \A j \in Jobs : resets[j] = 0 =>
       /\ \A w \in Workers :
            At(w, "announce") /\ proc[w].job = j => jobs[j].status \in Settled
       /\ feed[j] = "done" => jobs[j].status \in Settled

\* Only the write of `completed` leads a call to its announcement.
LEMMA AnnounceFromCompleted ==
  ASSUME TypeOK, Next, NEW w \in Workers, At(w, "announce")', proc'[w] # proc[w]
  PROVE  MarkCompleted(w) /\ proc'[w].job = proc[w].job
<1>1. ASSUME NEW v \in Workers, ProcessJob(v) PROVE v = w /\ MarkCompleted(w)
  BY <1>1 DEF TypeOK, ProcessJob, At, Become, Goto, Return, TryMark, ReadStatus,
     FetchJob, MakeOutputDir, StartPart, EndPart, SetOutputDir, MarkCompleted,
     AnnounceDone, MarkFailed, ReportFailure
<1>2. ASSUME NEW v \in Workers, End(v) \/ \E j \in Jobs : Begin(v, j) PROVE FALSE
  BY <1>2 DEF TypeOK, At, End, Begin, Idle
<1>3. ASSUME NEW p \in Processes, Crash(p) PROVE FALSE
  BY <1>3 DEF TypeOK, At, Crash, Idle
<1>4. MarkCompleted(w)
  BY <1>1, <1>2, <1>3 DEF Next, Environment, SaveInput, PersistJob, RollbackRow,
     RollbackFiles, RecoveryReset
<1>5. QED
  BY <1>4 DEF MarkCompleted, Goto, Return, Become, TypeOK

\* Only an announcement publishes a `done` event.
LEMMA DoneFromAnnounce ==
  ASSUME TypeOK, Next, NEW j \in Jobs, feed'[j] = "done", feed[j] # "done"
  PROVE  \E w \in Workers : AnnounceDone(w) /\ proc[w].job = j
<1>1. ASSUME NEW w \in Workers, ProcessJob(w) PROVE AnnounceDone(w) /\ proc[w].job = j
  BY <1>1 DEF TypeOK, ProcessJob, Publish, TryMark, ReadStatus, FetchJob,
     MakeOutputDir, StartPart, EndPart, SetOutputDir, MarkCompleted,
     AnnounceDone, MarkFailed, ReportFailure
<1>2. QED
  BY <1>1 DEF Next, Environment, End, Begin, Crash, SaveInput, PersistJob,
     RollbackRow, RollbackFiles, RecoveryReset

LEMMA StepDoneInv == DoneInv /\ [Next]_vars => DoneInv'
<1> SUFFICES ASSUME DoneInv, [Next]_vars PROVE DoneInv'
  OBVIOUS
<1>t. HolderInv /\ HolderInv' /\ TypeOK /\ TypeOK'
  BY StepHolderInv DEF DoneInv, HolderInv
<1>1. CASE UNCHANGED vars
  BY <1>1, <1>t DEF DoneInv, vars, At
<1>2. CASE Next
  <2> SUFFICES ASSUME NEW j \in Jobs, resets'[j] = 0
               PROVE  /\ \A w \in Workers : At(w, "announce")' /\ proc'[w].job = j
                                             => jobs'[j].status \in Settled
                      /\ feed'[j] = "done" => jobs'[j].status \in Settled
    BY <1>t DEF DoneInv
  <2>1. resets[j] = 0
    BY <1>t, ResetsKept
  <2>2. jobs[j].status \in Settled => jobs'[j].status \in Settled
    BY <1>2, <1>t, StepLife DEF Settled, Markable, Exists, Status
  <2>3. ASSUME NEW w \in Workers, At(w, "announce")', proc'[w].job = j
        PROVE  jobs'[j].status \in Settled
    <3>1. CASE proc'[w] = proc[w]
      BY <2>1, <2>2, <2>3, <3>1 DEF DoneInv, At
    <3>2. CASE proc'[w] # proc[w]
      <4>1. MarkCompleted(w) /\ proc[w].job = j
        BY <1>2, <1>t, <2>3, <3>2, AnnounceFromCompleted
      <4>2. jobs' = UpdateJobStatus(jobs, j, "completed")
        BY <1>t, <2>3, <4>1 DEF MarkCompleted, Return, Become, At, TypeOK
      <4>3. "completed" \in Status /\ jobs \in [Jobs -> Row]
        BY <1>t DEF Status, TypeOK
      <4>4. jobs'[j].status = IF Exists(jobs, j) THEN "completed" ELSE jobs[j].status
        BY <4>2, <4>3, StatementsStatus
      <4>5. jobs[j].status \in {"processing", "deleted"}
        <5>1. w \in Active(j)
          BY <4>1 DEF MarkCompleted, At, Active, Acquired
        <5>2. QED BY <1>t, <2>1, <5>1, Exclusive
      <4>6. QED BY <4>4, <4>5 DEF Exists, Status, Settled
    <3>3. QED BY <3>1, <3>2
  <2>4. ASSUME feed'[j] = "done" PROVE jobs'[j].status \in Settled
    <3>1. CASE feed[j] = "done"
      BY <2>1, <2>2, <3>1 DEF DoneInv
    <3>2. CASE feed[j] # "done"
      <4>1. PICK w \in Workers : AnnounceDone(w) /\ proc[w].job = j
        BY <1>2, <1>t, <2>4, <3>2, DoneFromAnnounce
      <4>2. QED BY <2>1, <2>2, <4>1 DEF DoneInv, AnnounceDone
    <3>3. QED BY <3>1, <3>2
  <2>5. QED BY <2>3, <2>4
<1>3. QED BY <1>1, <1>2

\* Readers of the progress channel are told the truth: after a `done` event
\* the job is completed, unless recovery wrote over it or it was rolled back.
THEOREM DoneIsTrue == Spec => []DoneIsCompleted
<1>1. ASSUME Init PROVE DoneInv
  <2>1. HolderInv
    BY <1>1, InitHolder
  <2>2. QED
    BY <1>1, <2>1 DEF DoneInv, Init, At, Idle
<1>2. DoneInv => DoneIsCompleted
  BY DEF DoneInv, DoneIsCompleted, Settled
<1>3. QED
  BY <1>1, <1>2, StepDoneInv, PTL DEF Spec

-----------------------------------------------------------------------------
(* The files of a completed job are whole.                                 *)

\* What an attempt has written so far is there; before it writes `completed`
\* output_dir is set (or the row is gone).
Kept(w, j) ==
  /\ 1 .. proc[w].done \subseteq files[j]
  /\ At(w, "complete") /\ Exists(jobs, j) => jobs[j].output

Playable(j) == Parts \subseteq files[j] /\ jobs[j].output

FilesOK(j) ==
  resets[j] = 0 /\ Input \in files[j] =>
    /\ \A w \in Active(j) : Kept(w, j)
    /\ jobs[j].status = "completed" => Playable(j)

FilesInv == HolderInv /\ \A j \in Jobs : FilesOK(j)

\* A step that leaves the job alone, but for workers that let go of it.
LEMMA FilesFrame ==
  ASSUME NEW j \in Jobs, FilesOK(j), resets'[j] = resets[j],
         files'[j] = files[j], jobs'[j] = jobs[j],
         \A w \in Active(j)' : w \in Active(j) /\ proc'[w] = proc[w]
  PROVE  FilesOK(j)'
BY DEF FilesOK, Kept, Playable, At, Exists

\* A step of the holder: it alone keeps the files, and the job is not completed
\* before it says so.
LEMMA FilesHolderStep ==
  ASSUME FilesInv, HolderInv', NEW j \in Jobs, NEW w \in Active(j), ProcessJob(w),
         resets'[j] = 0 /\ Input \in files'[j]
           => /\ w \in Active(j)' => Kept(w, j)'
              /\ jobs'[j].status = "completed" => Playable(j)'
  PROVE  FilesOK(j)'
<1>1. TypeOK /\ TypeOK' /\ HolderInv /\ w \in Workers /\ proc[w].job = j
  BY DEF FilesInv, HolderInv, Active
<1>2. resets' = resets /\ \A v \in Workers \ {w} : proc'[v] = proc[v]
  BY <1>1, StepSummary
<1>3. ASSUME resets'[j] = 0 PROVE \A v \in Active(j)' : v = w
  BY <1>1, <1>2, <1>3, Exclusive DEF Active
<1>4. QED
  BY <1>3 DEF FilesOK

LEMMA StepFilesInv == FilesInv /\ [Next]_vars => FilesInv'
<1> SUFFICES ASSUME FilesInv, [Next]_vars, NEW j \in Jobs PROVE FilesOK(j)'
  BY StepHolderInv DEF FilesInv
<1>t. TypeOK /\ TypeOK' /\ HolderInv /\ HolderInv' /\ FilesOK(j)
  BY StepHolderInv DEF FilesInv, HolderInv
<1>1. ASSUME NEW w \in Workers, ProcessJob(w) PROVE FilesOK(j)'
  <2>0. PICK i : i = proc[w].job
    OBVIOUS
  <2>1. /\ i \in Jobs /\ proc'[w].job = i
        /\ \A v \in Workers \ {w} : proc'[v] = proc[v]
        /\ resets' = resets
        /\ \A k \in Jobs \ {i} : jobs'[k] = jobs[k]
    BY <1>1, <1>t, <2>0, StepSummary
  <2>2. \A k \in Jobs \ {i} : files'[k] = files[k]
    BY <1>1, <1>t, <2>0, <2>1 DEF TypeOK, ProcessJob, TryMark, ReadStatus, FetchJob,
       MakeOutputDir, StartPart, EndPart, SetOutputDir, MarkCompleted,
       AnnounceDone, MarkFailed, ReportFailure
  <2>3. CASE j # i
    BY <1>t, <2>0, <2>1, <2>2, <2>3, FilesFrame DEF Active
  <2>4. CASE j = i
    <3>w. Holds(w) => w \in Active(j)
      BY <2>0, <2>4 DEF Holds, Active
    <3>j. /\ proc[w].job = j /\ proc[w].done \in 0 .. NumParts
          /\ jobs \in [Jobs -> Row] /\ files \in [Jobs -> SUBSET (Parts \cup {Input})]
      BY <1>t, <2>0, <2>4 DEF TypeOK, Call
    <3>s. ASSUME Holds(w), resets'[j] = 0
          PROVE  /\ w \in Active(j) /\ resets[j] = 0
                 /\ jobs[j].status \in {"processing", "deleted"}
                 /\ Input \in files[j] => Kept(w, j)
      BY <1>t, <2>1, <3>s, <3>w, Exclusive DEF FilesOK
    <3>1. CASE TryMark(w)
      <4>1. /\ jobs'[j].output = jobs[j].output
            /\ \/ jobs'[j].status = jobs[j].status
               \/ Markable(jobs, j) /\ jobs'[j].status = "processing"
        <5>1. /\ MarkProcessing(jobs, j)[j].output = jobs[j].output
              /\ MarkProcessing(jobs, j)[j].status
                   = IF Markable(jobs, j) THEN "processing" ELSE jobs[j].status
          BY <2>1, <2>4, <3>j, StatementsOutput, StatementsStatus
        <5>2. jobs' = jobs \/ jobs' = MarkProcessing(jobs, j)
          BY <3>1, <3>j DEF TryMark, AfterError
        <5>3. QED BY <5>1, <5>2
      <4>2. \A v \in Active(j)' :
              \/ v \in Active(j) /\ proc'[v] = proc[v]
              \/ v = w /\ proc'[w].done = 0 /\ ~At(w, "complete")'
        BY <1>t, <2>1, <3>1, <3>j DEF TryMark, Active, Acquired, Goto, Return, Become,
           At, TypeOK, Positioned
      <4>3. files' = files
        BY <3>1 DEF TryMark
      <4>4. QED
        BY <1>t, <2>1, <4>1, <4>2, <4>3
           DEF FilesOK, Kept, Playable, At, Exists, Markable, Status
    <3>2. CASE ReadStatus(w) \/ AnnounceDone(w) \/ ReportFailure(w)
      <4>1. jobs' = jobs /\ files' = files
        BY <3>2 DEF ReadStatus, AnnounceDone, ReportFailure
      <4>2. ~Holds(w)'
        BY <1>t, <3>2 DEF ReadStatus, AnnounceDone, ReportFailure, Return, Become,
           Holds, Acquired, TypeOK
      <4>3. \A v \in Active(j)' : v \in Active(j) /\ proc'[v] = proc[v]
        BY <2>1, <4>2 DEF Active, Holds
      <4>4. QED BY <1>t, <2>1, <4>1, <4>3, FilesFrame
    <3>3. CASE FetchJob(w) \/ MakeOutputDir(w)
      <4>1. Holds(w) /\ jobs' = jobs /\ files' = files
        BY <3>3 DEF FetchJob, MakeOutputDir, Holds, Acquired, At
      <4>2. proc'[w].done = 0 /\ ~At(w, "complete")'
        BY <1>t, <3>3 DEF FetchJob, MakeOutputDir, Goto, Return, Become, At,
           TypeOK, Positioned
      <4>3. resets'[j] = 0 => Kept(w, j)' /\ jobs'[j].status # "completed"
        BY <3>s, <4>1, <4>2 DEF Kept
      <4>4. QED BY <1>1, <1>t, <3>w, <4>1, <4>3, FilesHolderStep
    <3>4. CASE StartPart(w)
      <4>1. Holds(w) /\ jobs' = jobs
        BY <3>4 DEF StartPart, Holds, Acquired, At
      <4>2. proc'[w].done = proc[w].done /\ ~At(w, "complete")'
        BY <1>t, <3>4 DEF StartPart, Goto, Become, At, TypeOK
      <4>3. files'[j] = files[j] \/ files'[j] = files[j] \ {proc[w].done + 1}
        BY <3>4, <3>j DEF StartPart
      <4>4. resets'[j] = 0 /\ Input \in files'[j]
              => Kept(w, j)' /\ jobs'[j].status # "completed"
        <5>1. proc[w].done + 1 \notin 1 .. proc[w].done
          BY <3>j
        <5>2. QED BY <3>s, <4>1, <4>2, <4>3, <5>1 DEF Kept
      <4>5. QED BY <1>1, <1>t, <3>w, <4>1, <4>4, FilesHolderStep
    <3>5. CASE EndPart(w)
      <4>1. Holds(w) /\ jobs' = jobs
        BY <3>5 DEF EndPart, Holds, Acquired, At
      <4>2. /\ ~At(w, "complete")'
            /\ \/ proc'[w].done = proc[w].done /\ files' = files
               \/ /\ proc'[w].done = proc[w].done + 1
                  /\ files'[j] = files[j] \cup {proc[w].done + 1}
        BY <1>t, <3>5, <3>j DEF EndPart, Goto, Become, At, TypeOK
      <4>3. Input \in files'[j] => Input \in files[j]
        BY <3>j, <4>2 DEF Input
      <4>4. resets'[j] = 0 /\ Input \in files'[j]
              => Kept(w, j)' /\ jobs'[j].status # "completed"
        <5>1. 1 .. (proc[w].done + 1) = (1 .. proc[w].done) \cup {proc[w].done + 1}
          BY <3>j
        <5>2. QED BY <3>s, <4>1, <4>2, <4>3, <5>1 DEF Kept
      <4>5. QED BY <1>1, <1>t, <3>w, <4>1, <4>4, FilesHolderStep
    <3>6. CASE SetOutputDir(w)
      <4>1. Holds(w) /\ files' = files
        BY <3>6 DEF SetOutputDir, Holds, Acquired, At
      <4>2. /\ proc'[w].done = proc[w].done
            /\ At(w, "complete")' => jobs' = UpdateJobOutputDir(jobs, j)
        BY <1>t, <3>6, <3>j DEF SetOutputDir, Goto, Become, At, TypeOK
      <4>3. /\ jobs'[j].status = jobs[j].status
            /\ At(w, "complete")' /\ Exists(jobs, j) => jobs'[j].output
        BY <3>6, <3>j, <4>2, StatementsStatus, StatementsOutput
           DEF SetOutputDir, AfterError
      <4>4. resets'[j] = 0 /\ Input \in files'[j]
              => Kept(w, j)' /\ jobs'[j].status # "completed"
        BY <3>s, <4>1, <4>2, <4>3 DEF Kept, Exists
      <4>5. QED BY <1>1, <1>t, <3>w, <4>1, <4>4, FilesHolderStep
    <3>7. CASE MarkCompleted(w)
      <4>1. Holds(w) /\ files' = files /\ proc[w].done = NumParts /\ At(w, "complete")
        BY <1>t, <3>7 DEF MarkCompleted, Holds, Acquired, At, TypeOK, Positioned
      <4>2. w \notin Active(j)'
        BY <1>t, <3>7 DEF MarkCompleted, Goto, Return, Become, TypeOK, Active, Acquired
      <4>3. /\ jobs'[j].output = jobs[j].output
            /\ jobs'[j].status = "completed" =>
                 Exists(jobs, j) \/ jobs[j].status = "completed"
        <5>1. "completed" \in Status
          BY DEF Status
        <5>2. LET written == UpdateJobStatus(jobs, j, "completed")
              IN  /\ written[j].output = jobs[j].output
                  /\ written[j].status
                       = IF Exists(jobs, j) THEN "completed" ELSE jobs[j].status
          BY <2>1, <2>4, <3>j, <5>1, StatementsStatus, StatementsOutput
        <5>3. QED BY <3>7, <3>j, <5>2 DEF MarkCompleted, AfterError
      <4>4. resets'[j] = 0 /\ Input \in files'[j] /\ jobs'[j].status = "completed"
              => Playable(j)'
        BY <3>s, <4>1, <4>3 DEF Kept, Playable, Parts
      <4>5. QED BY <1>1, <1>t, <3>w, <4>1, <4>2, <4>4, FilesHolderStep
    <3>8. CASE MarkFailed(w)
      <4>1. Holds(w)
        BY <3>8 DEF MarkFailed, Holds, Acquired, At
      <4>2. w \notin Active(j)'
        BY <1>t, <3>8 DEF MarkFailed, Goto, Return, Become, TypeOK, Active, Acquired
      <4>3. jobs'[j].status \in {jobs[j].status, "failed"}
        <5>1. "failed" \in Status
          BY DEF Status
        <5>2. QED BY <3>8, <3>j, <5>1, StatementsStatus DEF MarkFailed, AfterError
      <4>4. resets'[j] = 0 => jobs'[j].status # "completed"
        BY <3>s, <4>1, <4>3
      <4>5. QED BY <1>1, <1>t, <3>w, <4>1, <4>2, <4>4, FilesHolderStep
    <3>9. QED BY <1>1, <3>1, <3>2, <3>3, <3>4, <3>5, <3>6, <3>7, <3>8 DEF ProcessJob
  <2>5. QED BY <2>3, <2>4
<1>2. ASSUME NEW w \in Workers, End(w) \/ \E i \in Jobs : Begin(w, i) PROVE FilesOK(j)'
  <2>1. /\ resets' = resets /\ files' = files /\ jobs' = jobs
        /\ \A v \in Active(j)' : v \in Active(j) /\ proc'[v] = proc[v]
    BY <1>2, <1>t DEF End, Begin, Idle, Active, Acquired, TypeOK
  <2>2. QED BY <1>t, <2>1, FilesFrame
<1>n. jobs[j].status = "none" => Active(j) = {}
  BY <1>t DEF HolderInv, Active, Acquired
<1>e. \A i \in Jobs : SaveInput(i) \/ PersistJob(i) \/ RollbackRow(i)
                        \/ RollbackFiles(i) \/ RecoveryReset(i)
        => proc' = proc /\ Active(j)' = Active(j)
  BY DEF SaveInput, PersistJob, RollbackRow, RollbackFiles, RecoveryReset, Active
<1>3. ASSUME NEW i \in Jobs, SaveInput(i) PROVE FilesOK(j)'
  <2>1. CASE i = j
    BY <1>3, <1>n, <1>e, <2>1 DEF FilesOK, SaveInput
  <2>2. CASE i # j
    BY <1>3, <1>e, <1>t, <2>2, FilesFrame DEF SaveInput, TypeOK
  <2>3. QED BY <2>1, <2>2
<1>4. ASSUME NEW i \in Jobs, PersistJob(i) PROVE FilesOK(j)'
  <2>1. jobs \in [Jobs -> Row]
    BY <1>t DEF TypeOK
  <2>2. CASE i = j
    <3>1. jobs'[j].status = "pending" /\ Active(j)' = {}
      BY <1>4, <1>n, <1>e, <2>1, <2>2, StatementsStatus DEF PersistJob
    <3>2. QED BY <3>1 DEF FilesOK
  <2>3. CASE i # j
    <3>1. jobs'[j] = jobs[j]
      BY <1>4, <2>1, <2>3, StatementsLocal DEF PersistJob
    <3>2. QED BY <1>4, <1>e, <1>t, <3>1, FilesFrame DEF PersistJob
  <2>4. QED BY <2>2, <2>3
<1>5. ASSUME NEW i \in Jobs, RollbackRow(i) PROVE FilesOK(j)'
  <2>1. jobs \in [Jobs -> Row]
    BY <1>t DEF TypeOK
  <2>2. CASE i = j
    <3>1. jobs'[j].status = "deleted" /\ resets' = resets /\ files' = files
      BY <1>5, <2>1, <2>2, StatementsStatus DEF RollbackRow
    <3>2. QED BY <1>5, <1>e, <1>t, <3>1 DEF FilesOK, Kept, Exists, Status, At
  <2>3. CASE i # j
    <3>1. jobs'[j] = jobs[j]
      BY <1>5, <2>1, <2>3, StatementsLocal DEF RollbackRow
    <3>2. QED BY <1>5, <1>e, <1>t, <3>1, FilesFrame DEF RollbackRow
  <2>4. QED BY <2>2, <2>3
<1>6. ASSUME NEW i \in Jobs, RollbackFiles(i) PROVE FilesOK(j)'
  <2>1. CASE i = j
    BY <1>6, <1>t, <2>1 DEF FilesOK, RollbackFiles, TypeOK
  <2>2. CASE i # j
    BY <1>6, <1>e, <1>t, <2>2, FilesFrame DEF RollbackFiles, TypeOK
  <2>3. QED BY <2>1, <2>2
<1>7. ASSUME NEW i \in Jobs, RecoveryReset(i) PROVE FilesOK(j)'
  <2>1. jobs \in [Jobs -> Row] /\ "pending" \in Status
    BY <1>t DEF TypeOK, Status
  <2>2. CASE i = j
    <3>1. resets'[j] # 0
      BY <1>7, <1>t, <2>2, ResetsAssumption DEF RecoveryReset, TypeOK
    <3>2. QED BY <3>1 DEF FilesOK
  <2>3. CASE i # j
    <3>1. jobs'[j] = jobs[j] /\ resets'[j] = resets[j]
      BY <1>7, <1>t, <2>1, <2>3, StatementsLocal DEF RecoveryReset, TypeOK
    <3>2. QED BY <1>7, <1>e, <1>t, <3>1, FilesFrame DEF RecoveryReset
  <2>4. QED BY <2>2, <2>3
<1>8. ASSUME NEW p \in Processes, Crash(p) PROVE FilesOK(j)'
  <2>1. /\ resets' = resets /\ files' = files /\ jobs' = jobs
        /\ \A v \in Active(j)' : v \in Active(j) /\ proc'[v] = proc[v]
    BY <1>8, <1>t DEF Crash, Idle, Active, Acquired, TypeOK
  <2>2. QED BY <1>t, <2>1, FilesFrame
<1>9. CASE UNCHANGED vars
  <2>1. /\ resets' = resets /\ files' = files /\ jobs' = jobs
        /\ \A v \in Active(j)' : v \in Active(j) /\ proc'[v] = proc[v]
    BY <1>9 DEF vars, Active
  <2>2. QED BY <1>t, <2>1, FilesFrame
<1>10. QED
  BY <1>1, <1>2, <1>3, <1>4, <1>5, <1>6, <1>7, <1>8, <1>9 DEF Next, Environment

\* Every completed job can be played: all its files are whole and output_dir
\* is set, unless its upload was rolled back or recovery wrote over it.
THEOREM CompletedPlays == Spec => []CompletedIsPlayable
<1>1. ASSUME Init PROVE FilesInv
  <2>1. HolderInv
    BY <1>1, InitHolder
  <2>2. QED BY <1>1, <2>1 DEF FilesInv, FilesOK, Init
<1>2. FilesInv => CompletedIsPlayable
  BY DEF FilesInv, FilesOK, Playable, CompletedIsPlayable
<1>3. QED
  BY <1>1, <1>2, StepFilesInv, PTL DEF Spec
=============================================================================
