--------------------------- MODULE JobWorkerProofs ---------------------------
(***************************************************************************)
(* JobWorker, for any number of uploads, cards, users, failures and        *)
(* crashes.  IInv says how the rows of a job, its worker and its cards'    *)
(* tasks fit together; one lemma per actor shows that the actor's steps    *)
(* keep it, and theorems read the properties off it.  Then what a job      *)
(* leaves behind: OutcomeInv ties its directory, its faults and its place  *)
(* in the process's life to its status.  Last the contract: each step of a *)
(* request, a worker, a card's task, a clear or a restart is one that      *)
(* JobContract allows, or leaves all it speaks of alone.                   *)
(***************************************************************************)
EXTENDS JobWorker, SqliteLeadStoreProofs

USE OwnerAssumption, MaxCardsAssumption, SessionFKAssumption,
    BoundsAssumption, NoneAssumption
USE DEF Phase, Requesting, Working, Worked, Rejected, TaskState, InHand, Holding,
        NoTasks, Status, Live, Terminal, Card, handler, tables, At, Goto, TaskAt,
        Become, MakeDir, CleanupDir, RemoveFile, Fault, HasJob

-----------------------------------------------------------------------------
\* A step that leaves the tables alone keeps what IInv says of them only.
LEMMA StoreIdle ==
    ASSUME IInv, UNCHANGED tables
    PROVE  /\ TablesOK' /\ LeadsHaveJobs' /\ OneLeadPerCard' /\ DoneIsComplete'
           /\ \A j \in Jobs : Recorded(j)' = Recorded(j)
<1>1. \A j : Recorded(j)' = Recorded(j)
  BY DEF Recorded, LeadRows
<1>2. TablesOK'
  BY DEF IInv, TypeOK, TablesOK
<1>3. LeadsHaveJobs' /\ OneLeadPerCard'
  BY DEF IInv, LeadsHaveJobs, OneLeadPerCard
<1>4. DoneIsComplete'
  BY <1>1 DEF IInv, DoneIsComplete
<1> QED
  BY <1>1, <1>2, <1>3, <1>4

\* The steps of the POST /api/jobs handler.
LEMMA RequestStep ==
    ASSUME IInv, NEW j \in Jobs, Request(j)
    PROVE  IInv'
<1>1. CASE BeginUpload(j)
  <2> USE <1>1 DEF BeginUpload
  <2> USE DEF IInv
  <2>1. UNCHANGED tables
    OBVIOUS
  <2>2. TypeOK'
    BY <2>1, StoreIdle DEF TypeOK
  <2>3. RowsAreTheirBatchs'
    BY <2>1 DEF TypeOK, TablesOK, JobRow, RowsAreTheirBatchs, Created
  <2>4. TasksAreTheirJobs'
    BY DEF TypeOK, TasksAreTheirJobs
  <2>5. LeadsAreTheirTasks'
    BY <2>1, SMTT(30) DEF TypeOK, TablesOK, JobRow, LeadRow, LeadsHaveJobs,
                TasksAreTheirJobs, LeadsAreTheirTasks, Recorded, LeadRows
  <2>6. FinishingIsComplete'
    BY DEF TypeOK, TasksAreTheirJobs, FinishingIsComplete, AllReturned
  <2>7. SettledIsLeftAlone' /\ NoTaskWithoutProcess'
    BY <2>1 DEF TypeOK, TablesOK, JobRow, SettledIsLeftAlone, NoTaskWithoutProcess
  <2> QED
    BY <2>1, <2>2, <2>3, <2>4, <2>5, <2>6, <2>7, StoreIdle
<1>2. CASE SpoolFile(j)
  <2> USE <1>2 DEF SpoolFile, RoomForOne
  <2> USE DEF IInv
  <2>1. UNCHANGED tables
    OBVIOUS
  <2>2. TypeOK'
    BY <2>1, StoreIdle DEF TypeOK
  <2>3. RowsAreTheirBatchs'
    BY <2>1 DEF TypeOK, TablesOK, JobRow, RowsAreTheirBatchs, Created
  <2>4. TasksAreTheirJobs'
    BY DEF TypeOK, TasksAreTheirJobs
  <2>5. LeadsAreTheirTasks'
    BY <2>1, SMTT(30) DEF TypeOK, TablesOK, JobRow, LeadRow, LeadsHaveJobs,
                TasksAreTheirJobs, LeadsAreTheirTasks, Recorded, LeadRows
  <2>6. FinishingIsComplete'
    BY DEF TypeOK, TasksAreTheirJobs, FinishingIsComplete, AllReturned
  <2>7. SettledIsLeftAlone' /\ NoTaskWithoutProcess'
    BY <2>1 DEF TypeOK, TablesOK, JobRow, SettledIsLeftAlone, NoTaskWithoutProcess
  <2> QED
    BY <2>1, <2>2, <2>3, <2>4, <2>5, <2>6, <2>7, StoreIdle
<1>3. CASE NothingAccepted(j)
  <2> USE <1>3 DEF NothingAccepted
  <2> USE DEF IInv
  <2>1. UNCHANGED tables
    OBVIOUS
  <2>2. TypeOK'
    BY <2>1, StoreIdle DEF TypeOK
  <2>3. RowsAreTheirBatchs'
    BY <2>1 DEF TypeOK, TablesOK, JobRow, RowsAreTheirBatchs, Created
  <2>4. TasksAreTheirJobs'
    BY DEF TypeOK, TasksAreTheirJobs
  <2>5. LeadsAreTheirTasks'
    BY <2>1, SMTT(30) DEF TypeOK, TablesOK, JobRow, LeadRow, LeadsHaveJobs,
                TasksAreTheirJobs, LeadsAreTheirTasks, Recorded, LeadRows
  <2>6. FinishingIsComplete'
    BY DEF TypeOK, TasksAreTheirJobs, FinishingIsComplete, AllReturned
  <2>7. SettledIsLeftAlone' /\ NoTaskWithoutProcess'
    BY <2>1 DEF TypeOK, TablesOK, JobRow, SettledIsLeftAlone, NoTaskWithoutProcess
  <2> QED
    BY <2>1, <2>2, <2>3, <2>4, <2>5, <2>6, <2>7, StoreIdle
<1>4. CASE SpoolEnds(j)
  <2> USE <1>4 DEF SpoolEnds
  <2> USE DEF IInv
  <2>1. UNCHANGED tables
    OBVIOUS
  <2>2. TypeOK'
    BY <2>1, StoreIdle DEF TypeOK
  <2>3. RowsAreTheirBatchs'
    BY <2>1 DEF TypeOK, TablesOK, JobRow, RowsAreTheirBatchs, Created
  <2>4. TasksAreTheirJobs'
    BY DEF TypeOK, TasksAreTheirJobs
  <2>5. LeadsAreTheirTasks'
    BY <2>1, SMTT(30) DEF TypeOK, TablesOK, JobRow, LeadRow, LeadsHaveJobs,
                TasksAreTheirJobs, LeadsAreTheirTasks, Recorded, LeadRows
  <2>6. FinishingIsComplete'
    BY DEF TypeOK, TasksAreTheirJobs, FinishingIsComplete, AllReturned
  <2>7. SettledIsLeftAlone' /\ NoTaskWithoutProcess'
    BY <2>1 DEF TypeOK, TablesOK, JobRow, SettledIsLeftAlone, NoTaskWithoutProcess
  <2> QED
    BY <2>1, <2>2, <2>3, <2>4, <2>5, <2>6, <2>7, StoreIdle
<1>5. ASSUME NEW s \in Jobs, UseSession(j, s) PROVE IInv'
  <2> USE <1>5 DEF UseSession, SessionOf
  <2> USE DEF IInv
  <2>1. UNCHANGED tables
    OBVIOUS
  <2>2. TypeOK'
    BY <2>1, StoreIdle DEF TypeOK
  <2>3. RowsAreTheirBatchs'
    BY <2>1 DEF TypeOK, TablesOK, JobRow, RowsAreTheirBatchs, Created
  <2>4. TasksAreTheirJobs'
    BY DEF TypeOK, TasksAreTheirJobs
  <2>5. LeadsAreTheirTasks'
    BY <2>1, SMTT(30) DEF TypeOK, TablesOK, JobRow, LeadRow, LeadsHaveJobs,
                TasksAreTheirJobs, LeadsAreTheirTasks, Recorded, LeadRows
  <2>6. FinishingIsComplete'
    BY DEF TypeOK, TasksAreTheirJobs, FinishingIsComplete, AllReturned
  <2>7. SettledIsLeftAlone' /\ NoTaskWithoutProcess'
    BY <2>1 DEF TypeOK, TablesOK, JobRow, SettledIsLeftAlone, NoTaskWithoutProcess
  <2> QED
    BY <2>1, <2>2, <2>3, <2>4, <2>5, <2>6, <2>7, StoreIdle
<1>6. CASE OpenSession(j)
  <2> USE <1>6 DEF OpenSession
  <2> USE DEF IInv
  <2>1. TablesOK'
    BY CreateSessionKeepsTables DEF TypeOK
  <2>2. TypeOK'
    BY <2>1 DEF TypeOK
  <2>3. RowsAreTheirBatchs'
    BY DEF TypeOK, TablesOK, JobRow, RowsAreTheirBatchs, Created, CreateSession,
           Insert
  <2>4. UNCHANGED <<jobs, leads>> /\ \A k \in Jobs : Recorded(k)' = Recorded(k)
    BY DEF CreateSession, Recorded, LeadRows
  <2>5. TasksAreTheirJobs' /\ NoTaskWithoutProcess'
    BY DEF TypeOK, TasksAreTheirJobs, NoTaskWithoutProcess
  <2>6. LeadsAreTheirTasks'
    BY <2>4 DEF TypeOK, TablesOK, JobRow, LeadRow, LeadsHaveJobs, TasksAreTheirJobs,
                LeadsAreTheirTasks
  <2>7. FinishingIsComplete'
    BY DEF TypeOK, TasksAreTheirJobs, FinishingIsComplete, AllReturned
  <2>8. SettledIsLeftAlone' /\ LeadsHaveJobs' /\ OneLeadPerCard' /\ DoneIsComplete'
    BY <2>4 DEF TypeOK, TablesOK, SettledIsLeftAlone, LeadsHaveJobs, OneLeadPerCard,
                DoneIsComplete
  <2> QED
    BY <2>2, <2>3, <2>5, <2>6, <2>7, <2>8
<1>7. CASE CreateAndSchedule(j)
  <2> USE <1>7 DEF CreateAndSchedule, Total
  <2> USE DEF IInv
  <2>1. accepted[j] \in Card /\ session[j] \in Jobs /\ Owner[session[j]] = Owner[j]
    BY DEF TypeOK, RowsAreTheirBatchs
  <2>2. TablesOK'
    BY <2>1, CreateJobKeepsTables DEF TypeOK
  <2>3. TypeOK'
    BY <2>2 DEF TypeOK
  <2>4. /\ DOMAIN jobs' = DOMAIN jobs \cup {j}
        /\ jobs'[j].total = accepted[j] /\ jobs'[j].user = Owner[j]
        /\ jobs'[j].session = session[j] /\ jobs'[j].status = "queued"
        /\ \A k \in DOMAIN jobs : k # j /\ jobs'[k] = jobs[k]
        /\ UNCHANGED <<sessions, leads>>
        /\ \A k \in Jobs : Recorded(k)' = Recorded(k)
    <3>1. \A k \in DOMAIN jobs : k # j
      BY DEF RowsAreTheirBatchs, Created
    <3>2. UNCHANGED <<sessions, leads>> /\ \A k \in Jobs : Recorded(k)' = Recorded(k)
      BY DEF CreateJob, Recorded, LeadRows
    <3>3. jobs' = Insert(jobs, j, [user |-> Owner[j], session |-> session[j],
                                   total |-> accepted[j], status |-> "queued"])
      BY DEF CreateJob
    <3> QED
      BY <3>1, <3>2, <3>3 DEF Insert
  <2>5. RowsAreTheirBatchs'
    BY <2>1, <2>4 DEF TypeOK, TablesOK, JobRow, RowsAreTheirBatchs, Created,
                      CreateJob, SessionAccepted
  <2>6. TasksAreTheirJobs' /\ FinishingIsComplete' /\ NoTaskWithoutProcess'
    BY DEF TypeOK, TasksAreTheirJobs, FinishingIsComplete, AllReturned,
           NoTaskWithoutProcess
  <2>7. LeadsAreTheirTasks'
    \* The upload has no tasks yet, and the other jobs' rows are as they were.
    <3>1. \A c \in Card : task[j][c] = "none"
      BY DEF TypeOK, TasksAreTheirJobs
    <3>2. \A r \in DOMAIN leads : leads[r].job # j
      BY <2>4 DEF LeadsHaveJobs
    <3> QED
      BY <2>4, <3>1, <3>2 DEF TypeOK, TablesOK, JobRow, LeadRow, LeadsHaveJobs,
                              TasksAreTheirJobs, LeadsAreTheirTasks
  <2>8. SettledIsLeftAlone' /\ LeadsHaveJobs' /\ OneLeadPerCard' /\ DoneIsComplete'
    BY <2>4 DEF TypeOK, TablesOK, SettledIsLeftAlone, LeadsHaveJobs, OneLeadPerCard,
                DoneIsComplete
  <2> QED
    BY <2>3, <2>5, <2>6, <2>7, <2>8
<1>8. CASE SessionGone(j)
  <2> USE <1>8 DEF SessionGone
  <2> USE DEF IInv
  <2>1. UNCHANGED tables
    OBVIOUS
  <2>2. TypeOK'
    BY <2>1, StoreIdle DEF TypeOK
  <2>3. RowsAreTheirBatchs'
    BY <2>1 DEF TypeOK, TablesOK, JobRow, RowsAreTheirBatchs, Created
  <2>4. TasksAreTheirJobs'
    BY DEF TypeOK, TasksAreTheirJobs
  <2>5. LeadsAreTheirTasks'
    BY <2>1, SMTT(30) DEF TypeOK, TablesOK, JobRow, LeadRow, LeadsHaveJobs,
                TasksAreTheirJobs, LeadsAreTheirTasks, Recorded, LeadRows
  <2>6. FinishingIsComplete'
    BY DEF TypeOK, TasksAreTheirJobs, FinishingIsComplete, AllReturned
  <2>7. SettledIsLeftAlone' /\ NoTaskWithoutProcess'
    BY <2>1 DEF TypeOK, TablesOK, JobRow, SettledIsLeftAlone, NoTaskWithoutProcess
  <2> QED
    BY <2>1, <2>2, <2>3, <2>4, <2>5, <2>6, <2>7, StoreIdle
<1> QED
  BY <1>1, <1>2, <1>3, <1>4, <1>5, <1>6, <1>7, <1>8 DEF Request

\* The steps of run_job.
LEMMA RunJobStep ==
    ASSUME IInv, NEW j \in Jobs, RunJob(j)
    PROVE  IInv'
<1>1. CASE StartJob(j)
  <2> USE <1>1 DEF StartJob
  <2> USE DEF IInv
  <2>1. /\ TablesOK'
        /\ UNCHANGED <<sessions, leads>>
        /\ DOMAIN jobs' = DOMAIN jobs
        /\ \A k \in DOMAIN jobs :
             /\ jobs'[k].user = jobs[k].user
             /\ jobs'[k].session = jobs[k].session
             /\ jobs'[k].total = jobs[k].total
             /\ jobs'[k].status = IF k = j THEN "running" ELSE jobs[k].status
        /\ \A k \in Jobs : Recorded(k)' = Recorded(k)
    <3>1. SetStatus(j, "running") /\ TablesOK
      BY DEF TypeOK
    <3>2. UNCHANGED <<sessions, leads>> /\ \A k \in Jobs : Recorded(k)' = Recorded(k)
      BY <3>1 DEF SetStatus, Recorded, LeadRows
    <3> QED
      BY <3>1, <3>2, SetStatusEffect
  <2>2. TypeOK'
    BY <2>1 DEF TypeOK
  <2>3. RowsAreTheirBatchs'
    BY <2>1 DEF TypeOK, TablesOK, JobRow, RowsAreTheirBatchs, Created
  <2>4. TasksAreTheirJobs'
    BY DEF TypeOK, TasksAreTheirJobs
  <2>5. LeadsAreTheirTasks'
    BY <2>1 DEF TypeOK, TablesOK, JobRow, LeadRow, LeadsHaveJobs, TasksAreTheirJobs,
                LeadsAreTheirTasks
  <2>6. FinishingIsComplete' /\ NoTaskWithoutProcess'
    BY DEF TypeOK, TasksAreTheirJobs, FinishingIsComplete, AllReturned,
           NoTaskWithoutProcess
  <2>7. SettledIsLeftAlone'
    BY <2>1 DEF TypeOK, TablesOK, SettledIsLeftAlone
  <2>8. DoneIsComplete'
    BY <2>1 DEF DoneIsComplete, TypeOK, TablesOK
  <2>9. LeadsHaveJobs' /\ OneLeadPerCard'
    BY <2>1 DEF LeadsHaveJobs, OneLeadPerCard
  <2> QED
    BY <2>2, <2>3, <2>4, <2>5, <2>6, <2>7, <2>8, <2>9
<1>2. CASE GatherReturns(j)
  <2> USE <1>2 DEF GatherReturns
  <2> USE DEF IInv
  <2>1. UNCHANGED tables
    OBVIOUS
  <2>2. TypeOK'
    BY <2>1, StoreIdle DEF TypeOK
  <2>3. RowsAreTheirBatchs'
    BY <2>1 DEF TypeOK, TablesOK, JobRow, RowsAreTheirBatchs, Created
  <2>4. TasksAreTheirJobs'
    BY DEF TypeOK, TasksAreTheirJobs
  <2>5. LeadsAreTheirTasks'
    BY <2>1, SMTT(30) DEF TypeOK, TablesOK, JobRow, LeadRow, LeadsHaveJobs,
                TasksAreTheirJobs, LeadsAreTheirTasks, Recorded, LeadRows
  <2>6. FinishingIsComplete'
    BY DEF TypeOK, TasksAreTheirJobs, FinishingIsComplete, AllReturned
  <2>7. SettledIsLeftAlone' /\ NoTaskWithoutProcess'
    BY <2>1 DEF TypeOK, TablesOK, JobRow, SettledIsLeftAlone, NoTaskWithoutProcess
  <2> QED
    BY <2>1, <2>2, <2>3, <2>4, <2>5, <2>6, <2>7, StoreIdle
<1>3. CASE GatherRaises(j)
  <2> USE <1>3 DEF GatherRaises
  <2> USE DEF IInv
  <2>1. UNCHANGED tables
    OBVIOUS
  <2>2. TypeOK'
    BY <2>1, StoreIdle DEF TypeOK
  <2>3. RowsAreTheirBatchs'
    BY <2>1 DEF TypeOK, TablesOK, JobRow, RowsAreTheirBatchs, Created
  <2>4. TasksAreTheirJobs'
    BY DEF TypeOK, TasksAreTheirJobs
  <2>5. LeadsAreTheirTasks'
    BY <2>1, SMTT(30) DEF TypeOK, TablesOK, JobRow, LeadRow, LeadsHaveJobs,
                TasksAreTheirJobs, LeadsAreTheirTasks, Recorded, LeadRows
  <2>6. FinishingIsComplete'
    BY DEF TypeOK, TasksAreTheirJobs, FinishingIsComplete, AllReturned
  <2>7. SettledIsLeftAlone' /\ NoTaskWithoutProcess'
    BY <2>1 DEF TypeOK, TablesOK, JobRow, SettledIsLeftAlone, NoTaskWithoutProcess
  <2> QED
    BY <2>1, <2>2, <2>3, <2>4, <2>5, <2>6, <2>7, StoreIdle
<1>4. CASE MarkDone(j)
  <2> USE <1>4 DEF MarkDone
  <2> USE DEF IInv
  <2>1. /\ TablesOK'
        /\ UNCHANGED <<sessions, leads>>
        /\ DOMAIN jobs' = DOMAIN jobs
        /\ \A k \in DOMAIN jobs :
             /\ jobs'[k].user = jobs[k].user
             /\ jobs'[k].session = jobs[k].session
             /\ jobs'[k].total = jobs[k].total
             /\ jobs'[k].status = IF k = j THEN "done" ELSE jobs[k].status
        /\ \A k \in Jobs : Recorded(k)' = Recorded(k)
    <3>1. SetStatus(j, "done") /\ TablesOK
      BY DEF TypeOK
    <3>2. UNCHANGED <<sessions, leads>> /\ \A k \in Jobs : Recorded(k)' = Recorded(k)
      BY <3>1 DEF SetStatus, Recorded, LeadRows
    <3> QED
      BY <3>1, <3>2, SetStatusEffect
  <2>2. TypeOK'
    BY <2>1 DEF TypeOK
  <2>3. RowsAreTheirBatchs'
    BY <2>1 DEF TypeOK, TablesOK, JobRow, RowsAreTheirBatchs, Created
  <2>4. TasksAreTheirJobs'
    BY DEF TypeOK, TasksAreTheirJobs
  <2>5. LeadsAreTheirTasks'
    BY <2>1 DEF TypeOK, TablesOK, JobRow, LeadRow, LeadsHaveJobs, TasksAreTheirJobs,
                LeadsAreTheirTasks
  <2>6. FinishingIsComplete' /\ NoTaskWithoutProcess'
    BY DEF TypeOK, TasksAreTheirJobs, FinishingIsComplete, AllReturned,
           NoTaskWithoutProcess
  <2>7. SettledIsLeftAlone'
    BY <2>1 DEF TypeOK, TablesOK, SettledIsLeftAlone
  <2>8. DoneIsComplete'
    \* gather returned, so every task has ended and left its lead.
    <3>1. j \in DOMAIN jobs => Recorded(j) = 1 .. accepted[j]
      <4> SUFFICES ASSUME j \in DOMAIN jobs PROVE Recorded(j) = 1 .. accepted[j]
        OBVIOUS
      <4>1. \A c \in 1 .. accepted[j] : c \in Recorded(j)
        BY DEF FinishingIsComplete, AllReturned, LeadsAreTheirTasks, TypeOK
      <4>2. \A r \in LeadRows(j) : leads[r].card \in 1 .. accepted[j]
        BY DEF LeadsAreTheirTasks, TypeOK, TablesOK, LeadRow, LeadRows
      <4> QED
        BY <4>1, <4>2 DEF Recorded
    <3>2. \A k \in DOMAIN jobs' : k \in Jobs /\ jobs'[k].total = accepted[k]
      BY <2>1 DEF RowsAreTheirBatchs, TypeOK, TablesOK
    <3>3. ASSUME NEW k \in DOMAIN jobs', jobs'[k].status = "done"
          PROVE  Recorded(k)' = 1 .. jobs'[k].total
      <4>1. CASE k = j
        BY <2>1, <3>1, <3>2, <4>1
      <4>2. CASE k # j
        BY <2>1, <3>2, <3>3, <4>2 DEF DoneIsComplete
      <4> QED
        BY <4>1, <4>2
    <3> QED
      BY <3>3 DEF DoneIsComplete
  <2>9. LeadsHaveJobs' /\ OneLeadPerCard'
    BY <2>1 DEF LeadsHaveJobs, OneLeadPerCard
  <2> QED
    BY <2>2, <2>3, <2>4, <2>5, <2>6, <2>7, <2>8, <2>9
<1>5. CASE MarkFailed(j)
  <2> USE <1>5 DEF MarkFailed
  <2> USE DEF IInv
  <2>1. /\ TablesOK'
        /\ UNCHANGED <<sessions, leads>>
        /\ DOMAIN jobs' = DOMAIN jobs
        /\ \A k \in DOMAIN jobs :
             /\ jobs'[k].user = jobs[k].user
             /\ jobs'[k].session = jobs[k].session
             /\ jobs'[k].total = jobs[k].total
             /\ jobs'[k].status = IF k = j THEN "failed" ELSE jobs[k].status
        /\ \A k \in Jobs : Recorded(k)' = Recorded(k)
    <3>1. SetStatus(j, "failed") /\ TablesOK
      BY DEF TypeOK
    <3>2. UNCHANGED <<sessions, leads>> /\ \A k \in Jobs : Recorded(k)' = Recorded(k)
      BY <3>1 DEF SetStatus, Recorded, LeadRows
    <3> QED
      BY <3>1, <3>2, SetStatusEffect
  <2>2. TypeOK'
    BY <2>1 DEF TypeOK
  <2>3. RowsAreTheirBatchs'
    BY <2>1 DEF TypeOK, TablesOK, JobRow, RowsAreTheirBatchs, Created
  <2>4. TasksAreTheirJobs'
    BY DEF TypeOK, TasksAreTheirJobs
  <2>5. LeadsAreTheirTasks'
    BY <2>1 DEF TypeOK, TablesOK, JobRow, LeadRow, LeadsHaveJobs, TasksAreTheirJobs,
                LeadsAreTheirTasks
  <2>6. FinishingIsComplete' /\ NoTaskWithoutProcess'
    BY DEF TypeOK, TasksAreTheirJobs, FinishingIsComplete, AllReturned,
           NoTaskWithoutProcess
  <2>7. SettledIsLeftAlone'
    BY <2>1 DEF TypeOK, TablesOK, SettledIsLeftAlone
  <2>8. DoneIsComplete'
    BY <2>1 DEF DoneIsComplete, TypeOK, TablesOK
  <2>9. LeadsHaveJobs' /\ OneLeadPerCard'
    BY <2>1 DEF LeadsHaveJobs, OneLeadPerCard
  <2> QED
    BY <2>2, <2>3, <2>4, <2>5, <2>6, <2>7, <2>8, <2>9
<1>6. CASE Cleanup(j)
  <2> USE <1>6 DEF Cleanup
  <2> USE DEF IInv
  <2>1. UNCHANGED tables
    OBVIOUS
  <2>2. TypeOK'
    BY <2>1, StoreIdle DEF TypeOK
  <2>3. RowsAreTheirBatchs'
    BY <2>1 DEF TypeOK, TablesOK, JobRow, RowsAreTheirBatchs, Created
  <2>4. TasksAreTheirJobs'
    BY DEF TypeOK, TasksAreTheirJobs
  <2>5. LeadsAreTheirTasks'
    BY <2>1, SMTT(30) DEF TypeOK, TablesOK, JobRow, LeadRow, LeadsHaveJobs,
                TasksAreTheirJobs, LeadsAreTheirTasks, Recorded, LeadRows
  <2>6. FinishingIsComplete'
    BY DEF TypeOK, TasksAreTheirJobs, FinishingIsComplete, AllReturned
  <2>7. SettledIsLeftAlone' /\ NoTaskWithoutProcess'
    BY <2>1 DEF TypeOK, TablesOK, JobRow, SettledIsLeftAlone, NoTaskWithoutProcess
  <2> QED
    BY <2>1, <2>2, <2>3, <2>4, <2>5, <2>6, <2>7, StoreIdle
<1> QED
  BY <1>1, <1>2, <1>3, <1>4, <1>5, <1>6 DEF RunJob

\* The steps in which something raises.
LEMMA RaisesStep ==
    ASSUME IInv, NEW j \in Jobs, Raises(j)
    PROVE  IInv'
<1>1. CASE SpoolRaises(j)
  <2> USE <1>1 DEF SpoolRaises
  <2> USE DEF IInv
  <2>1. UNCHANGED tables
    OBVIOUS
  <2>2. TypeOK'
    BY <2>1, StoreIdle DEF TypeOK
  <2>3. RowsAreTheirBatchs'
    BY <2>1 DEF TypeOK, TablesOK, JobRow, RowsAreTheirBatchs, Created
  <2>4. TasksAreTheirJobs'
    BY DEF TypeOK, TasksAreTheirJobs
  <2>5. LeadsAreTheirTasks'
    BY <2>1, SMTT(30) DEF TypeOK, TablesOK, JobRow, LeadRow, LeadsHaveJobs,
                TasksAreTheirJobs, LeadsAreTheirTasks, Recorded, LeadRows
  <2>6. FinishingIsComplete'
    BY DEF TypeOK, TasksAreTheirJobs, FinishingIsComplete, AllReturned
  <2>7. SettledIsLeftAlone' /\ NoTaskWithoutProcess'
    BY <2>1 DEF TypeOK, TablesOK, JobRow, SettledIsLeftAlone, NoTaskWithoutProcess
  <2> QED
    BY <2>1, <2>2, <2>3, <2>4, <2>5, <2>6, <2>7, StoreIdle
<1>2. CASE RequestRaises(j)
  <2> USE <1>2 DEF RequestRaises
  <2> USE DEF IInv
  <2>1. UNCHANGED tables
    OBVIOUS
  <2>2. TypeOK'
    BY <2>1, StoreIdle DEF TypeOK
  <2>3. RowsAreTheirBatchs'
    BY <2>1 DEF TypeOK, TablesOK, JobRow, RowsAreTheirBatchs, Created
  <2>4. TasksAreTheirJobs'
    BY DEF TypeOK, TasksAreTheirJobs
  <2>5. LeadsAreTheirTasks'
    BY <2>1, SMTT(30) DEF TypeOK, TablesOK, JobRow, LeadRow, LeadsHaveJobs,
                TasksAreTheirJobs, LeadsAreTheirTasks, Recorded, LeadRows
  <2>6. FinishingIsComplete'
    BY DEF TypeOK, TasksAreTheirJobs, FinishingIsComplete, AllReturned
  <2>7. SettledIsLeftAlone' /\ NoTaskWithoutProcess'
    BY <2>1 DEF TypeOK, TablesOK, JobRow, SettledIsLeftAlone, NoTaskWithoutProcess
  <2> QED
    BY <2>1, <2>2, <2>3, <2>4, <2>5, <2>6, <2>7, StoreIdle
<1>3. CASE StatusRaises(j)
  <2> USE <1>3 DEF StatusRaises
  <2> USE DEF IInv
  <2>1. UNCHANGED tables
    OBVIOUS
  <2>2. TypeOK'
    BY <2>1, StoreIdle DEF TypeOK
  <2>3. RowsAreTheirBatchs'
    BY <2>1 DEF TypeOK, TablesOK, JobRow, RowsAreTheirBatchs, Created
  <2>4. TasksAreTheirJobs'
    BY DEF TypeOK, TasksAreTheirJobs
  <2>5. LeadsAreTheirTasks'
    BY <2>1, SMTT(30) DEF TypeOK, TablesOK, JobRow, LeadRow, LeadsHaveJobs,
                TasksAreTheirJobs, LeadsAreTheirTasks, Recorded, LeadRows
  <2>6. FinishingIsComplete'
    BY DEF TypeOK, TasksAreTheirJobs, FinishingIsComplete, AllReturned
  <2>7. SettledIsLeftAlone' /\ NoTaskWithoutProcess'
    BY <2>1 DEF TypeOK, TablesOK, JobRow, SettledIsLeftAlone, NoTaskWithoutProcess
  <2> QED
    BY <2>1, <2>2, <2>3, <2>4, <2>5, <2>6, <2>7, StoreIdle
<1>4. CASE FailRaises(j)
  <2> USE <1>4 DEF FailRaises
  <2> USE DEF IInv
  <2>1. UNCHANGED tables
    OBVIOUS
  <2>2. TypeOK'
    BY <2>1, StoreIdle DEF TypeOK
  <2>3. RowsAreTheirBatchs'
    BY <2>1 DEF TypeOK, TablesOK, JobRow, RowsAreTheirBatchs, Created
  <2>4. TasksAreTheirJobs'
    BY DEF TypeOK, TasksAreTheirJobs
  <2>5. LeadsAreTheirTasks'
    BY <2>1, SMTT(30) DEF TypeOK, TablesOK, JobRow, LeadRow, LeadsHaveJobs,
                TasksAreTheirJobs, LeadsAreTheirTasks, Recorded, LeadRows
  <2>6. FinishingIsComplete'
    BY DEF TypeOK, TasksAreTheirJobs, FinishingIsComplete, AllReturned
  <2>7. SettledIsLeftAlone' /\ NoTaskWithoutProcess'
    BY <2>1 DEF TypeOK, TablesOK, JobRow, SettledIsLeftAlone, NoTaskWithoutProcess
  <2> QED
    BY <2>1, <2>2, <2>3, <2>4, <2>5, <2>6, <2>7, StoreIdle
<1>5. ASSUME NEW c \in Card, ExtractRaises(j, c) PROVE IInv'
  <2> USE <1>5 DEF ExtractRaises
  <2> USE DEF IInv
  <2>1. UNCHANGED tables
    OBVIOUS
  <2>2. TypeOK'
    BY <2>1, StoreIdle DEF TypeOK
  <2>3. RowsAreTheirBatchs'
    BY <2>1 DEF TypeOK, TablesOK, JobRow, RowsAreTheirBatchs, Created
  <2>4. TasksAreTheirJobs'
    BY DEF TypeOK, TasksAreTheirJobs
  <2>5. LeadsAreTheirTasks'
    BY <2>1, SMTT(30) DEF TypeOK, TablesOK, JobRow, LeadRow, LeadsHaveJobs,
                TasksAreTheirJobs, LeadsAreTheirTasks, Recorded, LeadRows
  <2>6. FinishingIsComplete'
    BY DEF TypeOK, TasksAreTheirJobs, FinishingIsComplete, AllReturned
  <2>7. SettledIsLeftAlone' /\ NoTaskWithoutProcess'
    BY <2>1 DEF TypeOK, TablesOK, JobRow, SettledIsLeftAlone, NoTaskWithoutProcess
  <2> QED
    BY <2>1, <2>2, <2>3, <2>4, <2>5, <2>6, <2>7, StoreIdle
<1>6. ASSUME NEW c \in Card, AppendRaises(j, c) PROVE IInv'
  <2> USE <1>6 DEF AppendRaises
  <2> USE DEF IInv
  <2>1. UNCHANGED tables
    OBVIOUS
  <2>2. TypeOK'
    BY <2>1, StoreIdle DEF TypeOK
  <2>3. RowsAreTheirBatchs'
    BY <2>1 DEF TypeOK, TablesOK, JobRow, RowsAreTheirBatchs, Created
  <2>4. TasksAreTheirJobs'
    BY DEF TypeOK, TasksAreTheirJobs
  <2>5. LeadsAreTheirTasks'
    BY <2>1, SMTT(30) DEF TypeOK, TablesOK, JobRow, LeadRow, LeadsHaveJobs,
                TasksAreTheirJobs, LeadsAreTheirTasks, Recorded, LeadRows
  <2>6. FinishingIsComplete'
    BY DEF TypeOK, TasksAreTheirJobs, FinishingIsComplete, AllReturned
  <2>7. SettledIsLeftAlone' /\ NoTaskWithoutProcess'
    BY <2>1 DEF TypeOK, TablesOK, JobRow, SettledIsLeftAlone, NoTaskWithoutProcess
  <2> QED
    BY <2>1, <2>2, <2>3, <2>4, <2>5, <2>6, <2>7, StoreIdle
<1> QED
  BY <1>1, <1>2, <1>3, <1>4, <1>5, <1>6 DEF Raises

\* The steps of _process_one.
LEMMA ProcessOneStep ==
    ASSUME IInv, RowidsBounded, NEW j \in Jobs, NEW c \in Card, ProcessOne(j, c)
    PROVE  IInv'
<1>1. CASE ReadFile(j, c)
  <2> USE <1>1 DEF ReadFile, Turn
  <2> USE DEF IInv
  <2>1. UNCHANGED tables
    OBVIOUS
  <2>2. TypeOK'
    BY <2>1, StoreIdle DEF TypeOK
  <2>3. RowsAreTheirBatchs'
    BY <2>1 DEF TypeOK, TablesOK, JobRow, RowsAreTheirBatchs, Created
  <2>4. TasksAreTheirJobs'
    BY DEF TypeOK, TasksAreTheirJobs
  <2>5. LeadsAreTheirTasks'
    BY <2>1, SMTT(30) DEF TypeOK, TablesOK, JobRow, LeadRow, LeadsHaveJobs,
                TasksAreTheirJobs, LeadsAreTheirTasks, Recorded, LeadRows
  <2>6. FinishingIsComplete'
    BY DEF TypeOK, TasksAreTheirJobs, FinishingIsComplete, AllReturned
  <2>7. SettledIsLeftAlone' /\ NoTaskWithoutProcess'
    BY <2>1 DEF TypeOK, TablesOK, JobRow, SettledIsLeftAlone, NoTaskWithoutProcess
  <2> QED
    BY <2>1, <2>2, <2>3, <2>4, <2>5, <2>6, <2>7, StoreIdle
<1>2. CASE FileGone(j, c)
  <2> USE <1>2 DEF FileGone, Turn
  <2> USE DEF IInv
  <2>1. UNCHANGED tables
    OBVIOUS
  <2>2. TypeOK'
    BY <2>1, StoreIdle DEF TypeOK
  <2>3. RowsAreTheirBatchs'
    BY <2>1 DEF TypeOK, TablesOK, JobRow, RowsAreTheirBatchs, Created
  <2>4. TasksAreTheirJobs'
    BY DEF TypeOK, TasksAreTheirJobs
  <2>5. LeadsAreTheirTasks'
    BY <2>1, SMTT(30) DEF TypeOK, TablesOK, JobRow, LeadRow, LeadsHaveJobs,
                TasksAreTheirJobs, LeadsAreTheirTasks, Recorded, LeadRows
  <2>6. FinishingIsComplete'
    BY DEF TypeOK, TasksAreTheirJobs, FinishingIsComplete, AllReturned
  <2>7. SettledIsLeftAlone' /\ NoTaskWithoutProcess'
    BY <2>1 DEF TypeOK, TablesOK, JobRow, SettledIsLeftAlone, NoTaskWithoutProcess
  <2> QED
    BY <2>1, <2>2, <2>3, <2>4, <2>5, <2>6, <2>7, StoreIdle
<1>3. ASSUME NEW outcome \in InHand, Extracted(j, c, outcome) PROVE IInv'
  <2> USE <1>3 DEF Extracted
  <2> USE DEF IInv
  <2>1. UNCHANGED tables
    OBVIOUS
  <2>2. TypeOK'
    BY <2>1, StoreIdle DEF TypeOK
  <2>3. RowsAreTheirBatchs'
    BY <2>1 DEF TypeOK, TablesOK, JobRow, RowsAreTheirBatchs, Created
  <2>4. TasksAreTheirJobs'
    BY DEF TypeOK, TasksAreTheirJobs
  <2>5. LeadsAreTheirTasks'
    BY <2>1, SMTT(30) DEF TypeOK, TablesOK, JobRow, LeadRow, LeadsHaveJobs,
                TasksAreTheirJobs, LeadsAreTheirTasks, Recorded, LeadRows
  <2>6. FinishingIsComplete'
    BY DEF TypeOK, TasksAreTheirJobs, FinishingIsComplete, AllReturned
  <2>7. SettledIsLeftAlone' /\ NoTaskWithoutProcess'
    BY <2>1 DEF TypeOK, TablesOK, JobRow, SettledIsLeftAlone, NoTaskWithoutProcess
  <2> QED
    BY <2>1, <2>2, <2>3, <2>4, <2>5, <2>6, <2>7, StoreIdle
<1>4. CASE ClientClosed(j, c)
  <2> USE <1>4 DEF ClientClosed
  <2> USE DEF IInv
  <2>1. UNCHANGED tables
    OBVIOUS
  <2>2. TypeOK'
    BY <2>1, StoreIdle DEF TypeOK
  <2>3. RowsAreTheirBatchs'
    BY <2>1 DEF TypeOK, TablesOK, JobRow, RowsAreTheirBatchs, Created
  <2>4. TasksAreTheirJobs'
    BY DEF TypeOK, TasksAreTheirJobs
  <2>5. LeadsAreTheirTasks'
    BY <2>1, SMTT(30) DEF TypeOK, TablesOK, JobRow, LeadRow, LeadsHaveJobs,
                TasksAreTheirJobs, LeadsAreTheirTasks, Recorded, LeadRows
  <2>6. FinishingIsComplete'
    BY DEF TypeOK, TasksAreTheirJobs, FinishingIsComplete, AllReturned
  <2>7. SettledIsLeftAlone' /\ NoTaskWithoutProcess'
    BY <2>1 DEF TypeOK, TablesOK, JobRow, SettledIsLeftAlone, NoTaskWithoutProcess
  <2> QED
    BY <2>1, <2>2, <2>3, <2>4, <2>5, <2>6, <2>7, StoreIdle
<1>5. CASE RecordLead(j, c)
  <2> USE <1>5 DEF RecordLead
  <2> USE DEF IInv
  <2>1. /\ NextRowid \in Nat \ {0} /\ NextRowid \notin DOMAIN leads
        /\ DOMAIN leads' = DOMAIN leads \cup {NextRowid}
        /\ leads'[NextRowid].job = j /\ leads'[NextRowid].card = c
        /\ \A r \in DOMAIN leads : leads'[r] = leads[r]
        /\ j \in DOMAIN jobs
        /\ UNCHANGED <<sessions, jobs>>
    BY NextRowidIsFresh DEF AppendLead, Insert, LeadAccepted
  <2>2. TablesOK'
    BY AppendLeadKeepsTables DEF TypeOK
  <2>3. TypeOK'
    BY <2>2 DEF TypeOK
  <2>4. RowsAreTheirBatchs' /\ SettledIsLeftAlone' /\ NoTaskWithoutProcess'
    BY <2>1 DEF TypeOK, TablesOK, JobRow, RowsAreTheirBatchs, Created,
                SettledIsLeftAlone, NoTaskWithoutProcess
  <2>5. TasksAreTheirJobs' /\ FinishingIsComplete'
    BY DEF TypeOK, TasksAreTheirJobs, FinishingIsComplete, AllReturned
  <2>6. /\ Recorded(j)' = Recorded(j) \cup {c}
        /\ \A k \in Jobs \ {j} : Recorded(k)' = Recorded(k)
    BY <2>1 DEF Recorded, LeadRows
  \* The lead is the first of its card: had there been one, the task would
  \* have ended.
  <2>7. \A r \in DOMAIN leads : leads[r].job = j => leads[r].card # c
    BY DEF LeadsAreTheirTasks, TasksAreTheirJobs, TypeOK
  <2>8. LeadsAreTheirTasks'
    <3>1. c <= accepted[j] /\ task[j][c] \in InHand /\ task'[j][c] = "ended"
      BY DEF TypeOK, TasksAreTheirJobs
    <3>2. \A r \in DOMAIN leads' :
            /\ leads'[r].card <= accepted'[leads'[r].job]
            /\ \/ task'[leads'[r].job][leads'[r].card] = "ended"
               \/ /\ task'[leads'[r].job][leads'[r].card] = "none"
                  /\ batch'[leads'[r].job] \in Worked
      BY <2>1, <3>1 DEF TypeOK, TablesOK, LeadRow, LeadsAreTheirTasks
    <3>3. \A k \in DOMAIN jobs', d \in Card :
            task'[k][d] = "ended" => d \in Recorded(k)'
      BY <2>1, <2>6 DEF TypeOK, TablesOK, LeadsAreTheirTasks
    <3> QED
      BY <3>2, <3>3 DEF LeadsAreTheirTasks
  <2>9. LeadsHaveJobs'
    BY <2>1 DEF LeadsHaveJobs
  <2>10. OneLeadPerCard'
    BY <2>1, <2>7 DEF OneLeadPerCard
  <2>11. DoneIsComplete'
    \* A job that is done has recorded every card already, this one among them.
    <3>1. jobs[j].status # "done"
      <4>1. c \in 1 .. accepted[j] /\ c \notin Recorded(j)
        BY <2>7 DEF TypeOK, TasksAreTheirJobs, Recorded, LeadRows
      <4> QED
        BY <2>1, <4>1 DEF DoneIsComplete, RowsAreTheirBatchs
    <3> QED
      BY <2>1, <2>6, <3>1 DEF TypeOK, TablesOK, DoneIsComplete
  <2> QED
    BY <2>3, <2>4, <2>5, <2>8, <2>9, <2>10, <2>11
<1>6. CASE JobGone(j, c)
  <2> USE <1>6 DEF JobGone
  <2> USE DEF IInv
  <2>1. UNCHANGED tables
    OBVIOUS
  <2>2. TypeOK'
    BY <2>1, StoreIdle DEF TypeOK
  <2>3. RowsAreTheirBatchs'
    BY <2>1 DEF TypeOK, TablesOK, JobRow, RowsAreTheirBatchs, Created
  <2>4. TasksAreTheirJobs'
    BY DEF TypeOK, TasksAreTheirJobs
  <2>5. LeadsAreTheirTasks'
    BY <2>1, SMTT(30) DEF TypeOK, TablesOK, JobRow, LeadRow, LeadsHaveJobs,
                TasksAreTheirJobs, LeadsAreTheirTasks, Recorded, LeadRows
  <2>6. FinishingIsComplete'
    BY DEF TypeOK, TasksAreTheirJobs, FinishingIsComplete, AllReturned
  <2>7. SettledIsLeftAlone' /\ NoTaskWithoutProcess'
    BY <2>1 DEF TypeOK, TablesOK, JobRow, SettledIsLeftAlone, NoTaskWithoutProcess
  <2> QED
    BY <2>1, <2>2, <2>3, <2>4, <2>5, <2>6, <2>7, StoreIdle
<1> QED
  BY <1>1, <1>2, <1>3, <1>4, <1>5, <1>6 DEF ProcessOne

\* DELETE /api/sessions.
LEMMA ClearHistoryStep ==
    ASSUME IInv, NEW user \in Users, ClearHistory(user)
    PROVE  IInv'
<1> USE DEF IInv, ClearHistory
<1>1. /\ TablesOK'
      /\ DOMAIN jobs' = {j \in DOMAIN jobs : jobs[j].user # user}
      /\ DOMAIN sessions' = {s \in DOMAIN sessions : sessions[s] # user}
      /\ DOMAIN leads' = {r \in DOMAIN leads : leads[r].job \notin JobsOf(user)}
      /\ \A j \in DOMAIN jobs' : jobs'[j] = jobs[j]
      /\ \A s \in DOMAIN sessions' : sessions'[s] = sessions[s]
      /\ \A r \in DOMAIN leads' : leads'[r] = leads[r]
  <2>1. TablesOK
    BY DEF TypeOK
  <2> QED
    BY <2>1, ClearEffect
<1>2. TypeOK'
  BY <1>1 DEF TypeOK
<1>3. RowsAreTheirBatchs'
  BY <1>1 DEF TypeOK, TablesOK, JobRow, RowsAreTheirBatchs, Created
<1>4. TasksAreTheirJobs' /\ FinishingIsComplete' /\ NoTaskWithoutProcess'
  BY DEF TasksAreTheirJobs, FinishingIsComplete, AllReturned, NoTaskWithoutProcess
<1>5. SettledIsLeftAlone'
  BY <1>1 DEF SettledIsLeftAlone
\* A job that stays keeps all its leads.
<1>6. \A j \in DOMAIN jobs' : Recorded(j)' = Recorded(j)
  <2> TAKE j \in DOMAIN jobs'
  <2>1. j \in DOMAIN jobs /\ j \notin JobsOf(user)
    BY <1>1 DEF JobsOf
  <2>2. LeadRows(j)' = LeadRows(j)
    BY <1>1, <2>1 DEF LeadRows
  <2>3. \A r \in LeadRows(j) : leads'[r] = leads[r]
    BY <1>1, <2>2 DEF LeadRows
  <2> QED
    BY <2>2, <2>3 DEF Recorded
<1>7. LeadsAreTheirTasks'
  BY <1>1, <1>6 DEF LeadsAreTheirTasks
<1>8. LeadsHaveJobs'
  BY <1>1 DEF LeadsHaveJobs, JobsOf
<1>9. OneLeadPerCard'
  BY <1>1 DEF OneLeadPerCard
<1>10. DoneIsComplete'
  BY <1>1, <1>6 DEF DoneIsComplete
<1> QED
  BY <1>2, <1>3, <1>4, <1>5, <1>7, <1>8, <1>9, <1>10

\* The process dies, in either way.
LEMMA ProcessEndsStep ==
    ASSUME IInv, Crash \/ Stop
    PROVE  IInv'
<1> USE DEF IInv
<1>1. ProcessEnds
  BY DEF Crash, Stop
<1> USE DEF ProcessEnds
<1>2. UNCHANGED tables
  BY <1>1
<1>3. dir' \subseteq Jobs /\ spool' \in [Jobs -> SUBSET Card]
  <2>1. CASE Crash
    BY <2>1 DEF Crash, TypeOK
  <2>2. CASE Stop
    <3>1. PICK unborn \in SUBSET {j \in Jobs : batch[j] = "scheduled"} :
            LET cancelled == {j \in Jobs : batch[j] \in Working} \ unborn
            IN  /\ dir' = dir \ cancelled
                /\ spool' = [j \in Jobs |-> IF j \in cancelled THEN {} ELSE spool[j]]
      BY <2>2 DEF Stop
    <3> QED
      BY <3>1 DEF TypeOK
  <2> QED
    BY <2>1, <2>2
<1>4. \A j \in Jobs : /\ batch'[j] = CASE batch[j] \in Requesting -> "lost"
                                      [] batch[j] \in Working -> "killed"
                                      [] OTHER -> batch[j]
                     /\ \A c \in Card : task'[j][c] = "none"
  BY <1>1
<1>5. batch' \in [Jobs -> Phase] /\ task' \in [Jobs -> [Card -> TaskState]]
  BY <1>1 DEF TypeOK
<1>6. TypeOK'
  BY <1>1, <1>2, <1>3, <1>5, StoreIdle DEF TypeOK
<1>7. RowsAreTheirBatchs'
  BY <1>1, <1>2, <1>4 DEF TypeOK, TablesOK, JobRow, RowsAreTheirBatchs, Created
<1>8. TasksAreTheirJobs' /\ FinishingIsComplete' /\ NoTaskWithoutProcess'
  BY <1>4 DEF TypeOK, TasksAreTheirJobs, FinishingIsComplete, NoTaskWithoutProcess
<1>9. SettledIsLeftAlone'
  BY <1>2, <1>4 DEF TypeOK, TablesOK, SettledIsLeftAlone
<1>10. LeadsAreTheirTasks'
  \* A lead's batch had a job, so it ends up among those that were worked on.
  <2>1. \A r \in DOMAIN leads :
          /\ leads[r].job \in Jobs /\ leads[r].card \in Card
          /\ batch[leads[r].job] \in Working \cup Worked
    BY DEF TypeOK, TablesOK, LeadRow, LeadsHaveJobs, RowsAreTheirBatchs, Created
  <2>2. \A r \in DOMAIN leads : batch'[leads[r].job] \in Worked
    BY <1>4, <2>1
  <2>3. \A j \in DOMAIN jobs, c \in Card : task'[j][c] # "ended"
    BY <1>4 DEF TypeOK, TablesOK
  <2> QED
    BY <1>1, <1>2, <1>4, <2>1, <2>2, <2>3 DEF LeadsAreTheirTasks, TypeOK, TablesOK,
                                              Recorded, LeadRows
<1> QED
  BY <1>2, <1>6, <1>7, <1>8, <1>9, <1>10, StoreIdle

\* The process starts, and reclaims the jobs that its predecessor left behind.
LEMMA BootStep ==
    ASSUME IInv, Restart \/ Boot
    PROVE  IInv'
<1>1. CASE Restart
  <2> USE <1>1 DEF Restart
  <2> USE DEF IInv
  <2>1. UNCHANGED tables
    OBVIOUS
  <2>2. TypeOK'
    BY <2>1, StoreIdle DEF TypeOK
  <2>3. RowsAreTheirBatchs'
    BY <2>1 DEF TypeOK, TablesOK, JobRow, RowsAreTheirBatchs, Created
  <2>4. TasksAreTheirJobs'
    BY DEF TypeOK, TasksAreTheirJobs
  <2>5. LeadsAreTheirTasks'
    BY <2>1, SMTT(30) DEF TypeOK, TablesOK, JobRow, LeadRow, LeadsHaveJobs,
                TasksAreTheirJobs, LeadsAreTheirTasks, Recorded, LeadRows
  <2>6. FinishingIsComplete'
    BY DEF TypeOK, TasksAreTheirJobs, FinishingIsComplete, AllReturned
  <2>7. SettledIsLeftAlone' /\ NoTaskWithoutProcess'
    BY <2>1 DEF TypeOK, TablesOK, JobRow, SettledIsLeftAlone, NoTaskWithoutProcess
  <2> QED
    BY <2>1, <2>2, <2>3, <2>4, <2>5, <2>6, <2>7, StoreIdle
<1>2. CASE Boot
  <2> USE <1>2 DEF Boot
  <2> USE DEF IInv
  <2>1. /\ TablesOK'
        /\ DOMAIN jobs' = DOMAIN jobs
        /\ \A k \in DOMAIN jobs :
             /\ jobs'[k].user = jobs[k].user
             /\ jobs'[k].session = jobs[k].session
             /\ jobs'[k].total = jobs[k].total
             /\ jobs'[k].status = IF jobs[k].status \in Live
                                  THEN "failed" ELSE jobs[k].status
    BY ReclaimEffect DEF TypeOK
  <2>2. UNCHANGED <<sessions, leads>> /\ \A k \in Jobs : Recorded(k)' = Recorded(k)
    BY DEF ReclaimStaleJobs, Recorded, LeadRows
  <2>3. TypeOK'
    BY <2>1 DEF TypeOK
  <2>4. RowsAreTheirBatchs'
    BY <2>1, <2>2 DEF TypeOK, TablesOK, JobRow, RowsAreTheirBatchs, Created
  <2>5. TasksAreTheirJobs' /\ FinishingIsComplete' /\ NoTaskWithoutProcess'
    BY DEF TasksAreTheirJobs, FinishingIsComplete, AllReturned, NoTaskWithoutProcess
  <2>6. LeadsAreTheirTasks'
    BY <2>1, <2>2 DEF TypeOK, TablesOK, JobRow, LeadRow, LeadsHaveJobs,
                      TasksAreTheirJobs, LeadsAreTheirTasks
  \* No worker is left over from before: a batch that has a job was worked on.
  <2>7. SettledIsLeftAlone'
    BY <2>1 DEF TypeOK, TablesOK, SettledIsLeftAlone, NoTaskWithoutProcess,
                RowsAreTheirBatchs, Created
  <2>8. LeadsHaveJobs' /\ OneLeadPerCard'
    BY <2>1, <2>2 DEF LeadsHaveJobs, OneLeadPerCard
  <2>9. DoneIsComplete'
    BY <2>1, <2>2 DEF TypeOK, TablesOK, DoneIsComplete
  <2> QED
    BY <2>3, <2>4, <2>5, <2>6, <2>7, <2>8, <2>9
<1> QED
  BY <1>1, <1>2

-----------------------------------------------------------------------------
LEMMA InitIInv ==
    ASSUME Init
    PROVE  IInv /\ RowidsBounded
<1> USE DEF Init, StoreInit, NoRows
<1>1. TypeOK
  BY DEF TypeOK, TablesOK
<1>2. /\ RowsAreTheirBatchs /\ TasksAreTheirJobs /\ LeadsAreTheirTasks
      /\ FinishingIsComplete /\ SettledIsLeftAlone /\ NoTaskWithoutProcess
  BY DEF RowsAreTheirBatchs, TasksAreTheirJobs, LeadsAreTheirTasks,
         FinishingIsComplete, SettledIsLeftAlone, NoTaskWithoutProcess
<1>3. LeadsHaveJobs /\ OneLeadPerCard /\ DoneIsComplete
  BY DEF LeadsHaveJobs, OneLeadPerCard, DoneIsComplete
<1>4. DOMAIN leads \subseteq 1 .. 0
  OBVIOUS
<1> QED
  BY <1>1, <1>2, <1>3, <1>4 DEF IInv, RowidsBounded

LEMMA NextKeepsIInv ==
    ASSUME IInv, RowidsBounded, [Next]_vars
    PROVE  IInv'
<1>1. ASSUME NEW j \in Jobs, Request(j) PROVE IInv'
  BY <1>1, RequestStep
<1>2. ASSUME NEW j \in Jobs, RunJob(j) PROVE IInv'
  BY <1>2, RunJobStep
<1>3. ASSUME NEW j \in Jobs, Raises(j) PROVE IInv'
  BY <1>3, RaisesStep
<1>4. ASSUME NEW j \in Jobs, NEW c \in Card, ProcessOne(j, c) PROVE IInv'
  BY <1>4, ProcessOneStep
<1>5. ASSUME NEW user \in Users, ClearHistory(user) PROVE IInv'
  BY <1>5, ClearHistoryStep
<1>6. CASE Crash \/ Stop
  BY <1>6, ProcessEndsStep
<1>7. CASE Restart \/ Boot
  BY <1>7, BootStep
<1>8. CASE UNCHANGED vars
  BY <1>8 DEF vars, IInv, TypeOK, TablesOK, RowsAreTheirBatchs, Created,
              TasksAreTheirJobs, LeadsAreTheirTasks, Recorded, LeadRows,
              FinishingIsComplete, AllReturned, SettledIsLeftAlone,
              NoTaskWithoutProcess, LeadsHaveJobs, OneLeadPerCard, DoneIsComplete
<1> QED
  BY <1>1, <1>2, <1>3, <1>4, <1>5, <1>6, <1>7, <1>8 DEF Next

\* Only an append and a clear change the table of leads.
LEMMA LeadsChange ==
    ASSUME TypeOK, [Next]_vars
    PROVE  \/ UNCHANGED leads
           \/ \E user \in Users : DeleteEverythingFor(user) /\ ClearHistory(user)
           \/ \E j \in Jobs, c \in Card :
                 AppendLead(j, c, task[j][c] = "ok") /\ RecordLead(j, c)
<1>1. ASSUME NEW j \in Jobs, Request(j) PROVE UNCHANGED leads
  BY <1>1 DEF Request, BeginUpload, SpoolFile, NothingAccepted, SpoolEnds,
              UseSession,
              OpenSession, CreateSession, CreateAndSchedule, CreateJob, SessionGone
<1>2. ASSUME NEW j \in Jobs, RunJob(j) PROVE UNCHANGED leads
  BY <1>2 DEF RunJob, StartJob, GatherReturns, GatherRaises, MarkDone, MarkFailed,
              Cleanup, SetStatus
<1>3. ASSUME NEW j \in Jobs, Raises(j) PROVE UNCHANGED leads
  BY <1>3 DEF Raises, SpoolRaises, RequestRaises, StatusRaises, FailRaises,
              ExtractRaises, AppendRaises
<1>4. ASSUME NEW j \in Jobs, NEW c \in Card, ProcessOne(j, c)
      PROVE  UNCHANGED leads \/ RecordLead(j, c)
  BY <1>4 DEF ProcessOne, ReadFile, FileGone, Extracted, ClientClosed, JobGone
<1>5. CASE Crash \/ Stop \/ Restart \/ Boot
  BY <1>5 DEF Crash, Stop, ProcessEnds, Restart, Boot, ReclaimStaleJobs
<1>6. CASE UNCHANGED vars
  BY <1>6 DEF vars
<1> QED
  BY <1>1, <1>2, <1>3, <1>4, <1>5, <1>6 DEF Next, RecordLead, ClearHistory

LEMMA NextKeepsBound ==
    ASSUME TypeOK, RowidsBounded, [Next]_vars
    PROVE  RowidsBounded'
<1>1. CASE UNCHANGED leads
  BY <1>1, BoundKept
<1>2. ASSUME NEW user, DeleteEverythingFor(user) PROVE RowidsBounded'
  <2>1. DOMAIN leads' \subseteq DOMAIN leads
    BY <1>2, ClearEffect DEF TypeOK
  <2> QED
    BY <2>1, BoundKept
<1>3. ASSUME NEW j \in Jobs, NEW c \in Card, AppendLead(j, c, task[j][c] = "ok")
      PROVE  RowidsBounded'
  BY <1>3, BoundKept
<1> QED
  BY <1>1, <1>2, <1>3, LeadsChange

\* The rows of a job, its worker and its tasks always fit together: IInv is
\* inductive, given that rowids have an upper bound.
THEOREM Invariance == Spec => [](IInv /\ RowidsBounded)
<1>1. Init => IInv /\ RowidsBounded
  BY InitIInv
<1>2. IInv /\ RowidsBounded /\ [Next]_vars => (IInv /\ RowidsBounded)'
  <2> SUFFICES ASSUME IInv, RowidsBounded, [Next]_vars
               PROVE  (IInv /\ RowidsBounded)'
    OBVIOUS
  <2>1. IInv'
    BY NextKeepsIInv
  <2>2. RowidsBounded'
    BY NextKeepsBound DEF IInv
  <2> QED
    BY <2>1, <2>2
<1> QED
  BY <1>1, <1>2, PTL DEF Spec

\* Every variable always has its type.
THEOREM TypeCorrect == Spec => []TypeOK
BY Invariance, PTL DEF IInv

\* A job marked done has a lead for every card it accepted, whatever was
\* cleared, failed or restarted on the way (run_job's gather before "done").
THEOREM DoneJobsAreComplete == Spec => []DoneIsComplete
BY Invariance, PTL DEF IInv

\* No card is ever recorded twice (append_lead has no retry, and no worker is
\* started again).
THEOREM CardsAreRecordedOnce == Spec => []OneLeadPerCard
BY Invariance, PTL DEF IInv

\* No lead outlives its job, although cleared jobs have running tasks.
THEOREM NoOrphanLeads == Spec => []LeadsHaveJobs
BY Invariance, PTL DEF IInv

\* In a database created fresh, every job is in a session of its own user.
THEOREM NoOrphanJobs == ASSUME SessionFK PROVE Spec => []JobsHaveSessions
<1>1. IInv => JobsHaveSessions
  BY DEF IInv, TypeOK, TablesOK, JobRow, RowsAreTheirBatchs, JobsHaveSessions,
         SessionOf
<1> QED
  BY <1>1, Invariance, PTL

-----------------------------------------------------------------------------
\* The steps that change the table of jobs, and when.
LEMMA JobsChange ==
    ASSUME TypeOK, [Next]_vars
    PROVE  \/ UNCHANGED jobs
           \/ \E user \in Users : DeleteEverythingFor(user)
           \/ \E j \in Jobs : \E s, n : batch[j] = "creating" /\ CreateJob(j, s, n)
           \/ \E j \in Jobs, status \in Status :
                /\ batch[j] \in {"scheduled", "finishing", "failing"}
                /\ SetStatus(j, status)
           \/ ReclaimStaleJobs
<1>1. ASSUME NEW j \in Jobs, Request(j)
      PROVE  UNCHANGED jobs \/ (batch[j] = "creating" /\ CreateJob(j, session[j], Total(j)))
  BY <1>1 DEF Request, BeginUpload, SpoolFile, NothingAccepted, SpoolEnds,
              UseSession,
              OpenSession, CreateSession, CreateAndSchedule, SessionGone
<1>2. ASSUME NEW j \in Jobs, RunJob(j)
      PROVE  \/ UNCHANGED jobs
             \/ \E status \in Status :
                  /\ batch[j] \in {"scheduled", "finishing", "failing"}
                  /\ SetStatus(j, status)
  BY <1>2 DEF RunJob, StartJob, GatherReturns, GatherRaises, MarkDone, MarkFailed,
              Cleanup
<1>3. ASSUME NEW j \in Jobs, Raises(j) PROVE UNCHANGED jobs
  BY <1>3 DEF Raises, SpoolRaises, RequestRaises, StatusRaises, FailRaises,
              ExtractRaises, AppendRaises
<1>4. ASSUME NEW j \in Jobs, NEW c \in Card, ProcessOne(j, c) PROVE UNCHANGED jobs
  BY <1>4 DEF ProcessOne, ReadFile, FileGone, Extracted, ClientClosed, RecordLead,
              AppendLead, JobGone
<1>5. CASE Crash \/ Stop \/ Restart
  BY <1>5 DEF Crash, Stop, ProcessEnds, Restart
<1>6. CASE UNCHANGED vars
  BY <1>6 DEF vars
<1> QED
  BY <1>1, <1>2, <1>3, <1>4, <1>5, <1>6 DEF Next, ClearHistory, Boot

\* No step ever moves a job out of "done" or "failed": the worker of a settled
\* job has no set_status left to make, and a restart's reclaim passes it over.
THEOREM SettledJobsStaySo == Spec => TerminalIsFinal
<1> DEFINE Final == \A j \in DOMAIN jobs :
                      jobs[j].status \in Terminal /\ j \in DOMAIN jobs'
                          => jobs'[j].status = jobs[j].status
<1>1. ASSUME IInv, [Next]_vars PROVE Final
  <2>1. TypeOK /\ TablesOK
    BY <1>1 DEF IInv, TypeOK
  <2>2. CASE UNCHANGED jobs
    BY <2>2
  <2>3. ASSUME NEW user \in Users, DeleteEverythingFor(user) PROVE Final
    BY <2>1, <2>3, ClearEffect
  <2>4. ASSUME NEW j \in Jobs, NEW s, NEW n, batch[j] = "creating", CreateJob(j, s, n)
        PROVE  Final
    <3>1. j \notin DOMAIN jobs
      BY <1>1, <2>4 DEF IInv, RowsAreTheirBatchs, Created
    <3> QED
      BY <2>4, <3>1 DEF CreateJob, Insert
  <2>5. ASSUME NEW j \in Jobs, NEW status \in Status,
               batch[j] \in {"scheduled", "finishing", "failing"}, SetStatus(j, status)
        PROVE  Final
    <3>1. j \in DOMAIN jobs => jobs[j].status \notin Terminal
      BY <1>1, <2>5 DEF IInv, SettledIsLeftAlone
    <3>2. \A k \in DOMAIN jobs :
            jobs'[k].status = IF k = j THEN status ELSE jobs[k].status
      BY <2>1, <2>5, SetStatusEffect
    <3> QED
      BY <3>1, <3>2
  <2>6. CASE ReclaimStaleJobs
    BY <2>1, <2>6, ReclaimEffect
  <2> QED
    BY <1>1, <2>1, <2>2, <2>3, <2>4, <2>5, <2>6, JobsChange
<1>2. IInv /\ RowidsBounded /\ [Next]_vars => [Final]_vars
  BY <1>1
<1> QED
  BY <1>2, Invariance, PTL DEF Spec, TerminalIsFinal

\* A lead once recorded stays, unchanged, for as long as its job does.
THEOREM RecordedLeadsAreKept == Spec => LeadsAreKept
<1> DEFINE Kept == \A r \in DOMAIN leads :
                     leads[r].job \in DOMAIN jobs'
                         => r \in DOMAIN leads' /\ leads'[r] = leads[r]
<1>1. ASSUME IInv, RowidsBounded, [Next]_vars PROVE Kept
  <2>1. TypeOK /\ TablesOK
    BY <1>1 DEF IInv, TypeOK
  <2>2. CASE UNCHANGED leads
    BY <2>2
  <2>3. ASSUME NEW user \in Users, DeleteEverythingFor(user) PROVE Kept
    <3>1. /\ DOMAIN jobs' = {j \in DOMAIN jobs : jobs[j].user # user}
          /\ DOMAIN leads' = {r \in DOMAIN leads : leads[r].job \notin JobsOf(user)}
          /\ \A r \in DOMAIN leads' : leads'[r] = leads[r]
      BY <2>1, <2>3, ClearEffect
    <3>2. \A j \in DOMAIN jobs' : j \notin JobsOf(user)
      BY <3>1 DEF JobsOf
    <3> QED
      BY <3>1, <3>2
  <2>4. ASSUME NEW j \in Jobs, NEW c \in Card, AppendLead(j, c, task[j][c] = "ok")
        PROVE  Kept
    BY <1>1, <2>4, NextRowidIsFresh DEF AppendLead, Insert
  <2> QED
    BY <1>1, <2>1, <2>2, <2>3, <2>4, LeadsChange
<1>2. IInv /\ RowidsBounded /\ [Next]_vars => [Kept]_vars
  BY <1>1
<1> QED
  BY <1>2, Invariance, PTL DEF Spec, LeadsAreKept

\* A clear takes everything of one user in one step, and nothing of the others.
THEOREM ClearsAreWhole == Spec => ClearedAtOnce
<1> DEFINE Whole ==
      \A j \in DOMAIN jobs \ DOMAIN jobs' :
         /\ \A s \in DOMAIN sessions' : sessions'[s] # jobs[j].user
         /\ \A k \in DOMAIN jobs : k \in DOMAIN jobs' <=> jobs[k].user # jobs[j].user
         /\ \A r \in DOMAIN leads :
               r \in DOMAIN leads' <=> jobs[leads[r].job].user # jobs[j].user
<1>1. ASSUME IInv, [Next]_vars PROVE Whole
  <2>1. TypeOK /\ TablesOK /\ LeadsHaveJobs
    BY <1>1 DEF IInv, TypeOK
  <2>2. CASE DOMAIN jobs \subseteq DOMAIN jobs'
    BY <2>2
  <2>3. ASSUME NEW user \in Users, DeleteEverythingFor(user) PROVE Whole
    <3>1. /\ DOMAIN jobs' = {j \in DOMAIN jobs : jobs[j].user # user}
          /\ DOMAIN sessions' = {s \in DOMAIN sessions : sessions[s] # user}
          /\ DOMAIN leads' = {r \in DOMAIN leads : leads[r].job \notin JobsOf(user)}
          /\ \A s \in DOMAIN sessions' : sessions'[s] = sessions[s]
      BY <2>1, <2>3, ClearEffect
    <3>2. \A r \in DOMAIN leads : leads[r].job \in JobsOf(user)
                                     <=> jobs[leads[r].job].user = user
      BY <2>1 DEF LeadsHaveJobs, JobsOf
    <3> QED
      BY <3>1, <3>2
  <2>4. CASE UNCHANGED jobs
    BY <2>2, <2>4
  <2>5. ASSUME NEW j, NEW s, NEW n, CreateJob(j, s, n) PROVE Whole
    BY <2>2, <2>5 DEF CreateJob, Insert
  <2>6. ASSUME NEW j, NEW status \in Status, SetStatus(j, status) PROVE Whole
    BY <2>2, <2>6 DEF SetStatus
  <2>7. CASE ReclaimStaleJobs
    BY <2>2, <2>7 DEF ReclaimStaleJobs
  <2> QED
    BY <1>1, <2>1, <2>3, <2>4, <2>5, <2>6, <2>7, JobsChange
<1>2. IInv /\ RowidsBounded /\ [Next]_vars => [Whole]_vars
  BY <1>1
<1> QED
  BY <1>2, Invariance, PTL DEF Spec, ClearedAtOnce

HIDE DEF TaskState, InHand, Holding, NoTasks, handler, tables, TaskAt, Become, MakeDir,
         CleanupDir, RemoveFile

-----------------------------------------------------------------------------
\* What OneFaultStrandsNoJob and DiskIsReleased rest on besides.

\* A batch's directory is there while files are written to it.
SpoolingHasItsDir == \A j \in Jobs : batch[j] = "spooling" => j \in dir

\* A card past extraction has released its file.
ExtractedHasNoFile ==
    \A j \in Jobs, c \in Card :
        task[j][c] \in InHand \cup {"ended", "raised"} => c \notin spool[j]

\* A worker that got past its set_status, or was killed before the last boot,
\* has left its job done or failed.
ReturnedIsSettled ==
    \A j \in DOMAIN jobs :
        /\ batch[j] \in {"cleaning", "ended"} => jobs[j].status \in Terminal
        /\ batch[j] = "killed" /\ server = "serving" => jobs[j].status \in Terminal

\* As long as the row is there a worker fails only by an exception, and escapes
\* only by a second one.
FailureIsAFault ==
    \A j \in DOMAIN jobs :
        /\ batch[j] = "failing" => faults >= 1
        /\ batch[j] = "gathering" /\ SomeRaised(j) => faults >= 1
        /\ batch[j] = "escaped" => faults >= 2

OutcomeInv ==
    /\ SpoolingHasItsDir
    /\ ExtractedHasNoFile
    /\ DiskIsReleased
    /\ ReturnedIsSettled
    /\ FailureIsAFault
    /\ JobCardsBounded

-----------------------------------------------------------------------------
\* What the steps of each actor may do to the tasks, the files and the faults.

\* The steps of a card's task, the raising ones included.
CardStep(j, c) == ProcessOne(j, c) \/ ExtractRaises(j, c) \/ AppendRaises(j, c)

LEMMA CardEffect ==
    ASSUME TypeOK, NEW j \in Jobs, NEW c \in Card, CardStep(j, c)
    PROVE  /\ UNCHANGED <<server, batch, accepted, dir, jobs>>
           /\ \A k \in Jobs, d \in Card : k # j \/ d # c => task'[k][d] = task[k][d]
           /\ \A k \in Jobs : spool'[k] \subseteq spool[k]
           /\ \/ /\ task[j][c] = "waiting" /\ Free(j)
                 /\ task'[j][c] = "extracting" \/ c \notin spool'[j]
                 /\ task'[j][c] \in {"extracting", "flagged"}
              \/ /\ task[j][c] = "extracting"
                 /\ task'[j][c] \in InHand \cup {"raised"}
                 /\ c \notin spool'[j]
              \/ task[j][c] \in InHand /\ task'[j][c] \in {"ended", "raised"}
           /\ faults' >= faults
           /\ task'[j][c] = "raised" =>
                faults' >= 1 \/ ~HasJob(j) \/ batch[j] # "gathering"
<1>1. /\ task \in [Jobs -> [Card -> TaskState]] /\ spool \in [Jobs -> SUBSET Card]
      /\ faults \in Nat
  BY BoundsAssumption DEF TypeOK
<1>2. CASE ReadFile(j, c)
  BY <1>1, <1>2 DEF ReadFile, Turn, TaskAt, Become, tables, handler
<1>3. CASE FileGone(j, c)
  BY <1>1, <1>3 DEF FileGone, Turn, TaskAt, Become, tables, handler
<1>4. CASE \E outcome \in InHand : Extracted(j, c, outcome)
  <2>1. PICK outcome \in InHand : Extracted(j, c, outcome)
    BY <1>4
  <2>2. /\ task' = [task EXCEPT ![j][c] = outcome] /\ task[j][c] = "extracting"
        /\ spool' = [spool EXCEPT ![j] = @ \ {c}]
        /\ UNCHANGED <<server, batch, accepted, dir, jobs, faults>>
    BY <2>1 DEF Extracted, TaskAt, Become, RemoveFile, tables
  <2> QED
    BY <1>1, <2>1, <2>2 DEF InHand
<1>5. CASE ClientClosed(j, c)
  BY <1>1, <1>5 DEF ClientClosed, ClientOpen, TaskAt, Become, RemoveFile, tables
<1>6. CASE RecordLead(j, c)
  BY <1>1, <1>6 DEF RecordLead, AppendLead, Become, handler, InHand
<1>7. CASE JobGone(j, c)
  BY <1>1, <1>7 DEF JobGone, LeadAccepted, Become, tables, handler, InHand
<1>8. CASE ExtractRaises(j, c)
  BY <1>1, <1>8 DEF ExtractRaises, TaskAt, Become, RemoveFile, tables
<1>9. CASE AppendRaises(j, c)
  BY <1>1, <1>9 DEF AppendRaises, Become, tables, handler, InHand
<1> QED
  BY <1>1, <1>2, <1>3, <1>4, <1>5, <1>6, <1>7, <1>8, <1>9
     DEF CardStep, ProcessOne

\* The steps of a request and of run_job, the raising ones included.
BatchRaises(j) ==
    SpoolRaises(j) \/ RequestRaises(j) \/ StatusRaises(j) \/ FailRaises(j)

BatchStep(j) == Request(j) \/ RunJob(j) \/ BatchRaises(j)

LEMMA BatchEffect ==
    ASSUME TypeOK, NEW j \in Jobs, BatchStep(j)
    PROVE  /\ UNCHANGED <<server, leads>> /\ server = "serving"
           /\ \A k \in Jobs \ {j} :
                /\ batch'[k] = batch[k] /\ task'[k] = task[k]
                /\ spool'[k] = spool[k] /\ (k \in dir' <=> k \in dir)
           /\ \A c \in Card : c \in spool'[j] =>
                c \in spool[j] \/ (batch[j] = "spooling" /\ batch'[j] = "spooling")
           /\ \A c \in Card : \/ task'[j][c] = task[j][c]
                              \/ /\ task'[j][c] \in {"waiting", "none"}
                                 /\ batch[j] = "scheduled"
           /\ faults' >= faults
<1>1. /\ task \in [Jobs -> [Card -> TaskState]] /\ spool \in [Jobs -> SUBSET Card]
      /\ batch \in [Jobs -> Phase] /\ faults \in Nat
  BY BoundsAssumption DEF TypeOK
<1>2. CASE Request(j)
  BY <1>1, <1>2 DEF Request, BeginUpload, SpoolFile, NothingAccepted, SpoolEnds,
                    UseSession, OpenSession, CreateSession, CreateAndSchedule,
                    CreateJob, SessionGone, MakeDir, CleanupDir, tables
<1>3. CASE StartJob(j)
  BY <1>1, <1>3 DEF StartJob, SetStatus
<1>4. CASE RunJob(j) /\ ~StartJob(j)
  BY <1>1, <1>4 DEF RunJob, GatherReturns, GatherRaises, MarkDone, MarkFailed,
                    Cleanup, CleanupDir, SetStatus, tables
<1>5. CASE BatchRaises(j)
  BY <1>1, <1>5 DEF BatchRaises, SpoolRaises, RequestRaises, StatusRaises, FailRaises,
                    CleanupDir, tables
<1> QED
  BY <1>2, <1>3, <1>4, <1>5 DEF BatchStep

\* A crash or a stop.
LEMMA EndEffect ==
    ASSUME TypeOK, Crash \/ Stop
    PROVE  /\ UNCHANGED <<jobs, leads, faults>> /\ server' = "down"
           /\ \A j \in Jobs :
                /\ batch'[j] = CASE batch[j] \in Requesting -> "lost"
                                 [] batch[j] \in Working -> "killed"
                                 [] OTHER -> batch[j]
                /\ \A c \in Card : task'[j][c] = "none"
                /\ \/ spool'[j] = spool[j] /\ (j \in dir' <=> j \in dir)
                   \/ spool'[j] = {} /\ j \notin dir'
           /\ dir' \subseteq dir
<1>1. spool \in [Jobs -> SUBSET Card]
  BY DEF TypeOK
<1>2. ProcessEnds
  BY DEF Crash, Stop
<1>3. CASE Crash
  BY <1>2, <1>3 DEF Crash, ProcessEnds, NoTasks, tables
<1>4. CASE Stop
  <2>1. PICK unborn \in SUBSET {j \in Jobs : batch[j] = "scheduled"} :
          LET cancelled == {j \in Jobs : batch[j] \in Working} \ unborn
          IN  /\ dir' = dir \ cancelled
              /\ spool' = [j \in Jobs |-> IF j \in cancelled THEN {} ELSE spool[j]]
    BY <1>4 DEF Stop
  <2>2. /\ \A j \in Jobs : \/ spool'[j] = spool[j] /\ (j \in dir' <=> j \in dir)
                           \/ spool'[j] = {} /\ j \notin dir'
        /\ dir' \subseteq dir
    BY <2>1
  <2> QED
    BY <1>2, <2>2 DEF ProcessEnds, NoTasks, tables
<1> QED
  BY <1>3, <1>4

\* Every step is one of these, a clear, or a start of the process.
LEMMA StepCases ==
    ASSUME [Next]_vars
    PROVE  \/ \E j \in Jobs : BatchStep(j)
           \/ \E j \in Jobs, c \in Card : CardStep(j, c)
           \/ \E user \in Users : ClearHistory(user)
           \/ Crash \/ Stop
           \/ Restart \/ Boot
           \/ UNCHANGED vars
BY DEF Next, Raises, BatchStep, BatchRaises, CardStep

-----------------------------------------------------------------------------
\* Each part of OutcomeInv is kept by every step.

\* A directory is made with the first step of an upload, and goes with its last.
LEMMA SpoolingHasItsDirKept ==
    ASSUME TypeOK, SpoolingHasItsDir, [Next]_vars
    PROVE  SpoolingHasItsDir'
<1> USE DEF SpoolingHasItsDir
<1>1. batch \in [Jobs -> Phase]
  BY DEF TypeOK
<1>2. ASSUME NEW j \in Jobs, BatchStep(j) PROVE SpoolingHasItsDir'
  <2>1. \A k \in Jobs \ {j} : batch'[k] = batch[k] /\ (k \in dir' <=> k \in dir)
    BY <1>2, BatchEffect
  <2>2. batch'[j] = "spooling" => j \in dir'
    BY <1>1, <1>2
       DEF BatchStep, Request, BeginUpload, SpoolFile, NothingAccepted, SpoolEnds,
           UseSession, OpenSession, CreateAndSchedule, SessionGone, RunJob, StartJob,
           GatherReturns, GatherRaises, MarkDone, MarkFailed, Cleanup, BatchRaises,
           SpoolRaises, RequestRaises, StatusRaises, FailRaises, MakeDir
  <2> QED
    BY <2>1, <2>2
<1>3. ASSUME NEW j \in Jobs, NEW c \in Card, CardStep(j, c) PROVE SpoolingHasItsDir'
  BY <1>3, CardEffect
<1>4. ASSUME NEW user \in Users, ClearHistory(user) PROVE SpoolingHasItsDir'
  BY <1>4 DEF ClearHistory, handler
<1>5. CASE Crash \/ Stop
  BY <1>1, <1>5, EndEffect
<1>6. CASE Restart \/ Boot
  BY <1>6 DEF Restart, Boot, handler
<1>7. CASE UNCHANGED vars
  BY <1>7 DEF vars, handler
<1> QED
  BY <1>2, <1>3, <1>4, <1>5, <1>6, <1>7, StepCases

\* _process_one deletes the file before the lead is appended, and files are only
\* written while there are no tasks.
LEMMA ExtractedHasNoFileKept ==
    ASSUME TypeOK, TasksAreTheirJobs, ExtractedHasNoFile, [Next]_vars
    PROVE  ExtractedHasNoFile'
<1> USE DEF ExtractedHasNoFile, InHand
<1>1. ASSUME NEW j \in Jobs, BatchStep(j) PROVE ExtractedHasNoFile'
  <2>1. \A c \in Card : batch[j] = "spooling" => task[j][c] = "none"
    BY DEF TasksAreTheirJobs
  <2> QED
    BY <1>1, <2>1, BatchEffect
<1>2. ASSUME NEW j \in Jobs, NEW c \in Card, CardStep(j, c) PROVE ExtractedHasNoFile'
  <2>1. /\ \A k \in Jobs, d \in Card : k # j \/ d # c => task'[k][d] = task[k][d]
        /\ \A k \in Jobs : spool'[k] \subseteq spool[k]
    BY <1>2, CardEffect
  <2>2. task'[j][c] \in InHand \cup {"ended", "raised"} => c \notin spool'[j]
    BY <1>2, CardEffect
  <2> QED
    BY <2>1, <2>2
<1>3. ASSUME NEW user \in Users, ClearHistory(user) PROVE ExtractedHasNoFile'
  BY <1>3 DEF ClearHistory, handler
<1>4. CASE Crash \/ Stop
  BY <1>4, EndEffect
<1>5. CASE Restart \/ Boot
  BY <1>5 DEF Restart, Boot, handler
<1>6. CASE UNCHANGED vars
  BY <1>6 DEF vars, handler
<1> QED
  BY <1>1, <1>2, <1>3, <1>4, <1>5, <1>6, StepCases

\* The directory of an upload is deleted by whatever step ends it, and its files
\* with it; and a lead is appended after its file is gone.
LEMMA DiskIsReleasedKept ==
    ASSUME IInv, ExtractedHasNoFile, SpoolingHasItsDir, DiskIsReleased, [Next]_vars
    PROVE  DiskIsReleased'
<1> USE DEF DiskIsReleased
<1>1. /\ TypeOK /\ batch \in [Jobs -> Phase] /\ spool \in [Jobs -> SUBSET Card]
      /\ dir \subseteq Jobs
      /\ \A r \in DOMAIN leads : /\ leads[r].job \in Jobs /\ leads[r].card \in Card
                                 /\ Created(leads[r].job)
  BY DEF IInv, TypeOK, TablesOK, LeadRow, LeadsHaveJobs, RowsAreTheirBatchs
<1>2. ASSUME NEW j \in Jobs, BatchStep(j) PROVE DiskIsReleased'
  <2>1. /\ UNCHANGED leads
        /\ \A k \in Jobs \ {j} : /\ batch'[k] = batch[k] /\ spool'[k] = spool[k]
                                 /\ k \in dir' <=> k \in dir
        /\ \A c \in Card : c \in spool'[j] =>
             c \in spool[j] \/ (batch[j] = "spooling" /\ batch'[j] = "spooling")
    BY <1>1, <1>2, BatchEffect
  <2>2. /\ dir' \subseteq Jobs
        /\ spool' \in [Jobs -> SUBSET Card]
        /\ j \in dir' => batch'[j] \in Requesting \cup Working \cup
                                      {"errored", "lost", "killed"}
        /\ spool'[j] # {} => j \in dir'
    <3>1. /\ j \in dir => batch[j] \in Requesting \cup Working \cup
                                      {"errored", "lost", "killed"}
          /\ spool[j] # {} => j \in dir
          /\ batch[j] = "spooling" => j \in dir
      BY DEF SpoolingHasItsDir
    <3> HIDE DEF DiskIsReleased
    <3>2. CASE BeginUpload(j)
      BY <1>1, <3>1, <3>2 DEF BeginUpload, MakeDir
    <3>3. CASE SpoolFile(j)
      BY <1>1, <3>1, <3>3 DEF SpoolFile, RoomForOne, TypeOK
    <3>4. CASE CleanupDir(j) /\ batch' \in [Jobs -> Phase]
      BY <1>1, <3>1, <3>4 DEF CleanupDir
    <3>5. CASE /\ UNCHANGED <<dir, spool>>
               /\ batch[j] \in Requesting \cup Working
               /\ batch'[j] \in Requesting \cup Working \cup {"errored"}
      BY <1>1, <3>1, <3>5
    <3>6. CASE Request(j)
      BY <1>1, <3>2, <3>3, <3>4, <3>5, <3>6
         DEF Request, NothingAccepted, SpoolEnds, UseSession, OpenSession,
             CreateAndSchedule, SessionGone
    <3>7. CASE RunJob(j)
      BY <1>1, <3>4, <3>5, <3>7
         DEF RunJob, StartJob, GatherReturns, GatherRaises, MarkDone, MarkFailed,
             Cleanup
    <3>8. CASE BatchRaises(j)
      BY <1>1, <3>4, <3>5, <3>8
         DEF BatchRaises, SpoolRaises, RequestRaises, StatusRaises, FailRaises
    <3> QED
      BY <1>2, <3>6, <3>7, <3>8 DEF BatchStep
  <2>3. \A r \in DOMAIN leads' : leads'[r].card \notin spool'[leads'[r].job]
    BY <1>1, <2>1 DEF Created
  <2> QED
    BY <1>1, <2>1, <2>2, <2>3
<1>3. ASSUME NEW j \in Jobs, NEW c \in Card, CardStep(j, c) PROVE DiskIsReleased'
  <2>1. UNCHANGED <<batch, dir>> /\ \A k \in Jobs : spool'[k] \subseteq spool[k]
    BY <1>1, <1>3, CardEffect
  <2>2. \/ UNCHANGED leads
        \/ RecordLead(j, c)
    BY <1>3 DEF CardStep, ProcessOne, ReadFile, FileGone, Extracted, ClientClosed,
                JobGone, ExtractRaises, AppendRaises, tables
  <2>3. ASSUME RecordLead(j, c)
        PROVE  \A r \in DOMAIN leads' :
                 \/ r \in DOMAIN leads /\ leads'[r] = leads[r]
                 \/ leads'[r].job = j /\ leads'[r].card = c /\ c \notin spool[j]
    BY <2>3 DEF RecordLead, AppendLead, Insert, ExtractedHasNoFile
  <2>4. \A r \in DOMAIN leads' : leads'[r].card \notin spool'[leads'[r].job]
    BY <1>1, <2>1, <2>2, <2>3
  <2> QED
    BY <2>1, <2>4
<1>4. ASSUME NEW user \in Users, ClearHistory(user) PROVE DiskIsReleased'
  <2>1. /\ UNCHANGED <<batch, dir, spool>> /\ DOMAIN leads' \subseteq DOMAIN leads
        /\ \A r \in DOMAIN leads' : leads'[r] = leads[r]
    <3>1. TablesOK
      BY <1>1 DEF TypeOK
    <3>2. DeleteEverythingFor(user) /\ UNCHANGED <<batch, dir, spool>>
      BY <1>4 DEF ClearHistory, handler
    <3> QED
      BY <3>1, <3>2, ClearEffect
  <2> QED
    BY <2>1
<1>5. CASE Crash \/ Stop
  BY <1>1, <1>5, EndEffect
<1>6. CASE Restart \/ Boot
  BY <1>6 DEF Restart, Boot, ReclaimStaleJobs, handler, tables
<1>7. CASE UNCHANGED vars
  BY <1>7 DEF vars, handler
<1> QED
  BY <1>2, <1>3, <1>4, <1>5, <1>6, <1>7, StepCases

\* Only set_status takes a worker to its cleanup, and the next process marks what
\* a killed one left behind.
LEMMA ReturnedIsSettledKept ==
    ASSUME IInv, ReturnedIsSettled, [Next]_vars
    PROVE  ReturnedIsSettled'
<1> USE DEF ReturnedIsSettled
<1>1. /\ TypeOK /\ TablesOK
      /\ batch \in [Jobs -> Phase] /\ DOMAIN jobs \subseteq Jobs
  BY DEF IInv, TypeOK, TablesOK
<1>2. ASSUME NEW j \in Jobs, BatchStep(j) PROVE ReturnedIsSettled'
  <2>1. /\ server = "serving" /\ server' = "serving"
        /\ \A k \in Jobs \ {j} : batch'[k] = batch[k]
    BY <1>1, <1>2, BatchEffect
  <2>2. CASE UNCHANGED jobs
    <3>1. batch'[j] \in {"cleaning", "ended", "killed"} =>
            batch[j] \in {"cleaning", "ended", "killed"}
              \/ ((MarkDone(j) \/ MarkFailed(j)) /\ batch'[j] = "cleaning")
      BY <1>1, <1>2
         DEF BatchStep, Request, BeginUpload, SpoolFile, NothingAccepted, SpoolEnds,
             UseSession, OpenSession, CreateAndSchedule, SessionGone, RunJob,
             StartJob, GatherReturns, GatherRaises, MarkDone, MarkFailed, Cleanup,
             BatchRaises, SpoolRaises, RequestRaises, StatusRaises, FailRaises
    <3>2. MarkDone(j) \/ MarkFailed(j)
            => \A k \in DOMAIN jobs : k = j => jobs'[k].status \in Terminal
      <4>1. ASSUME NEW status \in Terminal, SetStatus(j, status)
            PROVE  \A k \in DOMAIN jobs : k = j => jobs'[k].status \in Terminal
        BY <1>1, <4>1, SetStatusEffect
      <4> QED
        BY <4>1 DEF MarkDone, MarkFailed
    <3> QED
      BY <1>1, <2>1, <2>2, <3>1, <3>2
  <2>3. CASE ~UNCHANGED jobs
    <3>1. \/ CreateAndSchedule(j)
          \/ StartJob(j) \/ MarkDone(j) \/ MarkFailed(j)
      BY <1>2, <2>3
         DEF BatchStep, Request, BeginUpload, SpoolFile, NothingAccepted, SpoolEnds,
             UseSession, OpenSession, CreateSession, SessionGone, RunJob,
             GatherReturns, GatherRaises, Cleanup, BatchRaises, SpoolRaises,
             RequestRaises, StatusRaises, FailRaises, tables
    <3>2. CASE CreateAndSchedule(j)
      <4>1. \A k \in DOMAIN jobs' : k # j => k \in DOMAIN jobs /\ jobs'[k] = jobs[k]
        BY <3>2 DEF CreateAndSchedule, CreateJob, Insert
      <4>2. batch'[j] = "scheduled"
        BY <1>1, <3>2 DEF CreateAndSchedule
      <4> QED
        BY <1>1, <2>1, <4>1, <4>2
           DEF CreateAndSchedule, CreateJob, Insert
    <3>3. ASSUME NEW status \in Status, SetStatus(j, status),
                 status \in Terminal \/ batch'[j] = "gathering"
          PROVE  ReturnedIsSettled'
      <4>1. /\ DOMAIN jobs' = DOMAIN jobs
            /\ \A k \in DOMAIN jobs :
                 jobs'[k].status = IF k = j THEN status ELSE jobs[k].status
        BY <1>1, <3>3, SetStatusEffect
      <4> QED
        BY <1>1, <2>1, <3>3, <4>1
    <3> QED
      BY <1>1, <3>1, <3>2, <3>3 DEF StartJob, MarkDone, MarkFailed
  <2> QED
    BY <2>2, <2>3
<1>3. ASSUME NEW j \in Jobs, NEW c \in Card, CardStep(j, c) PROVE ReturnedIsSettled'
  BY <1>1, <1>3, CardEffect
<1>4. ASSUME NEW user \in Users, ClearHistory(user) PROVE ReturnedIsSettled'
  <2>1. /\ DOMAIN jobs' \subseteq DOMAIN jobs
        /\ \A j \in DOMAIN jobs' : jobs'[j] = jobs[j]
    BY <1>1, <1>4, ClearEffect DEF ClearHistory
  <2> QED
    BY <1>4, <2>1 DEF ClearHistory, handler
<1>5. CASE Crash \/ Stop
  BY <1>1, <1>5, EndEffect
<1>6. CASE Restart
  BY <1>6 DEF Restart, handler, tables
<1>7. CASE Boot
  <2>1. /\ DOMAIN jobs' = DOMAIN jobs
        /\ \A k \in DOMAIN jobs :
             /\ jobs[k].status \in Status
             /\ jobs'[k].status = IF jobs[k].status \in Live
                                  THEN "failed" ELSE jobs[k].status
    BY <1>1, <1>7, ReclaimEffect DEF Boot, TablesOK, JobRow
  <2> QED
    BY <2>1
<1>8. CASE UNCHANGED vars
  BY <1>8 DEF vars, handler
<1> QED
  BY <1>2, <1>3, <1>4, <1>5, <1>6, <1>7, <1>8, StepCases

\* A worker goes to its except clause with an exception, and past it with another.
\* What raises without one is a task whose client was closed, which has run into
\* a gather that failed before, or a task whose job is gone.
LEMMA FailureIsAFaultKept ==
    ASSUME IInv, FailureIsAFault, [Next]_vars
    PROVE  FailureIsAFault'
<1> USE DEF FailureIsAFault
<1>1. /\ TypeOK /\ TablesOK
      /\ batch \in [Jobs -> Phase] /\ DOMAIN jobs \subseteq Jobs
      /\ faults \in Nat /\ accepted \in [Jobs -> 0 .. MaxCards]
  BY BoundsAssumption DEF IInv, TypeOK, TablesOK
<1>2. ASSUME NEW j \in Jobs, BatchStep(j) PROVE FailureIsAFault'
  <2>1. /\ \A k \in Jobs \ {j} : batch'[k] = batch[k] /\ task'[k] = task[k]
        /\ \A c \in Card : \/ task'[j][c] = task[j][c]
                           \/ task'[j][c] \in {"waiting", "none"}
        /\ faults' >= faults
    BY <1>1, <1>2, BatchEffect
  <2>2. faults' \in Nat
    BY <1>1, <1>2
       DEF BatchStep, Request, BeginUpload, SpoolFile, NothingAccepted, SpoolEnds,
           UseSession, OpenSession, CreateAndSchedule, SessionGone, RunJob, StartJob,
           GatherReturns, GatherRaises, MarkDone, MarkFailed, Cleanup, BatchRaises,
           SpoolRaises, RequestRaises, StatusRaises, FailRaises
  <2>3. \A k \in DOMAIN jobs' :
          k \in DOMAIN jobs \/ (k = j /\ batch'[j] = "scheduled")
    BY <1>1, <1>2
       DEF BatchStep, Request, BeginUpload, SpoolFile, NothingAccepted, SpoolEnds,
           UseSession, OpenSession, CreateSession, CreateAndSchedule, CreateJob,
           Insert, SessionGone, RunJob, StartJob, GatherReturns, GatherRaises,
           MarkDone, MarkFailed, Cleanup, SetStatus, BatchRaises, SpoolRaises,
           RequestRaises, StatusRaises, FailRaises, tables
  <2>4. /\ accepted' \in [Jobs -> 0 .. MaxCards]
        /\ \A k \in Jobs \ {j} : accepted'[k] = accepted[k]
    <3>1. UNCHANGED accepted \/ SpoolFile(j)
      BY <1>2
         DEF BatchStep, Request, BeginUpload, NothingAccepted, SpoolEnds, UseSession,
             OpenSession, CreateAndSchedule, SessionGone, RunJob, StartJob,
             GatherReturns, GatherRaises, MarkDone, MarkFailed, Cleanup, BatchRaises,
             SpoolRaises, RequestRaises, StatusRaises, FailRaises
    <3> QED
      BY <1>1, <3>1 DEF SpoolFile, RoomForOne
  <2>5. \A k \in Jobs \ {j} : SomeRaised(k)' => SomeRaised(k)
    BY <1>1, <2>1, <2>4 DEF SomeRaised
  \* The upload's own worker.
  <2>6. j \in DOMAIN jobs =>
          /\ batch'[j] = "failing" => faults' >= 1
          /\ batch'[j] = "gathering" => ~SomeRaised(j)'
          /\ batch'[j] = "escaped" => faults' >= 2
    <3>1. batch'[j] = "failing" =>
            batch[j] = "failing" \/ GatherRaises(j) \/ faults' = faults + 1
      BY <1>1, <1>2
         DEF BatchStep, Request, BeginUpload, SpoolFile, NothingAccepted, SpoolEnds,
             UseSession, OpenSession, CreateAndSchedule, SessionGone, RunJob,
             StartJob, GatherReturns, MarkDone, MarkFailed, Cleanup,
             BatchRaises, SpoolRaises, RequestRaises, StatusRaises, FailRaises
    <3>2. GatherRaises(j) /\ j \in DOMAIN jobs => faults >= 1
      BY DEF GatherRaises
    <3>3. batch'[j] = "escaped" => batch[j] = "failing" /\ faults' = faults + 1
      BY <1>1, <1>2
         DEF BatchStep, Request, BeginUpload, SpoolFile, NothingAccepted, SpoolEnds,
             UseSession, OpenSession, CreateAndSchedule, SessionGone, RunJob,
             StartJob, GatherReturns, GatherRaises, MarkDone, MarkFailed, Cleanup,
             BatchRaises, SpoolRaises, RequestRaises, StatusRaises, FailRaises
    <3>4. batch'[j] = "gathering" => StartJob(j)
      BY <1>1, <1>2
         DEF BatchStep, Request, BeginUpload, SpoolFile, NothingAccepted, SpoolEnds,
             UseSession, OpenSession, CreateAndSchedule, SessionGone, RunJob,
             GatherReturns, GatherRaises, MarkDone, MarkFailed, Cleanup,
             BatchRaises, SpoolRaises, RequestRaises, StatusRaises, FailRaises
    <3>5. StartJob(j) => ~SomeRaised(j)'
      BY <1>1 DEF StartJob, SomeRaised, TypeOK
    <3> QED
      BY <1>1, <2>1, <2>2, <3>1, <3>2, <3>3, <3>4, <3>5
  <2> QED
    BY <1>1, <2>1, <2>2, <2>3, <2>5, <2>6
<1>3. ASSUME NEW j \in Jobs, NEW c \in Card, CardStep(j, c) PROVE FailureIsAFault'
  <2>1. /\ UNCHANGED <<batch, accepted, jobs>>
        /\ \A k \in Jobs, d \in Card : k # j \/ d # c => task'[k][d] = task[k][d]
        /\ faults' >= faults
        /\ task'[j][c] = "raised" =>
             faults' >= 1 \/ ~HasJob(j) \/ batch[j] # "gathering"
    BY <1>1, <1>3, CardEffect
  <2>2. faults' \in Nat
    BY <1>1, <1>3
       DEF CardStep, ProcessOne, ReadFile, FileGone, Extracted, ClientClosed,
           RecordLead, JobGone, ExtractRaises, AppendRaises
  <2>3. \A k \in DOMAIN jobs :
          batch[k] = "gathering" /\ SomeRaised(k)' => faults' >= 1
    <3> SUFFICES ASSUME NEW k \in DOMAIN jobs, batch[k] = "gathering", SomeRaised(k)'
                 PROVE  faults' >= 1
      OBVIOUS
    <3>1. PICK d \in 1 .. accepted[k] : task'[k][d] = "raised"
      BY <2>1 DEF SomeRaised
    <3>2. d \in Card /\ k \in Jobs
      BY <1>1
    <3>3. CASE k = j /\ d = c
      BY <2>1, <3>1, <3>3
    <3>4. CASE k # j \/ d # c
      <4>1. SomeRaised(k)
        BY <2>1, <3>1, <3>2, <3>4 DEF SomeRaised
      <4> QED
        BY <1>1, <2>1, <2>2, <4>1
    <3> QED
      BY <3>3, <3>4
  <2> QED
    BY <1>1, <2>1, <2>2, <2>3
<1>4. ASSUME NEW user \in Users, ClearHistory(user) PROVE FailureIsAFault'
  <2>1. DOMAIN jobs' \subseteq DOMAIN jobs
    BY <1>1, <1>4, ClearEffect DEF ClearHistory
  <2> QED
    BY <1>4, <2>1 DEF ClearHistory, SomeRaised, handler
<1>5. CASE Crash \/ Stop
  <2>1. /\ UNCHANGED <<jobs, faults>>
        /\ \A j \in Jobs : /\ batch'[j] \notin {"failing", "gathering"}
                           /\ batch'[j] = "escaped" => batch[j] = "escaped"
    BY <1>1, <1>5, EndEffect
  <2> QED
    BY <1>1, <2>1
<1>6. CASE Restart \/ Boot
  BY <1>6 DEF Restart, Boot, ReclaimStaleJobs, SomeRaised, handler, tables
<1>7. CASE UNCHANGED vars
  BY <1>7 DEF vars, SomeRaised, handler
<1> QED
  BY <1>2, <1>3, <1>4, <1>5, <1>6, <1>7, StepCases

\* The semaphore lets a task in only while there is room, and no other step makes
\* a task hold it.
LEMMA JobCardsBoundedKept ==
    ASSUME TypeOK, JobCardsBounded, [Next]_vars
    PROVE  JobCardsBounded'
<1> USE DEF JobCardsBounded
<1>1. /\ task \in [Jobs -> [Card -> TaskState]] /\ MaxConcurrency \in Nat
      /\ MaxConcurrency >= 1
  BY MaxConcurrencyAssumption DEF TypeOK
<1>2. \A j \in Jobs : IsFiniteSet(Holders(j))
  <2> TAKE j \in Jobs
  <2>1. IsFiniteSet(Card)
    BY FS_Interval
  <2>2. Holders(j) \in SUBSET Card
    BY DEF Holders
  <2> HIDE DEF Card
  <2> QED
    BY <2>1, <2>2, FS_Subset
\* No more holders than before.
<1>3. ASSUME \A j \in Jobs : Holders(j)' \subseteq Holders(j)
      PROVE  JobCardsBounded'
  <2> TAKE j \in Jobs
  <2>1. Cardinality(Holders(j)') <= Cardinality(Holders(j))
    BY <1>2, <1>3, FS_Subset
  <2>2. Cardinality(Holders(j)) \in Nat /\ Cardinality(Holders(j)') \in Nat
    BY <1>2, <1>3, FS_Subset, FS_CardinalityType
  <2> QED
    BY <1>1, <2>1, <2>2
<1>4. ASSUME NEW j \in Jobs, BatchStep(j) PROVE JobCardsBounded'
  <2>1. \A k \in Jobs : Holders(k)' \subseteq Holders(k)
    BY <1>4, BatchEffect DEF Holders, Holding, InHand
  <2> QED
    BY <1>3, <2>1
<1>5. ASSUME NEW j \in Jobs, NEW c \in Card, CardStep(j, c) PROVE JobCardsBounded'
  <2>1. \A k \in Jobs, d \in Card : k # j \/ d # c => task'[k][d] = task[k][d]
    BY <1>5, CardEffect
  <2>2. CASE task[j][c] = "waiting" /\ Free(j)
    <3>1. \A k \in Jobs \ {j} : Holders(k)' = Holders(k)
      BY <2>1 DEF Holders
    <3>2. Holders(j)' \subseteq Holders(j) \cup {c}
      BY <2>1 DEF Holders
    <3>3. /\ IsFiniteSet(Holders(j) \cup {c})
          /\ Cardinality(Holders(j) \cup {c}) <= Cardinality(Holders(j)) + 1
          /\ Cardinality(Holders(j)) \in Nat
      <4>1. /\ IsFiniteSet(Holders(j) \cup {c})
            /\ Cardinality(Holders(j) \cup {c}) =
                 IF c \in Holders(j) THEN Cardinality(Holders(j))
                 ELSE Cardinality(Holders(j)) + 1
        BY <1>2, FS_AddElement
      <4>2. Cardinality(Holders(j)) \in Nat
        BY <1>2, FS_CardinalityType
      <4> QED
        BY <4>1, <4>2
    <3>4. /\ Cardinality(Holders(j)') <= Cardinality(Holders(j) \cup {c})
          /\ IsFiniteSet(Holders(j)')
      BY <3>2, <3>3, FS_Subset
    <3>5. /\ Cardinality(Holders(j)') \in Nat
          /\ Cardinality(Holders(j) \cup {c}) \in Nat
      BY <3>3, <3>4, FS_CardinalityType
    <3>6. Cardinality(Holders(j)) < MaxConcurrency
      BY <2>2 DEF Free
    <3>7. Cardinality(Holders(j)') <= MaxConcurrency
      BY <1>1, <3>3, <3>4, <3>5, <3>6
    <3> QED
      BY <3>1, <3>7
  <2>3. CASE task[j][c] \in Holding
    <3>1. \A k \in Jobs : Holders(k)' \subseteq Holders(k)
      BY <2>1, <2>3 DEF Holders
    <3> QED
      BY <1>3, <3>1
  <2> QED
    BY <1>5, <2>2, <2>3, CardEffect DEF Holding
<1>6. CASE \/ (\E user \in Users : ClearHistory(user))
           \/ Restart \/ Boot \/ UNCHANGED vars
  <2>1. UNCHANGED task
    BY <1>6 DEF ClearHistory, Restart, Boot, vars
  <2>2. \A k \in Jobs : Holders(k)' \subseteq Holders(k)
    BY <2>1 DEF Holders
  <2> QED
    BY <1>3, <2>2
<1>7. CASE Crash \/ Stop
  <2>1. \A k \in Jobs : Holders(k)' \subseteq Holders(k)
    BY <1>7, EndEffect DEF Holders, Holding, InHand
  <2> QED
    BY <1>3, <2>1
<1> QED
  BY <1>4, <1>5, <1>6, <1>7, StepCases

LEMMA InitOutcome ==
    ASSUME Init
    PROVE  OutcomeInv
<1>1. /\ SpoolingHasItsDir /\ ExtractedHasNoFile /\ DiskIsReleased
      /\ ReturnedIsSettled /\ FailureIsAFault
  BY DEF Init, StoreInit, NoRows, NoTasks, InHand, SpoolingHasItsDir,
         ExtractedHasNoFile, DiskIsReleased, ReturnedIsSettled, FailureIsAFault
<1>2. JobCardsBounded
  <2>1. \A j \in Jobs : Holders(j) = {}
    BY DEF Init, NoTasks, Holders, Holding, InHand
  <2> QED
    BY <2>1, FS_EmptySet, MaxConcurrencyAssumption DEF JobCardsBounded
<1> QED
  BY <1>1, <1>2 DEF OutcomeInv

\* OutcomeInv is inductive, given IInv.
THEOREM OutcomeInvariance == Spec => []OutcomeInv
<1>1. Init => OutcomeInv
  BY InitOutcome
<1>2. IInv /\ OutcomeInv /\ [Next]_vars => OutcomeInv'
  <2> SUFFICES ASSUME IInv, OutcomeInv, [Next]_vars
               PROVE  OutcomeInv'
    OBVIOUS
  <2>1. TypeOK /\ TasksAreTheirJobs
    BY DEF IInv
  <2> QED
    BY <2>1, SpoolingHasItsDirKept, ExtractedHasNoFileKept, DiskIsReleasedKept,
       ReturnedIsSettledKept, FailureIsAFaultKept, JobCardsBoundedKept
       DEF OutcomeInv
<1> QED
  BY <1>1, <1>2, Invariance, PTL DEF Spec

\* Once its worker has returned, or the request was refused, nothing of an upload
\* is left on disk, and a card with a lead has released its file, whatever fails
\* or is stopped (the finally clause of run_job, the handler's cleanup).
THEOREM DiskReleased == Spec => []DiskIsReleased
BY OutcomeInvariance, PTL DEF OutcomeInv

\* A job never holds more cards than its semaphore has room for.
THEOREM SemaphoreHolds == Spec => []JobCardsBounded
BY OutcomeInvariance, PTL DEF OutcomeInv

\* While the process serves, and unless two exceptions struck, a job that says it
\* is queued or running has a worker that will move it.
THEOREM OneFaultIsHarmless == Spec => []OneFaultStrandsNoJob
<1>1. IInv /\ OutcomeInv => OneFaultStrandsNoJob
  <2> SUFFICES ASSUME IInv, OutcomeInv, server = "serving", faults < 2,
                      NEW j \in DOMAIN jobs, jobs[j].status \in Live
               PROVE  batch[j] \in Working
    BY DEF OneFaultStrandsNoJob
  <2>1. Created(j) /\ faults \in Nat
    BY BoundsAssumption DEF IInv, RowsAreTheirBatchs, TypeOK
  <2>2. batch[j] \notin {"ended", "killed"}
    BY DEF OutcomeInv, ReturnedIsSettled
  <2>3. batch[j] # "escaped"
    BY <2>1 DEF OutcomeInv, FailureIsAFault
  <2> QED
    BY <2>1, <2>2, <2>3 DEF Created
<1> QED
  BY <1>1, Invariance, OutcomeInvariance, PTL

-----------------------------------------------------------------------------
\* What Contract makes of a job: its phase and its number of cards.
PhaseOf(j) ==
    IF HasJob(j)
    THEN IF jobs[j].status \in Live THEN "open" ELSE jobs[j].status
    ELSE IF batch[j] \in Working \cup Worked THEN "gone" ELSE "none"
TotalOf(j) == IF HasJob(j) THEN jobs[j].total ELSE 0

-----------------------------------------------------------------------------
\* The contract's steps, in these terms.

LEMMA Stutter ==
    ASSUME \A j \in Jobs : /\ PhaseOf(j)' = PhaseOf(j)
                           /\ TotalOf(j)' = TotalOf(j)
                           /\ Recorded(j)' = Recorded(j)
    PROVE  UNCHANGED Contract!vars
<1>1. UNCHANGED [j \in Jobs |-> PhaseOf(j)]
  OBVIOUS
<1>2. UNCHANGED [j \in Jobs |-> TotalOf(j)]
  OBVIOUS
<1>3. UNCHANGED [j \in Jobs |-> Recorded(j)]
  OBVIOUS
<1> QED
  BY <1>1, <1>2, <1>3 DEF Contract!vars, PhaseOf, TotalOf

LEMMA FailMaps ==
    ASSUME NEW S \in SUBSET Jobs,
           \A j \in S : PhaseOf(j) = "open",
           \A j \in Jobs : /\ PhaseOf(j)' = IF j \in S THEN "failed" ELSE PhaseOf(j)
                           /\ TotalOf(j)' = TotalOf(j)
                           /\ Recorded(j)' = Recorded(j)
    PROVE  Contract!Fail(S)
<1>1. [j \in Jobs |-> PhaseOf(j)]' =
        [j \in Jobs |-> IF j \in S THEN "failed" ELSE PhaseOf(j)]
  OBVIOUS
<1>2. UNCHANGED [j \in Jobs |-> TotalOf(j)]
  OBVIOUS
<1>3. UNCHANGED [j \in Jobs |-> Recorded(j)]
  OBVIOUS
<1> QED
  BY <1>1, <1>2, <1>3 DEF Contract!Fail, PhaseOf, TotalOf

LEMMA FinishMaps ==
    ASSUME NEW j \in Jobs, PhaseOf(j) = "open", Recorded(j) = 1 .. TotalOf(j),
           \A k \in Jobs : /\ PhaseOf(k)' = IF k = j THEN "done" ELSE PhaseOf(k)
                           /\ TotalOf(k)' = TotalOf(k)
                           /\ Recorded(k)' = Recorded(k)
    PROVE  Contract!Finish(j)
<1>1. [k \in Jobs |-> PhaseOf(k)]' =
        [[k \in Jobs |-> PhaseOf(k)] EXCEPT ![j] = "done"]
  OBVIOUS
<1>2. UNCHANGED [k \in Jobs |-> TotalOf(k)]
  OBVIOUS
<1>3. UNCHANGED [k \in Jobs |-> Recorded(k)]
  OBVIOUS
<1> QED
  BY <1>1, <1>2, <1>3 DEF Contract!Finish, PhaseOf, TotalOf

LEMMA RecordMaps ==
    ASSUME NEW j \in Jobs, PhaseOf(j) \in {"open", "failed"},
           NEW c \in 1 .. TotalOf(j) \ Recorded(j),
           \A k \in Jobs : /\ PhaseOf(k)' = PhaseOf(k)
                           /\ TotalOf(k)' = TotalOf(k)
                           /\ Recorded(k)' = IF k = j THEN Recorded(k) \cup {c}
                                             ELSE Recorded(k)
    PROVE  Contract!Record(j)
<1>1. [k \in Jobs |-> Recorded(k)]' =
        [[k \in Jobs |-> Recorded(k)] EXCEPT ![j] = @ \cup {c}]
  OBVIOUS
<1>2. UNCHANGED [k \in Jobs |-> PhaseOf(k)]
  OBVIOUS
<1>3. UNCHANGED [k \in Jobs |-> TotalOf(k)]
  OBVIOUS
<1> QED
  BY <1>1, <1>2, <1>3 DEF Contract!Record, PhaseOf, TotalOf

LEMMA OpenMaps ==
    ASSUME NEW j \in Jobs, PhaseOf(j) = "none", NEW n \in 1 .. MaxCards,
           \A k \in Jobs : /\ PhaseOf(k)' = IF k = j THEN "open" ELSE PhaseOf(k)
                           /\ TotalOf(k)' = IF k = j THEN n ELSE TotalOf(k)
                           /\ Recorded(k)' = Recorded(k)
    PROVE  Contract!Open(j)
<1> DEFINE phase == [k \in Jobs |-> PhaseOf(k)]
           total == [k \in Jobs |-> TotalOf(k)]
           recorded == [k \in Jobs |-> Recorded(k)]
           dropped == {k \in Jobs : phase[k] \in {"done", "failed"}}
<1>1. phase[j] = "none"
  OBVIOUS
<1>2. \E S \in SUBSET dropped, m \in 1 .. MaxCards :
        /\ S # {} => FALSE
        /\ phase' = [k \in Jobs |-> IF k = j THEN "open"
                                    ELSE IF k \in S THEN "gone" ELSE phase[k]]
        /\ total' = [k \in Jobs |-> IF k = j THEN m
                                    ELSE IF k \in S THEN 0 ELSE total[k]]
        /\ recorded' = [k \in Jobs |-> IF k \in S THEN {} ELSE recorded[k]]
  <2>1. {} \in SUBSET dropped
    OBVIOUS
  <2>2. phase' = [k \in Jobs |-> IF k = j THEN "open"
                                 ELSE IF k \in {} THEN "gone" ELSE phase[k]]
    OBVIOUS
  <2>3. total' = [k \in Jobs |-> IF k = j THEN n
                                 ELSE IF k \in {} THEN 0 ELSE total[k]]
    OBVIOUS
  <2>4. recorded' = [k \in Jobs |-> IF k \in {} THEN {} ELSE recorded[k]]
    OBVIOUS
  <2> HIDE DEF phase, total, recorded, dropped
  <2> QED
    BY <2>1, <2>2, <2>3, <2>4
<1> QED
  BY <1>1, <1>2 DEF Contract!Open, PhaseOf, TotalOf

LEMMA ClearMaps ==
    ASSUME NEW user \in Users, NEW S \in SUBSET Jobs,
           S = {j \in Jobs : Owner[j] = user /\ PhaseOf(j) # "none"},
           \A j \in Jobs :
             /\ PhaseOf(j)' = IF j \in S THEN "gone" ELSE PhaseOf(j)
             /\ TotalOf(j)' = IF j \in S THEN 0 ELSE TotalOf(j)
             /\ Recorded(j)' = IF j \in S THEN {} ELSE Recorded(j)
    PROVE  Contract!Clear(user)
<1>1. [j \in Jobs |-> PhaseOf(j)]' =
        [j \in Jobs |-> IF j \in S THEN "gone" ELSE PhaseOf(j)]
  OBVIOUS
<1>2. [j \in Jobs |-> TotalOf(j)]' =
        [j \in Jobs |-> IF j \in S THEN 0 ELSE TotalOf(j)]
  OBVIOUS
<1>3. [j \in Jobs |-> Recorded(j)]' =
        [j \in Jobs |-> IF j \in S THEN {} ELSE Recorded(j)]
  OBVIOUS
<1>4. S = {j \in Jobs : Owner[j] = user /\ [k \in Jobs |-> PhaseOf(k)][j] # "none"}
  OBVIOUS
<1> QED
  BY <1>1, <1>2, <1>3, <1>4 DEF Contract!Clear, Contract!Gone, PhaseOf, TotalOf

\* Each of them is a step of the contract.
LEMMA AbstractStep ==
    /\ \A j \in Jobs : Contract!Open(j) \/ Contract!Record(j) \/ Contract!Finish(j)
                       => Contract!Next
    /\ \A S \in SUBSET Jobs : Contract!Fail(S) => Contract!Next
    /\ \A user \in Users : Contract!Clear(user) => Contract!Next
BY DEF Contract!Next

-----------------------------------------------------------------------------
\* The steps of the model.

\* A step that leaves the rows alone, and does not take an upload without a job
\* past its creation, leaves all the contract speaks of alone.
LEMMA IdleMaps ==
    ASSUME UNCHANGED <<jobs, leads>>,
           \A j \in Jobs : ~HasJob(j) => (Created(j)' <=> Created(j))
    PROVE  UNCHANGED Contract!vars
<1>1. \A j \in Jobs : PhaseOf(j)' = PhaseOf(j) /\ TotalOf(j)' = TotalOf(j)
  BY DEF PhaseOf, TotalOf, Created
<1>2. \A j \in Jobs : Recorded(j)' = Recorded(j)
  BY DEF Recorded, LeadRows
<1> QED
  BY <1>1, <1>2, Stutter

LEMMA RequestMaps ==
    ASSUME IInv, NEW j \in Jobs, Request(j)
    PROVE  [Contract!Next]_(Contract!vars)
<1>1. TypeOK /\ TablesOK
  BY DEF IInv, TypeOK
<1>2. batch \in [Jobs -> Phase]
  BY <1>1 DEF TypeOK
<1>3. CASE CreateAndSchedule(j)
  <2>1. /\ j \notin DOMAIN jobs /\ batch[j] = "creating"
        /\ accepted[j] \in 1 .. MaxCards
    <3>1. batch[j] = "creating"
      BY <1>3 DEF CreateAndSchedule
    <3>2. j \notin DOMAIN jobs /\ accepted[j] # 0
      BY <3>1 DEF IInv, RowsAreTheirBatchs, Created
    <3>3. accepted[j] \in 0 .. MaxCards
      BY <1>1 DEF TypeOK
    <3> QED
      BY <3>1, <3>2, <3>3
  <2>2. /\ jobs' = Insert(jobs, j, [user |-> Owner[j], session |-> session[j],
                                    total |-> accepted[j], status |-> "queued"])
        /\ UNCHANGED leads
        /\ batch' = [batch EXCEPT ![j] = "scheduled"]
    BY <1>3 DEF CreateAndSchedule, CreateJob, Total
  <2>3. /\ DOMAIN jobs' = DOMAIN jobs \cup {j}
        /\ jobs'[j].total = accepted[j] /\ jobs'[j].status = "queued"
        /\ \A k \in DOMAIN jobs : k # j /\ jobs'[k] = jobs[k]
    BY <2>1, <2>2 DEF Insert
  <2>4. \A k \in Jobs : Recorded(k)' = Recorded(k)
    BY <2>2 DEF Recorded, LeadRows
  <2>5. PhaseOf(j) = "none"
    BY <2>1 DEF PhaseOf
  <2>6. \A k \in Jobs : /\ PhaseOf(k)' = IF k = j THEN "open" ELSE PhaseOf(k)
                        /\ TotalOf(k)' = IF k = j THEN accepted[j] ELSE TotalOf(k)
    BY <1>2, <2>2, <2>3 DEF PhaseOf, TotalOf
  <2>7. Contract!Open(j)
    BY <2>1, <2>4, <2>5, <2>6, OpenMaps
  <2> QED
    BY <2>7, AbstractStep
<1>4. CASE ~CreateAndSchedule(j)
  <2>1. UNCHANGED <<jobs, leads>>
    BY <1>4 DEF Request, BeginUpload, SpoolFile, NothingAccepted, SpoolEnds,
                UseSession, OpenSession, CreateSession, SessionGone, tables
  <2>2. /\ \A k \in Jobs \ {j} : batch'[k] = batch[k]
        /\ ~Created(j) /\ ~Created(j)'
    BY <1>2, <1>4 DEF Request, BeginUpload, SpoolFile, NothingAccepted, SpoolEnds,
                      UseSession, OpenSession, SessionGone, Created
  <2> QED
    BY <2>1, <2>2, IdleMaps DEF Created
<1> QED
  BY <1>3, <1>4

LEMMA RunJobMaps ==
    ASSUME IInv, NEW j \in Jobs, RunJob(j)
    PROVE  [Contract!Next]_(Contract!vars)
<1>1. TypeOK /\ TablesOK
  BY DEF IInv, TypeOK
<1>2. batch \in [Jobs -> Phase]
  BY <1>1 DEF TypeOK
<1>3. Created(j) /\ Created(j)' /\ \A k \in Jobs \ {j} : batch'[k] = batch[k]
  BY <1>2 DEF RunJob, StartJob, GatherReturns, GatherRaises, MarkDone, MarkFailed,
              Cleanup, Created
\* A set_status moves the phase of its job, if the row is still there.
<1>4. ASSUME NEW status \in Status, SetStatus(j, status)
      PROVE  /\ \A k \in Jobs : HasJob(k)' <=> HasJob(k)
             /\ \A k \in Jobs : /\ TotalOf(k)' = TotalOf(k)
                                /\ Recorded(k)' = Recorded(k)
                                /\ k # j => PhaseOf(k)' = PhaseOf(k)
             /\ ~HasJob(j) => PhaseOf(j)' = PhaseOf(j)
             /\ HasJob(j) => PhaseOf(j)' = IF status \in Live THEN "open" ELSE status
  <2>1. /\ DOMAIN jobs' = DOMAIN jobs
        /\ \A k \in DOMAIN jobs :
             /\ jobs'[k].total = jobs[k].total
             /\ jobs'[k].status = IF k = j THEN status ELSE jobs[k].status
    BY <1>1, <1>4, SetStatusEffect
  <2>2. \A k \in Jobs : Recorded(k)' = Recorded(k)
    BY <1>4 DEF SetStatus, Recorded, LeadRows
  <2> QED
    BY <1>3, <2>1, <2>2 DEF PhaseOf, TotalOf, Created
\* Until then the job was open, for a settled one is left alone.
<1>5. HasJob(j) /\ batch[j] \in {"scheduled", "finishing", "failing"}
        => PhaseOf(j) = "open"
  BY <1>1 DEF IInv, SettledIsLeftAlone, TablesOK, JobRow, PhaseOf
<1>6. CASE StartJob(j)
  <2>1. SetStatus(j, "running") /\ batch[j] = "scheduled"
    BY <1>6 DEF StartJob
  <2>2. \A k \in Jobs : PhaseOf(k)' = PhaseOf(k)
    BY <1>4, <1>5, <2>1
  <2> QED
    BY <1>4, <2>1, <2>2, Stutter
<1>7. CASE MarkFailed(j)
  <2>1. SetStatus(j, "failed") /\ batch[j] = "failing"
    BY <1>7 DEF MarkFailed
  <2>2. CASE HasJob(j)
    <3>1. \A k \in Jobs : PhaseOf(k)' = IF k \in {j} THEN "failed" ELSE PhaseOf(k)
      BY <1>4, <2>1, <2>2
    <3>2. \A k \in {j} : PhaseOf(k) = "open"
      BY <1>5, <2>1, <2>2
    <3>3. Contract!Fail({j})
      BY <1>4, <2>1, <3>1, <3>2, FailMaps
    <3> QED
      BY <3>3, AbstractStep
  <2>3. CASE ~HasJob(j)
    BY <1>4, <2>1, <2>3, Stutter
  <2> QED
    BY <2>2, <2>3
<1>8. CASE MarkDone(j)
  <2>1. SetStatus(j, "done") /\ batch[j] = "finishing"
    BY <1>8 DEF MarkDone
  <2>2. CASE HasJob(j)
    <3>1. \A k \in Jobs : PhaseOf(k)' = IF k = j THEN "done" ELSE PhaseOf(k)
      BY <1>4, <2>1, <2>2
    <3>2. PhaseOf(j) = "open"
      BY <1>5, <2>1, <2>2
    \* gather returned, so every card of the job has been recorded; the step
    \* keeps DoneIsComplete and writes to the table of jobs only.
    <3>3. Recorded(j) = 1 .. TotalOf(j)
      <4>1. DoneIsComplete'
        BY RunJobStep DEF IInv
      <4>2. j \in DOMAIN jobs' /\ jobs'[j].status = "done"
        <5>1. \A k \in DOMAIN jobs :
                jobs'[k].status = IF k = j THEN "done" ELSE jobs[k].status
          BY <1>1, <2>1, SetStatusEffect
        <5> QED
          BY <1>4, <2>1, <2>2, <5>1
      <4> QED
        BY <1>4, <2>1, <2>2, <4>1, <4>2 DEF DoneIsComplete, TotalOf
    <3>4. Contract!Finish(j)
      BY <1>4, <2>1, <3>1, <3>2, <3>3, FinishMaps
    <3> QED
      BY <3>4, AbstractStep
  <2>3. CASE ~HasJob(j)
    BY <1>4, <2>1, <2>3, Stutter
  <2> QED
    BY <2>2, <2>3
<1>9. CASE GatherReturns(j) \/ GatherRaises(j) \/ Cleanup(j)
  <2>1. UNCHANGED <<jobs, leads>>
    BY <1>9 DEF GatherReturns, GatherRaises, Cleanup, tables
  <2> QED
    BY <1>3, <2>1, IdleMaps DEF Created
<1> QED
  BY <1>6, <1>7, <1>8, <1>9 DEF RunJob

LEMMA RaisesMaps ==
    ASSUME IInv, NEW j \in Jobs, Raises(j)
    PROVE  [Contract!Next]_(Contract!vars)
<1>1. batch \in [Jobs -> Phase]
  BY DEF IInv, TypeOK
<1>2. UNCHANGED <<jobs, leads>>
  BY DEF Raises, SpoolRaises, RequestRaises, StatusRaises, FailRaises,
         ExtractRaises, AppendRaises, tables
<1>3. \A k \in Jobs : Created(k)' <=> Created(k)
  BY <1>1 DEF Raises, SpoolRaises, RequestRaises, StatusRaises, FailRaises,
              ExtractRaises, AppendRaises, handler, Created
<1> QED
  BY <1>2, <1>3, IdleMaps

LEMMA ProcessOneMaps ==
    ASSUME IInv, RowidsBounded, NEW j \in Jobs, NEW c \in Card, ProcessOne(j, c)
    PROVE  [Contract!Next]_(Contract!vars)
<1>1. UNCHANGED <<jobs, batch>>
  BY DEF ProcessOne, ReadFile, FileGone, Extracted, ClientClosed, RecordLead,
         AppendLead, JobGone, tables, handler
<1>2. CASE RecordLead(j, c)
  <2>1. /\ HasJob(j) /\ task[j][c] \in InHand
        /\ NextRowid \notin DOMAIN leads
        /\ leads' = Insert(leads, NextRowid,
                           [job |-> j, card |-> c, ok |-> task[j][c] = "ok"])
    BY <1>2, NextRowidIsFresh DEF RecordLead, AppendLead, LeadAccepted
  <2>2. /\ DOMAIN leads' = DOMAIN leads \cup {NextRowid}
        /\ leads'[NextRowid].job = j /\ leads'[NextRowid].card = c
        /\ \A r \in DOMAIN leads : leads'[r] = leads[r]
    BY <2>1 DEF Insert
  <2>3. \A k \in Jobs : Recorded(k)' = IF k = j THEN Recorded(k) \cup {c}
                                       ELSE Recorded(k)
    BY <2>1, <2>2 DEF Recorded, LeadRows
  <2>4. \A k \in Jobs : PhaseOf(k)' = PhaseOf(k) /\ TotalOf(k)' = TotalOf(k)
    BY <1>1 DEF PhaseOf, TotalOf
  \* The card has no lead yet: its task has not ended.
  <2>5. c \in 1 .. TotalOf(j) /\ c \notin Recorded(j)
    <3>1. c <= accepted[j] /\ TotalOf(j) = accepted[j] /\ accepted[j] \in Nat
      BY <2>1 DEF IInv, TypeOK, TasksAreTheirJobs, RowsAreTheirBatchs, InHand,
                  TotalOf
    <3>2. c \notin Recorded(j)
      BY <2>1 DEF IInv, LeadsAreTheirTasks, Recorded, LeadRows, InHand
    <3> QED
      BY <3>1, <3>2
  \* A job that is done has none left to record.
  <2>6. PhaseOf(j) \in {"open", "failed"}
    <3>1. jobs[j].status # "done"
      BY <2>1, <2>5 DEF IInv, DoneIsComplete, TotalOf
    <3> QED
      BY <2>1, <3>1 DEF IInv, TypeOK, TablesOK, JobRow, PhaseOf
  <2>7. Contract!Record(j)
    BY <2>3, <2>4, <2>5, <2>6, RecordMaps
  <2> QED
    BY <2>7, AbstractStep
<1>3. CASE ~RecordLead(j, c)
  <2>1. UNCHANGED leads
    BY <1>3 DEF ProcessOne, ReadFile, FileGone, Extracted, ClientClosed, JobGone,
                tables
  <2> QED
    BY <1>1, <2>1, IdleMaps DEF Created
<1> QED
  BY <1>2, <1>3

LEMMA ClearHistoryMaps ==
    ASSUME IInv, NEW user \in Users, ClearHistory(user)
    PROVE  [Contract!Next]_(Contract!vars)
<1> PICK S \in SUBSET Jobs :
           S = {j \in Jobs : Owner[j] = user /\ PhaseOf(j) # "none"}
  OBVIOUS
<1>1. TypeOK /\ TablesOK /\ LeadsHaveJobs
  BY DEF IInv, TypeOK
<1>2. /\ DOMAIN jobs' = {j \in DOMAIN jobs : jobs[j].user # user}
      /\ DOMAIN leads' = {r \in DOMAIN leads : leads[r].job \notin JobsOf(user)}
      /\ \A j \in DOMAIN jobs' : jobs'[j] = jobs[j]
      /\ \A r \in DOMAIN leads' : leads'[r] = leads[r]
  BY <1>1, ClearEffect DEF ClearHistory
<1>3. UNCHANGED batch
  BY DEF ClearHistory, handler
<1>4. \A j \in DOMAIN jobs : jobs[j].user = Owner[j] /\ Created(j) /\ j \in Jobs
  BY <1>1 DEF IInv, RowsAreTheirBatchs, TablesOK
<1>5. \A j \in Jobs : PhaseOf(j)' = IF j \in S THEN "gone" ELSE PhaseOf(j)
  BY <1>1, <1>2, <1>3, <1>4 DEF PhaseOf, Created, TablesOK, JobRow
<1>6. \A j \in Jobs : TotalOf(j)' = IF j \in S THEN 0 ELSE TotalOf(j)
  BY <1>1, <1>2, <1>4 DEF TotalOf, PhaseOf, TablesOK, JobRow
<1>7. \A j \in Jobs : Recorded(j)' = IF j \in S THEN {} ELSE Recorded(j)
  <2> TAKE j \in Jobs
  <2>1. LeadRows(j)' = IF j \in JobsOf(user) THEN {} ELSE LeadRows(j)
    BY <1>2 DEF LeadRows
  <2>2. \A r \in LeadRows(j)' : leads'[r] = leads[r]
    BY <1>2 DEF LeadRows
  <2>3. j \in S /\ j \notin JobsOf(user) => LeadRows(j) = {}
    BY <1>1, <1>4 DEF JobsOf, LeadRows, LeadsHaveJobs
  <2>4. j \in JobsOf(user) => j \in S
    BY <1>1, <1>4 DEF JobsOf, PhaseOf, TablesOK, JobRow
  <2> QED
    BY <2>1, <2>2, <2>3, <2>4 DEF Recorded
<1>8. Contract!Clear(user)
  BY <1>5, <1>6, <1>7, ClearMaps
<1> QED
  BY <1>8, AbstractStep

LEMMA ProcessMaps ==
    ASSUME IInv, Crash \/ Stop \/ Restart \/ Boot
    PROVE  [Contract!Next]_(Contract!vars)
<1>1. TypeOK /\ TablesOK
  BY DEF IInv, TypeOK
<1>2. batch \in [Jobs -> Phase]
  BY <1>1 DEF TypeOK
<1>3. CASE Crash \/ Stop \/ Restart
  <2>1. UNCHANGED <<jobs, leads>>
    BY <1>3 DEF Crash, Stop, ProcessEnds, Restart, tables
  \* The workers of created jobs died with the process; a request's never was.
  <2>2. \A j \in Jobs : Created(j)' <=> Created(j)
    BY <1>2, <1>3 DEF Crash, Stop, ProcessEnds, Restart, handler, Created
  <2> QED
    BY <2>1, <2>2, IdleMaps
<1>4. CASE Boot
  <2> PICK S \in SUBSET Jobs : S = {j \in Jobs : PhaseOf(j) = "open"}
    OBVIOUS
  <2>1. /\ DOMAIN jobs' = DOMAIN jobs
        /\ \A k \in DOMAIN jobs :
             /\ jobs'[k].total = jobs[k].total
             /\ jobs'[k].status = IF jobs[k].status \in Live
                                  THEN "failed" ELSE jobs[k].status
    BY <1>1, <1>4, ReclaimEffect DEF Boot
  <2>2. UNCHANGED <<batch, leads>>
    BY <1>4 DEF Boot, ReclaimStaleJobs, handler
  <2>3. \A j \in Jobs : PhaseOf(j)' = IF j \in S THEN "failed" ELSE PhaseOf(j)
    BY <1>1, <2>1, <2>2 DEF PhaseOf, TablesOK, JobRow
  <2>4. \A j \in Jobs : TotalOf(j)' = TotalOf(j) /\ Recorded(j)' = Recorded(j)
    BY <2>1, <2>2 DEF TotalOf, Recorded, LeadRows
  <2>5. Contract!Fail(S)
    BY <2>3, <2>4, FailMaps
  <2> QED
    BY <2>5, AbstractStep
<1> QED
  BY <1>3, <1>4

LEMMA InitMaps ==
    ASSUME Init
    PROVE  Contract!Init
<1>1. \A j \in Jobs : PhaseOf(j) = "none" /\ TotalOf(j) = 0 /\ Recorded(j) = {}
  BY DEF Init, StoreInit, NoRows, PhaseOf, TotalOf, Recorded, LeadRows
<1>2. [j \in Jobs |-> PhaseOf(j)] = [j \in Jobs |-> "none"]
  BY <1>1
<1>3. [j \in Jobs |-> TotalOf(j)] = [j \in Jobs |-> 0]
  BY <1>1
<1>4. [j \in Jobs |-> Recorded(j)] = [j \in Jobs |-> {}]
  BY <1>1
<1> QED
  BY <1>2, <1>3, <1>4 DEF Contract!Init, PhaseOf, TotalOf

-----------------------------------------------------------------------------
\* Whatever is uploaded, cleared, failed, crashed and restarted, and in whatever
\* order the cards' tasks append, the rows of every job behave as the contract
\* says: opened once, each card recorded at most once, "done" only with all of
\* them, "failed" with those there are, and never back once cleared.
THEOREM WorkerImplementsContract == Spec => ImplementsContract
<1>1. Init => Contract!Init
  BY InitMaps
<1>2. IInv /\ RowidsBounded /\ [Next]_vars => [Contract!Next]_(Contract!vars)
  <2> SUFFICES ASSUME IInv, RowidsBounded, [Next]_vars
               PROVE  [Contract!Next]_(Contract!vars)
    OBVIOUS
  <2>1. ASSUME NEW j \in Jobs, Request(j) PROVE [Contract!Next]_(Contract!vars)
    BY <2>1, RequestMaps
  <2>2. ASSUME NEW j \in Jobs, RunJob(j) PROVE [Contract!Next]_(Contract!vars)
    BY <2>2, RunJobMaps
  <2>3. ASSUME NEW j \in Jobs, Raises(j) PROVE [Contract!Next]_(Contract!vars)
    BY <2>3, RaisesMaps
  <2>4. ASSUME NEW j \in Jobs, NEW c \in Card, ProcessOne(j, c)
        PROVE  [Contract!Next]_(Contract!vars)
    BY <2>4, ProcessOneMaps
  <2>5. ASSUME NEW user \in Users, ClearHistory(user)
        PROVE  [Contract!Next]_(Contract!vars)
    BY <2>5, ClearHistoryMaps
  <2>6. CASE Crash \/ Stop \/ Restart \/ Boot
    BY <2>6, ProcessMaps
  <2>7. CASE UNCHANGED vars
    BY <2>7, IdleMaps DEF vars, handler, Created
  <2> QED
    BY <2>1, <2>2, <2>3, <2>4, <2>5, <2>6, <2>7 DEF Next
<1> QED
  BY <1>1, <1>2, Invariance, PTL DEF Spec, ImplementsContract, Contract!Spec
=============================================================================
