------------------------------ MODULE JobWorker ------------------------------
(***************************************************************************)
(* The life of an upload in one server process: the POST /api/jobs handler *)
(* (app/main.py) spools the files and creates the rows, run_job            *)
(* (app/jobs.py) gathers one _process_one task per card under a semaphore, *)
(* and each card's lead is appended in a transaction of its own.  The      *)
(* owner may clear the history at any time, the store may fail, and the    *)
(* process may crash, be stopped and be started again.                     *)
(*                                                                         *)
(* A step is the code between two awaits.  The batch j is the upload that  *)
(* creates the job j; its cards are numbered in upload order.              *)
(***************************************************************************)
EXTENDS SqliteLeadStore

CONSTANTS
    MaxConcurrency,  \* settings.max_concurrency
    MaxFaults,       \* bound: store transactions and extractions that raise
    MaxCrashes,      \* bound: times the process dies or is stopped
    None             \* no session chosen yet

ASSUME MaxConcurrencyAssumption == MaxConcurrency \in Nat \ {0}
ASSUME BoundsAssumption == MaxFaults \in Nat /\ MaxCrashes \in Nat
ASSUME NoneAssumption == None \notin Jobs

VARIABLES
    server,    \* "booting" | "serving" | "down"
    batch,     \* batch -> how far its request, then its run_job task, has got
    accepted,  \* batch -> files spooled so far: cards 1 .. accepted[j]
    session,   \* batch -> the session resolved for it, or None
    task,      \* batch -> card -> how far its _process_one task has got
    dir,       \* the batches whose directory exists
    spool,     \* batch -> the cards whose file is in it
    faults,    \* exceptions injected so far
    crashes    \* crashes and stops so far

handler == <<batch, accepted, session, dir, spool>>
vars == <<sessions, jobs, leads, server, handler, task, faults, crashes>>

-----------------------------------------------------------------------------
\* The request: spooling, get_session, create_job; then the task: created,
\* in gather, about to set done, about to set failed, about to clean up.
Requesting == {"spooling", "resolving", "creating"}
Working    == {"scheduled", "gathering", "finishing", "failing", "cleaning"}
\* ended: run_job returned; escaped: it raised; killed: the process died first.
Worked     == {"ended", "escaped", "killed"}
\* refused: the upload got a 4xx or its spooling raised; errored: a 500 after
\* spooling; lost: the process died during the request.
Rejected   == {"refused", "errored", "lost"}
Phase      == {"new"} \cup Requesting \cup Working \cup Worked \cup Rejected

\* waiting for the semaphore; extracting; an ok or a flagged lead in hand, to
\* append; ended; raised.
InHand    == {"ok", "flagged"}
Holding   == {"extracting"} \cup InHand
TaskState == {"none", "waiting", "ended", "raised"} \cup Holding

NoTasks == [c \in Card |-> "none"]

TypeOK ==
    /\ TablesOK
    /\ server \in {"booting", "serving", "down"}
    /\ batch \in [Jobs -> Phase]
    /\ accepted \in [Jobs -> 0 .. MaxCards]
    /\ session \in [Jobs -> Jobs \cup {None}]
    /\ task \in [Jobs -> [Card -> TaskState]]
    /\ dir \subseteq Jobs
    /\ spool \in [Jobs -> SUBSET Card]
    /\ faults \in 0 .. MaxFaults
    /\ crashes \in 0 .. MaxCrashes

Init ==
    /\ StoreInit
    /\ server = "booting"
    /\ batch = [j \in Jobs |-> "new"]
    /\ accepted = [j \in Jobs |-> 0]
    /\ session = [j \in Jobs |-> None]
    /\ task = [j \in Jobs |-> NoTasks]
    /\ dir = {}
    /\ spool = [j \in Jobs |-> {}]
    /\ faults = 0
    /\ crashes = 0

-----------------------------------------------------------------------------
At(j, phase)   == server = "serving" /\ batch[j] = phase
Goto(j, phase) == batch' = [batch EXCEPT ![j] = phase]

\* make_batch_dir and cleanup_batch_dir, which takes the files with it.
MakeDir(j) == dir' = dir \cup {j} /\ UNCHANGED spool

\* Mutant of CleanupDir: it is forgotten.
LeaveDir(j) == UNCHANGED <<dir, spool>>
CleanupDir(j) == dir' = dir \ {j} /\ spool' = [spool EXCEPT ![j] = {}]

\* A transaction that raises (locked for five seconds, disk full, I/O error)
\* or an extraction that raises something extract_lead does not catch.
Fault == faults < MaxFaults /\ faults' = faults + 1

-----------------------------------------------------------------------------
\* POST /api/jobs.

BeginUpload(j) ==
    /\ At(j, "new")
    /\ Goto(j, "spooling")
    /\ MakeDir(j)
    /\ UNCHANGED <<tables, server, accepted, session, task, faults, crashes>>

\* The batch is within max_files_per_request.
\* Mutant of RoomForOne: >= written for >.
RoomForTwo(j) == accepted[j] <= MaxCards
RoomForOne(j) == accepted[j] < MaxCards

\* spool_upload of a file that fits.  One that is too large is removed again and
\* only reported, and so changes nothing here.
SpoolFile(j) ==
    /\ At(j, "spooling")
    /\ RoomForOne(j)
    /\ accepted' = [accepted EXCEPT ![j] = @ + 1]
    /\ spool' = [spool EXCEPT ![j] = @ \cup {accepted[j] + 1}]
    /\ UNCHANGED <<tables, server, batch, session, dir, task, faults, crashes>>

\* Any other exception while spooling: clean up and raise.
SpoolRaises(j) ==
    /\ At(j, "spooling")
    /\ Fault
    /\ Goto(j, "refused")
    /\ CleanupDir(j)
    /\ UNCHANGED <<tables, server, accepted, session, task, crashes>>

NothingAccepted(j) ==
    /\ At(j, "spooling")
    /\ accepted[j] = 0
    /\ Goto(j, "refused")
    /\ CleanupDir(j)
    /\ UNCHANGED <<tables, server, accepted, session, task, faults, crashes>>

SpoolEnds(j) ==
    /\ At(j, "spooling")
    /\ accepted[j] > 0
    /\ Goto(j, "resolving")
    /\ UNCHANGED <<tables, server, accepted, session, dir, spool, task,
                   faults, crashes>>

\* The upload names a session the user owns.
UseSession(j, s) ==
    /\ At(j, "resolving")
    /\ SessionOf(s, Owner[j])
    /\ session' = [session EXCEPT ![j] = s]
    /\ Goto(j, "creating")
    /\ UNCHANGED <<tables, server, accepted, dir, spool, task, faults, crashes>>

\* It names none, or one that is unknown, cleared or someone else's.
OpenSession(j) ==
    /\ At(j, "resolving")
    /\ CreateSession(j, Owner[j])
    /\ session' = [session EXCEPT ![j] = j]
    /\ Goto(j, "creating")
    /\ UNCHANGED <<server, accepted, dir, spool, task, faults, crashes>>

\* Mutant of Total: len(files), the rejected ones included.
FilesSent(j) == MaxCards
Total(j) == accepted[j]

\* store.create_job, and schedule_job with no await between.
CreateAndSchedule(j) ==
    /\ At(j, "creating")
    /\ CreateJob(j, session[j], Total(j))
    /\ Goto(j, "scheduled")
    /\ UNCHANGED <<server, accepted, session, dir, spool, task, faults, crashes>>

\* The session was cleared after it was resolved: a foreign-key error, a 500.
SessionGone(j) ==
    /\ At(j, "creating")
    /\ ~SessionAccepted(session[j])
    /\ Goto(j, "errored")
    /\ UNCHANGED <<tables, server, accepted, session, dir, spool, task,
                   faults, crashes>>

\* A store call after spooling raises: a 500 that leaves the directory behind.
RequestRaises(j) ==
    /\ At(j, "resolving") \/ At(j, "creating")
    /\ Fault
    /\ Goto(j, "errored")
    /\ UNCHANGED <<tables, server, accepted, session, dir, spool, task, crashes>>

-----------------------------------------------------------------------------
\* The semaphore of a job.

Holders(j) == {c \in Card : task[j][c] \in Holding}
TaskAt(j, c, state) == server = "serving" /\ task[j][c] = state

\* Mutant of Free: a semaphore of one more.
FreeOrFull(j) == Cardinality(Holders(j)) <= MaxConcurrency
Free(j) == Cardinality(Holders(j)) < MaxConcurrency

\* The semaphore is first come, first served, and the tasks came in upload order.
Turn(j, c) ==
    /\ TaskAt(j, c, "waiting")
    /\ \A d \in 1 .. c - 1 : task[j][d] # "waiting"
    /\ Free(j)

\* A card that leaves the semaphore, by an exception too, wakes the next one, which
\* reads its file before whoever awaits the card's task is told of its end.
SlotsAreTaken(j) == \A c \in Card : ~Turn(j, c)

-----------------------------------------------------------------------------
\* run_job.

\* set_status "running", the semaphore, the client, and the cards' tasks.
StartJob(j) ==
    /\ At(j, "scheduled")
    /\ SetStatus(j, "running")
    /\ Goto(j, "gathering")
    /\ task' = [task EXCEPT ![j] =
                  [c \in Card |-> IF c <= accepted[j] THEN "waiting" ELSE "none"]]
    /\ UNCHANGED <<server, accepted, session, dir, spool, faults, crashes>>

\* Mutant of AllReturned: gather with return_exceptions.
AllReturnedOrRaised(j) ==
    \A c \in 1 .. accepted[j] : task[j][c] \in {"ended", "raised"}
AllReturned(j) == \A c \in 1 .. accepted[j] : task[j][c] = "ended"

\* gather returns once every card's task has; the client is closed.
GatherReturns(j) ==
    /\ At(j, "gathering")
    /\ AllReturned(j)
    /\ Goto(j, "finishing")
    /\ UNCHANGED <<tables, server, accepted, session, dir, spool, task,
                   faults, crashes>>

SomeRaised(j) == \E c \in 1 .. accepted[j] : task[j][c] = "raised"

\* Mutant of GatherRaises: no except clause.
GatherRaisesUncaught(j) ==
    /\ At(j, "gathering")
    /\ SomeRaised(j)
    /\ SlotsAreTaken(j)
    /\ Goto(j, "cleaning")
    /\ UNCHANGED <<tables, server, accepted, session, dir, spool, task,
                   faults, crashes>>

\* gather raises as soon as one task has.  The others are not cancelled; the
\* client they share is closed under them.
GatherRaises(j) ==
    /\ At(j, "gathering")
    /\ SomeRaised(j)
    /\ SlotsAreTaken(j)
    /\ Goto(j, "failing")
    /\ UNCHANGED <<tables, server, accepted, session, dir, spool, task,
                   faults, crashes>>

\* set_status "running" or "done" raises.
StatusRaises(j) ==
    /\ At(j, "scheduled") \/ At(j, "finishing")
    /\ Fault
    /\ Goto(j, "failing")
    /\ UNCHANGED <<tables, server, accepted, session, dir, spool, task, crashes>>

MarkDone(j) ==
    /\ At(j, "finishing")
    /\ SetStatus(j, "done")
    /\ Goto(j, "cleaning")
    /\ UNCHANGED <<server, accepted, session, dir, spool, task, faults, crashes>>

MarkFailed(j) ==
    /\ At(j, "failing")
    /\ SetStatus(j, "failed")
    /\ Goto(j, "cleaning")
    /\ UNCHANGED <<server, accepted, session, dir, spool, task, faults, crashes>>

\* The finally clause.
Cleanup(j) ==
    /\ At(j, "cleaning")
    /\ Goto(j, "ended")
    /\ CleanupDir(j)
    /\ UNCHANGED <<tables, server, accepted, session, task, faults, crashes>>

\* set_status inside the except clause raises: only the finally clause is left.
FailRaises(j) ==
    /\ At(j, "failing")
    /\ Fault
    /\ Goto(j, "escaped")
    /\ CleanupDir(j)
    /\ UNCHANGED <<tables, server, accepted, session, task, crashes>>

-----------------------------------------------------------------------------
\* _process_one.

ClientOpen(j) == batch[j] = "gathering"

Become(j, c, state) == task' = [task EXCEPT ![j][c] = state]

\* The file is deleted whatever the outcome, before the lead is appended.
\* Mutant of RemoveFile: files are left for the cleanup at the end.
LeaveFile(j, c) == UNCHANGED spool
RemoveFile(j, c) == spool' = [spool EXCEPT ![j] = @ \ {c}]

ReadFile(j, c) ==
    /\ Turn(j, c)
    /\ c \in spool[j]
    /\ Become(j, c, "extracting")
    /\ UNCHANGED <<tables, server, handler, faults, crashes>>

\* run_job's cleanup came first: an OSError, and a flagged lead.
FileGone(j, c) ==
    /\ Turn(j, c)
    /\ c \notin spool[j]
    /\ Become(j, c, "flagged")
    /\ UNCHANGED <<tables, server, handler, faults, crashes>>

\* extract_lead returns a lead: ok, or flagged with one of the other statuses.
Extracted(j, c, outcome) ==
    /\ TaskAt(j, c, "extracting")
    /\ Become(j, c, outcome)
    /\ RemoveFile(j, c)
    /\ UNCHANGED <<tables, server, batch, accepted, session, dir, faults, crashes>>

\* A call through the closed client raises a RuntimeError, which is no ModelError.
ClientClosed(j, c) ==
    /\ TaskAt(j, c, "extracting")
    /\ ~ClientOpen(j)
    /\ Become(j, c, "raised")
    /\ RemoveFile(j, c)
    /\ UNCHANGED <<tables, server, batch, accepted, session, dir, faults, crashes>>

ExtractRaises(j, c) ==
    /\ TaskAt(j, c, "extracting")
    /\ Fault
    /\ Become(j, c, "raised")
    /\ RemoveFile(j, c)
    /\ UNCHANGED <<tables, server, batch, accepted, session, dir, crashes>>

\* Mutant of RecordLead: an append that committed is tried again.
RecordLeadAgain(j, c) ==
    /\ server = "serving"
    /\ task[j][c] \in InHand
    /\ AppendLead(j, c, task[j][c] = "ok")
    /\ UNCHANGED <<server, handler, task, faults, crashes>>
RecordLead(j, c) ==
    /\ server = "serving"
    /\ task[j][c] \in InHand
    /\ AppendLead(j, c, task[j][c] = "ok")
    /\ Become(j, c, "ended")
    /\ UNCHANGED <<server, handler, faults, crashes>>

\* The job was cleared: a foreign-key error.
JobGone(j, c) ==
    /\ server = "serving"
    /\ task[j][c] \in InHand
    /\ ~LeadAccepted(j)
    /\ Become(j, c, "raised")
    /\ UNCHANGED <<tables, server, handler, faults, crashes>>

AppendRaises(j, c) ==
    /\ server = "serving"
    /\ task[j][c] \in InHand
    /\ Fault
    /\ Become(j, c, "raised")
    /\ UNCHANGED <<tables, server, handler, crashes>>

-----------------------------------------------------------------------------
\* DELETE /api/sessions.
ClearHistory(user) ==
    /\ server = "serving"
    /\ JobsOf(user) # {} \/ \E s \in DOMAIN sessions : sessions[s] = user
    /\ DeleteEverythingFor(user)
    /\ UNCHANGED <<server, handler, task, faults, crashes>>

\* Every task dies with the process; what is on disk stays.
ProcessEnds ==
    /\ server # "down"
    /\ crashes < MaxCrashes
    /\ server' = "down"
    /\ crashes' = crashes + 1
    /\ batch' = [j \in Jobs |-> CASE batch[j] \in Requesting -> "lost"
                                   [] batch[j] \in Working -> "killed"
                                   [] OTHER -> batch[j]]
    /\ task' = [j \in Jobs |-> NoTasks]
    /\ UNCHANGED <<tables, accepted, session, faults>>

Crash == ProcessEnds /\ UNCHANGED <<dir, spool>>

\* A stop lets the requests finish, then cancels every task.  CancelledError
\* passes the except clause and runs the finally clause, unless the task had not
\* taken its first step.
Stop ==
    /\ server = "serving"
    /\ \A j \in Jobs : batch[j] \notin Requesting
    /\ ProcessEnds
    /\ \E unborn \in SUBSET {j \in Jobs : batch[j] = "scheduled"} :
         LET cancelled == {j \in Jobs : batch[j] \in Working} \ unborn
         IN  /\ dir' = dir \ cancelled
             /\ spool' = [j \in Jobs |-> IF j \in cancelled THEN {} ELSE spool[j]]

\* systemd starts it again.
Restart ==
    /\ server = "down"
    /\ server' = "booting"
    /\ UNCHANGED <<tables, handler, task, faults, crashes>>

\* The lifespan handler, before the first request is served.
Boot ==
    /\ server = "booting"
    /\ ReclaimStaleJobs
    /\ server' = "serving"
    /\ UNCHANGED <<handler, task, faults, crashes>>

-----------------------------------------------------------------------------
Request(j) ==
    \/ BeginUpload(j) \/ SpoolFile(j) \/ NothingAccepted(j) \/ SpoolEnds(j)
    \/ (\E s \in Jobs : UseSession(j, s)) \/ OpenSession(j)
    \/ CreateAndSchedule(j) \/ SessionGone(j)

RunJob(j) ==
    \/ StartJob(j) \/ GatherReturns(j) \/ GatherRaises(j)
    \/ MarkDone(j) \/ MarkFailed(j) \/ Cleanup(j)

ProcessOne(j, c) ==
    \/ ReadFile(j, c) \/ FileGone(j, c)
    \/ (\E outcome \in InHand : Extracted(j, c, outcome)) \/ ClientClosed(j, c)
    \/ RecordLead(j, c) \/ JobGone(j, c)

Raises(j) ==
    \/ SpoolRaises(j) \/ RequestRaises(j) \/ StatusRaises(j) \/ FailRaises(j)
    \/ \E c \in Card : ExtractRaises(j, c) \/ AppendRaises(j, c)

Next ==
    \/ \E j \in Jobs : Request(j) \/ RunJob(j) \/ Raises(j)
                         \/ \E c \in Card : ProcessOne(j, c)
    \/ \E user \in Users : ClearHistory(user)
    \/ Crash \/ Stop \/ Restart \/ Boot

Spec == Init /\ [][Next]_vars

\* The event loop runs what is ready, a store call ends by its busy_timeout, and
\* systemd restarts the process.  A model call ends by its timeout if the server is
\* silent, and else because an answer is finite.  Nothing obliges a user to upload
\* or to clear, nor anything to fail.
Fairness ==
    /\ \A j \in Jobs :
         /\ WF_vars(RunJob(j))
         /\ \A c \in Card : WF_vars(ProcessOne(j, c))
    /\ WF_vars(Restart) /\ WF_vars(Boot)

-----------------------------------------------------------------------------
\* The properties.

\* A job is marked done only when every accepted card has a lead (run_job's
\* gather before set_status "done", whatever is cleared or restarted meanwhile).
DoneIsComplete ==
    \A j \in DOMAIN jobs :
        jobs[j].status = "done" => Recorded(j) = 1 .. jobs[j].total

\* No card is recorded twice: nothing retries an append, and no worker is
\* started again for a job that survived a restart.
OneLeadPerCard ==
    \A q, r \in DOMAIN leads :
        leads[q].job = leads[r].job /\ leads[q].card = leads[r].card => q = r

\* No lead outlives its job, although tasks of a cleared job are still running
\* and go on to append (the foreign key of leads.job_id).
LeadsHaveJobs == \A r \in DOMAIN leads : leads[r].job \in DOMAIN jobs

\* Every job is in a session of its own user, although the history can be
\* cleared between get_session and create_job.
JobsHaveSessions ==
    \A j \in DOMAIN jobs : SessionOf(jobs[j].session, jobs[j].user)

\* A job that claims to be in progress has a task that will move it, after a
\* crash too, unless an exception struck twice: once to fail the job and once
\* in the set_status that was to say so.
OneFaultStrandsNoJob ==
    server = "serving" /\ faults < 2 =>
        \A j \in DOMAIN jobs : jobs[j].status \in Live => batch[j] \in Working

\* run_job's docstring: it never raises, which would leave the job "running".
RunJobNeverRaises == \A j \in Jobs : batch[j] # "escaped"

\* Once its worker has returned, or the request was refused, nothing of an
\* upload is left on disk; and a card with a lead has released its file.
DiskIsReleased ==
    /\ \A j \in dir : batch[j] \in Requesting \cup Working \cup
                                   {"errored", "lost", "killed"}
    /\ \A j \in Jobs : spool[j] # {} => j \in dir
    /\ \A r \in DOMAIN leads : leads[r].card \notin spool[leads[r].job]

\* README, "Failure must be per-item, not per-batch": a card that waits for its
\* turn has its file on disk, whatever became of the cards before it.
WaitingCardsKeepTheirFile ==
    \A j \in Jobs, c \in Card : task[j][c] = "waiting" => c \in spool[j]

\* What the settings, the README and _process_one's comment say MAX_CONCURRENCY
\* bounds: the cards decoded or in the model at once, in the whole process.
CardsInFlightBounded ==
    Cardinality({jc \in Jobs \X Card : task[jc[1]][jc[2]] = "extracting"})
        <= MaxConcurrency

\* What the semaphore bounds: the cards one job holds, a failed job's included.
JobCardsBounded == \A j \in Jobs : Cardinality(Holders(j)) <= MaxConcurrency

\* A job that is done or failed stays so: neither a restart's reclaim nor a
\* late set_status of its own worker moves it again.
TerminalIsFinal ==
    [][\A j \in DOMAIN jobs :
         jobs[j].status \in Terminal /\ j \in DOMAIN jobs'
             => jobs'[j].status = jobs[j].status]_vars

\* A lead once recorded is kept, unchanged, for as long as its job is: through
\* failures of the job, crashes and restarts.
LeadsAreKept ==
    [][\A r \in DOMAIN leads :
         leads[r].job \in DOMAIN jobs'
             => r \in DOMAIN leads' /\ leads'[r] = leads[r]]_vars

\* A job vanishes only together with every session, job and lead of its user,
\* and nobody else's rows change in that step.
ClearedAtOnce ==
    [][\A j \in DOMAIN jobs \ DOMAIN jobs' :
         /\ \A s \in DOMAIN sessions' : sessions'[s] # jobs[j].user
         /\ \A k \in DOMAIN jobs : k \in DOMAIN jobs' <=> jobs[k].user # jobs[j].user
         /\ \A r \in DOMAIN leads :
               r \in DOMAIN leads' <=> jobs[leads[r].job].user # jobs[j].user]_vars

\* A job created is in the end done, failed or cleared: a worker finishes it,
\* or a restart reclaims it.
JobsSettle ==
    \A j \in Jobs :
        HasJob(j) ~> faults >= 2 \/ ~HasJob(j) \/ jobs[j].status \in Terminal

\* A scheduled upload's directory is in the end deleted, unless the process dies.
DiskIsReclaimed ==
    \A j \in Jobs : batch[j] = "scheduled" ~> j \notin dir \/ batch[j] = "killed"

-----------------------------------------------------------------------------
\* The inductive invariant that DoneIsComplete, OneLeadPerCard, LeadsHaveJobs,
\* JobsHaveSessions and TerminalIsFinal rest on.

Created(j) == batch[j] \in Working \cup Worked

\* A row is the one create_job wrote, in a session of the same user.
RowsAreTheirBatchs ==
    /\ \A s \in DOMAIN sessions : sessions[s] = Owner[s]
    /\ \A j \in DOMAIN jobs :
         /\ Created(j)
         /\ jobs[j].total = accepted[j]
         /\ jobs[j].user = Owner[j]
         /\ Owner[jobs[j].session] = Owner[j]
         /\ SessionFK => jobs[j].session \in DOMAIN sessions
    /\ \A j \in Jobs :
         /\ batch[j] \in {"resolving", "creating"} => accepted[j] # 0
         /\ batch[j] = "creating" =>
              session[j] \in Jobs /\ Owner[session[j]] = Owner[j]

\* Tasks exist from StartJob until the process ends, for the accepted cards.
TasksAreTheirJobs ==
    \A j \in Jobs, c \in Card :
        task[j][c] # "none" =>
            /\ c <= accepted[j]
            /\ batch[j] \in (Working \cup Worked) \ {"scheduled", "killed"}

\* A lead's task has ended, or died with the process; and a task that ended has
\* left a lead, unless the job was cleared.
LeadsAreTheirTasks ==
    /\ \A r \in DOMAIN leads :
         /\ leads[r].card <= accepted[leads[r].job]
         /\ \/ task[leads[r].job][leads[r].card] = "ended"
            \/ /\ task[leads[r].job][leads[r].card] = "none"
               /\ batch[leads[r].job] \in Worked
    /\ \A j \in DOMAIN jobs, c \in Card :
         task[j][c] = "ended" => c \in Recorded(j)

\* Only a gather that returned leads to set_status "done".
FinishingIsComplete == \A j \in Jobs : batch[j] = "finishing" => AllReturned(j)

\* The worker of a settled job has nothing left to write to its row.
SettledIsLeftAlone ==
    \A j \in DOMAIN jobs :
        jobs[j].status \in Terminal => batch[j] \in {"cleaning"} \cup Worked

\* No task outlives the process.
NoTaskWithoutProcess ==
    server # "serving" => \A j \in Jobs : batch[j] \notin Requesting \cup Working

IInv ==
    /\ TypeOK
    /\ RowsAreTheirBatchs
    /\ TasksAreTheirJobs
    /\ LeadsAreTheirTasks
    /\ FinishingIsComplete
    /\ SettledIsLeftAlone
    /\ NoTaskWithoutProcess
    /\ LeadsHaveJobs
    /\ OneLeadPerCard
    /\ DoneIsComplete

-----------------------------------------------------------------------------
\* The abstract job, and what this module makes of it.
Contract == INSTANCE JobContract WITH
    phase <- [j \in Jobs |->
                IF HasJob(j)
                THEN IF jobs[j].status \in Live THEN "open" ELSE jobs[j].status
                ELSE IF batch[j] \in Working \cup Worked THEN "gone" ELSE "none"],
    total <- [j \in Jobs |-> IF HasJob(j) THEN jobs[j].total ELSE 0],
    recorded <- [j \in Jobs |-> Recorded(j)],
    forgets <- FALSE

\* The rows of every job behave as one promised to whoever polls it.
ImplementsContract == Contract!Spec
=============================================================================
