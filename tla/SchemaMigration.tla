---------------------------- MODULE SchemaMigration ----------------------------
(***************************************************************************)
(* How a database file gets its present shape: SqliteLeadStore's           *)
(* _ensure_ready and _migrate (app/store.py), called by every store method *)
(* of every server process before its own work.                            *)
(*                                                                         *)
(* A step is one SQL statement.  executescript and the driver commit       *)
(* CREATE and ALTER at once; the first INSERT of the backfill opens a      *)
(* transaction, which the last commit ends and an exception rolls back.    *)
(* Callers of one process share its _ready flag and its lock; processes    *)
(* share only the file, whose write lock a transaction holds.              *)
(***************************************************************************)
EXTENDS Naturals, FiniteSets

CONSTANTS
    Jobs,        \* jobs in a file an earlier version wrote
    Users,
    Owner,       \* job -> the account it belongs to
    Procs,       \* server processes on the one file
    Callers,     \* coroutines that call a store method
    Proc,        \* caller -> its process
    MaxFaults,   \* bound: statements that raise (locked, disk full)
    MaxCrashes,  \* bound: times a process dies
    None

ASSUME OwnerAssumption == Owner \in [Jobs -> Users]
ASSUME ProcAssumption == Proc \in [Callers -> Procs]
ASSUME BoundsAssumption == MaxFaults \in Nat /\ MaxCrashes \in Nat
ASSUME NoneAssumption == None \notin Callers /\ None # "earlier"

VARIABLES
    schema,      \* the tables, columns and indexes there are
    jobs,        \* the old jobs in the file
    sessions,    \* the sessions made for them: <<job, maker>>
    sessionOf,   \* jobs.session_id: the maker of job j's session, None for NULL
    writer,      \* the caller whose transaction is open, or None
    ready,       \* process -> self._ready
    lock,        \* process -> the caller holding self._ready_lock, or None
    pc,          \* caller -> the statement it is at
    orphans,     \* caller -> the jobs its SELECT found without a session
    interrupted, \* a backfill was cut short
    faults, crashes

file == <<schema, jobs, sessions, sessionOf, writer>>
vars == <<file, ready, lock, pc, orphans, interrupted, faults, crashes>>

-----------------------------------------------------------------------------
Tables   == {"sessions", "jobs", "leads"}
Complete == Tables \cup {"leads.image_sha256", "jobs.session_id", "idx_jobs_session"}

\* Files the program has written: none yet, before images, before sessions, now.
\* `Earlier` made the sessions of the last.
Earlier == "earlier"
Files ==
    {[schema |-> {}, jobs |-> {}, made |-> {}],
     [schema |-> {"jobs", "leads"}, jobs |-> Jobs, made |-> {}],
     [schema |-> {"jobs", "leads", "leads.image_sha256"}, jobs |-> Jobs, made |-> {}],
     [schema |-> Complete, jobs |-> Jobs, made |-> Jobs \X {Earlier}]}

\* Inside the lock, in order; then what of it a crash or an exception cuts short.
Inside      == {"script", "alter leads", "inspect jobs", "alter jobs", "orphans",
                "backfill", "index", "commit", "ready"}
Backfilling(c) == pc[c] \in {"orphans", "backfill"} \/ writer = c

MigrationTypeOK ==
    /\ schema \subseteq Complete
    /\ jobs \subseteq Jobs
    /\ sessions \subseteq Jobs \X (Callers \cup {Earlier})
    /\ sessionOf \in [Jobs -> Callers \cup {Earlier, None}]
    /\ writer \in Callers \cup {None}
    /\ ready \in [Procs -> BOOLEAN]
    /\ pc \in [Callers -> {"idle", "locking"} \cup Inside]
    /\ orphans \in [Callers -> SUBSET Jobs]
    /\ interrupted \in BOOLEAN
    /\ faults \in 0 .. MaxFaults /\ crashes \in 0 .. MaxCrashes
    \* Whoever is at work holds the lock of its process.
    /\ lock \in [Procs -> Callers \cup {None}]
    /\ \A c \in Callers : pc[c] \in Inside => lock[Proc[c]] = c
    /\ writer # None => pc[writer] \in {"index", "commit"}

Init ==
    /\ \E f \in Files :
         /\ schema = f.schema /\ jobs = f.jobs /\ sessions = f.made
         /\ sessionOf = [j \in Jobs |-> IF <<j, Earlier>> \in f.made THEN Earlier ELSE None]
    /\ writer = None
    /\ ready = [p \in Procs |-> FALSE]
    /\ lock = [p \in Procs |-> None]
    /\ pc = [c \in Callers |-> "idle"]
    /\ orphans = [c \in Callers |-> {}]
    /\ interrupted = FALSE
    /\ faults = 0 /\ crashes = 0

-----------------------------------------------------------------------------
At(c, step)   == pc[c] = step
Goto(c, step) == pc' = [pc EXCEPT ![c] = step]
Bounds == <<interrupted, faults, crashes>>
Shared == <<ready, lock>>

\* The file's write lock: busy_timeout waits, or raises (Raise).
MayWrite(c) == writer \in {None, c}

Release(c) == lock' = [lock EXCEPT ![Proc[c]] = None]

\* _ensure_ready: the first look at _ready, then the queue for the lock.
Call(c) ==
    /\ At(c, "idle")
    /\ ~ready[Proc[c]]
    /\ Goto(c, "locking")
    /\ UNCHANGED <<file, Shared, orphans, Bounds>>

\* Mutant of LockFree: no lock.
NoLock(p) == TRUE
LockFree(p) == lock[p] = None

\* The second look at _ready, under the lock.
Enter(c) ==
    /\ At(c, "locking")
    /\ LockFree(Proc[c])
    /\ IF ready[Proc[c]] THEN Goto(c, "idle") /\ UNCHANGED lock
       ELSE Goto(c, "script") /\ lock' = [lock EXCEPT ![Proc[c]] = c]
    /\ UNCHANGED <<file, ready, orphans, Bounds>>

\* _SCHEMA: CREATE TABLE IF NOT EXISTS, a table that is new with all its columns.
CreateTable(c, table) ==
    /\ At(c, "script")
    /\ table \notin schema
    /\ MayWrite(c)
    /\ schema' = schema \cup {table} \cup
                   (CASE table = "leads" -> {"leads.image_sha256"}
                      [] table = "jobs" -> {"jobs.session_id"}
                      [] OTHER -> {})
    /\ UNCHANGED <<jobs, sessions, sessionOf, writer, Shared, pc, orphans, Bounds>>

\* PRAGMA table_info(leads).
InspectLeads(c) ==
    /\ At(c, "script")
    /\ Tables \subseteq schema
    /\ Goto(c, IF "leads.image_sha256" \in schema THEN "inspect jobs" ELSE "alter leads")
    /\ UNCHANGED <<file, Shared, orphans, Bounds>>

\* Mutant of AddColumn: a duplicate column is taken for success.
AddColumnOrKeep(column) == schema' = schema \cup {column}
AddColumn(column) == column \notin schema /\ schema' = schema \cup {column}

\* Mutant of AlterLeads: the statement is lost.
SkipLeads(c) ==
    /\ At(c, "alter leads")
    /\ Goto(c, "inspect jobs")
    /\ UNCHANGED <<file, Shared, orphans, Bounds>>
AlterLeads(c) ==
    /\ At(c, "alter leads")
    /\ MayWrite(c)
    /\ AddColumn("leads.image_sha256")
    /\ Goto(c, "inspect jobs")
    /\ UNCHANGED <<jobs, sessions, sessionOf, writer, Shared, orphans, Bounds>>

\* PRAGMA table_info(jobs).
InspectJobs(c) ==
    /\ At(c, "inspect jobs")
    /\ Goto(c, IF "jobs.session_id" \in schema THEN "index" ELSE "alter jobs")
    /\ UNCHANGED <<file, Shared, orphans, Bounds>>

AlterJobs(c) ==
    /\ At(c, "alter jobs")
    /\ MayWrite(c)
    /\ AddColumn("jobs.session_id")
    /\ Goto(c, "orphans")
    /\ UNCHANGED <<jobs, sessions, sessionOf, writer, Shared, orphans, Bounds>>

ReadOrphans(c) ==
    /\ At(c, "orphans")
    /\ LET found == {j \in jobs : sessionOf[j] = None}
       IN  /\ orphans' = [orphans EXCEPT ![c] = found]
           /\ Goto(c, IF found = {} THEN "index" ELSE "backfill")
    /\ UNCHANGED <<file, Shared, Bounds>>

\* The INSERTs and UPDATEs, which nobody else sees before the commit.
Backfill(c) ==
    /\ At(c, "backfill")
    /\ MayWrite(c)
    /\ writer' = c
    /\ Goto(c, "index")
    /\ UNCHANGED <<schema, jobs, sessions, sessionOf, Shared, orphans, Bounds>>

\* CREATE INDEX IF NOT EXISTS, in the transaction if there is one.
CreateIndex(c) ==
    /\ At(c, "index")
    /\ MayWrite(c)
    /\ schema' = IF writer = c THEN schema ELSE schema \cup {"idx_jobs_session"}
    /\ Goto(c, "commit")
    /\ UNCHANGED <<jobs, sessions, sessionOf, writer, Shared, orphans, Bounds>>

\* The transaction's effect: an UPDATE of a job cleared meanwhile matches nothing,
\* but its session is inserted.  Mutant of Commit: closing without a commit.
Forget(c) ==
    /\ At(c, "commit")
    /\ writer' = IF writer = c THEN None ELSE writer
    /\ schema' = IF writer = c THEN schema \cup {"idx_jobs_session"} ELSE schema
    /\ orphans' = [orphans EXCEPT ![c] = {}]
    /\ Goto(c, "ready")
    /\ UNCHANGED <<jobs, sessions, sessionOf, Shared, Bounds>>
Commit(c) ==
    /\ At(c, "commit")
    /\ IF writer = c
       THEN /\ schema' = schema \cup {"idx_jobs_session"}
            /\ sessions' = sessions \cup (orphans[c] \X {c})
            /\ sessionOf' = [j \in Jobs |-> IF j \in orphans[c] \cap jobs THEN c
                                            ELSE sessionOf[j]]
            /\ writer' = None
       ELSE UNCHANGED <<schema, sessions, sessionOf, writer>>
    /\ orphans' = [orphans EXCEPT ![c] = {}]
    /\ Goto(c, "ready")
    /\ UNCHANGED <<jobs, Shared, Bounds>>

SetReady(c) ==
    /\ At(c, "ready")
    /\ ready' = [ready EXCEPT ![Proc[c]] = TRUE]
    /\ Release(c)
    /\ Goto(c, "idle")
    /\ UNCHANGED <<file, orphans, Bounds>>

-----------------------------------------------------------------------------
\* What cuts a migration short.

\* The exception leaves both `async with` blocks: rolled back, the lock released.
\* Mutant of Unwind: the lock is kept.
UnwindKeepingLock(c) ==
    /\ writer' = IF writer = c THEN None ELSE writer
    /\ orphans' = [orphans EXCEPT ![c] = {}]
    /\ Goto(c, "idle")
    /\ UNCHANGED lock
Unwind(c) ==
    /\ writer' = IF writer = c THEN None ELSE writer
    /\ orphans' = [orphans EXCEPT ![c] = {}]
    /\ Goto(c, "idle")
    /\ Release(c)

Raise(c) ==
    /\ pc[c] \in Inside \ {"ready"}
    /\ faults < MaxFaults
    /\ faults' = faults + 1
    /\ interrupted' = (interrupted \/ Backfilling(c))
    /\ Unwind(c)
    /\ UNCHANGED <<schema, jobs, sessions, sessionOf, ready, crashes>>

\* ALTER TABLE: "duplicate column name", another process having added it since.
Duplicate(c) ==
    /\ \/ At(c, "alter leads") /\ "leads.image_sha256" \in schema
       \/ At(c, "alter jobs") /\ "jobs.session_id" \in schema
    /\ Unwind(c)
    /\ UNCHANGED <<schema, jobs, sessions, sessionOf, ready, Bounds>>

\* A process dies and is started again.
Crash(p) ==
    LET dead == {c \in Callers : Proc[c] = p}
    IN  /\ crashes < MaxCrashes
        /\ crashes' = crashes + 1
        /\ interrupted' = (interrupted \/ \E c \in dead : Backfilling(c))
        /\ writer' = IF writer \in dead THEN None ELSE writer
        /\ ready' = [ready EXCEPT ![p] = FALSE]
        /\ lock' = [lock EXCEPT ![p] = None]
        /\ pc' = [c \in Callers |-> IF c \in dead THEN "idle" ELSE pc[c]]
        /\ orphans' = [c \in Callers |-> IF c \in dead THEN {} ELSE orphans[c]]
        /\ UNCHANGED <<schema, jobs, sessions, sessionOf, faults>>

\* DELETE /api/sessions in a process that is ready: another one may be migrating.
ClearHistory(p, user) ==
    /\ ready[p]
    /\ writer = None
    /\ \E j \in jobs : Owner[j] = user
    /\ jobs' = {j \in jobs : Owner[j] # user}
    /\ sessions' = {s \in sessions : Owner[s[1]] # user}
    /\ sessionOf' = [j \in Jobs |-> IF Owner[j] = user THEN None ELSE sessionOf[j]]
    /\ UNCHANGED <<schema, writer, Shared, pc, orphans, Bounds>>

-----------------------------------------------------------------------------
Migrate(c) ==
    \/ Enter(c) \/ (\E table \in Tables : CreateTable(c, table))
    \/ InspectLeads(c) \/ AlterLeads(c) \/ InspectJobs(c) \/ AlterJobs(c)
    \/ ReadOrphans(c) \/ Backfill(c) \/ CreateIndex(c) \/ Commit(c)
    \/ SetReady(c) \/ Duplicate(c)

Next ==
    \/ \E c \in Callers : Call(c) \/ Migrate(c) \/ Raise(c)
    \/ \E p \in Procs : Crash(p) \/ \E user \in Users : ClearHistory(p, user)

Spec == Init /\ [][Next]_vars

\* The event loop runs what is ready, and a process that is not ready is asked
\* again: its lifespan handler calls initialize, and systemd restarts it.
Fairness == \A c \in Callers : WF_vars(Call(c)) /\ WF_vars(Migrate(c))
FairSpec == Spec /\ Fairness

-----------------------------------------------------------------------------
\* The properties.

\* No store method runs against a table without a column its SQL names, whatever
\* version wrote the file and whatever other processes and crashes did to it.
ReadyIsComplete == \A p \in Procs : ready[p] => schema = Complete

\* _migrate, "nothing is stranded outside the new model": once the column exists
\* and nobody is filling it, every old job has a session.  It holds only as long
\* as no backfill was cut short: ALTER TABLE has committed by then, and the next
\* call sees the column and skips the backfill.
OldJobsHaveSessions ==
    "jobs.session_id" \in schema /\ ~interrupted /\ (\A c \in Callers : ~Backfilling(c))
        => \A j \in jobs : <<j, sessionOf[j]>> \in sessions

\* "One session per job": two processes that migrate at once do not both make
\* sessions for the same jobs, which would leave one of each pair empty.
OneSessionPerJob ==
    \A s \in sessions : s[1] \in jobs => sessionOf[s[1]] = s[2]

\* Every process is in the end ready for good: a caller that raises leaves the
\* lock to the next, and two processes do not wait for each other.
BecomesReady == <>[](\A p \in Procs : ready[p])
=============================================================================
