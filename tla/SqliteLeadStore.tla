--------------------------- MODULE SqliteLeadStore ---------------------------
(***************************************************************************)
(* The three tables of app/store.py's SqliteLeadStore and its write        *)
(* transactions.                                                           *)
(*                                                                         *)
(* A table is a function from the keys it holds to its rows.  Every method *)
(* of the class opens a connection of its own and runs one transaction, so *)
(* a transaction is one action here; the modules that extend this one say  *)
(* who calls it and when.  Reads are operators.                            *)
(*                                                                         *)
(* An id is a uuid4 and is never issued twice.  The upload j creates the   *)
(* job j and, when it opens a session, the session j, so Jobs is also the  *)
(* set of session ids.                                                     *)
(***************************************************************************)
EXTENDS Naturals, FiniteSets, FiniteSetsExt

CONSTANTS
    Jobs,       \* ids of uploads: the job, and the session it may open
    Users,      \* account ids
    Owner,      \* the account that makes each upload
    MaxCards,   \* most files one upload may carry (max_files_per_request)
    SessionFK   \* jobs.session_id REFERENCES sessions: a database created
                \* fresh has it, one upgraded by ALTER TABLE does not

ASSUME OwnerAssumption     == Owner \in [Jobs -> Users]
ASSUME MaxCardsAssumption  == MaxCards \in Nat \ {0}
ASSUME SessionFKAssumption == SessionFK \in BOOLEAN

VARIABLES
    sessions,   \* session id -> the account that owns it
    jobs,       \* job id -> [user, session, total, status]
    leads       \* rowid -> [job, card, ok]

tables == <<sessions, jobs, leads>>

-----------------------------------------------------------------------------
Card     == 1 .. MaxCards
Live     == {"queued", "running"}
Terminal == {"done", "failed"}
Status   == Live \cup Terminal

JobRow  == [user : Users, session : Jobs, total : Card, status : Status]
\* The card is what source_filename labels; ok is `status = 'ok'`.
LeadRow == [job : Jobs, card : Card, ok : BOOLEAN]

TablesOK ==
    /\ DOMAIN sessions \subseteq Jobs
    /\ \A s \in DOMAIN sessions : sessions[s] \in Users
    /\ sessions = [s \in DOMAIN sessions |-> sessions[s]]
    /\ DOMAIN jobs \subseteq Jobs
    /\ \A j \in DOMAIN jobs : jobs[j] \in JobRow
    /\ jobs = [j \in DOMAIN jobs |-> jobs[j]]
    /\ DOMAIN leads \subseteq Nat \ {0}
    /\ \A r \in DOMAIN leads : leads[r] \in LeadRow
    /\ leads = [r \in DOMAIN leads |-> leads[r]]

\* A table with one more row, and a table without the rows under `keys`.
Insert(table, key, row) ==
    [k \in DOMAIN table \cup {key} |-> IF k = key THEN row ELSE table[k]]
Delete(table, keys) == Restrict(table, DOMAIN table \ keys)

NoRows == [k \in {} |-> k]

StoreInit == sessions = NoRows /\ jobs = NoRows /\ leads = NoRows

-----------------------------------------------------------------------------
\* Reads.

\* get_session: the owner is part of the WHERE clause.
SessionOf(s, user) == s \in DOMAIN sessions /\ sessions[s] = user

\* get_job's two SELECTs: the row, then the leads in rowid order.
HasJob(j)   == j \in DOMAIN jobs
LeadRows(j) == {r \in DOMAIN leads : leads[r].job = j}
Recorded(j) == {leads[r].card : r \in LeadRows(j)}

\* The rows in S as an ORDER BY lists them; before[x] is what comes before x.
Ordered(S, before) ==
    [i \in 1 .. Cardinality(S) |-> CHOOSE x \in S : Cardinality(before[x]) = i - 1]

\* SQLite's implicit rowid: one more than the largest in the table.
NextRowid == IF DOMAIN leads = {} THEN 1 ELSE Max(DOMAIN leads) + 1

-----------------------------------------------------------------------------
\* Writes.  One transaction each.

CreateSession(s, user) ==
    /\ sessions' = Insert(sessions, s, user)
    /\ UNCHANGED <<jobs, leads>>

\* The foreign key of jobs.session_id lets the INSERT through.
\* Mutant of SessionAccepted: the constraint is not declared.
AnySessionAccepted(s) == TRUE
SessionAccepted(s) == SessionFK => s \in DOMAIN sessions

CreateJob(j, s, total) ==
    /\ SessionAccepted(s)
    /\ jobs' = Insert(jobs, j, [user |-> Owner[j], session |-> s,
                                total |-> total, status |-> "queued"])
    /\ UNCHANGED <<sessions, leads>>

\* An UPDATE that matches no row is not an error.
SetStatus(j, status) ==
    /\ jobs' = [k \in DOMAIN jobs |->
                  IF k = j THEN [jobs[k] EXCEPT !.status = status] ELSE jobs[k]]
    /\ UNCHANGED <<sessions, leads>>

\* The foreign key of leads.job_id, in every database, lets the INSERT through.
\* Mutant of LeadAccepted: PRAGMA foreign_keys is left off.
AnyLeadAccepted(j) == TRUE
LeadAccepted(j) == HasJob(j)

AppendLead(j, card, ok) ==
    /\ LeadAccepted(j)
    /\ leads' = Insert(leads, NextRowid, [job |-> j, card |-> card, ok |-> ok])
    /\ UNCHANGED <<sessions, jobs>>

\* Mutant of JobsOf: no WHERE user_id.
EveryJob(user) == DOMAIN jobs
JobsOf(user) == {j \in DOMAIN jobs : jobs[j].user = user}

\* Children first.  The cascades find nothing left to delete: a job is in a
\* session of its own user.
DeleteEverythingFor(user) ==
    /\ leads' = Delete(leads, {r \in DOMAIN leads : leads[r].job \in JobsOf(user)})
    /\ jobs' = Delete(jobs, JobsOf(user))
    /\ sessions' = Delete(sessions, {s \in DOMAIN sessions : sessions[s] = user})

\* Mutants of Stale: reclaim forgets queued jobs; reclaim fails done jobs too.
OnlyRunning == {"running"}
AllButFailed == Status \ {"failed"}
Stale == Live

\* Mutant of ReclaimStaleJobs: the leads of the jobs it fails are deleted.
ReclaimDiscardingLeads ==
    /\ jobs' = [j \in DOMAIN jobs |->
                  IF jobs[j].status \in Stale
                  THEN [jobs[j] EXCEPT !.status = "failed"] ELSE jobs[j]]
    /\ leads' = Delete(leads, {r \in DOMAIN leads :
                                 jobs[leads[r].job].status \in Stale})
    /\ UNCHANGED sessions
ReclaimStaleJobs ==
    /\ jobs' = [j \in DOMAIN jobs |->
                  IF jobs[j].status \in Stale
                  THEN [jobs[j] EXCEPT !.status = "failed"] ELSE jobs[j]]
    /\ UNCHANGED <<sessions, leads>>
=============================================================================
