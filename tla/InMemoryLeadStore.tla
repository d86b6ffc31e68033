-------------------------- MODULE InMemoryLeadStore --------------------------
(***************************************************************************)
(* app/store.py's InMemoryLeadStore, over the rows of SqliteLeadStore so   *)
(* that one reader can be put before either.  Its two dicts are `sessions` *)
(* and `jobs`; a job carries its own list of leads, which go when it goes. *)
(* Every method is atomic: the lock is never held across an await, so it   *)
(* is always free, and taking a free lock does not yield.                  *)
(*                                                                         *)
(* What differs from SQLite: nothing checks that a job's session exists; a *)
(* lead for a job that is gone is dropped in silence; a new job may evict  *)
(* old ones; and a restart loses everything.                               *)
(***************************************************************************)
EXTENDS SqliteLeadStore

CONSTANT MaxJobsRetained   \* settings.max_jobs_retained

ASSUME MaxJobsRetainedAssumption == MaxJobsRetained \in Nat

\* The jobs dict keeps its keys in insertion order.
VARIABLE arrival   \* key of the dict -> the keys in it that came earlier

IsInsertionOrder(earlier) ==
    /\ \A j \in DOMAIN earlier : earlier[j] \subseteq DOMAIN earlier \ {j}
    /\ \A j, k \in DOMAIN earlier : j # k => (j \in earlier[k] <=> k \notin earlier[j])

-----------------------------------------------------------------------------
\* _prune_locked.

\* Mutant of Removable: a job still running may go.
AnyRemovable(table) == DOMAIN table
Removable(table) == {j \in DOMAIN table : table[j].status \in Terminal}

\* The first n of the removable keys, n the number of jobs over the cap.
Pruned(table, earlier) ==
    LET removable == Removable(table)
    IN  {j \in removable : Cardinality(earlier[j] \cap removable) + MaxJobsRetained
                              < Cardinality(DOMAIN table)}

Without(earlier, gone) == [j \in DOMAIN earlier \ gone |-> earlier[j] \ gone]
LeadsWithout(gone)   == Delete(leads, {r \in DOMAIN leads : leads[r].job \in gone})

-----------------------------------------------------------------------------
MemCreateSession(s, user) == CreateSession(s, user) /\ UNCHANGED arrival

\* The session is only touched, if it is there at all.
MemCreateJob(j, s, total) ==
    LET table == Insert(jobs, j, [user |-> Owner[j], session |-> s,
                                  total |-> total, status |-> "queued"])
        earlier == Insert(arrival, j, DOMAIN arrival)
        gone  == Pruned(table, earlier)
    IN  /\ jobs' = Delete(table, gone)
        /\ arrival' = Without(earlier, gone)
        /\ leads' = LeadsWithout(gone)
        /\ UNCHANGED sessions

MemSetStatus(j, status) == SetStatus(j, status) /\ UNCHANGED arrival

MemAppendLead(j, card, ok) ==
    /\ HasJob(j)
    /\ AppendLead(j, card, ok)
    /\ UNCHANGED arrival

MemDeleteEverythingFor(user) ==
    /\ DeleteEverythingFor(user)
    /\ arrival' = Without(arrival, JobsOf(user))

\* The process ends and starts again with empty dicts.
MemLose ==
    /\ sessions' = NoRows /\ jobs' = NoRows /\ leads' = NoRows
    /\ arrival' = NoRows
=============================================================================
