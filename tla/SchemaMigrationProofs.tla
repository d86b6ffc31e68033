------------------------- MODULE SchemaMigrationProofs -------------------------
(***************************************************************************)
(* The migration is safe for any number of processes, coroutines, jobs,    *)
(* exceptions and crashes: the schema only grows, a caller's place in the  *)
(* script says what is there by now, and only the caller whose ALTER TABLE *)
(* added jobs.session_id ever fills it.                                    *)
(***************************************************************************)
EXTENDS SchemaMigration, TLAPS

Column == "jobs.session_id"

\* MigrationTypeOK in two halves: the values, and where the callers are.
Values ==
    /\ schema \subseteq Complete
    /\ jobs \subseteq Jobs
    /\ sessions \subseteq Jobs \X (Callers \cup {Earlier})
    /\ sessionOf \in [Jobs -> Callers \cup {Earlier, None}]
    /\ orphans \in [Callers -> SUBSET Jobs]
    /\ interrupted \in BOOLEAN
    /\ faults \in 0 .. MaxFaults /\ crashes \in 0 .. MaxCrashes
    /\ ready \in [Procs -> BOOLEAN]
Places ==
    /\ writer \in Callers \cup {None}
    /\ pc \in [Callers -> {"idle", "locking"} \cup Inside]
    /\ lock \in [Procs -> Callers \cup {None}]
    /\ \A c \in Callers : pc[c] \in Inside => lock[Proc[c]] = c
    /\ writer # None => pc[writer] \in {"index", "commit"}

\* What the statements a caller has behind it have made.
StatementsLast ==
    \A c \in Callers :
        /\ pc[c] \in Inside \ {"script"} => Tables \subseteq schema
        /\ pc[c] \in Inside \ {"script", "alter leads"} => "leads.image_sha256" \in schema
        /\ pc[c] \in {"orphans", "backfill", "index", "commit", "ready"} => Column \in schema
        /\ pc[c] = "commit" /\ writer # c => "idx_jobs_session" \in schema
        /\ pc[c] = "ready" => "idx_jobs_session" \in schema

JobsNeedTheirTable == "jobs" \notin schema => jobs = {}

\* A caller remembers orphans only while it fills the column, and so does one.
OrphansAreHeld ==
    \A c \in Callers : orphans[c] # {} => pc[c] = "backfill" \/ writer = c
OneBackfills ==
    \A c, d \in Callers : Backfilling(c) /\ Backfilling(d) => c = d

\* The jobs it remembers are still without a session, unless they were cleared.
OrphansAreNull ==
    \A c \in Callers : \A j \in orphans[c] \cap jobs : sessionOf[j] = None

\* A job in a session is in one that exists; a job in none is somebody's orphan.
SessionsExist ==
    \A j \in jobs : sessionOf[j] # None => <<j, sessionOf[j]>> \in sessions
NullsAreOrphans ==
    Column \in schema /\ ~interrupted =>
        \A j \in jobs : sessionOf[j] = None =>
            \E c \in Callers : \/ pc[c] = "orphans"
                               \/ j \in orphans[c] /\ Backfilling(c)

IInv ==
    /\ Values
    /\ Places
    /\ StatementsLast
    /\ ReadyIsComplete
    /\ JobsNeedTheirTable
    /\ OrphansAreHeld
    /\ OneBackfills
    /\ OrphansAreNull
    /\ SessionsExist
    /\ NullsAreOrphans
    /\ OneSessionPerJob

USE OwnerAssumption, ProcAssumption, BoundsAssumption, NoneAssumption
USE DEF At, Goto, Bounds, Shared, file


\* A caller that is done, or that raised, gives up the lock and its transaction.
LEMMA LeavingKeepsPlaces ==
    ASSUME Places, NEW c \in Callers, pc[c] \in Inside,
           pc' = [pc EXCEPT ![c] = "idle"], lock' = [lock EXCEPT ![Proc[c]] = None],
           writer' \in {writer, None}, writer' # c
    PROVE  Places'
<1>1. \A d \in Callers : pc'[d] = IF d = c THEN "idle" ELSE pc[d]
  BY DEF Places
<1>2. lock[Proc[c]] = c /\ Proc[c] \in Procs
  BY DEF Places
<1>3. \A d \in Callers : pc'[d] \in Inside => lock'[Proc[d]] = d
  <2> SUFFICES ASSUME NEW d \in Callers, pc'[d] \in Inside PROVE lock'[Proc[d]] = d
    OBVIOUS
  <2>1. d # c
    <3>1. "idle" \notin Inside
      BY DEF Inside
    <3> QED
      BY <1>1, <3>1
  <2>2. pc[d] \in Inside
    BY <1>1, <2>1
  <2>3. lock[Proc[d]] = d /\ Proc[d] \in Procs
    BY <2>2 DEF Places
  <2> QED
    BY <1>2, <2>1, <2>3 DEF Places
<1>4. /\ pc' \in [Callers -> {"idle", "locking"} \cup Inside]
      /\ lock' \in [Procs -> Callers \cup {None}]
  BY <1>2 DEF Places
<1>5. /\ writer' \in Callers \cup {None}
      /\ writer' # None => pc'[writer'] \in {"index", "commit"}
  BY <1>1 DEF Places
<1> QED
  BY <1>3, <1>4, <1>5 DEF Places

\* No step leaves the types.
LEMMA ValuesKept ==
    ASSUME Values, Places, [Next]_vars
    PROVE  Values'
<1>1. ASSUME NEW c \in Callers, Call(c) PROVE Values'
  BY <1>1 DEF Call, Values, Complete, Tables, Earlier
<1>2. ASSUME NEW c \in Callers, Enter(c) PROVE Values'
  BY <1>2 DEF Enter, LockFree, Values, Complete, Tables, Earlier
<1>3. ASSUME NEW c \in Callers, NEW t \in Tables, CreateTable(c, t) PROVE Values'
  BY <1>3 DEF CreateTable, Values, Complete, Tables, Earlier
<1>4. ASSUME NEW c \in Callers, InspectLeads(c) PROVE Values'
  BY <1>4 DEF InspectLeads, Values, Complete, Tables, Earlier
<1>5. ASSUME NEW c \in Callers, AlterLeads(c) PROVE Values'
  BY <1>5 DEF AlterLeads, AddColumn, Values, Complete, Tables, Earlier
<1>6. ASSUME NEW c \in Callers, InspectJobs(c) PROVE Values'
  BY <1>6 DEF InspectJobs, Values, Complete, Tables, Earlier
<1>7. ASSUME NEW c \in Callers, AlterJobs(c) PROVE Values'
  BY <1>7 DEF AlterJobs, AddColumn, Values, Complete, Tables, Earlier
<1>8. ASSUME NEW c \in Callers, ReadOrphans(c) PROVE Values'
  BY <1>8 DEF ReadOrphans, Values, Complete, Tables, Earlier
<1>9. ASSUME NEW c \in Callers, Backfill(c) PROVE Values'
  BY <1>9 DEF Backfill, MayWrite, Values, Complete, Tables, Earlier
<1>10. ASSUME NEW c \in Callers, CreateIndex(c) PROVE Values'
  BY <1>10 DEF CreateIndex, MayWrite, Values, Complete, Tables, Earlier
<1>11. ASSUME NEW c \in Callers, Commit(c) PROVE Values'
  <2>1. CASE writer = c
    <3>1. /\ schema' = schema \cup {"idx_jobs_session"}
          /\ sessions' = sessions \cup (orphans[c] \X {c})
          /\ sessionOf' = [j \in Jobs |-> IF j \in orphans[c] \cap jobs THEN c
                                          ELSE sessionOf[j]]
          /\ orphans' = [orphans EXCEPT ![c] = {}]
      BY <1>11, <2>1 DEF Commit
    <3>2. sessions' \subseteq Jobs \X (Callers \cup {Earlier})
      BY <3>1 DEF Values
    <3>3. sessionOf' \in [Jobs -> Callers \cup {Earlier, None}]
      BY <3>1 DEF Values
    <3>4. schema' \subseteq Complete /\ orphans' \in [Callers -> SUBSET Jobs]
      BY <3>1 DEF Values, Complete
    <3> QED
      BY <1>11, <3>2, <3>3, <3>4 DEF Commit, Values
  <2>2. CASE writer # c
    BY <1>11, <2>2 DEF Commit, Values, Complete, Tables, Earlier
  <2> QED
    BY <2>1, <2>2
<1>12. ASSUME NEW c \in Callers, SetReady(c) PROVE Values'
  BY <1>12 DEF SetReady, Release, Values, Complete, Tables, Earlier
<1>13. ASSUME NEW c \in Callers, Duplicate(c) PROVE Values'
  BY <1>13 DEF Duplicate, Unwind, Release, Values, Complete, Tables, Earlier
<1>14. ASSUME NEW c \in Callers, Raise(c) PROVE Values'
  BY <1>14 DEF Raise, Unwind, Release, Backfilling, Values, Complete, Tables, Earlier
<1>15. ASSUME NEW p \in Procs, Crash(p) PROVE Values'
  BY <1>15 DEF Crash, Backfilling, Values, Complete, Tables, Earlier
<1>16. ASSUME NEW p \in Procs, NEW u \in Users, ClearHistory(p, u) PROVE Values'
  BY <1>16 DEF ClearHistory, Values, Complete, Tables, Earlier
<1>17. CASE UNCHANGED vars
  BY <1>17 DEF vars, Values, Complete, Tables, Earlier
<1> QED
  BY <1>1, <1>2, <1>3, <1>4, <1>5, <1>6, <1>7, <1>8, <1>9, <1>10, <1>11, <1>12,
     <1>13, <1>14, <1>15, <1>16, <1>17 DEF Next, Migrate

\* Whoever is at work holds the lock, and a transaction is in its last statements.
LEMMA PlacesKept ==
    ASSUME Values, Places, [Next]_vars
    PROVE  Places'
<1>1. ASSUME NEW c \in Callers, Call(c) PROVE Places'
  BY <1>1 DEF Call, Places, Inside
<1>2. ASSUME NEW c \in Callers, Enter(c) PROVE Places'
  <2>1. Proc[c] \in Procs
    OBVIOUS
  <2>2. CASE ready[Proc[c]]
    <3>1. pc' = [pc EXCEPT ![c] = "idle"] /\ UNCHANGED <<writer, lock>> /\ pc[c] = "locking"
      BY <1>2, <2>2 DEF Enter
    <3>2. \A d \in Callers : pc'[d] = IF d = c THEN "idle" ELSE pc[d]
      BY <3>1 DEF Places
    <3> QED
      BY <3>1, <3>2 DEF Places, Inside
  <2>3. CASE ~ready[Proc[c]]
    <3>1. /\ pc[c] = "locking" /\ lock[Proc[c]] = None
          /\ pc' = [pc EXCEPT ![c] = "script"]
          /\ lock' = [lock EXCEPT ![Proc[c]] = c]
          /\ writer' = writer
      BY <1>2, <2>3 DEF Enter, LockFree
    <3>2. \A d \in Callers : pc'[d] = IF d = c THEN "script" ELSE pc[d]
      BY <3>1 DEF Places
    <3>3. \A q \in Procs : lock'[q] = IF q = Proc[c] THEN c ELSE lock[q]
      BY <3>1 DEF Places
    <3>4. \A d \in Callers : pc'[d] \in Inside => lock'[Proc[d]] = d
      <4> SUFFICES ASSUME NEW d \in Callers, pc'[d] \in Inside PROVE lock'[Proc[d]] = d
        OBVIOUS
      <4>1. CASE d = c
        BY <4>1, <2>1, <3>3
      <4>2. CASE d # c
        BY <4>2, <3>1, <3>2, <3>3 DEF Places
      <4> QED
        BY <4>1, <4>2
    <3>5. /\ pc' \in [Callers -> {"idle", "locking"} \cup Inside]
          /\ lock' \in [Procs -> Callers \cup {None}]
      BY <3>1, <2>1 DEF Places, Inside
    <3>6. writer' # None => pc'[writer'] \in {"index", "commit"}
      BY <3>1, <3>2 DEF Places
    <3> QED
      BY <3>1, <3>4, <3>5, <3>6 DEF Places
  <2> QED
    BY <2>2, <2>3
<1>3. ASSUME NEW c \in Callers, NEW t \in Tables, CreateTable(c, t) PROVE Places'
  BY <1>3 DEF CreateTable, Places, Inside
<1>4. ASSUME NEW c \in Callers, InspectLeads(c) PROVE Places'
  BY <1>4 DEF InspectLeads, Places, Inside
<1>5. ASSUME NEW c \in Callers, AlterLeads(c) PROVE Places'
  BY <1>5 DEF AlterLeads, AddColumn, Places, Inside
<1>6. ASSUME NEW c \in Callers, InspectJobs(c) PROVE Places'
  BY <1>6 DEF InspectJobs, Places, Inside
<1>7. ASSUME NEW c \in Callers, AlterJobs(c) PROVE Places'
  BY <1>7 DEF AlterJobs, AddColumn, Places, Inside
<1>8. ASSUME NEW c \in Callers, ReadOrphans(c) PROVE Places'
  BY <1>8 DEF ReadOrphans, Places, Inside
<1>9. ASSUME NEW c \in Callers, Backfill(c) PROVE Places'
  BY <1>9 DEF Backfill, MayWrite, Places, Inside
<1>10. ASSUME NEW c \in Callers, CreateIndex(c) PROVE Places'
  BY <1>10 DEF CreateIndex, MayWrite, Places, Inside
<1>11. ASSUME NEW c \in Callers, Commit(c) PROVE Places'
  BY <1>11 DEF Commit, Places, Inside
<1>12. ASSUME NEW c \in Callers, SetReady(c) PROVE Places'
  <2>1. /\ pc[c] = "ready" /\ writer' = writer
        /\ pc' = [pc EXCEPT ![c] = "idle"] /\ lock' = [lock EXCEPT ![Proc[c]] = None]
    BY <1>12 DEF SetReady, Release
  <2>2. pc[c] \in Inside /\ writer' # c
    BY <2>1, NoneAssumption DEF Places, Inside
  <2> QED
    BY <2>1, <2>2, LeavingKeepsPlaces
<1>13. ASSUME NEW c \in Callers, Duplicate(c) PROVE Places'
  <2>1. /\ pc[c] \in Inside /\ writer' = IF writer = c THEN None ELSE writer
        /\ pc' = [pc EXCEPT ![c] = "idle"] /\ lock' = [lock EXCEPT ![Proc[c]] = None]
    BY <1>13 DEF Duplicate, Unwind, Release, Inside
  <2>2. writer' \in {writer, None} /\ writer' # c
    BY <2>1
  <2> QED
    BY <2>1, <2>2, LeavingKeepsPlaces
<1>14. ASSUME NEW c \in Callers, Raise(c) PROVE Places'
  <2>1. /\ pc[c] \in Inside /\ writer' = IF writer = c THEN None ELSE writer
        /\ pc' = [pc EXCEPT ![c] = "idle"] /\ lock' = [lock EXCEPT ![Proc[c]] = None]
    BY <1>14 DEF Raise, Unwind, Release, Inside
  <2>2. writer' \in {writer, None} /\ writer' # c
    BY <2>1
  <2> QED
    BY <2>1, <2>2, LeavingKeepsPlaces
<1>15. ASSUME NEW p \in Procs, Crash(p) PROVE Places'
  BY <1>15 DEF Crash, Backfilling, Places, Inside
<1>16. ASSUME NEW p \in Procs, NEW u \in Users, ClearHistory(p, u) PROVE Places'
  BY <1>16 DEF ClearHistory, Places, Inside
<1>17. CASE UNCHANGED vars
  BY <1>17 DEF vars, Places, Inside
<1> QED
  BY <1>1, <1>2, <1>3, <1>4, <1>5, <1>6, <1>7, <1>8, <1>9, <1>10, <1>11, <1>12,
     <1>13, <1>14, <1>15, <1>16, <1>17 DEF Next, Migrate

\* No statement is ever undone.
LEMMA StatementsLastKept ==
    ASSUME Places, StatementsLast, [Next]_vars
    PROVE  StatementsLast'
<1>p. pc \in [Callers -> {"idle", "locking"} \cup Inside]
  BY DEF Places
<1>w. /\ writer \in Callers \cup {None}
      /\ writer # None => pc[writer] \in {"index", "commit"}
  BY DEF Places
<1>1. ASSUME NEW c \in Callers, Call(c) PROVE StatementsLast'
  BY <1>1, <1>p, <1>w DEF Call, StatementsLast, Inside, Tables, Column, Backfilling
<1>2. ASSUME NEW c \in Callers, Enter(c) PROVE StatementsLast'
  <2>1. \A d \in Callers : d # c => pc'[d] = pc[d]
    BY <1>2, <1>p DEF Enter
  <2>2. pc'[c] \in {"idle", "script"} /\ schema' = schema /\ writer' = writer
    BY <1>2, <1>p DEF Enter
  <2> QED
    BY <2>1, <2>2 DEF StatementsLast, Inside, Column
<1>3. ASSUME NEW c \in Callers, NEW t \in Tables, CreateTable(c, t) PROVE StatementsLast'
  BY <1>3, <1>p, <1>w
     DEF CreateTable, StatementsLast, Inside, Tables, Column, Backfilling
<1>4. ASSUME NEW c \in Callers, InspectLeads(c) PROVE StatementsLast'
  BY <1>4, <1>p, <1>w
     DEF InspectLeads, StatementsLast, Inside, Tables, Column, Backfilling
<1>5. ASSUME NEW c \in Callers, AlterLeads(c) PROVE StatementsLast'
  BY <1>5, <1>p, <1>w
     DEF AlterLeads, AddColumn, StatementsLast, Inside, Tables, Column, Backfilling
<1>6. ASSUME NEW c \in Callers, InspectJobs(c) PROVE StatementsLast'
  BY <1>6, <1>p, <1>w
     DEF InspectJobs, StatementsLast, Inside, Tables, Column, Backfilling
<1>7. ASSUME NEW c \in Callers, AlterJobs(c) PROVE StatementsLast'
  BY <1>7, <1>p, <1>w
     DEF AlterJobs, AddColumn, StatementsLast, Inside, Tables, Column, Backfilling
<1>8. ASSUME NEW c \in Callers, ReadOrphans(c) PROVE StatementsLast'
  BY <1>8, <1>p, <1>w
     DEF ReadOrphans, StatementsLast, Inside, Tables, Column, Backfilling
<1>9. ASSUME NEW c \in Callers, Backfill(c) PROVE StatementsLast'
  BY <1>9, <1>p, <1>w
     DEF Backfill, MayWrite, StatementsLast, Inside, Tables, Column, Backfilling
<1>10. ASSUME NEW c \in Callers, CreateIndex(c) PROVE StatementsLast'
  BY <1>10, <1>p, <1>w
     DEF CreateIndex, MayWrite, StatementsLast, Inside, Tables, Column, Backfilling
<1>11. ASSUME NEW c \in Callers, Commit(c) PROVE StatementsLast'
  BY <1>11, <1>p, <1>w DEF Commit, StatementsLast, Inside, Tables, Column, Backfilling
<1>12. ASSUME NEW c \in Callers, SetReady(c) PROVE StatementsLast'
  BY <1>12, <1>p, <1>w
     DEF SetReady, Release, StatementsLast, Inside, Tables, Column, Backfilling
<1>13. ASSUME NEW c \in Callers, Duplicate(c) PROVE StatementsLast'
  BY <1>13, <1>p, <1>w
     DEF Duplicate, Unwind, Release, StatementsLast, Inside, Tables, Column,
         Backfilling
<1>14. ASSUME NEW c \in Callers, Raise(c) PROVE StatementsLast'
  BY <1>14, <1>p, <1>w
     DEF Raise, Unwind, Release, Backfilling, StatementsLast, Inside, Tables, Column
<1>15. ASSUME NEW p \in Procs, Crash(p) PROVE StatementsLast'
  BY <1>15, <1>p, <1>w DEF Crash, Backfilling, StatementsLast, Inside, Tables, Column
<1>16. ASSUME NEW p \in Procs, NEW u \in Users, ClearHistory(p, u) PROVE StatementsLast'
  BY <1>16, <1>p, <1>w
     DEF ClearHistory, StatementsLast, Inside, Tables, Column, Backfilling
<1>17. CASE UNCHANGED vars
  BY <1>17 DEF vars, StatementsLast, Inside, Tables, Column, Backfilling
<1> QED
  BY <1>1, <1>2, <1>3, <1>4, <1>5, <1>6, <1>7, <1>8, <1>9, <1>10, <1>11, <1>12,
     <1>13, <1>14, <1>15, <1>16, <1>17 DEF Next, Migrate

\* SetReady follows every statement, and no step drops a column.
LEMMA ReadyIsCompleteKept ==
    ASSUME Values, Places, StatementsLast, ReadyIsComplete, [Next]_vars
    PROVE  ReadyIsComplete'
<1>r. ready \in [Procs -> BOOLEAN]
  BY DEF Values
<1>p. pc \in [Callers -> {"idle", "locking"} \cup Inside]
  BY DEF Places
<1>v. schema \subseteq Complete /\ schema' \subseteq Complete
  BY ValuesKept DEF Values
<1>1. ASSUME NEW c \in Callers, Call(c) PROVE ReadyIsComplete'
  BY <1>1, <1>r, <1>p DEF Call, ReadyIsComplete
<1>2. ASSUME NEW c \in Callers, Enter(c) PROVE ReadyIsComplete'
  BY <1>2, <1>r, <1>p DEF Enter, LockFree, ReadyIsComplete
<1>3. ASSUME NEW c \in Callers, NEW t \in Tables, CreateTable(c, t) PROVE ReadyIsComplete'
  BY <1>3, <1>r, <1>p, <1>v DEF CreateTable, ReadyIsComplete
<1>4. ASSUME NEW c \in Callers, InspectLeads(c) PROVE ReadyIsComplete'
  BY <1>4, <1>r, <1>p DEF InspectLeads, ReadyIsComplete
<1>5. ASSUME NEW c \in Callers, AlterLeads(c) PROVE ReadyIsComplete'
  BY <1>5, <1>r, <1>p, <1>v DEF AlterLeads, AddColumn, ReadyIsComplete
<1>6. ASSUME NEW c \in Callers, InspectJobs(c) PROVE ReadyIsComplete'
  BY <1>6, <1>r, <1>p DEF InspectJobs, ReadyIsComplete
<1>7. ASSUME NEW c \in Callers, AlterJobs(c) PROVE ReadyIsComplete'
  BY <1>7, <1>r, <1>p, <1>v DEF AlterJobs, AddColumn, ReadyIsComplete
<1>8. ASSUME NEW c \in Callers, ReadOrphans(c) PROVE ReadyIsComplete'
  BY <1>8, <1>r, <1>p DEF ReadOrphans, ReadyIsComplete
<1>9. ASSUME NEW c \in Callers, Backfill(c) PROVE ReadyIsComplete'
  BY <1>9, <1>r, <1>p DEF Backfill, MayWrite, ReadyIsComplete
<1>10. ASSUME NEW c \in Callers, CreateIndex(c) PROVE ReadyIsComplete'
  BY <1>10, <1>r, <1>p, <1>v DEF CreateIndex, MayWrite, ReadyIsComplete
<1>11. ASSUME NEW c \in Callers, Commit(c) PROVE ReadyIsComplete'
  BY <1>11, <1>r, <1>p, <1>v DEF Commit, ReadyIsComplete
<1>12. ASSUME NEW c \in Callers, SetReady(c) PROVE ReadyIsComplete'
  BY <1>12, <1>r, <1>p, <1>v
     DEF SetReady, Release, StatementsLast, Complete, Tables, Inside, Column,
         ReadyIsComplete
<1>13. ASSUME NEW c \in Callers, Duplicate(c) PROVE ReadyIsComplete'
  BY <1>13, <1>r, <1>p DEF Duplicate, Unwind, Release, ReadyIsComplete
<1>14. ASSUME NEW c \in Callers, Raise(c) PROVE ReadyIsComplete'
  BY <1>14, <1>r, <1>p DEF Raise, Unwind, Release, Backfilling, ReadyIsComplete
<1>15. ASSUME NEW p \in Procs, Crash(p) PROVE ReadyIsComplete'
  BY <1>15, <1>r, <1>p DEF Crash, Backfilling, ReadyIsComplete
<1>16. ASSUME NEW p \in Procs, NEW u \in Users, ClearHistory(p, u) PROVE ReadyIsComplete'
  BY <1>16, <1>r, <1>p DEF ClearHistory, ReadyIsComplete
<1>17. CASE UNCHANGED vars
  BY <1>17 DEF vars, ReadyIsComplete
<1> QED
  BY <1>1, <1>2, <1>3, <1>4, <1>5, <1>6, <1>7, <1>8, <1>9, <1>10, <1>11, <1>12,
     <1>13, <1>14, <1>15, <1>16, <1>17 DEF Next, Migrate

\* No step adds an old job.
LEMMA JobsNeedTheirTableKept ==
    ASSUME Values, JobsNeedTheirTable, [Next]_vars
    PROVE  JobsNeedTheirTable'
<1>1. ASSUME NEW c \in Callers, Call(c) PROVE JobsNeedTheirTable'
  BY <1>1 DEF Call, JobsNeedTheirTable
<1>2. ASSUME NEW c \in Callers, Enter(c) PROVE JobsNeedTheirTable'
  BY <1>2 DEF Enter, LockFree, JobsNeedTheirTable
<1>3. ASSUME NEW c \in Callers, NEW t \in Tables, CreateTable(c, t) PROVE JobsNeedTheirTable'
  BY <1>3 DEF CreateTable, JobsNeedTheirTable
<1>4. ASSUME NEW c \in Callers, InspectLeads(c) PROVE JobsNeedTheirTable'
  BY <1>4 DEF InspectLeads, JobsNeedTheirTable
<1>5. ASSUME NEW c \in Callers, AlterLeads(c) PROVE JobsNeedTheirTable'
  BY <1>5 DEF AlterLeads, AddColumn, JobsNeedTheirTable
<1>6. ASSUME NEW c \in Callers, InspectJobs(c) PROVE JobsNeedTheirTable'
  BY <1>6 DEF InspectJobs, JobsNeedTheirTable
<1>7. ASSUME NEW c \in Callers, AlterJobs(c) PROVE JobsNeedTheirTable'
  BY <1>7 DEF AlterJobs, AddColumn, JobsNeedTheirTable
<1>8. ASSUME NEW c \in Callers, ReadOrphans(c) PROVE JobsNeedTheirTable'
  BY <1>8 DEF ReadOrphans, JobsNeedTheirTable
<1>9. ASSUME NEW c \in Callers, Backfill(c) PROVE JobsNeedTheirTable'
  BY <1>9 DEF Backfill, MayWrite, JobsNeedTheirTable
<1>10. ASSUME NEW c \in Callers, CreateIndex(c) PROVE JobsNeedTheirTable'
  BY <1>10 DEF CreateIndex, MayWrite, JobsNeedTheirTable
<1>11. ASSUME NEW c \in Callers, Commit(c) PROVE JobsNeedTheirTable'
  BY <1>11 DEF Commit, JobsNeedTheirTable
<1>12. ASSUME NEW c \in Callers, SetReady(c) PROVE JobsNeedTheirTable'
  BY <1>12 DEF SetReady, Release, JobsNeedTheirTable
<1>13. ASSUME NEW c \in Callers, Duplicate(c) PROVE JobsNeedTheirTable'
  BY <1>13 DEF Duplicate, Unwind, Release, JobsNeedTheirTable
<1>14. ASSUME NEW c \in Callers, Raise(c) PROVE JobsNeedTheirTable'
  BY <1>14 DEF Raise, Unwind, Release, Backfilling, JobsNeedTheirTable
<1>15. ASSUME NEW p \in Procs, Crash(p) PROVE JobsNeedTheirTable'
  BY <1>15 DEF Crash, Backfilling, JobsNeedTheirTable
<1>16. ASSUME NEW p \in Procs, NEW u \in Users, ClearHistory(p, u) PROVE JobsNeedTheirTable'
  BY <1>16 DEF ClearHistory, JobsNeedTheirTable
<1>17. CASE UNCHANGED vars
  BY <1>17 DEF vars, JobsNeedTheirTable
<1> QED
  BY <1>1, <1>2, <1>3, <1>4, <1>5, <1>6, <1>7, <1>8, <1>9, <1>10, <1>11, <1>12,
     <1>13, <1>14, <1>15, <1>16, <1>17 DEF Next, Migrate

\* Commit and whatever cuts a backfill short forget its orphans.
LEMMA OrphansAreHeldKept ==
    ASSUME Values, Places, OrphansAreHeld, [Next]_vars
    PROVE  OrphansAreHeld'
<1>p. pc \in [Callers -> {"idle", "locking"} \cup Inside]
  BY DEF Places
<1>w. /\ writer \in Callers \cup {None}
      /\ writer # None => pc[writer] \in {"index", "commit"}
  BY DEF Places
<1>o. orphans \in [Callers -> SUBSET Jobs]
  BY DEF Values
<1>1. ASSUME NEW c \in Callers, Call(c) PROVE OrphansAreHeld'
  BY <1>1, <1>p, <1>w, <1>o DEF Call, OrphansAreHeld, Inside, Backfilling
<1>2. ASSUME NEW c \in Callers, Enter(c) PROVE OrphansAreHeld'
  BY <1>2, <1>p, <1>w, <1>o DEF Enter, LockFree, OrphansAreHeld, Inside, Backfilling
<1>3. ASSUME NEW c \in Callers, NEW t \in Tables, CreateTable(c, t) PROVE OrphansAreHeld'
  BY <1>3, <1>p, <1>w, <1>o DEF CreateTable, OrphansAreHeld, Inside, Backfilling
<1>4. ASSUME NEW c \in Callers, InspectLeads(c) PROVE OrphansAreHeld'
  BY <1>4, <1>p, <1>w, <1>o DEF InspectLeads, OrphansAreHeld, Inside, Backfilling
<1>5. ASSUME NEW c \in Callers, AlterLeads(c) PROVE OrphansAreHeld'
  BY <1>5, <1>p, <1>w, <1>o
     DEF AlterLeads, AddColumn, OrphansAreHeld, Inside, Backfilling
<1>6. ASSUME NEW c \in Callers, InspectJobs(c) PROVE OrphansAreHeld'
  BY <1>6, <1>p, <1>w, <1>o DEF InspectJobs, OrphansAreHeld, Inside, Backfilling
<1>7. ASSUME NEW c \in Callers, AlterJobs(c) PROVE OrphansAreHeld'
  BY <1>7, <1>p, <1>w, <1>o
     DEF AlterJobs, AddColumn, OrphansAreHeld, Inside, Backfilling
<1>8. ASSUME NEW c \in Callers, ReadOrphans(c) PROVE OrphansAreHeld'
  BY <1>8, <1>p, <1>w, <1>o DEF ReadOrphans, OrphansAreHeld, Inside, Backfilling
<1>9. ASSUME NEW c \in Callers, Backfill(c) PROVE OrphansAreHeld'
  BY <1>9, <1>p, <1>w, <1>o DEF Backfill, MayWrite, OrphansAreHeld, Inside, Backfilling
<1>10. ASSUME NEW c \in Callers, CreateIndex(c) PROVE OrphansAreHeld'
  BY <1>10, <1>p, <1>w, <1>o
     DEF CreateIndex, MayWrite, OrphansAreHeld, Inside, Backfilling
<1>11. ASSUME NEW c \in Callers, Commit(c) PROVE OrphansAreHeld'
  BY <1>11, <1>p, <1>w, <1>o DEF Commit, OrphansAreHeld, Inside, Backfilling
<1>12. ASSUME NEW c \in Callers, SetReady(c) PROVE OrphansAreHeld'
  BY <1>12, <1>p, <1>w, <1>o DEF SetReady, Release, OrphansAreHeld, Inside, Backfilling
<1>13. ASSUME NEW c \in Callers, Duplicate(c) PROVE OrphansAreHeld'
  BY <1>13, <1>p, <1>w, <1>o
     DEF Duplicate, Unwind, Release, OrphansAreHeld, Inside, Backfilling
<1>14. ASSUME NEW c \in Callers, Raise(c) PROVE OrphansAreHeld'
  BY <1>14, <1>p, <1>w, <1>o
     DEF Raise, Unwind, Release, Backfilling, OrphansAreHeld, Inside
<1>15. ASSUME NEW p \in Procs, Crash(p) PROVE OrphansAreHeld'
  BY <1>15, <1>p, <1>w, <1>o DEF Crash, Backfilling, OrphansAreHeld, Inside
<1>16. ASSUME NEW p \in Procs, NEW u \in Users, ClearHistory(p, u) PROVE OrphansAreHeld'
  BY <1>16, <1>p, <1>w, <1>o DEF ClearHistory, OrphansAreHeld, Inside, Backfilling
<1>17. CASE UNCHANGED vars
  BY <1>17 DEF vars, OrphansAreHeld, Inside, Backfilling
<1> QED
  BY <1>1, <1>2, <1>3, <1>4, <1>5, <1>6, <1>7, <1>8, <1>9, <1>10, <1>11, <1>12,
     <1>13, <1>14, <1>15, <1>16, <1>17 DEF Next, Migrate

\* A second ALTER TABLE would find the column there.
LEMMA OneBackfillsKept ==
    ASSUME Places, StatementsLast, OneBackfills, [Next]_vars
    PROVE  OneBackfills'
<1>p. pc \in [Callers -> {"idle", "locking"} \cup Inside]
  BY DEF Places
<1>w. /\ writer \in Callers \cup {None}
      /\ writer # None => pc[writer] \in {"index", "commit"}
  BY DEF Places
<1>1. ASSUME NEW c \in Callers, Call(c) PROVE OneBackfills'
  BY <1>1, <1>p, <1>w DEF Call, OneBackfills, Backfilling
<1>2. ASSUME NEW c \in Callers, Enter(c) PROVE OneBackfills'
  <2>1. \A d \in Callers : d # c => pc'[d] = pc[d]
    BY <1>2, <1>p DEF Enter
  <2>2. pc'[c] \in {"idle", "script"} /\ writer' = writer
    BY <1>2, <1>p DEF Enter
  <2>3. \A d \in Callers : Backfilling(d)' => Backfilling(d)
    BY <2>1, <2>2 DEF Backfilling
  <2> QED
    BY <2>3 DEF OneBackfills
<1>3. ASSUME NEW c \in Callers, NEW t \in Tables, CreateTable(c, t) PROVE OneBackfills'
  BY <1>3, <1>p, <1>w DEF CreateTable, OneBackfills, Backfilling
<1>4. ASSUME NEW c \in Callers, InspectLeads(c) PROVE OneBackfills'
  BY <1>4, <1>p, <1>w DEF InspectLeads, OneBackfills, Backfilling
<1>5. ASSUME NEW c \in Callers, AlterLeads(c) PROVE OneBackfills'
  BY <1>5, <1>p, <1>w DEF AlterLeads, AddColumn, OneBackfills, Backfilling
<1>6. ASSUME NEW c \in Callers, InspectJobs(c) PROVE OneBackfills'
  BY <1>6, <1>p, <1>w DEF InspectJobs, OneBackfills, Backfilling
<1>7. ASSUME NEW c \in Callers, AlterJobs(c) PROVE OneBackfills'
  <2>1. \A d \in Callers : ~Backfilling(d)
    BY <1>7, <1>p, <1>w DEF AlterJobs, AddColumn, StatementsLast, Backfilling, Column
  <2>2. \A d \in Callers : pc'[d] = IF d = c THEN "orphans" ELSE pc[d]
    BY <1>7, <1>p DEF AlterJobs
  <2>3. writer' = writer
    BY <1>7 DEF AlterJobs
  <2>4. \A d \in Callers : Backfilling(d)' => d = c
    BY <2>1, <2>2, <2>3 DEF Backfilling
  <2> QED
    BY <2>4 DEF OneBackfills
<1>8. ASSUME NEW c \in Callers, ReadOrphans(c) PROVE OneBackfills'
  BY <1>8, <1>p, <1>w DEF ReadOrphans, OneBackfills, Backfilling
<1>9. ASSUME NEW c \in Callers, Backfill(c) PROVE OneBackfills'
  BY <1>9, <1>p, <1>w DEF Backfill, MayWrite, OneBackfills, Backfilling
<1>10. ASSUME NEW c \in Callers, CreateIndex(c) PROVE OneBackfills'
  BY <1>10, <1>p, <1>w DEF CreateIndex, MayWrite, OneBackfills, Backfilling
<1>11. ASSUME NEW c \in Callers, Commit(c) PROVE OneBackfills'
  BY <1>11, <1>p, <1>w DEF Commit, OneBackfills, Backfilling
<1>12. ASSUME NEW c \in Callers, SetReady(c) PROVE OneBackfills'
  BY <1>12, <1>p, <1>w DEF SetReady, Release, OneBackfills, Backfilling
<1>13. ASSUME NEW c \in Callers, Duplicate(c) PROVE OneBackfills'
  BY <1>13, <1>p, <1>w DEF Duplicate, Unwind, Release, OneBackfills, Backfilling
<1>14. ASSUME NEW c \in Callers, Raise(c) PROVE OneBackfills'
  BY <1>14, <1>p, <1>w DEF Raise, Unwind, Release, Backfilling, OneBackfills
<1>15. ASSUME NEW p \in Procs, Crash(p) PROVE OneBackfills'
  BY <1>15, <1>p, <1>w DEF Crash, Backfilling, OneBackfills
<1>16. ASSUME NEW p \in Procs, NEW u \in Users, ClearHistory(p, u) PROVE OneBackfills'
  BY <1>16, <1>p, <1>w DEF ClearHistory, OneBackfills, Backfilling
<1>17. CASE UNCHANGED vars
  BY <1>17 DEF vars, OneBackfills, Backfilling
<1> QED
  BY <1>1, <1>2, <1>3, <1>4, <1>5, <1>6, <1>7, <1>8, <1>9, <1>10, <1>11, <1>12,
     <1>13, <1>14, <1>15, <1>16, <1>17 DEF Next, Migrate

\* Only Commit fills session_id, and only one caller has orphans.
LEMMA OrphansAreNullKept ==
    ASSUME Values, Places, OrphansAreHeld, OneBackfills, OrphansAreNull, [Next]_vars
    PROVE  OrphansAreNull'
<1>p. pc \in [Callers -> {"idle", "locking"} \cup Inside]
  BY DEF Places
<1>w. /\ writer \in Callers \cup {None}
      /\ writer # None => pc[writer] \in {"index", "commit"}
  BY DEF Places
<1>o. orphans \in [Callers -> SUBSET Jobs]
  BY DEF Values
<1>s. sessionOf \in [Jobs -> Callers \cup {Earlier, None}]
  BY DEF Values
<1>j. jobs \subseteq Jobs
  BY DEF Values
<1>1. ASSUME NEW c \in Callers, Call(c) PROVE OrphansAreNull'
  BY <1>1, <1>p, <1>w, <1>o, <1>s, <1>j DEF Call, OrphansAreNull
<1>2. ASSUME NEW c \in Callers, Enter(c) PROVE OrphansAreNull'
  BY <1>2, <1>p, <1>w, <1>o, <1>s, <1>j DEF Enter, LockFree, OrphansAreNull
<1>3. ASSUME NEW c \in Callers, NEW t \in Tables, CreateTable(c, t) PROVE OrphansAreNull'
  BY <1>3, <1>p, <1>w, <1>o, <1>s, <1>j DEF CreateTable, OrphansAreNull
<1>4. ASSUME NEW c \in Callers, InspectLeads(c) PROVE OrphansAreNull'
  BY <1>4, <1>p, <1>w, <1>o, <1>s, <1>j DEF InspectLeads, OrphansAreNull
<1>5. ASSUME NEW c \in Callers, AlterLeads(c) PROVE OrphansAreNull'
  BY <1>5, <1>p, <1>w, <1>o, <1>s, <1>j DEF AlterLeads, AddColumn, OrphansAreNull
<1>6. ASSUME NEW c \in Callers, InspectJobs(c) PROVE OrphansAreNull'
  BY <1>6, <1>p, <1>w, <1>o, <1>s, <1>j DEF InspectJobs, OrphansAreNull
<1>7. ASSUME NEW c \in Callers, AlterJobs(c) PROVE OrphansAreNull'
  BY <1>7, <1>p, <1>w, <1>o, <1>s, <1>j DEF AlterJobs, AddColumn, OrphansAreNull
<1>8. ASSUME NEW c \in Callers, ReadOrphans(c) PROVE OrphansAreNull'
  BY <1>8, <1>p, <1>w, <1>o, <1>s, <1>j DEF ReadOrphans, OrphansAreNull
<1>9. ASSUME NEW c \in Callers, Backfill(c) PROVE OrphansAreNull'
  BY <1>9, <1>p, <1>w, <1>o, <1>s, <1>j DEF Backfill, MayWrite, OrphansAreNull
<1>10. ASSUME NEW c \in Callers, CreateIndex(c) PROVE OrphansAreNull'
  BY <1>10, <1>p, <1>w, <1>o, <1>s, <1>j DEF CreateIndex, MayWrite, OrphansAreNull
<1>11. ASSUME NEW c \in Callers, Commit(c) PROVE OrphansAreNull'
  BY <1>11, <1>p, <1>w, <1>o, <1>s, <1>j
     DEF Commit, OrphansAreHeld, OneBackfills, Backfilling, OrphansAreNull
<1>12. ASSUME NEW c \in Callers, SetReady(c) PROVE OrphansAreNull'
  BY <1>12, <1>p, <1>w, <1>o, <1>s, <1>j DEF SetReady, Release, OrphansAreNull
<1>13. ASSUME NEW c \in Callers, Duplicate(c) PROVE OrphansAreNull'
  BY <1>13, <1>p, <1>w, <1>o, <1>s, <1>j DEF Duplicate, Unwind, Release, OrphansAreNull
<1>14. ASSUME NEW c \in Callers, Raise(c) PROVE OrphansAreNull'
  BY <1>14, <1>p, <1>w, <1>o, <1>s, <1>j
     DEF Raise, Unwind, Release, Backfilling, OrphansAreNull
<1>15. ASSUME NEW p \in Procs, Crash(p) PROVE OrphansAreNull'
  BY <1>15, <1>p, <1>w, <1>o, <1>s, <1>j DEF Crash, Backfilling, OrphansAreNull
<1>16. ASSUME NEW p \in Procs, NEW u \in Users, ClearHistory(p, u) PROVE OrphansAreNull'
  BY <1>16, <1>p, <1>w, <1>o, <1>s, <1>j DEF ClearHistory, OrphansAreNull
<1>17. CASE UNCHANGED vars
  BY <1>17 DEF vars, OrphansAreNull
<1> QED
  BY <1>1, <1>2, <1>3, <1>4, <1>5, <1>6, <1>7, <1>8, <1>9, <1>10, <1>11, <1>12,
     <1>13, <1>14, <1>15, <1>16, <1>17 DEF Next, Migrate

\* Commit makes the sessions it names; ClearHistory drops both.
LEMMA SessionsExistKept ==
    ASSUME Values, Places, SessionsExist, [Next]_vars
    PROVE  SessionsExist'
<1>o. orphans \in [Callers -> SUBSET Jobs]
  BY DEF Values
<1>s. sessionOf \in [Jobs -> Callers \cup {Earlier, None}]
  BY DEF Values
<1>j. jobs \subseteq Jobs
  BY DEF Values
<1>1. ASSUME NEW c \in Callers, Call(c) PROVE SessionsExist'
  BY <1>1, <1>o, <1>s, <1>j DEF Call, SessionsExist
<1>2. ASSUME NEW c \in Callers, Enter(c) PROVE SessionsExist'
  BY <1>2, <1>o, <1>s, <1>j DEF Enter, LockFree, SessionsExist
<1>3. ASSUME NEW c \in Callers, NEW t \in Tables, CreateTable(c, t) PROVE SessionsExist'
  BY <1>3, <1>o, <1>s, <1>j DEF CreateTable, SessionsExist
<1>4. ASSUME NEW c \in Callers, InspectLeads(c) PROVE SessionsExist'
  BY <1>4, <1>o, <1>s, <1>j DEF InspectLeads, SessionsExist
<1>5. ASSUME NEW c \in Callers, AlterLeads(c) PROVE SessionsExist'
  BY <1>5, <1>o, <1>s, <1>j DEF AlterLeads, AddColumn, SessionsExist
<1>6. ASSUME NEW c \in Callers, InspectJobs(c) PROVE SessionsExist'
  BY <1>6, <1>o, <1>s, <1>j DEF InspectJobs, SessionsExist
<1>7. ASSUME NEW c \in Callers, AlterJobs(c) PROVE SessionsExist'
  BY <1>7, <1>o, <1>s, <1>j DEF AlterJobs, AddColumn, SessionsExist
<1>8. ASSUME NEW c \in Callers, ReadOrphans(c) PROVE SessionsExist'
  BY <1>8, <1>o, <1>s, <1>j DEF ReadOrphans, SessionsExist
<1>9. ASSUME NEW c \in Callers, Backfill(c) PROVE SessionsExist'
  BY <1>9, <1>o, <1>s, <1>j DEF Backfill, MayWrite, SessionsExist
<1>10. ASSUME NEW c \in Callers, CreateIndex(c) PROVE SessionsExist'
  BY <1>10, <1>o, <1>s, <1>j DEF CreateIndex, MayWrite, SessionsExist
<1>11. ASSUME NEW c \in Callers, Commit(c) PROVE SessionsExist'
  BY <1>11, <1>o, <1>s, <1>j DEF Commit, SessionsExist
<1>12. ASSUME NEW c \in Callers, SetReady(c) PROVE SessionsExist'
  BY <1>12, <1>o, <1>s, <1>j DEF SetReady, Release, SessionsExist
<1>13. ASSUME NEW c \in Callers, Duplicate(c) PROVE SessionsExist'
  BY <1>13, <1>o, <1>s, <1>j DEF Duplicate, Unwind, Release, SessionsExist
<1>14. ASSUME NEW c \in Callers, Raise(c) PROVE SessionsExist'
  BY <1>14, <1>o, <1>s, <1>j DEF Raise, Unwind, Release, Backfilling, SessionsExist
<1>15. ASSUME NEW p \in Procs, Crash(p) PROVE SessionsExist'
  BY <1>15, <1>o, <1>s, <1>j DEF Crash, Backfilling, SessionsExist
<1>16. ASSUME NEW p \in Procs, NEW u \in Users, ClearHistory(p, u) PROVE SessionsExist'
  BY <1>16, <1>o, <1>s, <1>j DEF ClearHistory, SessionsExist
<1>17. CASE UNCHANGED vars
  BY <1>17 DEF vars, SessionsExist
<1> QED
  BY <1>1, <1>2, <1>3, <1>4, <1>5, <1>6, <1>7, <1>8, <1>9, <1>10, <1>11, <1>12,
     <1>13, <1>14, <1>15, <1>16, <1>17 DEF Next, Migrate

\* A job without a session is being seen to, unless a backfill was cut short.
LEMMA NullsAreOrphansKept ==
    ASSUME Values, Places, StatementsLast, JobsNeedTheirTable, OrphansAreHeld,
           OneBackfills, NullsAreOrphans, [Next]_vars
    PROVE  NullsAreOrphans'
<1>p. pc \in [Callers -> {"idle", "locking"} \cup Inside]
  BY DEF Places
<1>w. /\ writer \in Callers \cup {None}
      /\ writer # None => pc[writer] \in {"index", "commit"}
  BY DEF Places
<1>o. orphans \in [Callers -> SUBSET Jobs]
  BY DEF Values
<1>s. sessionOf \in [Jobs -> Callers \cup {Earlier, None}]
  BY DEF Values
<1>j. jobs \subseteq Jobs
  BY DEF Values
<1>1. ASSUME NEW c \in Callers, Call(c) PROVE NullsAreOrphans'
  BY <1>1, <1>p, <1>w, <1>o, <1>s, <1>j DEF Call, NullsAreOrphans, Column, Backfilling
<1>2. ASSUME NEW c \in Callers, Enter(c) PROVE NullsAreOrphans'
  BY <1>2, <1>p, <1>w, <1>o, <1>s, <1>j
     DEF Enter, LockFree, NullsAreOrphans, Column, Backfilling
<1>3. ASSUME NEW c \in Callers, NEW t \in Tables, CreateTable(c, t) PROVE NullsAreOrphans'
  <2>1. CASE t = "jobs"
    BY <1>3, <2>1 DEF CreateTable, JobsNeedTheirTable, NullsAreOrphans
  <2>2. CASE t # "jobs"
    <3>1. Column \in schema' => Column \in schema
      BY <1>3, <2>2 DEF CreateTable, Column, Tables
    <3> QED
      BY <1>3, <3>1 DEF CreateTable, NullsAreOrphans, Backfilling
  <2> QED
    BY <2>1, <2>2
<1>4. ASSUME NEW c \in Callers, InspectLeads(c) PROVE NullsAreOrphans'
  BY <1>4, <1>p, <1>w, <1>o, <1>s, <1>j
     DEF InspectLeads, NullsAreOrphans, Column, Backfilling
<1>5. ASSUME NEW c \in Callers, AlterLeads(c) PROVE NullsAreOrphans'
  BY <1>5, <1>p, <1>w, <1>o, <1>s, <1>j
     DEF AlterLeads, AddColumn, NullsAreOrphans, Column, Backfilling
<1>6. ASSUME NEW c \in Callers, InspectJobs(c) PROVE NullsAreOrphans'
  BY <1>6, <1>p, <1>w, <1>o, <1>s, <1>j
     DEF InspectJobs, NullsAreOrphans, Column, Backfilling
<1>7. ASSUME NEW c \in Callers, AlterJobs(c) PROVE NullsAreOrphans'
  BY <1>7, <1>p, <1>w, <1>o, <1>s, <1>j
     DEF AlterJobs, AddColumn, NullsAreOrphans, Column, Backfilling
<1>8. ASSUME NEW c \in Callers, ReadOrphans(c) PROVE NullsAreOrphans'
  BY <1>8, <1>p, <1>w, <1>o, <1>s, <1>j
     DEF ReadOrphans, NullsAreOrphans, Column, Backfilling
<1>9. ASSUME NEW c \in Callers, Backfill(c) PROVE NullsAreOrphans'
  BY <1>9, <1>p, <1>w, <1>o, <1>s, <1>j
     DEF Backfill, MayWrite, NullsAreOrphans, Column, Backfilling
<1>10. ASSUME NEW c \in Callers, CreateIndex(c) PROVE NullsAreOrphans'
  BY <1>10, <1>p, <1>w, <1>o, <1>s, <1>j
     DEF CreateIndex, MayWrite, NullsAreOrphans, Column, Backfilling
<1>11. ASSUME NEW c \in Callers, Commit(c) PROVE NullsAreOrphans'
  BY <1>11, <1>p, <1>w, <1>o, <1>s, <1>j
     DEF Commit, OneBackfills, NullsAreOrphans, Column, Backfilling
<1>12. ASSUME NEW c \in Callers, SetReady(c) PROVE NullsAreOrphans'
  BY <1>12, <1>p, <1>w, <1>o, <1>s, <1>j
     DEF SetReady, Release, NullsAreOrphans, Column, Backfilling
<1>13. ASSUME NEW c \in Callers, Duplicate(c) PROVE NullsAreOrphans'
  BY <1>13, <1>p, <1>w, <1>o, <1>s, <1>j
     DEF Duplicate, Unwind, Release, NullsAreOrphans, Column, Backfilling
<1>14. ASSUME NEW c \in Callers, Raise(c) PROVE NullsAreOrphans'
  BY <1>14, <1>p, <1>w, <1>o, <1>s, <1>j
     DEF Raise, Unwind, Release, Backfilling, NullsAreOrphans, Column
<1>15. ASSUME NEW p \in Procs, Crash(p) PROVE NullsAreOrphans'
  BY <1>15, <1>p, <1>w, <1>o, <1>s, <1>j DEF Crash, Backfilling, NullsAreOrphans, Column
<1>16. ASSUME NEW p \in Procs, NEW u \in Users, ClearHistory(p, u) PROVE NullsAreOrphans'
  BY <1>16, <1>p, <1>w, <1>o, <1>s, <1>j
     DEF ClearHistory, NullsAreOrphans, Column, Backfilling
<1>17. CASE UNCHANGED vars
  BY <1>17 DEF vars, NullsAreOrphans, Column, Backfilling
<1> QED
  BY <1>1, <1>2, <1>3, <1>4, <1>5, <1>6, <1>7, <1>8, <1>9, <1>10, <1>11, <1>12,
     <1>13, <1>14, <1>15, <1>16, <1>17 DEF Next, Migrate

\* Commit makes sessions only for jobs that have none.
LEMMA OneSessionPerJobKept ==
    ASSUME Values, Places, OrphansAreNull, SessionsExist, OneSessionPerJob, [Next]_vars
    PROVE  OneSessionPerJob'
<1>o. orphans \in [Callers -> SUBSET Jobs]
  BY DEF Values
<1>s. sessionOf \in [Jobs -> Callers \cup {Earlier, None}]
  BY DEF Values
<1>j. jobs \subseteq Jobs
  BY DEF Values
<1>1. ASSUME NEW c \in Callers, Call(c) PROVE OneSessionPerJob'
  BY <1>1, <1>o, <1>s, <1>j DEF Call, OneSessionPerJob
<1>2. ASSUME NEW c \in Callers, Enter(c) PROVE OneSessionPerJob'
  BY <1>2, <1>o, <1>s, <1>j DEF Enter, LockFree, OneSessionPerJob
<1>3. ASSUME NEW c \in Callers, NEW t \in Tables, CreateTable(c, t) PROVE OneSessionPerJob'
  BY <1>3, <1>o, <1>s, <1>j DEF CreateTable, OneSessionPerJob
<1>4. ASSUME NEW c \in Callers, InspectLeads(c) PROVE OneSessionPerJob'
  BY <1>4, <1>o, <1>s, <1>j DEF InspectLeads, OneSessionPerJob
<1>5. ASSUME NEW c \in Callers, AlterLeads(c) PROVE OneSessionPerJob'
  BY <1>5, <1>o, <1>s, <1>j DEF AlterLeads, AddColumn, OneSessionPerJob
<1>6. ASSUME NEW c \in Callers, InspectJobs(c) PROVE OneSessionPerJob'
  BY <1>6, <1>o, <1>s, <1>j DEF InspectJobs, OneSessionPerJob
<1>7. ASSUME NEW c \in Callers, AlterJobs(c) PROVE OneSessionPerJob'
  BY <1>7, <1>o, <1>s, <1>j DEF AlterJobs, AddColumn, OneSessionPerJob
<1>8. ASSUME NEW c \in Callers, ReadOrphans(c) PROVE OneSessionPerJob'
  BY <1>8, <1>o, <1>s, <1>j DEF ReadOrphans, OneSessionPerJob
<1>9. ASSUME NEW c \in Callers, Backfill(c) PROVE OneSessionPerJob'
  BY <1>9, <1>o, <1>s, <1>j DEF Backfill, MayWrite, OneSessionPerJob
<1>10. ASSUME NEW c \in Callers, CreateIndex(c) PROVE OneSessionPerJob'
  BY <1>10, <1>o, <1>s, <1>j DEF CreateIndex, MayWrite, OneSessionPerJob
<1>11. ASSUME NEW c \in Callers, Commit(c) PROVE OneSessionPerJob'
  <2>1. CASE writer = c
    <3> SUFFICES ASSUME NEW s \in sessions', s[1] \in jobs'
                 PROVE  sessionOf'[s[1]] = s[2]
      BY DEF OneSessionPerJob
    <3>1. /\ sessions' = sessions \cup (orphans[c] \X {c})
          /\ jobs' = jobs
          /\ sessionOf' = [j \in Jobs |-> IF j \in orphans[c] \cap jobs THEN c
                                          ELSE sessionOf[j]]
      BY <1>11, <2>1 DEF Commit
    <3>2. s[1] \in Jobs /\ sessionOf'[s[1]] = IF s[1] \in orphans[c] THEN c ELSE sessionOf[s[1]]
      BY <3>1, <1>j
    <3>3. CASE s \in sessions
      <4>1. sessionOf[s[1]] = s[2] /\ s[2] # None
        BY <3>1, <3>3 DEF Values, OneSessionPerJob, Earlier
      <4>2. s[1] \notin orphans[c]
        BY <3>1, <4>1 DEF OrphansAreNull
      <4> QED
        BY <3>2, <4>1, <4>2
    <3>4. CASE s \in orphans[c] \X {c}
      BY <3>2, <3>4
    <3> QED
      BY <3>1, <3>3, <3>4
  <2>2. CASE writer # c
    BY <1>11, <2>2 DEF Commit, OrphansAreNull, SessionsExist, OneSessionPerJob
  <2> QED
    BY <2>1, <2>2
<1>12. ASSUME NEW c \in Callers, SetReady(c) PROVE OneSessionPerJob'
  BY <1>12, <1>o, <1>s, <1>j DEF SetReady, Release, OneSessionPerJob
<1>13. ASSUME NEW c \in Callers, Duplicate(c) PROVE OneSessionPerJob'
  BY <1>13, <1>o, <1>s, <1>j DEF Duplicate, Unwind, Release, OneSessionPerJob
<1>14. ASSUME NEW c \in Callers, Raise(c) PROVE OneSessionPerJob'
  BY <1>14, <1>o, <1>s, <1>j DEF Raise, Unwind, Release, Backfilling, OneSessionPerJob
<1>15. ASSUME NEW p \in Procs, Crash(p) PROVE OneSessionPerJob'
  BY <1>15, <1>o, <1>s, <1>j DEF Crash, Backfilling, OneSessionPerJob
<1>16. ASSUME NEW p \in Procs, NEW u \in Users, ClearHistory(p, u) PROVE OneSessionPerJob'
  BY <1>16, <1>o, <1>s, <1>j DEF ClearHistory, OneSessionPerJob
<1>17. CASE UNCHANGED vars
  BY <1>17 DEF vars, OneSessionPerJob
<1> QED
  BY <1>1, <1>2, <1>3, <1>4, <1>5, <1>6, <1>7, <1>8, <1>9, <1>10, <1>11, <1>12,
     <1>13, <1>14, <1>15, <1>16, <1>17 DEF Next, Migrate

-----------------------------------------------------------------------------
\* Every file the program has written satisfies the invariant.
LEMMA InitIInv ==
    ASSUME Init
    PROVE  IInv
<1>1. PICK f \in Files : /\ schema = f.schema /\ jobs = f.jobs /\ sessions = f.made
                        /\ sessionOf = [j \in Jobs |-> IF <<j, Earlier>> \in f.made
                                                      THEN Earlier ELSE None]
  BY DEF Init
<1>2. /\ schema \subseteq Complete /\ jobs \subseteq Jobs
      /\ sessions \subseteq Jobs \X {Earlier}
      /\ sessionOf \in [Jobs -> {Earlier, None}]
      /\ \A j \in Jobs : sessionOf[j] = IF <<j, Earlier>> \in sessions THEN Earlier ELSE None
  BY <1>1 DEF Files, Complete, Tables
<1>3. "jobs" \notin schema => jobs = {}
  BY <1>1 DEF Files, Complete, Tables
<1>4. Column \in schema => sessions = Jobs \X {Earlier}
  BY <1>1 DEF Files, Column
<1>5. Values
  <2>1. sessions \subseteq Jobs \X (Callers \cup {Earlier})
    BY <1>2
  <2>2. sessionOf \in [Jobs -> Callers \cup {Earlier, None}]
    BY <1>2
  <2>3. faults \in 0 .. MaxFaults /\ crashes \in 0 .. MaxCrashes
    BY DEF Init
  <2>4. orphans \in [Callers -> SUBSET Jobs] /\ interrupted \in BOOLEAN
    BY DEF Init
  <2>5. ready \in [Procs -> BOOLEAN]
    BY DEF Init
  <2> QED
    BY <1>2, <2>1, <2>2, <2>3, <2>4, <2>5 DEF Values
<1>6. Places
  BY DEF Init, Places, Inside
<1>7. StatementsLast /\ ReadyIsComplete /\ JobsNeedTheirTable
  BY <1>3 DEF Init, StatementsLast, Inside, ReadyIsComplete, JobsNeedTheirTable
<1>8. OrphansAreHeld /\ OneBackfills /\ OrphansAreNull
  BY DEF Init, OrphansAreHeld, OneBackfills, Backfilling, OrphansAreNull
<1>9. SessionsExist
  BY <1>2 DEF SessionsExist
<1>10. NullsAreOrphans
  BY <1>2, <1>4 DEF NullsAreOrphans, Earlier
<1>11. OneSessionPerJob
  BY <1>2 DEF OneSessionPerJob
<1> QED
  BY <1>5, <1>6, <1>7, <1>8, <1>9, <1>10, <1>11 DEF IInv

\* IInv is inductive: the invariant of the migration holds in every reachable state.
THEOREM Invariance == Spec => []IInv
<1>1. IInv /\ [Next]_vars => IInv'
  BY ValuesKept, PlacesKept, StatementsLastKept,
     ReadyIsCompleteKept, JobsNeedTheirTableKept, OrphansAreHeldKept,
     OneBackfillsKept, OrphansAreNullKept, SessionsExistKept,
     NullsAreOrphansKept, OneSessionPerJobKept
     DEF IInv
<1> QED
  BY <1>1, InitIInv, PTL DEF Spec

\* Every variable keeps its type, and whoever is at work holds the lock of its process.
THEOREM TypeCorrect == Spec => []MigrationTypeOK
<1>1. IInv => MigrationTypeOK
  BY DEF IInv, Values, Places, MigrationTypeOK
<1> QED
  BY <1>1, Invariance, PTL

\* No store method of any process runs against a table that lacks a column its SQL
\* names, however many processes migrate one file and however often they die.
THEOREM NoMethodMeetsAnOldSchema == Spec => []ReadyIsComplete
BY Invariance, PTL DEF IInv

\* As long as no backfill is cut short, no job of an earlier version is left
\* outside the sessions.
THEOREM NothingIsStranded == Spec => []OldJobsHaveSessions
<1>1. IInv => OldJobsHaveSessions
  <2> SUFFICES ASSUME IInv, Column \in schema, ~interrupted,
                      \A c \in Callers : ~Backfilling(c),
                      NEW j \in jobs
               PROVE  <<j, sessionOf[j]>> \in sessions
    BY DEF OldJobsHaveSessions, Column
  <2>1. sessionOf[j] # None
    BY DEF IInv, NullsAreOrphans, Backfilling
  <2> QED
    BY <2>1 DEF IInv, SessionsExist
<1> QED
  BY <1>1, Invariance, PTL

\* However many processes migrate at once, no job gets a second session.
THEOREM NoSecondSession == Spec => []OneSessionPerJob
BY Invariance, PTL DEF IInv
=============================================================================
