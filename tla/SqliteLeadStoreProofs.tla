------------------------ MODULE SqliteLeadStoreProofs ------------------------
(***************************************************************************)
(* What the store's transactions do to its tables, for any number of rows. *)
(***************************************************************************)
EXTENDS SqliteLeadStore, WellFoundedInduction, FiniteSetTheorems, TLAPS

\* The rowids in use have an upper bound.
RowidsBounded == \E n \in Nat : DOMAIN leads \subseteq 1 .. n

\* A bounded non-empty set of positive numbers has a largest element, and Max is
\* one: the SELECT max(rowid) behind SQLite's choice of the next rowid.
LEMMA MaxIsLargest ==
    ASSUME NEW n \in Nat, NEW S \in SUBSET (1 .. n), S # {}
    PROVE  Max(S) \in S /\ \A s \in S : Max(S) >= s
<1> DEFINE T == {n - s : s \in S}
<1>1. T \subseteq Nat /\ T # {}
  <2>1. \A s \in S : s \in Nat /\ s <= n /\ n - s \in Nat
    OBVIOUS
  <2> QED
    BY <2>1
<1>2. PICK m \in T : \A k \in T : ~(<<k, m>> \in OpToRel(<, Nat))
  <2> HIDE DEF T
  <2> QED
    BY <1>1, NatLessThanWellFounded, WFMin
<1>3. \A k \in T : ~(k < m)
  <2> HIDE DEF T
  <2>1. \A k \in T : <<k, m>> \in Nat \X Nat
    BY <1>1
  <2> QED
    BY <1>2, <2>1 DEF OpToRel
<1>4. PICK s \in S : m = n - s
  BY <1>2
<1>5. \A t \in S : s >= t
  <2> TAKE t \in S
  <2>1. n - t \in T
    OBVIOUS
  <2>2. ~(n - t < n - s)
    BY <1>3, <1>4, <2>1
  <2>3. n \in Nat /\ s \in Nat /\ t \in Nat
    OBVIOUS
  <2> HIDE DEF T
  <2> QED
    BY <2>2, <2>3
<1> QED
  BY <1>5 DEF Max

\* An INSERT gets a rowid larger than those of the rows that are there.
LEMMA NextRowidIsLargest ==
    ASSUME RowidsBounded
    PROVE  NextRowid \in Nat \ {0} /\ \A r \in DOMAIN leads : r < NextRowid
<1>1. PICK n \in Nat : DOMAIN leads \subseteq 1 .. n
  BY DEF RowidsBounded
<1>2. CASE DOMAIN leads = {}
  BY <1>2 DEF NextRowid
<1>3. CASE DOMAIN leads # {}
  <2>1. Max(DOMAIN leads) \in DOMAIN leads /\ \A r \in DOMAIN leads : Max(DOMAIN leads) >= r
    BY <1>1, <1>3, MaxIsLargest
  <2>2. Max(DOMAIN leads) \in 1 .. n
    BY <1>1, <2>1
  <2>3. NextRowid = Max(DOMAIN leads) + 1
    BY <1>3 DEF NextRowid
  <2>4. \A r \in DOMAIN leads : r < NextRowid
    <3> TAKE r \in DOMAIN leads
    <3>1. r \in Nat /\ Max(DOMAIN leads) >= r
      BY <1>1, <2>1
    <3> QED
      BY <2>2, <2>3, <3>1
  <2> QED
    BY <2>2, <2>3, <2>4
<1> QED
  BY <1>2, <1>3

\* It never reuses the rowid of one of them.
LEMMA NextRowidIsFresh ==
    ASSUME RowidsBounded
    PROVE  NextRowid \in Nat \ {0} /\ NextRowid \notin DOMAIN leads
<1>1. NextRowid \in Nat \ {0} /\ \A r \in DOMAIN leads : r < NextRowid
  BY NextRowidIsLargest
<1>2. ASSUME NextRowid \in DOMAIN leads PROVE FALSE
  <2>1. NextRowid < NextRowid
    BY <1>1, <1>2
  <2> QED
    BY <1>1, <2>1
<1> QED
  BY <1>1, <1>2

\* Every transaction keeps the rowids bounded.
LEMMA BoundKept ==
    ASSUME RowidsBounded,
           \/ UNCHANGED leads
           \/ DOMAIN leads' \subseteq DOMAIN leads
           \/ \E j, card, ok : AppendLead(j, card, ok)
    PROVE  RowidsBounded'
<1>1. PICK n \in Nat : DOMAIN leads \subseteq 1 .. n
  BY DEF RowidsBounded
<1>2. CASE UNCHANGED leads
  BY <1>1, <1>2 DEF RowidsBounded
<1>3. CASE DOMAIN leads' \subseteq DOMAIN leads
  BY <1>1, <1>3 DEF RowidsBounded
<1>4. CASE \E j, card, ok : AppendLead(j, card, ok)
  <2>1. DOMAIN leads' = DOMAIN leads \cup {NextRowid}
    BY <1>4 DEF AppendLead, Insert
  <2>2. NextRowid \in Nat \ {0}
    BY NextRowidIsFresh
  <2> DEFINE m == n + NextRowid
  <2>3. m \in Nat /\ DOMAIN leads' \subseteq 1 .. m
    BY <1>1, <2>1, <2>2
  <2> QED
    BY <2>3 DEF RowidsBounded
<1> QED
  BY <1>2, <1>3, <1>4

-----------------------------------------------------------------------------
\* Each transaction, given arguments of the right kind, keeps the tables
\* well-formed.

LEMMA CreateSessionKeepsTables ==
    ASSUME TablesOK, NEW s \in Jobs, NEW user \in Users, CreateSession(s, user)
    PROVE  TablesOK'
<1> USE DEF TablesOK, CreateSession, Insert
<1>1. DOMAIN sessions' = DOMAIN sessions \cup {s}
  OBVIOUS
<1>2. \A k \in DOMAIN sessions' : sessions'[k] \in Users
  BY <1>1
<1>3. sessions' = [k \in DOMAIN sessions' |-> sessions'[k]]
  BY <1>1
<1> QED
  BY <1>1, <1>2, <1>3

LEMMA CreateJobKeepsTables ==
    ASSUME TablesOK, NEW j \in Jobs, NEW s \in Jobs, NEW total \in Card,
           CreateJob(j, s, total)
    PROVE  TablesOK'
<1> DEFINE new == [user |-> Owner[j], session |-> s, total |-> total, status |-> "queued"]
<1>1. new \in JobRow
  BY OwnerAssumption DEF JobRow, Status, Live
<1>2. jobs' = Insert(jobs, j, new) /\ UNCHANGED <<sessions, leads>>
  BY DEF CreateJob
<1> HIDE DEF new
<1>3. DOMAIN jobs' = DOMAIN jobs \cup {j}
  BY <1>2 DEF Insert
<1>4. \A k \in DOMAIN jobs' : jobs'[k] \in JobRow
  BY <1>1, <1>2 DEF Insert, TablesOK
<1>5. jobs' = [k \in DOMAIN jobs' |-> jobs'[k]]
  BY <1>2 DEF Insert
<1> QED
  BY <1>2, <1>3, <1>4, <1>5 DEF TablesOK

\* set_status touches no other column, row or table.
LEMMA SetStatusEffect ==
    ASSUME TablesOK, NEW j, NEW status \in Status, SetStatus(j, status)
    PROVE  /\ TablesOK'
           /\ DOMAIN jobs' = DOMAIN jobs
           /\ \A k \in DOMAIN jobs :
                /\ jobs'[k].user = jobs[k].user
                /\ jobs'[k].session = jobs[k].session
                /\ jobs'[k].total = jobs[k].total
                /\ jobs'[k].status = IF k = j THEN status ELSE jobs[k].status
<1>1. DOMAIN jobs' = DOMAIN jobs /\ jobs' = [k \in DOMAIN jobs' |-> jobs'[k]]
  BY DEF SetStatus
<1>2. ASSUME NEW k \in DOMAIN jobs
      PROVE  /\ jobs'[k] \in JobRow
             /\ jobs'[k].user = jobs[k].user
             /\ jobs'[k].session = jobs[k].session
             /\ jobs'[k].total = jobs[k].total
             /\ jobs'[k].status = IF k = j THEN status ELSE jobs[k].status
  <2>1. jobs[k] \in JobRow
    BY DEF TablesOK
  <2>2. jobs'[k] = IF k = j THEN [jobs[k] EXCEPT !.status = status] ELSE jobs[k]
    BY DEF SetStatus
  <2> QED
    BY <2>1, <2>2 DEF JobRow
<1>3. UNCHANGED <<sessions, leads>>
  BY DEF SetStatus
<1> QED
  BY <1>1, <1>2, <1>3 DEF TablesOK

\* The reclaim at boot fails the jobs in progress and touches nothing else.
LEMMA ReclaimEffect ==
    ASSUME TablesOK, ReclaimStaleJobs
    PROVE  /\ TablesOK'
           /\ DOMAIN jobs' = DOMAIN jobs
           /\ \A k \in DOMAIN jobs :
                /\ jobs'[k].user = jobs[k].user
                /\ jobs'[k].session = jobs[k].session
                /\ jobs'[k].total = jobs[k].total
                /\ jobs'[k].status = IF jobs[k].status \in Live
                                     THEN "failed" ELSE jobs[k].status
<1>1. DOMAIN jobs' = DOMAIN jobs /\ jobs' = [k \in DOMAIN jobs' |-> jobs'[k]]
  BY DEF ReclaimStaleJobs
<1>2. ASSUME NEW k \in DOMAIN jobs
      PROVE  /\ jobs'[k] \in JobRow
             /\ jobs'[k].user = jobs[k].user
             /\ jobs'[k].session = jobs[k].session
             /\ jobs'[k].total = jobs[k].total
             /\ jobs'[k].status = IF jobs[k].status \in Live
                                  THEN "failed" ELSE jobs[k].status
  <2>1. jobs[k] \in JobRow
    BY DEF TablesOK
  <2>2. jobs'[k] = IF jobs[k].status \in Live
                   THEN [jobs[k] EXCEPT !.status = "failed"] ELSE jobs[k]
    BY DEF ReclaimStaleJobs, Stale
  <2> QED
    BY <2>1, <2>2 DEF JobRow, Status, Live, Terminal
<1>3. UNCHANGED <<sessions, leads>>
  BY DEF ReclaimStaleJobs
<1> QED
  BY <1>1, <1>2, <1>3 DEF TablesOK

LEMMA AppendLeadKeepsTables ==
    ASSUME TablesOK, RowidsBounded, NEW j \in Jobs, NEW card \in Card,
           NEW ok \in BOOLEAN, AppendLead(j, card, ok)
    PROVE  TablesOK'
<1> DEFINE new == [job |-> j, card |-> card, ok |-> ok]
<1>1. new \in LeadRow
  BY DEF LeadRow
<1>2. leads' = Insert(leads, NextRowid, new) /\ UNCHANGED <<sessions, jobs>>
  BY DEF AppendLead
<1> HIDE DEF new
<1>3. DOMAIN leads' = DOMAIN leads \cup {NextRowid}
  BY <1>2 DEF Insert
<1>4. \A r \in DOMAIN leads' : leads'[r] \in LeadRow
  BY <1>1, <1>2 DEF Insert, TablesOK
<1>5. leads' = [r \in DOMAIN leads' |-> leads'[r]]
  BY <1>2 DEF Insert
<1> QED
  BY <1>2, <1>3, <1>4, <1>5, NextRowidIsFresh DEF TablesOK

\* What a clear leaves of each table: the rows of the other users.
LEMMA ClearEffect ==
    ASSUME TablesOK, NEW user, DeleteEverythingFor(user)
    PROVE  /\ TablesOK'
           /\ DOMAIN jobs' = {j \in DOMAIN jobs : jobs[j].user # user}
           /\ DOMAIN sessions' = {s \in DOMAIN sessions : sessions[s] # user}
           /\ DOMAIN leads' = {r \in DOMAIN leads : leads[r].job \notin JobsOf(user)}
           /\ \A j \in DOMAIN jobs' : jobs'[j] = jobs[j]
           /\ \A s \in DOMAIN sessions' : sessions'[s] = sessions[s]
           /\ \A r \in DOMAIN leads' : leads'[r] = leads[r]
<1> USE DEF DeleteEverythingFor, Delete, Restrict, JobsOf
<1>1. /\ DOMAIN jobs' = {j \in DOMAIN jobs : jobs[j].user # user}
      /\ DOMAIN sessions' = {s \in DOMAIN sessions : sessions[s] # user}
      /\ DOMAIN leads' = {r \in DOMAIN leads : leads[r].job \notin JobsOf(user)}
  OBVIOUS
<1>2. /\ \A j \in DOMAIN jobs' : jobs'[j] = jobs[j]
      /\ \A s \in DOMAIN sessions' : sessions'[s] = sessions[s]
      /\ \A r \in DOMAIN leads' : leads'[r] = leads[r]
  OBVIOUS
<1>3. /\ jobs' = [j \in DOMAIN jobs' |-> jobs'[j]]
      /\ sessions' = [s \in DOMAIN sessions' |-> sessions'[s]]
      /\ leads' = [r \in DOMAIN leads' |-> leads'[r]]
  OBVIOUS
<1>4. TablesOK'
  BY <1>1, <1>2, <1>3 DEF TablesOK
<1> QED
  BY <1>1, <1>2, <1>4

-----------------------------------------------------------------------------
\* before[x] is what precedes x in a strict total order of S.
IsOrderOn(S, before) ==
    /\ \A x \in S : before[x] \subseteq S /\ x \notin before[x]
    /\ \A x, y \in S : x # y => x \in before[y] \/ y \in before[x]
    /\ \A x, y \in S : x \in before[y] => before[x] \subseteq before[y]

\* An ORDER BY lists each row once, each after those before it: what comes before x
\* comes before all that x comes before, so the elements of S have different ranks,
\* and there are as many ranks as elements.
LEMMA OrderedLists ==
    ASSUME NEW S, NEW before, IsFiniteSet(S), IsOrderOn(S, before)
    PROVE  /\ Cardinality(S) \in Nat
           /\ Ordered(S, before) \in [1 .. Cardinality(S) -> S]
           /\ \A i \in 1 .. Cardinality(S) :
                Cardinality(before[Ordered(S, before)[i]]) = i - 1
           /\ \A x \in S : /\ Cardinality(before[x]) + 1 \in 1 .. Cardinality(S)
                           /\ Ordered(S, before)[Cardinality(before[x]) + 1] = x
           /\ \A i, k \in 1 .. Cardinality(S) :
                i < k => Ordered(S, before)[i] \in before[Ordered(S, before)[k]]
<1> DEFINE n == Cardinality(S)
           rank == [x \in S |-> Cardinality(before[x]) + 1]
<1> USE DEF IsOrderOn
<1>1. n \in Nat /\ IsFiniteSet(1 .. n) /\ Cardinality(1 .. n) = n
  <2>1. n \in Nat
    BY FS_CardinalityType
  <2> QED
    BY <2>1, FS_Interval
<1>2. \A x \in S : /\ rank[x] \in 1 .. n /\ rank[x] = Cardinality(before[x]) + 1
                   /\ Cardinality(before[x]) \in Nat
  <2> TAKE x \in S
  <2>1. before[x] \in SUBSET S /\ before[x] # S
    OBVIOUS
  <2>2. IsFiniteSet(before[x]) /\ Cardinality(before[x]) <= n /\ Cardinality(before[x]) # n
    BY <2>1, FS_Subset
  <2>3. Cardinality(before[x]) \in Nat
    BY <2>2, FS_CardinalityType
  <2> QED
    BY <1>1, <2>2, <2>3
<1>3. ASSUME NEW x \in S, NEW y \in S, x \in before[y] PROVE rank[x] < rank[y]
  <2>1. before[y] \in SUBSET S /\ before[x] \in SUBSET before[y] /\ before[x] # before[y]
    BY <1>3
  <2>2. IsFiniteSet(before[y])
    BY <2>1, FS_Subset
  <2>3. /\ Cardinality(before[x]) <= Cardinality(before[y])
        /\ Cardinality(before[x]) # Cardinality(before[y])
    BY <2>1, <2>2, FS_Subset
  <2> QED
    BY <1>2, <2>3
<1>4. \A x, y \in S : rank[x] = rank[y] => x = y
  <2> HIDE DEF rank, n
  <2> SUFFICES ASSUME NEW x \in S, NEW y \in S, x # y PROVE rank[x] # rank[y]
    OBVIOUS
  <2>1. rank[x] \in Int /\ rank[y] \in Int
    BY <1>1, <1>2
  <2>2. rank[x] < rank[y] \/ rank[y] < rank[x]
    BY <1>3
  <2> QED
    BY <2>1, <2>2
<1>5. rank \in Injection(S, 1 .. n)
  BY <1>2, <1>4 DEF Injection, IsInjective
<1>6. rank \in Surjection(S, 1 .. n)
  BY <1>1, <1>5, FS_Injection
<1>7. \A i \in 1 .. n : \E x \in S : rank[x] = i
  BY <1>6 DEF Surjection
<1>8. ASSUME NEW i \in 1 .. n
      PROVE  /\ Ordered(S, before)[i] \in S
             /\ rank[Ordered(S, before)[i]] = i
             /\ Cardinality(before[Ordered(S, before)[i]]) = i - 1
  <2> DEFINE o == CHOOSE x \in S : Cardinality(before[x]) = i - 1
  <2>1. PICK x \in S : rank[x] = i
    BY <1>7
  <2>2. Cardinality(before[x]) = i - 1
    BY <1>2, <2>1
  <2>3. o \in S /\ Cardinality(before[o]) = i - 1
    BY <2>2
  <2>4. Ordered(S, before)[i] = o
    BY DEF Ordered
  <2>5. rank[o] = (i - 1) + 1
    BY <2>3
  <2> HIDE DEF o, rank
  <2> QED
    BY <1>1, <2>3, <2>4, <2>5
<1>9. DOMAIN Ordered(S, before) = 1 .. n /\ Ordered(S, before) \in [1 .. n -> S]
  BY <1>8 DEF Ordered
<1>10. ASSUME NEW x \in S PROVE Ordered(S, before)[rank[x]] = x
  <2> HIDE DEF rank
  <2> QED
    BY <1>2, <1>4, <1>8
<1>11. ASSUME NEW i \in 1 .. n, NEW k \in 1 .. n, i < k
       PROVE  Ordered(S, before)[i] \in before[Ordered(S, before)[k]]
  <2> DEFINE x == Ordered(S, before)[i]
             y == Ordered(S, before)[k]
  <2>1. x \in S /\ y \in S /\ rank[x] = i /\ rank[y] = k
    BY <1>8
  <2>2. i \in Int /\ k \in Int
    OBVIOUS
  <2> HIDE DEF x, y, rank, n
  <2>3. ~(rank[y] < rank[x]) /\ rank[x] # rank[y]
    BY <1>11, <2>1, <2>2
  <2>4. x \in before[y]
    BY <1>3, <2>1, <2>3
  <2> QED
    BY <2>4 DEF x, y
<1> QED
  BY <1>1, <1>2, <1>8, <1>9, <1>10, <1>11
=============================================================================
