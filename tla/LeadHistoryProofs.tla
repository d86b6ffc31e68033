--------------------------- MODULE LeadHistoryProofs ---------------------------
(***************************************************************************)
(* What a reader of the history may rely on, in either store, for any      *)
(* number of rows, accounts and pages and whatever is written meanwhile.   *)
(* First what a page is, then what the writers can do to the rows that     *)
(* were there, then the invariants of a walk and of a session's view, and  *)
(* last that either store implements JobContract.                          *)
(***************************************************************************)
EXTENDS LeadHistory, SqliteLeadStoreProofs

USE JobsAreNumbers, CreatedAtAssumption, NoneAssumption
USE DEF HasJob, SessionOf

-----------------------------------------------------------------------------
\* The invariants of the rows, the walk and the view.

\* The rows are of the uploads there were, and a job is done when its cards are.
RowsFit ==
    /\ IsFiniteSet(opened) /\ IsFiniteSet(created)
    /\ \A j \in DOMAIN jobs : /\ jobs[j].user = Owner[j]
                              /\ jobs[j].status = "done" => Recorded(j) = 1 .. jobs[j].total
    /\ \A r \in DOMAIN leads : HasJob(leads[r].job)

\* A row of a list that was there when the walk began was shown or comes after the
\* cursor, and what was shown does not.
WalkGoesOn ==
    /\ walk.start \subseteq IF walk.list = "jobs" THEN created ELSE opened
    /\ ~walk.over => /\ walk.cursor # None
                     /\ \A i \in DOMAIN walk.shown : ~Before(Key(walk.shown[i]), walk.cursor)
    /\ \A id \in walk.start \cap Listed(walk.list) :
          id \in ToSet(walk.shown) \/ (~walk.over /\ Before(Key(id), walk.cursor))
    /\ WalkInOrder

\* A row that was read may be behind, never ahead: what it calls done is done.
ViewIsCurrent ==
    /\ \A i \in DOMAIN view.rows :
          LET row == view.rows[i]
          IN  /\ row.job \in created
              /\ HasJob(row.job) =>
                    /\ jobs[row.job].total = row.total
                    /\ row.status = "done" => jobs[row.job].status = "done"
    /\ ~view.over => view.rows = <<>> \/ Len(view.read) < Len(view.rows)
    /\ SessionViewIsComplete

HistoryInv == HistoryTypeOK /\ RowsFit /\ WalkGoesOn /\ ViewIsCurrent

-----------------------------------------------------------------------------
\* A page.

LEMMA MinOfTwo ==
    ASSUME NEW a \in Int, NEW b \in Int
    PROVE  /\ Min({a, b}) \in {a, b}
           /\ Min({a, b}) <= a /\ Min({a, b}) <= b
<1>1. \E m \in {a, b} : \A y \in {a, b} : m <= y
  OBVIOUS
<1> QED  BY <1>1 DEF Min

LEMMA MaxOfTwo ==
    ASSUME NEW a \in Int, NEW b \in Int
    PROVE  /\ Max({a, b}) \in {a, b}
           /\ Max({a, b}) >= a /\ Max({a, b}) >= b
<1>1. \E m \in {a, b} : \A y \in {a, b} : m >= y
  OBVIOUS
<1> QED  BY <1>1 DEF Max

\* The route's clamp.
LEMMA ClampedLimit ==
    ASSUME NEW limit \in Limits
    PROVE  Clamped(limit) \in 1 .. MaxPage
<1>1. limit \in Nat /\ MaxPage \in Nat \ {0} /\ limit \in Int /\ MaxPage \in Int
  BY PagesAssumption
<1>2. Min({limit, MaxPage}) \in {limit, MaxPage} /\ Min({limit, MaxPage}) <= MaxPage
  BY <1>1, MinOfTwo
<1>3. PICK m \in Nat : m = Min({limit, MaxPage}) /\ m <= MaxPage
  BY <1>1, <1>2
<1>4. Max({1, m}) \in {1, m} /\ Max({1, m}) >= 1
  BY <1>3, MaxOfTwo
<1>5. Clamped(limit) = Max({1, m})
  BY <1>3 DEF Clamped
<1> QED  BY <1>1, <1>3, <1>4, <1>5

\* (created_at, id) is a strict total order of the rows.
LEMMA KeysAreOrdered ==
    ASSUME NEW x \in Jobs, NEW y \in Jobs, NEW z \in Jobs
    PROVE  /\ Key(x) # None
           /\ Key(x) = Key(y) => x = y
           /\ ~Before(Key(x), Key(x))
           /\ x # y => Before(Key(x), Key(y)) \/ Before(Key(y), Key(x))
           /\ Before(Key(x), Key(y)) => ~Before(Key(y), Key(x))
           /\ Before(Key(x), Key(y)) /\ Before(Key(y), Key(z)) => Before(Key(x), Key(z))
<1>1. /\ x \in Nat /\ y \in Nat /\ z \in Nat
      /\ CreatedAt[x] \in Nat /\ CreatedAt[y] \in Nat /\ CreatedAt[z] \in Nat
  OBVIOUS
<1>2. Key(x) \in [at : Nat, id : Nat]
  BY <1>1 DEF Key
<1>3. Key(x) # None
  BY <1>2
<1>4. Key(x) = Key(y) => x = y
  BY DEF Key
<1> QED  BY <1>1, <1>3, <1>4 DEF Key, Before

Newer(ids) == [id \in ids |-> {n \in ids : Before(Key(id), Key(n))}]

\* What a page shows and what it leaves for the next: newest first, nothing missing,
\* and a cursor that is before everything shown and not before anything left.
LEMMA CutLists ==
    ASSUME NEW ids \in SUBSET Jobs, IsFiniteSet(ids), NEW limit \in Nat \ {0}
    PROVE  LET cut == Cut(ids, limit)
           IN  /\ cut.rows \in Seq(ids)
               /\ \A i, k \in DOMAIN cut.rows :
                     i < k => Before(Key(cut.rows[k]), Key(cut.rows[i]))
               /\ cut.next = None => \A id \in ids : \E i \in DOMAIN cut.rows : cut.rows[i] = id
               /\ cut.next # None =>
                     \E x \in ids :
                        /\ cut.next = Key(x)
                        /\ \A i \in DOMAIN cut.rows : ~Before(Key(cut.rows[i]), Key(x))
                        /\ \A id \in ids : \/ \E i \in DOMAIN cut.rows : cut.rows[i] = id
                                           \/ Before(Key(id), Key(x))
<1> DEFINE o == Ordered(ids, Newer(ids))
           N == Cardinality(ids)
           m == Min({limit, N})
<1>1. IsOrderOn(ids, Newer(ids))
  <2>1. \A x \in ids : Newer(ids)[x] = {n \in ids : Before(Key(x), Key(n))}
    BY DEF Newer
  <2> USE DEF IsOrderOn
  <2>2. \A x \in ids : Newer(ids)[x] \subseteq ids /\ x \notin Newer(ids)[x]
    BY <2>1, KeysAreOrdered
  <2>3. \A x, y \in ids : x # y => x \in Newer(ids)[y] \/ y \in Newer(ids)[x]
    BY <2>1, KeysAreOrdered
  <2>4. \A x, y \in ids : x \in Newer(ids)[y] => Newer(ids)[x] \subseteq Newer(ids)[y]
    BY <2>1, KeysAreOrdered
  <2> QED  BY <2>2, <2>3, <2>4
<1>2. PICK before : before = Newer(ids)
  OBVIOUS
<1>3. /\ N \in Nat /\ o \in [1 .. N -> ids]
      /\ \A x \in ids : \E i \in 1 .. N : o[i] = x
      /\ \A i, k \in 1 .. N : i < k => o[i] \in Newer(ids)[o[k]]
  <2>1. /\ N \in Nat /\ o \in [1 .. N -> ids]
        /\ \A x \in ids : /\ Cardinality(before[x]) + 1 \in 1 .. N
                          /\ o[Cardinality(before[x]) + 1] = x
        /\ \A i, k \in 1 .. N : i < k => o[i] \in before[o[k]]
    BY <1>1, <1>2, OrderedLists
  <2> HIDE DEF o, N
  <2> QED  BY <1>2, <2>1
<1>4. \A i, k \in 1 .. N : i < k => Before(Key(o[k]), Key(o[i]))
  BY <1>3 DEF Newer
<1>5. m \in Nat /\ m <= N /\ m <= limit /\ (N <= limit => m = N) /\ (N > limit => m = limit)
  <2>1. m \in {limit, N} /\ m <= limit /\ m <= N
    <3> HIDE DEF o, N
    <3>1. N \in Int /\ limit \in Int
      BY <1>3
    <3> QED  BY <3>1, MinOfTwo
  <2> HIDE DEF m
  <2> QED  BY <1>3, <2>1
<1>6. Len(o) = N /\ o \in Seq(ids)
  <2> HIDE DEF o, N
  <2> QED  BY <1>3
<1> DEFINE page == SubSeq(o, 1, m)
           next == IF N > limit /\ page # <<>> THEN Key(Last(page)) ELSE None
<1>7. Cut(ids, limit) = [rows |-> page, next |-> next]
  BY <1>6, Zenon DEF Cut, Newer
<1> HIDE DEF o, N, m
<1>8. page \in Seq(ids) /\ Len(page) = m /\ \A i \in 1 .. m : page[i] = o[i] /\ i \in 1 .. N
  BY <1>3, <1>5, <1>6
<1> HIDE DEF page
<1>9. DOMAIN page = 1 .. m
  BY <1>5, <1>8
<1>10. \A i, k \in DOMAIN page : i < k => Before(Key(page[k]), Key(page[i]))
  BY <1>4, <1>8, <1>9
<1>11. ASSUME next = None
       PROVE  \A id \in ids : \E i \in DOMAIN page : page[i] = id
  <2>1. N <= limit
    <3> SUFFICES ASSUME N > limit PROVE FALSE
      BY <1>3
    <3>1. m \in 1 .. m /\ m = limit /\ m # 0
      BY <1>5
    <3>2. page # <<>> /\ Last(page) = page[m] /\ page[m] \in ids
      BY <1>8, <3>1 DEF Last
    <3> QED  BY <1>11, <3>2, KeysAreOrdered
  <2>2. m = N
    BY <1>5, <2>1
  <2> QED  BY <1>3, <1>8, <1>9, <2>2
<1>12. ASSUME next # None
       PROVE  \E x \in ids :
                 /\ next = Key(x)
                 /\ \A i \in DOMAIN page : ~Before(Key(page[i]), Key(x))
                 /\ \A id \in ids : \/ \E i \in DOMAIN page : page[i] = id
                                    \/ Before(Key(id), Key(x))
  <2>1. N > limit /\ page # <<>> /\ next = Key(Last(page))
    BY <1>12
  <2>2. m = limit /\ m \in 1 .. m /\ m \in 1 .. N
    BY <1>3, <1>5, <2>1
  <2>3. Last(page) = o[m] /\ o[m] \in ids /\ page[m] = o[m]
    BY <1>3, <1>8, <2>2 DEF Last
  <2>4. \A i \in DOMAIN page : ~Before(Key(page[i]), Key(o[m]))
    <3> TAKE i \in DOMAIN page
    <3>1. i \in 1 .. N /\ page[i] = o[i] /\ o[i] \in ids /\ i \in Nat /\ i <= m
      BY <1>3, <1>5, <1>8, <1>9
    <3>2. CASE i = m
      BY <2>3, <3>1, <3>2, KeysAreOrdered
    <3>3. CASE i < m
      <4>1. Before(Key(o[m]), Key(o[i]))
        BY <1>4, <2>2, <3>1, <3>3
      <4> QED  BY <2>3, <3>1, <4>1, KeysAreOrdered
    <3> QED  BY <1>5, <3>1, <3>2, <3>3
  <2>5. ASSUME NEW id \in ids
        PROVE  (\E i \in DOMAIN page : page[i] = id) \/ Before(Key(id), Key(o[m]))
    <3>1. PICK i \in 1 .. N : o[i] = id
      BY <1>3
    <3>2. CASE i <= m
      BY <1>5, <1>8, <1>9, <3>1, <3>2
    <3>3. CASE m < i
      BY <1>4, <2>2, <3>1, <3>3
    <3> QED  BY <1>5, <3>2, <3>3
  <2> QED  BY <2>1, <2>3, <2>4, <2>5
<1> HIDE DEF next
<1> QED  BY <1>7, <1>8, <1>10, <1>11, <1>12

-----------------------------------------------------------------------------
\* The writers.  Each is shown to keep the rows in order, by what it does to them.

StoreFits ==
    /\ TablesOK /\ RowidsBounded /\ RowsFit
    /\ backend \in {"sqlite", "memory"}
    /\ Memory => DOMAIN arrival = DOMAIN jobs
    /\ IsInsertionOrder(arrival)
    /\ DOMAIN sessions \subseteq opened /\ opened \subseteq Jobs
    /\ DOMAIN jobs \subseteq created /\ created \subseteq Jobs

\* No writer turns a row into another one or brings one back, and a job that is done
\* stays done: what readers rely on.
RowsRemain ==
    /\ created \subseteq created' /\ opened \subseteq opened'
    /\ \A j \in DOMAIN jobs' \cap created :
          /\ HasJob(j)
          /\ jobs'[j].user = jobs[j].user
          /\ jobs'[j].total = jobs[j].total
          /\ jobs[j].status = "done" => jobs'[j].status = "done"
    /\ \A s \in DOMAIN sessions' \cap opened : s \in DOMAIN sessions /\ sessions'[s] = sessions[s]

\* Dropping keys from a dict keeps the order of the others.
LEMMA WithoutKeepsOrder ==
    ASSUME NEW earlier, IsInsertionOrder(earlier), NEW gone
    PROVE  /\ DOMAIN Without(earlier, gone) = DOMAIN earlier \ gone
           /\ IsInsertionOrder(Without(earlier, gone))
  BY DEF IsInsertionOrder, Without

\* A new key comes after all the others.
LEMMA InsertKeepsOrder ==
    ASSUME NEW earlier, IsInsertionOrder(earlier), NEW j, j \notin DOMAIN earlier
    PROVE  LET new == Insert(earlier, j, DOMAIN earlier)
           IN  DOMAIN new = DOMAIN earlier \cup {j} /\ IsInsertionOrder(new)
<1> DEFINE new == Insert(earlier, j, DOMAIN earlier)
<1>1. DOMAIN new = DOMAIN earlier \cup {j}
  BY DEF Insert
<1>2. new[j] = DOMAIN earlier /\ \A k \in DOMAIN earlier : new[k] = earlier[k]
  BY DEF Insert
<1> HIDE DEF new
<1>3. IsInsertionOrder(new)
  BY <1>1, <1>2 DEF IsInsertionOrder
<1> QED  BY <1>1, <1>3 DEF new

\* The leads go with their jobs, and only they do.
LEMMA LeadsWithoutEffect ==
    ASSUME TablesOK, NEW gone, leads' = LeadsWithout(gone)
    PROVE  /\ DOMAIN leads' = {r \in DOMAIN leads : leads[r].job \notin gone}
           /\ \A r \in DOMAIN leads' : leads'[r] = leads[r]
           /\ leads' = [r \in DOMAIN leads' |-> leads'[r]]
           /\ \A k : k \notin gone => Recorded(k)' = Recorded(k)
           /\ \A k : k \in gone => Recorded(k)' = {}
<1>1. DOMAIN leads' = {r \in DOMAIN leads : leads[r].job \notin gone}
  BY DEF LeadsWithout, Delete, Restrict
<1>2. \A r \in DOMAIN leads' : leads'[r] = leads[r]
  BY DEF LeadsWithout, Delete, Restrict
<1>3. leads' = [r \in DOMAIN leads' |-> leads'[r]]
  BY DEF LeadsWithout, Delete, Restrict
<1>4. ASSUME NEW k, k \notin gone PROVE LeadRows(k)' = LeadRows(k)
  BY <1>1, <1>2, <1>4 DEF LeadRows
<1>5. ASSUME NEW k, k \notin gone PROVE Recorded(k)' = Recorded(k)
  BY <1>1, <1>2, <1>4, <1>5 DEF Recorded, LeadRows
<1>6. ASSUME NEW k, k \in gone PROVE Recorded(k)' = {}
  BY <1>1, <1>2, <1>6 DEF Recorded, LeadRows
<1> QED  BY <1>1, <1>2, <1>3, <1>5, <1>6

LEMMA RecordedStays ==
    ASSUME UNCHANGED leads
    PROVE  \A k : Recorded(k)' = Recorded(k)
  BY DEF Recorded, LeadRows

LEMMA OpenSessionFits ==
    ASSUME StoreFits, NEW j \in Jobs, OpenSession(j)
    PROVE  StoreFits' /\ RowsRemain
<1> USE DEF StoreFits
<1>1. /\ CreateSession(j, Owner[j])
      /\ UNCHANGED <<backend, arrival, jobs, leads, created>>
      /\ j \notin opened /\ opened' = opened \cup {j}
  BY DEF OpenSession, MemCreateSession, CreateSession, Reads
<1>2. sessions' = Insert(sessions, j, Owner[j])
  BY <1>1 DEF CreateSession
<1>3. Owner[j] \in Users
  BY OwnerAssumption
<1>4. TablesOK'
  BY <1>1, <1>3, CreateSessionKeepsTables
<1>5. RowidsBounded'
  BY <1>1, BoundKept
<1>6. RowsFit'
  <2>1. IsFiniteSet(opened')
    BY <1>1, FS_AddElement DEF RowsFit
  <2> QED  BY <1>1, <2>1, RecordedStays DEF RowsFit
<1>7. DOMAIN sessions' = DOMAIN sessions \cup {j}
  BY <1>2 DEF Insert
<1>8. \A s \in DOMAIN sessions : s # j => sessions'[s] = sessions[s]
  BY <1>2 DEF Insert
<1>9. RowsRemain
  BY <1>1, <1>7, <1>8 DEF RowsRemain
<1> QED  BY <1>1, <1>4, <1>5, <1>6, <1>7, <1>9 DEF Memory

\* A new job is queued, whole and alone: the jobs it evicts are over, and only the
\* store in memory evicts any.
LEMMA CreateJobInEffect ==
    ASSUME StoreFits, NEW j \in Jobs, CreateJobIn(j)
    PROVE  \E gone \in SUBSET {k \in DOMAIN jobs : jobs[k].status \in Terminal}, n \in Card :
             /\ gone # {} => Memory
             /\ jobs' = Delete(Insert(jobs, j, [user |-> Owner[j], session |-> Home[j],
                                               total |-> n, status |-> "queued"]), gone)
             /\ leads' = LeadsWithout(gone)
             /\ IF Memory
                THEN arrival' = Without(Insert(arrival, j, DOMAIN arrival), gone)
                ELSE UNCHANGED arrival
<1> DEFINE Table(n) == Insert(jobs, j, [user |-> Owner[j], session |-> Home[j],
                                        total |-> n, status |-> "queued"])
<1>1. j \notin DOMAIN jobs
  BY DEF CreateJobIn, StoreFits
<1>2. CASE Memory
  <2>1. PICK n \in Card : MemCreateJob(j, Home[j], n)
    BY <1>2 DEF CreateJobIn
  <2> DEFINE earlier == Insert(arrival, j, DOMAIN arrival)
             gone    == Pruned(Table(n), earlier)
  <2>2. /\ jobs' = Delete(Table(n), gone) /\ leads' = LeadsWithout(gone)
        /\ arrival' = Without(earlier, gone)
    BY <2>1, Zenon DEF MemCreateJob
  <2>3. gone \subseteq Removable(Table(n))
    BY DEF Pruned
  <2> HIDE DEF gone
  <2>4. gone \subseteq {k \in DOMAIN jobs : jobs[k].status \in Terminal}
    BY <2>3 DEF Removable, Insert, Terminal
  <2> gone \in SUBSET {k \in DOMAIN jobs : jobs[k].status \in Terminal}
    BY <2>4
  <2> WITNESS gone \in SUBSET {k \in DOMAIN jobs : jobs[k].status \in Terminal}, n \in Card
  <2> QED  BY <1>2, <2>2
<1>3. CASE ~Memory
  <2>1. PICK n \in Card : CreateJob(j, Home[j], n)
    BY <1>3 DEF CreateJobIn
  <2>2. UNCHANGED <<leads, arrival>> /\ jobs' = Table(n)
    BY <1>3, <2>1 DEF CreateJob, CreateJobIn
  <2>3. leads = [r \in DOMAIN leads |-> leads[r]]
    BY DEF StoreFits, TablesOK
  <2>4. LeadsWithout({}) = leads
    BY <2>3 DEF LeadsWithout, Delete, Restrict
  <2>5. Delete(Table(n), {}) = Table(n)
    BY DEF Delete, Restrict, Insert
  <2>6. jobs' = Delete(Table(n), {}) /\ leads' = LeadsWithout({})
    BY <2>2, <2>4, <2>5
  <2> WITNESS {} \in SUBSET {k \in DOMAIN jobs : jobs[k].status \in Terminal}, n \in Card
  <2> QED  BY <1>3, <2>2, <2>6
<1> QED  BY <1>2, <1>3

LEMMA CreateJobInFits ==
    ASSUME StoreFits, NEW j \in Jobs, CreateJobIn(j)
    PROVE  StoreFits' /\ RowsRemain
<1> USE DEF StoreFits
<1>1. PICK gone \in SUBSET {k \in DOMAIN jobs : jobs[k].status \in Terminal}, n \in Card :
        /\ jobs' = Delete(Insert(jobs, j, [user |-> Owner[j], session |-> Home[j],
                                          total |-> n, status |-> "queued"]), gone)
        /\ leads' = LeadsWithout(gone)
        /\ IF Memory
           THEN arrival' = Without(Insert(arrival, j, DOMAIN arrival), gone)
           ELSE UNCHANGED arrival
  BY CreateJobInEffect
<1>2. /\ UNCHANGED <<backend, sessions, opened>>
      /\ j \notin created /\ created' = created \cup {j}
  BY DEF CreateJobIn, MemCreateJob, CreateJob, Reads
<1>3. j \notin DOMAIN jobs /\ j \notin gone
  BY <1>1, <1>2
<1> DEFINE new == [user |-> Owner[j], session |-> Home[j], total |-> n, status |-> "queued"]
<1>4. new \in JobRow
  BY OwnerAssumption, HomeAssumption DEF JobRow, Status, Live
<1>5. new.user = Owner[j] /\ new.status # "done"
  OBVIOUS
<1>6. jobs' = Delete(Insert(jobs, j, new), gone)
  BY <1>1
<1> HIDE DEF new
<1>7. /\ DOMAIN jobs' = (DOMAIN jobs \cup {j}) \ gone
      /\ jobs' = [k \in DOMAIN jobs' |-> jobs'[k]]
      /\ jobs'[j] = new
      /\ \A k \in DOMAIN jobs \ gone : jobs'[k] = jobs[k]
  BY <1>3, <1>6 DEF Delete, Restrict, Insert
<1>8. /\ DOMAIN leads' = {r \in DOMAIN leads : leads[r].job \notin gone}
      /\ \A r \in DOMAIN leads' : leads'[r] = leads[r]
      /\ leads' = [r \in DOMAIN leads' |-> leads'[r]]
      /\ \A k : k \notin gone => Recorded(k)' = Recorded(k)
  BY <1>1, LeadsWithoutEffect
<1>9. TablesOK'
  <2>1. \A k \in DOMAIN jobs' : jobs'[k] \in JobRow
    BY <1>4, <1>7 DEF TablesOK
  <2>2. DOMAIN leads' \subseteq Nat \ {0} /\ \A r \in DOMAIN leads' : leads'[r] \in LeadRow
    BY <1>8 DEF TablesOK
  <2>3. DOMAIN jobs' \subseteq Jobs
    BY <1>7 DEF TablesOK
  <2> QED  BY <1>2, <1>7, <1>8, <2>1, <2>2, <2>3 DEF TablesOK
<1>10. RowidsBounded'
  <2>1. DOMAIN leads' \subseteq DOMAIN leads
    BY <1>8
  <2> QED  BY <2>1, BoundKept
<1>11. RowsFit'
  <2>1. IsFiniteSet(created') /\ IsFiniteSet(opened')
    BY <1>2, FS_AddElement DEF RowsFit
  <2>2. ASSUME NEW k \in DOMAIN jobs'
        PROVE  /\ jobs'[k].user = Owner[k]
               /\ jobs'[k].status = "done" => Recorded(k)' = 1 .. jobs'[k].total
    <3>1. CASE k = j
      BY <1>5, <1>7, <3>1
    <3>2. CASE k # j
      BY <1>7, <1>8, <3>2 DEF RowsFit
    <3> QED  BY <3>1, <3>2
  <2>3. \A r \in DOMAIN leads' : leads'[r].job \in DOMAIN jobs'
    BY <1>7, <1>8 DEF RowsFit
  <2> QED  BY <2>1, <2>2, <2>3 DEF RowsFit
<1>12. (Memory => DOMAIN arrival = DOMAIN jobs)' /\ IsInsertionOrder(arrival)'
  <2>1. CASE Memory
    <3>1. PICK a : a = arrival
      OBVIOUS
    <3>2. IsInsertionOrder(a) /\ j \notin DOMAIN a
      BY <1>3, <2>1, <3>1
    <3> DEFINE e == Insert(a, j, DOMAIN a)
    <3>3. DOMAIN e = DOMAIN a \cup {j} /\ IsInsertionOrder(e)
      BY <3>2, InsertKeepsOrder
    <3>4. arrival' = Without(e, gone)
      BY <1>1, <2>1, <3>1
    <3> HIDE DEF e
    <3>5. PICK f : f = e
      OBVIOUS
    <3>6. DOMAIN arrival' = DOMAIN f \ gone /\ IsInsertionOrder(arrival')
      BY <3>3, <3>4, <3>5, WithoutKeepsOrder
    <3> QED  BY <1>7, <2>1, <3>1, <3>3, <3>5, <3>6
  <2>2. CASE ~Memory
    BY <1>1, <1>2, <2>2 DEF Memory
  <2> QED  BY <2>1, <2>2
<1>13. RowsRemain
  BY <1>2, <1>7 DEF RowsRemain
<1>14. /\ DOMAIN sessions' \subseteq opened' /\ opened' \subseteq Jobs
       /\ DOMAIN jobs' \subseteq created' /\ created' \subseteq Jobs
       /\ backend' \in {"sqlite", "memory"}
  BY <1>2, <1>7
<1> QED  BY <1>9, <1>10, <1>11, <1>12, <1>13, <1>14

\* A lead more for a job in progress, or for one that failed.
LEMMA AddLeadEffect ==
    ASSUME StoreFits, NEW j \in Jobs, AddLead(j)
    PROVE  /\ HasJob(j) /\ jobs[j].status # "done"
           /\ UNCHANGED <<backend, arrival, sessions, jobs, created, opened>>
           /\ \E c \in 1 .. jobs[j].total \ Recorded(j) :
                /\ AppendLead(j, c, TRUE)
                /\ Recorded(j)' = Recorded(j) \cup {c}
                /\ \A k : k # j => Recorded(k)' = Recorded(k)
<1>1. PICK c \in 1 .. jobs[j].total \ Recorded(j) : AppendLead(j, c, TRUE)
  BY DEF AddLead, MemAppendLead
<1>2. UNCHANGED <<backend, arrival, sessions, jobs, created, opened>>
  BY DEF AddLead, MemAppendLead, AppendLead, Seen
<1>3. leads' = Insert(leads, NextRowid, [job |-> j, card |-> c, ok |-> TRUE])
  BY <1>1 DEF AppendLead
<1>4. NextRowid \notin DOMAIN leads
  BY NextRowidIsFresh DEF StoreFits
<1>5. /\ DOMAIN leads' = DOMAIN leads \cup {NextRowid}
      /\ leads'[NextRowid].job = j /\ leads'[NextRowid].card = c
      /\ \A r \in DOMAIN leads : leads'[r] = leads[r]
  BY <1>3, <1>4 DEF Insert
<1>6. /\ Recorded(j)' = Recorded(j) \cup {c}
      /\ \A k : k # j => Recorded(k)' = Recorded(k)
  BY <1>5 DEF Recorded, LeadRows
<1> QED  BY <1>1, <1>2, <1>6 DEF AddLead

LEMMA AddLeadFits ==
    ASSUME StoreFits, NEW j \in Jobs, AddLead(j)
    PROVE  StoreFits' /\ RowsRemain
<1> USE DEF StoreFits
<1>1. /\ HasJob(j) /\ jobs[j].status # "done"
      /\ UNCHANGED <<backend, arrival, sessions, jobs, created, opened>>
  BY AddLeadEffect
<1>2. PICK c \in 1 .. jobs[j].total \ Recorded(j) :
         /\ AppendLead(j, c, TRUE)
         /\ \A k : k # j => Recorded(k)' = Recorded(k)
  BY AddLeadEffect
<1>3. jobs[j] \in JobRow
  BY <1>1 DEF TablesOK
<1>4. c \in Card
  BY <1>3, MaxCardsAssumption DEF JobRow, Card
<1>5. TablesOK'
  BY <1>2, <1>4, AppendLeadKeepsTables
<1>6. RowidsBounded'
  BY <1>2, BoundKept
<1>7. RowsFit'
  <2>1. DOMAIN leads' = DOMAIN leads \cup {NextRowid} /\ leads'[NextRowid].job = j
        /\ \A r \in DOMAIN leads : r # NextRowid => leads'[r] = leads[r]
    BY <1>2 DEF AppendLead, Insert
  <2>2. \A r \in DOMAIN leads' : leads'[r].job \in DOMAIN jobs'
    BY <1>1, <2>1 DEF RowsFit
  <2> QED  BY <1>1, <1>2, <2>2 DEF RowsFit
<1>8. RowsRemain
  BY <1>1 DEF RowsRemain
<1> QED  BY <1>1, <1>5, <1>6, <1>7, <1>8 DEF Memory

LEMMA SettleFits ==
    ASSUME StoreFits, NEW j \in Jobs, Settle(j)
    PROVE  StoreFits' /\ RowsRemain
<1> USE DEF StoreFits
<1>1. PICK status \in Terminal : /\ status = "done" => Recorded(j) = 1 .. jobs[j].total
                                 /\ SetStatus(j, status)
  BY DEF Settle, MemSetStatus
<1>2. UNCHANGED <<backend, arrival, sessions, leads, created, opened>>
  BY DEF Settle, MemSetStatus, SetStatus, Seen
<1>3. jobs[j].status # "done" /\ status \in Status
  BY DEF Settle, Live, Status
<1>4. /\ TablesOK'
      /\ DOMAIN jobs' = DOMAIN jobs
      /\ \A k \in DOMAIN jobs :
           /\ jobs'[k].user = jobs[k].user
           /\ jobs'[k].total = jobs[k].total
           /\ jobs'[k].status = IF k = j THEN status ELSE jobs[k].status
  BY <1>1, <1>3, SetStatusEffect
<1>5. RowidsBounded'
  BY <1>2, BoundKept
<1>6. RowsFit'
  BY <1>1, <1>2, <1>4, RecordedStays DEF RowsFit
<1>7. RowsRemain
  BY <1>2, <1>3, <1>4 DEF RowsRemain
<1> QED  BY <1>2, <1>4, <1>5, <1>6, <1>7 DEF Memory

LEMMA ClearHistoryFits ==
    ASSUME StoreFits, NEW user \in Users, ClearHistory(user)
    PROVE  StoreFits' /\ RowsRemain
<1> USE DEF StoreFits
<1>1. PICK gone : gone = JobsOf(user)
  OBVIOUS
<1>2. /\ DeleteEverythingFor(user) /\ UNCHANGED <<backend, created, opened>>
      /\ IF Memory THEN arrival' = Without(arrival, gone) ELSE UNCHANGED arrival
  BY <1>1 DEF ClearHistory, MemDeleteEverythingFor, Seen
<1>3. /\ TablesOK'
      /\ DOMAIN jobs' = {k \in DOMAIN jobs : jobs[k].user # user}
      /\ DOMAIN sessions' = {s \in DOMAIN sessions : sessions[s] # user}
      /\ DOMAIN leads' = {r \in DOMAIN leads : leads[r].job \notin JobsOf(user)}
      /\ \A k \in DOMAIN jobs' : jobs'[k] = jobs[k]
      /\ \A s \in DOMAIN sessions' : sessions'[s] = sessions[s]
      /\ \A r \in DOMAIN leads' : leads'[r] = leads[r]
  BY <1>2, ClearEffect
<1>4. leads' = LeadsWithout(gone)
  BY <1>1, <1>2 DEF DeleteEverythingFor, LeadsWithout
<1>5. \A k : k \notin gone => Recorded(k)' = Recorded(k)
  BY <1>4, LeadsWithoutEffect
<1>6. DOMAIN jobs' = DOMAIN jobs \ gone
  BY <1>1, <1>3 DEF JobsOf
<1>7. RowidsBounded'
  <2>1. DOMAIN leads' \subseteq DOMAIN leads
    BY <1>3
  <2> QED  BY <2>1, BoundKept
<1>8. RowsFit'
  <2>1. \A r \in DOMAIN leads' : leads'[r].job \in DOMAIN jobs'
    BY <1>1, <1>3, <1>6 DEF RowsFit
  <2>2. \A k \in DOMAIN jobs' : /\ jobs'[k].user = Owner[k]
                                /\ jobs'[k].status = "done" => Recorded(k)' = 1 .. jobs'[k].total
    BY <1>3, <1>5, <1>6 DEF RowsFit
  <2> QED  BY <1>2, <2>1, <2>2 DEF RowsFit
<1>9. (Memory => DOMAIN arrival = DOMAIN jobs)' /\ IsInsertionOrder(arrival)'
  <2>1. CASE Memory
    <3>1. PICK a : a = arrival
      OBVIOUS
    <3>2. arrival' = Without(a, gone) /\ IsInsertionOrder(a)
      BY <1>2, <2>1, <3>1
    <3>3. DOMAIN arrival' = DOMAIN a \ gone /\ IsInsertionOrder(arrival')
      BY <3>2, WithoutKeepsOrder
    <3> QED  BY <1>6, <2>1, <3>1, <3>3
  <2>2. CASE ~Memory
    BY <1>2, <2>2 DEF Memory
  <2> QED  BY <2>1, <2>2
<1>10. RowsRemain
  BY <1>2, <1>3 DEF RowsRemain
<1>11. /\ DOMAIN sessions' \subseteq opened' /\ opened' \subseteq Jobs
       /\ DOMAIN jobs' \subseteq created' /\ created' \subseteq Jobs
       /\ backend' \in {"sqlite", "memory"}
  BY <1>2, <1>3
<1> QED  BY <1>3, <1>7, <1>8, <1>9, <1>10, <1>11

\* A store without rows is in order.
Nothing ==
    /\ sessions = NoRows /\ jobs = NoRows /\ leads = NoRows /\ arrival = NoRows
    /\ backend \in {"sqlite", "memory"}
    /\ IsFiniteSet(opened) /\ opened \subseteq Jobs
    /\ IsFiniteSet(created) /\ created \subseteq Jobs

LEMMA NothingFits == Nothing => StoreFits
<1> SUFFICES ASSUME Nothing PROVE StoreFits
  OBVIOUS
<1> USE DEF Nothing
<1>1. DOMAIN NoRows = {} /\ NoRows = [k \in DOMAIN NoRows |-> NoRows[k]]
  BY DEF NoRows
<1>2. RowidsBounded
  <2>1. 0 \in Nat /\ DOMAIN leads \subseteq 1 .. 0
    BY <1>1
  <2> QED  BY <2>1 DEF RowidsBounded
<1> HIDE DEF NoRows
<1>3. TablesOK
  BY <1>1 DEF TablesOK
<1>4. RowsFit
  BY <1>1 DEF RowsFit
<1>5. IsInsertionOrder(arrival)
  BY <1>1 DEF IsInsertionOrder
<1> QED  BY <1>1, <1>2, <1>3, <1>4, <1>5 DEF StoreFits

LEMMA RestartFits ==
    ASSUME StoreFits, Restart
    PROVE  StoreFits' /\ RowsRemain
<1>1. UNCHANGED <<backend, opened, created>>
  BY DEF Restart, Seen
<1>2. CASE Memory
  <2>1. /\ sessions' = NoRows /\ jobs' = NoRows /\ leads' = NoRows /\ arrival' = NoRows
        /\ DOMAIN NoRows = {}
    BY <1>2 DEF Restart, MemLose, NoRows
  <2>2. /\ backend' \in {"sqlite", "memory"} /\ IsFiniteSet(opened') /\ opened' \subseteq Jobs
        /\ IsFiniteSet(created') /\ created' \subseteq Jobs
    BY <1>1 DEF StoreFits, RowsFit
  <2>3. StoreFits'
    <3>1. Nothing' => StoreFits'
      BY NothingFits, PTL
    <3> QED  BY <2>1, <2>2, <3>1 DEF Nothing
  <2>4. RowsRemain
    BY <1>1, <2>1 DEF RowsRemain
  <2> QED  BY <2>3, <2>4
<1>3. CASE ~Memory
  <2> USE DEF StoreFits
  <2>1. ReclaimStaleJobs /\ UNCHANGED <<arrival, sessions, leads>>
    BY <1>3 DEF Restart, ReclaimStaleJobs
  <2>2. /\ TablesOK'
        /\ DOMAIN jobs' = DOMAIN jobs
        /\ \A k \in DOMAIN jobs :
             /\ jobs'[k].user = jobs[k].user
             /\ jobs'[k].total = jobs[k].total
             /\ jobs'[k].status = IF jobs[k].status \in Live THEN "failed" ELSE jobs[k].status
    BY <2>1, ReclaimEffect
  <2>3. RowidsBounded'
    BY <2>1, BoundKept
  <2>4. RowsFit'
    BY <1>1, <2>1, <2>2, RecordedStays DEF RowsFit
  <2>5. RowsRemain
    BY <1>1, <2>1, <2>2 DEF RowsRemain, Live
  <2> QED  BY <1>1, <1>3, <2>1, <2>2, <2>3, <2>4, <2>5 DEF Memory
<1> QED  BY <1>2, <1>3

\* What the readers leave alone.
LEMMA ReadersFit ==
    ASSUME StoreFits, UNCHANGED <<backend, written>>
    PROVE  StoreFits' /\ RowsRemain
<1>1. UNCHANGED <<backend, sessions, jobs, leads, arrival, opened, created>>
  BY DEF written, tables
<1>2. RowsFit'
  BY <1>1, RecordedStays DEF StoreFits, RowsFit
<1>3. TablesOK' /\ RowidsBounded' /\ IsInsertionOrder(arrival)'
  BY <1>1, BoundKept DEF StoreFits, TablesOK
<1> QED  BY <1>1, <1>2, <1>3 DEF StoreFits, RowsRemain, Memory

-----------------------------------------------------------------------------
\* A walk through the pages.

LEMMA WritersKeepWalk ==
    ASSUME StoreFits, walk \in Walks, WalkGoesOn, RowsRemain, UNCHANGED walk
    PROVE  WalkGoesOn'
<1>1. walk.start \cap Listed(walk.list)' \subseteq walk.start \cap Listed(walk.list)
  BY DEF StoreFits, WalkGoesOn, RowsRemain, Listed
<1>2. Listed(walk.list)' = (Listed(walk.list))'
  OBVIOUS
<1>3. walk'.start \subseteq IF walk'.list = "jobs" THEN created' ELSE opened'
  BY DEF WalkGoesOn, RowsRemain
<1> QED  BY <1>1, <1>3 DEF WalkGoesOn, WalkInOrder, Key

\* Rows that a page is cut from.
LEMMA BelowIsFinite ==
    ASSUME StoreFits, NEW list \in Lists, NEW cursor
    PROVE  /\ Listed(list) \subseteq IF list = "jobs" THEN created ELSE opened
           /\ Below(list, cursor) \subseteq Listed(list)
           /\ Below(list, cursor) \in SUBSET Jobs
           /\ IsFiniteSet(Below(list, cursor))
<1>1. Listed(list) \subseteq IF list = "jobs" THEN created ELSE opened
  BY DEF StoreFits, Listed, Lists
<1>2. Below(list, cursor) \subseteq Listed(list)
  BY DEF Below
<1>3. IsFiniteSet(created) /\ IsFiniteSet(opened)
  BY DEF StoreFits, RowsFit
<1>4. PICK all : all = IF list = "jobs" THEN created ELSE opened
  OBVIOUS
<1>5. PICK below : below = Below(list, cursor)
  OBVIOUS
<1>6. IsFiniteSet(all) /\ below \in SUBSET all /\ all \subseteq Jobs
  BY <1>1, <1>2, <1>3, <1>4, <1>5 DEF StoreFits
<1>7. IsFiniteSet(below)
  BY <1>6, FS_Subset
<1> QED  BY <1>1, <1>2, <1>5, <1>6, <1>7

\* A page, in one record: what CutLists says of the rows below a cursor.
IsPage(page, below) ==
    /\ page.rows \in Seq(below)
    /\ \A i, k \in DOMAIN page.rows :
          i < k => Before(Key(page.rows[k]), Key(page.rows[i]))
    /\ page.next = None => \A id \in below : id \in ToSet(page.rows)
    /\ page.next # None =>
          \E x \in below :
             /\ page.next = Key(x)
             /\ \A i \in DOMAIN page.rows : ~Before(Key(page.rows[i]), Key(x))
             /\ \A id \in below : id \in ToSet(page.rows) \/ Before(Key(id), Key(x))

LEMMA PageLists ==
    ASSUME StoreFits, NEW list \in Lists, NEW limit \in 1 .. MaxPage, NEW cursor
    PROVE  IsPage(Page(list, limit, cursor), Below(list, cursor))
<1>1. PICK below : below = Below(list, cursor)
  OBVIOUS
<1>2. below \in SUBSET Jobs /\ IsFiniteSet(below)
  BY <1>1, BelowIsFinite
<1>3. Page(list, limit, cursor) = Cut(below, limit)
  BY <1>1 DEF Page, JobsPage, SessionsPage, Lists
<1>4. limit \in Nat \ {0}
  BY PagesAssumption
<1>5. IsPage(Cut(below, limit), below)
  BY <1>2, <1>4, CutLists DEF IsPage, ToSet
<1> QED  BY <1>1, <1>3, <1>5

LEMMA RowsOfMore ==
    ASSUME NEW S, NEW T, S \subseteq T, NEW s \in Seq(S)
    PROVE  s \in Seq(T)
<1>1. Len(s) \in Nat /\ s \in [1 .. Len(s) -> S]
  OBVIOUS
<1>2. s \in [1 .. Len(s) -> T]
  BY <1>1
<1> QED  BY <1>1, <1>2

LEMMA NoWalkIsOne == NoWalk \in Walks
<1>1. 1 \in 1 .. MaxPage
  BY PagesAssumption
<1> QED  BY <1>1 DEF NoWalk, Walks, Lists, Cursor

\* The first page begins a walk over the rows there are.
LEMMA FirstPageWalks ==
    ASSUME StoreFits, NEW list \in Lists, NEW limit \in Limits, FirstPage(list, limit)
    PROVE  walk' \in Walks /\ WalkGoesOn'
<1> DEFINE page == Page(list, Clamped(limit), None)
<1>1. UNCHANGED <<sessions, jobs, opened, created>>
  BY DEF FirstPage, written, tables
<1>2. walk' = [list |-> list, limit |-> Clamped(limit), start |-> Listed(list),
               shown |-> page.rows, cursor |-> page.next, over |-> page.next = None]
  BY DEF FirstPage
<1>3. Clamped(limit) \in 1 .. MaxPage
  BY ClampedLimit
<1>4. Below(list, None) = Listed(list)
  BY DEF Below
<1>5. IsPage(page, Listed(list))
  BY <1>3, <1>4, PageLists
<1>6. Listed(list) \subseteq IF list = "jobs" THEN created ELSE opened
  BY BelowIsFinite
<1>7. Listed(list) \subseteq Jobs
  BY <1>6 DEF StoreFits
<1> HIDE DEF page
<1>8. page.rows \in Seq(Jobs) /\ page.next \in Cursor
  BY <1>5, <1>7 DEF IsPage, Cursor
<1>9. walk' \in Walks
  BY <1>2, <1>3, <1>7, <1>8 DEF Walks
<1>10. /\ walk'.list = list /\ walk'.start = Listed(list) /\ walk'.shown = page.rows
       /\ walk'.cursor = page.next /\ walk'.over = (page.next = None)
  BY <1>2
<1>11. Listed(list)' = Listed(list)
  BY <1>1 DEF Listed
<1>12. walk'.start \subseteq IF walk'.list = "jobs" THEN created' ELSE opened'
  BY <1>1, <1>6, <1>10
<1>13. ~walk'.over => /\ walk'.cursor # None
                      /\ \A i \in DOMAIN walk'.shown : ~Before(Key(walk'.shown[i]), walk'.cursor)
  BY <1>5, <1>10 DEF IsPage
<1>14. \A id \in Listed(list) : id \in ToSet(walk'.shown)
                                \/ (~walk'.over /\ Before(Key(id), walk'.cursor))
  BY <1>5, <1>10 DEF IsPage
<1>15. \A i, k \in DOMAIN walk'.shown :
          i < k => Before(Key(walk'.shown[k]), Key(walk'.shown[i]))
  BY <1>5, <1>10 DEF IsPage
<1>16. (walk.start \cap Listed(walk.list))' \subseteq Listed(list)
  BY <1>10
<1> QED  BY <1>9, <1>12, <1>13, <1>14, <1>15, <1>16 DEF WalkGoesOn, WalkInOrder, Key

\* An element of a walk's rows is of the pages before or of the last one.
LEMMA JoinedRows ==
    ASSUME NEW s \in Seq(Jobs), NEW t \in Seq(Jobs)
    PROVE  /\ ToSet(s) \subseteq ToSet(s \o t) /\ ToSet(t) \subseteq ToSet(s \o t)
           /\ DOMAIN s = 1 .. Len(s) /\ Len(s) \in Nat
           /\ DOMAIN (s \o t) \subseteq Nat
           /\ \A i \in DOMAIN (s \o t) :
                 \/ i \in DOMAIN s /\ (s \o t)[i] = s[i]
                 \/ /\ i > Len(s) /\ i - Len(s) \in DOMAIN t
                    /\ (s \o t)[i] = t[i - Len(s)]
<1>1. /\ Len(s) \in Nat /\ Len(t) \in Nat /\ s \o t \in Seq(Jobs)
      /\ Len(s \o t) = Len(s) + Len(t)
      /\ DOMAIN s = 1 .. Len(s) /\ DOMAIN t = 1 .. Len(t)
      /\ DOMAIN (s \o t) = 1 .. Len(s) + Len(t)
  OBVIOUS
<1>2. ASSUME NEW i \in DOMAIN (s \o t)
      PROVE  \/ i \in DOMAIN s /\ (s \o t)[i] = s[i]
             \/ /\ i > Len(s) /\ i - Len(s) \in DOMAIN t
                /\ (s \o t)[i] = t[i - Len(s)]
  BY <1>1
<1>3. \A i \in DOMAIN s : i \in DOMAIN (s \o t) /\ (s \o t)[i] = s[i]
  BY <1>1
<1>4. \A i \in DOMAIN t : i + Len(s) \in DOMAIN (s \o t) /\ (s \o t)[i + Len(s)] = t[i]
  BY <1>1
<1>5. ToSet(s) \subseteq ToSet(s \o t)
  BY <1>3, Zenon DEF ToSet
<1>6. ToSet(t) \subseteq ToSet(s \o t)
  BY <1>4, Zenon DEF ToSet
<1> QED  BY <1>1, <1>2, <1>5, <1>6

\* The next page goes on strictly before the cursor, hence before all that was shown.
LEMMA NextPageWalks ==
    ASSUME StoreFits, walk \in Walks, WalkGoesOn, NextPage
    PROVE  walk' \in Walks /\ WalkGoesOn'
<1>1. UNCHANGED <<sessions, jobs, opened, created>> /\ ~walk.over
  BY DEF NextPage, written, tables
<1>2. /\ walk.list \in Lists /\ walk.limit \in 1 .. MaxPage /\ walk.shown \in Seq(Jobs)
      /\ walk.start \in SUBSET Jobs /\ walk.cursor \in Cursor
  BY DEF Walks
<1>3. PICK list \in Lists, limit \in 1 .. MaxPage, cursor \in Cursor, shown \in Seq(Jobs) :
         list = walk.list /\ limit = walk.limit /\ cursor = walk.cursor /\ shown = walk.shown
  BY <1>2
<1>4. PICK page : page = Page(list, limit, cursor)
  OBVIOUS
<1>5. PICK below : below = Below(list, cursor)
  OBVIOUS
<1>6. IsPage(page, below)
  BY <1>4, <1>5, PageLists
<1>7. below \in SUBSET Jobs /\ below \subseteq Listed(list)
  BY <1>5, BelowIsFinite
<1>8. walk' = [walk EXCEPT !.shown = shown \o page.rows, !.cursor = page.next,
                           !.over = page.next = None]
  <2>1. page = Page(walk.list, walk.limit, walk.cursor)
    BY <1>3, <1>4
  <2> DEFINE next == Page(walk.list, walk.limit, walk.cursor)
  <2>2. walk' = [walk EXCEPT !.shown = walk.shown \o next.rows, !.cursor = next.next,
                             !.over = next.next = None]
    BY Zenon DEF NextPage
  <2> HIDE DEF next
  <2>3. next = page
    BY <2>1 DEF next
  <2> QED  BY <1>3, <2>2, <2>3
<1>9. page.rows \in Seq(Jobs) /\ page.next \in Cursor
  <2>1. page.rows \in Seq(below)
    BY <1>6 DEF IsPage
  <2>2. page.rows \in Seq(Jobs)
    BY <1>7, <2>1, RowsOfMore
  <2>3. page.next = None \/ \E x \in below : page.next = Key(x)
    BY <1>6 DEF IsPage
  <2>4. page.next \in Cursor
    BY <1>7, <2>3, Zenon DEF Cursor
  <2> QED  BY <2>2, <2>4
<1>10. shown \o page.rows \in Seq(Jobs)
  BY <1>9
<1>11. walk' \in Walks
  BY <1>8, <1>9, <1>10 DEF Walks
<1>12. /\ walk'.list = list /\ walk'.start = walk.start /\ walk'.shown = shown \o page.rows
       /\ walk'.cursor = page.next /\ walk'.over = (page.next = None)
  BY <1>3, <1>8 DEF Walks
<1>13. PICK c \in Jobs : cursor = Key(c)
  BY <1>1, <1>3 DEF WalkGoesOn, Cursor
<1>14. /\ \A i \in DOMAIN shown : shown[i] \in Jobs /\ ~Before(Key(shown[i]), Key(c))
       /\ \A i \in DOMAIN page.rows : page.rows[i] \in Jobs /\ Before(Key(page.rows[i]), Key(c))
       /\ \A id \in below : id \in Jobs /\ Before(Key(id), Key(c))
  <2>1. \A id \in below : id \in Jobs /\ Before(Key(id), Key(c))
    BY <1>5, <1>7, <1>13, KeysAreOrdered DEF Below
  <2>2. \A i \in DOMAIN page.rows : page.rows[i] \in below
    BY <1>6 DEF IsPage
  <2> QED  BY <1>1, <1>3, <1>13, <2>1, <2>2 DEF WalkGoesOn
<1>15. \A x, y \in Jobs : ~Before(Key(x), Key(c)) /\ Before(Key(y), Key(c))
                             => Before(Key(y), Key(x))
  BY KeysAreOrdered
<1> DEFINE all == shown \o page.rows
           n   == Len(shown)
<1>16. /\ ToSet(shown) \subseteq ToSet(all) /\ ToSet(page.rows) \subseteq ToSet(all)
       /\ DOMAIN shown = 1 .. n /\ n \in Nat /\ DOMAIN all \subseteq Nat
       /\ \A i \in DOMAIN all : \/ i \in DOMAIN shown /\ all[i] = shown[i]
                                \/ /\ i > n /\ i - n \in DOMAIN page.rows
                                   /\ all[i] = page.rows[i - n]
  BY <1>9, JoinedRows
<1> HIDE DEF all, n
<1>17. walk'.shown = all
  BY <1>12 DEF all
<1>18. ASSUME NEW i \in DOMAIN all, NEW k \in DOMAIN all, i < k
       PROVE  Before(Key(all[k]), Key(all[i]))
  <2>1. i \in Nat /\ k \in Nat
    BY <1>16
  <2>2. CASE k \in DOMAIN shown /\ all[k] = shown[k]
    <3>1. i \in DOMAIN shown /\ all[i] = shown[i]
      BY <1>16, <1>18, <2>1, <2>2
    <3> QED  BY <1>3, <1>18, <2>2, <3>1 DEF WalkGoesOn, WalkInOrder
  <2>3. CASE k - n \in DOMAIN page.rows /\ all[k] = page.rows[k - n]
    <3>1. CASE i \in DOMAIN shown /\ all[i] = shown[i]
      BY <1>14, <1>15, <2>3, <3>1
    <3>2. CASE i - n \in DOMAIN page.rows /\ all[i] = page.rows[i - n]
      <4>1. i - n < k - n
        BY <1>16, <1>18, <2>1
      <4> QED  BY <1>6, <2>3, <3>2, <4>1 DEF IsPage
    <3> QED  BY <1>16, <3>1, <3>2
  <2> QED  BY <1>16, <2>2, <2>3
<1>19. ASSUME NEW id \in walk.start \cap Listed(list)
       PROVE  id \in ToSet(all) \/ (page.next # None /\ Before(Key(id), page.next))
  <2>1. CASE id \in ToSet(shown)
    BY <1>16, <2>1
  <2>2. CASE Before(Key(id), cursor)
    <3>1. id \in below
      BY <1>5, <2>2 DEF Below
    <3>2. CASE page.next = None
      BY <1>6, <1>16, <3>1, <3>2 DEF IsPage
    <3>3. CASE page.next # None
      BY <1>6, <1>16, <3>1, <3>3 DEF IsPage
    <3> QED  BY <3>2, <3>3
  <2> QED  BY <1>1, <1>3, <2>1, <2>2 DEF WalkGoesOn
<1>20. ASSUME page.next # None
       PROVE  \A i \in DOMAIN all : ~Before(Key(all[i]), page.next)
  <2>1. PICK x \in below : /\ page.next = Key(x)
                           /\ \A i \in DOMAIN page.rows : ~Before(Key(page.rows[i]), Key(x))
    BY <1>6, <1>20 DEF IsPage
  <2>2. x \in Jobs /\ Before(Key(x), Key(c))
    BY <1>14
  <2> SUFFICES ASSUME NEW i \in DOMAIN all PROVE ~Before(Key(all[i]), Key(x))
    BY <2>1
  <2>3. CASE i \in DOMAIN shown /\ all[i] = shown[i]
    <3>1. Before(Key(x), Key(shown[i])) /\ shown[i] \in Jobs
      BY <1>14, <1>15, <2>2, <2>3
    <3> QED  BY <2>2, <2>3, <3>1, KeysAreOrdered
  <2>4. CASE i - n \in DOMAIN page.rows /\ all[i] = page.rows[i - n]
    BY <2>1, <2>4
  <2> QED  BY <1>16, <2>3, <2>4
<1>21. Listed(list)' = Listed(list)
  BY <1>1 DEF Listed
<1>22. walk'.start \subseteq IF walk'.list = "jobs" THEN created' ELSE opened'
  BY <1>1, <1>3, <1>12 DEF WalkGoesOn
<1>23. (walk.start \cap Listed(walk.list))' \subseteq walk.start \cap Listed(list)
  BY <1>12, <1>21
<1>24. WalkInOrder'
  BY <1>17, <1>18 DEF WalkInOrder, Key
<1>25. \A id \in (walk.start \cap Listed(walk.list))' :
          id \in ToSet(walk'.shown) \/ (~walk'.over /\ Before(Key(id), walk'.cursor))
  BY <1>12, <1>17, <1>19, <1>23
<1>26. ~walk'.over => /\ walk'.cursor # None
                      /\ \A i \in DOMAIN walk'.shown : ~Before(Key(walk'.shown[i]), walk'.cursor)
  BY <1>12, <1>17, <1>20
<1> QED  BY <1>11, <1>22, <1>24, <1>25, <1>26 DEF WalkGoesOn, Key

-----------------------------------------------------------------------------
\* A session, looked at.

ViewFits == view \in Views /\ Len(view.read) <= Len(view.rows) /\ ViewIsCurrent

\* session_jobs' first SELECT: each row with what it says at that moment.
LEMMA JobsInLists ==
    ASSUME StoreFits, NEW s
    PROVE  /\ JobsIn(s) \in Seq(Rows)
           /\ \A i \in DOMAIN JobsIn(s) :
                 /\ JobsIn(s)[i].job \in DOMAIN jobs
                 /\ JobsIn(s)[i].status = jobs[JobsIn(s)[i].job].status
                 /\ JobsIn(s)[i].total = jobs[JobsIn(s)[i].job].total
<1>1. PICK rows : rows = {j \in DOMAIN jobs : jobs[j].session = s /\ SessionOf(s, Reader)}
  OBVIOUS
<1>2. PICK older : older = [j \in rows |-> {k \in rows : Before(Key(k), Key(j))}]
  OBVIOUS
<1>3. PICK ids : ids = Ordered(rows, older)
  OBVIOUS
<1>4. JobsIn(s) = [i \in DOMAIN ids |-> [job |-> ids[i], status |-> jobs[ids[i]].status,
                                         total |-> jobs[ids[i]].total]]
  BY <1>1, <1>2, <1>3, Zenon DEF JobsIn
<1>5. rows \subseteq DOMAIN jobs /\ rows \subseteq Jobs /\ IsFiniteSet(rows)
  <2>1. rows \subseteq DOMAIN jobs
    BY <1>1
  <2>2. PICK all : all = created
    OBVIOUS
  <2>3. rows \in SUBSET all /\ IsFiniteSet(all) /\ all \subseteq Jobs
    BY <2>1, <2>2 DEF StoreFits, RowsFit
  <2>4. IsFiniteSet(rows)
    BY <2>3, FS_Subset
  <2> QED  BY <2>1, <2>3, <2>4
<1>6. IsOrderOn(rows, older)
  <2>1. \A x \in rows : older[x] = {k \in rows : Before(Key(k), Key(x))}
    BY <1>2
  <2> USE DEF IsOrderOn
  <2>2. \A x \in rows : older[x] \subseteq rows /\ x \notin older[x]
    BY <1>5, <2>1, KeysAreOrdered
  <2>3. ASSUME NEW x \in rows, NEW y \in rows, x # y
        PROVE  x \in older[y] \/ y \in older[x]
    <3>1. Before(Key(x), Key(y)) \/ Before(Key(y), Key(x))
      BY <1>5, <2>3, KeysAreOrdered
    <3> QED  BY <2>1, <3>1
  <2>4. \A x, y \in rows : x \in older[y] => older[x] \subseteq older[y]
    BY <1>5, <2>1, KeysAreOrdered
  <2> QED  BY <2>2, <2>3, <2>4
<1>7. PICK n \in Nat : n = Cardinality(rows) /\ ids \in [1 .. n -> rows]
  BY <1>3, <1>5, <1>6, OrderedLists
<1>8. \A j \in DOMAIN jobs : jobs[j].status \in Status /\ jobs[j].total \in Card
  BY DEF StoreFits, TablesOK, JobRow
<1> DEFINE row(i) == [job |-> ids[i], status |-> jobs[ids[i]].status,
                      total |-> jobs[ids[i]].total]
<1>9. DOMAIN ids = 1 .. n /\ \A i \in 1 .. n : ids[i] \in DOMAIN jobs /\ ids[i] \in Jobs
  BY <1>5, <1>7
<1>10. \A i \in 1 .. n : row(i) \in Rows
  BY <1>8, <1>9 DEF Rows
<1>11. \A i \in 1 .. n : /\ row(i).job = ids[i]
                         /\ row(i).status = jobs[ids[i]].status
                         /\ row(i).total = jobs[ids[i]].total
  OBVIOUS
<1>12. JobsIn(s) = [i \in 1 .. n |-> row(i)]
  BY <1>4, <1>9
<1> HIDE DEF row
<1>13. PICK list : list = JobsIn(s)
  OBVIOUS
<1>14. list = [i \in 1 .. n |-> row(i)]
  BY <1>12, <1>13
<1>15. list \in Seq(Rows) /\ DOMAIN list = 1 .. n /\ \A i \in 1 .. n : list[i] = row(i)
  BY <1>10, <1>14
<1> QED  BY <1>9, <1>11, <1>13, <1>15

LEMMA RecordedAreCards ==
    ASSUME StoreFits, NEW j
    PROVE  Recorded(j) \in SUBSET Card
  BY DEF StoreFits, TablesOK, Recorded, LeadRows, LeadRow

\* Nothing of a session was read.
LEMMA EmptyViewFits ==
    ASSUME NEW s \in Jobs \cup {None}, NEW over \in BOOLEAN,
           view' = [session |-> s, rows |-> <<>>, read |-> <<>>, over |-> over]
    PROVE  ViewFits'
<1>1. <<>> \in Seq(Rows) /\ <<>> \in Seq(SUBSET Card) /\ Len(<<>>) = 0 /\ DOMAIN <<>> = {}
  OBVIOUS
<1>2. view' \in Views
  BY <1>1 DEF Views
<1>3. view'.rows = <<>> /\ view'.read = <<>>
  OBVIOUS
<1>4. ViewIsCurrent'
  BY <1>1, <1>3 DEF ViewIsCurrent, SessionViewIsComplete
<1> QED  BY <1>1, <1>2, <1>3, <1>4 DEF ViewFits

LEMMA WritersKeepView ==
    ASSUME ViewFits, RowsRemain, UNCHANGED view
    PROVE  ViewFits'
<1>1. \A i \in DOMAIN view.read : i \in DOMAIN view.rows
  BY DEF ViewFits, Views
<1>2. \A i \in DOMAIN view.rows :
         LET row == view.rows[i]
         IN  /\ row.job \in created'
             /\ row.job \in DOMAIN jobs' =>
                   /\ row.job \in DOMAIN jobs
                   /\ jobs'[row.job].total = row.total
                   /\ row.status = "done" => jobs'[row.job].status = "done"
  BY DEF ViewFits, ViewIsCurrent, RowsRemain
<1>3. SessionViewIsComplete'
  BY <1>1, <1>2 DEF ViewFits, ViewIsCurrent, SessionViewIsComplete
<1> QED  BY <1>2, <1>3 DEF ViewFits, ViewIsCurrent

LEMMA RestartFitsView ==
    ASSUME StoreFits, ViewFits, Restart
    PROVE  ViewFits'
<1>1. RowsRemain
  BY RestartFits
<1>2. CASE view' = view
  BY <1>1, <1>2, WritersKeepView
<1>3. CASE view' = NoView
  BY <1>3, EmptyViewFits DEF NoView
<1> QED  BY <1>2, <1>3 DEF Restart

\* Only what has not been read yet can change: the rows are read before the leads.
LEMMA ReadJobsFits ==
    ASSUME StoreFits, ViewFits, ReadJobs
    PROVE  ViewFits'
<1>1. UNCHANGED <<jobs, leads, created>> /\ ~view.over /\ view.rows = <<>>
  BY DEF ReadJobs, written, tables
<1>2. PICK rows : rows = JobsIn(view.session)
  OBVIOUS
<1>3. /\ rows \in Seq(Rows)
      /\ \A i \in DOMAIN rows : /\ rows[i].job \in DOMAIN jobs
                                /\ rows[i].status = jobs[rows[i].job].status
                                /\ rows[i].total = jobs[rows[i].job].total
  BY <1>2, JobsInLists
<1>4. view' = [view EXCEPT !.rows = rows, !.over = rows = <<>>]
  <2>1. view' = [view EXCEPT !.rows = JobsIn(view.session),
                             !.over = JobsIn(view.session) = <<>>]
    BY Zenon DEF ReadJobs
  <2> QED  BY <1>2, <2>1
<1>5. view \in Views /\ Len(view.read) <= 0
  BY <1>1 DEF ViewFits
<1>6. view.read = <<>>
  BY <1>5 DEF Views
<1>7. /\ view' \in Views /\ view'.rows = rows /\ view'.read = <<>>
      /\ view'.over = (rows = <<>>)
  BY <1>3, <1>4, <1>5, <1>6 DEF Views
<1>8. Len(view'.read) = 0 /\ DOMAIN view'.read = {} /\ Len(rows) \in Nat
      /\ (rows # <<>> => 0 < Len(rows))
  BY <1>3, <1>7
<1>9. SessionViewIsComplete'
  BY <1>8 DEF SessionViewIsComplete
<1>10. \A i \in DOMAIN rows : rows[i].job \in created'
  BY <1>1, <1>3 DEF StoreFits
<1>11. ViewIsCurrent'
  BY <1>1, <1>3, <1>7, <1>8, <1>9, <1>10 DEF ViewIsCurrent
<1> QED  BY <1>7, <1>8, <1>11 DEF ViewFits

\* What a row that was read calls done is done, so all its cards are there.
LEMMA ReadLeadsFits ==
    ASSUME StoreFits, ViewFits, ReadLeads
    PROVE  ViewFits'
<1>1. UNCHANGED <<jobs, leads, created>> /\ ~view.over /\ view.rows # <<>>
  BY DEF ReadLeads, written, tables
<1>2. /\ view \in Views /\ view.rows \in Seq(Rows) /\ view.read \in Seq(SUBSET Card)
      /\ Len(view.read) < Len(view.rows)
  BY <1>1 DEF ViewFits, ViewIsCurrent, Views
<1>3. PICK i : i = Len(view.read) + 1
  OBVIOUS
<1>4. i \in Nat /\ i \in DOMAIN view.rows /\ Len(view.rows) \in Nat /\ i <= Len(view.rows)
  BY <1>2, <1>3
<1>5. PICK cards : cards = Recorded(view.rows[i].job)
  OBVIOUS
<1>6. cards \in SUBSET Card
  BY <1>5, RecordedAreCards
<1>7. view' = [view EXCEPT !.read = Append(view.read, cards), !.over = i = Len(view.rows)]
  <2>1. view' = [view EXCEPT !.read = Append(@, Recorded(view.rows[Len(view.read) + 1].job)),
                             !.over = Len(view.read) + 1 = Len(view.rows)]
    BY Zenon DEF ReadLeads
  <2> QED  BY <1>3, <1>5, <2>1
<1>8. PICK read : read = Append(view.read, cards)
  OBVIOUS
<1>9. /\ read \in Seq(SUBSET Card) /\ Len(read) = i /\ DOMAIN read = 1 .. i
      /\ read[i] = cards
      /\ \A k \in 1 .. i : k # i => k \in DOMAIN view.read /\ read[k] = view.read[k]
  BY <1>2, <1>3, <1>6, <1>8
<1>10. /\ view' \in Views /\ view'.rows = view.rows /\ view'.read = read
       /\ view'.over = (i = Len(view.rows))
  BY <1>2, <1>7, <1>8, <1>9 DEF Views
<1>11. view.rows[i].status = "done" /\ HasJob(view.rows[i].job)
          => cards = 1 .. view.rows[i].total
  BY <1>4, <1>5 DEF ViewFits, ViewIsCurrent, StoreFits, RowsFit
<1>12. SessionViewIsComplete'
  <2> SUFFICES ASSUME NEW k \in 1 .. i, view.rows[k].status = "done", HasJob(view.rows[k].job)
               PROVE  read[k] = 1 .. view.rows[k].total
    BY <1>1, <1>9, <1>10 DEF SessionViewIsComplete
  <2>1. CASE k = i
    BY <1>9, <1>11, <2>1
  <2>2. CASE k # i
    BY <1>9, <2>2 DEF ViewFits, ViewIsCurrent, SessionViewIsComplete
  <2> QED  BY <2>1, <2>2
<1>13. \A k \in DOMAIN view'.rows :
          LET row == view'.rows[k]
          IN  /\ row.job \in created'
              /\ row.job \in DOMAIN jobs' =>
                    /\ jobs'[row.job].total = row.total
                    /\ row.status = "done" => jobs'[row.job].status = "done"
  BY <1>1, <1>10 DEF ViewFits, ViewIsCurrent
<1>14. ~view'.over => Len(view'.read) < Len(view'.rows)
  <2>1. ~view'.over => i # Len(view.rows)
    BY <1>10, Zenon
  <2>2. i # Len(view.rows) => i < Len(view.rows)
    BY <1>4
  <2> QED  BY <1>9, <1>10, <2>1, <2>2
<1>15. ViewIsCurrent'
  BY <1>12, <1>13, <1>14 DEF ViewIsCurrent
<1> QED  BY <1>4, <1>9, <1>10, <1>15 DEF ViewFits

\* In memory, rows and leads are of one moment.
LEMMA ViewSessionFits ==
    ASSUME StoreFits, NEW s \in Jobs, ViewSession(s)
    PROVE  ViewFits'
<1>1. UNCHANGED <<jobs, leads, created>>
  BY DEF ViewSession, written, tables
<1>2. PICK rows : rows = JobsIn(s)
  OBVIOUS
<1>3. /\ rows \in Seq(Rows)
      /\ \A i \in DOMAIN rows : /\ rows[i].job \in DOMAIN jobs
                                /\ rows[i].status = jobs[rows[i].job].status
                                /\ rows[i].total = jobs[rows[i].job].total
  BY <1>2, JobsInLists
<1>4. PICK read : read = [i \in DOMAIN rows |-> Recorded(rows[i].job)]
  OBVIOUS
<1>5. view' = [session |-> s, rows |-> rows, over |-> TRUE, read |-> read]
  <2>1. view' = [session |-> s, rows |-> JobsIn(s), over |-> TRUE,
                 read |-> [i \in DOMAIN JobsIn(s) |-> Recorded(JobsIn(s)[i].job)]]
    BY Zenon DEF ViewSession
  <2> QED  BY <1>2, <1>4, <2>1
<1>6. \A i \in DOMAIN rows : Recorded(rows[i].job) \in SUBSET Card
  BY RecordedAreCards
<1>7. DOMAIN rows = 1 .. Len(rows) /\ Len(rows) \in Nat
  BY <1>3
<1>8. read \in Seq(SUBSET Card) /\ DOMAIN read = DOMAIN rows /\ Len(read) = Len(rows)
  BY <1>4, <1>6, <1>7
<1>9. /\ view' \in Views /\ view'.rows = rows /\ view'.read = read /\ view'.over
  BY <1>3, <1>5, <1>8 DEF Views
<1>10. \A i \in DOMAIN read : rows[i].status = "done" => read[i] = 1 .. rows[i].total
  BY <1>3, <1>4, <1>8 DEF StoreFits, RowsFit
<1>11. SessionViewIsComplete'
  BY <1>9, <1>10 DEF SessionViewIsComplete
<1>12. \A i \in DOMAIN rows : rows[i].job \in created'
  BY <1>1, <1>3 DEF StoreFits
<1>13. ViewIsCurrent'
  BY <1>1, <1>3, <1>9, <1>11, <1>12 DEF ViewIsCurrent
<1> QED  BY <1>7, <1>8, <1>9, <1>13 DEF ViewFits

-----------------------------------------------------------------------------
\* The invariant.

HistoryFits == StoreFits /\ walk \in Walks /\ WalkGoesOn /\ ViewFits

LEMMA InitFits ==
    ASSUME Init
    PROVE  HistoryFits
<1>1. StoreFits
  <2>1. IsFiniteSet({})
    BY FS_EmptySet
  <2> QED  BY <2>1, NothingFits DEF Init, StoreInit, Nothing
<1>2. walk \in Walks /\ walk.start = {} /\ walk.shown = <<>> /\ walk.over
  BY NoWalkIsOne DEF Init, NoWalk
<1>3. WalkGoesOn
  BY <1>2 DEF WalkGoesOn, WalkInOrder
<1>4. /\ view \in Views /\ view.rows = <<>> /\ view.read = <<>> /\ view.over
  BY DEF Init, NoView, Views
<1>5. ViewFits
  BY <1>4 DEF ViewFits, ViewIsCurrent, SessionViewIsComplete
<1> QED  BY <1>1, <1>2, <1>3, <1>5 DEF HistoryFits

LEMMA NoWalkGoesOn ==
    ASSUME walk' = NoWalk
    PROVE  walk' \in Walks /\ WalkGoesOn'
<1>1. walk' \in Walks /\ walk'.start = {} /\ walk'.shown = <<>> /\ walk'.over
  BY NoWalkIsOne DEF NoWalk
<1>2. WalkGoesOn'
  BY <1>1 DEF WalkGoesOn, WalkInOrder
<1> QED  BY <1>1, <1>2

LEMMA StepFits ==
    ASSUME HistoryFits, [Next]_vars
    PROVE  HistoryFits'
<1> USE DEF HistoryFits
<1>1. ASSUME StoreFits', RowsRemain, UNCHANGED Reads PROVE HistoryFits'
  BY <1>1, WritersKeepWalk, WritersKeepView DEF Reads
<1>2. ASSUME NEW j \in Jobs, OpenSession(j) PROVE HistoryFits'
  BY <1>1, <1>2, OpenSessionFits DEF OpenSession
<1>3. ASSUME NEW j \in Jobs, CreateJobIn(j) PROVE HistoryFits'
  BY <1>1, <1>3, CreateJobInFits DEF CreateJobIn
<1>4. ASSUME NEW j \in Jobs, AddLead(j) PROVE HistoryFits'
  BY <1>1, <1>4, AddLeadFits DEF AddLead
<1>5. ASSUME NEW j \in Jobs, Settle(j) PROVE HistoryFits'
  BY <1>1, <1>5, SettleFits DEF Settle
<1>6. ASSUME NEW user \in Users, ClearHistory(user) PROVE HistoryFits'
  BY <1>1, <1>6, ClearHistoryFits DEF ClearHistory
<1>7. CASE Restart
  <2>1. UNCHANGED walk
    BY <1>7 DEF Restart
  <2> QED  BY <1>7, <2>1, RestartFits, RestartFitsView, WritersKeepWalk
<1>8. ASSUME NEW list \in Lists, NEW limit \in Limits, FirstPage(list, limit)
      PROVE  HistoryFits'
  <2>1. UNCHANGED <<backend, written>> /\ view' = NoView
    BY <1>8 DEF FirstPage
  <2>2. ViewFits'
    BY <2>1, EmptyViewFits DEF NoView
  <2> QED  BY <1>8, <2>1, <2>2, ReadersFit, FirstPageWalks
<1>9. CASE NextPage
  <2>1. UNCHANGED <<backend, written>> /\ UNCHANGED view
    BY <1>9 DEF NextPage
  <2> QED  BY <1>9, <2>1, ReadersFit, NextPageWalks, WritersKeepView
<1>10. ASSUME NEW s \in Jobs, AskForSession(s) PROVE HistoryFits'
  <2>1. /\ UNCHANGED <<backend, written>> /\ walk' = NoWalk
        /\ view' = [session |-> s, rows |-> <<>>, read |-> <<>>, over |-> FALSE]
    BY <1>10 DEF AskForSession
  <2> QED  BY <2>1, ReadersFit, NoWalkGoesOn, EmptyViewFits
<1>11. ASSUME NEW s \in Jobs, ViewSession(s) PROVE HistoryFits'
  <2>1. UNCHANGED <<backend, written>> /\ walk' = NoWalk
    BY <1>11 DEF ViewSession
  <2> QED  BY <1>11, <2>1, ReadersFit, NoWalkGoesOn, ViewSessionFits
<1>12. CASE ReadJobs
  <2>1. UNCHANGED <<backend, written>> /\ UNCHANGED walk
    BY <1>12 DEF ReadJobs
  <2> QED  BY <1>12, <2>1, ReadersFit, ReadJobsFits, WritersKeepWalk
<1>13. CASE ReadLeads
  <2>1. UNCHANGED <<backend, written>> /\ UNCHANGED walk
    BY <1>13 DEF ReadLeads
  <2> QED  BY <1>13, <2>1, ReadersFit, ReadLeadsFits, WritersKeepWalk
<1>14. CASE UNCHANGED vars
  <2>1. UNCHANGED <<backend, written>> /\ UNCHANGED Reads
    BY <1>14 DEF vars, Reads
  <2> QED  BY <1>1, <2>1, ReadersFit
<1> QED
  BY <1>2, <1>3, <1>4, <1>5, <1>6, <1>7, <1>8, <1>9, <1>10, <1>11, <1>12, <1>13, <1>14
     DEF Next

\* Whatever is uploaded, read, cleared or restarted, and however the clock is set, the
\* rows, the walk and the view keep to each other; and rowids stay finite in number,
\* without which the next one would not be known to be new.
THEOREM HistoryInvariance == Spec => [](HistoryInv /\ RowidsBounded)
<1>1. Init => HistoryFits
  BY InitFits
<1>2. HistoryFits /\ [Next]_vars => HistoryFits'
  BY StepFits
<1>3. HistoryFits => HistoryInv /\ RowidsBounded
  BY DEF HistoryFits, StoreFits, ViewFits, HistoryInv, HistoryTypeOK, Memory
<1> QED  BY <1>1, <1>2, <1>3, PTL DEF Spec

\* Every table, the order of the dict in memory, the walk and the view keep their types.
THEOREM HistoryTypeCorrect == Spec => []HistoryTypeOK
<1>1. HistoryInv => HistoryTypeOK
  BY DEF HistoryInv
<1> QED  BY <1>1, HistoryInvariance, PTL

\* encode_cursor's promise: paging through a list shows every row that was there when
\* the first page was taken and still is, whatever is written between the pages.
THEOREM WalksMissNothing == Spec => []WalkMissesNothing
<1>1. HistoryInv => WalkMissesNothing
  BY DEF HistoryInv, WalkGoesOn, WalkMissesNothing
<1> QED  BY <1>1, HistoryInvariance, PTL

\* Across its pages a list is in strictly descending order of (created_at, id), so no
\* row is shown twice.
THEOREM WalksStayInOrder == Spec => []WalkInOrder
<1>1. HistoryInv => WalkInOrder
  BY DEF HistoryInv, WalkGoesOn
<1> QED  BY <1>1, HistoryInvariance, PTL

\* GET /api/sessions/{id}, one transaction for the rows and one for the leads of each,
\* never shows a job as done with a card missing.
THEOREM SessionViewsAreComplete == Spec => []SessionViewIsComplete
<1>1. HistoryInv => SessionViewIsComplete
  BY DEF HistoryInv, ViewIsCurrent
<1> QED  BY <1>1, HistoryInvariance, PTL

-----------------------------------------------------------------------------
\* What Contract makes of a job: its phase and its number of cards.
PhaseOf(j) ==
    IF HasJob(j)
    THEN IF jobs[j].status \in Live THEN "open" ELSE jobs[j].status
    ELSE IF j \in created THEN "gone" ELSE "none"
TotalOf(j) == IF HasJob(j) THEN jobs[j].total ELSE 0

\* The contract's steps, in these terms; what a job is, is then looked at one by one.

LEMMA Stutter ==
    ASSUME UNCHANGED backend,
           \A j \in Jobs : /\ PhaseOf(j)' = PhaseOf(j)
                           /\ TotalOf(j)' = TotalOf(j)
                           /\ Recorded(j)' = Recorded(j)
    PROVE  UNCHANGED Contract!vars
<1>1. UNCHANGED [j \in Jobs |-> PhaseOf(j)]
  OBVIOUS
<1>2. UNCHANGED [j \in Jobs |-> TotalOf(j)]
  OBVIOUS
<1>3. UNCHANGED [j \in Jobs |-> Recorded(j)]
  OBVIOUS
<1> QED  BY <1>1, <1>2, <1>3 DEF Contract!vars, PhaseOf, TotalOf, Memory

LEMMA FailMaps ==
    ASSUME NEW S \in SUBSET Jobs,
           \A j \in S : PhaseOf(j) = "open",
           \A j \in Jobs : /\ PhaseOf(j)' = IF j \in S THEN "failed" ELSE PhaseOf(j)
                           /\ TotalOf(j)' = TotalOf(j)
                           /\ Recorded(j)' = Recorded(j)
    PROVE  Contract!Fail(S)
<1>1. [j \in Jobs |-> PhaseOf(j)]' =
        [j \in Jobs |-> IF j \in S THEN "failed" ELSE PhaseOf(j)]
  OBVIOUS
<1>2. UNCHANGED [j \in Jobs |-> TotalOf(j)]
  OBVIOUS
<1>3. UNCHANGED [j \in Jobs |-> Recorded(j)]
  OBVIOUS
<1> QED  BY <1>1, <1>2, <1>3 DEF Contract!Fail, PhaseOf, TotalOf

LEMMA FinishMaps ==
    ASSUME NEW j \in Jobs, PhaseOf(j) = "open", Recorded(j) = 1 .. TotalOf(j),
           \A k \in Jobs : /\ PhaseOf(k)' = IF k = j THEN "done" ELSE PhaseOf(k)
                           /\ TotalOf(k)' = TotalOf(k)
                           /\ Recorded(k)' = Recorded(k)
    PROVE  Contract!Finish(j)
<1>1. [k \in Jobs |-> PhaseOf(k)]' =
        [[k \in Jobs |-> PhaseOf(k)] EXCEPT ![j] = "done"]
  OBVIOUS
<1>2. UNCHANGED [k \in Jobs |-> TotalOf(k)]
  OBVIOUS
<1>3. UNCHANGED [k \in Jobs |-> Recorded(k)]
  OBVIOUS
<1> QED  BY <1>1, <1>2, <1>3 DEF Contract!Finish, PhaseOf, TotalOf

LEMMA RecordMaps ==
    ASSUME NEW j \in Jobs, PhaseOf(j) \in {"open", "failed"},
           NEW c \in 1 .. TotalOf(j) \ Recorded(j),
           \A k \in Jobs : /\ PhaseOf(k)' = PhaseOf(k)
                           /\ TotalOf(k)' = TotalOf(k)
                           /\ Recorded(k)' = IF k = j THEN Recorded(k) \cup {c}
                                             ELSE Recorded(k)
    PROVE  Contract!Record(j)
<1>1. [k \in Jobs |-> Recorded(k)]' =
        [[k \in Jobs |-> Recorded(k)] EXCEPT ![j] = @ \cup {c}]
  OBVIOUS
<1>2. UNCHANGED [k \in Jobs |-> PhaseOf(k)]
  OBVIOUS
<1>3. UNCHANGED [k \in Jobs |-> TotalOf(k)]
  OBVIOUS
<1> QED  BY <1>1, <1>2, <1>3 DEF Contract!Record, PhaseOf, TotalOf

LEMMA OpenMaps ==
    ASSUME NEW j \in Jobs, PhaseOf(j) = "none", NEW n \in 1 .. MaxCards,
           NEW S \in SUBSET {k \in Jobs : PhaseOf(k) \in {"done", "failed"}},
           S # {} => Memory,
           \A k \in Jobs : /\ PhaseOf(k)' = IF k = j THEN "open"
                                            ELSE IF k \in S THEN "gone" ELSE PhaseOf(k)
                           /\ TotalOf(k)' = IF k = j THEN n
                                            ELSE IF k \in S THEN 0 ELSE TotalOf(k)
                           /\ Recorded(k)' = IF k \in S THEN {} ELSE Recorded(k)
    PROVE  Contract!Open(j)
<1> DEFINE phase == [k \in Jobs |-> PhaseOf(k)]
           total == [k \in Jobs |-> TotalOf(k)]
           recorded == [k \in Jobs |-> Recorded(k)]
           over == {k \in Jobs : phase[k] \in {"done", "failed"}}
<1>1. phase[j] = "none"
  OBVIOUS
<1>2. S \in SUBSET over
  OBVIOUS
<1>3. phase' = [k \in Jobs |-> IF k = j THEN "open"
                               ELSE IF k \in S THEN "gone" ELSE phase[k]]
  OBVIOUS
<1>4. total' = [k \in Jobs |-> IF k = j THEN n
                               ELSE IF k \in S THEN 0 ELSE total[k]]
  OBVIOUS
<1>5. recorded' = [k \in Jobs |-> IF k \in S THEN {} ELSE recorded[k]]
  OBVIOUS
<1> HIDE DEF phase, total, recorded, over
<1>6. \E T \in SUBSET over, m \in 1 .. MaxCards :
        /\ T # {} => Memory
        /\ phase' = [k \in Jobs |-> IF k = j THEN "open"
                                    ELSE IF k \in T THEN "gone" ELSE phase[k]]
        /\ total' = [k \in Jobs |-> IF k = j THEN m
                                    ELSE IF k \in T THEN 0 ELSE total[k]]
        /\ recorded' = [k \in Jobs |-> IF k \in T THEN {} ELSE recorded[k]]
  BY <1>2, <1>3, <1>4, <1>5
<1> QED  BY <1>1, <1>6 DEF Contract!Open, PhaseOf, TotalOf, phase, total, recorded, over

\* The jobs in S are gone, with their cards.
LEMMA GoneMaps ==
    ASSUME NEW S \in SUBSET Jobs,
           \A j \in Jobs :
             /\ PhaseOf(j)' = IF j \in S THEN "gone" ELSE PhaseOf(j)
             /\ TotalOf(j)' = IF j \in S THEN 0 ELSE TotalOf(j)
             /\ Recorded(j)' = IF j \in S THEN {} ELSE Recorded(j)
    PROVE  /\ S = {j \in Jobs : PhaseOf(j) # "none"} /\ Memory => Contract!Lose
           /\ \A user : S = {j \in Jobs : Owner[j] = user /\ PhaseOf(j) # "none"}
                           => Contract!Clear(user)
<1>1. [j \in Jobs |-> PhaseOf(j)]' =
        [j \in Jobs |-> IF j \in S THEN "gone" ELSE PhaseOf(j)]
  OBVIOUS
<1>2. [j \in Jobs |-> TotalOf(j)]' =
        [j \in Jobs |-> IF j \in S THEN 0 ELSE TotalOf(j)]
  OBVIOUS
<1>3. [j \in Jobs |-> Recorded(j)]' =
        [j \in Jobs |-> IF j \in S THEN {} ELSE Recorded(j)]
  OBVIOUS
<1>4. S = {j \in Jobs : PhaseOf(j) # "none"} /\ Memory => Contract!Lose
  <2> SUFFICES ASSUME S = {j \in Jobs : PhaseOf(j) # "none"}, Memory PROVE Contract!Lose
    OBVIOUS
  <2>1. S = {j \in Jobs : [k \in Jobs |-> PhaseOf(k)][j] # "none"}
    OBVIOUS
  <2> QED  BY <1>1, <1>2, <1>3, <2>1 DEF Contract!Lose, Contract!Gone, PhaseOf, TotalOf
<1>5. ASSUME NEW user, S = {j \in Jobs : Owner[j] = user /\ PhaseOf(j) # "none"}
      PROVE  Contract!Clear(user)
  <2>1. S = {j \in Jobs : Owner[j] = user /\ [k \in Jobs |-> PhaseOf(k)][j] # "none"}
    BY <1>5
  <2> QED  BY <1>1, <1>2, <1>3, <2>1 DEF Contract!Clear, Contract!Gone, PhaseOf, TotalOf
<1> QED  BY <1>4, <1>5

\* Each of them is a step of the contract, in a store that stays the one it is.
LEMMA AbstractStep ==
    ASSUME UNCHANGED backend
    PROVE  /\ \A j \in Jobs : Contract!Open(j) \/ Contract!Record(j) \/ Contract!Finish(j)
                              => Contract!Next
           /\ \A S \in SUBSET Jobs : Contract!Fail(S) => Contract!Next
           /\ \A user \in Users : Contract!Clear(user) => Contract!Next
           /\ Contract!Lose => Contract!Next
  BY DEF Contract!Next, Memory

-----------------------------------------------------------------------------
\* The steps of the model.

LEMMA IdleMaps ==
    ASSUME UNCHANGED <<backend, jobs, leads, created>>
    PROVE  UNCHANGED Contract!vars
<1>1. \A j \in Jobs : PhaseOf(j)' = PhaseOf(j) /\ TotalOf(j)' = TotalOf(j)
  BY DEF PhaseOf, TotalOf
<1> QED  BY <1>1, RecordedStays, Stutter

\* Leads go with their job.
LEMMA NoJobNoLeads ==
    ASSUME StoreFits, NEW j, j \notin DOMAIN jobs
    PROVE  Recorded(j) = {}
  BY DEF StoreFits, RowsFit, Recorded, LeadRows

\* A job's phase tells whether there is a row of it, and which.
LEMMA PhasesOfRows ==
    ASSUME StoreFits, NEW j \in Jobs
    PROVE  /\ PhaseOf(j) = "none" <=> j \notin created
           /\ PhaseOf(j) = "open" <=> j \in DOMAIN jobs /\ jobs[j].status \in Live
           /\ PhaseOf(j) = "done" <=> j \in DOMAIN jobs /\ jobs[j].status = "done"
           /\ PhaseOf(j) = "failed" <=> j \in DOMAIN jobs /\ jobs[j].status = "failed"
<1>1. j \in DOMAIN jobs => jobs[j].status \in Status /\ j \in created
  BY DEF StoreFits, TablesOK, JobRow
<1> QED  BY <1>1 DEF PhaseOf, Status, Live, Terminal

LEMMA CreateJobInMaps ==
    ASSUME StoreFits, NEW j \in Jobs, CreateJobIn(j)
    PROVE  Contract!Next
<1>1. PICK gone \in SUBSET {k \in DOMAIN jobs : jobs[k].status \in Terminal}, n \in Card :
        /\ gone # {} => Memory
        /\ jobs' = Delete(Insert(jobs, j, [user |-> Owner[j], session |-> Home[j],
                                          total |-> n, status |-> "queued"]), gone)
        /\ leads' = LeadsWithout(gone)
  BY CreateJobInEffect
<1>2. UNCHANGED backend /\ j \notin created /\ created' = created \cup {j}
  BY DEF CreateJobIn
<1>3. j \notin DOMAIN jobs /\ j \notin gone /\ DOMAIN jobs \subseteq created
  BY <1>1, <1>2 DEF StoreFits
<1>4. /\ DOMAIN jobs' = (DOMAIN jobs \cup {j}) \ gone
      /\ jobs'[j].status = "queued" /\ jobs'[j].total = n
      /\ \A k \in DOMAIN jobs \ gone : jobs'[k] = jobs[k]
  BY <1>1, <1>3 DEF Delete, Restrict, Insert
<1>5. \A k : Recorded(k)' = IF k \in gone THEN {} ELSE Recorded(k)
  <2>1. TablesOK
    BY DEF StoreFits
  <2> QED  BY <1>1, <2>1, LeadsWithoutEffect
<1>6. gone \in SUBSET {k \in Jobs : PhaseOf(k) \in {"done", "failed"}}
  <2> SUFFICES ASSUME NEW k \in gone PROVE k \in Jobs /\ PhaseOf(k) \in {"done", "failed"}
    OBVIOUS
  <2>1. k \in DOMAIN jobs /\ jobs[k].status \in {"done", "failed"}
    BY <1>1 DEF Terminal
  <2> QED  BY <2>1 DEF StoreFits, PhaseOf, Live
<1>7. ASSUME NEW k \in Jobs
      PROVE  /\ PhaseOf(k)' = IF k = j THEN "open"
                              ELSE IF k \in gone THEN "gone" ELSE PhaseOf(k)
             /\ TotalOf(k)' = IF k = j THEN n ELSE IF k \in gone THEN 0 ELSE TotalOf(k)
  <2>1. CASE k = j
    BY <1>3, <1>4, <2>1 DEF PhaseOf, TotalOf, Live
  <2>2. CASE k # j /\ k \in gone
    BY <1>1, <1>2, <1>3, <1>4, <2>2 DEF PhaseOf, TotalOf
  <2>3. CASE k # j /\ k \notin gone
    BY <1>2, <1>4, <2>3 DEF PhaseOf, TotalOf
  <2> QED  BY <2>1, <2>2, <2>3
<1>8. PhaseOf(j) = "none" /\ n \in 1 .. MaxCards
  BY <1>2, <1>3 DEF PhaseOf, Card
<1>9. Contract!Open(j)
  BY <1>1, <1>5, <1>6, <1>7, <1>8, OpenMaps
<1> QED  BY <1>2, <1>9, AbstractStep

LEMMA AddLeadMaps ==
    ASSUME StoreFits, NEW j \in Jobs, AddLead(j)
    PROVE  Contract!Next
<1>1. /\ j \in DOMAIN jobs /\ jobs[j].status # "done"
      /\ UNCHANGED <<backend, jobs, created>>
  BY AddLeadEffect
<1>2. PICK c \in 1 .. jobs[j].total \ Recorded(j) :
         /\ Recorded(j)' = Recorded(j) \cup {c}
         /\ \A k : k # j => Recorded(k)' = Recorded(k)
  BY AddLeadEffect
<1>3. PhaseOf(j) \in {"open", "failed"} /\ TotalOf(j) = jobs[j].total
  <2>1. jobs[j].status \in Status
    BY <1>1 DEF StoreFits, TablesOK, JobRow
  <2> QED  BY <1>1, <2>1 DEF PhaseOf, TotalOf, Status, Live, Terminal
<1>4. \A k \in Jobs : PhaseOf(k)' = PhaseOf(k) /\ TotalOf(k)' = TotalOf(k)
  BY <1>1 DEF PhaseOf, TotalOf
<1>5. Contract!Record(j)
  BY <1>2, <1>3, <1>4, RecordMaps
<1> QED  BY <1>1, <1>5, AbstractStep

LEMMA SettleMaps ==
    ASSUME StoreFits, NEW j \in Jobs, Settle(j)
    PROVE  Contract!Next
<1>1. PICK status \in Terminal : /\ status = "done" => Recorded(j) = 1 .. jobs[j].total
                                 /\ SetStatus(j, status)
  BY DEF Settle, MemSetStatus
<1>2. /\ UNCHANGED <<backend, leads, created>>
      /\ j \in DOMAIN jobs /\ jobs[j].status \in Live
  BY DEF Settle, MemSetStatus, SetStatus, Seen
<1>3. TablesOK /\ status \in Status
  BY DEF StoreFits, Status
<1>4. /\ DOMAIN jobs' = DOMAIN jobs
      /\ \A k \in DOMAIN jobs :
           /\ jobs'[k].total = jobs[k].total
           /\ jobs'[k].status = IF k = j THEN status ELSE jobs[k].status
  BY <1>1, <1>3, SetStatusEffect
<1>5. PhaseOf(j) = "open" /\ TotalOf(j) = jobs[j].total
  BY <1>2 DEF PhaseOf, TotalOf
<1>6. \A k \in Jobs : /\ PhaseOf(k)' = IF k = j THEN status ELSE PhaseOf(k)
                      /\ TotalOf(k)' = TotalOf(k)
  BY <1>2, <1>4 DEF PhaseOf, TotalOf, Live, Terminal
<1>7. \A k \in Jobs : Recorded(k)' = Recorded(k)
  BY <1>2, RecordedStays
<1>8. CASE status = "done"
  <2>1. Contract!Finish(j)
    BY <1>1, <1>5, <1>6, <1>7, <1>8, FinishMaps
  <2> QED  BY <1>2, <2>1, AbstractStep
<1>9. CASE status = "failed"
  <2>1. \A k \in Jobs : PhaseOf(k)' = IF k \in {j} THEN "failed" ELSE PhaseOf(k)
    BY <1>6, <1>9
  <2>2. Contract!Fail({j})
    BY <1>5, <1>6, <1>7, <2>1, FailMaps
  <2> QED  BY <1>2, <2>2, AbstractStep
<1> QED  BY <1>8, <1>9 DEF Terminal

LEMMA ClearHistoryMaps ==
    ASSUME StoreFits, NEW user \in Users, ClearHistory(user)
    PROVE  Contract!Next
<1>1. PICK gone : gone = JobsOf(user)
  OBVIOUS
<1>2. DeleteEverythingFor(user) /\ UNCHANGED <<backend, created>>
  BY DEF ClearHistory, MemDeleteEverythingFor, Seen
<1>3. TablesOK
  BY DEF StoreFits
<1>4. /\ DOMAIN jobs' = DOMAIN jobs \ gone
      /\ \A k \in DOMAIN jobs' : jobs'[k] = jobs[k]
  <2>1. /\ DOMAIN jobs' = {k \in DOMAIN jobs : jobs[k].user # user}
        /\ \A k \in DOMAIN jobs' : jobs'[k] = jobs[k]
    BY <1>2, <1>3, ClearEffect
  <2>2. gone = {k \in DOMAIN jobs : jobs[k].user = user}
    BY <1>1 DEF JobsOf
  <2> QED  BY <2>1, <2>2
<1>5. \A k : Recorded(k)' = IF k \in gone THEN {} ELSE Recorded(k)
  <2>1. leads' = LeadsWithout(gone)
    BY <1>1, <1>2 DEF DeleteEverythingFor, LeadsWithout
  <2> QED  BY <1>3, <2>1, LeadsWithoutEffect
<1>6. gone = {k \in DOMAIN jobs : Owner[k] = user}
  BY <1>1 DEF JobsOf, StoreFits, RowsFit
<1>7. PICK S : S = {k \in Jobs : Owner[k] = user /\ PhaseOf(k) # "none"}
  OBVIOUS
<1>8. S = {k \in created : Owner[k] = user} /\ S \in SUBSET Jobs /\ gone \subseteq S
  BY <1>6, <1>7, PhasesOfRows DEF StoreFits
<1>9. ASSUME NEW k \in Jobs
      PROVE  /\ PhaseOf(k)' = IF k \in S THEN "gone" ELSE PhaseOf(k)
             /\ TotalOf(k)' = IF k \in S THEN 0 ELSE TotalOf(k)
             /\ Recorded(k)' = IF k \in S THEN {} ELSE Recorded(k)
  <2>1. CASE k \in S
    <3>1. k \notin DOMAIN jobs' /\ k \in created'
      BY <1>2, <1>4, <1>6, <1>8, <2>1
    <3>2. k \notin gone => Recorded(k) = {}
      BY <1>6, <1>8, <2>1, NoJobNoLeads
    <3> QED  BY <1>5, <2>1, <3>1, <3>2 DEF PhaseOf, TotalOf
  <2>2. CASE k \notin S
    BY <1>2, <1>4, <1>5, <1>8, <2>2 DEF PhaseOf, TotalOf
  <2> QED  BY <2>1, <2>2
<1>10. Contract!Clear(user)
  BY <1>7, <1>8, <1>9, GoneMaps
<1> QED  BY <1>2, <1>10, AbstractStep

LEMMA RestartMaps ==
    ASSUME StoreFits, Restart
    PROVE  Contract!Next
<1>1. UNCHANGED <<backend, created>>
  BY DEF Restart, Seen
<1>2. CASE Memory
  <2>1. jobs' = NoRows /\ leads' = NoRows /\ DOMAIN NoRows = {}
    BY <1>2 DEF Restart, MemLose, NoRows
  <2>2. PICK S : S = {k \in Jobs : PhaseOf(k) # "none"}
    OBVIOUS
  <2>3. S = created /\ S \in SUBSET Jobs /\ DOMAIN jobs \subseteq S
    BY <2>2, PhasesOfRows DEF StoreFits
  <2>4. ASSUME NEW k \in Jobs
        PROVE  /\ PhaseOf(k)' = IF k \in S THEN "gone" ELSE PhaseOf(k)
               /\ TotalOf(k)' = IF k \in S THEN 0 ELSE TotalOf(k)
               /\ Recorded(k)' = IF k \in S THEN {} ELSE Recorded(k)
    <3>1. k \notin DOMAIN jobs' /\ Recorded(k)' = {}
      BY <2>1 DEF Recorded, LeadRows
    <3>2. k \notin S => Recorded(k) = {}
      BY <2>3, NoJobNoLeads
    <3> QED  BY <1>1, <2>3, <3>1, <3>2 DEF PhaseOf, TotalOf
  <2>5. Contract!Lose
    BY <1>2, <2>2, <2>3, <2>4, GoneMaps
  <2> QED  BY <1>1, <2>5, AbstractStep
<1>3. CASE ~Memory
  <2>1. ReclaimStaleJobs /\ UNCHANGED leads /\ TablesOK
    BY <1>3 DEF Restart, ReclaimStaleJobs, StoreFits
  <2>2. /\ DOMAIN jobs' = DOMAIN jobs
        /\ \A k \in DOMAIN jobs :
             /\ jobs'[k].total = jobs[k].total
             /\ jobs'[k].status = IF jobs[k].status \in Live THEN "failed" ELSE jobs[k].status
    BY <2>1, ReclaimEffect
  <2>3. PICK S : S = {k \in Jobs : PhaseOf(k) = "open"}
    OBVIOUS
  <2>4. S \in SUBSET Jobs /\ \A k \in S : PhaseOf(k) = "open"
    BY <2>3
  <2>5. ASSUME NEW k \in Jobs
        PROVE  /\ PhaseOf(k)' = IF k \in S THEN "failed" ELSE PhaseOf(k)
               /\ TotalOf(k)' = TotalOf(k)
    <3>1. k \in S <=> k \in DOMAIN jobs /\ jobs[k].status \in Live
      BY <2>3, PhasesOfRows
    <3> QED  BY <1>1, <2>2, <3>1 DEF PhaseOf, TotalOf, Live
  <2>6. Contract!Fail(S)
    BY <2>1, <2>4, <2>5, RecordedStays, FailMaps
  <2> QED  BY <1>1, <2>4, <2>6, AbstractStep
<1> QED  BY <1>2, <1>3

LEMMA InitMaps ==
    ASSUME Init
    PROVE  Contract!Init
<1>1. \A j \in Jobs : PhaseOf(j) = "none" /\ TotalOf(j) = 0 /\ Recorded(j) = {}
  BY DEF Init, StoreInit, NoRows, PhaseOf, TotalOf, Recorded, LeadRows
<1>2. [j \in Jobs |-> PhaseOf(j)] = [j \in Jobs |-> "none"]
  BY <1>1
<1>3. [j \in Jobs |-> TotalOf(j)] = [j \in Jobs |-> 0]
  BY <1>1
<1>4. [j \in Jobs |-> Recorded(j)] = [j \in Jobs |-> {}]
  BY <1>1
<1>5. Memory \in BOOLEAN
  BY DEF Memory
<1> QED  BY <1>2, <1>3, <1>4, <1>5 DEF Contract!Init, PhaseOf, TotalOf

-----------------------------------------------------------------------------
\* Whichever store the service was built with, and whatever is created, appended,
\* settled, evicted, cleared and lost in it, its rows behave as the contract says:
\* each card recorded at most once, "done" only with all of them; a job is forgotten
\* whole, and while it is open only by the user's clear or by a restart.
THEOREM StoresImplementContract == Spec => ImplementsContract
<1>1. Init => Contract!Init
  BY InitMaps
<1>2. HistoryInv /\ RowidsBounded /\ [Next]_vars => [Contract!Next]_(Contract!vars)
  <2> SUFFICES ASSUME HistoryInv, RowidsBounded, [Next]_vars
               PROVE  [Contract!Next]_(Contract!vars)
    OBVIOUS
  <2>1. StoreFits
    BY DEF HistoryInv, HistoryTypeOK, StoreFits, Memory
  <2>2. ASSUME NEW j \in Jobs, OpenSession(j) PROVE UNCHANGED Contract!vars
    BY <2>2, IdleMaps DEF OpenSession, MemCreateSession, CreateSession
  <2>3. ASSUME NEW j \in Jobs, CreateJobIn(j) PROVE Contract!Next
    BY <2>1, <2>3, CreateJobInMaps
  <2>4. ASSUME NEW j \in Jobs, AddLead(j) PROVE Contract!Next
    BY <2>1, <2>4, AddLeadMaps
  <2>5. ASSUME NEW j \in Jobs, Settle(j) PROVE Contract!Next
    BY <2>1, <2>5, SettleMaps
  <2>6. ASSUME NEW user \in Users, ClearHistory(user) PROVE Contract!Next
    BY <2>1, <2>6, ClearHistoryMaps
  <2>7. CASE Restart
    BY <2>1, <2>7, RestartMaps
  <2>8. ASSUME UNCHANGED <<backend, written>> PROVE UNCHANGED Contract!vars
    BY <2>8, IdleMaps DEF written, tables
  <2>9. ASSUME NEW list \in Lists, NEW limit \in Limits, FirstPage(list, limit)
        PROVE  UNCHANGED <<backend, written>>
    BY <2>9 DEF FirstPage
  <2>10. ASSUME NEW s \in Jobs, AskForSession(s) \/ ViewSession(s)
         PROVE  UNCHANGED <<backend, written>>
    BY <2>10 DEF AskForSession, ViewSession
  <2>11. CASE NextPage \/ ReadJobs \/ ReadLeads \/ UNCHANGED vars
    <3>1. UNCHANGED <<backend, written>>
      BY <2>11 DEF NextPage, ReadJobs, ReadLeads, vars
    <3> QED  BY <2>8, <3>1
  <2> QED
    BY <2>2, <2>3, <2>4, <2>5, <2>6, <2>7, <2>8, <2>9, <2>10, <2>11 DEF Next
<1> QED
  BY <1>1, <1>2, HistoryInvariance, PTL DEF Spec, ImplementsContract, Contract!Spec
=============================================================================
