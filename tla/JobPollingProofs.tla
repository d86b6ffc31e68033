-------------------------- MODULE JobPollingProofs --------------------------
(***************************************************************************)
(* What whoever polls a job may rely on, although get_job reads the job    *)
(* and its leads in two transactions.  First what ORDER BY rowid lists,    *)
(* then that a job's list only grows, then the invariant of the answers.   *)
(***************************************************************************)
EXTENDS JobPolling, JobWorkerProofs

USE MaxCardsAssumption
USE DEF Status, Live, Terminal, Card, HasJob

-----------------------------------------------------------------------------
\* The invariant of the answers.  A request and an answer are about an upload
\* that has a job.
AnswersAreOfJobs ==
    \A j \in Jobs : row[j] # None \/ view[j] # NoAnswer => Created(j)

\* The row a request holds has not changed in what it will answer for good.
RowIsCurrent ==
    \A j \in Jobs :
        row[j] # None /\ HasJob(j) =>
            /\ row[j].total = jobs[j].total
            /\ row[j].status \in Terminal => jobs[j].status = row[j].status

\* The last answer lists the first of the cards that the next would list.
AnswerIsAPrefix ==
    \A j \in Jobs : HasJob(j) => IsPrefix(view[j].cards, CardsInOrder(j))

PollInv ==
    /\ PollTypeOK
    /\ AnswersAreOfJobs
    /\ RowIsCurrent
    /\ AnswerIsAPrefix
    /\ DoneAnswerIsComplete
    /\ LastAnswerStands

-----------------------------------------------------------------------------
\* The cards of the rows in S, as ORDER BY rowid lists them.
CardsOf(table, S) ==
    LET earlier == [r \in S |-> {q \in S : q < r}]
        rows    == Ordered(S, earlier)
    IN  [i \in DOMAIN rows |-> table[rows[i]].card]

Place(S, r) == Cardinality({q \in S : q < r}) + 1

LEMMA CardsOfLists ==
    ASSUME NEW S \in SUBSET Nat, IsFiniteSet(S), NEW table
    PROVE  /\ Cardinality(S) \in Nat
           /\ CardsOf(table, S) = [i \in 1 .. Cardinality(S) |-> CardsOf(table, S)[i]]
           /\ \A r \in S : /\ Place(S, r) \in 1 .. Cardinality(S)
                           /\ CardsOf(table, S)[Place(S, r)] = table[r].card
           /\ \A i \in 1 .. Cardinality(S) :
                \E r \in S : Place(S, r) = i /\ CardsOf(table, S)[i] = table[r].card
<1>1. PICK before : before = [r \in S |-> {q \in S : q < r}]
  OBVIOUS
<1>2. \A x \in S : before[x] = {q \in S : q < x}
  BY <1>1
<1> DEFINE rows == Ordered(S, before)
<1>3. CardsOf(table, S) = [i \in DOMAIN rows |-> table[rows[i]].card]
  BY <1>1 DEF CardsOf
<1>4. \A r \in S : Place(S, r) = Cardinality(before[r]) + 1
  BY <1>2 DEF Place
<1>5. /\ Cardinality(S) \in Nat
      /\ rows \in [1 .. Cardinality(S) -> S]
      /\ \A i \in 1 .. Cardinality(S) : Cardinality(before[rows[i]]) = i - 1
      /\ \A x \in S : /\ Cardinality(before[x]) + 1 \in 1 .. Cardinality(S)
                      /\ rows[Cardinality(before[x]) + 1] = x
  <2>1. \A x, y, q \in S : q < x /\ x < y => q < y
    <3> TAKE x, y, q \in S
    <3>1. x \in Nat /\ y \in Nat /\ q \in Nat
      OBVIOUS
    <3> QED
      BY <3>1
  <2>2. \A x \in S : before[x] \subseteq S /\ x \notin before[x]
    <3> TAKE x \in S
    <3>1. x \in Nat /\ before[x] = {q \in S : q < x}
      BY <1>2
    <3> QED
      BY <3>1
  <2>3. \A x, y \in S : x # y => x \in before[y] \/ y \in before[x]
    <3> TAKE x, y \in S
    <3>1. x \in Nat /\ y \in Nat
      OBVIOUS
    <3> QED
      BY <1>2, <3>1
  <2>4. \A x, y \in S : x \in before[y] => before[x] \subseteq before[y]
    BY <1>2, <2>1
  <2>5. IsOrderOn(S, before)
    BY <2>2, <2>3, <2>4 DEF IsOrderOn
  <2>6. /\ Cardinality(S) \in Nat
        /\ Ordered(S, before) \in [1 .. Cardinality(S) -> S]
        /\ \A i \in 1 .. Cardinality(S) :
             Cardinality(before[Ordered(S, before)[i]]) = i - 1
        /\ \A x \in S : /\ Cardinality(before[x]) + 1 \in 1 .. Cardinality(S)
                        /\ Ordered(S, before)[Cardinality(before[x]) + 1] = x
    BY <2>5, OrderedLists
  <2> QED
    BY <2>6, Zenon
<1> HIDE DEF rows
<1>6. DOMAIN rows = 1 .. Cardinality(S)
  BY <1>5
<1>7. ASSUME NEW i \in 1 .. Cardinality(S)
      PROVE  \E r \in S : Place(S, r) = i /\ CardsOf(table, S)[i] = table[r].card
  <2>1. rows[i] \in S
    BY <1>5
  <2>2. Place(S, rows[i]) = (i - 1) + 1
    BY <1>4, <1>5, <2>1
  <2>3. CardsOf(table, S)[i] = table[rows[i]].card
    BY <1>3, <1>6
  <2>4. Place(S, rows[i]) = i
    BY <1>5, <2>2
  <2> QED
    BY <2>1, <2>3, <2>4
<1>8. ASSUME NEW r \in S
      PROVE  /\ Place(S, r) \in 1 .. Cardinality(S)
             /\ CardsOf(table, S)[Place(S, r)] = table[r].card
  <2>1. Place(S, r) \in 1 .. Cardinality(S) /\ rows[Place(S, r)] = r
    BY <1>4, <1>5
  <2> QED
    BY <1>3, <1>6, <2>1
<1>9. CardsOf(table, S) = [i \in 1 .. Cardinality(S) |-> CardsOf(table, S)[i]]
  BY <1>3, <1>6
<1> QED
  BY <1>5, <1>7, <1>8, <1>9

\* A row inserted with a larger rowid than all is listed last.
LEMMA AppendedLast ==
    ASSUME NEW S \in SUBSET Nat, IsFiniteSet(S), NEW table, NEW after,
           \A r \in S : after[r].card = table[r].card,
           NEW new \in Nat, \A r \in S : r < new, NEW T, T = S \cup {new}
    PROVE  /\ Cardinality(T) = Cardinality(S) + 1
           /\ \A i \in 1 .. Cardinality(S) : CardsOf(after, T)[i] = CardsOf(table, S)[i]
<1>1. T \in SUBSET Nat /\ IsFiniteSet(T) /\ Cardinality(T) = Cardinality(S) + 1
  BY FS_AddElement
<1>2. \A r \in S : Place(T, r) = Place(S, r)
  <2> TAKE r \in S
  <2>1. {q \in T : q < r} = {q \in S : q < r}
    OBVIOUS
  <2> QED
    BY <2>1 DEF Place
<1>3. ASSUME NEW i \in 1 .. Cardinality(S)
      PROVE  CardsOf(after, T)[i] = CardsOf(table, S)[i]
  <2>1. PICK r \in S : Place(S, r) = i /\ CardsOf(table, S)[i] = table[r].card
    BY CardsOfLists
  <2>2. r \in T
    OBVIOUS
  <2>3. CardsOf(after, T)[Place(T, r)] = after[r].card
    BY <1>1, <2>2, CardsOfLists
  <2> QED
    BY <1>2, <2>1, <2>3
<1> QED
  BY <1>1, <1>3

\* A list depends on the cards of its rows only.
LEMMA SameList ==
    ASSUME NEW S \in SUBSET Nat, IsFiniteSet(S), NEW table, NEW after,
           \A r \in S : after[r].card = table[r].card
    PROVE  CardsOf(after, S) = CardsOf(table, S)
<1>1. /\ CardsOf(table, S) = [i \in 1 .. Cardinality(S) |-> CardsOf(table, S)[i]]
      /\ CardsOf(after, S) = [i \in 1 .. Cardinality(S) |-> CardsOf(after, S)[i]]
  BY CardsOfLists
<1>2. ASSUME NEW i \in 1 .. Cardinality(S)
      PROVE  CardsOf(after, S)[i] = CardsOf(table, S)[i]
  <2>1. PICK r \in S : Place(S, r) = i /\ CardsOf(table, S)[i] = table[r].card
    BY CardsOfLists
  <2>2. CardsOf(after, S)[Place(S, r)] = after[r].card
    BY CardsOfLists
  <2> QED
    BY <2>1, <2>2
<1> QED
  BY <1>1, <1>2
-----------------------------------------------------------------------------
\* Sequences: BoundedSeq, ToSet and IsPrefix in terms of positions.

LEMMA PrefixMeans ==
    ASSUME NEW A, NEW s \in Seq(A), NEW t \in Seq(A)
    PROVE  IsPrefix(s, t) <=> /\ Len(s) <= Len(t)
                              /\ \A i \in 1 .. Len(s) : s[i] = t[i]
<1>1. Len(s) \in Nat /\ Len(t) \in Nat
  OBVIOUS
<1>2. ASSUME Len(s) <= Len(t)
      PROVE  /\ SubSeq(s, 1, Len(s)) = [i \in 1 .. Len(s) |-> s[i]]
             /\ SubSeq(t, 1, Len(s)) = [i \in 1 .. Len(s) |-> t[i]]
  BY <1>1, <1>2
<1> QED
  BY <1>1, <1>2 DEF IsPrefix

LEMMA PrefixReflexive ==
    ASSUME NEW A, NEW s \in Seq(A)
    PROVE  IsPrefix(s, s) /\ IsPrefix(<<>>, s)
<1>1. <<>> \in Seq(A) /\ Len(<<>>) = 0 /\ Len(s) \in Nat
  OBVIOUS
<1>2. IsPrefix(s, s)
  BY <1>1, PrefixMeans
<1>3. IsPrefix(<<>>, s)
  BY <1>1 DEF IsPrefix
<1> QED
  BY <1>2, <1>3

LEMMA PrefixTransitive ==
    ASSUME NEW A, NEW s \in Seq(A), NEW t \in Seq(A), NEW u \in Seq(A),
           IsPrefix(s, t), IsPrefix(t, u)
    PROVE  IsPrefix(s, u)
<1>1. Len(s) \in Nat /\ Len(t) \in Nat /\ Len(u) \in Nat
  OBVIOUS
<1>2. /\ Len(s) <= Len(t) /\ \A i \in 1 .. Len(s) : s[i] = t[i]
      /\ Len(t) <= Len(u) /\ \A i \in 1 .. Len(t) : t[i] = u[i]
  BY PrefixMeans
<1>3. Len(s) <= Len(u) /\ \A i \in 1 .. Len(s) : s[i] = u[i]
  BY <1>1, <1>2
<1> QED
  BY <1>3, PrefixMeans

LEMMA BoundedSeqMeans ==
    ASSUME NEW A, NEW n \in Nat, NEW s
    PROVE  s \in BoundedSeq(A, n) <=> s \in Seq(A) /\ Len(s) <= n
<1>1. BoundedSeq(A, n) = UNION {[1 .. m -> A] : m \in 0 .. n}
  BY DEF BoundedSeq, SeqOf
<1>2. ASSUME s \in BoundedSeq(A, n) PROVE s \in Seq(A) /\ Len(s) <= n
  <2>1. PICK m \in 0 .. n : s \in [1 .. m -> A]
    BY <1>1, <1>2
  <2>2. s \in Seq(A) /\ Len(s) = m
    BY <2>1
  <2> QED
    BY <2>2
<1>3. ASSUME s \in Seq(A), Len(s) <= n PROVE s \in BoundedSeq(A, n)
  <2>1. Len(s) \in 0 .. n /\ s \in [1 .. Len(s) -> A]
    BY <1>3
  <2> QED
    BY <1>1, <2>1
<1> QED
  BY <1>2, <1>3

-----------------------------------------------------------------------------
\* The list of a job's cards, in one state and from one state to the next.

LEMMA ListOfCards ==
    ASSUME NEW n \in Nat, NEW S \in SUBSET (1 .. n), NEW table,
           \A r \in S : table[r].card \in Card
    PROVE  /\ S \in SUBSET Nat /\ IsFiniteSet(S) /\ Cardinality(S) \in Nat
           /\ CardsOf(table, S) \in Seq(Card)
           /\ Len(CardsOf(table, S)) = Cardinality(S)
<1>1. S \in SUBSET Nat /\ IsFiniteSet(S) /\ Cardinality(S) \in Nat
  <2>1. IsFiniteSet(1 .. n)
    BY FS_Interval
  <2>2. IsFiniteSet(S)
    BY <2>1, FS_Subset
  <2> QED
    BY <2>2, FS_CardinalityType
<1>2. CardsOf(table, S) = [i \in 1 .. Cardinality(S) |-> CardsOf(table, S)[i]]
  BY <1>1, CardsOfLists
<1>3. \A i \in 1 .. Cardinality(S) : CardsOf(table, S)[i] \in Card
  BY <1>1, CardsOfLists
<1>4. CardsOf(table, S) \in [1 .. Cardinality(S) -> Card]
  BY <1>2, <1>3
<1> QED
  BY <1>1, <1>4

\* Each card has one row, so a job's list is as long as the set of its cards.
LEMMA CardsListed ==
    ASSUME TypeOK, OneLeadPerCard, RowidsBounded, NEW j \in Jobs
    PROVE  /\ CardsInOrder(j) \in BoundedSeq(Card, MaxCards)
           /\ CardsInOrder(j) \in Seq(Card)
           /\ Len(CardsInOrder(j)) = Cardinality(Recorded(j))
           /\ ToSet(CardsInOrder(j)) = Recorded(j)
<1>1. PICK n \in Nat : DOMAIN leads \subseteq 1 .. n
  BY DEF RowidsBounded
<1>2. PICK S, table : S = LeadRows(j) /\ table = leads
  OBVIOUS
<1>3. S \in SUBSET (1 .. n) /\ \A r \in S : table[r].card \in Card
  BY <1>1, <1>2 DEF LeadRows, TypeOK, TablesOK, LeadRow
<1>4. CardsInOrder(j) = CardsOf(table, S)
  BY <1>2 DEF CardsInOrder, CardsOf, InOrder
<1>5. /\ S \in SUBSET Nat /\ IsFiniteSet(S) /\ Cardinality(S) \in Nat
      /\ CardsOf(table, S) \in Seq(Card)
      /\ Len(CardsOf(table, S)) = Cardinality(S)
  BY <1>3, ListOfCards
<1>6. Recorded(j) = {table[r].card : r \in S}
  BY <1>2 DEF Recorded
<1>7. \A q, r \in S : table[q].card = table[r].card => q = r
  BY <1>2 DEF OneLeadPerCard, LeadRows
<1>8. Cardinality(Recorded(j)) = Cardinality(S) /\ Cardinality(S) <= MaxCards
  <2>1. PICK T : T = {table[r].card : r \in S}
    OBVIOUS
  <2>2. PICK f : f = [r \in S |-> table[r].card]
    OBVIOUS
  <2>3. f \in Bijection(S, T)
    BY <1>7, <2>1, <2>2 DEF Bijection, Injection, Surjection, IsInjective
  <2>4. ExistsBijection(S, T)
    BY <2>3 DEF ExistsBijection
  <2>5. Cardinality(T) = Cardinality(S)
    BY <1>5, <2>4, FS_Bijection
  <2>6. PICK cards : cards = 1 .. MaxCards
    OBVIOUS
  <2>7. IsFiniteSet(cards) /\ Cardinality(cards) = MaxCards
    BY <2>6, FS_Interval
  <2>8. T \in SUBSET cards
    BY <1>3, <2>1, <2>6
  <2>9. Cardinality(T) <= MaxCards
    BY <2>7, <2>8, FS_Subset
  <2>10. Recorded(j) = T
    BY <1>6, <2>1
  <2> QED
    BY <2>5, <2>9, <2>10
<1>9. ToSet(CardsOf(table, S)) = {table[r].card : r \in S}
  <2>1. DOMAIN CardsOf(table, S) = 1 .. Cardinality(S)
    BY <1>5
  <2>2. \A i \in 1 .. Cardinality(S) : \E r \in S : CardsOf(table, S)[i] = table[r].card
    <3> TAKE i \in 1 .. Cardinality(S)
    <3>1. \E r \in S : Place(S, r) = i /\ CardsOf(table, S)[i] = table[r].card
      BY <1>5, CardsOfLists
    <3> QED
      BY <3>1
  <2>3. \A r \in S : \E i \in 1 .. Cardinality(S) : CardsOf(table, S)[i] = table[r].card
    <3> TAKE r \in S
    <3>1. /\ Place(S, r) \in 1 .. Cardinality(S)
          /\ CardsOf(table, S)[Place(S, r)] = table[r].card
      BY <1>5, CardsOfLists
    <3> QED
      BY <3>1
  <2> QED
    BY <2>1, <2>2, <2>3 DEF ToSet
<1>10. CardsOf(table, S) \in BoundedSeq(Card, MaxCards)
  BY <1>5, <1>8, BoundedSeqMeans
<1> QED
  BY <1>4, <1>5, <1>6, <1>8, <1>9, <1>10

LEMMA ListStays ==
    ASSUME UNCHANGED leads, NEW j
    PROVE  CardsInOrder(j)' = CardsInOrder(j)
<1>1. LeadRows(j)' = LeadRows(j)
  BY DEF LeadRows
<1>2. /\ CardsInOrder(j) = CardsOf(leads, LeadRows(j))
      /\ CardsInOrder(j)' = CardsOf(leads', LeadRows(j)')
  BY DEF CardsInOrder, CardsOf, InOrder
<1> QED
  BY <1>1, <1>2

\* An upload whose job was created has had one ever since.
LEMMA CreatedStays ==
    ASSUME TypeOK, [Next]_vars, NEW j \in Jobs, Created(j)
    PROVE  Created(j)'
<1> USE DEF Created, Phase, Requesting, Working, Worked, Rejected
<1>1. batch \in [Jobs -> Phase]
  BY DEF TypeOK
<1>2. ASSUME NEW k \in Jobs, BatchStep(k) PROVE Created(j)'
  <2>1. \A i \in Jobs \ {k} : batch'[i] = batch[i]
    BY <1>2, BatchEffect
  <2>2. Created(k) => Created(k)'
    BY <1>1, <1>2
       DEF BatchStep, Request, BeginUpload, SpoolFile, NothingAccepted, SpoolEnds,
           UseSession, OpenSession, CreateAndSchedule, SessionGone, RunJob, StartJob,
           GatherReturns, GatherRaises, MarkDone, MarkFailed, Cleanup, BatchRaises,
           SpoolRaises, RequestRaises, StatusRaises, FailRaises, At, Goto
  <2> QED
    BY <2>1, <2>2
<1>3. ASSUME NEW k \in Jobs, NEW c \in Card, CardStep(k, c) PROVE Created(j)'
  BY <1>3, CardEffect
<1>4. ASSUME NEW user \in Users, ClearHistory(user) PROVE Created(j)'
  BY <1>4 DEF ClearHistory, handler
<1>5. CASE Crash \/ Stop
  BY <1>1, <1>5, EndEffect
<1>6. CASE Restart \/ Boot
  BY <1>6 DEF Restart, Boot, handler
<1>7. CASE UNCHANGED vars
  BY <1>7 DEF vars, handler
<1> QED
  BY <1>2, <1>3, <1>4, <1>5, <1>6, <1>7, StepCases

\* No step gives a created upload a job again, changes how many cards a job has
\* or moves one that is over.
LEMMA JobKept ==
    ASSUME IInv, [Next]_vars, NEW j \in Jobs, Created(j), HasJob(j)'
    PROVE  /\ HasJob(j)
           /\ jobs'[j].total = jobs[j].total
           /\ jobs[j].status \in Terminal => jobs'[j].status = jobs[j].status
<1>1. TypeOK /\ TablesOK
  BY DEF IInv, TypeOK
<1>2. CASE UNCHANGED jobs
  BY <1>2
<1>3. ASSUME NEW user \in Users, DeleteEverythingFor(user)
      PROVE  HasJob(j) /\ jobs'[j] = jobs[j]
  BY <1>1, <1>3, ClearEffect
<1>4. ASSUME NEW k \in Jobs, NEW s, NEW n, batch[k] = "creating", CreateJob(k, s, n)
      PROVE  HasJob(j) /\ jobs'[j] = jobs[j]
  <2>1. j # k
    BY <1>4 DEF Created, Working, Worked
  <2> QED
    BY <1>4, <2>1 DEF CreateJob, Insert
<1>5. ASSUME NEW k \in Jobs, NEW status \in Status,
             batch[k] \in {"scheduled", "finishing", "failing"}, SetStatus(k, status)
      PROVE  /\ HasJob(j)
             /\ jobs'[j].total = jobs[j].total
             /\ jobs[j].status \in Terminal => jobs'[j].status = jobs[j].status
  <2>1. k \in DOMAIN jobs => jobs[k].status \notin Terminal
    BY <1>5 DEF IInv, SettledIsLeftAlone, Worked
  <2> QED
    BY <1>1, <1>5, <2>1, SetStatusEffect
<1>6. CASE ReclaimStaleJobs
  BY <1>1, <1>6, ReclaimEffect
<1> QED
  BY <1>1, <1>2, <1>3, <1>4, <1>5, <1>6, JobsChange

\* As long as a job is there its list only grows, at the end: leads are deleted
\* with their job, and SQLite gives a new row the largest rowid.
LEMMA ListGrows ==
    ASSUME IInv, RowidsBounded, [Next]_vars, NEW j \in Jobs, HasJob(j)'
    PROVE  /\ CardsInOrder(j)' \in Seq(Card)
           /\ IsPrefix(CardsInOrder(j), CardsInOrder(j)')
<1>1. TypeOK /\ TablesOK /\ OneLeadPerCard /\ TablesOK'
  <2>1. IInv'
    BY NextKeepsIInv
  <2> QED
    BY <2>1 DEF IInv, TypeOK
<1>2. PICK n \in Nat : DOMAIN leads \subseteq 1 .. n
  BY DEF RowidsBounded
<1>3. PICK S, table : S = LeadRows(j) /\ table = leads
  OBVIOUS
<1>4. PICK T, after : T = LeadRows(j)' /\ after = leads'
  OBVIOUS
<1>5. CardsInOrder(j) = CardsOf(table, S) /\ CardsInOrder(j)' = CardsOf(after, T)
  BY <1>3, <1>4 DEF CardsInOrder, CardsOf, InOrder
<1>6. S \in SUBSET (1 .. n) /\ \A r \in S : table[r].card \in Card
  BY <1>1, <1>2, <1>3 DEF LeadRows, TablesOK, LeadRow
<1>7. /\ S \in SUBSET Nat /\ IsFiniteSet(S) /\ Cardinality(S) \in Nat
      /\ CardsOf(table, S) \in Seq(Card) /\ Len(CardsOf(table, S)) = Cardinality(S)
  BY <1>6, ListOfCards
<1>8. ASSUME T = S, \A r \in S : after[r].card = table[r].card
      PROVE  /\ CardsOf(after, T) \in Seq(Card)
             /\ IsPrefix(CardsOf(table, S), CardsOf(after, T))
  BY <1>7, <1>8, SameList, PrefixReflexive
<1>9. CASE UNCHANGED leads
  <2>1. T = S /\ after = table
    BY <1>3, <1>4, <1>9 DEF LeadRows
  <2> QED
    BY <1>5, <1>8, <2>1
<1>10. ASSUME NEW user \in Users, DeleteEverythingFor(user)
       PROVE  T = S /\ \A r \in S : after[r].card = table[r].card
  <2>1. /\ DOMAIN jobs' = {k \in DOMAIN jobs : jobs[k].user # user}
        /\ DOMAIN leads' = {r \in DOMAIN leads : leads[r].job \notin JobsOf(user)}
        /\ \A r \in DOMAIN leads' : leads'[r] = leads[r]
    BY <1>1, <1>10, ClearEffect
  <2>2. j \notin JobsOf(user)
    BY <2>1 DEF JobsOf
  <2> QED
    BY <1>3, <1>4, <2>1, <2>2 DEF LeadRows
<1>11. ASSUME NEW k \in Jobs, NEW c \in Card, AppendLead(k, c, task[k][c] = "ok")
       PROVE  \/ T = S /\ \A r \in S : after[r].card = table[r].card
              \/ \E new \in Nat \ {0} :
                   /\ T = S \cup {new} /\ \A r \in S : r < new
                   /\ \A r \in S : after[r].card = table[r].card
                   /\ after[new].card \in Card
  <2>1. NextRowid \in Nat \ {0} /\ \A r \in DOMAIN leads : r < NextRowid
    BY NextRowidIsLargest
  <2>2. /\ DOMAIN leads' = DOMAIN leads \cup {NextRowid}
        /\ \A r \in DOMAIN leads : leads'[r] = leads[r]
        /\ leads'[NextRowid].job = k /\ leads'[NextRowid].card = c
    BY <1>2, <1>11, <2>1 DEF AppendLead, Insert
  <2>3. PICK new \in Nat \ {0} : new = NextRowid
    BY <2>1
  <2>4. CASE k = j
    <3>1. T = S \cup {new}
      BY <1>3, <1>4, <2>2, <2>3, <2>4 DEF LeadRows
    <3> QED
      BY <1>3, <1>4, <2>1, <2>2, <2>3, <3>1 DEF LeadRows
  <2>5. CASE k # j
    BY <1>3, <1>4, <2>2, <2>5 DEF LeadRows
  <2> QED
    BY <2>4, <2>5
<1>12. ASSUME NEW new \in Nat \ {0}, T = S \cup {new}, \A r \in S : r < new,
              \A r \in S : after[r].card = table[r].card, after[new].card \in Card
       PROVE  /\ CardsOf(after, T) \in Seq(Card)
              /\ IsPrefix(CardsOf(table, S), CardsOf(after, T))
  <2>1. PICK m \in Nat : m = n + new
    OBVIOUS
  <2>2. T \in SUBSET (1 .. m) /\ \A r \in T : after[r].card \in Card
    BY <1>6, <1>12, <2>1
  <2>3. CardsOf(after, T) \in Seq(Card) /\ Len(CardsOf(after, T)) = Cardinality(T)
    BY <2>2, ListOfCards
  <2>4. /\ Cardinality(T) = Cardinality(S) + 1
        /\ \A i \in 1 .. Cardinality(S) : CardsOf(after, T)[i] = CardsOf(table, S)[i]
    <3>1. new \in Nat /\ S \in SUBSET Nat /\ IsFiniteSet(S)
      BY <1>7
    <3> QED
      BY <1>12, <3>1, AppendedLast
  <2>5. PICK s, t : s = CardsOf(table, S) /\ t = CardsOf(after, T)
    OBVIOUS
  <2>6. s \in Seq(Card) /\ t \in Seq(Card)
    BY <1>7, <2>3, <2>5
  <2>7. Len(s) <= Len(t) /\ \A i \in 1 .. Len(s) : s[i] = t[i]
    <3>1. Len(s) = Cardinality(S) /\ Len(t) = Cardinality(S) + 1
      BY <1>7, <2>3, <2>4, <2>5
    <3>2. \A i \in 1 .. Cardinality(S) : t[i] = s[i]
      BY <2>4, <2>5
    <3> QED
      BY <1>7, <3>1, <3>2
  <2>8. IsPrefix(s, t)
    BY <2>6, <2>7, PrefixMeans
  <2> QED
    BY <2>5, <2>6, <2>8
<1> QED
  BY <1>1, <1>5, <1>8, <1>9, <1>10, <1>11, <1>12, LeadsChange

-----------------------------------------------------------------------------
\* Each part of PollInv is kept: first by the steps of the process.

LEMMA WorkerStepKeepsPollInv ==
    ASSUME IInv, RowidsBounded, PollInv, [Next]_vars, UNCHANGED view,
           \A j \in Jobs : row'[j] = row[j] \/ row'[j] = None,
           row' \in [Jobs -> JobRow \cup {None}]
    PROVE  PollInv'
<1>1. TypeOK
  BY DEF IInv
<1>2. PollTypeOK'
  BY DEF PollInv, PollTypeOK
<1>3. AnswersAreOfJobs'
  BY <1>1, CreatedStays DEF PollInv, AnswersAreOfJobs
<1>4. RowIsCurrent'
  BY JobKept DEF PollInv, AnswersAreOfJobs, RowIsCurrent
<1>5. AnswerIsAPrefix'
  <2> SUFFICES ASSUME NEW j \in Jobs, HasJob(j)'
               PROVE  IsPrefix(view[j].cards, CardsInOrder(j)')
    BY DEF AnswerIsAPrefix
  <2>1. /\ CardsInOrder(j)' \in Seq(Card)
        /\ IsPrefix(CardsInOrder(j), CardsInOrder(j)')
    BY ListGrows
  <2>2. CASE view[j] = NoAnswer
    BY <2>1, <2>2, PrefixReflexive DEF NoAnswer
  <2>3. CASE view[j] # NoAnswer
    <3>1. IsPrefix(view[j].cards, CardsInOrder(j))
      BY <2>3, JobKept DEF PollInv, AnswersAreOfJobs, AnswerIsAPrefix
    <3>2. CardsInOrder(j) \in Seq(Card)
      BY <1>1, CardsListed DEF IInv
    <3>3. view[j].cards \in Seq(Card)
      BY BoundedSeqMeans DEF PollInv, PollTypeOK, Answer
    <3> QED
      BY <2>1, <3>1, <3>2, <3>3, PrefixTransitive
  <2> QED
    BY <2>2, <2>3
<1>6. DoneAnswerIsComplete'
  <2> SUFFICES ASSUME NEW j \in Jobs, view[j].status = "done", HasJob(j)'
               PROVE  /\ ToSet(view[j].cards) = 1 .. view[j].total
                      /\ Len(view[j].cards) = view[j].total
    BY DEF DoneAnswerIsComplete
  <2>1. view[j] # NoAnswer
    BY DEF NoAnswer
  <2>2. HasJob(j)
    BY <2>1, JobKept DEF PollInv, AnswersAreOfJobs
  <2> QED
    BY <2>2 DEF PollInv, DoneAnswerIsComplete
<1>7. LastAnswerStands'
  <2> SUFFICES ASSUME NEW j \in Jobs, view[j].status \in Terminal, HasJob(j)'
               PROVE  jobs'[j].status = view[j].status
    BY DEF LastAnswerStands
  <2>1. view[j] # NoAnswer
    BY DEF NoAnswer
  <2>2. Created(j)
    BY <2>1 DEF PollInv, AnswersAreOfJobs
  <2>3. HasJob(j) /\ (jobs[j].status \in Terminal => jobs'[j].status = jobs[j].status)
    BY <2>2, JobKept
  <2> QED
    BY <2>3 DEF PollInv, LastAnswerStands
<1> QED
  BY <1>2, <1>3, <1>4, <1>5, <1>6, <1>7 DEF PollInv

\* Then by the first SELECT,
LEMMA PollRowKeepsPollInv ==
    ASSUME IInv, PollInv, NEW j \in Jobs, PollRow(j)
    PROVE  PollInv'
<1> USE DEF PollRow, vars, tables
<1>1. jobs[j] \in JobRow /\ Created(j)
  BY DEF IInv, TypeOK, TablesOK, Polling, Created
<1>2. /\ row \in [Jobs -> JobRow \cup {None}] /\ row' = [row EXCEPT ![j] = jobs[j]]
      /\ UNCHANGED <<sessions, jobs, leads, server, handler, task, faults, crashes, view>>
  BY DEF PollInv, PollTypeOK
<1>3. PollTypeOK'
  BY <1>1, <1>2 DEF PollInv, PollTypeOK
<1>4. AnswersAreOfJobs'
  BY <1>1, <1>2 DEF PollInv, AnswersAreOfJobs, Created, handler
<1>5. RowIsCurrent'
  BY <1>2 DEF PollInv, RowIsCurrent
<1>6. AnswerIsAPrefix'
  BY <1>2, ListStays DEF PollInv, AnswerIsAPrefix
<1>7. DoneAnswerIsComplete' /\ LastAnswerStands'
  BY <1>2 DEF PollInv, DoneAnswerIsComplete, LastAnswerStands
<1> QED
  BY <1>3, <1>4, <1>5, <1>6, <1>7 DEF PollInv

\* by an answer 404,
LEMMA PollUnknownKeepsPollInv ==
    ASSUME IInv, RowidsBounded, PollInv, NEW j \in Jobs, PollUnknown(j)
    PROVE  PollInv'
<1> USE DEF PollUnknown, vars, tables
<1>1. Created(j) /\ row[j] = None
  BY DEF Polling, Created
<1>2. /\ \A k \in Jobs : k # j => view'[k] = view[k]
      /\ view'[j] = NotFound
      /\ UNCHANGED <<sessions, jobs, leads, server, handler, task, faults, crashes, row>>
  BY DEF PollInv, PollTypeOK
<1>3. PollTypeOK'
  <2>1. <<>> \in BoundedSeq(Card, MaxCards)
    <3>1. <<>> \in Seq(Card) /\ Len(<<>>) = 0 /\ MaxCards \in Nat /\ 0 <= MaxCards
      OBVIOUS
    <3> QED
      BY <3>1, BoundedSeqMeans
  <2>2. NotFound \in Answer
    BY <2>1 DEF NotFound, Answer
  <2> QED
    BY <1>2, <2>2 DEF PollInv, PollTypeOK
<1>4. AnswersAreOfJobs'
  BY <1>1, <1>2 DEF PollInv, AnswersAreOfJobs, Created, handler
<1>5. RowIsCurrent'
  BY <1>2 DEF PollInv, RowIsCurrent
<1>6. AnswerIsAPrefix'
  <2>1. ASSUME NEW k \in Jobs PROVE IsPrefix(<<>>, CardsInOrder(k))
    <3>1. CardsInOrder(k) \in Seq(Card)
      BY CardsListed DEF IInv
    <3> QED
      BY <3>1, PrefixReflexive
  <2> QED
    BY <1>2, <2>1, ListStays DEF PollInv, AnswerIsAPrefix, NotFound
<1>7. DoneAnswerIsComplete' /\ LastAnswerStands'
  BY <1>2 DEF PollInv, DoneAnswerIsComplete, LastAnswerStands, NotFound
<1> QED
  BY <1>3, <1>4, <1>5, <1>6, <1>7 DEF PollInv

\* and by the second SELECT, whose list is complete when the row said "done".
LEMMA PollLeadsKeepsPollInv ==
    ASSUME IInv, RowidsBounded, PollInv, NEW j \in Jobs, PollLeads(j)
    PROVE  PollInv'
<1> USE DEF PollLeads, vars, tables
<1>1. Created(j) /\ row[j] \in JobRow
  BY DEF Polling, Created, PollInv, PollTypeOK
<1>2. PICK answer : answer = [status |-> row[j].status, total |-> row[j].total,
                              cards |-> CardsInOrder(j)]
  OBVIOUS
<1>3. /\ \A k \in Jobs : k # j => view'[k] = view[k] /\ row'[k] = row[k]
      /\ view' = [view EXCEPT ![j] = answer] /\ view'[j] = answer
      /\ row' = [row EXCEPT ![j] = None] /\ row'[j] = None
      /\ UNCHANGED <<sessions, jobs, leads, server, handler, task, faults, crashes>>
  BY <1>2 DEF PollInv, PollTypeOK
<1>4. /\ CardsInOrder(j) \in BoundedSeq(Card, MaxCards)
      /\ CardsInOrder(j) \in Seq(Card)
      /\ Len(CardsInOrder(j)) = Cardinality(Recorded(j))
      /\ ToSet(CardsInOrder(j)) = Recorded(j)
  BY CardsListed DEF IInv
<1>5. PollTypeOK'
  <2>1. answer \in Answer
    BY <1>1, <1>2, <1>4 DEF Answer, JobRow
  <2> QED
    BY <1>3, <2>1 DEF PollInv, PollTypeOK
<1>6. AnswersAreOfJobs'
  BY <1>1, <1>3 DEF PollInv, AnswersAreOfJobs, Created, handler
<1>7. RowIsCurrent'
  BY <1>3 DEF PollInv, RowIsCurrent
<1>8. AnswerIsAPrefix'
  <2>1. IsPrefix(answer.cards, CardsInOrder(j))
    BY <1>2, <1>4, PrefixReflexive
  <2> QED
    BY <1>3, <2>1, ListStays DEF PollInv, AnswerIsAPrefix
<1>9. ASSUME answer.status = "done", HasJob(j)
      PROVE  ToSet(answer.cards) = 1 .. answer.total /\ Len(answer.cards) = answer.total
  <2>1. row[j].status = "done" /\ row[j].total = jobs[j].total /\ jobs[j].status = "done"
    BY <1>2, <1>9 DEF PollInv, RowIsCurrent
  <2>2. Recorded(j) = 1 .. row[j].total
    BY <1>9, <2>1 DEF IInv, DoneIsComplete
  <2>3. row[j].total \in Nat
    BY <1>1 DEF JobRow
  <2>4. Cardinality(1 .. row[j].total) = row[j].total
    BY <2>3, FS_Interval
  <2> QED
    BY <1>2, <1>4, <2>2, <2>4
<1>10. DoneAnswerIsComplete'
  BY <1>3, <1>9 DEF PollInv, DoneAnswerIsComplete
<1>11. LastAnswerStands'
  BY <1>2, <1>3 DEF PollInv, RowIsCurrent, LastAnswerStands
<1> QED
  BY <1>5, <1>6, <1>7, <1>8, <1>10, <1>11 DEF PollInv

\* A request that raises counts as a fault and is forgotten.
LEMMA PollRaisesKeeps ==
    ASSUME IInv, PollInv, NEW j \in Jobs, PollRaises(j)
    PROVE  IInv' /\ PollInv'
<1> USE DEF IInv
<1>1. /\ UNCHANGED <<sessions, jobs, leads, server, batch, accepted, session, dir,
                     spool, task, crashes, view>>
      /\ faults' \in 0 .. MaxFaults
      /\ Created(j)
  BY BoundsAssumption
     DEF PollRaises, tables, handler, Fault, TypeOK, Polling, Created
<1>2. UNCHANGED tables
  BY <1>1 DEF tables
<1>3. TablesOK' /\ LeadsHaveJobs' /\ OneLeadPerCard' /\ DoneIsComplete'
  BY <1>2, StoreIdle
<1>4. TypeOK'
  BY <1>1, <1>3 DEF TypeOK
<1>5. RowsAreTheirBatchs' /\ TasksAreTheirJobs' /\ SettledIsLeftAlone'
  BY <1>1 DEF RowsAreTheirBatchs, TasksAreTheirJobs, SettledIsLeftAlone, Created
<1>6. LeadsAreTheirTasks'
  BY <1>1 DEF LeadsAreTheirTasks, Recorded, LeadRows
<1>7. FinishingIsComplete' /\ NoTaskWithoutProcess'
  BY <1>1 DEF FinishingIsComplete, AllReturned, NoTaskWithoutProcess
<1>8. /\ row \in [Jobs -> JobRow \cup {None}] /\ row' = [row EXCEPT ![j] = None]
  BY DEF PollRaises, PollInv, PollTypeOK
<1>9. PollTypeOK' /\ AnswersAreOfJobs'
  BY <1>1, <1>8 DEF PollInv, PollTypeOK, AnswersAreOfJobs, Created
<1>10. RowIsCurrent'
  BY <1>1, <1>8 DEF PollInv, RowIsCurrent
<1>11. AnswerIsAPrefix'
  BY <1>1, ListStays DEF PollInv, AnswerIsAPrefix
<1>12. DoneAnswerIsComplete' /\ LastAnswerStands'
  BY <1>1 DEF PollInv, DoneAnswerIsComplete, LastAnswerStands
<1> QED
  BY <1>3, <1>4, <1>5, <1>6, <1>7, <1>9, <1>10, <1>11, <1>12 DEF PollInv

LEMMA InitPoll ==
    ASSUME PollInit
    PROVE  IInv /\ RowidsBounded /\ PollInv
<1> USE DEF PollInit
<1>1. IInv /\ RowidsBounded
  BY InitIInv
<1>2. <<>> \in BoundedSeq(Card, MaxCards)
  <2>1. <<>> \in Seq(Card) /\ Len(<<>>) = 0 /\ MaxCards \in Nat /\ 0 <= MaxCards
    OBVIOUS
  <2> QED
    BY <2>1, BoundedSeqMeans
<1>3. NoAnswer \in Answer
  BY <1>2 DEF NoAnswer, Answer
<1>4. PollTypeOK /\ AnswersAreOfJobs
  BY <1>3 DEF PollTypeOK, AnswersAreOfJobs
<1>5. \A j \in Jobs : ~HasJob(j)
  BY DEF Init, StoreInit, NoRows
<1> QED
  BY <1>1, <1>4, <1>5
     DEF PollInv, RowIsCurrent, AnswerIsAPrefix, DoneAnswerIsComplete, LastAnswerStands

LEMMA PollNextKeeps ==
    ASSUME IInv, RowidsBounded, PollInv, [PollNext]_allVars
    PROVE  IInv' /\ RowidsBounded' /\ PollInv'
<1> USE DEF allVars, pollVars
<1>1. row \in [Jobs -> JobRow \cup {None}]
  BY DEF PollInv, PollTypeOK
<1>2. ASSUME [Next]_vars, UNCHANGED view, \A j \in Jobs : row'[j] = row[j] \/ row'[j] = None,
             row' \in [Jobs -> JobRow \cup {None}]
      PROVE  IInv' /\ RowidsBounded' /\ PollInv'
  <2>1. IInv' /\ RowidsBounded'
    BY <1>2, NextKeepsIInv, NextKeepsBound DEF IInv
  <2> QED
    BY <1>2, <2>1, WorkerStepKeepsPollInv
<1>3. CASE WorkerStep
  BY <1>1, <1>2, <1>3 DEF WorkerStep
<1>4. CASE UNCHANGED allVars
  BY <1>1, <1>2, <1>4
<1>5. ASSUME NEW j \in Jobs, Poll(j)
      PROVE  IInv' /\ RowidsBounded' /\ PollInv'
  <2>1. UNCHANGED vars
    BY <1>5 DEF Poll, PollRow, PollUnknown, PollLeads
  <2>2. IInv' /\ RowidsBounded'
    BY <2>1, NextKeepsIInv, NextKeepsBound DEF IInv
  <2> QED
    BY <1>5, <2>2, PollRowKeepsPollInv, PollUnknownKeepsPollInv, PollLeadsKeepsPollInv
       DEF Poll
<1>6. ASSUME NEW j \in Jobs, PollRaises(j)
      PROVE  IInv' /\ RowidsBounded' /\ PollInv'
  <2>1. UNCHANGED leads
    BY <1>6 DEF PollRaises, tables
  <2> QED
    BY <1>6, <2>1, BoundKept, PollRaisesKeeps
<1> QED
  BY <1>3, <1>4, <1>5, <1>6 DEF PollNext

\* The invariant of the answers, for any number of users, jobs and cards.
THEOREM PollInvariance == PollSpec => [](IInv /\ RowidsBounded /\ PollInv)
<1>1. PollInit => IInv /\ RowidsBounded /\ PollInv
  BY InitPoll
<1>2. IInv /\ RowidsBounded /\ PollInv /\ [PollNext]_allVars
        => (IInv /\ RowidsBounded /\ PollInv)'
  BY PollNextKeeps
<1> QED
  BY <1>1, <1>2, PTL DEF PollSpec

\* What a request holds between get_job's two SELECTs and what a client was told last
\* keep their types.
THEOREM PollTypeCorrect == PollSpec => []PollTypeOK
BY PollInvariance, PTL DEF PollInv

\* An answer "done" carries every card, although get_job's two SELECTs are two
\* transactions and the worker appends between them.
THEOREM DoneAnswersAreComplete == PollSpec => []DoneAnswerIsComplete
BY PollInvariance, PTL DEF PollInv

\* The answer that ends a client's polling stays true as long as the job exists.
THEOREM LastAnswersStand == PollSpec => []LastAnswerStands
BY PollInvariance, PTL DEF PollInv

\* What a user watched appear stays where it appeared: successive answers of
\* get_job only add cards at the end.
THEOREM AnswersOnlyGrow == PollSpec => AnswersGrow
<1> DEFINE Grow == \A j \in Jobs :
                     view'[j].status # "gone" /\ HasJob(j)
                         => IsPrefix(view[j].cards, view'[j].cards)
<1>1. ASSUME IInv, RowidsBounded, PollInv, PollNext
      PROVE  Grow
  <2>1. ASSUME NEW j \in Jobs PROVE IsPrefix(view[j].cards, view[j].cards)
    <3>1. view[j].cards \in Seq(Card)
      BY <1>1, BoundedSeqMeans DEF PollInv, PollTypeOK, Answer
    <3> QED
      BY <3>1, PrefixReflexive
  <2>2. CASE UNCHANGED view
    BY <2>1, <2>2
  <2>3. ASSUME NEW j \in Jobs, PollUnknown(j) PROVE Grow
    BY <1>1, <2>1, <2>3 DEF PollUnknown, PollInv, PollTypeOK, NotFound
  <2>4. ASSUME NEW j \in Jobs, PollLeads(j) PROVE Grow
    <3>1. HasJob(j) => IsPrefix(view[j].cards, CardsInOrder(j))
      BY <1>1 DEF PollInv, AnswerIsAPrefix
    <3>2. /\ \A k \in Jobs : k # j => view'[k] = view[k]
          /\ view'[j].cards = CardsInOrder(j)
      BY <1>1, <2>4 DEF PollLeads, PollInv, PollTypeOK
    <3> QED
      BY <2>1, <3>1, <3>2
  <2> QED
    BY <1>1, <2>2, <2>3, <2>4
       DEF PollNext, WorkerStep, Poll, PollRow, PollRaises
<1>2. IInv /\ RowidsBounded /\ PollInv /\ [PollNext]_allVars => [Grow]_allVars
  BY <1>1
<1> QED
  BY <1>2, PollInvariance, PTL DEF PollSpec, AnswersGrow
=============================================================================
