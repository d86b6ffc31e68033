--------------------------- MODULE ImageStoreProofs ---------------------------
(***************************************************************************)
(* With a single server process no sweep ever deletes an image that a lead *)
(* names or will name, for any number of cards, users and digests: nothing *)
(* is in flight while it sweeps, so the keep-list it read stays current.   *)
(***************************************************************************)
EXTENDS ImageStore, FiniteSetTheorems, TLAPS

\* The single process.
Alone(w) == Workers = {w}

-----------------------------------------------------------------------------
\* What TempsAreFew rests on, for any number of processes: put is synchronous, so
\* a process writes one file at a time, and what it writes to is there.
Writing == {c \in Cards : stage[c] = "writing"}

OneWriteEach == \A c, d \in Writing : at[c] = at[d] => c = d

WritesHaveTemps == \A c \in Writing : <<at[c], Image[c]>> \in temps

TempsInv ==
    /\ TypeOK
    /\ OneWriteEach
    /\ WritesHaveTemps
    /\ IsFiniteSet(Writing) /\ IsFiniteSet(temps)
    /\ TempsAreFew

-----------------------------------------------------------------------------
\* A new row refers to its own image and to no other.
LEMMA NewReference ==
    ASSUME NEW c, NEW row, rows' = With(rows, c, row)
    PROVE  Referenced' \subseteq Referenced \cup ({row.image} \ {None})
<1>1. /\ DOMAIN rows' = DOMAIN rows \cup {c}
      /\ \A x \in DOMAIN rows' : rows'[x] = IF x = c THEN row ELSE rows[x]
  BY DEF With
<1>2. \A x \in DOMAIN rows' :
        rows'[x].image # None => rows'[x].image \in Referenced \cup ({row.image} \ {None})
  BY <1>1 DEF Referenced
<1> QED
  BY <1>2 DEF Referenced

-----------------------------------------------------------------------------
USE ImageAssumption, OwnerAssumption, NoneAssumption, RetentionAssumption,
    BoundsAssumption
USE DEF Phase, Stage, Fault, Free, disk, sweep, cards

-----------------------------------------------------------------------------
LEMMA InitIInv ==
    ASSUME Init
    PROVE  IInv
<1>1. TypeOK
  BY DEF Init, Nothing, TypeOK
<1>2. ReferencedImagesExist /\ \A d \in DOMAIN files : files[d] = "whole"
  BY DEF Init, Nothing, ReferencedImagesExist, Referenced
<1>3. HeldImagesExist /\ NothingInFlight /\ KeepListIsCurrent
  BY DEF Init, HeldImagesExist, NothingInFlight, KeepListIsCurrent
<1> QED
  BY <1>1, <1>2, <1>3 DEF IInv

LEMMA NextKeepsIInv ==
    ASSUME NEW w0, Alone(w0), IInv, [Next]_vars
    PROVE  IInv'
<1> USE DEF IInv, TypeOK, ReferencedImagesExist, Referenced, HeldImagesExist,
            NothingInFlight, KeepListIsCurrent, Alone
<1>1. ASSUME NEW c \in Cards, PutExists(c) PROVE IInv'
  BY <1>1 DEF PutExists
<1>2. ASSUME NEW c \in Cards, PutOpens(c) PROVE IInv'
  BY <1>2 DEF PutOpens
<1>3. ASSUME NEW c \in Cards, PutReplaces(c) PROVE IInv'
  BY <1>3 DEF PutReplaces, With
<1>4. ASSUME NEW c \in Cards, PutRaises(c) PROVE IInv'
  <2> USE <1>4 DEF PutRaises, Unlinked
  <2>1. held[c] = None
    OBVIOUS
  <2>2. TypeOK' /\ ReferencedImagesExist' /\ NothingInFlight'
    OBVIOUS
  <2>3. HeldImagesExist'
    BY <2>1
  <2>4. KeepListIsCurrent' /\ \A d \in DOMAIN files' : files'[d] = "whole"
    OBVIOUS
  <2> QED
    BY <2>2, <2>3, <2>4
<1>5. ASSUME NEW c \in Cards, NoImage(c) PROVE IInv'
  <2> USE <1>5 DEF NoImage
  <2>1. held[c] = None
    OBVIOUS
  <2>2. TypeOK' /\ ReferencedImagesExist' /\ NothingInFlight'
    OBVIOUS
  <2>3. HeldImagesExist'
    BY <2>1
  <2>4. KeepListIsCurrent' /\ \A d \in DOMAIN files' : files'[d] = "whole"
    OBVIOUS
  <2> QED
    BY <2>2, <2>3, <2>4
<1>6. ASSUME NEW c \in Cards, RecordLead(c) PROVE IInv'
  <2> USE <1>6 DEF RecordLead
  <2>1. Referenced' \subseteq Referenced \cup ({held[c]} \ {None})
    <3>1. rows' = With(rows, c, [image |-> held[c], old |-> FALSE])
      OBVIOUS
    <3>2. [image |-> held[c], old |-> FALSE].image = held[c]
      OBVIOUS
    <3> HIDE DEF Referenced
    <3> QED
      BY <3>1, <3>2, NewReference
  <2>2. TypeOK'
    <3>1. PICK new \in [image : Digests \cup {None}, old : BOOLEAN] :
            new = [image |-> held[c], old |-> FALSE]
      OBVIOUS
    <3>2. DOMAIN rows' = DOMAIN rows \cup {c}
      BY DEF With
    <3>3. ASSUME NEW x \in DOMAIN rows'
          PROVE  rows'[x] \in [image : Digests \cup {None}, old : BOOLEAN]
      <4>1. rows'[x] = IF x = c THEN new ELSE rows[x]
        BY <3>1, <3>2 DEF With
      <4>2. x # c => rows[x] \in [image : Digests \cup {None}, old : BOOLEAN]
        BY <3>2, <3>3
      <4> QED
        BY <4>1, <4>2
    <3> QED
      BY <3>2, <3>3
  <2>3. ReferencedImagesExist'
    <3>1. UNCHANGED files
      OBVIOUS
    <3>2. \A d \in Referenced \cup ({held[c]} \ {None}) : d \in DOMAIN files /\ files[d] = "whole"
      OBVIOUS
    <3> HIDE DEF Referenced
    <3> QED
      BY <2>1, <3>1, <3>2
  <2>4. HeldImagesExist' /\ NothingInFlight' /\ \A d \in DOMAIN files' : files'[d] = "whole"
    OBVIOUS
  <2>5. KeepListIsCurrent'
    \* The card's own process serves, so no sweep is under way.
    OBVIOUS
  <2> QED
    BY <2>2, <2>3, <2>4, <2>5
<1>7. ASSUME NEW c \in Cards, LeadLost(c) PROVE IInv'
  BY <1>7 DEF LeadLost
<1>8. ASSUME NEW c \in Cards, Ages(c) PROVE IInv'
  <2> USE <1>8 DEF Ages
  <2>1. /\ DOMAIN rows' = DOMAIN rows
        /\ \A x \in DOMAIN rows : rows'[x] = IF x = c THEN [rows[c] EXCEPT !.old = TRUE]
                                           ELSE rows[x]
    OBVIOUS
  <2>2. \A x \in DOMAIN rows : /\ rows'[x].image = rows[x].image
                              /\ rows'[x] \in [image : Digests \cup {None}, old : BOOLEAN]
    <3> TAKE x \in DOMAIN rows
    <3>1. rows[x] \in [image : Digests \cup {None}, old : BOOLEAN]
      OBVIOUS
    <3>2. [rows[x] EXCEPT !.old = TRUE].image = rows[x].image
      BY <3>1
    <3>3. [rows[x] EXCEPT !.old = TRUE] \in [image : Digests \cup {None}, old : BOOLEAN]
      BY <3>1
    <3> QED
      BY <2>1, <3>1, <3>2, <3>3
  <2>3. Referenced' = Referenced
    BY <2>1, <2>2
  <2>4. TypeOK'
    BY <2>1, <2>2
  <2> HIDE DEF Referenced
  <2>5. ReferencedImagesExist' /\ HeldImagesExist' /\ NothingInFlight'
    BY <2>3
  <2>6. KeepListIsCurrent' /\ \A d \in DOMAIN files' : files'[d] = "whole"
    BY <2>3
  <2> QED
    BY <2>4, <2>5, <2>6
<1>9. ASSUME NEW w \in Workers, NEW user \in Users, ClearHistory(w, user) PROVE IInv'
  BY <1>9 DEF ClearHistory, Without, Restrict
<1>10. ASSUME NEW w \in Workers, Start(w) PROVE IInv'
  BY <1>10 DEF Start
<1>11. ASSUME NEW w \in Workers, Expire(w) PROVE IInv'
  BY <1>11 DEF Expire
<1>12. ASSUME NEW w \in Workers, ReadKeepList(w) PROVE IInv'
  BY <1>12 DEF ReadKeepList, KeepList
<1>13. ASSUME NEW w \in Workers, NEW d \in Digests, SweepFile(w, d) PROVE IInv'
  BY <1>13 DEF SweepFile, Without, Restrict
<1>14. ASSUME NEW w \in Workers, NEW d \in Digests, SweepSkips(w, d) PROVE IInv'
  BY <1>14 DEF SweepSkips
<1>15. ASSUME NEW w \in Workers, Serve(w) PROVE IInv'
  BY <1>15 DEF Serve
<1>16. ASSUME NEW w \in Workers, Crash(w) PROVE IInv'
  BY <1>16 DEF Crash
<1>17. CASE UNCHANGED vars
  BY <1>17 DEF vars
<1> QED
  BY <1>1, <1>2, <1>3, <1>4, <1>5, <1>6, <1>7, <1>8, <1>9, <1>10, <1>11, <1>12,
     <1>13, <1>14, <1>15, <1>16, <1>17 DEF Next

\* The files, the leads, the cards in flight and a sweep's keep-list always fit
\* together, as long as a single process sweeps.
THEOREM Invariance ==
    ASSUME NEW w0, Alone(w0)
    PROVE  Spec => []IInv
<1>1. IInv /\ [Next]_vars => IInv'
  BY NextKeepsIInv
<1> QED
  BY <1>1, InitIInv, PTL DEF Spec

\* The image a lead names is on disk and complete, as long as a single process
\* sweeps: nothing is in flight while it does.
THEOREM ImagesStay ==
    ASSUME NEW w0, Alone(w0)
    PROVE  Spec => []ReferencedImagesExist
BY Invariance, PTL DEF IInv

\* A sweep in which nothing raised leaves exactly the files that leads name.
THEOREM SweepsAreThorough ==
    ASSUME NEW w0, Alone(w0)
    PROVE  Spec => SweepLeavesNoOrphan
<1> DEFINE Swept == \A w \in Workers :
                      server[w] = "sweeping" /\ server'[w] = "serving" /\ faults = 0
                          => DOMAIN files \subseteq Referenced
<1>1. ASSUME IInv, [Next]_vars PROVE Swept
  <2> SUFFICES ASSUME NEW w \in Workers, server[w] = "sweeping",
                      server'[w] = "serving", faults = 0
               PROVE  DOMAIN files \subseteq Referenced
    OBVIOUS
  <2>1. todo[w] = {}
    <3>1. \A v \in Workers : v = w
      BY DEF Alone
    <3>2. server' # server
      BY <1>1 DEF IInv, TypeOK
    <3>3. \E v \in Workers : Start(v) \/ Expire(v) \/ ReadKeepList(v) \/ Serve(v) \/ Crash(v)
      BY <1>1, <3>2 DEF Next, vars, PutExists, PutOpens, PutReplaces, PutRaises, NoImage,
                        RecordLead, LeadLost, Ages, ClearHistory, SweepFile, SweepSkips
    <3> QED
      BY <1>1, <3>1, <3>3 DEF IInv, TypeOK, Start, Expire, ReadKeepList, Serve, Crash
  <2> QED
    BY <1>1, <2>1 DEF IInv, KeepListIsCurrent
<1>2. IInv /\ [Next]_vars => [Swept]_vars
  BY <1>1
<1> QED
  BY <1>2, Invariance, PTL DEF Spec, SweepLeavesNoOrphan

-----------------------------------------------------------------------------
\* Temporary files, with any number of processes.

LEMMA TypeOKKept ==
    ASSUME TypeOK, [Next]_vars
    PROVE  TypeOK'
<1> USE DEF TypeOK
<1>1. ASSUME NEW c \in Cards, PutExists(c) PROVE TypeOK'
  BY <1>1 DEF PutExists
<1>2. ASSUME NEW c \in Cards, PutOpens(c) PROVE TypeOK'
  BY <1>2 DEF PutOpens
<1>3. ASSUME NEW c \in Cards, PutReplaces(c) PROVE TypeOK'
  BY <1>3 DEF PutReplaces, With
<1>4. ASSUME NEW c \in Cards, PutRaises(c) PROVE TypeOK'
  BY <1>4 DEF PutRaises, Unlinked
<1>5. ASSUME NEW c \in Cards, NoImage(c) PROVE TypeOK'
  BY <1>5 DEF NoImage
<1>6. ASSUME NEW c \in Cards, RecordLead(c) PROVE TypeOK'
  BY <1>6 DEF RecordLead, With
<1>7. ASSUME NEW c \in Cards, LeadLost(c) PROVE TypeOK'
  BY <1>7 DEF LeadLost
<1>8. ASSUME NEW c \in Cards, Ages(c) PROVE TypeOK'
  BY <1>8 DEF Ages
<1>9. ASSUME NEW w \in Workers, NEW user \in Users, ClearHistory(w, user) PROVE TypeOK'
  BY <1>9 DEF ClearHistory, Without, Restrict
<1>10. ASSUME NEW w \in Workers, Start(w) PROVE TypeOK'
  BY <1>10 DEF Start
<1>11. ASSUME NEW w \in Workers, Expire(w) PROVE TypeOK'
  BY <1>11 DEF Expire
<1>12. ASSUME NEW w \in Workers, ReadKeepList(w) PROVE TypeOK'
  BY <1>12 DEF ReadKeepList, KeepList, Referenced
<1>13. ASSUME NEW w \in Workers, NEW d \in Digests, SweepFile(w, d) PROVE TypeOK'
  BY <1>13 DEF SweepFile, Without, Restrict
<1>14. ASSUME NEW w \in Workers, NEW d \in Digests, SweepSkips(w, d) PROVE TypeOK'
  BY <1>14 DEF SweepSkips
<1>15. ASSUME NEW w \in Workers, Serve(w) PROVE TypeOK'
  BY <1>15 DEF Serve
<1>16. ASSUME NEW w \in Workers, Crash(w) PROVE TypeOK'
  BY <1>16 DEF Crash
<1>17. CASE UNCHANGED vars
  BY <1>17 DEF vars
<1> QED
  BY <1>1, <1>2, <1>3, <1>4, <1>5, <1>6, <1>7, <1>8, <1>9, <1>10, <1>11, <1>12,
     <1>13, <1>14, <1>15, <1>16, <1>17 DEF Next

\* What the steps do to the writes in progress and their files: one begins, one
\* ends, or a process dies.
LEMMA WritesChange ==
    ASSUME TypeOK, [Next]_vars
    PROVE  \/ Writing' = Writing /\ UNCHANGED <<temps, crashes>>
           \/ \E c \in Cards :
                /\ \A d \in Writing : at[d] # at[c]
                /\ Writing' = Writing \cup {c}
                /\ temps' = temps \cup {<<at[c], Image[c]>>}
                /\ UNCHANGED crashes
           \/ \E c \in Writing :
                /\ Writing' = Writing \ {c}
                /\ temps' = temps \ {<<at[c], Image[c]>>}
                /\ UNCHANGED crashes
           \/ \E w \in Workers :
                /\ Writing' = {c \in Writing : at[c] # w}
                /\ UNCHANGED temps
                /\ crashes' = crashes + 1
<1> USE DEF TypeOK, Writing
<1>1. ASSUME NEW c \in Cards, PutOpens(c)
      PROVE  /\ \A d \in Writing : at[d] # at[c]
             /\ Writing' = Writing \cup {c}
             /\ temps' = temps \cup {<<at[c], Image[c]>>}
             /\ UNCHANGED crashes
  BY <1>1 DEF PutOpens
<1>2. ASSUME NEW c \in Cards, PutReplaces(c) \/ PutRaises(c)
      PROVE  /\ c \in Writing
             /\ Writing' = Writing \ {c}
             /\ temps' = temps \ {<<at[c], Image[c]>>}
             /\ UNCHANGED crashes
  BY <1>2 DEF PutReplaces, PutRaises, Unlinked
<1>3. ASSUME NEW w \in Workers, Crash(w)
      PROVE  /\ Writing' = {c \in Writing : at[c] # w}
             /\ UNCHANGED temps
             /\ crashes' = crashes + 1
  BY <1>3 DEF Crash
<1>4. ASSUME NEW c \in Cards,
             PutExists(c) \/ NoImage(c) \/ RecordLead(c) \/ LeadLost(c) \/ Ages(c)
      PROVE  Writing' = Writing /\ UNCHANGED <<temps, crashes>>
  BY <1>4 DEF PutExists, NoImage, RecordLead, LeadLost, Ages
<1>5. ASSUME NEW w \in Workers,
             \/ \E user \in Users : ClearHistory(w, user)
             \/ Start(w) \/ Expire(w) \/ ReadKeepList(w) \/ Serve(w)
             \/ \E d \in Digests : SweepFile(w, d) \/ SweepSkips(w, d)
      PROVE  Writing' = Writing /\ UNCHANGED <<temps, crashes>>
  <2>1. UNCHANGED <<temps, crashes>> /\ UNCHANGED stage
    BY <1>5 DEF ClearHistory, Start, Expire, ReadKeepList, Serve, SweepFile, SweepSkips
  <2> QED
    BY <2>1
<1>6. CASE UNCHANGED vars
  BY <1>6 DEF vars
<1> QED
  BY <1>1, <1>2, <1>3, <1>4, <1>5, <1>6 DEF Next

LEMMA TempsInvKept ==
    ASSUME TempsInv, [Next]_vars
    PROVE  TempsInv'
<1> USE DEF TempsInv, OneWriteEach, WritesHaveTemps
<1>1. TypeOK' /\ at' = at
  <2>1. at' = at
    BY DEF Next, vars, PutExists, PutOpens, PutReplaces, PutRaises, NoImage, RecordLead,
           LeadLost, Ages, ClearHistory, Start, Expire, ReadKeepList, Serve, SweepFile,
           SweepSkips, Crash
  <2> QED
    BY <2>1, TypeOKKept
<1>2. PICK n, m, k : n = Cardinality(temps) /\ m = Cardinality(Writing) /\ k = crashes
  OBVIOUS
<1>3. n \in Nat /\ m \in Nat /\ k \in Nat /\ n <= k + m
  BY <1>2, FS_CardinalityType DEF TypeOK, TempsAreFew, Writing
<1>4. TempsAreFew' <=> Cardinality(temps') <= crashes' + Cardinality(Writing')
  BY DEF TempsAreFew, Writing
<1>5. CASE Writing' = Writing /\ UNCHANGED <<temps, crashes>>
  BY <1>1, <1>2, <1>3, <1>4, <1>5
<1>6. ASSUME NEW c \in Cards, \A d \in Writing : at[d] # at[c],
             Writing' = Writing \cup {c}, temps' = temps \cup {<<at[c], Image[c]>>},
             UNCHANGED crashes
      PROVE  TempsInv'
  <2>1. c \notin Writing
    BY <1>6
  <2>2. IsFiniteSet(Writing') /\ Cardinality(Writing') = m + 1
    BY <1>2, <1>6, <2>1, FS_AddElement
  <2>3. /\ IsFiniteSet(temps')
        /\ Cardinality(temps') = n \/ Cardinality(temps') = n + 1
    BY <1>2, <1>6, FS_AddElement
  <2>4. TempsAreFew'
    BY <1>2, <1>3, <1>4, <1>6, <2>2, <2>3
  <2> QED
    BY <1>1, <1>6, <2>2, <2>3, <2>4
<1>7. ASSUME NEW c \in Writing,
             Writing' = Writing \ {c}, temps' = temps \ {<<at[c], Image[c]>>},
             UNCHANGED crashes
      PROVE  TempsInv'
  <2>1. <<at[c], Image[c]>> \in temps
    OBVIOUS
  <2>2. IsFiniteSet(Writing') /\ Cardinality(Writing') = m - 1
    BY <1>2, <1>7, FS_RemoveElement
  <2>3. IsFiniteSet(temps') /\ Cardinality(temps') = n - 1
    BY <1>2, <1>7, <2>1, FS_RemoveElement
  <2>4. TempsAreFew'
    BY <1>2, <1>3, <1>4, <1>7, <2>2, <2>3
  <2>5. \A d \in Writing' : <<at[d], Image[d]>> # <<at[c], Image[c]>>
    BY <1>7
  <2> QED
    BY <1>1, <1>7, <2>2, <2>3, <2>4, <2>5
<1>8. ASSUME NEW w \in Workers,
             Writing' = {c \in Writing : at[c] # w}, UNCHANGED temps, crashes' = crashes + 1
      PROVE  TempsInv'
  <2>1. \/ Writing' = Writing
        \/ \E c \in Writing : Writing' = Writing \ {c}
    <3>1. CASE \A c \in Writing : at[c] # w
      BY <1>8, <3>1
    <3>2. ASSUME NEW c \in Writing, at[c] = w PROVE Writing' = Writing \ {c}
      BY <1>8, <3>2
    <3> QED
      BY <3>1, <3>2
  <2>2. /\ IsFiniteSet(Writing')
        /\ Cardinality(Writing') = m \/ Cardinality(Writing') = m - 1
    <3>1. CASE Writing' = Writing
      BY <1>2, <3>1
    <3>2. ASSUME NEW c \in Writing, Writing' = Writing \ {c}
          PROVE  IsFiniteSet(Writing') /\ Cardinality(Writing') = m - 1
      BY <1>2, <3>2, FS_RemoveElement
    <3> QED
      BY <2>1, <3>1, <3>2
  <2>3. TempsAreFew'
    BY <1>2, <1>3, <1>4, <1>8, <2>2
  <2> QED
    BY <1>1, <1>8, <2>2, <2>3
<1> QED
  BY <1>5, <1>6, <1>7, <1>8, WritesChange

\* Temporary files stay few although no sweep deletes them: one for each put in
\* progress and one for each crash, with any number of processes.
THEOREM FewTemps == Spec => []TempsAreFew
<1>1. Init => TempsInv
  <2> SUFFICES ASSUME Init PROVE TempsInv
    OBVIOUS
  <2>1. TypeOK
    BY InitIInv DEF IInv
  <2>2. Writing = {} /\ temps = {} /\ crashes = 0
    BY DEF Init, Writing
  <2>3. IsFiniteSet({}) /\ Cardinality({}) = 0
    BY FS_EmptySet
  <2>4. TempsAreFew
    BY <2>2, <2>3 DEF TempsAreFew, Writing
  <2> QED
    BY <2>1, <2>2, <2>3, <2>4 DEF TempsInv, OneWriteEach, WritesHaveTemps
<1>2. TempsInv /\ [Next]_vars => TempsInv'
  BY TempsInvKept
<1>3. TempsInv => TempsAreFew
  BY DEF TempsInv
<1> QED
  BY <1>1, <1>2, <1>3, PTL DEF Spec
=============================================================================
