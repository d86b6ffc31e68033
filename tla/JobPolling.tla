----------------------------- MODULE JobPolling ------------------------------
(***************************************************************************)
(* GET /api/jobs/{job_id} beside the worker: SqliteLeadStore.get_job reads *)
(* the job's row and then its leads, two autocommit SELECTs with an await  *)
(* between, while the worker writes both.  The owner of each job polls it, *)
(* one request at a time, and keeps the last answer.                       *)
(***************************************************************************)
EXTENDS JobWorker, SequencesExt

VARIABLES
    row,    \* job -> the row a request has read and not yet answered, or None
    view    \* job -> the last answer: [status, total, cards]

pollVars == <<row, view>>
allVars  == <<vars, pollVars>>

Answer == [status : Status \cup {"none", "gone"}, total : 0 .. MaxCards,
           cards : BoundedSeq(Card, MaxCards)]

NoAnswer == [status |-> "none", total |-> 0, cards |-> <<>>]
NotFound == [status |-> "gone", total |-> 0, cards |-> <<>>]

PollTypeOK ==
    /\ row \in [Jobs -> JobRow \cup {None}]
    /\ view \in [Jobs -> Answer]

PollInit ==
    /\ Init
    /\ row = [j \in Jobs |-> None]
    /\ view = [j \in Jobs |-> NoAnswer]

-----------------------------------------------------------------------------
\* SELECT ... ORDER BY rowid.
\* Mutant of InOrder: ORDER BY source_filename.
ByFilename(q, r) == leads[q].card < leads[r].card
InOrder(q, r) == q < r

CardsInOrder(j) ==
    LET earlier == [r \in LeadRows(j) |-> {q \in LeadRows(j) : InOrder(q, r)}]
        rows    == Ordered(LeadRows(j), earlier)
    IN  [i \in DOMAIN rows |-> leads[rows[i]].card]

\* The 202 told the client the id.  It asks again after any answer that is no
\* finished job, a 404 included.
Polling(j) ==
    /\ server = "serving"
    /\ batch[j] \in Working \cup Worked
    /\ view[j].status \notin Terminal

PollRow(j) ==
    /\ Polling(j)
    /\ row[j] = None
    /\ HasJob(j)
    /\ row' = [row EXCEPT ![j] = jobs[j]]
    /\ UNCHANGED <<vars, view>>

PollUnknown(j) ==
    /\ Polling(j)
    /\ row[j] = None
    /\ ~HasJob(j)
    /\ view' = [view EXCEPT ![j] = NotFound]
    /\ UNCHANGED <<vars, row>>

PollLeads(j) ==
    /\ Polling(j)
    /\ row[j] # None
    /\ view' = [view EXCEPT ![j] = [status |-> row[j].status,
                                    total |-> row[j].total,
                                    cards |-> CardsInOrder(j)]]
    /\ row' = [row EXCEPT ![j] = None]
    /\ UNCHANGED vars

\* The second SELECT raises: a 500, and the client asks again.
PollRaises(j) ==
    /\ Polling(j)
    /\ row[j] # None
    /\ Fault
    /\ row' = [row EXCEPT ![j] = None]
    /\ UNCHANGED <<tables, server, handler, task, crashes, view>>

\* A request in flight ends with the process.
WorkerStep ==
    /\ Next
    /\ row' = IF server' = "down" THEN [j \in Jobs |-> None] ELSE row
    /\ UNCHANGED view

Poll(j) == PollRow(j) \/ PollUnknown(j) \/ PollLeads(j)

PollNext ==
    \/ WorkerStep
    \/ \E j \in Jobs : Poll(j) \/ PollRaises(j)

\* The client polls on until it is told that the job is over.
PollSpec ==
    /\ PollInit /\ [][PollNext]_allVars
    /\ Fairness
    /\ \A j \in Jobs : WF_allVars(Poll(j))

-----------------------------------------------------------------------------
\* An answer that says "done" carries every card, in spite of the two reads,
\* unless the job was cleared between them.
DoneAnswerIsComplete ==
    \A j \in Jobs :
        view[j].status = "done" /\ HasJob(j) =>
            /\ ToSet(view[j].cards) = 1 .. view[j].total
            /\ Len(view[j].cards) = view[j].total

\* Successive answers only add cards at the end: what the user watched appear
\* stays, in the order it appeared (get_job's ORDER BY rowid).
AnswersGrow ==
    [][\A j \in Jobs :
         view'[j].status # "gone" /\ HasJob(j)
             => IsPrefix(view[j].cards, view'[j].cards)]_allVars

\* An answer that is the client's last is true for good: a job reported over has
\* that status for as long as it exists.
LastAnswerStands ==
    \A j \in Jobs :
        view[j].status \in Terminal /\ HasJob(j) => jobs[j].status = view[j].status

\* Whoever polls learns in the end how the job came out.
OutcomeIsLearned ==
    \A j \in Jobs :
        HasJob(j) ~> faults >= 2 \/ view[j].status \in Terminal \cup {"gone"}
=============================================================================
