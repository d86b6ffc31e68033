------------------------------ MODULE LeadHistory ------------------------------
(***************************************************************************)
(* A user's history, read while it is written: GET /api/jobs and           *)
(* GET /api/sessions page by page, and GET /api/sessions/{id}, against     *)
(* whichever of the two stores build_store chose.                          *)
(*                                                                         *)
(* The writers are reduced to the calls they make of a store: uploads open *)
(* sessions and create jobs, workers append leads and settle their jobs,   *)
(* users clear, the process restarts.  append_lead and set_status take any *)
(* card and any status; that a card is appended once and a job settled     *)
(* once, as done only after its last card, is run_job's doing, and AddLead *)
(* and Settle are its calls (JobWorker and SqliteLeadStore say why it      *)
(* keeps to that).  queued and running are one here, and so are the        *)
(* outcomes of a card: no reader below tells them apart.                   *)
(*                                                                         *)
(* A timestamp is taken before the row is written and the clock may repeat *)
(* itself or be set back, so a later row may have an equal or a smaller    *)
(* one: CreatedAt gives every id its timestamp, and rows are created in    *)
(* any order.  Ids are random; the numbers in Jobs are their order as text.*)
(***************************************************************************)
EXTENDS InMemoryLeadStore, SequencesExt

CONSTANTS
    CreatedAt,   \* bound: the created_at each upload gives its rows
    Limits,      \* page sizes a client asks for
    MaxPage,     \* MAX_JOBS_PAGE, MAX_SESSIONS_PAGE
    Home,        \* bound: the session each upload goes into; its own is new
    Reader,      \* the account whose history is read
    None         \* no cursor, no session

ASSUME NoneAssumption == None \notin [at : Nat, id : Nat]
ASSUME JobsAreNumbers == Jobs \subseteq Nat
ASSUME CreatedAtAssumption == CreatedAt \in [Jobs -> Nat]
ASSUME PagesAssumption == Limits \subseteq Nat /\ MaxPage \in Nat \ {0}
ASSUME HomeAssumption == /\ Home \in [Jobs -> Jobs]
                         /\ \A j \in Jobs : Owner[Home[j]] = Owner[j]
ASSUME ReaderAssumption == Reader \in Users

VARIABLES
    backend,    \* settings.store_backend: "sqlite" | "memory"
    opened,     \* the sessions there ever were
    created,    \* the jobs there ever were
    walk,       \* the walk through the pages of a list, the last one begun
    view        \* the request for one session, the last one begun

written == <<tables, arrival, opened, created>>
vars == <<backend, written, walk, view>>

-----------------------------------------------------------------------------
\* The lists and their pages.

Lists == {"jobs", "sessions"}

\* The rows a list is about.
Listed(list) ==
    IF list = "jobs" THEN {j \in DOMAIN jobs : jobs[j].user = Reader}
    ELSE {s \in DOMAIN sessions : sessions[s] = Reader}

\* (created_at, id), the key both stores sort by and a cursor carries.
Key(id) == [at |-> CreatedAt[id], id |-> id]

Before(a, b) == a.at < b.at \/ (a.at = b.at /\ a.id < b.id)

\* The route's clamp.  Mutant of Clamped: it is left out.
Unclamped(limit) == limit
Clamped(limit) == Max({1, Min({limit, MaxPage})})

\* One page: newest first, strictly before the cursor, and one row more than the
\* limit to learn whether there is another page.  A cursor is the key itself: an
\* ISO timestamp holds no "|", so decode_cursor undoes encode_cursor.
\* Mutants of Below: the timestamp alone; <= for <.
BelowByStamp(list, cursor) ==
    {id \in Listed(list) : cursor = None \/ CreatedAt[id] < cursor.at}
BelowOrAt(list, cursor) ==
    {id \in Listed(list) : cursor = None \/ ~Before(cursor, Key(id))}
Below(list, cursor) ==
    {id \in Listed(list) : cursor = None \/ Before(Key(id), cursor)}

Cut(ids, limit) ==
    LET newer   == [id \in ids |-> {n \in ids : Before(Key(id), Key(n))}]
        ordered == Ordered(ids, newer)
        page    == SubSeq(ordered, 1, Min({limit, Len(ordered)}))
        hasMore == Len(ordered) > limit
    IN  [rows |-> page,
         next |-> IF hasMore /\ page # <<>> THEN Key(Last(page)) ELSE None]

\* The counters and thumbnails of a row are left out.
JobsPage(limit, cursor)     == Cut(Below("jobs", cursor), limit)
SessionsPage(limit, cursor) == Cut(Below("sessions", cursor), limit)

Page(list, limit, cursor) ==
    IF list = "jobs" THEN JobsPage(limit, cursor) ELSE SessionsPage(limit, cursor)

-----------------------------------------------------------------------------
\* A walk: the list and page size it keeps to, the rows listed when it began,
\* those shown so far, the cursor to go on from, and whether it is over.

NoWalk == [list |-> "jobs", limit |-> 1, start |-> {}, shown |-> <<>>,
           cursor |-> None, over |-> TRUE]

\* No request for a session; asked for; its jobs read; its leads read too.
NoView == [session |-> None, rows |-> <<>>, read |-> <<>>, over |-> TRUE]

Cursor == {Key(id) : id \in Jobs} \cup {None}

Walks == [list : Lists, limit : 1 .. MaxPage, start : SUBSET Jobs,
          shown : Seq(Jobs), cursor : Cursor, over : BOOLEAN]
Rows  == [job : Jobs, status : Status, total : Card]
Views == [session : Jobs \cup {None}, rows : Seq(Rows), read : Seq(SUBSET Card),
          over : BOOLEAN]

\* Among the types: the dict's order is one, and never more leads than rows are read.
HistoryTypeOK ==
    /\ TablesOK
    /\ backend \in {"sqlite", "memory"}
    /\ backend = "memory" => DOMAIN arrival = DOMAIN jobs
    /\ IsInsertionOrder(arrival)
    /\ DOMAIN sessions \subseteq opened /\ opened \subseteq Jobs
    /\ DOMAIN jobs \subseteq created /\ created \subseteq Jobs
    /\ walk \in Walks
    /\ view \in Views /\ Len(view.read) <= Len(view.rows)

Init ==
    /\ StoreInit
    /\ arrival = NoRows
    /\ backend \in {"sqlite", "memory"}
    /\ opened = {}
    /\ created = {}
    /\ walk = NoWalk
    /\ view = NoView

-----------------------------------------------------------------------------
\* The writers.

Memory == backend = "memory"
Seen  == <<opened, created>>
Reads == <<walk, view>>

OpenSession(j) ==
    /\ Home[j] = j
    /\ j \notin opened
    /\ opened' = opened \cup {j}
    /\ IF Memory THEN MemCreateSession(j, Owner[j])
       ELSE CreateSession(j, Owner[j]) /\ UNCHANGED arrival
    /\ UNCHANGED <<backend, created, Reads>>

\* The session was there when the upload looked it up, and may be gone by now.
CreateJobIn(j) ==
    /\ Home[j] \in opened
    /\ j \notin created
    /\ created' = created \cup {j}
    /\ \E total \in Card :
         IF Memory THEN MemCreateJob(j, Home[j], total)
         ELSE CreateJob(j, Home[j], total) /\ UNCHANGED arrival
    /\ UNCHANGED <<backend, opened, Reads>>

\* run_job's append_lead, one for each card, after a failure of the job too.  In
\* either store a lead of a job that is gone changes nothing.
AddLead(j) ==
    /\ HasJob(j)
    /\ jobs[j].status # "done"
    /\ \E card \in 1 .. jobs[j].total \ Recorded(j) :
         IF Memory THEN MemAppendLead(j, card, TRUE)
         ELSE AppendLead(j, card, TRUE) /\ UNCHANGED arrival
    /\ UNCHANGED <<backend, Seen, Reads>>

\* run_job's last set_status (gather has returned, or raised).
Settle(j) ==
    /\ HasJob(j)
    /\ jobs[j].status \in Live
    /\ \E status \in Terminal :
         /\ status = "done" => Recorded(j) = 1 .. jobs[j].total
         /\ IF Memory THEN MemSetStatus(j, status)
            ELSE SetStatus(j, status) /\ UNCHANGED arrival
    /\ UNCHANGED <<backend, Seen, Reads>>

ClearHistory(user) ==
    /\ IF Memory THEN MemDeleteEverythingFor(user)
       ELSE DeleteEverythingFor(user) /\ UNCHANGED arrival
    /\ UNCHANGED <<backend, Seen, Reads>>

\* A request in progress dies with the process; a walk only keeps a cursor.
Restart ==
    /\ IF Memory THEN MemLose ELSE ReclaimStaleJobs /\ UNCHANGED arrival
    /\ view' = IF view.over THEN view ELSE NoView
    /\ UNCHANGED <<backend, Seen, walk>>

-----------------------------------------------------------------------------
\* The reader.

\* GET /api/jobs and GET /api/sessions without a cursor.
FirstPage(list, limit) ==
    /\ walk.over /\ view.over
    /\ LET page == Page(list, Clamped(limit), None)
       IN  walk' = [list |-> list, limit |-> Clamped(limit), start |-> Listed(list),
                    shown |-> page.rows, cursor |-> page.next,
                    over |-> page.next = None]
    /\ view' = NoView
    /\ UNCHANGED <<backend, written>>

\* The same with the cursor of the page before, and the same limit.
NextPage ==
    /\ ~walk.over
    /\ LET page == Page(walk.list, walk.limit, walk.cursor)
       IN  walk' = [walk EXCEPT !.shown = @ \o page.rows, !.cursor = page.next,
                                !.over = page.next = None]
    /\ UNCHANGED <<backend, written, view>>

\* session_jobs: the rows, oldest first, then the leads of each.  The sqlite
\* store reads every one of them in a transaction of its own.
JobsIn(s) ==
    LET rows  == {j \in DOMAIN jobs : /\ jobs[j].session = s
                                      /\ SessionOf(s, Reader)}
        older == [j \in rows |-> {k \in rows : Before(Key(k), Key(j))}]
        ids   == Ordered(rows, older)
    IN  [i \in DOMAIN ids |-> [job |-> ids[i], status |-> jobs[ids[i]].status,
                               total |-> jobs[ids[i]].total]]

\* GET /api/sessions/{id}: get_session finds it, or a 404.
AskForSession(s) ==
    /\ ~Memory
    /\ walk.over /\ view.over
    /\ SessionOf(s, Reader)
    /\ view' = [session |-> s, rows |-> <<>>, read |-> <<>>, over |-> FALSE]
    /\ walk' = NoWalk
    /\ UNCHANGED <<backend, written>>

ReadJobs ==
    /\ ~view.over /\ view.rows = <<>>
    /\ LET rows == JobsIn(view.session)
       IN  view' = [view EXCEPT !.rows = rows, !.over = rows = <<>>]
    /\ UNCHANGED <<backend, written, walk>>

\* Mutant of ReadLeads: each row is read again once the last leads are.
ReadLeadsThenJobs ==
    /\ ~view.over /\ view.rows # <<>>
    /\ LET i    == Len(view.read) + 1
           last == i = Len(view.rows)
       IN  view' = [view EXCEPT
             !.read = Append(@, Recorded(view.rows[i].job)),
             !.rows = [k \in DOMAIN @ |-> IF last /\ HasJob(@[k].job)
                         THEN [@[k] EXCEPT !.status = jobs[view.rows[k].job].status] ELSE @[k]],
             !.over = last]
    /\ UNCHANGED <<backend, written, walk>>
ReadLeads ==
    /\ ~view.over /\ view.rows # <<>>
    /\ LET i == Len(view.read) + 1
       IN  view' = [view EXCEPT !.read = Append(@, Recorded(view.rows[i].job)),
                                !.over = i = Len(view.rows)]
    /\ UNCHANGED <<backend, written, walk>>

\* In memory the whole request is one step.
ViewSession(s) ==
    /\ Memory
    /\ walk.over
    /\ SessionOf(s, Reader)
    /\ LET rows == JobsIn(s)
       IN  view' = [session |-> s, rows |-> rows, over |-> TRUE,
                    read |-> [i \in DOMAIN rows |-> Recorded(rows[i].job)]]
    /\ walk' = NoWalk
    /\ UNCHANGED <<backend, written>>

-----------------------------------------------------------------------------
Next ==
    \/ \E j \in Jobs :
         OpenSession(j) \/ CreateJobIn(j) \/ AddLead(j) \/ Settle(j)
    \/ \E user \in Users : ClearHistory(user)
    \/ Restart
    \/ \E list \in Lists, limit \in Limits : FirstPage(list, limit)
    \/ NextPage
    \/ \E s \in Jobs : AskForSession(s) \/ ViewSession(s)
    \/ ReadJobs \/ ReadLeads

Spec == Init /\ [][Next]_vars

-----------------------------------------------------------------------------
\* The properties.

\* encode_cursor's docstring: no row is repeated and none is skipped, whatever
\* is created, finished, evicted or cleared between the pages.  A walk that is
\* over has shown every row that was there when it began and still is.
WalkMissesNothing ==
    walk.over => walk.start \cap Listed(walk.list) \subseteq ToSet(walk.shown)

\* What a walk has shown is in strictly descending order of (created_at, id),
\* across its pages too, so nothing is shown twice.
WalkInOrder ==
    \A i, k \in DOMAIN walk.shown :
        i < k => Before(Key(walk.shown[k]), Key(walk.shown[i]))

\* A session's answer, put together from separate reads, never shows a job as
\* done with a lead missing, unless the history was cleared under it.
SessionViewIsComplete ==
    \A i \in DOMAIN view.read :
        view.rows[i].status = "done" /\ HasJob(view.rows[i].job)
            => view.read[i] = 1 .. view.rows[i].total

\* Either store keeps JobContract's promise to whoever polls a job; the one in
\* memory may forget, but never half a job, and none still open while it runs.
Contract == INSTANCE JobContract WITH
    phase <- [j \in Jobs |->
                IF HasJob(j)
                THEN IF jobs[j].status \in Live THEN "open" ELSE jobs[j].status
                ELSE IF j \in created THEN "gone" ELSE "none"],
    total <- [j \in Jobs |-> IF HasJob(j) THEN jobs[j].total ELSE 0],
    recorded <- [j \in Jobs |-> Recorded(j)],
    forgets <- Memory
ImplementsContract == Contract!Spec
=============================================================================
