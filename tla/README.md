# A verification of the card reader's server

TLA+ models of the server in `src/app`, the TLC runs that check them on small
instances, and theorems about them that TLAPS checks for every instance. The
server takes uploads of business cards, sends each card to a vision model, and
keeps one lead per card in SQLite; a browser polls the job until it is over.

What is at stake is never in one function. A job is moved by a request handler,
by a detached asyncio task, by one more task per card, by a user who clears the
history meanwhile, and by the next process after a crash. They share two SQL
tables, a directory of spooled files and a directory of retained images, and
each of their steps commits on its own. The project states what must hold
between these pieces in every order of the steps.

## Reading order

| module | what it is | code |
|---|---|---|
| `SqliteLeadStore` | the tables and the transactions that write them | `app/store.py` |
| `JobWorker` | the upload handler, `run_job`, `_process_one`, clears, crashes, boots | `app/main.py`, `app/jobs.py`, `app/uploads.py` |
| `JobContract` | the abstract job, as promised to whoever polls it | nothing: the specification `JobWorker` and `LeadHistory` are shown to implement |
| `JobPolling` | `GET /api/jobs/{id}` as two reads beside the worker | `app/main.py`, `app/store.py` |
| `ImageStore` | retained images: put, append, expire, sweep, in one process or several | `app/images.py`, `app/extraction.py`, `app/main.py`, `app/store.py` |
| `InMemoryLeadStore` | the other store, over the same rows | `app/store.py` |
| `LeadHistory` | pages of the history and the view of a session beside the writers, on either store | `app/store.py`, `app/main.py` |
| `SchemaMigration` | how a file of any version becomes ready, in several coroutines and processes | `app/store.py` |
| `Endpoint` | the model's server and the clock | external |
| `ReplyParsing` | the object in a reply, as the code finds it and as a grammar says | `app/parsing.py` |
| `Extraction` | one card through `extract_lead`, its calls, retries and waits | `app/extraction.py`, `app/model_client.py` |
| `HealthProbe` | the cached probe behind `/health` | `app/main.py` |
| `ModelEndpoint` | `Extraction` and `HealthProbe` on one `Endpoint` | the same |
| `SqliteLeadStoreProofs`, `JobWorkerProofs`, `ImageStoreProofs`, `SchemaMigrationProofs`, `ModelEndpointProofs` | the theorems about the module of that name; `JobWorkerProofs` also shows that `JobWorker` implements `JobContract` | |
| `ReplyParsingProofs` | that what is parsed out of a reply is what the grammar says is in it | |
| `JobPollingProofs` | what a poller is told | |
| `LeadHistoryProofs` | what a reader of the history is shown, and that both stores implement `JobContract` | |
| `MC...` | model values, scenarios and symmetry for the runs | |

`JobWorker` EXTENDS `SqliteLeadStore`: a store transaction is an operator over
the tables, and the worker's action is that transaction together with what the
caller does before its next await. `JobPolling` EXTENDS `JobWorker` and adds the
poller. `JobWorker` has an INSTANCE of `JobContract` under a refinement mapping.
`InMemoryLeadStore` EXTENDS `SqliteLeadStore` with its own transactions over the
same tables, so that `LeadHistory` can put one reader before either, and
`LeadHistory` has an INSTANCE of `JobContract` too: the contract is what the two
stores share. Each module of proofs EXTENDS the module it is about and the proofs
it builds on: `JobPollingProofs` those of `JobWorker`, `LeadHistoryProofs` those
of the store, `ModelEndpointProofs` those of the parser. `ImageStore` and `SchemaMigration` stand alone: they keep of a job
only what decides who names an image, and whose session it is in.
`PROJECT.json` gives for every definition the lines it models.

## The system: an inventory

The deployment is one uvicorn process under systemd (`Restart=on-failure`) with
job tasks inside it, one SQLite connection per store operation, WAL mode and a
busy timeout of five seconds, and `RECLAIM_STALE_JOBS=true`. Several processes
against one database are described in comments and settings as possible for
parts of the code; `ImageStore` and `SchemaMigration` have them.

**Lead store, write side** (`app/store.py`, `SqliteLeadStore`). State: the tables
`sessions`, `jobs` (status, total, session, user) and `leads` (job, card, ok,
image, by rowid). Operations: `create_session`, `create_job`, `set_status`,
`append_lead`, `delete_everything_for`, `reclaim_stale_jobs`, `expire_images`.
Hard: foreign keys that exist on a fresh database and not on an upgraded one;
calls of one request are separate transactions. Correct when: no lead without
job, no job in a session that is not its user's, no lead twice, a clear is whole
and touches one user, a settled job is not moved.

**Job worker** (`app/jobs.py`). State: the task of the job, one task per card,
the per-job semaphore, the shared HTTP client. Operations: `schedule_job`,
`run_job`, `_process_one`. Called by the upload handler; calls the extraction
and the store. Hard: `gather` raises at the first exception and leaves the other
tasks running with a closed client and a deleted directory; the `except` clause
itself calls the store. Correct when: `done` means every accepted card has a
lead; no job claims to be in progress with nothing to move it; the directory is
released; no more cards are held than the semaphore allows.

**Upload handler and spool** (`app/main.py`, `app/uploads.py`). State: a batch
directory with a file per accepted card. Operations: `make_batch_dir`,
`spool_upload`, `cleanup_batch_dir`, and the handler of `POST /api/jobs`. Hard:
every exception after the directory exists; the session chosen may be cleared
before the job names it. Correct when: a refused upload leaves nothing, a
running one has its files.

**Clearing the history** (`DELETE /api/sessions`). One transaction beside
workers of the jobs it deletes. Correct when: it is whole, and the workers it
pulls the rows from under neither resurrect nor orphan anything.

**Polling** (`GET /api/jobs/{id}`). Two reads in two transactions. Correct when:
an answer of `done` has all the cards, answers only grow, the last one stands,
and there is a last one.

**Process life cycle** (the lifespan handler, `deploy/card-reader.service`).
Initialise the schema, reclaim stale jobs, sweep images, serve; stop by
cancelling tasks; crash anywhere. Correct when: what a dead process left is put
right by the next one, and nothing else is.

**Image store and sweep** (`app/images.py`, `_sweep_images`). State: files by
digest, temporary files, the `image_sha256` of the leads. Operations: `put`,
`read`, `expire_images`, `referenced_image_hashes`, `sweep`. Hard: the file
comes minutes before the row that names it; equal images share a file; the
sweep is three steps. Correct when: the image a lead names exists and is whole,
and a sweep leaves nothing else.

**Schema creation and migration** (`_ensure_ready`, `_migrate`). State: the
schema, a flag and a lock. Hard: a double-checked lock; `ALTER TABLE` commits
before the backfill does. Correct when: the migration is done once and a crash
in it is recovered.

**In-memory lead store**. A second implementation of the store's protocol,
with pruning of old finished jobs. Correct when: it keeps the same contract, and
does not prune a job somebody still works on.

**History and pagination** (`list_jobs`, `list_sessions`, cursors). Read-only
pages in separate requests. Hard: rows come and go between two pages, and
timestamps tie. Correct when: walking the pages shows each row that was there
throughout exactly once.

**Session view and exports** (`session_jobs`, `app/excel.py`). Reads only, but the
view of a session is one for its jobs and one for the leads of each. Correct
when: what it calls done is complete.

**Card extraction** (`app/extraction.py`, `app/model_client.py`). Per card: image
checks, `put`, model calls with retries and backoff, parsing. No state after it
returns. Hard: a timeout is one of each operation of a call. Correct when: a
silent server is given up in bounded time, not before it had its attempts, and
every failure that is expected becomes a lead with a status.

**Reply parsing** (`app/parsing.py`). Pure. Correct when: JSON is read as it
stands and the known mistakes are mended, wherever the model puts its object, and
nothing else is made of a reply.

**Post-processing, imaging, cropping, prompt.** Pure transformations of data.

**Health and model probes**. A cached reachability probe. Hard: overlapping
probes and which of them is stored last.

**Authentication** (`app/auth.py`, `static/auth.js`). Token verification.

**Browser client** (`static/app.js`). A poll chain on timers and a few globals.
Hard: two chains at once. Correct when: what is shown belongs to the job chosen.

**Configuration, schema types, deployment, tools, tests.** Read as evidence.

### What is hard here

`PROJECT.json` lists the hazards at their lines. They fall into five groups: a
job's row and its worker come apart (exceptions inside `except`, siblings that
go on, clears, crashes); two reads or two writes that are not one transaction
(`get_job`, session then job, file then row); resources that no one releases
(batch directories, temporary files, the semaphore that is one per job); the
boot that must repair what a process left and nothing else, its schema included;
and a server that is slow or away, or says what no one asked for (retries,
timeouts, a cached probe, the scan of a reply).

## How the models correspond to the code

### `SqliteLeadStore`

`sessions` maps a session to its user, `jobs` a job to `[status, total, session,
user]`, `leads` a rowid to `[job, card, ok]`. A session has the name of the
upload that opened it. `append_lead` is given the next rowid, the largest plus
one: SQLite's rule, which reuses the numbers of deleted rows at the end of the
table and which `ORDER BY rowid` depends on. `Ordered` is an ORDER BY: the i-th
row is the one with i - 1 rows before it, which says what a sort returns and
leaves how to SQLite. The columns that no property
distinguishes (names, phone numbers, timestamps, token counts) are left out. A
card stands for `source_filename`: its number in the upload.

`SessionFK` says whether `jobs.session_id` references `sessions`. A database
created by this version has the foreign key; one to which the column was added
by `ALTER TABLE` has not.

An operation of the store is one atomic step because it is one SQLite
transaction on a connection of its own, with a write lock. Its failure
is a step of its caller (below), which leaves the tables alone.

### `JobWorker`

A step is the code from one await to the next, which is what the event loop
makes atomic. `batch[j]` is the program counter of an upload, first of the
request, then of `run_job`'s task; `task[j][c]` that of `_process_one` for a card.
Where a store call commits and the coroutine then runs on without another await,
the commit and what follows are one step (`CreateAndSchedule`, `StartJob`).

Exceptions are steps that count against `faults`: a transaction that raises
(`RequestRaises`, `StatusRaises`, `FailRaises`, `AppendRaises`), spooling
(`SpoolRaises`) and an extraction that raises something `extract_lead` does not
catch (`ExtractRaises`). Exceptions that follow from the state are not counted:
the foreign-key errors after a clear (`SessionGone`, `JobGone`), the missing
file (`FileGone`, a flagged lead) and the closed client (`ClientClosed`).

`Turn` is the order of the semaphore. A card that ends hands its slot to the first
that waits, which reads its file before the event loop comes to what the end of
the first card means to `gather`: a callback, and `run_job` after it. So
`GatherRaises` waits until every free slot is taken or nobody waits
(`SlotsAreTaken`), and a card whose file is deleted is one that was not next.

A transaction that commits and whose caller is then killed is `Crash` after the
step. `Stop` is the orderly end: it waits for requests in progress, cancels the
tasks, and `CancelledError`, which is no `Exception`, passes `run_job`'s
`except` and runs its `finally`, except in a task that has not started.

The request handler is in every phase killable, and a client may abandon an
upload halfway; nothing obliges `SpoolFile` to be followed by anything.

### `JobPolling`

`PollRow` and `PollLeads` are `get_job`'s two `SELECT`s; `row` is what a request
holds between them. `PollUnknown` is the 404. The client polls one request at a
time until it is told that the job is over. A 404 does not end it: the page throws on
every answer that is not `ok` and tries again, forever after a clear.

### `ImageStore`

A card goes from `new` through `writing` to `held` (put is over, the model is
being asked) and to `recorded` or `dropped`. `put` runs without an await, so
within its process nothing comes between `PutOpens` and `PutReplaces`: the guard
`Free` says so. Another process, and a crash, may come between. A digest is a
model value and cards may have equal ones. A sweep is `Expire`, `ReadKeepList`,
then a `SweepFile` or `SweepSkips` for each file it listed, then `Serve`. `gone`
holds the cards whose job was cleared: their append raises. `Ages` lets a lead
pass the retention window at any time, which is how the clock appears.

### `InMemoryLeadStore` and `LeadHistory`

The memory store's methods hold an uncontended lock and never await inside it,
so each is atomic as a SQLite transaction is. It differs in what it does not
check (a job may name a session that is gone, a lead of a job that is gone is
dropped in silence), in `_prune_locked`, which evicts the oldest finished jobs of
all accounts when a new one comes, and in `MemLose`: a restart empties it.
`arrival` is the insertion order of the dict, which decides what is evicted: it
gives each key the keys that came before it.

`LeadHistory` reduces the writers to the calls they make of a store:
`OpenSession`, `CreateJobIn`, `AddLead`, `Settle`, `ClearHistory`, `Restart`.
`append_lead` and `set_status` themselves check no card and no status, in either
store. That a card is appended once, that a job is settled once, and as done only
with all its cards, is what `run_job` does, so it stands in the guards of `AddLead`
and `Settle`; that `run_job` does it, through failures and crashes, is what
`worker_safety` checks and `JobWorkerProofs` proves. What `LeadHistory` adds is the
rest: readers, clears, evictions and restarts between these calls, in any order,
of any number of jobs at once.
`Page` is a page of `list_jobs` or `list_sessions`, `FirstPage` and `NextPage` the
requests of a client that follows `next_cursor`; `walk` remembers what it was
shown. `AskForSession`, `ReadJobs`, `ReadLeads` are the transactions of
`GET /api/sessions/{id}` on SQLite, `ViewSession` the same on the memory store,
where no await of it yields. `CreatedAt` gives the rows timestamps that tie and
that run backwards: they are taken before the row is inserted.

### `SchemaMigration`

A step is a statement. What matters is when each commits: `executescript` and
`ALTER TABLE` do at once, the backfill's first `INSERT` opens a transaction that
`_ensure_ready`'s `commit` ends. `Enter` is the lock with the second look at
`_ready`; `Raise` is any statement that fails, `Duplicate` the `ALTER TABLE` that
another process was quicker with; `Unwind` is what leaving the `async with` blocks
does. A session made by the backfill is named by the job and the caller that
made it, so that two for one job can be told apart.

### `Endpoint`, `Extraction`, `ReplyParsing`, `HealthProbe`, `ModelEndpoint`

`Endpoint` is the environment: a server that comes up and goes down, and a clock
that `Tick`s but never past an instant somebody waits for. `Extraction` is one
card: `RejectInput`, `RetainImage`, then `Post`, `Connect`, `Answer` or
`CallFails`, `WakeUp`, then `Parse`. httpx allows its timeout to each operation of a
call, to the connection and to every piece written or read (`Allow`), and a piece
that comes starts it again (`GetsOn`), so a call has no bound of its own. `heard`
is when the server last let one get on. `CallFails` needs a server that is away,
or a deadline, only until there is a connection: after that a reset, an error
status or a body that is no completion end the call at any time.

`ReplyParsing` takes a reply as a sequence of the tokens that `parsing.py` treats
apart. `Scan` is the loop of `_find_json_object`, its three variables after each
character as a recursive function; `IsJson` is what `json.loads` accepts. Beside
the code stand grammars that say nothing of scanning: a span of the reply is an
object if its parts derive it (`BalancedRule`, `JsonRule`, and `NearJsonRule` with
the mistakes of a model). What is expected of the parser is said in their terms
alone, and uses none of its fences, scans and repairs: which span of a reply the
prompt and the comments of `parsing.py` lead one to expect the object in
(`Introduced`), and which text is another one mended (`MendedFrom`).

`HealthProbe` is `_probe_model_endpoint` called by overlapping requests: `FromCache`,
`StartProbe`, `EndProbe`. The code stamps the cache with the time read before the
connection was tried.

## The runs

| run | instance | what it checks |
|---|---|---|
| `worker_safety` | 2 uploads of a user, 4 cards in all, at most 3 each, semaphore 1, 2 faults, 2 crashes | all of `JobWorker`'s safety properties, and that it implements `JobContract` |
| `upgraded_database` | 3 uploads of 2 users, no foreign key on `session_id` | clears stay whole and separate |
| `polling` | 1 upload of 3 cards, semaphore 2, 2 faults, 2 crashes, a poller | what a poller is told; every job settles; every scheduled directory is deleted |
| `image_sweep` | 1 process, 3 cards of 2 users with 2 digests, a fault, 2 crashes | images and sweep |
| `history` | 3 uploads, the third into the first's session, 1 user, pages of 1 and 2, both stores | what a reader of the history is shown; both stores implement `JobContract` |
| `migration` | 2 old jobs of 2 users, 2 coroutines in one process, 1 in another, 2 faults, 2 crashes | a file is ready only when complete; what becomes of old jobs |
| `model_endpoint` | a card, 3 attempts, 3 outages; or every reply of 5 tokens, or of 5 between outer braces; or 2 requests for `/health` | retries, parsing, the probe's cache |
| `cards_in_flight` | 2 uploads, semaphore 1, no fault | refuted: `MAX_CONCURRENCY` bounds the process |
| `worker_raises` | 1 upload, 2 faults | refuted: `run_job` never raises |
| `waiting_cards` | 1 upload of 3 cards, semaphore 1, 1 fault | refuted: one bad card leaves the others alone |
| `sweep_two_workers` | 2 processes, no fault, no crash | refuted: the order of the sweep protects a file whose row is still to come |
| `json_in_prose` | every reply of 4 tokens, or of 4 between outer braces | refuted: a reply with JSON in it is no parse error |

What the passing runs show, by property:

- `DoneIsComplete`: in no order of appends, failures, clears and restarts is a
  job `done` with a card missing. It rests on `gather` being awaited before
  `set_status("done")`, and breaks when exceptions are returned by `gather`.
- `OneLeadPerCard`: nothing records a card again. No append is retried, and a
  reclaimed job is not run again.
- `LeadsHaveJobs`, `JobsHaveSessions`: the foreign keys do their work for tasks
  that outlive a clear and for the handler whose session is cleared under it.
- `OneFaultStrandsNoJob`: while the process serves, a job `queued` or `running`
  has a live worker, unless two exceptions struck. The second one is the finding
  `worker_raises`; the property is the exact extent of that defect.
- `DiskIsReleased`: after the worker returned nothing is left on disk, and a card
  with a lead has no file. It exempts the phases that do leave a directory, a
  request that failed after spooling and a process that died: see the
  observations.
- `JobCardsBounded`: the semaphore's bound holds for a job that failed and whose
  cards go on as well.
- `TerminalIsFinal`, `LeadsAreKept`, `ClearedAtOnce`: what no step may do.
- `ImplementsContract`: the rows of all jobs behave as `JobContract`, where a
  failed job may still receive leads and a done one may not.
- `JobsSettle`, `DiskIsReclaimed`: see fairness.
- `DoneAnswerIsComplete`, `LastAnswerStands`, `AnswersGrow`, `OutcomeIsLearned`:
  the two reads of `get_job` are harmless because the status is read first and
  only ever moves on when the leads are there, and because rowids keep the order
  of what was shown.
- `ReferencedImagesExist`, `SweepLeavesNoOrphan`, `TempsAreFew`: images outlive
  sharing, sweeps and crashes; nothing else does, but temporary files of crashes.
- `WalkMissesNothing`, `WalkInOrder`: a cursor of timestamp and id neither skips
  nor repeats, whatever is inserted, cleared or evicted around it. With the
  timestamp alone two rows that tie straddle a page and one is lost.
- `SessionViewIsComplete`: a session's answer reads jobs before leads, so that one
  it calls done lacks no card.
- `ImplementsContract` in `history`: the memory store may forget, but never half
  a job, and none that runs but by a clear or a restart.
- `ReadyIsComplete`, `OneSessionPerJob`, `BecomesReady`: the double-checked lock,
  several processes, exceptions and crashes lead to one complete schema.
- `OldJobsHaveSessions`: holds unless a backfill was cut short; `interrupted` is
  the exact extent (see the observations below).
- `SilenceIsBounded`, `OnlyLongOutagesFail`: a card waits for a server that has
  fallen silent in bounded time, whichever operation of whichever attempt it fell
  silent in; and it is not given up before the doubling waits have passed. The
  time of a card as a whole has no bound (see the observations).
- `ReplyIsParsedRight`: over all replies in the bound, JSON where it is expected is
  read as it stands, and nothing is read that is not a balanced object of the
  reply, mended only if it is no JSON. `MistakesAreMended`: Python's literals and
  trailing commas, where JSON is expected, do not cost a card its fields. Where the
  object is not where it is expected, `json_in_prose` has the code's answer.
- `HealthIsRecent`, `ProbesSpaced`: an answer is younger than the TTL or the
  request's own, though a slow probe may overwrite a newer one; and a probe
  follows the newest completed one by the TTL, less what an older one may take.

Every passing property is there because a plausible change of the code breaks
it. `PROJECT.json` names that change as an operator written beside the one it
replaces ("Mutant of ...").

### Bounds, and why they are enough

`MaxCards`, `Jobs`, `Users`, `MaxFaults`, `MaxCrashes`, `MaxConcurrency`,
`Cards`, `Digests`, `Workers`; in `LeadHistory` also `CreatedAt`, `Home`, `Limits`
and `MaxPage`; in `SchemaMigration` `Procs` and `Callers`; in `ModelEndpoint`
`MaxTime`, `MaxFlips`, `MaxText`, `MaxProbeTime` and `Probers`.

- Two jobs of one user are the smallest case of an upload into another upload's
  session, of a clear that hits one worker in mid-flight and another request
  between session and job, and of two semaphores. Jobs of different users share
  no row, which the run with two users and the theorems confirm.
- Under a semaphore of one, three cards are the least of which one is stranded when
  another raises: the second gets the slot and reads its file first. So
  `waiting_cards` has three, and `worker_safety` has uploads of three and one beside
  those of two and two (`FewCards`). `polling` has three under a semaphore of two,
  where cards finish in another order than they were sent in.
- Two faults reach the `except` clause that raises; a third would only stop a
  further card. Two crashes give a crash after a recovery.
- In `ImageStore`, two digests for three cards give a shared file and an
  unshared one, over two users so that a clear removes one name of two.
- In `LeadHistory`, three rows are the least for a page boundary between two that
  tie and a third one of another time; `CreatedAt` ties the first and the last
  and makes the second older. `Home` puts two jobs into one session, which is
  what reading leads job by job needs. Rows are created in any order, so each
  timestamp is met both late and early. The limits 0 and 5 lie outside the
  route's clamp, so both ends of it are used.
- In `SchemaMigration`, two coroutines of one process meet at the lock and a third
  in another process meets them at the file; the file starts as none, as either
  of the two earlier versions, or up to date. Two crashes interrupt the
  migration that repairs an interrupted one.
- In `ModelEndpoint` the card and the probes do not act on each other, so
  `MCModelEndpoint` explores them apart: a card with each reply and a server that
  is up, a card and a server that changes up to three times, two probes and such
  a server. The durations are scaled to ticks: a timeout of two, waits of one and
  two, a TTL of four. `MaxTime` lies beyond the bound of `SilenceIsBounded` counted
  from the first call, so that it can fail. A reply of five tokens, or of five
  between outer braces, nests, quotes, escapes, fences and truncates in every
  combination of that length.
- What TLC cannot vary, the theorems cover: the properties listed below as
  proved hold for every number of jobs, cards, users, faults, crashes and pages,
  and for every timeout.

`CHECK_DEADLOCK FALSE` stands in every configuration because the work is finite
in a model: when each upload has settled, each process is ready or the card is
through, and no crash is left, the system really stops.

### Fairness

`JobWorker!Fairness` is weak fairness of each `run_job` task, of each card's
task, of `Restart` and of `Boot`. The event loop runs every task that is ready;
what a task awaits ends: a store call by its busy timeout, a model call by its
timeout when the server falls silent, and otherwise because an answer is finite
(`max_tokens`, and it is not streamed), which is trust in a server that is not
made to trickle for ever, since nothing in the code ends such a call; and the semaphore is first come first served. systemd restarts a
process that died, and a stop is the first half of a redeployment or a restart.
Boot ends because nothing in it waits for another party. Requests, clears and
faults have no fairness: nobody has to upload, and nothing has to go wrong.

`SchemaMigration!Fairness` is weak fairness of each caller: the event loop runs
it, the lock is first come first served among finitely many callers, a process
that is not ready is asked again (the lifespan handler calls `initialize` at every
start, systemd starts it), and exceptions and crashes are finitely many.

`JobsSettle` and `OutcomeIsLearned` except the runs with two faults. Without the
exception they are false, which is the finding `worker_raises` seen from outside.
In `polling` the client's requests are fair: the page polls on a timer and
retries an error.

## What is proved

The proofs hold for every value of the constants under the ASSUMEs of the
modules: a semaphore of at least one, natural numbers for bounds and timestamps,
owners for jobs, a `None` that is none of the values it stands beside, and a
`NoObject` that is no text. They are checked by TLAPS, and nothing is left unproved
in them. Every action property, both refinements and every invariant of a passing
run but `MistakesAreMended` are theorems; each inductive invariant was checked by TLC first. The
ones no run lists stand at the head of the proof modules that use them.

**The worker.** None of the safety properties is inductive. That a `done` job is
complete needs that a job about to be marked has only ended tasks, that an ended
task has its lead, and that no task of a settled job can still move its row;
that a lead is unique needs that the task of a recorded card has ended or died.
`IInv` says this: rows are what their batch wrote (`RowsAreTheirBatchs`), tasks
exist only from `StartJob` to the end of the process (`TasksAreTheirJobs`), leads
and ended tasks correspond (`LeadsAreTheirTasks`), `finishing` means all
returned, a settled job's worker has nothing left to write, and no task survives
its process. Without the last, a boot would fail jobs that are running.

`SqliteLeadStoreProofs` has what the transactions do to the tables: the effect
of each on the rows of a job, and that the next rowid is always fresh.
`JobWorkerProofs` has one lemma per actor (request, job task, card task,
exceptions, clear, the end of a process, boot), each with one step per action
and one per conjunct, then `Invariance`: `Spec => []IInv`. The theorems
`TypeCorrect`, `DoneJobsAreComplete`, `CardsAreRecordedOnce` and `NoOrphanLeads`
follow from it; `NoOrphanJobs` needs `SessionFK` in addition and says so. The
three action properties (`SettledJobsStaySo`, `RecordedLeadsAreKept`,
`ClearsAreWhole`) come from `IInv` and from two lemmas about which steps change
`jobs` and `leads` at all.

**What an upload leaves behind.** `OutcomeInv`, on top of `IInv`: a request that
spools has its directory (`SpoolingHasItsDir`), a card that was extracted has
released its file (`ExtractedHasNoFile`), a worker that returned has settled its
job (`ReturnedIsSettled`), and a job that did not go right has had its faults:
one for a batch that raised, two for a worker whose `except` clause raised
(`FailureIsAFault`). The last needs care, since the exceptions after a clear are
no faults: they happen only to jobs whose row is gone. `DiskReleased`,
`SemaphoreHolds` and `OneFaultIsHarmless` follow. The semaphore's bound is about
cardinalities and rests on the library's facts about finite sets.

**The contract.** `WorkerImplementsContract`: the initial states are the
contract's, and each step of a request, a job task, a card, a clear, a crash or
a boot is one of `JobContract`'s or leaves all of its variables alone. One lemma
for each abstract action says what the rows must do for it, one for each actor
that they do; `IInv` supplies that a card recorded was not, that `done` comes with
all the cards, and that a boot fails only jobs that are open.

**Polling.** `PollInv` relates what a request holds between its two reads
(`RowIsCurrent`) and what the client was told last (`AnswerIsAPrefix`) to the
tables. That answers only grow needs that leads are appended behind all others:
`CardsOfLists` turns the order by rowid into ranks, and `OrderedLists` shows that an
ORDER BY over any finite set with a strict total order lists each row once.

**The images.** `ImageStore`'s theorems about images assume a single process, `Alone(w0)`:
`Workers = {w0}`. This is the deployment, and the run `sweep_two_workers` shows
that the assumption cannot be dropped. The invariant adds to the property that
the image of a card in flight exists (`HeldImagesExist`), that there is no card
in flight while a process is not serving (`NothingInFlight`), and that the
keep-list of a sweep is still what the rows name (`KeepListIsCurrent`).
`ImagesStay` and `SweepsAreThorough` follow. `FewTemps` needs no such assumption: for
any number of processes, `TempsInv` says that a process writes one file at a time
(`put` does not await) and that what is being written is there.

**The migration.** `SchemaMigrationProofs` proves it for any number of processes,
coroutines, old jobs, exceptions and crashes, from every file in `Files`. That a
ready process has a complete schema needs, for every caller inside the lock, what
the statements behind it have made (`StatementsLast`): the schema only grows, so
neither a crash nor another process undoes them. That no job gets a second
session needs that a backfill is one caller's at a time (`OneBackfills`: a second
`ALTER TABLE` would find the column) and that the jobs it remembers still have no
session when it commits (`OrphansAreNull`), although the history may be cleared
meanwhile. That nothing is stranded needs the converse: a job without a session
is an orphan somebody is about to see to, unless a backfill was cut short
(`NullsAreOrphans`). One lemma per conjunct, with a step per action, then
`Invariance`, `TypeCorrect`, `NoMethodMeetsAnOldSchema`, `NoSecondSession` and
`NothingIsStranded`. The proofs assume only what the ASSUMEs say: `None` is not a
caller, and not the maker of the sessions that were there before.

**The model's server.** `ModelEndpointProofs` has both times. `CardInv` bounds each
instant of a card by when the server was last heard of and the attempts made so
far (`CardIsOnTime`), and from below by when the first one failed
(`FailuresAreSpread`); the waits double, and since
nothing can be proved by induction over the exponent, what is needed of powers
of two comes from the subsets of a finite set, of which there are 2^n
(`PowerCountsSubsets`, `PowerDoubles`). `SilentServersAreGivenUp` and
`BlipsBlankNoCard` follow. `ProbeInv` says how far the newest completed probe can be ahead of the
one in the cache: by a probe's timeout. `HealthAnswersAreRecent` and
`ProbesAreSpaced` follow, for any number of overlapping requests.

**The history.** `CutLists` says what one page is: newest first, nothing missing,
and a cursor that separates what it shows from what it leaves. It rests on
(`created_at`, id) being a strict total order (`KeysAreOrdered`), which the
timestamp alone is not. `RowsRemain` is all a reader needs of the writers: no row
turns into another one, none comes back, and a job that is done stays done; one
lemma per writer shows it, the eviction of the memory store included.
`WalkGoesOn` is the invariant of a walk: each row of its start was shown or lies
behind the cursor. `ViewIsCurrent` is that of a session's view: what it calls done
is done. `HistoryInvariance`, `WalksMissNothing`, `WalksStayInOrder` and
`SessionViewsAreComplete` hold for any number of rows, any page size and any
timestamps. `StoresImplementContract` is the refinement for both stores: an
eviction is part of the contract's `Open`, a restart is its `Fail` or its `Lose`.

**The parser.** `ReplyIsParsedRight` is an invariant over replies, and the run has
those of five tokens. `RepliesAreParsedRight` has them all, so it is a theorem about
the parser more than about the transitions: which object comes out of a reply,
said by grammars, for every length. The induction theorems of the
library are out of reach here, so induction is by a least counterexample
(`SetInduction`), once for all the recursions of the module:
`RecursionHasOneSolution` takes a definition by recursion over spans, whose rule
looks only at shorter spans, to the equation it should satisfy. From there:

- In a string, the scan is `escaped` exactly behind an odd number of backslashes
  (`EscapedSteps`, `EscapedInStrings`), so that it leaves a string where the
  grammar ends it (`StringsAreScanned`).
- What the grammar derives as the body of an object is what the scan passes from
  depth d to depth d without going below d (`BodyEquation`, `BalancedIsScanned`).
  Hence `FindJsonObjectIsRight`: the first end at which the counters are back at zero
  is the end of the shortest balanced object.
- What `json.loads` accepts is balanced (`JsonIsBalanced`), so a reply that is JSON
  as a whole is itself the object the scan would find in it.
- The repairs change text without regard to strings. `RepairPlaces` says which
  token of the repaired text comes from which; a comma that goes stands before a
  brace, in a string or out of it, so the scan of the repaired text is the scan
  of the text with steps left out (`RepairedScan`), and `RepairedIsBalanced` says
  that what is balanced after the repairs was balanced before.

`ParserIsRight` puts these together for the parser as it goes about it: of the up
to four candidates, whichever `json.loads` accepts first is the first object of
the stripped reply, as it stands or repaired. Two theorems take that to what is
expected of it. `IntroducedJsonIsRead`: a span that is `Introduced` is still there
when the fences are stripped (`StrippedKeepsIntroduced`), no brace before it, so if
it is JSON it is the first object and comes out as it is. `OnlyObjectsAreRead`:
whatever comes out is a balanced part of the reply itself (`PartOfPart`,
`StrippedIsPart`), or mended from one that is no JSON, because the repairs only
respell literals and drop commas before braces (`RepairedIsMended`, which counts
how far each token moves).

**Only model-checked**: liveness (`JobsSettle`, `DiskIsReclaimed`,
`OutcomeIsLearned`, `BecomesReady`), which is beyond this proof system, and
`MistakesAreMended`: that the repaired text is JSON needs an induction over the
grammar of its own.

## Findings

1. `run_job` creates its semaphore per job (`app/jobs.py:92`), so the peak of
   cards in flight is `MAX_CONCURRENCY` times the jobs in progress.
   `app/config.py:196-199`, `README.md:159` and `app/jobs.py:59-60` say it bounds
   the process. Run `cards_in_flight`.
2. `set_status("failed")` in the `except` clause of `run_job` can raise
   (`app/jobs.py:105`), against its docstring; the job then stays `running` until
   the next restart. Run `worker_raises`.
3. One card's exception deletes the files of the cards that still wait
   (`app/jobs.py:97`), and each of them is then recorded as unreadable, against
   the README's "Failure must be per-item, not per-batch". The first that waits
   gets the slot of the card that raised and reads its file in time; the ones
   behind it do not. Run `waiting_cards`.
4. A second process that boots while a card is between `put` and `append_lead`
   deletes its image (`app/main.py:137`), against the comments of `sweep` and
   `_sweep_images` and the claims of safety across processes. Run
   `sweep_two_workers`.
5. `_find_json_object` starts at the first brace of the text (`app/parsing.py:44`) and
   tries no other: prose with a stray `{` ahead of the object makes the reply a
   parse error. Its docstring says "Extract the first balanced {...} block from
   arbitrary text" and that a naive scan "breaks when the model emits prose
   containing a stray brace". Run `json_in_prose`.

## Observations without a run of their own

Seen while modelling; the properties above are stated so that they hold beside
them.

- A backfill cut short strands old jobs. `ALTER TABLE jobs ADD COLUMN session_id`
  is committed before the sessions are (`app/store.py:954`), so a crash or an
  exception in between leaves a column that exists and rows without a session,
  which the next start does not look for; the comment at `app/store.py:956-957`
  says that nothing is stranded. `OldJobsHaveSessions` exempts exactly this
  (`interrupted`): nothing else strands a job, and nothing in the project forbids
  this.
- `MODEL_TIMEOUT_SECONDS` does not bound a request (`app/model_client.py:95`): httpx
  applies it to each operation, and a server that sends a byte now and then holds
  a card, and its slot of the semaphore, for as long as it likes (`GetsOn` can be
  repeated for ever). The repository's README calls it the "Per-request timeout"
  (line 152), reckons with "30 min on one stuck card" (line 671), and
  `app/extraction.py:49-50` with attempts that bound the worst case.
- Fences are stripped before anything is tried (`app/parsing.py:157`), so clean JSON
  with two fences inside a string is cut up and lost, though "Clean JSON" is the
  first that `app/parsing.py:8-9` says is tried. Such replies violate `JsonIsFound`
  too.
- Nothing deletes a batch directory whose request failed after the files were
  spooled (`app/main.py:513`: only the handler's own refusals clean up), nor one
  whose process died (`app/uploads.py:54`: no boot looks for them). The models do
  the same, and no text of the repository says otherwise.
- A process that dies between the deletion of a card's file and its append
  (`app/jobs.py:74`) loses the card; its job is failed at the next boot, never
  done, which is all that `DoneIsComplete` promises.
- A clear in another process between the backfill's `SELECT` and its `INSERT`
  leaves the cleared account an empty session.
- On an upgraded database, and in memory, a job may name a session that was
  cleared after the upload looked it up: it is in the list of jobs and in no
  session.
- `_prune_locked` counts the jobs of all accounts: one account's uploads evict
  another's results. `typical_seconds_per_card` of the memory store counts failed
  jobs, the one of SQLite does not.
- `_repair` works inside strings too ("True North" becomes "true North"), but only
  on what is no JSON: `MendedFrom` allows it.
- `parsing.py`'s list of what it handles names single quotes (`app/parsing.py:14`); a
  test (`tests/test_parsing.py:75`) says that they are not recovered, which is so.
  The models have no such token.
- The browser starts a second chain of polls when an upload starts, or a session
  is opened, while a request is in flight (`static/app.js:638`); the chains share
  `currentJobId`.
- A token's signing key is fetched by a synchronous call (`app/auth.py:130`), during
  which nothing else in the process moves.

## Not modelled

Image processing, cropping, the prompt, post-processing, the workbook and the
styling of the page (pure functions of data, most of them over third-party
libraries); token verification (a library against a remote key set); the
exports, which are one read each; SQLite's own recovery, taken as atomic and
durable transactions. Configuration appears as the constants of the modules. The
tools under `tools/` are scripts for benchmarks and test images that no request
runs.

Of the browser only its requests for one job are modelled: its overlapping
chains of polls, its views and their globals are not. Several processes in
`JobWorker`, for which the repository's README asks to set
`RECLAIM_STALE_JOBS=false` and which its deployment does not have, are not either.

Left out inside a modelled part: the size limit of one file is an accepted or a
rejected file; `typical_seconds_per_card` of a poll answer; the counters and
thumbnails of a page; the titles of sessions; the columns of a lead that nothing
here distinguishes; lists and white space in a reply; the CPU time between two
awaits, in which asyncio's timers are late.

## Plan

1. `PollClient`: `app.js`'s timers, `currentJobId` and `liveReply`, several requests
   in flight, on top of `JobContract` as the server.
2. Several processes in `JobWorker`, with and without `RECLAIM_STALE_JOBS`.
3. Proofs: what the tables of `ImageStore` and `JobWorker` have in common as a
   refinement.
