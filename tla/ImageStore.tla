------------------------------ MODULE ImageStore ------------------------------
(***************************************************************************)
(* The retained card images: app/images.py's content-addressed files, the  *)
(* image_sha256 column of the leads that name them, and the sweep every    *)
(* server process makes before it serves (_sweep_images, app/main.py).     *)
(* The file is written minutes before the row that names it, the sweep     *)
(* reads the rows before it deletes the files, and equal images share one  *)
(* file: who holds a reference is never written down in one place.         *)
(*                                                                         *)
(* put is synchronous, so within its process nothing comes between its     *)
(* steps; another process, or a crash, may.                                *)
(***************************************************************************)
EXTENDS Naturals, FiniteSets, Functions

CONSTANTS
    Workers,     \* pids of server processes
    Cards,       \* cards ever processed
    Digests,     \* sha256 digests
    Image,       \* each card's normalised JPEG: Image[c] is its digest
    Users,
    Owner,       \* each card's user
    Retention,   \* image_retention_days > 0
    MaxFaults,   \* bound: file operations and appends that raise
    MaxCrashes,  \* bound: times a process dies
    None         \* no image

ASSUME ImageAssumption     == Image \in [Cards -> Digests]
ASSUME OwnerAssumption     == Owner \in [Cards -> Users]
ASSUME NoneAssumption      == None \notin Digests
ASSUME RetentionAssumption == Retention \in BOOLEAN
ASSUME BoundsAssumption    == MaxFaults \in Nat /\ MaxCrashes \in Nat

VARIABLES
    server,   \* worker -> "down" | "expiring" | "reading" | "sweeping" | "serving"
    stage,    \* card -> "new" | "writing" | "held" | "recorded" | "dropped"
    at,       \* card -> the worker that processes it
    held,     \* card -> the image_sha256 of the lead being made, or None
    gone,     \* the cards whose job was cleared: their append will raise
    rows,     \* the leads: card -> [image, old]
    files,    \* digest -> "whole" | "torn", for the files that exist
    temps,    \* the temporary files: [worker, digest]
    keep,     \* worker -> the keep-list its sweep read
    todo,     \* worker -> the files its sweep has still to look at
    faults, crashes

disk  == <<files, temps>>
sweep == <<server, keep, todo>>
cards == <<stage, at, held, gone>>
vars  == <<sweep, cards, rows, disk, faults, crashes>>

Phase == {"down", "expiring", "reading", "sweeping", "serving"}
Stage == {"new", "writing", "held", "recorded", "dropped"}

TypeOK ==
    /\ server \in [Workers -> Phase]
    /\ stage \in [Cards -> Stage]
    /\ at \in [Cards -> Workers]
    /\ held \in [Cards -> Digests \cup {None}]
    /\ gone \subseteq Cards
    /\ DOMAIN rows \subseteq Cards
    /\ \A c \in DOMAIN rows : rows[c] \in [image : Digests \cup {None}, old : BOOLEAN]
    /\ DOMAIN files \subseteq Digests
    /\ \A d \in DOMAIN files : files[d] \in {"whole", "torn"}
    /\ temps \subseteq Workers \X Digests
    /\ keep \in [Workers -> SUBSET Digests]
    /\ todo \in [Workers -> SUBSET Digests]
    /\ faults \in 0 .. MaxFaults
    /\ crashes \in 0 .. MaxCrashes

\* The digests the rows name.
Referenced == {rows[c].image : c \in DOMAIN rows} \ {None}

Nothing == [x \in {} |-> x]
With(f, x, y) == [z \in DOMAIN f \cup {x} |-> IF z = x THEN y ELSE f[z]]
Without(f, S) == Restrict(f, DOMAIN f \ S)

Init ==
    /\ server = [w \in Workers |-> "down"]
    /\ stage = [c \in Cards |-> "new"]
    /\ at \in [Cards -> Workers]
    /\ held = [c \in Cards |-> None]
    /\ gone = {}
    /\ rows = Nothing
    /\ files = Nothing
    /\ temps = {}
    /\ keep = [w \in Workers |-> {}]
    /\ todo = [w \in Workers |-> {}]
    /\ faults = 0
    /\ crashes = 0

Fault == faults < MaxFaults /\ faults' = faults + 1

-----------------------------------------------------------------------------
\* A card's way through extract_lead and append_lead, as far as its image goes.

\* The worker is in no other put.
Free(w) == server[w] = "serving" /\ \A c \in Cards : at[c] = w => stage[c] # "writing"

\* put, when the file is there already: a stat and nothing else.
PutExists(c) ==
    /\ Free(at[c])
    /\ stage[c] = "new"
    /\ Image[c] \in DOMAIN files
    /\ stage' = [stage EXCEPT ![c] = "held"]
    /\ held' = [held EXCEPT ![c] = Image[c]]
    /\ UNCHANGED <<sweep, at, gone, rows, disk, faults, crashes>>

\* put begins to write: to a name of this process's own.
\* Mutant of PutOpens: straight to the final name.
PutOpensInPlace(c) ==
    /\ Free(at[c])
    /\ stage[c] = "new"
    /\ Image[c] \notin DOMAIN files
    /\ stage' = [stage EXCEPT ![c] = "writing"]
    /\ files' = With(files, Image[c], "torn")
    /\ UNCHANGED <<sweep, at, held, gone, rows, temps, faults, crashes>>
PutOpens(c) ==
    /\ Free(at[c])
    /\ stage[c] = "new"
    /\ Image[c] \notin DOMAIN files
    /\ stage' = [stage EXCEPT ![c] = "writing"]
    /\ temps' = temps \cup {<<at[c], Image[c]>>}
    /\ UNCHANGED <<sweep, at, held, gone, rows, files, faults, crashes>>

\* os.replace.
PutReplaces(c) ==
    /\ server[at[c]] = "serving"
    /\ stage[c] = "writing"
    /\ stage' = [stage EXCEPT ![c] = "held"]
    /\ held' = [held EXCEPT ![c] = Image[c]]
    /\ files' = With(files, Image[c], "whole")
    /\ temps' = temps \ {<<at[c], Image[c]>>}
    /\ UNCHANGED <<sweep, at, gone, rows, faults, crashes>>

\* An OSError: extract_lead goes on without an image.
\* Mutant of Unlinked: the temporary file is left behind.
LeftBehind(c) == temps
Unlinked(c) == temps \ {<<at[c], Image[c]>>}

PutRaises(c) ==
    /\ server[at[c]] = "serving"
    /\ stage[c] = "writing"
    /\ Fault
    /\ stage' = [stage EXCEPT ![c] = "held"]
    /\ temps' = Unlinked(c)
    /\ UNCHANGED <<sweep, at, held, gone, rows, files, crashes>>

\* The file could not be read or is no image, or its shard could not be made.
NoImage(c) ==
    /\ Free(at[c])
    /\ stage[c] = "new"
    /\ stage' = [stage EXCEPT ![c] = "held"]
    /\ UNCHANGED <<sweep, at, held, gone, rows, disk, faults, crashes>>

\* append_lead, after the model's answer.
RecordLead(c) ==
    /\ Free(at[c])
    /\ stage[c] = "held"
    /\ c \notin gone
    /\ stage' = [stage EXCEPT ![c] = "recorded"]
    /\ rows' = With(rows, c, [image |-> held[c], old |-> FALSE])
    /\ UNCHANGED <<sweep, at, held, gone, disk, faults, crashes>>

\* The extraction or the append raises, and the image has no row: the job was
\* cleared, or something failed.
LeadLost(c) ==
    /\ Free(at[c])
    /\ stage[c] = "held"
    /\ \/ c \in gone /\ UNCHANGED faults
       \/ c \notin gone /\ Fault
    /\ stage' = [stage EXCEPT ![c] = "dropped"]
    /\ UNCHANGED <<sweep, at, held, gone, rows, disk, crashes>>

\* DELETE /api/sessions: the rows go, with them the jobs of the cards in flight
\* and of some that still wait; the files stay.
ClearHistory(w, user) ==
    LET theirs  == {c \in Cards : Owner[c] = user}
        waiting == {c \in theirs : stage[c] = "new"}
    IN  /\ Free(w)
        /\ rows' = Without(rows, theirs)
        /\ \E S \in SUBSET waiting : gone' = gone \cup (theirs \ waiting) \cup S
        /\ UNCHANGED <<sweep, stage, at, held, disk, faults, crashes>>

\* A lead passes the retention window.
Ages(c) ==
    /\ c \in DOMAIN rows
    /\ rows' = [rows EXCEPT ![c].old = TRUE]
    /\ UNCHANGED <<sweep, cards, disk, faults, crashes>>

-----------------------------------------------------------------------------
\* A process: it starts, sweeps, serves, and dies.

Start(w) ==
    /\ server[w] = "down"
    /\ server' = [server EXCEPT ![w] = "expiring"]
    /\ UNCHANGED <<cards, keep, todo, rows, disk, faults, crashes>>

\* expire_images, unless retention is off.
Expire(w) ==
    /\ server[w] = "expiring"
    /\ server' = [server EXCEPT ![w] = "reading"]
    /\ rows' = [c \in DOMAIN rows |-> IF Retention /\ rows[c].old
                                      THEN [rows[c] EXCEPT !.image = None]
                                      ELSE rows[c]]
    /\ UNCHANGED <<cards, keep, todo, disk, faults, crashes>>

\* Mutant of KeepList: it asks for young leads, not for leads with an image.
YoungOnly(w) == {rows[c].image : c \in {c \in DOMAIN rows : ~rows[c].old}} \ {None}
KeepList(w) == Referenced

\* referenced_image_hashes; the listing is the directory as the sweep finds it.
ReadKeepList(w) ==
    /\ server[w] = "reading"
    /\ server' = [server EXCEPT ![w] = "sweeping"]
    /\ keep' = [keep EXCEPT ![w] = KeepList(w)]
    /\ todo' = [todo EXCEPT ![w] = DOMAIN files]
    /\ UNCHANGED <<cards, rows, disk, faults, crashes>>

\* Mutant of SweepFile: the pass ends with the first file deleted.
SweepFileAndStop(w, d) ==
    /\ server[w] = "sweeping"
    /\ d \in todo[w]
    /\ todo' = [todo EXCEPT ![w] = IF d \in keep[w] THEN @ \ {d} ELSE {}]
    /\ files' = IF d \in keep[w] THEN files ELSE Without(files, {d})
    /\ UNCHANGED <<cards, server, keep, rows, temps, faults, crashes>>
SweepFile(w, d) ==
    /\ server[w] = "sweeping"
    /\ d \in todo[w]
    /\ todo' = [todo EXCEPT ![w] = @ \ {d}]
    /\ files' = IF d \in keep[w] THEN files ELSE Without(files, {d})
    /\ UNCHANGED <<cards, server, keep, rows, temps, faults, crashes>>

\* unlink raises: the file is left for the next sweep.
SweepSkips(w, d) ==
    /\ server[w] = "sweeping"
    /\ d \in todo[w] \ keep[w]
    /\ Fault
    /\ todo' = [todo EXCEPT ![w] = @ \ {d}]
    /\ UNCHANGED <<cards, server, keep, rows, disk, crashes>>

Serve(w) ==
    /\ server[w] = "sweeping"
    /\ todo[w] = {}
    /\ server' = [server EXCEPT ![w] = "serving"]
    /\ UNCHANGED <<cards, keep, todo, rows, disk, faults, crashes>>

\* The cards in flight are lost with their process, at whatever point.
Crash(w) ==
    /\ server[w] # "down"
    /\ crashes < MaxCrashes
    /\ crashes' = crashes + 1
    /\ server' = [server EXCEPT ![w] = "down"]
    /\ stage' = [c \in Cards |-> IF at[c] = w /\ stage[c] \in {"writing", "held"}
                                 THEN "dropped" ELSE stage[c]]
    /\ UNCHANGED <<at, held, gone, keep, todo, rows, disk, faults>>

Next ==
    \/ \E c \in Cards :
         \/ PutExists(c) \/ PutOpens(c) \/ PutReplaces(c) \/ PutRaises(c)
         \/ NoImage(c) \/ RecordLead(c) \/ LeadLost(c) \/ Ages(c)
    \/ \E w \in Workers :
         \/ \E user \in Users : ClearHistory(w, user)
         \/ Start(w) \/ Expire(w) \/ ReadKeepList(w) \/ Serve(w) \/ Crash(w)
         \/ \E d \in Digests : SweepFile(w, d) \/ SweepSkips(w, d)

Spec == Init /\ [][Next]_vars

-----------------------------------------------------------------------------
\* The image a lead names is there, and complete, for as long as the lead names
\* it: across dedup with other users' leads, sweeps, crashes in the middle of a
\* write, and files an earlier sweep could not delete (_sweep_images: "the
\* recoverable mistake the only possible one").
ReferencedImagesExist == \A d \in Referenced : d \in DOMAIN files /\ files[d] = "whole"

\* What is on disk when a process starts to serve is what the leads name, unless
\* something raised: nothing that expired, was cleared or lost its row stays.
SweepLeavesNoOrphan ==
    [][\A w \in Workers :
         server[w] = "sweeping" /\ server'[w] = "serving" /\ faults = 0
             => DOMAIN files \subseteq Referenced]_vars

\* No sweep deletes a temporary file, so those must stay few: one for each put
\* in progress and for each crash.
TempsAreFew ==
    Cardinality(temps) <= crashes + Cardinality({c \in Cards : stage[c] = "writing"})

-----------------------------------------------------------------------------
\* The inductive invariant behind ReferencedImagesExist and SweepLeavesNoOrphan,
\* for a single process.

\* What a card in flight has put is still there when its lead is appended.
HeldImagesExist ==
    \A c \in Cards :
        /\ stage[c] \in {"new", "writing"} => held[c] = None
        /\ stage[c] = "held" /\ held[c] # None
               => held[c] \in DOMAIN files /\ files[held[c]] = "whole"

\* A process that does not serve has no card in flight.
NothingInFlight ==
    \A c \in Cards : stage[c] \in {"writing", "held"} => server[at[c]] = "serving"

\* A sweep keeps the files that a lead names, and no other it has looked at.
KeepListIsCurrent ==
    \A w \in Workers : server[w] = "sweeping" =>
        /\ keep[w] = Referenced
        /\ faults = 0 => DOMAIN files \subseteq keep[w] \cup todo[w]

IInv ==
    /\ TypeOK
    /\ ReferencedImagesExist
    /\ HeldImagesExist
    /\ NothingInFlight
    /\ KeepListIsCurrent
    /\ \A d \in DOMAIN files : files[d] = "whole"
=============================================================================
