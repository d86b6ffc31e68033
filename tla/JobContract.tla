----------------------------- MODULE JobContract -----------------------------
(***************************************************************************)
(* What both stores of app/store.py promise whoever polls a job, without   *)
(* the worker, the disk or the process: a job is opened with a number of   *)
(* cards, each card is recorded at most once, "done" means all of them,    *)
(* "failed" keeps those there are, and a cleared job never comes back.     *)
(***************************************************************************)
EXTENDS Naturals

CONSTANTS Jobs, Users, Owner, MaxCards

VARIABLES
    phase,     \* "none" | "open" | "done" | "failed" | "gone"
    total,     \* cards accepted
    recorded,  \* cards with a lead
    forgets    \* the store keeps only so many jobs, and none over a restart

vars == <<phase, total, recorded, forgets>>

Init ==
    /\ forgets \in BOOLEAN
    /\ phase = [j \in Jobs |-> "none"]
    /\ total = [j \in Jobs |-> 0]
    /\ recorded = [j \in Jobs |-> {}]

\* What becomes of the jobs in S when a user clears them or the store forgets
\* them: they are gone with all they had.
Gone(S) ==
    /\ phase' = [j \in Jobs |-> IF j \in S THEN "gone" ELSE phase[j]]
    /\ total' = [j \in Jobs |-> IF j \in S THEN 0 ELSE total[j]]
    /\ recorded' = [j \in Jobs |-> IF j \in S THEN {} ELSE recorded[j]]

\* A store that forgets may drop jobs that are over to make room for a new one.
Open(j) ==
    /\ phase[j] = "none"
    /\ \E S \in SUBSET {k \in Jobs : phase[k] \in {"done", "failed"}},
           n \in 1 .. MaxCards :
         /\ S # {} => forgets
         /\ phase' = [k \in Jobs |-> IF k = j THEN "open"
                                     ELSE IF k \in S THEN "gone" ELSE phase[k]]
         /\ total' = [k \in Jobs |-> IF k = j THEN n
                                     ELSE IF k \in S THEN 0 ELSE total[k]]
         /\ recorded' = [k \in Jobs |-> IF k \in S THEN {} ELSE recorded[k]]

\* Cards of a job that failed may still arrive; a done job has none left.
Record(j) ==
    /\ phase[j] \in {"open", "failed"}
    /\ \E c \in 1 .. total[j] \ recorded[j] :
         recorded' = [recorded EXCEPT ![j] = @ \cup {c}]
    /\ UNCHANGED <<phase, total>>

Finish(j) ==
    /\ phase[j] = "open"
    /\ recorded[j] = 1 .. total[j]
    /\ phase' = [phase EXCEPT ![j] = "done"]
    /\ UNCHANGED <<total, recorded>>

\* One job, or at a restart every job that was open.
Fail(S) ==
    /\ \A j \in S : phase[j] = "open"
    /\ phase' = [j \in Jobs |-> IF j \in S THEN "failed" ELSE phase[j]]
    /\ UNCHANGED <<total, recorded>>

\* A user clears everything of theirs.
Clear(user) ==
    Gone({j \in Jobs : Owner[j] = user /\ phase[j] # "none"})

\* A store that forgets starts again with nothing.
Lose == forgets /\ Gone({j \in Jobs : phase[j] # "none"})

Next ==
    /\ \/ \E j \in Jobs : Open(j) \/ Record(j) \/ Finish(j)
       \/ \E S \in SUBSET Jobs : Fail(S)
       \/ \E user \in Users : Clear(user)
       \/ Lose
    /\ UNCHANGED forgets

Spec == Init /\ [][Next]_vars
=============================================================================
