---------------------------- MODULE MCJobWorker -----------------------------
(* JobWorker for TLC: who makes which upload, and of how many cards. *)
EXTENDS JobWorker, Functions, TLC

CONSTANTS j1, j2, j3, alice, bob

OneUser  == [j \in Jobs |-> alice]
TwoUsers == [j \in Jobs |-> IF j = j1 THEN alice ELSE bob]

\* Uploads of the same user are interchangeable.
Symmetry == Permutations(Jobs)

\* For a run of few cards in all: two uploads of two, or one of three and one of one.
FewCards == FoldFunction(+, 0, accepted) <= 4
=============================================================================
