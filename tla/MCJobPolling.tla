---------------------------- MODULE MCJobPolling -----------------------------
(* JobPolling for TLC: one user, one job. *)
EXTENDS JobPolling

CONSTANTS j1, alice

OneUser == [j \in Jobs |-> alice]
=============================================================================
