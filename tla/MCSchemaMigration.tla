-------------------------- MODULE MCSchemaMigration --------------------------
(* SchemaMigration for TLC: two coroutines in one process, one in another. *)
EXTENDS SchemaMigration

CONSTANTS j1, j2, alice, bob, p, q, p1, p2, q1

OneEach == [j \in Jobs |-> IF j = j1 THEN alice ELSE bob]
Placed  == [c \in Callers |-> IF c = q1 THEN q ELSE p]
=============================================================================
