---------------------------- MODULE MCLeadHistory ----------------------------
(* LeadHistory for TLC: who makes which upload, and into which session. *)
EXTENDS LeadHistory

CONSTANT alice

OneUser == [j \in Jobs |-> alice]

\* The last upload goes into the first one's session.
Homes == [j \in Jobs |-> IF j = Max(Jobs) THEN 1 ELSE j]

\* The first and the last row are stamped alike; the others are older.
Ties == [j \in Jobs |-> IF j \in {1, Max(Jobs)} THEN 2 ELSE 1]
=============================================================================
