---------------------------- MODULE MCImageStore -----------------------------
(* ImageStore for TLC: whose card each is, and which photographs are equal. *)
EXTENDS ImageStore

CONSTANTS w1, w2, c1, c2, c3, d1, d2, alice, bob

\* alice and bob photograph the same card; alice also photographs another.
SharedImage == [c \in Cards |-> IF c = c3 THEN d2 ELSE d1]
TwoUsers    == [c \in Cards |-> IF c = c2 THEN bob ELSE alice]
=============================================================================
