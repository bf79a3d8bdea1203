---------------------------- MODULE MCTopQueries ----------------------------
(* Instances of TopQueries for TLC.                                        *)
EXTENDS TopQueries, TLC

CONSTANTS q1, q2, d1, d2

OneDatabase  == [q \in Queries |-> d1]
TwoDatabases == [q \in Queries |-> IF q = q1 THEN d1 ELSE d2]

Symmetry == Permutations(Slots)
=============================================================================
