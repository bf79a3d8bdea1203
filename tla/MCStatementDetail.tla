--------------------------- MODULE MCStatementDetail ---------------------------
(* Instances of StatementDetail for TLC.                                   *)
EXTENDS StatementDetail

CONSTANTS a, b, c1

(* a and b are two texts.                                                  *)
OwnText == [st \in {a, b} |-> st]
=============================================================================
