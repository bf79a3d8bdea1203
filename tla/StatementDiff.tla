---------------------------- MODULE StatementDiff ----------------------------
(***************************************************************************)
(* The counters of pg_stat_statements and the delta a window shows: the    *)
(* pure half of the top-queries tool (internal/pg/types_statements.go).    *)
(*                                                                         *)
(* A sample maps every statement to its cumulative counters.  Two counters *)
(* stand for the thirty-odd of pg.QueryStat: calls, which decides whether  *)
(* a row is shown, and time, any counter that grows along with it.  A      *)
(* statement the server holds no entry for has zero counters, which is how *)
(* the code's missing map key is used.                                     *)
(***************************************************************************)
EXTENDS Integers

CONSTANT Queries

Counter == [calls : Int, time : Int]
Sample  == [Queries -> [calls : Nat, time : Nat]]

NoCalls    == [calls |-> 0, time |-> 0]
ZeroSample == [q \in Queries |-> NoCalls]

(* QueryStat.sub *)
Minus(c, b) == [calls |-> c.calls - b.calls, time |-> c.time - b.time]

(* QueryStat.clampNonNeg *)
NonNeg(n)   == IF n < 0 THEN 0 ELSE n
Clamped(c)  == [calls |-> NonNeg(c.calls), time |-> NonNeg(c.time)]

(* The statements with activity in the window, each with its delta.        *)
ActiveRows(delta) ==
  [q \in {p \in Queries : delta[p].calls > 0} |-> delta[q]]

DiffStatements(base, cur) ==
  ActiveRows([q \in Queries |-> Minus(cur[q], base[q])])

DiffStatementsClamped(base, cur) ==
  ActiveRows([q \in Queries |-> Clamped(Minus(cur[q], base[q]))])

NoRows == [q \in {} |-> NoCalls]

(* No row of a rendered window runs backwards.                             *)
RowsForward(rows) == \A q \in DOMAIN rows : rows[q].calls > 0 /\ rows[q].time >= 0
==============================================================================
