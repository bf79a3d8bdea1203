------------------------------ MODULE MCActivity ------------------------------
(* The activity tool and the parts of it that keep a state of their own.   *)
(* A behaviour moves one of them; a session is bounded by what it is to    *)
(* show.                                                                   *)
EXTENDS Activity, ListView, ProcRates, LockTree

CONSTANTS r1, r2

VARIABLE part  \* bound: what moves

Passes == <<"initializing", "vacuuming_indexes">>

MCSessions ==
  {[keys |-> {"open", "back", "refresh", "enter", "waits", "log"}, ops |-> <<>>, phases |-> <<>>, active |-> {FALSE}],
   [keys |-> {"open", "back", "filter", "signal"}, ops |-> <<>>, phases |-> <<>>, active |-> {FALSE}],
   [keys |-> {"open", "back", "locks", "signal"}, ops |-> <<>>, phases |-> <<>>, active |-> {FALSE}],
   [keys |-> {"open", "back", "filter", "waits"}, ops |-> <<>>, phases |-> <<>>, active |-> BOOLEAN],
   [keys |-> {"open"}, ops |-> <<r1>>, phases |-> Passes, active |-> {TRUE}],
   [keys |-> {"open", "progress"}, ops |-> <<r1, r2>>, phases |-> <<"vacuuming_indexes">>, active |-> {TRUE}]}

MCChains == {<<>>, <<1>>, <<2>>, <<3>>, <<1, 2>>, <<1, 1>>, <<0>>, <<2, 3>>}

OddAndEven == [p \in Listed |-> p % 2]

MCInit ==
  /\ Init /\ ListInit /\ ProcInit /\ TreeInit
  /\ part \in {"screens", "list", "rates", "tree"}
  /\ part # "screens" => session = CHOOSE s \in Sessions : TRUE

MCNext ==
  /\ UNCHANGED part
  /\ \/ part = "screens" /\ Next /\ UNCHANGED <<listVars, procVars, treeVars>>
     \/ part = "list" /\ ListNext /\ UNCHANGED <<vars, procVars, treeVars>>
     \/ part = "rates" /\ ProcNext /\ UNCHANGED <<vars, listVars, treeVars>>
     \/ part = "tree" /\ TreeNext /\ UNCHANGED <<vars, listVars, procVars>>

MCSpec == MCInit /\ [][MCNext]_<<part, vars, listVars, procVars, treeVars>> /\ Fairness
=============================================================================
