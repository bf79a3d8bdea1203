------------------------------ MODULE OutputPane ------------------------------
(***************************************************************************)
(* What a pane over a running command promises: it shows the lines of one  *)
(* run in the order they were printed and leaves none out, until it stops. *)
(* Lines are numbered in the order of their run.                           *)
(***************************************************************************)
EXTENDS Naturals, Sequences

VARIABLES
  printed,  \* lines the run has printed
  shown,    \* lines in the pane
  open      \* whether the pane is following a run

vars == <<printed, shown, open>>

Prefix(n) == [i \in 1..n |-> i]

Init == printed = 0 /\ shown = <<>> /\ open = FALSE

Clear == ~open /\ printed' = 0 /\ shown' = <<>> /\ UNCHANGED open
Start == ~open /\ printed' = 0 /\ shown' = <<>> /\ open' = TRUE
Emit  == printed' = printed + 1 /\ UNCHANGED <<shown, open>>
Show  ==
  /\ open /\ Len(shown) < printed /\ shown' = Append(shown, Len(shown) + 1)
  /\ UNCHANGED <<printed, open>>
Stop  == open /\ open' = FALSE /\ UNCHANGED <<printed, shown>>

Next == Clear \/ Start \/ Emit \/ Show \/ Stop

Spec == Init /\ [][Next]_vars
=============================================================================
