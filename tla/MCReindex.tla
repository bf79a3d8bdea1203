------------------------------ MODULE MCReindex ------------------------------
(* Instances of Reindex and, next to it, of Keys for TLC.                  *)
EXTENDS Reindex, Keys, TLC

CONSTANTS i1, i2, j1, t1, t2

(* Two indexes on one table, one on another.                               *)
Owner == [i \in Indexes |-> IF i = j1 THEN t2 ELSE t1]

(* A phase the bar does not know, and the last one.                        *)
LastPhases == <<"unknown", "waiting_for_readers_before_dropping">>

VARIABLE part  \* the one of the two that moves

AtHome == place = [level |-> "tools", mode |-> "plain", row |-> "activity"] /\ did = NoKey

MCInit == Init /\ ((part = "reindex" /\ AtHome) \/ (part = "keys" /\ KeysInit /\ bloated = {}))

MCNext ==
  \/ part = "reindex" /\ Next /\ UNCHANGED <<place, did, part>>
  \/ part = "keys" /\ KeysNext /\ UNCHANGED <<vars, part>>

MCSpec == MCInit /\ [][MCNext]_<<vars, place, did, part>>

Symmetry == Permutations(Slots)
=============================================================================
