------------------------------- MODULE LockTree -------------------------------
(***************************************************************************)
(* The blocking chains: the backends that wait for a lock or hold one that *)
(* another waits for, as a forest.                                         *)
(*                                                                         *)
(* pg_blocking_pids names a prepared transaction by 0, and a parallel      *)
(* query once for each of its workers.                                     *)
(***************************************************************************)
EXTENDS Integers, Sequences, FiniteSets, SequencesExt

CONSTANTS
  Backends,  \* pids, naturals above 0
  Chains     \* the lists pg_blocking_pids may return

VARIABLES
  nodes,  \* screen.lock.nodes: the blockers of each backend that is involved
  rows    \* the tree, line by line

treeVars == <<nodes, rows>>

TreeInit == nodes = <<>> /\ rows = <<>>

-----------------------------------------------------------------------------
(* sqlLockWaiters: a blocker is listed only while it is a backend.         *)
Involved(blockers) ==
  LET waiting == {p \in DOMAIN blockers : blockers[p] # <<>>}
      holding == {p \in DOMAIN blockers : \E q \in DOMAIN blockers : p \in ToSet(blockers[q])}
  IN  [p \in waiting \cup holding |-> blockers[p]]

Ascending(pids) == SetToSortSeq(pids, <)

(* blocks[pid], sorted: a backend once for each time it names pid.         *)
Children(N, pid) ==
  LET naming(q) == SelectSeq(N[q], LAMBDA b : b = pid)
      waiters   == Ascending(DOMAIN N)
  IN  FlattenSeq([i \in DOMAIN waiters |->
                    [k \in DOMAIN naming(waiters[i]) |-> waiters[i]]])

Roots(N) == {p \in DOMAIN N : N[p] = <<>> /\ Children(N, p) # <<>>}

(* The ways into the tree: no backend twice on one.                        *)
Ways(N) ==
  {w \in UNION {[1..n -> DOMAIN N] : n \in 1..Cardinality(DOMAIN N)} : IsInjective(w)}

(* The lines below a way, its own first.                                   *)
Walk(N) ==
  LET walk[w \in Ways(N)] ==
        LET below == Children(N, Last(w))
        IN  <<[pid |-> Last(w), depth |-> Len(w) - 1]>> \o
              FlattenSeq([i \in DOMAIN below |->
                 IF below[i] \in ToSet(w) THEN <<>> ELSE walk[Append(w, below[i])]])
      roots == Ascending(Roots(N))
  IN  FlattenSeq([i \in DOMAIN roots |-> walk[<<roots[i]>>]])

(* Mutant: no list when the graph is all cycles.                           *)
RowsOfTree(N) == Walk(N)

(* All cycles: every backend flat.                                         *)
rebuildLockTreeItems(N) ==
  LET flat == Ascending(DOMAIN N)
  IN  IF Walk(N) = <<>> THEN [i \in DOMAIN flat |-> [pid |-> flat[i], depth |-> 0]] ELSE Walk(N)

onLockTreeLoaded ==
  \E alive \in SUBSET Backends : \E blockers \in [alive -> Chains] :
    /\ \A p \in alive : p \notin ToSet(blockers[p])
    /\ nodes' = Involved(blockers) /\ rows' = rebuildLockTreeItems(Involved(blockers))

TreeNext == onLockTreeLoaded

TreeSpec == TreeInit /\ [][TreeNext]_treeVars

-----------------------------------------------------------------------------
(* The line a line is indented under.                                      *)
Above(i) == CHOOSE j \in 1..(i - 1) : rows[j].depth < rows[i].depth /\
                                      \A k \in (j + 1)..(i - 1) : rows[k].depth >= rows[i].depth

RECURSIVE Way(_)
Way(i) == IF rows[i].depth = 0 THEN <<rows[i].pid>> ELSE Append(Way(Above(i)), rows[i].pid)

(* Every line is indented under a backend that blocks it, by one, with     *)
(* none twice on the way; every way from a backend that nobody blocks is   *)
(* there; and with no such backend all are listed.                         *)
TreeSound ==
  /\ \A i \in DOMAIN rows : rows[i].depth > 0 =>
       LET j == Above(i)
       IN  /\ rows[i].depth = rows[j].depth + 1
           /\ rows[j].pid \in ToSet(nodes[rows[i].pid]) /\ IsInjective(Way(i))
  /\ {Way(i) : i \in DOMAIN rows} =
       IF Roots(nodes) = {} THEN {<<p>> : p \in DOMAIN nodes}
       ELSE {w \in Ways(nodes) : w[1] \in Roots(nodes) /\
               \A i \in 2..Len(w) : w[i - 1] \in ToSet(nodes[w[i]])}
=============================================================================
