---------------------------- MODULE ReindexProofs ----------------------------
(***************************************************************************)
(* The banner of a rebuild, for any tables, indexes, phases and number of  *)
(* commands in flight.                                                     *)
(*                                                                         *)
(* A reply of "done" is matched by table, the banner names an index: that  *)
(* every index the screen ever shows, arms or rebuilds is one of its own   *)
(* table (Own) is what lets the end of a rebuild find the banner it must   *)
(* clear.                                                                  *)
(***************************************************************************)
EXTENDS Reindex, TLAPS

IsScreen(x) ==
  x = [table |-> x.table, rows |-> x.rows, pending |-> x.pending,
       running |-> x.running, prog |-> x.prog, pctMax |-> x.pctMax]

(* The screen knows indexes of its own table only.                         *)
Own ==
  Open => /\ IsScreen(screen)
          /\ \A i \in screen.rows : TableOf[i] = screen.table
          /\ screen.pending # None => screen.pending \in Indexes /\ TableOf[screen.pending] = screen.table
          /\ screen.running # None => screen.running \in Indexes /\ TableOf[screen.running] = screen.table

Shape == net = [s \in Slots |-> net[s]] /\ ticks \in Nat

IndInv == Shape /\ Own /\ BannerFed /\ Polled

Rebuilds(n, s, i) == n[s] # None /\ n[s].kind \in {"rebuild", "done"} /\ n[s].index = i

(* A step on the network that moves no rebuild.                            *)
MovesOther ==
  \/ UNCHANGED net
  \/ \E s \in Slots : \E m : net' = [net EXCEPT ![s] = m] /\ \A i : ~Rebuilds(net, s, i)

-----------------------------------------------------------------------------
LEMMA ScreenFields ==
  ASSUME NEW x, IsScreen(x), NEW v
  PROVE  /\ [x EXCEPT !.rows = v] = [table |-> x.table, rows |-> v, pending |-> x.pending,
               running |-> x.running, prog |-> x.prog, pctMax |-> x.pctMax]
         /\ [x EXCEPT !.pending = v] = [table |-> x.table, rows |-> x.rows, pending |-> v,
               running |-> x.running, prog |-> x.prog, pctMax |-> x.pctMax]
         /\ [x EXCEPT !.running = v] = [table |-> x.table, rows |-> x.rows, pending |-> x.pending,
               running |-> v, prog |-> x.prog, pctMax |-> x.pctMax]
         /\ [x EXCEPT !.prog = v] = [table |-> x.table, rows |-> x.rows, pending |-> x.pending,
               running |-> x.running, prog |-> v, pctMax |-> x.pctMax]
         /\ [x EXCEPT !.pctMax = v] = [table |-> x.table, rows |-> x.rows, pending |-> x.pending,
               running |-> x.running, prog |-> x.prog, pctMax |-> v]
  BY DEF IsScreen

LEMMA InitHolds == Init => IndInv
  BY DEF Init, IndInv, Shape, Own, Open, BannerFed, Polled, Running

(* A step that sends, or moves one slot whose message is no rebuild, keeps *)
(* what the banner is fed by.                                              *)
LEMMA OthersKeepFeed ==
  ASSUME Shape, NEW i, \E s \in Slots : Rebuilds(net, s, i),
         NEW s \in Slots, NEW m, net' = [net EXCEPT ![s] = m], ~Rebuilds(net, s, i)
  PROVE  \E r \in Slots : Rebuilds(net', r, i)
  <1>1. PICK r \in Slots : Rebuilds(net, r, i)
    OBVIOUS
  <1>2. r # s
    BY <1>1
  <1>3. net'[r] = net[r]
    BY <1>2 DEF Shape
  <1>4. QED
    BY <1>1, <1>3 DEF Rebuilds

LEMMA ShapeKept ==
  ASSUME Shape, NEW s \in Slots, NEW m, net' = [net EXCEPT ![s] = m], ticks' \in Nat
  PROVE  Shape' /\ net'[s] = m
  BY DEF Shape

(* A step that leaves the screen and the ticks alone, and a rebuild where  *)
(* it is or at its end.                                                    *)
LEMMA ScreenKept ==
  ASSUME IndInv, UNCHANGED <<screen, ticks>>, NEW s \in Slots, NEW m,
         net' = [net EXCEPT ![s] = m],
         \A i \in Indexes : Rebuilds(net, s, i) => m # None /\ m.kind = "done" /\ m.index = i
  PROVE  IndInv'
  <1>1. Own' /\ Polled' /\ Running' = Running
    BY DEF IndInv, Own, Polled, Running, Open
  <1>2. Shape' /\ net'[s] = m
    BY ShapeKept DEF IndInv, Shape
  <1>3. ASSUME Running # None
        PROVE  \E r \in Slots : Rebuilds(net', r, Running)
    <2>1. \E r \in Slots : Rebuilds(net, r, Running)
      BY <1>3 DEF IndInv, BannerFed, Rebuilds
    <2>2. CASE Rebuilds(net, s, Running)
      <3>1. Running \in Indexes
        BY <1>3 DEF IndInv, Own, Running, Open
      <3>2. QED
        BY <1>2, <2>2, <3>1 DEF Rebuilds
    <2>3. CASE ~Rebuilds(net, s, Running)
      BY <2>1, <2>3, OthersKeepFeed DEF IndInv
    <2>4. QED
      BY <2>2, <2>3
  <1>4. BannerFed'
    BY <1>1, <1>3 DEF BannerFed, Rebuilds
  <1>5. QED
    BY <1>1, <1>2, <1>4 DEF IndInv

(* A step on an open screen that takes no rebuild on or off.               *)
LEMMA OtherScreenStep ==
  ASSUME IndInv, Own', Running' \in {Running, None}, ticks' = ticks, MovesOther
  PROVE  IndInv'
  <1>1. Polled'
    BY DEF IndInv, Polled
  <1>2. CASE UNCHANGED net
    BY <1>1, <1>2 DEF IndInv, BannerFed, Shape
  <1>3. ASSUME NEW s \in Slots, NEW m, net' = [net EXCEPT ![s] = m], \A i : ~Rebuilds(net, s, i)
        PROVE  IndInv'
    <2>1. Shape'
      BY <1>3, ShapeKept DEF IndInv, Shape
    <2>2. BannerFed'
      <3>1. ASSUME Running # None PROVE \E r \in Slots : Rebuilds(net', r, Running)
        BY <1>3, <3>1, OthersKeepFeed DEF IndInv, BannerFed, Rebuilds
      <3>2. QED
        BY <3>1 DEF BannerFed, Rebuilds
    <2>3. QED
      BY <1>1, <2>1, <2>2 DEF IndInv
  <1>4. QED
    BY <1>2, <1>3 DEF MovesOther

(* A command takes a free slot.                                            *)
LEMMA IssueIsOther ==
  ASSUME NEW m, Issue(m)
  PROVE  MovesOther
  BY DEF Issue, Rebuilds, MovesOther

(* ... and a step that leaves the screen alone is such a step on it.       *)
LEMMA OtherStep ==
  ASSUME IndInv, UNCHANGED <<screen, ticks>>, MovesOther
  PROVE  IndInv'
  BY OtherScreenStep DEF IndInv, Own, Running, Open

-----------------------------------------------------------------------------
(* The server: the one step on a rebuild's slot turns it into its end.     *)
LEMMA ServerKeeps ==
  ASSUME IndInv, Server \/ \E s \in Slots : Serve(s)
  PROVE  IndInv'
  <1>1. CASE Server
    BY <1>1, OtherStep DEF Server, Bloat, Advance, MovesOther
  <1>2. ASSUME NEW s \in Slots, StartBuild(s) PROVE IndInv'
    BY <1>2, OtherStep DEF StartBuild, MovesOther
  <1>3. ASSUME NEW s \in Slots, EndBuild(s) PROVE IndInv'
    <2>1. UNCHANGED <<screen, ticks>>
      BY <1>3 DEF EndBuild
    <2>2. PICK ok \in BOOLEAN :
            net' = [net EXCEPT ![s] = [kind |-> "done", index |-> net[s].index, ok |-> ok]]
      BY <1>3 DEF EndBuild, Answer
    <2>3. PICK m : m = [kind |-> "done", index |-> net[s].index, ok |-> ok]
      OBVIOUS
    <2>4. ASSUME NEW i \in Indexes, Rebuilds(net, s, i)
          PROVE  m # None /\ m.kind = "done" /\ m.index = i
      <3>1. net[s].index = i
        BY <2>4 DEF Rebuilds
      <3>2. m \in [kind : {"done"}, index : Indexes, ok : BOOLEAN]
        BY <2>3, <3>1
      <3>3. QED
        BY <2>3, <3>1, <3>2, NoneAssumption
    <2>5. net' = [net EXCEPT ![s] = m]
      BY <2>2, <2>3
    <2>6. QED
      BY <2>1, <2>4, <2>5, ScreenKept
  <1>4. ASSUME NEW s \in Slots, Measure(s) \/ ReindexProgress(s) PROVE IndInv'
    <2>1. UNCHANGED <<screen, ticks>> /\ \A i : ~Rebuilds(net, s, i)
      BY <1>4 DEF Measure, ReindexProgress, Sent, Rebuilds
    <2>2. \E m : net' = [net EXCEPT ![s] = m]
      BY <1>4 DEF Measure, ReindexProgress, Answer
    <2>3. MovesOther
      BY <2>1, <2>2 DEF MovesOther
    <2>4. QED
      BY <2>1, <2>3, OtherStep
  <1>5. QED
    BY <1>1, <1>2, <1>3, <1>4 DEF Serve

LEMMA KeysKeep ==
  ASSUME IndInv, UserKey
  PROVE  IndInv'
  <1>1. ASSUME NEW t \in Tables, drillTable(t) PROVE IndInv'
    <2>1. Own' /\ Running' = None /\ Running = None
      BY <1>1 DEF drillTable, Own, IsScreen, Running, Open
    <2>2. MovesOther /\ ticks' = ticks
      BY <1>1, IssueIsOther DEF drillTable
    <2>3. QED
      BY <2>1, <2>2, OtherScreenStep
  <1>2. ASSUME NEW i \in Indexes, handleReindexEnter(i) PROVE IndInv'
    <2>1. Open /\ i \in screen.rows
      BY <1>2 DEF handleReindexEnter, OnTop, reindexCandidate
    <2>2. screen' = [screen EXCEPT !.pending = i] /\ ticks' = ticks
      BY <1>2 DEF handleReindexEnter
    <2>3. IsScreen(screen)
      BY <2>1 DEF IndInv, Own
    <2>4. Own' /\ Running' \in {Running, None}
      BY <2>1, <2>2, <2>3, ScreenFields DEF IndInv, Own, Running, Open, IsScreen
    <2>5. QED
      BY <1>2, <2>2, <2>4, OtherScreenStep DEF handleReindexEnter, MovesOther
  <1>3. CASE Cover
    BY <1>3, OtherStep DEF Cover, MovesOther
  <1>4. CASE Back
    <2>1. CASE covered
      BY <1>4, <2>1, OtherStep DEF Back, MovesOther
    <2>2. CASE ~covered
      <3>1. Shape' /\ Running' = None /\ Own'
        BY <1>4, <2>2 DEF Back, IndInv, Shape, Running, Own, Open
      <3>2. QED
        BY <3>1 DEF IndInv, BannerFed, Polled
    <2>3. QED
      BY <2>1, <2>2
  <1>5. CASE Refresh
    BY <1>5, IssueIsOther, OtherStep DEF Refresh
  <1>6. CASE Confirm
    <2>1. PICK s \in Slots : net' = [net EXCEPT ![s] = [kind |-> "rebuild", index |-> screen.pending]]
      BY <1>6 DEF Confirm, Issue
    <2>2. Shape' /\ net'[s] = [kind |-> "rebuild", index |-> screen.pending] /\ ticks' > 0
      BY <1>6, <2>1, ShapeKept DEF Confirm, IndInv, Shape
    <2>3. Open /\ screen.pending # None
      BY <1>6 DEF Confirm, OnTop
    <2>4. Own' /\ (screen' # None => screen'.running = screen.pending)
      <3>1. /\ screen'.table = screen.table /\ screen'.rows = screen.rows
            /\ screen'.pending = None /\ screen'.running = screen.pending
            /\ IsScreen(screen')
        BY <1>6, <2>3 DEF Confirm, Idle, IndInv, Own, IsScreen, Open
      <3>2. QED
        BY <2>3, <3>1 DEF IndInv, Own, Open
    <2>5. ASSUME Running' # None
          PROVE  Running' = screen.pending
      BY <2>4, <2>5 DEF Running, Open
    <2>6. BannerFed'
      <3>1. screen.pending \in Indexes
        BY <2>3 DEF IndInv, Own
      <3>2. [kind |-> "rebuild", index |-> screen.pending] # None
        BY <3>1, NoneAssumption
      <3>3. QED
        BY <2>2, <2>5, <3>2 DEF BannerFed
    <2>7. Polled'
      BY <2>2 DEF Polled
    <2>8. QED
      BY <2>2, <2>4, <2>6, <2>7 DEF IndInv
  <1>7. CASE Cancel
    <2>1. Own' /\ Running' \in {Running, None}
      BY <1>7, ScreenFields DEF Cancel, OnTop, IndInv, Own, IsScreen, Running, Open
    <2>2. QED
      BY <1>7, <2>1, OtherScreenStep DEF Cancel, MovesOther
  <1>8. QED
    BY <1>1, <1>2, <1>3, <1>4, <1>5, <1>6, <1>7 DEF UserKey

(* The tick ends only under a banner that is down.                         *)
LEMMA TickKeeps ==
  ASSUME IndInv, onReindexTick
  PROVE  IndInv'
  <1>1. CASE Running = None
    BY <1>1 DEF onReindexTick, IndInv, Shape, Own, BannerFed, Polled, Running, Open
  <1>2. CASE Running # None
    BY <1>2, IssueIsOther, OtherStep DEF onReindexTick
  <1>3. QED
    BY <1>1, <1>2

LEMMA RepliesKeep ==
  ASSUME IndInv, NEW s \in Slots, Deliver(s)
  PROVE  IndInv'
  <1>1. CASE onPartsLoaded(s)
    <2>1. ticks' = ticks /\ \A i : ~Rebuilds(net, s, i)
      BY <1>1 DEF onPartsLoaded, Drop, Sent, Rebuilds
    <2>2. \E m : net' = [net EXCEPT ![s] = m]
      BY <1>1 DEF onPartsLoaded, Drop, Done, Answer
    <2>3. Own' /\ Running' \in {Running, None}
      <3>1. CASE UNCHANGED screen
        BY <3>1 DEF IndInv, Own, Running, Open
      <3>2. CASE ~UNCHANGED screen
        <4>1. Open /\ IsScreen(screen)
          BY <1>1, <3>2 DEF onPartsLoaded, Drop, IndInv, Own
        <4>2. PICK rows : /\ screen' = [screen EXCEPT !.rows = rows]
                          /\ \A i \in rows : TableOf[i] = screen.table
          BY <1>1, <3>2 DEF onPartsLoaded, Drop
        <4>3. QED
          BY <4>1, <4>2, ScreenFields DEF IndInv, Own, Running, Open, IsScreen
      <3>3. QED
        BY <3>1, <3>2
    <2>4. MovesOther
      BY <2>1, <2>2 DEF MovesOther
    <2>5. QED
      BY <2>1, <2>3, <2>4, OtherScreenStep
  <1>2. CASE onBloatFilled(s)
    <2>1. ticks' = ticks /\ \A i : ~Rebuilds(net, s, i)
      BY <1>2 DEF onBloatFilled, Drop, Sent, Rebuilds
    <2>2. \E m : net' = [net EXCEPT ![s] = m]
      BY <1>2 DEF onBloatFilled, Drop, Done
    <2>3. Own' /\ Running' \in {Running, None}
      <3>1. CASE UNCHANGED screen
        BY <3>1 DEF IndInv, Own, Running, Open
      <3>2. CASE ~UNCHANGED screen
        <4>1. Open /\ IsScreen(screen)
          BY <1>2, <3>2 DEF onBloatFilled, Drop, IndInv, Own
        <4>2. PICK rows : /\ screen' = [screen EXCEPT !.rows = rows]
                          /\ \A i \in rows : TableOf[i] = screen.table
          BY <1>2, <3>2 DEF onBloatFilled, Drop
        <4>3. QED
          BY <4>1, <4>2, ScreenFields DEF IndInv, Own, Running, Open, IsScreen
      <3>3. QED
        BY <3>1, <3>2
    <2>4. MovesOther
      BY <2>1, <2>2 DEF MovesOther
    <2>5. QED
      BY <2>1, <2>3, <2>4, OtherScreenStep
  <1>3. CASE onReindexProgress(s)
    <2>1. ticks' = ticks /\ \A i : ~Rebuilds(net, s, i)
      BY <1>3 DEF onReindexProgress, Drop, Sent, Rebuilds
    <2>2. \E m : net' = [net EXCEPT ![s] = m]
      BY <1>3 DEF onReindexProgress, Drop, Done
    <2>3. Own' /\ Running' \in {Running, None}
      <3>1. CASE UNCHANGED screen
        BY <3>1 DEF IndInv, Own, Running, Open
      <3>2. CASE ~UNCHANGED screen
        <4>1. Open /\ IsScreen(screen)
          BY <1>3, <3>2 DEF onReindexProgress, Drop, IndInv, Own, Running
        <4>2. PICK row, pct : screen' = [screen EXCEPT !.prog = row, !.pctMax = pct]
          BY <1>3, <3>2 DEF onReindexProgress, Drop
        <4>3. screen' = [table |-> screen.table, rows |-> screen.rows, pending |-> screen.pending,
                         running |-> screen.running, prog |-> row, pctMax |-> pct]
          BY <4>1, <4>2 DEF IsScreen
        <4>4. QED
          BY <4>1, <4>3 DEF IndInv, Own, Running, Open, IsScreen
      <3>3. QED
        BY <3>1, <3>2
    <2>4. MovesOther
      BY <2>1, <2>2 DEF MovesOther
    <2>5. QED
      BY <2>1, <2>3, <2>4, OtherScreenStep
  <1>4. CASE onReindexDone(s)
    <2>1. \E m : net' = [net EXCEPT ![s] = m]
      BY <1>4 DEF onReindexDone, Drop, Done, Answer
    <2>2. CASE Open /\ screen.table = TableOf[net[s].index]
      <3>1. ticks' = ticks /\ Own' /\ Running' = None
        BY <1>4, <2>2 DEF onReindexDone, Idle, IndInv, Own, IsScreen, Running, Open
      <3>2. QED
        BY <2>1, <3>1, ShapeKept DEF IndInv, BannerFed, Polled, Shape
    <2>3. CASE ~(Open /\ screen.table = TableOf[net[s].index])
      <3>1. UNCHANGED <<screen, ticks>> /\ Own' /\ Running' = Running
        BY <1>4, <2>3 DEF onReindexDone, Drop, IndInv, Own, Running, Open
      <3>2. ASSUME Running # None PROVE ~Rebuilds(net, s, Running)
        BY <2>3, <3>2 DEF Rebuilds, IndInv, Own, Running
      <3>3. Shape'
        BY <2>1, <3>1, ShapeKept DEF IndInv, Shape
      <3>4. ASSUME Running # None PROVE \E r \in Slots : Rebuilds(net', r, Running)
        BY <2>1, <3>2, <3>4, OthersKeepFeed DEF IndInv, BannerFed, Rebuilds
      <3>5. QED
        BY <3>1, <3>3, <3>4 DEF IndInv, BannerFed, Polled, Rebuilds
    <2>4. QED
      BY <2>2, <2>3
  <1>5. QED
    BY <1>1, <1>2, <1>3, <1>4 DEF Deliver

-----------------------------------------------------------------------------
LEMMA NextKeeps == IndInv /\ [Next]_vars => IndInv'
  <1> SUFFICES ASSUME IndInv, [Next]_vars PROVE IndInv'
    OBVIOUS
  <1>1. CASE UNCHANGED vars
    BY <1>1, OtherStep DEF vars, MovesOther
  <1>2. CASE Server
    BY <1>2, ServerKeeps
  <1>3. CASE UserKey
    BY <1>3, KeysKeep
  <1>4. CASE onReindexTick
    BY <1>4, TickKeeps
  <1>5. ASSUME NEW s \in Slots, Serve(s) \/ Deliver(s) PROVE IndInv'
    BY <1>5, ServerKeeps, RepliesKeep
  <1>6. QED
    BY <1>1, <1>2, <1>3, <1>4, <1>5 DEF Next

(* onReindexDone: a banner always has the rebuild it names, or its end, on *)
(* the way to clear it.                                                    *)
THEOREM BannerIsFed == Spec => []BannerFed
  <1>1. IndInv => BannerFed
    BY DEF IndInv
  <1>2. QED
    BY InitHolds, NextKeeps, <1>1, PTL DEF Spec

(* onReindexTick: the poll of the progress goes on while the banner is up. *)
THEOREM BannerIsPolled == Spec => []Polled
  <1>1. IndInv => Polled
    BY DEF IndInv
  <1>2. QED
    BY InitHolds, NextKeeps, <1>1, PTL DEF Spec

-----------------------------------------------------------------------------
(* The bar.  A phase is a slice of it, and a fraction of the phase stays   *)
(* in its slice, whatever the totals say.                                  *)

LEMMA TwoNumbers ==
  ASSUME NEW a \in Int, NEW b \in Int
  PROVE  /\ Max({a, b}) \in {a, b} /\ Max({a, b}) >= a /\ Max({a, b}) >= b
         /\ Min({a, b}) \in {a, b} /\ Min({a, b}) =< a /\ Min({a, b}) =< b
  <1>1. \E x \in {a, b} : \A y \in {a, b} : x >= y
    <2>1. CASE a >= b
      BY <2>1
    <2>2. CASE ~(a >= b)
      BY <2>2
    <2>3. QED
      BY <2>1, <2>2
  <1>2. \E x \in {a, b} : \A y \in {a, b} : x =< y
    <2>1. CASE a =< b
      BY <2>1
    <2>2. CASE ~(a =< b)
      BY <2>2
    <2>3. QED
      BY <2>1, <2>2
  <1>3. Max({a, b}) \in {a, b} /\ \A y \in {a, b} : Max({a, b}) >= y
    BY <1>1 DEF Max
  <1>4. Min({a, b}) \in {a, b} /\ \A y \in {a, b} : Min({a, b}) =< y
    BY <1>2 DEF Min
  <1>5. QED
    BY <1>3, <1>4

(* k of every total, m of them done: at most k.                            *)
LEMMA PartOfWhole ==
  ASSUME NEW k \in Nat, NEW m \in Nat, NEW t \in Nat \ {0}, m =< t
  PROVE  (k * m) \div t \in 0..k
  <1>1. k * m =< k * t /\ k * m \in Nat
    BY SMT
  <1>2. PICK x \in Nat : x = k * m
    BY <1>1
  <1>3. x =< k * t
    BY <1>1, <1>2
  <1>4. x \div t \in Int /\ x \div t >= 0 /\ t * (x \div t) =< x
    BY SMT
  <1>5. PICK q \in Nat : q = x \div t
    BY <1>4
  <1>6. t * q =< t * k
    BY <1>3, <1>4, <1>5
  <1>7. q =< k
    <2>1. SUFFICES ASSUME q >= k + 1 PROVE FALSE
      BY <1>5
    <2>2. t * q >= t * (k + 1)
      BY <2>1, SMT
    <2>3. t * (k + 1) = t * k + t
      BY SMT
    <2>4. QED
      BY <1>6, <2>2, <2>3
  <1>8. QED
    BY <1>2, <1>5, <1>7

LEMMA PointInSlice ==
  ASSUME NEW span, span[1] \in Nat, span[2] \in Nat, span[1] =< span[2],
         NEW done \in Nat, NEW total \in Nat
  PROVE  spanPoint(span, done, total) \in (100 * span[1])..(100 * span[2])
  <1>1. CASE total = 0
    BY <1>1 DEF spanPoint
  <1>2. CASE total # 0
    <2>1. PICK k \in Nat : k = 100 * (span[2] - span[1])
      OBVIOUS
    <2>2. PICK m \in Nat : m = Min({done, total}) /\ m =< total
      <3>1. done \in Int /\ total \in Int
        OBVIOUS
      <3>2. Min({done, total}) \in {done, total} /\ Min({done, total}) =< total
        BY <3>1, TwoNumbers
      <3>3. QED
        BY <3>2
    <2>3. (k * m) \div total \in 0..k
      BY <1>2, <2>2, PartOfWhole
    <2>4. spanPoint(span, done, total) = 100 * span[1] + (k * m) \div total
      BY <1>2, <2>1, <2>2 DEF spanPoint
    <2>5. QED
      BY <2>1, <2>3, <2>4
  <1>3. QED
    BY <1>1, <1>2

LEMMA SlicesInBar ==
  ASSUME NEW p \in DOMAIN reindexPhaseSpan
  PROVE  /\ reindexPhaseSpan[p] # <<>>
         /\ reindexPhaseSpan[p][1] \in Nat /\ reindexPhaseSpan[p][2] \in 0..100
         /\ reindexPhaseSpan[p][1] =< reindexPhaseSpan[p][2]
  BY DEF reindexPhaseSpan

LEMMA PercentsAreInts == Percents \subseteq Int
  <1>1. -1 \in Int
    OBVIOUS
  <1>2. 0..10000 \subseteq Int
    OBVIOUS
  <1>3. QED
    BY <1>1, <1>2 DEF Percents, Unmapped

LEMMA PctInBar ==
  ASSUME NEW row, row.done \in Nat, row.total \in Nat
  PROVE  ReindexPct(row) \in Percents
  <1> DEFINE span == resolvePhaseSpan(reindexPhaseSpan, row.phase)
  <1>1. CASE span = <<>>
    BY <1>1 DEF ReindexPct, InSpans, Unmapped, Percents
  <1>2. CASE span # <<>>
    <2>1. PICK p \in DOMAIN reindexPhaseSpan : span = reindexPhaseSpan[p]
      BY <1>2 DEF resolvePhaseSpan
    <2>2. PICK lo \in Nat, hi \in 0..100 : lo = span[1] /\ hi = span[2] /\ lo =< hi
      BY <2>1, SlicesInBar
    <2>3. spanPoint(span, row.done, row.total) \in (100 * lo)..(100 * hi)
      <3> HIDE DEF span
      <3>1. span[1] \in Nat /\ span[2] \in Nat /\ span[1] =< span[2]
        BY <2>2
      <3>2. QED
        BY <2>2, <3>1, PointInSlice
    <2>4. ReindexPct(row) = spanPoint(span, row.done, row.total)
      BY <1>2 DEF ReindexPct, InSpans
    <2>5. ReindexPct(row) \in (100 * lo)..(100 * hi)
      BY <2>3, <2>4
    <2>6. (100 * lo)..(100 * hi) \subseteq Percents
      BY DEF Percents, Unmapped
    <2>7. QED
      BY <2>5, <2>6
  <1>3. QED
    BY <1>1, <1>2

-----------------------------------------------------------------------------
(* A rebuild is armed only under a banner that is down.                    *)
Armed == Open => (screen.pending # None => screen.running = None)

BarInv == TypeOK /\ Armed

LEMMA BarInit == Init => BarInv
  <1>1. Init => Armed
    BY DEF Init, Armed, Open
  <1>2. Init => TypeOK
    <2>1. 0 \in 0..MaxTicks
      BY TablesAssumption
    <2>2. QED
      BY <2>1 DEF Init, TypeOK
  <1>3. QED
    BY <1>1, <1>2 DEF BarInv

(* The messages by kind.                                                   *)
LEMMA MessageFields ==
  ASSUME TypeOK, NEW s \in Slots, net[s] # None
  PROVE  /\ net[s] \in Messages
         /\ net[s].kind \in {"parts", "scan", "poll", "bloat", "progress"} => net[s].table \in Tables
         /\ net[s].kind = "bloat" => net[s].found \in (SUBSET Indexes) \cup {None}
         /\ net[s].kind = "progress" => net[s].row \in Row \cup {None}
         /\ net[s].kind \in {"rebuild", "done"} => net[s].index \in Indexes
  BY DEF TypeOK, Messages

LEMMA SlotTyped ==
  ASSUME TypeOK, NEW s \in Slots, NEW m \in Messages \cup {None}, net' = [net EXCEPT ![s] = m]
  PROVE  net' \in [Slots -> Messages \cup {None}]
  BY DEF TypeOK

LEMMA IssueTyped ==
  ASSUME TypeOK, NEW m \in Messages, Issue(m)
  PROVE  net' \in [Slots -> Messages \cup {None}]
  BY SlotTyped DEF Issue

(* What a step on a rebuild, its progress or its end may make of a screen. *)
LEMMA ScreenTyped ==
  ASSUME NEW x \in Screen
  PROVE  /\ \A v \in SUBSET Indexes : [x EXCEPT !.rows = v] \in Screen
         /\ \A v \in Indexes \cup {None} : [x EXCEPT !.pending = v] \in Screen
         /\ \A v \in Row \cup {None}, n \in Percents : [x EXCEPT !.prog = v, !.pctMax = n] \in Screen
         /\ \A v \in Indexes \cup {None} :
              [Idle(x) EXCEPT !.pending = None, !.running = v] \in Screen
         /\ Idle(x) \in Screen
  <1>1. \A v \in SUBSET Indexes : [x EXCEPT !.rows = v] \in Screen
    BY DEF Screen
  <1>2. \A v \in Indexes \cup {None} : [x EXCEPT !.pending = v] \in Screen
    BY DEF Screen
  <1>3. \A v \in Row \cup {None}, n \in Percents : [x EXCEPT !.prog = v, !.pctMax = n] \in Screen
    BY DEF Screen
  <1>4. Idle(x) \in Screen
    <2>1. 0 \in Percents
      BY DEF Percents, Unmapped
    <2>2. QED
      BY <2>1 DEF Screen, Idle
  <1>5. \A y \in Screen, v \in Indexes \cup {None} :
          [y EXCEPT !.pending = None, !.running = v] \in Screen
    BY DEF Screen
  <1>6. QED
    BY <1>1, <1>2, <1>3, <1>4, <1>5

LEMMA ServerTyped ==
  ASSUME TypeOK, Server \/ \E s \in Slots : Serve(s)
  PROVE  TypeOK'
  <1>1. ASSUME NEW i \in Indexes, Bloat(i) PROVE TypeOK'
    BY <1>1 DEF Bloat, TypeOK
  <1>2. ASSUME NEW t \in Tables, Advance(t) PROVE TypeOK'
    <2>1. build[t] \in Build
      BY <1>2 DEF Advance, TypeOK
    <2>2. build' \in [Tables -> Build \cup {None}]
      <3>1. CASE build[t].done < Units /\ build' = [build EXCEPT ![t].done = @ + 1]
        <4>1. [build[t] EXCEPT !.done = @ + 1] \in Build
          BY <2>1, <3>1, TablesAssumption DEF Build
        <4>2. QED
          BY <3>1, <4>1 DEF TypeOK
      <3>2. CASE build[t].phase < Len(Phases)
                   /\ build' = [build EXCEPT ![t].phase = @ + 1, ![t].done = 0]
        <4>1. [build[t] EXCEPT !.phase = @ + 1, !.done = 0] \in Build
          <5>1. build[t].phase + 1 \in DOMAIN Phases /\ 0 \in 0..Units
            BY <2>1, <3>2, TablesAssumption DEF Build
          <5>2. QED
            BY <2>1, <5>1 DEF Build
        <4>2. QED
          BY <3>2, <4>1 DEF TypeOK
      <3>3. QED
        BY <1>2, <3>1, <3>2 DEF Advance
    <2>3. QED
      BY <1>2, <2>2 DEF Advance, TypeOK
  <1>3. ASSUME NEW s \in Slots, StartBuild(s) PROVE TypeOK'
    <2>1. TableOf[net[s].index] \in Tables
      BY <1>3, MessageFields, TablesAssumption DEF StartBuild, Sent
    <2>2. [by |-> s, phase |-> 1, done |-> 0] \in Build
      BY TablesAssumption DEF Build
    <2>3. QED
      BY <1>3, <2>1, <2>2 DEF StartBuild, TypeOK
  <1>4. ASSUME NEW s \in Slots, EndBuild(s) PROVE TypeOK'
    <2>1. net[s].index \in Indexes /\ TableOf[net[s].index] \in Tables
      BY <1>4, MessageFields, TablesAssumption DEF EndBuild, Sent
    <2>2. PICK ok \in BOOLEAN :
            net' = [net EXCEPT ![s] = [kind |-> "done", index |-> net[s].index, ok |-> ok]]
      BY <1>4 DEF EndBuild, Answer
    <2>3. net' \in [Slots -> Messages \cup {None}]
      <3>1. [kind |-> "done", index |-> net[s].index, ok |-> ok] \in Messages
        BY <2>1 DEF Messages
      <3>2. QED
        BY <2>2, <3>1, SlotTyped
    <2>4. build' \in [Tables -> Build \cup {None}] /\ bloated' \subseteq Indexes
      BY <1>4, <2>1 DEF EndBuild, TypeOK
    <2>5. QED
      BY <1>4, <2>3, <2>4 DEF EndBuild, TypeOK
  <1>5. ASSUME NEW s \in Slots, Measure(s) PROVE TypeOK'
    <2>1. PICK found \in {bloated, None} :
            net' = [net EXCEPT ![s] = [kind |-> "bloat", table |-> net[s].table, found |-> found]]
      BY <1>5 DEF Measure, Answer
    <2>2. net[s].table \in Tables
      BY <1>5, MessageFields DEF Measure, Sent
    <2>3. [kind |-> "bloat", table |-> net[s].table, found |-> found] \in Messages
      <3>1. found \in (SUBSET Indexes) \cup {None}
        BY <2>1 DEF TypeOK
      <3>2. QED
        BY <2>2, <3>1 DEF Messages
    <2>4. QED
      BY <1>5, <2>1, <2>3, SlotTyped DEF Measure, TypeOK
  <1>6. ASSUME NEW s \in Slots, ReindexProgress(s) PROVE TypeOK'
    <2>1. net[s].table \in Tables
      BY <1>6, MessageFields DEF ReindexProgress, Sent
    <2>2. PICK row \in Row \cup {None} :
            net' = [net EXCEPT ![s] = [kind |-> "progress", table |-> net[s].table, row |-> row]]
      <3>1. ASSUME build[net[s].table] # None, NEW n \in 0..Units
            PROVE  [phase |-> Phases[build[net[s].table].phase],
                    done |-> build[net[s].table].done, total |-> n] \in Row
        BY <2>1, <3>1 DEF TypeOK, Build, Row
      <3>2. QED
        BY <1>6, <3>1 DEF ReindexProgress, Answer
    <2>3. [kind |-> "progress", table |-> net[s].table, row |-> row] \in Messages
      BY <2>1, <2>2 DEF Messages
    <2>4. QED
      BY <1>6, <2>2, <2>3, SlotTyped DEF ReindexProgress, TypeOK
  <1>7. QED
    BY <1>1, <1>2, <1>3, <1>4, <1>5, <1>6 DEF Server, Serve

LEMMA KeysTyped ==
  ASSUME TypeOK, UserKey \/ onReindexTick
  PROVE  TypeOK'
  <1>1. \A t \in Tables : Load(t) \in Messages /\ [kind |-> "poll", table |-> t] \in Messages
    BY DEF Load, Messages
  <1>2. Open => screen \in Screen /\ screen.table \in Tables
    BY DEF Open, TypeOK, Screen
  <1>3. ASSUME NEW t \in Tables, drillTable(t) PROVE TypeOK'
    <2>1. screen' \in Screen
      BY <1>3 DEF drillTable, Screen, Percents
    <2>2. net' \in [Slots -> Messages \cup {None}]
      BY <1>1, <1>3, IssueTyped DEF drillTable
    <2>3. QED
      BY <1>3, <2>1, <2>2 DEF drillTable, TypeOK
  <1>4. ASSUME NEW i \in Indexes, handleReindexEnter(i) PROVE TypeOK'
    <2>1. screen' \in Screen
      BY <1>2, <1>4, ScreenTyped DEF handleReindexEnter, OnTop
    <2>2. QED
      BY <1>4, <2>1 DEF handleReindexEnter, TypeOK
  <1>5. CASE Cover
    BY <1>5 DEF Cover, TypeOK
  <1>6. CASE Back
    BY <1>6 DEF Back, TypeOK
  <1>7. CASE Refresh
    <2>1. net' \in [Slots -> Messages \cup {None}]
      BY <1>1, <1>2, <1>7, IssueTyped DEF Refresh, OnTop
    <2>2. QED
      BY <1>7, <2>1 DEF Refresh, TypeOK
  <1>8. CASE Confirm
    <2>1. Open /\ screen.pending \in Indexes
      BY <1>2, <1>8 DEF Confirm, OnTop, Screen
    <2>2. screen' \in Screen
      BY <1>2, <1>8, <2>1, ScreenTyped DEF Confirm
    <2>3. [kind |-> "rebuild", index |-> screen.pending] \in Messages
      BY <2>1 DEF Messages
    <2>4. net' \in [Slots -> Messages \cup {None}]
      BY <1>8, <2>3, IssueTyped DEF Confirm
    <2>5. ticks' \in 0..MaxTicks
      BY <1>8, TablesAssumption DEF Confirm, TypeOK
    <2>6. QED
      BY <1>8, <2>2, <2>4, <2>5 DEF Confirm, TypeOK
  <1>9. CASE Cancel
    <2>1. screen' \in Screen
      BY <1>2, <1>9, ScreenTyped DEF Cancel, OnTop
    <2>2. QED
      BY <1>9, <2>1 DEF Cancel, TypeOK
  <1>10. CASE onReindexTick
    <2>1. CASE Running = None
      BY <1>10, <2>1, TablesAssumption DEF onReindexTick, TypeOK
    <2>2. CASE Running # None
      <3>1. net' \in [Slots -> Messages \cup {None}]
        BY <1>1, <1>2, <1>10, <2>2, IssueTyped DEF onReindexTick, Running
      <3>2. QED
        BY <1>10, <2>2, <3>1 DEF onReindexTick, TypeOK
    <2>3. QED
      BY <2>1, <2>2
  <1>11. QED
    BY <1>3, <1>4, <1>5, <1>6, <1>7, <1>8, <1>9, <1>10 DEF UserKey

(* The percent an answer brings.                                           *)
LEMMA ShownTyped ==
  ASSUME TypeOK, Open, NEW s \in Slots, Sent(s, "progress")
  PROVE  LET shown == IF net[s].row = None THEN screen.pctMax
                      ELSE Max({screen.pctMax, ReindexPct(net[s].row)})
         IN  shown \in Percents /\ shown >= screen.pctMax
  <1>1. net[s].row \in Row \cup {None}
    BY MessageFields DEF Sent
  <1>2. screen.pctMax \in Percents
    BY DEF TypeOK, Open, Screen
  <1>3. CASE net[s].row = None
    <2>1. \A n \in Percents : n >= n
      BY PercentsAreInts
    <2>2. QED
      BY <1>2, <1>3, <2>1
  <1>4. CASE net[s].row # None
    <2>1. net[s].row.done \in Nat /\ net[s].row.total \in Nat
      BY <1>1, <1>4, TablesAssumption DEF Row
    <2>2. ReindexPct(net[s].row) \in Percents
      BY <2>1, PctInBar
    <2>3. PICK a \in Percents, b \in Percents : a = screen.pctMax /\ b = ReindexPct(net[s].row)
      BY <1>2, <2>2
    <2>4. Max({a, b}) \in {a, b} /\ Max({a, b}) >= a
      BY TwoNumbers, PercentsAreInts
    <2>5. QED
      BY <1>4, <2>3, <2>4
  <1>5. QED
    BY <1>3, <1>4

LEMMA RepliesTyped ==
  ASSUME TypeOK, NEW s \in Slots, Deliver(s)
  PROVE  TypeOK'
  <1>1. Open => screen \in Screen /\ screen.table \in Tables
    BY DEF Open, TypeOK, Screen
  <1>2. ASSUME Done(s) PROVE net' \in [Slots -> Messages \cup {None}]
    BY <1>2, SlotTyped DEF Done
  <1>3. \A t \in Tables : Load(t) \in Messages /\ [kind |-> "scan", table |-> t] \in Messages
    BY DEF Load, Messages
  <1>4. ASSUME NEW m \in Messages, Answer(s, m) PROVE net' \in [Slots -> Messages \cup {None}]
    BY <1>4, SlotTyped DEF Answer
  <1>5. CASE onPartsLoaded(s)
    <2>1. net[s].table \in Tables
      BY <1>5, MessageFields DEF onPartsLoaded, Sent
    <2>2. net' \in [Slots -> Messages \cup {None}]
      BY <1>2, <1>3, <1>4, <1>5, <2>1 DEF onPartsLoaded, Drop
    <2>3. screen' \in Screen \cup {None}
      <3>1. CASE UNCHANGED screen
        BY <3>1 DEF TypeOK
      <3>2. CASE ~UNCHANGED screen
        <4>1. Open /\ screen' = [screen EXCEPT !.rows = {}]
          BY <1>5, <3>2 DEF onPartsLoaded, Drop
        <4>2. QED
          BY <1>1, <4>1, ScreenTyped
      <3>3. QED
        BY <3>1, <3>2
    <2>4. QED
      BY <1>5, <2>2, <2>3 DEF onPartsLoaded, Drop, TypeOK
  <1>6. CASE onBloatFilled(s)
    <2>1. net' \in [Slots -> Messages \cup {None}]
      BY <1>2, <1>6 DEF onBloatFilled, Drop
    <2>2. screen' \in Screen \cup {None}
      <3>1. CASE UNCHANGED screen
        BY <3>1 DEF TypeOK
      <3>2. CASE ~UNCHANGED screen
        <4>1. /\ Open /\ net[s].found # None
              /\ screen' = [screen EXCEPT !.rows = {i \in net[s].found : TableOf[i] = screen.table}]
          BY <1>6, <3>2 DEF onBloatFilled, Drop
        <4>2. net[s].found \in SUBSET Indexes
          <5>1. net[s] # None /\ net[s].kind = "bloat"
            BY <1>6 DEF onBloatFilled, Sent
          <5>2. net[s].found \in (SUBSET Indexes) \cup {None}
            BY <5>1, MessageFields
          <5>3. QED
            BY <4>1, <5>2
        <4>3. {i \in net[s].found : TableOf[i] = screen.table} \in SUBSET Indexes
          BY <4>2
        <4>4. QED
          BY <1>1, <4>1, <4>3, ScreenTyped
      <3>3. QED
        BY <3>1, <3>2
    <2>3. QED
      BY <1>6, <2>1, <2>2 DEF onBloatFilled, Drop, TypeOK
  <1>7. CASE onReindexProgress(s)
    <2>1. net' \in [Slots -> Messages \cup {None}]
      BY <1>2, <1>7 DEF onReindexProgress, Drop
    <2>2. screen' \in Screen \cup {None}
      <3>1. CASE UNCHANGED screen
        BY <3>1 DEF TypeOK
      <3>2. CASE ~UNCHANGED screen
        <4>1. Open /\ Sent(s, "progress")
          BY <1>7, <3>2 DEF onReindexProgress, Drop, Running
        <4>2. PICK n \in Percents : screen' = [screen EXCEPT !.prog = net[s].row, !.pctMax = n]
          BY <1>7, <3>2, <4>1, ShownTyped DEF onReindexProgress, Drop
        <4>3. net[s].row \in Row \cup {None}
          BY <4>1, MessageFields DEF Sent
        <4>4. QED
          BY <1>1, <4>1, <4>2, <4>3, ScreenTyped
      <3>3. QED
        BY <3>1, <3>2
    <2>3. QED
      BY <1>7, <2>1, <2>2 DEF onReindexProgress, Drop, TypeOK
  <1>8. CASE onReindexDone(s)
    <2>1. net' \in [Slots -> Messages \cup {None}]
      BY <1>1, <1>2, <1>3, <1>4, <1>8 DEF onReindexDone, Drop
    <2>2. screen' \in Screen \cup {None}
      BY <1>1, <1>8, ScreenTyped DEF onReindexDone, Drop, TypeOK
    <2>3. QED
      BY <1>8, <2>1, <2>2 DEF onReindexDone, Drop, TypeOK
  <1>9. QED
    BY <1>5, <1>6, <1>7, <1>8 DEF Deliver

-----------------------------------------------------------------------------
(* Keys refuse to arm under a banner, and only a confirmation raises one.  *)
LEMMA ArmedKept ==
  ASSUME BarInv, [Next]_vars
  PROVE  Armed'
  <1>1. screen # None => screen \in Screen
    BY DEF BarInv, TypeOK
  <1>2. CASE UNCHANGED screen
    BY <1>2 DEF BarInv, Armed, Open
  <1>3. ASSUME NEW t \in Tables, drillTable(t) PROVE Armed'
    BY <1>3 DEF drillTable, Armed, Open
  <1>4. ASSUME NEW i \in Indexes, handleReindexEnter(i) PROVE Armed'
    BY <1>1, <1>4 DEF handleReindexEnter, OnTop, Open, reindexCandidate, Armed, Screen
  <1>5. CASE Back
    BY <1>5 DEF Back, BarInv, Armed, Open
  <1>6. CASE Confirm \/ Cancel
    BY <1>1, <1>6 DEF Confirm, Cancel, OnTop, Open, Idle, Armed, Screen
  <1>7. ASSUME NEW s \in Slots, Deliver(s) PROVE Armed'
    <2>1. CASE UNCHANGED screen
      BY <1>2, <2>1
    <2>2. CASE ~UNCHANGED screen
      <3>1. Open
        BY <1>7, <2>2 DEF Deliver, onPartsLoaded, onBloatFilled, onReindexProgress,
                          onReindexDone, Drop, Running
      <3>2. \/ \E v : screen' = [screen EXCEPT !.rows = v]
            \/ \E v, n : screen' = [screen EXCEPT !.prog = v, !.pctMax = n]
            \/ screen' = Idle(screen)
        BY <1>7, <2>2 DEF Deliver, onPartsLoaded, onBloatFilled, onReindexProgress,
                          onReindexDone, Drop
      <3>3. QED
        BY <1>1, <3>1, <3>2 DEF Open, Idle, Screen, BarInv, Armed
    <2>3. QED
      BY <2>1, <2>2
  <1>8. QED
    BY <1>2, <1>3, <1>4, <1>5, <1>6, <1>7
       DEF Next, vars, Server, Bloat, Advance, UserKey, Cover, Refresh, onReindexTick,
           Serve, StartBuild, EndBuild, Measure, ReindexProgress

LEMMA BarKept == BarInv /\ [Next]_vars => BarInv'
  <1> SUFFICES ASSUME BarInv, [Next]_vars PROVE BarInv'
    OBVIOUS
  <1>1. TypeOK
    BY DEF BarInv
  <1>2. TypeOK'
    <2>1. CASE UNCHANGED vars
      BY <1>1, <2>1 DEF vars, TypeOK
    <2>2. CASE Next
      BY <1>1, <2>2, ServerTyped, KeysTyped, RepliesTyped DEF Next
    <2>3. QED
      BY <2>1, <2>2
  <1>3. QED
    BY <1>2, ArmedKept DEF BarInv

(* The one step that moves the bar of a banner that stays is an answer.    *)
LEMMA StepForward ==
  ASSUME BarInv, [Next]_vars, Running # None, screen' # None, Running' = Running
  PROVE  screen'.pctMax >= screen.pctMax
  <1>1. Open /\ screen \in Screen /\ screen.running # None /\ screen.pctMax \in Int
    <2>1. Open /\ screen.running # None
      BY DEF Running
    <2>2. screen \in Screen
      BY <2>1 DEF BarInv, TypeOK, Open
    <2>3. screen.pctMax \in Int
      BY <2>2, PercentsAreInts DEF Screen
    <2>4. QED
      BY <2>1, <2>2, <2>3
  <1>2. screen.pending = None
    BY <1>1 DEF BarInv, Armed
  <1>3. CASE UNCHANGED screen
    BY <1>1, <1>3
  <1>4. ASSUME NEW i \in Indexes, handleReindexEnter(i) PROVE FALSE
    BY <1>1, <1>4 DEF handleReindexEnter, reindexCandidate
  <1>5. CASE Back
    BY <1>3, <1>5 DEF Back
  <1>6. ASSUME NEW s \in Slots, Deliver(s), ~UNCHANGED screen
        PROVE  screen'.pctMax >= screen.pctMax
    <2>1. CASE onPartsLoaded(s) \/ onBloatFilled(s)
      <3>1. PICK v : screen' = [screen EXCEPT !.rows = v]
        BY <1>6, <2>1 DEF onPartsLoaded, onBloatFilled, Drop
      <3>2. QED
        BY <1>1, <3>1 DEF Screen
    <2>2. CASE onReindexProgress(s)
      <3>1. Sent(s, "progress")
        BY <2>2 DEF onReindexProgress
      <3>2. PICK v, n : n >= screen.pctMax /\ screen' = [screen EXCEPT !.prog = v, !.pctMax = n]
        BY <1>1, <1>6, <2>2, <3>1, ShownTyped DEF onReindexProgress, Drop, BarInv
      <3>3. QED
        BY <1>1, <3>2 DEF Screen
    <2>3. CASE onReindexDone(s)
      <3>1. screen' = Idle(screen)
        BY <1>6, <2>3 DEF onReindexDone, Drop
      <3>2. QED
        BY <1>1, <3>1 DEF Idle, Screen, Running, Open
    <2>4. QED
      BY <1>6, <2>1, <2>2, <2>3 DEF Deliver
  <1>7. QED
    BY <1>1, <1>2, <1>3, <1>4, <1>5, <1>6
       DEF Next, vars, Server, Bloat, Advance, UserKey, drillTable, Cover, Refresh, Confirm, Cancel,
           onReindexTick, Serve, StartBuild, EndBuild, Measure, ReindexProgress, OnTop

(* Whatever the totals say and however the polls land, a bar is a percent: *)
(* spanPoint caps what is done by the total.                               *)
THEOREM BarIsPercent == Spec => []TypeOK
  <1>1. BarInv => TypeOK
    BY DEF BarInv
  <1>2. QED
    BY BarInit, BarKept, <1>1, PTL DEF Spec

(* onReindexProgress: the bar of one rebuild never moves back.             *)
THEOREM BarMovesForward == Spec => BarForward
  <1>1. BarInv /\ [Next]_vars =>
          [Running # None /\ screen' # None /\ Running' = Running
             => screen'.pctMax >= screen.pctMax]_vars
    BY StepForward
  <1>2. QED
    BY BarInit, BarKept, <1>1, PTL DEF Spec, BarForward
=============================================================================
