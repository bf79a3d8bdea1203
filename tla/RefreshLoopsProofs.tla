-------------------------- MODULE RefreshLoopsProofs --------------------------
(***************************************************************************)
(* Each refresh loop has at most one tick out, and no spinner is abandoned *)
(* while no level is on the stack twice, for any set of screens, any depth *)
(* of the stack and any number of loads in flight.                         *)
(***************************************************************************)
EXTENDS RefreshLoops, SequenceTheorems, WellFoundedInduction, TLAPS

(* The loops' variables alone: what the stack holds decides when a tick is *)
(* armed and when it ends, never how many there are.                       *)
LoopTypes ==
  /\ on \in [Loops -> BOOLEAN] /\ ticking \in [Loops -> BOOLEAN]
  /\ ticks \in [Loops -> Nat]

IndInv == LoopTypes /\ OneTick

LoopsStay == UNCHANGED <<ticking, ticks>>

-----------------------------------------------------------------------------
(* Entering a screen arms only loops that have no tick.                    *)
LEMMA ArmKeeps ==
  ASSUME IndInv, NEW k, Arm(k), UNCHANGED on
  PROVE  IndInv'
  BY DEF IndInv, LoopTypes, OneTick, Arm

(* loadCurrent arms the loop of the screen it loads, or none.              *)
LEMMA LoadCurrentArms ==
  ASSUME NEW stk, NEW before, LoadCurrent(stk, before)
  PROVE  LoopsStay \/ \E k : Arm(k)
  BY DEF LoadCurrent, LoopsStay

(* A step that leaves the flags and the ticks alone keeps the invariant.   *)
LEMMA StayKeeps ==
  ASSUME IndInv, LoopsStay, UNCHANGED on
  PROVE  IndInv'
  BY DEF IndInv, LoopTypes, OneTick, LoopsStay

(* So a step that ends in loadCurrent keeps it.                            *)
LEMMA LoadCurrentKeeps ==
  ASSUME IndInv, NEW stk, NEW before, LoadCurrent(stk, before), UNCHANGED on
  PROVE  IndInv'
  <1>1. CASE LoopsStay
    BY <1>1, StayKeeps
  <1>2. ASSUME NEW k, Arm(k) PROVE IndInv'
    BY <1>2, ArmKeeps
  <1>3. QED
    BY <1>1, <1>2, LoadCurrentArms

-----------------------------------------------------------------------------
(* Keys that open, leave or reload a screen.                               *)
LEMMA NavigationKeeps ==
  ASSUME IndInv,
         \/ \E k \in Kinds : DrillIn(k) \/ JumpKey(k) \/ OpenWithOwnLoad(k)
         \/ OpenTopQueries \/ OpenWaitProfile \/ Refresh \/ Back \/ JumpToLogEntry \/ PickNow
  PROVE  IndInv'
  <1>1. ASSUME NEW k \in Kinds, DrillIn(k) PROVE IndInv'
    BY <1>1, LoadCurrentKeeps DEF DrillIn
  <1>2. ASSUME NEW k \in Kinds, JumpKey(k) PROVE IndInv'
    BY <1>2, LoadCurrentKeeps DEF JumpKey
  <1>3. ASSUME NEW k \in Kinds, OpenWithOwnLoad(k) PROVE IndInv'
    BY <1>3, StayKeeps DEF OpenWithOwnLoad, LoopsStay
  <1>4. CASE OpenTopQueries
    BY <1>4, LoadCurrentKeeps DEF OpenTopQueries
  <1>5. CASE Refresh
    BY <1>5, LoadCurrentKeeps DEF Refresh
  <1>6. CASE PickNow
    BY <1>6, LoadCurrentKeeps DEF PickNow
  <1>7. CASE OpenWaitProfile \/ Back \/ JumpToLogEntry
    BY <1>7, StayKeeps DEF OpenWaitProfile, Back, JumpToLogEntry, LoopsStay
  <1>8. QED
    BY <1>1, <1>2, <1>3, <1>4, <1>5, <1>6, <1>7

(* t starts a loop only when its flag is down.                             *)
LEMMA CycleKeeps ==
  ASSUME IndInv, NEW l \in Loops, CycleRefresh(l)
  PROVE  IndInv'
  <1>1. PICK c \in BOOLEAN :
          /\ on' = [on EXCEPT ![l] = c]
          /\ IF c /\ ~ticking[l]
             THEN /\ ticking' = [ticking EXCEPT ![l] = TRUE]
                  /\ ticks' = [ticks EXCEPT ![l] = @ + 1]
             ELSE UNCHANGED <<ticking, ticks>>
    BY DEF CycleRefresh
  <1>2. CASE c /\ ~ticking[l]
    <2>1. ticks[l] = 0
      BY <1>2 DEF IndInv, OneTick
    <2>2. ticking' = [ticking EXCEPT ![l] = TRUE] /\ ticks' = [ticks EXCEPT ![l] = 1]
      BY <1>1, <1>2, <2>1
    <2>3. QED
      BY <1>1, <2>2 DEF IndInv, LoopTypes, OneTick
  <1>3. CASE ~(c /\ ~ticking[l])
    BY <1>1, <1>3 DEF IndInv, LoopTypes, OneTick
  <1>4. QED
    BY <1>2, <1>3

(* A tick goes on as itself, or ends and takes the flag with it.           *)
LEMMA TickKeeps ==
  ASSUME IndInv, NEW l \in Loops, onTick(l)
  PROVE  IndInv'
  <1>1. CASE GoesOn(l)
    BY <1>1, StayKeeps DEF onTick, LoopsStay
  <1>2. CASE ~GoesOn(l)
    <2>1. ticking[l] /\ ticks[l] = 1
      BY DEF onTick, IndInv, OneTick
    <2>2. /\ on' = on /\ ticking' = [ticking EXCEPT ![l] = FALSE]
          /\ ticks' = [ticks EXCEPT ![l] = 0]
      BY <1>2, <2>1 DEF onTick
    <2>3. QED
      BY <2>2 DEF IndInv, LoopTypes, OneTick
  <1>3. QED
    BY <1>1, <1>2

(* A reply arms a loop only through the loadCurrent of a fast path.        *)
LEMMA ReplyKeeps ==
  ASSUME IndInv, NEW k \in Kinds, Reply(k)
  PROVE  IndInv'
  <1>1. CASE Land(k)
    BY <1>1, StayKeeps DEF Land, LoopsStay
  <1>2. CASE FastPath(k)
    BY <1>2, LoadCurrentKeeps DEF FastPath
  <1>3. CASE onActivityStatement
    BY <1>3, StayKeeps DEF onActivityStatement, LoopsStay
  <1>4. QED
    BY <1>1, <1>2, <1>3 DEF Reply

-----------------------------------------------------------------------------
(* No loop has a tick when the program starts.                             *)
LEMMA InitHolds == Init => IndInv
  <1> SUFFICES ASSUME Init PROVE IndInv
    OBVIOUS
  <1>1. on \in [Loops -> BOOLEAN]
    BY DEF Init, Loops
  <1>2. ticking = [l \in Loops |-> FALSE] /\ ticks = [l \in Loops |-> 0]
    BY DEF Init
  <1>3. QED
    BY <1>1, <1>2 DEF IndInv, LoopTypes, OneTick

(* The invariant is inductive.                                             *)
LEMMA NextKeeps == IndInv /\ [Next]_vars => IndInv'
  <1> SUFFICES ASSUME IndInv, [Next]_vars PROVE IndInv'
    OBVIOUS
  <1>1. CASE UNCHANGED vars
    BY <1>1, StayKeeps DEF vars, LoopsStay
  <1>2. CASE UserKey
    BY <1>2, NavigationKeeps, CycleKeeps DEF UserKey
  <1>3. ASSUME NEW l \in Loops, onTick(l) PROVE IndInv'
    BY <1>3, TickKeeps
  <1>4. ASSUME NEW k \in Kinds, Reply(k) PROVE IndInv'
    BY <1>4, ReplyKeeps
  <1>5. QED
    BY <1>1, <1>2, <1>3, <1>4 DEF Next

(* However screens are left and entered and cadences cycled, a loop never  *)
(* has two ticks out, and its flag is up exactly while it has one.         *)
THEOREM AtMostOneTick == Spec => []OneTick
  <1>1. IndInv => OneTick
    BY DEF IndInv
  <1>2. QED
    BY InitHolds, NextKeeps, <1>1, PTL DEF Spec

-----------------------------------------------------------------------------
(* The stack and the loads in flight.                                      *)
StackTypes == /\ stack \in Seq(Screen) /\ stack # <<>>
              /\ loads \in [Kinds -> Nat]

(* Every kind of screen has a level, itself a kind.                        *)
LEMMA LevelTypes ==
  /\ \A k \in Kinds : Level(k) \in Kinds
  /\ "describe" \in Kinds /\ "samples" \in Kinds /\ "detail" \in Kinds
  <1>1. "snapshots" \in Kinds
    BY DEF Kinds
  <1>2. "describe" \in Kinds
    BY DEF Kinds
  <1>3. "samples" \in Kinds
    BY DEF Kinds
  <1>4. "detail" \in Kinds
    BY DEF Kinds
  <1>5. \A k \in Kinds : Level(k) \in Kinds
    BY <1>1 DEF Level
  <1>6. QED
    BY <1>2, <1>3, <1>4, <1>5

(* A screen on the stack.                                                  *)
LEMMA ScreenTypes ==
  ASSUME NEW stk \in Seq(Screen), NEW i \in 1..Len(stk)
  PROVE  stk[i] \in Screen /\ stk[i].kind \in Kinds /\ stk[i].shows \in Shows
  <1>1. stk[i] \in Screen
    BY ElementOfSeq
  <1>2. QED
    BY <1>1 DEF Screen

(* A non-empty set of naturals has a least element ...                     *)
LEMMA LeastNatural ==
  ASSUME NEW T \in SUBSET Nat, T # {}
  PROVE  \E x \in T : \A y \in T : x <= y
  <1>1. \E R : IsWellFoundedOn(R, Nat) /\ \A x, y \in Nat : y < x => <<y, x>> \in R
    <2>1. \A x, y \in Nat : y < x => <<y, x>> \in OpToRel(<, Nat)
      BY DEF OpToRel
    <2>2. QED
      BY <2>1, NatLessThanWellFounded
  <1>2. PICK R : IsWellFoundedOn(R, Nat) /\ \A x, y \in Nat : y < x => <<y, x>> \in R
    BY <1>1
  <1>3. PICK x \in T : \A y \in T : ~(<<y, x>> \in R)
    BY <1>2, WFMin
  <1>4. \A y \in T : ~(y < x)
    BY <1>2, <1>3
  <1>5. QED
    BY <1>3, <1>4

(* ... so a level on the stack has a topmost screen, and findLevel finds   *)
(* it.                                                                     *)
LEMMA FindLevelFinds ==
  ASSUME stack \in Seq(Screen), NEW k, \E i \in DOMAIN stack : Level(stack[i].kind) = k
  PROVE  /\ FindLevel(k) \in 1..Len(stack)
         /\ Level(stack[FindLevel(k)].kind) = k
         /\ \A j \in 1..Len(stack) : j > FindLevel(k) => Level(stack[j].kind) # k
  <1> DEFINE T == {n \in Nat : n < Len(stack) /\ Level(stack[Len(stack) - n].kind) = k}
  <1>1. DOMAIN stack = 1..Len(stack) /\ Len(stack) \in Nat
    OBVIOUS
  <1>2. PICK i \in 1..Len(stack) : Level(stack[i].kind) = k
    BY <1>1
  <1>3. Len(stack) - i \in T
    <2>1. Len(stack) - i \in Nat /\ Len(stack) - i < Len(stack) /\ Len(stack) - (Len(stack) - i) = i
      BY <1>1
    <2>2. QED
      BY <1>2, <2>1
  <1>4. PICK x \in T : \A y \in T : x <= y
    BY <1>3, LeastNatural
  <1>5. \A j \in 1..Len(stack) : j > Len(stack) - x => Level(stack[j].kind) # k
    <2> SUFFICES ASSUME NEW j \in 1..Len(stack), j > Len(stack) - x, Level(stack[j].kind) = k
                 PROVE  FALSE
      OBVIOUS
    <2>1. Len(stack) - j \in Nat /\ Len(stack) - j < Len(stack) /\ Len(stack) - (Len(stack) - j) = j
      BY <1>1
    <2>2. Len(stack) - j \in T
      BY <2>1
    <2>3. QED
      BY <1>1, <1>4, <2>2
  <1>6. Len(stack) - x \in 1..Len(stack) /\ Level(stack[Len(stack) - x].kind) = k
    BY <1>1, <1>4
  <1>7. \E f \in DOMAIN stack :
          /\ Level(stack[f].kind) = k
          /\ \A j \in DOMAIN stack : j > f => Level(stack[j].kind) # k
    BY <1>1, <1>5, <1>6
  <1> HIDE DEF T
  <1>8. QED
    BY <1>1, <1>7 DEF FindLevel

(* What loadCurrent does: at most the spinner of the top changes, no load  *)
(* is taken away, and a spinner it leaves on a screen with a command has   *)
(* its load.                                                               *)
LEMMA LoadCurrentEffect ==
  ASSUME NEW stk \in Seq(Screen), stk # <<>>, NEW before \in [Kinds -> Nat],
         LoadCurrent(stk, before)
  PROVE  /\ stack' \in Seq(Screen) /\ Len(stack') = Len(stk)
         /\ \A i \in 1..Len(stk) : stack'[i].kind = stk[i].kind
         /\ \A i \in 1..Len(stk) : i < Len(stk) => stack'[i] = stk[i]
         /\ loads' \in [Kinds -> Nat] /\ \A k \in Kinds : loads'[k] >= before[k]
         /\ Awaited(stack'[Len(stk)]) /\ stack'[Len(stk)].shows # "loaded"
              => loads'[Level(stack'[Len(stk)].kind)] > 0
  <1> DEFINE n == Len(stk)
             k == stk[n].kind
  <1>1. n \in Nat /\ n \in 1..n
    BY EmptySeq
  <1>2. stk[n] \in Screen /\ k \in Kinds /\ Level(k) \in Kinds
    BY <1>1, ScreenTypes, LevelTypes
  <1>3. \E x \in Shows : stack' = [stk EXCEPT ![n] = [stk[n] EXCEPT !.shows = x]]
    <2>1. "loaded" \in Shows /\ "reloading" \in Shows
      BY DEF Shows
    <2>2. CASE k \in Synchronous
      <3>1. stack' = [stk EXCEPT ![n].shows = "loaded"]
        BY <2>2 DEF LoadCurrent
      <3>2. QED
        BY <2>1, <3>1
    <2>3. CASE k \notin Synchronous
      <3>1. stack' = [stk EXCEPT ![n] = Spinner(@)]
        BY <2>3 DEF LoadCurrent
      <3>2. stack' = [stk EXCEPT ![n] = Spinner(stk[n])]
        BY <3>1
      <3>3. \E x \in Shows : Spinner(stk[n]) = [stk[n] EXCEPT !.shows = x]
        BY <1>2, <2>1 DEF Spinner, Screen
      <3>4. QED
        BY <3>2, <3>3
    <2>4. QED
      BY <2>2, <2>3
  <1>4. PICK x \in Shows : stack' = [stk EXCEPT ![n] = [stk[n] EXCEPT !.shows = x]]
    BY <1>3
  <1>5. [stk[n] EXCEPT !.shows = x] \in Screen /\ [stk[n] EXCEPT !.shows = x].kind = k
    BY <1>2 DEF Screen
  <1>6. /\ stack' \in Seq(Screen) /\ Len(stack') = n
        /\ stack'[n].kind = k
        /\ \A i \in 1..n : i < n => stack'[i] = stk[i]
    BY <1>1, <1>4, <1>5, ExceptSeq
  <1>7. \A i \in 1..n : stack'[i].kind = stk[i].kind
    BY <1>1, <1>6
  <1>8. /\ loads' \in [Kinds -> Nat] /\ \A c \in Kinds : loads'[c] >= before[c]
        /\ k \notin Synchronous \cup Silent \cup {"describe"} => loads'[Level(k)] > 0
    <2>1. CASE loads' = before /\ k \in Synchronous \cup Silent \cup {"describe"}
      BY <2>1
    <2>2. CASE loads' = [before EXCEPT ![Level(k)] = @ + 1]
      BY <1>2, <2>2
    <2>3. QED
      BY <2>1, <2>2 DEF LoadCurrent
  <1>9. QED
    BY <1>6, <1>7, <1>8 DEF Awaited

(* Pushing a screen.                                                       *)
LEMMA PushTypes ==
  ASSUME NEW stk \in Seq(Screen), NEW k \in Kinds
  PROVE  /\ Push(stk, k) \in Seq(Screen) /\ Push(stk, k) # <<>>
         /\ Len(Push(stk, k)) = Len(stk) + 1
         /\ Push(stk, k)[Len(stk) + 1] = [kind |-> k, shows |-> "new"]
         /\ \A i \in 1..Len(stk) : Push(stk, k)[i] = stk[i]
  <1>1. [kind |-> k, shows |-> "new"] \in Screen
    BY DEF Screen, Shows
  <1>2. QED
    BY <1>1, AppendProperties DEF Push

(* Unwinding the stack to one of its screens, or to nothing.               *)
LEMMA PrefixTypes ==
  ASSUME NEW stk \in Seq(Screen), NEW n \in 0..Len(stk)
  PROVE  /\ SubSeq(stk, 1, n) \in Seq(Screen) /\ Len(SubSeq(stk, 1, n)) = n
         /\ \A i \in 1..n : SubSeq(stk, 1, n)[i] = stk[i]
         /\ n > 0 => SubSeq(stk, 1, n) # <<>>
  <1>1. \A i \in 1..n : stk[i] \in Screen
    BY ScreenTypes
  <1>2. QED
    BY <1>1, SubSeqProperties

(* A step that keeps the stack up to a screen, takes no load from it, and  *)
(* leaves above it only spinners that have their load, strands none.       *)
LEMMA PrefixKeeps ==
  ASSUME StackTypes, SpinnersAwaited, StackTypes',
         NEW n \in 0..Len(stack), n <= Len(stack'),
         \A i \in 1..n : stack'[i] = stack[i],
         n > 0 /\ n < Len(stack) /\ Deferred(n) => Deferred(n)' \/ stack[n].shows = "loaded",
         \A i \in 1..n : Awaited(stack[i]) =>
           loads'[Level(stack[i].kind)] >= loads[Level(stack[i].kind)],
         \A i \in (n + 1)..Len(stack') :
           Awaited(stack'[i]) /\ stack'[i].shows # "loaded" /\ ~Deferred(i)'
             => loads'[Level(stack'[i].kind)] > 0
  PROVE  SpinnersAwaited'
  <1> SUFFICES ASSUME NEW i \in 1..Len(stack'), Awaited(stack'[i]), stack'[i].shows # "loaded",
                      ~Deferred(i)'
               PROVE  loads'[Level(stack'[i].kind)] > 0
    BY DEF SpinnersAwaited, StackTypes, Awaited
  <1>0. Len(stack) \in Nat /\ Len(stack') \in Nat /\ DOMAIN stack = 1..Len(stack)
    BY DEF StackTypes
  <1>1. CASE i > n
    BY <1>0, <1>1
  <1>2. CASE i <= n
    <2>1. stack'[i] = stack[i] /\ i \in 1..n /\ i \in DOMAIN stack
      BY <1>0, <1>2
    <2>2. ~Deferred(i)
      <3>1. CASE i = n
        BY <2>1, <3>1 DEF Deferred
      <3>2. CASE i < n
        <4>1. i + 1 \in 1..n /\ i < Len(stack')
          BY <1>0, <3>2
        <4>2. stack'[i + 1] = stack[i + 1]
          BY <4>1
        <4>3. QED
          BY <2>1, <4>1, <4>2 DEF Deferred
      <3>3. QED
        BY <1>0, <1>2, <3>1, <3>2
    <2>3. loads[Level(stack[i].kind)] > 0
      BY <2>1, <2>2 DEF SpinnersAwaited
    <2>4. Level(stack[i].kind) \in Kinds
      BY <1>0, <2>1, ScreenTypes, LevelTypes DEF StackTypes
    <2>5. loads'[Level(stack[i].kind)] >= loads[Level(stack[i].kind)]
      BY <2>1
    <2>6. loads[Level(stack[i].kind)] \in Nat /\ loads'[Level(stack[i].kind)] \in Nat
      BY <2>4 DEF StackTypes
    <2>7. QED
      BY <2>1, <2>3, <2>5, <2>6
  <1>3. QED
    BY <1>0, <1>1, <1>2

(* A step that leaves the stack alone and takes no load.                   *)
LEMMA SameStackKeeps ==
  ASSUME StackTypes, SpinnersAwaited, UNCHANGED stack, loads' \in [Kinds -> Nat],
         \A k \in Kinds : loads'[k] >= loads[k]
  PROVE  StackTypes' /\ SpinnersAwaited'
  <1>1. StackTypes' /\ Len(stack) \in Nat
    BY DEF StackTypes
  <1>2. \A i \in 1..Len(stack) : Level(stack[i].kind) \in Kinds
    BY ScreenTypes, LevelTypes DEF StackTypes
  <1>3. QED
    BY <1>1, <1>2, PrefixKeeps

(* loadCurrent on screens pushed above the first n: the topmost of them    *)
(* loads, the others have loaded or wait for a pick.                       *)
LEMMA LoadOnTop ==
  ASSUME StackTypes, SpinnersAwaited, NEW stk \in Seq(Screen), NEW before \in [Kinds -> Nat],
         LoadCurrent(stk, before),
         NEW n \in 0..Len(stack), n < Len(stk),
         \A i \in 1..n : stk[i] = stack[i],
         n > 0 /\ n < Len(stack) /\ Deferred(n) => stk[n + 1].kind = "picker",
         \A i \in 1..n : Awaited(stack[i]) =>
           before[Level(stack[i].kind)] >= loads[Level(stack[i].kind)],
         \A i \in (n + 1)..(Len(stk) - 1) :
           stk[i].shows = "loaded" \/ (stk[i].kind = "statements" /\ stk[i + 1].kind = "picker")
  PROVE  StackTypes' /\ SpinnersAwaited'
  <1>0. Len(stk) \in Nat /\ Len(stack) \in Nat /\ stk # <<>>
    BY DEF StackTypes
  <1>1. /\ stack' \in Seq(Screen) /\ Len(stack') = Len(stk)
        /\ \A i \in 1..Len(stk) : stack'[i].kind = stk[i].kind
        /\ \A i \in 1..Len(stk) : i < Len(stk) => stack'[i] = stk[i]
        /\ loads' \in [Kinds -> Nat] /\ \A k \in Kinds : loads'[k] >= before[k]
        /\ Awaited(stack'[Len(stk)]) /\ stack'[Len(stk)].shows # "loaded"
             => loads'[Level(stack'[Len(stk)].kind)] > 0
    BY <1>0, LoadCurrentEffect
  <1>2. StackTypes'
    BY <1>0, <1>1 DEF StackTypes
  <1>3. \A i \in 1..n : stack'[i] = stack[i]
    BY <1>0, <1>1
  <1>4. n > 0 /\ n < Len(stack) /\ Deferred(n) => Deferred(n)'
    <2> SUFFICES ASSUME n > 0, n < Len(stack), Deferred(n) PROVE Deferred(n)'
      OBVIOUS
    <2>1. stack[n].kind = "statements" /\ stk[n + 1].kind = "picker"
      BY DEF Deferred
    <2>2. n + 1 \in 1..Len(stk) /\ n < Len(stack') /\ n \in 1..n
      BY <1>0, <1>1
    <2>3. stack'[n + 1].kind = "picker"
      BY <1>1, <2>1, <2>2
    <2>4. stack'[n].kind = "statements"
      BY <1>3, <2>1, <2>2
    <2>5. QED
      BY <2>2, <2>3, <2>4 DEF Deferred
  <1>5. \A i \in 1..n : Awaited(stack[i]) =>
          loads'[Level(stack[i].kind)] >= loads[Level(stack[i].kind)]
    <2> SUFFICES ASSUME NEW i \in 1..n, Awaited(stack[i])
                 PROVE  loads'[Level(stack[i].kind)] >= loads[Level(stack[i].kind)]
      OBVIOUS
    <2>1. Level(stack[i].kind) \in Kinds
      BY <1>0, ScreenTypes, LevelTypes DEF StackTypes
    <2>2. QED
      BY <1>1, <2>1 DEF StackTypes
  <1>6. \A i \in (n + 1)..Len(stack') :
          Awaited(stack'[i]) /\ stack'[i].shows # "loaded" /\ ~Deferred(i)'
            => loads'[Level(stack'[i].kind)] > 0
    <2> SUFFICES ASSUME NEW i \in (n + 1)..Len(stack'), Awaited(stack'[i]),
                        stack'[i].shows # "loaded", ~Deferred(i)'
                 PROVE  loads'[Level(stack'[i].kind)] > 0
      OBVIOUS
    <2>1. CASE i = Len(stk)
      BY <1>1, <2>1
    <2>2. CASE i < Len(stk)
      <3>1. stack'[i] = stk[i] /\ i \in (n + 1)..(Len(stk) - 1) /\ i + 1 \in 1..Len(stk)
        BY <1>0, <1>1, <2>2
      <3>2. stk[i].kind = "statements" /\ stk[i + 1].kind = "picker"
        BY <3>1
      <3>3. Deferred(i)'
        BY <1>1, <2>2, <3>1, <3>2 DEF Deferred
      <3>4. QED
        BY <3>3
    <2>3. QED
      BY <1>0, <1>1, <2>1, <2>2
  <1>7. n <= Len(stack')
    BY <1>0, <1>1
  <1>8. SpinnersAwaited'
    BY <1>2, <1>3, <1>4, <1>5, <1>6, <1>7, PrefixKeeps
  <1>9. QED
    BY <1>2, <1>8

-----------------------------------------------------------------------------
(* Which level a screen is looked up by.                                   *)
LEMMA Levels ==
  /\ \A k \in Kinds : Level(k) # "picker" /\ (k # "picker" => Level(k) = k)
  /\ \A x \in Screen : Awaited(x) => Level(x.kind) # "detail"
  <1>1. "detail" \in Synchronous /\ "describe" # "detail" /\ "snapshots" # "detail"
    BY DEF Synchronous
  <1>2. QED
    BY <1>1 DEF Level, Awaited, Screen

(* The facts about the stack every step starts from.                       *)
LEMMA StackFacts ==
  ASSUME StackTypes
  PROVE  /\ Len(stack) \in Nat /\ Len(stack) \in 1..Len(stack) /\ DOMAIN stack = 1..Len(stack)
         /\ Top \in Screen /\ Top.kind \in Kinds
         /\ \A i \in 1..Len(stack) : stack[i] \in Screen /\ Level(stack[i].kind) \in Kinds
  <1>1. Len(stack) \in Nat /\ Len(stack) \in 1..Len(stack) /\ DOMAIN stack = 1..Len(stack)
    BY EmptySeq DEF StackTypes
  <1>2. QED
    BY <1>1, ScreenTypes, LevelTypes DEF StackTypes, Top

(* Two screens of one level.                                               *)
LEMMA TwiceIs ==
  ASSUME StackTypes, NEW i \in 1..Len(stack), NEW j \in 1..Len(stack), i < j,
         Awaited(stack[i]), Level(stack[i].kind) = Level(stack[j].kind)
  PROVE  Twice
  BY StackFacts DEF Twice

(* A reply counted off leaves the loads of every other level.              *)
LEMMA ArrivedTypes ==
  ASSUME StackTypes, NEW k \in Kinds, loads[k] > 0
  PROVE  /\ Arrived(k) \in [Kinds -> Nat]
         /\ \A c \in Kinds : c # k => Arrived(k)[c] = loads[c]
  BY DEF StackTypes, Arrived

(* One more load in flight.                                                *)
LEMMA IssueTypes ==
  ASSUME StackTypes, NEW k \in Kinds, Issue(k)
  PROVE  /\ loads' \in [Kinds -> Nat] /\ loads'[k] > 0
         /\ \A c \in Kinds : loads'[c] >= loads[c]
  <1>1. loads' = [loads EXCEPT ![k] = @ + 1] /\ loads \in [Kinds -> Nat]
    BY DEF StackTypes, Issue
  <1>2. \A c \in Kinds : loads[c] \in Nat
    BY <1>1
  <1>3. QED
    BY <1>1, <1>2

(* A key that pushes a screen and loads it.                                *)
LEMMA PushAndLoad ==
  ASSUME StackTypes, SpinnersAwaited, NEW k \in Kinds, LoadCurrent(Push(stack, k), loads)
  PROVE  StackTypes' /\ SpinnersAwaited'
  <1> DEFINE stk == Push(stack, k)
             n   == Len(stack)
  <1>1. /\ stk \in Seq(Screen) /\ Len(stk) = n + 1 /\ \A i \in 1..n : stk[i] = stack[i]
    BY PushTypes DEF StackTypes
  <1>2. n \in 0..Len(stack) /\ n \in Nat /\ ~(n < Len(stack)) /\ loads \in [Kinds -> Nat]
    BY StackFacts DEF StackTypes
  <1>3. LoadCurrent(stk, loads)
    OBVIOUS
  <1>4. \A i \in 1..n : Awaited(stack[i]) =>
          loads[Level(stack[i].kind)] >= loads[Level(stack[i].kind)]
    <2> SUFFICES ASSUME NEW i \in 1..n
                 PROVE  loads[Level(stack[i].kind)] >= loads[Level(stack[i].kind)]
      OBVIOUS
    <2>1. loads[Level(stack[i].kind)] \in Nat
      BY <1>2, StackFacts
    <2>2. QED
      BY <2>1
  <1> HIDE DEF stk, n
  <1>5. n < Len(stk) /\ (n + 1)..(Len(stk) - 1) = {}
    BY <1>1, <1>2
  <1>6. QED
    BY <1>1, <1>2, <1>3, <1>4, <1>5, LoadOnTop

(* The top-queries tool: its table, and the picker that loads.             *)
LEMMA QueriesStack ==
  ASSUME NEW stk \in Seq(Screen)
  PROVE  /\ TopQueriesStack(stk) \in Seq(Screen) /\ Len(TopQueriesStack(stk)) = Len(stk) + 2
         /\ \A i \in 1..Len(stk) : TopQueriesStack(stk)[i] = stk[i]
         /\ TopQueriesStack(stk)[Len(stk) + 1].kind = "statements"
         /\ TopQueriesStack(stk)[Len(stk) + 2].kind = "picker"
  <1> DEFINE one == Push(stk, "statements")
  <1>1. "statements" \in Kinds
    BY DEF Kinds
  <1>2. "picker" \in Kinds
    BY DEF Kinds
  <1>3. /\ one \in Seq(Screen) /\ Len(one) = Len(stk) + 1 /\ Len(stk) \in Nat
        /\ one[Len(stk) + 1] = [kind |-> "statements", shows |-> "new"]
        /\ \A i \in 1..Len(stk) : one[i] = stk[i]
    BY <1>1, PushTypes
  <1>4. /\ Push(one, "picker") \in Seq(Screen) /\ Len(Push(one, "picker")) = Len(one) + 1
        /\ Push(one, "picker")[Len(one) + 1] = [kind |-> "picker", shows |-> "new"]
        /\ \A i \in 1..Len(one) : Push(one, "picker")[i] = one[i]
    BY <1>2, <1>3, PushTypes
  <1> HIDE DEF one
  <1>5. TopQueriesStack(stk) = Push(one, "picker")
    BY DEF TopQueriesStack, one
  <1>6. QED
    BY <1>3, <1>4, <1>5

(* Opening it over the first n screens.                                    *)
LEMMA OpenQueriesOver ==
  ASSUME StackTypes, SpinnersAwaited, NEW n \in 0..Len(stack), NEW before \in [Kinds -> Nat],
         n < Len(stack) => stack[n + 1].kind # "picker",
         \A i \in 1..n : Awaited(stack[i]) =>
           before[Level(stack[i].kind)] >= loads[Level(stack[i].kind)],
         NEW under \in Seq(Screen), Len(under) = n, \A i \in 1..n : under[i] = stack[i],
         LoadCurrent(TopQueriesStack(under), before)
  PROVE  StackTypes' /\ SpinnersAwaited'
  <1> DEFINE stk == TopQueriesStack(under)
  <1>1. /\ stk \in Seq(Screen) /\ Len(stk) = n + 2
        /\ \A i \in 1..n : stk[i] = stack[i]
        /\ stk[n + 1].kind = "statements" /\ stk[n + 2].kind = "picker"
    BY QueriesStack
  <1>2. LoadCurrent(stk, before)
    OBVIOUS
  <1> HIDE DEF stk
  <1>3. n \in Nat /\ n < Len(stk)
    BY <1>1, StackFacts
  <1>4. ~Deferred(n) \/ ~(n < Len(stack))
    BY DEF Deferred
  <1>5. \A i \in (n + 1)..(Len(stk) - 1) :
          stk[i].shows = "loaded" \/ (stk[i].kind = "statements" /\ stk[i + 1].kind = "picker")
    <2> SUFFICES ASSUME NEW i \in (n + 1)..(Len(stk) - 1)
                 PROVE  stk[i].kind = "statements" /\ stk[i + 1].kind = "picker"
      OBVIOUS
    <2>1. i = n + 1 /\ i + 1 = n + 2
      BY <1>1, <1>3
    <2>2. QED
      BY <1>1, <2>1
  <1>6. QED
    BY <1>1, <1>2, <1>3, <1>4, <1>5, LoadOnTop

-----------------------------------------------------------------------------
(* The tools menu stays at the bottom of the stack.                        *)
StackInv == StackTypes /\ stack[1].kind = "tools"

(* Issue only adds.                                                        *)
LEMMA IssueKeeps ==
  ASSUME StackTypes, NEW k, Issue(k)
  PROVE  loads' \in [Kinds -> Nat] /\ \A c \in Kinds : loads'[c] >= loads[c]
  <1>1. CASE k \in Kinds
    BY <1>1, IssueTypes
  <1>2. CASE k \notin Kinds
    <2>1. loads' = loads /\ loads \in [Kinds -> Nat]
      BY <1>2 DEF Issue, StackTypes
    <2>2. \A c \in Kinds : loads[c] \in Nat
      BY <2>1
    <2>3. QED
      BY <2>1, <2>2
  <1>3. QED
    BY <1>1, <1>2

(* loadCurrent leaves the kinds of the screens alone.                      *)
LEMMA LoadTypes ==
  ASSUME NEW stk \in Seq(Screen), stk # <<>>, stk[1].kind = "tools",
         NEW before \in [Kinds -> Nat], LoadCurrent(stk, before)
  PROVE  StackInv'
  <1>1. /\ stack' \in Seq(Screen) /\ Len(stack') = Len(stk)
        /\ \A i \in 1..Len(stk) : stack'[i].kind = stk[i].kind
        /\ loads' \in [Kinds -> Nat]
    BY LoadCurrentEffect
  <1>2. Len(stk) \in Nat /\ 1 \in 1..Len(stk)
    BY EmptySeq
  <1>3. QED
    BY <1>1, <1>2 DEF StackInv, StackTypes

(* Every key keeps the stack a stack of screens over the menu ...          *)
LEMMA PushInv ==
  ASSUME StackInv, NEW x \in Screen
  PROVE  /\ Append(stack, x) \in Seq(Screen) /\ Append(stack, x) # <<>>
         /\ Append(stack, x)[1].kind = "tools" /\ Len(Append(stack, x)) = Len(stack) + 1
         /\ \A i \in 1..Len(stack) : Append(stack, x)[i] = stack[i]
         /\ Append(stack, x)[Len(stack) + 1] = x
  <1>1. /\ Append(stack, x) \in Seq(Screen) /\ Append(stack, x) # <<>>
        /\ Len(Append(stack, x)) = Len(stack) + 1
        /\ \A i \in 1..Len(stack) : Append(stack, x)[i] = stack[i]
        /\ Append(stack, x)[Len(stack) + 1] = x
    BY AppendProperties DEF StackInv, StackTypes
  <1>2. 1 \in 1..Len(stack)
    BY StackFacts DEF StackInv
  <1>3. Append(stack, x)[1] = stack[1]
    BY <1>1, <1>2
  <1>4. QED
    BY <1>1, <1>3 DEF StackInv

LEMMA PrefixInv ==
  ASSUME StackInv, NEW n \in 1..Len(stack), stack' = SubSeq(stack, 1, n),
         loads' \in [Kinds -> Nat]
  PROVE  StackInv' /\ Len(stack') = n /\ \A i \in 1..n : stack'[i] = stack[i]
  <1>1. n \in 0..Len(stack) /\ n > 0 /\ 1 \in 1..n
    BY StackFacts DEF StackInv
  <1>2. stack' \in Seq(Screen) /\ stack' # <<>> /\ Len(stack') = n
        /\ \A i \in 1..n : stack'[i] = stack[i]
    BY <1>1, PrefixTypes DEF StackInv, StackTypes
  <1>3. QED
    BY <1>1, <1>2 DEF StackInv, StackTypes

(* The screens a key unwinds to.                                           *)
LEMMA PopToTypes ==
  ASSUME StackInv, NEW k, OnStack(k), k \in {"logs", "statements"}
  PROVE  /\ FindLevel(k) \in 1..Len(stack) /\ stack[FindLevel(k)].kind = k
         /\ PopTo(k) = SubSeq(stack, 1, FindLevel(k))
  <1>1. \A c \in Kinds : Level(c) = k <=> c = k
    BY DEF Level
  <1>2. \A i \in DOMAIN stack : Level(stack[i].kind) = k <=> stack[i].kind = k
    BY <1>1, ScreenTypes DEF StackInv, StackTypes
  <1>3. \E i \in DOMAIN stack : Level(stack[i].kind) = k
    BY <1>2 DEF OnStack
  <1>4. FindLevel(k) \in 1..Len(stack) /\ Level(stack[FindLevel(k)].kind) = k
    BY <1>3, FindLevelFinds DEF StackInv, StackTypes
  <1>5. QED
    BY <1>2, <1>4 DEF PopTo

(* What Back leaves.                                                       *)
LEMMA BackPops ==
  ASSUME StackInv, Back
  PROVE  \E n \in 1..Len(stack) :
           /\ n < Len(stack) /\ stack' = SubSeq(stack, 1, n)
           /\ Deferred(n) => stack[n].shows = "loaded"
  <1> DEFINE m     == Len(stack)
             below == SubSeq(stack, 1, m - 1)
  <1>1. m \in Nat /\ m > 1 /\ stack \in Seq(Screen)
    BY StackFacts DEF Back, StackInv, StackTypes
  <1>2. below \in Seq(Screen) /\ Len(below) = m - 1 /\ \A i \in 1..(m - 1) : below[i] = stack[i]
    BY <1>1, PrefixTypes
  <1>3. Pop(stack) = below
    BY DEF Pop
  <1>4. CASE /\ Top.kind = "picker" /\ Len(below) > 1
             /\ below[Len(below)].kind = "statements" /\ below[Len(below)].shows # "loaded"
    <2>1. stack' = SubSeq(below, 1, m - 2)
      BY <1>1, <1>2, <1>3, <1>4 DEF Back, Pop
    <2>2. SubSeq(below, 1, m - 2) = SubSeq(stack, 1, m - 2)
      BY <1>1, <1>2, <1>4
    <2>3. stack[m - 1].kind = "statements"
      BY <1>1, <1>2, <1>4
    <2>4. m - 2 \in 1..m /\ m - 2 < m /\ (m - 2) + 1 = m - 1
      BY <1>1, <1>2, <1>4
    <2>5. ~Deferred(m - 2)
      BY <2>3, <2>4 DEF Deferred
    <2>6. QED
      BY <2>1, <2>2, <2>4, <2>5
  <1>5. CASE ~(/\ Top.kind = "picker" /\ Len(below) > 1
               /\ below[Len(below)].kind = "statements" /\ below[Len(below)].shows # "loaded")
    <2>1. stack' = below
      BY <1>3, <1>5 DEF Back
    <2>2. m - 1 \in 1..m /\ m - 1 < m /\ (m - 1) + 1 = m /\ m - 1 \in 1..(m - 1)
      BY <1>1
    <2>3. below[Len(below)] = stack[m - 1]
      BY <1>2, <2>2
    <2>4. ASSUME Deferred(m - 1) PROVE stack[m - 1].shows = "loaded"
      <3>1. stack[m - 1].kind = "statements" /\ Top.kind = "picker"
        BY <2>2, <2>4 DEF Deferred, Top
      <3>2. Len(below) > 1
        BY <1>1, <1>2, <3>1 DEF StackInv
      <3>3. QED
        BY <1>5, <2>3, <3>1, <3>2
    <2>5. QED
      BY <2>1, <2>2, <2>4
  <1>6. QED
    BY <1>4, <1>5

(* A reply finds its screen.                                               *)
LEMMA LandEffect ==
  ASSUME StackInv, NEW k \in Kinds, Land(k)
  PROVE  /\ stack' \in Seq(Screen) /\ Len(stack') = Len(stack)
         /\ \A i \in 1..Len(stack) : stack'[i].kind = stack[i].kind
         /\ \A i \in 1..Len(stack) : stack'[i] # stack[i] => stack'[i].shows = "loaded"
         /\ \A i \in 1..Len(stack) :
              Level(stack[i].kind) = k =>
                \E g \in 1..Len(stack) :
                  g >= i /\ Level(stack[g].kind) = k /\ stack'[g].shows = "loaded"
         /\ loads' \in [Kinds -> Nat] /\ \A c \in Kinds : c # k => loads'[c] = loads[c]
  <1> DEFINE f == FindLevel(k)
  <1>1. stack \in Seq(Screen) /\ DOMAIN stack = 1..Len(stack) /\ Len(stack) \in Nat
    BY StackFacts DEF StackInv, StackTypes
  <1>2. loads' \in [Kinds -> Nat] /\ \A c \in Kinds : c # k => loads'[c] = loads[c]
    BY ArrivedTypes DEF Land, StackInv
  <1>3. CASE \E i \in DOMAIN stack : Level(stack[i].kind) = k
    <2>1. /\ f \in 1..Len(stack) /\ Level(stack[f].kind) = k
          /\ \A j \in 1..Len(stack) : j > f => Level(stack[j].kind) # k
      BY <1>1, <1>3, FindLevelFinds
    <2>2. stack' = [stack EXCEPT ![f].shows = "loaded"]
      BY <1>3 DEF Land
    <2> HIDE DEF f
    <2>3. stack[f] \in Screen /\ "loaded" \in Shows
      BY <1>1, <2>1, ScreenTypes DEF Shows
    <2>4. /\ [stack[f] EXCEPT !.shows = "loaded"] \in Screen
          /\ [stack[f] EXCEPT !.shows = "loaded"].kind = stack[f].kind
          /\ [stack[f] EXCEPT !.shows = "loaded"].shows = "loaded"
      BY <2>3 DEF Screen
    <2>5. stack' = [stack EXCEPT ![f] = [stack[f] EXCEPT !.shows = "loaded"]]
      BY <2>2
    <2>6. /\ stack' \in Seq(Screen) /\ Len(stack') = Len(stack)
          /\ \A i \in 1..Len(stack) :
               stack'[i] = IF i = f THEN [stack[f] EXCEPT !.shows = "loaded"] ELSE stack[i]
      BY <1>1, <2>1, <2>4, <2>5, ExceptSeq
    <2>7. \A i \in 1..Len(stack) :
            Level(stack[i].kind) = k =>
              \E g \in 1..Len(stack) :
                g >= i /\ Level(stack[g].kind) = k /\ stack'[g].shows = "loaded"
      <3> SUFFICES ASSUME NEW i \in 1..Len(stack), Level(stack[i].kind) = k
                   PROVE  f >= i /\ Level(stack[f].kind) = k /\ stack'[f].shows = "loaded"
        BY <2>1
      <3>1. f >= i
        BY <1>1, <2>1
      <3>2. QED
        BY <2>1, <2>4, <2>6, <3>1
    <2>8. \A i \in 1..Len(stack) : stack'[i].kind = stack[i].kind
      BY <2>4, <2>6
    <2>9. \A i \in 1..Len(stack) : stack'[i] # stack[i] => stack'[i].shows = "loaded"
      BY <2>4, <2>6
    <2>10. QED
      BY <1>2, <2>6, <2>7, <2>8, <2>9
  <1>4. CASE ~\E i \in DOMAIN stack : Level(stack[i].kind) = k
    <2>1. stack' = stack
      BY <1>4 DEF Land
    <2>2. QED
      BY <1>1, <1>2, <1>4, <2>1
  <1>5. QED
    BY <1>3, <1>4

(* A stack is one screen or more.                                          *)
LEMMA OneOrMore == \A n \in Nat : n \in 1..n => n = 1 \/ n > 1
  OBVIOUS

(* The only entry of a list.                                               *)
LEMMA FastPathFacts ==
  ASSUME StackInv, NEW k \in Kinds, FastPath(k)
  PROVE  /\ Top.kind = k /\ Arrived(k) \in [Kinds -> Nat]
         /\ \A c \in Kinds : c # k => Arrived(k)[c] = loads[c]
         /\ \/ /\ k = "databases" /\ Len(stack) > 1
               /\ LoadCurrent(TopQueriesStack(Pop(stack)), Arrived(k))
            \/ \E next \in Kinds :
                 LoadCurrent(Push(Append(Pop(stack), [Top EXCEPT !.shows = "loaded"]), next),
                             Arrived(k))
  <1>1. Top.kind = k /\ loads[k] > 0
    BY DEF FastPath
  <1>2. "logs" \in Kinds
    BY DEF Kinds
  <1>3. "pgbouncer" \in Kinds
    BY DEF Kinds
  <1>4. k = "databases" => Len(stack) > 1
    <2>1. Len(stack) \in Nat /\ Len(stack) \in 1..Len(stack)
      BY StackFacts DEF StackInv
    <2>2. Len(stack) = 1 => Top.kind = "tools"
      BY DEF Top, StackInv
    <2>3. Len(stack) = 1 \/ Len(stack) > 1
      BY <2>1, OneOrMore
    <2>4. Top.kind = k
      BY <1>1
    <2>5. k = "databases" => k # "tools"
      OBVIOUS
    <2>6. QED
      BY <2>2, <2>3, <2>4, <2>5
  <1>5. /\ Arrived(k) \in [Kinds -> Nat]
        /\ \A c \in Kinds : c # k => Arrived(k)[c] = loads[c]
    BY <1>1, ArrivedTypes DEF StackInv
  <1>6. \/ k = "databases" /\ LoadCurrent(TopQueriesStack(Pop(stack)), Arrived(k))
        \/ \E next \in {"logs", "pgbouncer"} :
             LoadCurrent(Push(Append(Pop(stack), [Top EXCEPT !.shows = "loaded"]), next),
                         Arrived(k))
    BY DEF FastPath
  <1>7. QED
    BY <1>1, <1>2, <1>3, <1>4, <1>5, <1>6

(* The list a single entry is opened from, loaded, with a screen above.    *)
LEMMA UnderTypes ==
  ASSUME StackInv, NEW next \in Kinds
  PROVE  LET under == Append(Pop(stack), [Top EXCEPT !.shows = "loaded"])
             stk   == Push(under, next)
         IN  /\ stk \in Seq(Screen) /\ stk # <<>> /\ Len(stk) = Len(stack) + 1
             /\ stk[1].kind = "tools"
             /\ \A i \in 1..(Len(stack) - 1) : stk[i] = stack[i]
             /\ stk[Len(stack)].shows = "loaded" /\ stk[Len(stack)].kind = Top.kind
  <1> DEFINE m     == Len(stack)
             list  == [Top EXCEPT !.shows = "loaded"]
             below == SubSeq(stack, 1, m - 1)
             under == Append(below, list)
             stk   == Push(under, next)
  <1>1. m \in Nat /\ m \in 1..m /\ m - 1 \in 0..m /\ Top \in Screen /\ stack \in Seq(Screen)
    BY StackFacts DEF StackInv, StackTypes
  <1>2. list \in Screen /\ list.kind = Top.kind /\ list.shows = "loaded"
    BY <1>1 DEF Screen, Shows
  <1> HIDE DEF list
  <1>3. below \in Seq(Screen) /\ Len(below) = m - 1 /\ \A i \in 1..(m - 1) : below[i] = stack[i]
    BY <1>1, PrefixTypes
  <1> HIDE DEF below
  <1>4. /\ under \in Seq(Screen) /\ Len(under) = m /\ under[m] = list
        /\ \A i \in 1..(m - 1) : under[i] = stack[i]
    BY <1>1, <1>2, <1>3, AppendProperties
  <1> HIDE DEF under
  <1>5. /\ stk \in Seq(Screen) /\ stk # <<>> /\ Len(stk) = m + 1
        /\ \A i \in 1..m : stk[i] = under[i]
    BY <1>4, PushTypes
  <1> HIDE DEF stk
  <1>6. stk[1].kind = "tools"
    <2>1. CASE m = 1
      BY <1>1, <1>2, <1>4, <1>5, <2>1 DEF Top, StackInv
    <2>2. CASE m > 1
      BY <1>1, <1>4, <1>5, <2>2 DEF StackInv
    <2>3. m = 1 \/ m > 1
      BY <1>1, OneOrMore
    <2>4. QED
      BY <2>1, <2>2, <2>3
  <1>7. stk[m] = list /\ \A i \in 1..(m - 1) : stk[i] = stack[i]
    BY <1>1, <1>4, <1>5
  <1>8. QED
    BY <1>2, <1>5, <1>6, <1>7 DEF stk, under, below, list, Pop

(* What the backend's statement does to the stack.                         *)
LEMMA StatementEffect ==
  ASSUME StackInv, onActivityStatement
  PROVE  /\ loads' \in [Kinds -> Nat] /\ \A c \in Kinds : c # "detail" => loads'[c] = loads[c]
         /\ \/ stack' = stack
            \/ /\ Top.kind = "detail" /\ Len(stack) > 1
               /\ stack' = SubSeq(stack, 1, Len(stack) - 1)
            \/ Top.kind = "detail" /\ stack' = [stack EXCEPT ![Len(stack)].shows = "loaded"]
            \/ stack' = Append(stack, [kind |-> "detail", shows |-> "loaded"])
  <1>1. loads' \in [Kinds -> Nat] /\ \A c \in Kinds : c # "detail" => loads'[c] = loads[c]
    BY LevelTypes, ArrivedTypes DEF onActivityStatement, StackInv
  <1>2. Top.kind = "detail" => Len(stack) > 1
    <2>1. Len(stack) \in Nat /\ Len(stack) \in 1..Len(stack)
      BY StackFacts DEF StackInv
    <2>2. Len(stack) = 1 \/ Len(stack) > 1
      BY <2>1, OneOrMore
    <2>3. Len(stack) = 1 => Top.kind = "tools"
      BY DEF Top, StackInv
    <2>4. "detail" # "tools"
      OBVIOUS
    <2>5. QED
      BY <2>2, <2>3, <2>4
  <1>3. QED
    BY <1>1, <1>2 DEF onActivityStatement, Pop

LEMMA LoadedDetail == [kind |-> "detail", shows |-> "loaded"] \in Screen
  BY LevelTypes DEF Screen, Shows

(* ... and so does every step.                                             *)
LEMMA KeyInv ==
  ASSUME StackInv, NEW k \in Kinds, DrillIn(k) \/ JumpKey(k) \/ OpenWithOwnLoad(k)
  PROVE  StackInv'
  <1>1. /\ Push(stack, k) \in Seq(Screen) /\ Push(stack, k) # <<>>
        /\ Push(stack, k)[1].kind = "tools"
    <2>1. [kind |-> k, shows |-> "new"] \in Screen
      BY DEF Screen, Shows
    <2>2. QED
      BY <2>1, PushInv DEF Push
  <1>2. CASE DrillIn(k) \/ JumpKey(k)
    <2>1. LoadCurrent(Push(stack, k), loads)
      BY <1>2 DEF DrillIn, JumpKey
    <2>2. loads \in [Kinds -> Nat]
      BY DEF StackInv, StackTypes
    <2>3. QED
      BY <1>1, <2>1, <2>2, LoadTypes
  <1>3. CASE OpenWithOwnLoad(k)
    <2>1. stack' = Push(stack, k) /\ Issue(k)
      BY <1>3 DEF OpenWithOwnLoad
    <2>2. loads' \in [Kinds -> Nat]
      BY <2>1, IssueTypes DEF StackInv
    <2>3. QED
      BY <1>1, <2>1, <2>2 DEF StackInv, StackTypes
  <1>4. QED
    BY <1>2, <1>3

LEMMA OpenInv ==
  ASSUME StackInv, OpenTopQueries \/ OpenWaitProfile \/ Refresh \/ PickNow
  PROVE  StackInv'
  <1>1. loads \in [Kinds -> Nat] /\ stack \in Seq(Screen) /\ stack # <<>> /\ StackTypes
        /\ Len(stack) \in 1..Len(stack) /\ 1 \in 1..Len(stack)
    BY StackFacts DEF StackInv, StackTypes
  <1>2. CASE OpenTopQueries
    <2>1. LoadCurrent(TopQueriesStack(stack), loads)
      BY <1>2 DEF OpenTopQueries
    <2>2. /\ TopQueriesStack(stack) \in Seq(Screen)
          /\ Len(TopQueriesStack(stack)) = Len(stack) + 2
          /\ TopQueriesStack(stack)[1] = stack[1]
      BY <1>1, QueriesStack
    <2>3. TopQueriesStack(stack) # <<>>
      BY <1>1, <2>2
    <2>4. TopQueriesStack(stack)[1].kind = "tools"
      BY <2>2 DEF StackInv
    <2>5. QED
      BY <1>1, <2>1, <2>2, <2>3, <2>4, LoadTypes
  <1>3. CASE OpenWaitProfile
    <2>1. /\ stack' = Append(stack, [kind |-> "wait profile", shows |-> "loaded"])
          /\ loads' = loads
      BY <1>3 DEF OpenWaitProfile
    <2>2. "wait profile" \in Kinds
      BY DEF Kinds
    <2>3. [kind |-> "wait profile", shows |-> "loaded"] \in Screen
      BY <2>2, Zenon DEF Screen, Shows
    <2> DEFINE x == [kind |-> "wait profile", shows |-> "loaded"]
    <2>4. x \in Screen /\ stack' = Append(stack, x) /\ loads' = loads
      BY <2>1, <2>3, Zenon
    <2> HIDE DEF x
    <2>5. QED
      BY <1>1, <2>4, PushInv DEF StackInv, StackTypes
  <1>4. CASE Refresh
    BY <1>1, <1>4, LoadTypes DEF Refresh, StackInv
  <1>5. CASE PickNow
    <2> DEFINE f   == FindLevel("statements")
               stk == PopTo("statements")
    <2>1. LoadCurrent(stk, loads) /\ OnStack("statements")
      BY <1>5 DEF PickNow
    <2>2. f \in 1..Len(stack) /\ stk = SubSeq(stack, 1, f)
      BY <2>1, PopToTypes
    <2> HIDE DEF f, stk
    <2>3. f \in 0..Len(stack) /\ f > 0 /\ 1 \in 1..f
      BY <1>1, <2>2
    <2>4. stk \in Seq(Screen) /\ stk # <<>> /\ stk[1] = stack[1]
      BY <1>1, <2>2, <2>3, PrefixTypes
    <2>5. stk[1].kind = "tools"
      BY <2>4 DEF StackInv
    <2>6. QED
      BY <1>1, <2>1, <2>4, <2>5, LoadTypes
  <1>6. QED
    BY <1>2, <1>3, <1>4, <1>5

LEMMA BackInv ==
  ASSUME StackInv, Back \/ JumpToLogEntry
  PROVE  /\ StackInv'
         /\ \E n \in 1..Len(stack) :
              /\ Len(stack') = n /\ \A i \in 1..n : stack'[i] = stack[i]
              /\ n < Len(stack) /\ Deferred(n) => stack[n].shows = "loaded"
  <1>1. loads' \in [Kinds -> Nat]
    BY DEF StackInv, StackTypes, Back, JumpToLogEntry
  <1>2. CASE Back
    <2>1. PICK n \in 1..Len(stack) :
            /\ n < Len(stack) /\ stack' = SubSeq(stack, 1, n)
            /\ Deferred(n) => stack[n].shows = "loaded"
      BY <1>2, BackPops
    <2>2. StackInv' /\ Len(stack') = n /\ \A i \in 1..n : stack'[i] = stack[i]
      BY <1>1, <2>1, PrefixInv
    <2>3. QED
      BY <2>1, <2>2
  <1>3. CASE JumpToLogEntry
    <2> DEFINE f == FindLevel("logs")
    <2>1. OnStack("logs") /\ stack' = PopTo("logs")
      BY <1>3 DEF JumpToLogEntry
    <2>2. f \in 1..Len(stack) /\ stack[f].kind = "logs" /\ stack' = SubSeq(stack, 1, f)
      BY <2>1, PopToTypes
    <2> HIDE DEF f
    <2>3. StackInv' /\ Len(stack') = f /\ \A i \in 1..f : stack'[i] = stack[i]
      BY <1>1, <2>2, PrefixInv
    <2>4. ~Deferred(f)
      BY <2>2 DEF Deferred
    <2>5. QED
      BY <2>2, <2>3, <2>4
  <1>4. QED
    BY <1>2, <1>3

LEMMA TickInv ==
  ASSUME StackInv, (\E l \in Loops : onTick(l) \/ CycleRefresh(l)) \/ UNCHANGED vars
  PROVE  /\ StackInv' /\ stack' = stack
         /\ loads' \in [Kinds -> Nat] /\ \A c \in Kinds : loads'[c] >= loads[c]
  <1>1. loads \in [Kinds -> Nat] /\ \A c \in Kinds : loads[c] >= loads[c]
    BY DEF StackInv, StackTypes
  <1>2. stack' = stack
    BY DEF onTick, CycleRefresh, vars
  <1>3. loads' = loads \/ \E k : Issue(k)
    BY DEF onTick, CycleRefresh, vars
  <1>4. loads' \in [Kinds -> Nat] /\ \A c \in Kinds : loads'[c] >= loads[c]
    BY <1>1, <1>3, IssueKeeps DEF StackInv
  <1>5. QED
    BY <1>2, <1>4 DEF StackInv, StackTypes

LEMMA ReplyInv ==
  ASSUME StackInv, NEW k \in Kinds, Reply(k)
  PROVE  StackInv'
  <1>1. stack \in Seq(Screen) /\ Len(stack) \in 1..Len(stack) /\ 1 \in 1..Len(stack)
        /\ stack # <<>> /\ Len(stack) \in Nat
    BY StackFacts DEF StackInv, StackTypes
  <1>2. CASE Land(k)
    <2>1. /\ stack' \in Seq(Screen) /\ Len(stack') = Len(stack)
          /\ \A i \in 1..Len(stack) : stack'[i].kind = stack[i].kind
          /\ loads' \in [Kinds -> Nat]
      BY <1>2, LandEffect
    <2>2. stack' # <<>>
      BY <1>1, <2>1
    <2>3. stack'[1].kind = "tools"
      BY <1>1, <2>1 DEF StackInv
    <2>4. QED
      BY <2>1, <2>2, <2>3 DEF StackInv, StackTypes
  <1>3. CASE FastPath(k)
    <2>1. Arrived(k) \in [Kinds -> Nat]
      BY <1>3, FastPathFacts
    <2>2. ASSUME Len(stack) > 1, LoadCurrent(TopQueriesStack(Pop(stack)), Arrived(k))
          PROVE  StackInv'
      <3> DEFINE below == SubSeq(stack, 1, Len(stack) - 1)
                 stk   == TopQueriesStack(below)
      <3>1. Len(stack) - 1 \in 0..Len(stack) /\ 1 \in 1..(Len(stack) - 1)
        BY <1>1, <2>2
      <3>2. below \in Seq(Screen) /\ Len(below) = Len(stack) - 1 /\ below[1] = stack[1]
        BY <1>1, <3>1, PrefixTypes
      <3>3. Pop(stack) = below
        BY DEF Pop
      <3>4. LoadCurrent(stk, Arrived(k))
        BY <2>2, <3>3
      <3> HIDE DEF below
      <3>5. stk \in Seq(Screen) /\ Len(stk) = Len(below) + 2 /\ stk[1] = below[1]
        BY <3>1, <3>2, QueriesStack
      <3> HIDE DEF stk
      <3>6. stk # <<>> /\ stk[1].kind = "tools"
        BY <1>1, <3>2, <3>5 DEF StackInv
      <3>7. QED
        BY <2>1, <3>4, <3>5, <3>6, LoadTypes
    <2>3. ASSUME NEW next \in Kinds,
                 LoadCurrent(Push(Append(Pop(stack), [Top EXCEPT !.shows = "loaded"]), next),
                             Arrived(k))
          PROVE  StackInv'
      BY <2>1, <2>3, UnderTypes, LoadTypes
    <2>4. QED
      BY <1>3, <2>2, <2>3, FastPathFacts
  <1>4. CASE onActivityStatement
    <2>1. loads' \in [Kinds -> Nat]
      BY <1>4, StatementEffect
    <2>2. CASE stack' = stack
      BY <2>1, <2>2 DEF StackInv, StackTypes
    <2>3. CASE Len(stack) > 1 /\ stack' = SubSeq(stack, 1, Len(stack) - 1)
      <3>1. Len(stack) - 1 \in 1..Len(stack)
        BY <1>1, <2>3
      <3>2. QED
        BY <2>1, <2>3, <3>1, PrefixInv
    <2>4. CASE stack' = [stack EXCEPT ![Len(stack)].shows = "loaded"]
      <3>1. Top \in Screen
        BY StackFacts DEF StackInv
      <3>2. [Top EXCEPT !.shows = "loaded"] \in Screen
            /\ [Top EXCEPT !.shows = "loaded"].kind = Top.kind
        BY <3>1 DEF Screen, Shows
      <3>3. stack' = [stack EXCEPT ![Len(stack)] = [Top EXCEPT !.shows = "loaded"]]
        BY <2>4 DEF Top
      <3>4. /\ stack' \in Seq(Screen) /\ Len(stack') = Len(stack)
            /\ stack'[1] = IF 1 = Len(stack) THEN [Top EXCEPT !.shows = "loaded"] ELSE stack[1]
        BY <1>1, <3>2, <3>3, ExceptSeq
      <3>5. stack' # <<>> /\ stack'[1].kind = "tools"
        BY <1>1, <3>2, <3>4 DEF Top, StackInv
      <3>6. QED
        BY <2>1, <3>4, <3>5 DEF StackInv, StackTypes
    <2>5. CASE stack' = Append(stack, [kind |-> "detail", shows |-> "loaded"])
      BY <2>1, <2>5, LoadedDetail, PushInv DEF StackInv, StackTypes
    <2>6. QED
      BY <1>4, <2>2, <2>3, <2>4, <2>5, StatementEffect
  <1>5. QED
    BY <1>2, <1>3, <1>4 DEF Reply

LEMMA StackKeeps ==
  ASSUME StackInv, [Next]_vars
  PROVE  StackInv'
  <1>1. CASE UNCHANGED vars
    BY <1>1, TickInv
  <1>2. CASE UserKey
    BY <1>2, KeyInv, OpenInv, BackInv, TickInv DEF UserKey
  <1>3. ASSUME NEW l \in Loops, onTick(l) PROVE StackInv'
    BY <1>3, TickInv
  <1>4. ASSUME NEW k \in Kinds, Reply(k) PROVE StackInv'
    BY <1>4, ReplyInv
  <1>5. QED
    BY <1>1, <1>2, <1>3, <1>4 DEF Next

LEMMA StackBegins == Init => StackInv
  <1> SUFFICES ASSUME Init PROVE StackInv
    OBVIOUS
  <1>1. "tools" \in Kinds
    BY DEF Kinds
  <1>2. [kind |-> "tools", shows |-> "loaded"] \in Screen
    BY <1>1 DEF Screen, Shows
  <1>3. stack = <<[kind |-> "tools", shows |-> "loaded"]>> /\ loads = [k \in Kinds |-> 0]
    BY DEF Init
  <1>4. QED
    BY <1>2, <1>3 DEF StackInv, StackTypes

-----------------------------------------------------------------------------
(* What one action does to the spinners.                                   *)

(* A screen pushed with its load, or without one it awaits.                *)
LEMMA PushKeeps ==
  ASSUME StackInv, SpinnersAwaited, NEW x \in Screen, stack' = Append(stack, x),
         loads' \in [Kinds -> Nat],
         \A i \in 1..Len(stack) : Awaited(stack[i]) =>
           loads'[Level(stack[i].kind)] >= loads[Level(stack[i].kind)],
         Awaited(x) => x.shows = "loaded"
  PROVE  SpinnersAwaited'
  <1> DEFINE n == Len(stack)
  <1>1. /\ Len(stack') = n + 1 /\ stack'[n + 1] = x /\ \A i \in 1..n : stack'[i] = stack[i]
        /\ StackTypes'
    BY PushInv DEF StackInv, StackTypes
  <1>2. n \in Nat /\ n \in 0..Len(stack) /\ ~(n < Len(stack)) /\ StackTypes
    BY StackFacts DEF StackInv
  <1>3. \A i \in 1..n : Awaited(stack[i]) =>
          loads'[Level(stack[i].kind)] >= loads[Level(stack[i].kind)]
    OBVIOUS
  <1> HIDE DEF n
  <1>4. n <= Len(stack') /\ (n + 1)..Len(stack') = {n + 1}
    BY <1>1, <1>2
  <1>5. \A i \in (n + 1)..Len(stack') :
          Awaited(stack'[i]) /\ stack'[i].shows # "loaded" /\ ~Deferred(i)'
            => loads'[Level(stack'[i].kind)] > 0
    BY <1>1, <1>4
  <1>6. QED
    BY <1>1, <1>2, <1>3, <1>4, <1>5, PrefixKeeps

(* Nothing is left above the screens that are kept.                        *)
LEMMA PopKeeps ==
  ASSUME StackInv, SpinnersAwaited, StackInv', NEW n \in 0..Len(stack), Len(stack') = n,
         \A i \in 1..n : stack'[i] = stack[i],
         n < Len(stack) /\ Deferred(n) => stack[n].shows = "loaded",
         \A i \in 1..n : Awaited(stack[i]) =>
           loads'[Level(stack[i].kind)] >= loads[Level(stack[i].kind)]
  PROVE  SpinnersAwaited'
  <1>1. n \in Nat /\ n <= Len(stack') /\ (n + 1)..Len(stack') = {}
    BY StackFacts DEF StackInv
  <1>2. QED
    BY <1>1, PrefixKeeps DEF StackInv

(* No level an awaited screen is looked up by is a detail's.               *)
LEMMA LoadsKept ==
  ASSUME StackInv, loads' \in [Kinds -> Nat],
         \A c \in Kinds : c # "detail" => loads'[c] >= loads[c]
  PROVE  \A i \in 1..Len(stack) : Awaited(stack[i]) =>
           loads'[Level(stack[i].kind)] >= loads[Level(stack[i].kind)]
  <1> SUFFICES ASSUME NEW i \in 1..Len(stack), Awaited(stack[i])
               PROVE  loads'[Level(stack[i].kind)] >= loads[Level(stack[i].kind)]
    OBVIOUS
  <1>1. Level(stack[i].kind) \in Kinds /\ Level(stack[i].kind) # "detail"
    BY StackFacts, Levels DEF StackInv
  <1>2. QED
    BY <1>1

LEMMA KeyKeeps ==
  ASSUME StackInv, SpinnersAwaited, NEW k \in Kinds,
         DrillIn(k) \/ JumpKey(k) \/ OpenWithOwnLoad(k)
  PROVE  SpinnersAwaited'
  <1>1. CASE DrillIn(k) \/ JumpKey(k)
    <2>1. LoadCurrent(Push(stack, k), loads)
      BY <1>1 DEF DrillIn, JumpKey
    <2>2. QED
      BY <2>1, PushAndLoad DEF StackInv
  <1>2. CASE OpenWithOwnLoad(k)
    <2> DEFINE x == [kind |-> k, shows |-> "new"]
    <2>1. stack' = Append(stack, x) /\ Issue(k) /\ k \in {"describe", "samples", "detail"}
      BY <1>2 DEF OpenWithOwnLoad, Push
    <2>2. x \in Screen /\ x.kind = k
      BY DEF Screen, Shows
    <2> HIDE DEF x
    <2>3. "detail" \in Synchronous
      BY DEF Synchronous
    <2>4. "samples" \in Silent
      BY DEF Silent
    <2>5. ~Awaited(x)
      BY <2>1, <2>2, <2>3, <2>4 DEF Awaited
    <2>6. loads' \in [Kinds -> Nat] /\ \A c \in Kinds : loads'[c] >= loads[c]
      BY <2>1, IssueTypes DEF StackInv
    <2>7. \A i \in 1..Len(stack) : Awaited(stack[i]) =>
            loads'[Level(stack[i].kind)] >= loads[Level(stack[i].kind)]
      BY <2>6, LoadsKept
    <2>8. QED
      BY <2>1, <2>2, <2>5, <2>6, <2>7, PushKeeps
  <1>3. QED
    BY <1>1, <1>2

LEMMA OpenKeeps ==
  ASSUME StackInv, SpinnersAwaited,
         OpenTopQueries \/ OpenWaitProfile \/ Refresh \/ PickNow
  PROVE  SpinnersAwaited'
  <1>1. /\ loads \in [Kinds -> Nat] /\ stack \in Seq(Screen) /\ stack # <<>> /\ StackTypes
        /\ Len(stack) \in 1..Len(stack) /\ Len(stack) \in Nat
        /\ \A c \in Kinds : loads[c] \in Nat
    BY StackFacts DEF StackInv, StackTypes
  <1>2. \A i \in 1..Len(stack) : Awaited(stack[i]) =>
          loads[Level(stack[i].kind)] >= loads[Level(stack[i].kind)]
    <2> SUFFICES ASSUME NEW i \in 1..Len(stack)
                 PROVE  loads[Level(stack[i].kind)] >= loads[Level(stack[i].kind)]
      OBVIOUS
    <2>1. loads[Level(stack[i].kind)] \in Nat
      BY <1>1, StackFacts
    <2>2. QED
      BY <2>1
  <1>3. CASE OpenTopQueries
    <2>1. LoadCurrent(TopQueriesStack(stack), loads)
      BY <1>3 DEF OpenTopQueries
    <2> DEFINE n == Len(stack)
    <2>2. n \in 0..Len(stack) /\ ~(n < Len(stack)) /\ Len(stack) = n
      BY <1>1
    <2>3. \A i \in 1..n : Awaited(stack[i]) =>
            loads[Level(stack[i].kind)] >= loads[Level(stack[i].kind)]
      BY <1>2
    <2> HIDE DEF n
    <2>4. QED
      BY <1>1, <2>1, <2>2, <2>3, OpenQueriesOver
  <1>4. CASE OpenWaitProfile
    <2> DEFINE x == [kind |-> "wait profile", shows |-> "loaded"]
    <2>1. stack' = Append(stack, x) /\ loads' = loads
      BY <1>4, Zenon DEF OpenWaitProfile
    <2>2. "wait profile" \in Kinds
      BY DEF Kinds
    <2>3. x \in Screen
      BY <2>2, Zenon DEF Screen, Shows
    <2>4. x.shows = "loaded"
      BY Zenon
    <2> HIDE DEF x
    <2>5. \A i \in 1..Len(stack) : Awaited(stack[i]) =>
            loads'[Level(stack[i].kind)] >= loads[Level(stack[i].kind)]
      BY <1>2, <2>1
    <2>6. QED
      BY <1>1, <2>1, <2>3, <2>4, <2>5, PushKeeps
  <1>5. CASE Refresh
    <2> DEFINE n == Len(stack) - 1
    <2>1. LoadCurrent(stack, loads)
      BY <1>5 DEF Refresh
    <2>2. /\ n \in 0..Len(stack) /\ n < Len(stack) /\ (n + 1)..(Len(stack) - 1) = {}
          /\ \A i \in 1..n : i \in 1..Len(stack)
      BY <1>1
    <2>3. \A i \in 1..n : Awaited(stack[i]) =>
            loads[Level(stack[i].kind)] >= loads[Level(stack[i].kind)]
      BY <1>2, <2>2
    <2>4. n > 0 /\ n < Len(stack) /\ Deferred(n) => stack[n + 1].kind = "picker"
      BY DEF Deferred
    <2>5. \A i \in 1..n : stack[i] = stack[i]
      OBVIOUS
    <2> HIDE DEF n
    <2>6. QED
      BY <1>1, <2>1, <2>2, <2>3, <2>4, <2>5, LoadOnTop
  <1>6. CASE PickNow
    <2> DEFINE f   == FindLevel("statements")
               stk == PopTo("statements")
               n   == f - 1
    <2>1. LoadCurrent(stk, loads) /\ OnStack("statements")
      BY <1>6 DEF PickNow
    <2>2. f \in 1..Len(stack) /\ stack[f].kind = "statements" /\ stk = SubSeq(stack, 1, f)
      BY <2>1, PopToTypes
    <2> HIDE DEF f, stk
    <2>3. f \in 0..Len(stack)
      BY <1>1, <2>2
    <2>4. stk \in Seq(Screen) /\ Len(stk) = f /\ \A i \in 1..f : stk[i] = stack[i]
      BY <1>1, <2>2, <2>3, PrefixTypes
    <2>5. /\ n \in 0..Len(stack) /\ n < Len(stk) /\ (n + 1)..(Len(stk) - 1) = {} /\ n + 1 = f
          /\ \A i \in 1..n : i \in 1..Len(stack) /\ i \in 1..f
      BY <1>1, <2>2, <2>4
    <2>6. \A i \in 1..n : Awaited(stack[i]) =>
            loads[Level(stack[i].kind)] >= loads[Level(stack[i].kind)]
      BY <1>2, <2>5
    <2>7. \A i \in 1..n : stk[i] = stack[i]
      BY <2>4, <2>5
    <2>8. ~Deferred(n)
      BY <2>2, <2>5 DEF Deferred
    <2> HIDE DEF n
    <2>9. QED
      BY <1>1, <2>1, <2>4, <2>5, <2>6, <2>7, <2>8, LoadOnTop
  <1>7. QED
    BY <1>3, <1>4, <1>5, <1>6

LEMMA BackKeeps ==
  ASSUME StackInv, SpinnersAwaited, Back \/ JumpToLogEntry
  PROVE  SpinnersAwaited'
  <1>1. loads' = loads /\ loads \in [Kinds -> Nat]
    BY DEF Back, JumpToLogEntry, StackInv, StackTypes
  <1>1a. \A c \in Kinds : c # "detail" => loads'[c] >= loads[c]
    <2>1. \A c \in Kinds : loads[c] \in Nat
      BY <1>1
    <2>2. QED
      BY <1>1, <2>1
  <1>2. \A i \in 1..Len(stack) : Awaited(stack[i]) =>
          loads'[Level(stack[i].kind)] >= loads[Level(stack[i].kind)]
    BY <1>1, <1>1a, LoadsKept
  <1>3. PICK n \in 1..Len(stack) :
          /\ Len(stack') = n /\ \A i \in 1..n : stack'[i] = stack[i]
          /\ n < Len(stack) /\ Deferred(n) => stack[n].shows = "loaded"
    BY BackInv
  <1>4. n \in 0..Len(stack) /\ \A i \in 1..n : i \in 1..Len(stack)
    BY <1>3, StackFacts DEF StackInv
  <1>5. \A i \in 1..n : Awaited(stack[i]) =>
          loads'[Level(stack[i].kind)] >= loads[Level(stack[i].kind)]
    BY <1>2, <1>4
  <1>6. QED
    BY <1>3, <1>4, <1>5, BackInv, PopKeeps

(* An answer on top of its level frees the screen it lands on, and no      *)
(* other of the level is waiting.                                          *)
LEMMA LandKeeps ==
  ASSUME StackInv, SpinnersAwaited, ~Twice, NEW k \in Kinds, Land(k)
  PROVE  SpinnersAwaited'
  <1>1. /\ stack' \in Seq(Screen) /\ Len(stack') = Len(stack)
        /\ \A i \in 1..Len(stack) : stack'[i].kind = stack[i].kind
        /\ \A i \in 1..Len(stack) : stack'[i] # stack[i] => stack'[i].shows = "loaded"
        /\ \A i \in 1..Len(stack) :
             Level(stack[i].kind) = k =>
               \E g \in 1..Len(stack) :
                 g >= i /\ Level(stack[g].kind) = k /\ stack'[g].shows = "loaded"
        /\ loads' \in [Kinds -> Nat] /\ \A c \in Kinds : c # k => loads'[c] = loads[c]
    BY LandEffect
  <1>2. Len(stack) \in Nat /\ DOMAIN stack = 1..Len(stack) /\ DOMAIN stack' = 1..Len(stack)
        /\ \A i \in 1..Len(stack) : Level(stack[i].kind) \in Kinds
    BY <1>1, StackFacts DEF StackInv
  <1> SUFFICES ASSUME NEW i \in 1..Len(stack), Awaited(stack'[i]), stack'[i].shows # "loaded",
                      ~Deferred(i)'
               PROVE  loads'[Level(stack'[i].kind)] > 0
    BY <1>2 DEF SpinnersAwaited, Awaited
  <1>3. stack'[i] = stack[i]
    BY <1>1
  <1>4. ~Deferred(i)
    <2> SUFFICES ASSUME Deferred(i) PROVE Deferred(i)'
      OBVIOUS
    <2>1. i + 1 \in 1..Len(stack) /\ i < Len(stack')
      BY <1>1, <1>2 DEF Deferred
    <2>2. QED
      BY <1>1, <2>1 DEF Deferred
  <1>5. loads[Level(stack[i].kind)] > 0
    BY <1>2, <1>3, <1>4 DEF SpinnersAwaited
  <1>6. Level(stack[i].kind) # k
    <2> SUFFICES ASSUME Level(stack[i].kind) = k PROVE FALSE
      OBVIOUS
    <2>1. PICK g \in 1..Len(stack) :
            g >= i /\ Level(stack[g].kind) = k /\ stack'[g].shows = "loaded"
      BY <1>1
    <2>2. g # i
      BY <2>1
    <2>3. i < g
      BY <1>2, <2>1, <2>2
    <2>4. Awaited(stack[i])
      BY <1>3
    <2>5. QED
      BY <2>1, <2>3, <2>4, TwiceIs DEF StackInv
  <1>7. QED
    BY <1>1, <1>2, <1>3, <1>5, <1>6

LEMMA FastPathKeeps ==
  ASSUME StackInv, SpinnersAwaited, ~Twice, NEW k \in Kinds, FastPath(k)
  PROVE  SpinnersAwaited'
  <1> DEFINE m      == Len(stack)
             n      == m - 1
             before == Arrived(k)
             below  == SubSeq(stack, 1, n)
  <1>1. /\ m \in Nat /\ m \in 1..m /\ n \in 0..m /\ n < m /\ n + 1 = m
        /\ \A i \in 1..n : i \in 1..m /\ i < m
        /\ stack \in Seq(Screen) /\ StackTypes /\ loads \in [Kinds -> Nat]
    BY StackFacts DEF StackInv, StackTypes
  <1>2. /\ Top.kind = k /\ before \in [Kinds -> Nat]
        /\ \A c \in Kinds : c # k => before[c] = loads[c]
    BY FastPathFacts
  <1>3. \A i \in 1..n : Awaited(stack[i]) =>
          before[Level(stack[i].kind)] >= loads[Level(stack[i].kind)]
    <2> SUFFICES ASSUME NEW i \in 1..n, Awaited(stack[i])
                 PROVE  before[Level(stack[i].kind)] >= loads[Level(stack[i].kind)]
      OBVIOUS
    <2> DEFINE c == Level(stack[i].kind)
    <2>1. stack[i].kind \in Kinds /\ c \in Kinds /\ stack[m].kind = k
      BY <1>1, <1>2, ScreenTypes, LevelTypes DEF Top
    <2>2. c # k
      <3> SUFFICES ASSUME c = k PROVE FALSE
        OBVIOUS
      <3>1. Level(k) = k
        BY <2>1, Levels
      <3>2. Twice
        BY <1>1, <2>1, <3>1, TwiceIs
      <3>3. QED
        BY <3>2
    <2> HIDE DEF c
    <2>3. before[c] = loads[c] /\ loads[c] \in Nat
      BY <1>1, <1>2, <2>1, <2>2
    <2>4. before[c] >= loads[c]
      BY <2>3
    <2>5. QED
      BY <2>4 DEF c
  <1>4. below \in Seq(Screen) /\ Len(below) = n /\ \A i \in 1..n : below[i] = stack[i]
    BY <1>1, PrefixTypes
  <1>5. Pop(stack) = below
    BY DEF Pop
  <1>6. ASSUME k = "databases", LoadCurrent(TopQueriesStack(Pop(stack)), Arrived(k))
        PROVE  SpinnersAwaited'
    <2>1. LoadCurrent(TopQueriesStack(below), before)
      BY <1>5, <1>6
    <2>2. stack[n + 1].kind # "picker"
      BY <1>1, <1>2, <1>6 DEF Top
    <2> HIDE DEF m, n, before, below
    <2>3. QED
      BY <1>1, <1>2, <1>3, <1>4, <2>1, <2>2, OpenQueriesOver DEF m
  <1>7. ASSUME NEW next \in Kinds,
               LoadCurrent(Push(Append(Pop(stack), [Top EXCEPT !.shows = "loaded"]), next),
                           Arrived(k))
        PROVE  SpinnersAwaited'
    <2> DEFINE stk == Push(Append(Pop(stack), [Top EXCEPT !.shows = "loaded"]), next)
    <2>1. LoadCurrent(stk, before)
      BY <1>7
    <2>2. /\ stk \in Seq(Screen) /\ Len(stk) = m + 1 /\ \A i \in 1..n : stk[i] = stack[i]
          /\ stk[m].shows = "loaded" /\ stk[m].kind = Top.kind
      BY UnderTypes
    <2> HIDE DEF stk
    <2>3. /\ n \in 0..Len(stack) /\ n < Len(stk) /\ (n + 1)..(Len(stk) - 1) = {m}
      BY <1>1, <2>2
    <2>4. n > 0 /\ n < Len(stack) /\ Deferred(n) => stk[n + 1].kind = "picker"
      BY <1>1, <2>2 DEF Deferred, Top
    <2>5. \A i \in (n + 1)..(Len(stk) - 1) :
            stk[i].shows = "loaded" \/ (stk[i].kind = "statements" /\ stk[i + 1].kind = "picker")
      BY <2>2, <2>3
    <2> HIDE DEF m, n, before
    <2>6. QED
      BY <1>1, <1>2, <1>3, <2>1, <2>2, <2>3, <2>4, <2>5, LoadOnTop
  <1>8. QED
    BY <1>6, <1>7, FastPathFacts

LEMMA StatementKeeps ==
  ASSUME StackInv, SpinnersAwaited, onActivityStatement
  PROVE  SpinnersAwaited'
  <1>1. /\ loads' \in [Kinds -> Nat] /\ \A c \in Kinds : c # "detail" => loads'[c] = loads[c]
        /\ \/ stack' = stack
           \/ /\ Top.kind = "detail" /\ Len(stack) > 1
              /\ stack' = SubSeq(stack, 1, Len(stack) - 1)
           \/ Top.kind = "detail" /\ stack' = [stack EXCEPT ![Len(stack)].shows = "loaded"]
           \/ stack' = Append(stack, [kind |-> "detail", shows |-> "loaded"])
    BY StatementEffect
  <1>2. \A i \in 1..Len(stack) : Awaited(stack[i]) =>
          loads'[Level(stack[i].kind)] >= loads[Level(stack[i].kind)]
    <2>1. \A c \in Kinds : loads[c] \in Nat
      BY DEF StackInv, StackTypes
    <2>2. \A c \in Kinds : c # "detail" => loads'[c] >= loads[c]
      BY <1>1, <2>1
    <2>3. QED
      BY <1>1, <2>2, LoadsKept
  <1>3. /\ Len(stack) \in Nat /\ Len(stack) \in 1..Len(stack) /\ Len(stack) \in 0..Len(stack)
        /\ "detail" \in Kinds /\ StackInv' /\ stack \in Seq(Screen) /\ StackTypes /\ StackTypes'
    <2>1. Reply("detail") /\ "detail" \in Kinds
      BY LevelTypes DEF Reply
    <2>2. QED
      BY <2>1, StackFacts, ReplyInv DEF StackInv, StackTypes
  <1>4. CASE stack' = stack
    <2>1. Len(stack') = Len(stack) /\ \A i \in 1..Len(stack) : stack'[i] = stack[i]
      BY <1>4
    <2>2. ~(Len(stack) < Len(stack))
      BY <1>3
    <2>3. QED
      BY <1>2, <1>3, <2>1, <2>2, PopKeeps
  <1>5. CASE Top.kind = "detail" /\ stack' # stack
    <2> DEFINE n == Len(stack) - 1
    <2>1. /\ n \in 0..Len(stack) /\ n < Len(stack) /\ n + 1 = Len(stack)
          /\ \A i \in 1..n : i \in 1..Len(stack) /\ i # Len(stack)
      BY <1>3
    <2>2. ~Deferred(n)
      BY <1>5, <2>1 DEF Deferred, Top
    <2>3. \A i \in 1..n : Awaited(stack[i]) =>
            loads'[Level(stack[i].kind)] >= loads[Level(stack[i].kind)]
      BY <1>2, <2>1
    <2>4. CASE stack' = SubSeq(stack, 1, n)
      <3>1. Len(stack') = n /\ \A i \in 1..n : stack'[i] = stack[i]
        BY <1>3, <2>1, <2>4, PrefixTypes
      <3> HIDE DEF n
      <3>2. QED
        BY <1>3, <2>1, <2>2, <2>3, <3>1, PopKeeps
    <2>5. CASE stack' = [stack EXCEPT ![Len(stack)].shows = "loaded"]
      <3>1. Len(stack') = Len(stack) /\ \A i \in 1..n : stack'[i] = stack[i]
        BY <1>3, <2>1, <2>5
      <3>2. stack'[Len(stack)].kind = "detail"
        <4>1. stack'[Len(stack)] = [Top EXCEPT !.shows = "loaded"] /\ Top \in Screen
          BY <1>3, <2>5, StackFacts DEF Top
        <4>2. QED
          BY <1>5, <4>1 DEF Screen
      <3>3. "detail" \in Synchronous
        BY DEF Synchronous
      <3>4. ~Awaited(stack'[Len(stack)])
        BY <3>2, <3>3 DEF Awaited
      <3>5. n <= Len(stack') /\ \A i \in (n + 1)..Len(stack') : i = Len(stack)
        <4>1. Len(stack') = Len(stack) /\ Len(stack) \in Nat
          BY <1>3, <3>1
        <4>2. QED
          BY <4>1
      <3>6. \A i \in (n + 1)..Len(stack') :
              Awaited(stack'[i]) /\ stack'[i].shows # "loaded" /\ ~Deferred(i)'
                => loads'[Level(stack'[i].kind)] > 0
        BY <3>4, <3>5
      <3> HIDE DEF n
      <3>7. QED
        BY <1>3, <2>1, <2>2, <2>3, <3>1, <3>5, <3>6, PrefixKeeps
    <2>6. CASE stack' = Append(stack, [kind |-> "detail", shows |-> "loaded"])
      <3> DEFINE x == [kind |-> "detail", shows |-> "loaded"]
      <3>1. x \in Screen /\ x.shows = "loaded" /\ stack' = Append(stack, x)
        BY <2>6, LoadedDetail
      <3> HIDE DEF x
      <3>2. QED
        BY <1>1, <1>2, <3>1, PushKeeps
    <2>7. QED
      BY <1>1, <1>5, <2>4, <2>5, <2>6
  <1>6. CASE stack' = Append(stack, [kind |-> "detail", shows |-> "loaded"])
    <2> DEFINE x == [kind |-> "detail", shows |-> "loaded"]
    <2>1. x \in Screen /\ x.shows = "loaded" /\ stack' = Append(stack, x)
      BY <1>6, LoadedDetail
    <2> HIDE DEF x
    <2>2. QED
      BY <1>1, <1>2, <2>1, PushKeeps
  <1>7. QED
    BY <1>1, <1>4, <1>5, <1>6

(* No step abandons a spinner while no level is on the stack twice.        *)
LEMMA SpinnersKeep ==
  ASSUME StackInv, SpinnersAwaited, ~Twice, [Next]_vars
  PROVE  SpinnersAwaited'
  <1>1. ASSUME (\E l \in Loops : onTick(l) \/ CycleRefresh(l)) \/ UNCHANGED vars
        PROVE  SpinnersAwaited'
    BY <1>1, TickInv, SameStackKeeps DEF StackInv
  <1>2. CASE UserKey
    BY <1>1, <1>2, KeyKeeps, OpenKeeps, BackKeeps DEF UserKey
  <1>3. ASSUME NEW k \in Kinds, Reply(k) PROVE SpinnersAwaited'
    BY <1>3, LandKeeps, FastPathKeeps, StatementKeeps DEF Reply
  <1>4. QED
    BY <1>1, <1>2, <1>3 DEF Next

(* The stack is always screens over the tools menu.                        *)
LEMMA StackAlways == Spec => []StackInv
  <1>1. StackInv /\ [Next]_vars => StackInv'
    BY StackKeeps
  <1>2. QED
    BY <1>1, StackBegins, PTL DEF Spec

(* Whatever keys, ticks and replies come in whatever order, the stack      *)
(* however deep: a step that finds every spinner with its load on the way  *)
(* leaves every spinner with one, while no level is on the stack twice.    *)
THEOREM SpinnersStayAwaited == Spec => NeverStranded
  <1>1. StackInv /\ [Next]_vars => (SpinnersAwaited /\ ~Twice => SpinnersAwaited')
    BY SpinnersKeep
  <1>2. Spec => [][Next]_vars
    BY DEF Spec
  <1>3. QED
    BY <1>1, <1>2, StackAlways, PTL DEF NeverStranded

(* The program starts with no spinner, so until a level is opened twice    *)
(* none is ever abandoned.                                                 *)
THEOREM SpinnersEndUnlessTwice == Spec /\ []~Twice => []SpinnersAwaited
  <1>1. Init => SpinnersAwaited
    <2> SUFFICES ASSUME Init PROVE SpinnersAwaited
      OBVIOUS
    <2>1. \A i \in DOMAIN stack : stack[i].shows = "loaded"
      BY DEF Init
    <2>2. QED
      BY <2>1 DEF SpinnersAwaited
  <1>2. SpinnersAwaited /\ ~Twice /\ [SpinnersAwaited /\ ~Twice => SpinnersAwaited']_vars
          => SpinnersAwaited'
    BY DEF vars, SpinnersAwaited, Awaited, Deferred
  <1>3. QED
    BY <1>1, <1>2, SpinnersStayAwaited, PTL DEF Spec, NeverStranded
=============================================================================
