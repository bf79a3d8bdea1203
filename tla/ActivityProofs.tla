---------------------------- MODULE ActivityProofs ----------------------------
(***************************************************************************)
(* What holds of the activity tool for every value of the constants: its   *)
(* rates are possible whatever the pids, the number of samplers and the    *)
(* order their readings land in, its wait profile is the window of the     *)
(* last samples whatever the size of the ring, an answer serves the screen *)
(* and the operation it was asked for, and its table is what the filter    *)
(* selects in the order that was chosen.                                   *)
(***************************************************************************)
EXTENDS Activity, ListView, ProcRates, SequenceTheorems, FiniteSetTheorems, WellFoundedInduction, TLAPS

-----------------------------------------------------------------------------
(* The rates.                                                              *)

(* A reading is a map over some of the pids.                               *)
IsBatch(b) == DOMAIN b \subseteq Pids /\ \A p \in DOMAIN b : b[p] \in Sample

(* No process has used more CPU since a reading of it than time has gone.  *)
Past(p, x) == x.at <= clock /\ ticks[p] - x.ticks <= clock - x.at

(* ... nor between two readings.                                           *)
Apart(x, y) == x.at < y.at => y.ticks - x.ticks <= y.at - x.at

(* What has been read of p, and has landed last or not at all.             *)
Known(p, x) ==
  \/ \E s \in Samplers : p \in DOMAIN reading[s] /\ x = reading[s][p]
  \/ p \in DOMAIN prev /\ x = prev[p]

(* Of the readings that are known any two are apart, and all are past: a   *)
(* rate of two of them is then possible whichever lands first.             *)
RatesInv ==
  /\ clock \in Nat /\ ticks \in [Pids -> Nat]
  /\ DOMAIN reading = Samplers /\ (\A s \in Samplers : IsBatch(reading[s]))
  /\ IsBatch(prev)
  /\ \A p \in Pids : \A x : Known(p, x) => Past(p, x)
  /\ \A p \in Pids : \A x, y : Known(p, x) /\ Known(p, y) => Apart(x, y)
  /\ RatesPossible

(* A map over no pid, as every batch is before the first sample.           *)
LEMMA EmptyBatch == DOMAIN <<>> = {} /\ IsBatch(<<>>)
  BY DEF IsBatch

(* A rate of two readings that are apart is one a process can have.        *)
LEMMA RateOfApart ==
  ASSUME NEW x \in Sample, NEW y \in Sample, Apart(x, y), Rate(x, y) # Unknown
  PROVE  0 <= Rate(x, y).delta /\ Rate(x, y).delta <= Rate(x, y).over /\ Rate(x, y).over > 0
  BY DEF Rate, Apart, Sample

LEMMA RatesInit == ProcInit => RatesInv
  BY EmptyBatch DEF ProcInit, RatesInv, IsBatch, Known, RatesPossible

(* The clock moves, and no process by more than the clock.                 *)
LEMMA ElapseInd == RatesInv /\ Elapse => RatesInv'
<1> SUFFICES ASSUME RatesInv, Elapse PROVE RatesInv'
  OBVIOUS
<1>1. PICK busy \in SUBSET Pids :
        ticks' = [p \in Pids |-> IF p \in busy THEN ticks[p] + 1 ELSE ticks[p]]
  BY DEF Elapse
<1>2. clock \in Nat /\ ticks \in [Pids -> Nat] /\ clock' = clock + 1 /\ UNCHANGED <<reading, prev, stats>>
  BY DEF RatesInv, Elapse
<1>3. clock' \in Nat /\ ticks' \in [Pids -> Nat] /\ \A p \in Pids : ticks'[p] <= ticks[p] + 1
  BY <1>1, <1>2
<1>4. \A p \in Pids : \A x : Known(p, x) => x \in Sample
  BY DEF RatesInv, Known, IsBatch
<1>5. \A p \in Pids : \A x : Known(p, x)' => Past(p, x)'
  <2> SUFFICES ASSUME NEW p \in Pids, NEW x, Known(p, x)' PROVE Past(p, x)'
    OBVIOUS
  <2>1. Known(p, x) /\ x \in Sample
    BY <1>2, <1>4 DEF Known
  <2>2. Past(p, x)
    BY <2>1 DEF RatesInv
  <2> QED
    BY <2>1, <2>2, <1>2, <1>3 DEF Past, Sample
<1> QED
  BY <1>2, <1>3, <1>5 DEF RatesInv, IsBatch, Known, Apart, RatesPossible

(* The ticks of a pid that is used again start over: they only fall.       *)
LEMMA ReuseInd == RatesInv /\ (\E p \in Pids : Reuse(p)) => RatesInv'
<1> SUFFICES ASSUME RatesInv, NEW q \in Pids, Reuse(q) PROVE RatesInv'
  OBVIOUS
<1>1. clock \in Nat /\ ticks \in [Pids -> Nat] /\ UNCHANGED <<clock, reading, prev, stats>>
  BY DEF RatesInv, Reuse
<1>2. ticks' \in [Pids -> Nat] /\ \A p \in Pids : ticks'[p] <= ticks[p]
  BY <1>1 DEF Reuse
<1>3. \A p \in Pids : \A x : Known(p, x)' => Past(p, x)'
  <2> SUFFICES ASSUME NEW p \in Pids, NEW x, Known(p, x)' PROVE Past(p, x)'
    OBVIOUS
  <2>1. Known(p, x) /\ x \in Sample
    BY <1>1 DEF Known, RatesInv, IsBatch
  <2>2. Past(p, x)
    BY <2>1 DEF RatesInv
  <2> QED
    BY <2>1, <2>2, <1>1, <1>2 DEF Past, Sample
<1> QED
  BY <1>1, <1>2, <1>3 DEF RatesInv, IsBatch, Known, Apart, RatesPossible

(* What is read now is as far as the process has come.                     *)
LEMMA SampleInd ==
  ASSUME RatesInv, NEW w \in Samplers, NEW listed \in SUBSET Pids, sampleProcStats(w, listed)
  PROVE  RatesInv'
<1>1. clock \in Nat /\ ticks \in [Pids -> Nat] /\ UNCHANGED <<clock, ticks, prev, stats>>
  BY DEF RatesInv, sampleProcStats
<1> DEFINE batch == [p \in listed |-> [at |-> clock, ticks |-> ticks[p]]]
<1>2. reading' = [reading EXCEPT ![w] = batch] /\ DOMAIN reading = Samplers
  BY DEF sampleProcStats, RatesInv
<1>3. DOMAIN reading' = Samplers /\ reading'[w] = batch /\ \A s \in Samplers \ {w} : reading'[s] = reading[s]
  BY <1>2
<1>4. IsBatch(batch)
  BY <1>1 DEF IsBatch, Sample
<1>5. \A s \in Samplers : IsBatch(reading[s])' 
  BY <1>3, <1>4 DEF RatesInv, IsBatch
<1>6. \A p \in Pids : \A x : Known(p, x)' => \/ Known(p, x)
                                            \/ x = [at |-> clock, ticks |-> ticks[p]]
  BY <1>1, <1>3 DEF Known
<1>7. \A p \in Pids : \A x : Known(p, x) => x \in Sample /\ Past(p, x)
  BY DEF RatesInv, Known, IsBatch
<1>8. ASSUME NEW p \in Pids, NEW x, Known(p, x)'
      PROVE  Past(p, x)'
  BY <1>1, <1>6, <1>7, <1>8 DEF Past
<1>9. ASSUME NEW p \in Pids, NEW x, NEW y, Known(p, x)', Known(p, y)'
      PROVE  Apart(x, y)'
  <2> DEFINE now == [at |-> clock, ticks |-> ticks[p]]
  <2>1. CASE Known(p, x) /\ Known(p, y)
    BY <2>1 DEF RatesInv, Apart
  <2>2. CASE Known(p, x) /\ y = now
    BY <2>2, <1>1, <1>7 DEF Apart, Past, Sample
  <2>3. CASE x = now /\ Known(p, y)
    BY <2>3, <1>1, <1>7 DEF Apart, Past, Sample
  <2>4. CASE x = now /\ y = now
    BY <2>4, <1>1 DEF Apart
  <2> QED
    BY <2>1, <2>2, <2>3, <2>4, <1>6, <1>9
<1> QED
  BY <1>1, <1>3, <1>5, <1>8, <1>9 DEF RatesInv, IsBatch, RatesPossible

(* A batch that lands was known, and so was the one it is compared with.   *)
LEMMA LandInd ==
  ASSUME RatesInv, NEW w \in Samplers, onActivityProc(w)
  PROVE  RatesInv'
<1> DEFINE batch == reading[w]
<1>1. clock \in Nat /\ ticks \in [Pids -> Nat] /\ UNCHANGED <<clock, ticks>>
  BY DEF RatesInv, onActivityProc
<1>2. IsBatch(batch) /\ DOMAIN reading = Samplers
  BY DEF RatesInv
<1>3. DOMAIN reading' = Samplers /\ reading'[w] = <<>> /\ \A s \in Samplers \ {w} : reading'[s] = reading[s]
  BY <1>2 DEF onActivityProc
<1>4. \A s \in Samplers : IsBatch(reading[s])'
  BY <1>3, EmptyBatch DEF RatesInv, IsBatch
<1>5. \/ prev' = batch /\ stats' = [p \in DOMAIN batch |->
                           IF p \in DOMAIN prev THEN Rate(prev[p], batch[p]) ELSE Unknown]
      \/ UNCHANGED <<prev, stats>>
  BY DEF onActivityProc
<1>6. IsBatch(prev)'
  BY <1>2, <1>5 DEF RatesInv, IsBatch
<1>7. \A p \in Pids : \A x : Known(p, x)' => Known(p, x)
  <2> SUFFICES ASSUME NEW p \in Pids, NEW x, Known(p, x)' PROVE Known(p, x)
    OBVIOUS
  <2>1. CASE \E s \in Samplers : p \in DOMAIN reading'[s] /\ x = reading'[s][p]
    BY <2>1, <1>3, EmptyBatch DEF Known
  <2>2. CASE p \in DOMAIN prev' /\ x = prev'[p]
    BY <2>2, <1>5 DEF Known
  <2> QED
    BY <2>1, <2>2 DEF Known
<1>8. RatesPossible'
  <2>1. CASE UNCHANGED <<prev, stats>>
    BY <2>1 DEF RatesInv, RatesPossible
  <2>2. CASE stats' = [p \in DOMAIN batch |->
                         IF p \in DOMAIN prev THEN Rate(prev[p], batch[p]) ELSE Unknown]
    <3> SUFFICES ASSUME NEW p \in DOMAIN stats', stats'[p] # Unknown
                 PROVE  0 <= stats'[p].delta /\ stats'[p].delta <= stats'[p].over /\ stats'[p].over > 0
      BY DEF RatesPossible
    <3>1. p \in DOMAIN batch /\ p \in DOMAIN prev /\ stats'[p] = Rate(prev[p], batch[p])
      BY <2>2
    <3>2. p \in Pids /\ prev[p] \in Sample /\ batch[p] \in Sample
      BY <3>1, <1>2 DEF RatesInv, IsBatch
    <3>3. Known(p, prev[p]) /\ Known(p, batch[p])
      BY <3>1 DEF Known
    <3>4. Apart(prev[p], batch[p])
      BY <3>2, <3>3 DEF RatesInv
    <3> QED
      BY <3>1, <3>2, <3>4, RateOfApart
  <2> QED
    BY <2>1, <2>2, <1>5
<1>9. /\ \A p \in Pids : \A x : Known(p, x)' => Past(p, x)'
      /\ \A p \in Pids : \A x, y : Known(p, x)' /\ Known(p, y)' => Apart(x, y)'
  BY <1>1, <1>7 DEF RatesInv, Past, Apart
<1> QED
  BY <1>1, <1>3, <1>4, <1>6, <1>8, <1>9 DEF RatesInv

LEMMA RatesStep == RatesInv /\ [ProcNext]_procVars => RatesInv'
<1> SUFFICES ASSUME RatesInv, [ProcNext]_procVars PROVE RatesInv'
  OBVIOUS
<1>1. CASE Elapse
  BY <1>1, ElapseInd
<1>2. CASE \E p \in Pids : Reuse(p)
  BY <1>2, ReuseInd
<1>3. ASSUME NEW s \in Samplers, onActivityProc(s) PROVE RatesInv'
  BY <1>3, LandInd
<1>4. ASSUME NEW s \in Samplers, NEW listed \in SUBSET Pids, sampleProcStats(s, listed) PROVE RatesInv'
  BY <1>4, SampleInd
<1>5. CASE UNCHANGED procVars
  BY <1>5 DEF procVars, RatesInv, IsBatch, Known, Past, Apart, RatesPossible
<1> QED
  BY <1>1, <1>2, <1>3, <1>4, <1>5 DEF ProcNext

(* RatesPossible, for every number of backends and of readings in flight.  *)
THEOREM RatesAlwaysPossible == ProcSpec => []RatesPossible
<1>1. RatesInv => RatesPossible
  BY DEF RatesInv
<1> QED
  BY <1>1, RatesInit, RatesStep, PTL DEF ProcSpec

-----------------------------------------------------------------------------
(* The ring.                                                               *)

(* A ring that is not full starts at slot 0.                               *)
IsRing(r) ==
  /\ r.n \in 0..Cap /\ r.head \in 0..(Cap - 1) /\ (r.n < Cap => r.head = r.n)
  /\ DOMAIN r.buf = 0..(Cap - 1)

(* One turn of a ring is all that is ever taken off.                       *)
Wrap(x) == IF x < Cap THEN x ELSE x - Cap

LEMMA Turn == \A x \in 0..(2 * Cap - 1) : x % Cap = Wrap(x)
  BY CapAssumption DEF Wrap

(* The slot of the k-th sample.                                            *)
Slot(r, k) == IF r.n < Cap THEN k - 1
              ELSE IF r.head + k - 1 < Cap THEN r.head + k - 1 ELSE r.head + k - 1 - Cap

LEMMA OrderedSlot ==
  ASSUME NEW r, IsRing(r), NEW k \in 1..r.n
  PROVE  ordered(r)[k] = r.buf[Slot(r, k)]
<1> DEFINE start == (r.head - r.n + Cap) % Cap
<1>1. r.n \in 0..Cap /\ r.head \in 0..(Cap - 1) /\ (r.n < Cap => r.head = r.n) /\ Cap \in Nat \ {0}
  BY CapAssumption DEF IsRing
<1>2. start = IF r.n < Cap THEN 0 ELSE r.head
  <2>1. r.head - r.n + Cap \in 0..(2 * Cap - 1)
    BY <1>1
  <2>2. start = Wrap(r.head - r.n + Cap)
    BY <2>1, Turn
  <2> HIDE DEF start
  <2> QED
    BY <2>2, <1>1 DEF Wrap
<1>3. start + k - 1 \in 0..(2 * Cap - 1)
  <2> HIDE DEF start
  <2> QED
    BY <1>1, <1>2
<1>4. (start + k - 1) % Cap = Slot(r, k)
  <2>1. (start + k - 1) % Cap = Wrap(start + k - 1)
    BY <1>3, Turn
  <2> HIDE DEF start
  <2> QED
    BY <2>1, <1>1, <1>2 DEF Slot, Wrap
<1> QED
  BY <1>4 DEF ordered

(* A push is the new last sample; when the ring is full the first one goes.*)
LEMMA PushSlot ==
  ASSUME NEW r, IsRing(r), NEW b
  PROVE  LET new == push(r, b)
         IN  /\ IsRing(new)
             /\ new.n = IF r.n < Cap THEN r.n + 1 ELSE r.n
             /\ new.buf[Slot(new, new.n)] = b
             /\ \A k \in 1..(new.n - 1) :
                  new.buf[Slot(new, k)] = r.buf[Slot(r, IF r.n < Cap THEN k ELSE k + 1)]
<1> DEFINE new == push(r, b)
<1>1. r.n \in 0..Cap /\ r.head \in 0..(Cap - 1) /\ (r.n < Cap => r.head = r.n) /\ Cap \in Nat \ {0}
  BY CapAssumption DEF IsRing
<1>2. new.n = IF r.n < Cap THEN r.n + 1 ELSE r.n
  BY DEF push
<1>3. new.head = IF r.head + 1 < Cap THEN r.head + 1 ELSE 0
  <2>1. r.head + 1 \in 0..(2 * Cap - 1)
    BY <1>1
  <2>2. new.head = Wrap(r.head + 1)
    BY <2>1, Turn DEF push
  <2> HIDE DEF new
  <2> QED
    BY <2>2, <1>1 DEF Wrap
<1>4. new.buf = [r.buf EXCEPT ![r.head] = b] /\ DOMAIN r.buf = 0..(Cap - 1)
  BY DEF push, IsRing
<1>5. /\ DOMAIN new.buf = 0..(Cap - 1) /\ new.buf[r.head] = b
      /\ \A i \in 0..(Cap - 1) : i # r.head => new.buf[i] = r.buf[i]
  BY <1>4, <1>1
<1> HIDE DEF new
<1>6. IsRing(new)
  BY <1>1, <1>2, <1>3, <1>5 DEF IsRing
<1>7. Slot(new, new.n) = r.head
  BY <1>1, <1>2, <1>3 DEF Slot
<1>8. ASSUME NEW k \in 1..(new.n - 1)
      PROVE  LET old == Slot(r, IF r.n < Cap THEN k ELSE k + 1)
             IN  Slot(new, k) = old /\ old \in 0..(Cap - 1) /\ old # r.head
  BY <1>1, <1>2, <1>3, <1>8 DEF Slot
<1> QED
  BY <1>2, <1>5, <1>6, <1>7, <1>8 DEF new

(* So the ring and the window of the last samples move together.           *)
LEMMA PushIsWindow ==
  ASSUME NEW r, IsRing(r), NEW b
  PROVE  LET all == Append(ordered(r), b)
         IN  /\ IsRing(push(r, b))
             /\ ordered(push(r, b)) = IF Len(all) > Cap THEN Tail(all) ELSE all
<1> DEFINE w == ordered(r)
           new == push(r, b)
           S == {w[k] : k \in 1..r.n} \cup {b}
           all == Append(w, b)
           next == IF Len(all) > Cap THEN Tail(all) ELSE all
<1>1. r.n \in 0..Cap /\ Cap \in Nat \ {0}
  BY CapAssumption DEF IsRing
<1>2. /\ IsRing(new) /\ new.n = (IF r.n < Cap THEN r.n + 1 ELSE r.n)
      /\ new.buf[Slot(new, new.n)] = b
      /\ \A k \in 1..(new.n - 1) :
           new.buf[Slot(new, k)] = r.buf[Slot(r, IF r.n < Cap THEN k ELSE k + 1)]
  BY PushSlot
<1>3. w = [k \in 1..r.n |-> w[k]] /\ ordered(new) = [k \in 1..new.n |-> ordered(new)[k]]
  BY DEF ordered
<1>4. /\ \A k \in 1..r.n : w[k] = r.buf[Slot(r, k)]
      /\ \A k \in 1..new.n : ordered(new)[k] = new.buf[Slot(new, k)]
  BY <1>2, OrderedSlot
<1> HIDE DEF w, new
<1>5. w \in Seq(S) /\ Len(w) = r.n
  <2>1. w \in [1..r.n -> S] /\ r.n \in Nat
    BY <1>1, <1>3
  <2>2. w \in Seq(S)
    BY <2>1, SeqDef
  <2> QED
    BY <2>1, <2>2, LenProperties
<1>6. all \in Seq(S) /\ Len(all) = r.n + 1 /\ all[r.n + 1] = b /\ \A k \in 1..r.n : all[k] = w[k]
  BY <1>5, <1>1
<1> HIDE DEF all
<1>7. /\ next \in Seq(S) /\ Len(next) = new.n /\ next[new.n] = b
      /\ \A k \in 1..(new.n - 1) : next[k] = w[IF r.n < Cap THEN k ELSE k + 1]
  <2>1. CASE r.n < Cap
    BY <2>1, <1>1, <1>2, <1>6
  <2>2. CASE r.n = Cap
    BY <2>2, <1>1, <1>2, <1>6
  <2> QED
    BY <2>1, <2>2, <1>1
<1> HIDE DEF next
<1>8. \A k \in 1..new.n : next[k] = ordered(new)[k]
  <2> SUFFICES ASSUME NEW k \in 1..new.n PROVE next[k] = ordered(new)[k]
    OBVIOUS
  <2>1. CASE k = new.n
    BY <2>1, <1>2, <1>4, <1>7
  <2>2. CASE k # new.n
    <3>1. k \in 1..(new.n - 1) /\ (IF r.n < Cap THEN k ELSE k + 1) \in 1..r.n
      BY <2>2, <1>1, <1>2
    <3> QED
      BY <3>1, <1>2, <1>4, <1>7
  <2> QED
    BY <2>1, <2>2
<1>9. next = ordered(new)
  <2>1. next = [k \in 1..new.n |-> next[k]]
    BY <1>7, LenProperties
  <2> QED
    BY <2>1, <1>3, <1>8
<1> QED
  BY <1>2, <1>9 DEF w, new, all, next

RingInv == IsRing(ring) /\ RingIsWindow

LEMMA RingInit == Init => RingInv
<1> SUFFICES ASSUME Init PROVE RingInv
  OBVIOUS
<1>1. ring = newWaitRing /\ recent = <<>>
  BY DEF Init
<1>2. IsRing(newWaitRing)
  BY CapAssumption DEF IsRing, newWaitRing
<1>3. ordered(newWaitRing) = <<>>
  BY DEF ordered, newWaitRing
<1> QED
  BY <1>1, <1>2, <1>3 DEF RingInv, RingIsWindow

(* Only a sample of the table that lands moves the ring.                   *)
LEMMA RingMoves ==
  ASSUME [Next]_vars
  PROVE  UNCHANGED <<ring, recent>> \/ \E active : pushWaitBucket(active)
<1>1. CASE Browse
  BY <1>1 DEF Browse, Open, Back, Refresh, OpenWaits, openLogLink, cycleFilter, Arm, Confirm, Drill,
              drillActivityStatement, Key
<1>2. CASE Backend
  BY <1>2 DEF Backend, StartOperation, Advance, EndOperation
<1>3. CASE onActivityTick
  BY <1>3 DEF onActivityTick
<1>4. ASSUME NEW s \in Slots, Serve(s) PROVE UNCHANGED <<ring, recent>>
  BY <1>4 DEF Serve
<1>5. ASSUME NEW s \in Slots, Handle(s)
      PROVE  UNCHANGED <<ring, recent>> \/ \E active : pushWaitBucket(active)
  <2>1. CASE onActivityLoaded(s)
    BY <2>1 DEF onActivityLoaded
  <2> QED
    BY <2>1, <1>5 DEF Handle, onProgressLoaded, onLocksLoaded, onBackendAction, onActivityStatement
<1>6. CASE UNCHANGED vars
  BY <1>6 DEF vars
<1> QED
  BY <1>1, <1>2, <1>3, <1>4, <1>5, <1>6 DEF Next

(* RingIsWindow, for every size of the ring.                               *)
THEOREM RingAlwaysWindow == Spec => []RingIsWindow
<1>1. RingInv /\ [Next]_vars => RingInv'
  <2> SUFFICES ASSUME RingInv, [Next]_vars PROVE RingInv'
    OBVIOUS
  <2>1. CASE UNCHANGED <<ring, recent>>
    BY <2>1 DEF RingInv, IsRing, RingIsWindow, ordered
  <2>2. ASSUME NEW active, pushWaitBucket(active) PROVE RingInv'
    <3>1. ring' = push(ring, active) /\ recent = ordered(ring) /\ IsRing(ring)
      BY <2>2 DEF pushWaitBucket, RingInv, RingIsWindow
    <3>2. recent' = LET all == Append(ordered(ring), active) IN IF Len(all) > Cap THEN Tail(all) ELSE all
      BY <2>2, <3>1 DEF pushWaitBucket
    <3> QED
      BY <3>1, <3>2, PushIsWindow DEF RingInv, RingIsWindow
  <2> QED
    BY <2>1, <2>2, RingMoves
<1>2. RingInv => RingIsWindow
  BY DEF RingInv
<1> QED
  BY <1>1, <1>2, RingInit, PTL DEF Spec

-----------------------------------------------------------------------------
(* The samples.                                                            *)

(* A non-empty set of naturals has a least element ...                     *)
LEMMA LeastOf ==
  ASSUME NEW T \in SUBSET Nat, T # {}
  PROVE  \E x \in T : \A y \in T : x <= y
<1>1. \E R : IsWellFoundedOn(R, Nat) /\ \A x, y \in Nat : y < x => <<y, x>> \in R
  <2>1. \A x, y \in Nat : y < x => <<y, x>> \in OpToRel(<, Nat)
    BY DEF OpToRel
  <2> QED
    BY <2>1, NatLessThanWellFounded
<1>2. PICK R : IsWellFoundedOn(R, Nat) /\ \A x, y \in Nat : y < x => <<y, x>> \in R
  BY <1>1
<1>3. PICK x \in T : \A y \in T : ~(<<y, x>> \in R)
  BY <1>2, WFMin
<1>4. \A y \in T : ~(y < x)
  BY <1>2, <1>3
<1> QED
  BY <1>3, <1>4

(* ... so a set of them under a bound has a greatest.                      *)
LEMMA GreatestOf ==
  ASSUME NEW n \in Nat, NEW S \in SUBSET (0..n), S # {}
  PROVE  Max(S) \in S /\ \A y \in S : Max(S) >= y
<1> DEFINE T == {n - x : x \in S}
<1>1. T \in SUBSET Nat /\ T # {}
  <2>1. \A x \in S : n - x \in Nat
    OBVIOUS
  <2> QED
    BY <2>1
<1>2. PICK t \in T : \A y \in T : t <= y
  BY <1>1, LeastOf
<1>3. PICK x \in S : t = n - x
  BY <1>2
<1>4. \A y \in S : x >= y
  <2> SUFFICES ASSUME NEW y \in S PROVE x >= y
    OBVIOUS
  <2>1. n - x <= n - y
    BY <1>2, <1>3
  <2> QED
    BY <2>1
<1> QED
  BY <1>3, <1>4 DEF Max

LEMMA GreaterOfTwo ==
  ASSUME NEW a \in Int, NEW b \in Int
  PROVE  Max({a} \cup {b}) \in {a, b} /\ Max({a} \cup {b}) >= a /\ Max({a} \cup {b}) >= b
<1>1. {a} \cup {b} = {a, b}
  OBVIOUS
<1>2. \E x \in {a, b} : \A y \in {a, b} : x >= y
  <2>1. CASE a >= b
    BY <2>1
  <2>2. CASE ~(a >= b)
    BY <2>2
  <2> QED
    BY <2>1, <2>2
<1> QED
  BY <1>1, <1>2 DEF Max

LEMMA GreatestOfThree ==
  ASSUME NEW a \in Int, NEW b \in Int, NEW c \in Int
  PROVE  Max({a, b, c}) \in {a, b, c} /\ \A x \in {a, b, c} : Max({a, b, c}) >= x
<1>1. PICK d \in {a, b} : d >= a /\ d >= b
  BY GreaterOfTwo
<1>2. \E x \in {a, b, c} : \A y \in {a, b, c} : x >= y
  <2>1. CASE d >= c
    BY <1>1, <2>1
  <2>2. CASE ~(d >= c)
    BY <1>1, <2>2
  <2> QED
    BY <2>1, <2>2
<1> QED
  BY <1>2 DEF Max

(* What a percent is of, and how far it has got: that of any row of the    *)
(* progress views is a number.                                             *)
Percent == [relid : Relations, pct : Int]
Seen(m) == m \in Percent /\ m.pct <= reached[m.relid]

Screens ==
  [level : Levels, filter : Filters, rows : Filters \cup {None}, mark : Percent \cup {None},
   pendingAction : BOOLEAN, loading : BOOLEAN, detail : Queries \cup {None}]

Commands ==
  [kind : {"activity"}, filter : Filters]
    \cup [kind : {"locks", "progress", "signal"}]
    \cup [kind : {"statement"}, query : Queries]
Replies ==
  [kind : {"activityLoaded"}, ok : {TRUE}, filter : Filters, active : BOOLEAN, row : Percent \cup {None}]
    \cup [kind : {"progressLoaded"}, ok : {TRUE}, row : Percent \cup {None}]
    \cup [kind : {"activityLoaded", "progressLoaded"}, ok : {FALSE}]
    \cup [kind : {"lockTreeLoaded", "backendAction"}]
    \cup [kind : {"activityStatement"}, query : Queries]
Carried == Commands \cup Replies \cup {None}

Operations == [relid : Relations, phase : Nat, done : Nat]

Lookup(m) == m # None /\ m.kind \in {"statement", "activityStatement"}
Brings(m) == m # None /\ m.kind \in {"activityLoaded", "progressLoaded"} /\ m.ok

(* The table is at the bottom of a stack.                                  *)
Stacked(stk) ==
  /\ stk \in Seq(Screens)
  /\ stk # <<>> => stk[1].level = "activity"

(* Only the screen on top waits for a detail.                              *)
Bare(stk) == \A i \in 1..(Len(stk) - 1) : ~Placeholder(stk[i])

Waits(stk) == stk # <<>> /\ Placeholder(stk[Len(stk)])
Marks(stk) == {stk[i].mark : i \in DOMAIN stk}

(* A placeholder has a lookup on its way, if not always its own.           *)
Served == Bare(stack) /\ (Waits(stack) => \E s \in Slots : Lookup(net[s]))

(* No row that is shown, on its way, or in the view is further than the    *)
(* operations on its relation have been.                                   *)
MarksSeen == \A m \in Marks(stack) : m # None => Seen(m)
RowsSeen  == \A s \in Slots : Brings(net[s]) /\ net[s].row # None => Seen(net[s].row)
OpSeen    == op # None => \A row \in RowsOf(op) : Seen(row)

Typed ==
  /\ session \in Sessions /\ op \in Operations \cup {None} /\ ops \in Nat
  /\ reached \in [Relations -> Int] /\ net \in [Slots -> Carried]

SampledInv == Typed /\ Stacked(stack) /\ MarksSeen /\ RowsSeen /\ OpSeen

(* What a step keeps that opens nothing above a placeholder.               *)
Kept == SampledInv' /\ (Served => Served')

LEMMA SampledInit == Init => SampledInv
<1> SUFFICES ASSUME Init PROVE SampledInv
  OBVIOUS
<1>1. stack = <<>> /\ net = [s \in Slots |-> None] /\ op = None
  BY DEF Init
<1>2. Stacked(<<>>) /\ ~Waits(<<>>) /\ Marks(<<>>) = {}
  BY DEF Stacked, Waits, Marks
<1>3. Typed
  BY DEF Init, Typed, Carried, Unmapped
<1> QED
  BY <1>1, <1>2, <1>3 DEF SampledInv, MarksSeen, RowsSeen, OpSeen, Brings

-----------------------------------------------------------------------------
(* The stack, of which a step replaces one screen, takes the top or puts   *)
(* one on.                                                                 *)

LEMMA Replaced ==
  ASSUME NEW stk, Stacked(stk), NEW i \in DOMAIN stk, NEW x \in Screens,
         x.level = stk[i].level, Placeholder(x) => Placeholder(stk[i]),
         NEW new, new = [stk EXCEPT ![i] = x]
  PROVE  /\ Stacked(new) /\ (Waits(new) => Waits(stk)) /\ Marks(new) \subseteq Marks(stk) \cup {x.mark}
         /\ Bare(stk) => Bare(new)
<1>1. stk \in Seq(Screens)
  BY DEF Stacked
<1>2. new \in Seq(Screens) /\ Len(new) = Len(stk) /\ DOMAIN new = DOMAIN stk
  BY <1>1
<1>3. \A j \in DOMAIN stk : new[j] = IF j = i THEN x ELSE stk[j]
  BY <1>1
<1>4. DOMAIN stk = 1..Len(stk) /\ Len(stk) \in Nat
  BY <1>1
<1>5. Marks(new) \subseteq Marks(stk) \cup {x.mark}
  BY <1>2, <1>3 DEF Marks
<1>6. Waits(new) => Waits(stk)
  BY <1>2, <1>3, <1>4 DEF Waits
<1>7. new # <<>> => new[1].level = "activity"
  <2>1. stk # <<>> /\ 1 \in DOMAIN stk
    BY <1>4
  <2> QED
    BY <2>1, <1>3 DEF Stacked
<1>8. Bare(stk) => Bare(new)
  BY <1>2, <1>3, <1>4 DEF Bare
<1> QED
  BY <1>2, <1>5, <1>6, <1>7, <1>8 DEF Stacked

LEMMA Popped ==
  ASSUME NEW stk, Stacked(stk), stk # <<>>, NEW new, new = SubSeq(stk, 1, Len(stk) - 1)
  PROVE  /\ Stacked(new) /\ Marks(new) \subseteq Marks(stk)
         /\ Bare(stk) => Bare(new) /\ ~Waits(new)
         /\ new = <<>> => Len(stk) = 1
<1>1. stk \in Seq(Screens) /\ Len(stk) \in Nat \ {0} /\ DOMAIN stk = 1..Len(stk)
  <2>1. stk \in Seq(Screens)
    BY DEF Stacked
  <2> QED
    BY <2>1, EmptySeq
<1>2. PICK n \in Nat : n = Len(stk) - 1
  <2>1. \A k \in Nat \ {0} : k - 1 \in Nat
    OBVIOUS
  <2> QED
    BY <1>1, <2>1
<1>3. \A i \in 1..n : stk[i] \in Screens
  <2> SUFFICES ASSUME NEW i \in 1..n PROVE stk[i] \in Screens
    OBVIOUS
  <2>1. i \in 1..Len(stk)
    BY <1>1, <1>2
  <2> QED
    BY <1>1, <2>1, ElementOfSeq
<1>4. new \in Seq(Screens) /\ Len(new) = n /\ \A i \in 1..n : new[i] = stk[i]
  <2>1. new = SubSeq(stk, 1, n)
    BY <1>2
  <2>2. /\ SubSeq(stk, 1, n) \in Seq(Screens)
        /\ Len(SubSeq(stk, 1, n)) = IF 1 <= n THEN n - 1 + 1 ELSE 0
        /\ \A i \in 1..(n - 1 + 1) : SubSeq(stk, 1, n)[i] = stk[1 + i - 1]
    BY <1>3, SubSeqProperties
  <2> QED
    BY <2>1, <2>2
<1>5. DOMAIN new = 1..n /\ (new # <<>> => n >= 1)
  BY <1>4
<1>6. Marks(new) \subseteq Marks(stk)
  BY <1>1, <1>2, <1>4, <1>5 DEF Marks
<1>7. Bare(stk) => \A i \in 1..n : ~Placeholder(new[i])
  BY <1>2, <1>4 DEF Bare
<1>8. Bare(stk) => Bare(new) /\ ~Waits(new)
  <2>1. 1..(Len(new) - 1) \subseteq 1..n
    BY <1>4
  <2> QED
    BY <1>4, <1>5, <1>7, <2>1 DEF Waits, Bare
<1>9. new # <<>> => new[1].level = "activity"
  BY <1>4, <1>5 DEF Stacked
<1>10. new = <<>> => Len(stk) = 1
  <2>1. new = <<>> => n = 0
    BY <1>4
  <2>2. \A k \in Nat : k - 1 = 0 => k = 1
    OBVIOUS
  <2> QED
    BY <1>1, <1>2, <2>1, <2>2
<1> QED
  BY <1>4, <1>6, <1>7, <1>8, <1>9, <1>10 DEF Stacked

LEMMA Pushed ==
  ASSUME NEW stk, Stacked(stk), NEW x \in Screens, stk = <<>> => x.level = "activity",
         NEW new, new = Append(stk, x)
  PROVE  /\ Stacked(new) /\ (Waits(new) => Placeholder(x)) /\ Marks(new) \subseteq Marks(stk) \cup {x.mark}
         /\ Bare(stk) /\ ~Waits(stk) => Bare(new)
<1>1. stk \in Seq(Screens) /\ Len(stk) \in Nat /\ DOMAIN stk = 1..Len(stk)
  BY DEF Stacked
<1>2. /\ new \in Seq(Screens) /\ Len(new) = Len(stk) + 1
      /\ \A i \in 1..Len(stk) : new[i] = stk[i]
      /\ new[Len(stk) + 1] = x
  BY <1>1, AppendProperties
<1>3. DOMAIN new = 1..(Len(stk) + 1)
  BY <1>2
<1>4. Marks(new) \subseteq Marks(stk) \cup {x.mark}
  BY <1>1, <1>2, <1>3 DEF Marks
<1>5. Waits(new) => Placeholder(x)
  BY <1>2 DEF Waits
<1>6. new[1].level = "activity"
  <2>1. CASE stk = <<>>
    BY <1>2, <2>1
  <2>2. CASE stk # <<>>
    <3>1. 1 \in 1..Len(stk)
      BY <1>1, <2>2
    <3> QED
      BY <1>2, <2>2, <3>1 DEF Stacked
  <2> QED
    BY <2>1, <2>2
<1>7. Bare(stk) /\ ~Waits(stk) => \A i \in 1..Len(stk) : ~Placeholder(stk[i])
  <2>1. Len(stk) >= 1 => stk # <<>>
    OBVIOUS
  <2> QED
    BY <1>1, <2>1 DEF Bare, Waits
<1>8. Bare(stk) /\ ~Waits(stk) => Bare(new)
  BY <1>1, <1>2, <1>7 DEF Bare
<1> QED
  BY <1>2, <1>4, <1>5, <1>6, <1>8 DEF Stacked

(* findLevel finds a screen of its level, and misses none.                 *)
LEMMA LevelFound ==
  ASSUME Stacked(stack), NEW l
  PROVE  /\ findLevel(l) # 0 => findLevel(l) \in DOMAIN stack /\ stack[findLevel(l)].level = l
         /\ (\E i \in DOMAIN stack : stack[i].level = l) => findLevel(l) # 0
<1> DEFINE S == {0} \cup {i \in DOMAIN stack : stack[i].level = l}
<1>1. stack \in Seq(Screens) /\ Len(stack) \in Nat /\ DOMAIN stack = 1..Len(stack)
  BY DEF Stacked
<1>2. S \in SUBSET (0..Len(stack)) /\ S # {}
  BY <1>1
<1>3. Max(S) \in S /\ \A y \in S : Max(S) >= y
  BY <1>1, <1>2, GreatestOf
<1>4. findLevel(l) = Max(S)
  BY DEF findLevel
<1> QED
  BY <1>1, <1>3, <1>4

LEMMA OnStack ==
  ASSUME Stacked(stack), stack # <<>>
  PROVE  /\ Len(stack) \in DOMAIN stack /\ Top \in Screens
         /\ findLevel("activity") # 0
<1>1. stack \in Seq(Screens) /\ Len(stack) \in Nat \ {0} /\ DOMAIN stack = 1..Len(stack)
  BY DEF Stacked
<1>2. 1 \in DOMAIN stack /\ Len(stack) \in DOMAIN stack
  BY <1>1
<1>3. findLevel("activity") # 0
  BY <1>2, LevelFound DEF Stacked
<1> QED
  BY <1>1, <1>2, <1>3, ElementOfSeq DEF Top

-----------------------------------------------------------------------------
(* The network, of which a step moves one slot.                            *)
LEMMA SlotMoved ==
  ASSUME SampledInv, UNCHANGED reached, NEW s \in Slots, NEW c \in Carried,
         net' = [net EXCEPT ![s] = c],
         Brings(c) /\ c.row # None => Seen(c.row)
  PROVE  /\ net' \in [Slots -> Carried] /\ RowsSeen'
         /\ Lookup(c) => \E r \in Slots : Lookup(net'[r])
         /\ ~Lookup(net[s]) /\ (\E r \in Slots : Lookup(net[r])) => \E r \in Slots : Lookup(net'[r])
<1>1. net \in [Slots -> Carried]
  BY DEF SampledInv, Typed
<1>2. net' \in [Slots -> Carried] /\ \A r \in Slots : net'[r] = IF r = s THEN c ELSE net[r]
  BY <1>1
<1>3. RowsSeen'
  <2>1. ASSUME NEW r \in Slots, Brings(net'[r]), net'[r].row # None
        PROVE  net'[r].row \in Percent /\ net'[r].row.pct <= reached[net'[r].row.relid]
    <3>1. CASE r = s
      BY <1>2, <2>1, <3>1 DEF Seen
    <3>2. CASE r # s
      BY <1>2, <2>1, <3>2 DEF Seen, SampledInv, RowsSeen
    <3> QED
      BY <3>1, <3>2
  <2> QED
    BY <2>1 DEF RowsSeen, Brings, Seen
<1>4. Lookup(c) => \E r \in Slots : Lookup(net'[r])
  BY <1>2
<1>5. ASSUME ~Lookup(net[s]), NEW r \in Slots, Lookup(net[r]) PROVE Lookup(net'[r])
  BY <1>2, <1>5
<1> QED
  BY <1>2, <1>3, <1>4, <1>5

(* Commands bring no row.                                                  *)
LEMMA CommandsBringNone ==
  /\ \A f \in Filters : LoadActivity(f) \in Commands /\ ~Lookup(LoadActivity(f))
  /\ LoadLockTree \in Commands /\ ~Lookup(LoadLockTree)
  /\ LoadProgress \in Commands /\ ~Lookup(LoadProgress)
  /\ SignalBackend \in Commands /\ ~Lookup(SignalBackend)
  /\ \A q \in Queries : LoadStatement(q) \in Commands /\ Lookup(LoadStatement(q))
  /\ \A c \in Commands : c \in Carried /\ ~Brings(c)
  /\ \A l : \A f \in Filters : LoadOf(l, f) \in Commands
<1>1. \A q \in Queries : LoadStatement(q) # None
  BY SessionsAssumption DEF LoadStatement
<1>2. \A l : \A f \in Filters : LoadOf(l, f) \in Commands
  BY DEF LoadOf, LoadLockTree, LoadProgress, LoadActivity, Commands
<1>3. \A c \in Commands : c \in Carried /\ ~Brings(c)
  BY DEF Commands, Carried, Brings
<1> QED
  BY <1>1, <1>2, <1>3
     DEF LoadActivity, LoadLockTree, LoadProgress, SignalBackend, LoadStatement, Commands, Lookup

LEMMA Sent ==
  ASSUME SampledInv, UNCHANGED reached, NEW c \in Commands, Send(c)
  PROVE  /\ net' \in [Slots -> Carried] /\ RowsSeen'
         /\ Lookup(c) => \E r \in Slots : Lookup(net'[r])
         /\ (\E r \in Slots : Lookup(net[r])) => \E r \in Slots : Lookup(net'[r])
<1>1. PICK s \in Slots : net[s] = None /\ net' = [net EXCEPT ![s] = c]
  BY DEF Send
<1>2. c \in Carried /\ ~Brings(c) /\ ~Lookup(net[s])
  BY <1>1, CommandsBringNone DEF Lookup
<1> QED
  BY <1>1, <1>2, SlotMoved

(* A step of a key or a message leaves the server and the session alone.   *)
LEMMA MarksKeep ==
  ASSUME SampledInv, UNCHANGED <<session, server>>, net' \in [Slots -> Carried], RowsSeen',
         Stacked(stack'),
         \A m \in Marks(stack') : m # None => m \in Marks(stack) \/ Seen(m)
  PROVE  SampledInv'
<1>1. Typed' /\ OpSeen'
  BY DEF SampledInv, Typed, OpSeen, server, RowsOf, Row, Seen
<1>2. MarksSeen'
  BY DEF SampledInv, MarksSeen, Seen, server
<1> QED
  BY <1>1, <1>2 DEF SampledInv

LEMMA StepKeeps ==
  ASSUME SampledInv, UNCHANGED <<session, server>>, net' \in [Slots -> Carried], RowsSeen',
         Stacked(stack'), Served => Served',
         \A m \in Marks(stack') : m # None => m \in Marks(stack) \/ Seen(m)
  PROVE  Kept
  BY MarksKeep DEF Kept

(* Loading a screen again, which is no detail.                             *)
LEMMA LoadKeeps ==
  ASSUME SampledInv, UNCHANGED <<session, server>>, NEW st, Stacked(st), st # <<>>,
         st[Len(st)].level # "detail", Marks(st) \subseteq Marks(stack) \cup {None}, loadCurrent(st),
         Bare(stack) => Bare(st)
  PROVE  Kept
<1>1. st \in Seq(Screens) /\ Len(st) \in DOMAIN st
  <2>1. st \in Seq(Screens)
    BY DEF Stacked
  <2> QED
    BY <2>1, EmptySeq
<1>2. PICK x : x = [st[Len(st)] EXCEPT !.loading = TRUE]
  OBVIOUS
<1>3. st[Len(st)] \in Screens
  BY <1>1, ElementOfSeq
<1>4. x \in Screens /\ x.level = st[Len(st)].level /\ x.mark = st[Len(st)].mark /\ st[Len(st)].filter \in Filters
  BY <1>2, <1>3 DEF Screens
<1>5. ~Placeholder(x) /\ ~Waits(st)
  BY <1>4 DEF Placeholder, Waits
<1>6. stack' = [st EXCEPT ![Len(st)] = x]
  BY <1>1, <1>2 DEF loadCurrent, Loading
<1>7. /\ Stacked(stack') /\ ~Waits(stack') /\ Marks(stack') \subseteq Marks(st) \cup {x.mark}
      /\ Served => Served'
  BY <1>1, <1>4, <1>5, <1>6, Replaced DEF Served
<1>8. x.mark \in Marks(st)
  BY <1>1, <1>4 DEF Marks
<1>9. net' \in [Slots -> Carried] /\ RowsSeen'
  <2>1. PICK c \in Commands : Send(c)
    BY <1>4, CommandsBringNone DEF loadCurrent
  <2> QED
    BY <2>1, Sent DEF server
<1> QED
  BY <1>7, <1>8, <1>9, StepKeeps

(* One screen is replaced, and no placeholder put up.                      *)
LEMMA ScreenKeeps ==
  ASSUME SampledInv, UNCHANGED <<session, server>>, net' \in [Slots -> Carried], RowsSeen',
         (\E s \in Slots : Lookup(net[s])) => \E s \in Slots : Lookup(net'[s]),
         NEW i \in DOMAIN stack, NEW x \in Screens, x.level = stack[i].level,
         Placeholder(x) => Placeholder(stack[i]),
         x.mark # None => x.mark = stack[i].mark \/ Seen(x.mark),
         stack' = [stack EXCEPT ![i] = x]
  PROVE  Kept
<1>1. Stacked(stack)
  BY DEF SampledInv
<1>2. /\ Stacked(stack') /\ Marks(stack') \subseteq Marks(stack) \cup {x.mark}
      /\ Served => Served'
  BY <1>1, Replaced DEF Served
<1>3. stack[i].mark \in Marks(stack)
  BY DEF Marks
<1> QED
  BY <1>2, <1>3, StepKeeps

(* A step off the stack.                                                   *)
LEMMA OffKeeps ==
  ASSUME SampledInv, UNCHANGED <<session, server, stack>>, net' \in [Slots -> Carried], RowsSeen',
         (\E s \in Slots : Lookup(net[s])) => \E s \in Slots : Lookup(net'[s])
  PROVE  Kept
  BY StepKeeps DEF SampledInv, Served

LEMMA QuietKeeps ==
  ASSUME SampledInv, UNCHANGED <<session, server, net>>
  PROVE  net' \in [Slots -> Carried] /\ RowsSeen'
  BY DEF SampledInv, Typed, RowsSeen, server, Seen

-----------------------------------------------------------------------------
(* Keys.                                                                   *)

LEMMA NewScreen ==
  ASSUME NEW l \in Levels
  PROVE  /\ screen(l) \in Screens /\ screen(l).level = l /\ screen(l).mark = None
         /\ Placeholder(screen(l)) => l = "detail"
<1>1. "active+waiting" \in Filters
  BY DEF Filters
<1> QED
  BY <1>1 DEF screen, Screens, Placeholder

(* Only a detail waits for one.                                            *)
LEMMA TopWaitsNot ==
  ASSUME SampledInv, NEW l, On(l), l # "detail"
  PROVE  /\ stack # <<>> /\ Len(stack) \in DOMAIN stack /\ Top \in Screens /\ Top.level = l
         /\ ~Waits(stack) /\ ~Placeholder(Top)
  BY OnStack DEF SampledInv, On, Waits, Placeholder, Top

LEMMA OpenKeeps == SampledInv /\ Open => Kept
<1> SUFFICES ASSUME SampledInv, Open PROVE Kept
  OBVIOUS
<1>1. "activity" \in Levels
  BY DEF Levels, Live
<1>2. PICK st : st = <<screen("activity")>>
  OBVIOUS
<1>3. st = Append(<<>>, screen("activity")) /\ Len(st) = 1 /\ st[1] = screen("activity") /\ st # <<>>
  BY <1>2
<1>4. Stacked(<<>>) /\ ~Waits(<<>>) /\ Marks(<<>>) = {}
  BY DEF Stacked, Waits, Marks
<1>5. Stacked(st) /\ Bare(st) /\ Marks(st) \subseteq {None}
  <2>1. Bare(st)
    BY <1>3 DEF Bare
  <2> QED
    BY <1>1, <1>3, <1>4, <2>1, Pushed, NewScreen
<1>6. st[Len(st)].level = "activity"
  BY <1>1, <1>3, NewScreen
<1> QED
  BY <1>2, <1>3, <1>5, <1>6, LoadKeeps DEF Open, Key

LEMMA BackKeeps == SampledInv /\ Back => Kept
<1> SUFFICES ASSUME SampledInv, Back PROVE Kept
  OBVIOUS
<1>1. stack # <<>> /\ stack' = SubSeq(stack, 1, Len(stack) - 1) /\ UNCHANGED <<session, server, net>>
  BY DEF Back, Key, Pop
<1>2. Stacked(stack') /\ (Served => Served') /\ Marks(stack') \subseteq Marks(stack)
  BY <1>1, Popped DEF SampledInv, Served
<1> QED
  BY <1>1, <1>2, QuietKeeps, StepKeeps

LEMMA DrillKeeps ==
  ASSUME SampledInv, NEW k, NEW l \in {"locks", "progress"}, Drill(k, l)
  PROVE  Kept
<1>1. l \in Levels /\ On("activity") /\ loadCurrent(Append(stack, screen(l))) /\ UNCHANGED <<session, server>>
  BY DEF Drill, Key, Levels, Live
<1>2. stack # <<>> /\ ~Waits(stack) /\ Stacked(stack)
  BY <1>1, TopWaitsNot DEF SampledInv
<1>3. PICK st : st = Append(stack, screen(l))
  OBVIOUS
<1>4. Stacked(st) /\ Marks(st) \subseteq Marks(stack) \cup {None} /\ (Bare(stack) => Bare(st))
  BY <1>1, <1>2, <1>3, Pushed, NewScreen
<1>5. st # <<>> /\ st[Len(st)] = screen(l)
  BY <1>2, <1>3, AppendProperties, NewScreen, <1>1 DEF Stacked
<1> QED
  BY <1>1, <1>3, <1>4, <1>5, NewScreen, LoadKeeps

LEMMA OpenWaitsKeeps == SampledInv /\ OpenWaits => Kept
<1> SUFFICES ASSUME SampledInv, OpenWaits PROVE Kept
  OBVIOUS
<1>1. On("activity") /\ stack' = Append(stack, screen("waits")) /\ UNCHANGED <<session, server, net>>
  BY DEF OpenWaits, Key
<1>2. "waits" \in Levels
  BY DEF Levels, Live
<1>3. stack # <<>> /\ ~Waits(stack) /\ Stacked(stack)
  BY <1>1, TopWaitsNot DEF SampledInv
<1>4. Stacked(stack') /\ (Served => Served') /\ Marks(stack') \subseteq Marks(stack) \cup {None}
  BY <1>1, <1>2, <1>3, Pushed, NewScreen DEF Served
<1> QED
  BY <1>1, <1>4, QuietKeeps, StepKeeps

(* The log is opened above a detail, be it loading or not.                 *)
LEMMA OpenLogKeeps ==
  ASSUME SampledInv, openLogLink
  PROVE  SampledInv'
<1>1. On("detail") /\ stack' = Append(stack, screen("logs")) /\ UNCHANGED <<session, server, net>>
  BY DEF openLogLink, Key
<1>2. "logs" \in Levels
  BY DEF Levels, Live
<1>3. Stacked(stack') /\ Marks(stack') \subseteq Marks(stack) \cup {None}
  BY <1>1, <1>2, Pushed, NewScreen DEF SampledInv, On
<1>4. net' \in [Slots -> Carried] /\ RowsSeen'
  BY <1>1, QuietKeeps
<1> QED
  BY <1>1, <1>3, <1>4, MarksKeep

(* One flag of the top is moved.                                           *)
LEMMA TopKeeps ==
  ASSUME SampledInv, UNCHANGED <<session, server>>, net' \in [Slots -> Carried], RowsSeen',
         (\E s \in Slots : Lookup(net[s])) => \E s \in Slots : Lookup(net'[s]),
         stack # <<>>, NEW x \in Screens, x.level = Top.level, x.mark = Top.mark,
         Placeholder(x) => Placeholder(Top),
         stack' = [stack EXCEPT ![Len(stack)] = x]
  PROVE  Kept
<1>1. Len(stack) \in DOMAIN stack /\ Top = stack[Len(stack)]
  BY OnStack DEF SampledInv, Top
<1> QED
  BY <1>1, ScreenKeeps

LEMMA RefreshKeeps == SampledInv /\ Refresh => Kept
<1> SUFFICES ASSUME SampledInv, Refresh PROVE Kept
  OBVIOUS
<1>1. stack # <<>> /\ UNCHANGED <<session, server>> /\ Stacked(stack)
  BY DEF Refresh, Key, SampledInv
<1>2. Len(stack) \in DOMAIN stack /\ Top \in Screens /\ Top = stack[Len(stack)]
  BY <1>1, OnStack DEF Top
<1>3. CASE Top.level \in Live \ {"waits"} /\ loadCurrent(stack)
  BY <1>1, <1>2, <1>3, LoadKeeps DEF Live
<1>4. ASSUME NEW b \in BOOLEAN, b => Top.level # "detail", UNCHANGED net,
             stack' = [stack EXCEPT ![Len(stack)] = [Top EXCEPT !.loading = b]]
      PROVE  Kept
  <2>1. PICK x : x = [Top EXCEPT !.loading = b]
    OBVIOUS
  <2>2. x \in Screens /\ x.level = Top.level /\ x.mark = Top.mark /\ ~Placeholder(x)
    BY <1>2, <1>4, <2>1 DEF Screens, Placeholder
  <2>3. net' \in [Slots -> Carried] /\ RowsSeen'
    BY <1>1, <1>4, QuietKeeps
  <2> QED
    BY <1>1, <1>4, <2>1, <2>2, <2>3, TopKeeps
<1>5. CASE On("detail") /\ stack' = [stack EXCEPT ![Len(stack)].loading = FALSE] /\ UNCHANGED <<ticking, net>>
  <2>1. stack' = [stack EXCEPT ![Len(stack)] = [Top EXCEPT !.loading = FALSE]]
    BY <1>2, <1>5
  <2> QED
    BY <1>4, <1>5, <2>1
<1>6. CASE On("waits") /\ stack' = Loading(stack) /\ UNCHANGED <<ticking, net>>
  <2>1. stack' = [stack EXCEPT ![Len(stack)] = [Top EXCEPT !.loading = TRUE]] /\ Top.level # "detail"
    BY <1>2, <1>6 DEF Loading, On
  <2> QED
    BY <1>4, <1>6, <2>1
<1> QED
  BY <1>3, <1>5, <1>6 DEF Refresh

LEMMA FilterKeeps == SampledInv /\ cycleFilter => Kept
<1> SUFFICES ASSUME SampledInv, cycleFilter PROVE Kept
  OBVIOUS
<1>1. On("activity") /\ UNCHANGED <<session, server>>
  BY DEF cycleFilter, Key
<1>2. stack # <<>> /\ Len(stack) \in DOMAIN stack /\ Top \in Screens /\ Top = stack[Len(stack)]
  BY <1>1, TopWaitsNot DEF Top
<1>3. PICK f \in Filters : f = NextFilter[Top.filter]
  <2>1. Top.filter \in Filters
    BY <1>2 DEF Screens
  <2>2. \A g \in Filters : NextFilter[g] \in Filters
    BY DEF NextFilter, Filters
  <2> QED
    BY <2>1, <2>2
<1>4. PICK x : x = [Top EXCEPT !.filter = f]
  OBVIOUS
<1>5. x \in Screens /\ x.level = Top.level /\ x.mark = Top.mark /\ (Placeholder(x) => Placeholder(Top))
  BY <1>2, <1>4 DEF Screens, Placeholder
<1>6. stack' = [stack EXCEPT ![Len(stack)] = x] /\ Send(LoadActivity(f))
  BY <1>2, <1>3, <1>4 DEF cycleFilter
<1>7. /\ net' \in [Slots -> Carried] /\ RowsSeen'
      /\ (\E s \in Slots : Lookup(net[s])) => \E s \in Slots : Lookup(net'[s])
  BY <1>1, <1>6, CommandsBringNone, Sent DEF server
<1> QED
  BY <1>1, <1>2, <1>5, <1>6, <1>7, TopKeeps

LEMMA EnterKeeps ==
  ASSUME SampledInv, NEW q \in Queries, drillActivityStatement(q)
  PROVE  Kept
<1>1. /\ On("activity") /\ UNCHANGED <<session, server>>
      /\ stack' = Append(stack, screen("detail")) /\ Send(LoadStatement(q))
  BY DEF drillActivityStatement, Key
<1>2. "detail" \in Levels
  BY DEF Levels, Live
<1>3. stack # <<>> /\ ~Waits(stack) /\ Stacked(stack)
  BY <1>1, TopWaitsNot DEF SampledInv
<1>4. Stacked(stack') /\ Marks(stack') \subseteq Marks(stack) \cup {None} /\ (Bare(stack) => Bare(stack'))
  BY <1>1, <1>2, <1>3, Pushed, NewScreen
<1>5. net' \in [Slots -> Carried] /\ RowsSeen' /\ \E s \in Slots : Lookup(net'[s])
  BY <1>1, CommandsBringNone, Sent DEF server
<1>6. Served => Served'
  BY <1>4, <1>5 DEF Served
<1> QED
  BY <1>1, <1>4, <1>5, <1>6, StepKeeps

LEMMA PromptKeeps == SampledInv /\ (Arm \/ Confirm) => Kept
<1> SUFFICES ASSUME SampledInv, Arm \/ Confirm PROVE Kept
  OBVIOUS
<1>1. stack # <<>> /\ UNCHANGED <<session, server>>
  BY DEF Arm, Confirm, Key, On, NoPrompt
<1>2. Len(stack) \in DOMAIN stack /\ Top \in Screens /\ Top = stack[Len(stack)]
  BY <1>1, OnStack DEF SampledInv, Top
<1>3. PICK b \in BOOLEAN : stack' = [stack EXCEPT ![Len(stack)] = [Top EXCEPT !.pendingAction = b]]
  BY <1>2 DEF Arm, Confirm
<1>4. PICK x : x = [Top EXCEPT !.pendingAction = b]
  OBVIOUS
<1>5. x \in Screens /\ x.level = Top.level /\ x.mark = Top.mark /\ (Placeholder(x) => Placeholder(Top))
  BY <1>2, <1>4 DEF Screens, Placeholder
<1>6. /\ net' \in [Slots -> Carried] /\ RowsSeen'
      /\ (\E s \in Slots : Lookup(net[s])) => \E s \in Slots : Lookup(net'[s])
  <2>1. CASE UNCHANGED net
    BY <1>1, <2>1, QuietKeeps
  <2>2. CASE Send(SignalBackend)
    BY <1>1, <2>2, CommandsBringNone, Sent DEF server
  <2> QED
    BY <2>1, <2>2 DEF Arm, Confirm
<1> QED
  BY <1>1, <1>3, <1>4, <1>5, <1>6, TopKeeps

LEMMA BrowseKeeps == SampledInv /\ Browse => Kept \/ (openLogLink /\ SampledInv')
  BY OpenLogKeeps, OpenKeeps, BackKeeps, DrillKeeps, OpenWaitsKeeps, RefreshKeeps, FilterKeeps, EnterKeeps,
     PromptKeeps DEF Browse

LEMMA TickKeeps == SampledInv /\ onActivityTick => Kept
<1> SUFFICES ASSUME SampledInv, onActivityTick PROVE Kept
  OBVIOUS
<1>1. UNCHANGED <<session, server, stack>>
  BY DEF onActivityTick
<1>2. CASE UNCHANGED net
  BY <1>1, <1>2, QuietKeeps, OffKeeps
<1>3. CASE stack # <<>> /\ Send(LoadOf(Top.level, SampledFilter(Top)))
  <2>1. Top.filter \in Filters
    BY <1>3, OnStack DEF SampledInv, Screens
  <2>2. LoadOf(Top.level, SampledFilter(Top)) \in Commands
    BY <2>1, CommandsBringNone DEF SampledFilter
  <2> QED
    BY <1>1, <1>3, <2>2, Sent, OffKeeps DEF server
<1> QED
  BY <1>2, <1>3 DEF onActivityTick

-----------------------------------------------------------------------------
(* The server: the percent of an operation is a number, and what is        *)
(* reached on a relation only grows.                                       *)

LEMMA PointIsInt ==
  ASSUME NEW span, span[1] \in Int, span[2] \in Int, NEW done \in Nat, NEW total \in Nat
  PROVE  spanPoint(span, done, total) \in Int
<1>1. CASE total = 0
  BY <1>1 DEF spanPoint
<1>2. CASE total # 0
  <2>1. PICK m \in Int : m = Min({done, total})
    <3>1. \E x \in {done, total} : \A y \in {done, total} : x =< y
      <4>1. CASE done =< total
        BY <4>1
      <4>2. CASE ~(done =< total)
        BY <4>2
      <4> QED
        BY <4>1, <4>2
    <3>2. Min({done, total}) \in {done, total}
      BY <3>1 DEF Min
    <3> QED
      BY <3>2
  <2>2. PICK k \in Int : k = (100 * (span[2] - span[1])) * m
    OBVIOUS
  <2>3. k \div total \in Int
    BY <1>2
  <2>4. spanPoint(span, done, total) = 100 * span[1] + k \div total
    BY <1>2, <2>1, <2>2 DEF spanPoint
  <2> QED
    BY <2>3, <2>4
<1> QED
  BY <1>1, <1>2

LEMMA VacuumSlices ==
  ASSUME NEW p \in DOMAIN vacuumPhaseSpan
  PROVE  vacuumPhaseSpan[p][1] \in Int /\ vacuumPhaseSpan[p][2] \in Int
  BY DEF vacuumPhaseSpan

LEMMA RowIsPercent ==
  ASSUME NEW o \in Operations, NEW n \in Nat
  PROVE  Row(o, n) \in Percent /\ Row(o, n).relid = o.relid
<1>1. PICK p : p = session.phases[o.phase]
  OBVIOUS
<1>2. PICK row : row = [command |-> "VACUUM", phase |-> p, done |-> o.done, total |-> n]
  OBVIOUS
<1>3. row.phase = p /\ row.done \in Nat /\ row.total \in Nat
  BY <1>2 DEF Operations
<1>4. OverallPct(row) = InSpans(vacuumPhaseSpan, row)
  BY <1>2 DEF OverallPct, commandPhaseSpans
<1>5. InSpans(vacuumPhaseSpan, row) \in Int
  <2>1. CASE resolvePhaseSpan(vacuumPhaseSpan, row.phase) = <<>>
    BY <2>1 DEF InSpans, Unmapped
  <2>2. CASE resolvePhaseSpan(vacuumPhaseSpan, row.phase) # <<>>
    <3>1. PICK q \in DOMAIN vacuumPhaseSpan : resolvePhaseSpan(vacuumPhaseSpan, row.phase) = vacuumPhaseSpan[q]
      BY <2>2 DEF resolvePhaseSpan
    <3>2. PICK span : span = vacuumPhaseSpan[q]
      OBVIOUS
    <3>3. spanPoint(span, row.done, row.total) \in Int
      BY <1>3, <3>2, VacuumSlices, PointIsInt
    <3> QED
      BY <2>2, <3>1, <3>2, <3>3 DEF InSpans
  <2> QED
    BY <2>1, <2>2
<1>6. Row(o, n) = [relid |-> o.relid, pct |-> OverallPct(row)]
  BY <1>1, <1>2 DEF Row
<1> QED
  BY <1>4, <1>5, <1>6 DEF Percent, Operations

LEMMA ReachGrows ==
  ASSUME Typed, NEW o \in Operations, o # None, Reach(o)
  PROVE  /\ reached' \in [Relations -> Int]
         /\ \A m : Seen(m) => m \in Percent /\ m.pct <= reached'[m.relid]
         /\ \A row \in RowsOf(o) : row \in Percent /\ row.pct <= reached'[row.relid]
<1>1. Units \in Nat /\ reached \in [Relations -> Int] /\ o.relid \in Relations
  BY SessionsAssumption DEF Typed, Operations
<1>2. Row(o, 0) \in Percent /\ Row(o, Units) \in Percent
      /\ Row(o, 0).relid = o.relid /\ Row(o, Units).relid = o.relid
  BY <1>1, RowIsPercent
<1>3. RowsOf(o) = {Row(o, 0), Row(o, Units)}
  BY DEF RowsOf
<1>4. PICK a \in Int, b \in Int, c \in Int :
        a = reached[o.relid] /\ b = Row(o, 0).pct /\ c = Row(o, Units).pct
  BY <1>1, <1>2 DEF Percent
<1>5. {reached[o.relid]} \cup {row.pct : row \in RowsOf(o)} = {a, b, c}
  <2>1. {row.pct : row \in RowsOf(o)} = {b, c}
    BY <1>3, <1>4
  <2> QED
    BY <1>4, <2>1
<1>6. PICK n \in Int : n = Max({a, b, c}) /\ n >= a /\ n >= b /\ n >= c
  <2>1. Max({a, b, c}) \in {a, b, c} /\ \A x \in {a, b, c} : Max({a, b, c}) >= x
    BY GreatestOfThree
  <2> QED
    BY <2>1
<1>7. reached' = [reached EXCEPT ![o.relid] = n]
  BY <1>5, <1>6 DEF Reach
<1>8. reached' \in [Relations -> Int] /\ reached'[o.relid] = n
      /\ \A r \in Relations : reached[r] <= reached'[r]
  BY <1>1, <1>4, <1>6, <1>7
<1>9. ASSUME NEW m, Seen(m) PROVE m \in Percent /\ m.pct <= reached'[m.relid]
  <2>1. m \in Percent /\ m.relid \in Relations /\ m.pct \in Int /\ m.pct <= reached[m.relid]
    BY <1>9 DEF Seen, Percent
  <2>2. reached[m.relid] \in Int /\ reached'[m.relid] \in Int /\ reached[m.relid] <= reached'[m.relid]
    BY <1>1, <1>8, <2>1
  <2> QED
    BY <2>1, <2>2
<1> QED
  BY <1>2, <1>3, <1>4, <1>6, <1>8, <1>9

LEMMA BackendKeeps == SampledInv /\ Backend => Kept
<1> SUFFICES ASSUME SampledInv, Backend PROVE Kept
  OBVIOUS
<1>1. UNCHANGED <<session, stack, net>> /\ Typed
  BY DEF Backend, StartOperation, Advance, EndOperation, SampledInv
<1>2. ASSUME NEW o \in Operations, o # None, op' = o, Reach(o), ops' \in Nat PROVE Kept
  <2>1. Typed'
    BY <1>1, <1>2, ReachGrows DEF Typed
  <2>2. OpSeen'
    <3>1. RowsOf(op)' = RowsOf(o)
      BY <1>1, <1>2 DEF RowsOf, Row
    <3> QED
      BY <1>1, <1>2, <3>1, ReachGrows DEF OpSeen, Seen
  <2>3. RowsSeen'
    BY <1>1, <1>2, ReachGrows DEF SampledInv, RowsSeen, Seen
  <2>4. MarksSeen'
    BY <1>1, <1>2, ReachGrows DEF SampledInv, MarksSeen, Seen
  <2> QED
    BY <1>1, <2>1, <2>2, <2>3, <2>4 DEF SampledInv, Served, Kept
<1>3. CASE StartOperation
  <2>1. ops' \in Nat /\ ops' \in 1..Len(session.ops) /\ session.ops \in Seq(Relations)
    BY <1>1, <1>3, SessionsAssumption DEF StartOperation, Typed
  <2>2. session.ops[ops'] \in Relations
    BY <2>1, ElementOfSeq
  <2>3. PICK o : o = [relid |-> session.ops[ops'], phase |-> 1, done |-> 0]
    OBVIOUS
  <2>4. o \in Operations /\ o # None
    BY <2>2, <2>3, SessionsAssumption DEF Operations
  <2> QED
    BY <1>2, <1>3, <2>1, <2>3, <2>4 DEF StartOperation
<1>4. CASE Advance
  <2>1. op \in Operations /\ ops' \in Nat
    BY <1>1, <1>4 DEF Advance, Typed
  <2>2. PICK o : o = op'
    OBVIOUS
  <2>3. o \in Operations
    <3>1. CASE op.done < Units /\ op' = [op EXCEPT !.done = @ + 1]
      BY <2>1, <2>2, <3>1 DEF Operations
    <3>2. ASSUME NEW p \in DOMAIN session.phases, op' = [op EXCEPT !.phase = p, !.done = 0]
          PROVE  o \in Operations
      <4>1. session.phases \in Seq(STRING)
        BY <1>1, SessionsAssumption DEF Typed
      <4>2. p \in Nat
        BY <4>1
      <4> QED
        BY <2>1, <2>2, <3>2, <4>2 DEF Operations
    <3> QED
      BY <1>4, <3>1, <3>2 DEF Advance
  <2>4. o # None
    BY <2>3, SessionsAssumption DEF Operations
  <2> QED
    BY <1>2, <1>4, <2>1, <2>2, <2>3, <2>4 DEF Advance
<1>5. CASE EndOperation
  BY <1>1, <1>5 DEF EndOperation, SampledInv, Typed, Served, Kept, MarksSeen, RowsSeen, OpSeen, Seen
<1> QED
  BY <1>3, <1>4, <1>5 DEF Backend

LEMMA ServeKeeps ==
  ASSUME SampledInv, NEW s \in Slots, Serve(s)
  PROVE  Kept
<1>1. PICK m, c : m = net[s] /\ m # None /\ c \in Answers(m) /\ net' = [net EXCEPT ![s] = c]
  BY DEF Serve
<1>2. m \in Commands \cup Replies
  BY <1>1 DEF SampledInv, Typed, Carried
<1>3. \A row \in RowsOf(op) \cup {None} : row # None => Seen(row)
  BY DEF SampledInv, OpSeen, RowsOf
<1>4. \A row \in RowsOf(op) \cup {None} : row \in Percent \cup {None}
  BY <1>3 DEF Seen
<1>5. session.active \subseteq BOOLEAN
  BY SessionsAssumption DEF SampledInv, Typed
<1>6. /\ c \in Replies
      /\ Brings(c) /\ c.row # None => Seen(c.row)
      /\ Lookup(m) => Lookup(c)
  <2>1. CASE m.kind = "activity"
    <3>1. m.filter \in Filters /\ ~Lookup(m)
      BY <1>2, <2>1 DEF Commands, Replies, Lookup
    <3>2. CASE c = [kind |-> "activityLoaded", ok |-> FALSE]
      BY <3>1, <3>2 DEF Replies, Brings
    <3>3. ASSUME NEW a \in session.active, NEW row \in RowsOf(op) \cup {None},
                 c = [kind |-> "activityLoaded", ok |-> TRUE, filter |-> m.filter, active |-> a, row |-> row]
          PROVE  c \in Replies /\ (c.row # None => Seen(c.row))
      BY <1>3, <1>4, <1>5, <3>1, <3>3 DEF Replies
    <3> QED
      BY <1>1, <2>1, <3>1, <3>2, <3>3 DEF Answers
  <2>2. CASE m.kind = "progress"
    <3>1. ~Lookup(m)
      BY <2>2 DEF Lookup
    <3>2. CASE c = [kind |-> "progressLoaded", ok |-> FALSE]
      BY <3>1, <3>2 DEF Replies, Brings
    <3>3. ASSUME NEW row \in RowsOf(op), c = [kind |-> "progressLoaded", ok |-> TRUE, row |-> row]
          PROVE  c \in Replies /\ (c.row # None => Seen(c.row))
      BY <1>3, <1>4, <3>3 DEF Replies
    <3> QED
      BY <1>1, <2>2, <3>1, <3>2, <3>3 DEF Answers
  <2>3. CASE m.kind \in {"locks", "signal"}
    <3>1. c = [kind |-> "lockTreeLoaded"] \/ c = [kind |-> "backendAction"]
      BY <1>1, <2>3 DEF Answers
    <3>2. ~Lookup(m) /\ ~Brings(c)
      BY <2>3, <3>1 DEF Lookup, Brings
    <3>3. c \in [kind : {"lockTreeLoaded", "backendAction"}]
      BY <3>1
    <3> QED
      BY <3>2, <3>3 DEF Replies
  <2>4. CASE m.kind = "statement"
    <3>1. m.query \in Queries
      BY <1>2, <2>4 DEF Commands, Replies
    <3>2. c = [kind |-> "activityStatement", query |-> m.query]
      BY <1>1, <2>4 DEF Answers
    <3> QED
      <4>1. c \in [kind : {"activityStatement"}, query : Queries]
        BY <3>1, <3>2
      <4>2. c # None
        BY <4>1, SessionsAssumption
      <4> QED
        BY <4>1, <4>2 DEF Replies, Brings, Lookup
  <2>5. CASE m.kind \notin {"activity", "progress", "locks", "signal", "statement"}
    BY <1>1, <2>5 DEF Answers
  <2> QED
    BY <2>1, <2>2, <2>3, <2>4, <2>5
<1>7. UNCHANGED <<session, stack, server>>
  BY DEF Serve
<1>8. /\ net' \in [Slots -> Carried] /\ RowsSeen'
      /\ (\E r \in Slots : Lookup(net[r])) => \E r \in Slots : Lookup(net'[r])
  <2>1. c \in Carried /\ UNCHANGED reached
    BY <1>6, <1>7 DEF Carried, server
  <2>2. ~Lookup(net[s]) \/ Lookup(c)
    BY <1>1, <1>6
  <2> QED
    BY <1>1, <1>6, <2>1, <2>2, SlotMoved
<1> QED
  BY <1>7, <1>8, OffKeeps

-----------------------------------------------------------------------------
(* Messages.                                                               *)

(* What an answer carries.                                                 *)
LEMMA AnswerCarries ==
  ASSUME SampledInv, NEW s \in Slots, net[s] # None
  PROVE  /\ net[s].kind = "activityLoaded" /\ net[s].ok => net[s].filter \in Filters
         /\ net[s].kind \in {"activityLoaded", "progressLoaded"} /\ net[s].ok =>
              /\ net[s].row \in Percent \cup {None}
              /\ net[s].row # None => Seen(net[s].row)
         /\ net[s].kind = "activityStatement" => net[s].query \in Queries
<1>1. PICK m : m = net[s] /\ m \in Commands \cup Replies
  BY DEF SampledInv, Typed, Carried
<1>2. m.kind = "activityLoaded" /\ m.ok => m.filter \in Filters
  BY <1>1 DEF Commands, Replies
<1>3. m.kind \in {"activityLoaded", "progressLoaded"} /\ m.ok => m.row \in Percent \cup {None}
  BY <1>1 DEF Commands, Replies
<1>4. m.kind = "activityStatement" => m.query \in Queries
  BY <1>1 DEF Commands, Replies
<1>5. Brings(m) /\ m.row # None => Seen(m.row)
  BY <1>1 DEF SampledInv, RowsSeen
<1> QED
  BY <1>1, <1>2, <1>3, <1>4, <1>5 DEF Brings

(* A slot that is emptied, or asked for a sample in turn.                  *)
LEMMA SlotFreed ==
  ASSUME SampledInv, UNCHANGED server, NEW s \in Slots, NEW c \in Commands \cup {None},
         net' = [net EXCEPT ![s] = c]
  PROVE  /\ net' \in [Slots -> Carried] /\ RowsSeen'
         /\ ~Lookup(net[s]) /\ (\E r \in Slots : Lookup(net[r])) => \E r \in Slots : Lookup(net'[r])
<1>1. c \in Carried /\ ~Brings(c) /\ UNCHANGED reached
  BY CommandsBringNone DEF Carried, Brings, server
<1> QED
  BY <1>1, SlotMoved

(* The mark that is kept is one of the two.                                *)
LEMMA ClampSeen ==
  ASSUME NEW mark, NEW row, mark # None => Seen(mark), row # None => Seen(row)
  PROVE  LET c == clampProgressMarks(mark, row) IN c # None => Seen(c)
<1>1. CASE row = None
  BY <1>1 DEF clampProgressMarks
<1>2. CASE row # None
  <2>1. row \in Percent /\ row.pct \in Int /\ row.pct <= reached[row.relid]
    BY <1>2 DEF Seen, Percent
  <2>2. CASE mark # None /\ mark.relid = row.relid
    <3>1. mark.pct \in Int /\ mark.pct <= reached[row.relid]
      BY <2>2 DEF Seen, Percent
    <3>2. PICK n : n \in {row.pct, mark.pct} /\ n = Max({row.pct} \cup {mark.pct})
      BY <2>1, <3>1, GreaterOfTwo
    <3>3. clampProgressMarks(mark, row) = [row EXCEPT !.pct = n]
      BY <1>2, <2>2, <3>2 DEF clampProgressMarks
    <3> QED
      BY <2>1, <3>1, <3>2, <3>3 DEF Seen, Percent
  <2>3. CASE ~(mark # None /\ mark.relid = row.relid)
    <3>1. Max({row.pct} \cup {}) = row.pct
      <4>1. {row.pct} \cup {} = {row.pct} \cup {row.pct}
        OBVIOUS
      <4> QED
        BY <2>1, <4>1, GreaterOfTwo
    <3>2. clampProgressMarks(mark, row) = [row EXCEPT !.pct = row.pct]
      BY <1>2, <2>3, <3>1 DEF clampProgressMarks
    <3> QED
      BY <2>1, <3>2 DEF Seen, Percent
  <2> QED
    BY <2>2, <2>3
<1> QED
  BY <1>1, <1>2

(* A reply of a sample that changes one screen, or none.                   *)
LEMMA LandedKeeps ==
  ASSUME SampledInv, UNCHANGED <<session, server>>, NEW s \in Slots, ~Lookup(net[s]),
         NEW c \in Commands \cup {None}, net' = [net EXCEPT ![s] = c],
         \/ UNCHANGED stack
         \/ \E i \in DOMAIN stack : \E x \in Screens :
              /\ x.level = stack[i].level /\ (Placeholder(x) => Placeholder(stack[i]))
              /\ x.mark # None => x.mark = stack[i].mark \/ Seen(x.mark)
              /\ stack' = [stack EXCEPT ![i] = x]
  PROVE  Kept
<1>1. /\ net' \in [Slots -> Carried] /\ RowsSeen'
      /\ (\E r \in Slots : Lookup(net[r])) => \E r \in Slots : Lookup(net'[r])
  BY SlotFreed
<1>2. CASE UNCHANGED stack
  BY <1>1, <1>2, OffKeeps
<1>3. ASSUME NEW i \in DOMAIN stack, NEW x \in Screens,
             x.level = stack[i].level, Placeholder(x) => Placeholder(stack[i]),
             x.mark # None => x.mark = stack[i].mark \/ Seen(x.mark),
             stack' = [stack EXCEPT ![i] = x]
      PROVE  Kept
  BY <1>1, <1>3, ScreenKeeps
<1> QED
  BY <1>2, <1>3

(* The screen an answer finds.                                             *)
LEMMA FoundScreen ==
  ASSUME SampledInv, NEW l, findLevel(l) # 0
  PROVE  /\ findLevel(l) \in DOMAIN stack /\ stack[findLevel(l)].level = l
         /\ stack[findLevel(l)] \in Screens
         /\ stack[findLevel(l)].mark # None => Seen(stack[findLevel(l)].mark)
<1>1. Stacked(stack)
  BY DEF SampledInv
<1>2. findLevel(l) \in DOMAIN stack /\ stack[findLevel(l)].level = l
  BY <1>1, LevelFound
<1>3. stack[findLevel(l)] \in Screens
  <2>1. stack \in Seq(Screens)
    BY <1>1 DEF Stacked
  <2> QED
    BY <1>2, <2>1
<1>4. stack[findLevel(l)].mark \in Marks(stack)
  BY <1>2 DEF Marks
<1> QED
  BY <1>2, <1>3, <1>4 DEF SampledInv, MarksSeen

LEMMA ActivityLoadedKeeps ==
  ASSUME SampledInv, NEW s \in Slots, onActivityLoaded(s)
  PROVE  Kept
<1>1. /\ net[s] # None /\ net[s].kind = "activityLoaded" /\ net' = [net EXCEPT ![s] = None]
      /\ UNCHANGED <<session, server>> /\ ~Lookup(net[s])
  BY DEF onActivityLoaded, Lands, Answer, Landed, Lookup
<1>2. CASE findLevel("activity") = 0
  BY <1>1, <1>2, LandedKeeps DEF onActivityLoaded
<1>3. CASE findLevel("activity") # 0
  <2>1. PICK i, old : /\ i = findLevel("activity") /\ old = stack[i]
                      /\ i \in DOMAIN stack /\ old \in Screens /\ old.level = "activity"
                      /\ old.mark # None => Seen(old.mark)
    BY <1>3, FoundScreen
  <2>2. CASE ~net[s].ok
    <3>1. PICK x : x = [old EXCEPT !.loading = FALSE]
      OBVIOUS
    <3>2. stack' = [stack EXCEPT ![i] = x]
      BY <1>3, <2>1, <2>2, <3>1 DEF onActivityLoaded, Update
    <3>3. x \in Screens /\ x.level = old.level /\ x.mark = old.mark /\ ~Placeholder(x)
      BY <2>1, <3>1 DEF Screens, Placeholder
    <3> QED
      BY <1>1, <2>1, <3>2, <3>3, LandedKeeps
  <2>3. CASE net[s].ok
    <3>1. net[s].filter \in Filters /\ (net[s].row # None => Seen(net[s].row))
      BY <1>1, <2>3, AnswerCarries
    <3>2. PICK mark : /\ mark = clampProgressMarks(old.mark, net[s].row)
                      /\ mark # None => Seen(mark)
      BY <2>1, <3>1, ClampSeen
    <3>3. mark \in Percent \cup {None}
      BY <3>2 DEF Seen
    <3>4. PICK x : x = [old EXCEPT !.loading = FALSE, !.rows = net[s].filter, !.mark = mark]
      OBVIOUS
    <3>5. stack' = [stack EXCEPT ![i] = x]
      BY <1>3, <2>1, <2>3, <3>2, <3>4 DEF onActivityLoaded, Update
    <3>6. x \in Screens /\ x.level = old.level /\ x.mark = mark /\ ~Placeholder(x)
      BY <2>1, <3>1, <3>3, <3>4 DEF Screens, Placeholder
    <3> QED
      BY <1>1, <2>1, <3>2, <3>5, <3>6, LandedKeeps
  <2> QED
    BY <2>2, <2>3
<1> QED
  BY <1>2, <1>3

LEMMA ProgressLoadedKeeps ==
  ASSUME SampledInv, NEW s \in Slots, onProgressLoaded(s)
  PROVE  Kept
<1>1. /\ net[s] # None /\ net[s].kind = "progressLoaded" /\ net' = [net EXCEPT ![s] = None]
      /\ UNCHANGED <<session, server>> /\ ~Lookup(net[s])
  BY DEF onProgressLoaded, Lands, Answer, Landed, Lookup
<1>2. CASE findLevel("progress") = 0
  BY <1>1, <1>2, LandedKeeps DEF onProgressLoaded
<1>3. CASE findLevel("progress") # 0
  <2>1. PICK i, old : /\ i = findLevel("progress") /\ old = stack[i]
                      /\ i \in DOMAIN stack /\ old \in Screens /\ old.level = "progress"
                      /\ old.mark # None => Seen(old.mark)
    BY <1>3, FoundScreen
  <2>2. PICK mark : mark = IF net[s].ok THEN clampProgressMarks(old.mark, net[s].row) ELSE old.mark
    OBVIOUS
  <2>3. mark # None => Seen(mark)
    <3>1. CASE net[s].ok
      <4>1. net[s].row # None => Seen(net[s].row)
        BY <1>1, <3>1, AnswerCarries
      <4> QED
        BY <2>1, <2>2, <3>1, <4>1, ClampSeen
    <3>2. CASE ~net[s].ok
      BY <2>1, <2>2, <3>2
    <3> QED
      BY <3>1, <3>2
  <2>4. mark \in Percent \cup {None}
    BY <2>3 DEF Seen
  <2>5. PICK x : x = [old EXCEPT !.loading = FALSE, !.mark = mark]
    OBVIOUS
  <2>6. stack' = [stack EXCEPT ![i] = x]
    BY <1>3, <2>1, <2>2, <2>5 DEF onProgressLoaded, Update
  <2>7. x \in Screens /\ x.level = old.level /\ x.mark = mark /\ ~Placeholder(x)
    BY <2>1, <2>4, <2>5 DEF Screens, Placeholder
  <2> QED
    BY <1>1, <2>1, <2>3, <2>6, <2>7, LandedKeeps
<1> QED
  BY <1>2, <1>3

LEMMA LocksLoadedKeeps ==
  ASSUME SampledInv, NEW s \in Slots, onLocksLoaded(s)
  PROVE  Kept
<1>1. /\ net' = [net EXCEPT ![s] = None] /\ UNCHANGED <<session, server>> /\ ~Lookup(net[s])
  BY DEF onLocksLoaded, Lands, Answer, Landed, Lookup
<1>2. CASE findLevel("locks") = 0
  BY <1>1, <1>2, LandedKeeps DEF onLocksLoaded
<1>3. CASE findLevel("locks") # 0
  <2>1. PICK i, old : /\ i = findLevel("locks") /\ old = stack[i]
                      /\ i \in DOMAIN stack /\ old \in Screens
    BY <1>3, FoundScreen
  <2>2. PICK x : x = [old EXCEPT !.loading = FALSE]
    OBVIOUS
  <2>3. stack' = [stack EXCEPT ![i] = x]
    BY <1>3, <2>1, <2>2 DEF onLocksLoaded, Update
  <2>4. x \in Screens /\ x.level = old.level /\ x.mark = old.mark /\ ~Placeholder(x)
    BY <2>1, <2>2 DEF Screens, Placeholder
  <2> QED
    BY <1>1, <2>1, <2>3, <2>4, LandedKeeps
<1> QED
  BY <1>2, <1>3

LEMMA BackendActionKeeps ==
  ASSUME SampledInv, NEW s \in Slots, onBackendAction(s)
  PROVE  Kept
<1>1. PICK l : l = IF findLevel("locks") # 0 THEN "locks" ELSE "activity"
  OBVIOUS
<1>2. UNCHANGED <<session, server>> /\ ~Lookup(net[s])
  BY DEF onBackendAction, Answer, Lookup
<1>3. CASE findLevel(l) = 0
  <2>1. net' = [net EXCEPT ![s] = None] /\ UNCHANGED stack
    BY <1>1, <1>3 DEF onBackendAction, Landed
  <2> QED
    BY <1>2, <2>1, LandedKeeps
<1>4. CASE findLevel(l) # 0
  <2>1. PICK i, old : i = findLevel(l) /\ old = stack[i] /\ i \in DOMAIN stack /\ old \in Screens
    BY <1>4, FoundScreen
  <2>2. PICK x : x = [old EXCEPT !.pendingAction = FALSE]
    OBVIOUS
  <2>3. stack' = [stack EXCEPT ![i] = x] /\ net' = [net EXCEPT ![s] = LoadOf(l, old.filter)]
    BY <1>1, <1>4, <2>1, <2>2 DEF onBackendAction, Update, Follow
  <2>4. x \in Screens /\ x.level = old.level /\ x.mark = old.mark /\ (Placeholder(x) => Placeholder(old))
    BY <2>1, <2>2 DEF Screens, Placeholder
  <2>5. LoadOf(l, old.filter) \in Commands
    <3>1. old.filter \in Filters
      BY <2>1 DEF Screens
    <3> QED
      BY <3>1, CommandsBringNone
  <2> QED
    BY <1>2, <2>1, <2>3, <2>4, <2>5, LandedKeeps
<1> QED
  BY <1>3, <1>4

(* The answer fills a screen of its own, and takes the place of the one    *)
(* that waits: the others below wait for nothing.                          *)
LEMMA StatementKeeps ==
  ASSUME SampledInv, NEW s \in Slots, onActivityStatement(s)
  PROVE  Kept
<1>1. /\ net[s] # None /\ net[s].kind = "activityStatement" /\ net' = [net EXCEPT ![s] = None]
      /\ UNCHANGED <<session, server>> /\ Stacked(stack)
  BY DEF onActivityStatement, Lands, Answer, Landed, SampledInv
<1>2. net' \in [Slots -> Carried] /\ RowsSeen'
  BY <1>1, SlotFreed
<1>3. CASE findLevel("activity") = 0
  <2>1. stack = <<>> /\ UNCHANGED stack
    BY <1>1, <1>3, OnStack DEF onActivityStatement
  <2>2. Served => Served'
    BY <2>1 DEF Waits, Served
  <2> QED
    BY <1>1, <1>2, <2>1, <2>2, StepKeeps
<1>4. CASE findLevel("activity") # 0
  <2>1. stack # <<>>
    BY <1>4, FoundScreen
  <2>2. PICK stk : /\ stk = PlaceholderTaken /\ Stacked(stk)
                   /\ Bare(stack) => Bare(stk) /\ ~Waits(stk)
                   /\ Marks(stk) \subseteq Marks(stack) /\ findLevel("activity") # 0
    <3>1. CASE Placeholder(Top)
      BY <1>1, <1>4, <2>1, <3>1, Popped DEF PlaceholderTaken, Pop
    <3>2. CASE ~Placeholder(Top)
      BY <1>1, <1>4, <3>2 DEF PlaceholderTaken, Waits, Top
    <3> QED
      BY <3>1, <3>2
  <2>3. PICK x : x = [screen("detail") EXCEPT !.loading = FALSE, !.detail = net[s].query]
    OBVIOUS
  <2>4. x \in Screens /\ x.level = "detail" /\ x.mark = None /\ ~Placeholder(x)
    <3>1. net[s].query \in Queries /\ "detail" \in Levels
      BY <1>1, AnswerCarries DEF Levels, Live
    <3>2. screen("detail") \in Screens /\ screen("detail").level = "detail" /\ screen("detail").mark = None
      BY <3>1, NewScreen
    <3> QED
      BY <2>3, <3>1, <3>2 DEF Screens, Placeholder
  <2>5. stk # <<>>
    <3>1. CASE Placeholder(Top)
      <4>1. Len(stack) # 1
        <5>1. Len(stack) = 1 => Top.level = "activity"
          BY <1>1, <2>1 DEF Stacked, Top
        <5> QED
          BY <3>1, <5>1 DEF Placeholder
      <4>2. stk = SubSeq(stack, 1, Len(stack) - 1)
        BY <2>2, <3>1 DEF PlaceholderTaken, Pop
      <4> QED
        BY <1>1, <2>1, <4>1, <4>2, Popped
    <3>2. CASE ~Placeholder(Top)
      BY <2>1, <2>2, <3>2 DEF PlaceholderTaken
    <3> QED
      BY <3>1, <3>2
  <2>6. stack' = Append(stk, x)
    BY <1>4, <2>2, <2>3 DEF onActivityStatement
  <2>7. Stacked(stack') /\ (Served => Served') /\ Marks(stack') \subseteq Marks(stack) \cup {None}
    BY <2>2, <2>4, <2>5, <2>6, Pushed DEF Served
  <2> QED
    BY <1>1, <1>2, <2>7, StepKeeps
<1> QED
  BY <1>3, <1>4

LEMMA SampledKept == SampledInv /\ [Next]_vars => Kept \/ (openLogLink /\ SampledInv')
<1> SUFFICES ASSUME SampledInv, [Next]_vars PROVE Kept \/ (openLogLink /\ SampledInv')
  OBVIOUS
<1>1. CASE UNCHANGED vars
  BY <1>1, QuietKeeps, OffKeeps DEF vars
<1>2. CASE Browse
  BY <1>2, BrowseKeeps
<1>3. CASE Backend
  BY <1>3, BackendKeeps
<1>4. CASE onActivityTick
  BY <1>4, TickKeeps
<1>5. ASSUME NEW s \in Slots, Serve(s) \/ Handle(s) PROVE Kept
  BY <1>5, ServeKeeps, ActivityLoadedKeeps, ProgressLoadedKeeps, LocksLoadedKeeps,
     BackendActionKeeps, StatementKeeps DEF Handle
<1> QED
  BY <1>1, <1>2, <1>3, <1>4, <1>5 DEF Next

LEMMA SampledAlways == Spec => []SampledInv
<1>1. SampledInv /\ [Next]_vars => SampledInv'
  BY SampledKept DEF Kept
<1> QED
  BY SampledInit, <1>1, PTL DEF Spec

-----------------------------------------------------------------------------
(* Counting: a stack on which nothing stands above a placeholder has one   *)
(* of them at most.                                                        *)
Waiting == {i \in DOMAIN stack : Placeholder(stack[i])}
Lookups == {s \in Slots : Lookup(net[s])}

LEMMA LookupsCount == IsFiniteSet(Lookups) /\ Cardinality(Lookups) \in Nat /\ (Lookups # {} => Cardinality(Lookups) >= 1)
<1>1. IsFiniteSet(Lookups)
  BY SessionsAssumption, FS_Subset DEF Lookups
<1>2. Cardinality(Lookups) \in Nat /\ (Lookups # {} => Cardinality(Lookups) # 0)
  BY <1>1, FS_CardinalityType, FS_EmptySet
<1> QED
  BY <1>1, <1>2

LEMMA WaitingCount ==
  ASSUME Stacked(stack), Bare(stack)
  PROVE  /\ Waits(stack) => Waiting = {Len(stack)} /\ Cardinality(Waiting) = 1
         /\ ~Waits(stack) => Cardinality(Waiting) = 0
<1>1. stack \in Seq(Screens) /\ DOMAIN stack = 1..Len(stack) /\ Len(stack) \in Nat
  BY DEF Stacked
<1>2. ASSUME NEW i \in Waiting PROVE i = Len(stack)
  <2>1. i \in 1..(Len(stack) - 1) \/ i = Len(stack)
    BY <1>1, <1>2 DEF Waiting
  <2> QED
    BY <1>2, <2>1 DEF Bare, Waiting
<1>3. CASE Waits(stack)
  <2>1. Len(stack) \in Waiting
    BY <1>1, <1>3 DEF Waits, Waiting
  <2>2. Waiting = {Len(stack)}
    BY <1>2, <2>1
  <2> QED
    BY <1>3, <2>2, FS_Singleton
<1>4. CASE ~Waits(stack)
  <2>1. Waiting = {}
    <3>1. ASSUME NEW i \in Waiting PROVE FALSE
      <4>1. i = Len(stack) /\ i \in DOMAIN stack /\ Placeholder(stack[i])
        BY <1>2, <3>1 DEF Waiting
      <4>2. stack # <<>>
        BY <1>1, <4>1
      <4> QED
        BY <1>4, <4>1, <4>2 DEF Waits
    <3> QED
      BY <3>1
  <2> QED
    BY <1>4, <2>1, FS_EmptySet
<1> QED
  BY <1>3, <1>4

LEMMA ServedCounts == PlaceholderServed <=> Cardinality(Waiting) <= Cardinality(Lookups)
  BY DEF PlaceholderServed, Waiting, Lookups, Lookup

(* While none is covered, each has its lookup exactly if the one on top    *)
(* has one.                                                                *)
LEMMA ServedIsOne ==
  ASSUME Stacked(stack), Bare(stack)
  PROVE  PlaceholderServed <=> Served
<1>1. /\ Cardinality(Lookups) \in Nat
      /\ Lookups # {} => Cardinality(Lookups) >= 1
      /\ Lookups = {} => Cardinality(Lookups) = 0
  BY LookupsCount, FS_EmptySet
<1>2. CASE Waits(stack)
  <2>1. Cardinality(Waiting) = 1
    BY <1>2, WaitingCount
  <2>2. PlaceholderServed <=> Lookups # {}
    BY <1>1, <2>1, ServedCounts
  <2> QED
    BY <1>2, <2>2 DEF Served, Lookups
<1>3. CASE ~Waits(stack)
  <2>1. Cardinality(Waiting) = 0
    BY <1>3, WaitingCount
  <2>2. PlaceholderServed
    BY <1>1, <2>1, ServedCounts
  <2> QED
    BY <1>3, <2>2 DEF Served
<1> QED
  BY <1>2, <1>3

LEMMA UncoveredBare == Stacked(stack) => (~Covered <=> Bare(stack))
<1> SUFFICES ASSUME Stacked(stack) PROVE ~Covered <=> Bare(stack)
  OBVIOUS
<1>1. DOMAIN stack = 1..Len(stack) /\ Len(stack) \in Nat
  BY DEF Stacked
<1>2. \A i : i \in 1..(Len(stack) - 1) <=> i \in DOMAIN stack /\ i < Len(stack)
  BY <1>1
<1> QED
  BY <1>2 DEF Covered, Bare

(* The log above a placeholder leaves it as it is, and its lookup.         *)
LEMMA OpenLogServes ==
  ASSUME SampledInv, openLogLink, PlaceholderServed
  PROVE  PlaceholderServed'
<1>1. stack' = Append(stack, screen("logs")) /\ UNCHANGED net /\ ~Placeholder(screen("logs"))
  BY DEF openLogLink, Placeholder, screen
<1>2. stack \in Seq(Screens) /\ screen("logs") \in Screens
  BY NewScreen DEF SampledInv, Stacked, Levels, Live
<1>3. /\ DOMAIN stack = 1..Len(stack) /\ DOMAIN stack' = 1..(Len(stack) + 1) /\ Len(stack) \in Nat
      /\ \A i \in 1..Len(stack) : stack'[i] = stack[i]
      /\ stack'[Len(stack) + 1] = screen("logs")
  BY <1>1, <1>2, AppendProperties
<1>4. Waiting' = Waiting
  <2>1. \A i \in 1..(Len(stack) + 1) : i \in 1..Len(stack) \/ i = Len(stack) + 1
    BY <1>3
  <2>2. \A i \in 1..Len(stack) : i \in 1..(Len(stack) + 1)
    BY <1>3
  <2> QED
    BY <1>1, <1>3, <2>1, <2>2 DEF Waiting, Placeholder
<1>5. Lookups' = Lookups
  BY <1>1 DEF Lookups, Lookup
<1> QED
  BY <1>4, <1>5 DEF PlaceholderServed, Waiting, Lookups, Lookup

(* onActivityStatement, clampProgressMarks: no detail that is loading is   *)
(* abandoned, unless the log was opened above it, and no percent is of an  *)
(* operation that was there before.                                        *)
THEOREM SamplesAreServed == Spec => SamplesServed
<1>1. SampledInv => MarkReached
  BY DEF SampledInv, MarksSeen, Marks, Seen, MarkReached
<1>2. SampledInv /\ Served => PlaceholderServed
  BY ServedIsOne DEF SampledInv, Served
<1>3. SampledInv /\ PlaceholderServed /\ ~Covered => Served
  BY ServedIsOne, UncoveredBare DEF SampledInv
<1>4. SampledInv /\ [Next]_vars =>
        (Served => Served') \/ (PlaceholderServed => PlaceholderServed')
  BY SampledKept, OpenLogServes DEF Kept
<1>5. Spec => [][Next]_vars
  BY DEF Spec
<1> QED
  BY <1>1, <1>2, <1>3, <1>4, <1>5, SampledAlways, PTL DEF SamplesServed

-----------------------------------------------------------------------------
(* The table.                                                              *)

(* In order, the members of a set of numbers are each listed once: by the  *)
(* number of members below, which tells them apart.                        *)
Below(set, n) == {m \in set : m < n}

LEMMA Ranks ==
  ASSUME NEW set \in SUBSET Nat, IsFiniteSet(set)
  PROVE  /\ \A n \in set : Cardinality(Below(set, n)) \in Nat /\ Cardinality(Below(set, n)) < Cardinality(set)
         /\ \A m, n \in set : m < n => Cardinality(Below(set, m)) < Cardinality(Below(set, n))
<1>1. \A n \in set : IsFiniteSet(Below(set, n)) /\ Cardinality(Below(set, n)) \in Nat
  <2> SUFFICES ASSUME NEW n \in set PROVE IsFiniteSet(Below(set, n)) /\ Cardinality(Below(set, n)) \in Nat
    OBVIOUS
  <2>1. Below(set, n) \in SUBSET set
    BY DEF Below
  <2>2. IsFiniteSet(Below(set, n))
    BY <2>1, FS_Subset
  <2> QED
    BY <2>2, FS_CardinalityType
<1>2. ASSUME NEW n \in set PROVE Cardinality(Below(set, n)) < Cardinality(set)
  <2>1. Below(set, n) \in SUBSET set /\ n \notin Below(set, n)
    BY DEF Below
  <2>2. Cardinality(Below(set, n)) <= Cardinality(set) /\ Cardinality(Below(set, n)) # Cardinality(set)
    BY <2>1, FS_Subset
  <2>3. Cardinality(set) \in Nat
    BY FS_CardinalityType
  <2> QED
    BY <1>1, <2>2, <2>3
<1>3. ASSUME NEW m \in set, NEW n \in set, m < n
      PROVE  Cardinality(Below(set, m)) < Cardinality(Below(set, n))
  <2>1. \A x \in Below(set, m) : x \in Below(set, n)
    <3>1. \A x \in set : x < m => x < n
      BY <1>3
    <3> QED
      BY <3>1 DEF Below
  <2>2. m \in Below(set, n) /\ m \notin Below(set, m)
    BY <1>3 DEF Below
  <2>3. /\ Cardinality(Below(set, m)) <= Cardinality(Below(set, n))
        /\ Cardinality(Below(set, m)) # Cardinality(Below(set, n))
    BY <1>1, <2>1, <2>2, FS_Subset
  <2>4. Cardinality(Below(set, m)) \in Nat /\ Cardinality(Below(set, n)) \in Nat
    BY <1>1
  <2> QED
    BY <2>3, <2>4
<1> QED
  BY <1>1, <1>2, <1>3

LEMMA Listing ==
  ASSUME NEW set \in SUBSET Nat, IsFiniteSet(set)
  PROVE  LET all == InOrder(set)
         IN  /\ Len(all) \in Nat /\ Len(all) = Cardinality(set) /\ all \in [1..Len(all) -> set]
             /\ \A j, k \in 1..Len(all) : j # k => all[j] # all[k]
<1> DEFINE c == Cardinality(set)
           rank(n) == Cardinality(Below(set, n))
           all == InOrder(set)
           f == [n \in set |-> rank(n) + 1]
<1>1. c \in Nat /\ IsFiniteSet(1..c) /\ Cardinality(1..c) = c
  BY FS_CardinalityType, FS_Interval
<1>2. \A n \in set : rank(n) \in Nat /\ rank(n) < c
  BY Ranks
<1>3. \A m, n \in set : rank(m) = rank(n) => m = n
  <2>1. \A m, n \in set : m < n => rank(m) < rank(n)
    BY Ranks
  <2> HIDE DEF rank
  <2> QED
    BY <1>2, <2>1
<1>4. f \in Injection(set, 1..c)
  <2> HIDE DEF rank
  <2>1. \A n \in set : rank(n) + 1 \in 1..c
    BY <1>1, <1>2
  <2>2. \A m, n \in set : rank(m) + 1 = rank(n) + 1 => m = n
    BY <1>2, <1>3
  <2> QED
    BY <2>1, <2>2 DEF Injection, IsInjective
<1>5. f \in Surjection(set, 1..c)
  BY <1>1, <1>4, FS_Injection
<1>6. \A k \in 1..c : \E n \in set : rank(n) = k - 1
  <2> HIDE DEF rank
  <2> HIDE DEF f
  <2>1. \A k \in 1..c : \E n \in set : f[n] = k
    BY <1>5 DEF Surjection
  <2>2. \A n \in set : f[n] = rank(n) + 1
    BY DEF f
  <2>3. \A n \in set : \A k \in 1..c : f[n] = k => rank(n) = k - 1
    BY <1>1, <1>2, <2>2
  <2> QED
    BY <2>1, <2>3
<1>7. all = [k \in 1..c |-> CHOOSE n \in set : rank(n) = k - 1]
  BY DEF InOrder, Below
<1>8. \A k \in 1..c : all[k] \in set /\ rank(all[k]) = k - 1
  <2> HIDE DEF rank
  <2> QED
    BY <1>6, <1>7
<1>9. Len(all) = c /\ all \in [1..c -> set]
  <2> HIDE DEF rank
  <2>1. all \in [1..c -> set]
    <3>1. DOMAIN all = 1..c /\ all = [k \in 1..c |-> all[k]]
      BY <1>7
    <3> QED
      BY <1>8, <3>1
  <2>2. all \in Seq(set)
    BY <1>1, <2>1 DEF Seq
  <2>3. DOMAIN all = 1..Len(all) /\ Len(all) \in Nat
    BY <2>2
  <2> HIDE DEF all
  <2> QED
    BY <1>1, <2>1, <2>3
<1>10. \A j, k \in 1..c : j # k => all[j] # all[k]
  <2> HIDE DEF rank, all
  <2> QED
    BY <1>1, <1>8
<1> QED
  BY <1>1, <1>9, <1>10

(* The columns that are drawn are some of the registry, each once, and     *)
(* there is always one.                                                    *)
LEMMA Columns ==
  ASSUME NEW visible
  PROVE  LET cols == visibleCols(visible)
         IN  /\ Len(cols) \in Nat \ {0} /\ cols \in [1..Len(cols) -> {"pid", "user", "query_age", "query"}]
             /\ \A j, k \in 1..Len(cols) : cols[j] = cols[k] => j = k
<1> DEFINE set == {n \in DOMAIN actColumnRegistry : actColumnRegistry[n] \in Mandatory \cup visible}
           at == InOrder(set)
           cols == visibleCols(visible)
           Names == {"pid", "user", "query_age", "query"}
<1>1. /\ DOMAIN actColumnRegistry = 1..4 /\ actColumnRegistry[1] = "pid" /\ actColumnRegistry[2] = "user"
      /\ actColumnRegistry[3] = "query_age" /\ actColumnRegistry[4] = "query"
  BY DEF actColumnRegistry
<1>2. set \in SUBSET (1..4) /\ 4 \in set
  BY <1>1 DEF Mandatory
<1>3. \A m, n \in 1..4 : actColumnRegistry[m] \in Names /\ (actColumnRegistry[m] = actColumnRegistry[n] => m = n)
  <2>1. \A n \in 1..4 : n \in {1, 2, 3, 4}
    OBVIOUS
  <2> QED
    BY <1>1, <2>1
<1>4. set \in SUBSET Nat /\ IsFiniteSet(set) /\ set # {}
  <2>3. 1 \in Int /\ 4 \in Int /\ \A n \in 1..4 : n \in Nat
    OBVIOUS
  <2>1. IsFiniteSet(1..4) /\ 1..4 \subseteq Nat
    BY <2>3, FS_Interval
  <2> HIDE DEF set
  <2>2. IsFiniteSet(set)
    BY <1>2, <2>1, FS_Subset
  <2> QED
    BY <1>2, <2>1, <2>2
<1> HIDE DEF set
<1>5. /\ Len(at) \in Nat /\ Len(at) = Cardinality(set) /\ at \in [1..Len(at) -> set]
      /\ \A j, k \in 1..Len(at) : j # k => at[j] # at[k]
  BY <1>4, Listing
<1>6. Len(at) # 0
  <2>1. Cardinality(set) # 0
    BY <1>4, FS_EmptySet
  <2> QED
    BY <1>5, <2>1
<1>7. cols = [k \in DOMAIN at |-> actColumnRegistry[at[k]]]
  BY DEF visibleCols, set
<1> HIDE DEF at, cols
<1>8. cols = [k \in 1..Len(at) |-> actColumnRegistry[at[k]]] /\ \A k \in 1..Len(at) : at[k] \in 1..4
  BY <1>2, <1>5, <1>7
<1>9. cols \in [1..Len(at) -> Names]
  BY <1>3, <1>8
<1>10. Len(cols) = Len(at)
  <2>1. cols \in Seq(Names)
    BY <1>5, <1>9 DEF Seq
  <2>2. DOMAIN cols = 1..Len(cols) /\ Len(cols) \in Nat
    BY <2>1
  <2>3. 1..Len(cols) = 1..Len(at)
    BY <1>9, <2>2
  <2> QED
    BY <1>5, <2>2, <2>3
<1>11. \A j, k \in 1..Len(at) : cols[j] = cols[k] => j = k
  <2> SUFFICES ASSUME NEW j \in 1..Len(at), NEW k \in 1..Len(at), cols[j] = cols[k] PROVE j = k
    OBVIOUS
  <2>1. at[j] = at[k]
    BY <1>3, <1>8
  <2> QED
    BY <1>5, <2>1
<1> QED
  BY <1>5, <1>6, <1>9, <1>10, <1>11 DEF cols

LEMMA PlaceOf ==
  ASSUME NEW cols, Len(cols) \in Nat, NEW id
  PROVE  /\ indexOfCol(cols, id) \in 0..Len(cols)
         /\ indexOfCol(cols, id) # 0 => cols[indexOfCol(cols, id)] = id
         /\ indexOfCol(cols, id) = 0 => \A k \in 1..Len(cols) : cols[k] # id
<1> DEFINE I == {k \in 1..Len(cols) : cols[k] = id}
<1>1. indexOfCol(cols, id) = IF I # {} THEN Min(I) ELSE 0
  BY DEF indexOfCol, SelectInSeq
<1>2. CASE I = {}
  BY <1>1, <1>2
<1>3. CASE I # {}
  <2>1. I \in SUBSET Nat
    OBVIOUS
  <2>2. \E x \in I : \A y \in I : x <= y
    BY <1>3, <2>1, LeastOf
  <2>3. Min(I) \in I
    BY <2>2 DEF Min
  <2> QED
    BY <1>1, <1>3, <2>3
<1> QED
  BY <1>2, <1>3

(* A row has a cell in each of n columns.                                  *)
CellSet == [num : BOOLEAN, text : Int]
RowOf(n) == [pid : Listed, cells : [1..n -> CellSet]]

(* Cell a may stand above cell b.                                          *)
Above(a, b, desc) ==
  /\ b.num => a.num
  /\ a.num = b.num => IF desc THEN a.text >= b.text ELSE a.text <= b.text
Ordered(its, col, desc) ==
  \A i, j \in 1..Len(its) : i < j => Above(its[i].cells[col], its[j].cells[col], desc)

LEMMA AboveOrders ==
  ASSUME NEW desc \in BOOLEAN
  PROVE  /\ \A a, b, c \in CellSet : Above(a, b, desc) /\ Above(b, c, desc) => Above(a, c, desc)
         /\ \A a, b \in CellSet : Before(a, b, desc) => Above(a, b, desc)
         /\ \A a, b \in CellSet : ~Before(a, b, desc) => Above(b, a, desc)
<1>1. ASSUME NEW a \in CellSet, NEW b \in CellSet, NEW c \in CellSet, Above(a, b, desc), Above(b, c, desc)
      PROVE  Above(a, c, desc)
  BY <1>1 DEF Above, CellSet
<1>2. ASSUME NEW a \in CellSet, NEW b \in CellSet
      PROVE  (Before(a, b, desc) => Above(a, b, desc)) /\ (~Before(a, b, desc) => Above(b, a, desc))
  BY <1>2 DEF Before, Above, CellSet
<1> QED
  BY <1>1, <1>2

LEMMA Joined ==
  ASSUME NEW S, NEW a \in Seq(S), NEW b \in Seq(S)
  PROVE  /\ a \o b \in Seq(S) /\ Len(a \o b) = Len(a) + Len(b)
         /\ \A k \in 1..Len(a) : (a \o b)[k] = a[k]
         /\ \A k \in 1..Len(b) : (a \o b)[Len(a) + k] = b[k]
  OBVIOUS

(* A row goes in after the last row it is not before.                      *)
LEMMA Inserted ==
  ASSUME NEW n \in Nat, NEW its \in Seq(RowOf(n)), NEW it \in RowOf(n), NEW col \in 1..n, NEW desc \in BOOLEAN,
         Ordered(its, col, desc)
  PROVE  LET new == Insert(its, it, col, desc)
         IN  new \in Seq(RowOf(n)) /\ Len(new) = Len(its) + 1 /\ Ordered(new, col, desc)
<1> DEFINE len == Len(its)
           goes(p) == \A j \in p..len : Before(it.cells[col], its[j].cells[col], desc)
           fits(p) == goes(p) /\ (p = 1 \/ ~goes(p - 1))
           at == CHOOSE p \in 1..(len + 1) : fits(p)
           new == Insert(its, it, col, desc)
           key(j) == its[j].cells[col]
<1>1. len \in Nat /\ \A j \in 1..len : its[j] \in RowOf(n) /\ key(j) \in CellSet
  <2>1. \A row \in RowOf(n) : row.cells[col] \in CellSet
    BY DEF RowOf
  <2>2. len \in Nat /\ \A j \in 1..len : its[j] \in RowOf(n)
    OBVIOUS
  <2> QED
    BY <2>1, <2>2
<1>2. it.cells[col] \in CellSet
  BY DEF RowOf
<1>3. new = InsertAt(its, at, it)
  BY DEF Insert
<1>4. \E p \in 1..(len + 1) : fits(p)
  <2> DEFINE T == {p \in 1..(len + 1) : goes(p)}
  <2>1. goes(len + 1)
    BY <1>1
  <2>2. T \in SUBSET Nat /\ len + 1 \in T
    <3> HIDE DEF goes
    <3> QED
      BY <1>1, <2>1
  <2> HIDE DEF goes
  <2>3. PICK p \in T : \A q \in T : p <= q
    <3> HIDE DEF T
    <3> QED
      BY <2>2, LeastOf
  <2>4. p \in 1..(len + 1) /\ goes(p)
    OBVIOUS
  <2>5. p = 1 \/ ~goes(p - 1)
    <3>1. CASE p = 1
      BY <3>1
    <3>2. CASE p # 1
      <4>1. p - 1 \in 1..(len + 1) /\ ~(p <= p - 1)
        BY <1>1, <2>4, <3>2
      <4>2. p - 1 \notin T
        BY <2>3, <4>1
      <4> QED
        BY <4>1, <4>2
    <3> QED
      BY <3>1, <3>2
  <2> QED
    BY <2>4, <2>5
<1>5. at \in 1..(len + 1) /\ fits(at)
  <2> HIDE DEF fits
  <2> QED
    BY <1>4
<1> HIDE DEF at
<1>6. \A j \in at..len : Before(it.cells[col], key(j), desc)
  BY <1>5
<1>7. at # 1 => ~Before(it.cells[col], key(at - 1), desc)
  <2> SUFFICES ASSUME at # 1 PROVE ~Before(it.cells[col], key(at - 1), desc)
    OBVIOUS
  <2>1. PICK j \in (at - 1)..len : ~Before(it.cells[col], key(j), desc)
    BY <1>5
  <2>2. j = at - 1
    <3> HIDE DEF key
    <3> QED
      BY <1>1, <1>5, <1>6, <2>1
  <2> QED
    BY <2>1, <2>2
<1>8. /\ new \in Seq(RowOf(n)) /\ Len(new) = len + 1
      /\ \A k \in 1..(len + 1) : new[k] = IF k < at THEN its[k] ELSE IF k = at THEN it ELSE its[k - 1]
  <2> DEFINE a == SubSeq(its, 1, at - 1)
             b == SubSeq(its, at, len)
  <2>1. new = a \o <<it>> \o b
    BY <1>3 DEF InsertAt
  <2>2. /\ a \in Seq(RowOf(n)) /\ Len(a) = at - 1
        /\ \A k \in 1..(at - 1) : a[k] = its[k]
    BY <1>1, <1>5
  <2>3. /\ b \in Seq(RowOf(n)) /\ Len(b) = len - at + 1
        /\ \A k \in 1..(len - at + 1) : b[k] = its[at + k - 1]
    BY <1>1, <1>5
  <2> HIDE DEF a, b, new
  <2>4. /\ a \o <<it>> \in Seq(RowOf(n)) /\ Len(a \o <<it>>) = at
        /\ \A k \in 1..at : (a \o <<it>>)[k] = IF k = at THEN it ELSE its[k]
    BY <1>5, <2>2
  <2>5. new \in Seq(RowOf(n)) /\ Len(new) = len + 1
    <3> DEFINE c == a \o <<it>>
    <3>1. c \in Seq(RowOf(n)) /\ Len(c) = at /\ new = c \o b
      BY <2>1, <2>4
    <3> HIDE DEF c
    <3>2. c \o b \in Seq(RowOf(n)) /\ Len(c \o b) = Len(c) + Len(b)
      BY <2>3, <3>1, Joined
    <3> QED
      BY <1>1, <1>5, <2>3, <3>1, <3>2
  <2>6. \A k \in 1..(len + 1) : new[k] = IF k <= at THEN (a \o <<it>>)[k] ELSE b[k - at]
    <3> DEFINE c == a \o <<it>>
    <3>1. c \in Seq(RowOf(n)) /\ Len(c) = at /\ new = c \o b
      BY <2>1, <2>4
    <3> HIDE DEF c
    <3>2. /\ \A k \in 1..Len(c) : (c \o b)[k] = c[k]
          /\ \A k \in 1..Len(b) : (c \o b)[Len(c) + k] = b[k]
      <4>1. c \in Seq(RowOf(n)) /\ b \in Seq(RowOf(n))
        BY <2>3, <3>1
      <4>2. \A s, t \in Seq(RowOf(n)) : /\ \A k \in 1..Len(s) : (s \o t)[k] = s[k]
                                      /\ \A k \in 1..Len(t) : (s \o t)[Len(s) + k] = t[k]
        BY Joined
      <4> QED
        BY <4>1, <4>2, Zenon
    <3>3. ASSUME NEW k \in 1..(len + 1) PROVE (c \o b)[k] = IF k <= at THEN c[k] ELSE b[k - at]
      <4>1. CASE k <= at
        BY <1>5, <3>1, <3>2, <4>1
      <4>2. CASE ~(k <= at)
        <5>1. k - at \in 1..Len(b) /\ Len(c) + (k - at) = k
          BY <1>1, <1>5, <2>3, <3>1, <4>2
        <5> QED
          BY <3>2, <4>2, <5>1
      <4> QED
        BY <4>1, <4>2
    <3> QED
      BY <3>1, <3>3 DEF c
  <2>7. ASSUME NEW k \in 1..(len + 1)
        PROVE  new[k] = IF k < at THEN its[k] ELSE IF k = at THEN it ELSE its[k - 1]
    <3>1. CASE k <= at
      BY <1>1, <1>5, <2>4, <2>6, <3>1
    <3>2. CASE ~(k <= at)
      <4>1. k - at \in 1..(len - at + 1) /\ at + (k - at) - 1 = k - 1
        BY <1>1, <1>5, <3>2
      <4>2. new[k] = b[k - at] /\ b[k - at] = its[k - 1]
        BY <2>3, <2>6, <3>2, <4>1
      <4> QED
        BY <1>5, <3>2, <4>2
    <3> QED
      BY <3>1, <3>2
  <2> QED
    BY <2>5, <2>7
<1> HIDE DEF new
<1>9. ASSUME NEW i \in 1..(len + 1), NEW j \in 1..(len + 1), i < j
      PROVE  Above(new[i].cells[col], new[j].cells[col], desc)
  <2>1. \A k, m \in 1..len : k < m => Above(key(k), key(m), desc)
    BY DEF Ordered
  <2>2. \A k \in 1..len : k < at => Above(key(k), it.cells[col], desc)
    <3> SUFFICES ASSUME NEW k \in 1..len, k < at PROVE Above(key(k), it.cells[col], desc)
      OBVIOUS
    <3>1. at # 1 /\ at - 1 \in 1..len
      BY <1>1, <1>5
    <3>2. Above(key(at - 1), it.cells[col], desc)
      BY <1>1, <1>2, <1>7, <3>1, AboveOrders
    <3>3. k = at - 1 \/ Above(key(k), key(at - 1), desc)
      <4>1. k = at - 1 \/ k < at - 1
        BY <1>1, <1>5
      <4> QED
        BY <2>1, <3>1, <4>1
    <3> QED
      BY <1>1, <1>2, <3>1, <3>2, <3>3, AboveOrders
  <2>3. \A k \in at..len : Above(it.cells[col], key(k), desc)
    <3> SUFFICES ASSUME NEW k \in at..len PROVE Above(it.cells[col], key(k), desc)
      OBVIOUS
    <3>1. k \in 1..len
      BY <1>1, <1>5
    <3> QED
      BY <1>1, <1>2, <1>6, <3>1, AboveOrders
  <2> DEFINE place(k) == IF k < at THEN k ELSE k - 1
  <2>4. \A k \in 1..(len + 1) : k # at => place(k) \in 1..len /\ new[k].cells[col] = key(place(k))
    BY <1>1, <1>5, <1>8
  <2>5. new[at].cells[col] = it.cells[col]
    BY <1>5, <1>8
  <2>6. CASE i # at /\ j # at
    <3>1. place(i) < place(j)
      BY <1>1, <1>5, <1>9, <2>6
    <3> HIDE DEF place, key
    <3> QED
      BY <2>1, <2>4, <2>6, <3>1
  <2>7. CASE i = at
    <3>1. j # at /\ j - 1 \in at..len /\ place(j) = j - 1
      BY <1>1, <1>5, <1>9, <2>7
    <3> HIDE DEF place, key
    <3> QED
      BY <2>3, <2>4, <2>5, <2>7, <3>1
  <2>8. CASE j = at
    <3>1. i # at /\ i < at /\ i \in 1..len /\ place(i) = i
      BY <1>1, <1>5, <1>9, <2>8
    <3> HIDE DEF place, key
    <3> QED
      BY <2>2, <2>4, <2>5, <2>8, <3>1
  <2> QED
    BY <2>6, <2>7, <2>8
<1> QED
  BY <1>8, <1>9 DEF Ordered, new

(* The sort is a recursion over the rows; there is a function of that      *)
(* form, for one more row at a time.                                       *)
Builds(f, its, col, desc, k) ==
  f = [n \in 0..k |-> IF n = 0 THEN <<>> ELSE Insert(f[n - 1], its[n], col, desc)]

LEMMA SortExists ==
  ASSUME NEW its, Len(its) \in Nat, NEW col, NEW desc
  PROVE  \A k \in 0..Len(its) : \E f : Builds(f, its, col, desc, k)
<1> DEFINE Bad == {k \in 0..Len(its) : ~(\E f : Builds(f, its, col, desc, k))}
<1>1. SUFFICES ASSUME Bad # {} PROVE FALSE
  OBVIOUS
<1>2. PICK k \in Bad : \A j \in Bad : k <= j
  <2>1. Bad \in SUBSET Nat
    OBVIOUS
  <2> HIDE DEF Bad
  <2> QED
    BY <1>1, <2>1, LeastOf
<1>3. k \in 0..Len(its) /\ ~(\E f : Builds(f, its, col, desc, k))
  OBVIOUS
<1>4. CASE k = 0
  <2> DEFINE f == [n \in 0..0 |-> <<>>]
  <2>1. f = [n \in 0..0 |-> IF n = 0 THEN <<>> ELSE Insert(f[n - 1], its[n], col, desc)]
    <3>1. \A n \in 0..0 : <<>> = IF n = 0 THEN <<>> ELSE Insert(f[n - 1], its[n], col, desc)
      OBVIOUS
    <3> QED
      BY <3>1
  <2> QED
    BY <1>3, <1>4, <2>1 DEF Builds
<1>5. CASE k # 0
  <2>1. k - 1 \in 0..Len(its) /\ ~(k <= k - 1) /\ k \in 0..k /\ k - 1 \in 0..k
    BY <1>3, <1>5
  <2>2. k - 1 \notin Bad
    <3> HIDE DEF Bad
    <3> QED
      BY <1>2, <2>1
  <2>3. PICK g : Builds(g, its, col, desc, k - 1)
    BY <2>1, <2>2
  <2>4. \A n \in 0..(k - 1) : g[n] = IF n = 0 THEN <<>> ELSE Insert(g[n - 1], its[n], col, desc)
    BY <2>3 DEF Builds
  <2> DEFINE f == [n \in 0..k |-> IF n = k THEN Insert(g[k - 1], its[k], col, desc) ELSE g[n]]
  <2>5. \A n \in 0..k : f[n] = IF n = 0 THEN <<>> ELSE Insert(f[n - 1], its[n], col, desc)
    <3> SUFFICES ASSUME NEW n \in 0..k
                 PROVE  f[n] = IF n = 0 THEN <<>> ELSE Insert(f[n - 1], its[n], col, desc)
      OBVIOUS
    <3>1. CASE n = k
      <4>1. f[k] = Insert(g[k - 1], its[k], col, desc) /\ f[k - 1] = g[k - 1]
        BY <2>1
      <4> HIDE DEF f
      <4> QED
        BY <1>5, <3>1, <4>1
    <3>2. CASE n # k
      <4>1. n \in 0..(k - 1) /\ (n # 0 => n - 1 \in 0..k /\ n - 1 # k)
        BY <1>3, <3>2
      <4>2. f[n] = g[n] /\ (n # 0 => f[n - 1] = g[n - 1])
        BY <3>2, <4>1
      <4> HIDE DEF f
      <4> QED
        BY <2>4, <4>1, <4>2
    <3> QED
      BY <3>1, <3>2
  <2>6. f = [n \in 0..k |-> f[n]]
    OBVIOUS
  <2>7. Builds(f, its, col, desc, k)
    <3> HIDE DEF f
    <3> QED
      BY <2>5, <2>6 DEF Builds
  <2> QED
    BY <1>3, <2>7
<1> QED
  BY <1>4, <1>5

LEMMA SortIs ==
  ASSUME NEW n \in Nat, NEW its \in Seq(RowOf(n)), NEW col \in 1..n, NEW desc \in BOOLEAN
  PROVE  LET new == Sorted(its, col, desc)
         IN  new \in Seq(RowOf(n)) /\ Len(new) = Len(its) /\ Ordered(new, col, desc)
<1> DEFINE done == CHOOSE f : Builds(f, its, col, desc, Len(its))
<1>1. Len(its) \in Nat /\ \A k \in 1..Len(its) : its[k] \in RowOf(n)
  OBVIOUS
<1>2. Builds(done, its, col, desc, Len(its))
  <2>1. Len(its) \in 0..Len(its)
    BY <1>1
  <2>2. \A k \in 0..Len(its) : \E f : Builds(f, its, col, desc, k)
    BY <1>1, SortExists
  <2>3. \E f : Builds(f, its, col, desc, Len(its))
    BY <2>1, <2>2
  <2> QED
    BY <2>3
<1>3. Sorted(its, col, desc) = done[Len(its)]
  BY DEF Sorted, Builds
<1> HIDE DEF done
<1>4. \A k \in 0..Len(its) : done[k] = IF k = 0 THEN <<>> ELSE Insert(done[k - 1], its[k], col, desc)
  BY <1>2 DEF Builds
<1> DEFINE Good(k) == done[k] \in Seq(RowOf(n)) /\ Len(done[k]) = k /\ Ordered(done[k], col, desc)
           Bad == {k \in 0..Len(its) : ~Good(k)}
<1>5. Bad = {}
  <2>1. SUFFICES ASSUME Bad # {} PROVE FALSE
    OBVIOUS
  <2>2. PICK k \in Bad : \A j \in Bad : k <= j
    <3>1. Bad \in SUBSET Nat
      OBVIOUS
    <3> HIDE DEF Bad
    <3> QED
      BY <2>1, <3>1, LeastOf
  <2>3. k \in 0..Len(its) /\ ~Good(k)
    OBVIOUS
  <2>4. CASE k = 0
    <3>1. done[k] = <<>>
      BY <1>4, <2>3, <2>4
    <3>2. <<>> \in Seq(RowOf(n)) /\ Len(<<>>) = 0 /\ Ordered(<<>>, col, desc)
      BY DEF Ordered
    <3> QED
      BY <2>3, <2>4, <3>1, <3>2
  <2>5. CASE k # 0
    <3>1. k - 1 \in 0..Len(its) /\ ~(k <= k - 1) /\ k \in 1..Len(its)
      BY <1>1, <2>3, <2>5
    <3>2. k - 1 \notin Bad
      <4> HIDE DEF Bad
      <4> QED
        BY <2>2, <3>1
    <3>3. Good(k - 1)
      BY <3>1, <3>2
    <3>4. done[k] = Insert(done[k - 1], its[k], col, desc) /\ its[k] \in RowOf(n)
      BY <1>1, <1>4, <2>3, <2>5, <3>1
    <3>5. done[k] \in Seq(RowOf(n)) /\ Len(done[k]) = (k - 1) + 1 /\ Ordered(done[k], col, desc)
      BY <3>3, <3>4, Inserted
    <3>6. (k - 1) + 1 = k
      BY <2>3
    <3> QED
      BY <2>3, <3>5, <3>6
  <2> QED
    BY <2>4, <2>5
<1>6. Good(Len(its))
  <2>1. Len(its) \in 0..Len(its)
    BY <1>1
  <2> HIDE DEF Good
  <2> QED
    BY <1>5, <2>1
<1> QED
  BY <1>3, <1>6

(* A cache in force is of the rows there are; so what is drawn is what the *)
(* filter selects of them, whether it comes out of the cache or not.       *)
CacheTrue(cache, its) ==
  cache # Absent =>
    /\ DOMAIN cache = {"fresh", "pattern", "n", "indexes"}
    /\ cache.fresh => cache.indexes = computeVisibleIndexes(its, cache.pattern)
Selected(its, f) == IF f = Absent THEN Len(its) ELSE Len(computeVisibleIndexes(its, f))

LEMMA CacheInForce ==
  ASSUME NEW cache, NEW its, CacheTrue(cache, its), NEW f
  PROVE  /\ visibleIndexes(cache, its, f) = computeVisibleIndexes(its, f)
         /\ visibleLen(cache, its, f) = Selected(its, f)
         /\ CacheTrue(Filled(cache, its, f), its)
<1>1. visibleIndexes(cache, its, f) = computeVisibleIndexes(its, f)
  BY DEF CacheTrue, visibleIndexes, Cached
<1>2. visibleLen(cache, its, f) = Selected(its, f)
  BY <1>1 DEF visibleLen, Selected
<1>3. CacheTrue(Filled(cache, its, f), its)
  BY <1>1 DEF CacheTrue, Filled
<1> QED
  BY <1>1, <1>2, <1>3

LEMMA CacheDropped ==
  ASSUME NEW cache, NEW old, CacheTrue(cache, old), NEW its
  PROVE  CacheTrue(NextRevision(cache), its)
<1>1. CASE cache = Absent
  BY <1>1 DEF CacheTrue, NextRevision
<1>2. CASE cache # Absent
  <2>1. NextRevision(cache) = [cache EXCEPT !.fresh = FALSE] /\ DOMAIN cache = {"fresh", "pattern", "n", "indexes"}
    BY <1>2 DEF CacheTrue, NextRevision
  <2>2. DOMAIN NextRevision(cache) = {"fresh", "pattern", "n", "indexes"} /\ NextRevision(cache).fresh = FALSE
    BY <2>1
  <2> QED
    BY <2>2 DEF CacheTrue
<1> QED
  BY <1>1, <1>2

LEMMA SelectedMany ==
  ASSUME NEW S, NEW its \in Seq(S), NEW f
  PROVE  Selected(its, f) \in Nat
<1> DEFINE set == {i \in DOMAIN its : Matches(its[i], f)}
<1>1. DOMAIN its = 1..Len(its) /\ Len(its) \in Nat
  OBVIOUS
<1>2. IsFiniteSet(1..Len(its)) /\ \A i \in 1..Len(its) : i \in Nat
  BY <1>1, FS_Interval
<1>3. set \in SUBSET (1..Len(its))
  BY <1>1
<1> HIDE DEF set
<1>4. set \in SUBSET Nat /\ IsFiniteSet(set)
  BY <1>2, <1>3, FS_Subset
<1>5. Len(InOrder(set)) \in Nat
  BY <1>4, Listing
<1> QED
  BY <1>1, <1>5 DEF Selected, computeVisibleIndexes, set

LEMMA Clamped ==
  ASSUME NEW n \in Nat, NEW at \in Nat \ {0}
  PROVE  /\ clampCursor(at, n) \in 1..Max({1, n})
         /\ Max({1, n}) = IF n = 0 THEN 1 ELSE n
<1>1. Max({1, n}) = IF n = 0 THEN 1 ELSE n
  <2> DEFINE m == IF n = 0 THEN 1 ELSE n
  <2>1. m \in {1, n} /\ \A x \in {1, n} : m >= x
    <3>1. CASE n = 0
      BY <3>1
    <3>2. CASE n # 0
      <4>1. m = n /\ n >= 1 /\ n >= n
        BY <3>2
      <4> QED
        BY <4>1
    <3> QED
      BY <3>1, <3>2
  <2> HIDE DEF m
  <2>2. \A y \in {1, n} : (\A x \in {1, n} : y >= x) => y = m
    <3>1. m \in Nat
      BY <2>1
    <3> QED
      BY <2>1, <3>1
  <2>3. (CHOOSE y \in {1, n} : \A x \in {1, n} : y >= x) = m
    BY <2>1, <2>2
  <2> QED
    BY <2>3 DEF Max, m
<1> QED
  BY <1>1 DEF clampCursor

-----------------------------------------------------------------------------
(* While there are rows, their cells are those of the columns that are     *)
(* drawn, and they are sorted by the column the user chose.                *)
Listable == [pid : Listed, age : Ages]
SortedBy(its, cols, col, desc, id) ==
  its \in Seq(RowOf(Len(cols))) /\ col \in 1..Len(cols) /\ cols[col] = id /\ Ordered(its, col, desc)
ListInv ==
  /\ sortDesc \in BOOLEAN /\ cursor \in Nat \ {0}
  /\ IF sample = Absent THEN items = <<>>
     ELSE sample \in Seq(Listable) /\ SortedBy(items, visibleCols(shown), diagSortCol, sortDesc, sortColID)
  /\ CacheTrue(visCache, items) /\ CursorOnRow

(* A sort keeps the table, whatever column it is by.                       *)
LEMMA SortApplied ==
  ASSUME ListInv, NEW n \in Nat, NEW its \in Seq(RowOf(n)), NEW col \in 1..n, NEW desc \in BOOLEAN,
         applySort(its, col, desc), pattern' = pattern
  PROVE  /\ items' \in Seq(RowOf(n)) /\ Ordered(items', col, desc) /\ diagSortCol' = col /\ sortDesc' = desc
         /\ CacheTrue(visCache', items') /\ CursorOnRow' /\ cursor' \in Nat \ {0}
<1> DEFINE new == Sorted(its, col, desc)
           cache == NextRevision(visCache)
<1>1. /\ items' = new /\ diagSortCol' = col /\ sortDesc' = desc
      /\ cursor' = clampCursor(cursor, visibleLen(cache, new, pattern))
      /\ visCache' = IF pattern = Absent THEN cache ELSE Filled(cache, new, pattern)
  BY DEF applySort
<1>2. new \in Seq(RowOf(n)) /\ Ordered(new, col, desc)
  BY SortIs
<1>3. CacheTrue(cache, new)
  BY CacheDropped DEF ListInv
<1> HIDE DEF new, cache
<1>4. CacheTrue(visCache', new)
  BY <1>1, <1>3, CacheInForce
<1>5. /\ visibleLen(cache, new, pattern) = Selected(new, pattern)
      /\ visibleLen(visCache', new, pattern) = Selected(new, pattern)
      /\ Selected(new, pattern) \in Nat
  BY <1>2, <1>3, <1>4, CacheInForce, SelectedMany
<1>6. cursor' \in 1..Max({1, Selected(new, pattern)}) /\ Max({1, Selected(new, pattern)}) \in Nat
  <2>1. cursor' = clampCursor(cursor, Selected(new, pattern)) /\ cursor \in Nat \ {0}
    BY <1>1, <1>5 DEF ListInv
  <2> QED
    BY <1>5, <2>1, Clamped
<1>7. CursorOnRow'
  BY <1>1, <1>5, <1>6 DEF CursorOnRow
<1> QED
  BY <1>1, <1>2, <1>4, <1>6, <1>7

LEMMA CellIs ==
  ASSUME NEW id \in {"pid", "user", "query_age", "query"}, NEW row \in Listable
  PROVE  Cell(id, row) \in CellSet
<1>1. row.pid \in Int /\ row.age \in Int /\ Owner[row.pid] \in Int
  <2>1. row.pid \in Listed /\ row.age \in Ages
    BY DEF Listable
  <2>2. Listed \subseteq Nat /\ Ages \subseteq Nat /\ \A p \in Listed : Owner[p] \in Int
    <3>1. Owner \in [Listed -> Int] /\ Listed \subseteq Nat \ {0} /\ Ages \subseteq Nat
      BY ListAssumption
    <3>2. \A p \in Listed : Owner[p] \in Int
      BY <3>1
    <3> QED
      BY <3>1, <3>2
  <2>3. \A x \in Nat : x \in Int
    OBVIOUS
  <2>4. row.pid \in Int /\ row.age \in Int
    BY <2>1, <2>2, <2>3
  <2> QED
    BY <2>1, <2>2, <2>4
<1>2. CASE id = "pid"
  BY <1>1, <1>2 DEF Cell, CellSet
<1>3. CASE id = "user"
  BY <1>1, <1>3 DEF Cell, CellSet
<1>4. CASE id = "query_age"
  BY <1>1, <1>4 DEF Cell, CellSet
<1>5. CASE id = "query"
  BY <1>1, <1>5 DEF Cell, CellSet
<1> QED
  BY <1>2, <1>3, <1>4, <1>5

(* The column is looked up again among those that are drawn now; a hidden  *)
(* one gives way to the default, and that to the first.                    *)
LEMMA SortSynced ==
  ASSUME NEW visible, sortDesc \in BOOLEAN
  PROVE  LET cols == visibleCols(visible)
             sort == syncSort(cols)
         IN  sort.col \in 1..Len(cols) /\ cols[sort.col] = sort.id /\ sort.desc \in BOOLEAN
<1> DEFINE cols == visibleCols(visible)
           at == indexOfCol(cols, sortColID)
           fallback == indexOfCol(cols, defaultSort)
           sort == syncSort(cols)
<1>1. Len(cols) \in Nat \ {0}
  BY Columns
<1> HIDE DEF cols
<1>2. at \in 0..Len(cols) /\ (at # 0 => cols[at] = sortColID)
  BY <1>1, PlaceOf
<1>3. fallback \in 0..Len(cols) /\ (fallback # 0 => cols[fallback] = defaultSort)
  BY <1>1, PlaceOf
<1>4. sort = CASE at > 0 -> [col |-> at, desc |-> sortDesc, id |-> sortColID]
               [] at = 0 /\ fallback > 0 -> [col |-> fallback, desc |-> TRUE, id |-> defaultSort]
               [] OTHER -> [col |-> 1, desc |-> sortDesc, id |-> cols[1]]
  BY DEF syncSort
<1> HIDE DEF at, fallback, sort
<1>5. CASE at > 0
  <2>1. sort = [col |-> at, desc |-> sortDesc, id |-> sortColID]
    BY <1>2, <1>4, <1>5
  <2> QED
    BY <1>1, <1>2, <1>5, <2>1 DEF cols, sort
<1>6. CASE at = 0 /\ fallback > 0
  <2>1. sort = [col |-> fallback, desc |-> TRUE, id |-> defaultSort]
    BY <1>4, <1>6
  <2> QED
    BY <1>1, <1>3, <1>6, <2>1 DEF cols, sort
<1>7. CASE at = 0 /\ ~(fallback > 0)
  <2>1. sort = [col |-> 1, desc |-> sortDesc, id |-> cols[1]]
    BY <1>4, <1>7
  <2> QED
    BY <1>1, <1>7, <2>1 DEF cols, sort
<1> QED
  BY <1>2, <1>5, <1>6, <1>7

LEMMA Rebuilt ==
  ASSUME ListInv, NEW rows \in Seq(Listable), NEW visible, rebuildActivityItems(rows, visible), pattern' = pattern
  PROVE  /\ SortedBy(items', visibleCols(visible), diagSortCol', sortDesc', sortColID')
         /\ sortDesc' \in BOOLEAN /\ cursor' \in Nat \ {0}
         /\ CacheTrue(visCache', items') /\ CursorOnRow'
<1> DEFINE cols == visibleCols(visible)
           sort == syncSort(cols)
           its  == [i \in DOMAIN rows |->
                      [pid |-> rows[i].pid, cells |-> [c \in DOMAIN cols |-> Cell(cols[c], rows[i])]]]
<1>1. sortColID' = sort.id /\ applySort(its, sort.col, sort.desc)
  BY DEF rebuildActivityItems
<1>2. sort.col \in 1..Len(cols) /\ cols[sort.col] = sort.id /\ sort.desc \in BOOLEAN
  BY SortSynced DEF ListInv
<1>3. Len(cols) \in Nat /\ cols \in [1..Len(cols) -> {"pid", "user", "query_age", "query"}]
  BY Columns
<1>4. its \in Seq(RowOf(Len(cols)))
  <2> HIDE DEF cols
  <2>1. DOMAIN rows = 1..Len(rows) /\ Len(rows) \in Nat /\ \A i \in 1..Len(rows) : rows[i] \in Listable
    OBVIOUS
  <2> DEFINE cells(i) == [c \in DOMAIN cols |-> Cell(cols[c], rows[i])]
  <2>2. \A i \in 1..Len(rows) : rows[i].pid \in Listed
    BY <2>1 DEF Listable
  <2>3. \A i \in 1..Len(rows) : cells(i) \in [1..Len(cols) -> CellSet]
    <3>1. DOMAIN cols = 1..Len(cols) /\ \A c \in 1..Len(cols) : cols[c] \in {"pid", "user", "query_age", "query"}
      BY <1>3
    <3>2. \A i \in 1..Len(rows) : \A c \in 1..Len(cols) : Cell(cols[c], rows[i]) \in CellSet
      BY <2>1, <3>1, CellIs
    <3> QED
      BY <3>1, <3>2
  <2> HIDE DEF cells
  <2>4. \A i \in 1..Len(rows) : [pid |-> rows[i].pid, cells |-> cells(i)] \in RowOf(Len(cols))
    BY <2>2, <2>3 DEF RowOf
  <2>5. its = [i \in 1..Len(rows) |-> [pid |-> rows[i].pid, cells |-> cells(i)]]
    BY <2>1 DEF cells
  <2> HIDE DEF its
  <2> QED
    BY <2>1, <2>4, <2>5
<1> HIDE DEF its, sort, cols
<1>5. /\ items' \in Seq(RowOf(Len(cols))) /\ Ordered(items', sort.col, sort.desc)
      /\ diagSortCol' = sort.col /\ sortDesc' = sort.desc
      /\ CacheTrue(visCache', items') /\ CursorOnRow' /\ cursor' \in Nat \ {0}
  BY <1>1, <1>2, <1>3, <1>4, SortApplied
<1> QED
  BY <1>1, <1>2, <1>5 DEF SortedBy, cols

LEMMA ListInitial == ListInit => ListInv
<1> SUFFICES ASSUME ListInit PROVE ListInv
  OBVIOUS
<1>1. sample = Absent /\ items = <<>> /\ sortDesc = TRUE /\ pattern = Absent /\ cursor = 1 /\ visCache = Absent
  BY DEF ListInit
<1>2. visibleLen(visCache, items, pattern) = 0
  BY <1>1 DEF visibleLen
<1>3. CursorOnRow
  <2>1. 0 \in Nat /\ 1 \in Nat \ {0}
    OBVIOUS
  <2>2. Max({1, 0}) = 1
    BY <2>1, Clamped
  <2> QED
    <3>1. Max({1, visibleLen(visCache, items, pattern)}) = 1
      BY <1>2, <2>2
    <3>2. cursor \in 1..1
      BY <1>1
    <3> QED
      BY <3>1, <3>2 DEF CursorOnRow
<1> QED
  BY <1>1, <1>3 DEF ListInv, CacheTrue

LEMMA ItemsListed == ListInv => \E S : items \in Seq(S)
<1> SUFFICES ASSUME ListInv PROVE \E S : items \in Seq(S)
  OBVIOUS
<1>1. CASE sample = Absent
  <2>1. items = <<>> /\ <<>> \in Seq({})
    BY <1>1 DEF ListInv
  <2> QED
    BY <2>1
<1>2. CASE sample # Absent
  BY <1>2 DEF ListInv, SortedBy
<1> QED
  BY <1>1, <1>2

LEMMA Counted == ListInv => Selected(items, pattern) \in Nat
<1> SUFFICES ASSUME ListInv PROVE Selected(items, pattern) \in Nat
  OBVIOUS
<1>1. \E S : items \in Seq(S)
  BY ItemsListed
<1> QED
  BY <1>1, SelectedMany

(* A step that leaves the rows and their order alone, and moves the cursor *)
(* among what is selected.                                                 *)
LEMMA RowsStay ==
  ASSUME ListInv, UNCHANGED <<sample, shown, sortColID, diagSortCol, sortDesc, items>>,
         CacheTrue(visCache', items'), cursor' \in Nat \ {0}, cursor' <= Max({1, Selected(items', pattern')})
  PROVE  ListInv'
<1>1. Selected(items', pattern') \in Nat
  <2>1. \E S : items' \in Seq(S)
    BY ItemsListed
  <2> QED
    BY <2>1, SelectedMany
<1>2. Max({1, Selected(items', pattern')}) \in Nat
  <2>1. 1 \in Nat \ {0}
    OBVIOUS
  <2> QED
    BY <1>1, <2>1, Clamped
<1>3. visibleLen(visCache', items', pattern') = Selected(items', pattern')
  BY CacheInForce
<1>4. CursorOnRow'
  <2>1. cursor' \in 1..Max({1, Selected(items', pattern')})
    BY <1>2
  <2> QED
    BY <1>3, <2>1 DEF CursorOnRow
<1>5. visibleCols(shown') = visibleCols(shown)
  OBVIOUS
<1> QED
  BY <1>4, <1>5 DEF ListInv

LEMMA CursorHere == ListInv => cursor <= Max({1, Selected(items, pattern)})
<1> SUFFICES ASSUME ListInv PROVE cursor <= Max({1, Selected(items, pattern)})
  OBVIOUS
<1>1. cursor \in 1..Max({1, visibleLen(visCache, items, pattern)})
  BY DEF ListInv, CursorOnRow
<1>2. visibleLen(visCache, items, pattern) = Selected(items, pattern)
  BY CacheInForce DEF ListInv
<1> QED
  BY <1>1, <1>2

LEMMA SampleRebuilds ==
  ASSUME ListInv, NEW pids \in SUBSET Listed, NEW age \in [pids -> Ages],
         sample' = [i \in DOMAIN InOrder(pids) |-> [pid |-> InOrder(pids)[i], age |-> age[InOrder(pids)[i]]]],
         rebuildActivityItems(sample', shown), UNCHANGED <<shown, pattern, armed>>
  PROVE  ListInv'
<1> DEFINE order == InOrder(pids)
<1>1. pids \in SUBSET Nat /\ IsFiniteSet(pids)
  <2>1. Listed \subseteq Nat /\ IsFiniteSet(Listed)
    BY ListAssumption
  <2> QED
    BY <2>1, FS_Subset
<1>2. Len(order) \in Nat /\ order \in [1..Len(order) -> pids]
  BY <1>1, Listing
<1>3. sample' \in Seq(Listable)
  <2> DEFINE n == Len(order)
  <2> HIDE DEF order
  <2>1. \A i \in 1..Len(order) : [pid |-> order[i], age |-> age[order[i]]] \in Listable
    BY <1>2 DEF Listable
  <2>2. sample' = [i \in 1..Len(order) |-> [pid |-> order[i], age |-> age[order[i]]]]
    BY <1>2 DEF order
  <2> QED
    BY <1>2, <2>1, <2>2
<1>4. sample' # Absent
  BY <1>3, ListAssumption DEF Listable
<1>5. /\ SortedBy(items', visibleCols(shown), diagSortCol', sortDesc', sortColID')
      /\ sortDesc' \in BOOLEAN /\ cursor' \in Nat \ {0}
      /\ CacheTrue(visCache', items') /\ CursorOnRow'
  BY <1>3, Rebuilt
<1> QED
  BY <1>3, <1>4, <1>5 DEF ListInv

LEMMA PickRebuilds ==
  ASSUME ListInv, NEW visible, Pick(visible)
  PROVE  ListInv'
<1>1. sample' = sample /\ pattern' = pattern /\ shown' = visible
  BY DEF Pick
<1>2. CASE sample = Absent
  <2>1. UNCHANGED <<sortColID, diagSortCol, sortDesc, items, cursor, visCache>>
    BY <1>2 DEF Pick
  <2>2. items' = <<>>
    BY <1>2, <2>1 DEF ListInv
  <2>3. CursorOnRow'
    BY <1>1, <2>1 DEF ListInv, CursorOnRow
  <2> QED
    BY <1>1, <1>2, <2>1, <2>2, <2>3 DEF ListInv
<1>3. CASE sample # Absent
  <2>1. rebuildActivityItems(sample, visible) /\ sample \in Seq(Listable)
    BY <1>3 DEF Pick, ListInv
  <2>2. /\ SortedBy(items', visibleCols(visible), diagSortCol', sortDesc', sortColID')
        /\ sortDesc' \in BOOLEAN /\ cursor' \in Nat \ {0}
        /\ CacheTrue(visCache', items') /\ CursorOnRow'
    BY <1>1, <2>1, Rebuilt
  <2> QED
    BY <1>1, <1>3, <2>1, <2>2 DEF ListInv
<1> QED
  BY <1>2, <1>3

(* Sorting by the next column, or the other way round.                     *)
LEMMA SortsAgain ==
  ASSUME ListInv, sample # Absent, NEW col \in 1..Len(visibleCols(shown)), NEW desc \in BOOLEAN,
         applySort(items, col, desc), UNCHANGED <<sample, shown, pattern>>, sortColID' = visibleCols(shown)[col]
  PROVE  ListInv'
<1>1. items \in Seq(RowOf(Len(visibleCols(shown)))) /\ sample \in Seq(Listable)
  BY DEF ListInv, SortedBy
<1>2. Len(visibleCols(shown)) \in Nat
  BY Columns
<1>3. /\ items' \in Seq(RowOf(Len(visibleCols(shown)))) /\ Ordered(items', col, desc)
      /\ diagSortCol' = col /\ sortDesc' = desc
      /\ CacheTrue(visCache', items') /\ CursorOnRow' /\ cursor' \in Nat \ {0}
  BY <1>1, <1>2, SortApplied
<1>4. visibleCols(shown') = visibleCols(shown)
  OBVIOUS
<1> HIDE DEF SortedBy
<1>5. SortedBy(items', visibleCols(shown'), diagSortCol', sortDesc', sortColID')
  BY <1>3, <1>4 DEF SortedBy
<1> QED
  BY <1>1, <1>3, <1>5 DEF ListInv

LEMMA ListInductive == ListInv /\ [ListNext]_listVars => ListInv'
<1> SUFFICES ASSUME ListInv, [ListNext]_listVars PROVE ListInv'
  OBVIOUS
<1>1. CASE Reload
  <2>1. PICK pids \in SUBSET Listed : \E age \in [pids -> Ages] :
          LET order == InOrder(pids)
          IN  /\ sample' = [i \in DOMAIN order |-> [pid |-> order[i], age |-> age[order[i]]]]
              /\ rebuildActivityItems(sample', shown)
              /\ UNCHANGED <<shown, pattern, armed>>
    BY <1>1 DEF Reload
  <2> QED
    BY <2>1, SampleRebuilds
<1>2. CASE Toggle
  BY <1>2, PickRebuilds DEF Toggle
<1>3. CASE ResetCols
  BY <1>3, PickRebuilds DEF ResetCols
<1>4. ASSUME NEW step \in {1, -1}, cycleSort(step) PROVE ListInv'
  <2> DEFINE cols == visibleCols(shown)
             col  == ((diagSortCol - 1 + step) % Len(cols)) + 1
  <2>1. /\ sample # Absent /\ sortColID' = cols[col] /\ applySort(items, col, cols[col] \in Numeric)
        /\ UNCHANGED <<sample, shown, pattern>>
    BY <1>4 DEF cycleSort
  <2>2. col \in 1..Len(cols)
    <3>1. Len(cols) \in Nat \ {0} /\ diagSortCol \in 1..Len(cols)
      BY <2>1, Columns DEF ListInv, SortedBy
    <3> HIDE DEF cols
    <3>2. diagSortCol - 1 + step \in Int
      BY <3>1
    <3>3. \A x \in Int : x % Len(cols) \in 0..(Len(cols) - 1)
      BY <3>1
    <3> DEFINE m == (diagSortCol - 1 + step) % Len(cols)
    <3>4. m \in 0..(Len(cols) - 1)
      BY <3>2, <3>3
    <3> HIDE DEF m
    <3>5. m + 1 \in 1..Len(cols)
      BY <3>1, <3>4
    <3> QED
      BY <3>5 DEF m
  <2>3. (cols[col] \in Numeric) \in BOOLEAN
    OBVIOUS
  <2> HIDE DEF col
  <2> QED
    BY <2>1, <2>2, <2>3, SortsAgain
<1>5. CASE ReverseSort
  <2>1. /\ sample # Absent /\ applySort(items, diagSortCol, ~sortDesc)
        /\ UNCHANGED <<sample, shown, sortColID, pattern>>
    BY <1>5 DEF ReverseSort
  <2>2. /\ diagSortCol \in 1..Len(visibleCols(shown)) /\ visibleCols(shown)[diagSortCol] = sortColID
        /\ (~sortDesc) \in BOOLEAN
    BY <2>1 DEF ListInv, SortedBy
  <2> QED
    BY <2>1, <2>2, SortsAgain
<1>6. ASSUME NEW f, editFilter(f) PROVE ListInv'
  <2>1. cursor' = 1 /\ UNCHANGED <<sample, shown, sortColID, diagSortCol, sortDesc, items, visCache>>
    BY <1>6 DEF editFilter
  <2>2. CacheTrue(visCache', items')
    BY <2>1 DEF ListInv
  <2>3. 1 <= Max({1, Selected(items', pattern')})
    <3>1. Selected(items', pattern') \in Nat
      <4>1. \E S : items' \in Seq(S)
        BY <2>1, ItemsListed
      <4> QED
        BY <4>1, SelectedMany
    <3>2. 1 \in Nat \ {0}
      OBVIOUS
    <3>3. Max({1, Selected(items', pattern')}) = IF Selected(items', pattern') = 0 THEN 1 ELSE Selected(items', pattern')
      BY <3>1, <3>2, Clamped
    <3> QED
      BY <3>1, <3>3
  <2> QED
    BY <2>1, <2>2, <2>3, RowsStay
<1>7. CASE Move
  <2>1. UNCHANGED <<sample, shown, sortColID, diagSortCol, sortDesc, items, pattern, visCache>>
    BY <1>7 DEF Move
  <2>2. CacheTrue(visCache', items')
    BY <2>1 DEF ListInv
  <2>3. visibleLen(visCache, items, pattern) = Selected(items, pattern) /\ cursor \in Nat \ {0}
    BY CacheInForce DEF ListInv
  <2>4. cursor <= Max({1, Selected(items, pattern)})
    BY CursorHere
  <2>5. /\ Selected(items, pattern) \in Nat
        /\ Max({1, Selected(items, pattern)}) = IF Selected(items, pattern) = 0 THEN 1 ELSE Selected(items, pattern)
    BY <2>3, Counted, Clamped
  <2>6. cursor' \in Nat \ {0} /\ cursor' <= Max({1, Selected(items, pattern)})
    <3>1. CASE cursor > 1 /\ cursor' = cursor - 1
      BY <2>3, <2>4, <2>5, <3>1
    <3>2. CASE cursor < visibleLen(visCache, items, pattern) /\ cursor' = cursor + 1
      BY <2>3, <2>4, <2>5, <3>2
    <3> QED
      BY <1>7, <3>1, <3>2 DEF Move
  <2> QED
    BY <2>1, <2>2, <2>6, RowsStay
<1>8. CASE Render \/ Signal \/ Answered \/ UNCHANGED listVars
  <2>1. /\ UNCHANGED <<sample, shown, sortColID, diagSortCol, sortDesc, items, pattern, cursor>>
        /\ visCache' = visCache \/ visCache' = Filled(visCache, items, pattern)
    BY <1>8 DEF Render, Signal, Answered, listVars
  <2>2. CacheTrue(visCache', items')
    BY <2>1, CacheInForce DEF ListInv
  <2>3. cursor' \in Nat \ {0} /\ cursor' <= Max({1, Selected(items', pattern')})
    BY <2>1, CursorHere DEF ListInv
  <2> QED
    BY <2>1, <2>2, <2>3, RowsStay
<1> QED
  BY <1>1, <1>2, <1>3, <1>4, <1>5, <1>6, <1>7, <1>8 DEF ListNext

LEMMA TableFromInv == ListInv => TableSound
<1> SUFFICES ASSUME ListInv PROVE TableSound
  OBVIOUS
<1>1. FilterFresh
  BY CacheInForce DEF ListInv, FilterFresh
<1>2. RowsOrdered
  <2>1. CASE sample = Absent
    <3>1. items = <<>> /\ DOMAIN items = {}
      BY <2>1 DEF ListInv
    <3> QED
      BY <3>1 DEF RowsOrdered
  <2>2. CASE sample # Absent
    <3> DEFINE cols == visibleCols(shown)
    <3>1. /\ items \in Seq(RowOf(Len(cols))) /\ diagSortCol \in 1..Len(cols) /\ cols[diagSortCol] = sortColID
          /\ Ordered(items, diagSortCol, sortDesc)
      BY <2>2 DEF ListInv, SortedBy
    <3>2. Len(cols) \in Nat /\ \A j, k \in 1..Len(cols) : cols[j] = cols[k] => j = k
      BY Columns
    <3> HIDE DEF cols
    <3>3. indexOfCol(cols, sortColID) = diagSortCol
      <4> DEFINE at == indexOfCol(cols, sortColID)
      <4>1. /\ at \in 0..Len(cols) /\ (at # 0 => cols[at] = sortColID)
            /\ at = 0 => \A k \in 1..Len(cols) : cols[k] # sortColID
        BY <3>2, PlaceOf
      <4> HIDE DEF at
      <4>2. at # 0
        BY <3>1, <4>1
      <4>3. at \in 1..Len(cols) /\ cols[at] = cols[diagSortCol]
        BY <3>1, <3>2, <4>1, <4>2
      <4>4. at = diagSortCol
        BY <3>1, <3>2, <4>3
      <4> QED
        BY <4>4 DEF at
    <3>4. DOMAIN items = 1..Len(items)
      BY <3>1
    <3> QED
      BY <3>1, <3>3, <3>4 DEF RowsOrdered, Ordered, Above, cols
  <2> QED
    BY <2>1, <2>2
<1>3. CursorOnRow
  BY DEF ListInv
<1> QED
  BY <1>1, <1>2, <1>3 DEF TableSound

(* After any keys and samples: what is drawn, counted and acted upon is    *)
(* what the filter selects of the rows there are, they are in the order of *)
(* the column the user chose, and the cursor is on one of them.            *)
THEOREM TableAlwaysSound == ListSpec => []TableSound
<1>1. ListInv /\ [ListNext]_listVars => ListInv'
  BY ListInductive
<1> QED
  BY <1>1, ListInitial, TableFromInv, PTL DEF ListSpec
=============================================================================
