------------------------------ MODULE ProcRates ------------------------------
(***************************************************************************)
(* CPU of the backends in the activity table.  Every sample of the table   *)
(* starts a goroutine that reads /proc for the pids it listed; a rate is   *)
(* the difference of two readings, whichever were landed one after the     *)
(* other.  Readings land in any order, and the kernel gives the pid of a   *)
(* backend that has gone to the next.                                      *)
(* Bytes read and written follow the same rule and are left out; a tick of *)
(* the clock is one of USER_HZ.                                            *)
(***************************************************************************)
EXTENDS Integers, FiniteSets

CONSTANTS
  Pids,      \* backends the table lists
  Samplers,  \* bound: goroutines that read /proc at a time
  MaxClock,  \* bound: the time
  Unknown    \* a rate that cannot be told

ASSUME ClockAssumption == MaxClock \in Nat
ASSUME UnknownAssumption == Unknown \notin [delta : Int, over : Int]

VARIABLES
  clock,
  ticks,    \* CPU ticks of the process that has the pid
  reading,  \* what a sampler has read, not landed
  prev,     \* Model.actProcPrev
  stats     \* Model.actProcStats: the rate as a difference over a time

procVars == <<clock, ticks, reading, prev, stats>>

Sample == [at : Nat, ticks : Nat]

(* A map over some of the pids.                                            *)
Samples == UNION {[P -> Sample] : P \in SUBSET Pids}

ProcInit ==
  /\ clock = 0
  /\ ticks = [p \in Pids |-> 0]
  /\ reading = [s \in Samplers |-> <<>>]
  /\ prev = <<>> /\ stats = <<>>

-----------------------------------------------------------------------------
(* A process uses up to one tick of CPU per tick of the clock.             *)
Elapse ==
  /\ clock < MaxClock /\ clock' = clock + 1
  /\ \E busy \in SUBSET Pids :
       ticks' = [p \in Pids |-> IF p \in busy THEN ticks[p] + 1 ELSE ticks[p]]
  /\ UNCHANGED <<reading, prev, stats>>

(* A backend ends, and another gets its pid.                               *)
Reuse(p) ==
  /\ ticks[p] > 0 /\ ticks' = [ticks EXCEPT ![p] = 0]
  /\ UNCHANGED <<clock, reading, prev, stats>>

(* sampleProcStatsCmd; a pid may be gone by then, or not be readable.      *)
sampleProcStats(s, listed) ==
  /\ DOMAIN reading[s] = {} /\ listed # {}
  /\ reading' = [reading EXCEPT ![s] = [p \in listed |-> [at |-> clock, ticks |-> ticks[p]]]]
  /\ UNCHANGED <<clock, ticks, prev, stats>>

(* Mutants: a difference that may be negative, and one over no time.       *)
RateOfAny(old, cur) ==
  IF cur.at > old.at THEN [delta |-> cur.ticks - old.ticks, over |-> cur.at - old.at] ELSE Unknown

Rate(old, cur) ==
  IF cur.at > old.at /\ cur.ticks >= old.ticks
  THEN [delta |-> cur.ticks - old.ticks, over |-> cur.at - old.at] ELSE Unknown

(* Pids that are not in the batch are evicted.  Without an activity screen *)
(* on the stack the batch is dropped.                                      *)
onActivityProc(s) ==
  LET batch == reading[s]
  IN  /\ DOMAIN batch # {}
      /\ \/ /\ prev' = batch
            /\ stats' = [p \in DOMAIN batch |->
                           IF p \in DOMAIN prev THEN Rate(prev[p], batch[p]) ELSE Unknown]
         \/ UNCHANGED <<prev, stats>>
      /\ reading' = [reading EXCEPT ![s] = <<>>]
      /\ UNCHANGED <<clock, ticks>>

ProcNext ==
  \/ Elapse
  \/ \E p \in Pids : Reuse(p)
  \/ \E s \in Samplers : onActivityProc(s) \/ \E listed \in SUBSET Pids : sampleProcStats(s, listed)

ProcSpec == ProcInit /\ [][ProcNext]_procVars

-----------------------------------------------------------------------------
(* No backend is shown with a negative rate, or with more CPU than one     *)
(* process can use: not after readings that landed in the wrong order, nor *)
(* across two processes with one pid.                                      *)
RatesPossible ==
  \A p \in DOMAIN stats :
    stats[p] # Unknown => 0 <= stats[p].delta /\ stats[p].delta <= stats[p].over /\ stats[p].over > 0
=============================================================================
