----------------------------- MODULE StreamProofs -----------------------------
(***************************************************************************)
(* The overlay of a suggested fix is an output pane, and the pane of       *)
(* VACUUM follows what its runs print, for any number of runs, any output  *)
(* and any capacity of the line channel.                                   *)
(***************************************************************************)
EXTENDS Stream, TLAPS

Prefix(n) == [i \in 1..n |-> i]

(* The types the overlay needs; the pane of VACUUM plays no part in it.    *)
RunTypes ==
  /\ phase \in [Runs -> {"unused", "running", "returned"}]
  /\ table \in [Runs -> Tables \cup {None}]
  /\ length \in [Runs -> 0..MaxLines] /\ sent \in [Runs -> 0..MaxLines]
  /\ taken \in [Runs -> 0..MaxLines]
  /\ reader \in [Runs -> {"none", "started", "waiting", "line", "done"}]
  /\ screen \in Tables \cup {None, "diagnostic"}
  /\ fix \in Fix

(* No run is read before it starts, nor past what it sent.                 *)
RunsInv ==
  \A r \in Runs :
    /\ taken[r] <= sent[r]
    /\ phase[r] = "unused" => reader[r] = "none" /\ sent[r] = 0 /\ taken[r] = 0
    /\ reader[r] = "started" => table[r] # None
    /\ reader[r] = "line" => taken[r] > 0

(* A fix is read only while its overlay runs it: the lines that reach the  *)
(* overlay are its own.  FixOutput is not inductive without this.          *)
OnlyReader ==
  \A r \in Runs : reader[r] # "none" /\ table[r] = None => fix.state = "running" /\ fix.run = r

(* What a running overlay shows is what was taken, less a line under way.  *)
Shown(r) == IF reader[r] = "line" THEN taken[r] - 1 ELSE taken[r]

FixInv ==
  /\ fix.state = "running" => fix.run # None
  /\ fix.run = None => fix.buf = Prefix(0)
  /\ fix.run # None => table[fix.run] = None /\ phase[fix.run] # "unused"
  /\ fix.run # None /\ fix.state = "running" => fix.buf = Prefix(Shown(fix.run))
  /\ fix.run # None /\ fix.state # "running" =>
       \E n \in Nat : n <= taken[fix.run] /\ fix.buf = Prefix(n)

(* The confirmation of a vacuum is armed on a parts screen.                *)
ArmedOnTable == armed => screen \in Tables

IndInv == RunTypes /\ RunsInv /\ OnlyReader /\ FixInv /\ ArmedOnTable

-----------------------------------------------------------------------------
(* A prefix has its length, and the next line makes it the next prefix.    *)
LEMMA PrefixFacts ==
  ASSUME NEW n \in Nat
  PROVE  /\ Len(Prefix(n)) = n
         /\ Append(Prefix(n), n + 1) = Prefix(n + 1)
  BY DEF Prefix

(* The empty buffer is the empty prefix.                                   *)
LEMMA EmptyPrefix == <<>> = Prefix(0)
  BY DEF Prefix

(* The program starts with nothing run and nothing shown.                  *)
LEMMA InitHolds == Init => IndInv
  <1> SUFFICES ASSUME Init PROVE IndInv
    OBVIOUS
  <1>1. RunTypes
    BY CapacityAssumption DEF Init, RunTypes, ClosedFix, Fix
  <1>2. RunsInv /\ OnlyReader
    BY DEF Init, RunsInv, OnlyReader
  <1>3. FixInv
    BY EmptyPrefix DEF Init, FixInv, ClosedFix
  <1>4. ArmedOnTable
    BY DEF Init, ArmedOnTable
  <1>5. QED
    BY <1>1, <1>2, <1>3, <1>4 DEF IndInv

(* A step that leaves the overlay and what it has shown alone, and takes   *)
(* lines from the channels only, keeps FixInv.                             *)
LEMMA FixStays ==
  ASSUME IndInv, RunTypes', UNCHANGED fix,
         \A r \in Runs :
           /\ table[r] = None => Shown(r)' = Shown(r) /\ table'[r] = None
           /\ taken[r] <= taken'[r]
           /\ phase[r] # "unused" => phase'[r] # "unused"
  PROVE  FixInv'
  <1>1. CASE fix.run = None
    BY <1>1 DEF IndInv, FixInv
  <1>2. CASE fix.run # None
    <2> DEFINE f == fix.run
    <2>1. f \in Runs /\ table[f] = None /\ fix'.run = f
      BY <1>2 DEF IndInv, RunTypes, Fix, FixInv
    <2>2. Shown(f)' = Shown(f) /\ table'[f] = None /\ taken[f] <= taken'[f] /\ phase'[f] # "unused"
      BY <2>1, <1>2 DEF IndInv, FixInv
    <2>3. Shown(fix.run)' = Shown(f)
      BY <2>1, <2>2 DEF Shown
    <2>4. CASE fix.state = "running"
      <3>1. fix.buf = Prefix(Shown(f))
        BY <2>4, <1>2 DEF IndInv, FixInv
      <3>2. fix'.buf = Prefix(Shown(fix.run)')
        BY <2>3, <3>1
      <3>3. QED
        BY <2>1, <2>2, <2>4, <3>2, <1>2 DEF FixInv
    <2>5. CASE fix.state # "running"
      <3>1. PICK n \in Nat : n <= taken[f] /\ fix.buf = Prefix(n)
        BY <2>5, <1>2 DEF IndInv, FixInv
      <3>2. n <= taken'[f]
        BY <2>1, <2>2, <3>1 DEF IndInv, RunTypes
      <3>3. QED
        BY <2>1, <2>2, <2>5, <3>1, <3>2, <1>2 DEF FixInv
    <2>6. QED
      BY <2>4, <2>5
  <1>3. QED
    BY <1>1, <1>2

-----------------------------------------------------------------------------
(* The goroutine sends lines and returns.                                  *)
LEMMA GoroutineKeeps ==
  ASSUME IndInv, NEW r \in Runs, Goroutine(r)
  PROVE  IndInv'
  <1>1. /\ UNCHANGED <<taken, reader, table, length, screen, armed, fix>>
        /\ phase[r] = "running"
        /\ \/ phase' = [phase EXCEPT ![r] = "returned"] /\ sent' = sent
           \/ phase' = phase /\ sent' = [sent EXCEPT ![r] = @ + 1] /\ sent[r] < length[r]
    BY DEF Goroutine, onLine, Return, Screens
  <1>2. RunTypes'
    BY <1>1, CapacityAssumption DEF IndInv, RunTypes
  <1>3. RunsInv'
    BY <1>1 DEF IndInv, RunTypes, RunsInv
  <1>4. OnlyReader'
    BY <1>1 DEF IndInv, OnlyReader
  <1>5. FixInv'
    <2>1. \A s \in Runs : Shown(s)' = Shown(s)
      BY <1>1 DEF Shown
    <2>2. \A s \in Runs : taken[s] <= taken'[s] /\ (phase[s] # "unused" => phase'[s] # "unused")
      BY <1>1 DEF IndInv, RunTypes
    <2>3. QED
      BY <1>1, <1>2, <2>1, <2>2, FixStays
  <1>6. ArmedOnTable'
    BY <1>1 DEF IndInv, ArmedOnTable
  <1>7. QED
    BY <1>2, <1>3, <1>4, <1>5, <1>6 DEF IndInv

(* The wait command takes a line, which is then under way, or the result.  *)
LEMMA WaitingKeeps ==
  ASSUME IndInv, NEW r \in Runs, Waiting(r)
  PROVE  IndInv'
  <1>1. /\ UNCHANGED <<phase, table, length, sent, screen, armed, fix>>
        /\ reader[r] = "waiting"
        /\ \/ /\ taken' = [taken EXCEPT ![r] = @ + 1] /\ taken[r] < sent[r]
              /\ reader' = [reader EXCEPT ![r] = "line"]
           \/ taken' = taken /\ reader' = [reader EXCEPT ![r] = "done"]
    BY DEF Waiting, waitLine, waitDone, Screens
  <1>2. RunTypes'
    BY <1>1, CapacityAssumption DEF IndInv, RunTypes
  <1>3. RunsInv'
    BY <1>1 DEF IndInv, RunTypes, RunsInv
  <1>4. OnlyReader'
    BY <1>1 DEF IndInv, RunTypes, OnlyReader
  <1>5. FixInv'
    <2>1. \A s \in Runs : Shown(s)' = Shown(s)
      BY <1>1 DEF IndInv, RunTypes, Shown
    <2>2. \A s \in Runs : taken[s] <= taken'[s]
      BY <1>1 DEF IndInv, RunTypes
    <2>3. QED
      BY <1>1, <1>2, <2>1, <2>2, FixStays
  <1>6. ArmedOnTable'
    BY <1>1 DEF IndInv, ArmedOnTable
  <1>7. QED
    BY <1>2, <1>3, <1>4, <1>5, <1>6 DEF IndInv
-----------------------------------------------------------------------------
(* Keys that start nothing and do not touch the overlay.                   *)
LEMMA ScreenKeysKeep ==
  ASSUME IndInv,
         (\E t \in Tables : OpenTable(t)) \/ Leave \/ ArmVacuum \/ CancelVacuum \/ OpenDiagnostic
  PROVE  IndInv'
  <1>1. UNCHANGED <<phase, table, length, sent, taken, reader, fix>>
    BY DEF OpenTable, Leave, ArmVacuum, CancelVacuum, OpenDiagnostic, Channels
  <1>2. screen' \in Tables \cup {None, "diagnostic"} /\ ArmedOnTable'
    <2>1. ASSUME NEW t \in Tables, OpenTable(t)
          PROVE  screen' \in Tables \cup {None, "diagnostic"} /\ ArmedOnTable'
      BY <2>1 DEF OpenTable, ArmedOnTable
    <2>2. CASE Leave \/ OpenDiagnostic
      BY <2>2, NoneAssumption DEF Leave, OpenDiagnostic, IndInv, ArmedOnTable
    <2>3. CASE ArmVacuum \/ CancelVacuum
      BY <2>3 DEF ArmVacuum, CancelVacuum, IndInv, RunTypes, ArmedOnTable
    <2>4. QED
      BY <2>1, <2>2, <2>3
  <1>3. RunTypes'
    BY <1>1, <1>2 DEF IndInv, RunTypes
  <1>4. RunsInv' /\ OnlyReader'
    BY <1>1 DEF IndInv, RunsInv, OnlyReader
  <1>5. FixInv'
    BY <1>1 DEF IndInv, FixInv, Shown
  <1>6. QED
    BY <1>2, <1>3, <1>4, <1>5 DEF IndInv

(* y runs the vacuum of the table whose screen armed it.                   *)
LEMMA ConfirmVacuumKeeps ==
  ASSUME IndInv, NEW r \in Runs, ConfirmVacuum(r)
  PROVE  IndInv'
  <1>1. /\ UNCHANGED <<sent, taken, screen, fix>> /\ armed' = FALSE
        /\ phase[r] = "unused" /\ phase' = [phase EXCEPT ![r] = "running"]
        /\ table' = [table EXCEPT ![r] = screen]
        /\ \E n \in 0..MaxLines : length' = [length EXCEPT ![r] = n]
        /\ reader' = [reader EXCEPT ![r] = "started"]
    BY DEF ConfirmVacuum, startStream
  <1>2. screen \in Tables /\ screen # None
    BY NoneAssumption DEF ConfirmVacuum, IndInv, ArmedOnTable
  <1>3. RunTypes'
    BY <1>1, <1>2 DEF IndInv, RunTypes
  <1>4. RunsInv'
    BY <1>1, <1>2 DEF IndInv, RunTypes, RunsInv
  <1>5. OnlyReader'
    BY <1>1, <1>2 DEF IndInv, RunTypes, OnlyReader
  <1>6. FixInv'
    <2>1. fix.run # r
      BY <1>1, NoneAssumption DEF IndInv, FixInv
    <2>2. fix.run # None => fix.run \in Runs
      BY DEF IndInv, RunTypes, Fix
    <2>3. fix.run # None => /\ Shown(fix.run)' = Shown(fix.run) /\ table'[fix.run] = table[fix.run]
                           /\ phase'[fix.run] = phase[fix.run]
      BY <1>1, <2>1, <2>2 DEF IndInv, RunTypes, Shown
    <2>4. QED
      BY <1>1, <2>3 DEF IndInv, FixInv
  <1>7. QED
    BY <1>1, <1>3, <1>4, <1>5, <1>6 DEF IndInv, ArmedOnTable

(* Enter shows a script with no output; dismissing it keeps what it shows. *)
LEMMA OverlayKeysKeep ==
  ASSUME IndInv, handleDiagEnter \/ DismissFix
  PROVE  IndInv'
  <1>1. /\ UNCHANGED <<phase, table, length, sent, taken, reader, screen, armed>>
        /\ fix.state # "running" /\ fix'.state # "running" /\ fix' \in Fix
        /\ \/ fix'.run = None /\ fix'.buf = <<>>
           \/ fix'.run = fix.run /\ fix'.buf = fix.buf
    <2>1. CASE handleDiagEnter
      <3>1. <<>> \in Seq(Lines)
        OBVIOUS
      <3>2. [state |-> "pending", run |-> None, buf |-> <<>>] \in Fix
        BY <3>1 DEF Fix
      <3>3. QED
        BY <2>1, <3>2 DEF handleDiagEnter, Channels
    <2>2. CASE DismissFix
      <3>1. fix \in Fix /\ [fix EXCEPT !.state = "closed"] \in Fix
        BY DEF IndInv, RunTypes, Fix
      <3>2. /\ [fix EXCEPT !.state = "closed"].state = "closed"
            /\ [fix EXCEPT !.state = "closed"].run = fix.run
            /\ [fix EXCEPT !.state = "closed"].buf = fix.buf
        BY <3>1 DEF Fix
      <3>3. QED
        BY <2>2, <3>1, <3>2 DEF DismissFix, Channels
    <2>3. QED
      BY <2>1, <2>2
  <1>2. RunTypes'
    BY <1>1 DEF IndInv, RunTypes
  <1>3. RunsInv' /\ OnlyReader' /\ ArmedOnTable'
    BY <1>1 DEF IndInv, RunsInv, OnlyReader, ArmedOnTable
  <1>4. FixInv'
    BY <1>1, EmptyPrefix DEF IndInv, FixInv
  <1>5. QED
    BY <1>2, <1>3, <1>4 DEF IndInv

(* y runs the script: no other fix is being read, for the overlay is modal.*)
LEMMA ConfirmFixKeeps ==
  ASSUME IndInv, NEW r \in Runs, ConfirmFix(r)
  PROVE  IndInv'
  <1>1. /\ UNCHANGED <<sent, taken, screen, armed>>
        /\ phase[r] = "unused" /\ phase' = [phase EXCEPT ![r] = "running"]
        /\ table' = [table EXCEPT ![r] = None]
        /\ \E n \in 0..MaxLines : length' = [length EXCEPT ![r] = n]
        /\ reader' = [reader EXCEPT ![r] = "waiting"]
        /\ fix.state = "pending" /\ fix' = [state |-> "running", run |-> r, buf |-> <<>>]
    BY DEF ConfirmFix, startStream
  <1>2. RunTypes'
    BY <1>1 DEF IndInv, RunTypes, Fix
  <1>3. RunsInv'
    BY <1>1 DEF IndInv, RunTypes, RunsInv
  <1>4. OnlyReader'
    BY <1>1 DEF IndInv, RunTypes, OnlyReader
  <1>5. FixInv'
    <2>1. fix'.run = r /\ r # None /\ fix'.state = "running" /\ fix'.buf = <<>>
      BY <1>1, NoneAssumption
    <2>2. table'[r] = None /\ phase'[r] = "running" /\ reader'[r] = "waiting" /\ taken'[r] = 0
      BY <1>1 DEF IndInv, RunTypes, RunsInv
    <2>3. Shown(fix.run)' = 0
      BY <2>1, <2>2 DEF Shown
    <2>4. QED
      BY <2>1, <2>2, <2>3, EmptyPrefix DEF FixInv
  <1>6. QED
    BY <1>1, <1>2, <1>3, <1>4, <1>5 DEF IndInv, ArmedOnTable

-----------------------------------------------------------------------------
(* The messages of a vacuum.                                               *)
LEMMA VacuumHandlersKeep ==
  ASSUME IndInv, NEW r \in Runs, onVacuumStarted(r) \/ onVacuumLine(r) \/ onVacuumDone(r)
  PROVE  IndInv'
  <1>1. /\ UNCHANGED <<phase, table, length, sent, taken, screen, fix>>
        /\ table[r] # None /\ reader[r] # "none" /\ (armed' => armed)
        /\ \E m \in {"none", "waiting"} : reader' = [reader EXCEPT ![r] = m]
    BY DEF onVacuumStarted, onVacuumLine, onVacuumDone, Channels, IndInv, RunsInv
  <1>2. RunTypes'
    BY <1>1 DEF IndInv, RunTypes
  <1>3. RunsInv'
    BY <1>1 DEF IndInv, RunTypes, RunsInv
  <1>4. OnlyReader'
    BY <1>1 DEF IndInv, RunTypes, OnlyReader
  <1>5. FixInv'
    <2>1. \A s \in Runs : table[s] = None => Shown(s)' = Shown(s)
      BY <1>1 DEF IndInv, RunTypes, Shown
    <2>2. \A s \in Runs : taken[s] <= taken'[s]
      BY <1>1 DEF IndInv, RunTypes
    <2>3. QED
      BY <1>1, <1>2, <2>1, <2>2, FixStays
  <1>6. QED
    BY <1>1, <1>2, <1>3, <1>4, <1>5 DEF IndInv, ArmedOnTable

(* A line of a fix: it is the overlay's, and the next it has not shown.    *)
LEMMA FixLine ==
  ASSUME IndInv, NEW r \in Runs, onFixLine(r)
  PROVE  /\ fix.state = "running" /\ fix.run = r /\ taken[r] \in Nat \ {0}
         /\ fix.buf = Prefix(taken[r] - 1)
         /\ fix' = [fix EXCEPT !.buf = Prefix(taken[r])]
         /\ reader' = [reader EXCEPT ![r] = "waiting"]
         /\ UNCHANGED <<phase, table, length, sent, taken, screen, armed>>
  <1>1. /\ reader[r] = "line" /\ table[r] = None
        /\ UNCHANGED <<phase, table, length, sent, taken, screen, armed>>
    BY DEF onFixLine, Channels
  <1>2. fix.state = "running" /\ fix.run = r /\ taken[r] \in Nat \ {0}
    BY <1>1 DEF IndInv, RunTypes, RunsInv, OnlyReader
  <1>3. fix.buf = Prefix(taken[r] - 1)
    BY <1>1, <1>2, NoneAssumption DEF IndInv, FixInv, Shown
  <1>4. Append(fix.buf, taken[r]) = Prefix(taken[r])
    <2>1. taken[r] - 1 \in Nat /\ (taken[r] - 1) + 1 = taken[r]
      BY <1>2
    <2>2. Append(Prefix(taken[r] - 1), (taken[r] - 1) + 1) = Prefix((taken[r] - 1) + 1)
      BY <2>1, PrefixFacts
    <2>3. QED
      BY <1>3, <2>1, <2>2
  <1>5. /\ fix' = [fix EXCEPT !.buf = Append(fix.buf, taken[r])]
        /\ reader' = [reader EXCEPT ![r] = "waiting"]
    BY <1>2 DEF onFixLine
  <1>6. QED
    BY <1>1, <1>2, <1>3, <1>4, <1>5

(* ... so the overlay then shows everything taken.                         *)
LEMMA FixLineKeeps ==
  ASSUME IndInv, NEW r \in Runs, onFixLine(r)
  PROVE  IndInv'
  <1>1. /\ fix'.state = "running" /\ fix'.run = r /\ fix'.buf = Prefix(taken[r])
        /\ fix.state = "running" /\ fix.run = r /\ table[r] = None
        /\ reader' = [reader EXCEPT ![r] = "waiting"] /\ reader[r] = "line"
        /\ UNCHANGED <<phase, table, length, sent, taken, screen, armed>>
    <2>1. /\ fix.state = "running" /\ fix.run = r
          /\ fix' = [fix EXCEPT !.buf = Prefix(taken[r])]
          /\ reader' = [reader EXCEPT ![r] = "waiting"]
          /\ UNCHANGED <<phase, table, length, sent, taken, screen, armed>>
      BY FixLine
    <2>2. /\ fix'.state = fix.state /\ fix'.run = fix.run /\ fix'.buf = Prefix(taken[r])
      BY <2>1 DEF IndInv, RunTypes, Fix
    <2>3. QED
      BY <2>1, <2>2 DEF onFixLine
  <1>2. RunTypes'
    <2>1. Prefix(taken[r]) \in Seq(Lines)
      <3>1. taken[r] \in 0..MaxLines
        BY DEF IndInv, RunTypes
      <3>2. \A i \in 1..taken[r] : i \in Lines
        BY <3>1, CapacityAssumption DEF Lines
      <3>3. QED
        BY <3>1, <3>2, CapacityAssumption DEF Prefix
    <2>2. fix' \in Fix
      <3>1. fix' = [fix EXCEPT !.buf = Prefix(taken[r])] /\ fix \in Fix
        BY FixLine DEF IndInv, RunTypes
      <3>2. QED
        BY <2>1, <3>1 DEF Fix
    <2>3. QED
      BY <1>1, <2>2 DEF IndInv, RunTypes
  <1>3. RunsInv'
    BY <1>1 DEF IndInv, RunTypes, RunsInv
  <1>4. OnlyReader'
    BY <1>1 DEF IndInv, RunTypes, OnlyReader
  <1>5. FixInv'
    <2>1. Shown(fix.run)' = taken[r]
      BY <1>1 DEF IndInv, RunTypes, Shown
    <2>2. phase'[r] # "unused" /\ table'[r] = None /\ r # None
      BY <1>1, NoneAssumption DEF IndInv, FixInv
    <2>3. QED
      BY <1>1, <2>1, <2>2 DEF FixInv
  <1>6. QED
    BY <1>1, <1>2, <1>3, <1>4, <1>5 DEF IndInv, ArmedOnTable

(* The end of a fix closes its overlay over what was taken.                *)
LEMMA FixDoneKeeps ==
  ASSUME IndInv, NEW r \in Runs, onFixDone(r)
  PROVE  IndInv'
  <1>1. /\ reader[r] = "done" /\ table[r] = None
        /\ reader' = [reader EXCEPT ![r] = "none"]
        /\ UNCHANGED <<phase, table, length, sent, taken, screen, armed>>
    BY DEF onFixDone, Channels
  <1>2. fix.state = "running" /\ fix.run = r
    BY <1>1 DEF IndInv, OnlyReader
  <1>3. fix' \in Fix /\ fix'.state = "finished" /\ fix'.run = r /\ fix'.buf = fix.buf
    BY <1>2 DEF onFixDone, IndInv, RunTypes, Fix
  <1>4. RunTypes'
    BY <1>1, <1>3 DEF IndInv, RunTypes
  <1>5. RunsInv'
    BY <1>1 DEF IndInv, RunTypes, RunsInv
  <1>6. OnlyReader'
    BY <1>1, <1>2 DEF IndInv, RunTypes, OnlyReader
  <1>7. FixInv'
    <2>1. fix.buf = Prefix(taken[r]) /\ phase[r] # "unused" /\ r # None
      BY <1>1, <1>2, NoneAssumption DEF IndInv, FixInv, Shown
    <2>2. taken'[r] \in Nat /\ taken'[r] = taken[r]
      BY <1>1 DEF IndInv, RunTypes
    <2>3. QED
      BY <1>1, <1>3, <2>1, <2>2 DEF FixInv
  <1>8. QED
    BY <1>1, <1>4, <1>5, <1>6, <1>7 DEF IndInv, ArmedOnTable

-----------------------------------------------------------------------------
(* The invariant is inductive.                                             *)
LEMMA NextKeeps == IndInv /\ [Next]_vars => IndInv'
  <1> SUFFICES ASSUME IndInv, [Next]_vars PROVE IndInv'
    OBVIOUS
  <1>1. CASE UNCHANGED vars
    <2>1. RunTypes' /\ ArmedOnTable'
      BY <1>1 DEF vars, IndInv, RunTypes, ArmedOnTable
    <2>2. RunsInv' /\ OnlyReader'
      BY <1>1 DEF vars, IndInv, RunsInv, OnlyReader
    <2>3. FixInv'
      BY <1>1 DEF vars, IndInv, FixInv, Shown
    <2>4. QED
      BY <2>1, <2>2, <2>3 DEF IndInv
  <1>2. CASE UserKey
    BY <1>2, ScreenKeysKeep, OverlayKeysKeep, ConfirmVacuumKeeps, ConfirmFixKeeps DEF UserKey
  <1>3. ASSUME NEW r \in Runs, Goroutine(r) \/ Waiting(r) PROVE IndInv'
    BY <1>3, GoroutineKeeps, WaitingKeeps
  <1>4. ASSUME NEW r \in Runs, Handler(r) PROVE IndInv'
    BY <1>4, VacuumHandlersKeep, FixLineKeeps, FixDoneKeeps DEF Handler
  <1>5. QED
    BY <1>1, <1>2, <1>3, <1>4 DEF Next

(* The overlay shows the lines of its own script, in order from the first, *)
(* whatever other runs are being read and however fast each side is.       *)
THEOREM OverlayInOrder == Spec => []FixOutput
  <1>1. IndInv => FixOutput
    <2> SUFFICES ASSUME IndInv PROVE FixOutput
      OBVIOUS
    <2>1. CASE fix.run = None
      BY <2>1, PrefixFacts DEF IndInv, FixInv, FixOutput, Prefix
    <2>2. CASE fix.run # None
      <3>1. PICK n \in Nat : n <= taken[fix.run] /\ fix.buf = Prefix(n)
        <4>1. fix.run \in Runs /\ taken[fix.run] \in Nat
          BY <2>2 DEF IndInv, RunTypes, Fix
        <4>2. CASE fix.state = "running"
          <5>1. Shown(fix.run) \in Nat /\ Shown(fix.run) <= taken[fix.run]
            BY <4>1 DEF IndInv, RunsInv, Shown
          <5>2. QED
            BY <2>2, <4>2, <5>1 DEF IndInv, FixInv
        <4>3. CASE fix.state # "running"
          BY <2>2, <4>3 DEF IndInv, FixInv
        <4>4. QED
          BY <4>2, <4>3
      <3>2. Len(fix.buf) = n
        BY <3>1, PrefixFacts
      <3>3. QED
        BY <3>1, <3>2 DEF FixOutput, Prefix
    <2>3. QED
      BY <2>1, <2>2
  <1>2. QED
    BY InitHolds, NextKeeps, <1>1, PTL DEF Spec

-----------------------------------------------------------------------------
(* The overlay under the refinement mapping of FixPane.                    *)
Printed == IF fix.run = None THEN 0 ELSE sent[fix.run]
Open    == fix.state = "running"

(* The goroutine prints a line of the script on the overlay, or of a run   *)
(* the overlay does not know.                                              *)
LEMMA GoroutineMaps ==
  ASSUME IndInv, NEW r \in Runs, Goroutine(r)
  PROVE  FixPane!Next \/ UNCHANGED FixPane!vars
  <1>1. /\ fix' = fix
        /\ sent' = sent \/ sent' = [sent EXCEPT ![r] = @ + 1]
    BY DEF Goroutine, onLine, Return, Screens
  <1>2. fix.run # None => fix.run \in Runs
    BY DEF IndInv, RunTypes, Fix
  <1>3. CASE fix.run = r /\ fix.run # None /\ sent' = [sent EXCEPT ![r] = @ + 1]
    <2>1. Printed' = Printed + 1
      BY <1>1, <1>3 DEF Printed, IndInv, RunTypes
    <2>2. QED
      BY <1>1, <2>1 DEF FixPane!Next, FixPane!Emit, Printed
  <1>4. CASE ~(fix.run = r /\ fix.run # None /\ sent' = [sent EXCEPT ![r] = @ + 1])
    <2>1. Printed' = Printed
      BY <1>1, <1>2, <1>4 DEF Printed, IndInv, RunTypes
    <2>2. QED
      BY <1>1, <2>1 DEF FixPane!vars, Printed
  <1>5. QED
    BY <1>3, <1>4

(* Steps that leave the overlay and what was sent alone.                   *)
LEMMA QuietMaps ==
  ASSUME UNCHANGED <<sent, fix>>
  PROVE  UNCHANGED FixPane!vars
  BY DEF FixPane!vars

(* The keys of the overlay clear it, start a script, or only hide it.      *)
LEMMA OverlayKeysMap ==
  ASSUME IndInv, handleDiagEnter \/ DismissFix \/ \E r \in Runs : ConfirmFix(r)
  PROVE  FixPane!Next \/ UNCHANGED FixPane!vars
  <1>1. CASE handleDiagEnter
    <2>1. fix.state = "closed" /\ fix' = [state |-> "pending", run |-> None, buf |-> <<>>]
      BY <1>1 DEF handleDiagEnter
    <2>2. fix'.state = "pending" /\ fix'.run = None /\ fix'.buf = <<>>
      BY <2>1
    <2>3. QED
      BY <2>1, <2>2 DEF FixPane!Next, FixPane!Clear
  <1>2. CASE DismissFix
    <2>1. /\ fix.state \in {"pending", "finished"} /\ fix' = [fix EXCEPT !.state = "closed"]
          /\ fix \in Fix /\ sent' = sent
      BY <1>2 DEF DismissFix, Channels, IndInv, RunTypes
    <2>2. fix'.state = "closed" /\ fix'.run = fix.run /\ fix'.buf = fix.buf
      BY <2>1 DEF Fix
    <2>3. QED
      BY <2>1, <2>2 DEF FixPane!vars
  <1>3. ASSUME NEW r \in Runs, ConfirmFix(r) PROVE FixPane!Start
    <2>1. /\ fix.state = "pending" /\ fix' = [state |-> "running", run |-> r, buf |-> <<>>]
          /\ phase[r] = "unused" /\ sent' = sent
      BY <1>3 DEF ConfirmFix, startStream
    <2>2. fix'.state = "running" /\ fix'.run = r /\ fix'.buf = <<>> /\ sent'[r] = 0
      BY <2>1 DEF IndInv, RunsInv
    <2>3. QED
      BY <2>1, <2>2, NoneAssumption DEF FixPane!Start
  <1>4. QED
    BY <1>1, <1>2, <1>3 DEF FixPane!Next

(* A line of a script is the next one the overlay shows.                   *)
LEMMA FixLineMaps ==
  ASSUME IndInv, NEW r \in Runs, onFixLine(r)
  PROVE  FixPane!Show
  <1>1. /\ fix.state = "running" /\ fix.run = r /\ taken[r] \in Nat \ {0}
        /\ fix.buf = Prefix(taken[r] - 1)
        /\ fix' = [fix EXCEPT !.buf = Prefix(taken[r])] /\ sent' = sent
    BY FixLine
  <1>2. fix'.state = "running" /\ fix'.run = r /\ fix'.buf = Prefix(taken[r])
    BY <1>1 DEF IndInv, RunTypes, Fix
  <1>3. taken[r] - 1 \in Nat /\ (taken[r] - 1) + 1 = taken[r]
    BY <1>1
  <1>4. Len(fix.buf) = taken[r] - 1 /\ Append(fix.buf, Len(fix.buf) + 1) = Prefix(taken[r])
    <2>1. Len(Prefix(taken[r] - 1)) = taken[r] - 1
      BY <1>3, PrefixFacts
    <2>2. Append(Prefix(taken[r] - 1), (taken[r] - 1) + 1) = Prefix((taken[r] - 1) + 1)
      BY <1>3, PrefixFacts
    <2>3. QED
      BY <1>1, <1>3, <2>1, <2>2
  <1>5. taken[r] <= sent[r] /\ sent[r] \in Nat
    BY DEF IndInv, RunsInv, RunTypes
  <1>6. Len(fix.buf) < sent[r]
    BY <1>1, <1>4, <1>5
  <1>7. r # None
    BY NoneAssumption
  <1>8. QED
    BY <1>1, <1>2, <1>4, <1>6, <1>7 DEF FixPane!Show

(* The end of a script stops its overlay.                                  *)
LEMMA FixDoneMaps ==
  ASSUME IndInv, NEW r \in Runs, onFixDone(r)
  PROVE  FixPane!Stop
  <1>1. fix.state = "running" /\ sent' = sent /\ fix \in Fix
    BY DEF onFixDone, Channels, IndInv, RunTypes, OnlyReader
  <1>2. fix' = [fix EXCEPT !.state = "finished"]
    BY <1>1 DEF onFixDone
  <1>3. fix'.state = "finished" /\ fix'.run = fix.run /\ fix'.buf = fix.buf
    BY <1>1, <1>2 DEF Fix
  <1>4. QED
    BY <1>1, <1>3 DEF FixPane!Stop

LEMMA NextMaps == IndInv /\ [Next]_vars => [FixPane!Next]_(FixPane!vars)
  <1> SUFFICES ASSUME IndInv, [Next]_vars PROVE FixPane!Next \/ UNCHANGED FixPane!vars
    OBVIOUS
  <1>1. CASE UNCHANGED vars
    BY <1>1, QuietMaps DEF vars
  <1>2. CASE UserKey
    <2>1. CASE handleDiagEnter \/ DismissFix \/ \E r \in Runs : ConfirmFix(r)
      BY <2>1, OverlayKeysMap
    <2>2. CASE ~(handleDiagEnter \/ DismissFix \/ \E r \in Runs : ConfirmFix(r))
      <3>1. UNCHANGED <<sent, fix>>
        BY <1>2, <2>2 DEF UserKey, OpenTable, Leave, ArmVacuum, CancelVacuum, OpenDiagnostic,
                          ConfirmVacuum, startStream, Channels
      <3>2. QED
        BY <3>1, QuietMaps
    <2>3. QED
      BY <2>1, <2>2
  <1>3. ASSUME NEW r \in Runs, Goroutine(r) PROVE FixPane!Next \/ UNCHANGED FixPane!vars
    BY <1>3, GoroutineMaps
  <1>4. ASSUME NEW r \in Runs, Waiting(r) PROVE FixPane!Next \/ UNCHANGED FixPane!vars
    <2>1. UNCHANGED <<sent, fix>>
      BY <1>4 DEF Waiting, waitLine, waitDone, Screens
    <2>2. QED
      BY <2>1, QuietMaps
  <1>5. ASSUME NEW r \in Runs, Handler(r) PROVE FixPane!Next \/ UNCHANGED FixPane!vars
    <2>1. CASE onFixLine(r)
      BY <2>1, FixLineMaps DEF FixPane!Next
    <2>2. CASE onFixDone(r)
      BY <2>2, FixDoneMaps DEF FixPane!Next
    <2>3. CASE onVacuumStarted(r) \/ onVacuumLine(r) \/ onVacuumDone(r)
      <3>1. UNCHANGED <<sent, fix>>
        BY <2>3 DEF onVacuumStarted, onVacuumLine, onVacuumDone, Channels
      <3>2. QED
        BY <3>1, QuietMaps
    <2>4. QED
      BY <1>5, <2>1, <2>2, <2>3 DEF Handler
  <1>6. QED
    BY <1>1, <1>2, <1>3, <1>4, <1>5 DEF Next

(* Every behaviour of the streams is, through the overlay, a behaviour of  *)
(* an output pane: RunFix's notices reach the user as one ordered output.  *)
THEOREM OverlayIsPane == Spec => ImplementsPane
  <1>1. Init => FixPane!Init
    BY DEF Init, ClosedFix, FixPane!Init
  <1>2. QED
    BY InitHolds, NextKeeps, NextMaps, <1>1, PTL DEF Spec, ImplementsPane, FixPane!Spec

-----------------------------------------------------------------------------
(* The pane of VACUUM.  A run in it has started, and the last of its lines *)
(* is the last that was taken, less a line under way: PaneInOrder is not   *)
(* inductive without it.                                                   *)
InPane(r) == table[r] # None /\ phase[r] # "unused" /\ reader[r] # "started"
LastOf(i) == \A m \in (i + 1)..Len(pane.buf) : pane.buf[m].run # pane.buf[i].run
LastShown ==
  \A i \in 1..Len(pane.buf) :
    LET r == pane.buf[i].run
    IN  reader[r] \in {"waiting", "line"} /\ LastOf(i) => pane.buf[i].line = Shown(r)

(* What ends a running pane is already reading for it: a run that has only *)
(* started may be dropped.                                                 *)
PaneRead ==
  pane.running => \E r \in Runs : table[r] # None /\ reader[r] \in {"waiting", "line", "done"}

PaneInv ==
  /\ pane \in Pane /\ \A i \in 1..Len(pane.buf) : InPane(pane.buf[i].run)
  /\ LastShown /\ PaneRead /\ PaneInOrder

LEMMA PaneTypes ==
  ASSUME pane \in Pane
  PROVE  /\ pane.buf \in Seq(Line) /\ Len(pane.buf) \in Nat /\ DOMAIN pane.buf = 1..Len(pane.buf)
         /\ pane.running \in BOOLEAN
         /\ \A i \in 1..Len(pane.buf) :
              pane.buf[i] \in Line /\ pane.buf[i].run \in Runs /\ pane.buf[i].line \in Nat
  <1>1. pane.buf \in Seq(Line) /\ pane.running \in BOOLEAN
    BY DEF Pane
  <1>2. \A i \in 1..Len(pane.buf) : pane.buf[i] \in Line
    BY <1>1
  <1>3. \A l \in Line : l.run \in Runs /\ l.line \in Nat
    BY CapacityAssumption DEF Line, Lines
  <1>4. QED
    BY <1>1, <1>2, <1>3

(* A step that shows no line and sets no run that has been seen back.      *)
LEMMA PaneStays ==
  ASSUME PaneInv, pane' \in Pane, pane'.buf = pane.buf, PaneRead',
         \A r \in Runs : InPane(r) =>
           /\ InPane(r)'
           /\ reader'[r] \in {"waiting", "line"} =>
                reader[r] \in {"waiting", "line"} /\ Shown(r)' = Shown(r)
  PROVE  PaneInv'
  <1>1. /\ Len(pane.buf) \in Nat /\ DOMAIN pane.buf = 1..Len(pane.buf)
        /\ \A i \in 1..Len(pane.buf) : pane.buf[i].run \in Runs
    BY PaneTypes DEF PaneInv
  <1>2. \A i \in 1..Len(pane'.buf) : InPane(pane.buf[i].run)'
    <2> SUFFICES ASSUME NEW i \in 1..Len(pane'.buf) PROVE InPane(pane.buf[i].run)'
      OBVIOUS
    <2>1. pane'.buf[i].run \in Runs /\ InPane(pane'.buf[i].run)
      BY <1>1 DEF PaneInv
    <2>2. QED
      BY <2>1 DEF InPane
  <1>3. LastShown'
    <2> SUFFICES ASSUME NEW i \in 1..Len(pane.buf),
                        reader'[pane.buf[i].run] \in {"waiting", "line"}, LastOf(i)
                 PROVE  pane.buf[i].line = Shown(pane.buf[i].run)'
      BY DEF LastShown, LastOf, Shown
    <2> DEFINE r == pane.buf[i].run
    <2>1. r \in Runs /\ InPane(r)
      BY <1>1 DEF PaneInv
    <2>2. reader[r] \in {"waiting", "line"} /\ Shown(r)' = Shown(r)
      BY <2>1
    <2>3. pane.buf[i].line = Shown(r)
      BY <2>2 DEF PaneInv, LastShown
    <2>4. QED
      BY <2>2, <2>3 DEF Shown
  <1>4. PaneInOrder'
    BY DEF PaneInv, PaneInOrder, FollowsOn
  <1>5. QED
    BY <1>2, <1>3, <1>4 DEF PaneInv

(* An empty pane.                                                          *)
LEMMA PaneCleared ==
  ASSUME pane' \in Pane, pane'.buf = <<>>, PaneRead'
  PROVE  PaneInv'
  BY DEF PaneInv, LastShown, PaneInOrder, FollowsOn, InPane

(* A line taken is the next of its run.                                    *)
LEMMA PaneLineKeeps ==
  ASSUME IndInv, PaneInv, NEW r \in Runs, onVacuumLine(r)
  PROVE  PaneInv'
  <1>1. /\ reader[r] = "line" /\ table[r] # None /\ UNCHANGED <<phase, table, taken>>
        /\ taken[r] \in Lines /\ taken[r] \in Nat
        /\ reader \in [Runs -> {"none", "started", "waiting", "line", "done"}]
    BY DEF onVacuumLine, Channels, IndInv, RunTypes, RunsInv, Lines
  <1>2. /\ Len(pane.buf) \in Nat /\ DOMAIN pane.buf = 1..Len(pane.buf) /\ pane.buf \in Seq(Line)
        /\ \A i \in 1..Len(pane.buf) :
             pane.buf[i] \in Line /\ pane.buf[i].run \in Runs /\ pane.buf[i].line \in Nat
        /\ pane \in Pane /\ pane.running \in BOOLEAN
    BY PaneTypes DEF PaneInv
  <1>3. CASE ~pane.running
    <2>1. reader' = [reader EXCEPT ![r] = "none"] /\ pane' = pane
      BY <1>3 DEF onVacuumLine
    <2>2. PaneRead'
      BY <1>3, <2>1 DEF PaneRead
    <2>3. \A s \in Runs : InPane(s) =>
            /\ InPane(s)'
            /\ reader'[s] \in {"waiting", "line"} =>
                 reader[s] \in {"waiting", "line"} /\ Shown(s)' = Shown(s)
      BY <1>1, <2>1 DEF InPane, Shown
    <2>4. QED
      BY <1>2, <2>1, <2>2, <2>3, PaneStays
  <1>4. CASE pane.running
    <2> DEFINE n == Len(pane.buf)
               e == [run |-> r, line |-> taken[r]]
    <2>1. /\ pane' = [pane EXCEPT !.buf = Append(@, e)]
          /\ reader' = [reader EXCEPT ![r] = "waiting"]
      BY <1>4 DEF onVacuumLine
    <2>2. e \in Line /\ e.run = r /\ e.line = taken[r]
      BY <1>1 DEF Line
    <2> HIDE DEF e
    <2>3. /\ Append(pane.buf, e) \in Seq(Line) /\ Len(Append(pane.buf, e)) = n + 1
          /\ Append(pane.buf, e)[n + 1] = e
          /\ \A i \in 1..n : Append(pane.buf, e)[i] = pane.buf[i]
      BY <1>2, <2>2
    <2>4. pane' \in Pane /\ pane'.buf = Append(pane.buf, e) /\ pane'.running
      BY <1>2, <1>4, <2>1, <2>3 DEF Pane
    <2>5. /\ Len(pane'.buf) = n + 1 /\ DOMAIN pane'.buf = 1..(n + 1) /\ pane'.buf[n + 1] = e
          /\ \A i \in 1..n : pane'.buf[i] = pane.buf[i]
      BY <1>2, <2>3, <2>4
    <2>6. \A s \in Runs : s # r => reader'[s] = reader[s] /\ Shown(s)' = Shown(s)
      BY <1>1, <2>1 DEF Shown
    <2>7. reader'[r] = "waiting" /\ Shown(r)' = taken[r] /\ Shown(r) = taken[r] - 1
      BY <1>1, <2>1 DEF Shown
    <2> HIDE DEF n
    <2>8. \A i \in 1..(n + 1) : i = n + 1 \/ i \in 1..n
      BY <1>2 DEF n
    <2>9. InPane(r)' /\ \A s \in Runs : InPane(s) => InPane(s)'
      BY <1>1, <2>1, <2>6 DEF InPane, IndInv, RunsInv
    <2>10. \A i \in 1..Len(pane'.buf) : InPane(pane.buf[i].run)'
      <3> SUFFICES ASSUME NEW i \in 1..(n + 1) PROVE InPane(pane.buf[i].run)'
        BY <2>5
      <3>1. CASE i = n + 1
        <4>1. pane'.buf[i].run = r
          BY <2>2, <2>5, <3>1
        <4>2. QED
          BY <2>9, <4>1 DEF InPane
      <3>2. CASE i \in 1..n
        <4>1. pane'.buf[i].run = pane.buf[i].run /\ pane.buf[i].run \in Runs
              /\ InPane(pane.buf[i].run)
          BY <1>2, <2>5, <3>2 DEF PaneInv, n
        <4>2. QED
          BY <2>9, <4>1 DEF InPane
      <3>3. QED
        BY <2>8, <3>1, <3>2
    <2>11. LastShown'
      <3> SUFFICES ASSUME NEW i \in 1..(n + 1),
                          reader'[pane'.buf[i].run] \in {"waiting", "line"}, LastOf(i)'
                   PROVE  pane'.buf[i].line = Shown(pane.buf[i].run)'
        BY <2>5 DEF LastShown, Shown
      <3>1. CASE i = n + 1
        <4>1. pane'.buf[i].run = r /\ pane'.buf[i].line = taken[r]
          BY <2>2, <2>5, <3>1
        <4>2. QED
          BY <2>7, <4>1 DEF Shown
      <3>2. CASE i \in 1..n
        <4> DEFINE s == pane.buf[i].run
        <4>1. pane'.buf[i] = pane.buf[i] /\ s \in Runs
          BY <1>2, <2>5, <3>2 DEF n
        <4>2. \A m \in (i + 1)..(n + 1) : pane'.buf[m].run # s
          BY <2>5, <4>1 DEF LastOf
        <4>3. s # r
          <5>1. n + 1 \in (i + 1)..(n + 1)
            BY <1>2, <3>2 DEF n
          <5>2. QED
            BY <2>2, <2>5, <4>2, <5>1
        <4>4. LastOf(i)
          <5> SUFFICES ASSUME NEW m \in (i + 1)..n PROVE pane.buf[m].run # s
            BY DEF LastOf, n
          <5>1. m \in (i + 1)..(n + 1) /\ m \in 1..n
            BY <1>2, <3>2 DEF n
          <5>2. QED
            BY <2>5, <4>2, <5>1
        <4>5. pane.buf[i].line = Shown(s)
          <5>1. reader[s] \in {"waiting", "line"}
            BY <2>6, <4>1, <4>3
          <5>2. QED
            BY <3>2, <4>4, <5>1 DEF PaneInv, LastShown, n
        <4>6. Shown(s)' = Shown(s)
          BY <2>6, <4>1, <4>3
        <4>7. QED
          BY <4>1, <4>5, <4>6 DEF Shown
      <3>3. QED
        BY <2>8, <3>1, <3>2
    <2>12. PaneInOrder'
      <3> SUFFICES ASSUME NEW i \in 1..(n + 1), NEW j \in 1..(n + 1), FollowsOn(i, j)'
                   PROVE  pane'.buf[j].line = pane'.buf[i].line + 1
        BY <2>5 DEF PaneInOrder
      <3>1. /\ i < j /\ pane'.buf[i].run = pane'.buf[j].run
            /\ \A m \in (i + 1)..(j - 1) : pane'.buf[m].run # pane'.buf[i].run
        BY DEF FollowsOn
      <3>2. i \in 1..n /\ pane'.buf[i] = pane.buf[i]
        BY <1>2, <2>5, <3>1 DEF n
      <3>3. \A m \in (i + 1)..(j - 1) : pane.buf[m].run # pane.buf[i].run
        <4> SUFFICES ASSUME NEW m \in (i + 1)..(j - 1) PROVE pane.buf[m].run # pane.buf[i].run
          OBVIOUS
        <4>1. m \in 1..n
          BY <1>2, <3>2 DEF n
        <4>2. QED
          BY <2>5, <3>1, <3>2, <4>1
      <3>4. CASE j = n + 1
        <4>1. pane'.buf[j] = e /\ pane.buf[i].run = r
          BY <2>2, <2>5, <3>1, <3>2, <3>4
        <4>2. LastOf(i)
          <5>1. (i + 1)..Len(pane.buf) = (i + 1)..(j - 1)
            BY <1>2, <3>4 DEF n
          <5>2. QED
            BY <3>3, <5>1 DEF LastOf
        <4>3. pane.buf[i].line = Shown(r)
          BY <1>1, <3>2, <4>1, <4>2 DEF PaneInv, LastShown, n
        <4>4. QED
          BY <1>1, <2>2, <2>7, <3>2, <4>1, <4>3
      <3>5. CASE j \in 1..n
        <4>1. pane'.buf[j] = pane.buf[j]
          BY <2>5, <3>5
        <4>2. FollowsOn(i, j)
          BY <3>1, <3>2, <3>3, <4>1 DEF FollowsOn
        <4>3. i \in DOMAIN pane.buf /\ j \in DOMAIN pane.buf
          BY <1>2, <3>2, <3>5 DEF n
        <4>4. QED
          BY <3>2, <4>1, <4>2, <4>3 DEF PaneInv, PaneInOrder
      <3>6. QED
        BY <2>8, <3>4, <3>5
    <2>13. PaneRead'
      BY <1>1, <2>7 DEF PaneRead
    <2>14. QED
      BY <2>4, <2>10, <2>11, <2>12, <2>13 DEF PaneInv
  <1>5. QED
    BY <1>3, <1>4

(* The goroutine and the wait command show nothing.                        *)
LEMMA PaneWaits ==
  ASSUME IndInv, PaneInv, NEW r \in Runs, Goroutine(r) \/ Waiting(r)
  PROVE  PaneInv'
  <1>1. UNCHANGED <<table, pane>>
    BY DEF Goroutine, Waiting, onLine, Return, waitLine, waitDone, Screens
  <1>2. CASE Goroutine(r)
    <2>1. UNCHANGED <<taken, reader>>
          /\ (phase' = phase \/ phase' = [phase EXCEPT ![r] = "returned"])
      BY <1>2 DEF Goroutine, onLine, Return
    <2>2. \A s \in Runs : phase[s] # "unused" => phase'[s] # "unused"
      BY <2>1 DEF IndInv, RunTypes
    <2>3. \A s \in Runs : InPane(s) =>
            /\ InPane(s)'
            /\ reader'[s] \in {"waiting", "line"} =>
                 reader[s] \in {"waiting", "line"} /\ Shown(s)' = Shown(s)
      BY <1>1, <2>1, <2>2 DEF InPane, Shown
    <2>4. PaneRead'
      BY <1>1, <2>1 DEF PaneInv, PaneRead
    <2>5. QED
      BY <1>1, <2>3, <2>4, PaneStays DEF PaneInv
  <1>3. CASE Waiting(r)
    <2>1. /\ phase' = phase /\ reader[r] = "waiting"
          /\ \/ taken' = [taken EXCEPT ![r] = @ + 1] /\ reader' = [reader EXCEPT ![r] = "line"]
             \/ taken' = taken /\ reader' = [reader EXCEPT ![r] = "done"]
      BY <1>3 DEF Waiting, waitLine, waitDone
    <2>2. \A s \in Runs : InPane(s) =>
            /\ InPane(s)'
            /\ reader'[s] \in {"waiting", "line"} =>
                 reader[s] \in {"waiting", "line"} /\ Shown(s)' = Shown(s)
      BY <1>1, <2>1 DEF InPane, Shown, IndInv, RunTypes
    <2>3. PaneRead'
      BY <1>1, <2>1 DEF PaneInv, PaneRead, IndInv, RunTypes
    <2>4. QED
      BY <1>1, <2>2, <2>3, PaneStays DEF PaneInv
  <1>4. QED
    BY <1>2, <1>3

(* A run that starts has shown nothing yet.                                *)
LEMMA PaneConfirms ==
  ASSUME IndInv, PaneInv, NEW r \in Runs, ConfirmVacuum(r) \/ ConfirmFix(r)
  PROVE  PaneInv'
  <1>1. PICK t, report :
          /\ phase[r] = "unused" /\ phase' = [phase EXCEPT ![r] = "running"]
          /\ table' = [table EXCEPT ![r] = t] /\ reader' = [reader EXCEPT ![r] = report]
          /\ UNCHANGED <<taken, pane>>
    BY DEF ConfirmVacuum, ConfirmFix, startStream
  <1>2. ~InPane(r) /\ reader[r] = "none"
    BY <1>1 DEF InPane, IndInv, RunsInv
  <1>3. \A s \in Runs : s # r => /\ phase'[s] = phase[s] /\ table'[s] = table[s]
                                 /\ reader'[s] = reader[s] /\ taken'[s] = taken[s]
    BY <1>1 DEF IndInv, RunTypes
  <1>4. \A s \in Runs : InPane(s) =>
          /\ InPane(s)'
          /\ reader'[s] \in {"waiting", "line"} =>
               reader[s] \in {"waiting", "line"} /\ Shown(s)' = Shown(s)
    BY <1>2, <1>3 DEF InPane, Shown
  <1>5. PaneRead'
    BY <1>1, <1>2, <1>3 DEF PaneInv, PaneRead
  <1>6. QED
    BY <1>1, <1>4, <1>5, PaneStays DEF PaneInv

(* The keys that start nothing: a finished pane may be cleared.            *)
LEMMA PaneKeys ==
  ASSUME IndInv, PaneInv,
         \/ (\E t \in Tables : OpenTable(t)) \/ Leave \/ ArmVacuum \/ CancelVacuum
         \/ OpenDiagnostic \/ handleDiagEnter \/ DismissFix \/ UNCHANGED vars
  PROVE  PaneInv'
  <1>1. /\ UNCHANGED <<phase, table, taken, reader>>
        /\ pane' = pane \/ (~pane.running /\ pane' = ClosedPane)
    BY DEF OpenTable, Leave, ArmVacuum, CancelVacuum, OpenDiagnostic, handleDiagEnter, DismissFix,
           Channels, vars
  <1>2. CASE pane' = pane
    <2>1. PaneRead'
      BY <1>1, <1>2 DEF PaneInv, PaneRead
    <2>2. \A s \in Runs : InPane(s) =>
            /\ InPane(s)'
            /\ reader'[s] \in {"waiting", "line"} =>
                 reader[s] \in {"waiting", "line"} /\ Shown(s)' = Shown(s)
      BY <1>1 DEF InPane, Shown
    <2>3. QED
      BY <1>2, <2>1, <2>2, PaneStays DEF PaneInv
  <1>3. CASE pane' = ClosedPane
    <2>1. pane' \in Pane /\ pane'.buf = <<>> /\ ~pane'.running
      BY <1>3 DEF ClosedPane, Pane
    <2>2. QED
      BY <2>1, PaneCleared DEF PaneRead
  <1>4. QED
    BY <1>1, <1>2, <1>3

(* The start of a vacuum clears the pane, its end stops it, and a fix has  *)
(* an overlay of its own.                                                  *)
LEMMA PaneHandlers ==
  ASSUME IndInv, PaneInv, NEW r \in Runs,
         onVacuumStarted(r) \/ onVacuumDone(r) \/ onFixLine(r) \/ onFixDone(r)
  PROVE  PaneInv'
  <1>1. UNCHANGED <<phase, table, length, sent, taken>> /\ table \in [Runs -> Tables \cup {None}]
        /\ reader \in [Runs -> {"none", "started", "waiting", "line", "done"}]
    BY DEF onVacuumStarted, onVacuumDone, onFixLine, onFixDone, Channels, IndInv, RunTypes
  <1>2. pane \in Pane
    BY DEF PaneInv
  <1>3. CASE onVacuumStarted(r) /\ screen \in Tables
    <2>1. /\ pane' = [table |-> table[r], running |-> TRUE, buf |-> <<>>]
          /\ reader[r] = "started" /\ reader' = [reader EXCEPT ![r] = "waiting"]
      BY <1>3 DEF onVacuumStarted
    <2>2. pane' \in Pane /\ pane'.buf = <<>>
      <3>1. table[r] \in Tables \cup {None} /\ <<>> \in Seq(Line)
        BY <1>1
      <3>2. QED
        BY <2>1, <3>1 DEF Pane
    <2>3. PaneRead'
      BY <1>1, <2>1 DEF PaneRead, IndInv, RunsInv
    <2>4. QED
      BY <2>2, <2>3, PaneCleared
  <1>4. CASE onVacuumStarted(r) /\ screen \notin Tables
    <2>1. pane' = pane /\ reader[r] = "started" /\ reader' = [reader EXCEPT ![r] = "none"]
      BY <1>4 DEF onVacuumStarted
    <2>2. PaneRead'
      BY <1>1, <2>1 DEF PaneInv, PaneRead
    <2>3. \A s \in Runs : InPane(s) =>
            /\ InPane(s)'
            /\ reader'[s] \in {"waiting", "line"} =>
                 reader[s] \in {"waiting", "line"} /\ Shown(s)' = Shown(s)
      BY <1>1, <2>1 DEF InPane, Shown
    <2>4. QED
      BY <1>2, <2>1, <2>2, <2>3, PaneStays
  <1>5. CASE onVacuumDone(r)
    <2>1. /\ reader[r] = "done" /\ reader' = [reader EXCEPT ![r] = "none"]
          /\ pane' = [pane EXCEPT !.running = FALSE]
      BY <1>5 DEF onVacuumDone
    <2>2. pane' \in Pane /\ pane'.buf = pane.buf /\ ~pane'.running
      BY <1>2, <2>1 DEF Pane
    <2>3. \A s \in Runs : InPane(s) =>
            /\ InPane(s)'
            /\ reader'[s] \in {"waiting", "line"} =>
                 reader[s] \in {"waiting", "line"} /\ Shown(s)' = Shown(s)
      BY <1>1, <2>1 DEF InPane, Shown
    <2>4. QED
      BY <2>2, <2>3, PaneStays DEF PaneRead
  <1>6. CASE onFixLine(r) \/ onFixDone(r)
    <2>1. /\ table[r] = None /\ pane' = pane
          /\ \E x : reader' = [reader EXCEPT ![r] = x]
      BY <1>6 DEF onFixLine, onFixDone
    <2>2. \A s \in Runs : s # r => reader'[s] = reader[s] /\ Shown(s)' = Shown(s)
      BY <1>1, <2>1 DEF Shown
    <2>3. PaneRead'
      BY <1>1, <2>1, <2>2 DEF PaneInv, PaneRead
    <2>4. \A s \in Runs : InPane(s) =>
            /\ InPane(s)'
            /\ reader'[s] \in {"waiting", "line"} =>
                 reader[s] \in {"waiting", "line"} /\ Shown(s)' = Shown(s)
      BY <1>1, <2>1, <2>2 DEF InPane
    <2>5. QED
      BY <1>2, <2>1, <2>3, <2>4, PaneStays
  <1>7. QED
    BY <1>3, <1>4, <1>5, <1>6

LEMMA PaneKeeps == IndInv /\ PaneInv /\ [Next]_vars => PaneInv'
  <1> SUFFICES ASSUME IndInv, PaneInv, [Next]_vars PROVE PaneInv'
    OBVIOUS
  <1>1. CASE UNCHANGED vars
    BY <1>1, PaneKeys
  <1>2. CASE UserKey
    BY <1>2, PaneKeys, PaneConfirms DEF UserKey
  <1>3. ASSUME NEW r \in Runs, Goroutine(r) \/ Waiting(r) PROVE PaneInv'
    BY <1>3, PaneWaits
  <1>4. ASSUME NEW r \in Runs, Handler(r) PROVE PaneInv'
    BY <1>4, PaneLineKeeps, PaneHandlers DEF Handler
  <1>5. QED
    BY <1>1, <1>2, <1>3, <1>4 DEF Next

(* However many vacuums share the pane, and whichever was dropped when its *)
(* screen was left, a run's lines are in the pane in order and without a   *)
(* gap, and a pane that says a vacuum runs is being read for one.          *)
THEOREM PaneIsFollowed == Spec => []PaneFollows
  <1>1. Init => PaneInv
    <2> SUFFICES ASSUME Init PROVE PaneInv
      OBVIOUS
    <2>1. pane = ClosedPane /\ pane \in Pane /\ pane.buf = <<>> /\ ~pane.running
      BY DEF Init, ClosedPane, Pane
    <2>2. QED
      BY <2>1 DEF PaneInv, LastShown, PaneRead, PaneInOrder, FollowsOn
  <1>2. PaneInv => PaneFollows
    BY DEF PaneInv, PaneFollows, PaneAlive, PaneRead
  <1>3. QED
    BY InitHolds, NextKeeps, PaneKeeps, <1>1, <1>2, PTL DEF Spec
=============================================================================
