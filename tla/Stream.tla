-------------------------------- MODULE Stream --------------------------------
(***************************************************************************)
(* Long-running commands whose notices are streamed to the screen: VACUUM  *)
(* on a table's parts screen and the suggested fix of a diagnostic row.    *)
(*                                                                         *)
(* startStream runs the command in a goroutine of its own, which sends its *)
(* lines on a bounded channel and its result on another.  waitStreamCmd    *)
(* takes one line or the result, and the handler of the line issues the    *)
(* next wait.  Lines are numbered in the order the server sent them.       *)
(***************************************************************************)
EXTENDS Integers, Sequences

CONSTANTS
  Runs,      \* bound: the runs a session starts
  Tables,    \* tables whose parts screen may be opened
  MaxLines,  \* bound: lines a run prints
  Capacity,  \* lineCh buffers this many lines (64)
  None       \* no table, no run

ASSUME CapacityAssumption == Capacity \in Nat \ {0} /\ MaxLines \in Nat
ASSUME NoneAssumption == None \notin Runs /\ None \notin Tables

VARIABLES
  phase,   \* the goroutine of a run: "unused", "running", "returned"
  table,   \* what a run vacuums; None for a fix
  length,  \* the lines it prints in all
  sent,    \* lines sent on lineCh ...
  taken,   \* ... and taken from it
  reader,  \* the run's only command or message: "none", "started", "waiting", "line", "done"
  screen,  \* the table of the nearest parts screen, "diagnostic", or None
  armed,   \* pendingVacuum of that parts screen
  pane,    \* Model.vacuum
  fix      \* screen.diagFix and whether its overlay is shown

vars == <<phase, table, length, sent, taken, reader, screen, armed, pane, fix>>

Lines == 1..MaxLines
Line  == [run : Runs, line : Lines]
Pane  == [table : Tables \cup {None}, running : BOOLEAN, buf : Seq(Line)]
Fix   == [state : {"closed", "pending", "running", "finished"}, run : Runs \cup {None},
          buf : Seq(Lines)]

ClosedPane == [table |-> None, running |-> FALSE, buf |-> <<>>]
ClosedFix  == [state |-> "closed", run |-> None, buf |-> <<>>]

Init ==
  /\ phase = [r \in Runs |-> "unused"] /\ table = [r \in Runs |-> None]
  /\ length = [r \in Runs |-> 0] /\ sent = [r \in Runs |-> 0] /\ taken = [r \in Runs |-> 0]
  /\ reader = [r \in Runs |-> "none"]
  /\ screen = None /\ armed = FALSE /\ pane = ClosedPane /\ fix = ClosedFix

Screens == <<screen, armed, pane, fix>>

-----------------------------------------------------------------------------
(* The goroutine and the wait command.                                     *)

(* startStream: the run is under way before the command that reports it.   *)
startStream(r, t, report) ==
  /\ phase[r] = "unused"
  /\ phase' = [phase EXCEPT ![r] = "running"]
  /\ table' = [table EXCEPT ![r] = t]
  /\ \E n \in 0..MaxLines : length' = [length EXCEPT ![r] = n]
  /\ reader' = [reader EXCEPT ![r] = report]
  /\ UNCHANGED <<sent, taken>>

Blocked(r) == phase[r] = "running" /\ sent[r] < length[r] /\ sent[r] - taken[r] = Capacity

onLine(r) ==
  /\ phase[r] = "running" /\ sent[r] < length[r] /\ ~Blocked(r)
  /\ sent' = [sent EXCEPT ![r] = @ + 1]
  /\ UNCHANGED <<phase, table, length, taken, reader, Screens>>

(* The result goes on doneCh, which holds it, and the channels are closed. *)
Return(r) ==
  /\ phase[r] = "running" /\ sent[r] = length[r]
  /\ phase' = [phase EXCEPT ![r] = "returned"]
  /\ UNCHANGED <<table, length, sent, taken, reader, Screens>>

(* Mutant: the end of lineCh is taken for one more line.                   *)
WaitIgnoresClose(r) ==
  /\ reader[r] = "waiting" /\ (taken[r] < sent[r] \/ phase[r] = "returned")
  /\ taken' = [taken EXCEPT ![r] = @ + 1]
  /\ reader' = [reader EXCEPT ![r] = "line"]
  /\ UNCHANGED <<phase, table, length, sent, Screens>>

(* waitStreamCmd: a select with both channels ready may take either.       *)
waitLine(r) ==
  /\ reader[r] = "waiting" /\ taken[r] < sent[r]
  /\ taken' = [taken EXCEPT ![r] = @ + 1]
  /\ reader' = [reader EXCEPT ![r] = "line"]
  /\ UNCHANGED <<phase, table, length, sent, Screens>>

waitDone(r) ==
  /\ reader[r] = "waiting" /\ phase[r] = "returned"
  /\ reader' = [reader EXCEPT ![r] = "done"]
  /\ UNCHANGED <<phase, table, length, sent, taken, Screens>>

Channels == <<phase, table, length, sent, taken>>

-----------------------------------------------------------------------------
(* VACUUM.                                                                 *)

(* drillTable: a finished run's output goes, a running one's stays.        *)
OpenTable(t) ==
  /\ screen = None /\ screen' = t
  /\ pane' = IF pane.running THEN pane ELSE ClosedPane
  /\ UNCHANGED <<Channels, reader, armed, fix>>

(* The armed confirmation takes every key, Back too.                       *)
Leave ==
  /\ ~armed /\ fix.state = "closed" /\ screen # None /\ screen' = None
  /\ UNCHANGED <<Channels, reader, armed, pane, fix>>

ArmVacuum ==
  /\ screen \in Tables /\ ~armed /\ ~pane.running /\ armed' = TRUE
  /\ UNCHANGED <<Channels, reader, screen, pane, fix>>

ConfirmVacuum(r) ==
  /\ armed /\ armed' = FALSE /\ startStream(r, screen, "started")
  /\ UNCHANGED <<screen, pane, fix>>

CancelVacuum ==
  /\ armed /\ armed' = FALSE
  /\ UNCHANGED <<Channels, reader, screen, pane, fix>>

onVacuumStarted(r) ==
  /\ reader[r] = "started"
  /\ IF screen \in Tables
     THEN /\ armed' = FALSE
          /\ pane' = [table |-> table[r], running |-> TRUE, buf |-> <<>>]
          /\ reader' = [reader EXCEPT ![r] = "waiting"]
     ELSE reader' = [reader EXCEPT ![r] = "none"] /\ UNCHANGED <<armed, pane>>
  /\ UNCHANGED <<Channels, screen, fix>>

(* Mutant: the pane shows the newest line sent, not the one it was given.  *)
PaneShowsNewest(r) ==
  /\ reader[r] = "line" /\ table[r] # None
  /\ IF pane.running
     THEN /\ pane' = [pane EXCEPT !.buf = Append(@, [run |-> r, line |-> sent[r]])]
          /\ reader' = [reader EXCEPT ![r] = "waiting"]
     ELSE reader' = [reader EXCEPT ![r] = "none"] /\ UNCHANGED pane
  /\ UNCHANGED <<Channels, screen, armed, fix>>

(* Mutant: a line is shown and the next one not waited for.                *)
LineEndsWait(r) ==
  /\ reader[r] = "line" /\ table[r] # None
  /\ pane' = IF pane.running THEN [pane EXCEPT !.buf = Append(@, [run |-> r, line |-> taken[r]])]
             ELSE pane
  /\ reader' = [reader EXCEPT ![r] = "none"]
  /\ UNCHANGED <<Channels, screen, armed, fix>>

onVacuumLine(r) ==
  /\ reader[r] = "line" /\ table[r] # None
  /\ IF pane.running
     THEN /\ pane' = [pane EXCEPT !.buf = Append(@, [run |-> r, line |-> taken[r]])]
          /\ reader' = [reader EXCEPT ![r] = "waiting"]
     ELSE reader' = [reader EXCEPT ![r] = "none"] /\ UNCHANGED pane
  /\ UNCHANGED <<Channels, screen, armed, fix>>

onVacuumDone(r) ==
  /\ reader[r] = "done" /\ table[r] # None
  /\ reader' = [reader EXCEPT ![r] = "none"]
  /\ pane' = [pane EXCEPT !.running = FALSE]
  /\ UNCHANGED <<Channels, screen, armed, fix>>

-----------------------------------------------------------------------------
(* Suggested fixes.                                                        *)

OpenDiagnostic ==
  /\ screen = None /\ screen' = "diagnostic"
  /\ UNCHANGED <<Channels, reader, armed, pane, fix>>

(* Every Enter shows a fresh script, armed.                                *)
handleDiagEnter ==
  /\ screen = "diagnostic" /\ fix.state = "closed"
  /\ fix' = [state |-> "pending", run |-> None, buf |-> <<>>]
  /\ UNCHANGED <<Channels, reader, screen, armed, pane>>

ConfirmFix(r) ==
  /\ fix.state = "pending"
  /\ fix' = [state |-> "running", run |-> r, buf |-> <<>>]
  /\ startStream(r, None, "waiting")
  /\ UNCHANGED <<screen, armed, pane>>

(* Mutant: the overlay can be dismissed over a running script.             *)
DismissAnytime ==
  /\ fix.state # "closed" /\ fix' = [fix EXCEPT !.state = "closed"]
  /\ UNCHANGED <<Channels, reader, screen, armed, pane>>

DismissFix ==
  /\ fix.state \in {"pending", "finished"} /\ fix' = [fix EXCEPT !.state = "closed"]
  /\ UNCHANGED <<Channels, reader, screen, armed, pane>>

(* Mutant: a line is shown in the overlay and the next one not waited for. *)
FixLineEndsWait(r) ==
  /\ reader[r] = "line" /\ table[r] = None
  /\ fix' = IF fix.state = "running" THEN [fix EXCEPT !.buf = Append(@, taken[r])] ELSE fix
  /\ reader' = [reader EXCEPT ![r] = "none"]
  /\ UNCHANGED <<Channels, screen, armed, pane>>

(* Mutant: the overlay shows the newest line sent.                         *)
ShowsNewestLine(r) ==
  /\ reader[r] = "line" /\ table[r] = None
  /\ IF fix.state = "running"
     THEN /\ fix' = [fix EXCEPT !.buf = Append(@, sent[r])]
          /\ reader' = [reader EXCEPT ![r] = "waiting"]
     ELSE reader' = [reader EXCEPT ![r] = "none"] /\ UNCHANGED fix
  /\ UNCHANGED <<Channels, screen, armed, pane>>

onFixLine(r) ==
  /\ reader[r] = "line" /\ table[r] = None
  /\ IF fix.state = "running"
     THEN /\ fix' = [fix EXCEPT !.buf = Append(@, taken[r])]
          /\ reader' = [reader EXCEPT ![r] = "waiting"]
     ELSE reader' = [reader EXCEPT ![r] = "none"] /\ UNCHANGED fix
  /\ UNCHANGED <<Channels, screen, armed, pane>>

onFixDone(r) ==
  /\ reader[r] = "done" /\ table[r] = None
  /\ reader' = [reader EXCEPT ![r] = "none"]
  /\ fix' = IF fix.state = "running" THEN [fix EXCEPT !.state = "finished"] ELSE fix
  /\ UNCHANGED <<Channels, screen, armed, pane>>

-----------------------------------------------------------------------------
Goroutine(r) == onLine(r) \/ Return(r)

Waiting(r) == waitLine(r) \/ waitDone(r)

Handler(r) ==
  onVacuumStarted(r) \/ onVacuumLine(r) \/ onVacuumDone(r) \/ onFixLine(r) \/ onFixDone(r)

UserKey ==
  \/ \E t \in Tables : OpenTable(t)
  \/ Leave \/ ArmVacuum \/ CancelVacuum \/ OpenDiagnostic \/ handleDiagEnter \/ DismissFix
  \/ \E r \in Runs : ConfirmVacuum(r) \/ ConfirmFix(r)

Next == UserKey \/ \E r \in Runs : Goroutine(r) \/ Waiting(r) \/ Handler(r)

Spec == Init /\ [][Next]_vars

(* The server answers, goroutines are scheduled and messages delivered.    *)
FairSpec ==
  Spec /\ \A r \in Runs : WF_vars(Goroutine(r)) /\ WF_vars(Waiting(r)) /\ WF_vars(Handler(r))

-----------------------------------------------------------------------------
(* The state stays inside its declared domains.                            *)
TypeOK ==
  /\ phase \in [Runs -> {"unused", "running", "returned"}]
  /\ table \in [Runs -> Tables \cup {None}]
  /\ length \in [Runs -> 0..MaxLines] /\ sent \in [Runs -> 0..MaxLines]
  /\ taken \in [Runs -> 0..MaxLines]
  /\ reader \in [Runs -> {"none", "started", "waiting", "line", "done"}]
  /\ screen \in Tables \cup {None, "diagnostic"} /\ armed \in BOOLEAN
  /\ pane \in Pane /\ fix \in Fix

(* The overlay shows the output of the script that is on it: the lines in  *)
(* order from the first, none missing, none of another run.                *)
FixOutput ==
  /\ fix.buf = [i \in 1..Len(fix.buf) |-> i]
  /\ fix.run # None => Len(fix.buf) <= taken[fix.run]

(* Whatever runs share the pane, a run's lines are in it in order and      *)
(* without a gap.                                                          *)
FollowsOn(i, j) ==
  /\ i < j /\ pane.buf[i].run = pane.buf[j].run
  /\ \A m \in (i + 1)..(j - 1) : pane.buf[m].run # pane.buf[i].run
PaneInOrder ==
  \A i, j \in DOMAIN pane.buf : FollowsOn(i, j) => pane.buf[j].line = pane.buf[i].line + 1

(* A pane that says a vacuum runs is fed by one: something will end it.    *)
PaneAlive == pane.running => \E r \in Runs : table[r] # None /\ reader[r] # "none"

(* The pane shows what its runs print, and is closed by their end.         *)
PaneFollows == PaneInOrder /\ PaneAlive

(* The modal overlay always comes to its end: no key leaves it before.     *)
FixEnds == (fix.state = "running") ~> (fix.state = "finished")

(* A vacuum pane stops running.                                            *)
VacuumEnds == pane.running ~> ~pane.running

(* What streams comes to its end: no pane and no overlay is left running.  *)
StreamsEnd == FixEnds /\ VacuumEnds

(* The overlay is an output pane.                                          *)
FixPane ==
  INSTANCE OutputPane WITH
    printed <- IF fix.run = None THEN 0 ELSE sent[fix.run],
    shown   <- fix.buf,
    open    <- fix.state = "running"
ImplementsPane == FixPane!Spec

-----------------------------------------------------------------------------
(* What the repository says and the code does not keep.                    *)

(* README: the pane "streams every NOTICE into a scrollable pane".         *)
EveryNotice ==
  \A r \in Runs : table[r] # None /\ reader[r] = "done" /\ pane.running => taken[r] = sent[r]
=============================================================================
