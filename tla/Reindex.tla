------------------------------- MODULE Reindex -------------------------------
(***************************************************************************)
(* REINDEX INDEX CONCURRENTLY from the parts screen (levelParts).          *)
(*                                                                         *)
(* Enter on a bloated index arms a confirmation, y starts the rebuild in a *)
(* goroutine of its own together with a tick that polls its progress every *)
(* half second.  The banner lives in the screen: a screen that is left and *)
(* opened again knows nothing of the rebuild, which goes on.               *)
(***************************************************************************)
EXTENDS ProgressBar, Sequences

CONSTANTS
  Tables, Indexes,
  TableOf,   \* the table of an index
  Phases,    \* the phases a rebuild goes through on the server, in order
  Units,     \* bound: what a phase counts up to
  MaxTicks,  \* bound: poll ticks scheduled at a time
  Slots,     \* bound: commands in flight at a time
  None

ASSUME TablesAssumption ==
  /\ TableOf \in [Indexes -> Tables] /\ None \notin Tables \cup Indexes
  /\ Len(Phases) > 0 /\ Units \in Nat /\ MaxTicks \in Nat \ {0}

VARIABLES
  bloated,  \* the server: indexes over reindexBloatThreshold
  build,    \* the server: a table's running rebuild
  screen,   \* the parts screen of a table: its reindexState and its rows
  covered,  \* another screen is on top of it
  ticks,    \* reindexTicks scheduled
  net       \* slot -> the command or reply in it

vars == <<bloated, build, screen, covered, ticks, net>>

Build    == [by : Slots, phase : DOMAIN Phases, done : 0..Units]
Row      == [phase : {Phases[p] : p \in DOMAIN Phases}, done : 0..Units, total : 0..Units]
Percents == {Unmapped} \cup (0..10000)

Screen ==
  [table : Tables, rows : SUBSET Indexes, pending : Indexes \cup {None},
   running : Indexes \cup {None}, prog : Row \cup {None}, pctMax : Percents]

Messages ==
  [kind : {"parts", "scan", "poll"}, table : Tables]
    \cup [kind : {"bloat"}, table : Tables, found : (SUBSET Indexes) \cup {None}]
    \cup [kind : {"progress"}, table : Tables, row : Row \cup {None}]
    \cup [kind : {"rebuild"}, index : Indexes]
    \cup [kind : {"done"}, index : Indexes, ok : BOOLEAN]

ASSUME NoneAssumption ==
  None \notin [kind : {"rebuild"}, index : Indexes]
                \cup [kind : {"done"}, index : Indexes, ok : BOOLEAN]

Idle(x) == [x EXCEPT !.running = None, !.prog = None, !.pctMax = 0]

Open    == screen # None
OnTop   == Open /\ ~covered
Running == IF Open THEN screen.running ELSE None

Issue(m)       == \E s \in Slots : net[s] = None /\ net' = [net EXCEPT ![s] = m]
Answer(s, m)   == net' = [net EXCEPT ![s] = m]
Done(s)        == net' = [net EXCEPT ![s] = None]
Sent(s, k)     == net[s] # None /\ net[s].kind = k

Load(t)        == [kind |-> "parts", table |-> t]

Init ==
  /\ bloated \in SUBSET Indexes /\ build = [t \in Tables |-> None]
  /\ screen = None /\ covered = FALSE /\ ticks = 0
  /\ net = [s \in Slots |-> None]

-----------------------------------------------------------------------------
(* The server.  A rebuild locks its table against other rebuilds and may   *)
(* fail at any time.                                                       *)

Bloat(i) ==
  /\ bloated' = bloated \cup {i}
  /\ UNCHANGED <<build, screen, covered, ticks, net>>

StartBuild(s) ==
  /\ Sent(s, "rebuild") /\ build[TableOf[net[s].index]] = None
  /\ build' = [build EXCEPT ![TableOf[net[s].index]] = [by |-> s, phase |-> 1, done |-> 0]]
  /\ UNCHANGED <<bloated, screen, covered, ticks, net>>

Advance(t) ==
  /\ build[t] # None
  /\ \/ build[t].done < Units /\ build' = [build EXCEPT ![t].done = @ + 1]
     \/ build[t].phase < Len(Phases) /\ build' = [build EXCEPT ![t].phase = @ + 1, ![t].done = 0]
  /\ UNCHANGED <<bloated, screen, covered, ticks, net>>

(* ReindexIndex returns.                                                   *)
EndBuild(s) ==
  /\ Sent(s, "rebuild")
  /\ LET i == net[s].index
         t == TableOf[i]
         mine == build[t] # None /\ build[t].by = s
     IN  /\ \/ /\ mine /\ build[t].phase = Len(Phases)
               /\ bloated' = bloated \ {i} /\ Answer(s, [kind |-> "done", index |-> i, ok |-> TRUE])
            \/ UNCHANGED bloated /\ Answer(s, [kind |-> "done", index |-> i, ok |-> FALSE])
         /\ build' = IF mine THEN [build EXCEPT ![t] = None] ELSE build
  /\ UNCHANGED <<screen, covered, ticks>>

(* fillBloatCmd measures the bloat, ReindexProgress reads the progress     *)
(* view; either may fail, and the view may have no row yet or any more.    *)
Measure(s) ==
  /\ Sent(s, "scan")
  /\ \E found \in {bloated, None} :
       Answer(s, [kind |-> "bloat", table |-> net[s].table, found |-> found])
  /\ UNCHANGED <<bloated, build, screen, covered, ticks>>

ReindexProgress(s) ==
  /\ Sent(s, "poll")
  /\ LET b == build[net[s].table]
         rows == IF b = None THEN {}
                 ELSE {[phase |-> Phases[b.phase], done |-> b.done, total |-> n] : n \in 0..Units}
     IN  \E row \in rows \cup {None} :
           Answer(s, [kind |-> "progress", table |-> net[s].table, row |-> row])
  /\ UNCHANGED <<bloated, build, screen, covered, ticks>>

-----------------------------------------------------------------------------
(* Keys.                                                                   *)

drillTable(t) ==
  /\ ~Open
  /\ screen' = [table |-> t, rows |-> {}, pending |-> None, running |-> None,
                prog |-> None, pctMax |-> 0]
  /\ Issue(Load(t))
  /\ UNCHANGED <<bloated, build, covered, ticks>>

Cover == OnTop /\ screen.pending = None /\ covered' = TRUE
           /\ UNCHANGED <<bloated, build, screen, ticks, net>>

Back ==
  /\ Open
  /\ IF covered THEN covered' = FALSE /\ UNCHANGED screen
     ELSE screen.pending = None /\ screen' = None /\ UNCHANGED covered
  /\ UNCHANGED <<bloated, build, ticks, net>>

Refresh ==
  /\ OnTop /\ screen.pending = None
  /\ Issue(Load(screen.table))
  /\ UNCHANGED <<bloated, build, screen, covered, ticks>>

reindexCandidate(i) == i \in screen.rows /\ screen.running = None

handleReindexEnter(i) ==
  /\ OnTop /\ screen.pending = None /\ reindexCandidate(i)
  /\ screen' = [screen EXCEPT !.pending = i]
  /\ UNCHANGED <<bloated, build, covered, ticks, net>>

(* Mutant: the rebuild starts without its tick.                            *)
ConfirmWithoutTick ==
  /\ OnTop /\ screen.pending # None
  /\ screen' = [Idle(screen) EXCEPT !.pending = None, !.running = screen.pending]
  /\ Issue([kind |-> "rebuild", index |-> screen.pending])
  /\ UNCHANGED <<bloated, build, covered, ticks>>

(* y starts the rebuild and its polling, any other key cancels.            *)
Confirm ==
  /\ OnTop /\ screen.pending # None /\ ticks < MaxTicks
  /\ screen' = [Idle(screen) EXCEPT !.pending = None, !.running = screen.pending]
  /\ Issue([kind |-> "rebuild", index |-> screen.pending])
  /\ ticks' = ticks + 1
  /\ UNCHANGED <<bloated, build, covered>>

Cancel ==
  /\ OnTop /\ screen.pending # None
  /\ screen' = [screen EXCEPT !.pending = None]
  /\ UNCHANGED <<bloated, build, covered, ticks, net>>

-----------------------------------------------------------------------------
(* Ticks and replies.  A reply for a table whose screen is gone is dropped.*)

Drop(s) == Done(s) /\ UNCHANGED <<screen, ticks>>

onReindexTick ==
  /\ ticks > 0
  /\ IF Running = None THEN ticks' = ticks - 1 /\ UNCHANGED net
     ELSE Issue([kind |-> "poll", table |-> screen.table]) /\ UNCHANGED ticks
  /\ UNCHANGED <<bloated, build, screen, covered>>

(* The list comes first and knows no bloat; measuring it follows.          *)
onPartsLoaded(s) ==
  /\ Sent(s, "parts")
  /\ IF Open /\ screen.table = net[s].table
     THEN /\ screen' = [screen EXCEPT !.rows = {}]
          /\ Done(s) \/ Answer(s, [kind |-> "scan", table |-> net[s].table])
          /\ UNCHANGED ticks
     ELSE Drop(s)
  /\ UNCHANGED <<bloated, build, covered>>

onBloatFilled(s) ==
  /\ Sent(s, "bloat")
  /\ IF Open /\ screen.table = net[s].table /\ net[s].found # None
     THEN /\ screen' = [screen EXCEPT !.rows = {i \in net[s].found : TableOf[i] = screen.table}]
          /\ Done(s) /\ UNCHANGED ticks
     ELSE Drop(s)
  /\ UNCHANGED <<bloated, build, covered>>

(* Mutant: the banner shows the last sample, wherever it went.             *)
ShowsLastSample(s) ==
  /\ Sent(s, "progress")
  /\ IF Running # None /\ screen.table = net[s].table /\ net[s].row # None
     THEN /\ screen' = [screen EXCEPT !.prog = net[s].row, !.pctMax = ReindexPct(net[s].row)]
          /\ Done(s) /\ UNCHANGED ticks
     ELSE Drop(s)
  /\ UNCHANGED <<bloated, build, covered>>

(* The bar holds where it was for a phase without a slice.                 *)
onReindexProgress(s) ==
  /\ Sent(s, "progress")
  /\ IF Running # None /\ screen.table = net[s].table
     THEN /\ screen' = [screen EXCEPT
               !.prog = net[s].row,
               !.pctMax = IF net[s].row = None THEN @ ELSE Max({@, ReindexPct(net[s].row)})]
          /\ Done(s) /\ UNCHANGED ticks
     ELSE Drop(s)
  /\ UNCHANGED <<bloated, build, covered>>

(* Mutant: a failure returns before it clears the banner.                  *)
FailureKeepsBanner(s) ==
  /\ Sent(s, "done")
  /\ IF Open /\ screen.table = TableOf[net[s].index] /\ net[s].ok
     THEN /\ screen' = Idle(screen)
          /\ IF ~covered THEN Answer(s, Load(screen.table)) ELSE Done(s)
          /\ UNCHANGED ticks
     ELSE Drop(s)
  /\ UNCHANGED <<bloated, build, covered>>

(* After a success the screen on top is loaded again.                      *)
onReindexDone(s) ==
  /\ Sent(s, "done")
  /\ IF Open /\ screen.table = TableOf[net[s].index]
     THEN /\ screen' = Idle(screen)
          /\ IF net[s].ok /\ ~covered THEN Answer(s, Load(screen.table)) ELSE Done(s)
          /\ UNCHANGED ticks
     ELSE Drop(s)
  /\ UNCHANGED <<bloated, build, covered>>

-----------------------------------------------------------------------------
Server ==
  \/ \E i \in Indexes : Bloat(i)
  \/ \E t \in Tables : Advance(t)

Serve(s)   == StartBuild(s) \/ EndBuild(s) \/ Measure(s) \/ ReindexProgress(s)
Deliver(s) == onPartsLoaded(s) \/ onBloatFilled(s) \/ onReindexProgress(s) \/ onReindexDone(s)

UserKey ==
  \/ \E t \in Tables : drillTable(t)
  \/ \E i \in Indexes : handleReindexEnter(i)
  \/ Cover \/ Back \/ Refresh \/ Confirm \/ Cancel

Next == Server \/ UserKey \/ onReindexTick \/ \E s \in Slots : Serve(s) \/ Deliver(s)

Spec == Init /\ [][Next]_vars

-----------------------------------------------------------------------------
(* The state stays inside its declared domains.                            *)
TypeOK ==
  /\ bloated \subseteq Indexes /\ build \in [Tables -> Build \cup {None}]
  /\ screen \in Screen \cup {None} /\ covered \in BOOLEAN
  /\ ticks \in 0..MaxTicks /\ net \in [Slots -> Messages \cup {None}]

(* The banner never runs on: a rebuild it names is still under way, or its *)
(* end is on its way to clear it, whatever other rebuilds of the table an  *)
(* earlier visit of the screen left behind.                                *)
BannerFed ==
  Running # None =>
    \E s \in Slots : net[s] # None /\ net[s].kind \in {"rebuild", "done"} /\ net[s].index = Running

(* While the banner shows a rebuild its progress is polled: the tick that  *)
(* keeps itself alive never dies under it.                                 *)
Polled == Running # None => ticks > 0

(* "the overall bar only ever moves forward" (reindexState): through       *)
(* unmapped phases, totals that read 0 and polls that land out of order.   *)
BarForward ==
  [][Running # None /\ screen' # None /\ Running' = Running
       => screen'.pctMax >= screen.pctMax]_vars
=============================================================================
