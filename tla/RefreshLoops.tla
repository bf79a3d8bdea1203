----------------------------- MODULE RefreshLoops -----------------------------
(***************************************************************************)
(* The screen stack of pgdu and its five auto-refresh loops: top queries,  *)
(* activity, system overview, log tail and pgbouncer.                      *)
(*                                                                         *)
(* A loop is a tea.Tick that reschedules itself when it fires; a flag      *)
(* (statTicking, activityTicking, ...) says that one is out, so that the   *)
(* screens that start the loop do not start a second one.  The tick looks  *)
(* at the screen on top to decide whether to go on and what to load.       *)
(* Top-queries windows here end at now: TopQueries has the frozen ones.    *)
(***************************************************************************)
EXTENDS Integers, Sequences, FiniteSets

CONSTANTS
  Explored,  \* bound: the kinds of screen an instance opens
  MaxDepth,  \* bound: screens on the stack
  MaxLoads   \* bound: loads in flight of one kind

ASSUME BoundsAssumption == MaxDepth \in Nat /\ MaxLoads \in Nat

VARIABLES
  stack,    \* Model.stack, the last screen on top
  on,       \* whether a loop's cadence (statRefresh, ...) is above zero
  ticking,  \* the loop's flag
  ticks,    \* ticks of the loop that were scheduled and have not fired
  loads     \* loads in flight, by the kind of screen that takes the reply

vars == <<stack, on, ticking, ticks, loads>>

Loops == {"stat", "activity", "maint", "log", "pgb"}

(* "picker" is the snapshot browser opened with the tool (stat.entry),     *)
(* "describe" any panel, "samples" the values and result screens.          *)
Kinds ==
  {"tools", "databases", "statements", "picker", "snapshots", "detail", "samples",
   "activity", "lock tree", "wait profile", "progress", "maintenance", "settings",
   "log files", "logs", "log group", "log entry",
   "pgbouncers", "pgbouncer", "pgbouncer show", "describe"}

(* A screen shows a spinner over no rows, a spinner over old rows, or rows.*)
Shows  == {"new", "reloading", "loaded"}
Screen == [kind : Kinds, shows : Shows]

(* loadCurrent answers these without a command; it knows no command for    *)
(* the silent ones, and for a panel only when it knows the relation.       *)
Synchronous == {"tools", "detail", "log group", "log entry"}
Silent      == {"samples", "wait profile"}

(* The screens a loop is started by, survives on, and is cycled from.      *)
Starts ==
  [stat |-> {"statements"}, activity |-> {"activity", "lock tree", "progress"},
   maint |-> {"maintenance"}, log |-> {"logs"},
   pgb |-> {"pgbouncers", "pgbouncer", "pgbouncer show"}]
Survives ==
  [Starts EXCEPT !.stat = {"statements", "detail"}, !.log = {"logs", "log group", "log entry"},
                 !.activity = {"activity", "lock tree", "progress", "wait profile"}]
Cycles ==
  [Survives EXCEPT !.activity = {"activity", "progress"}]

-----------------------------------------------------------------------------
(* The keys that push a screen and load it: Enter, for which the screen    *)
(* must have loaded, and keys of their own.                                *)
Drills ==
  {<<"tools", k>> : k \in {"databases", "activity", "maintenance", "log files", "pgbouncers"}}
    \cup {<<"statements", "detail">>, <<"log files", "logs">>, <<"log group", "log entry">>,
          <<"log group", "log group">>,
          <<"pgbouncers", "pgbouncer">>, <<"pgbouncer", "pgbouncer show">>}
    \cup {<<"logs", k>> : k \in {"log group", "log entry"}}
Jumps ==
  {<<"statements", "snapshots">>, <<"activity", "lock tree">>, <<"activity", "progress">>}
    \cup {<<"maintenance", k>> : k \in {"activity", "progress", "lock tree", "settings"}}
    \cup {<<k, "log files">> : k \in {"statements", "detail", "maintenance"}}
    \cup {<<k, "logs">> : k \in {"pgbouncers", "pgbouncer"}}
Described ==
  {"statements", "detail", "samples", "activity", "progress", "logs", "log group", "log entry"}

Push(stk, k)  == Append(stk, [kind |-> k, shows |-> "new"])
Pop(stk)      == SubSeq(stk, 1, Len(stk) - 1)
Top           == stack[Len(stack)]
OnStack(k)    == \E i \in DOMAIN stack : stack[i].kind = k

(* findLevel: both browsers are one level.                                 *)
Level(k)      == IF k = "picker" THEN "snapshots" ELSE k
FindLevel(k)  == CHOOSE i \in DOMAIN stack :
                   /\ Level(stack[i].kind) = k
                   /\ \A j \in DOMAIN stack : j > i => Level(stack[j].kind) # k

(* popToStatements and jumpToLogEntry unwind to a screen below.            *)
PopTo(k)      == SubSeq(stack, 1, FindLevel(k))

-----------------------------------------------------------------------------
(* armActivityTick and its siblings.                                       *)
Arm(k) ==
  LET started == {l \in Loops : k \in Starts[l] /\ on[l] /\ ~ticking[l]}
  IN  /\ ticking' = [l \in Loops |-> ticking[l] \/ l \in started]
      /\ ticks' = [l \in Loops |-> IF l \in started THEN ticks[l] + 1 ELSE ticks[l]]

Issue(k)  == loads[k] < MaxLoads /\ loads' = [loads EXCEPT ![k] = @ + 1]
Spinner(x) == [x EXCEPT !.shows = IF @ = "loaded" THEN "reloading" ELSE @]

(* loadCurrent on the top of stk.  before is what loads held when the      *)
(* handler was entered, less the reply it handles.                         *)
LoadCurrent(stk, before) ==
  LET n == Len(stk)
      k == stk[n].kind
  IN  IF k \in Synchronous
      THEN /\ stack' = [stk EXCEPT ![n].shows = "loaded"]
           /\ loads' = before /\ UNCHANGED <<ticking, ticks>>
      ELSE /\ stack' = [stk EXCEPT ![n] = Spinner(@)]
           /\ \/ k \in Silent \cup {"describe"} /\ loads' = before
              \/ /\ k \notin Silent /\ before[Level(k)] < MaxLoads
                 /\ loads' = [before EXCEPT ![Level(k)] = @ + 1]
           /\ Arm(k)

Init ==
  /\ stack = <<[kind |-> "tools", shows |-> "loaded"]>>
  /\ \E s \in BOOLEAN : on = [l \in Loops |-> IF l = "stat" THEN s ELSE l \in {"activity", "pgb"}]
  /\ ticking = [l \in Loops |-> FALSE]
  /\ ticks = [l \in Loops |-> 0]
  /\ loads = [k \in Kinds |-> 0]

-----------------------------------------------------------------------------
(* Keys.                                                                   *)

Opening(k, height) == k \in Explored /\ Len(stack) + height <= MaxDepth

DrillIn(k) ==
  /\ Opening(k, 1) /\ Top.shows = "loaded" /\ <<Top.kind, k>> \in Drills
  /\ LoadCurrent(Push(stack, k), loads) /\ UNCHANGED on

JumpKey(k) ==
  /\ Opening(k, 1) /\ <<Top.kind, k>> \in Jumps
  /\ LoadCurrent(Push(stack, k), loads) /\ UNCHANGED on

(* databaseChildScreens: the browser loads, the table below it waits.      *)
TopQueriesStack(stk) == Push(Push(stk, "statements"), "picker")

OpenTopQueries ==
  /\ Opening("statements", 2) /\ Top.kind \in {"databases", "describe"} /\ Top.shows = "loaded"
  /\ LoadCurrent(TopQueriesStack(stack), loads) /\ UNCHANGED on

(* Pushed with a command of their own: the describe panel, the values and  *)
(* result screens, and the detail of a backend's query, a placeholder      *)
(* until the query is found.                                               *)
OpenWithOwnLoad(k) ==
  /\ Opening(k, 1)
  /\ \/ k = "describe" /\ Top.kind \in Described /\ Top.shows # "new"
     \/ k = "samples"  /\ Top.kind = "detail"    /\ Top.shows = "loaded"
     \/ k = "detail"   /\ Top.kind = "activity"  /\ Top.shows = "loaded"
  /\ stack' = Push(stack, k) /\ Issue(k)
  /\ UNCHANGED <<on, ticking, ticks>>

OpenWaitProfile ==
  /\ Opening("wait profile", 1) /\ Top.kind = "activity"
  /\ stack' = Append(stack, [kind |-> "wait profile", shows |-> "loaded"])
  /\ UNCHANGED <<on, ticking, ticks, loads>>

Refresh == LoadCurrent(stack, loads) /\ UNCHANGED on

(* Mutant: Back from the browser lands on the table that never loaded.     *)
BackOnlyPops ==
  /\ Len(stack) > 1 /\ stack' = Pop(stack)
  /\ UNCHANGED <<on, ticking, ticks, loads>>

(* Mutant: Back pops the last screen too.                                  *)
BackPopsRoot ==
  /\ stack' = Pop(stack)
  /\ UNCHANGED <<on, ticking, ticks, loads>>

(* Back only pops; a top-queries table that never loaded goes too.         *)
Back ==
  /\ Len(stack) > 1
  /\ LET below == Pop(stack)
     IN  stack' = IF /\ Top.kind = "picker" /\ Len(below) > 1
                     /\ below[Len(below)].kind = "statements" /\ below[Len(below)].shows # "loaded"
                  THEN Pop(below) ELSE below
  /\ UNCHANGED <<on, ticking, ticks, loads>>

JumpToLogEntry ==
  /\ Top.kind \in {"log group", "log entry"} /\ OnStack("logs")
  /\ stack' = PopTo("logs")
  /\ UNCHANGED <<on, ticking, ticks, loads>>

(* A pick in the snapshot browser: a window that ends now comes back to    *)
(* the table at once, one that starts at a file when the file is read.     *)
PickNow ==
  /\ Level(Top.kind) = "snapshots" /\ Top.shows = "loaded" /\ OnStack("statements")
  /\ LoadCurrent(PopTo("statements"), loads) /\ UNCHANGED on

(* Mutant: cycling t off forgets the tick that is already out.             *)
CycleForgetsTick(l) ==
  /\ Top.kind \in Cycles[l] \/ (l = "log" /\ Top.kind = "log files" /\ OnStack("logs"))
  /\ \E c \in IF on[l] THEN BOOLEAN ELSE {TRUE} :
       /\ on' = [on EXCEPT ![l] = c]
       /\ ticking' = [ticking EXCEPT ![l] = c]
       /\ ticks' = [ticks EXCEPT ![l] = IF c /\ ~ticking[l] THEN @ + 1 ELSE @]
  /\ UNCHANGED <<stack, loads>>

(* t: the next cadence, and past the slowest one off; a loop that stopped  *)
(* starts again.                                                           *)
CycleRefresh(l) ==
  /\ Top.kind \in Cycles[l] \/ (l = "log" /\ Top.kind = "log files" /\ OnStack("logs"))
  /\ \E c \in IF on[l] THEN BOOLEAN ELSE {TRUE} :
       /\ on' = [on EXCEPT ![l] = c]
       /\ IF c /\ ~ticking[l]
          THEN /\ ticking' = [ticking EXCEPT ![l] = TRUE]
               /\ ticks' = [ticks EXCEPT ![l] = @ + 1]
          ELSE UNCHANGED <<ticking, ticks>>
  /\ UNCHANGED <<stack, loads>>

-----------------------------------------------------------------------------
(* What a tick loads: nothing on the screens a loop only survives on, the  *)
(* parsed log only when it is not being read, a pgbouncer screen only once *)
(* it has loaded (its list is probed in place, which no spinner shows).    *)
Sampled(l) ==
  LET k == Top.kind
  IN  CASE l = "stat"     -> {"statements"} \cap {k}
        [] l = "activity" -> IF k \in {"lock tree", "progress"} THEN {k} ELSE {"activity"}
        [] l = "maint"    -> {"maintenance"}
        [] l = "log"      -> IF OnStack("logs") /\ stack[FindLevel("logs")].shows = "loaded"
                             THEN {"logs"} ELSE {}
        [] l = "pgb"      -> IF Top.shows = "loaded" THEN {k} \ {"pgbouncers"} ELSE {}

(* Mutant: a tick goes on although the cadence was cycled off.             *)
GoesOnWhenOff(l) == Top.kind \in Survives[l]

GoesOn(l) == Top.kind \in Survives[l] /\ on[l]

(* Mutant: the loop goes on and loads nothing.                             *)
TickLoadsNothing(l) ==
  /\ ticks[l] > 0
  /\ IF GoesOn(l) THEN UNCHANGED <<ticking, ticks>>
     ELSE /\ ticking' = [ticking EXCEPT ![l] = FALSE]
          /\ ticks' = [ticks EXCEPT ![l] = @ - 1]
  /\ UNCHANGED <<stack, on, loads>>

onTick(l) ==
  /\ ticks[l] > 0
  /\ IF GoesOn(l)
     THEN /\ IF Sampled(l) = {} THEN UNCHANGED loads ELSE \E k \in Sampled(l) : Issue(k)
          /\ UNCHANGED <<ticking, ticks>>
     ELSE /\ ticking' = [ticking EXCEPT ![l] = FALSE]
          /\ ticks' = [ticks EXCEPT ![l] = @ - 1]
          /\ UNCHANGED loads
  /\ UNCHANGED <<stack, on>>

-----------------------------------------------------------------------------
(* Replies land on the topmost screen of their level, or nowhere.          *)

Arrived(k) == [loads EXCEPT ![k] = @ - 1]

Land(k) ==
  /\ loads[k] > 0 /\ k \notin {"detail", "picker"}
  /\ loads' = Arrived(k)
  /\ stack' = IF \E i \in DOMAIN stack : Level(stack[i].kind) = k
              THEN [stack EXCEPT ![FindLevel(k)].shows = "loaded"] ELSE stack
  /\ UNCHANGED <<on, ticking, ticks>>

(* One database, one log or one pgbouncer is opened without a pick, when   *)
(* its list is on top: the list of databases makes room for the tool.      *)
FastPath(k) ==
  /\ loads[k] > 0 /\ Top.kind = k
  /\ LET list == [Top EXCEPT !.shows = "loaded"]
         under == Append(Pop(stack), list)
     IN  \/ /\ k = "databases" /\ Opening("statements", 1)
            /\ LoadCurrent(TopQueriesStack(Pop(stack)), Arrived(k))
         \/ \E next \in {"logs", "pgbouncer"} :
              /\ <<k, next>> \in Drills /\ Opening(next, 1)
              /\ LoadCurrent(Push(under, next), Arrived(k))
  /\ UNCHANGED on

(* onActivityStatement: the placeholder on top becomes the detail, or it   *)
(* goes when the lookup failed; with none on top a detail is pushed.       *)
onActivityStatement ==
  /\ loads["detail"] > 0 /\ loads' = Arrived("detail")
  /\ LET placeholder == Top.kind = "detail" /\ Top.shows = "new"
     IN  \/ ~OnStack("activity") /\ UNCHANGED stack
         \/ /\ OnStack("activity")
            /\ stack' \in {IF placeholder THEN Pop(stack) ELSE stack,
                           IF placeholder THEN [stack EXCEPT ![Len(stack)].shows = "loaded"]
                           ELSE Append(stack, [kind |-> "detail", shows |-> "loaded"])}
            /\ Len(stack') <= MaxDepth
  /\ UNCHANGED <<on, ticking, ticks>>

Reply(k) == Land(k) \/ FastPath(k) \/ (k = "detail" /\ onActivityStatement)

UserKey ==
  \/ \E k \in Kinds : DrillIn(k) \/ JumpKey(k) \/ OpenWithOwnLoad(k)
  \/ OpenTopQueries \/ OpenWaitProfile \/ Refresh \/ Back \/ JumpToLogEntry \/ PickNow
  \/ \E l \in Loops : CycleRefresh(l)

Next == UserKey \/ (\E l \in Loops : onTick(l)) \/ \E k \in Kinds : Reply(k)

Spec == Init /\ [][Next]_vars

(* A scheduled tick fires and a load is answered, if only by its timeout.  *)
(* A pushed detail may be out of depth, so no more is asked of Reply.      *)
FairSpec ==
  Spec /\ (\A l \in Loops : WF_vars(onTick(l))) /\ (\A k \in Kinds : WF_vars(Reply(k)))

-----------------------------------------------------------------------------
(* The state stays inside its declared domains.                            *)
TypeOK ==
  /\ stack \in Seq(Screen) /\ stack # <<>>
  /\ on \in [Loops -> BOOLEAN] /\ ticking \in [Loops -> BOOLEAN]
  /\ ticks \in [Loops -> Nat] /\ loads \in [Kinds -> Nat]

(* A loop never has two ticks out, however its screens are left and        *)
(* entered and its cadence cycled, and its flag tells when it has one:     *)
(* a second tick would double the load on the server for good, a lost one  *)
(* would stop the refresh with the flag still set.                         *)
OneTick == \A l \in Loops : ticks[l] = IF ticking[l] THEN 1 ELSE 0

(* The screens loadCurrent has a command for; its reply is looked up by    *)
(* their level.                                                            *)
Awaited(x)  == x.kind \notin Synchronous \cup Silent \cup {"describe"}

(* The table under the entry picker is loaded by the pick.                 *)
Deferred(i) == /\ i < Len(stack)
               /\ stack[i].kind = "statements" /\ stack[i + 1].kind = "picker"

(* A load is on its way to every screen with a spinner, those below the    *)
(* top included: Back only pops.                                           *)
SpinnersAwaited ==
  \A i \in DOMAIN stack :
    Awaited(stack[i]) /\ stack[i].shows # "loaded" /\ ~Deferred(i)
      => loads[Level(stack[i].kind)] > 0

(* A describe panel leads to a second top-queries table above the first.   *)
Twice ==
  \E i, j \in DOMAIN stack :
    i < j /\ Awaited(stack[i]) /\ Level(stack[i].kind) = Level(stack[j].kind)

(* No step abandons a spinner, while no level is on the stack twice: then  *)
(* the reply to the lower screen lands on the upper one.                   *)
NeverStranded == [][SpinnersAwaited /\ ~Twice => SpinnersAwaited']_vars

(* A loop whose cadence was cycled off comes to rest.                      *)
LoopsStop == \A l \in Loops : (~on[l] /\ ticking[l]) ~> (on[l] \/ ~ticking[l])

(* While its loop runs, a live screen that stays on top is loaded again    *)
(* and again.                                                              *)
LiveScreensReload ==
  \A l \in Loops \ {"log", "pgb"} :
    (Top.kind \in Starts[l] /\ on[l] /\ ticking[l])
      ~> (loads[Top.kind] > 0 \/ Top.kind \notin Starts[l] \/ ~on[l])

(* Every loop either rests or keeps its screen fresh.                      *)
LoopsLive == LoopsStop /\ LiveScreensReload

=============================================================================
