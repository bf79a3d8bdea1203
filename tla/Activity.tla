------------------------------- MODULE Activity -------------------------------
(***************************************************************************)
(* The live activity tool: the table, and above it the lock tree, the wait *)
(* profile, the progress monitor and the detail of a backend's query.      *)
(*                                                                         *)
(* One tick samples for whichever of them is on top; a sample of the table *)
(* also feeds the wait profile and the marks of the inline percent.  An    *)
(* answer looks for the nearest screen of its level: what the user did     *)
(* since it was asked for is not compared.                                 *)
(*                                                                         *)
(* The server has one backend that reports progress, as an autovacuum      *)
(* worker does: one operation after the other under one pid.               *)
(***************************************************************************)
EXTENDS Integers, Sequences, FiniteSets, ProgressBar

CONSTANTS
  None,
  Cap,        \* waitRingCap
  Empty,      \* a slot of the ring that was never written
  Slots,      \* bound: commands in flight
  Queries,    \* texts of running queries
  Relations,  \* relations operations run on
  Units,      \* bound: what a phase counts up to
  Sessions    \* bounds of a session: its keys, the relations operations run
              \* on in turn, their phases, and what a sample may find active

ASSUME CapAssumption == Cap \in Nat \ {0}
ASSUME SessionsAssumption ==
  /\ Units \in Nat /\ IsFiniteSet(Slots)
  /\ \A s \in Sessions :
       s.ops \in Seq(Relations) /\ s.phases \in Seq(STRING) /\ s.active \subseteq BOOLEAN
  /\ None \notin [kind : {"statement", "activityStatement"}, query : Queries]
                   \cup [relid : Relations, phase : Nat, done : Nat]

VARIABLES
  session,  \* the bounds in force
  stack,    \* Model.stack above the tools screen
  ticking,  \* Model.activityTicking
  ring,     \* Model.waitRing
  net,      \* commands in flight, each with its answer once it is served
  op,       \* the operation the backend runs
  ops,      \* operations it has started
  reached,  \* the furthest percent of the operations on a relation
  recent    \* the samples that have landed, the last Cap of them

server == <<op, ops, reached>>
vars == <<session, stack, ticking, ring, net, server, recent>>

Keys    == {"open", "back", "refresh", "filter", "enter", "waits", "locks", "progress", "signal", "log"}
Live    == {"activity", "locks", "waits", "progress"}
Levels  == Live \cup {"detail", "logs"}
Filters == {"active+waiting", "non-idle", "all"}
NextFilter == [f \in Filters |-> CASE f = "active+waiting" -> "non-idle"
                                   [] f = "non-idle"       -> "all"
                                   [] f = "all"            -> "active+waiting"]

(* A percent and the operation it is of, by the relation alone: all        *)
(* operations here are of one command.                                     *)
Mark == [relid : Relations, pct : {Unmapped} \cup 0..10000]

(* One record for every level, as in the code: what a level does not use   *)
(* keeps its zero value.  rows is the filter the rows were taken under.    *)
Screen ==
  [level : Levels, filter : Filters, rows : Filters \cup {None}, mark : Mark \cup {None},
   pendingAction : BOOLEAN, loading : BOOLEAN, detail : Queries \cup {None}]

screen(l) ==
  [level |-> l, filter |-> "active+waiting", rows |-> None, mark |-> None,
   pendingAction |-> FALSE, loading |-> l # "waits", detail |-> None]

Top == stack[Len(stack)]
Pop == SubSeq(stack, 1, Len(stack) - 1)
On(l) == stack # <<>> /\ Top.level = l

(* findLevel: the nearest from the top, 0 for none.                        *)
findLevel(l) == Max({0} \cup {i \in DOMAIN stack : stack[i].level = l})

-----------------------------------------------------------------------------
(* The history of the wait profile: a ring of the last samples of the      *)
(* activity table, as the Model keeps it for the whole session.            *)

(* Slots count from 0; head is the next to be written.                     *)
newWaitRing == [buf |-> [i \in 0..(Cap - 1) |-> Empty], head |-> 0, n |-> 0]

(* Mutant: the next slot to be written is past the end once.               *)
pushPastEnd(r, b) ==
  [buf |-> [r.buf EXCEPT ![r.head % Cap] = b],
   head |-> (r.head + 1) % (Cap + 1),
   n |-> IF r.n < Cap THEN r.n + 1 ELSE r.n]

push(r, b) ==
  [buf |-> [r.buf EXCEPT ![r.head] = b],
   head |-> (r.head + 1) % Cap,
   n |-> IF r.n < Cap THEN r.n + 1 ELSE r.n]

(* Mutant: an off-by-one where the ring has wrapped.                       *)
orderedFromHead(r) == [k \in 1..r.n |-> r.buf[(r.head + k) % Cap]]

(* The buckets from the oldest to the newest.                              *)
ordered(r) ==
  LET start == (r.head - r.n + Cap) % Cap
  IN  [k \in 1..r.n |-> r.buf[(start + k - 1) % Cap]]

-----------------------------------------------------------------------------
(* The backend and its operation.                                          *)

(* A row is given by its percent, which the handlers work out of it.  The  *)
(* total it counts to reads 0 between phases.                              *)
Row(o, total) ==
  [relid |-> o.relid,
   pct |-> OverallPct([command |-> "VACUUM", phase |-> session.phases[o.phase], done |-> o.done, total |-> total])]
RowsOf(o) == IF o = None THEN {None} ELSE {Row(o, n) : n \in {0, Units}}

Init ==
  /\ session \in Sessions
  /\ stack = <<>> /\ ticking = FALSE
  /\ ring = newWaitRing /\ recent = <<>>
  /\ net = [s \in Slots |-> None]
  /\ op = None /\ ops = 0 /\ reached = [r \in Relations |-> Unmapped]

Reach(o) == reached' = [reached EXCEPT ![o.relid] = Max({@} \cup {row.pct : row \in RowsOf(o)})]

(* Operations begin, count, move on or back to an earlier phase (VACUUM    *)
(* repeats its index passes) and end.                                      *)
StartOperation ==
  /\ op = None /\ ops < Len(session.ops) /\ ops' = ops + 1
  /\ op' = [relid |-> session.ops[ops'], phase |-> 1, done |-> 0] /\ Reach(op')
  /\ UNCHANGED <<session, stack, ticking, ring, net, recent>>

Advance ==
  /\ op # None
  /\ \/ op.done < Units /\ op' = [op EXCEPT !.done = @ + 1]
     \/ \E p \in DOMAIN session.phases : p # op.phase /\ p <= op.phase + 1 /\
                                 op' = [op EXCEPT !.phase = p, !.done = 0]
  /\ Reach(op')
  /\ UNCHANGED <<session, stack, ticking, ring, net, ops, recent>>

EndOperation ==
  /\ op # None /\ op' = None
  /\ UNCHANGED <<session, stack, ticking, ring, net, ops, reached, recent>>

-----------------------------------------------------------------------------
(* Commands.  query() bounds each by a timeout: an answer may be an error. *)

LoadActivity(f)   == [kind |-> "activity", filter |-> f]
LoadLockTree      == [kind |-> "locks"]
LoadProgress      == [kind |-> "progress"]
SignalBackend     == [kind |-> "signal"]
LoadStatement(q)  == [kind |-> "statement", query |-> q]

(* The answer: activity carries the filter it ran under, whether a backend *)
(* was active, and the operation, None also when the progress views could  *)
(* not be read.  That of a statement is never an error: without its        *)
(* statistics loadActivityStatementCmd makes a detail of the text.         *)
Answers(c) ==
  CASE c.kind = "activity" ->
         {[kind |-> "activityLoaded", ok |-> TRUE, filter |-> c.filter, active |-> a, row |-> r] :
            a \in session.active, r \in RowsOf(op) \cup {None}} \cup {[kind |-> "activityLoaded", ok |-> FALSE]}
    [] c.kind = "progress" ->
         {[kind |-> "progressLoaded", ok |-> TRUE, row |-> r] : r \in RowsOf(op)}
           \cup {[kind |-> "progressLoaded", ok |-> FALSE]}
    [] c.kind = "locks" -> {[kind |-> "lockTreeLoaded"]}
    [] c.kind = "signal" -> {[kind |-> "backendAction"]}
    [] c.kind = "statement" -> {[kind |-> "activityStatement", query |-> c.query]}
    [] OTHER -> {}

Serve(s) ==
  /\ net[s] # None
  /\ \E answer \in Answers(net[s]) : net' = [net EXCEPT ![s] = answer]
  /\ UNCHANGED <<session, stack, ticking, ring, server, recent>>

Send(c)   == \E s \in Slots : net[s] = None /\ net' = [net EXCEPT ![s] = c]
Answer(s, kind) == net[s] # None /\ net[s].kind = kind
Landed(s) == net' = [net EXCEPT ![s] = None]
Follow(s, c) == net' = [net EXCEPT ![s] = c]

-----------------------------------------------------------------------------
(* loadCurrent, for a stack that has become st.                            *)
Loading(st) == [st EXCEPT ![Len(st)].loading = TRUE]

LoadOf(l, f) ==
  CASE l = "locks" -> LoadLockTree [] l = "progress" -> LoadProgress [] OTHER -> LoadActivity(f)

loadCurrent(st) ==
  LET s == st[Len(st)]
  IN  /\ stack' = Loading(st) /\ ticking' = TRUE
      /\ Send(LoadOf(s.level, s.filter))

(* Keys.  While a prompt is up every key answers it.                       *)
Key(k) == k \in session.keys /\ UNCHANGED <<session, ring, server, recent>>
NoPrompt == stack # <<>> => ~Top.pendingAction

Open == Key("open") /\ stack = <<>> /\ loadCurrent(<<screen("activity")>>)

Back == Key("back") /\ stack # <<>> /\ NoPrompt /\ stack' = Pop /\ UNCHANGED <<ticking, net>>

Drill(k, l) == Key(k) /\ On("activity") /\ NoPrompt /\ loadCurrent(Append(stack, screen(l)))

OpenWaits ==
  /\ Key("waits") /\ On("activity") /\ NoPrompt
  /\ stack' = Append(stack, screen("waits")) /\ UNCHANGED <<ticking, net>>

(* A detail has nothing to load before it is filled; what it loads then is *)
(* StatementDetail's.  The wait profile has no command at all: it stays on *)
(* the spinner.                                                            *)
Refresh ==
  /\ Key("refresh") /\ stack # <<>> /\ NoPrompt
  /\ \/ Top.level \in Live \ {"waits"} /\ loadCurrent(stack)
     \/ /\ On("detail") /\ stack' = [stack EXCEPT ![Len(stack)].loading = FALSE]
        /\ UNCHANGED <<ticking, net>>
     \/ On("waits") /\ stack' = Loading(stack) /\ UNCHANGED <<ticking, net>>

cycleFilter ==
  /\ Key("filter") /\ On("activity") /\ NoPrompt
  /\ stack' = [stack EXCEPT ![Len(stack)].filter = NextFilter[@]]
  /\ Send(LoadActivity(NextFilter[Top.filter])) /\ UNCHANGED ticking

(* Enter on a backend whose query has an id.                               *)
drillActivityStatement(q) ==
  /\ Key("enter") /\ On("activity") /\ NoPrompt /\ Top.rows # None
  /\ stack' = Append(stack, screen("detail"))
  /\ Send(LoadStatement(q)) /\ UNCHANGED ticking

(* l on a detail, which may still be loading: the log of the slow queries, *)
(* whose picker and whose load are LogPanes'.                              *)
openLogLink ==
  /\ Key("log") /\ On("detail") /\ NoPrompt
  /\ stack' = Append(stack, screen("logs")) /\ UNCHANGED <<ticking, net>>

Arm ==
  /\ Key("signal") /\ (On("activity") \/ On("locks")) /\ NoPrompt
  /\ stack' = [stack EXCEPT ![Len(stack)].pendingAction = TRUE] /\ UNCHANGED <<ticking, net>>

Confirm ==
  /\ Key("signal") /\ ~NoPrompt
  /\ stack' = [stack EXCEPT ![Len(stack)].pendingAction = FALSE] /\ UNCHANGED ticking
  /\ (Send(SignalBackend) \/ UNCHANGED net)

-----------------------------------------------------------------------------
(* Messages.                                                               *)

Update(l, new) == stack' = [stack EXCEPT ![findLevel(l)] = new]
Lands(s, kind) == Answer(s, kind) /\ Landed(s) /\ UNCHANGED <<session, ticking, server>>

(* Mutant: the tick asks for the filter the table starts with.             *)
TickFilter(s) == "active+waiting"

SampledFilter(s) == s.filter

onActivityTick ==
  /\ ticking
  /\ IF stack # <<>> /\ Top.level \in Live
     THEN Send(LoadOf(Top.level, SampledFilter(Top))) /\ UNCHANGED ticking
     ELSE ticking' = FALSE /\ UNCHANGED net
  /\ UNCHANGED <<session, stack, ring, server, recent>>

(* Mutant: a mark is of the pid alone.                                     *)
MarkOfPid(mark, row) ==
  IF row = None THEN None
  ELSE [row EXCEPT !.pct = Max({@} \cup (IF mark = None THEN {} ELSE {mark.pct}))]

(* The furthest percent of the operation a row is of; a row that is gone   *)
(* takes its mark with it.                                                 *)
clampProgressMarks(mark, row) ==
  IF row = None THEN None
  ELSE [row EXCEPT !.pct =
          Max({@} \cup (IF mark # None /\ mark.relid = row.relid THEN {mark.pct} ELSE {}))]

pushWaitBucket(active) ==
  /\ ring' = push(ring, active)
  /\ recent' = LET all == Append(recent, active)
               IN  IF Len(all) > Cap THEN Tail(all) ELSE all

onActivityLoaded(s) ==
  /\ Lands(s, "activityLoaded")
  /\ LET old == stack[findLevel("activity")]
     IN  CASE findLevel("activity") = 0 -> UNCHANGED <<stack, ring, recent>>
           [] findLevel("activity") # 0 /\ ~net[s].ok ->
                Update("activity", [old EXCEPT !.loading = FALSE]) /\ UNCHANGED <<ring, recent>>
           [] OTHER ->
                /\ Update("activity", [old EXCEPT !.loading = FALSE, !.rows = net[s].filter,
                                                  !.mark = clampProgressMarks(@, net[s].row)])
                /\ pushWaitBucket(net[s].active)

onProgressLoaded(s) ==
  /\ Lands(s, "progressLoaded") /\ UNCHANGED <<ring, recent>>
  /\ LET old == stack[findLevel("progress")]
     IN  IF findLevel("progress") = 0 THEN UNCHANGED stack
         ELSE Update("progress",
                [old EXCEPT !.loading = FALSE,
                            !.mark = IF net[s].ok THEN clampProgressMarks(@, net[s].row) ELSE @])

(* What it makes of the answer is LockTree's.                              *)
onLocksLoaded(s) ==
  /\ Lands(s, "lockTreeLoaded") /\ UNCHANGED <<ring, recent>>
  /\ IF findLevel("locks") = 0 THEN UNCHANGED stack
     ELSE Update("locks", [stack[findLevel("locks")] EXCEPT !.loading = FALSE])

(* The list the signal may have been sent from is loaded again; a prompt   *)
(* that was armed on it meanwhile is gone.                                 *)
onBackendAction(s) ==
  LET l   == IF findLevel("locks") # 0 THEN "locks" ELSE "activity"
      old == stack[findLevel(l)]
  IN  /\ Answer(s, "backendAction") /\ UNCHANGED <<session, ticking, ring, server, recent>>
      /\ IF findLevel(l) = 0 THEN Landed(s) /\ UNCHANGED stack
         ELSE Update(l, [old EXCEPT !.pendingAction = FALSE]) /\ Follow(s, LoadOf(l, old.filter))

Placeholder(s) == s.level = "detail" /\ s.loading /\ s.detail = None

(* Mutant: the detail is pushed on top of the placeholder.                 *)
PlaceholderKept == stack

PlaceholderTaken == IF Placeholder(Top) THEN Pop ELSE stack

(* The detail takes the place of a placeholder on top, whichever query     *)
(* that one was for.                                                       *)
onActivityStatement(s) ==
  /\ Lands(s, "activityStatement") /\ UNCHANGED <<ring, recent>>
  /\ LET filled == [screen("detail") EXCEPT !.loading = FALSE, !.detail = net[s].query]
     IN  IF findLevel("activity") = 0 THEN UNCHANGED stack
         ELSE stack' = Append(PlaceholderTaken, filled)

-----------------------------------------------------------------------------
Browse ==
  \/ Open \/ Back \/ Refresh \/ OpenWaits \/ openLogLink \/ cycleFilter \/ Arm \/ Confirm
  \/ Drill("locks", "locks") \/ Drill("progress", "progress")
  \/ \E q \in Queries : drillActivityStatement(q)

Backend == StartOperation \/ Advance \/ EndOperation

Handle(s) ==
  \/ onActivityLoaded(s) \/ onProgressLoaded(s) \/ onLocksLoaded(s)
  \/ onBackendAction(s) \/ onActivityStatement(s)

Next == Browse \/ Backend \/ onActivityTick \/ \E s \in Slots : Serve(s) \/ Handle(s)

Spec == Init /\ [][Next]_vars

(* The loop of the terminal library takes up every message, and a command  *)
(* is answered: query() has a timeout.  Not every sample is an error.      *)
Sampled(s) == Answer(s, "activity") /\ Serve(s) /\ net'[s].ok

Fairness ==
  /\ WF_vars(onActivityTick)
  /\ \A s \in Slots : WF_vars(Serve(s)) /\ WF_vars(Handle(s)) /\ SF_vars(Sampled(s))

-----------------------------------------------------------------------------
TypeOK ==
  /\ stack \in Seq(Screen) /\ ticking \in BOOLEAN
  /\ ring.n \in 0..Cap /\ ring.head \in 0..(Cap - 1) /\ recent \in Seq(BOOLEAN)
  /\ reached \in [Relations -> {Unmapped} \cup 0..10000]

(* A detail that shows it is loading has a lookup on its way: none waits   *)
(* for an answer that another screen has taken ...                         *)
PlaceholderServed ==
  Cardinality({i \in DOMAIN stack : Placeholder(stack[i])}) <=
    Cardinality({s \in Slots : net[s] # None /\ net[s].kind \in {"statement", "activityStatement"}})

(* ... but one that another screen was opened above: the answer is shown   *)
(* on a second detail then.                                                *)
Covered == \E i \in DOMAIN stack : i < Len(stack) /\ Placeholder(stack[i])

(* No percent is further than an operation on that relation has been: it   *)
(* is never one of the operation the same backend ran before.              *)
MarkReached ==
  \A i \in DOMAIN stack :
    stack[i].mark # None => stack[i].mark.pct <= reached[stack[i].mark.relid]

(* An answer serves the screen that asked for it and the operation it saw: *)
(* no step abandons a detail that is loading, unless it was covered, and   *)
(* none leaves a percent that its operation has not reached.               *)
SamplesServed ==
  [][(PlaceholderServed /\ ~Covered => PlaceholderServed') /\ MarkReached']_vars

(* The profile shows the samples that have landed, from the oldest to the  *)
(* newest, and no others.                                                  *)
RingIsWindow == ordered(ring) = recent

(* When the user rests on the table it comes to show the filter that was   *)
(* chosen, whatever was asked for before.                                  *)
FilterSettles ==
  \A f \in Filters :
    <>[](On("activity") /\ Top.filter = f /\ ticking) => <>[](On("activity") /\ Top.rows = f)
=============================================================================
