---------------------------- MODULE StatementDetail ----------------------------
(***************************************************************************)
(* The detail screen of a statement: a complete sample call is resolved    *)
(* from pg_qualstats or, failing that, searched for in the server log, and *)
(* the statement is explained on it; Enter runs EXPLAIN ANALYZE, p opens   *)
(* the captured values, where Enter runs it on one of them.                *)
(*                                                                         *)
(* Replies carry the text of their statement and land on the screen on the *)
(* stack that shows that text, in any order.  The counters of HOT updates, *)
(* which are loaded and guarded the same way, are left out.                *)
(***************************************************************************)
EXTENDS Integers, FiniteSets

CONSTANTS
  Statements,   \* statements of all databases
  Text,         \* [Statements -> texts]: two databases may hold the same text
  Explainable,  \* SELECT and DML
  ReadOnly,     \* statements EXPLAIN ANALYZE may run
  Single,       \* statements with one placeholder
  Captured,     \* statements pg_qualstats may hold values of
  Calls,        \* texts of complete calls
  None,         \* no statement, no call
  MaxKeys       \* bound: keys of the session, Back apart

ASSUME StatementsAssumption ==
  /\ ReadOnly \subseteq Explainable /\ Explainable \subseteq Statements
  /\ Single \subseteq Statements /\ Captured \subseteq Statements
  /\ None \notin Statements /\ None \notin Calls /\ MaxKeys \in Nat
  \* ExplainableQuery reads the text.
  /\ \A s, t \in Statements : Text[s] = Text[t] => (s \in Explainable <=> t \in Explainable)

VARIABLES
  detail,   \* the detail screen; its statement is None when there is none
  values,   \* the captured-values screen above it
  busy,     \* Model.logCall.busy
  samples,  \* sample loads in flight, by statement
  lookups,  \* log searches in flight, by statement
  plans,    \* EXPLAINs in flight
  keys      \* keys so far

vars == <<detail, values, busy, samples, lookups, plans, keys>>

Call == Calls \cup {None}
Plan == [of : Statements, call : Call, analyze : BOOLEAN, by : {"detail", "values"}]

Shown == Plan \cup {None}
Detail ==
  [stmt : Statements \cup {None}, sample : Call, of : Statements \cup {None},
   source : {"none", "qualstats", "log"}, captured : BOOLEAN,
   lookup : {"idle", "running", "none", "nolog", "err", "found"},
   explaining : BOOLEAN, plan : Shown, analyze : BOOLEAN]
Values == [open : BOOLEAN, sample : Call, explaining : BOOLEAN, plan : Shown]

Closed ==
  [stmt |-> None, sample |-> None, of |-> None, source |-> "none", captured |-> FALSE,
   lookup |-> "idle", explaining |-> FALSE, plan |-> None, analyze |-> FALSE]
NoValues == [open |-> FALSE, sample |-> None, explaining |-> FALSE, plan |-> None]

Init ==
  /\ detail = Closed /\ values = NoValues /\ busy = FALSE /\ keys = 0
  /\ samples = [st \in Statements |-> 0] /\ lookups = [st \in Statements |-> 0]
  /\ plans = [p \in Plan |-> 0]

(* The query guard of the replies.                                         *)
Matches(st) == detail.stmt # None /\ Text[detail.stmt] = Text[st]

More(f, x)  == [f EXCEPT ![x] = @ + 1]
Fewer(f, x) == [f EXCEPT ![x] = @ - 1]

(* statementPlanCmd: on the sample call, or generic.                       *)
PlanOf(d) == [of |-> d.stmt, call |-> d.sample, analyze |-> FALSE, by |-> "detail"]

-----------------------------------------------------------------------------
(* Keys.                                                                   *)
Key == keys < MaxKeys /\ keys' = keys + 1

(* Mutant: the source of the call is kept.                                 *)
ResetKeepsSource(d) ==
  [d EXCEPT !.sample = None, !.of = None, !.captured = FALSE, !.lookup = "idle"]

(* resetSample, and the spinner of the plan that will follow the sample.   *)
Reset(d) ==
  [d EXCEPT !.sample = None, !.of = None, !.source = "none", !.captured = FALSE,
            !.lookup = "idle"]
Resolving(d) == [Reset(d) EXCEPT !.explaining = TRUE, !.plan = None, !.analyze = FALSE]

loadCurrent(d) ==
  IF d.stmt \in Explainable
  THEN detail' = Resolving(d) /\ samples' = More(samples, d.stmt)
  ELSE detail' = Reset(d) /\ UNCHANGED samples

drillStatement(st) ==
  /\ detail.stmt = None /\ loadCurrent([Closed EXCEPT !.stmt = st])
  /\ UNCHANGED <<values, busy, lookups, plans>>

Refresh ==
  /\ detail.stmt # None /\ ~values.open /\ loadCurrent(detail)
  /\ UNCHANGED <<values, busy, lookups, plans>>

handleStatementAnalyze ==
  /\ detail.stmt \in ReadOnly /\ ~values.open /\ ~detail.explaining /\ detail.sample # None
  /\ detail' = [detail EXCEPT !.explaining = TRUE, !.plan = None, !.analyze = TRUE]
  /\ plans' = More(plans, [of |-> detail.stmt, call |-> detail.sample, analyze |-> TRUE,
                           by |-> "detail"])
  /\ UNCHANGED <<values, busy, samples, lookups>>

Params ==
  /\ detail.captured /\ ~values.open
  /\ values' = [NoValues EXCEPT !.open = TRUE, !.sample = detail.sample]
  /\ UNCHANGED <<detail, busy, samples, lookups, plans>>

(* sampleAnalyzeQuery: a captured value for $1, or the sample call.        *)
handleSampleAnalyze ==
  /\ detail.stmt \in ReadOnly /\ values.open /\ ~values.explaining
  /\ \E c \in IF detail.stmt \in Single THEN Calls ELSE {values.sample} \ {None} :
       plans' = More(plans, [of |-> detail.stmt, call |-> c, analyze |-> TRUE, by |-> "values"])
  /\ values' = [values EXCEPT !.explaining = TRUE, !.plan = None]
  /\ UNCHANGED <<detail, busy, samples, lookups>>

Back ==
  /\ detail.stmt # None
  /\ IF values.open THEN UNCHANGED detail ELSE detail' = Closed
  /\ values' = NoValues
  /\ UNCHANGED <<busy, samples, lookups, plans, keys>>

-----------------------------------------------------------------------------
(* Replies.                                                                *)

(* Mutant: a search does not look for another one under way.               *)
SearchAnyway(st, b) == busy' = TRUE /\ lookups' = More(lookups, st)

(* lookupLogCallCmd: one search at a time for the whole program.           *)
lookupLogCall(st, b) ==
  IF b THEN busy' = TRUE /\ UNCHANGED lookups
  ELSE busy' = TRUE /\ lookups' = More(lookups, st)

(* What a sample load may report: a call, or none and the log to search.   *)
Sampled(d, st, c, q) ==
  [d EXCEPT !.sample = c, !.of = IF c = None THEN None ELSE st,
            !.source = IF c = None THEN "none" ELSE "qualstats", !.captured = q,
            !.lookup = IF c = None THEN "running" ELSE @]

onStatementSampleLoaded(st) ==
  /\ samples[st] > 0 /\ samples' = Fewer(samples, st)
  /\ IF Matches(st)
     THEN \E c \in Call, q \in {x \in BOOLEAN : x => st \in Captured} :
            /\ detail' = Sampled(detail, st, c, q)
            /\ IF c = None THEN lookupLogCall(detail.stmt, busy) ELSE UNCHANGED <<busy, lookups>>
            /\ plans' = IF detail.explaining THEN More(plans, PlanOf(detail')) ELSE plans
     ELSE UNCHANGED <<detail, busy, lookups, plans>>
  /\ UNCHANGED <<values, keys>>

(* A logged call replaces the sample and is planned, unless the user asked *)
(* for EXPLAIN ANALYZE.                                                    *)
Logged(d, st, c) ==
  LET f == [d EXCEPT !.lookup = "found", !.sample = c, !.of = st, !.source = "log"]
  IN  IF d.analyze THEN f ELSE [f EXCEPT !.explaining = TRUE, !.plan = None]

(* Mutant: the end of a search for another screen is not passed on.        *)
OtherSearchIgnored(st) ==
  /\ lookups[st] > 0
  /\ IF Matches(st)
     THEN /\ busy' = FALSE /\ lookups' = Fewer(lookups, st)
          /\ \/ /\ \E r \in {"none", "nolog", "err"} : detail' = [detail EXCEPT !.lookup = r]
                /\ UNCHANGED plans
             \/ \E c \in Calls :
                  /\ detail' = Logged(detail, st, c)
                  /\ plans' = IF detail.analyze THEN plans ELSE More(plans, PlanOf(detail'))
     ELSE busy' = FALSE /\ lookups' = Fewer(lookups, st) /\ UNCHANGED <<detail, plans>>
  /\ UNCHANGED <<values, samples, keys>>

(* Mutant: a logged call replaces the sample and is not planned.           *)
LoggedNotPlanned(st) ==
  /\ lookups[st] > 0 /\ busy' = FALSE /\ lookups' = Fewer(lookups, st)
  /\ IF Matches(st) THEN \E c \in Calls : detail' = Logged(detail, st, c) ELSE UNCHANGED detail
  /\ UNCHANGED <<values, plans, samples, keys>>

onStatementLogSampleLoaded(st) ==
  /\ lookups[st] > 0
  /\ IF Matches(st)
     THEN /\ busy' = FALSE /\ lookups' = Fewer(lookups, st)
          /\ \/ /\ \E r \in {"none", "nolog", "err"} : detail' = [detail EXCEPT !.lookup = r]
                /\ UNCHANGED plans
             \/ \E c \in Calls :
                  /\ detail' = Logged(detail, st, c)
                  /\ plans' = IF detail.analyze THEN plans ELSE More(plans, PlanOf(detail'))
     ELSE /\ IF detail.stmt # None /\ detail.lookup = "running"
             THEN busy' = TRUE /\ lookups' = More(Fewer(lookups, st), detail.stmt)
             ELSE busy' = FALSE /\ lookups' = Fewer(lookups, st)
          /\ UNCHANGED <<detail, plans>>
  /\ UNCHANGED <<values, samples, keys>>

(* Mutant: the generic plan may land after the logged call replaced it.    *)
AnyPlan(p) ==
  /\ plans[p] > 0 /\ plans' = Fewer(plans, p)
  /\ detail' = IF Matches(p.of) /\ detail.explaining
               THEN [detail EXCEPT !.explaining = FALSE, !.plan = p, !.analyze = p.analyze]
               ELSE detail
  /\ UNCHANGED <<values, busy, samples, lookups, keys>>

(* findExplainTarget: the topmost screen with a plan under way; the plan   *)
(* of a call that is no longer the screen's is dropped.                    *)
onStatementExplainLoaded(p) ==
  /\ plans[p] > 0 /\ plans' = Fewer(plans, p)
  /\ LET mine(s) == Matches(p.of) /\ s.explaining
         runs(s) == p.analyze \/ p.call = s.sample
     IN  CASE mine(values) ->
                /\ values' = IF runs(values) THEN [values EXCEPT !.explaining = FALSE, !.plan = p]
                             ELSE values
                /\ UNCHANGED detail
           [] ~mine(values) /\ mine(detail) ->
                /\ detail' = IF runs(detail)
                             THEN [detail EXCEPT !.explaining = FALSE, !.plan = p,
                                                 !.analyze = p.analyze]
                             ELSE detail
                /\ UNCHANGED values
           [] OTHER -> UNCHANGED <<detail, values>>
  /\ UNCHANGED <<busy, samples, lookups, keys>>

-----------------------------------------------------------------------------
UserKey ==
  \/ Back
  \/ Key /\ \/ \E st \in Statements : drillStatement(st)
            \/ Refresh \/ handleStatementAnalyze \/ Params \/ handleSampleAnalyze

InFlight == {p \in Plan : plans[p] > 0}

Reply ==
  \/ \E st \in Statements : onStatementSampleLoaded(st) \/ onStatementLogSampleLoaded(st)
  \/ \E p \in InFlight : onStatementExplainLoaded(p)

Next == UserKey \/ Reply

Spec == Init /\ [][Next]_vars

(* query() bounds every command, so each has its reply.                    *)
FairSpec ==
  /\ Spec
  /\ \A st \in Statements :
       WF_vars(onStatementSampleLoaded(st)) /\ WF_vars(onStatementLogSampleLoaded(st))
  /\ \A p \in Plan : WF_vars(onStatementExplainLoaded(p))

-----------------------------------------------------------------------------
(* Domains; a source always goes with a call.                              *)
TypeOK ==
  /\ (detail.source = "none") = (detail.sample = None)
  /\ detail \in Detail /\ values \in Values /\ busy \in BOOLEAN
  /\ samples \in [Statements -> Nat] /\ lookups \in [Statements -> Nat]
  /\ plans \in [Plan -> Nat] /\ keys \in 0..MaxKeys

(* Two searches never share the log's parser: one is under way exactly     *)
(* while the flag is up.                                                   *)
OneLookup ==
  IF busy THEN \E st \in Statements : lookups = [s \in Statements |-> IF s = st THEN 1 ELSE 0]
  ELSE lookups = [s \in Statements |-> 0]

(* A screen that waits for the log is not forgotten.                       *)
LookupServed == detail.lookup = "running" => busy

(* A logged call replaces the sample for good: the plan shown under it is  *)
(* not the generic one that was on screen or in flight.                    *)
LoggedPlan ==
  detail.source = "log" /\ detail.plan # None /\ ~detail.plan.analyze =>
    detail.plan.call = detail.sample

(* A spinner of the detail has something on its way that will end it,      *)
(* unless the captured values above it can take its plan.                  *)
ExplainFed ==
  detail.explaining /\ ~(\E st \in Captured : Matches(st)) =>
    \/ \E st \in Statements : Matches(st) /\ samples[st] > 0
    \/ \E p \in InFlight : Matches(p.of) /\ (p.analyze \/ p.call = detail.sample)

(* The plan on the screen is one of the call it is shown under, and one    *)
(* that is awaited is on its way.                                          *)
PlanServed == LoggedPlan /\ ExplainFed

(* The log search of a screen ends.                                        *)
LookupEnds == detail.lookup = "running" ~> detail.lookup # "running"

(* The spinners end, and so does the wait of a screen that is left.        *)
ExplainEnds ==
  \A st \in Statements \ Captured :
    (detail.stmt = st /\ detail.explaining) ~> ~(detail.stmt = st /\ detail.explaining)

(* Neither wait of a detail screen lasts for ever.                         *)
WaitsEnd == LookupEnds /\ ExplainEnds

-----------------------------------------------------------------------------
(* What the repository says and the code does not keep.                    *)

(* "A plan belongs to the sample call it ran on".                          *)
PlanBelongs == detail.plan # None /\ ~detail.plan.analyze => detail.plan.call = detail.sample
=============================================================================
