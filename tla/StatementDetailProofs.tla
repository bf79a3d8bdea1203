------------------------- MODULE StatementDetailProofs -------------------------
(***************************************************************************)
(* The search of the server log: never two at a time, and never none for a *)
(* screen that waits.  The plan: one of the call it is shown under, and on *)
(* its way while it is awaited.  For any statements, texts and calls.      *)
(***************************************************************************)
EXTENDS StatementDetail, TLAPS

(* The searches in flight when only one is, for st.                        *)
Just(st) == [s \in Statements |-> IF s = st THEN 1 ELSE 0]
Nothing  == [s \in Statements |-> 0]

(* Nothing waits without a screen.                                         *)
ClosedQuiet == detail.stmt = None => detail.lookup # "running"

(* OneLookup and LookupServed hold each other up: the end of a search      *)
(* lowers the flag, which is sound only when no screen is left waiting.    *)
IndInv ==
  /\ detail \in Detail /\ busy \in BOOLEAN
  /\ OneLookup /\ LookupServed /\ ClosedQuiet

-----------------------------------------------------------------------------
(* While a search is in flight it is the only one, and the flag is up.     *)
LEMMA TheSearch ==
  ASSUME IndInv, NEW st \in Statements, lookups[st] > 0
  PROVE  busy /\ lookups = Just(st)
  <1>1. busy
    BY DEF IndInv, OneLookup
  <1>2. PICK one \in Statements : lookups = Just(one)
    BY <1>1 DEF IndInv, OneLookup, Just
  <1>3. one = st
    BY <1>2 DEF Just
  <1>4. QED
    BY <1>1, <1>2, <1>3

(* Its end leaves none; the next one after it is again the only one.       *)
LEMMA SearchEnds ==
  ASSUME NEW st \in Statements, NEW next \in Statements
  PROVE  /\ Fewer(Just(st), st) = Nothing
         /\ More(Nothing, next) = Just(next)
  <1>1. Fewer(Just(st), st) = Nothing
    <2>1. Just(st)[st] = 1 /\ \A s \in Statements \ {st} : Just(st)[s] = 0
      BY DEF Just
    <2>2. Fewer(Just(st), st) = [s \in Statements |-> IF s = st THEN 1 - 1 ELSE Just(st)[s]]
      BY <2>1 DEF Fewer, Just
    <2>3. QED
      BY <2>1, <2>2 DEF Nothing
  <1>2. More(Nothing, next) = Just(next)
    BY DEF More, Just, Nothing
  <1>3. QED
    BY <1>1, <1>2

(* A search that is asked for starts unless one is under way.              *)
LEMMA LookupStarts ==
  ASSUME IndInv, NEW st \in Statements, lookupLogCall(st, busy)
  PROVE  busy' = TRUE /\ OneLookup'
  <1>1. CASE busy
    BY <1>1 DEF lookupLogCall, IndInv, OneLookup
  <1>2. CASE ~busy
    <2>1. lookups = Nothing
      BY <1>2 DEF IndInv, OneLookup, Nothing
    <2>2. busy' = TRUE /\ lookups' = Just(st)
      BY <1>2, <2>1, SearchEnds DEF lookupLogCall
    <2>3. QED
      BY <2>2 DEF OneLookup, Just
  <1>3. QED
    BY <1>1, <1>2

-----------------------------------------------------------------------------
(* The detail screen keeps its shape, and waits for the log only as before *)
(* or because the step searches it.                                        *)
LEMMA DetailFields ==
  ASSUME NEW d \in Detail
  PROVE  /\ Reset(d) \in Detail /\ Resolving(d) \in Detail
         /\ Reset(d).lookup = "idle" /\ Resolving(d).lookup = "idle"
  BY DEF Detail, Reset, Resolving, Call, Shown

LEMMA KeysKeep ==
  ASSUME IndInv, UserKey
  PROVE  IndInv'
  <1>1. UNCHANGED <<busy, lookups>>
    BY DEF UserKey, Back, drillStatement, Refresh, handleStatementAnalyze, Params,
           handleSampleAnalyze
  <1>2. OneLookup'
    BY <1>1 DEF IndInv, OneLookup
  <1>3. /\ detail' \in Detail
        /\ detail'.lookup = "idle" \/ (detail'.lookup = detail.lookup /\ detail'.stmt = detail.stmt)
    <2>1. Closed \in Detail /\ Closed.lookup = "idle"
      BY DEF Closed, Detail, Call, Shown
    <2>2. ASSUME NEW d \in Detail, loadCurrent(d)
          PROVE  detail' \in Detail /\ detail'.lookup = "idle"
      BY <2>2, DetailFields DEF loadCurrent
    <2>3. ASSUME NEW st \in Statements, drillStatement(st)
          PROVE  detail' \in Detail /\ detail'.lookup = "idle"
      <3>1. [Closed EXCEPT !.stmt = st] \in Detail
        BY <2>1 DEF Detail
      <3>2. QED
        BY <2>2, <2>3, <3>1 DEF drillStatement
    <2>4. CASE Refresh
      BY <2>2, <2>4 DEF Refresh, IndInv
    <2>5. CASE handleStatementAnalyze
      <3>1. detail' = [detail EXCEPT !.explaining = TRUE, !.plan = None, !.analyze = TRUE]
        BY <2>5 DEF handleStatementAnalyze
      <3>2. QED
        BY <3>1 DEF IndInv, Detail, Shown
    <2>6. CASE Params \/ handleSampleAnalyze
      BY <2>6 DEF Params, handleSampleAnalyze, IndInv
    <2>7. CASE Back
      BY <2>1, <2>7 DEF Back, IndInv
    <2>8. QED
      BY <2>3, <2>4, <2>5, <2>6, <2>7 DEF UserKey
  <1>4. QED
    BY <1>1, <1>2, <1>3 DEF IndInv, LookupServed, ClosedQuiet

(* A sample that comes without a call searches the log for the screen.     *)
LEMMA SampleKeeps ==
  ASSUME IndInv, NEW st \in Statements, onStatementSampleLoaded(st)
  PROVE  IndInv'
  <1>1. CASE ~Matches(st)
    BY <1>1 DEF onStatementSampleLoaded, IndInv, OneLookup, LookupServed, ClosedQuiet
  <1>2. CASE Matches(st)
    <2>1. PICK c \in Call, q \in BOOLEAN :
            /\ detail' = Sampled(detail, st, c, q)
            /\ IF c = None THEN lookupLogCall(detail.stmt, busy) ELSE UNCHANGED <<busy, lookups>>
      BY <1>2 DEF onStatementSampleLoaded
    <2>2. detail \in Detail /\ detail.stmt \in Statements
      BY <1>2 DEF Matches, IndInv, Detail
    <2>3. /\ detail' \in Detail
          /\ detail'.lookup = IF c = None THEN "running" ELSE detail.lookup
          /\ detail'.stmt = detail.stmt /\ detail.stmt # None
      BY <2>1, <2>2, StatementsAssumption DEF Sampled, Detail, Call
    <2>4. CASE c = None
      BY <2>1, <2>2, <2>3, <2>4, LookupStarts DEF IndInv, LookupServed, ClosedQuiet
    <2>5. CASE c # None
      BY <2>1, <2>2, <2>3, <2>5 DEF IndInv, OneLookup, LookupServed, ClosedQuiet
    <2>6. QED
      BY <2>4, <2>5
  <1>3. QED
    BY <1>1, <1>2

(* The end of a search serves its screen, or the one that asked meanwhile. *)
LEMMA SearchKeeps ==
  ASSUME IndInv, NEW st \in Statements, onStatementLogSampleLoaded(st)
  PROVE  IndInv'
  <1>1. busy /\ lookups = Just(st)
    BY TheSearch DEF onStatementLogSampleLoaded
  <1>2. Fewer(lookups, st) = Nothing
    BY <1>1, SearchEnds
  <1>3. CASE Matches(st)
    <2>1. busy' = FALSE /\ lookups' = Nothing
      BY <1>2, <1>3 DEF onStatementLogSampleLoaded
    <2>2. detail' \in Detail /\ detail'.lookup # "running"
      <3>1. CASE \E r \in {"none", "nolog", "err"} : detail' = [detail EXCEPT !.lookup = r]
        BY <3>1 DEF IndInv, Detail
      <3>2. ASSUME NEW c \in Calls, detail' = Logged(detail, st, c)
            PROVE  detail' \in Detail /\ detail'.lookup # "running"
        BY <3>2 DEF IndInv, Detail, Logged, Call, Shown
      <3>3. QED
        BY <1>3, <3>1, <3>2 DEF onStatementLogSampleLoaded
    <2>3. QED
      BY <2>1, <2>2 DEF IndInv, OneLookup, LookupServed, ClosedQuiet, Nothing
  <1>4. CASE ~Matches(st)
    <2>1. detail' = detail
      BY <1>4 DEF onStatementLogSampleLoaded
    <2>2. CASE detail.stmt # None /\ detail.lookup = "running"
      <3>1. detail.stmt \in Statements
        BY <2>2 DEF IndInv, Detail
      <3>2. busy' = TRUE /\ lookups' = Just(detail.stmt)
        BY <1>2, <1>4, <2>2, <3>1, SearchEnds DEF onStatementLogSampleLoaded
      <3>3. QED
        BY <2>1, <2>2, <3>1, <3>2 DEF IndInv, OneLookup, LookupServed, ClosedQuiet, Just
    <2>3. CASE ~(detail.stmt # None /\ detail.lookup = "running")
      <3>1. busy' = FALSE /\ lookups' = Nothing
        BY <1>2, <1>4, <2>3 DEF onStatementLogSampleLoaded
      <3>2. detail.lookup # "running"
        BY <2>3 DEF IndInv, ClosedQuiet
      <3>3. QED
        BY <2>1, <3>1, <3>2 DEF IndInv, OneLookup, LookupServed, ClosedQuiet, Nothing
    <2>4. QED
      BY <2>2, <2>3
  <1>5. QED
    BY <1>3, <1>4

(* A plan has nothing to do with the search.                               *)
LEMMA PlanKeeps ==
  ASSUME IndInv, NEW p \in Plan, onStatementExplainLoaded(p)
  PROVE  IndInv'
  <1>1. UNCHANGED <<busy, lookups>>
    BY DEF onStatementExplainLoaded
  <1>2. \/ detail' = detail
        \/ detail' = [detail EXCEPT !.explaining = FALSE, !.plan = p, !.analyze = p.analyze]
    BY DEF onStatementExplainLoaded
  <1>3. detail' \in Detail /\ detail'.lookup = detail.lookup /\ detail'.stmt = detail.stmt
    BY <1>2 DEF IndInv, Detail, Shown, Plan
  <1>4. QED
    BY <1>1, <1>3 DEF IndInv, OneLookup, LookupServed, ClosedQuiet

-----------------------------------------------------------------------------
LEMMA NextKeeps == IndInv /\ [Next]_vars => IndInv'
  <1> SUFFICES ASSUME IndInv, [Next]_vars PROVE IndInv'
    OBVIOUS
  <1>1. CASE UNCHANGED vars
    BY <1>1 DEF vars, IndInv, OneLookup, LookupServed, ClosedQuiet
  <1>2. CASE UserKey
    BY <1>2, KeysKeep
  <1>3. CASE Reply
    BY <1>3, SampleKeeps, SearchKeeps, PlanKeeps DEF Reply, InFlight
  <1>4. QED
    BY <1>1, <1>2, <1>3 DEF Next

LEMMA InitHolds == Init => IndInv
  <1> SUFFICES ASSUME Init PROVE IndInv
    OBVIOUS
  <1>1. detail \in Detail /\ detail.lookup = "idle"
    BY DEF Init, Closed, Detail, Call, Shown
  <1>2. busy = FALSE /\ lookups = [s \in Statements |-> 0]
    BY DEF Init
  <1>3. QED
    BY <1>1, <1>2 DEF IndInv, OneLookup, LookupServed, ClosedQuiet

(* The log's parser is never shared by two searches, whatever screens are  *)
(* opened, refreshed and left while one runs.                              *)
THEOREM OneSearch == Spec => []OneLookup
  <1>1. IndInv => OneLookup
    BY DEF IndInv
  <1>2. QED
    BY InitHolds, NextKeeps, <1>1, PTL DEF Spec

(* A screen that says it searches the log has a search on its way, its own *)
(* or the one whose end will start it.                                     *)
THEOREM SearchServed == Spec => []LookupServed
  <1>1. IndInv => LookupServed
    BY DEF IndInv
  <1>2. QED
    BY InitHolds, NextKeeps, <1>1, PTL DEF Spec

-----------------------------------------------------------------------------
(* The plans.  A screen without one of the captured statements is the only *)
(* taker of the plans of its text.                                         *)
HasCaptured == \E st \in Captured : Matches(st)

PlanTypes ==
  /\ values \in Values /\ samples \in [Statements -> Nat] /\ plans \in [Plan -> Nat]

(* What is explained, sampled or searched for can be explained.            *)
OnlyExplainable ==
  /\ \A st \in Statements : samples[st] > 0 \/ lookups[st] > 0 => st \in Explainable
  /\ detail.lookup = "running" \/ detail.explaining => detail.stmt \in Explainable

(* The captured values are open only over a statement that may have some.  *)
Shut ==
  /\ detail.captured \/ values.open \/ values.explaining => HasCaptured
  /\ detail.stmt = None => ~detail.explaining /\ ~detail.captured

(* EXPLAIN ANALYZE is over once a plan of its own is shown, and while it   *)
(* is not, its plan is on its way: ExplainFed is not inductive without it, *)
(* for a logged call replaces the sample under the plans in flight.        *)
AnalyzePlan == detail.analyze /\ detail.plan # None => detail.plan.analyze
AnalyzeFed ==
  detail.explaining /\ detail.analyze /\ ~HasCaptured =>
    \E p \in Plan : plans[p] > 0 /\ Matches(p.of) /\ p.analyze

PlanInv ==
  /\ PlanTypes /\ OnlyExplainable /\ Shut
  /\ LoggedPlan /\ AnalyzePlan /\ ExplainFed /\ AnalyzeFed

LEMMA MoreFacts ==
  ASSUME NEW S, NEW f \in [S -> Nat], NEW x \in S
  PROVE  /\ More(f, x) \in [S -> Nat] /\ More(f, x)[x] > 0
         /\ \A y \in S : f[y] > 0 => More(f, x)[y] > 0
         /\ \A y \in S : y # x => More(f, x)[y] = f[y]
  BY DEF More

LEMMA FewerFacts ==
  ASSUME NEW S, NEW f \in [S -> Nat], NEW x \in S, f[x] > 0
  PROVE  /\ Fewer(f, x) \in [S -> Nat]
         /\ \A y \in S : Fewer(f, x)[y] > 0 => f[y] > 0
         /\ \A y \in S : y # x => Fewer(f, x)[y] = f[y]
  BY DEF Fewer

(* A screen left alone keeps what is on its way to it, while nothing on    *)
(* its way is taken.                                                       *)
LEMMA FedStays ==
  ASSUME PlanInv,
         detail'.stmt = detail.stmt, detail'.explaining = detail.explaining,
         detail'.sample = detail.sample, detail'.source = detail.source,
         detail'.plan = detail.plan, detail'.analyze = detail.analyze,
         \A st \in Statements : Matches(st) /\ samples[st] > 0 => samples'[st] > 0,
         \A p \in Plan : Matches(p.of) /\ plans[p] > 0 => plans'[p] > 0
  PROVE  LoggedPlan' /\ AnalyzePlan' /\ ExplainFed' /\ AnalyzeFed'
  <1>1. LoggedPlan' /\ AnalyzePlan'
    BY DEF PlanInv, LoggedPlan, AnalyzePlan
  <1>2. ExplainFed'
    BY DEF PlanInv, ExplainFed, Matches, InFlight
  <1>3. AnalyzeFed'
    BY DEF PlanInv, AnalyzeFed, HasCaptured, Matches
  <1>4. QED
    BY <1>1, <1>2, <1>3

(* A screen without a spinner, and one that is not of a logged call, keep  *)
(* the plans by themselves.                                                *)
LEMMA QuietKeeps ==
  ASSUME ~detail'.explaining, detail'.source = "none",
         detail'.analyze /\ detail'.plan # None => detail'.plan.analyze
  PROVE  LoggedPlan' /\ AnalyzePlan' /\ ExplainFed' /\ AnalyzeFed'
  BY DEF LoggedPlan, AnalyzePlan, ExplainFed, AnalyzeFed

LEMMA LoadFields ==
  ASSUME NEW d \in Detail, loadCurrent(d)
  PROVE  /\ detail' \in Detail /\ detail'.stmt = d.stmt /\ ~detail'.captured
         /\ detail'.source = "none" /\ detail'.lookup = "idle"
         /\ d.stmt \in Explainable =>
              /\ detail'.explaining /\ ~detail'.analyze /\ detail'.plan = None
              /\ samples' = More(samples, d.stmt)
         /\ d.stmt \notin Explainable =>
              /\ detail'.explaining = d.explaining /\ detail'.analyze = d.analyze
              /\ detail'.plan = d.plan /\ samples' = samples
  <1> DEFINE e == Reset(d)
             f == [e EXCEPT !.explaining = TRUE, !.plan = None, !.analyze = FALSE]
  <1>1. /\ e \in Detail /\ e.stmt = d.stmt /\ ~e.captured /\ e.source = "none"
        /\ e.lookup = "idle" /\ e.explaining = d.explaining /\ e.analyze = d.analyze
        /\ e.plan = d.plan
    BY DEF Reset, Detail, Call, Shown
  <1>2. IF d.stmt \in Explainable THEN detail' = f /\ samples' = More(samples, d.stmt)
        ELSE detail' = e /\ samples' = samples
    BY DEF loadCurrent, Resolving
  <1> HIDE DEF e
  <1>3. /\ f \in Detail /\ f.stmt = e.stmt /\ f.captured = e.captured /\ f.source = e.source
        /\ f.lookup = e.lookup /\ f.explaining /\ ~f.analyze /\ f.plan = None
    BY <1>1 DEF Detail, Call, Shown
  <1> HIDE DEF f
  <1>4. CASE d.stmt \in Explainable
    BY <1>1, <1>2, <1>3, <1>4
  <1>5. CASE d.stmt \notin Explainable
    BY <1>1, <1>2, <1>5
  <1>6. QED
    BY <1>4, <1>5

(* Opening and refreshing a screen asks for its sample.                    *)
LEMMA LoadPlans ==
  ASSUME IndInv, PlanInv, UNCHANGED <<lookups, plans>>, NEW d \in Detail, loadCurrent(d),
         d.stmt \in Statements, d.explaining => d.stmt \in Explainable,
         d.analyze /\ d.plan # None => d.plan.analyze,
         values' = values, ~values.open,
         values.explaining => HasCaptured'
  PROVE  PlanInv'
  <1>1. /\ detail' \in Detail /\ detail'.stmt = d.stmt /\ ~detail'.captured
        /\ detail'.source = "none" /\ detail'.lookup = "idle"
        /\ d.stmt \in Explainable =>
             /\ detail'.explaining /\ ~detail'.analyze /\ detail'.plan = None
             /\ samples' = More(samples, d.stmt)
        /\ d.stmt \notin Explainable =>
             /\ detail'.explaining = d.explaining /\ detail'.analyze = d.analyze
             /\ detail'.plan = d.plan /\ samples' = samples
    BY LoadFields
  <1>2. samples \in [Statements -> Nat] /\ values \in Values /\ plans \in [Plan -> Nat]
    BY DEF PlanInv, PlanTypes
  <1>3. d.stmt # None
    BY StatementsAssumption
  <1>4. Shut'
    BY <1>1, <1>3 DEF Shut
  <1>5. CASE d.stmt \in Explainable
    <2>1. /\ samples' \in [Statements -> Nat] /\ samples'[d.stmt] > 0
          /\ \A st \in Statements : st # d.stmt => samples'[st] = samples[st]
      BY <1>1, <1>2, <1>5, MoreFacts
    <2>2. OnlyExplainable'
      BY <1>1, <1>5, <2>1 DEF PlanInv, OnlyExplainable
    <2>3. \E st \in Statements : Matches(st)' /\ samples'[st] > 0
      BY <1>1, <1>3, <2>1 DEF Matches
    <2>4. LoggedPlan' /\ AnalyzePlan' /\ ExplainFed' /\ AnalyzeFed'
      BY <1>1, <1>5, <2>3 DEF LoggedPlan, AnalyzePlan, ExplainFed, AnalyzeFed
    <2>5. QED
      BY <1>2, <1>4, <2>1, <2>2, <2>4 DEF PlanInv, PlanTypes
  <1>6. CASE d.stmt \notin Explainable
    <2>1. ~detail'.explaining /\ (detail'.analyze /\ detail'.plan # None => detail'.plan.analyze)
      BY <1>1, <1>6
    <2>2. LoggedPlan' /\ AnalyzePlan' /\ ExplainFed' /\ AnalyzeFed'
      BY <1>1, <2>1, QuietKeeps
    <2>3. OnlyExplainable'
      BY <1>1, <1>6, <2>1 DEF PlanInv, OnlyExplainable
    <2>4. QED
      BY <1>1, <1>2, <1>4, <1>6, <2>2, <2>3 DEF PlanInv, PlanTypes
  <1>7. QED
    BY <1>5, <1>6

LEMMA OpenPlans ==
  ASSUME IndInv, PlanInv, (\E st \in Statements : drillStatement(st)) \/ Refresh
  PROVE  PlanInv'
  <1>1. UNCHANGED <<values, lookups, plans>>
    BY DEF drillStatement, Refresh
  <1>2. ASSUME NEW st \in Statements, drillStatement(st) PROVE PlanInv'
    <2> DEFINE d == [Closed EXCEPT !.stmt = st]
    <2>1. /\ d \in Detail /\ d.stmt = st /\ ~d.explaining /\ ~d.analyze
      BY DEF Closed, Detail, Call, Shown
    <2>2. loadCurrent(d) /\ detail.stmt = None
      BY <1>2 DEF drillStatement
    <2> HIDE DEF d
    <2>3. ~HasCaptured
      BY <2>2 DEF HasCaptured, Matches
    <2>4. ~values.open /\ ~values.explaining
      BY <2>3 DEF PlanInv, Shut
    <2>5. QED
      BY <1>1, <2>1, <2>2, <2>4, LoadPlans
  <1>3. CASE Refresh
    <2>1. /\ detail \in Detail /\ detail.stmt \in Statements /\ loadCurrent(detail)
          /\ ~values.open
      BY <1>3 DEF Refresh, IndInv, Detail
    <2>2. detail'.stmt = detail.stmt
      BY <2>1, LoadFields
    <2>3. values.explaining => HasCaptured'
      BY <2>2 DEF PlanInv, Shut, HasCaptured, Matches
    <2>4. detail.explaining => detail.stmt \in Explainable
      BY DEF PlanInv, OnlyExplainable
    <2>5. detail.analyze /\ detail.plan # None => detail.plan.analyze
      BY DEF PlanInv, AnalyzePlan
    <2>6. QED
      BY <1>1, <2>1, <2>3, <2>4, <2>5, LoadPlans
  <1>4. QED
    BY <1>2, <1>3

(* EXPLAIN ANALYZE asks for its plan.                                      *)
LEMMA AnalyzePlans ==
  ASSUME IndInv, PlanInv, handleStatementAnalyze
  PROVE  PlanInv'
  <1>1. /\ detail.stmt \in ReadOnly /\ UNCHANGED <<values, samples, lookups>>
        /\ detail' = [detail EXCEPT !.explaining = TRUE, !.plan = None, !.analyze = TRUE]
    BY DEF handleStatementAnalyze
  <1>2. detail \in Detail /\ detail.stmt \in Statements /\ detail.stmt \in Explainable
    BY <1>1, StatementsAssumption DEF IndInv
  <1>3. /\ detail'.stmt = detail.stmt /\ detail'.explaining /\ detail'.analyze
        /\ detail'.plan = None /\ detail'.lookup = detail.lookup
        /\ detail'.captured = detail.captured
    BY <1>1, <1>2 DEF Detail
  <1>4. PICK p \in Plan : p.of = detail.stmt /\ p.analyze /\ plans' = More(plans, p)
    BY <1>2 DEF handleStatementAnalyze, Plan, Detail
  <1>5. plans' \in [Plan -> Nat] /\ plans'[p] > 0
    BY <1>4, MoreFacts DEF PlanInv, PlanTypes
  <1>6. Matches(p.of)'
    BY <1>2, <1>3, <1>4, StatementsAssumption DEF Matches
  <1>7. ExplainFed' /\ AnalyzeFed'
    BY <1>4, <1>5, <1>6 DEF ExplainFed, AnalyzeFed, InFlight
  <1>8. LoggedPlan' /\ AnalyzePlan'
    BY <1>3 DEF LoggedPlan, AnalyzePlan
  <1>9. OnlyExplainable'
    BY <1>1, <1>2, <1>3 DEF PlanInv, OnlyExplainable
  <1>10. Shut'
    BY <1>1, <1>2, <1>3, StatementsAssumption DEF PlanInv, Shut, HasCaptured, Matches
  <1>11. QED
    BY <1>1, <1>5, <1>7, <1>8, <1>9, <1>10 DEF PlanInv, PlanTypes

(* The captured values, and Back.                                          *)
LEMMA ValuesPlans ==
  ASSUME IndInv, PlanInv, Params \/ handleSampleAnalyze \/ Back
  PROVE  PlanInv'
  <1>0. UNCHANGED <<samples, lookups>> /\ detail \in Detail /\ values \in Values
        /\ plans \in [Plan -> Nat]
    BY DEF Params, handleSampleAnalyze, Back, IndInv, PlanInv, PlanTypes
  <1>1. CASE Params
    <2>1. /\ values' = [NoValues EXCEPT !.open = TRUE, !.sample = detail.sample]
          /\ UNCHANGED <<detail, plans>> /\ detail.captured
      BY <1>1 DEF Params
    <2>2. values' \in Values
      BY <1>0, <2>1 DEF Values, NoValues, Detail, Call, Shown
    <2>3. Shut'
      BY <2>1 DEF PlanInv, Shut, HasCaptured, Matches
    <2>4. LoggedPlan' /\ AnalyzePlan' /\ ExplainFed' /\ AnalyzeFed'
      BY <1>0, <2>1, FedStays
    <2>5. QED
      BY <1>0, <2>1, <2>2, <2>3, <2>4 DEF PlanInv, PlanTypes, OnlyExplainable
  <1>2. CASE handleSampleAnalyze
    <2>1. PICK c \in IF detail.stmt \in Single THEN Calls ELSE {values.sample} \ {None} :
            plans' = More(plans, [of |-> detail.stmt, call |-> c,
                                  analyze |-> TRUE, by |-> "values"])
      BY <1>2 DEF handleSampleAnalyze
    <2>2. /\ values' = [values EXCEPT !.explaining = TRUE, !.plan = None] /\ values.open
          /\ detail' = detail /\ detail.stmt \in Statements
      BY <1>2, StatementsAssumption DEF handleSampleAnalyze
    <2>3. values' \in Values
      BY <1>0, <2>2 DEF Values, Shown
    <2> DEFINE p == [of |-> detail.stmt, call |-> c, analyze |-> TRUE, by |-> "values"]
    <2>4. p \in Plan
      BY <1>0, <2>2 DEF Plan, Values, Call
    <2>5. plans' = More(plans, p)
      BY <2>1
    <2> HIDE DEF p
    <2>6. plans' \in [Plan -> Nat] /\ \A r \in Plan : plans[r] > 0 => plans'[r] > 0
      BY <1>0, <2>4, <2>5, MoreFacts
    <2>7. LoggedPlan' /\ AnalyzePlan' /\ ExplainFed' /\ AnalyzeFed'
      BY <1>0, <2>2, <2>6, FedStays
    <2>8. Shut'
      BY <2>2 DEF PlanInv, Shut, HasCaptured, Matches
    <2>9. QED
      BY <1>0, <2>2, <2>3, <2>6, <2>7, <2>8 DEF PlanInv, PlanTypes, OnlyExplainable
  <1>3. CASE Back
    <2>1. /\ values' = NoValues /\ plans' = plans
          /\ (values.open /\ detail' = detail) \/ detail' = Closed
      BY <1>3 DEF Back
    <2>2. values' \in Values /\ ~values'.open /\ ~values'.explaining
      BY <2>1 DEF Values, NoValues, Call, Shown
    <2>3. CASE detail' = detail
      <3>1. LoggedPlan' /\ AnalyzePlan' /\ ExplainFed' /\ AnalyzeFed'
        BY <1>0, <2>1, <2>3, FedStays
      <3>2. Shut'
        BY <2>2, <2>3 DEF PlanInv, Shut, HasCaptured, Matches
      <3>3. QED
        BY <1>0, <2>1, <2>2, <2>3, <3>1, <3>2 DEF PlanInv, PlanTypes, OnlyExplainable
    <2>4. CASE detail' = Closed
      <3>1. /\ ~detail'.explaining /\ ~detail'.captured /\ ~detail'.analyze
            /\ detail'.source = "none" /\ detail'.lookup = "idle"
        BY <2>4 DEF Closed
      <3>2. LoggedPlan' /\ AnalyzePlan' /\ ExplainFed' /\ AnalyzeFed'
        BY <3>1, QuietKeeps
      <3>3. QED
        BY <1>0, <2>1, <2>2, <3>1, <3>2 DEF PlanInv, PlanTypes, OnlyExplainable, Shut
    <2>5. QED
      BY <2>1, <2>3, <2>4
  <1>4. QED
    BY <1>1, <1>2, <1>3

LEMMA PlanOfFields ==
  ASSUME NEW d, NEW st \in Statements, NEW c \in Call, d.stmt = st, d.sample = c
  PROVE  PlanOf(d) \in Plan /\ PlanOf(d).of = st /\ PlanOf(d).call = c
  BY DEF PlanOf, Plan

LEMMA SampledFields ==
  ASSUME NEW d \in Detail, NEW st \in Statements, NEW c \in Call, NEW q \in BOOLEAN
  PROVE  /\ Sampled(d, st, c, q) \in Detail /\ Sampled(d, st, c, q).stmt = d.stmt
         /\ Sampled(d, st, c, q).sample = c /\ Sampled(d, st, c, q).source # "log"
         /\ Sampled(d, st, c, q).captured = q /\ Sampled(d, st, c, q).explaining = d.explaining
         /\ Sampled(d, st, c, q).plan = d.plan /\ Sampled(d, st, c, q).analyze = d.analyze
  <1> DEFINE of     == IF c = None THEN None ELSE st
             source == IF c = None THEN "none" ELSE "qualstats"
             lookup == IF c = None THEN "running" ELSE d.lookup
  <1>1. /\ of \in Statements \cup {None} /\ source \in {"none", "qualstats"}
        /\ lookup \in {"idle", "running", "none", "nolog", "err", "found"}
    BY DEF Detail
  <1>2. Sampled(d, st, c, q) = [d EXCEPT !.sample = c, !.of = of, !.source = source,
                                         !.captured = q, !.lookup = lookup]
    BY DEF Sampled
  <1> HIDE DEF of, source, lookup
  <1>3. QED
    BY <1>1, <1>2 DEF Detail

(* A sample call asks for the plan of the screen that waits, or, without   *)
(* one, searches the log.                                                  *)
LEMMA SamplePlans ==
  ASSUME IndInv, PlanInv, NEW st \in Statements, onStatementSampleLoaded(st)
  PROVE  PlanInv'
  <1>1. /\ samples[st] > 0 /\ samples' = Fewer(samples, st) /\ values' = values
        /\ detail \in Detail /\ values \in Values /\ plans \in [Plan -> Nat]
        /\ samples \in [Statements -> Nat] /\ st \in Explainable
    BY DEF onStatementSampleLoaded, IndInv, PlanInv, PlanTypes, OnlyExplainable
  <1>2. /\ samples' \in [Statements -> Nat]
        /\ \A s \in Statements : samples'[s] > 0 => samples[s] > 0
        /\ \A s \in Statements : s # st => samples'[s] = samples[s]
    BY <1>1, FewerFacts
  <1>3. CASE ~Matches(st)
    <2>1. UNCHANGED <<detail, busy, lookups, plans>>
      BY <1>3 DEF onStatementSampleLoaded
    <2>2. LoggedPlan' /\ AnalyzePlan' /\ ExplainFed' /\ AnalyzeFed'
      BY <1>2, <1>3, <2>1, FedStays
    <2>3. OnlyExplainable' /\ Shut'
      BY <1>1, <1>2, <2>1 DEF PlanInv, OnlyExplainable, Shut, HasCaptured, Matches
    <2>4. QED
      BY <1>1, <1>2, <2>1, <2>2, <2>3 DEF PlanInv, PlanTypes
  <1>4. CASE Matches(st)
    <2>1. PICK c \in Call, q \in BOOLEAN :
            /\ q => st \in Captured
            /\ detail' = Sampled(detail, st, c, q)
            /\ IF c = None THEN lookupLogCall(detail.stmt, busy) ELSE UNCHANGED <<busy, lookups>>
            /\ plans' = IF detail.explaining THEN More(plans, PlanOf(detail')) ELSE plans
      BY <1>4 DEF onStatementSampleLoaded
    <2>2. /\ detail' \in Detail /\ detail'.stmt = detail.stmt /\ detail'.sample = c
          /\ detail'.source # "log" /\ detail'.captured = q
          /\ detail'.explaining = detail.explaining
          /\ detail'.plan = detail.plan /\ detail'.analyze = detail.analyze
      BY <1>1, <2>1, SampledFields
    <2>3. detail.stmt \in Statements /\ detail.stmt # None /\ detail.stmt \in Explainable
      BY <1>1, <1>4, StatementsAssumption DEF Matches, Detail
    <2>4. PICK p \in Plan : p = PlanOf(detail') /\ p.of = detail.stmt /\ p.call = c
      BY <2>2, <2>3, PlanOfFields
    <2>5. /\ plans' \in [Plan -> Nat] /\ \A r \in Plan : plans[r] > 0 => plans'[r] > 0
          /\ detail.explaining => plans'[p] > 0
      <3>1. CASE detail.explaining
        <4>1. plans' = More(plans, p)
          BY <2>1, <2>4, <3>1
        <4>2. QED
          BY <1>1, <4>1, MoreFacts
      <3>2. CASE ~detail.explaining
        BY <1>1, <2>1, <3>2
      <3>3. QED
        BY <3>1, <3>2
    <2>6. LoggedPlan' /\ AnalyzePlan'
      BY <2>2 DEF LoggedPlan, PlanInv, AnalyzePlan
    <2>7. ExplainFed'
      BY <2>2, <2>3, <2>4, <2>5 DEF ExplainFed, InFlight, Matches
    <2>8. AnalyzeFed'
      BY <2>2, <2>5 DEF PlanInv, AnalyzeFed, HasCaptured, Matches
    <2>9. \A s \in Statements : lookups'[s] > 0 => s \in Explainable
      <3>1. lookups' = lookups \/ lookups' = Just(detail.stmt)
        <4>1. lookups' = lookups \/ (~busy /\ lookups' = More(lookups, detail.stmt))
          BY <2>1 DEF lookupLogCall
        <4>2. ~busy => lookups = Nothing
          BY DEF IndInv, OneLookup, Nothing
        <4>3. QED
          BY <2>3, <4>1, <4>2, SearchEnds
      <3>2. QED
        BY <2>3, <3>1 DEF PlanInv, OnlyExplainable, Just
    <2>10. OnlyExplainable'
      BY <1>2, <2>2, <2>3, <2>9 DEF PlanInv, OnlyExplainable
    <2>11. Shut'
      <3>1. q => HasCaptured
        BY <1>4, <2>1 DEF HasCaptured
      <3>2. HasCaptured' = HasCaptured
        BY <2>2 DEF HasCaptured, Matches
      <3>3. QED
        BY <1>1, <2>2, <2>3, <3>1, <3>2 DEF PlanInv, Shut
    <2>12. QED
      BY <1>1, <1>2, <2>5, <2>6, <2>7, <2>8, <2>10, <2>11 DEF PlanInv, PlanTypes
  <1>5. QED
    BY <1>3, <1>4

(* A logged call asks for its plan, or leaves EXPLAIN ANALYZE to come.     *)
LEMMA SearchPlans ==
  ASSUME IndInv, PlanInv, NEW st \in Statements, onStatementLogSampleLoaded(st)
  PROVE  PlanInv'
  <1>1. /\ lookups[st] > 0 /\ UNCHANGED <<values, samples>> /\ detail \in Detail
        /\ plans \in [Plan -> Nat] /\ st \in Explainable
    BY DEF onStatementLogSampleLoaded, IndInv, PlanInv, PlanTypes, OnlyExplainable
  <1>2. Fewer(lookups, st) = Nothing
    BY <1>1, TheSearch, SearchEnds
  <1>3. CASE ~Matches(st)
    <2>1. UNCHANGED <<detail, plans>>
      BY <1>3 DEF onStatementLogSampleLoaded
    <2>2. LoggedPlan' /\ AnalyzePlan' /\ ExplainFed' /\ AnalyzeFed'
      BY <1>1, <2>1, FedStays
    <2>3. lookups' = Nothing
            \/ (detail.lookup = "running" /\ detail.stmt # None
                  /\ lookups' = More(Nothing, detail.stmt))
      BY <1>2, <1>3 DEF onStatementLogSampleLoaded
    <2>4. \A s \in Statements : lookups'[s] > 0 => s \in Explainable
      <3>1. CASE lookups' = Nothing
        BY <3>1 DEF Nothing
      <3>2. CASE /\ detail.lookup = "running" /\ detail.stmt # None
                 /\ lookups' = More(Nothing, detail.stmt)
        <4>1. detail.stmt \in Statements /\ detail.stmt \in Explainable
          BY <1>1, <3>2 DEF PlanInv, OnlyExplainable, Detail
        <4>2. lookups' = Just(detail.stmt)
          BY <3>2, <4>1, SearchEnds
        <4>3. QED
          BY <4>1, <4>2 DEF Just
      <3>3. QED
        BY <2>3, <3>1, <3>2
    <2>5. OnlyExplainable' /\ Shut'
      BY <1>1, <2>1, <2>4 DEF PlanInv, OnlyExplainable, Shut, HasCaptured, Matches
    <2>6. QED
      BY <1>1, <2>1, <2>2, <2>5 DEF PlanInv, PlanTypes
  <1>4. CASE Matches(st)
    <2>1. detail.stmt \in Statements /\ detail.stmt # None /\ detail.stmt \in Explainable
      BY <1>1, <1>4, StatementsAssumption DEF Matches, Detail
    <2>2. \A s \in Statements : ~(lookups'[s] > 0)
      BY <1>2, <1>4 DEF onStatementLogSampleLoaded, Nothing
    <2>3. ASSUME NEW r \in {"none", "nolog", "err"}, detail' = [detail EXCEPT !.lookup = r],
                 plans' = plans
          PROVE  PlanInv'
      <3>1. /\ detail'.stmt = detail.stmt /\ detail'.explaining = detail.explaining
            /\ detail'.sample = detail.sample /\ detail'.source = detail.source
            /\ detail'.plan = detail.plan /\ detail'.analyze = detail.analyze
            /\ detail'.captured = detail.captured /\ detail'.lookup = r
        BY <1>1, <2>3 DEF Detail
      <3>2. LoggedPlan' /\ AnalyzePlan' /\ ExplainFed' /\ AnalyzeFed'
        BY <1>1, <2>3, <3>1, FedStays
      <3>3. OnlyExplainable' /\ Shut'
        BY <1>1, <2>1, <2>2, <3>1 DEF PlanInv, OnlyExplainable, Shut, HasCaptured, Matches
      <3>4. QED
        BY <1>1, <2>3, <3>2, <3>3 DEF PlanInv, PlanTypes
    <2>4. ASSUME NEW c \in Calls, detail' = Logged(detail, st, c),
                 plans' = IF detail.analyze THEN plans ELSE More(plans, PlanOf(detail'))
          PROVE  PlanInv'
      <3> DEFINE f == [detail EXCEPT !.lookup = "found", !.sample = c, !.of = st,
                                     !.source = "log"]
      <3>1. /\ f \in Detail /\ f.stmt = detail.stmt /\ f.sample = c /\ f.source = "log"
            /\ f.lookup = "found" /\ f.captured = detail.captured
            /\ f.explaining = detail.explaining /\ f.plan = detail.plan
            /\ f.analyze = detail.analyze
        BY <1>1 DEF Detail, Call
      <3>2. detail' = IF detail.analyze THEN f ELSE [f EXCEPT !.explaining = TRUE, !.plan = None]
        BY <2>4, <3>1 DEF Logged
      <3> HIDE DEF f
      <3>3. /\ detail' \in Detail /\ detail'.stmt = detail.stmt /\ detail'.sample = c
            /\ detail'.lookup = "found" /\ detail'.captured = detail.captured
            /\ detail'.analyze = detail.analyze
            /\ IF detail.analyze
               THEN detail'.explaining = detail.explaining /\ detail'.plan = detail.plan
               ELSE detail'.explaining /\ detail'.plan = None
        <4>1. CASE detail.analyze
          BY <3>1, <3>2, <4>1
        <4>2. CASE ~detail.analyze
          BY <3>1, <3>2, <4>2 DEF Detail, Shown
        <4>3. QED
          BY <4>1, <4>2
      <3>4. PICK p \in Plan : p = PlanOf(detail') /\ p.of = detail.stmt /\ p.call = c
        BY <2>1, <3>3, PlanOfFields DEF Call
      <3>5. HasCaptured' = HasCaptured
        BY <3>3 DEF HasCaptured, Matches
      <3>6. OnlyExplainable' /\ Shut'
        BY <1>1, <2>1, <2>2, <3>3, <3>5 DEF PlanInv, OnlyExplainable, Shut
      <3>7. CASE detail.analyze
        <4>1. plans' = plans /\ detail'.explaining = detail.explaining
              /\ detail'.plan = detail.plan
          BY <2>4, <3>3, <3>7
        <4>2. LoggedPlan' /\ AnalyzePlan'
          BY <3>3, <3>7, <4>1 DEF LoggedPlan, PlanInv, AnalyzePlan
        <4>3. ExplainFed' /\ AnalyzeFed'
          <5>1. AnalyzeFed'
            BY <3>3, <3>5, <4>1 DEF PlanInv, AnalyzeFed, Matches
          <5>2. ExplainFed'
            BY <3>3, <3>5, <3>7, <4>1 DEF PlanInv, AnalyzeFed, ExplainFed, Matches, InFlight,
                                          HasCaptured
          <5>3. QED
            BY <5>1, <5>2
        <4>4. QED
          BY <1>1, <3>6, <4>1, <4>2, <4>3 DEF PlanInv, PlanTypes
      <3>8. CASE ~detail.analyze
        <4>1. plans' = More(plans, p) /\ detail'.plan = None /\ ~detail'.analyze
          BY <2>4, <3>3, <3>4, <3>8
        <4>2. plans' \in [Plan -> Nat] /\ plans'[p] > 0
          BY <1>1, <4>1, MoreFacts
        <4>3. LoggedPlan' /\ AnalyzePlan' /\ AnalyzeFed'
          BY <4>1 DEF LoggedPlan, AnalyzePlan, AnalyzeFed
        <4>4. ExplainFed'
          BY <2>1, <3>3, <3>4, <4>2 DEF ExplainFed, InFlight, Matches
        <4>5. QED
          BY <1>1, <3>6, <4>2, <4>3, <4>4 DEF PlanInv, PlanTypes
      <3>9. QED
        BY <3>7, <3>8
    <2>5. QED
      BY <1>4, <2>3, <2>4 DEF onStatementLogSampleLoaded
  <1>5. QED
    BY <1>3, <1>4

(* A plan ends the wait it was asked for, and one that is dropped was not  *)
(* what the screen waits for.                                              *)
LEMMA ExplainPlans ==
  ASSUME IndInv, PlanInv, NEW p \in Plan, onStatementExplainLoaded(p)
  PROVE  PlanInv'
  <1> DEFINE mine(s) == Matches(p.of) /\ s.explaining
             runs(s) == p.analyze \/ p.call = s.sample
  <1>1. /\ plans[p] > 0 /\ plans' = Fewer(plans, p) /\ UNCHANGED <<samples, lookups>>
        /\ detail \in Detail /\ values \in Values /\ plans \in [Plan -> Nat]
        /\ samples \in [Statements -> Nat]
    BY DEF onStatementExplainLoaded, IndInv, PlanInv, PlanTypes
  <1>2. plans' \in [Plan -> Nat] /\ \A r \in Plan : r # p => plans'[r] = plans[r]
    BY <1>1, FewerFacts
  <1>3. CASE mine(values)
    <2>1. detail' = detail
          /\ (values' = values \/ values' = [values EXCEPT !.explaining = FALSE, !.plan = p])
      BY <1>3 DEF onStatementExplainLoaded
    <2>2. values' \in Values /\ HasCaptured
      BY <1>1, <1>3, <2>1 DEF Values, Shown, PlanInv, Shut
    <2>3. HasCaptured'
      BY <2>1, <2>2 DEF HasCaptured, Matches
    <2>4. LoggedPlan' /\ AnalyzePlan' /\ ExplainFed' /\ AnalyzeFed'
      BY <2>1, <2>3 DEF PlanInv, LoggedPlan, AnalyzePlan, ExplainFed, AnalyzeFed, HasCaptured
    <2>5. OnlyExplainable' /\ Shut'
      BY <1>1, <2>1, <2>3 DEF PlanInv, OnlyExplainable, Shut
    <2>6. QED
      BY <1>1, <1>2, <2>2, <2>4, <2>5 DEF PlanInv, PlanTypes
  <1>4. CASE ~mine(values) /\ mine(detail) /\ runs(detail)
    <2>1. /\ detail' = [detail EXCEPT !.explaining = FALSE, !.plan = p, !.analyze = p.analyze]
          /\ values' = values
      BY <1>4 DEF onStatementExplainLoaded
    <2>2. /\ detail'.stmt = detail.stmt /\ ~detail'.explaining /\ detail'.plan = p
          /\ detail'.analyze = p.analyze /\ detail'.sample = detail.sample
          /\ detail'.lookup = detail.lookup /\ detail'.captured = detail.captured
      BY <1>1, <2>1 DEF Detail
    <2>3. LoggedPlan' /\ AnalyzePlan' /\ ExplainFed' /\ AnalyzeFed'
      BY <1>4, <2>2 DEF LoggedPlan, AnalyzePlan, ExplainFed, AnalyzeFed
    <2>4. OnlyExplainable' /\ Shut'
      BY <1>1, <2>1, <2>2 DEF PlanInv, OnlyExplainable, Shut, HasCaptured, Matches
    <2>5. QED
      BY <1>1, <1>2, <2>1, <2>3, <2>4 DEF PlanInv, PlanTypes
  <1>5. CASE ~mine(values) /\ ~(mine(detail) /\ runs(detail))
    <2>1. UNCHANGED <<detail, values>>
      BY <1>5 DEF onStatementExplainLoaded
    <2>2. detail.explaining /\ Matches(p.of) => ~p.analyze /\ p.call # detail.sample
      BY <1>5
    <2>3. ExplainFed' /\ AnalyzeFed'
      BY <1>1, <1>2, <2>1, <2>2 DEF PlanInv, ExplainFed, AnalyzeFed, HasCaptured, Matches, InFlight
    <2>4. LoggedPlan' /\ AnalyzePlan' /\ OnlyExplainable' /\ Shut'
      BY <1>1, <2>1 DEF PlanInv, LoggedPlan, AnalyzePlan, OnlyExplainable, Shut, HasCaptured,
                        Matches
    <2>5. QED
      BY <1>1, <1>2, <2>1, <2>3, <2>4 DEF PlanInv, PlanTypes
  <1>6. QED
    BY <1>3, <1>4, <1>5

LEMMA PlansKeep == IndInv /\ PlanInv /\ [Next]_vars => PlanInv'
  <1> SUFFICES ASSUME IndInv, PlanInv, [Next]_vars PROVE PlanInv'
    OBVIOUS
  <1>1. CASE UNCHANGED vars
    <2>1. LoggedPlan' /\ AnalyzePlan' /\ ExplainFed' /\ AnalyzeFed'
      BY <1>1, FedStays DEF vars
    <2>2. PlanTypes' /\ OnlyExplainable' /\ Shut'
      BY <1>1 DEF vars, PlanInv, PlanTypes, OnlyExplainable, Shut, HasCaptured, Matches
    <2>3. QED
      BY <2>1, <2>2 DEF PlanInv
  <1>2. CASE UserKey
    BY <1>2, OpenPlans, AnalyzePlans, ValuesPlans DEF UserKey
  <1>3. CASE Reply
    BY <1>3, SamplePlans, SearchPlans, ExplainPlans DEF Reply, InFlight
  <1>4. QED
    BY <1>1, <1>2, <1>3 DEF Next

LEMMA PlansBegin == Init => PlanInv
  <1> SUFFICES ASSUME Init PROVE PlanInv
    OBVIOUS
  <1>1. /\ detail.stmt = None /\ ~detail.explaining /\ ~detail.captured /\ ~detail.analyze
        /\ detail.source = "none" /\ detail.lookup = "idle"
        /\ values \in Values /\ ~values.open /\ ~values.explaining
    BY DEF Init, Closed, NoValues, Values, Call, Shown
  <1>2. PlanTypes /\ OnlyExplainable
    BY <1>1 DEF Init, PlanTypes, OnlyExplainable
  <1>3. QED
    BY <1>1, <1>2 DEF PlanInv, Shut, LoggedPlan, AnalyzePlan, ExplainFed, AnalyzeFed

(* In whatever order samples, logged calls and plans come in, the plan     *)
(* under a logged call is of that call, and a screen that waits for a plan *)
(* has one, or the sample that will ask for it, on its way.                *)
THEOREM PlanIsServed == Spec => []PlanServed
  <1>1. PlanInv => PlanServed
    BY DEF PlanInv, PlanServed
  <1>2. QED
    BY InitHolds, NextKeeps, PlansBegin, PlansKeep, <1>1, PTL DEF Spec
=============================================================================
