-------------------------------- MODULE SqlParams -------------------------------
(* The sample call of a statement of pg_stat_statements: what each of its  *)
(* placeholders is compared with is read off its text, and the constants   *)
(* pg_qualstats captured are matched to it; and the captured whole example *)
(* is trimmed and judged.  A text is a sequence of tokens.                 *)
EXTENDS Integers, Sequences, FiniteSets, SequencesExt, FiniteSetsExt

CONSTANTS
  FromLists,      \* bound: the tables of a statement and their aliases
  Conditions,     \* bound: what its WHERE is made of
  MaxConditions,
  QualSamples,    \* bound: what pg_qualstats may have captured
  MaxCaptures     \* bound: how many, of a statement that is not sorted

VARIABLES
  statement,  \* its FROM list and its conditions
  samples     \* the constants captured, the most frequent first
paramVars == <<statement, samples>>

W(text)      == <<"word", text, "">>
Ref(q, name) == <<"word", name, q>>
Op(text)     == <<"op", text>>
Param(n)     == <<"$", n>>
Open == <<"(">>
Close == <<")">>
Comma == <<",">>
At(toks, i) == IF i \in DOMAIN toks THEN toks[i] ELSE <<"">>
IsWord(t, text) == t[1] = "word" /\ t[2] = text

-----------------------------------------------------------------------------
(* The statement as the server parsed it.  A condition compares a column   *)
(* to some placeholders; one is an EXISTS over a query of its own.         *)
Predicate(cond, k) ==
  [q |-> cond.q, col |-> cond.col,
   op |-> IF cond.form = "between" THEN IF k = 1 THEN ">=" ELSE "<=" ELSE cond.op]
Columns == [a |-> {"x", "y"}, b |-> {"x", "z"}]

Compared(cond, n) ==
  LET ref == Ref(cond.q, cond.col)
  IN CASE cond.form = "compare" -> <<ref, Op(cond.op), Param(n)>>
       [] cond.form = "cast"    -> <<ref, Op("::"), W("text"), Op(cond.op), Param(n)>>
       [] cond.form = "in"      -> <<ref>> \o (IF cond.op = "<>" THEN <<W("not")>> ELSE <<>>) \o <<W("in"), Open, Param(n), Comma, Param(n + 1), Close>>
       [] cond.form = "any"     -> <<ref, Op(cond.op), W("any"), Open, Param(n), Close>>
       [] cond.form = "like"    -> <<ref>> \o (IF cond.op = "!~~" THEN <<W("not")>> ELSE <<>>) \o <<W("like"), Param(n)>>
       [] cond.form = "between" -> <<ref, W("between"), Param(n), W("and"), Param(n + 1)>>
Arity(cond) == IF cond.form \in {"in", "between"} THEN 2 ELSE 1
FromText(from) ==
  <<W("from")>> \o FlattenSeq([k \in DOMAIN from |->
    (IF k = 1 THEN <<>> ELSE <<Comma>>) \o <<W(from[k].rel)>> \o (IF from[k].alias = "" THEN <<>> ELSE <<W(from[k].alias)>>)])
Written(cond, n) ==
  IF cond.form # "exists" THEN Compared(cond, n)
  ELSE <<W("exists"), Open, W("select"), Param(n)>> \o FromText(cond.from) \o <<W("where")>> \o Compared(cond.where, n + 1) \o <<Close>>
Placeholders(cond) == IF cond.form = "exists" THEN 1 + Arity(cond.where) ELSE Arity(cond)

FirstParam(k) == 1 + FoldLeft(LAMBDA sum, c : sum + Placeholders(c), 0, SubSeq(statement.where, 1, k - 1))
StatementText ==
  <<W("select"), W("count")>> \o FromText(statement.from)
    \o FlattenSeq([k \in DOMAIN statement.where |-> <<W(IF k = 1 THEN "where" ELSE "and")>> \o Written(statement.where[k], FirstParam(k))])
    \o (IF statement.sorted THEN <<W("order"), W("by"), W("x")>> ELSE <<>>)
ParamCount == FirstParam(Len(statement.where) + 1) - 1

(* What SQL takes a column for: its qualifier is an alias, or a table that *)
(* has none, and the nearest query that has it counts.                     *)
Visible(from, q, col) ==
  {item \in ToSet(from) : IF q = "" THEN col \in Columns[item.rel] ELSE IF item.alias = "" THEN item.rel = q ELSE item.alias = q}
Table(scopes, q, col) ==
  LET has == {k \in DOMAIN scopes : Visible(scopes[k], q, col) # {}}
  IN IF has = {} THEN "" ELSE (CHOOSE item \in Visible(scopes[Min(has)], q, col) : TRUE).rel
SlotsOf(cond, n, scopes) ==
  {[n |-> n + k - 1, col |-> cond.col, rel |-> Table(scopes, cond.q, cond.col), op |-> Predicate(cond, k).op, array |-> cond.form = "any"] :
     k \in 1..Arity(cond)}
TrueSlots ==
  UNION {LET c == statement.where[k] n == FirstParam(k)
         IN IF c.form = "exists" THEN SlotsOf(c.where, n + 1, <<c.from, statement.from>>) ELSE SlotsOf(c, n, <<statement.from>>) :
           k \in DOMAIN statement.where}
Inert == {FirstParam(k) : k \in {h \in DOMAIN statement.where : statement.where[h].form = "exists"}}

(* A column is of one table, and its qualifier of one item.                *)
Resolves(cond, scopes) ==
  LET has == {k \in DOMAIN scopes : Visible(scopes[k], cond.q, cond.col) # {}}
  IN has # {} /\ Cardinality(Visible(scopes[Min(has)], cond.q, cond.col)) = 1
Legal(cond) ==
  IF cond.form = "exists" THEN Resolves(cond.where, <<cond.from, statement.from>>) ELSE Resolves(cond, <<statement.from>>)

Statements == [from : FromLists, where : {<<>>}, sorted : BOOLEAN]
ParamsInit == statement \in Statements /\ samples = <<>>
AddCondition(cond) ==
  /\ Len(statement.where) < MaxConditions /\ samples = <<>> /\ Legal(cond)
  /\ statement' = [statement EXCEPT !.where = Append(@, cond)]
  /\ UNCHANGED samples
Capture(sample) ==
  /\ Len(samples) < MaxCaptures /\ ~statement.sorted /\ sample \notin ToSet(samples) /\ samples' = Append(samples, sample)
  /\ \E slot \in TrueSlots : slot.rel = sample.rel /\ slot.col = sample.col /\ slot.op = sample.op
  /\ UNCHANGED statement
ParamsNext == (\E cond \in Conditions : AddCondition(cond)) \/ (\E sample \in QualSamples : Capture(sample))

-----------------------------------------------------------------------------
(* The column before a placeholder, and the operator next to it: what may  *)
(* stand between is stepped over.                                          *)
(* The defect of a negation that is stepped over.                          *)
SameOp(op) == op
NegatedOp(op) ==
  CASE op = "=" -> "<>" [] op = "~~" -> "!~~" [] op = ">=" -> "<" [] op = "<=" -> ">" [] OTHER -> op
SlotStop == {"select", "where", "or", "on", "limit", "values", "set", "interval", "extract"}
Found(walk, name, q, op) == [walk EXCEPT !.col = name, !.q = q, !.op = op, !.at = 0]
OrOp(op, other) == IF op = "" THEN other ELSE op

StepBefore(walk, toks) ==
  LET t == toks[walk.at]
      over == [walk EXCEPT !.at = @ - 1]
  IN CASE t[1] \in {"(", ")", ",", "$"} -> over
       [] t[1] = "op" -> [over EXCEPT !.op = IF @ = "" /\ t[2] # "::" THEN t[2] ELSE @]
       [] t[1] = "word" /\ At(toks, walk.at - 1) = Op("::") -> [walk EXCEPT !.at = @ - 2]
       [] IsWord(t, "any") \/ IsWord(t, "all") \/ IsWord(t, "cast") -> over
       [] IsWord(t, "and") -> [over EXCEPT !.and = TRUE]
       [] IsWord(t, "in") -> [over EXCEPT !.op = OrOp(@, "=")]
       [] IsWord(t, "like") -> [over EXCEPT !.op = OrOp(@, "~~")]
       [] IsWord(t, "between") -> [over EXCEPT !.op = OrOp(@, IF walk.and THEN "<=" ELSE ">=")]
       [] IsWord(t, "not") -> [over EXCEPT !.op = NegatedOp(@)]
       [] t[1] = "word" /\ t[2] \in SlotStop -> Found(walk, "", "", "")
       [] OTHER -> IF t[2] \in {"any", "all", "cast", "and", "in", "like", "between", "not"} THEN over ELSE Found(walk, t[2], t[3], walk.op)

SlotBefore(toks, i) ==
  LET walk[k \in 0..i] ==
        IF k = 0 THEN [at |-> i - 1, col |-> "", q |-> "", op |-> "", and |-> FALSE]
        ELSE LET w == walk[k - 1] IN IF w.at < 1 THEN w ELSE StepBefore(w, toks)
  IN walk[i]

-----------------------------------------------------------------------------
(* Each parenthesis is a scope, and a qualifier means the nearest one that *)
(* names it.                                                               *)
Enclosing(toks) ==
  LET enclosing[i \in 0..Len(toks)] ==
        IF i = 0 THEN <<>>
        ELSE LET before == enclosing[i - 1]
                 inside == IF i = 1 THEN 0 ELSE IF toks[i - 1] = Open THEN i - 1 ELSE before[i - 1]
             IN Append(before, IF toks[i] = Close /\ inside # 0 THEN before[inside] ELSE inside)
  IN enclosing[Len(toks)]
Own(toks, group, g) ==
  LET own == SelectSeq([i \in DOMAIN toks |-> i], LAMBDA i : group[i] = g /\ toks[i] # Close)
  IN [k \in DOMAIN own |-> IF toks[own[k]] = Open THEN <<"()">> ELSE toks[own[k]]]

FromStop == {"where", "join", "on", "group", "order", "limit", "union", "for", "set", "values", "select"}
IsName(t) == t[1] = "word" /\ t[2] \notin FromStop
FromItems(own, from) ==
  LET items[p \in from..(Len(own) + 2)] ==
        LET q == IF IsWord(At(own, p + 1), "as") THEN p + 2 ELSE p + 1
            alias == IF IsName(At(own, q)) THEN own[q][2] ELSE ""
            next == IF alias = "" THEN q ELSE q + 1
        IN IF At(own, p) # <<"()">> /\ ~IsName(At(own, p)) THEN <<>>
           ELSE <<[rel |-> IF own[p] = <<"()">> THEN "" ELSE own[p][2], alias |-> alias]>>
                  \o (IF At(own, next) = Comma THEN items[next + 1] ELSE <<>>)
  IN items[from]
Scope(toks, group, g) ==
  LET own == Own(toks, group, g)
  IN FlattenSeq([k \in DOMAIN own |-> IF IsWord(own[k], "from") \/ IsWord(own[k], "join") THEN FromItems(own, k + 1) ELSE <<>>])

Named(items, q) == {k \in DOMAIN items : q \in {items[k].rel, items[k].alias}}
Resolve(toks, group, i, q) ==
  LET resolve[g \in 0..i] ==
        LET items == Scope(toks, group, g)
            outer == IF g = 0 THEN "" ELSE resolve[group[g]]
        IN IF q # "" THEN IF Named(items, q) # {} THEN items[Max(Named(items, q))].rel ELSE outer
           ELSE IF items = <<>> THEN outer ELSE IF Len(items) = 1 THEN items[1].rel ELSE ""
  IN resolve[group[i]]

ParamSlots(toks) ==
  LET group   == Enclosing(toks)
      slot(i) == LET s == SlotBefore(toks, i)
                 IN [n |-> toks[i][2], col |-> s.col, rel |-> Resolve(toks, group, i, s.q), op |-> s.op]
  IN {s \in {slot(i) : i \in {h \in DOMAIN toks : toks[h][1] = "$"}} : s.col # ""}

(* The lone item an EXISTS selects changes nothing.                        *)
InertParams(toks) ==
  {toks[i][2] : i \in {h \in DOMAIN toks : /\ toks[h][1] = "$" /\ IsWord(At(toks, h - 1), "select") /\ At(toks, h - 2) = Open
                                           /\ IsWord(At(toks, h - 3), "exists") /\ IsWord(At(toks, h + 1), "from")}}

-----------------------------------------------------------------------------
(* The constants of one captured combination first, any capture else; one  *)
(* that was cut is of no use, an array as far as its whole elements go.    *)
Accepts(slot, s) ==
  s.col = slot.col /\ (slot.rel = "" \/ s.rel = slot.rel) /\ (slot.op = "" \/ s.op = slot.op)
FirstOf(caps, Test(_)) ==
  LET at == {k \in DOMAIN caps : Test(caps[k])} IN IF at = {} THEN 0 ELSE Min(at)
Frequent(caps, s) == caps[FirstOf(caps, LAMBDA c : c.qual = s.qual)].combo
(* The defect of a constant from whatever combination is the first.        *)
AnyCombo(slot, coherent, s, caps) == Accepts(slot, s)
Usable(slot, coherent, s, caps) == Accepts(slot, s) /\ (coherent => s.combo = Frequent(caps, s))
Pick(slot, coherent, caps) ==
  LET whole == FirstOf(caps, LAMBDA s : Usable(slot, coherent, s, caps) /\ ~s.cut)
      part  == FirstOf(caps, LAMBDA s : Usable(slot, coherent, s, caps) /\ s.array)
  IN IF whole # 0 THEN whole ELSE part
Lit(slot, caps) == IF Pick(slot, TRUE, caps) # 0 THEN Pick(slot, TRUE, caps) ELSE Pick(slot, FALSE, caps)

SameSlot(s, t) == s.col = t.col /\ s.rel = t.rel /\ s.op = t.op
DealtTo(slots, arrays, caps) ==
  LET dealt(slot) == Cardinality({t \in slots : SameSlot(t, slot) /\ t.n <= slot.n})
      value(slot) ==
        LET lit == Lit(slot, caps)
            c   == caps[lit]
        IN IF lit = 0 THEN <<>>
           ELSE IF ~c.array \/ (slot.n \in arrays) THEN c.elems
           ELSE IF dealt(slot) <= Len(c.elems) THEN <<c.elems[dealt(slot)]>> ELSE <<>>
  IN [n \in {s.n : s \in slots} |-> value(CHOOSE s \in slots : s.n = n)]
MapQualConstants(toks, arrays, caps) == DealtTo(ParamSlots(toks), arrays, caps)

ResolveSampleParams(toks, qual) ==
  [n \in 1..ParamCount |-> IF n \in DOMAIN qual /\ qual[n] # <<>> THEN qual[n] ELSE IF n \in InertParams(toks) THEN <<"1">> ELSE <<>>]

(* The highest placeholder first, and only when each has a value.          *)
BuildSampleCall(toks, real) ==
  LET put(text, n) == [i \in DOMAIN text |-> IF text[i] = Param(n) THEN <<"value", real[n]>> ELSE text[i]]
      call[k \in 0..ParamCount] == IF k = 0 THEN toks ELSE put(call[k - 1], ParamCount + 1 - k)
  IN IF \E n \in 1..ParamCount : real[n] = <<>> THEN <<>> ELSE call[ParamCount]

-----------------------------------------------------------------------------
(* A captured example may have the client's boilerplate before it, and be  *)
(* cut off anywhere.                                                       *)
FirstPlaceholder(toks) == LET at == {i \in DOMAIN toks : toks[i][1] = "$"} IN IF at = {} THEN Len(toks) + 1 ELSE Min(at)
StartsAt(text, head) ==
  {i \in 1..(Len(text) - Len(head) + 1) : SubSeq(text, i, i + Len(head) - 1) = head}
TrimQualstatsExample(toks, example) ==
  LET at == StartsAt(example, SubSeq(toks, 1, FirstPlaceholder(toks) - 1))
  IN IF at = {} THEN example ELSE SubSeq(example, Min(at), Len(example))
Nesting(text, n) ==
  Cardinality({i \in 1..n : text[i] = Open}) - Cardinality({i \in 1..n : text[i] = Close})
BalancedDelimiters(text) == Nesting(text, Len(text)) = 0 /\ \A n \in 1..Len(text) : Nesting(text, n) >= 0
TailAfterLastParam(toks) ==
  LET at == {i \in DOMAIN toks : toks[i][1] = "$"} IN IF at = {} THEN <<>> ELSE SubSeq(toks, Max(at) + 1, Len(toks))
(* The defect of an example that is judged by its parentheses alone.       *)
BalancedIsUsable(toks, example) == BalancedDelimiters(example)
QualstatsExampleUsable(toks, example) ==
  /\ \A i \in DOMAIN example : example[i][1] # "$"
  /\ BalancedDelimiters(example)
  /\ IsSuffix(TailAfterLastParam(toks), example)

-----------------------------------------------------------------------------
(* Every value of a sample call was captured for the very column the       *)
(* server compares that placeholder with, of that table, under that        *)
(* operator; and values of one condition that ran together come together.  *)
(* That is for a column on the left of its operator: a placeholder before  *)
(* its column, or in a function of one, is read as of whatever column is   *)
(* written before it.                                                      *)
CapturedFor(slot, value) ==
  \E k \in DOMAIN samples :
    LET s == samples[k]
    IN /\ SameSlot(s, slot) /\ (s.cut => s.array)
       /\ value = s.elems \/ (s.array /\ ~slot.array /\ \E e \in DOMAIN s.elems : value = <<s.elems[e]>>)
Ran(slot, combo) == \E k \in DOMAIN samples : SameSlot(samples[k], slot) /\ samples[k].combo = combo /\ ~samples[k].cut

ValuesRight(slots, real) ==
  LET given == {s \in slots : real[s.n] # <<>>}
  IN /\ \A s \in given : CapturedFor(s, real[s.n])
     /\ (\A s \in slots : Ran(s, samples[1].combo)) =>
          \A s \in given : \E k \in DOMAIN samples : samples[k].combo = samples[1].combo /\ SameSlot(samples[k], s)
                                 /\ (real[s.n] = samples[k].elems \/ \E e \in DOMAIN samples[k].elems : real[s.n] = <<samples[k].elems[e]>>)
AllFilled(call) == \A i \in DOMAIN call : call[i][1] # "$"
CallTrue(toks, slots, real) == ValuesRight(slots, real) /\ AllFilled(BuildSampleCall(toks, real))

SampleValues(toks, slots) ==
  ResolveSampleParams(toks, MapQualConstants(toks, {s.n : s \in {t \in slots : t.array}}, samples))
SampleCallTrue == samples # <<>> => CallTrue(StatementText, TrueSlots, SampleValues(StatementText, TrueSlots))

(* An example that is run is the whole statement: cut off anywhere, or     *)
(* with boilerplate before it, it is not.  A statement with nothing past   *)
(* its last placeholder but parentheses has no end to tell it by.          *)
WholeOrUnusable(toks) ==
  LET whole == [i \in DOMAIN toks |-> IF toks[i][1] = "$" THEN <<"value", <<"1">>>> ELSE toks[i]]
      sent(n) == TrimQualstatsExample(toks, SubSeq(<<W("begin"), <<";">>>> \o whole, 1, n + 2))
  IN /\ QualstatsExampleUsable(toks, sent(Len(whole)))
     /\ \A n \in 1..Len(whole) :
          QualstatsExampleUsable(toks, sent(n)) => sent(n) = whole \/ \A i \in DOMAIN TailAfterLastParam(toks) : TailAfterLastParam(toks)[i] = Close
ExampleWhole == statement.where # <<>> /\ samples = <<>> => WholeOrUnusable(StatementText)

(* A statement that is run or planned for the user is one the server saw.  *)
SampleTrue == SampleCallTrue /\ ExampleWhole
=============================================================================
