--------------------------------- MODULE SqlText --------------------------------
(* A logged statement is read as text: its constants are masked to group   *)
(* it with its other executions, or to find it in pg_stat_statements; the  *)
(* values bound for it are read from the line below it and put back in its *)
(* placeholders.  A text is a sequence of characters, a word and a digit   *)
(* being one of them.                                                      *)
EXTENDS Integers, Sequences, SequencesExt

CONSTANTS
  SqlTokens,     \* bound: the tokens a statement is written with
  MaxSqlTokens   \* bound: how many

VARIABLE sqlTokens  \* the statement logged, as the server lexes it
sqlVars == <<sqlTokens>>

Digits == {"1", "2"}
IdentByte == Digits \cup {"a", "E", "NULL", "IN", "VALUES"}
Blank == {" ", "\n"}

CharAt(sql, i) == IF i \in DOMAIN sql THEN sql[i] ELSE ""
Opens(sql, i, pair) == CharAt(sql, i) = pair[1] /\ CharAt(sql, i + 1) = pair[2]

(* Where a text is next found from a place on; zero when it is not.        *)
Find(sql, from, text) ==
  LET at[i \in from..(Len(sql) + 1)] ==
        IF i + Len(text) - 1 > Len(sql) THEN 0 ELSE IF SubSeq(sql, i, i + Len(text) - 1) = text THEN i ELSE at[i + 1]
  IN IF from > Len(sql) THEN 0 ELSE at[from]
OrEnd(at, sql) == IF at = 0 THEN Len(sql) + 1 ELSE at

-----------------------------------------------------------------------------
(* The scanners share how a quoted text ends: a doubled quote, and in an E *)
(* string what follows a backslash, does not end it; one that is not ended *)
(* runs to the end.                                                        *)
IsEscape(sql, i) == sql[i] = "'" /\ CharAt(sql, i - 1) = "E" /\ CharAt(sql, i - 2) \notin IdentByte

(* The defect of ending at the first quote.                                *)
PastFirstQuote(sql, i) == OrEnd(Find(sql, i + 1, <<sql[i]>>), sql) + 1
PastQuoted(sql, i) ==
  LET past[j \in i..(Len(sql) + 2)] ==
        IF j > Len(sql) THEN Len(sql) + 1
        ELSE IF IsEscape(sql, i) /\ sql[j] = "\\" THEN past[j + 2]
        ELSE IF sql[j] # sql[i] THEN past[j + 1]
        ELSE IF CharAt(sql, j + 1) = sql[i] THEN past[j + 2] ELSE j + 1
  IN past[i + 1]

PastDigits(sql, i) ==
  LET past[j \in i..(Len(sql) + 1)] == IF CharAt(sql, j) \in Digits THEN past[j + 1] ELSE j
  IN past[i]
PastIdent(sql, i) ==
  LET past[j \in i..(Len(sql) + 1)] == IF CharAt(sql, j) \in IdentByte THEN past[j + 1] ELSE j
  IN past[i]

(* $$ ... $$ and $tag$ ... $tag$, of which a tag starts with no digit.     *)
PastDollarQuote(sql, i) ==
  LET j   == PastIdent(sql, i + 1)
      tag == SubSeq(sql, i, j)
      end == Find(sql, j + 1, tag)
  IN IF CharAt(sql, i + 1) \in Digits \/ CharAt(sql, j) # "$" THEN 0
     ELSE IF end = 0 THEN Len(sql) + 1 ELSE end + Len(tag)

-----------------------------------------------------------------------------
(* The values go in the placeholders; what is quoted, a comment or without *)
(* a value stays as it is.                                                 *)
Ordinal(sql, i, j) == IF SubSeq(sql, i + 1, j - 1) = <<"1">> THEN 1 ELSE 2

CopyTo(walk, sql, j) == [walk EXCEPT !.text = @ \o SubSeq(sql, walk.at, j - 1), !.at = j]
Placeholder(walk, sql, vals) ==
  LET j   == PastDigits(sql, walk.at + 1)
      ord == Ordinal(sql, walk.at, j)
  IN IF ord > Len(vals) THEN [CopyTo(walk, sql, j) EXCEPT !.unfilled = @ \cup {ord}]
     ELSE [walk EXCEPT !.text = @ \o vals[ord], !.at = j, !.filled = @ + 1]

WalkParam(walk, sql, vals) ==
  LET i == walk.at
      j == PastDollarQuote(sql, i)
  IN CASE sql[i] \in {"'", "\""} -> CopyTo(walk, sql, PastQuoted(sql, i))
       [] Opens(sql, i, <<"-", "-">>) -> CopyTo(walk, sql, OrEnd(Find(sql, i, <<"\n">>), sql))
       [] Opens(sql, i, <<"/", "*">>) ->
            CopyTo(walk, sql, IF Find(sql, i + 2, <<"*", "/">>) = 0 THEN Len(sql) + 1 ELSE Find(sql, i + 2, <<"*", "/">>) + 2)
       [] sql[i] = "$" /\ CharAt(sql, i + 1) \in Digits -> Placeholder(walk, sql, vals)
       [] sql[i] = "$" /\ CharAt(sql, i + 1) \notin Digits /\ j # 0 -> CopyTo(walk, sql, j)
       [] OTHER -> CopyTo(walk, sql, i + 1)

SubstituteParams(sql, vals) ==
  LET walk[k \in 0..Len(sql)] ==
        IF k = 0 THEN [at |-> 1, text |-> <<>>, filled |-> 0, unfilled |-> {}]
        ELSE LET w == walk[k - 1] IN IF w.at > Len(sql) THEN w ELSE WalkParam(w, sql, vals)
  IN walk[Len(sql)]

-----------------------------------------------------------------------------
(* The normalizer: a literal is masked, blanks are one, a line comment is  *)
(* dropped, and a block comment kept unless it is a call that is looked    *)
(* for, of which placeholders and constants are masked as well.            *)
Panic == <<"panic">>
Mask == <<"$?">>

Emit(norm, text, j) == [norm EXCEPT !.out = @ \o text, !.at = j]
Spaced(out) == IF out = <<>> \/ Last(out) = " " THEN out ELSE Append(out, " ")
Masked(norm, sql, j) ==
  [norm EXCEPT !.out = @ \o Mask, !.at = j, !.literals = Append(@, SubSeq(sql, norm.at, IF j > Len(sql) THEN Len(sql) ELSE j - 1))]

(* The text of an unterminated comment is taken two characters past the    *)
(* end of the statement.                                                   *)
BlockComment(norm, sql, drop) ==
  LET end == Find(sql, norm.at + 2, <<"*", "/">>)
  IN IF drop THEN [norm EXCEPT !.out = Spaced(@), !.at = IF end = 0 THEN Len(sql) + 1 ELSE end + 2]
     ELSE IF end = 0 THEN [norm EXCEPT !.out = Panic, !.at = Len(sql) + 1]
     ELSE Emit(norm, SubSeq(sql, norm.at, end + 1), end + 2)

String(norm, sql) ==
  Masked(IF IsEscape(sql, norm.at) THEN [norm EXCEPT !.out = Front(@)] ELSE norm, sql, PastQuoted(sql, norm.at))

DollarQuoted(norm, sql) ==
  LET j   == Find(sql, norm.at + 1, <<"$">>)
      tag == SubSeq(sql, norm.at, j)
      end == Find(sql, j + 1, tag)
  IN IF j = 0 \/ end = 0 THEN Emit(norm, <<"$">>, norm.at + 1) ELSE Masked(norm, sql, end + Len(tag))

QuotedName(norm, sql) ==
  LET j == Find(sql, norm.at + 1, <<"\"">>)
  IN IF j = 0 THEN Emit(norm, SubSeq(sql, norm.at, Len(sql)), Len(sql) + 1) ELSE Emit(norm, SubSeq(sql, norm.at, j), j + 1)

Word(norm, sql) ==
  LET j == PastIdent(sql, norm.at)
      word == SubSeq(sql, norm.at, j - 1)
  IN Emit(norm, IF word = <<"NULL">> THEN Mask ELSE word, j)

NormalizeNext(norm, sql, call) ==
  LET i == norm.at
      afterWord == CharAt(sql, i - 1) \in IdentByte
      j == PastDigits(sql, i + 1)
  IN CASE Opens(sql, i, <<"/", "*">>) -> BlockComment(norm, sql, call)
       [] Opens(sql, i, <<"-", "-">>) -> [norm EXCEPT !.at = OrEnd(Find(sql, i, <<"\n">>), sql)]
       [] sql[i] = "'" -> String(norm, sql)
       [] sql[i] = "$" /\ CharAt(sql, i + 1) \in Digits ->
            Emit(norm, IF call THEN Mask ELSE <<"$">> \o SubSeq(sql, i + 1, j - 1), j)
       [] sql[i] = "$" /\ CharAt(sql, i + 1) \in (IdentByte \cup {"$"}) \ Digits -> DollarQuoted(norm, sql)
       [] sql[i] = "\"" -> QuotedName(norm, sql)
       [] call /\ sql[i] \in IdentByte \ Digits /\ ~afterWord -> Word(norm, sql)
       [] sql[i] \in Digits /\ ~afterWord -> Masked(norm, sql, j)
       [] sql[i] \in Blank -> [norm EXCEPT !.out = Spaced(@), !.at = i + 1]
       [] OTHER -> Emit(norm, <<sql[i]>>, i + 1)

(* The lists that end a text from a place on, of which any number is one.  *)
PastBlanks(out, i) ==
  LET past[j \in i..(Len(out) + 1)] == IF CharAt(out, j) \in Blank THEN past[j + 1] ELSE j
  IN past[i]
PastValue(out, i) ==
  IF CharAt(out, i) = "$?" THEN i + 1 ELSE IF CharAt(out, i) = "$" /\ CharAt(out, i + 1) \in Digits THEN PastDigits(out, i + 1) ELSE 0
PastValues(out, i) ==
  LET past[j \in i..(Len(out) + 2)] ==
        LET v == PastValue(out, PastBlanks(out, j))
            k == IF v = 0 THEN 0 ELSE PastBlanks(out, v)
        IN IF v = 0 \/ CharAt(out, k) \notin {",", ")"} THEN 0
           ELSE IF CharAt(out, k) = ")" THEN k + 1 ELSE past[k + 1]
  IN past[i]
PastRow(out, i) ==
  LET close == Find(out, i + 1, <<")">>)
  IN IF CharAt(out, i) = "(" /\ close # 0 /\ ~Contains(SubSeq(out, i + 1, close - 1), "(") THEN close + 1 ELSE 0
PastRows(out, i) ==
  LET past[j \in i..(Len(out) + 2)] ==
        LET comma == PastBlanks(out, j)
            row   == IF CharAt(out, comma) = "," THEN PastRow(out, PastBlanks(out, comma + 1)) ELSE 0
        IN IF row = 0 THEN j ELSE past[row]
  IN past[i]

FoldLists(out) ==
  LET fold[i \in 1..(Len(out) + 2)] ==
        LET whole  == CharAt(out, i - 1) \notin IdentByte /\ CharAt(out, i + 1) = " " /\ CharAt(out, i + 2) = "("
            inList == IF whole /\ out[i] = "IN" THEN PastValues(out, i + 3) ELSE 0
            row    == IF whole /\ out[i] = "VALUES" THEN PastRow(out, i + 2) ELSE 0
        IN IF i > Len(out) THEN <<>>
           ELSE IF inList # 0 THEN <<"IN ($?...)">> \o fold[inList]
           ELSE IF row # 0 THEN <<"VALUES (...)">> \o fold[PastRows(out, row)]
           ELSE <<out[i]>> \o fold[i + 1]
  IN fold[1]

Trim(out) ==
  LET shown == {i \in DOMAIN out : out[i] \notin Blank}
  IN SelectSeq([i \in DOMAIN out |-> [at |-> i, char |-> out[i]]],
       LAMBDA c : \E i, j \in shown : i <= c.at /\ c.at <= j)
TrimSpace(out) == LET kept == Trim(out) IN [i \in DOMAIN kept |-> kept[i].char]

Normalized(sql, call) ==
  LET norm[k \in 0..Len(sql)] ==
        IF k = 0 THEN [at |-> 1, out |-> <<>>, literals |-> <<>>]
        ELSE LET n == norm[k - 1] IN IF n.at > Len(sql) THEN n ELSE NormalizeNext(n, sql, call)
  IN norm[Len(sql)]

NormalizeSQL(sql) == FoldLists(TrimSpace(Normalized(sql, FALSE).out))
NormalizeCall(sql) == FoldLists(TrimSpace(Normalized(sql, TRUE).out))
SQLLiterals(sql) == Normalized(sql, FALSE).literals

-----------------------------------------------------------------------------
(* The values of a line "Parameters: $1 = ..., $2 = ...".                  *)
ParamPair(read, list) ==
  LET i   == CHOOSE k \in read.at..(Len(list) + 1) :
               CharAt(list, k) \notin Blank \cup {","} /\ \A h \in read.at..(k - 1) : list[h] \in Blank \cup {","}
      eq  == Find(list, i, <<"=">>)
      v   == PastBlanks(list, eq + 1)
      end == IF CharAt(list, v) = "'" THEN PastQuoted(list, v) ELSE OrEnd(Find(list, v, <<",", " ", "$">>), list)
  IN IF CharAt(list, i) # "$" \/ eq = 0 \/ v > Len(list) THEN [read EXCEPT !.at = Len(list) + 1]
     ELSE [at |-> end, vals |-> Append(read.vals, TrimSpace(SubSeq(list, v, end - 1)))]

ParseParamPairs(list) ==
  LET read[k \in 0..Len(list)] ==
        IF k = 0 THEN [at |-> 1, vals |-> <<>>]
        ELSE LET r == read[k - 1] IN IF r.at > Len(list) THEN r ELSE ParamPair(r, list)
  IN read[Len(list)].vals

-----------------------------------------------------------------------------
(* The server's side: a token is its text, what of it is masked, what      *)
(* stays of it under a mask, and its text where its constants are bound.   *)
Tok(text, literals, shape, bound) == [text |-> text, literals |-> literals, shape |-> shape, bound |-> bound]
Plain(text)   == Tok(text, <<>>, text, text)
Literal(text) == Tok(text, <<text>>, Mask, <<"$", "1">>)

TextOf(tokens)  == FlattenSeq([n \in DOMAIN tokens |-> tokens[n].text])
BoundOf(tokens) == FlattenSeq([n \in DOMAIN tokens |-> tokens[n].bound])

(* Two tokens that would be read as one are not written side by side.      *)
Apart(text, next) ==
  /\ ~(text # <<>> /\ Last(text) \in IdentByte /\ next[1] \in IdentByte \cup {"$"})
  /\ ~(text # <<>> /\ Last(text) = "E" /\ next[1] = "'")
  /\ ~(text # <<>> /\ Last(text) \in {"'", "\""} /\ Last(text) = next[1])

SqlInit == sqlTokens = <<>>
LogToken(token) ==
  /\ Len(sqlTokens) < MaxSqlTokens
  /\ Apart(TextOf(sqlTokens), token.text) /\ Apart(BoundOf(sqlTokens), token.bound)
  /\ sqlTokens' = Append(sqlTokens, token)
SqlNext == \E token \in SqlTokens : LogToken(token)

(* A statement without its constants, blanks as one.                       *)
Shape(tokens) ==
  LET shape[n \in 0..Len(tokens)] ==
        IF n = 0 THEN <<>> ELSE IF tokens[n].shape = <<" ">> THEN Spaced(shape[n - 1]) ELSE shape[n - 1] \o tokens[n].shape
  IN TrimSpace(shape[Len(tokens)])
LiteralsOf(tokens) == FlattenSeq([n \in DOMAIN tokens |-> tokens[n].literals])

FirstValue == <<"'", "a", "'">>
IsParam(token, n) == token.shape = <<"$", n>>
Filled(tokens) ==
  FlattenSeq([n \in DOMAIN tokens |-> IF IsParam(tokens[n], "1") THEN FirstValue ELSE tokens[n].text])

ParamList(vals) ==
  FlattenSeq([n \in DOMAIN vals |->
    (IF n = 1 THEN <<>> ELSE <<",", " ">>) \o <<"$", IF n = 1 THEN "1" ELSE "2", " ", "=", " ">> \o vals[n]])
Bindable(text) == text[1] = "'" /\ ~Contains(text, "\\")

-----------------------------------------------------------------------------
(* Executions of a statement that differ in their constants alone are      *)
(* grouped as one, and no others; a call matches its row whether the       *)
(* client bound its values or wrote them; the values are read back from    *)
(* the line as they were bound, and put into the placeholders and nothing  *)
(* that only looks like one: in a string, a quoted name, a comment.        *)
SqlRead ==
  LET sql == TextOf(sqlTokens)
      put == SubstituteParams(sql, <<FirstValue>>)
      vals == SelectSeq(LiteralsOf(sqlTokens), Bindable)
  IN /\ NormalizeSQL(sql) = Shape(sqlTokens)
     /\ SQLLiterals(sql) = LiteralsOf(sqlTokens)
     /\ NormalizeCall(sql) = NormalizeCall(BoundOf(sqlTokens))
     /\ put.text = Filled(sqlTokens)
     /\ put.unfilled = {n \in {2} : \E k \in DOMAIN sqlTokens : IsParam(sqlTokens[k], "2")}
     /\ ParseParamPairs(ParamList(vals)) = vals

(* A line still being written is read again when it is whole.              *)
TornRead == \A n \in 1..Len(TextOf(sqlTokens)) : Normalized(SubSeq(TextOf(sqlTokens), 1, n), FALSE).out # Panic
=============================================================================
