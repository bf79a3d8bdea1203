-------------------------------- MODULE MCLogs --------------------------------
(* The log analyzer: its live tail, the screens over what it reads, and    *)
(* what is read off the text of a statement, logged or sampled.  A         *)
(* behaviour moves one of them; a session is bounded by what it is to show.*)
EXTENDS LogTail, LogPanes, SqlText, SqlParams

VARIABLE part  \* bound: what moves

Quiet == [torn |-> FALSE, rotates |-> FALSE, seekable |-> TRUE, fails |-> FALSE, pids |-> {1}]

MCLogSessions == {
  [kinds |-> {"message", "detail"}, pids |-> {1, 2}, windows |-> <<0>>, pieces |-> 4, loads |-> 1, reads |-> 2] @@ Quiet,
  [kinds |-> {"message", "detail"}, windows |-> <<0>>, torn |-> TRUE, pieces |-> 4, loads |-> 1, reads |-> 2] @@ Quiet,
  [kinds |-> {"message", "detail"}, windows |-> <<0>>, torn |-> TRUE, fails |-> TRUE, pieces |-> 3, loads |-> 1, reads |-> 2] @@ Quiet,
  [kinds |-> {"message", "more"}, windows |-> <<1>>, pieces |-> 3, loads |-> 2, reads |-> 1] @@ Quiet,
  [kinds |-> {"message", "more"}, windows |-> <<1, 0>>, pieces |-> 2, loads |-> 2, reads |-> 1] @@ Quiet,
  [kinds |-> {"message", "more"}, windows |-> <<1>>, rotates |-> TRUE, pieces |-> 2, loads |-> 2, reads |-> 1] @@ Quiet,
  [kinds |-> {"message", "detail"}, windows |-> <<2>>, rotates |-> TRUE, seekable |-> FALSE, pieces |-> 3, loads |-> 2, reads |-> 1] @@ Quiet,
  [kinds |-> {"plan", "statement"}, windows |-> <<0>>, pieces |-> 3, loads |-> 1, reads |-> 1] @@ Quiet}

(* Two refreshes after a plan and its statement.                           *)
PlanSessions == {[kinds |-> {"plan", "statement"}, windows |-> <<0>>, pieces |-> 3, loads |-> 1, reads |-> 2] @@ Quiet}

(* A log with two executions of one statement and one of another, an error *)
(* that repeats, a line of the pooler, and an attachment without its line. *)
Line(sev, head, text, time) ==
  [sev |-> sev, head |-> head, text |-> text, time |-> time, sql |-> head = "duration", orphan |-> FALSE,
   ms |-> 0, params |-> <<>>]

MCLogLines == <<
  [Line("LOG", "duration", 1, 10) EXCEPT !.ms = 30, !.params = <<1, 2>>],
  Line("ERROR", "message", 2, 11),
  [Line("LOG", "message", 3, 0) EXCEPT !.orphan = TRUE],
  [Line("LOG", "duration", 1, 13) EXCEPT !.ms = 20, !.params = <<0>>],
  [Line("LOG", "duration", 4, 14) EXCEPT !.ms = 40],
  Line("ERROR", "message", 2, 16),
  Line("LOG", "stats", 5, 29),
  Line("ERROR", "message", 2, 30)>>

MCWindows == {<<1, 5>>, <<1, 7>>, <<3, 8>>}

MCBuckets == <<1, 5, 10>>

MCPaneSessions == {
  {"mode", "category", "fold", "move"}, {"pane", "sort", "category"}, {"pane", "filter", "move"},
  {"sort", "move", "mode"}, {"drill", "params", "jump", "move"}, {"drill", "pane", "jump", "filter"}}

(* Statements of what a scanner takes for a quote, a comment, a           *)
(* placeholder or a constant, and of what only looks like one.             *)
Blanks(text) == Tok(text, <<>>, <<" ">>, <<" ">>)
MCSqlTokens == {
  Plain(<<"a">>), Plain(<<"E">>), Plain(<<"\"", "$", "1", "\"">>), Plain(<<"\"", "'", "\"">>), Plain(<<"$", "1">>), Plain(<<"$", "2">>), Plain(<<"(">>),
  Blanks(<<" ">>), Blanks(<<"\n">>), Blanks(<<"-", "-", "'", "$", "1", "\n">>),
  Tok(<<"/", "*", "'", "$", "1", "*", "/">>, <<>>, <<"/", "*", "'", "$", "1", "*", "/">>, <<" ">>),
  Tok(<<"NULL">>, <<>>, <<"NULL">>, <<"$", "1">>),
  Literal(<<"1", "1">>), Literal(<<"'", "'">>), Literal(<<"'", "a", "'", "'", "'">>), Literal(<<"'", ",", " ", "$", "1", "'">>), Tok(<<"E", "'", "\\", "'", "'">>, << <<"'", "\\", "'", "'">> >>, Mask, <<"$", "1">>),
  Literal(<<"$", "$", "'", "$", "$">>), Literal(<<"$", "a", "$", "$", "1", "$", "a", "$">>),
  Tok(<<"IN", " ", "(", "1", ")">>, << <<"1">> >>, <<"IN ($?...)">>, <<"IN", " ", "(", "$", "1", ")">>),
  Tok(<<"IN", " ", "(", "'", ")", "'", ",", " ", "2", ")">>, << <<"'", ")", "'">>, <<"2">> >>, <<"IN ($?...)">>, <<"IN", " ", "(", "$", "1", " ", "/", "*", "a", "*", "/", ")">>),
  Tok(<<"VALUES", " ", "(", "1", ")", ",", " ", "(", "'", "a", "'", ")">>, << <<"1">>, <<"'", "a", "'">> >>, <<"VALUES (...)">>, <<"VALUES", " ", "(", "$", "1", ")">>)}

(* Conditions on tables that share a column, and what was captured of them.*)
Item(rel, alias) == [rel |-> rel, alias |-> alias]
MCFromLists == { <<Item("a", "")>>, <<Item("a", ""), Item("b", "t")>>, <<Item("a", "u"), Item("b", "")>> }
Cond(form, q, col, op) == [form |-> form, q |-> q, col |-> col, op |-> op]
Simple ==
  {Cond("compare", "", "x", "="), Cond("cast", "b", "x", "="), Cond("in", "t", "z", "<>"), Cond("any", "a", "y", "="),
   Cond("like", "a", "y", "!~~"), Cond("between", "a", "x", ">=")}
MCConditions ==
  Simple \cup {[form |-> "exists", from |-> <<Item("b", "u")>>, where |-> w] :
                 w \in {Cond("compare", "", "z", "="), Cond("like", "a", "x", "~~"), Cond("compare", "u", "x", "=")}}
Sample(rel, col, op, elems, array, cut, qual, combo) == [rel |-> rel, col |-> col, op |-> op, elems |-> elems, array |-> array, cut |-> cut, qual |-> qual, combo |-> combo]
Predicates ==
  {<<"a", "x", "=">>, <<"b", "x", "=">>, <<"a", "x", "~~">>, <<"a", "y", "=">>, <<"b", "z", "<>">>, <<"a", "y", "!~~">>, <<"b", "z", "=">>,
   <<"a", "x", ">=">>, <<"a", "x", "<=">>}
MCQualSamples ==
  UNION {{Sample(k[1], k[2], k[3], <<1>>, FALSE, FALSE, 1, 1), Sample(k[1], k[2], k[3], <<2>>, FALSE, FALSE, 1, 2)} : k \in Predicates}
    \cup {Sample("a", "x", "=", <<5>>, FALSE, TRUE, 1, 1), Sample("a", "y", "=", <<3, 4>>, TRUE, FALSE, 1, 1), Sample("a", "y", "=", <<3, 4>>, TRUE, TRUE, 1, 2)}

Parts == {"tail", "panes", "text", "sample"}

MCInit ==
  /\ LogInit /\ PaneInit /\ SqlInit /\ ParamsInit /\ part \in Parts
  /\ part # "tail"   => logSession = CHOOSE s \in LogSessions : TRUE
  /\ part # "panes"  => paneKeys = CHOOSE keys \in PaneSessions : TRUE
  /\ part # "sample" => statement = CHOOSE s \in Statements : TRUE

MCNext ==
  /\ UNCHANGED part
  /\ \/ part = "tail"   /\ LogNext    /\ UNCHANGED <<paneVars, sqlVars, paramVars>>
     \/ part = "panes"  /\ PaneNext   /\ UNCHANGED <<logVars, sqlVars, paramVars>>
     \/ part = "text"   /\ SqlNext    /\ UNCHANGED <<logVars, paneVars, paramVars>>
     \/ part = "sample" /\ ParamsNext /\ UNCHANGED <<logVars, paneVars, sqlVars>>

MCVars == <<part, logVars, paneVars, sqlVars, paramVars>>
MCSpec == MCInit /\ [][MCNext]_MCVars
(* A logged statement is read as it was run; a call made up from its        *)
(* captures is one the server saw.                                         *)
SqlSound == (part = "text" => SqlRead) /\ (part = "sample" => SampleTrue)

PlanSpec == MCInit /\ part = "tail" /\ [][MCNext]_MCVars
=============================================================================
