-------------------------------- MODULE LogTail --------------------------------
(***************************************************************************)
(* The log analyzer's live tail: a window of a server log is read and      *)
(* parsed, and re-read from its last entry while the file grows.           *)
(*                                                                         *)
(* A file is a sequence of pieces: a line is written whole, or in two      *)
(* writes, and a line of which only the head is there does not match the   *)
(* prefix.  An offset counts pieces.                                       *)
(***************************************************************************)
EXTENDS Integers, Sequences, FiniteSets, SequencesExt

CONSTANTS
  NoReport,     \* nothing is loaded, and a source that cannot say how long it is
  LogSessions   \* bound: who logs what, the windows, what may happen, and how often

VARIABLES
  logSession,
  logFile,   \* the file under the path: which one, and its pieces
  parsers,   \* the parsers of the full reads, which their refreshes go on using
  tail,      \* the analyzer: loading, the window asked for, the report
  reads,     \* the reads under way
  refreshes  \* bound: refreshes issued

logVars == <<logSession, logFile, parsers, tail, reads, refreshes>>

-----------------------------------------------------------------------------
(* The parser.  A line is primary, an attachment of the last primary line  *)
(* of its process, or the continuation of whatever is open.                *)

Primary(kind) == kind \in {"message", "plan", "statement"}

Ends(piece) == piece.part # "head"

LinesOf(buf, base) ==
  LET first == SelectSeq([i \in DOMAIN buf |-> i], LAMBDA i : i = 1 \/ Ends(buf[i - 1]))
      past(k) == IF k = Len(first) THEN Len(buf) + 1 ELSE first[k + 1]
  IN  [k \in DOMAIN first |->
         LET piece == buf[first[k]]
             whole == piece.part = "whole" \/ (piece.part = "head" /\ past(k) - first[k] = 2)
         IN  [off |-> base + first[k] - 1, pid |-> piece.pid,
              kind |-> IF whole THEN piece.kind ELSE "more",
              text |-> {base + i - 1 : i \in first[k]..(past(k) - 1)}]]

NewParser == [entries |-> <<>>, open |-> 0, field |-> "message", last |-> <<>>, lines |-> 0, unparsed |-> 0]

NewEntry(line) == [off |-> line.off, pid |-> line.pid, kind |-> line.kind,
                   message |-> line.text, detail |-> {}, plan |-> 0]

(* An orphan has no offset of its own.                                     *)
Orphan(line) == [NewEntry(line) EXCEPT !.off = 0, !.kind = "orphan", !.message = {}]

LastPrimary(p, pid) == IF pid \in DOMAIN p.last THEN p.last[pid] ELSE 0
Remember(last, pid, at) == [q \in DOMAIN last \cup {pid} |-> IF q = pid THEN at ELSE last[q]]

AddEntry(p, entry) ==
  [p EXCEPT !.entries = Append(@, entry), !.open = Len(p.entries) + 1, !.field = "message",
            !.last = Remember(@, entry.pid, Len(p.entries) + 1)]

(* Mutant: an attachment goes to the entry before it, whoever wrote that.  *)
AttachToOpen(p, line) == IF p.open = 0 THEN AddEntry(p, Orphan(line)) ELSE p

primaryFor(p, line) ==
  IF LastPrimary(p, line.pid) = 0 THEN AddEntry(p, Orphan(line))
  ELSE [p EXCEPT !.open = LastPrimary(p, line.pid)]

Attach(p, line) ==
  LET q == primaryFor(p, line)
  IN  [q EXCEPT !.entries[q.open].detail = line.text, !.field = "detail"]

Extend(p, line) ==
  IF p.open = 0 THEN [p EXCEPT !.unparsed = @ + 1]
  ELSE IF p.field = "detail" THEN [p EXCEPT !.entries[p.open].detail = @ \cup line.text]
  ELSE [p EXCEPT !.entries[p.open].message = @ \cup line.text]

feedLine(p, line) ==
  LET q == [p EXCEPT !.lines = @ + 1]
  IN  CASE Primary(line.kind)   -> AddEntry(q, NewEntry(line))
        [] line.kind = "detail" -> Attach(q, line)
        [] OTHER                -> Extend(q, line)

Feed(p, buf, base) == FoldLeft(feedLine, p, LinesOf(buf, base))

TruncateLast(p) ==
  IF p.entries = <<>> THEN p
  ELSE LET kept == {q \in DOMAIN p.last : p.last[q] # Len(p.entries)}
       IN  [p EXCEPT !.entries = Front(@), !.open = 0, !.last = [q \in kept |-> p.last[q]]]

(* Mutant: the tail is read again from its end.                            *)
EndOfTail(p, end) == end

(* An entry that may still grow is read again.                             *)
LastEntryOff(p, end) == IF p.entries = <<>> THEN end ELSE Last(p.entries).off

-----------------------------------------------------------------------------
(* What a report makes of the entries.  A plan that auto_explain logs is   *)
(* folded into the statement logged after it; both belong to one           *)
(* execution.  The entries are the parser's own: what is folded stays      *)
(* folded there.                                                           *)

Lookahead == 8

Classified(e) == IF e.kind = "plan" THEN [e EXCEPT !.plan = e.off + 1] ELSE e
Classify(entries) == FoldLeft(LAMBDA done, e : Append(done, Classified(e)), <<>>, entries)

MergePlans(entries) ==
  LET slow(e) == e.kind \in {"plan", "statement"}
      into(es, i) == SelectInSubSeq(es, i + 1, Len(es), LAMBDA c : c.pid = es[i].pid /\ slow(c) /\ c.plan = 0)
      fold(state, i) ==
        LET es == state.entries  j == into(es, i)
        IN  IF slow(es[i]) /\ es[i].plan # 0 /\ j \in (i + 1)..(i + Lookahead)
            THEN [entries |-> [es EXCEPT ![j].plan = es[i].plan], dropped |-> state.dropped \cup {i}]
            ELSE state
  IN  FoldLeft(fold, [entries |-> entries, dropped |-> {}], [i \in DOMAIN entries |-> i])

Kept(merged) ==
  LET at == SelectSeq([i \in DOMAIN merged.entries |-> i], LAMBDA i : i \notin merged.dropped)
  IN  [k \in DOMAIN at |-> merged.entries[at[k]]]

finish(p) == MergePlans(Classify(p.entries))

-----------------------------------------------------------------------------
(* The windows.  Whatever precedes the first primary line is left out.     *)

AlignHead(buf, cut) ==
  LET nl == SelectInSeq(buf, Ends)
  IN  IF ~cut THEN 0 ELSE IF nl = 0 THEN Len(buf) ELSE nl

skipContinuation(buf, base) ==
  LET lines == LinesOf(buf, base)
      at    == SelectInSeq(lines, LAMBDA l : Primary(l.kind))
  IN  IF at = 0 THEN Len(buf) ELSE lines[at].off - base

Past(buf, n) == SubSeq(buf, n + 1, Len(buf))

(* ReadTail and the head of Load: where the window starts.                 *)
WindowStart(pieces, n) ==
  LET start == IF n > 0 /\ Len(pieces) > n THEN Len(pieces) - n ELSE 0
      buf   == Past(pieces, start)
      head  == start + AlignHead(buf, start > 0)
  IN  head + skipContinuation(Past(pieces, head), head)

Parse(pieces, start) == Feed(NewParser, Past(pieces, start), start)

-----------------------------------------------------------------------------
LogInit ==
  /\ logSession \in LogSessions
  /\ logFile = [inode |-> 1, pieces |-> <<>>]
  /\ parsers = <<>>
  /\ tail = [loading |-> TRUE, window |-> Head(logSession.windows), report |-> NoReport]
  /\ reads = {[op |-> "load", window |-> Head(logSession.windows), prev |-> NoReport, step |-> "read"]}
  /\ refreshes = 0

(* Who writes the log: an attachment follows a primary line of its process *)
(* in the file.                                                            *)
Torn == logFile.pieces # <<>> /\ ~Ends(Last(logFile.pieces))

Write ==
  /\ Len(logFile.pieces) < logSession.pieces
  /\ \E kind \in logSession.kinds, pid \in logSession.pids, part \in {"whole", "head", "rest"} :
       /\ Torn <=> part = "rest"
       /\ part = "rest" => kind = Last(logFile.pieces).kind /\ pid = Last(logFile.pieces).pid
       /\ part = "head" => logSession.torn /\ logFile.pieces # <<>>
       /\ kind = "detail" => \E i \in DOMAIN logFile.pieces :
                               logFile.pieces[i].pid = pid /\ Primary(logFile.pieces[i].kind)
       /\ logFile' = [logFile EXCEPT !.pieces = Append(@, [kind |-> kind, pid |-> pid, part |-> part])]
  /\ UNCHANGED <<logSession, parsers, tail, reads, refreshes>>

(* A rotation between two reads, by rename.                                *)
Rotate ==
  /\ logSession.rotates /\ reads = {} /\ logFile.inode = 1 /\ ~Torn
  /\ logFile' = [inode |-> 2, pieces |-> <<>>]
  /\ UNCHANGED <<logSession, parsers, tail, reads, refreshes>>

-----------------------------------------------------------------------------
(* The reads: a full one takes the tail, then the length of the file; a    *)
(* refresh takes the length first.                                         *)

Advance(call, next) == reads' = (reads \ {call}) \cup {next}
Size(f) == Len(f.pieces)
CursorOf(f) == IF logSession.seekable THEN [inode |-> f.inode, size |-> Size(f)] ELSE NoReport

ReadTail(call) ==
  /\ call.step = "read" /\ call.op = "load" /\ Len(parsers) < logSession.loads
  /\ Advance(call, [call EXCEPT !.step = "cursor"] @@
                   [start |-> WindowStart(logFile.pieces, call.window), seen |-> logFile.pieces])
  /\ UNCHANGED <<logSession, logFile, parsers, tail, refreshes>>

Report(call, p, at, window, start, seen, cursor) ==
  [parser |-> at, entries |-> Kept(finish(p)), window |-> window, start |-> start, seen |-> seen,
   cursor |-> cursor, off |-> LastEntryOff(p, Len(seen))]

Load(call) ==
  /\ call.step = "cursor"
  /\ LET p == Parse(call.seen, call.start)
     IN  /\ parsers' = Append(parsers, [p EXCEPT !.entries = finish(p).entries])
         /\ Advance(call, [call EXCEPT !.step = "done"] @@
                [report |-> Report(call, p, Len(parsers) + 1, call.window, call.start, call.seen, CursorOf(logFile))])
  /\ UNCHANGED <<logSession, logFile, tail, refreshes>>

(* A rotation, a shrink, a source that cannot seek and a window that       *)
(* outgrew its request by half are read in full.                           *)
Full(prev, cur) ==
  \/ cur = NoReport \/ prev.cursor = NoReport
  \/ cur.inode # prev.cursor.inode \/ cur.size < prev.cursor.size
  \/ cur.size # prev.cursor.size /\ prev.window > 0 /\ cur.size - prev.start > (prev.window * 3) \div 2

Refresh(call) ==
  /\ call.step = "read" /\ call.op = "refresh"
  /\ LET cur == CursorOf(logFile)  prev == call.prev
     IN  IF Full(prev, cur) THEN Advance(call, [call EXCEPT !.op = "load", !.window = prev.window])
         ELSE IF cur.size = prev.cursor.size THEN Advance(call, [call EXCEPT !.step = "done"] @@ [report |-> prev])
         ELSE Advance(call, [call EXCEPT !.step = "from"] @@ [cur |-> cur])
  /\ UNCHANGED <<logSession, logFile, parsers, tail, refreshes>>

ReadFrom(call) ==
  /\ call.step = "from"
  /\ LET prev == call.prev
         p == Feed(TruncateLast(parsers[prev.parser]), Past(logFile.pieces, prev.off), prev.off)
     IN  /\ parsers' = [parsers EXCEPT ![prev.parser] = [p EXCEPT !.entries = finish(p).entries]]
         /\ Advance(call, [call EXCEPT !.step = "done"] @@
                [report |-> Report(call, p, prev.parser, prev.window, prev.start, logFile.pieces, call.cur)])
  /\ UNCHANGED <<logSession, logFile, tail, refreshes>>

(* The file cannot be opened.                                              *)
FailRead(call) ==
  /\ logSession.fails /\ call.step \in {"read", "from"}
  /\ Advance(call, [op |-> "failed", window |-> call.window, prev |-> call.prev, step |-> "done", report |-> NoReport])
  /\ UNCHANGED <<logSession, logFile, parsers, tail, refreshes>>

(* The answer is taken whatever window it is of; a refresh that failed     *)
(* leaves the report alone.                                                *)
onLogLoaded(call) ==
  /\ call.step = "done"
  /\ tail' = [tail EXCEPT !.loading = FALSE,
                          !.report = IF call.report = NoReport /\ call.prev # NoReport THEN @ ELSE call.report]
  /\ reads' = reads \ {call}
  /\ UNCHANGED <<logSession, logFile, parsers, refreshes>>

-----------------------------------------------------------------------------
(* A tick asks for a refresh unless a load is awaited; one of its own does *)
(* not count.  The ticks are slower than the refreshes.                    *)
onLogTick ==
  /\ ~tail.loading /\ refreshes < logSession.reads /\ \A call \in reads : call.prev = NoReport
  /\ reads' = reads \cup {[op |-> IF tail.report = NoReport THEN "load" ELSE "refresh",
                           window |-> tail.window, prev |-> tail.report, step |-> "read"]}
  /\ refreshes' = refreshes + 1
  /\ UNCHANGED <<logSession, logFile, parsers, tail>>

LoadKey(window) ==
  /\ Len(parsers) + Cardinality({call \in reads : call.op = "load"}) < logSession.loads
  /\ tail' = [tail EXCEPT !.loading = TRUE, !.window = window]
  /\ reads' = reads \cup {[op |-> "load", window |-> window, prev |-> NoReport, step |-> "read"]}
  /\ UNCHANGED <<logSession, logFile, parsers, refreshes>>

(* w: the next window, the whole file in the end, and the first again.     *)
NextWindow(w) ==
  LET at == SelectInSeq(logSession.windows, LAMBDA v : v = w)
  IN  logSession.windows[(at % Len(logSession.windows)) + 1]

LogNext ==
  \/ Write \/ Rotate \/ onLogTick
  \/ \E window \in {tail.window, NextWindow(tail.window)} : LoadKey(window)
  \/ \E call \in reads :
       \/ ReadTail(call) \/ Load(call) \/ Refresh(call) \/ ReadFrom(call) \/ FailRead(call) \/ onLogLoaded(call)

LogSpec == LogInit /\ [][LogNext]_logVars

-----------------------------------------------------------------------------
(* A tail that was followed through any number of refreshes, with lines    *)
(* half written and files rotated on the way, shows what one parse of its  *)
(* window would show, every entry once; and an attachment is with the last *)
(* line its process wrote before it.                                       *)
TailIsParse ==
  tail.report # NoReport =>
    LET r == tail.report
        wrote(off, pid) == {i \in r.start..(off - 1) : /\ r.seen[i + 1].part # "rest"
                                                      /\ r.seen[i + 1].pid = pid /\ Primary(r.seen[i + 1].kind)}
    IN  /\ r.entries = Kept(finish(Parse(r.seen, r.start)))
        /\ r.cursor # NoReport => r.off \in r.start..Len(r.seen)
        /\ \A e \in ToSet(r.entries) : \A i \in e.detail :
             r.seen[i + 1].kind = "detail" => e.off = Max(wrote(i, r.seen[i + 1].pid))

-----------------------------------------------------------------------------
(* What the repository says and the code does not keep.                    *)

(* MergePlans: "so one slow statement is counted once and carries its      *)
(* plan".  What it folds, it folds in the parser's entries; the refresh    *)
(* after the next finds the statement with its plan, and keeps the plan.   *)
CountedOnce ==
  tail.report # NoReport =>
    \A e, f \in ToSet(tail.report.entries) : e # f => e.plan = 0 \/ e.plan # f.plan
=============================================================================
