------------------------------- MODULE LogGroups -------------------------------
(***************************************************************************)
(* What a log report is made of: entries are classified, fingerprinted and *)
(* grouped, put into the buckets of a histogram, and the members of a      *)
(* group split by their parameters.                                        *)
(*                                                                         *)
(* An entry is its severity, what its message starts with, its text with   *)
(* the variable parts folded, its time and what it measures.               *)
(***************************************************************************)
EXTENDS Integers, Sequences, FiniteSets, SequencesExt

CONSTANTS
  MaxSamples,   \* defaultMaxSamples
  HistBuckets,  \* the widths a bucket may have, ascending
  HistMax       \* histMaxBuckets

(* pglog.Categories: signal first, chatter last.                           *)
Categories == <<"error", "warning", "lock", "tempfile", "replication", "other",
                "statement", "checkpoint", "autovacuum", "connection", "slow">>

Severities == <<"DEBUG", "INFO", "NOTICE", "LOG", "WARNING", "ERROR", "FATAL", "PANIC">>
Rank(severity) == SelectInSeq(Severities, LAMBDA s : s = severity)

NoTime == 0
NoText == 0   \* texts are numbers above it, and a parameter may be the empty one

(* The head of a message counts only below the severities that stand for   *)
(* themselves; a head that says more than it shows needs the rest too.     *)
classify(e) ==
  CASE e.orphan                               -> "other"
    [] ~e.orphan /\ e.head = "deadlock"       -> "lock"
    [] ~e.orphan /\ e.head # "deadlock" /\ Rank(e.sev) >= Rank("ERROR") -> "error"
    [] ~e.orphan /\ e.head # "deadlock" /\ e.sev = "WARNING"            -> "warning"
    [] OTHER ->
       CASE e.head = "duration"    -> "slow"
         [] e.head = "statement"   -> IF e.sql THEN "statement" ELSE "other"
         [] e.head \in {"checkpoint", "autovacuum", "connection"} -> e.head
         [] e.head = "tempfile"    -> "tempfile"
         [] e.head = "lockwait"    -> "lock"
         [] e.head = "socket"      -> "connection"
         [] e.head = "replication" -> "replication"
         [] OTHER                  -> "other"

(* The keys of the groups.  A statement is known by its text, a checkpoint *)
(* by its reason or its end, the rest by severity and text.                *)
Fingerprint(e) ==
  LET cat == classify(e)
  IN  CASE cat = "slow"       -> <<"slow", IF e.sql THEN e.text ELSE NoText>>
        [] cat = "statement"  -> <<"stmt", e.text>>
        [] cat = "checkpoint" -> <<"ckpt", e.text>>
        [] cat = "tempfile"   -> <<"tmp", IF e.sql THEN e.text ELSE NoText>>
        [] cat = "autovacuum" -> <<"av", e.text>>
        [] cat = "connection" -> <<IF e.head = "socket" THEN "socket" ELSE "conn", e.text>>
        [] cat = "other" /\ e.head = "stats" -> <<"pgb", NoText>>
        [] OTHER -> <<e.sev, IF e.orphan THEN NoText ELSE e.text>>

-----------------------------------------------------------------------------
(* sort.SliceStable of few elements: each goes left while it is less.      *)
InsertBy(done, x, Less(_, _)) ==
  LET goes(p) == \A j \in p..Len(done) : Less(x, done[j])
  IN  InsertAt(done, CHOOSE p \in 1..(Len(done) + 1) : goes(p) /\ (p = 1 \/ ~goes(p - 1)), x)

SortedBy(seq, Less(_, _)) == FoldLeft(LAMBDA done, x : InsertBy(done, x, Less), <<>>, seq)

Indexes(entries, Test(_)) == SelectSeq([i \in DOMAIN entries |-> i], LAMBDA i : Test(entries[i]))

(* The distinct values of a sequence, in the order they appear.            *)
Distinct(seq) == FoldLeft(LAMBDA done, x : IF Contains(done, x) THEN done ELSE Append(done, x), <<>>, seq)

Times(entries) == {entries[i].time : i \in DOMAIN entries} \ {NoTime}
MinOf(S) == IF S = {} THEN NoTime ELSE Min(S)
MaxOf(S) == IF S = {} THEN NoTime ELSE Max(S)

(* A window's newest entries are its samples.                              *)
Newest(seq, n) == IF Len(seq) <= n THEN seq ELSE SubSeq(seq, Len(seq) - n + 1, Len(seq))

percentile95(values) ==
  LET s == SortedBy(values, LAMBDA a, b : a < b)
      at == ((19 * (Len(s) - 1)) + 10) \div 20
  IN  IF s = <<>> THEN 0 ELSE s[(IF at < Len(s) THEN at ELSE Len(s) - 1) + 1]

EntriesAt(entries, at) == [i \in DOMAIN at |-> entries[at[i]]]

GroupOfMembers(key, at, own) ==
  LET ms  == [i \in DOMAIN own |-> own[i].ms]
      cat == classify(own[1])
  IN  [key |-> key, cat |-> cat, count |-> Len(own), samples |-> Newest(at, MaxSamples),
       sev |-> Severities[Max({Rank(own[i].sev) : i \in DOMAIN own})],
       first |-> MinOf(Times(own)), last |-> MaxOf(Times(own)),
       p95 |-> IF cat = "slow" THEN percentile95(ms) ELSE 0]

GroupOf(entries, key) ==
  LET at == Indexes(entries, LAMBDA e : Fingerprint(e) = key)
  IN  GroupOfMembers(key, at, EntriesAt(entries, at))

(* Mutant: equal counts put the oldest first.                              *)
OldestFirst(a, b) == a.count > b.count \/ (a.count = b.count /\ a.last < b.last)

MoreOrNewer(a, b) == a.count > b.count \/ (a.count = b.count /\ a.last > b.last)

Groups(entries) ==
  LET keys == Distinct([i \in DOMAIN entries |-> Fingerprint(entries[i])])
  IN  SortedBy([i \in DOMAIN keys |-> GroupOf(entries, keys[i])], MoreOrNewer)

ByCategory(entries, cat) == Len(Indexes(entries, LAMBDA e : classify(e) = cat))

(* The finest bucket that keeps the span within its limit; the first one   *)
(* starts at a multiple of its width.                                      *)
histogram(entries) ==
  LET from == MinOf(Times(entries))  to == MaxOf(Times(entries))
      fits == SelectInSeq(HistBuckets, LAMBDA b : (to - from) \div b <= HistMax)
      width == IF fits = 0 THEN Last(HistBuckets) ELSE HistBuckets[fits]
      start == from - (from % width)
      n     == ((to - start) \div width) + 1
      cells == IF n > HistMax + 1 THEN HistMax + 1 ELSE n
  IN  IF from = NoTime THEN [width |-> 0, start |-> 0, counts |-> <<>>]
      ELSE [width |-> width, start |-> start,
            counts |-> [b \in 1..cells |->
                          Len(Indexes(entries, LAMBDA e : e.time # NoTime /\ (e.time - start) \div width = b - 1))]]

Aggregate(entries) ==
  [entries |-> entries, groups |-> Groups(entries), hist |-> histogram(entries),
   from |-> MinOf(Times(entries)), to |-> MaxOf(Times(entries)),
   stats |-> Len(Indexes(entries, LAMBDA e : e.head = "stats"))]

groupIndex(report, key) == SelectInSeq(report.groups, LAMBDA g : g.key = key)

(* The members of a group by what their parameters are.                    *)
NoParams == <<-1>>
EmptyKey == <<NoText>>
ParamKey(e, firstOnly) ==
  IF e.params = <<>> THEN NoParams ELSE IF firstOnly THEN <<Head(e.params)>> ELSE e.params

ParamsOf(entries, at, firstOnly) ==
  LET keys == Distinct([i \in DOMAIN at |-> ParamKey(entries[at[i]], firstOnly)])
      row(k) == LET mine == SelectSeq(at, LAMBDA i : ParamKey(entries[i], firstOnly) = k)
                    time(i) == entries[mine[i]].time
                    newest == CHOOSE i \in DOMAIN mine :
                                /\ \A j \in DOMAIN mine : time(j) # NoTime => time(j) <= time(i)
                                /\ \A j \in DOMAIN mine : j > i => time(j) = NoTime \/ time(j) < time(i)
                                /\ time(i) = NoTime => i = 1
                IN  [params |-> k, count |-> Len(mine), last |-> time(newest), sample |-> mine[newest]]
  IN  SortedBy([i \in DOMAIN keys |-> row(keys[i])], MoreOrNewer)

GroupParams(report, key, firstOnly) ==
  ParamsOf(report.entries, Indexes(report.entries, LAMBDA e : Fingerprint(e) = key), firstOnly)

(* f: the next category the window has entries of, and all after the last. *)
nextLogCategory(report, cat) ==
  LET after == IF cat = "all" THEN 0 ELSE SelectInSeq(Categories, LAMBDA c : c = cat)
      at == SelectInSubSeq(Categories, after + 1, Len(Categories), LAMBDA c : ByCategory(report.entries, c) > 0)
  IN  IF at = 0 THEN "all" ELSE Categories[at]

-----------------------------------------------------------------------------
(* Every entry is in the one group of its key, all members of a group are  *)
(* of one category and one call shape (what the lookup of a sample call    *)
(* relies on), the samples are the newest, the order is by count; and the  *)
(* histogram counts every entry that has a time, in the bucket of its      *)
(* time, but those past the last cell it may have.                         *)
GroupsSound(report) ==
  LET es == report.entries  gs == report.groups
      total == FoldLeft(LAMBDA sum, g : sum + g.count, 0, gs)
      shown == FoldLeft(LAMBDA sum, c : sum + c, 0, report.hist.counts)
  IN  /\ total = Len(es)
      /\ \A i \in DOMAIN es : \E k \in DOMAIN gs :
           gs[k].key = Fingerprint(es[i]) /\ gs[k].cat = classify(es[i]) /\ Rank(gs[k].sev) >= Rank(es[i].sev)
      /\ \A k, l \in DOMAIN gs : k < l =>
           /\ gs[k].key # gs[l].key /\ gs[k].count >= gs[l].count
           /\ gs[k].count = gs[l].count => gs[k].last >= gs[l].last
      /\ \A k \in DOMAIN gs : \A i \in DOMAIN es :
           Fingerprint(es[i]) = gs[k].key => i \in ToSet(gs[k].samples) \/ i < Min(ToSet(gs[k].samples))
      /\ \A i \in DOMAIN es : es[i].time # NoTime =>
           LET b == ((es[i].time - report.hist.start) \div report.hist.width) + 1
           IN  b \in DOMAIN report.hist.counts \/ b > HistMax + 1
      /\ Len(report.hist.counts) <= HistMax + 1 /\ shown <= Len(es)
=============================================================================
