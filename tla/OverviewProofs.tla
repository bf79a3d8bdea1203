----------------------------- MODULE OverviewProofs -----------------------------
(***************************************************************************)
(* What the system overview shows, for any snapshots and sweeps, in any    *)
(* order they land in; and what the result tables show, through any loads  *)
(* and choices of columns; and that a frame has its height, its cursor and *)
(* all of its text, on any terminal.                                       *)
(*                                                                         *)
(* The cursor stays on its row: the row it is remembered by is the one it  *)
(* is on.  The recommendations are sound: the rules, the sections that     *)
(* fold a check away as passed and the settings a recommendation changes   *)
(* are written apart from each other, and what each finding is raised for, *)
(* rule by rule, is what the other two test.  A result table shows the     *)
(* columns that were picked, at the widths of the cells it has now.  A     *)
(* frame that has room is drawn whole: every list, text and overlay fills  *)
(* the lines the banners, the legend and the help row leave.               *)
(***************************************************************************)
EXTENDS MCInspect, SequenceTheorems, FiniteSetTheorems, WellFoundedInduction, TLAPS

-----------------------------------------------------------------------------
(* The cursor of the overview.  The row it is remembered by is the one it  *)
(* is on, from the first landing on; the rows depend on the snapshot and   *)
(* the sweep alone.                                                        *)
OnItsRow(p) == p.key # "" => ActionRows(p)[p.cursor] = p.key

IsPage(p) ==
  p = [info |-> p.info, sweep |-> p.sweep, sweeping |-> p.sweeping, cursor |-> p.cursor, key |-> p.key, reset |-> p.reset]

LEMMA RowsOfFindings ==
  ASSUME NEW p, NEW q, p.info = q.info, p.sweep = q.sweep
  PROVE  ActionRows(p) = ActionRows(q)
  BY Zenon DEF ActionRows, AdviceOn

(* A cursor put on a row is remembered by it, and nothing else changes.    *)
LEMMA PutOnRow ==
  ASSUME NEW p, IsPage(p), NEW n, NEW q, q = OnRow(p, ActionRows(p), n)
  PROVE  IsPage(q) /\ OnItsRow(q) /\ q.info = p.info /\ q.sweep = p.sweep
  <1>1. q = [info |-> p.info, sweep |-> p.sweep, sweeping |-> p.sweeping, cursor |-> n, key |-> ActionRows(p)[n], reset |-> p.reset]
    BY DEF OnRow, IsPage
  <1>2. q.info = p.info /\ q.sweep = p.sweep /\ q.cursor = n /\ q.key = ActionRows(p)[n] /\ IsPage(q)
    BY <1>1 DEF IsPage
  <1>3. ActionRows(q) = ActionRows(p)
    BY <1>2, RowsOfFindings
  <1>4. QED
    BY <1>2, <1>3 DEF OnItsRow

LEMMA BackOnItsRow ==
  ASSUME NEW p, IsPage(p)
  PROVE  LET q == RefreshAdvice(p)
         IN  /\ IsPage(q) /\ OnItsRow(q) /\ q.info = p.info /\ q.sweep = p.sweep
             /\ p.key \in RowKeys(q) => q.key = p.key
  <1> DEFINE q == RefreshAdvice(p)
             found == ActionRows(p)
             at == CHOOSE n \in DOMAIN found : found[n] = p.key
  <1>1. CASE p.key \in KeysIn(found)
    <2>1. found[at] = p.key
      BY <1>1 DEF KeysIn
    <2>2. q = [p EXCEPT !.cursor = at]
      BY <1>1 DEF RefreshAdvice, BackOnRow
    <2>3. q = [info |-> p.info, sweep |-> p.sweep, sweeping |-> p.sweeping, cursor |-> at, key |-> p.key, reset |-> p.reset]
      BY <2>2 DEF IsPage
    <2> HIDE DEF q, at
    <2>4. q.info = p.info /\ q.sweep = p.sweep /\ q.cursor = at /\ q.key = p.key /\ IsPage(q)
      BY <2>3 DEF IsPage
    <2>5. ActionRows(q) = found
      BY <2>4, RowsOfFindings
    <2> HIDE DEF found
    <2>6. OnItsRow(q)
      BY <2>1, <2>4, <2>5 DEF OnItsRow
    <2>7. QED
      BY <2>4, <2>6 DEF q
  <1>2. CASE p.key \notin KeysIn(found)
    <2> DEFINE n == Larger(Smaller(p.cursor, Len(found)), 1)
    <2>1. q = OnRow(p, found, n)
      BY <1>2 DEF RefreshAdvice, BackOnRow, ClampedTo
    <2> HIDE DEF n
    <2>2. IsPage(q) /\ OnItsRow(q) /\ q.info = p.info /\ q.sweep = p.sweep
      BY <2>1, PutOnRow
    <2>3. ActionRows(q) = found
      BY <2>2, RowsOfFindings
    <2>4. p.key \notin RowKeys(q)
      BY <1>2, <2>3 DEF RowKeys
    <2>5. QED
      BY <2>2, <2>4
  <1>3. QED
    BY <1>1, <1>2

CursorInvariant == IsPage(page) /\ OnItsRow(page)

(* What every step of the overview does to the page.                       *)
KeepsRow ==
  /\ IsPage(page') /\ OnItsRow(page')
  /\ (page'.info # page.info \/ page'.sweep # page.sweep) /\ page.key \in RowKeys(page') => page'.key = page.key

LEMMA SameRow ==
  ASSUME CursorInvariant, IsPage(page'), page'.info = page.info, page'.sweep = page.sweep, page'.cursor = page.cursor, page'.key = page.key
  PROVE  KeepsRow
  <1>1. ActionRows(page') = ActionRows(page)
    BY RowsOfFindings
  <1>2. QED
    BY <1>1 DEF KeepsRow, CursorInvariant, OnItsRow

LEMMA PageFields ==
  ASSUME NEW a, NEW b, NEW c, NEW d, NEW e, NEW f, NEW q,
         q = [info |-> a, sweep |-> b, sweeping |-> c, cursor |-> d, key |-> e, reset |-> f]
  PROVE  IsPage(q) /\ q.info = a /\ q.sweep = b /\ q.cursor = d /\ q.key = e
  BY DEF IsPage

LEMMA StillAPage ==
  ASSUME NEW p, IsPage(p), NEW x, NEW q,
         \/ q = p \/ q = [p EXCEPT !.sweeping = x] \/ q = [p EXCEPT !.reset = x]
  PROVE  IsPage(q) /\ q.info = p.info /\ q.sweep = p.sweep /\ q.cursor = p.cursor /\ q.key = p.key
  <1>1. p = [info |-> p.info, sweep |-> p.sweep, sweeping |-> p.sweeping, cursor |-> p.cursor, key |-> p.key, reset |-> p.reset]
    BY DEF IsPage
  <1>2. \/ q = [info |-> p.info, sweep |-> p.sweep, sweeping |-> p.sweeping, cursor |-> p.cursor, key |-> p.key, reset |-> p.reset]
        \/ q = [info |-> p.info, sweep |-> p.sweep, sweeping |-> x, cursor |-> p.cursor, key |-> p.key, reset |-> p.reset]
        \/ q = [info |-> p.info, sweep |-> p.sweep, sweeping |-> p.sweeping, cursor |-> p.cursor, key |-> p.key, reset |-> x]
    BY <1>1
  <1>3. QED
    BY <1>2 DEF IsPage

LEMMA SnapshotLands ==
  ASSUME NEW p, IsPage(p), NEW x, NEW q, q = [p EXCEPT !.info = x]
  PROVE  IsPage(q) /\ q.key = p.key /\ q.info = x /\ q.sweep = p.sweep
  <1>1. p = [info |-> p.info, sweep |-> p.sweep, sweeping |-> p.sweeping, cursor |-> p.cursor, key |-> p.key, reset |-> p.reset]
    BY DEF IsPage
  <1>2. q = [info |-> x, sweep |-> p.sweep, sweeping |-> p.sweeping, cursor |-> p.cursor, key |-> p.key, reset |-> p.reset]
    BY <1>1
  <1>3. QED
    BY <1>2 DEF IsPage

LEMMA SweepLands ==
  ASSUME NEW p, IsPage(p), NEW x
  PROVE  LET q == [p EXCEPT !.sweep = x, !.sweeping = FALSE]
         IN  IsPage(q) /\ q.key = p.key /\ q.info = p.info /\ q.sweep = x
  <1>1. PICK q : q = [p EXCEPT !.sweep = x, !.sweeping = FALSE]
    OBVIOUS
  <1>2. p = [info |-> p.info, sweep |-> p.sweep, sweeping |-> p.sweeping, cursor |-> p.cursor, key |-> p.key, reset |-> p.reset]
    BY DEF IsPage
  <1>3. q = [info |-> p.info, sweep |-> x, sweeping |-> FALSE, cursor |-> p.cursor, key |-> p.key, reset |-> p.reset]
    BY <1>1, <1>2
  <1>4. IsPage(q) /\ q.key = p.key /\ q.info = p.info /\ q.sweep = x
    BY <1>3 DEF IsPage
  <1>5. QED
    BY <1>1, <1>4

LEMMA OverviewKeepsRow ==
  ASSUME CursorInvariant, OverviewNext
  PROVE  KeepsRow
  <1>0. IsPage(page)
    BY DEF CursorInvariant
  <1>1. ASSUME NEW i \in overviewOf.infos, OnMaintLoaded(i)
        PROVE  KeepsRow
    <2> DEFINE p == [page EXCEPT !.info = i]
    <2>1. IsPage(p) /\ p.key = page.key
      BY <1>0, SnapshotLands
    <2>2. page' = RefreshAdvice(p)
      BY <1>1 DEF OnMaintLoaded
    <2> HIDE DEF p
    <2>3. QED
      BY <2>1, <2>2, BackOnItsRow DEF KeepsRow
  <1>2. ASSUME NEW h \in overviewOf.sweeps, OnMaintSchemaLoaded(h)
        PROVE  KeepsRow
    <2> DEFINE p == [page EXCEPT !.sweep = h, !.sweeping = FALSE]
    <2>1. IsPage(p) /\ p.key = page.key
      BY <1>0, SweepLands
    <2>2. page' = RefreshAdvice(p)
      BY <1>2 DEF OnMaintSchemaLoaded
    <2> HIDE DEF p
    <2>3. QED
      BY <2>1, <2>2, BackOnItsRow DEF KeepsRow
  <1>3. CASE MaintFails \/ OnMaintTick \/ ToggleVerbose \/ ResetFails \/ BackToOverview
    <2>1. page' = page
      BY <1>3 DEF MaintFails, OnMaintTick, ToggleVerbose, ResetFails, BackToOverview
    <2>2. QED
      BY <1>0, <2>1, SameRow
  <1>4. CASE RefreshOverview \/ OnMaintResetDone
    <2>1. page' = page \/ page' = [page EXCEPT !.sweeping = TRUE]
      BY <1>4 DEF RefreshOverview, OnMaintResetDone
    <2>2. IsPage(page') /\ page'.info = page.info /\ page'.sweep = page.sweep /\ page'.cursor = page.cursor /\ page'.key = page.key
      BY <1>0, <2>1, StillAPage
    <2>3. QED
      BY <2>2, SameRow
  <1>5. ASSUME NEW yes \in BOOLEAN, AnswerReset(yes)
        PROVE  KeepsRow
    <2>1. \E x : page' = [page EXCEPT !.reset = x]
      BY <1>5 DEF AnswerReset
    <2>2. PICK x : page' = [page EXCEPT !.reset = x]
      BY <2>1
    <2>3. IsPage(page') /\ page'.info = page.info /\ page'.sweep = page.sweep /\ page'.cursor = page.cursor /\ page'.key = page.key
      BY <1>0, <2>2, StillAPage
    <2>4. QED
      BY <2>3, SameRow
  <1>6. ASSUME NEW n, MoveOverview(ActionRows(page), n)
        PROVE  KeepsRow
    <2> DEFINE at == Larger(Smaller(n, Len(ActionRows(page))), 1)
    <2>1. page' = OnRow(page, ActionRows(page), at)
      BY <1>6 DEF MoveOverview, ClampedTo
    <2> HIDE DEF at
    <2>2. QED
      BY <1>0, <2>1, PutOnRow DEF KeepsRow
  <1>7. ASSUME NEW onto, HandleMaintenanceEnter(onto)
        PROVE  KeepsRow
    <2>1. page' = page \/ page' = [page EXCEPT !.reset = onto]
      BY <1>7 DEF HandleMaintenanceEnter
    <2>2. IsPage(page') /\ page'.info = page.info /\ page'.sweep = page.sweep /\ page'.cursor = page.cursor /\ page'.key = page.key
      BY <1>0, <2>1, StillAPage
    <2>3. QED
      BY <2>2, SameRow
  <1>8. CASE KeysOn(ActionRows(page))
    BY <1>6, <1>7, <1>8 DEF KeysOn
  <1>9. QED
    BY <1>1, <1>2, <1>3, <1>4, <1>5, <1>8 DEF OverviewNext

LEMMA OverviewOpens == Opened => CursorInvariant
  <1> SUFFICES ASSUME Opened
               PROVE  CursorInvariant
    OBVIOUS
  <1>1. page = [info |-> NoInfo, sweep |-> NoSweep, sweeping |-> TRUE, cursor |-> 1, key |-> "", reset |-> ""]
    BY DEF Opened
  <1>2. /\ page.info = NoInfo /\ page.sweep = NoSweep /\ page.cursor = 1 /\ page.key = "" /\ page.reset = ""
        /\ page.sweeping = TRUE
    BY <1>1
  <1>3. IsPage(page)
    BY <1>1, <1>2, Zenon DEF IsPage
  <1>4. QED
    BY <1>2, <1>3 DEF CursorInvariant, OnItsRow

LEMMA InspectKeepsRow ==
  ASSUME CursorInvariant, [InspectNext]_inspectVars
  PROVE  KeepsRow /\ CursorInvariant'
  <1>1. OverviewNext \/ UNCHANGED overviewVars
    BY DEF InspectNext, inspectVars
  <1>2. KeepsRow
    <2>1. CASE UNCHANGED overviewVars
      <3>1. page' = page
        BY <2>1 DEF overviewVars
      <3>2. QED
        BY <3>1, SameRow DEF CursorInvariant
    <2>2. QED
      BY <1>1, <2>1, OverviewKeepsRow
  <1>3. QED
    BY <1>2 DEF KeepsRow, CursorInvariant

(* rebuildMaintItems and onMaintLoaded: a snapshot or a sweep that lands   *)
(* never moves the cursor to another row while its own is listed, and the  *)
(* cursor is always on the row it is remembered by, whatever the rules     *)
(* find and however many of them there are.                                *)
THEOREM CursorFollowsItsRow == InspectSpec => CursorKeepsRow
  <1>1. InspectInit => CursorInvariant
    BY OverviewOpens DEF InspectInit, NoOverview, OverviewInit
  <1>2. CursorInvariant /\ [InspectNext]_inspectVars => CursorInvariant'
    BY InspectKeepsRow
  <1>3. CursorInvariant /\ [InspectNext]_inspectVars =>
          [/\ (page'.info # page.info \/ page'.sweep # page.sweep) /\ page.key \in RowKeys(page') => page'.key = page.key
           /\ page'.key # "" => ActionRows(page')[page'.cursor] = page'.key]_overviewVars
    BY InspectKeepsRow DEF KeepsRow, OnItsRow
  <1>4. QED
    BY <1>1, <1>2, <1>3, PTL DEF InspectSpec, CursorKeepsRow

-----------------------------------------------------------------------------
(* The recommendations, rule by rule.  What is known of a finding: the     *)
(* title that marks its key, whether it is graded or has something to do,  *)
(* what made it fire, and that the figure it suggests is higher than the   *)
(* one there is.                                                           *)
NatFields ==
  {"ram", "hugePool", "hugeNeeds", "swap", "sharedBuffers", "cached", "cacheSize", "workMem", "conns", "maxConns", "dirty",
   "hot", "cold", "backendFsyncs", "clientWrites", "serverWrites", "lruMaxpages", "cleaned", "cappedSweeps", "completion",
   "timeout", "interval", "timed", "requested", "maxWal", "walRate", "syncMs", "buffersFull", "walBuffers", "images",
   "walRecords", "workers", "busy", "costDelay", "costLimit", "backlog", "idleXact", "idleTimeout", "statementsUsed",
   "statementsMax", "qualstatsUsed", "qualstatsMax", "tempBytes", "tempDaily", "lockWaits", "longestWait", "longXact",
   "prepared", "oldestPrepared", "archiveFailed", "pendingRestart", "pendingReload", "cacheBlocks", "cacheHit", "deadlocks",
   "deadlocksDaily", "commits", "rollbacks", "conflicts"}
Figures(i) ==
  /\ NatFields \cup {"off", "slru"} \subseteq DOMAIN i /\ \A f \in NatFields : i[f] \in Nat
  /\ i.off \subseteq Switches
  /\ {"reads", "buffers"} \subseteq DOMAIN i.slru /\ i.slru.buffers \in Nat
  /\ i.xid.age \in Nat /\ i.mxid.age \in Nat /\ i.horizon.age \in Nat

AdviceFields == {"key", "level", "setting", "current", "suggested", "fix", "target"}
Advised(a) == DOMAIN a = AdviceFields

TitledKeys ==
  {"data_checksums", "max_connections", "cache_hit", "rollback_ratio", "deadlocks", "long_xact", "idle_in_transaction",
   "synchronous_standby_names", "replication_lag", "replication_slots", "wal_receiver", "hot_standby_feedback",
   "shared_buffers", "work_mem", "effective_cache_size", "huge_pages", "swap",
   "autovacuum", "autovacuum_cost", "autovacuum_backlog", "wraparound", "mxid_wraparound", "xmin_horizon",
   "buffercache_dirty", "buffercache_tight", "buffercache_slack", "slru", "backend_fsyncs",
   "wal_buffers", "wal_fpi", "checkpoint_completion_target", "max_wal_size", "checkpoint_sync",
   "bgwriter_lru_maxpages", "fsync", "full_page_writes", "archive_mode",
   "pending_restart", "pending_reload", "lock_waits", "prepared_xacts", "temp_files", "wal_archiver",
   "track_io_timing", "log_checkpoints", "log_lock_waits", "log_temp_files", "track_counts",
   "pg_stat_statements.track", "pg_stat_statements.max", "pg_qualstats.max",
   "schema_stale_stats", "schema_fk_index", "schema_bloat_table", "schema_bloat_index",
   "schema_index_invalid", "schema_index_duplicate", "schema_sequences"}

(* Keys of findings that may say something without anything to do.         *)
Remarks ==
  {"data_checksums", "shared_buffers", "buffercache_tight", "buffercache_slack", "bgwriter_lru_maxpages", "wal_fpi",
   "cache_hit", "wraparound", "mxid_wraparound"}

Fires(k, i, h) ==
  /\ k = "idle_in_transaction" => i.idleXact >= 60
  /\ k = "deadlocks" => i.deadlocks > 0
  /\ k = "swap" => i.swap > 0
  /\ k = "autovacuum_backlog" => i.backlog > 0
  /\ k = "xmin_horizon" => i.horizon.age > 0 \/ i.horizon.restricted
  /\ k = "backend_fsyncs" => i.backendFsyncs > 0
  /\ k = "pending_restart" => i.pendingRestart > 0
  /\ k = "pending_reload" => i.pendingReload > 0
  /\ k = "lock_waits" => i.lockWaits > 0
  /\ k = "temp_files" => i.tempDaily > 0
  /\ k = "wraparound" => i.xid.age > 0
  /\ k = "mxid_wraparound" => i.mxid.age > 0
  /\ k \in SweepChecks => h # NoSweep /\ k \notin h.failed /\ k \in h.rows
  /\ k = "schema_sequences" => h # NoSweep /\ k \notin h.failed /\ h.consumed >= 80

(* A switch is turned on under its own name, but for the compression of    *)
(* the WAL; a setting is raised under one key; the size of a small cache   *)
(* is a figure of its own.                                                 *)
TurnsOn(a, i) ==
  /\ a.suggested = 1 /\ a.setting \in i.off
  /\ \/ a.key = "wal_fpi" /\ a.setting = "wal_compression"
     \/ a.key \in Switches /\ a.setting = a.key
RaisedBy ==
  {<<"huge_pages", "huge_pages">>, <<"max_wal_size", "max_wal_size">>, <<"wal_buffers", "wal_buffers">>,
   <<"bgwriter_lru_maxpages", "bgwriter_lru_maxpages">>,
   <<"checkpoint_completion_target", "checkpoint_completion_target">>,
   <<"autovacuum_cost", "autovacuum_vacuum_cost_limit">>,
   <<"idle_in_transaction", "idle_in_transaction_session_timeout">>,
   <<"pg_stat_statements.max", "pg_stat_statements.max">>, <<"pg_qualstats.max", "pg_qualstats.max">>}
Raises(a, i) ==
  <<a.key, a.setting>> \in RaisedBy /\ a.suggested \in Nat /\ a.suggested > i[FieldOf[a.setting]]
Widens(a, i) ==
  a.key = "slru" /\ a.setting = "subtransaction_buffers" /\ a.suggested \in Nat /\ a.suggested > i.slru.buffers
Suggests(a, i) ==
  a.key \in {"work_mem", "effective_cache_size"} \/ TurnsOn(a, i) \/ Raises(a, i) \/ Widens(a, i)
Offers(k, s, v, i) ==
  \/ k \in {"work_mem", "effective_cache_size"}
  \/ v = 1 /\ s \in i.off /\ ((k = "wal_fpi" /\ s = "wal_compression") \/ (k \in Switches /\ s = k))
  \/ <<k, s>> \in RaisedBy /\ v \in Nat /\ v > i[FieldOf[s]]
  \/ k = "slru" /\ s = "subtransaction_buffers" /\ v \in Nat /\ v > i.slru.buffers

Ruled(a, i, h) ==
  /\ Advised(a) /\ a.key \in TitledKeys
  /\ a.level >= Warn \/ a.fix \/ a.key \in Remarks
  /\ Fires(a.key, i, h)
  /\ a.suggested = NoValue \/ Suggests(a, i)

-----------------------------------------------------------------------------
(* What the constructors leave alone.                                      *)
Says(a, k, l, s) == Advised(a) /\ a.key = k /\ a.level = l /\ a.setting = s /\ a.suggested = NoValue
Alike(a, b) ==
  /\ Advised(a) /\ a.key = b.key /\ a.level = b.level /\ a.setting = b.setting /\ a.suggested = b.suggested
  /\ a.fix <=> b.fix

LEMMA OfFound ==
  ASSUME NEW k, NEW l
  PROVE  Says(Found(k, l), k, l, "")
  BY DEF Found, Says, Advised, AdviceFields

LEMMA OfOfSetting ==
  ASSUME NEW k, NEW l, NEW s, NEW c
  PROVE  Says(OfSetting(k, l, s, c), k, l, s)
  <1> DEFINE b == Found(k, l)
  <1>1. Says(b, k, l, "")
    BY OfFound
  <1> HIDE DEF b
  <1>2. OfSetting(k, l, s, c) = [b EXCEPT !.setting = s, !.current = c]
    BY DEF b, OfSetting
  <1>3. QED
    BY <1>1, <1>2 DEF Says, Advised, AdviceFields

LEMMA OfSet ==
  ASSUME NEW b, NEW k, NEW l, NEW s, Says(b, k, l, s), NEW v
  PROVE  LET a == Set(b, v)
         IN  Advised(a) /\ a.key = k /\ a.level = l /\ a.setting = s /\ a.suggested = v /\ a.fix
  BY DEF Set, Says, Advised, AdviceFields

LEMMA OfTo ==
  ASSUME NEW b, Advised(b), NEW t
  PROVE  Alike(To(b, t), b)
  BY DEF To, Alike, Advised, AdviceFields

LEMMA OfOpens ==
  ASSUME NEW b, Advised(b)
  PROVE  Alike(Opens(b), b)
  BY OfTo DEF Opens, Alike

LEMMA AlikeRuled ==
  ASSUME NEW a, NEW b, NEW i, NEW h, Alike(a, b), Ruled(b, i, h)
  PROVE  Ruled(a, i, h)
  BY DEF Alike, Ruled, Suggests, TurnsOn, Raises, Widens

LEMMA OfWhen ==
  ASSUME NEW c, NEW b, NEW a \in When(c, b)
  PROVE  c /\ a = b
  BY DEF When

(* A finding that suggests nothing.                                        *)
LEMMA RuledFound ==
  ASSUME NEW a, NEW k \in TitledKeys, NEW l, NEW s, Says(a, k, l, s), NEW i, NEW h,
         l >= Warn \/ k \in Remarks, Fires(k, i, h)
  PROVE  Ruled(a, i, h)
  BY DEF Says, Ruled

(* One that does.                                                          *)
LEMMA RuledSet ==
  ASSUME NEW k \in TitledKeys, NEW l, NEW s, NEW b, Says(b, k, l, s), NEW v, NEW i, NEW h, Fires(k, i, h),
         NEW a, a = Set(b, v), Offers(k, s, v, i)
  PROVE  Ruled(a, i, h)
  <1>1. Advised(a) /\ a.key = k /\ a.level = l /\ a.setting = s /\ a.suggested = v /\ a.fix
    BY OfSet
  <1>2. Suggests(a, i)
    BY <1>1 DEF Suggests, TurnsOn, Raises, Widens, Offers
  <1>3. QED
    BY <1>1, <1>2 DEF Ruled

(* One that does if there is something to suggest.                         *)
LEMMA RuledOffer ==
  ASSUME NEW k \in TitledKeys, NEW l, NEW s, NEW b, Says(b, k, l, s), NEW v, NEW i, NEW h, Fires(k, i, h),
         NEW a, a = b \/ (Offers(k, s, v, i) /\ a = Set(b, v)), l >= Warn \/ k \in Remarks
  PROVE  Ruled(a, i, h)
  BY RuledSet, RuledFound

LEMMA Graded ==
  ASSUME NEW x \in Int, NEW w \in Int, NEW c \in Int, w <= c
  PROVE  /\ x >= w => AtLeast(x, w, c) >= Warn
         /\ AtLeast(x, w, c) \in {Info, Warn, Crit} /\ Above(x, w, c) \in {Info, Warn, Crit}
  BY DEF AtLeast, Above, Info, Warn, Crit

LEMMA Grades == Warn >= Warn /\ Crit >= Warn /\ ~(Info >= Warn)
  BY DEF Info, Warn, Crit

LEMMA ToRuled ==
  ASSUME NEW b, NEW i, NEW h, Ruled(b, i, h), NEW t, NEW a, a = To(b, t)
  PROVE  Ruled(a, i, h)
  BY OfTo, AlikeRuled DEF Ruled

LEMMA FieldsOfSettings ==
  /\ FieldOf["huge_pages"] = "hugePool" /\ FieldOf["max_wal_size"] = "maxWal" /\ FieldOf["wal_buffers"] = "walBuffers"
  /\ FieldOf["bgwriter_lru_maxpages"] = "lruMaxpages" /\ FieldOf["checkpoint_completion_target"] = "completion"
  /\ FieldOf["autovacuum_vacuum_cost_limit"] = "costLimit" /\ FieldOf["idle_in_transaction_session_timeout"] = "idleTimeout"
  /\ FieldOf["pg_stat_statements.max"] = "statementsMax" /\ FieldOf["pg_qualstats.max"] = "qualstatsMax"
  BY DEF FieldOf

-----------------------------------------------------------------------------
(* The rules.                                                              *)
LEMMA SwitchRuled ==
  ASSUME NEW i, NEW h, NEW s \in Switches \ {"wal_compression"}, NEW l, NEW a \in TurnOn(i, s, l)
  PROVE  Ruled(a, i, h)
  <1>1. s \in i.off /\ a = Set(OfSetting(s, l, s, 0), 1)
    BY OfWhen DEF TurnOn
  <1>2. Says(OfSetting(s, l, s, 0), s, l, s)
    BY OfOfSetting
  <1>3. Fires(s, i, h) /\ s \in TitledKeys /\ Offers(s, s, 1, i)
    BY <1>1 DEF Switches, Fires, TitledKeys, SweepChecks, Offers
  <1>4. QED
    BY <1>1, <1>2, <1>3, RuledSet

LEMMA SafetyRuled ==
  ASSUME NEW i, NEW h, NEW a \in AdviseSafety(i)
  PROVE  Ruled(a, i, h)
  <1>1. CASE \E s \in {"autovacuum", "track_counts", "fsync", "full_page_writes"} : a \in TurnOn(i, s, Crit)
    <2>1. PICK s \in {"autovacuum", "track_counts", "fsync", "full_page_writes"} : a \in TurnOn(i, s, Crit)
      BY <1>1
    <2>2. s \in Switches \ {"wal_compression"}
      BY DEF Switches
    <2>3. QED
      BY <2>1, <2>2, SwitchRuled
  <1>2. CASE a \in When("data_checksums" \in i.off, OfSetting("data_checksums", Info, "data_checksums", 0))
    <2> DEFINE b == OfSetting("data_checksums", Info, "data_checksums", 0)
    <2>0. Says(b, "data_checksums", Info, "data_checksums")
      BY OfOfSetting
    <2>1. a = b
      BY <1>2, OfWhen
    <2> HIDE DEF b
    <2>2. "data_checksums" \in TitledKeys /\ "data_checksums" \in Remarks /\ Fires("data_checksums", i, h)
      BY DEF TitledKeys, Remarks, Fires, SweepChecks
    <2>3. QED
      BY <2>0, <2>1, <2>2, RuledFound
  <1>3. QED
    BY <1>1, <1>2, Zenon DEF AdviseSafety

LEMMA HostMemoryRuled ==
  ASSUME NEW i, NEW h, Figures(i), NEW a \in AdviseHostMemory(i)
  PROVE  Ruled(a, i, h)
  <1> DEFINE huge  == OfSetting("huge_pages", Warn, "huge_pages", NoValue)
             swap  == Found("swap", Warn)
             share == OfSetting("shared_buffers", Info, "shared_buffers", i.sharedBuffers)
             cache == OfSetting("effective_cache_size", Warn, "effective_cache_size", i.cacheSize)
             work  == OfSetting("work_mem", Warn, "work_mem", i.workMem)
             cacheSize == Larger(((i.ram * 2) \div 3) \div 1024, 1) * 1024
             workMem   == Larger((i.ram \div 4) \div i.maxConns, 1) * 1024
  <1>1. \/ a \in When(i.hugeAsked /\ i.hugePool = 0, IF i.hugeNeeds > 0 THEN Set(huge, i.hugeNeeds) ELSE huge)
        \/ a \in When(i.swap * 20 > i.ram, swap)
        \/ a \in When(i.sharedBuffers > 0 /\ i.sharedBuffers * 100 \notin (i.ram * 15)..(i.ram * 40), share)
        \/ a \in When(i.cached > 0 /\ i.cacheSize * 2 < i.sharedBuffers + i.cached, Set(cache, cacheSize))
        \/ a \in When(i.workMem * i.maxConns * 2 > i.ram * 1024, Set(work, workMem))
    BY DEF AdviseHostMemory
  <1>3. /\ Says(huge, "huge_pages", Warn, "huge_pages") /\ Says(swap, "swap", Warn, "")
        /\ Says(share, "shared_buffers", Info, "shared_buffers") /\ Says(work, "work_mem", Warn, "work_mem")
        /\ Says(cache, "effective_cache_size", Warn, "effective_cache_size")
    BY OfFound, OfOfSetting
  <1> HIDE DEF huge, swap, share, cache, work, cacheSize, workMem
  <1>2. \/ i.hugePool = 0 /\ (a = huge \/ (i.hugeNeeds > 0 /\ a = Set(huge, i.hugeNeeds)))
        \/ i.swap * 20 > i.ram /\ a = swap
        \/ a = share \/ a = Set(cache, cacheSize) \/ a = Set(work, workMem)
    BY <1>1 DEF When
  <1>4. i.swap \in Nat /\ i.ram \in Nat /\ i.hugeNeeds \in Nat /\ i.hugePool \in Nat
    BY DEF Figures, NatFields
  <1>5. /\ {"huge_pages", "swap", "shared_buffers", "effective_cache_size", "work_mem"} \subseteq TitledKeys
        /\ "shared_buffers" \in Remarks
    BY DEF TitledKeys, Remarks
  <1>6. \A k \in {"huge_pages", "shared_buffers", "effective_cache_size", "work_mem"} : Fires(k, i, h)
    BY DEF Fires, SweepChecks
  <1>7. i.swap * 20 > i.ram => Fires("swap", i, h)
    BY <1>4 DEF Fires, SweepChecks
  <1>8. CASE i.hugePool = 0 /\ (a = huge \/ (i.hugeNeeds > 0 /\ a = Set(huge, i.hugeNeeds)))
    <2>1. i.hugeNeeds > 0 => Offers("huge_pages", "huge_pages", i.hugeNeeds, i)
      BY <1>4, <1>8, FieldsOfSettings DEF Offers, RaisedBy
    <2>2. QED
      BY <1>3, <1>5, <1>6, <1>8, <2>1, Grades, RuledOffer
  <1>9. CASE i.swap * 20 > i.ram /\ a = swap
    BY <1>3, <1>5, <1>7, <1>9, Grades, RuledFound
  <1>10. CASE a = share
    BY <1>3, <1>5, <1>6, <1>10, RuledFound
  <1>11. CASE a = Set(cache, cacheSize)
    BY <1>3, <1>5, <1>6, <1>11, RuledSet DEF Offers
  <1>12. CASE a = Set(work, workMem)
    BY <1>3, <1>5, <1>6, <1>12, RuledSet DEF Offers
  <1>13. QED
    BY <1>2, <1>8, <1>9, <1>10, <1>11, <1>12

LEMMA BufferCacheRuled ==
  ASSUME NEW i, NEW h, Figures(i), NEW a \in AdviseBufferCache(i)
  PROVE  Ruled(a, i, h)
  <1> DEFINE writes == i.clientWrites + i.serverWrites
             behind == i.ioSplit /\ writes >= 1000 /\ i.clientWrites * 10 > writes
             capped == i.lruMaxpages > 0 /\ i.cleaned > 0 /\ i.cappedSweeps * i.lruMaxpages * 4 > i.cleaned
             level  == IF behind THEN Warn ELSE Info
             pass   == OfSetting("bgwriter_lru_maxpages", level, "bgwriter_lru_maxpages", i.lruMaxpages)
             raised == Smaller(i.lruMaxpages * 4, 1000)
  <1>1. \/ a \in When(i.dirty > 25, Found("buffercache_dirty", Warn))
        \/ a \in When(i.hot >= 70 /\ i.cold < 10, Found("buffercache_tight", Info))
        \/ a \in When(~(i.hot >= 70 /\ i.cold < 10) /\ i.cold > 40, Found("buffercache_slack", Info))
        \/ a \in When(i.backendFsyncs > 0, Found("backend_fsyncs", Crit))
        \/ a \in When(behind \/ capped, IF i.lruMaxpages \in 1..999 THEN Set(pass, raised) ELSE pass)
    BY DEF AdviseBufferCache
  <1>3. Says(pass, "bgwriter_lru_maxpages", level, "bgwriter_lru_maxpages")
    BY OfOfSetting
  <1>4. i.lruMaxpages \in 1..999 => Offers("bgwriter_lru_maxpages", "bgwriter_lru_maxpages", raised, i)
    <2>1. i.lruMaxpages \in 1..999 => raised \in Nat /\ raised > i.lruMaxpages
      <3> DEFINE pages == i.lruMaxpages
      <3>1. raised = Smaller(pages * 4, 1000)
        OBVIOUS
      <3> HIDE DEF pages, raised
      <3>2. pages \in 1..999 => raised \in Nat /\ raised > pages
        BY <3>1 DEF Smaller
      <3>3. QED
        BY <3>2 DEF pages
    <2>2. <<"bgwriter_lru_maxpages", "bgwriter_lru_maxpages">> \in RaisedBy
      BY DEF RaisedBy
    <2>3. i[FieldOf["bgwriter_lru_maxpages"]] = i.lruMaxpages
      BY FieldsOfSettings
    <2> HIDE DEF raised
    <2>4. QED
      BY <2>1, <2>2, <2>3 DEF Offers
  <1> HIDE DEF pass, raised, level
  <1>2. \/ a = Found("buffercache_dirty", Warn) \/ a = Found("buffercache_tight", Info) \/ a = Found("buffercache_slack", Info)
        \/ i.backendFsyncs > 0 /\ a = Found("backend_fsyncs", Crit)
        \/ a = pass \/ (i.lruMaxpages \in 1..999 /\ a = Set(pass, raised))
    BY <1>1 DEF When
  <1>5. /\ {"buffercache_dirty", "buffercache_tight", "buffercache_slack", "backend_fsyncs", "bgwriter_lru_maxpages"} \subseteq TitledKeys
        /\ {"buffercache_tight", "buffercache_slack", "bgwriter_lru_maxpages"} \subseteq Remarks
    BY DEF TitledKeys, Remarks
  <1>6. \A k \in {"buffercache_dirty", "buffercache_tight", "buffercache_slack", "bgwriter_lru_maxpages"} : Fires(k, i, h)
    BY DEF Fires, SweepChecks
  <1>7. i.backendFsyncs > 0 => Fires("backend_fsyncs", i, h)
    BY DEF Fires, SweepChecks
  <1>8. \A k, l : Says(Found(k, l), k, l, "")
    BY OfFound
  <1>9. CASE a = pass \/ (i.lruMaxpages \in 1..999 /\ a = Set(pass, raised))
    <2>1. "bgwriter_lru_maxpages" \in TitledKeys /\ "bgwriter_lru_maxpages" \in Remarks /\ Fires("bgwriter_lru_maxpages", i, h)
      BY <1>5, <1>6
    <2>2. a = pass \/ (Offers("bgwriter_lru_maxpages", "bgwriter_lru_maxpages", raised, i) /\ a = Set(pass, raised))
      BY <1>4, <1>9
    <2>3. QED
      BY <1>3, <2>1, <2>2, RuledOffer
  <1>10. CASE i.backendFsyncs > 0 /\ a = Found("backend_fsyncs", Crit)
    BY <1>5, <1>7, <1>8, <1>10, Grades, RuledFound
  <1>11. CASE a = Found("buffercache_dirty", Warn) \/ a = Found("buffercache_tight", Info) \/ a = Found("buffercache_slack", Info)
    BY <1>5, <1>6, <1>8, <1>11, Grades, RuledFound
  <1>12. QED
    BY <1>2, <1>9, <1>10, <1>11

LEMMA Levels ==
  /\ \A x, w, c : AtLeast(x, w, c) \in {Info, Warn, Crit} /\ Above(x, w, c) \in {Info, Warn, Crit}
  /\ \A l \in {Info, Warn, Crit} : l > Info => l >= Warn
  BY DEF AtLeast, Above, Info, Warn, Crit

LEMMA CheckpointsRuled ==
  ASSUME NEW i, NEW h, Figures(i), NEW a \in AdviseCheckpoints(i)
  PROVE  Ruled(a, i, h)
  <1> DEFINE started  == i.timed + i.requested
             frequent == started > 0 /\ i.timeout > 0 /\ i.interval * 2 < i.timeout
             byShare  == IF started >= 10 THEN AtLeast((i.requested * 100) \div started, 30, 50) ELSE Info
             level    == Larger(byShare, IF frequent THEN Warn ELSE Info)
             sized    == RecommendedMaxWALSize(i)
             size     == IF sized <= i.maxWal THEN i.maxWal * 2 ELSE sized
             walSize  == OfSetting("max_wal_size", level, "max_wal_size", i.maxWal)
             buffers  == OfSetting("wal_buffers", Warn, "wal_buffers", i.walBuffers)
             images   == Found("wal_fpi", Info)
             packed   == [images EXCEPT !.setting = "wal_compression", !.current = 0]
             target   == OfSetting("checkpoint_completion_target", Info, "checkpoint_completion_target", i.completion)
             sync     == Found("checkpoint_sync", Warn)
             doubled  == IF i.walBuffers >= 64 THEN i.walBuffers * 2 ELSE 64
             imaged   == i.images > 50 /\ i.walRecords >= 1000 /\ frequent
             synced   == started > 0 /\ i.syncMs > 1000
  <1>1. \/ a \in When(i.completion \in 1..89, Set(target, 90))
        \/ a \in When(level > Info, IF size > i.maxWal THEN Set(walSize, size) ELSE walSize)
        \/ a \in When(synced, sync)
        \/ a \in When(i.buffersFull > 0, IF i.walBuffers > 0 THEN Set(buffers, doubled) ELSE buffers)
        \/ a \in When(imaged, IF "wal_compression" \in i.off THEN Set(packed, 1) ELSE images)
    BY DEF AdviseCheckpoints
  <1>2. /\ Says(target, "checkpoint_completion_target", Info, "checkpoint_completion_target")
        /\ Says(walSize, "max_wal_size", level, "max_wal_size") /\ Says(sync, "checkpoint_sync", Warn, "")
        /\ Says(buffers, "wal_buffers", Warn, "wal_buffers") /\ Says(images, "wal_fpi", Info, "")
    BY OfFound, OfOfSetting
  <1>3. Says(packed, "wal_fpi", Info, "wal_compression")
    <2>1. packed = OfSetting("wal_fpi", Info, "wal_compression", 0)
      BY DEF OfSetting
    <2>2. QED
      BY <2>1, OfOfSetting
  <1>4. /\ i.completion \in Nat /\ i.maxWal \in Nat /\ i.walBuffers \in Nat /\ i.walRate \in Nat /\ i.timeout \in Nat
    BY DEF Figures, NatFields
  <1>5. level > Info => level >= Warn
    <2>1. byShare \in {Info, Warn, Crit} /\ (IF frequent THEN Warn ELSE Info) \in {Info, Warn, Crit}
      BY Levels
    <2> HIDE DEF byShare, frequent
    <2>2. level \in {Info, Warn, Crit}
      BY <2>1 DEF Larger
    <2>3. QED
      BY <2>2, Levels
  <1>6. size > i.maxWal => size \in Nat
    <2> DEFINE goal == IF i.completion > 0 THEN i.completion ELSE 90
               need == (i.walRate * i.timeout * (100 + goal)) \div 100
    <2>1. need \in Int
      <3>1. goal \in Int /\ i.walRate * i.timeout \in Int
        BY <1>4
      <3> HIDE DEF goal
      <3>2. (i.walRate * i.timeout) * (100 + goal) \in Int
        BY <3>1
      <3>3. QED
        BY <3>2
    <2>2. sized = IF i.walRate <= 0 \/ i.timeout <= 0 THEN 0 ELSE IF need <= 1024 THEN 1024 ELSE ((need + 1023) \div 1024) * 1024
      BY DEF RecommendedMaxWALSize
    <2> HIDE DEF need, sized
    <2>3. sized \in Int
      BY <2>1, <2>2
    <2>4. QED
      BY <1>4, <2>3
  <1>7. i.walBuffers > 0 => doubled \in Nat /\ doubled > i.walBuffers
    BY <1>4
  <1> HIDE DEF level, walSize, buffers, images, packed, target, sync, size, doubled, synced, imaged
  <1>8. \/ i.completion \in 1..89 /\ a = Set(target, 90)
        \/ level > Info /\ (a = walSize \/ (size > i.maxWal /\ a = Set(walSize, size)))
        \/ a = sync
        \/ a = buffers \/ (i.walBuffers > 0 /\ a = Set(buffers, doubled))
        \/ a = images \/ ("wal_compression" \in i.off /\ a = Set(packed, 1))
    BY <1>1 DEF When
  <1>9. /\ {"checkpoint_completion_target", "max_wal_size", "checkpoint_sync", "wal_buffers", "wal_fpi"} \subseteq TitledKeys
        /\ "wal_fpi" \in Remarks
    BY DEF TitledKeys, Remarks
  <1>10. \A k \in {"checkpoint_completion_target", "max_wal_size", "checkpoint_sync", "wal_buffers", "wal_fpi"} : Fires(k, i, h)
    BY DEF Fires, SweepChecks
  <1>11. CASE i.completion \in 1..89 /\ a = Set(target, 90)
    <2>1. Offers("checkpoint_completion_target", "checkpoint_completion_target", 90, i)
      BY <1>11, FieldsOfSettings DEF Offers, RaisedBy
    <2>2. QED
      BY <1>2, <1>9, <1>10, <1>11, <2>1, RuledSet
  <1>12. CASE level > Info /\ (a = walSize \/ (size > i.maxWal /\ a = Set(walSize, size)))
    <2>1. size > i.maxWal => Offers("max_wal_size", "max_wal_size", size, i)
      BY <1>6, FieldsOfSettings DEF Offers, RaisedBy
    <2>2. QED
      BY <1>2, <1>5, <1>9, <1>10, <1>12, <2>1, RuledOffer
  <1>13. CASE a = sync
    BY <1>2, <1>9, <1>10, <1>13, Grades, RuledFound
  <1>14. CASE a = buffers \/ (i.walBuffers > 0 /\ a = Set(buffers, doubled))
    <2>1. i.walBuffers > 0 => Offers("wal_buffers", "wal_buffers", doubled, i)
      BY <1>7, FieldsOfSettings DEF Offers, RaisedBy
    <2>2. QED
      BY <1>2, <1>9, <1>10, <1>14, <2>1, Grades, RuledOffer
  <1>15. CASE a = images \/ ("wal_compression" \in i.off /\ a = Set(packed, 1))
    <2>1. "wal_compression" \in i.off => Offers("wal_fpi", "wal_compression", 1, i)
      BY DEF Offers
    <2>2. QED
      BY <1>2, <1>3, <1>9, <1>10, <1>15, <2>1, RuledFound, RuledSet
  <1>16. QED
    BY <1>8, <1>11, <1>12, <1>13, <1>14, <1>15

LEMMA AutovacuumRuled ==
  ASSUME NEW i, NEW h, Figures(i), NEW a \in AdviseAutovacuum(i)
  PROVE  Ruled(a, i, h)
  <1> DEFINE raised  == Smaller(i.costLimit * 2, 10000)
             cost    == OfSetting("autovacuum_cost", Warn, "autovacuum_vacuum_cost_limit", i.costLimit)
             backlog == Found("autovacuum_backlog", Warn)
             full    == i.workers > 0 /\ i.busy >= i.workers /\ i.costDelay > 0
  <1>1. \/ a \in When(full, IF raised > i.costLimit THEN Set(cost, raised) ELSE cost)
        \/ a \in When(i.backlog > 20, backlog)
    BY DEF AdviseAutovacuum
  <1>2. Says(cost, "autovacuum_cost", Warn, "autovacuum_vacuum_cost_limit") /\ Says(backlog, "autovacuum_backlog", Warn, "")
    BY OfFound, OfOfSetting
  <1>3. i.costLimit \in Nat /\ i.backlog \in Nat
    BY DEF Figures, NatFields
  <1>4. raised > i.costLimit => raised \in Nat
    BY <1>3 DEF Smaller
  <1> HIDE DEF raised, cost, backlog, full
  <1>5. \/ a = cost \/ (raised > i.costLimit /\ a = Set(cost, raised))
        \/ i.backlog > 20 /\ a = backlog
    BY <1>1 DEF When
  <1>6. {"autovacuum_cost", "autovacuum_backlog"} \subseteq TitledKeys
    BY DEF TitledKeys
  <1>7. Fires("autovacuum_cost", i, h) /\ (i.backlog > 20 => Fires("autovacuum_backlog", i, h))
    BY <1>3 DEF Fires, SweepChecks
  <1>8. raised > i.costLimit => Offers("autovacuum_cost", "autovacuum_vacuum_cost_limit", raised, i)
    BY <1>4, FieldsOfSettings DEF Offers, RaisedBy
  <1>9. CASE a = cost \/ (raised > i.costLimit /\ a = Set(cost, raised))
    BY <1>2, <1>6, <1>7, <1>8, <1>9, Grades, RuledOffer
  <1>10. CASE i.backlog > 20 /\ a = backlog
    BY <1>2, <1>6, <1>7, <1>10, Grades, RuledFound
  <1>11. QED
    BY <1>5, <1>9, <1>10

LEMMA SessionsRuled ==
  ASSUME NEW i, NEW h, Figures(i), NEW a \in AdviseSessions(i)
  PROVE  Ruled(a, i, h)
  <1> DEFINE level == AtLeast(i.idleXact, 60, 300)
             idle  == OfSetting("idle_in_transaction", level, "idle_in_transaction_session_timeout", i.idleTimeout)
  <1>1. a \in When(i.idleXact >= 60, IF i.idleTimeout = 0 THEN Set(idle, 600) ELSE idle)
    BY DEF AdviseSessions
  <1>2. Says(idle, "idle_in_transaction", level, "idle_in_transaction_session_timeout")
    BY OfOfSetting
  <1>3. i.idleXact \in Nat
    BY DEF Figures, NatFields
  <1>4. i.idleXact >= 60 => level >= Warn
    BY <1>3, Graded
  <1> HIDE DEF level, idle
  <1>5. i.idleXact >= 60 /\ (a = idle \/ (i.idleTimeout = 0 /\ a = Set(idle, 600)))
    BY <1>1 DEF When
  <1>6. "idle_in_transaction" \in TitledKeys /\ Fires("idle_in_transaction", i, h)
    BY <1>5 DEF TitledKeys, Fires, SweepChecks
  <1>7. i.idleTimeout = 0 => Offers("idle_in_transaction", "idle_in_transaction_session_timeout", 600, i)
    BY FieldsOfSettings DEF Offers, RaisedBy
  <1>8. CASE a = idle
    BY <1>2, <1>4, <1>5, <1>6, <1>8, RuledFound
  <1>9. CASE i.idleTimeout = 0 /\ a = Set(idle, 600)
    BY <1>2, <1>6, <1>7, <1>9, RuledSet
  <1>10. QED
    BY <1>5, <1>8, <1>9

LEMMA FillRuled ==
  ASSUME NEW i, NEW h, NEW k \in {"pg_stat_statements.max", "pg_qualstats.max"}, NEW used, i[FieldOf[k]] \in Nat,
         NEW a \in AdviseFill(k, used, i[FieldOf[k]])
  PROVE  Ruled(a, i, h)
  <1> DEFINE max  == i[FieldOf[k]]
             full == OfSetting(k, Warn, k, max)
  <1>1. a \in When(max > 0 /\ used * 10 >= max * 9, Set(full, max * 2))
    BY DEF AdviseFill
  <1>2. Says(full, k, Warn, k)
    BY OfOfSetting
  <1> HIDE DEF full
  <1>3. max > 0 /\ a = Set(full, max * 2)
    BY <1>1 DEF When
  <1>4. k \in TitledKeys /\ Fires(k, i, h)
    BY DEF TitledKeys, Fires, SweepChecks
  <1>5. Offers(k, k, max * 2, i)
    BY <1>3 DEF Offers, RaisedBy
  <1>6. QED
    BY <1>2, <1>3, <1>4, <1>5, RuledSet

LEMMA ObservabilityRuled ==
  ASSUME NEW i, NEW h, Figures(i), NEW a \in AdviseObservability(i)
  PROVE  Ruled(a, i, h)
  <1>1. i.statementsMax \in Nat /\ i.qualstatsMax \in Nat
    BY DEF Figures, NatFields
  <1>2. \/ \E s \in Switches \ {"wal_compression"}, l \in {Info, Warn, Crit} : a \in TurnOn(i, s, l)
        \/ a \in AdviseFill("pg_stat_statements.max", i.statementsUsed, i.statementsMax)
        \/ a \in AdviseFill("pg_qualstats.max", i.qualstatsUsed, i.qualstatsMax)
    <2>1. {"pg_stat_statements.track", "track_io_timing", "log_checkpoints", "log_lock_waits", "log_temp_files"}
            \subseteq Switches \ {"wal_compression"}
      BY DEF Switches
    <2>2. \/ a \in TurnOn(i, "pg_stat_statements.track", Crit) \/ a \in TurnOn(i, "track_io_timing", Warn)
          \/ a \in TurnOn(i, "log_checkpoints", Info) \/ a \in TurnOn(i, "log_lock_waits", Info)
          \/ a \in TurnOn(i, "log_temp_files", Info)
          \/ a \in AdviseFill("pg_stat_statements.max", i.statementsUsed, i.statementsMax)
          \/ a \in AdviseFill("pg_qualstats.max", i.qualstatsUsed, i.qualstatsMax)
      BY DEF AdviseObservability
    <2>3. QED
      BY <2>1, <2>2
  <1>3. CASE \E s \in Switches \ {"wal_compression"}, l \in {Info, Warn, Crit} : a \in TurnOn(i, s, l)
    BY <1>3, SwitchRuled
  <1>4. i[FieldOf["pg_stat_statements.max"]] = i.statementsMax /\ i[FieldOf["pg_qualstats.max"]] = i.qualstatsMax
    BY FieldsOfSettings
  <1>5. CASE a \in AdviseFill("pg_stat_statements.max", i.statementsUsed, i.statementsMax)
    BY <1>1, <1>4, <1>5, FillRuled
  <1>6. CASE a \in AdviseFill("pg_qualstats.max", i.qualstatsUsed, i.qualstatsMax)
    BY <1>1, <1>4, <1>6, FillRuled
  <1>7. QED
    BY <1>2, <1>3, <1>5, <1>6

LEMMA WraparoundRuled ==
  ASSUME NEW i, NEW h, Figures(i), NEW a \in AdviseWraparound(i)
  PROVE  Ruled(a, i, h)
  <1> DEFINE xid  == FreezeLevel(i.xid)
             mxid == FreezeLevel(i.mxid)
             old  == Found("wraparound", xid.level)
             oldm == Found("mxid_wraparound", mxid.level)
  <1>1. a \in When(xid.said, To(old, "wraparound_tables")) \/ a \in When(mxid.said, oldm)
    BY DEF AdviseWraparound
  <1>2. (xid.said => i.xid.age > 0) /\ (mxid.said => i.mxid.age > 0)
    BY DEF FreezeLevel
  <1>3. Says(old, "wraparound", xid.level, "") /\ Says(oldm, "mxid_wraparound", mxid.level, "")
    BY OfFound
  <1> HIDE DEF xid, mxid, old, oldm
  <1>4. \/ xid.said /\ a = To(old, "wraparound_tables")
        \/ mxid.said /\ a = oldm
    BY <1>1 DEF When
  <1>5. {"wraparound", "mxid_wraparound"} \subseteq TitledKeys \cap Remarks
    BY DEF TitledKeys, Remarks
  <1>6. (xid.said => Fires("wraparound", i, h)) /\ (mxid.said => Fires("mxid_wraparound", i, h))
    BY <1>2 DEF Fires, SweepChecks
  <1>7. xid.said => Ruled(old, i, h)
    BY <1>3, <1>5, <1>6, RuledFound
  <1>8. mxid.said => Ruled(oldm, i, h)
    BY <1>3, <1>5, <1>6, RuledFound
  <1>9. QED
    BY <1>4, <1>7, <1>8, ToRuled

LEMMA HorizonRuled ==
  ASSUME NEW i, NEW h, Figures(i), NEW a \in AdviseHorizon(i)
  PROVE  Ruled(a, i, h)
  <1> DEFINE old    == i.horizon
             level  == Above(old.age * 100, 25 * i.xid.max, 50 * i.xid.max)
             holder == CASE old.kind = "idle" -> "idle_in_xact_holders" [] old.kind = "slot" -> "replication_slots"
                         [] old.kind = "backend" -> "activity" [] OTHER -> "none"
             hidden == Found("xmin_horizon", Warn)
             held   == Found("xmin_horizon", level)
  <1>1. \/ old.age <= 0 /\ a \in When(old.restricted, hidden)
        \/ ~(old.age <= 0) /\ a \in When(level >= Warn, To(held, holder))
    BY Zenon DEF AdviseHorizon
  <1>2. Says(hidden, "xmin_horizon", Warn, "") /\ Says(held, "xmin_horizon", level, "")
    BY OfFound
  <1>3. i.horizon.age \in Nat
    BY DEF Figures
  <1> HIDE DEF level, holder, hidden, held
  <1>4. \/ old.restricted /\ a = hidden
        \/ old.age > 0 /\ level >= Warn /\ a = To(held, holder)
    BY <1>1, <1>3 DEF When
  <1>5. "xmin_horizon" \in TitledKeys
    BY DEF TitledKeys
  <1>6. Fires("xmin_horizon", i, h)
    BY <1>4 DEF Fires, SweepChecks
  <1>7. Ruled(hidden, i, h) /\ (level >= Warn => Ruled(held, i, h))
    BY <1>2, <1>5, <1>6, Grades, RuledFound
  <1>8. QED
    BY <1>4, <1>7, ToRuled

LEMMA OperationalRuled ==
  ASSUME NEW i, NEW h, Figures(i), NEW a \in AdviseOperational(i)
  PROVE  Ruled(a, i, h)
  <1> DEFINE used    == (i.conns * 100) \div i.maxConns
             full    == i.maxConns > 0 /\ used >= 80
             late    == i.longXact >= 1800
             taken   == AtLeast(used, 80, 95)
             waited  == IF i.longestWait > 30 THEN Crit ELSE Warn
             open    == AtLeast(i.longXact, 1800, 10800)
             held    == IF i.oldestPrepared > 300 THEN Crit ELSE Warn
             behind  == IF i.archiverStuck THEN Crit ELSE Warn
             crowded == OfSetting("max_connections", taken, "max_connections", i.conns)
             waits   == Found("lock_waits", waited)
             long    == Found("long_xact", open)
             twoPc   == Found("prepared_xacts", held)
             stuck   == Found("wal_archiver", behind)
             nowhere == OfSetting("archive_mode", Crit, "archive_mode", NoValue)
             restart == Found("pending_restart", Warn)
             reload  == Found("pending_reload", Info)
             sent    == To(reload, "settings")
             reloads == [sent EXCEPT !.fix = TRUE]
  <1>1. \/ a \in When(full, To(crowded, "activity")) \/ a \in When(i.lockWaits > 0, To(waits, "lock_tree"))
        \/ a \in When(late, To(long, "activity")) \/ a \in When(i.prepared > 0, twoPc)
        \/ a \in When(i.archiveFailed > 0, stuck) \/ a \in When(i.archivesNowhere, nowhere)
        \/ a \in When(i.pendingRestart > 0, To(restart, "settings")) \/ a \in When(i.pendingReload > 0, reloads)
    BY DEF AdviseOperational
  <1>4. i.longXact \in Nat /\ i.conns \in Nat /\ i.maxConns \in Nat
    BY DEF Figures, NatFields
  <1>5. (full => taken >= Warn) /\ (late => open >= Warn)
    <2>1. full => used \in Int
      BY <1>4
    <2> HIDE DEF used
    <2>2. QED
      BY <1>4, <2>1, Graded
  <1>10. waited >= Warn /\ held >= Warn /\ behind >= Warn
    BY Grades
  <1> HIDE DEF used, full, late, taken, waited, open, held, behind
  <1>2. Says(crowded, "max_connections", taken, "max_connections") /\ Says(nowhere, "archive_mode", Crit, "archive_mode")
    BY OfOfSetting
  <1>3. /\ Says(waits, "lock_waits", waited, "") /\ Says(long, "long_xact", open, "") /\ Says(twoPc, "prepared_xacts", held, "")
        /\ Says(stuck, "wal_archiver", behind, "") /\ Says(restart, "pending_restart", Warn, "")
        /\ Says(reload, "pending_reload", Info, "")
    BY OfFound
  <1> HIDE DEF crowded, waits, long, twoPc, stuck, nowhere, restart, reload
  <1>6. Advised(reloads) /\ reloads.key = "pending_reload" /\ reloads.fix = TRUE /\ reloads.suggested = NoValue
    <2>1. Alike(sent, reload)
      BY <1>3, OfTo DEF Says
    <2> HIDE DEF sent
    <2>2. QED
      BY <1>3, <2>1 DEF Says, Alike, Advised, AdviceFields
  <1> HIDE DEF sent, reloads
  <1>7. \/ full /\ a = To(crowded, "activity")
        \/ i.lockWaits > 0 /\ a = To(waits, "lock_tree")
        \/ late /\ a = To(long, "activity")
        \/ a = twoPc \/ a = stuck \/ a = nowhere
        \/ i.pendingRestart > 0 /\ a = To(restart, "settings")
        \/ i.pendingReload > 0 /\ a = reloads
    BY <1>1 DEF When
  <1>8. {"max_connections", "lock_waits", "long_xact", "prepared_xacts", "wal_archiver", "archive_mode", "pending_restart",
         "pending_reload"} \subseteq TitledKeys
    BY DEF TitledKeys
  <1>9. /\ \A k \in {"max_connections", "long_xact", "prepared_xacts", "wal_archiver", "archive_mode"} : Fires(k, i, h)
        /\ i.lockWaits > 0 => Fires("lock_waits", i, h)
        /\ i.pendingRestart > 0 => Fires("pending_restart", i, h)
        /\ i.pendingReload > 0 => Fires("pending_reload", i, h)
    BY DEF Fires, SweepChecks
  <1>11. full => Ruled(crowded, i, h)
    BY <1>2, <1>5, <1>8, <1>9, RuledFound
  <1>12. i.lockWaits > 0 => Ruled(waits, i, h)
    BY <1>3, <1>8, <1>9, <1>10, RuledFound
  <1>13. late => Ruled(long, i, h)
    BY <1>3, <1>5, <1>8, <1>9, RuledFound
  <1>14. Ruled(twoPc, i, h) /\ Ruled(stuck, i, h)
    BY <1>3, <1>8, <1>9, <1>10, RuledFound
  <1>15. Ruled(nowhere, i, h)
    BY <1>2, <1>8, <1>9, Grades, RuledFound
  <1>16. i.pendingRestart > 0 => Ruled(restart, i, h)
    BY <1>3, <1>8, <1>9, Grades, RuledFound
  <1>17. i.pendingReload > 0 => Ruled(reloads, i, h)
    BY <1>6, <1>8, <1>9 DEF Ruled
  <1>18. QED
    BY <1>7, <1>11, <1>12, <1>13, <1>14, <1>15, <1>16, <1>17, ToRuled

LEMMA CountersRuled ==
  ASSUME NEW i, NEW h, Figures(i), NEW a \in AdviseCounters(i)
  PROVE  Ruled(a, i, h)
  <1> DEFINE small   == i.slru
             size    == IF small.buffers = 0 THEN AutoSLRUBuffers(i.sharedBuffers) ELSE small.buffers
             sized   == OfSetting("slru", Warn, "subtransaction_buffers", size)
             other   == Found("slru", Warn)
             misses  == Found("cache_hit", IF i.cacheHit < 90 THEN Warn ELSE Info)
             locked  == Found("deadlocks", AtLeast(i.deadlocksDaily, 1, 10))
             spilled == Found("temp_files", Warn)
             undone  == Found("rollback_ratio", Warn)
             worst   == IF small.other THEN other ELSE IF size > 0 THEN Set(sized, size * 2) ELSE sized
             missing == i.cacheBlocks >= 100 /\ i.cacheHit < 95
             reading == small.reads >= 1000 /\ small.hit < 90
             locking == i.deadlocks > 0 /\ i.deadlocksDaily >= 1
             undoing == i.commits + i.rollbacks >= 1000 /\ i.rollbacks * 4 >= i.commits + i.rollbacks
  <1>1. \/ a \in When(missing, To(misses, "database_stats")) \/ a \in When(reading, To(worst, "slru_stats"))
        \/ a \in When(locking, To(locked, "database_stats")) \/ a \in When(i.tempDaily >= 10, To(spilled, "database_stats"))
        \/ a \in When(undoing, To(undone, "database_stats"))
    BY DEF AdviseCounters
  <1>2. Says(sized, "slru", Warn, "subtransaction_buffers")
    BY OfOfSetting
  <1>3. /\ Says(other, "slru", Warn, "") /\ Says(misses, "cache_hit", IF i.cacheHit < 90 THEN Warn ELSE Info, "")
        /\ Says(locked, "deadlocks", AtLeast(i.deadlocksDaily, 1, 10), "") /\ Says(spilled, "temp_files", Warn, "")
        /\ Says(undone, "rollback_ratio", Warn, "")
    BY OfFound
  <1>4. i.sharedBuffers \in Nat /\ i.slru.buffers \in Nat /\ i.deadlocksDaily \in Nat /\ i.tempDaily \in Nat
    BY DEF Figures, NatFields
  <1>5. locking => i.deadlocks > 0 /\ AtLeast(i.deadlocksDaily, 1, 10) >= Warn
    BY <1>4, Graded
  <1>6. size > 0 => size * 2 \in Nat /\ size * 2 > small.buffers
    <2>1. AutoSLRUBuffers(i.sharedBuffers) \in Nat
      BY <1>4 DEF AutoSLRUBuffers, Smaller, Larger
    <2>2. size \in Nat /\ (small.buffers = 0 \/ size = small.buffers)
      BY <1>4, <2>1
    <2> HIDE DEF size
    <2>3. QED
      BY <1>4, <2>2
  <1> HIDE DEF sized, other, misses, locked, spilled, undone, missing, reading, locking, undoing, size
  <1>7. \/ a = To(misses, "database_stats") \/ a = To(worst, "slru_stats")
        \/ locking /\ a = To(locked, "database_stats")
        \/ i.tempDaily >= 10 /\ a = To(spilled, "database_stats")
        \/ a = To(undone, "database_stats")
    <2> HIDE DEF worst
    <2>1. QED
      BY <1>1 DEF When
  <1>8. {"slru", "cache_hit", "deadlocks", "temp_files", "rollback_ratio"} \subseteq TitledKeys /\ "cache_hit" \in Remarks
    BY DEF TitledKeys, Remarks
  <1>9. /\ \A k \in {"slru", "cache_hit", "rollback_ratio"} : Fires(k, i, h)
        /\ locking => Fires("deadlocks", i, h)
        /\ i.tempDaily >= 10 => Fires("temp_files", i, h)
    BY <1>4, <1>5 DEF Fires, SweepChecks
  <1>10. Ruled(worst, i, h)
    <2>1. size > 0 => Offers("slru", "subtransaction_buffers", size * 2, i)
      BY <1>6 DEF Offers
    <2>2. Ruled(other, i, h) /\ Ruled(sized, i, h)
      BY <1>2, <1>3, <1>8, <1>9, Grades, RuledFound
    <2>3. size > 0 => Ruled(Set(sized, size * 2), i, h)
      BY <1>2, <1>8, <1>9, <2>1, RuledSet
    <2>4. QED
      BY <2>2, <2>3
  <1>11. Ruled(misses, i, h)
    BY <1>3, <1>8, <1>9, RuledFound
  <1>12. locking => Ruled(locked, i, h)
    BY <1>3, <1>5, <1>8, <1>9, RuledFound
  <1>13. i.tempDaily >= 10 => Ruled(spilled, i, h)
    BY <1>3, <1>8, <1>9, Grades, RuledFound
  <1>14. Ruled(undone, i, h)
    BY <1>3, <1>8, <1>9, Grades, RuledFound
  <1> HIDE DEF worst
  <1>15. QED
    BY <1>7, <1>10, <1>11, <1>12, <1>13, <1>14, ToRuled

LEMMA ReplicationRuled ==
  ASSUME NEW i, NEW h, NEW a \in AdviseReplication(i)
  PROVE  Ruled(a, i, h)
  <1> DEFINE level == IF i.receiver.silent >= 300 THEN Crit
                      ELSE IF i.receiver.silent >= 60 \/ ~i.receiver.streaming THEN Warn ELSE Info
             worst == WorstOf({ReplicaLevel(r) : r \in i.replicas})
             alone == i.syncNames /\ ~\E r \in i.replicas : r.sync
             sync  == OfSetting("synchronous_standby_names", Crit, "synchronous_standby_names", NoValue)
  <1>1. \/ a = Found("wal_receiver", Warn) \/ a \in When(level >= Warn, Found("wal_receiver", level))
        \/ a \in TurnOn(i, "hot_standby_feedback", Warn) \/ a \in When(worst >= Warn, Found("replication_lag", worst))
        \/ a \in When(alone, sync)
    BY Zenon DEF AdviseReplication
  <1>2. Says(sync, "synchronous_standby_names", Crit, "synchronous_standby_names")
    BY OfOfSetting
  <1> HIDE DEF level, worst, alone, sync
  <1>3. \/ a = Found("wal_receiver", Warn)
        \/ level >= Warn /\ a = Found("wal_receiver", level)
        \/ a \in TurnOn(i, "hot_standby_feedback", Warn)
        \/ worst >= Warn /\ a = Found("replication_lag", worst)
        \/ a = sync
    BY <1>1 DEF When
  <1>4. /\ {"wal_receiver", "replication_lag", "synchronous_standby_names"} \subseteq TitledKeys
        /\ \A k \in {"wal_receiver", "replication_lag", "synchronous_standby_names"} : Fires(k, i, h)
    BY DEF TitledKeys, Fires, SweepChecks
  <1>5. \A k \in {"wal_receiver", "replication_lag"} : \A l : l >= Warn => Ruled(Found(k, l), i, h)
    BY <1>4, OfFound, RuledFound
  <1>6. Ruled(sync, i, h)
    BY <1>2, <1>4, Grades, RuledFound
  <1>7. "hot_standby_feedback" \in Switches \ {"wal_compression"}
    BY DEF Switches
  <1>8. QED
    BY <1>3, <1>5, <1>6, <1>7, Grades, SwitchRuled

LEMMA SlotsRuled ==
  ASSUME NEW i, NEW h, NEW a \in AdviseSlots(i)
  PROVE  Ruled(a, i, h)
  <1> DEFINE worst == i.slots[WorstSlot(i.slots)]
             level == SlotLevel(worst)
             found == Found("replication_slots", level)
             sent  == To(found, "replication_slots")
             unused == ~worst.active
  <1>1. a \in When(level >= Warn, [sent EXCEPT !.fix = unused])
    BY DEF AdviseSlots
  <1>2. Says(found, "replication_slots", level, "")
    BY OfFound
  <1>3. Alike(sent, found)
    BY <1>2, OfTo DEF Says
  <1> HIDE DEF worst, level, found, sent, unused
  <1>4. level >= Warn /\ a = [sent EXCEPT !.fix = unused]
    BY <1>1 DEF When
  <1>5. Advised(a) /\ a.key = "replication_slots" /\ a.level = level /\ a.suggested = NoValue
    BY <1>2, <1>3, <1>4 DEF Alike, Says, Advised, AdviceFields
  <1>6. "replication_slots" \in TitledKeys /\ Fires("replication_slots", i, h)
    BY DEF TitledKeys, Fires, SweepChecks
  <1>7. QED
    BY <1>4, <1>5, <1>6 DEF Ruled

LEMMA SchemaRuled ==
  ASSUME NEW i, NEW h, h # NoSweep => h.consumed \in Nat, NEW a \in AdviseSchema(h)
  PROVE  Ruled(a, i, h)
  <1> DEFINE used == Found("schema_sequences", AtLeast(h.consumed, 80, 95))
             runs == "schema_sequences" \notin h.failed /\ h.consumed >= 80
  <1>1. h # NoSweep
    BY DEF AdviseSchema
  <1>2. a \in When(runs, To(used, "sequences")) \/ a \in {To(Found(c, Warn), c) : c \in (SweepChecks \ h.failed) \cap h.rows}
    BY <1>1 DEF AdviseSchema
  <1>3. Says(used, "schema_sequences", AtLeast(h.consumed, 80, 95), "")
    BY OfFound
  <1>4. runs => AtLeast(h.consumed, 80, 95) >= Warn
    BY <1>1, Graded
  <1>5. runs => Fires("schema_sequences", i, h)
    BY <1>1 DEF Fires, SweepChecks
  <1> HIDE DEF used, runs
  <1>6. CASE a \in When(runs, To(used, "sequences"))
    <2>1. runs /\ a = To(used, "sequences")
      BY <1>6 DEF When
    <2>2. "schema_sequences" \in TitledKeys
      BY DEF TitledKeys
    <2>3. Ruled(used, i, h)
      BY <1>3, <1>4, <1>5, <2>1, <2>2, RuledFound
    <2>4. QED
      BY <2>1, <2>3, ToRuled
  <1>7. CASE a \in {To(Found(c, Warn), c) : c \in (SweepChecks \ h.failed) \cap h.rows}
    <2>1. PICK c \in (SweepChecks \ h.failed) \cap h.rows : a = To(Found(c, Warn), c)
      BY <1>7
    <2>2. c \in TitledKeys /\ Fires(c, i, h)
      BY <1>1, <2>1 DEF SweepChecks, TitledKeys, Fires
    <2>3. Ruled(Found(c, Warn), i, h)
      BY <2>2, OfFound, Grades, RuledFound
    <2>4. QED
      BY <2>1, <2>3, ToRuled
  <1>8. QED
    BY <1>2, <1>6, <1>7

(* Whatever the rules find has been looked into above.                     *)
LEMMA FindingsRuled ==
  ASSUME NEW i, NEW h, Figures(i), h # NoSweep => h.consumed \in Nat, NEW a \in Findings(i, h)
  PROVE  Ruled(a, i, h)
  <1> DEFINE found == AdviseSafety(i) \cup AdviseHostMemory(i) \cup AdviseBufferCache(i) \cup AdviseCheckpoints(i)
     \cup AdviseWraparound(i) \cup AdviseHorizon(i) \cup AdviseAutovacuum(i) \cup AdviseSessions(i) \cup AdviseOperational(i)
     \cup AdviseCounters(i) \cup AdviseReplication(i) \cup AdviseSlots(i) \cup AdviseObservability(i) \cup AdviseSchema(h)
  <1>1. PICK b \in found : a = Opens(b)
    BY DEF Findings
  <1>2. Ruled(b, i, h)
    BY <1>1, SafetyRuled, HostMemoryRuled, BufferCacheRuled, CheckpointsRuled, WraparoundRuled, HorizonRuled, AutovacuumRuled,
       SessionsRuled, OperationalRuled, CountersRuled, ReplicationRuled, SlotsRuled, ObservabilityRuled, SchemaRuled
  <1>3. QED
    BY <1>1, <1>2, OfOpens, AlikeRuled DEF Ruled

-----------------------------------------------------------------------------
(* The figures of a snapshot, and of one with a figure changed.            *)
LEMMA SnapshotFigures ==
  ASSUME NEW i \in ServerSnapshots
  PROVE  Figures(i)
  <1>1. NatFields \cup {"off", "slru"} \subseteq DOMAIN i /\ \A f \in NatFields : i[f] \in Nat
    BY DEF ServerSnapshots, NatFields
  <1>2. i.off \subseteq Switches /\ i.slru \in [reads : Nat, hit : Nat, other : BOOLEAN, buffers : Nat]
    BY DEF ServerSnapshots
  <1>3. i.xid \in FreezeAges /\ i.mxid \in FreezeAges /\ i.horizon \in [age : Nat, restricted : BOOLEAN, kind : {"idle", "slot", "backend", "none"}]
    BY DEF ServerSnapshots
  <1>4. i.xid.age \in Nat /\ i.mxid.age \in Nat /\ i.horizon.age \in Nat
    BY <1>3 DEF FreezeAges
  <1>5. {"reads", "buffers"} \subseteq DOMAIN i.slru /\ i.slru.buffers \in Nat
    BY <1>2
  <1>6. QED
    BY <1>1, <1>2, <1>4, <1>5 DEF Figures

LEMMA ChangedFigure ==
  ASSUME NEW i, Figures(i), NEW f \in NatFields, NEW v \in Nat
  PROVE  Figures([i EXCEPT ![f] = v]) /\ [i EXCEPT ![f] = v][f] = v
  <1> DEFINE j == [i EXCEPT ![f] = v]
  <1>1. f \in DOMAIN i /\ f \notin {"off", "slru", "xid", "mxid", "horizon"}
    BY DEF Figures, NatFields
  <1>2. DOMAIN j = DOMAIN i /\ j[f] = v /\ \A g : g # f /\ g \in DOMAIN i => j[g] = i[g]
    BY <1>1
  <1>3. QED
    BY <1>1, <1>2 DEF Figures

LEMMA ChangedSwitch ==
  ASSUME NEW i, Figures(i), NEW s, NEW j, j = [i EXCEPT !.off = @ \ {s}]
  PROVE  Figures(j) /\ s \notin j.off
  <1>1. DOMAIN j = DOMAIN i /\ j.off = i.off \ {s} /\ \A g : g # "off" /\ g \in DOMAIN i => j[g] = i[g]
    BY DEF Figures
  <1>2. QED
    BY <1>1 DEF Figures, NatFields

LEMMA ChangedBuffers ==
  ASSUME NEW i, Figures(i), NEW v \in Nat, NEW j, j = [i EXCEPT !.slru.buffers = v]
  PROVE  Figures(j) /\ j.slru.buffers = v
  <1> DEFINE small == [i.slru EXCEPT !.buffers = v]
  <1>1. DOMAIN small = DOMAIN i.slru /\ small.buffers = v
    BY DEF Figures
  <1>2. j = [i EXCEPT !.slru = small]
    OBVIOUS
  <1> HIDE DEF small
  <1>3. DOMAIN j = DOMAIN i /\ j.slru = small /\ \A g : g # "slru" /\ g \in DOMAIN i => j[g] = i[g]
    BY <1>2 DEF Figures
  <1>4. QED
    BY <1>1, <1>3 DEF Figures, NatFields

-----------------------------------------------------------------------------
(* A key is raised by one setting, and is no switch.                       *)
LEMMA OneSetting ==
  /\ \A k, s, t : <<k, s>> \in RaisedBy /\ <<k, t>> \in RaisedBy => s = t
  /\ \A k, s : <<k, s>> \in RaisedBy => k \notin Switches \cup {"wal_fpi", "slru"} /\ s \notin Switches /\ FieldOf[s] \in NatFields
  /\ {"wal_fpi", "slru"} \cap Switches = {}
  <1>1. \A k, s, t : <<k, s>> \in RaisedBy /\ <<k, t>> \in RaisedBy => s = t
    BY DEF RaisedBy
  <1>2. \A k, s : <<k, s>> \in RaisedBy => k \notin Switches \cup {"wal_fpi", "slru"} /\ s \notin Switches
    BY DEF RaisedBy, Switches
  <1>3. \A k, s : <<k, s>> \in RaisedBy =>
          s \in {"huge_pages", "max_wal_size", "wal_buffers", "bgwriter_lru_maxpages", "checkpoint_completion_target",
                 "autovacuum_vacuum_cost_limit", "idle_in_transaction_session_timeout", "pg_stat_statements.max", "pg_qualstats.max"}
    BY DEF RaisedBy
  <1>4. \A k, s : <<k, s>> \in RaisedBy => FieldOf[s] \in NatFields
    BY <1>3, FieldsOfSettings DEF NatFields
  <1>5. {"wal_fpi", "slru"} \cap Switches = {}
    BY DEF Switches
  <1>6. QED
    BY <1>1, <1>2, <1>4, <1>5

(* Once the setting is what was suggested, the rule is silent or suggests  *)
(* something else: the switch is on, the figure no longer too low.         *)
LEMMA SettledByApplying ==
  ASSUME NEW i, Figures(i), NEW h, h # NoSweep => h.consumed \in Nat, NEW a \in Findings(i, h), a.suggested # NoValue,
         a.key \notin {"work_mem", "effective_cache_size"}, NEW b \in Findings(Applied(i, a), h), b.key = a.key
  PROVE  b.suggested # a.suggested
  <1> DEFINE j == Applied(i, a)
  <1>1. Suggests(a, i)
    BY FindingsRuled DEF Ruled
  <1>2. \A s \in i.off : s \in Switches
    BY DEF Figures
  <1>3. CASE TurnsOn(a, i)
    <2>1. a.setting \in i.off /\ j = [i EXCEPT !.off = @ \ {a.setting}]
      BY <1>3 DEF TurnsOn, Applied
    <2> HIDE DEF j
    <2>2. Figures(j) /\ a.setting \notin j.off
      BY <2>1, ChangedSwitch
    <2>3. Ruled(b, j, h)
      BY <2>2, FindingsRuled DEF j
    <2>4. b.suggested = NoValue \/ Suggests(b, j)
      BY <2>3 DEF Ruled
    <2>5. a.suggested = 1 /\ a.key \in Switches \cup {"wal_fpi"} /\ (a.key \in Switches => a.setting = a.key)
           /\ (a.key = "wal_fpi" => a.setting = "wal_compression")
      BY <1>3, OneSetting DEF TurnsOn
    <2>6. ~Raises(b, j) /\ ~Widens(b, j)
      BY <2>5, OneSetting DEF Raises, Widens
    <2>7. ~TurnsOn(b, j)
      BY <2>2, <2>5, OneSetting DEF TurnsOn
    <2>8. b.suggested = NoValue
      BY <2>4, <2>6, <2>7 DEF Suggests
    <2>9. QED
      BY <2>8
  <1>4. CASE Raises(a, i)
    <2>1. /\ a.setting \notin i.off /\ a.key \notin Switches \cup {"wal_fpi", "slru"} /\ FieldOf[a.setting] \in NatFields
          /\ a.suggested \in Nat
      BY <1>2, <1>4, OneSetting DEF Raises
    <2> DEFINE f == FieldOf[a.setting]
               v == a.suggested
    <2>2. j = [i EXCEPT ![f] = v]
      BY <2>1 DEF Applied
    <2> HIDE DEF j
    <2>3. Figures(j) /\ j[FieldOf[a.setting]] = a.suggested
      <3>1. f \in NatFields /\ v \in Nat
        BY <2>1
      <3> HIDE DEF f, v
      <3>2. Figures([i EXCEPT ![f] = v]) /\ [i EXCEPT ![f] = v][f] = v
        BY <3>1, ChangedFigure
      <3>3. Figures(j) /\ j[f] = v
        BY <2>2, <3>2, Zenon
      <3>4. QED
        BY <3>3 DEF f, v
    <2>4. Ruled(b, j, h)
      BY <2>3, FindingsRuled DEF j
    <2>5. b.suggested = NoValue \/ Suggests(b, j)
      BY <2>4 DEF Ruled
    <2>6. ~TurnsOn(b, j) /\ ~Widens(b, j)
      BY <2>1 DEF TurnsOn, Widens
    <2>7. Raises(b, j) => b.setting = a.setting
      BY <1>4, OneSetting DEF Raises
    <2>8. Raises(b, j) => b.suggested > a.suggested /\ b.suggested \in Nat
      BY <2>3, <2>7 DEF Raises
    <2>9. QED
      BY <2>1, <2>5, <2>6, <2>8 DEF Suggests
  <1>5. CASE Widens(a, i)
    <2>1. a.key = "slru" /\ a.setting \notin i.off /\ a.suggested \in Nat
      BY <1>2, <1>5 DEF Widens, Switches
    <2>2. j = [i EXCEPT !.slru.buffers = a.suggested]
      BY <2>1 DEF Applied
    <2> HIDE DEF j
    <2>3. Figures(j) /\ j.slru.buffers = a.suggested
      BY <2>1, <2>2, ChangedBuffers
    <2>4. Ruled(b, j, h)
      BY <2>3, FindingsRuled DEF j
    <2>5. b.suggested = NoValue \/ Suggests(b, j)
      BY <2>4 DEF Ruled
    <2>6. ~TurnsOn(b, j) /\ ~Raises(b, j)
      BY <2>1, OneSetting DEF TurnsOn, Raises
    <2>7. Widens(b, j) => b.suggested > a.suggested /\ b.suggested \in Nat
      BY <2>3 DEF Widens
    <2>8. QED
      BY <2>1, <2>5, <2>6, <2>7 DEF Suggests
  <1>6. QED
    BY <1>1, <1>3, <1>4, <1>5 DEF Suggests

-----------------------------------------------------------------------------
(* The sections of the screen.                                             *)
LEMMA OfSection ==
  ASSUME NEW t, NEW n, NEW f
  PROVE  Section(t, n, f).titled = t /\ Section(t, n, f).noted = n /\ Section(t, n, f).folded = f
  BY DEF Section

LEMMA OfIf ==
  ASSUME NEW x, NEW c, NEW k \in If(x, c)
  PROVE  k = x /\ c
  BY DEF If

(* What a section folds away, of what has fired, is not what fired.        *)
LEMMA FoldedDidNotFire ==
  ASSUME NEW i, Figures(i), i.tempDaily > 0 => i.tempBytes > 0, NEW h, h = page.sweep,
         h # NoSweep /\ h.consumed >= 80 /\ "schema_sequences" \notin h.failed => "schema_sequences" \in h.rows,
         NEW fired, NEW part \in Sections(fired, i), NEW k \in part.folded, k \in fired, Fires(k, i, h)
  PROVE  FALSE
  <1>1. /\ i.idleXact \in Nat /\ i.deadlocks \in Nat /\ i.swap \in Nat /\ i.backlog \in Nat /\ i.backendFsyncs \in Nat
        /\ i.pendingRestart \in Nat /\ i.pendingReload \in Nat /\ i.lockWaits \in Nat /\ i.tempBytes \in Nat /\ i.tempDaily \in Nat
    BY DEF Figures, NatFields
  <1>2. CASE part = ServerSection(fired, i)
    <2>1. \/ k = "deadlocks" /\ i.deadlocks = 0
          \/ k = "long_xact" /\ ~(i.longXact >= 60 \/ "long_xact" \in fired)
          \/ k = "idle_in_transaction" /\ i.idleXact < 60
      BY <1>2 DEF ServerSection, Section, If
    <2>2. QED
      BY <1>1, <2>1 DEF Fires
  <1>3. CASE part = ReplicationSection(fired, i)
    BY <1>3 DEF ReplicationSection, Section
  <1>4. CASE part = MemorySection(fired, i)
    <2>1. k = "swap" /\ i.swap = 0
      BY <1>4 DEF MemorySection, Section, If
    <2>2. QED
      BY <1>1, <2>1 DEF Fires
  <1>5. CASE part = AutovacuumSection(fired, i)
    <2>1. \/ k = "autovacuum_backlog" /\ i.backlog = 0
          \/ k = "mxid_wraparound" /\ ~MxidDrawn(fired, i)
          \/ k = "xmin_horizon" /\ ~HorizonDrawn(i)
      BY <1>5 DEF AutovacuumSection, Section, If
    <2>2. QED
      BY <1>1, <2>1 DEF Fires, MxidDrawn, HorizonDrawn
  <1>6. CASE part = BufferCacheSection(fired, i)
    <2>1. \/ k = "slru" /\ "slru" \notin fired
          \/ k = "backend_fsyncs" /\ i.backendFsyncs = 0
      BY <1>6 DEF BufferCacheSection, Section, If
    <2>2. QED
      BY <1>1, <2>1 DEF Fires
  <1>7. CASE part = WALSection(fired, i)
    BY <1>7 DEF WALSection, Section, If
  <1>8. CASE part = HealthSection(fired, i)
    <2>1. \/ k \in {"pending_restart", "pending_reload"} /\ i.pendingRestart = 0 /\ i.pendingReload = 0
          \/ k = "lock_waits" /\ i.lockWaits = 0
          \/ k = "temp_files" /\ i.tempBytes = 0
      BY <1>8 DEF HealthSection, Section, If
    <2>2. QED
      BY <1>1, <2>1 DEF Fires
  <1>9. CASE part = ObservabilitySection
    BY <1>9 DEF ObservabilitySection, Section
  <1>10. CASE part = SchemaSection(page.sweep)
    <2>1. h # NoSweep /\ k \in CatalogChecks \ (h.failed \cup h.rows)
      BY <1>10 DEF SchemaSection, Section
    <2>2. k \in SweepChecks \/ k = "schema_sequences"
      BY <2>1 DEF CatalogChecks
    <2>3. QED
      BY <2>1, <2>2 DEF Fires
  <1>11. QED
    BY <1>2, <1>3, <1>4, <1>5, <1>6, <1>7, <1>8, <1>9, <1>10 DEF Sections

(* Every key has a section that names it in its title.                     *)
LEMMA EveryKeyTitled ==
  ASSUME NEW fired, NEW i, NEW k \in TitledKeys
  PROVE  \E part \in Sections(fired, i) : k \in part.titled
  <1> DEFINE parts == Sections(fired, i)
  <1>1. /\ ServerSection(fired, i) \in parts /\ ReplicationSection(fired, i) \in parts /\ MemorySection(fired, i) \in parts
        /\ AutovacuumSection(fired, i) \in parts /\ BufferCacheSection(fired, i) \in parts /\ WALSection(fired, i) \in parts
        /\ HealthSection(fired, i) \in parts /\ ObservabilitySection \in parts /\ SchemaSection(page.sweep) \in parts
    BY DEF Sections
  <1>2. CASE k \in {"data_checksums", "max_connections", "cache_hit", "rollback_ratio", "deadlocks", "long_xact", "idle_in_transaction"}
    <2>1. k \in ServerSection(fired, i).titled
      BY <1>2 DEF ServerSection, Section
    <2>2. QED
      BY <1>1, <2>1
  <1>3. CASE k \in {"synchronous_standby_names", "replication_lag", "replication_slots", "wal_receiver", "hot_standby_feedback"}
    <2>1. k \in ReplicationSection(fired, i).titled
      BY <1>3 DEF ReplicationSection, Section
    <2>2. QED
      BY <1>1, <2>1
  <1>4. CASE k \in {"shared_buffers", "work_mem", "effective_cache_size", "huge_pages", "swap"}
    <2>1. k \in MemorySection(fired, i).titled
      BY <1>4 DEF MemorySection, Section
    <2>2. QED
      BY <1>1, <2>1
  <1>5. CASE k \in {"autovacuum", "autovacuum_cost", "autovacuum_backlog", "wraparound", "mxid_wraparound", "xmin_horizon"}
    <2>1. k \in AutovacuumSection(fired, i).titled
      BY <1>5 DEF AutovacuumSection, Section
    <2>2. QED
      BY <1>1, <2>1
  <1>6. CASE k \in {"buffercache_dirty", "buffercache_tight", "buffercache_slack", "slru", "backend_fsyncs"}
    <2>1. k \in BufferCacheSection(fired, i).titled
      BY <1>6 DEF BufferCacheSection, Section
    <2>2. QED
      BY <1>1, <2>1
  <1>7. CASE k \in {"wal_buffers", "wal_fpi", "checkpoint_completion_target", "max_wal_size", "checkpoint_sync",
                    "bgwriter_lru_maxpages", "fsync", "full_page_writes", "archive_mode"}
    <2>1. k \in WALSection(fired, i).titled
      BY <1>7 DEF WALSection, Section
    <2>2. QED
      BY <1>1, <2>1
  <1>8. CASE k \in {"pending_restart", "pending_reload", "lock_waits", "prepared_xacts", "temp_files", "wal_archiver"}
    <2>1. k \in HealthSection(fired, i).titled
      BY <1>8 DEF HealthSection, Section
    <2>2. QED
      BY <1>1, <2>1
  <1>9. CASE k \in {"track_io_timing", "log_checkpoints", "log_lock_waits", "log_temp_files", "track_counts",
                    "pg_stat_statements.track", "pg_stat_statements.max", "pg_qualstats.max"}
    <2>1. k \in ObservabilitySection.titled
      BY <1>9 DEF ObservabilitySection, Section
    <2>2. QED
      BY <1>1, <2>1
  <1>10. CASE k \in {"schema_stale_stats", "schema_fk_index", "schema_bloat_table", "schema_bloat_index",
                     "schema_index_invalid", "schema_index_duplicate", "schema_sequences"}
    <2>1. k \in SchemaSection(page.sweep).titled
      BY <1>10 DEF SchemaSection, Section, CatalogChecks, SweepChecks
    <2>2. QED
      BY <1>1, <2>1
  <1>11. QED
    BY <1>2, <1>3, <1>4, <1>5, <1>6, <1>7, <1>8, <1>9, <1>10 DEF TitledKeys

(* A remark has a row to be written on.                                    *)
LEMMA RemarksNoted ==
  ASSUME NEW i, NEW h, NEW fired, NEW k \in Remarks, k \in fired, Fires(k, i, h), k = "bgwriter_lru_maxpages" => i.ioSplit
  PROVE  \E part \in Sections(fired, i) : k \in part.noted
  <1> DEFINE parts == Sections(fired, i)
  <1>1. /\ ServerSection(fired, i) \in parts /\ MemorySection(fired, i) \in parts
        /\ AutovacuumSection(fired, i) \in parts /\ BufferCacheSection(fired, i) \in parts /\ WALSection(fired, i) \in parts
    BY DEF Sections
  <1>2. {"data_checksums", "cache_hit"} \subseteq ServerSection(fired, i).noted
    BY DEF ServerSection, Section
  <1>3. "shared_buffers" \in MemorySection(fired, i).noted
    BY DEF MemorySection, Section
  <1>4. /\ i.xid.age > 0 => "wraparound" \in AutovacuumSection(fired, i).noted
        /\ i.mxid.age > 0 /\ "mxid_wraparound" \in fired => "mxid_wraparound" \in AutovacuumSection(fired, i).noted
    BY DEF AutovacuumSection, Section, If, MxidDrawn
  <1>5. {"buffercache_tight", "buffercache_slack"} \cap fired \subseteq BufferCacheSection(fired, i).noted
    BY DEF BufferCacheSection, Section
  <1>6. /\ {"wal_fpi"} \cap fired \subseteq WALSection(fired, i).noted
        /\ i.ioSplit => "bgwriter_lru_maxpages" \in WALSection(fired, i).noted
    BY DEF WALSection, Section, If
  <1>7. (k = "wraparound" => i.xid.age > 0) /\ (k = "mxid_wraparound" => i.mxid.age > 0)
    BY DEF Fires
  <1>8. \/ k \in ServerSection(fired, i).noted \/ k \in MemorySection(fired, i).noted \/ k \in AutovacuumSection(fired, i).noted
        \/ k \in BufferCacheSection(fired, i).noted \/ k \in WALSection(fired, i).noted
    BY <1>2, <1>3, <1>4, <1>5, <1>6, <1>7 DEF Remarks
  <1>9. QED
    BY <1>1, <1>8

(* What the rules find on a snapshot is shown, and settled by doing it.    *)
LEMMA ShownAndSettled ==
  ASSUME page.info \in ServerSnapshots, page.info.tempDaily > 0 => page.info.tempBytes > 0,
         page.sweep # NoSweep =>
           /\ page.sweep \in CatalogSweeps
           /\ page.sweep.consumed >= 80 /\ "schema_sequences" \notin page.sweep.failed => "schema_sequences" \in page.sweep.rows
  PROVE  SoundAdvice(Findings(page.info, page.sweep))
  <1> DEFINE i == page.info
             h == page.sweep
             advice == Findings(i, h)
             fired  == KeysOf(advice)
             parts  == Sections(fired, i)
  <1>1. Figures(i) /\ (h # NoSweep => h.consumed \in Nat)
    BY SnapshotFigures DEF CatalogSweeps
  <1>2. \A a \in advice : Ruled(a, i, h) /\ a.key \in fired
    BY <1>1, FindingsRuled DEF KeysOf
  <1> HIDE DEF advice, fired
  <1>3. FoldedIsHealthy(advice, parts)
    <2> SUFFICES ASSUME NEW a \in advice, NEW part \in parts, a.key \in part.folded
                 PROVE  FALSE
      BY DEF FoldedIsHealthy
    <2>1. Fires(a.key, i, h) /\ a.key \in fired
      BY <1>2 DEF Ruled
    <2>2. QED
      BY <1>1, <2>1, FoldedDidNotFire
  <1>4. FindingPrinted(advice, parts)
    <2> SUFFICES ASSUME NEW a \in advice
                 PROVE  /\ \/ Actionable(a)
                           \/ \E part \in parts : a.key \in part.noted
                           \/ a.key = "bgwriter_lru_maxpages" /\ ~page.info.ioSplit
                        /\ \E part \in parts : a.key \in part.titled
      BY DEF FindingPrinted
    <2>1. /\ Fires(a.key, i, h) /\ a.key \in fired /\ a.key \in TitledKeys
          /\ Actionable(a) \/ a.key \in Remarks
      BY <1>2 DEF Ruled, Actionable
    <2> HIDE DEF parts
    <2>2. \E part \in parts : a.key \in part.titled
      BY <2>1, EveryKeyTitled DEF parts
    <2>3. Actionable(a) \/ (\E part \in parts : a.key \in part.noted) \/ (a.key = "bgwriter_lru_maxpages" /\ ~i.ioSplit)
      BY <2>1, RemarksNoted DEF parts
    <2>4. QED
      BY <2>2, <2>3
  <1>5. AdviceHeeded(advice)
    <2> SUFFICES ASSUME NEW a \in advice, a.suggested # NoValue, a.key \notin {"work_mem", "effective_cache_size"},
                        NEW b \in Findings(Applied(i, a), h), b.key = a.key
                 PROVE  b.suggested # a.suggested
      BY DEF AdviceHeeded
    <2>1. QED
      BY <1>1, SettledByApplying DEF advice
  <1>6. QED
    BY <1>3, <1>4, <1>5 DEF SoundAdvice, PrintedIn, advice, fired

-----------------------------------------------------------------------------
(* The page holds a snapshot and a sweep of its session, or none yet.      *)
PageSeen ==
  /\ inspector = "overview" => overviewOf \in OverviewSessions
  /\ page.info # NoInfo => overviewOf \in OverviewSessions /\ page.info \in overviewOf.infos
  /\ page.sweep # NoSweep => overviewOf \in OverviewSessions /\ page.sweep \in overviewOf.sweeps
SeenInvariant == IsPage(page) /\ PageSeen

(* The landings alone change the findings.                                 *)
LEMMA OnlyLandingsFind ==
  ASSUME IsPage(page), OverviewNext
  PROVE  /\ IsPage(page') /\ overviewOf' = overviewOf
         /\ page'.info = page.info \/ page'.info \in overviewOf.infos
         /\ page'.sweep = page.sweep \/ page'.sweep \in overviewOf.sweeps
  <1>1. overviewOf' = overviewOf
    BY DEF OverviewNext, OnMaintLoaded, OnMaintSchemaLoaded, MaintFails, OnMaintTick, RefreshOverview, ToggleVerbose, KeysOn,
       MoveOverview, HandleMaintenanceEnter, AnswerReset, OnMaintResetDone, ResetFails, BackToOverview
  <1>2. ASSUME NEW i \in overviewOf.infos, OnMaintLoaded(i)
        PROVE  IsPage(page') /\ page'.info = i /\ page'.sweep = page.sweep
    <2> DEFINE p == [page EXCEPT !.info = i]
    <2>0. p = [page EXCEPT !.info = i]
      OBVIOUS
    <2>2. page' = RefreshAdvice(p)
      BY <1>2 DEF OnMaintLoaded
    <2> HIDE DEF p
    <2>1. IsPage(p) /\ p.info = i /\ p.sweep = page.sweep
      BY <2>0, SnapshotLands
    <2>3. QED
      BY <2>1, <2>2, BackOnItsRow
  <1>3. ASSUME NEW h \in overviewOf.sweeps, OnMaintSchemaLoaded(h)
        PROVE  IsPage(page') /\ page'.info = page.info /\ page'.sweep = h
    <2>1. PICK p : p = [page EXCEPT !.sweep = h, !.sweeping = FALSE]
      OBVIOUS
    <2>2. IsPage(p) /\ p.key = page.key /\ p.info = page.info /\ p.sweep = h
      BY <2>1, SweepLands
    <2>3. page' = RefreshAdvice(p)
      BY <1>3, <2>1 DEF OnMaintSchemaLoaded
    <2>4. QED
      BY <2>2, <2>3, BackOnItsRow
  <1>4. ASSUME NEW n, MoveOverview(ActionRows(page), n)
        PROVE  IsPage(page') /\ page'.info = page.info /\ page'.sweep = page.sweep
    <2> DEFINE at == Larger(Smaller(n, Len(ActionRows(page))), 1)
    <2>1. page' = OnRow(page, ActionRows(page), at)
      BY <1>4 DEF MoveOverview, ClampedTo
    <2> HIDE DEF at
    <2>2. QED
      BY <2>1, PutOnRow
  <1>5. CASE \/ MaintFails \/ OnMaintTick \/ ToggleVerbose \/ ResetFails \/ BackToOverview \/ RefreshOverview \/ OnMaintResetDone
             \/ (\E yes \in BOOLEAN : AnswerReset(yes)) \/ (\E onto : HandleMaintenanceEnter(onto))
    <2>1. \/ page' = page \/ page' = [page EXCEPT !.sweeping = TRUE]
          \/ \E x : page' = [page EXCEPT !.reset = x]
      BY <1>5 DEF MaintFails, OnMaintTick, ToggleVerbose, ResetFails, BackToOverview, RefreshOverview, OnMaintResetDone,
         AnswerReset, HandleMaintenanceEnter
    <2>2. IsPage(page') /\ page'.info = page.info /\ page'.sweep = page.sweep
      BY <2>1, StillAPage
    <2>3. QED
      BY <1>1, <2>2
  <1>6. QED
    BY <1>1, <1>2, <1>3, <1>4, <1>5 DEF OverviewNext, KeysOn

LEMMA OverviewStaysSeen ==
  ASSUME SeenInvariant, [InspectNext]_inspectVars
  PROVE  SeenInvariant'
  <1>1. CASE UNCHANGED overviewVars /\ UNCHANGED inspector
    BY <1>1 DEF overviewVars, SeenInvariant, PageSeen, IsPage
  <1>2. CASE inspector = "overview" /\ OverviewNext /\ UNCHANGED inspector
    <2>1. /\ IsPage(page') /\ overviewOf' = overviewOf /\ overviewOf \in OverviewSessions
          /\ page'.info = page.info \/ page'.info \in overviewOf.infos
          /\ page'.sweep = page.sweep \/ page'.sweep \in overviewOf.sweeps
      BY <1>2, OnlyLandingsFind DEF SeenInvariant, PageSeen
    <2>2. QED
      BY <2>1 DEF SeenInvariant, PageSeen
  <1>3. QED
    BY <1>1, <1>2 DEF InspectNext, inspectVars

(* The overview as a whole, for any snapshots and sweeps a server can      *)
(* give: no check that was graded is folded away as passed, whatever is    *)
(* found is printed and marks a title, and a recommendation followed to    *)
(* the letter is not made again.                                           *)
THEOREM AdviceAlwaysSound == InspectSpec => []AdviceSound
  <1>1. InspectInit => SeenInvariant
    <2> SUFFICES ASSUME InspectInit
                 PROVE  SeenInvariant
      OBVIOUS
    <2>1. Opened /\ (inspector = "overview" => overviewOf \in OverviewSessions)
      BY DEF InspectInit, NoOverview, OverviewInit
    <2>2. IsPage(page) /\ page.info = NoInfo /\ page.sweep = NoSweep
      BY <2>1, OverviewOpens DEF Opened, CursorInvariant
    <2>3. QED
      BY <2>1, <2>2 DEF SeenInvariant, PageSeen
  <1>2. SeenInvariant /\ [InspectNext]_inspectVars => SeenInvariant'
    BY OverviewStaysSeen
  <1>3. SeenInvariant => AdviceSound
    <2> SUFFICES ASSUME SeenInvariant, page.info # NoInfo
                 PROVE  SoundAdvice(AdviceOn(page))
      BY DEF AdviceSound
    <2>1. page.info \in overviewOf.infos /\ overviewOf \in OverviewSessions /\ (page.sweep # NoSweep => page.sweep \in overviewOf.sweeps)
      BY DEF SeenInvariant, PageSeen
    <2>2. page.info \in ServerSnapshots /\ (page.info.tempDaily > 0 => page.info.tempBytes > 0)
      BY <2>1, OverviewAssumption
    <2>3. page.sweep # NoSweep =>
            /\ page.sweep \in CatalogSweeps
            /\ page.sweep.consumed >= 80 /\ "schema_sequences" \notin page.sweep.failed => "schema_sequences" \in page.sweep.rows
      BY <2>1, OverviewAssumption
    <2>4. SoundAdvice(Findings(page.info, page.sweep))
      BY <2>2, <2>3, ShownAndSettled
    <2>5. QED
      BY <2>4 DEF AdviceOn
  <1>4. QED
    BY <1>1, <1>2, <1>3, PTL DEF InspectSpec

-----------------------------------------------------------------------------
(* The result tables.  What is drawn depends on the columns, the cells,    *)
(* the sum and the bar; every change of them is marked, but for one of a   *)
(* bar that stays where it is.                                             *)
MetricsOf(d, shown, sums, cols, bar) ==
  LET cells(c) == {r[c] : r \in shown.rows} \cup (IF sums = <<>> THEN {} ELSE {sums[c]})
      natural(c) == Max({d.columns[c].title} \cup {Measured(cell, d.columns[c].kind) : cell \in cells(c)})
  IN [natural |-> [i \in DOMAIN cols |-> natural(cols[i])],
      base |-> [i \in DOMAIN cols |-> Wider(d.columns[cols[i]].title, Narrower(natural(cols[i]), ColumnCap))],
      bar |-> bar]

LEMMA MetricsAre ==
  /\ Metrics = MetricsOf(diag, result, diagTotalRow, diagCols, diagBarCol)
  /\ Metrics' = MetricsOf(diag', result', diagTotalRow', diagCols', diagBarCol')
  BY Zenon DEF Metrics, MetricsOf, Places, Of

(* A table is drawn of what a load brought, and is that of the columns     *)
(* picked; what is in the prefs file is what is picked, or nothing is      *)
(* picked but the defaults, which a registry's picker spells out.          *)
Spelled(d) == FullVis(LAMBDA c : d.columns[c].on \/ d.columns[c].mandatory, DOMAIN d.columns)
PrefsKept ==
  \/ colsVisible = SeededVis(colPrefs)
  \/ diag.picker = "ids" /\ colPrefs = <<>> /\ colsVisible = Spelled(diag)

TableInv ==
  /\ inspector = "table" => diag \in Tables /\ PrefsKept /\ (diagCols # <<>> => result \in diag.loads)
  /\ inspector # "table" => diagCols = <<>>
  /\ diagCols = <<>> => cfgCursor = 0 /\ result.present = <<>>
  /\ diagCols # <<>> =>
       /\ diagCols = Projected(colsVisible, result.present)
       /\ diagSortCol \in DOMAIN diagCols /\ diagCols[diagSortCol] = diagSortName
       /\ diagBarCol = BarFor(diagCols, diagSortName)
       /\ MemoUsed => memo = Metrics

LEMMA AnOrder ==
  ASSUME NEW n \in Nat, NEW set \in SUBSET (1..n)
  PROVE  /\ Len(InOrder(set)) \in Nat /\ DOMAIN InOrder(set) = 1..Len(InOrder(set))
         /\ Len(InOrder(set)) = 0 => InOrder(set) = <<>>
<1>1. Cardinality(set) \in Nat
  <2>1. IsFiniteSet(1..n)
    BY FS_Interval
  <2>2. IsFiniteSet(set)
    BY <2>1, FS_Subset
  <2> QED
    BY <2>2, FS_CardinalityType
<1> DEFINE c == Cardinality(set)
           nth(k) == CHOOSE m \in set : Cardinality({j \in set : j < m}) = k - 1
           f == [k \in 1..c |-> nth(k)]
<1>2. InOrder(set) = f
  BY DEF InOrder
<1> HIDE DEF c, nth
<1>3. c \in Nat
  BY <1>1 DEF c
<1>4. f \in Seq({nth(k) : k \in 1..c})
  BY <1>3 DEF Seq
<1>5. Len(f) = c
  BY <1>3, <1>4
<1>6. c = 0 => f = <<>>
  BY <1>3
<1> QED
  BY <1>2, <1>3, <1>5, <1>6

(* There is always a column.                                               *)
LEMMA SomeColumn ==
  ASSUME NEW vis, NEW present, present # <<>>, Len(present) \in Nat, DOMAIN present = 1..Len(present)
  PROVE  /\ Projected(vis, present) # <<>>
         /\ Len(Projected(vis, present)) \in Nat \ {0}
         /\ DOMAIN Projected(vis, present) = 1..Len(Projected(vis, present))
<1> DEFINE at == InOrder(ColumnsOn(vis, present))
           cols == [k \in DOMAIN at |-> present[at[k]]]
<1>1. Len(at) \in Nat /\ DOMAIN at = 1..Len(at)
  BY AnOrder DEF ColumnsOn, Places
<1>2. CASE at = <<>>
  BY <1>2 DEF Projected
<1>3. CASE at # <<>>
  <2>1. Projected(vis, present) = cols
    BY <1>3 DEF Projected, Places
  <2>2. Len(at) # 0
    <3>1. Len(at) = 0 => at = <<>>
      BY AnOrder DEF ColumnsOn, Places
    <3> HIDE DEF at
    <3> QED
      BY <1>3, <3>1
  <2>3. cols \in Seq({cols[k] : k \in 1..Len(at)}) /\ DOMAIN cols = 1..Len(at)
    <3> HIDE DEF at
    <3> QED
      BY <1>1 DEF Seq
  <2>4. Len(cols) = Len(at)
    <3> HIDE DEF cols, at
    <3> QED
      BY <1>1, <2>3
  <2>5. 1 \in DOMAIN cols
    BY <1>1, <2>2, <2>3
  <2>6. cols # <<>>
    <3> HIDE DEF cols, at
    <3> QED
      BY <2>5
  <2> HIDE DEF cols, at
  <2> QED
    BY <1>1, <2>1, <2>2, <2>3, <2>4, <2>6
<1> QED
  BY <1>2, <1>3

(* The same columns are on, the same are drawn.                            *)
LEMMA SpelledOut ==
  ASSUME diag.picker = "ids", NEW present
  PROVE  (\A i \in DOMAIN present : present[i] \in DOMAIN diag.columns)
            => Projected(Spelled(diag), present) = Projected(<<>>, present)
<1> SUFFICES ASSUME \A i \in DOMAIN present : present[i] \in DOMAIN diag.columns
             PROVE  Projected(Spelled(diag), present) = Projected(<<>>, present)
  OBVIOUS
<1>1. ASSUME NEW i \in DOMAIN present
      PROVE  (ColOn(Spelled(diag), present[i]) \/ Of(present[i]).mandatory) <=> (ColOn(<<>>, present[i]) \/ Of(present[i]).mandatory)
  <2>1. present[i] \in DOMAIN diag.columns /\ present[i] \notin DOMAIN <<>>
    OBVIOUS
  <2>2. Spelled(diag)[present[i]] = (Of(present[i]).on \/ Of(present[i]).mandatory) /\ present[i] \in DOMAIN Spelled(diag)
    BY <2>1 DEF Spelled, FullVis, Of
  <2> QED
    BY <2>1, <2>2 DEF ColOn
<1>2. ColumnsOn(Spelled(diag), present) = ColumnsOn(<<>>, present)
  BY <1>1 DEF ColumnsOn, Places
<1> QED
  BY <1>2 DEF Projected

LEMMA Brought ==
  ASSUME diag \in Tables, NEW loaded \in diag.loads
  PROVE  /\ loaded.present # <<>> /\ Len(loaded.present) \in Nat /\ DOMAIN loaded.present = 1..Len(loaded.present)
         /\ \A i \in DOMAIN loaded.present : loaded.present[i] \in DOMAIN diag.columns
<1> DEFINE p == loaded.present
           D == DOMAIN diag.columns
<1>1. p \in Seq(D) \ {<<>>}
  BY Zenon, TablesAssumption
<1> HIDE DEF p, D
<1>2. p # <<>> /\ Len(p) \in Nat /\ DOMAIN p = 1..Len(p) /\ \A i \in DOMAIN p : p[i] \in D
  BY <1>1
<1> QED
  BY <1>2 DEF p, D

(* Whatever is drawn anew is sorted by a column it shows.                  *)
LEMMA RebuildSorts ==
  ASSUME NEW vis, NEW loaded \in diag.loads, diag \in Tables, Rebuild(vis, loaded), diag' = diag
  PROVE  /\ diagCols' = Projected(vis, loaded.present) /\ diagCols' # <<>>
         /\ diagSortCol' \in DOMAIN diagCols' /\ diagCols'[diagSortCol'] = diagSortName'
         /\ diagBarCol' = BarFor(diagCols, diagSortName)'
         /\ ~MemoUsed'
<1> DEFINE cols == Projected(vis, loaded.present)
<1>1. loaded.present # <<>> /\ Len(loaded.present) \in Nat /\ DOMAIN loaded.present = 1..Len(loaded.present)
  BY Brought
<1>2. cols # <<>> /\ Len(cols) \in Nat \ {0} /\ DOMAIN cols = 1..Len(cols)
  BY <1>1, SomeColumn
<1>3. /\ diagCols' = cols /\ diagSortName' = SortFalls(cols) /\ diagSortCol' = PlaceOf(SortFalls(cols), cols)
      /\ diagBarCol' = BarFor(cols, SortFalls(cols)) /\ metricsDirty' = TRUE
  BY DEF Rebuild
<1> HIDE DEF cols
<1>4. \A c : (\E i \in DOMAIN cols : cols[i] = c) => PlaceOf(c, cols) \in DOMAIN cols /\ cols[PlaceOf(c, cols)] = c
  BY DEF PlaceOf, Places
<1>5. \A c : PlaceOf(c, cols) > 0 => \E i \in DOMAIN cols : cols[i] = c
  BY DEF PlaceOf, Places
<1>6. \E i \in DOMAIN cols : cols[i] = SortFalls(cols)
  BY <1>2, <1>5 DEF SortFalls
<1>7. diagSortCol' \in DOMAIN diagCols' /\ diagCols'[diagSortCol'] = diagSortName'
  BY <1>3, <1>4, <1>6
<1>8. diagBarCol' = BarFor(diagCols, diagSortName)'
  BY <1>3 DEF BarFor, Of
<1> QED
  BY <1>2, <1>3, <1>7, <1>8 DEF MemoUsed, cols

(* The selection is what the prefs file seeds, or as good as.              *)
LEMMA SeededAlike ==
  ASSUME PrefsKept, diag \in Tables, result \in diag.loads
  PROVE  Projected(colsVisible, result.present) = Projected(SeededVis(colPrefs), result.present)
<1>1. CASE diag.picker = "ids" /\ colPrefs = <<>> /\ colsVisible = Spelled(diag)
  <2>1. \A i \in DOMAIN result.present : result.present[i] \in DOMAIN diag.columns
    BY Brought
  <2>2. SeededVis(colPrefs) = <<>>
    BY <1>1 DEF SeededVis
  <2> QED
    BY <1>1, <2>1, <2>2, SpelledOut
<1> QED
  BY <1>1 DEF PrefsKept

Showing == diag \in Tables /\ result \in diag.loads /\ diagCols # <<>> /\ inspector = "table"

LEMMA InvShows == TableInv /\ diagCols # <<>> => Showing /\ PrefsKept
  BY DEF TableInv, Showing

(* A step that draws nothing anew.                                         *)
Untouched ==
  /\ UNCHANGED <<inspector, diag, result, diagCols, diagBarCol, diagTotalRow>>
  /\ diagSortCol' = diagSortCol /\ diagSortName' = diagSortName

LEMMA StaysDrawn ==
  ASSUME TableInv, Showing, PrefsKept, Untouched, PrefsKept',
         Projected(colsVisible, result.present)' = Projected(colsVisible, result.present),
         MemoUsed' => memo' = Metrics
  PROVE  TableInv'
<1>1. Metrics' = Metrics
  BY MetricsAre DEF Untouched
<1>2. Showing' /\ diagCols' # <<>>
  BY DEF Showing, Untouched
<1>3. BarFor(diagCols, diagSortName)' = BarFor(diagCols, diagSortName)
  BY DEF BarFor, PlaceOf, Places, Of, Untouched
<1>4. diagCols' = Projected(colsVisible, result.present)'
  BY DEF Untouched, TableInv, Showing
<1>5. diagSortCol' \in DOMAIN diagCols' /\ diagCols'[diagSortCol'] = diagSortName'
  BY DEF Untouched, TableInv, Showing
<1>6. diagBarCol' = BarFor(diagCols, diagSortName)'
  BY <1>3 DEF Untouched, TableInv, Showing
<1> QED
  BY <1>1, <1>2, <1>4, <1>5, <1>6 DEF TableInv, Showing

LEMMA OpenPickerKeeps ==
  ASSUME TableInv, OpenPicker, inspector' = inspector
  PROVE  TableInv'
<1>1. Showing /\ PrefsKept
  BY InvShows DEF OpenPicker
<1>2. /\ Untouched /\ colPrefs' = colPrefs /\ memo' = memo /\ metricsDirty' = metricsDirty /\ colsVisible' = MaterialVis
  BY DEF OpenPicker, shownVars, Untouched
<1>3. PrefsKept' /\ Projected(colsVisible, result.present)' = Projected(colsVisible, result.present)
  <2>1. Projected(colsVisible, result.present)' = Projected(colsVisible', result.present)
    BY <1>2 DEF Projected, ColumnsOn, ColOn, Places, Of, Untouched
  <2>2. CASE diag.picker = "ids" /\ colsVisible = <<>>
    <3>1. colsVisible' = Spelled(diag)
      BY <1>2, <2>2 DEF MaterialVis, Spelled, FullVis, Of, Places
    <3>2. colPrefs' = <<>> /\ diag'.picker = "ids" /\ diag' = diag
      BY <1>1, <1>2, <2>2 DEF PrefsKept, SeededVis, Untouched
    <3>3. PrefsKept'
      BY <3>1, <3>2 DEF PrefsKept
    <3>4. \A i \in DOMAIN result.present : result.present[i] \in DOMAIN diag.columns
      BY <1>1, Brought DEF Showing
    <3>5. Projected(Spelled(diag), result.present) = Projected(<<>>, result.present)
      BY <2>2, <3>4, SpelledOut
    <3> QED
      BY <2>1, <2>2, <3>1, <3>3, <3>5
  <2>3. CASE ~(diag.picker = "ids" /\ colsVisible = <<>>)
    <3>1. colsVisible' = colsVisible
      BY <1>2, <2>3 DEF MaterialVis
    <3>2. PrefsKept'
      BY <1>1, <1>2, <3>1 DEF PrefsKept, SeededVis, DefaultVis, Spelled, FullVis, Of, Places, Untouched
    <3> QED
      BY <2>1, <3>1, <3>2
  <2> QED
    BY <2>2, <2>3
<1>4. MemoUsed' => memo' = Metrics
  <2>1. MemoUsed' = MemoUsed
    BY <1>2 DEF MemoUsed, Untouched
  <2> QED
    BY <1>1, <1>2, <2>1 DEF TableInv, Showing
<1> QED
  BY <1>1, <1>2, <1>3, <1>4, StaysDrawn

(* The steps that draw anew.                                               *)
LEMMA DrawnAnew ==
  ASSUME inspector = "table", diag \in Tables, NEW vis, NEW loaded \in diag.loads, Rebuild(vis, loaded),
         UNCHANGED <<inspector, diag>>, result' = loaded, colsVisible' = vis, PrefsKept'
  PROVE  TableInv'
<1>1. /\ diagCols' = Projected(vis, loaded.present) /\ diagCols' # <<>>
      /\ diagSortCol' \in DOMAIN diagCols' /\ diagCols'[diagSortCol'] = diagSortName'
      /\ diagBarCol' = BarFor(diagCols, diagSortName)' /\ ~MemoUsed'
  BY RebuildSorts
<1>2. Projected(colsVisible, result.present)' = Projected(vis, loaded.present)
  BY DEF Projected, ColumnsOn, ColOn, Places, Of
<1> QED
  BY <1>1, <1>2 DEF TableInv

LEMMA LoadKeeps ==
  ASSUME TableInv, inspector = "table", NEW loaded \in diag.loads, OnDiagnosticLoaded(loaded), inspector' = inspector
  PROVE  TableInv'
<1>1. PrefsKept' /\ diag \in Tables
  BY DEF TableInv, OnDiagnosticLoaded, PrefsKept, SeededVis, DefaultVis, Spelled, FullVis, Of, Places
<1>2. Rebuild(colsVisible, loaded) /\ UNCHANGED <<diag, colsVisible>> /\ result' = loaded
  BY DEF OnDiagnosticLoaded
<1> QED
  BY <1>1, <1>2, DrawnAnew

LEMMA ColumnsCount ==
  ASSUME diag \in Tables
  PROVE  DOMAIN diag.columns = 1..Len(diag.columns) /\ Len(diag.columns) \in Nat
<1> DEFINE c == diag.columns
<1>1. c \in Seq({c[k] : k \in DOMAIN c})
  BY Zenon, TablesAssumption
<1> HIDE DEF c
<1>2. DOMAIN c = 1..Len(c) /\ Len(c) \in Nat
  BY <1>1
<1> QED
  BY <1>2 DEF c

LEMMA ToggleKeeps ==
  ASSUME TableInv, inspector = "table", ToggleColumnAt, inspector' = inspector
  PROVE  TableInv'
<1>1. diag \in Tables
  BY DEF TableInv
<1>2. diagCols # <<>>
  <2>1. cfgCursor \in DOMAIN Listing
    BY DEF ToggleColumnAt, Places
  <2>2. CASE diagCols = <<>>
    <3>1. cfgCursor = 0 /\ result.present = <<>>
      BY <2>2 DEF TableInv
    <3>2. 0 \notin DOMAIN diag.columns
      BY <1>1, ColumnsCount
    <3> QED
      BY <2>1, <3>1, <3>2 DEF Listing, Places
  <2> QED
    BY <2>2
<1>3. Showing
  BY <1>2, InvShows
<1> DEFINE c == Listing[cfgCursor]
           vis == IF diag.picker = "names" /\ colsVisible = <<>> THEN FullVis(LAMBDA k : TRUE, Present) ELSE MaterialVis
           toggled == [k \in {c} \cup DOMAIN vis |-> IF k = c THEN ~ColOn(vis, c) ELSE vis[k]]
<1>4. colsVisible' = toggled /\ colPrefs' = toggled /\ Rebuild(toggled, result)
  BY DEF ToggleColumnAt
<1> HIDE DEF c, vis
<1>5. toggled # <<>>
  <2>1. c \in DOMAIN toggled
    OBVIOUS
  <2> QED
    BY <2>1
<1>6. UNCHANGED <<diag, result>>
  BY DEF ToggleColumnAt
<1> HIDE DEF toggled
<1>7. PrefsKept'
  BY <1>4, <1>5 DEF PrefsKept, SeededVis
<1> QED
  BY <1>1, <1>3, <1>4, <1>6, <1>7, DrawnAnew DEF Showing

LEMMA ResetKeeps ==
  ASSUME TableInv, inspector = "table", ResetColumns, inspector' = inspector
  PROVE  TableInv'
<1>1. diagCols # <<>>
  BY DEF TableInv, ResetColumns
<1>2. Showing
  BY <1>1, InvShows
<1>3. PICK vis : /\ vis = IF diag.picker = "names" THEN DefaultVis ELSE Spelled(diag)
                 /\ colsVisible' = vis /\ Rebuild(vis, result)
                 /\ colPrefs' = IF diag.picker = "names" THEN <<>> ELSE vis
  BY DEF ResetColumns, Spelled, FullVis, Of, Places
<1>4. UNCHANGED <<diag, result>>
  BY DEF ResetColumns
<1>5. PrefsKept'
  <2>1. CASE diag.picker = "names"
    <3>1. colPrefs' = <<>> /\ colsVisible' = DefaultVis /\ DefaultVis' = DefaultVis /\ diag'.picker = "names"
      BY <1>3, <1>4, <2>1 DEF DefaultVis, Places, Of
    <3> QED
      BY <3>1 DEF PrefsKept, SeededVis
  <2>2. CASE diag.picker # "names"
    <3>1. colPrefs' = Spelled(diag) /\ colsVisible' = Spelled(diag)
      BY <1>3, <2>2
    <3>2. DOMAIN Spelled(diag) = DOMAIN diag.columns
      BY DEF Spelled, FullVis
    <3>3. \E i \in DOMAIN result.present : result.present[i] \in DOMAIN diag.columns
      <4>1. result.present # <<>> /\ Len(result.present) \in Nat /\ DOMAIN result.present = 1..Len(result.present)
        BY <1>2, Brought DEF Showing
      <4>2. \A i \in DOMAIN result.present : result.present[i] \in DOMAIN diag.columns
        BY <1>2, Brought DEF Showing
      <4>3. result.present \in Seq(DOMAIN diag.columns)
        BY Zenon, <1>2, TablesAssumption DEF Showing
      <4> DEFINE p == result.present
                 D == DOMAIN diag.columns
      <4>4. p \in Seq(D) /\ p # <<>>
        BY <4>1, <4>3
      <4> HIDE DEF p, D
      <4>5. 1 \in DOMAIN p /\ p[1] \in D
        BY <4>4
      <4> QED
        BY <4>5 DEF p, D
    <3>4. Spelled(diag) # <<>>
      BY <3>2, <3>3
    <3> QED
      BY <3>1, <3>4 DEF PrefsKept, SeededVis
  <2> QED
    BY <2>1, <2>2
<1> QED
  BY <1>2, <1>3, <1>4, <1>5, DrawnAnew DEF Showing

(* The steps that do not.                                                  *)
SamePrefs == UNCHANGED <<colsVisible, colPrefs>>

LEMMA SameSelection ==
  ASSUME Untouched, SamePrefs, PrefsKept
  PROVE  PrefsKept' /\ Projected(colsVisible, result.present)' = Projected(colsVisible, result.present)
<1>1. PrefsKept'
  BY DEF PrefsKept, SeededVis, DefaultVis, Spelled, FullVis, Of, Places, Untouched, SamePrefs
<1>2. Projected(colsVisible, result.present)' = Projected(colsVisible, result.present)
  BY DEF Projected, ColumnsOn, ColOn, Places, Of, Untouched, SamePrefs
<1> QED
  BY <1>1, <1>2

(* Before a load there is nothing.                                         *)
LEMMA StaysBlank ==
  ASSUME TableInv, inspector = "table", diagCols = <<>>,
         UNCHANGED <<inspector, diag, diagCols, result, cfgCursor, colPrefs, colsVisible>>
  PROVE  TableInv'
<1>1. PrefsKept'
  BY DEF TableInv, PrefsKept, SeededVis, DefaultVis, Spelled, FullVis, Of, Places
<1> QED
  BY <1>1 DEF TableInv

LEMMA RenderKeeps ==
  ASSUME TableInv, Render, inspector' = inspector
  PROVE  TableInv'
<1>1. Showing /\ PrefsKept /\ Untouched /\ SamePrefs
  BY InvShows DEF Render, Untouched, SamePrefs
<1>2. memo' = Metrics
  BY DEF Render, InUse, TableInv
<1> QED
  BY <1>1, <1>2, SameSelection, StaysDrawn

LEMMA QuietKeeps ==
  ASSUME TableInv, inspector = "table", inspector' = inspector,
         (\E w \in TableWidths : ResizeTable(w)) \/ ClosePicker \/ \E by \in {-1, 1} : MovePicker(by)
  PROVE  TableInv'
<1>1. UNCHANGED <<diag, result, colsVisible, colPrefs, shownVars, memo>>
  BY DEF ResizeTable, ClosePicker, MovePicker
<1>2. CASE diagCols = <<>>
  <2>1. cfgCursor' = cfgCursor
    BY <1>2 DEF TableInv, ResizeTable, ClosePicker, MovePicker
  <2> QED
    BY <1>1, <1>2, <2>1, StaysBlank DEF shownVars
<1>3. CASE diagCols # <<>>
  <2>1. Showing /\ PrefsKept /\ Untouched /\ SamePrefs
    BY <1>1, <1>3, InvShows DEF shownVars, Untouched, SamePrefs
  <2>2. MemoUsed' => memo' = Metrics
    BY <1>1, <1>3 DEF MemoUsed, shownVars, TableInv
  <2> QED
    BY <2>1, <2>2, SameSelection, StaysDrawn
<1> QED
  BY <1>2, <1>3

LEMMA SortKeeps ==
  ASSUME TableInv, inspector = "table", inspector' = inspector, NEW dir \in {-1, 1}, CycleSort(dir)
  PROVE  TableInv'
<1> DEFINE n == Len(diagCols)
           next == ((diagSortCol - 1 + dir + n) % n) + 1
           bar == BarFor(diagCols, diagCols[next])
<1>1. /\ n >= 2 /\ diagSortCol' = next /\ diagSortName' = diagCols[next]
      /\ diagBarCol' = bar /\ metricsDirty' = (metricsDirty \/ bar # diagBarCol)
      /\ UNCHANGED <<diag, result, colsVisible, colPrefs, cfgCursor, diagCols, diagTotalRow, memo>>
  BY DEF CycleSort
<1>2. diagCols # <<>>
  BY <1>1
<1>3. Showing /\ PrefsKept
  BY <1>2, InvShows
<1>4. n \in Nat /\ DOMAIN diagCols = 1..n /\ diagSortCol \in 1..n
  <2>1. result.present # <<>> /\ Len(result.present) \in Nat /\ DOMAIN result.present = 1..Len(result.present)
    BY <1>3, Brought DEF Showing
  <2>2. diagCols = Projected(colsVisible, result.present)
    BY <1>2 DEF TableInv
  <2>3. n \in Nat /\ DOMAIN diagCols = 1..n
    BY <2>1, <2>2, SomeColumn
  <2> QED
    BY <1>2, <2>3 DEF TableInv
<1>5. next \in 1..n
  <2> DEFINE z == diagSortCol - 1 + dir + n
  <2>1. z \in Int /\ n > 0
    BY <1>1, <1>4
  <2> HIDE DEF z
  <2>2. z % n \in 0..(n - 1)
    BY <1>4, <2>1
  <2> QED
    BY <1>4, <2>2 DEF z
<1> HIDE DEF n, next
<1>6. diagSortCol' \in DOMAIN diagCols' /\ diagCols'[diagSortCol'] = diagSortName'
  BY <1>1, <1>4, <1>5
<1>7. diagBarCol' = BarFor(diagCols, diagSortName)'
  BY <1>1 DEF BarFor, PlaceOf, Places, Of
<1>8. MemoUsed' => memo' = Metrics'
  <2>1. MemoUsed' => MemoUsed /\ diagBarCol' = diagBarCol
    BY <1>1 DEF MemoUsed
  <2>2. diagBarCol' = diagBarCol => Metrics' = Metrics
    BY <1>1, MetricsAre
  <2> QED
    BY <1>1, <1>2, <2>1, <2>2 DEF TableInv
<1>9. PrefsKept'
  BY <1>1, <1>3 DEF PrefsKept, SeededVis, DefaultVis, Spelled, FullVis, Of, Places
<1>10. diagCols' = Projected(colsVisible, result.present)'
  BY <1>1, <1>2 DEF TableInv, Projected, ColumnsOn, ColOn, Places, Of
<1> QED
  BY <1>1, <1>2, <1>3, <1>6, <1>7, <1>8, <1>9, <1>10 DEF TableInv, Showing

LEMMA RestartKeeps ==
  ASSUME TableInv, inspector = "table", inspector' = inspector, RestartTable
  PROVE  TableInv'
<1>1. /\ colsVisible' = SeededVis(colPrefs) /\ UNCHANGED <<diag, colPrefs>> /\ diagCols' = <<>> /\ cfgCursor' = 0
      /\ result'.present = <<>>
  BY DEF RestartTable
<1>2. PrefsKept'
  BY <1>1 DEF PrefsKept, SeededVis, DefaultVis, Of, Places
<1> QED
  BY <1>1, <1>2 DEF TableInv

LEMMA TableStep == TableInv /\ [InspectNext]_inspectVars => TableInv'
<1> SUFFICES ASSUME TableInv, [InspectNext]_inspectVars
             PROVE  TableInv'
  OBVIOUS
<1>1. CASE inspector = "table" /\ DiagNext /\ inspector' = inspector
  <2>1. CASE Render
    BY <1>1, <2>1, RenderKeeps
  <2>2. CASE \E loaded \in diag.loads : OnDiagnosticLoaded(loaded)
    BY <1>1, <2>2, LoadKeeps
  <2>3. CASE OpenPicker
    BY <1>1, <2>3, OpenPickerKeeps
  <2>4. CASE ToggleColumnAt
    BY <1>1, <2>4, ToggleKeeps
  <2>5. CASE ResetColumns
    BY <1>1, <2>5, ResetKeeps
  <2>6. CASE RestartTable
    BY <1>1, <2>6, RestartKeeps
  <2>7. CASE (\E w \in TableWidths : ResizeTable(w)) \/ ClosePicker \/ \E by \in {-1, 1} : MovePicker(by)
    BY <1>1, <2>7, QuietKeeps
  <2>8. CASE \E dir \in {-1, 1} : CycleSort(dir)
    BY <1>1, <2>8, SortKeeps
  <2> QED
    BY <1>1, <2>1, <2>2, <2>3, <2>4, <2>5, <2>6, <2>7, <2>8 DEF DiagNext
<1>2. CASE UNCHANGED diagVars /\ inspector' = inspector
  <2>1. Metrics' = Metrics
    BY <1>2, MetricsAre DEF diagVars, shownVars
  <2>2. PrefsKept' <=> PrefsKept
    BY <1>2 DEF diagVars, PrefsKept, SeededVis, DefaultVis, Spelled, FullVis, Of, Places
  <2>3. Projected(colsVisible, result.present)' = Projected(colsVisible, result.present)
    BY <1>2 DEF diagVars, shownVars, Projected, ColumnsOn, ColOn, Places, Of
  <2>4. BarFor(diagCols, diagSortName)' = BarFor(diagCols, diagSortName)
    BY <1>2 DEF diagVars, shownVars, BarFor, PlaceOf, Places, Of
  <2>5. MemoUsed' <=> MemoUsed
    BY <1>2 DEF diagVars, shownVars, MemoUsed
  <2>6. UNCHANGED <<inspector, diag, result, diagCols, diagSortCol, diagSortName, diagBarCol, memo, cfgCursor>>
    BY <1>2 DEF diagVars, shownVars
  <2> QED
    BY <2>1, <2>2, <2>3, <2>4, <2>5, <2>6 DEF TableInv
<1> QED
  BY <1>1, <1>2 DEF InspectNext, inspectVars, layoutVars

(* rebuildDiagItems, visibleCols, syncSort, syncStmtBar and diagMetrics:   *)
(* through any loads, picks, sorts and restarts, a table shows the columns *)
(* picked, those a restart would show of the same result; it is sorted by  *)
(* one of them and has its bar where the sort says; and no frame is drawn  *)
(* from widths of other cells.                                             *)
THEOREM TableAlwaysCurrent == InspectSpec => []TableCurrent
<1>1. InspectInit => TableInv
  <2> SUFFICES ASSUME InspectInit
               PROVE  TableInv
    OBVIOUS
  <2>1. diagCols = <<>> /\ cfgCursor = 0 /\ result.present = <<>>
    <3>1. NoDiag \/ DiagInit
      BY DEF InspectInit, NoLayout
    <3>2. \E t : OpensWith(t)
      BY <3>1 DEF NoDiag, DiagInit
    <3> QED
      BY <3>2 DEF OpensWith
  <2>2. inspector = "table" => \E t \in Tables : OpensWith(t)
    BY DEF InspectInit, DiagInit
  <2>3. \A t \in Tables : OpensWith(t) => diag \in Tables /\ PrefsKept
    BY DEF OpensWith, PrefsKept, SeededVis, DefaultVis, Of, Places
  <2> QED
    BY <2>1, <2>2, <2>3 DEF TableInv
<1>2. TableInv => TableCurrent
  <2> SUFFICES ASSUME TableInv, diagCols # <<>>
               PROVE  TableCurrent
    BY DEF TableCurrent, SelectionKept, WidthsFresh
  <2>1. Showing /\ PrefsKept
    BY InvShows
  <2>2. Projected(colsVisible, result.present) = Projected(SeededVis(colPrefs), result.present)
    BY <2>1, SeededAlike DEF Showing
  <2>3. InUse = Metrics
    BY DEF InUse, TableInv
  <2> QED
    BY <2>2, <2>3 DEF TableInv, TableCurrent, SelectionKept, WidthsFresh, Places
<1> QED
  BY <1>1, <1>2, TableStep, PTL DEF InspectSpec

-----------------------------------------------------------------------------
(* The frames.  A non-empty set of numbers has a least and, under a bound, *)
(* a greatest.                                                             *)
LEMMA LeastOf ==
  ASSUME NEW T \in SUBSET Nat, T # {}
  PROVE  Min(T) \in T /\ \A y \in T : Min(T) <= y
<1>1. \E R : IsWellFoundedOn(R, Nat) /\ \A x, y \in Nat : y < x => <<y, x>> \in R
  <2>1. \A x, y \in Nat : y < x => <<y, x>> \in OpToRel(<, Nat)
    BY DEF OpToRel
  <2> QED
    BY <2>1, NatLessThanWellFounded
<1>2. PICK R : IsWellFoundedOn(R, Nat) /\ \A x, y \in Nat : y < x => <<y, x>> \in R
  BY <1>1
<1>3. PICK x \in T : \A y \in T : ~(<<y, x>> \in R)
  BY <1>2, WFMin
<1>4. \A y \in T : ~(y < x)
  BY <1>2, <1>3
<1>5. \A y \in T : x <= y
  BY <1>4
<1> QED
  BY <1>3, <1>5 DEF Min

LEMMA GreatestOf ==
  ASSUME NEW n \in Nat, NEW S \in SUBSET (0..n), S # {}
  PROVE  Max(S) \in S /\ \A y \in S : Max(S) >= y
<1> DEFINE T == {n - x : x \in S}
<1>1. T \in SUBSET Nat /\ T # {}
  <2>1. \A x \in S : n - x \in Nat
    OBVIOUS
  <2> QED
    BY <2>1
<1>2. Min(T) \in T /\ \A y \in T : Min(T) <= y
  BY <1>1, LeastOf
<1>3. PICK x \in S : Min(T) = n - x
  BY <1>2
<1>4. \A y \in S : x >= y
  <2> SUFFICES ASSUME NEW y \in S PROVE x >= y
    OBVIOUS
  <2>1. n - x <= n - y
    BY <1>2, <1>3
  <2> QED
    BY <2>1
<1> QED
  BY <1>3, <1>4 DEF Max

(* What a view may be.                                                     *)
InView ==
  /\ view \in Views /\ listed \in view.loads /\ height \in Nat /\ offset \in Int /\ cursor \in Nat
  /\ narrowed \in {"off", "open", "typed", "kept"}
FrameInv ==
  /\ InView
  /\ Overview => cursor < Len(listed) + ResetRows
  /\ ~Overview => cursor <= Greater(Len(VisibleIndexes) - 1, 0)
  /\ follow => Overview /\ view.over = "none"
  /\ "filter" \notin view.keys => narrowed = "off"
  /\ OnRows /\ "filter" \notin view.keys /\ listed # <<>> => ~InertRow(listed, VisibleIndexes[cursor + 1])

LEMMA ListOf ==
  ASSUME NEW v \in Views, NEW its \in v.loads
  PROVE  /\ its \in Seq(STRING) /\ Len(its) \in Nat /\ DOMAIN its = 1..Len(its)
         /\ (its # <<>> => its[1] # "section") /\ (its = <<>> <=> Len(its) = 0) /\ v.lines \in Nat
<1>1. its \in Seq(STRING) /\ (its # <<>> => its[1] # "section") /\ v.lines \in Nat
  BY Zenon, FrameAssumption
<1>2. \A s \in Seq(STRING) : Len(s) \in Nat /\ DOMAIN s = 1..Len(s) /\ (s = <<>> <=> Len(s) = 0)
  OBVIOUS
<1> QED
  BY Zenon, <1>1, <1>2

(* The its a filter leaves are some of the list.                          *)
IndexesOf(its, v, by) ==
  LET stays == {i \in DOMAIN its : i \in v.matches \/ InertRow(its, i)}
  IN  IF by \in {"typed", "kept"} THEN Ascending(stays) ELSE [i \in DOMAIN its |-> i]

LEMMA IndexesAre ==
  /\ VisibleIndexes = IndexesOf(listed, view, narrowed)
  /\ VisibleIndexes' = IndexesOf(listed', view', narrowed')
  BY DEF VisibleIndexes, IndexesOf, InertRow

LEMMA AscendingIs ==
  ASSUME NEW n \in Nat, NEW set \in SUBSET (1..n)
  PROVE  LET all == Ascending(set)
         IN  Len(all) \in Nat /\ DOMAIN all = 1..Len(all) /\ Len(all) <= n /\ (all = <<>> <=> Len(all) = 0)
<1>1. Cardinality(set) \in Nat /\ Cardinality(set) <= n
  <2>1. IsFiniteSet(1..n) /\ Cardinality(1..n) = n
    BY FS_Interval
  <2>2. IsFiniteSet(set) /\ Cardinality(set) <= Cardinality(1..n)
    BY <2>1, FS_Subset
  <2>3. Cardinality(set) \in Nat
    BY <2>2, FS_CardinalityType
  <2> QED
    BY <2>1, <2>2, <2>3
<1> DEFINE c == Cardinality(set)
           nth(k) == CHOOSE i \in set : Cardinality({j \in set : j < i}) = k - 1
           f == [k \in 1..c |-> nth(k)]
<1>2. Ascending(set) = f
  BY DEF Ascending
<1> HIDE DEF c, nth
<1>3. c \in Nat /\ c <= n
  BY <1>1 DEF c
<1>4. f \in Seq({nth(k) : k \in 1..c}) /\ Len(f) = c
  BY <1>3 DEF Seq
<1>5. f = <<>> <=> c = 0
  BY <1>3, <1>4
<1> QED
  BY <1>2, <1>3, <1>4, <1>5

LEMMA Indexes ==
  ASSUME NEW v \in Views, NEW its \in v.loads, NEW by
  PROVE  LET all == IndexesOf(its, v, by)
         IN  /\ Len(all) \in Nat /\ DOMAIN all = 1..Len(all) /\ Len(all) <= Len(its) /\ (all = <<>> <=> Len(all) = 0)
             /\ by \notin {"typed", "kept"} => all = [i \in DOMAIN its |-> i] /\ Len(all) = Len(its)
<1> DEFINE stays == {i \in DOMAIN its : i \in v.matches \/ InertRow(its, i)}
           id == [i \in DOMAIN its |-> i]
           all == IndexesOf(its, v, by)
<1>1. Len(its) \in Nat /\ DOMAIN its = 1..Len(its)
  BY ListOf
<1>2. stays \in SUBSET (1..Len(its))
  BY <1>1
<1>3. CASE by \in {"typed", "kept"}
  <2>1. all = Ascending(stays)
    BY <1>3 DEF IndexesOf
  <2> HIDE DEF stays, all
  <2>2. Len(Ascending(stays)) \in Nat /\ DOMAIN Ascending(stays) = 1..Len(Ascending(stays))
        /\ Len(Ascending(stays)) <= Len(its) /\ (Ascending(stays) = <<>> <=> Len(Ascending(stays)) = 0)
    BY <1>1, <1>2, AscendingIs
  <2> QED
    BY Zenon, <1>3, <2>1, <2>2 DEF all
<1>4. CASE by \notin {"typed", "kept"}
  <2>1. all = id
    BY <1>4 DEF IndexesOf
  <2>2. id \in Seq(Nat) /\ Len(id) = Len(its) /\ DOMAIN id = 1..Len(its)
    BY <1>1
  <2>3. id = <<>> <=> Len(id) = 0
    BY <1>1, <2>2
  <2>4. Len(id) \in Nat /\ DOMAIN id = 1..Len(id) /\ Len(id) <= Len(its)
    BY <1>1, <2>2
  <2> QED
    BY Zenon, <2>1, <2>2, <2>3, <2>4
<1> QED
  BY <1>3, <1>4

(* A row that answers to keys is found from any row, when there is one.    *)
LEMMA Skipped ==
  ASSUME NEW its, NEW visible, Len(visible) \in Nat, DOMAIN visible = 1..Len(visible), NEW c \in Nat, NEW forward \in BOOLEAN,
         c <= Greater(Len(visible) - 1, 0)
  PROVE  LET to == SkipInertRow(its, visible, c, forward)
         IN  /\ to \in Nat /\ to <= Greater(Len(visible) - 1, 0)
             /\ (\E i \in DOMAIN visible : ~InertRow(its, visible[i])) => ~InertRow(its, visible[to + 1])
<1> DEFINE n == Len(visible)
           free   == {i \in DOMAIN visible : ~InertRow(its, visible[i])}
           before == {i \in free : i < c + 1}
           after  == {i \in free : i > c + 1}
           to == SkipInertRow(its, visible, c, forward)
<1>1. free \in SUBSET (1..n) /\ after \in SUBSET Nat /\ before \in SUBSET (0..n) /\ n \in Nat
  OBVIOUS
<1>2. after # {} => Min(after) \in after
  BY <1>1, LeastOf
<1>3. before # {} => Max(before) \in before
  <2> HIDE DEF before
  <2> QED
    BY <1>1, GreatestOf
<1>4. to = IF c + 1 \notin DOMAIN visible \/ c + 1 \in free THEN c
           ELSE IF after # {} /\ (forward \/ before = {}) THEN Min(after) - 1
           ELSE IF before # {} THEN Max(before) - 1 ELSE c
  BY DEF SkipInertRow
<1>5. free # {} => c + 1 \in DOMAIN visible
  BY <1>1 DEF Greater
<1>6. c + 1 \in DOMAIN visible /\ c + 1 \notin free /\ free # {} => after # {} \/ before # {}
  BY <1>1
<1>7. \A x \in after : x \in free /\ x \in 1..n
  OBVIOUS
<1>8. \A x \in before : x \in free /\ x \in 1..n
  OBVIOUS
<1> HIDE DEF after, before, free, to
<1>9. (free # {} => to + 1 \in free) /\ to \in Nat /\ to <= Greater(n - 1, 0)
  <2>1. CASE c + 1 \notin DOMAIN visible \/ c + 1 \in free
    BY <1>4, <1>5, <2>1
  <2>2. CASE after # {} /\ (forward \/ before = {}) /\ ~(c + 1 \notin DOMAIN visible \/ c + 1 \in free)
    <3>1. to = Min(after) - 1
      BY <1>4, <2>2
    <3>2. Min(after) \in free /\ Min(after) \in 1..n
      BY <1>2, <1>7, <2>2
    <3> QED
      BY <1>1, <3>1, <3>2 DEF Greater
  <2>3. CASE before # {} /\ ~(after # {} /\ (forward \/ before = {})) /\ ~(c + 1 \notin DOMAIN visible \/ c + 1 \in free)
    <3>1. to = Max(before) - 1
      BY <1>4, <2>3
    <3>2. Max(before) \in free /\ Max(before) \in 1..n
      BY <1>3, <1>8, <2>3
    <3> QED
      BY <1>1, <3>1, <3>2 DEF Greater
  <2>4. CASE before = {} /\ after = {} /\ ~(c + 1 \notin DOMAIN visible \/ c + 1 \in free)
    BY <1>4, <1>6, <2>4
  <2> QED
    BY <2>1, <2>2, <2>3, <2>4
<1> QED
  BY <1>9 DEF to, free

-----------------------------------------------------------------------------
(* The content: what it draws of the rows, and in how many lines.          *)
Span == [lines : Int, first : Int, end : Int]
InSight(w) == VisibleIndexes # <<>> => w.first <= cursor /\ cursor < w.end

(* A list that fills so many lines and shows its cursor.                   *)
Fills(w, n) == w \in Span /\ w.lines = n /\ (~Overview => InSight(w))

LEMMA Visible ==
  ASSUME FrameInv
  PROVE  /\ Len(VisibleIndexes) \in Nat /\ DOMAIN VisibleIndexes = 1..Len(VisibleIndexes) /\ Len(VisibleIndexes) <= Len(listed)
         /\ (VisibleIndexes = <<>> <=> Len(VisibleIndexes) = 0)
         /\ Len(listed) \in Nat /\ DOMAIN listed = 1..Len(listed) /\ (listed = <<>> <=> Len(listed) = 0) /\ view.lines \in Nat
         /\ narrowed \notin {"typed", "kept"} => VisibleIndexes = [i \in DOMAIN listed |-> i] /\ Len(VisibleIndexes) = Len(listed)
  BY ListOf, Indexes, IndexesAre DEF FrameInv, InView

LEMMA ListAndText ==
  ASSUME FrameInv
  PROVE  Len(listed) + view.lines \in Nat /\ view.lines \in Nat
<1>1. Len(listed) \in Nat
  BY Zenon, Visible
<1>2. view.lines \in Nat
  BY Zenon, Visible
<1> QED
  BY <1>1, <1>2

LEMMA SliceSpans ==
  ASSUME NEW first \in Int, NEW end \in Int, NEW rowsH \in Int
  PROVE  /\ Slice(first, end, rowsH) \in Span
         /\ Slice(first, end, rowsH).first = first /\ Slice(first, end, rowsH).end = end
         /\ Slice(first, end, rowsH).lines = Greater(end - first, 0) + Greater(rowsH - (end - first), 0)
  BY DEF Slice, Span, Greater

LEMMA WindowFills ==
  ASSUME FrameInv, NEW rowsH \in Int
  PROVE  /\ Window(rowsH) \in Span
         /\ rowsH >= 1 /\ ~Overview => /\ Fills(Window(rowsH), rowsH) /\ Window(rowsH).first >= 0
                                       /\ Window(rowsH).first <= Window(rowsH).end
                                       /\ Window(rowsH).end - Window(rowsH).first <= rowsH
<1> DEFINE n == Len(VisibleIndexes)
           first == IF rowsH > 0 THEN ViewportRange(cursor, offset, rowsH) ELSE offset
           end == Lesser(first + rowsH, n)
<1>1. n \in Nat /\ (VisibleIndexes = <<>> <=> n = 0) /\ cursor \in Nat /\ offset \in Int
  BY Visible DEF FrameInv, InView
<1>2. Window(rowsH) = Slice(first, end, rowsH)
  BY DEF Window, RowsFrom
<1>3. ~Overview => cursor <= Greater(n - 1, 0)
  BY DEF FrameInv
<1>4. first \in Int /\ end \in Int
  BY <1>1 DEF ViewportRange, Greater, Lesser
<1>5. rowsH >= 1 => 0 <= first /\ first <= cursor /\ cursor < first + rowsH
  BY <1>1 DEF ViewportRange, Greater, Lesser
<1> HIDE DEF n, first
<1>6. rowsH >= 1 /\ ~Overview => first <= end /\ end - first <= rowsH /\ (n # 0 => cursor < end)
  BY <1>1, <1>3, <1>4, <1>5 DEF Greater, Lesser
<1> HIDE DEF end
<1>7. Window(rowsH) \in Span /\ Window(rowsH).first = first /\ Window(rowsH).end = end
      /\ Window(rowsH).lines = Greater(end - first, 0) + Greater(rowsH - (end - first), 0)
  BY <1>2, <1>4, SliceSpans
<1>8. rowsH >= 1 /\ ~Overview => Window(rowsH).lines = rowsH
  BY <1>4, <1>6, <1>7 DEF Greater
<1> QED
  BY <1>1, <1>5, <1>6, <1>7, <1>8 DEF Fills, InSight, n

LEMMA AroundFills ==
  ASSUME NEW w \in Span, NEW n \in Int
  PROVE  /\ Around(w, n) \in Span /\ Around(w, n).first = w.first /\ Around(w, n).end = w.end /\ Around(w, n).lines = w.lines + n
         /\ \A k \in Int : Fills(w, k) => Fills(Around(w, n), k + n)
<1>1. Around(w, n) = [lines |-> w.lines + n, first |-> w.first, end |-> w.end]
  BY DEF Around, Span
<1>2. Around(w, n) \in Span /\ Around(w, n).first = w.first /\ Around(w, n).end = w.end /\ Around(w, n).lines = w.lines + n
  BY <1>1 DEF Span
<1> QED
  BY <1>2 DEF Fills, InSight

LEMMA PaddedSpans ==
  ASSUME FrameInv, NEW n \in Int, NEW h \in Int
  PROVE  Padded(n, h) \in Span /\ (h >= n => Padded(n, h).lines = h) /\ Padded(n, h).first = offset
  BY DEF Padded, Drawn, Span, Greater, FrameInv, InView

LEMMA RowListFills ==
  ASSUME FrameInv, NEW h \in Int, NEW footer \in Nat
  PROVE  RowList(h, footer) \in Span /\ (h - footer >= 2 /\ ~Overview => Fills(RowList(h, footer), h))
<1> DEFINE rowsH == Greater(Greater(h - footer, 0) - 1, 0)
<1>1. rowsH \in Int /\ (h - footer >= 2 => rowsH = h - footer - 1 /\ rowsH >= 1)
  BY DEF Greater
<1>2. RowList(h, footer) = Around(Window(rowsH), 1 + footer)
  BY DEF RowList
<1> HIDE DEF rowsH
<1>3. Window(rowsH) \in Span /\ (h - footer >= 2 /\ ~Overview => Fills(Window(rowsH), rowsH))
  BY <1>1, WindowFills
<1>4. Around(Window(rowsH), 1 + footer) \in Span
      /\ (h - footer >= 2 /\ ~Overview => Fills(Around(Window(rowsH), 1 + footer), rowsH + (1 + footer)))
  BY <1>1, <1>3, AroundFills
<1> QED
  BY <1>1, <1>2, <1>4

LEMMA BeneathFills ==
  ASSUME FrameInv, NEW h \in Int, NEW n \in Nat, NEW least \in Nat
  PROVE  /\ Around(Window(Greater(h - n, least)), n) \in Span
         /\ h - n >= 1 /\ h - n >= least /\ ~Overview => Fills(Around(Window(Greater(h - n, least)), n), h)
<1> DEFINE rowsH == Greater(h - n, least)
<1>1. rowsH \in Int /\ (h - n >= 1 /\ h - n >= least => rowsH = h - n /\ rowsH >= 1)
  BY DEF Greater
<1> HIDE DEF rowsH
<1>2. Window(rowsH) \in Span /\ (h - n >= 1 /\ h - n >= least /\ ~Overview => Fills(Window(rowsH), rowsH))
  BY <1>1, WindowFills
<1>3. Around(Window(rowsH), n) \in Span
      /\ (h - n >= 1 /\ h - n >= least /\ ~Overview => Fills(Around(Window(rowsH), n), rowsH + n))
  BY <1>1, <1>2, AroundFills
<1> QED
  BY <1>1, <1>3 DEF rowsH

LEMMA Nothing ==
  ASSUME FrameInv, listed = <<>>
  PROVE  VisibleIndexes = <<>>
  BY Visible

LEMMA DiagResultFills ==
  ASSUME FrameInv, NEW h \in Int
  PROVE  DiagResult(h) \in Span /\ (h >= 4 /\ ~Overview => Fills(DiagResult(h), h))
<1> DEFINE reserve == 1 + Lines("totalRow", 1)
<1>1. reserve \in Nat /\ reserve <= 2
  BY DEF Lines, Opt
<1>2. DiagResult(h) = IF listed = <<>> THEN Padded(1, h) ELSE Around(Window(Greater(h - reserve, 0)), reserve)
  BY DEF DiagResult
<1> HIDE DEF reserve
<1>3. Padded(1, h) \in Span /\ (h >= 4 => Padded(1, h).lines = h)
  BY PaddedSpans
<1>4. /\ Around(Window(Greater(h - reserve, 0)), reserve) \in Span
      /\ h - reserve >= 1 /\ h - reserve >= 0 /\ ~Overview => Fills(Around(Window(Greater(h - reserve, 0)), reserve), h)
  BY <1>1, BeneathFills
<1> QED
  BY <1>1, <1>2, <1>3, <1>4, Nothing DEF Fills, InSight

LEMMA TitledListFills ==
  ASSUME FrameInv, NEW h \in Int, NEW title \in Nat, title <= 3
  PROVE  TitledList(h, title) \in Span /\ (h >= 4 /\ ~Overview => Fills(TitledList(h, title), h))
<1>1. Padded(title + 1, h) \in Span /\ (h >= 4 => Padded(title + 1, h).lines = h)
  BY PaddedSpans
<1>2. /\ Around(Window(Greater(h - title, 0)), title) \in Span
      /\ h - title >= 1 /\ h - title >= 0 /\ ~Overview => Fills(Around(Window(Greater(h - title, 0)), title), h)
  BY BeneathFills
<1>3. TitledList(h, title) = IF listed = <<>> THEN Padded(title + 1, h) ELSE Around(Window(Greater(h - title, 0)), title)
  BY DEF TitledList
<1> QED
  BY <1>1, <1>2, <1>3, Nothing DEF Fills, InSight

LEMMA LogGroupsFill ==
  ASSUME FrameInv, NEW h \in Int
  PROVE  /\ LogGroups(h) \in Span /\ (h >= 4 => LogGroups(h).lines = h \/ Overview)
         /\ h >= 4 /\ ~Overview /\ ~Has("readErr") => Fills(LogGroups(h), h)
<1>1. \A n \in {1, 2} : Padded(n, h) \in Span /\ (h >= 4 => Padded(n, h).lines = h)
  BY PaddedSpans
<1>2. /\ Around(Window(Greater(h - 1, 0)), 1) \in Span
      /\ h - 1 >= 1 /\ h - 1 >= 0 /\ ~Overview => Fills(Around(Window(Greater(h - 1, 0)), 1), h)
  BY BeneathFills
<1>3. LogGroups(h) = IF Has("readErr") THEN Padded(2, h)
                     ELSE IF VisibleIndexes = <<>> THEN Padded(1, h) ELSE Around(Window(Greater(h - 1, 0)), 1)
  BY DEF LogGroups
<1> QED
  BY <1>1, <1>2, <1>3 DEF Fills, InSight

(* What unfolds under the selected line pointer has room, and leaves the   *)
(* line pointer its own.                                                   *)
LEMMA HeapTuplesFill ==
  ASSUME FrameInv, NEW h \in Int
  PROVE  HeapTuples(h) \in Span /\ (h >= 4 /\ ~Overview => Fills(HeapTuples(h), h))
<1> DEFINE rowsH == Greater(h - 1, 0)
           w == Window(rowsH)
           unfolds == Fitting(Unfolded(w), w, rowsH)
           rowLines == Lesser(w.end - w.first, rowsH - unfolds)
<1>1. rowsH \in Int /\ (h >= 4 => rowsH = h - 1 /\ rowsH >= 1) /\ cursor \in Nat
  BY DEF Greater, FrameInv, InView
<1>2. w \in Span /\ (h >= 4 /\ ~Overview => /\ Fills(w, rowsH) /\ w.first >= 0 /\ w.first <= w.end /\ w.end - w.first <= rowsH)
  <2> HIDE DEF rowsH
  <2> QED
    BY <1>1, WindowFills
<1>3. HeapTuples(h) = [w EXCEPT !.lines = 1 + rowLines + unfolds + Greater(rowsH - rowLines - unfolds, 0), !.end = w.first + rowLines]
  BY DEF HeapTuples, HeapTuplesOf, Unfolding, Beside, WithDetail
<1>4. Unfolded(w) \in Nat /\ (cursor < w.first \/ w.end <= cursor => Unfolded(w) = 0)
  <2> HIDE DEF rowsH, w
  <2>1. \A kind : ExpandLines(kind) \in Nat
    BY DEF ExpandLines, Lines, Opt
  <2> QED
    BY <1>1, <1>2, <2>1 DEF Unfolded, Span
<1> HIDE DEF rowsH, w
<1>5. unfolds \in Nat /\ (unfolds # 0 => cursor - w.first + 1 + unfolds <= rowsH /\ unfolds = Unfolded(w))
  <2>1. w.first \in Int
    BY <1>2 DEF Span
  <2> QED
    BY <1>1, <1>4, <2>1 DEF Fitting, Opt
<1> HIDE DEF unfolds
<1>6. rowLines \in Int
  BY <1>1, <1>2, <1>5 DEF Lesser, Span
<1>7. HeapTuples(h) = [lines |-> 1 + rowLines + unfolds + Greater(rowsH - rowLines - unfolds, 0), first |-> w.first,
                       end |-> w.first + rowLines]
  BY <1>2, <1>3 DEF Span
<1>8. HeapTuples(h) \in Span /\ HeapTuples(h).first = w.first /\ HeapTuples(h).end = w.first + rowLines
      /\ HeapTuples(h).lines = 1 + rowLines + unfolds + Greater(rowsH - rowLines - unfolds, 0)
  <2> HIDE DEF rowLines
  <2>1. w.first \in Int
    BY <1>2 DEF Span
  <2> QED
    BY <1>1, <1>5, <1>6, <1>7, <2>1 DEF Greater, Span
<1>9. ASSUME h >= 4, ~Overview
      PROVE  HeapTuples(h).lines = h
  <2>1. w.first \in Int /\ w.end \in Int /\ w.first <= w.end /\ w.end - w.first <= rowsH
    BY <1>2, <1>9 DEF Span
  <2>2. rowLines <= rowsH - unfolds
    BY <1>1, <1>5, <2>1 DEF Lesser
  <2> HIDE DEF rowLines
  <2> QED
    BY <1>1, <1>5, <1>6, <1>8, <1>9, <2>2 DEF Greater
<1>10. ASSUME h >= 4, ~Overview, VisibleIndexes # <<>>
       PROVE  w.first <= cursor /\ cursor < w.first + rowLines
  <2>1. w.first \in Int /\ w.end \in Int /\ w.first <= cursor /\ cursor < w.end
    BY <1>2, <1>10 DEF Span, Fills, InSight
  <2>2. w.end - w.first <= rowsH
    BY <1>2, <1>10
  <2>3. unfolds = 0 \/ cursor - w.first + 1 + unfolds <= rowsH
    BY <1>5
  <2> QED
    BY <1>1, <1>5, <2>1, <2>2, <2>3 DEF Lesser
<1> QED
  BY <1>8, <1>9, <1>10 DEF Fills, InSight

LEMMA PartsFill ==
  ASSUME FrameInv, view.level = "parts", NEW h \in Int
  PROVE  /\ PartsLevel(h) \in Span
         /\ h >= (IF Has("vacuumPane") THEN 6 ELSE 4) => Fills(PartsLevel(h), h)
<1> DEFINE footer == TotalsFooter + 1
           panel  == MaintPanel
<1>1. footer \in {1, 2} /\ panel \in Nat /\ ~Overview
  BY DEF TotalsFooter, Opt, MaintPanel, Lines, Overview
<1>2. \A k \in Int, f \in {0, 1, 2} : RowList(k, f) \in Span /\ (k - f >= 2 => Fills(RowList(k, f), k))
  BY <1>1, RowListFills
<1>3. \A k, n \in Int, f \in {0, 1, 2} :
        /\ Around(RowList(k, f), n) \in Span
        /\ k - f >= 2 => Fills(Around(RowList(k, f), n), k + n)
  BY <1>2, AroundFills
<1>6. \A k, n \in Int : Around(RowList(k, 0), n) \in Span /\ (k >= 2 => Fills(Around(RowList(k, 0), n), k + n))
  BY <1>3
<1>4. CASE Has("vacuumPane")
  <2> DEFINE paneH == h - 9 - footer
             shortH == Greater(h - 4, 1)
             rest == Greater(h - shortH, 1)
  <2>1. PartsLevel(h) = CASE paneH >= 4 -> Around(RowList(9 + footer, footer), paneH)
                          [] paneH < 4 /\ h - 9 >= 4 -> Around(RowList(9, 0), h - 9)
                          [] OTHER -> Around(RowList(shortH, 0), rest)
    BY <1>4 DEF PartsLevel, PartsVacuumListRows, VacuumPaneMin
  <2>2. paneH \in Int /\ shortH \in Int /\ rest \in Int /\ 9 + footer \in Int
    BY <1>1 DEF Greater
  <2>3. h >= 6 => shortH >= 2 /\ shortH + rest = h
    BY DEF Greater
  <2>4. CASE paneH >= 4
    <3>1. PartsLevel(h) = Around(RowList(9 + footer, footer), paneH)
      <4> HIDE DEF paneH, shortH, rest, footer
      <4> QED
        BY <2>1, <2>2, <2>4
    <3>2. 9 + footer - footer >= 2 /\ 9 + footer + paneH = h
      BY <1>1
    <3> DEFINE listH == 9 + footer
    <3>3. listH \in Int /\ footer \in {0, 1, 2} /\ listH - footer >= 2 /\ listH + paneH = h
      BY <1>1
    <3>4. PartsLevel(h) = Around(RowList(listH, footer), paneH)
      BY <3>1
    <3> HIDE DEF listH, footer, paneH
    <3>5. Around(RowList(listH, footer), paneH) \in Span /\ Fills(Around(RowList(listH, footer), paneH), listH + paneH)
      BY <1>3, <2>2, <3>3
    <3> QED
      BY <3>3, <3>4, <3>5
  <2>5. CASE paneH < 4 /\ h - 9 >= 4
    <3>1. PartsLevel(h) = Around(RowList(9, 0), h - 9)
      BY <1>1, <2>1, <2>5
    <3>2. 9 + (h - 9) = h
      OBVIOUS
    <3> QED
      BY <1>3, <3>1, <3>2
  <2>6. CASE paneH < 4 /\ ~(h - 9 >= 4)
    <3>1. PartsLevel(h) = Around(RowList(shortH, 0), rest)
      BY <1>1, <2>1, <2>6
    <3> HIDE DEF shortH, rest
    <3>2. Around(RowList(shortH, 0), rest) \in Span
          /\ (shortH >= 2 => Fills(Around(RowList(shortH, 0), rest), shortH + rest))
      BY <1>6, <2>2
    <3> QED
      BY <1>4, <2>3, <3>1, <3>2
  <2> QED
    BY <1>1, <2>2, <2>4, <2>5, <2>6
<1>5. CASE ~Has("vacuumPane")
  <2> DEFINE few == Opt(h - footer >= 3, footer)
  <2>1. PartsLevel(h) = IF h - footer < 1 THEN RowList(h, 0)
                        ELSE IF panel = 0 THEN RowList(h, footer)
                        ELSE IF h - footer - panel >= 3 THEN Around(RowList(h - panel, footer), panel)
                        ELSE RowList(h, few)
    BY <1>5 DEF PartsLevel
  <2>2. few \in {0, 1, 2} /\ (h >= 4 => h - few >= 2) /\ (h >= 4 => h - footer >= 2)
    BY <1>1 DEF Opt
  <2>3. h - panel \in Int /\ (h - footer - panel >= 3 => (h - panel) - footer >= 2) /\ (h - panel) + panel = h
    BY <1>1
  <2> HIDE DEF few, footer, panel
  <2>4. RowList(h, 0) \in Span /\ (h >= 4 => Fills(RowList(h, 0), h))
    BY <1>2
  <2>5. RowList(h, few) \in Span /\ (h >= 4 => Fills(RowList(h, few), h))
    BY <1>2, <2>2
  <2>6. RowList(h, footer) \in Span /\ (h >= 4 => Fills(RowList(h, footer), h))
    BY <1>1, <1>2, <2>2
  <2>7. Around(RowList(h - panel, footer), panel) \in Span
        /\ (h - footer - panel >= 3 => Fills(Around(RowList(h - panel, footer), panel), h))
    BY <1>1, <1>3, <2>3
  <2> QED
    BY <1>5, <2>1, <2>4, <2>5, <2>6, <2>7
<1> QED
  BY <1>4, <1>5

LEMMA SnapshotsFill ==
  ASSUME FrameInv, NEW h \in Int
  PROVE  Snapshots(h) \in Span /\ (h >= 7 + Opt(armed, 1) /\ ~Overview => Fills(Snapshots(h), h))
<1> DEFINE used == 5 + Lines("entry", 1) + Opt(armed, 1)
<1>1. used \in Nat /\ used + 1 <= 7 + Opt(armed, 1) /\ Opt(armed, 1) \in Nat
  BY DEF Lines, Opt
<1>2. Snapshots(h) = IF listed = <<>> THEN Padded(used + 1, h) ELSE Around(Window(Greater(h - used, 1)), used)
  BY DEF Snapshots
<1> HIDE DEF used
<1>3. Padded(used + 1, h) \in Span /\ (h >= used + 1 => Padded(used + 1, h).lines = h)
  BY <1>1, PaddedSpans
<1>4. /\ Around(Window(Greater(h - used, 1)), used) \in Span
      /\ h - used >= 1 /\ ~Overview => Fills(Around(Window(Greater(h - used, 1)), used), h)
  BY <1>1, BeneathFills
<1> QED
  BY <1>1, <1>2, <1>3, <1>4, Nothing DEF Fills, InSight

(* The captured values: with their hint, a line too many.                  *)
LEMMA SamplesFill ==
  ASSUME FrameInv, NEW h \in Int
  PROVE  /\ Samples(h) \in Span
         /\ h >= (IF Has("explain") THEN 2 * view.lines + 8 ELSE 5) /\ ~Overview =>
              Fills(Samples(h), h + Opt(Has("explainHint") /\ ~Has("explain"), 1))
<1> DEFINE listH  == Greater(IF Has("explain") THEN (h - 4) \div 2 ELSE h - 4, 1)
           tail   == IF Has("explain") THEN 2 + view.lines ELSE Lines("explainHint", 1)
           w      == Around(Window(listH), 4 + tail)
           total0 == h + Opt(Has("explainHint") /\ ~Has("explain"), 1)
<1>1. listH \in Int /\ listH >= 1 /\ tail \in Int /\ 4 + tail \in Int /\ view.lines \in Nat
  <2>1. view.lines \in Nat
    BY Visible
  <2>2. tail \in Int
    BY <2>1 DEF Lines, Opt
  <2>3. listH \in Int /\ listH >= 1
    <3>1. (h - 4) \div 2 \in Int /\ h - 4 \in Int
      OBVIOUS
    <3>2. \A k \in Int : Greater(k, 1) \in Int /\ Greater(k, 1) >= 1
      BY DEF Greater
    <3> QED
      BY <3>1, <3>2
  <2> HIDE DEF listH, tail
  <2> QED
    BY <2>1, <2>2, <2>3
<1>2. Window(listH) \in Span /\ (~Overview => Fills(Window(listH), listH))
  <2> HIDE DEF listH
  <2> QED
    BY <1>1, WindowFills
<1>3. w \in Span /\ (~Overview => Fills(w, listH + (4 + tail)))
  <2> HIDE DEF listH, tail
  <2> QED
    BY <1>1, <1>2, AroundFills
<1>4. Samples(h) = [w EXCEPT !.lines = Greater(@, h)]
  BY DEF Samples
<1> DEFINE enough == IF Has("explain") THEN 2 * view.lines + 8 ELSE 5
<1>5. h >= enough => Greater(listH + (4 + tail), h) = total0
  <2>1. CASE Has("explain")
    <3>1. listH = Greater((h - 4) \div 2, 1) /\ tail = 2 + view.lines /\ total0 = h
      BY <2>1 DEF Opt
    <3>2. h >= 2 * view.lines + 8 => listH = (h - 4) \div 2
      BY <1>1, <3>1 DEF Greater
    <3> HIDE DEF listH, tail, total0
    <3>3. h >= 2 * view.lines + 8 => listH + (4 + tail) <= h
      BY <1>1, <3>1, <3>2
    <3> QED
      BY <1>1, <2>1, <3>1, <3>3 DEF Greater
  <2>2. CASE ~Has("explain")
    <3>1. listH = Greater(h - 4, 1) /\ tail = Opt(Has("explainHint"), 1) /\ total0 = h + Opt(Has("explainHint"), 1)
      BY <2>2 DEF Lines, Opt
    <3> HIDE DEF listH, tail, total0
    <3> QED
      BY <2>2, <3>1 DEF Greater, Opt
  <2> QED
    BY <2>1, <2>2
<1> HIDE DEF w, listH, tail, total0
<1>6. Samples(h) = [lines |-> Greater(w.lines, h), first |-> w.first, end |-> w.end]
  BY <1>3, <1>4 DEF Span
<1>7. Samples(h) \in Span /\ Samples(h).first = w.first /\ Samples(h).end = w.end /\ Samples(h).lines = Greater(w.lines, h)
  BY <1>3, <1>6 DEF Span, Greater
<1> QED
  BY <1>3, <1>5, <1>7 DEF Fills, InSight, total0

LEMMA ScrollFills ==
  ASSUME FrameInv, NEW h \in Int
  PROVE  /\ ScrollWindow(view.lines, h) \in Span
         /\ h >= 0 => /\ ScrollWindow(view.lines, h).lines = h
                      /\ ScrollWindow(view.lines, h).end - ScrollWindow(view.lines, h).first = Lesser(h, view.lines)
<1> DEFINE n == view.lines
           first == Greater(0, Lesser(offset, n - h))
           end == Lesser(first + h, n)
<1>1. n \in Nat /\ offset \in Int
  BY Visible DEF FrameInv, InView
<1>2. ScrollWindow(n, h) = Slice(first, end, h)
  BY DEF ScrollWindow, LinesFrom
<1> HIDE DEF n
<1>3. first \in Int /\ 0 <= first /\ (first = 0 \/ first <= n - h)
  BY <1>1 DEF Greater, Lesser
<1> HIDE DEF first
<1>4. end \in Int /\ (h >= 0 => end - first = Lesser(h, n))
  BY <1>1, <1>3 DEF Lesser
<1> HIDE DEF end
<1> DEFINE w == ScrollWindow(n, h)
<1>5. w \in Span /\ w.first = first /\ w.end = end /\ w.lines = Greater(end - first, 0) + Greater(h - (end - first), 0)
  <2>1. first \in Int /\ end \in Int
    BY <1>3, <1>4
  <2> HIDE DEF w
  <2>2. w = Slice(first, end, h)
    BY <1>2 DEF w
  <2> QED
    BY <2>1, <2>2 DEF Slice, Span, Greater
<1>6. h >= 0 => Greater(end - first, 0) + Greater(h - (end - first), 0) = h
  <2> DEFINE k == end - first
  <2>1. k \in Int /\ (h >= 0 => 0 <= k /\ k <= h)
    BY <1>1, <1>3, <1>4 DEF Lesser
  <2> HIDE DEF k
  <2>2. h >= 0 => Greater(k, 0) + Greater(h - k, 0) = h
    BY <2>1 DEF Greater
  <2> QED
    BY <2>2 DEF k
<1> QED
  BY <1>4, <1>5, <1>6 DEF n

(* The overview has its cursor on a line of its own, within what it has.   *)
LEMMA CursorOnLine ==
  ASSUME FrameInv, Overview
  PROVE  /\ CursorAt \in Nat /\ CursorSpan \in {1, 2} /\ OverviewLines \in Nat
         /\ CursorAt + CursorSpan <= OverviewLines
<1> DEFINE n == Len(listed)
<1>1. n \in Nat /\ (listed = <<>> <=> n = 0) /\ view.lines \in Nat /\ cursor \in Nat /\ cursor < n + 4
  BY Visible DEF FrameInv, InView, ResetRows
<1>2. CursorSpan = 1 + Opt(OnFixable, 1) /\ Prefix \in {1, 2} /\ (OnFixable => cursor < n) /\ Opt(OnFixable, 1) \in {0, 1}
      /\ (~OnFixable => Opt(OnFixable, 1) = 0)
  BY DEF CursorSpan, OnFixable, Prefix, Opt
<1>3. RecLines = 2 + (IF n = 0 THEN 1 ELSE n + Opt(OnFixable, 1)) /\ OverviewLines = Prefix + RecLines + view.lines + 1 + 4
  BY <1>1 DEF RecLines, OverviewLines, ResetRows
<1>4. CursorAt = Prefix + IF cursor < n THEN 1 + cursor ELSE RecLines + view.lines + 1 + cursor - n
  BY DEF CursorAt
<1> DEFINE fix == Opt(OnFixable, 1)
           own == view.lines
           rec == RecLines
<1> HIDE DEF n, fix, own, rec
<1>5. rec \in Nat /\ rec >= 2 + n + fix /\ fix \in {0, 1} /\ own \in Nat
  <2>1. fix \in {0, 1} /\ (cursor >= n => fix = 0)
    BY <1>1, <1>2 DEF fix
  <2>2. rec = 2 + (IF n = 0 THEN 1 ELSE n + fix)
    BY <1>3 DEF fix, rec
  <2>3. own \in Nat
    BY <1>1 DEF own
  <2>4. CASE n = 0
    BY <1>1, <2>1, <2>2, <2>3, <2>4
  <2>5. CASE n # 0
    BY <1>1, <2>1, <2>2, <2>3, <2>5
  <2> QED
    BY <2>4, <2>5
<1>6. CASE cursor < n
  <2>1. CursorAt = Prefix + (1 + cursor)
    BY <1>4, <1>6
  <2>2. CursorSpan = 1 + fix /\ OverviewLines = Prefix + rec + own + 1 + 4
    BY <1>2, <1>3 DEF fix, own, rec
  <2> QED
    BY <1>1, <1>2, <1>5, <1>6, <2>1, <2>2
<1>7. CASE ~(cursor < n)
  <2>1. CursorAt = Prefix + (rec + own + 1 + cursor - n) /\ CursorSpan = 1
    BY <1>2, <1>4, <1>7 DEF own, rec
  <2>2. OverviewLines = Prefix + rec + own + 1 + 4
    BY <1>3 DEF own, rec
  <2> QED
    BY <1>1, <1>2, <1>5, <1>7, <2>1, <2>2
<1> QED
  BY <1>6, <1>7

LEMMA OverviewFills ==
  ASSUME FrameInv, Overview, NEW h \in Int
  PROVE  /\ OverviewBody(h) \in Span
         /\ h >= 4 => /\ OverviewBody(h).lines = h
                      /\ follow => OverviewBody(h).first <= CursorAt /\ CursorAt + CursorSpan <= OverviewBody(h).end
<1> DEFINE o == OverviewOffset(h)
           first == Greater(0, Lesser(o, OverviewLines - h))
           end == Lesser(first + h, OverviewLines)
<1>1. /\ CursorAt \in Nat /\ CursorSpan \in {1, 2} /\ OverviewLines \in Nat /\ offset \in Int
      /\ CursorAt + CursorSpan <= OverviewLines
  BY CursorOnLine DEF FrameInv, InView
<1>2. o \in Int /\ (h >= 4 /\ follow => o <= CursorAt /\ CursorAt + CursorSpan <= o + h)
  BY <1>1 DEF OverviewOffset, Greater
<1>3. OverviewBody(h) = [lines |-> Greater(h, end - first), first |-> first, end |-> end]
  BY DEF OverviewBody
<1> HIDE DEF o
<1>4. first \in Int /\ 0 <= first /\ (first = 0 \/ first <= OverviewLines - h)
      /\ (h >= 4 /\ follow => first <= CursorAt /\ (first = o \/ first = 0 \/ first = OverviewLines - h) /\ (first = 0 => o <= 0 \/ OverviewLines <= h))
  BY <1>1, <1>2 DEF Greater, Lesser
<1> HIDE DEF first
<1>5. end \in Int /\ (h >= 4 => end - first <= h)
  BY <1>1, <1>4 DEF Lesser
<1>6. h >= 4 /\ follow => CursorAt + CursorSpan <= end
  BY <1>1, <1>2, <1>4 DEF Lesser
<1> HIDE DEF end
<1>7. /\ OverviewBody(h) \in Span /\ OverviewBody(h).first = first /\ OverviewBody(h).end = end
      /\ OverviewBody(h).lines = Greater(h, end - first)
  BY <1>3, <1>4, <1>5 DEF Span, Greater
<1>8. h >= 4 => Greater(h, end - first) = h
  BY <1>4, <1>5 DEF Greater
<1> QED
  BY <1>4, <1>6, <1>7, <1>8

-----------------------------------------------------------------------------
(* What every screen makes of the lines it is given, when they are enough. *)
Listless == {"tools", "pgbouncer", "bufferDetail", "waitProfile"}
WholeContent(w, h) ==
  /\ w.lines = h + Opt(Hinted, 1)
  /\ TextLevel => w.end - w.first = Lesser(h, view.lines)
  /\ Overview /\ follow => w.first <= CursorAt /\ CursorAt + CursorSpan <= w.end
  /\ OnRows /\ ~Has("readErr") /\ view.level \notin Listless => InSight(w)

LEMMA FillsWhole ==
  ASSUME NEW h \in Int, NEW w, Fills(w, h), ~Overview, ~TextLevel, ~Hinted
  PROVE  w \in Span /\ WholeContent(w, h)
<1>1. Opt(Hinted, 1) = 0
  BY DEF Opt
<1>2. w \in Span /\ w.lines = h /\ InSight(w)
  BY DEF Fills
<1> QED
  BY <1>1, <1>2 DEF WholeContent


LEMMA TablesFill ==
  ASSUME FrameInv, view.over = "none", NEW h \in Int, h >= Room,
         view.level \in {"schemas", "tables", "bufferTables", "statements", "diagnosticResult", "statementResult", "activity",
                         "tableStats", "pgbouncerShow", "logFiles", "pgbouncers"}
  PROVE  ScreenContent(h) \in Span /\ WholeContent(ScreenContent(h), h)
<1>1. ~Overview /\ ~TextLevel /\ ~Hinted
  BY DEF Overview, TextLevel, Hinted
<1>2. h >= 4 /\ (view.level \in {"logFiles", "pgbouncers"} /\ listed = <<>> => h >= 5)
  BY DEF Room
<1>3. CASE view.level \in {"schemas", "tables", "bufferTables"}
  <2>1. ScreenContent(h) = RowList(h, TotalsFooter)
    BY <1>3 DEF ScreenContent
  <2>2. TotalsFooter \in Nat /\ TotalsFooter <= 1
    BY DEF TotalsFooter, Opt
  <2>3. Fills(RowList(h, TotalsFooter), h)
    BY <1>1, <1>2, <2>2, RowListFills
  <2> QED
    BY <1>1, <2>1, <2>3, FillsWhole
<1>4. CASE view.level \in {"statements", "diagnosticResult", "statementResult", "activity", "tableStats", "pgbouncerShow"}
  <2>1. ScreenContent(h) = DiagResult(h)
    BY <1>4 DEF ScreenContent
  <2> QED
    BY <1>1, <1>2, <2>1, DiagResultFills, FillsWhole
<1>5. CASE view.level \in {"logFiles", "pgbouncers"}
  <2>1. ScreenContent(h) = IF listed = <<>> THEN Padded(5, h) ELSE DiagResult(h)
    BY <1>5 DEF ScreenContent
  <2>2. listed = <<>> => Fills(Padded(5, h), h)
    BY <1>2, <1>5, PaddedSpans, Nothing DEF Fills, InSight
  <2>3. Fills(DiagResult(h), h)
    BY <1>1, <1>2, DiagResultFills
  <2> QED
    BY <1>1, <2>1, <2>2, <2>3, FillsWhole
<1> QED
  BY <1>3, <1>4, <1>5

LEMMA ListsFill ==
  ASSUME FrameInv, view.over = "none", NEW h \in Int, h >= Room,
         view.level \in {"logs", "logGroup", "diagnostics", "settings", "progress", "lockTree", "heapTuples"}
  PROVE  ScreenContent(h) \in Span /\ WholeContent(ScreenContent(h), h)
<1>1. ~Overview /\ ~TextLevel /\ ~Hinted
  BY DEF Overview, TextLevel, Hinted
<1>2. h >= 4
  BY DEF Room
<1>3. \A title \in 0..3 : Fills(TitledList(h, title), h)
  BY <1>1, <1>2, TitledListFills
<1>4. Fills(DiagResult(h), h)
  BY <1>1, <1>2, DiagResultFills
<1>5. CASE view.level = "logs"
  <2>1. ScreenContent(h) = IF Has("table") /\ ~Has("readErr") THEN DiagResult(h) ELSE LogGroups(h)
    BY <1>5 DEF ScreenContent
  <2>2. LogGroups(h) \in Span /\ LogGroups(h).lines = h /\ (~Has("readErr") => Fills(LogGroups(h), h))
    BY <1>1, <1>2, LogGroupsFill
  <2>3. LogGroups(h) \in Span /\ WholeContent(LogGroups(h), h)
    BY <1>1, <2>2 DEF WholeContent, Opt, Fills
  <2> QED
    BY <1>1, <1>4, <2>1, <2>3, FillsWhole
<1>6. CASE view.level = "logGroup"
  <2>1. ScreenContent(h) = IF Has("params") THEN DiagResult(h) ELSE TitledList(h, 0)
    BY <1>6 DEF ScreenContent
  <2> QED
    BY <1>1, <1>3, <1>4, <2>1, FillsWhole
<1>7. CASE view.level \in {"diagnostics", "settings"}
  <2>1. ScreenContent(h) = TitledList(h, 1)
    BY <1>7 DEF ScreenContent
  <2> QED
    BY <1>1, <1>3, <2>1, FillsWhole
<1>8. CASE view.level = "progress"
  <2> DEFINE title == 1 + Opt(listed # <<>>, 1)
  <2>1. ScreenContent(h) = TitledList(h, title)
    BY <1>8 DEF ScreenContent
  <2>2. title \in 0..3
    BY DEF Opt
  <2> HIDE DEF title
  <2> QED
    BY <1>1, <1>3, <2>1, <2>2, FillsWhole
<1>9. CASE view.level = "lockTree"
  <2> DEFINE title == 1 + Opt(armed, 1 + Lines("queryText", 1))
  <2>1. ScreenContent(h) = TitledList(h, title)
    BY <1>9 DEF ScreenContent
  <2>2. title \in 0..3
    BY DEF Opt, Lines
  <2> HIDE DEF title
  <2> QED
    BY <1>1, <1>3, <2>1, <2>2, FillsWhole
<1>10. CASE view.level = "heapTuples"
  <2>1. ScreenContent(h) = HeapTuples(h)
    BY <1>10 DEF ScreenContent
  <2>2. Fills(HeapTuples(h), h)
    BY <1>1, <1>2, HeapTuplesFill
  <2> QED
    BY <1>1, <2>1, <2>2, FillsWhole
<1> QED
  BY <1>5, <1>6, <1>7, <1>8, <1>9, <1>10

LEMMA OthersFill ==
  ASSUME FrameInv, view.over = "none", Shown, NEW h \in Int, h >= Room,
         listed # <<>> \/ view.level \in HandlesNoItems,
         view.level \notin {"schemas", "tables", "bufferTables", "statements", "diagnosticResult", "statementResult", "activity",
                            "tableStats", "pgbouncerShow", "logFiles", "pgbouncers"},
         view.level \notin {"logs", "logGroup", "diagnostics", "settings", "progress", "lockTree", "heapTuples"}
  PROVE  ScreenContent(h) \in Span /\ WholeContent(ScreenContent(h), h)
<1>1. CASE view.level = "parts"
  <2>1. ScreenContent(h) = PartsLevel(h)
    BY <1>1 DEF ScreenContent
  <2>2. h >= (IF Has("vacuumPane") THEN 6 ELSE 4)
    BY <1>1 DEF Room, VacuumPaneMin
  <2>3. ~Overview /\ ~TextLevel /\ ~Hinted
    BY <1>1 DEF Overview, TextLevel, Hinted
  <2> QED
    BY <1>1, <2>1, <2>2, <2>3, PartsFill, FillsWhole
<1>2. CASE view.level = "snapshots"
  <2>1. ScreenContent(h) = Snapshots(h)
    BY <1>2 DEF ScreenContent
  <2>2. h >= 7 + Opt(armed, 1)
    BY <1>2 DEF Room
  <2>3. ~Overview /\ ~TextLevel /\ ~Hinted
    BY <1>2 DEF Overview, TextLevel, Hinted
  <2> QED
    BY <2>1, <2>2, <2>3, SnapshotsFill, FillsWhole
<1>3. CASE view.level = "samples"
  <2>1. ScreenContent(h) = Samples(h)
    BY <1>3 DEF ScreenContent
  <2>2. h >= (IF Has("explain") THEN 2 * view.lines + 8 ELSE 5)
    BY <1>3 DEF Room
  <2>3. ~Overview /\ ~TextLevel /\ "samples" \notin HandlesNoItems
    BY <1>3 DEF Overview, TextLevel, HandlesNoItems
  <2>4. Hinted <=> (Has("explainHint") /\ ~Has("explain"))
    BY <1>3, <2>3 DEF Hinted
  <2>5. Opt(Hinted, 1) = Opt(Has("explainHint") /\ ~Has("explain"), 1)
    BY <2>4 DEF Opt
  <2>6. Fills(Samples(h), h + Opt(Has("explainHint") /\ ~Has("explain"), 1))
    BY <2>2, <2>3, SamplesFill
  <2> QED
    BY <2>1, <2>3, <2>5, <2>6 DEF WholeContent, Fills
<1>4. CASE view.level = "maintenance"
  <2>1. ScreenContent(h) = OverviewBody(h)
    BY <1>4 DEF ScreenContent
  <2>2. h >= 4
    BY <1>4 DEF Room
  <2>3. Overview /\ ~TextLevel /\ ~Hinted /\ ~OnRows
    BY <1>4 DEF Overview, TextLevel, Hinted, OnRows
  <2> QED
    BY <2>1, <2>2, <2>3, OverviewFills DEF WholeContent, Opt, Span
<1>5. CASE view.level \in {"describe", "statementDetail", "logEntry"}
  <2>1. ScreenContent(h) = ScrollWindow(view.lines, h)
    BY <1>5 DEF ScreenContent
  <2>2. h >= 4
    BY <1>5 DEF Room
  <2>3. ~Overview /\ ~Hinted /\ ~OnRows
    BY <1>5 DEF Overview, TextLevel, Hinted, OnRows
  <2> QED
    BY <2>1, <2>2, <2>3, ScrollFills DEF WholeContent, Opt
<1>6. CASE view.level \in Listless
  <2>1. ScreenContent(h) = Padded(Len(listed) + view.lines, h)
    BY <1>6 DEF ScreenContent, Listless
  <2>2. h >= Len(listed) + view.lines /\ Len(listed) + view.lines \in Int
    <3> DEFINE n == Len(listed) + view.lines
    <3>1. Room = Greater(n, 1)
      BY <1>6 DEF Room, Listless
    <3>2. n \in Int
      BY ListAndText
    <3> HIDE DEF n
    <3>3. h >= n /\ n \in Int
      BY <3>1, <3>2 DEF Greater
    <3> QED
      BY <3>3 DEF n
  <2>3. ~Overview /\ ~TextLevel /\ ~Hinted
    BY <1>6 DEF Overview, TextLevel, Hinted, Listless
  <2> QED
    BY <1>6, <2>1, <2>2, <2>3, PaddedSpans DEF WholeContent, Opt
<1>7. CASE /\ view.level \notin {"parts", "snapshots", "samples", "maintenance", "describe", "statementDetail", "logEntry"}
           /\ view.level \notin Listless
  <2>1. ScreenContent(h) = RowList(h, 0)
    BY <1>7 DEF ScreenContent, Listless
  <2>2. h >= 4
    BY <1>7 DEF Room, Listless
  <2>3. ~Overview /\ ~TextLevel /\ ~Hinted
    BY <1>7 DEF Overview, TextLevel, Hinted
  <2>4. Fills(RowList(h, 0), h)
    BY <2>2, <2>3, RowListFills
  <2> QED
    BY <2>1, <2>3, <2>4, FillsWhole
<1> QED
  BY <1>1, <1>2, <1>3, <1>4, <1>5, <1>6, <1>7

(* However short the terminal, what is drawn starts at a line.             *)
LEMMA ScreenSpans ==
  ASSUME FrameInv, NEW h \in Int
  PROVE  ScreenContent(h) \in Span
<1>1. /\ RowList(h, 0) \in Span /\ DiagResult(h) \in Span /\ LogGroups(h) \in Span /\ HeapTuples(h) \in Span
      /\ Snapshots(h) \in Span /\ Samples(h) \in Span /\ ScrollWindow(view.lines, h) \in Span
  BY RowListFills, DiagResultFills, LogGroupsFill, HeapTuplesFill, SnapshotsFill, SamplesFill, ScrollFills
<1>2. RowList(h, TotalsFooter) \in Span
  <2>1. TotalsFooter \in Nat
    BY DEF TotalsFooter, Opt
  <2> QED
    BY <2>1, RowListFills
<1>3. \A title \in 0..3 : TitledList(h, title) \in Span
  BY TitledListFills
<1>4. 1 + Opt(listed # <<>>, 1) \in 0..3 /\ 1 + Opt(armed, 1 + Lines("queryText", 1)) \in 0..3
  BY DEF Opt, Lines
<1>5. TitledList(h, 0) \in Span /\ TitledList(h, 1) \in Span /\ TitledList(h, 1 + Opt(listed # <<>>, 1)) \in Span
      /\ TitledList(h, 1 + Opt(armed, 1 + Lines("queryText", 1))) \in Span
  BY <1>3, <1>4
<1>6. Padded(5, h) \in Span /\ Padded(Len(listed) + view.lines, h) \in Span
  <2>1. Len(listed) + view.lines \in Int
    BY ListAndText
  <2> QED
    BY <2>1, PaddedSpans
<1>7. (view.level = "parts" => PartsLevel(h) \in Span) /\ (view.level = "maintenance" => OverviewBody(h) \in Span)
  BY PartsFill, OverviewFills DEF Overview
<1>8. CASE view.level \in {"schemas", "tables", "bufferTables", "statements", "diagnosticResult", "statementResult", "activity",
                           "tableStats", "pgbouncerShow", "logFiles", "pgbouncers", "logs", "logGroup"}
  BY <1>1, <1>2, <1>5, <1>6, <1>8 DEF ScreenContent
<1>9. CASE view.level \in {"diagnostics", "settings", "progress", "lockTree", "heapTuples", "parts", "snapshots", "samples", "maintenance"}
  BY <1>1, <1>5, <1>7, <1>9 DEF ScreenContent
<1>10. CASE view.level \in {"describe", "statementDetail", "logEntry", "tools", "pgbouncer", "bufferDetail", "waitProfile"}
  BY <1>1, <1>6, <1>10 DEF ScreenContent
<1>11. CASE /\ view.level \notin {"schemas", "tables", "bufferTables", "statements", "diagnosticResult", "statementResult", "activity",
                                  "tableStats", "pgbouncerShow", "logFiles", "pgbouncers", "logs", "logGroup"}
            /\ view.level \notin {"diagnostics", "settings", "progress", "lockTree", "heapTuples", "parts", "snapshots", "samples",
                                  "maintenance"}
            /\ view.level \notin {"describe", "statementDetail", "logEntry", "tools", "pgbouncer", "bufferDetail", "waitProfile"}
  BY <1>1, <1>11 DEF ScreenContent
<1> QED
  BY <1>8, <1>9, <1>10, <1>11

LEMMA RoomIs ==
  ASSUME FrameInv, view.over = "none"
  PROVE  Room \in Int /\ Room >= 1
<1> DEFINE own == Greater(Len(listed) + view.lines, 1)
           twice == 2 * view.lines + 8
           asking == Opt(armed, 1)
<1>1. own \in Int /\ own >= 1 /\ twice \in Int /\ twice >= 1 /\ asking \in Nat
  <2>1. Len(listed) + view.lines \in Int /\ view.lines \in Nat
    BY ListAndText
  <2>2. \A k \in Int : Greater(k, 1) \in Int /\ Greater(k, 1) >= 1
    BY DEF Greater
  <2>3. own \in Int /\ own >= 1
    BY <2>1, <2>2
  <2> HIDE DEF own
  <2> QED
    BY <2>1, <2>3 DEF Opt
<1>2. CASE view.level \in {"snapshots", "parts", "logFiles", "pgbouncers"}
  <2>1. Room \in {7 + asking, 6, 5, 4}
    BY <1>2 DEF Room, VacuumPaneMin
  <2> HIDE DEF asking
  <2> QED
    BY <1>1, <2>1
<1>3. CASE view.level = "samples"
  <2>1. Room = IF Has("explain") THEN twice ELSE 5
    BY <1>3 DEF Room
  <2> HIDE DEF twice
  <2> QED
    BY <1>1, <2>1
<1>4. CASE view.level \in Listless
  <2>1. Room = own
    BY <1>4 DEF Room, Listless
  <2> HIDE DEF own
  <2> QED
    BY <1>1, <2>1
<1>5. CASE view.level \notin {"snapshots", "parts", "logFiles", "pgbouncers", "samples"} /\ view.level \notin Listless
  <2>1. Room = 4
    BY <1>5 DEF Room, Listless
  <2> QED
    BY <2>1
<1> QED
  BY <1>2, <1>3, <1>4, <1>5

LEMMA ContentSpans ==
  ASSUME FrameInv, NEW h \in Int
  PROVE  /\ ContentOf(h) \in Span
         /\ h >= Room /\ height >= 8 => ContentOf(h).lines = h + Opt(Hinted, 1)
         /\ h >= Room /\ (view.over = "info" \/ (TextLevel /\ Shown /\ view.over = "none")) =>
              ContentOf(h).end - ContentOf(h).first = Lesser(h, view.lines)
         /\ h >= Room /\ Shown /\ view.over = "none" =>
              /\ Overview /\ follow => ContentOf(h).first <= CursorAt /\ CursorAt + CursorSpan <= ContentOf(h).end
              /\ OnRows /\ ~Has("readErr") /\ view.level \notin Listless => InSight(ContentOf(h))
<1>1. view.lines \in Nat /\ offset \in Int /\ view.over \in {"none", "picker", "query", "tupleLayout", "prompt", "fix", "info"}
  <2>1. view.over \in {"none", "picker", "query", "tupleLayout", "prompt", "fix", "info"}
    BY Zenon, FrameAssumption DEF FrameInv, InView
  <2> QED
    BY <2>1, Visible DEF FrameInv, InView
<1>2. CASE view.over = "picker"
  <2>1. ContentOf(h) = Padded(4 + view.lines, h) /\ Room = 4 + view.lines /\ ~Hinted
    BY <1>2 DEF ContentOf, Room, Hinted
  <2> QED
    BY <1>1, <1>2, <2>1, PaddedSpans DEF Opt
<1>3. CASE view.over \in {"query", "tupleLayout", "prompt"}
  <2>1. ContentOf(h) = Padded(view.lines, h) /\ Room = view.lines /\ ~Hinted
    BY <1>3 DEF ContentOf, Room, Hinted
  <2> QED
    BY <1>1, <1>3, <2>1, PaddedSpans DEF Opt
<1>4. CASE view.over = "fix"
  <2>1. ContentOf(h) = Drawn(IF h <= FixLines THEN FixLines ELSE h) /\ Room = FixLines /\ ~Hinted
    BY <1>4 DEF ContentOf, Room, Hinted
  <2>2. FixLines \in Int
    BY <1>1 DEF FixLines
  <2> QED
    BY <1>1, <1>4, <2>1, <2>2 DEF Opt, Drawn, Span
<1>5. CASE view.over = "info"
  <2>1. ContentOf(h) = ScrollWindow(view.lines, h) /\ Room = 4 /\ ~Hinted
    BY <1>5 DEF ContentOf, Room, Hinted
  <2> QED
    BY <1>1, <1>5, <2>1, ScrollFills DEF Opt
<1>6. CASE view.over = "none" /\ (~Shown \/ (listed = <<>> /\ view.level \notin HandlesNoItems))
  <2>1. ContentOf(h) = Padded(1, h)
    BY <1>6 DEF ContentOf
  <2>2. ~Hinted /\ (Shown => ~TextLevel /\ ~Overview /\ VisibleIndexes = <<>>)
    BY <1>6, Nothing DEF Hinted, TextLevel, Overview, HandlesNoItems
  <2>3. Room \in Int /\ Room >= 1
    BY <1>6, RoomIs
  <2>4. Padded(1, h) \in Span /\ (h >= 1 => Padded(1, h).lines = h)
    BY PaddedSpans
  <2> QED
    BY <1>6, <2>1, <2>2, <2>3, <2>4 DEF Opt, InSight
<1>7. CASE view.over = "none" /\ Shown /\ (listed # <<>> \/ view.level \in HandlesNoItems)
  <2>1. ContentOf(h) = ScreenContent(h)
    BY <1>7 DEF ContentOf
  <2>2. ScreenContent(h) \in Span
    BY ScreenSpans
  <2>3. h >= Room => WholeContent(ScreenContent(h), h)
    BY <1>7, TablesFill, ListsFill, OthersFill
  <2> QED
    BY <1>7, <2>1, <2>2, <2>3 DEF WholeContent
<1> QED
  BY <1>1, <1>2, <1>3, <1>4, <1>5, <1>6, <1>7

-----------------------------------------------------------------------------
(* The keys and the answers.  A list that is not empty begins with a row   *)
(* that answers to keys, so a list no filter narrows has one.              *)
LEMMA FreeRow ==
  ASSUME NEW v \in Views, NEW its \in v.loads, its # <<>>, NEW by, by \notin {"typed", "kept"}
  PROVE  \E i \in DOMAIN IndexesOf(its, v, by) : ~InertRow(its, IndexesOf(its, v, by)[i])
<1>1. its[1] # "section" /\ 1 \in DOMAIN its
  BY ListOf
<1>2. IndexesOf(its, v, by) = [i \in DOMAIN its |-> i]
  BY Indexes
<1>3. 1 \in DOMAIN IndexesOf(its, v, by) /\ IndexesOf(its, v, by)[1] = 1
  BY <1>1, <1>2
<1> QED
  BY <1>1, <1>3 DEF InertRow

LEMMA ClampedIn ==
  ASSUME NEW c \in Int, NEW n \in Nat
  PROVE  Clamped(c, n) \in Nat /\ Clamped(c, n) <= Greater(n - 1, 0) /\ (c >= 0 => Clamped(c, n) <= c)
  BY DEF Clamped, Greater, Lesser

LEMMA SameView ==
  ASSUME view' = view
  PROVE  /\ Overview' <=> Overview
         /\ OnRows' <=> OnRows
         /\ TextLevel' <=> TextLevel
  BY DEF Overview, OnRows, TextLevel, Has

LEMMA StaysInView ==
  ASSUME FrameInv, view' = view, height' \in Nat, offset' \in Int, listed' \in view.loads, cursor' \in Nat,
         narrowed' \in {"off", "open", "typed", "kept"},
         "filter" \notin view.keys => narrowed' = "off",
         follow' => Overview /\ view.over = "none",
         Overview => cursor' < Len(listed') + ResetRows,
         ~Overview => cursor' <= Greater(Len(VisibleIndexes') - 1, 0),
         OnRows /\ "filter" \notin view.keys /\ listed' # <<>> => ~InertRow(listed', VisibleIndexes'[cursor' + 1])
  PROVE  FrameInv'
<1>1. (Overview' <=> Overview) /\ (OnRows' <=> OnRows)
  BY SameView
<1>2. InView'
  BY DEF FrameInv, InView
<1>3. InertRow(listed, VisibleIndexes[cursor + 1])' <=> InertRow(listed', VisibleIndexes'[cursor' + 1])
  BY DEF InertRow
<1> QED
  BY <1>1, <1>2, <1>3 DEF FrameInv, ResetRows

(* A step that leaves the cursor and the list.                             *)
LEMMA StaysStill ==
  ASSUME FrameInv, UNCHANGED <<view, listed, cursor, narrowed>>, height' \in Nat, offset' \in Int,
         follow' => follow \/ (Overview /\ view.over = "none")
  PROVE  FrameInv'
<1>1. VisibleIndexes' = VisibleIndexes
  BY IndexesAre
<1> QED
  BY <1>1, StaysInView DEF FrameInv, InView

(* A cursor that is put on a row that answers to keys.                     *)
LEMMA SkipKeeps ==
  ASSUME FrameInv, view' = view, listed' \in view.loads, narrowed' = narrowed, UNCHANGED <<height, offset, follow>>, ~Overview,
         NEW c \in Int, NEW forward \in BOOLEAN,
         cursor' = SkipInertRow(listed', VisibleIndexes', Clamped(c, Len(VisibleIndexes')), forward)
  PROVE  FrameInv'
<1> DEFINE all == IndexesOf(listed', view, narrowed)
           from == Clamped(c, Len(all))
<1>1. VisibleIndexes' = all /\ view \in Views
  BY IndexesAre DEF FrameInv, InView
<1>2. Len(all) \in Nat /\ DOMAIN all = 1..Len(all)
  BY <1>1, Indexes
<1>3. "filter" \notin view.keys /\ listed' # <<>> => \E i \in DOMAIN all : ~InertRow(listed', all[i])
  <2>1. "filter" \notin view.keys => narrowed \notin {"typed", "kept"}
    BY DEF FrameInv
  <2> QED
    BY <1>1, <2>1, FreeRow
<1> HIDE DEF all
<1>4. from \in Nat /\ from <= Greater(Len(all) - 1, 0)
  BY <1>2, ClampedIn
<1>5. cursor' = SkipInertRow(listed', all, from, forward)
  BY <1>1
<1> HIDE DEF from
<1>6. /\ cursor' \in Nat /\ cursor' <= Greater(Len(all) - 1, 0)
      /\ (\E i \in DOMAIN all : ~InertRow(listed', all[i])) => ~InertRow(listed', all[cursor' + 1])
  BY <1>2, <1>4, <1>5, Skipped
<1>7. height' \in Nat /\ offset' \in Int /\ narrowed' \in {"off", "open", "typed", "kept"}
      /\ ("filter" \notin view.keys => narrowed' = "off") /\ (follow' => Overview /\ view.over = "none")
  BY DEF FrameInv, InView
<1> QED
  BY <1>1, <1>3, <1>6, <1>7, StaysInView

LEMMA MoveKeeps ==
  ASSUME FrameInv, UnmovedList, NEW c \in Int, NEW forward \in BOOLEAN, MoveTo(c, forward)
  PROVE  FrameInv'
<1>1. UNCHANGED <<view, height, listed, narrowed, offset, follow>> /\ ~Overview
  BY DEF UnmovedList, MoveTo, OnRows
<1>2. VisibleIndexes' = VisibleIndexes
  BY <1>1, IndexesAre
<1>3. cursor' = SkipInertRow(listed, VisibleIndexes, Clamped(c, Len(VisibleIndexes)), forward)
  BY DEF MoveTo
<1>4. listed' \in view.loads
  BY <1>1 DEF FrameInv, InView
<1> QED
  BY <1>1, <1>2, <1>3, <1>4, SkipKeeps

LEMMA ScrollKeeps ==
  ASSUME FrameInv, UnmovedList, NEW off \in Int, Scroll(off) \/ ScrollOverview(off)
  PROVE  FrameInv'
<1>1. UNCHANGED <<view, height, listed, narrowed, cursor, follow>> /\ offset' = Lesser(off, FarDown)
  BY DEF UnmovedList, Scroll, ScrollOverview
<1>2. Lesser(off, FarDown) \in Int
  BY FrameAssumption DEF Lesser
<1> QED
  BY <1>1, <1>2, StaysStill DEF FrameInv, InView

LEMMA OverviewRowsAre ==
  /\ \A v \in Views : \A its \in v.loads : Len(its \o [i \in 1..ResetRows |-> "reset"]) = Len(its) + 4
  /\ FrameInv => Len(OverviewRows) = Len(listed) + 4 /\ Len(listed) \in Nat
<1>1. ASSUME NEW v \in Views, NEW its \in v.loads
      PROVE  Len(its \o [i \in 1..ResetRows |-> "reset"]) = Len(its) + 4
  <2> DEFINE resets == [i \in 1..4 |-> "reset"]
             S == STRING \cup {"reset"}
  <2>1. its \in Seq(S)
    <3>1. its \in Seq(STRING)
      BY Zenon, ListOf
    <3>2. STRING \subseteq S
      OBVIOUS
    <3> HIDE DEF S
    <3> QED
      BY Zenon, <3>1, <3>2, SeqMonotonic
  <2>2. resets \in [1..4 -> S] /\ DOMAIN resets = 1..4
    BY Zenon
  <2> HIDE DEF resets, S
  <2>3. resets \in Seq(S)
    BY <2>2, SeqDef
  <2>4. Len(resets) = 4
    <3>1. Len(resets) \in Nat /\ 1..4 = 1..Len(resets)
      BY <2>2, <2>3, LenProperties
    <3>2. ASSUME NEW k \in Nat, 1..4 = 1..k
          PROVE  k = 4
      <4>1. 4 \in 1..k /\ ~(5 \in 1..k)
        BY <3>2
      <4> QED
        BY <4>1
    <3> QED
      BY Zenon, <3>1, <3>2
  <2>5. Len(its \o resets) = Len(its) + Len(resets)
    BY Zenon, <2>1, <2>3, ConcatProperties
  <2>6. Len(its \o resets) = Len(its) + 4
    BY Zenon, <2>4, <2>5
  <2> QED
    BY Zenon, <2>6 DEF ResetRows, resets
<1> QED
  BY <1>1, Visible DEF OverviewRows, FrameInv, InView

LEMMA OverviewCursorKeeps ==
  ASSUME FrameInv, UnmovedList, Overview, view.over = "none", cursor' \in Nat, cursor' < Len(listed) + 4, offset' \in Int
  PROVE  FrameInv'
<1>1. UNCHANGED <<view, height, listed, narrowed>>
  BY DEF UnmovedList
<1>2. ~OnRows
  BY DEF OnRows
<1> QED
  BY <1>1, <1>2, StaysInView DEF FrameInv, InView, ResetRows

LEMMA PressesOn ==
  ASSUME NEW key, Presses(key)
  PROVE  view.over = "none" /\ key \in view.keys /\ narrowed \in {"off", "kept"}
  BY DEF Presses

LEMMA PageStepIs == FrameInv => PageStep \in Int /\ Len(VisibleIndexes) \in Int /\ cursor \in Int /\ offset \in Int
  BY Visible DEF PageStep, Greater, FrameInv, InView

LEMMA SetCursorKeeps ==
  ASSUME FrameInv, UnmovedList, Overview, view.over = "none", NEW c \in Int, SetCursor(c), offset' \in Int
  PROVE  FrameInv'
<1>1. Len(OverviewRows) = Len(listed) + 4 /\ Len(listed) \in Nat
  BY OverviewRowsAre
<1>2. Clamped(c, Len(OverviewRows)) \in Nat /\ Clamped(c, Len(OverviewRows)) <= Greater(Len(OverviewRows) - 1, 0)
  BY <1>1, ClampedIn
<1>3. cursor' = Clamped(c, Len(OverviewRows))
  BY DEF SetCursor
<1>4. cursor' \in Nat /\ cursor' < Len(listed) + 4
  BY <1>1, <1>2, <1>3 DEF Greater
<1> QED
  BY <1>4, OverviewCursorKeeps

LEMMA OverviewKeysKeep ==
  ASSUME FrameInv, UnmovedList, Overview, view.over = "none",
         \/ OverviewDown \/ OverviewUp \/ OverviewTop \/ OverviewBottom
         \/ ScrollOverview(offset + PageStep) \/ ScrollOverview(Greater(offset - PageStep, 0))
  PROVE  FrameInv'
<1>1. PageStep \in Int /\ cursor \in Int /\ offset \in Int
  BY PageStepIs
<1>2. \A k \in Int : Greater(k, 0) \in Int
  BY DEF Greater
<1>3. CASE OverviewDown
  <2>1. CASE SetCursor(cursor + 1) /\ UNCHANGED offset
    BY <1>1, <2>1, SetCursorKeeps
  <2>2. CASE ScrollOverview(offset + 1)
    BY <1>1, <2>2, ScrollKeeps
  <2> QED
    BY <1>3, <2>1, <2>2 DEF OverviewDown
<1>4. CASE OverviewUp
  <2>1. CASE SetCursor(cursor - 1) /\ UNCHANGED offset
    BY <1>1, <2>1, SetCursorKeeps
  <2>2. CASE ScrollOverview(offset - 1)
    BY <1>1, <2>2, ScrollKeeps
  <2>3. CASE ScrollOverview(Greater(offset - 1, 0))
    BY <1>1, <1>2, <2>3, ScrollKeeps
  <2>4. \/ ScrollOverview(offset - 1) \/ (SetCursor(cursor - 1) /\ UNCHANGED offset) \/ ScrollOverview(Greater(offset - 1, 0))
    <3> DEFINE above == cursorLine >= 0 /\ cursorLine < offset
               below == cursor > 0
    <3>1. (CASE above -> ScrollOverview(offset - 1)
             [] ~above /\ below -> SetCursor(cursor - 1) /\ UNCHANGED offset
             [] OTHER -> ScrollOverview(Greater(offset - 1, 0)))
      BY <1>4 DEF OverviewUp
    <3> HIDE DEF above, below
    <3> QED
      BY <3>1
  <2> QED
    BY <2>1, <2>2, <2>3, <2>4
<1>5. CASE OverviewTop
  BY <1>5, SetCursorKeeps DEF OverviewTop
<1>6. CASE OverviewBottom
  <2>1. cursor' = Len(listed) + 4 - 1 /\ offset' \in Int /\ Len(listed) \in Nat
    BY <1>6, OverviewRowsAre, FrameAssumption DEF OverviewBottom
  <2>2. cursor' \in Nat /\ cursor' < Len(listed) + 4
    BY <2>1
  <2> QED
    BY <2>1, <2>2, OverviewCursorKeeps
<1>7. CASE ScrollOverview(offset + PageStep) \/ ScrollOverview(Greater(offset - PageStep, 0))
  <2>1. offset + PageStep \in Int /\ Greater(offset - PageStep, 0) \in Int
    BY <1>1, <1>2
  <2> QED
    BY <1>7, <2>1, ScrollKeeps
<1> QED
  BY <1>3, <1>4, <1>5, <1>6, <1>7

LEMMA MovesKeep ==
  ASSUME FrameInv, Down \/ Up \/ NextPage \/ LastPage \/ Top \/ Bottom
  PROVE  FrameInv'
<1>1. UnmovedList /\ view.over = "none"
  BY PressesOn DEF Down, Up, NextPage, LastPage, Top, Bottom
<1>2. PageStep \in Int /\ Len(VisibleIndexes) \in Int /\ cursor \in Int /\ offset \in Int /\ FarDown \in Int
  BY PageStepIs, FrameAssumption
<1>3. \A k \in Int : Greater(k, 0) \in Int
  BY DEF Greater
<1>4. /\ \A c \in Int, forward \in BOOLEAN : MoveTo(c, forward) => FrameInv'
      /\ \A off \in Int : Scroll(off) => FrameInv'
  BY <1>1, MoveKeeps, ScrollKeeps
<1>6. CASE Down
  <2>1. offset + 1 \in Int /\ cursor + 1 \in Int
    BY <1>2
  <2> QED
    BY <1>1, <1>4, <1>6, <2>1, OverviewKeysKeep DEF Down, OnOverview
<1>7. CASE Up
  <2>1. Greater(offset - 1, 0) \in Int /\ cursor - 1 \in Int
    BY <1>2, <1>3
  <2> QED
    BY <1>1, <1>4, <1>7, <2>1, OverviewKeysKeep DEF Up, OnOverview
<1>8. CASE NextPage
  <2>1. offset + PageStep \in Int /\ cursor + PageStep \in Int
    BY <1>2
  <2> QED
    BY <1>1, <1>4, <1>8, <2>1, OverviewKeysKeep DEF NextPage, OnOverview
<1>9. CASE LastPage
  <2>1. Greater(offset - PageStep, 0) \in Int /\ cursor - PageStep \in Int
    BY <1>2, <1>3
  <2> QED
    BY <1>1, <1>4, <1>9, <2>1, OverviewKeysKeep DEF LastPage, OnOverview
<1>10. CASE Top
  <2>1. (MoveTo(0, TRUE) => FrameInv') /\ (Scroll(0) => FrameInv')
    <3>1. 0 \in Int
      OBVIOUS
    <3>2. TRUE \in BOOLEAN
      OBVIOUS
    <3> QED
      BY Zenon, <1>4, <3>1, <3>2
  <2>2. OnOverview(OverviewTop) => FrameInv'
    BY <1>1, OverviewKeysKeep DEF OnOverview
  <2> QED
    BY <1>10, <2>1, <2>2 DEF Top
<1>11. CASE Bottom
  <2>1. Len(VisibleIndexes) - 1 \in Int
    BY <1>2
  <2> QED
    BY <1>1, <1>2, <1>4, <1>11, <2>1, OverviewKeysKeep DEF Bottom, OnOverview
<1> QED
  BY <1>6, <1>7, <1>8, <1>9, <1>10, <1>11

(* A filter narrows a list or stops narrowing it, and the cursor stays in  *)
(* what is left.                                                           *)
LEMMA NarrowedAlike ==
  ASSUME FrameInv, view' = view, listed' = listed, narrowed' \in {"typed", "kept"} <=> narrowed \in {"typed", "kept"}
  PROVE  VisibleIndexes' = VisibleIndexes
  BY DEF VisibleIndexes, InertRow

LEMMA FilterKeeps ==
  ASSUME FrameInv, NEW to \in {"off", "open", "typed", "kept"}, Filters(to), offset' \in Int, cursor' \in Nat,
         ~Overview => cursor' <= Greater(Len(VisibleIndexes') - 1, 0), cursor' <= cursor \/ cursor' < Len(VisibleIndexes)
  PROVE  FrameInv'
<1>1. "filter" \in view.keys /\ narrowed' = to /\ UNCHANGED <<view, height, listed, follow>>
  BY DEF Filters
<1>2. Overview => cursor' < Len(listed) + ResetRows
  <2>1. Overview => cursor < Len(listed) + ResetRows
    BY DEF FrameInv
  <2>2. Len(listed) \in Nat /\ Len(VisibleIndexes) \in Nat /\ Len(VisibleIndexes) <= Len(listed) /\ cursor \in Nat
    BY Zenon, Visible DEF FrameInv, InView
  <2> QED
    BY <2>1, <2>2 DEF ResetRows
<1> QED
  BY <1>1, <1>2, StaysInView DEF FrameInv, InView

LEMMA FiltersKeep ==
  ASSUME FrameInv, OpenFilter \/ TypeQuery \/ DropQuery \/ CloseFilter \/ KeepFilter \/ EscapeFilter \/ ArrowInFilter
  PROVE  FrameInv'
<1> DEFINE n == Len(VisibleIndexes)
<1>1. n \in Nat /\ cursor \in Nat /\ offset \in Int /\ narrowed \in {"off", "open", "typed", "kept"}
      /\ (~Overview => cursor <= Greater(n - 1, 0))
  BY Visible DEF FrameInv, InView
<1>2. \A k \in Nat : 0 <= Greater(k - 1, 0) /\ Greater(k - 1, 0) \in Int
  BY DEF Greater
<1>3. view' = view /\ listed' = listed
  BY DEF OpenFilter, TypeQuery, DropQuery, CloseFilter, KeepFilter, EscapeFilter, ArrowInFilter, Filters
<1>4. Len(VisibleIndexes') \in Nat
  BY <1>3, Indexes, IndexesAre DEF FrameInv, InView
<1>5. ASSUME NEW to \in {"off", "open", "typed", "kept"}, Filters(to), ResetCursor
      PROVE  FrameInv'
  <2>1. cursor' = 0 /\ offset' = 0 /\ 0 <= Greater(Len(VisibleIndexes') - 1, 0) /\ cursor' <= cursor
    BY <1>1, <1>2, <1>4, <1>5 DEF ResetCursor
  <2> QED
    BY <1>5, <2>1, FilterKeeps
<1>6. ASSUME NEW to \in {"off", "open", "typed", "kept"}, Filters(to), UNCHANGED offset,
             to \in {"typed", "kept"} <=> narrowed \in {"typed", "kept"},
             cursor' \in Nat, cursor' <= Greater(n - 1, 0) \/ cursor' = cursor, cursor' <= cursor \/ cursor' < n
      PROVE  FrameInv'
  <2>1. narrowed' = to
    BY <1>6 DEF Filters
  <2>2. VisibleIndexes' = VisibleIndexes
    BY <1>3, <1>6, <2>1, NarrowedAlike
  <2> QED
    BY <1>1, <1>6, <2>2, FilterKeeps
<1>7. CASE OpenFilter
  <2>1. /\ Filters(IF narrowed = "kept" THEN "typed" ELSE "open") /\ UNCHANGED <<cursor, offset>>
        /\ narrowed \in {"off", "kept"}
    BY <1>7 DEF OpenFilter, Presses
  <2> QED
    BY <1>1, <1>6, <2>1
<1>8. CASE CloseFilter
  BY <1>1, <1>6, <1>8 DEF CloseFilter
<1>9. CASE KeepFilter
  <2>1. Clamped(cursor, n) \in Nat /\ Clamped(cursor, n) <= Greater(n - 1, 0) /\ Clamped(cursor, n) <= cursor
    <3> HIDE DEF n
    <3>1. cursor \in Int /\ cursor >= 0
      BY <1>1
    <3> QED
      BY <1>1, <3>1, ClampedIn
  <2>2. narrowed = "typed" /\ Filters("kept") /\ cursor' = Clamped(cursor, n) /\ UNCHANGED offset
    BY <1>9 DEF KeepFilter
  <2> HIDE DEF n
  <2> QED
    BY <1>6, <2>1, <2>2
<1>10. CASE ArrowInFilter
  <2>1. /\ Filters(narrowed) /\ UNCHANGED offset
        /\ \/ cursor > 0 /\ cursor' = cursor - 1
           \/ cursor < n - 1 /\ cursor' = cursor + 1
    BY <1>10 DEF ArrowInFilter
  <2> HIDE DEF n
  <2>2. cursor' \in Nat /\ (cursor' <= cursor \/ cursor' < n)
    BY <1>1, <2>1
  <2>3. ~Overview => cursor' <= Greater(n - 1, 0)
    BY <1>1, <2>1 DEF Greater
  <2>4. VisibleIndexes' = VisibleIndexes
    <3>1. narrowed' = narrowed
      BY <2>1 DEF Filters
    <3> QED
      BY <1>3, <3>1, NarrowedAlike
  <2> QED
    BY <1>1, <2>1, <2>2, <2>3, <2>4, FilterKeeps DEF n
<1>11. CASE TypeQuery \/ DropQuery \/ EscapeFilter
  BY <1>5, <1>11 DEF TypeQuery, DropQuery, EscapeFilter
<1> QED
  BY <1>7, <1>8, <1>9, <1>10, <1>11

LEMMA LoadKeepsRows ==
  ASSUME FrameInv, LoadRows
  PROVE  FrameInv'
<1>1. listed' \in view.loads /\ UNCHANGED <<view, height, narrowed, armed, offset, follow>>
  BY DEF LoadRows
<1>2. CASE Overview
  <2>1. cursor' = Clamped(cursor, Len(OverviewRows'))
    BY <1>2 DEF LoadRows
  <2>2. Len(OverviewRows') = Len(listed') + 4 /\ Len(listed') \in Nat
    BY <1>1, OverviewRowsAre, ListOf DEF OverviewRows, ResetRows, FrameInv, InView
  <2>3. cursor' \in Nat /\ cursor' <= Greater(Len(OverviewRows') - 1, 0)
    BY <2>1, <2>2, ClampedIn DEF FrameInv, InView
  <2>4. cursor' < Len(listed') + 4
    BY <2>2, <2>3 DEF Greater
  <2>5. ~OnRows
    BY <1>2 DEF OnRows
  <2> QED
    BY <1>1, <1>2, <2>3, <2>4, <2>5, StaysInView DEF FrameInv, InView, ResetRows
<1>3. CASE ~Overview
  <2>1. cursor' = SkipInertRow(listed', VisibleIndexes', Clamped(cursor, Len(VisibleIndexes')), FALSE)
    BY <1>3 DEF LoadRows, SettledCursor
  <2>2. cursor \in Int
    BY DEF FrameInv, InView
  <2> QED
    BY <1>1, <1>3, <2>1, <2>2, SkipKeeps
<1> QED
  BY <1>2, <1>3

LEMMA HeightIs == FrameInv => ContentHeight \in Int /\ LinesAbove \in Int /\ Legend \in Int
<1> SUFFICES ASSUME FrameInv
             PROVE  ContentHeight \in Int /\ LinesAbove \in Int /\ Legend \in Int
  OBVIOUS
<1>1. \A part : \A n \in Nat : Lines(part, n) \in Nat
  BY DEF Lines, Opt
<1>2. \A b \in BOOLEAN : \A n \in Nat : Opt(b, n) \in Nat
  BY DEF Opt
<1>3. view.lines \in Nat
  BY ListAndText
<1>4. BufferSummary \in Nat /\ ShmemSummary \in Nat /\ WalSummary \in Nat
  BY <1>1 DEF BufferSummary, ShmemSummary, WalSummary, Opt
<1>5. RecTypeStats \in Nat
  BY <1>3 DEF RecTypeStats, Opt, Lesser, WalRecTypeMaxRows
<1>6. StatementsHeader \in Nat /\ PgbListHint \in Nat /\ PgBouncerHeader \in Nat /\ PgbShowHeader \in Nat
  BY <1>1 DEF StatementsHeader, PgbListHint, PgBouncerHeader, PgbShowHeader, Opt
<1>7. LogHeader \in Nat
  BY <1>1 DEF LogHeader
<1>8. IndexKeyBanner \in Nat
  BY <1>1 DEF IndexKeyBanner, Opt
<1>9. OwnBanner \in Nat
  BY <1>4, <1>5, <1>6, <1>7, <1>8 DEF OwnBanner, Opt
<1>10. ExtHint \in Nat /\ ActionBanner \in Nat /\ FilterLine \in Nat /\ SeekLine \in Nat /\ Legend \in Nat
  BY <1>1 DEF ExtHint, ActionBanner, FilterLine, SeekLine, Legend, Opt
<1>11. LinesAbove \in Int
  BY <1>9, <1>10 DEF LinesAbove
<1>12. Greater(height - 5, 3) \in Int
  BY DEF Greater, FrameInv, InView
<1> QED
  BY <1>10, <1>11, <1>12 DEF ContentHeight

LEMMA FrameStep == FrameInv /\ FrameNext => FrameInv'
<1> SUFFICES ASSUME FrameInv, FrameNext
             PROVE  FrameInv'
  OBVIOUS
<1>1. CASE Down \/ Up \/ NextPage \/ LastPage \/ Top \/ Bottom
  BY <1>1, MovesKeep
<1>2. CASE OpenFilter \/ TypeQuery \/ DropQuery \/ CloseFilter \/ KeepFilter \/ EscapeFilter \/ ArrowInFilter
  BY <1>2, FiltersKeep
<1>3. CASE LoadRows
  BY <1>3, LoadKeepsRows
<1>4. CASE Arm \/ AnswerPrompt
  BY <1>4, StaysStill DEF Arm, AnswerPrompt, FrameInv, InView
<1>5. CASE ResizeTerminal
  <2>1. height' \in Nat /\ UNCHANGED <<view, listed, cursor, offset, narrowed, follow>>
    BY <1>5, FrameAssumption DEF ResizeTerminal
  <2> QED
    BY <2>1, StaysStill DEF FrameInv, InView
<1>6. CASE DrawFrame
  <2>1. offset' = Content.first /\ UNCHANGED <<view, height, listed, cursor, narrowed>> /\ (follow' => follow)
    BY <1>6 DEF DrawFrame
  <2>2. Content.first \in Int
    BY HeightIs, ContentSpans DEF Content, Span
  <2> QED
    BY <2>1, <2>2, StaysStill DEF FrameInv, InView
<1> QED
  BY <1>1, <1>2, <1>3, <1>4, <1>5, <1>6 DEF FrameNext

LEMMA FrameWhole == FrameInv => WholeIn(Content)
<1> SUFFICES ASSUME FrameInv
             PROVE  WholeIn(Content)
  OBVIOUS
<1> DEFINE h == ContentHeight
<1>1. h \in Int /\ LinesAbove \in Int /\ Legend \in Int
  BY HeightIs
<1>2. TallEnough => h >= Room /\ height >= 8
  BY DEF TallEnough
<1>3. Content = ContentOf(h)
  BY DEF Content
<1>4. TallEnough => h + LinesAbove + Legend = height - 5
  BY <1>1, <1>2 DEF ContentHeight, Greater, FrameInv, InView
<1> HIDE DEF h
<1>5. FrameFits(Content)
  <2> SUFFICES ASSUME TallEnough
               PROVE  FrameLines(Content) = height + Opt(Hinted, 1)
    BY DEF FrameFits
  <2>1. Content.lines = h + Opt(Hinted, 1) /\ Opt(Hinted, 1) \in Int /\ height \in Int
    BY <1>1, <1>2, <1>3, ContentSpans DEF Opt, FrameInv, InView
  <2>2. FrameLines(Content) = 3 + LinesAbove + Content.lines + Legend + 1 + 1
    BY DEF FrameLines, HeaderLines
  <2> HIDE DEF FrameLines
  <2> QED
    BY <1>1, <1>4, <2>1, <2>2
<1>6. TextReached(Content)
  BY <1>1, <1>2, <1>3, ContentSpans DEF TextReached, h
<1>7. CursorInSight(Content)
  <2>1. Content \in Span /\ cursor \in Int
    BY <1>1, <1>3, ContentSpans DEF FrameInv, InView
  <2>2. /\ TallEnough /\ OnRows /\ Shown /\ ~Has("readErr") /\ view.over = "none" /\ VisibleIndexes # <<>>
             /\ view.level \notin {"tools", "pgbouncer", "bufferDetail", "waitProfile"}
           => cursor \in Content.first..(Content.end - 1)
    <3>1. Content.first \in Int /\ Content.end \in Int
      BY <2>1 DEF Span
    <3>2. /\ TallEnough /\ OnRows /\ Shown /\ ~Has("readErr") /\ view.over = "none"
               /\ view.level \notin {"tools", "pgbouncer", "bufferDetail", "waitProfile"}
             => InSight(Content)
      BY <1>1, <1>2, <1>3, ContentSpans DEF Listless
    <3> QED
      BY <2>1, <3>1, <3>2 DEF InSight
  <2>3. TallEnough /\ Overview /\ Shown /\ follow => Content.first <= CursorAt /\ CursorAt + CursorSpan <= Content.end
    BY <1>1, <1>2, <1>3, ContentSpans DEF FrameInv
  <2>4. OnRows /\ "filter" \notin view.keys /\ listed # <<>> => ~InertRow(listed, VisibleIndexes[cursor + 1])
    BY DEF FrameInv
  <2> QED
    BY <2>2, <2>3, <2>4 DEF CursorInSight
<1> QED
  BY <1>5, <1>6, <1>7 DEF WholeIn

(* renderRowList, viewportRange, skipInertRow, scrollWindow, render: of    *)
(* any screens, lists, filters, texts and terminals, and however they are  *)
(* scrolled: a frame that has room is as tall as the terminal, draws the   *)
(* row the cursor is on, rests on no line that answers to no key while the *)
(* list has another, and lets every line of a text be reached.             *)
THEOREM ScreenAlwaysWhole == InspectSpec => []ScreenWhole
<1> DEFINE Inv == inspector = "frame" => FrameInv
<1>1. InspectInit => Inv
  <2> SUFFICES ASSUME InspectInit, inspector = "frame"
               PROVE  FrameInv
    OBVIOUS
  <2>1. FrameInit
    BY DEF InspectInit
  <2>2. /\ view \in Views /\ height \in Nat /\ listed \in view.loads
        /\ cursor = 0 /\ offset = 0 /\ narrowed = "off" /\ follow = FALSE
    BY <2>1, FrameAssumption DEF FrameInit
  <2>3. Len(listed) \in Nat
    BY Zenon, <2>2, ListOf
  <2>4. VisibleIndexes = IndexesOf(listed, view, narrowed)
    BY IndexesAre
  <2>5. Len(VisibleIndexes) \in Nat /\ VisibleIndexes = [i \in DOMAIN listed |-> i]
    BY <2>2, <2>4, Indexes
  <2>6. listed # <<>> => ~InertRow(listed, VisibleIndexes[cursor + 1])
    <3>1. listed # <<>> => listed[1] # "section" /\ 1 \in DOMAIN listed
      BY <2>2, ListOf
    <3> QED
      BY <2>2, <2>5, <3>1 DEF InertRow
  <2>7. 0 <= Greater(Len(VisibleIndexes) - 1, 0)
    BY <2>5 DEF Greater
  <2> QED
    BY <2>2, <2>3, <2>6, <2>7 DEF FrameInv, InView, ResetRows
<1>2. Inv /\ [InspectNext]_inspectVars => Inv'
  <2> SUFFICES ASSUME Inv, [InspectNext]_inspectVars, inspector' = "frame"
               PROVE  FrameInv'
    OBVIOUS
  <2>1. inspector = "frame" /\ FrameInv
    BY DEF InspectNext, inspectVars
  <2>2. CASE FrameNext
    BY <2>1, <2>2, FrameStep
  <2>3. CASE UNCHANGED frameVars
    BY <2>1, <2>3, StaysStill DEF frameVars, FrameInv, InView
  <2> QED
    BY <2>1, <2>2, <2>3 DEF InspectNext, inspectVars
<1>3. Inv => ScreenWhole
  BY FrameWhole DEF ScreenWhole
<1> QED
  BY <1>1, <1>2, <1>3, PTL DEF InspectSpec
=============================================================================
