-------------------------------- MODULE Overview -------------------------------
(* The system overview: snapshots and catalog sweeps that land in any      *)
(* order, the list of recommendations and resets the cursor is on, and the *)
(* sections around it.                                                     *)
EXTENDS Advice

CONSTANTS
  NoInfo,            \* no snapshot has landed
  OverviewSessions   \* bound: the snapshots and sweeps a session sees, and whether keys are pressed in it

(* What a snapshot and a sweep hold; a share of memory or of a disk that   *)
(* the server does not report is 0.                                        *)
Switches ==
  {"autovacuum", "track_counts", "fsync", "full_page_writes", "data_checksums", "pg_stat_statements.track",
   "track_io_timing", "log_checkpoints", "log_lock_waits", "log_temp_files", "hot_standby_feedback", "wal_compression"}
FreezeAges == [age : Nat, max : Nat, failsafe : Nat]
ServerSnapshots ==
  [off : SUBSET Switches, ram : Nat, hugeAsked : BOOLEAN, hugePool : Nat, hugeNeeds : Nat, swap : Nat, sharedBuffers : Nat,
   cached : Nat, cacheSize : Nat, workMem : Nat, conns : Nat, maxConns : Nat, dirty : Nat, hot : Nat, cold : Nat,
   backendFsyncs : Nat, clientWrites : Nat, serverWrites : Nat, ioSplit : BOOLEAN, lruMaxpages : Nat, cleaned : Nat,
   cappedSweeps : Nat, completion : Nat, timeout : Nat, interval : Nat, timed : Nat, requested : Nat, maxWal : Nat,
   walRate : Nat, syncMs : Nat, buffersFull : Nat, walBuffers : Nat, images : Nat, walRecords : Nat, workers : Nat, busy : Nat,
   costDelay : Nat, costLimit : Nat, backlog : Nat, idleXact : Nat, idleTimeout : Nat, statements : BOOLEAN,
   statementsUsed : Nat, statementsMax : Nat, qualstats : BOOLEAN, qualstatsUsed : Nat, qualstatsMax : Nat,
   tempBytes : Nat, tempDaily : Nat, xid : FreezeAges, mxid : FreezeAges,
   horizon : [age : Nat, restricted : BOOLEAN, kind : {"idle", "slot", "backend", "none"}],
   lockWaits : Nat, longestWait : Nat, longXact : Nat, prepared : Nat, oldestPrepared : Nat, archiveFailed : Nat,
   archiverStuck : BOOLEAN, archivesNowhere : BOOLEAN, pendingRestart : Nat, pendingReload : Nat, cacheBlocks : Nat,
   cacheHit : Nat, slru : [reads : Nat, hit : Nat, other : BOOLEAN, buffers : Nat], deadlocks : Nat, deadlocksDaily : Nat,
   commits : Nat, rollbacks : Nat, standby : BOOLEAN, receiver : {NoReceiver} \cup [silent : Nat, streaming : BOOLEAN],
   conflicts : Nat, replicas : SUBSET [lag : Nat, behind : Nat, streaming : BOOLEAN, sync : BOOLEAN], syncNames : BOOLEAN,
   slots : Seq([active : BOOLEAN, idle : Nat, status : STRING, retained : Nat, safe : Int])]
CatalogChecks == SweepChecks \cup {"schema_sequences"}
CatalogSweeps == [failed : SUBSET CatalogChecks, rows : SUBSET CatalogChecks, consumed : Nat]

(* A rate is of what was counted, and a sequence that is used up listed.   *)
ASSUME OverviewAssumption ==
  \A s \in OverviewSessions :
    /\ s.infos \subseteq {i \in ServerSnapshots : i.tempDaily > 0 => i.tempBytes > 0}
    /\ s.sweeps \subseteq {h \in CatalogSweeps : h.consumed >= 80 /\ "schema_sequences" \notin h.failed => "schema_sequences" \in h.rows}
    /\ NoInfo \notin s.infos /\ NoSweep \notin s.sweeps

VARIABLES
  page,         \* what the screen holds
  covered,      \* another screen is on top of it
  verbose,
  due,          \* the commands under way: samples, sweeps, resets
  overviewOf    \* the session
overviewVars == <<page, covered, verbose, due, overviewOf>>

MaxDue == 2  \* bound: commands of one kind under way

-----------------------------------------------------------------------------
(* The rows the cursor walks: what the panel lists, then the resets.       *)
Resets == <<"statements", "qualstats", "tablestats", "tablestats-all">>
AdviceOn(p) == IF p.info = NoInfo THEN {} ELSE Findings(p.info, p.sweep)
AdviceAt(p, key) == CHOOSE a \in AdviceOn(p) : a.key = key
ActionRows(p) == MaintAdvice({a \in AdviceOn(p) : Actionable(a)}) \o Resets
KeysIn(rows) == {rows[n] : n \in DOMAIN rows}
RowKeys(p) == KeysIn(ActionRows(p))

ResetAvailable(p, row) ==
  CASE row = "statements" -> p.info # NoInfo /\ p.info.statements
    [] row = "qualstats"  -> p.info # NoInfo /\ p.info.qualstats
    [] OTHER -> TRUE

OnRow(p, rows, at)    == [p EXCEPT !.cursor = at, !.key = rows[at]]
ClampedTo(p, rows, n) == OnRow(p, rows, Larger(Smaller(n, Len(rows)), 1))

(* The defect of a cursor kept by position.                                *)
KeepPosition(p, rows) == ClampedTo(p, rows, p.cursor)

(* A landing puts the cursor back on its row, by key.                      *)
BackOnRow(p, rows) ==
  IF p.key \in KeysIn(rows)
  THEN [p EXCEPT !.cursor = CHOOSE n \in DOMAIN rows : rows[n] = p.key]
  ELSE ClampedTo(p, rows, p.cursor)
RefreshAdvice(p) == BackOnRow(p, ActionRows(p))

-----------------------------------------------------------------------------
Opened ==
  /\ page = [info |-> NoInfo, sweep |-> NoSweep, sweeping |-> TRUE, cursor |-> 1, key |-> "", reset |-> ""]
  /\ covered = FALSE /\ verbose = FALSE
  /\ due = [samples |-> 1, sweeps |-> 1, resets |-> 0]
OverviewInit == Opened /\ overviewOf \in OverviewSessions

Listening == overviewOf.keys /\ ~covered /\ page.reset = ""

LoadOverview == due.samples < MaxDue /\ due.sweeps < MaxDue
Loaded == [due EXCEPT !.samples = @ + 1, !.sweeps = @ + 1]

OnMaintLoaded(info) ==
  /\ due.samples > 0
  /\ page' = RefreshAdvice([page EXCEPT !.info = info])
  /\ due' = [due EXCEPT !.samples = @ - 1]
  /\ UNCHANGED <<covered, verbose, overviewOf>>

OnMaintSchemaLoaded(sweep) ==
  /\ due.sweeps > 0
  /\ page' = RefreshAdvice([page EXCEPT !.sweep = sweep, !.sweeping = FALSE])
  /\ due' = [due EXCEPT !.sweeps = @ - 1]
  /\ UNCHANGED <<covered, verbose, overviewOf>>

(* A sample that failed leaves the one on screen.                          *)
MaintFails ==
  /\ due.samples > 0
  /\ due' = [due EXCEPT !.samples = @ - 1]
  /\ UNCHANGED <<page, covered, verbose, overviewOf>>

OnMaintTick ==
  /\ ~covered /\ due.samples < MaxDue
  /\ due' = [due EXCEPT !.samples = @ + 1]
  /\ UNCHANGED <<page, covered, verbose, overviewOf>>

RefreshOverview ==
  /\ Listening /\ LoadOverview
  /\ page' = [page EXCEPT !.sweeping = TRUE]
  /\ due' = Loaded
  /\ UNCHANGED <<covered, verbose, overviewOf>>

MoveOverview(rows, n) ==
  /\ Listening /\ n \in {1, page.cursor - 1, page.cursor + 1, Len(rows)}
  /\ page' = ClampedTo(page, rows, n)
  /\ UNCHANGED <<covered, verbose, due, overviewOf>>

ToggleVerbose ==
  /\ Listening
  /\ verbose' = ~verbose
  /\ UNCHANGED <<page, covered, due, overviewOf>>

(* Enter on the row of a reset asks first; a recommendation opens the      *)
(* screen that explains it, if there is one.                               *)
IsReset(row) == \E n \in DOMAIN Resets : Resets[n] = row
HandleMaintenanceEnter(row) ==
  /\ Listening
  /\ page' = IF IsReset(row) /\ ResetAvailable(page, row) THEN [page EXCEPT !.reset = row] ELSE page
  /\ covered' = (~IsReset(row) /\ AdviceAt(page, row).target # "none")
  /\ UNCHANGED <<verbose, due, overviewOf>>

AnswerReset(yes) ==
  /\ page.reset # "" /\ ~covered /\ due.resets < MaxDue
  /\ page' = [page EXCEPT !.reset = ""]
  /\ due' = IF yes THEN [due EXCEPT !.resets = @ + 1] ELSE due
  /\ UNCHANGED <<covered, verbose, overviewOf>>

(* The counters of the screen are read again only if it is on top.         *)
OnMaintResetDone ==
  /\ due.resets > 0 /\ (covered \/ LoadOverview)
  /\ page' = IF covered THEN page ELSE [page EXCEPT !.sweeping = TRUE]
  /\ due' = [(IF covered THEN due ELSE Loaded) EXCEPT !.resets = @ - 1]
  /\ UNCHANGED <<covered, verbose, overviewOf>>

ResetFails ==
  /\ due.resets > 0
  /\ due' = [due EXCEPT !.resets = @ - 1]
  /\ UNCHANGED <<page, covered, verbose, overviewOf>>

BackToOverview ==
  /\ covered
  /\ covered' = FALSE
  /\ UNCHANGED <<page, verbose, due, overviewOf>>

KeysOn(rows) ==
  \/ \E n \in DOMAIN rows : MoveOverview(rows, n)
  \/ HandleMaintenanceEnter(rows[page.cursor])

OverviewNext ==
  \/ \E i \in overviewOf.infos : OnMaintLoaded(i)
  \/ \E h \in overviewOf.sweeps : OnMaintSchemaLoaded(h)
  \/ MaintFails \/ OnMaintTick \/ RefreshOverview \/ ToggleVerbose
  \/ KeysOn(ActionRows(page))
  \/ (\E yes \in BOOLEAN : AnswerReset(yes)) \/ OnMaintResetDone \/ ResetFails \/ BackToOverview

-----------------------------------------------------------------------------
(* A section of the screen: the findings its title marks, the findings     *)
(* whose sentence has a row there, the checks it folds into the title as   *)
(* passed, by the finding each would give.                                 *)
Section(titled, noted, folded) == [titled |-> titled, noted |-> noted, folded |-> folded]
If(key, condition) == IF condition THEN {key} ELSE {}

ServerSection(fired, i) ==
  Section(
    {"data_checksums", "max_connections", "cache_hit", "rollback_ratio", "deadlocks", "long_xact", "idle_in_transaction"},
    {"data_checksums", "max_connections", "cache_hit"} \cup If("rollback_ratio", i.commits + i.rollbacks > 0)
      \cup If("deadlocks", i.deadlocks > 0) \cup If("long_xact", i.longXact >= 60 \/ "long_xact" \in fired),
    If("deadlocks", i.deadlocks = 0) \cup If("long_xact", ~(i.longXact >= 60 \/ "long_xact" \in fired))
      \cup If("idle_in_transaction", i.idleXact < 60))

ReplicationDrawn(i) == i.replicas # {} \/ i.slots # <<>> \/ i.receiver # NoReceiver
ReplicationSection(fired, i) ==
  Section({"synchronous_standby_names", "replication_lag", "replication_slots", "wal_receiver", "hot_standby_feedback"},
    IF ReplicationDrawn(i) THEN {"synchronous_standby_names", "replication_lag", "replication_slots"}
      \cup If("wal_receiver", i.receiver # NoReceiver) ELSE {}, {})

MemorySection(fired, i) ==
  Section({"shared_buffers", "work_mem", "effective_cache_size", "huge_pages", "swap"},
    {"shared_buffers", "work_mem"} \cup (fired \cap {"effective_cache_size", "huge_pages"}) \cup If("swap", i.swap > 0),
    If("swap", i.ram > 0 /\ i.swap = 0))

(* The defect of a row drawn by the age alone.                             *)
OldMxidDrawn(fired, i) == i.mxid.max > 0 /\ i.mxid.age * 2 >= i.mxid.max

(* The multixact age has a row once it is half way to a forced vacuum.     *)
MxidDrawn(fired, i) == "mxid_wraparound" \in fired \/ (i.mxid.max > 0 /\ i.mxid.age * 2 >= i.mxid.max)
HorizonDrawn(i) == i.horizon.age > 0 \/ i.horizon.restricted
AutovacuumSection(fired, i) ==
  Section({"autovacuum", "autovacuum_cost", "autovacuum_backlog", "wraparound", "mxid_wraparound", "xmin_horizon"},
    If("autovacuum", "autovacuum" \in i.off) \cup (fired \cap {"autovacuum_cost"}) \cup If("autovacuum_backlog", i.backlog > 0)
      \cup If("wraparound", i.xid.age > 0) \cup If("mxid_wraparound", i.mxid.age > 0 /\ MxidDrawn(fired, i))
      \cup If("xmin_horizon", HorizonDrawn(i)),
    If("autovacuum_backlog", i.backlog = 0) \cup If("mxid_wraparound", i.mxid.age > 0 /\ ~MxidDrawn(fired, i))
      \cup If("xmin_horizon", ~HorizonDrawn(i)))

BufferCacheSection(fired, i) ==
  Section({"buffercache_dirty", "buffercache_tight", "buffercache_slack", "slru", "backend_fsyncs"},
    (fired \cap {"buffercache_dirty", "buffercache_tight", "buffercache_slack", "slru"}) \cup If("backend_fsyncs", i.backendFsyncs > 0),
    If("slru", "slru" \notin fired) \cup If("backend_fsyncs", i.backendFsyncs = 0))

WALSection(fired, i) ==
  Section({"wal_buffers", "wal_fpi", "checkpoint_completion_target", "max_wal_size", "checkpoint_sync",
           "bgwriter_lru_maxpages", "fsync", "full_page_writes", "archive_mode"},
    (fired \cap {"fsync", "full_page_writes", "wal_fpi", "wal_buffers", "archive_mode", "checkpoint_completion_target", "max_wal_size"})
      \cup If("checkpoint_sync", i.timed + i.requested > 0) \cup If("bgwriter_lru_maxpages", i.ioSplit),
    If("wal_fpi", "wal_fpi" \notin fired))

HealthSection(fired, i) ==
  Section({"pending_restart", "pending_reload", "lock_waits", "prepared_xacts", "temp_files", "wal_archiver"},
    If("lock_waits", i.lockWaits > 0) \cup If("prepared_xacts", i.prepared > 0) \cup If("temp_files", i.tempBytes > 0)
      \cup If("wal_archiver", i.archiveFailed > 0),
    (IF i.pendingRestart = 0 /\ i.pendingReload = 0 THEN {"pending_restart", "pending_reload"} ELSE {})
      \cup If("lock_waits", i.lockWaits = 0) \cup If("temp_files", i.tempBytes = 0))

(* Drawn on demand: what is off there is a recommendation.                 *)
ObservabilitySection ==
  Section({"track_io_timing", "log_checkpoints", "log_lock_waits", "log_temp_files", "track_counts",
           "pg_stat_statements.track", "pg_stat_statements.max", "pg_qualstats.max"}, {}, {})

SchemaSection(sweep) ==
  Section(CatalogChecks, IF sweep = NoSweep THEN {} ELSE sweep.rows \ sweep.failed,
          IF sweep = NoSweep THEN {} ELSE CatalogChecks \ (sweep.failed \cup sweep.rows))

Sections(fired, i) ==
  {ServerSection(fired, i), ReplicationSection(fired, i), MemorySection(fired, i), AutovacuumSection(fired, i),
   BufferCacheSection(fired, i), WALSection(fired, i), HealthSection(fired, i), ObservabilitySection, SchemaSection(page.sweep)}
KeysOf(advice) == {a.key : a \in advice}

-----------------------------------------------------------------------------
(* A check is folded away as passed only if nothing graded came of it: the *)
(* titles are written apart from the rules, and call a check healthy by    *)
(* conditions of their own.                                                *)
FoldedIsHealthy(advice, sections) ==
  ~verbose => \A a \in advice, section \in sections : a.level >= Warn => a.key \notin section.folded

(* A finding is printed: in the panel if there is something to do, on the  *)
(* row it is about if not; and one that is graded marks the title of one   *)
(* section.  The exception is the cap of the background writer on a        *)
(* server without pg_stat_io, whose row is not drawn.                      *)
FindingPrinted(advice, sections) ==
  \A a \in advice :
    /\ \/ Actionable(a)
       \/ \E section \in sections : a.key \in section.noted
       \/ a.key = "bgwriter_lru_maxpages" /\ ~page.info.ioSplit
    /\ \E section \in sections : a.key \in section.titled

(* A landing that reshuffles the recommendations never moves the cursor to *)
(* another row than the one Enter would have acted on, while that row is   *)
(* still listed; and the cursor is on the row it is remembered by.         *)
CursorKeepsRow ==
  [][/\ (page'.info # page.info \/ page'.sweep # page.sweep) /\ page.key \in RowKeys(page') => page'.key = page.key
     /\ page'.key # "" => ActionRows(page')[page'.cursor] = page'.key]_overviewVars

(* The setting of a recommendation, changed as it says.                    *)
FieldOf == [s \in {"effective_cache_size", "work_mem", "bgwriter_lru_maxpages", "checkpoint_completion_target",
                   "max_wal_size", "wal_buffers", "autovacuum_vacuum_cost_limit", "idle_in_transaction_session_timeout",
                   "pg_stat_statements.max", "pg_qualstats.max", "huge_pages"} |->
  CASE s = "effective_cache_size" -> "cacheSize" [] s = "work_mem" -> "workMem" [] s = "bgwriter_lru_maxpages" -> "lruMaxpages"
    [] s = "checkpoint_completion_target" -> "completion" [] s = "max_wal_size" -> "maxWal" [] s = "wal_buffers" -> "walBuffers"
    [] s = "autovacuum_vacuum_cost_limit" -> "costLimit" [] s = "idle_in_transaction_session_timeout" -> "idleTimeout"
    [] s = "pg_stat_statements.max" -> "statementsMax" [] s = "pg_qualstats.max" -> "qualstatsMax" [] OTHER -> "hugePool"]
Applied(i, a) ==
  IF a.setting \in i.off THEN [i EXCEPT !.off = @ \ {a.setting}]
  ELSE IF a.key = "slru" THEN [i EXCEPT !.slru.buffers = a.suggested]
  ELSE [i EXCEPT ![FieldOf[a.setting]] = a.suggested]

(* A change that was made as suggested is not suggested again.  The rules  *)
(* for work_mem and effective_cache_size have a floor they return to.      *)
AdviceHeeded(advice) ==
  \A a \in advice :
    a.suggested # NoValue /\ a.key \notin {"work_mem", "effective_cache_size"} =>
      ~\E b \in Findings(Applied(page.info, a), page.sweep) : b.key = a.key /\ b.suggested = a.suggested

(* What the rules find on a snapshot is shown, and is settled by doing     *)
(* what it says.                                                           *)
PrintedIn(advice, sections) == FoldedIsHealthy(advice, sections) /\ FindingPrinted(advice, sections)
SoundAdvice(advice) == PrintedIn(advice, Sections(KeysOf(advice), page.info)) /\ AdviceHeeded(advice)
AdviceSound == page.info # NoInfo => SoundAdvice(AdviceOn(page))
=============================================================================
