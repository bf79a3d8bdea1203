--------------------------------- MODULE Advice --------------------------------
(* What the system overview recommends about a snapshot of the server: one *)
(* operator per group of rules.  A snapshot i holds plain figures: memory  *)
(* in MiB (work_mem in kB), times in seconds, ages in millions of          *)
(* transactions, shares in percent, "off" the switches that are off.       *)
EXTENDS Integers, Sequences

CONSTANTS
  NoReceiver,  \* a standby that streams from nowhere
  NoSweep      \* the catalog sweep has not landed

Info == 0
Warn == 1
Crit == 2

NoValue == -1  \* nothing suggested, or a figure the server does not report

Found(key, level) ==
  [key |-> key, level |-> level, setting |-> "", current |-> NoValue, suggested |-> NoValue,
   fix |-> FALSE, target |-> "none"]
OfSetting(key, level, setting, current) ==
  [Found(key, level) EXCEPT !.setting = setting, !.current = current]
Set(advice, value) == [advice EXCEPT !.suggested = value, !.fix = TRUE]
To(advice, target) == [advice EXCEPT !.target = target]
When(condition, advice) == IF condition THEN {advice} ELSE {}

Larger(a, b)  == IF a > b THEN a ELSE b
Smaller(a, b) == IF a < b THEN a ELSE b
AtLeast(x, warn, crit) == IF x >= crit THEN Crit ELSE IF x >= warn THEN Warn ELSE Info
Above(x, warn, crit)   == IF x > crit THEN Crit ELSE IF x > warn THEN Warn ELSE Info

-----------------------------------------------------------------------------
(* A switch that is off: 0, and 1 is what it is set to.                    *)
TurnOn(i, switch, level) ==
  When(switch \in i.off, Set(OfSetting(switch, level, switch, 0), 1))

AdviseSafety(i) ==
  (UNION {TurnOn(i, s, Crit) : s \in {"autovacuum", "track_counts", "fsync", "full_page_writes"}})
    \cup When("data_checksums" \in i.off, OfSetting("data_checksums", Info, "data_checksums", 0))

(* The share of the cache is what the host caches now, the suggestion two  *)
(* thirds of its memory in whole GiB.                                      *)
AdviseHostMemory(i) ==
  LET hugePages == OfSetting("huge_pages", Warn, "huge_pages", NoValue)
      cacheSize == Larger(((i.ram * 2) \div 3) \div 1024, 1) * 1024
      workMem   == Larger((i.ram \div 4) \div i.maxConns, 1) * 1024
  IN IF i.ram = 0 THEN {}
     ELSE When(i.hugeAsked /\ i.hugePool = 0,
               IF i.hugeNeeds > 0 THEN Set(hugePages, i.hugeNeeds) ELSE hugePages)
       \cup When(i.swap * 20 > i.ram, Found("swap", Warn))
       \cup When(i.sharedBuffers > 0 /\ i.sharedBuffers * 100 \notin (i.ram * 15)..(i.ram * 40),
                 OfSetting("shared_buffers", Info, "shared_buffers", i.sharedBuffers))
       \cup When(i.cached > 0 /\ i.cacheSize * 2 < i.sharedBuffers + i.cached,
                 Set(OfSetting("effective_cache_size", Warn, "effective_cache_size", i.cacheSize), cacheSize))
       \cup When(i.workMem * i.maxConns * 2 > i.ram * 1024,
                 Set(OfSetting("work_mem", Warn, "work_mem", i.workMem), workMem))

(* Two signals on one knob: backends that write themselves, and sweeps     *)
(* that stop at the cap.                                                   *)
AdviseBufferCache(i) ==
  LET writes == i.clientWrites + i.serverWrites
      behind == i.ioSplit /\ writes >= 1000 /\ i.clientWrites * 10 > writes
      capped == i.lruMaxpages > 0 /\ i.cleaned > 0 /\ i.cappedSweeps * i.lruMaxpages * 4 > i.cleaned
      sweep  == OfSetting("bgwriter_lru_maxpages", IF behind THEN Warn ELSE Info, "bgwriter_lru_maxpages", i.lruMaxpages)
  IN When(i.dirty > 25, Found("buffercache_dirty", Warn))
       \cup When(i.hot >= 70 /\ i.cold < 10, Found("buffercache_tight", Info))
       \cup When(~(i.hot >= 70 /\ i.cold < 10) /\ i.cold > 40, Found("buffercache_slack", Info))
       \cup When(i.backendFsyncs > 0, Found("backend_fsyncs", Crit))
       \cup When(behind \/ capped,
                 IF i.lruMaxpages \in 1..999 THEN Set(sweep, Smaller(i.lruMaxpages * 4, 1000)) ELSE sweep)

(* Sized so that the timer, not the WAL written since the last checkpoint, *)
(* starts the next one; whole GiB.                                         *)
RecommendedMaxWALSize(i) ==
  LET target == IF i.completion > 0 THEN i.completion ELSE 90
      need   == (i.walRate * i.timeout * (100 + target)) \div 100
  IN IF i.walRate <= 0 \/ i.timeout <= 0 THEN 0
     ELSE IF need <= 1024 THEN 1024 ELSE ((need + 1023) \div 1024) * 1024

AdviseCheckpoints(i) ==
  LET total    == i.timed + i.requested
      frequent == total > 0 /\ i.timeout > 0 /\ i.interval * 2 < i.timeout
      byShare  == IF total >= 10 THEN AtLeast((i.requested * 100) \div total, 30, 50) ELSE Info
      level    == Larger(byShare, IF frequent THEN Warn ELSE Info)
      sized    == RecommendedMaxWALSize(i)
      size     == IF sized <= i.maxWal THEN i.maxWal * 2 ELSE sized
      walSize  == OfSetting("max_wal_size", level, "max_wal_size", i.maxWal)
      buffers  == OfSetting("wal_buffers", Warn, "wal_buffers", i.walBuffers)
      images   == Found("wal_fpi", Info)
  IN When(i.completion \in 1..89,
          Set(OfSetting("checkpoint_completion_target", Info, "checkpoint_completion_target", i.completion), 90))
       \cup When(level > Info, IF size > i.maxWal THEN Set(walSize, size) ELSE walSize)
       \cup When(total > 0 /\ i.syncMs > 1000, Found("checkpoint_sync", Warn))
       \cup When(i.buffersFull > 0,
                 IF i.walBuffers > 0 THEN Set(buffers, IF i.walBuffers >= 64 THEN i.walBuffers * 2 ELSE 64) ELSE buffers)
       \cup When(i.images > 50 /\ i.walRecords >= 1000 /\ frequent,
                 IF "wal_compression" \in i.off
                 THEN Set([images EXCEPT !.setting = "wal_compression", !.current = 0], 1) ELSE images)

(* The defect of a limit raised past what the server takes.                *)
AdviseAnyLimit(i) ==
  LET raised == Smaller(i.costLimit * 2, 10000)
      cost   == OfSetting("autovacuum_cost", Warn, "autovacuum_vacuum_cost_limit", i.costLimit)
  IN When(i.workers > 0 /\ i.busy >= i.workers /\ i.costDelay > 0, Set(cost, raised))
       \cup When(i.backlog > 20, Found("autovacuum_backlog", Warn))

AdviseAutovacuum(i) ==
  LET raised == Smaller(i.costLimit * 2, 10000)
      cost   == OfSetting("autovacuum_cost", Warn, "autovacuum_vacuum_cost_limit", i.costLimit)
  IN When(i.workers > 0 /\ i.busy >= i.workers /\ i.costDelay > 0,
          IF raised > i.costLimit THEN Set(cost, raised) ELSE cost)
       \cup When(i.backlog > 20, Found("autovacuum_backlog", Warn))

AdviseSessions(i) ==
  LET idle == OfSetting("idle_in_transaction", AtLeast(i.idleXact, 60, 300), "idle_in_transaction_session_timeout", i.idleTimeout)
  IN When(i.idleXact >= 60, IF i.idleTimeout = 0 THEN Set(idle, 600) ELSE idle)

(* Entries of an extension are dropped when it is full.                    *)
AdviseFill(key, used, max) ==
  When(max > 0 /\ used * 10 >= max * 9, Set(OfSetting(key, Warn, key, max), max * 2))

AdviseObservability(i) ==
  (IF i.statements THEN TurnOn(i, "pg_stat_statements.track", Crit)
                          \cup AdviseFill("pg_stat_statements.max", i.statementsUsed, i.statementsMax) ELSE {})
    \cup TurnOn(i, "track_io_timing", Warn) \cup TurnOn(i, "log_checkpoints", Info) \cup TurnOn(i, "log_lock_waits", Info)
    \cup (IF i.qualstats THEN AdviseFill("pg_qualstats.max", i.qualstatsUsed, i.qualstatsMax) ELSE {})
    \cup (IF i.tempBytes > 0 THEN TurnOn(i, "log_temp_files", Info) ELSE {})

-----------------------------------------------------------------------------
(* An age of a counter against the failsafe, then against twice the limit  *)
(* a routine vacuum keeps; close to the limit it is said to be routine.    *)
FreezeLevel(a) ==
  LET critical == IF a.failsafe <= 0 THEN 1000 ELSE a.failsafe \div 2
      level    == Above(a.age, 2 * a.max, critical)
  IN [level |-> level, said |-> a.max > 0 /\ a.age > 0 /\ (level >= Warn \/ a.age * 4 >= a.max * 3)]

AdviseWraparound(i) ==
  LET xid == FreezeLevel(i.xid)
      mxid == FreezeLevel(i.mxid)
  IN When(xid.said, To(Found("wraparound", xid.level), "wraparound_tables"))
       \cup When(mxid.said, Found("mxid_wraparound", mxid.level))

(* A horizon one may not read is an unknown, not an all-clear.             *)
AdviseHorizon(i) ==
  LET h == i.horizon
      level  == Above(h.age * 100, 25 * i.xid.max, 50 * i.xid.max)
      holder == CASE h.kind = "idle" -> "idle_in_xact_holders" [] h.kind = "slot" -> "replication_slots"
                  [] h.kind = "backend" -> "activity" [] OTHER -> "none"
  IN IF i.xid.max <= 0 THEN {}
     ELSE IF h.age <= 0 THEN When(h.restricted, Found("xmin_horizon", Warn))
     ELSE When(level >= Warn, To(Found("xmin_horizon", level), holder))

AdviseOperational(i) ==
  LET used == (i.conns * 100) \div i.maxConns
  IN When(i.maxConns > 0 /\ used >= 80,
          To(OfSetting("max_connections", AtLeast(used, 80, 95), "max_connections", i.conns), "activity"))
       \cup When(i.lockWaits > 0, To(Found("lock_waits", IF i.longestWait > 30 THEN Crit ELSE Warn), "lock_tree"))
       \cup When(i.longXact >= 1800, To(Found("long_xact", AtLeast(i.longXact, 1800, 10800)), "activity"))
       \cup When(i.prepared > 0, Found("prepared_xacts", IF i.oldestPrepared > 300 THEN Crit ELSE Warn))
       \cup When(i.archiveFailed > 0, Found("wal_archiver", IF i.archiverStuck THEN Crit ELSE Warn))
       \cup When(i.archivesNowhere, OfSetting("archive_mode", Crit, "archive_mode", NoValue))
       \cup When(i.pendingRestart > 0, To(Found("pending_restart", Warn), "settings"))
       \cup When(i.pendingReload > 0, [To(Found("pending_reload", Info), "settings") EXCEPT !.fix = TRUE])

AutoSLRUBuffers(shared) ==
  IF shared <= 0 THEN 0 ELSE Smaller(Larger((shared * 128) \div 512, 16), 1024)

(* The worst of the small caches; the catch-all one has no setting.        *)
AdviseCounters(i) ==
  LET slru == i.slru
      size == IF slru.buffers = 0 THEN AutoSLRUBuffers(i.sharedBuffers) ELSE slru.buffers
      sized == OfSetting("slru", Warn, "subtransaction_buffers", size)
      total == i.commits + i.rollbacks
  IN When(i.cacheBlocks >= 100 /\ i.cacheHit < 95,
          To(Found("cache_hit", IF i.cacheHit < 90 THEN Warn ELSE Info), "database_stats"))
       \cup When(slru.reads >= 1000 /\ slru.hit < 90,
                 To(IF slru.other THEN Found("slru", Warn) ELSE IF size > 0 THEN Set(sized, size * 2) ELSE sized, "slru_stats"))
       \cup When(i.deadlocks > 0 /\ i.deadlocksDaily >= 1,
                 To(Found("deadlocks", AtLeast(i.deadlocksDaily, 1, 10)), "database_stats"))
       \cup When(i.tempDaily >= 10, To(Found("temp_files", Warn), "database_stats"))
       \cup When(total >= 1000 /\ i.rollbacks * 4 >= total, To(Found("rollback_ratio", Warn), "database_stats"))

-----------------------------------------------------------------------------
WorstOf(levels) == IF levels = {} THEN Info ELSE CHOOSE l \in levels : \A m \in levels : m <= l

ReplicaLevel(r) ==
  IF r.lag >= 300 \/ r.behind >= 1024 THEN Crit ELSE IF r.lag >= 60 \/ ~r.streaming THEN Warn ELSE Info

AdviseReplication(i) ==
  IF i.standby
  THEN (IF i.receiver = NoReceiver THEN {Found("wal_receiver", Warn)}
        ELSE LET level == IF i.receiver.silent >= 300 THEN Crit
                          ELSE IF i.receiver.silent >= 60 \/ ~i.receiver.streaming THEN Warn ELSE Info
             IN When(level >= Warn, Found("wal_receiver", level)))
         \cup (IF i.conflicts > 0 THEN TurnOn(i, "hot_standby_feedback", Warn) ELSE {})
  ELSE LET worst == WorstOf({ReplicaLevel(r) : r \in i.replicas})
       IN When(worst >= Warn, Found("replication_lag", worst))
            \cup When(i.syncNames /\ ~\E r \in i.replicas : r.sync,
                      OfSetting("synchronous_standby_names", Crit, "synchronous_standby_names", NoValue))

SlotLevel(s) ==
  IF \/ ~s.active /\ s.idle > 3600
     \/ s.status \in {"lost", "unreserved"}
     \/ s.safe > 0 /\ s.retained > s.safe
     \/ s.safe <= 0 /\ s.retained > 16384
  THEN Crit ELSE IF s.active THEN Info ELSE Warn

(* The worst slot, of equals the one that retains more, of equals the      *)
(* first; its drop is offered when nobody uses it.                         *)
WorstSlot(slots) ==
  CHOOSE n \in DOMAIN slots : \A k \in DOMAIN slots :
    \/ SlotLevel(slots[n]) > SlotLevel(slots[k])
    \/ SlotLevel(slots[n]) = SlotLevel(slots[k]) /\ slots[n].retained > slots[k].retained
    \/ SlotLevel(slots[n]) = SlotLevel(slots[k]) /\ slots[n].retained = slots[k].retained /\ n <= k

AdviseSlots(i) ==
  LET worst == i.slots[WorstSlot(i.slots)]
  IN IF i.slots = <<>> THEN {}
     ELSE When(SlotLevel(worst) >= Warn,
               [To(Found("replication_slots", SlotLevel(worst)), "replication_slots") EXCEPT !.fix = ~worst.active])

-----------------------------------------------------------------------------
SweepChecks ==
  {"schema_stale_stats", "schema_fk_index", "schema_bloat_table", "schema_bloat_index",
   "schema_index_invalid", "schema_index_duplicate"}

(* A check that could not be evaluated says nothing.                       *)
AdviseSchema(sweep) ==
  IF sweep = NoSweep THEN {}
  ELSE When("schema_sequences" \notin sweep.failed /\ sweep.consumed >= 80,
            To(Found("schema_sequences", AtLeast(sweep.consumed, 80, 95)), "sequences"))
         \cup {To(Found(c, Warn), c) : c \in (SweepChecks \ sweep.failed) \cap sweep.rows}

Opens(a) == IF a.target = "none" /\ a.setting # "" THEN To(a, "settings") ELSE a

Findings(i, sweep) ==
  {Opens(a) : a \in AdviseSafety(i) \cup AdviseHostMemory(i) \cup AdviseBufferCache(i) \cup AdviseCheckpoints(i)
     \cup AdviseWraparound(i) \cup AdviseHorizon(i) \cup AdviseAutovacuum(i) \cup AdviseSessions(i) \cup AdviseOperational(i)
     \cup AdviseCounters(i) \cup AdviseReplication(i) \cup AdviseSlots(i) \cup AdviseObservability(i) \cup AdviseSchema(sweep)}

(* The keys, in the order the findings of one level are listed.            *)
Keys == <<
  "archive_mode", "autovacuum", "autovacuum_backlog", "autovacuum_cost", "backend_fsyncs", "bgwriter_lru_maxpages",
  "buffercache_dirty", "buffercache_slack", "buffercache_tight", "cache_hit", "checkpoint_completion_target",
  "checkpoint_sync", "data_checksums", "deadlocks", "effective_cache_size", "fsync", "full_page_writes",
  "hot_standby_feedback", "huge_pages", "idle_in_transaction", "lock_waits", "log_checkpoints", "log_lock_waits",
  "log_temp_files", "long_xact", "max_connections", "max_wal_size", "mxid_wraparound", "pending_reload", "pending_restart",
  "pg_qualstats.max", "pg_stat_statements.max", "pg_stat_statements.track", "prepared_xacts", "replication_lag",
  "replication_slots", "rollback_ratio", "schema_bloat_index", "schema_bloat_table", "schema_fk_index",
  "schema_index_duplicate", "schema_index_invalid", "schema_sequences", "schema_stale_stats", "shared_buffers", "slru",
  "swap", "synchronous_standby_names", "temp_files", "track_counts", "track_io_timing", "wal_archiver", "wal_buffers",
  "wal_fpi", "wal_receiver", "work_mem", "wraparound", "xmin_horizon">>

(* The findings by key, the worst first.                                   *)
MaintAdvice(findings) ==
  LET Of(level) == SelectSeq(Keys, LAMBDA k : \E a \in findings : a.key = k /\ a.level = level)
  IN Of(Crit) \o Of(Warn) \o Of(Info)

(* The defect of a panel without the warnings.                             *)
ActionableIfCritical(a) == a.level >= Crit \/ a.fix

Actionable(a) == a.level >= Warn \/ a.fix
=============================================================================
