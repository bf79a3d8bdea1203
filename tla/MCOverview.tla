------------------------------- MODULE MCOverview -------------------------------
(* Snapshots for the overview: a healthy server, then one group of figures *)
(* at a time around each threshold of the rules.                           *)
EXTENDS Overview

Slot(active, idle, status, retained, safe) ==
  [active |-> active, idle |-> idle, status |-> status, retained |-> retained, safe |-> safe]
Replica(lag, behind, streaming, sync) == [lag |-> lag, behind |-> behind, streaming |-> streaming, sync |-> sync]

Healthy ==
  [off |-> {}, ram |-> 8192, hugeAsked |-> FALSE, hugePool |-> 0, hugeNeeds |-> 0, swap |-> 0, sharedBuffers |-> 2048,
   cached |-> 4096, cacheSize |-> 4096, workMem |-> 4096, conns |-> 10, maxConns |-> 100, dirty |-> 0, hot |-> 0, cold |-> 20,
   backendFsyncs |-> 0, clientWrites |-> 0, serverWrites |-> 1000, ioSplit |-> TRUE, lruMaxpages |-> 100, cleaned |-> 1000,
   cappedSweeps |-> 0, completion |-> 90, timeout |-> 300, interval |-> 300, timed |-> 10, requested |-> 0, maxWal |-> 1024,
   walRate |-> 0, syncMs |-> 0, buffersFull |-> 0, walBuffers |-> 16, images |-> 10, walRecords |-> 1000, workers |-> 3, busy |-> 0,
   costDelay |-> 2, costLimit |-> 200, backlog |-> 0, idleXact |-> 0, idleTimeout |-> 0, statements |-> TRUE,
   statementsUsed |-> 10, statementsMax |-> 5000, qualstats |-> TRUE, qualstatsUsed |-> 10, qualstatsMax |-> 1000,
   tempBytes |-> 0, tempDaily |-> 0, xid |-> [age |-> 50, max |-> 200, failsafe |-> 1600],
   mxid |-> [age |-> 0, max |-> 400, failsafe |-> 1600], horizon |-> [age |-> 0, restricted |-> FALSE, kind |-> "none"],
   lockWaits |-> 0, longestWait |-> 0, longXact |-> 0, prepared |-> 0, oldestPrepared |-> 0, archiveFailed |-> 0,
   archiverStuck |-> FALSE, archivesNowhere |-> FALSE, pendingRestart |-> 0, pendingReload |-> 0, cacheBlocks |-> 1000, cacheHit |-> 99,
   slru |-> [reads |-> 0, hit |-> 100, other |-> FALSE, buffers |-> 0], deadlocks |-> 0, deadlocksDaily |-> 0, commits |-> 1000,
   rollbacks |-> 10, standby |-> FALSE, receiver |-> NoReceiver, conflicts |-> 0, replicas |-> {}, syncNames |-> FALSE, slots |-> <<>>]

SwitchInfos == {[Healthy EXCEPT !.off = {s}, !.tempBytes = 1, !.statements = x] : s \in Switches, x \in BOOLEAN}
MemoryInfos ==
  {[Healthy EXCEPT !.hugeAsked = h, !.hugeNeeds = n, !.swap = s] : h \in BOOLEAN, n \in {0, 1100}, s \in {0, 300, 500}}
    \cup {[Healthy EXCEPT !.ram = r, !.sharedBuffers = b, !.cacheSize = c, !.workMem = w] :
            r \in {0, 1024, 8192}, b \in {0, 128, 4096}, c \in {64, 4096}, w \in {1024, 65536}}
CacheInfos ==
  {[Healthy EXCEPT !.dirty = d, !.hot = hc[1], !.cold = hc[2], !.backendFsyncs = f] :
     d \in {10, 26}, hc \in {<<70, 9>>, <<69, 9>>, <<20, 41>>, <<80, 10>>}, f \in {0, 1}}
    \cup {[Healthy EXCEPT !.clientWrites = c, !.ioSplit = s, !.lruMaxpages = m, !.cappedSweeps = k] :
            c \in {0, 100, 200}, s \in BOOLEAN, m \in {0, 100, 500, 1000}, k \in {0, 3}}
WalInfos ==
  {[Healthy EXCEPT !.timed = n[1], !.requested = n[2], !.interval = v, !.walRate = w, !.maxWal = m] :
     n \in {<<0, 0>>, <<10, 0>>, <<6, 4>>, <<1, 9>>}, v \in {100, 300}, w \in {0, 4}, m \in {1024, 4096}}
    \cup {[Healthy EXCEPT !.completion = c, !.syncMs = s, !.buffersFull = f, !.walBuffers = b] :
            c \in {0, 50, 90}, s \in {0, 2000}, f \in {0, 1}, b \in {0, 16, 64}}
    \cup {[Healthy EXCEPT !.images = 60, !.interval = v, !.off = o] : v \in {100, 300}, o \in {{}, {"wal_compression"}}}
VacuumInfos ==
  {[Healthy EXCEPT !.busy = b, !.costLimit = c, !.backlog = g] : b \in {2, 3}, c \in {200, 6000, 10000}, g \in {0, 5, 21}}
    \cup {[Healthy EXCEPT !.xid.age = x] : x \in {100, 149, 150, 401, 900}}
    \cup {[Healthy EXCEPT !.mxid = [age |-> m, max |-> w, failsafe |-> f]] :
            m \in {0, 150, 299, 300, 801, 1600}, w \in {0, 400, 2000}, f \in {0, 100, 1600}}
    \cup {[Healthy EXCEPT !.horizon = [age |-> a, restricted |-> r, kind |-> k]] :
            a \in {0, 30, 51, 101}, r \in BOOLEAN, k \in {"idle", "slot", "backend", "none"}}
SessionInfos ==
  {[Healthy EXCEPT !.idleXact = d, !.idleTimeout = t, !.longXact = l] : d \in {0, 59, 60, 300}, t \in {0, 60}, l \in {0, 60, 1800, 10800}}
    \cup {[Healthy EXCEPT !.conns = c, !.lockWaits = n, !.longestWait = w] : c \in {10, 80, 95}, n \in {0, 1}, w \in {10, 31}}
    \cup {[Healthy EXCEPT !.prepared = p, !.oldestPrepared = o, !.pendingRestart = r, !.pendingReload = l] :
            p \in {0, 1}, o \in {10, 301}, r \in {0, 1}, l \in {0, 1}}
HealthInfos ==
  {[Healthy EXCEPT !.archiveFailed = f, !.archiverStuck = s, !.archivesNowhere = n] : f \in {0, 2}, s, n \in BOOLEAN}
    \cup {[Healthy EXCEPT !.cacheHit = h, !.rollbacks = r, !.deadlocks = d, !.deadlocksDaily = d, !.tempBytes = t, !.tempDaily = t] :
            h \in {89, 94, 95}, r \in {10, 400}, d \in {0, 1, 10}, t \in {0, 10}}
    \cup {[Healthy EXCEPT !.slru = [reads |-> r, hit |-> 80, other |-> o, buffers |-> b], !.sharedBuffers = s] :
            r \in {10, 1000}, o \in BOOLEAN, b \in {0, 32}, s \in {0, 2048}}
    \cup {[Healthy EXCEPT !.statementsUsed = u, !.qualstatsUsed = q] : u \in {10, 4500}, q \in {10, 950}}
ReplicationInfos ==
  {[Healthy EXCEPT !.replicas = r, !.syncNames = s] :
     r \in {{}, {Replica(70, 0, TRUE, FALSE)}, {Replica(0, 0, FALSE, TRUE), Replica(0, 2000, TRUE, FALSE)}}, s \in BOOLEAN}
    \cup {[Healthy EXCEPT !.standby = TRUE, !.receiver = v, !.conflicts = c, !.off = {"hot_standby_feedback"}] :
            v \in {NoReceiver, [silent |-> 10, streaming |-> TRUE], [silent |-> 10, streaming |-> FALSE], [silent |-> 301, streaming |-> TRUE]},
            c \in {0, 1}}
    \cup {[Healthy EXCEPT !.slots = <<a, b>>] :
            a, b \in {Slot(TRUE, 0, "reserved", 10, 0), Slot(FALSE, 60, "reserved", 10, 0), Slot(FALSE, 4000, "reserved", 10, 0),
                      Slot(TRUE, 0, "extended", 17000, 0), Slot(TRUE, 0, "lost", 0, 0), Slot(FALSE, 60, "extended", 60, 50)}}

CleanSweep == [failed |-> {}, rows |-> {}, consumed |-> 10]
Swept ==
  {[failed |-> {}, rows |-> {c}, consumed |-> 10] : c \in SweepChecks}
    \cup {[failed |-> f, rows |-> {"schema_fk_index", "schema_sequences"} \ f, consumed |-> c] :
            f \in {{}, {"schema_sequences"}, {"schema_fk_index"}}, c \in {40, 96}}

Alone(infos) == {[infos |-> {i}, sweeps |-> {CleanSweep}, keys |-> FALSE] : i \in infos}

(* Recommendations that come and go above and below each other.            *)
Shuffled ==
  {[infos  |-> {[Healthy EXCEPT !.slots = <<Slot(FALSE, 60, "reserved", 10, 0)>>, !.backlog = 21],
                [Healthy EXCEPT !.slots = <<Slot(FALSE, 4000, "reserved", 10, 0)>>, !.off = {"fsync"}],
                [Healthy EXCEPT !.lockWaits = 1, !.statements = FALSE]},
    sweeps |-> {CleanSweep, [failed |-> {}, rows |-> {"schema_fk_index", "schema_sequences"}, consumed |-> 96]},
    keys   |-> TRUE]}
   \cup {[infos |-> {Healthy}, sweeps |-> {h}, keys |-> FALSE] : h \in Swept}

MCSessions ==
  Shuffled \cup Alone(SwitchInfos \cup MemoryInfos \cup CacheInfos \cup WalInfos \cup VacuumInfos \cup SessionInfos
                        \cup HealthInfos \cup ReplicationInfos)
=============================================================================
