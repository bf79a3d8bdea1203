----------------------------- MODULE ProgressBar -----------------------------
(***************************************************************************)
(* The composite progress estimate of a running operation.  The counters   *)
(* of every pg_stat_progress view start over with each phase, so a phase   *)
(* is given a slice of one bar and its own fraction a place in the slice.  *)
(* Percents are in hundredths, for the fractions.                          *)
(***************************************************************************)
EXTENDS Integers, FiniteSetsExt

Unmapped == -1

(* CREATE INDEX and REINDEX.                                               *)
reindexPhaseSpan ==
  [initializing                               |-> <<0, 1>>,
   waiting_for_writers_before_build           |-> <<1, 2>>,
   building_index                             |-> <<2, 65>>,
   building_index_initializing                |-> <<2, 3>>,
   building_index_scanning_table              |-> <<3, 35>>,
   building_index_sorting_live_tuples         |-> <<35, 40>>,
   building_index_loading_tuples_in_tree      |-> <<40, 65>>,
   waiting_for_writers_before_validation      |-> <<65, 66>>,
   index_validation_scanning_index            |-> <<66, 74>>,
   index_validation_sorting_tuples            |-> <<74, 77>>,
   index_validation_scanning_table            |-> <<77, 95>>,
   waiting_for_old_snapshots                  |-> <<95, 97>>,
   waiting_for_readers_before_marking_dead    |-> <<97, 98>>,
   waiting_for_readers_before_dropping        |-> <<98, 100>>]

vacuumPhaseSpan ==
  [initializing             |-> <<0, 1>>,   scanning_heap            |-> <<1, 60>>,
   vacuuming_indexes        |-> <<60, 80>>, vacuuming_heap           |-> <<80, 92>>,
   cleaning_up_indexes      |-> <<92, 95>>, truncating_heap          |-> <<95, 99>>,
   performing_final_cleanup |-> <<99, 100>>]

(* A plain table runs the first acquiring phase, a partitioned one only    *)
(* the other.                                                              *)
analyzePhaseSpan ==
  [initializing                    |-> <<0, 1>>,   acquiring_sample_rows         |-> <<1, 75>>,
   acquiring_inherited_sample_rows |-> <<1, 75>>,  computing_statistics          |-> <<75, 95>>,
   computing_extended_statistics   |-> <<95, 99>>, finalizing_analyze            |-> <<99, 100>>]

clusterPhaseSpan ==
  [initializing            |-> <<0, 1>>,   seq_scanning_heap        |-> <<1, 40>>,
   index_scanning_heap     |-> <<1, 40>>,  sorting_tuples           |-> <<40, 50>>,
   writing_new_heap        |-> <<50, 70>>, swapping_relation_files  |-> <<70, 75>>,
   rebuilding_index        |-> <<75, 98>>, performing_final_cleanup |-> <<98, 100>>]

basebackupPhaseSpan ==
  [initializing                        |-> <<0, 1>>,   waiting_for_checkpoint_to_finish |-> <<1, 2>>,
   estimating_backup_size              |-> <<2, 3>>,   streaming_database_files         |-> <<3, 97>>,
   waiting_for_wal_archiving_to_finish |-> <<97, 99>>, transferring_wal_files           |-> <<99, 100>>]

(* COPY has no phases and no spans.                                        *)
commandPhaseSpans ==
  [CREATE_INDEX |-> reindexPhaseSpan, VACUUM |-> vacuumPhaseSpan, ANALYZE |-> analyzePhaseSpan,
   CLUSTER |-> clusterPhaseSpan, BASE_BACKUP |-> basebackupPhaseSpan]

(* Subphases an access method names itself: "building index: ...".         *)
BuildSubphases == {"building_index_other"}

(* A phase that is not listed has no slice.                                *)
resolvePhaseSpan(spans, phase) ==
  IF phase \in DOMAIN spans THEN spans[phase]
  ELSE IF phase \in BuildSubphases /\ "building_index" \in DOMAIN spans THEN spans["building_index"]
  ELSE <<>>

(* Mutant: a total that was estimated too low.                             *)
spanPointUncapped(span, done, total) ==
  100 * span[1] + (IF total > 0 THEN (100 * (span[2] - span[1]) * done) \div total ELSE 0)

(* Totals are estimates: they read 0 between phases, and done may pass     *)
(* them.                                                                   *)
spanPoint(span, done, total) ==
  100 * span[1] +
    (IF total > 0 THEN (100 * (span[2] - span[1]) * Min({done, total})) \div total ELSE 0)

InSpans(spans, row) ==
  LET span == resolvePhaseSpan(spans, row.phase)
  IN  IF span = <<>> THEN Unmapped ELSE spanPoint(span, row.done, row.total)

(* ReindexProgress.OverallPct: in a waiting phase done and total are those *)
(* of the lockers.                                                         *)
ReindexPct(row) == InSpans(reindexPhaseSpan, row)

(* ProgressRow.Pct: an estimate of a COPY can be too low, and its percent  *)
(* then above a hundred.                                                   *)
Pct(row) == IF row.total <= 0 THEN Unmapped ELSE (10000 * row.done) \div row.total

(* ProgressRow.OverallPct.                                                 *)
OverallPct(row) ==
  IF row.command \in DOMAIN commandPhaseSpans THEN InSpans(commandPhaseSpans[row.command], row)
  ELSE Pct(row)
=============================================================================
