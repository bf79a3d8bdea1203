------------------------------ MODULE TopQueries ------------------------------
(***************************************************************************)
(* The top-queries window of pgdu (levelStatements) and the snapshot       *)
(* browser above it (levelSnapshots).                                      *)
(*                                                                         *)
(* pg_stat_statements only ever accumulates, so the table shows the        *)
(* difference between a baseline and the latest sample.  The user changes  *)
(* the baseline with R, X and a pick in the browser; every read of the     *)
(* server and of the snapshot directory is a command that runs in a        *)
(* goroutine of its own and answers with a message, in any order.          *)
(***************************************************************************)
EXTENDS StatementDiff, FiniteSets

CONSTANTS
  Databases,   \* databases the user can open the tool on
  DatabaseOf,  \* the database a statement runs in (pg_stat_statements.dbid)
  Costs,       \* execution times one call of a statement can add
  MaxCalls,    \* bound: calls of one statement the server counts
  MaxResets,   \* bound: pg_stat_statements resets
  MaxSnaps,    \* bound: snapshot files ever written
  Slots,       \* bound: commands in flight at a time
  None         \* Go's nil

ASSUME ConstAssumption ==
  /\ DatabaseOf \in [Queries -> Databases]
  /\ Costs \subseteq Nat
  /\ MaxCalls \in Nat /\ MaxResets \in Nat /\ MaxSnaps \in Nat
  /\ None \notin Sample /\ None \notin Databases
  /\ None \notin [id : Nat, db : Databases, epoch : Nat, stats : Sample]

VARIABLES
  srv,        \* the server: its counters and how often they were reset
  disk,       \* the snapshot files
  saved,      \* files written so far; a file's number orders it by CapturedAt
  net,        \* slot -> the command or message in it, None when free
  at,         \* the screen on top of the stack
  db,         \* the database of the levelStatements screen, None when there is none
  baseline, baseSnap, endSnap, cumulative, session, loaded, err,
              \* the stmtState fields of the levelStatements screen
  shown,      \* its rows: the diff they render (see Rows), None before the first
  entry, items, metas,
              \* the levelSnapshots screen: its rows and the files behind them
  notice      \* the refusal a pick left in Model.notice

window  == <<baseline, baseSnap, endSnap, cumulative, session, loaded, err, shown>>
browser == <<entry, items, metas>>
vars    == <<srv, disk, saved, net, at, db, window, browser, notice>>

Epochs   == 0..MaxResets
SnapIds  == 1..MaxSnaps
Server   == [epoch : Epochs, stats : Sample]
Snapshot == [id : SnapIds, db : Databases, epoch : Epochs, stats : Sample]
Meta     == [id : SnapIds, db : Databases, epoch : Epochs]
Diff     == [from : Sample, to : Sample, clamped : BOOLEAN]

(* What the table renders.                                                 *)
Rows(d) == IF d.clamped THEN DiffStatementsClamped(d.from, d.to)
                        ELSE DiffStatements(d.from, d.to)

(* The browser's rows: the snapshots and the synthetic anchors snapReset,  *)
(* snapNow and snapSession.  Numbers compare as snapTime orders the rows:  *)
(* the last reset before every snapshot, now after all of them.            *)
Reset   == 0
Now     == MaxSnaps + 1
Session == MaxSnaps + 2
Picks   == SnapIds \cup {Reset, Now, Session}

(* StatementSnapshot reads the counters of one database.                   *)
StatementSnapshot(d) ==
  [q \in Queries |-> IF DatabaseOf[q] = d THEN srv.stats[q] ELSE NoCalls]

MetaOf(s)  == [id |-> s.id, db |-> s.db, epoch |-> s.epoch]
LoadSnapshot(i) == IF \E s \in disk : s.id = i THEN CHOOSE s \in disk : s.id = i ELSE None

-----------------------------------------------------------------------------
(* Messages.  A command starts out "sent"; reading the server or the disk  *)
(* turns it into the reply that a later step delivers.                     *)

SampleCmd(d)       == [kind |-> "sample", db |-> d]
SaveCmd(d)         == [kind |-> "save", db |-> d]
ListCmd            == [kind |-> "list"]
ResetCmd           == [kind |-> "reset"]
DeleteCmd(i)       == [kind |-> "delete", snap |-> i]
BaseCmd(i)         == [kind |-> "base", snap |-> i]
FrozenCmd(b, e, s) == [kind |-> "frozen", base |-> b, end |-> e, stay |-> s]

Commands ==
  [kind : {"sample", "save"}, db : Databases]
    \cup [kind : {"list", "reset"}]
    \cup [kind : {"delete", "base"}, snap : SnapIds]
    \cup [kind : {"frozen"}, base : SnapIds \cup {Reset}, end : SnapIds, stay : BOOLEAN]

Replies ==
  [kind : {"sampled"}, db : Databases, stats : Sample \cup {None}]
    \cup [kind : {"captured"}, db : Databases, stats : Sample]
    \cup [kind : {"listing"}, metas : SUBSET Meta, epoch : Epochs]
    \cup [kind : {"base ready"}, snap : Snapshot \cup {None}]
    \cup [kind : {"frozen ready"}, base : Snapshot \cup {None},
          end : Snapshot, stay : BOOLEAN]
    \cup [kind : {"frozen failed"}]
    \cup [kind : {"reset done"}, ok : BOOLEAN]

ASSUME NilAssumption == None \notin Diff \cup Commands \cup Replies

(* Issue(m) starts a command, Answer(s, m) turns it into its reply; the    *)
(* handler of a reply ends it with Done(s), or with the next command.      *)
Issue(m)     == \E s \in Slots : net[s] = None /\ net' = [net EXCEPT ![s] = m]
Answer(s, m) == net' = [net EXCEPT ![s] = m]
Done(s)      == net' = [net EXCEPT ![s] = None]
Sent(s, k)   == net[s] # None /\ net[s].kind = k

-----------------------------------------------------------------------------
(* The fields of a screen that was just pushed, and of no screen at all.   *)
FreshWindow ==
  /\ baseline' = None /\ baseSnap' = None /\ endSnap' = None /\ session' = None
  /\ cumulative' = FALSE /\ loaded' = FALSE /\ err' = FALSE /\ shown' = None
FreshBrowser(isEntry) == entry' = isEntry /\ items' = {} /\ metas' = {}
NoBrowser             == FreshBrowser(FALSE)

Init ==
  /\ srv = [epoch |-> 0, stats |-> ZeroSample]
  /\ disk = {} /\ saved = 0
  /\ net = [s \in Slots |-> None]
  /\ at = "menu" /\ db = None
  /\ baseline = None /\ baseSnap = None /\ endSnap = None /\ session = None
  /\ cumulative = FALSE /\ loaded = FALSE /\ err = FALSE /\ shown = None
  /\ entry = FALSE /\ items = {} /\ metas = {}
  /\ notice = None

-----------------------------------------------------------------------------
(* The server and the commands running against it.                         *)

Execute(q, cost) ==
  /\ srv.stats[q].calls < MaxCalls
  /\ srv' = [srv EXCEPT !.stats[q] = [calls |-> @.calls + 1, time |-> @.time + cost]]
  /\ UNCHANGED <<disk, saved, net, at, db, window, browser, notice>>

ResetCounters ==
  /\ srv.epoch < MaxResets
  /\ srv' = [epoch |-> srv.epoch + 1, stats |-> ZeroSample]

(* Another client calls pg_stat_statements_reset().                        *)
ExternalReset ==
  /\ ResetCounters
  /\ UNCHANGED <<disk, saved, net, at, db, window, browser, notice>>

ServeSample(s) ==
  /\ Sent(s, "sample")
  /\ \E stats \in {StatementSnapshot(net[s].db), None} :
       Answer(s, [kind |-> "sampled", db |-> net[s].db, stats |-> stats])
  /\ UNCHANGED <<srv, disk, saved, at, db, window, browser, notice>>

(* CaptureSnapshot reads the counters and only then stamps CapturedAt and  *)
(* reads stats_reset: a reset can fall in between.  A failed read or write *)
(* only leaves a notice.                                                   *)
Capture(s) ==
  /\ Sent(s, "save")
  /\ \/ Answer(s, [kind |-> "captured", db |-> net[s].db,
                   stats |-> StatementSnapshot(net[s].db)])
     \/ Done(s)
  /\ UNCHANGED <<srv, disk, saved, at, db, window, browser, notice>>

SaveSnapshot(s) ==
  /\ Sent(s, "captured")
  /\ Done(s)
  /\ \/ /\ saved < MaxSnaps
        /\ saved' = saved + 1
        /\ disk' = disk \cup {[id |-> saved + 1, db |-> net[s].db, epoch |-> srv.epoch,
                               stats |-> net[s].stats]}
     \/ UNCHANGED <<saved, disk>>
  /\ UNCHANGED <<srv, at, db, window, browser, notice>>

(* The directory, and when the counters were last reset; that second read  *)
(* is best-effort, epoch 0 standing for the zero time.                     *)
Listing(files) ==
  {[kind |-> "listing", metas |-> {MetaOf(f) : f \in files}, epoch |-> e] :
     e \in {0, srv.epoch}}

ServeList(s) ==
  /\ Sent(s, "list")
  /\ \E l \in Listing(disk) : Answer(s, l)
  /\ UNCHANGED <<srv, disk, saved, at, db, window, browser, notice>>

(* A file another user deleted first fails the delete: no listing then.    *)
ServeDelete(s) ==
  /\ Sent(s, "delete")
  /\ LET left == {f \in disk : f.id # net[s].snap}
     IN  /\ disk' = left
         /\ \E l \in IF left = disk THEN {[kind |-> "listing", metas |-> {}, epoch |-> 0]}
                                    ELSE Listing(left) : Answer(s, l)
  /\ UNCHANGED <<srv, saved, at, db, window, browser, notice>>

ServeBase(s) ==
  /\ Sent(s, "base")
  /\ Answer(s, [kind |-> "base ready", snap |-> LoadSnapshot(net[s].snap)])
  /\ UNCHANGED <<srv, disk, saved, at, db, window, browser, notice>>

ServeFrozen(s) ==
  /\ Sent(s, "frozen")
  /\ LET b == IF net[s].base = Reset THEN None ELSE LoadSnapshot(net[s].base)
         e == LoadSnapshot(net[s].end)
     IN  IF e = None \/ (b = None /\ net[s].base # Reset)
         THEN Answer(s, [kind |-> "frozen failed"])
         ELSE Answer(s, [kind |-> "frozen ready", base |-> b, end |-> e, stay |-> net[s].stay])
  /\ UNCHANGED <<srv, disk, saved, at, db, window, browser, notice>>

(* resetStatementsCmd, X on the table.                                     *)
ServeReset(s) ==
  /\ Sent(s, "reset")
  /\ \/ ResetCounters /\ Answer(s, [kind |-> "reset done", ok |-> TRUE])
     \/ UNCHANGED srv /\ Answer(s, [kind |-> "reset done", ok |-> FALSE])
  /\ UNCHANGED <<disk, saved, at, db, window, browser, notice>>

-----------------------------------------------------------------------------
(* Keys.  handleKey clears the notice before anything else.                *)

Key(screens) == at \in screens /\ notice' = None

LeaveTool == at' = "menu" /\ db' = None /\ FreshWindow /\ NoBrowser

(* Mutant: an R that leaves a cumulative window marked cumulative.         *)
RestartKeepsCumulative ==
  baseline' = None /\ baseSnap' = None /\ endSnap' = None /\ UNCHANGED cumulative

(* R, a reset and every pick drop what the window was based on.            *)
restartWindow ==
  baseline' = None /\ baseSnap' = None /\ endSnap' = None /\ cumulative' = FALSE

(* Mutant: the old rows stay up while the new window loads.                *)
LoadWithoutSpinner == UNCHANGED loaded /\ Issue(SampleCmd(db))

(* loadCurrent on the table: a spinner until a sample lands.               *)
LoadTable == loaded' = FALSE /\ Issue(SampleCmd(db))

(* The table opens behind the browser, which picks its base (entry).       *)
OpenTool(d) ==
  /\ Key({"menu"})
  /\ at' = "browser" /\ db' = d
  /\ FreshWindow /\ FreshBrowser(TRUE)
  /\ Issue(ListCmd)
  /\ UNCHANGED <<srv, disk, saved>>

BackFromTable ==
  /\ Key({"table"})
  /\ LeaveTool
  /\ UNCHANGED <<srv, disk, saved, net>>

(* Mutant: Back always lands on the table underneath.                      *)
BackToUnloadedTable ==
  /\ Key({"browser"})
  /\ at' = "table" /\ NoBrowser
  /\ UNCHANGED <<srv, disk, saved, net, db, window>>

(* Backing out of the entry picker skips a table that never loaded.        *)
BackFromBrowser ==
  /\ Key({"browser"})
  /\ IF entry /\ ~loaded
     THEN LeaveTool
     ELSE at' = "table" /\ NoBrowser /\ UNCHANGED <<db, window>>
  /\ UNCHANGED <<srv, disk, saved, net>>

(* A statement's detail, a describe panel or any other screen above the    *)
(* table that leaves its window alone.                                     *)
Drill ==
  /\ Key({"table"}) /\ shown # None /\ Rows(shown) # NoRows
  /\ at' = "detail"
  /\ UNCHANGED <<srv, disk, saved, net, db, window, browser>>

BackFromDetail ==
  /\ Key({"detail"})
  /\ at' = "table"
  /\ UNCHANGED <<srv, disk, saved, net, db, window, browser>>

OpenBrowser ==
  /\ Key({"table"})
  /\ at' = "browser" /\ FreshBrowser(FALSE) /\ Issue(ListCmd)
  /\ UNCHANGED <<srv, disk, saved, db, window>>

RefreshBrowser ==
  /\ Key({"browser"})
  /\ Issue(ListCmd)
  /\ UNCHANGED <<srv, disk, saved, at, db, window, browser>>

Rebaseline ==
  /\ Key({"table"})
  /\ restartWindow /\ LoadTable
  /\ UNCHANGED <<srv, disk, saved, at, db, session, err, shown, browser>>

(* Space, where a frozen window is rebuilt from its two snapshots.         *)
populateFrozenWindow(from, end) ==
  shown' = [from |-> from, to |-> end.stats, clamped |-> TRUE] /\ loaded' = TRUE

RefreshTable ==
  /\ Key({"table"})
  /\ IF endSnap # None
     THEN populateFrozenWindow(baseline, endSnap) /\ UNCHANGED net
     ELSE LoadTable /\ UNCHANGED shown
  /\ UNCHANGED <<srv, disk, saved, at, db, baseline, baseSnap, endSnap, cumulative,
                 session, err, browser>>

(* The auto-refresh tick while the table is on top.                        *)
onStatementsTick ==
  /\ at = "table" /\ endSnap = None
  /\ Issue(SampleCmd(db))
  /\ UNCHANGED <<srv, disk, saved, at, db, window, browser, notice>>

SaveKey ==
  /\ Key({"table", "detail"})
  /\ Issue(SaveCmd(db))
  /\ UNCHANGED <<srv, disk, saved, at, db, window, browser>>

ConfirmReset ==
  /\ Key({"table"})
  /\ Issue(ResetCmd)
  /\ UNCHANGED <<srv, disk, saved, at, db, window, browser>>

ConfirmDelete ==
  /\ Key({"browser"})
  /\ \E m \in metas : Issue(DeleteCmd(m.id))
  /\ UNCHANGED <<srv, disk, saved, at, db, window, browser>>

-----------------------------------------------------------------------------
(* Enter on a browser row (loadSelectedSnapshot).                          *)

(* The row the applied window starts at, as far as a second pick pairs     *)
(* with it: the session anchor and a fresh R window have none.             *)
Anchor ==
  IF cumulative THEN Reset
  ELSE IF baseSnap # None /\ \E m \in metas : m.id = baseSnap.id THEN baseSnap.id
  ELSE None

(* The window a pick asks for, oldest row first.                           *)
Paired(p)   == Anchor \notin {None, p}
Start(p)    == IF Paired(p) /\ Anchor < p THEN Anchor ELSE p
End(p)      == IF ~Paired(p) THEN Now ELSE IF Anchor < p THEN p ELSE Anchor

Compatible(p) == p \in SnapIds => \E m \in metas : m.id = p /\ m.db = db

(* A window that ends now: the table comes back and samples.               *)
BackToLiveTable(newBaseline, isCumulative) ==
  /\ baseline' = newBaseline /\ cumulative' = isCumulative
  /\ baseSnap' = None /\ endSnap' = None
  /\ at' = "table" /\ NoBrowser /\ LoadTable
  /\ UNCHANGED <<session, err, shown>>

PickLive(p) ==
  \/ Start(p) = Reset /\ BackToLiveTable(ZeroSample, TRUE)
  \/ Start(p) = Now   /\ BackToLiveTable(None, FALSE)

PickSnapshots(p) ==
  /\ IF End(p) = Now THEN Issue(BaseCmd(Start(p)))
                     ELSE Issue(FrozenCmd(Start(p), End(p), End(p) = p))
  /\ UNCHANGED <<at, window, browser>>

Pick(p) ==
  /\ at = "browser" /\ p \in items \ {Session}
  /\ IF Compatible(Start(p)) /\ Compatible(End(p))
     THEN /\ notice' = None
          /\ IF End(p) = Now /\ Start(p) \in {Reset, Now} THEN PickLive(p)
                                                          ELSE PickSnapshots(p)
     ELSE notice' = "foreign snapshot" /\ UNCHANGED <<net, at, window, browser>>
  /\ UNCHANGED <<srv, disk, saved, db>>

(* The session anchor is no file: it only ever pairs with now.             *)
PickSession ==
  /\ at = "browser" /\ Session \in items
  /\ IF Anchor = None
     THEN notice' = None /\ BackToLiveTable(session, FALSE)
     ELSE notice' = "session only to now" /\ UNCHANGED <<net, at, window, browser>>
  /\ UNCHANGED <<srv, disk, saved, db>>

-----------------------------------------------------------------------------
(* Replies.  Each handler looks its screen up anywhere on the stack, and a *)
(* reply whose screen is gone is dropped.                                  *)

Drop(s) == Done(s) /\ UNCHANGED <<at, window, browser>>

(* popToStatements and the load that follows it.                           *)
PopAndLoad(s) ==
  /\ at' = "table" /\ NoBrowser
  /\ loaded' = FALSE /\ Answer(s, SampleCmd(db))

(* Mutant: R moves the session anchor along with the baseline.             *)
SampleMovesSession(stats) ==
  /\ session'  = IF baseline = None THEN stats ELSE session
  /\ baseline' = IF baseline = None THEN stats ELSE baseline
  /\ shown'    = [from |-> baseline', to |-> stats, clamped |-> baseSnap # None]

(* The first sample of a visit is the session anchor, the first one after  *)
(* R the baseline; every other one is compared with the baseline.          *)
TakeSample(stats) ==
  /\ session'  = IF session = None THEN stats ELSE session
  /\ baseline' = IF baseline = None THEN stats ELSE baseline
  /\ shown'    = [from |-> baseline', to |-> stats, clamped |-> baseSnap # None]

(* Mutant: a failed read falls through to the sample.                      *)
FailureFallsThrough == loaded' = TRUE /\ err' = TRUE /\ TakeSample(None)

ShowFailure == loaded' = TRUE /\ err' = TRUE /\ UNCHANGED <<baseline, session, shown>>

onStatementsLoaded(s) ==
  /\ Sent(s, "sampled")
  /\ LET stats == net[s].stats
     IN  \/ db # net[s].db /\ Drop(s)
         \/ /\ db = net[s].db /\ Done(s)
            /\ IF stats = None THEN ShowFailure
                               ELSE loaded' = TRUE /\ err' = FALSE /\ TakeSample(stats)
            /\ UNCHANGED <<at, baseSnap, endSnap, cumulative, browser>>
  /\ UNCHANGED <<srv, disk, saved, db, notice>>

(* Snapshots of this database from before a reset are not offered.  The    *)
(* entry picker has no "now" row and always has "session start".           *)
onSnapshotsListed(s) ==
  /\ Sent(s, "listing")
  /\ \/ at # "browser" /\ Drop(s)
     \/ /\ at = "browser" /\ Done(s)
        /\ metas' = {m \in net[s].metas : m.db = db => m.epoch >= net[s].epoch}
        /\ items' = {m.id : m \in metas'} \cup {Reset}
                      \cup (IF entry THEN {} ELSE {Now})
                      \cup (IF entry \/ session # None THEN {Session} ELSE {})
        /\ UNCHANGED <<at, window, entry>>
  /\ UNCHANGED <<srv, disk, saved, db, notice>>

(* The entry picker stays up for another pick: its table never loaded.     *)
abandonSnapshotPick ==
  IF at = "browser" /\ entry THEN UNCHANGED <<at, browser>>
                             ELSE at' = "table" /\ NoBrowser

onSnapshotBaseLoaded(s) ==
  /\ Sent(s, "base ready")
  /\ LET snap == net[s].snap
     IN  \/ at = "menu" /\ Drop(s)
         \/ at # "menu" /\ snap = None /\ abandonSnapshotPick /\ Done(s) /\ UNCHANGED window
         \/ /\ at # "menu" /\ snap # None
            /\ baseSnap' = snap /\ baseline' = snap.stats
            /\ cumulative' = FALSE /\ endSnap' = None
            /\ PopAndLoad(s)
            /\ UNCHANGED <<session, err, shown>>
  /\ UNCHANGED <<srv, disk, saved, db, notice>>

(* The two-snapshot window, or with no base the counters up to a snapshot. *)
onSnapshotFrozenLoaded(s) ==
  /\ Sent(s, "frozen ready")
  /\ \/ at = "menu" /\ Drop(s)
     \/ /\ at # "menu" /\ Done(s)
        /\ baseSnap' = net[s].base /\ endSnap' = net[s].end
        /\ cumulative' = (net[s].base = None)
        /\ baseline' = IF net[s].base = None THEN ZeroSample ELSE net[s].base.stats
        /\ populateFrozenWindow(baseline', endSnap')
        /\ IF net[s].stay THEN UNCHANGED <<at, browser>> ELSE at' = "table" /\ NoBrowser
        /\ UNCHANGED <<session, err>>
  /\ UNCHANGED <<srv, disk, saved, db, notice>>

onSnapshotFrozenFailed(s) ==
  /\ Sent(s, "frozen failed")
  /\ Done(s)
  /\ IF at = "menu" THEN UNCHANGED <<at, browser>> ELSE abandonSnapshotPick
  /\ UNCHANGED <<srv, disk, saved, db, window, notice>>

(* X took effect: no baseline taken before it can be diffed against.       *)
onMaintResetDone(s) ==
  /\ Sent(s, "reset done")
  /\ IF net[s].ok /\ at = "table"
     THEN /\ restartWindow /\ session' = None
          /\ loaded' = FALSE /\ Answer(s, SampleCmd(db))
          /\ UNCHANGED <<err, shown>>
     ELSE Done(s) /\ UNCHANGED window
  /\ UNCHANGED <<srv, disk, saved, at, db, browser, notice>>

-----------------------------------------------------------------------------
ServerStep == ExternalReset \/ \E q \in Queries, c \in Costs : Execute(q, c)

Serve(s) ==
  \/ ServeSample(s) \/ Capture(s) \/ SaveSnapshot(s) \/ ServeList(s)
  \/ ServeDelete(s) \/ ServeBase(s) \/ ServeFrozen(s) \/ ServeReset(s)

Deliver(s) ==
  \/ onStatementsLoaded(s) \/ onSnapshotsListed(s) \/ onSnapshotBaseLoaded(s)
  \/ onSnapshotFrozenLoaded(s) \/ onSnapshotFrozenFailed(s) \/ onMaintResetDone(s)

UserKey ==
  \/ \E d \in Databases : OpenTool(d)
  \/ BackFromTable \/ BackFromBrowser \/ BackFromDetail
  \/ Drill \/ OpenBrowser \/ RefreshBrowser \/ RefreshTable
  \/ Rebaseline \/ SaveKey \/ ConfirmReset \/ ConfirmDelete
  \/ PickSession \/ \E p \in Picks : Pick(p)

Next == ServerStep \/ UserKey \/ onStatementsTick \/ \E s \in Slots : Serve(s) \/ Deliver(s)

Spec == Init /\ [][Next]_vars

-----------------------------------------------------------------------------
(* The state stays inside its declared domains.                            *)
TypeOK ==
  /\ srv \in Server
  /\ saved \in 0..MaxSnaps /\ disk \subseteq Snapshot
  /\ net \in [Slots -> Commands \cup Replies \cup {None}]
  /\ at \in {"menu", "browser", "table", "detail"}
  /\ db \in Databases \cup {None} /\ (db = None <=> at = "menu")
  /\ baseline \in Sample \cup {None} /\ session \in Sample \cup {None}
  /\ baseSnap \in Snapshot \cup {None} /\ endSnap \in Snapshot \cup {None}
  /\ shown \in Diff \cup {None}
  /\ cumulative \in BOOLEAN /\ loaded \in BOOLEAN /\ err \in BOOLEAN /\ entry \in BOOLEAN
  /\ items \subseteq Picks /\ metas \subseteq Meta
  /\ notice \in {None, "foreign snapshot", "session only to now"}

(* The five fields that describe the window never contradict one another:  *)
(* whatever mix of keys and late replies wrote them, a snapshot base is    *)
(* the baseline, a cumulative window starts from nothing, and a frozen one *)
(* has a start that is older than its end.                                 *)
WindowCoherent ==
  /\ baseSnap # None => ~cumulative /\ baseline = baseSnap.stats
  /\ cumulative => baseline = ZeroSample
  /\ endSnap # None => /\ cumulative \/ baseSnap # None
                       /\ baseSnap # None => baseSnap.id < endSnap.id

(* No spinner is abandoned: a table on screen that has not loaded has a    *)
(* sample of its own database on the way (BackFromBrowser's special case,  *)
(* abandonSnapshotPick and every loadCurrent exist for this).              *)
NeverStranded ==
  at = "table" /\ ~loaded =>
    \E s \in Slots : net[s] # None /\ net[s].kind \in {"sample", "sampled"} /\ net[s].db = db

(* Once a load finished without error, the rows on screen are a difference *)
(* from the baseline the header names, never from one it replaced.         *)
RowsMatchBaseline == loaded /\ ~err => shown # None /\ shown.from = baseline

(* Rows of a window that starts at a snapshot or at the last reset never   *)
(* run backwards, wherever a reset falls: captured counters may be newer   *)
(* or older than the ones they are compared with.                          *)
DiskWindowForward ==
  loaded /\ ~err /\ (cumulative \/ baseSnap # None) => RowsForward(Rows(shown))

(* The session anchor is the first sample of a visit and stays it: R, a    *)
(* pick or a reload never move it, only leaving or X drop it.              *)
SessionKept ==
  [][session # None /\ session' # session =>
       session' = None /\ (at' = "menu" \/ \E s \in Slots : onMaintResetDone(s))]_vars

-----------------------------------------------------------------------------
(* What the repository says and the code does not keep.                    *)

(* app.go: a frozen diff "then doesn't re-sample live (endSnap is the      *)
(* now)".                                                                  *)
FrozenShowsEnd == loaded /\ endSnap # None => shown.to = endSnap.stats
=============================================================================
