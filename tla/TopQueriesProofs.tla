--------------------------- MODULE TopQueriesProofs ---------------------------
(***************************************************************************)
(* The window of the top-queries table is coherent, its rows count from    *)
(* its baseline, its session is kept and its spinners end, for any         *)
(* statements, databases, costs and number of commands in flight.          *)
(***************************************************************************)
EXTENDS TopQueries, TLAPS

Messages == Commands \cup Replies
Net      == [Slots -> Messages \cup {None}]

(* A frozen window is asked for and answered with its start before its     *)
(* end; WindowCoherent is not inductive without it, for the two snapshots  *)
(* reach the screen only two messages after the pick ordered them.         *)
Ordered(m) ==
  /\ m.kind = "frozen" => m.base < m.end
  /\ m.kind = "frozen ready" => (m.base # None => m.base.id < m.end.id)
FrozenOrdered == \A s \in Slots : net[s] # None => Ordered(net[s])

IndInv == TypeOK /\ WindowCoherent /\ FrozenOrdered

-----------------------------------------------------------------------------
(* Every step on net replaces one message by a well-formed one.            *)
LEMMA IssueKeepsNet ==
  ASSUME net \in Net, NEW m \in Messages, Ordered(m), FrozenOrdered, Issue(m)
  PROVE  net' \in Net /\ FrozenOrdered'
  BY DEF Net, Issue, FrozenOrdered, Ordered

(* Turning a command into its reply keeps net well-formed.                 *)
LEMMA AnswerKeepsNet ==
  ASSUME net \in Net, NEW m \in Messages, Ordered(m), FrozenOrdered,
         NEW s \in Slots, Answer(s, m)
  PROVE  net' \in Net /\ FrozenOrdered'
  BY DEF Net, Answer, FrozenOrdered, Ordered

(* Ending a message frees its slot.                                        *)
LEMMA DoneKeepsNet ==
  ASSUME net \in Net, FrozenOrdered, NEW s \in Slots, Done(s)
  PROVE  net' \in Net /\ FrozenOrdered'
  BY DEF Net, Done, FrozenOrdered, Ordered

(* The counters a command reads are a sample.                              *)
LEMMA SampleTypes ==
  /\ NoCalls \in [calls : Nat, time : Nat]
  /\ ZeroSample \in Sample
  /\ srv \in Server => \A d : StatementSnapshot(d) \in Sample
  BY DEF NoCalls, ZeroSample, Sample, Server, StatementSnapshot

(* A file read back is the snapshot of that number.                        *)
LEMMA LoadedSnapshot ==
  ASSUME disk \subseteq Snapshot, NEW i, LoadSnapshot(i) # None
  PROVE  LoadSnapshot(i) \in Snapshot /\ LoadSnapshot(i).id = i
  <1>1. \E f \in disk : f.id = i
    BY DEF LoadSnapshot
  <1>2. LoadSnapshot(i) = CHOOSE f \in disk : f.id = i
    BY <1>1 DEF LoadSnapshot
  <1>3. QED
    BY <1>1, <1>2

(* nil is no sample ...                                                    *)
LEMMA NoneIsNoSample == None \notin Sample
  BY ConstAssumption

(* ... and no snapshot.                                                    *)
LEMMA NoneIsNoSnapshot == None \notin Snapshot
  BY ConstAssumption DEF Snapshot, SnapIds, Epochs

(* nil is no message.                                                      *)
LEMMA NoneIsNoMessage == None \notin Messages
  BY NilAssumption DEF Messages

(* pgdu starts on its menu, with no window.                                *)
LEMMA InitHolds == Init => IndInv
  <1> SUFFICES ASSUME Init PROVE IndInv
    OBVIOUS
  <1>1. srv \in Server /\ saved \in 0..MaxSnaps
    BY SampleTypes, ConstAssumption DEF Init, Server, Epochs
  <1>2. TypeOK
    BY <1>1 DEF Init, TypeOK
  <1>3. WindowCoherent /\ FrozenOrdered
    BY DEF Init, WindowCoherent, FrozenOrdered
  <1>4. QED
    BY <1>2, <1>3 DEF IndInv

(* What a command or a reply of each kind carries.                         *)
LEMMA Carries ==
  ASSUME net \in Net, NEW s \in Slots
  PROVE  /\ Sent(s, "sample")  => net[s].db \in Databases
         /\ Sent(s, "save")    => net[s].db \in Databases
         /\ Sent(s, "frozen")  => net[s].end \in SnapIds /\ net[s].stay \in BOOLEAN
         /\ Sent(s, "sampled") => net[s].db \in Databases /\ net[s].stats \in Sample \cup {None}
         /\ Sent(s, "captured") => net[s].db \in Databases /\ net[s].stats \in Sample
         /\ Sent(s, "listing") => net[s].metas \subseteq Meta
         /\ Sent(s, "base ready") => net[s].snap \in Snapshot \cup {None}
         /\ Sent(s, "frozen ready") => /\ net[s].base \in Snapshot \cup {None}
                                       /\ net[s].end \in Snapshot
                                       /\ net[s].stay \in BOOLEAN
  BY DEF Net, Messages, Commands, Replies, Sent

(* What TypeOK says of the screens, apart from their flags: those are      *)
(* Boolean-valued, and a prover of their own deals with them.              *)
Fields ==
  /\ at \in {"menu", "browser", "table", "detail"}
  /\ db \in Databases \cup {None} /\ (db = None <=> at = "menu")
  /\ baseline \in Sample \cup {None} /\ session \in Sample \cup {None}
  /\ baseSnap \in Snapshot \cup {None} /\ endSnap \in Snapshot \cup {None}
  /\ shown \in Diff \cup {None}
  /\ items \subseteq Picks /\ metas \subseteq Meta
  /\ notice \in {None, "foreign snapshot", "session only to now"}
Flags ==
  cumulative \in BOOLEAN /\ loaded \in BOOLEAN /\ err \in BOOLEAN /\ entry \in BOOLEAN

(* The invariant, part by part ...                                         *)
LEMMA Unfold ==
  ASSUME IndInv
  PROVE  /\ Fields /\ Flags /\ WindowCoherent
         /\ net \in Net /\ FrozenOrdered
         /\ srv \in Server /\ saved \in 0..MaxSnaps /\ disk \subseteq Snapshot
  BY DEF IndInv, TypeOK, Fields, Flags, Net, Messages

(* ... and put together again after a step.                                *)
LEMMA FoldNext ==
  ASSUME Fields', Flags', WindowCoherent', net' \in Net, FrozenOrdered',
         srv' \in Server, saved' \in 0..MaxSnaps, disk' \subseteq Snapshot
  PROVE  IndInv'
  BY DEF IndInv, TypeOK, Fields, Flags, Net, Messages

(* Whatever leaves the window alone leaves it coherent.                    *)
LEMMA WindowStays ==
  ASSUME WindowCoherent, UNCHANGED window
  PROVE  WindowCoherent'
  BY DEF WindowCoherent, window

(* Nothing the screens hold changes while window and browser stay.         *)
LEMMA FieldsStay ==
  ASSUME Fields, Flags, UNCHANGED <<window, browser>>
  PROVE  /\ baseline' \in Sample \cup {None} /\ session' \in Sample \cup {None}
         /\ baseSnap' \in Snapshot \cup {None} /\ endSnap' \in Snapshot \cup {None}
         /\ shown' \in Diff \cup {None}
         /\ items' \subseteq Picks /\ metas' \subseteq Meta
         /\ Flags'
  <1>1. UNCHANGED <<baseline, session, baseSnap, endSnap, shown, items, metas>>
    BY DEF window, browser
  <1>2. UNCHANGED <<cumulative, loaded, err, entry>>
    BY DEF window, browser
  <1>3. Flags'
    BY <1>2 DEF Flags
  <1>4. QED
    BY <1>1, <1>3 DEF Fields

(* The screens do not move while a command runs.                           *)
LEMMA ScreensStay ==
  ASSUME IndInv, UNCHANGED <<at, db, window, browser, notice>>,
         srv' \in Server, saved' \in 0..MaxSnaps, disk' \subseteq Snapshot,
         net' \in Net, FrozenOrdered'
  PROVE  IndInv'
  <1>1. Fields' /\ Flags'
    BY Unfold, FieldsStay DEF Fields
  <1>2. WindowCoherent'
    BY Unfold, WindowStays
  <1>3. QED
    BY <1>1, <1>2, FoldNext

(* pg_stat_statements_reset() leaves a server with counters.               *)
LEMMA ResetKeepsServer ==
  ASSUME srv \in Server, ResetCounters
  PROVE  srv' \in Server
  <1>1. srv.epoch \in 0..MaxResets /\ srv.epoch < MaxResets
    BY DEF Server, Epochs, ResetCounters
  <1>2. srv.epoch + 1 \in 0..MaxResets
    BY <1>1, ConstAssumption
  <1>3. QED
    BY <1>2, SampleTypes DEF ResetCounters, Server, Epochs

(* The server counts calls and is reset; no screen or message changes.     *)
LEMMA ServerStepKeeps ==
  ASSUME IndInv, ServerStep
  PROVE  IndInv'
  <1>0. /\ net \in Net /\ FrozenOrdered
        /\ srv \in Server /\ saved \in 0..MaxSnaps /\ disk \subseteq Snapshot
    BY DEF IndInv, TypeOK, Net, Messages
  <1>1. ASSUME UNCHANGED net
        PROVE  net' \in Net /\ FrozenOrdered'
    BY <1>0, <1>1 DEF FrozenOrdered, Ordered
  <1>2. CASE ExternalReset
    BY <1>0, <1>1, <1>2, ResetKeepsServer, ScreensStay DEF ExternalReset
  <1>3. ASSUME NEW q \in Queries, NEW c \in Costs, Execute(q, c)
        PROVE  IndInv'
    <2> DEFINE count == [calls |-> srv.stats[q].calls + 1, time |-> srv.stats[q].time + c]
    <2>1. srv.stats \in Sample /\ count \in [calls : Nat, time : Nat]
      BY <1>0, ConstAssumption DEF Server, Sample
    <2>2. srv' = [srv EXCEPT !.stats = [srv.stats EXCEPT ![q] = count]]
      BY <1>3 DEF Execute
    <2> HIDE DEF count
    <2>3. [srv.stats EXCEPT ![q] = count] \in Sample
      BY <2>1 DEF Sample
    <2>4. srv' \in Server
      BY <1>0, <2>2, <2>3 DEF Server
    <2>5. QED
      BY <1>0, <1>1, <1>3, <2>4, ScreensStay DEF Execute
  <1>4. QED
    BY <1>2, <1>3 DEF ServerStep

(* A command that runs reads or writes the server and the files only.      *)
LEMMA ServeKeeps ==
  ASSUME IndInv, NEW s \in Slots, Serve(s)
  PROVE  IndInv'
  <1>0. /\ net \in Net /\ FrozenOrdered
        /\ srv \in Server /\ saved \in 0..MaxSnaps /\ disk \subseteq Snapshot
    BY DEF IndInv, TypeOK, Net, Messages
  <1>a. ASSUME NEW m \in Messages, Ordered(m), Answer(s, m)
        PROVE  net' \in Net /\ FrozenOrdered'
    BY <1>0, <1>a, AnswerKeepsNet
  <1>d. Done(s) => net' \in Net /\ FrozenOrdered'
    BY <1>0, DoneKeepsNet
  <1>1. CASE ServeSample(s)
    <2>1. PICK stats \in {StatementSnapshot(net[s].db), None} :
            Answer(s, [kind |-> "sampled", db |-> net[s].db, stats |-> stats])
      BY <1>1 DEF ServeSample
    <2>2. [kind |-> "sampled", db |-> net[s].db, stats |-> stats] \in Replies
      BY <1>0, <1>1, Carries, SampleTypes DEF ServeSample, Replies
    <2>3. QED
      BY <1>0, <1>1, <1>a, <2>1, <2>2, ScreensStay DEF ServeSample, Messages, Ordered
  <1>2. CASE Capture(s)
    <2>1. [kind |-> "captured", db |-> net[s].db, stats |-> StatementSnapshot(net[s].db)]
            \in Replies
      BY <1>0, <1>2, Carries, SampleTypes DEF Capture, Replies
    <2>2. QED
      BY <1>0, <1>2, <1>a, <1>d, <2>1, ScreensStay DEF Capture, Messages, Ordered
  <1>3. CASE SaveSnapshot(s)
    <2>1. CASE UNCHANGED <<saved, disk>>
      BY <1>0, <1>3, <1>d, <2>1, ScreensStay DEF SaveSnapshot
    <2>2. CASE saved < MaxSnaps
      <3>1. [id |-> saved + 1, db |-> net[s].db, epoch |-> srv.epoch, stats |-> net[s].stats]
              \in Snapshot
        <4>1. net[s].db \in Databases /\ net[s].stats \in Sample
          BY <1>0, <1>3, Carries DEF SaveSnapshot
        <4>2. srv.epoch \in Epochs
          BY <1>0 DEF Server
        <4>3. saved + 1 \in SnapIds
          BY <1>0, <2>2, ConstAssumption DEF SnapIds
        <4>4. QED
          BY <4>1, <4>2, <4>3 DEF Snapshot
      <3>2. disk' \subseteq Snapshot /\ saved' \in 0..MaxSnaps
        BY <1>0, <1>3, <2>2, <3>1, ConstAssumption DEF SaveSnapshot
      <3>3. QED
        BY <1>0, <1>3, <1>d, <3>2, ScreensStay DEF SaveSnapshot
    <2>3. QED
      BY <1>3, <2>1, <2>2 DEF SaveSnapshot
  <1>l. ASSUME NEW files \in SUBSET Snapshot, NEW l \in Listing(files)
        PROVE  l \in Messages /\ Ordered(l)
    <2>1. {MetaOf(f) : f \in files} \in SUBSET Meta
      BY DEF MetaOf, Meta, Snapshot
    <2>2. 0 \in Epochs /\ srv.epoch \in Epochs
      BY <1>0, ConstAssumption DEF Server, Epochs
    <2>3. PICK e \in Epochs : l = [kind |-> "listing", metas |-> {MetaOf(f) : f \in files}, epoch |-> e]
      BY <2>2, <1>l DEF Listing
    <2>4. l \in Replies
      BY <2>1, <2>3 DEF Replies
    <2>5. QED
      BY <2>3, <2>4 DEF Messages, Ordered
  <1>4. CASE ServeList(s)
    BY <1>0, <1>4, <1>a, <1>l, ScreensStay DEF ServeList
  <1>5. CASE ServeDelete(s)
    <2> DEFINE left == {f \in disk : f.id # net[s].snap}
               failed == [kind |-> "listing", metas |-> {}, epoch |-> 0]
    <2>1. failed \in Messages /\ Ordered(failed)
      <3>1. 0 \in Epochs
        BY ConstAssumption DEF Epochs
      <3>2. {} \in SUBSET Meta
        OBVIOUS
      <3>3. failed \in Replies
        BY <3>1, <3>2 DEF Replies
      <3>4. QED
        BY <3>3 DEF Messages, Ordered
    <2>2. left \in SUBSET Snapshot
      BY <1>0
    <2>3. \E l \in Messages : Ordered(l) /\ Answer(s, l)
      BY <1>5, <1>l, <2>1, <2>2 DEF ServeDelete
    <2>4. QED
      BY <1>0, <1>5, <1>a, <2>2, <2>3, ScreensStay DEF ServeDelete
  <1>6. CASE ServeBase(s)
    <2>1. [kind |-> "base ready", snap |-> LoadSnapshot(net[s].snap)] \in Replies
      BY <1>0, LoadedSnapshot DEF Replies
    <2>2. QED
      BY <1>0, <1>6, <1>a, <2>1, ScreensStay DEF ServeBase, Messages, Ordered
  <1>7. CASE ServeFrozen(s)
    <2> DEFINE b == IF net[s].base = Reset THEN None ELSE LoadSnapshot(net[s].base)
               e == LoadSnapshot(net[s].end)
               reply == [kind |-> "frozen ready", base |-> b, end |-> e, stay |-> net[s].stay]
               failed == [kind |-> "frozen failed"]
    <2>1. failed \in Messages /\ Ordered(failed)
      BY DEF Messages, Replies, Ordered
    <2>2. CASE e # None /\ ~(b = None /\ net[s].base # Reset)
      <3>1. net[s].base < net[s].end
        BY <1>0, <1>7 DEF ServeFrozen, FrozenOrdered, Ordered, Sent
      <3>2. e \in Snapshot /\ e.id = net[s].end
        BY <1>0, <2>2, LoadedSnapshot
      <3>3. b # None => b \in Snapshot /\ b.id = net[s].base
        BY <1>0, <2>2, LoadedSnapshot
      <3>4. reply \in Replies
        <4>1. net[s].stay \in BOOLEAN
          BY <1>0, <1>7, Carries DEF ServeFrozen
        <4>2. b \in Snapshot \cup {None}
          BY <3>3
        <4> HIDE DEF b, e
        <4>3. QED
          BY <3>2, <4>1, <4>2 DEF Replies
      <3>5. Ordered(reply)
        <4> HIDE DEF b, e
        <4>1. QED
          BY <3>1, <3>2, <3>3 DEF Ordered
      <3>6. Answer(s, reply)
        BY <1>7, <2>2 DEF ServeFrozen
      <3>7. QED
        BY <1>0, <1>7, <1>a, <3>4, <3>5, <3>6, ScreensStay DEF ServeFrozen, Messages
    <2>3. CASE ~(e # None /\ ~(b = None /\ net[s].base # Reset))
      BY <1>0, <1>7, <1>a, <2>1, <2>3, ScreensStay DEF ServeFrozen
    <2>4. QED
      BY <2>2, <2>3
  <1>8. CASE ServeReset(s)
    <2>1. \A ok \in BOOLEAN : /\ [kind |-> "reset done", ok |-> ok] \in Messages
                              /\ Ordered([kind |-> "reset done", ok |-> ok])
      BY DEF Messages, Replies, Ordered
    <2>2. srv' \in Server
      BY <1>0, <1>8, ResetKeepsServer DEF ServeReset
    <2>3. QED
      BY <1>0, <1>8, <1>a, <2>1, <2>2, ScreensStay DEF ServeReset
  <1>9. QED
    BY <1>1, <1>2, <1>3, <1>4, <1>5, <1>6, <1>7, <1>8 DEF Serve

-----------------------------------------------------------------------------
(* The server and its files do not change under a key or a reply: what is  *)
(* left to show is about the screens.                                      *)
LEMMA ScreensMove ==
  ASSUME IndInv, UNCHANGED <<srv, disk, saved>>, net' \in Net, FrozenOrdered',
         Fields', Flags', WindowCoherent'
  PROVE  IndInv'
  BY Unfold, FoldNext

(* The ways a step touches net, in one place.                              *)
LEMMA NetSteps ==
  ASSUME IndInv
  PROVE  /\ UNCHANGED net => net' \in Net /\ FrozenOrdered'
         /\ \A s \in Slots : Done(s) => net' \in Net /\ FrozenOrdered'
         /\ \A m \in Messages : Ordered(m) =>
              /\ Issue(m) => net' \in Net /\ FrozenOrdered'
              /\ \A s \in Slots : Answer(s, m) => net' \in Net /\ FrozenOrdered'
  <1>1. UNCHANGED net => net' \in Net /\ FrozenOrdered'
    BY Unfold DEF FrozenOrdered, Ordered
  <1>2. QED
    BY <1>1, Unfold, IssueKeepsNet, AnswerKeepsNet, DoneKeepsNet

(* Every command a key issues is well-formed.                              *)
LEMMA PlainCommands ==
  /\ \A d \in Databases : /\ SampleCmd(d) \in Messages /\ Ordered(SampleCmd(d))
                          /\ SaveCmd(d) \in Messages /\ Ordered(SaveCmd(d))
  /\ ListCmd \in Messages /\ Ordered(ListCmd)
  /\ ResetCmd \in Messages /\ Ordered(ResetCmd)
  /\ \A i \in SnapIds : /\ DeleteCmd(i) \in Messages /\ Ordered(DeleteCmd(i))
                        /\ BaseCmd(i) \in Messages /\ Ordered(BaseCmd(i))
  /\ \A b \in SnapIds \cup {Reset}, e \in SnapIds, y \in BOOLEAN :
       b < e => FrozenCmd(b, e, y) \in Messages /\ Ordered(FrozenCmd(b, e, y))
  BY DEF Messages, Commands, Ordered, SampleCmd, SaveCmd, ListCmd, ResetCmd, DeleteCmd,
         BaseCmd, FrozenCmd

(* A key that only issues a command, or only opens and closes screens.     *)
LEMMA PlainKeysKeep ==
  ASSUME IndInv, UNCHANGED <<srv, disk, saved, db, window, browser>>,
         at # "menu", at' \in {"browser", "table", "detail"},
         notice' \in {None, "foreign snapshot", "session only to now"},
         net' \in Net, FrozenOrdered'
  PROVE  IndInv'
  <1>1. Fields' /\ Flags'
    BY Unfold, FieldsStay DEF Fields
  <1>2. QED
    BY <1>1, Unfold, WindowStays, ScreensMove

(* Leaving the tool forgets the window; opening it starts a fresh one.     *)
LEMMA FreshKeeps ==
  ASSUME IndInv, UNCHANGED <<srv, disk, saved>>, net' \in Net, FrozenOrdered',
         at' \in {"menu", "browser"}, db' \in Databases \cup {None},
         db' = None <=> at' = "menu", notice' = None,
         FreshWindow, NEW e \in BOOLEAN, FreshBrowser(e)
  PROVE  IndInv'
  <1>1. Fields'
    BY DEF Fields, FreshWindow, FreshBrowser
  <1>2. Flags'
    BY DEF Flags, FreshWindow, FreshBrowser
  <1>3. WindowCoherent'
    BY DEF WindowCoherent, FreshWindow
  <1>4. QED
    BY <1>1, <1>2, <1>3, ScreensMove

(* A browser that closed shows no rows.                                    *)
LEMMA BrowserClosed ==
  ASSUME NoBrowser
  PROVE  items' \subseteq Picks /\ metas' \subseteq Meta /\ entry' \in BOOLEAN
  BY DEF NoBrowser, FreshBrowser

(* A window with neither snapshot nor the cumulative mark, or cumulative   *)
(* with the empty baseline.                                                *)
LEMMA PlainWindow ==
  ASSUME baseSnap' = None, endSnap' = None, cumulative' => baseline' = ZeroSample
  PROVE  WindowCoherent'
  BY DEF WindowCoherent

(* The rows a frozen window shows.                                         *)
LEMMA FrozenRows ==
  ASSUME NEW from \in Sample, NEW end \in Snapshot, populateFrozenWindow(from, end)
  PROVE  shown' \in Diff /\ loaded' \in BOOLEAN
  BY DEF populateFrozenWindow, Diff, Snapshot

(* A frozen window has a baseline: its snapshot's counters, or nothing.    *)
LEMMA FrozenBaseline ==
  ASSUME Fields, WindowCoherent, endSnap # None
  PROVE  baseline \in Sample /\ endSnap \in Snapshot
  BY SampleTypes DEF Fields, WindowCoherent, Snapshot

(* Every key except Enter on a browser row.                                *)
LEMMA KeysKeep ==
  ASSUME IndInv, UserKey, ~PickSession, ~\E p \in Picks : Pick(p)
  PROVE  IndInv'
  <1>1. ASSUME NEW d \in Databases, OpenTool(d)
        PROVE  IndInv'
    BY <1>1, PlainCommands, NetSteps, FreshKeeps, ConstAssumption DEF OpenTool, Key
  <1>2. CASE BackFromTable
    BY <1>2, NetSteps, FreshKeeps DEF BackFromTable, Key, LeaveTool, NoBrowser
  <1>3. CASE BackFromBrowser
    <2>1. CASE LeaveTool
      BY <1>3, <2>1, NetSteps, FreshKeeps DEF BackFromBrowser, Key, LeaveTool, NoBrowser
    <2>2. CASE at' = "table" /\ NoBrowser /\ UNCHANGED <<db, window>>
      <3>1. UNCHANGED <<baseline, session, baseSnap, endSnap, shown>>
        BY <2>2 DEF window
      <3>2. UNCHANGED <<cumulative, loaded, err>>
        BY <2>2 DEF window
      <3>3. Fields'
        BY <1>3, <2>2, <3>1, Unfold, BrowserClosed DEF Fields, BackFromBrowser, Key
      <3>4. Flags'
        BY <2>2, <3>2, Unfold, BrowserClosed DEF Flags
      <3>5. QED
        BY <1>3, <2>2, <3>3, <3>4, Unfold, WindowStays, NetSteps, ScreensMove DEF BackFromBrowser
    <2>3. QED
      BY <1>3, <2>1, <2>2 DEF BackFromBrowser
  <1>4. CASE BackFromDetail \/ Drill
    BY <1>4, Unfold, NetSteps, PlainKeysKeep DEF BackFromDetail, Drill, Key
  <1>5. CASE OpenBrowser
    <2>1. UNCHANGED <<baseline, session, baseSnap, endSnap, shown>>
      BY <1>5 DEF OpenBrowser, window
    <2>2. UNCHANGED <<cumulative, loaded, err>>
      BY <1>5 DEF OpenBrowser, window
    <2>3. Fields'
      BY <1>5, <2>1, Unfold DEF Fields, OpenBrowser, FreshBrowser, Key
    <2>4. Flags'
      BY <1>5, <2>2, Unfold DEF Flags, OpenBrowser, FreshBrowser
    <2>5. QED
      BY <1>5, <2>3, <2>4, Unfold, WindowStays, PlainCommands, NetSteps, ScreensMove
         DEF OpenBrowser
  <1>6. CASE RefreshBrowser
    BY <1>6, Unfold, PlainCommands, NetSteps, PlainKeysKeep DEF RefreshBrowser, Key, Fields
  <1>7. CASE Rebaseline
    <2>1. net' \in Net /\ FrozenOrdered'
      BY <1>7, Unfold, PlainCommands, NetSteps DEF Rebaseline, LoadTable, Fields, Key
    <2>2. Fields'
      BY <1>7, Unfold DEF Rebaseline, restartWindow, LoadTable, Fields, browser, Key
    <2>3. Flags'
      BY <1>7, Unfold DEF Rebaseline, restartWindow, LoadTable, Flags, browser
    <2>4. WindowCoherent'
      BY <1>7, PlainWindow DEF Rebaseline, restartWindow
    <2>5. QED
      BY <1>7, <2>1, <2>2, <2>3, <2>4, ScreensMove DEF Rebaseline
  <1>8. CASE RefreshTable
    <2>1. CASE endSnap # None
      <3>1. populateFrozenWindow(baseline, endSnap)
        BY <1>8, <2>1 DEF RefreshTable
      <3>2. shown' \in Diff /\ loaded' \in BOOLEAN
        BY <2>1, <3>1, Unfold, FrozenBaseline, FrozenRows
      <3>3. Fields'
        BY <1>8, <3>2, Unfold DEF RefreshTable, Fields, browser, Key
      <3>4. Flags'
        BY <1>8, <3>2, Unfold DEF RefreshTable, Flags, browser
      <3>5. WindowCoherent'
        BY <1>8, Unfold DEF RefreshTable, WindowCoherent
      <3>6. QED
        BY <1>8, <2>1, <3>3, <3>4, <3>5, NetSteps, ScreensMove DEF RefreshTable
    <2>2. CASE endSnap = None
      <3>1. LoadTable /\ UNCHANGED shown
        BY <1>8, <2>2 DEF RefreshTable
      <3>2. net' \in Net /\ FrozenOrdered'
        BY <1>8, <3>1, Unfold, PlainCommands, NetSteps DEF LoadTable, Fields, RefreshTable, Key
      <3>3. Fields'
        BY <1>8, <3>1, Unfold DEF RefreshTable, Fields, browser, Key
      <3>4. Flags'
        BY <1>8, <3>1, Unfold DEF RefreshTable, LoadTable, Flags, browser
      <3>5. WindowCoherent'
        BY <1>8, Unfold DEF RefreshTable, WindowCoherent
      <3>6. QED
        BY <1>8, <3>2, <3>3, <3>4, <3>5, ScreensMove DEF RefreshTable
    <2>3. QED
      BY <2>1, <2>2
  <1>9. CASE SaveKey
    BY <1>9, Unfold, PlainCommands, NetSteps, PlainKeysKeep DEF SaveKey, Key, Fields
  <1>10. CASE ConfirmReset
    BY <1>10, Unfold, PlainCommands, NetSteps, PlainKeysKeep DEF ConfirmReset, Key, Fields
  <1>11. CASE ConfirmDelete
    <2>1. PICK m \in metas : Issue(DeleteCmd(m.id))
      BY <1>11 DEF ConfirmDelete
    <2>2. m.id \in SnapIds
      BY <2>1, Unfold DEF Fields, Meta
    <2>3. QED
      BY <1>11, <2>1, <2>2, Unfold, PlainCommands, NetSteps, PlainKeysKeep DEF ConfirmDelete, Key, Fields
  <1>12. QED
    BY <1>1, <1>2, <1>3, <1>4, <1>5, <1>6, <1>7, <1>8, <1>9, <1>10, <1>11 DEF UserKey

(* The window in force starts at a row of the browser, or at none of       *)
(* them.                                                                   *)
LEMMA AnchorIsARow ==
  ASSUME Fields
  PROVE  Anchor \in SnapIds \cup {Reset, None}
  BY DEF Fields, Anchor, Snapshot

(* loadSelectedSnapshot orders every pair it asks a window for.            *)
LEMMA PairsAreOrdered ==
  ASSUME Fields, NEW p \in items \ {Session}
  PROVE  /\ End(p) = Now => Start(p) \in SnapIds \cup {Reset, Now}
         /\ End(p) # Now => /\ End(p) \in SnapIds /\ Start(p) \in SnapIds \cup {Reset}
                            /\ Start(p) < End(p)
  <1>1. p \in SnapIds \cup {Reset, Now}
    <2>1. p \in Picks /\ p # Session
      BY DEF Fields
    <2>2. QED
      BY <2>1 DEF Picks
  <1>2. Paired(p) => Anchor \in SnapIds \cup {Reset} /\ Anchor # p
    BY AnchorIsARow DEF Paired
  <1>3. CASE Paired(p)
    <2>1. CASE Anchor < p
      BY <1>1, <1>2, <1>3, <2>1, ConstAssumption DEF Start, End, SnapIds, Reset, Now
    <2>2. CASE ~(Anchor < p)
      BY <1>1, <1>2, <1>3, <2>2, ConstAssumption DEF Start, End, SnapIds, Reset, Now
    <2>3. QED
      BY <2>1, <2>2
  <1>4. CASE ~Paired(p)
    BY <1>1, <1>4, ConstAssumption DEF Start, End, SnapIds, Reset, Now
  <1>5. QED
    BY <1>3, <1>4

(* A refused pick only leaves its notice.                                  *)
LEMMA RefusedPickKeeps ==
  ASSUME IndInv, at = "browser", UNCHANGED <<srv, disk, saved, db, net, at, window, browser>>,
         notice' \in {"foreign snapshot", "session only to now"}
  PROVE  IndInv'
  BY NetSteps, PlainKeysKeep

(* A pick of "last reset", "now" or "session start" ends at now.           *)
LEMMA LiveTableKeeps ==
  ASSUME IndInv, at = "browser", UNCHANGED <<srv, disk, saved, db>>, notice' = None,
         NEW b \in Sample \cup {None}, NEW c \in BOOLEAN, c => b = ZeroSample,
         BackToLiveTable(b, c)
  PROVE  IndInv'
  <1>1. net' \in Net /\ FrozenOrdered'
    BY Unfold, PlainCommands, NetSteps DEF BackToLiveTable, LoadTable, Fields
  <1>2. Fields'
    BY Unfold, BrowserClosed DEF BackToLiveTable, Fields
  <1>3. Flags'
    BY Unfold, BrowserClosed DEF BackToLiveTable, LoadTable, Flags
  <1>4. WindowCoherent'
    BY PlainWindow DEF BackToLiveTable
  <1>5. QED
    BY <1>1, <1>2, <1>3, <1>4, ScreensMove

(* Enter on a browser row.                                                 *)
LEMMA PicksKeep ==
  ASSUME IndInv, PickSession \/ \E p \in Picks : Pick(p)
  PROVE  IndInv'
  <1>1. CASE PickSession
    <2>1. CASE Anchor = None
      <3>1. session \in Sample \cup {None}
        BY Unfold DEF Fields
      <3>2. QED
        BY <1>1, <2>1, <3>1, LiveTableKeeps DEF PickSession
    <2>2. CASE Anchor # None
      BY <1>1, <2>2, RefusedPickKeeps DEF PickSession
    <2>3. QED
      BY <2>1, <2>2
  <1>2. ASSUME NEW p \in Picks, Pick(p)
        PROVE  IndInv'
    <2>1. p \in items \ {Session}
      BY <1>2 DEF Pick
    <2>2. CASE ~(Compatible(Start(p)) /\ Compatible(End(p)))
      BY <1>2, <2>2, RefusedPickKeeps DEF Pick
    <2>3. CASE notice' = None /\ PickLive(p)
      <3>1. at = "browser" /\ UNCHANGED <<srv, disk, saved, db>>
        BY <1>2 DEF Pick
      <3>2. CASE BackToLiveTable(ZeroSample, TRUE)
        BY <2>3, <3>1, <3>2, SampleTypes, LiveTableKeeps
      <3>3. CASE BackToLiveTable(None, FALSE)
        BY <2>3, <3>1, <3>3, LiveTableKeeps
      <3>4. QED
        BY <2>3, <3>2, <3>3 DEF PickLive
    <2>4. CASE notice' = None /\ PickSnapshots(p) /\ ~(End(p) = Now /\ Start(p) \in {Reset, Now})
      <3>1. net' \in Net /\ FrozenOrdered'
        <4>1. CASE End(p) = Now
          BY <2>1, <2>4, <4>1, Unfold, PairsAreOrdered, PlainCommands, NetSteps DEF PickSnapshots
        <4>2. CASE End(p) # Now
          <5>1. Issue(FrozenCmd(Start(p), End(p), End(p) = p))
            BY <2>4, <4>2 DEF PickSnapshots
          <5>2. (End(p) = p) \in BOOLEAN
            OBVIOUS
          <5>3. /\ FrozenCmd(Start(p), End(p), End(p) = p) \in Messages
                /\ Ordered(FrozenCmd(Start(p), End(p), End(p) = p))
            BY <2>1, <4>2, <5>2, Unfold, PairsAreOrdered, PlainCommands
          <5>4. QED
            BY <5>1, <5>3, NetSteps
        <4>3. QED
          BY <4>1, <4>2
      <3>2. QED
        BY <1>2, <2>4, <3>1, PlainKeysKeep DEF Pick, PickSnapshots
    <2>5. QED
      BY <1>2, <2>2, <2>3, <2>4 DEF Pick
  <1>3. QED
    BY <1>1, <1>2

(* The auto-refresh tick only asks for a sample.                           *)
LEMMA TickKeeps ==
  ASSUME IndInv, onStatementsTick
  PROVE  IndInv'
  BY Unfold, PlainCommands, NetSteps, PlainKeysKeep DEF onStatementsTick, Fields

-----------------------------------------------------------------------------
(* A reply that finds no screen changes none.                              *)
LEMMA DroppedReplyKeeps ==
  ASSUME IndInv, UNCHANGED <<srv, disk, saved, at, db, window, browser, notice>>,
         NEW s \in Slots, Done(s)
  PROVE  IndInv'
  BY Unfold, NetSteps, ScreensStay

(* Closing the browser, or not, leaves the table below it as it was.       *)
LEMMA BrowserOnlyKeeps ==
  ASSUME IndInv, UNCHANGED <<srv, disk, saved, db, window, notice>>, at # "menu",
         UNCHANGED <<at, browser>> \/ (at' = "table" /\ NoBrowser),
         net' \in Net, FrozenOrdered'
  PROVE  IndInv'
  <1>1. CASE UNCHANGED <<at, browser>>
    BY <1>1, ScreensStay, Unfold
  <1>2. CASE at' = "table" /\ NoBrowser
    <2>1. UNCHANGED <<baseline, session, baseSnap, endSnap, shown, cumulative, loaded, err>>
      BY DEF window
    <2>2. Fields'
      BY <1>2, <2>1, Unfold, BrowserClosed DEF Fields
    <2>3. Flags'
      BY <1>2, <2>1, Unfold, BrowserClosed DEF Flags
    <2>4. QED
      BY <2>2, <2>3, Unfold, WindowStays, ScreensMove
  <1>3. QED
    BY <1>1, <1>2

(* onStatementsLoaded: the first sample may become the baseline, and only  *)
(* one with no snapshot behind it.                                         *)
LEMMA SampleKeeps ==
  ASSUME IndInv, NEW s \in Slots, onStatementsLoaded(s)
  PROVE  IndInv'
  <1>1. CASE db # net[s].db
    BY <1>1, DroppedReplyKeeps DEF onStatementsLoaded, Drop
  <1>2. CASE net[s].stats = None /\ db = net[s].db
    <2>1. ShowFailure /\ Done(s)
      BY <1>2 DEF onStatementsLoaded
    <2>2. UNCHANGED <<srv, disk, saved, db, notice, at, baseSnap, endSnap, cumulative, browser>>
      BY <1>2 DEF onStatementsLoaded
    <2>3. UNCHANGED <<entry, items, metas>>
      BY <2>2 DEF browser
    <2>4. Fields'
      BY <2>1, <2>2, <2>3, Unfold DEF ShowFailure, Fields
    <2>5. Flags'
      BY <2>1, <2>2, <2>3, Unfold DEF ShowFailure, Flags
    <2>6. WindowCoherent'
      BY <2>1, <2>2, Unfold DEF ShowFailure, WindowCoherent
    <2>7. QED
      BY <2>1, <2>2, <2>4, <2>5, <2>6, NetSteps, ScreensMove
  <1>3. CASE net[s].stats # None /\ db = net[s].db
    <2> DEFINE stats == net[s].stats
    <2>1. TakeSample(stats) /\ Done(s) /\ loaded' = TRUE /\ err' = FALSE
      BY <1>3 DEF onStatementsLoaded
    <2>2. UNCHANGED <<srv, disk, saved, db, notice, at, baseSnap, endSnap, cumulative, browser>>
      BY <1>3 DEF onStatementsLoaded
    <2>3. UNCHANGED <<entry, items, metas>>
      BY <2>2 DEF browser
    <2>4. stats \in Sample
      BY <1>3, Unfold, Carries DEF onStatementsLoaded
    <2> HIDE DEF stats
    <2>5. session' \in Sample /\ baseline' \in Sample
      BY <2>1, <2>4, Unfold DEF TakeSample, Fields
    <2>6. shown' \in Diff
      BY <2>1, <2>4, <2>5 DEF TakeSample, Diff
    <2>7. Fields'
      BY <2>2, <2>3, <2>5, <2>6, Unfold DEF Fields
    <2>8. Flags'
      BY <2>1, <2>2, <2>3, Unfold DEF Flags
    <2>9. WindowCoherent'
      <3>1. baseSnap # None => baseline # None
        BY Unfold, NoneIsNoSample DEF WindowCoherent, Fields, Snapshot
      <3>2. cumulative => baseline # None
        BY Unfold, NoneIsNoSample, SampleTypes DEF WindowCoherent
      <3>3. endSnap' # None \/ cumulative' \/ baseSnap' # None => baseline' = baseline
        BY <2>1, <2>2, <3>1, <3>2, Unfold DEF TakeSample, WindowCoherent
      <3>4. QED
        BY <2>2, <3>3, Unfold DEF WindowCoherent
    <2>10. QED
      BY <2>1, <2>2, <2>7, <2>8, <2>9, NetSteps, ScreensMove
  <1>4. QED
    BY <1>1, <1>2, <1>3

(* onSnapshotsListed writes the browser only.                              *)
LEMMA ListingKeeps ==
  ASSUME IndInv, NEW s \in Slots, onSnapshotsListed(s)
  PROVE  IndInv'
  <1>1. CASE Drop(s)
    BY <1>1, DroppedReplyKeeps DEF onSnapshotsListed, Drop
  <1>2. CASE at = "browser" /\ Done(s) /\ UNCHANGED <<at, window, entry>> /\ ~Drop(s)
    <2>1. metas' \subseteq Meta
      BY <1>2, Unfold, Carries DEF onSnapshotsListed
    <2>2. items' \subseteq Picks
      <3>1. {m.id : m \in metas'} \subseteq SnapIds
        BY <2>1 DEF Meta
      <3>2. QED
        BY <1>2, <3>1 DEF onSnapshotsListed, Picks
    <2>3. UNCHANGED <<baseline, session, baseSnap, endSnap, shown, cumulative, loaded, err>>
      BY <1>2 DEF window
    <2>4. Fields'
      BY <1>2, <2>1, <2>2, <2>3, Unfold DEF onSnapshotsListed, Fields
    <2>5. Flags'
      BY <1>2, <2>3, Unfold DEF Flags
    <2>6. QED
      BY <1>2, <2>4, <2>5, Unfold, WindowStays, NetSteps, ScreensMove DEF onSnapshotsListed
  <1>3. QED
    BY <1>1, <1>2 DEF onSnapshotsListed

(* onSnapshotBaseLoaded: the snapshot and the baseline move together.      *)
LEMMA BaseKeeps ==
  ASSUME IndInv, NEW s \in Slots, onSnapshotBaseLoaded(s)
  PROVE  IndInv'
  <1> DEFINE snap == net[s].snap
  <1>1. CASE at = "menu" /\ Drop(s)
    BY <1>1, DroppedReplyKeeps DEF onSnapshotBaseLoaded, Drop
  <1>2. CASE at # "menu" /\ abandonSnapshotPick /\ Done(s) /\ UNCHANGED window
    BY <1>2, NetSteps, BrowserOnlyKeeps DEF onSnapshotBaseLoaded, abandonSnapshotPick
  <1>3. CASE /\ at # "menu" /\ snap # None
             /\ baseSnap' = snap /\ baseline' = snap.stats
             /\ cumulative' = FALSE /\ endSnap' = None
             /\ PopAndLoad(s)
             /\ UNCHANGED <<session, err, shown>>
    <2>1. snap \in Snapshot
      BY <1>3, Unfold, Carries DEF onSnapshotBaseLoaded
    <2>2. UNCHANGED <<srv, disk, saved, db, notice>>
      BY DEF onSnapshotBaseLoaded
    <2>3. at' = "table" /\ NoBrowser /\ loaded' = FALSE /\ Answer(s, SampleCmd(db))
      BY <1>3 DEF PopAndLoad
    <2> HIDE DEF snap
    <2>4. net' \in Net /\ FrozenOrdered'
      BY <1>3, <2>3, Unfold, PlainCommands, NetSteps DEF Fields
    <2>5. Fields'
      BY <1>3, <2>1, <2>2, <2>3, Unfold, BrowserClosed DEF Fields, Snapshot
    <2>6. Flags'
      BY <1>3, <2>3, Unfold, BrowserClosed DEF Flags
    <2>7. WindowCoherent'
      BY <1>3 DEF WindowCoherent
    <2>8. QED
      BY <2>2, <2>4, <2>5, <2>6, <2>7, ScreensMove
  <1>4. QED
    BY <1>1, <1>2, <1>3 DEF onSnapshotBaseLoaded

(* onSnapshotFrozenLoaded: the window has a start, older than its end.     *)
LEMMA FrozenKeeps ==
  ASSUME IndInv, NEW s \in Slots, onSnapshotFrozenLoaded(s)
  PROVE  IndInv'
  <1> DEFINE base == net[s].base
             end  == net[s].end
  <1>1. CASE at = "menu" /\ Drop(s)
    BY <1>1, DroppedReplyKeeps DEF onSnapshotFrozenLoaded, Drop
  <1>2. CASE at # "menu"
    <2>1. base \in Snapshot \cup {None} /\ end \in Snapshot
      BY Unfold, Carries DEF onSnapshotFrozenLoaded
    <2>2. base # None => base.id < end.id
      BY Unfold DEF onSnapshotFrozenLoaded, FrozenOrdered, Ordered, Sent
    <2>3. /\ UNCHANGED <<srv, disk, saved, db, notice, session, err>> /\ Done(s)
          /\ baseSnap' = base /\ endSnap' = end
      BY <1>2 DEF onSnapshotFrozenLoaded
    <2>4. cumulative' = (base = None)
      BY <1>2 DEF onSnapshotFrozenLoaded
    <2>5. baseline' = IF base = None THEN ZeroSample ELSE base.stats
      BY <1>2 DEF onSnapshotFrozenLoaded
    <2>6. populateFrozenWindow(baseline', endSnap')
      BY <1>2 DEF onSnapshotFrozenLoaded
    <2>7. UNCHANGED <<at, browser>> \/ (at' = "table" /\ NoBrowser)
      BY <1>2 DEF onSnapshotFrozenLoaded
    <2> HIDE DEF base, end
    <2>8. baseline' \in Sample
      BY <2>1, <2>5, SampleTypes DEF Snapshot
    <2>9. shown' \in Diff /\ loaded' \in BOOLEAN
      BY <2>1, <2>3, <2>6, <2>8 DEF populateFrozenWindow, Diff, Snapshot
    <2>10. /\ items' \subseteq Picks /\ metas' \subseteq Meta /\ entry' \in BOOLEAN
           /\ at' \in {"browser", "table", "detail"}
      <3>1. CASE UNCHANGED <<at, browser>>
        BY <1>2, <3>1, Unfold DEF browser, Fields, Flags
      <3>2. CASE at' = "table" /\ NoBrowser
        BY <3>2, BrowserClosed
      <3>3. QED
        BY <2>7, <3>1, <3>2
    <2>11. Fields'
      BY <1>2, <2>1, <2>3, <2>8, <2>9, <2>10, Unfold DEF Fields
    <2>12. Flags'
      BY <2>3, <2>4, <2>9, <2>10, Unfold DEF Flags
    <2>13. WindowCoherent'
      BY <2>1, <2>2, <2>3, <2>4, <2>5 DEF WindowCoherent
    <2>14. QED
      BY <2>3, <2>11, <2>12, <2>13, NetSteps, ScreensMove
  <1>3. QED
    BY <1>1, <1>2 DEF onSnapshotFrozenLoaded

(* A pick whose file is gone at most closes the browser.                   *)
LEMMA FrozenFailureKeeps ==
  ASSUME IndInv, NEW s \in Slots, onSnapshotFrozenFailed(s)
  PROVE  IndInv'
  <1>1. CASE at = "menu"
    BY <1>1, DroppedReplyKeeps DEF onSnapshotFrozenFailed
  <1>2. CASE at # "menu"
    BY <1>2, NetSteps, BrowserOnlyKeeps DEF onSnapshotFrozenFailed, abandonSnapshotPick
  <1>3. QED
    BY <1>1, <1>2

(* onMaintResetDone drops the window on the table, and nothing elsewhere.  *)
LEMMA ResetReplyKeeps ==
  ASSUME IndInv, NEW s \in Slots, onMaintResetDone(s)
  PROVE  IndInv'
  <1>1. CASE net[s].ok /\ at = "table"
    <2>1. /\ restartWindow /\ session' = None /\ loaded' = FALSE
          /\ Answer(s, SampleCmd(db))
          /\ UNCHANGED <<srv, disk, saved, at, db, browser, notice, err, shown>>
      BY <1>1 DEF onMaintResetDone
    <2>2. UNCHANGED <<entry, items, metas>>
      BY <2>1 DEF browser
    <2>3. net' \in Net /\ FrozenOrdered'
      BY <1>1, <2>1, Unfold, PlainCommands, NetSteps DEF Fields
    <2>4. Fields'
      BY <2>1, <2>2, Unfold DEF restartWindow, Fields
    <2>5. Flags'
      BY <2>1, <2>2, Unfold DEF restartWindow, Flags
    <2>6. WindowCoherent'
      BY <2>1, PlainWindow DEF restartWindow
    <2>7. QED
      BY <2>1, <2>3, <2>4, <2>5, <2>6, ScreensMove
  <1>2. CASE ~(net[s].ok /\ at = "table")
    BY <1>2, DroppedReplyKeeps DEF onMaintResetDone
  <1>3. QED
    BY <1>1, <1>2

(* Every reply.                                                            *)
LEMMA RepliesKeep ==
  ASSUME IndInv, NEW s \in Slots, Deliver(s)
  PROVE  IndInv'
  BY SampleKeeps, ListingKeeps, BaseKeeps, FrozenKeeps, FrozenFailureKeeps, ResetReplyKeeps
     DEF Deliver

-----------------------------------------------------------------------------
(* The invariant is inductive.                                             *)
LEMMA NextKeeps == IndInv /\ [Next]_vars => IndInv'
  <1> SUFFICES ASSUME IndInv, [Next]_vars PROVE IndInv'
    OBVIOUS
  <1>1. CASE UNCHANGED vars
    BY <1>1, Unfold, NetSteps, ScreensStay DEF vars
  <1>2. CASE UserKey
    BY <1>2, KeysKeep, PicksKeep
  <1>3. CASE Next /\ ~UserKey
    BY <1>3, ServerStepKeeps, ServeKeeps, RepliesKeep, TickKeeps DEF Next
  <1>4. QED
    BY <1>1, <1>2, <1>3

(* The reachable states are inside the declared domains.                   *)
THEOREM TypeCorrect == Spec => []TypeOK
  <1>1. IndInv => TypeOK
    BY DEF IndInv
  <1>2. QED
    BY InitHolds, NextKeeps, <1>1, PTL DEF Spec

(* Whatever mix of keys and late replies wrote them, the fields that say   *)
(* what the table's window starts and ends at agree with one another.      *)
THEOREM Coherent == Spec => []WindowCoherent
  <1>1. IndInv => WindowCoherent
    BY DEF IndInv
  <1>2. QED
    BY InitHolds, NextKeeps, <1>1, PTL DEF Spec

-----------------------------------------------------------------------------
(* What a step may do to the window: the fields change together, in one of *)
(* these ways only.  Every property of the rows and of the session rests   *)
(* on this list rather than on the actions.                                *)
Restarted == loaded' = FALSE /\ UNCHANGED session
AfterReset == loaded' = FALSE /\ \E s \in Slots : onMaintResetDone(s)
Sampled ==
  /\ loaded' = TRUE /\ err' = FALSE /\ UNCHANGED baseSnap
  /\ \E stats \in Sample : TakeSample(stats)
Failed == loaded' = TRUE /\ err' = TRUE /\ UNCHANGED session
Frozen ==
  /\ endSnap' # None /\ populateFrozenWindow(baseline', endSnap')
  /\ UNCHANGED session
Opened == FreshWindow /\ (at = "menu" \/ at' = "menu")

WindowStep ==
  UNCHANGED window \/ Opened \/ Restarted \/ AfterReset \/ Sampled \/ Failed \/ Frozen

(* Keys that move between screens, restart the window or sample it.        *)
LEMMA KeyOnWindow ==
  ASSUME UserKey, ~PickSession, ~\E p \in Picks : Pick(p)
  PROVE  WindowStep
  <1>1. CASE (\E d \in Databases : OpenTool(d)) \/ BackFromTable
    BY <1>1 DEF WindowStep, Opened, OpenTool, BackFromTable, LeaveTool, Key
  <1>2. CASE BackFromBrowser
    BY <1>2 DEF WindowStep, Opened, BackFromBrowser, LeaveTool
  <1>3. CASE BackFromDetail \/ Drill \/ OpenBrowser \/ RefreshBrowser
    BY <1>3 DEF WindowStep, BackFromDetail, Drill, OpenBrowser, RefreshBrowser
  <1>4. CASE SaveKey \/ ConfirmReset \/ ConfirmDelete
    BY <1>4 DEF WindowStep, SaveKey, ConfirmReset, ConfirmDelete
  <1>5. CASE Rebaseline
    BY <1>5 DEF WindowStep, Restarted, Rebaseline, LoadTable
  <1>6. CASE RefreshTable
    <2>1. CASE endSnap # None
      BY <1>6, <2>1 DEF WindowStep, Frozen, RefreshTable, populateFrozenWindow
    <2>2. CASE endSnap = None
      BY <1>6, <2>2 DEF WindowStep, Restarted, RefreshTable, LoadTable
    <2>3. QED
      BY <2>1, <2>2
  <1>7. QED
    BY <1>1, <1>2, <1>3, <1>4, <1>5, <1>6 DEF UserKey

(* Enter on a browser row.                                                 *)
LEMMA PickOnWindow ==
  ASSUME PickSession \/ \E p \in Picks : Pick(p)
  PROVE  WindowStep
  <1>1. ASSUME NEW b, NEW c, BackToLiveTable(b, c)
        PROVE  WindowStep
    BY <1>1 DEF WindowStep, Restarted, BackToLiveTable, LoadTable
  <1>2. CASE PickSession
    BY <1>1, <1>2 DEF PickSession, WindowStep
  <1>3. ASSUME NEW p \in Picks, Pick(p)
        PROVE  WindowStep
    <2>1. PickLive(p) => WindowStep
      BY <1>1 DEF PickLive
    <2>2. PickSnapshots(p) => WindowStep
      BY DEF PickSnapshots, WindowStep
    <2>3. QED
      BY <1>3, <2>1, <2>2 DEF Pick, WindowStep
  <1>4. QED
    BY <1>2, <1>3

(* A reply, which may find its screen gone.                                *)
LEMMA ReplyOnWindow ==
  ASSUME IndInv, NEW s \in Slots, Deliver(s)
  PROVE  WindowStep
  <1>0. Drop(s) => WindowStep
    BY DEF Drop, WindowStep
  <1>1. CASE onStatementsLoaded(s)
    <2>1. CASE net[s].stats = None
      BY <1>0, <1>1, <2>1 DEF onStatementsLoaded, ShowFailure, WindowStep, Failed
    <2>2. CASE net[s].stats # None
      <3>1. net[s].stats \in Sample
        BY <1>1, <2>2, Unfold, Carries DEF onStatementsLoaded
      <3>2. CASE /\ loaded' = TRUE /\ err' = FALSE /\ TakeSample(net[s].stats)
                 /\ UNCHANGED baseSnap
        BY <3>1, <3>2 DEF WindowStep, Sampled
      <3>3. QED
        BY <1>0, <1>1, <2>2, <3>2 DEF onStatementsLoaded
    <2>3. QED
      BY <2>1, <2>2
  <1>2. CASE onSnapshotsListed(s)
    BY <1>0, <1>2 DEF onSnapshotsListed, WindowStep
  <1>3. CASE onSnapshotBaseLoaded(s)
    BY <1>0, <1>3 DEF onSnapshotBaseLoaded, PopAndLoad, WindowStep, Restarted
  <1>4. CASE onSnapshotFrozenLoaded(s)
    <2>1. net[s].end # None
      BY <1>4, Unfold, Carries, NoneIsNoSnapshot DEF onSnapshotFrozenLoaded
    <2>2. QED
      BY <1>0, <1>4, <2>1 DEF onSnapshotFrozenLoaded, WindowStep, Frozen
  <1>5. CASE onSnapshotFrozenFailed(s)
    BY <1>5 DEF onSnapshotFrozenFailed, WindowStep
  <1>6. CASE onMaintResetDone(s)
    <2>1. CASE net[s].ok /\ at = "table"
      BY <1>6, <2>1 DEF onMaintResetDone, WindowStep, AfterReset
    <2>2. CASE ~(net[s].ok /\ at = "table")
      BY <1>6, <2>2 DEF onMaintResetDone, WindowStep
    <2>3. QED
      BY <2>1, <2>2
  <1>7. QED
    BY <1>1, <1>2, <1>3, <1>4, <1>5, <1>6 DEF Deliver

(* So every step of the program is one of the list.                        *)
LEMMA StepOnWindow == IndInv /\ [Next]_vars => WindowStep
  <1> SUFFICES ASSUME IndInv, [Next]_vars PROVE WindowStep
    OBVIOUS
  <1>1. CASE UNCHANGED vars
    BY <1>1 DEF vars, WindowStep
  <1>2. CASE ServerStep
    BY <1>2 DEF ServerStep, ExternalReset, Execute, WindowStep
  <1>3. ASSUME NEW s \in Slots, Serve(s)
        PROVE  WindowStep
    BY <1>3 DEF Serve, ServeSample, Capture, SaveSnapshot, ServeList, ServeDelete, ServeBase,
                ServeFrozen, ServeReset, WindowStep
  <1>4. CASE UserKey
    BY <1>4, KeyOnWindow, PickOnWindow
  <1>5. CASE onStatementsTick
    BY <1>5 DEF onStatementsTick, WindowStep
  <1>6. ASSUME NEW s \in Slots, Deliver(s)
        PROVE  WindowStep
    BY <1>6, ReplyOnWindow
  <1>7. QED
    BY <1>1, <1>2, <1>3, <1>4, <1>5, <1>6 DEF Next

-----------------------------------------------------------------------------
(* Rows of a window that starts at a snapshot are clamped.                 *)
SnapshotRowsClamped == loaded /\ ~err /\ baseSnap # None => shown.clamped

(* The rows on screen are those of the window, and clamped where they must *)
(* be; no visit leaves a session anchor for the next one.                  *)
RowsInv ==
  /\ RowsMatchBaseline /\ SnapshotRowsClamped
  /\ at = "menu" => session = None

(* Rows that just loaded are the window's.                                 *)
LEMMA LoadedRows ==
  ASSUME NEW t \in Sample, baseline' \in Sample, NEW c \in BOOLEAN,
         shown' = [from |-> baseline', to |-> t, clamped |-> c], baseSnap' # None => c = TRUE
  PROVE  RowsMatchBaseline' /\ SnapshotRowsClamped'
  <1>1. shown' \in Diff
    BY DEF Diff
  <1>2. shown' # None
    BY <1>1, NilAssumption
  <1>3. QED
    BY <1>2 DEF RowsMatchBaseline, SnapshotRowsClamped

(* The rows wait for a sample, are dropped, or have just loaded.           *)
LEMMA RowsKeep ==
  ASSUME IndInv, IndInv', RowsInv, WindowStep
  PROVE  RowsMatchBaseline' /\ SnapshotRowsClamped'
  <1>1. CASE UNCHANGED window
    BY <1>1 DEF window, RowsInv, RowsMatchBaseline, SnapshotRowsClamped
  <1>2. CASE Opened \/ Restarted \/ AfterReset \/ Failed
    <2>1. loaded' = FALSE \/ err' = TRUE
      BY <1>2 DEF Opened, FreshWindow, Restarted, AfterReset, Failed
    <2>2. QED
      BY <2>1 DEF RowsMatchBaseline, SnapshotRowsClamped
  <1>3. CASE Sampled
    <2>1. PICK stats \in Sample : TakeSample(stats)
      BY <1>3 DEF Sampled
    <2>2. baseline' \in Sample
      BY <2>1, Unfold DEF TakeSample, Fields
    <2>3. shown' = [from |-> baseline', to |-> stats, clamped |-> baseSnap' # None]
      BY <1>3, <2>1 DEF TakeSample, Sampled
    <2>4. QED
      BY <2>2, <2>3, LoadedRows
  <1>4. CASE Frozen
    <2>1. baseline' \in Sample /\ endSnap'.stats \in Sample
      <3>1. /\ WindowCoherent' /\ endSnap' \in Snapshot
            /\ baseSnap' \in Snapshot \cup {None}
        BY <1>4 DEF IndInv, TypeOK, Frozen
      <3>2. QED
        BY <1>4, <3>1, SampleTypes DEF WindowCoherent, Frozen, Snapshot
    <2>2. shown' = [from |-> baseline', to |-> endSnap'.stats, clamped |-> TRUE]
      BY <1>4 DEF Frozen, populateFrozenWindow
    <2>3. QED
      BY <2>1, <2>2, LoadedRows
  <1>5. QED
    BY <1>1, <1>2, <1>3, <1>4 DEF WindowStep

(* Leaving the tool always forgets the session anchor.                     *)
LEMMA LeavingForgets ==
  ASSUME IndInv, [Next]_vars, at = "menu" => session = None, at' = "menu"
  PROVE  session' = None
  <1>1. CASE UNCHANGED vars
    BY <1>1 DEF vars, window
  <1>2. CASE ServerStep
    BY <1>2 DEF ServerStep, ExternalReset, Execute, window
  <1>3. ASSUME NEW s \in Slots, Serve(s)
        PROVE  session' = None
    BY <1>3 DEF Serve, ServeSample, Capture, SaveSnapshot, ServeList, ServeDelete, ServeBase,
                ServeFrozen, ServeReset, window
  <1>4. CASE UserKey
    <2>1. CASE BackFromTable \/ BackFromBrowser
      BY <2>1 DEF BackFromTable, BackFromBrowser, LeaveTool, FreshWindow
    <2>2. CASE PickSession \/ \E p \in Picks : Pick(p)
      BY <2>2 DEF PickSession, Pick, PickLive, PickSnapshots, BackToLiveTable
    <2>3. CASE UserKey /\ ~(BackFromTable \/ BackFromBrowser)
                       /\ ~(PickSession \/ \E p \in Picks : Pick(p))
      BY <2>3 DEF UserKey, OpenTool, BackFromDetail, Drill, OpenBrowser, RefreshBrowser,
                  RefreshTable, Rebaseline, SaveKey, ConfirmReset, ConfirmDelete, Key
    <2>4. QED
      BY <1>4, <2>1, <2>2, <2>3
  <1>5. CASE onStatementsTick
    BY <1>5 DEF onStatementsTick
  <1>6. ASSUME NEW s \in Slots, Deliver(s)
        PROVE  session' = None
    <2>1. CASE onStatementsLoaded(s)
      <3>1. CASE db # net[s].db
        BY <2>1, <3>1 DEF onStatementsLoaded, Drop, window
      <3>2. CASE db = net[s].db
        <4>1. at' = at
          BY <2>1, <3>2 DEF onStatementsLoaded, Drop
        <4>2. net[s].db \in Databases
          BY <2>1, Unfold, Carries DEF onStatementsLoaded
        <4>3. QED
          BY <3>2, <4>1, <4>2, Unfold, ConstAssumption DEF Fields
      <3>3. QED
        BY <3>1, <3>2
    <2>2. CASE onSnapshotsListed(s)
      <3>1. UNCHANGED at /\ UNCHANGED window
        BY <2>2 DEF onSnapshotsListed, Drop
      <3>2. QED
        BY <3>1 DEF window
    <2>3. CASE onSnapshotFrozenFailed(s) \/ onMaintResetDone(s)
      <3>1. UNCHANGED at \/ at' = "table"
        BY <2>3 DEF onSnapshotFrozenFailed, onMaintResetDone, abandonSnapshotPick
      <3>2. UNCHANGED session \/ session' = None
        BY <2>3 DEF onSnapshotFrozenFailed, onMaintResetDone, window
      <3>3. QED
        BY <3>1, <3>2
    <2>4. CASE onSnapshotBaseLoaded(s) \/ onSnapshotFrozenLoaded(s)
      BY <2>4 DEF onSnapshotBaseLoaded, onSnapshotFrozenLoaded, Drop, abandonSnapshotPick,
                  PopAndLoad, window
    <2>5. QED
      BY <1>6, <2>1, <2>2, <2>3, <2>4 DEF Deliver
  <1>7. QED
    BY <1>1, <1>2, <1>3, <1>4, <1>5, <1>6 DEF Next

(* The rows follow the window through every step.                          *)
LEMMA RowsInvKeeps == IndInv /\ RowsInv /\ [Next]_vars => RowsInv'
  <1> SUFFICES ASSUME IndInv, RowsInv, [Next]_vars PROVE RowsInv'
    OBVIOUS
  <1>1. IndInv' /\ WindowStep
    BY NextKeeps, StepOnWindow
  <1>2. RowsMatchBaseline' /\ SnapshotRowsClamped'
    BY <1>1, RowsKeep
  <1>3. at' = "menu" => session' = None
    BY LeavingForgets DEF RowsInv
  <1>4. QED
    BY <1>2, <1>3 DEF RowsInv

(* They hold on the menu pgdu starts with.                                 *)
LEMMA RowsInvStarts == Init => RowsInv
  BY DEF Init, RowsInv, RowsMatchBaseline, SnapshotRowsClamped

(* Once a load finished without error, the rows on screen are a difference *)
(* from the baseline the header names, never from one it replaced.         *)
THEOREM RowsOfTheBaseline == Spec => []RowsMatchBaseline
  <1>1. RowsInv => RowsMatchBaseline
    BY DEF RowsInv
  <1>2. QED
    BY InitHolds, NextKeeps, RowsInvStarts, RowsInvKeeps, <1>1, PTL DEF Spec

(* A clamped difference never runs backwards ...                           *)
LEMMA ClampedForward ==
  ASSUME NEW base \in Sample, NEW cur \in Sample
  PROVE  RowsForward(DiffStatementsClamped(base, cur))
  <1> DEFINE delta == [q \in Queries |-> Clamped(Minus(cur[q], base[q]))]
             active == {p \in Queries : delta[p].calls > 0}
  <1>1. \A q \in Queries : delta[q].time >= 0
    BY DEF Sample, Clamped, Minus, NonNeg
  <1> HIDE DEF delta
  <1>2. ActiveRows(delta) = [q \in active |-> delta[q]]
    BY DEF ActiveRows
  <1>3. QED
    BY <1>1, <1>2 DEF RowsForward, DiffStatementsClamped, delta

(* ... nor does one from counters that stand at zero.                      *)
LEMMA CumulativeForward ==
  ASSUME NEW cur \in Sample
  PROVE  RowsForward(DiffStatements(ZeroSample, cur))
  <1> DEFINE delta == [q \in Queries |-> Minus(cur[q], ZeroSample[q])]
             active == {p \in Queries : delta[p].calls > 0}
  <1>1. \A q \in Queries : delta[q].time >= 0
    BY DEF Sample, Minus, ZeroSample, NoCalls
  <1> HIDE DEF delta
  <1>2. ActiveRows(delta) = [q \in active |-> delta[q]]
    BY DEF ActiveRows
  <1>3. QED
    BY <1>1, <1>2 DEF RowsForward, DiffStatements, delta

(* Rows of a window that starts at a snapshot or at the last reset never   *)
(* run backwards, wherever a reset of the counters fell.                   *)
THEOREM DiskWindowsRunForward == Spec => []DiskWindowForward
  <1>1. IndInv /\ RowsInv => DiskWindowForward
    <2> SUFFICES ASSUME IndInv, RowsInv, loaded, ~err, cumulative \/ baseSnap # None
                 PROVE  RowsForward(Rows(shown))
      BY DEF DiskWindowForward
    <2>1. shown # None /\ shown.from = baseline
      BY DEF RowsInv, RowsMatchBaseline
    <2>2. shown \in Diff
      BY <2>1, Unfold DEF Fields
    <2>3. shown.from \in Sample /\ shown.to \in Sample
      BY <2>2 DEF Diff
    <2>4. CASE shown.clamped
      BY <2>3, <2>4, ClampedForward DEF Rows
    <2>5. CASE ~shown.clamped
      <3>1. baseSnap = None
        BY <2>5 DEF RowsInv, SnapshotRowsClamped
      <3>2. shown.from = ZeroSample
        BY <2>1, <3>1, Unfold DEF WindowCoherent
      <3>3. QED
        BY <2>3, <2>5, <3>2, CumulativeForward DEF Rows
    <2>6. QED
      BY <2>4, <2>5
  <1>2. QED
    BY InitHolds, NextKeeps, RowsInvStarts, RowsInvKeeps, <1>1, PTL DEF Spec

(* The reply to X drops the session anchor, or leaves the window alone.    *)
LEMMA ResetForgets ==
  ASSUME NEW s \in Slots, onMaintResetDone(s), session' # session
  PROVE  session' = None
  BY DEF onMaintResetDone, window

(* The session anchor is the first sample of a visit and stays it: R, a    *)
(* pick or a reload never move it, only leaving or X drop it.              *)
THEOREM SessionStays == Spec => SessionKept
  <1> DEFINE Kept == session # None /\ session' # session =>
                       session' = None /\ (at' = "menu" \/ \E s \in Slots : onMaintResetDone(s))
  <1>1. IndInv /\ RowsInv /\ [Next]_vars => [Kept]_vars
    <2> SUFFICES ASSUME IndInv, RowsInv, [Next]_vars, session # None, session' # session
                 PROVE  session' = None /\ (at' = "menu" \/ \E s \in Slots : onMaintResetDone(s))
      OBVIOUS
    <2>1. WindowStep
      BY StepOnWindow
    <2>2. ~UNCHANGED window /\ ~Restarted /\ ~Failed /\ ~Frozen
      BY DEF window, Restarted, Failed, Frozen
    <2>3. ~Sampled
      BY DEF Sampled, TakeSample
    <2>4. CASE Opened
      BY <2>4 DEF Opened, FreshWindow, RowsInv
    <2>5. CASE AfterReset
      BY <2>5, ResetForgets DEF AfterReset
    <2>6. QED
      BY <2>1, <2>2, <2>3, <2>4, <2>5 DEF WindowStep
  <1>2. QED
    BY InitHolds, NextKeeps, RowsInvStarts, RowsInvKeeps, <1>1, PTL DEF Spec, SessionKept

-----------------------------------------------------------------------------
(* A sample of the tool's own database is on its way.                      *)
IsSample(m) == m # None /\ m.kind \in {"sample", "sampled"} /\ m.db = db
Waiting     == \E s \in Slots : IsSample(net[s])

(* NeverStranded for every screen of the tool, not the table alone: the    *)
(* ones above it come back to the table without asking for anything.  Only *)
(* the entry picker, which backs out of the tool instead, waits for no     *)
(* sample, and it is never below another screen.                           *)
LoadAwaited ==
  /\ entry => at = "browser"
  /\ at # "menu" /\ ~loaded /\ ~entry => Waiting

(* A command is issued into a free slot: a sample on its way stays.        *)
LEMMA IssueWaits ==
  ASSUME net \in Net, NEW m \in Messages, Issue(m), UNCHANGED db, Waiting
  PROVE  Waiting'
  <1>1. PICK s \in Slots : IsSample(net[s])
    BY DEF Waiting
  <1>2. PICK t \in Slots : net[t] = None /\ net' = [net EXCEPT ![t] = m]
    BY DEF Issue
  <1>3. s # t
    BY <1>1, <1>2 DEF IsSample
  <1>4. net'[s] = net[s]
    BY <1>2, <1>3 DEF Net
  <1>5. QED
    BY <1>1, <1>4 DEF Waiting, IsSample

(* A sample that was just asked for is on its way.                         *)
LEMMA SampleWaits ==
  ASSUME net \in Net, db' \in Databases, NEW s \in Slots, net' = [net EXCEPT ![s] = SampleCmd(db')]
  PROVE  Waiting'
  <1>1. net'[s] = SampleCmd(db')
    BY DEF Net
  <1>2. SampleCmd(db') # None
    BY NoneIsNoMessage, PlainCommands
  <1>3. QED
    BY <1>1, <1>2 DEF Waiting, IsSample, SampleCmd

(* The end or the answer of any other command leaves the sample.           *)
LEMMA OthersWait ==
  ASSUME net \in Net, NEW s \in Slots, ~IsSample(net[s]), NEW m, net' = [net EXCEPT ![s] = m],
         UNCHANGED db, Waiting
  PROVE  Waiting'
  <1>1. PICK t \in Slots : IsSample(net[t])
    BY DEF Waiting
  <1>2. net'[t] = net[t]
    BY <1>1 DEF Net
  <1>3. QED
    BY <1>1, <1>2 DEF Waiting, IsSample

(* Messages of another kind are no samples.                                *)
LEMMA NotASample ==
  ASSUME NEW s \in Slots,
         \E k \in {"save", "captured", "list", "listing", "reset", "reset done", "delete",
                   "base", "base ready", "frozen", "frozen ready", "frozen failed"} : Sent(s, k)
  PROVE  ~IsSample(net[s])
  BY DEF IsSample, Sent

(* A step that keeps what is waited for keeps the wait: it neither starts  *)
(* a load nor makes an entry picker, and what it turns a picker into has   *)
(* loaded.                                                                 *)
LEMMA WaitKeeps ==
  ASSUME LoadAwaited, at # "menu", Waiting => Waiting', loaded => loaded',
         entry' => entry /\ at' = "browser",
         entry /\ ~entry' => loaded' \/ at' = "menu"
  PROVE  LoadAwaited'
  BY DEF LoadAwaited

(* In particular one that leaves the screens alone.                        *)
LEMMA QuietKeeps ==
  ASSUME LoadAwaited, Waiting => Waiting', UNCHANGED <<at, loaded, entry>>
  PROVE  LoadAwaited'
  BY DEF LoadAwaited

(* A step that loads the table waits for the sample it asked for.          *)
LEMMA LoadKeeps ==
  ASSUME Waiting', ~entry'
  PROVE  LoadAwaited'
  BY DEF LoadAwaited

(* Commands that run answer into their own slot.                           *)
LEMMA ServeWaits ==
  ASSUME IndInv, LoadAwaited, NEW s \in Slots, Serve(s)
  PROVE  LoadAwaited'
  <1>0. net \in Net /\ srv \in Server
    BY Unfold
  <1>1. UNCHANGED <<at, db, loaded, entry>>
    BY DEF Serve, ServeSample, Capture, SaveSnapshot, ServeList, ServeDelete, ServeBase,
           ServeFrozen, ServeReset, window, browser
  <1>2. CASE ServeSample(s)
    <2>1. PICK stats \in {StatementSnapshot(net[s].db), None} :
            net' = [net EXCEPT ![s] = [kind |-> "sampled", db |-> net[s].db, stats |-> stats]]
      BY <1>2 DEF ServeSample, Answer
    <2> DEFINE reply == [kind |-> "sampled", db |-> net[s].db, stats |-> stats]
    <2>2. reply \in Replies
      BY <1>0, <1>2, Carries, SampleTypes DEF ServeSample, Replies
    <2>3. reply # None
      BY <2>2, NilAssumption
    <2>4. CASE IsSample(net[s])
      <3>1. net'[s] = reply
        BY <2>1, Unfold DEF Net
      <3>2. QED
        BY <1>1, <2>3, <2>4, <3>1, LoadKeeps, QuietKeeps DEF Waiting, IsSample
    <2>5. CASE ~IsSample(net[s])
      BY <1>1, <2>1, <2>5, Unfold, OthersWait, QuietKeeps
    <2>6. QED
      BY <2>4, <2>5
  <1>3. CASE ~ServeSample(s)
    <2>1. \E m : net' = [net EXCEPT ![s] = m]
      BY <1>3 DEF Serve, Capture, SaveSnapshot, ServeList, ServeDelete, ServeBase, ServeFrozen,
                  ServeReset, Answer, Done
    <2>2. ~IsSample(net[s])
      BY <1>3, NotASample DEF Serve, Capture, SaveSnapshot, ServeList, ServeDelete, ServeBase,
                              ServeFrozen, ServeReset
    <2>3. QED
      BY <1>1, <2>1, <2>2, Unfold, OthersWait, QuietKeeps
  <1>4. QED
    BY <1>2, <1>3

(* loadCurrent on the table asks for a sample of the tool's database.      *)
LEMMA TableWaits ==
  ASSUME IndInv, at # "menu", UNCHANGED db, Issue(SampleCmd(db))
  PROVE  Waiting'
  <1>1. db \in Databases
    BY Unfold DEF Fields
  <1>2. QED
    BY <1>1, Unfold, SampleWaits DEF Issue

(* A pick that asks for files asks for no sample.                          *)
LEMMA AskWaits ==
  ASSUME IndInv, UNCHANGED db, NEW p, Waiting,
         Issue(BaseCmd(Start(p))) \/ Issue(FrozenCmd(Start(p), End(p), End(p) = p))
  PROVE  Waiting'
  <1>1. PICK t \in Slots : net[t] = None /\ \E m : net' = [net EXCEPT ![t] = m]
    BY DEF Issue
  <1>2. ~IsSample(net[t])
    BY <1>1 DEF IsSample
  <1>3. QED
    BY <1>1, <1>2, Unfold, OthersWait

(* Every key.                                                              *)
LEMMA KeysWait ==
  ASSUME IndInv, LoadAwaited, UserKey
  PROVE  LoadAwaited'
  <1>1. CASE \E d \in Databases : OpenTool(d)
    BY <1>1 DEF OpenTool, FreshBrowser, LoadAwaited
  <1>2. CASE LeaveTool
    BY <1>2 DEF LeaveTool, NoBrowser, FreshBrowser, LoadAwaited
  <1>3. CASE BackFromBrowser /\ ~LeaveTool
    <2>1. at = "browser" /\ at' = "table" /\ UNCHANGED <<net, db, window>> /\ ~(entry /\ ~loaded)
      BY <1>3 DEF BackFromBrowser, Key
    <2>2. entry' = FALSE /\ UNCHANGED loaded
      BY <1>3, <2>1 DEF BackFromBrowser, NoBrowser, FreshBrowser, window
    <2>3. Waiting => Waiting'
      BY <2>1 DEF Waiting, IsSample
    <2>4. QED
      BY <2>1, <2>2, <2>3, WaitKeeps
  <1>4. ASSUME NEW m \in Messages, UNCHANGED net \/ Issue(m), UNCHANGED db
        PROVE  Waiting => Waiting'
    BY <1>4, Unfold, IssueWaits DEF Waiting, IsSample
  <1>5. CASE Drill \/ BackFromDetail
    <2>1. UNCHANGED <<net, db>>
      BY <1>5 DEF Drill, BackFromDetail
    <2>2. /\ at # "menu" /\ at' # "browser" /\ at # "browser" /\ UNCHANGED loaded
          /\ UNCHANGED entry
      BY <1>5 DEF Drill, BackFromDetail, Key, window, browser
    <2>3. ~entry
      BY <2>2 DEF LoadAwaited
    <2>4. QED
      BY <2>1, <2>2, <2>3, WaitKeeps DEF Waiting, IsSample
  <1>6. CASE OpenBrowser
    <2>1. at = "table" /\ Issue(ListCmd) /\ UNCHANGED <<db, loaded>> /\ entry' = FALSE
      BY <1>6 DEF OpenBrowser, Key, FreshBrowser, window
    <2>2. ~entry
      BY <2>1 DEF LoadAwaited
    <2>3. QED
      BY <1>4, <2>1, <2>2, PlainCommands, WaitKeeps
  <1>7. CASE RefreshBrowser \/ SaveKey \/ ConfirmReset \/ ConfirmDelete
    <2>1. UNCHANGED <<at, db, loaded, entry>>
      BY <1>7 DEF RefreshBrowser, SaveKey, ConfirmReset, ConfirmDelete, window, browser
    <2>2. \E m \in Messages : Issue(m)
      <3>1. at # "menu" => db \in Databases
        BY Unfold DEF Fields
      <3>2. \A m \in metas : m.id \in SnapIds
        BY Unfold DEF Fields, Meta
      <3>3. QED
        BY <1>7, <3>1, <3>2, PlainCommands
           DEF RefreshBrowser, SaveKey, ConfirmReset, ConfirmDelete, Key
    <2>3. QED
      BY <1>4, <2>1, <2>2, QuietKeeps
  <1>8. CASE Rebaseline \/ RefreshTable
    <2>1. at = "table" /\ UNCHANGED <<at, db, entry>>
      BY <1>8 DEF Rebaseline, RefreshTable, Key, browser
    <2>2. ~entry
      BY <2>1 DEF LoadAwaited
    <2>3. LoadTable \/ loaded' = TRUE
      BY <1>8 DEF Rebaseline, RefreshTable, populateFrozenWindow
    <2>4. CASE LoadTable
      BY <2>1, <2>2, <2>4, TableWaits, LoadKeeps DEF LoadTable
    <2>5. CASE loaded' = TRUE
      BY <2>1, <2>2, <2>5 DEF LoadAwaited
    <2>6. QED
      BY <2>3, <2>4, <2>5
  <1>9. ASSUME NEW b, NEW c, at = "browser", UNCHANGED db, BackToLiveTable(b, c)
        PROVE  LoadAwaited'
    BY <1>9, TableWaits, LoadKeeps DEF BackToLiveTable, LoadTable, NoBrowser, FreshBrowser
  <1>10. CASE PickSession
    BY <1>9, <1>10, QuietKeeps DEF PickSession, window, browser, Waiting, IsSample
  <1>11. ASSUME NEW p \in Picks, Pick(p)
         PROVE  LoadAwaited'
    <2>1. CASE PickLive(p)
      BY <1>9, <1>11, <2>1 DEF Pick, PickLive
    <2>2. CASE ~PickLive(p)
      <3>1. UNCHANGED <<at, db, loaded, entry>>
        BY <1>11, <2>2 DEF Pick, PickSnapshots, window, browser
      <3>2. UNCHANGED net \/ PickSnapshots(p)
        BY <1>11, <2>2 DEF Pick
      <3>3. PickSnapshots(p) /\ Waiting => Waiting'
        BY <3>1, AskWaits DEF PickSnapshots
      <3>4. QED
        BY <3>1, <3>2, <3>3, QuietKeeps DEF Waiting, IsSample
    <2>3. QED
      BY <2>1, <2>2
  <1>12. QED
    BY <1>1, <1>2, <1>3, <1>5, <1>6, <1>7, <1>8, <1>10, <1>11
       DEF UserKey, BackFromTable

(* Every reply.                                                            *)
LEMMA RepliesWait ==
  ASSUME IndInv, LoadAwaited, NEW s \in Slots, Deliver(s)
  PROVE  LoadAwaited'
  <1>1. ASSUME NEW m, net' = [net EXCEPT ![s] = m], ~IsSample(net[s]), UNCHANGED db
        PROVE  Waiting => Waiting'
    BY <1>1, Unfold, OthersWait
  <1>2. CASE onStatementsLoaded(s)
    <2>1. CASE db # net[s].db
      <3>1. Done(s) /\ UNCHANGED <<at, db, loaded, entry>> /\ ~IsSample(net[s])
        BY <1>2, <2>1 DEF onStatementsLoaded, Drop, window, browser, IsSample
      <3>2. QED
        BY <1>1, <3>1, QuietKeeps DEF Done
    <2>2. CASE db = net[s].db
      <3>1. UNCHANGED <<at, entry>> /\ (loaded' = TRUE \/ Drop(s))
        BY <1>2, <2>2 DEF onStatementsLoaded, browser, ShowFailure
      <3>2. loaded' = TRUE
        BY <1>2, <2>2 DEF onStatementsLoaded, ShowFailure
      <3>3. QED
        BY <3>1, <3>2 DEF LoadAwaited
    <2>3. QED
      BY <2>1, <2>2
  <1>3. CASE ~onStatementsLoaded(s)
    <2>1. ~IsSample(net[s]) /\ UNCHANGED db
      BY <1>3, NotASample DEF Deliver, onSnapshotsListed, onSnapshotBaseLoaded,
            onSnapshotFrozenLoaded, onSnapshotFrozenFailed, onMaintResetDone
    <2>2. ASSUME Done(s), UNCHANGED <<at, loaded, entry>>
          PROVE  LoadAwaited'
      BY <1>1, <2>1, <2>2, QuietKeeps DEF Done
    <2>3. Drop(s) => LoadAwaited'
      BY <2>2 DEF Drop, window, browser
    <2>4. ASSUME at # "menu", Answer(s, SampleCmd(db)), ~entry'
          PROVE  LoadAwaited'
      <3>1. db' \in Databases
        BY <2>1, <2>4, Unfold DEF Fields
      <3>2. Waiting'
        BY <2>1, <2>4, <3>1, Unfold, SampleWaits DEF Answer
      <3>3. QED
        BY <2>4, <3>2, LoadKeeps
    <2>5. ASSUME at # "menu", abandonSnapshotPick, Done(s), UNCHANGED window
          PROVE  LoadAwaited'
      <3>1. CASE at = "browser" /\ entry
        BY <2>2, <2>5, <3>1 DEF abandonSnapshotPick, window, browser
      <3>2. CASE ~(at = "browser" /\ entry)
        <4>1. at' = "table" /\ entry' = FALSE /\ UNCHANGED loaded
          BY <2>5, <3>2 DEF abandonSnapshotPick, NoBrowser, FreshBrowser, window
        <4>2. ~entry
          BY <3>2 DEF LoadAwaited
        <4>3. QED
          BY <1>1, <2>1, <2>5, <4>1, <4>2, WaitKeeps DEF Done
      <3>3. QED
        BY <3>1, <3>2
    <2>6. CASE onSnapshotsListed(s)
      BY <2>2, <2>3, <2>6 DEF onSnapshotsListed, window
    <2>7. CASE onSnapshotBaseLoaded(s)
      <3>1. CASE at # "menu" /\ PopAndLoad(s)
        BY <2>4, <3>1 DEF PopAndLoad, NoBrowser, FreshBrowser
      <3>2. QED
        BY <2>3, <2>5, <2>7, <3>1 DEF onSnapshotBaseLoaded
    <2>8. CASE onSnapshotFrozenLoaded(s)
      <3>1. CASE loaded' = TRUE /\ UNCHANGED <<at, browser>>
        BY <3>1 DEF LoadAwaited, browser
      <3>2. CASE loaded' = TRUE /\ at' = "table" /\ NoBrowser
        BY <3>2 DEF LoadAwaited, NoBrowser, FreshBrowser
      <3>3. QED
        BY <2>3, <2>8, <3>1, <3>2 DEF onSnapshotFrozenLoaded, populateFrozenWindow
    <2>9. CASE onSnapshotFrozenFailed(s)
      BY <2>2, <2>5, <2>9 DEF onSnapshotFrozenFailed, window, browser
    <2>10. CASE onMaintResetDone(s)
      <3>1. CASE net[s].ok /\ at = "table"
        <4>1. ~entry /\ entry' = entry /\ Answer(s, SampleCmd(db))
          BY <2>10, <3>1 DEF onMaintResetDone, LoadAwaited, browser
        <4>2. QED
          BY <2>4, <3>1, <4>1
      <3>2. CASE ~(net[s].ok /\ at = "table")
        BY <2>2, <2>10, <3>2 DEF onMaintResetDone, window, browser
      <3>3. QED
        BY <3>1, <3>2
    <2>11. QED
      BY <1>3, <2>6, <2>7, <2>8, <2>9, <2>10 DEF Deliver
  <1>4. QED
    BY <1>2, <1>3

(* The wait survives every step.                                           *)
LEMMA WaitInductive == IndInv /\ LoadAwaited /\ [Next]_vars => LoadAwaited'
  <1> SUFFICES ASSUME IndInv, LoadAwaited, [Next]_vars PROVE LoadAwaited'
    OBVIOUS
  <1>1. CASE UNCHANGED <<net, at, db, window, browser>>
    BY <1>1, QuietKeeps DEF Waiting, IsSample, window, browser
  <1>2. CASE ServerStep
    BY <1>1, <1>2 DEF ServerStep, ExternalReset, Execute
  <1>3. CASE onStatementsTick
    <2>1. at = "table" /\ UNCHANGED <<at, db, loaded, entry>> /\ Issue(SampleCmd(db))
      BY <1>3 DEF onStatementsTick, window, browser
    <2>2. QED
      BY <2>1, TableWaits, QuietKeeps
  <1>4. QED
    BY <1>1, <1>2, <1>3, ServeWaits, KeysWait, RepliesWait DEF Next, vars

(* No spinner is abandoned: a table on screen that has not loaded has a    *)
(* sample of its own database on the way.                                  *)
THEOREM SpinnersEnd == Spec => []NeverStranded
  <1>1. Init => LoadAwaited
    BY DEF Init, LoadAwaited
  <1>2. LoadAwaited => NeverStranded
    <2> SUFFICES ASSUME LoadAwaited, at = "table", ~loaded PROVE Waiting
      BY DEF NeverStranded, Waiting, IsSample
    <2>1. QED
      BY DEF LoadAwaited
  <1>3. QED
    BY InitHolds, NextKeeps, WaitInductive, <1>1, <1>2, PTL DEF Spec

=============================================================================
