-------------------------- MODULE LifecycleProofs ---------------------------
(***************************************************************************)
(* What holds of the UI state by itself (App) and of a whole run of the    *)
(* program around it (Lifecycle), for every set of processes and columns,  *)
(* every length of filter and every page size, every list of signals and   *)
(* every argument list: the state keeps its type, the cursor stays         *)
(* anchored, the terminal is restored on every way out, and status 0 from  *)
(* the TUI means that the user quit.                                       *)
(***************************************************************************)
EXTENDS Lifecycle, FiniteSetTheorems, SequenceTheorems, TLAPS

AppType ==
  [sort : SortKeys, sortDesc : BOOLEAN, filter : 0..MaxFilter,
   mode : {"Normal", "Filter"}, selected : Nat, expanded : Pids \cup {NoPid},
   paused : BOOLEAN, showHelp : BOOLEAN, shouldQuit : BOOLEAN,
   page : Pages \cup {10}, anchor : Pids \cup {NoPid}]

\* CursorIsAnchored of a UI state and the rows it is shown against.
OnCursor(a, pids) ==
  /\ a.selected < Len(pids) \/ (pids = <<>> /\ a.selected = 0)
  /\ a.anchor = PidAt(pids, a.selected)

\* A command that sorts does so by a column in use.
SortsInUse(cmd) == cmd.op = "Sort" => cmd.key \in SortKeys

----------------------------------------------------------------------------
(* The pieces of handle.                                                   *)

\* Looking up an index in the rows gives a process or none (pids.get(i)).
LEMMA PidAtType ==
  ASSUME NEW pids \in Seq(Pids), NEW i
  PROVE  PidAt(pids, i) \in Pids \cup {NoPid}
  BY DEF PidAt

\* Whatever index a UI state comes with, Anchored leaves the cursor on a row of
\* the list, or at 0 when there is none, and the anchor on that row's process
\* (clamp_selection and the assignment of anchor behind it).
LEMMA AnchoredCursor ==
  ASSUME NEW a \in AppType, NEW pids \in Seq(Pids)
  PROVE  Anchored(a, pids) \in AppType /\ OnCursor(Anchored(a, pids), pids)
<1> DEFINE i == Clamped(a.selected, Len(pids))
<1>1. a.selected \in Nat /\ Len(pids) \in Nat
  BY DEF AppType
<1>2. i \in Nat /\ (i < Len(pids) \/ (Len(pids) = 0 /\ i = 0))
  BY <1>1 DEF Clamped, LesserOf
<1>3. PidAt(pids, i) \in Pids \cup {NoPid}
  BY PidAtType
<1>4. Anchored(a, pids) = [a EXCEPT !.selected = i, !.anchor = PidAt(pids, i)]
  BY DEF Anchored
<1> HIDE DEF i
<1>5. Anchored(a, pids) \in AppType
  BY <1>2, <1>3, <1>4 DEF AppType
<1>6. Anchored(a, pids).selected = i /\ Anchored(a, pids).anchor = PidAt(pids, i)
  BY <1>4 DEF AppType
<1>7. Len(pids) = 0 => pids = <<>>
  BY EmptySeq
<1> QED
  BY <1>2, <1>5, <1>6, <1>7 DEF OnCursor

\* Re-aiming the cursor at its process does the same (sync_selection).
LEMMA SyncCursor ==
  ASSUME NEW a \in AppType, NEW pids \in Seq(Pids)
  PROVE  SyncSelection(a, pids) \in AppType /\ OnCursor(SyncSelection(a, pids), pids)
<1>1. CASE a.anchor \in ToSet(pids)
  <2> DEFINE i == CHOOSE i \in DOMAIN pids : pids[i] = a.anchor
             b == [a EXCEPT !.selected = i - 1]
  <2>1. \E k \in DOMAIN pids : pids[k] = a.anchor
    BY <1>1 DEF ToSet
  <2>2. i \in DOMAIN pids
    BY <2>1
  <2>3. i - 1 \in Nat
    BY <2>2, LenProperties
  <2>4. b \in AppType
    BY <2>3 DEF AppType
  <2> QED
    BY <1>1, <2>4, AnchoredCursor DEF SyncSelection
<1>2. CASE a.anchor \notin ToSet(pids)
  BY <1>2, AnchoredCursor DEF SyncSelection
<1> QED
  BY <1>1, <1>2

\* Navigation computes an index, saturating at 0 (the arms Up to End of handle).
LEMMA NavigateType ==
  ASSUME NEW a \in AppType, NEW op, NEW len \in Nat
  PROVE  Navigate(a, op, len) \in Nat
<1>1. a.selected \in Nat /\ a.page \in Pages \cup {10}
  BY DEF AppType
<1>2. Pages \subseteq Nat /\ 10 \in Nat
  BY AppAssumption
<1>3. a.page \in Nat
  BY <1>1, <1>2, Zenon
<1> QED
  BY <1>1, <1>3 DEF Navigate, GreaterOf, LesserOf

\* Choosing a column in use keeps the type (apply_sort).
LEMMA ApplySortType ==
  ASSUME NEW a \in AppType, NEW k \in SortKeys
  PROVE  ApplySort(a, k) \in AppType
<1>1. (k \in NumericKeys) \in BOOLEAN
  OBVIOUS
<1>2. ASSUME NEW desc \in BOOLEAN
      PROVE  [a EXCEPT !.sort = k, !.sortDesc = desc] \in AppType
  BY DEF AppType
<1>3. [a EXCEPT !.sortDesc = ~a.sortDesc] \in AppType
  BY DEF AppType
<1> QED
  BY <1>1, <1>2, <1>3 DEF ApplySort

\* Quit and Escape keep the type.
LEMMA BackOutType ==
  ASSUME NEW a \in AppType, NEW op
  PROVE  BackOut(a, op) \in AppType
<1>1. 0 \in 0..MaxFilter
  BY AppAssumption
<1> QED
  BY <1>1 DEF BackOut, AppType

\* Enter expands the process under the cursor, or none.
LEMMA ToggleExpandType ==
  ASSUME NEW a \in AppType, NEW pids \in Seq(Pids)
  PROVE  ToggleExpand(a, pids) \in AppType
<1>1. PidAt(pids, a.selected) \in Pids \cup {NoPid}
  BY PidAtType
<1> QED
  BY <1>1 DEF ToggleExpand, AppType

\* Editing the filter keeps its length between 0 and the bound.
LEMMA EditFilterType ==
  ASSUME NEW a \in AppType, NEW cmd
  PROVE  EditFilter(a, cmd) \in AppType
<1>1. /\ 0 \in 0..MaxFilter
      /\ LesserOf(MaxFilter, a.filter + 1) \in 0..MaxFilter
      /\ GreaterOf(0, a.filter - 1) \in 0..MaxFilter
  BY AppAssumption DEF AppType, LesserOf, GreaterOf
<1> QED
  BY <1>1 DEF EditFilter, AppType

\* A command of normal mode keeps the type.
LEMMA CommandType ==
  ASSUME NEW a \in AppType, NEW cmd, SortsInUse(cmd), NEW pids \in Seq(Pids)
  PROVE  Command(a, cmd, pids) \in AppType
<1>1. BackOut(a, cmd.op) \in AppType /\ ToggleExpand(a, pids) \in AppType
  BY BackOutType, ToggleExpandType
<1>2. cmd.op = "Sort" => ApplySort(a, cmd.key) \in AppType
  BY ApplySortType DEF SortsInUse
<1>3. /\ [a EXCEPT !.paused = ~a.paused] \in AppType
      /\ [a EXCEPT !.showHelp = ~a.showHelp] \in AppType
      /\ [a EXCEPT !.mode = "Filter"] \in AppType
  <2>1. [a EXCEPT !.paused = ~a.paused] \in AppType
    BY DEF AppType
  <2>2. [a EXCEPT !.showHelp = ~a.showHelp] \in AppType
    BY DEF AppType
  <2>3. [a EXCEPT !.mode = "Filter"] \in AppType
    BY DEF AppType
  <2> QED
    BY <2>1, <2>2, <2>3
<1>4. [a EXCEPT !.selected = Navigate(a, cmd.op, Len(pids))] \in AppType
  BY NavigateType DEF AppType
<1> QED
  BY <1>1, <1>2, <1>3, <1>4 DEF Command

\* handle, in either mode, ends with the cursor on a row of the list it was given.
LEMMA HandleCursor ==
  ASSUME NEW a \in AppType, NEW cmd, SortsInUse(cmd), NEW pids \in Seq(Pids)
  PROVE  Handle(a, cmd, pids) \in AppType /\ OnCursor(Handle(a, cmd, pids), pids)
  BY EditFilterType, SyncCursor, CommandType, AnchoredCursor DEF Handle

\* A key that sorts names a column in use.
LEMMA KeysSortInUse ==
  ASSUME NEW key \in Keys, NEW mode
  PROVE  SortsInUse(KeyToCmd(key, mode))
<1>1. /\ \A k \in DOMAIN Wheel : Wheel[k] # "Sort"
      /\ \A k \in DOMAIN FilterOps : FilterOps[k] # "Sort"
      /\ \A k \in DOMAIN NormalOps : NormalOps[k] # "Sort"
  BY DEF Wheel, FilterOps, NormalOps
<1>2. /\ DOMAIN SortKeyOf \cap (DOMAIN NormalOps \cup {"backspace", CtrlC}) = {}
      /\ DOMAIN SortKeyOf \cap DOMAIN Wheel = {}
  BY DEF SortKeyOf, NormalOps, Wheel, CtrlC
<1>3. key \in DOMAIN SortKeyOf => SortKeyOf[key] \in SortKeys
  BY <1>2 DEF Keys, SortCmds
<1>4. \/ key \in DOMAIN SortKeyOf /\ KeyToCmd(key, mode) = Sort(SortKeyOf[key])
      \/ \E op : op # "Sort" /\ KeyToCmd(key, mode) = Plain(op)
  BY <1>1 DEF KeyToCmd, Ignored
<1>5. key \in DOMAIN SortKeyOf => SortsInUse(Sort(SortKeyOf[key]))
  BY <1>3 DEF SortsInUse, Sort
<1>6. ASSUME NEW op, op # "Sort"
      PROVE  SortsInUse(Plain(op))
  BY <1>6 DEF SortsInUse, Plain
<1> QED
  BY <1>4, <1>5, <1>6

\* What a redraw shows is a list of processes of the table.
LEMMA ListsType ==
  ASSUME NEW S, S \subseteq Pids, NEW l \in Lists(S)
  PROVE  l \in Seq(Pids)
<1>1. PICK n \in 0..Cardinality(S) : l \in [1..n -> S]
  BY DEF Lists
<1> QED
  BY <1>1, SeqDef

----------------------------------------------------------------------------
(* The invariant.                                                          *)

IInv == TypeOK /\ CursorIsAnchored

\* The program starts with an empty list and the cursor at 0.
LEMMA InitIInv == Init => IInv
<1> SUFFICES ASSUME Init
             PROVE  IInv
  OBVIOUS
<1>1. <<>> \in Seq(Pids) /\ Len(<<>>) = 0 /\ PidAt(<<>>, 0) = NoPid
  BY EmptySeq DEF PidAt
<1>2. 0 \in 0..MaxFilter /\ 0 \in 0..MaxKeys
  BY AppAssumption
<1>3. FirstApp \in AppType
  BY <1>2, AppAssumption DEF FirstApp, AppType
<1>4. TypeOK
  BY <1>1, <1>2, <1>3 DEF Init, TypeOK, AppType
<1>5. CursorIsAnchored
  BY <1>1 DEF Init, CursorIsAnchored, FirstApp
<1> QED
  BY <1>4, <1>5 DEF IInv

\* Every step keeps the cursor anchored and the types intact.
LEMMA StepIInv == IInv /\ [Next]_vars => IInv'
<1> SUFFICES ASSUME IInv, [Next]_vars
             PROVE  IInv'
  OBVIOUS
<1> USE DEF IInv
<1>1. app \in AppType /\ OnCursor(app, shown)
  BY DEF TypeOK, AppType, CursorIsAnchored, OnCursor
<1>2. CASE Tick
  BY <1>2 DEF Tick, TypeOK, CursorIsAnchored
<1>3. CASE NoTick
  BY <1>3 DEF NoTick, TypeOK, CursorIsAnchored
<1>4. ASSUME NEW list \in Lists(table), NEW page \in Pages, Redraw(list, page)
      PROVE  IInv'
  <2> DEFINE a == SyncSelection(app, list)
  <2>1. list \in Seq(Pids)
    BY ListsType DEF TypeOK
  <2>2. a \in AppType /\ OnCursor(a, list)
    BY <1>1, <2>1, SyncCursor
  <2>3. app' = [a EXCEPT !.page = page] /\ shown' = list
    BY <1>4 DEF Redraw
  <2> HIDE DEF a
  <2>4. app' \in AppType /\ app'.selected = a.selected /\ app'.anchor = a.anchor
    BY <2>2, <2>3 DEF AppType
  <2>5. TypeOK'
    BY <1>4, <2>1, <2>4 DEF TypeOK, AppType, Redraw
  <2>6. CursorIsAnchored'
    BY <2>2, <2>3, <2>4 DEF CursorIsAnchored, OnCursor
  <2> QED
    BY <2>5, <2>6
<1>5. CASE NoRedraw
  BY <1>5 DEF NoRedraw, TypeOK, CursorIsAnchored
<1>6. CASE Poll
  BY <1>6 DEF Poll, TypeOK, CursorIsAnchored
<1>7. ASSUME NEW key \in Keys, ReadKey(key)
      PROVE  IInv'
  <2>1. app' \in AppType /\ OnCursor(app', shown)
    BY <1>1, <1>7, HandleCursor, KeysSortInUse DEF ReadKey, TypeOK
  <2>2. events' \in 0..MaxKeys
    BY <1>7, AppAssumption DEF ReadKey, TypeOK
  <2>3. pc' \in {"check", "burst"} /\ needsRedraw' = TRUE /\ UNCHANGED <<shown, table, signal>>
    BY <1>7 DEF ReadKey
  <2>4. TypeOK'
    BY <2>1, <2>2, <2>3 DEF TypeOK, AppType
  <2>5. CursorIsAnchored'
    BY <2>1, <2>3 DEF CursorIsAnchored, OnCursor
  <2> QED
    BY <2>4, <2>5
<1>8. CASE Check
  BY <1>8 DEF Check, TypeOK, CursorIsAnchored
<1>9. CASE Press
  BY <1>9, AppAssumption DEF Press, TypeOK, CursorIsAnchored
<1>10. CASE Raise
  BY <1>10 DEF Raise, TypeOK, CursorIsAnchored
<1>11. CASE UNCHANGED vars
  BY <1>11 DEF vars, TypeOK, CursorIsAnchored
<1> QED
  BY <1>2, <1>3, <1>4, <1>5, <1>6, <1>7, <1>8, <1>9, <1>10, <1>11 DEF Next, Loop

\* The inductive invariant of the UI state.
LEMMA IInvAlways == Spec => []IInv
<1> QED
  BY InitIInv, StepIInv, PTL DEF Spec

\* The UI state keeps its types: in particular the filter is never popped below
\* nothing and no index is ever negative (saturating_sub in src/app.rs).
THEOREM AppTypeCorrect == Spec => []TypeOK
<1> QED
  BY IInvAlways, PTL DEF IInv

\* The highlighted row always exists, and is the row of the process that Enter
\* expands and that the next rebuild follows (src/app.rs:55-57), whatever rows a
\* filter and a sort make of the table.
THEOREM CursorAlwaysAnchored == Spec => []CursorIsAnchored
<1> QED
  BY IInvAlways, PTL DEF IInv
----------------------------------------------------------------------------
(* Action properties: steps that move the cursor, and steps that quit.     *)

NavigationOps == {"Up", "Down", "PageUp", "PageDown", "Home", "End"}

\* Anchoring and re-aiming move the cursor and nothing else.
SameButCursor(a, b) ==
  /\ b.mode = a.mode /\ b.filter = a.filter
  /\ b.showHelp = a.showHelp /\ b.shouldQuit = a.shouldQuit

\* clamp_selection and the anchor behind it leave the rest of the state alone.
LEMMA AnchoredRest ==
  ASSUME NEW a \in AppType, NEW pids \in Seq(Pids)
  PROVE  SameButCursor(a, Anchored(a, pids))
  BY DEF Anchored, SameButCursor, AppType

\* sync_selection leaves the rest of the state alone.
LEMMA SyncRest ==
  ASSUME NEW a \in AppType, NEW pids \in Seq(Pids)
  PROVE  SameButCursor(a, SyncSelection(a, pids))
<1> DEFINE i == CHOOSE i \in DOMAIN pids : pids[i] = a.anchor
           b == [a EXCEPT !.selected = i - 1]
<1>1. CASE a.anchor \in ToSet(pids)
  <2>1. \E k \in DOMAIN pids : pids[k] = a.anchor
    BY <1>1 DEF ToSet
  <2>2. i - 1 \in Nat
    BY <2>1, LenProperties
  <2>3. b \in AppType /\ SameButCursor(a, b)
    BY <2>2 DEF AppType, SameButCursor
  <2>4. SyncSelection(a, pids) = Anchored(b, pids)
    BY <1>1 DEF SyncSelection
  <2> HIDE DEF b
  <2>5. SameButCursor(b, Anchored(b, pids))
    BY <2>3, AnchoredRest
  <2> QED
    BY <2>3, <2>4, <2>5 DEF SameButCursor
<1>2. CASE a.anchor \notin ToSet(pids)
  BY <1>2, AnchoredRest DEF SyncSelection
<1> QED
  BY <1>1, <1>2

\* A process that is on screen keeps the cursor when the rows are rebuilt
\* (sync_selection).
LEMMA SyncKeeps ==
  ASSUME NEW a \in AppType, NEW pids \in Seq(Pids), a.anchor \in ToSet(pids)
  PROVE  SyncSelection(a, pids).anchor = a.anchor
<1> DEFINE i == CHOOSE i \in DOMAIN pids : pids[i] = a.anchor
           b == [a EXCEPT !.selected = i - 1]
<1>1. \E k \in DOMAIN pids : pids[k] = a.anchor
  BY DEF ToSet
<1>2. i \in DOMAIN pids /\ pids[i] = a.anchor
  BY <1>1
<1> HIDE DEF i
<1>3. i \in 1..Len(pids) /\ Len(pids) \in Nat
  BY <1>2, LenProperties
<1>4. Clamped(i - 1, Len(pids)) = i - 1
  BY <1>3 DEF Clamped, LesserOf
<1>5. PidAt(pids, i - 1) = a.anchor
  <2>1. (i - 1) + 1 = i
    BY <1>3
  <2> QED
    BY <1>2, <2>1 DEF PidAt
<1>6. b.selected = i - 1 /\ [b EXCEPT !.anchor = a.anchor].anchor = a.anchor
  BY <1>3 DEF AppType
<1>7. SyncSelection(a, pids) = Anchored(b, pids)
  BY DEF SyncSelection, i
<1>8. Anchored(b, pids) = [b EXCEPT !.selected = i - 1, !.anchor = a.anchor]
  BY <1>4, <1>5, <1>6 DEF Anchored
<1>9. [b EXCEPT !.selected = i - 1, !.anchor = a.anchor].anchor = a.anchor
  BY DEF AppType
<1> QED
  BY <1>7, <1>8, <1>9

\* A cursor that is on its process stays there when it is anchored again, if no
\* index was changed in between.
LEMMA AnchoredStays ==
  ASSUME NEW a \in AppType, NEW b \in AppType, NEW pids \in Seq(Pids), OnCursor(a, pids),
         b.selected = a.selected
  PROVE  Anchored(b, pids).anchor = a.anchor
<1>1. a.selected \in Nat /\ Len(pids) \in Nat /\ (pids = <<>> => Len(pids) = 0)
  BY EmptySeq DEF AppType
<1>2. Clamped(b.selected, Len(pids)) = a.selected
  BY <1>1 DEF Clamped, LesserOf, OnCursor
<1>3. Anchored(b, pids) = [b EXCEPT !.selected = a.selected, !.anchor = a.anchor]
  BY <1>2 DEF Anchored, OnCursor
<1> QED
  BY <1>3 DEF AppType

\* Only the navigation keys and the wheel give navigation commands in normal mode
\* (key_to_cmd).
LEMMA NavigationKeys ==
  ASSUME NEW key \in Keys \ Navigation
  PROVE  KeyToCmd(key, "Normal").op \notin NavigationOps
<1>1. key \notin DOMAIN Wheel
  BY DEF Wheel, Navigation
<1>2. key \in DOMAIN NormalOps => NormalOps[key] \notin NavigationOps
  BY DEF NormalOps, Navigation, NavigationOps
<1>3. \A k : Sort(k).op \notin NavigationOps
  BY DEF Sort, NavigationOps
<1>4. Plain("Quit").op \notin NavigationOps /\ Ignored.op \notin NavigationOps
  BY DEF Plain, Ignored, NavigationOps
<1>5. \A op : Plain(op).op = op
  BY DEF Plain
<1> QED
  BY <1>1, <1>2, <1>3, <1>4, <1>5 DEF KeyToCmd

\* What is no navigation leaves the index of the cursor alone.
LEMMA CommandStays ==
  ASSUME NEW a \in AppType, NEW cmd, cmd.op \notin NavigationOps, NEW pids \in Seq(Pids)
  PROVE  Command(a, cmd, pids).selected = a.selected
<1>1. BackOut(a, cmd.op).selected = a.selected
  BY DEF BackOut, AppType
<1>2. ApplySort(a, cmd.key).selected = a.selected
  BY DEF ApplySort, AppType
<1>3. ToggleExpand(a, pids).selected = a.selected
  BY DEF ToggleExpand, AppType
<1>4. /\ [a EXCEPT !.paused = ~a.paused].selected = a.selected
      /\ [a EXCEPT !.showHelp = ~a.showHelp].selected = a.selected
      /\ [a EXCEPT !.mode = "Filter"].selected = a.selected
      /\ [a EXCEPT !.selected = a.selected].selected = a.selected
  BY DEF AppType
<1>5. Navigate(a, cmd.op, Len(pids)) = a.selected
  BY DEF Navigate, NavigationOps
<1> QED
  BY <1>1, <1>2, <1>3, <1>4, <1>5 DEF Command

\* Editing the filter does not touch the cursor.
LEMMA EditStays ==
  ASSUME NEW a \in AppType, NEW cmd
  PROVE  EditFilter(a, cmd).anchor = a.anchor
  BY DEF EditFilter, AppType

\* A step of the loop takes the cursor off a process that stays on screen only for
\* a navigation key.
LEMMA StepFollows ==
  ASSUME IInv, Loop, app.anchor \in ToSet(shown'), app'.anchor # app.anchor
  PROVE  app.mode = "Normal" /\ \E key \in Navigation : ReadKey(key)
<1> USE DEF IInv
<1>1. app \in AppType /\ OnCursor(app, shown) /\ shown \in Seq(Pids)
  BY DEF TypeOK, AppType, CursorIsAnchored, OnCursor
<1>2. app' # app
  OBVIOUS
<1>3. ASSUME NEW list \in Lists(table), NEW page \in Pages, Redraw(list, page)
      PROVE  FALSE
  <2> DEFINE a == SyncSelection(app, list)
  <2>1. list \in Seq(Pids)
    BY ListsType DEF TypeOK
  <2>2. app' = [a EXCEPT !.page = page] /\ shown' = list
    BY <1>3 DEF Redraw
  <2>3. a \in AppType /\ a.anchor = app.anchor
    BY <1>1, <2>1, <2>2, SyncCursor, SyncKeeps
  <2> HIDE DEF a
  <2>4. app'.anchor = app.anchor
    BY <2>2, <2>3 DEF AppType
  <2> QED
    BY <2>4
<1>4. PICK key \in Keys : ReadKey(key)
  BY <1>2, <1>3 DEF Loop, Tick, NoTick, NoRedraw, Poll, Check
<1> DEFINE cmd == KeyToCmd(key, app.mode)
<1>5. /\ shown' = shown /\ app' = Handle(app, cmd, shown)
      /\ SortsInUse(cmd)
  BY <1>2, <1>4, KeysSortInUse DEF ReadKey
<1> HIDE DEF cmd
<1>6. CASE app.mode = "Filter"
  <2> DEFINE a == EditFilter(app, cmd)
  <2>1. app' = SyncSelection(a, shown)
    BY <1>5, <1>6 DEF Handle
  <2>2. a \in AppType /\ a.anchor = app.anchor
    BY <1>1, EditFilterType, EditStays
  <2> HIDE DEF a
  <2> QED
    BY <1>1, <1>5, <2>1, <2>2, SyncKeeps
<1>7. CASE app.mode = "Normal" /\ key \notin Navigation
  <2> DEFINE a == Command(app, cmd, shown)
  <2>1. app' = Anchored(a, shown)
    BY <1>5, <1>7 DEF Handle
  <2>2. cmd.op \notin NavigationOps
    BY <1>7, NavigationKeys DEF cmd
  <2>3. a \in AppType /\ a.selected = app.selected
    BY <1>1, <1>5, <2>2, CommandType, CommandStays
  <2> HIDE DEF a
  <2> QED
    BY <1>1, <2>1, <2>3, AnchoredStays
<1>8. app.mode \in {"Normal", "Filter"}
  BY <1>1 DEF AppType
<1> QED
  BY <1>4, <1>6, <1>7, <1>8

\* Only ctrl-c quits while a filter is typed (key_to_cmd, handle_filter).
LEMMA TypingQuits ==
  ASSUME NEW a \in AppType, a.mode = "Filter", ~a.shouldQuit, NEW key \in Keys \ {CtrlC},
         NEW pids \in Seq(Pids)
  PROVE  ~Handle(a, KeyToCmd(key, "Filter"), pids).shouldQuit
<1> DEFINE cmd == KeyToCmd(key, "Filter")
<1>1. cmd.op # "Quit"
  <2>1. \A op : Plain(op).op = op
    BY DEF Plain
  <2>2. /\ \A k \in DOMAIN Wheel : Wheel[k] # "Quit"
        /\ \A k \in DOMAIN FilterOps : FilterOps[k] # "Quit"
    BY DEF Wheel, FilterOps
  <2> QED
    BY <2>1, <2>2 DEF KeyToCmd, Ignored
<1> HIDE DEF cmd
<1>2. EditFilter(a, cmd) \in AppType /\ ~EditFilter(a, cmd).shouldQuit
  BY <1>1, EditFilterType DEF EditFilter, AppType
<1>3. SameButCursor(EditFilter(a, cmd), SyncSelection(EditFilter(a, cmd), pids))
  BY <1>2, SyncRest
<1> QED
  BY <1>2, <1>3 DEF Handle, SameButCursor, cmd

\* What there is to back out of, by name.
Open(a) == {l \in {"typing", "help", "filter"} :
              \/ l = "typing" /\ a.mode = "Filter"
              \/ l = "help"   /\ a.showHelp
              \/ l = "filter" /\ a.filter > 0}

\* Levels counts them: none is zero, and fewer is less.
LEMMA LevelsCount ==
  ASSUME NEW a, NEW b
  PROVE  /\ Levels(a) = 0 <=> Open(a) = {}
         /\ Open(b) \subseteq Open(a) /\ Open(b) # Open(a) => Levels(b) < Levels(a)
<1>1. IsFiniteSet({"typing", "help", "filter"})
  <2>1. IsFiniteSet({"typing"})
    BY FS_Singleton
  <2>2. IsFiniteSet({"typing"} \cup {"help"})
    BY <2>1, FS_AddElement
  <2>3. IsFiniteSet({"typing"} \cup {"help"} \cup {"filter"})
    BY <2>2, FS_AddElement
  <2>4. {"typing", "help", "filter"} = {"typing"} \cup {"help"} \cup {"filter"}
    OBVIOUS
  <2> QED
    BY <2>3, <2>4
<1>2. IsFiniteSet(Open(a)) /\ IsFiniteSet(Open(b))
  BY <1>1, FS_Subset DEF Open
<1>3. Levels(a) = Cardinality(Open(a)) /\ Levels(b) = Cardinality(Open(b))
  BY DEF Levels, Open
<1>4. Cardinality(Open(a)) = 0 <=> Open(a) = {}
  BY <1>2, FS_EmptySet
<1>5. Open(b) \subseteq Open(a) /\ Open(b) # Open(a) => Cardinality(Open(b)) < Cardinality(Open(a))
  <2>1. Cardinality(Open(a)) \in Nat /\ Cardinality(Open(b)) \in Nat
    BY <1>2, FS_CardinalityType
  <2> SUFFICES ASSUME Open(b) \subseteq Open(a), Open(b) # Open(a)
               PROVE  Cardinality(Open(b)) < Cardinality(Open(a))
    OBVIOUS
  <2>2. Cardinality(Open(b)) <= Cardinality(Open(a)) /\ Cardinality(Open(b)) # Cardinality(Open(a))
    BY <1>2, FS_Subset
  <2> QED
    BY <2>1, <2>2
<1> QED
  BY <1>3, <1>4, <1>5

\* Esc leaves the filter being typed, the help or the filter applied, the first of
\* them that is there, and quits when none is (BackOut, EditFilter).
LEMMA EscBacksOut ==
  ASSUME NEW a \in AppType, ~a.shouldQuit, NEW pids \in Seq(Pids), NEW b,
         b = Handle(a, KeyToCmd("esc", a.mode), pids)
  PROVE  IF Levels(a) = 0 THEN b.shouldQuit ELSE ~b.shouldQuit /\ Levels(b) < Levels(a)
<1>1. a.mode \in {"Normal", "Filter"} /\ a.filter \in Nat /\ a.showHelp \in BOOLEAN
  BY AppAssumption DEF AppType
<1>2. /\ KeyToCmd("esc", "Normal") = Plain("Escape")
      /\ KeyToCmd("esc", "Filter") = Plain("FilterCancel")
  BY DEF KeyToCmd, CtrlC, Wheel, FilterOps, NormalOps, Typed, SortKeyOf
<1>3. \A op : Plain(op).op = op
  BY DEF Plain
<1>4. CASE a.mode = "Filter"
  <2> DEFINE c == [a EXCEPT !.mode = "Normal", !.filter = 0]
  <2>1. EditFilter(a, Plain("FilterCancel")) = c
    BY <1>3 DEF EditFilter
  <2>2. c \in AppType
    <3>1. 0 \in 0..MaxFilter
      BY AppAssumption
    <3> QED
      BY <3>1 DEF AppType
  <2>3. c.mode = "Normal" /\ c.filter = 0 /\ c.showHelp = a.showHelp /\ c.shouldQuit = a.shouldQuit
    BY DEF AppType
  <2>4. b = SyncSelection(c, pids)
    BY <1>2, <1>4, <2>1 DEF Handle
  <2> HIDE DEF c
  <2>5. SameButCursor(c, b)
    BY <2>2, <2>4, SyncRest
  <2>6. "typing" \in Open(a) /\ "typing" \notin Open(b) /\ Open(b) \subseteq Open(a)
    BY <1>4, <2>3, <2>5 DEF Open, SameButCursor
  <2> QED
    BY <2>3, <2>5, <2>6, LevelsCount DEF SameButCursor
<1>5. ASSUME a.mode = "Normal", NEW c \in AppType, Command(a, Plain("Escape"), pids) = c
      PROVE  SameButCursor(c, b)
  <2>1. b = Anchored(c, pids)
    BY <1>2, <1>5 DEF Handle
  <2> QED
    BY <2>1, AnchoredRest
<1>6. Command(a, Plain("Escape"), pids) = BackOut(a, "Escape")
  BY <1>3 DEF Command
<1>7. CASE a.mode = "Normal" /\ a.showHelp
  <2> DEFINE c == [a EXCEPT !.showHelp = FALSE]
  <2>1. /\ c \in AppType /\ c.mode = a.mode /\ c.filter = a.filter /\ c.showHelp = FALSE
        /\ c.shouldQuit = a.shouldQuit
    BY DEF AppType
  <2>2. BackOut(a, "Escape") = c
    BY <1>7 DEF BackOut
  <2> HIDE DEF c
  <2>3. SameButCursor(c, b)
    BY <1>5, <1>6, <1>7, <2>1, <2>2
  <2>4. "help" \in Open(a) /\ "help" \notin Open(b) /\ Open(b) \subseteq Open(a)
    BY <1>7, <2>1, <2>3 DEF Open, SameButCursor
  <2> QED
    BY <2>1, <2>3, <2>4, LevelsCount DEF SameButCursor
<1>8. CASE a.mode = "Normal" /\ ~a.showHelp /\ a.filter > 0
  <2> DEFINE c == [a EXCEPT !.filter = 0]
  <2>1. /\ c \in AppType /\ c.mode = a.mode /\ c.filter = 0 /\ c.showHelp = a.showHelp
        /\ c.shouldQuit = a.shouldQuit
    BY AppAssumption DEF AppType
  <2>2. BackOut(a, "Escape") = c
    BY <1>8 DEF BackOut
  <2> HIDE DEF c
  <2>3. SameButCursor(c, b)
    BY <1>5, <1>6, <1>8, <2>1, <2>2
  <2>4. "filter" \in Open(a) /\ "filter" \notin Open(b) /\ Open(b) \subseteq Open(a)
    BY <1>8, <2>1, <2>3 DEF Open, SameButCursor
  <2> QED
    BY <2>1, <2>3, <2>4, LevelsCount DEF SameButCursor
<1>9. CASE a.mode = "Normal" /\ ~a.showHelp /\ ~(a.filter > 0)
  <2> DEFINE c == [a EXCEPT !.shouldQuit = TRUE]
  <2>1. c \in AppType /\ c.shouldQuit
    BY DEF AppType
  <2>2. BackOut(a, "Escape") = c
    BY <1>9 DEF BackOut
  <2> HIDE DEF c
  <2>3. SameButCursor(c, b)
    BY <1>5, <1>6, <1>9, <2>1, <2>2
  <2>4. Open(a) = {}
    BY <1>9 DEF Open
  <2> QED
    BY <2>1, <2>3, <2>4, LevelsCount DEF SameButCursor
<1> QED
  BY <1>1, <1>4, <1>7, <1>8, <1>9

\* A key is read only before a quit is.
QuitSeen == app.shouldQuit => pc \in {"check", "done"}

\* A key read while a filter is typed, unless it is ctrl-c, and an Esc anywhere,
\* quit only where they should.
LEMMA KeysQuit ==
  ASSUME IInv, QuitSeen
  PROVE  /\ app.mode = "Filter" /\ app'.shouldQuit => \A key \in Keys \ {CtrlC} : ~ReadKey(key)
         /\ ReadKey("esc") /\ ~app.shouldQuit =>
              IF Levels(app) = 0 THEN app'.shouldQuit
                                 ELSE ~app'.shouldQuit /\ Levels(app') < Levels(app)
<1>1. app \in AppType /\ shown \in Seq(Pids)
  BY DEF IInv, TypeOK, AppType
<1>2. ASSUME app.mode = "Filter", app'.shouldQuit, NEW key \in Keys \ {CtrlC}, ReadKey(key)
      PROVE  FALSE
  <2>1. ~app.shouldQuit
    BY <1>2 DEF QuitSeen, ReadKey
  <2>2. ~Handle(app, KeyToCmd(key, "Filter"), shown).shouldQuit
    BY <1>1, <1>2, <2>1, TypingQuits
  <2> QED
    BY <1>2, <2>1, <2>2 DEF ReadKey
<1>3. ASSUME ReadKey("esc"), ~app.shouldQuit
      PROVE  IF Levels(app) = 0 THEN app'.shouldQuit
                                ELSE ~app'.shouldQuit /\ Levels(app') < Levels(app)
  <2>1. Acts("esc", app.mode)
    <3>1. app.mode \in {"Normal", "Filter"}
      BY <1>1 DEF AppType
    <3>2. KeyToCmd("esc", app.mode) \in {Plain("Escape"), Plain("FilterCancel")}
      BY <3>1 DEF KeyToCmd, CtrlC, Wheel, FilterOps, NormalOps, Typed, SortKeyOf
    <3>3. Plain("Escape") # Ignored /\ Plain("FilterCancel") # Ignored
      BY DEF Plain, Ignored
    <3> QED
      BY <3>2, <3>3 DEF Acts
  <2>2. app' = Handle(app, KeyToCmd("esc", app.mode), shown)
    BY <1>3, <2>1 DEF ReadKey
  <2> QED
    BY <1>1, <1>3, <2>2, EscBacksOut
<1> QED
  BY <1>2, <1>3

\* The loop gets from a quit to its end without another key (ReadKey ends the burst).
LEMMA StepQuitSeen ==
  ASSUME IInv, QuitSeen, Loop
  PROVE  QuitSeen' /\ (app.shouldQuit /\ pc # "done" => app' = app /\ table' = table)
<1>1. CASE Tick \/ NoTick \/ NoRedraw \/ Poll \/ Check
  BY <1>1 DEF QuitSeen, Tick, NoTick, NoRedraw, Poll, Check
<1>2. ASSUME NEW list \in Lists(table), NEW page \in Pages, Redraw(list, page)
      PROVE  QuitSeen' /\ ~app.shouldQuit
  <2>1. app \in AppType /\ ~app.shouldQuit
    BY <1>2 DEF IInv, TypeOK, AppType, QuitSeen, Redraw
  <2>2. list \in Seq(Pids)
    BY ListsType DEF IInv, TypeOK
  <2>3. app' = [SyncSelection(app, list) EXCEPT !.page = page]
    BY <1>2 DEF Redraw
  <2>4. SyncSelection(app, list) \in AppType /\ ~SyncSelection(app, list).shouldQuit
    BY <2>1, <2>2, SyncCursor, SyncRest DEF SameButCursor
  <2>5. ~app'.shouldQuit
    BY <2>3, <2>4 DEF AppType
  <2> QED
    BY <2>1, <2>5 DEF QuitSeen
<1>3. ASSUME NEW key \in Keys, ReadKey(key)
      PROVE  QuitSeen' /\ ~app.shouldQuit
  BY <1>3 DEF QuitSeen, ReadKey
<1> QED
  BY <1>1, <1>2, <1>3 DEF Loop

----------------------------------------------------------------------------
(* The program around the UI.                                              *)

\* Before the terminal is touched.
Early == {"args", "open", "oneshot", "signals"}

\* The hooks once set-up is over: the mouse's hook is there if the mouse may be on.
Hooked == \/ hooks = <<"restore", "mouse">>
          \/ hooks = <<"restore">> /\ ~opts.set.mouse

\* What is switched on in each phase, and what stands ready to switch it off.
TerminalInv ==
  /\ phase \in Early => terminal = Cooked /\ hooks = <<>>
  /\ phase \notin Early \cup {"exited"} => handled = Len(Signals)
  /\ phase = "init" => /\ step \in 0..2 /\ ~terminal.alt /\ ~terminal.mouse
                       /\ IF step = 0 THEN ~terminal.raw /\ hooks = <<>> ELSE hooks = <<"restore">>
  /\ phase = "hook" => hooks = <<"restore">> /\ ~terminal.mouse
  /\ phase = "mouse" => Hooked /\ ~terminal.mouse
  /\ phase = "loop" => Hooked /\ (terminal.mouse => opts.set.mouse)
  /\ phase = "unwind" => \/ hooks = <<"restore", "mouse">>
                         \/ hooks = <<"restore">> /\ ~terminal.mouse
                         \/ hooks = <<>> /\ terminal = Cooked
  /\ phase = "release" => (terminal.mouse => opts.set.mouse)
  /\ phase = "restore" => ~terminal.mouse
  /\ phase \in {"end", "exited"} => terminal = Cooked

\* Why the loop was left, kept until the status is computed.
QuitInv ==
  /\ pc = "done" => app.shouldQuit \/ signal
  /\ phase = "args" => handled = 0
  /\ phase = "oneshot" => opts.mode # "tui"
  /\ phase \in {"release", "restore", "end"} =>
       res \in {"ok", "error"} /\ (res = "ok" => app.shouldQuit \/ signal)
  /\ ZeroMeansQuit

LifeInv == IInv /\ LifeTypeOK /\ TerminalInv /\ QuitInv

----------------------------------------------------------------------------
(* Lemmas.                                                                 *)

\* The signals are numbers that leave room for 128 below 256 (128 + sig in run_tui).
LEMMA SignalRange ==
  /\ \A k \in DOMAIN Signals : Signals[k] \in 1..31
  /\ ToSet(Signals) \subseteq 1..31
<1>1. Signals \in [1..Len(Signals) -> 1..31] /\ DOMAIN Signals = 1..Len(Signals)
  BY LifeAssumption, LenProperties
<1> QED
  BY <1>1 DEF ToSet

\* The last hook put up is the first to run, and the others are left.
LEMMA HookStack ==
  /\ Last(<<"restore", "mouse">>) = "mouse" /\ Front(<<"restore", "mouse">>) = <<"restore">>
  /\ Last(<<"restore">>) = "restore" /\ Front(<<"restore">>) = <<>>
<1> DEFINE two == <<"restore", "mouse">>
           one == <<"restore">>
<1>1. two \in Seq({"restore", "mouse"}) /\ Len(two) = 2 /\ two[1] = "restore" /\ two[2] = "mouse"
  OBVIOUS
<1>2. one \in Seq({"restore", "mouse"}) /\ Len(one) = 1 /\ one[1] = "restore"
  OBVIOUS
<1> HIDE DEF two, one
<1>3. /\ SubSeq(two, 1, 1) \in Seq({"restore", "mouse"})
      /\ Len(SubSeq(two, 1, 1)) = 1 /\ SubSeq(two, 1, 1)[1] = "restore"
  <2>1. \A i \in 1..1 : two[i] \in {"restore", "mouse"}
    BY <1>1
  <2>2. /\ SubSeq(two, 1, 1) \in Seq({"restore", "mouse"})
        /\ Len(SubSeq(two, 1, 1)) = IF 1 <= 1 THEN 1 - 1 + 1 ELSE 0
        /\ \A i \in 1..(1 - 1 + 1) : SubSeq(two, 1, 1)[i] = two[1 + i - 1]
    BY <2>1, SubSeqProperties
  <2> QED
    BY <1>1, <2>2
<1>4. SubSeq(two, 1, 1) = one
  BY <1>2, <1>3, SeqEqual
<1>5. SubSeq(one, 1, 0) = <<>>
  BY SubSeqEmpty
<1> QED
  BY <1>1, <1>2, <1>4, <1>5 DEF Last, Front, two, one

\* Hooks are put up one over the other (ratatui's, then run_tui's).
LEMMA HookPut ==
  /\ Append(<<>>, "restore") = <<"restore">>
  /\ Append(<<"restore">>, "mouse") = <<"restore", "mouse">>
<1> DEFINE H   == {"restore", "mouse"}
           two == <<"restore", "mouse">>
           one == <<"restore">>
<1>1. two \in Seq(H) /\ Len(two) = 2 /\ two[1] = "restore" /\ two[2] = "mouse"
  OBVIOUS
<1>2. one \in Seq(H) /\ Len(one) = 1 /\ one[1] = "restore"
  OBVIOUS
<1>3. <<>> \in Seq(H) /\ Len(<<>>) = 0
  BY EmptySeq
<1>4. "restore" \in H /\ "mouse" \in H
  OBVIOUS
<1> HIDE DEF H, two, one
<1>5. Append(<<>>, "restore") = one
  <2>1. /\ Append(<<>>, "restore") \in Seq(H) /\ Len(Append(<<>>, "restore")) = 1
        /\ Append(<<>>, "restore")[1] = "restore"
    BY <1>3, <1>4, AppendProperties
  <2> QED
    BY <1>2, <2>1, SeqEqual
<1>6. Append(one, "mouse") = two
  <2>1. /\ Append(one, "mouse") \in Seq(H) /\ Len(Append(one, "mouse")) = 2
        /\ Append(one, "mouse")[1] = "restore" /\ Append(one, "mouse")[2] = "mouse"
    BY <1>2, <1>4, AppendProperties
  <2> QED
    BY <1>1, <2>1, SeqEqual
<1> QED
  BY <1>5, <1>6 DEF one, two

\* Signals is a sequence, so its length is a number.
LEMMA SignalCount == Len(Signals) \in Nat /\ DOMAIN Signals = 1..Len(Signals)
  BY LifeAssumption, LenProperties

\* main starts with the terminal as it found it and no handler registered.
LEMMA InitLifeInv == LifeInit => LifeInv
<1> SUFFICES ASSUME LifeInit
             PROVE  LifeInv
  OBVIOUS
<1>1. IInv
  BY InitIInv DEF LifeInit
<1>2. LifeTypeOK
  BY <1>1, SignalCount DEF LifeInit, LifeTypeOK, IInv, Init, Cooked, NoStatus, OpenCalls
<1>3. TerminalInv
  BY DEF LifeInit, TerminalInv, Early
<1>4. QuitInv
  BY DEF LifeInit, QuitInv, ZeroMeansQuit, Init
<1> QED
  BY <1>1, <1>2, <1>3, <1>4 DEF LifeInv

\* The loop is left with the cursor where a new App has it.
LEMMA LeaveLoopIInv ==
  ASSUME IInv, NEW p, LeaveLoop(p)
  PROVE  IInv' /\ app'.shouldQuit = app.shouldQuit
<1>1. <<>> \in Seq(Pids) /\ Len(<<>>) = 0 /\ PidAt(<<>>, 0) = NoPid
  BY EmptySeq DEF PidAt
<1>2. 0 \in 0..MaxFilter /\ 0 \in 0..MaxKeys
  BY AppAssumption
<1>3. app.shouldQuit \in BOOLEAN
  BY DEF IInv, TypeOK
<1>4. /\ app' \in AppType /\ app'.selected = 0 /\ app'.anchor = NoPid
      /\ app'.shouldQuit = app.shouldQuit
  BY <1>2, <1>3, AppAssumption DEF LeaveLoop, FirstApp, AppType
<1>5. TypeOK'
  BY <1>1, <1>2, <1>4 DEF LeaveLoop, IInv, TypeOK, AppType
<1>6. CursorIsAnchored'
  BY <1>1, <1>4 DEF LeaveLoop, CursorIsAnchored
<1> QED
  BY <1>4, <1>5, <1>6 DEF IInv

\* A step of run_loop is a step of module App that raises no signal.
LEMMA LoopStepIInv ==
  ASSUME IInv, LoopStep
  PROVE  IInv' /\ signal' = signal
<1>1. Next /\ signal' = signal
  BY DEF LoopStep, Next, Loop, Tick, NoTick, NoRedraw, Poll, Check, Redraw, ReadKey
<1> QED
  BY <1>1, StepIInv

\* Every step of a run keeps the invariant of the UI.
LEMMA LifeIInv == LifeInv /\ [LifeNext]_lifeVars => IInv'
<1> SUFFICES ASSUME LifeInv, [LifeNext]_lifeVars
             PROVE  IInv'
  OBVIOUS
<1>1. IInv
  BY DEF LifeInv
<1>2. CASE UNCHANGED vars
  BY <1>1, <1>2, StepIInv
<1>3. CASE LoopStep
  BY <1>1, <1>3, LoopStepIInv
<1>4. CASE \E p : LeaveLoop(p)
  BY <1>1, <1>4, LeaveLoopIInv
<1>5. CASE PressKey
  BY <1>1, <1>5, StepIInv DEF PressKey, Next
<1>6. ASSUME NEW k \in DOMAIN Signals, Deliver(k)
      PROVE  IInv'
  <2>1. CASE k <= handled
    BY <1>1, <1>6, <2>1 DEF Deliver, IInv, TypeOK, CursorIsAnchored
  <2>2. CASE ~(k <= handled)
    BY <1>2, <1>6, <2>2 DEF Deliver, Exit
  <2> QED
    BY <2>1, <2>2
<1>7. ASSUME NEW args \in ArgLists, Start(args)
      PROVE  UNCHANGED vars
  BY <1>7 DEF Start, Exit
<1>8. CASE \/ OpenStep \/ Opened \/ EarlyError \/ OneShotPanics \/ OneShotDone
           \/ Register \/ Registered \/ InitTerminal \/ HookMouse
  BY <1>2, <1>8 DEF OpenStep, Opened, EarlyError, OneShotPanics, OneShotDone,
                    Register, Registered, InitTerminal, HookMouse, Enter, Exit
<1>9. CASE \/ EnableMouse \/ \E written \in BOOLEAN : EnableMouseFails(written)
           \/ Panics \/ Unwind \/ ReleaseMouse \/ Restore \/ End
  BY <1>2, <1>9 DEF EnableMouse, EnableMouseFails, Panics, Unwind, ReleaseMouse,
                    Restore, End, Enter, Exit
<1>10. CASE LoopFails \/ LoopPanics \/ LoopReturns
  BY <1>4, <1>10 DEF LoopFails, LoopPanics, LoopReturns
<1>11. CASE UNCHANGED lifeVars
  BY <1>2, <1>11 DEF lifeVars
<1> QED
  BY <1>2, <1>3, <1>5, <1>6, <1>7, <1>8, <1>9, <1>10, <1>11 DEF LifeNext, Program

\* LifeTypeOK in two parts beside the type of the UI: where the run is and what it
\* leaves behind, and the handlers with the flag they set.
Phases == {"args", "open", "oneshot", "signals", "init", "hook", "mouse", "loop",
           "unwind", "release", "restore", "end", "exited"}
Modes  == [raw : BOOLEAN, alt : BOOLEAN, mouse : BOOLEAN]
Results  == {"none", "ok", "error"}
Statuses == 0..255 \cup {NoStatus}

PlaceOK ==
  /\ phase \in Phases /\ step \in 0..9
  /\ terminal \in Modes /\ res \in Results /\ status \in Statuses

FlagOK ==
  /\ handled \in 0..Len(Signals)
  /\ signum \in ToSet(Signals) \cup {0}
  /\ signal <=> signum # 0

\* The parts make up LifeTypeOK.
LEMMA LifeTypeParts ==
  /\ LifeTypeOK <=> TypeOK /\ PlaceOK /\ FlagOK
  /\ LifeTypeOK' <=> TypeOK' /\ PlaceOK' /\ FlagOK'
<1>1. Len(OpenCalls) = 9
  BY DEF OpenCalls
<1>2. Len(OpenCalls)' = 9
  BY DEF OpenCalls
<1> QED
  BY <1>1, <1>2 DEF LifeTypeOK, PlaceOK, FlagOK, Phases, Modes, Results, Statuses

\* A mode may be switched on or off.
LEMMA SwitchModes ==
  ASSUME NEW t \in Modes, NEW b \in BOOLEAN
  PROVE  /\ [t EXCEPT !.raw = b] \in Modes
         /\ [t EXCEPT !.alt = b] \in Modes
         /\ [t EXCEPT !.mouse = b] \in Modes
         /\ [t EXCEPT !.raw = FALSE, !.alt = FALSE] \in Modes
  BY DEF Modes

\* Leaving a phase for another, with at most the terminal and the result touched.
LEMMA EnterPlace ==
  ASSUME PlaceOK, NEW p \in Phases, Enter(p), terminal' \in Modes, res' \in Results
  PROVE  PlaceOK'
  BY DEF Enter, PlaceOK

\* Every step keeps the place of a run in its type.
LEMMA StepPlace == LifeInv /\ [LifeNext]_lifeVars => PlaceOK'
<1> SUFFICES ASSUME LifeInv, [LifeNext]_lifeVars
             PROVE  PlaceOK'
  OBVIOUS
<1>1. /\ PlaceOK /\ FlagOK
      /\ phase = "init" => step \in 0..2
  BY LifeTypeParts DEF LifeInv, TerminalInv
<1>2. /\ \A p \in {"open", "oneshot", "signals", "init", "hook", "mouse", "loop", "unwind",
                   "release", "restore", "end", "exited"} : p \in Phases
      /\ \A b \in BOOLEAN : [terminal EXCEPT !.mouse = b] \in Modes
      /\ [terminal EXCEPT !.raw = FALSE, !.alt = FALSE] \in Modes
      /\ [terminal EXCEPT !.raw = TRUE] \in Modes
      /\ [terminal EXCEPT !.alt = TRUE] \in Modes
  BY <1>1, SwitchModes DEF Phases, PlaceOK
<1>3. ASSUME NEW code \in 0..255, Exit(code)
      PROVE  PlaceOK'
  BY <1>1, <1>2, <1>3 DEF Exit, PlaceOK, Statuses
<1>4. ASSUME NEW args \in ArgLists, Start(args)
      PROVE  PlaceOK'
  <2>1. Exit(0) \/ Exit(2) \/ (phase' = "open" /\ UNCHANGED <<step, terminal, res, status>>)
    BY <1>4 DEF Start
  <2> QED
    BY <1>1, <1>2, <1>3, <2>1 DEF PlaceOK
<1>5. CASE OpenStep
  <2>1. step' \in 0..9 /\ UNCHANGED <<phase, terminal, res, status>>
    BY <1>1, <1>5 DEF OpenStep, OpenCalls, PlaceOK
  <2> QED
    BY <1>1, <2>1 DEF PlaceOK
<1>6. CASE Opened
  <2>1. PICK p \in {"signals", "oneshot"} : Enter(p) /\ UNCHANGED <<terminal, res>>
    BY <1>6 DEF Opened
  <2> QED
    BY <1>1, <1>2, <2>1, EnterPlace DEF PlaceOK
<1>7. CASE EarlyError \/ OneShotPanics \/ OneShotDone
  BY <1>3, <1>7 DEF EarlyError, OneShotPanics, OneShotDone
<1>8. CASE Register
  BY <1>1, <1>8 DEF Register, PlaceOK
<1>9. CASE Registered
  BY <1>1, <1>2, <1>9, EnterPlace DEF Registered, PlaceOK
<1>10. CASE InitTerminal
  <2>1. step' \in 0..9
    BY <1>1, <1>10 DEF InitTerminal
  <2>2. phase' \in {"init", "hook"} /\ UNCHANGED <<res, status>>
    BY <1>10 DEF InitTerminal
  <2>3. terminal' \in {terminal, [terminal EXCEPT !.raw = TRUE], [terminal EXCEPT !.alt = TRUE]}
    BY <1>10 DEF InitTerminal
  <2> QED
    BY <1>1, <1>2, <2>1, <2>2, <2>3 DEF PlaceOK
<1>11. CASE HookMouse
  BY <1>1, <1>2, <1>11 DEF HookMouse, PlaceOK
<1>12. CASE EnableMouse
  <2>1. terminal' \in Modes /\ Enter("loop") /\ res' = res
    BY <1>1, <1>2, <1>12 DEF EnableMouse, PlaceOK
  <2> QED
    BY <1>1, <1>2, <2>1, EnterPlace DEF PlaceOK
<1>13. ASSUME NEW written \in BOOLEAN, EnableMouseFails(written)
       PROVE  PlaceOK'
  <2>1. terminal' \in Modes /\ Enter("release") /\ res' \in Results
    BY <1>2, <1>13 DEF EnableMouseFails, Results
  <2> QED
    BY <1>1, <1>2, <2>1, EnterPlace
<1>14. CASE LoopStep \/ PressKey
  BY <1>1, <1>14 DEF LoopStep, PressKey, PlaceOK
<1>15. CASE LoopFails \/ LoopPanics \/ LoopReturns
  <2>1. /\ phase' \in {"release", "unwind"} /\ res' \in {"error", "ok", res}
        /\ UNCHANGED <<step, terminal, status>>
    BY <1>15 DEF LoopFails, LoopPanics, LoopReturns, LeaveLoop
  <2> QED
    BY <1>1, <1>2, <2>1 DEF PlaceOK, Results
<1>16. CASE Panics
  BY <1>1, <1>2, <1>16, EnterPlace DEF Panics, PlaceOK
<1>17. CASE Unwind
  <2>1. CASE hooks = <<>>
    BY <1>3, <1>17, <2>1 DEF Unwind
  <2>2. CASE hooks # <<>>
    <3>1. /\ terminal' \in {[terminal EXCEPT !.mouse = FALSE],
                            [terminal EXCEPT !.raw = FALSE, !.alt = FALSE]}
          /\ UNCHANGED <<phase, step, res, status>>
      BY <1>17, <2>2 DEF Unwind
    <3> QED
      BY <1>1, <1>2, <3>1 DEF PlaceOK
  <2> QED
    BY <2>1, <2>2
<1>18. CASE ReleaseMouse
  <2>1. /\ terminal' \in Modes /\ Enter("restore") /\ res' = res
    <3>1. terminal.mouse \in BOOLEAN
      BY <1>1 DEF PlaceOK, Modes
    <3> QED
      BY <1>2, <1>18, <3>1 DEF ReleaseMouse
  <2> QED
    BY <1>1, <1>2, <2>1, EnterPlace DEF PlaceOK
<1>19. CASE Restore
  <2>1. terminal' \in Modes /\ Enter("end") /\ res' = res
    BY <1>2, <1>19 DEF Restore
  <2> QED
    BY <1>1, <1>2, <2>1, EnterPlace DEF PlaceOK
<1>20. CASE End
  <2>1. signum \in 0..31
    BY <1>1, SignalRange DEF FlagOK
  <2>2. ExitStatus(signum) \in 0..255
    BY <2>1 DEF ExitStatus
  <2> QED
    BY <1>3, <1>20, <2>2 DEF End
<1>21. ASSUME NEW k \in DOMAIN Signals, Deliver(k)
       PROVE  PlaceOK'
  <2>1. 128 + Signals[k] \in 0..255
    BY SignalRange
  <2>2. UNCHANGED <<phase, step, terminal, res, status>> \/ Exit(128 + Signals[k])
    BY <1>21 DEF Deliver
  <2> QED
    BY <1>1, <1>3, <2>1, <2>2 DEF PlaceOK
<1>22. CASE UNCHANGED lifeVars
  BY <1>1, <1>22 DEF lifeVars, PlaceOK
<1> QED
  BY <1>4, <1>5, <1>6, <1>7, <1>8, <1>9, <1>10, <1>11, <1>12, <1>13, <1>14, <1>15, <1>16,
     <1>17, <1>18, <1>19, <1>20, <1>21, <1>22 DEF LifeNext, Program

\* Only Register and a signal whose handler is there touch the handlers and the flag.
LEMMA FlagsAlone ==
  [LifeNext]_lifeVars =>
    \/ UNCHANGED <<handled, signum, signal>>
    \/ Register
    \/ \E k \in DOMAIN Signals : k <= handled /\ Deliver(k)
<1> SUFFICES ASSUME [LifeNext]_lifeVars, ~Register,
                    \A k \in DOMAIN Signals : ~(k <= handled /\ Deliver(k))
             PROVE  UNCHANGED <<handled, signum, signal>>
  OBVIOUS
<1> USE DEF vars, Enter, Exit
<1>1. ASSUME NEW args \in ArgLists, Start(args)
      PROVE  UNCHANGED <<handled, signum, signal>>
  BY <1>1 DEF Start
<1>2. CASE OpenStep \/ Opened \/ EarlyError \/ OneShotPanics \/ OneShotDone \/ Registered
  BY <1>2 DEF OpenStep, Opened, EarlyError, OneShotPanics, OneShotDone, Registered
<1>3. CASE \/ InitTerminal \/ HookMouse \/ EnableMouse
           \/ \E written \in BOOLEAN : EnableMouseFails(written)
  BY <1>3 DEF InitTerminal, HookMouse, EnableMouse, EnableMouseFails
<1>4. CASE LoopStep
  BY <1>4 DEF LoopStep, Tick, NoTick, NoRedraw, Poll, Check, Redraw, ReadKey
<1>5. CASE LoopFails \/ LoopPanics \/ LoopReturns
  BY <1>5 DEF LoopFails, LoopPanics, LoopReturns, LeaveLoop
<1>6. CASE Panics \/ Unwind \/ ReleaseMouse \/ Restore \/ End
  BY <1>6 DEF Panics, Unwind, ReleaseMouse, Restore, End
<1>7. CASE PressKey
  BY <1>7 DEF PressKey, Press
<1>8. ASSUME NEW k \in DOMAIN Signals, Deliver(k)
      PROVE  UNCHANGED <<handled, signum, signal>>
  BY <1>8 DEF Deliver
<1>9. CASE UNCHANGED lifeVars
  BY <1>9 DEF lifeVars
<1> QED
  BY <1>1, <1>2, <1>3, <1>4, <1>5, <1>6, <1>7, <1>8, <1>9 DEF LifeNext, Program

\* The flag the loop reads is up exactly when a signal number is stored.
LEMMA StepFlag == LifeInv /\ [LifeNext]_lifeVars => FlagOK'
<1> SUFFICES ASSUME LifeInv, [LifeNext]_lifeVars
             PROVE  FlagOK'
  OBVIOUS
<1>1. FlagOK
  BY LifeTypeParts DEF LifeInv
<1>2. CASE UNCHANGED <<handled, signum, signal>>
  BY <1>1, <1>2 DEF FlagOK
<1>3. CASE Register
  BY <1>1, <1>3, SignalCount DEF FlagOK, Register, vars
<1>4. ASSUME NEW k \in DOMAIN Signals, k <= handled, Deliver(k)
      PROVE  FlagOK'
  <2>1. signum' = Signals[k] /\ signal' = TRUE /\ handled' = handled
    BY <1>4 DEF Deliver
  <2>2. Signals[k] \in ToSet(Signals) /\ Signals[k] # 0
    BY SignalRange DEF ToSet
  <2> QED
    BY <1>1, <2>1, <2>2 DEF FlagOK
<1> QED
  BY <1>2, <1>3, <1>4, FlagsAlone

\* A signal without a handler comes before all of them are there.
LEMMA Unhandled ==
  ASSUME NEW k \in DOMAIN Signals, ~(k <= handled)
  PROVE  handled # Len(Signals)
  BY SignalCount

\* Every step of a run keeps ready what undoes the terminal modes that are on.
LEMMA StepTerminal == LifeInv /\ [LifeNext]_lifeVars => TerminalInv'
<1> SUFFICES ASSUME LifeInv, [LifeNext]_lifeVars
             PROVE  TerminalInv'
  OBVIOUS
<1>1. LifeTypeOK /\ TerminalInv
  BY DEF LifeInv
<1> USE <1>1 DEF LifeTypeOK, TerminalInv, Early, Hooked, Cooked
<1>2. ASSUME NEW code, Exit(code), terminal = Cooked
      PROVE  TerminalInv'
  BY <1>2 DEF Exit
<1>3. ASSUME NEW args \in ArgLists, Start(args)
      PROVE  TerminalInv'
  BY <1>3, <1>2 DEF Start
<1>4. CASE OpenStep \/ Opened
  BY <1>4 DEF OpenStep, Opened, Enter
<1>5. CASE EarlyError \/ OneShotPanics \/ OneShotDone
  BY <1>2, <1>5 DEF EarlyError, OneShotPanics, OneShotDone
<1>6. CASE Register \/ Registered
  BY <1>6 DEF Register, Registered, Enter
<1>7. CASE InitTerminal
  <2> USE <1>7 DEF InitTerminal
  <2>1. step \in {0, 1, 2} /\ terminal \in Modes
    BY DEF Modes
  <2>2. CASE step = 0
    <3>1. phase' = "init" /\ step' = 1 /\ hooks' = <<"restore">> /\ UNCHANGED <<terminal, handled>>
      BY <2>2, HookPut
    <3> QED
      BY <2>2, <3>1
  <2>3. CASE step = 1
    <3>1. /\ phase' = "init" /\ step' = 2 /\ hooks' = <<"restore">> /\ handled' = handled
          /\ terminal' = [terminal EXCEPT !.raw = TRUE]
      BY <2>3
    <3>2. ~terminal'.alt /\ ~terminal'.mouse
      BY <2>1, <3>1 DEF Modes
    <3> QED
      BY <3>1, <3>2
  <2>4. CASE step = 2
    <3>1. /\ phase' = "hook" /\ hooks' = <<"restore">> /\ handled' = handled
          /\ terminal' = [terminal EXCEPT !.alt = TRUE]
      BY <2>4
    <3>2. ~terminal'.mouse
      BY <2>1, <3>1 DEF Modes
    <3> QED
      BY <3>1, <3>2
  <2> QED
    BY <2>1, <2>2, <2>3, <2>4
<1>8. CASE HookMouse
  BY <1>8, HookPut DEF HookMouse
<1>9. CASE EnableMouse \/ \E written \in BOOLEAN : EnableMouseFails(written)
  BY <1>9 DEF EnableMouse, EnableMouseFails, Enter
<1>10. CASE LoopStep \/ PressKey
  BY <1>10 DEF LoopStep, PressKey
<1>11. CASE LoopFails \/ LoopPanics \/ LoopReturns
  BY <1>11 DEF LoopFails, LoopPanics, LoopReturns, LeaveLoop
<1>12. CASE Panics
  BY <1>12 DEF Panics, Enter
<1>13. CASE Unwind
  <2>1. phase = "unwind" /\ terminal \in Modes
    BY <1>13 DEF Unwind, Modes
  <2>2. CASE hooks = <<>>
    BY <1>2, <1>13, <2>1, <2>2 DEF Unwind
  <2>3. CASE hooks = <<"restore">> /\ ~terminal.mouse
    <3>1. hooks # <<>>
      BY <2>3
    <3>2. /\ terminal' = [terminal EXCEPT !.raw = FALSE, !.alt = FALSE]
          /\ hooks' = <<>> /\ UNCHANGED <<phase, handled>>
      BY <1>13, <2>3, <3>1, HookStack DEF Unwind
    <3>3. terminal' = Cooked
      BY <2>1, <2>3, <3>2 DEF Modes
    <3> QED
      BY <2>1, <3>2, <3>3
  <2>4. CASE hooks = <<"restore", "mouse">>
    <3>1. hooks # <<>>
      BY <2>4
    <3>2. /\ terminal' = [terminal EXCEPT !.mouse = FALSE]
          /\ hooks' = <<"restore">> /\ UNCHANGED <<phase, handled>>
      BY <1>13, <2>4, <3>1, HookStack DEF Unwind
    <3>3. ~terminal'.mouse
      BY <2>1, <3>2 DEF Modes
    <3> QED
      BY <2>1, <3>2, <3>3
  <2> QED
    BY <2>1, <2>2, <2>3, <2>4
<1>14. CASE ReleaseMouse \/ Restore
  BY <1>14 DEF ReleaseMouse, Restore, Enter
<1>15. CASE End
  BY <1>2, <1>15 DEF End
<1>16. ASSUME NEW k \in DOMAIN Signals, Deliver(k)
       PROVE  TerminalInv'
  <2>1. CASE k <= handled
    BY <1>16, <2>1 DEF Deliver
  <2>2. CASE ~(k <= handled)
    <3>1. phase # "exited" /\ Exit(128 + Signals[k])
      BY <1>16, <2>2 DEF Deliver
    <3>2. handled # Len(Signals)
      BY <2>2, Unhandled
    <3> QED
      BY <1>2, <3>1, <3>2
  <2> QED
    BY <2>1, <2>2
<1>17. CASE UNCHANGED lifeVars
  BY <1>17 DEF lifeVars
<1> QED
  BY <1>3, <1>4, <1>5, <1>6, <1>7, <1>8, <1>9, <1>10, <1>11, <1>12, <1>13, <1>14, <1>15,
     <1>16, <1>17 DEF LifeNext, Program

\* Every step of a run keeps why it ends: only q or a signal ends the loop without
\* an error, and only that ends the TUI with status 0.
LEMMA StepQuit == LifeInv /\ [LifeNext]_lifeVars => QuitInv'
<1> SUFFICES ASSUME LifeInv, [LifeNext]_lifeVars
             PROVE  QuitInv'
  OBVIOUS
<1>1. IInv /\ FlagOK /\ QuitInv
  BY LifeTypeParts DEF LifeInv
<1> USE <1>1 DEF QuitInv, ZeroMeansQuit
<1>2. ASSUME NEW code, code # 0, Exit(code)
      PROVE  QuitInv'
  BY <1>2 DEF Exit, vars
<1>3. ASSUME NEW args \in ArgLists, Start(args)
      PROVE  QuitInv'
  <2>1. phase = "args" /\ handled = 0
    BY <1>3 DEF Start
  <2>2. Exit(0) \/ Exit(2) \/ (phase' = "open" /\ UNCHANGED <<vars, handled>>)
    BY <1>3 DEF Start
  <2> QED
    BY <2>1, <2>2 DEF Exit, vars
<1>4. CASE OpenStep
  BY <1>4 DEF OpenStep, vars
<1>5. CASE Opened
  BY <1>5 DEF Opened, Enter, vars
<1>6. CASE EarlyError \/ OneShotPanics
  BY <1>2, <1>6 DEF EarlyError, OneShotPanics
<1>7. CASE OneShotDone
  BY <1>7 DEF OneShotDone, Exit, vars
<1>8. CASE Register \/ Registered
  BY <1>8 DEF Register, Registered, Enter, vars
<1>9. CASE InitTerminal \/ HookMouse
  <2>1. phase' \in {"init", "hook", "mouse"} /\ UNCHANGED <<vars, handled>>
    BY <1>9 DEF InitTerminal, HookMouse
  <2> QED
    BY <2>1 DEF vars
<1>10. CASE EnableMouse \/ \E written \in BOOLEAN : EnableMouseFails(written)
  BY <1>10 DEF EnableMouse, EnableMouseFails, Enter, vars
<1>11. CASE LoopStep
  <2>1. phase' = "loop" /\ UNCHANGED <<handled, opts>>
    BY <1>11 DEF LoopStep
  <2>2. pc' = "done" => app'.shouldQuit \/ signal'
    BY <1>11 DEF LoopStep, Tick, NoTick, NoRedraw, Poll, Check, Redraw, ReadKey
  <2> QED
    BY <2>1, <2>2
<1>12. CASE LoopFails \/ LoopPanics \/ LoopReturns
  <2>1. PICK p \in {"release", "unwind"} : LeaveLoop(p)
    BY <1>12 DEF LoopFails, LoopPanics, LoopReturns
  <2>2. app'.shouldQuit = app.shouldQuit /\ pc' = "top" /\ UNCHANGED <<signal, handled>> /\ phase' = p
    BY <2>1, LeaveLoopIInv DEF LeaveLoop
  <2>3. phase' = "unwind" \/ res' = "error" \/ (res' = "ok" /\ pc = "done")
    BY <1>12 DEF LoopFails, LoopPanics, LoopReturns, LeaveLoop
  <2> QED
    BY <2>2, <2>3
<1>13. CASE Panics
  BY <1>13 DEF Panics, Enter, vars
<1>14. CASE Unwind
  <2>1. Exit(101) \/ UNCHANGED <<vars, phase, opts, handled, res, status>>
    BY <1>14 DEF Unwind
  <2> QED
    BY <1>2, <2>1 DEF vars
<1>15. CASE ReleaseMouse \/ Restore
  <2>1. /\ phase \in {"release", "restore"} /\ phase' \in {"restore", "end"}
        /\ UNCHANGED <<vars, res, handled>>
    BY <1>15 DEF ReleaseMouse, Restore, Enter
  <2> QED
    BY <2>1 DEF vars
<1>16. CASE End
  <2>1. (res = "error" /\ Exit(1)) \/ (res = "ok" /\ Exit(ExitStatus(signum)))
    BY <1>16 DEF End
  <2>2. signum # 0 => ExitStatus(signum) # 0
    <3>1. signum \in 0..31
      BY SignalRange DEF FlagOK
    <3> QED
      BY <3>1 DEF ExitStatus
  <2>3. CASE res = "error" \/ signum # 0
    BY <1>2, <2>1, <2>2, <2>3
  <2>4. CASE res = "ok" /\ signum = 0
    <3>1. app.shouldQuit
      BY <1>16, <2>4 DEF End, FlagOK
    <3> QED
      BY <1>16, <2>1, <2>4, <3>1 DEF End, Exit, vars
  <2> QED
    BY <2>1, <2>3, <2>4
<1>17. CASE PressKey
  BY <1>17 DEF PressKey, Press
<1>18. ASSUME NEW k \in DOMAIN Signals, Deliver(k)
       PROVE  QuitInv'
  <2>1. CASE k <= handled
    <3>1. /\ phase # "exited" /\ signal' = TRUE
          /\ UNCHANGED <<app, pc, phase, opts, handled, res, status>>
      BY <1>18, <2>1 DEF Deliver
    <3> QED
      BY <3>1
  <2>2. CASE ~(k <= handled)
    <3>1. 128 + Signals[k] # 0 /\ Exit(128 + Signals[k])
      BY <1>18, <2>2, SignalRange DEF Deliver
    <3> QED
      BY <1>2, <3>1
  <2> QED
    BY <2>1, <2>2
<1>19. CASE UNCHANGED lifeVars
  BY <1>19 DEF lifeVars, vars
<1> QED
  BY <1>3, <1>4, <1>5, <1>6, <1>7, <1>8, <1>9, <1>10, <1>11, <1>12, <1>13, <1>14, <1>15,
     <1>16, <1>17, <1>18, <1>19 DEF LifeNext, Program

----------------------------------------------------------------------------
(* The theorems.                                                           *)

\* The invariant holds throughout every run.
LEMMA LifeInvAlways == LifeSpec => []LifeInv
<1>1. LifeInv /\ [LifeNext]_lifeVars => LifeInv'
  <2> SUFFICES ASSUME LifeInv, [LifeNext]_lifeVars
               PROVE  LifeInv'
    OBVIOUS
  <2>1. IInv' /\ PlaceOK' /\ FlagOK' /\ TerminalInv' /\ QuitInv'
    BY LifeIInv, StepPlace, StepFlag, StepTerminal, StepQuit
  <2>2. LifeTypeOK'
    BY <2>1, LifeTypeParts DEF IInv
  <2> QED
    BY <2>1, <2>2 DEF LifeInv
<1> QED
  BY <1>1, InitLifeInv, PTL DEF LifeSpec

\* The states of the UI and of the run keep their types, the exit status among them:
\* whatever the signals, 128 + sig stays below 256 (run_tui).
THEOREM LifeTypeCorrect == LifeSpec => []LifeTypeOK
<1> QED
  BY LifeInvAlways, PTL DEF LifeInv

\* The cursor stays anchored in the composed program as well, where signals, errors
\* and panics interrupt the loop (src/app.rs:55-57).
THEOREM LifeCursorAnchored == LifeSpec => []CursorIsAnchored
<1> QED
  BY LifeInvAlways, PTL DEF LifeInv, IInv

\* On every way out of the program the terminal is as it was found (run_tui's
\* closure, its panic hook over ratatui's, and the signal flag), for any number of
\* signals and any arguments.
THEOREM TerminalAlwaysRestored == LifeSpec => []TerminalIsRestored
<1>1. LifeInv => TerminalIsRestored
  BY DEF LifeInv, TerminalInv, TerminalIsRestored
<1> QED
  BY <1>1, LifeInvAlways, PTL

\* Status 0 from a TUI that got as far as its handlers means that the user quit it.
THEOREM ZeroAlwaysMeansQuit == LifeSpec => []ZeroMeansQuit
<1>1. LifeInv => ZeroMeansQuit
  BY DEF LifeInv, QuitInv
<1> QED
  BY <1>1, LifeInvAlways, PTL
----------------------------------------------------------------------------
(* The action properties of the loop, in the run of the whole program.     *)

\* Before the loop.
Before == Early \cup {"init", "hook", "mouse"}

\* A quit is read in the loop only, and the loop then goes to its end.
BurstInv ==
  /\ phase = "loop" => QuitSeen
  /\ phase # "loop" => pc = "top"
  /\ phase \in Before => ~app.shouldQuit

\* The state of the UI moves in the loop, and when the loop is left.
LEMMA AppMoves ==
  ASSUME LifeInv, [LifeNext]_lifeVars
  PROVE  \/ /\ UNCHANGED <<app, shown, table, pc>>
            /\ phase = "loop" => phase' = "loop"
            /\ phase' = "loop" => phase \in {"mouse", "loop"}
            /\ phase' \in Before => phase \in Before
         \/ phase = "loop" /\ phase' = "loop" /\ Loop
         \/ /\ Calling \/ pc = "done"
            /\ \E p \in {"release", "unwind"} : LeaveLoop(p)
<1> DEFINE Still == /\ UNCHANGED <<app, shown, table, pc>>
                    /\ phase = "loop" => phase' = "loop"
                    /\ phase' = "loop" => phase \in {"mouse", "loop"}
                    /\ phase' \in Before => phase \in Before
<1> USE DEF vars, Enter, Exit, Before, Early
<1>1. ASSUME NEW args \in ArgLists, Start(args)
      PROVE  Still
  BY <1>1 DEF Start
<1>2. CASE OpenStep \/ Opened \/ EarlyError \/ OneShotPanics \/ OneShotDone \/ Registered \/ Register
  BY <1>2 DEF OpenStep, Opened, EarlyError, OneShotPanics, OneShotDone, Registered, Register
<1>3. CASE \/ InitTerminal \/ HookMouse \/ EnableMouse
           \/ \E written \in BOOLEAN : EnableMouseFails(written)
  BY <1>3 DEF InitTerminal, HookMouse, EnableMouse, EnableMouseFails
<1>4. CASE LoopStep
  BY <1>4 DEF LoopStep, Loop
<1>5. CASE LoopFails \/ LoopPanics \/ LoopReturns
  BY <1>5 DEF LoopFails, LoopPanics, LoopReturns
<1>6. CASE Panics \/ Unwind \/ ReleaseMouse \/ Restore \/ End
  BY <1>6 DEF Panics, Unwind, ReleaseMouse, Restore, End
<1>7. CASE PressKey
  BY <1>7 DEF PressKey, Press
<1>8. ASSUME NEW k \in DOMAIN Signals, Deliver(k)
      PROVE  Still
  <2>1. CASE k <= handled
    BY <1>8, <2>1 DEF Deliver
  <2>2. CASE ~(k <= handled)
    <3>1. phase # "loop"
      BY <2>2, Unhandled DEF LifeInv, TerminalInv
    <3>2. Exit(128 + Signals[k])
      BY <1>8, <2>2 DEF Deliver
    <3> QED
      BY <3>1, <3>2
  <2> QED
    BY <2>1, <2>2
<1>9. CASE UNCHANGED lifeVars
  BY <1>9 DEF lifeVars
<1> QED
  BY <1>1, <1>2, <1>3, <1>4, <1>5, <1>6, <1>7, <1>8, <1>9 DEF LifeNext, Program

\* No quit is left behind: the loop ends with the quit it reads.
LEMMA StepBurst == LifeInv /\ BurstInv /\ [LifeNext]_lifeVars => BurstInv'
<1> SUFFICES ASSUME LifeInv, BurstInv, [LifeNext]_lifeVars
             PROVE  BurstInv'
  OBVIOUS
<1> USE DEF BurstInv
<1>1. CASE /\ UNCHANGED <<app, shown, table, pc>>
           /\ phase = "loop" => phase' = "loop"
           /\ phase' = "loop" => phase \in {"mouse", "loop"}
           /\ phase' \in Before => phase \in Before
  BY <1>1 DEF QuitSeen, Before
<1>2. CASE phase = "loop" /\ phase' = "loop" /\ Loop
  BY <1>2, StepQuitSeen DEF LifeInv, Before, Early
<1>3. ASSUME NEW p \in {"release", "unwind"}, LeaveLoop(p)
      PROVE  BurstInv'
  BY <1>3 DEF LeaveLoop, Before, Early
<1> QED
  BY <1>1, <1>2, <1>3, AppMoves

\* Both invariants hold throughout every run.
LEMMA BurstInvAlways == LifeSpec => [](LifeInv /\ BurstInv)
<1>1. LifeInit => BurstInv
  BY DEF LifeInit, Init, FirstApp, BurstInv, QuitSeen
<1> QED
  BY <1>1, LifeInvAlways, StepBurst, PTL DEF LifeSpec

\* The cursor leaves a process that stays on screen only for a navigation key, in
\* whatever way ticks, sorts, filters and resizes move its row, and however the
\* loop ends (App::sync_selection, App::handle).
THEOREM CursorAlwaysFollows == LifeSpec => CursorFollowsProcess
<1>1. ASSUME LifeInv, BurstInv, [LifeNext]_lifeVars,
             app.anchor \in ToSet(shown'), app'.anchor # app.anchor
      PROVE  app.mode = "Normal" /\ \E key \in Navigation : ReadKey(key)
  <2>1. ~UNCHANGED <<app, shown, table, pc>>
    BY <1>1
  <2>2. \A p : ~LeaveLoop(p)
    BY <1>1 DEF LeaveLoop, ToSet
  <2>3. Loop
    BY <1>1, <2>1, <2>2, AppMoves
  <2> QED
    BY <1>1, <2>3, StepFollows DEF LifeInv
<1> QED
  BY <1>1, BurstInvAlways, PTL DEF LifeSpec, CursorFollowsProcess

\* What is typed into a filter never quits, and an Esc backs out of one level and
\* quits from the outermost only, for bursts of any length (src/app.rs:13,
\* App::handle, key_to_cmd).
THEOREM QuitAlwaysMeant == LifeSpec => QuitIsMeant
<1>1. ASSUME LifeInv, BurstInv
      PROVE  /\ app.mode = "Filter" /\ app'.shouldQuit => \A key \in Keys \ {CtrlC} : ~ReadKey(key)
             /\ ReadKey("esc") /\ ~app.shouldQuit =>
                  IF Levels(app) = 0 THEN app'.shouldQuit
                                     ELSE ~app'.shouldQuit /\ Levels(app') < Levels(app)
  <2>1. CASE phase = "loop"
    BY <1>1, <2>1, KeysQuit DEF LifeInv, BurstInv
  <2>2. CASE phase # "loop"
    BY <1>1, <2>2 DEF BurstInv, ReadKey
  <2> QED
    BY <2>1, <2>2
<1> QED
  BY <1>1, BurstInvAlways, PTL DEF LifeSpec, QuitIsMeant

\* Behind a quit the loop neither reads a key nor ticks, wherever in a burst the
\* quit was and however the loop ends (the break of run_loop's burst).
THEOREM NothingEverAfterQuit == LifeSpec => NothingAfterQuit
<1>1. ASSUME LifeInv, BurstInv, [LifeNext]_lifeVars, app.shouldQuit, pc # "done"
      PROVE  app' = app /\ table' = table
  <2>1. ASSUME NEW p \in {"release", "unwind"}, LeaveLoop(p), Calling \/ pc = "done"
        PROVE  FALSE
    BY <1>1, <2>1 DEF LeaveLoop, BurstInv, QuitSeen, Calling
  <2>2. CASE phase = "loop" /\ Loop
    BY <1>1, <2>2, StepQuitSeen DEF LifeInv, BurstInv
  <2> QED
    BY <1>1, <2>1, <2>2, AppMoves
<1> QED
  BY <1>1, BurstInvAlways, PTL DEF LifeSpec, NothingAfterQuit
=============================================================================
