-------------------------------- MODULE App ---------------------------------
(***************************************************************************)
(* The UI state of src/app.rs, driven by the input half of run_loop in     *)
(* src/main.rs: a pass may redraw, which rebuilds the list of pids on      *)
(* screen and re-aims the cursor; it then waits for a key and handles the  *)
(* whole burst behind it against that list; it ends by looking at the quit *)
(* flag and at the signal.                                                 *)
(*                                                                         *)
(* Abstractions.  A filter is the length of its text, counted up to MaxFilter: *)
(* which rows match it, and how the sort orders them, is left open at every *)
(* redraw.  A key stands for all the keys of its command, and which key an *)
(* event brings is settled when it is read.                                *)
(***************************************************************************)
EXTENDS Integers, FiniteSets, Sequences, SequencesExt

CONSTANTS
  Pids,        \* processes that may have a row
  NoPid,       \* None, where the code has an Option<u32>
  SortKeys,    \* the columns in use, by SortKey
  MaxFilter,   \* bound: the length of the filter text
  Pages,       \* page jumps a terminal height may give
  MaxKeys      \* bound: events waiting in the terminal

NumericKeys == {"Rate", "Total", "Conns"}

ASSUME AppAssumption ==
  /\ NoPid \notin Pids
  /\ "Rate" \in SortKeys
  /\ MaxFilter \in Nat /\ MaxKeys \in Nat \ {0}
  /\ Pages \subseteq Nat \ {0}

VARIABLES
  app,          \* App
  shown,        \* shown_pids: the rows on screen, top to bottom
  table,        \* the processes with a row in the Engine
  needsRedraw,
  pc,           \* where run_loop is
  events,       \* how many events wait in the terminal
  signal        \* a signal has arrived

vars == <<app, shown, table, needsRedraw, pc, events, signal>>

\* App::default
FirstApp ==
  [sort |-> "Rate", sortDesc |-> TRUE, filter |-> 0, mode |-> "Normal",
   selected |-> 0, expanded |-> NoPid, paused |-> FALSE, showHelp |-> FALSE,
   shouldQuit |-> FALSE, page |-> 10, anchor |-> NoPid]

----------------------------------------------------------------------------
(* Commands and the keys that give them.                                   *)

Sort(k) == [op |-> "Sort", key |-> k]
Plain(op) == [op |-> op, key |-> ""]

CtrlC == "ctrl-c"
SortKeyOf == [r |-> "Rate", t |-> "Total", n |-> "Name", c |-> "Conns", i |-> "Pid"]
NormalOps == [q |-> "Quit", esc |-> "Escape", up |-> "Up", down |-> "Down",
              pgup |-> "PageUp", pgdn |-> "PageDown", home |-> "Home", end |-> "End",
              enter |-> "ToggleExpand", slash |-> "FilterStart", p |-> "Pause",
              h |-> "Help"]
FilterOps == [backspace |-> "FilterBackspace", enter |-> "FilterAccept",
              esc |-> "FilterCancel"]
Typed     == {"q", "p", "h", "slash"} \cup DOMAIN SortKeyOf
Wheel     == [wheelup |-> "Up", wheeldown |-> "Down"]
SortCmds  == {k \in DOMAIN SortKeyOf : SortKeyOf[k] \in SortKeys}
Keys      == DOMAIN NormalOps \cup {"backspace", CtrlC} \cup DOMAIN Wheel \cup SortCmds

Ignored == Plain("none")

\* Mutant: the mode is not looked at before the keys of normal mode.
KeyToCmdModeless(key, mode) ==
  CASE key = CtrlC                                   -> Plain("Quit")
    [] key \in DOMAIN Wheel                          -> Plain(Wheel[key])
    [] key \in DOMAIN NormalOps                      -> Plain(NormalOps[key])
    [] mode = "Normal" /\ key \in DOMAIN SortKeyOf   -> Sort(SortKeyOf[key])
    [] OTHER                                         -> Ignored

\* key_to_cmd, and the two mouse events run_loop turns into commands.
KeyToCmd(key, mode) ==
  CASE key = CtrlC                                   -> Plain("Quit")
    [] key \in DOMAIN Wheel                          -> Plain(Wheel[key])
    [] mode = "Filter" /\ key \in DOMAIN FilterOps   -> Plain(FilterOps[key])
    [] mode = "Filter" /\ key \in Typed              -> Plain("FilterChar")
    [] mode = "Normal" /\ key \in DOMAIN NormalOps   -> Plain(NormalOps[key])
    [] mode = "Normal" /\ key \in DOMAIN SortKeyOf   -> Sort(SortKeyOf[key])
    [] OTHER                                         -> Ignored

----------------------------------------------------------------------------
(* App.                                                                    *)

LesserOf(a, b)  == IF a <= b THEN a ELSE b
GreaterOf(a, b) == IF a >= b THEN a ELSE b

\* pids.get(i), i counted from 0
PidAt(pids, i) == IF i + 1 \in DOMAIN pids THEN pids[i + 1] ELSE NoPid

\* Mutant: the empty list is no exception.
ClampedUnderflows(i, len) == LesserOf(i, len - 1)

Clamped(i, len) == IF len = 0 THEN 0 ELSE LesserOf(i, len - 1)

\* Mutant: the cursor is taken to be in range.
AnchoredUnclamped(a, pids) == [a EXCEPT !.anchor = PidAt(pids, a.selected)]

\* clamp_selection, then the cursor is anchored to the row it is on.
Anchored(a, pids) ==
  LET i == Clamped(a.selected, Len(pids))
  IN  [a EXCEPT !.selected = i, !.anchor = PidAt(pids, i)]

\* Mutant: the cursor stays on its row number.
SyncSelectionByIndex(a, pids) == Anchored(a, pids)

\* The cursor follows its process into a rebuilt list, or stays on its row number.
SyncSelection(a, pids) ==
  IF a.anchor \in ToSet(pids)
  THEN Anchored([a EXCEPT !.selected = (CHOOSE i \in DOMAIN pids : pids[i] = a.anchor) - 1], pids)
  ELSE Anchored(a, pids)

ApplySort(a, k) ==
  IF a.sort = k THEN [a EXCEPT !.sortDesc = ~@]
                ELSE [a EXCEPT !.sort = k, !.sortDesc = (k \in NumericKeys)]

\* The index a navigation command moves the cursor to.
Navigate(a, op, len) ==
  CASE op = "Up"       -> GreaterOf(0, a.selected - 1)
    [] op = "Down"     -> IF a.selected + 1 < len THEN a.selected + 1 ELSE a.selected
    [] op = "PageUp"   -> GreaterOf(0, a.selected - a.page)
    [] op = "PageDown" -> IF len > 0 THEN LesserOf(a.selected + a.page, len - 1) ELSE a.selected
    [] op = "Home"     -> 0
    [] op = "End"      -> GreaterOf(0, len - 1)
    [] OTHER           -> a.selected

\* Mutant: an applied filter does not count.
BackOutOfHelp(a, op) ==
  IF a.showHelp THEN [a EXCEPT !.showHelp = FALSE] ELSE [a EXCEPT !.shouldQuit = TRUE]

\* Quit and Escape close the help first; Escape also clears a filter first.
BackOut(a, op) ==
  CASE a.showHelp                        -> [a EXCEPT !.showHelp = FALSE]
    [] ~a.showHelp /\ op = "Escape" /\ a.filter > 0 -> [a EXCEPT !.filter = 0]
    [] OTHER                             -> [a EXCEPT !.shouldQuit = TRUE]

ToggleExpand(a, pids) ==
  LET p == PidAt(pids, a.selected)
  IN  [a EXCEPT !.expanded = IF @ = p THEN NoPid ELSE p]

\* The arms of handle in filter mode.
EditFilter(a, cmd) ==
  CASE cmd.op = "FilterChar"      -> [a EXCEPT !.filter = LesserOf(MaxFilter, @ + 1)]
    [] cmd.op = "FilterBackspace" -> [a EXCEPT !.filter = GreaterOf(0, @ - 1)]
    [] cmd.op = "FilterAccept"    -> [a EXCEPT !.mode = "Normal"]
    [] cmd.op \in {"FilterCancel", "Escape"} -> [a EXCEPT !.mode = "Normal", !.filter = 0]
    [] cmd.op = "Quit"            -> [a EXCEPT !.shouldQuit = TRUE]
    [] OTHER                      -> a

\* The arms of handle in normal mode.
Command(a, cmd, pids) ==
  CASE cmd.op \in {"Quit", "Escape"} -> BackOut(a, cmd.op)
    [] cmd.op = "Sort"               -> ApplySort(a, cmd.key)
    [] cmd.op = "ToggleExpand"       -> ToggleExpand(a, pids)
    [] cmd.op = "Pause"              -> [a EXCEPT !.paused = ~@]
    [] cmd.op = "Help"               -> [a EXCEPT !.showHelp = ~@]
    [] cmd.op = "FilterStart"        -> [a EXCEPT !.mode = "Filter"]
    [] OTHER                         -> [a EXCEPT !.selected = Navigate(a, cmd.op, Len(pids))]

Handle(a, cmd, pids) ==
  IF a.mode = "Filter" THEN SyncSelection(EditFilter(a, cmd), pids)
                       ELSE Anchored(Command(a, cmd, pids), pids)

----------------------------------------------------------------------------
(* The loop.                                                               *)

Init ==
  /\ app = FirstApp
  /\ shown = <<>> /\ table = {} /\ needsRedraw = TRUE
  /\ pc = "top" /\ events = 0 /\ signal = FALSE

\* A tick rebuilds the table; it happens once per interval, and never in a pause.
Tick ==
  /\ pc = "top" /\ ~app.paused
  /\ table' \in SUBSET Pids
  /\ needsRedraw' = TRUE
  /\ pc' = "draw"
  /\ UNCHANGED <<app, shown, events, signal>>

NoTick ==
  /\ pc = "top"
  /\ pc' = "draw"
  /\ UNCHANGED <<app, shown, table, needsRedraw, events, signal>>

\* What filter and sort may make of the table.
Lists(S) == {l \in UNION {[1..n -> S] : n \in 0..Cardinality(S)} : IsInjective(l)}

Redraw(list, page) ==
  /\ pc = "draw" /\ needsRedraw
  /\ list \in Lists(table)
  /\ app.filter = 0 => ToSet(list) = table
  /\ shown' = list
  /\ app' = [SyncSelection(app, list) EXCEPT !.page = page]
  /\ needsRedraw' = FALSE
  /\ pc' = "wait"
  /\ UNCHANGED <<table, events, signal>>

NoRedraw ==
  /\ pc = "draw" /\ ~needsRedraw
  /\ pc' = "wait"
  /\ UNCHANGED <<app, shown, table, needsRedraw, events, signal>>

\* event::poll with its timeout: some event is there, or the time runs out.
Poll ==
  /\ pc = "wait"
  /\ pc' = IF events > 0 THEN "burst" ELSE "check"
  /\ UNCHANGED <<app, shown, table, needsRedraw, events, signal>>

Acts(key, mode) == KeyToCmd(key, mode) # Ignored

\* Mutant: the burst is read to its end.
ReadKeyPastQuit(key) ==
  /\ pc = "burst" /\ events > 0
  /\ events' = events - 1
  /\ app' = IF Acts(key, app.mode) THEN Handle(app, KeyToCmd(key, app.mode), shown) ELSE app
  /\ needsRedraw' = TRUE
  /\ pc' = IF events' = 0 THEN "check" ELSE "burst"
  /\ UNCHANGED <<shown, table, signal>>

\* One event of the burst; the burst ends with the queue, or with a quit.
ReadKey(key) ==
  /\ pc = "burst" /\ events > 0
  /\ events' = events - 1
  /\ app' = IF Acts(key, app.mode) THEN Handle(app, KeyToCmd(key, app.mode), shown) ELSE app
  /\ needsRedraw' = TRUE
  /\ pc' = IF app'.shouldQuit \/ events' = 0 THEN "check" ELSE "burst"
  /\ UNCHANGED <<shown, table, signal>>

\* Mutant: only the flag is looked at.
CheckFlagOnly ==
  /\ pc = "check"
  /\ pc' = IF app.shouldQuit THEN "done" ELSE "top"
  /\ UNCHANGED <<app, shown, table, needsRedraw, events, signal>>

Check ==
  /\ pc = "check"
  /\ pc' = IF app.shouldQuit \/ signal THEN "done" ELSE "top"
  /\ UNCHANGED <<app, shown, table, needsRedraw, events, signal>>

\* The world outside (external): the user and whoever sends a signal.
Press ==
  /\ events < MaxKeys
  /\ events' = events + 1
  /\ UNCHANGED <<app, shown, table, needsRedraw, pc, signal>>

Raise ==
  /\ ~signal
  /\ signal' = TRUE
  /\ UNCHANGED <<app, shown, table, needsRedraw, pc, events>>

Loop == \/ Tick \/ NoTick \/ NoRedraw \/ Poll \/ Check
        \/ \E list \in Lists(table), page \in Pages : Redraw(list, page)
        \/ \E key \in Keys : ReadKey(key)

Next == Loop \/ Press \/ Raise

Spec == Init /\ [][Next]_vars

----------------------------------------------------------------------------
(* Properties.                                                             *)

\* The UI state holds what its types say.
TypeOK ==
  /\ app \in [sort : SortKeys, sortDesc : BOOLEAN, filter : 0..MaxFilter,
              mode : {"Normal", "Filter"}, selected : Nat, expanded : Pids \cup {NoPid},
              paused : BOOLEAN, showHelp : BOOLEAN, shouldQuit : BOOLEAN,
              page : Pages \cup {10}, anchor : Pids \cup {NoPid}]
  /\ shown \in Seq(Pids) /\ table \subseteq Pids /\ needsRedraw \in BOOLEAN
  /\ pc \in {"top", "draw", "wait", "burst", "check", "done"}
  /\ events \in 0..MaxKeys /\ signal \in BOOLEAN

\* The cursor is on a row of the screen, and the anchor is the process of that
\* row: what Enter expands, and what a rebuild follows, is what is highlighted.
CursorIsAnchored ==
  /\ app.selected < Len(shown) \/ (shown = <<>> /\ app.selected = 0)
  /\ app.anchor = PidAt(shown, app.selected)

\* "The selection follows the process, not the row index" (src/app.rs:55-57): as
\* long as its process stays on screen, the cursor leaves it only for a
\* navigation command, whatever ticks, sorts, filters and resizes do to the rows.
Navigation == {"up", "down", "pgup", "pgdn", "home", "end", "wheelup", "wheeldown"}
CursorFollowsProcess ==
  [][ app.anchor \in ToSet(shown') /\ app'.anchor # app.anchor =>
        app.mode = "Normal" /\ \E key \in Navigation : ReadKey(key) ]_vars

\* How many things there are for an Esc to back out of.
Levels(a) == Cardinality({l \in {"typing", "help", "filter"} :
                \/ l = "typing" /\ a.mode = "Filter"
                \/ l = "help"   /\ a.showHelp
                \/ l = "filter" /\ a.filter > 0})

\* Nothing typed into a filter quits, not even a q in the same burst as the slash
\* before it; and every Esc backs out one level, of the filter being typed, the
\* help and the filter applied, and quits only from the outermost (src/app.rs:13).
QuitIsMeant ==
  [][ /\ app.mode = "Filter" /\ app'.shouldQuit => \A key \in Keys \ {CtrlC} : ~ReadKey(key)
      /\ ReadKey("esc") /\ ~app.shouldQuit =>
           IF Levels(app) = 0 THEN app'.shouldQuit
                              ELSE ~app'.shouldQuit /\ Levels(app') < Levels(app) ]_vars

\* Once a quit is read nothing behind it is: not the rest of its burst, nor a tick.
NothingAfterQuit ==
  [][ app.shouldQuit /\ pc # "done" => app' = app /\ table' = table ]_vars
=============================================================================
