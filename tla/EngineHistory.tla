--------------------------- MODULE EngineHistory ---------------------------
(***************************************************************************)
(* The Engine with a record of what closed out of sight: a history         *)
(* variable, on which no step of the Engine depends.                       *)
(***************************************************************************)
EXTENDS EngineMeter

VARIABLE shed   \* pid without a row -> bytes its flows closed since the last tick

historyVars == <<vars, shed>>

\* A flow that closes adds its bytes to the record, if its process has no row.
Shed(s) ==
  IF s \in DOMAIN flows /\ Owned(flows[s]) /\ flows[s].pid \notin DOMAIN rows
  THEN LET p == flows[s].pid
       IN  [q \in DOMAIN shed \cup {p} |->
              IF q # p THEN shed[q]
              ELSE SatAdd(IF p \in DOMAIN shed THEN shed[p] ELSE Zero, flows[s].bytes)]
  ELSE shed

HistoryInit == Init /\ shed = <<>>

HistoryNext ==
  \/ (\E s \in SrcRefs : OnAdded(s)) /\ UNCHANGED shed
  \/ (\E s \in SrcRefs, p \in Pids : OnDesc(s, p)) /\ UNCHANGED shed
  \/ (\E s \in SrcRefs, c \in Counts : OnCounts(s, c)) /\ UNCHANGED shed
  \/ (\E s \in SrcRefs, c \in Counts, p \in Pids \cup {NoDesc} : OnUpdate(s, c, p)) /\ UNCHANGED shed
  \/ \E s \in SrcRefs : OnRemoved(s) /\ shed' = Shed(s)
  \/ (\E dt \in Spans : Tick(dt)) /\ shed' = <<>>
  \/ Reprime /\ UNCHANGED shed

HistorySpec == HistoryInit /\ [][HistoryNext]_historyVars

\* The carry of a process that is not in the table is what its flows closed since
\* the last tick: all of it, though no tick ever saw a flow that came and went
\* between two of them, and nothing older, though a tick may find the table as it
\* was (Engine::on_removed, and the pruning in Engine::tick).  So the carry is
\* bounded by the table and what closes in one interval, and no more than the
\* latter can reach the next owner of a pid.
CarryIsFresh ==
  /\ DOMAIN retired \ DOMAIN rows = DOMAIN shed
  /\ \A p \in DOMAIN shed : retired[p] = shed[p]
=============================================================================
