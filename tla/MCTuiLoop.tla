----------------------------- MODULE MCTuiLoop ------------------------------
(* TuiLoop on a short session with one source.                             *)
EXTENDS TuiLoop

CONSTANT s1
OneRef   == {s1}
MCDir    == {"rx"}
MCSpans  == 0..12
=============================================================================
