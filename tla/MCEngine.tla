------------------------------ MODULE MCEngine ------------------------------
(* Engine on two sources and two processes.                                *)
EXTENDS EngineHistory, TLC

CONSTANTS s1, s2
MCSrcRefs == {s1, s2}
Symmetry  == Permutations(MCSrcRefs)
MCDir     == {"rx"}
MCSpans   == {0, 2}
=============================================================================
