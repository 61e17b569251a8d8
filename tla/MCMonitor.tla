----------------------------- MODULE MCMonitor ------------------------------
(* Monitor on two sources of one or two processes.                         *)
EXTENDS Monitor

CONSTANTS s1, s2
TwoRefs    == {s1, s2}
TwoOwners  == [s \in {s1, s2} |-> IF s = s1 THEN 1 ELSE 2]
SameOwner  == [s \in {s1, s2} |-> 1]
Perms2     == Permutations(TwoRefs)
MCDir      == {"rx"}
MCSpans    == {1}
NoSpans    == {}
=============================================================================
