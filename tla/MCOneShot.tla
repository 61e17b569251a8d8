----------------------------- MODULE MCOneShot ------------------------------
(* OneShot on two sources of one process.                                  *)
EXTENDS OneShot

CONSTANTS s1, s2
TwoRefs   == {s1, s2}
SameOwner == [s \in {s1, s2} |-> 1]
MCDir     == {"rx"}
=============================================================================
