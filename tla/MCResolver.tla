----------------------------- MODULE MCResolver -----------------------------
(* Resolver with a small cache, a small queue and two workers.             *)
EXTENDS Resolver

CONSTANTS h1, h2, h3, h4, h5, h6, w1, w2
ThreeHosts == {h1, h2, h3}
SixHosts   == {h1, h2, h3, h4, h5, h6}
TwoWorkers == {w1, w2}
Nobody     == {}
OnlyH1     == {h1}
OnlyH2     == {h2}
Perms      == Permutations(SixHosts) \cup Permutations(TwoWorkers)
=============================================================================
