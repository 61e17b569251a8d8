---------------------------- MODULE EngineMeter -----------------------------
(***************************************************************************)
(* The Engine implements RateMeter: counted says that the last reading     *)
(* exists (bytes holds it) and primed that the baseline does (prev).       *)
(***************************************************************************)
EXTENDS Engine

CONSTANT NoCount
ASSUME MeterAssumption == NoCount \notin Counts

MeterOf(f) == [last |-> IF f.counted THEN f.bytes ELSE NoCount,
               base |-> IF f.primed  THEN f.prev  ELSE NoCount,
               rate |-> f.rate]

Meter == INSTANCE RateMeter WITH
           meter  <- [s \in DOMAIN flows |-> MeterOf(flows[s])],
           Gap    <- Monus,
           NoRate <- Zero

\* No rate ever spikes: each step of the Engine is a step of RateMeter or leaves
\* its readings alone, so a rate is never measured against the placeholder zero
\* of a new flow, nor against a baseline that a resume told it to forget.
MeterSpec == Meter!Spec
=============================================================================
