------------------------------- MODULE Engine -------------------------------
(***************************************************************************)
(* The Engine of src/model.rs: it folds the kernel's messages into flows   *)
(* (one per srcref) and, at every tick, into one row per process.          *)
(*                                                                         *)
(* Abstractions.  Names, endpoints, protocol and TCP state are carried by  *)
(* a flow for display only and are left out.  A counter is a function from *)
(* Dir, the two byte directions, which the code treats alike.  A rate is   *)
(* kept as the bytes it stands for over the dt of the last tick: the code  *)
(* divides by dt at once, the model where the quotient becomes an integer  *)
(* (the sample pushed into the history).                                   *)
(***************************************************************************)
EXTENDS Integers, FiniteSets, Sequences, Functions

CONSTANTS
  SrcRefs,    \* the kernel's handles for sources
  Pids,       \* process ids; 0 is the kernel's "no owner"
  Dir,        \* the byte directions of a counter (rx, tx)
  MaxBytes,   \* u64::MAX: where a counter saturates
  HistLen,    \* samples kept per process (hist_len.max(1))
  Spans       \* the values of dt a tick may be called with

ASSUME EngineAssumption ==
  /\ IsFiniteSet(SrcRefs)
  /\ Pids \subseteq Nat /\ 0 \in Pids
  /\ MaxBytes \in Nat
  /\ HistLen \in Nat \ {0}
  /\ Spans \subseteq Nat

VARIABLES
  flows,      \* srcref -> Flow, for the sources being tracked
  retired,    \* pid -> bytes of its flows that have closed
  hist,       \* pid -> recent samples, oldest first
  rows        \* pid -> row, as built by the last tick

vars == <<flows, retired, hist, rows>>

----------------------------------------------------------------------------
Bytes  == 0..MaxBytes
Counts == [Dir -> Bytes]
Zero   == [d \in Dir |-> 0]
NoDesc == -1                    \* an SRC_UPDATE without a descriptor

Flow == [pid : Pids, bytes : Counts, prev : Counts, rate : Counts,
         described : BOOLEAN, counted : BOOLEAN, primed : BOOLEAN]

NewFlow == [pid |-> 0, bytes |-> Zero, prev |-> Zero, rate |-> Zero,
            described |-> FALSE, counted |-> FALSE, primed |-> FALSE]

Row == [rate : Counts, total : Counts, conns : Nat]

\* A sum that does not fit a counter saturates.
Sat(n) == IF n \in Bytes THEN n ELSE MaxBytes

SatAdd(a, b) == [d \in Dir |-> Sat(a[d] + b[d])]
Monus(a, b)  == [d \in Dir |-> IF a[d] >= b[d] THEN a[d] - b[d] ELSE 0]

----------------------------------------------------------------------------
(* The flow table.  fl is a value of flows.                                *)

\* flow_mut: the tracked flow, or the fresh one inserted for s.
FlowAt(fl, s) == IF s \in DOMAIN fl THEN fl[s] ELSE NewFlow

Put(fl, s, f) == [r \in DOMAIN fl \cup {s} |-> IF r = s THEN f ELSE fl[r]]

WithDesc(fl, s, p) == Put(fl, s, [FlowAt(fl, s) EXCEPT !.pid = p, !.described = TRUE])

\* Mutants: counts create a flow; or are kept for described flows only.
WithCountsCreates(fl, s, c) ==
  Put(fl, s, [FlowAt(fl, s) EXCEPT !.bytes = c, !.counted = TRUE])
WithCountsDescribed(fl, s, c) ==
  IF s \in DOMAIN fl /\ fl[s].described
  THEN Put(fl, s, [fl[s] EXCEPT !.bytes = c, !.counted = TRUE])
  ELSE fl

\* Counts never create a flow: they may come after the removal.
WithCounts(fl, s, c) ==
  IF s \in DOMAIN fl THEN Put(fl, s, [fl[s] EXCEPT !.bytes = c, !.counted = TRUE])
                     ELSE fl

\* A flow is credited to a process once described, unless its owner is pid 0.
Owned(f) == f.described /\ f.pid # 0

FlowsOf(fl, p) == {s \in DOMAIN fl : fl[s].described /\ fl[s].pid = p}
Owners(fl)     == {fl[s].pid : s \in {r \in DOMAIN fl : Owned(fl[r])}}

Carry(p) == IF p \in DOMAIN retired THEN retired[p] ELSE Zero

\* Saturating sums over the flows of p.
SumRates(fl, p) ==
  [d \in Dir |-> Sat(SumFunctionOnSet([s \in DOMAIN fl |-> fl[s].rate[d]], FlowsOf(fl, p)))]
SumBytes(fl, p) ==
  [d \in Dir |-> Sat(SumFunctionOnSet([s \in DOMAIN fl |-> fl[s].bytes[d]], FlowsOf(fl, p)))]

----------------------------------------------------------------------------
Init ==
  /\ flows   = <<>>
  /\ retired = <<>>
  /\ hist    = <<>>
  /\ rows    = <<>>

OnAdded(s) ==
  /\ flows' = Put(flows, s, FlowAt(flows, s))
  /\ UNCHANGED <<retired, hist, rows>>

OnDesc(s, p) ==
  /\ flows' = WithDesc(flows, s, p)
  /\ UNCHANGED <<retired, hist, rows>>

OnCounts(s, c) ==
  /\ flows' = WithCounts(flows, s, c)
  /\ UNCHANGED <<retired, hist, rows>>

\* Counts bundled with an optional descriptor.
OnUpdate(s, c, p) ==
  /\ flows' = WithCounts(IF p = NoDesc THEN flows ELSE WithDesc(flows, s, p), s, c)
  /\ UNCHANGED <<retired, hist, rows>>

\* Mutant: the carry of the last closed flow replaces the earlier ones.
RetireOverwrites(s) ==
  LET p == flows[s].pid
  IN  [q \in DOMAIN retired \cup {p} |-> IF q = p THEN flows[s].bytes ELSE retired[q]]

\* The carry once flow s, owned by a process, has closed.
Retire(s) ==
  LET p == flows[s].pid
  IN  [q \in DOMAIN retired \cup {p} |->
         IF q = p THEN SatAdd(Carry(p), flows[s].bytes) ELSE retired[q]]

OnRemoved(s) ==
  /\ flows' = Restrict(flows, DOMAIN flows \ {s})
  /\ retired' = IF s \in DOMAIN flows /\ Owned(flows[s]) THEN Retire(s) ELSE retired
  /\ UNCHANGED <<hist, rows>>

\* Mutants: a flow is primed by its placeholder zeros; the first counters are
\* measured against them.
SampledPrimesAll(f, dt) ==
  [f EXCEPT !.rate   = IF f.primed /\ dt > 0 THEN Monus(f.bytes, f.prev) ELSE Zero,
            !.prev   = f.bytes,
            !.primed = TRUE]
SampledSpikes(f, dt) ==
  [f EXCEPT !.rate   = IF f.counted /\ dt > 0 THEN Monus(f.bytes, f.prev) ELSE Zero,
            !.prev   = f.bytes,
            !.primed = f.primed \/ f.counted]

\* One flow's part of a tick: a rate against the previous tick's counter, or
\* only a baseline when there is none.
Sampled(f, dt) ==
  [f EXCEPT !.rate   = IF f.primed /\ dt > 0 THEN Monus(f.bytes, f.prev) ELSE Zero,
            !.prev   = f.bytes,
            !.primed = f.primed \/ f.counted]

RowOf(fl, p) ==
  [rate  |-> SumRates(fl, p),
   total |-> SatAdd(SumBytes(fl, p), Carry(p)),
   conns |-> Cardinality(FlowsOf(fl, p))]

\* Mutant: nothing leaves the front of a full history.
PushUncapped(h, x) == Append(h, x)

\* ProcHist::push: the sample goes to the back, the oldest leaves when full.
Push(h, x) == IF Len(h) < HistLen THEN Append(h, x) ELSE Append(Tail(h), x)

PerSecond(r, dt) == [d \in Dir |-> IF dt > 0 THEN r[d] \div dt ELSE 0]

\* Mutant: the history of a process that left the table is kept.
HistAfterKeepsAll(fl, dt) ==
  [p \in Owners(fl) \cup DOMAIN hist |->
     Push(IF p \in DOMAIN hist THEN hist[p] ELSE <<>>, PerSecond(SumRates(fl, p), dt))]

\* The histories after a tick: those of the processes with a flow, one sample on.
HistAfter(fl, dt) ==
  [p \in Owners(fl) |->
     Push(IF p \in DOMAIN hist THEN hist[p] ELSE <<>>, PerSecond(SumRates(fl, p), dt))]

\* Mutants: the carry is pruned only when other processes have rows than before; or
\* a tick forgets it.
CarryAfterLazy(fl) ==
  IF Owners(fl) = DOMAIN rows THEN retired ELSE Restrict(retired, DOMAIN retired \cap Owners(fl))
CarryAfterForgets(fl)  == Restrict(retired, {})

\* The carry after a tick: only of processes that still have a flow.
CarryAfter(fl) == Restrict(retired, DOMAIN retired \cap Owners(fl))

Tick(dt) ==
  LET fl == [s \in DOMAIN flows |-> Sampled(flows[s], dt)]
  IN  /\ flows'   = fl
      /\ rows'    = [p \in Owners(fl) |-> RowOf(fl, p)]
      /\ retired' = CarryAfter(fl)
      /\ hist'    = HistAfter(fl, dt)

Reprime ==
  /\ flows' = [s \in DOMAIN flows |-> [flows[s] EXCEPT !.primed = FALSE]]
  /\ UNCHANGED <<retired, hist, rows>>

Next ==
  \/ \E s \in SrcRefs : OnAdded(s)
  \/ \E s \in SrcRefs, p \in Pids : OnDesc(s, p)
  \/ \E s \in SrcRefs, c \in Counts : OnCounts(s, c)
  \/ \E s \in SrcRefs, c \in Counts, p \in Pids \cup {NoDesc} : OnUpdate(s, c, p)
  \/ \E s \in SrcRefs : OnRemoved(s)
  \/ \E dt \in Spans : Tick(dt)
  \/ Reprime

Spec == Init /\ [][Next]_vars

----------------------------------------------------------------------------
(* Properties.                                                             *)

\* Every table maps its keys to values of their type, and no history is
\* longer than HistLen.
TypeOK ==
  /\ DOMAIN flows \subseteq SrcRefs /\ flows \in [DOMAIN flows -> Flow]
  /\ DOMAIN retired \subseteq Pids \ {0} /\ retired \in [DOMAIN retired -> Counts]
  /\ DOMAIN rows \subseteq Pids \ {0} /\ rows \in [DOMAIN rows -> Row]
  /\ DOMAIN hist \subseteq Pids \ {0} /\ hist \in [DOMAIN hist -> Seq(Counts)]
  /\ \A p \in DOMAIN hist : Len(hist[p]) <= HistLen

\* The sparkline of a process lives exactly as long as its row (tick drops the
\* history of a pid in the same step that drops its row), and its newest sample
\* is never above the rate the row shows.
HistFollowsRows ==
  /\ DOMAIN hist = DOMAIN rows
  /\ \A p \in DOMAIN hist :
       /\ hist[p] # <<>>
       /\ \A d \in Dir : hist[p][Len(hist[p])][d] <= rows[p].rate[d]

\* A rate is only ever shown, and a baseline only ever kept, for a flow the
\* kernel has reported counters for, and the placeholder zeros of any other flow
\* were never touched (the reason for the counted flag in tick).
RateIsMeasured ==
  \A s \in DOMAIN flows :
    ~flows[s].counted =>
      /\ ~flows[s].primed
      /\ flows[s].bytes = Zero /\ flows[s].prev = Zero /\ flows[s].rate = Zero

\* What the table owes process p: the bytes of its live flows and its carry.
Owed(fl, carry, p) == SatAdd(SumBytes(fl, p), carry)

\* TOTAL never drops while a process keeps a flow: as long as no counter runs
\* backwards and no flow changes owner, a process with a flow before and after a
\* step is owed no less after it, and exactly the same when the step brings no
\* news (a close, a tick and a reprime move bytes between the flow table and the
\* carry and neither lose nor double them).
NewsFor(s) == \/ s \notin DOMAIN flows
              \/ flows'[s].bytes # flows[s].bytes
              \/ flows'[s].described # flows[s].described

TotalsKept ==
  [][ ( \A s \in DOMAIN flows \cap DOMAIN flows' :
          /\ \A d \in Dir : flows'[s].bytes[d] >= flows[s].bytes[d]
          /\ flows[s].described => flows'[s].pid = flows[s].pid )
      => \A p \in Owners(flows) \cap Owners(flows') : \A d \in Dir :
           /\ Owed(flows, Carry(p), p)[d] <= Owed(flows', Carry(p)', p)[d]
           /\ (\A s \in DOMAIN flows' : ~NewsFor(s)) =>
                Owed(flows', Carry(p)', p)[d] = Owed(flows, Carry(p), p)[d] ]_vars

\* "Carried only while the pid still has a live flow and pruned the moment it has
\* none ... stops one pid's bytes bleeding into a later, reused pid"
\* (src/model.rs:180-182): a pid that gains its first flow starts with no carry.
CarryNeverBleeds ==
  [][ \A p \in Owners(flows') \ Owners(flows) : p \notin DOMAIN retired' ]_vars
=============================================================================
