---------------------------- MODULE EngineProofs ----------------------------
(***************************************************************************)
(* What holds of the Engine for every set of sources and processes, every  *)
(* counter width and every history length.                                 *)
(***************************************************************************)
EXTENDS EngineHistory, FoldLemmas, SequenceTheorems, TLAPS

----------------------------------------------------------------------------
(* The helpers stay within their types.                                    *)

\* A saturated sum is a counter value, whatever was summed (Sat).
LEMMA SatType == \A n : Sat(n) \in Bytes
  BY EngineAssumption DEF Sat, Bytes

\* The initial counter, a saturating sum and a saturating difference are
\* counter values (saturating_add, saturating_sub in src/model.rs).
LEMMA CountsType ==
  /\ Zero \in Counts
  /\ \A a, b : SatAdd(a, b) \in Counts
  /\ \A a, b \in Counts : Monus(a, b) \in Counts
<1>1. Zero \in Counts
  BY EngineAssumption DEF Zero, Counts, Bytes
<1>2. \A a, b : SatAdd(a, b) \in Counts
  BY SatType DEF SatAdd, Counts
<1>3. ASSUME NEW a \in Counts, NEW b \in Counts PROVE Monus(a, b) \in Counts
  BY EngineAssumption DEF Monus, Counts, Bytes
<1> QED
  BY <1>1, <1>2, <1>3

\* A fresh flow is well typed (Flow::new).
LEMMA NewFlowType == NewFlow \in Flow
  BY CountsType, EngineAssumption DEF NewFlow, Flow

----------------------------------------------------------------------------
(* The flow table.                                                         *)

FlowsOK(fl) == DOMAIN fl \subseteq SrcRefs /\ fl \in [DOMAIN fl -> Flow]

\* Inserting or replacing one flow keeps the table well typed (flow_mut).
LEMMA PutType ==
  ASSUME NEW fl, FlowsOK(fl), NEW s \in SrcRefs, NEW f \in Flow
  PROVE  FlowsOK(Put(fl, s, f)) /\ FlowAt(fl, s) \in Flow
<1>1. DOMAIN Put(fl, s, f) = DOMAIN fl \cup {s}
  BY DEF Put
<1>2. Put(fl, s, f) \in [DOMAIN fl \cup {s} -> Flow]
  BY DEF Put, FlowsOK
<1>3. FlowAt(fl, s) \in Flow
  BY NewFlowType DEF FlowAt, FlowsOK
<1> QED
  BY <1>1, <1>2, <1>3 DEF FlowsOK

\* A descriptor keeps the table well typed (on_desc).
LEMMA WithDescType ==
  ASSUME NEW fl, FlowsOK(fl), NEW s \in SrcRefs, NEW p \in Pids
  PROVE  FlowsOK(WithDesc(fl, s, p))
<1>1. FlowAt(fl, s) \in Flow
  BY PutType, NewFlowType
<1>2. [FlowAt(fl, s) EXCEPT !.pid = p, !.described = TRUE] \in Flow
  BY <1>1 DEF Flow
<1> QED
  BY <1>2, PutType DEF WithDesc

\* So do counters, which never create a flow (on_counts).
LEMMA WithCountsType ==
  ASSUME NEW fl, FlowsOK(fl), NEW s \in SrcRefs, NEW c \in Counts
  PROVE  FlowsOK(WithCounts(fl, s, c)) /\ DOMAIN WithCounts(fl, s, c) = DOMAIN fl
<1>1. CASE s \in DOMAIN fl
  <2>1. [fl[s] EXCEPT !.bytes = c, !.counted = TRUE] \in Flow
    BY <1>1 DEF Flow, FlowsOK
  <2>2. DOMAIN fl \cup {s} = DOMAIN fl
    BY <1>1
  <2> QED
    BY <1>1, <2>1, <2>2, PutType DEF WithCounts, Put
<1>2. CASE s \notin DOMAIN fl
  BY <1>2 DEF WithCounts
<1> QED
  BY <1>1, <1>2

\* One flow's part of a tick keeps its type.
LEMMA SampledType ==
  ASSUME NEW f \in Flow, NEW dt \in Spans
  PROVE  Sampled(f, dt) \in Flow
<1>1. Monus(f.bytes, f.prev) \in Counts /\ Zero \in Counts
  BY CountsType DEF Flow
<1> QED
  BY <1>1 DEF Sampled, Flow

\* The owners found in a well-typed table are pids, and never pid 0.
LEMMA OwnersType ==
  ASSUME NEW fl, FlowsOK(fl)
  PROVE  Owners(fl) \subseteq Pids \ {0}
  BY DEF Owners, Owned, FlowsOK, Flow

\* A row built from any table is well typed (tick).
LEMMA RowType ==
  ASSUME NEW fl, NEW p, IsFiniteSet(DOMAIN fl)
  PROVE  RowOf(fl, p) \in Row
<1>1. SumRates(fl, p) \in Counts /\ SumBytes(fl, p) \in Counts
  BY SatType DEF SumRates, SumBytes, Counts
<1>2. IsFiniteSet(FlowsOf(fl, p))
  BY FS_Subset DEF FlowsOf
<1>3. Cardinality(FlowsOf(fl, p)) \in Nat
  BY <1>2, FS_CardinalityType
<1> QED
  BY <1>1, <1>3, CountsType DEF RowOf, Row

\* Pushing a sample keeps the history within HistLen, and the sample is its
\* newest entry (ProcHist::push).
LEMMA PushType ==
  ASSUME NEW h \in Seq(Counts), Len(h) <= HistLen, NEW x \in Counts
  PROVE  /\ Push(h, x) \in Seq(Counts)
         /\ Len(Push(h, x)) \in 1..HistLen
         /\ Push(h, x)[Len(Push(h, x))] = x
<1>1. CASE Len(h) < HistLen
  BY <1>1, EngineAssumption DEF Push
<1>2. CASE Len(h) >= HistLen
  <2>1. Len(h) = HistLen /\ h # <<>>
    BY <1>2, EngineAssumption
  <2>2. Tail(h) \in Seq(Counts) /\ Len(Tail(h)) = HistLen - 1
    BY <2>1
  <2> QED
    BY <2>1, <2>2, EngineAssumption DEF Push
<1> QED
  BY <1>1, <1>2, EngineAssumption

\* A rate per second is a counter value, and never above the rate itself when
\* dt is a whole number of seconds.
LEMMA PerSecondType ==
  ASSUME NEW r \in Counts, NEW dt \in Spans
  PROVE  PerSecond(r, dt) \in Counts /\ \A d \in Dir : PerSecond(r, dt)[d] <= r[d]
<1>1. ASSUME NEW d \in Dir
      PROVE  PerSecond(r, dt)[d] \in Bytes /\ PerSecond(r, dt)[d] <= r[d]
  <2>1. r[d] \in Nat /\ r[d] <= MaxBytes /\ dt \in Nat
    BY EngineAssumption DEF Counts, Bytes
  <2>2. CASE dt > 0
    <3>1. r[d] \div dt \in Nat /\ r[d] \div dt <= r[d]
      BY <2>1, <2>2, SMTT(30)
    <3> QED
      BY <2>1, <2>2, <3>1, EngineAssumption DEF PerSecond, Bytes
  <2>3. CASE ~(dt > 0)
    BY <2>1, <2>3, EngineAssumption DEF PerSecond, Bytes
  <2> QED
    BY <2>2, <2>3
<1> QED
  BY <1>1 DEF PerSecond, Counts

----------------------------------------------------------------------------
(* Type correctness.                                                       *)

\* No operation, and nothing else, takes the four tables out of their types.
LEMMA TypeStep ==
  ASSUME TypeOK, [Next]_vars
  PROVE  TypeOK'
<1>0. FlowsOK(flows)
  BY DEF TypeOK, FlowsOK
<1> DEFINE Rest == /\ DOMAIN retired \subseteq Pids \ {0} /\ retired \in [DOMAIN retired -> Counts]
                   /\ DOMAIN rows \subseteq Pids \ {0} /\ rows \in [DOMAIN rows -> Row]
                   /\ DOMAIN hist \subseteq Pids \ {0} /\ hist \in [DOMAIN hist -> Seq(Counts)]
                   /\ \A p \in DOMAIN hist : Len(hist[p]) <= HistLen
<1>r. Rest
  BY DEF TypeOK
<1>q. FlowsOK(flows') /\ Rest' => TypeOK'
  BY DEF TypeOK, FlowsOK
<1>k. ASSUME UNCHANGED <<retired, hist, rows>> PROVE Rest'
  BY <1>r, <1>k
<1> HIDE DEF Rest
<1>1. ASSUME NEW s \in SrcRefs, OnAdded(s) PROVE TypeOK'
  <2>1. FlowsOK(flows')
    BY <1>0, <1>1, PutType, NewFlowType DEF OnAdded
  <2> QED
    BY <2>1, <1>1, <1>k, <1>q DEF OnAdded
<1>2. ASSUME NEW s \in SrcRefs, NEW p \in Pids, OnDesc(s, p) PROVE TypeOK'
  <2>1. FlowsOK(flows')
    BY <1>0, <1>2, WithDescType DEF OnDesc
  <2> QED
    BY <2>1, <1>2, <1>k, <1>q DEF OnDesc
<1>3. ASSUME NEW s \in SrcRefs, NEW c \in Counts, OnCounts(s, c) PROVE TypeOK'
  <2>1. FlowsOK(flows')
    BY <1>0, <1>3, WithCountsType DEF OnCounts
  <2> QED
    BY <2>1, <1>3, <1>k, <1>q DEF OnCounts
<1>4. ASSUME NEW s \in SrcRefs, NEW c \in Counts, NEW p \in Pids \cup {NoDesc},
             OnUpdate(s, c, p)
      PROVE  TypeOK'
  <2>1. FlowsOK(IF p = NoDesc THEN flows ELSE WithDesc(flows, s, p))
    BY <1>0, <1>4, WithDescType
  <2>2. FlowsOK(flows')
    BY <2>1, <1>4, WithCountsType DEF OnUpdate
  <2> QED
    BY <2>2, <1>4, <1>k, <1>q DEF OnUpdate
<1>5. ASSUME NEW s \in SrcRefs, OnRemoved(s) PROVE TypeOK'
  <2>1. FlowsOK(flows')
    BY <1>0, <1>5 DEF OnRemoved, Restrict, FlowsOK
  <2>2. CASE s \in DOMAIN flows /\ Owned(flows[s])
    <3>1. flows[s].pid \in Pids \ {0}
      BY <1>0, <2>2 DEF FlowsOK, Flow, Owned
    <3>2. SatAdd(Carry(flows[s].pid), flows[s].bytes) \in Counts
      BY CountsType
    <3>3. DOMAIN retired' \subseteq Pids \ {0} /\ retired' \in [DOMAIN retired' -> Counts]
      BY <1>5, <2>2, <3>1, <3>2, <1>r DEF OnRemoved, Retire, Rest
    <3> QED
      BY <3>3, <2>1, <1>5, <1>r, <1>q DEF OnRemoved, Rest
  <2>3. CASE ~(s \in DOMAIN flows /\ Owned(flows[s]))
    BY <2>1, <2>3, <1>5, <1>k, <1>q DEF OnRemoved
  <2> QED
    BY <2>2, <2>3
<1>6. ASSUME NEW dt \in Spans, Tick(dt) PROVE TypeOK'
  <2> DEFINE fl == [s \in DOMAIN flows |-> Sampled(flows[s], dt)]
  <2>1. flows' = fl /\ FlowsOK(fl)
    BY <1>0, <1>6, SampledType DEF Tick, FlowsOK
  <2>2. Owners(fl) \subseteq Pids \ {0}
    BY <2>1, OwnersType
  <2>3. IsFiniteSet(DOMAIN fl)
    BY <2>1, EngineAssumption, FS_Subset DEF FlowsOK
  <2>4. DOMAIN rows' \subseteq Pids \ {0} /\ rows' \in [DOMAIN rows' -> Row]
    BY <1>6, <2>2, <2>3, RowType DEF Tick
  <2>5. DOMAIN retired' \subseteq Pids \ {0} /\ retired' \in [DOMAIN retired' -> Counts]
    BY <1>6, <1>r DEF Tick, CarryAfter, Restrict, Rest
  <2>6. ASSUME NEW p \in Owners(fl)
        PROVE  hist'[p] \in Seq(Counts) /\ Len(hist'[p]) <= HistLen
    <3> DEFINE h == IF p \in DOMAIN hist THEN hist[p] ELSE <<>>
               x == PerSecond(SumRates(fl, p), dt)
    <3>1. h \in Seq(Counts) /\ Len(h) <= HistLen
      BY <1>r, EngineAssumption DEF Rest
    <3>2. SumRates(fl, p) \in Counts
      BY SatType DEF SumRates, Counts
    <3>3. x \in Counts
      BY <3>2, PerSecondType
    <3>4. hist'[p] = Push(h, x)
      BY <1>6, <2>6 DEF Tick, HistAfter
    <3> HIDE DEF h, x
    <3> QED
      BY <3>1, <3>3, <3>4, PushType, EngineAssumption
  <2>7. DOMAIN hist' = Owners(fl) /\ hist' = [p \in DOMAIN hist' |-> hist'[p]]
    BY <1>6 DEF Tick, HistAfter
  <2>8. Rest'
    BY <2>2, <2>4, <2>5, <2>6, <2>7 DEF Rest
  <2> QED
    BY <2>1, <2>8, <1>q
<1>7. CASE Reprime
  <2>1. FlowsOK(flows')
    BY <1>0, <1>7 DEF Reprime, FlowsOK, Flow
  <2> QED
    BY <2>1, <1>7, <1>k, <1>q DEF Reprime
<1>8. CASE UNCHANGED vars
  BY <1>8 DEF vars, TypeOK
<1> QED
  BY <1>1, <1>2, <1>3, <1>4, <1>5, <1>6, <1>7, <1>8 DEF Next

\* Whatever the kernel sends and however ticks and reprimes interleave with it,
\* the four tables stay well typed and no history outgrows HistLen.
THEOREM TypeCorrect == Spec => []TypeOK
<1>1. Init => TypeOK
  BY DEF Init, TypeOK
<1>2. TypeOK /\ [Next]_vars => TypeOK'
  BY TypeStep
<1> QED
  BY <1>1, <1>2, PTL DEF Spec

----------------------------------------------------------------------------
(* Rates are measured.                                                     *)

Idle(f) == /\ ~f.primed
           /\ f.bytes = Zero /\ f.prev = Zero /\ f.rate = Zero

\* Taken as a predicate of the table, RateIsMeasured survives every operation.
Measured(fl) == \A s \in DOMAIN fl : ~fl[s].counted => Idle(fl[s])

\* A descriptor leaves a flow's counters and flags alone.
LEMMA WithDescMeasured ==
  ASSUME NEW fl, FlowsOK(fl), Measured(fl), NEW s \in SrcRefs, NEW p \in Pids
  PROVE  Measured(WithDesc(fl, s, p))
<1>1. FlowAt(fl, s) \in Flow /\ (~FlowAt(fl, s).counted => Idle(FlowAt(fl, s)))
  BY PutType, NewFlowType DEF FlowAt, NewFlow, Idle, Measured
<1> DEFINE f == [FlowAt(fl, s) EXCEPT !.pid = p, !.described = TRUE]
<1>2. /\ f.counted = FlowAt(fl, s).counted /\ f.primed = FlowAt(fl, s).primed
      /\ f.bytes = FlowAt(fl, s).bytes /\ f.prev = FlowAt(fl, s).prev
      /\ f.rate = FlowAt(fl, s).rate
  BY <1>1 DEF Flow
<1>3. ~f.counted => Idle(f)
  BY <1>1, <1>2 DEF Idle
<1>4. WithDesc(fl, s, p) = [r \in DOMAIN fl \cup {s} |-> IF r = s THEN f ELSE fl[r]]
  BY DEF WithDesc, Put
<1> HIDE DEF f
<1> QED
  BY <1>3, <1>4 DEF Measured

\* Counters mark the flow they arrive for as counted.
LEMMA WithCountsMeasured ==
  ASSUME NEW fl, FlowsOK(fl), Measured(fl), NEW s \in SrcRefs, NEW c \in Counts
  PROVE  Measured(WithCounts(fl, s, c))
<1>1. CASE s \in DOMAIN fl
  <2> DEFINE f == [fl[s] EXCEPT !.bytes = c, !.counted = TRUE]
  <2>1. f.counted
    BY <1>1 DEF FlowsOK, Flow
  <2>2. WithCounts(fl, s, c) = [r \in DOMAIN fl \cup {s} |-> IF r = s THEN f ELSE fl[r]]
    BY <1>1 DEF WithCounts, Put
  <2> HIDE DEF f
  <2> QED
    BY <2>1, <2>2 DEF Measured
<1>2. CASE s \notin DOMAIN fl
  BY <1>2 DEF WithCounts
<1> QED
  BY <1>1, <1>2

\* A flow nothing was counted for is sampled as if it were not there.
LEMMA SampledMeasured ==
  ASSUME NEW f \in Flow, ~f.counted => Idle(f), NEW dt \in Spans
  PROVE  LET g == Sampled(f, dt)
         IN  /\ g.counted = f.counted
             /\ g.primed = (f.primed \/ f.counted)
             /\ g.bytes = f.bytes /\ g.prev = f.bytes
             /\ g.rate = IF f.primed /\ dt > 0 THEN Monus(f.bytes, f.prev) ELSE Zero
             /\ ~g.counted => Idle(g)
  BY DEF Sampled, Flow, Idle

\* No flow shows a rate, or keeps a baseline, before the kernel has counted it:
\* for every set of sources and any order of messages, ticks and reprimes.
THEOREM RatesAreMeasured == Spec => []RateIsMeasured
<1>0. RateIsMeasured <=> Measured(flows)
  BY DEF RateIsMeasured, Measured, Idle
<1>1. Init => RateIsMeasured
  BY DEF Init, RateIsMeasured
<1>2. TypeOK /\ RateIsMeasured /\ [Next]_vars => RateIsMeasured'
  <2> SUFFICES ASSUME TypeOK, Measured(flows), [Next]_vars PROVE Measured(flows')
    BY <1>0 DEF RateIsMeasured, Measured, Idle
  <2>0. FlowsOK(flows)
    BY DEF TypeOK, FlowsOK
  <2>1. ASSUME NEW s \in SrcRefs, OnAdded(s) PROVE Measured(flows')
    <3>1. ~FlowAt(flows, s).counted => Idle(FlowAt(flows, s))
      BY DEF FlowAt, NewFlow, Idle, Measured
    <3> QED
      BY <3>1, <2>1 DEF OnAdded, Put, Measured
  <2>2. ASSUME NEW s \in SrcRefs, NEW p \in Pids, OnDesc(s, p) PROVE Measured(flows')
    BY <2>0, <2>2, WithDescMeasured DEF OnDesc
  <2>3. ASSUME NEW s \in SrcRefs, NEW c \in Counts, OnCounts(s, c) PROVE Measured(flows')
    BY <2>0, <2>3, WithCountsMeasured DEF OnCounts
  <2>4. ASSUME NEW s \in SrcRefs, NEW c \in Counts, NEW p \in Pids \cup {NoDesc},
               OnUpdate(s, c, p)
        PROVE  Measured(flows')
    <3> DEFINE fl == IF p = NoDesc THEN flows ELSE WithDesc(flows, s, p)
    <3>1. FlowsOK(fl) /\ Measured(fl)
      BY <2>0, WithDescType, WithDescMeasured
    <3>2. flows' = WithCounts(fl, s, c)
      BY <2>4 DEF OnUpdate
    <3> HIDE DEF fl
    <3> QED
      BY <3>1, <3>2, WithCountsMeasured
  <2>5. ASSUME NEW s \in SrcRefs, OnRemoved(s) PROVE Measured(flows')
    BY <2>5 DEF OnRemoved, Restrict, Measured
  <2>6. ASSUME NEW dt \in Spans, Tick(dt) PROVE Measured(flows')
    <3>1. \A s \in DOMAIN flows : ~Sampled(flows[s], dt).counted => Idle(Sampled(flows[s], dt))
      BY <2>0, SampledMeasured DEF FlowsOK, Measured
    <3>2. flows' = [s \in DOMAIN flows |-> Sampled(flows[s], dt)]
      BY <2>6 DEF Tick
    <3> QED
      BY <3>1, <3>2 DEF Measured
  <2>7. CASE Reprime
    <3>1. \A s \in DOMAIN flows :
            LET g == [flows[s] EXCEPT !.primed = FALSE]
            IN  ~g.counted => Idle(g)
      BY <2>0 DEF FlowsOK, Flow, Idle, Measured
    <3> QED
      BY <2>7, <3>1 DEF Reprime, Measured
  <2>8. CASE UNCHANGED vars
    BY <2>8 DEF vars
  <2> QED
    BY <2>1, <2>2, <2>3, <2>4, <2>5, <2>6, <2>7, <2>8 DEF Next
<1> QED
  BY <1>1, <1>2, TypeCorrect, PTL DEF Spec

----------------------------------------------------------------------------
(* The tables change together.                                             *)

\* A row and a sparkline appear, and leave, in the same tick, and the newest
\* sample is the row's rate brought to whole seconds.
THEOREM HistoryFollowsTable == Spec => []HistFollowsRows
<1>1. Init => HistFollowsRows
  BY DEF Init, HistFollowsRows
<1>2. TypeOK /\ HistFollowsRows /\ [Next]_vars => HistFollowsRows'
  <2> SUFFICES ASSUME TypeOK, HistFollowsRows, [Next]_vars PROVE HistFollowsRows'
    OBVIOUS
  <2>1. ASSUME UNCHANGED <<hist, rows>> PROVE HistFollowsRows'
    BY <2>1 DEF HistFollowsRows
  <2>2. ASSUME NEW dt \in Spans, Tick(dt) PROVE HistFollowsRows'
    <3> DEFINE fl == [s \in DOMAIN flows |-> Sampled(flows[s], dt)]
    <3>1. DOMAIN hist' = Owners(fl) /\ DOMAIN rows' = Owners(fl)
      BY <2>2 DEF Tick, HistAfter
    <3>2. ASSUME NEW p \in Owners(fl)
          PROVE  /\ hist'[p] # <<>>
                 /\ \A d \in Dir : hist'[p][Len(hist'[p])][d] <= rows'[p].rate[d]
      <4> DEFINE h == IF p \in DOMAIN hist THEN hist[p] ELSE <<>>
                 x == PerSecond(SumRates(fl, p), dt)
      <4>1. h \in Seq(Counts) /\ Len(h) <= HistLen
        BY EngineAssumption DEF TypeOK
      <4>2. SumRates(fl, p) \in Counts
        BY SatType DEF SumRates, Counts
      <4>3. x \in Counts /\ \A d \in Dir : x[d] <= SumRates(fl, p)[d]
        BY <4>2, PerSecondType
      <4>4. hist'[p] = Push(h, x) /\ rows'[p].rate = SumRates(fl, p)
        BY <2>2, <3>2 DEF Tick, HistAfter, RowOf
      <4> HIDE DEF h, x
      <4>5. /\ Push(h, x) \in Seq(Counts) /\ Len(Push(h, x)) \in 1..HistLen
            /\ Push(h, x)[Len(Push(h, x))] = x
        BY <4>1, <4>3, PushType
      <4>6. Push(h, x) # <<>>
        BY <4>5
      <4> QED
        BY <4>3, <4>4, <4>5, <4>6
    <3> QED
      BY <3>1, <3>2 DEF HistFollowsRows
  <2> QED
    BY <2>1, <2>2
    DEF Next, OnAdded, OnDesc, OnCounts, OnUpdate, OnRemoved, Reprime, vars
<1> QED
  BY <1>1, <1>2, TypeCorrect, PTL DEF Spec

\* Out of the table, the carry is what closed since the last tick: a close adds the
\* same to both, and a tick leaves the carry of no process without a row.
THEOREM CarryAlwaysFresh == HistorySpec => []CarryIsFresh
<1>1. HistoryInit => CarryIsFresh
  BY DEF HistoryInit, Init, CarryIsFresh
<1>2. CarryIsFresh /\ [HistoryNext]_historyVars => CarryIsFresh'
  <2> SUFFICES ASSUME CarryIsFresh, [HistoryNext]_historyVars PROVE CarryIsFresh'
    OBVIOUS
  <2>1. ASSUME UNCHANGED <<retired, rows, shed>> PROVE CarryIsFresh'
    BY <2>1 DEF CarryIsFresh
  <2>2. ASSUME NEW s \in SrcRefs, OnRemoved(s), shed' = Shed(s) PROVE CarryIsFresh'
    <3>1. rows' = rows
      BY <2>2 DEF OnRemoved
    <3>2. CASE s \in DOMAIN flows /\ Owned(flows[s])
      <4> DEFINE p == flows[s].pid
      <4>1. /\ DOMAIN retired' = DOMAIN retired \cup {p}
            /\ \A q \in DOMAIN retired' :
                 retired'[q] = IF q = p THEN SatAdd(Carry(p), flows[s].bytes) ELSE retired[q]
        BY <2>2, <3>2 DEF OnRemoved, Retire
      <4>2. CASE p \in DOMAIN rows
        <5>1. shed' = shed
          BY <2>2, <4>2 DEF Shed
        <5> QED
          BY <3>1, <4>1, <4>2, <5>1 DEF CarryIsFresh
      <4>3. CASE p \notin DOMAIN rows
        <5>1. /\ DOMAIN shed' = DOMAIN shed \cup {p}
              /\ \A q \in DOMAIN shed' \ {p} : shed'[q] = shed[q]
              /\ shed'[p] = SatAdd(IF p \in DOMAIN shed THEN shed[p] ELSE Zero, flows[s].bytes)
          BY <2>2, <3>2, <4>3 DEF Shed
        <5>2. SatAdd(Carry(p), flows[s].bytes) = shed'[p]
          BY <4>3, <5>1 DEF CarryIsFresh, Carry
        <5> QED
          BY <3>1, <4>1, <4>3, <5>1, <5>2 DEF CarryIsFresh
      <4> QED
        BY <4>2, <4>3
    <3>3. CASE ~(s \in DOMAIN flows /\ Owned(flows[s]))
      BY <2>1, <2>2, <3>1, <3>3 DEF OnRemoved, Shed
    <3> QED
      BY <3>2, <3>3
  <2>3. ASSUME NEW dt \in Spans, Tick(dt), shed' = <<>> PROVE CarryIsFresh'
    <3>1. DOMAIN retired' \subseteq DOMAIN rows'
      BY <2>3 DEF Tick, CarryAfter, Restrict
    <3>2. DOMAIN shed' = {}
      BY <2>3
    <3> QED
      BY <3>1, <3>2 DEF CarryIsFresh
  <2> QED
    BY <2>1, <2>2, <2>3
    DEF HistoryNext, OnAdded, OnDesc, OnCounts, OnUpdate, Reprime, historyVars, vars
<1> QED
  BY <1>1, <1>2, PTL DEF HistorySpec

----------------------------------------------------------------------------
(* Totals are kept.                                                        *)

\* What the table holds of the bytes of p, before anything saturates, and what
\* is carried for p by a value of retired.
Bytewise(fl, d)   == [s \in DOMAIN fl |-> fl[s].bytes[d]]
BytesOf(fl, p, d) == SumFunctionOnSet(Bytewise(fl, d), FlowsOf(fl, p))
CarryIn(ret, p)   == IF p \in DOMAIN ret THEN ret[p] ELSE Zero

\* Saturating late or early makes no difference.
LEMMA SatOfSums ==
  ASSUME NEW a \in Nat, NEW b \in Nat, NEW c \in Nat
  PROVE  /\ Sat(Sat(a) + b) = Sat(a + b)
         /\ Sat(Sat(a) + Sat(b + c)) = Sat(a + b + c)
         /\ a <= b => Sat(a + c) <= Sat(b + c)
  BY EngineAssumption DEF Sat, Bytes

\* The flows of a process are finitely many naturals to add.
LEMMA BytesType ==
  ASSUME NEW fl, FlowsOK(fl), NEW p, NEW d \in Dir
  PROVE  /\ IsFiniteSet(FlowsOf(fl, p)) /\ FlowsOf(fl, p) \subseteq DOMAIN fl
         /\ \A s \in DOMAIN fl : Bytewise(fl, d)[s] = fl[s].bytes[d] /\ fl[s].bytes[d] \in Nat
         /\ BytesOf(fl, p, d) \in Nat
<1>1. IsFiniteSet(FlowsOf(fl, p)) /\ FlowsOf(fl, p) \subseteq DOMAIN fl
  BY EngineAssumption, FS_Subset DEF FlowsOf, FlowsOK
<1>2. \A s \in DOMAIN fl : Bytewise(fl, d)[s] = fl[s].bytes[d] /\ fl[s].bytes[d] \in Nat
  BY EngineAssumption DEF Bytewise, FlowsOK, Flow, Counts, Bytes
<1>3. BytesOf(fl, p, d) \in Nat
  BY <1>1, <1>2, SumMonotone DEF BytesOf
<1> QED
  BY <1>1, <1>2, <1>3

\* What is owed is the unsaturated sum, saturated once.
LEMMA OwedIs ==
  ASSUME NEW fl, FlowsOK(fl), NEW p, NEW d \in Dir, NEW carry \in Counts
  PROVE  Owed(fl, carry, p)[d] = Sat(BytesOf(fl, p, d) + carry[d])
<1>1. SumBytes(fl, p)[d] = Sat(BytesOf(fl, p, d))
  BY DEF SumBytes, BytesOf, Bytewise
<1>2. BytesOf(fl, p, d) \in Nat /\ carry[d] \in Nat
  BY BytesType, EngineAssumption DEF Counts, Bytes
<1>3. Owed(fl, carry, p)[d] = Sat(SumBytes(fl, p)[d] + carry[d])
  BY DEF Owed, SatAdd
<1> QED
  BY <1>1, <1>2, <1>3, SatOfSums

\* The table fl became fl2 and lost no flow: a described flow stayed with its
\* owner, and no counter ran backwards.
Grew(fl, fl2) ==
  /\ DOMAIN fl \subseteq DOMAIN fl2
  /\ \A s \in DOMAIN fl :
       /\ fl[s].described => fl2[s].described /\ fl2[s].pid = fl[s].pid
       /\ \A d \in Dir : fl2[s].bytes[d] >= fl[s].bytes[d]

\* News of a flow, as a relation between two tables.
News(fl, fl2, s) == \/ s \notin DOMAIN fl
                    \/ fl2[s].bytes # fl[s].bytes
                    \/ fl2[s].described # fl[s].described

\* A table that grew owes no less for the same carry, and just as much when it
\* brought no news.
LEMMA GrownOwesMore ==
  ASSUME NEW fl, FlowsOK(fl), NEW fl2, FlowsOK(fl2), Grew(fl, fl2),
         NEW p, NEW d \in Dir, NEW carry \in Counts
  PROVE  /\ Owed(fl, carry, p)[d] <= Owed(fl2, carry, p)[d]
         /\ (\A s \in DOMAIN fl2 : ~News(fl, fl2, s)) =>
              Owed(fl2, carry, p)[d] = Owed(fl, carry, p)[d]
<1> DEFINE F == FlowsOf(fl, p)
           G == FlowsOf(fl2, p)
<1>1. IsFiniteSet(F) /\ IsFiniteSet(G) /\ BytesOf(fl, p, d) \in Nat /\ BytesOf(fl2, p, d) \in Nat
  BY BytesType
<1>2. F \subseteq G
  BY DEF FlowsOf, Grew
<1>3. \A s \in F : /\ Bytewise(fl, d)[s] \in Nat /\ Bytewise(fl2, d)[s] \in Nat
                   /\ Bytewise(fl, d)[s] <= Bytewise(fl2, d)[s]
  <2> SUFFICES ASSUME NEW s \in F
               PROVE  /\ Bytewise(fl, d)[s] \in Nat /\ Bytewise(fl2, d)[s] \in Nat
                      /\ Bytewise(fl, d)[s] <= Bytewise(fl2, d)[s]
    OBVIOUS
  <2>1. s \in DOMAIN fl /\ s \in DOMAIN fl2
    BY DEF FlowsOf, Grew
  <2>2. fl2[s].bytes[d] >= fl[s].bytes[d]
    BY <2>1 DEF Grew
  <2> QED
    BY <2>1, <2>2, BytesType
<1>4. \A s \in G : Bytewise(fl2, d)[s] \in Nat
  BY BytesType
<1>5. BytesOf(fl, p, d) <= BytesOf(fl2, p, d)
  <2>1. SumFunctionOnSet(Bytewise(fl, d), F) <= SumFunctionOnSet(Bytewise(fl2, d), F)
    BY <1>1, <1>3, SumMonotone
  <2>2. /\ SumFunctionOnSet(Bytewise(fl2, d), F) \in Nat
        /\ SumFunctionOnSet(Bytewise(fl2, d), F) <= SumFunctionOnSet(Bytewise(fl2, d), G)
    BY <1>1, <1>2, <1>4, SumOfSubset
  <2> QED
    BY <1>1, <2>1, <2>2 DEF BytesOf
<1>6. carry[d] \in Nat
  BY EngineAssumption DEF Counts, Bytes
<1>7. /\ Owed(fl, carry, p)[d] = Sat(BytesOf(fl, p, d) + carry[d])
      /\ Owed(fl2, carry, p)[d] = Sat(BytesOf(fl2, p, d) + carry[d])
  BY OwedIs
<1>8. ASSUME \A s \in DOMAIN fl2 : ~News(fl, fl2, s)
      PROVE  BytesOf(fl2, p, d) = BytesOf(fl, p, d)
  <2>1. \A s \in DOMAIN fl2 : /\ s \in DOMAIN fl /\ fl2[s].bytes = fl[s].bytes
                              /\ fl2[s].described = fl[s].described
    BY <1>8 DEF News
  <2>2. G = F
    BY <1>2, <2>1 DEF FlowsOf, Grew
  <2>3. \A s \in F : Bytewise(fl2, d)[s] = Bytewise(fl, d)[s]
    BY <2>1, <2>2 DEF Bytewise, FlowsOf
  <2> QED
    BY <1>1, <2>2, <2>3, SumEqual DEF BytesOf
<1> QED
  BY <1>1, <1>5, <1>6, <1>7, <1>8, SatOfSums

\* A flow that closes without an owner, or with another one, takes nothing from p.
LEMMA OtherCloses ==
  ASSUME NEW fl, FlowsOK(fl), NEW s, NEW p, p # 0, NEW d \in Dir, NEW carry \in Counts,
         ~(s \in DOMAIN fl /\ Owned(fl[s]) /\ fl[s].pid = p)
  PROVE  Owed(Restrict(fl, DOMAIN fl \ {s}), carry, p)[d] = Owed(fl, carry, p)[d]
<1> DEFINE fl2 == Restrict(fl, DOMAIN fl \ {s})
<1>1. FlowsOK(fl2) /\ DOMAIN fl2 = DOMAIN fl \ {s} /\ \A r \in DOMAIN fl2 : fl2[r] = fl[r]
  BY DEF Restrict, FlowsOK
<1> HIDE DEF fl2
<1>2. FlowsOf(fl2, p) = FlowsOf(fl, p)
  BY <1>1 DEF FlowsOf, Owned
<1>3. \A r \in FlowsOf(fl, p) : Bytewise(fl2, d)[r] = Bytewise(fl, d)[r]
  BY <1>1, <1>2 DEF Bytewise, FlowsOf
<1>4. BytesOf(fl2, p, d) = BytesOf(fl, p, d)
  BY <1>2, <1>3, BytesType, SumEqual DEF BytesOf
<1> QED
  BY <1>1, <1>4, OwedIs DEF fl2

\* The bytes a closing flow takes from the table are those its carry gains.
LEMMA OwnCloses ==
  ASSUME NEW fl, FlowsOK(fl), NEW s \in DOMAIN fl, Owned(fl[s]),
         NEW d \in Dir, NEW carry \in Counts
  PROVE  Owed(Restrict(fl, DOMAIN fl \ {s}), SatAdd(carry, fl[s].bytes), fl[s].pid)[d]
           = Owed(fl, carry, fl[s].pid)[d]
<1> DEFINE fl2 == Restrict(fl, DOMAIN fl \ {s})
           p == fl[s].pid
<1>1. FlowsOK(fl2) /\ DOMAIN fl2 = DOMAIN fl \ {s} /\ \A r \in DOMAIN fl2 : fl2[r] = fl[r]
  BY DEF Restrict, FlowsOK
<1> HIDE DEF fl2
<1>2. s \in FlowsOf(fl, p) /\ FlowsOf(fl2, p) = FlowsOf(fl, p) \ {s}
  BY <1>1 DEF FlowsOf, Owned
<1> HIDE DEF p
<1>3. IsFiniteSet(FlowsOf(fl, p)) /\ \A r \in FlowsOf(fl, p) : Bytewise(fl, d)[r] \in Nat
  BY BytesType
<1>4. BytesOf(fl, p, d) = Bytewise(fl, d)[s] + SumFunctionOnSet(Bytewise(fl, d), FlowsOf(fl2, p))
  BY <1>2, <1>3, SumTakeOut DEF BytesOf
<1>5. \A r \in FlowsOf(fl2, p) : Bytewise(fl2, d)[r] = Bytewise(fl, d)[r]
  BY <1>1 DEF Bytewise, FlowsOf
<1>6. SumFunctionOnSet(Bytewise(fl2, d), FlowsOf(fl2, p))
        = SumFunctionOnSet(Bytewise(fl, d), FlowsOf(fl2, p))
  BY <1>1, <1>5, BytesType, SumEqual
<1>7. BytesOf(fl, p, d) = fl[s].bytes[d] + BytesOf(fl2, p, d)
  BY <1>4, <1>6, BytesType DEF BytesOf
<1>8. BytesOf(fl2, p, d) \in Nat /\ fl[s].bytes[d] \in Nat /\ carry[d] \in Nat
  BY <1>1, BytesType, EngineAssumption DEF Counts, Bytes
<1>9. SatAdd(carry, fl[s].bytes) \in Counts /\ SatAdd(carry, fl[s].bytes)[d] = Sat(carry[d] + fl[s].bytes[d])
  BY CountsType DEF SatAdd
<1> DEFINE more == SatAdd(carry, fl[s].bytes)
<1> HIDE DEF more
<1>10. Owed(fl2, more, p)[d] = SatAdd(SumBytes(fl2, p), more)[d]
  BY DEF Owed
<1>11. SumBytes(fl2, p)[d] = Sat(BytesOf(fl2, p, d))
  BY DEF SumBytes, BytesOf, Bytewise
<1>12. Owed(fl2, more, p)[d] = Sat(Sat(BytesOf(fl2, p, d)) + more[d])
  BY <1>10, <1>11 DEF SatAdd
<1>13. more[d] = Sat(carry[d] + fl[s].bytes[d])
  BY <1>9 DEF more
<1>14. Owed(fl2, more, p)[d] = Sat(BytesOf(fl2, p, d) + carry[d] + fl[s].bytes[d])
  BY <1>8, <1>12, <1>13, SatOfSums
<1>15. Owed(fl, carry, p)[d] = Sat(BytesOf(fl, p, d) + carry[d])
  BY OwedIs
<1>16. BytesOf(fl, p, d) + carry[d] = BytesOf(fl2, p, d) + carry[d] + fl[s].bytes[d]
  BY <1>7, <1>8
<1> QED
  BY <1>14, <1>15, <1>16 DEF more, p, fl2

\* A debt is a counter value.
LEMMA OwedType ==
  ASSUME NEW fl, NEW carry, NEW p, NEW d \in Dir
  PROVE  Owed(fl, carry, p)[d] \in Nat
  BY SatType, EngineAssumption DEF Owed, SatAdd, Bytes

\* A descriptor loses no flow, and nothing that describes one.
LEMMA DescKeepsDescribed ==
  ASSUME NEW fl, FlowsOK(fl), NEW s, NEW q \in Pids
  PROVE  /\ DOMAIN fl \subseteq DOMAIN WithDesc(fl, s, q)
         /\ \A r \in DOMAIN fl : fl[r].described => WithDesc(fl, s, q)[r].described
  BY DEF WithDesc, Put, FlowAt, FlowsOK, Flow

\* Nor do counters.
LEMMA CountsKeepDescribed ==
  ASSUME NEW fl, FlowsOK(fl), NEW s, NEW c
  PROVE  /\ DOMAIN fl \subseteq DOMAIN WithCounts(fl, s, c)
         /\ \A r \in DOMAIN fl : fl[r].described => WithCounts(fl, s, c)[r].described
  BY DEF WithCounts, Put, FlowsOK, Flow

\* No counter runs backwards and no described flow changes owner in a step.
Steady ==
  \A s \in DOMAIN flows \cap DOMAIN flows' :
    /\ \A d \in Dir : flows'[s].bytes[d] >= flows[s].bytes[d]
    /\ flows[s].described => flows'[s].pid = flows[s].pid

\* What a step does to the debt to p.
KeepsDebt(p) ==
  \A d \in Dir :
    /\ Owed(flows, Carry(p), p)[d] <= Owed(flows', Carry(p)', p)[d]
    /\ (\A s \in DOMAIN flows' : ~NewsFor(s)) =>
         Owed(flows', Carry(p)', p)[d] = Owed(flows, Carry(p), p)[d]

\* A step that loses no flow, and leaves the carry of p alone, keeps the debt.
LEMMA GrowthKeepsDebt ==
  ASSUME TypeOK, TypeOK', Steady, NEW p \in Pids, Carry(p)' = Carry(p),
         DOMAIN flows \subseteq DOMAIN flows',
         \A s \in DOMAIN flows : flows[s].described => flows'[s].described
  PROVE  KeepsDebt(p)
<1>1. FlowsOK(flows) /\ FlowsOK(flows') /\ Carry(p) \in Counts
  BY CountsType DEF TypeOK, FlowsOK, Carry
<1>2. Grew(flows, flows')
  BY DEF Grew, Steady
<1>3. \A s \in DOMAIN flows' : News(flows, flows', s) <=> NewsFor(s)
  BY DEF News, NewsFor
<1> QED
  BY <1>1, <1>2, <1>3, GrownOwesMore DEF KeepsDebt

\* No step shrinks what the table owes a process, except that a tick forgets those
\* without a flow: a close hands its bytes to the carry, and saturating in two
\* places (the sum, the carry) is saturating once.
LEMMA StepKeepsDebt ==
  ASSUME TypeOK, TypeOK', [Next]_vars, Steady, NEW p \in Pids \ {0},
         p \in Owners(flows') \/ \A dt \in Spans : ~Tick(dt)
  PROVE  KeepsDebt(p)
<1>0. FlowsOK(flows) /\ FlowsOK(flows') /\ Carry(p) \in Counts /\ p # 0
  BY CountsType DEF TypeOK, FlowsOK, Carry
<1>1. ASSUME UNCHANGED retired, DOMAIN flows \subseteq DOMAIN flows',
             \A s \in DOMAIN flows : flows[s].described => flows'[s].described
      PROVE  KeepsDebt(p)
  BY <1>1, GrowthKeepsDebt DEF Carry
<1>2. ASSUME NEW s \in SrcRefs, OnAdded(s) PROVE KeepsDebt(p)
  BY <1>1, <1>2 DEF OnAdded, Put, FlowAt
<1>3. ASSUME NEW s \in SrcRefs, NEW q \in Pids, OnDesc(s, q) PROVE KeepsDebt(p)
  BY <1>0, <1>1, <1>3, DescKeepsDescribed DEF OnDesc
<1>4. ASSUME NEW s \in SrcRefs, NEW c \in Counts, OnCounts(s, c) PROVE KeepsDebt(p)
  BY <1>0, <1>1, <1>4, CountsKeepDescribed DEF OnCounts
<1>5. ASSUME NEW s \in SrcRefs, NEW c \in Counts, NEW q \in Pids \cup {NoDesc},
             OnUpdate(s, c, q)
      PROVE  KeepsDebt(p)
  <2> DEFINE fl == IF q = NoDesc THEN flows ELSE WithDesc(flows, s, q)
  <2>1. /\ FlowsOK(fl) /\ DOMAIN flows \subseteq DOMAIN fl
        /\ \A r \in DOMAIN flows : flows[r].described => fl[r].described
    BY <1>0, WithDescType, DescKeepsDescribed
  <2>2. flows' = WithCounts(fl, s, c) /\ UNCHANGED retired
    BY <1>5 DEF OnUpdate
  <2> HIDE DEF fl
  <2>3. /\ DOMAIN fl \subseteq DOMAIN flows'
        /\ \A r \in DOMAIN fl : fl[r].described => flows'[r].described
    BY <2>1, <2>2, CountsKeepDescribed
  <2> QED
    BY <1>1, <2>1, <2>2, <2>3
<1>6. ASSUME NEW s \in SrcRefs, OnRemoved(s) PROVE KeepsDebt(p)
  <2>1. flows' = Restrict(flows, DOMAIN flows \ {s})
    BY <1>6 DEF OnRemoved
  <2>2. CASE s \in DOMAIN flows /\ Owned(flows[s]) /\ flows[s].pid = p
    <3>1. Carry(p)' = SatAdd(Carry(p), flows[s].bytes)
      BY <1>6, <2>2 DEF OnRemoved, Retire, Carry
    <3>2. ASSUME NEW d \in Dir
          PROVE  /\ Owed(flows', Carry(p)', p)[d] = Owed(flows, Carry(p), p)[d]
                 /\ Owed(flows, Carry(p), p)[d] \in Nat
      BY <1>0, <2>1, <2>2, <3>1, OwnCloses, OwedType
    <3> QED
      BY <3>2 DEF KeepsDebt
  <2>3. CASE ~(s \in DOMAIN flows /\ Owned(flows[s]) /\ flows[s].pid = p)
    <3>1. Carry(p)' = Carry(p)
      BY <1>6, <2>3 DEF OnRemoved, Retire, Carry
    <3>2. ASSUME NEW d \in Dir
          PROVE  /\ Owed(flows', Carry(p)', p)[d] = Owed(flows, Carry(p), p)[d]
                 /\ Owed(flows, Carry(p), p)[d] \in Nat
      <4> DEFINE carry == Carry(p)
      <4>1. carry \in Counts
        BY <1>0
      <4> HIDE DEF carry
      <4>2. Owed(Restrict(flows, DOMAIN flows \ {s}), carry, p)[d] = Owed(flows, carry, p)[d]
        <5>1. FlowsOK(flows) /\ p # 0
          BY <1>0
        <5> QED
          BY <2>3, <4>1, <5>1, OtherCloses
      <4>3. Owed(flows, carry, p)[d] \in Nat
        BY OwedType
      <4> QED
        BY <2>1, <3>1, <4>2, <4>3 DEF carry
    <3> QED
      BY <3>2 DEF KeepsDebt
  <2> QED
    BY <2>2, <2>3
<1>7. ASSUME NEW dt \in Spans, Tick(dt) PROVE KeepsDebt(p)
  <2>1. flows' = [s \in DOMAIN flows |-> Sampled(flows[s], dt)]
    BY <1>7 DEF Tick
  <2>2. \A s \in DOMAIN flows : flows'[s].described = flows[s].described
    <3>1. \A f \in Flow : Sampled(f, dt).described = f.described
      BY DEF Flow, Sampled
    <3> QED
      BY <1>0, <2>1, <3>1 DEF FlowsOK
  <2>3. Carry(p)' = Carry(p)
    BY <1>7, <2>1 DEF Tick, CarryAfter, Restrict, Carry
  <2> QED
    BY <2>1, <2>2, <2>3, GrowthKeepsDebt
<1>8. CASE Reprime
  <2>1. \A s \in DOMAIN flows : flows'[s].described = flows[s].described
    BY <1>0, <1>8 DEF FlowsOK, Flow, Reprime
  <2> QED
    BY <1>1, <1>8, <2>1 DEF Reprime
<1>9. CASE UNCHANGED vars
  BY <1>1, <1>9 DEF vars
<1> QED
  BY <1>2, <1>3, <1>4, <1>5, <1>6, <1>7, <1>8, <1>9 DEF Next

\* TOTAL never drops, and moves only with news, for any number of flows and
\* processes and any counter width: every close hands its bytes to the carry, and
\* the tick prunes only carries of processes without a flow.
THEOREM TotalsAreKept == Spec => TotalsKept
<1>1. TypeOK /\ TypeOK' /\ [Next]_vars
        => [ Steady => \A p \in Owners(flows) \cap Owners(flows') : KeepsDebt(p) ]_vars
  <2> SUFFICES ASSUME TypeOK, TypeOK', [Next]_vars, Steady,
                      NEW p \in Owners(flows) \cap Owners(flows')
               PROVE  KeepsDebt(p)
    OBVIOUS
  <2>1. p \in Pids \ {0}
    BY OwnersType DEF TypeOK, FlowsOK
  <2> QED
    BY <2>1, StepKeepsDebt
<1>2. [ Steady => \A p \in Owners(flows) \cap Owners(flows') : KeepsDebt(p) ]_vars
        => [ ( \A s \in DOMAIN flows \cap DOMAIN flows' :
                 /\ \A d \in Dir : flows'[s].bytes[d] >= flows[s].bytes[d]
                 /\ flows[s].described => flows'[s].pid = flows[s].pid )
             => \A p \in Owners(flows) \cap Owners(flows') : \A d \in Dir :
                  /\ Owed(flows, Carry(p), p)[d] <= Owed(flows', Carry(p)', p)[d]
                  /\ (\A s \in DOMAIN flows' : ~NewsFor(s)) =>
                       Owed(flows', Carry(p)', p)[d] = Owed(flows, Carry(p), p)[d] ]_vars
  BY DEF Steady, KeepsDebt
<1> QED
  BY <1>1, <1>2, TypeCorrect, PTL DEF Spec, TotalsKept

\* What is on screen is covered by what the table owes.
Covered == \A p \in DOMAIN rows : \A d \in Dir : rows[p].total[d] <= Owed(flows, Carry(p), p)[d]

\* A tick shows exactly what the table owes.
LEMMA TickPaysDebt ==
  ASSUME TypeOK, NEW dt \in Spans, Tick(dt)
  PROVE  /\ DOMAIN rows' = Owners(flows')
         /\ \A p \in DOMAIN rows' : rows'[p].total = Owed(flows', Carry(p)', p)
<1>1. DOMAIN rows' = Owners(flows') /\ \A p \in DOMAIN rows' : rows'[p] = RowOf(flows', p)
  BY DEF Tick
<1>2. \A p \in Owners(flows') : Carry(p)' = Carry(p)
  BY DEF Tick, CarryAfter, Restrict, Carry
<1> QED
  BY <1>1, <1>2 DEF RowOf, Owed

\* As long as no counter runs backwards and no described flow changes owner, what is
\* on screen stays covered, so the next tick shows no process less than the last.
LEMMA ShownTotals ==
  ASSUME TypeOK, TypeOK', [Next]_vars, Steady, Covered
  PROVE  /\ Covered'
         /\ \A p \in DOMAIN rows \cap DOMAIN rows' : \A d \in Dir :
              rows'[p].total[d] >= rows[p].total[d]
<1>1. \A p \in DOMAIN rows : p \in Pids \ {0} /\ \A d \in Dir : rows[p].total[d] \in Nat
  BY EngineAssumption DEF TypeOK, Row, Counts, Bytes
<1>2. \A p, d : d \in Dir => /\ Owed(flows, Carry(p), p)[d] \in Nat
                             /\ Owed(flows', Carry(p)', p)[d] \in Nat
  BY OwedType
<1>3. CASE \E dt \in Spans : Tick(dt)
  <2>1. /\ DOMAIN rows' = Owners(flows')
        /\ \A p \in DOMAIN rows' : rows'[p].total = Owed(flows', Carry(p)', p)
    BY <1>3, TickPaysDebt
  <2>2. \A p \in DOMAIN rows \cap DOMAIN rows' : KeepsDebt(p)
    BY <1>1, <2>1, StepKeepsDebt
  <2>3. Covered'
    BY <1>2, <2>1 DEF Covered
  <2>4. \A p \in DOMAIN rows \cap DOMAIN rows' : \A d \in Dir :
          rows'[p].total[d] >= rows[p].total[d]
    BY <1>1, <1>2, <2>1, <2>2 DEF KeepsDebt, Covered
  <2> QED
    BY <2>3, <2>4
<1>4. CASE \A dt \in Spans : ~Tick(dt)
  <2>1. rows' = rows
    BY <1>4 DEF Next, OnAdded, OnDesc, OnCounts, OnUpdate, OnRemoved, Reprime, vars
  <2>2. \A p \in DOMAIN rows : KeepsDebt(p)
    BY <1>1, <1>4, StepKeepsDebt
  <2>3. Covered'
    BY <1>1, <1>2, <2>1, <2>2 DEF KeepsDebt, Covered
  <2> QED
    BY <1>1, <2>1, <2>3
<1> QED
  BY <1>3, <1>4

----------------------------------------------------------------------------
(* The Engine implements RateMeter.                                        *)

Mapped(fl) == [s \in DOMAIN fl |-> MeterOf(fl[s])]

\* The meter of a table after one flow was put into it.
LEMMA MappedPut ==
  ASSUME NEW fl, NEW s, NEW f
  PROVE  Mapped(Put(fl, s, f)) = Put(Mapped(fl), s, MeterOf(f))
  BY DEF Mapped, Put

\* Reading a source just put into the meter.
LEMMA PutThenRead ==
  ASSUME NEW m, NEW s, NEW f, NEW c
  PROVE  [Put(m, s, f) EXCEPT ![s].last = c] = Put(m, s, [f EXCEPT !.last = c])
<1>1. Put(m, s, f)[s] = f
  BY DEF Put
<1> DEFINE g == [f EXCEPT !.last = c]
<1>2. [Put(m, s, f) EXCEPT ![s].last = c] = [Put(m, s, f) EXCEPT ![s] = g]
  BY <1>1
<1> HIDE DEF g
<1>3. [Put(m, s, f) EXCEPT ![s] = g] = Put(m, s, g)
  BY DEF Put
<1> QED
  BY <1>2, <1>3 DEF g

\* A descriptor is no news to the meter: at most it opens a source.
LEMMA MappedDesc ==
  ASSUME NEW fl, FlowsOK(fl), NEW s \in SrcRefs, NEW p \in Pids
  PROVE  Mapped(WithDesc(fl, s, p)) = Put(Mapped(fl), s, MeterOf(FlowAt(fl, s)))
<1> DEFINE f == [FlowAt(fl, s) EXCEPT !.pid = p, !.described = TRUE]
<1>1. FlowAt(fl, s) \in Flow
  BY PutType, NewFlowType
<1>2. MeterOf(f) = MeterOf(FlowAt(fl, s))
  BY <1>1 DEF MeterOf, Flow
<1>3. WithDesc(fl, s, p) = Put(fl, s, f)
  BY DEF WithDesc
<1> HIDE DEF f
<1> QED
  BY <1>2, <1>3, MappedPut

\* Counters for a tracked flow are its last reading.
LEMMA MappedCounts ==
  ASSUME NEW fl, FlowsOK(fl), NEW s \in DOMAIN fl, NEW c \in Counts
  PROVE  Mapped(WithCounts(fl, s, c)) = [Mapped(fl) EXCEPT ![s].last = c]
<1> DEFINE f == [fl[s] EXCEPT !.bytes = c, !.counted = TRUE]
<1>1. MeterOf(f) = [MeterOf(fl[s]) EXCEPT !.last = c]
  BY DEF MeterOf, FlowsOK, Flow
<1>2. Mapped(Put(fl, s, f)) = Put(Mapped(fl), s, MeterOf(f))
  BY MappedPut
<1>3. WithCounts(fl, s, c) = Put(fl, s, f)
  BY DEF WithCounts
<1>4. Mapped(fl)[s] = MeterOf(fl[s]) /\ DOMAIN Mapped(fl) = DOMAIN fl /\ DOMAIN fl \cup {s} = DOMAIN fl
  BY DEF Mapped
<1>5. [Mapped(fl) EXCEPT ![s].last = c] =
        [r \in DOMAIN fl |-> IF r = s THEN [MeterOf(fl[s]) EXCEPT !.last = c] ELSE Mapped(fl)[r]]
  BY <1>4 DEF Mapped
<1> QED
  BY <1>1, <1>2, <1>3, <1>4, <1>5 DEF Put

\* Every step of the Engine is a step of RateMeter on the mapped table, or leaves
\* it alone: the flags counted and primed are a faithful encoding of a reading
\* and a baseline that may be missing.
THEOREM EngineMeters == Spec => MeterSpec
<1> DEFINE M == Mapped(flows)
<1>1. Init => Meter!Init
  BY DEF Init, Meter!Init
<1>2. TypeOK /\ RateIsMeasured /\ [Next]_vars => [Meter!Next]_M
  <2> SUFFICES ASSUME TypeOK, RateIsMeasured, [Next]_vars PROVE Meter!Next \/ M' = M
    BY DEF Mapped
  <2>0. FlowsOK(flows)
    BY DEF TypeOK, FlowsOK
  <2>1. ASSUME NEW s \in SrcRefs, OnAdded(s) PROVE Meter!Next \/ M' = M
    <3>1. CASE s \in DOMAIN flows
      BY <2>0, <2>1, <3>1 DEF OnAdded, Put, FlowAt, Mapped, FlowsOK
    <3>2. CASE s \notin DOMAIN flows
      <4>1. Meter!Open(s, NoCount)
        BY <2>1, <3>2 DEF OnAdded, Put, FlowAt, NewFlow, MeterOf, Meter!Open
      <4> QED
        BY <4>1 DEF Meter!Next, Meter!Reading
    <3> QED
      BY <3>1, <3>2
  <2>2. ASSUME NEW s \in SrcRefs, NEW p \in Pids, OnDesc(s, p) PROVE Meter!Next \/ M' = M
    <3>1. M' = Put(M, s, MeterOf(FlowAt(flows, s)))
      BY <2>0, <2>2, MappedDesc DEF OnDesc
    <3>2. CASE s \in DOMAIN flows
      <4>1. M[s] = MeterOf(flows[s]) /\ FlowAt(flows, s) = flows[s]
        BY <3>2 DEF Mapped, FlowAt
      <4> QED
        BY <3>1, <3>2, <4>1 DEF Put, Mapped
    <3>3. CASE s \notin DOMAIN flows
      <4>1. MeterOf(FlowAt(flows, s)) = [last |-> NoCount, base |-> NoCount, rate |-> Zero]
        BY <3>3 DEF FlowAt, NewFlow, MeterOf
      <4>2. Meter!Open(s, NoCount)
        BY <3>1, <3>3, <4>1 DEF Meter!Open, Mapped, Put
      <4> QED
        BY <4>2 DEF Meter!Next, Meter!Reading
    <3> QED
      BY <3>2, <3>3
  <2>3. ASSUME NEW s \in SrcRefs, NEW c \in Counts, OnCounts(s, c) PROVE Meter!Next \/ M' = M
    <3>1. CASE s \in DOMAIN flows
      <4>1. M' = [M EXCEPT ![s].last = c]
        BY <2>0, <2>3, <3>1, MappedCounts DEF OnCounts
      <4>2. Meter!Read(s, c)
        BY <3>1, <4>1 DEF Meter!Read, Mapped
      <4> QED
        BY <4>2 DEF Meter!Next
    <3>2. CASE s \notin DOMAIN flows
      BY <2>3, <3>2 DEF OnCounts, WithCounts, Mapped
    <3> QED
      BY <3>1, <3>2
  <2>4. ASSUME NEW s \in SrcRefs, NEW c \in Counts, NEW p \in Pids \cup {NoDesc},
               OnUpdate(s, c, p)
        PROVE  Meter!Next \/ M' = M
    <3> DEFINE fl == IF p = NoDesc THEN flows ELSE WithDesc(flows, s, p)
    <3>1. FlowsOK(fl)
      BY <2>0, WithDescType
    <3>2. flows' = WithCounts(fl, s, c)
      BY <2>4 DEF OnUpdate
    <3>3. CASE s \in DOMAIN flows
      <4>1. Mapped(fl) = M /\ s \in DOMAIN fl
        <5>1. CASE p = NoDesc
          BY <3>3, <5>1
        <5>2. CASE p # NoDesc
          <6>1. p \in Pids /\ fl = WithDesc(flows, s, p)
            BY <5>2
          <6>2. s \in DOMAIN fl
            BY <6>1 DEF WithDesc, Put
          <6>3. Mapped(fl) = Put(Mapped(flows), s, MeterOf(FlowAt(flows, s)))
            BY <2>0, <6>1, MappedDesc
          <6>4. Mapped(fl) = Mapped(flows)
            BY <3>3, <6>3 DEF FlowAt, Mapped, Put
          <6> QED
            BY <6>2, <6>4
        <5> QED
          BY <5>1, <5>2
      <4>2. M' = [M EXCEPT ![s].last = c]
        BY <3>1, <3>2, <4>1, MappedCounts
      <4>3. Meter!Read(s, c)
        BY <3>3, <4>2 DEF Meter!Read, Mapped
      <4> QED
        BY <4>3 DEF Meter!Next
    <3>4. CASE s \notin DOMAIN flows /\ p = NoDesc
      BY <3>2, <3>4 DEF WithCounts, Mapped
    <3>5. CASE s \notin DOMAIN flows /\ p # NoDesc
      <4>1. p \in Pids /\ fl = WithDesc(flows, s, p)
        BY <3>5
      <4>2. Mapped(fl) = Put(Mapped(flows), s, MeterOf(FlowAt(flows, s)))
        BY <2>0, <4>1, MappedDesc
      <4>3. MeterOf(FlowAt(flows, s)) = [last |-> NoCount, base |-> NoCount, rate |-> Zero]
        BY <3>5 DEF FlowAt, NewFlow, MeterOf
      <4>4. s \in DOMAIN fl
        BY <4>1 DEF WithDesc, Put
      <4>5. M' = [Mapped(fl) EXCEPT ![s].last = c]
        BY <3>1, <3>2, <4>4, MappedCounts
      <4> DEFINE fresh == [last |-> NoCount, base |-> NoCount, rate |-> Zero]
      <4>6. [fresh EXCEPT !.last = c] = [last |-> c, base |-> NoCount, rate |-> Zero]
        OBVIOUS
      <4>7. Meter!Open(s, c)
        <5>1. M' = Put(M, s, [last |-> c, base |-> NoCount, rate |-> Zero])
          BY <4>2, <4>3, <4>5, <4>6, PutThenRead
        <5> QED
          BY <3>5, <5>1 DEF Meter!Open, Mapped, Put
      <4> QED
        BY <4>7 DEF Meter!Next, Meter!Reading
    <3> QED
      BY <3>3, <3>4, <3>5
  <2>5. ASSUME NEW s \in SrcRefs, OnRemoved(s) PROVE Meter!Next \/ M' = M
    <3>1. flows' = [r \in DOMAIN flows \ {s} |-> flows[r]]
      BY <2>5 DEF OnRemoved, Restrict
    <3>2. CASE s \in DOMAIN flows
      <4>1. Meter!Close(s)
        BY <3>1, <3>2 DEF Meter!Close, Mapped
      <4> QED
        BY <4>1 DEF Meter!Next
    <3>3. CASE s \notin DOMAIN flows
      BY <2>0, <3>1, <3>3 DEF Mapped
    <3> QED
      BY <3>2, <3>3
  <2>6. ASSUME NEW dt \in Spans, Tick(dt) PROVE Meter!Next \/ M' = M
    <3>1. flows' = [s \in DOMAIN flows |-> Sampled(flows[s], dt)]
      BY <2>6 DEF Tick
    <3>2. ASSUME NEW s \in DOMAIN flows
          PROVE  MeterOf(Sampled(flows[s], dt)) =
                   [last |-> M[s].last, base |-> M[s].last,
                    rate |-> IF M[s].base # NoCount /\ dt > 0
                             THEN Monus(M[s].last, M[s].base) ELSE Zero]
      <4> DEFINE f == flows[s]
                 g == Sampled(f, dt)
      <4>1. f \in Flow /\ (~f.counted => Idle(f))
        BY <2>0 DEF FlowsOK, RateIsMeasured, Idle
      <4>2. M[s] = MeterOf(f)
        BY DEF Mapped
      <4>3. /\ g.counted = f.counted
            /\ g.primed = (f.primed \/ f.counted)
            /\ g.bytes = f.bytes /\ g.prev = f.bytes
            /\ g.rate = IF f.primed /\ dt > 0 THEN Monus(f.bytes, f.prev) ELSE Zero
        BY <4>1, SampledMeasured
      <4>4. f.bytes # NoCount /\ f.prev # NoCount /\ (f.primed => f.counted)
        BY <4>1, MeterAssumption DEF Flow, Idle
      <4> HIDE DEF f, g
      <4>5. g.primed = f.counted
        BY <4>1, <4>3, <4>4 DEF Flow
      <4>6. (M[s].base # NoCount) <=> f.primed
        BY <4>2, <4>4 DEF MeterOf
      <4>7. M[s].last = (IF f.counted THEN f.bytes ELSE NoCount) /\ (f.primed => M[s].base = f.prev)
        BY <4>2 DEF MeterOf
      <4>8. g.rate = IF M[s].base # NoCount /\ dt > 0 THEN Monus(M[s].last, M[s].base) ELSE Zero
        BY <4>3, <4>4, <4>6, <4>7
      <4> QED
        BY <4>3, <4>5, <4>7, <4>8 DEF MeterOf, f, g
    <3>3. Meter!Sample(dt)
      BY <3>1, <3>2 DEF Meter!Sample, Mapped
    <3> QED
      BY <3>3 DEF Meter!Next
  <2>7. CASE Reprime
    <3>1. \A s \in DOMAIN flows :
            MeterOf([flows[s] EXCEPT !.primed = FALSE]) = [M[s] EXCEPT !.base = NoCount]
      BY <2>0 DEF Mapped, MeterOf, FlowsOK, Flow
    <3>2. Meter!Rebase
      BY <2>7, <3>1 DEF Reprime, Meter!Rebase, Mapped
    <3> QED
      BY <3>2 DEF Meter!Next
  <2>8. CASE UNCHANGED vars
    BY <2>8 DEF vars, Mapped
  <2> QED
    BY <2>1, <2>2, <2>3, <2>4, <2>5, <2>6, <2>7, <2>8 DEF Next
<1> QED
  BY <1>1, <1>2, TypeCorrect, RatesAreMeasured, PTL DEF Spec, MeterSpec, Meter!Spec, Mapped
=============================================================================
