--------------------------- MODULE TuiLoopProofs ----------------------------
(***************************************************************************)
(* What a rate measures, for sessions of any length, any number of         *)
(* sources, any interval and any wait: the bytes between the last two      *)
(* polls, and never a pause.                                               *)
(***************************************************************************)
EXTENDS TuiLoop, SequenceTheorems, TLAPS

\* The theorems of the Engine, for this Engine.
EP == INSTANCE EngineProofs WITH NoCount <- CHOOSE c : c \notin E!Counts, shed <- <<>>

----------------------------------------------------------------------------
(* The invariant.                                                          *)

Message ==
  [type : {"added"}, src : SrcRefs]
  \cup [type : {"counts"}, src : SrcRefs, counts : E!Counts]

Counting(i, s) == stream[i].type = "counts" /\ stream[i].src = s

\* Bytes carried by time t by a source opened at o.
Carried(o, t) == Pace * (t - o)

LoopType ==
  /\ TypeOK
  /\ stream \in Seq(Message)
  /\ \A i \in 1..Len(stream) : stream[i].src \in DOMAIN opened
  /\ DOMAIN opened \subseteq SrcRefs /\ \A s \in DOMAIN opened : opened[s] \in 0..now
  /\ resumedAt \in Nat /\ polledAt[1] \in Nat /\ polledAt[2] \in Nat
  /\ updates \in Nat

\* The interval is timed from the last poll, time does not pass while a reply is
\* owed, and the pass that ends a pause comes after the last poll.
Clocks ==
  /\ lastTick = polledAt[1] /\ polledAt[2] <= polledAt[1]
  /\ query # {} => now = polledAt[1]
  /\ pc = "prime" => now = 0
  /\ pc \in {"prime", "drain", "sample"} /\ wasPaused => now > polledAt[1]

\* Counters come in order: each is at least what its flow holds and what is
\* before it, and at most what its source has carried.
InFlight ==
  \A i \in 1..Len(stream) : stream[i].type = "counts" => \A d \in Dir :
    /\ stream[i].counts[d] <= Carried(opened[stream[i].src], now)
    /\ stream[i].src \in DOMAIN flows =>
         flows[stream[i].src].bytes[d] <= stream[i].counts[d]
    /\ \A j \in 1..Len(stream) : j < i /\ Counting(j, stream[i].src) =>
         stream[j].counts[d] <= stream[i].counts[d]

\* An open source has a flow, or will have one before its counters are read.
Announced ==
  \A s \in DOMAIN opened :
    \/ s \in DOMAIN flows
    \/ \E i \in 1..Len(stream) : /\ stream[i].type = "added" /\ stream[i].src = s
                                 /\ \A j \in 1..Len(stream) : j < i => ~Counting(j, s)

Bounded ==
  \A s \in DOMAIN flows, d \in Dir : flows[s].bytes[d] <= Carried(opened[s], now)

\* The reply to the poll of the resume is owed, or on its way, or read.
ResumeAnswered ==
  resumedAt \notin drops => \A s \in DOMAIN opened :
    \/ s \in query /\ polledAt[1] = resumedAt
    \/ \E i \in 1..Len(stream) :
         Counting(i, s) /\ \A d \in Dir : stream[i].counts[d] >= Carried(opened[s], resumedAt)
    \/ s \in DOMAIN flows /\ \A d \in Dir : flows[s].bytes[d] >= Carried(opened[s], resumedAt)
    \/ opened[s] >= resumedAt

\* A pass that may tick has read it.
ReadBefore ==
  pc = "sample" /\ now > polledAt[1] /\ resumedAt \notin drops =>
    \A s \in DOMAIN flows, d \in Dir : flows[s].bytes[d] >= Carried(opened[s], resumedAt)

\* So no baseline lies before the resume.
BaselineAfter ==
  resumedAt \notin drops => \A s \in DOMAIN flows, d \in Dir :
    flows[s].primed => flows[s].prev[d] >= Carried(opened[s], resumedAt)

CountsAt(c, o, t) == \A d \in Dir : c[d] = Carried(o, t)

\* As long as the kernel volunteers nothing, counters are those of the last poll,
\* and baselines those of the poll before.
Unasked ==
  updates = 0 =>
    \A i \in 1..Len(stream) : stream[i].type = "counts" =>
      /\ CountsAt(stream[i].counts, opened[stream[i].src], polledAt[1])
      /\ ~(pc = "sample" /\ now > polledAt[1])
LastPoll ==
  updates = 0 /\ polledAt[1] \notin drops =>
    \A s \in DOMAIN flows : flows[s].counted =>
      \/ s \in query
      \/ \E i \in 1..Len(stream) : Counting(i, s)
      \/ CountsAt(flows[s].bytes, opened[s], polledAt[1])
PollBefore ==
  updates = 0 =>
    \A s \in DOMAIN flows : flows[s].primed =>
      /\ flows[s].counted
      /\ polledAt[2] \notin drops => CountsAt(flows[s].prev, opened[s], polledAt[2])

PauseInv == InFlight /\ Announced /\ Bounded /\ ResumeAnswered /\ ReadBefore /\ BaselineAfter
DeltaInv == Unasked /\ LastPoll /\ PollBefore
LoopInv  == LoopType /\ Clocks /\ PauseInv /\ DeltaInv

----------------------------------------------------------------------------
(* The Engine in this module and in its own are the same.                  *)

\* The assumptions of the Engine's theorems hold.
LEMMA EngineAssumptions == EP!EngineAssumption /\ EP!MeterAssumption
<1>1. EP!EngineAssumption
  BY EngineInstance
  DEF EP!EngineAssumption, E!EngineAssumption, E!IsFiniteSet, EP!IsFiniteSet
<1>2. (CHOOSE c : c \notin E!Counts) \notin E!Counts
  <2> DEFINE R == {x \in E!Counts : x \notin x}
  <2>1. R \notin E!Counts
    OBVIOUS
  <2> QED
    BY <2>1
<1>3. EP!Counts = E!Counts
  BY DEF E!Counts, EP!Counts, E!Bytes, EP!Bytes
<1> QED
  BY <1>1, <1>2, <1>3 DEF EP!MeterAssumption

\* Its types are.
LEMMA SameTypes == (E!TypeOK <=> EP!TypeOK) /\ (E!TypeOK' <=> EP!TypeOK')
<1>1. E!Counts = EP!Counts
  BY DEF E!Counts, EP!Counts, E!Bytes, EP!Bytes
<1>2. E!Flow = EP!Flow
  BY <1>1 DEF E!Flow, EP!Flow
<1>3. E!Row = EP!Row
  BY <1>1 DEF E!Row, EP!Row
<1>4. E!TypeOK <=> EP!TypeOK
  BY <1>1, <1>2, <1>3 DEF E!TypeOK, EP!TypeOK
<1>5. E!TypeOK' <=> EP!TypeOK'
  BY <1>1, <1>2, <1>3 DEF E!TypeOK, EP!TypeOK
<1> QED
  BY <1>4, <1>5

\* Its tick is.
LEMMA SameTick == \A dt : E!Tick(dt) <=> EP!Tick(dt)
<1>1. E!Zero = EP!Zero /\ E!Bytes = EP!Bytes
  BY DEF E!Zero, EP!Zero, E!Bytes, EP!Bytes
<1>2. /\ \A n : E!Sat(n) = EP!Sat(n)
      /\ \A a, b : E!Monus(a, b) = EP!Monus(a, b)
  BY <1>1 DEF E!Sat, EP!Sat, E!Monus, EP!Monus
<1>3. \A a, b : E!SatAdd(a, b) = EP!SatAdd(a, b)
  BY <1>2 DEF E!SatAdd, EP!SatAdd
<1>4. \A f, dt : E!Sampled(f, dt) = EP!Sampled(f, dt)
  BY <1>1, <1>2 DEF E!Sampled, EP!Sampled
<1>5. \A fl : /\ E!Owners(fl) = EP!Owners(fl)
              /\ \A p : E!FlowsOf(fl, p) = EP!FlowsOf(fl, p)
  BY DEF E!Owners, EP!Owners, E!Owned, EP!Owned, E!FlowsOf, EP!FlowsOf
<1>6. \A g, s : E!SumFunctionOnSet(g, s) = EP!SumFunctionOnSet(g, s)
  BY DEF E!SumFunctionOnSet, EP!SumFunctionOnSet, E!FoldFunctionOnSet, EP!FoldFunctionOnSet,
         E!MapThenFoldSet, EP!MapThenFoldSet
<1>7. \A fl, p : /\ E!SumRates(fl, p) = EP!SumRates(fl, p)
                 /\ E!SumBytes(fl, p) = EP!SumBytes(fl, p)
  BY <1>2, <1>5, <1>6 DEF E!SumRates, EP!SumRates, E!SumBytes, EP!SumBytes
<1>8. \A p : E!Carry(p) = EP!Carry(p)
  BY <1>1 DEF E!Carry, EP!Carry
<1>9. \A s : E!Cardinality(s) = EP!Cardinality(s)
  BY DEF E!Cardinality, EP!Cardinality
<1>10. \A fl, p : E!RowOf(fl, p) = EP!RowOf(fl, p)
  BY <1>3, <1>5, <1>7, <1>8, <1>9 DEF E!RowOf, EP!RowOf
<1>11. \A f, s : E!Restrict(f, s) = EP!Restrict(f, s)
  BY DEF E!Restrict, EP!Restrict
<1>12. \A fl : E!CarryAfter(fl) = EP!CarryAfter(fl)
  BY <1>5, <1>11 DEF E!CarryAfter, EP!CarryAfter
<1>13. /\ \A h, x : E!Push(h, x) = EP!Push(h, x)
       /\ \A r, dt : E!PerSecond(r, dt) = EP!PerSecond(r, dt)
  BY DEF E!Push, EP!Push, E!PerSecond, EP!PerSecond
<1>14. \A fl, dt : E!HistAfter(fl, dt) = EP!HistAfter(fl, dt)
  BY <1>5, <1>7, <1>13 DEF E!HistAfter, EP!HistAfter
<1> QED
  BY <1>4, <1>5, <1>10, <1>12, <1>14 DEF E!Tick, EP!Tick

\* The operations of the Engine that the loop calls keep its tables well typed.
LEMMA EngineTypes ==
  ASSUME E!TypeOK,
         \/ \E s \in SrcRefs : E!OnAdded(s)
         \/ \E s \in SrcRefs, c \in E!Counts : E!OnCounts(s, c)
         \/ \E dt \in Spans : E!Tick(dt)
         \/ E!Reprime
         \/ UNCHANGED engineVars
  PROVE  E!TypeOK'
<1>1. EP!TypeOK
  BY SameTypes
<1>2. (\E dt \in Spans : E!Tick(dt)) => EP!Next
  BY SameTick DEF EP!Next
<1>3. (\E s \in SrcRefs : E!OnAdded(s)) => EP!Next
  BY DEF EP!Next, E!OnAdded, EP!OnAdded, E!Put, EP!Put, E!FlowAt, EP!FlowAt,
         E!NewFlow, EP!NewFlow, E!Zero, EP!Zero
<1>4. (\E s \in SrcRefs, c \in E!Counts : E!OnCounts(s, c)) => EP!Next
  BY DEF EP!Next, E!OnCounts, EP!OnCounts, E!WithCounts, EP!WithCounts, E!Put, EP!Put,
         E!Counts, EP!Counts, E!Bytes, EP!Bytes
<1>5. E!Reprime => EP!Next
  BY DEF EP!Next, E!Reprime, EP!Reprime
<1>6. UNCHANGED engineVars => UNCHANGED EP!vars
  BY DEF engineVars, EP!vars
<1>7. [EP!Next]_(EP!vars)
  BY <1>2, <1>3, <1>4, <1>5, <1>6
<1>8. EP!TypeOK'
  BY <1>1, <1>7, EngineAssumptions, EP!TypeStep
<1> QED
  BY <1>8, SameTypes

----------------------------------------------------------------------------
(* What the steps below keep citing.                                       *)

\* Bytes carried grow with time, at Pace.
LEMMA CarriedFacts ==
  ASSUME NEW o \in Nat, NEW t \in Nat, NEW u \in Nat
  PROVE  /\ Carried(o, t) \in Int
         /\ t <= u => Carried(o, t) <= Carried(o, u)
         /\ t <= o => Carried(o, t) <= 0
         /\ o <= t => 0 <= Carried(o, t)
         /\ Carried(o, u) - Carried(o, t) = Pace * (u - t)
<1>1. Pace \in Nat
  BY TuiLoopAssumption
<1>2. \A a \in Nat : Pace * a \in Nat
  BY <1>1
<1>3. Carried(o, t) \in Int /\ Carried(o, u) \in Int /\ Carried(o, u) - Carried(o, t) = Pace * (u - t)
  BY <1>1 DEF Carried
<1>4. t <= u => Carried(o, t) <= Carried(o, u)
  BY <1>2, <1>3
<1>5. t <= o => Carried(o, t) <= 0
  <2>1. t <= o => Pace * (o - t) \in Nat
    BY <1>2
  <2>2. Carried(o, t) = -(Pace * (o - t))
    BY <1>1 DEF Carried
  <2> QED
    BY <2>1, <2>2, <1>1
<1>6. o <= t => 0 <= Carried(o, t)
  BY <1>2 DEF Carried
<1> QED
  BY <1>3, <1>4, <1>5, <1>6

\* The two kinds of messages.
LEMMA MessageFacts ==
  ASSUME NEW m \in Message
  PROVE  /\ m.type \in {"added", "counts"} /\ m.src \in SrcRefs
         /\ m.type = "counts" => m.counts \in E!Counts /\ \A d \in Dir : m.counts[d] \in Nat
  BY EngineInstance DEF Message, E!Counts, E!Bytes, E!EngineAssumption

\* A message joins the stream at its back.
LEMMA PostFacts ==
  ASSUME stream \in Seq(Message), NEW m \in Message, stream' = Append(stream, m)
  PROVE  /\ stream' \in Seq(Message) /\ Len(stream) \in Nat /\ Len(stream') = Len(stream) + 1
         /\ \A i \in 1..Len(stream) : stream'[i] = stream[i]
         /\ stream'[Len(stream) + 1] = m
  BY AppendProperties, LenProperties

\* And leaves it at its front.
LEMMA ReadFacts ==
  ASSUME stream \in Seq(Message), stream # <<>>, stream' = Tail(stream)
  PROVE  /\ stream' \in Seq(Message) /\ Len(stream) \in Nat \ {0} /\ Len(stream') = Len(stream) - 1
         /\ \A i \in 1..Len(stream') : stream'[i] = stream[i + 1]
         /\ Head(stream) = stream[1] /\ Head(stream) \in Message
  BY HeadTailProperties, LenProperties, ElementOfSeq

\* What the types say of the flows and the sources.
LEMMA TableFacts ==
  ASSUME LoopType
  PROVE  /\ now \in Nat /\ lastTick \in Nat /\ resumedAt <= lastTick /\ lastTick <= now
         /\ \A s \in DOMAIN opened : opened[s] \in Nat /\ opened[s] <= now
         /\ \A s \in DOMAIN flows :
              /\ s \in DOMAIN opened /\ flows[s] \in E!Flow
              /\ \A d \in Dir : flows[s].bytes[d] \in Nat /\ flows[s].prev[d] \in Nat
         /\ \A i \in 1..Len(stream) : stream[i] \in Message /\ stream[i].src \in DOMAIN opened
<1>1. \A s \in DOMAIN flows : flows[s] \in E!Flow /\ s \in DOMAIN opened
  BY DEF LoopType, TypeOK, E!TypeOK
<1>2. \A s \in DOMAIN flows, d \in Dir : flows[s].bytes[d] \in Nat /\ flows[s].prev[d] \in Nat
  BY <1>1, EngineInstance DEF E!Flow, E!Counts, E!Bytes, E!EngineAssumption
<1>3. /\ now \in Nat /\ lastTick \in Nat /\ resumedAt <= lastTick /\ lastTick <= now
      /\ \A s \in DOMAIN opened : opened[s] \in Nat /\ opened[s] <= now
  BY TuiLoopAssumption DEF LoopType, TypeOK
<1>4. \A i \in 1..Len(stream) : stream[i] \in Message /\ stream[i].src \in DOMAIN opened
  BY ElementOfSeq DEF LoopType
<1> QED
  BY <1>1, <1>2, <1>3, <1>4

----------------------------------------------------------------------------
(* One lemma per kind of step.                                             *)

\* The session starts with nothing open, polled or measured.
LEMMA InitLoop == Init => LoopInv
<1> SUFFICES ASSUME Init PROVE LoopInv
  OBVIOUS
<1>1. DOMAIN flows = {} /\ DOMAIN opened = {} /\ stream \in Seq(Message) /\ Len(stream) = 0
  BY EmptySeq DEF Init, E!Init
<1>2. E!TypeOK
  BY DEF Init, E!Init, E!TypeOK
<1>3. LoopType
  <2>1. now \in 0..MaxTime /\ lastTick \in resumedAt..now
    BY TuiLoopAssumption DEF Init
  <2>2. TypeOK
    BY <1>1, <1>2, <2>1 DEF Init, TypeOK
  <2> QED
    BY <1>1, <2>2 DEF Init, LoopType
<1>4. Clocks
  BY DEF Init, Clocks
<1>5. PauseInv
  BY <1>1 DEF PauseInv, InFlight, Announced, Bounded, ResumeAnswered, ReadBefore, BaselineAfter
<1>6. DeltaInv
  BY <1>1 DEF DeltaInv, Unasked, LastPoll, PollBefore
<1> QED
  BY <1>3, <1>4, <1>5, <1>6 DEF LoopInv

\* A source opens: its announcement stands behind everything said before.
LEMMA OpenStep ==
  ASSUME LoopInv, NEW s \in SrcRefs, KernelOpen(s)
  PROVE  LoopInv'
<1> DEFINE m == [type |-> "added", src |-> s]
<1>1. m \in Message /\ m.type = "added" /\ m.src = s
  BY DEF Message
<1>2. LoopType /\ Clocks /\ stream \in Seq(Message) /\ stream' = Append(stream, m)
  BY DEF LoopInv, LoopType, KernelOpen
<1> HIDE DEF m
<1>3. /\ stream' \in Seq(Message) /\ Len(stream) \in Nat /\ Len(stream') = Len(stream) + 1
      /\ \A i \in 1..Len(stream) : stream'[i] = stream[i]
      /\ stream'[Len(stream) + 1] = m
  BY <1>1, <1>2, PostFacts
<1>4. /\ now \in Nat
      /\ \A r \in DOMAIN opened : opened[r] \in Nat /\ opened[r] <= now
      /\ \A r \in DOMAIN flows : r \in DOMAIN opened
      /\ \A i \in 1..Len(stream) : stream[i] \in Message /\ stream[i].src \in DOMAIN opened
  BY <1>2, TableFacts
<1>5. /\ s \notin DOMAIN opened /\ DOMAIN opened' = DOMAIN opened \cup {s} /\ opened'[s] = now
      /\ \A r \in DOMAIN opened : opened'[r] = opened[r]
      /\ UNCHANGED <<engineVars, loopVars, query, updates, drops, now>>
  BY DEF KernelOpen
<1>6. /\ UNCHANGED <<flows, pc, lastTick, wasPaused, paused, resumedAt, polledAt>>
      /\ E!TypeOK'
  BY <1>2, <1>5, EngineTypes DEF engineVars, loopVars, LoopType, TypeOK
<1>7. \A i \in 1..Len(stream') : \/ i \in 1..Len(stream) /\ stream'[i] = stream[i]
                                 \/ i = Len(stream) + 1 /\ stream'[i] = m
  BY <1>3
<1>8. LoopType'
  BY <1>1, <1>2, <1>3, <1>4, <1>5, <1>6, <1>7 DEF LoopType, TypeOK
<1>9. Clocks'
  BY <1>2, <1>5, <1>6 DEF Clocks
<1>10. InFlight'
  <2>1. flows' = flows /\ now' = now /\ InFlight
    BY <1>5, <1>6 DEF LoopInv, PauseInv
  <2>2. ASSUME NEW i \in 1..Len(stream'), stream'[i].type = "counts"
        PROVE  /\ i \in 1..Len(stream) /\ stream'[i] = stream[i]
               /\ opened'[stream[i].src] = opened[stream[i].src]
               /\ \A j \in 1..Len(stream') : j < i => j \in 1..Len(stream) /\ stream'[j] = stream[j]
    <3>1. i \in 1..Len(stream) /\ stream'[i] = stream[i]
      BY <1>1, <1>7, <2>2
    <3>2. \A j \in 1..Len(stream') : j < i => j \in 1..Len(stream) /\ stream'[j] = stream[j]
      BY <1>3, <1>7, <3>1
    <3> QED
      BY <1>4, <1>5, <3>1, <3>2
  <2>3. ASSUME NEW i \in 1..Len(stream'), stream'[i].type = "counts", NEW d \in Dir
        PROVE  /\ stream'[i].counts[d] <= Carried(opened'[stream'[i].src], now)
               /\ stream'[i].src \in DOMAIN flows =>
                    flows[stream'[i].src].bytes[d] <= stream'[i].counts[d]
    BY <2>1, <2>2, <2>3 DEF InFlight
  <2>4. ASSUME NEW i \in 1..Len(stream'), stream'[i].type = "counts", NEW d \in Dir,
               NEW j \in 1..Len(stream'), j < i,
               stream'[j].type = "counts", stream'[j].src = stream'[i].src
        PROVE  stream'[j].counts[d] <= stream'[i].counts[d]
    BY <2>1, <2>2, <2>4 DEF InFlight, Counting
  <2> QED
    BY <2>1, <2>3, <2>4 DEF InFlight, Counting
<1>11. Announced'
  <2> SUFFICES ASSUME NEW r \in DOMAIN opened', r \notin DOMAIN flows
               PROVE  \E i \in 1..Len(stream') :
                        /\ stream'[i].type = "added" /\ stream'[i].src = r
                        /\ \A j \in 1..Len(stream') : j < i =>
                             ~(stream'[j].type = "counts" /\ stream'[j].src = r)
    BY <1>6 DEF Announced, Counting
  <2>1. CASE r = s
    <3>1. /\ Len(stream) + 1 \in 1..Len(stream')
          /\ stream'[Len(stream) + 1].type = "added" /\ stream'[Len(stream) + 1].src = r
      BY <1>1, <1>3, <2>1
    <3>2. ASSUME NEW j \in 1..Len(stream'), j < Len(stream) + 1
          PROVE  stream'[j].src # r
      <4>1. j \in 1..Len(stream) /\ stream'[j] = stream[j]
        BY <1>3, <3>2
      <4> QED
        BY <1>4, <1>5, <2>1, <4>1
    <3> QED
      BY <3>1, <3>2
  <2>2. CASE r # s
    <3>1. PICK i \in 1..Len(stream) : /\ stream[i].type = "added" /\ stream[i].src = r
                                      /\ \A j \in 1..Len(stream) : j < i => ~Counting(j, r)
      BY <1>5, <2>2 DEF LoopInv, PauseInv, Announced
    <3> QED
      BY <1>3, <1>7, <3>1 DEF Counting
  <2> QED
    BY <2>1, <2>2
<1>12. Bounded' /\ ReadBefore' /\ BaselineAfter'
  BY <1>4, <1>5, <1>6 DEF LoopInv, PauseInv, Bounded, ReadBefore, BaselineAfter
<1>13. ResumeAnswered'
  <2> SUFFICES ASSUME resumedAt \notin drops, NEW r \in DOMAIN opened'
               PROVE  \/ r \in query /\ polledAt[1] = resumedAt
                      \/ \E i \in 1..Len(stream') :
                           /\ stream'[i].type = "counts" /\ stream'[i].src = r
                           /\ \A d \in Dir : stream'[i].counts[d] >= Carried(opened'[r], resumedAt)
                      \/ r \in DOMAIN flows /\ \A d \in Dir : flows[r].bytes[d] >= Carried(opened'[r], resumedAt)
                      \/ opened'[r] >= resumedAt
    BY <1>5, <1>6 DEF ResumeAnswered, Counting
  <2>1. CASE r = s
    BY <1>2, <1>5, <2>1, TableFacts DEF LoopType
  <2>2. CASE r # s
    BY <1>3, <1>5, <2>2 DEF LoopInv, PauseInv, ResumeAnswered, Counting
  <2> QED
    BY <2>1, <2>2
<1>14. Unasked' /\ PollBefore'
  BY <1>1, <1>4, <1>5, <1>6, <1>7 DEF LoopInv, DeltaInv, Unasked, PollBefore, CountsAt
<1>15. LastPoll'
  <2> SUFFICES ASSUME updates = 0, polledAt[1] \notin drops,
                      NEW r \in DOMAIN flows, flows[r].counted
               PROVE  \/ r \in query
                      \/ \E i \in 1..Len(stream') : Counting(i, r)'
                      \/ CountsAt(flows[r].bytes, opened'[r], polledAt[1])
    BY <1>5, <1>6 DEF LastPoll, CountsAt
  <2>1. \/ r \in query
        \/ \E i \in 1..Len(stream) : Counting(i, r)
        \/ CountsAt(flows[r].bytes, opened[r], polledAt[1])
    BY DEF LoopInv, DeltaInv, LastPoll
  <2>2. opened'[r] = opened[r]
    BY <1>4, <1>5
  <2>3. \A i \in 1..Len(stream) : Counting(i, r) => i \in 1..Len(stream') /\ Counting(i, r)'
    BY <1>3 DEF Counting
  <2> QED
    BY <2>1, <2>2, <2>3
<1> QED
  BY <1>8, <1>9, <1>10, <1>11, <1>12, <1>13, <1>14, <1>15 DEF LoopInv, PauseInv, DeltaInv

\* Counters are posted at once, at their present value, and stand behind all
\* that the stream holds of their source.
LEMMA PostCounts ==
  ASSUME LoopInv, NEW s \in DOMAIN opened,
         stream' = Append(stream, [type |-> "counts", src |-> s, counts |-> Counter(s)]),
         UNCHANGED <<engineVars, loopVars, opened, drops, now>>,
         query' \in {query, query \ {s}}, updates' \in Nat,
         updates' = 0 => updates = 0 /\ s \in query
  PROVE  LoopInv'
<1> DEFINE m == [type |-> "counts", src |-> s, counts |-> Counter(s)]
<1>1. LoopType /\ Clocks /\ stream \in Seq(Message) /\ stream' = Append(stream, m)
  BY DEF LoopInv, LoopType
<1>2. /\ now \in Nat /\ resumedAt \in Nat /\ polledAt[1] \in Nat /\ resumedAt <= now
      /\ \A r \in DOMAIN opened : opened[r] \in Nat /\ opened[r] <= now
      /\ \A r \in DOMAIN flows : r \in DOMAIN opened
      /\ \A i \in 1..Len(stream) : stream[i] \in Message /\ stream[i].src \in DOMAIN opened
      /\ s \in SrcRefs /\ now <= MaxTime
  BY <1>1, TableFacts DEF LoopType, TypeOK
<1>3. Counter(s) \in E!Counts /\ \A d \in Dir : Counter(s)[d] = Carried(opened[s], now)
  <2>1. Carried(opened[s], now) \in Nat /\ Carried(opened[s], now) <= Pace * MaxTime
    <3>1. Carried(0, now) <= Carried(0, MaxTime) /\ Carried(0, MaxTime) = Pace * MaxTime
      BY <1>2, TuiLoopAssumption, CarriedFacts DEF Carried
    <3>2. Carried(opened[s], now) <= Carried(0, now)
      <4>1. Pace \in Nat /\ opened[s] \in Nat
        BY <1>2, TuiLoopAssumption
      <4>2. Pace * opened[s] \in Nat
        BY <4>1
      <4> QED
        BY <1>2, <4>1, <4>2 DEF Carried
    <3>3. Carried(opened[s], now) \in Int /\ 0 <= Carried(opened[s], now)
      BY <1>2, CarriedFacts
    <3>4. Carried(0, now) \in Int /\ Carried(0, MaxTime) \in Int
      BY <1>2, TuiLoopAssumption, CarriedFacts
    <3> QED
      BY <3>1, <3>2, <3>3, <3>4
  <2>2. Carried(opened[s], now) \in 0..MaxBytes
    BY <2>1, TuiLoopAssumption, EngineInstance DEF E!EngineAssumption
  <2>3. Counter(s) = [d \in Dir |-> Carried(opened[s], now)]
    BY DEF Counter, Carried
  <2> QED
    BY <2>2, <2>3 DEF E!Counts, E!Bytes
<1>4. m \in Message /\ m.type = "counts" /\ m.src = s /\ m.counts = Counter(s)
  BY <1>2, <1>3 DEF Message
<1> HIDE DEF m
<1>5. /\ stream' \in Seq(Message) /\ Len(stream) \in Nat /\ Len(stream') = Len(stream) + 1
      /\ \A i \in 1..Len(stream) : stream'[i] = stream[i]
      /\ stream'[Len(stream) + 1] = m
  BY <1>1, <1>4, PostFacts
<1>6. \A i \in 1..Len(stream') : \/ i \in 1..Len(stream) /\ stream'[i] = stream[i]
                                 \/ i = Len(stream) + 1 /\ stream'[i] = m
  BY <1>5
<1>7. /\ UNCHANGED <<flows, pc, lastTick, wasPaused, paused, resumedAt, polledAt, opened, drops, now>>
      /\ E!TypeOK'
  BY <1>1, EngineTypes DEF engineVars, loopVars, LoopType, TypeOK
<1>8. LoopType'
  BY <1>1, <1>4, <1>5, <1>6, <1>7 DEF LoopType, TypeOK
<1>9. Clocks'
  BY <1>1, <1>7 DEF Clocks
<1>10. InFlight'
  <2> SUFFICES ASSUME NEW i \in 1..Len(stream'), stream'[i].type = "counts", NEW d \in Dir
               PROVE  /\ stream'[i].counts[d] <= Carried(opened[stream'[i].src], now)
                      /\ stream'[i].src \in DOMAIN flows =>
                           flows[stream'[i].src].bytes[d] <= stream'[i].counts[d]
                      /\ \A j \in 1..Len(stream') :
                           j < i /\ stream'[j].type = "counts" /\ stream'[j].src = stream'[i].src =>
                             stream'[j].counts[d] <= stream'[i].counts[d]
    BY <1>7 DEF InFlight, Counting
  <2>1. CASE i \in 1..Len(stream)
    BY <1>5, <1>6, <2>1 DEF LoopInv, PauseInv, InFlight, Counting
  <2>2. CASE i = Len(stream) + 1
    <3>1. stream'[i].src = s /\ stream'[i].counts[d] = Carried(opened[s], now)
      BY <1>3, <1>4, <1>5, <2>2
    <3>2. Carried(opened[s], now) \in Int
      BY <1>2, CarriedFacts
    <3>3. s \in DOMAIN flows => flows[s].bytes[d] <= Carried(opened[s], now)
      BY DEF LoopInv, PauseInv, Bounded
    <3>4. ASSUME NEW j \in 1..Len(stream), stream[j].type = "counts", stream[j].src = s
          PROVE  stream[j].counts[d] <= Carried(opened[s], now)
      BY <3>4 DEF LoopInv, PauseInv, InFlight
    <3> QED
      BY <1>5, <1>6, <2>2, <3>1, <3>2, <3>3, <3>4
  <2> QED
    BY <1>6, <2>1, <2>2
<1>11. Announced'
  <2> SUFFICES ASSUME NEW r \in DOMAIN opened, r \notin DOMAIN flows
               PROVE  \E i \in 1..Len(stream') :
                        /\ stream'[i].type = "added" /\ stream'[i].src = r
                        /\ \A j \in 1..Len(stream') : j < i =>
                             ~(stream'[j].type = "counts" /\ stream'[j].src = r)
    BY <1>7 DEF Announced, Counting
  <2>1. PICK i \in 1..Len(stream) : /\ stream[i].type = "added" /\ stream[i].src = r
                                    /\ \A j \in 1..Len(stream) : j < i => ~Counting(j, r)
    BY DEF LoopInv, PauseInv, Announced
  <2> QED
    BY <1>5, <1>6, <2>1 DEF Counting
<1>12. Bounded' /\ ReadBefore' /\ BaselineAfter'
  BY <1>7 DEF LoopInv, PauseInv, Bounded, ReadBefore, BaselineAfter
<1>13. ResumeAnswered'
  <2> SUFFICES ASSUME resumedAt \notin drops, NEW r \in DOMAIN opened
               PROVE  \/ r \in query' /\ polledAt[1] = resumedAt
                      \/ \E i \in 1..Len(stream') :
                           /\ stream'[i].type = "counts" /\ stream'[i].src = r
                           /\ \A d \in Dir : stream'[i].counts[d] >= Carried(opened[r], resumedAt)
                      \/ r \in DOMAIN flows /\ \A d \in Dir : flows[r].bytes[d] >= Carried(opened[r], resumedAt)
                      \/ opened[r] >= resumedAt
    BY <1>7 DEF ResumeAnswered, Counting
  <2>1. CASE r = s
    <3>1. \A d \in Dir : stream'[Len(stream) + 1].counts[d] >= Carried(opened[s], resumedAt)
      <4>1. /\ Carried(opened[s], now) \in Int /\ Carried(opened[s], resumedAt) \in Int
            /\ Carried(opened[s], resumedAt) <= Carried(opened[s], now)
        BY <1>2, CarriedFacts
      <4> QED
        BY <1>3, <1>4, <1>5, <4>1
    <3> QED
      BY <1>4, <1>5, <2>1, <3>1
  <2>2. CASE r # s
    BY <1>5, <2>2 DEF LoopInv, PauseInv, ResumeAnswered, Counting
  <2> QED
    BY <2>1, <2>2
<1>14. Unasked'
  <2> SUFFICES ASSUME updates' = 0, NEW i \in 1..Len(stream'), stream'[i].type = "counts"
               PROVE  /\ CountsAt(stream'[i].counts, opened[stream'[i].src], polledAt[1])
                      /\ ~(pc = "sample" /\ now > polledAt[1])
    BY <1>7 DEF Unasked
  <2>1. CASE i \in 1..Len(stream)
    BY <1>5, <2>1 DEF LoopInv, DeltaInv, Unasked
  <2>2. CASE i = Len(stream) + 1
    <3>1. now = polledAt[1]
      BY <1>1 DEF Clocks
    <3> QED
      BY <1>2, <1>3, <1>4, <1>5, <2>2, <3>1 DEF CountsAt
  <2> QED
    BY <1>6, <2>1, <2>2
<1>15. PollBefore'
  BY <1>7 DEF LoopInv, DeltaInv, PollBefore
<1>16. LastPoll'
  <2> SUFFICES ASSUME updates = 0, polledAt[1] \notin drops, NEW r \in DOMAIN flows, flows[r].counted
               PROVE  \/ r \in query'
                      \/ \E i \in 1..Len(stream') : stream'[i].type = "counts" /\ stream'[i].src = r
                      \/ CountsAt(flows[r].bytes, opened[r], polledAt[1])
    BY <1>7 DEF LastPoll, Counting
  <2>1. CASE r = s
    BY <1>4, <1>5, <2>1
  <2>2. CASE r # s
    BY <1>5, <2>2 DEF LoopInv, DeltaInv, LastPoll, Counting
  <2> QED
    BY <2>1, <2>2
<1> QED
  BY <1>8, <1>9, <1>10, <1>11, <1>12, <1>13, <1>14, <1>15, <1>16 DEF LoopInv, PauseInv, DeltaInv

\* A reply is dropped at the time of the poll it answers.
LEMMA DropStep ==
  ASSUME LoopInv, NEW s \in SrcRefs, KernelDropsCounts(s)
  PROVE  LoopInv'
<1>1. /\ s \in query /\ query' = query \ {s} /\ drops' = drops \cup {now} /\ now = polledAt[1]
      /\ UNCHANGED <<flows, pc, lastTick, wasPaused, paused, resumedAt, polledAt, opened, stream, updates, now>>
  BY DEF KernelDropsCounts, engineVars, loopVars, LoopInv, Clocks
<1>2. E!TypeOK'
  BY EngineTypes DEF KernelDropsCounts, LoopInv, LoopType, TypeOK
<1>3. LoopType'
  BY <1>1, <1>2 DEF LoopInv, LoopType, TypeOK
<1>4. Clocks'
  BY <1>1 DEF LoopInv, Clocks
<1>5. InFlight' /\ Announced' /\ Bounded' /\ ReadBefore' /\ BaselineAfter'
  BY <1>1 DEF LoopInv, PauseInv, InFlight, Announced, Bounded, ReadBefore, BaselineAfter, Counting
<1>6. ResumeAnswered'
  BY <1>1 DEF LoopInv, PauseInv, ResumeAnswered, Counting
<1>7. DeltaInv'
  BY <1>1 DEF LoopInv, DeltaInv, Unasked, LastPoll, PollBefore, Counting
<1> QED
  BY <1>3, <1>4, <1>5, <1>6, <1>7 DEF LoopInv, PauseInv

\* Nothing the kernel does disturbs the invariant.
LEMMA KernelStep ==
  ASSUME LoopInv, Kernel
  PROVE  LoopInv'
<1>1. PICK s \in SrcRefs :
        KernelOpen(s) \/ KernelReport(s) \/ KernelDropsCounts(s) \/ KernelUpdate(s)
  BY DEF Kernel
<1>2. CASE KernelReport(s)
  <2>1. s \in query /\ s \in DOMAIN opened /\ updates \in Nat
    BY <1>2 DEF KernelReport, LoopInv, LoopType, TypeOK
  <2> QED
    BY <1>2, <2>1, PostCounts DEF KernelReport
<1>3. CASE KernelUpdate(s)
  <2>1. updates \in Nat /\ updates' = updates + 1
    BY <1>3 DEF KernelUpdate, LoopInv, LoopType
  <2>2. updates' \in Nat /\ updates' # 0
    BY <2>1
  <2> QED
    BY <1>3, <2>2, PostCounts DEF KernelUpdate
<1> QED
  BY <1>1, <1>2, <1>3, OpenStep, DropStep

\* A message is read: its flow takes what it says, and all behind it moves up.
LEMMA ReceiveStep ==
  ASSUME LoopInv, Receive
  PROVE  LoopInv'
<1> DEFINE m == Head(stream)
<1>1. LoopType /\ Clocks /\ stream \in Seq(Message) /\ stream # <<>> /\ stream' = Tail(stream)
  BY DEF LoopInv, LoopType, Receive
<1>2. /\ stream' \in Seq(Message) /\ Len(stream) \in Nat \ {0} /\ Len(stream') = Len(stream) - 1
      /\ \A i \in 1..Len(stream') : stream'[i] = stream[i + 1]
      /\ m = stream[1] /\ m \in Message
  BY <1>1, ReadFacts
<1>3. UNCHANGED <<pc, lastTick, wasPaused, paused, resumedAt, polledAt, opened, query, updates, drops, now>>
  BY DEF Receive, loopVars
<1>4. pc \in {"prime", "drain"}
  BY DEF Receive
<1>5. m.type \in {"added", "counts"} /\ m.src \in SrcRefs /\ m.src \in DOMAIN opened
      /\ (m.type = "counts" => m.counts \in E!Counts /\ \A d \in Dir : m.counts[d] \in Nat)
  BY <1>1, <1>2, MessageFacts, TableFacts
<1>6. IF m.type = "added" THEN E!OnAdded(m.src) ELSE E!OnCounts(m.src, m.counts)
  BY DEF Receive
<1> HIDE DEF m
<1>7. \A i \in 1..Len(stream) : \/ i = 1 /\ stream[i] = m
                                \/ i - 1 \in 1..Len(stream') /\ stream'[i - 1] = stream[i]
  BY <1>2
<1>8. \A i \in 1..Len(stream') : i + 1 \in 1..Len(stream) /\ stream'[i] = stream[i + 1]
  BY <1>2
<1>9. /\ now \in Nat /\ resumedAt \in Nat
      /\ \A s \in DOMAIN opened : opened[s] \in Nat /\ opened[s] <= now
      /\ \A s \in DOMAIN flows : s \in DOMAIN opened /\ flows[s] \in E!Flow
      /\ \A s \in DOMAIN flows, d \in Dir : flows[s].bytes[d] \in Nat
  BY <1>1, TableFacts DEF LoopType
<1>10. /\ DOMAIN flows \subseteq DOMAIN flows'
       /\ DOMAIN flows' \subseteq DOMAIN flows \cup {m.src}
       /\ \A s \in DOMAIN flows : flows'[s].prev = flows[s].prev /\ flows'[s].primed = flows[s].primed
       /\ \A s \in DOMAIN flows : s # m.src \/ m.type = "added" => flows'[s] = flows[s]
       /\ m.type = "added" => m.src \in DOMAIN flows'
       /\ \A s \in DOMAIN flows' \ DOMAIN flows :
            m.type = "added" /\ flows'[s] = E!NewFlow
       /\ m.type = "counts" /\ m.src \in DOMAIN flows =>
            flows'[m.src].bytes = m.counts /\ flows'[m.src].counted
  <2>1. CASE m.type = "added"
    BY <1>6, <2>1 DEF E!OnAdded, E!Put, E!FlowAt
  <2>2. CASE m.type = "counts"
    <3>1. E!OnCounts(m.src, m.counts)
      BY <1>6, <2>2
    <3>2. CASE m.src \in DOMAIN flows
      <4> DEFINE f == [flows[m.src] EXCEPT !.bytes = m.counts, !.counted = TRUE]
      <4>1. /\ f.bytes = m.counts /\ f.counted /\ f.prev = flows[m.src].prev
            /\ f.primed = flows[m.src].primed
        BY <1>9, <3>2 DEF E!Flow
      <4>2. flows' = [r \in DOMAIN flows \cup {m.src} |-> IF r = m.src THEN f ELSE flows[r]]
        BY <3>1, <3>2 DEF E!OnCounts, E!WithCounts, E!Put
      <4> HIDE DEF f
      <4> QED
        BY <2>2, <3>2, <4>1, <4>2
    <3>3. CASE m.src \notin DOMAIN flows
      BY <2>2, <3>1, <3>3 DEF E!OnCounts, E!WithCounts
    <3> QED
      BY <3>2, <3>3
  <2> QED
    BY <1>5, <2>1, <2>2
<1>11. LoopType'
  <2>1. E!TypeOK'
    BY <1>1, <1>5, <1>6, EngineTypes DEF LoopType, TypeOK
  <2>2. DOMAIN flows' \subseteq DOMAIN opened
    BY <1>5, <1>9, <1>10
  <2> QED
    BY <1>1, <1>2, <1>3, <1>8, <2>1, <2>2 DEF LoopType, TypeOK
<1>12. Clocks'
  BY <1>1, <1>3 DEF Clocks
<1>13. \A s \in DOMAIN flows', d \in Dir :
         s \notin DOMAIN flows => flows'[s].bytes[d] = 0 /\ ~flows'[s].primed /\ ~flows'[s].counted
  BY <1>10 DEF E!NewFlow, E!Zero
<1>14. \A s \in DOMAIN flows', d \in Dir :
         \/ s \notin DOMAIN flows /\ flows'[s].bytes[d] = 0
         \/ s \in DOMAIN flows /\ flows'[s].bytes[d] = flows[s].bytes[d]
         \/ s = m.src /\ m.type = "counts" /\ flows'[s].bytes[d] = m.counts[d]
  BY <1>5, <1>10, <1>13
<1>15. m.type = "counts" => \A d \in Dir :
         /\ m.counts[d] <= Carried(opened[m.src], now)
         /\ m.src \in DOMAIN flows => flows[m.src].bytes[d] <= m.counts[d]
         /\ \A i \in 1..Len(stream') :
              stream'[i].type = "counts" /\ stream'[i].src = m.src => m.counts[d] <= stream'[i].counts[d]
  <2> SUFFICES ASSUME m.type = "counts", NEW d \in Dir
               PROVE  /\ m.counts[d] <= Carried(opened[m.src], now)
                      /\ m.src \in DOMAIN flows => flows[m.src].bytes[d] <= m.counts[d]
                      /\ \A i \in 1..Len(stream') :
                           stream'[i].type = "counts" /\ stream'[i].src = m.src =>
                             m.counts[d] <= stream'[i].counts[d]
    OBVIOUS
  <2>1. 1 \in 1..Len(stream) /\ stream[1] = m
    BY <1>2
  <2>2. /\ m.counts[d] <= Carried(opened[m.src], now)
        /\ m.src \in DOMAIN flows => flows[m.src].bytes[d] <= m.counts[d]
    BY <2>1 DEF LoopInv, PauseInv, InFlight
  <2>3. ASSUME NEW i \in 1..Len(stream'), stream'[i].type = "counts", stream'[i].src = m.src
        PROVE  m.counts[d] <= stream'[i].counts[d]
    <3>1. i + 1 \in 1..Len(stream) /\ stream'[i] = stream[i + 1] /\ 1 < i + 1
      BY <1>8
    <3> QED
      BY <2>1, <2>3, <3>1 DEF LoopInv, PauseInv, InFlight, Counting
  <2> QED
    BY <2>2, <2>3
<1>16. InFlight'
  <2> SUFFICES ASSUME NEW i \in 1..Len(stream'), stream'[i].type = "counts", NEW d \in Dir
               PROVE  /\ stream'[i].counts[d] <= Carried(opened[stream'[i].src], now)
                      /\ stream'[i].src \in DOMAIN flows' =>
                           flows'[stream'[i].src].bytes[d] <= stream'[i].counts[d]
                      /\ \A j \in 1..Len(stream') :
                           j < i /\ stream'[j].type = "counts" /\ stream'[j].src = stream'[i].src =>
                             stream'[j].counts[d] <= stream'[i].counts[d]
    BY <1>3 DEF InFlight, Counting
  <2>1. i + 1 \in 1..Len(stream) /\ stream'[i] = stream[i + 1]
    BY <1>8
  <2>2. /\ stream'[i].counts[d] <= Carried(opened[stream'[i].src], now)
        /\ stream'[i].src \in DOMAIN flows =>
             flows[stream'[i].src].bytes[d] <= stream'[i].counts[d]
    BY <2>1 DEF LoopInv, PauseInv, InFlight
  <2>3. ASSUME NEW j \in 1..Len(stream'), j < i, stream'[j].type = "counts",
               stream'[j].src = stream'[i].src
        PROVE  stream'[j].counts[d] <= stream'[i].counts[d]
    <3>1. j + 1 \in 1..Len(stream) /\ stream'[j] = stream[j + 1] /\ j + 1 < i + 1
      BY <1>8, <2>3
    <3> QED
      BY <2>1, <2>3, <3>1 DEF LoopInv, PauseInv, InFlight, Counting
  <2>4. stream'[i].counts[d] \in Nat
    BY <1>2, ElementOfSeq, MessageFacts
  <2>5. stream'[i].src \in DOMAIN flows' => flows'[stream'[i].src].bytes[d] <= stream'[i].counts[d]
    BY <1>14, <1>15, <2>2, <2>4
  <2> QED
    BY <2>2, <2>3, <2>5
<1>17. Announced'
  <2> SUFFICES ASSUME NEW s \in DOMAIN opened, s \notin DOMAIN flows'
               PROVE  \E i \in 1..Len(stream') :
                        /\ stream'[i].type = "added" /\ stream'[i].src = s
                        /\ \A j \in 1..Len(stream') : j < i =>
                             ~(stream'[j].type = "counts" /\ stream'[j].src = s)
    BY <1>3 DEF Announced, Counting
  <2>1. PICK i \in 1..Len(stream) : /\ stream[i].type = "added" /\ stream[i].src = s
                                    /\ \A j \in 1..Len(stream) : j < i => ~Counting(j, s)
    BY <1>10 DEF LoopInv, PauseInv, Announced
  <2>2. i # 1
    BY <1>7, <1>10, <2>1
  <2>3. i - 1 \in 1..Len(stream') /\ stream'[i - 1] = stream[i]
    BY <1>7, <2>2
  <2>4. ASSUME NEW j \in 1..Len(stream'), j < i - 1
        PROVE  ~(stream'[j].type = "counts" /\ stream'[j].src = s)
    <3>1. j + 1 \in 1..Len(stream) /\ j + 1 < i /\ stream'[j] = stream[j + 1]
      BY <1>8, <2>4
    <3> QED
      BY <2>1, <3>1 DEF Counting
  <2> QED
    BY <2>1, <2>3, <2>4
<1>18. Bounded'
  <2> SUFFICES ASSUME NEW s \in DOMAIN flows', NEW d \in Dir
               PROVE  flows'[s].bytes[d] <= Carried(opened[s], now)
    BY <1>3 DEF Bounded
  <2>1. s \in DOMAIN opened /\ 0 <= Carried(opened[s], now)
    BY <1>5, <1>9, <1>10, CarriedFacts
  <2> QED
    BY <1>14, <1>15, <2>1 DEF LoopInv, PauseInv, Bounded
<1>19. ResumeAnswered'
  <2> SUFFICES ASSUME resumedAt \notin drops, NEW s \in DOMAIN opened
               PROVE  \/ s \in query /\ polledAt[1] = resumedAt
                      \/ \E i \in 1..Len(stream') :
                           /\ stream'[i].type = "counts" /\ stream'[i].src = s
                           /\ \A d \in Dir : stream'[i].counts[d] >= Carried(opened[s], resumedAt)
                      \/ s \in DOMAIN flows' /\ \A d \in Dir : flows'[s].bytes[d] >= Carried(opened[s], resumedAt)
                      \/ opened[s] >= resumedAt
    BY <1>3 DEF ResumeAnswered, Counting
  <2>1. Carried(opened[s], resumedAt) \in Int
    BY <1>9, CarriedFacts
  <2>2. ASSUME s \in DOMAIN flows, \A d \in Dir : flows[s].bytes[d] >= Carried(opened[s], resumedAt)
        PROVE  s \in DOMAIN flows' /\ \A d \in Dir : flows'[s].bytes[d] >= Carried(opened[s], resumedAt)
    BY <1>5, <1>9, <1>10, <1>14, <1>15, <2>1, <2>2
  <2>3. ASSUME NEW i \in 1..Len(stream), Counting(i, s),
               \A d \in Dir : stream[i].counts[d] >= Carried(opened[s], resumedAt)
        PROVE  \/ \E k \in 1..Len(stream') :
                    /\ stream'[k].type = "counts" /\ stream'[k].src = s
                    /\ \A d \in Dir : stream'[k].counts[d] >= Carried(opened[s], resumedAt)
               \/ s \in DOMAIN flows' /\ \A d \in Dir : flows'[s].bytes[d] >= Carried(opened[s], resumedAt)
    <3>1. CASE i = 1
      <4>1. m.type = "counts" /\ m.src = s /\ \A d \in Dir : m.counts[d] >= Carried(opened[s], resumedAt)
        BY <1>7, <2>3, <3>1 DEF Counting
      <4>2. s \in DOMAIN flows
        BY <1>7, <2>3, <3>1, <4>1 DEF LoopInv, PauseInv, Announced, Counting
      <4> QED
        BY <1>10, <4>1, <4>2
    <3>2. CASE i # 1
      <4>1. i - 1 \in 1..Len(stream') /\ stream'[i - 1] = stream[i]
        BY <1>7, <3>2
      <4>2. /\ stream'[i - 1].type = "counts" /\ stream'[i - 1].src = s
            /\ \A d \in Dir : stream'[i - 1].counts[d] >= Carried(opened[s], resumedAt)
        BY <2>3, <4>1 DEF Counting
      <4> QED
        BY <4>1, <4>2
    <3> QED
      BY <3>1, <3>2
  <2> QED
    BY <2>2, <2>3 DEF LoopInv, PauseInv, ResumeAnswered
<1>20. ReadBefore'
  BY <1>3, <1>4 DEF ReadBefore
<1>21. BaselineAfter'
  BY <1>3, <1>10, <1>13 DEF LoopInv, PauseInv, BaselineAfter
<1>22. Unasked'
  BY <1>3, <1>4, <1>8 DEF LoopInv, DeltaInv, Unasked
<1>23. LastPoll'
  <2> SUFFICES ASSUME updates = 0, polledAt[1] \notin drops, NEW s \in DOMAIN flows', flows'[s].counted
               PROVE  \/ s \in query
                      \/ \E i \in 1..Len(stream') : stream'[i].type = "counts" /\ stream'[i].src = s
                      \/ CountsAt(flows'[s].bytes, opened[s], polledAt[1])
    BY <1>3 DEF LastPoll, Counting
  <2>1. CASE s = m.src /\ m.type = "counts" /\ s \in DOMAIN flows
    <3>1. 1 \in 1..Len(stream) /\ stream[1] = m
      BY <1>2
    <3>2. CountsAt(m.counts, opened[s], polledAt[1])
      BY <2>1, <3>1 DEF LoopInv, DeltaInv, Unasked
    <3> QED
      BY <1>10, <2>1, <3>2
  <2>2. CASE s \notin DOMAIN flows
    BY <1>10, <2>2 DEF E!NewFlow
  <2>3. CASE s \in DOMAIN flows /\ ~(s = m.src /\ m.type = "counts")
    <3>1. flows'[s] = flows[s]
      BY <1>5, <1>10, <2>3
    <3>2. ASSUME NEW i \in 1..Len(stream), Counting(i, s)
          PROVE  \E k \in 1..Len(stream') : stream'[k].type = "counts" /\ stream'[k].src = s
      BY <1>7, <2>3, <3>2 DEF Counting
    <3> QED
      BY <2>3, <3>1, <3>2 DEF LoopInv, DeltaInv, LastPoll
  <2> QED
    BY <2>1, <2>2, <2>3
<1>24. PollBefore'
  <2>1. \A s \in DOMAIN flows : flows[s].counted => flows'[s].counted
    BY <1>5, <1>10
  <2>2. \A s \in DOMAIN flows' \ DOMAIN flows : ~flows'[s].primed
    BY <1>10 DEF E!NewFlow
  <2> QED
    BY <1>3, <1>10, <2>1, <2>2 DEF LoopInv, DeltaInv, PollBefore
<1> QED
  BY <1>11, <1>12, <1>16, <1>17, <1>18, <1>19, <1>20, <1>21, <1>22, <1>23, <1>24
  DEF LoopInv, PauseInv, DeltaInv

\* What a poll leaves: every open source is owed a reply, and the last poll is now.
LEMMA PollFacts ==
  ASSUME LoopInv, Polled, pc \in {"prime", "sample"}, now > polledAt[1] \/ pc = "prime"
  PROVE  /\ query = {} \/ pc = "prime"
         /\ query' = query \cup DOMAIN opened /\ polledAt'[1] = now /\ polledAt'[2] = polledAt[1]
         /\ UNCHANGED <<opened, stream, updates, drops, now>>
         /\ polledAt[1] \in Nat /\ polledAt[1] <= now /\ now \in Nat /\ query' = DOMAIN opened
<1>1. /\ query' = query \cup DOMAIN opened /\ polledAt' = <<now, polledAt[1]>>
      /\ UNCHANGED <<opened, stream, updates, drops, now>>
  BY DEF Polled
<1>2. polledAt[1] \in Nat /\ polledAt[1] <= now /\ now \in Nat
  BY TableFacts DEF LoopInv, LoopType, Clocks
<1>3. query = {} \/ pc = "prime"
  BY <1>2 DEF LoopInv, Clocks
<1>4. query \subseteq DOMAIN opened
  BY DEF LoopInv, LoopType, TypeOK
<1> QED
  BY <1>1, <1>2, <1>3, <1>4

\* The first poll, before the loop, at time 0.
LEMMA PrimeStep ==
  ASSUME LoopInv, Prime
  PROVE  LoopInv'
<1>1. /\ pc = "prime" /\ pc' = "drain" /\ stream = <<>> /\ lastTick' = now /\ now = 0
      /\ UNCHANGED <<flows, wasPaused, paused, resumedAt>> /\ Polled
  BY DEF Prime, engineVars, LoopInv, Clocks
<1>2. /\ query' = DOMAIN opened /\ polledAt'[1] = now /\ polledAt'[2] = polledAt[1]
      /\ UNCHANGED <<opened, stream, updates, drops, now>>
      /\ polledAt[1] \in Nat /\ polledAt[1] <= now
  BY <1>1, PollFacts
<1>3. polledAt[1] = 0 /\ polledAt[2] = 0 /\ resumedAt = 0 /\ ~wasPaused
  BY <1>1, <1>2, TableFacts DEF LoopInv, LoopType, Clocks
<1>4. E!TypeOK'
  BY EngineTypes DEF Prime, LoopInv, LoopType, TypeOK
<1>5. LoopType' /\ Clocks'
  <2>1. lastTick' \in resumedAt'..now'
    BY <1>1, <1>2, <1>3
  <2> QED
    BY <1>1, <1>2, <1>3, <1>4, <2>1 DEF LoopInv, LoopType, TypeOK, Clocks
<1>6. PauseInv'
  BY <1>1, <1>2, <1>3 DEF LoopInv, PauseInv, InFlight, Announced, Bounded, ResumeAnswered,
                          ReadBefore, BaselineAfter, Counting
<1>7. Len(stream) = 0
  BY <1>1
<1>8. DeltaInv'
  <2>1. Unasked'
    BY <1>2, <1>7 DEF Unasked
  <2>2. LastPoll'
    BY <1>1, <1>2, TableFacts DEF LoopInv, LastPoll
  <2>3. PollBefore'
    BY <1>1, <1>2, <1>3 DEF LoopInv, DeltaInv, PollBefore
  <2> QED
    BY <2>1, <2>2, <2>3 DEF DeltaInv
<1> QED
  BY <1>5, <1>6, <1>8 DEF LoopInv

\* The end of a pause: everything is asked for anew and no baseline is left.
LEMMA ResumeStep ==
  ASSUME LoopInv, Resume
  PROVE  LoopInv'
<1>1. /\ pc = "sample" /\ pc' = "input" /\ lastTick' = now /\ resumedAt' = now
      /\ wasPaused' = paused /\ UNCHANGED paused /\ Polled /\ now > polledAt[1]
  BY DEF Resume, ResumeEdge, LoopInv, Clocks
<1>2. /\ query' = DOMAIN opened /\ polledAt'[1] = now /\ polledAt'[2] = polledAt[1]
      /\ UNCHANGED <<opened, stream, updates, drops, now>>
      /\ polledAt[1] \in Nat /\ polledAt[1] <= now /\ now \in Nat
  BY <1>1, PollFacts
<1>3. E!TypeOK'
  BY EngineTypes DEF Resume, LoopInv, LoopType, TypeOK
<1>4. /\ DOMAIN flows' = DOMAIN flows
      /\ \A s \in DOMAIN flows : ~flows'[s].primed /\ flows'[s].bytes = flows[s].bytes
                                 /\ flows'[s].counted = flows[s].counted
  BY TableFacts DEF Resume, E!Reprime, E!Flow, LoopInv
<1>5. LoopType' /\ Clocks'
  <2>1. lastTick' \in resumedAt'..now'
    BY <1>1, <1>2
  <2> QED
    BY <1>1, <1>2, <1>3, <1>4, <2>1 DEF LoopInv, LoopType, TypeOK, Clocks
<1>6. InFlight' /\ Announced' /\ Bounded'
  <2>1. InFlight'
    BY <1>2, <1>4 DEF LoopInv, PauseInv, InFlight, Counting
  <2>2. Announced'
    BY <1>2, <1>4 DEF LoopInv, PauseInv, Announced, Counting
  <2>3. Bounded'
    BY <1>2, <1>4 DEF LoopInv, PauseInv, Bounded
  <2> QED
    BY <2>1, <2>2, <2>3
<1>7. ResumeAnswered' /\ ReadBefore' /\ BaselineAfter'
  BY <1>1, <1>2, <1>4 DEF ResumeAnswered, ReadBefore, BaselineAfter
<1>8. Unasked'
  BY <1>1, <1>2 DEF LoopInv, DeltaInv, Unasked
<1>9. LastPoll' /\ PollBefore'
  BY <1>2, <1>4, TableFacts DEF LoopInv, LastPoll, PollBefore
<1> QED
  BY <1>5, <1>6, <1>7, <1>8, <1>9 DEF LoopInv, PauseInv, DeltaInv

\* A tick measures each primed flow against its baseline, and takes its counter
\* for the next one.
LEMMA TickFacts ==
  ASSUME LoopInv, Tick
  PROVE  /\ DOMAIN flows' = DOMAIN flows /\ now - lastTick \in Spans /\ now - lastTick > 0
         /\ pc = "sample" /\ now > polledAt[1]
         /\ \A s \in DOMAIN flows :
              /\ flows'[s].bytes = flows[s].bytes /\ flows'[s].prev = flows[s].bytes
              /\ flows'[s].counted = flows[s].counted
              /\ flows'[s].primed = (flows[s].primed \/ flows[s].counted)
              /\ flows'[s].rate = IF flows[s].primed THEN E!Monus(flows[s].bytes, flows[s].prev)
                                                     ELSE E!Zero
<1>1. now \in Nat /\ lastTick \in Nat /\ now <= MaxTime /\ lastTick = polledAt[1]
  BY TableFacts, TuiLoopAssumption DEF LoopInv, LoopType, TypeOK, Clocks
<1>2. now - lastTick >= Interval /\ Interval \in Nat \ {0}
  BY TuiLoopAssumption DEF Tick, TickDue
<1>3. now - lastTick \in 1..MaxTime
  BY <1>1, <1>2, TuiLoopAssumption
<1>4. now - lastTick \in Spans /\ now - lastTick > 0 /\ now > polledAt[1] /\ pc = "sample"
  BY <1>1, <1>3, TuiLoopAssumption DEF Tick
<1>5. flows' = [s \in DOMAIN flows |-> E!Sampled(flows[s], now - lastTick)]
  BY DEF Tick, E!Tick
<1>6. \A s \in DOMAIN flows : flows[s] \in E!Flow
  BY TableFacts DEF LoopInv
<1>7. ASSUME NEW s \in DOMAIN flows, NEW dt, dt = now - lastTick, dt > 0
      PROVE  LET g == E!Sampled(flows[s], dt)
             IN  /\ g.bytes = flows[s].bytes /\ g.prev = flows[s].bytes
                 /\ g.counted = flows[s].counted
                 /\ g.primed = (flows[s].primed \/ flows[s].counted)
                 /\ g.rate = IF flows[s].primed THEN E!Monus(flows[s].bytes, flows[s].prev)
                                                ELSE E!Zero
  BY <1>6, <1>7 DEF E!Sampled, E!Flow
<1> QED
  BY <1>4, <1>5, <1>7

\* A tick asks anew, and what it takes for a baseline was read in time.
LEMMA TickStep ==
  ASSUME LoopInv, Tick
  PROVE  LoopInv'
<1>1. /\ pc' = "input" /\ lastTick' = now /\ wasPaused' = paused
      /\ UNCHANGED <<paused, resumedAt>> /\ Polled
  BY DEF Tick
<1>2. /\ DOMAIN flows' = DOMAIN flows /\ now - lastTick \in Spans /\ pc = "sample" /\ now > polledAt[1]
      /\ \A s \in DOMAIN flows :
           /\ flows'[s].bytes = flows[s].bytes /\ flows'[s].prev = flows[s].bytes
           /\ flows'[s].counted = flows[s].counted
           /\ flows'[s].primed = (flows[s].primed \/ flows[s].counted)
  BY TickFacts
<1>3. /\ query = {} /\ query' = DOMAIN opened /\ polledAt'[1] = now /\ polledAt'[2] = polledAt[1]
      /\ UNCHANGED <<opened, stream, updates, drops, now>>
      /\ polledAt[1] \in Nat /\ polledAt[1] <= now /\ now \in Nat
  BY <1>1, <1>2, PollFacts
<1>4. E!TypeOK'
  BY <1>2, EngineTypes DEF Tick, LoopInv, LoopType, TypeOK
<1>5. LoopType' /\ Clocks'
  <2>1. lastTick' \in resumedAt'..now'
    BY <1>1, <1>3, TableFacts DEF LoopInv, LoopType
  <2> QED
    BY <1>1, <1>2, <1>3, <1>4, <2>1 DEF LoopInv, LoopType, TypeOK, Clocks
<1>6. InFlight' /\ Announced' /\ Bounded'
  <2>1. InFlight'
    BY <1>2, <1>3 DEF LoopInv, PauseInv, InFlight, Counting
  <2>2. Announced'
    BY <1>2, <1>3 DEF LoopInv, PauseInv, Announced, Counting
  <2>3. Bounded'
    BY <1>2, <1>3 DEF LoopInv, PauseInv, Bounded
  <2> QED
    BY <2>1, <2>2, <2>3
<1>7. ResumeAnswered'
  BY <1>1, <1>2, <1>3 DEF LoopInv, PauseInv, ResumeAnswered, Counting
<1>8. ReadBefore'
  BY <1>1 DEF ReadBefore
<1>9. BaselineAfter'
  BY <1>1, <1>2, <1>3 DEF LoopInv, PauseInv, ReadBefore, BaselineAfter
<1>10. Unasked'
  BY <1>1, <1>2, <1>3 DEF LoopInv, DeltaInv, Unasked
<1>11. LastPoll'
  BY <1>2, <1>3, TableFacts DEF LoopInv, LastPoll
<1>12. PollBefore'
  <2> SUFFICES ASSUME updates = 0, NEW s \in DOMAIN flows, flows'[s].primed
               PROVE  /\ flows'[s].counted
                      /\ polledAt[1] \notin drops => CountsAt(flows'[s].prev, opened[s], polledAt[1])
    BY <1>2, <1>3 DEF PollBefore
  <2>1. flows[s].counted
    BY <1>2 DEF LoopInv, DeltaInv, PollBefore
  <2>2. \A i \in 1..Len(stream) : ~Counting(i, s)
    BY <1>2 DEF LoopInv, DeltaInv, Unasked, Counting
  <2>3. polledAt[1] \notin drops => CountsAt(flows[s].bytes, opened[s], polledAt[1])
    BY <1>3, <2>1, <2>2 DEF LoopInv, DeltaInv, LastPoll
  <2> QED
    BY <1>2, <2>1, <2>3
<1> QED
  BY <1>5, <1>6, <1>7, <1>8, <1>9, <1>10, <1>11, <1>12 DEF LoopInv, PauseInv, DeltaInv

\* The rest of a pass: the drain ends, nothing is due, time passes, the user quits.
LEMMA PassStep ==
  ASSUME LoopInv, Drained \/ NoTick \/ Quit \/ \E wait \in Waits, p \in BOOLEAN : Input(wait, p)
  PROVE  LoopInv'
<1>1. /\ UNCHANGED <<flows, lastTick, resumedAt, polledAt, opened, query, stream, updates, drops>>
      /\ pc' \in {"drain", "sample", "input", "done"}
      /\ wasPaused' \in BOOLEAN /\ paused' \in BOOLEAN
      /\ UNCHANGED engineVars
  BY DEF Drained, NoTick, Quit, Input, engineVars, kernelVars, LoopInv, LoopType, TypeOK
<1>2. /\ now \in Nat /\ lastTick \in Nat /\ lastTick <= now /\ resumedAt \in Nat /\ resumedAt <= lastTick
      /\ polledAt[1] \in Nat /\ lastTick = polledAt[1]
      /\ \A s \in DOMAIN opened : opened[s] \in Nat /\ opened[s] <= now
      /\ \A s \in DOMAIN flows : s \in DOMAIN opened /\ \A d \in Dir : flows[s].bytes[d] \in Nat
      /\ \A i \in 1..Len(stream) : stream[i] \in Message /\ stream[i].src \in DOMAIN opened
  BY TableFacts DEF LoopInv, LoopType, Clocks
<1>3. now' \in 0..MaxTime /\ now' \in Nat /\ now <= now' /\ (now' = now \/ (now < now' /\ query = {} /\ pc' = "drain" /\ pc = "input"))
  <2>1. now \in 0..MaxTime
    BY DEF LoopInv, LoopType, TypeOK
  <2>2. CASE Drained \/ NoTick \/ Quit
    BY <1>2, <2>1, <2>2 DEF Drained, NoTick, Quit
  <2>3. ASSUME NEW wait \in Waits, NEW p \in BOOLEAN, Input(wait, p)
        PROVE  now' \in 0..MaxTime /\ now < now' /\ query = {} /\ pc' = "drain" /\ pc = "input"
    <3>1. /\ now + wait <= MaxTime /\ now' = now + wait
          /\ query = {} /\ pc' = "drain" /\ pc = "input"
      BY <2>3 DEF Input
    <3>2. wait \in Nat /\ wait > 0 /\ MaxTime \in Nat
      BY TuiLoopAssumption
    <3> QED
      BY <1>2, <3>1, <3>2
  <2> QED
    BY <1>2, <2>2, <2>3
<1>4. E!TypeOK'
  BY <1>1, EngineTypes DEF LoopInv, LoopType, TypeOK
<1>5. LoopType'
  <2>1. lastTick \in resumedAt..now' /\ \A s \in DOMAIN opened : opened[s] \in 0..now'
    BY <1>2, <1>3
  <2> QED
    BY <1>1, <1>3, <1>4, <2>1 DEF LoopInv, LoopType, TypeOK
<1>6. Clocks'
  <2>1. pc' = "drain" => now' > now
    <3> SUFFICES ASSUME pc' = "drain" PROVE now' > now
      OBVIOUS
    <3>1. PICK wait \in Waits, p \in BOOLEAN : Input(wait, p)
      BY DEF Drained, NoTick, Quit
    <3>2. wait \in Nat \ {0} /\ now' = now + wait
      BY <3>1, TuiLoopAssumption DEF Input
    <3> QED
      BY <1>2, <3>2
  <2>2. pc' = "sample" => pc = "drain" /\ wasPaused' = wasPaused /\ now' = now
    BY DEF Drained, NoTick, Quit, Input
  <2>3. pc' # "prime"
    BY <1>1
  <2> QED
    BY <1>1, <1>2, <1>3, <2>1, <2>2, <2>3 DEF LoopInv, Clocks
<1>7. \A s \in DOMAIN opened : /\ Carried(opened[s], now) \in Int /\ Carried(opened[s], now') \in Int
                               /\ Carried(opened[s], now) <= Carried(opened[s], now')
                               /\ Carried(opened[s], resumedAt) \in Int
  BY <1>2, <1>3, CarriedFacts
<1>8. InFlight' /\ Announced' /\ Bounded'
  <2>1. Announced'
    BY <1>1 DEF LoopInv, PauseInv, Announced, Counting
  <2>2. Bounded'
    BY <1>1, <1>2, <1>7 DEF LoopInv, PauseInv, Bounded
  <2>3. InFlight'
    <3> SUFFICES ASSUME NEW i \in 1..Len(stream), stream[i].type = "counts", NEW d \in Dir
                 PROVE  stream[i].counts[d] <= Carried(opened[stream[i].src], now')
      BY <1>1 DEF LoopInv, PauseInv, InFlight, Counting
    <3>1. stream[i].counts[d] \in Nat /\ stream[i].src \in DOMAIN opened
      BY <1>2, MessageFacts
    <3>2. stream[i].counts[d] <= Carried(opened[stream[i].src], now)
      BY DEF LoopInv, PauseInv, InFlight
    <3> QED
      BY <1>7, <3>1, <3>2
  <2> QED
    BY <2>1, <2>2, <2>3
<1>9. ResumeAnswered' /\ BaselineAfter'
  BY <1>1 DEF LoopInv, PauseInv, ResumeAnswered, BaselineAfter, Counting
<1>10. pc' = "sample" => Len(stream) = 0 /\ now' = now
  BY DEF Drained, NoTick, Quit, Input
<1>11. ReadBefore'
  <2> SUFFICES ASSUME pc' = "sample", now > polledAt[1], resumedAt \notin drops,
                      NEW s \in DOMAIN flows, NEW d \in Dir
               PROVE  flows[s].bytes[d] >= Carried(opened[s], resumedAt)
    BY <1>1, <1>10 DEF ReadBefore
  <2>1. query = {} /\ s \in DOMAIN opened
    BY <1>2 DEF LoopInv, Clocks
  <2>2. CASE opened[s] >= resumedAt
    <3>1. Carried(opened[s], resumedAt) <= 0 /\ Carried(opened[s], resumedAt) \in Int
      BY <1>2, <2>1, <2>2, CarriedFacts
    <3>2. flows[s].bytes[d] \in Nat
      BY <1>2
    <3> QED
      BY <3>1, <3>2
  <2>3. CASE ~(opened[s] >= resumedAt)
    BY <1>10, <2>1, <2>3 DEF LoopInv, PauseInv, ResumeAnswered
  <2> QED
    BY <2>2, <2>3
<1>12. Unasked'
  BY <1>1, <1>10 DEF LoopInv, DeltaInv, Unasked
<1>13. LastPoll' /\ PollBefore'
  BY <1>1 DEF LoopInv, DeltaInv, LastPoll, PollBefore, Counting
<1> QED
  BY <1>5, <1>6, <1>8, <1>9, <1>11, <1>12, <1>13 DEF LoopInv, PauseInv, DeltaInv

\* Every step of the session keeps the invariant.
LEMMA LoopStep ==
  ASSUME LoopInv, [Next]_vars
  PROVE  LoopInv'
<1>1. CASE UNCHANGED vars
  <2>1. UNCHANGED <<flows, retired, hist, rows, pc, lastTick, wasPaused, paused, resumedAt,
                    polledAt, opened, query, stream, updates, drops, now>>
    BY <1>1 DEF vars, engineVars, loopVars, kernelVars
  <2>2. E!TypeOK'
    BY <2>1, EngineTypes DEF engineVars, LoopInv, LoopType, TypeOK
  <2>3. LoopType' /\ Clocks'
    BY <2>1, <2>2 DEF LoopInv, LoopType, TypeOK, Clocks
  <2>4. PauseInv'
    BY <2>1 DEF LoopInv, PauseInv, InFlight, Announced, Bounded, ResumeAnswered, ReadBefore,
                BaselineAfter, Counting
  <2>5. DeltaInv'
    BY <2>1 DEF LoopInv, DeltaInv, Unasked, LastPoll, PollBefore, Counting
  <2> QED
    BY <2>3, <2>4, <2>5 DEF LoopInv
<1>2. CASE Next
  BY <1>2, KernelStep, ReceiveStep, PrimeStep, ResumeStep, TickStep, PassStep DEF Next, Loop
<1> QED
  BY <1>1, <1>2

----------------------------------------------------------------------------
(* The theorems.                                                           *)

\* The invariant holds of every session.
THEOREM SessionInvariant == Spec => []LoopInv
<1>1. Init => LoopInv
  BY InitLoop
<1>2. LoopInv /\ [Next]_vars => LoopInv'
  BY LoopStep
<1> QED
  BY <1>1, <1>2, PTL DEF Spec

\* The loop and the Engine it drives keep their types, and no interval that is
\* being timed began before the last resume.
THEOREM LoopTypeCorrect == Spec => []TypeOK
<1>1. LoopInv => TypeOK
  BY DEF LoopInv, LoopType
<1> QED
  BY <1>1, SessionInvariant, PTL

\* "Rates are the delta between successive polls", for every interval, every
\* wait and every schedule of the kernel's replies.
THEOREM RatesArePollDeltas == Spec => DeltaBetweenPolls
<1>1. LoopInv /\ [Next]_vars =>
        [ Tick /\ updates = 0 /\ {polledAt[1], polledAt[2]} \cap drops = {} =>
            \A s \in DOMAIN flows, d \in Dir :
              flows[s].primed => flows'[s].rate[d] = Pace * (polledAt[1] - polledAt[2]) ]_vars
  <2> SUFFICES ASSUME LoopInv, Tick, updates = 0, polledAt[1] \notin drops, polledAt[2] \notin drops,
                      NEW s \in DOMAIN flows, NEW d \in Dir, flows[s].primed
               PROVE  flows'[s].rate[d] = Pace * (polledAt[1] - polledAt[2])
    OBVIOUS
  <2>1. /\ polledAt[1] \in Nat /\ polledAt[2] \in Nat /\ polledAt[2] <= polledAt[1] /\ now > polledAt[1]
        /\ pc = "sample" /\ s \in DOMAIN opened /\ opened[s] \in Nat
        /\ flows[s].bytes[d] \in Nat /\ flows[s].prev[d] \in Nat
    BY TickFacts, TableFacts DEF LoopInv, LoopType, Clocks
  <2>2. query = {} /\ \A i \in 1..Len(stream) : ~Counting(i, s)
    BY <2>1 DEF LoopInv, Clocks, DeltaInv, Unasked, Counting
  <2>3. flows[s].counted /\ CountsAt(flows[s].prev, opened[s], polledAt[2])
    BY DEF LoopInv, DeltaInv, PollBefore
  <2>4. CountsAt(flows[s].bytes, opened[s], polledAt[1])
    BY <2>2, <2>3 DEF LoopInv, DeltaInv, LastPoll
  <2>5. /\ Carried(opened[s], polledAt[1]) - Carried(opened[s], polledAt[2])
             = Pace * (polledAt[1] - polledAt[2])
        /\ Carried(opened[s], polledAt[2]) <= Carried(opened[s], polledAt[1])
        /\ Carried(opened[s], polledAt[1]) \in Int /\ Carried(opened[s], polledAt[2]) \in Int
    BY <2>1, CarriedFacts
  <2>6. flows'[s].rate[d] = flows[s].bytes[d] - flows[s].prev[d]
    <3>1. flows'[s].rate = E!Monus(flows[s].bytes, flows[s].prev)
      BY TickFacts
    <3>2. flows[s].bytes[d] >= flows[s].prev[d]
      BY <2>3, <2>4, <2>5 DEF CountsAt
    <3> QED
      BY <3>1, <3>2 DEF E!Monus
  <2> QED
    BY <2>3, <2>4, <2>5, <2>6 DEF CountsAt
<1> QED
  BY <1>1, SessionInvariant, PTL DEF Spec, DeltaBetweenPolls

\* "The paused interval isn't divided into a single tick as a spike": no rate of a
\* session holds bytes from before the last resume.
THEOREM PausesAreNotMeasured == Spec => PauseNeverMeasured
<1>1. LoopInv /\ [Next]_vars => [ Tick /\ resumedAt \notin drops => NoSpike ]_vars
  <2> SUFFICES ASSUME LoopInv, Tick, resumedAt \notin drops, NEW s \in DOMAIN flows, NEW d \in Dir
               PROVE  flows'[s].rate[d] <= Pace * (now - resumedAt)
    BY DEF NoSpike
  <2>1. /\ now \in Nat /\ resumedAt \in Nat /\ resumedAt <= now /\ s \in DOMAIN opened /\ opened[s] \in Nat
        /\ flows[s].bytes[d] \in Nat /\ flows[s].prev[d] \in Nat
    BY TableFacts DEF LoopInv, LoopType
  <2>2. /\ Carried(opened[s], now) - Carried(opened[s], resumedAt) = Pace * (now - resumedAt)
        /\ Carried(opened[s], resumedAt) <= Carried(opened[s], now)
        /\ Carried(opened[s], now) \in Int /\ Carried(opened[s], resumedAt) \in Int
    BY <2>1, CarriedFacts
  <2>3. flows[s].bytes[d] <= Carried(opened[s], now)
    BY DEF LoopInv, PauseInv, Bounded
  <2>4. 0 <= Pace * (now - resumedAt)
    BY <2>2
  <2>5. CASE flows[s].primed
    <3>1. flows[s].prev[d] >= Carried(opened[s], resumedAt)
      BY <2>5 DEF LoopInv, PauseInv, BaselineAfter
    <3>2. flows'[s].rate[d] = IF flows[s].bytes[d] >= flows[s].prev[d]
                              THEN flows[s].bytes[d] - flows[s].prev[d] ELSE 0
      BY <2>5, TickFacts DEF E!Monus
    <3> HIDE DEF Carried
    <3> QED
      BY <2>1, <2>2, <2>3, <2>4, <3>1, <3>2
  <2>6. CASE ~flows[s].primed
    BY <2>4, <2>6, TickFacts DEF E!Zero
  <2> QED
    BY <2>5, <2>6
<1> QED
  BY <1>1, SessionInvariant, PTL DEF Spec, PauseNeverMeasured
=============================================================================
