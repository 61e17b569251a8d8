--------------------------- MODULE MonitorProofs ----------------------------
(***************************************************************************)
(* The client against every kernel: for every number of sources, every     *)
(* pace of the requests, every delay and loss of the replies, and with     *)
(* srcrefs that come back, the flow table holds the announced sources and  *)
(* no other (FlowInv), every flow has the owner of its source (TableInv),  *)
(* no request is lost (RequestInv), so that a snapshot is named (SnapInv), *)
(* and counters rise on their way from the kernel to the table (CountInv), *)
(* so that TOTAL never goes down.                                          *)
(***************************************************************************)
EXTENDS OneShot, FoldLemmas, SequenceTheorems, TLAPS

Message ==
  [type : {"added", "removed"}, src : SrcRefs]
  \cup {Desc(s) : s \in SrcRefs}
  \cup [type : {"counts"}, src : SrcRefs, counts : E!Counts]
  \cup {m \in [type : {"update"}, src : SrcRefs, counts : E!Counts, pid : Pids \cup {E!NoDesc}] :
          m.pid \in {E!NoDesc, OwnerOf[m.src]}}
  \cup [type : {"error"}, code : {ENOBUFS, ENOENT}]

StreamType ==
  /\ stream \in Seq(Message)
  /\ status \in [SrcRefs -> {"new", "live", "closed"}]
  /\ counter \in [SrcRefs -> E!Counts]

\* The client will hold s for announced once it has read the first k messages.
Told(s, k) ==
  \/ \E i \in 1..k : stream[i] = Added(s) /\ \A j \in (i + 1)..k : stream[j] # Removed(s)
  \/ s \in requested /\ \A j \in 1..k : stream[j] # Removed(s)

\* Messages that create a flow.
Creates(m) == m.type \in {"desc", "update"}

\* s must be announced by then: message k creates a flow for it, or the kernel may
\* say anything of it behind the last message.
Due(s, k) == IF k <= Len(stream) THEN Creates(stream[k]) /\ stream[k].src = s ELSE s \in Live

\* A message that creates a flow stands behind the announcement of its source and
\* before its removal.
Ordered == \A s \in SrcRefs : \A k \in 0..Len(stream) : Due(s, k + 1) => Told(s, k)

\* The kernel announces a source only while the client will not hold it for
\* announced, and that it will only of a live source in the end.
Alternates ==
  \A s \in SrcRefs : \A k \in 0..Len(stream) :
    Told(s, k) => IF k + 1 <= Len(stream) THEN stream[k + 1] # Added(s) ELSE s \in Live

FlowInv == StreamType /\ Ordered /\ Alternates /\ FlowsAreRequested

----------------------------------------------------------------------------
\* Before the first message nothing is announced and no flow is tracked.
LEMMA InitFlow == Init => FlowInv
<1> SUFFICES ASSUME Init
             PROVE  FlowInv
  OBVIOUS
<1>1. stream \in Seq(Message) /\ Len(stream) = 0
  BY EmptySeq DEF Init
<1>2. E!Zero \in E!Counts
  BY MonitorAssumption DEF E!Zero, E!Counts, E!Bytes
<1>3. StreamType /\ Live = {}
  BY <1>1, <1>2 DEF Init, StreamType, Live
<1>4. Ordered
  BY <1>1, <1>3 DEF Ordered, Due
<1>5. FlowsAreRequested
  BY DEF Init, E!Init, FlowsAreRequested
<1>6. Alternates
  BY <1>1 DEF Init, Alternates, Told
<1> QED
  BY <1>3, <1>4, <1>5, <1>6 DEF FlowInv

\* A message joins the back: what the client will have been told before it is the
\* same, and it takes back nothing but a source it removes.
LEMMA PostTells ==
  ASSUME StreamType, NEW m \in Message, Post(m), UNCHANGED requested,
         NEW n \in Nat, n = Len(stream)
  PROVE  /\ stream' \in Seq(Message) /\ Len(stream') = Len(stream) + 1
         /\ \A k \in 1..Len(stream) : stream'[k] = stream[k]
         /\ stream'[Len(stream) + 1] = m
         /\ \A s \in SrcRefs :
              /\ \A k \in 0..n : Told(s, k)' <=> Told(s, k)
              /\ Told(s, n + 1)' <=> m = Added(s) \/ (Told(s, n) /\ m # Removed(s))
<1>1. /\ stream' \in Seq(Message) /\ Len(stream') = Len(stream) + 1 /\ Len(stream) \in Nat
      /\ \A k \in 1..Len(stream) : stream'[k] = stream[k]
      /\ stream'[Len(stream) + 1] = m
  BY AppendProperties, LenProperties DEF Post, StreamType
<1> SUFFICES ASSUME NEW s \in SrcRefs
             PROVE  /\ \A k \in 0..n : Told(s, k)' <=> Told(s, k)
                    /\ Told(s, n + 1)' <=> m = Added(s) \/ (Told(s, n) /\ m # Removed(s))
  BY <1>1
<1>2. Added(s)' = Added(s) /\ Removed(s)' = Removed(s)
  BY DEF Added, Removed
<1>3. ASSUME NEW k \in 0..n
      PROVE  Told(s, k)' <=> Told(s, k)
  <2>1. \A j \in 1..k : j \in 1..n
    BY <1>1
  <2>2. \A i \in 1..k : \A j \in (i + 1)..k : j \in 1..n
    BY <1>1
  <2> QED
    BY <1>1, <1>2, <1>3, <2>1, <2>2 DEF Told
<1>4. ASSUME Told(s, n), m # Removed(s)
      PROVE  Told(s, n + 1)'
  <2>1. \A j \in 1..(n + 1) : j \in 1..n \/ j = n + 1
    BY <1>1
  <2>2. CASE s \in requested /\ \A j \in 1..n : stream[j] # Removed(s)
    BY <1>1, <1>2, <1>4, <2>1, <2>2 DEF Told
  <2>3. ASSUME NEW i \in 1..n, stream[i] = Added(s),
               \A j \in (i + 1)..n : stream[j] # Removed(s)
        PROVE  Told(s, n + 1)'
    <3>1. \A j \in (i + 1)..(n + 1) : j \in (i + 1)..n \/ j = n + 1
      BY <1>1
    <3>2. i \in 1..(n + 1) /\ \A j \in (i + 1)..n : j \in 1..n
      BY <1>1
    <3>3. stream'[i] = Added(s)' /\ \A j \in (i + 1)..(n + 1) : stream'[j] # Removed(s)'
      BY <1>1, <1>2, <1>4, <2>3, <3>1, <3>2
    <3> QED
      BY <3>2, <3>3 DEF Told
  <2> QED
    BY <1>4, <2>2, <2>3 DEF Told
<1>5. ASSUME m = Added(s)
      PROVE  Told(s, n + 1)'
  <2>1. n + 1 \in 1..(n + 1)
    BY <1>1
  <2>2. \A j \in (n + 1 + 1)..(n + 1) : FALSE
    BY <1>1
  <2> QED
    BY <1>1, <1>2, <1>5, <2>1, <2>2 DEF Told
<1>6. ASSUME Told(s, n + 1)', m # Added(s)
      PROVE  Told(s, n) /\ m # Removed(s)
  <2>1. \A j \in 1..n : j \in 1..(n + 1)
    BY <1>1
  <2>2. n + 1 \in 1..(n + 1) /\ Len(stream) + 1 = n + 1
    BY <1>1
  <2>3. CASE s \in requested' /\ \A j \in 1..(n + 1) : stream'[j] # Removed(s)
    BY <1>1, <2>1, <2>2, <2>3 DEF Told
  <2>4. ASSUME NEW i \in 1..(n + 1), stream'[i] = Added(s),
               \A j \in (i + 1)..(n + 1) : stream'[j] # Removed(s)
        PROVE  Told(s, n) /\ m # Removed(s)
    <3>1. i # n + 1
      BY <1>1, <1>6, <2>2, <2>4
    <3>2. i \in 1..n /\ n + 1 \in (i + 1)..(n + 1)
      BY <3>1
    <3>3. \A j \in (i + 1)..n : j \in 1..n /\ j \in (i + 1)..(n + 1)
      BY <3>2
    <3>4. stream[i] = Added(s) /\ \A j \in (i + 1)..n : stream[j] # Removed(s)
      BY <1>1, <2>4, <3>2, <3>3
    <3> QED
      BY <1>1, <2>2, <2>4, <3>2, <3>4 DEF Told
  <2> QED
    BY <1>2, <1>6, <2>3, <2>4 DEF Told
<1> QED
  BY <1>3, <1>4, <1>5, <1>6

\* A message of the kernel that is ordered keeps the whole stream ordered.
LEMMA PostFlow ==
  ASSUME FlowInv, NEW m \in Message, Post(m), UNCHANGED <<flows, requested>>,
         counter' \in [SrcRefs -> E!Counts],
         status' \in [SrcRefs -> {"new", "live", "closed"}],
         Creates(m) => m.src \in Live,
         \A s \in SrcRefs : /\ s \in Live' <=> (s \in Live /\ m # Removed(s)) \/ m = Added(s)
                            /\ m = Added(s) => s \notin Live
  PROVE  FlowInv'
<1>1. StreamType /\ Ordered /\ Alternates /\ FlowsAreRequested
  BY DEF FlowInv
<1> PICK n \in Nat : n = Len(stream)
  BY <1>1, LenProperties DEF StreamType
<1>2. /\ stream' \in Seq(Message) /\ Len(stream') = n + 1
      /\ \A k \in 1..n : stream'[k] = stream[k]
      /\ stream'[n + 1] = m
      /\ \A s \in SrcRefs :
           /\ \A k \in 0..n : Told(s, k)' <=> Told(s, k)
           /\ Told(s, n + 1)' <=> m = Added(s) \/ (Told(s, n) /\ m # Removed(s))
  BY <1>1, PostTells
<1>3. ASSUME NEW s \in SrcRefs, NEW k \in 0..(n + 1), Due(s, k + 1)'
      PROVE  Told(s, k)'
  <2>1. CASE k = n + 1
    <3>1. s \in Live'
      BY <1>2, <1>3, <2>1 DEF Due
    <3>2. CASE m = Added(s)
      BY <1>2, <2>1, <3>2
    <3>3. CASE s \in Live /\ m # Removed(s)
      <4>1. Due(s, n + 1) /\ n \in 0..n
        BY <3>3 DEF Due
      <4>2. Told(s, n)
        BY <1>1, <4>1 DEF Ordered
      <4> QED
        BY <1>2, <2>1, <3>3, <4>2
    <3> QED
      BY <3>1, <3>2, <3>3
  <2>2. CASE k # n + 1
    <3>1. k \in 0..n /\ k + 1 \in 1..(n + 1) /\ (k = n \/ k + 1 \in 1..n)
      BY <2>2
    <3>2. Creates(stream'[k + 1]) /\ stream'[k + 1].src = s
      BY <1>2, <1>3, <3>1 DEF Due, Creates
    <3>3. Due(s, k + 1)
      BY <1>2, <3>1, <3>2 DEF Due
    <3>4. Told(s, k)
      BY <1>1, <3>1, <3>3 DEF Ordered
    <3> QED
      BY <1>2, <3>1, <3>4
  <2> QED
    BY <2>1, <2>2
<1>4. Ordered'
  BY <1>2, <1>3 DEF Ordered
<1>5. ASSUME NEW s \in SrcRefs, NEW k \in 0..(n + 1), Told(s, k)'
      PROVE  IF k + 1 <= n + 1 THEN stream'[k + 1] # Added(s) ELSE s \in Live'
  <2>1. \A j \in 0..n : Told(s, j) => IF j + 1 <= n THEN stream[j + 1] # Added(s) ELSE s \in Live
    BY <1>1 DEF Alternates
  <2>2. CASE k = n + 1
    BY <1>2, <1>5, <2>1, <2>2
  <2>3. CASE k = n
    BY <1>2, <1>5, <2>1, <2>3
  <2>4. CASE k \notin {n, n + 1}
    <3>1. k \in 0..n /\ k + 1 \in 1..n
      BY <2>4
    <3> QED
      BY <1>2, <1>5, <2>1, <3>1
  <2> QED
    BY <2>2, <2>3, <2>4
<1>6. Alternates'
  <2>1. \A s : Added(s)' = Added(s)
    BY DEF Added
  <2> QED
    BY <1>2, <1>5, <2>1 DEF Alternates
<1> QED
  BY <1>1, <1>2, <1>4, <1>6 DEF FlowInv, StreamType, FlowsAreRequested

\* Reading a message tells the client what it says, and what is behind it then
\* comes one place sooner.
LEMMA ReceiveTells ==
  ASSUME StreamType, stream # <<>>, stream' = Tail(stream), Apply(Head(stream)),
         NEW n \in Nat, n + 1 = Len(stream)
  PROVE  /\ stream' \in Seq(Message) /\ Len(stream') = n
         /\ \A k \in 1..n : stream'[k] = stream[k + 1]
         /\ \A s \in SrcRefs, k \in 0..n : Told(s, k)' <=> Told(s, k + 1)
<1>1. /\ stream' \in Seq(Message) /\ Len(stream') = n /\ Head(stream) = stream[1]
      /\ \A k \in 1..n : stream'[k] = stream[k + 1]
      /\ Head(stream) \in Message
  BY HeadTailProperties, LenProperties DEF StreamType
<1> SUFFICES ASSUME NEW s \in SrcRefs, NEW k \in 0..n
             PROVE  Told(s, k)' <=> Told(s, k + 1)
  BY <1>1
<1>2. Added(s)' = Added(s) /\ Removed(s)' = Removed(s) /\ Added(s) # Removed(s)
  BY DEF Added, Removed
<1> DEFINE From(i) == \A j \in i..(k + 1) : stream[j] # Removed(s)
<1>3. Told(s, k)' <=> (\E i \in 2..(k + 1) : stream[i] = Added(s) /\ From(i + 1)) \/ (s \in requested' /\ From(2))
  <2>1. \A i \in 1..k : i \in 1..n /\ i + 1 \in 2..(k + 1) /\ stream'[i] = stream[i + 1]
    BY <1>1
  <2>2. \A i \in 1..(k + 1) :
          (\A j \in i..k : stream'[j] # Removed(s)) <=> From(i + 1)
    <3> SUFFICES ASSUME NEW i \in 1..(k + 1)
                 PROVE  (\A j \in i..k : stream'[j] # Removed(s)) <=> From(i + 1)
      OBVIOUS
    <3>1. \A j \in i..k : j \in 1..k /\ j + 1 \in (i + 1)..(k + 1)
      OBVIOUS
    <3>2. \A j \in (i + 1)..(k + 1) : j - 1 \in i..k /\ (j - 1) + 1 = j
      OBVIOUS
    <3>3. ASSUME From(i + 1), NEW j \in i..k
          PROVE  stream'[j] # Removed(s)
      BY <2>1, <3>1, <3>3
    <3>4. ASSUME \A j \in i..k : stream'[j] # Removed(s), NEW j \in (i + 1)..(k + 1)
          PROVE  stream[j] # Removed(s)
      <4>1. j - 1 \in i..k /\ j - 1 \in 1..k /\ (j - 1) + 1 = j
        BY <3>1, <3>2
      <4>2. stream'[j - 1] = stream[j]
        BY <2>1, <4>1
      <4> QED
        BY <3>4, <4>1, <4>2
    <3> QED
      BY <3>3, <3>4
  <2>3. \A i \in 2..(k + 1) : i - 1 \in 1..k /\ (i - 1) + 1 = i
    OBVIOUS
  <2>4. \A i \in 1..k : i \in 1..(k + 1) /\ i + 1 \in 1..(k + 1)
    OBVIOUS
  <2>5. 1 \in 1..(k + 1) /\ 1 + 1 = 2
    OBVIOUS
  <2> HIDE DEF From
  <2>6. (\A j \in 1..k : stream'[j] # Removed(s)') <=> From(2)
    BY <1>2, <2>2, <2>5
  <2>7. \A i \in 1..k : (\A j \in (i + 1)..k : stream'[j] # Removed(s)') <=> From(i + 1 + 1)
    BY <1>2, <2>2, <2>4
  <2>8. (\E i \in 1..k : stream'[i] = Added(s)' /\ \A j \in (i + 1)..k : stream'[j] # Removed(s)')
           <=> \E i \in 2..(k + 1) : stream[i] = Added(s) /\ From(i + 1)
    <3>1. ASSUME NEW i \in 1..k, stream'[i] = Added(s)', \A j \in (i + 1)..k : stream'[j] # Removed(s)'
          PROVE  \E h \in 2..(k + 1) : stream[h] = Added(s) /\ From(h + 1)
      BY <1>2, <2>1, <2>7, <3>1
    <3>2. ASSUME NEW i \in 2..(k + 1), stream[i] = Added(s), From(i + 1)
          PROVE  \E h \in 1..k : stream'[h] = Added(s)' /\ \A j \in (h + 1)..k : stream'[j] # Removed(s)'
      <4>1. i - 1 \in 1..k /\ (i - 1) + 1 = i
        BY <2>3
      <4>2. stream'[i - 1] = Added(s)' /\ From((i - 1) + 1 + 1)
        BY <1>2, <2>1, <3>2, <4>1
      <4>3. \A j \in ((i - 1) + 1)..k : stream'[j] # Removed(s)'
        BY <2>7, <4>1, <4>2
      <4> QED
        BY <4>1, <4>2, <4>3
    <3> QED
      BY <3>1, <3>2
  <2> QED
    BY <2>6, <2>8 DEF Told
<1>4. Told(s, k + 1) <=> \/ \E i \in 2..(k + 1) : stream[i] = Added(s) /\ From(i + 1)
                         \/ stream[1] = Added(s) /\ From(2)
                         \/ s \in requested /\ stream[1] # Removed(s) /\ From(2)
  <2>1. \A i : i \in 1..(k + 1) <=> i = 1 \/ i \in 2..(k + 1)
    OBVIOUS
  <2>2. From(1) <=> stream[1] # Removed(s) /\ From(2)
    BY <2>1
  <2>3. Told(s, k + 1) <=> \/ \E i \in 1..(k + 1) : stream[i] = Added(s) /\ From(i + 1)
                           \/ s \in requested /\ From(1)
    BY DEF Told
  <2>4. 1 + 1 = 2
    OBVIOUS
  <2> HIDE DEF From
  <2> QED
    BY <2>1, <2>2, <2>3, <2>4
<1>5. s \in requested' <=> stream[1] = Added(s) \/ (s \in requested /\ stream[1] # Removed(s))
  <2>1. stream[1].type = "added" => (stream[1] = Added(s) <=> stream[1].src = s)
    BY <1>1 DEF Message, Added, Desc
  <2>2. stream[1].type = "removed" => (stream[1] = Removed(s) <=> stream[1].src = s)
    BY <1>1 DEF Message, Removed, Desc
  <2>3. /\ stream[1].type # "added" => stream[1] # Added(s)
        /\ stream[1].type # "removed" => stream[1] # Removed(s)
    BY DEF Added, Removed
  <2> QED
    BY <1>1, <2>1, <2>2, <2>3 DEF Apply, ApplyAdded, ApplyDesc, ApplyCounts, ApplyUpdate, ApplyRemoved, ApplyError
<1> HIDE DEF From
<1> QED
  BY <1>3, <1>4, <1>5

\* What each message does to the set of tracked flows (flow_mut, on_counts,
\* on_removed).
LEMMA TableDomain ==
  ASSUME NEW s, NEW p, NEW c
  PROVE  /\ E!OnAdded(s) \/ E!OnDesc(s, p) => DOMAIN flows' = DOMAIN flows \cup {s}
         /\ E!OnCounts(s, c) => DOMAIN flows' = DOMAIN flows
         /\ E!OnUpdate(s, c, p) => DOMAIN flows' \in {DOMAIN flows, DOMAIN flows \cup {s}}
         /\ E!OnRemoved(s) => DOMAIN flows' = DOMAIN flows \ {s}
<1>1. \A fl, f : DOMAIN E!Put(fl, s, f) = DOMAIN fl \cup {s}
  BY DEF E!Put
<1>2. \A fl : DOMAIN E!WithDesc(fl, s, p) = DOMAIN fl \cup {s}
  BY <1>1 DEF E!WithDesc
<1>3. \A fl : DOMAIN E!WithCounts(fl, s, c) = DOMAIN fl
  <2> SUFFICES ASSUME NEW fl
               PROVE  DOMAIN E!WithCounts(fl, s, c) = DOMAIN fl
    OBVIOUS
  <2>1. CASE s \in DOMAIN fl
    <3>1. DOMAIN fl \cup {s} = DOMAIN fl
      BY <2>1
    <3> QED
      BY <1>1, <2>1, <3>1 DEF E!WithCounts
  <2>2. CASE s \notin DOMAIN fl
    BY <2>2 DEF E!WithCounts
  <2> QED
    BY <2>1, <2>2
<1>4. E!OnAdded(s) \/ E!OnDesc(s, p) => DOMAIN flows' = DOMAIN flows \cup {s}
  BY <1>1, <1>2 DEF E!OnAdded, E!OnDesc
<1>5. E!OnUpdate(s, c, p) => DOMAIN flows' \in {DOMAIN flows, DOMAIN flows \cup {s}}
  BY <1>2, <1>3 DEF E!OnUpdate
<1>6. E!OnCounts(s, c) => DOMAIN flows' = DOMAIN flows
  BY <1>3 DEF E!OnCounts
<1>7. E!OnRemoved(s) => DOMAIN flows' = DOMAIN flows \ {s}
  BY DEF E!OnRemoved, E!Restrict, Restrict
<1> QED
  BY <1>4, <1>5, <1>6, <1>7

\* The flow table and the set of requests take each message the same way, since
\* what creates a flow is about a source that is announced (Monitor::apply).
LEMMA ReceiveFlow == FlowInv /\ Receive => FlowInv'
<1> SUFFICES ASSUME FlowInv, Receive
             PROVE  FlowInv'
  OBVIOUS
<1> DEFINE m == Head(stream)
<1>1. /\ StreamType /\ Ordered /\ Alternates /\ FlowsAreRequested
      /\ stream # <<>> /\ Apply(m) /\ stream' = Tail(stream)
      /\ UNCHANGED <<status, counter>>
  BY DEF FlowInv, Receive
<1>2. PICK n \in Nat : n + 1 = Len(stream)
  <2>1. Len(stream) \in Nat \ {0}
    BY <1>1, EmptySeq DEF StreamType
  <2>2. Len(stream) - 1 \in Nat /\ (Len(stream) - 1) + 1 = Len(stream)
    BY <2>1
  <2> QED
    BY <2>2
<1>3. /\ stream' \in Seq(Message) /\ Len(stream') = n
      /\ \A k \in 1..n : stream'[k] = stream[k + 1]
      /\ \A s \in SrcRefs, k \in 0..n : Told(s, k)' <=> Told(s, k + 1)
  BY <1>1, <1>2, ReceiveTells
<1>4. Live' = Live
  BY <1>1 DEF Live
<1>5. ASSUME NEW s \in SrcRefs, NEW k \in 0..n, Due(s, k + 1)'
      PROVE  Told(s, k)'
  <2>1. k + 1 \in 0..Len(stream) /\ (k + 1 <= n => k + 1 \in 1..n) /\ k + 1 + 1 \in Nat
    BY <1>2
  <2>2. Due(s, k + 1 + 1)
    BY <1>2, <1>3, <1>4, <1>5, <2>1 DEF Due, Creates
  <2>3. Told(s, k + 1)
    BY <1>1, <2>1, <2>2 DEF Ordered
  <2> QED
    BY <1>3, <2>3
<1>6. Ordered'
  BY <1>3, <1>5 DEF Ordered
<1>7. m = stream[1] /\ m \in Message
  BY <1>1, <1>2, HeadTailProperties DEF StreamType
<1>8. Creates(m) => m.src \in DOMAIN flows
  <2> SUFFICES ASSUME Creates(m)
               PROVE  m.src \in requested
    BY <1>1 DEF FlowsAreRequested
  <2>1. m.src \in SrcRefs
    BY <1>7 DEF Message, Creates, Desc
  <2>2. 0 \in 0..Len(stream) /\ 0 + 1 <= Len(stream)
    BY <1>2
  <2>3. Due(m.src, 0 + 1)
    BY <1>7, <2>2 DEF Due
  <2>4. Told(m.src, 0)
    BY <1>1, <2>1, <2>2, <2>3 DEF Ordered
  <2> QED
    BY <2>4 DEF Told
<1> HIDE DEF m
<1>9. FlowsAreRequested'
  <2>1. CASE ApplyAdded(m)
    BY <1>1, <2>1, TableDomain DEF ApplyAdded, FlowsAreRequested
  <2>2. CASE ApplyDesc(m)
    <3>1. m.src \in DOMAIN flows
      BY <1>8, <2>2 DEF ApplyDesc, Creates
    <3>2. E!OnDesc(m.src, m.pid) /\ requested' = requested
      BY <2>2 DEF ApplyDesc
    <3>3. DOMAIN flows' = DOMAIN flows \cup {m.src}
      BY <3>2, TableDomain
    <3> QED
      BY <1>1, <3>1, <3>2, <3>3 DEF FlowsAreRequested
  <2>3. CASE ApplyCounts(m)
    BY <1>1, <2>3, TableDomain DEF ApplyCounts, FlowsAreRequested
  <2>4. CASE ApplyUpdate(m)
    <3>1. m.src \in DOMAIN flows
      BY <1>8, <2>4 DEF ApplyUpdate, Creates
    <3>2. E!OnUpdate(m.src, m.counts, m.pid) /\ requested' = requested
      BY <2>4 DEF ApplyUpdate
    <3>3. DOMAIN flows' \in {DOMAIN flows, DOMAIN flows \cup {m.src}}
      BY <3>2, TableDomain
    <3> QED
      BY <1>1, <3>1, <3>2, <3>3 DEF FlowsAreRequested
  <2>5. CASE ApplyRemoved(m)
    BY <1>1, <2>5, TableDomain DEF ApplyRemoved, FlowsAreRequested
  <2>6. CASE ApplyError(m)
    BY <1>1, <2>6 DEF ApplyError, engineVars, FlowsAreRequested
  <2> QED
    BY <1>1, <2>1, <2>2, <2>3, <2>4, <2>5, <2>6 DEF Apply
<1>10. Alternates'
  <2> SUFFICES ASSUME NEW s \in SrcRefs, NEW k \in 0..n, Told(s, k)'
               PROVE  IF k + 1 <= n THEN stream'[k + 1] # Added(s) ELSE s \in Live
    BY <1>3, <1>4 DEF Alternates, Added
  <2>1. k + 1 \in 0..Len(stream) /\ (k + 1 <= n => k + 1 \in 1..n) /\ (k + 1 + 1 <= Len(stream) <=> k + 1 <= n)
    BY <1>2
  <2>2. Told(s, k + 1)
    BY <1>3
  <2> QED
    BY <1>1, <1>3, <2>1, <2>2 DEF Alternates
<1> QED
  BY <1>1, <1>3, <1>6, <1>9, <1>10 DEF FlowInv, StreamType

\* Steps that neither read nor post a message.
LEMMA StillFlow ==
  ASSUME FlowInv, UNCHANGED <<stream, status, requested>>, DOMAIN flows' = DOMAIN flows,
         counter' \in [SrcRefs -> E!Counts]
  PROVE  FlowInv'
<1>1. Live' = Live
  BY DEF Live
<1>2. \A s \in SrcRefs, k \in Nat : (Due(s, k)' <=> Due(s, k)) /\ (Told(s, k)' <=> Told(s, k))
  BY <1>1 DEF Due, Creates, Told, Added, Removed
<1>3. Len(stream) \in Nat
  BY LenProperties DEF FlowInv, StreamType
<1>4. \A k \in 0..Len(stream) : k \in Nat /\ k + 1 \in Nat
  BY <1>3
<1>5. Ordered'
  BY <1>2, <1>4 DEF FlowInv, Ordered
<1>6. Alternates'
  BY <1>1, <1>2, <1>3 DEF FlowInv, Alternates, Added
<1> QED
  BY <1>5, <1>6 DEF FlowInv, StreamType, FlowsAreRequested

\* Each message of the kernel is a Message, and one that creates a flow is about a
\* live source.
LEMMA KernelFlow == FlowInv /\ Kernel => FlowInv'
<1> SUFFICES ASSUME FlowInv, Kernel
             PROVE  FlowInv'
  OBVIOUS
<1> USE DEF engineVars, clientVars
<1>1. StreamType
  BY DEF FlowInv
<1>2. ASSUME NEW s \in SrcRefs
      PROVE  /\ Added(s) \in Message /\ Removed(s) \in Message /\ Counted(s) \in Message
             /\ Desc(s) \in Message /\ \A p \in {E!NoDesc, OwnerOf[s]} : Update(s, p) \in Message
  <2>1. OwnerOf[s] \in Pids /\ counter[s] \in E!Counts
    BY <1>1, MonitorAssumption DEF StreamType
  <2> QED
    BY <2>1 DEF Message, Added, Removed, Counted, Desc, Update
<1>3. Error(ENOBUFS) \in Message /\ Error(ENOENT) \in Message
  BY DEF Message, Error
<1>4. \A s, t : Removed(s) # Added(t) /\ (s # t => Removed(s) # Removed(t) /\ Added(s) # Added(t))
  BY DEF Added, Removed
<1>5. ASSUME NEW s \in SrcRefs, KernelOpen(s)
      PROVE  FlowInv'
  <2>1. /\ Post(Added(s)) /\ UNCHANGED <<flows, requested>>
        /\ status' = [status EXCEPT ![s] = "live"]
        /\ counter' \in [SrcRefs -> E!Counts]
    BY <1>1, <1>5 DEF KernelOpen, StreamType
  <2>2. \A t \in SrcRefs : /\ t \in Live' <=> (t \in Live /\ Added(s) # Removed(t)) \/ Added(s) = Added(t)
                           /\ Added(s) = Added(t) => t \notin Live
    <3>1. s \notin Live
      BY <1>5 DEF KernelOpen, Live
    <3> QED
      BY <1>1, <1>4, <2>1, <3>1 DEF Live, StreamType
  <2>3. status' \in [SrcRefs -> {"new", "live", "closed"}] /\ ~Creates(Added(s))
    BY <1>1, <2>1 DEF StreamType, Creates, Added
  <2> QED
    BY <1>2, <2>1, <2>2, <2>3, PostFlow
<1>6. ASSUME NEW s \in SrcRefs, KernelClose(s)
      PROVE  FlowInv'
  <2>1. /\ Post(Removed(s)) /\ UNCHANGED <<flows, requested, counter>>
        /\ status' = [status EXCEPT ![s] = "closed"]
    BY <1>6 DEF KernelClose
  <2>2. \A t \in SrcRefs : /\ t \in Live' <=> (t \in Live /\ Removed(s) # Removed(t)) \/ Removed(s) = Added(t)
                           /\ Removed(s) # Added(t)
    BY <1>1, <1>4, <2>1 DEF Live, StreamType
  <2>3. /\ status' \in [SrcRefs -> {"new", "live", "closed"}] /\ ~Creates(Removed(s))
        /\ counter' \in [SrcRefs -> E!Counts]
    BY <1>1, <2>1 DEF StreamType, Creates, Removed
  <2> QED
    BY <1>2, <2>1, <2>2, <2>3, PostFlow
<1>7. ASSUME NEW s \in SrcRefs, NEW d \in Dir, KernelTraffic(s, d)
      PROVE  FlowInv'
  <2>1. /\ UNCHANGED <<stream, status, requested, flows>> /\ counter[s][d] < MaxBytes
        /\ counter' = [counter EXCEPT ![s][d] = @ + 1]
    BY <1>7 DEF KernelTraffic
  <2>2. counter[s] \in [Dir -> 0..MaxBytes] /\ counter[s][d] + 1 \in 0..MaxBytes
    BY <1>1, <2>1, MonitorAssumption DEF StreamType, E!Counts, E!Bytes
  <2>3. [counter[s] EXCEPT ![d] = @ + 1] \in E!Counts
    BY <2>2 DEF E!Counts, E!Bytes
  <2>4. counter' \in [SrcRefs -> E!Counts]
    BY <1>1, <2>1, <2>3 DEF StreamType
  <2> QED
    BY <2>1, <2>4, StillFlow
<1>8. ASSUME NEW m \in Message, Post(m), UNCHANGED <<flows, requested, status, counter>>,
             m.type \notin {"added", "removed"}, Creates(m) => m.src \in Live
      PROVE  FlowInv'
  <2>1. Live' = Live /\ \A t : m # Removed(t) /\ m # Added(t)
    BY <1>8 DEF Live, Removed, Added
  <2> QED
    BY <1>1, <1>8, <2>1, PostFlow DEF StreamType
<1>9. CASE KernelDescribe
  <2> DEFINE s == Head(asked)
  <2>1. UNCHANGED <<flows, requested, status, counter>> /\ Post(IF s \in Live THEN Desc(s) ELSE Error(ENOENT))
    BY <1>9 DEF KernelDescribe
  <2> HIDE DEF s
  <2>2. CASE s \in Live
    BY <1>2, <1>8, <2>1, <2>2 DEF Live, Desc, Creates
  <2>3. CASE s \notin Live
    BY <1>3, <1>8, <2>1, <2>3 DEF Error, Creates
  <2> QED
    BY <2>2, <2>3
<1>10. CASE KernelDropsDesc
  BY <1>3, <1>8, <1>10 DEF KernelDropsDesc, Error, Creates
<1>11. ASSUME NEW s \in SrcRefs, KernelReport(s)
       PROVE  FlowInv'
  BY <1>2, <1>8, <1>11 DEF KernelReport, Counted, Creates
<1>12. ASSUME NEW s \in SrcRefs, KernelDropsCounts(s)
       PROVE  FlowInv'
  BY <1>3, <1>8, <1>12 DEF KernelDropsCounts, Error, Creates
<1>13. ASSUME NEW s \in SrcRefs, NEW p \in Pids \cup {E!NoDesc}, KernelUpdate(s, p)
       PROVE  FlowInv'
  BY <1>2, <1>8, <1>13 DEF KernelUpdate, Update, Creates, Live
<1> QED
  BY <1>5, <1>6, <1>7, <1>9, <1>10, <1>11, <1>12, <1>13 DEF Kernel

\* Every step of the kernel and of the client keeps the invariant.
LEMMA StepFlow == FlowInv /\ [Next]_vars => FlowInv'
<1> SUFFICES ASSUME FlowInv, [Next]_vars
             PROVE  FlowInv'
  OBVIOUS
<1> USE DEF engineVars, clientVars, kernelVars
<1>1. StreamType
  BY DEF FlowInv
<1>2. CASE Kernel
  BY <1>2, KernelFlow
<1>3. CASE Receive
  BY <1>3, ReceiveFlow
<1>4. ASSUME UNCHANGED <<stream, status, counter, requested, flows>>
      PROVE  FlowInv'
  BY <1>1, <1>4, StillFlow DEF StreamType
<1>5. CASE StartDrain \/ WouldBlock \/ Pump \/ PollCounts
  BY <1>4, <1>5 DEF StartDrain, WouldBlock, Pump, PollCounts
<1>6. ASSUME NEW dt \in Spans, Tick(dt)
      PROVE  FlowInv'
  <2>1. UNCHANGED <<stream, status, counter, requested>> /\ DOMAIN flows' = DOMAIN flows
    BY <1>6 DEF Tick, E!Tick
  <2> QED
    BY <1>1, <2>1, StillFlow DEF StreamType
<1>7. CASE Reprime
  <2>1. UNCHANGED <<stream, status, counter, requested>> /\ DOMAIN flows' = DOMAIN flows
    BY <1>7 DEF Reprime, E!Reprime
  <2> QED
    BY <1>1, <2>1, StillFlow DEF StreamType
<1>8. CASE UNCHANGED vars
  BY <1>4, <1>8 DEF vars
<1> QED
  BY <1>2, <1>3, <1>5, <1>6, <1>7, <1>8 DEF Next, Client

\* The flow table holds exactly the sources that are announced and not yet removed,
\* although counts and descriptions come late, are lost, or are about a source that
\* has closed: no flow is left over that nobody will ever close (Monitor::apply,
\* Engine::on_counts).
THEOREM FlowsAlwaysRequested == Spec => []FlowsAreRequested
<1>1. FlowInv => FlowsAreRequested
  BY DEF FlowInv
<1> QED
  BY <1>1, InitFlow, StepFlow, PTL DEF Spec
----------------------------------------------------------------------------
(* Counting in queues.                                                     *)

\* Sets that a one-to-one map takes onto each other are of one size.
LEMMA SameSize ==
  ASSUME NEW A, IsFiniteSet(A), NEW B, NEW f \in [A -> B],
         \A x, y \in A : f[x] = f[y] => x = y,
         \A z \in B : \E x \in A : f[x] = z
  PROVE  IsFiniteSet(B) /\ Cardinality(B) = Cardinality(A)
<1>1. f \in Bijection(A, B)
  BY DEF Bijection, Injection, Surjection, IsInjective
<1> QED
  BY <1>1, FS_Bijection DEF ExistsBijection

\* Where x stands in a queue.
Spots(q, x) == {k \in 1..Len(q) : q[k] = x}

\* Occurrences counts them.
LEMMA SpotsCount ==
  ASSUME NEW S, NEW q \in Seq(S), NEW x
  PROVE  /\ Len(q) \in Nat
         /\ Occurrences(q, x) = Cardinality(Spots(q, x))
         /\ IsFiniteSet(Spots(q, x))
         /\ Occurrences(q, x) \in Nat
         /\ Occurrences(q, x) = 0 <=> \A k \in 1..Len(q) : q[k] # x
<1>1. Len(q) \in Nat /\ DOMAIN q = 1..Len(q)
  BY LenProperties
<1>2. IsFiniteSet(Spots(q, x))
  <2>1. IsFiniteSet(1..Len(q))
    BY <1>1, FS_Interval
  <2> QED
    BY <2>1, FS_Subset DEF Spots
<1>3. Occurrences(q, x) = Cardinality(Spots(q, x))
  BY <1>1 DEF Occurrences, Spots
<1>4. Cardinality(Spots(q, x)) = 0 <=> Spots(q, x) = {}
  BY <1>2, FS_EmptySet
<1> QED
  BY <1>1, <1>2, <1>3, <1>4, FS_CardinalityType DEF Spots

\* One queue behind another.
LEMMA CountConcat ==
  ASSUME NEW S, NEW a \in Seq(S), NEW b \in Seq(S), NEW x
  PROVE  Occurrences(a \o b, x) = Occurrences(a, x) + Occurrences(b, x)
<1> DEFINE c == a \o b
           n == Len(a)
           B == {k \in (n + 1)..Len(c) : c[k] = x}
           f == [k \in Spots(b, x) |-> k + n]
<1>1. /\ c \in Seq(S) /\ n \in Nat /\ Len(b) \in Nat /\ Len(c) = n + Len(b)
      /\ \A i \in 1..n : c[i] = a[i]
      /\ \A i \in 1..Len(b) : c[i + n] = b[i]
  BY ConcatProperties, SpotsCount
<1> HIDE DEF c, n
<1>2. IsFiniteSet(B) /\ Cardinality(B) = Cardinality(Spots(b, x))
  <2>1. f \in [Spots(b, x) -> B]
    BY <1>1 DEF Spots
  <2>2. \A k, l \in Spots(b, x) : f[k] = f[l] => k = l
    BY <1>1 DEF Spots
  <2>3. \A z \in B : z - n \in Spots(b, x) /\ f[z - n] = z
    <3> SUFFICES ASSUME NEW z \in B PROVE z - n \in Spots(b, x) /\ f[z - n] = z
      OBVIOUS
    <3>1. z - n \in 1..Len(b) /\ (z - n) + n = z
      BY <1>1
    <3>2. b[z - n] = x
      BY <1>1, <3>1
    <3> QED
      BY <3>1, <3>2 DEF Spots
  <2> HIDE DEF f, B
  <2> QED
    BY <2>1, <2>2, <2>3, SameSize, SpotsCount
<1>3. Spots(c, x) = Spots(a, x) \cup B /\ Spots(a, x) \cap B = {}
  <2>1. \A k \in 1..Len(c) : k \in 1..n \/ k \in (n + 1)..Len(c)
    BY <1>1
  <2>2. \A k \in 1..n : k \in 1..Len(c) /\ k \notin (n + 1)..Len(c)
    BY <1>1
  <2>3. \A k \in (n + 1)..Len(c) : k \in 1..Len(c)
    BY <1>1
  <2>4. Spots(a, x) = {k \in 1..n : c[k] = x}
    BY <1>1 DEF Spots, n
  <2> QED
    BY <2>1, <2>2, <2>3, <2>4 DEF Spots
<1>4. Cardinality(Spots(c, x)) = Cardinality(Spots(a, x)) + Cardinality(B)
  <2> HIDE DEF B
  <2>1. IsFiniteSet(Spots(a, x)) /\ Cardinality({}) = 0
    BY SpotsCount, FS_EmptySet
  <2>2. Cardinality(Spots(a, x)) \in Nat /\ Cardinality(B) \in Nat
    BY <1>2, <2>1, FS_CardinalityType
  <2>3. Cardinality(Spots(a, x) \cup B)
          = Cardinality(Spots(a, x)) + Cardinality(B) - Cardinality(Spots(a, x) \cap B)
    BY <1>2, <2>1, FS_Union
  <2>4. Cardinality(Spots(a, x) \cap B) = 0 /\ Cardinality(Spots(c, x)) = Cardinality(Spots(a, x) \cup B)
    BY <1>3, <2>1, Zenon
  <2> QED
    BY <2>2, <2>3, <2>4
<1> QED
  BY <1>1, <1>2, <1>4, SpotsCount DEF c

\* One message more at the back.
LEMMA CountAppend ==
  ASSUME NEW S, NEW q \in Seq(S), NEW y \in S, NEW x
  PROVE  Occurrences(Append(q, y), x) = Occurrences(q, x) + IF y = x THEN 1 ELSE 0
<1> DEFINE r == Append(q, y)
           n == Len(q)
<1>1. /\ r \in Seq(S) /\ n \in Nat /\ Len(r) = n + 1
      /\ \A i \in 1..n : r[i] = q[i]
      /\ r[n + 1] = y
  BY AppendProperties, SpotsCount
<1> HIDE DEF r
<1>2. Spots(r, x) = IF y = x THEN Spots(q, x) \cup {n + 1} ELSE Spots(q, x)
  BY <1>1 DEF Spots
<1>3. n + 1 \notin Spots(q, x) /\ IsFiniteSet(Spots(q, x))
  <2>1. n + 1 \notin 1..n
    BY <1>1
  <2> QED
    BY <2>1, SpotsCount DEF Spots
<1>4. Cardinality(Spots(q, x) \cup {n + 1}) = Cardinality(Spots(q, x)) + 1
  BY <1>3, FS_AddElement
<1>5. Occurrences(r, x) = Cardinality(Spots(r, x)) /\ Occurrences(q, x) = Cardinality(Spots(q, x))
      /\ Occurrences(q, x) \in Nat
  BY <1>1, SpotsCount
<1> QED
  BY <1>2, <1>4, <1>5 DEF r

\* One message less at the front.
LEMMA CountTail ==
  ASSUME NEW S, NEW q \in Seq(S), q # <<>>, NEW x
  PROVE  Occurrences(q, x) = Occurrences(Tail(q), x) + IF Head(q) = x THEN 1 ELSE 0
<1> DEFINE r == Tail(q)
           n == Len(q)
           B == {k \in 2..n : q[k] = x}
           f == [k \in Spots(r, x) |-> k + 1]
<1>1. /\ r \in Seq(S) /\ n \in Nat \ {0} /\ Len(r) = n - 1
      /\ \A i \in 1..Len(r) : r[i] = q[i + 1]
      /\ Head(q) = q[1]
  BY HeadTailProperties, LenProperties, EmptySeq
<1> HIDE DEF r, n
<1>2. IsFiniteSet(B) /\ Cardinality(B) = Cardinality(Spots(r, x))
  <2>1. f \in [Spots(r, x) -> B]
    BY <1>1 DEF Spots
  <2>2. \A k, l \in Spots(r, x) : f[k] = f[l] => k = l
    BY <1>1 DEF Spots
  <2>3. \A z \in B : z - 1 \in Spots(r, x) /\ f[z - 1] = z
    <3> SUFFICES ASSUME NEW z \in B PROVE z - 1 \in Spots(r, x) /\ f[z - 1] = z
      OBVIOUS
    <3>1. z - 1 \in 1..Len(r) /\ (z - 1) + 1 = z
      BY <1>1
    <3>2. r[z - 1] = x
      BY <1>1, <3>1
    <3> QED
      BY <3>1, <3>2 DEF Spots
  <2> HIDE DEF f, B
  <2>4. IsFiniteSet(Spots(r, x))
    BY <1>1, SpotsCount
  <2> QED
    BY <2>1, <2>2, <2>3, <2>4, SameSize
<1>3. Spots(q, x) = IF Head(q) = x THEN B \cup {1} ELSE B
  BY <1>1 DEF Spots, n
<1>4. 1 \notin B
  OBVIOUS
<1>5. Cardinality(B \cup {1}) = Cardinality(B) + 1
  <2> HIDE DEF B
  <2> QED
    BY <1>2, <1>4, FS_AddElement
<1>6. /\ Occurrences(q, x) = Cardinality(Spots(q, x))
      /\ Occurrences(r, x) = Cardinality(Spots(r, x)) /\ Occurrences(r, x) \in Nat
  BY <1>1, SpotsCount
<1> HIDE DEF B
<1> QED
  BY <1>2, <1>3, <1>5, <1>6 DEF r

----------------------------------------------------------------------------
(* What take_desc_batch takes and what it leaves.                          *)

\* How many of the first n requests are for a live source.
LiveIn(q, live, n) == Cardinality({k \in 1..n : q[k] \in live})

\* It starts from nothing and grows by one with every live request.
LEMMA LiveGrows ==
  ASSUME NEW q, NEW live
  PROVE  /\ LiveIn(q, live, 0) = 0
         /\ \A n \in Nat : LiveIn(q, live, n) \in Nat
         /\ \A n \in Nat : LiveIn(q, live, n + 1)
                             = LiveIn(q, live, n) + IF q[n + 1] \in live THEN 1 ELSE 0
         /\ \A m, n \in Nat : m <= n => LiveIn(q, live, m) <= LiveIn(q, live, n)
<1> DEFINE K(n) == {k \in 1..n : q[k] \in live}
<1>1. ASSUME NEW n \in Nat
      PROVE  IsFiniteSet(K(n)) /\ Cardinality(K(n)) \in Nat
  <2>1. IsFiniteSet(1..n)
    BY FS_Interval
  <2> QED
    BY <2>1, FS_Subset, FS_CardinalityType
<1>2. K(0) = {} /\ Cardinality({}) = 0
  BY FS_EmptySet
<1>3. ASSUME NEW n \in Nat
      PROVE  Cardinality(K(n + 1)) = Cardinality(K(n)) + IF q[n + 1] \in live THEN 1 ELSE 0
  <2>1. K(n + 1) = IF q[n + 1] \in live THEN K(n) \cup {n + 1} ELSE K(n)
    OBVIOUS
  <2>2. n + 1 \notin K(n)
    OBVIOUS
  <2> HIDE DEF K
  <2>3. Cardinality(K(n) \cup {n + 1}) = Cardinality(K(n)) + 1
    BY <1>1, <2>2, FS_AddElement
  <2> QED
    BY <1>1, <2>1, <2>3
<1>4. ASSUME NEW m \in Nat, NEW n \in Nat, m <= n
      PROVE  Cardinality(K(m)) <= Cardinality(K(n))
  <2>1. K(m) \subseteq K(n)
    BY <1>4
  <2> HIDE DEF K
  <2> QED
    BY <1>1, <2>1, FS_Subset
<1>5. \A n \in Nat : LiveIn(q, live, n) = Cardinality(K(n))
  BY DEF LiveIn
<1> HIDE DEF K
<1>6. LiveIn(q, live, 0) = 0
  BY <1>2, <1>5
<1>7. \A n \in Nat : n + 1 \in Nat
  OBVIOUS
<1> QED
  BY <1>1, <1>3, <1>4, <1>5, <1>6, <1>7

\* The place of the i-th live request among the first c.
LivePlace(q, live, c, i) == Min({n \in 1..c : LiveIn(q, live, n) = i})

\* The live requests among the first c and their numbers correspond one to one.
LEMMA LivePlaces ==
  ASSUME NEW q, NEW live, NEW c \in Nat
  PROVE  /\ \A i \in 1..LiveIn(q, live, c) :
              /\ LivePlace(q, live, c, i) \in 1..c
              /\ q[LivePlace(q, live, c, i)] \in live
              /\ LiveIn(q, live, LivePlace(q, live, c, i)) = i
         /\ \A n \in 1..c : q[n] \in live =>
              /\ LiveIn(q, live, n) \in 1..LiveIn(q, live, c)
              /\ LivePlace(q, live, c, LiveIn(q, live, n)) = n
<1> DEFINE L(n) == LiveIn(q, live, n)
           P(i) == {n \in 1..c : L(n) = i}
<1>1. /\ L(0) = 0
      /\ \A n \in Nat : L(n) \in Nat
      /\ \A n \in Nat : L(n + 1) = L(n) + IF q[n + 1] \in live THEN 1 ELSE 0
      /\ \A m, n \in Nat : m <= n => L(m) <= L(n)
  BY LiveGrows
<1>2. \A i : LivePlace(q, live, c, i) = Min(P(i))
  BY DEF LivePlace
<1> HIDE DEF L
<1>3. ASSUME NEW i \in 1..L(c)
      PROVE  Min(P(i)) \in 1..c /\ q[Min(P(i))] \in live /\ L(Min(P(i))) = i
  <2> DEFINE T == {n \in 0..c : i <= L(n)}
  <2>1. c \in T /\ T \subseteq Nat /\ i \in Nat \ {0}
    <3>1. L(c) \in Nat
      BY <1>1
    <3>2. c \in 0..c /\ i <= L(c) /\ i \in Nat \ {0}
      BY <3>1
    <3> QED
      BY <3>2
  <2>2. PICK n \in T : \A y \in T : n <= y
    BY <2>1, LeastNat
  <2>3. n \in 0..c /\ i <= L(n) /\ n # 0
    BY <1>1, <2>1, <2>2
  <2>4. n - 1 \in Nat /\ n - 1 \notin T /\ n - 1 \in 0..c /\ (n - 1) + 1 = n
    BY <2>2, <2>3
  <2>5. L(n) = L(n - 1) + (IF q[n] \in live THEN 1 ELSE 0) /\ L(n - 1) \in Nat /\ L(n) \in Nat
    <3> HIDE DEF T
    <3>1. n \in Nat
      BY <2>3
    <3>2. L((n - 1) + 1) = L(n - 1) + IF q[(n - 1) + 1] \in live THEN 1 ELSE 0
      BY <1>1, <2>4
    <3> QED
      BY <1>1, <2>4, <3>1, <3>2
  <2>6. ~(i <= L(n - 1))
    BY <2>4
  <2>7. L(n) = i
    BY <2>1, <2>3, <2>5, <2>6
  <2>8. n \in P(i)
    BY <2>3, <2>7
  <2> DEFINE a == Min(P(i))
  <2>9. a \in P(i) /\ \A y \in P(i) : a <= y
    <3>1. P(i) \subseteq Nat /\ P(i) # {}
      BY <2>8
    <3> HIDE DEF P
    <3> QED
      BY <3>1, MinOfNats
  <2>10. a \in 1..c /\ L(a) = i
    BY <2>9
  <2> HIDE DEF a
  <2>11. a - 1 \in Nat /\ (a - 1) + 1 = a /\ L(a - 1) # i
    <3>1. CASE a = 1
      BY <1>1, <2>1, <3>1
    <3>2. CASE a # 1
      <4>1. a - 1 \in 1..c /\ ~(a <= a - 1)
        BY <2>10, <3>2
      <4> QED
        BY <2>9, <4>1
    <3> QED
      BY <2>10, <3>1, <3>2
  <2>12. q[a] \in live
    <3>1. L(a) = L(a - 1) + (IF q[a] \in live THEN 1 ELSE 0) /\ L(a - 1) \in Nat
      BY <1>1, <2>11
    <3> QED
      BY <2>10, <2>11, <3>1
  <2> QED
    BY <2>10, <2>12 DEF a
<1>4. ASSUME NEW n \in 1..c, q[n] \in live
      PROVE  L(n) \in 1..L(c) /\ Min(P(L(n))) = n
  <2>1. n - 1 \in Nat /\ (n - 1) + 1 = n /\ n \in Nat /\ n <= c
    OBVIOUS
  <2>2. L(n) = L(n - 1) + 1 /\ L(n - 1) \in Nat /\ L(n) <= L(c) /\ L(c) \in Nat
    BY <1>1, <1>4, <2>1
  <2>3. L(n) \in 1..L(c)
    BY <2>2
  <2> DEFINE a == Min(P(L(n)))
  <2>4. a \in P(L(n)) /\ \A y \in P(L(n)) : a <= y
    <3>1. P(L(n)) \subseteq Nat /\ P(L(n)) # {}
      OBVIOUS
    <3> HIDE DEF P
    <3> QED
      BY <3>1, MinOfNats
  <2>5. a \in 1..c /\ L(a) = L(n) /\ a <= n
    BY <2>4
  <2> HIDE DEF a
  <2>6. ~(a <= n - 1)
    <3> SUFFICES ASSUME a <= n - 1 PROVE FALSE
      OBVIOUS
    <3>1. L(a) <= L(n - 1)
      BY <1>1, <2>1, <2>5
    <3> QED
      BY <2>2, <2>5, <3>1
  <2> QED
    BY <2>1, <2>3, <2>5, <2>6 DEF a
<1> HIDE DEF P
<1> QED
  BY <1>2, <1>3, <1>4 DEF L

\* A queue cut in two.
LEMMA CountSplit ==
  ASSUME NEW S, NEW q \in Seq(S), NEW c \in 0..Len(q)
  PROVE  /\ SubSeq(q, 1, c) \in Seq(S) /\ Len(SubSeq(q, 1, c)) = c
         /\ \A i \in 1..c : SubSeq(q, 1, c)[i] = q[i]
         /\ SubSeq(q, c + 1, Len(q)) \in Seq(S)
         /\ \A x : Occurrences(q, x)
                     = Occurrences(SubSeq(q, 1, c), x) + Occurrences(SubSeq(q, c + 1, Len(q)), x)
<1> DEFINE n == Len(q)
           a == SubSeq(q, 1, c)
           b == SubSeq(q, c + 1, n)
<1>1. n \in Nat /\ \A i \in 1..n : q[i] \in S
  BY LenProperties, ElementOfSeq
<1> HIDE DEF n
<1>2. c \in 0..n
  BY DEF n
<1>3. a \in Seq(S) /\ Len(a) = c /\ \A i \in 1..c : a[i] = q[i]
  <2>1. \A i \in 1..c : q[i] \in S
    BY <1>1, <1>2
  <2>2. /\ a \in Seq(S) /\ Len(a) = IF 1 <= c THEN c - 1 + 1 ELSE 0
        /\ \A i \in 1..(c - 1 + 1) : a[i] = q[1 + i - 1]
    BY <1>1, <1>2, <2>1, SubSeqProperties
  <2> HIDE DEF a
  <2> QED
    BY <1>2, <2>2
<1>4. b \in Seq(S)
  <2>1. \A i \in (c + 1)..n : q[i] \in S
    BY <1>1, <1>2
  <2> QED
    BY <1>1, <1>2, <2>1, SubSeqProperties
<1>5. a \o b = q
  <2>1. 1 \in 1..(n + 1) /\ c \in (1 - 1)..n /\ n \in c..n
    BY <1>1, <1>2
  <2>2. a \o b = SubSeq(q, 1, n)
    BY <2>1, ConcatAdjacentSubSeq DEF n
  <2> QED
    BY <2>2, SubSeqFull DEF n
<1> HIDE DEF a, b
<1>6. \A x : Occurrences(q, x) = Occurrences(a, x) + Occurrences(b, x)
  BY <1>3, <1>4, <1>5, CountConcat
<1> QED
  BY <1>3, <1>4, <1>6 DEF a, b, n

\* Every x of a queue is in one of the two it was divided into.
Shared(q, a, b, x) == Occurrences(q, x) = Occurrences(a, x) + Occurrences(b, x)

\* A batch takes at most its size of live requests, in their order; every live
\* request is taken or left, once, and one that is not live is never taken.
LEMMA BatchFacts ==
  ASSUME NEW S, NEW q \in Seq(S), NEW live, NEW batch \in Nat \ {0}
  PROVE  LET t == TakeDescBatch(q, live, batch)
         IN  /\ t.out \in Seq(S \cap live) /\ t.rest \in Seq(S)
             /\ Len(t.out) <= batch
             /\ \A x \in live : Shared(q, t.out, t.rest, x)
             /\ \A x : Occurrences(t.rest, x) <= Occurrences(q, x)
<1> DEFINE n == Len(q)
           L(k) == LiveIn(q, live, k)
           cut == Min({k \in 0..n : k = n \/ L(k) = batch})
           spot(i) == LivePlace(q, live, cut, i)
           out == [i \in 1..L(cut) |-> q[spot(i)]]
           rest == SubSeq(q, cut + 1, n)
           front == SubSeq(q, 1, cut)
<1>1. TakeDescBatch(q, live, batch) = [out |-> out, rest |-> rest]
  BY DEF TakeDescBatch, LiveIn, LivePlace
<1>2. n \in Nat /\ \A i \in 1..n : q[i] \in S
  BY LenProperties, ElementOfSeq
<1>3. /\ L(0) = 0
      /\ \A k \in Nat : L(k) \in Nat
      /\ \A k \in Nat : L(k + 1) = L(k) + IF q[k + 1] \in live THEN 1 ELSE 0
      /\ \A k, m \in Nat : k <= m => L(k) <= L(m)
  BY LiveGrows
<1> HIDE DEF n
<1>4. /\ cut \in 0..n /\ (cut = n \/ L(cut) = batch)
      /\ \A k \in 0..n : k = n \/ L(k) = batch => cut <= k
  <2> DEFINE C == {k \in 0..n : k = n \/ L(k) = batch}
  <2>1. n \in C /\ C \subseteq Nat
    BY <1>2
  <2>2. cut \in C /\ \A y \in C : cut <= y
    <3> HIDE DEF L
    <3>1. cut = Min(C)
      OBVIOUS
    <3> HIDE DEF C, cut
    <3> QED
      BY <2>1, <3>1, MinOfNats
  <2> HIDE DEF cut, L
  <2> QED
    BY <2>2
<1> HIDE DEF cut
<1>5. /\ \A i \in 1..L(cut) : spot(i) \in 1..cut /\ q[spot(i)] \in live /\ L(spot(i)) = i
      /\ \A k \in 1..cut : q[k] \in live => L(k) \in 1..L(cut) /\ spot(L(k)) = k
  BY <1>2, <1>4, LivePlaces
<1> HIDE DEF L, spot
<1>6. L(cut) <= batch
  <2> SUFFICES ASSUME batch < L(cut) PROVE FALSE
    BY <1>3, <1>4
  <2>1. batch \in 1..L(cut)
    BY <1>3, <1>4
  <2>2. spot(batch) \in 1..cut /\ L(spot(batch)) = batch
    BY <1>5, <2>1
  <2>3. spot(batch) \in 0..n /\ cut <= spot(batch)
    BY <1>4, <2>2
  <2> QED
    BY <1>3, <1>4, <2>2, <2>3
<1>7. front \in Seq(S) /\ Len(front) = cut /\ (\A i \in 1..cut : front[i] = q[i]) /\ rest \in Seq(S)
      /\ \A x : Occurrences(q, x) = Occurrences(front, x) + Occurrences(rest, x)
  BY <1>4, CountSplit DEF n
<1>8. out \in Seq(S \cap live) /\ Len(out) = L(cut)
  <2>1. L(cut) \in Nat
    BY <1>3, <1>4
  <2>2. \A i \in 1..L(cut) : q[spot(i)] \in S \cap live
    BY <1>2, <1>4, <1>5
  <2>3. out \in Seq(S \cap live)
    BY <2>1, <2>2, SeqDef
  <2>4. 1..Len(out) = 1..L(cut) /\ Len(out) \in Nat
    BY <2>3, LenProperties
  <2> HIDE DEF out
  <2>5. Len(out) = L(cut)
    BY <2>1, <2>4
  <2> QED
    BY <2>3, <2>5
<1>9. ASSUME NEW x \in live
      PROVE  Occurrences(out, x) = Occurrences(front, x)
  <2> DEFINE f == [i \in Spots(out, x) |-> spot(i)]
  <2>1. \A i : i \in Spots(out, x) <=> i \in 1..L(cut) /\ q[spot(i)] = x
    BY <1>8 DEF Spots
  <2>2. \A k : k \in Spots(front, x) <=> k \in 1..cut /\ q[k] = x
    BY <1>7 DEF Spots
  <2>3. \A i \in Spots(out, x) : f[i] = spot(i)
    OBVIOUS
  <2> HIDE DEF out, front
  <2>4. f \in [Spots(out, x) -> Spots(front, x)]
    BY <1>5, <2>1, <2>2
  <2> HIDE DEF f
  <2>5. \A i, j \in Spots(out, x) : f[i] = f[j] => i = j
    <3>1. \A i \in Spots(out, x) : L(f[i]) = i
      BY <1>5, <2>1, <2>3
    <3> QED
      BY <3>1
  <2>6. \A z \in Spots(front, x) : L(z) \in Spots(out, x) /\ f[L(z)] = z
    BY <1>5, <2>1, <2>2, <2>3
  <2>7. IsFiniteSet(Spots(out, x)) /\ Occurrences(out, x) = Cardinality(Spots(out, x))
    BY <1>8, SpotsCount
  <2>8. Cardinality(Spots(front, x)) = Cardinality(Spots(out, x))
    BY <2>4, <2>5, <2>6, <2>7, SameSize
  <2> QED
    BY <1>7, <2>7, <2>8, SpotsCount
<1> HIDE DEF out, rest, front
<1>10. \A x : Occurrences(rest, x) <= Occurrences(q, x)
  <2> SUFFICES ASSUME NEW x PROVE Occurrences(rest, x) <= Occurrences(q, x)
    OBVIOUS
  <2>1. Occurrences(front, x) \in Nat /\ Occurrences(rest, x) \in Nat
    BY <1>7, SpotsCount
  <2> QED
    BY <1>7, <2>1
<1>11. \A x \in live : Shared(q, out, rest, x)
  BY <1>7, <1>9 DEF Shared
<1> QED
  BY <1>1, <1>6, <1>7, <1>8, <1>10, <1>11

----------------------------------------------------------------------------
(* The Engine in this module and in its own are the same.                  *)

EP == INSTANCE EngineProofs WITH NoCount <- CHOOSE c : c \notin E!Counts, shed <- <<>>

\* The assumptions of the Engine's theorems hold.
LEMMA EngineAssumptions == EP!EngineAssumption /\ EP!MeterAssumption
<1>1. EP!EngineAssumption
  BY EngineInstance
  DEF EP!EngineAssumption, E!EngineAssumption, E!IsFiniteSet, EP!IsFiniteSet
<1>2. (CHOOSE c : c \notin E!Counts) \notin E!Counts
  <2> DEFINE R == {x \in E!Counts : x \notin x}
  <2>1. R \notin E!Counts
    OBVIOUS
  <2> QED
    BY <2>1
<1>3. EP!Counts = E!Counts
  BY DEF E!Counts, EP!Counts, E!Bytes, EP!Bytes
<1> QED
  BY <1>1, <1>2, <1>3 DEF EP!MeterAssumption

\* Its types are.
LEMMA SameTypes == (E!TypeOK <=> EP!TypeOK) /\ (E!TypeOK' <=> EP!TypeOK')
<1>1. E!Counts = EP!Counts
  BY DEF E!Counts, EP!Counts, E!Bytes, EP!Bytes
<1>2. E!Flow = EP!Flow
  BY <1>1 DEF E!Flow, EP!Flow
<1>3. E!Row = EP!Row
  BY <1>1 DEF E!Row, EP!Row
<1>4. E!TypeOK <=> EP!TypeOK
  BY <1>1, <1>2, <1>3 DEF E!TypeOK, EP!TypeOK
<1>5. E!TypeOK' <=> EP!TypeOK'
  BY <1>1, <1>2, <1>3 DEF E!TypeOK, EP!TypeOK
<1> QED
  BY <1>4, <1>5

\* Its tick is.
LEMMA SameTick == \A dt : E!Tick(dt) <=> EP!Tick(dt)
<1>1. E!Zero = EP!Zero /\ E!Bytes = EP!Bytes
  BY DEF E!Zero, EP!Zero, E!Bytes, EP!Bytes
<1>2. /\ \A n : E!Sat(n) = EP!Sat(n)
      /\ \A a, b : E!Monus(a, b) = EP!Monus(a, b)
  BY <1>1 DEF E!Sat, EP!Sat, E!Monus, EP!Monus
<1>3. \A a, b : E!SatAdd(a, b) = EP!SatAdd(a, b)
  BY <1>2 DEF E!SatAdd, EP!SatAdd
<1>4. \A f, dt : E!Sampled(f, dt) = EP!Sampled(f, dt)
  BY <1>1, <1>2 DEF E!Sampled, EP!Sampled
<1>5. \A fl : /\ E!Owners(fl) = EP!Owners(fl)
              /\ \A p : E!FlowsOf(fl, p) = EP!FlowsOf(fl, p)
  BY DEF E!Owners, EP!Owners, E!Owned, EP!Owned, E!FlowsOf, EP!FlowsOf
<1>6. \A g, s : E!SumFunctionOnSet(g, s) = EP!SumFunctionOnSet(g, s)
  BY DEF E!SumFunctionOnSet, EP!SumFunctionOnSet, E!FoldFunctionOnSet, EP!FoldFunctionOnSet,
         E!MapThenFoldSet, EP!MapThenFoldSet
<1>7. \A fl, p : /\ E!SumRates(fl, p) = EP!SumRates(fl, p)
                 /\ E!SumBytes(fl, p) = EP!SumBytes(fl, p)
  BY <1>2, <1>5, <1>6 DEF E!SumRates, EP!SumRates, E!SumBytes, EP!SumBytes
<1>8. \A p : E!Carry(p) = EP!Carry(p)
  BY <1>1 DEF E!Carry, EP!Carry
<1>9. \A s : E!Cardinality(s) = EP!Cardinality(s)
  BY DEF E!Cardinality, EP!Cardinality
<1>10. \A fl, p : E!RowOf(fl, p) = EP!RowOf(fl, p)
  BY <1>3, <1>5, <1>7, <1>8, <1>9 DEF E!RowOf, EP!RowOf
<1>11. \A f, s : E!Restrict(f, s) = EP!Restrict(f, s)
  BY DEF E!Restrict, EP!Restrict
<1>12. \A fl : E!CarryAfter(fl) = EP!CarryAfter(fl)
  BY <1>5, <1>11 DEF E!CarryAfter, EP!CarryAfter
<1>13. /\ \A h, x : E!Push(h, x) = EP!Push(h, x)
       /\ \A r, dt : E!PerSecond(r, dt) = EP!PerSecond(r, dt)
  BY DEF E!Push, EP!Push, E!PerSecond, EP!PerSecond
<1>14. \A fl, dt : E!HistAfter(fl, dt) = EP!HistAfter(fl, dt)
  BY <1>5, <1>7, <1>13 DEF E!HistAfter, EP!HistAfter
<1> QED
  BY <1>4, <1>5, <1>10, <1>12, <1>14 DEF E!Tick, EP!Tick

\* So are its operations, and what they keep it keeps here.
LEMMA EngineSteps ==
  ASSUME \/ \E s \in SrcRefs : E!OnAdded(s) \/ E!OnRemoved(s)
         \/ \E s \in SrcRefs, p \in Pids : E!OnDesc(s, p)
         \/ \E s \in SrcRefs, c \in E!Counts : E!OnCounts(s, c)
         \/ \E s \in SrcRefs, c \in E!Counts, p \in Pids \cup {E!NoDesc} : E!OnUpdate(s, c, p)
         \/ \E dt \in Spans : E!Tick(dt)
         \/ E!Reprime
         \/ UNCHANGED engineVars
  PROVE  [EP!Next]_(EP!vars) /\ (E!TypeOK => E!TypeOK')
<1>1. \A fl, s, f : E!Put(fl, s, f) = EP!Put(fl, s, f)
  BY DEF E!Put, EP!Put
<1>2. E!Zero = EP!Zero /\ E!NewFlow = EP!NewFlow /\ E!NoDesc = EP!NoDesc /\ E!Counts = EP!Counts
  BY DEF E!Zero, EP!Zero, E!NewFlow, EP!NewFlow, E!NoDesc, EP!NoDesc, E!Counts, EP!Counts,
         E!Bytes, EP!Bytes
<1>3. \A fl, s : E!FlowAt(fl, s) = EP!FlowAt(fl, s)
  BY <1>2 DEF E!FlowAt, EP!FlowAt
<1>4. \A fl, s, p : E!WithDesc(fl, s, p) = EP!WithDesc(fl, s, p)
  BY <1>1, <1>3 DEF E!WithDesc, EP!WithDesc
<1>5. \A fl, s, c : E!WithCounts(fl, s, c) = EP!WithCounts(fl, s, c)
  BY <1>1 DEF E!WithCounts, EP!WithCounts
<1>6. \A s : E!OnAdded(s) => EP!OnAdded(s)
  BY <1>1, <1>3 DEF E!OnAdded, EP!OnAdded
<1>7. \A s : E!OnRemoved(s) => EP!OnRemoved(s)
  BY DEF E!OnRemoved, EP!OnRemoved, E!Restrict, EP!Restrict, E!Owned, EP!Owned, E!Retire, EP!Retire,
         E!SatAdd, EP!SatAdd, E!Sat, EP!Sat, E!Bytes, EP!Bytes, E!Carry, EP!Carry, E!Zero, EP!Zero
<1>8. \A s, p : E!OnDesc(s, p) => EP!OnDesc(s, p)
  BY <1>4 DEF E!OnDesc, EP!OnDesc
<1>9. \A s, c : E!OnCounts(s, c) => EP!OnCounts(s, c)
  BY <1>5 DEF E!OnCounts, EP!OnCounts
<1>10. \A s, c, p : E!OnUpdate(s, c, p) => EP!OnUpdate(s, c, p)
  BY <1>2, <1>4, <1>5 DEF E!OnUpdate, EP!OnUpdate
<1>11. E!Reprime => EP!Reprime
  BY DEF E!Reprime, EP!Reprime
<1>12. UNCHANGED engineVars => UNCHANGED EP!vars
  BY DEF engineVars, EP!vars
<1>13. [EP!Next]_(EP!vars)
  BY <1>2, <1>6, <1>7, <1>8, <1>9, <1>10, <1>11, <1>12, SameTick DEF EP!Next
<1>14. E!TypeOK => E!TypeOK'
  BY <1>13, EngineAssumptions, SameTypes, EP!TypeStep
<1> QED
  BY <1>13, <1>14

----------------------------------------------------------------------------
(* What a message does to the flow table.                                  *)

\* A message brings counts of s.
Reports(m, s) == m.type \in {"counts", "update"} /\ m.src = s

\* A described flow belongs to the owner of its source.
OwnerInv == \A s \in DOMAIN flows : flows[s].described => flows[s].pid = OwnerOf[s]

\* A value of the flow table.
Table(fl) == fl \in [DOMAIN fl -> E!Flow]

\* A fresh flow is a flow.
LEMMA FreshFlow ==
  ASSUME NEW fl, Table(fl), NEW s
  PROVE  E!FlowAt(fl, s) \in E!Flow
<1>1. E!NewFlow \in E!Flow
  BY EngineInstance DEF E!NewFlow, E!Flow, E!Counts, E!Bytes, E!Zero, E!EngineAssumption
<1> QED
  BY <1>1 DEF E!FlowAt, Table

\* A description leaves a table of flows.
LEMMA DescTable ==
  ASSUME NEW fl, Table(fl), NEW s, NEW p \in Pids
  PROVE  Table(E!WithDesc(fl, s, p))
<1>1. [E!FlowAt(fl, s) EXCEPT !.pid = p, !.described = TRUE] \in E!Flow
  BY FreshFlow DEF E!Flow
<1> QED
  BY <1>1 DEF E!WithDesc, E!Put, Table

\* It may be a new one in the table.
LEMMA DescDomain ==
  ASSUME NEW fl, NEW s, NEW p
  PROVE  DOMAIN E!WithDesc(fl, s, p) = DOMAIN fl \cup {s}
  BY DEF E!WithDesc, E!Put

\* It names the flow (on_desc) ...
LEMMA DescNames ==
  ASSUME NEW fl, Table(fl), NEW s, NEW p \in Pids
  PROVE  E!WithDesc(fl, s, p)[s].described /\ E!WithDesc(fl, s, p)[s].pid = p
<1>1. E!FlowAt(fl, s) \in E!Flow
  BY FreshFlow
<1> QED
  BY <1>1 DEF E!WithDesc, E!Put, E!Flow

\* ... and changes no counter and no other flow.
LEMMA DescLeaves ==
  ASSUME NEW fl, Table(fl), NEW s, NEW p \in Pids
  PROVE  /\ \A r \in DOMAIN fl \ {s} : E!WithDesc(fl, s, p)[r] = fl[r]
         /\ \A r \in DOMAIN fl \cup {s} : E!WithDesc(fl, s, p)[r].bytes = E!FlowAt(fl, r).bytes
<1>1. E!FlowAt(fl, s) \in E!Flow
  BY FreshFlow
<1> QED
  BY <1>1 DEF E!WithDesc, E!Put, E!Flow, E!FlowAt

\* Counts change the counter of a flow that is there, and nothing else
\* (on_counts).
LEMMA CountsOf ==
  ASSUME NEW fl, Table(fl), NEW s, NEW c \in E!Counts
  PROVE  /\ Table(E!WithCounts(fl, s, c)) /\ DOMAIN E!WithCounts(fl, s, c) = DOMAIN fl
         /\ \A r \in DOMAIN fl :
              /\ E!WithCounts(fl, s, c)[r].bytes = IF r = s THEN c ELSE fl[r].bytes
              /\ E!WithCounts(fl, s, c)[r].described = fl[r].described
              /\ E!WithCounts(fl, s, c)[r].pid = fl[r].pid
<1> DEFINE t == E!WithCounts(fl, s, c)
<1>1. CASE s \in DOMAIN fl
  <2> DEFINE f == [fl[s] EXCEPT !.bytes = c, !.counted = TRUE]
  <2>1. f \in E!Flow /\ f.bytes = c /\ f.described = fl[s].described /\ f.pid = fl[s].pid
    BY <1>1 DEF E!Flow, Table
  <2>2. t = [r \in DOMAIN fl |-> IF r = s THEN f ELSE fl[r]]
    <3>1. DOMAIN fl \cup {s} = DOMAIN fl
      BY <1>1
    <3> QED
      BY <1>1, <3>1 DEF E!WithCounts, E!Put
  <2> HIDE DEF f, t
  <2> QED
    BY <2>1, <2>2 DEF Table, t
<1>2. CASE s \notin DOMAIN fl
  BY <1>2 DEF E!WithCounts
<1> QED
  BY <1>1, <1>2

\* Each message is taken by a step of the Engine, which keeps the owners, sets the
\* counters it reports and no other, and takes no description away
\* (Monitor::apply).
LEMMA ApplyTable ==
  ASSUME E!TypeOK, OwnerInv, NEW m \in Message, Apply(m)
  PROVE  /\ [EP!Next]_(EP!vars) /\ E!TypeOK' /\ OwnerInv'
         /\ \A s \in DOMAIN flows' :
              flows'[s].bytes = IF Reports(m, s) THEN m.counts ELSE E!FlowAt(flows, s).bytes
         /\ \A s \in DOMAIN flows \cap DOMAIN flows' : flows[s].described => flows'[s].described
         /\ \A s : m = Desc(s) => s \in DOMAIN flows' /\ flows'[s].described
<1>1. Table(flows)
  BY DEF E!TypeOK, Table
<1>2. /\ m.type \in {"added", "removed", "desc", "counts", "update"} => m.src \in SrcRefs
      /\ m.type = "desc" => m.pid = OwnerOf[m.src]
      /\ m.type \in {"counts", "update"} => m.counts \in E!Counts
      /\ m.type = "update" => m.pid \in {E!NoDesc, OwnerOf[m.src]}
  BY DEF Message, Desc
<1>3. \A s \in SrcRefs : OwnerOf[s] \in Pids
  BY MonitorAssumption
<1>4. \A s : Desc(s).type = "desc" /\ Desc(s).src = s
  BY DEF Desc
<1>5. \A s \in DOMAIN flows : E!FlowAt(flows, s) = flows[s]
  BY DEF E!FlowAt
<1>6. CASE ApplyAdded(m)
  <2>1. m.src \in SrcRefs /\ E!OnAdded(m.src) /\ m.type = "added"
    BY <1>2, <1>6 DEF ApplyAdded
  <2>2. flows' = [s \in DOMAIN flows \cup {m.src} |-> E!FlowAt(flows, s)]
    BY <1>5, <2>1 DEF E!OnAdded, E!Put
  <2>3. ~E!NewFlow.described
    BY DEF E!NewFlow
  <2>4. OwnerInv'
    BY <1>5, <2>2, <2>3 DEF OwnerInv, E!FlowAt
  <2>5. [EP!Next]_(EP!vars) /\ E!TypeOK'
    BY <2>1, EngineSteps
  <2> QED
    BY <1>4, <1>5, <2>1, <2>2, <2>4, <2>5 DEF Reports
<1>7. CASE ApplyDesc(m)
  <2>1. m.src \in SrcRefs /\ E!OnDesc(m.src, m.pid) /\ m.type = "desc" /\ m.pid = OwnerOf[m.src] /\ m.pid \in Pids
    BY <1>2, <1>3, <1>7 DEF ApplyDesc
  <2>2. /\ DOMAIN flows' = DOMAIN flows \cup {m.src}
        /\ flows'[m.src].described /\ flows'[m.src].pid = OwnerOf[m.src]
        /\ \A r \in DOMAIN flows \ {m.src} : flows'[r] = flows[r]
        /\ \A r \in DOMAIN flows \cup {m.src} : flows'[r].bytes = E!FlowAt(flows, r).bytes
    <3>1. flows' = E!WithDesc(flows, m.src, m.pid) /\ m.pid \in Pids
      BY <2>1 DEF E!OnDesc
    <3>2. flows'[m.src].described /\ flows'[m.src].pid = m.pid
      BY <1>1, <3>1, DescNames
    <3>3. /\ \A r \in DOMAIN flows \ {m.src} : flows'[r] = flows[r]
          /\ \A r \in DOMAIN flows \cup {m.src} : flows'[r].bytes = E!FlowAt(flows, r).bytes
      BY <1>1, <3>1, DescLeaves
    <3>4. DOMAIN flows' = DOMAIN flows \cup {m.src}
      BY <3>1, DescDomain
    <3> QED
      BY <2>1, <3>2, <3>3, <3>4
  <2>3. OwnerInv'
    BY <2>2 DEF OwnerInv
  <2>4. [EP!Next]_(EP!vars) /\ E!TypeOK'
    BY <2>1, EngineSteps
  <2> QED
    BY <1>4, <2>1, <2>2, <2>3, <2>4 DEF Reports
<1>8. CASE ApplyCounts(m)
  <2>1. m.src \in SrcRefs /\ E!OnCounts(m.src, m.counts) /\ m.type = "counts" /\ m.counts \in E!Counts
    BY <1>2, <1>8 DEF ApplyCounts
  <2>2. /\ DOMAIN flows' = DOMAIN flows
        /\ \A r \in DOMAIN flows : /\ flows'[r].bytes = IF r = m.src THEN m.counts ELSE flows[r].bytes
                                   /\ flows'[r].described = flows[r].described
                                   /\ flows'[r].pid = flows[r].pid
    BY <1>1, <2>1, CountsOf DEF E!OnCounts
  <2>3. OwnerInv'
    BY <2>2 DEF OwnerInv
  <2>4. [EP!Next]_(EP!vars) /\ E!TypeOK'
    BY <2>1, EngineSteps
  <2> QED
    BY <1>4, <1>5, <2>1, <2>2, <2>3, <2>4 DEF Reports
<1>9. CASE ApplyUpdate(m)
  <2>1. /\ m.src \in SrcRefs /\ E!OnUpdate(m.src, m.counts, m.pid) /\ m.type = "update"
        /\ m.counts \in E!Counts /\ m.pid \in {E!NoDesc, OwnerOf[m.src]} /\ OwnerOf[m.src] \in Pids
    BY <1>2, <1>3, <1>9 DEF ApplyUpdate
  <2> DEFINE fl == IF m.pid = E!NoDesc THEN flows ELSE E!WithDesc(flows, m.src, m.pid)
  <2>2. /\ Table(fl) /\ DOMAIN flows \subseteq DOMAIN fl
        /\ \A r \in DOMAIN fl : fl[r].bytes = E!FlowAt(flows, r).bytes
        /\ \A r \in DOMAIN flows : flows[r].described => fl[r].described
        /\ \A r \in DOMAIN fl : fl[r].described => fl[r].pid = OwnerOf[r]
    <3>1. CASE m.pid = E!NoDesc
      BY <1>1, <1>5, <3>1 DEF OwnerInv
    <3>2. CASE m.pid # E!NoDesc
      <4>1. /\ m.pid = OwnerOf[m.src] /\ m.pid \in Pids /\ fl = E!WithDesc(flows, m.src, m.pid)
        BY <2>1, <3>2
      <4> HIDE DEF fl
      <4>2. /\ Table(fl) /\ DOMAIN fl = DOMAIN flows \cup {m.src}
            /\ fl[m.src].described /\ fl[m.src].pid = OwnerOf[m.src]
            /\ \A r \in DOMAIN flows \ {m.src} : fl[r] = flows[r]
            /\ \A r \in DOMAIN flows \cup {m.src} : fl[r].bytes = E!FlowAt(flows, r).bytes
        <5>1. Table(fl)
          BY <1>1, <4>1, DescTable
        <5>2. fl[m.src].described /\ fl[m.src].pid = m.pid
          BY <1>1, <4>1, DescNames
        <5>3. /\ \A r \in DOMAIN flows \ {m.src} : fl[r] = flows[r]
              /\ \A r \in DOMAIN flows \cup {m.src} : fl[r].bytes = E!FlowAt(flows, r).bytes
          BY <1>1, <4>1, DescLeaves
        <5>4. DOMAIN fl = DOMAIN flows \cup {m.src}
          BY <4>1, DescDomain
        <5> QED
          BY <4>1, <5>1, <5>2, <5>3, <5>4
      <4> QED
        BY <4>2 DEF OwnerInv
    <3> QED
      BY <3>1, <3>2
  <2>3. flows' = E!WithCounts(fl, m.src, m.counts)
    BY <2>1 DEF E!OnUpdate
  <2> HIDE DEF fl
  <2>4. /\ DOMAIN flows' = DOMAIN fl
        /\ \A r \in DOMAIN fl : /\ flows'[r].bytes = IF r = m.src THEN m.counts ELSE fl[r].bytes
                                /\ flows'[r].described = fl[r].described
                                /\ flows'[r].pid = fl[r].pid
    BY <2>1, <2>2, <2>3, CountsOf
  <2>5. OwnerInv'
    BY <2>2, <2>4 DEF OwnerInv
  <2>6. [EP!Next]_(EP!vars) /\ E!TypeOK'
    BY <2>1, EngineSteps
  <2> QED
    BY <1>4, <2>1, <2>2, <2>4, <2>5, <2>6 DEF Reports
<1>10. CASE ApplyRemoved(m)
  <2>1. m.src \in SrcRefs /\ E!OnRemoved(m.src) /\ m.type = "removed"
    BY <1>2, <1>10 DEF ApplyRemoved
  <2>2. DOMAIN flows' = DOMAIN flows \ {m.src} /\ \A r \in DOMAIN flows' : flows'[r] = flows[r]
    BY <2>1 DEF E!OnRemoved, E!Restrict
  <2>3. OwnerInv'
    BY <2>2 DEF OwnerInv
  <2>4. [EP!Next]_(EP!vars) /\ E!TypeOK'
    BY <2>1, EngineSteps
  <2> QED
    BY <1>4, <1>5, <2>1, <2>2, <2>3, <2>4 DEF Reports
<1>11. CASE ApplyError(m)
  <2>1. UNCHANGED engineVars /\ m.type = "error"
    BY <1>11 DEF ApplyError
  <2>2. [EP!Next]_(EP!vars) /\ E!TypeOK' /\ flows' = flows
    BY <2>1, EngineSteps DEF engineVars
  <2> QED
    BY <1>4, <1>5, <2>1, <2>2 DEF Reports, OwnerInv
<1> QED
  BY <1>6, <1>7, <1>8, <1>9, <1>10, <1>11 DEF Apply

\* A tick and a re-prime touch neither counters nor descriptions (tick, reprime).
LEMMA SampleTable ==
  ASSUME E!TypeOK, OwnerInv, (\E dt \in Spans : E!Tick(dt)) \/ E!Reprime
  PROVE  /\ [EP!Next]_(EP!vars) /\ E!TypeOK' /\ OwnerInv'
         /\ DOMAIN flows' = DOMAIN flows
         /\ \A s \in DOMAIN flows : /\ flows'[s].bytes = flows[s].bytes
                                    /\ flows'[s].described = flows[s].described
                                    /\ flows'[s].pid = flows[s].pid
<1>1. flows \in [DOMAIN flows -> E!Flow]
  BY DEF E!TypeOK
<1>2. \A dt : \A f \in E!Flow :
        /\ E!Sampled(f, dt).bytes = f.bytes
        /\ E!Sampled(f, dt).described = f.described
        /\ E!Sampled(f, dt).pid = f.pid
  BY DEF E!Sampled, E!Flow
<1>3. /\ DOMAIN flows' = DOMAIN flows
      /\ \A s \in DOMAIN flows : /\ flows'[s].bytes = flows[s].bytes
                                 /\ flows'[s].described = flows[s].described
                                 /\ flows'[s].pid = flows[s].pid
  <2>1. ASSUME NEW dt \in Spans, E!Tick(dt)
        PROVE  flows' = [s \in DOMAIN flows |-> E!Sampled(flows[s], dt)]
    BY <2>1 DEF E!Tick
  <2>2. CASE \E dt \in Spans : E!Tick(dt)
    BY <1>1, <1>2, <2>1, <2>2
  <2>3. CASE E!Reprime
    BY <1>1, <2>3 DEF E!Reprime, E!Flow
  <2> QED
    BY <2>2, <2>3
<1>4. OwnerInv'
  BY <1>3 DEF OwnerInv
<1>5. [EP!Next]_(EP!vars) /\ E!TypeOK'
  BY EngineSteps
<1> QED
  BY <1>3, <1>4, <1>5

----------------------------------------------------------------------------
(* Types.                                                                  *)

\* What the client knows of flows and requests, beside the order of the stream.
TableInv == FlowInv /\ TypeOK /\ OwnerInv /\ query \subseteq SrcRefs

\* Nothing is tracked, requested or asked at first.
LEMMA InitTable == Init => TableInv
<1> SUFFICES ASSUME Init
             PROVE  TableInv
  OBVIOUS
<1>1. FlowInv
  BY InitFlow
<1>2. <<>> \in Seq(SrcRefs)
  BY EmptySeq
<1>3. E!TypeOK /\ OwnerInv
  BY DEF Init, E!Init, E!TypeOK, OwnerInv
<1> QED
  BY <1>1, <1>2, <1>3 DEF Init, TableInv, TypeOK, NoError

\* No step takes tables and queues out of their types, or a flow to another owner.
LEMMA StepTable == TableInv /\ [Next]_vars => TableInv'
<1> SUFFICES ASSUME TableInv, [Next]_vars
             PROVE  TableInv'
  OBVIOUS
<1> USE DEF engineVars, clientVars, kernelVars
<1>1. FlowInv /\ E!TypeOK /\ OwnerInv /\ StreamType
  BY DEF TableInv, TypeOK, FlowInv
<1>2. FlowInv'
  BY <1>1, StepFlow
<1> DEFINE Queues == /\ requested \subseteq SrcRefs /\ pending \in Seq(SrcRefs) /\ asked \in Seq(SrcRefs)
                     /\ lastError \in {NoError, ENOENT} /\ pc \in {"ready", "draining", "pumping"}
                     /\ query \subseteq SrcRefs
<1>3. Queues
  BY DEF TableInv, TypeOK
<1>4. Queues' /\ E!TypeOK' /\ OwnerInv' => TableInv'
  BY <1>2 DEF TableInv, TypeOK
<1>5. ASSUME UNCHANGED <<flows, retired, hist, rows>>
      PROVE  E!TypeOK' /\ OwnerInv'
  BY <1>1, <1>5 DEF E!TypeOK, OwnerInv
<1>6. CASE Kernel
  <2>1. UNCHANGED <<flows, retired, hist, rows, requested, pending, lastError, pc>>
    BY <1>6 DEF Kernel, KernelOpen, KernelClose, KernelTraffic, KernelDescribe, KernelDropsDesc,
                KernelReport, KernelDropsCounts, KernelUpdate
  <2>2. asked' = asked \/ (asked # <<>> /\ asked' = Tail(asked))
    BY <1>6 DEF Kernel, KernelOpen, KernelClose, KernelTraffic, KernelDescribe, KernelDropsDesc,
                KernelReport, KernelDropsCounts, KernelUpdate
  <2>3. query' \subseteq query
    BY <1>6 DEF Kernel, KernelOpen, KernelClose, KernelTraffic, KernelDescribe, KernelDropsDesc,
                KernelReport, KernelDropsCounts, KernelUpdate
  <2>4. asked' \in Seq(SrcRefs)
    BY <1>3, <2>2, HeadTailProperties
  <2> QED
    BY <1>3, <1>4, <1>5, <2>1, <2>3, <2>4
<1>7. CASE Receive
  <2> DEFINE m == Head(stream)
  <2>1. m \in Message /\ Apply(m) /\ UNCHANGED <<pc, asked, query>>
    BY <1>1, <1>7, HeadTailProperties DEF Receive, StreamType
  <2> HIDE DEF m
  <2>2. E!TypeOK' /\ OwnerInv'
    BY <1>1, <2>1, ApplyTable
  <2>3. /\ m.type \in {"added", "removed"} => m.src \in SrcRefs
        /\ m.type = "error" => m.code \in {ENOBUFS, ENOENT}
    BY <2>1 DEF Message, Desc
  <2>4. requested' \subseteq SrcRefs /\ pending' \in Seq(SrcRefs) /\ lastError' \in {NoError, ENOENT}
    <3>1. m.type = "added" => Append(pending, m.src) \in Seq(SrcRefs)
      BY <1>3, <2>3, AppendProperties
    <3> QED
      BY <1>3, <2>1, <2>3, <3>1
      DEF Apply, ApplyAdded, ApplyDesc, ApplyCounts, ApplyUpdate, ApplyRemoved, ApplyError
  <2> QED
    BY <1>3, <1>4, <2>1, <2>2, <2>4
<1>8. CASE StartDrain \/ WouldBlock
  BY <1>3, <1>4, <1>5, <1>8 DEF StartDrain, WouldBlock
<1>9. CASE Pump
  <2> DEFINE taken == TakeDescBatch(pending, requested, Batch)
  <2>1. taken.out \in Seq(SrcRefs) /\ taken.rest \in Seq(SrcRefs)
    <3>1. taken.out \in Seq(SrcRefs \cap requested) /\ taken.rest \in Seq(SrcRefs)
      BY <1>3, MonitorAssumption, BatchFacts
    <3>2. \A q : q \in Seq(SrcRefs \cap requested) => q \in Seq(SrcRefs)
      BY SeqDef
    <3> QED
      BY <3>1, <3>2
  <2>2. /\ pending' = taken.rest /\ asked' = asked \o taken.out /\ pc' = "ready"
        /\ UNCHANGED <<flows, retired, hist, rows, requested, lastError, query>>
    BY <1>9 DEF Pump
  <2> HIDE DEF taken
  <2>3. asked' \in Seq(SrcRefs)
    BY <1>3, <2>1, <2>2, ConcatProperties
  <2> QED
    BY <1>3, <1>4, <1>5, <2>1, <2>2, <2>3
<1>10. CASE PollCounts
  BY <1>3, <1>4, <1>5, <1>10 DEF PollCounts, Live
<1>11. CASE (\E dt \in Spans : Tick(dt)) \/ Reprime
  <2>1. (\E dt \in Spans : E!Tick(dt)) \/ E!Reprime
    BY <1>11 DEF Tick, Reprime
  <2>2. UNCHANGED <<requested, pending, lastError, pc, asked, query>>
    BY <1>11 DEF Tick, Reprime
  <2>3. E!TypeOK' /\ OwnerInv'
    BY <1>1, <2>1, SampleTable
  <2> QED
    BY <1>3, <1>4, <2>2, <2>3
<1>12. CASE UNCHANGED vars
  BY <1>3, <1>4, <1>5, <1>12 DEF vars
<1> QED
  BY <1>6, <1>7, <1>8, <1>9, <1>10, <1>11, <1>12 DEF Next, Client

\* The invariant always holds.
LEMMA TableAlways == Spec => []TableInv
  BY InitTable, StepTable, PTL DEF Spec

\* Whatever the kernel says, late, twice or never, the client's tables and queues
\* keep their types, and only ENOENT is kept as an error (Monitor).
THEOREM MonitorTypeCorrect == Spec => []TypeOK
<1>1. TableInv => TypeOK
  BY DEF TableInv
<1> QED
  BY <1>1, TableAlways, PTL

----------------------------------------------------------------------------
(* Requests.                                                               *)

\* A source the client holds for announced is live, unless its removal waits.
LEMMA RequestedIsLive ==
  ASSUME FlowInv, NEW s \in SrcRefs, s \in requested, ~Waiting(Removed(s))
  PROVE  s \in Live
<1>1. StreamType /\ Alternates
  BY DEF FlowInv
<1>2. PICK n \in Nat : n = Len(stream)
  BY <1>1, LenProperties DEF StreamType
<1>3. \A j \in 1..n : stream[j] # Removed(s)
  BY <1>2 DEF Waiting, Contains
<1>4. Told(s, n) /\ n \in 0..n /\ ~(n + 1 <= n)
  BY <1>3 DEF Told
<1> QED
  BY <1>1, <1>2, <1>4 DEF Alternates

\* At any pace, and for any number of sources, a pump sends no more than a batch,
\* and nothing for a source whose removal could have been read
\* (pump_desc_requests, take_desc_batch).
THEOREM AlwaysPacedAndFresh == Spec => PacedAndFresh
<1> DEFINE Fine == asked' # asked /\ pc = "pumping" =>
                     /\ Len(asked') <= Len(asked) + Batch
                     /\ \A k \in (Len(asked) + 1)..Len(asked') :
                          status[asked'[k]] = "live" \/ Waiting(Removed(asked'[k]))
<1>1. ASSUME TableInv, [Next]_vars
      PROVE  Fine
  <2> SUFFICES ASSUME asked' # asked, pc = "pumping"
               PROVE  /\ Len(asked') <= Len(asked) + Batch
                      /\ \A k \in (Len(asked) + 1)..Len(asked') :
                           status[asked'[k]] = "live" \/ Waiting(Removed(asked'[k]))
    OBVIOUS
  <2>1. FlowInv /\ pending \in Seq(SrcRefs) /\ asked \in Seq(SrcRefs) /\ Batch \in Nat \ {0}
    BY <1>1, MonitorAssumption DEF TableInv, TypeOK
  <2>2. Len(asked) \in Nat
    BY <2>1, LenProperties
  <2>3. Pump \/ (asked # <<>> /\ asked' = Tail(asked))
    BY <1>1 DEF Next, Kernel, KernelOpen, KernelClose, KernelTraffic, KernelDescribe, KernelDropsDesc,
                KernelReport, KernelDropsCounts, KernelUpdate, Client, StartDrain, Receive, WouldBlock,
                PollCounts, Tick, Reprime, kernelVars, vars
  <2>4. CASE asked # <<>> /\ asked' = Tail(asked)
    <3>1. Len(asked') = Len(asked) - 1
      BY <2>1, <2>4, HeadTailProperties
    <3> QED
      BY <2>1, <2>2, <3>1
  <2>5. CASE Pump
    <3> DEFINE out == TakeDescBatch(pending, requested, Batch).out
    <3>1. out \in Seq(SrcRefs \cap requested) /\ Len(out) <= Batch
      BY <2>1, BatchFacts
    <3>2. asked' = asked \o out
      BY <2>5 DEF Pump
    <3> HIDE DEF out
    <3>3. out \in Seq(SrcRefs) /\ Len(out) \in Nat /\ \A i \in 1..Len(out) : out[i] \in SrcRefs \cap requested
      BY <3>1, SeqDef, LenProperties, ElementOfSeq
    <3>4. /\ Len(asked') = Len(asked) + Len(out)
          /\ \A i \in 1..Len(out) : asked'[i + Len(asked)] = out[i]
      BY <2>1, <3>2, <3>3, ConcatProperties
    <3>5. ASSUME NEW k \in (Len(asked) + 1)..Len(asked')
          PROVE  status[asked'[k]] = "live" \/ Waiting(Removed(asked'[k]))
      <4> DEFINE i == k - Len(asked)
      <4>1. i \in 1..Len(out) /\ i + Len(asked) = k
        BY <2>2, <3>3, <3>4
      <4>2. asked'[k] = out[i] /\ out[i] \in SrcRefs /\ out[i] \in requested
        BY <3>3, <3>4, <4>1
      <4> HIDE DEF i
      <4>3. out[i] \in Live \/ Waiting(Removed(out[i]))
        BY <2>1, <4>2, RequestedIsLive
      <4> QED
        BY <4>2, <4>3 DEF Live
    <3> QED
      BY <2>1, <2>2, <3>1, <3>3, <3>4, <3>5
  <2> QED
    BY <2>3, <2>4, <2>5
<1>2. TableInv /\ [Next]_vars => [Fine]_vars
  BY <1>1
<1>3. Spec => [][Fine]_vars
  BY <1>2, TableAlways, PTL DEF Spec
<1> QED
  BY <1>3 DEF PacedAndFresh

\* The places the request of s may be in: the paced queue, the kernel and,
\* answered, the socket.
Places(s) == Occurrences(pending, s) + Occurrences(asked, s) + Occurrences(stream, Desc(s))

\* No description is dropped by a kernel that drops nothing.
NoDrops == ~Lossy => dropped = {}

\* An announced source whose description was not dropped is described, or its
\* request is somewhere.
AskedFor(s) ==
  s \in requested /\ Occurrences(stream, Removed(s)) = 0 /\ s \notin dropped =>
    Described(s) \/ Places(s) # 0

\* The client has not heard of s yet.
Unheard(s) == status[s] = "new" \/ Occurrences(stream, Added(s)) # 0

\* A srcref that never comes back is announced once and requested once.
AskedOnce(s) ==
  /\ Occurrences(stream, Added(s)) <= 1
  /\ status[s] = "new" => Occurrences(stream, Added(s)) = 0
  /\ Unheard(s) => s \notin requested /\ Places(s) = 0
  /\ Places(s) <= 1

RequestInv ==
  /\ TableInv /\ NoDrops
  /\ \A s \in SrcRefs : AskedFor(s)
  /\ ~Reuse => \A s \in SrcRefs : AskedOnce(s)

\* A message waits if it occurs.
LEMMA Waits ==
  ASSUME StreamType, NEW x
  PROVE  Occurrences(stream, x) \in Nat /\ (Waiting(x) <=> Occurrences(stream, x) # 0)
  BY SpotsCount DEF StreamType, Waiting, Contains

\* The three counts are numbers.
LEMMA PlacesType ==
  ASSUME TableInv, NEW s
  PROVE  /\ Occurrences(pending, s) \in Nat /\ Occurrences(asked, s) \in Nat
         /\ \A x : Occurrences(stream, x) \in Nat
  BY SpotsCount, Waits DEF TableInv, TypeOK, FlowInv

\* The kernel keeps the account of the requests.
LEMMA KernelRequests == RequestInv /\ TableInv' /\ Kernel => RequestInv'
<1> SUFFICES ASSUME RequestInv, TableInv', Kernel
             PROVE  RequestInv'
  OBVIOUS
<1> USE DEF engineVars, clientVars
<1>1. TableInv /\ FlowInv /\ StreamType /\ asked \in Seq(SrcRefs)
  BY DEF RequestInv, TableInv, FlowInv, TypeOK
<1>2. UNCHANGED <<flows, requested, pending>>
  BY DEF Kernel, KernelOpen, KernelClose, KernelTraffic, KernelDescribe, KernelDropsDesc,
         KernelReport, KernelDropsCounts, KernelUpdate
<1>3. NoDrops'
  BY DEF RequestInv, NoDrops, Kernel, KernelOpen, KernelClose, KernelTraffic, KernelDescribe,
         KernelDropsDesc, KernelReport, KernelDropsCounts, KernelUpdate
<1>4. ASSUME NEW m \in Message, Post(m)
      PROVE  \A x : Occurrences(stream', x) = Occurrences(stream, x) + IF m = x THEN 1 ELSE 0
  BY <1>1, <1>4, CountAppend DEF Post, StreamType
<1>5. \A s : /\ Occurrences(pending, s) \in Nat /\ Occurrences(asked, s) \in Nat
             /\ \A x : Occurrences(stream, x) \in Nat
             /\ Occurrences(asked', s) \in Nat /\ \A x : Occurrences(stream', x) \in Nat
  <2>1. asked' \in Seq(SrcRefs) /\ stream' \in Seq(Message)
    BY DEF TableInv, FlowInv, StreamType, TypeOK
  <2> QED
    BY <1>1, <2>1, PlacesType, SpotsCount
<1>6. \A s, t : /\ Added(s) # Removed(t) /\ Added(s) # Desc(t) /\ Removed(s) # Desc(t)
                /\ Added(s) = Added(t) <=> s = t
                /\ Removed(s) = Removed(t) <=> s = t
                /\ Desc(s) = Desc(t) <=> s = t
  BY DEF Added, Removed, Desc
<1>7. \A s \in SrcRefs : Added(s) \in Message /\ Removed(s) \in Message /\ Desc(s) \in Message
  BY DEF Message, Added, Removed
<1>8. Error(ENOBUFS) \in Message /\ Error(ENOENT) \in Message
      /\ \A c, t : Error(c) # Added(t) /\ Error(c) # Removed(t) /\ Error(c) # Desc(t)
  BY DEF Message, Error, Added, Removed, Desc
<1>9. \A s \in SrcRefs : s \in requested /\ Occurrences(stream, Removed(s)) = 0 => status[s] = "live"
  <2> SUFFICES ASSUME NEW s \in SrcRefs, s \in requested, Occurrences(stream, Removed(s)) = 0
               PROVE  status[s] = "live"
    OBVIOUS
  <2>1. ~Waiting(Removed(s))
    BY <1>1, Waits
  <2> QED
    BY <1>1, <2>1, RequestedIsLive DEF Live
<1> SUFFICES ASSUME NEW s \in SrcRefs
             PROVE  AskedFor(s)' /\ (~Reuse => AskedOnce(s)')
  BY <1>3 DEF RequestInv
<1>10. AskedFor(s) /\ (~Reuse => AskedOnce(s))
  BY DEF RequestInv
<1> USE DEF AskedFor, AskedOnce, Unheard, Places, Described
<1> HIDE DEF engineVars, clientVars
<1>11. ASSUME Occurrences(stream', Added(s)) = Occurrences(stream, Added(s)),
              Occurrences(stream', Desc(s)) = Occurrences(stream, Desc(s)),
              Occurrences(stream', Removed(s)) >= Occurrences(stream, Removed(s)),
              UNCHANGED <<asked, dropped>>,
              status'[s] = "new" => status[s] = "new"
       PROVE  AskedFor(s)' /\ (~Reuse => AskedOnce(s)')
  BY <1>2, <1>5, <1>10, <1>11
<1>12. ASSUME NEW t \in SrcRefs, KernelOpen(t)
       PROVE  AskedFor(s)' /\ (~Reuse => AskedOnce(s)')
  <2>1. /\ Post(Added(t)) /\ dropped' = dropped \ {t} /\ asked' = asked
        /\ status' = [status EXCEPT ![t] = "live"]
        /\ status[t] = "new" \/ (Reuse /\ status[t] = "closed")
    BY <1>12 DEF KernelOpen
  <2>2. /\ Occurrences(stream', Added(s)) = Occurrences(stream, Added(s)) + IF s = t THEN 1 ELSE 0
        /\ Occurrences(stream', Desc(s)) = Occurrences(stream, Desc(s))
        /\ Occurrences(stream', Removed(s)) = Occurrences(stream, Removed(s))
    BY <1>4, <1>5, <1>6, <1>7, <2>1
  <2>3. CASE s # t
    <3>1. status'[s] = status[s] /\ (s \in dropped' <=> s \in dropped)
      BY <1>1, <2>1, <2>3 DEF StreamType
    <3> QED
      BY <1>2, <1>5, <1>10, <2>1, <2>2, <2>3, <3>1
  <2>4. CASE s = t
    <3>1. status'[s] = "live" /\ status[s] # "live"
      BY <1>1, <2>1, <2>4 DEF StreamType
    <3>2. AskedFor(s)'
      BY <1>2, <1>9, <2>2, <3>1
    <3>3. ~Reuse => AskedOnce(s)'
      BY <1>2, <1>5, <1>10, <2>1, <2>2, <2>4, <3>1
    <3> QED
      BY <3>2, <3>3
  <2> QED
    BY <2>3, <2>4
<1>13. ASSUME NEW t \in SrcRefs, KernelClose(t)
       PROVE  AskedFor(s)' /\ (~Reuse => AskedOnce(s)')
  <2>1. /\ Post(Removed(t)) /\ UNCHANGED <<asked, dropped>>
        /\ status' = [status EXCEPT ![t] = "closed"]
    BY <1>13 DEF KernelClose
  <2>2. /\ Occurrences(stream', Added(s)) = Occurrences(stream, Added(s))
        /\ Occurrences(stream', Desc(s)) = Occurrences(stream, Desc(s))
        /\ Occurrences(stream', Removed(s)) >= Occurrences(stream, Removed(s))
    BY <1>4, <1>5, <1>6, <1>7, <2>1
  <2>3. status'[s] = "new" => status[s] = "new"
    BY <1>1, <2>1 DEF StreamType
  <2> QED
    BY <1>11, <2>1, <2>2, <2>3
<1>14. ASSUME NEW m \in Message, Post(m), UNCHANGED <<status, asked, dropped>>,
              m.type \notin {"added", "removed", "desc"}
       PROVE  AskedFor(s)' /\ (~Reuse => AskedOnce(s)')
  <2>1. m # Added(s) /\ m # Removed(s) /\ m # Desc(s)
    BY <1>14 DEF Added, Removed, Desc
  <2>2. /\ Occurrences(stream', Added(s)) = Occurrences(stream, Added(s))
        /\ Occurrences(stream', Desc(s)) = Occurrences(stream, Desc(s))
        /\ Occurrences(stream', Removed(s)) = Occurrences(stream, Removed(s))
    BY <1>4, <1>5, <1>14, <2>1
  <2> QED
    BY <1>5, <1>11, <1>14, <2>2
<1>15. CASE \E t \in SrcRefs, d \in Dir : KernelTraffic(t, d)
  <2>1. UNCHANGED <<stream, asked, dropped, status>>
    BY <1>15 DEF KernelTraffic
  <2> QED
    BY <1>5, <1>11, <2>1
<1>16. ASSUME asked # <<>>, asked' = Tail(asked)
       PROVE  /\ Head(asked) \in SrcRefs
              /\ Occurrences(asked, s) = Occurrences(asked', s) + IF Head(asked) = s THEN 1 ELSE 0
  BY <1>1, <1>16, CountTail, HeadTailProperties
<1>17. CASE KernelDescribe
  <2> DEFINE t == Head(asked)
  <2>1. /\ asked # <<>> /\ asked' = Tail(asked) /\ UNCHANGED <<dropped, status>>
        /\ Post(IF t \in Live THEN Desc(t) ELSE Error(ENOENT))
    BY <1>17 DEF KernelDescribe
  <2>2. t \in SrcRefs /\ Occurrences(asked, s) = Occurrences(asked', s) + IF t = s THEN 1 ELSE 0
    BY <1>16, <2>1
  <2> HIDE DEF t
  <2>3. /\ Occurrences(stream', Added(s)) = Occurrences(stream, Added(s))
        /\ Occurrences(stream', Removed(s)) = Occurrences(stream, Removed(s))
        /\ Occurrences(stream', Desc(s))
             = Occurrences(stream, Desc(s)) + IF t = s /\ t \in Live THEN 1 ELSE 0
    <3>1. CASE t \in Live
      <4>1. Post(Desc(t)) /\ Desc(t) \in Message
        BY <1>7, <2>1, <2>2, <3>1
      <4>2. Desc(t) # Added(s) /\ Desc(t) # Removed(s) /\ (Desc(t) = Desc(s) <=> t = s)
        BY <1>6
      <4> QED
        BY <1>4, <1>5, <3>1, <4>1, <4>2
    <3>2. CASE t \notin Live
      <4>1. Post(Error(ENOENT)) /\ Error(ENOENT) \in Message
        BY <1>8, <2>1, <3>2
      <4>2. Error(ENOENT) # Added(s) /\ Error(ENOENT) # Removed(s) /\ Error(ENOENT) # Desc(s)
        BY <1>8
      <4>3. t = s /\ t \in Live <=> FALSE
        BY <3>2
      <4> QED
        BY <1>4, <1>5, <4>1, <4>2, <4>3
    <3> QED
      BY <3>1, <3>2
  <2>4. status[s] = "live" => s \in Live
    BY DEF Live
  <2> QED
    BY <1>2, <1>5, <1>9, <1>10, <2>1, <2>2, <2>3, <2>4
<1>18. CASE KernelDropsDesc
  <2> DEFINE t == Head(asked)
  <2>1. /\ asked # <<>> /\ asked' = Tail(asked) /\ status' = status /\ dropped' = dropped \cup {t}
        /\ Post(Error(ENOBUFS))
    BY <1>18 DEF KernelDropsDesc
  <2>2. t \in SrcRefs /\ Occurrences(asked, s) = Occurrences(asked', s) + IF t = s THEN 1 ELSE 0
    BY <1>16, <2>1
  <2> HIDE DEF t
  <2>3. /\ Occurrences(stream', Added(s)) = Occurrences(stream, Added(s))
        /\ Occurrences(stream', Removed(s)) = Occurrences(stream, Removed(s))
        /\ Occurrences(stream', Desc(s)) = Occurrences(stream, Desc(s))
    BY <1>4, <1>5, <1>8, <2>1
  <2> QED
    BY <1>2, <1>5, <1>10, <2>1, <2>2, <2>3
<1>19. ASSUME NEW t \in SrcRefs, KernelReport(t) \/ KernelDropsCounts(t)
       PROVE  AskedFor(s)' /\ (~Reuse => AskedOnce(s)')
  <2>1. UNCHANGED <<status, asked, dropped>> /\ (Post(Counted(t)) \/ Post(Error(ENOBUFS)))
    BY <1>19 DEF KernelReport, KernelDropsCounts
  <2>2. Counted(t) \in Message /\ Counted(t).type = "counts" /\ Error(ENOBUFS).type = "error"
    BY <1>1 DEF StreamType, Message, Counted, Error
  <2> QED
    BY <1>8, <1>14, <2>1, <2>2
<1>20. ASSUME NEW t \in SrcRefs, NEW p \in Pids \cup {E!NoDesc}, KernelUpdate(t, p)
       PROVE  AskedFor(s)' /\ (~Reuse => AskedOnce(s)')
  <2>1. UNCHANGED <<status, asked, dropped>> /\ Post(Update(t, p)) /\ p \in {E!NoDesc, OwnerOf[t]}
    BY <1>20 DEF KernelUpdate
  <2>2. Update(t, p) \in Message /\ Update(t, p).type = "update"
    BY <1>1, <2>1 DEF StreamType, Message, Update
  <2> QED
    BY <1>14, <2>1, <2>2
<1> QED
  BY <1>12, <1>13, <1>15, <1>17, <1>18, <1>19, <1>20 DEF Kernel

\* Nothing occurs in an empty queue.
LEMMA NoneInEmpty == \A x : Occurrences(<<>>, x) = 0
<1>1. <<>> \in Seq({}) /\ Len(<<>>) = 0 /\ \A k \in 1..0 : FALSE
  BY EmptySeq
<1> SUFFICES ASSUME NEW x
             PROVE  Occurrences(<<>>, x) = 0
  OBVIOUS
<1> DEFINE q == <<>>
<1>2. q \in Seq({}) /\ \A k \in 1..Len(q) : q[k] # x
  BY <1>1
<1> HIDE DEF q
<1>3. Occurrences(q, x) = 0
  BY <1>2, SpotsCount
<1> QED
  BY <1>3 DEF q

\* Reading a message keeps the account: an announcement queues the request, a
\* description settles it.
LEMMA ReceiveRequests == RequestInv /\ TableInv' /\ Receive => RequestInv'
<1> SUFFICES ASSUME RequestInv, TableInv', Receive
             PROVE  RequestInv'
  OBVIOUS
<1> DEFINE m == Head(stream)
<1>1. /\ TableInv /\ FlowInv /\ StreamType /\ Alternates /\ E!TypeOK /\ OwnerInv
      /\ pending \in Seq(SrcRefs) /\ DOMAIN flows = requested
  BY DEF RequestInv, TableInv, FlowInv, TypeOK, FlowsAreRequested
<1>2. DOMAIN flows' = requested'
  BY DEF TableInv, FlowInv, FlowsAreRequested
<1>3. stream # <<>> /\ stream' = Tail(stream) /\ Apply(m) /\ UNCHANGED <<status, asked, dropped>>
  BY DEF Receive
<1>4. m \in Message /\ m = stream[1] /\ Len(stream) \in Nat \ {0}
  BY <1>1, <1>3, HeadTailProperties, LenProperties, EmptySeq DEF StreamType
<1>5. \A x : Occurrences(stream, x) = Occurrences(stream', x) + IF m = x THEN 1 ELSE 0
  BY <1>1, <1>3, CountTail DEF StreamType
<1>6. NoDrops'
  BY <1>3 DEF RequestInv, NoDrops
<1>7. \A s : /\ Occurrences(pending, s) \in Nat /\ Occurrences(asked, s) \in Nat
             /\ \A x : Occurrences(stream, x) \in Nat
             /\ Occurrences(pending', s) \in Nat /\ \A x : Occurrences(stream', x) \in Nat
  <2>1. pending' \in Seq(SrcRefs) /\ stream' \in Seq(Message)
    BY DEF TableInv, FlowInv, StreamType, TypeOK
  <2> QED
    BY <1>1, <2>1, PlacesType, SpotsCount
<1> HIDE DEF m
<1> SUFFICES ASSUME NEW s \in SrcRefs
             PROVE  AskedFor(s)' /\ (~Reuse => AskedOnce(s)')
  BY <1>6 DEF RequestInv
<1>8. AskedFor(s) /\ (~Reuse => AskedOnce(s))
  BY DEF RequestInv
<1>9. s \in requested /\ s \in requested' /\ Described(s) => Described(s)'
  BY <1>1, <1>2, <1>3, <1>4, ApplyTable DEF Described
<1>10. \A t : Added(t).type = "added" /\ Removed(t).type = "removed" /\ Desc(t).type = "desc"
              /\ Added(t).src = t /\ Removed(t).src = t /\ Desc(t).src = t
  BY DEF Added, Removed, Desc
<1>11. /\ m.type = "added" => m = Added(m.src)
       /\ m.type = "removed" => m = Removed(m.src)
       /\ m.type = "desc" => m = Desc(m.src)
  BY <1>4, <1>10 DEF Message, Added, Removed
<1> USE DEF AskedFor, AskedOnce, Unheard, Places
<1>12. CASE ApplyAdded(m)
  <2> DEFINE t == m.src
  <2>1. /\ m = Added(t) /\ requested' = requested \cup {t}
        /\ pending' = IF t \in requested THEN pending ELSE Append(pending, t)
    BY <1>11, <1>12 DEF ApplyAdded
  <2>2. t \in SrcRefs
    BY <1>4, <1>12 DEF ApplyAdded, Message, Desc
  <2> HIDE DEF t
  <2>3. t \notin requested
    <3>1. Told(t, 0) => stream[0 + 1] # Added(t)
      <4>1. 0 \in 0..Len(stream) /\ 0 + 1 <= Len(stream)
        BY <1>4
      <4> QED
        BY <1>1, <2>2, <4>1 DEF Alternates
    <3>2. t \in requested => Told(t, 0)
      BY DEF Told
    <3>3. stream[1] = Added(t)
      BY <1>4, <2>1
    <3>4. 0 + 1 = 1
      OBVIOUS
    <3> QED
      BY <3>1, <3>2, <3>3, <3>4
  <2>4. Occurrences(pending', s) = Occurrences(pending, s) + IF t = s THEN 1 ELSE 0
    BY <1>1, <2>1, <2>2, <2>3, CountAppend
  <2>5. /\ Occurrences(stream', Desc(s)) = Occurrences(stream, Desc(s))
        /\ Occurrences(stream', Removed(s)) = Occurrences(stream, Removed(s))
        /\ Occurrences(stream, Added(s)) = Occurrences(stream', Added(s)) + IF t = s THEN 1 ELSE 0
    <3>1. m # Desc(s) /\ m # Removed(s)
      BY <1>10, <2>1
    <3>2. m = Added(s) <=> t = s
      BY <1>10, <2>1
    <3>3. /\ Occurrences(stream, Desc(s)) = Occurrences(stream', Desc(s)) + 0
          /\ Occurrences(stream, Removed(s)) = Occurrences(stream', Removed(s)) + 0
      BY <1>5, <3>1
    <3>4. Occurrences(stream, Added(s)) = Occurrences(stream', Added(s)) + IF t = s THEN 1 ELSE 0
      BY <1>5, <3>2
    <3> QED
      BY <1>7, <3>3, <3>4
  <2>6. CASE s # t
    <3>1. Places(s)' = Places(s) /\ (s \in requested' <=> s \in requested)
      BY <1>3, <1>7, <2>1, <2>4, <2>5, <2>6
    <3>2. AskedFor(s)'
      BY <1>3, <1>8, <1>9, <2>5, <3>1
    <3>3. ~Reuse => AskedOnce(s)'
      BY <1>3, <1>7, <1>8, <2>5, <2>6, <3>1
    <3> QED
      BY <3>2, <3>3
  <2>7. CASE s = t
    <3>1. Places(s)' = Places(s) + 1 /\ Places(s) \in Nat
      BY <1>3, <1>7, <2>4, <2>5, <2>7
    <3>2. AskedFor(s)'
      BY <3>1
    <3>3. ~Reuse => AskedOnce(s)'
      <4> SUFFICES ASSUME ~Reuse PROVE AskedOnce(s)'
        OBVIOUS
      <4>1. Occurrences(stream, Added(s)) = 1 /\ Occurrences(stream', Added(s)) = 0
        BY <1>7, <1>8, <2>5, <2>7
      <4>2. Unheard(s) /\ status[s] # "new" /\ Places(s) = 0
        BY <1>8, <4>1
      <4> QED
        BY <1>3, <3>1, <4>1, <4>2
    <3> QED
      BY <3>2, <3>3
  <2> QED
    BY <2>6, <2>7
<1>13. CASE ApplyDesc(m)
  <2>1. UNCHANGED <<requested, pending>> /\ m = Desc(m.src)
    BY <1>11, <1>13 DEF ApplyDesc
  <2>2. /\ Occurrences(stream', Added(s)) = Occurrences(stream, Added(s))
        /\ Occurrences(stream', Removed(s)) = Occurrences(stream, Removed(s))
    BY <1>5, <1>7, <1>10, <2>1
  <2>3. Occurrences(stream, Desc(s)) = Occurrences(stream', Desc(s)) + IF m = Desc(s) THEN 1 ELSE 0
    BY <1>5
  <2>4. m = Desc(s) => Described(s)'
    BY <1>1, <1>3, <1>4, ApplyTable DEF Described
  <2> QED
    BY <1>3, <1>7, <1>8, <1>9, <2>1, <2>2, <2>3, <2>4
<1>14. CASE ApplyRemoved(m)
  <2>1. pending' = pending /\ m = Removed(m.src) /\ requested' = requested \ {m.src}
    BY <1>11, <1>14 DEF ApplyRemoved
  <2>2. /\ Occurrences(stream', Added(s)) = Occurrences(stream, Added(s))
        /\ Occurrences(stream', Desc(s)) = Occurrences(stream, Desc(s))
        /\ m.src # s => Occurrences(stream', Removed(s)) = Occurrences(stream, Removed(s))
    BY <1>5, <1>7, <1>10, <2>1
  <2> QED
    BY <1>3, <1>7, <1>8, <1>9, <2>1, <2>2
<1>15. CASE ApplyCounts(m) \/ ApplyUpdate(m) \/ ApplyError(m)
  <2>1. UNCHANGED <<requested, pending>> /\ m.type \notin {"added", "removed", "desc"}
    BY <1>15 DEF ApplyCounts, ApplyUpdate, ApplyError
  <2>2. /\ Occurrences(stream', Added(s)) = Occurrences(stream, Added(s))
        /\ Occurrences(stream', Desc(s)) = Occurrences(stream, Desc(s))
        /\ Occurrences(stream', Removed(s)) = Occurrences(stream, Removed(s))
    BY <1>5, <1>7, <1>10, <2>1
  <2> QED
    BY <1>3, <1>7, <1>8, <1>9, <2>1, <2>2
<1> QED
  BY <1>3, <1>12, <1>13, <1>14, <1>15 DEF Apply

\* A pump moves the requests of announced sources on and drops others.
LEMMA PumpRequests == RequestInv /\ TableInv' /\ Pump => RequestInv'
<1> SUFFICES ASSUME RequestInv, TableInv', Pump
             PROVE  RequestInv'
  OBVIOUS
<1> DEFINE taken == TakeDescBatch(pending, requested, Batch)
<1>1. TableInv /\ pending \in Seq(SrcRefs) /\ asked \in Seq(SrcRefs)
  BY DEF RequestInv, TableInv, TypeOK
<1>2. /\ pending' = taken.rest /\ asked' = asked \o taken.out
      /\ UNCHANGED <<flows, requested, status, stream, dropped>>
  BY DEF Pump, engineVars
<1>3. /\ taken.out \in Seq(SrcRefs \cap requested) /\ taken.rest \in Seq(SrcRefs)
      /\ \A s \in requested : Occurrences(pending, s) = Occurrences(taken.out, s) + Occurrences(taken.rest, s)
      /\ \A s : Occurrences(taken.rest, s) <= Occurrences(pending, s)
  <2>1. Batch \in Nat \ {0}
    BY MonitorAssumption
  <2>2. taken.out \in Seq(SrcRefs \cap requested)
    BY <1>1, <2>1, BatchFacts
  <2>3. taken.rest \in Seq(SrcRefs)
    BY <1>1, <2>1, BatchFacts
  <2>4. ASSUME NEW s \in requested
        PROVE  Occurrences(pending, s) = Occurrences(taken.out, s) + Occurrences(taken.rest, s)
    <3>1. Shared(pending, taken.out, taken.rest, s)
      BY <1>1, <2>1, <2>4, BatchFacts
    <3> QED
      BY <3>1 DEF Shared
  <2>5. \A s : Occurrences(taken.rest, s) <= Occurrences(pending, s)
    BY <1>1, <2>1, BatchFacts
  <2> QED
    BY <2>2, <2>3, <2>4, <2>5
<1> HIDE DEF taken
<1> DEFINE out == taken.out
<1>4. \A s : s \notin requested => Occurrences(out, s) = 0
  <2>1. out \in Seq(SrcRefs \cap requested)
    BY <1>3
  <2> HIDE DEF out
  <2> SUFFICES ASSUME NEW s, s \notin requested
               PROVE  Occurrences(out, s) = 0
    OBVIOUS
  <2>2. \A k \in 1..Len(out) : out[k] \in SrcRefs \cap requested
    BY <2>1, ElementOfSeq
  <2>3. \A k \in 1..Len(out) : out[k] # s
    BY <2>2
  <2> QED
    BY <2>1, <2>3, SpotsCount
<1>5. \A s : Occurrences(asked', s) = Occurrences(asked, s) + Occurrences(out, s)
  <2>1. out \in Seq(SrcRefs \cap requested) /\ asked' = asked \o out
    BY <1>2, <1>3
  <2> HIDE DEF out
  <2>2. out \in Seq(SrcRefs)
    BY <2>1, SeqDef
  <2> QED
    BY <1>1, <2>1, <2>2, CountConcat
<1>6. \A s : /\ Occurrences(pending, s) \in Nat /\ Occurrences(asked, s) \in Nat
             /\ Occurrences(out, s) \in Nat /\ Occurrences(taken.rest, s) \in Nat
             /\ \A x : Occurrences(stream, x) \in Nat
  BY <1>1, <1>3, PlacesType, SpotsCount
<1>7. ASSUME NEW s \in SrcRefs
      PROVE  AskedFor(s)' /\ (~Reuse => AskedOnce(s)')
  <2>1. AskedFor(s) /\ (~Reuse => AskedOnce(s))
    BY DEF RequestInv
  <2> DEFINE given == Occurrences(out, s)
             left == Occurrences(taken.rest, s)
             queued == Occurrences(pending, s)
             sent == Occurrences(asked, s)
             told == Occurrences(stream, Desc(s))
  <2>a. /\ given \in Nat /\ left \in Nat /\ queued \in Nat /\ sent \in Nat /\ told \in Nat
        /\ s \in requested => queued = given + left
        /\ s \notin requested => given = 0
        /\ left <= queued
    BY <1>3, <1>4, <1>6
  <2>b. Places(s) = queued + sent + told
    BY DEF Places
  <2>c. Places(s)' = left + (sent + given) + told
    <3>1. pending' = taken.rest /\ stream' = stream /\ Desc(s)' = Desc(s)
      BY <1>2 DEF Desc
    <3>2. Occurrences(asked', s) = sent + given
      BY <1>5
    <3> QED
      BY <3>1, <3>2 DEF Places
  <2> HIDE DEF given, left, queued, sent, told
  <2>2. s \in requested => Places(s)' = Places(s)
    BY <2>a, <2>b, <2>c
  <2>3. Places(s)' <= Places(s) /\ Places(s) \in Nat /\ Places(s)' \in Nat
    BY <2>a, <2>b, <2>c
  <2>4. Described(s)' <=> Described(s)
    BY <1>2 DEF Described
  <2>5. AskedFor(s)'
    BY <1>2, <2>1, <2>2, <2>4 DEF AskedFor
  <2>6. ~Reuse => AskedOnce(s)'
    BY <1>2, <2>1, <2>3 DEF AskedOnce, Unheard
  <2> QED
    BY <2>5, <2>6
<1> QED
  BY <1>2, <1>7 DEF RequestInv, NoDrops

\* Every other step leaves the account alone.
LEMMA StepRequests == RequestInv /\ [Next]_vars => RequestInv'
<1> SUFFICES ASSUME RequestInv, [Next]_vars
             PROVE  RequestInv'
  OBVIOUS
<1>1. TableInv /\ TableInv' /\ E!TypeOK /\ OwnerInv
  BY StepTable DEF RequestInv, TableInv, TypeOK
<1>2. ASSUME UNCHANGED <<requested, pending, asked, stream, status, dropped>>, DOMAIN flows' = DOMAIN flows,
             \A s \in DOMAIN flows : flows'[s].described = flows[s].described
      PROVE  RequestInv'
  <2>1. \A s : Described(s)' <=> Described(s)
    BY <1>2 DEF Described
  <2>2. \A s : Places(s)' = Places(s)
    BY <1>2 DEF Places
  <2>3. \A s : AskedFor(s) => AskedFor(s)'
    BY <1>2, <2>1, <2>2 DEF AskedFor
  <2>4. \A s : AskedOnce(s) => AskedOnce(s)'
    BY <1>2, <2>2 DEF AskedOnce, Unheard
  <2> QED
    BY <1>1, <1>2, <2>3, <2>4 DEF RequestInv, NoDrops
<1>3. CASE (\E dt \in Spans : Tick(dt)) \/ Reprime
  <2>1. (\E dt \in Spans : E!Tick(dt)) \/ E!Reprime
    BY <1>3 DEF Tick, Reprime
  <2>2. UNCHANGED <<requested, pending, asked, stream, status, dropped>>
    BY <1>3 DEF Tick, Reprime, clientVars, kernelVars
  <2> QED
    BY <1>1, <1>2, <2>1, <2>2, SampleTable
<1>4. CASE StartDrain \/ WouldBlock \/ PollCounts \/ UNCHANGED vars
  BY <1>2, <1>4 DEF StartDrain, WouldBlock, PollCounts, engineVars, clientVars, kernelVars, vars
<1> QED
  BY <1>1, <1>3, <1>4, KernelRequests, ReceiveRequests, PumpRequests DEF Next, Client

\* Nothing is requested at first.
LEMMA InitRequests == Init => RequestInv
<1> SUFFICES ASSUME Init
             PROVE  RequestInv
  OBVIOUS
<1>1. requested = {} /\ pending = <<>> /\ asked = <<>> /\ stream = <<>> /\ dropped = {}
  BY DEF Init
<1>2. \A x : Occurrences(<<>>, x) = 0
  BY NoneInEmpty
<1>3. \A s \in SrcRefs : AskedFor(s) /\ AskedOnce(s)
  BY <1>1, <1>2 DEF AskedFor, AskedOnce, Unheard, Places
<1> QED
  BY <1>1, <1>3, InitTable DEF RequestInv, NoDrops

\* The account is always right.
LEMMA RequestsAlways == Spec => []RequestInv
  BY InitRequests, StepRequests, PTL DEF Spec

\* When srcrefs do not come back, the request of a source is never in two places,
\* and it is in one as long as the source is announced and not described: none is
\* sent twice and none is forgotten, whatever closes in between (Monitor::apply,
\* pump_desc_requests).
THEOREM AlwaysOneRequestEach ==
  ASSUME ~Reuse
  PROVE  Spec => []OneRequestEach
<1>1. RequestInv => OneRequestEach
  <2> SUFFICES ASSUME RequestInv, NEW s \in SrcRefs
               PROVE  /\ Places(s) <= 1
                      /\ s \in requested /\ ~Described(s) /\ s \notin dropped =>
                           Places(s) = 1 \/ Waiting(Removed(s))
    BY DEF OneRequestEach, Places
  <2>1. TableInv /\ AskedFor(s) /\ AskedOnce(s)
    BY DEF RequestInv
  <2>2. Occurrences(stream, Removed(s)) # 0 => Waiting(Removed(s))
    BY <2>1, Waits DEF TableInv, FlowInv
  <2>3. Places(s) \in Nat
    BY <2>1, PlacesType DEF Places
  <2> QED
    BY <2>1, <2>2, <2>3 DEF AskedFor, AskedOnce
<1> QED
  BY <1>1, RequestsAlways, PTL

\* Once the client has caught up with a kernel that drops no reply, its flows are
\* the live sources, each described and credited to its owner, srcrefs that came
\* back included (Monitor::drain).
THEOREM AlwaysSettlesOnLive ==
  ASSUME ~Lossy
  PROVE  Spec => []SettlesOnLive
<1>1. RequestInv => SettlesOnLive
  <2> SUFFICES ASSUME RequestInv, CaughtUp
               PROVE  /\ DOMAIN flows = Live
                      /\ \A s \in Live : flows[s].described /\ flows[s].pid = OwnerOf[s]
    BY DEF SettlesOnLive
  <2>1. TableInv /\ FlowInv /\ Ordered /\ DOMAIN flows = requested /\ requested \subseteq SrcRefs /\ OwnerInv
    BY DEF RequestInv, TableInv, FlowInv, FlowsAreRequested, TypeOK
  <2>2. Len(stream) = 0 /\ (\A x : Occurrences(stream, x) = 0 /\ Occurrences(pending, x) = 0 /\ Occurrences(asked, x) = 0)
    BY EmptySeq, NoneInEmpty DEF CaughtUp
  <2>3. \A s \in SrcRefs : s \in requested => s \in Live
    BY <2>1, <2>2, RequestedIsLive DEF Waiting, Contains
  <2>4. \A s \in Live : s \in SrcRefs /\ s \in requested
    <3> SUFFICES ASSUME NEW s \in Live PROVE s \in SrcRefs /\ s \in requested
      OBVIOUS
    <3>1. s \in SrcRefs
      BY DEF Live
    <3>2. 0 \in 0..Len(stream) /\ ~(0 + 1 <= Len(stream))
      BY <2>2
    <3>3. Due(s, 0 + 1)
      BY <3>2 DEF Due
    <3>4. Told(s, 0)
      BY <2>1, <3>1, <3>2, <3>3 DEF Ordered
    <3> QED
      BY <3>1, <3>4 DEF Told
  <2>5. \A s \in Live : Described(s)
    BY <2>2, <2>4 DEF RequestInv, NoDrops, AskedFor, Places
  <2> QED
    BY <2>1, <2>3, <2>4, <2>5 DEF OwnerInv, Described
<1> QED
  BY <1>1, RequestsAlways, PTL

----------------------------------------------------------------------------
(* The snapshot.                                                           *)

InSettle == at \in {"settle", "drain", "sleep"}

\* Where collect_snapshot is and what it has counted.
Timed ==
  /\ at \in {"settle", "drain", "sleep", "poll", "interval", "measure", "done"}
  /\ at \notin {"drain", "measure"} => pc = "ready"
  /\ idle \in Nat /\ elapsed \in 0..SettleMax /\ samples \in Nat
  /\ at \in {"drain", "sleep"} => elapsed < SettleMax
  /\ InSettle => samples = 0 /\ idle <= elapsed + IF at = "sleep" THEN 1 ELSE 0
  /\ IF at = "done" THEN samples = 2 ELSE samples < 2

\* Every request has an age, and one that lived through a sleep is not new.
Aged ==
  /\ age \in Seq(0..ReplyLag) /\ Len(age) = Len(asked)
  /\ at = "settle" => \A k \in 1..Len(age) : age[k] >= 1

\* An idle drain leaves nothing queued.
LeftIdle == at \in {"settle", "sleep"} /\ idle # 0 => pending = <<>>

\* The announcement of a source of the snapshot, as long as it waits, will be read
\* before the settle can end.
ReadInTime(s) ==
  Occurrences(stream, Added(s)) # 0 =>
    IF InSettle THEN elapsed + (IF at = "settle" \/ pc = "draining" THEN 0 ELSE 1) < IdleDrains
    ELSE elapsed = SettleMax

Intervals == samples + IF at = "measure" THEN 1 ELSE 0

\* While sampling, its request is out since the settle, and the reply is read by the
\* end of the second drain.
RequestedInTime(s) ==
  ~InSettle /\ elapsed < SettleMax =>
    /\ Occurrences(pending, s) = 0
    /\ \A k \in 1..Len(asked) : asked[k] = s => age[k] > Intervals * IntervalSleeps
    /\ Intervals = 2 /\ pc # "draining" => Occurrences(stream, Desc(s)) = 0

SnapInv ==
  /\ RequestInv /\ Timed /\ Aged /\ LeftIdle
  /\ \A s \in prompt : s \in Live /\ ReadInTime(s) /\ RequestedInTime(s)

\* What the kernel sends of a source it keeps open: no announcement, and a
\* description only for the oldest request.
LEMMA KernelSends ==
  ASSUME RequestInv, RequestInv', Kernel
  PROVE  /\ UNCHANGED <<pending, pc>>
         /\ asked' = asked \/ (asked # <<>> /\ asked' = Tail(asked))
         /\ \A s \in SrcRefs :
              /\ Occurrences(stream', Added(s)) # 0 /\ status[s] = "live" => Occurrences(stream, Added(s)) # 0
              /\ Occurrences(stream', Desc(s)) # 0 =>
                   Occurrences(stream, Desc(s)) # 0 \/ (asked # <<>> /\ Head(asked) = s)
<1>1. /\ UNCHANGED <<pending, pc>>
      /\ asked' = asked \/ (asked # <<>> /\ asked' = Tail(asked))
  BY DEF Kernel, KernelOpen, KernelClose, KernelTraffic, KernelDescribe, KernelDropsDesc,
         KernelReport, KernelDropsCounts, KernelUpdate, clientVars
<1> SUFFICES ASSUME NEW s \in SrcRefs
             PROVE  /\ Occurrences(stream', Added(s)) # 0 /\ status[s] = "live" =>
                         Occurrences(stream, Added(s)) # 0
                    /\ Occurrences(stream', Desc(s)) # 0 =>
                         Occurrences(stream, Desc(s)) # 0 \/ (asked # <<>> /\ Head(asked) = s)
  BY <1>1
<1>2. stream \in Seq(Message) /\ stream' \in Seq(Message)
  BY DEF RequestInv, TableInv, FlowInv, StreamType
<1>3. ASSUME NEW m, Post(m), m # Added(s) \/ status[s] # "live",
             m # Desc(s) \/ (asked # <<>> /\ Head(asked) = s)
      PROVE  /\ Occurrences(stream', Added(s)) # 0 /\ status[s] = "live" =>
                  Occurrences(stream, Added(s)) # 0
             /\ Occurrences(stream', Desc(s)) # 0 =>
                  Occurrences(stream, Desc(s)) # 0 \/ (asked # <<>> /\ Head(asked) = s)
  <2>1. stream' = Append(stream, m)
    BY <1>3 DEF Post
  <2>2. m \in Message
    <3>1. Len(stream) \in Nat /\ Len(stream') = Len(stream) + 1 /\ stream'[Len(stream) + 1] = m
      BY <1>2, <2>1, LenProperties
    <3> QED
      BY <1>2, <3>1, ElementOfSeq
  <2>3. \A x : /\ Occurrences(stream', x) = Occurrences(stream, x) + IF m = x THEN 1 ELSE 0
               /\ Occurrences(stream, x) \in Nat
    BY <1>2, <2>1, <2>2, CountAppend, SpotsCount
  <2> QED
    BY <1>3, <2>3
<1>4. \A t : Added(t).type = "added" /\ Added(t).src = t /\ Desc(t).type = "desc" /\ Desc(t).src = t
  BY DEF Added, Desc
<1>5. CASE \E t \in SrcRefs : KernelOpen(t)
  <2>1. PICK t \in SrcRefs : KernelOpen(t)
    BY <1>5
  <2>2. Post(Added(t)) /\ status[t] # "live"
    BY <2>1 DEF KernelOpen
  <2> QED
    BY <1>3, <1>4, <2>2
<1>6. CASE KernelDescribe
  <2>1. /\ asked # <<>>
        /\ Post(IF Head(asked) \in Live THEN Desc(Head(asked)) ELSE Error(ENOENT))
    BY <1>6 DEF KernelDescribe
  <2>2. Error(ENOENT).type = "error"
    BY DEF Error
  <2> QED
    BY <1>3, <1>4, <2>1, <2>2
<1>7. ASSUME NEW m, Post(m), m.type \notin {"added", "desc"}
      PROVE  /\ Occurrences(stream', Added(s)) # 0 /\ status[s] = "live" =>
                  Occurrences(stream, Added(s)) # 0
             /\ Occurrences(stream', Desc(s)) # 0 =>
                  Occurrences(stream, Desc(s)) # 0 \/ (asked # <<>> /\ Head(asked) = s)
  <2>1. m # Added(s) /\ m # Desc(s)
    BY <1>4, <1>7
  <2> QED
    BY <1>3, <1>7, <2>1
<1>8. \A t, p, c : /\ Removed(t).type = "removed" /\ Counted(t).type = "counts"
                   /\ Update(t, p).type = "update" /\ Error(c).type = "error"
  BY DEF Removed, Counted, Update, Error
<1>9. CASE \E t \in SrcRefs, d \in Dir : KernelTraffic(t, d)
  <2>1. stream' = stream
    BY <1>9 DEF KernelTraffic
  <2> QED
    BY <2>1
<1>10. CASE \E t \in SrcRefs : KernelClose(t)
  <2>1. \E t : Post(Removed(t))
    BY <1>10 DEF KernelClose
  <2> QED
    BY <1>7, <1>8, <2>1
<1>11. CASE \E t \in SrcRefs : KernelReport(t)
  <2>1. \E t : Post(Counted(t))
    BY <1>11 DEF KernelReport
  <2> QED
    BY <1>7, <1>8, <2>1
<1>12. CASE \E t \in SrcRefs, p \in Pids \cup {E!NoDesc} : KernelUpdate(t, p)
  <2>1. \E t, p : Post(Update(t, p))
    BY <1>12 DEF KernelUpdate
  <2> QED
    BY <1>7, <1>8, <2>1
<1>13. CASE KernelDropsDesc \/ \E t \in SrcRefs : KernelDropsCounts(t)
  <2>1. Post(Error(ENOBUFS))
    BY <1>13 DEF KernelDropsDesc, KernelDropsCounts
  <2> QED
    BY <1>7, <1>8, <2>1
<1> QED
  BY <1>5, <1>6, <1>9, <1>10, <1>11, <1>12, <1>13 DEF Kernel

\* Ages stay with their requests.
LEMMA AgesKept ==
  ASSUME Aged, asked \in Seq(SrcRefs), asked' = asked \/ (asked # <<>> /\ asked' = Tail(asked)), Ages
  PROVE  /\ age' \in Seq(0..ReplyLag) /\ Len(age') = Len(asked')
         /\ \A k \in 1..Len(asked') : \E j \in 1..Len(asked) : asked'[k] = asked[j] /\ age'[k] = age[j]
<1>1. age \in Seq(0..ReplyLag) /\ Len(age) = Len(asked) /\ Len(asked) \in Nat
  BY LenProperties DEF Aged
<1>2. CASE asked' = asked
  <2> DEFINE none == [k \in 1..0 |-> 0]
  <2>1. ~(Len(asked) < Len(asked)) /\ Len(asked) - Len(asked) = 0
    BY <1>1
  <2>2. age' = age \o none
    BY <1>2, <2>1 DEF Ages
  <2>3. none \in Seq(0..ReplyLag) /\ Len(none) = 0
    OBVIOUS
  <2> HIDE DEF none
  <2>4. age' = age
    BY <1>1, <2>2, <2>3, EmptySeq, ConcatEmptySeq
  <2> QED
    BY <1>1, <1>2, <2>4
<1>3. CASE asked # <<>> /\ asked' = Tail(asked)
  <2>1. /\ asked' \in Seq(SrcRefs) /\ Len(asked) # 0 /\ Len(asked') = Len(asked) - 1
        /\ \A k \in 1..Len(asked') : asked'[k] = asked[k + 1]
    BY <1>3, HeadTailProperties, EmptySeq
  <2>2. age' = Tail(age) /\ age # <<>>
    BY <1>1, <2>1, EmptySeq DEF Ages
  <2>3. /\ age' \in Seq(0..ReplyLag) /\ Len(age') = Len(age) - 1
        /\ \A k \in 1..Len(age') : age'[k] = age[k + 1]
    BY <1>1, <2>2, HeadTailProperties
  <2>4. \A k \in 1..Len(asked') : k + 1 \in 1..Len(asked)
    BY <1>1, <2>1
  <2> QED
    BY <1>1, <2>1, <2>3, <2>4
<1> QED
  BY <1>2, <1>3

\* A reply that takes no longer than the two intervals is not still to come after them.
LEMMA NoneOverdue ==
  ASSUME Aged, asked \in Seq(SrcRefs), ReplyLag <= 2 * IntervalSleeps, NEW s,
         \A k \in 1..Len(asked) : asked[k] = s => age[k] > 2 * IntervalSleeps
  PROVE  Occurrences(asked, s) = 0 /\ ~(asked # <<>> /\ Head(asked) = s)
<1>1. \A k \in 1..Len(asked) : age[k] \in 0..ReplyLag
  BY ElementOfSeq DEF Aged
<1>2. \A k \in 1..Len(asked) : ~(age[k] > 2 * IntervalSleeps)
  BY <1>1, OneShotAssumption DEF IntervalSleeps
<1>3. \A k \in 1..Len(asked) : asked[k] # s
  BY <1>2
<1>4. asked # <<>> => 1 \in 1..Len(asked) /\ Head(asked) = asked[1]
  BY HeadTailProperties, LenProperties, EmptySeq
<1> QED
  BY <1>3, <1>4, SpotsCount

\* The kernel works on beside the program: it announces a source of the snapshot
\* early, and answers its request once.
LEMMA KernelSnap ==
  ASSUME ReplyLag <= 2 * IntervalSleeps, SnapInv, RequestInv', KernelStep
  PROVE  SnapInv'
<1>1. /\ RequestInv /\ Kernel /\ Ages /\ UNCHANGED <<at, idle, elapsed, samples>>
      /\ Timed /\ Aged /\ LeftIdle /\ asked \in Seq(SrcRefs)
  BY DEF SnapInv, KernelStep, RequestInv, TableInv, TypeOK
<1>2. /\ UNCHANGED <<pending, pc>>
      /\ asked' = asked \/ (asked # <<>> /\ asked' = Tail(asked))
      /\ \A s \in SrcRefs :
           /\ Occurrences(stream', Added(s)) # 0 /\ status[s] = "live" => Occurrences(stream, Added(s)) # 0
           /\ Occurrences(stream', Desc(s)) # 0 =>
                Occurrences(stream, Desc(s)) # 0 \/ (asked # <<>> /\ Head(asked) = s)
  BY <1>1, KernelSends
<1>3. /\ age' \in Seq(0..ReplyLag) /\ Len(age') = Len(asked')
      /\ \A k \in 1..Len(asked') : \E j \in 1..Len(asked) : asked'[k] = asked[j] /\ age'[k] = age[j]
  BY <1>1, <1>2, AgesKept
<1>4. Timed' /\ LeftIdle'
  BY <1>1, <1>2 DEF Timed, LeftIdle, InSettle
<1>5. Aged'
  BY <1>1, <1>3 DEF Aged
<1>6. \A s \in SrcRefs : Added(s)' = Added(s) /\ Desc(s)' = Desc(s)
  BY DEF Added, Desc
<1>7. ASSUME NEW s \in prompt'
      PROVE  /\ s \in SrcRefs /\ s \in Live'
             /\ IF status[s] = "live" THEN s \in prompt
                ELSE at \in {"settle", "drain", "sleep"} /\ elapsed < IdleDrains - 1
  BY <1>7 DEF KernelStep, Live
<1>8. ASSUME NEW s \in prompt'
      PROVE  ReadInTime(s)'
  <2>1. CASE status[s] = "live"
    <3>1. ReadInTime(s)
      BY <1>7, <1>8, <2>1 DEF SnapInv
    <3> QED
      BY <1>1, <1>2, <1>6, <1>7, <1>8, <2>1, <3>1 DEF ReadInTime, InSettle
  <2>2. CASE status[s] # "live"
    <3>1. /\ at \in {"settle", "drain", "sleep"} /\ elapsed < IdleDrains - 1
          /\ elapsed \in Nat /\ IdleDrains \in Nat
      BY <1>1, <1>7, <1>8, <2>2, OneShotAssumption DEF Timed
    <3> QED
      BY <1>1, <3>1 DEF ReadInTime, InSettle
  <2> QED
    BY <2>1, <2>2
<1>9. ASSUME NEW s \in prompt'
      PROVE  RequestedInTime(s)'
  <2> SUFFICES ASSUME ~InSettle, elapsed < SettleMax
               PROVE  /\ Occurrences(pending, s) = 0
                      /\ \A k \in 1..Len(asked') : asked'[k] = s => age'[k] > Intervals * IntervalSleeps
                      /\ Intervals = 2 /\ pc # "draining" => Occurrences(stream', Desc(s)) = 0
    BY <1>1, <1>2, <1>6, <1>7, <1>9 DEF RequestedInTime, InSettle, Intervals
  <2>1. s \in prompt /\ s \in SrcRefs
    BY <1>7, <1>9 DEF InSettle
  <2>2. /\ Occurrences(pending, s) = 0
        /\ \A k \in 1..Len(asked) : asked[k] = s => age[k] > Intervals * IntervalSleeps
        /\ Intervals = 2 /\ pc # "draining" => Occurrences(stream, Desc(s)) = 0
    BY <2>1 DEF SnapInv, RequestedInTime
  <2>3. \A k \in 1..Len(asked') : asked'[k] = s => age'[k] > Intervals * IntervalSleeps
    BY <1>3, <2>2
  <2>4. Intervals = 2 => ~(asked # <<>> /\ Head(asked) = s)
    BY <1>1, <2>2, NoneOverdue
  <2> QED
    BY <1>2, <2>1, <2>2, <2>3, <2>4
<1> QED
  BY <1>4, <1>5, <1>7, <1>8, <1>9 DEF SnapInv

\* A drain reads the announcements, queues their requests and sends a batch; those of
\* the snapshot's sources are gone from both by the time it samples.
LEMMA DrainSnap ==
  ASSUME SnapInv, RequestInv', DrainStep
  PROVE  SnapInv'
<1>1. /\ RequestInv /\ TableInv /\ Ages /\ UNCHANGED <<at, idle, elapsed, samples, prompt, status>>
      /\ Timed /\ Aged /\ asked \in Seq(SrcRefs) /\ pending \in Seq(SrcRefs) /\ stream \in Seq(Message)
      /\ at \in {"drain", "measure"}
      /\ Receive \/ WouldBlock \/ Pump
  BY DEF SnapInv, DrainStep, Receive, WouldBlock, Pump, kernelVars, RequestInv, TableInv, FlowInv,
         StreamType, TypeOK
<1>2. Timed' /\ LeftIdle'
  BY <1>1 DEF Timed, LeftIdle, InSettle
<1>3. \A s : Added(s)' = Added(s) /\ Desc(s)' = Desc(s)
  BY DEF Added, Desc
<1>4. \A s \in prompt : s \in SrcRefs /\ s \in Live /\ s \in Live' /\ ReadInTime(s) /\ RequestedInTime(s)
  BY <1>1 DEF SnapInv, Live
<1>5. \A s : /\ Occurrences(pending, s) \in Nat /\ Occurrences(asked, s) \in Nat
             /\ \A x : Occurrences(stream, x) \in Nat
  BY <1>1, PlacesType
<1>6. SUFFICES /\ Aged'
               /\ \A s \in prompt : ReadInTime(s)' /\ RequestedInTime(s)'
  BY <1>1, <1>2, <1>4 DEF SnapInv
<1>7. CASE Receive
  <2>1. /\ pc = "draining" /\ stream # <<>> /\ Apply(Head(stream))
        /\ stream' = Tail(stream) /\ pc' = pc /\ asked' = asked
    BY <1>7 DEF Receive
  <2>2. \A x : /\ Occurrences(stream, x) = Occurrences(stream', x) + IF Head(stream) = x THEN 1 ELSE 0
               /\ Occurrences(stream', x) \in Nat
    <3>1. stream' \in Seq(Message)
      BY <1>1, <2>1, HeadTailProperties
    <3> QED
      BY <1>1, <2>1, <3>1, CountTail, SpotsCount
  <2>3. /\ age' \in Seq(0..ReplyLag) /\ Len(age') = Len(asked')
        /\ \A k \in 1..Len(asked') : \E j \in 1..Len(asked) : asked'[k] = asked[j] /\ age'[k] = age[j]
    BY <1>1, <2>1, AgesKept
  <2>4. \A s \in prompt : ReadInTime(s)'
    BY <1>1, <1>3, <1>4, <1>5, <2>1, <2>2 DEF ReadInTime, InSettle
  <2>5. ASSUME NEW s \in prompt, ~InSettle, elapsed < SettleMax
        PROVE  Occurrences(pending', s) = 0
    <3>1. Occurrences(stream, Added(s)) = 0 /\ Occurrences(pending, s) = 0
      <4>1. elapsed # SettleMax
        BY <1>1, <2>5 DEF Timed
      <4> QED
        BY <1>4, <2>5, <4>1 DEF ReadInTime, RequestedInTime
    <3>2. Head(stream) # Added(s)
      BY <2>2, <3>1
    <3>3. \/ pending' = pending
          \/ /\ pending' = Append(pending, Head(stream).src) /\ Head(stream).type = "added"
    BY <2>1 DEF Apply, ApplyAdded, ApplyDesc, ApplyCounts, ApplyUpdate, ApplyRemoved, ApplyError
    <3>4. Head(stream).type = "added" => Head(stream).src \in SrcRefs /\ Head(stream) = Added(Head(stream).src)
      <4>1. Head(stream) \in Message
        BY <1>1, <2>1, HeadTailProperties
      <4> QED
        BY <4>1 DEF Message, Added, Desc
    <3>5. CASE pending' = pending
      BY <3>1, <3>5
    <3>6. CASE pending' # pending
      <4> DEFINE t == Head(stream).src
      <4>1. pending' = Append(pending, t) /\ t \in SrcRefs /\ t # s
        BY <3>2, <3>3, <3>4, <3>6
      <4> HIDE DEF t
      <4>2. Occurrences(pending', s) = Occurrences(pending, s) + 0
        BY <1>1, <4>1, CountAppend
      <4> QED
        BY <3>1, <4>2
    <3> QED
      BY <3>5, <3>6
  <2>6. \A s \in prompt : RequestedInTime(s)'
    BY <1>1, <1>4, <2>1, <2>3, <2>5 DEF RequestedInTime, InSettle, Intervals
  <2>7. Aged'
    BY <1>1, <2>3 DEF Aged
  <2> QED
    BY <2>4, <2>6, <2>7
<1>8. CASE WouldBlock
  <2>1. /\ stream = <<>> /\ pc' = "pumping" /\ UNCHANGED <<pending, stream, asked>>
    BY <1>8 DEF WouldBlock, kernelVars
  <2>2. \A x : Occurrences(stream', x) = 0
    BY <2>1, NoneInEmpty
  <2>3. /\ age' \in Seq(0..ReplyLag) /\ Len(age') = Len(asked')
        /\ \A k \in 1..Len(asked') : \E j \in 1..Len(asked) : asked'[k] = asked[j] /\ age'[k] = age[j]
    BY <1>1, <2>1, AgesKept
  <2>4. Aged'
    BY <1>1, <2>3 DEF Aged
  <2>5. \A s \in prompt : ReadInTime(s)'
    BY <2>2 DEF ReadInTime
  <2>6. \A s \in prompt : RequestedInTime(s)'
    BY <1>1, <1>4, <2>1, <2>2, <2>3 DEF RequestedInTime, InSettle, Intervals
  <2> QED
    BY <2>4, <2>5, <2>6
<1>9. CASE Pump
  <2> DEFINE taken == TakeDescBatch(pending, requested, Batch)
             out == taken.out
             fresh == [k \in 1..Len(out) |-> 0]
  <2>1. /\ pc = "pumping" /\ pc' = "ready" /\ stream' = stream
        /\ pending' = taken.rest /\ asked' = asked \o out
    BY <1>9 DEF Pump
  <2>2. /\ out \in Seq(SrcRefs \cap requested) /\ taken.rest \in Seq(SrcRefs)
        /\ \A s \in requested : Shared(pending, out, taken.rest, s)
        /\ \A s : Occurrences(taken.rest, s) <= Occurrences(pending, s)
    BY <1>1, BatchFacts, MonitorAssumption
  <2> HIDE DEF taken
  <2>3. out \in Seq(SrcRefs) /\ Len(out) \in Nat /\ \A k \in 1..Len(out) : out[k] \in requested
    <3> HIDE DEF out
    <3> QED
      BY <2>2, SeqDef, LenProperties, ElementOfSeq
  <2>4. \A s : Occurrences(taken.rest, s) \in Nat /\ Occurrences(out, s) \in Nat
               /\ (Occurrences(out, s) = 0 <=> \A k \in 1..Len(out) : out[k] # s)
    BY <2>2, <2>3, SpotsCount
  <2>5. \A k \in 1..Len(out) : Occurrences(pending, out[k]) # 0
    <3> SUFFICES ASSUME NEW k \in 1..Len(out) PROVE Occurrences(pending, out[k]) # 0
      OBVIOUS
    <3>1. Shared(pending, out, taken.rest, out[k]) /\ Occurrences(out, out[k]) # 0
      BY <2>2, <2>3, <2>4
    <3> QED
      BY <1>5, <2>4, <3>1 DEF Shared
  <2>6. /\ Len(asked) \in Nat /\ Len(asked') = Len(asked) + Len(out)
        /\ \A k \in 1..Len(asked) : asked'[k] = asked[k]
        /\ \A k \in 1..Len(out) : asked'[k + Len(asked)] = out[k]
    <3> HIDE DEF out
    <3> QED
      BY <1>1, <2>1, <2>3, ConcatProperties, LenProperties
  <2>7. /\ age' \in Seq(0..ReplyLag) /\ Len(age') = Len(asked')
        /\ \A k \in 1..Len(asked) : age'[k] = age[k]
    <3>1. age \in Seq(0..ReplyLag) /\ Len(age) = Len(asked)
      BY <1>1 DEF Aged
    <3>2. fresh \in Seq(0..ReplyLag) /\ Len(fresh) = Len(out)
      <4>1. ReplyLag \in Nat
        BY OneShotAssumption
      <4> HIDE DEF out
      <4> QED
        BY <2>3, <4>1
    <3>3. age' = age \o fresh
      <4>1. ~(Len(asked') < Len(asked)) /\ Len(asked') - Len(asked) = Len(out)
        BY <2>3, <2>6
      <4> QED
        BY <1>1, <4>1 DEF Ages
    <3> HIDE DEF fresh, out
    <3>4. /\ age \o fresh \in Seq(0..ReplyLag) /\ Len(age \o fresh) = Len(age) + Len(fresh)
          /\ \A k \in 1..Len(age) : (age \o fresh)[k] = age[k]
      <4> DEFINE S == 0..ReplyLag
      <4>1. age \in Seq(S) /\ fresh \in Seq(S)
        BY <3>1, <3>2
      <4> HIDE DEF S
      <4>2. /\ age \o fresh \in Seq(S) /\ Len(age \o fresh) = Len(age) + Len(fresh)
            /\ \A k \in 1..Len(age) : (age \o fresh)[k] = age[k]
        BY <4>1, ConcatProperties
      <4> QED
        BY <4>2 DEF S
    <3> QED
      BY <2>6, <3>1, <3>2, <3>3, <3>4
  <2>8. Aged'
    BY <1>1, <2>7 DEF Aged
  <2>9. \A s \in prompt : ReadInTime(s)'
    BY <1>1, <1>3, <1>4, <2>1 DEF ReadInTime, InSettle
  <2>10. ASSUME NEW s \in prompt, ~InSettle, elapsed < SettleMax
         PROVE  /\ Occurrences(pending', s) = 0
                /\ \A k \in 1..Len(asked') : asked'[k] = s => age'[k] > Intervals * IntervalSleeps
    <3>1. /\ Occurrences(pending, s) = 0
          /\ \A k \in 1..Len(asked) : asked[k] = s => age[k] > Intervals * IntervalSleeps
      BY <1>4, <2>10 DEF RequestedInTime
    <3>2. \A k \in 1..Len(out) : out[k] # s
      BY <2>5, <3>1
    <3>3. ASSUME NEW k \in 1..Len(asked'), asked'[k] = s
          PROVE  k \in 1..Len(asked)
      <4>1. k \in 1..Len(asked) \/ (k - Len(asked) \in 1..Len(out) /\ (k - Len(asked)) + Len(asked) = k)
        BY <2>3, <2>6
      <4> QED
        BY <2>6, <3>2, <3>3, <4>1
    <3>4. Occurrences(pending', s) = 0
      BY <1>5, <2>1, <2>2, <2>4, <3>1
    <3> QED
      BY <2>6, <2>7, <3>1, <3>3, <3>4
  <2>11. \A s \in prompt : RequestedInTime(s)'
    BY <1>1, <1>3, <1>4, <2>1, <2>10 DEF RequestedInTime, InSettle, Intervals
  <2> QED
    BY <2>8, <2>9, <2>11
<1> QED
  BY <1>1, <1>7, <1>8, <1>9

\* The steps between the drains: a settle that ended without its deadline was idle, so
\* every announcement of the snapshot's sources was read and every request sent.
LEMMA LoopSnap ==
  ASSUME SnapInv, RequestInv',
         Settle \/ CountIdle \/ Sleep \/ Settled \/ PollSample \/ Interval \/ \E dt \in Spans : Measure(dt)
  PROVE  SnapInv'
<1>1. /\ UNCHANGED <<pending, status, stream, asked, prompt>>
      /\ Timed /\ Aged /\ LeftIdle
  BY DEF SnapInv, Settle, CountIdle, Sleep, Settled, PollSample, Interval, Measure, StartDrain,
         PollCounts, Tick, kernelVars, clientVars, vars
<1>2. \A s : Added(s)' = Added(s) /\ Desc(s)' = Desc(s)
  BY DEF Added, Desc
<1>3. \A s \in prompt : s \in Live' /\ ReadInTime(s) /\ RequestedInTime(s)
  BY <1>1 DEF SnapInv, Live
<1>4. {IdleDrains, SettleMax, ReplyLag} \subseteq Nat \ {0} /\ IntervalSleeps = 3
  BY OneShotAssumption DEF IntervalSleeps
<1>5. age \in Seq(0..ReplyLag) /\ Len(age) = Len(asked) /\ DOMAIN age = 1..Len(age) /\ Len(age) \in Nat
      /\ \A k \in 1..Len(age) : age[k] \in 0..ReplyLag
  BY <1>1, LenProperties, ElementOfSeq DEF Aged
<1>6. ASSUME NEW n \in Nat, Older(n)
      PROVE  /\ age' \in Seq(0..ReplyLag) /\ Len(age') = Len(age)
             /\ \A k \in 1..Len(age) : age'[k] = age[k] + n
  <2>1. \A k \in 1..Len(age) : age[k] + n \in 0..ReplyLag
    <3>1. \A k \in 1..Len(age) : age[k] + n <= ReplyLag
      BY <1>5, <1>6 DEF Older
    <3>2. \A k \in 1..Len(age) : age[k] \in Nat
      BY <1>5
    <3> QED
      BY <3>1, <3>2
  <2>2. age' = [k \in 1..Len(age) |-> age[k] + n]
    BY <1>5, <1>6 DEF Older
  <2> QED
    BY <1>5, <2>1, <2>2
<1> SUFFICES /\ Timed' /\ Aged' /\ LeftIdle'
             /\ \A s \in prompt : ReadInTime(s)' /\ RequestedInTime(s)'
  BY <1>1, <1>3 DEF SnapInv
<1>7. CASE Settle
  <2>1. /\ at = "settle" /\ at' = "drain" /\ pc' = "draining" /\ idle < IdleDrains /\ elapsed < SettleMax
        /\ UNCHANGED <<idle, elapsed, samples, age>>
    BY <1>7 DEF Settle, Settling, StartDrain
  <2>2. Timed' /\ Aged' /\ LeftIdle'
    BY <1>1, <2>1 DEF Timed, Aged, LeftIdle, InSettle
  <2> QED
    BY <1>1, <1>2, <1>3, <2>1, <2>2 DEF ReadInTime, RequestedInTime, InSettle
<1>8. CASE CountIdle
  <2>1. /\ at = "drain" /\ at' = "sleep" /\ pc = "ready" /\ pc' = "ready"
        /\ idle' = (IF pending = <<>> THEN idle + 1 ELSE 0)
        /\ UNCHANGED <<elapsed, samples, age>>
    BY <1>8 DEF CountIdle, vars, clientVars
  <2>2. Timed' /\ Aged' /\ LeftIdle'
    BY <1>1, <2>1 DEF Timed, Aged, LeftIdle, InSettle
  <2> QED
    BY <1>1, <1>2, <1>3, <2>1, <2>2 DEF ReadInTime, RequestedInTime, InSettle
<1>9. CASE Sleep
  <2>1. /\ at = "sleep" /\ at' = "settle" /\ pc' = pc /\ Older(1)
        /\ elapsed' = Min({SettleMax, elapsed + 1}) /\ UNCHANGED <<idle, samples>>
    BY <1>9 DEF Sleep, vars, clientVars
  <2>2. elapsed' = elapsed + 1
    <3>1. elapsed \in Nat /\ elapsed < SettleMax
      BY <1>1, <1>4, <2>1 DEF Timed
    <3>2. {SettleMax, elapsed + 1} \subseteq Nat /\ {SettleMax, elapsed + 1} # {}
      BY <1>4, <3>1
    <3>3. /\ Min({SettleMax, elapsed + 1}) \in {SettleMax, elapsed + 1}
          /\ Min({SettleMax, elapsed + 1}) <= elapsed + 1 /\ Min({SettleMax, elapsed + 1}) <= SettleMax
      BY <3>2, MinOfNats
    <3> QED
      BY <1>4, <2>1, <3>1, <3>3
  <2>3. /\ age' \in Seq(0..ReplyLag) /\ Len(age') = Len(age)
        /\ \A k \in 1..Len(age) : age'[k] = age[k] + 1
    BY <1>6, <2>1
  <2>4. Timed' /\ LeftIdle'
    BY <1>1, <1>4, <2>1, <2>2 DEF Timed, LeftIdle, InSettle
  <2>5. Aged'
    BY <1>1, <1>5, <2>3 DEF Aged
  <2>6. elapsed \in Nat /\ elapsed < SettleMax /\ pc = "ready"
    BY <1>1, <1>4, <2>1 DEF Timed
  <2>7. \A s \in prompt : ReadInTime(s)'
    BY <1>1, <1>2, <1>3, <1>4, <2>1, <2>2, <2>6 DEF ReadInTime, InSettle
  <2>8. \A s \in prompt : RequestedInTime(s)'
    BY <2>1 DEF RequestedInTime, InSettle
  <2> QED
    BY <2>4, <2>5, <2>7, <2>8
<1>10. CASE Settled
  <2>1. /\ at = "settle" /\ at' = "poll" /\ pc' = pc /\ ~(idle < IdleDrains /\ elapsed < SettleMax)
        /\ UNCHANGED <<idle, elapsed, samples, age>>
    BY <1>10 DEF Settled, Settling, vars, clientVars
  <2>2. Timed' /\ Aged' /\ LeftIdle'
    BY <1>1, <2>1 DEF Timed, Aged, LeftIdle, InSettle
  <2>3. /\ idle \in Nat /\ elapsed \in 0..SettleMax /\ idle <= elapsed /\ samples = 0
        /\ idle >= IdleDrains \/ elapsed = SettleMax
    BY <1>1, <1>4, <2>1 DEF Timed, InSettle
  <2>4. \A s \in prompt : ReadInTime(s)'
    BY <1>1, <1>2, <1>3, <1>4, <2>1, <2>3 DEF ReadInTime, InSettle
  <2>5. elapsed < SettleMax => pending = <<>> /\ \A x : Occurrences(pending, x) = 0
    BY <1>1, <1>4, <2>1, <2>3, NoneInEmpty DEF LeftIdle
  <2>6. Intervals' = 0 /\ ~InSettle'
    BY <2>1, <2>3 DEF Intervals, InSettle
  <2>7. \A k \in 1..Len(asked) : age[k] > 0
    BY <1>1, <1>5, <2>1 DEF Aged
  <2>8. \A s \in prompt : RequestedInTime(s)'
    BY <1>1, <1>4, <2>1, <2>5, <2>6, <2>7 DEF RequestedInTime
  <2> QED
    BY <2>2, <2>4, <2>8
<1>11. CASE PollSample
  <2>1. /\ at = "poll" /\ at' = "interval" /\ pc' = pc /\ UNCHANGED <<idle, elapsed, samples, age>>
    BY <1>11 DEF PollSample, PollCounts, clientVars
  <2>2. Timed' /\ Aged' /\ LeftIdle'
    BY <1>1, <2>1 DEF Timed, Aged, LeftIdle, InSettle
  <2> QED
    BY <1>1, <1>2, <1>3, <2>1, <2>2 DEF ReadInTime, RequestedInTime, InSettle, Intervals
<1>12. CASE Interval
  <2>1. /\ at = "interval" /\ at' = "measure" /\ pc' = "draining" /\ Older(IntervalSleeps)
        /\ UNCHANGED <<idle, elapsed, samples>>
    BY <1>12 DEF Interval, StartDrain
  <2>2. /\ age' \in Seq(0..ReplyLag) /\ Len(age') = Len(age)
        /\ \A k \in 1..Len(age) : age'[k] = age[k] + 3
    BY <1>4, <1>6, <2>1
  <2>3. Timed' /\ Aged' /\ LeftIdle'
    BY <1>1, <2>1, <2>2 DEF Timed, Aged, LeftIdle, InSettle
  <2>4. \A s \in prompt : ReadInTime(s)'
    BY <1>1, <1>2, <1>3, <2>1 DEF ReadInTime, InSettle
  <2>5. Intervals' = Intervals + 1 /\ Intervals \in Nat
    BY <1>1, <2>1 DEF Intervals, Timed
  <2>6. \A s \in prompt : RequestedInTime(s)'
    BY <1>1, <1>3, <1>4, <1>5, <2>1, <2>2, <2>5 DEF RequestedInTime, InSettle
  <2> QED
    BY <2>3, <2>4, <2>6
<1>13. CASE \E dt \in Spans : Measure(dt)
  <2>1. /\ at = "measure" /\ pc = "ready" /\ pc' = pc /\ samples' = samples + 1
        /\ at' = (IF samples' = 2 THEN "done" ELSE "poll")
        /\ UNCHANGED <<idle, elapsed, age>>
    BY <1>13 DEF Measure, Tick, clientVars
  <2>2. Timed' /\ Aged' /\ LeftIdle'
    BY <1>1, <2>1 DEF Timed, Aged, LeftIdle, InSettle
  <2>3. Intervals' = Intervals
    BY <1>1, <2>1 DEF Intervals, Timed
  <2> QED
    BY <1>1, <1>2, <1>3, <2>1, <2>2, <2>3 DEF ReadInTime, RequestedInTime, InSettle
<1> QED
  BY <1>7, <1>8, <1>9, <1>10, <1>11, <1>12, <1>13

\* Whatever opens and closes meanwhile, a snapshot whose settle was not cut off by
\* SETTLE_MAX names every source announced early, if the kernel takes no longer over
\* a description than the two intervals of the samples (collect_snapshot).
THEOREM SnapshotAlwaysNamed ==
  ASSUME ReplyLag <= 2 * IntervalSleeps
  PROVE  SnapSpec => []SnapshotIsNamed
<1>1. SnapInit => SnapInv
  <2> SUFFICES ASSUME SnapInit PROVE SnapInv
    OBVIOUS
  <2>1. RequestInv /\ asked = <<>> /\ pc = "ready" /\ pending = <<>>
    BY InitRequests DEF SnapInit, Init
  <2>2. /\ at = "settle" /\ idle = 0 /\ elapsed = 0 /\ samples = 0 /\ age = <<>> /\ prompt = {}
    BY DEF SnapInit
  <2>3. Timed /\ LeftIdle
    BY <2>1, <2>2, OneShotAssumption DEF Timed, LeftIdle, InSettle
  <2>4. Aged
    BY <2>1, <2>2, EmptySeq DEF Aged
  <2> QED
    BY <2>1, <2>2, <2>3, <2>4 DEF SnapInv
<1>2. SnapInv /\ [SnapNext]_allVars => SnapInv'
  <2> SUFFICES ASSUME SnapInv, [SnapNext]_allVars
               PROVE  SnapInv'
    OBVIOUS
  <2>1. [Next]_vars
    BY DEF SnapNext, Program, allVars, KernelStep, DrainStep, Settle, CountIdle, Sleep, Settled,
           PollSample, Interval, Measure, Next, Client
  <2>2. RequestInv'
    BY <2>1, StepRequests DEF SnapInv
  <2>3. CASE UNCHANGED allVars
    <3>1. UNCHANGED <<pending, pc, status, stream, asked, at, idle, elapsed, samples, age, prompt>>
      BY <2>3 DEF allVars, vars, snapVars, clientVars, kernelVars
    <3>2. \A s : Added(s)' = Added(s) /\ Desc(s)' = Desc(s) /\ (s \in Live' <=> s \in Live)
      BY <3>1 DEF Added, Desc, Live
    <3>3. Timed' /\ Aged' /\ LeftIdle'
      BY <3>1 DEF SnapInv, Timed, Aged, LeftIdle, InSettle
    <3>4. \A s \in prompt : ReadInTime(s)' /\ RequestedInTime(s)'
      BY <3>1, <3>2 DEF SnapInv, ReadInTime, RequestedInTime, InSettle, Intervals
    <3> QED
      BY <2>2, <3>1, <3>2, <3>3, <3>4 DEF SnapInv
  <2>4. CASE KernelStep
    BY <2>2, <2>4, KernelSnap
  <2>5. CASE DrainStep
    BY <2>2, <2>5, DrainSnap
  <2>6. CASE Program /\ ~DrainStep
    BY <2>2, <2>6, LoopSnap DEF Program
  <2> QED
    BY <2>3, <2>4, <2>5, <2>6 DEF SnapNext
<1>3. SnapInv => SnapshotIsNamed
  <2> SUFFICES ASSUME SnapInv, at = "done", elapsed < SettleMax, NEW s \in prompt
               PROVE  Described(s) \/ s \in dropped
    BY DEF SnapshotIsNamed
  <2>1. /\ RequestInv /\ TableInv /\ FlowInv /\ StreamType /\ Ordered /\ Timed /\ Aged
        /\ asked \in Seq(SrcRefs) /\ s \in Live /\ s \in SrcRefs /\ ReadInTime(s) /\ RequestedInTime(s)
    BY DEF SnapInv, RequestInv, TableInv, FlowInv, TypeOK, Live
  <2>2. ~InSettle /\ Intervals = 2 /\ pc = "ready" /\ elapsed # SettleMax
    BY <2>1 DEF InSettle, Intervals, Timed
  <2>3. /\ Occurrences(stream, Added(s)) = 0 /\ Occurrences(pending, s) = 0
        /\ \A k \in 1..Len(asked) : asked[k] = s => age[k] > 2 * IntervalSleeps
        /\ Occurrences(stream, Desc(s)) = 0
    BY <2>1, <2>2 DEF ReadInTime, RequestedInTime
  <2>4. Places(s) = 0
    BY <2>1, <2>3, NoneOverdue DEF Places
  <2>5. s \in requested /\ Occurrences(stream, Removed(s)) = 0
    <3>1. PICK n \in Nat : n = Len(stream)
      BY <2>1, LenProperties DEF StreamType
    <3>2. \A k \in 1..n : stream[k] # Added(s)
      BY <2>1, <2>3, <3>1, SpotsCount DEF StreamType
    <3>3. n \in 0..n /\ ~(n + 1 <= n)
      OBVIOUS
    <3>4. Told(s, n)
      BY <2>1, <3>1, <3>3 DEF Ordered, Due
    <3>5. s \in requested /\ \A k \in 1..n : stream[k] # Removed(s)
      BY <3>2, <3>4 DEF Told
    <3> QED
      BY <2>1, <3>1, <3>5, SpotsCount DEF StreamType
  <2>6. AskedFor(s)
    BY <2>1 DEF RequestInv
  <2> QED
    BY <2>4, <2>5, <2>6 DEF AskedFor
<1> QED
  BY <1>1, <1>2, <1>3, PTL DEF SnapSpec

----------------------------------------------------------------------------
(* Counters.                                                               *)

\* No removal of s stands between places i and j of the stream.
Kept(s, i, j) == \A k \in 1..Len(stream) : i < k /\ k < j => stream[k] # Removed(s)

\* A counter of s can be read at place 0, its flow, at a message that brings its
\* counts, and behind the last message, in the kernel.
Reads(s, k) ==
  IF k = 0 THEN s \in DOMAIN flows ELSE k <= Len(stream) => Reports(stream[k], s)

Reading(s, k) ==
  IF k = 0 THEN flows[s].bytes ELSE IF k <= Len(stream) THEN stream[k].counts ELSE counter[s]

\* Within one life of s its counter only rises, from the flow to the kernel.
Rising(s) ==
  \A j, k \in 0..(Len(stream) + 1) :
    j < k /\ Reads(s, j) /\ Reads(s, k) /\ Kept(s, j, k) =>
      \A d \in Dir : Reading(s, j)[d] <= Reading(s, k)[d]

\* The kernel may announce s, with a counter that starts again.
CanOpen(s) == status[s] = "new" \/ (Reuse /\ status[s] = "closed")

\* It does not while it owes counts of s or has sent some since its last removal.
Parted(s) ==
  /\ \A j \in 1..Len(stream) : Reports(stream[j], s) /\ Kept(s, j, Len(stream) + 1) => ~CanOpen(s)
  /\ s \in query => ~CanOpen(s)

CountInv == TableInv /\ \A s \in SrcRefs : Rising(s) /\ Parted(s)

\* What can be read is a counter.
LEMMA ReadingType ==
  ASSUME TableInv, NEW s \in SrcRefs, NEW k \in 0..(Len(stream) + 1), Reads(s, k)
  PROVE  Reading(s, k) \in E!Counts
<1>1. StreamType /\ Len(stream) \in Nat /\ flows \in [DOMAIN flows -> E!Flow]
  BY LenProperties DEF TableInv, FlowInv, StreamType, TypeOK, E!TypeOK
<1>2. CASE k = 0
  BY <1>1, <1>2 DEF Reads, Reading, E!Flow
<1>3. CASE k \in 1..Len(stream)
  <2>1. stream[k] \in Message /\ Reports(stream[k], s)
    BY <1>1, <1>3, ElementOfSeq DEF StreamType, Reads
  <2>2. stream[k].counts \in E!Counts
    BY <2>1 DEF Message, Reports, Desc
  <2> QED
    BY <1>1, <1>3, <2>2 DEF Reading
<1>4. CASE k = Len(stream) + 1
  BY <1>1, <1>4 DEF StreamType, Reading
<1> QED
  BY <1>1, <1>2, <1>3, <1>4

\* Nothing is read where a counter starts again.
LEMMA OpensUnread ==
  ASSUME TableInv, NEW s \in SrcRefs, Parted(s), CanOpen(s),
         NEW j \in 0..Len(stream), Reads(s, j)
  PROVE  ~Kept(s, j, Len(stream) + 1)
<1>1. FlowInv /\ StreamType /\ DOMAIN flows = requested /\ Len(stream) \in Nat
  BY LenProperties DEF TableInv, FlowInv, StreamType, FlowsAreRequested
<1> SUFFICES ASSUME Kept(s, j, Len(stream) + 1)
             PROVE  FALSE
  OBVIOUS
<1>2. CASE j = 0
  <2>1. s \in requested /\ ~Waiting(Removed(s))
    BY <1>1, <1>2 DEF Reads, Kept, Waiting, Contains
  <2> QED
    BY <1>1, <2>1, RequestedIsLive DEF Live, CanOpen
<1>3. CASE j # 0
  BY <1>1, <1>3 DEF Reads, Parted
<1> QED
  BY <1>2, <1>3

\* A message of the kernel keeps counters rising: counts are those of the kernel,
\* and only an announcement lets them start again.
LEMMA PostRising ==
  ASSUME TableInv, TableInv', NEW s \in SrcRefs, Rising(s), Parted(s),
         NEW m \in Message, Post(m), UNCHANGED flows,
         Reports(m, s) => m.counts = counter[s] /\ ~CanOpen(s)',
         CanOpen(s)' => CanOpen(s) \/ m = Removed(s),
         s \in query' => ~CanOpen(s)',
         counter'[s] = counter[s] \/ (CanOpen(s) /\ ~Reports(m, s))
  PROVE  Rising(s)' /\ Parted(s)'
<1> PICK n \in Nat : n = Len(stream)
  BY LenProperties DEF TableInv, FlowInv, StreamType
<1>1. /\ Len(stream') = n + 1
      /\ \A k \in 1..n : stream'[k] = stream[k]
      /\ stream'[n + 1] = m
  BY AppendProperties DEF Post, TableInv, FlowInv, StreamType
<1>2. Removed(s)' = Removed(s) /\ \A x : Reports(x, s)' <=> Reports(x, s)
  BY DEF Removed, Reports
<1>3. \A k \in 0..n : (Reads(s, k)' <=> Reads(s, k)) /\ (Reads(s, k) => Reading(s, k)' = Reading(s, k))
  <2>1. \A k \in 0..n : k = 0 \/ k \in 1..n
    OBVIOUS
  <2> QED
    BY <1>1, <1>2, <2>1 DEF Reads, Reading
<1>4. /\ Reads(s, n + 1)' <=> Reports(m, s)
      /\ Reports(m, s) => Reading(s, n + 1)' = counter[s]
      /\ Reading(s, n + 2)' = counter'[s]
      /\ Reads(s, n + 1) /\ Reading(s, n + 1) = counter[s]
  BY <1>1, <1>2 DEF Reads, Reading
<1>5. \A j, k \in 0..(n + 1) : Kept(s, j, k)' <=> Kept(s, j, k)
  <2> SUFFICES ASSUME NEW j \in 0..(n + 1), NEW k \in 0..(n + 1)
               PROVE  Kept(s, j, k)' <=> Kept(s, j, k)
    OBVIOUS
  <2>1. \A i : i \in 1..(n + 1) /\ i < k => i \in 1..n
    OBVIOUS
  <2>2. \A i : i \in 1..n => i \in 1..(n + 1)
    OBVIOUS
  <2> QED
    BY <1>1, <1>2, <2>1, <2>2 DEF Kept
<1>6. \A j \in 0..n : Kept(s, j, n + 2)' => Kept(s, j, n + 1) /\ m # Removed(s)
  <2> SUFFICES ASSUME NEW j \in 0..n, Kept(s, j, n + 2)'
               PROVE  Kept(s, j, n + 1) /\ m # Removed(s)
    OBVIOUS
  <2>1. \A i \in 1..n : i \in 1..(n + 1) /\ i < n + 2
    OBVIOUS
  <2>2. n + 1 \in 1..(n + 1) /\ j < n + 1 /\ n + 1 < n + 2
    OBVIOUS
  <2> QED
    BY <1>1, <1>2, <2>1, <2>2 DEF Kept
<1>7. /\ \A d \in Dir : counter[s][d] \in Nat /\ counter[s][d] <= counter[s][d]
      /\ \A j \in 0..n, d \in Dir : Reads(s, j) /\ Kept(s, j, n + 1) => Reading(s, j)[d] <= counter[s][d]
  <2>1. counter[s] \in E!Counts
    BY DEF TableInv, FlowInv, StreamType
  <2>2. \A d \in Dir : counter[s][d] \in Nat
    BY <2>1, MonitorAssumption DEF E!Counts, E!Bytes
  <2>3. \A j \in 0..n : j \in 0..(Len(stream) + 1) /\ j < n + 1 /\ n + 1 \in 0..(Len(stream) + 1)
    OBVIOUS
  <2> QED
    BY <1>4, <2>2, <2>3 DEF Rising
<1>8. \A j \in 0..n : Reads(s, j) /\ CanOpen(s) => ~Kept(s, j, n + 1)
  BY OpensUnread
<1>9. ASSUME NEW j \in 0..(n + 2), NEW k \in 0..(n + 2), j < k,
             Reads(s, j)', Reads(s, k)', Kept(s, j, k)', NEW d \in Dir
      PROVE  Reading(s, j)'[d] <= Reading(s, k)'[d]
  <2>1. CASE k <= n
    <3>1. j \in 0..n /\ k \in 0..n /\ j \in 0..(n + 1) /\ k \in 0..(n + 1)
      BY <1>9, <2>1
    <3>2. Reads(s, j) /\ Reads(s, k) /\ Kept(s, j, k)
      BY <1>3, <1>5, <1>9, <3>1
    <3>3. Reading(s, j)[d] <= Reading(s, k)[d]
      BY <1>9, <3>1, <3>2 DEF Rising
    <3> QED
      BY <1>3, <3>1, <3>2, <3>3
  <2>2. CASE k = n + 1
    <3>1. j \in 0..n /\ j \in 0..(n + 1) /\ k \in 0..(n + 1)
      BY <1>9, <2>2
    <3>2. Reads(s, j) /\ Kept(s, j, n + 1) /\ Reports(m, s)
      BY <1>3, <1>4, <1>5, <1>9, <2>2, <3>1
    <3> QED
      BY <1>3, <1>4, <1>7, <2>2, <3>1, <3>2
  <2>3. CASE k = n + 2 /\ j <= n
    <3>1. j \in 0..n
      BY <2>3
    <3>2. Reads(s, j) /\ Kept(s, j, n + 1)
      BY <1>3, <1>6, <1>9, <2>3, <3>1
    <3>3. counter'[s] = counter[s]
      BY <1>8, <3>1, <3>2
    <3> QED
      BY <1>3, <1>4, <1>7, <2>3, <3>1, <3>2, <3>3
  <2>4. CASE k = n + 2 /\ j = n + 1
    BY <1>4, <1>7, <1>9, <2>4
  <2> QED
    BY <1>9, <2>1, <2>2, <2>3, <2>4
<1>10. Rising(s)'
  <2>1. \A j : j \in 0..(Len(stream') + 1) <=> j \in 0..(n + 2)
    BY <1>1
  <2> QED
    BY <1>9, <2>1 DEF Rising
<1>11. ASSUME NEW j \in 1..(n + 1), Reports(stream'[j], s), Kept(s, j, n + 2)'
       PROVE  ~CanOpen(s)'
  <2>1. CASE j = n + 1
    BY <1>1, <1>11, <2>1
  <2>2. CASE j # n + 1
    <3>1. j \in 1..n /\ j \in 0..n
      BY <2>2
    <3>2. Reports(stream[j], s) /\ Kept(s, j, n + 1) /\ m # Removed(s)
      BY <1>1, <1>6, <1>11, <3>1
    <3> QED
      BY <3>1, <3>2 DEF Parted
  <2> QED
    BY <2>1, <2>2
<1>12. Parted(s)'
  <2>1. Len(stream') + 1 = n + 2
    BY <1>1
  <2> QED
    BY <1>1, <1>2, <1>11, <2>1 DEF Parted
<1> QED
  BY <1>10, <1>12

\* Steps that post and read nothing keep them, as the kernel's counters rise.
LEMMA StillRising ==
  ASSUME TableInv, NEW s \in SrcRefs, Rising(s), Parted(s), UNCHANGED stream,
         DOMAIN flows' = DOMAIN flows, \A r \in DOMAIN flows : flows'[r].bytes = flows[r].bytes,
         counter' \in [SrcRefs -> E!Counts], \A d \in Dir : counter[s][d] <= counter'[s][d],
         CanOpen(s)' => CanOpen(s), s \in query' => ~CanOpen(s)'
  PROVE  Rising(s)' /\ Parted(s)'
<1> PICK n \in Nat : n = Len(stream)
  BY LenProperties DEF TableInv, FlowInv, StreamType
<1>1. Removed(s)' = Removed(s) /\ \A x : Reports(x, s)' <=> Reports(x, s)
  BY DEF Removed, Reports
<1>2. \A j, k : Kept(s, j, k)' <=> Kept(s, j, k)
  BY <1>1 DEF Kept
<1>3. \A k \in 0..(n + 1) : /\ Reads(s, k)' <=> Reads(s, k)
                            /\ Reads(s, k) /\ k <= n => Reading(s, k)' = Reading(s, k)
  BY <1>1 DEF Reads, Reading
<1>4. Reading(s, n + 1) = counter[s] /\ Reading(s, n + 1)' = counter'[s]
  BY DEF Reading
<1>5. \A d \in Dir : counter[s][d] \in Nat /\ counter'[s][d] \in Nat
  BY MonitorAssumption DEF TableInv, FlowInv, StreamType, E!Counts, E!Bytes
<1>6. ASSUME NEW j \in 0..(n + 1), NEW k \in 0..(n + 1), j < k,
             Reads(s, j)', Reads(s, k)', Kept(s, j, k)', NEW d \in Dir
      PROVE  Reading(s, j)'[d] <= Reading(s, k)'[d]
  <2>1. Reads(s, j) /\ Reads(s, k) /\ Kept(s, j, k) /\ j <= n
    BY <1>2, <1>3, <1>6
  <2>2. Reading(s, j)[d] <= Reading(s, k)[d] /\ Reading(s, j)' = Reading(s, j)
    BY <1>3, <1>6, <2>1 DEF Rising
  <2>3. CASE k <= n
    BY <1>3, <2>1, <2>2, <2>3
  <2>4. CASE k = n + 1
    <3>1. Reading(s, j) \in E!Counts
      BY <2>1, ReadingType
    <3>2. Reading(s, j)[d] \in Nat
      BY <3>1, MonitorAssumption DEF E!Counts, E!Bytes
    <3> QED
      BY <1>4, <1>5, <2>2, <2>4, <3>2
  <2> QED
    BY <2>3, <2>4
<1>7. Rising(s)'
  BY <1>6 DEF Rising
<1>8. Parted(s)'
  BY <1>1, <1>2 DEF Parted
<1> QED
  BY <1>7, <1>8

\* Reading a message brings every reading one place nearer to the flow.
LEMMA ReceiveRising ==
  ASSUME TableInv, TableInv', NEW s \in SrcRefs, Rising(s), Parted(s), Receive
  PROVE  /\ Rising(s)' /\ Parted(s)'
         /\ s \in DOMAIN flows \cap DOMAIN flows' =>
              \A d \in Dir : flows[s].bytes[d] <= flows'[s].bytes[d]
<1> DEFINE m == Head(stream)
<1>1. /\ stream # <<>> /\ Apply(m) /\ stream' = Tail(stream)
      /\ UNCHANGED <<status, counter, query>>
      /\ stream \in Seq(Message) /\ E!TypeOK /\ OwnerInv
  BY DEF Receive, TableInv, FlowInv, StreamType, TypeOK
<1>2. PICK n \in Nat : n + 1 = Len(stream)
  <2>1. Len(stream) \in Nat \ {0}
    BY <1>1, EmptySeq, LenProperties
  <2>2. Len(stream) - 1 \in Nat /\ (Len(stream) - 1) + 1 = Len(stream)
    BY <2>1
  <2> QED
    BY <2>2
<1>3. /\ Len(stream') = n /\ m = stream[1] /\ m \in Message
      /\ \A k \in 1..n : stream'[k] = stream[k + 1]
  BY <1>1, <1>2, HeadTailProperties, LenProperties
<1> HIDE DEF m
<1>4. \A r \in DOMAIN flows' :
        flows'[r].bytes = IF Reports(m, r) THEN m.counts ELSE E!FlowAt(flows, r).bytes
  BY <1>1, <1>3, ApplyTable
<1>5. s \in DOMAIN flows' => m # Removed(s)
  <2> SUFFICES ASSUME m = Removed(s)
               PROVE  s \notin DOMAIN flows'
    OBVIOUS
  <2>1. m.type = "removed" /\ m.src = s
    BY DEF Removed
  <2>2. requested' = requested \ {s}
    BY <1>1, <2>1 DEF Apply, ApplyAdded, ApplyDesc, ApplyCounts, ApplyUpdate, ApplyRemoved, ApplyError
  <2> QED
    BY <2>2 DEF TableInv, FlowInv, FlowsAreRequested
<1>6. Removed(s)' = Removed(s) /\ \A x : Reports(x, s)' <=> Reports(x, s)
  BY DEF Removed, Reports
\* Places, one to the left.
<1>7. \A k \in 1..(n + 1) :
        /\ Reads(s, k)' <=> Reads(s, k + 1)
        /\ Reading(s, k)' = Reading(s, k + 1)
  <2>1. \A k \in 1..(n + 1) : (k <= n <=> k + 1 <= n + 1) /\ k # 0 /\ k + 1 # 0 /\ (k \in 1..n \/ ~(k <= n))
    OBVIOUS
  <2> QED
    BY <1>1, <1>2, <1>3, <1>6, <2>1 DEF Reads, Reading
<1>8. \A j, k \in 0..(n + 1) : Kept(s, j, k)' => Kept(s, j + 1, k + 1)
  <2> SUFFICES ASSUME NEW j \in 0..(n + 1), NEW k \in 0..(n + 1), Kept(s, j, k)'
               PROVE  Kept(s, j + 1, k + 1)
    OBVIOUS
  <2> SUFFICES ASSUME NEW i \in 1..(n + 1), j + 1 < i, i < k + 1
               PROVE  stream[i] # Removed(s)
    BY <1>2 DEF Kept
  <2>1. i - 1 \in 1..n /\ j < i - 1 /\ i - 1 < k /\ (i - 1) + 1 = i
    OBVIOUS
  <2>2. stream'[i - 1] # Removed(s)
    BY <1>3, <1>6, <2>1 DEF Kept
  <2> QED
    BY <1>3, <2>1, <2>2
<1>9. ASSUME NEW k \in 1..(n + 1), Kept(s, 0, k)', m # Removed(s)
      PROVE  Kept(s, 0, k + 1)
  <2> SUFFICES ASSUME NEW i \in 1..(n + 1), i < k + 1
               PROVE  stream[i] # Removed(s)
    BY <1>2 DEF Kept
  <2>1. CASE i = 1
    BY <1>3, <1>9, <2>1
  <2>2. CASE i # 1
    <3>1. 0 + 1 < i /\ 0 \in 0..(n + 1) /\ k \in 0..(n + 1)
      BY <2>2
    <3>2. Kept(s, 0 + 1, k + 1)
      BY <1>8, <1>9, <3>1
    <3> QED
      BY <1>2, <3>1, <3>2 DEF Kept
  <2> QED
    BY <2>1, <2>2
<1>10. /\ Reads(s, 1) <=> Reports(m, s)
       /\ Reading(s, 1) = m.counts
       /\ Reads(s, 0) <=> s \in DOMAIN flows
       /\ s \in DOMAIN flows => Reading(s, 0) = E!FlowAt(flows, s).bytes
  BY <1>2, <1>3 DEF Reads, Reading, E!FlowAt
<1>11. \A k \in 0..(n + 2), d \in Dir : Reads(s, k) => Reading(s, k)[d] \in Nat
  <2>1. \A k \in 0..(n + 2) : k \in 0..(Len(stream) + 1)
    BY <1>2
  <2>2. \A c \in E!Counts, d \in Dir : c[d] \in Nat
    BY MonitorAssumption DEF E!Counts, E!Bytes
  <2> QED
    BY <2>1, <2>2, ReadingType
<1>12. ASSUME NEW j \in 0..(n + 2), NEW k \in 0..(n + 2), j < k, Reads(s, j), Reads(s, k), Kept(s, j, k),
              NEW d \in Dir
       PROVE  Reading(s, j)[d] <= Reading(s, k)[d]
  <2>1. j \in 0..(Len(stream) + 1) /\ k \in 0..(Len(stream) + 1)
    BY <1>2
  <2> QED
    BY <1>12, <2>1 DEF Rising
<1>13. ASSUME NEW j \in 0..(n + 1), NEW k \in 0..(n + 1), j < k,
              Reads(s, j)', Reads(s, k)', Kept(s, j, k)', NEW d \in Dir
       PROVE  Reading(s, j)'[d] <= Reading(s, k)'[d]
  <2>1. k \in 1..(n + 1) /\ k + 1 \in 0..(n + 2) /\ j + 1 \in 0..(n + 2) /\ j + 1 < k + 1
        /\ 0 < k + 1 /\ 0 \in 0..(n + 2) /\ 1 \in 0..(n + 2)
    BY <1>13
  <2>2. Reads(s, k + 1) /\ Reading(s, k)' = Reading(s, k + 1) /\ Kept(s, j + 1, k + 1)
    BY <1>7, <1>8, <1>13, <2>1
  <2>3. CASE j # 0
    <3>1. j \in 1..(n + 1)
      BY <2>3
    <3>2. Reads(s, j + 1) /\ Reading(s, j)' = Reading(s, j + 1)
      BY <1>7, <1>13, <3>1
    <3> QED
      BY <1>12, <2>1, <2>2, <3>2
  <2>4. CASE j = 0
    <3>1. s \in DOMAIN flows' /\ Reading(s, j)' = flows'[s].bytes
      BY <1>13, <2>4 DEF Reads, Reading
    <3>2. m # Removed(s) /\ flows'[s].bytes = IF Reports(m, s) THEN m.counts ELSE E!FlowAt(flows, s).bytes
      BY <1>4, <1>5, <3>1
    <3>3. CASE Reports(m, s)
      <4>1. Reads(s, 1) /\ Reading(s, j)' = Reading(s, 1) /\ 0 + 1 = 1
        BY <1>10, <3>1, <3>2, <3>3
      <4>2. Kept(s, 1, k + 1) /\ 1 < k + 1
        BY <2>1, <2>2, <2>4, <4>1
      <4> QED
        BY <1>12, <2>1, <2>2, <4>1, <4>2
    <3>4. CASE ~Reports(m, s) /\ s \in DOMAIN flows
      <4>1. Kept(s, 0, k + 1)
        BY <1>9, <1>13, <2>1, <2>4, <3>2
      <4>2. Reads(s, 0) /\ Reading(s, j)' = Reading(s, 0)
        BY <1>10, <3>1, <3>2, <3>4
      <4> QED
        BY <1>12, <2>1, <2>2, <4>1, <4>2
    <3>5. CASE ~Reports(m, s) /\ s \notin DOMAIN flows
      <4>1. Reading(s, j)'[d] = 0
        BY <3>1, <3>2, <3>5 DEF E!FlowAt, E!NewFlow, E!Zero
      <4>2. Reading(s, k)'[d] \in Nat
        BY <1>11, <2>1, <2>2
      <4> QED
        BY <4>1, <4>2
    <3> QED
      BY <3>3, <3>4, <3>5
  <2> QED
    BY <2>3, <2>4
<1>14. Rising(s)'
  BY <1>3, <1>13 DEF Rising
<1>15. Parted(s)'
  <2>1. CanOpen(s)' <=> CanOpen(s)
    BY <1>1 DEF CanOpen
  <2>2. ASSUME NEW j \in 1..n, Reports(stream'[j], s), Kept(s, j, n + 1)'
        PROVE  ~CanOpen(s)
    <3>1. j \in 0..(n + 1) /\ n + 1 \in 0..(n + 1) /\ j + 1 \in 1..(n + 1)
      OBVIOUS
    <3>2. Kept(s, j + 1, n + 1 + 1) /\ Reports(stream[j + 1], s)
      BY <1>3, <1>8, <2>2, <3>1
    <3> QED
      BY <1>2, <3>1, <3>2 DEF Parted
  <2> QED
    BY <1>1, <1>3, <1>6, <2>1, <2>2 DEF Parted
<1>16. ASSUME s \in DOMAIN flows, s \in DOMAIN flows', NEW d \in Dir
       PROVE  flows[s].bytes[d] <= flows'[s].bytes[d]
  <2>1. Reads(s, 0) /\ Reading(s, 0) = flows[s].bytes /\ 0 \in 0..(n + 2) /\ 1 \in 0..(n + 2) /\ 0 < 1
    BY <1>16 DEF Reads, Reading
  <2>2. CASE Reports(m, s)
    <3>1. Kept(s, 0, 1)
      BY DEF Kept
    <3>2. Reads(s, 1) /\ flows'[s].bytes = Reading(s, 1)
      BY <1>4, <1>10, <1>16, <2>2
    <3> QED
      BY <1>12, <2>1, <3>1, <3>2
  <2>3. CASE ~Reports(m, s)
    <3>1. flows'[s].bytes = flows[s].bytes
      BY <1>4, <1>16, <2>3 DEF E!FlowAt
    <3>2. flows[s].bytes[d] \in Nat
      BY <1>11, <2>1
    <3> QED
      BY <3>1, <3>2
  <2> QED
    BY <2>2, <2>3
<1> QED
  BY <1>14, <1>15, <1>16

\* Every step of the kernel keeps counters rising.
LEMMA KernelRising ==
  ASSUME TableInv, TableInv', NEW s \in SrcRefs, Rising(s), Parted(s), Kernel
  PROVE  Rising(s)' /\ Parted(s)'
<1> USE DEF engineVars, clientVars
<1>1. /\ StreamType /\ counter' \in [SrcRefs -> E!Counts] /\ status' \in [SrcRefs -> {"new", "live", "closed"}]
      /\ query \subseteq SrcRefs /\ query' \subseteq SrcRefs /\ asked \in Seq(SrcRefs)
  BY DEF TableInv, FlowInv, StreamType, TypeOK
<1>2. UNCHANGED flows
  BY DEF Kernel, KernelOpen, KernelClose, KernelTraffic, KernelDescribe, KernelDropsDesc,
         KernelReport, KernelDropsCounts, KernelUpdate
<1>3. \A t : /\ ~Reports(Added(t), s) /\ ~Reports(Removed(t), s) /\ ~Reports(Desc(t), s)
             /\ ~Reports(Error(t), s)
             /\ Reports(Counted(t), s) => t = s /\ Counted(t).counts = counter[s]
             /\ \A p : Reports(Update(t, p), s) => t = s /\ Update(t, p).counts = counter[s]
  BY DEF Reports, Added, Removed, Desc, Error, Counted, Update
<1>4. \A t \in SrcRefs : /\ Added(t) \in Message /\ Removed(t) \in Message /\ Counted(t) \in Message
                         /\ Desc(t) \in Message
                         /\ \A p \in {E!NoDesc, OwnerOf[t]} : Update(t, p) \in Message
  <2> SUFFICES ASSUME NEW t \in SrcRefs
               PROVE  /\ Added(t) \in Message /\ Removed(t) \in Message /\ Counted(t) \in Message
                      /\ Desc(t) \in Message
                      /\ \A p \in {E!NoDesc, OwnerOf[t]} : Update(t, p) \in Message
    OBVIOUS
  <2>1. OwnerOf[t] \in Pids /\ counter[t] \in E!Counts
    BY <1>1, MonitorAssumption DEF StreamType
  <2> QED
    BY <2>1 DEF Message, Added, Removed, Counted, Desc, Update
<1>5. Error(ENOBUFS) \in Message /\ Error(ENOENT) \in Message
  BY DEF Message, Error
<1>6. s \in query => ~CanOpen(s)
  BY DEF Parted
<1>7. ASSUME NEW m \in Message, Post(m), UNCHANGED <<status, counter>>, query' \subseteq query,
             Reports(m, s) => m.counts = counter[s] /\ ~CanOpen(s)
      PROVE  Rising(s)' /\ Parted(s)'
  <2>1. CanOpen(s)' <=> CanOpen(s)
    BY <1>7 DEF CanOpen
  <2> QED
    BY <1>2, <1>6, <1>7, <2>1, PostRising
<1>8. ASSUME NEW t \in SrcRefs, KernelOpen(t)
      PROVE  Rising(s)' /\ Parted(s)'
  <2>1. /\ Post(Added(t)) /\ UNCHANGED query /\ CanOpen(t)
        /\ status' = [status EXCEPT ![t] = "live"]
        /\ t # s => counter'[s] = counter[s]
    BY <1>1, <1>8 DEF KernelOpen, CanOpen, StreamType
  <2>2. CanOpen(s)' => CanOpen(s)
    BY <1>1, <2>1 DEF CanOpen, StreamType
  <2>3. counter'[s] = counter[s] \/ CanOpen(s)
    BY <2>1
  <2>4. Added(t) \in Message /\ ~Reports(Added(t), s)
    BY <1>3, <1>4
  <2>5. s \in query' => ~CanOpen(s)'
    BY <1>6, <2>1, <2>2
  <2> QED
    BY <1>2, <2>1, <2>2, <2>3, <2>4, <2>5, PostRising
<1>9. ASSUME NEW t \in SrcRefs, KernelClose(t)
      PROVE  Rising(s)' /\ Parted(s)'
  <2>1. /\ Post(Removed(t)) /\ UNCHANGED counter /\ query' = IF Reuse THEN query \ {t} ELSE query
        /\ status' = [status EXCEPT ![t] = "closed"]
    BY <1>9 DEF KernelClose
  <2>2. t # s => (CanOpen(s)' <=> CanOpen(s))
    BY <1>1, <2>1 DEF CanOpen, StreamType
  <2>3. t = s => (CanOpen(s)' <=> Reuse)
    BY <1>1, <2>1, MonitorAssumption DEF CanOpen, StreamType
  <2>4. s \in query' => ~CanOpen(s)'
    BY <1>6, <2>1, <2>2, <2>3
  <2>5. CanOpen(s)' => CanOpen(s) \/ Removed(t) = Removed(s)
    BY <2>2
  <2>6. Removed(t) \in Message /\ ~Reports(Removed(t), s)
    BY <1>3, <1>4
  <2> QED
    BY <1>2, <2>1, <2>4, <2>5, <2>6, PostRising
<1>10. ASSUME NEW t \in SrcRefs, NEW d \in Dir, KernelTraffic(t, d)
       PROVE  Rising(s)' /\ Parted(s)'
  <2>1. /\ UNCHANGED <<stream, status, query>>
        /\ counter' = [counter EXCEPT ![t][d] = @ + 1]
    BY <1>10 DEF KernelTraffic
  <2>2. CanOpen(s)' <=> CanOpen(s)
    BY <2>1 DEF CanOpen
  <2>3. counter[s] \in E!Counts
    BY <1>1 DEF StreamType
  <2>4. \A e \in Dir : counter[s][e] \in Nat
    BY <2>3, MonitorAssumption DEF E!Counts, E!Bytes
  <2>5. \A e \in Dir : counter'[s][e] = counter[s][e] \/ counter'[s][e] = counter[s][e] + 1
    BY <1>1, <2>1, <2>3 DEF StreamType, E!Counts
  <2>6. \A e \in Dir : counter[s][e] <= counter'[s][e]
    BY <2>4, <2>5
  <2> QED
    BY <1>1, <1>2, <1>6, <2>1, <2>2, <2>6, StillRising
<1>11. CASE KernelDescribe
  <2> DEFINE t == Head(asked)
  <2>1. /\ asked # <<>> /\ UNCHANGED <<status, counter, query>>
        /\ Post(IF t \in Live THEN Desc(t) ELSE Error(ENOENT))
    BY <1>11 DEF KernelDescribe
  <2> HIDE DEF t
  <2>2. \E m \in Message : Post(m) /\ ~Reports(m, s)
    <3>1. CASE t \in Live
      BY <1>3, <1>4, <2>1, <3>1 DEF Live
    <3>2. CASE t \notin Live
      BY <1>3, <1>5, <2>1, <3>2
    <3> QED
      BY <3>1, <3>2
  <2> QED
    BY <1>7, <2>1, <2>2
<1>12. CASE KernelDropsDesc
  BY <1>3, <1>5, <1>7, <1>12 DEF KernelDropsDesc
<1>13. ASSUME NEW t \in SrcRefs, KernelReport(t)
       PROVE  Rising(s)' /\ Parted(s)'
  <2>1. Post(Counted(t)) /\ t \in query /\ query' \subseteq query /\ UNCHANGED <<status, counter>>
    BY <1>13 DEF KernelReport
  <2> QED
    BY <1>3, <1>4, <1>6, <1>7, <2>1
<1>14. ASSUME NEW t \in SrcRefs, KernelDropsCounts(t)
       PROVE  Rising(s)' /\ Parted(s)'
  BY <1>3, <1>5, <1>7, <1>14 DEF KernelDropsCounts
<1>15. ASSUME NEW t \in SrcRefs, NEW p \in Pids \cup {E!NoDesc}, KernelUpdate(t, p)
       PROVE  Rising(s)' /\ Parted(s)'
  <2>1. /\ Post(Update(t, p)) /\ UNCHANGED <<status, counter, query>>
        /\ status[t] = "live" /\ p \in {E!NoDesc, OwnerOf[t]}
    BY <1>15 DEF KernelUpdate
  <2>2. Update(t, p) \in Message
    BY <1>4, <2>1
  <2>3. t = s => ~CanOpen(s)
    BY <2>1 DEF CanOpen
  <2> QED
    BY <1>3, <1>7, <2>1, <2>2, <2>3
<1> QED
  BY <1>8, <1>9, <1>10, <1>11, <1>12, <1>13, <1>14, <1>15 DEF Kernel

\* No step of the client or the kernel makes a tracked counter run backwards or
\* hands a described flow to another process.
LEMMA StepSteady ==
  ASSUME CountInv, TableInv', [Next]_vars
  PROVE  [EP!Next]_(EP!vars) /\ EP!Steady
<1> USE DEF engineVars, clientVars, kernelVars
<1>1. TableInv /\ E!TypeOK /\ OwnerInv /\ flows \in [DOMAIN flows -> E!Flow] /\ StreamType
  BY DEF CountInv, TableInv, TypeOK, E!TypeOK, FlowInv
<1>2. \A s \in DOMAIN flows : \A d \in Dir : flows[s].bytes[d] <= flows[s].bytes[d]
  <2> SUFFICES ASSUME NEW s \in DOMAIN flows, NEW d \in Dir
               PROVE  flows[s].bytes[d] <= flows[s].bytes[d]
    OBVIOUS
  <2>1. flows[s].bytes \in [Dir -> 0..MaxBytes]
    BY <1>1 DEF E!Flow, E!Counts, E!Bytes
  <2>2. flows[s].bytes[d] \in 0..MaxBytes /\ MaxBytes \in Nat
    BY <2>1, MonitorAssumption
  <2> QED
    BY <2>2
<1>3. CASE Receive
  <2> DEFINE m == Head(stream)
  <2>1. m \in Message /\ Apply(m)
    BY <1>1, <1>3, HeadTailProperties DEF Receive, StreamType
  <2> HIDE DEF m
  <2>2. [EP!Next]_(EP!vars)
    BY <1>1, <2>1, ApplyTable
  <2>3. OwnerInv' /\ \A s \in DOMAIN flows \cap DOMAIN flows' : flows[s].described => flows'[s].described
    BY <1>1, <2>1, ApplyTable
  <2>4. DOMAIN flows \subseteq SrcRefs
    BY <1>1 DEF E!TypeOK
  <2>5. \A s \in DOMAIN flows \cap DOMAIN flows' : \A d \in Dir : flows[s].bytes[d] <= flows'[s].bytes[d]
    BY <1>1, <1>3, <2>4, ReceiveRising DEF CountInv
  <2>6. \A s \in DOMAIN flows \cap DOMAIN flows' : flows[s].described => flows'[s].pid = flows[s].pid
    BY <1>1, <2>3 DEF OwnerInv
  <2>7. \A s \in DOMAIN flows \cap DOMAIN flows' : \A d \in Dir : flows'[s].bytes[d] >= flows[s].bytes[d]
    BY <2>5
  <2> QED
    BY <2>2, <2>6, <2>7 DEF EP!Steady
<1>4. CASE (\E dt \in Spans : Tick(dt)) \/ Reprime
  <2>1. (\E dt \in Spans : E!Tick(dt)) \/ E!Reprime
    BY <1>4 DEF Tick, Reprime
  <2>2. /\ [EP!Next]_(EP!vars)
        /\ \A s \in DOMAIN flows : flows'[s].bytes = flows[s].bytes /\ flows'[s].pid = flows[s].pid
    BY <1>1, <2>1, SampleTable
  <2> QED
    BY <1>2, <2>2 DEF EP!Steady
<1>5. CASE UNCHANGED engineVars
  <2>1. [EP!Next]_(EP!vars)
    BY <1>5, EngineSteps
  <2> QED
    BY <1>2, <1>5, <2>1 DEF EP!Steady
<1>6. Receive \/ (\E dt \in Spans : Tick(dt)) \/ Reprime \/ UNCHANGED engineVars
  BY DEF Next, Kernel, KernelOpen, KernelClose, KernelTraffic, KernelDescribe, KernelDropsDesc,
         KernelReport, KernelDropsCounts, KernelUpdate, Client, StartDrain, WouldBlock, Pump,
         PollCounts, vars
<1> QED
  BY <1>3, <1>4, <1>5, <1>6

\* Counters only rise on their way to the flow table, whatever the step.
LEMMA StepCounts == CountInv /\ [Next]_vars => CountInv'
<1> SUFFICES ASSUME CountInv, [Next]_vars
             PROVE  CountInv'
  OBVIOUS
<1>1. TableInv /\ TableInv' /\ E!TypeOK /\ OwnerInv
  BY StepTable DEF CountInv, TableInv, TypeOK
<1> SUFFICES ASSUME NEW s \in SrcRefs
             PROVE  Rising(s)' /\ Parted(s)'
  BY <1>1 DEF CountInv
<1>2. Rising(s) /\ Parted(s)
  BY DEF CountInv
<1>3. counter \in [SrcRefs -> E!Counts] /\ \A d \in Dir : counter[s][d] <= counter[s][d]
  <2>1. counter \in [SrcRefs -> E!Counts]
    BY <1>1 DEF TableInv, FlowInv, StreamType
  <2>2. counter[s] \in [Dir -> 0..MaxBytes] /\ MaxBytes \in Nat
    BY <2>1, MonitorAssumption DEF E!Counts, E!Bytes
  <2>3. \A d \in Dir : counter[s][d] \in 0..MaxBytes
    BY <2>2
  <2> QED
    BY <2>1, <2>2, <2>3
<1>4. ASSUME UNCHANGED <<stream, status, counter>>, DOMAIN flows' = DOMAIN flows,
             \A r \in DOMAIN flows : flows'[r].bytes = flows[r].bytes,
             query' \subseteq query \cup Live
      PROVE  Rising(s)' /\ Parted(s)'
  <2>1. CanOpen(s)' <=> CanOpen(s)
    BY <1>4 DEF CanOpen
  <2>2. s \in query' => ~CanOpen(s)'
    BY <1>2, <1>4, <2>1 DEF Parted, Live, CanOpen
  <2> QED
    BY <1>1, <1>2, <1>3, <1>4, <2>1, <2>2, StillRising
<1>5. CASE (\E dt \in Spans : Tick(dt)) \/ Reprime
  <2>1. (\E dt \in Spans : E!Tick(dt)) \/ E!Reprime
    BY <1>5 DEF Tick, Reprime
  <2>2. UNCHANGED <<stream, status, counter, query>>
    BY <1>5 DEF Tick, Reprime, kernelVars
  <2>3. DOMAIN flows' = DOMAIN flows /\ \A r \in DOMAIN flows : flows'[r].bytes = flows[r].bytes
    BY <1>1, <2>1, SampleTable
  <2> QED
    BY <1>4, <2>2, <2>3
<1>6. CASE StartDrain \/ WouldBlock \/ Pump \/ PollCounts \/ UNCHANGED vars
  BY <1>4, <1>6 DEF StartDrain, WouldBlock, Pump, PollCounts, engineVars, clientVars, kernelVars, vars
<1> QED
  BY <1>1, <1>2, <1>5, <1>6, KernelRising, ReceiveRising DEF Next, Client

\* Nothing is counted at first.
LEMMA InitCounts == Init => CountInv /\ EP!Covered
<1> SUFFICES ASSUME Init
             PROVE  CountInv /\ EP!Covered
  OBVIOUS
<1>1. TableInv
  BY InitTable
<1>2. EP!Covered
  BY DEF Init, E!Init, EP!Covered
<1>3. Len(stream) = 0 /\ flows = <<>> /\ query = {}
  BY EmptySeq DEF Init, E!Init
<1>4. ASSUME NEW s \in SrcRefs
      PROVE  Rising(s) /\ Parted(s)
  <2>1. ~Reads(s, 0)
    BY <1>3 DEF Reads
  <2>2. \A j, k \in 0..(Len(stream) + 1) : j < k => j = 0
    BY <1>3
  <2>3. Parted(s)
    BY <1>3 DEF Parted
  <2> QED
    BY <2>1, <2>2, <2>3 DEF Rising
<1> QED
  BY <1>1, <1>2, <1>4 DEF CountInv

\* TOTAL never goes down on screen: for any number of sources, any counter width
\* and any order of the kernel's replies, the counters the client applies only
\* rise while a flow lives, a close hands them to the carry, and the carry stays
\* as long as its row (Monitor::drain, Engine::tick).
THEOREM TotalsNeverDrop == Spec => TotalNeverDrops
<1> DEFINE Held == \A p \in DOMAIN rows \cap DOMAIN rows' : \A d \in Dir :
                     rows'[p].total[d] >= rows[p].total[d]
           Inv == CountInv /\ EP!Covered
<1>1. ASSUME Inv, [Next]_vars
      PROVE  Inv' /\ Held
  <2>1. CountInv' /\ TableInv /\ TableInv'
    BY <1>1, StepCounts DEF CountInv
  <2>2. EP!TypeOK /\ EP!TypeOK'
    BY <2>1, SameTypes DEF TableInv, TypeOK
  <2>3. [EP!Next]_(EP!vars) /\ EP!Steady
    BY <1>1, <2>1, StepSteady
  <2>4. EP!Covered' /\ Held
    BY <1>1, <2>2, <2>3, EngineAssumptions, EP!ShownTotals
  <2> QED
    BY <2>1, <2>4
<1>2. Init => Inv
  BY InitCounts
<1>3. Inv /\ [Next]_vars => Inv'
  BY <1>1
<1>4. Inv /\ [Next]_vars => [Held]_rows
  BY <1>1
<1>5. Spec => [][Held]_rows
  BY <1>2, <1>3, <1>4, PTL DEF Spec
<1> QED
  BY <1>5 DEF TotalNeverDrops
=============================================================================
