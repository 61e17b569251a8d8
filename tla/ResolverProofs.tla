--------------------------- MODULE ResolverProofs ---------------------------
(***************************************************************************)
(* What holds of the lookups in flight and of the cache for every set of   *)
(* hosts, every pool of workers, however large, and every bound.           *)
(***************************************************************************)
EXTENDS Resolver, SequenceTheorems, FiniteSetTheorems, TLAPS

Holding == {w \in Workers : Held(w) # {}}

Places == {"idle", "receiving", "resolving", "resolved", "cached", "stopped"}

\* The variables that lookups in flight are about.
FlightType ==
  /\ inflight \subseteq Hosts /\ queue \in Seq(Hosts)
  /\ worker \in [Workers -> [at : Places, host : Hosts \cup {NoHost}]]
  /\ \A w \in Workers : worker[w].at \in {"idle", "receiving", "stopped"} => worker[w].host = NoHost
  /\ \A w \in Workers : worker[w].at \in {"resolving", "resolved", "cached"} => worker[w].host # NoHost
  /\ todo \subseteq Hosts
  /\ ui.at = "missed" => ui.host \in Hosts

\* No host is in two places.
OnePlace ==
  /\ \A i, j \in 1..Len(queue) : queue[i] = queue[j] => i = j
  /\ \A w \in Workers, i \in 1..Len(queue) : queue[i] # worker[w].host
  /\ \A v, w \in Workers :
       worker[v].host = worker[w].host /\ worker[v].host # NoHost => v = w

\* The set and the places agree, in their members and in their number.
Counted ==
  /\ inflight = ToSet(queue) \cup UNION {Held(w) : w \in Workers}
  /\ IsFiniteSet(inflight) /\ IsFiniteSet(Holding)
  /\ Cardinality(inflight) = Len(queue) + Cardinality(Holding)
  /\ Cardinality(inflight) <= MaxInflight

FlightInv == FlightType /\ OnePlace /\ Counted

----------------------------------------------------------------------------
\* Before the first frame nothing is in flight.
LEMMA InitFlight == Init => FlightInv
<1> SUFFICES ASSUME Init
             PROVE  FlightInv
  OBVIOUS
<1>1. <<>> \in Seq(Hosts) /\ Len(<<>>) = 0 /\ ToSet(<<>>) = {}
  BY EmptySeq DEF ToSet
<1>2. FlightType
  BY <1>1 DEF Init, FlightType, Idle, Places
<1>3. OnePlace
  BY <1>1 DEF Init, OnePlace, Idle
<1>4. \A w \in Workers : Held(w) = {}
  BY DEF Init, Held, Idle
<1>5. Holding = {} /\ UNION {Held(w) : w \in Workers} = {}
  BY <1>4 DEF Holding
<1>6. IsFiniteSet({}) /\ Cardinality({}) = 0
  BY FS_EmptySet
<1>7. Counted
  BY <1>1, <1>5, <1>6, ResolverAssumption DEF Init, Counted
<1> QED
  BY <1>2, <1>3, <1>7 DEF FlightInv

\* The steps that move no host: of the UI, and of workers that keep what they hold.
LEMMA StillFlight ==
  ASSUME FlightInv, FlightType', inflight' = inflight, queue' = queue,
         \A w \in Workers : worker'[w].host = worker[w].host
  PROVE  FlightInv'
<1>1. \A w \in Workers : Held(w)' = Held(w)
  BY DEF Held
<1>2. Holding' = Holding /\ UNION {Held(w)' : w \in Workers} = UNION {Held(w) : w \in Workers}
  BY <1>1 DEF Holding
<1>3. Counted'
  BY <1>2 DEF FlightInv, Counted
<1>4. OnePlace'
  BY DEF FlightInv, OnePlace
<1> QED
  BY <1>3, <1>4 DEF FlightInv

\* A worker goes on with the host it holds, or with none.
LEMMA KeepHost ==
  ASSUME FlightInv, NEW w \in Workers, NEW from, NEW to, Step(w, from, to),
         to \in [at : Places, host : {worker[w].host}],
         to.at \in {"idle", "receiving", "stopped"} <=> to.host = NoHost,
         UNCHANGED <<inflight, queue, ui, todo>>
  PROVE  FlightInv'
<1>1. worker' = [worker EXCEPT ![w] = to]
  BY DEF Step
<1>2. \A v \in Workers : worker'[v].host = worker[v].host
  BY <1>1 DEF FlightInv, FlightType
<1>3. FlightType'
  BY <1>1 DEF FlightInv, FlightType, Places
<1> QED
  BY <1>2, <1>3, StillFlight

\* A host is scheduled: it joins the set and the channel, if it is not in flight
\* and the set is not full (lookup, under the inflight lock).
LEMMA ScheduleFlight == FlightInv /\ Schedule => FlightInv'
<1> SUFFICES ASSUME FlightInv, Schedule
             PROVE  FlightInv'
  OBVIOUS
<1> DEFINE h == ui.host
<1>1. FlightType /\ OnePlace /\ Counted /\ h \in Hosts /\ worker' = worker /\ todo' = todo
  BY DEF FlightInv, FlightType, Schedule
<1>2. ui' = At("drawing", NoHost) /\ ui'.at # "missed"
  BY DEF Schedule, At
<1>3. CASE ~MaySchedule(h)
  <2>1. inflight' = inflight /\ queue' = queue
    BY <1>3 DEF Schedule
  <2>2. FlightType'
    BY <1>1, <1>2, <2>1 DEF FlightType
  <2> QED
    BY <1>1, <2>1, <2>2, StillFlight
<1>4. CASE MaySchedule(h)
  <2>1. /\ inflight' = inflight \cup {h} /\ queue' = Append(queue, h)
        /\ Cardinality(inflight) < MaxInflight /\ h \notin inflight
    BY <1>4 DEF Schedule, MaySchedule
  <2>2. /\ queue' \in Seq(Hosts) /\ Len(queue') = Len(queue) + 1 /\ Len(queue) \in Nat
        /\ \A i \in 1..Len(queue) : queue'[i] = queue[i]
        /\ queue'[Len(queue) + 1] = h
    BY <1>1, <2>1, AppendProperties, LenProperties DEF FlightType
  <2>3. ToSet(queue') = ToSet(queue) \cup {h}
    <3>1. DOMAIN queue' = 1..(Len(queue) + 1) /\ DOMAIN queue = 1..Len(queue)
      BY <1>1, <2>2, LenProperties DEF FlightType
    <3> QED
      BY <2>2, <3>1 DEF ToSet
  <2>4. FlightType'
    BY <1>1, <1>2, <2>1, <2>2 DEF FlightType
  <2>5. (\A i \in 1..Len(queue) : queue[i] # h) /\ (\A w \in Workers : worker[w].host # h)
    <3>1. \A i \in 1..Len(queue) : queue[i] \in ToSet(queue)
      BY <1>1, LenProperties DEF FlightType, ToSet
    <3>2. \A w \in Workers : worker[w].host = h => h \in Held(w)
      BY <1>1, ResolverAssumption DEF Held
    <3> QED
      BY <1>1, <2>1, <3>1, <3>2 DEF Counted
  <2>6. OnePlace'
    BY <1>1, <2>2, <2>5 DEF OnePlace
  <2>7. \A w \in Workers : Held(w)' = Held(w)
    BY <1>1 DEF Held
  <2>8. Holding' = Holding /\ UNION {Held(w)' : w \in Workers} = UNION {Held(w) : w \in Workers}
    BY <2>7 DEF Holding
  <2>9. IsFiniteSet(inflight') /\ Cardinality(inflight') = Cardinality(inflight) + 1
    BY <1>1, <2>1, FS_AddElement DEF Counted
  <2>10. Cardinality(inflight) \in Nat /\ Cardinality(Holding) \in Nat
    BY <1>1, FS_CardinalityType DEF Counted
  <2>11. Counted'
    BY <1>1, <2>1, <2>2, <2>3, <2>8, <2>9, <2>10, ResolverAssumption DEF Counted
  <2> QED
    BY <2>4, <2>6, <2>11 DEF FlightInv
<1> QED
  BY <1>3, <1>4

\* A worker takes the first host of the channel, which it is then the only one to
\* hold (recv under the receiver's lock).
LEMMA ReceiveFlight ==
  ASSUME FlightInv, NEW w \in Workers, Receive(w)
  PROVE  FlightInv'
<1> DEFINE h == Head(queue)
<1>1. FlightType /\ OnePlace /\ Counted /\ worker[w].at = "receiving"
  BY DEF FlightInv, Receive, Step
<1>2. /\ queue # <<>> /\ queue' = Tail(queue) /\ UNCHANGED <<inflight, ui, todo>>
      /\ worker' = [worker EXCEPT ![w] = At("resolving", h)]
  BY DEF Receive, Step, uiVars
<1>3. /\ h \in Hosts /\ h = queue[1] /\ Tail(queue) \in Seq(Hosts)
      /\ Len(queue) \in Nat \ {0} /\ Len(Tail(queue)) = Len(queue) - 1
      /\ \A i \in 1..Len(Tail(queue)) : Tail(queue)[i] = queue[i + 1]
  BY <1>1, <1>2, HeadTailProperties, LenProperties DEF FlightType
<1>4. ToSet(queue) = ToSet(Tail(queue)) \cup {h}
  <2>1. DOMAIN queue = 1..Len(queue) /\ DOMAIN Tail(queue) = 1..(Len(queue) - 1)
    BY <1>1, <1>3, LenProperties DEF FlightType
  <2>2. \A i \in 1..Len(queue) : i = 1 \/ (i - 1 \in 1..(Len(queue) - 1) /\ queue[i] = Tail(queue)[i - 1])
    <3> SUFFICES ASSUME NEW i \in 1..Len(queue), i # 1
                 PROVE  i - 1 \in 1..(Len(queue) - 1) /\ queue[i] = Tail(queue)[i - 1]
      OBVIOUS
    <3>1. i - 1 \in 1..(Len(queue) - 1) /\ (i - 1) + 1 = i
      BY <1>3
    <3> QED
      BY <1>3, <3>1
  <2>3. ToSet(queue) \subseteq ToSet(Tail(queue)) \cup {h}
    <3> SUFFICES ASSUME NEW i \in 1..Len(queue)
                 PROVE  queue[i] \in ToSet(Tail(queue)) \cup {h}
      BY <2>1 DEF ToSet
    <3>1. \A j \in 1..(Len(queue) - 1) : Tail(queue)[j] \in ToSet(Tail(queue))
      BY <2>1 DEF ToSet
    <3> QED
      BY <1>3, <2>2, <3>1
  <2>4. ToSet(Tail(queue)) \cup {h} \subseteq ToSet(queue)
    BY <1>3, <2>1 DEF ToSet
  <2> QED
    BY <2>3, <2>4
<1>5. /\ worker'[w].host = h /\ worker'[w].at = "resolving"
      /\ \A v \in Workers \ {w} : worker'[v] = worker[v]
      /\ worker' \in [Workers -> [at : Places, host : Hosts \cup {NoHost}]]
  BY <1>1, <1>2, <1>3 DEF FlightType, At, Places
<1>6. worker[w].host = NoHost /\ h # NoHost
  BY <1>1, <1>3, ResolverAssumption DEF FlightType
<1> HIDE DEF h
<1>7. FlightType'
  BY <1>1, <1>2, <1>3, <1>5, <1>6 DEF FlightType
<1>8. OnePlace'
  <2>1. \A i \in 1..Len(queue') : i + 1 \in 1..Len(queue) /\ queue'[i] = queue[i + 1]
    BY <1>2, <1>3
  <2>2. \A i, j \in 1..Len(queue') : queue'[i] = queue'[j] => i = j
    <3> SUFFICES ASSUME NEW i \in 1..Len(queue'), NEW j \in 1..Len(queue'), queue'[i] = queue'[j]
                 PROVE  i = j
      OBVIOUS
    <3>1. i + 1 = j + 1
      BY <1>1, <2>1 DEF OnePlace
    <3> QED
      BY <1>2, <1>3, <3>1
  <2>3. \A v \in Workers, i \in 1..Len(queue') : queue'[i] # worker'[v].host
    <3>1. \A i \in 1..Len(queue') : queue'[i] # h
      <4> SUFFICES ASSUME NEW i \in 1..Len(queue')
                   PROVE  queue[i + 1] # queue[1]
        BY <1>3, <2>1
      <4>1. 1 \in 1..Len(queue) /\ i + 1 # 1 /\ i + 1 \in 1..Len(queue)
        BY <1>2, <1>3
      <4> QED
        BY <1>1, <4>1 DEF OnePlace
    <3> QED
      BY <1>1, <1>5, <2>1, <3>1 DEF OnePlace
  <2>4. \A v \in Workers : worker[v].host # h
    <3>1. 1 \in 1..Len(queue)
      BY <1>3
    <3> QED
      BY <1>1, <1>3, <3>1 DEF OnePlace
  <2>5. \A u, v \in Workers :
          worker'[u].host = worker'[v].host /\ worker'[u].host # NoHost => u = v
    BY <1>1, <1>5, <2>4 DEF OnePlace
  <2> QED
    BY <2>2, <2>3, <2>5 DEF OnePlace
<1>9. Counted'
  <2>1. Held(w) = {} /\ Held(w)' = {h} /\ \A v \in Workers \ {w} : Held(v)' = Held(v)
    BY <1>5, <1>6 DEF Held
  <2>2. Holding' = Holding \cup {w} /\ w \notin Holding
    BY <2>1 DEF Holding
  <2>3. UNION {Held(v)' : v \in Workers} = (UNION {Held(v) : v \in Workers}) \cup {h}
    <3>1. ASSUME NEW x
          PROVE  (\E v \in Workers : x \in Held(v)') <=> ((\E v \in Workers : x \in Held(v)) \/ x = h)
      BY <2>1
    <3> QED
      BY <3>1
  <2>4. IsFiniteSet(Holding') /\ Cardinality(Holding') = Cardinality(Holding) + 1
    BY <1>1, <2>2, FS_AddElement DEF Counted
  <2>5. Cardinality(Holding) \in Nat
    BY <1>1, FS_CardinalityType DEF Counted
  <2>6. inflight' = ToSet(queue') \cup UNION {Held(v)' : v \in Workers}
    <3> DEFINE U == UNION {Held(v) : v \in Workers}
    <3>1. inflight = ToSet(queue) \cup U
      BY <1>1 DEF Counted
    <3>2. UNION {Held(v)' : v \in Workers} = U \cup {h}
      BY <2>3
    <3> HIDE DEF U
    <3> QED
      BY <1>2, <1>4, <3>1, <3>2
  <2>7. Cardinality(inflight') = Len(queue') + Cardinality(Holding')
    BY <1>1, <1>2, <1>3, <2>4, <2>5 DEF Counted
  <2> QED
    BY <1>1, <1>2, <2>4, <2>6, <2>7 DEF Counted
<1> QED
  BY <1>7, <1>8, <1>9 DEF FlightInv

\* A worker that is done with its host takes it out of the set, where no one else
\* has it.
LEMMA ClearFlight ==
  ASSUME FlightInv, NEW w \in Workers, Clear(w)
  PROVE  FlightInv'
<1> DEFINE h == worker[w].host
<1>1. FlightType /\ OnePlace /\ Counted /\ worker[w].at = "cached"
  BY DEF FlightInv, Clear, Step
<1>2. /\ inflight' = inflight \ {h} /\ UNCHANGED <<queue, ui, todo>>
      /\ worker' = [worker EXCEPT ![w] = Idle]
  BY DEF Clear, Step, uiVars
<1>3. h \in Hosts /\ h # NoHost
  BY <1>1 DEF FlightType
<1>4. /\ worker'[w] = Idle /\ \A v \in Workers \ {w} : worker'[v] = worker[v]
      /\ worker' \in [Workers -> [at : Places, host : Hosts \cup {NoHost}]]
  BY <1>1, <1>2 DEF FlightType, Idle, Places
<1>5. Idle.host = NoHost /\ Idle.at = "idle"
  BY DEF Idle
<1>6. FlightType'
  BY <1>1, <1>2, <1>4, <1>5 DEF FlightType
<1>7. OnePlace'
  <2>1. \A i \in 1..Len(queue) : queue[i] # NoHost
    BY <1>1, ElementOfSeq, ResolverAssumption DEF FlightType
  <2> QED
    BY <1>1, <1>2, <1>4, <1>5, <2>1 DEF OnePlace
<1>8. Counted'
  <2>1. Held(w) = {h} /\ Held(w)' = {} /\ \A v \in Workers \ {w} : Held(v)' = Held(v)
    BY <1>3, <1>4, <1>5 DEF Held
  <2>2. \A v \in Workers \ {w} : h \notin Held(v)
    BY <1>1, <1>3 DEF OnePlace, Held
  <2>3. h \notin ToSet(queue)
    BY <1>1, LenProperties DEF OnePlace, FlightType, ToSet
  <2>4. Holding' = Holding \ {w} /\ w \in Holding
    BY <2>1 DEF Holding
  <2>5. UNION {Held(v)' : v \in Workers} = (UNION {Held(v) : v \in Workers}) \ {h}
    BY <2>1, <2>2
  <2>6. h \in inflight
    BY <1>1, <2>1 DEF Counted
  <2>7. /\ IsFiniteSet(Holding') /\ Cardinality(Holding') = Cardinality(Holding) - 1
        /\ IsFiniteSet(inflight') /\ Cardinality(inflight') = Cardinality(inflight) - 1
    BY <1>1, <1>2, <2>4, <2>6, FS_RemoveElement DEF Counted
  <2>8. Cardinality(Holding) \in Nat /\ Cardinality(inflight) \in Nat /\ Len(queue) \in Nat
    BY <1>1, FS_CardinalityType, LenProperties DEF Counted, FlightType
  <2>9. inflight' = ToSet(queue') \cup UNION {Held(v)' : v \in Workers}
    BY <1>1, <1>2, <2>3, <2>5 DEF Counted
  <2>10. Len(queue') = Len(queue) /\ Cardinality(inflight') = Len(queue') + Cardinality(Holding')
    BY <1>1, <1>2, <2>7, <2>8 DEF Counted
  <2>11. Cardinality(inflight') <= MaxInflight
    BY <1>1, <2>7, <2>8, ResolverAssumption DEF Counted
  <2> QED
    BY <2>7, <2>9, <2>10, <2>11 DEF Counted
<1> QED
  BY <1>6, <1>7, <1>8 DEF FlightInv

\* Every step of the UI and of the pool keeps the invariant.
LEMMA StepFlight == FlightInv /\ [Next]_vars => FlightInv'
<1> SUFFICES ASSUME FlightInv, [Next]_vars
             PROVE  FlightInv'
  OBVIOUS
<1>1. FlightType
  BY DEF FlightInv
<1>2. ASSUME NEW v \in Views, BeginFrame(v)
      PROVE  FlightInv'
  <2>1. FlightType' /\ UNCHANGED poolVars
    BY <1>1, <1>2 DEF BeginFrame, FlightType, At, Views, poolVars
  <2> QED
    BY <2>1, StillFlight DEF poolVars
<1>3. ASSUME NEW h \in Hosts, LookupHit(h)
      PROVE  FlightInv'
  <2>1. UNCHANGED <<inflight, queue, worker, ui>> /\ todo' = todo \ {h}
    BY <1>3 DEF LookupHit
  <2>2. FlightType'
    BY <1>1, <2>1 DEF FlightType
  <2> QED
    BY <2>1, <2>2, StillFlight
<1>4. ASSUME NEW h \in Hosts, LookupMiss(h)
      PROVE  FlightInv'
  <2>1. UNCHANGED <<inflight, queue, worker>> /\ todo' = todo \ {h} /\ ui' = At("missed", h)
    BY <1>4 DEF LookupMiss, poolVars
  <2>2. FlightType'
    BY <1>1, <2>1 DEF FlightType, At
  <2> QED
    BY <2>1, <2>2, StillFlight
<1>5. CASE Schedule
  BY <1>5, ScheduleFlight
<1>6. CASE FinishFrame
  <2>1. UNCHANGED <<inflight, queue, worker, todo>> /\ ui' = Idle
    BY <1>6 DEF FinishFrame, poolVars
  <2>2. FlightType'
    BY <1>1, <2>1 DEF FlightType, Idle
  <2> QED
    BY <2>1, <2>2, StillFlight
<1>7. CASE Drop \/ UNCHANGED vars
  <2>1. UNCHANGED <<inflight, queue, worker, todo, ui>>
    BY <1>7 DEF Drop, vars, poolVars, uiVars
  <2>2. FlightType'
    BY <1>1, <2>1 DEF FlightType
  <2> QED
    BY <2>1, <2>2, StillFlight
<1>8. ASSUME NEW w \in Workers, Worker(w)
      PROVE  FlightInv'
  <2>1. CASE LockReceiver(w)
    <3>1. worker[w].host = NoHost /\ UNCHANGED <<inflight, queue, ui, todo>>
      BY <1>1, <2>1 DEF LockReceiver, Step, FlightType, uiVars
    <3>2. Step(w, "idle", At("receiving", NoHost))
      BY <2>1 DEF LockReceiver
    <3> QED
      BY <3>1, <3>2, KeepHost DEF At, Places
  <2>2. CASE Stop(w)
    <3>1. worker[w].host = NoHost /\ UNCHANGED <<inflight, queue, ui, todo>>
      BY <1>1, <2>2 DEF Stop, Step, FlightType, uiVars
    <3>2. Step(w, "receiving", At("stopped", NoHost))
      BY <2>2 DEF Stop
    <3> QED
      BY <3>1, <3>2, KeepHost DEF At, Places
  <2>3. CASE Resolve(w)
    <3>1. worker[w].host # NoHost /\ UNCHANGED <<inflight, queue, ui, todo>>
      BY <1>1, <2>3 DEF Resolve, Step, FlightType, uiVars
    <3>2. Step(w, "resolving", At("resolved", worker[w].host))
      BY <2>3 DEF Resolve
    <3> QED
      BY <3>1, <3>2, KeepHost DEF At, Places
  <2>4. CASE Put(w)
    <3>1. worker[w].host # NoHost /\ UNCHANGED <<inflight, queue, ui, todo>>
      BY <1>1, <2>4 DEF Put, Step, FlightType, uiVars
    <3>2. Step(w, "resolved", At("cached", worker[w].host))
      BY <2>4 DEF Put
    <3> QED
      BY <3>1, <3>2, KeepHost DEF At, Places
  <2>5. CASE Receive(w)
    BY <2>5, ReceiveFlight
  <2>6. CASE Clear(w)
    BY <2>6, ClearFlight
  <2> QED
    BY <1>8, <2>1, <2>2, <2>3, <2>4, <2>5, <2>6 DEF Worker
<1> QED
  BY <1>2, <1>3, <1>4, <1>5, <1>6, <1>7, <1>8 DEF Next, UI

\* The lookups in flight are where the set says, all the time.
LEMMA FlightAlways == Spec => []FlightInv
<1> QED
  BY InitFlight, StepFlight, PTL DEF Spec

\* A host in flight is in the channel or in one worker's hands, never in both or in
\* two, and nothing else is: no lookup is lost or run twice at a time
\* (the in-flight set of Resolver::lookup and the workers).
THEOREM InflightAlwaysHeld == Spec => []InflightIsHeld
<1>1. FlightInv => InflightIsHeld
  BY DEF FlightInv, Counted, InflightIsHeld, Holding
<1> QED
  BY <1>1, FlightAlways, PTL

\* The set and the channel are bounded by MAX_INFLIGHT, however many hosts the UI
\* scrolls past and however many workers hang.
THEOREM FlightIsBounded ==
  Spec => [](Cardinality(inflight) <= MaxInflight /\ Len(queue) <= MaxInflight)
<1>1. FlightInv => Cardinality(inflight) <= MaxInflight /\ Len(queue) <= MaxInflight
  <2> SUFFICES ASSUME FlightInv
               PROVE  Cardinality(inflight) <= MaxInflight /\ Len(queue) <= MaxInflight
    OBVIOUS
  <2>1. Cardinality(Holding) \in Nat /\ Len(queue) \in Nat
    BY FS_CardinalityType, LenProperties DEF FlightInv, Counted, FlightType
  <2> QED
    BY <2>1, ResolverAssumption DEF FlightInv, Counted
<1> QED
  BY <1>1, FlightAlways, PTL
----------------------------------------------------------------------------
(* The order of the cache.                                                 *)

\* k is more recently used than g.
After(c, g, k) == \E i, j \in 1..Len(c) : i < j /\ c[i] = g /\ c[j] = k

\* Everything more recently used than a host of D is in V or one of a few hosts
\* more, as is everything f may still bring in.
Sheltered(c, f, V, D) ==
  \E A \in SUBSET Hosts :
    /\ IsFiniteSet(A) /\ Cardinality(A) <= MaxInflight
    /\ f \subseteq A \cup V
    /\ \A g \in D, k \in Hosts : After(c, g, k) => k \in A \cup V

CacheType == cache \in Seq(Hosts) /\ IsInjective(cache) /\ Len(cache) <= Capacity

Shown(V) == V \subseteq Hosts /\ IsFiniteSet(V) /\ Cardinality(V) <= MaxShown

ViewType ==
  /\ Shown(view) /\ Shown(screen) /\ todo \subseteq view
  /\ ui.at = "idle" => todo = {} /\ screen = view
  /\ ui.at = "missed" => ui.host \in view

ScreenInv ==
  /\ CacheType /\ ViewType
  /\ Sheltered(cache, inflight, view, view \ todo)
  /\ Sheltered(cache, inflight, screen \cup view, screen)

----------------------------------------------------------------------------
\* Taking out one of a sequence's elements, the index of which is known.
LEMMA RemoveAtProperties ==
  ASSUME NEW S, NEW c \in Seq(S), NEW n \in 1..Len(c)
  PROVE  /\ RemoveAt(c, n) \in Seq(S)
         /\ Len(RemoveAt(c, n)) = Len(c) - 1
         /\ \A i \in 1..(Len(c) - 1) : RemoveAt(c, n)[i] = IF i < n THEN c[i] ELSE c[i + 1]
<1> DEFINE p == SubSeq(c, 1, n - 1)
           q == SubSeq(c, n + 1, Len(c))
<1>1. Len(c) \in Nat /\ \A i \in 1..Len(c) : c[i] \in S
  BY LenProperties, ElementOfSeq
<1>2. p \in Seq(S) /\ Len(p) = n - 1 /\ \A i \in 1..(n - 1) : p[i] = c[i]
  <2>1. /\ p \in Seq(S) /\ Len(p) = IF 1 <= n - 1 THEN (n - 1) - 1 + 1 ELSE 0
        /\ \A i \in 1..((n - 1) - 1 + 1) : p[i] = c[1 + i - 1]
    BY <1>1, SubSeqProperties
  <2> HIDE DEF p
  <2> QED
    BY <1>1, <2>1
<1>3. q \in Seq(S) /\ Len(q) = Len(c) - n /\ \A i \in 1..(Len(c) - n) : q[i] = c[n + i]
  <2>1. /\ q \in Seq(S) /\ Len(q) = IF n + 1 <= Len(c) THEN Len(c) - (n + 1) + 1 ELSE 0
        /\ \A i \in 1..(Len(c) - (n + 1) + 1) : q[i] = c[(n + 1) + i - 1]
    BY <1>1, SubSeqProperties
  <2> HIDE DEF q
  <2>2. \A i \in 1..(Len(c) - n) : i \in 1..(Len(c) - (n + 1) + 1) /\ (n + 1) + i - 1 = n + i
    BY <1>1
  <2>3. \A i \in 1..(Len(c) - n) : q[i] = c[n + i]
    BY <2>1, <2>2
  <2> QED
    BY <1>1, <2>1, <2>3
<1> HIDE DEF p, q
<1>4. /\ p \o q \in Seq(S) /\ Len(p \o q) = Len(p) + Len(q)
      /\ \A i \in 1..(Len(p) + Len(q)) :
           (p \o q)[i] = IF i <= Len(p) THEN p[i] ELSE q[i - Len(p)]
  BY <1>2, <1>3, ConcatProperties
<1>5. Len(p) + Len(q) = Len(c) - 1
  BY <1>1, <1>2, <1>3
<1>6. ASSUME NEW i \in 1..(Len(c) - 1)
      PROVE  (p \o q)[i] = IF i < n THEN c[i] ELSE c[i + 1]
  <2>1. CASE i < n
    BY <1>1, <1>2, <1>4, <1>5, <2>1
  <2>2. CASE ~(i < n)
    <3>1. i - (n - 1) \in 1..(Len(c) - n) /\ n + (i - (n - 1)) = i + 1
      BY <1>1, <2>2
    <3>2. (p \o q)[i] = q[i - (n - 1)]
      BY <1>1, <1>2, <1>4, <1>5, <2>2
    <3> QED
      BY <1>3, <2>2, <3>1, <3>2
  <2> QED
    BY <2>1, <2>2
<1> QED
  BY <1>4, <1>5, <1>6 DEF RemoveAt, p, q

\* A host that is not cached leaves nothing to remove; one that is, is at one place.
LEMMA RemoveFirstIsAt ==
  ASSUME NEW S, NEW c \in Seq(S), IsInjective(c), NEW n \in 1..Len(c)
  PROVE  RemoveFirst(c, c[n]) = RemoveAt(c, n)
<1>1. Len(c) \in Nat /\ DOMAIN c = 1..Len(c)
  BY LenProperties
<1>2. {i \in 1..Len(c) : c[i] = c[n]} = {n}
  BY <1>1 DEF IsInjective
<1>3. Min({n}) = n
  BY <1>1 DEF Min
<1>4. SelectInSeq(c, LAMBDA v : v = c[n]) = n
  BY <1>2, <1>3 DEF SelectInSeq
<1> QED
  BY <1>4 DEF RemoveFirst

\* A used host goes to the end of the cache and leaves the order of the others as it
\* was (LruCache::get, and put of a host that is cached or fits).
LEMMA NewestProperties ==
  ASSUME NEW c \in Seq(Hosts), IsInjective(c), NEW h \in Hosts
  PROVE  LET n == Newest(c, h)
         IN  /\ n \in Seq(Hosts) /\ IsInjective(n)
             /\ Len(n) = IF Contains(c, h) THEN Len(c) ELSE Len(c) + 1
             /\ Contains(n, h) /\ \A g : Contains(c, g) => Contains(n, g)
             /\ \A g, k : After(n, g, k) => g # h /\ (k = h \/ After(c, g, k))
<1> DEFINE r == RemoveFirst(c, h)
           n == Newest(c, h)
<1>1. Len(c) \in Nat /\ DOMAIN c = 1..Len(c)
  BY LenProperties
<1>2. /\ r \in Seq(Hosts) /\ IsInjective(r)
      /\ Len(r) = IF Contains(c, h) THEN Len(c) - 1 ELSE Len(c)
      /\ \A i \in 1..Len(r) : r[i] # h
      /\ \A g : Contains(c, g) /\ g # h => Contains(r, g)
      /\ \A i, j \in 1..Len(r) : i < j => After(c, r[i], r[j])
  <2>1. CASE ~Contains(c, h)
    <3>1. r = c
      BY <2>1 DEF RemoveFirst, Contains
    <3> HIDE DEF r
    <3> QED
      BY <1>1, <2>1, <3>1 DEF Contains, After
  <2>2. CASE Contains(c, h)
    <3>1. PICK m \in 1..Len(c) : c[m] = h
      BY <2>2 DEF Contains
    <3>2. r = RemoveAt(c, m)
      BY <3>1, RemoveFirstIsAt
    <3> HIDE DEF r
    <3>3. /\ r \in Seq(Hosts) /\ Len(r) = Len(c) - 1
          /\ \A i \in 1..(Len(c) - 1) : r[i] = IF i < m THEN c[i] ELSE c[i + 1]
      BY <3>2, RemoveAtProperties
    <3> DEFINE at(i) == IF i < m THEN i ELSE i + 1
    <3>4. \A i \in 1..(Len(c) - 1) : at(i) \in 1..Len(c) /\ at(i) # m /\ r[i] = c[at(i)]
      BY <1>1, <3>3
    <3>5. \A i, j \in 1..(Len(c) - 1) : (i < j => at(i) < at(j)) /\ (at(i) = at(j) => i = j)
      BY <1>1
    <3>6. DOMAIN r = 1..(Len(c) - 1) /\ Len(r) = Len(c) - 1
      BY <3>3, LenProperties
    <3>7. \A i \in 1..Len(c) : i # m => \E j \in 1..(Len(c) - 1) : at(j) = i
      <4> SUFFICES ASSUME NEW i \in 1..Len(c), i # m
                   PROVE  \E j \in 1..(Len(c) - 1) : at(j) = i
        OBVIOUS
      <4>1. CASE i < m
        <5>1. i \in 1..(Len(c) - 1) /\ at(i) = i
          BY <1>1, <4>1
        <5> QED
          BY <5>1
      <4>2. CASE ~(i < m)
        <5>1. i - 1 \in 1..(Len(c) - 1) /\ ~(i - 1 < m) /\ (i - 1) + 1 = i
          BY <1>1, <4>2
        <5>2. at(i - 1) = i
          BY <5>1
        <5> QED
          BY <5>1, <5>2
      <4> QED
        BY <4>1, <4>2
    <3> HIDE DEF at
    <3>8. IsInjective(r)
      BY <1>1, <3>4, <3>5, <3>6 DEF IsInjective
    <3>9. \A i \in 1..Len(r) : r[i] # h
      BY <1>1, <3>1, <3>4, <3>6 DEF IsInjective
    <3>10. \A g : Contains(c, g) /\ g # h => Contains(r, g)
      BY <3>1, <3>4, <3>6, <3>7 DEF Contains
    <3>11. \A i, j \in 1..Len(r) : i < j => After(c, r[i], r[j])
      <4> SUFFICES ASSUME NEW i \in 1..Len(r), NEW j \in 1..Len(r), i < j
                   PROVE  After(c, r[i], r[j])
        OBVIOUS
      <4>1. /\ at(i) \in 1..Len(c) /\ at(j) \in 1..Len(c)
            /\ c[at(i)] = r[i] /\ c[at(j)] = r[j]
        BY <3>4, <3>6
      <4>2. at(i) < at(j)
        BY <3>5, <3>6
      <4> QED
        BY <4>1, <4>2 DEF After
    <3> QED
      BY <2>2, <3>3, <3>8, <3>9, <3>10, <3>11
  <2> QED
    BY <2>1, <2>2
<1> HIDE DEF r
<1>3. n = Append(r, h)
  BY DEF Newest, r
<1> HIDE DEF n
<1>4. /\ n \in Seq(Hosts) /\ Len(n) = Len(r) + 1 /\ Len(r) \in Nat
      /\ \A i \in 1..Len(r) : n[i] = r[i]
      /\ n[Len(r) + 1] = h /\ DOMAIN n = 1..(Len(r) + 1) /\ DOMAIN r = 1..Len(r)
  BY <1>2, <1>3, AppendProperties, LenProperties
<1>5. \A i \in 1..(Len(r) + 1) : i = Len(r) + 1 \/ i \in 1..Len(r)
  BY <1>4
<1>6. Len(r) + 1 \in 1..(Len(r) + 1) /\ \A i \in 1..Len(r) : i \in 1..(Len(r) + 1)
  BY <1>4
<1>7. IsInjective(n)
  BY <1>2, <1>4, <1>5 DEF IsInjective
<1>8. Len(n) = IF Contains(c, h) THEN Len(c) ELSE Len(c) + 1
  <2>1. Len(n) = Len(r) + 1
    BY <1>4
  <2>2. CASE Contains(c, h)
    <3>1. Len(r) = Len(c) - 1
      BY <1>2, <2>2
    <3> QED
      BY <1>1, <2>1, <2>2, <3>1
  <2>3. CASE ~Contains(c, h)
    BY <1>2, <2>1, <2>3
  <2> QED
    BY <2>2, <2>3
<1>9. Contains(n, h) /\ \A g : Contains(c, g) => Contains(n, g)
  BY <1>2, <1>4, <1>6 DEF Contains
<1>10. \A g, k : After(n, g, k) => g # h /\ (k = h \/ After(c, g, k))
  <2>1. ASSUME NEW i \in 1..Len(n), NEW j \in 1..Len(n), i < j
        PROVE  n[i] # h /\ (n[j] = h \/ After(c, n[i], n[j]))
    <3>1. i \in 1..Len(r)
      BY <1>4, <2>1
    <3> QED
      BY <1>2, <1>4, <1>5, <2>1, <3>1
  <2>2. ASSUME NEW g, NEW k, After(n, g, k)
        PROVE  g # h /\ (k = h \/ After(c, g, k))
    <3>1. PICK i \in 1..Len(n), j \in 1..Len(n) : i < j /\ n[i] = g /\ n[j] = k
      BY <2>2 DEF After
    <3> QED
      BY <2>1, <3>1
  <2> QED
    BY <2>2
<1> QED
  BY <1>4, <1>7, <1>8, <1>9, <1>10 DEF n

\* An answer goes to the end of the cache, which stays within its capacity; only the
\* oldest entry of a full cache leaves (LruCache::put).
LEMMA StoredProperties ==
  ASSUME NEW c \in Seq(Hosts), IsInjective(c), Len(c) <= Capacity, NEW h \in Hosts
  PROVE  LET n == Stored(c, h)
         IN  /\ n \in Seq(Hosts) /\ IsInjective(n) /\ Len(n) <= Capacity
             /\ Contains(n, h)
             /\ \A g : Contains(c, g) =>
                  \/ Contains(n, g)
                  \/ Len(c) = Capacity /\ ~Contains(c, h) /\ g = c[1]
             /\ \A g, k : After(n, g, k) => g # h /\ (k = h \/ After(c, g, k))
<1>1. Capacity \in Nat \ {0} /\ Len(c) \in Nat /\ DOMAIN c = 1..Len(c)
  BY ResolverAssumption, LenProperties
<1>2. CASE Contains(c, h) \/ Len(c) < Capacity
  <2> DEFINE n == Newest(c, h)
  <2>1. Stored(c, h) = n
    BY <1>2 DEF Stored
  <2>2. /\ n \in Seq(Hosts) /\ IsInjective(n)
        /\ Len(n) = IF Contains(c, h) THEN Len(c) ELSE Len(c) + 1
        /\ Contains(n, h) /\ \A g : Contains(c, g) => Contains(n, g)
        /\ \A g, k : After(n, g, k) => g # h /\ (k = h \/ After(c, g, k))
    BY NewestProperties
  <2> HIDE DEF n
  <2>3. Len(n) <= Capacity
    BY <1>1, <1>2, <2>2
  <2> QED
    BY <2>1, <2>2, <2>3
<1>3. CASE ~(Contains(c, h) \/ Len(c) < Capacity)
  <2> DEFINE t == Tail(c)
             n == Append(t, h)
  <2>1. Stored(c, h) = n /\ Len(c) = Capacity /\ ~Contains(c, h)
    <3>1. Stored(c, h) = n
      BY <1>3 DEF Stored
    <3>2. ~Contains(c, h) /\ ~(Len(c) < Capacity)
      BY <1>3
    <3>3. Len(c) = Capacity
      <4> DEFINE m == Len(c)
      <4>1. m \in Nat /\ Capacity \in Nat /\ m <= Capacity /\ ~(m < Capacity)
        BY <1>1, <3>2
      <4> HIDE DEF m
      <4>2. m = Capacity
        BY <4>1
      <4> QED
        BY <4>2 DEF m
    <3> QED
      BY <3>1, <3>2, <3>3
  <2>2. c # <<>>
    BY <1>1, <2>1, EmptySeq
  <2>3. /\ t \in Seq(Hosts) /\ Len(t) = Len(c) - 1
        /\ \A i \in 1..Len(t) : t[i] = c[i + 1]
    BY <2>2, HeadTailProperties
  <2>4. DOMAIN t = 1..Len(t)
    BY <2>3, LenProperties
  <2>5. /\ n \in Seq(Hosts) /\ Len(n) = Len(t) + 1
        /\ \A i \in 1..Len(t) : n[i] = t[i]
        /\ n[Len(t) + 1] = h
    BY <2>3, AppendProperties
  <2>6. DOMAIN n = 1..Len(n)
    BY <2>5, LenProperties
  <2> HIDE DEF t, n
  <2>7. \A i \in 1..Len(c) : (i < Len(c) => n[i] = c[i + 1] /\ i + 1 \in 1..Len(c)) /\ (i = Len(c) => n[i] = h)
    <3> SUFFICES ASSUME NEW i \in 1..Len(c)
                 PROVE  /\ i < Len(c) => n[i] = c[i + 1] /\ i + 1 \in 1..Len(c)
                        /\ i = Len(c) => n[i] = h
      OBVIOUS
    <3>1. Len(t) = Len(c) - 1 /\ Len(t) + 1 = Len(c)
      BY <1>1, <2>3
    <3>2. CASE i < Len(c)
      <4>1. i \in 1..Len(t) /\ i + 1 \in 1..Len(c)
        BY <1>1, <3>1, <3>2
      <4> QED
        BY <2>3, <2>5, <3>2, <4>1
    <3>3. CASE i = Len(c)
      BY <2>5, <3>1, <3>3
    <3> QED
      BY <3>2, <3>3
  <2> DEFINE m == Len(c)
  <2>8. \A i \in 1..m : i < m \/ i = m
    <3>1. m \in Nat
      BY <1>1
    <3> HIDE DEF m
    <3> QED
      BY <3>1
  <2>9. Len(n) = Len(c)
    <3>1. Len(n) = Len(t) + 1 /\ Len(t) = Len(c) - 1
      BY <2>3, <2>5
    <3> QED
      BY <1>1, <3>1
  <2>10. \A i \in 1..Len(c) : c[i] # h
    BY <2>1 DEF Contains
  <2>11. IsInjective(n)
    <3> SUFFICES ASSUME NEW i \in 1..Len(c), NEW j \in 1..Len(c), n[i] = n[j]
                 PROVE  i = j
      BY <2>6, <2>9 DEF IsInjective
    <3>1. CASE i < Len(c) /\ j < Len(c)
      <4>1. c[i + 1] = c[j + 1] /\ i + 1 \in DOMAIN c /\ j + 1 \in DOMAIN c
        BY <1>1, <2>7, <3>1
      <4>2. i + 1 = j + 1
        BY <4>1 DEF IsInjective
      <4> QED
        BY <4>2
    <3>2. (i < Len(c) \/ i = Len(c)) /\ (j < Len(c) \/ j = Len(c))
      BY <2>8
    <3>3. CASE i = Len(c) /\ j < Len(c)
      BY <2>7, <2>10, <3>3
    <3>4. CASE i < Len(c) /\ j = Len(c)
      BY <2>7, <2>10, <3>4
    <3> QED
      BY <3>1, <3>2, <3>3, <3>4
  <2>12. Contains(n, h)
    <3>1. Len(c) \in 1..Len(c)
      BY <1>1, <2>1
    <3> QED
      BY <2>7, <2>9, <3>1 DEF Contains
  <2>13. ASSUME NEW g, Contains(c, g)
         PROVE  Contains(n, g) \/ g = c[1]
    <3>1. PICK i \in 1..Len(c) : c[i] = g
      BY <2>13 DEF Contains
    <3>2. CASE i # 1
      <4>1. i - 1 \in 1..Len(c) /\ i - 1 < Len(c) /\ (i - 1) + 1 = i
        BY <1>1, <3>2
      <4>2. n[i - 1] = g
        BY <2>7, <3>1, <4>1
      <4> QED
        BY <2>9, <4>1, <4>2 DEF Contains
    <3> QED
      BY <3>1, <3>2
  <2>14. \A g, k : After(n, g, k) => g # h /\ (k = h \/ After(c, g, k))
    <3> SUFFICES ASSUME NEW i \in 1..Len(c), NEW j \in 1..Len(c), i < j
                 PROVE  n[i] # h /\ (n[j] = h \/ After(c, n[i], n[j]))
      BY <2>9 DEF After
    <3>1. i < Len(c) /\ i + 1 \in 1..Len(c) /\ n[i] = c[i + 1]
      <4>1. i < Len(c)
        BY <1>1
      <4> QED
        BY <2>7, <4>1
    <3>2. CASE j < Len(c)
      <4>1. j + 1 \in 1..Len(c) /\ n[j] = c[j + 1] /\ i + 1 < j + 1
        BY <2>7, <3>2
      <4> QED
        BY <2>10, <3>1, <4>1 DEF After
    <3>3. CASE j = Len(c)
      BY <2>7, <2>10, <3>1, <3>3
    <3>4. j < Len(c) \/ j = Len(c)
      BY <2>8
    <3> QED
      BY <3>2, <3>3, <3>4
  <2> QED
    BY <1>1, <2>1, <2>5, <2>9, <2>11, <2>12, <2>13, <2>14
<1> QED
  BY <1>2, <1>3

\* Hosts stay sheltered when less is asked for, or among more.
LEMMA StillSheltered ==
  ASSUME NEW c, NEW f, NEW V, NEW D, Sheltered(c, f, V, D),
         NEW e, e \subseteq f, NEW W, V \subseteq W, NEW C, C \subseteq D
  PROVE  Sheltered(c, e, W, C)
<1>1. PICK A \in SUBSET Hosts :
        /\ IsFiniteSet(A) /\ Cardinality(A) <= MaxInflight
        /\ f \subseteq A \cup V
        /\ \A g \in D, k \in Hosts : After(c, g, k) => k \in A \cup V
  BY DEF Sheltered
<1>2. e \subseteq A \cup W /\ \A g \in C, k \in Hosts : After(c, g, k) => k \in A \cup W
  BY <1>1
<1> QED
  BY <1>1, <1>2 DEF Sheltered

\* A host that f may bring in, or V holds, goes to the end of the cache: the sheltered
\* hosts stay so, and it is one of them.
LEMMA ShelteredByUse ==
  ASSUME NEW c, NEW n, NEW f, NEW V, NEW D, Sheltered(c, f, V, D),
         NEW h, h \in f \cup V,
         \A g, k : After(n, g, k) => g # h /\ (k = h \/ After(c, g, k))
  PROVE  Sheltered(n, f, V, D \cup {h})
<1>1. PICK A \in SUBSET Hosts :
        /\ IsFiniteSet(A) /\ Cardinality(A) <= MaxInflight
        /\ f \subseteq A \cup V
        /\ \A g \in D, k \in Hosts : After(c, g, k) => k \in A \cup V
  BY DEF Sheltered
<1>2. \A g \in D \cup {h}, k \in Hosts : After(n, g, k) => k \in A \cup V
  BY <1>1
<1> QED
  BY <1>1, <1>2 DEF Sheltered

\* Before anything is looked up only what is in flight can come in.
LEMMA ShelteredByFew ==
  ASSUME NEW c, NEW V, FlightInv
  PROVE  Sheltered(c, inflight, V, {})
<1>1. inflight \in SUBSET Hosts /\ IsFiniteSet(inflight) /\ Cardinality(inflight) <= MaxInflight
  BY DEF FlightInv, FlightType, Counted
<1> QED
  BY <1>1 DEF Sheltered

\* The step of a worker that holds a host, or of a UI that shows one.
LEMMA UseKeeps ==
  ASSUME ScreenInv, FlightInv, NEW h \in inflight \cup view,
         CacheType', ViewType',
         \A g, k : After(cache', g, k) => g # h /\ (k = h \/ After(cache, g, k)),
         UNCHANGED <<inflight, view, screen>>, todo \ {h} \subseteq todo'
  PROVE  ScreenInv'
<1>1. Sheltered(cache', inflight, view, (view \ todo) \cup {h})
  BY ShelteredByUse DEF ScreenInv
<1>2. Sheltered(cache', inflight, screen \cup view, screen \cup {h})
  BY ShelteredByUse DEF ScreenInv
<1>3. Sheltered(cache', inflight, view, view \ todo')
  BY <1>1, StillSheltered
<1>4. Sheltered(cache', inflight, screen \cup view, screen)
  BY <1>2, StillSheltered
<1> QED
  BY <1>3, <1>4 DEF ScreenInv

\* The step that uses no cached host, and brings no new one in.
LEMMA StillScreen ==
  ASSUME ScreenInv, ViewType', inflight' \subseteq inflight \cup view,
         UNCHANGED <<cache, view, screen, todo>>
  PROVE  ScreenInv'
<1>1. ASSUME NEW V, NEW D, view \subseteq V, Sheltered(cache, inflight, V, D)
      PROVE  Sheltered(cache, inflight', V, D)
  <2>1. PICK A \in SUBSET Hosts :
          /\ IsFiniteSet(A) /\ Cardinality(A) <= MaxInflight
          /\ inflight \subseteq A \cup V
          /\ \A g \in D, k \in Hosts : After(cache, g, k) => k \in A \cup V
    BY <1>1 DEF Sheltered
  <2>2. inflight' \subseteq A \cup V
    BY <1>1, <2>1
  <2> QED
    BY <2>1, <2>2 DEF Sheltered
<1>2. Sheltered(cache, inflight', view, view \ todo)
  BY <1>1 DEF ScreenInv
<1>3. Sheltered(cache, inflight', screen \cup view, screen)
  BY <1>1 DEF ScreenInv
<1> QED
  BY <1>2, <1>3 DEF ScreenInv, CacheType

\* Before the first frame there is nothing to keep.
LEMMA InitScreen == Init => ScreenInv
<1> SUFFICES ASSUME Init
             PROVE  ScreenInv
  OBVIOUS
<1>1. <<>> \in Seq(Hosts) /\ Len(<<>>) = 0 /\ DOMAIN <<>> = {}
  BY EmptySeq
<1>2. IsFiniteSet({}) /\ Cardinality({}) = 0
  BY FS_EmptySet
<1>3. {Capacity, MaxInflight, MaxShown} \subseteq Nat
  BY ResolverAssumption
<1>4. CacheType
  BY <1>1, <1>3 DEF CacheType, IsInjective, Init
<1>5. ViewType
  BY <1>2, <1>3 DEF ViewType, Shown, Init, Idle
<1>6. FlightInv
  BY InitFlight
<1>7. Sheltered(cache, inflight, view, {}) /\ Sheltered(cache, inflight, screen \cup view, {})
  BY <1>6, ShelteredByFew
<1> QED
  BY <1>4, <1>5, <1>7 DEF ScreenInv, Init

\* Every step of the UI and of the pool keeps the order that shelters the screen.
LEMMA StepScreen == FlightInv /\ ScreenInv /\ [Next]_vars => ScreenInv'
<1> SUFFICES ASSUME FlightInv, ScreenInv, [Next]_vars
             PROVE  ScreenInv'
  OBVIOUS
<1>1. FlightType /\ CacheType /\ ViewType /\ {Capacity, MaxInflight, MaxShown} \subseteq Nat
  BY ResolverAssumption DEF FlightInv, ScreenInv
<1>2. ASSUME NEW v \in Views, BeginFrame(v)
      PROVE  ScreenInv'
  <2>1. /\ view' = v /\ todo' = v /\ ui'.at = "drawing" /\ UNCHANGED <<cache, inflight, screen>>
        /\ screen = view /\ Shown(v)
    BY <1>1, <1>2 DEF BeginFrame, At, Idle, poolVars, ViewType, Views, Shown
  <2>2. ViewType' /\ CacheType'
    BY <1>1, <2>1 DEF ViewType, Shown, CacheType
  <2>3. Sheltered(cache, inflight, v, v \ v)
    <3>1. v \ v = {}
      OBVIOUS
    <3> QED
      BY <3>1, ShelteredByFew
  <2>4. Sheltered(cache, inflight, screen \cup v, screen)
    BY <2>1, StillSheltered DEF ScreenInv
  <2> QED
    BY <2>1, <2>2, <2>3, <2>4 DEF ScreenInv
<1>3. ASSUME NEW h \in Hosts, LookupHit(h)
      PROVE  ScreenInv'
  <2>1. /\ h \in todo /\ todo' = todo \ {h} /\ Contains(cache, h) /\ cache' = Newest(cache, h)
        /\ UNCHANGED <<inflight, ui, view, screen>>
    BY <1>3 DEF LookupHit, Promoted
  <2>2. /\ cache' \in Seq(Hosts) /\ IsInjective(cache') /\ Len(cache') = Len(cache)
        /\ \A g, k : After(cache', g, k) => g # h /\ (k = h \/ After(cache, g, k))
    BY <1>1, <2>1, NewestProperties DEF CacheType
  <2>3. CacheType' /\ ViewType' /\ h \in inflight \cup view
    BY <1>1, <2>1, <2>2 DEF CacheType, ViewType, Shown
  <2> QED
    BY <2>1, <2>2, <2>3, UseKeeps
<1>4. ASSUME NEW h \in Hosts, LookupMiss(h)
      PROVE  ScreenInv'
  <2>1. /\ h \in todo /\ todo' = todo \ {h} /\ ~Contains(cache, h) /\ ui' = At("missed", h)
        /\ UNCHANGED <<cache, inflight, view, screen>>
    BY <1>4 DEF LookupMiss, poolVars
  <2>2. CacheType' /\ ViewType'
    BY <1>1, <2>1 DEF CacheType, ViewType, Shown, At
  <2>3. \A k : ~After(cache, h, k)
    BY <2>1 DEF After, Contains
  <2>4. PICK A \in SUBSET Hosts :
          /\ IsFiniteSet(A) /\ Cardinality(A) <= MaxInflight
          /\ inflight \subseteq A \cup view
          /\ \A g \in view \ todo, k \in Hosts : After(cache, g, k) => k \in A \cup view
    BY DEF ScreenInv, Sheltered
  <2>5. \A g \in view \ todo', k \in Hosts : After(cache, g, k) => k \in A \cup view
    BY <2>1, <2>3, <2>4
  <2>6. Sheltered(cache, inflight, view, view \ todo')
    BY <2>4, <2>5 DEF Sheltered
  <2> QED
    BY <2>1, <2>2, <2>6 DEF ScreenInv
<1>5. CASE Schedule
  <2>1. /\ inflight' \subseteq inflight \cup {ui.host} /\ ui.host \in view /\ ui'.at = "drawing"
        /\ UNCHANGED <<cache, view, todo, screen>>
    BY <1>1, <1>5 DEF Schedule, At, ViewType
  <2>2. ViewType'
    BY <1>1, <2>1 DEF ViewType, Shown
  <2> QED
    BY <2>1, <2>2, StillScreen
<1>6. CASE FinishFrame
  <2>1. /\ todo = {} /\ ui' = Idle /\ screen' = view
        /\ UNCHANGED <<cache, inflight, view, todo>>
    BY <1>6 DEF FinishFrame, poolVars
  <2>2. ViewType' /\ CacheType'
    BY <1>1, <2>1 DEF ViewType, Shown, CacheType, Idle
  <2>3. Sheltered(cache, inflight, view, view)
    <3>1. view \ todo = view
      BY <2>1
    <3> QED
      BY <3>1 DEF ScreenInv
  <2>4. Sheltered(cache, inflight, screen' \cup view, screen') /\ Sheltered(cache, inflight, view, view \ todo')
    BY <2>1, <2>3, StillSheltered
  <2> QED
    BY <2>1, <2>2, <2>4 DEF ScreenInv
<1>7. CASE Drop \/ UNCHANGED vars
  <2>1. UNCHANGED <<cache, inflight, ui, view, todo, screen>>
    BY <1>7 DEF Drop, vars, poolVars, uiVars
  <2>2. ViewType'
    BY <1>1, <2>1 DEF ViewType, Shown
  <2> QED
    BY <2>1, <2>2, StillScreen
<1>8. ASSUME NEW w \in Workers, Worker(w)
      PROVE  ScreenInv'
  <2>1. CASE LockReceiver(w) \/ Receive(w) \/ Stop(w) \/ Resolve(w) \/ Clear(w)
    <3>1. UNCHANGED <<cache, ui, view, todo, screen>> /\ inflight' \subseteq inflight
      BY <2>1 DEF LockReceiver, Receive, Stop, Resolve, Clear, uiVars
    <3>2. ViewType'
      BY <1>1, <3>1 DEF ViewType, Shown
    <3> QED
      BY <3>1, <3>2, StillScreen
  <2>2. CASE Put(w)
    <3> DEFINE h == worker[w].host
    <3>1. /\ worker[w].at = "resolved" /\ cache' = Stored(cache, h)
          /\ UNCHANGED <<inflight, ui, view, todo, screen>>
      BY <2>2 DEF Put, Step, Cached, uiVars
    <3>2. h \in Hosts /\ h \in inflight
      <4>1. h \in Hosts /\ h # NoHost
        BY <1>1, <3>1 DEF FlightType
      <4>2. h \in Held(w)
        BY <4>1 DEF Held
      <4> QED
        BY <4>1, <4>2 DEF FlightInv, Counted
    <3> HIDE DEF h
    <3>3. /\ cache' \in Seq(Hosts) /\ IsInjective(cache') /\ Len(cache') <= Capacity
          /\ \A g, k : After(cache', g, k) => g # h /\ (k = h \/ After(cache, g, k))
      BY <1>1, <3>1, <3>2, StoredProperties DEF CacheType
    <3>4. CacheType' /\ ViewType' /\ h \in inflight \cup view
      BY <1>1, <3>1, <3>2, <3>3 DEF CacheType, ViewType, Shown
    <3> QED
      BY <3>1, <3>3, <3>4, UseKeeps
  <2> QED
    BY <1>8, <2>1, <2>2 DEF Worker
<1> QED
  BY <1>2, <1>3, <1>4, <1>5, <1>6, <1>7, <1>8 DEF Next, UI

\* The cache, the screen and the lookups in flight fit together, all the time.
LEMMA ScreenAlways == Spec => [](FlightInv /\ ScreenInv)
<1>1. Init => FlightInv /\ ScreenInv
  BY InitFlight, InitScreen
<1>2. FlightInv /\ ScreenInv /\ [Next]_vars => (FlightInv /\ ScreenInv)'
  BY StepFlight, StepScreen
<1> QED
  BY <1>1, <1>2, PTL DEF Spec

\* Cached hosts that are all sheltered by a host's being there are few.
LEMMA FewSheltered ==
  ASSUME NEW c \in Seq(Hosts), IsInjective(c), NEW h \in Hosts, ~Contains(c, h),
         NEW T, IsFiniteSet(T), \A i \in 1..Len(c) : c[i] \in T, h \in T
  PROVE  Len(c) + 1 <= Cardinality(T)
<1>1. Len(c) \in Nat /\ DOMAIN c = 1..Len(c)
  BY LenProperties
<1> DEFINE S == 1..Len(c)
           f == [i \in S |-> c[i]]
           R == T \ {h}
<1>2. IsFiniteSet(R) /\ Cardinality(R) = Cardinality(T) - 1
  BY FS_RemoveElement
<1>3. f \in Injection(S, R)
  <2>1. \A i \in S : c[i] \in R
    BY DEF Contains
  <2>2. \A i, j \in S : c[i] = c[j] => i = j
    BY <1>1 DEF IsInjective
  <2> HIDE DEF S, R
  <2> QED
    BY <2>1, <2>2 DEF Injection, IsInjective
<1>4. Cardinality(S) <= Cardinality(R)
  <2> HIDE DEF S, f, R
  <2> QED
    BY <1>2, <1>3, FS_Injection
<1>5. Cardinality(S) = Len(c)
  <2>1. 1 \in Int /\ Len(c) \in Int
    BY <1>1
  <2>2. Cardinality(1..Len(c)) = IF 1 > Len(c) THEN 0 ELSE Len(c) - 1 + 1
    BY <2>1, FS_Interval
  <2> QED
    BY <1>1, <2>2
<1>6. Cardinality(T) \in Nat
  BY FS_CardinalityType
<1> QED
  BY <1>1, <1>2, <1>4, <1>5, <1>6

\* The entry that a full cache loses is not one on the screen: all the others were
\* used after it, and there are more of them than the lookups in flight, the screen
\* and the frame being drawn can have brought in.
LEMMA OldestIsNotShown ==
  ASSUME Capacity >= MaxInflight + 2 * MaxShown,
         FlightInv, ScreenInv, NEW h \in inflight, ~Contains(cache, h), Len(cache) = Capacity
  PROVE  cache[1] \notin screen
<1> SUFFICES ASSUME cache[1] \in screen
             PROVE  FALSE
  OBVIOUS
<1>1. /\ cache \in Seq(Hosts) /\ IsInjective(cache) /\ Shown(view) /\ Shown(screen)
      /\ h \in Hosts /\ {Capacity, MaxInflight, MaxShown} \subseteq Nat
  BY ResolverAssumption DEF FlightInv, FlightType, ScreenInv, CacheType, ViewType
<1>2. PICK A \in SUBSET Hosts :
        /\ IsFiniteSet(A) /\ Cardinality(A) <= MaxInflight
        /\ inflight \subseteq A \cup (screen \cup view)
        /\ \A g \in screen, k \in Hosts : After(cache, g, k) => k \in A \cup (screen \cup view)
  BY DEF ScreenInv, Sheltered
<1> DEFINE T == A \cup (screen \cup view)
<1>3. /\ IsFiniteSet(screen \cup view)
      /\ Cardinality(screen \cup view) =
           Cardinality(screen) + Cardinality(view) - Cardinality(screen \cap view)
  BY <1>1, FS_Union DEF Shown
<1>4. /\ IsFiniteSet(T)
      /\ Cardinality(T) =
           Cardinality(A) + Cardinality(screen \cup view) - Cardinality(A \cap (screen \cup view))
  BY <1>2, <1>3, FS_Union
<1>5. IsFiniteSet(screen \cap view) /\ IsFiniteSet(A \cap (screen \cup view))
  <2>1. screen \cap view \in SUBSET view /\ A \cap (screen \cup view) \in SUBSET A
    OBVIOUS
  <2> QED
    BY <1>1, <1>2, <2>1, FS_Subset DEF Shown
<1>6. /\ Cardinality(A) \in Nat /\ Cardinality(T) \in Nat /\ Cardinality(screen \cup view) \in Nat
      /\ Cardinality(screen) \in Nat /\ Cardinality(view) \in Nat
      /\ Cardinality(screen \cap view) \in Nat /\ Cardinality(A \cap (screen \cup view)) \in Nat
  BY <1>1, <1>2, <1>3, <1>4, <1>5, FS_CardinalityType DEF Shown
<1>7. Cardinality(T) <= MaxInflight + 2 * MaxShown
  <2>1. Cardinality(screen) <= MaxShown /\ Cardinality(view) <= MaxShown
    BY <1>1 DEF Shown
  <2> HIDE DEF T
  <2>0. MaxShown \in Nat /\ MaxInflight \in Nat
    BY <1>1
  <2>2. Cardinality(screen \cup view) <= 2 * MaxShown
    <3>1. Cardinality(screen \cup view) =
            Cardinality(screen) + Cardinality(view) - Cardinality(screen \cap view)
      BY <1>3
    <3> QED
      BY <1>6, <2>0, <2>1, <3>1
  <2>3. Cardinality(T) <= Cardinality(A) + Cardinality(screen \cup view)
    BY <1>4, <1>6
  <2>4. Cardinality(A) <= MaxInflight
    BY <1>2
  <2> QED
    BY <1>6, <2>0, <2>2, <2>3, <2>4
<1>8. \A i \in 1..Len(cache) : cache[i] \in T
  <2> SUFFICES ASSUME NEW i \in 1..Len(cache)
               PROVE  cache[i] \in T
    OBVIOUS
  <2>1. CASE i = 1
    BY <2>1
  <2>2. CASE i # 1
    <3>1. Len(cache) \in Nat
      BY <1>1, LenProperties
    <3>2. 1 \in 1..Len(cache) /\ 1 < i
      BY <2>2, <3>1
    <3>3. After(cache, cache[1], cache[i])
      BY <3>2 DEF After
    <3>4. cache[i] \in Hosts
      BY <1>1, ElementOfSeq
    <3> QED
      BY <1>2, <3>3, <3>4
  <2> QED
    BY <2>1, <2>2
<1>9. h \in T
  BY <1>2
<1>10. Len(cache) + 1 <= Cardinality(T)
  <2> HIDE DEF T
  <2> QED
    BY <1>1, <1>4, <1>8, <1>9, FewSheltered
<1> HIDE DEF T
<1> QED
  BY <1>1, <1>6, <1>7, <1>10

\* A host on the screen stays in the cache, whatever else is shown and answered, when
\* the cache holds what can be answered between two frames: everything in flight and
\* two panes of hosts ("the hosts on screen stay cached", src/dns.rs:33-35).
THEOREM ScreenAlwaysCached ==
  ASSUME Capacity >= MaxInflight + 2 * MaxShown
  PROVE  Spec => ScreenStaysCached
<1>1. FlightInv /\ ScreenInv /\ [Next]_vars =>
        [\A h \in screen : Contains(cache, h) => Contains(cache', h)]_vars
  <2> SUFFICES ASSUME FlightInv, ScreenInv, Next,
                      NEW g \in screen, Contains(cache, g)
               PROVE  Contains(cache', g)
    OBVIOUS
  <2>1. cache \in Seq(Hosts) /\ IsInjective(cache) /\ Len(cache) <= Capacity /\ FlightType
    BY DEF FlightInv, ScreenInv, CacheType
  <2>2. CASE UNCHANGED cache
    BY <2>2
  <2>3. ASSUME NEW h \in Hosts, LookupHit(h)
        PROVE  Contains(cache', g)
    BY <2>1, <2>3, NewestProperties DEF LookupHit, Promoted
  <2>4. ASSUME NEW w \in Workers, Put(w)
        PROVE  Contains(cache', g)
    <3> DEFINE h == worker[w].host
    <3>1. worker[w].at = "resolved" /\ cache' = Stored(cache, h)
      BY <2>4 DEF Put, Step, Cached
    <3>2. h \in Hosts /\ h \in inflight
      <4>1. h \in Hosts /\ h # NoHost
        BY <2>1, <3>1 DEF FlightType
      <4>2. h \in Held(w)
        BY <4>1 DEF Held
      <4> QED
        BY <4>1, <4>2 DEF FlightInv, Counted
    <3> HIDE DEF h
    <3>3. Contains(cache', g) \/ (Len(cache) = Capacity /\ ~Contains(cache, h) /\ g = cache[1])
      BY <2>1, <3>1, <3>2, StoredProperties
    <3> QED
      BY <3>2, <3>3, OldestIsNotShown
  <2> QED
    BY <2>2, <2>3, <2>4
       DEF Next, UI, Worker, BeginFrame, LookupMiss, Schedule, FinishFrame, Drop,
           LockReceiver, Receive, Stop, Resolve, Clear, poolVars
<1> QED
  BY <1>1, ScreenAlways, PTL DEF Spec, ScreenStaysCached

\* The cache holds hosts, each once, and no more than its capacity; the lookups in
\* flight and the channel are bounded; what is drawn is of the frame (lookup, the
\* workers and draw_detail).
THEOREM ResolverTypeCorrect == Spec => []TypeOK
<1>1. FlightInv /\ ScreenInv => TypeOK
  <2> SUFFICES ASSUME FlightInv, ScreenInv
               PROVE  TypeOK
    OBVIOUS
  <2>1. \A w \in Workers : Held(w) \subseteq Hosts
    BY DEF FlightInv, FlightType, Held
  <2>2. Cardinality(Holding) \in Nat /\ Len(queue) \in Nat
    BY FS_CardinalityType, LenProperties DEF FlightInv, Counted, FlightType
  <2>3. Len(queue) <= MaxInflight
    BY <2>2, ResolverAssumption DEF FlightInv, Counted
  <2> QED
    BY <2>1, <2>3 DEF TypeOK, FlightInv, FlightType, Counted, ScreenInv, CacheType, ViewType, Shown
<1> QED
  BY <1>1, ScreenAlways, PTL
=============================================================================
