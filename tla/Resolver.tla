------------------------------ MODULE Resolver ------------------------------
(***************************************************************************)
(* The reverse DNS of src/dns.rs: the UI thread asks for the hosts of the  *)
(* flows it draws (lookup), a pool of workers answers them (the loop       *)
(* spawned by with), and the two share a bounded LRU cache, the set of     *)
(* lookups in flight and a channel.  Each critical section is one step, so *)
(* whatever is not under one lock interleaves.                             *)
(*                                                                         *)
(* A name is what its host is: the cached value adds nothing to the key    *)
(* but whether there was one.  The LRU cache and the channel are external. *)
(***************************************************************************)
EXTENDS Integers, FiniteSets, Sequences, SequencesExt

CONSTANTS
  Hosts,         \* remote addresses
  Nameless,      \* hosts with no PTR record
  Stuck,         \* hosts whose getnameinfo never returns
  Workers,       \* the pool (DNS_WORKERS)
  Capacity,      \* CACHE_CAPACITY
  MaxInflight,   \* MAX_INFLIGHT
  MaxShown       \* hosts that fit the detail pane

NoHost == "none"

ASSUME ResolverAssumption ==
  /\ NoHost \notin Hosts
  /\ Nameless \subseteq Hosts /\ Stuck \subseteq Hosts
  /\ {Capacity, MaxInflight, MaxShown} \subseteq Nat \ {0}
  /\ Workers # {}

VARIABLES
  cache,      \* cached hosts, least recently used first
  inflight,   \* hosts queued or being looked up
  queue,      \* the channel from the UI thread to the workers
  worker,     \* where each worker is, and the host it holds
  open,       \* the Resolver, and with it the sender, is alive
  ui,         \* where the UI thread is, and the host it missed
  view,       \* the hosts of the frame being drawn, or drawn last
  todo,       \* those of them not looked up yet
  screen      \* the hosts of the last finished frame

poolVars == <<cache, inflight, queue, worker, open>>
uiVars   == <<ui, view, todo, screen>>
vars     == <<poolVars, uiVars>>

Idle       == [at |-> "idle", host |-> NoHost]
At(pc, h)  == [at |-> pc, host |-> h]

Init ==
  /\ cache = <<>> /\ inflight = {} /\ queue = <<>> /\ open = TRUE
  /\ worker = [w \in Workers |-> Idle]
  /\ ui = Idle /\ view = {} /\ todo = {} /\ screen = {}

----------------------------------------------------------------------------
(* LruCache (external).                                                    *)

Newest(c, h) == Append(RemoveFirst(c, h), h)

\* Mutant: the value is read without touching the order.
PromotedNot(c, h) == c

\* get: the entry becomes the most recently used.
Promoted(c, h) == Newest(c, h)

\* Mutant: nothing is evicted.
StoredUnbounded(c, h) == Newest(c, h)

\* put: the entry is new or replaced, and the oldest leaves a full cache.
Stored(c, h) ==
  IF Contains(c, h) \/ Len(c) < Capacity THEN Newest(c, h) ELSE Append(Tail(c), h)

----------------------------------------------------------------------------
(* The UI thread: one frame of the detail pane.                            *)

\* The hosts that can be in it.
Views == {v \in SUBSET Hosts : IsFiniteSet(v) /\ Cardinality(v) <= MaxShown}

BeginFrame(v) ==
  /\ open /\ ui = Idle
  /\ view' = v /\ todo' = v
  /\ ui' = At("drawing", NoHost)
  /\ UNCHANGED <<poolVars, screen>>

\* lookup, under the cache lock: a hit, whether or not the host has a name.
LookupHit(h) ==
  /\ ui.at = "drawing" /\ h \in todo
  /\ Contains(cache, h)
  /\ cache' = Promoted(cache, h)
  /\ todo' = todo \ {h}
  /\ UNCHANGED <<inflight, queue, worker, open, ui, view, screen>>

\* A miss: the cache lock is given up before the inflight lock is taken.
LookupMiss(h) ==
  /\ ui.at = "drawing" /\ h \in todo
  /\ ~Contains(cache, h)
  /\ ui' = At("missed", h)
  /\ todo' = todo \ {h}
  /\ UNCHANGED <<poolVars, view, screen>>

\* Mutants: the bound, or the membership test, is left out.
MayScheduleUnbounded(h) == h \notin inflight
MayScheduleAgain(h)     == Cardinality(inflight) < MaxInflight

MaySchedule(h) == Cardinality(inflight) < MaxInflight /\ h \notin inflight

\* lookup, under the inflight lock: insert and send, or give up until a later
\* frame.
Schedule ==
  /\ ui.at = "missed"
  /\ IF MaySchedule(ui.host)
     THEN inflight' = inflight \cup {ui.host} /\ queue' = Append(queue, ui.host)
     ELSE UNCHANGED <<inflight, queue>>
  /\ ui' = At("drawing", NoHost)
  /\ UNCHANGED <<cache, worker, open, view, todo, screen>>

FinishFrame ==
  /\ ui.at = "drawing" /\ todo = {}
  /\ ui' = Idle
  /\ screen' = view
  /\ UNCHANGED <<poolVars, view, todo>>

\* The Resolver is dropped when the TUI ends.
Drop ==
  /\ open /\ ui = Idle
  /\ open' = FALSE
  /\ UNCHANGED <<cache, inflight, queue, worker, uiVars>>

----------------------------------------------------------------------------
(* A worker.                                                               *)

Step(w, from, to) == worker[w].at = from /\ worker' = [worker EXCEPT ![w] = to]

\* Mutant: the receiver is locked while the lookup runs.
ReceiverFreeLate == \A w \in Workers : worker[w].at \notin {"receiving", "resolving"}

\* The receiver's lock is held from here until a host, or the end, is received.
ReceiverFree == \A w \in Workers : worker[w].at # "receiving"

LockReceiver(w) ==
  /\ ReceiverFree
  /\ Step(w, "idle", At("receiving", NoHost))
  /\ UNCHANGED <<cache, inflight, queue, open, uiVars>>

Receive(w) ==
  /\ queue # <<>>
  /\ Step(w, "receiving", At("resolving", Head(queue)))
  /\ queue' = Tail(queue)
  /\ UNCHANGED <<cache, inflight, open, uiVars>>

\* Mutant: the end is not noticed.
HangupNever == FALSE

\* recv fails once the sender is gone and the channel is empty.
Hangup == ~open /\ queue = <<>>

Stop(w) ==
  /\ Hangup
  /\ Step(w, "receiving", At("stopped", NoHost))
  /\ UNCHANGED <<cache, inflight, queue, open, uiVars>>

Resolve(w) ==
  /\ worker[w].host \notin Stuck
  /\ Step(w, "resolving", At("resolved", worker[w].host))
  /\ UNCHANGED <<cache, inflight, queue, open, uiVars>>

\* Mutant: only names are cached.
CachedNamed(h) == IF h \in Nameless THEN cache ELSE Stored(cache, h)

\* The answer, a name or none, is cached.
Cached(h) == Stored(cache, h)

Put(w) ==
  /\ Step(w, "resolved", At("cached", worker[w].host))
  /\ cache' = Cached(worker[w].host)
  /\ UNCHANGED <<inflight, queue, open, uiVars>>

Clear(w) ==
  /\ Step(w, "cached", Idle)
  /\ inflight' = inflight \ {worker[w].host}
  /\ UNCHANGED <<cache, queue, open, uiVars>>

----------------------------------------------------------------------------
UI == \/ \E v \in Views : BeginFrame(v)
      \/ \E h \in Hosts : LookupHit(h) \/ LookupMiss(h)
      \/ Schedule
      \/ FinishFrame
      \/ Drop

Worker(w) == LockReceiver(w) \/ Receive(w) \/ Stop(w) \/ Resolve(w) \/ Put(w) \/ Clear(w)

Next == UI \/ \E w \in Workers : Worker(w)

Spec == Init /\ [][Next]_vars

\* The workers are scheduled by the system, and the UI keeps drawing: a tick asks
\* for a frame once per interval.  Nobody has to drop the Resolver.
Frame == \/ \E v \in Views : BeginFrame(v)
         \/ \E h \in Hosts : LookupHit(h) \/ LookupMiss(h)
         \/ Schedule
         \/ FinishFrame

FairSpec == Spec /\ WF_vars(Frame) /\ \A w \in Workers : WF_vars(Worker(w))

----------------------------------------------------------------------------
(* Properties.                                                             *)

Held(w) == IF worker[w].host = NoHost THEN {} ELSE {worker[w].host}

\* The shared tables hold hosts and respect their bounds, whatever the UI scrolls
\* past and however many workers are stuck: the cache its capacity, the set and the
\* channel MAX_INFLIGHT.
TypeOK ==
  /\ cache \in Seq(Hosts) /\ IsInjective(cache) /\ Len(cache) <= Capacity
  /\ inflight \subseteq Hosts /\ Cardinality(inflight) <= MaxInflight
  /\ queue \in Seq(Hosts) /\ Len(queue) <= MaxInflight
  /\ \A w \in Workers : Held(w) \subseteq Hosts
  /\ view \subseteq Hosts /\ todo \subseteq view

\* A host in flight is in exactly one place, the channel or one worker's hands,
\* and nothing else is in flight: no lookup is lost, run twice at a time, or left
\* behind in the set, where it would block its host for ever.
InflightIsHeld ==
  /\ inflight = ToSet(queue) \cup UNION {Held(w) : w \in Workers}
  /\ Cardinality(inflight) =
       Len(queue) + Cardinality({w \in Workers : Held(w) # {}})

\* "The least-recently shown entry is evicted first, so the hosts on screen stay
\* cached" (src/dns.rs:33-35): true as long as the capacity exceeds what can be
\* answered between two frames, MaxInflight + 2 * MaxShown.
ScreenStaysCached ==
  [][ \A h \in screen : Contains(cache, h) => Contains(cache', h) ]_vars

\* If the view comes to rest, every host in it is answered, with or without a
\* name, even while fewer workers than there are hang in lookups that never end.
ViewResolves ==
  \A v \in SUBSET Hosts :
    <>[](open /\ view = v) => <>(v \ Stuck \subseteq ToSet(cache))

\* Dropping the Resolver ends the pool: every worker that is not stuck stops.
WorkersShutDown ==
  ~open ~> \A w \in Workers : worker[w].at = "stopped" \/ worker[w].host \in Stuck
=============================================================================
