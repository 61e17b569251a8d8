------------------------------ MODULE Monitor -------------------------------
(***************************************************************************)
(* The ntstat client of src/ntstat/mod.rs and the kernel control it talks  *)
(* to.  The client is single threaded; the kernel runs beside it, so the   *)
(* loop of drain is one step per message and kernel steps fall in between. *)
(*                                                                         *)
(* The kernel is external: it announces sources, reports their removal,    *)
(* and answers descriptor requests and count queries in its own time on    *)
(* one ordered stream.  Packing of several messages in a datagram changes  *)
(* nothing here, since a message is only ever appended behind the others.  *)
(***************************************************************************)
EXTENDS Integers, FiniteSets, Sequences, SequencesExt, FiniteSetsExt

CONSTANTS
  SrcRefs, Pids, Dir, MaxBytes, HistLen, Spans,   \* of the Engine
  OwnerOf,      \* the process each source belongs to
  Batch,        \* DESC_BATCH
  MaxStream,    \* bound: messages waiting in the socket
  MaxQueued,    \* bound: requests and messages in flight when a source opens
  MaxUpdates,   \* bound: SRC_UPDATE messages the kernel volunteers
  Lossy,        \* may the kernel drop a reply with ENOBUFS?
  Reuse         \* may a srcref come back after its removal?

ASSUME MonitorAssumption ==
  /\ OwnerOf \in [SrcRefs -> Pids \ {0}]
  /\ {Batch, MaxStream, MaxQueued} \subseteq Nat \ {0}
  /\ {MaxBytes, MaxUpdates} \subseteq Nat
  /\ {Lossy, Reuse} \subseteq BOOLEAN

VARIABLES
  flows, retired, hist, rows,   \* the Engine
  requested,    \* srcrefs asked for, or queued to be, and not removed since
  pending,      \* srcrefs whose descriptor request is queued
  lastError,    \* the last kernel error that was not ENOBUFS
  pc,           \* where the client is in drain
  status,       \* kernel: each source is new, live or closed
  counter,      \* kernel: the bytes each source has carried
  stream,       \* kernel -> client messages
  asked,        \* client -> kernel descriptor requests
  query,        \* sources the kernel still owes counts for
  updates,      \* SRC_UPDATE messages sent so far
  dropped       \* history: sources whose description was dropped

E == INSTANCE Engine

ASSUME EngineInstance == E!EngineAssumption

engineVars == <<flows, retired, hist, rows>>
clientVars == <<requested, pending, lastError, pc>>
kernelVars == <<status, counter, stream, asked, query, updates, dropped>>
vars == <<engineVars, clientVars, kernelVars>>

----------------------------------------------------------------------------
(* Messages (Msg of src/ntstat/wire.rs).                                   *)

ENOBUFS == "ENOBUFS"
ENOENT  == "ENOENT"
NoError == "none"

Added(s)     == [type |-> "added", src |-> s]
Removed(s)   == [type |-> "removed", src |-> s]
Desc(s)      == [type |-> "desc", src |-> s, pid |-> OwnerOf[s]]
Counted(s)   == [type |-> "counts", src |-> s, counts |-> counter[s]]
Update(s, p) == [type |-> "update", src |-> s, counts |-> counter[s], pid |-> p]
Error(code)  == [type |-> "error", code |-> code]

Live == {s \in SrcRefs : status[s] = "live"}

Waiting(msg) == Contains(stream, msg)

----------------------------------------------------------------------------
Init ==
  /\ E!Init
  /\ requested = {} /\ pending = <<>> /\ lastError = NoError /\ pc = "ready"
  /\ status  = [s \in SrcRefs |-> "new"]
  /\ counter = [s \in SrcRefs |-> E!Zero]
  /\ stream = <<>> /\ asked = <<>> /\ query = {} /\ updates = 0 /\ dropped = {}

----------------------------------------------------------------------------
(* The kernel (external).                                                  *)

Post(msg) == Len(stream) < MaxStream /\ stream' = Append(stream, msg)

\* A source is announced, perhaps with bytes it carried before the subscription.
KernelOpen(s) ==
  /\ Len(pending) + Len(asked) + Len(stream) < MaxQueued
  /\ status[s] = "new" \/ (Reuse /\ status[s] = "closed")
  /\ status'  = [status EXCEPT ![s] = "live"]
  /\ \E c \in E!Counts : counter' = [counter EXCEPT ![s] = c]
  /\ Post(Added(s))
  /\ dropped' = dropped \ {s}
  /\ UNCHANGED <<engineVars, clientVars, asked, query, updates>>

KernelClose(s) ==
  /\ status[s] = "live"
  /\ status' = [status EXCEPT ![s] = "closed"]
  /\ Post(Removed(s))
  /\ query' = IF Reuse THEN query \ {s} ELSE query
  /\ UNCHANGED <<engineVars, clientVars, counter, asked, updates, dropped>>

KernelTraffic(s, d) ==
  /\ status[s] = "live"
  /\ counter[s][d] < MaxBytes
  /\ counter' = [counter EXCEPT ![s][d] = @ + 1]
  /\ UNCHANGED <<engineVars, clientVars, status, stream, asked, query, updates, dropped>>

\* The reply to the oldest descriptor request.
KernelDescribe ==
  /\ asked # <<>>
  /\ LET s == Head(asked)
     IN  Post(IF s \in Live THEN Desc(s) ELSE Error(ENOENT))
  /\ asked' = Tail(asked)
  /\ UNCHANGED <<engineVars, clientVars, status, counter, query, updates, dropped>>

\* The reply to a count query, which may come late: after the removal.
KernelReport(s) ==
  /\ s \in query
  /\ query' = query \ {s}
  /\ Post(Counted(s))
  /\ UNCHANGED <<engineVars, clientVars, status, counter, asked, updates, dropped>>

KernelUpdate(s, p) ==
  /\ status[s] = "live" /\ p \in {E!NoDesc, OwnerOf[s]}
  /\ updates < MaxUpdates
  /\ updates' = updates + 1
  /\ Post(Update(s, p))
  /\ UNCHANGED <<engineVars, clientVars, status, counter, asked, query, dropped>>

\* A reply that does not fit the socket buffer is dropped for an ENOBUFS error.
KernelDropsDesc ==
  /\ Lossy /\ asked # <<>>
  /\ asked' = Tail(asked)
  /\ dropped' = dropped \cup {Head(asked)}
  /\ Post(Error(ENOBUFS))
  /\ UNCHANGED <<engineVars, clientVars, status, counter, query, updates>>

KernelDropsCounts(s) ==
  /\ Lossy /\ s \in query
  /\ query' = query \ {s}
  /\ Post(Error(ENOBUFS))
  /\ UNCHANGED <<engineVars, clientVars, status, counter, asked, updates, dropped>>

Kernel ==
  \/ \E s \in SrcRefs : KernelOpen(s) \/ KernelClose(s)
  \/ \E s \in SrcRefs, d \in Dir : KernelTraffic(s, d)
  \/ KernelDescribe
  \/ KernelDropsDesc
  \/ \E s \in SrcRefs : KernelReport(s) \/ KernelDropsCounts(s)
  \/ \E s \in SrcRefs, p \in Pids \cup {E!NoDesc} : KernelUpdate(s, p)

----------------------------------------------------------------------------
(* The client: one arm of apply per message.                               *)

ApplyAdded(m) ==
  /\ m.type = "added"
  /\ E!OnAdded(m.src)
  /\ requested' = requested \cup {m.src}
  /\ pending'   = IF m.src \in requested THEN pending ELSE Append(pending, m.src)
  /\ UNCHANGED lastError

ApplyDesc(m) ==
  /\ m.type = "desc"
  /\ E!OnDesc(m.src, m.pid)
  /\ UNCHANGED <<requested, pending, lastError>>

ApplyCounts(m) ==
  /\ m.type = "counts"
  /\ E!OnCounts(m.src, m.counts)
  /\ UNCHANGED <<requested, pending, lastError>>

ApplyUpdate(m) ==
  /\ m.type = "update"
  /\ E!OnUpdate(m.src, m.counts, m.pid)
  /\ UNCHANGED <<requested, pending, lastError>>

\* Mutant: the srcref stays in requested.
ApplyRemovedKeepsRequested(m) ==
  /\ m.type = "removed"
  /\ E!OnRemoved(m.src)
  /\ UNCHANGED <<requested, pending, lastError>>

ApplyRemoved(m) ==
  /\ m.type = "removed"
  /\ E!OnRemoved(m.src)
  /\ requested' = requested \ {m.src}
  /\ UNCHANGED <<pending, lastError>>

\* Mutant: the transient error is recorded too.
ApplyErrorAny(m) ==
  /\ m.type = "error"
  /\ lastError' = m.code
  /\ UNCHANGED <<engineVars, requested, pending>>

ApplyError(m) ==
  /\ m.type = "error"
  /\ lastError' = IF m.code = ENOBUFS THEN lastError ELSE m.code
  /\ UNCHANGED <<engineVars, requested, pending>>

Apply(m) == \/ ApplyAdded(m) \/ ApplyDesc(m)    \/ ApplyCounts(m)
            \/ ApplyUpdate(m) \/ ApplyRemoved(m) \/ ApplyError(m)

----------------------------------------------------------------------------
(* The client: drain, and the calls its callers make between drains.       *)

\* Mutants: what is not live is sent too; it ends the batch and stays; the sent
\* requests stay; the requests beyond the batch are dropped.
TakeDescBatchBlind(queue, live, batch) ==
  LET n == Min({batch, Len(queue)})
  IN  [out |-> SubSeq(queue, 1, n), rest |-> SubSeq(queue, n + 1, Len(queue))]
TakeDescBatchBlocked(queue, live, batch) ==
  LET n == Max({k \in 0..Min({batch, Len(queue)}) : \A i \in 1..k : queue[i] \in live})
  IN  [out |-> SubSeq(queue, 1, n), rest |-> SubSeq(queue, n + 1, Len(queue))]
TakeDescBatchPeeks(queue, live, batch) ==
  [out |-> SubSeq(queue, 1, Min({batch, Len(queue)})), rest |-> queue]
TakeDescBatchOnce(queue, live, batch) ==
  [out |-> SubSeq(queue, 1, Min({batch, Len(queue)})), rest |-> <<>>]

\* The queue is popped up to its batch-th live srcref, or to its end; what is not
\* live is dropped on the way and does not count.
TakeDescBatch(queue, live, batch) ==
  LET liveUpTo(n) == Cardinality({k \in 1..n : queue[k] \in live})
      cut   == Min({n \in 0..Len(queue) : n = Len(queue) \/ liveUpTo(n) = batch})
      at(i) == Min({n \in 1..cut : liveUpTo(n) = i})
  IN  [out  |-> [i \in 1..liveUpTo(cut) |-> queue[at(i)]],
       rest |-> SubSeq(queue, cut + 1, Len(queue))]

StartDrain ==
  /\ pc = "ready"
  /\ pc' = "draining"
  /\ UNCHANGED <<engineVars, requested, pending, lastError, kernelVars>>

Receive ==
  /\ pc = "draining" /\ stream # <<>>
  /\ Apply(Head(stream))
  /\ stream' = Tail(stream)
  /\ UNCHANGED <<pc, status, counter, asked, query, updates, dropped>>

\* recv_into found the socket empty: the loop ends.
WouldBlock ==
  /\ pc = "draining" /\ stream = <<>>
  /\ pc' = "pumping"
  /\ UNCHANGED <<engineVars, requested, pending, lastError, kernelVars>>

Pump ==
  LET taken == TakeDescBatch(pending, requested, Batch)
  IN  /\ pc = "pumping"
      /\ pending' = taken.rest
      /\ asked' = asked \o taken.out
      /\ pc' = "ready"
      /\ UNCHANGED <<engineVars, requested, lastError, status, counter, stream, query, updates, dropped>>

PollCounts ==
  /\ pc = "ready"
  /\ query' = query \cup Live
  /\ UNCHANGED <<engineVars, clientVars, status, counter, stream, asked, updates, dropped>>

Tick(dt) ==
  /\ pc = "ready"
  /\ E!Tick(dt)
  /\ UNCHANGED <<clientVars, kernelVars>>

Reprime ==
  /\ pc = "ready"
  /\ E!Reprime
  /\ UNCHANGED <<clientVars, kernelVars>>

Client ==
  \/ StartDrain \/ Receive \/ WouldBlock \/ Pump
  \/ PollCounts
  \/ \E dt \in Spans : Tick(dt)
  \/ Reprime

Next == Kernel \/ Client

Spec == Init /\ [][Next]_vars

\* The caller's loop drains and polls for ever, a drain runs to its end, and the
\* kernel answers, if not every request, then not none of them for ever.
Fairness ==
  /\ WF_vars(StartDrain) /\ WF_vars(Receive) /\ WF_vars(WouldBlock) /\ WF_vars(Pump)
  /\ SF_vars(PollCounts)
  /\ SF_vars(KernelDescribe)
  /\ \A s \in SrcRefs : SF_vars(KernelReport(s))

FairSpec == Spec /\ Fairness

----------------------------------------------------------------------------
(* Properties.                                                             *)

Described(s) == s \in DOMAIN flows /\ flows[s].described

Occurrences(queue, x) == Cardinality({k \in DOMAIN queue : queue[k] = x})

\* The client's tables and queues hold what their types say.
TypeOK ==
  /\ E!TypeOK
  /\ requested \subseteq SrcRefs /\ pending \in Seq(SrcRefs) /\ asked \in Seq(SrcRefs)
  /\ lastError \in {NoError, ENOENT}
  /\ pc \in {"ready", "draining", "pumping"}

\* Flows and requested move together: every announced source has a flow and a
\* place in requested until its removal is applied, and nothing else has, not
\* even a source whose counts arrive after its removal.
FlowsAreRequested == DOMAIN flows = requested

\* Once the client has caught up with the kernel and every request is answered,
\* the flows are the live sources, each credited to its owner.
CaughtUp == stream = <<>> /\ asked = <<>> /\ pending = <<>>
SettlesOnLive ==
  CaughtUp => /\ DOMAIN flows = Live
              /\ \A s \in Live : flows[s].described /\ flows[s].pid = OwnerOf[s]

\* "srcrefs we've already asked the kernel to describe (once each)"
\* (src/ntstat/mod.rs:69): the request of a source is in one place at most, the
\* paced queue, the kernel or, answered, the socket, and is in one of them as long
\* as the source is announced and not described, unless the kernel dropped the
\* reply: none is sent twice and none is forgotten.
OneRequestEach ==
  \A s \in SrcRefs :
    LET places == Occurrences(pending, s) + Occurrences(asked, s) + Occurrences(stream, Desc(s))
    IN  /\ places <= 1
        /\ s \in requested /\ ~Described(s) /\ s \notin dropped => places = 1 \/ Waiting(Removed(s))

\* A drain sends at most DESC_BATCH requests, and none for a source whose removal
\* it could have read: an ENOENT reply means that the source closed while the
\* requests were going out (take_desc_batch).
PacedAndFresh ==
  [][ asked' # asked /\ pc = "pumping" =>
        /\ Len(asked') <= Len(asked) + Batch
        /\ \A k \in (Len(asked) + 1)..Len(asked') :
             status[asked'[k]] = "live" \/ Waiting(Removed(asked'[k])) ]_vars

\* The TOTAL column never goes down from one tick to the next while the process
\* stays in the table, whatever opens, closes and counts in between.
TotalNeverDrops ==
  [][ \A p \in DOMAIN rows \cap DOMAIN rows' : \A d \in Dir :
        rows'[p].total[d] >= rows[p].total[d] ]_rows

\* Every source the kernel keeps open is described in the end, however the
\* descriptor requests are paced, unless the kernel dropped the reply.
EventuallyDescribed ==
  \A s \in SrcRefs :
    (status[s] = "live") ~> (Described(s) \/ status[s] = "closed" \/ s \in dropped)

\* "transient, recovered next poll" (src/ntstat/mod.rs:191): a source the kernel
\* keeps open is described in the end, whatever replies are dropped.
RecoveredNextPoll ==
  \A s \in SrcRefs : (status[s] = "live") ~> (Described(s) \/ status[s] = "closed")

\* Lost counts are recovered by a later poll: every source the kernel keeps open
\* has its counters reported in the end.
EventuallyCounted ==
  \A s \in SrcRefs :
    (status[s] = "live") ~> ((s \in DOMAIN flows /\ flows[s].counted) \/ status[s] = "closed")
=============================================================================
