------------------------------ MODULE TuiLoop -------------------------------
(***************************************************************************)
(* When the TUI samples: the first half of run_loop in src/main.rs, with   *)
(* the Engine it ticks and the kernel it polls.  A pass drains the socket, *)
(* decides whether to resume, to tick or neither, and waits for input.     *)
(*                                                                         *)
(* Time is a number that only passes while the loop waits.  Every source   *)
(* carries Pace bytes per unit of it, so what a rate should be is known.   *)
(* The kernel is external and prompt: a query is answered, or dropped with *)
(* ENOBUFS, before time goes on.  Descriptors play no part in a rate and   *)
(* are left to Monitor, the rest of the loop to App.                       *)
(***************************************************************************)
EXTENDS Integers, FiniteSets, Sequences

CONSTANTS
  SrcRefs, Pids, Dir, MaxBytes, HistLen, Spans,   \* of the Engine
  Pace,         \* bytes a source carries per unit of time
  Interval,     \* opts.interval
  Waits,        \* how long a pass may wait for input
  MaxTime,      \* bound: length of a session
  MaxUpdates,   \* bound: SRC_UPDATE messages the kernel volunteers
  MaxDrops      \* bound: replies the kernel drops with ENOBUFS

ASSUME TuiLoopAssumption ==
  /\ {Pace, Interval} \subseteq Nat \ {0} /\ Waits \subseteq Nat \ {0}
  /\ {MaxTime, MaxUpdates, MaxDrops} \subseteq Nat
  /\ MaxBytes >= Pace * MaxTime          \* no counter saturates in a session
  /\ 1..MaxTime \subseteq Spans

VARIABLES
  flows, retired, hist, rows,   \* the Engine
  pc,           \* where run_loop is
  lastTick,     \* last_tick
  wasPaused,    \* was_paused
  paused,       \* app.paused
  resumedAt,    \* history: when sampling last began
  polledAt,     \* history: the times of the last two polls, newest first
  now,          \* the clock
  opened,       \* kernel: source -> when it opened
  query,        \* kernel: sources whose counts are owed
  stream,       \* kernel -> client messages
  updates,      \* SRC_UPDATE messages sent so far
  drops         \* history: the times at which a reply was dropped

E == INSTANCE Engine

ASSUME EngineInstance == E!EngineAssumption

engineVars == <<flows, retired, hist, rows>>
loopVars   == <<pc, lastTick, wasPaused, paused, resumedAt, polledAt>>
kernelVars == <<opened, query, stream, updates, drops>>
vars       == <<engineVars, loopVars, kernelVars, now>>

Init ==
  /\ E!Init
  /\ pc = "prime" /\ lastTick = 0 /\ wasPaused = FALSE /\ paused = FALSE /\ resumedAt = 0
  /\ polledAt = <<0, 0>>
  /\ now = 0 /\ opened = <<>> /\ query = {} /\ stream = <<>> /\ updates = 0
  /\ drops = {}

----------------------------------------------------------------------------
(* The kernel and the clock (external).                                    *)

Counter(s) == [d \in Dir |-> Pace * (now - opened[s])]

KernelOpen(s) ==
  /\ s \notin DOMAIN opened
  /\ opened' = [r \in DOMAIN opened \cup {s} |-> IF r = s THEN now ELSE opened[r]]
  /\ stream' = Append(stream, [type |-> "added", src |-> s])
  /\ UNCHANGED <<engineVars, loopVars, query, updates, drops, now>>

KernelReport(s) ==
  /\ s \in query
  /\ query' = query \ {s}
  /\ stream' = Append(stream, [type |-> "counts", src |-> s, counts |-> Counter(s)])
  /\ UNCHANGED <<engineVars, loopVars, opened, updates, drops, now>>

KernelDropsCounts(s) ==
  /\ s \in query /\ Cardinality(drops) < MaxDrops
  /\ query' = query \ {s}
  /\ drops' = drops \cup {now}
  /\ UNCHANGED <<engineVars, loopVars, opened, stream, updates, now>>

KernelUpdate(s) ==
  /\ s \in DOMAIN opened /\ updates < MaxUpdates
  /\ updates' = updates + 1
  /\ stream' = Append(stream, [type |-> "counts", src |-> s, counts |-> Counter(s)])
  /\ UNCHANGED <<engineVars, loopVars, opened, query, drops, now>>

Kernel == \E s \in SrcRefs :
            KernelOpen(s) \/ KernelReport(s) \/ KernelDropsCounts(s) \/ KernelUpdate(s)

----------------------------------------------------------------------------
(* The loop.                                                               *)

\* One message of a drain.
Receive ==
  /\ pc \in {"prime", "drain"} /\ stream # <<>>
  /\ LET m == Head(stream)
     IN  IF m.type = "added" THEN E!OnAdded(m.src) ELSE E!OnCounts(m.src, m.counts)
  /\ stream' = Tail(stream)
  /\ UNCHANGED <<loopVars, opened, query, updates, drops, now>>

\* poll_counts: every open source is queried.
Polled ==
  /\ query' = query \cup DOMAIN opened
  /\ polledAt' = <<now, polledAt[1]>>
  /\ UNCHANGED <<opened, stream, updates, drops, now>>

\* Before the loop: a drain, the first query, and the clock read.
Prime ==
  /\ pc = "prime" /\ stream = <<>>
  /\ Polled
  /\ lastTick' = now
  /\ pc' = "drain"
  /\ UNCHANGED <<engineVars, wasPaused, paused, resumedAt>>

Drained ==
  /\ pc = "drain" /\ stream = <<>>
  /\ pc' = "sample"
  /\ UNCHANGED <<engineVars, lastTick, wasPaused, paused, resumedAt, polledAt, kernelVars, now>>

ResumeEdge == wasPaused /\ ~paused

\* Mutants: the resume asks for no counters, keeps the baselines, or lets the
\* interval run on.
ResumeUnpolled ==
  /\ pc = "sample" /\ ResumeEdge
  /\ E!Reprime
  /\ lastTick' = now /\ resumedAt' = now
  /\ wasPaused' = paused
  /\ pc' = "input"
  /\ UNCHANGED <<paused, polledAt, kernelVars, now>>
ResumeKeepsBaselines ==
  /\ pc = "sample" /\ ResumeEdge
  /\ Polled
  /\ lastTick' = now /\ resumedAt' = now
  /\ wasPaused' = paused
  /\ pc' = "input"
  /\ UNCHANGED <<paused, engineVars>>
ResumeMidInterval ==
  /\ pc = "sample" /\ ResumeEdge
  /\ Polled
  /\ E!Reprime
  /\ resumedAt' = now
  /\ wasPaused' = paused
  /\ pc' = "input"
  /\ UNCHANGED <<paused, lastTick>>

\* The first pass after a pause: fresh counters are asked for and the baselines
\* forgotten; the interval starts anew, so no tick is due.
Resume ==
  /\ pc = "sample" /\ ResumeEdge
  /\ Polled
  /\ E!Reprime
  /\ lastTick' = now /\ resumedAt' = now
  /\ wasPaused' = paused
  /\ pc' = "input"
  /\ UNCHANGED paused

\* A tick is due; not in a pause, nor in the pass that ends one.
TickDue == ~ResumeEdge /\ ~paused /\ now - lastTick >= Interval

Tick ==
  /\ pc = "sample" /\ TickDue
  /\ E!Tick(now - lastTick)
  /\ Polled
  /\ lastTick' = now
  /\ wasPaused' = paused
  /\ pc' = "input"
  /\ UNCHANGED <<paused, resumedAt>>

NoTick ==
  /\ pc = "sample" /\ ~ResumeEdge /\ ~TickDue
  /\ wasPaused' = paused
  /\ pc' = "input"
  /\ UNCHANGED <<engineVars, lastTick, paused, resumedAt, polledAt, kernelVars, now>>

\* The wait for input, with the keys of its burst: p toggles the pause, and an
\* even number of them leaves it as it was.
Input(wait, p) ==
  /\ pc = "input" /\ query = {}
  /\ now + wait <= MaxTime
  /\ now' = now + wait
  /\ paused' = p
  /\ pc' = "drain"
  /\ UNCHANGED <<engineVars, lastTick, wasPaused, resumedAt, polledAt, kernelVars>>

Quit ==
  /\ pc = "input"
  /\ pc' = "done"
  /\ UNCHANGED <<engineVars, lastTick, wasPaused, paused, resumedAt, polledAt, kernelVars, now>>

Loop == \/ Receive \/ Prime \/ Drained \/ Resume \/ Tick \/ NoTick \/ Quit
        \/ \E wait \in Waits, p \in BOOLEAN : Input(wait, p)

Next == Kernel \/ Loop

Spec == Init /\ [][Next]_vars

----------------------------------------------------------------------------
(* Properties.                                                             *)

\* The loop's variables hold what their types say, and the interval being timed
\* never began before sampling did: dt never contains a pause.
TypeOK ==
  /\ E!TypeOK
  /\ pc \in {"prime", "drain", "sample", "input", "done"}
  /\ {wasPaused, paused} \subseteq BOOLEAN
  /\ now \in 0..MaxTime /\ lastTick \in resumedAt..now
  /\ query \subseteq DOMAIN opened /\ DOMAIN flows \subseteq DOMAIN opened

\* "Rates are the delta between successive polls" (README.md:256-257): the rate of
\* a tick is what its source carried between the last two polls, neither less (a
\* poll unanswered at the tick) nor more (a baseline from an earlier one), through
\* late passes, pauses and sources that open at any time.  A reply lost to an
\* earlier poll does not matter: only the ticks that needed it are off.  Counters
\* the kernel volunteers between the polls would count too.
DeltaBetweenPolls ==
  [][ Tick /\ updates = 0 /\ {polledAt[1], polledAt[2]} \cap drops = {} =>
        \A s \in DOMAIN flows, d \in Dir :
          flows[s].primed => flows'[s].rate[d] = Pace * (polledAt[1] - polledAt[2]) ]_vars

\* No rate exceeds what its source can have carried since sampling began again.
NoSpike == \A s \in DOMAIN flows, d \in Dir :
             flows'[s].rate[d] <= Pace * (now - resumedAt)

\* "the paused interval isn't divided into a single tick as a spike"
\* (src/main.rs:377-380): a pause is never measured, as long as the reply to the
\* poll of the resume is not dropped.
PauseNeverMeasured == [][ Tick /\ resumedAt \notin drops => NoSpike ]_vars
=============================================================================
