------------------------------- MODULE OneShot ------------------------------
(***************************************************************************)
(* The snapshot of the one-shot modes: collect_snapshot of src/main.rs,    *)
(* which drives the Monitor by itself.  It settles, draining until every   *)
(* descriptor request is out, and then samples twice.                      *)
(*                                                                         *)
(* Time passes in sleeps of the settle loop; the interval between the      *)
(* samples is at least three of them (0.2 s against 60 ms).                *)
(***************************************************************************)
EXTENDS Monitor

CONSTANTS
  IdleDrains,   \* idle drains that end the settle: 4 in the code
  SettleMax,    \* SETTLE_MAX, in sleeps
  ReplyLag      \* sleeps the kernel may take to answer a descriptor request

IntervalSleeps == 3

ASSUME OneShotAssumption == {IdleDrains, SettleMax, ReplyLag} \subseteq Nat \ {0}

VARIABLES
  at,        \* where collect_snapshot is
  idle,      \* idle_drains
  elapsed,   \* sleeps since settle_start, up to SettleMax
  samples,   \* samples taken
  age,       \* how long each of the requests in asked has waited
  prompt     \* history: live sources announced in the first IdleDrains - 1 sleeps

snapVars == <<at, idle, elapsed, samples, age, prompt>>
allVars  == <<vars, snapVars>>

SnapInit ==
  /\ Init
  /\ at = "settle" /\ idle = 0 /\ elapsed = 0 /\ samples = 0
  /\ age = <<>> /\ prompt = {}

----------------------------------------------------------------------------
\* Requests that were answered leave the front, those just sent join the back.
Ages ==
  age' = IF Len(asked') < Len(asked) THEN Tail(age)
         ELSE age \o [k \in 1..(Len(asked') - Len(asked)) |-> 0]

\* The kernel (external) goes on beside the program.  What it volunteers leaves room
\* in the socket for the replies it owes: MaxStream is a bound of the model.
KernelStep ==
  /\ at # "done"
  /\ Kernel
  /\ stream' # stream /\ asked' = asked => Len(stream') + Len(asked') + Batch <= MaxStream
  /\ Ages
  /\ prompt' = {s \in SrcRefs :
                  /\ status'[s] = "live"
                  /\ IF status[s] = "live" THEN s \in prompt
                     ELSE at \in {"settle", "drain", "sleep"} /\ elapsed < IdleDrains - 1}
  /\ UNCHANGED <<at, idle, elapsed, samples>>

DrainStep ==
  /\ at \in {"drain", "measure"}
  /\ Receive \/ WouldBlock \/ Pump
  /\ Ages
  /\ UNCHANGED <<at, idle, elapsed, samples, prompt>>

\* Mutants: the settle has no bound in time; it ends with the first idle drain.
SettlingForEver == idle < IdleDrains
SettlingOnce    == idle < 1 /\ elapsed < SettleMax

Settling == idle < IdleDrains /\ elapsed < SettleMax

Settle ==
  /\ at = "settle" /\ Settling
  /\ StartDrain
  /\ at' = "drain"
  /\ UNCHANGED <<idle, elapsed, samples, age, prompt>>

CountIdle ==
  /\ at = "drain" /\ pc = "ready"
  /\ idle' = IF pending = <<>> THEN idle + 1 ELSE 0
  /\ at' = "sleep"
  /\ UNCHANGED <<vars, elapsed, samples, age, prompt>>

\* By the end of a sleep the kernel has answered what is due.
Older(sleeps) ==
  /\ \A k \in DOMAIN age : age[k] + sleeps <= ReplyLag
  /\ age' = [k \in DOMAIN age |-> age[k] + sleeps]

Sleep ==
  /\ at = "sleep"
  /\ Older(1)
  /\ elapsed' = Min({SettleMax, elapsed + 1})
  /\ at' = "settle"
  /\ UNCHANGED <<vars, idle, samples, prompt>>

Settled ==
  /\ at = "settle" /\ ~Settling
  /\ at' = "poll"
  /\ UNCHANGED <<vars, idle, elapsed, samples, age, prompt>>

PollSample ==
  /\ at = "poll"
  /\ PollCounts
  /\ at' = "interval"
  /\ UNCHANGED <<idle, elapsed, samples, age, prompt>>

\* The interval passes; then the sample is drained.
Interval ==
  /\ at = "interval"
  /\ Older(IntervalSleeps)
  /\ StartDrain
  /\ at' = "measure"
  /\ UNCHANGED <<idle, elapsed, samples, prompt>>

Measure(dt) ==
  /\ at = "measure" /\ pc = "ready"
  /\ Tick(dt)
  /\ samples' = samples + 1
  /\ at' = IF samples' = 2 THEN "done" ELSE "poll"
  /\ UNCHANGED <<idle, elapsed, age, prompt>>

Program ==
  \/ Settle \/ DrainStep \/ CountIdle \/ Sleep \/ Settled
  \/ PollSample \/ Interval \/ \E dt \in Spans : Measure(dt)

SnapNext == Program \/ KernelStep

SnapSpec == SnapInit /\ [][SnapNext]_allVars

\* The program runs on; a drain meets an empty socket if the socket is empty again
\* and again; the kernel answers what a sleep waits for.
SnapFairSpec ==
  /\ SnapSpec
  /\ WF_allVars(Program)
  /\ SF_allVars(DrainStep /\ pc' = "pumping")
  /\ WF_allVars(KernelStep /\ asked' # asked)

----------------------------------------------------------------------------
(* Properties.                                                             *)

\* The snapshot names every source that was announced while the settle could not
\* yet have ended, however many batches the requests took, unless the settle ran
\* into SETTLE_MAX or the kernel dropped the reply (src/main.rs:174-177).
SnapshotIsNamed ==
  at = "done" /\ elapsed < SettleMax =>
    \A s \in prompt : Described(s) \/ s \in dropped

\* The snapshot is taken in the end, even if sources come so fast that their
\* requests never run out (SETTLE_MAX).
SnapshotEnds == <>(at = "done")
=============================================================================
