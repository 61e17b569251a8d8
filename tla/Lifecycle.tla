------------------------------ MODULE Lifecycle ------------------------------
(***************************************************************************)
(* A run of the program from its arguments to its exit status: main,       *)
(* parse_opts and run_tui of src/main.rs around the loop of module App, the *)
(* steps of ControlSocket::open (src/ntstat/sys.rs) and Monitor::new       *)
(* (src/ntstat/mod.rs), and the terminal they must leave as they found it. *)
(*                                                                         *)
(* Every system call may fail, the loop may return an error or panic at    *)
(* any point of a pass, and a signal may arrive at any time.  Undoing a    *)
(* terminal mode is taken to succeed.                                      *)
(***************************************************************************)
EXTENDS App

CONSTANTS
  ArgLists,    \* argument lists the program may be given
  Seconds,     \* the numbers among the arguments, in tenths of a second
  Signals      \* the signals run_tui registers, in order

ASSUME LifeAssumption ==
  /\ ArgLists \subseteq Seq(STRING)
  /\ Signals \in Seq(1..31)
  /\ \A a \in DOMAIN Seconds : Seconds[a] \in Int

VARIABLES
  phase,      \* where main is
  step,       \* calls done of the phase
  opts,       \* Opts, and the mode main chose
  handled,    \* how many signals have a handler
  signum,     \* the flag the handlers set: a signal number or 0
  terminal,   \* what is switched on: raw mode, alternate screen, mouse capture
  hooks,      \* panic hooks, the one that runs first at the end
  res,        \* what the closure of run_tui returned
  status      \* exit status, or NoStatus

lifeVars == <<vars, phase, step, opts, handled, signum, terminal, hooks, res, status>>

----------------------------------------------------------------------------
(* Options.                                                                *)

MinInterval == 2
MaxInterval == 36000
SortNames   == {"rate", "total", "name", "conns", "pid"}
Help        == {"--help", "-h", "--version", "-V"}

DefaultOpts ==
  [interval |-> 10, resolve |-> TRUE, mouse |-> FALSE, sort |-> "rate",
   reverse |-> FALSE, flows |-> FALSE]

\* One turn of the loop of parse_opts, which may have taken the option before a
\* for one that needs a value.
Parsed(st, a) ==
  LET set(o)    == [st EXCEPT !.opts = o, !.wants = "option"]
      wants(w)  == [st EXCEPT !.wants = w]
      o == st.opts
  IN
  CASE st.wants = "interval" ->
         IF a \in DOMAIN Seconds /\ Seconds[a] \in MinInterval..MaxInterval
         THEN set([o EXCEPT !.interval = Seconds[a]]) ELSE wants("error")
    [] st.wants = "sort" ->
         IF a \in SortNames THEN set([o EXCEPT !.sort = a]) ELSE wants("error")
    [] st.wants = "error"    -> st
    [] a = "--interval"      -> wants("interval")
    [] a = "--sort"          -> wants("sort")
    [] a = "--reverse"       -> set([o EXCEPT !.reverse = TRUE])
    [] a = "--no-resolve"    -> set([o EXCEPT !.resolve = FALSE])
    [] a = "--mouse"         -> set([o EXCEPT !.mouse = TRUE])
    [] a = "--flows"         -> set([o EXCEPT !.flows = TRUE])
    [] a \in {"--once", "--json", "--diag"} -> st
    [] OTHER                 -> wants("error")

ParseOpts(args) ==
  LET end == FoldLeft(Parsed, [opts |-> DefaultOpts, wants |-> "option"], args)
  IN  [opts  |-> end.opts,
       valid |-> end.wants = "option" /\ (end.opts.flows => "--json" \in ToSet(args))]

ModeOf(args) ==
  CASE "--diag" \in ToSet(args) -> "diag"
    [] "--diag" \notin ToSet(args) /\ "--json" \in ToSet(args) -> "json"
    [] ToSet(args) \cap {"--diag", "--json", "--once"} = {"--once"} -> "once"
    [] OTHER -> "tui"

----------------------------------------------------------------------------
NoStatus == -1
Cooked   == [raw |-> FALSE, alt |-> FALSE, mouse |-> FALSE]

LifeInit ==
  /\ Init
  /\ phase = "args" /\ step = 0
  /\ opts = [set |-> DefaultOpts, mode |-> "tui"]
  /\ handled = 0 /\ signum = 0
  /\ terminal = Cooked /\ hooks = <<>> /\ res = "none" /\ status = NoStatus

Exit(code) ==
  /\ phase' = "exited"
  /\ status' = code
  /\ UNCHANGED <<vars, step, opts, handled, signum, terminal, hooks, res>>

Enter(p) ==
  /\ phase' = p
  /\ step' = 0
  /\ UNCHANGED <<vars, opts, handled, signum, hooks, status>>

\* main, up to the choice of a mode.
Start(args) ==
  /\ phase = "args"
  /\ IF ToSet(args) \cap Help # {} THEN Exit(0)
     ELSE IF ~ParseOpts(args).valid THEN Exit(2)
     ELSE /\ phase' = "open"
          /\ opts' = [set |-> ParseOpts(args).opts, mode |-> ModeOf(args)]
          /\ UNCHANGED <<vars, step, handled, signum, terminal, hooks, res, status>>

\* The calls of ControlSocket::open that can fail, and one subscription for each
\* provider.  The socket closes with its owner.
OpenCalls == <<"socket", "ioctl", "connect", "getfl", "setfl", "send", "send", "send", "send">>

OpenStep ==
  /\ phase = "open" /\ step < Len(OpenCalls)
  /\ step' = step + 1
  /\ UNCHANGED <<vars, phase, opts, handled, signum, terminal, hooks, res, status>>

Opened ==
  /\ phase = "open" /\ step = Len(OpenCalls)
  /\ Enter(IF opts.mode = "tui" THEN "signals" ELSE "oneshot")
  /\ UNCHANGED <<terminal, res>>

\* An error of Monitor::new, of registering a signal or of a one-shot mode
\* propagates to main.
EarlyError ==
  /\ \/ phase = "open" /\ step < Len(OpenCalls)
     \/ phase = "signals" /\ handled < Len(Signals)
     \/ phase = "oneshot"
  /\ Exit(1)

\* print! panics when the reader of standard output has gone.
OneShotPanics == phase = "oneshot" /\ Exit(101)

OneShotDone == phase = "oneshot" /\ Exit(0)

Register ==
  /\ phase = "signals" /\ handled < Len(Signals)
  /\ handled' = handled + 1
  /\ UNCHANGED <<vars, phase, step, opts, signum, terminal, hooks, res, status>>

\* Mutant: the terminal is set up as soon as one handler is there.
RegisteredTooSoon ==
  /\ phase = "signals" /\ handled > 0
  /\ Enter("init")
  /\ UNCHANGED <<terminal, res>>

Registered ==
  /\ phase = "signals" /\ handled = Len(Signals)
  /\ Enter("init")
  /\ UNCHANGED <<terminal, res>>

\* ratatui::init (external): its panic hook, raw mode, then the alternate screen.
InitTerminal ==
  /\ phase = "init"
  /\ step' = step + 1
  /\ phase' = IF step = 2 THEN "hook" ELSE "init"
  /\ hooks' = IF step = 0 THEN Append(hooks, "restore") ELSE hooks
  /\ terminal' = CASE step = 1 -> [terminal EXCEPT !.raw = TRUE]
                   [] step = 2 -> [terminal EXCEPT !.alt = TRUE]
                   [] OTHER    -> terminal
  /\ UNCHANGED <<vars, opts, handled, signum, res, status>>

\* Mutant: the hook of ratatui is not called by the one put over it.
HookMouseAlone ==
  /\ phase = "hook"
  /\ hooks' = IF opts.set.mouse THEN <<"mouse">> ELSE hooks
  /\ phase' = "mouse"
  /\ UNCHANGED <<vars, step, opts, handled, signum, terminal, res, status>>

HookMouse ==
  /\ phase = "hook"
  /\ hooks' = IF opts.set.mouse THEN Append(hooks, "mouse") ELSE hooks
  /\ phase' = "mouse"
  /\ UNCHANGED <<vars, step, opts, handled, signum, terminal, res, status>>

\* The closure: mouse capture, then run_loop.
EnableMouse ==
  /\ phase = "mouse"
  /\ Enter("loop")
  /\ terminal' = IF opts.set.mouse THEN [terminal EXCEPT !.mouse = TRUE] ELSE terminal
  /\ UNCHANGED res

\* Mutant: the error leaves run_tui.
EnableMouseEscapes(written) ==
  /\ phase = "mouse" /\ opts.set.mouse
  /\ phase' = "exited" /\ status' = 1
  /\ terminal' = [terminal EXCEPT !.mouse = written]
  /\ UNCHANGED <<vars, step, opts, handled, signum, hooks, res>>

\* A write that fails may have come through in part; the error leaves the closure.
EnableMouseFails(written) ==
  /\ phase = "mouse" /\ opts.set.mouse
  /\ Enter("release")
  /\ terminal' = [terminal EXCEPT !.mouse = written]
  /\ res' = "error"

\* A step of run_loop; the wheel sends events only when the mouse is captured.
LoopStep ==
  /\ phase = "loop"
  /\ \/ Tick \/ NoTick \/ NoRedraw \/ Poll \/ Check
     \/ pc = "draw" /\ \E list \in Lists(table), page \in Pages : Redraw(list, page)
     \/ pc = "burst" /\ \E key \in Keys :
           ReadKey(key) /\ (key \in DOMAIN Wheel => terminal.mouse)
  /\ UNCHANGED <<phase, step, opts, handled, signum, terminal, hooks, res, status>>

\* The loop is left.  What it worked on is not used again, but for the quit, and
\* is put back to where it began.
LeaveLoop(p) ==
  /\ phase = "loop"
  /\ phase' = p
  /\ app' = [FirstApp EXCEPT !.shouldQuit = app.shouldQuit]
  /\ shown' = <<>> /\ table' = {} /\ needsRedraw' = TRUE
  /\ pc' = "top" /\ events' = 0
  /\ UNCHANGED <<signal, step, opts, handled, signum, terminal, hooks, status>>

\* Where run_loop makes a call that may fail: drain and poll_counts, draw, poll,
\* read.
Calling == pc \in {"top", "draw", "wait", "burst"}

LoopFails   == Calling /\ LeaveLoop("release") /\ res' = "error"
LoopPanics  == Calling /\ LeaveLoop("unwind") /\ res' = res
LoopReturns == pc = "done" /\ LeaveLoop("release") /\ res' = "ok"

\* A panic in init, which expects every call to succeed, or before the loop.
Panics ==
  /\ \/ phase = "init" /\ step > 0
     \/ phase = "mouse"
  /\ Enter("unwind")
  /\ UNCHANGED <<terminal, res>>

\* The hooks run before the stack unwinds; nothing else touches the terminal then.
Unwind ==
  /\ phase = "unwind"
  /\ IF hooks = <<>> THEN Exit(101)
     ELSE /\ terminal' = IF Last(hooks) = "mouse" THEN [terminal EXCEPT !.mouse = FALSE]
                         ELSE [terminal EXCEPT !.raw = FALSE, !.alt = FALSE]
          /\ hooks' = Front(hooks)
          /\ UNCHANGED <<vars, phase, step, opts, handled, signum, res, status>>

\* What follows the closure, however it ended.
ReleaseMouse ==
  /\ phase = "release"
  /\ Enter("restore")
  /\ terminal' = [terminal EXCEPT !.mouse = IF opts.set.mouse THEN FALSE ELSE @]
  /\ UNCHANGED res

Restore ==
  /\ phase = "restore"
  /\ Enter("end")
  /\ terminal' = [terminal EXCEPT !.raw = FALSE, !.alt = FALSE]
  /\ UNCHANGED res

\* Mutants: whatever set the flag, it was a quit; a signal gives a negative status.
ExitStatusPlain(signal_)   == 0
ExitStatusNegated(signal_) == -signal_

ExitStatus(signal_) == IF signal_ = 0 THEN 0 ELSE 128 + signal_

\* Mutant: res? is forgotten.
EndIgnoresRes ==
  /\ phase = "end"
  /\ Exit(ExitStatus(signum))

End ==
  /\ phase = "end"
  /\ Exit(IF res = "error" THEN 1 ELSE ExitStatus(signum))

\* The world outside (external): the user types while the loop runs.
PressKey ==
  /\ phase = "loop"
  /\ Press
  /\ UNCHANGED <<phase, step, opts, handled, signum, terminal, hooks, res, status>>

\* A signal sets the flag once its handler is there, and kills before that.
Deliver(k) ==
  /\ phase # "exited"
  /\ IF k <= handled
     THEN /\ Signals[k] # signum
          /\ signum' = Signals[k] /\ signal' = TRUE
          /\ UNCHANGED <<app, shown, table, needsRedraw, pc, events, phase, step, opts,
                         handled, terminal, hooks, res, status>>
     ELSE Exit(128 + Signals[k])

Program ==
  \/ \E args \in ArgLists : Start(args)
  \/ OpenStep \/ Opened \/ EarlyError \/ OneShotPanics \/ OneShotDone
  \/ Register \/ Registered \/ InitTerminal \/ HookMouse
  \/ EnableMouse \/ \E written \in BOOLEAN : EnableMouseFails(written)
  \/ LoopStep \/ LoopFails \/ LoopPanics \/ LoopReturns
  \/ Panics \/ Unwind \/ ReleaseMouse \/ Restore \/ End

LifeNext == Program \/ PressKey \/ \E k \in DOMAIN Signals : Deliver(k)

LifeSpec == LifeInit /\ [][LifeNext]_lifeVars

\* The program runs on by itself, and the user does not type faster than it reads.
LifeFairSpec == /\ LifeSpec
                /\ WF_lifeVars(Program)
                /\ SF_lifeVars(pc = "burst" /\ LoopStep /\ pc' # "burst")

----------------------------------------------------------------------------
(* Properties.                                                             *)

\* The state of the UI and of the life cycle hold what their types say.
LifeTypeOK ==
  /\ TypeOK
  /\ phase \in {"args", "open", "oneshot", "signals", "init", "hook", "mouse", "loop",
                "unwind", "release", "restore", "end", "exited"}
  /\ step \in 0..Len(OpenCalls) /\ handled \in 0..Len(Signals)
  /\ signum \in ToSet(Signals) \cup {0}
  /\ signal <=> signum # 0
  /\ terminal \in [raw : BOOLEAN, alt : BOOLEAN, mouse : BOOLEAN]
  /\ res \in {"none", "ok", "error"} /\ status \in 0..255 \cup {NoStatus}

\* However the program ends, by q, an error, a panic or a signal, at whatever step
\* of its set-up or its loop, the terminal is as it was: not raw, on its own screen
\* and with the mouse released (the closure, the hooks and the flag of run_tui).
TerminalIsRestored == phase = "exited" => terminal = Cooked

\* Status 0 from the TUI means that the user quit it: an error of the loop or of
\* the set-up, which the restore comes between, is not lost (res? behind restore).
ZeroMeansQuit ==
  phase = "exited" /\ status = 0 /\ opts.mode = "tui" /\ handled > 0 =>
    app.shouldQuit /\ res = "ok"

\* A signal that arrives while the TUI runs ends it, even when it races a q, and
\* the exit status tells (src/main.rs:92-94, 284-290).
SignalIsReported == signal /\ phase = "loop" ~> phase = "exited" /\ status # 0
=============================================================================
