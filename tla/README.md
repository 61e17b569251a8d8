# netpeek in TLA+

netpeek is a terminal tool for macOS that shows which process uses the network
and how fast. It subscribes to the kernel's network statistics (`ntstat`), folds
the messages into one flow per socket, samples the flows once per interval into
one row per process, and draws the rows. This directory holds TLA+ models of the
parts of it where order and timing matter, the TLC runs that check them on small
instances, and TLAPS proofs of what holds for every instance.

Paths below are relative to the repository's `src/` directory unless they start
with `README.md`, which is the repository's own.

## The system

| Part | State it keeps | Operations | Who calls it | Modules |
|---|---|---|---|---|
| Engine (`model.rs`) | flows by srcref, carry of closed flows by pid, sample history by pid, the rows of the last tick | `on_added`, `on_desc`, `on_counts`, `on_update`, `on_removed`, `tick`, `reprime` | ntstat client | Engine, RateMeter, EngineMeter, EngineHistory |
| ntstat client (`ntstat/mod.rs`) | `requested`, `pending_desc`, `last_error`, the receive buffer, the Engine | `drain` (receive, `apply`, `pump_desc_requests`), `poll_counts`, `tick`, `reprime` | sampling loop, one-shot modes | Monitor, Wire |
| control socket (`ntstat/sys.rs`) | the descriptor | `open`, `send_bytes`, `recv_into`, `proc_name` | ntstat client | Wire, Lifecycle |
| wire format (`ntstat/wire.rs`) | none | `parse_datagram`, `parse_message`, `sanitize_name` | ntstat client, DNS | Wire |
| sampling loop (`main.rs`, first half of `run_loop`) | `last_tick`, `was_paused` | drain, resume edge, tick, poll | `run_tui` | TuiLoop |
| UI state (`app.rs`) and input loop (second half of `run_loop`) | sort, filter, mode, cursor, anchor, expanded pid, pause, help, quit; `shown_pids`, `needs_redraw` | `handle`, `sync_selection`, `key_to_cmd` | terminal events, redraw | App |
| reverse DNS (`dns.rs`) | LRU cache, in-flight set, channel, four workers | `lookup`, the worker loop | `draw_detail` in `ui.rs`, once per host and frame | Resolver |
| life of the program (`main`, `parse_opts`, `run_tui`) | options, signal flag, terminal modes, panic hooks | option parsing, set-up, restore, exit status | the shell | Lifecycle |
| one-shot modes (`collect_snapshot`, `run_oneshot`, `run_diag`) | none of their own | settle, two samples, print | `main` | OneShot, Rows |
| sort, filter (`sort_rows`, `Filter`, `flows_for`) | none | orders and selects rows and flows | redraw, one-shot modes | Rows |
| document (`export.rs`) | none | table, JSON | one-shot modes | Rows |
| `ui.rs`, `format.rs`, `services.rs` | none, or a static table | text and layout | the above | not modelled |

There is one main thread, which does everything but reverse DNS, and four DNS
workers. The kernel runs beside the main thread and answers in its own time; the
user and whoever sends signals are further actors. What is hard here:

- **Counters that are not there yet.** A new flow holds zeros until the first
  counts come; counters go stale during a pause. Either may be mistaken for a
  baseline and show up as a spike.
- **Bytes of closed flows.** They move from the flow table to a per-pid carry, and
  tick prunes the carry. A total may jump, or be inherited by a reused pid.
- **Paced requests.** Descriptor requests wait in a queue while their sources
  close; the kernel may drop replies (`ENOBUFS`); srcrefs may be reused; counts
  may come after the removal of their source.
- **When the loop samples.** Counters are polled at one tick and used at the next;
  a pause may begin and end anywhere in a pass. The one-shot modes have to guess
  when the kernel has said all it has to say.
- **Untrusted lengths and names.** A datagram packs several messages behind
  headers that claim their lengths, into a buffer that still holds older ones; a
  name may come in by two ways and is printed to a terminal.
- **Hash maps.** Rows and flows come out of them in an order of their own; what is
  on screen must not move for it.
- **Keys against rows.** A burst of keys is interpreted against the rows of the
  last frame, while ticks, sorts and filters rebuild them; the mode may change
  within the burst.
- **Ways out.** The terminal is switched to raw mode, another screen and mouse
  capture in steps, any of which may fail, panic or be interrupted by a signal;
  two hooks and the code behind the loop share the undoing.
- **Two locks.** A lookup checks the cache and the in-flight set one after the
  other; a lookup may never return.

What makes each part correct: rates are only ever measured between two readings
the kernel made, totals neither lose nor double a byte (Engine); the flow table
follows the live sources, each described once (client); what is applied is what
was received (wire); a rate spans exactly two successive polls and never a pause
(loop); the cursor is on a process and stays on it (UI); lookups are bounded, never
lost and never repeated at the same time, and everything in view is answered in the
end (DNS); the terminal is left as it was found and the exit status tells why the
run ended (life of the program); a snapshot is complete and ends (one-shot); rows
keep their places and belong to their flows (rows). The full list, with the line
where each hazard bites and the properties against it, is `"hazards"` in
`PROJECT.json`.

## Modules

`PROJECT.json` maps every definition to its lines.

- **Engine** is `Engine` of `model.rs`, one action per method. A flow is its pid,
  its counter, its baseline (`prev`), its rate and the three flags `described`,
  `counted`, `primed`. `Dir` stands for the two directions. A rate is kept as the
  bytes it stands for over the last `dt`; the division happens where the code
  truncates, in the sample pushed into the history. Counters saturate at
  `MaxBytes`, as `saturating_add` and `saturating_sub` do.
- **RateMeter** says what a throughput figure promises, with none of the Engine's
  flags: a source has a last reading and a baseline, either of which may be
  missing; a rate is the gap between the two or nothing. **EngineMeter** maps the
  Engine to it (`counted` says the reading exists, `primed` that the baseline
  does) and states the implementation as `MeterSpec`. **EngineHistory** adds the
  history variable `shed`, which records what the flows of processes that are not in
  the table closed since the last tick; no step of the Engine depends on it.
- **Monitor** composes the Engine (by `INSTANCE`) with the ntstat client and an
  external kernel. `drain` is taken apart into one step per message, with kernel
  steps in between. The kernel announces sources, closes them, counts, answers
  requests and queries late or never (`Lossy`: the reply is replaced by an
  `ENOBUFS` error), volunteers updates, and may reuse a srcref (`Reuse`). `dropped`
  is a history variable: the sources whose description the kernel dropped.
- **Wire** is the way from the socket to `apply`: `recv_into` with its retry after
  a signal, the walk of `parse_datagram` over the receive buffer, `parse_message`
  with the real lengths and offsets, the validation of descriptors, and the two
  ways a name takes (`parse_pname`, and `proc_name` where the kernel gave none). A
  message is a record of its fields, and a field can be read if it lies within the
  slice the decoder is given. `buf` keeps what earlier datagrams left behind the
  bytes just received. Where Monitor takes messages one by one from a stream, Wire
  shows how that stream comes out of datagrams. `current` and `given` are history
  variables: the datagram received last and what the walk made of it.
- **TuiLoop** composes the Engine with the first half of `run_loop` and a clock.
  Every source carries `Pace` bytes per unit of time, so that what a rate should
  be is known. `resumedAt`, `polledAt` and `drops` are history variables.
- **OneShot** extends Monitor with `collect_snapshot`: the settle loop, its count of
  idle drains and its deadline, then poll, wait, drain, tick, twice. Time is the
  number of sleeps; `ReplyLag` bounds how many of them a reply may take. `prompt` is
  a history variable: the live sources that were announced early.
- **Rows** is what becomes of the Engine's tables: the comparisons of `sort_rows`
  and `flows_for`, `Filter::matches`, the redraw of the TUI, and the document of the
  one-shot modes with its pairing of rows and flows and the cutting and padding of
  names. A hash map yields its entries in any order, chosen anew at every redraw.
  Names are sequences of code points. What Unicode says of a character is a constant:
  its lower case, its width, whether it has a case, which ones a variation selector
  turns into an emoji or into text, which sequences are drawn as one. How the code and
  its libraries use these tables is modelled: `sort_rows` lowers a name character by
  character (`LowerChars`), `Filter` as a string, where a capital sigma depends on what
  is around it (`Lower`); `trunc` tests the width of a string (`StrWidth`) and cuts by
  the widths of its characters (`CharsWidth`). U+0130, the one character whose lower
  case is two, is left out.
- **App** is `app.rs` with `key_to_cmd` and the second half of `run_loop`. A filter
  is the length of its text; which rows it leaves, and how the sort orders them,
  is left open at every redraw, so what is checked holds for any sort and filter.
- **Lifecycle** extends App to the whole run: `main`, `parse_opts` as a fold over
  the arguments, the calls of `ControlSocket::open` that may fail, the registration
  of signals, the steps of `ratatui::init`, the panic hooks, the loop, and the way
  back. Any call of the loop may return an error or panic; a signal may come at any
  time, and kills the program if its handler is not there yet.
- **Resolver** is `dns.rs`, one step per critical section, with the frame of
  `draw_detail` as its client. The LRU cache and the channel are external.
- **MCEngine, MCMonitor, MCWire, MCTuiLoop, MCOneShot, MCRows, MCLifecycle,
  MCResolver** give the constants values for TLC. **EngineProofs, MonitorProofs,
  WireProofs, TuiLoopProofs, RowsProofs, LifecycleProofs** (with those about App) and
  **ResolverProofs** hold the proofs, **FoldLemmas** what they need of sums and of the
  ends of sets of numbers.

Operators introduced by a comment "Mutant" are not used by any specification. Each
is a plausible mistake in the definition that follows it; replacing the definition
by it must make TLC report a violation of the property `PROJECT.json` pairs it
with, which shows that the property constrains the code.

## Runs

| Run | Question | Bounds and why they are enough |
|---|---|---|
| MCEngine | Do the tables agree, are rates measured, are totals kept, is the carry of a process out of the table fresh, does the Engine implement RateMeter, whatever messages come in whatever order? | Two sources, one process besides pid 0, one direction, counters 0..2, history of 2, `dt` 0 or 2. Two flows give an open one beside a closed one, 0..2 gives growth twice, a reset and saturation, two samples fill the history. The directions do not interact. |
| MCEngineBleed (violation) | Does a new process ever inherit the carry of an old one? | as above |
| MCMonitor | Are requests paced, fresh, asked once and never forgotten, does the flow table hold exactly the announced sources, and is every source described and counted in the end, although replies are late or dropped? | Two sources, batches of one request, two messages in the socket, one volunteered update, no reuse. With a batch of one, two sources already queue behind each other. |
| MCMonitorReuse | Does the flow table follow the live sources when srcrefs come back, and does TOTAL never drop? | Two sources of one process, batch of two, counters 0..1, ticks. A source is only announced while at most one message or request is under way (`MaxQueued`), which bounds how many lives of a srcref overlap. |
| MCMonitorStranded (violation) | Is a dropped description recovered? | two sources, no reuse |
| MCWire | Is what is applied what was received, are names clean, does a drain empty the socket? | Datagrams of up to three messages: every kind at, and just below, the length its kind needs, descriptors that must be refused, hostile names, headers that claim too little or too much. The buffer (320 bytes) is a little longer than the longest message and shorter than some datagrams, so that they are cut off; two datagrams, so that one lies over what the other left. |
| MCTuiLoop | Does a rate span exactly two successive polls, and never a pause? | One source (flows are sampled independently), interval 2, passes 1 or 2 apart, ten units: room for two ticks, a pause of several intervals and two more ticks; one volunteered update and one dropped reply, which the properties exempt only where the lost reply is the one needed. |
| MCOneShot | Does a snapshot name every source announced early, and does it end? | Two sources of one process, batches of one, three messages in the socket, srcrefs that come back. Two idle drains end the settle (four in the code) and a reply takes at most one sleep, so that some come while sampling; longer lags, up to the length of the two intervals, are covered by the proof. The deadline is four sleeps, which a source that keeps coming back reaches. |
| MCRows | Do rows and flows keep their places, does a longer filter only narrow, do flows belong to their rows, do columns line up? | Three samples of two or three processes and three flows with ties in both of the columns Rate and Name, and processes and flows that come and go; filter texts of a letter, a digit and a capital sigma, typed and erased one character at a time; in a column of three, names with capitals, wide characters and a combining mark, a ligature and an hourglass shown as text (wider by their characters than as strings), and suns shown as emoji (the other way round). All orders of the maps. Both exceptions the properties make occur: without them TLC finds each violated. |
| MCLifecycle | Is the terminal restored and the status right on every way out, is the cursor always on its process, does typing never quit, is nothing done after a quit, does a signal end the loop? | Two processes, one column, filter of length 0 or 1, page of 2, two waiting events, two signals, twelve argument lists that reach every arm of the parser. Two rows already swap, vanish and leave an empty list; two events make a burst. |
| MCResolver | Is the in-flight set exact and bounded, does what is on screen stay cached? | Six hosts, two workers, cache 4, two in flight, one host per frame: the cache is exactly `MaxInflight + 2 * MaxShown`. |
| MCResolverLive | Is every host in view answered, does the pool stop? | Three hosts (one hangs its worker for ever, one has no name), two workers, two in flight, up to two hosts per frame |

Deadlock is checked in the Engine and Monitor runs. The others may stop: the user
quits (TuiLoop, Lifecycle), the snapshot is taken (OneShot), the document is printed
(Rows), the drain has failed (Wire), the Resolver is dropped and its workers end.

### What the violations show

- **A pid may inherit a carry** (MCEngineBleed). `model.rs:180-182` says that the
  carry is pruned "the moment it has none". It is pruned by the next tick; if a
  reused pid gets its first described flow before that tick, it keeps the bytes
  of the closed process as long as it has a flow.
- **A dropped description is not recovered** (MCMonitorStranded). `ntstat/mod.rs:191`
  says "transient, recovered next poll". Counts are. A descriptor request is popped
  before it is sent and its srcref stays in `requested`, so it is never repeated
  and the flow stays out of every row until its source closes.

### What else the models make plain

No run claims otherwise, and the properties are worded to leave room for it:

- The figure shown is the traffic between the last two polls divided by the time
  since the later of them, so the delta and `dt` belong to neighbouring intervals.
  They are equally long as long as passes are regular; a key press makes a pass
  early, and with `--interval 0.2` an interval lasts between 0.2 and 0.32 s.
- When the reply to the poll of a resume is the one the kernel drops, the first
  tick takes the counter from before the pause as its baseline (`main.rs:377-380`).
  `PauseNeverMeasured` is about a resume whose poll is answered.
- `lookup` misses in the cache, a worker puts the answer and clears the in-flight
  set, and `lookup` then finds the host not in flight: a host may be looked up twice
  while in view (`dns.rs:5-6`). It is harmless otherwise.
- Ctrl-C maps to `Quit`, which closes the help first if it is open (`main.rs:476`,
  `app.rs:130-131`); a second one quits.
- A new TUI sorts by rate already, so the first `r` turns the direction, while
  `main.rs:198-200` calls a key's default direction "the TUI's first press".
- A name that comes with an update and is empty stays empty: the executable's name
  is looked up for a description only (`ntstat/mod.rs:167-176`). Two flows of one
  process may thus have different names, and the row takes that of whichever the
  hash map yields first (`model.rs:303`).
- A name that is too wide and has characters that U+FE0F shows as emoji (a sun, a
  heart) overruns its column: `trunc` tests the width of the string, where such a
  character takes two columns, and cuts by the widths of its characters, where it takes
  one (`export.rs:19`, `26`). So the cut keeps too much of it, or all of it with an
  ellipsis behind, although `export.rs:15-17` say that the result "never exceeds `n`
  columns". `ColumnsLineUp` bounds the excess by the number of these characters.
- A longer filter may bring rows in behind a capital sigma (`model.rs:448`, `461`): the
  filter "ΑΣ" becomes "ας", with the sigma of a word's end, and does not find "ΑΣΑ",
  which becomes "ασα"; "ΑΣΑ" typed to its end does. `FilterNarrows` exempts the step
  from a filter that ends so.
- A printed snapshot panics, with status 101, if the reader of standard output has
  gone (`main.rs:221`).

## Fairness

- Monitor: the client's caller drains for ever (weak fairness of the steps of
  `drain`; `run_loop` drains in every pass) and polls again and again (strong: a
  poll is only enabled between drains). The kernel answers, if not every request,
  then not none of them for ever (strong fairness of the answers beside the drops).
  Nothing is assumed of opens, closes and traffic.
- Wire: the walk runs on (weak), and not every call of `recv` is interrupted by a
  signal (strong). Nothing is assumed of the kernel; the datagrams of a run are
  finitely many, and that a drain ends while the kernel never pauses is not claimed.
- OneShot: the program runs on (weak), a drain reaches an empty socket if the socket
  is empty again and again (strong), and the kernel answers what a sleep waits for
  (weak).
- Resolver: weak fairness of each worker, and of drawing frames: a tick asks for a
  redraw once per interval. `Drop` and the end of a stuck lookup are not fair.
- Lifecycle: weak fairness of the program; strong fairness of the end of a burst. The
  code does not enforce the latter: keys that arrive faster than they are handled
  keep the inner loop of `run_loop` from looking at the signal. `SignalIsReported` is
  about everybody else.

## Proofs

All proofs are checked by TLAPS from the named assumptions of the modules
(`EngineAssumption`, `MeterAssumption`, `MonitorAssumption`, `WireAssumption`,
`OneShotAssumption`, `TuiLoopAssumption`, `RowsAssumption`, `AppAssumption`, `LifeAssumption`,
`ResolverAssumption`; Monitor and TuiLoop, which have an Engine by `INSTANCE`, restate
its assumption as `EngineInstance`), which TLC evaluates in the runs. A theorem that
needs more of the constants says so itself. `WireAssumption` says that a message whose
header claims another length than it has is the last of its datagram: where the next
header is found is what a length means, so a message in the middle has the length it
claims, and nothing is found behind one that claims more than there is, or less than a
header. `RowsAssumption` says what a tick leaves: finitely many rows, figures that are
natural numbers, and a row for the process of every flow; that the filter texts are
reached one character at a time; and of the tables of Unicode only that a space and an
ellipsis are one column wide and join nothing, that a character with a selector is at
least one wide, and that drawing characters as one makes none of them wider.

**FoldLemmas.** A total is a sum over the flow table, and the fold of the community
modules picks the elements in an order of its own. Nothing about it follows without
induction, which is done here by least counterexamples: `LeastSet` gives a smallest
set on which a claim fails. The sum is what its recurrence says (`SumDef`), does not
depend on the order of picking (`SumsAgree`, `SumTakeOut`), and grows with its terms
(`SumMonotone`).

**EngineProofs.** For every set of sources and processes, every counter width,
history length and set of tick lengths:

- `TypeCorrect`: `TypeOK` always holds, history bound included. It is inductive by
  itself; the work is in the lemmas on the table (`PutType`, `WithDescType`,
  `WithCountsType`), on a tick (`SampledType`, `RowType`, `PushType`), and in one
  step per action.
- `RatesAreMeasured`: `RateIsMeasured` is stated strongly enough to be inductive:
  a flow without counts has zero counters, a zero baseline and no rate. That its
  *rate* is zero needs that its *counter* is.
- `HistoryFollowsTable`: `HistFollowsRows`; only a tick touches either table, and
  it gives both the domain `Owners`. The newest sample is `Push`'s last element
  and a quotient of the row's rate.
- `CarryAlwaysFresh`: `CarryIsFresh`. The carry of a process without a row is exactly
  what `shed` recorded since the last tick. It is inductive by itself: a close adds the
  same bytes to both, and a tick gives the table its owners and leaves no carry to
  anybody else, whether or not the table was the same before.
- `TotalsAreKept`: `TotalsKept`, for any number of flows. What is owed to a process is
  the sum over its flows and its carry, saturated in two places. A close takes a term
  out of the sum and adds it to the carry (`OwnCloses`), anything else that happens
  to one flow leaves the terms of the others alone, and a tick prunes only the carry
  of processes without a flow.
- `EngineMeters`: the Engine implements RateMeter. Each action maps to a step of
  RateMeter or to a stutter; the tick is the interesting one and uses the typing
  of the table and `NoCount \notin Counts`.

**MonitorProofs.** For any number of sources, any pace, delay and loss, and, unless a
theorem says otherwise, with srcrefs that come back:

- `FlowsAlwaysRequested`: the flow table holds exactly the announced sources.
  `FlowsAreRequested` is not inductive: a description or an update creates a flow, so
  it matters what is still in the socket. `Ordered` says that every such message
  stands behind the announcement of its source and before its removal, `Alternates`
  that no source is announced while the client holds it for announced. `Told(s, k)` is what the
  client will believe of `s` after `k` messages; a message posted leaves it alone in
  front of it (`PostTells`), and reading one shifts it by one place (`ReceiveTells`).
- `MonitorTypeCorrect` and `AlwaysPacedAndFresh`: the result of `TakeDescBatch` is
  known by counting (`BatchFacts`): the `i`-th request sent is the `i`-th live srcref
  of the queue. `TableInv` adds to the above who owns the flows.
- `AlwaysOneRequestEach`, for srcrefs that do not come back (`~Reuse`): `Places`
  counts the occurrences of a source's request in the queue, in the kernel and, as its
  answer, in the socket; a batch splits the occurrences in the queue into those sent,
  those kept and those of sources that are gone. A source announced once is requested
  once (`AskedOnce`). With reuse the request of an earlier life may still be under way,
  so the claim is only made, and only checked, without.
- `AlwaysSettlesOnLive`, for a kernel that drops no reply (`~Lossy`): an announced
  source is described or its request is somewhere (`AskedFor`), so with everything
  answered and read nothing is missing. A dropped reply does strand a source, as
  MCMonitorStranded shows.
- `TotalsNeverDrop`: `TotalsKept` of the Engine asks that counters do not fall while a
  flow lives; here it is shown that they do not. `Rising` orders all readings of a
  source within one life, from the flow through the messages in the socket to the
  kernel's counter; `Parted` says that the kernel does not start a source anew while
  counts of its earlier life could still be read after the new announcement.

- `SnapshotAlwaysNamed`: `SnapshotIsNamed` of OneShot, whose steps are all steps of
  Monitor, for a kernel that takes no longer over a description than the two intervals
  between the samples (`ReplyLag <= 2 * IntervalSleeps`, 0.4 s in the code). The account
  of requests above (`AskedFor`) leaves three places where the name of a source announced
  early could still be at the end. It is not unannounced: idle drains are never more
  than sleeps, so its announcement is read before the settle can end (`ReadInTime`). It
  is not queued: only an empty queue makes a drain idle (`LeftIdle`). It is not with the
  kernel or in the socket: its request is older than the intervals that have passed
  (`RequestedInTime`), so at the second drain it has been answered. The premise cannot be
  weakened: with a lag of 7 sleeps, where two intervals are 6, TLC finds a snapshot
  without the name. How many idle drains end the settle is not in it: a reply that is
  later than all of them is read with the samples.

**WireProofs.** For any datagrams, paths and size of the buffer:

- `WalkAlwaysFaithful`: `WalkIsFaithful`, with `WireTypeCorrect`. The buffer is not
  cleared between calls of `recv`, so the invariant says in two parts why nothing of an
  older datagram is read: `Holds` that wherever a message of this one starts within the
  buffer the buffer has it there, and `Walking(k)` that the offset is where the `k`-th
  message starts, the `k - 1` in front of it are sound, and what was yielded are those
  of them that can be decoded, by rank. An offset is a sum over the messages in front of
  it, so two messages start at two places (`LayoutHolds`) and a step of the walk by the
  claimed length is a step to the next message. When the walk stops, the `k`-th is the
  first broken or cut one, or there is none, and the yield is complete.
- `NamesAlwaysClean`: whatever the kernel and the file system call a process, no name
  given to `on_desc` can move the cursor or turn text round. The invariant says of every
  message in the buffer, older ones included, that its name is made of code points. That
  `parse_pname` and `proc_name` cut within their input needs that a bounded set of
  positions has ends (`MinOfNats`, `MaxOfNats`).

**TuiLoopProofs.** For every pace, interval, wait, length of session and schedule of
the kernel's replies:

- `SessionInvariant`: the inductive invariant `LoopInv`. `Clocks` relates the tick, the
  last two polls and now; `Announced` says that an open source has a flow or will have
  one before its counters are read, `InFlight` that these rise, from the flow's to what
  the source has carried; `ResumeAnswered` where the counts asked for at the resume are:
  still asked for, in the socket, or in the flow, so that no pass that ticks is without
  them (`ReadBefore`) and no baseline is older (`BaselineAfter`). `LastPoll` and
  `PollBefore` say the same of the counters and baselines of successive polls.
- `LoopTypeCorrect`, `RatesArePollDeltas` and `PausesAreNotMeasured`: `TypeOK`,
  `DeltaBetweenPolls` and `PauseNeverMeasured` follow from it. The two about rates hold
  under the premises the run checks them with, that the replies they are about were not
  dropped.

**RowsProofs.** For every set of samples a tick may leave, every text of the filter,
every column and direction, and whatever order the hash maps yield their entries in:

- Sorting by a strict order has one outcome (`SortedIsArranged`): the position of an
  element is one more than the number of those below it, however the list came. So what
  is shown is a function of the tables if the comparisons leave no ties, which is what
  the last comparison of each is for (`RowOrderIsStrict`, `FlowOrderIsStrict`; names are
  compared as sequences, `Precedes`, whose first difference is a least position).
- `PlacesAlwaysKept`: `PlacesAreKept` follows, with the invariant `RowsInv` that the
  screen is what was let through at the last redraw, arranged.
- `FlowsAlwaysBelong`: `FlowsBelong`. Rows and flows are built in two passes over the
  sorted pids; an entry pairs the two of one index.
- `FilterAlwaysNarrows`: `FilterNarrows`. The last character typed decides whether the
  query is a number, and with that whether pids are compared at all; but what contains
  a longer query contains a shorter one, and what a number begins with is a number
  (`ShorterMatches`). That holds of the texts as lowered: a character behind changes
  the lower case only of a sigma that would otherwise be final (`LowerBegins`).
- `ColumnsAlwaysLineUp`: `ColumnsLineUp`. `trunc` keeps the longest prefix whose
  characters leave room for the ellipsis, and `pad` fills the rest (`LineFills`). A
  string is wider than its characters by at most one column for each that is shown as
  an emoji (`StringBeyondChars`, from a sum of which some terms are raised by one,
  `SumOfMarked`), and a space or an ellipsis behind it adds one and changes nothing in
  front of it (`WidthOfAppend`).

**LifecycleProofs.** For every list of signals, every argument list, and every set of
processes, columns, filter bound and page size:

- `AppTypeCorrect`, `CursorAlwaysAnchored`, of App by itself: the cursor is on a row and
  the anchor is its process. The invariant is inductive together with the type, since
  every path through `handle` and every redraw ends in `Anchored`, whose result is in
  range for every list (`AnchoredCursor`).
- `LifeTypeCorrect`, `LifeCursorAnchored`: the type of the whole state, the range of
  the exit status in it, and the anchoring carried over to the program around the
  loop.
- `TerminalAlwaysRestored`: `TerminalIsRestored` says nothing before the exit, so
  `TerminalInv` says for each phase what is switched on and what stands ready to
  switch it off: during set-up only what a hook or the code behind the closure will
  undo; in the loop the mouse only if its option is set; while unwinding, exactly the
  hooks that are still needed.
- `ZeroAlwaysMeansQuit`: `QuitInv` keeps why the loop was left until the status is
  computed. A signal gives `128 + n`, which is not 0 (`SignalRange`).

- `CursorAlwaysFollows`, `QuitAlwaysMeant`, `NothingEverAfterQuit`: the action
  properties about keys. They are about one step, but not every state allows it:
  `BurstInv` says where in the loop the program can be once a quit is read, and that
  none is pending outside the loop.

The inductive invariant is `LifeInv`, the invariant of App with these; one lemma
takes the steps within the loop, one the way into it, one those that touch only the
terminal.

**ResolverProofs.** For every set of hosts, every pool and every bound:

- `InflightAlwaysHeld`: the in-flight set is the channel and what the workers hold.
  It needs that no host is in two places (`OnePlace`), or the first of two workers to
  finish would take the host out of the set under the other.
- `FlightIsBounded`: neither the set nor the channel outgrows `MaxInflight`, however
  many workers hang: the set's size is the channel's length plus the number of
  workers that hold a host (`Counted`).

- `ScreenAlwaysCached`, for a cache that holds everything in flight and two panes of
  hosts (4096 entries against 1024 lookups in the code): no host on the screen is
  evicted. `ScreenStaysCached` says nothing of the order of the cache, and the order is
  what it rests on: everything used after a host on the screen belongs to the screen,
  to the frame being drawn, or to the at most `MaxInflight` hosts that were in flight
  when the last frame began (`Sheltered`). Were the oldest entry of a full cache on the
  screen, all the others and the host about to be put would be among these, one more
  than there can be (`OldestIsNotShown`). The invariant is kept for two sets at a time,
  the hosts of the last frame and those of the current one already looked up, since the
  second becomes the first when the frame ends.
- `ResolverTypeCorrect`: `TypeOK`, with the cache's capacity and that it holds each host
  once, which needs what `get` and `put` do to a sequence (`NewestProperties`,
  `StoredProperties`).

Every invariant and every action property that a run checks is a theorem. Only
model-checked is liveness, since TLAPS does not handle fairness and `ENABLED`:
`EventuallyDescribed` and `EventuallyCounted` of Monitor, `DrainEmptiesSocket` of Wire,
`SnapshotEnds` of OneShot, `SignalIsReported` of Lifecycle, `ViewResolves` and
`WorkersShutDown` of Resolver.

## Not modelled

- What follows a failed `send_bytes` or `recv`: the error leaves the program through
  `?`. That it does so with the terminal restored and status 1 is in Lifecycle.
- The bytes of the requests, which are constant, and of socket addresses beyond their
  family, their port and whether they are unspecified.
- Unknown providers: only the four subscribed ones are announced.
- A panic of a DNS worker. It would run the panic hooks and give the terminal back
  while the TUI goes on; nothing in the worker's loop panics on any input modelled.
- The failure to undo a terminal mode: the program has nothing left to try.
- `run_diag` beyond its snapshot, the text of the table and of the JSON document,
  drawing, `format.rs` and `services.rs`: text without control, which the unit tests
  of the repository cover.

## Plan

Done: Engine, RateMeter, EngineMeter, EngineHistory, FoldLemmas, EngineProofs; Monitor,
MonitorProofs; Wire, WireProofs; TuiLoop, TuiLoopProofs; OneShot; Rows, RowsProofs; App;
Lifecycle, LifecycleProofs; Resolver, ResolverProofs. What is left is a composition of
Wire's datagrams with Monitor's stream, of which only its two halves are modelled.
