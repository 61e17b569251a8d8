-------------------------------- MODULE Rows --------------------------------
(***************************************************************************)
(* What the Engine's tables become on a screen or in a document: sort_rows, *)
(* Filter and flows_for of src/model.rs, and their callers, the redraw of  *)
(* run_loop and the one-shot modes (src/main.rs, src/export.rs).           *)
(*                                                                         *)
(* The rows and the flows come out of hash maps, in an order of their own  *)
(* that is left open at every redraw.  Rates and totals are what the keys  *)
(* compare, both directions summed.  A name is a sequence of code points.  *)
(***************************************************************************)
EXTENDS Integers, Sequences, FiniteSets, SequencesExt, FiniteSetsExt, Functions

CONSTANTS
  Samples,     \* what a tick may leave: the rows by pid and the described flows by srcref
  SortKeys,    \* the columns in use, by SortKey
  Texts,       \* bound: the filter texts the user comes to
  NameCols,    \* columns of the PROCESS column
  Chars,       \* characters, as code points: all but U+0130, whose lower case is two
  LowerOf,     \* a character's lower case                  (Unicode, by core::char)
  Cased,       \* characters that have a case               (Unicode, by core)
  Ignorable,   \* characters ignored around a cased one     (Unicode, by core)
  WidthOf,     \* the columns a character takes             (Unicode, by unicode-width)
  Emoji,       \* characters that VS16 turns into emoji     (Unicode, by unicode-width)
  Textual,     \* emoji that VS15 turns into text           (Unicode, by unicode-width)
  Joined       \* sequence drawn as one -> what its last character adds   (by unicode-width)

NoPid    == 0
Space    == 32
Sigma    == 931      \* the one capital with two small forms
SmallSigma == 963
FinalSigma == 962
Ellipsis == \h2026
VS15     == \hFE0E   \* variation selectors: text presentation
VS16     == \hFE0F   \* emoji presentation

ASSUME RowsAssumption ==
  /\ \A s \in Samples :
       /\ DOMAIN s.rows \subseteq Nat \ {0} /\ IsFiniteSet(DOMAIN s.rows)
       /\ \A p \in DOMAIN s.rows :
            /\ {s.rows[p].rate, s.rows[p].total, s.rows[p].conns} \subseteq Nat
            /\ s.rows[p].name \in Seq(Chars)
       /\ DOMAIN s.flows \subseteq Nat /\ IsFiniteSet(DOMAIN s.flows)
       /\ \A f \in DOMAIN s.flows :
            s.flows[f].pid \in DOMAIN s.rows /\ {s.flows[f].rate, s.flows[f].port} \subseteq Nat
  /\ SortKeys \subseteq {"Rate", "Total", "Name", "Conns", "Pid"}
  /\ NameCols \in Nat \ {0}
  /\ \A t \in Texts : t \in Seq(Chars) /\ (t # <<>> => Front(t) \in Texts)
  /\ <<>> \in Texts
  /\ Chars \subseteq Nat /\ {Space, Ellipsis, VS16} \subseteq Chars
  /\ LowerOf \in [Chars -> Nat]
  /\ WidthOf \in [Chars -> Nat] /\ WidthOf[Space] = 1 /\ WidthOf[Ellipsis] = 1
  /\ \A c \in (Emoji \cup Textual) \cap Chars : WidthOf[c] >= 1
  /\ \A o \in DOMAIN Joined :
       /\ o \in Seq(Chars) /\ o # <<>> /\ Last(o) \notin {Space, Ellipsis}
       /\ Joined[o] \in 0..WidthOf[Last(o)]

VARIABLES
  sample,    \* the Engine's rows and flows
  sort,      \* App::sort
  desc,      \* App::sort_desc
  query,     \* App::filter
  expanded,  \* App::expanded
  shown,     \* pids of the rows on screen, top to bottom
  detail,    \* srcrefs of the flows on screen, top to bottom
  last,      \* history: what the screen was drawn from
  doc        \* the document of a one-shot mode, or none yet

vars == <<sample, sort, desc, query, expanded, shown, detail, last, doc>>

NoDoc == [entries |-> <<>>, lines |-> <<>>, key |-> "none"]

----------------------------------------------------------------------------
(* Comparing.                                                              *)

\* cmp_ignore_case lowers a name character by character.
LowerChars(s) == [i \in DOMAIN s |-> LowerOf[s[i]]]

\* The lexicographic order of two sequences of numbers.
Precedes(a, b) ==
  \E i \in 1..(Len(a) + 1) :
    /\ \A k \in 1..(i - 1) : k \in DOMAIN b /\ a[k] = b[k]
    /\ i \in DOMAIN b /\ (i \in DOMAIN a => a[i] < b[i])

\* What a column compares, as a sequence of numbers.
ValueOf(p, r, key) ==
  CASE key = "Rate"  -> <<r.rate>>
    [] key = "Total" -> <<r.total>>
    [] key = "Name"  -> LowerChars(r.name)
    [] key = "Conns" -> <<r.conns>>
    [] key = "Pid"   -> <<p>>

DescendingByDefault(key) == key \in {"Rate", "Total", "Conns"}

\* Mutants: ties are left as they come; the direction turns them too.
RowLessLoose(p, q, rows, key, down) ==
  LET a == ValueOf(p, rows[p], key)
      b == ValueOf(q, rows[q], key)
  IN  IF down THEN Precedes(b, a) ELSE Precedes(a, b)
RowLessTurned(p, q, rows, key, down) ==
  LET a == ValueOf(p, rows[p], key) \o <<p>>
      b == ValueOf(q, rows[q], key) \o <<q>>
  IN  IF down THEN Precedes(b, a) ELSE Precedes(a, b)

\* The comparison of sort_rows: the column in its direction, then the pid upwards.
RowLess(p, q, rows, key, down) ==
  LET a == ValueOf(p, rows[p], key)
      b == ValueOf(q, rows[q], key)
  IN  \/ IF down THEN Precedes(b, a) ELSE Precedes(a, b)
      \/ a = b /\ p < q

\* sort_by (external): stable, by a comparison given as the pairs it puts in order.
Sorted(list, less) ==
  LET above(i) == {j \in DOMAIN list : \/ <<list[j], list[i]>> \in less
                                       \/ <<list[i], list[j]>> \notin less /\ j < i}
  IN  [k \in DOMAIN list |-> list[CHOOSE i \in DOMAIN list : Cardinality(above(i)) = k - 1]]

RowOrder(rows, key, down) ==
  {o \in (DOMAIN rows) \X (DOMAIN rows) : RowLess(o[1], o[2], rows, key, down)}

SortRows(pids, rows, key, down) == Sorted(pids, RowOrder(rows, key, down))

\* Mutant: without the srcref.
FlowLessLoose(f, g, flows) ==
  \/ flows[f].rate > flows[g].rate
  \/ flows[f].rate = flows[g].rate /\ flows[f].port < flows[g].port

\* The comparison of flows_for; no remote endpoint counts as port 0.
FlowLess(f, g, flows) ==
  \/ flows[f].rate > flows[g].rate
  \/ flows[f].rate = flows[g].rate /\ flows[f].port < flows[g].port
  \/ flows[f].rate = flows[g].rate /\ flows[f].port = flows[g].port /\ f < g

FlowOrder(flows) == {o \in (DOMAIN flows) \X (DOMAIN flows) : FlowLess(o[1], o[2], flows)}

\* flows_for: the flows of p, in whatever order the map yields them, sorted.
\* Mutant: those of every process.
FlowsForAll(p, flows) ==
  {Sorted(list, FlowOrder(flows)) : list \in SetToSeqs(DOMAIN flows)}
FlowsFor(p, flows) ==
  {Sorted(list, FlowOrder(flows)) : list \in SetToSeqs({f \in DOMAIN flows : flows[f].pid = p})}

----------------------------------------------------------------------------
(* Filter.                                                                 *)

\* str::to_lowercase (external) looks around a capital sigma: it becomes final
\* if a cased character stands before it, and none behind it.
CasedBefore(s, i) ==
  \E j \in 1..(i - 1) : s[j] \in Cased \ Ignorable /\ \A k \in (j + 1)..(i - 1) : s[k] \in Ignorable
CasedBehind(s, i) ==
  \E j \in (i + 1)..Len(s) : s[j] \in Cased \ Ignorable /\ \A k \in (i + 1)..(j - 1) : s[k] \in Ignorable

Lower(s) ==
  [i \in DOMAIN s |->
     IF s[i] # Sigma THEN LowerOf[s[i]]
     ELSE IF CasedBefore(s, i) /\ ~CasedBehind(s, i) THEN FinalSigma ELSE SmallSigma]

\* q is a piece of s.
Within(s, q) == \E i \in {0} \cup DOMAIN s : \A k \in DOMAIN q : i + k \in DOMAIN s /\ s[i + k] = q[k]

\* The decimal digits of a number, as code points.
Digits(n) ==
  LET d[k \in 0..n] == IF k < 10 THEN <<48 + k>> ELSE Append(d[k \div 10], 48 + (k % 10))
  IN  d[n]

Numeric(q) == q # <<>> /\ \A i \in DOMAIN q : q[i] \in 48..57

\* Mutant: a query of digits is taken for a pid and nothing else.
MatchesPidOnly(q, p, r) ==
  \/ q = <<>>
  \/ ~Numeric(q) /\ Within(Lower(r.name), Lower(q))
  \/ Numeric(q) /\ Within(Digits(p), Lower(q))

Matches(q, p, r) ==
  \/ q = <<>>
  \/ Within(Lower(r.name), Lower(q))
  \/ Numeric(q) /\ Within(Digits(p), Lower(q))

----------------------------------------------------------------------------
(* The text table: a name cut and padded to its column.                    *)

\* The characters of s that VS16 shows as emoji, and those that VS15 shows as text.
Presented(s) == {i \in 1..(Len(s) - 1) : s[i] \in Emoji /\ s[i + 1] = VS16}
Plain(s)     == {i \in 1..(Len(s) - 1) : s[i] \in Textual /\ s[i + 1] = VS15}

\* Where what is drawn as one with the character at i begins.
Joints(s, i) == {k \in 1..(i - 1) : SubSeq(s, k, i) \in DOMAIN Joined}

\* The columns of a string (external, UnicodeWidthStr): what a character takes
\* depends on those before it (a ligature, an emoji and its modifier) and on a
\* selector behind it.
WidthAt(s, i) ==
  IF Joints(s, i) # {} THEN Joined[SubSeq(s, Min(Joints(s, i)), i)]
  ELSE IF i \in Presented(s) THEN 2
  ELSE IF i \in Plain(s) THEN 1 ELSE WidthOf[s[i]]
StrWidth(s) == SumFunction([i \in DOMAIN s |-> WidthAt(s, i)])

\* The columns of its characters, each by itself (external, UnicodeWidthChar).
CharsWidth(s) == SumFunction([i \in DOMAIN s |-> WidthOf[s[i]]])

\* Mutant: characters are counted.
TruncChars(s, n) == IF Len(s) <= n THEN s ELSE Append(SubSeq(s, 1, n - 1), Ellipsis)

\* A string that is too wide is cut in front of the first character that does not
\* fit the budget, and gets an ellipsis: the test measures the string, the cut
\* its characters.
Trunc(s, n) ==
  IF StrWidth(s) <= n THEN s
  ELSE Append(SubSeq(s, 1, Max({k \in 0..Len(s) : CharsWidth(SubSeq(s, 1, k)) <= n - 1})), Ellipsis)

Pad(s, n) == s \o [i \in 1..Max({0, n - StrWidth(s)}) |-> Space]

\* PID and PROCESS of text_table.
Line(p, r) == [pid |-> p, name |-> Pad(Trunc(r.name, NameCols), NameCols)]

----------------------------------------------------------------------------
(* The TUI: what run_loop redraws from.                                    *)

Init ==
  /\ sample \in Samples
  /\ sort = "Rate" /\ desc = TRUE /\ query = <<>> /\ expanded = NoPid
  /\ shown = <<>> /\ detail = <<>> /\ doc = NoDoc
  /\ last = [sample |-> sample, sort |-> sort, desc |-> desc, query |-> query]

Tui == doc = NoDoc

Tick(s) ==
  /\ Tui
  /\ sample' = s
  /\ UNCHANGED <<sort, desc, query, expanded, shown, detail, last, doc>>

PickSort(key) ==
  /\ Tui
  /\ sort' = key
  /\ desc' = IF sort = key THEN ~desc ELSE DescendingByDefault(key)
  /\ UNCHANGED <<sample, query, expanded, shown, detail, last, doc>>

\* A character more makes the text t.
Type(t) ==
  /\ Tui /\ t # <<>> /\ query = Front(t)
  /\ query' = t
  /\ UNCHANGED <<sample, sort, desc, expanded, shown, detail, last, doc>>

Erase ==
  /\ Tui /\ query # <<>>
  /\ query' = Front(query)
  /\ UNCHANGED <<sample, sort, desc, expanded, shown, detail, last, doc>>

Expand(p) ==
  /\ Tui
  /\ expanded' = IF expanded = p THEN NoPid ELSE p
  /\ UNCHANGED <<sample, sort, desc, query, shown, detail, last, doc>>

\* The map yields the rows in some order; those the filter lets through are sorted.
VisibleRows ==
  LET rows == sample.rows
  IN  {SortRows(pids, rows, sort, desc) :
         pids \in SetToSeqs({p \in DOMAIN rows : Matches(query, p, rows[p])})}

Redraw ==
  /\ Tui
  /\ shown' \in VisibleRows
  /\ detail' \in IF expanded = NoPid THEN {<<>>} ELSE FlowsFor(expanded, sample.flows)
  /\ last' = [sample |-> sample, sort |-> sort, desc |-> desc, query |-> query]
  /\ UNCHANGED <<sample, sort, desc, query, expanded, doc>>

----------------------------------------------------------------------------
(* The one-shot modes: run_oneshot.                                        *)

OneShotDescending(key, reverse) == DescendingByDefault(key) # reverse

\* The flows of the document's entries, by position (per_proc).
\* Mutant: they are collected before the rows are sorted.
PerProcUnsorted(pids, sorted, flows, i) == FlowsFor(pids[i], flows)
PerProc(pids, sorted, flows, i)         == FlowsFor(sorted[i], flows)

\* The rows as the map yields them are sorted, and each gets its flows.
OneShot(pids, key, reverse) ==
  LET sorted == SortRows(pids, sample.rows, key, OneShotDescending(key, reverse))
  IN  /\ Tui /\ shown = <<>> /\ query = <<>> /\ expanded = NoPid /\ sort = "Rate" /\ desc
      /\ \E flows \in [DOMAIN sorted -> UNION {PerProc(pids, sorted, sample.flows, i) : i \in DOMAIN sorted}] :
           /\ \A i \in DOMAIN sorted : flows[i] \in PerProc(pids, sorted, sample.flows, i)
           /\ doc' = [entries |-> [i \in DOMAIN sorted |->
                                     [pid |-> sorted[i], row |-> sample.rows[sorted[i]], flows |-> flows[i]]],
                      lines |-> [i \in DOMAIN sorted |-> Line(sorted[i], sample.rows[sorted[i]])],
                      key |-> key]
      /\ UNCHANGED <<sample, sort, desc, query, expanded, shown, detail, last>>

Next ==
  \/ \E s \in Samples : Tick(s)
  \/ \E key \in SortKeys : PickSort(key)
  \/ \E t \in Texts : Type(t)
  \/ Erase
  \/ \E p \in DOMAIN sample.rows : Expand(p)
  \/ Redraw
  \/ \E pids \in SetToSeqs(DOMAIN sample.rows), key \in SortKeys, reverse \in BOOLEAN :
       OneShot(pids, key, reverse)

Spec == Init /\ [][Next]_vars

----------------------------------------------------------------------------
(* Properties.                                                             *)

\* a stands above b.
Above(list, a, b) == \E i, j \in DOMAIN list : i < j /\ list[i] = a /\ list[j] = b

Value(p)   == ValueOf(p, sample.rows[p], sort)
Changed(p) == Value(p) # ValueOf(p, last.sample.rows[p], sort)

\* "Ties always break by pid for a stable, jitter-free table" and "idle flows keep
\* their places between redraws" (src/model.rs:408, 379).  However the maps are
\* iterated and whatever else comes and goes, two processes change places only if
\* the value of one of them did, or the user picks another column, or turns the
\* direction and their values differ; two flows only if one of them did.
RowsKeepPlaces ==
  \A p, q \in ToSet(shown) \cap ToSet(shown') :
    Above(shown, p, q) /\ Above(shown', q, p) =>
      \/ Changed(p) \/ Changed(q) \/ sort # last.sort
      \/ desc # last.desc /\ Value(p) # Value(q)
FlowsKeepPlaces ==
  \A f, g \in ToSet(detail) \cap ToSet(detail') :
    Above(detail, f, g) /\ Above(detail', g, f) =>
      \E h \in {f, g} : sample.flows[h] # last.sample.flows[h]
PlacesAreKept == [][ RowsKeepPlaces /\ FlowsKeepPlaces ]_vars

\* The lower case of q depends on what is typed next: it ends, but for characters
\* that are ignored, in a capital sigma that is final as long as nothing follows.
EndsInSigma(q) ==
  \E i \in DOMAIN q :
    q[i] = Sigma /\ CasedBefore(q, i) /\ \A k \in (i + 1)..Len(q) : q[k] \in Ignorable

\* Another character typed never brings a process in, even where it makes a pid of
\* the query or stops it from being one (Filter::matches), save behind a capital
\* sigma, where the query's own lower case changes: with "A" and sigma it misses
\* what it finds with another "A" behind them.
FilterNarrows ==
  [][ ( /\ sample = last.sample /\ IsPrefix(last.query, query)
        /\ shown # <<>> \/ last.query # <<>>       \* something has been drawn
        /\ ~EndsInSigma(last.query) )
      => ToSet(shown') \subseteq ToSet(shown) ]_<<shown>>

\* Every entry of the document carries the flows of its own process, all of them,
\* in whatever order the rows were sorted into ("flows[i] belongs to rows[i]",
\* src/export.rs:88), and the detail pane shows those of one process.
FlowsBelong ==
  /\ \A i \in DOMAIN doc.entries :
       LET e == doc.entries[i]
       IN  /\ e.row = sample.rows[e.pid]
           /\ ToSet(e.flows) = {f \in DOMAIN sample.flows : sample.flows[f].pid = e.pid}
  /\ Cardinality({last.sample.flows[f].pid : f \in ToSet(detail)}) <= 1

\* The columns behind a name are in their place in every line of the text table,
\* whatever the width of its characters and even if they are wider than together
\* (trunc, pad); save where a name had to be cut that has characters shown as
\* emoji, which the cut takes for narrower than they are: by one column for each.
ColumnsLineUp ==
  \A i \in DOMAIN doc.lines :
    LET name == doc.lines[i].name
    IN  /\ StrWidth(name) \in NameCols..(NameCols + Cardinality(Presented(name)))
        /\ StrWidth(doc.entries[i].row.name) <= NameCols => StrWidth(name) = NameCols
=============================================================================
