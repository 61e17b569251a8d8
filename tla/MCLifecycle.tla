---------------------------- MODULE MCLifecycle -----------------------------
(* Lifecycle, and the App in it, on two processes and one column.          *)
EXTENDS Lifecycle

CONSTANTS p1, p2
TwoPids == {p1, p2}
OneKey  == {"Rate"}

\* Arguments that reach every arm of parse_opts; the mouse is the one option that
\* the TUI's life cycle depends on.
MCArgs == {<<>>, <<"--mouse">>, <<"--help">>, <<"--interval">>, <<"--interval", "inf">>,
           <<"--once", "--interval", "0.2">>, <<"--sort", "--json">>, <<"--flows">>,
           <<"--json", "--flows">>, <<"--diag", "--no-resolve">>, <<"--bogus", "--once">>,
           <<"--once", "--sort", "name", "--reverse">>}
MCSeconds == [a \in {"0.2", "inf"} |-> IF a = "inf" THEN 1000000 ELSE 2]
MCSignals == <<15, 2>>
=============================================================================
