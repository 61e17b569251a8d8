----------------------------- MODULE RateMeter ------------------------------
(***************************************************************************)
(* What the Engine promises of a throughput figure, with none of its       *)
(* flags: every source has a last reading and a baseline, either of which  *)
(* may be missing.  A rate is the gap between two readings the kernel      *)
(* really made, the earlier of them taken at the sample before, and zero   *)
(* when one of the two is missing.                                         *)
(***************************************************************************)
EXTENDS Integers

CONSTANTS SrcRefs, Counts, NoCount, Gap(_, _), NoRate, Spans

VARIABLE meter    \* source -> [last, base, rate]

Reading == Counts \cup {NoCount}

Init == meter = <<>>

\* A source is watched from now on, perhaps with a first reading.
Open(s, r) ==
  /\ s \notin DOMAIN meter
  /\ meter' = [x \in DOMAIN meter \cup {s} |->
                 IF x = s THEN [last |-> r, base |-> NoCount, rate |-> NoRate]
                          ELSE meter[x]]

\* A reading replaces the last one; it is only taken of a watched source.
Read(s, r) ==
  /\ s \in DOMAIN meter
  /\ meter' = [meter EXCEPT ![s].last = r]

Close(s) ==
  /\ s \in DOMAIN meter
  /\ meter' = [x \in DOMAIN meter \ {s} |-> meter[x]]

\* Every rate is measured from the baseline, which the last reading replaces.
Sample(dt) ==
  meter' = [s \in DOMAIN meter |->
              [last |-> meter[s].last,
               base |-> meter[s].last,
               rate |-> IF meter[s].base # NoCount /\ dt > 0
                        THEN Gap(meter[s].last, meter[s].base) ELSE NoRate]]

\* The baselines are forgotten; the rates on show stay until the next sample.
Rebase == meter' = [s \in DOMAIN meter |-> [meter[s] EXCEPT !.base = NoCount]]

Next ==
  \/ \E s \in SrcRefs, r \in Reading : Open(s, r)
  \/ \E s \in SrcRefs, c \in Counts : Read(s, c)
  \/ \E s \in SrcRefs : Close(s)
  \/ \E dt \in Spans : Sample(dt)
  \/ Rebase

Spec == Init /\ [][Next]_meter
=============================================================================
