------------------------------- MODULE MCRows -------------------------------
(* Rows on three processes and three flows, with ties in both columns.     *)
EXTENDS Rows

\* Characters: a, b, A, 1, two of CJK, a combining mark, the sigmas, a sun, an
\* hourglass, the selectors, and lam and alef, which make a ligature.
Lam == 1604
Alef == 1575
Sun == \h2600
Hourglass == \h231B
Acute == \h301
Capitals == {65, Sigma}
Letters  == {97, 98, SmallSigma, FinalSigma, Lam, Alef}
Wide     == {\h4E00, \h4E8C, Hourglass}
MCChars     == Capitals \cup Letters \cup Wide \cup {49, Sun, Acute, Space, Ellipsis, VS15, VS16}
MCLowerOf   == [c \in MCChars |-> IF c \in Capitals THEN c + 32 ELSE c]
MCCased     == {65, 97, 98, Sigma, SmallSigma, FinalSigma}
MCIgnorable == {Acute, VS15, VS16}
MCWidthOf   == [c \in MCChars |-> IF c \in Wide THEN 2 ELSE IF c \in MCIgnorable THEN 0 ELSE 1]
MCEmoji     == {Sun}
MCTextual   == {Hourglass}
MCJoined    == <<Lam, Alef>> :> 0

\* 1, 1a, a, a1, and a with a capital sigma and another a.
MCTexts == {<<>>, <<49>>, <<49, 97>>, <<97>>, <<97, 49>>, <<97, Sigma>>, <<97, Sigma, 97>>}

\* Names that differ in case only and are as wide as the column, though their
\* characters are wider; a1 behind an hourglass shown as text, b1ab; CJK with a
\* combining mark; and one that has to be cut behind two suns shown as emoji, in
\* whose rest the sigma is not final.
Small  == <<Lam, Alef, 97, 97>>
Capped == <<Lam, Alef, 65, 97>>
Sunny  == <<Sun, VS16, Sun, VS16, 65, Sigma, 97>>
Proc(name, rate, total, conns) == [name |-> name, rate |-> rate, total |-> total, conns |-> conns]
Sock(pid, rate, port) == [pid |-> pid, rate |-> rate, port |-> port]

Busy == [rows  |-> (1 :> Proc(Small, 2, 9, 1)) @@ (12 :> Proc(Capped, 0, 9, 2))
                     @@ (30 :> Proc(<<Hourglass, VS15, 97, 49>>, 0, 3, 1)),
         flows |-> (1 :> Sock(12, 0, 80)) @@ (2 :> Sock(12, 0, 80)) @@ (3 :> Sock(1, 2, 0))]
Idle == [rows  |-> (1 :> Proc(Small, 0, 9, 1)) @@ (12 :> Proc(Capped, 0, 9, 1))
                     @@ (30 :> Proc(<<\h4E00, Acute, \h4E8C>>, 0, 9, 1)),
         flows |-> (1 :> Sock(12, 0, 443)) @@ (2 :> Sock(12, 0, 80)) @@ (3 :> Sock(30, 0, 0))]
Gone == [rows  |-> (12 :> Proc(Sunny, 5, 10, 3)) @@ (40 :> Proc(<<98, 49, 97, 98>>, 0, 0, 1)),
         flows |-> (1 :> Sock(12, 2, 80)) @@ (2 :> Sock(12, 3, 80)) @@ (4 :> Sock(40, 0, 80))]
MCSamples == {Busy, Idle, Gone}
=============================================================================
