-------------------------------- MODULE Wire --------------------------------
(***************************************************************************)
(* From the control socket to the flow table: recv_into (src/ntstat/sys.rs), *)
(* the walk over a datagram and the decoding of its messages               *)
(* (src/ntstat/wire.rs), and the naming of a flow in apply                 *)
(* (src/ntstat/mod.rs).                                                    *)
(*                                                                         *)
(* Lengths and offsets are the real ones, in bytes.  A message is the      *)
(* record of its fields; a field can be read when it lies within the bytes *)
(* the reader is given.  The receive buffer outlives a datagram: behind    *)
(* the bytes just received lies what earlier datagrams left there.         *)
(***************************************************************************)
EXTENDS Integers, Sequences, SequencesExt, FiniteSetsExt

CONSTANTS
  Datagrams,   \* what one recv may find: sequences of messages back to back
  Paths,       \* executable paths a process may have, as code points
  BufLen,      \* bytes in Monitor::buf
  MaxReads     \* bound: datagrams received

HdrLen == 16

----------------------------------------------------------------------------
(* Providers, message types and layouts.                                   *)

IsTcpProvider(p) == p \in {2, 3}
IsUdpProvider(p) == p \in {4, 5}
Known(p)         == IsTcpProvider(p) \/ IsUdpProvider(p)

SUCCESS     == 0
ERROR       == 1
SRC_ADDED   == 10001
SRC_REMOVED == 10002
SRC_DESC    == 10003
SRC_COUNTS  == 10004
SRC_UPDATE  == 10006

PnameLen == 64
TcpMinLen == 196 + PnameLen
UdpMinLen == 132 + PnameLen
MinLen(provider) == IF IsTcpProvider(provider) THEN TcpMinLen ELSE UdpMinLen

NoName     == <<>>
NoEndpoint == [port |-> -1]
NoDesc     == [pid |-> -1]
NoMsg      == [type |-> -1]

\* A message has a type, the length its header claims (len), the bytes it takes
\* in the datagram (size), and the fields of its kind.  The two lengths differ only
\* in a message that is broken, and only the last of a datagram can be: its header
\* claims more than there is, or less than a header.  Names are code points.
ASSUME WireAssumption ==
  /\ BufLen \in Nat \ {0} /\ MaxReads \in Nat \ {0}
  /\ \A d \in Datagrams :
       /\ Len(d) \in Nat /\ DOMAIN d = 1..Len(d)
       /\ \A k \in DOMAIN d :
            /\ {d[k].type, d[k].provider, d[k].len} \subseteq Nat /\ d[k].size \in Nat \ {0}
            /\ d[k].len # d[k].size => k = Len(d) /\ (d[k].len > d[k].size \/ d[k].len < HdrLen)
            /\ d[k].desc.pname \in Seq(Nat)
  /\ Paths \subseteq Seq(Nat)

\* read_u32, read_u64 and get: the field lies within the slice.
Has(len, off, width) == off + width <= len

----------------------------------------------------------------------------
(* Names.  A character is its code point; ones that are not UTF-8 have been *)
(* replaced already.                                                       *)

Replacement == \hFFFD

FormatRanges ==
  {<<\h600, \h605>>, <<\h890, \h891>>, <<\h200B, \h200F>>, <<\h202A, \h202E>>,
   <<\h2060, \h206F>>, <<\hFFF9, \hFFFB>>, <<\h13430, \h1343F>>,
   <<\h1BCA0, \h1BCA3>>, <<\h1D173, \h1D17A>>, <<\hE0000, \hE007F>>}

IsFormat(c) ==
  \/ c \in {\hAD, \h61C, \h6DD, \h70F, \h8E2, \h180E, \hFEFF, \h110BD, \h110CD}
  \/ \E r \in FormatRanges : r[1] <= c /\ c <= r[2]

IsControl(c) == (0 <= c /\ c <= 31) \/ (127 <= c /\ c <= 159)

SanitizeName(s) ==
  [i \in DOMAIN s |-> IF IsControl(s[i]) \/ IsFormat(s[i]) THEN Replacement ELSE s[i]]

\* The bytes of a fixed-width field up to its first NUL, or all of them.
ParsePname(field) ==
  LET ends == {i \in DOMAIN field : field[i] = 0} \cup {Len(field) + 1}
  IN  SanitizeName(SubSeq(field, 1, Min(ends) - 1))

\* proc_name: the last component of the executable's path.
Slash == 47
ProcName(path) ==
  LET cut == Max({0} \cup {i \in DOMAIN path : path[i] = Slash})
  IN  SubSeq(path, cut + 1, Len(path))

----------------------------------------------------------------------------
(* Decoding one message, of which slice bytes can be read.                 *)

ParseSockaddr(sa) ==
  IF sa.family \in {2, 30} /\ ~(sa.unspecified /\ sa.port = 0)
  THEN [port |-> sa.port] ELSE NoEndpoint

LooksValid(desc) ==
  /\ 0 < desc.pid /\ desc.pid < \h400000
  /\ desc.local # NoEndpoint \/ desc.remote # NoEndpoint

ParseDesc(provider, raw, len) ==
  LET desc == [pid |-> raw.pid, pname |-> ParsePname(raw.pname),
               local |-> ParseSockaddr(raw.local), remote |-> ParseSockaddr(raw.remote)]
  IN  IF Known(provider) /\ Has(len, 0, MinLen(provider)) /\ LooksValid(desc)
      THEN desc ELSE NoDesc

ParseMessage(m, slice) ==
  LET desc(at) == IF at <= slice THEN ParseDesc(m.provider, m.desc, slice - at) ELSE NoDesc
  IN
  CASE m.type = SUCCESS -> [type |-> SUCCESS]
    [] m.type = ERROR   -> [type |-> ERROR, code |-> IF Has(slice, 16, 4) THEN m.code ELSE 0]
    [] m.type = SRC_ADDED ->
         IF Has(slice, 16, 8) /\ Has(slice, 24, 4)
         THEN [type |-> SRC_ADDED, src |-> m.src, provider |-> m.provider] ELSE NoMsg
    [] m.type = SRC_REMOVED ->
         IF Has(slice, 16, 8) THEN [type |-> SRC_REMOVED, src |-> m.src] ELSE NoMsg
    [] m.type = SRC_COUNTS ->
         IF Has(slice, 16, 8) /\ Has(slice, 32 + 8, 8) /\ Has(slice, 32 + 24, 8)
         THEN [type |-> SRC_COUNTS, src |-> m.src, counts |-> m.counts] ELSE NoMsg
    [] m.type = SRC_DESC ->
         IF Has(slice, 16, 8) /\ Has(slice, 32, 4) /\ desc(40) # NoDesc
         THEN [type |-> SRC_DESC, src |-> m.src, provider |-> m.provider, desc |-> desc(40)] ELSE NoMsg
    [] m.type = SRC_UPDATE ->
         IF Has(slice, 16, 8) /\ Has(slice, 32 + 24, 8) /\ Has(slice, 144, 4)
         THEN [type |-> SRC_UPDATE, src |-> m.src, provider |-> m.provider,
               counts |-> m.counts, desc |-> desc(152)] ELSE NoMsg
    [] OTHER -> [type |-> m.type]

----------------------------------------------------------------------------
VARIABLES
  buf,          \* Monitor::buf: the messages in it, by the offset they start at
  n,            \* the bytes recv put there
  off,          \* how far the walk is
  pc,           \* drain: idle, recv, walk, or failed
  waiting,      \* datagrams in the socket
  interrupted,  \* a signal has interrupted the next call of recv
  named,        \* the descriptor on_desc was last called with
  reads,        \* datagrams received so far
  current,      \* history: the datagram received last
  given         \* history: the messages the walk made of it

bufVars == <<buf, n, current, reads>>
vars == <<bufVars, off, pc, waiting, interrupted, named, given>>

Init ==
  /\ buf = <<>> /\ n = 0 /\ off = 0 /\ pc = "idle"
  /\ waiting = 0 /\ interrupted = FALSE
  /\ named = [pid |-> 0, name |-> NoName]
  /\ reads = 0 /\ current = <<>> /\ given = <<>>

\* Where the messages of a datagram start, and how long it is.
StartOf(d, k) == SumFunctionOnSet([i \in DOMAIN d |-> d[i].size], 1..(k - 1))
Length(d)     == StartOf(d, Len(d) + 1)

\* The messages of d that start below BufLen, over those left behind its end.
Layout(d) ==
  LET fresh == {k \in DOMAIN d : StartOf(d, k) < BufLen}
      stale == {o \in DOMAIN buf : o >= Min({Length(d), BufLen})}
  IN  [o \in {StartOf(d, k) : k \in fresh} \cup stale |->
         IF \E k \in fresh : StartOf(d, k) = o
         THEN d[CHOOSE k \in fresh : StartOf(d, k) = o] ELSE buf[o]]

\* The kernel (external) posts a datagram; what it holds is settled by Recv.
Post ==
  /\ waiting + reads < MaxReads
  /\ waiting' = waiting + 1
  /\ UNCHANGED <<bufVars, off, pc, interrupted, named, given>>

\* A signal (external) such as SIGWINCH arrives in or before the call.
Interrupt ==
  /\ ~interrupted
  /\ interrupted' = TRUE
  /\ UNCHANGED <<bufVars, off, pc, waiting, named, given>>

StartDrain ==
  /\ pc = "idle"
  /\ pc' = "recv"
  /\ UNCHANGED <<bufVars, off, waiting, interrupted, named, given>>

\* Mutant: EINTR ends the drain like EAGAIN.
RecvInterruptedEnds ==
  /\ pc = "recv" /\ interrupted
  /\ interrupted' = FALSE
  /\ pc' = "idle"
  /\ UNCHANGED <<bufVars, off, waiting, named, given>>

\* EINTR: recv is called again.
RecvInterrupted ==
  /\ pc = "recv" /\ interrupted
  /\ interrupted' = FALSE
  /\ UNCHANGED <<bufVars, off, pc, waiting, named, given>>

\* Mutant: the walk is given the whole buffer.
RecvWholeBuffer(d) ==
  /\ pc = "recv" /\ ~interrupted /\ waiting > 0
  /\ waiting' = waiting - 1
  /\ buf' = Layout(d) /\ n' = BufLen
  /\ off' = 0 /\ given' = <<>> /\ current' = d
  /\ reads' = reads + 1
  /\ pc' = "walk"
  /\ UNCHANGED <<interrupted, named>>

\* A datagram longer than the buffer loses its end (SOCK_DGRAM).
Recv(d) ==
  /\ pc = "recv" /\ ~interrupted /\ waiting > 0
  /\ waiting' = waiting - 1
  /\ buf' = Layout(d) /\ n' = Min({Length(d), BufLen})
  /\ off' = 0 /\ given' = <<>> /\ current' = d
  /\ reads' = reads + 1
  /\ pc' = "walk"
  /\ UNCHANGED <<interrupted, named>>

\* EAGAIN: the drain goes on to its descriptor requests.
RecvWouldBlock ==
  /\ pc = "recv" /\ ~interrupted /\ waiting = 0
  /\ pc' = "idle"
  /\ UNCHANGED <<bufVars, off, waiting, interrupted, named, given>>

\* Any other error leaves drain.
RecvFails ==
  /\ pc = "recv" /\ ~interrupted
  /\ pc' = "failed"
  /\ UNCHANGED <<bufVars, off, waiting, interrupted, named, given>>

Whole(m) == m.len >= HdrLen /\ off + m.len <= n

\* Mutants of the walk's tests.
WalkableZeroLength == off + HdrLen <= n /\ off \in DOMAIN buf /\ off + buf[off].len <= n
WalkableOverrun    == off + HdrLen <= n /\ off \in DOMAIN buf /\ buf[off].len >= HdrLen

\* The walk goes on: a header fits, and its message does.  Where no message starts
\* there is no header to read: no datagram leads there.
Walkable == off + HdrLen <= n /\ off \in DOMAIN buf /\ Whole(buf[off])

\* Mutant: a message is decoded with the bytes of those behind it.
SliceToEnd(m) == n - off

Slice(m) == m.len

\* Mutant: the path's name is taken as it is.
NameOfRaw(desc, path) == IF desc.pname = NoName THEN ProcName(path) ELSE desc.pname

\* apply, SrcDesc: an empty name is replaced by that of the executable, if any.
NameOf(desc, path) == IF desc.pname = NoName THEN SanitizeName(ProcName(path)) ELSE desc.pname

\* The calls of on_desc that apply makes for a message.
Naming(msg, path) ==
  CASE msg.type = SRC_DESC   -> [pid |-> msg.desc.pid, name |-> NameOf(msg.desc, path)]
    [] msg.type = SRC_UPDATE /\ msg.desc # NoDesc ->
                                [pid |-> msg.desc.pid, name |-> msg.desc.pname]
    [] OTHER                 -> named

\* One message is stepped over; what it decodes to, if anything, is applied.
Walk(path) ==
  /\ pc = "walk" /\ Walkable
  /\ LET m == buf[off]
         msg == ParseMessage(m, Slice(m))
     IN  /\ off' = off + m.len
         /\ given' = IF msg = NoMsg THEN given ELSE Append(given, msg)
         /\ named' = IF msg = NoMsg THEN named ELSE Naming(msg, path)
  /\ UNCHANGED <<bufVars, pc, waiting, interrupted>>

WalkEnds ==
  /\ pc = "walk" /\ ~Walkable
  /\ pc' = "recv"
  /\ UNCHANGED <<bufVars, off, waiting, interrupted, named, given>>

Drain == \/ StartDrain \/ RecvInterrupted \/ RecvWouldBlock \/ RecvFails \/ WalkEnds
         \/ \E d \in Datagrams : Recv(d)
         \/ \E path \in Paths : Walk(path)

Next == Drain \/ Post \/ Interrupt

Spec == Init /\ [][Next]_vars

\* A drain runs on by itself, and not every call of recv is interrupted; nothing is
\* assumed of the kernel.
FairSpec ==
  /\ Spec
  /\ WF_vars(RecvInterrupted \/ WalkEnds \/ \E path \in Paths : Walk(path))
  /\ SF_vars(RecvWouldBlock \/ \E d \in Datagrams : Recv(d))

----------------------------------------------------------------------------
(* Properties.                                                             *)

\* The buffer holds messages of the datagrams received, the offset is within
\* what was received, and that is within the buffer.
TypeOK ==
  /\ off \in 0..n /\ n \in 0..BufLen
  /\ DOMAIN buf \subseteq 0..(BufLen - 1)
  /\ pc \in {"idle", "recv", "walk", "failed"}
  /\ waiting \in 0..MaxReads /\ reads \in 0..MaxReads /\ interrupted \in BOOLEAN

\* What the layouts of xnu's ntstat.h say a message needs, to be decodable.
Needs(m) ==
  CASE m.type = SRC_ADDED   -> 28
    [] m.type = SRC_REMOVED -> 24
    [] m.type = SRC_COUNTS  -> 64
    [] m.type = SRC_DESC    -> IF m.provider \in {2, 3} THEN 300 ELSE 236
    [] m.type = SRC_UPDATE  -> 148
    [] OTHER                -> HdrLen

Readable(m) ==
  /\ m.len >= Needs(m)
  /\ m.type = SRC_DESC =>
       m.provider \in 2..5 /\ LooksValid([pid |-> m.desc.pid,
         local |-> ParseSockaddr(m.desc.local), remote |-> ParseSockaddr(m.desc.remote)])

\* The messages of the datagram in front of the first that is broken or cut off,
\* and those of them that can be decoded.
Sound(k) == /\ current[k].len = current[k].size /\ current[k].len >= HdrLen
            /\ StartOf(current, k) + current[k].len <= BufLen
Intact   == {k \in DOMAIN current : \A i \in 1..k : Sound(i)}
Yields   == {k \in Intact : Readable(current[k])}

\* What is made of m.
Tells(g, m) ==
  /\ g.type = m.type
  /\ g.type \in {SRC_ADDED, SRC_REMOVED, SRC_DESC, SRC_COUNTS, SRC_UPDATE} => g.src = m.src

\* The walk yields the messages of the last datagram that arrived whole and can be
\* decoded, in order, each once and each with its own source: nothing left in the
\* buffer by an earlier datagram, nothing read over the end of a message, and no
\* message lost to an undecodable one in front of it (parse_datagram).
Nth(k) == Cardinality(Yields \cap 1..k)
WalkIsFaithful ==
  /\ Len(given) <= Cardinality(Yields)
  /\ \A k \in Yields : Nth(k) <= Len(given) => Tells(given[Nth(k)], current[k])
  /\ pc # "walk" => Len(given) = Cardinality(Yields)

\* No name that reaches the flow table holds a control character, a zero-width one
\* or a bidirectional override, whether the kernel or the path gave it: a name is
\* printed to a terminal (sanitize_name, and its call in Monitor::apply).
Unprintable(c) ==
  \/ c <= \h1F \/ (\h7F <= c /\ c <= \h9F) \/ (\h200B <= c /\ c <= \h200F)
  \/ (\h202A <= c /\ c <= \h202E) \/ (\h2066 <= c /\ c <= \h2069) \/ c = \hFEFF
NamesAreClean == \A i \in DOMAIN named.name : ~Unprintable(named.name[i])

\* A drain ends with an empty socket, or with an error: no signal ends it, which
\* would leave what came in to be read an interval late, and no datagram holds it
\* up, whatever lengths its headers claim (recv_into, parse_datagram, drain).
DrainEmptiesSocket ==
  pc \in {"recv", "walk"} ~> (pc = "idle" /\ waiting = 0) \/ pc = "failed"
=============================================================================
