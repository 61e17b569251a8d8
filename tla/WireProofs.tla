----------------------------- MODULE WireProofs -----------------------------
(***************************************************************************)
(* The walk over a datagram yields its messages, and the names that reach  *)
(* the flow table are clean, for all datagrams, all executable paths, and  *)
(* every size of the receive buffer.                                       *)
(***************************************************************************)
EXTENDS Wire, FoldLemmas, SequenceTheorems, TLAPS

Clean(s) == \A i \in DOMAIN s : ~Unprintable(s[i])

NamesInv ==
  /\ \A o \in DOMAIN buf : buf[o].desc.pname \in Seq(Nat)
  /\ NamesAreClean

----------------------------------------------------------------------------
(* Names.                                                                  *)

\* What sanitize_name leaves is clean.
LEMMA SanitizedIsClean ==
  ASSUME NEW s \in Seq(Nat)
  PROVE  Clean(SanitizeName(s))
<1> SUFFICES ASSUME NEW i \in DOMAIN s
             PROVE  ~Unprintable(SanitizeName(s)[i])
  BY DEF Clean, SanitizeName
<1>1. s[i] \in Nat
  BY LenProperties, ElementOfSeq
<1>2. SanitizeName(s)[i] = IF IsControl(s[i]) \/ IsFormat(s[i]) THEN Replacement ELSE s[i]
  BY DEF SanitizeName
<1>3. ~Unprintable(Replacement)
  BY DEF Unprintable, Replacement
<1>4. ASSUME Unprintable(s[i])
      PROVE  IsControl(s[i]) \/ IsFormat(s[i])
  <2>1. \/ s[i] <= \h1F \/ (\h7F <= s[i] /\ s[i] <= \h9F)
        \/ (\h200B <= s[i] /\ s[i] <= \h200F) \/ (\h202A <= s[i] /\ s[i] <= \h202E)
        \/ (\h2060 <= s[i] /\ s[i] <= \h206F) \/ s[i] = \hFEFF
    BY <1>1, <1>4 DEF Unprintable
  <2>2. s[i] <= \h1F \/ (\h7F <= s[i] /\ s[i] <= \h9F) => IsControl(s[i])
    <3>1. s[i] <= \h1F => IsControl(s[i])
      BY <1>1 DEF IsControl
    <3>2. \h7F <= s[i] /\ s[i] <= \h9F => IsControl(s[i])
      BY <1>1 DEF IsControl
    <3> QED
      BY <3>1, <3>2
  <2>3. s[i] = \hFEFF => IsFormat(s[i])
    BY DEF IsFormat
  <2>4. ASSUME NEW lo, NEW hi, <<lo, hi>> \in FormatRanges, lo <= s[i], s[i] <= hi
        PROVE  IsFormat(s[i])
    <3>1. <<lo, hi>>[1] = lo /\ <<lo, hi>>[2] = hi
      OBVIOUS
    <3>2. \E r \in FormatRanges : r[1] <= s[i] /\ s[i] <= r[2]
      BY <2>4, <3>1
    <3> QED
      BY <3>2 DEF IsFormat
  <2>5. /\ <<\h200B, \h200F>> \in FormatRanges /\ <<\h202A, \h202E>> \in FormatRanges
        /\ <<\h2060, \h206F>> \in FormatRanges
    BY DEF FormatRanges
  <2> QED
    BY <2>1, <2>2, <2>3, <2>4, <2>5
<1> QED
  BY <1>2, <1>3, <1>4

\* A name field is cut within its bytes and cleaned (parse_pname).
LEMMA ParsedIsClean ==
  ASSUME NEW field \in Seq(Nat)
  PROVE  Clean(ParsePname(field))
<1> DEFINE ends == {i \in DOMAIN field : field[i] = 0} \cup {Len(field) + 1}
<1>1. Len(field) \in Nat /\ DOMAIN field = 1..Len(field)
  BY LenProperties
<1>2. ends \subseteq 1..(Len(field) + 1) /\ ends # {} /\ ends \subseteq Nat
  BY <1>1
<1>3. Min(ends) \in 1..(Len(field) + 1)
  BY <1>2, MinOfNats
<1>4. \A i \in 1..(Min(ends) - 1) : i \in 1..Len(field)
  BY <1>1, <1>3
<1>5. \A i \in 1..(Min(ends) - 1) : field[i] \in Nat
  BY <1>4, ElementOfSeq
<1>6. SubSeq(field, 1, Min(ends) - 1) \in Seq(Nat)
  BY <1>3, <1>5, SubSeqProperties
<1> HIDE DEF ends
<1>7. ParsePname(field) = SanitizeName(SubSeq(field, 1, Min(ends) - 1))
  BY DEF ParsePname, ends
<1> QED
  BY <1>6, <1>7, SanitizedIsClean

\* The file name of a path is a piece of it (proc_name).
LEMMA ProcNameType ==
  ASSUME NEW path \in Seq(Nat)
  PROVE  ProcName(path) \in Seq(Nat)
<1> DEFINE slashes == {0} \cup {i \in DOMAIN path : path[i] = Slash}
<1>1. Len(path) \in Nat /\ DOMAIN path = 1..Len(path)
  BY LenProperties
<1>2. slashes \subseteq 0..Len(path) /\ slashes # {}
  BY <1>1
<1>3. Max(slashes) \in 0..Len(path)
  BY <1>1, <1>2, MaxOfNats
<1>4. \A i \in (Max(slashes) + 1)..Len(path) : i \in 1..Len(path)
  BY <1>1, <1>3
<1>5. \A i \in (Max(slashes) + 1)..Len(path) : path[i] \in Nat
  BY <1>4, ElementOfSeq
<1>6. SubSeq(path, Max(slashes) + 1, Len(path)) \in Seq(Nat)
  BY <1>1, <1>3, <1>5, SubSeqProperties
<1> HIDE DEF slashes
<1> QED
  BY <1>6 DEF ProcName, slashes

----------------------------------------------------------------------------
\* A descriptor that is let through has a clean name, whichever message it came in
\* (parse_desc, parse_message).
LEMMA DecodedIsClean ==
  ASSUME NEW m, m.desc.pname \in Seq(Nat), NEW slice,
         ParseMessage(m, slice).type \in {SRC_DESC, SRC_UPDATE},
         ParseMessage(m, slice).desc # NoDesc
  PROVE  Clean(ParseMessage(m, slice).desc.pname)
<1> DEFINE desc(at) == IF at <= slice THEN ParseDesc(m.provider, m.desc, slice - at) ELSE NoDesc
<1>1. \A at : desc(at) = NoDesc \/ desc(at).pname = ParsePname(m.desc.pname)
  BY DEF ParseDesc
<1>2. ParseMessage(m, slice).desc \in {desc(40), desc(152)}
  <2> HIDE DEF desc
  <2> QED
    BY DEF ParseMessage, desc, SUCCESS, ERROR, SRC_ADDED, SRC_REMOVED, SRC_DESC, SRC_COUNTS, SRC_UPDATE, NoMsg
<1> HIDE DEF desc
<1> QED
  BY <1>1, <1>2, ParsedIsClean

\* Whatever message is stepped over, the name given to on_desc is clean (apply).
LEMMA NamingIsClean ==
  ASSUME NamesAreClean, NEW m, m.desc.pname \in Seq(Nat), NEW slice, NEW path \in Seq(Nat)
  PROVE  Clean(Naming(ParseMessage(m, slice), path).name)
<1> DEFINE msg == ParseMessage(m, slice)
<1> SUFFICES Clean(Naming(msg, path).name)
  OBVIOUS
<1>1. msg.type = SRC_DESC => msg.desc # NoDesc
  BY DEF ParseMessage, SUCCESS, ERROR, SRC_ADDED, SRC_REMOVED, SRC_DESC, SRC_COUNTS, SRC_UPDATE, NoMsg
<1>2. msg.type \in {SRC_DESC, SRC_UPDATE} /\ msg.desc # NoDesc => Clean(msg.desc.pname)
  BY DecodedIsClean
<1>3. Clean(SanitizeName(ProcName(path)))
  BY ProcNameType, SanitizedIsClean
<1> HIDE DEF msg
<1>4. CASE msg.type = SRC_DESC
  <2>1. Naming(msg, path) = [pid |-> msg.desc.pid, name |-> NameOf(msg.desc, path)]
    BY <1>4 DEF Naming, SRC_DESC, SRC_UPDATE
  <2>2. Naming(msg, path).name = NameOf(msg.desc, path)
    BY <2>1
  <2>3. Clean(NameOf(msg.desc, path))
    BY <1>1, <1>2, <1>3, <1>4 DEF NameOf
  <2> QED
    BY <2>2, <2>3
<1>5. CASE msg.type = SRC_UPDATE /\ msg.desc # NoDesc
  <2>1. Naming(msg, path) = [pid |-> msg.desc.pid, name |-> msg.desc.pname]
    BY <1>5 DEF Naming, SRC_DESC, SRC_UPDATE
  <2>2. Naming(msg, path).name = msg.desc.pname
    BY <2>1
  <2> QED
    BY <1>2, <1>5, <2>2
<1>6. CASE msg.type # SRC_DESC /\ ~(msg.type = SRC_UPDATE /\ msg.desc # NoDesc)
  <2>1. Naming(msg, path) = named
    BY <1>6 DEF Naming
  <2> QED
    BY <2>1 DEF NamesAreClean, Clean
<1> QED
  BY <1>4, <1>5, <1>6

\* A datagram over the rest of an earlier one: every message in the buffer is one
\* that was received (recv_into).
LEMMA LayoutKeeps ==
  ASSUME NamesInv, NEW d \in Datagrams
  PROVE  \A o \in DOMAIN Layout(d) : Layout(d)[o].desc.pname \in Seq(Nat)
<1> DEFINE fresh == {k \in DOMAIN d : StartOf(d, k) < BufLen}
           stale == {o \in DOMAIN buf : o >= Min({Length(d), BufLen})}
<1>1. \A k \in fresh : d[k].desc.pname \in Seq(Nat)
  BY WireAssumption
<1> SUFFICES ASSUME NEW o \in {StartOf(d, k) : k \in fresh} \cup stale
             PROVE  (IF \E k \in fresh : StartOf(d, k) = o
                     THEN d[CHOOSE k \in fresh : StartOf(d, k) = o] ELSE buf[o]).desc.pname \in Seq(Nat)
  BY DEF Layout
<1>2. CASE \E k \in fresh : StartOf(d, k) = o
  <2> HIDE DEF fresh
  <2>1. (CHOOSE k \in fresh : StartOf(d, k) = o) \in fresh
    BY <1>2
  <2> QED
    BY <1>1, <1>2, <2>1
<1>3. CASE ~ \E k \in fresh : StartOf(d, k) = o
  BY <1>3 DEF NamesInv
<1> QED
  BY <1>2, <1>3

\* Every step keeps the names clean.
LEMMA StepNames == NamesInv /\ [Next]_vars => NamesInv'
<1> SUFFICES ASSUME NamesInv, [Next]_vars
             PROVE  NamesInv'
  OBVIOUS
<1> USE DEF bufVars
<1>1. ASSUME UNCHANGED <<buf, named>>
      PROVE  NamesInv'
  BY <1>1 DEF NamesInv, NamesAreClean, Unprintable
<1>2. ASSUME NEW d \in Datagrams, Recv(d)
      PROVE  NamesInv'
  <2>1. buf' = Layout(d) /\ named' = named
    BY <1>2 DEF Recv
  <2>2. \A o \in DOMAIN buf' : buf'[o].desc.pname \in Seq(Nat)
    BY <2>1, LayoutKeeps
  <2> QED
    BY <2>1, <2>2 DEF NamesInv, NamesAreClean, Unprintable
<1>3. ASSUME NEW path \in Paths, Walk(path)
      PROVE  NamesInv'
  <2> DEFINE m == buf[off]
             msg == ParseMessage(m, Slice(m))
  <2>1. off \in DOMAIN buf /\ buf' = buf /\ named' \in {named, Naming(msg, path)}
    BY <1>3 DEF Walk, Walkable
  <2>2. NamesAreClean /\ m.desc.pname \in Seq(Nat) /\ path \in Seq(Nat)
    BY <2>1, WireAssumption DEF NamesInv
  <2>3. Clean(Naming(msg, path).name)
    BY <2>2, NamingIsClean
  <2>4. Clean(named.name)
    BY <2>2 DEF Clean, NamesAreClean
  <2> HIDE DEF m, msg
  <2>5. Clean(named'.name)
    BY <2>1, <2>3, <2>4
  <2> QED
    BY <2>1, <2>5 DEF NamesInv, NamesAreClean, Clean, Unprintable
<1>4. CASE StartDrain \/ RecvInterrupted \/ RecvWouldBlock \/ RecvFails \/ WalkEnds \/ Post \/ Interrupt
  BY <1>1, <1>4 DEF StartDrain, RecvInterrupted, RecvWouldBlock, RecvFails, WalkEnds, Post, Interrupt
<1>5. CASE UNCHANGED vars
  BY <1>1, <1>5 DEF vars
<1> QED
  BY <1>2, <1>3, <1>4, <1>5 DEF Next, Drain

\* No name that reaches the flow table can move the cursor, hide or turn text round
\* on a terminal, whichever of the two ways it came in by (sanitize_name and its
\* two callers, parse_pname and Monitor::apply).
THEOREM NamesAlwaysClean == Spec => []NamesAreClean
<1>1. Init => NamesInv
  BY DEF Init, NamesInv, NamesAreClean, NoName
<1>2. NamesInv => NamesAreClean
  BY DEF NamesInv
<1> QED
  BY <1>1, <1>2, StepNames, PTL DEF Spec

----------------------------------------------------------------------------
(* The walk.                                                               *)

Received == Datagrams \cup {<<>>}
Heard    == UNION {{d[k] : k \in DOMAIN d} : d \in Datagrams}

\* The walk stands at message k: those in front of it were sound, and of these the
\* ones that can be decoded have been given, in order.
Walking(k) ==
  /\ k \in 1..(Len(current) + 1) /\ off = StartOf(current, k)
  /\ \A i \in 1..(k - 1) : Sound(i)
  /\ Len(given) = Nth(k - 1)
  /\ \A i \in Yields \cap 1..(k - 1) : Tells(given[Nth(i)], current[i])

\* What recv put into the buffer lies there untouched while it is walked over.
Holds(d) ==
  \A k \in DOMAIN d : StartOf(d, k) < BufLen =>
    StartOf(d, k) \in DOMAIN buf /\ buf[StartOf(d, k)] = d[k]

WalkInv ==
  /\ TypeOK /\ waiting + reads <= MaxReads
  /\ current \in Received
  /\ given \in Seq({ParseMessage(m, Slice(m)) : m \in Heard})
  /\ IF pc = "walk"
     THEN n = Min({Length(current), BufLen}) /\ Holds(current) /\ \E k \in Nat : Walking(k)
     ELSE WalkIsFaithful

\* Datagrams are sequences, and only the last message of one can be broken.
LEMMA ReceivedType ==
  ASSUME NEW d \in Received
  PROVE  /\ Len(d) \in Nat /\ DOMAIN d = 1..Len(d)
         /\ \A k \in DOMAIN d :
              /\ d[k] \in Heard /\ d[k].type \in Nat /\ d[k].provider \in Nat
              /\ d[k].len \in Nat /\ d[k].size \in Nat /\ d[k].size > 0
              /\ d[k].len # d[k].size => k = Len(d) /\ (d[k].len > d[k].size \/ d[k].len < HdrLen)
<1>1. CASE d \in Datagrams
  <2>1. Len(d) \in Nat /\ DOMAIN d = 1..Len(d)
    BY <1>1, WireAssumption
  <2>2. ASSUME NEW k \in DOMAIN d
        PROVE  /\ d[k] \in Heard /\ d[k].type \in Nat /\ d[k].provider \in Nat
               /\ d[k].len \in Nat /\ d[k].size \in Nat /\ d[k].size > 0
               /\ d[k].len # d[k].size => k = Len(d) /\ (d[k].len > d[k].size \/ d[k].len < HdrLen)
    <3>1. d[k] \in Heard
      BY <1>1 DEF Heard
    <3>2. {d[k].type, d[k].provider, d[k].len} \subseteq Nat /\ d[k].size \in Nat \ {0}
      BY <1>1, WireAssumption
    <3>3. d[k].len # d[k].size => k = Len(d) /\ (d[k].len > d[k].size \/ d[k].len < HdrLen)
      BY <1>1, WireAssumption
    <3> QED
      BY <3>1, <3>2, <3>3
  <2> QED
    BY <2>1, <2>2
<1>2. CASE d = <<>>
  <2>1. Len(d) = 0 /\ DOMAIN d = {}
    BY <1>2
  <2> QED
    BY <2>1
<1> QED
  BY <1>1, <1>2 DEF Received

\* Messages lie back to back.
LEMMA StartsRise ==
  ASSUME NEW d \in Received
  PROVE  /\ \A k \in 1..(Len(d) + 1) : StartOf(d, k) \in Nat
         /\ StartOf(d, 1) = 0
         /\ \A k \in 1..Len(d) : StartOf(d, k + 1) = StartOf(d, k) + d[k].size
         /\ \A j, k \in 1..(Len(d) + 1) : j < k => StartOf(d, j) < StartOf(d, k)
<1> DEFINE size == [i \in DOMAIN d |-> d[i].size]
           Sum(S) == SumFunctionOnSet(size, S)
<1>1. Len(d) \in Nat /\ DOMAIN d = 1..Len(d) /\ \A i \in DOMAIN d : size[i] \in Nat /\ size[i] > 0
  BY ReceivedType
<1>2. \A k : StartOf(d, k) = Sum(1..(k - 1))
  BY DEF StartOf
<1>3. \A k \in 1..Len(d) : size[k] = d[k].size
  BY <1>1
<1> HIDE DEF size
<1>4. ASSUME NEW k \in 1..(Len(d) + 1)
      PROVE  /\ IsFiniteSet(1..(k - 1)) /\ 1..(k - 1) \subseteq DOMAIN d
             /\ Sum(1..(k - 1)) \in Nat
  <2>1. 1 \in Int /\ k - 1 \in Int
    BY <1>1
  <2>2. IsFiniteSet(1..(k - 1))
    BY <2>1, FS_Interval
  <2>3. 1..(k - 1) \subseteq DOMAIN d
    BY <1>1
  <2>4. \A i \in 1..(k - 1) : size[i] \in Nat
    BY <1>1, <2>3
  <2>5. Sum(1..(k - 1)) \in Nat
    BY <2>2, <2>4, SumOfSubset
  <2> QED
    BY <2>2, <2>3, <2>5
<1>5. Sum(1..(1 - 1)) = 0
  <2>1. 1..(1 - 1) = {}
    OBVIOUS
  <2> QED
    BY <2>1, SumEmpty
<1>6. ASSUME NEW k \in 1..Len(d)
      PROVE  Sum(1..((k + 1) - 1)) = Sum(1..(k - 1)) + size[k]
  <2>1. k + 1 \in 1..(Len(d) + 1) /\ k \in 1..(Len(d) + 1)
    BY <1>1
  <2>2. (1..((k + 1) - 1)) \ {k} = 1..(k - 1) /\ k \in 1..((k + 1) - 1)
    BY <1>1
  <2>3. /\ IsFiniteSet(1..((k + 1) - 1))
        /\ \A i \in 1..((k + 1) - 1) : size[i] \in Nat
    BY <1>1, <1>4, <2>1
  <2>4. Sum(1..((k + 1) - 1)) = size[k] + Sum((1..((k + 1) - 1)) \ {k})
    BY <2>2, <2>3, SumTakeOut
  <2>5. Sum(1..(k - 1)) \in Nat /\ size[k] \in Nat
    BY <1>1, <1>4, <2>1
  <2>6. Sum((1..((k + 1) - 1)) \ {k}) = Sum(1..(k - 1))
    BY <2>2
  <2> DEFINE more == Sum(1..((k + 1) - 1))
             less == Sum(1..(k - 1))
  <2>7. more = size[k] + less /\ less \in Nat
    BY <2>4, <2>5, <2>6
  <2> HIDE DEF more, less
  <2>8. more = less + size[k]
    BY <2>5, <2>7
  <2> QED
    BY <2>8 DEF more, less
<1>7. ASSUME NEW j \in 1..(Len(d) + 1), NEW k \in 1..(Len(d) + 1), j < k
      PROVE  Sum(1..(j - 1)) < Sum(1..(k - 1))
  <2>1. j \in 1..Len(d) /\ j + 1 \in 1..(Len(d) + 1)
    BY <1>1, <1>7
  <2>2. 1..((j + 1) - 1) \subseteq 1..(k - 1)
    BY <1>1, <1>7
  <2>3. \A i \in 1..(k - 1) : size[i] \in Nat
    BY <1>1, <1>4
  <2>4. Sum(1..((j + 1) - 1)) <= Sum(1..(k - 1))
    BY <1>4, <2>2, <2>3, SumOfSubset
  <2>5. Sum(1..((j + 1) - 1)) = Sum(1..(j - 1)) + size[j]
    BY <1>6, <2>1
  <2>6. Sum(1..(j - 1)) \in Nat /\ Sum(1..(k - 1)) \in Nat /\ size[j] \in Nat /\ size[j] > 0
    BY <1>1, <1>4, <2>1
  <2> HIDE DEF Sum
  <2> QED
    BY <2>4, <2>5, <2>6
<1> HIDE DEF Sum
<1>8. \A k \in 1..Len(d) : StartOf(d, k + 1) = StartOf(d, k) + d[k].size
  BY <1>2, <1>3, <1>6
<1> QED
  BY <1>2, <1>4, <1>5, <1>7, <1>8

\* A datagram is long enough for each of its messages.
LEMMA StartsFit ==
  ASSUME NEW d \in Received, NEW k \in 1..Len(d)
  PROVE  /\ StartOf(d, k) \in Nat /\ Length(d) \in Nat
         /\ StartOf(d, k) + d[k].size <= Length(d)
         /\ k = Len(d) => StartOf(d, k) + d[k].size = Length(d)
<1>1. /\ Len(d) \in Nat /\ k \in 1..(Len(d) + 1) /\ k + 1 \in 1..(Len(d) + 1)
      /\ Len(d) + 1 \in 1..(Len(d) + 1)
  BY ReceivedType
<1>2. StartOf(d, k + 1) = StartOf(d, k) + d[k].size
  BY StartsRise
<1>3. StartOf(d, k + 1) \in Nat /\ StartOf(d, k) \in Nat /\ Length(d) \in Nat
  BY <1>1, StartsRise DEF Length
<1>4. k + 1 < Len(d) + 1 => StartOf(d, k + 1) < Length(d)
  BY <1>1, StartsRise DEF Length
<1>5. k + 1 = Len(d) + 1 => StartOf(d, k + 1) = Length(d)
  BY DEF Length
<1> QED
  BY <1>1, <1>2, <1>3, <1>4, <1>5

\* Exactly the readable messages are decoded, each as what it is (parse_message).
LEMMA DecodedIsReadable ==
  ASSUME NEW m, m.type \in Nat, m.provider \in Nat, m.len \in Nat, m.len >= HdrLen
  PROVE  /\ ParseMessage(m, m.len) # NoMsg <=> Readable(m)
         /\ ParseMessage(m, m.len) # NoMsg => Tells(ParseMessage(m, m.len), m)
<1> DEFINE desc(at) == IF at <= m.len THEN ParseDesc(m.provider, m.desc, m.len - at) ELSE NoDesc
           msg == ParseMessage(m, m.len)
           ends == [pid |-> m.desc.pid, local |-> ParseSockaddr(m.desc.local),
                    remote |-> ParseSockaddr(m.desc.remote)]
           tells == msg # NoMsg => Tells(msg, m)
<1> USE DEF SUCCESS, ERROR, SRC_ADDED, SRC_REMOVED, SRC_DESC, SRC_COUNTS, SRC_UPDATE, HdrLen
<1>1. desc(40) # NoDesc <=>
        /\ m.provider \in 2..5 /\ m.len >= (IF m.provider \in {2, 3} THEN 300 ELSE 236)
        /\ LooksValid(ends)
  <2> DEFINE full == [pid |-> m.desc.pid, pname |-> ParsePname(m.desc.pname),
                      local |-> ParseSockaddr(m.desc.local), remote |-> ParseSockaddr(m.desc.remote)]
  <2>1. LooksValid(full) <=> LooksValid(ends)
    BY DEF LooksValid
  <2>2. LooksValid(full) => full # NoDesc
    <3>1. full = NoDesc => full.pid = -1
      BY DEF NoDesc
    <3>2. LooksValid(full) => 0 < full.pid
      BY DEF LooksValid
    <3> QED
      BY <3>1, <3>2
  <2>3. Known(m.provider) <=> m.provider \in 2..5
    BY DEF Known, IsTcpProvider, IsUdpProvider
  <2>4. m.provider \in 2..5 =>
          (40 <= m.len /\ Has(m.len - 40, 0, MinLen(m.provider))
             <=> m.len >= (IF m.provider \in {2, 3} THEN 300 ELSE 236))
    BY DEF Has, MinLen, TcpMinLen, UdpMinLen, PnameLen, IsTcpProvider
  <2>5. desc(40) = IF 40 <= m.len /\ Known(m.provider) /\ Has(m.len - 40, 0, MinLen(m.provider)) /\ LooksValid(full)
                   THEN full ELSE NoDesc
    BY DEF ParseDesc
  <2> HIDE DEF full, ends, desc
  <2> QED
    BY <2>1, <2>2, <2>3, <2>4, <2>5
<1>2. CASE m.type = SRC_ADDED
  <2>1. msg = IF m.len >= 28 THEN [type |-> SRC_ADDED, src |-> m.src, provider |-> m.provider] ELSE NoMsg
    BY <1>2 DEF ParseMessage, Has
  <2> QED
    BY <1>2, <2>1 DEF Readable, Needs, NoMsg, Tells
<1>3. CASE m.type = SRC_REMOVED
  <2>1. msg = IF m.len >= 24 THEN [type |-> SRC_REMOVED, src |-> m.src] ELSE NoMsg
    BY <1>3 DEF ParseMessage, Has
  <2> QED
    BY <1>3, <2>1 DEF Readable, Needs, NoMsg, Tells
<1>4. CASE m.type = SRC_COUNTS
  <2>1. msg = IF m.len >= 64 THEN [type |-> SRC_COUNTS, src |-> m.src, counts |-> m.counts] ELSE NoMsg
    BY <1>4 DEF ParseMessage, Has
  <2> QED
    BY <1>4, <2>1 DEF Readable, Needs, NoMsg, Tells
<1>5. CASE m.type = SRC_UPDATE
  <2>1. msg = IF m.len >= 148
              THEN [type |-> SRC_UPDATE, src |-> m.src, provider |-> m.provider,
                    counts |-> m.counts, desc |-> desc(152)] ELSE NoMsg
    BY <1>5 DEF ParseMessage, Has
  <2> HIDE DEF desc
  <2> QED
    BY <1>5, <2>1 DEF Readable, Needs, NoMsg, Tells
<1>6. CASE m.type = SRC_DESC
  <2>1. msg = IF m.len >= 24 /\ m.len >= 36 /\ desc(40) # NoDesc
              THEN [type |-> SRC_DESC, src |-> m.src, provider |-> m.provider, desc |-> desc(40)] ELSE NoMsg
    BY <1>6 DEF ParseMessage, Has
  <2> HIDE DEF desc
  <2>2. Readable(m) <=> desc(40) # NoDesc
    BY <1>1, <1>6 DEF Readable, Needs
  <2>3. desc(40) # NoDesc => m.len >= 36
    BY <1>1
  <2> QED
    BY <1>6, <2>1, <2>2, <2>3 DEF NoMsg, Tells
<1>7. CASE m.type \notin {SRC_ADDED, SRC_REMOVED, SRC_COUNTS, SRC_UPDATE, SRC_DESC}
  <2>1. msg.type = m.type
    BY <1>7 DEF ParseMessage
  <2>2. msg # NoMsg
    BY <2>1 DEF NoMsg
  <2>3. Readable(m)
    BY <1>7 DEF Readable, Needs
  <2> QED
    BY <1>7, <2>1, <2>2, <2>3 DEF Tells
<1> QED
  BY <1>2, <1>3, <1>4, <1>5, <1>6, <1>7

\* The messages that start within the buffer lie in it, and nothing lies beyond it.
LEMMA LayoutHolds ==
  ASSUME NEW d \in Received, DOMAIN buf \subseteq 0..(BufLen - 1)
  PROVE  /\ DOMAIN Layout(d) \subseteq 0..(BufLen - 1)
         /\ \A k \in DOMAIN d : StartOf(d, k) < BufLen =>
              StartOf(d, k) \in DOMAIN Layout(d) /\ Layout(d)[StartOf(d, k)] = d[k]
<1> DEFINE fresh == {k \in DOMAIN d : StartOf(d, k) < BufLen}
           stale == {o \in DOMAIN buf : o >= Min({Length(d), BufLen})}
           D == {StartOf(d, k) : k \in fresh} \cup stale
<1>1. /\ Len(d) \in Nat /\ DOMAIN d = 1..Len(d) /\ BufLen \in Nat
      /\ \A k \in DOMAIN d : StartOf(d, k) \in Nat
      /\ \A j, k \in DOMAIN d : StartOf(d, j) = StartOf(d, k) => j = k
  <2>1. Len(d) \in Nat /\ DOMAIN d = 1..Len(d) /\ BufLen \in Nat
    BY ReceivedType, WireAssumption
  <2>2. \A k \in DOMAIN d : k \in 1..(Len(d) + 1) /\ StartOf(d, k) \in Nat
    BY <2>1, StartsRise
  <2>3. \A j, k \in DOMAIN d : j < k => StartOf(d, j) < StartOf(d, k)
    BY <2>2, StartsRise
  <2>4. ASSUME NEW j \in DOMAIN d, NEW k \in DOMAIN d, StartOf(d, j) = StartOf(d, k)
        PROVE  j = k
    <3>1. ~(j < k) /\ ~(k < j)
      BY <2>2, <2>3, <2>4
    <3> QED
      BY <2>1, <3>1
  <2> QED
    BY <2>1, <2>2, <2>4
<1>2. /\ DOMAIN Layout(d) = D
      /\ \A o \in D : Layout(d)[o] = IF \E k \in fresh : StartOf(d, k) = o
                                     THEN d[CHOOSE k \in fresh : StartOf(d, k) = o] ELSE buf[o]
  BY DEF Layout
<1>3. D \subseteq 0..(BufLen - 1)
  BY <1>1
<1>4. ASSUME NEW k \in fresh
      PROVE  StartOf(d, k) \in D /\ Layout(d)[StartOf(d, k)] = d[k]
  <2>1. (CHOOSE j \in fresh : StartOf(d, j) = StartOf(d, k)) = k
    BY <1>1
  <2>2. StartOf(d, k) \in D /\ \E j \in fresh : StartOf(d, j) = StartOf(d, k)
    OBVIOUS
  <2> HIDE DEF fresh, D
  <2> QED
    BY <1>2, <2>1, <2>2
<1> QED
  BY <1>2, <1>3, <1>4

\* What n is at the start of a walk.
LEMMA Received_n ==
  ASSUME NEW d \in Received
  PROVE  LET r == Min({Length(d), BufLen})
         IN  r \in 0..BufLen /\ r <= Length(d) /\ Length(d) \in Nat /\ (r = Length(d) \/ r = BufLen)
<1> DEFINE r == Min({Length(d), BufLen})
<1>1. Length(d) \in Nat /\ BufLen \in Nat
  <2>1. Len(d) + 1 \in 1..(Len(d) + 1)
    BY ReceivedType
  <2> QED
    BY <2>1, StartsRise, WireAssumption DEF Length
<1>2. r \in {Length(d), BufLen} /\ \A y \in {Length(d), BufLen} : r <= y
  BY <1>1, MinOfNats
<1> HIDE DEF r
<1> QED
  BY <1>1, <1>2 DEF r

\* Counting the readable messages up to one of them.
LEMMA NthCounts ==
  ASSUME current \in Received
  PROVE  /\ Cardinality(Yields) \in Nat
         /\ \A k \in Nat : Nth(k) \in Nat /\ Nth(k) <= Cardinality(Yields)
         /\ \A j, k \in Nat : j <= k => Nth(j) <= Nth(k)
         /\ \A k \in Nat : Nth(k + 1) = IF k + 1 \in Yields THEN Nth(k) + 1 ELSE Nth(k)
         /\ Nth(0) = 0
<1>1. Yields \subseteq 1..Len(current) /\ Len(current) \in Nat
  BY ReceivedType DEF Yields, Intact
<1>2. IsFiniteSet(Yields)
  <2>1. 1 \in Int /\ Len(current) \in Int
    BY <1>1
  <2> QED
    BY <1>1, <2>1, FS_Interval, FS_Subset
<1> DEFINE upTo(k) == Yields \cap 1..k
<1> HIDE DEF Yields
<1>3. \A k \in Nat : IsFiniteSet(upTo(k)) /\ Cardinality(upTo(k)) \in Nat /\ Cardinality(upTo(k)) <= Cardinality(Yields)
  BY <1>2, FS_Subset, FS_CardinalityType
<1>4. ASSUME NEW j \in Nat, NEW k \in Nat, j <= k
      PROVE  Cardinality(upTo(j)) <= Cardinality(upTo(k))
  <2>1. upTo(j) \subseteq upTo(k)
    BY <1>4
  <2> QED
    BY <1>3, <2>1, FS_Subset
<1>5. ASSUME NEW k \in Nat
      PROVE  Cardinality(upTo(k + 1)) = IF k + 1 \in Yields THEN Cardinality(upTo(k)) + 1 ELSE Cardinality(upTo(k))
  <2>1. CASE k + 1 \in Yields
    <3>1. upTo(k + 1) = upTo(k) \cup {k + 1} /\ k + 1 \notin upTo(k)
      BY <2>1
    <3>2. Cardinality(upTo(k) \cup {k + 1}) = Cardinality(upTo(k)) + 1
      BY <1>3, <3>1, FS_AddElement
    <3> QED
      BY <2>1, <3>1, <3>2
  <2>2. CASE k + 1 \notin Yields
    <3>1. upTo(k + 1) = upTo(k)
      BY <2>2
    <3> QED
      BY <2>2, <3>1
  <2> QED
    BY <2>1, <2>2
<1>6. Cardinality(upTo(0)) = 0
  <2>1. upTo(0) = {}
    OBVIOUS
  <2> QED
    BY <2>1, FS_EmptySet
<1>7. \A k : Nth(k) = Cardinality(upTo(k))
  BY DEF Nth
<1>8. Cardinality(Yields) \in Nat
  BY <1>2, FS_CardinalityType
<1> HIDE DEF upTo
<1> QED
  BY <1>3, <1>4, <1>5, <1>6, <1>7, <1>8

\* A walk that is still on its way is faithful so far.
LEMMA SoFarFaithful ==
  ASSUME current \in Received, NEW k \in Nat, Walking(k)
  PROVE  /\ Len(given) <= Cardinality(Yields)
         /\ \A i \in Yields : Nth(i) <= Len(given) => Tells(given[Nth(i)], current[i])
<1>1. Len(given) = Nth(k - 1) /\ k - 1 \in Nat
  BY DEF Walking
<1>2. Len(given) <= Cardinality(Yields)
  BY <1>1, NthCounts
<1>3. ASSUME NEW i \in Yields, Nth(i) <= Len(given)
      PROVE  Tells(given[Nth(i)], current[i])
  <2>1. i \in Nat /\ i > 0
    BY ReceivedType DEF Yields, Intact
  <2>2. CASE i <= k - 1
    <3>1. i \in Yields \cap 1..(k - 1)
      BY <1>1, <2>1, <2>2
    <3> QED
      BY <3>1 DEF Walking
  <2>3. CASE ~(i <= k - 1)
    <3>1. i - 1 \in Nat /\ k - 1 <= i - 1 /\ (i - 1) + 1 = i
      BY <1>1, <2>1, <2>3
    <3>2. Nth(k - 1) <= Nth(i - 1) /\ Nth(i) = Nth(i - 1) + 1
      BY <1>1, <3>1, NthCounts
    <3>3. Nth(k - 1) \in Nat /\ Nth(i - 1) \in Nat
      BY <1>1, <3>1, NthCounts
    <3> QED
      BY <1>1, <1>3, <3>2, <3>3
  <2> QED
    BY <2>2, <2>3
<1> QED
  BY <1>2, <1>3

\* Where the walk can go on stands a sound message, and the next one behind it.
LEMMA GoesOnSound ==
  ASSUME WalkInv, pc = "walk", NEW k \in Nat, Walking(k), Walkable
  PROVE  /\ k \in DOMAIN current /\ buf[off] = current[k] /\ Sound(k)
         /\ off + buf[off].len = StartOf(current, k + 1)
         /\ off + buf[off].len <= n
<1>1. /\ current \in Received /\ n = Min({Length(current), BufLen}) /\ Holds(current)
      /\ off = StartOf(current, k) /\ k \in 1..(Len(current) + 1)
  BY DEF WalkInv, Walking
<1>2. /\ n \in 0..BufLen /\ n <= Length(current) /\ Length(current) \in Nat /\ BufLen \in Nat
      /\ Len(current) \in Nat /\ DOMAIN current = 1..Len(current) /\ off \in Nat
  BY <1>1, Received_n, ReceivedType, StartsRise, WireAssumption
<1>3. off < n
  BY <1>2 DEF Walkable, HdrLen
<1>4. k \in 1..Len(current)
  <2>1. k # Len(current) + 1
    BY <1>1, <1>2, <1>3 DEF Length
  <2> QED
    BY <1>1, <1>2, <2>1
<1>5. buf[off] = current[k]
  <2>1. StartOf(current, k) < BufLen
    BY <1>1, <1>2, <1>3
  <2> QED
    BY <1>1, <1>2, <1>4, <2>1 DEF Holds
<1> DEFINE m == current[k]
<1>6. m.len >= HdrLen /\ off + m.len <= n
  BY <1>5 DEF Walkable, Whole
<1>7. /\ m.len \in Nat /\ m.size \in Nat
      /\ m.len # m.size => k = Len(current) /\ (m.len > m.size \/ m.len < HdrLen)
  BY <1>1, <1>2, <1>4, ReceivedType
<1>8. /\ off + m.size <= Length(current)
      /\ k = Len(current) => off + m.size = Length(current)
  BY <1>1, <1>4, StartsFit
<1> HIDE DEF m
<1>9. m.len = m.size
  <2> SUFFICES ASSUME m.len # m.size PROVE FALSE
    OBVIOUS
  <2>1. off + m.size = Length(current) /\ (m.len > m.size \/ m.len < HdrLen)
    BY <1>7, <1>8
  <2> QED
    BY <1>2, <1>6, <1>7, <2>1 DEF HdrLen
<1>10. Sound(k)
  <2>1. off + m.len <= BufLen
    <3>1. n <= BufLen /\ n \in Nat /\ BufLen \in Nat
      BY <1>2
    <3>2. off + m.len <= n /\ off \in Nat /\ m.len \in Nat
      BY <1>2, <1>6, <1>7
    <3> QED
      BY <3>1, <3>2
  <2> QED
    BY <1>1, <1>6, <1>9, <2>1 DEF Sound, m
<1>11. off + m.len = StartOf(current, k + 1)
  <2>1. StartOf(current, k + 1) = StartOf(current, k) + m.size
    BY <1>1, <1>4, StartsRise DEF m
  <2> QED
    BY <1>1, <1>9, <2>1
<1> QED
  BY <1>2, <1>4, <1>5, <1>6, <1>10, <1>11 DEF m

\* Where it cannot, the datagram ends or its next message is broken or cut off.
LEMMA EndsAtBroken ==
  ASSUME WalkInv, pc = "walk", NEW k \in Nat, Walking(k), ~Walkable
  PROVE  k \notin DOMAIN current \/ ~Sound(k)
<1> SUFFICES ASSUME k \in DOMAIN current, Sound(k) PROVE FALSE
  OBVIOUS
<1>1. /\ current \in Received /\ n = Min({Length(current), BufLen}) /\ Holds(current)
      /\ off = StartOf(current, k)
  BY DEF WalkInv, Walking
<1> DEFINE m == current[k]
<1>2. /\ n = Length(current) \/ n = BufLen
      /\ BufLen \in Nat /\ Length(current) \in Nat /\ off \in Nat
      /\ off + m.size <= Length(current)
      /\ k \in DOMAIN current /\ m.size \in Nat
  BY <1>1, Received_n, ReceivedType, StartsFit, WireAssumption
<1>3. m.len = m.size /\ m.len >= HdrLen /\ off + m.len <= BufLen
  BY <1>1 DEF Sound
<1> HIDE DEF m
<1>4. off + m.len <= n /\ off + HdrLen <= n /\ off < BufLen
  BY <1>2, <1>3 DEF HdrLen
<1>5. off \in DOMAIN buf /\ buf[off] = m
  BY <1>1, <1>2, <1>4 DEF Holds, m
<1> QED
  BY <1>3, <1>4, <1>5 DEF Walkable, Whole

----------------------------------------------------------------------------
(* The invariant is kept.                                                  *)

LEMMA WalkInvInit == Init => WalkInv
<1> SUFFICES ASSUME Init PROVE WalkInv
  OBVIOUS
<1> USE DEF Init
<1>1. TypeOK /\ waiting + reads <= MaxReads
  <2>1. BufLen \in Nat /\ MaxReads \in Nat
    BY WireAssumption
  <2>2. DOMAIN buf = {}
    OBVIOUS
  <2>3. off \in 0..n /\ n \in 0..BufLen /\ waiting \in 0..MaxReads /\ reads \in 0..MaxReads
    BY <2>1
  <2>4. waiting + reads <= MaxReads
    BY <2>1
  <2> QED
    BY <2>2, <2>3, <2>4 DEF TypeOK
<1>2. current \in Received /\ given \in Seq({ParseMessage(m, Slice(m)) : m \in Heard})
  BY EmptySeq DEF Received
<1>3. WalkIsFaithful
  <2>1. Yields = {}
    BY DEF Yields, Intact
  <2>2. Cardinality(Yields) = 0 /\ Len(given) = 0
    BY <2>1, FS_EmptySet
  <2> QED
    BY <2>1, <2>2 DEF WalkIsFaithful
<1> QED
  BY <1>1, <1>2, <1>3 DEF WalkInv

\* Nothing that was received or told changes.
LEMMA StillFaithful ==
  ASSUME WalkIsFaithful, pc # "walk", UNCHANGED <<current, given>>
  PROVE  WalkIsFaithful'
<1>1. \A k : Sound(k)' = Sound(k)
  BY DEF Sound
<1>2. Yields' = Yields
  BY <1>1 DEF Yields, Intact
<1>3. \A k : Nth(k)' = Nth(k)
  BY <1>2 DEF Nth
<1>4. \A k \in Yields' : Nth(k)' <= Len(given') => Tells(given'[Nth(k)'], current'[k])
  BY <1>2, <1>3 DEF WalkIsFaithful
<1>5. Len(given') = Cardinality(Yields') /\ Len(given') <= Cardinality(Yields')
  BY <1>2 DEF WalkIsFaithful
<1> QED
  BY <1>4, <1>5 DEF WalkIsFaithful, Tells

LEMMA StillWalking ==
  ASSUME NEW k, Walking(k), UNCHANGED <<current, given, off>>
  PROVE  Walking(k)'
<1>1. Yields' = Yields /\ \A i : Nth(i)' = Nth(i) /\ Sound(i)' = Sound(i)
  BY DEF Yields, Intact, Sound, Nth
<1> QED
  BY <1>1 DEF Walking

\* The walk over a datagram starts at its first message.
LEMMA RecvStartsWalk ==
  ASSUME WalkInv, NEW d \in Datagrams, Recv(d)
  PROVE  WalkInv'
<1> USE DEF bufVars
<1>1. d \in Received /\ DOMAIN buf \subseteq 0..(BufLen - 1)
  BY DEF Received, WalkInv, TypeOK
<1>2. /\ buf' = Layout(d) /\ n' = Min({Length(d), BufLen}) /\ off' = 0 /\ given' = <<>> /\ current' = d
      /\ pc' = "walk" /\ interrupted' = interrupted /\ reads' = reads + 1 /\ waiting' = waiting - 1
      /\ waiting > 0
  BY DEF Recv
<1>3. TypeOK'
  <2>1. DOMAIN buf' \subseteq 0..(BufLen - 1)
    BY <1>1, <1>2, LayoutHolds
  <2>2. n' \in 0..BufLen /\ off' \in 0..n'
    BY <1>1, <1>2, Received_n
  <2>3. waiting' \in 0..MaxReads /\ reads' \in 0..MaxReads
    BY <1>2, WireAssumption DEF WalkInv, TypeOK
  <2> QED
    BY <1>2, <2>1, <2>2, <2>3 DEF TypeOK, WalkInv
<1>4. waiting' + reads' <= MaxReads
  BY <1>2, WireAssumption DEF WalkInv, TypeOK
<1>5. Holds(current)'
  BY <1>1, <1>2, LayoutHolds DEF Holds
<1>6. Walking(1)'
  <2>1. 1 \in 1..(Len(d) + 1) /\ StartOf(d, 1) = 0
    BY <1>1, ReceivedType, StartsRise
  <2>2. \A S : S \cap 1..(1 - 1) = {}
    OBVIOUS
  <2>3. Len(given') = 0 /\ Nth(1 - 1)' = 0
    BY <1>2, <2>2, FS_EmptySet DEF Nth
  <2> QED
    BY <1>2, <2>1, <2>2, <2>3 DEF Walking
<1>7. given' \in Seq({ParseMessage(m, Slice(m)) : m \in Heard})
  BY <1>2, EmptySeq
<1>8. \A m : Slice(m)' = Slice(m)
  BY DEF Slice
<1> QED
  BY <1>1, <1>2, <1>3, <1>4, <1>5, <1>6, <1>7 DEF WalkInv, Slice

\* One message further.
LEMMA WalkGoesOn ==
  ASSUME WalkInv, NEW path \in Paths, Walk(path)
  PROVE  WalkInv'
<1> USE DEF bufVars
<1> DEFINE m == buf[off]
           msg == ParseMessage(m, Slice(m))
           Said == {ParseMessage(h, Slice(h)) : h \in Heard}
<1>1. /\ pc = "walk" /\ Walkable /\ off' = off + m.len
      /\ given' = IF msg = NoMsg THEN given ELSE Append(given, msg)
      /\ UNCHANGED <<buf, n, current, reads, pc, waiting, interrupted>>
  BY DEF Walk
<1>2. PICK k \in Nat : Walking(k)
  BY <1>1 DEF WalkInv
<1>3. /\ k \in DOMAIN current /\ m = current[k] /\ Sound(k)
      /\ off + m.len = StartOf(current, k + 1) /\ off + m.len <= n
  BY <1>1, <1>2, GoesOnSound
<1>4. /\ current \in Received /\ Len(current) \in Nat /\ DOMAIN current = 1..Len(current)
      /\ m \in Heard /\ m.type \in Nat /\ m.provider \in Nat /\ m.len \in Nat /\ m.len >= HdrLen
  BY <1>3, ReceivedType DEF WalkInv, Sound
<1>5. /\ msg # NoMsg <=> Readable(m)
      /\ msg # NoMsg => Tells(msg, m)
  <2> HIDE DEF m
  <2> QED
    BY <1>4, DecodedIsReadable DEF Slice
<1>6. k \in Intact
  BY <1>2, <1>3, <1>4 DEF Walking, Intact
<1>7. k \in Yields <=> msg # NoMsg
  BY <1>3, <1>5, <1>6 DEF Yields
<1>8. given \in Seq(Said) /\ msg \in Said
  BY <1>4 DEF WalkInv
<1> HIDE DEF msg, m
<1>9. Len(given) = Nth(k - 1) /\ k - 1 \in Nat /\ (k - 1) + 1 = k
  BY <1>2, <1>4 DEF Walking
<1>10. Nth(k) = IF k \in Yields THEN Nth(k - 1) + 1 ELSE Nth(k - 1)
  BY <1>4, <1>9, NthCounts
<1>11. given' \in Seq(Said) /\ Len(given') = Nth(k)
  <2>1. CASE msg = NoMsg
    BY <1>1, <1>7, <1>8, <1>9, <1>10, <2>1
  <2>2. CASE msg # NoMsg
    BY <1>1, <1>7, <1>8, <1>9, <1>10, <2>2, AppendProperties
  <2> QED
    BY <2>1, <2>2
<1>12. ASSUME NEW i \in Yields \cap 1..k
       PROVE  Tells(given'[Nth(i)], current[i])
  <2>1. CASE i = k
    <3>1. given'[Nth(k)] = msg
      BY <1>1, <1>7, <1>8, <1>9, <1>10, <2>1, AppendProperties
    <3> QED
      BY <1>3, <1>5, <1>7, <2>1, <3>1
  <2>2. CASE i # k
    <3>1. i \in Yields \cap 1..(k - 1)
      BY <1>4, <2>2
    <3>2. Tells(given[Nth(i)], current[i])
      BY <1>2, <3>1 DEF Walking
    <3>3. Nth(i) \in 1..Len(given)
      <4>1. i \in Nat /\ i - 1 \in Nat /\ (i - 1) + 1 = i /\ i <= k - 1
        BY <1>4, <3>1
      <4>2. Nth(i) = Nth(i - 1) + 1 /\ Nth(i - 1) \in Nat /\ Nth(i) <= Nth(k - 1) /\ Nth(k - 1) \in Nat
        BY <1>4, <1>9, <3>1, <4>1, NthCounts
      <4> QED
        BY <1>9, <4>2
    <3>4. given'[Nth(i)] = given[Nth(i)]
      BY <1>1, <1>8, <3>3, AppendProperties
    <3> QED
      BY <3>2, <3>4
  <2> QED
    BY <2>1, <2>2
<1>13. Walking(k + 1)'
  <2>1. k + 1 \in 1..(Len(current) + 1) /\ (k + 1) - 1 = k
    BY <1>3, <1>4
  <2>2. \A i \in 1..k : Sound(i)
    BY <1>2, <1>3, <1>4 DEF Walking
  <2>3. \A i : Sound(i)' = Sound(i)
    BY <1>1 DEF Sound
  <2>4. Yields' = Yields /\ \A i : Nth(i)' = Nth(i)
    <3>1. Yields' = Yields
      BY <1>1, <2>3 DEF Yields, Intact
    <3> QED
      BY <3>1 DEF Nth
  <2>5. off' = StartOf(current', k + 1)
    BY <1>1, <1>3
  <2>6. \A i \in Yields' \cap 1..k : Tells(given'[Nth(i)'], current'[i])
    BY <1>1, <1>12, <2>4
  <2>7. Len(given') = Nth(k)' /\ k + 1 \in 1..(Len(current') + 1)
    BY <1>1, <1>11, <2>1, <2>4
  <2>8. \A i \in 1..((k + 1) - 1) : Sound(i)'
    BY <2>1, <2>2, <2>3
  <2> QED
    BY <2>1, <2>5, <2>6, <2>7, <2>8 DEF Walking
<1>14. TypeOK'
  <2>1. TypeOK
    BY DEF WalkInv
  <2>2. off' \in 0..n'
    <3>1. off \in Nat /\ n \in Nat
      BY <2>1, WireAssumption DEF TypeOK
    <3>2. off + m.len \in 0..n
      BY <1>3, <1>4, <3>1
    <3> QED
      BY <1>1, <3>2
  <2> QED
    BY <1>1, <2>1, <2>2 DEF TypeOK
<1>15. Holds(current)' /\ n' = Min({Length(current'), BufLen}) /\ waiting' + reads' <= MaxReads /\ current' \in Received
  BY <1>1 DEF WalkInv, Holds
<1>16. pc' = "walk" /\ k + 1 \in Nat
  BY <1>1
<1> QED
  BY <1>11, <1>13, <1>14, <1>15, <1>16 DEF WalkInv, Slice

\* The walk has come to the end of what is intact.
LEMMA WalkEndsFaithful ==
  ASSUME WalkInv, WalkEnds
  PROVE  WalkInv'
<1> USE DEF bufVars
<1>1. pc = "walk" /\ ~Walkable /\ pc' = "recv" /\ UNCHANGED <<buf, n, current, reads, off, waiting, interrupted, given>>
  BY DEF WalkEnds
<1>2. PICK k \in Nat : Walking(k)
  BY <1>1 DEF WalkInv
<1>3. k \notin DOMAIN current \/ ~Sound(k)
  BY <1>1, <1>2, EndsAtBroken
<1>4. current \in Received /\ Len(current) \in Nat /\ DOMAIN current = 1..Len(current)
  BY ReceivedType DEF WalkInv
<1>5. /\ Len(given) <= Cardinality(Yields)
      /\ \A i \in Yields : Nth(i) <= Len(given) => Tells(given[Nth(i)], current[i])
  BY <1>2, <1>4, SoFarFaithful
<1>6. Intact \subseteq 1..(k - 1)
  <2> SUFFICES ASSUME NEW i \in Intact, k <= i PROVE FALSE
    BY <1>2, <1>4 DEF Intact, Walking
  <2>1. k \in DOMAIN current /\ k \in 1..i
    BY <1>2, <1>4 DEF Intact, Walking
  <2> QED
    BY <1>3, <2>1 DEF Intact
<1>7. Yields \cap 1..(k - 1) = Yields
  BY <1>6 DEF Yields
<1>8. Len(given) = Cardinality(Yields)
  BY <1>2, <1>7 DEF Walking, Nth
<1>9. Yields' = Yields /\ \A i : Nth(i)' = Nth(i)
  BY <1>1 DEF Yields, Intact, Sound, Nth
<1>10. WalkIsFaithful'
  BY <1>1, <1>5, <1>8, <1>9 DEF WalkIsFaithful, Tells
<1>11. TypeOK'
  BY <1>1 DEF WalkInv, TypeOK
<1> QED
  BY <1>1, <1>4, <1>10, <1>11 DEF WalkInv, Slice

LEMMA WalkInvKept == WalkInv /\ [Next]_vars => WalkInv'
<1> SUFFICES ASSUME WalkInv, [Next]_vars PROVE WalkInv'
  OBVIOUS
<1> USE DEF bufVars
<1>1. ASSUME UNCHANGED <<buf, n, current, reads, off, given>>, pc' = pc \/ (pc # "walk" /\ pc' # "walk"),
             pc' \in {"idle", "recv", "walk", "failed"}, interrupted' \in BOOLEAN,
             waiting' \in 0..MaxReads, waiting' + reads' <= MaxReads
      PROVE  WalkInv'
  <2>1. TypeOK'
    BY <1>1 DEF WalkInv, TypeOK
  <2>2. /\ current' \in Received
        /\ given' \in Seq({ParseMessage(m, Slice(m)) : m \in Heard})
    BY <1>1 DEF WalkInv
  <2>3. CASE pc = "walk"
    <3>1. PICK k \in Nat : Walking(k)
      BY <2>3 DEF WalkInv
    <3>2. Walking(k)'
      BY <1>1, <3>1, StillWalking
    <3>3. Holds(current)' /\ n' = Min({Length(current'), BufLen})
      BY <1>1, <2>3 DEF WalkInv, Holds
    <3>4. pc' = "walk"
      BY <1>1, <2>3
    <3> QED
      BY <1>1, <2>1, <2>2, <3>2, <3>3, <3>4 DEF WalkInv, Slice
  <2>4. CASE pc # "walk"
    <3>1. WalkIsFaithful'
      BY <1>1, <2>4, StillFaithful DEF WalkInv
    <3>2. pc' # "walk"
      BY <1>1, <2>4
    <3> QED
      BY <1>1, <2>1, <2>2, <3>1, <3>2 DEF WalkInv, Slice
  <2> QED
    BY <2>3, <2>4
<1>2. ASSUME NEW d \in Datagrams, Recv(d) PROVE WalkInv'
  BY <1>2, RecvStartsWalk
<1>3. ASSUME NEW path \in Paths, Walk(path) PROVE WalkInv'
  BY <1>3, WalkGoesOn
<1>4. CASE WalkEnds
  BY <1>4, WalkEndsFaithful
<1>5. CASE StartDrain \/ RecvInterrupted \/ RecvWouldBlock \/ RecvFails
  BY <1>1, <1>5 DEF StartDrain, RecvInterrupted, RecvWouldBlock, RecvFails, WalkInv, TypeOK
<1>6. CASE Post
  <2>1. waiting' \in 0..MaxReads /\ waiting' + reads' <= MaxReads
    BY <1>6, WireAssumption DEF Post, WalkInv, TypeOK
  <2> QED
    BY <1>1, <1>6, <2>1 DEF Post, WalkInv, TypeOK
<1>7. CASE Interrupt \/ UNCHANGED vars
  BY <1>1, <1>7 DEF Interrupt, vars, WalkInv, TypeOK
<1> QED
  BY <1>2, <1>3, <1>4, <1>5, <1>6, <1>7 DEF Next, Drain

LEMMA WalkInvAlways == Spec => []WalkInv
BY WalkInvInit, WalkInvKept, PTL DEF Spec

\* Whatever lengths the headers claim, the offset stays within what was received, and
\* that within the buffer (recv_into, parse_datagram).
THEOREM WireTypeCorrect == Spec => []TypeOK
<1>1. WalkInv => TypeOK
  BY DEF WalkInv
<1> QED
  BY <1>1, WalkInvAlways, PTL

\* For all datagrams, whatever lies behind them in the buffer: every message that
\* arrived whole and can be decoded is told once, in order, and nothing else is
\* (parse_datagram, parse_message).
THEOREM WalkAlwaysFaithful == Spec => []WalkIsFaithful
<1>1. ASSUME WalkInv PROVE WalkIsFaithful
  <2>1. CASE pc = "walk"
    <3>1. PICK k \in Nat : Walking(k)
      BY <1>1, <2>1 DEF WalkInv
    <3>2. current \in Received
      BY <1>1 DEF WalkInv
    <3> QED
      BY <2>1, <3>1, <3>2, SoFarFaithful DEF WalkIsFaithful
  <2>2. CASE pc # "walk"
    BY <1>1, <2>2 DEF WalkInv
  <2> QED
    BY <2>1, <2>2
<1>2. WalkInv => WalkIsFaithful
  BY <1>1
<1> QED
  BY <1>2, WalkInvAlways, PTL
=============================================================================
