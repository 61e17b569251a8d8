------------------------------- MODULE MCWire -------------------------------
(* Wire on datagrams of up to three messages, of every kind and at the      *)
(* lengths where a kind becomes decodable.                                  *)
EXTENDS Wire

Here  == [family |-> 2,  unspecified |-> FALSE, port |-> 80]
Any6  == [family |-> 30, unspecified |-> TRUE,  port |-> 0]
Bound == [family |-> 30, unspecified |-> TRUE,  port |-> 53]
Unix  == [family |-> 1,  unspecified |-> FALSE, port |-> 80]

Escape  == <<\h1B, 65>>
Flipped == <<65, \h202E>>
Plain   == <<65, 66>>
NulledName == <<65, 0, \h1B>>

Descr(pid, local, remote, name) ==
  [pid |-> pid, local |-> local, remote |-> remote, pname |-> name]
Good == Descr(7, Here, Any6, Plain)

Full(type, len, src, provider, desc) ==
  [type |-> type, len |-> len, size |-> len, src |-> src, provider |-> provider,
   code |-> 2, counts |-> 1, desc |-> desc]
Short(type, len) == Full(type, len, 1, 2, Good)
Broken(claimed, size) == [Short(SRC_COUNTS, size) EXCEPT !.len = claimed]

\* Messages at and just below the length their kind needs.
Edges == {Short(SRC_ADDED, 28), Short(SRC_ADDED, 24), Short(SRC_REMOVED, 24),
          Short(SRC_REMOVED, 16), Short(SRC_COUNTS, 64), Short(SRC_COUNTS, 56),
          Short(SUCCESS, 16), Short(ERROR, 24), Short(ERROR, 16), Short(10005, 16),
          Short(SRC_DESC, 300), Short(SRC_DESC, 299), Full(SRC_DESC, 236, 1, 4, Good),
          Full(SRC_DESC, 235, 1, 4, Good), Short(SRC_UPDATE, 148), Short(SRC_UPDATE, 144),
          Short(SRC_UPDATE, 412)}

\* Descriptors of a shifted layout or an unconnected socket, and hostile names.
Descs == {Full(SRC_DESC, 236, 2, p, d) : p \in {5, 9},
            d \in {Good, Descr(0, Here, Any6, Plain), Descr(\h400000, Here, Any6, Plain),
                   Descr(7, Any6, Unix, Plain), Descr(7, Any6, Bound, Plain),
                   Descr(7, Here, Any6, Escape), Descr(7, Here, Any6, Flipped),
                   Descr(7, Here, Any6, NoName), Descr(7, Here, Any6, NulledName)}}
         \cup {Full(SRC_UPDATE, 348, 2, 4, Descr(7, Here, Any6, Flipped))}

\* Only the last message of a datagram can be broken.
Ends == {Broken(0, 16), Broken(8, 16), Broken(64, 16), Broken(64, 63), Broken(64, 12)}

Firsts == {Short(SRC_ADDED, 28), Short(SRC_COUNTS, 64), Short(SRC_COUNTS, 56), Full(SRC_DESC, 236, 2, 9, Good)}
MCDatagrams == {<<m>> : m \in Edges \cup Descs \cup Ends}
          \cup {<<m, e>> : m \in Firsts, e \in Edges \cup Ends}
          \cup {<<m, m, e>> : m \in Firsts, e \in {Short(SRC_ADDED, 28), Broken(0, 16)}}
          \cup {<<>>}

MCPaths == {NoName, <<Slash, 97, Slash, \h1B, 66>>, <<97, Slash>>}
=============================================================================
