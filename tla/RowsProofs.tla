----------------------------- MODULE RowsProofs -----------------------------
(***************************************************************************)
(* What holds of the order on the screen and of the documents, for every   *)
(* set of samples, every text of the filter, every table of cases and of    *)
(* widths, and every width of the column.                                  *)
(***************************************************************************)
EXTENDS Rows, FoldLemmas, SequenceTheorems, TLAPS

\* A comparison leaves no two elements of S tied.
StrictOrder(less, S) ==
  /\ \A x, y \in S : x # y => <<x, y>> \in less \/ <<y, x>> \in less
  /\ \A x, y \in S : ~(<<x, y>> \in less /\ <<y, x>> \in less)
  /\ \A x, y, z \in S : <<x, y>> \in less /\ <<y, z>> \in less => <<x, z>> \in less

\* The elements of S, all of them, in the order of less.
Arranged(list, S, less) ==
  /\ DOMAIN list = 1..Cardinality(S)
  /\ ToSet(list) = S
  /\ \A i, j \in DOMAIN list : i < j => <<list[i], list[j]>> \in less

----------------------------------------------------------------------------
(* Sorting.                                                                *)

\* An enumeration of a finite set reaches all of it.
LEMMA ListOfAll ==
  ASSUME NEW S, IsFiniteSet(S), NEW list \in SetToSeqs(S)
  PROVE  /\ Cardinality(S) \in Nat
         /\ list \in [1..Cardinality(S) -> S]
         /\ \A i, j \in 1..Cardinality(S) : list[i] = list[j] => i = j
         /\ \A x \in S : \E i \in 1..Cardinality(S) : list[i] = x
<1> DEFINE D == 1..Cardinality(S)
<1>1. Cardinality(S) \in Nat
  BY FS_CardinalityType
<1>2. list \in [D -> S] /\ \A i, j \in D : list[i] = list[j] => i = j
  BY DEF SetToSeqs
<1>3. list \in Injection(D, S)
  BY <1>2 DEF Injection, IsInjective
<1>4. IsFiniteSet(D) /\ Cardinality(D) = Cardinality(S)
  BY <1>1, FS_Interval
<1>5. list \in Surjection(D, S)
  BY <1>3, <1>4, FS_Injection
<1> QED
  BY <1>1, <1>2, <1>5 DEF Surjection

\* How many elements stand above each one gives every place once.
LEMMA EveryPlaceTaken ==
  ASSUME NEW n \in Nat, NEW above \in [1..n -> SUBSET (1..n)],
         \A i \in 1..n : i \notin above[i],
         \A i, j \in 1..n : i # j => i \in above[j] \/ j \in above[i],
         \A i, j \in 1..n : i \in above[j] => above[i] \subseteq above[j]
  PROVE  /\ \A i, j \in 1..n : i \in above[j] => Cardinality(above[i]) < Cardinality(above[j])
         /\ \A i \in 1..n : Cardinality(above[i]) \in 0..(n - 1)
         /\ \A k \in 1..n : \E i \in 1..n : Cardinality(above[i]) = k - 1
<1> DEFINE D == 1..n
           place == [i \in D |-> Cardinality(above[i]) + 1]
<1>1. IsFiniteSet(D) /\ Cardinality(D) = n
  BY FS_Interval
<1>2. \A i \in D : IsFiniteSet(above[i]) /\ Cardinality(above[i]) \in Nat
  BY <1>1, FS_Subset, FS_CardinalityType
<1>3. ASSUME NEW i \in D
      PROVE  Cardinality(above[i]) \in 0..(n - 1)
  <2>1. IsFiniteSet(D \ {i}) /\ Cardinality(D \ {i}) = n - 1
    BY <1>1, FS_RemoveElement
  <2>2. above[i] \subseteq D \ {i}
    OBVIOUS
  <2>3. Cardinality(above[i]) <= n - 1
    BY <2>1, <2>2, FS_Subset
  <2> QED
    BY <1>2, <2>3
<1>4. ASSUME NEW i \in D, NEW j \in D, i \in above[j]
      PROVE  Cardinality(above[i]) < Cardinality(above[j])
  <2>1. above[i] \subseteq above[j] /\ above[i] # above[j]
    BY <1>4
  <2>2. /\ Cardinality(above[i]) <= Cardinality(above[j])
        /\ Cardinality(above[i]) # Cardinality(above[j])
    BY <1>2, <2>1, FS_Subset
  <2> QED
    BY <1>2, <2>2
<1>5. \A i, j \in D : Cardinality(above[i]) = Cardinality(above[j]) => i = j
  BY <1>2, <1>4
<1>6. place \in [D -> D]
  BY <1>3
<1>7. \A i, j \in D : place[i] = place[j] => i = j
  BY <1>2, <1>5
<1>8. place \in Injection(D, D)
  BY <1>6, <1>7 DEF Injection, IsInjective
<1>9. place \in Surjection(D, D)
  BY <1>1, <1>8, FS_Injection
<1>10. ASSUME NEW k \in D
       PROVE  \E i \in D : Cardinality(above[i]) = k - 1
  <2>1. PICK i \in D : place[i] = k
    BY <1>9 DEF Surjection
  <2>2. place[i] = Cardinality(above[i]) + 1 /\ Cardinality(above[i]) \in Nat
    BY <1>2
  <2>3. Cardinality(above[i]) = k - 1
    BY <2>1, <2>2
  <2> QED
    BY <2>3
<1> QED
  BY <1>3, <1>4, <1>10

\* However the elements came, sorting by a strict order arranges them (sort_by).
LEMMA SortedIsArranged ==
  ASSUME NEW S, IsFiniteSet(S), NEW list \in SetToSeqs(S), NEW less, StrictOrder(less, S)
  PROVE  Arranged(Sorted(list, less), S, less)
<1> DEFINE n == Cardinality(S)
           D == DOMAIN list
           over(i) == {j \in D : \/ <<list[j], list[i]>> \in less
                                 \/ <<list[i], list[j]>> \notin less /\ j < i}
           at(k) == CHOOSE i \in D : Cardinality(over(i)) = k - 1
           r == Sorted(list, less)
           above == [i \in D |-> over(i)]
<1>1. /\ n \in Nat /\ D = 1..n
      /\ \A i \in D : list[i] \in S
      /\ \A i, j \in D : list[i] = list[j] => i = j
      /\ \A x \in S : \E i \in D : list[i] = x
  BY ListOfAll
<1>2. ASSUME NEW i \in D, NEW j \in D
      PROVE  j \in over(i) <=> <<list[j], list[i]>> \in less
  <2> HIDE DEF D
  <2>1. list[i] \in S /\ list[j] \in S
    BY <1>1
  <2>2. CASE i = j
    <3>1. <<list[j], list[i]>> \notin less /\ ~(j < i)
      BY <1>1, <2>1, <2>2 DEF StrictOrder
    <3> QED
      BY <3>1
  <2>3. CASE i # j
    <3>1. list[i] # list[j]
      BY <1>1, <2>3
    <3>2. <<list[i], list[j]>> \in less <=> <<list[j], list[i]>> \notin less
      BY <2>1, <3>1 DEF StrictOrder
    <3> QED
      BY <3>2
  <2> QED
    BY <2>2, <2>3
<1>3. r = [k \in D |-> list[at(k)]]
  BY DEF Sorted
<1> HIDE DEF over, r, n, D
<1>4. /\ above \in [D -> SUBSET D]
      /\ \A i \in D : above[i] = over(i)
  BY DEF over
<1> HIDE DEF above
<1>5. /\ \A i \in D : list[i] \in S
      /\ \A i, j \in D : j \in above[i] <=> <<list[j], list[i]>> \in less
  BY <1>1, <1>2, <1>4
<1>6. \A i \in D : i \notin above[i]
  BY <1>5 DEF StrictOrder
<1>7. \A i, j \in D : i # j => i \in above[j] \/ j \in above[i]
  <2> SUFFICES ASSUME NEW i \in D, NEW j \in D, i # j
               PROVE  <<list[i], list[j]>> \in less \/ <<list[j], list[i]>> \in less
    BY <1>5
  <2>1. list[i] \in S /\ list[j] \in S /\ list[i] # list[j]
    BY <1>1, <1>5
  <2> QED
    BY <2>1 DEF StrictOrder
<1>8. ASSUME NEW i \in D, NEW j \in D, i \in above[j]
      PROVE  above[i] \subseteq above[j]
  <2> SUFFICES ASSUME NEW k \in above[i] PROVE k \in above[j]
    OBVIOUS
  <2>1. k \in D /\ <<list[k], list[i]>> \in less /\ <<list[i], list[j]>> \in less
    BY <1>4, <1>5, <1>8
  <2>2. <<list[k], list[j]>> \in less
    BY <1>5, <2>1 DEF StrictOrder
  <2> QED
    BY <1>5, <2>1, <2>2
<1>9. /\ \A i, j \in D : i \in above[j] => Cardinality(above[i]) < Cardinality(above[j])
      /\ \A i \in D : Cardinality(above[i]) \in 0..(n - 1)
      /\ \A k \in D : \E i \in D : Cardinality(above[i]) = k - 1
  <2>1. D = 1..n /\ n \in Nat
    BY <1>1
  <2>2. /\ above \in [1..n -> SUBSET (1..n)]
        /\ \A i \in 1..n : i \notin above[i]
        /\ \A i, j \in 1..n : i # j => i \in above[j] \/ j \in above[i]
        /\ \A i, j \in 1..n : i \in above[j] => above[i] \subseteq above[j]
    BY <1>4, <1>6, <1>7, <1>8, <2>1
  <2> HIDE DEF at
  <2>3. /\ \A i, j \in 1..n : i \in above[j] => Cardinality(above[i]) < Cardinality(above[j])
        /\ \A i \in 1..n : Cardinality(above[i]) \in 0..(n - 1)
        /\ \A k \in 1..n : \E i \in 1..n : Cardinality(above[i]) = k - 1
    BY <2>1, <2>2, EveryPlaceTaken
  <2> QED
    BY <2>1, <2>3
<1>10. \A k \in D : at(k) \in D /\ Cardinality(above[at(k)]) = k - 1
  <2> SUFFICES ASSUME NEW k \in D PROVE at(k) \in D /\ Cardinality(above[at(k)]) = k - 1
    OBVIOUS
  <2>1. \E i \in D : Cardinality(above[i]) = k - 1
    BY <1>9
  <2> QED
    BY <1>4, <2>1
<1> HIDE DEF at
<1>11. DOMAIN r = D
  BY <1>3
<1>12. ToSet(r) \subseteq S
  BY <1>3, <1>5, <1>10 DEF ToSet
<1>13. ASSUME NEW x \in S
       PROVE  x \in ToSet(r)
  <2>1. PICK i \in D : list[i] = x
    BY <1>1
  <2> DEFINE k == Cardinality(above[i]) + 1
  <2>2. k \in D /\ Cardinality(above[i]) = k - 1
    <3>1. Cardinality(above[i]) \in 0..(n - 1)
      BY <1>9
    <3> QED
      BY <1>1, <3>1
  <2> HIDE DEF k
  <2>3. at(k) \in D /\ Cardinality(above[at(k)]) = Cardinality(above[i])
    BY <1>10, <2>2
  <2>4. at(k) = i
    <3>1. ~(Cardinality(above[i]) < Cardinality(above[i]))
      BY <1>9
    <3> QED
      BY <1>7, <1>9, <2>3, <3>1
  <2>5. r[k] = x
    BY <1>3, <2>1, <2>2, <2>4
  <2> QED
    BY <1>11, <2>2, <2>5 DEF ToSet
<1>14. ASSUME NEW k \in D, NEW l \in D, k < l
       PROVE  <<r[k], r[l]>> \in less
  <2>1. /\ at(k) \in D /\ Cardinality(above[at(k)]) = k - 1
        /\ at(l) \in D /\ Cardinality(above[at(l)]) = l - 1
    BY <1>10
  <2>2. k - 1 < l - 1 /\ ~(l - 1 < k - 1)
    <3>1. k \in Nat /\ l \in Nat
      BY <1>1
    <3> QED
      BY <1>14, <3>1
  <2>3. at(k) # at(l) /\ at(l) \notin above[at(k)]
    BY <1>9, <2>1, <2>2
  <2>4. at(k) \in above[at(l)]
    BY <1>7, <2>1, <2>3
  <2> QED
    BY <1>3, <1>5, <2>1, <2>4
<1>15. DOMAIN r = 1..n
  BY <1>1, <1>11
<1>16. ToSet(r) = S
  BY <1>12, <1>13
<1>17. \A k, l \in DOMAIN r : k < l => <<r[k], r[l]>> \in less
  BY <1>11, <1>14
<1> QED
  BY <1>15, <1>16, <1>17 DEF Arranged, n, r

----------------------------------------------------------------------------
(* The comparisons.                                                        *)

Numbers == Seq(Nat)
Text    == Seq(Chars)

\* The lexicographic order of sequences is strict.
LEMMA PrecedesOneWay ==
  ASSUME NEW a \in Numbers, NEW b \in Numbers, Precedes(a, b)
  PROVE  ~Precedes(b, a)
<1> SUFFICES ASSUME Precedes(b, a) PROVE FALSE
  OBVIOUS
<1>1. PICK i \in 1..(Len(a) + 1) :
        /\ \A k \in 1..(i - 1) : k \in DOMAIN b /\ a[k] = b[k]
        /\ i \in DOMAIN b /\ (i \in DOMAIN a => a[i] < b[i])
  BY DEF Precedes
<1>2. PICK j \in 1..(Len(b) + 1) :
        /\ \A k \in 1..(j - 1) : k \in DOMAIN a /\ b[k] = a[k]
        /\ j \in DOMAIN a /\ (j \in DOMAIN b => b[j] < a[j])
  BY DEF Precedes
<1>3. Len(a) \in Nat /\ Len(b) \in Nat /\ i \in Nat /\ j \in Nat
  BY LenProperties DEF Numbers
<1>4. /\ i \in DOMAIN b /\ j \in DOMAIN a
      /\ \A k \in DOMAIN a : a[k] \in Nat
      /\ \A k \in DOMAIN b : b[k] \in Nat
  BY <1>1, <1>2, LenProperties, ElementOfSeq DEF Numbers
<1>5. CASE i < j
  <2>1. i \in 1..(j - 1)
    BY <1>3, <1>5
  <2> QED
    BY <1>1, <1>2, <1>4, <2>1
<1>6. CASE j < i
  <2>1. j \in 1..(i - 1)
    BY <1>3, <1>6
  <2> QED
    BY <1>1, <1>2, <1>4, <2>1
<1>7. CASE i = j
  BY <1>1, <1>2, <1>4, <1>7
<1> QED
  BY <1>3, <1>5, <1>6, <1>7

LEMMA PrecedesOn ==
  ASSUME NEW a \in Numbers, NEW b \in Numbers, NEW c \in Numbers, Precedes(a, b), Precedes(b, c)
  PROVE  Precedes(a, c)
<1>1. PICK i \in 1..(Len(a) + 1) :
        /\ \A k \in 1..(i - 1) : k \in DOMAIN b /\ a[k] = b[k]
        /\ i \in DOMAIN b /\ (i \in DOMAIN a => a[i] < b[i])
  BY DEF Precedes
<1>2. PICK j \in 1..(Len(b) + 1) :
        /\ \A k \in 1..(j - 1) : k \in DOMAIN c /\ b[k] = c[k]
        /\ j \in DOMAIN c /\ (j \in DOMAIN b => b[j] < c[j])
  BY DEF Precedes
<1>3. Len(a) \in Nat /\ Len(b) \in Nat /\ i \in Nat /\ j \in Nat
  BY LenProperties DEF Numbers
<1>4. /\ \A k \in DOMAIN a : a[k] \in Nat
      /\ \A k \in DOMAIN b : b[k] \in Nat
      /\ \A k \in DOMAIN c : c[k] \in Nat
  BY LenProperties, ElementOfSeq DEF Numbers
<1>5. CASE i <= j
  <2>1. \A k \in 1..(i - 1) : k \in 1..(j - 1)
    BY <1>3, <1>5
  <2>2. \A k \in 1..(i - 1) : k \in DOMAIN c /\ a[k] = c[k]
    BY <1>1, <1>2, <2>1
  <2>3. i \in DOMAIN c /\ (i \in DOMAIN a => a[i] < c[i])
    <3>1. CASE i = j
      BY <1>1, <1>2, <1>4, <3>1
    <3>2. CASE i < j
      <4>1. i \in 1..(j - 1)
        BY <1>3, <3>2
      <4> QED
        BY <1>1, <1>2, <4>1
    <3> QED
      BY <1>3, <1>5, <3>1, <3>2
  <2> QED
    BY <2>2, <2>3 DEF Precedes
<1>6. CASE j < i
  <2>1. \A k \in 1..(j - 1) : k \in 1..(i - 1)
    BY <1>3, <1>6
  <2>2. \A k \in 1..(j - 1) : k \in DOMAIN c /\ a[k] = c[k]
    BY <1>1, <1>2, <2>1
  <2>3. j \in 1..(i - 1) /\ j \in 1..(Len(a) + 1)
    BY <1>3, <1>6
  <2>4. j \in DOMAIN c /\ (j \in DOMAIN a => a[j] < c[j])
    BY <1>1, <1>2, <2>3
  <2> QED
    BY <2>2, <2>3, <2>4 DEF Precedes
<1> QED
  BY <1>3, <1>5, <1>6

LEMMA PrecedesTotal ==
  ASSUME NEW a \in Numbers, NEW b \in Numbers, a # b
  PROVE  Precedes(a, b) \/ Precedes(b, a)
<1> DEFINE D == {k \in 1..(Len(a) + 1) : ~(k \in DOMAIN a /\ k \in DOMAIN b /\ a[k] = b[k])}
<1>1. /\ Len(a) \in Nat /\ DOMAIN a = 1..Len(a)
      /\ Len(b) \in Nat /\ DOMAIN b = 1..Len(b)
  BY LenProperties DEF Numbers
<1>2. Len(a) + 1 \in D /\ D \subseteq Nat
  BY <1>1
<1>3. PICK m \in D : \A y \in D : m <= y
  BY <1>2, LeastNat
<1>4. m \in 1..(Len(a) + 1) /\ m \in Nat
  BY <1>1
<1>5. ASSUME NEW k \in 1..(m - 1)
      PROVE  k \in DOMAIN a /\ k \in DOMAIN b /\ a[k] = b[k]
  <2>1. k \in 1..(Len(a) + 1) /\ ~(m <= k)
    BY <1>1, <1>4
  <2>2. k \notin D
    BY <1>3, <2>1
  <2> QED
    BY <2>1, <2>2
<1>6. ~(m \in DOMAIN a /\ m \in DOMAIN b /\ a[m] = b[m])
  OBVIOUS
<1> HIDE DEF D
<1>7. /\ \A k \in DOMAIN a : a[k] \in Nat
      /\ \A k \in DOMAIN b : b[k] \in Nat
  BY <1>1, ElementOfSeq DEF Numbers
<1>8. m \in 1..(Len(b) + 1)
  <2>1. CASE m = 1
    BY <1>1, <2>1
  <2>2. CASE m # 1
    <3>1. m - 1 \in 1..(m - 1)
      BY <1>4, <2>2
    <3>2. m - 1 \in DOMAIN b
      BY <1>5, <3>1
    <3> QED
      BY <1>1, <1>4, <3>2
  <2> QED
    BY <2>1, <2>2
<1>9. CASE m \in DOMAIN a /\ m \in DOMAIN b
  <2>1. a[m] < b[m] \/ b[m] < a[m]
    BY <1>6, <1>7, <1>9
  <2> QED
    BY <1>4, <1>5, <1>8, <1>9, <2>1 DEF Precedes
<1>10. CASE m \notin DOMAIN a /\ m \in DOMAIN b
  BY <1>4, <1>5, <1>10 DEF Precedes
<1>11. CASE m \in DOMAIN a /\ m \notin DOMAIN b
  BY <1>5, <1>8, <1>11 DEF Precedes
<1>12. CASE m \notin DOMAIN a /\ m \notin DOMAIN b
  <2>1. Len(a) = m - 1 /\ Len(b) = m - 1
    BY <1>1, <1>4, <1>8, <1>12
  <2>2. \A k \in 1..Len(a) : a[k] = b[k]
    BY <1>5, <2>1
  <2>3. a = b
    BY <2>1, <2>2, SeqEqual DEF Numbers
  <2> QED
    BY <2>3
<1> QED
  BY <1>9, <1>10, <1>11, <1>12

Columns == {"Rate", "Total", "Name", "Conns", "Pid"}

\* What a column compares is a sequence of numbers.
LEMMA ValueType ==
  ASSUME NEW s \in Samples, NEW p \in DOMAIN s.rows, NEW key \in Columns
  PROVE  ValueOf(p, s.rows[p], key) \in Numbers
<1> DEFINE r == s.rows[p]
<1>1. p \in Nat /\ r.rate \in Nat /\ r.total \in Nat /\ r.conns \in Nat /\ r.name \in Seq(Chars)
  BY RowsAssumption
<1> HIDE DEF r
<1>2. LowerChars(r.name) \in Numbers
  <2>1. Len(r.name) \in Nat /\ DOMAIN r.name = 1..Len(r.name)
    BY <1>1, LenProperties
  <2>2. \A i \in 1..Len(r.name) : LowerOf[r.name[i]] \in Nat
    BY <1>1, ElementOfSeq, RowsAssumption
  <2>3. LowerChars(r.name) = [i \in 1..Len(r.name) |-> LowerOf[r.name[i]]]
    BY <2>1 DEF LowerChars
  <2> QED
    BY <2>1, <2>2, <2>3 DEF Numbers
<1>3. \A k \in Nat : <<k>> \in Numbers
  BY DEF Numbers
<1> HIDE DEF r
<1>4. ValueOf(p, r, key) \in {<<r.rate>>, <<r.total>>, LowerChars(r.name), <<r.conns>>, <<p>>}
  BY DEF ValueOf, Columns
<1> QED
  BY <1>1, <1>2, <1>3, <1>4 DEF r

\* sort_rows leaves no two rows tied, by whichever column and in either direction.
LEMMA RowOrderIsStrict ==
  ASSUME NEW s \in Samples, NEW key \in Columns, NEW down \in BOOLEAN
  PROVE  StrictOrder(RowOrder(s.rows, key, down), DOMAIN s.rows)
<1> DEFINE P == DOMAIN s.rows
           less == RowOrder(s.rows, key, down)
           v(p) == ValueOf(p, s.rows[p], key)
           fore(p, q) == IF down THEN Precedes(v(q), v(p)) ELSE Precedes(v(p), v(q))
<1>1. \A p \in P : p \in Nat /\ v(p) \in Numbers
  BY RowsAssumption, ValueType
<1>2. \A p, q \in P : <<p, q>> \in less <=> fore(p, q) \/ (v(p) = v(q) /\ p < q)
  BY DEF RowOrder, RowLess
<1> HIDE DEF P, less, v
<1>3. \A p, q \in P : fore(p, q) => ~fore(q, p)
  BY <1>1, PrecedesOneWay
<1>4. \A p, q, r \in P : fore(p, q) /\ fore(q, r) => fore(p, r)
  BY <1>1, PrecedesOn
<1>5. \A p, q \in P : v(p) # v(q) => fore(p, q) \/ fore(q, p)
  BY <1>1, PrecedesTotal
<1>6. /\ \A p, q, r \in P : v(p) = v(q) => (fore(p, r) <=> fore(q, r)) /\ (fore(r, p) <=> fore(r, q))
      /\ \A p, q \in P : fore(p, q) => v(p) # v(q)
  <2>1. \A p \in P : ~fore(p, p)
    BY <1>3
  <2>2. \A p, q, r \in P : v(p) = v(q) => (fore(p, r) <=> fore(q, r)) /\ (fore(r, p) <=> fore(r, q))
    OBVIOUS
  <2> QED
    BY <2>1, <2>2
<1> HIDE DEF fore
<1>7. \A p, q \in P : p # q => <<p, q>> \in less \/ <<q, p>> \in less
  BY <1>1, <1>2, <1>5
<1>8. \A p, q \in P : ~(<<p, q>> \in less /\ <<q, p>> \in less)
  <2> SUFFICES ASSUME NEW p \in P, NEW q \in P, <<p, q>> \in less, <<q, p>> \in less
               PROVE  FALSE
    OBVIOUS
  <2>1. /\ fore(p, q) \/ (v(p) = v(q) /\ p < q)
        /\ fore(q, p) \/ (v(q) = v(p) /\ q < p)
    BY <1>2
  <2>2. v(p) = v(q) => ~fore(p, q) /\ ~fore(q, p)
    BY <1>6
  <2>3. ~(fore(p, q) /\ fore(q, p))
    BY <1>3
  <2>4. p < q /\ q < p
    BY <2>1, <2>2, <2>3
  <2> QED
    BY <1>1, <2>4
<1>9. ASSUME NEW p \in P, NEW q \in P, NEW r \in P, <<p, q>> \in less, <<q, r>> \in less
      PROVE  <<p, r>> \in less
  <2>1. CASE fore(p, q) /\ fore(q, r)
    BY <1>2, <1>4, <2>1
  <2>2. CASE fore(p, q) /\ v(q) = v(r)
    BY <1>2, <1>6, <2>2
  <2>3. CASE v(p) = v(q) /\ fore(q, r)
    BY <1>2, <1>6, <2>3
  <2>4. CASE v(p) = v(q) /\ p < q /\ v(q) = v(r) /\ q < r
    BY <1>1, <1>2, <2>4
  <2> QED
    BY <1>2, <1>9, <2>1, <2>2, <2>3, <2>4
<1> QED
  BY <1>7, <1>8, <1>9 DEF StrictOrder, P, less

\* Nor does flows_for leave two flows tied.
LEMMA FlowOrderIsStrict ==
  ASSUME NEW s \in Samples
  PROVE  StrictOrder(FlowOrder(s.flows), DOMAIN s.flows)
<1> DEFINE F == DOMAIN s.flows
           less == FlowOrder(s.flows)
           rate(f) == s.flows[f].rate
           port(f) == s.flows[f].port
<1>1. \A f \in F : f \in Nat /\ rate(f) \in Nat /\ port(f) \in Nat
  BY RowsAssumption
<1>2. \A f, g \in F : <<f, g>> \in less <=>
        \/ rate(f) > rate(g)
        \/ rate(f) = rate(g) /\ port(f) < port(g)
        \/ rate(f) = rate(g) /\ port(f) = port(g) /\ f < g
  BY DEF FlowOrder, FlowLess
<1> HIDE DEF F, less, rate, port
<1>3. ASSUME NEW f \in F, NEW g \in F
      PROVE  /\ f # g => <<f, g>> \in less \/ <<g, f>> \in less
             /\ ~(<<f, g>> \in less /\ <<g, f>> \in less)
  <2>1. /\ f \in Nat /\ rate(f) \in Nat /\ port(f) \in Nat
        /\ g \in Nat /\ rate(g) \in Nat /\ port(g) \in Nat
    BY <1>1
  <2> QED
    BY <1>2, <2>1
<1>5. ASSUME NEW f \in F, NEW g \in F, NEW h \in F, <<f, g>> \in less, <<g, h>> \in less
      PROVE  <<f, h>> \in less
  <2>1. /\ f \in Nat /\ rate(f) \in Nat /\ port(f) \in Nat
        /\ g \in Nat /\ rate(g) \in Nat /\ port(g) \in Nat
        /\ h \in Nat /\ rate(h) \in Nat /\ port(h) \in Nat
    BY <1>1
  <2>2. /\ \/ rate(f) > rate(g)
           \/ rate(f) = rate(g) /\ port(f) < port(g)
           \/ rate(f) = rate(g) /\ port(f) = port(g) /\ f < g
        /\ \/ rate(g) > rate(h)
           \/ rate(g) = rate(h) /\ port(g) < port(h)
           \/ rate(g) = rate(h) /\ port(g) = port(h) /\ g < h
    BY <1>2, <1>5
  <2>3. \/ rate(f) > rate(h)
        \/ rate(f) = rate(h) /\ port(f) < port(h)
        \/ rate(f) = rate(h) /\ port(f) = port(h) /\ f < h
    BY <2>1, <2>2
  <2> QED
    BY <1>2, <2>3
<1> QED
  BY <1>3, <1>5 DEF StrictOrder, F, less

----------------------------------------------------------------------------
(* The filter.                                                             *)

\* Behind a capital sigma that something not ignored follows, a cased character
\* stands in a text exactly if it does in the longer ones.
LEMMA SameBehind ==
  ASSUME NEW q \in Text, NEW long \in Text, Len(q) <= Len(long),
         \A i \in 1..Len(q) : q[i] = long[i],
         NEW i \in 1..Len(q), NEW m \in (i + 1)..Len(q), q[m] \notin Ignorable
  PROVE  CasedBehind(q, i) <=> CasedBehind(long, i)
<1>1. Len(q) \in Nat /\ Len(long) \in Nat
  BY LenProperties DEF Text
<1>2. ASSUME CasedBehind(q, i)
      PROVE  CasedBehind(long, i)
  <2>1. PICK j \in (i + 1)..Len(q) : q[j] \in Cased \ Ignorable /\ \A k \in (i + 1)..(j - 1) : q[k] \in Ignorable
    BY <1>2 DEF CasedBehind
  <2>2. j \in (i + 1)..Len(long) /\ j \in 1..Len(q) /\ \A k \in (i + 1)..(j - 1) : k \in 1..Len(q)
    BY <1>1
  <2> QED
    BY <2>1, <2>2 DEF CasedBehind
<1>3. ASSUME CasedBehind(long, i)
      PROVE  CasedBehind(q, i)
  <2>1. PICK j \in (i + 1)..Len(long) :
          long[j] \in Cased \ Ignorable /\ \A k \in (i + 1)..(j - 1) : long[k] \in Ignorable
    BY <1>3 DEF CasedBehind
  <2>2. ~(m < j)
    <3>1. m \in 1..Len(q)
      BY <1>1
    <3>2. m < j => m \in (i + 1)..(j - 1)
      BY <1>1
    <3> QED
      BY <2>1, <3>1, <3>2
  <2>3. j \in (i + 1)..Len(q) /\ j \in 1..Len(q) /\ \A k \in (i + 1)..(j - 1) : k \in 1..Len(q)
    BY <1>1, <2>2
  <2> QED
    BY <2>1, <2>3 DEF CasedBehind
<1> QED
  BY <1>2, <1>3

\* The lower case of a text that does not end in a capital sigma begins that of
\* every longer one.
LEMMA LowerBegins ==
  ASSUME NEW q \in Text, NEW long \in Text, Len(q) <= Len(long),
         \A i \in 1..Len(q) : q[i] = long[i], ~EndsInSigma(q)
  PROVE  /\ DOMAIN Lower(q) = 1..Len(q) /\ DOMAIN Lower(long) = 1..Len(long)
         /\ \A i \in 1..Len(q) : Lower(q)[i] = Lower(long)[i]
<1>1. /\ Len(q) \in Nat /\ DOMAIN q = 1..Len(q)
      /\ Len(long) \in Nat /\ DOMAIN long = 1..Len(long)
  BY LenProperties DEF Text
<1>2. ASSUME NEW i \in 1..Len(q)
      PROVE  Lower(q)[i] = Lower(long)[i]
  <2>1. i \in DOMAIN q /\ i \in DOMAIN long /\ q[i] = long[i]
    BY <1>1
  <2>2. CASE q[i] # Sigma
    BY <2>1, <2>2 DEF Lower
  <2>3. CASE q[i] = Sigma
    <3>1. CasedBefore(q, i) <=> CasedBefore(long, i)
      <4>1. \A j \in 1..(i - 1) : q[j] = long[j] /\ \A k \in (j + 1)..(i - 1) : q[k] = long[k]
        BY <1>1
      <4> QED
        BY <4>1 DEF CasedBefore
    <3>2. CASE ~CasedBefore(q, i)
      BY <2>1, <2>3, <3>1, <3>2 DEF Lower
    <3>3. CASE CasedBefore(q, i)
      <4>1. PICK m \in (i + 1)..Len(q) : q[m] \notin Ignorable
        BY <2>1, <2>3, <3>3 DEF EndsInSigma
      <4>2. CasedBehind(q, i) <=> CasedBehind(long, i)
        BY <4>1, SameBehind
      <4> QED
        BY <2>1, <2>3, <3>1, <4>2 DEF Lower
    <3> QED
      BY <3>2, <3>3
  <2> QED
    BY <2>2, <2>3
<1> QED
  BY <1>1, <1>2 DEF Lower

\* What a query matches, every query it begins with matches too, whatever the
\* digits of the pid are and wherever the query stops to be a number, if that does
\* not end in a capital sigma.
LEMMA ShorterMatches ==
  ASSUME NEW q \in Text, NEW long \in Text, IsPrefix(q, long), ~EndsInSigma(q),
         NEW p, NEW r, Matches(long, p, r)
  PROVE  Matches(q, p, r)
<1>1. /\ Len(q) \in Nat /\ DOMAIN q = 1..Len(q) /\ Len(long) \in Nat /\ DOMAIN long = 1..Len(long)
      /\ Len(q) <= Len(long)
  BY LenProperties DEF Text, IsPrefix
<1>2. \A i \in DOMAIN q : i \in DOMAIN long /\ q[i] = long[i]
  <2>1. \A i \in 1..Len(q) : i \in 1..Len(long) /\ q[i] \in Chars /\ long[i] \in Chars
    BY <1>1, ElementOfSeq DEF Text
  <2>2. \A i \in 1..Len(q) : SubSeq(q, 1, Len(q))[i] = q[i] /\ SubSeq(long, 1, Len(q))[i] = long[i]
    BY <1>1, <2>1, SubSeqProperties
  <2> QED
    BY <1>1, <2>1, <2>2 DEF IsPrefix
<1>3. /\ DOMAIN Lower(q) = DOMAIN q /\ DOMAIN Lower(long) = DOMAIN long
      /\ \A i \in DOMAIN q : Lower(q)[i] = Lower(long)[i]
  BY <1>1, <1>2, LowerBegins
<1>4. \A s : Within(s, Lower(long)) => Within(s, Lower(q))
  BY <1>2, <1>3 DEF Within
<1>5. q # <<>> => long # <<>>
  BY <1>1
<1>6. q # <<>> /\ Numeric(long) => Numeric(q)
  BY <1>2 DEF Numeric
<1>7. long = <<>> => q = <<>>
  BY <1>1, EmptySeq DEF Text
<1> QED
  BY <1>4, <1>6, <1>7 DEF Matches

----------------------------------------------------------------------------
(* The text table.                                                         *)

\* A sum over the positions of a text is a number.
LEMMA SumOverText ==
  ASSUME NEW n \in Nat, NEW f, \A i \in 1..n : f[i] \in Nat
  PROVE  SumFunctionOnSet(f, 1..n) \in Nat
<1>1. IsFiniteSet(1..n)
  BY FS_Interval
<1> QED
  BY <1>1, SumOfSubset

\* The characters shown as emoji are finitely many.
LEMMA PresentedFinite ==
  ASSUME NEW s \in Text
  PROVE  /\ Presented(s) \subseteq 1..Len(s)
         /\ IsFiniteSet(Presented(s)) /\ Cardinality(Presented(s)) \in Nat
<1>1. Len(s) \in Nat
  BY LenProperties DEF Text
<1>2. Presented(s) \subseteq 1..Len(s)
  BY <1>1 DEF Presented
<1>3. IsFiniteSet(1..Len(s))
  BY <1>1, FS_Interval
<1> QED
  BY <1>2, <1>3, FS_Subset, FS_CardinalityType

\* A piece of a text ends in the character it ends at.
LEMMA PieceOfText ==
  ASSUME NEW s \in Text, NEW i \in 1..Len(s), NEW k \in 1..(i - 1)
  PROVE  /\ SubSeq(s, k, i) \in Seq(Chars) /\ Len(SubSeq(s, k, i)) = i - k + 1
         /\ \A j \in 1..(i - k + 1) : SubSeq(s, k, i)[j] = s[k + j - 1]
         /\ Last(SubSeq(s, k, i)) = s[i]
<1>1. Len(s) \in Nat /\ k \in Int /\ i \in Int
  BY LenProperties DEF Text
<1>2. \A j \in k..i : s[j] \in Chars
  <2>1. \A j \in k..i : j \in 1..Len(s)
    BY <1>1
  <2> QED
    BY <2>1, ElementOfSeq DEF Text
<1>3. /\ SubSeq(s, k, i) \in Seq(Chars)
      /\ Len(SubSeq(s, k, i)) = IF k <= i THEN i - k + 1 ELSE 0
      /\ \A j \in 1..(i - k + 1) : SubSeq(s, k, i)[j] = s[k + j - 1]
  BY <1>1, <1>2, SubSeqProperties
<1>4. Len(SubSeq(s, k, i)) = i - k + 1
  BY <1>1, <1>3
<1>5. i - k + 1 \in 1..(i - k + 1) /\ k + (i - k + 1) - 1 = i
  BY <1>1
<1>6. SubSeq(s, k, i)[i - k + 1] = s[k + (i - k + 1) - 1]
  BY <1>3, <1>5
<1> QED
  BY <1>3, <1>4, <1>5, <1>6 DEF Last

LEMMA JointsAreNumbers ==
  ASSUME NEW s, NEW i \in Nat
  PROVE  Joints(s, i) \in SUBSET Nat
BY DEF Joints

\* In a string a character is never wider than by itself, but for those shown as
\* emoji: by one column.
LEMMA WidthAtType ==
  ASSUME NEW s \in Text, NEW i \in 1..Len(s)
  PROVE  /\ WidthAt(s, i) \in Nat /\ WidthOf[s[i]] \in Nat
         /\ WidthAt(s, i) <= WidthOf[s[i]] + (IF i \in Presented(s) THEN 1 ELSE 0)
<1>1. s[i] \in Chars
  BY ElementOfSeq DEF Text
<1>2. WidthOf[s[i]] \in Nat
  BY <1>1, RowsAssumption
<1>3. i \in Presented(s) \cup Plain(s) => WidthOf[s[i]] >= 1
  BY <1>1, RowsAssumption DEF Presented, Plain
<1>4. CASE Joints(s, i) # {}
  <2> DEFINE k == Min(Joints(s, i))
             piece == SubSeq(s, k, i)
  <2>1. k \in Joints(s, i)
    BY <1>4, JointsAreNumbers, MinOfNats
  <2>2. k \in 1..(i - 1) /\ piece \in DOMAIN Joined
    BY <2>1 DEF Joints
  <2> HIDE DEF k
  <2>3. piece \in Seq(Chars) /\ Last(piece) = s[i]
    BY <2>2, PieceOfText
  <2>4. Joined[piece] \in Nat /\ Joined[piece] <= WidthOf[s[i]]
    <3>1. Joined[piece] \in 0..WidthOf[Last(piece)]
      BY <2>2, RowsAssumption
    <3> QED
      BY <1>2, <2>3, <3>1
  <2>5. WidthAt(s, i) = Joined[piece]
    BY <1>4 DEF WidthAt, k
  <2> QED
    BY <1>2, <2>4, <2>5
<1>5. CASE Joints(s, i) = {}
  BY <1>2, <1>3, <1>5 DEF WidthAt
<1> QED
  BY <1>4, <1>5

LEMMA WidthsAreSums ==
  ASSUME NEW s \in Text
  PROVE  /\ StrWidth(s) = SumFunctionOnSet([i \in 1..Len(s) |-> WidthAt(s, i)], 1..Len(s))
         /\ CharsWidth(s) = SumFunctionOnSet([i \in 1..Len(s) |-> WidthOf[s[i]]], 1..Len(s))
         /\ StrWidth(s) \in Nat /\ CharsWidth(s) \in Nat
<1> DEFINE f == [i \in 1..Len(s) |-> WidthAt(s, i)]
           g == [i \in 1..Len(s) |-> WidthOf[s[i]]]
<1>1. DOMAIN s = 1..Len(s) /\ Len(s) \in Nat
  BY LenProperties DEF Text
<1>2. StrWidth(s) = SumFunctionOnSet(f, 1..Len(s)) /\ CharsWidth(s) = SumFunctionOnSet(g, 1..Len(s))
  BY <1>1 DEF StrWidth, CharsWidth, SumFunction
<1>3. \A i \in 1..Len(s) : f[i] \in Nat /\ g[i] \in Nat
  BY WidthAtType
<1> HIDE DEF f, g
<1>4. SumFunctionOnSet(f, 1..Len(s)) \in Nat /\ SumFunctionOnSet(g, 1..Len(s)) \in Nat
  BY <1>1, <1>3, SumOverText
<1> QED
  BY <1>2, <1>4 DEF f, g

LEMMA WidthOfNothing == CharsWidth(<<>>) = 0
<1>1. <<>> \in Text /\ Len(<<>>) = 0
  BY EmptySeq DEF Text
<1>2. 1..0 = {}
  OBVIOUS
<1> QED
  BY <1>1, <1>2, WidthsAreSums, SumEmpty

\* Adding a mark to some of the summands adds their number to the sum.
LEMMA SumOfMarked ==
  ASSUME NEW S, IsFiniteSet(S), NEW f, NEW g, NEW P \in SUBSET S,
         \A x \in S : f[x] \in Nat /\ g[x] \in Nat /\ f[x] <= g[x] + (IF x \in P THEN 1 ELSE 0)
  PROVE  SumFunctionOnSet(f, S) <= SumFunctionOnSet(g, S) + Cardinality(P)
<1> DEFINE Good(T) == SumFunctionOnSet(f, T) <= SumFunctionOnSet(g, T) + Cardinality(T \cap P)
           Bad == {T \in SUBSET S : ~Good(T)}
<1>1. Bad = {}
  <2> SUFFICES ASSUME Bad # {} PROVE FALSE
    OBVIOUS
  <2>1. \A T \in Bad : IsFiniteSet(T)
    BY FS_Subset
  <2>2. PICK T \in Bad : \A U \in Bad : ~(Cardinality(U) < Cardinality(T))
    BY <2>1, LeastSet
  <2>3. T \in SUBSET S /\ IsFiniteSet(T) /\ ~Good(T)
    BY <2>1
  <2>4. CASE T = {}
    <3>1. Cardinality({}) = 0 /\ T \cap P = {}
      BY <2>4, FS_EmptySet
    <3>2. SumFunctionOnSet(f, T) = 0 /\ SumFunctionOnSet(g, T) = 0
      BY <2>4, SumEmpty
    <3> QED
      BY <2>3, <3>1, <3>2
  <2>5. CASE T # {}
    <3>1. PICK e \in T : TRUE
      BY <2>5
    <3> DEFINE U == T \ {e}
    <3>2. /\ IsFiniteSet(U) /\ U \in SUBSET S
          /\ Cardinality(U) \in Nat /\ Cardinality(T) \in Nat /\ Cardinality(U) < Cardinality(T)
      <4>1. IsFiniteSet(U) /\ Cardinality(U) = Cardinality(T) - 1
        BY <2>3, FS_RemoveElement
      <4>2. Cardinality(U) \in Nat /\ Cardinality(T) \in Nat
        BY <2>3, <4>1, FS_CardinalityType
      <4> QED
        BY <2>3, <4>1, <4>2
    <3>3. Good(U)
      BY <2>2, <3>2
    <3>4. /\ SumFunctionOnSet(f, T) = f[e] + SumFunctionOnSet(f, U)
          /\ SumFunctionOnSet(g, T) = g[e] + SumFunctionOnSet(g, U)
      BY <2>3, SumTakeOut
    <3>5. /\ SumFunctionOnSet(f, U) \in Nat /\ SumFunctionOnSet(g, U) \in Nat
          /\ f[e] \in Nat /\ g[e] \in Nat /\ f[e] <= g[e] + (IF e \in P THEN 1 ELSE 0)
      BY <2>3, <3>2, SumOfSubset
    <3>6. /\ Cardinality(U \cap P) \in Nat
          /\ Cardinality(T \cap P) = Cardinality(U \cap P) + (IF e \in P THEN 1 ELSE 0)
      <4>1. IsFiniteSet(U \cap P) /\ Cardinality(U \cap P) \in Nat
        BY <3>2, FS_Subset, FS_CardinalityType
      <4>2. CASE e \in P
        <5>1. T \cap P = (U \cap P) \cup {e} /\ e \notin U \cap P
          BY <4>2
        <5>2. Cardinality(T \cap P) = Cardinality(U \cap P) + 1
          BY <4>1, <5>1, FS_AddElement
        <5> QED
          BY <4>1, <4>2, <5>2
      <4>3. CASE e \notin P
        <5>1. T \cap P = U \cap P
          BY <4>3
        <5> QED
          BY <4>1, <4>3, <5>1
      <4> QED
        BY <4>2, <4>3
    <3> HIDE DEF U
    <3> QED
      BY <2>3, <3>3, <3>4, <3>5, <3>6
  <2> QED
    BY <2>4, <2>5
<1>2. S \cap P = P
  OBVIOUS
<1> QED
  BY <1>1, <1>2

\* A string is wider than its characters by no more than one column for each that is
\* shown as an emoji.
LEMMA StringBeyondChars ==
  ASSUME NEW s \in Text
  PROVE  StrWidth(s) <= CharsWidth(s) + Cardinality(Presented(s))
<1> DEFINE f == [i \in 1..Len(s) |-> WidthAt(s, i)]
           g == [i \in 1..Len(s) |-> WidthOf[s[i]]]
<1>1. Len(s) \in Nat /\ IsFiniteSet(1..Len(s))
  BY LenProperties, FS_Interval DEF Text
<1>2. \A i \in 1..Len(s) : f[i] \in Nat /\ g[i] \in Nat /\ f[i] <= g[i] + (IF i \in Presented(s) THEN 1 ELSE 0)
  BY WidthAtType
<1>3. Presented(s) \in SUBSET (1..Len(s))
  BY PresentedFinite
<1>4. StrWidth(s) = SumFunctionOnSet(f, 1..Len(s)) /\ CharsWidth(s) = SumFunctionOnSet(g, 1..Len(s))
  BY WidthsAreSums
<1> HIDE DEF f, g
<1> QED
  BY <1>1, <1>2, <1>3, <1>4, SumOfMarked

\* A space or an ellipsis behind a text takes a column and leaves the rest as it was.
LEMMA WidthOfAppend ==
  ASSUME NEW s \in Text, NEW c \in {Space, Ellipsis}
  PROVE  /\ Append(s, c) \in Text
         /\ Presented(Append(s, c)) = Presented(s)
         /\ StrWidth(Append(s, c)) = StrWidth(s) + 1
<1> DEFINE t == Append(s, c)
           n == Len(s)
           f == [i \in 1..n |-> WidthAt(s, i)]
           g == [i \in 1..(n + 1) |-> WidthAt(t, i)]
<1>1. /\ c \in Chars /\ c # VS16 /\ c # VS15 /\ WidthOf[c] = 1
      /\ \A o \in DOMAIN Joined : Last(o) # c
  BY RowsAssumption DEF Space, Ellipsis, VS15, VS16
<1>2. /\ n \in Nat /\ t \in Text /\ Len(t) = n + 1 /\ t[n + 1] = c
      /\ \A i \in 1..n : t[i] = s[i]
  BY <1>1, LenProperties, AppendProperties DEF Text
<1> HIDE DEF t, n
<1>3. Presented(t) = Presented(s) /\ Plain(t) = Plain(s)
  <2>1. n \notin Presented(t) /\ n \notin Plain(t)
    BY <1>1, <1>2 DEF Presented, Plain
  <2>2. \A i \in 1..(n - 1) : i \in 1..n /\ i + 1 \in 1..n /\ i \in 1..((n + 1) - 1)
    BY <1>2
  <2>3. \A i \in 1..(n - 1) : t[i] = s[i] /\ t[i + 1] = s[i + 1]
    BY <1>2, <2>2
  <2>4. /\ Presented(t) \cup Plain(t) \subseteq 1..((n + 1) - 1)
        /\ Presented(s) \cup Plain(s) \subseteq 1..(n - 1)
    BY <1>2 DEF Presented, Plain, n
  <2>5. \A i \in 1..(n - 1) : (i \in Presented(t) <=> i \in Presented(s)) /\ (i \in Plain(t) <=> i \in Plain(s))
    BY <1>2, <2>2, <2>3 DEF Presented, Plain, n
  <2>6. \A i \in 1..((n + 1) - 1) : i # n => i \in 1..(n - 1)
    BY <1>2
  <2> QED
    BY <2>1, <2>4, <2>5, <2>6
<1>4. \A i \in 1..n : WidthAt(t, i) = WidthAt(s, i)
  <2> SUFFICES ASSUME NEW i \in 1..n PROVE WidthAt(t, i) = WidthAt(s, i)
    OBVIOUS
  <2>1. t[i] = s[i] /\ i \in 1..Len(s) /\ i \in 1..Len(t) /\ i \in Nat
    BY <1>2 DEF n
  <2>2. \A k \in 1..(i - 1) : SubSeq(t, k, i) = SubSeq(s, k, i)
    <3> SUFFICES ASSUME NEW k \in 1..(i - 1) PROVE SubSeq(t, k, i) = SubSeq(s, k, i)
      OBVIOUS
    <3>1. /\ SubSeq(s, k, i) \in Seq(Chars) /\ Len(SubSeq(s, k, i)) = i - k + 1
          /\ \A j \in 1..(i - k + 1) : SubSeq(s, k, i)[j] = s[k + j - 1]
      BY <2>1, PieceOfText
    <3>2. /\ SubSeq(t, k, i) \in Seq(Chars) /\ Len(SubSeq(t, k, i)) = i - k + 1
          /\ \A j \in 1..(i - k + 1) : SubSeq(t, k, i)[j] = t[k + j - 1]
      BY <1>2, <2>1, PieceOfText
    <3>3. \A j \in 1..(i - k + 1) : k + j - 1 \in 1..n
      BY <1>2
    <3>4. \A j \in 1..(i - k + 1) : SubSeq(t, k, i)[j] = SubSeq(s, k, i)[j]
      BY <1>2, <3>1, <3>2, <3>3
    <3> QED
      BY <3>1, <3>2, <3>4, SeqEqual
  <2>3. Joints(t, i) = Joints(s, i)
    BY <2>2 DEF Joints
  <2>4. Joints(s, i) # {} => Min(Joints(s, i)) \in 1..(i - 1)
    <3>1. Joints(s, i) # {} => Min(Joints(s, i)) \in Joints(s, i)
      BY <2>1, JointsAreNumbers, MinOfNats
    <3> QED
      BY <3>1 DEF Joints
  <2> QED
    BY <1>3, <2>1, <2>2, <2>3, <2>4 DEF WidthAt
<1>5. WidthAt(t, n + 1) = 1
  <2>1. Joints(t, n + 1) = {}
    <3> SUFFICES ASSUME NEW k \in Joints(t, n + 1) PROVE FALSE
      OBVIOUS
    <3>1. k \in 1..((n + 1) - 1) /\ SubSeq(t, k, n + 1) \in DOMAIN Joined
      BY DEF Joints
    <3>2. n + 1 \in 1..Len(t)
      BY <1>2
    <3>3. Last(SubSeq(t, k, n + 1)) = c
      BY <1>2, <3>1, <3>2, PieceOfText
    <3> QED
      BY <1>1, <3>1, <3>3
  <2>2. n + 1 \notin Presented(t) /\ n + 1 \notin Plain(t)
    BY <1>2 DEF Presented, Plain
  <2> QED
    BY <1>1, <1>2, <2>1, <2>2 DEF WidthAt
<1>6. /\ StrWidth(t) = SumFunctionOnSet(g, 1..(n + 1))
      /\ StrWidth(s) = SumFunctionOnSet(f, 1..n) /\ StrWidth(s) \in Nat
  BY <1>2, WidthsAreSums DEF n
<1>7. /\ \A i \in 1..(n + 1) : g[i] \in Nat
      /\ \A i \in 1..n : f[i] = g[i]
      /\ g[n + 1] = 1
  <2>1. \A i \in 1..(n + 1) : g[i] \in Nat
    BY <1>2, WidthAtType
  <2>2. \A i \in 1..n : i \in 1..(n + 1) /\ f[i] = g[i]
    BY <1>2, <1>4
  <2>3. n + 1 \in 1..(n + 1)
    BY <1>2
  <2> QED
    BY <1>5, <2>1, <2>2, <2>3
<1>8. /\ IsFiniteSet(1..(n + 1)) /\ IsFiniteSet(1..n)
      /\ n + 1 \in 1..(n + 1) /\ (1..(n + 1)) \ {n + 1} = 1..n
  <2>1. 1 \in Int /\ n \in Int /\ n + 1 \in Int
    BY <1>2
  <2>2. IsFiniteSet(1..(n + 1)) /\ IsFiniteSet(1..n)
    BY <2>1, FS_Interval
  <2>3. n + 1 \in 1..(n + 1) /\ (1..(n + 1)) \ {n + 1} = 1..n
    BY <1>2
  <2> QED
    BY <2>2, <2>3
<1> HIDE DEF f, g
<1>9. SumFunctionOnSet(g, 1..(n + 1)) = g[n + 1] + SumFunctionOnSet(g, (1..(n + 1)) \ {n + 1})
  BY <1>7, <1>8, SumTakeOut
<1>10. SumFunctionOnSet(f, 1..n) = SumFunctionOnSet(g, 1..n)
  BY <1>7, <1>8, SumEqual
<1>11. StrWidth(t) = StrWidth(s) + 1
  <2>1. SumFunctionOnSet(g, (1..(n + 1)) \ {n + 1}) = StrWidth(s)
    BY <1>6, <1>8, <1>10
  <2>2. StrWidth(t) = 1 + StrWidth(s)
    BY <1>6, <1>7, <1>9, <2>1
  <2> QED
    BY <1>6, <2>2
<1> QED
  BY <1>2, <1>3, <1>11 DEF t

\* Spaces behind a text widen it by their number.
LEMMA WidthOfPadded ==
  ASSUME NEW s \in Text, NEW k \in Nat
  PROVE  /\ Presented(s \o [i \in 1..k |-> Space]) = Presented(s)
         /\ StrWidth(s \o [i \in 1..k |-> Space]) = StrWidth(s) + k
<1> DEFINE blank(m) == [i \in 1..m |-> Space]
           t(m) == s \o blank(m)
           Good(m) == Presented(t(m)) = Presented(s) /\ StrWidth(t(m)) = StrWidth(s) + m
           Bad == {m \in Nat : ~Good(m)}
<1>0. Space \in Chars
  BY RowsAssumption
<1>1. \A m \in Nat : blank(m) \in Text /\ Len(blank(m)) = m
  BY <1>0 DEF Text
<1>2. ASSUME NEW m \in Nat
      PROVE  t(m) \in Text
  <2>1. s \in Seq(Chars) /\ blank(m) \in Seq(Chars)
    BY <1>1 DEF Text
  <2> HIDE DEF blank
  <2> QED
    BY <2>1, ConcatProperties DEF Text
<1>3. StrWidth(s) \in Nat
  BY WidthsAreSums
<1>4. Good(0)
  <2>1. blank(0) = <<>>
    BY <1>1, EmptySeq DEF Text
  <2>2. t(0) = s
    BY <2>1, ConcatEmptySeq DEF Text
  <2> QED
    BY <1>3, <2>2
<1>5. ASSUME NEW m \in Nat, Good(m)
      PROVE  Good(m + 1)
  <2>1. blank(m + 1) = Append(blank(m), Space)
    <3>1. /\ Append(blank(m), Space) \in Text /\ Len(Append(blank(m), Space)) = m + 1
          /\ \A i \in 1..m : Append(blank(m), Space)[i] = blank(m)[i]
          /\ Append(blank(m), Space)[m + 1] = Space
      BY <1>0, <1>1, AppendProperties DEF Text
    <3>2. \A i \in 1..(m + 1) : Append(blank(m), Space)[i] = blank(m + 1)[i]
      BY <3>1
    <3> QED
      BY <1>1, <3>1, <3>2, SeqEqual DEF Text
  <2> HIDE DEF blank
  <2>2. t(m + 1) = Append(t(m), Space)
    <3>1. s \in Seq(Chars) /\ blank(m) \in Seq(Chars) /\ t(m) \in Seq(Chars) /\ <<Space>> \in Seq(Chars)
      BY <1>0, <1>1, <1>2 DEF Text
    <3>2. Append(blank(m), Space) = blank(m) \o <<Space>>
      BY <1>0, <3>1, AppendIsConcat
    <3>3. (s \o blank(m)) \o <<Space>> = s \o (blank(m) \o <<Space>>)
      BY <3>1, ConcatAssociative
    <3>4. Append(t(m), Space) = t(m) \o <<Space>>
      <4> HIDE DEF t
      <4> QED
        BY <1>0, <3>1, AppendIsConcat
    <3> QED
      BY <2>1, <3>2, <3>3, <3>4
  <2>3. /\ Presented(Append(t(m), Space)) = Presented(t(m))
        /\ StrWidth(Append(t(m), Space)) = StrWidth(t(m)) + 1
    BY <1>2, WidthOfAppend
  <2>4. (StrWidth(s) + m) + 1 = StrWidth(s) + (m + 1)
    BY <1>3
  <2> HIDE DEF t
  <2> QED
    BY <1>5, <2>2, <2>3, <2>4
<1> HIDE DEF Good
<1>6. Bad = {}
  <2> SUFFICES ASSUME Bad # {} PROVE FALSE
    OBVIOUS
  <2>1. PICK m \in Bad : \A y \in Bad : m <= y
    BY LeastNat
  <2>2. m # 0 /\ m \in Nat
    BY <1>4
  <2>3. m - 1 \in Nat /\ m - 1 \notin Bad
    BY <2>1, <2>2
  <2>4. Good((m - 1) + 1)
    BY <1>5, <2>3
  <2> QED
    BY <2>2, <2>4
<1> QED
  BY <1>6 DEF Good

\* A cut name fits its column but for what its emoji add (trunc).
LEMMA TruncFits ==
  ASSUME NEW s \in Text, NEW n \in Nat \ {0}, ~(StrWidth(s) <= n)
  PROVE  Trunc(s, n) \in Text /\ StrWidth(Trunc(s, n)) <= n + Cardinality(Presented(Trunc(s, n)))
<1> DEFINE fits == {k \in 0..Len(s) : CharsWidth(SubSeq(s, 1, k)) <= n - 1}
           m == Max(fits)
           kept == SubSeq(s, 1, m)
<1>1. Len(s) \in Nat
  BY LenProperties DEF Text
<1>2. 0 \in fits
  <2>1. 0 \in 0..Len(s)
    BY <1>1
  <2>2. SubSeq(s, 1, 0) = <<>>
    BY <1>1, SubSeqEmpty DEF Text
  <2>3. CharsWidth(SubSeq(s, 1, 0)) = 0
    BY <2>2, WidthOfNothing
  <2>4. 0 <= n - 1
    OBVIOUS
  <2> QED
    BY <2>1, <2>3, <2>4
<1>3. m \in fits
  BY <1>1, <1>2, MaxOfNats
<1>4. m \in 0..Len(s) /\ CharsWidth(kept) <= n - 1
  BY <1>3
<1>5. Trunc(s, n) = Append(kept, Ellipsis)
  BY DEF Trunc
<1> HIDE DEF m, fits
<1>6. kept \in Text
  <2>1. \A i \in 1..m : s[i] \in Chars
    BY <1>1, <1>4, ElementOfSeq DEF Text
  <2> QED
    BY <1>4, <2>1, SubSeqProperties DEF Text
<1> HIDE DEF kept
<1>7. /\ StrWidth(kept) <= CharsWidth(kept) + Cardinality(Presented(kept))
      /\ StrWidth(kept) \in Nat /\ CharsWidth(kept) \in Nat /\ Cardinality(Presented(kept)) \in Nat
  BY <1>6, StringBeyondChars, WidthsAreSums, PresentedFinite
<1>8. /\ Append(kept, Ellipsis) \in Text
      /\ Presented(Append(kept, Ellipsis)) = Presented(kept)
      /\ StrWidth(Append(kept, Ellipsis)) = StrWidth(kept) + 1
  BY <1>6, WidthOfAppend
<1>9. StrWidth(kept) + 1 <= n + Cardinality(Presented(kept))
  BY <1>4, <1>7
<1> QED
  BY <1>5, <1>8, <1>9

\* A name cut and padded takes its column: no less, and no more if it fits or if none
\* of its characters is shown as an emoji (trunc, pad).
LEMMA LineFills ==
  ASSUME NEW s \in Text, NEW n \in Nat \ {0}
  PROVE  LET name == Pad(Trunc(s, n), n)
         IN  /\ StrWidth(name) \in n..(n + Cardinality(Presented(name)))
             /\ StrWidth(s) <= n => StrWidth(name) = n
<1> DEFINE t == Trunc(s, n)
           w == StrWidth(t)
           fill == Max({0, n - w})
<1>1. /\ t \in Text
      /\ w <= n + Cardinality(Presented(t))
      /\ StrWidth(s) <= n => w <= n
  <2>1. CASE StrWidth(s) <= n
    <3>1. t = s
      BY <2>1 DEF Trunc
    <3>2. Cardinality(Presented(s)) \in Nat /\ StrWidth(s) \in Nat
      BY PresentedFinite, WidthsAreSums
    <3> QED
      BY <2>1, <3>1, <3>2
  <2>2. CASE ~(StrWidth(s) <= n)
    BY <2>2, TruncFits
  <2> QED
    BY <2>1, <2>2
<1> HIDE DEF t
<1>2. w \in Nat /\ Cardinality(Presented(t)) \in Nat
  BY <1>1, WidthsAreSums, PresentedFinite
<1>3. fill \in Nat /\ fill = (IF w <= n THEN n - w ELSE 0)
  <2>1. CASE w <= n
    <3>1. {0, n - w} \subseteq 0..n /\ {0, n - w} # {}
      BY <1>2, <2>1
    <3>2. fill \in {0, n - w} /\ fill >= n - w
      BY <3>1, MaxOfNats
    <3> QED
      BY <1>2, <2>1, <3>2
  <2>2. CASE ~(w <= n)
    <3>1. n - w \in Int /\ n - w < 0
      BY <1>2, <2>2
    <3>2. 0 \in {0, n - w} /\ \A y \in {0, n - w} : 0 >= y
      BY <3>1
    <3>3. fill \in {0, n - w} /\ \A y \in {0, n - w} : fill >= y
      BY <3>2 DEF Max
    <3>4. fill = 0
      BY <3>1, <3>3
    <3> QED
      BY <2>2, <3>4
  <2> QED
    BY <2>1, <2>2
<1>4. Pad(t, n) = t \o [i \in 1..fill |-> Space]
  BY DEF Pad
<1> HIDE DEF fill
<1>5. Presented(Pad(t, n)) = Presented(t) /\ StrWidth(Pad(t, n)) = w + fill
  BY <1>1, <1>3, <1>4, WidthOfPadded
<1> HIDE DEF w
<1>6. /\ w + fill \in n..(n + Cardinality(Presented(t)))
      /\ StrWidth(s) <= n => w + fill = n
  BY <1>1, <1>2, <1>3
<1> QED
  BY <1>5, <1>6 DEF t

----------------------------------------------------------------------------
(* The invariant.                                                          *)

\* What the sets are that the user and the ticks choose from.
ChosenWell ==
  /\ sample \in Samples /\ last.sample \in Samples
  /\ sort \in Columns /\ last.sort \in Columns
  /\ desc \in BOOLEAN /\ last.desc \in BOOLEAN
  /\ query \in Texts /\ last.query \in Texts

\* What is on the screen is what was let through at the last redraw, arranged.
LetThrough(s, q) == {p \in DOMAIN s.rows : Matches(q, p, s.rows[p])}
OwnedBy(s, p)    == {f \in DOMAIN s.flows : s.flows[f].pid = p}

RowsArranged ==
  shown # <<>> \/ last.query # <<>>
    => Arranged(shown, LetThrough(last.sample, last.query),
                RowOrder(last.sample.rows, last.sort, last.desc))
FlowsArranged ==
  \A f \in ToSet(detail) :
    /\ f \in DOMAIN last.sample.flows
    /\ Arranged(detail, OwnedBy(last.sample, last.sample.flows[f].pid), FlowOrder(last.sample.flows))

RowsInv == ChosenWell /\ RowsArranged /\ FlowsArranged /\ FlowsBelong /\ ColumnsLineUp

LEMMA PartOfStrict ==
  ASSUME NEW less, NEW S, NEW T \in SUBSET S, StrictOrder(less, S)
  PROVE  StrictOrder(less, T)
BY DEF StrictOrder

\* Whatever order the maps yield them in, the rows and the flows come out arranged.
LEMMA RowsComeArranged ==
  ASSUME NEW s \in Samples, NEW key \in Columns, NEW down \in BOOLEAN, NEW S \in SUBSET DOMAIN s.rows,
         NEW pids \in SetToSeqs(S)
  PROVE  Arranged(SortRows(pids, s.rows, key, down), S, RowOrder(s.rows, key, down))
<1>1. IsFiniteSet(S)
  BY RowsAssumption, FS_Subset
<1>2. StrictOrder(RowOrder(s.rows, key, down), S)
  BY RowOrderIsStrict, PartOfStrict
<1> QED
  BY <1>1, <1>2, SortedIsArranged DEF SortRows

LEMMA FlowsComeArranged ==
  ASSUME NEW s \in Samples, NEW p, NEW list \in FlowsFor(p, s.flows)
  PROVE  Arranged(list, OwnedBy(s, p), FlowOrder(s.flows))
<1>1. PICK raw \in SetToSeqs(OwnedBy(s, p)) : list = Sorted(raw, FlowOrder(s.flows))
  BY DEF FlowsFor, OwnedBy
<1>2. OwnedBy(s, p) \subseteq DOMAIN s.flows
  BY DEF OwnedBy
<1>3. IsFiniteSet(OwnedBy(s, p))
  BY <1>2, RowsAssumption, FS_Subset
<1>4. StrictOrder(FlowOrder(s.flows), OwnedBy(s, p))
  BY <1>2, FlowOrderIsStrict, PartOfStrict
<1> QED
  BY <1>1, <1>3, <1>4, SortedIsArranged

\* The flows of a detail pane are those of one process.
LEMMA OneOwner ==
  ASSUME NEW list, NEW s, NEW less,
         \A f \in ToSet(list) : Arranged(list, OwnedBy(s, s.flows[f].pid), less)
  PROVE  Cardinality({s.flows[f].pid : f \in ToSet(list)}) <= 1
<1> DEFINE owners == {s.flows[f].pid : f \in ToSet(list)}
<1>1. CASE ToSet(list) = {}
  <2>1. owners = {}
    BY <1>1
  <2> QED
    BY <2>1, FS_EmptySet
<1>2. CASE ToSet(list) # {}
  <2>1. PICK g : g \in ToSet(list)
    BY <1>2
  <2>2. \A f \in ToSet(list) : s.flows[f].pid = s.flows[g].pid
    BY <2>1 DEF Arranged, OwnedBy
  <2>3. owners = {s.flows[g].pid}
    BY <2>1, <2>2
  <2>4. Cardinality(owners) = 1
    BY <2>3, FS_Singleton
  <2> QED
    BY <2>4
<1> QED
  BY <1>1, <1>2

LEMMA RowsInvInit == Init => RowsInv
<1> SUFFICES ASSUME Init PROVE RowsInv
  OBVIOUS
<1>1. ToSet(detail) = {} /\ DOMAIN doc.entries = {} /\ DOMAIN doc.lines = {} /\ shown = <<>>
  BY DEF Init, NoDoc, ToSet
<1>2. ChosenWell
  BY RowsAssumption DEF Init, ChosenWell, Columns
<1>3. RowsArranged /\ FlowsArranged
  BY <1>1 DEF Init, RowsArranged, FlowsArranged
<1>4. FlowsBelong /\ ColumnsLineUp
  BY <1>1, <1>3, OneOwner DEF FlowsArranged, FlowsBelong, ColumnsLineUp
<1> QED
  BY <1>2, <1>3, <1>4 DEF RowsInv

\* A step of the user's, or a tick, leaves the screen as it was drawn.
LEMMA ScreenStays ==
  ASSUME RowsInv, UNCHANGED <<shown, detail, last>>
  PROVE  RowsArranged' /\ FlowsArranged'
BY DEF RowsInv, RowsArranged, FlowsArranged

\* No document yet: nothing is said of its entries and lines.
LEMMA NoDocument ==
  ASSUME Tui, doc' = doc, FlowsArranged'
  PROVE  FlowsBelong' /\ ColumnsLineUp'
<1>1. DOMAIN doc'.entries = {} /\ DOMAIN doc'.lines = {}
  BY DEF Tui, NoDoc
<1>2. Cardinality({last.sample.flows[f].pid : f \in ToSet(detail)})' <= 1
  BY OneOwner DEF FlowsArranged
<1> QED
  BY <1>1, <1>2 DEF FlowsBelong, ColumnsLineUp

\* A mode without a screen: every entry has its own flows, every line its columns.
LEMMA DocumentIsRight ==
  ASSUME RowsInv, NEW pids \in SetToSeqs(DOMAIN sample.rows), NEW key \in SortKeys, NEW reverse \in BOOLEAN,
         OneShot(pids, key, reverse)
  PROVE  FlowsBelong' /\ ColumnsLineUp'
<1> DEFINE sorted == SortRows(pids, sample.rows, key, OneShotDescending(key, reverse))
<1>1. PICK flows \in [DOMAIN sorted -> UNION {PerProc(pids, sorted, sample.flows, i) : i \in DOMAIN sorted}] :
        /\ \A i \in DOMAIN sorted : flows[i] \in PerProc(pids, sorted, sample.flows, i)
        /\ doc' = [entries |-> [i \in DOMAIN sorted |->
                                  [pid |-> sorted[i], row |-> sample.rows[sorted[i]], flows |-> flows[i]]],
                   lines |-> [i \in DOMAIN sorted |-> Line(sorted[i], sample.rows[sorted[i]])],
                   key |-> key]
  BY DEF OneShot
<1>2. sample' = sample /\ detail' = detail /\ last' = last /\ shown' = shown
  BY DEF OneShot
<1>3. sample \in Samples /\ key \in Columns /\ OneShotDescending(key, reverse) \in BOOLEAN
  BY RowsAssumption DEF RowsInv, ChosenWell, OneShotDescending, DescendingByDefault, Columns
<1>4. ToSet(sorted) = DOMAIN sample.rows
  BY <1>3, RowsComeArranged DEF Arranged
<1> HIDE DEF sorted
<1>5. \A i \in DOMAIN sorted : sorted[i] \in DOMAIN sample.rows
  BY <1>4 DEF ToSet
<1>6. ASSUME NEW i \in DOMAIN sorted
      PROVE  ToSet(flows[i]) = {f \in DOMAIN sample.flows : sample.flows[f].pid = sorted[i]}
  <2>1. flows[i] \in FlowsFor(sorted[i], sample.flows)
    BY <1>1 DEF PerProc
  <2> QED
    BY <1>3, <2>1, FlowsComeArranged DEF Arranged, OwnedBy
<1>7. ASSUME NEW i \in DOMAIN sorted
      PROVE  LET name == Line(sorted[i], sample.rows[sorted[i]]).name
             IN  /\ StrWidth(name) \in NameCols..(NameCols + Cardinality(Presented(name)))
                 /\ StrWidth(sample.rows[sorted[i]].name) <= NameCols => StrWidth(name) = NameCols
  <2>1. sample.rows[sorted[i]].name \in Text /\ NameCols \in Nat \ {0}
    BY <1>3, <1>5, RowsAssumption DEF Text
  <2> QED
    BY <2>1, LineFills DEF Line
<1>8. /\ DOMAIN doc'.entries = DOMAIN sorted
      /\ \A i \in DOMAIN sorted :
           doc'.entries[i] = [pid |-> sorted[i], row |-> sample.rows[sorted[i]], flows |-> flows[i]]
  BY <1>1
<1>9. /\ DOMAIN doc'.lines = DOMAIN sorted
      /\ \A i \in DOMAIN sorted : doc'.lines[i] = Line(sorted[i], sample.rows[sorted[i]])
  BY <1>1
<1>10. ColumnsLineUp'
  <2>1. ASSUME NEW i \in DOMAIN sorted
        PROVE  doc'.entries[i].row = sample.rows[sorted[i]]
    <3>1. doc'.entries[i] = [pid |-> sorted[i], row |-> sample.rows[sorted[i]], flows |-> flows[i]]
      BY <1>8
    <3> QED
      BY <3>1
  <2> QED
    BY <1>7, <1>9, <2>1 DEF ColumnsLineUp
<1>11. Cardinality({last.sample.flows[f].pid : f \in ToSet(detail)})' <= 1
  <2>1. Cardinality({last.sample.flows[f].pid : f \in ToSet(detail)}) <= 1
    BY OneOwner DEF RowsInv, FlowsArranged
  <2> QED
    BY <1>2, <2>1
<1>12. FlowsBelong'
  <2>1. ASSUME NEW i \in DOMAIN doc'.entries
        PROVE  /\ doc'.entries[i].row = sample'.rows[doc'.entries[i].pid]
               /\ ToSet(doc'.entries[i].flows)
                    = {f \in DOMAIN sample'.flows : sample'.flows[f].pid = doc'.entries[i].pid}
    <3>1. doc'.entries[i] = [pid |-> sorted[i], row |-> sample.rows[sorted[i]], flows |-> flows[i]]
      BY <1>8
    <3>2. /\ doc'.entries[i].pid = sorted[i] /\ doc'.entries[i].flows = flows[i]
          /\ doc'.entries[i].row = sample.rows[sorted[i]]
      BY <3>1
    <3> QED
      BY <1>2, <1>6, <1>8, <3>2
  <2> QED
    BY <1>11, <2>1 DEF FlowsBelong
<1> QED
  BY <1>10, <1>12

\* What a redraw draws.
LEMMA RedrawArranges ==
  ASSUME RowsInv, Redraw
  PROVE  RowsArranged' /\ FlowsArranged'
<1>1. sample \in Samples /\ sort \in Columns /\ desc \in BOOLEAN
  BY DEF RowsInv, ChosenWell
<1>2. last'.sample = sample /\ last'.query = query /\ last'.sort = sort /\ last'.desc = desc
  BY DEF Redraw
<1>3. Arranged(shown', LetThrough(sample, query), RowOrder(sample.rows, sort, desc))
  <2>1. PICK pids \in SetToSeqs(LetThrough(sample, query)) : shown' = SortRows(pids, sample.rows, sort, desc)
    BY DEF Redraw, VisibleRows, LetThrough
  <2>2. LetThrough(sample, query) \in SUBSET DOMAIN sample.rows
    BY DEF LetThrough
  <2> QED
    BY <1>1, <2>1, <2>2, RowsComeArranged
<1>4. CASE expanded = NoPid
  <2>1. ToSet(detail') = {}
    BY <1>4 DEF Redraw, ToSet
  <2> QED
    BY <1>2, <1>3, <2>1 DEF RowsArranged, FlowsArranged
<1>5. CASE expanded # NoPid
  <2>1. Arranged(detail', OwnedBy(sample, expanded), FlowOrder(sample.flows))
    BY <1>1, <1>5, FlowsComeArranged DEF Redraw
  <2>2. \A f \in ToSet(detail') : f \in DOMAIN sample.flows /\ sample.flows[f].pid = expanded
    BY <2>1 DEF Arranged, OwnedBy
  <2> QED
    BY <1>2, <1>3, <2>1, <2>2 DEF RowsArranged, FlowsArranged
<1> QED
  BY <1>4, <1>5

LEMMA ChosenWellKept == RowsInv /\ [Next]_vars => ChosenWell'
<1> SUFFICES ASSUME RowsInv, [Next]_vars PROVE ChosenWell'
  OBVIOUS
<1> USE DEF RowsInv, ChosenWell
<1>1. ASSUME NEW s \in Samples, Tick(s) PROVE ChosenWell'
  BY <1>1 DEF Tick
<1>2. ASSUME NEW key \in SortKeys, PickSort(key) PROVE ChosenWell'
  <2>1. sort' \in Columns
    BY <1>2, RowsAssumption DEF PickSort, Columns
  <2>2. desc' \in BOOLEAN
    <3>1. (~desc) \in BOOLEAN /\ DescendingByDefault(key) \in BOOLEAN
      BY DEF DescendingByDefault
    <3>2. desc' = ~desc \/ desc' = DescendingByDefault(key)
      BY <1>2 DEF PickSort
    <3> QED
      BY <3>1, <3>2
  <2> QED
    BY <1>2, <2>1, <2>2 DEF PickSort
<1>3. ASSUME NEW q \in Texts, Type(q) PROVE ChosenWell'
  BY <1>3 DEF Type
<1>4. CASE Erase
  <2>1. query' \in Texts
    BY <1>4, RowsAssumption DEF Erase
  <2> QED
    BY <1>4, <2>1 DEF Erase
<1>5. ASSUME NEW p \in DOMAIN sample.rows, Expand(p) PROVE ChosenWell'
  BY <1>5 DEF Expand
<1>6. CASE Redraw
  BY <1>6 DEF Redraw
<1>7. ASSUME NEW pids \in SetToSeqs(DOMAIN sample.rows), NEW key \in SortKeys, NEW reverse \in BOOLEAN,
             OneShot(pids, key, reverse)
      PROVE  ChosenWell'
  BY <1>7 DEF OneShot
<1>8. CASE UNCHANGED vars
  BY <1>8 DEF vars
<1> QED
  BY <1>1, <1>2, <1>3, <1>4, <1>5, <1>6, <1>7, <1>8 DEF Next

LEMMA RowsInvKept == RowsInv /\ [Next]_vars => RowsInv'
<1> SUFFICES ASSUME RowsInv, [Next]_vars PROVE RowsInv'
  OBVIOUS
<1>1. ChosenWell'
  BY ChosenWellKept
<1>2. CASE Redraw
  <2>1. RowsArranged' /\ FlowsArranged'
    BY <1>2, RedrawArranges
  <2>2. FlowsBelong' /\ ColumnsLineUp'
    BY <1>2, <2>1, NoDocument DEF Redraw
  <2> QED
    BY <1>1, <2>1, <2>2 DEF RowsInv
<1>3. ASSUME NEW pids \in SetToSeqs(DOMAIN sample.rows), NEW key \in SortKeys, NEW reverse \in BOOLEAN,
             OneShot(pids, key, reverse)
      PROVE  RowsInv'
  <2>1. RowsArranged' /\ FlowsArranged'
    BY <1>3, ScreenStays DEF OneShot
  <2>2. FlowsBelong' /\ ColumnsLineUp'
    BY <1>3, DocumentIsRight
  <2> QED
    BY <1>1, <2>1, <2>2 DEF RowsInv
<1>4. ASSUME Tui, UNCHANGED <<shown, detail, last, doc>>
      PROVE  RowsInv'
  <2>1. RowsArranged' /\ FlowsArranged'
    BY <1>4, ScreenStays
  <2>2. FlowsBelong' /\ ColumnsLineUp'
    BY <1>4, <2>1, NoDocument
  <2> QED
    BY <1>1, <2>1, <2>2 DEF RowsInv
<1>5. CASE \/ \E s \in Samples : Tick(s)
           \/ \E key \in SortKeys : PickSort(key)
           \/ \E q \in Texts : Type(q)
           \/ Erase
           \/ \E p \in DOMAIN sample.rows : Expand(p)
  <2>1. Tui /\ UNCHANGED <<shown, detail, last, doc>>
    BY <1>5 DEF Tick, PickSort, Type, Erase, Expand
  <2> QED
    BY <1>4, <2>1
<1>6. CASE UNCHANGED vars
  <2>1. RowsArranged' /\ FlowsArranged'
    BY <1>6, ScreenStays DEF vars
  <2>2. FlowsBelong' /\ ColumnsLineUp'
    BY <1>6 DEF vars, RowsInv, FlowsBelong, ColumnsLineUp
  <2> QED
    BY <1>1, <2>1, <2>2 DEF RowsInv
<1> QED
  BY <1>2, <1>3, <1>5, <1>6 DEF Next

LEMMA RowsInvAlways == Spec => []RowsInv
BY RowsInvInit, RowsInvKept, PTL DEF Spec

\* Every document has every process with its own flows, and the detail pane those of
\* one process (per_proc, flows_for).
THEOREM FlowsAlwaysBelong == Spec => []FlowsBelong
<1>1. RowsInv => FlowsBelong
  BY DEF RowsInv
<1> QED
  BY <1>1, RowsInvAlways, PTL

\* The columns behind a name are in their place, save behind a name that was cut,
\* by at most one for each of its characters shown as emoji (trunc, pad).
THEOREM ColumnsAlwaysLineUp == Spec => []ColumnsLineUp
<1>1. RowsInv => ColumnsLineUp
  BY DEF RowsInv
<1> QED
  BY <1>1, RowsInvAlways, PTL

----------------------------------------------------------------------------
(* From one redraw to the next.                                            *)

\* What stands above stands in front.
LEMMA AboveIsBefore ==
  ASSUME NEW list, NEW S, NEW less, Arranged(list, S, less), NEW a, NEW b, Above(list, a, b)
  PROVE  a \in S /\ b \in S /\ <<a, b>> \in less
<1>1. PICK i \in DOMAIN list, j \in DOMAIN list : i < j /\ list[i] = a /\ list[j] = b
  BY DEF Above
<1>2. a \in ToSet(list) /\ b \in ToSet(list)
  BY <1>1 DEF ToSet
<1> QED
  BY <1>1, <1>2 DEF Arranged

LEMMA RowsStay ==
  ASSUME RowsInv, RowsInv', [Next]_vars
  PROVE  RowsKeepPlaces
<1> SUFFICES ASSUME NEW p \in ToSet(shown) \cap ToSet(shown'), NEW q \in ToSet(shown) \cap ToSet(shown'),
                    Above(shown, p, q), Above(shown', q, p),
                    ~Changed(p), ~Changed(q), sort = last.sort,
                    desc # last.desc => Value(p) = Value(q)
             PROVE  FALSE
  BY DEF RowsKeepPlaces
<1>1. shown # <<>> /\ shown' # <<>>
  BY DEF ToSet
<1> DEFINE was == RowOrder(last.sample.rows, last.sort, last.desc)
           is  == RowOrder(last'.sample.rows, last'.sort, last'.desc)
<1>2. /\ p \in DOMAIN last.sample.rows /\ q \in DOMAIN last.sample.rows /\ <<p, q>> \in was
      /\ p \in DOMAIN last'.sample.rows /\ q \in DOMAIN last'.sample.rows /\ <<q, p>> \in is
  <2>1. Arranged(shown, LetThrough(last.sample, last.query), was)
    BY <1>1 DEF RowsInv, RowsArranged
  <2>2. Arranged(shown', LetThrough(last'.sample, last'.query), is)
    BY <1>1 DEF RowsInv, RowsArranged
  <2> HIDE DEF was, is
  <2>3. p \in LetThrough(last.sample, last.query) /\ q \in LetThrough(last.sample, last.query) /\ <<p, q>> \in was
    BY <2>1, AboveIsBefore
  <2>4. p \in LetThrough(last'.sample, last'.query) /\ q \in LetThrough(last'.sample, last'.query) /\ <<q, p>> \in is
    BY <2>2, AboveIsBefore
  <2> QED
    BY <2>3, <2>4 DEF LetThrough
<1>3. StrictOrder(was, DOMAIN last.sample.rows)
  BY RowOrderIsStrict DEF RowsInv, ChosenWell
<1>4. CASE last' = last
  BY <1>2, <1>3, <1>4 DEF StrictOrder
<1>5. CASE Redraw
  <2>1. last'.sample = sample /\ last'.sort = sort /\ last'.desc = desc
    BY <1>5 DEF Redraw
  <2> DEFINE a == ValueOf(p, last.sample.rows[p], last.sort)
             b == ValueOf(q, last.sample.rows[q], last.sort)
  <2>2. ValueOf(p, sample.rows[p], sort) = a /\ ValueOf(q, sample.rows[q], sort) = b
    BY DEF Changed, Value
  <2>3. RowLess(p, q, last.sample.rows, last.sort, last.desc) /\ RowLess(q, p, sample.rows, sort, desc)
    BY <1>2, <2>1 DEF RowOrder
  <2>4. a \in Numbers /\ b \in Numbers
    BY <1>2, ValueType DEF RowsInv, ChosenWell
  <2>5. p \in Nat /\ q \in Nat
    BY <1>2, RowsAssumption DEF RowsInv, ChosenWell
  <2>6. desc # last.desc => a = b
    BY <2>2 DEF Value
  <2> HIDE DEF a, b
  <2>7. /\ (IF last.desc THEN Precedes(b, a) ELSE Precedes(a, b)) \/ (a = b /\ p < q)
        /\ (IF desc THEN Precedes(a, b) ELSE Precedes(b, a)) \/ (b = a /\ q < p)
    BY <2>2, <2>3 DEF RowLess, a, b
  <2>8. ~(Precedes(a, b) /\ Precedes(b, a)) /\ ~Precedes(a, a)
    BY <2>4, PrecedesOneWay
  <2>9. CASE a = b
    <3>1. p < q /\ q < p
      BY <2>7, <2>8, <2>9
    <3> QED
      BY <2>5, <3>1
  <2>10. CASE a # b
    BY <2>6, <2>7, <2>8, <2>10
  <2> QED
    BY <2>9, <2>10
<1>6. last' = last \/ Redraw
  BY DEF Next, vars, Tick, PickSort, Type, Erase, Expand, OneShot
<1> QED
  BY <1>4, <1>5, <1>6

LEMMA FlowsStay ==
  ASSUME RowsInv, RowsInv', [Next]_vars
  PROVE  FlowsKeepPlaces
<1> SUFFICES ASSUME NEW f \in ToSet(detail) \cap ToSet(detail'), NEW g \in ToSet(detail) \cap ToSet(detail'),
                    Above(detail, f, g), Above(detail', g, f),
                    sample.flows[f] = last.sample.flows[f], sample.flows[g] = last.sample.flows[g]
             PROVE  FALSE
  BY DEF FlowsKeepPlaces
<1>1. /\ f \in DOMAIN last.sample.flows /\ g \in DOMAIN last.sample.flows
      /\ <<f, g>> \in FlowOrder(last.sample.flows)
  BY AboveIsBefore DEF RowsInv, FlowsArranged
<1>2. <<g, f>> \in FlowOrder(last'.sample.flows)
  <2>1. Arranged(detail', OwnedBy(last'.sample, last'.sample.flows[f].pid), FlowOrder(last'.sample.flows))
    BY DEF RowsInv, FlowsArranged
  <2> QED
    BY <2>1, AboveIsBefore
<1>3. last' = last \/ last'.sample = sample
  BY DEF Next, vars, Tick, PickSort, Type, Erase, Expand, OneShot, Redraw
<1>4. <<g, f>> \in FlowOrder(last.sample.flows)
  BY <1>1, <1>2, <1>3 DEF FlowOrder, FlowLess
<1>5. StrictOrder(FlowOrder(last.sample.flows), DOMAIN last.sample.flows)
  BY FlowOrderIsStrict DEF RowsInv, ChosenWell
<1> QED
  BY <1>1, <1>4, <1>5 DEF StrictOrder

\* However the maps are iterated, two rows or two flows change places only for a reason
\* the user can see: a value changed, another column or direction (sort_rows, flows_for).
THEOREM PlacesAlwaysKept == Spec => PlacesAreKept
<1>1. RowsInv /\ RowsInv' /\ [Next]_vars => [RowsKeepPlaces /\ FlowsKeepPlaces]_vars
  BY RowsStay, FlowsStay
<1> QED
  BY <1>1, RowsInvAlways, PTL DEF Spec, PlacesAreKept

\* A longer query never brings a process in, unless the shorter ends in a capital
\* sigma (Filter::matches).
THEOREM FilterAlwaysNarrows == Spec => FilterNarrows
<1> DEFINE Longer == /\ sample = last.sample /\ IsPrefix(last.query, query)
                     /\ shown # <<>> \/ last.query # <<>>
                     /\ ~EndsInSigma(last.query)
<1>1. ASSUME RowsInv, RowsInv', [Next]_vars
      PROVE  [Longer => ToSet(shown') \subseteq ToSet(shown)]_<<shown>>
  <2> SUFFICES ASSUME shown' # shown, Longer, NEW p \in ToSet(shown')
               PROVE  p \in ToSet(shown)
    OBVIOUS
  <2>1. Redraw
    BY <1>1 DEF Next, vars, Tick, PickSort, Type, Erase, Expand, OneShot
  <2>2. shown' # <<>>
    BY DEF ToSet
  <2>3. ToSet(shown') = LetThrough(sample, query)
    BY <1>1, <2>1, <2>2 DEF RowsInv, RowsArranged, Arranged, Redraw
  <2>4. ToSet(shown) = LetThrough(sample, last.query)
    BY <1>1 DEF RowsInv, RowsArranged, Arranged
  <2>5. p \in DOMAIN sample.rows /\ Matches(query, p, sample.rows[p])
    BY <2>3 DEF LetThrough
  <2>6. query \in Text /\ last.query \in Text
    BY <1>1, RowsAssumption DEF RowsInv, ChosenWell, Text
  <2>7. Matches(last.query, p, sample.rows[p])
    BY <2>5, <2>6, ShorterMatches
  <2> QED
    BY <2>4, <2>5, <2>7 DEF LetThrough
<1>2. RowsInv /\ RowsInv' /\ [Next]_vars
        => [Longer => ToSet(shown') \subseteq ToSet(shown)]_<<shown>>
  BY <1>1
<1> QED
  BY <1>2, RowsInvAlways, PTL DEF Spec, FilterNarrows
=============================================================================
