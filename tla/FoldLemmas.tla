---------------------------- MODULE FoldLemmas ----------------------------
(***************************************************************************)
(* What the proofs need of sums over finite sets, such as the rows of the  *)
(* Engine and the offsets of a datagram, and of the ends of sets of        *)
(* naturals.  Induction takes the form of a least counterexample.          *)
(***************************************************************************)
EXTENDS Integers, FiniteSets, FiniteSetsExt, Functions, FiniteSetTheorems, WellFoundedInduction, TLAPS

\* A nonempty set of naturals has a least element.
LEMMA LeastNat ==
  ASSUME NEW S, S \subseteq Nat, S # {}
  PROVE  \E m \in S : \A y \in S : m <= y
<1> DEFINE R == {ss \in Nat \X Nat : ss[1] < ss[2]}
<1>1. IsWellFoundedOn(R, Nat)
  <2>1. R = OpToRel(<, Nat)
    BY DEF OpToRel
  <2> QED
    BY <2>1, NatLessThanWellFounded
<1> HIDE DEF R
<1>2. PICK x \in S : \A y \in S : ~(<<y, x>> \in R)
  BY <1>1, WFMin
<1>3. \A y \in S : x <= y
  <2> SUFFICES ASSUME NEW y \in S, y < x
               PROVE  FALSE
    OBVIOUS
  <2>1. <<y, x>> \in R
    BY DEF R
  <2> QED
    BY <1>2, <2>1
<1> QED
  BY <1>3

\* Among the finite subsets of a set, a nonempty collection has one that no
\* smaller one accompanies.
LEMMA LeastSet ==
  ASSUME NEW C, C # {}, \A s \in C : IsFiniteSet(s)
  PROVE  \E s \in C : \A t \in C : ~(Cardinality(t) < Cardinality(s))
<1> DEFINE N == {Cardinality(s) : s \in C}
<1>1. N \subseteq Nat /\ N # {}
  BY FS_CardinalityType
<1>2. PICK m \in N : \A y \in N : m <= y
  BY <1>1, LeastNat
<1>3. PICK s \in C : m = Cardinality(s)
  BY <1>2
<1>4. \A t \in C : Cardinality(t) \in N
  OBVIOUS
<1>5. \A t \in C : ~(Cardinality(t) < m)
  <2> SUFFICES ASSUME NEW t \in C PROVE ~(Cardinality(t) < m)
    OBVIOUS
  <2>1. Cardinality(t) \in Nat /\ m \in Nat /\ m <= Cardinality(t)
    BY <1>1, <1>2, <1>4
  <2> QED
    BY <2>1
<1> QED
  BY <1>3, <1>5

----------------------------------------------------------------------------
(* The ends of a set of naturals.                                          *)

\* Min finds its least element.
LEMMA MinOfNats ==
  ASSUME NEW S, S \subseteq Nat, S # {}
  PROVE  Min(S) \in S /\ \A y \in S : Min(S) <= y
  BY LeastNat DEF Min

\* A bounded set of naturals has a greatest element, which Max finds.
LEMMA MaxOfNats ==
  ASSUME NEW top \in Nat, NEW S, S \subseteq 0..top, S # {}
  PROVE  Max(S) \in S /\ \A y \in S : Max(S) >= y
<1> DEFINE T == {top - y : y \in S}
<1>1. T \subseteq Nat /\ T # {}
  <2>1. \A y \in S : top - y \in Nat
    OBVIOUS
  <2>2. PICK y \in S : TRUE
    OBVIOUS
  <2>3. top - y \in T
    OBVIOUS
  <2> QED
    BY <2>1, <2>3
<1>2. Min(T) \in T /\ \A y \in T : Min(T) <= y
  BY <1>1, MinOfNats
<1>3. PICK x \in S : Min(T) = top - x
  BY <1>2
<1>4. \A y \in S : top - x <= top - y
  BY <1>2, <1>3
<1>5. \A y \in S : x >= y
  BY <1>4
<1> QED
  BY <1>5 DEF Max

----------------------------------------------------------------------------
(* SumFunctionOnSet takes the elements out one at a time.                  *)

Pick(s) == CHOOSE x \in s : TRUE

\* One value of the sum from the value of the set without the picked element.
SumStep(f, s, g) == IF s = {} THEN 0 ELSE f[Pick(s)] + g[s \ {Pick(s)}]

Sums(f, S, g) == g = [s \in SUBSET S |-> SumStep(f, s, g)]

\* The definition of the library, spelled out.
LEMMA SumIsIterated ==
  ASSUME NEW f, NEW S
  PROVE  SumFunctionOnSet(f, S) = (CHOOSE g : Sums(f, S, g))[S]
  BY DEF SumFunctionOnSet, FoldFunctionOnSet, MapThenFoldSet, Sums, SumStep, Pick

\* Taking the picked element out leaves a smaller finite set.
LEMMA PickOne ==
  ASSUME NEW s, IsFiniteSet(s), s # {}
  PROVE  /\ Pick(s) \in s
         /\ IsFiniteSet(s \ {Pick(s)})
         /\ Cardinality(s \ {Pick(s)}) = Cardinality(s) - 1
         /\ Cardinality(s) \in Nat
         /\ Cardinality(s \ {Pick(s)}) < Cardinality(s)
<1>1. Pick(s) \in s
  BY DEF Pick
<1>2. IsFiniteSet(s \ {Pick(s)}) /\ Cardinality(s \ {Pick(s)}) = Cardinality(s) - 1
  BY <1>1, FS_RemoveElement
<1>3. Cardinality(s) \in Nat
  BY FS_CardinalityType
<1> QED
  BY <1>1, <1>2, <1>3

\* A function with the recursive equation exists on the subsets of a finite set:
\* it is built level by level, on the subsets with at most n elements.
LEMMA SumsExist ==
  ASSUME NEW f, NEW S, IsFiniteSet(S)
  PROVE  \E g : Sums(f, S, g)
<1> DEFINE Level(n)    == {s \in SUBSET S : Cardinality(s) <= n}
           OnLevel(n, g) == g = [s \in Level(n) |-> SumStep(f, s, g)]
           Bad         == {n \in Nat : ~\E g : OnLevel(n, g)}
<1>0. \A s \in SUBSET S : IsFiniteSet(s) /\ Cardinality(s) \in Nat
  BY FS_Subset, FS_CardinalityType
<1>1. OnLevel(0, [s \in Level(0) |-> 0])
  <2>1. \A s \in Level(0) : s = {}
    BY <1>0, FS_EmptySet
  <2> QED
    BY <2>1 DEF SumStep
<1>2. ASSUME NEW n \in Nat, NEW g, OnLevel(n, g)
      PROVE  \E h : OnLevel(n + 1, h)
  <2> DEFINE h == [s \in Level(n + 1) |-> SumStep(f, s, g)]
  <2>1. ASSUME NEW s \in Level(n + 1) PROVE h[s] = SumStep(f, s, h)
    <3>1. CASE s = {}
      BY <3>1 DEF SumStep
    <3>2. CASE s # {}
      <4> DEFINE t == s \ {Pick(s)}
      <4>1. t \in Level(n)
        BY <1>0, <3>2, PickOne
      <4>2. t \in Level(n + 1)
        BY <1>0, <4>1
      <4>3. h[t] = SumStep(f, t, g)
        BY <4>2
      <4>4. g[t] = SumStep(f, t, g)
        BY <1>2, <4>1
      <4>5. h[s] = f[Pick(s)] + g[t]
        BY <3>2 DEF SumStep
      <4>6. SumStep(f, s, h) = f[Pick(s)] + h[t]
        BY <3>2 DEF SumStep
      <4> QED
        BY <4>3, <4>4, <4>5, <4>6
    <3> QED
      BY <3>1, <3>2
  <2>2. DOMAIN h = Level(n + 1) /\ h = [s \in Level(n + 1) |-> h[s]]
    OBVIOUS
  <2> HIDE DEF h
  <2>3. [s \in Level(n + 1) |-> h[s]] = [s \in Level(n + 1) |-> SumStep(f, s, h)]
    BY <2>1
  <2>4. OnLevel(n + 1, h)
    BY <2>2, <2>3
  <2> QED
    BY <2>4
<1>3. Bad = {}
  <2> SUFFICES ASSUME Bad # {} PROVE FALSE
    OBVIOUS
  <2>0. Bad \subseteq Nat
    OBVIOUS
  <2> HIDE DEF OnLevel
  <2>1. PICK m \in Bad : \A y \in Bad : m <= y
    <3> HIDE DEF Bad
    <3> QED
      BY <2>0, LeastNat
  <2>2. m # 0
    BY <1>1
  <2>3. m - 1 \in Nat /\ m - 1 \notin Bad
    BY <2>0, <2>1, <2>2
  <2>4. PICK g : OnLevel(m - 1, g)
    BY <2>3
  <2>5. (m - 1) + 1 = m
    BY <2>0
  <2> QED
    BY <1>2, <2>3, <2>4, <2>5
<1>4. PICK g : OnLevel(Cardinality(S), g)
  BY <1>0, <1>3
<1>5. Level(Cardinality(S)) = SUBSET S
  <2>1. \A s \in SUBSET S : Cardinality(s) <= Cardinality(S)
    BY FS_Subset
  <2> QED
    BY <2>1
<1> QED
  BY <1>4, <1>5 DEF Sums

\* Two such functions agree on a set whose elements have the same values.
LEMMA SumsAgree ==
  ASSUME NEW f, NEW S, NEW g, Sums(f, S, g), IsFiniteSet(S),
         NEW f2, NEW S2, NEW g2, Sums(f2, S2, g2),
         NEW U, U \subseteq S, U \subseteq S2, \A x \in U : f[x] = f2[x]
  PROVE  g[U] = g2[U]
<1> DEFINE Bad == {s \in SUBSET U : g[s] # g2[s]}
<1> SUFFICES ASSUME Bad # {} PROVE FALSE
  OBVIOUS
<1>1. \A s \in Bad : IsFiniteSet(s)
  BY FS_Subset
<1>2. PICK s \in Bad : \A t \in Bad : ~(Cardinality(t) < Cardinality(s))
  <2> HIDE DEF Bad
  <2> QED
    BY <1>1, LeastSet
<1>3. s \in SUBSET S /\ s \in SUBSET S2 /\ IsFiniteSet(s)
  BY <1>1
<1>4. g[s] = SumStep(f, s, g) /\ g2[s] = SumStep(f2, s, g2)
  BY <1>3 DEF Sums
<1>5. CASE s = {}
  BY <1>4, <1>5 DEF SumStep
<1>6. CASE s # {}
  <2> DEFINE t == s \ {Pick(s)}
  <2>1. Pick(s) \in s /\ Cardinality(t) < Cardinality(s)
    BY <1>3, <1>6, PickOne
  <2>2. t \notin Bad
    BY <1>2, <2>1
  <2>3. g[t] = g2[t] /\ f[Pick(s)] = f2[Pick(s)]
    BY <2>1, <2>2
  <2> QED
    BY <1>4, <1>6, <2>3 DEF SumStep
<1> QED
  BY <1>5, <1>6

\* The sum satisfies its recursive equation.
LEMMA SumDef ==
  ASSUME NEW f, NEW S, IsFiniteSet(S)
  PROVE  SumFunctionOnSet(f, S) =
           IF S = {} THEN 0 ELSE f[Pick(S)] + SumFunctionOnSet(f, S \ {Pick(S)})
<1> DEFINE g == CHOOSE h : Sums(f, S, h)
<1>1. Sums(f, S, g) /\ SumFunctionOnSet(f, S) = g[S]
  BY SumsExist, SumIsIterated
<1> HIDE DEF g
<1>2. g[S] = SumStep(f, S, g)
  BY <1>1 DEF Sums
<1>3. CASE S = {}
  BY <1>1, <1>2, <1>3 DEF SumStep
<1>4. CASE S # {}
  <2> DEFINE T == S \ {Pick(S)}
             k == CHOOSE h : Sums(f, T, h)
  <2>1. IsFiniteSet(T)
    BY <1>4, PickOne
  <2> HIDE DEF T
  <2>2. Sums(f, T, k) /\ SumFunctionOnSet(f, T) = k[T]
    BY <2>1, SumsExist, SumIsIterated
  <2> HIDE DEF k
  <2>3. T \subseteq S
    BY DEF T
  <2>4. g[T] = k[T]
    BY <1>1, <2>2, <2>3, SumsAgree
  <2> QED
    BY <1>1, <1>2, <1>4, <2>2, <2>4 DEF SumStep, T
<1> QED
  BY <1>3, <1>4

----------------------------------------------------------------------------
(* What a sum depends on.                                                  *)

\* The sum over no element is 0.
LEMMA SumEmpty == \A f : SumFunctionOnSet(f, {}) = 0
  BY SumDef, FS_EmptySet

\* The sum depends on nothing but the values of the elements.
LEMMA SumEqual ==
  ASSUME NEW f, NEW f2, NEW S, IsFiniteSet(S), \A x \in S : f[x] = f2[x]
  PROVE  SumFunctionOnSet(f, S) = SumFunctionOnSet(f2, S)
<1> DEFINE g == CHOOSE h : Sums(f, S, h)
           g2 == CHOOSE h : Sums(f2, S, h)
<1>1. Sums(f, S, g) /\ SumFunctionOnSet(f, S) = g[S]
  BY SumsExist, SumIsIterated
<1>2. Sums(f2, S, g2) /\ SumFunctionOnSet(f2, S) = g2[S]
  BY SumsExist, SumIsIterated
<1> HIDE DEF g, g2
<1> QED
  BY <1>1, <1>2, SumsAgree

\* A sum of naturals is a natural, and no smaller than a sum of smaller ones.
LEMMA SumMonotone ==
  ASSUME NEW f, NEW f2, NEW S, IsFiniteSet(S),
         \A x \in S : f[x] \in Nat /\ f2[x] \in Nat /\ f[x] <= f2[x]
  PROVE  /\ SumFunctionOnSet(f, S) \in Nat
         /\ SumFunctionOnSet(f2, S) \in Nat
         /\ SumFunctionOnSet(f, S) <= SumFunctionOnSet(f2, S)
<1> DEFINE Good(s) == /\ SumFunctionOnSet(f, s) \in Nat
                      /\ SumFunctionOnSet(f2, s) \in Nat
                      /\ SumFunctionOnSet(f, s) <= SumFunctionOnSet(f2, s)
           Bad == {s \in SUBSET S : ~Good(s)}
<1> SUFFICES ASSUME Bad # {} PROVE FALSE
  OBVIOUS
<1>1. \A s \in Bad : IsFiniteSet(s)
  BY FS_Subset
<1>2. PICK s \in Bad : \A t \in Bad : ~(Cardinality(t) < Cardinality(s))
  <2> HIDE DEF Bad
  <2> QED
    BY <1>1, LeastSet
<1>3. CASE s = {}
  BY <1>3, <1>2, SumEmpty
<1>4. CASE s # {}
  <2> DEFINE t == s \ {Pick(s)}
  <2>1. Pick(s) \in S /\ t \in SUBSET S /\ Cardinality(t) < Cardinality(s)
    BY <1>1, <1>4, PickOne
  <2>2. Good(t)
    BY <1>2, <2>1
  <2>3. SumFunctionOnSet(f, s) = f[Pick(s)] + SumFunctionOnSet(f, t)
    BY <1>1, <1>4, SumDef
  <2>4. SumFunctionOnSet(f2, s) = f2[Pick(s)] + SumFunctionOnSet(f2, t)
    BY <1>1, <1>4, SumDef
  <2>5. f[Pick(s)] \in Nat /\ f2[Pick(s)] \in Nat /\ f[Pick(s)] <= f2[Pick(s)]
    BY <2>1
  <2>6. Good(s)
    BY <2>2, <2>3, <2>4, <2>5
  <2> QED
    BY <2>6
<1> QED
  BY <1>3, <1>4

\* The elements may be taken out in any order.
LEMMA SumTakeOut ==
  ASSUME NEW f, NEW S, IsFiniteSet(S), \A x \in S : f[x] \in Nat, NEW e \in S
  PROVE  SumFunctionOnSet(f, S) = f[e] + SumFunctionOnSet(f, S \ {e})
<1> DEFINE Good(s) == \A x \in s : SumFunctionOnSet(f, s) = f[x] + SumFunctionOnSet(f, s \ {x})
           Bad == {s \in SUBSET S : ~Good(s)}
<1> SUFFICES ASSUME Bad # {} PROVE FALSE
  OBVIOUS
<1>1. \A s \in Bad : IsFiniteSet(s)
  BY FS_Subset
<1>2. PICK s \in Bad : \A t \in Bad : ~(Cardinality(t) < Cardinality(s))
  <2> HIDE DEF Bad
  <2> QED
    BY <1>1, LeastSet
<1>3. PICK x \in s : SumFunctionOnSet(f, s) # f[x] + SumFunctionOnSet(f, s \ {x})
  BY <1>2
<1> DEFINE c == Pick(s)
           t == s \ {c}
           u == s \ {x}
           v == s \ {c, x}
<1>4. c \in s /\ Cardinality(t) < Cardinality(s) /\ IsFiniteSet(s)
  BY <1>1, <1>3, PickOne
<1>5. SumFunctionOnSet(f, s) = f[c] + SumFunctionOnSet(f, t)
  BY <1>3, <1>4, SumDef
<1>6. c # x
  BY <1>3, <1>5
<1>7. Cardinality(u) < Cardinality(s)
  <2>1. Cardinality(u) = Cardinality(s) - 1 /\ Cardinality(s) \in Nat
    BY <1>3, <1>4, FS_RemoveElement, FS_CardinalityType
  <2> QED
    BY <2>1
<1>8. Good(t) /\ Good(u)
  BY <1>2, <1>4, <1>7
<1>9. t \ {x} = v /\ u \ {c} = v
  OBVIOUS
<1>10. SumFunctionOnSet(f, t) = f[x] + SumFunctionOnSet(f, v)
  BY <1>3, <1>6, <1>8, <1>9
<1>11. SumFunctionOnSet(f, u) = f[c] + SumFunctionOnSet(f, v)
  BY <1>4, <1>6, <1>8, <1>9
<1>12. SumFunctionOnSet(f, v) \in Nat
  <2>1. IsFiniteSet(v) /\ \A y \in v : f[y] \in Nat
    BY <1>4, FS_Subset
  <2> HIDE DEF v
  <2> QED
    BY <2>1, SumMonotone
<1>13. f[c] \in Nat /\ f[x] \in Nat
  BY <1>3, <1>4
<1> HIDE DEF c, t, u, v
<1>14. SumFunctionOnSet(f, s) = f[x] + SumFunctionOnSet(f, u)
  BY <1>5, <1>10, <1>11, <1>12, <1>13
<1> QED
  BY <1>3, <1>14 DEF u

\* Leaving elements out makes a sum of naturals no larger.
LEMMA SumOfSubset ==
  ASSUME NEW f, NEW S, IsFiniteSet(S), \A x \in S : f[x] \in Nat, NEW T, T \subseteq S
  PROVE  /\ SumFunctionOnSet(f, T) \in Nat
         /\ SumFunctionOnSet(f, S) \in Nat
         /\ SumFunctionOnSet(f, T) <= SumFunctionOnSet(f, S)
<1> DEFINE Total(s) == SumFunctionOnSet(f, s)
           Good(s) == Total(T) <= Total(s)
           Bad == {s \in SUBSET S : T \subseteq s /\ ~Good(s)}
<1>0. \A s \in SUBSET S : IsFiniteSet(s) /\ Total(s) \in Nat
  BY FS_Subset, SumMonotone
<1>1. ASSUME Bad # {} PROVE FALSE
  <2>1. \A s \in Bad : IsFiniteSet(s)
    BY <1>0
  <2>2. PICK s \in Bad : \A t \in Bad : ~(Cardinality(t) < Cardinality(s))
    <3> HIDE DEF Bad
    <3> QED
      BY <1>1, <2>1, LeastSet
  <2>3. s # T
    BY <1>0, <2>2
  <2>4. PICK e \in s : e \notin T
    BY <2>2, <2>3
  <2> DEFINE t == s \ {e}
  <2>5. T \subseteq t /\ t \in SUBSET S /\ Cardinality(t) < Cardinality(s)
    <3>1. Cardinality(t) = Cardinality(s) - 1 /\ Cardinality(s) \in Nat
      BY <2>1, <2>4, FS_RemoveElement, FS_CardinalityType
    <3> QED
      BY <2>2, <2>4, <3>1
  <2>6. Good(t)
    BY <2>2, <2>5
  <2>7. Total(s) = f[e] + Total(t)
    BY <1>0, <2>2, <2>4, SumTakeOut
  <2>8. f[e] \in Nat /\ Total(t) \in Nat /\ Total(T) \in Nat
    BY <1>0, <2>2, <2>4, <2>5
  <2>9. Good(s)
    <3> HIDE DEF Total, t
    <3> QED
      BY <2>6, <2>7, <2>8
  <2> QED
    BY <2>2, <2>9
<1> QED
  BY <1>0, <1>1
=============================================================================
