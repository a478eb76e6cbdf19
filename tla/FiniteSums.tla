------------------------------ MODULE FiniteSums ------------------------------
(***************************************************************************)
(* What the proofs about ledgers and forecasts need to know of finite sets: *)
(* an induction over their subsets, and the laws of SumFunctionOnSet.       *)
(*                                                                          *)
(* SumFunctionOnSet is a fold, that is a function defined recursively on    *)
(* the subsets of a set.  It is first shown to exist, then to be the same   *)
(* whatever the set, then not to depend on the order of summation.          *)
(***************************************************************************)
EXTENDS Integers, FiniteSetsExt, FiniteSetTheorems, NaturalsInduction, TLAPS

-----------------------------------------------------------------------------
(* Induction *)

\* A set of natural numbers that is not empty has a least one.
LEMMA LeastNatural ==
  ASSUME NEW S \in SUBSET Nat, S # {}
  PROVE  \E m \in S : \A n \in S : m <= n
<1> DEFINE less == OpToRel(<, Nat)
<1>1. \A x, y \in Nat : x < y => <<x, y>> \in less
  BY DEF OpToRel
<1>2. IsWellFoundedOn(less, Nat)
  BY NatLessThanWellFounded
<1> HIDE DEF less
<1>3. PICK m \in S : \A n \in S : ~(<<n, m>> \in less)
  BY <1>2, WFMin
<1>4. \A n \in S : m \in Nat /\ n \in Nat /\ (m <= n \/ n < m)
  OBVIOUS
<1> QED
  BY <1>1, <1>3, <1>4

\* A set of numbers that has 0, and with every number the next, has them all.
LEMMA NumbersByInduction ==
  ASSUME NEW G, 0 \in G, \A n \in Nat : n \in G => n + 1 \in G
  PROVE  Nat \subseteq G
<1> SUFFICES ASSUME Nat \ G # {} PROVE FALSE
  OBVIOUS
<1>1. PICK m \in Nat \ G : \A n \in Nat \ G : m <= n
  BY LeastNatural
<1>2. m - 1 \in Nat /\ m = (m - 1) + 1 /\ ~(m <= m - 1)
  BY <1>1
<1>3. m - 1 \in G
  BY <1>1, <1>2
<1> QED
  BY <1>1, <1>2, <1>3

\* A finite set without one of its elements is finite and smaller by one.
LEMMA OneLess ==
  ASSUME NEW T, IsFiniteSet(T), NEW x \in T
  PROVE  /\ IsFiniteSet(T \ {x}) /\ Cardinality(T \ {x}) = Cardinality(T) - 1
         /\ \A n \in Nat : Cardinality(T) = n + 1 => Cardinality(T \ {x}) = n
<1>1. IsFiniteSet(T \ {x}) /\ Cardinality(T \ {x}) = Cardinality(T) - 1
  BY FS_RemoveElement
<1> QED
  BY <1>1

\* A collection of subsets of S that has {}, and with every one that with one
\* more element, has them all.
LEMMA SubsetsByInduction ==
  ASSUME NEW S, IsFiniteSet(S), NEW G, {} \in G,
         \A T \in SUBSET S : T \in G => \A x \in S \ T : T \union {x} \in G
  PROVE  SUBSET S \subseteq G
<1> DEFINE H == {n \in Nat : \A T \in SUBSET S : Cardinality(T) = n => T \in G}
<1>1. \A T \in SUBSET S : IsFiniteSet(T) /\ Cardinality(T) \in Nat
  BY FS_Subset, FS_CardinalityType
<1>2. 0 \in H
  BY <1>1, FS_EmptySet
<1>3. ASSUME NEW n \in Nat, n \in H PROVE n + 1 \in H
  <2> SUFFICES ASSUME NEW T \in SUBSET S, Cardinality(T) = n + 1 PROVE T \in G
    OBVIOUS
  <2>1. T # {}
    BY FS_EmptySet
  <2>2. PICK x \in T : TRUE
    BY <2>1
  <2>3. Cardinality(T \ {x}) = n
    BY <1>1, OneLess
  <2>4. T \ {x} \in G
    BY <1>3, <2>3
  <2>5. T = (T \ {x}) \union {x} /\ x \in S \ (T \ {x}) /\ T \ {x} \in SUBSET S
    OBVIOUS
  <2> QED
    BY <2>4, <2>5
<1> HIDE DEF H
<1>4. Nat \subseteq H
  BY <1>2, <1>3, NumbersByInduction
<1> QED
  BY <1>1, <1>4 DEF H

\* What a function makes of the elements of a finite set is a finite set.
LEMMA FiniteImage ==
  ASSUME NEW S, IsFiniteSet(S), NEW f
  PROVE  IsFiniteSet({f[x] : x \in S})
<1> DEFINE G == {T \in SUBSET S : IsFiniteSet({f[x] : x \in T})}
<1>1. {} \in G
  BY FS_EmptySet
<1>2. ASSUME NEW T \in SUBSET S, T \in G, NEW y \in S \ T PROVE T \union {y} \in G
  <2>1. PICK A : A = {f[x] : x \in T}
    OBVIOUS
  <2>2. {f[x] : x \in T \union {y}} = A \union {f[y]}
    BY <2>1
  <2>3. IsFiniteSet(A \union {f[y]})
    BY <1>2, <2>1, FS_AddElement
  <2> QED
    BY <2>2, <2>3
<1> HIDE DEF G
<1>3. S \in G
  BY <1>1, <1>2, SubsetsByInduction
<1> QED
  BY <1>3 DEF G

-----------------------------------------------------------------------------
(* The fold *)

\* Some element of a set, the one a sum over it begins with.
Some(s) == CHOOSE x \in s : TRUE

\* g has the sums of f over the subsets of S.
Sums(f, S, g) ==
  g = [s \in SUBSET S |-> IF s = {} THEN 0 ELSE f[Some(s)] + g[s \ {Some(s)}]]

\* A sum begins with an element.
LEMMA SomeElement == \A s : s # {} => Some(s) \in s
BY DEF Some

\* The sums exist, for subsets of up to n elements by induction on n.
LEMMA SumsExist ==
  ASSUME NEW S, IsFiniteSet(S), NEW f
  PROVE  \E g : Sums(f, S, g)
<1> DEFINE Upto(n) == {s \in SUBSET S : Cardinality(s) <= n}
           Next(g, s) == IF s = {} THEN 0 ELSE f[Some(s)] + g[s \ {Some(s)}]
           H == {n \in Nat : \E g : \A s \in Upto(n) : g[s] = Next(g, s)}
<1>1. \A T \in SUBSET S : IsFiniteSet(T) /\ Cardinality(T) \in Nat
  BY FS_Subset, FS_CardinalityType
<1>2. \A s \in SUBSET S : s # {} =>
        /\ s \ {Some(s)} \in SUBSET S
        /\ Cardinality(s \ {Some(s)}) = Cardinality(s) - 1
  BY <1>1, SomeElement, FS_RemoveElement
<1>3. 0 \in H
  <2>1. \A s \in Upto(0) : s = {}
    BY <1>1, FS_EmptySet
  <2>2. \A s \in Upto(0) : [t \in SUBSET S |-> 0][s] = Next([t \in SUBSET S |-> 0], s)
    BY <2>1
  <2> QED
    BY <2>2
<1>4. ASSUME NEW n \in Nat, n \in H PROVE n + 1 \in H
  <2>1. PICK g : \A s \in Upto(n) : g[s] = Next(g, s)
    BY <1>4
  <2>2. PICK h : h = [s \in SUBSET S |-> IF Cardinality(s) <= n THEN g[s] ELSE Next(g, s)]
    OBVIOUS
  <2>3. \A s \in Upto(n) : h[s] = g[s]
    BY <2>2
  <2>4. ASSUME NEW s \in Upto(n + 1), s # {} PROVE s \ {Some(s)} \in Upto(n)
    BY <1>1, <1>2, <2>4
  <2>5. ASSUME NEW s \in Upto(n + 1) PROVE h[s] = Next(g, s)
    BY <1>1, <2>1, <2>2
  <2>6. \A s \in Upto(n + 1) : h[s] = Next(h, s)
    BY <2>3, <2>4, <2>5
  <2> QED
    BY <2>6
<1> HIDE DEF H
<1>5. Cardinality(S) \in H
  BY <1>1, <1>3, <1>4, NumbersByInduction
<1>6. PICK g : \A s \in Upto(Cardinality(S)) : g[s] = Next(g, s)
  BY <1>5 DEF H
<1>7. \A s \in SUBSET S : s \in Upto(Cardinality(S))
  BY FS_Subset
<1>8. PICK h : h = [s \in SUBSET S |-> g[s]]
  OBVIOUS
<1>9. \A s \in SUBSET S : h[s] = IF s = {} THEN 0 ELSE f[Some(s)] + h[s \ {Some(s)}]
  BY <1>2, <1>6, <1>7, <1>8
<1>10. Sums(f, S, h)
  BY <1>8, <1>9 DEF Sums
<1> QED
  BY <1>10

\* SumFunctionOnSet is the value at S of such sums.
LEMMA SumUnfolded ==
  ASSUME NEW S, IsFiniteSet(S), NEW f
  PROVE  \E g : Sums(f, S, g) /\ SumFunctionOnSet(f, S) = g[S]
<1>1. PICK g : g = CHOOSE h : Sums(f, S, h)
  OBVIOUS
<1>2. Sums(f, S, g)
  BY <1>1, SumsExist
<1>3. SumFunctionOnSet(f, S) = g[S]
  BY <1>1 DEF SumFunctionOnSet, FoldFunctionOnSet, MapThenFoldSet, Sums, Some
<1> QED
  BY <1>2, <1>3

\* The sum over a set is the same, whichever larger set it is computed in.
LEMMA SumsAgree ==
  ASSUME NEW S, IsFiniteSet(S), NEW T \in SUBSET S, NEW f, NEW g, NEW h,
         Sums(f, S, g), Sums(f, T, h)
  PROVE  g[T] = h[T]
<1> DEFINE H == {n \in Nat : \A s \in SUBSET T : Cardinality(s) = n => g[s] = h[s]}
<1>1. \A s \in SUBSET T : IsFiniteSet(s) /\ Cardinality(s) \in Nat
  BY FS_Subset, FS_CardinalityType
<1>2. \A s \in SUBSET T : /\ g[s] = IF s = {} THEN 0 ELSE f[Some(s)] + g[s \ {Some(s)}]
                          /\ h[s] = IF s = {} THEN 0 ELSE f[Some(s)] + h[s \ {Some(s)}]
  BY DEF Sums
<1>3. 0 \in H
  BY <1>1, <1>2, FS_EmptySet
<1>4. ASSUME NEW n \in Nat, n \in H PROVE n + 1 \in H
  <2> SUFFICES ASSUME NEW s \in SUBSET T, Cardinality(s) = n + 1 PROVE g[s] = h[s]
    OBVIOUS
  <2>1. s # {}
    BY FS_EmptySet
  <2>2. s \ {Some(s)} \in SUBSET T /\ Cardinality(s \ {Some(s)}) = n
    <3>1. Some(s) \in s
      BY <2>1, SomeElement
    <3> QED
      BY <1>1, <3>1, OneLess
  <2>3. g[s \ {Some(s)}] = h[s \ {Some(s)}]
    BY <1>4, <2>2
  <2> QED
    BY <1>2, <2>1, <2>3
<1> HIDE DEF H
<1>5. Cardinality(T) \in H
  BY <1>1, <1>3, <1>4, NumbersByInduction
<1> QED
  BY <1>1, <1>5 DEF H

\* Nothing adds up to nothing; other sums begin with some element.
LEMMA SumBegins ==
  ASSUME NEW S, IsFiniteSet(S), NEW f
  PROVE  SumFunctionOnSet(f, S) =
           IF S = {} THEN 0 ELSE f[Some(S)] + SumFunctionOnSet(f, S \ {Some(S)})
<1>1. PICK g : Sums(f, S, g) /\ SumFunctionOnSet(f, S) = g[S]
  BY SumUnfolded
<1>2. g[S] = IF S = {} THEN 0 ELSE f[Some(S)] + g[S \ {Some(S)}]
  BY <1>1 DEF Sums
<1>3. PICK T \in SUBSET S : T = S \ {Some(S)}
  OBVIOUS
<1>4. PICK h : Sums(f, T, h) /\ SumFunctionOnSet(f, T) = h[T]
  BY FS_Subset, SumUnfolded
<1>5. g[T] = h[T]
  BY <1>1, <1>4, SumsAgree
<1> QED
  BY <1>1, <1>2, <1>3, <1>4, <1>5

-----------------------------------------------------------------------------
(* The laws of sums *)

\* A sum of nothing is zero.
LEMMA SumOfNothing == \A f : SumFunctionOnSet(f, {}) = 0
BY SumBegins, FS_EmptySet

\* A sum of integers is an integer.
LEMMA SumType ==
  ASSUME NEW S, IsFiniteSet(S), NEW f, \A x \in S : f[x] \in Int
  PROVE  SumFunctionOnSet(f, S) \in Int
<1> DEFINE H == {n \in Nat : \A T \in SUBSET S : Cardinality(T) = n => SumFunctionOnSet(f, T) \in Int}
<1>1. \A T \in SUBSET S : IsFiniteSet(T) /\ Cardinality(T) \in Nat
  BY FS_Subset, FS_CardinalityType
<1>2. 0 \in H
  BY <1>1, SumOfNothing, FS_EmptySet
<1>3. ASSUME NEW n \in Nat, n \in H PROVE n + 1 \in H
  <2> SUFFICES ASSUME NEW T \in SUBSET S, Cardinality(T) = n + 1
               PROVE  SumFunctionOnSet(f, T) \in Int
    OBVIOUS
  <2>1. T # {}
    BY FS_EmptySet
  <2>2. PICK x \in T : x = Some(T)
    BY <2>1, SomeElement
  <2>3. SumFunctionOnSet(f, T) = f[x] + SumFunctionOnSet(f, T \ {x})
    BY <1>1, <2>1, <2>2, SumBegins
  <2>4. T \ {x} \in SUBSET S /\ Cardinality(T \ {x}) = n
    BY <1>1, OneLess
  <2>5. SumFunctionOnSet(f, T \ {x}) \in Int
    BY <1>3, <2>4
  <2> QED
    BY <2>3, <2>5
<1> HIDE DEF H
<1>4. Cardinality(S) \in H
  BY <1>1, <1>2, <1>3, NumbersByInduction
<1> QED
  BY <1>1, <1>4 DEF H

\* Any element may come first: the order of a sum does not matter.
LEMMA SumTakes ==
  ASSUME NEW S, IsFiniteSet(S), NEW f, \A x \in S : f[x] \in Int, NEW y \in S
  PROVE  SumFunctionOnSet(f, S) = f[y] + SumFunctionOnSet(f, S \ {y})
<1> DEFINE H == {n \in Nat : \A T \in SUBSET S : Cardinality(T) = n =>
                   \A x \in T : SumFunctionOnSet(f, T) = f[x] + SumFunctionOnSet(f, T \ {x})}
<1>1. \A T \in SUBSET S : IsFiniteSet(T) /\ Cardinality(T) \in Nat
  BY FS_Subset, FS_CardinalityType
<1>2. 0 \in H
  BY <1>1, FS_EmptySet
<1>3. ASSUME NEW n \in Nat, n \in H PROVE n + 1 \in H
  <2> SUFFICES ASSUME NEW T \in SUBSET S, Cardinality(T) = n + 1, NEW x \in T
               PROVE  SumFunctionOnSet(f, T) = f[x] + SumFunctionOnSet(f, T \ {x})
    OBVIOUS
  <2>1. PICK c \in T : c = Some(T)
    BY SomeElement
  <2>2. SumFunctionOnSet(f, T) = f[c] + SumFunctionOnSet(f, T \ {c})
    BY <1>1, <2>1, SumBegins
  <2>3. CASE x # c
    <3>1. PICK A \in SUBSET S : A = T \ {c} /\ x \in A /\ Cardinality(A) = n
      BY <1>1, <2>3, OneLess
    <3>2. PICK B \in SUBSET S : B = T \ {x} /\ c \in B /\ Cardinality(B) = n
      BY <1>1, <2>3, OneLess
    <3>3. SumFunctionOnSet(f, A) = f[x] + SumFunctionOnSet(f, A \ {x})
      BY <1>3, <3>1
    <3>4. SumFunctionOnSet(f, B) = f[c] + SumFunctionOnSet(f, B \ {c})
      BY <1>3, <3>2
    <3>5. PICK R \in SUBSET S : A \ {x} = R /\ B \ {c} = R
      BY <3>1, <3>2
    <3>6. SumFunctionOnSet(f, R) \in Int
      BY <1>1, SumType
    <3>7. f[x] \in Int /\ f[c] \in Int
      OBVIOUS
    <3> QED
      BY <2>2, <3>1, <3>2, <3>3, <3>4, <3>5, <3>6, <3>7
  <2> QED
    BY <2>1, <2>2, <2>3
<1> HIDE DEF H
<1>4. Cardinality(S) \in H
  BY <1>1, <1>2, <1>3, NumbersByInduction
<1> QED
  BY <1>1, <1>4 DEF H

\* One more element adds its value.
LEMMA SumAdds ==
  ASSUME NEW S, IsFiniteSet(S), NEW f, NEW y, y \notin S, \A x \in S \union {y} : f[x] \in Int
  PROVE  SumFunctionOnSet(f, S \union {y}) = SumFunctionOnSet(f, S) + f[y]
<1>1. PICK T : T = S \union {y}
  OBVIOUS
<1>2. IsFiniteSet(T) /\ y \in T /\ T \ {y} = S
  BY <1>1, FS_AddElement
<1>3. SumFunctionOnSet(f, T) = f[y] + SumFunctionOnSet(f, S)
  BY <1>1, <1>2, SumTakes
<1>4. SumFunctionOnSet(f, S) \in Int /\ f[y] \in Int
  BY <1>1, SumType
<1> QED
  BY <1>1, <1>3, <1>4

\* Nowhere larger, and the sum is not larger.
LEMMA SumMonotonic ==
  ASSUME NEW S, IsFiniteSet(S), NEW f, NEW g,
         \A x \in S : f[x] \in Int /\ g[x] \in Int /\ f[x] <= g[x]
  PROVE  SumFunctionOnSet(f, S) <= SumFunctionOnSet(g, S)
<1> DEFINE G == {T \in SUBSET S : SumFunctionOnSet(f, T) <= SumFunctionOnSet(g, T)}
<1>1. {} \in G
  BY SumOfNothing
<1>2. ASSUME NEW T \in SUBSET S, T \in G, NEW x \in S \ T PROVE T \union {x} \in G
  <2>1. IsFiniteSet(T)
    BY FS_Subset
  <2>2. /\ SumFunctionOnSet(f, T) \in Int /\ SumFunctionOnSet(g, T) \in Int
        /\ f[x] \in Int /\ g[x] \in Int /\ f[x] <= g[x]
    BY <2>1, SumType
  <2>3. /\ SumFunctionOnSet(f, T \union {x}) = SumFunctionOnSet(f, T) + f[x]
        /\ SumFunctionOnSet(g, T \union {x}) = SumFunctionOnSet(g, T) + g[x]
    BY <2>1, SumAdds
  <2> QED
    BY <1>2, <2>2, <2>3
<1> HIDE DEF G
<1>3. S \in G
  BY <1>1, <1>2, SubsetsByInduction
<1> QED
  BY <1>3 DEF G

\* The same values add up to the same.
LEMMA SumEqual ==
  ASSUME NEW S, IsFiniteSet(S), NEW f, NEW g, \A x \in S : f[x] \in Int /\ f[x] = g[x]
  PROVE  SumFunctionOnSet(f, S) = SumFunctionOnSet(g, S)
<1>1. /\ SumFunctionOnSet(f, S) <= SumFunctionOnSet(g, S)
      /\ SumFunctionOnSet(g, S) <= SumFunctionOnSet(f, S)
  BY SumMonotonic
<1> QED
  BY <1>1, SumType

\* A common factor may be taken out of a sum.
LEMMA SumScales ==
  ASSUME NEW S, IsFiniteSet(S), NEW n \in Int, NEW f, NEW g,
         \A x \in S : f[x] \in Int /\ g[x] \in Int /\ g[x] = f[x] * n
  PROVE  SumFunctionOnSet(g, S) = SumFunctionOnSet(f, S) * n
<1> DEFINE G == {T \in SUBSET S : SumFunctionOnSet(g, T) = SumFunctionOnSet(f, T) * n}
<1>1. {} \in G
  <2>1. 0 * n = 0
    OBVIOUS
  <2> QED
    BY <2>1, SumOfNothing
<1>2. ASSUME NEW T \in SUBSET S, T \in G, NEW x \in S \ T PROVE T \union {x} \in G
  <2>1. IsFiniteSet(T)
    BY FS_Subset
  <2>2. \A y \in T \union {x} : f[y] \in Int /\ g[y] \in Int
    OBVIOUS
  <2>3. /\ SumFunctionOnSet(f, T \union {x}) = SumFunctionOnSet(f, T) + f[x]
        /\ SumFunctionOnSet(g, T \union {x}) = SumFunctionOnSet(g, T) + g[x]
    BY <2>1, <2>2, SumAdds
  <2>4. SumFunctionOnSet(f, T) \in Int
    BY <2>1, <2>2, SumType
  <2>5. \A a, b \in Int : (a + b) * n = a * n + b * n
    OBVIOUS
  <2>6. g[x] = f[x] * n /\ f[x] \in Int
    OBVIOUS
  <2>7. SumFunctionOnSet(g, T \union {x}) = SumFunctionOnSet(f, T \union {x}) * n
    BY <1>2, <2>3, <2>4, <2>5, <2>6
  <2> QED
    BY <1>2, <2>7
<1> HIDE DEF G
<1>3. SUBSET S \subseteq G
  BY <1>1, <1>2, SubsetsByInduction
<1> QED
  BY <1>3 DEF G

\* A sum of nothing but zeros.
LEMMA SumOfZeros ==
  ASSUME NEW S, IsFiniteSet(S), NEW f, \A x \in S : f[x] = 0
  PROVE  SumFunctionOnSet(f, S) = 0
<1>1. SumFunctionOnSet(f, S) = SumFunctionOnSet(f, S) * 0
  BY SumScales
<1>2. SumFunctionOnSet(f, S) \in Int
  BY SumType
<1> QED
  BY <1>1, <1>2

\* A sum of equal numbers up to n.
LEMMA SumOfEqual ==
  ASSUME NEW n \in Nat, NEW c \in Int, NEW g, \A i \in 1..n : g[i] = c
  PROVE  SumFunctionOnSet(g, 1..n) = n * c
<1> DEFINE H == {k \in Nat : k <= n => SumFunctionOnSet(g, 1..k) = k * c}
<1>1. 0 \in H
  <2>1. 1..0 = {} /\ 0 * c = 0
    OBVIOUS
  <2> QED
    BY <2>1, SumOfNothing
<1>2. ASSUME NEW k \in Nat, k \in H PROVE k + 1 \in H
  <2> SUFFICES ASSUME k + 1 <= n PROVE SumFunctionOnSet(g, 1..(k + 1)) = (k + 1) * c
    OBVIOUS
  <2>1. 1..(k + 1) = (1..k) \union {k + 1} /\ k + 1 \notin 1..k /\ \A i \in 1..(k + 1) : i \in 1..n
    OBVIOUS
  <2>2. IsFiniteSet(1..k)
    BY FS_Interval
  <2>3. PICK S, y : S = 1..k /\ y = k + 1
    OBVIOUS
  <2>4. \A x \in S \union {y} : g[x] \in Int /\ g[x] = c
    BY <2>1, <2>3
  <2>5. SumFunctionOnSet(g, S \union {y}) = SumFunctionOnSet(g, S) + g[y]
    <3>1. y \notin S /\ IsFiniteSet(S)
      BY <2>1, <2>2, <2>3
    <3> QED
      BY <2>4, <3>1, SumAdds
  <2>6. SumFunctionOnSet(g, S) = k * c
    BY <1>2, <2>3
  <2>7. (k + 1) * c = k * c + c
    OBVIOUS
  <2> QED
    BY <2>1, <2>3, <2>4, <2>5, <2>6, <2>7
<1> HIDE DEF H
<1>3. n \in H
  BY <1>1, <1>2, NumbersByInduction
<1> QED
  BY <1>3 DEF H

\* h is one-to-one on S, and gives g the values of f.
OneToOne(h, S) == \A x, y \in S : h[x] = h[y] => x = y
Carries(h, S, f, g) == \A x \in S : f[x] \in Int /\ g[h[x]] = f[x]

\* A sum of natural numbers is one.
LEMMA SumIsNatural ==
  ASSUME NEW S, IsFiniteSet(S), NEW f, \A x \in S : f[x] \in Nat
  PROVE  SumFunctionOnSet(f, S) \in Nat
<1>1. PICK g : g = [x \in S |-> 0]
  OBVIOUS
<1>2. SumFunctionOnSet(g, S) = 0
  BY <1>1, SumOfZeros
<1>3. SumFunctionOnSet(g, S) <= SumFunctionOnSet(f, S)
  BY <1>1, SumMonotonic
<1>4. SumFunctionOnSet(f, S) \in Int
  BY SumType
<1> QED
  BY <1>2, <1>3, <1>4

\* A sum over what a one-to-one function makes of a set is a sum over the set.
LEMMA SumOfImage ==
  ASSUME NEW S, IsFiniteSet(S), NEW h, OneToOne(h, S), NEW f, NEW g, Carries(h, S, f, g)
  PROVE  SumFunctionOnSet(g, {h[x] : x \in S}) = SumFunctionOnSet(f, S)
<1> DEFINE Image(T) == {h[x] : x \in T}
           G == {T \in SUBSET S : SumFunctionOnSet(g, Image(T)) = SumFunctionOnSet(f, T)}
<1>1. {} \in G
  <2>1. Image({}) = {}
    OBVIOUS
  <2> QED
    BY <2>1, SumOfNothing
<1>2. ASSUME NEW T \in SUBSET S, T \in G, NEW y \in S \ T PROVE T \union {y} \in G
  <2>1. IsFiniteSet(T)
    BY FS_Subset
  <2>2. PICK A : A = Image(T)
    OBVIOUS
  <2>3. IsFiniteSet(A)
    BY <2>1, <2>2, FiniteImage
  <2>4. Image(T \union {y}) = A \union {h[y]}
    BY <2>2
  <2>5. PICK z : z = h[y]
    OBVIOUS
  <2>6. z \notin A
    BY <2>2, <2>5 DEF OneToOne
  <2>7. \A x \in A \union {z} : g[x] \in Int
    BY <2>2, <2>5 DEF Carries
  <2>8. SumFunctionOnSet(g, A \union {z}) = SumFunctionOnSet(g, A) + g[z]
    BY <2>3, <2>6, <2>7, SumAdds
  <2>9. \A x \in T \union {y} : f[x] \in Int
    BY DEF Carries
  <2>10. SumFunctionOnSet(f, T \union {y}) = SumFunctionOnSet(f, T) + f[y]
    BY <2>1, <2>9, SumAdds
  <2>11. g[z] = f[y]
    BY <2>5 DEF Carries
  <2> QED
    BY <1>2, <2>2, <2>4, <2>5, <2>8, <2>10, <2>11
<1> HIDE DEF G
<1>3. S \in G
  BY <1>1, <1>2, SubsetsByInduction
<1> QED
  BY <1>3 DEF G

-----------------------------------------------------------------------------
(* Least and greatest elements *)

\* A finite set of integers has a least and a greatest element.
LEMMA Extremes ==
  ASSUME NEW S \in SUBSET Int, IsFiniteSet(S), S # {}
  PROVE  /\ Min(S) \in S /\ \A y \in S : Min(S) <= y
         /\ Max(S) \in S /\ \A y \in S : Max(S) >= y
<1> DEFINE G == {T \in SUBSET S : T # {} => /\ \E m \in T : \A y \in T : m <= y
                                            /\ \E m \in T : \A y \in T : m >= y}
<1>1. {} \in G
  OBVIOUS
<1>2. ASSUME NEW T \in SUBSET S, T \in G, NEW x \in S \ T PROVE T \union {x} \in G
  <2>1. CASE T = {}
    <3>1. T \union {x} = {x} /\ x <= x /\ x >= x
      BY <2>1
    <3> QED
      BY <3>1
  <2>2. CASE T # {}
    <3>1. PICK m \in T : \A y \in T : m <= y
      BY <1>2, <2>2
    <3>2. PICK n \in T : \A y \in T : n >= y
      BY <1>2, <2>2
    <3>3. \E k \in T \union {x} : \A y \in T \union {x} : k <= y
      <4>1. CASE m <= x
        BY <3>1, <4>1
      <4>2. CASE ~(m <= x)
        <5>1. \A y \in T \union {x} : x <= y
          BY <3>1, <4>2
        <5> QED
          BY <5>1
      <4> QED
        BY <4>1, <4>2
    <3>4. \E k \in T \union {x} : \A y \in T \union {x} : k >= y
      <4>1. CASE n >= x
        BY <3>2, <4>1
      <4>2. CASE ~(n >= x)
        <5>1. \A y \in T \union {x} : x >= y
          BY <3>2, <4>2
        <5> QED
          BY <5>1
      <4> QED
        BY <4>1, <4>2
    <3> QED
      BY <3>3, <3>4
  <2> QED
    BY <2>1, <2>2
<1> HIDE DEF G
<1>3. S \in G
  BY <1>1, <1>2, SubsetsByInduction
<1>4. (\E m \in S : \A y \in S : m <= y) /\ (\E m \in S : \A y \in S : m >= y)
  BY <1>3 DEF G
<1> QED
  BY <1>4 DEF Min, Max

\* Of two numbers.
LEMMA ExtremesOfTwo ==
  ASSUME NEW a \in Int, NEW b \in Int
  PROVE  /\ Min({a, b}) = IF a < b THEN a ELSE b
         /\ Max({a, b}) = IF a > b THEN a ELSE b
<1>1. IsFiniteSet({a, b}) /\ {a, b} \in SUBSET Int /\ {a, b} # {}
  <2>1. {a, b} = {a} \union {b} /\ IsFiniteSet({a})
    BY FS_Singleton
  <2>2. IsFiniteSet({a} \union {b})
    BY <2>1, FS_AddElement
  <2> QED
    BY <2>1, <2>2
<1>2. /\ Min({a, b}) \in {a, b} /\ \A y \in {a, b} : Min({a, b}) <= y
      /\ Max({a, b}) \in {a, b} /\ \A y \in {a, b} : Max({a, b}) >= y
  BY <1>1, Extremes
<1> QED
  BY <1>2
=============================================================================
