---------------------------- MODULE OrderLemmas -----------------------------
(***************************************************************************)
(* Least and greatest elements of sets of numbers, induction and recursion *)
(* over them, and the places of the elements of a finite set in an order:  *)
(* what the proofs about sorting, cutting, taking the first few and        *)
(* descending by levels rest on.                                           *)
(***************************************************************************)
EXTENDS FiniteSetTheorems, FunctionTheorems, TLAPS

\* A set of naturals has a least element, and one with a bound has a greatest.
LEMMA LeastNatural ==
    ASSUME NEW S \in SUBSET Nat, S # {}
    PROVE  \E m \in S : \A k \in S : m <= k
<1>1. PICK m \in S : \A k \in S : <<k, m>> \notin OpToRel(<, Nat)
  BY WFMin, NatLessThanWellFounded
<1>2. \A k \in S : ~(k < m)
  BY <1>1 DEF OpToRel
<1>. QED
  BY <1>2

LEMMA GreatestNatural ==
    ASSUME NEW S \in SUBSET Nat, S # {}, NEW n \in Nat, \A k \in S : k <= n
    PROVE  \E m \in S : \A k \in S : k <= m
<1>. DEFINE T == {n - k : k \in S}
<1>1. \A k \in S : n - k \in Nat
  OBVIOUS
<1>. HIDE DEF T
<1>0. T \in SUBSET Nat /\ T # {}
  BY <1>1 DEF T
<1>2. PICK t \in T : \A u \in T : t <= u
  BY <1>0, LeastNatural
<1>3. PICK m \in S : t = n - m
  BY DEF T
<1>4. \A k \in S : t <= n - k
  BY <1>2 DEF T
<1>. QED
  BY <1>3, <1>4

-----------------------------------------------------------------------------
(* Induction, and functions that are defined by it.                        *)

LEMMA Induction ==
    ASSUME NEW S \in SUBSET Nat, 0 \in S, \A k \in S : k + 1 \in S
    PROVE  S = Nat
<1>. SUFFICES ASSUME Nat \ S # {} PROVE FALSE
  OBVIOUS
<1>1. PICK m \in Nat \ S : \A k \in Nat \ S : m <= k
  BY LeastNatural
<1>2. m # 0 /\ m - 1 \in Nat /\ m - 1 \notin Nat \ S
  BY <1>1
<1>3. (m - 1) + 1 \in S
  BY <1>2
<1>. QED
  BY <1>1, <1>3

\* Whatever a step does with the last value, there is the sequence of its values.
LEMMA RecursionExists ==
    ASSUME NEW A, NEW a \in A, NEW step \in [A -> A]
    PROVE  \E f \in [Nat -> A] : f[0] = a /\ \A k \in Nat : f[k + 1] = step[f[k]]
<1>. DEFINE Starts(f, n) == f[0] = a /\ \A k \in 0 .. n : k < n => f[k + 1] = step[f[k]]
            Has == {n \in Nat : \E f \in [0 .. n -> A] : Starts(f, n)}
            part == [n \in Nat |-> CHOOSE f \in [0 .. n -> A] : Starts(f, n)]
            F == [n \in Nat |-> part[n][n]]
<1>1. Has = Nat
  <2>1. 0 \in Has
    <3>1. [k \in 0 .. 0 |-> a] \in [0 .. 0 -> A] /\ Starts([k \in 0 .. 0 |-> a], 0)
      OBVIOUS
    <3>. QED
      BY <3>1
  <2>2. ASSUME NEW n \in Has PROVE n + 1 \in Has
    <3>1. PICK f \in [0 .. n -> A] : Starts(f, n)
      OBVIOUS
    <3>. DEFINE g == [k \in 0 .. n + 1 |-> IF k <= n THEN f[k] ELSE step[f[n]]]
    <3>2. n \in Nat /\ f[n] \in A
      OBVIOUS
    <3>3. g \in [0 .. n + 1 -> A]
      BY <3>2
    <3>4. Starts(g, n + 1)
      BY <3>1, <3>2
    <3>. QED
      BY <3>2, <3>3, <3>4
  <2>3. Has \in SUBSET Nat
    OBVIOUS
  <2>. HIDE DEF Has
  <2>. QED
    BY <2>1, <2>2, <2>3, Induction
<1>2. \A n \in Nat : part[n] \in [0 .. n -> A] /\ Starts(part[n], n)
  BY <1>1
<1>. HIDE DEF part
<1>3. ASSUME NEW n \in Nat PROVE \A k \in Nat : k <= n => part[k][k] = part[n][k]
  <2>. DEFINE Same == {j \in Nat : \A k \in Nat : j <= k /\ k <= n => part[k][j] = part[n][j]}
  <2>1. 0 \in Same
    BY <1>2
  <2>2. ASSUME NEW j \in Same PROVE j + 1 \in Same
    <3>. SUFFICES ASSUME NEW k \in Nat, j + 1 <= k, k <= n
                  PROVE  part[k][j + 1] = part[n][j + 1]
      OBVIOUS
    <3>1. part[k][j] = part[n][j] /\ j \in 0 .. k /\ j \in 0 .. n /\ j < k /\ j < n
      OBVIOUS
    <3>. QED
      BY <1>2, <3>1
  <2>3. Same \in SUBSET Nat
    OBVIOUS
  <2>. HIDE DEF Same
  <2>4. Same = Nat
    BY <2>1, <2>2, <2>3, Induction
  <2>. QED
    BY <2>4 DEF Same
<1>4. F \in [Nat -> A] /\ F[0] = a
  BY <1>2
<1>5. ASSUME NEW k \in Nat PROVE F[k + 1] = step[F[k]]
  <2>1. part[k][k] = part[k + 1][k]
    BY <1>3
  <2>2. part[k + 1][k + 1] = step[part[k + 1][k]]
    <3>1. k + 1 \in Nat /\ k \in 0 .. k + 1 /\ k < k + 1
      OBVIOUS
    <3>. QED
      BY <1>2, <3>1
  <2>. QED
    BY <2>1, <2>2
<1>. QED
  BY <1>4, <1>5

-----------------------------------------------------------------------------
(* Places in an order.  An order is a set of pairs; SetLessThan are the    *)
(* elements before one.                                                    *)

StrictOrder(R, S) ==
    /\ \A x \in S : <<x, x>> \notin R
    /\ \A x, y \in S : x = y \/ <<x, y>> \in R \/ <<y, x>> \in R
    /\ IsTransitivelyClosedOn(R, S)

Place(R, S) == [x \in S |-> Cardinality(SetLessThan(x, R, S)) + 1]

\* An element that is before another has the smaller place.
LEMMA PlacesInOrder ==
    ASSUME NEW S, IsFiniteSet(S), NEW R, StrictOrder(R, S),
           NEW x \in S, NEW y \in S, <<x, y>> \in R
    PROVE  Place(R, S)[x] < Place(R, S)[y]
<1>. DEFINE X == SetLessThan(x, R, S)
            Y == SetLessThan(y, R, S)
<1>1. X \subseteq Y /\ x \in Y /\ x \notin X
  BY DEF StrictOrder, IsTransitivelyClosedOn, SetLessThan
<1>2. IsFiniteSet(Y)
  BY FS_Subset DEF SetLessThan
<1>3. Cardinality(X) <= Cardinality(Y) /\ Cardinality(X) # Cardinality(Y) /\ IsFiniteSet(X)
  BY <1>1, <1>2, FS_Subset
<1>4. Cardinality(X) \in Nat /\ Cardinality(Y) \in Nat
  BY <1>2, <1>3, FS_CardinalityType
<1>. QED
  BY <1>3, <1>4 DEF Place

\* The places of n elements are the numbers from 1 to n.
LEMMA PlacesAreNumbers ==
    ASSUME NEW S, IsFiniteSet(S), NEW R, StrictOrder(R, S)
    PROVE  /\ Cardinality(S) \in Nat
           /\ Place(R, S) \in Bijection(S, 1 .. Cardinality(S))
<1>. DEFINE n == Cardinality(S)
            f == Place(R, S)
<1>1. n \in Nat
  BY FS_CardinalityType
<1>2. ASSUME NEW x \in S PROVE f[x] \in 1 .. n
  <2>. DEFINE X == SetLessThan(x, R, S)
  <2>1. X \subseteq S /\ X # S
    BY DEF SetLessThan, StrictOrder
  <2>2. IsFiniteSet(X) /\ Cardinality(X) <= n /\ Cardinality(X) # n
    BY <2>1, FS_Subset
  <2>3. Cardinality(X) \in Nat
    BY <2>2, FS_CardinalityType
  <2>. QED
    BY <1>1, <2>2, <2>3 DEF Place
<1>3. f \in [S -> 1 .. n]
  BY <1>2 DEF Place
<1>4. \A x, y \in S : f[x] = f[y] => x = y
  <2>. SUFFICES ASSUME NEW x \in S, NEW y \in S, f[x] = f[y], x # y PROVE FALSE
    OBVIOUS
  <2>1. <<x, y>> \in R \/ <<y, x>> \in R
    BY DEF StrictOrder
  <2>2. f[x] < f[y] \/ f[y] < f[x]
    BY <2>1, PlacesInOrder
  <2>3. f[x] \in Int /\ f[y] \in Int
    BY <1>1, <1>2
  <2>. QED
    BY <2>2, <2>3
<1>5. f \in Injection(S, 1 .. n)
  BY <1>3, <1>4, Fun_IsInj
<1>6. IsFiniteSet(1 .. n) /\ Cardinality(1 .. n) = n
  BY <1>1, FS_Interval
<1>7. f \in Surjection(S, 1 .. n)
  BY <1>5, <1>6, FS_Injection
<1>. QED
  BY <1>1, <1>5, <1>7, Fun_IsBij

\* As many elements have one of the first k places as there are, at most k.
LEMMA FirstPlaces ==
    ASSUME NEW S, IsFiniteSet(S), NEW R, StrictOrder(R, S), NEW k \in Nat
    PROVE  Cardinality({x \in S : Place(R, S)[x] <= k}) =
               IF k < Cardinality(S) THEN k ELSE Cardinality(S)
<1>. DEFINE F == {x \in S : Place(R, S)[x] <= k}
            n == IF k < Cardinality(S) THEN k ELSE Cardinality(S)
            g == [x \in F |-> Place(R, S)[x]]
<1>0. Cardinality(S) \in Nat /\ Place(R, S) \in Bijection(S, 1 .. Cardinality(S))
  BY PlacesAreNumbers
<1>1. /\ Cardinality(S) \in Nat
      /\ Place(R, S) \in [S -> 1 .. Cardinality(S)]
      /\ \A x, y \in S : Place(R, S)[x] = Place(R, S)[y] => x = y
      /\ \A i \in 1 .. Cardinality(S) : \E x \in S : Place(R, S)[x] = i
  BY <1>0 DEF Bijection, Injection, Surjection, IsInjective
<1>2. n \in Nat /\ F \subseteq S
  BY <1>1
<1>3. g \in [F -> 1 .. n] /\ \A x, y \in F : g[x] = g[y] => x = y
  BY <1>1
<1>4. \A i \in 1 .. n : \E x \in F : g[x] = i
  BY <1>1
<1>5. g \in Bijection(F, 1 .. n)
  BY <1>3, <1>4, Fun_IsBij
<1>6. ExistsBijection(1 .. n, F)
  BY <1>5, Fun_ExistsBijSymmetric DEF ExistsBijection
<1>. QED
  BY <1>2, <1>6, FS_CountingElements

-----------------------------------------------------------------------------
(* Sorting: s holds the n elements of S in the order R.                    *)

Sorted(s, n, R, S) ==
    /\ n \in Nat /\ s \in [1 .. n -> S]
    /\ \A x \in S : \E i \in 1 .. n : s[i] = x
    /\ \A i, j \in 1 .. n : i < j => <<s[i], s[j]>> \in R

\* The numbers from 1 to n can be put in any order.
LEMMA SortingExists ==
    ASSUME NEW n \in Nat, NEW R, StrictOrder(R, 1 .. n)
    PROVE  \E f \in [1 .. n -> 1 .. n] :
              \A i, j \in 1 .. n : i < j => <<f[i], f[j]>> \in R
<1>. DEFINE g == Place(R, 1 .. n)
            f == [i \in 1 .. n |-> CHOOSE x \in 1 .. n : g[x] = i]
<1>0. IsFiniteSet(1 .. n) /\ Cardinality(1 .. n) = n
  BY FS_Interval
<1>1. g \in Bijection(1 .. n, 1 .. n)
  BY <1>0, PlacesAreNumbers
<1>2. \A i \in 1 .. n : \E x \in 1 .. n : g[x] = i
  BY <1>1 DEF Bijection, Surjection
<1>3. \A i \in 1 .. n : f[i] \in 1 .. n /\ g[f[i]] = i
  BY <1>2
<1>4. ASSUME NEW i \in 1 .. n, NEW j \in 1 .. n, i < j
      PROVE  <<f[i], f[j]>> \in R
  <2>. DEFINE x == f[i]
              y == f[j]
  <2>1. x \in 1 .. n /\ y \in 1 .. n /\ g[x] = i /\ g[y] = j
    BY <1>3
  <2>. HIDE DEF f, g
  <2>2. <<y, x>> \in R => g[y] < g[x]
    BY <1>0, <2>1, PlacesInOrder DEF g
  <2>3. <<x, y>> \in R \/ <<y, x>> \in R
    <3>1. x # y
      BY <1>4, <2>1
    <3>. HIDE DEF x, y
    <3>. QED
      BY <2>1, <3>1 DEF StrictOrder
  <2>. QED
    BY <1>4, <2>1, <2>2, <2>3
<1>5. f \in [1 .. n -> 1 .. n]
  BY <1>3
<1>. QED
  BY <1>4, <1>5

\* In a sequence in strict order every element stands at its place.
LEMMA SortedPlaces ==
    ASSUME NEW S, NEW R, StrictOrder(R, S), NEW n, NEW s, Sorted(s, n, R, S)
    PROVE  /\ IsFiniteSet(S) /\ Cardinality(S) = n
           /\ \A i \in 1 .. n : Place(R, S)[s[i]] = i
<1>. USE DEF Sorted
<1>1. \A i, j \in 1 .. n : <<s[i], s[j]>> \in R <=> i < j
  <2>. SUFFICES ASSUME NEW i \in 1 .. n, NEW j \in 1 .. n, <<s[i], s[j]>> \in R, ~(i < j)
                PROVE  FALSE
    OBVIOUS
  <2>1. CASE i = j
    BY <2>1 DEF StrictOrder
  <2>2. CASE j < i
    <3>1. <<s[j], s[i]>> \in R /\ s[i] \in S /\ s[j] \in S
      BY <2>2
    <3>2. <<s[i], s[i]>> \in R
      BY <3>1 DEF StrictOrder, IsTransitivelyClosedOn
    <3>. QED
      BY <3>1, <3>2 DEF StrictOrder
  <2>. QED
    BY <2>1, <2>2
<1>2. \A i, j \in 1 .. n : s[i] = s[j] => i = j
  <2>. SUFFICES ASSUME NEW i \in 1 .. n, NEW j \in 1 .. n, s[i] = s[j], i # j PROVE FALSE
    OBVIOUS
  <2>1. <<s[i], s[j]>> \in R \/ <<s[j], s[i]>> \in R
    OBVIOUS
  <2>. QED
    BY <2>1 DEF StrictOrder
<1>3. ASSUME NEW T \in SUBSET S, NEW m \in 0 .. n,
             \A k \in 1 .. n : s[k] \in T <=> k <= m
      PROVE  IsFiniteSet(T) /\ Cardinality(T) = m
  <2>. DEFINE g == [k \in 1 .. m |-> s[k]]
  <2>1. g \in [1 .. m -> T] /\ \A i, j \in 1 .. m : g[i] = g[j] => i = j
    BY <1>2, <1>3
  <2>2. \A x \in T : \E k \in 1 .. m : g[k] = x
    BY <1>3
  <2>3. g \in Bijection(1 .. m, T)
    BY <2>1, <2>2, Fun_IsBij
  <2>4. ExistsBijection(1 .. m, T)
    BY <2>3 DEF ExistsBijection
  <2>5. m \in Nat
    OBVIOUS
  <2>. QED
    BY <2>4, <2>5, FS_CountingElements, FS_NatBijection
<1>4. IsFiniteSet(S) /\ Cardinality(S) = n
  BY <1>3
<1>5. ASSUME NEW i \in 1 .. n PROVE Place(R, S)[s[i]] = i
  <2>. DEFINE T == SetLessThan(s[i], R, S)
  <2>1. T \in SUBSET S
    BY DEF SetLessThan
  <2>2. \A k \in 1 .. n : s[k] \in T <=> k <= i - 1
    BY <1>1 DEF SetLessThan
  <2>3. i - 1 \in 0 .. n
    OBVIOUS
  <2>. HIDE DEF T
  <2>4. Cardinality(T) = i - 1
    BY <1>3, <2>1, <2>2, <2>3
  <2>. QED
    BY <2>4 DEF Place, T
<1>. QED
  BY <1>4, <1>5

\* A set has one sequence in strict order.
LEMMA SortingUnique ==
    ASSUME NEW S, NEW R, StrictOrder(R, S),
           NEW n, NEW s, Sorted(s, n, R, S), NEW m, NEW t, Sorted(t, m, R, S)
    PROVE  m = n /\ t = s
<1>1. /\ IsFiniteSet(S) /\ Cardinality(S) = n
      /\ \A i \in 1 .. n : Place(R, S)[s[i]] = i
  BY SortedPlaces
<1>2. Cardinality(S) = m /\ \A i \in 1 .. m : Place(R, S)[t[i]] = i
  BY SortedPlaces
<1>3. m = n
  BY <1>1, <1>2
<1>4. Place(R, S) \in Bijection(S, 1 .. n)
  BY <1>1, PlacesAreNumbers
<1>5. \A x, y \in S : Place(R, S)[x] = Place(R, S)[y] => x = y
  BY <1>4 DEF Bijection, Injection, IsInjective
<1>6. ASSUME NEW i \in 1 .. n PROVE t[i] = s[i]
  <2>1. t[i] \in S /\ s[i] \in S
    BY <1>3 DEF Sorted
  <2>2. Place(R, S)[t[i]] = i /\ Place(R, S)[s[i]] = i
    BY <1>1, <1>2, <1>3
  <2>. QED
    BY <1>5, <2>1, <2>2
<1>. QED
  BY <1>3, <1>6 DEF Sorted
=============================================================================
