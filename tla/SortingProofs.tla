--------------------------- MODULE SortingProofs ---------------------------
(***************************************************************************)
(* A sorted list has each element of its set once, in the order of the     *)
(* relation.  No induction is needed: by counting who comes before it,     *)
(* each element has a place of its own among as many places as there are   *)
(* elements, so that no place is left empty.                               *)
(***************************************************************************)
EXTENDS Sorting, Sequences, FiniteSetTheorems, TLAPS

Place(S, R, x) == Cardinality(Before(S, R, x)) + 1

(* An element's place is among the first |S|, and after the places of      *)
(* those that come before it.                                              *)
LEMMA PlacesAscend ==
  ASSUME NEW S, IsFiniteSet(S), NEW R, Orders(R, S)
  PROVE  /\ Cardinality(S) \in Nat
         /\ \A x \in S : Place(S, R, x) \in 1..Cardinality(S)
         /\ \A x, y \in S : <<x, y>> \in R => Place(S, R, x) < Place(S, R, y)
<1>1. \A x \in S : /\ Before(S, R, x) \in SUBSET S
                   /\ IsFiniteSet(Before(S, R, x))
                   /\ x \notin Before(S, R, x)
  <2> TAKE x \in S
  <2>1. Before(S, R, x) \in SUBSET S /\ x \notin Before(S, R, x)
    BY DEF Before, Orders
  <2>2. QED
    BY <2>1, FS_Subset
<1>2. \A x \in S : Cardinality(Before(S, R, x)) \in Nat
  BY <1>1, FS_CardinalityType
<1>3. Cardinality(S) \in Nat
  BY FS_CardinalityType
<1>4. \A x \in S : Place(S, R, x) \in 1..Cardinality(S)
  <2> TAKE x \in S
  <2>1. Cardinality(Before(S, R, x)) <= Cardinality(S)
    BY <1>1, FS_Subset
  <2>2. Cardinality(Before(S, R, x)) # Cardinality(S)
    BY <1>1, FS_Subset
  <2>3. QED
    BY <1>2, <1>3, <2>1, <2>2 DEF Place
<1>5. ASSUME NEW x \in S, NEW y \in S, <<x, y>> \in R
      PROVE  Place(S, R, x) < Place(S, R, y)
  <2>1. Before(S, R, x) \in SUBSET Before(S, R, y)
    BY <1>5 DEF Before, Orders
  <2>2. x \in Before(S, R, y)
    BY <1>5 DEF Before
  <2>3. Before(S, R, x) # Before(S, R, y)
    BY <1>1, <2>2
  <2>4. /\ Cardinality(Before(S, R, x)) <= Cardinality(Before(S, R, y))
        /\ Cardinality(Before(S, R, x)) # Cardinality(Before(S, R, y))
    BY <1>1, <2>1, <2>3, FS_Subset
  <2>5. QED
    BY <1>2, <2>4 DEF Place
<1>6. QED
  BY <1>3, <1>4, <1>5

(* Every place is taken.                                                   *)
LEMMA EveryPlaceTaken ==
  ASSUME NEW S, IsFiniteSet(S), NEW R, Orders(R, S)
  PROVE  \A n \in 1..Cardinality(S) : \E x \in S : Place(S, R, x) = n
<1> DEFINE N == Cardinality(S)
           place == [x \in S |-> Place(S, R, x)]
<1>1. N \in Nat /\ place \in [S -> 1..N]
  BY PlacesAscend
<1>2. ASSUME NEW x \in S, NEW y \in S, x # y
      PROVE  place[x] # place[y]
  <2>1. <<x, y>> \in R \/ <<y, x>> \in R
    BY <1>2 DEF Orders
  <2>2. Place(S, R, x) < Place(S, R, y) \/ Place(S, R, y) < Place(S, R, x)
    BY <2>1, PlacesAscend
  <2>3. Place(S, R, x) \in Int /\ Place(S, R, y) \in Int
    BY PlacesAscend
  <2>4. QED
    BY <2>2, <2>3
<1>3. place \in Injection(S, 1..N)
  BY <1>1, <1>2 DEF Injection, IsInjective
<1>4. IsFiniteSet(1..N) /\ Cardinality(1..N) = N
  BY <1>1, FS_Interval
<1>5. place \in Surjection(S, 1..N)
  BY <1>3, <1>4, FS_Injection
<1>6. QED
  BY <1>5 DEF Surjection

(* Each element of a sorted list is at its own place.                      *)
LEMMA ElementAtPlace ==
  ASSUME NEW S, IsFiniteSet(S), NEW R, Orders(R, S)
  PROVE  /\ Cardinality(S) \in Nat
         /\ Sorted(S, R) \in [1..Cardinality(S) -> S]
         /\ \A n \in 1..Cardinality(S) : Place(S, R, Sorted(S, R)[n]) = n
         /\ \A x \in S : /\ Place(S, R, x) \in 1..Cardinality(S)
                         /\ Sorted(S, R)[Place(S, R, x)] = x
<1> DEFINE N == Cardinality(S)
           list == Sorted(S, R)
<1>1. N \in Nat
  BY FS_CardinalityType
<1>2. \A n \in 1..N : \E x \in S : Cardinality(Before(S, R, x)) = n - 1
  <2> TAKE n \in 1..N
  <2>1. PICK x \in S : Place(S, R, x) = n
    BY EveryPlaceTaken
  <2>2. Cardinality(Before(S, R, x)) \in Nat
    <3>1. Before(S, R, x) \in SUBSET S
      BY DEF Before
    <3>2. IsFiniteSet(Before(S, R, x))
      BY <3>1, FS_Subset
    <3>3. QED
      BY <3>2, FS_CardinalityType
  <2>3. QED
    BY <2>1, <2>2 DEF Place
<1>3. \A n \in 1..N : list[n] \in S /\ Place(S, R, list[n]) = n
  <2> TAKE n \in 1..N
  <2>1. list[n] = CHOOSE x \in S : Cardinality(Before(S, R, x)) = n - 1
    BY DEF Sorted
  <2>2. list[n] \in S /\ Cardinality(Before(S, R, list[n])) = n - 1
    BY <1>2, <2>1
  <2>3. QED
    BY <2>2 DEF Place
<1>4. list \in [1..N -> S]
  BY <1>3 DEF Sorted
<1>5. \A x, y \in S : Place(S, R, x) = Place(S, R, y) => x = y
  <2> TAKE x, y \in S
  <2>1. x # y => <<x, y>> \in R \/ <<y, x>> \in R
    BY DEF Orders
  <2>2. Place(S, R, x) \in Int /\ Place(S, R, y) \in Int
    BY PlacesAscend
  <2>3. QED
    BY <2>1, <2>2, PlacesAscend
<1>6. \A x \in S : Place(S, R, x) \in 1..N /\ list[Place(S, R, x)] = x
  <2> TAKE x \in S
  <2>1. Place(S, R, x) \in 1..N
    BY PlacesAscend
  <2>2. QED
    BY <1>3, <1>5, <2>1
<1>7. QED
  BY <1>1, <1>3, <1>4, <1>6

(* What Sorted returns: each element once, in the order of the relation.   *)
THEOREM SortedElements ==
  ASSUME NEW S, IsFiniteSet(S), NEW R, Orders(R, S)
  PROVE  /\ Cardinality(S) \in Nat
         /\ Sorted(S, R) \in [1..Cardinality(S) -> S]
         /\ \A x \in S : \E n \in 1..Cardinality(S) : Sorted(S, R)[n] = x
         /\ \A m, n \in 1..Cardinality(S) : m < n <=> <<Sorted(S, R)[m], Sorted(S, R)[n]>> \in R
<1> DEFINE N == Cardinality(S)
           list == Sorted(S, R)
<1>1. /\ N \in Nat /\ list \in [1..N -> S]
      /\ \A n \in 1..N : list[n] \in S /\ Place(S, R, list[n]) = n
      /\ \A x \in S : Place(S, R, x) \in 1..N /\ list[Place(S, R, x)] = x
  BY ElementAtPlace
<1>2. \A x \in S : \E n \in 1..N : list[n] = x
  BY <1>1
<1>3. \A m, n \in 1..N : m < n <=> <<list[m], list[n]>> \in R
  <2> TAKE m, n \in 1..N
  <2>1. <<list[m], list[n]>> \in R => m < n
    BY <1>1, PlacesAscend
  <2>2. <<list[n], list[m]>> \in R => n < m
    BY <1>1, PlacesAscend
  <2>3. list[m] = list[n] => m = n
    BY <1>1
  <2>4. list[m] # list[n] => <<list[m], list[n]>> \in R \/ <<list[n], list[m]>> \in R
    BY <1>1 DEF Orders
  <2>5. m \in Int /\ n \in Int
    OBVIOUS
  <2>6. QED
    BY <2>1, <2>2, <2>3, <2>4, <2>5
<1>4. QED
  BY <1>1, <1>2, <1>3

(* Numbers are sorted by their size.                                       *)
THEOREM AscendingElements ==
  ASSUME NEW S \in SUBSET Int, IsFiniteSet(S)
  PROVE  /\ Cardinality(S) \in Nat
         /\ Ascending(S) \in [1..Cardinality(S) -> S]
         /\ \A x \in S : \E n \in 1..Cardinality(S) : Ascending(S)[n] = x
         /\ \A m, n \in 1..Cardinality(S) : m < n <=> Ascending(S)[m] < Ascending(S)[n]
<1> DEFINE R == {p \in S \X S : p[1] < p[2]}
<1>1. \A x, y \in S : <<x, y>> \in R <=> x < y
  OBVIOUS
<1>2. S \subseteq Int
  OBVIOUS
<1>3. Ascending(S) = Sorted(S, R)
  BY DEF Ascending
<1> HIDE DEF R
<1>4. Orders(R, S)
  BY <1>1, <1>2 DEF Orders
<1>5. /\ Cardinality(S) \in Nat
      /\ Sorted(S, R) \in [1..Cardinality(S) -> S]
      /\ \A x \in S : \E n \in 1..Cardinality(S) : Sorted(S, R)[n] = x
      /\ \A m, n \in 1..Cardinality(S) : m < n <=> <<Sorted(S, R)[m], Sorted(S, R)[n]>> \in R
  BY <1>4, SortedElements
<1>6. \A m, n \in 1..Cardinality(S) : <<Sorted(S, R)[m], Sorted(S, R)[n]>> \in R <=> Sorted(S, R)[m] < Sorted(S, R)[n]
  BY <1>1, <1>5
<1>7. QED
  BY <1>3, <1>5, <1>6

(* A finite set of numbers has a greatest one: the last when sorted.       *)
THEOREM HasGreatest ==
  ASSUME NEW S \in SUBSET Int, IsFiniteSet(S), S # {}
  PROVE  \E m \in S : \A x \in S : x <= m
<1> DEFINE N == Cardinality(S)
           list == Ascending(S)
<1>1. /\ N \in Nat /\ list \in [1..N -> S]
      /\ \A x \in S : \E n \in 1..N : list[n] = x
      /\ \A m, n \in 1..N : m < n <=> list[m] < list[n]
  BY AscendingElements
<1> HIDE DEF N, list
<1>2. N \in 1..N
  <2>1. PICK x \in S : TRUE
    OBVIOUS
  <2>2. PICK n \in 1..N : list[n] = x
    BY <1>1, <2>1
  <2>3. QED
    BY <1>1, <2>2
<1>3. ASSUME NEW x \in S
      PROVE  x <= list[N]
  <2>1. PICK n \in 1..N : list[n] = x
    BY <1>1
  <2>2. n < N => x < list[N]
    BY <1>1, <1>2, <2>1
  <2>3. x \in Int /\ list[N] \in Int
    BY <1>1, <1>2
  <2>4. n = N \/ n < N
    BY <1>1
  <2>5. QED
    BY <2>1, <2>2, <2>3, <2>4
<1>4. QED
  BY <1>1, <1>2, <1>3

(* A list of numbers that gets a greater one has it at its end.            *)
THEOREM AscendingGrows ==
  ASSUME NEW S \in SUBSET Int, IsFiniteSet(S), NEW m \in Int, \A x \in S : x < m
  PROVE  /\ Ascending(S) \in Seq(S)
         /\ Ascending(S \cup {m}) = Append(Ascending(S), m)
<1> DEFINE T == S \cup {m}
           N == Cardinality(S)
           Q == {p \in S \X S : p[1] < p[2]}
           R == {p \in T \X T : p[1] < p[2]}
<1>1. \A x \in S : x \in Int /\ x # m /\ x < m /\ ~(m < x)
  OBVIOUS
<1>2. (\A x, y \in S : <<x, y>> \in Q <=> x < y) /\ (\A x, y \in T : <<x, y>> \in R <=> x < y)
  OBVIOUS
<1>3. IsFiniteSet(T) /\ Cardinality(T) = N + 1
  BY <1>1, FS_AddElement
<1>4. Ascending(S) = Sorted(S, Q) /\ Ascending(T) = Sorted(T, R)
  BY DEF Ascending
<1>5. \A x \in T : x \in Int
  OBVIOUS
<1>6. \A x \in S : x \in T
  OBVIOUS
<1>7. m \in T /\ \A x \in T : x = m \/ x \in S
  OBVIOUS
<1> HIDE DEF T, Q, R
<1>8. Orders(Q, S) /\ Orders(R, T)
  BY <1>1, <1>2, <1>5 DEF Orders
<1>9. \A x \in S : Before(T, R, x) = Before(S, Q, x)
  BY <1>1, <1>2, <1>6, <1>7 DEF Before
<1>10. Before(T, R, m) = S
  <2>1. \A y \in T : <<y, m>> \in R <=> y < m
    BY <1>2, <1>7
  <2>2. ~(m < m)
    OBVIOUS
  <2>3. QED
    BY <1>1, <1>6, <1>7, <2>1, <2>2 DEF Before
<1>11. Place(T, R, m) = N + 1 /\ \A x \in S : Place(T, R, x) = Place(S, Q, x)
  BY <1>9, <1>10 DEF Place
<1>12. /\ N \in Nat /\ Sorted(S, Q) \in [1..N -> S]
       /\ \A n \in 1..N : Place(S, Q, Sorted(S, Q)[n]) = n
  BY <1>8, ElementAtPlace
<1>13. /\ Sorted(T, R) \in [1..(N + 1) -> T]
       /\ \A x \in T : Sorted(T, R)[Place(T, R, x)] = x
  BY <1>3, <1>8, ElementAtPlace
<1> HIDE DEF N
<1>14. \A n \in 1..N : Sorted(T, R)[n] = Sorted(S, Q)[n]
  BY <1>6, <1>11, <1>12, <1>13
<1>15. Sorted(T, R)[N + 1] = m
  BY <1>7, <1>11, <1>13
<1>16. Sorted(S, Q) \in Seq(S) /\ Len(Sorted(S, Q)) = N
  BY <1>12
<1>17. Sorted(T, R) = Append(Sorted(S, Q), m)
  <2> DEFINE a == Sorted(S, Q)
             b == Sorted(T, R)
  <2>1. a \in [1..N -> S] /\ b \in [1..(N + 1) -> T] /\ Len(a) = N /\ N \in Nat
    BY <1>12, <1>13, <1>16
  <2>2. \A n \in 1..N : b[n] = a[n]
    BY <1>14
  <2>3. b[N + 1] = m
    BY <1>15
  <2> HIDE DEF a, b
  <2>4. a \in Seq(T) /\ b \in Seq(T) /\ m \in T /\ Len(b) = N + 1
    <3>1. a \in [1..N -> T]
      BY <1>6, <2>1
    <3>2. N + 1 \in Nat
      BY <2>1
    <3>3. a \in Seq(T)
      BY <2>1, <3>1
    <3>4. b \in Seq(T) /\ Len(b) = N + 1
      BY <2>1, <3>2
    <3>5. QED
      BY <1>7, <3>3, <3>4
  <2>5. Append(a, m) \in Seq(T) /\ Len(Append(a, m)) = N + 1
        /\ \A n \in 1..(N + 1) : b[n] = Append(a, m)[n]
    BY <2>1, <2>2, <2>3, <2>4
  <2>6. b = Append(a, m)
    BY <2>4, <2>5
  <2>7. QED
    BY <2>6 DEF a, b
<1>18. QED
  BY <1>4, <1>16, <1>17 DEF T
=============================================================================
