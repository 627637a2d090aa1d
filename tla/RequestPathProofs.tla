------------------------- MODULE RequestPathProofs -------------------------
(***************************************************************************)
(* The way of a request: the order of its candidates, the loop of          *)
(* route_openai_request over them, and the stream of its answer, for any   *)
(* tiers, endpoints, keys, requests, tools and blocks.                     *)
(*                                                                         *)
(* The order: whatever its sorts and rotations do, each list is described  *)
(* by what it lists, each element once, and by what comes before what.     *)
(* The weighted round robin: weights and picks are counted unit by unit,   *)
(* so that two sums are compared by fitting one set into another, label by *)
(* label; an endpoint's weight is what it gained less what it paid.        *)
(* The loop: what lies behind a request would not have served it, and      *)
(* never will, since its copy of the configuration does not change and a   *)
(* key that was unusable once does not count as spared again; and the cap  *)
(* on attempts is too high to end the loop before the last candidate.      *)
(* The stream: each event is judged when it is appended.  What was sent    *)
(* before it is described by counts: the numbers used so far, the blocks   *)
(* that are open, the tool sent last, the text so far.                     *)
(***************************************************************************)
EXTENDS Router, CandidateOrder, StreamTranslator, SortingProofs, SequenceTheorems

-----------------------------------------------------------------------------
(* The order of candidates.  A sequence lists a set if it has each of its  *)
(* elements once; what comes before what is all the rest there is to know. *)
Lists(list, S) ==
  /\ Len(list) \in Nat
  /\ list \in [1..Len(list) -> S]
  /\ \A x \in S : \E n \in 1..Len(list) : list[n] = x
  /\ \A m, n \in 1..Len(list) : list[m] = list[n] => m = n

Leads(list, x, y) == \E m, n \in 1..Len(list) : m < n /\ list[m] = x /\ list[n] = y

(* The positions of a tier's group, in the order of the tier.              *)
LEMMA AscendingLists ==
  ASSUME NEW N \in Nat, NEW S \in SUBSET (1..N)
  PROVE  /\ Lists(Ascending(S), S)
         /\ \A i, j \in S : Leads(Ascending(S), i, j) => i < j
<1>0. IsFiniteSet(1..N)
  BY FS_Interval
<1>1. S \in SUBSET Int /\ IsFiniteSet(S)
  <2>1. S \in SUBSET Int
    OBVIOUS
  <2>2. IsFiniteSet(S)
    BY <1>0, FS_Subset
  <2>3. QED
    BY <2>1, <2>2
<1>2. /\ Cardinality(S) \in Nat
      /\ Ascending(S) \in [1..Cardinality(S) -> S]
      /\ \A x \in S : \E n \in 1..Cardinality(S) : Ascending(S)[n] = x
      /\ \A m, n \in 1..Cardinality(S) : m < n <=> Ascending(S)[m] < Ascending(S)[n]
  BY <1>1, AscendingElements
<1> DEFINE list == Ascending(S)
<1> HIDE DEF list
<1>3. list \in Seq(S) /\ Len(list) = Cardinality(S)
  <2>1. list \in [1..Cardinality(S) -> S]
    BY <1>2 DEF list
  <2>2. QED
    BY <2>1, <1>2
<1>4. \A m, n \in 1..Len(list) : list[m] \in Int /\ (m < n <=> list[m] < list[n])
  BY <1>1, <1>2, <1>3 DEF list
<1>5. \A m, n \in 1..Len(list) : list[m] = list[n] => m = n
  <2> TAKE m, n \in 1..Len(list)
  <2>1. m \in Int /\ n \in Int
    BY <1>2, <1>3
  <2>2. QED
    BY <1>4, <2>1
<1>6. Lists(list, S)
  BY <1>2, <1>3, <1>5 DEF Lists, list
<1>7. \A i, j \in S : Leads(list, i, j) => i < j
  BY <1>4 DEF Leads
<1>8. QED
  BY <1>6, <1>7 DEF list

(* A list turned round its position k, and what its n-th element was.      *)
Turned(list, k) == SubSeq(list, k, Len(list)) \o SubSeq(list, 1, k - 1)
From(N, k, n) == IF n <= N - k + 1 THEN n + k - 1 ELSE n - (N - k + 1)

(* A list turned round a position keeps its elements.                      *)
LEMMA TurnedLists ==
  ASSUME NEW list, NEW S, Lists(list, S), NEW k \in 1..Len(list),
         NEW t, t = Turned(list, k)
  PROVE  /\ Lists(t, S)
         /\ Len(t) = Len(list)
         /\ \A n \in 1..Len(list) : t[n] = list[From(Len(list), k, n)]
<1> DEFINE N == Len(list)
           back == SubSeq(list, k, N)
           front == SubSeq(list, 1, k - 1)
           from(n) == From(N, k, n)
<1>0. t = back \o front
  BY DEF Turned
<1>a. \A n \in 1..N : from(n) = IF n <= N - k + 1 THEN n + k - 1 ELSE n - (N - k + 1)
  BY DEF From
<1> HIDE DEF from
<1>1. N \in Nat /\ list \in Seq(S) /\ k \in 1..N
  BY DEF Lists
<1>2. back \in Seq(S) /\ Len(back) = N - k + 1 /\ \A n \in 1..(N - k + 1) : back[n] = list[n + k - 1]
  BY <1>1
<1>3. front \in Seq(S) /\ Len(front) = k - 1 /\ \A n \in 1..(k - 1) : front[n] = list[n]
  BY <1>1
<1>4. t \in Seq(S) /\ Len(t) = N
  <2>1. t \in Seq(S) /\ Len(t) = Len(back) + Len(front)
    BY <1>0, <1>2, <1>3
  <2>2. QED
    BY <2>1, <1>1, <1>2, <1>3
<1>5. \A n \in 1..N : t[n] = list[from(n)]
  <2> TAKE n \in 1..N
  <2>1. CASE n <= N - k + 1
    <3>1. n \in 1..Len(back)
      BY <2>1, <1>1, <1>2
    <3>2. t[n] = back[n]
      BY <3>1, <1>0, <1>2, <1>3
    <3>3. QED
      BY <3>1, <3>2, <2>1, <1>2, <1>a
  <2>2. CASE n > N - k + 1
    <3>1. n - Len(back) \in 1..Len(front) /\ n \in 1..(Len(back) + Len(front)) /\ n > Len(back)
      BY <2>2, <1>1, <1>2, <1>3
    <3>2. t[n] = front[n - Len(back)]
      BY <3>1, <1>0, <1>2, <1>3
    <3>3. QED
      BY <3>1, <3>2, <2>2, <1>1, <1>2, <1>3, <1>a
  <2>3. QED
    BY <2>1, <2>2, <1>1
<1> HIDE DEF back, front
<1>6. \A m, n \in 1..N : from(m) \in 1..N /\ (from(m) = from(n) => m = n)
  BY <1>1 DEF from, From
<1>7. \A x \in S : \E n \in 1..N : t[n] = x
  <2> TAKE x \in S
  <2>1. PICK m \in 1..N : list[m] = x
    BY DEF Lists
  <2>2. \E n \in 1..N : from(n) = m
    <3>1. CASE m >= k
      <4>1. m - k + 1 \in 1..N /\ from(m - k + 1) = m
        BY <3>1, <1>1, <1>a
      <4>2. QED
        BY <4>1
    <3>2. CASE m < k
      <4>1. m + (N - k + 1) \in 1..N /\ from(m + (N - k + 1)) = m
        BY <3>2, <1>1 DEF from, From
      <4>2. QED
        BY <4>1
    <3>3. QED
      BY <3>1, <3>2, <1>1
  <2>3. QED
    BY <2>1, <2>2, <1>5
<1>8. \A m, n \in 1..N : t[m] = t[n] => m = n
  <2> TAKE m, n \in 1..N
  <2>1. from(m) \in 1..N /\ from(n) \in 1..N
    BY <1>6
  <2>2. list[from(m)] = list[from(n)] => from(m) = from(n)
    BY <2>1 DEF Lists
  <2>3. QED
    BY <1>5, <1>6, <2>2
<1>9. Lists(t, S)
  <2>1. t \in [1..Len(t) -> S] /\ Len(t) \in Nat
    BY <1>4, LenProperties
  <2>2. QED
    BY <1>1, <1>4, <1>7, <1>8, <2>1 DEF Lists
<1>10. QED
  BY <1>4, <1>5, <1>9 DEF from

(* A position's distance from d, read cyclically.                          *)
LEMMA Distance ==
  ASSUME NEW N \in Nat, NEW d \in 1..N, NEW i \in 1..N
  PROVE  (i - d) % N = IF i >= d THEN i - d ELSE i - d + N
  OBVIOUS

(* Turned to its default entry, a group is in the order of the tier, read  *)
(* cyclically from there; without it, as it was.                           *)
LEMMA RotatedLists ==
  ASSUME NEW N \in Nat, NEW S \in SUBSET (1..N), NEW d,
         NEW g, g = RotateTo(Ascending(S), d)
  PROVE  /\ Lists(g, S)
         /\ d \notin S => \A i, j \in S : Leads(g, i, j) => i < j
         /\ d \in S => \A i, j \in S : Leads(g, i, j) => (i - d) % N < (j - d) % N
<1> DEFINE list == Ascending(S)
           here == {k \in DOMAIN list : list[k] = d}
<1>1. Lists(list, S) /\ \A i, j \in S : Leads(list, i, j) => i < j
  BY AscendingLists
<1> HIDE DEF list
<1>2. DOMAIN list = 1..Len(list)
  BY <1>1 DEF Lists
<1>3. CASE d \notin S
  <2>1. here = {}
    BY <1>1, <1>2, <1>3 DEF Lists
  <2>2. g = list
    BY <2>1 DEF RotateTo, list
  <2>3. QED
    BY <1>1, <1>3, <2>2
<1>4. CASE d \in S
  <2>1. PICK k \in 1..Len(list) : list[k] = d
    BY <1>1, <1>4 DEF Lists
  <2>2. here = {k}
    BY <1>1, <1>2, <2>1 DEF Lists
  <2>3. g = SubSeq(list, k, Len(list)) \o SubSeq(list, 1, k - 1)
    BY <2>2 DEF RotateTo, list
  <2>a. /\ Lists(g, S) /\ Len(g) = Len(list)
        /\ \A n \in 1..Len(list) : g[n] = list[From(Len(list), k, n)]
    <3>1. Lists(list, S)
      BY <1>1
    <3>2. g = Turned(list, k)
      BY <2>3 DEF Turned
    <3>3. QED
      BY <3>1, <3>2, TurnedLists
  <2> DEFINE L == Len(list)
             from(n) == IF n <= L - k + 1 THEN n + k - 1 ELSE n - (L - k + 1)
  <2>4. Lists(g, S) /\ Len(g) = L /\ \A n \in 1..L : g[n] = list[from(n)]
    BY <2>a DEF From
  <2>5. L \in Nat /\ k \in 1..L
    BY <1>1 DEF Lists
  <2>6. \A m, n \in 1..L : list[m] \in 1..N /\ (m < n => list[m] < list[n])
    <3>1. Lists(list, S)
      BY <1>1
    <3>2. \A m \in 1..L : list[m] \in S
      BY <3>1 DEF Lists
    <3>3. \A m, n \in 1..L : m < n => Leads(list, list[m], list[n])
      BY DEF Leads
    <3>4. \A i, j \in S : Leads(list, i, j) => i < j
      BY <1>1
    <3> HIDE DEF L
    <3>5. QED
      BY <3>2, <3>3, <3>4
  <2> HIDE DEF L
  <2>7. ASSUME NEW i \in S, NEW j \in S, Leads(g, i, j)
        PROVE  (i - d) % N < (j - d) % N
    <3>1. PICK m \in 1..L, n \in 1..L : m < n /\ g[m] = i /\ g[n] = j
      BY <2>4, <2>7 DEF Leads
    <3>2. from(m) \in 1..L /\ from(n) \in 1..L
      BY <2>5
    <3>3. i = list[from(m)] /\ j = list[from(n)]
      BY <2>4, <3>1
    <3>4. d \in 1..N /\ i \in 1..N /\ j \in 1..N
      BY <1>4
    <3>a. /\ (i - d) % N = IF i >= d THEN i - d ELSE i - d + N
          /\ (j - d) % N = IF j >= d THEN j - d ELSE j - d + N
      BY <3>4, Distance
    <3>5. CASE n <= L - k + 1
      <4>1. /\ from(m) < from(n) /\ from(m) >= k /\ from(n) > k
        BY <2>5, <3>1, <3>5
      <4> HIDE DEF from
      <4>2. i < j
        BY <2>6, <3>2, <3>3, <4>1
      <4>a. k \in 1..L /\ list[k] = d
        BY <2>1, <2>5
      <4>b. j > d
        BY <2>6, <3>2, <3>3, <4>1, <4>a
      <4>c. from(m) = k \/ k < from(m)
        BY <2>5, <3>2, <4>1
      <4>d. i = d \/ i > d
        BY <2>6, <3>2, <3>3, <4>a, <4>c
      <4>e. i >= d /\ j >= d
        BY <3>4, <4>b, <4>d
      <4>3. QED
        BY <3>4, <3>a, <4>2, <4>e
    <3>6. CASE m <= L - k + 1 /\ n > L - k + 1
      <4>1. from(m) >= k /\ from(n) < k
        BY <2>5, <3>1, <3>6
      <4> HIDE DEF from
      <4>2. i >= d /\ j < d
        BY <2>1, <2>5, <2>6, <3>2, <3>3, <3>4, <4>1
      <4>3. QED
        BY <3>4, <3>a, <4>2
    <3>7. CASE m > L - k + 1
      <4>1. from(m) < from(n) /\ from(m) < k /\ from(n) < k
        BY <2>5, <3>1, <3>7
      <4> HIDE DEF from
      <4>2. i < j
        BY <2>6, <3>2, <3>3, <4>1
      <4>3. j < d
        BY <2>1, <2>5, <2>6, <3>2, <3>3, <4>1
      <4>4. i < d
        BY <3>4, <4>2, <4>3
      <4>5. QED
        BY <3>4, <3>a, <4>2, <4>3, <4>4
    <3>8. QED
      BY <2>5, <3>5, <3>6, <3>7
  <2>8. QED
    BY <1>4, <2>4, <2>7
<1>5. QED
  BY <1>3, <1>4

(* Sorted by weight a group keeps its elements, and those of one weight    *)
(* their order.                                                            *)
LEMMA HeaviestFirstLists ==
  ASSUME NEW tr, NEW S, NEW g, Lists(g, S),
         \A i \in S : Weight(tr, i) \in Int,
         NEW h, h = HeaviestFirst(tr, g)
  PROVE  /\ Lists(h, S)
         /\ \A i, j \in S : Leads(h, i, j) =>
              \/ Weight(tr, i) > Weight(tr, j)
              \/ Weight(tr, i) = Weight(tr, j) /\ Leads(g, i, j)
<1> DEFINE L == Len(g)
           w(k) == Weight(tr, g[k])
           Heavier(j, k) == w(j) > w(k) \/ (w(j) = w(k) /\ j < k)
           R == {p \in (DOMAIN g) \X (DOMAIN g) : Heavier(p[1], p[2])}
           perm == Sorted(DOMAIN g, R)
<1>1. L \in Nat /\ DOMAIN g = 1..L /\ \A k \in 1..L : g[k] \in S /\ w(k) \in Int
  BY DEF Lists
<1>2. h = [n \in 1..L |-> g[perm[n]]]
  BY <1>1 DEF HeaviestFirst
<1>3. \A j, k \in 1..L : <<j, k>> \in R <=> Heavier(j, k)
  BY <1>1
<1>4. \A k \in 1..L : k \in Int /\ w(k) \in Int
  BY <1>1
<1> HIDE DEF w, R
<1>5. Orders(R, 1..L)
  BY <1>3, <1>4 DEF Orders
<1>6. IsFiniteSet(1..L) /\ Cardinality(1..L) = L
  BY <1>1, FS_Interval
<1>7. /\ perm \in [1..L -> 1..L]
      /\ \A k \in 1..L : \E n \in 1..L : perm[n] = k
      /\ \A m, n \in 1..L : m < n <=> <<perm[m], perm[n]>> \in R
  <2>1. perm = Sorted(1..L, R)
    BY <1>1
  <2> HIDE DEF perm
  <2>2. /\ Sorted(1..L, R) \in [1..Cardinality(1..L) -> 1..L]
        /\ \A k \in 1..L : \E n \in 1..Cardinality(1..L) : Sorted(1..L, R)[n] = k
        /\ \A m, n \in 1..Cardinality(1..L) : m < n <=> <<Sorted(1..L, R)[m], Sorted(1..L, R)[n]>> \in R
    BY <1>5, <1>6, SortedElements
  <2>3. QED
    BY <1>6, <2>1, <2>2
<1> HIDE DEF perm
<1>8. h \in [1..L -> S] /\ h \in Seq(S) /\ Len(h) = L
  <2>1. h \in [1..L -> S]
    BY <1>1, <1>2, <1>7
  <2>2. QED
    BY <1>1, <2>1
<1>9. \A x \in S : \E n \in 1..L : h[n] = x
  <2> TAKE x \in S
  <2>1. PICK k \in 1..L : g[k] = x
    BY DEF Lists
  <2>2. PICK n \in 1..L : perm[n] = k
    BY <1>7
  <2>3. QED
    BY <1>2, <2>1, <2>2
<1>10. ASSUME NEW m \in 1..L, NEW n \in 1..L, h[m] = h[n]
       PROVE  m = n
  <2>1. perm[m] \in 1..L /\ perm[n] \in 1..L
    BY <1>7
  <2>2. perm[m] = perm[n]
    BY <1>2, <1>10, <2>1 DEF Lists
  <2>3. <<perm[m], perm[n]>> \notin R /\ <<perm[n], perm[m]>> \notin R
    BY <1>5, <2>1, <2>2 DEF Orders
  <2>4. ~(m < n) /\ ~(n < m)
    BY <1>7, <2>3
  <2>5. QED
    BY <2>4
<1>11. Lists(h, S)
  BY <1>1, <1>8, <1>9, <1>10 DEF Lists
<1>12. ASSUME NEW i \in S, NEW j \in S, Leads(h, i, j)
       PROVE  \/ Weight(tr, i) > Weight(tr, j)
              \/ Weight(tr, i) = Weight(tr, j) /\ Leads(g, i, j)
  <2>1. PICK m \in 1..L, n \in 1..L : m < n /\ h[m] = i /\ h[n] = j
    BY <1>8, <1>12 DEF Leads
  <2>2. perm[m] \in 1..L /\ perm[n] \in 1..L /\ Heavier(perm[m], perm[n])
    BY <1>3, <1>7, <2>1
  <2>3. g[perm[m]] = i /\ g[perm[n]] = j
    BY <1>2, <2>1
  <2>4. CASE w(perm[m]) > w(perm[n])
    BY <2>3, <2>4 DEF w
  <2>5. CASE w(perm[m]) = w(perm[n]) /\ perm[m] < perm[n]
    BY <2>2, <2>3, <2>5 DEF w, Leads
  <2>6. QED
    BY <2>2, <2>4, <2>5
<1>13. QED
  BY <1>11, <1>12

(* One list after another.                                                 *)
LEMMA ConcatLists ==
  ASSUME NEW list, NEW S, Lists(list, S), NEW t, NEW T, Lists(t, T), S \cap T = {}
  PROVE  /\ Lists(list \o t, S \cup T)
         /\ \A x, y \in S \cup T : Leads(list \o t, x, y) =>
              \/ x \in S /\ y \in S /\ Leads(list, x, y)
              \/ x \in T /\ y \in T /\ Leads(t, x, y)
              \/ x \in S /\ y \in T
<1> DEFINE A == Len(list)
           B == Len(t)
           c == list \o t
<1>1. A \in Nat /\ B \in Nat /\ list \in Seq(S) /\ t \in Seq(T)
  BY DEF Lists
<1>2. list \in Seq(S \cup T) /\ t \in Seq(S \cup T)
  BY <1>1
<1>3. /\ c \in Seq(S \cup T) /\ Len(c) = A + B
      /\ \A n \in 1..A : c[n] = list[n]
      /\ \A n \in (A + 1)..(A + B) : c[n] = t[n - A]
  <2>1. c \in Seq(S \cup T) /\ Len(c) = A + B
    BY <1>2
  <2>2. \A n \in 1..(A + B) : c[n] = IF n <= A THEN list[n] ELSE t[n - A]
    BY <1>2, ConcatProperties
  <2>3. QED
    BY <1>1, <2>1, <2>2
<1> HIDE DEF c
<1>4. \A n \in 1..A : c[n] \in S /\ c[n] \notin T
  BY <1>3 DEF Lists
<1>5. \A n \in (A + 1)..(A + B) : n - A \in 1..B /\ c[n] \in T /\ c[n] \notin S
  <2> TAKE n \in (A + 1)..(A + B)
  <2>1. n - A \in 1..B
    BY <1>1
  <2>2. t[n - A] \in T
    BY <2>1 DEF Lists
  <2>3. QED
    BY <1>3, <2>1, <2>2
<1>6. \A n \in 1..(A + B) : n \in 1..A \/ n \in (A + 1)..(A + B)
  BY <1>1
<1>7. \A x \in S \cup T : \E n \in 1..(A + B) : c[n] = x
  <2> TAKE x \in S \cup T
  <2>1. CASE x \in S
    <3>1. PICK n \in 1..A : list[n] = x
      BY <2>1 DEF Lists
    <3>2. QED
      BY <1>1, <1>3, <3>1
  <2>2. CASE x \in T
    <3>1. PICK n \in 1..B : t[n] = x
      BY <2>2 DEF Lists
    <3>2. n + A \in (A + 1)..(A + B) /\ n + A - A = n
      BY <1>1
    <3>3. c[n + A] = x
      BY <1>3, <3>1, <3>2
    <3>4. QED
      BY <1>1, <3>2, <3>3
  <2>3. QED
    BY <2>1, <2>2
<1>8. ASSUME NEW m \in 1..(A + B), NEW n \in 1..(A + B)
      PROVE  /\ c[m] = c[n] => m = n
             /\ m < n => \/ c[m] \in S /\ c[n] \in S /\ Leads(list, c[m], c[n])
                         \/ c[m] \in T /\ c[n] \in T /\ Leads(t, c[m], c[n])
                         \/ c[m] \in S /\ c[n] \in T
  <2>0. m \in Int /\ n \in Int
    OBVIOUS
  <2>1. CASE m \in 1..A /\ n \in 1..A
    BY <1>3, <1>4, <2>1 DEF Lists, Leads
  <2>2. CASE m \in 1..A /\ n \in (A + 1)..(A + B)
    BY <1>4, <1>5, <2>2
  <2>3. CASE m \in (A + 1)..(A + B) /\ n \in 1..A
    <3>1. ~(m < n)
      BY <1>1, <2>3
    <3>2. QED
      BY <1>4, <1>5, <2>3, <3>1
  <2>4. CASE m \in (A + 1)..(A + B) /\ n \in (A + 1)..(A + B)
    <3>1. m - A \in 1..B /\ n - A \in 1..B /\ c[m] = t[m - A] /\ c[n] = t[n - A]
      BY <1>3, <1>5, <2>4
    <3>2. c[m] = c[n] => m - A = n - A
      BY <3>1 DEF Lists
    <3>3. m < n => m - A < n - A
      BY <1>1, <2>0
    <3>4. m < n => Leads(t, c[m], c[n])
      BY <3>1, <3>3 DEF Leads
    <3>5. QED
      BY <1>1, <1>5, <2>0, <2>4, <3>2, <3>4
  <2>5. QED
    BY <1>6, <2>1, <2>2, <2>3, <2>4
<1>9. Lists(c, S \cup T)
  <2>1. c \in [1..Len(c) -> S \cup T] /\ Len(c) \in Nat
    BY <1>3, LenProperties
  <2>2. QED
    BY <1>3, <1>7, <1>8, <2>1 DEF Lists
<1>10. \A x, y \in S \cup T : Leads(c, x, y) =>
         \/ x \in S /\ y \in S /\ Leads(list, x, y)
         \/ x \in T /\ y \in T /\ Leads(t, x, y)
         \/ x \in S /\ y \in T
  <2> TAKE x, y \in S \cup T
  <2> HAVE Leads(c, x, y)
  <2>1. PICK m \in 1..(A + B), n \in 1..(A + B) : m < n /\ c[m] = x /\ c[n] = y
    BY <1>3 DEF Leads
  <2>2. QED
    BY <1>8, <2>1
<1>11. QED
  BY <1>9, <1>10 DEF c

-----------------------------------------------------------------------------
(* The three groups share out the positions of a tier.                     *)
LEMMA GroupsApart ==
  ASSUME NEW tr, NEW C, NEW G
  PROVE  LET h == Healthy(tr, C, G)
             d == Deprioritized(tr, C, G)
             u == Unhealthy(tr, C)
         IN  /\ h \cap d = {} /\ (h \cup d) \cap u = {}
             /\ (h \cup d) \cup u = Positions(tr)
  BY DEF Healthy, Deprioritized, Unhealthy

(* A group in its order: by weight, then cyclically from its default.      *)
LEMMA ArrangedLists ==
  ASSUME NEW tr, Len(tr.entries) \in Nat, \A i \in Positions(tr) : Weight(tr, i) \in Int,
         NEW S \in SUBSET Positions(tr)
  PROVE  /\ Lists(Arranged(tr, S), S)
         /\ \A i, j \in S : Leads(Arranged(tr, S), i, j) =>
              \/ Weight(tr, i) > Weight(tr, j)
              \/ /\ Weight(tr, i) = Weight(tr, j)
                 /\ IF tr.default \in S
                    THEN (i - tr.default) % Len(tr.entries) < (j - tr.default) % Len(tr.entries)
                    ELSE i < j
<1> DEFINE N == Len(tr.entries)
           d == tr.default
           g == RotateTo(Ascending(S), d)
<1>1. N \in Nat /\ S \in SUBSET (1..N)
  BY DEF Positions
<1> HIDE DEF N
<1>2. /\ Lists(g, S)
      /\ d \notin S => \A i, j \in S : Leads(g, i, j) => i < j
      /\ d \in S => \A i, j \in S : Leads(g, i, j) => (i - d) % N < (j - d) % N
  BY <1>1, RotatedLists
<1>3. Arranged(tr, S) = HeaviestFirst(tr, g)
  BY DEF Arranged
<1> HIDE DEF g, d
<1>4. /\ Lists(Arranged(tr, S), S)
      /\ \A i, j \in S : Leads(Arranged(tr, S), i, j) =>
           \/ Weight(tr, i) > Weight(tr, j)
           \/ Weight(tr, i) = Weight(tr, j) /\ Leads(g, i, j)
  <2>1. \A i \in S : Weight(tr, i) \in Int
    OBVIOUS
  <2>2. QED
    BY <1>2, <1>3, <2>1, HeaviestFirstLists
<1>5. QED
  BY <1>2, <1>4 DEF N, d

(* The candidates are the entries of the tier, each once: the healthy      *)
(* group, the deprioritized one, the cooling ones (candidates_ordered).    *)
LEMMA OrderedLists ==
  ASSUME NEW tr, Len(tr.entries) \in Nat, \A i \in Positions(tr) : Weight(tr, i) \in Int,
         NEW C, NEW G
  PROVE  LET o == Ordered(tr, C, G)
             h == Healthy(tr, C, G)
             d == Deprioritized(tr, C, G)
             u == Unhealthy(tr, C)
         IN  /\ Lists(o, Positions(tr))
             /\ \A i, j \in Positions(tr) : Leads(o, i, j) =>
                  \/ i \in h /\ j \in h /\ Leads(Arranged(tr, h), i, j)
                  \/ i \in d /\ j \in d /\ Leads(Arranged(tr, d), i, j)
                  \/ i \in u /\ j \in u
                  \/ i \in h /\ j \in d
                  \/ i \in h \cup d /\ j \in u
<1> DEFINE o == Ordered(tr, C, G)
           h == Healthy(tr, C, G)
           d == Deprioritized(tr, C, G)
           u == Unhealthy(tr, C)
           hd == Arranged(tr, h) \o Arranged(tr, d)
<1>1. /\ h \cap d = {} /\ (h \cup d) \cap u = {}
      /\ (h \cup d) \cup u = Positions(tr)
  BY GroupsApart
<1>2. o = hd \o Ascending(u)
  BY DEF Ordered
<1> HIDE DEF o, h, d, u
<1>3. h \in SUBSET Positions(tr) /\ d \in SUBSET Positions(tr) /\ u \in SUBSET Positions(tr)
  BY <1>1
<1>4. Lists(Arranged(tr, h), h) /\ Lists(Arranged(tr, d), d)
  BY <1>3, ArrangedLists
<1>5. Lists(Ascending(u), u)
  <2>1. u \in SUBSET (1..Len(tr.entries))
    BY <1>3 DEF Positions
  <2>2. QED
    BY <2>1, AscendingLists
<1>6. /\ Lists(hd, h \cup d)
      /\ \A x, y \in h \cup d : Leads(hd, x, y) =>
           \/ x \in h /\ y \in h /\ Leads(Arranged(tr, h), x, y)
           \/ x \in d /\ y \in d /\ Leads(Arranged(tr, d), x, y)
           \/ x \in h /\ y \in d
  BY <1>1, <1>4, ConcatLists
<1> HIDE DEF hd
<1> DEFINE front == h \cup d
           back == Ascending(u)
<1>7. /\ Lists(hd \o back, front \cup u)
      /\ \A x, y \in front \cup u : Leads(hd \o back, x, y) =>
           \/ x \in front /\ y \in front /\ Leads(hd, x, y)
           \/ x \in u /\ y \in u /\ Leads(back, x, y)
           \/ x \in front /\ y \in u
  <2>1. Lists(hd, front) /\ Lists(back, u) /\ front \cap u = {}
    BY <1>1, <1>5, <1>6
  <2> HIDE DEF front, back
  <2>2. QED
    BY <2>1, ConcatLists
<1>8. Lists(o, Positions(tr))
  BY <1>1, <1>2, <1>7
<1>9. ASSUME NEW i \in Positions(tr), NEW j \in Positions(tr), Leads(o, i, j)
      PROVE  \/ i \in h /\ j \in h /\ Leads(Arranged(tr, h), i, j)
             \/ i \in d /\ j \in d /\ Leads(Arranged(tr, d), i, j)
             \/ i \in u /\ j \in u
             \/ i \in h /\ j \in d
             \/ i \in h \cup d /\ j \in u
  <2>1. i \in (h \cup d) \cup u /\ j \in (h \cup d) \cup u /\ Leads(hd \o Ascending(u), i, j)
    BY <1>1, <1>2, <1>9
  <2>2. QED
    BY <1>6, <1>7, <2>1
<1>10. QED
  BY <1>8, <1>9 DEF o, h, d, u

(* A list of 1..N has N places.                                            *)
LEMMA ListsLength ==
  ASSUME NEW N \in Nat, NEW list, Lists(list, 1..N)
  PROVE  Len(list) = N
<1>1. list \in Bijection(1..Len(list), 1..N)
  BY DEF Lists, Bijection, Injection, Surjection, IsInjective
<1>2. Cardinality(1..N) = Len(list)
  BY <1>1, FS_CountingElements DEF Lists, ExistsBijection
<1>3. Cardinality(1..N) = N
  BY FS_Interval
<1>4. QED
  BY <1>2, <1>3

-----------------------------------------------------------------------------
(* The order over changing health, and tiers that are cut.                 *)
OrderInv == tier \in [entries : Seq([endpoint : Endpoint, weight : Weights]), default : Nat]

LEMMA OrderInitFine ==
  ASSUME OrderInit
  PROVE  OrderInv
<1> DEFINE T == [endpoint : Endpoint, weight : Weights]
<1>1. PICK n \in 0..MaxEntries : tier.entries \in [1..n -> T]
  BY DEF OrderInit, SmallTiers
<1>2. n \in Nat /\ tier.entries \in Seq(T)
  <2> HIDE DEF T
  <2>1. n \in Nat
    BY OrderAssumption
  <2>2. QED
    BY <1>1, <2>1
<1>3. tier = [entries |-> tier.entries, default |-> tier.default] /\ tier.default \in 1..(MaxEntries + 1)
  BY DEF OrderInit, SmallTiers
<1>4. tier.default \in Nat
  BY <1>3, OrderAssumption
<1> HIDE DEF T
<1>5. QED
  BY <1>2, <1>3, <1>4 DEF OrderInv, T

LEMMA OrderStepKeeps ==
  ASSUME OrderInv, [OrderNext]_orderVars
  PROVE  OrderInv'
<1>1. CASE tier' = tier
  BY <1>1 DEF OrderInv
<1>2. CASE CutTier
  <2> DEFINE list == tier.entries
             T == [endpoint : Endpoint, weight : Weights]
  <2>1. list \in Seq(T) /\ list # <<>> /\ tier' = [tier EXCEPT !.entries = SubSeq(list, 1, Len(list) - 1)]
    BY <1>2 DEF CutTier, OrderInv
  <2> HIDE DEF list, T
  <2>2. SubSeq(list, 1, Len(list) - 1) \in Seq(T)
    BY <2>1
  <2>3. QED
    BY <2>1, <2>2 DEF OrderInv, T
<1>3. QED
  BY <1>1, <1>2 DEF OrderNext, orderVars, ChangeHealth, ChangeVerdict, PickWeighted

LEMMA TierFine ==
  ASSUME OrderInv
  PROVE  /\ Len(tier.entries) \in Nat
         /\ \A i \in Positions(tier) : Weight(tier, i) \in Int
<1> DEFINE T == [endpoint : Endpoint, weight : Weights]
<1>1. tier.entries \in Seq(T)
  BY DEF OrderInv
<1>2. \A t \in T : t.weight \in Weights
  OBVIOUS
<1> HIDE DEF T
<1>3. Len(tier.entries) \in Nat /\ \A i \in Positions(tier) : tier.entries[i] \in T
  BY <1>1 DEF Positions
<1>4. Weights \subseteq Int
  BY OrderAssumption
<1>5. QED
  BY <1>2, <1>3, <1>4 DEF Weight

(* An entry's group is the one it is in.                                   *)
LEMMA GroupOf ==
  ASSUME NEW i \in Positions(tier)
  PROVE  /\ i \in Healthy(tier, cold, degraded) <=> Group(i) = 1
         /\ i \in Deprioritized(tier, cold, degraded) <=> Group(i) = 2
         /\ i \in Unhealthy(tier, cold) <=> Group(i) = 3
         /\ Group(i) \in 1..3
<1> DEFINE h == Healthy(tier, cold, degraded)
           d == Deprioritized(tier, cold, degraded)
           u == Unhealthy(tier, cold)
<1>1. /\ h \cap d = {} /\ (h \cup d) \cap u = {}
      /\ (h \cup d) \cup u = Positions(tier)
  BY GroupsApart
<1>2. Group(i) = CASE i \in h -> 1 [] i \in d -> 2 [] i \in u -> 3
  BY DEF Group
<1> HIDE DEF h, d, u
<1>3. \/ i \in h /\ i \notin d /\ i \notin u
      \/ i \notin h /\ i \in d /\ i \notin u
      \/ i \notin h /\ i \notin d /\ i \in u
  BY <1>1
<1>4. QED
  BY <1>2, <1>3 DEF h, d, u

LEMMA ComesLeads ==
  ASSUME OrderInv, NEW i, NEW j
  PROVE  /\ Lists(order, Positions(tier))
         /\ Comes(i, j) <=> Leads(order, i, j)
<1>1. Lists(order, Positions(tier))
  BY TierFine, OrderedLists DEF order
<1>2. QED
  BY <1>1 DEF Lists, Leads, Comes

(* Which of two candidates comes first, and why.                           *)
LEMMA ComesFirst ==
  ASSUME OrderInv, NEW i \in Positions(tier), NEW j \in Positions(tier), Comes(i, j)
  PROVE  LET h == Healthy(tier, cold, degraded)
             d == Deprioritized(tier, cold, degraded)
             u == Unhealthy(tier, cold)
         IN  \/ i \in h /\ j \in h /\ Leads(Arranged(tier, h), i, j)
             \/ i \in d /\ j \in d /\ Leads(Arranged(tier, d), i, j)
             \/ i \in u /\ j \in u
             \/ i \in h /\ j \in d
             \/ i \in h \cup d /\ j \in u
<1>1. Leads(Ordered(tier, cold, degraded), i, j)
  BY ComesLeads DEF order
<1>2. QED
  BY <1>1, TierFine, OrderedLists

LEMMA AllByHealthHolds ==
  ASSUME OrderInv
  PROVE  AllByHealth
<1>1. Lists(order, Positions(tier))
  BY ComesLeads
<1>2. Len(order) = Len(tier.entries)
  BY <1>1, TierFine, ListsLength DEF Positions
<1>3. \A i \in Positions(tier) : \E n \in DOMAIN order : order[n] = i
  BY <1>1 DEF Lists
<1>4. ASSUME NEW i \in Positions(tier), NEW j \in Positions(tier), Comes(i, j)
      PROVE  Group(i) <= Group(j)
  BY <1>4, ComesFirst, GroupOf
<1>5. QED
  BY <1>2, <1>3, <1>4 DEF AllByHealth

LEMMA DefaultThenCyclicHolds ==
  ASSUME OrderInv
  PROVE  DefaultThenCyclic
<1> SUFFICES ASSUME NEW i \in Positions(tier), NEW j \in Positions(tier),
                    Comes(i, j), Group(i) = Group(j), Group(i) < 3
             PROVE  \/ Weight(tier, i) > Weight(tier, j)
                    \/ /\ Weight(tier, i) = Weight(tier, j)
                       /\ IF tier.default \in Positions(tier) /\ Group(tier.default) = Group(i)
                          THEN (i - tier.default) % Len(tier.entries) < (j - tier.default) % Len(tier.entries)
                          ELSE i < j
  BY DEF DefaultThenCyclic
<1> DEFINE h == Healthy(tier, cold, degraded)
           d == Deprioritized(tier, cold, degraded)
           u == Unhealthy(tier, cold)
<1>1. \/ i \in h /\ j \in h /\ Leads(Arranged(tier, h), i, j)
      \/ i \in d /\ j \in d /\ Leads(Arranged(tier, d), i, j)
      \/ i \in u /\ j \in u
      \/ i \in h /\ j \in d
      \/ i \in h \cup d /\ j \in u
  BY ComesFirst
<1>2. PICK S \in {h, d} : i \in S /\ j \in S /\ Leads(Arranged(tier, S), i, j)
  BY <1>1, GroupOf
<1>3. S \in SUBSET Positions(tier)
  BY GroupsApart
<1>4. \A k \in Positions(tier) : k \in S <=> Group(k) = Group(i)
  BY <1>2, GroupOf
<1>5. \/ Weight(tier, i) > Weight(tier, j)
      \/ /\ Weight(tier, i) = Weight(tier, j)
         /\ IF tier.default \in S
            THEN (i - tier.default) % Len(tier.entries) < (j - tier.default) % Len(tier.entries)
            ELSE i < j
  BY <1>2, <1>3, TierFine, ArrangedLists
<1>6. tier.default \in S <=> tier.default \in Positions(tier) /\ Group(tier.default) = Group(i)
  BY <1>3, <1>4
<1>7. QED
  BY <1>5, <1>6

-----------------------------------------------------------------------------
(* For tiers of any length and weights, and any health: every entry is a   *)
(* candidate once, and none goes before one in better health.              *)
THEOREM AllByHealthAlways == OrderSpec => []AllByHealth
<1>1. OrderInit => OrderInv
  BY OrderInitFine
<1>2. OrderInv /\ [OrderNext]_orderVars => OrderInv'
  BY OrderStepKeeps
<1>3. OrderInv => AllByHealth
  BY AllByHealthHolds
<1>4. QED
  BY <1>1, <1>2, <1>3, PTL DEF OrderSpec

(* For the same tiers: within a group weight decides, then being the       *)
(* default, then the order of the tier read cyclically from the default.   *)
THEOREM DefaultThenCyclicAlways == OrderSpec => []DefaultThenCyclic
<1>1. OrderInit => OrderInv
  BY OrderInitFine
<1>2. OrderInv /\ [OrderNext]_orderVars => OrderInv'
  BY OrderStepKeeps
<1>3. OrderInv => DefaultThenCyclic
  BY DefaultThenCyclicHolds
<1>4. QED
  BY <1>1, <1>2, <1>3, PTL DEF OrderSpec

-----------------------------------------------------------------------------
(* A set that has at most as many elements as another fits into it.        *)
LEMMA Fits ==
  ASSUME NEW S, IsFiniteSet(S), NEW T, IsFiniteSet(T), Cardinality(S) <= Cardinality(T)
  PROVE  Injection(S, T) # {}
<1> DEFINE n == Cardinality(S)
           m == Cardinality(T)
<1>1. n \in Nat /\ m \in Nat /\ ExistsBijection(1..n, S) /\ ExistsBijection(1..m, T)
  BY FS_CardinalityType
<1>2. PICK f \in Bijection(1..n, S) : TRUE
  BY <1>1 DEF ExistsBijection
<1>3. PICK g \in Bijection(1..m, T) : TRUE
  BY <1>1 DEF ExistsBijection
<1>4. /\ \A x \in S : \E k \in 1..n : f[k] = x
      /\ \A k \in 1..n : f[k] \in S
  BY <1>2 DEF Bijection, Surjection
<1>5. g \in [1..m -> T] /\ \A j, k \in 1..m : g[j] = g[k] => j = k
  BY <1>3 DEF Bijection, Injection, IsInjective
<1> DEFINE at(x) == CHOOSE k \in 1..n : f[k] = x
           h == [x \in S |-> g[at(x)]]
<1>6. \A x \in S : at(x) \in 1..n /\ f[at(x)] = x
  BY <1>4
<1> HIDE DEF at
<1>7. \A x \in S : at(x) \in 1..m
  BY <1>1, <1>6
<1>8. h \in [S -> T] /\ \A x, y \in S : h[x] = h[y] => x = y
  BY <1>5, <1>6, <1>7
<1>9. h \in Injection(S, T)
  BY <1>8 DEF Injection, IsInjective
<1>10. QED
  BY <1>9

(* The elements that a labelling gives a label.                            *)
Labelled(p, e) == {x \in DOMAIN p : p[x] = e}

(* Elements of two sets are labelled.  If no label occurs more often in    *)
(* the first, it has at most as many elements; and if it has as many, each *)
(* label occurs as often in both.                                          *)
LEMMA LabelsCount ==
  ASSUME NEW E, NEW X, IsFiniteSet(X), NEW Y, IsFiniteSet(Y),
         NEW p \in [X -> E], NEW q \in [Y -> E],
         \A e \in E : Cardinality(Labelled(p, e)) <= Cardinality(Labelled(q, e))
  PROVE  /\ Cardinality(X) <= Cardinality(Y)
         /\ Cardinality(X) = Cardinality(Y) =>
              \A e \in E : Cardinality(Labelled(p, e)) = Cardinality(Labelled(q, e))
<1> DEFINE A(e) == {x \in X : p[x] = e}
           B(e) == {y \in Y : q[y] = e}
<1>a. \A e \in E : Labelled(p, e) = A(e) /\ Labelled(q, e) = B(e)
  BY DEF Labelled
<1>1. \A e \in E : IsFiniteSet(A(e)) /\ IsFiniteSet(B(e))
  <2> TAKE e \in E
  <2>1. A(e) \in SUBSET X /\ B(e) \in SUBSET Y
    OBVIOUS
  <2>2. QED
    BY <2>1, FS_Subset
<1>2. \A e \in E : Injection(A(e), B(e)) # {}
  <2> TAKE e \in E
  <2>1. Cardinality(A(e)) <= Cardinality(B(e)) /\ IsFiniteSet(A(e)) /\ IsFiniteSet(B(e))
    BY <1>a, <1>1
  <2> HIDE DEF A, B
  <2>2. QED
    BY <2>1, Fits
<1>3. \A x \in X : p[x] \in E /\ x \in A(p[x])
  OBVIOUS
<1>4. \A e \in E : \A y \in B(e) : y \in Y /\ q[y] = e
  OBVIOUS
<1>5. \A e \in E : \A x \in X : x \in A(e) => p[x] = e
  OBVIOUS
<1>0. \A e \in E : \A y \in Y : q[y] = e => y \in B(e)
  OBVIOUS
<1> DEFINE inj(e) == CHOOSE f : f \in Injection(A(e), B(e))
           g == [x \in X |-> inj(p[x])[x]]
<1>6. \A e \in E : inj(e) \in Injection(A(e), B(e))
  BY <1>2
<1> HIDE DEF A, B, inj
<1>7. \A e \in E : /\ inj(e) \in [A(e) -> B(e)]
                   /\ \A x, z \in A(e) : inj(e)[x] = inj(e)[z] => x = z
  BY <1>6 DEF Injection, IsInjective
<1>8. \A x \in X : g[x] = inj(p[x])[x] /\ g[x] \in B(p[x])
  BY <1>3, <1>7
<1>9. \A x \in X : g[x] \in Y /\ q[g[x]] = p[x]
  BY <1>3, <1>4, <1>8
<1>10. g \in Injection(X, Y)
  <2>1. ASSUME NEW x \in X, NEW z \in X, g[x] = g[z]
        PROVE  x = z
    <3>1. p[x] = p[z]
      BY <1>9, <2>1
    <3>2. z \in A(p[x]) /\ x \in A(p[x]) /\ inj(p[x])[x] = inj(p[x])[z]
      BY <1>3, <1>8, <2>1, <3>1
    <3>3. QED
      BY <1>3, <1>7, <3>2
  <2>2. g \in [X -> Y]
    BY <1>9
  <2>3. QED
    BY <2>1, <2>2 DEF Injection, IsInjective
<1> HIDE DEF g
<1>11. Cardinality(X) <= Cardinality(Y) /\ (Cardinality(X) = Cardinality(Y) <=> g \in Surjection(X, Y))
  BY <1>10, FS_Injection
<1>12. ASSUME Cardinality(X) = Cardinality(Y), NEW e \in E
       PROVE  Cardinality(A(e)) = Cardinality(B(e))
  <2>1. \A y \in Y : \E x \in X : g[x] = y
    BY <1>11, <1>12 DEF Surjection
  <2>2. \A y \in B(e) : \E x \in A(e) : inj(e)[x] = y
    <3> TAKE y \in B(e)
    <3>1. y \in Y /\ q[y] = e
      BY <1>4
    <3>2. PICK x \in X : g[x] = y
      BY <2>1, <3>1
    <3>3. p[x] = e
      BY <1>9, <3>1, <3>2
    <3>4. QED
      BY <1>3, <1>8, <3>2, <3>3
  <2>3. inj(e) \in Surjection(A(e), B(e))
    BY <1>7, <2>2 DEF Surjection
  <2>4. QED
    BY <1>1, <1>6, <2>3, FS_Injection
<1>13. QED
  BY <1>a, <1>11, <1>12

(* A finite set of labels, each on finitely many elements.                 *)
LEMMA LabelledFinite ==
  ASSUME NEW S, IsFiniteSet(S), NEW f \in [S -> Nat]
  PROVE  IsFiniteSet(UNION {{i} \X (1..f[i]) : i \in S})
<1> DEFINE part(i) == {i} \X (1..f[i])
           all == {part(i) : i \in S}
           g == [i \in S |-> part(i)]
<1>1. \A i \in S : IsFiniteSet(part(i))
  <2> TAKE i \in S
  <2>1. IsFiniteSet({i}) /\ IsFiniteSet(1..f[i])
    <3>1. f[i] \in Int /\ 1 \in Int
      OBVIOUS
    <3>2. QED
      BY <3>1, FS_Singleton, FS_Interval
  <2>2. QED
    BY <2>1, FS_Product
<1> HIDE DEF part
<1>2. g \in Surjection(S, all)
  BY DEF Surjection
<1>3. IsFiniteSet(all)
  BY <1>2, FS_Surjection
<1> HIDE DEF all
<1>4. \A T \in all : IsFiniteSet(T)
  BY <1>1 DEF all
<1>5. IsFiniteSet(UNION all)
  BY <1>3, <1>4, FS_UNION
<1>6. QED
  BY <1>5 DEF all, part

-----------------------------------------------------------------------------
(* Weights are units, each labelled with the endpoint of its entry.        *)
FineTier(tr) ==
  /\ Len(tr.entries) \in Nat
  /\ \A i \in Positions(tr) : tr.entries[i].endpoint \in Endpoint /\ Weight(tr, i) \in Nat

LEMMA UnitsFinite ==
  ASSUME NEW tr, FineTier(tr), NEW S \in SUBSET Positions(tr)
  PROVE  /\ IsFiniteSet(Units(tr, S))
         /\ WeightOf(tr, S) \in Nat
         /\ \A R \in SUBSET S : WeightOf(tr, R) \in Nat /\ WeightOf(tr, R) <= WeightOf(tr, S)
<1>1. IsFiniteSet(Positions(tr))
  BY FS_Interval DEF Positions, FineTier
<1>2. \A R \in SUBSET Positions(tr) : IsFiniteSet(Units(tr, R))
  <2> TAKE R \in SUBSET Positions(tr)
  <2>1. IsFiniteSet(R)
    BY <1>1, FS_Subset
  <2> DEFINE f == [i \in R |-> Weight(tr, i)]
  <2>2. f \in [R -> Nat] /\ \A i \in R : f[i] = Weight(tr, i)
    BY DEF FineTier
  <2> HIDE DEF f
  <2>3. IsFiniteSet(UNION {{i} \X (1..f[i]) : i \in R})
    BY <2>1, <2>2, LabelledFinite
  <2>4. UNION {{i} \X (1..f[i]) : i \in R} = UNION {{i} \X (1..Weight(tr, i)) : i \in R}
    BY <2>2
  <2>5. QED
    BY <2>3, <2>4 DEF Units
<1>3. ASSUME NEW R \in SUBSET S
      PROVE  WeightOf(tr, R) \in Nat /\ WeightOf(tr, R) <= WeightOf(tr, S)
  <2>1. Units(tr, R) \in SUBSET Units(tr, S)
    BY DEF Units
  <2>2. IsFiniteSet(Units(tr, R)) /\ IsFiniteSet(Units(tr, S))
    BY <1>2
  <2>3. QED
    BY <2>1, <2>2, FS_Subset, FS_CardinalityType DEF WeightOf
<1>4. QED
  BY <1>2, <1>3

(* The picks of a round, each labelled with its endpoint.                  *)
FinePicks(tr, p) ==
  /\ p \in [Endpoint -> Nat]
  /\ \A e \in Endpoint : p[e] > 0 => EntriesOf(tr, e) # {}

LEMMA PickedFinite ==
  ASSUME NEW tr, FineTier(tr), NEW p, FinePicks(tr, p)
  PROVE  IsFiniteSet(Picked(p)) /\ Count(p) \in Nat
<1> DEFINE E == {e \in Endpoint : EntriesOf(tr, e) # {}}
           g == [i \in Positions(tr) |-> tr.entries[i].endpoint]
           f == [e \in E |-> p[e]]
<1>1. g \in Surjection(Positions(tr), E)
  BY DEF Surjection, EntriesOf, FineTier
<1>2. IsFiniteSet(Positions(tr))
  BY FS_Interval DEF Positions, FineTier
<1>3. IsFiniteSet(E)
  BY <1>1, <1>2, FS_Surjection
<1>4. f \in [E -> Nat] /\ \A e \in E : f[e] = p[e]
  BY DEF FinePicks
<1>5. E \in SUBSET Endpoint /\ \A e \in Endpoint \ E : p[e] = 0
  BY DEF FinePicks
<1> HIDE DEF E, f
<1>6. IsFiniteSet(UNION {{e} \X (1..f[e]) : e \in E})
  BY <1>3, <1>4, LabelledFinite
<1>7. UNION {{e} \X (1..f[e]) : e \in E} = Picked(p)
  <2>1. \A e \in Endpoint \ E : 1..p[e] = {}
    BY <1>5
  <2>2. \A e \in E : {e} \X (1..f[e]) = {e} \X (1..p[e])
    BY <1>4
  <2>3. \A e \in Endpoint \ E : {e} \X (1..p[e]) = {}
    BY <2>1
  <2>4. QED
    BY <1>5, <2>2, <2>3 DEF Picked
<1>8. QED
  BY <1>6, <1>7, FS_CardinalityType DEF Count

(* What carries a label: of the units those of the endpoint's entries, of  *)
(* the picks as many as it got.                                            *)
LEMMA UnitsOf ==
  ASSUME NEW tr, FineTier(tr), NEW e \in Endpoint
  PROVE  {u \in Units(tr, Positions(tr)) : tr.entries[u[1]].endpoint = e} = Units(tr, EntriesOf(tr, e))
<1>1. \A S : \A u : u \in Units(tr, S) <=> \E i \in S : \E k \in 1..Weight(tr, i) : u = <<i, k>>
  BY DEF Units
<1>2. QED
  BY <1>1 DEF EntriesOf

LEMMA PicksOf ==
  ASSUME NEW p \in [Endpoint -> Nat], NEW e \in Endpoint
  PROVE  /\ Cardinality({u \in Picked(p) : u[1] = e}) = p[e]
         /\ {u \in Picked(p) : u[1] = e} = {e} \X (1..p[e])
<1>1. \A u : u \in Picked(p) <=> \E d \in Endpoint : \E k \in 1..p[d] : u = <<d, k>>
  BY DEF Picked
<1>2. {u \in Picked(p) : u[1] = e} = {e} \X (1..p[e])
  BY <1>1
<1>3. p[e] \in Nat
  OBVIOUS
<1>4. IsFiniteSet(1..p[e]) /\ Cardinality(1..p[e]) = p[e]
  BY <1>3, FS_Interval
<1>5. IsFiniteSet({e}) /\ Cardinality({e}) = 1
  BY FS_Singleton
<1>6. Cardinality({e} \X (1..p[e])) = Cardinality({e}) * Cardinality(1..p[e])
  BY <1>4, <1>5, FS_Product
<1>7. \A n \in Nat : 1 * n = n
  OBVIOUS
<1>8. Cardinality({e} \X (1..p[e])) = p[e]
  BY <1>3, <1>4, <1>5, <1>6, <1>7
<1>9. QED
  BY <1>2, <1>8

(* One more pick.                                                          *)
LEMMA PickCounts ==
  ASSUME NEW tr, FineTier(tr), NEW p, FinePicks(tr, p), NEW e \in Endpoint, EntriesOf(tr, e) # {},
         NEW r, r = [p EXCEPT ![e] = @ + 1]
  PROVE  FinePicks(tr, r) /\ Count(r) = Count(p) + 1
<1>1. /\ p \in [Endpoint -> Nat] /\ r \in [Endpoint -> Nat]
      /\ r[e] = p[e] + 1 /\ \A d \in Endpoint \ {e} : r[d] = p[d]
  BY DEF FinePicks
<1>2. FinePicks(tr, r)
  <2>1. \A d \in Endpoint : r[d] > 0 => p[d] > 0 \/ d = e
    BY <1>1
  <2>2. QED
    BY <1>1, <2>1 DEF FinePicks
<1>3. /\ \A u : u \in Picked(p) <=> \E d \in Endpoint : \E k \in 1..p[d] : u = <<d, k>>
      /\ \A u : u \in Picked(r) <=> \E d \in Endpoint : \E k \in 1..r[d] : u = <<d, k>>
  BY DEF Picked
<1>4. p[e] \in Nat
  BY <1>1
<1>5. Picked(r) = Picked(p) \cup {<<e, p[e] + 1>>}
  <2>1. 1..r[e] = (1..p[e]) \cup {p[e] + 1}
    BY <1>1, <1>4
  <2>2. ASSUME NEW u \in Picked(r)
        PROVE  u \in Picked(p) \cup {<<e, p[e] + 1>>}
    <3>0. PICK d \in Endpoint : \E k \in 1..r[d] : u = <<d, k>>
      BY <1>3
    <3>1. PICK k \in 1..r[d] : u = <<d, k>>
      BY <3>0
    <3>2. CASE d = e
      BY <1>3, <2>1, <3>1, <3>2
    <3>3. CASE d # e
      BY <1>1, <1>3, <3>1, <3>3
    <3>4. QED
      BY <3>2, <3>3
  <2>3. ASSUME NEW u \in Picked(p)
        PROVE  u \in Picked(r)
    <3>0. PICK d \in Endpoint : \E k \in 1..p[d] : u = <<d, k>>
      BY <1>3
    <3>1. PICK k \in 1..p[d] : u = <<d, k>>
      BY <3>0
    <3>2. CASE d = e
      BY <1>3, <2>1, <3>1, <3>2
    <3>3. CASE d # e
      BY <1>1, <1>3, <3>1, <3>3
    <3>4. QED
      BY <3>2, <3>3
  <2>4. <<e, p[e] + 1>> \in Picked(r)
    BY <1>3, <2>1
  <2>5. QED
    BY <2>2, <2>3, <2>4
<1>6. <<e, p[e] + 1>> \notin Picked(p)
  <2>1. p[e] + 1 \notin 1..p[e]
    BY <1>4
  <2>2. QED
    BY <1>3, <2>1
<1>7. IsFiniteSet(Picked(p))
  BY PickedFinite
<1>8. QED
  BY <1>2, <1>5, <1>6, <1>7, FS_AddElement DEF Count

-----------------------------------------------------------------------------
(* After t picks of a round an endpoint has gained its weight t times and  *)
(* paid the total for each pick it got; it never owes a whole total.       *)
Balanced(tr, w, p) ==
  /\ Count(p) <= Total(tr)
  /\ \A e \in Endpoint :
       /\ w[e] = Count(p) * WeightOf(tr, EntriesOf(tr, e)) - Total(tr) * p[e]
       /\ w[e] > -Total(tr)

LEMMA Shares ==
  ASSUME NEW tr, FineTier(tr)
  PROVE  /\ IsFiniteSet(Units(tr, Positions(tr))) /\ Total(tr) \in Nat
         /\ \A e \in Endpoint : /\ WeightOf(tr, EntriesOf(tr, e)) \in Nat
                                /\ IsFiniteSet(Units(tr, EntriesOf(tr, e)))
         /\ [u \in Units(tr, Positions(tr)) |-> tr.entries[u[1]].endpoint] \in [Units(tr, Positions(tr)) -> Endpoint]
<1>1. \A e : EntriesOf(tr, e) \in SUBSET Positions(tr)
  BY DEF EntriesOf
<1>2. IsFiniteSet(Units(tr, Positions(tr))) /\ Total(tr) \in Nat
  BY UnitsFinite DEF Total
<1>3. \A e \in Endpoint : WeightOf(tr, EntriesOf(tr, e)) \in Nat /\ IsFiniteSet(Units(tr, EntriesOf(tr, e)))
  BY <1>1, UnitsFinite
<1>4. \A u \in Units(tr, Positions(tr)) : tr.entries[u[1]].endpoint \in Endpoint
  BY DEF Units, FineTier
<1>5. QED
  BY <1>2, <1>3, <1>4

(* At the end of a round no endpoint got more picks than its weight, so    *)
(* each got as many, and owes nothing.                                     *)
LEMMA RoundEnds ==
  ASSUME NEW tr, FineTier(tr), Total(tr) > 0, NEW p, FinePicks(tr, p),
         NEW w, Balanced(tr, w, p), Count(p) = Total(tr)
  PROVE  \A e \in Endpoint : p[e] = WeightOf(tr, EntriesOf(tr, e)) /\ w[e] = 0
<1> DEFINE T == Total(tr)
           A(e) == WeightOf(tr, EntriesOf(tr, e))
           X == Picked(p)
           Y == Units(tr, Positions(tr))
           f == [x \in X |-> x[1]]
           g == [u \in Y |-> tr.entries[u[1]].endpoint]
<1>1. T \in Nat /\ T > 0 /\ \A e \in Endpoint : A(e) \in Nat /\ p[e] \in Nat
  BY Shares DEF FinePicks
<1>2. \A e \in Endpoint : w[e] = T * A(e) - T * p[e] /\ w[e] > -T
  BY DEF Balanced
<1> HIDE DEF T, A
<1>3. \A e \in Endpoint : p[e] <= A(e)
  <2> TAKE e \in Endpoint
  <2> DEFINE a == A(e)
             n == p[e]
  <2>1. a \in Nat /\ n \in Nat /\ T * a - T * n > -T
    BY <1>1, <1>2
  <2> HIDE DEF a, n
  <2>2. T * (a + 1 - n) > 0
    BY <1>1, <2>1
  <2>3. a + 1 - n > 0
    BY <1>1, <2>1, <2>2
  <2>4. n <= a
    BY <2>1, <2>3
  <2>5. QED
    BY <2>4 DEF a, n
<1>4. IsFiniteSet(X) /\ IsFiniteSet(Y) /\ Cardinality(X) = T /\ Cardinality(Y) = T
  BY PickedFinite, Shares DEF T, Total, WeightOf, Count
<1>5. f \in [X -> Endpoint] /\ g \in [Y -> Endpoint]
  <2>1. \A x \in X : x[1] \in Endpoint
    BY DEF Picked
  <2>2. QED
    BY <2>1, Shares
<1>6. ASSUME NEW e \in Endpoint
      PROVE  /\ Cardinality(Labelled(f, e)) = p[e]
             /\ Cardinality(Labelled(g, e)) = A(e)
  <2>1. Labelled(f, e) = {x \in X : x[1] = e}
    BY DEF Labelled
  <2>2. Labelled(g, e) = {u \in Y : tr.entries[u[1]].endpoint = e}
    BY DEF Labelled
  <2>3. p \in [Endpoint -> Nat]
    BY DEF FinePicks
  <2>4. QED
    BY <2>1, <2>2, <2>3, PicksOf, UnitsOf DEF A, WeightOf
<1> HIDE DEF X, Y, f, g
<1>7. \A e \in Endpoint : Cardinality(Labelled(f, e)) = Cardinality(Labelled(g, e))
  <2>1. \A e \in Endpoint : Cardinality(Labelled(f, e)) <= Cardinality(Labelled(g, e))
    BY <1>3, <1>6
  <2>2. QED
    BY <1>4, <1>5, <2>1, LabelsCount
<1>8. \A e \in Endpoint : p[e] = A(e)
  BY <1>6, <1>7
<1>9. \A e \in Endpoint : w[e] = 0
  <2> TAKE e \in Endpoint
  <2>1. T * A(e) \in Int
    BY <1>1
  <2>2. QED
    BY <1>2, <1>8, <2>1
<1>10. QED
  BY <1>8, <1>9 DEF A

(* Until then some endpoint's weight is positive once raised: otherwise    *)
(* the picks so far would have paid more than everyone gained.             *)
LEMMA SomeoneAhead ==
  ASSUME NEW tr, FineTier(tr), NEW p, FinePicks(tr, p),
         NEW w, Balanced(tr, w, p), Count(p) < Total(tr)
  PROVE  \E e \in Endpoint : w[e] + WeightOf(tr, EntriesOf(tr, e)) > 0
<1> DEFINE T == Total(tr)
           t == Count(p)
           A(e) == WeightOf(tr, EntriesOf(tr, e))
           X == (1..(t + 1)) \X Units(tr, Positions(tr))
           Y == (1..T) \X Picked(p)
           f == [x \in X |-> tr.entries[x[2][1]].endpoint]
           g == [y \in Y |-> y[2][1]]
<1>1. T \in Nat /\ t \in Nat /\ \A e \in Endpoint : A(e) \in Nat /\ p[e] \in Nat
  BY Shares, PickedFinite DEF FinePicks
<1>2. \A e \in Endpoint : w[e] = t * A(e) - T * p[e]
  BY DEF Balanced
<1>3. /\ IsFiniteSet(X) /\ IsFiniteSet(Y)
      /\ Cardinality(X) = (t + 1) * T /\ Cardinality(Y) = T * t
  <2>1. IsFiniteSet(Units(tr, Positions(tr))) /\ Cardinality(Units(tr, Positions(tr))) = T
    BY Shares DEF Total, WeightOf
  <2>2. IsFiniteSet(Picked(p)) /\ Cardinality(Picked(p)) = t
    BY PickedFinite DEF Count
  <2>3. t + 1 \in Int /\ T \in Int /\ 1 \in Int /\ t + 1 >= 1 /\ T >= 0
    BY <1>1
  <2> HIDE DEF T, t
  <2>4. /\ IsFiniteSet(1..(t + 1)) /\ Cardinality(1..(t + 1)) = t + 1
        /\ IsFiniteSet(1..T) /\ Cardinality(1..T) = T
    BY <2>3, FS_Interval
  <2> DEFINE U == Units(tr, Positions(tr))
             P == Picked(p)
             A1 == 1..(t + 1)
             B1 == 1..T
  <2> HIDE DEF U, P, A1, B1
  <2>5. IsFiniteSet(A1 \X U) /\ Cardinality(A1 \X U) = Cardinality(A1) * Cardinality(U)
    BY <2>1, <2>4, FS_Product DEF U, A1
  <2>6. IsFiniteSet(B1 \X P) /\ Cardinality(B1 \X P) = Cardinality(B1) * Cardinality(P)
    BY <2>2, <2>4, FS_Product DEF P, B1
  <2>7. Cardinality(A1) = t + 1 /\ Cardinality(U) = T /\ Cardinality(B1) = T /\ Cardinality(P) = t
    BY <2>1, <2>2, <2>4 DEF U, P, A1, B1
  <2>8. X = A1 \X U /\ Y = B1 \X P
    BY DEF U, P, A1, B1
  <2>9. QED
    BY <2>5, <2>6, <2>7, <2>8
<1>4. f \in [X -> Endpoint] /\ g \in [Y -> Endpoint]
  <2>1. \A u \in Units(tr, Positions(tr)) : tr.entries[u[1]].endpoint \in Endpoint
    BY DEF Units, FineTier
  <2>2. \A u \in Picked(p) : u[1] \in Endpoint
    BY DEF Picked
  <2>3. QED
    BY <2>1, <2>2
<1>5. ASSUME NEW e \in Endpoint
      PROVE  /\ Cardinality(Labelled(f, e)) = (t + 1) * A(e)
             /\ Cardinality(Labelled(g, e)) = T * p[e]
  <2> DEFINE U == Units(tr, EntriesOf(tr, e))
             Q == {e} \X (1..p[e])
  <2>0. p \in [Endpoint -> Nat]
    BY DEF FinePicks
  <2>1. {u \in Units(tr, Positions(tr)) : tr.entries[u[1]].endpoint = e} = U
    BY UnitsOf
  <2>2. {u \in Picked(p) : u[1] = e} = Q /\ Cardinality(Q) = p[e]
    BY <2>0, PicksOf
  <2>3. Labelled(f, e) = (1..(t + 1)) \X U
    BY <2>1 DEF Labelled
  <2>4. Labelled(g, e) = (1..T) \X Q
    BY <2>2 DEF Labelled
  <2>5. IsFiniteSet(U) /\ Cardinality(U) = A(e)
    BY Shares DEF WeightOf
  <2>6. IsFiniteSet(Q)
    <3>1. IsFiniteSet(Picked(p)) /\ Q \in SUBSET Picked(p)
      BY <2>2, PickedFinite
    <3>2. QED
      BY <3>1, FS_Subset
  <2>7. t + 1 \in Int /\ T \in Int /\ 1 \in Int /\ t + 1 >= 1 /\ T >= 0
    BY <1>1
  <2> HIDE DEF T, t, U, Q, A
  <2>8. /\ IsFiniteSet(1..(t + 1)) /\ Cardinality(1..(t + 1)) = t + 1
        /\ IsFiniteSet(1..T) /\ Cardinality(1..T) = T
    BY <2>7, FS_Interval
  <2>9. /\ Cardinality((1..(t + 1)) \X U) = Cardinality(1..(t + 1)) * Cardinality(U)
        /\ Cardinality((1..T) \X Q) = Cardinality(1..T) * Cardinality(Q)
    BY <2>5, <2>6, <2>8, FS_Product
  <2>10. QED
    BY <2>2, <2>3, <2>4, <2>5, <2>8, <2>9
<1> HIDE DEF X, Y, f, g
<1>6. SUFFICES ASSUME \A e \in Endpoint : ~(w[e] + A(e) > 0)
               PROVE  FALSE
  OBVIOUS
<1>7. t < T
  OBVIOUS
<1> HIDE DEF T, t, A
<1>8. \A e \in Endpoint : (t + 1) * A(e) <= T * p[e]
  <2> TAKE e \in Endpoint
  <2> DEFINE a == A(e)
             n == p[e]
  <2>1. a \in Nat /\ n \in Nat /\ ~(t * a - T * n + a > 0)
    BY <1>1, <1>2, <1>6
  <2> HIDE DEF a, n
  <2>2. t * a \in Int /\ T * n \in Int /\ (t + 1) * a = t * a + a
    BY <1>1, <2>1
  <2>3. (t + 1) * a <= T * n
    BY <2>1, <2>2
  <2>4. QED
    BY <2>3 DEF a, n
<1>9. \A e \in Endpoint : Cardinality(Labelled(f, e)) <= Cardinality(Labelled(g, e))
  BY <1>5, <1>8
<1>10. Cardinality(X) <= Cardinality(Y)
  BY <1>3, <1>4, <1>9, LabelsCount
<1>11. (t + 1) * T <= T * t
  BY <1>3, <1>10
<1>12. (t + 1) * T = T * t + T /\ T * t \in Int
  BY <1>1
<1>13. QED
  BY <1>1, <1>7, <1>11, <1>12

-----------------------------------------------------------------------------
(* A candidate's weight, when its turn comes, is a part of what its        *)
(* endpoint's is in the end.                                               *)
LEMMA RaisedInPart ==
  ASSUME NEW tr, FineTier(tr), NEW o, Lists(o, Positions(tr)),
         NEW w, w.weights \in [Endpoint -> Int],
         NEW k \in 1..Len(o), NEW e, e = tr.entries[o[k]].endpoint
  PROVE  /\ e \in Endpoint
         /\ Raised(tr, w, o, k) \in Int
         /\ Raised(tr, w, o, k) <= w.weights[e] + WeightOf(tr, EntriesOf(tr, e))
<1> DEFINE S == {i \in EntriesOf(tr, e) : \E j \in 1..k : o[j] = i}
<1>1. e \in Endpoint
  BY DEF Lists, FineTier
<1>2. EntriesOf(tr, e) \in SUBSET Positions(tr) /\ S \in SUBSET EntriesOf(tr, e)
  BY DEF EntriesOf
<1>3. Raised(tr, w, o, k) = w.weights[e] + WeightOf(tr, S)
  BY DEF Raised
<1>4. w.weights[e] \in Int
  BY <1>1
<1> HIDE DEF S
<1>5. /\ WeightOf(tr, S) \in Nat /\ WeightOf(tr, EntriesOf(tr, e)) \in Nat
      /\ WeightOf(tr, S) <= WeightOf(tr, EntriesOf(tr, e))
  BY <1>2, UnitsFinite
<1>6. QED
  BY <1>1, <1>3, <1>4, <1>5

(* The last candidate of an endpoint has its weight in the end.            *)
LEMMA RaisedInFull ==
  ASSUME NEW tr, FineTier(tr), NEW o, Lists(o, Positions(tr)), NEW w,
         NEW e \in Endpoint, EntriesOf(tr, e) # {}
  PROVE  \E k \in 1..Len(o) : Raised(tr, w, o, k) = w.weights[e] + WeightOf(tr, EntriesOf(tr, e))
<1> DEFINE S == {k \in 1..Len(o) : tr.entries[o[k]].endpoint = e}
<1>1. S # {}
  <2>1. PICK i \in Positions(tr) : tr.entries[i].endpoint = e
    BY DEF EntriesOf
  <2>2. PICK k \in 1..Len(o) : o[k] = i
    BY <2>1 DEF Lists
  <2>3. QED
    BY <2>1, <2>2
<1>2. S \in SUBSET Int /\ IsFiniteSet(S)
  <2>1. Len(o) \in Int /\ 1 \in Int
    BY DEF Lists
  <2>2. IsFiniteSet(1..Len(o))
    BY <2>1, FS_Interval
  <2>3. QED
    BY <2>2, FS_Subset
<1>3. \A k \in 1..Len(o) : k \in S <=> tr.entries[o[k]].endpoint = e
  OBVIOUS
<1>4. S \in SUBSET (1..Len(o))
  OBVIOUS
<1> HIDE DEF S
<1>5. PICK k \in S : \A j \in S : j <= k
  BY <1>1, <1>2, HasGreatest
<1>6. k \in 1..Len(o) /\ tr.entries[o[k]].endpoint = e
  BY <1>3, <1>4
<1>7. {i \in EntriesOf(tr, e) : \E j \in 1..k : o[j] = i} = EntriesOf(tr, e)
  <2>1. ASSUME NEW i \in EntriesOf(tr, e)
        PROVE  \E j \in 1..k : o[j] = i
    <3>1. i \in Positions(tr) /\ tr.entries[i].endpoint = e
      BY DEF EntriesOf
    <3>2. PICK j \in 1..Len(o) : o[j] = i
      BY <3>1 DEF Lists
    <3>3. j <= k
      BY <1>3, <1>5, <3>1, <3>2
    <3>4. Len(o) \in Nat
      BY DEF Lists
    <3>5. j \in 1..k
      BY <1>6, <3>3, <3>4
    <3>6. QED
      BY <3>2, <3>5
  <2>2. QED
    BY <2>1
<1>8. QED
  BY <1>6, <1>7 DEF Raised

(* Best is a candidate that got highest.                                   *)
LEMMA BestIsHighest ==
  ASSUME NEW tr, FineTier(tr), NEW o, Lists(o, Positions(tr)), Len(o) > 0,
         NEW w, w.weights \in [Endpoint -> Int]
  PROVE  /\ Best(tr, w, o) \in 1..Len(o)
         /\ \A j \in 1..Len(o) : Raised(tr, w, o, j) <= Raised(tr, w, o, Best(tr, w, o))
<1> DEFINE N == Len(o)
           v(k) == Raised(tr, w, o, k)
           Above(j, k) == v(j) > v(k) \/ (v(j) = v(k) /\ j < k)
           R == {p \in (1..N) \X (1..N) : Above(p[1], p[2])}
           Choice(k) == \A j \in 1..N : v(j) < v(k) \/ (v(j) = v(k) /\ k <= j)
<1>1. N \in Nat /\ N > 0 /\ DOMAIN o = 1..N
  BY DEF Lists
<1>2. \A k \in 1..N : v(k) \in Int
  BY RaisedInPart
<1>3. \A k \in 1..N : k \in Int
  OBVIOUS
<1>4. \A j, k \in 1..N : <<j, k>> \in R <=> Above(j, k)
  OBVIOUS
<1>5. Best(tr, w, o) = CHOOSE k \in 1..N : Choice(k)
  BY <1>1 DEF Best
<1> HIDE DEF N, v, R
<1>6. Orders(R, 1..N)
  <2>1. \A x, y, z \in 1..N : Above(x, y) /\ Above(y, z) => Above(x, z)
    BY <1>2, <1>3
  <2>2. \A x, y \in 1..N : ~Above(x, x) /\ (x # y => Above(x, y) \/ Above(y, x))
    BY <1>2, <1>3
  <2> HIDE DEF Above
  <2>3. QED
    BY <1>4, <2>1, <2>2 DEF Orders
<1>7. IsFiniteSet(1..N) /\ Cardinality(1..N) = N
  BY <1>1, FS_Interval
<1> DEFINE list == Sorted(1..N, R)
<1>8. /\ list \in [1..N -> 1..N]
      /\ \A k \in 1..N : \E n \in 1..N : list[n] = k
      /\ \A m, n \in 1..N : m < n <=> <<list[m], list[n]>> \in R
  BY <1>6, <1>7, SortedElements
<1> HIDE DEF list
<1>9. list[1] \in 1..N /\ Choice(list[1])
  <2>1. 1 \in 1..N /\ list[1] \in 1..N
    BY <1>1, <1>8
  <2>2. ASSUME NEW j \in 1..N
        PROVE  v(j) < v(list[1]) \/ (v(j) = v(list[1]) /\ list[1] <= j)
    <3>1. PICK n \in 1..N : list[n] = j
      BY <1>8
    <3>2. CASE n = 1
      BY <1>2, <1>3, <2>1, <3>1, <3>2
    <3>3. CASE n # 1
      <4>1. 1 < n
        BY <1>1, <3>3
      <4>2. Above(list[1], j)
        BY <1>4, <1>8, <2>1, <3>1, <4>1
      <4>3. QED
        BY <1>2, <1>3, <2>1, <4>2
    <3>4. QED
      BY <3>2, <3>3
  <2>3. QED
    BY <2>1, <2>2
<1>10. Best(tr, w, o) \in 1..N /\ Choice(Best(tr, w, o))
  BY <1>5, <1>9
<1>11. \A j \in 1..N : v(j) <= v(Best(tr, w, o))
  BY <1>2, <1>10
<1>12. QED
  BY <1>10, <1>11 DEF N, v

(* The endpoint that is picked, what is kept then, and the picks.          *)
BestEndpoint(tr, w, o) == tr.entries[o[Best(tr, w, o)]].endpoint
Settled(tr, w, d) ==
  [e \in Endpoint |-> w.weights[e] + WeightOf(tr, EntriesOf(tr, e)) - (IF e = d THEN Total(tr) ELSE 0)]
WithPick(p, d) == [p EXCEPT ![d] = @ + 1]

(* A pick keeps the books of a round balanced.                             *)
LEMMA PickBalances ==
  ASSUME NEW tr, FineTier(tr), NEW o, Lists(o, Positions(tr)), Len(o) > 0,
         NEW p, FinePicks(tr, p),
         NEW w, w.weights \in [Endpoint -> Int], Balanced(tr, w.weights, p), Count(p) < Total(tr)
  PROVE  /\ FinePicks(tr, WithPick(p, BestEndpoint(tr, w, o)))
         /\ Balanced(tr, Settled(tr, w, BestEndpoint(tr, w, o)), WithPick(p, BestEndpoint(tr, w, o)))
<1> DEFINE T == Total(tr)
           t == Count(p)
           A(e) == WeightOf(tr, EntriesOf(tr, e))
           b == Best(tr, w, o)
           d == tr.entries[o[b]].endpoint
           q == [p EXCEPT ![d] = @ + 1]
           v == [e \in Endpoint |-> w.weights[e] + A(e) - (IF e = d THEN T ELSE 0)]
<1>1. T \in Nat /\ t \in Nat /\ t < T /\ \A e \in Endpoint : A(e) \in Nat /\ p[e] \in Nat
  BY Shares, PickedFinite DEF FinePicks
<1>2. \A e \in Endpoint : w.weights[e] = t * A(e) - T * p[e] /\ w.weights[e] > -T /\ w.weights[e] \in Int
  BY DEF Balanced
<1>3. b \in 1..Len(o) /\ \A j \in 1..Len(o) : Raised(tr, w, o, j) <= Raised(tr, w, o, b)
  BY BestIsHighest
<1>4. \A j \in 1..Len(o) : Raised(tr, w, o, j) \in Int
  BY RaisedInPart
<1>5. d \in Endpoint /\ Raised(tr, w, o, b) <= w.weights[d] + A(d)
  BY <1>3, RaisedInPart
<1>6. EntriesOf(tr, d) # {}
  BY <1>3 DEF EntriesOf, Lists
<1>7. w.weights[d] + A(d) > 0
  <2>1. PICK e \in Endpoint : w.weights[e] + A(e) > 0
    BY SomeoneAhead
  <2>2. EntriesOf(tr, e) # {}
    <3>1. SUFFICES ASSUME EntriesOf(tr, e) = {}
                   PROVE  FALSE
      OBVIOUS
    <3>2. A(e) = 0
      <4>1. Units(tr, {}) = {}
        BY DEF Units
      <4>2. QED
        BY <3>1, <4>1, FS_EmptySet DEF WeightOf
    <3>3. p[e] = 0
      BY <1>1, <3>1 DEF FinePicks
    <3>4. w.weights[e] = 0
      BY <1>1, <1>2, <3>2, <3>3
    <3>5. QED
      BY <2>1, <3>2, <3>4
  <2>3. PICK k \in 1..Len(o) : Raised(tr, w, o, k) = w.weights[e] + A(e)
    BY <2>2, RaisedInFull
  <2>4. Raised(tr, w, o, b) > 0
    <3>1. Raised(tr, w, o, k) <= Raised(tr, w, o, b)
      BY <1>3
    <3>2. Raised(tr, w, o, k) \in Int /\ Raised(tr, w, o, b) \in Int
      BY <1>3, <1>4
    <3>3. Raised(tr, w, o, k) > 0
      BY <2>1, <2>3
    <3>4. QED
      BY <3>1, <3>2, <3>3
  <2>5. QED
    <3>1. Raised(tr, w, o, b) \in Int /\ Raised(tr, w, o, b) <= w.weights[d] + A(d)
      BY <1>3, <1>4, <1>5
    <3>2. w.weights[d] \in Int /\ A(d) \in Nat
      BY <1>1, <1>2, <1>5
    <3> DEFINE raised == Raised(tr, w, o, b)
               gained == A(d)
               before == w.weights[d]
    <3>3. raised > 0 /\ raised \in Int /\ raised <= before + gained /\ before \in Int /\ gained \in Nat
      BY <2>4, <3>1, <3>2
    <3> HIDE DEF raised, gained, before
    <3>4. before + gained > 0
      BY <3>3
    <3>5. QED
      BY <3>4 DEF gained, before
<1>8. FinePicks(tr, q) /\ Count(q) = t + 1
  BY <1>5, <1>6, PickCounts
<1>9. q[d] = p[d] + 1 /\ \A e \in Endpoint \ {d} : q[e] = p[e]
  BY <1>5 DEF FinePicks
<1>10. \A e \in Endpoint : v[e] = w.weights[e] + A(e) - (IF e = d THEN T ELSE 0)
  OBVIOUS
<1> HIDE DEF T, t, A, b, d, q, v
<1>11. ASSUME NEW e \in Endpoint
       PROVE  v[e] = (t + 1) * A(e) - T * q[e] /\ v[e] > -T
  <2> DEFINE a == A(e)
             n == p[e]
             x == w.weights[e]
  <2>1. /\ a \in Nat /\ n \in Nat /\ x \in Int /\ x = t * a - T * n /\ x > -T
        /\ v[e] = x + a - (IF e = d THEN T ELSE 0) /\ q[e] = (IF e = d THEN n + 1 ELSE n)
        /\ e = d => x + a > 0
    <3>1. a \in Nat /\ n \in Nat
      BY <1>1
    <3>2. x \in Int /\ x = t * a - T * n /\ x > -T
      BY <1>2
    <3>3. v[e] = x + a - (IF e = d THEN T ELSE 0)
      BY <1>10
    <3>4. q[e] = (IF e = d THEN n + 1 ELSE n)
      BY <1>9
    <3>5. e = d => x + a > 0
      BY <1>7
    <3>6. QED
      BY <3>1, <3>2, <3>3, <3>4, <3>5
  <2> HIDE DEF a, n, x
  <2>2. t * a \in Int /\ T * n \in Int /\ (t + 1) * a = t * a + a /\ T * (n + 1) = T * n + T
    BY <1>1, <2>1
  <2>3. v[e] = (t + 1) * a - T * q[e] /\ v[e] > -T
    <3>1. CASE e = d
      BY <1>1, <2>1, <2>2, <3>1
    <3>2. CASE e # d
      BY <1>1, <2>1, <2>2, <3>2
    <3>3. QED
      BY <3>1, <3>2
  <2>4. QED
    BY <2>3 DEF a
<1>12. t + 1 <= T
  BY <1>1
<1>13. Balanced(tr, v, q)
  BY <1>8, <1>11, <1>12 DEF Balanced, T, A
<1>14. QED
  BY <1>8, <1>13 DEF T, A, b, d, q, v, BestEndpoint, Settled, WithPick

-----------------------------------------------------------------------------
(* A round over changing health, and tiers that are cut: what is kept for  *)
(* a tier that had more entries counts no longer.                          *)
RoundInv ==
  /\ OrderInv
  /\ wrr \in [len : Nat, weights : [Endpoint -> Int]]
  /\ wrr.len >= Len(tier.entries)
  /\ FinePicks(tier, picks)
  /\ wrr.len # Len(tier.entries) \/ AllOne(tier) \/ Total(tier) = 0 => picks = NoPicks
  /\ wrr.len = Len(tier.entries) /\ ~AllOne(tier) /\ Total(tier) > 0 =>
       Balanced(tier, wrr.weights, picks)

LEMMA TierIsFine ==
  ASSUME OrderInv
  PROVE  FineTier(tier)
<1> DEFINE T == [endpoint : Endpoint, weight : Weights]
<1>1. tier.entries \in Seq(T)
  BY DEF OrderInv
<1>2. \A x \in T : x.weight \in Nat /\ x.endpoint \in Endpoint
  BY OrderAssumption
<1> HIDE DEF T
<1>3. Len(tier.entries) \in Nat /\ \A i \in Positions(tier) : tier.entries[i] \in T
  BY <1>1 DEF Positions
<1>4. QED
  BY <1>2, <1>3 DEF FineTier, Weight

LEMMA NoPicksFine ==
  ASSUME NEW tr
  PROVE  FinePicks(tr, NoPicks) /\ Count(NoPicks) = 0
<1>1. NoPicks \in [Endpoint -> Nat] /\ \A e \in Endpoint : NoPicks[e] = 0
  BY DEF NoPicks
<1>2. \A e \in Endpoint : 1..NoPicks[e] = {}
  BY <1>1
<1>3. Picked(NoPicks) = {}
  BY <1>2 DEF Picked
<1>4. QED
  BY <1>1, <1>3, FS_EmptySet DEF FinePicks, Count

(* A round begins with nobody owing anything.                              *)
LEMMA RoundBegins ==
  ASSUME NEW tr, FineTier(tr), Total(tr) > 0, NEW w, \A e \in Endpoint : w[e] = 0
  PROVE  Balanced(tr, w, NoPicks)
<1>1. Total(tr) \in Nat /\ \A e \in Endpoint : WeightOf(tr, EntriesOf(tr, e)) \in Nat
  BY Shares
<1>2. Count(NoPicks) = 0 /\ \A e \in Endpoint : NoPicks[e] = 0
  BY NoPicksFine DEF NoPicks
<1>3. \A n \in Nat : 0 * n = 0 /\ n * 0 = 0
  OBVIOUS
<1>4. QED
  BY <1>1, <1>2, <1>3 DEF Balanced

LEMMA RoundInit ==
  ASSUME OrderInit
  PROVE  RoundInv
<1>1. OrderInv
  BY OrderInitFine
<1>2. FineTier(tier)
  BY <1>1, TierIsFine
<1>3. /\ wrr = [len |-> Len(tier.entries), weights |-> [e \in Endpoint |-> 0]]
      /\ picks = NoPicks
  BY DEF OrderInit
<1>4. wrr \in [len : Nat, weights : [Endpoint -> Int]] /\ wrr.len = Len(tier.entries) /\ \A e \in Endpoint : wrr.weights[e] = 0
  BY <1>2, <1>3 DEF FineTier
<1>5. Total(tier) > 0 => Balanced(tier, wrr.weights, picks)
  BY <1>2, <1>3, <1>4, RoundBegins
<1>6. FinePicks(tier, picks)
  BY <1>3, NoPicksFine
<1>7. wrr.len >= Len(tier.entries)
  BY <1>2, <1>4 DEF FineTier
<1>8. QED
  BY <1>1, <1>3, <1>4, <1>5, <1>6, <1>7 DEF RoundInv

LEMMA PickKeepsRound ==
  ASSUME RoundInv, PickWeighted
  PROVE  RoundInv'
<1> DEFINE T == Total(tier)
           A(e) == WeightOf(tier, EntriesOf(tier, e))
           r == Reset(tier, wrr)
           d == tier.entries[PickedEntry(tier, wrr, order)].endpoint
           p == IF Count(picks) = T THEN NoPicks ELSE picks
<1>1. tier' = tier /\ tier.entries # <<>> /\ wrr' = AfterPick(tier, wrr, order)
      /\ picks' = IF AllOne(tier) \/ T = 0 THEN picks ELSE [p EXCEPT ![d] = @ + 1]
  BY DEF PickWeighted
<1>2. FineTier(tier) /\ Len(tier.entries) \in Nat /\ \A i \in Positions(tier) : Weight(tier, i) \in Int
  BY TierIsFine, TierFine DEF RoundInv
<1>3. OrderInv'
  BY <1>1 DEF RoundInv, OrderInv
<1>4. CASE AllOne(tier)
  <2>1. wrr' = wrr /\ picks' = picks
    BY <1>1, <1>4 DEF AfterPick
  <2>2. QED
    BY <1>1, <1>3, <1>4, <2>1 DEF RoundInv
<1>5. CASE ~AllOne(tier)
  <2>1. wrr \in [len : Nat, weights : [Endpoint -> Int]] /\ wrr.len >= Len(tier.entries)
    BY DEF RoundInv
  <2>2. /\ r \in [len : Nat, weights : [Endpoint -> Int]] /\ r.len = Len(tier.entries)
        /\ wrr.len = Len(tier.entries) => r = wrr
        /\ wrr.len # Len(tier.entries) => \A e \in Endpoint : r.weights[e] = 0
    BY <1>2, <2>1 DEF Reset
  <2> DEFINE v == [e \in Endpoint |-> r.weights[e] + A(e) - (IF e = d THEN T ELSE 0)]
  <2>3. wrr' = [r EXCEPT !.weights = v]
    BY <1>1, <1>5, <2>2 DEF AfterPick
  <2>4. T \in Nat /\ \A e \in Endpoint : A(e) \in Nat
    BY <1>2, Shares
  <2> HIDE DEF r, T, A, d
  <2>5. v \in [Endpoint -> Int]
    BY <2>2, <2>4
  <2>6. wrr' \in [len : Nat, weights : [Endpoint -> Int]] /\ wrr'.len = Len(tier.entries) /\ wrr'.weights = v
    BY <2>2, <2>3, <2>5
  <2> HIDE DEF v
  <2>7. CASE T = 0
    <3>1. picks' = picks /\ picks = NoPicks
      BY <1>1, <2>7 DEF RoundInv, T
    <3>2. QED
      BY <1>1, <1>2, <1>3, <2>6, <2>7, <3>1 DEF RoundInv, T
  <2>8. CASE T # 0
    <3>1. T > 0
      BY <2>4, <2>8
    <3>2. picks' = [p EXCEPT ![d] = @ + 1]
      BY <1>1, <1>5, <2>8
    <3>3. FinePicks(tier, picks) /\ Count(picks) \in Nat
      BY <1>2, PickedFinite DEF RoundInv
    <3>4. wrr.len = Len(tier.entries) => Balanced(tier, wrr.weights, picks) /\ Count(picks) <= T
      BY <1>5, <3>1 DEF RoundInv, T, Balanced
    <3>5. wrr.len # Len(tier.entries) => picks = NoPicks
      BY DEF RoundInv
    <3>6. FinePicks(tier, NoPicks) /\ Count(NoPicks) = 0
      BY NoPicksFine
    <3>7. FinePicks(tier, p)
      BY <3>3, <3>6
    <3>8. Balanced(tier, r.weights, p) /\ Count(p) < T
      <4>1. CASE wrr.len # Len(tier.entries)
        <5>1. p = NoPicks
          BY <3>5, <4>1
        <5>2. Balanced(tier, r.weights, NoPicks)
          BY <1>2, <2>2, <3>1, <4>1, RoundBegins DEF T
        <5>3. QED
          BY <3>1, <3>6, <5>1, <5>2
      <4>2. CASE wrr.len = Len(tier.entries) /\ Count(picks) = T
        <5>1. \A e \in Endpoint : wrr.weights[e] = 0
          BY <1>2, <3>1, <3>3, <3>4, <4>2, RoundEnds DEF T
        <5>2. Balanced(tier, r.weights, NoPicks)
          BY <1>2, <2>2, <3>1, <4>2, <5>1, RoundBegins DEF T
        <5>3. QED
          BY <3>1, <3>6, <4>2, <5>2
      <4>3. CASE wrr.len = Len(tier.entries) /\ Count(picks) # T
        BY <2>2, <2>4, <3>3, <3>4, <4>3
      <4>4. QED
        BY <4>1, <4>2, <4>3
    <3> HIDE DEF p
    <3> DEFINE o == Ordered(tier, cold, degraded)
    <3>9. Lists(o, Positions(tier)) /\ Len(o) > 0
      <4>1. Lists(o, Positions(tier))
        BY <1>2, OrderedLists
      <4> HIDE DEF o
      <4>2. Len(o) = Len(tier.entries)
        BY <1>2, <4>1, ListsLength DEF Positions
      <4>3. Len(tier.entries) > 0
        <5> DEFINE list == tier.entries
                   E == [endpoint : Endpoint, weight : Weights]
        <5>1. list \in Seq(E) /\ list # <<>>
          BY <1>1 DEF RoundInv, OrderInv
        <5> HIDE DEF list, E
        <5>2. Len(list) > 0
          BY <5>1
        <5>3. QED
          BY <5>2 DEF list
      <4>4. QED
        BY <4>1, <4>2, <4>3
    <3>10. d = BestEndpoint(tier, r, o)
      BY <1>5 DEF d, r, PickedEntry, order, BestEndpoint
    <3>11. v = Settled(tier, r, d) /\ picks' = WithPick(p, d)
      BY <3>2 DEF v, A, T, Settled, WithPick
    <3> HIDE DEF o
    <3>12. FinePicks(tier, picks') /\ Balanced(tier, v, picks')
      <4>1. r.weights \in [Endpoint -> Int]
        BY <2>2
      <4>2. Count(p) < Total(tier)
        BY <3>8 DEF T
      <4>3. /\ FinePicks(tier, WithPick(p, BestEndpoint(tier, r, o)))
            /\ Balanced(tier, Settled(tier, r, BestEndpoint(tier, r, o)), WithPick(p, BestEndpoint(tier, r, o)))
        BY <1>2, <3>7, <3>8, <3>9, <4>1, <4>2, PickBalances
      <4>4. QED
        BY <3>10, <3>11, <4>3
    <3>13. QED
      BY <1>1, <1>2, <1>3, <1>5, <2>6, <3>1, <3>12 DEF RoundInv, T
  <2>9. QED
    BY <2>7, <2>8
<1>6. QED
  BY <1>4, <1>5

LEMMA RoundStep ==
  ASSUME RoundInv, [OrderNext]_orderVars
  PROVE  RoundInv'
<1>0. OrderInv'
  BY OrderStepKeeps DEF RoundInv
<1>1. CASE UNCHANGED <<tier, wrr, picks>>
  BY <1>0, <1>1 DEF RoundInv
<1>2. CASE CutTier
  <2> DEFINE list == tier.entries
             E == [endpoint : Endpoint, weight : Weights]
  <2>1. /\ list \in Seq(E) /\ list # <<>> /\ wrr' = wrr /\ picks' = NoPicks
        /\ tier' = [tier EXCEPT !.entries = SubSeq(list, 1, Len(list) - 1)]
        /\ tier \in [entries : Seq(E), default : Nat]
    BY <1>2 DEF CutTier, RoundInv, OrderInv
  <2>2. wrr \in [len : Nat, weights : [Endpoint -> Int]] /\ wrr.len >= Len(list)
    BY DEF RoundInv
  <2> HIDE DEF list, E
  <2>3. Len(SubSeq(list, 1, Len(list) - 1)) = Len(list) - 1 /\ Len(list) \in Nat
    <3>1. Len(list) \in Nat /\ Len(list) > 0
      BY <2>1
    <3>2. \A i \in 1..(Len(list) - 1) : list[i] \in E
      BY <2>1, <3>1
    <3>3. 1 \in Int /\ Len(list) - 1 \in Int
      BY <3>1
    <3>4. Len(SubSeq(list, 1, Len(list) - 1)) = IF 1 <= Len(list) - 1 THEN Len(list) - 1 - 1 + 1 ELSE 0
      BY <3>2, <3>3, SubSeqProperties
    <3> DEFINE n == Len(SubSeq(list, 1, Len(list) - 1))
               m == Len(list)
    <3>5. m \in Nat /\ m > 0 /\ n = IF 1 <= m - 1 THEN m - 1 - 1 + 1 ELSE 0
      BY <3>1, <3>4
    <3> HIDE DEF n, m
    <3>6. n = m - 1 /\ m \in Nat
      BY <3>5
    <3>7. QED
      BY <3>6 DEF n, m
  <2>4. tier'.entries = SubSeq(list, 1, Len(list) - 1)
    BY <2>1
  <2>5. wrr.len \in Nat /\ wrr.len >= Len(list)
    BY <2>2
  <2>6. /\ wrr.len # Len(SubSeq(list, 1, Len(list) - 1))
        /\ wrr.len >= Len(SubSeq(list, 1, Len(list) - 1))
    <3> DEFINE n == Len(SubSeq(list, 1, Len(list) - 1))
               m == Len(list)
    <3>1. n = m - 1 /\ m \in Nat /\ wrr.len \in Nat /\ wrr.len >= m
      BY <2>3, <2>5
    <3> HIDE DEF n, m
    <3>2. wrr.len # n /\ wrr.len >= n
      BY <3>1
    <3>3. QED
      BY <3>2 DEF n
  <2>7. FinePicks(tier', NoPicks)
    BY NoPicksFine
  <2>8. QED
    BY <1>0, <2>1, <2>2, <2>4, <2>6, <2>7 DEF RoundInv
<1>3. CASE PickWeighted
  BY <1>3, PickKeepsRound
<1>4. QED
  BY <1>1, <1>2, <1>3 DEF OrderNext, orderVars, ChangeHealth, ChangeVerdict

(* In a round each endpoint is picked as often as its weights say          *)
(* (pick_weighted), for any weights, any changes of health between the     *)
(* picks, and after entries were cut from the tier.                        *)
THEOREM RoundIsFairAlways == OrderSpec => []RoundIsFair
<1>1. OrderInit => RoundInv
  BY RoundInit
<1>2. RoundInv /\ [OrderNext]_orderVars => RoundInv'
  BY RoundStep
<1>3. RoundInv => RoundIsFair
  <2> SUFFICES ASSUME RoundInv, Total(tier) > 0, Count(picks) = Total(tier)
               PROVE  \A e \in Endpoint : picks[e] = WeightOf(tier, EntriesOf(tier, e))
    BY DEF RoundIsFair
  <2>1. picks # NoPicks
    BY NoPicksFine
  <2>2. FineTier(tier)
    BY TierIsFine DEF RoundInv
  <2>3. FinePicks(tier, picks) /\ Balanced(tier, wrr.weights, picks)
    BY <2>1 DEF RoundInv
  <2>4. QED
    BY <2>2, <2>3, RoundEnds
<1>4. QED
  BY <1>1, <1>2, <1>3, PTL DEF OrderSpec

-----------------------------------------------------------------------------
(* Health records.  Every operation on a record gives one.                 *)
LEMMA BackoffBound ==
  ASSUME NEW h \in Record, Trips(h)
  PROVE  Backoff(h, Bumped(h)) \in Nat /\ Backoff(h, Bumped(h)) >= 2
<1> USE WindowsAssumption DEF Record, FailureThreshold
<1>1. CASE h.state = "halfopen"
  BY <1>1 DEF Backoff
<1>2. CASE h.state # "halfopen"
  <2>1. Bumped(h) \in Int /\ Bumped(h) >= 3
    BY <1>2 DEF Trips, Bumped, Lesser
  <2>2. Exponent(Bumped(h)) \in 0..4
    BY <2>1 DEF Exponent, Lesser
  <2> DEFINE d == Doubling[Exponent(Bumped(h)) + 1]
  <2>3. d \in Nat /\ d >= 1
    BY <2>2 DEF Doubling
  <2> HIDE DEF d
  <2>4. BaseWindow * d \in Nat /\ BaseWindow * d >= 2
    BY <2>3
  <2>5. QED
    BY <1>2, <2>4 DEF Backoff, d
<1>3. QED
  BY <1>1, <1>2

(* A failure moves the count on by one, and a window that it opens lasts   *)
(* for at least one tick.                                                  *)
LEMMA FailureResult ==
  ASSUME NEW h \in Record, NEW g \in AfterFailure(h)
  PROVE  /\ g \in Record /\ g.failures = Bumped(h)
         /\ Trips(h) => g.state = "cooling" /\ g.left > 0
         /\ ~Trips(h) => g.state = h.state /\ g.left = h.left
<1>1. Bumped(h) \in 0..FailureCap
  BY WindowsAssumption DEF Bumped, Lesser, Record
<1>2. CASE Trips(h)
  <2> DEFINE b == Backoff(h, Bumped(h))
  <2>1. PICK w \in Jittered(b) : g = [state |-> "cooling", left |-> w, failures |-> Bumped(h)]
    BY <1>2 DEF AfterFailure
  <2>2. PICK v \in ((9 * b) \div 10)..((12 * b) \div 10) : w = Lesser(v, MaxWindow)
    BY DEF Jittered
  <2>3. b \in Nat /\ b >= 2
    BY <1>2, BackoffBound
  <2> HIDE DEF b
  <2>4. (9 * b) \div 10 >= 1
    BY <2>3
  <2>5. v \in Nat /\ v >= 1
    BY <2>2, <2>3, <2>4
  <2>6. w \in Nat /\ w > 0
    BY <2>2, <2>5, WindowsAssumption DEF Lesser
  <2>7. QED
    BY <1>1, <1>2, <2>1, <2>6 DEF Record, HealthState
<1>3. CASE ~Trips(h)
  <2>1. g = [h EXCEPT !.failures = Bumped(h)]
    BY <1>3 DEF AfterFailure
  <2>2. QED
    BY <1>1, <1>3, <2>1 DEF Record
<1>4. QED
  BY <1>2, <1>3

LEMMA FailuresAreRecords ==
  ASSUME NEW h \in Record
  PROVE  AfterFailure(h) \subseteq Record
BY FailureResult

LEMMA RecordsStayRecords ==
  ASSUME NEW h \in Record
  PROVE  /\ AfterSuccess(h) \in Record
         /\ AfterRead(h) \in Record
         /\ AfterProbing(h) \in Record
         /\ AfterTick(h) \in Record
         /\ \A secs \in RetryAfters : AfterRetryAfter(secs) \in Record
<1> USE WindowsAssumption DEF Record, HealthState, FailureThreshold
<1>1. AfterSuccess(h) \in Record
  BY DEF Default, AfterSuccess
<1>2. AfterRead(h) \in Record
  BY DEF AfterRead
<1>3. AfterProbing(h) \in Record
  BY DEF AfterProbing
<1>4. AfterTick(h) \in Record
  BY DEF AfterTick
<1>5. \A secs \in RetryAfters : AfterRetryAfter(secs) \in Record
  BY DEF AfterRetryAfter
<1>6. QED
  BY <1>1, <1>2, <1>3, <1>4, <1>5

-----------------------------------------------------------------------------
(* Requests.  A step of a request is told by what it makes of the fields   *)
(* that may change.                                                        *)
Moves(r, pc, at, attempt, key, probing, last) ==
  req' = [req EXCEPT ![r] =
    [pc |-> pc, tier |-> req[r].tier, route |-> req[r].route, off |-> req[r].off,
     at |-> at, attempt |-> attempt, key |-> key, probing |-> probing, last |-> last]]

Typed ==
  /\ TypeOK
  /\ \A r \in Request : Trying(r) => req[r].attempt < req[r].at

UnderWay(r) == ~At(r, "idle")

LEMMA RequestFields ==
  ASSUME TypeOK, NEW r \in Request, UnderWay(r)
  PROVE  /\ req[r] \in Routing
         /\ req[r].tier \in Tiers /\ req[r].route \in Seq(Endpoint) /\ req[r].off \in SUBSET Provider
         /\ req[r].at \in Nat /\ req[r].attempt \in Nat
         /\ req[r].key \in Key \cup {NoKey} /\ req[r].probing \in BOOLEAN /\ req[r].last \in Status
         /\ Len(req[r].route) \in Nat
         /\ \A n \in DOMAIN req[r].route : req[r].route[n] \in Endpoint
         /\ DOMAIN req[r].route = 1..Len(req[r].route)
<1>1. req[r] \in Routing
  BY DEF TypeOK, UnderWay, At, Idle
<1>2. req[r].route \in Seq(Endpoint)
  BY <1>1 DEF Routing
<1>3. QED
  BY <1>1, <1>2 DEF Routing

(* What a move does to each field.                                         *)
LEMMA MoveFields ==
  ASSUME TypeOK, NEW r \in Request, UnderWay(r),
         NEW pc, NEW at, NEW attempt, NEW key, NEW probing, NEW last,
         Moves(r, pc, at, attempt, key, probing, last)
  PROVE  /\ \A q \in Request : q # r => req'[q] = req[q]
         /\ req'[r].pc = pc /\ req'[r].at = at /\ req'[r].attempt = attempt
         /\ req'[r].key = key /\ req'[r].probing = probing /\ req'[r].last = last
         /\ req'[r].tier = req[r].tier /\ req'[r].route = req[r].route /\ req'[r].off = req[r].off
         /\ pc \in {"count", "pick", "claim", "wait", "answered"} /\ at \in Nat /\ attempt \in Nat
              /\ key \in Key \cup {NoKey} /\ probing \in BOOLEAN /\ last \in Status
            => req' \in [Request -> Routing \cup {Idle}]
<1> DEFINE new == [pc |-> pc, tier |-> req[r].tier, route |-> req[r].route, off |-> req[r].off,
                   at |-> at, attempt |-> attempt, key |-> key, probing |-> probing, last |-> last]
<1>1. req \in [Request -> Routing \cup {Idle}]
  BY DEF TypeOK
<1>2. req' = [req EXCEPT ![r] = new]
  BY DEF Moves
<1>3. pc \in {"count", "pick", "claim", "wait", "answered"} /\ at \in Nat /\ attempt \in Nat
        /\ key \in Key \cup {NoKey} /\ probing \in BOOLEAN /\ last \in Status
      => new \in Routing
  BY RequestFields DEF Routing
<1>4. req'[r] = new /\ \A q \in Request : q # r => req'[q] = req[q]
  BY <1>1, <1>2
<1>5. QED
  BY <1>1, <1>2, <1>3, <1>4

(* Six fields replaced one after the other.                                *)
LEMMA FieldByField ==
  ASSUME TypeOK, NEW r \in Request, UnderWay(r),
         NEW pc, NEW at, NEW attempt, NEW key, NEW probing, NEW last,
         req' = [req EXCEPT ![r].pc = pc, ![r].at = at, ![r].attempt = attempt,
                            ![r].key = key, ![r].probing = probing, ![r].last = last]
  PROVE  Moves(r, pc, at, attempt, key, probing, last)
<1> DEFINE old(p, a, t, k, b, l) ==
             [pc |-> p, tier |-> req[r].tier, route |-> req[r].route, off |-> req[r].off,
              at |-> a, attempt |-> t, key |-> k, probing |-> b, last |-> l]
           With(f, v) == f = [q \in Request |-> f[q]] /\ f[r] = v /\ \A q \in Request : q # r => f[q] = req[q]
           f1 == [req EXCEPT ![r].pc = pc]
           f2 == [f1 EXCEPT ![r].at = at]
           f3 == [f2 EXCEPT ![r].attempt = attempt]
           f4 == [f3 EXCEPT ![r].key = key]
           f5 == [f4 EXCEPT ![r].probing = probing]
           f6 == [f5 EXCEPT ![r].last = last]
<1>1. /\ req \in [Request -> Routing \cup {Idle}]
      /\ req[r] = old(req[r].pc, req[r].at, req[r].attempt, req[r].key, req[r].probing, req[r].last)
  BY RequestFields DEF TypeOK, Routing
<1>2. With(f1, old(pc, req[r].at, req[r].attempt, req[r].key, req[r].probing, req[r].last))
  BY <1>1
<1>3. req' = f6
  OBVIOUS
<1> HIDE DEF f1
<1>4. With(f2, old(pc, at, req[r].attempt, req[r].key, req[r].probing, req[r].last))
  BY <1>2
<1> HIDE DEF f2
<1>5. With(f3, old(pc, at, attempt, req[r].key, req[r].probing, req[r].last))
  BY <1>4
<1> HIDE DEF f3
<1>6. With(f4, old(pc, at, attempt, key, req[r].probing, req[r].last))
  BY <1>5
<1> HIDE DEF f4
<1>7. With(f5, old(pc, at, attempt, key, probing, req[r].last))
  BY <1>6
<1> HIDE DEF f5
<1>8. With(f6, old(pc, at, attempt, key, probing, last))
  BY <1>7
<1> HIDE DEF f6
<1>9. QED
  BY <1>1, <1>3, <1>8 DEF Moves

(* The handler's steps are moves.                                          *)
LEMMA StepsMove ==
  ASSUME TypeOK, NEW r \in Request, UnderWay(r), NEW last
  PROVE  /\ PassOver(r, last) =>
              Moves(r, "pick", req[r].at + 1, req[r].attempt, req[r].key, req[r].probing, last)
         /\ NextCandidate(r, last) =>
              Moves(r, "pick", req[r].at + 1, req[r].attempt + 1, NoKey, FALSE, last)
         /\ NextOrStop(r, last) =>
              LET stop == req[r].attempt + 1 >= MaxAttempts(r) IN
              Moves(r, "pick", IF stop THEN Len(req[r].route) + 1 ELSE req[r].at + 1,
                    req[r].attempt + 1, NoKey, FALSE, last)
         /\ Finish(r, last) => Moves(r, "answered", 1, 0, NoKey, FALSE, last)
<1>1. /\ req \in [Request -> Routing \cup {Idle}]
      /\ req[r] = [pc |-> req[r].pc, tier |-> req[r].tier, route |-> req[r].route, off |-> req[r].off,
                   at |-> req[r].at, attempt |-> req[r].attempt, key |-> req[r].key,
                   probing |-> req[r].probing, last |-> req[r].last]
  BY RequestFields DEF TypeOK, Routing
<1>2. PassOver(r, last) =>
        Moves(r, "pick", req[r].at + 1, req[r].attempt, req[r].key, req[r].probing, last)
  BY <1>1 DEF PassOver, Moves
<1>3. NextCandidate(r, last) =>
        Moves(r, "pick", req[r].at + 1, req[r].attempt + 1, NoKey, FALSE, last)
  <2> DEFINE to == req[r].at + 1
             count == req[r].attempt + 1
  <2>1. NextCandidate(r, last) => req' = [req EXCEPT ![r].pc = "pick", ![r].at = to, ![r].attempt = count,
                                                     ![r].key = NoKey, ![r].probing = FALSE, ![r].last = last]
    BY <1>1 DEF NextCandidate
  <2> HIDE DEF to, count
  <2>2. NextCandidate(r, last) => Moves(r, "pick", to, count, NoKey, FALSE, last)
    BY <2>1, FieldByField
  <2>3. QED
    BY <2>2 DEF to, count
<1>4. NextOrStop(r, last) =>
        LET stop == req[r].attempt + 1 >= MaxAttempts(r) IN
        Moves(r, "pick", IF stop THEN Len(req[r].route) + 1 ELSE req[r].at + 1,
              req[r].attempt + 1, NoKey, FALSE, last)
  <2> DEFINE to == IF req[r].attempt + 1 >= MaxAttempts(r) THEN Len(req[r].route) + 1 ELSE req[r].at + 1
  <2>1. NextOrStop(r, last) => req' = [req EXCEPT ![r].pc = "pick", ![r].at = to, ![r].attempt = @ + 1,
                                                  ![r].key = NoKey, ![r].probing = FALSE, ![r].last = last]
    BY <1>1 DEF NextOrStop
  <2> HIDE DEF to
  <2>2. NextOrStop(r, last) => Moves(r, "pick", to, req[r].attempt + 1, NoKey, FALSE, last)
    BY <1>1, <2>1 DEF Moves
  <2>3. QED
    BY <2>2 DEF to
<1>5. Finish(r, last) => Moves(r, "answered", 1, 0, NoKey, FALSE, last)
  BY FieldByField DEF Finish
<1>6. QED
  BY <1>2, <1>3, <1>4, <1>5

(* The cap on attempts is no less than the number of candidates.           *)
LEMMA AttemptsEnough ==
  ASSUME TypeOK, NEW r \in Request, UnderWay(r)
  PROVE  MaxAttempts(r) \in Nat /\ Len(req[r].route) <= MaxAttempts(r)
<1> DEFINE N == Len(req[r].route)
           keys(i) == Cardinality(KeysOf[ProviderOf[req[r].route[i]]])
           T == {keys(i) : i \in DOMAIN req[r].route}
           counts == {1} \cup T
           f == [i \in 1..N |-> keys(i)]
<1>1. N \in Nat /\ DOMAIN req[r].route = 1..N
  BY RequestFields
<1>2. \A i \in 1..N : keys(i) \in Nat
  <2> TAKE i \in 1..N
  <2>1. ProviderOf[req[r].route[i]] \in Provider
    BY <1>1, RequestFields, RouterAssumption
  <2>2. QED
    BY <2>1, RouterAssumption, FS_CardinalityType
<1>3. f \in Surjection(1..N, T)
  BY <1>1 DEF Surjection
<1> HIDE DEF keys
<1>4. IsFiniteSet(1..N)
  BY <1>1, FS_Interval
<1>5. IsFiniteSet(T)
  <2> HIDE DEF f, T, N
  <2>1. QED
    BY <1>3, <1>4, FS_Surjection
<1>6. IsFiniteSet({1}) /\ IsFiniteSet(counts)
  BY <1>5, FS_Singleton, FS_Union
<1>7. counts \in SUBSET Nat /\ counts \in SUBSET Int /\ 1 \in counts
  BY <1>1, <1>2
<1>8. KeysPerProvider(r) = CHOOSE n \in counts : \A m \in counts : m <= n
  BY DEF KeysPerProvider, keys
<1> HIDE DEF counts
<1>9. \E n \in counts : \A m \in counts : m <= n
  BY <1>6, <1>7, HasGreatest
<1>10. KeysPerProvider(r) \in counts /\ \A m \in counts : m <= KeysPerProvider(r)
  BY <1>8, <1>9
<1>11. KeysPerProvider(r) \in Nat /\ 1 <= KeysPerProvider(r)
  BY <1>7, <1>10
<1> DEFINE K == KeysPerProvider(r)
<1>12. K \in Nat /\ 1 <= K /\ N \in Nat /\ MaxAttempts(r) = N * K
  BY <1>1, <1>11 DEF MaxAttempts
<1> HIDE DEF K, N
<1>13. N * K \in Nat /\ N <= N * K
  BY <1>12
<1>14. QED
  BY <1>12, <1>13 DEF N

-----------------------------------------------------------------------------
(* Why a candidate that is behind a request would not have served it, and  *)
(* stays so: a provider does not get back into the request's copy of the   *)
(* configuration, and a key that was once unusable is never spared again.  *)
Barred(r, e) ==
  KeysOf[ProviderOf[e]] # {} => \E k \in KeysOf[ProviderOf[e]] : ~Works(r, e, k)

(* The candidates that are behind a request: all, once it is answered.     *)
Behind(r) == {n \in DOMAIN req[r].route : ~At(r, "answered") => n < req[r].at}
Unserved(r) == At(r, "answered") => Failed(r)

Fated(r) ==
  UnderWay(r) =>
    /\ \A e \in Offered(r) : \E n \in DOMAIN req[r].route : req[r].route[n] = e
    /\ Unserved(r) => \A n \in Behind(r) : Barred(r, req[r].route[n])

RouterInv == Typed /\ \A r \in Request : Fated(r)

LEMMA RefusedOnlyIfBarred ==
  ASSUME RouterInv
  PROVE  TypeOK /\ FailsOnlyIfNothingWorks
<1>1. ASSUME NEW r \in Request, Failed(r), NEW e \in Offered(r), KeysOf[ProviderOf[e]] # {}
      PROVE  \E k \in KeysOf[ProviderOf[e]] : ~Works(r, e, k)
  <2>1. UnderWay(r) /\ Unserved(r) /\ At(r, "answered")
    BY <1>1 DEF UnderWay, Unserved, Failed, At
  <2>2. PICK n \in DOMAIN req[r].route : req[r].route[n] = e
    BY <1>1, <2>1 DEF RouterInv, Fated
  <2>3. Barred(r, e)
    BY <2>1, <2>2 DEF RouterInv, Fated, Behind
  <2>4. QED
    BY <1>1, <2>3 DEF Barred
<1>2. QED
  BY <1>1 DEF RouterInv, Typed, FailsOnlyIfNothingWorks

(* What has been usable all along only shrinks.                            *)
LEMMA SparedShrinks ==
  ASSUME TypeOK, Observe
  PROVE  /\ spared' \in [Request -> SUBSET (Provider \X Key)]
         /\ \A r \in Request : UnderWay(r) /\ UnderWay(r)' => spared'[r] = spared[r] \cap UsablePairs'
<1>1. UsablePairs' \in SUBSET (Provider \X Key)
  BY DEF UsablePairs
<1>2. spared \in [Request -> SUBSET (Provider \X Key)]
  BY DEF TypeOK
<1>3. QED
  BY <1>1, <1>2 DEF Observe, UnderWay

LEMMA BarredStays ==
  ASSUME NEW r \in Request, sound' = sound, req'[r].off = req[r].off, spared'[r] \subseteq spared[r]
  PROVE  \A e : Barred(r, e) => Barred(r, e)'
BY DEF Barred, Works

(* A step that leaves a request where it is leaves barred what was barred. *)
LEMMA OthersFated ==
  ASSUME NEW q \in Request, Fated(q), sound' = sound, req'[q] = req[q],
         UnderWay(q) /\ UnderWay(q)' => spared'[q] \subseteq spared[q]
  PROVE  Fated(q)'
<1>1. (UnderWay(q)' <=> UnderWay(q)) /\ Offered(q)' = Offered(q)
  BY DEF UnderWay, Offered, At
<1>2. ASSUME UnderWay(q), Unserved(q)', NEW n \in Behind(q)'
      PROVE  Barred(q, req[q].route[n])'
  <2>1. n \in DOMAIN req[q].route /\ Barred(q, req[q].route[n])
    BY <1>2 DEF Fated, Unserved, Failed, Behind, At
  <2>2. req'[q].off = req[q].off /\ spared'[q] \subseteq spared[q]
    BY <1>1, <1>2
  <2>3. PICK e : e = req[q].route[n]
    OBVIOUS
  <2>4. Barred(q, e) => Barred(q, e)'
    BY <2>2, BarredStays
  <2>5. QED
    BY <2>1, <2>3, <2>4 DEF Barred, Works
<1>3. UnderWay(q)' => \A e \in Offered(q)' : \E n \in DOMAIN req'[q].route : req'[q].route[n] = e
  BY <1>1 DEF Fated
<1>4. QED
  BY <1>1, <1>2, <1>3 DEF Fated

(* What the shared state keeps in a step.                                  *)
Shared ==
  /\ health' \in [Endpoint -> Record]
  /\ dead' \subseteq Key
  /\ banned' \subseteq Provider \X Key
  /\ arrived' \in 0..MaxRequests
  /\ sound' = sound

(* A move of a request that keeps the invariant: where it goes next it     *)
(* belongs, and what it leaves behind is barred.                           *)
GoodMove(r, pc, at, attempt, key, probing, last) ==
  /\ ~At(r, "answered")
  /\ Moves(r, pc, at, attempt, key, probing, last)
  /\ pc \in {"count", "pick", "claim", "wait", "answered"} /\ at \in Nat /\ attempt \in Nat
  /\ key \in Key \cup {NoKey} /\ probing \in BOOLEAN /\ last \in Status
  /\ pc \in {"count", "pick"} => attempt < at /\ at <= Len(req[r].route) + 1
  /\ pc \in {"claim", "wait"} =>
       /\ attempt < at /\ at \in DOMAIN req[r].route
       /\ key \in KeysOf[ProviderOf[req[r].route[at]]]
  /\ (pc = "answered" => last # "ok") =>
       \A n \in DOMAIN req[r].route :
         (pc # "answered" => n < at) =>
           n < req[r].at \/ \E e \in {req[r].route[n]} : Barred(r, e)'

LEMMA GoodMoveKeeps ==
  ASSUME RouterInv, Shared, Observe, NEW r \in Request, UnderWay(r),
         NEW pc, NEW at, NEW attempt, NEW key, NEW probing, NEW last,
         GoodMove(r, pc, at, attempt, key, probing, last)
  PROVE  RouterInv'
<1>1. TypeOK /\ Typed /\ \A q \in Request : Fated(q)
  BY DEF RouterInv, Typed
<1>2. /\ \A q \in Request : q # r => req'[q] = req[q]
      /\ req'[r].pc = pc /\ req'[r].at = at /\ req'[r].attempt = attempt
      /\ req'[r].key = key /\ req'[r].probing = probing /\ req'[r].last = last
      /\ req'[r].tier = req[r].tier /\ req'[r].route = req[r].route /\ req'[r].off = req[r].off
      /\ req' \in [Request -> Routing \cup {Idle}]
  BY <1>1, MoveFields DEF GoodMove
<1>3. /\ spared' \in [Request -> SUBSET (Provider \X Key)]
      /\ \A q \in Request : UnderWay(q) /\ UnderWay(q)' => spared'[q] \subseteq spared[q]
  BY <1>1, SparedShrinks
<1>4. Typed'
  <2>1. sound' \subseteq Pairs
    BY <1>1 DEF TypeOK, Shared, Pairs
  <2>2. ASSUME NEW q \in Request, q # r
        PROVE  /\ Looking(q)' => req'[q].attempt < req'[q].at /\ req'[q].at <= Len(req'[q].route) + 1
               /\ Trying(q)' => /\ req'[q].at \in DOMAIN req'[q].route
                                /\ req'[q].key \in KeysOf[Source(q)']
                                /\ req'[q].attempt < req'[q].at
    BY <1>1, <1>2, <2>2 DEF Typed, TypeOK, Looking, Trying, Source, Target
  <2>3. /\ Looking(r)' => req'[r].attempt < req'[r].at /\ req'[r].at <= Len(req'[r].route) + 1
        /\ Trying(r)' => /\ req'[r].at \in DOMAIN req'[r].route
                         /\ req'[r].key \in KeysOf[Source(r)']
                         /\ req'[r].attempt < req'[r].at
    BY <1>2 DEF GoodMove, Looking, Trying, Source, Target
  <2>4. \A q \in Request :
          /\ Looking(q)' => req'[q].attempt < req'[q].at /\ req'[q].at <= Len(req'[q].route) + 1
          /\ Trying(q)' => /\ req'[q].at \in DOMAIN req'[q].route
                           /\ req'[q].key \in KeysOf[Source(q)']
                           /\ req'[q].attempt < req'[q].at
    BY <2>2, <2>3
  <2>5. QED
    BY <1>2, <1>3, <2>1, <2>4 DEF Typed, TypeOK, Shared
<1>5. UnderWay(r)'
  BY <1>2 DEF GoodMove, UnderWay, At
<1>6. Fated(r)'
  <2>1. sound' = sound /\ req'[r].off = req[r].off /\ spared'[r] \subseteq spared[r]
    BY <1>2, <1>3, <1>5 DEF Shared
  <2>2. Offered(r)' = Offered(r)
    BY <1>2 DEF Offered
  <2>3. \A e \in Offered(r)' : \E n \in DOMAIN req'[r].route : req'[r].route[n] = e
    BY <1>1, <1>2, <2>2 DEF Fated
  <2>4. ASSUME Unserved(r)', NEW n \in Behind(r)'
        PROVE  Barred(r, req[r].route[n])'
    <3>1. n \in DOMAIN req[r].route /\ (pc # "answered" => n < at)
      BY <1>2 DEF Behind, At
    <3>2. pc = "answered" => last # "ok"
      BY <1>2, <2>4 DEF Unserved, Failed, At
    <3>3. n < req[r].at \/ \E e \in {req[r].route[n]} : Barred(r, e)'
      BY <3>1, <3>2 DEF GoodMove
    <3>4. n < req[r].at => Barred(r, req[r].route[n])
      BY <1>1, <3>1 DEF Fated, Unserved, Behind, GoodMove
    <3>5. PICK e : e = req[r].route[n]
      OBVIOUS
    <3>6. Barred(r, e) => Barred(r, e)'
      BY <2>1, BarredStays
    <3>7. QED
      BY <1>2, <3>3, <3>4, <3>5, <3>6 DEF Barred, Works
  <2>5. QED
    BY <1>2, <2>3, <2>4 DEF Fated
<1>7. ASSUME NEW q \in Request, q # r
      PROVE  Fated(q)'
  BY <1>1, <1>2, <1>3, <1>7, OthersFated DEF Shared
<1>8. QED
  BY <1>4, <1>6, <1>7 DEF RouterInv

-----------------------------------------------------------------------------
(* The steps of a request under way, one by one.  A request in its loop is *)
(* on a candidate.                                                         *)
LEMMA OnCandidate ==
  ASSUME RouterInv, NEW r \in Request
  PROVE  /\ Looking(r) \/ Trying(r) => UnderWay(r) /\ ~At(r, "answered") /\ req[r].attempt < req[r].at
         /\ At(r, "pick") => Looking(r)
         /\ (At(r, "pick") /\ InLoop(r)) \/ Trying(r) =>
              /\ req[r].at \in DOMAIN req[r].route
              /\ Target(r) \in Endpoint /\ Source(r) \in Provider
              /\ health[Target(r)] \in Record
         /\ Trying(r) => req[r].key \in Key /\ req[r].key \in KeysOf[Source(r)]
<1>1. TypeOK /\ Typed
  BY DEF RouterInv, Typed
<1>2. Looking(r) \/ Trying(r) => UnderWay(r) /\ ~At(r, "answered") /\ req[r].attempt < req[r].at
  BY <1>1 DEF Typed, TypeOK, At, Looking, Trying, UnderWay
<1>7. At(r, "pick") => Looking(r)
  BY DEF At, Looking
<1>3. ASSUME (At(r, "pick") /\ InLoop(r)) \/ Trying(r)
      PROVE  req[r].at \in DOMAIN req[r].route
  BY <1>1, <1>2, <1>3, <1>7, RequestFields DEF TypeOK, InLoop
<1>4. ASSUME (At(r, "pick") /\ InLoop(r)) \/ Trying(r)
      PROVE  Target(r) \in Endpoint /\ Source(r) \in Provider /\ health[Target(r)] \in Record
  <2>1. UnderWay(r)
    BY <1>2, <1>4, <1>7
  <2>2. Target(r) \in Endpoint
    BY <1>1, <1>3, <1>4, <2>1, RequestFields DEF Target
  <2>3. Source(r) \in Provider
    BY <2>2, RouterAssumption DEF Source
  <2>4. health[Target(r)] \in Record
    BY <1>1, <2>2 DEF TypeOK
  <2>5. QED
    BY <2>2, <2>3, <2>4
<1>5. Trying(r) => req[r].key \in Key /\ req[r].key \in KeysOf[Source(r)]
  BY <1>1, <1>4, RouterAssumption DEF TypeOK
<1>6. QED
  BY <1>2, <1>3, <1>4, <1>5, <1>7

(* A move to the next candidate is a good one if the last would not have   *)
(* served the request.                                                     *)
LEMMA BarredBehind ==
  ASSUME RouterInv, NEW r \in Request, req[r].at \in DOMAIN req[r].route, UnderWay(r),
         NEW e, e = Target(r), Barred(r, e)'
  PROVE  \A n \in DOMAIN req[r].route :
           n < req[r].at + 1 => n < req[r].at \/ \E d \in {req[r].route[n]} : Barred(r, d)'
<1> TAKE n \in DOMAIN req[r].route
<1> HAVE n < req[r].at + 1
<1>1. n \in Nat /\ req[r].at \in Nat
  BY RequestFields DEF RouterInv, Typed
<1>2. n = req[r].at => req[r].route[n] = e
  BY DEF Target
<1>3. QED
  BY <1>1, <1>2

LEMMA CountKeeps ==
  ASSUME RouterInv, Observe, NEW r \in Request, CountAccounts(r)
  PROVE  RouterInv'
<1>1. /\ TypeOK /\ UnderWay(r) /\ ~At(r, "answered") /\ Looking(r)
      /\ req[r].attempt < req[r].at
  BY OnCandidate DEF RouterInv, Typed, CountAccounts, Looking, At
<1>2. Shared
  BY <1>1 DEF Shared, CountAccounts, TypeOK
<1>3. /\ req[r].at \in Nat /\ req[r].attempt \in Nat /\ req[r].last \in Status
      /\ req[r].key \in Key \cup {NoKey} /\ req[r].probing \in BOOLEAN
      /\ req[r].at <= Len(req[r].route) + 1
  BY <1>1, RequestFields DEF TypeOK
<1>4. Moves(r, "pick", req[r].at, req[r].attempt, req[r].key, req[r].probing, req[r].last)
  <2>1. /\ req \in [Request -> Routing \cup {Idle}]
        /\ req[r] = [pc |-> req[r].pc, tier |-> req[r].tier, route |-> req[r].route, off |-> req[r].off,
                     at |-> req[r].at, attempt |-> req[r].attempt, key |-> req[r].key,
                     probing |-> req[r].probing, last |-> req[r].last]
    BY <1>1, RequestFields DEF TypeOK, Routing
  <2>2. [req[r] EXCEPT !.pc = "pick"]
          = [pc |-> "pick", tier |-> req[r].tier, route |-> req[r].route, off |-> req[r].off,
             at |-> req[r].at, attempt |-> req[r].attempt, key |-> req[r].key,
             probing |-> req[r].probing, last |-> req[r].last]
    BY <2>1
  <2>3. req' = [req EXCEPT ![r] = [req[r] EXCEPT !.pc = "pick"]]
    BY <2>1 DEF CountAccounts
  <2>4. QED
    BY <2>2, <2>3 DEF Moves
<1>5. GoodMove(r, "pick", req[r].at, req[r].attempt, req[r].key, req[r].probing, req[r].last)
  BY <1>1, <1>3, <1>4 DEF GoodMove
<1>6. QED
  BY <1>1, <1>2, <1>5, GoodMoveKeeps

LEMMA PassedOver ==
  ASSUME RouterInv, Shared, Observe, NEW r \in Request, NEW last \in Status,
         At(r, "pick"), InLoop(r), PassOver(r, last), NEW e, e = Target(r), Barred(r, e)'
  PROVE  RouterInv'
<1>1. /\ TypeOK /\ UnderWay(r) /\ ~At(r, "answered")
      /\ req[r].at \in DOMAIN req[r].route /\ req[r].attempt < req[r].at
  BY OnCandidate DEF RouterInv, Typed
<1>2. Moves(r, "pick", req[r].at + 1, req[r].attempt, req[r].key, req[r].probing, last)
  BY <1>1, StepsMove
<1>3. /\ req[r].at \in Nat /\ req[r].attempt \in Nat
      /\ req[r].key \in Key \cup {NoKey} /\ req[r].probing \in BOOLEAN
      /\ DOMAIN req[r].route = 1..Len(req[r].route) /\ Len(req[r].route) \in Nat
  BY <1>1, RequestFields
<1>4. GoodMove(r, "pick", req[r].at + 1, req[r].attempt, req[r].key, req[r].probing, last)
  BY <1>1, <1>2, <1>3, BarredBehind DEF GoodMove
<1>5. QED
  BY <1>1, <1>4, GoodMoveKeeps

LEMMA SkipDisabledKeeps ==
  ASSUME RouterInv, Observe, NEW r \in Request, SkipDisabled(r)
  PROVE  RouterInv'
<1>1. TypeOK /\ UnderWay(r) /\ At(r, "pick") /\ InLoop(r)
  BY OnCandidate DEF RouterInv, Typed, SkipDisabled
<1>2. Shared
  BY <1>1 DEF Shared, SkipDisabled, TypeOK
<1>3. req[r].last \in Status /\ PassOver(r, req[r].last)
  BY <1>1, RequestFields DEF SkipDisabled
<1>4. req'[r].off = req[r].off
  <2>1. Moves(r, "pick", req[r].at + 1, req[r].attempt, req[r].key, req[r].probing, req[r].last)
    BY <1>1, <1>3, StepsMove
  <2>2. QED
    BY <1>1, <2>1, MoveFields
<1>5. PICK e : e = Target(r)
  OBVIOUS
<1>6. ProviderOf[e] \in req'[r].off
  BY <1>4, <1>5 DEF SkipDisabled, Source
<1>7. Barred(r, e)'
  BY <1>6 DEF Barred, Works
<1>8. QED
  BY <1>1, <1>2, <1>3, <1>5, <1>7, PassedOver

LEMMA SkipKeylessKeeps ==
  ASSUME RouterInv, Observe, NEW r \in Request, SkipKeyless(r)
  PROVE  RouterInv'
<1>1. TypeOK /\ UnderWay(r) /\ At(r, "pick") /\ InLoop(r)
  BY OnCandidate DEF RouterInv, Typed, SkipKeyless
<1>2. Shared
  BY <1>1 DEF Shared, SkipKeyless, TypeOK
<1>3. "unauthorized" \in Status /\ PassOver(r, "unauthorized")
  BY DEF SkipKeyless, Status
<1>4. req'[r].pc = "pick"
  <2>1. Moves(r, "pick", req[r].at + 1, req[r].attempt, req[r].key, req[r].probing, "unauthorized")
    BY <1>1, <1>3, StepsMove
  <2>2. QED
    BY <1>1, <2>1, MoveFields
<1>5. UnderWay(r)'
  BY <1>4 DEF UnderWay, At
<1>6. spared'[r] = spared[r] \cap UsablePairs'
  BY <1>1, <1>5, SparedShrinks
<1>7. PICK e : e = Target(r)
  OBVIOUS
<1>8. \A k : <<ProviderOf[e], k>> \notin UsablePairs'
  BY <1>7 DEF SkipKeyless, Source, UsablePairs, Usable
<1>9. Barred(r, e)'
  BY <1>6, <1>8 DEF Barred, Works
<1>10. QED
  BY <1>1, <1>2, <1>3, <1>7, <1>9, PassedOver

LEMMA PickKeyKeeps ==
  ASSUME RouterInv, Observe, NEW r \in Request, PickKey(r)
  PROVE  RouterInv'
<1>1. /\ TypeOK /\ UnderWay(r) /\ ~At(r, "answered")
      /\ req[r].at \in DOMAIN req[r].route /\ req[r].attempt < req[r].at
  BY OnCandidate DEF RouterInv, Typed, PickKey
<1>2. Shared
  BY <1>1 DEF Shared, PickKey, TypeOK
<1>3. PICK k \in Usable(Source(r)), pc \in {"claim", "wait"}, probing \in BOOLEAN :
        req' = [req EXCEPT ![r].pc = pc, ![r].key = k, ![r].probing = probing]
  <2> DEFINE halfOpen == health[Target(r)].state = "halfopen"
  <2>1. PICK k \in Usable(Source(r)) :
          req' = [req EXCEPT ![r].pc = IF halfOpen THEN "claim" ELSE "wait", ![r].key = k, ![r].probing = halfOpen]
    BY DEF PickKey
  <2>2. CASE halfOpen
    <3>1. req' = [req EXCEPT ![r].pc = "claim", ![r].key = k, ![r].probing = TRUE]
      BY <2>1, <2>2
    <3>2. QED
      BY <3>1
  <2>3. CASE ~halfOpen
    <3>1. req' = [req EXCEPT ![r].pc = "wait", ![r].key = k, ![r].probing = FALSE]
      BY <2>1, <2>3
    <3>2. QED
      BY <3>1
  <2>4. QED
    BY <2>2, <2>3
<1>4. req' = [req EXCEPT ![r].pc = pc, ![r].at = req[r].at, ![r].attempt = req[r].attempt,
                         ![r].key = k, ![r].probing = probing, ![r].last = req[r].last]
  <2>1. req \in [Request -> Routing \cup {Idle}] /\ req[r] \in Routing
    BY <1>1, RequestFields DEF TypeOK
  <2>2. [req[r] EXCEPT !.pc = pc, !.key = k, !.probing = probing]
          = [req[r] EXCEPT !.pc = pc, !.at = req[r].at, !.attempt = req[r].attempt,
                           !.key = k, !.probing = probing, !.last = req[r].last]
    BY <2>1 DEF Routing
  <2>3. QED
    BY <1>3, <2>1, <2>2
<1>5. Moves(r, pc, req[r].at, req[r].attempt, k, probing, req[r].last)
  BY <1>1, <1>4, FieldByField
<1>6. /\ req[r].at \in Nat /\ req[r].attempt \in Nat /\ req[r].last \in Status
      /\ DOMAIN req[r].route = 1..Len(req[r].route) /\ Len(req[r].route) \in Nat
  BY <1>1, RequestFields
<1>7. k \in KeysOf[Source(r)] /\ Source(r) = ProviderOf[req[r].route[req[r].at]] /\ k \in Key
  <2>1. k \in KeysOf[Source(r)] /\ Source(r) \in Provider
    BY OnCandidate DEF Usable, PickKey
  <2>2. QED
    BY <2>1, RouterAssumption DEF Source, Target
<1>8. GoodMove(r, pc, req[r].at, req[r].attempt, k, probing, req[r].last)
  BY <1>1, <1>3, <1>5, <1>6, <1>7 DEF GoodMove
<1>9. QED
  BY <1>1, <1>2, <1>8, GoodMoveKeeps

LEMMA ClaimProbeKeeps ==
  ASSUME RouterInv, Observe, NEW r \in Request, ClaimProbe(r)
  PROVE  RouterInv'
<1>1. /\ TypeOK /\ UnderWay(r) /\ ~At(r, "answered") /\ req[r].attempt < req[r].at
      /\ req[r].at \in DOMAIN req[r].route /\ req[r].key \in KeysOf[Source(r)] /\ req[r].key \in Key
      /\ Target(r) \in Endpoint /\ health[Target(r)] \in Record
  BY OnCandidate DEF RouterInv, Typed, ClaimProbe, Trying, At
<1>2. Shared
  <2> DEFINE e == Target(r)
             new == IF health[e].state = "halfopen" THEN AfterProbing(health[e]) ELSE health[e]
  <2>1. new \in Record
    BY <1>1, RecordsStayRecords
  <2>2. health' = [health EXCEPT ![e] = new]
    BY DEF ClaimProbe, Store
  <2> HIDE DEF new, e
  <2>3. health' \in [Endpoint -> Record]
    BY <1>1, <2>1, <2>2 DEF TypeOK
  <2>4. QED
    BY <1>1, <2>3 DEF Shared, ClaimProbe, TypeOK
<1>3. /\ req[r].at \in Nat /\ req[r].attempt \in Nat /\ req[r].last \in Status
      /\ req[r].key \in Key \cup {NoKey} /\ req[r].probing \in BOOLEAN
      /\ DOMAIN req[r].route = 1..Len(req[r].route) /\ Len(req[r].route) \in Nat
  BY <1>1, RequestFields
<1>4. Moves(r, "wait", req[r].at, req[r].attempt, req[r].key, req[r].probing, req[r].last)
  <2>1. req' = [req EXCEPT ![r].pc = "wait", ![r].at = req[r].at, ![r].attempt = req[r].attempt,
                           ![r].key = req[r].key, ![r].probing = req[r].probing, ![r].last = req[r].last]
    BY <1>1, RequestFields DEF ClaimProbe, TypeOK, Routing
  <2>2. QED
    BY <1>1, <2>1, FieldByField
<1>5. GoodMove(r, "wait", req[r].at, req[r].attempt, req[r].key, req[r].probing, req[r].last)
  BY <1>1, <1>3, <1>4 DEF GoodMove, Source, Target
<1>6. QED
  BY <1>1, <1>2, <1>5, GoodMoveKeeps

(* The status of an attempt is charged to its endpoint, if to any.         *)
LEMMA ChargeIsShared ==
  ASSUME RouterInv, NEW e \in Endpoint, NEW h \in Record, Store(e, h)
  PROVE  health' \in [Endpoint -> Record]
BY DEF RouterInv, Typed, TypeOK, Store

LEMMA SucceedKeeps ==
  ASSUME RouterInv, Observe, NEW r \in Request, Succeed(r)
  PROVE  RouterInv'
<1>1. /\ TypeOK /\ UnderWay(r) /\ ~At(r, "answered")
      /\ Target(r) \in Endpoint /\ health[Target(r)] \in Record
  BY OnCandidate DEF RouterInv, Typed, Succeed, Trying, At
<1>2. Shared
  <2>1. health' \in [Endpoint -> Record]
    BY <1>1, RecordsStayRecords, ChargeIsShared DEF Succeed
  <2>2. QED
    BY <1>1, <2>1 DEF Shared, Succeed, TypeOK
<1>3. Moves(r, "answered", 1, 0, NoKey, FALSE, "ok")
  BY <1>1, StepsMove DEF Succeed
<1>4. GoodMove(r, "answered", 1, 0, NoKey, FALSE, "ok")
  BY <1>1, <1>3 DEF GoodMove, Status
<1>5. QED
  BY <1>1, <1>2, <1>4, GoodMoveKeeps

(* An attempt that fails shows that the candidate would not have served    *)
(* the request with every key.                                             *)
LEMMA TurnedDown ==
  ASSUME RouterInv, NEW r \in Request, At(r, "wait"), ~Serves(r), sound' = sound,
         NEW e, e = Target(r)
  PROVE  Barred(r, e)'
<1>1. req[r].key \in KeysOf[ProviderOf[e]]
  BY OnCandidate DEF Trying, At, Source
<1>2. <<e, req[r].key>> \notin sound'
  BY DEF Serves
<1>3. QED
  BY <1>1, <1>2 DEF Barred, Works

LEMMA NextCandidateKeeps ==
  ASSUME RouterInv, Shared, Observe, NEW r \in Request, NEW last \in Status,
         At(r, "wait"), ~Serves(r), NextCandidate(r, last)
  PROVE  RouterInv'
<1>1. /\ TypeOK /\ UnderWay(r) /\ ~At(r, "answered") /\ req[r].attempt < req[r].at
      /\ req[r].at \in DOMAIN req[r].route
  BY OnCandidate DEF RouterInv, Typed, Trying, At
<1>2. Moves(r, "pick", req[r].at + 1, req[r].attempt + 1, NoKey, FALSE, last)
  BY <1>1, StepsMove
<1>3. /\ req[r].at \in Nat /\ req[r].attempt \in Nat
      /\ DOMAIN req[r].route = 1..Len(req[r].route) /\ Len(req[r].route) \in Nat
  BY <1>1, RequestFields
<1>4. PICK e : e = Target(r)
  OBVIOUS
<1>5. Barred(r, e)'
  BY <1>4, TurnedDown DEF Shared
<1>6. \A n \in DOMAIN req[r].route :
        n < req[r].at + 1 => n < req[r].at \/ \E d \in {req[r].route[n]} : Barred(r, d)'
  BY <1>1, <1>4, <1>5, BarredBehind
<1>7. GoodMove(r, "pick", req[r].at + 1, req[r].attempt + 1, NoKey, FALSE, last)
  <2>1. /\ req[r].at + 1 \in Nat /\ req[r].attempt + 1 \in Nat
        /\ req[r].attempt + 1 < req[r].at + 1 /\ req[r].at + 1 <= Len(req[r].route) + 1
    BY <1>1, <1>3, <1>6
  <2>2. \A n \in DOMAIN req[r].route :
          n < req[r].at + 1 => n < req[r].at \/ \E d \in {req[r].route[n]} : Barred(r, d)'
    BY <1>6
  <2>3. QED
    BY <1>1, <1>2, <2>1, <2>2 DEF GoodMove
<1>8. QED
  BY <1>1, <1>7, GoodMoveKeeps

(* To stop at the cap on attempts is to have tried the last candidate.     *)
LEMMA NextOrStopKeeps ==
  ASSUME RouterInv, Shared, Observe, NEW r \in Request, NEW last \in Status,
         At(r, "wait"), ~Serves(r), NextOrStop(r, last)
  PROVE  RouterInv'
<1>1. /\ TypeOK /\ UnderWay(r) /\ ~At(r, "answered") /\ req[r].attempt < req[r].at
      /\ req[r].at \in DOMAIN req[r].route
  BY OnCandidate DEF RouterInv, Typed, Trying, At
<1> DEFINE to == IF req[r].attempt + 1 >= MaxAttempts(r) THEN Len(req[r].route) + 1 ELSE req[r].at + 1
<1>2. Moves(r, "pick", to, req[r].attempt + 1, NoKey, FALSE, last)
  BY <1>1, StepsMove
<1>3. /\ req[r].at \in Nat /\ req[r].attempt \in Nat
      /\ DOMAIN req[r].route = 1..Len(req[r].route) /\ Len(req[r].route) \in Nat
  BY <1>1, RequestFields
<1>4. to = req[r].at + 1
  <2>1. MaxAttempts(r) \in Nat /\ Len(req[r].route) <= MaxAttempts(r)
    BY <1>1, AttemptsEnough
  <2>2. req[r].attempt + 1 >= MaxAttempts(r) => req[r].at = Len(req[r].route)
    BY <1>1, <1>3, <2>1
  <2>3. QED
    BY <2>2
<1> HIDE DEF to
<1>5. PICK e : e = Target(r)
  OBVIOUS
<1>6. Barred(r, e)'
  BY <1>5, TurnedDown DEF Shared
<1>7. \A n \in DOMAIN req[r].route :
        n < req[r].at + 1 => n < req[r].at \/ \E d \in {req[r].route[n]} : Barred(r, d)'
  BY <1>1, <1>5, <1>6, BarredBehind
<1>8. GoodMove(r, "pick", to, req[r].attempt + 1, NoKey, FALSE, last)
  <2>1. /\ to \in Nat /\ req[r].attempt + 1 \in Nat
        /\ req[r].attempt + 1 < to /\ to <= Len(req[r].route) + 1
    BY <1>1, <1>3, <1>4, <1>7
  <2>2. \A n \in DOMAIN req[r].route :
          n < to => n < req[r].at \/ \E d \in {req[r].route[n]} : Barred(r, d)'
    BY <1>7, <1>4
  <2>3. QED
    BY <1>1, <1>2, <2>1, <2>2 DEF GoodMove
<1>9. QED
  BY <1>1, <1>8, GoodMoveKeeps

LEMMA FailKeeps ==
  ASSUME RouterInv, Observe, NEW r \in Request, Fail(r)
  PROVE  RouterInv'
<1>1. TypeOK /\ Target(r) \in Endpoint /\ health[Target(r)] \in Record
  BY OnCandidate DEF RouterInv, Typed, Fail, Trying, At
<1>2. Shared
  <2>1. PICK h \in AfterFailure(health[Target(r)]) : Store(Target(r), h)
    BY DEF Fail
  <2>2. h \in Record
    BY <1>1, <2>1, FailuresAreRecords
  <2>3. health' \in [Endpoint -> Record]
    BY <1>1, <2>1, <2>2, ChargeIsShared
  <2>4. QED
    BY <1>1, <2>3 DEF Shared, Fail, TypeOK
<1>3. PICK last \in Status : NextOrStop(r, last)
  BY DEF Fail, Status
<1>4. QED
  BY <1>2, <1>3, NextOrStopKeeps DEF Fail

LEMMA RejectKeyKeeps ==
  ASSUME RouterInv, Observe, NEW r \in Request, RejectKey(r)
  PROVE  RouterInv'
<1>1. TypeOK /\ req[r].key \in Key
  BY OnCandidate DEF RouterInv, Typed, RejectKey, Trying, At
<1>2. Shared
  BY <1>1 DEF Shared, RejectKey, TypeOK
<1>3. NextCandidate(r, "unauthorized") /\ "unauthorized" \in Status
  BY DEF RejectKey, Status
<1>4. QED
  BY <1>2, <1>3, NextCandidateKeeps DEF RejectKey

LEMMA QuotaKeeps ==
  ASSUME RouterInv, Observe, NEW r \in Request, Quota(r)
  PROVE  RouterInv'
<1>1. /\ TypeOK /\ Target(r) \in Endpoint /\ health[Target(r)] \in Record
      /\ Source(r) \in Provider /\ req[r].key \in Key
  BY OnCandidate DEF RouterInv, Typed, Quota, Trying, At
<1>2. health' \in [Endpoint -> Record]
  <2>1. CASE \E secs \in RetryAfters : Store(Target(r), AfterRetryAfter(secs))
    BY <1>1, <2>1, RecordsStayRecords, ChargeIsShared
  <2>2. CASE \E h \in AfterFailure(health[Target(r)]) : Store(Target(r), h)
    BY <1>1, <2>2, FailuresAreRecords, ChargeIsShared
  <2>3. CASE UNCHANGED health
    BY <1>1, <2>3 DEF TypeOK
  <2>4. QED
    BY <2>1, <2>2, <2>3 DEF Quota
<1>3. Shared
  <2>1. banned' \subseteq Provider \X Key
    BY <1>1 DEF Quota, TypeOK
  <2>2. QED
    BY <1>1, <1>2, <2>1 DEF Shared, Quota, TypeOK
<1>4. NextCandidate(r, "quota") /\ "quota" \in Status
  BY DEF Quota, Status
<1>5. QED
  BY <1>3, <1>4, NextCandidateKeeps DEF Quota

LEMMA OtherKeeps ==
  ASSUME RouterInv, Observe, NEW r \in Request, Other(r)
  PROVE  RouterInv'
<1>1. Shared
  BY DEF Shared, Other, TypeOK, RouterInv, Typed
<1>2. NextCandidate(r, "unavailable") /\ "unavailable" \in Status
  BY DEF Other, Status
<1>3. QED
  BY <1>1, <1>2, NextCandidateKeeps DEF Other

(* The loop is left only past the last candidate: there are no more        *)
(* candidates than attempts.                                               *)
LEMMA ExhaustKeeps ==
  ASSUME RouterInv, Observe, NEW r \in Request, Exhaust(r)
  PROVE  RouterInv'
<1>1. TypeOK /\ UnderWay(r) /\ ~At(r, "answered") /\ At(r, "pick")
  BY OnCandidate DEF RouterInv, Typed, Exhaust
<1>2. Shared
  BY <1>1 DEF Shared, Exhaust, TypeOK
<1>3. /\ req[r].at \in Nat /\ req[r].last \in Status
      /\ DOMAIN req[r].route = 1..Len(req[r].route) /\ Len(req[r].route) \in Nat
  BY <1>1, RequestFields
<1>4. Moves(r, "answered", 1, 0, NoKey, FALSE, req[r].last)
  BY <1>1, StepsMove DEF Exhaust
<1>5. \A n \in DOMAIN req[r].route : n < req[r].at
  <2>1. MaxAttempts(r) \in Nat /\ Len(req[r].route) <= MaxAttempts(r)
    BY <1>1, AttemptsEnough
  <2>2. req[r].at > Len(req[r].route)
    BY <1>3, <2>1 DEF Exhaust, InLoop
  <2>3. QED
    BY <1>3, <2>2
<1>6. GoodMove(r, "answered", 1, 0, NoKey, FALSE, req[r].last)
  BY <1>1, <1>3, <1>4, <1>5 DEF GoodMove
<1>7. QED
  BY <1>1, <1>2, <1>6, GoodMoveKeeps

-----------------------------------------------------------------------------
(* What a request may resolve to has the shape that Ordered expects.       *)
LEMMA TiersFine ==
  ASSUME NEW tr \in Tiers
  PROVE  /\ Len(tr.entries) \in Nat
         /\ \A i \in Positions(tr) : Weight(tr, i) \in Int /\ tr.entries[i].endpoint \in Endpoint
<1> DEFINE Entry == [endpoint : Endpoint, weight : Nat]
<1>1. tr.entries \in Seq(Entry)
  BY RouterAssumption
<1> HIDE DEF Entry
<1>2. Len(tr.entries) \in Nat /\ \A i \in 1..Len(tr.entries) : tr.entries[i] \in Entry
  BY <1>1
<1>3. QED
  BY <1>2 DEF Positions, Weight, Entry

(* The candidates of a request that arrives are its tier's entries.        *)
LEMMA RouteOfTier ==
  ASSUME NEW tr \in Tiers, NEW C, NEW G, NEW o, o = Ordered(tr, C, G),
         NEW route, route = [i \in DOMAIN o |-> tr.entries[o[i]].endpoint]
  PROVE  /\ route \in Seq(Endpoint) /\ Len(route) = Len(o) /\ Len(o) \in Nat
         /\ DOMAIN route = 1..Len(o)
         /\ \A i \in Positions(tr) : \E n \in DOMAIN route : route[n] = tr.entries[i].endpoint
<1>1. Lists(o, Positions(tr))
  BY TiersFine, OrderedLists
<1>2. /\ Len(o) \in Nat /\ o \in [1..Len(o) -> Positions(tr)] /\ DOMAIN o = 1..Len(o)
      /\ \A i \in Positions(tr) : \E n \in 1..Len(o) : o[n] = i
  BY <1>1 DEF Lists
<1>3. route \in [1..Len(o) -> Endpoint]
  BY <1>2, TiersFine
<1>4. route \in Seq(Endpoint) /\ Len(route) = Len(o)
  BY <1>2, <1>3, SeqDef
<1>5. QED
  BY <1>2, <1>4

LEMMA ArriveKeeps ==
  ASSUME RouterInv, Observe, NEW r \in Request, Arrive(r)
  PROVE  RouterInv'
<1>1. TypeOK /\ Typed /\ \A q \in Request : Fated(q)
  BY DEF RouterInv, Typed
<1>2. PICK tr \in Tiers, off \in OffSets, G \in SUBSET Endpoint :
        LET listed == {tr.entries[i].endpoint : i \in Positions(tr)}
            read   == [e \in Endpoint |-> IF e \in listed THEN AfterRead(health[e]) ELSE health[e]]
            o      == Ordered(tr, {e \in listed : IsCooling(read[e])}, G)
        IN  /\ G \subseteq listed
            /\ health' = read
            /\ req' = [req EXCEPT ![r] =
                 [pc |-> IF o = <<>> THEN "answered" ELSE "count", tier |-> tr,
                  route |-> [i \in DOMAIN o |-> tr.entries[o[i]].endpoint],
                  off |-> off, at |-> 1, attempt |-> 0,
                  key |-> NoKey, probing |-> FALSE, last |-> "unavailable"]]
  BY Zenon DEF Arrive
<1> DEFINE listed == {tr.entries[i].endpoint : i \in Positions(tr)}
           read   == [e \in Endpoint |-> IF e \in listed THEN AfterRead(health[e]) ELSE health[e]]
           o      == Ordered(tr, {e \in listed : IsCooling(read[e])}, G)
           route  == [i \in DOMAIN o |-> tr.entries[o[i]].endpoint]
           pc     == IF o = <<>> THEN "answered" ELSE "count"
           new    == [pc |-> pc, tier |-> tr, route |-> route, off |-> off, at |-> 1, attempt |-> 0,
                      key |-> NoKey, probing |-> FALSE, last |-> "unavailable"]
<1>3. health' \in [Endpoint -> Record]
  <2>1. \A e \in Endpoint : health[e] \in Record /\ AfterRead(health[e]) \in Record
    BY <1>1, RecordsStayRecords DEF TypeOK
  <2>2. read \in [Endpoint -> Record]
    BY <2>1
  <2>3. QED
    BY <1>2, <2>2
<1>4. req' = [req EXCEPT ![r] = new]
  BY <1>2
<1>5. /\ route \in Seq(Endpoint) /\ Len(route) = Len(o) /\ Len(o) \in Nat /\ DOMAIN route = 1..Len(o)
      /\ \A i \in Positions(tr) : \E n \in DOMAIN route : route[n] = tr.entries[i].endpoint
  <2> DEFINE C == {e \in listed : IsCooling(read[e])}
  <2> HIDE DEF C
  <2>1. o = Ordered(tr, C, G)
    BY DEF C
  <2> HIDE DEF o
  <2>2. QED
    BY <2>1, RouteOfTier
<1>6. o = <<>> => Len(o) = 0
  BY EmptySeq
<1> HIDE DEF o, route
<1>7. new \in Routing
  <2>1. off \in SUBSET Provider
    BY RouterAssumption
  <2>2. QED
    BY <1>5, <2>1 DEF Routing, Status
<1>8. /\ req' \in [Request -> Routing \cup {Idle}] /\ req'[r] = new
      /\ \A q \in Request : q # r => req'[q] = req[q]
  BY <1>1, <1>4, <1>7 DEF TypeOK
<1>9. sound' = sound /\ dead' = dead /\ banned' = banned /\ arrived' \in 0..MaxRequests
  <2>1. arrived < MaxRequests /\ arrived' = arrived + 1 /\ UNCHANGED <<sound, dead, banned>>
    BY DEF Arrive
  <2>2. arrived \in 0..MaxRequests /\ MaxRequests \in Nat
    BY <1>1, RouterAssumption DEF TypeOK
  <2>3. QED
    BY <2>1, <2>2
<1>10. /\ spared' \in [Request -> SUBSET (Provider \X Key)]
       /\ \A q \in Request : UnderWay(q) /\ UnderWay(q)' => spared'[q] \subseteq spared[q]
  BY <1>1, SparedShrinks
<1>11. ASSUME NEW q \in Request
       PROVE  /\ Looking(q)' => req'[q].attempt < req'[q].at /\ req'[q].at <= Len(req'[q].route) + 1
              /\ Trying(q)' => /\ req'[q].at \in DOMAIN req'[q].route
                               /\ req'[q].key \in KeysOf[Source(q)']
                               /\ req'[q].attempt < req'[q].at
  <2>1. CASE q = r
    BY <1>5, <1>8, <2>1 DEF Looking, Trying
  <2>2. CASE q # r
    BY <1>1, <1>8, <2>2 DEF Typed, TypeOK, Looking, Trying, Source, Target
  <2>3. QED
    BY <2>1, <2>2
<1>12. Typed'
  BY <1>1, <1>3, <1>8, <1>9, <1>10, <1>11 DEF Typed, TypeOK, Pairs
<1>13. ASSUME NEW q \in Request
       PROVE  Fated(q)'
  <2>1. CASE q = r
    <3>1. Behind(r)' = {}
      BY <1>5, <1>6, <1>8 DEF Behind, At
    <3>2. \A e \in Offered(r)' : \E n \in DOMAIN req'[r].route : req'[r].route[n] = e
      BY <1>5, <1>8 DEF Offered
    <3>3. QED
      BY <2>1, <3>1, <3>2 DEF Fated
  <2>2. CASE q # r
    BY <1>1, <1>8, <1>9, <1>10, <2>2, OthersFated
  <2>3. QED
    BY <2>1, <2>2
<1>14. QED
  BY <1>12, <1>13 DEF RouterInv

LEMMA LeaveKeeps ==
  ASSUME RouterInv, Observe, NEW r \in Request, Leave(r)
  PROVE  RouterInv'
<1>1. TypeOK /\ Typed /\ \A q \in Request : Fated(q)
  BY DEF RouterInv, Typed
<1>2. /\ req' \in [Request -> Routing \cup {Idle}] /\ req'[r] = Idle
      /\ \A q \in Request : q # r => req'[q] = req[q]
  BY <1>1 DEF TypeOK, Leave
<1>3. /\ spared' \in [Request -> SUBSET (Provider \X Key)]
      /\ \A q \in Request : UnderWay(q) /\ UnderWay(q)' => spared'[q] \subseteq spared[q]
  BY <1>1, SparedShrinks
<1>4. ~Looking(r)' /\ ~Trying(r)' /\ ~UnderWay(r)'
  BY <1>2 DEF At, Looking, Trying, UnderWay, Idle
<1>5. ASSUME NEW q \in Request
      PROVE  /\ Looking(q)' => req'[q].attempt < req'[q].at /\ req'[q].at <= Len(req'[q].route) + 1
             /\ Trying(q)' => /\ req'[q].at \in DOMAIN req'[q].route
                              /\ req'[q].key \in KeysOf[Source(q)']
                              /\ req'[q].attempt < req'[q].at
  <2>1. CASE q = r
    BY <1>4, <2>1
  <2>2. CASE q # r
    BY <1>1, <1>2, <2>2 DEF Typed, TypeOK, Looking, Trying, Source, Target
  <2>3. QED
    BY <2>1, <2>2
<1>6. Typed'
  BY <1>1, <1>2, <1>3, <1>5 DEF Typed, TypeOK, Pairs, Leave
<1>7. ASSUME NEW q \in Request
      PROVE  Fated(q)'
  <2>1. CASE q = r
    BY <1>4, <2>1 DEF Fated
  <2>2. CASE q # r
    BY <1>1, <1>2, <1>3, <2>2, OthersFated DEF Leave
  <2>3. QED
    BY <2>1, <2>2
<1>8. QED
  BY <1>6, <1>7 DEF RouterInv

(* Time, the end of a ban, and steps of nobody move no request.            *)
LEMMA NobodyMoves ==
  ASSUME RouterInv, Shared, req' = req,
         spared' \in [Request -> SUBSET (Provider \X Key)],
         \A q \in Request : UnderWay(q) => spared'[q] \subseteq spared[q]
  PROVE  RouterInv'
<1>1. TypeOK /\ Typed /\ \A q \in Request : Fated(q)
  BY DEF RouterInv, Typed
<1>2. Typed'
  BY <1>1 DEF Typed, TypeOK, Shared, Pairs, Looking, Trying, Source, Target
<1>3. \A q \in Request : Fated(q)'
  BY <1>1, OthersFated DEF Shared
<1>4. QED
  BY <1>2, <1>3 DEF RouterInv

LEMMA TimeKeeps ==
  ASSUME RouterInv, Observe, Tick \/ \E pk \in Provider \X Key : BanExpires(pk)
  PROVE  RouterInv'
<1>1. TypeOK
  BY DEF RouterInv, Typed
<1>2. req' = req
  BY DEF Tick, BanExpires
<1>3. /\ spared' \in [Request -> SUBSET (Provider \X Key)]
      /\ \A q \in Request : UnderWay(q) => spared'[q] \subseteq spared[q]
  BY <1>1, <1>2, SparedShrinks DEF UnderWay, At
<1>4. Shared
  <2>1. \A e \in Endpoint : AfterTick(health[e]) \in Record
    BY <1>1, RecordsStayRecords DEF TypeOK
  <2>2. QED
    BY <1>1, <2>1 DEF Tick, BanExpires, Shared, TypeOK
<1>5. QED
  BY <1>2, <1>3, <1>4, NobodyMoves

LEMMA RouterInitFine ==
  ASSUME Init
  PROVE  RouterInv
BY RouterAssumption DEF Init, RouterInv, Typed, TypeOK, Fated, UnderWay, At, Looking, Trying, Idle

LEMMA RouterStepKeeps ==
  ASSUME RouterInv, [Next /\ Observe]_<<vars, spared>>
  PROVE  RouterInv'
<1>1. ASSUME Observe, NEW r \in Request, Continue(r)
      PROVE  RouterInv'
  BY <1>1, SkipDisabledKeeps, SkipKeylessKeeps, PickKeyKeeps, ClaimProbeKeeps, ExhaustKeeps DEF Continue
<1>2. ASSUME Observe, NEW r \in Request, Answer(r)
      PROVE  RouterInv'
  BY <1>2, SucceedKeeps, FailKeeps, RejectKeyKeeps, QuotaKeeps, OtherKeeps DEF Answer
<1>3. ASSUME Observe, Next
      PROVE  RouterInv'
  BY <1>1, <1>2, <1>3, ArriveKeeps, CountKeeps, LeaveKeeps, TimeKeeps DEF Next
<1>4. CASE UNCHANGED <<vars, spared>>
  <2>1. Shared /\ req' = req /\ spared' = spared /\ spared \in [Request -> SUBSET (Provider \X Key)]
    BY <1>4 DEF vars, RouterInv, Typed, TypeOK, Shared
  <2>2. QED
    BY <2>1, NobodyMoves
<1>5. QED
  BY <1>3, <1>4

-----------------------------------------------------------------------------
(* For any endpoints, providers, keys, requests and tiers: a request on a  *)
(* candidate has one to be on, with a key of that candidate's provider,    *)
(* and has used up fewer attempts than places.                             *)
THEOREM RequestsOnCandidates == Spec => []TypeOK
<1>1. Init => RouterInv
  BY RouterInitFine
<1>2. RouterInv /\ [Next /\ Observe]_<<vars, spared>> => RouterInv'
  BY RouterStepKeeps
<1>3. RouterInv => TypeOK
  BY RefusedOnlyIfBarred
<1>4. QED
  BY <1>1, <1>2, <1>3, PTL DEF Spec

(* For any of them: a request is refused only if each of its candidates    *)
(* had a key, at least, that would not have served it.                     *)
THEOREM RefusedOnlyIfNothingWorks == Spec => []FailsOnlyIfNothingWorks
<1>1. Init => RouterInv
  BY RouterInitFine
<1>2. RouterInv /\ [Next /\ Observe]_<<vars, spared>> => RouterInv'
  BY RouterStepKeeps
<1>3. RouterInv => FailsOnlyIfNothingWorks
  BY RefusedOnlyIfBarred
<1>4. QED
  BY <1>1, <1>2, <1>3, PTL DEF Spec

-----------------------------------------------------------------------------
(* Who is harmed.  An attempt that fails shows a flaw of its endpoint and  *)
(* its key.                                                                *)
LEMMA FailureShowsFlaw ==
  ASSUME RouterInv, NEW r \in Request, At(r, "wait"), ~Serves(r)
  PROVE  /\ Target(r) \in Endpoint /\ Flawed(Target(r), req[r].key)
         /\ ProviderOf[Target(r)] = Source(r)
<1>1. /\ Target(r) \in Endpoint /\ req[r].key \in Key /\ req[r].key \in KeysOf[Source(r)]
      /\ ProviderOf[Target(r)] = Source(r)
  BY OnCandidate DEF Trying, At, Source
<1>2. <<Target(r), req[r].key>> \in Pairs
  BY <1>1 DEF Pairs
<1>3. QED
  BY <1>1, <1>2 DEF Flawed, Serves

Sparing(e) ==
  health[e].state = "healthy" /\ (\A k \in Key : ~Flawed(e, k)) => health'[e].state = "healthy"

(* An arriving request reads some endpoints' health.                       *)
LEMMA ReadOnArrival ==
  ASSUME RouterInv, NEW r \in Request, Arrive(r), NEW e \in Endpoint
  PROVE  health'[e] \in {health[e], AfterRead(health[e])}
<1>1. PICK listed :
        health' = [d \in Endpoint |-> IF d \in listed THEN AfterRead(health[d]) ELSE health[d]]
  BY Zenon DEF Arrive
<1>2. QED
  BY <1>1

(* Only a failed attempt can cool a healthy endpoint.                      *)
LEMMA HealthyStays ==
  ASSUME RouterInv, NEW e \in Endpoint,
         \/ UNCHANGED health
         \/ Tick
         \/ \E r \in Request : Arrive(r) \/ ClaimProbe(r) \/ Succeed(r)
  PROVE  Sparing(e)
<1>1. health \in [Endpoint -> Record] /\ health[e] \in Record
  BY DEF RouterInv, Typed, TypeOK
<1>2. ASSUME health[e].state = "healthy"
      PROVE  /\ AfterRead(health[e]).state = "healthy" /\ AfterTick(health[e]).state = "healthy"
             /\ AfterSuccess(health[e]).state = "healthy"
  BY <1>1, <1>2 DEF AfterRead, Expired, IsCooling, AfterTick, AfterSuccess, Default, Record
<1>3. CASE UNCHANGED health
  BY <1>3 DEF Sparing
<1>4. CASE Tick
  BY <1>2, <1>4 DEF Tick, Sparing
<1>5. ASSUME NEW r \in Request, Arrive(r)
      PROVE  Sparing(e)
  <2>1. health'[e] \in {health[e], AfterRead(health[e])}
    BY <1>5, ReadOnArrival
  <2>2. QED
    BY <1>2, <2>1 DEF Sparing
<1>6. ASSUME NEW r \in Request, ClaimProbe(r)
      PROVE  Sparing(e)
  <2>1. Target(r) # e => health'[e] = health[e]
    BY <1>1, <1>6 DEF ClaimProbe, Store
  <2>2. Target(r) = e /\ health[e].state = "healthy" => health'[e] = health[e]
    BY <1>1, <1>6 DEF ClaimProbe, Store
  <2>3. QED
    BY <2>1, <2>2 DEF Sparing
<1>7. ASSUME NEW r \in Request, Succeed(r)
      PROVE  Sparing(e)
  <2>1. Target(r) # e => health'[e] = health[e]
    BY <1>1, <1>7 DEF Succeed, Store
  <2>2. Target(r) = e => health'[e] = AfterSuccess(health[e])
    BY <1>1, <1>7 DEF Succeed, Store
  <2>3. QED
    BY <1>2, <2>1, <2>2 DEF Sparing
<1>8. QED
  BY <1>3, <1>4, <1>5, <1>6, <1>7

LEMMA OnlyFlawedHarmed ==
  ASSUME RouterInv, NEW e \in Endpoint, NEW r \in Request, Fail(r) \/ Quota(r)
  PROVE  Sparing(e)
<1>1. health \in [Endpoint -> Record]
  BY DEF RouterInv, Typed, TypeOK
<1>2. Target(r) \in Endpoint /\ req[r].key \in Key /\ Flawed(Target(r), req[r].key)
  BY FailureShowsFlaw, OnCandidate DEF Fail, Quota, Trying, At
<1>3. Target(r) # e => health'[e] = health[e]
  BY <1>1 DEF Fail, Quota, Store
<1>4. QED
  BY <1>2, <1>3 DEF Sparing

LEMMA NoCollateralStep ==
  ASSUME RouterInv, Next
  PROVE  /\ \A e \in Endpoint : Sparing(e)
         /\ \A pk \in banned' \ banned : \E e \in Endpoint : ProviderOf[e] = pk[1] /\ Flawed(e, pk[2])
         /\ \A k \in dead' \ dead : \E e \in Endpoint : Flawed(e, k)
<1>1. \A e \in Endpoint : Sparing(e)
  BY HealthyStays, OnlyFlawedHarmed
     DEF Next, Continue, Answer, SkipDisabled, SkipKeyless, PickKey, Exhaust, RejectKey, Other, Leave, BanExpires,
         CountAccounts
<1>2. ASSUME NEW pk \in banned' \ banned
      PROVE  \E e \in Endpoint : ProviderOf[e] = pk[1] /\ Flawed(e, pk[2])
  <2>1. PICK r \in Request : Quota(r)
    BY <1>2 DEF Next, Arrive, CountAccounts, Continue, Answer, SkipDisabled, SkipKeyless, PickKey, ClaimProbe, Exhaust,
                Succeed, Fail, RejectKey, Other, Leave, Tick, BanExpires
  <2>2. pk = <<Source(r), req[r].key>>
    BY <1>2, <2>1 DEF Quota
  <2>3. QED
    BY <2>1, <2>2, FailureShowsFlaw DEF Quota
<1>3. ASSUME NEW k \in dead' \ dead
      PROVE  \E e \in Endpoint : Flawed(e, k)
  <2>1. PICK r \in Request : RejectKey(r)
    BY <1>3 DEF Next, Arrive, CountAccounts, Continue, Answer, SkipDisabled, SkipKeyless, PickKey, ClaimProbe, Exhaust,
                Succeed, Fail, Quota, Other, Leave, Tick, BanExpires
  <2>2. k = req[r].key
    BY <1>3, <2>1 DEF RejectKey
  <2>3. QED
    BY <2>1, <2>2, FailureShowsFlaw DEF RejectKey
<1>4. QED
  BY <1>1, <1>2, <1>3

(* For any of them: what some endpoints and keys do wrong neither cools a  *)
(* healthy endpoint that always serves, nor bans or kills a key that no    *)
(* upstream turned away.                                                   *)
THEOREM NoCollateralAlways == Spec => NoCollateral
<1>1. Init => RouterInv
  BY RouterInitFine
<1>2. RouterInv /\ [Next /\ Observe]_<<vars, spared>> => RouterInv'
  BY RouterStepKeeps
<1>3. RouterInv /\ [Next /\ Observe]_<<vars, spared>> =>
        [/\ \A e \in Endpoint :
              health[e].state = "healthy" /\ (\A k \in Key : ~Flawed(e, k)) =>
                health'[e].state = "healthy"
         /\ \A pk \in banned' \ banned : \E e \in Endpoint : ProviderOf[e] = pk[1] /\ Flawed(e, pk[2])
         /\ \A k \in dead' \ dead : \E e \in Endpoint : Flawed(e, k)]_vars
  BY NoCollateralStep DEF Sparing, vars
<1>4. QED
  BY <1>1, <1>2, <1>3, PTL DEF Spec, NoCollateral

-----------------------------------------------------------------------------
(* One endpoint's breaker, read off its record.  Only what a step makes of *)
(* this record matters.                                                    *)
LEMMA RecordIsBreaker ==
  ASSUME NEW e \in Endpoint, NEW h, health'[e] = h
  PROVE  OneBreaker(e)!Set(e, Phase(h), Lesser(h.failures, FailureThreshold), Expired(h))
BY DEF OneBreaker!Set

LEMMA BreakerRests ==
  ASSUME NEW e \in Endpoint, health'[e] = health[e]
  PROVE  UNCHANGED OneBreaker(e)!vars
BY DEF OneBreaker!vars

(* A failure strikes the breaker, or trips it.                             *)
LEMMA FailureStrikes ==
  ASSUME NEW e \in Endpoint, health[e] \in Record,
         NEW h \in AfterFailure(health[e]), health'[e] = h
  PROVE  OneBreaker(e)!Strike(e) \/ OneBreaker(e)!Trip(e)
<1> DEFINE strikes == Lesser(h.failures, FailureThreshold)
<1> USE WindowsAssumption DEF FailureThreshold
<1>1. h \in Record /\ h.failures = Bumped(health[e])
  BY FailureResult
<1>2. OneBreaker(e)!Set(e, Phase(h), strikes, Expired(h))
  BY RecordIsBreaker
<1>3. OneBreaker(e)!Struck(e) = strikes
  BY <1>1 DEF OneBreaker!Struck, Bumped, Lesser, Record
<1>4. CASE Trips(health[e])
  <2>1. Phase(h) = "open" /\ Expired(h) = FALSE
    BY <1>1, <1>4, FailureResult DEF Phase, Expired
  <2>2. Phase(health[e]) = "halfopen" \/ OneBreaker(e)!Struck(e) >= FailureThreshold
    BY <1>4 DEF Trips, OneBreaker!Struck, Lesser, Record, Phase
  <2>3. QED
    BY <1>2, <1>3, <2>1, <2>2 DEF OneBreaker!Trip
<1>5. CASE ~Trips(health[e])
  <2>1. h.state = health[e].state /\ h.left = health[e].left
    BY <1>5, FailureResult
  <2>2. Phase(health[e]) # "halfopen" /\ OneBreaker(e)!Struck(e) < FailureThreshold
    BY <1>5 DEF Trips, OneBreaker!Struck, Lesser, Record, Phase, HealthState
  <2>3. Phase(h) = Phase(health[e]) /\ Expired(h) = Expired(health[e])
    BY <2>1 DEF Phase, Expired, IsCooling
  <2>4. QED
    BY <1>2, <1>3, <2>2, <2>3 DEF OneBreaker!Strike, OneBreaker!Set
<1>6. QED
  BY <1>4, <1>5

(* What may become of a record in one step.                                *)
Moved(h, g) ==
  \/ g = h \/ g = AfterRead(h) \/ g = AfterTick(h)
  \/ g = AfterSuccess(h) \/ g \in AfterFailure(h)
  \/ h.state = "halfopen" /\ g = AfterProbing(h)
  \/ \E secs \in RetryAfters : g = AfterRetryAfter(secs)

LEMMA MovedIsBreaker ==
  ASSUME NEW e \in Endpoint, health[e] \in Record, Moved(health[e], health'[e])
  PROVE  OneBreaker(e)!Next \/ UNCHANGED OneBreaker(e)!vars
<1> DEFINE h == health[e]
           g == health'[e]
<1>1. OneBreaker(e)!Set(e, Phase(g), Lesser(g.failures, FailureThreshold), Expired(g))
  BY RecordIsBreaker
<1>2. CASE g = h
  BY <1>2, BreakerRests
<1>3. CASE g = AfterRead(h)
  <2>1. CASE Expired(h)
    <3>1. g.state = "halfopen" /\ g.failures = h.failures
      BY <1>3, <2>1 DEF AfterRead, Record
    <3>2. Phase(g) = "halfopen" /\ Expired(g) = FALSE /\ Phase(h) = "open"
      BY <2>1, <3>1 DEF Phase, Expired, IsCooling
    <3>3. OneBreaker(e)!HalfOpen(e)
      BY <1>1, <2>1, <3>1, <3>2 DEF OneBreaker!HalfOpen, OneBreaker!Set
    <3>4. QED
      BY <3>3 DEF OneBreaker!Next
  <2>2. CASE ~Expired(h)
    BY <1>3, <2>2, BreakerRests DEF AfterRead
  <2>3. QED
    BY <2>1, <2>2
<1>4. CASE g = AfterTick(h)
  <2> DEFINE over == IF Expired(g) THEN {e} ELSE {}
  <2>1. /\ g.state = h.state /\ g.failures = h.failures
        /\ h.left \in Nat /\ g.left = IF h.left > 0 THEN h.left - 1 ELSE 0
    BY <1>4 DEF AfterTick, Record
  <2>2. Phase(g) = Phase(h) /\ (Expired(h) => Expired(g))
    BY <2>1 DEF Phase, Expired, IsCooling
  <2>3. Expired(g) => Phase(h) = "open"
    BY <2>1 DEF Expired, IsCooling, Phase
  <2>4. over \in SUBSET {d \in {e} : Phase(health[d]) = "open"}
    BY <2>3
  <2>5. [d \in {e} |-> Expired(health'[d])]
          = [d \in {e} |-> [c \in {e} |-> Expired(health[c])][d] \/ d \in over]
    <3>1. Expired(g) = (Expired(h) \/ e \in over)
      BY <2>2 DEF Expired, IsCooling
    <3>2. QED
      BY <3>1
  <2>6. /\ [d \in {e} |-> Phase(health'[d])] = [d \in {e} |-> Phase(health[d])]
        /\ [d \in {e} |-> Lesser(health'[d].failures, FailureThreshold)]
             = [d \in {e} |-> Lesser(health[d].failures, FailureThreshold)]
    BY <2>1, <2>2
  <2> HIDE DEF over
  <2>7. OneBreaker(e)!Elapse
    BY <2>4, <2>5, <2>6 DEF OneBreaker!Elapse
  <2>8. QED
    BY <2>7 DEF OneBreaker!Next
<1>5. CASE g = AfterSuccess(h)
  <2>1. /\ Phase(g) = "closed" /\ Expired(g) = FALSE
        /\ Lesser(g.failures, FailureThreshold) = 0
    BY <1>5 DEF AfterSuccess, Default, Phase, Expired, IsCooling, Lesser, FailureThreshold
  <2>2. OneBreaker(e)!Close(e)
    BY <1>1, <2>1 DEF OneBreaker!Close
  <2>3. QED
    BY <2>2 DEF OneBreaker!Next
<1>6. CASE g \in AfterFailure(h)
  <2>1. OneBreaker(e)!Strike(e) \/ OneBreaker(e)!Trip(e)
    BY <1>6, FailureStrikes
  <2>2. QED
    BY <2>1 DEF OneBreaker!Next
<1>7. CASE h.state = "halfopen" /\ g = AfterProbing(h)
  <2>1. g.state = "cooling" /\ g.left = ProbeWindow /\ g.failures = h.failures
    BY <1>7 DEF AfterProbing, Record
  <2>2. Phase(g) = "open" /\ Expired(g) = FALSE /\ Phase(h) = "halfopen"
    BY <1>7, <2>1, WindowsAssumption DEF Phase, Expired, IsCooling
  <2>3. OneBreaker(e)!Probe(e)
    BY <1>1, <2>1, <2>2 DEF OneBreaker!Probe, OneBreaker!Set
  <2>4. QED
    BY <2>3 DEF OneBreaker!Next
<1>8. ASSUME NEW secs \in RetryAfters, g = AfterRetryAfter(secs)
      PROVE  OneBreaker(e)!Next
  <2>1. /\ Phase(g) = "open" /\ Expired(g) \in BOOLEAN
        /\ Lesser(g.failures, FailureThreshold) = 1
    BY <1>8 DEF AfterRetryAfter, Phase, Expired, IsCooling, Lesser, FailureThreshold
  <2>2. OneBreaker(e)!Pause(e)
    BY <1>1, <2>1 DEF OneBreaker!Pause
  <2>3. QED
    BY <2>2 DEF OneBreaker!Next
<1>9. QED
  BY <1>2, <1>3, <1>4, <1>5, <1>6, <1>7, <1>8 DEF Moved

(* A step of the router does to a record what one call into the registry   *)
(* does, or nothing: a request that claims a probe looks at it again.      *)
LEMMA RecordsMove ==
  ASSUME RouterInv, Next, NEW e \in Endpoint
  PROVE  Moved(health[e], health'[e])
<1>1. health \in [Endpoint -> Record]
  BY DEF RouterInv, Typed, TypeOK
<1>2. CASE UNCHANGED health
  BY <1>2 DEF Moved
<1>3. CASE Tick
  BY <1>3 DEF Tick, Moved
<1>4. ASSUME NEW r \in Request, Arrive(r)
      PROVE  health'[e] \in {health[e], AfterRead(health[e])}
  BY <1>4, ReadOnArrival
<1>5. ASSUME NEW r \in Request, NEW h, Store(Target(r), h), Moved(health[Target(r)], h)
      PROVE  Moved(health[e], health'[e])
  <2>1. Target(r) = e => health'[e] = h
    BY <1>1, <1>5 DEF Store
  <2>2. Target(r) # e => health'[e] = health[e]
    BY <1>1, <1>5 DEF Store
  <2>3. Moved(health[e], health[e])
    BY DEF Moved
  <2>4. QED
    BY <1>5, <2>1, <2>2, <2>3
<1>6. ASSUME NEW r \in Request, ClaimProbe(r)
      PROVE  Moved(health[e], health'[e])
  <2> DEFINE h == health[Target(r)]
             g == IF h.state = "halfopen" THEN AfterProbing(h) ELSE h
  <2>1. Store(Target(r), g)
    BY <1>6 DEF ClaimProbe
  <2>2. Moved(h, g)
    BY DEF Moved
  <2> HIDE DEF g
  <2>3. QED
    BY <1>5, <2>1, <2>2
<1>7. ASSUME NEW r \in Request, Succeed(r)
      PROVE  Moved(health[e], health'[e])
  <2>1. Store(Target(r), AfterSuccess(health[Target(r)]))
    BY <1>7 DEF Succeed
  <2>2. Moved(health[Target(r)], AfterSuccess(health[Target(r)]))
    BY DEF Moved
  <2>3. QED
    BY <1>5, <2>1, <2>2
<1>8. ASSUME NEW r \in Request, NEW h \in AfterFailure(health[Target(r)]), Store(Target(r), h)
      PROVE  Moved(health[e], health'[e])
  <2>1. Moved(health[Target(r)], h)
    BY DEF Moved
  <2>2. QED
    BY <1>5, <1>8, <2>1
<1>9. ASSUME NEW r \in Request, Quota(r)
      PROVE  Moved(health[e], health'[e])
  <2>1. ASSUME NEW secs \in RetryAfters, Store(Target(r), AfterRetryAfter(secs))
        PROVE  Moved(health[e], health'[e])
    <3>1. Moved(health[Target(r)], AfterRetryAfter(secs))
      BY DEF Moved
    <3>2. QED
      BY <1>5, <2>1, <3>1
  <2>2. QED
    BY <1>2, <1>8, <1>9, <2>1 DEF Quota
<1>10. QED
  <2>1. CASE \E r \in Request : Arrive(r)
    BY <1>4, <2>1 DEF Moved
  <2>2. CASE \E r \in Request : Answer(r)
    BY <1>2, <1>7, <1>8, <1>9, <2>2 DEF Answer, Fail, RejectKey, Other
  <2>3. CASE \E r \in Request : Continue(r)
    BY <1>2, <1>6, <2>3 DEF Continue, SkipDisabled, SkipKeyless, PickKey, Exhaust
  <2>4. CASE \/ \E r \in Request : CountAccounts(r) \/ Leave(r)
             \/ \E pk \in Provider \X Key : BanExpires(pk)
    BY <1>2, <2>4 DEF CountAccounts, Leave, BanExpires
  <2>5. QED
    BY <1>3, <2>1, <2>2, <2>3, <2>4 DEF Next

LEMMA BreakerEachStep ==
  ASSUME RouterInv, [Next]_vars, NEW e \in Endpoint
  PROVE  [OneBreaker(e)!Next]_(OneBreaker(e)!vars)
<1>1. health[e] \in Record
  BY DEF RouterInv, Typed, TypeOK
<1>2. CASE Next
  BY <1>1, <1>2, RecordsMove, MovedIsBreaker
<1>3. CASE UNCHANGED vars
  <2>1. health'[e] = health[e]
    BY <1>3 DEF vars
  <2>2. QED
    BY <2>1, BreakerRests
<1>4. QED
  BY <1>2, <1>3

(* For any requests, endpoints, keys, tiers and windows: under every       *)
(* interleaving of requests each endpoint's record moves as a circuit      *)
(* breaker of its own, whatever health the past has left.                  *)
THEOREM BreakerEachAlways == Spec => BreakerEach
<1>1. Init => RouterInv
  BY RouterInitFine
<1>2. RouterInv /\ [Next /\ Observe]_<<vars, spared>> => RouterInv'
  BY RouterStepKeeps
<1>3. RouterInv /\ [Next /\ Observe]_<<vars, spared>> =>
        [\A e \in Endpoint : [OneBreaker(e)!Next]_(OneBreaker(e)!vars)]_vars
  BY BreakerEachStep
<1>4. QED
  BY <1>1, <1>2, <1>3, PTL DEF Spec, BreakerEach

(* An endpoint with no past (its breaker closed, nothing counted) is an    *)
(* implementation of the breaker from its first state on.                  *)
THEOREM FreshEndpointImplements ==
  ASSUME NEW e \in Endpoint
  PROVE  Spec /\ health[e] = Default => OneBreaker(e)!Spec
<1>1. Init => RouterInv
  BY RouterInitFine
<1>2. RouterInv /\ [Next /\ Observe]_<<vars, spared>> => RouterInv'
  BY RouterStepKeeps
<1>3. RouterInv /\ [Next /\ Observe]_<<vars, spared>> => [OneBreaker(e)!Next]_(OneBreaker(e)!vars)
  BY BreakerEachStep
<1>4. health[e] = Default => OneBreaker(e)!Init
  <2> SUFFICES ASSUME health[e] = Default
               PROVE  OneBreaker(e)!Init
    OBVIOUS
  <2>1. Phase(Default) = "closed" /\ Expired(Default) = FALSE
        /\ Lesser(Default.failures, FailureThreshold) = 0
    BY DEF Phase, Expired, IsCooling, Default, Lesser, FailureThreshold
  <2>2. QED
    BY <2>1 DEF OneBreaker!Init
<1>5. QED
  BY <1>1, <1>2, <1>3, <1>4, PTL DEF Spec, OneBreaker!Spec

-----------------------------------------------------------------------------
(* The way to the answer.  At most so many steps of its own a request may  *)
(* still take: three on each candidate it has not left, one to give up, and, before it *)
(* is among them, one to count the accounts.                               *)
Steps(pc, places) ==
  CASE pc = "count" -> 3 * places + 2
    [] pc = "pick"  -> 3 * places + 1
    [] pc = "claim" -> 3 * places
    [] pc = "wait"  -> 3 * places - 1
    [] OTHER        -> 0
Places(r) == Len(req[r].route) + 1 - req[r].at
StepsLeft(r) == Steps(req[r].pc, Places(r))

LEMMA NoneLeft == \A n : Steps("answered", n) = 0
BY DEF Steps

LEMMA StepsFall ==
  ASSUME NEW n \in Nat
  PROVE  /\ Steps("pick", n) \in Nat /\ Steps("pick", n) > Steps("answered", 0)
         /\ Steps("count", n) \in Nat /\ Steps("count", n) > Steps("pick", n)
         /\ Steps("answered", 0) = 0
         /\ n > 0 => /\ Steps("claim", n) \in Nat /\ Steps("wait", n) \in Nat
                     /\ Steps("pick", n) > Steps("claim", n)
                     /\ Steps("claim", n) > Steps("wait", n)
                     /\ Steps("wait", n) > Steps("pick", n - 1)
                     /\ Steps("wait", n) > Steps("pick", 0)
                     /\ Steps("pick", n) > Steps("pick", n - 1)
                     /\ Steps("wait", n) > Steps("answered", 0)
<1>1. /\ \A m : Steps("pick", m) = 3 * m + 1
      /\ \A m : Steps("count", m) = 3 * m + 2
      /\ \A m : Steps("claim", m) = 3 * m
      /\ \A m : Steps("wait", m) = 3 * m - 1
      /\ Steps("answered", 0) = 0
  BY DEF Steps
<1>2. QED
  BY <1>1

(* What a request may still do is told by where it is.                     *)
Nears(r) == StepsLeft(r)' \in Nat /\ StepsLeft(r) \in Nat /\ StepsLeft(r)' < StepsLeft(r)

LEMMA PlacesAhead ==
  ASSUME RouterInv, NEW r \in Request
  PROVE  /\ Looking(r) => Places(r) \in Nat
         /\ (At(r, "pick") /\ InLoop(r)) \/ Trying(r) => Places(r) \in Nat /\ Places(r) > 0
<1>1. TypeOK
  BY DEF RouterInv, Typed
<1>2. UnderWay(r) => /\ req[r].at \in Nat /\ Len(req[r].route) \in Nat
                     /\ DOMAIN req[r].route = 1..Len(req[r].route)
  BY <1>1, RequestFields
<1>3. Looking(r) => Places(r) \in Nat
  BY <1>1, <1>2, OnCandidate DEF TypeOK, Places
<1>4. ASSUME (At(r, "pick") /\ InLoop(r)) \/ Trying(r)
      PROVE  Places(r) \in Nat /\ Places(r) > 0
  <2>1. req[r].at \in DOMAIN req[r].route /\ UnderWay(r)
    BY <1>4, OnCandidate
  <2>2. QED
    BY <1>2, <2>1 DEF Places
<1>5. QED
  BY <1>3, <1>4

LEMMA MovesTo ==
  ASSUME RouterInv, NEW r \in Request, UnderWay(r),
         NEW pc, NEW at, NEW attempt, NEW key, NEW probing, NEW last,
         Moves(r, pc, at, attempt, key, probing, last)
  PROVE  StepsLeft(r)' = Steps(pc, Len(req[r].route) + 1 - at)
<1>1. req'[r].pc = pc /\ req'[r].at = at /\ req'[r].route = req[r].route
  BY MoveFields DEF RouterInv, Typed
<1>2. QED
  BY <1>1 DEF StepsLeft, Places

(* Passing a candidate over, before an attempt or after one.               *)
LEMMA LeavingNears ==
  ASSUME RouterInv, NEW r \in Request, NEW last,
         \/ At(r, "pick") /\ InLoop(r) /\ PassOver(r, last)
         \/ At(r, "wait") /\ (NextCandidate(r, last) \/ NextOrStop(r, last) \/ Finish(r, last))
  PROVE  Nears(r)
<1> DEFINE n == Places(r)
           N == Len(req[r].route)
<1>1. TypeOK /\ UnderWay(r) /\ n \in Nat /\ n > 0
  BY OnCandidate, PlacesAhead DEF Trying, At, RouterInv, Typed
<1>2. req[r].at \in Nat /\ N \in Nat
  BY <1>1, RequestFields
<1>3. N + 1 - (req[r].at + 1) = n - 1 /\ N + 1 - (N + 1) = 0
  BY <1>2 DEF Places
<1>4. n - 1 \in Nat /\ 0 \in Nat
  BY <1>1
<1>5. CASE At(r, "pick") /\ PassOver(r, last)
  <2>1. StepsLeft(r)' = Steps("pick", n - 1)
    <3>1. Moves(r, "pick", req[r].at + 1, req[r].attempt, req[r].key, req[r].probing, last)
      BY <1>1, <1>5, StepsMove
    <3>2. QED
      BY <1>1, <1>3, <3>1, MovesTo
  <2>2. StepsLeft(r) = Steps("pick", n)
    BY <1>5 DEF StepsLeft, At
  <2>3. QED
    BY <1>1, <1>4, <2>1, <2>2, StepsFall DEF Nears
<1>6. CASE At(r, "wait")
  <2>1. StepsLeft(r) = Steps("wait", n)
    BY <1>6 DEF StepsLeft, At
  <2>2. CASE NextCandidate(r, last)
    <3>1. Moves(r, "pick", req[r].at + 1, req[r].attempt + 1, NoKey, FALSE, last)
      BY <1>1, <2>2, StepsMove
    <3>2. StepsLeft(r)' = Steps("pick", n - 1)
      BY <1>1, <1>3, <3>1, MovesTo
    <3>3. QED
      BY <1>1, <1>4, <2>1, <3>2, StepsFall DEF Nears
  <2>3. CASE NextOrStop(r, last)
    <3> DEFINE to == IF req[r].attempt + 1 >= MaxAttempts(r) THEN N + 1 ELSE req[r].at + 1
    <3>1. Moves(r, "pick", to, req[r].attempt + 1, NoKey, FALSE, last)
      BY <1>1, <2>3, StepsMove
    <3>2. StepsLeft(r)' = Steps("pick", N + 1 - to)
      BY <1>1, <3>1, MovesTo
    <3>3. N + 1 - to = 0 \/ N + 1 - to = n - 1
      BY <1>3
    <3> HIDE DEF to
    <3>4. StepsLeft(r)' = Steps("pick", 0) \/ StepsLeft(r)' = Steps("pick", n - 1)
      BY <3>2, <3>3
    <3>5. QED
      BY <1>1, <1>4, <2>1, <3>4, StepsFall DEF Nears
  <2>4. CASE Finish(r, last)
    <3>1. Moves(r, "answered", 1, 0, NoKey, FALSE, last)
      BY <1>1, <2>4, StepsMove
    <3>2. StepsLeft(r)' = Steps("answered", N + 1 - 1)
      BY <1>1, <3>1, MovesTo
    <3>3. QED
      <4>1. StepsLeft(r)' = 0
        BY <3>2, NoneLeft
      <4>2. QED
        BY <1>1, <2>1, <4>1, StepsFall DEF Nears
  <2>5. QED
    BY <1>5, <1>6, <2>2, <2>3, <2>4 DEF At
<1>7. QED
  BY <1>5, <1>6

(* A key in hand, and a probe claimed: on the same candidate.              *)
LEMMA StayingNears ==
  ASSUME RouterInv, NEW r \in Request, PickKey(r) \/ ClaimProbe(r)
  PROVE  Nears(r)
<1> DEFINE n == Places(r)
<1>1. TypeOK /\ UnderWay(r) /\ n \in Nat /\ n > 0
  BY OnCandidate, PlacesAhead DEF PickKey, ClaimProbe, Trying, At, RouterInv, Typed
<1>2. req \in [Request -> Routing \cup {Idle}] /\ req[r] \in Routing
  BY <1>1, RequestFields DEF TypeOK
<1>3. CASE PickKey(r)
  <2>1. req'[r].pc \in {"claim", "wait"} /\ req'[r].at = req[r].at /\ req'[r].route = req[r].route
    <3>1. PICK pc \in {"claim", "wait"} : \E k, probing :
            req' = [req EXCEPT ![r].pc = pc, ![r].key = k, ![r].probing = probing]
      <4>1. PICK k : req' = [req EXCEPT ![r].pc = IF health[Target(r)].state = "halfopen" THEN "claim" ELSE "wait",
                                        ![r].key = k, ![r].probing = health[Target(r)].state = "halfopen"]
        BY <1>3 DEF PickKey
      <4>2. PICK pc : pc = IF health[Target(r)].state = "halfopen" THEN "claim" ELSE "wait"
        OBVIOUS
      <4>3. pc \in {"claim", "wait"}
        BY <4>2
      <4>4. req' = [req EXCEPT ![r].pc = pc, ![r].key = k, ![r].probing = health[Target(r)].state = "halfopen"]
        BY <4>1, <4>2
      <4>5. QED
        BY <4>3, <4>4
    <3>2. QED
      BY <1>2, <3>1 DEF Routing
  <2>2. StepsLeft(r)' \in {Steps("claim", n), Steps("wait", n)}
    BY <2>1 DEF StepsLeft, Places
  <2>3. StepsLeft(r) = Steps("pick", n)
    BY <1>3 DEF PickKey, At, StepsLeft
  <2>4. QED
    BY <1>1, <2>2, <2>3, StepsFall DEF Nears
<1>4. CASE ClaimProbe(r)
  <2>1. req'[r].pc = "wait" /\ req'[r].at = req[r].at /\ req'[r].route = req[r].route
    BY <1>2, <1>4 DEF ClaimProbe, Routing
  <2>2. StepsLeft(r)' = Steps("wait", n)
    BY <2>1 DEF StepsLeft, Places
  <2>3. StepsLeft(r) = Steps("claim", n)
    BY <1>4 DEF ClaimProbe, At, StepsLeft
  <2>4. QED
    BY <1>1, <2>2, <2>3, StepsFall DEF Nears
<1>5. QED
  BY <1>3, <1>4

LEMMA ExhaustNears ==
  ASSUME RouterInv, NEW r \in Request, Exhaust(r)
  PROVE  Nears(r)
<1>1. TypeOK /\ UnderWay(r) /\ At(r, "pick") /\ Places(r) \in Nat
  BY OnCandidate, PlacesAhead DEF Exhaust, RouterInv, Typed
<1>2. Moves(r, "answered", 1, 0, NoKey, FALSE, req[r].last)
  BY <1>1, StepsMove DEF Exhaust
<1>3. StepsLeft(r)' = Steps("answered", Len(req[r].route) + 1 - 1)
  BY <1>1, <1>2, MovesTo
<1>4. StepsLeft(r) = Steps("pick", Places(r))
  BY <1>1 DEF StepsLeft, At
<1>5. QED
  <2>1. StepsLeft(r)' = 0
    BY <1>3, NoneLeft
  <2>2. QED
    BY <1>1, <1>4, <2>1, StepsFall DEF Nears

LEMMA CountNears ==
  ASSUME RouterInv, NEW r \in Request, CountAccounts(r)
  PROVE  Nears(r)
<1>1. TypeOK /\ Looking(r) /\ UnderWay(r) /\ Places(r) \in Nat
  BY OnCandidate, PlacesAhead DEF CountAccounts, At, Looking, RouterInv, Typed
<1>2. req'[r].pc = "pick" /\ req'[r].at = req[r].at /\ req'[r].route = req[r].route
  BY <1>1, RequestFields DEF CountAccounts, TypeOK, Routing
<1>3. StepsLeft(r)' = Steps("pick", Places(r))
  BY <1>2 DEF StepsLeft, Places
<1>4. StepsLeft(r) = Steps("count", Places(r))
  BY DEF CountAccounts, At, StepsLeft
<1>5. QED
  BY <1>1, <1>3, <1>4, StepsFall DEF Nears

(* The steps a request takes by itself, and those of the one at the        *)
(* upstream's end of its attempt.                                          *)
Own(r) == CountAccounts(r) \/ Continue(r) \/ Answer(r)

LEMMA OwnStepsNear ==
  ASSUME RouterInv, NEW r \in Request, Own(r)
  PROVE  Nears(r)
<1>1. CASE Continue(r)
  BY <1>1, LeavingNears, StayingNears, ExhaustNears DEF Continue, SkipDisabled, SkipKeyless
<1>2. CASE Answer(r)
  BY <1>2, LeavingNears DEF Answer, Succeed, Fail, RejectKey, Quota, Other
<1>3. QED
  BY <1>1, <1>2, CountNears DEF Own

(* The steps of others leave a request where it is.                        *)
LEMMA OthersLeave ==
  ASSUME RouterInv, NEW r \in Request, NEW q \in Request, q # r,
         Arrive(q) \/ Own(q) \/ Leave(q)
  PROVE  req'[r] = req[r]
<1>1. req \in [Request -> Routing \cup {Idle}]
  BY DEF RouterInv, Typed, TypeOK
<1>2. CASE Arrive(q)
  <2>1. PICK new : req' = [req EXCEPT ![q] = new]
    BY <1>2, Zenon DEF Arrive
  <2>2. QED
    BY <1>1, <2>1
<1>3. CASE Leave(q)
  BY <1>1, <1>3 DEF Leave
<1>4. CASE Continue(q)
  BY <1>1, <1>4 DEF Continue, SkipDisabled, SkipKeyless, PickKey, ClaimProbe, Exhaust, PassOver, Finish
<1>5. CASE Answer(q)
  BY <1>1, <1>5 DEF Answer, Succeed, Fail, RejectKey, Quota, Other, NextOrStop, NextCandidate, Finish
<1>6. CASE CountAccounts(q)
  BY <1>1, <1>6 DEF CountAccounts
<1>7. QED
  BY <1>2, <1>3, <1>4, <1>5, <1>6 DEF Own

(* Every step leaves a request that has no answer yet where it is, or is   *)
(* one of its own and brings it nearer, and those are its only steps.      *)
EveryStepNears ==
  [][\A r \in Request : ~At(r, "idle") /\ ~At(r, "answered") =>
       \/ UNCHANGED req[r] /\ ~Own(r)
       \/ Own(r) /\ Nears(r)]_vars

LEMMA EveryStepNearsStep ==
  ASSUME RouterInv, Next, NEW r \in Request, ~At(r, "idle"), ~At(r, "answered")
  PROVE  \/ UNCHANGED req[r] /\ ~Own(r)
         \/ Own(r) /\ Nears(r)
<1>1. CASE Own(r)
  BY <1>1, OwnStepsNear
<1>2. CASE ~Own(r)
  <2>1. ~Arrive(r) /\ ~Leave(r)
    BY DEF Arrive, Leave
  <2>2. CASE \E q \in Request : Arrive(q) \/ Own(q) \/ Leave(q)
    BY <1>2, <2>1, <2>2, OthersLeave
  <2>3. CASE Tick \/ \E pk \in Provider \X Key : BanExpires(pk)
    BY <1>2, <2>3 DEF Tick, BanExpires
  <2>4. QED
    BY <2>2, <2>3 DEF Next, Own
<1>3. QED
  BY <1>1, <1>2

(* For any of them: a request takes at most three steps for each of its    *)
(* candidates and two more, and only its own steps decide.  It is what     *)
(* EveryRequestAnswered needs besides fairness.                            *)
THEOREM EveryStepNearsAlways == Spec => EveryStepNears
<1>1. Init => RouterInv
  BY RouterInitFine
<1>2. RouterInv /\ [Next /\ Observe]_<<vars, spared>> => RouterInv'
  BY RouterStepKeeps
<1>3. RouterInv /\ [Next /\ Observe]_<<vars, spared>> =>
        [\A r \in Request : ~At(r, "idle") /\ ~At(r, "answered") =>
           \/ UNCHANGED req[r] /\ ~Own(r)
           \/ Own(r) /\ Nears(r)]_vars
  BY EveryStepNearsStep
<1>4. QED
  BY <1>1, <1>2, <1>3, PTL DEF Spec, EveryStepNears

-----------------------------------------------------------------------------
(* Streamed answers.  A list of events, read by kind and number; a list    *)
(* that continues another.                                                 *)
Which(o, kind) == {n \in DOMAIN o : o[n][1] = kind}
Has(o, n, kind, b) == n \in DOMAIN o /\ o[n][1] = kind /\ o[n][2] = b

Continues(new, o) ==
  /\ Len(o) \in Nat /\ DOMAIN o = 1..Len(o)
  /\ Len(new) \in Nat /\ DOMAIN new = 1..Len(new)
  /\ Len(o) <= Len(new)
  /\ \A n \in DOMAIN o : new[n] = o[n]

(* Events of a kind are numbered from 0 up to the next number.             *)
Counts(o, kind, next) ==
  /\ next \in Nat
  /\ {o[m][2] : m \in Which(o, kind)} = 0..(next - 1)
  /\ \A n \in Which(o, kind) :
       {o[m][2] : m \in {m \in Which(o, kind) : m < n}} = 0..(o[n][2] - 1)

LEMMA AppendContinues ==
  ASSUME NEW S, NEW o \in Seq(S), NEW e \in S
  PROVE  /\ Append(o, e) \in Seq(S) /\ Continues(Append(o, e), o)
         /\ Len(Append(o, e)) = Len(o) + 1
         /\ Append(o, e)[Len(o) + 1] = e
BY DEF Continues

LEMMA EmitAppends ==
  ASSUME NEW S, NEW o \in Seq(S), NEW e \in S
  PROVE  o \o <<e>> = Append(o, e)
OBVIOUS

LEMMA NothingCounted == \A kind : Counts(<<>>, kind, 0)
BY DEF Counts, Which

LEMMA CountsOn ==
  ASSUME NEW new, NEW o, Continues(new, o), Len(new) = Len(o) + 1,
         NEW kind, NEW next, Counts(o, kind, next),
         new[Len(new)][1] = kind, new[Len(new)][2] = next
  PROVE  Counts(new, kind, next + 1)
<1> DEFINE last == Len(new)
<1>1. /\ last \in DOMAIN new /\ last \notin DOMAIN o /\ DOMAIN new = DOMAIN o \cup {last}
      /\ \A n \in DOMAIN o : new[n] = o[n] /\ n < last /\ n \in Int
  BY DEF Continues
<1>2. new[last][1] = kind /\ new[last][2] = next
  OBVIOUS
<1> HIDE DEF last
<1>3. Which(new, kind) = Which(o, kind) \cup {last}
  BY <1>1, <1>2 DEF Which
<1>4. /\ next \in Nat
      /\ {o[m][2] : m \in Which(o, kind)} = 0..(next - 1)
      /\ \A n \in Which(o, kind) :
           {o[m][2] : m \in {m \in Which(o, kind) : m < n}} = 0..(o[n][2] - 1)
  BY DEF Counts
<1>5. \A m \in Which(o, kind) : new[m] = o[m] /\ m < last /\ m \in Int /\ ~(last < m)
  <2>1. last \in Int
    BY DEF Continues, last
  <2>2. \A m \in DOMAIN o : ~(last < m)
    BY <1>1, <2>1
  <2>3. Which(o, kind) \subseteq DOMAIN o
    BY DEF Which
  <2>4. QED
    BY <1>1, <2>2, <2>3
<1>6. {new[m][2] : m \in Which(new, kind)} = {o[m][2] : m \in Which(o, kind)} \cup {next}
  <2>1. {new[m][2] : m \in Which(o, kind)} = {o[m][2] : m \in Which(o, kind)}
    BY <1>5
  <2>2. {new[m][2] : m \in Which(o, kind) \cup {last}} = {new[m][2] : m \in Which(o, kind)} \cup {new[last][2]}
    OBVIOUS
  <2>3. {new[m][2] : m \in Which(new, kind)} = {new[m][2] : m \in Which(o, kind) \cup {last}}
    BY <1>3
  <2>4. new[last][2] = next
    BY <1>2
  <2>5. QED
    BY <2>1, <2>2, <2>3, <2>4
<1>7. {new[m][2] : m \in Which(new, kind)} = 0..next
  <2>1. next \in Nat
    BY <1>4
  <2>2. 0..(next - 1) \cup {next} = 0..next
    BY <2>1
  <2>3. {o[m][2] : m \in Which(o, kind)} = 0..(next - 1)
    BY <1>4
  <2>4. QED
    BY <1>6, <2>2, <2>3
<1>8. ASSUME NEW n \in Which(new, kind)
      PROVE  {new[m][2] : m \in {m \in Which(new, kind) : m < n}} = 0..(new[n][2] - 1)
  <2>1. CASE n = last
    <3>1. {m \in Which(new, kind) : m < n} = Which(o, kind)
      BY <1>1, <1>3, <1>5, <2>1
    <3>2. {new[m][2] : m \in Which(o, kind)} = {o[m][2] : m \in Which(o, kind)}
      BY <1>5
    <3>3. QED
      BY <1>2, <1>4, <2>1, <3>1, <3>2
  <2>2. CASE n \in Which(o, kind)
    <3>1. {m \in Which(new, kind) : m < n} = {m \in Which(o, kind) : m < n}
      BY <1>3, <1>5, <2>2
    <3>2. {new[m][2] : m \in {m \in Which(o, kind) : m < n}}
            = {o[m][2] : m \in {m \in Which(o, kind) : m < n}}
      BY <1>5
    <3>3. QED
      BY <1>4, <1>5, <2>2, <3>1, <3>2
  <2>3. QED
    BY <1>3, <2>1, <2>2
<1>9. next + 1 \in Nat /\ (next + 1) - 1 = next
  BY <1>4
<1>10. QED
  BY <1>7, <1>8, <1>9 DEF Counts

LEMMA CountsStay ==
  ASSUME NEW new, NEW o, Continues(new, o), NEW kind, NEW next, Counts(o, kind, next),
         \A n \in DOMAIN new \ DOMAIN o : new[n][1] # kind
  PROVE  Counts(new, kind, next)
<1>1. Which(new, kind) = Which(o, kind) /\ \A m \in Which(o, kind) : new[m] = o[m]
  BY DEF Continues, Which
<1>2. {new[m][2] : m \in Which(new, kind)} = {o[m][2] : m \in Which(o, kind)}
  BY <1>1
<1>3. \A n \in Which(o, kind) : {new[m][2] : m \in {m \in Which(new, kind) : m < n}}
                                  = {o[m][2] : m \in {m \in Which(o, kind) : m < n}}
  BY <1>1
<1>4. \A n \in Which(new, kind) :
           {new[m][2] : m \in {m \in Which(new, kind) : m < n}} = 0..(new[n][2] - 1)
  BY <1>1, <1>3 DEF Counts
<1>5. QED
  BY <1>2, <1>4 DEF Counts

-----------------------------------------------------------------------------
(* Blocks.  Those that are open have been started and not stopped; all     *)
(* that is sent for a block is between its start and its stop.             *)
Inside == {"block_delta", "block_stop"}

Opened(o, open) ==
  /\ \A b \in open : (\E m : Has(o, m, "block_start", b)) /\ \A m : ~Has(o, m, "block_stop", b)
  /\ \A m \in Which(o, "block_start") : o[m][2] \in open \/ \E l : Has(o, l, "block_stop", o[m][2])

Nested(o) ==
  \A n \in DOMAIN o : o[n][1] \in Inside =>
    /\ \E m : Has(o, m, "block_start", o[n][2]) /\ m < n
    /\ \A m : Has(o, m, "block_stop", o[n][2]) => m >= n

Blocks(o, open, next) == Counts(o, "block_start", next) /\ Opened(o, open) /\ Nested(o)

LEMMA NoBlocks == Blocks(<<>>, {}, 0)
BY NothingCounted DEF Blocks, Opened, Nested, Which

LEMMA OpenNumbers ==
  ASSUME NEW o, NEW open, NEW next, Blocks(o, open, next)
  PROVE  /\ open \subseteq 0..(next - 1) /\ next \in Nat
         /\ \A n \in DOMAIN o : o[n][1] \in Inside => o[n][2] \in 0..(next - 1)
<1>1. \A m, b : Has(o, m, "block_start", b) => b \in 0..(next - 1)
  BY DEF Blocks, Counts, Which, Has
<1>2. QED
  BY <1>1 DEF Blocks, Counts, Opened, Nested

(* The last event of a list that got one longer.                           *)
LEMMA OneMore ==
  ASSUME NEW new, NEW o, Continues(new, o), Len(new) = Len(o) + 1
  PROVE  /\ Len(new) \in DOMAIN new /\ DOMAIN new = DOMAIN o \cup {Len(new)}
         /\ \A n \in DOMAIN o : new[n] = o[n] /\ n < Len(new) /\ n \in Int
         /\ \A m, kind, b : Has(new, m, kind, b) <=>
              Has(o, m, kind, b) \/ (m = Len(new) /\ new[m][1] = kind /\ new[m][2] = b)
         /\ \A m, kind, b : Has(o, m, kind, b) => m < Len(new)
BY DEF Continues, Has

LEMMA BlockStarts ==
  ASSUME NEW new, NEW o, Continues(new, o), Len(new) = Len(o) + 1,
         NEW open, NEW next, Blocks(o, open, next), NEW e,
         e = new[Len(new)], e[1] = "block_start", e[2] = next
  PROVE  Blocks(new, open \cup {next}, next + 1)
<1> DEFINE last == Len(new)
<1>1. /\ last \in DOMAIN new /\ DOMAIN new = DOMAIN o \cup {last}
      /\ \A n \in DOMAIN o : new[n] = o[n] /\ n < last /\ n \in Int
      /\ \A m, kind, b : Has(new, m, kind, b) <=>
           Has(o, m, kind, b) \/ (m = last /\ new[m][1] = kind /\ new[m][2] = b)
      /\ \A m, kind, b : Has(o, m, kind, b) => m < last
  BY OneMore
<1>2. new[last][1] = "block_start" /\ new[last][2] = next
  OBVIOUS
<1>3. Counts(new, "block_start", next + 1)
  BY CountsOn DEF Blocks
<1>4. next \in Nat /\ \A n \in DOMAIN o : o[n][1] \in Inside => o[n][2] # next
  BY OpenNumbers
<1> HIDE DEF last
<1>5. \A m : ~Has(new, m, "block_stop", next)
  BY <1>1, <1>2, <1>4 DEF Has, Inside
<1>6. \A m, b : Has(new, m, "block_stop", b) <=> Has(o, m, "block_stop", b)
  BY <1>1, <1>2
<1>7. Opened(new, open \cup {next})
  <2>1. \A b \in open \cup {next} : (\E m : Has(new, m, "block_start", b)) /\ \A m : ~Has(new, m, "block_stop", b)
    <3>1. ASSUME NEW b \in open
          PROVE  (\E m : Has(new, m, "block_start", b)) /\ \A m : ~Has(new, m, "block_stop", b)
      BY <1>1, <1>6 DEF Blocks, Opened
    <3>2. Has(new, last, "block_start", next)
      BY <1>1, <1>2
    <3>3. QED
      BY <1>5, <3>1, <3>2
  <2>2. \A m \in Which(new, "block_start") : m = last \/ (m \in Which(o, "block_start") /\ new[m] = o[m])
    BY <1>1 DEF Which
  <2>3. \A m \in Which(new, "block_start") :
          new[m][2] \in open \cup {next} \/ \E l : Has(new, l, "block_stop", new[m][2])
    BY <1>2, <1>6, <2>2 DEF Blocks, Opened
  <2>4. QED
    BY <2>1, <2>3 DEF Opened
<1>8. Nested(new)
  <2> SUFFICES ASSUME NEW n \in DOMAIN new, new[n][1] \in Inside
               PROVE  /\ \E m : Has(new, m, "block_start", new[n][2]) /\ m < n
                      /\ \A m : Has(new, m, "block_stop", new[n][2]) => m >= n
    BY DEF Nested
  <2>1. n \in DOMAIN o /\ new[n] = o[n]
    BY <1>1, <1>2 DEF Inside
  <2>2. QED
    BY <1>1, <1>6, <2>1 DEF Blocks, Nested
<1>9. QED
  BY <1>3, <1>7, <1>8 DEF Blocks

LEMMA BlockGoesOn ==
  ASSUME NEW new, NEW o, Continues(new, o), Len(new) = Len(o) + 1,
         NEW open, NEW next, Blocks(o, open, next), NEW e,
         e = new[Len(new)], e[1] \in Inside, e[2] \in open
  PROVE  Blocks(new, IF e[1] = "block_stop" THEN open \ {e[2]} ELSE open, next)
<1> DEFINE last == Len(new)
           left == IF e[1] = "block_stop" THEN open \ {e[2]} ELSE open
<1>1. /\ last \in DOMAIN new /\ DOMAIN new = DOMAIN o \cup {last}
      /\ \A n \in DOMAIN o : new[n] = o[n] /\ n < last /\ n \in Int
      /\ \A m, kind, b : Has(new, m, kind, b) <=>
           Has(o, m, kind, b) \/ (m = last /\ new[m][1] = kind /\ new[m][2] = b)
      /\ \A m, kind, b : Has(o, m, kind, b) => m < last
  BY OneMore
<1>2. new[last] = e /\ e[1] # "block_start"
  BY DEF Inside
<1>3. last \in Int
  BY DEF Continues
<1>4. Counts(new, "block_start", next)
  BY <1>1, <1>2, CountsStay DEF Blocks
<1> HIDE DEF last
<1>5. \A m, b : Has(new, m, "block_start", b) <=> Has(o, m, "block_start", b)
  BY <1>1, <1>2
<1>6. Opened(new, left)
  <2>1. ASSUME NEW b \in left
        PROVE  (\E m : Has(new, m, "block_start", b)) /\ \A m : ~Has(new, m, "block_stop", b)
    <3>1. b \in open /\ (e[1] = "block_stop" => b # e[2])
      OBVIOUS
    <3>2. QED
      BY <1>1, <1>2, <1>5, <3>1 DEF Blocks, Opened
  <2>2. ASSUME NEW m \in Which(new, "block_start")
        PROVE  new[m][2] \in left \/ \E l : Has(new, l, "block_stop", new[m][2])
    <3>1. m \in Which(o, "block_start") /\ new[m] = o[m]
      BY <1>1, <1>2 DEF Which
    <3>2. o[m][2] \in open \/ \E l : Has(o, l, "block_stop", o[m][2])
      BY <3>1 DEF Blocks, Opened
    <3>3. CASE e[1] = "block_stop" /\ o[m][2] = e[2]
      BY <1>1, <1>2, <3>1, <3>3
    <3>4. CASE ~(e[1] = "block_stop" /\ o[m][2] = e[2])
      BY <1>1, <3>1, <3>2, <3>4
    <3>5. QED
      BY <3>3, <3>4
  <2>3. QED
    BY <2>1, <2>2 DEF Opened
<1>7. ASSUME NEW n \in DOMAIN new, new[n][1] \in Inside
      PROVE  /\ \E m : Has(new, m, "block_start", new[n][2]) /\ m < n
             /\ \A m : Has(new, m, "block_stop", new[n][2]) => m >= n
  <2>1. CASE n = last
    <3>1. (\E m : Has(o, m, "block_start", e[2])) /\ \A m : ~Has(o, m, "block_stop", e[2])
      BY DEF Blocks, Opened
    <3>2. QED
      BY <1>1, <1>2, <1>3, <1>5, <2>1, <3>1
  <2>2. CASE n \in DOMAIN o
    <3>1. /\ \E m : Has(o, m, "block_start", o[n][2]) /\ m < n
          /\ \A m : Has(o, m, "block_stop", o[n][2]) => m >= n
      BY <1>1, <1>7, <2>2 DEF Blocks, Nested
    <3>2. n < last /\ n \in Int /\ new[n] = o[n]
      BY <1>1, <2>2
    <3>3. QED
      BY <1>1, <1>3, <1>5, <3>1, <3>2
  <2>3. QED
    BY <1>1, <2>1, <2>2
<1>8. QED
  BY <1>4, <1>6, <1>7 DEF Blocks, Nested

LEMMA AppendedBlocks ==
  ASSUME NEW S, NEW o \in Seq(S), NEW open, NEW next, Blocks(o, open, next), NEW e \in S
  PROVE  /\ e[1] = "block_start" /\ e[2] = next => Blocks(Append(o, e), open \cup {next}, next + 1)
         /\ e[1] = "block_delta" /\ e[2] \in open => Blocks(Append(o, e), open, next)
         /\ e[1] = "block_stop" /\ e[2] \in open => Blocks(Append(o, e), open \ {e[2]}, next)
<1> DEFINE new == Append(o, e)
<1>1. Continues(new, o) /\ Len(new) = Len(o) + 1 /\ e = new[Len(new)]
  BY AppendContinues
<1> HIDE DEF new
<1>2. e[1] = "block_start" /\ e[2] = next => Blocks(new, open \cup {next}, next + 1)
  BY <1>1, BlockStarts
<1>3. e[1] \in Inside /\ e[2] \in open
        => Blocks(new, IF e[1] = "block_stop" THEN open \ {e[2]} ELSE open, next)
  BY <1>1, BlockGoesOn
<1>4. QED
  BY <1>2, <1>3 DEF Inside, new

(* Other events change nothing for the blocks.                             *)
LEMMA BlocksStay ==
  ASSUME NEW new, NEW o, Continues(new, o), NEW open, NEW next, Blocks(o, open, next),
         \A n \in DOMAIN new \ DOMAIN o : new[n][1] \notin Inside \cup {"block_start"}
  PROVE  Blocks(new, open, next)
<1>1. \A n \in DOMAIN o : n \in DOMAIN new /\ new[n] = o[n]
  BY DEF Continues
<1>2. Counts(new, "block_start", next)
  BY CountsStay DEF Blocks
<1>3. \A m, b : \A kind \in Inside \cup {"block_start"} : Has(new, m, kind, b) <=> Has(o, m, kind, b)
  BY <1>1 DEF Has
<1>4. Which(new, "block_start") = Which(o, "block_start")
  BY <1>1 DEF Which
<1>5. Opened(new, open)
  BY <1>1, <1>3, <1>4 DEF Opened, Blocks, Which, Inside
<1>6. Nested(new)
  BY <1>1, <1>3 DEF Nested, Blocks, Inside
<1>7. QED
  BY <1>2, <1>5, <1>6 DEF Blocks

(* One list after another, as every open block is stopped once.            *)
LEMMA ConcatContinues ==
  ASSUME NEW S, NEW o \in Seq(S), NEW f \in Seq(S)
  PROVE  /\ o \o f \in Seq(S) /\ Continues(o \o f, o) /\ Len(o \o f) = Len(o) + Len(f)
         /\ \A n \in DOMAIN f : Len(o) + n \in DOMAIN (o \o f) /\ (o \o f)[Len(o) + n] = f[n]
         /\ \A n \in DOMAIN (o \o f) \ DOMAIN o : n - Len(o) \in DOMAIN f /\ (o \o f)[n] = f[n - Len(o)]
<1>1. /\ o \o f \in Seq(S) /\ Len(o \o f) = Len(o) + Len(f)
      /\ \A n \in 1..(Len(o) + Len(f)) : (o \o f)[n] = IF n <= Len(o) THEN o[n] ELSE f[n - Len(o)]
  BY ConcatProperties
<1>2. /\ Len(o) \in Nat /\ DOMAIN o = 1..Len(o) /\ Len(f) \in Nat /\ DOMAIN f = 1..Len(f)
      /\ DOMAIN (o \o f) = 1..(Len(o) + Len(f))
  BY <1>1, LenProperties
<1> DEFINE p == o \o f
<1>4. \A n \in DOMAIN f : Len(o) + n \in DOMAIN p /\ p[Len(o) + n] = f[n]
  <2> TAKE n \in DOMAIN f
  <2>1. /\ Len(o) + n \in 1..(Len(o) + Len(f)) /\ ~(Len(o) + n <= Len(o)) /\ (Len(o) + n) - Len(o) = n
    BY <1>2
  <2>2. QED
    BY <1>1, <1>2, <2>1
<1>5. \A n \in DOMAIN p \ DOMAIN o : n - Len(o) \in DOMAIN f /\ p[n] = f[n - Len(o)]
  <2> TAKE n \in DOMAIN p \ DOMAIN o
  <2>1. n \in 1..(Len(o) + Len(f)) /\ ~(n <= Len(o)) /\ n - Len(o) \in 1..Len(f)
    BY <1>2
  <2>2. QED
    BY <1>1, <1>2, <2>1
<1>6. Continues(p, o)
  <2>1. \A n \in DOMAIN o : n \in 1..(Len(o) + Len(f)) /\ n <= Len(o)
    BY <1>2
  <2>2. QED
    BY <1>1, <1>2, <2>1 DEF Continues
<1>7. QED
  BY <1>1, <1>4, <1>5, <1>6

LEMMA AllStop ==
  ASSUME NEW S, NEW o \in Seq(S), NEW f \in Seq(S), NEW open, NEW next, Blocks(o, open, next),
         \A n \in DOMAIN f : f[n][1] = "block_stop" /\ f[n][2] \in open,
         \A m, n \in DOMAIN f : f[m][2] = f[n][2] => m = n,
         \A b \in open : \E n \in DOMAIN f : f[n][2] = b
  PROVE  Blocks(o \o f, {}, next)
<1> DEFINE new == o \o f
<1>1. /\ Continues(new, o)
      /\ \A n \in DOMAIN f : Len(o) + n \in DOMAIN new /\ new[Len(o) + n] = f[n]
      /\ \A n \in DOMAIN new \ DOMAIN o : n - Len(o) \in DOMAIN f /\ new[n] = f[n - Len(o)]
  BY ConcatContinues
<1>2. /\ DOMAIN o \subseteq DOMAIN new /\ DOMAIN new \subseteq Nat /\ Len(o) \in Nat
      /\ \A n \in DOMAIN o : new[n] = o[n]
      /\ \A m \in DOMAIN o, n \in DOMAIN new \ DOMAIN o : m < n
  BY <1>1 DEF Continues
<1> HIDE DEF new
<1>3. \A n \in DOMAIN new \ DOMAIN o : new[n][1] = "block_stop" /\ new[n][2] \in open
  BY <1>1
<1>4. Counts(new, "block_start", next)
  BY <1>1, <1>3, CountsStay DEF Blocks
<1>5. \A m, b : Has(new, m, "block_start", b) <=> Has(o, m, "block_start", b)
  BY <1>2, <1>3 DEF Has
<1>6. \A b \in open : \E l : Has(new, l, "block_stop", b)
  BY <1>1 DEF Has
<1>7. \A l, b : Has(o, l, "block_stop", b) => Has(new, l, "block_stop", b)
  BY <1>2 DEF Has
<1>8. Opened(new, {})
  <2>1. \A m \in Which(new, "block_start") : m \in Which(o, "block_start") /\ new[m] = o[m]
    BY <1>2, <1>3 DEF Which
  <2>2. QED
    BY <1>6, <1>7, <2>1 DEF Opened, Blocks
<1>9. ASSUME NEW n \in DOMAIN new, new[n][1] \in Inside
      PROVE  /\ \E m : Has(new, m, "block_start", new[n][2]) /\ m < n
             /\ \A m : Has(new, m, "block_stop", new[n][2]) => m >= n
  <2>1. CASE n \in DOMAIN o
    <3>1. /\ \E m : Has(o, m, "block_start", o[n][2]) /\ m < n
          /\ \A m : Has(o, m, "block_stop", o[n][2]) => m >= n
      BY <1>2, <1>9, <2>1 DEF Blocks, Nested
    <3>2. \A m \in DOMAIN new : m \in DOMAIN o \/ m >= n
      BY <1>2, <2>1
    <3>3. new[n] = o[n] /\ \A m \in DOMAIN o : new[m] = o[m]
      BY <1>2, <2>1
    <3>4. ASSUME NEW m, Has(new, m, "block_stop", new[n][2])
          PROVE  m >= n
      BY <3>1, <3>2, <3>3, <3>4 DEF Has
    <3>5. QED
      BY <1>5, <3>1, <3>3, <3>4
  <2>2. CASE n \notin DOMAIN o
    <3>1. new[n][2] \in open /\ new[n] = f[n - Len(o)] /\ n - Len(o) \in DOMAIN f
      BY <1>1, <1>3, <2>2
    <3>2. (\E m : Has(o, m, "block_start", new[n][2])) /\ \A m : ~Has(o, m, "block_stop", new[n][2])
      BY <3>1 DEF Blocks, Opened
    <3>3. \A m : Has(o, m, "block_start", new[n][2]) => m < n
      BY <1>2, <2>2 DEF Has
    <3>4. ASSUME NEW m, Has(new, m, "block_stop", new[n][2])
          PROVE  m = n
      <4>1. m \in DOMAIN new \ DOMAIN o
        BY <1>2, <3>2, <3>4 DEF Has
      <4>2. m - Len(o) \in DOMAIN f /\ f[m - Len(o)][2] = f[n - Len(o)][2]
        BY <1>1, <3>1, <3>4, <4>1 DEF Has
      <4>3. m - Len(o) = n - Len(o)
        BY <3>1, <4>2
      <4>4. m \in Nat /\ n \in Nat
        BY <1>2, <4>1
      <4>5. QED
        BY <1>2, <4>3, <4>4
    <3>5. n \in Nat
      BY <1>2
    <3>6. QED
      BY <1>5, <3>2, <3>3, <3>4, <3>5
  <2>3. QED
    BY <2>1, <2>2
<1>10. QED
  BY <1>4, <1>8, <1>9 DEF Blocks, Nested, new

(* SetToSeqs orders a finite set, each element once.                       *)
LEMMA EveryOneOnce ==
  ASSUME NEW S, IsFiniteSet(S), NEW f \in SetToSeqs(S)
  PROVE  /\ f \in Seq(S)
         /\ \A m, n \in DOMAIN f : f[m] = f[n] => m = n
         /\ \A x \in S : \E n \in DOMAIN f : f[n] = x
<1> DEFINE N == Cardinality(S)
<1>1. N \in Nat
  BY FS_CardinalityType
<1>2. f \in [1..N -> S] /\ \A i, j \in 1..N : i # j => f[i] # f[j]
  BY DEF SetToSeqs
<1>3. IsFiniteSet(1..N) /\ Cardinality(1..N) = N
  BY <1>1, FS_Interval
<1> HIDE DEF N
<1>4. f \in Injection(1..N, S)
  BY <1>2 DEF Injection, IsInjective
<1>5. f \in Surjection(1..N, S)
  BY <1>3, <1>4, FS_Injection DEF N
<1>6. QED
  BY <1>1, <1>2, <1>5 DEF Surjection

-----------------------------------------------------------------------------
(* The translator for an Anthropic client, while its message goes on.      *)
AnthEvent ==
  {<<"message_start">>, <<"message_delta">>, <<"message_stop">>}
    \cup ({"block_start", "block_delta", "block_stop"} \X Nat)
AnthState ==
  [out : Seq(AnthEvent), started : BOOLEAN, textOpen : BOOLEAN, textIndex : Nat, next : Nat,
   block : [ToolIndex -> Nat \cup {Absent}], begun : SUBSET ToolIndex, finished : BOOLEAN]

OpenNow(x) == (IF x.textOpen THEN {x.textIndex} ELSE {}) \cup {x.block[i] : i \in x.begun}

(* Tools have blocks of their own.                                         *)
Separate(x) ==
  /\ \A i \in ToolIndex : i \in x.begun <=> x.block[i] # Absent
  /\ \A i, j \in x.begun : x.block[i] = x.block[j] => i = j
  /\ x.textOpen => \A i \in x.begun : x.block[i] # x.textIndex

Framing(o) ==
  /\ o # <<>> /\ o[1][1] \in {"message_start", "message_stop"}
  /\ \A n \in DOMAIN o : o[n][1] = "message_start" => n = 1

Ending == {"message_delta", "message_stop"}

Streaming(x) ==
  /\ x \in AnthState /\ x.started /\ ~x.finished
  /\ Framing(x.out) /\ \A n \in DOMAIN x.out : x.out[n][1] \notin Ending
  /\ Blocks(x.out, OpenNow(x), x.next) /\ Separate(x)

LEMMA AnthEvents ==
  /\ \A k \in {"message_start", "message_delta", "message_stop"} : <<k>> \in AnthEvent
  /\ \A k \in {"block_start", "block_delta", "block_stop"}, b \in Nat : <<k, b>> \in AnthEvent
BY DEF AnthEvent

LEMMA StreamGoesOn ==
  ASSUME NEW x, Streaming(x), NEW y \in AnthState, NEW e \in AnthEvent,
         y.out = Append(x.out, e), e[1] \notin {"message_start"} \cup Ending,
         y.started, ~y.finished, Blocks(y.out, OpenNow(y), y.next), Separate(y)
  PROVE  Streaming(y)
<1>1. x.out \in Seq(AnthEvent)
  BY DEF Streaming, AnthState
<1>2. Framing(y.out) /\ \A n \in DOMAIN y.out : y.out[n][1] \notin Ending
  BY <1>1 DEF Streaming, Framing
<1>3. QED
  BY <1>2 DEF Streaming

LEMMA TextBlockStreams ==
  ASSUME NEW x, Streaming(x)
  PROVE  Streaming(TextBlock(x)) /\ TextBlock(x).textOpen /\ TextBlock(x).begun = x.begun
<1> DEFINE e == <<"block_start", x.next>>
           y == [x EXCEPT !.textOpen = TRUE, !.textIndex = x.next, !.next = x.next + 1,
                          !.out = x.out \o <<e>>]
<1>1. CASE x.textOpen
  BY <1>1 DEF TextBlock
<1>2. CASE ~x.textOpen
  <2>1. TextBlock(x) = y
    BY <1>2 DEF TextBlock, Emit, Streaming, AnthState
  <2>2. x \in AnthState /\ x.next \in Nat /\ x.out \in Seq(AnthEvent)
    BY DEF Streaming, AnthState
  <2>3. e \in AnthEvent /\ e[1] = "block_start" /\ e[2] = x.next
    BY <2>2, AnthEvents
  <2> HIDE DEF e
  <2>4. /\ x.out \o <<e>> = Append(x.out, e) /\ Append(x.out, e) \in Seq(AnthEvent)
        /\ Continues(Append(x.out, e), x.out) /\ Len(Append(x.out, e)) = Len(x.out) + 1
        /\ Append(x.out, e)[Len(x.out) + 1] = e
    BY <2>2, <2>3, EmitAppends, AppendContinues
  <2>5. /\ y.out = Append(x.out, e) /\ y.started = x.started /\ y.finished = x.finished /\ y.textOpen
        /\ y.textIndex = x.next /\ y.next = x.next + 1 /\ y.block = x.block /\ y.begun = x.begun
    BY <2>2, <2>4 DEF AnthState
  <2>12. y \in AnthState
    <3>1. x.next + 1 \in Nat
      BY <2>2
    <3>2. QED
      BY <2>2, <2>4, <3>1 DEF AnthState
  <2> HIDE DEF y
  <2>6. OpenNow(y) = OpenNow(x) \cup {x.next}
    BY <1>2, <2>5 DEF OpenNow
  <2>7. Blocks(y.out, OpenNow(y), y.next)
    <3>1. Blocks(x.out, OpenNow(x), x.next)
      BY DEF Streaming
    <3>2. Blocks(Append(x.out, e), OpenNow(x) \cup {x.next}, x.next + 1)
      BY <2>2, <2>3, <2>6, <3>1, AppendedBlocks
    <3>3. QED
      BY <2>5, <2>6, <3>2
  <2>8. OpenNow(x) \subseteq 0..(x.next - 1)
    BY OpenNumbers DEF Streaming
  <2>9. Separate(y)
    <3>1. \A i \in x.begun : x.block[i] # x.next
      BY <2>2, <2>8 DEF OpenNow
    <3>2. QED
      BY <2>5, <3>1 DEF Separate, Streaming
  <2>10. Streaming(y)
    BY <2>3, <2>5, <2>7, <2>9, <2>12, StreamGoesOn DEF Ending, Streaming
  <2>11. QED
    BY <2>1, <2>5, <2>10
<1>3. QED
  BY <1>1, <1>2

LEMMA DeltaStreams ==
  ASSUME NEW x, Streaming(x), NEW b \in OpenNow(x)
  PROVE  /\ Streaming(Emit(x, <<<<"block_delta", b>>>>))
         /\ Emit(x, <<<<"block_delta", b>>>>).begun = x.begun
<1> DEFINE e == <<"block_delta", b>>
           y == [x EXCEPT !.out = x.out \o <<e>>]
<1>1. x \in AnthState /\ x.next \in Nat /\ x.out \in Seq(AnthEvent)
  BY DEF Streaming, AnthState
<1>2. b \in Nat
  BY <1>1, OpenNumbers DEF Streaming
<1>3. e \in AnthEvent /\ e[1] = "block_delta" /\ e[2] = b
  BY <1>2, AnthEvents
<1>4. Emit(x, <<<<"block_delta", b>>>>) = y
  BY DEF Emit
<1> HIDE DEF e
<1>5. /\ x.out \o <<e>> = Append(x.out, e) /\ Append(x.out, e) \in Seq(AnthEvent)
      /\ Continues(Append(x.out, e), x.out) /\ Len(Append(x.out, e)) = Len(x.out) + 1
      /\ Append(x.out, e)[Len(x.out) + 1] = e
  BY <1>1, <1>3, EmitAppends, AppendContinues
<1>6. /\ y \in AnthState /\ y.out = Append(x.out, e) /\ y.started = x.started /\ y.finished = x.finished
      /\ y.textOpen = x.textOpen /\ y.textIndex = x.textIndex /\ y.next = x.next /\ y.block = x.block
      /\ y.begun = x.begun
  BY <1>1, <1>5 DEF AnthState
<1> HIDE DEF y
<1>7. OpenNow(y) = OpenNow(x) /\ Separate(y)
  BY <1>6 DEF OpenNow, Separate, Streaming
<1>8. Blocks(y.out, OpenNow(y), y.next)
  BY <1>1, <1>3, <1>6, <1>7, AppendedBlocks DEF Streaming
<1>9. Streaming(y)
  BY <1>3, <1>6, <1>7, <1>8, StreamGoesOn DEF Ending, Streaming
<1>10. QED
  BY <1>4, <1>6, <1>9

LEMMA TextClosedStreams ==
  ASSUME NEW x, Streaming(x)
  PROVE  /\ Streaming(TextClosed(x)) /\ ~TextClosed(x).textOpen
         /\ TextClosed(x).begun = x.begun /\ TextClosed(x).block = x.block
<1> DEFINE e == <<"block_stop", x.textIndex>>
           y == [x EXCEPT !.textOpen = FALSE, !.out = x.out \o <<e>>]
<1>1. CASE ~x.textOpen
  BY <1>1 DEF TextClosed
<1>2. CASE x.textOpen
  <2>1. TextClosed(x) = y
    BY <1>2 DEF TextClosed, Emit, Streaming, AnthState
  <2>2. x \in AnthState /\ x.next \in Nat /\ x.out \in Seq(AnthEvent) /\ x.textIndex \in Nat
    BY DEF Streaming, AnthState
  <2>3. e \in AnthEvent /\ e[1] = "block_stop" /\ e[2] = x.textIndex
    BY <2>2, AnthEvents
  <2> HIDE DEF e
  <2>4. /\ x.out \o <<e>> = Append(x.out, e) /\ Append(x.out, e) \in Seq(AnthEvent)
        /\ Continues(Append(x.out, e), x.out) /\ Len(Append(x.out, e)) = Len(x.out) + 1
        /\ Append(x.out, e)[Len(x.out) + 1] = e
    BY <2>2, <2>3, EmitAppends, AppendContinues
  <2>5. /\ y \in AnthState /\ y.out = Append(x.out, e) /\ y.started /\ ~y.finished /\ ~y.textOpen
        /\ y.next = x.next /\ y.block = x.block /\ y.begun = x.begun
    BY <2>2, <2>4 DEF Streaming, AnthState
  <2> HIDE DEF y
  <2>6. OpenNow(y) = OpenNow(x) \ {x.textIndex} /\ x.textIndex \in OpenNow(x) /\ Separate(y)
    BY <1>2, <2>5 DEF OpenNow, Separate, Streaming
  <2>7. Blocks(y.out, OpenNow(y), y.next)
    <3>1. Blocks(x.out, OpenNow(x), x.next)
      BY DEF Streaming
    <3>2. Blocks(Append(x.out, e), OpenNow(x) \ {x.textIndex}, x.next)
      BY <2>2, <2>3, <2>6, <3>1, AppendedBlocks
    <3>3. QED
      BY <2>5, <2>6, <3>2
  <2>8. Streaming(y)
    BY <2>3, <2>5, <2>6, <2>7, StreamGoesOn DEF Ending
  <2>9. QED
    BY <2>1, <2>5, <2>8
<1>3. QED
  BY <1>1, <1>2

(* A piece of a tool, which its first piece names, opening its block.      *)
LEMMA ToolStreams ==
  ASSUME NEW x, Streaming(x), NEW piece \in Pieces, piece.named \/ piece.index \in x.begun
  PROVE  Streaming(WithTool(x, piece))
<1> DEFINE i == piece.index
           c == TextClosed(x)
           a == IF c.block[i] = Absent THEN [c EXCEPT !.block[i] = c.next, !.next = @ + 1] ELSE c
           b == IF piece.named /\ i \notin a.begun
                THEN Emit([a EXCEPT !.begun = @ \cup {i}], <<<<"block_start", a.block[i]>>>>)
                ELSE a
<1>1. i \in ToolIndex /\ piece.named \in BOOLEAN /\ piece.args \in BOOLEAN
  BY DEF Pieces
<1>2. WithTool(x, piece) = IF piece.args THEN Emit(b, <<<<"block_delta", b.block[i]>>>>) ELSE b
  BY DEF WithTool
<1>3. Streaming(c) /\ ~c.textOpen /\ c.begun = x.begun
  BY TextClosedStreams
<1> HIDE DEF c
<1>4. /\ c \in AnthState /\ c.next \in Nat /\ c.out \in Seq(AnthEvent)
      /\ c.block \in [ToolIndex -> Nat \cup {Absent}] /\ c.begun \in SUBSET ToolIndex
      /\ (i \in c.begun <=> c.block[i] # Absent)
  BY <1>1, <1>3 DEF Streaming, AnthState, Separate
<1>5. Streaming(b) /\ i \in b.begun
  <2>1. CASE i \in c.begun
    <3>1. a = c /\ b = c
      BY <1>3, <1>4, <2>1
    <3>2. QED
      BY <1>3, <2>1, <3>1
  <2>2. CASE i \notin c.begun
    <3> DEFINE e == <<"block_start", c.next>>
               y == [c EXCEPT !.block = [c.block EXCEPT ![i] = c.next], !.next = c.next + 1,
                              !.begun = c.begun \cup {i}, !.out = c.out \o <<e>>]
    <3>1. a = [c EXCEPT !.block = [c.block EXCEPT ![i] = c.next], !.next = c.next + 1]
      BY <1>4, <2>2
    <3>2. a.block[i] = c.next /\ a.begun = c.begun /\ a.out = c.out /\ a.next = c.next + 1
      BY <1>1, <1>4, <3>1 DEF AnthState
    <3>3. piece.named
      BY <1>3, <2>2
    <3>4. b = Emit([a EXCEPT !.begun = c.begun \cup {i}], <<e>>)
      BY <2>2, <3>2, <3>3
    <3> HIDE DEF a, b
    <3>5. b = y
      BY <1>4, <3>1, <3>4 DEF Emit, AnthState
    <3>6. e \in AnthEvent /\ e[1] = "block_start" /\ e[2] = c.next
      BY <1>4, AnthEvents
    <3> HIDE DEF e
    <3>7. /\ c.out \o <<e>> = Append(c.out, e) /\ Append(c.out, e) \in Seq(AnthEvent)
          /\ Continues(Append(c.out, e), c.out) /\ Len(Append(c.out, e)) = Len(c.out) + 1
          /\ Append(c.out, e)[Len(c.out) + 1] = e
      BY <1>4, <3>6, EmitAppends, AppendContinues
    <3>8. /\ y.out = Append(c.out, e) /\ y.started = c.started /\ y.finished = c.finished
          /\ y.textOpen = c.textOpen /\ y.textIndex = c.textIndex /\ y.next = c.next + 1
          /\ y.block = [c.block EXCEPT ![i] = c.next] /\ y.begun = c.begun \cup {i}
      BY <1>4, <3>7 DEF AnthState
    <3>9. y \in AnthState
      <4>1. [c.block EXCEPT ![i] = c.next] \in [ToolIndex -> Nat \cup {Absent}]
        BY <1>4
      <4>2. c.begun \cup {i} \in SUBSET ToolIndex /\ c.next + 1 \in Nat
        BY <1>1, <1>4
      <4>3. QED
        BY <1>4, <3>7, <4>1, <4>2 DEF AnthState
    <3> HIDE DEF y
    <3>10. /\ y.block[i] = c.next
           /\ \A j \in c.begun : j # i /\ y.block[j] = c.block[j] /\ j \in ToolIndex
           /\ \A j \in ToolIndex \ {i} : y.block[j] = c.block[j]
      BY <1>1, <1>4, <2>2, <3>8
    <3>11. OpenNow(y) = OpenNow(c) \cup {c.next}
      <4>1. {y.block[j] : j \in y.begun} = {c.block[j] : j \in c.begun} \cup {c.next}
        BY <3>8, <3>10
      <4>2. QED
        BY <1>3, <3>8, <4>1 DEF OpenNow
    <3>12. OpenNow(c) \subseteq 0..(c.next - 1)
      BY <1>3, OpenNumbers DEF Streaming
    <3>13. \A j \in c.begun : c.block[j] # c.next
      BY <1>4, <3>12 DEF OpenNow
    <3>14. Separate(y)
      <4>1. c.next # Absent
        BY <1>4 DEF Absent
      <4>2. \A j \in ToolIndex : j \in y.begun <=> y.block[j] # Absent
        BY <1>3, <3>8, <3>10, <4>1 DEF Separate, Streaming
      <4>3. \A j, k \in y.begun : y.block[j] = y.block[k] => j = k
        BY <1>3, <3>8, <3>10, <3>13 DEF Separate, Streaming
      <4>4. QED
        BY <1>3, <3>8, <4>2, <4>3 DEF Separate
    <3>15. Blocks(y.out, OpenNow(y), y.next)
      <4>1. Blocks(c.out, OpenNow(c), c.next)
        BY <1>3 DEF Streaming
      <4>2. Blocks(Append(c.out, e), OpenNow(c) \cup {c.next}, c.next + 1)
        BY <1>4, <3>6, <4>1, AppendedBlocks
      <4>3. QED
        BY <3>8, <3>11, <4>2
    <3>16. Streaming(y)
      <4>1. y.started /\ ~y.finished
        BY <1>3, <3>8 DEF Streaming
      <4>2. y.out = Append(c.out, e) /\ e[1] \notin {"message_start"} \cup Ending
        BY <3>6, <3>8 DEF Ending
      <4>3. QED
        BY <1>3, <3>6, <3>9, <3>14, <3>15, <4>1, <4>2, StreamGoesOn
    <3>17. QED
      BY <3>5, <3>8, <3>16
  <2>3. QED
    BY <2>1, <2>2
<1> HIDE DEF b
<1>6. b.block[i] \in OpenNow(b)
  BY <1>5 DEF OpenNow
<1>7. QED
  BY <1>2, <1>5, <1>6, DeltaStreams

(* A chunk: whatever it has of message, text and tool.                     *)
LEMMA ChunkStreams ==
  ASSUME NEW x, x = ToAnthropic \/ Streaming(x), NEW text \in BOOLEAN,
         NEW piece \in Pieces \cup {NoTool}, piece = NoTool \/ piece.named \/ piece.index \in x.begun
  PROVE  LET m == WithMessage(x)
             t == IF text THEN WithText(m) ELSE m
         IN Streaming(IF piece = NoTool THEN t ELSE WithTool(t, piece))
<1> DEFINE m == WithMessage(x)
           t == IF text THEN WithText(m) ELSE m
<1>1. Streaming(m) /\ m.begun = x.begun
  <2>1. CASE x = ToAnthropic
    <3> DEFINE e == <<"message_start">>
    <3>1. /\ m = [ToAnthropic EXCEPT !.started = TRUE, !.out = <<>> \o <<e>>]
      BY <2>1 DEF WithMessage, Emit, ToAnthropic
    <3>2. <<>> \o <<e>> = <<e>>
      OBVIOUS
    <3>3. /\ m.out = <<e>> /\ m.started /\ ~m.finished /\ ~m.textOpen /\ m.textIndex = 0 /\ m.next = 0
          /\ m.begun = {} /\ m.block = [i \in ToolIndex |-> Absent]
      BY <3>1, <3>2 DEF ToAnthropic
    <3>4. m \in AnthState
      <4>1. <<e>> \in Seq(AnthEvent)
        BY AnthEvents
      <4>2. [i \in ToolIndex |-> Absent] \in [ToolIndex -> Nat \cup {Absent}]
        OBVIOUS
      <4>3. m = [out |-> <<e>>, started |-> TRUE, textOpen |-> FALSE, textIndex |-> 0, next |-> 0,
                 block |-> [i \in ToolIndex |-> Absent], begun |-> {}, finished |-> FALSE]
        BY <3>1, <3>2 DEF ToAnthropic
      <4> HIDE DEF e, m
      <4>4. QED
        BY <4>1, <4>2, <4>3 DEF AnthState
    <3> HIDE DEF m
    <3>5. OpenNow(m) = {} /\ Separate(m)
      BY <3>3 DEF OpenNow, Separate
    <3>6. Blocks(<<e>>, {}, 0)
      <4>1. Continues(<<e>>, <<>>) /\ \A n \in DOMAIN <<e>> : <<e>>[n][1] = "message_start"
        BY DEF Continues
      <4>2. QED
        BY <4>1, NoBlocks, BlocksStay DEF Inside
    <3>7. Framing(<<e>>) /\ \A n \in DOMAIN <<e>> : <<e>>[n][1] \notin Ending
      BY DEF Framing, Ending
    <3>8. QED
      BY <2>1, <3>3, <3>4, <3>5, <3>6, <3>7 DEF Streaming, ToAnthropic
  <2>2. CASE Streaming(x)
    BY <2>2 DEF WithMessage, Streaming
  <2>3. QED
    BY <2>1, <2>2
<1> HIDE DEF m
<1>2. Streaming(t) /\ t.begun = x.begun
  <2>1. Streaming(TextBlock(m)) /\ TextBlock(m).textOpen /\ TextBlock(m).begun = x.begun
    BY <1>1, TextBlockStreams
  <2>2. TextBlock(m).textIndex \in OpenNow(TextBlock(m))
    BY <2>1 DEF OpenNow
  <2>3. Streaming(WithText(m)) /\ WithText(m).begun = x.begun
    BY <2>1, <2>2, DeltaStreams DEF WithText
  <2>4. QED
    BY <1>1, <2>3
<1> HIDE DEF t
<1>3. CASE piece # NoTool
  <2>1. Streaming(WithTool(t, piece))
    BY <1>2, <1>3, ToolStreams
  <2>2. QED
    BY <1>3, <2>1 DEF t, m
<1>4. CASE piece = NoTool
  BY <1>2, <1>4 DEF t, m
<1>5. QED
  BY <1>3, <1>4

-----------------------------------------------------------------------------
(* The end of a message: told in message_delta once every block is         *)
(* stopped, and the last thing sent is message_stop.                       *)
Told(o) ==
  \A n \in Which(o, "message_delta"), m \in Which(o, "block_start") :
    \E l : Has(o, l, "block_stop", o[m][2]) /\ l < n

Placed(x) ==
  /\ x.textOpen => x.textIndex \in 0..(x.next - 1)
  /\ x.block \in [ToolIndex -> (0..(x.next - 1)) \cup {Absent}]

WellSent(x) ==
  /\ x \in AnthState /\ (x.out = <<>> \/ Framing(x.out))
  /\ Counts(x.out, "block_start", x.next) /\ Nested(x.out) /\ Told(x.out)
  /\ Placed(x)

Ended(x) == WellSent(x) /\ x.finished /\ x.out # <<>> /\ x.out[Len(x.out)] = <<"message_stop">>

LEMMA NothingSent == WellSent(ToAnthropic)
<1>1. [i \in ToolIndex |-> Absent] \in [ToolIndex -> {Absent}]
  OBVIOUS
<1>2. ToAnthropic \in AnthState
  <2>1. <<>> \in Seq(AnthEvent) /\ [i \in ToolIndex |-> Absent] \in [ToolIndex -> Nat \cup {Absent}]
    BY <1>1
  <2>2. QED
    BY <2>1 DEF AnthState, ToAnthropic
<1>3. Blocks(<<>>, {}, 0) /\ Told(<<>>)
  BY NoBlocks DEF Told, Which
<1>4. Placed(ToAnthropic)
  BY <1>1 DEF Placed, ToAnthropic
<1>5. ToAnthropic.out = <<>> /\ ToAnthropic.next = 0
  BY DEF ToAnthropic
<1>6. QED
  BY <1>2, <1>3, <1>4, <1>5 DEF WellSent, Blocks

LEMMA StreamingSent ==
  ASSUME NEW x, Streaming(x)
  PROVE  WellSent(x) /\ x.out # <<>>
<1>1. OpenNow(x) \subseteq 0..(x.next - 1) /\ x.block \in [ToolIndex -> Nat \cup {Absent}]
  BY OpenNumbers DEF Streaming, AnthState
<1>2. \A i \in ToolIndex : x.block[i] \in (0..(x.next - 1)) \cup {Absent}
  BY <1>1 DEF OpenNow, Separate, Streaming
<1>3. Placed(x)
  BY <1>1, <1>2 DEF Placed, OpenNow
<1>4. Told(x.out)
  BY DEF Streaming, Told, Which, Ending
<1>5. QED
  BY <1>3, <1>4 DEF Streaming, WellSent, Blocks, Framing

LEMMA StoppedEnds ==
  ASSUME NEW x, WellSent(x)
  PROVE  Ended(Stopped(x))
<1> DEFINE e == <<"message_stop">>
           new == Append(x.out, e)
           y == [x EXCEPT !.finished = TRUE, !.out = x.out \o <<e>>]
<1>1. x \in AnthState /\ x.out \in Seq(AnthEvent)
  BY DEF WellSent, AnthState
<1>2. e \in AnthEvent /\ e[1] = "message_stop"
  BY AnthEvents
<1>3. Stopped(x) = y
  BY <1>1 DEF Stopped, Emit, AnthState
<1> HIDE DEF e
<1>4. /\ x.out \o <<e>> = new /\ new \in Seq(AnthEvent) /\ Continues(new, x.out)
      /\ Len(new) = Len(x.out) + 1 /\ new[Len(x.out) + 1] = e
  BY <1>1, <1>2, EmitAppends, AppendContinues
<1>5. y \in AnthState
  BY <1>1, <1>4 DEF AnthState
<1>6. /\ y.out = new /\ y.finished /\ y.textOpen = x.textOpen /\ y.textIndex = x.textIndex
      /\ y.next = x.next /\ y.block = x.block
  BY <1>1, <1>4 DEF AnthState
<1> HIDE DEF y, new
<1>7. /\ DOMAIN new = DOMAIN x.out \cup {Len(new)} /\ Len(new) \in DOMAIN new /\ new[Len(new)] = e
      /\ \A n \in DOMAIN x.out : new[n] = x.out[n] /\ n \in Int /\ n < Len(new)
      /\ \A m, kind, b : Has(new, m, kind, b) <=>
           Has(x.out, m, kind, b) \/ (m = Len(new) /\ new[m][1] = kind /\ new[m][2] = b)
  <2>1. Continues(new, x.out) /\ Len(new) = Len(x.out) + 1 /\ new[Len(new)] = e
    BY <1>4
  <2>2. /\ Len(new) \in DOMAIN new /\ DOMAIN new = DOMAIN x.out \cup {Len(new)}
        /\ \A n \in DOMAIN x.out : new[n] = x.out[n] /\ n < Len(new) /\ n \in Int
        /\ \A m, kind, b : Has(new, m, kind, b) <=>
              Has(x.out, m, kind, b) \/ (m = Len(new) /\ new[m][1] = kind /\ new[m][2] = b)
        /\ \A m, kind, b : Has(x.out, m, kind, b) => m < Len(new)
    BY <2>1, OneMore
  <2>3. QED
    BY <2>1, <2>2
<1>8. Counts(new, "block_start", x.next)
  BY <1>2, <1>4, <1>7, CountsStay DEF WellSent
<1>9. \A m, b : \A kind \in {"block_start", "block_delta", "block_stop"} :
        Has(new, m, kind, b) <=> Has(x.out, m, kind, b)
  BY <1>2, <1>7
<1>10. Nested(new)
  <2>1. \A n \in DOMAIN new : new[n][1] \in Inside => n \in DOMAIN x.out /\ new[n] = x.out[n]
    BY <1>2, <1>7 DEF Inside
  <2>2. QED
    BY <1>9, <2>1 DEF WellSent, Nested
<1>11. Told(new)
  <2>1. \A kind \in {"message_delta", "block_start"} : \A n \in Which(new, kind) :
          n \in Which(x.out, kind) /\ new[n] = x.out[n]
    BY <1>2, <1>7 DEF Which
  <2>2. QED
    BY <1>9, <2>1 DEF WellSent, Told
<1>12. Framing(new)
  <2>1. new # <<>> /\ \A n \in DOMAIN new : new[n][1] = "message_start" => n \in DOMAIN x.out
    BY <1>2, <1>4, <1>7
  <2>2. CASE x.out = <<>>
    <3>1. Len(new) = 1 /\ DOMAIN x.out = {}
      BY <1>4, <2>2
    <3>2. QED
      BY <1>2, <1>7, <2>1, <3>1 DEF Framing
  <2>3. CASE Framing(x.out)
    <3>1. 1 \in DOMAIN x.out
      BY <1>1, <2>3 DEF Framing
    <3>2. QED
      BY <1>7, <2>1, <2>3, <3>1 DEF Framing
  <2>4. QED
    BY <2>2, <2>3 DEF WellSent
<1>13. Placed(y)
  BY <1>6 DEF Placed, WellSent
<1>14. y.out # <<>> /\ y.out[Len(y.out)] = e
  BY <1>6, <1>7, <1>12 DEF Framing
<1>15. QED
  BY <1>3, <1>5, <1>6, <1>8, <1>10, <1>11, <1>12, <1>13, <1>14 DEF Ended, WellSent, e

(* The first finish reason: the text block, if it is open, every tool's,   *)
(* in any order, and then the end is told.                                 *)
LEMMA FinishedEnds ==
  ASSUME NEW x, Streaming(x), NEW y \in Finished(x)
  PROVE  Ended(y)
<1> DEFINE c == TextClosed(x)
           S == {<<"block_stop", x.block[i]>> : i \in x.begun}
           d == <<"message_delta">>
           e == <<"message_stop">>
<1>1. Streaming(c) /\ ~c.textOpen /\ c.begun = x.begun /\ c.block = x.block
  BY TextClosedStreams
<1>2. ~x.finished
  BY DEF Streaming
<1>3. PICK stops \in SetToSeqs(S) : y = Emit([c EXCEPT !.finished = TRUE], stops \o <<d, e>>)
  BY <1>2 DEF Finished
<1> HIDE DEF c
<1>4. c \in AnthState /\ c.out \in Seq(AnthEvent) /\ c.next \in Nat
  BY <1>1 DEF Streaming, AnthState
<1>5. OpenNow(c) = {x.block[i] : i \in x.begun} /\ OpenNow(c) \subseteq 0..(c.next - 1)
  BY <1>1, OpenNumbers DEF OpenNow, Streaming
<1>6. /\ \A b \in OpenNow(c) : <<"block_stop", b>> \in S
      /\ \A s \in S : s[1] = "block_stop" /\ s[2] \in OpenNow(c) /\ s = <<"block_stop", s[2]>>
  BY <1>5
<1> HIDE DEF S
<1>7. IsFiniteSet(S)
  <2>1. IsFiniteSet(0..(c.next - 1))
    BY <1>4, FS_Interval
  <2>2. IsFiniteSet({"block_stop"} \X (0..(c.next - 1)))
    BY <2>1, FS_Singleton, FS_Product
  <2>3. \A s \in S : s \in {"block_stop"} \X (0..(c.next - 1))
    BY <1>5, <1>6
  <2>4. S \subseteq {"block_stop"} \X (0..(c.next - 1))
    BY <2>3
  <2>5. QED
    BY <2>2, <2>4, FS_Subset
<1>8. /\ stops \in Seq(S)
      /\ \A m, n \in DOMAIN stops : stops[m] = stops[n] => m = n
      /\ \A s \in S : \E n \in DOMAIN stops : stops[n] = s
  BY <1>3, <1>7, EveryOneOnce
<1>9. \A n \in DOMAIN stops : stops[n] \in S
  BY <1>8
<1>10. S \subseteq AnthEvent
  <2>1. \A s \in S : s[2] \in Nat
    BY <1>4, <1>5, <1>6
  <2>2. \A s \in S : s \in AnthEvent
    BY <1>6, <2>1, AnthEvents
  <2>3. QED
    BY <2>2
<1>11. stops \in Seq(AnthEvent)
  BY <1>8, <1>10, SeqMonotonic
<1> DEFINE p == c.out \o stops
           q == Append(Append(p, d), e)
<1>12. /\ p \in Seq(AnthEvent) /\ Continues(p, c.out)
       /\ \A n \in DOMAIN p \ DOMAIN c.out : n - Len(c.out) \in DOMAIN stops /\ p[n] = stops[n - Len(c.out)]
       /\ c.out \o (stops \o <<d, e>>) = q
  <2>1. d \in AnthEvent /\ e \in AnthEvent
    BY AnthEvents
  <2>2. /\ p \in Seq(AnthEvent) /\ Continues(p, c.out)
        /\ \A n \in DOMAIN p \ DOMAIN c.out :
             n - Len(c.out) \in DOMAIN stops /\ p[n] = stops[n - Len(c.out)]
    BY <1>4, <1>11, ConcatContinues
  <2> HIDE DEF d, e
  <2>3. c.out \o (stops \o <<d, e>>) = q
    <3>1. <<d, e>> \in Seq(AnthEvent)
      BY <2>1
    <3>2. c.out \o (stops \o <<d, e>>) = p \o <<d, e>>
      <4> DEFINE o == c.out
                 last == <<d, e>>
      <4>1. o \in Seq(AnthEvent) /\ last \in Seq(AnthEvent)
        BY <1>4, <3>1
      <4> HIDE DEF o, last
      <4>2. o \o (stops \o last) = (o \o stops) \o last
        BY <1>11, <4>1, ConcatAssociative
      <4>3. QED
        BY <4>2 DEF o, last
    <3> HIDE DEF p
    <3>3. p \o <<d, e>> = Append(Append(p, d), e)
      BY <2>1, <2>2
    <3>4. QED
      BY <3>2, <3>3
  <2>4. QED
    BY <2>2, <2>3
<1>13. Blocks(p, {}, c.next)
  <2>1. Blocks(c.out, OpenNow(c), c.next)
    BY <1>1 DEF Streaming
  <2>2. \A n \in DOMAIN stops : stops[n][1] = "block_stop" /\ stops[n][2] \in OpenNow(c)
    BY <1>6, <1>9
  <2>3. \A m, n \in DOMAIN stops : stops[m][2] = stops[n][2] => m = n
    <3> TAKE m, n \in DOMAIN stops
    <3>1. stops[m] = <<"block_stop", stops[m][2]>> /\ stops[n] = <<"block_stop", stops[n][2]>>
      BY <1>6, <1>9
    <3>2. QED
      BY <1>8, <3>1
  <2>4. \A b \in OpenNow(c) : \E n \in DOMAIN stops : stops[n][2] = b
    <3> TAKE b \in OpenNow(c)
    <3>1. PICK n \in DOMAIN stops : stops[n] = <<"block_stop", b>>
      BY <1>6, <1>8
    <3>2. QED
      BY <3>1
  <2>5. QED
    BY <1>4, <1>11, <2>1, <2>2, <2>3, <2>4, AllStop
<1>14. \A n \in DOMAIN p : IF n \in DOMAIN c.out THEN p[n] = c.out[n] ELSE p[n][1] = "block_stop"
  <2> HIDE DEF p
  <2>1. \A n \in DOMAIN c.out : p[n] = c.out[n]
    BY <1>12 DEF Continues
  <2>2. \A n \in DOMAIN p \ DOMAIN c.out : p[n][1] = "block_stop"
    BY <1>6, <1>9, <1>12
  <2>3. QED
    BY <2>1, <2>2
<1>15. Framing(p) /\ \A n \in DOMAIN p : p[n][1] \notin Ending
  <2>1. 1 \in DOMAIN c.out /\ Framing(c.out) /\ \A n \in DOMAIN c.out : c.out[n][1] \notin Ending
    BY <1>1, <1>4 DEF Streaming, Framing
  <2>2. 1 \in DOMAIN p /\ p[1] = c.out[1]
    BY <1>12, <2>1 DEF Continues
  <2>3. QED
    BY <1>14, <2>1, <2>2 DEF Framing, Ending
<1> HIDE DEF p
<1>16. /\ Len(p) \in Nat /\ DOMAIN p = 1..Len(p) /\ DOMAIN q = 1..(Len(p) + 2)
       /\ q \in Seq(AnthEvent) /\ Len(q) = Len(p) + 2
       /\ \A n \in DOMAIN p : q[n] = p[n]
       /\ q[Len(p) + 1] = d /\ q[Len(p) + 2] = e
  <2>1. d \in AnthEvent /\ e \in AnthEvent
    BY AnthEvents
  <2> HIDE DEF d, e
  <2>2. QED
    BY <1>12, <2>1
<1>17. d[1] = "message_delta" /\ e[1] = "message_stop"
  OBVIOUS
<1> HIDE DEF q, d
<1>18. \A n \in DOMAIN q : n \in DOMAIN p \/ n = Len(p) + 1 \/ n = Len(p) + 2
  BY <1>16
<1>19. Continues(q, p)
  BY <1>16 DEF Continues
<1>20. Blocks(q, {}, c.next)
  BY <1>13, <1>16, <1>17, <1>18, <1>19, BlocksStay DEF Inside
<1>21. Framing(q)
  BY <1>15, <1>16, <1>17, <1>18 DEF Framing
<1>22. Told(q)
  <2> SUFFICES ASSUME NEW n \in Which(q, "message_delta"), NEW m \in Which(q, "block_start")
               PROVE  \E l : Has(q, l, "block_stop", q[m][2]) /\ l < n
    BY DEF Told
  <2>1. n = Len(p) + 1
    BY <1>15, <1>16, <1>17, <1>18 DEF Which, Ending
  <2>2. m \in Which(p, "block_start") /\ q[m] = p[m]
    BY <1>16, <1>17, <1>18 DEF Which
  <2>3. PICK l : Has(p, l, "block_stop", p[m][2])
    BY <1>13, <2>2 DEF Blocks, Opened
  <2>4. l \in DOMAIN p /\ l < n
    BY <1>16, <2>1, <2>3 DEF Has
  <2>5. QED
    BY <1>16, <2>2, <2>3, <2>4 DEF Has
<1>23. y = [c EXCEPT !.finished = TRUE, !.out = q]
  BY <1>3, <1>4, <1>12 DEF Emit, AnthState
<1>24. y \in AnthState
  BY <1>4, <1>16, <1>23 DEF AnthState
<1>25. /\ y.out = q /\ y.finished /\ y.textOpen = c.textOpen /\ y.textIndex = c.textIndex
       /\ y.next = c.next /\ y.block = c.block
  BY <1>4, <1>23 DEF AnthState
<1>26. Placed(y)
  BY <1>1, <1>25, StreamingSent DEF Placed, WellSent
<1>27. y.out # <<>> /\ y.out[Len(y.out)] = <<"message_stop">>
  BY <1>16, <1>25
<1>28. QED
  BY <1>20, <1>21, <1>22, <1>24, <1>25, <1>26, <1>27 DEF Ended, WellSent, Blocks

-----------------------------------------------------------------------------
(* What holds even if a tool is sent arguments before its name: its block  *)
(* has no start yet, so blocks need not nest, but the message is framed.   *)
Going(x) ==
  /\ x \in AnthState /\ x.started /\ ~x.finished
  /\ Framing(x.out) /\ Placed(x) /\ \A i \in x.begun : x.block[i] # Absent

Over(x) ==
  /\ x \in AnthState /\ x.finished /\ Framing(x.out) /\ Placed(x)
  /\ x.out[Len(x.out)] = <<"message_stop">>

LEMMA StreamingGoes ==
  ASSUME NEW x, Streaming(x)
  PROVE  Going(x)
<1>1. Placed(x)
  BY StreamingSent DEF WellSent
<1>2. \A i \in x.begun : x.block[i] # Absent
  BY DEF Streaming, Separate, AnthState
<1>3. QED
  BY <1>1, <1>2 DEF Going, Streaming

LEMMA EndedOver ==
  ASSUME NEW x, Ended(x)
  PROVE  Over(x)
BY DEF Ended, WellSent, Over

LEMMA FramingOn ==
  ASSUME NEW o \in Seq(AnthEvent), Framing(o), NEW f \in Seq(AnthEvent),
         \A n \in DOMAIN f : f[n][1] # "message_start"
  PROVE  /\ o \o f \in Seq(AnthEvent) /\ Framing(o \o f)
         /\ f # <<>> => (o \o f)[Len(o \o f)] = f[Len(f)]
<1> DEFINE new == o \o f
<1>1. /\ new \in Seq(AnthEvent) /\ Continues(new, o) /\ Len(new) = Len(o) + Len(f)
      /\ \A n \in DOMAIN f : Len(o) + n \in DOMAIN new /\ new[Len(o) + n] = f[n]
      /\ \A n \in DOMAIN new \ DOMAIN o : n - Len(o) \in DOMAIN f /\ new[n] = f[n - Len(o)]
  BY ConcatContinues
<1>2. 1 \in DOMAIN o /\ Framing(o)
  BY DEF Framing
<1> HIDE DEF new
<1>3. 1 \in DOMAIN new /\ new[1] = o[1] /\ \A n \in DOMAIN o : new[n] = o[n]
  BY <1>1, <1>2 DEF Continues
<1>4. Framing(new)
  BY <1>1, <1>2, <1>3 DEF Framing
<1>5. f # <<>> => Len(f) \in DOMAIN f
  OBVIOUS
<1>6. QED
  BY <1>1, <1>4, <1>5 DEF new

LEMMA OneEventOn ==
  ASSUME NEW o \in Seq(AnthEvent), Framing(o), NEW e \in AnthEvent, e[1] # "message_start"
  PROVE  o \o <<e>> \in Seq(AnthEvent) /\ Framing(o \o <<e>>)
<1>1. <<e>> \in Seq(AnthEvent) /\ \A n \in DOMAIN <<e>> : <<e>>[n][1] # "message_start"
  OBVIOUS
<1>2. QED
  BY <1>1, FramingOn

LEMMA TextBlockGoes ==
  ASSUME NEW x, Going(x)
  PROVE  Going(TextBlock(x))
<1> DEFINE e == <<"block_start", x.next>>
           y == [x EXCEPT !.textOpen = TRUE, !.textIndex = x.next, !.next = x.next + 1,
                          !.out = x.out \o <<e>>]
<1>1. CASE x.textOpen
  BY <1>1 DEF TextBlock
<1>2. CASE ~x.textOpen
  <2>1. TextBlock(x) = y
    BY <1>2 DEF TextBlock, Emit, Going, AnthState
  <2>2. x \in AnthState /\ x.next \in Nat /\ x.out \in Seq(AnthEvent) /\ Framing(x.out)
    BY DEF Going, AnthState
  <2>3. e \in AnthEvent /\ e[1] # "message_start"
    BY <2>2, AnthEvents
  <2> HIDE DEF e
  <2>4. x.out \o <<e>> \in Seq(AnthEvent) /\ Framing(x.out \o <<e>>)
    BY <2>2, <2>3, OneEventOn
  <2>5. y \in AnthState
    <3>1. x.next + 1 \in Nat
      BY <2>2
    <3>2. QED
      BY <2>2, <2>4, <3>1 DEF AnthState
  <2>6. /\ y.out = x.out \o <<e>> /\ y.started = x.started /\ y.finished = x.finished
        /\ y.textIndex = x.next /\ y.next = x.next + 1 /\ y.block = x.block /\ y.begun = x.begun
    BY <2>2 DEF AnthState
  <2> HIDE DEF y
  <2>7. Placed(y)
    <3>1. x.block \in [ToolIndex -> (0..(x.next - 1)) \cup {Absent}]
      BY DEF Going, Placed
    <3>2. 0..(x.next - 1) \subseteq 0..(y.next - 1) /\ x.next \in 0..(y.next - 1)
      BY <2>2, <2>6
    <3>3. y.block \in [ToolIndex -> (0..(y.next - 1)) \cup {Absent}]
      BY <2>6, <3>1, <3>2
    <3>4. QED
      BY <2>6, <3>2, <3>3 DEF Placed
  <2>8. QED
    BY <2>1, <2>4, <2>5, <2>6, <2>7 DEF Going
<1>3. QED
  BY <1>1, <1>2

LEMMA DeltaGoes ==
  ASSUME NEW x, Going(x), NEW b \in Nat
  PROVE  Going(Emit(x, <<<<"block_delta", b>>>>))
<1> DEFINE e == <<"block_delta", b>>
           y == [x EXCEPT !.out = x.out \o <<e>>]
<1>1. x \in AnthState /\ x.out \in Seq(AnthEvent) /\ Framing(x.out)
  BY DEF Going, AnthState
<1>2. e \in AnthEvent /\ e[1] # "message_start"
  BY AnthEvents
<1>3. Emit(x, <<<<"block_delta", b>>>>) = y
  BY DEF Emit
<1> HIDE DEF e
<1>4. x.out \o <<e>> \in Seq(AnthEvent) /\ Framing(x.out \o <<e>>)
  BY <1>1, <1>2, OneEventOn
<1>5. /\ y \in AnthState /\ y.out = x.out \o <<e>> /\ y.started = x.started /\ y.finished = x.finished
      /\ y.textOpen = x.textOpen /\ y.textIndex = x.textIndex
      /\ y.next = x.next /\ y.block = x.block /\ y.begun = x.begun
  BY <1>1, <1>4 DEF AnthState
<1> HIDE DEF y
<1>6. QED
  BY <1>3, <1>4, <1>5 DEF Going, Placed

LEMMA TextClosedGoes ==
  ASSUME NEW x, Going(x)
  PROVE  Going(TextClosed(x))
<1> DEFINE e == <<"block_stop", x.textIndex>>
           y == [x EXCEPT !.textOpen = FALSE, !.out = x.out \o <<e>>]
<1>1. CASE ~x.textOpen
  BY <1>1 DEF TextClosed
<1>2. CASE x.textOpen
  <2>1. TextClosed(x) = y
    BY <1>2 DEF TextClosed, Emit, Going, AnthState
  <2>2. x \in AnthState /\ x.out \in Seq(AnthEvent) /\ x.textIndex \in Nat /\ Framing(x.out)
    BY DEF Going, AnthState
  <2>3. e \in AnthEvent /\ e[1] # "message_start"
    BY <2>2, AnthEvents
  <2> HIDE DEF e
  <2>4. x.out \o <<e>> \in Seq(AnthEvent) /\ Framing(x.out \o <<e>>)
    BY <2>2, <2>3, OneEventOn
  <2>5. /\ y \in AnthState /\ y.out = x.out \o <<e>> /\ y.started = x.started /\ y.finished = x.finished
        /\ ~y.textOpen /\ y.next = x.next /\ y.block = x.block /\ y.begun = x.begun
    BY <2>2, <2>4 DEF AnthState
  <2> HIDE DEF y
  <2>6. QED
    BY <2>1, <2>4, <2>5 DEF Going, Placed
<1>3. QED
  BY <1>1, <1>2

(* A piece of a tool: its block is placed, perhaps started, and perhaps    *)
(* sent arguments.                                                         *)
LEMMA ToolGoes ==
  ASSUME NEW x, Going(x), NEW piece \in Pieces
  PROVE  Going(WithTool(x, piece))
<1> DEFINE i == piece.index
           c == TextClosed(x)
           a == IF c.block[i] = Absent THEN [c EXCEPT !.block[i] = c.next, !.next = @ + 1] ELSE c
           b == IF piece.named /\ i \notin a.begun
                THEN Emit([a EXCEPT !.begun = @ \cup {i}], <<<<"block_start", a.block[i]>>>>)
                ELSE a
<1>1. i \in ToolIndex /\ piece.named \in BOOLEAN /\ piece.args \in BOOLEAN
  BY DEF Pieces
<1>2. WithTool(x, piece) = IF piece.args THEN Emit(b, <<<<"block_delta", b.block[i]>>>>) ELSE b
  BY DEF WithTool
<1>3. Going(c)
  BY TextClosedGoes
<1> HIDE DEF c
<1>4. /\ c \in AnthState /\ c.next \in Nat /\ c.out \in Seq(AnthEvent)
      /\ c.block \in [ToolIndex -> (0..(c.next - 1)) \cup {Absent}] /\ c.begun \in SUBSET ToolIndex
      /\ c.textOpen => c.textIndex \in 0..(c.next - 1)
  BY <1>3 DEF Going, AnthState, Placed
<1>5. Going(a) /\ a.block[i] # Absent
  <2>1. CASE c.block[i] # Absent
    BY <1>3, <2>1
  <2>2. CASE c.block[i] = Absent
    <3> DEFINE y == [c EXCEPT !.block = [c.block EXCEPT ![i] = c.next], !.next = c.next + 1]
    <3>1. a = y
      BY <1>4, <2>2 DEF AnthState
    <3> HIDE DEF a
    <3>2. /\ [c.block EXCEPT ![i] = c.next] \in [ToolIndex -> (0..c.next) \cup {Absent}]
          /\ [c.block EXCEPT ![i] = c.next] \in [ToolIndex -> Nat \cup {Absent}]
          /\ c.next + 1 \in Nat /\ (c.next + 1) - 1 = c.next /\ c.next # Absent
      <4>1. 0..(c.next - 1) \subseteq 0..c.next /\ 0..c.next \subseteq Nat /\ c.next \in 0..c.next
        BY <1>4
      <4>2. c.next # Absent
        BY <1>4 DEF Absent
      <4>3. QED
        BY <1>1, <1>4, <4>1, <4>2
    <3>3. /\ y \in AnthState /\ y.out = c.out /\ y.started = c.started /\ y.finished = c.finished
          /\ y.textOpen = c.textOpen /\ y.textIndex = c.textIndex /\ y.next = c.next + 1
          /\ y.block = [c.block EXCEPT ![i] = c.next] /\ y.begun = c.begun
      BY <1>4, <3>2 DEF AnthState
    <3> HIDE DEF y
    <3>4. Placed(y)
      <4>1. y.textOpen => y.textIndex \in 0..(y.next - 1)
        BY <1>4, <3>2, <3>3
      <4>2. QED
        BY <3>2, <3>3, <4>1 DEF Placed
    <3>5. y.block[i] # Absent /\ \A j \in y.begun : y.block[j] # Absent
      <4>1. \A j \in c.begun : j \in ToolIndex /\ c.block[j] # Absent
        BY <1>3, <1>4 DEF Going
      <4>2. QED
        BY <1>1, <1>4, <3>2, <3>3, <4>1
    <3>6. QED
      BY <1>3, <3>1, <3>3, <3>4, <3>5 DEF Going
  <2>3. QED
    BY <2>1, <2>2
<1> HIDE DEF a
<1>6. /\ a \in AnthState /\ a.out \in Seq(AnthEvent) /\ Framing(a.out)
      /\ a.begun \in SUBSET ToolIndex /\ a.block[i] \in Nat
  BY <1>1, <1>5 DEF Going, AnthState
<1>7. Going(b) /\ b.block[i] \in Nat
  <2>1. CASE piece.named /\ i \notin a.begun
    <3> DEFINE e == <<"block_start", a.block[i]>>
               y == [a EXCEPT !.begun = a.begun \cup {i}, !.out = a.out \o <<e>>]
    <3>1. b = y
      BY <1>6, <2>1 DEF Emit, AnthState
    <3> HIDE DEF b
    <3>2. e \in AnthEvent /\ e[1] # "message_start"
      BY <1>6, AnthEvents
    <3> HIDE DEF e
    <3>3. a.out \o <<e>> \in Seq(AnthEvent) /\ Framing(a.out \o <<e>>)
      BY <1>6, <3>2, OneEventOn
    <3>4. /\ y \in AnthState /\ y.out = a.out \o <<e>> /\ y.started = a.started /\ y.finished = a.finished
          /\ y.textOpen = a.textOpen /\ y.textIndex = a.textIndex /\ y.next = a.next
          /\ y.block = a.block /\ y.begun = a.begun \cup {i}
      BY <1>1, <1>6, <3>3 DEF AnthState
    <3> HIDE DEF y
    <3>5. QED
      BY <1>5, <1>6, <3>1, <3>3, <3>4 DEF Going, Placed
  <2>2. CASE ~(piece.named /\ i \notin a.begun)
    BY <1>5, <1>6, <2>2
  <2>3. QED
    BY <2>1, <2>2
<1> HIDE DEF b
<1>8. QED
  BY <1>2, <1>7, DeltaGoes

LEMMA ChunkGoes ==
  ASSUME NEW x, x = ToAnthropic \/ Going(x), NEW text \in BOOLEAN, NEW piece \in Pieces \cup {NoTool}
  PROVE  LET m == WithMessage(x)
             t == IF text THEN WithText(m) ELSE m
         IN Going(IF piece = NoTool THEN t ELSE WithTool(t, piece))
<1> DEFINE m == WithMessage(x)
           t == IF text THEN WithText(m) ELSE m
<1>1. Going(m)
  <2>1. CASE x = ToAnthropic
    <3>1. TRUE \in BOOLEAN /\ NoTool \in Pieces \cup {NoTool} /\ FALSE \in BOOLEAN
      OBVIOUS
    <3>2. Streaming(WithMessage(ToAnthropic))
      BY <3>1, ChunkStreams DEF Named
    <3>3. QED
      BY <2>1, <3>2, StreamingGoes
  <2>2. CASE Going(x)
    BY <2>2 DEF WithMessage, Going
  <2>3. QED
    BY <2>1, <2>2
<1> HIDE DEF m
<1>2. Going(t)
  <2>1. Going(TextBlock(m))
    BY <1>1, TextBlockGoes
  <2>2. TextBlock(m).textIndex \in Nat
    BY <2>1 DEF Going, AnthState
  <2>3. Going(WithText(m))
    BY <2>1, <2>2, DeltaGoes DEF WithText
  <2>4. QED
    BY <1>1, <2>3
<1> HIDE DEF t
<1>3. Going(IF piece = NoTool THEN t ELSE WithTool(t, piece))
  BY <1>2, ToolGoes
<1>4. QED
  BY <1>3 DEF t, m

LEMMA StoppedOver ==
  ASSUME NEW x, x = ToAnthropic \/ Going(x) \/ Over(x)
  PROVE  Over(Stopped(x))
<1>1. CASE x = ToAnthropic
  BY <1>1, NothingSent, StoppedEnds, EndedOver
<1>2. CASE Going(x) \/ Over(x)
  <2> DEFINE e == <<"message_stop">>
             y == [x EXCEPT !.finished = TRUE, !.out = x.out \o <<e>>]
  <2>1. x \in AnthState /\ x.out \in Seq(AnthEvent) /\ Framing(x.out) /\ Placed(x)
    BY <1>2 DEF Going, Over, AnthState
  <2>2. Stopped(x) = y
    BY <2>1 DEF Stopped, Emit, AnthState
  <2>3. e \in AnthEvent /\ e[1] # "message_start"
    BY AnthEvents
  <2> HIDE DEF e
  <2>4. /\ <<e>> \in Seq(AnthEvent) /\ <<e>> # <<>> /\ <<e>>[Len(<<e>>)] = e
        /\ \A n \in DOMAIN <<e>> : <<e>>[n][1] # "message_start"
    BY <2>3
  <2>5. /\ x.out \o <<e>> \in Seq(AnthEvent) /\ Framing(x.out \o <<e>>)
        /\ (x.out \o <<e>>)[Len(x.out \o <<e>>)] = e
    BY <2>1, <2>4, FramingOn
  <2>6. /\ y \in AnthState /\ y.out = x.out \o <<e>> /\ y.finished
        /\ y.textOpen = x.textOpen /\ y.textIndex = x.textIndex /\ y.next = x.next /\ y.block = x.block
    BY <2>1, <2>5 DEF AnthState
  <2> HIDE DEF y
  <2>7. QED
    BY <2>1, <2>2, <2>5, <2>6 DEF Over, Placed, e
<1>3. QED
  BY <1>1, <1>2

LEMMA FinishedOver ==
  ASSUME NEW x, Going(x), NEW y \in Finished(x)
  PROVE  Over(y)
<1> DEFINE c == TextClosed(x)
           S == {<<"block_stop", x.block[i]>> : i \in x.begun}
           end == <<<<"message_delta">>, <<"message_stop">>>>
<1>1. Going(c)
  BY TextClosedGoes
<1>2. PICK stops \in SetToSeqs(S) : y = Emit([c EXCEPT !.finished = TRUE], stops \o end)
  BY DEF Finished, Going
<1> HIDE DEF c
<1>3. /\ c \in AnthState /\ c.out \in Seq(AnthEvent) /\ Framing(c.out) /\ Placed(c)
  BY <1>1 DEF Going, AnthState
<1>4. /\ S \subseteq AnthEvent /\ (\A s \in S : s[1] = "block_stop") /\ IsFiniteSet(S)
  <2>1. x.next \in Nat /\ \A i \in x.begun : x.block[i] \in 0..(x.next - 1)
    BY DEF Going, AnthState, Placed
  <2>2. \A i \in x.begun : x.block[i] \in Nat
    BY <2>1
  <2>3. IsFiniteSet({"block_stop"} \X (0..(x.next - 1)))
    <3>1. IsFiniteSet(0..(x.next - 1))
      BY <2>1, FS_Interval
    <3>2. QED
      BY <3>1, FS_Singleton, FS_Product
  <2>4. S \subseteq {"block_stop"} \X (0..(x.next - 1))
    BY <2>1
  <2>5. \A s \in S : s \in AnthEvent /\ s[1] = "block_stop"
    BY <2>2, AnthEvents
  <2>6. QED
    BY <2>3, <2>4, <2>5, FS_Subset
<1> HIDE DEF S
<1>5. stops \in Seq(S)
  BY <1>2, <1>4, EveryOneOnce
<1>6. stops \in Seq(AnthEvent) /\ \A n \in DOMAIN stops : stops[n][1] = "block_stop"
  <2>1. \A n \in DOMAIN stops : stops[n] \in S
    BY <1>5
  <2>2. QED
    BY <1>4, <1>5, <2>1, SeqMonotonic
<1>7. /\ end \in Seq(AnthEvent) /\ Len(end) = 2 /\ DOMAIN end = 1..2
      /\ end[2] = <<"message_stop">> /\ end[1][1] = "message_delta" /\ end[2][1] = "message_stop"
  BY AnthEvents
<1> HIDE DEF end
<1> DEFINE f == stops \o end
<1>8. /\ f \in Seq(AnthEvent) /\ f # <<>> /\ f[Len(f)] = <<"message_stop">>
      /\ \A n \in DOMAIN f : f[n][1] # "message_start"
  <2>1. /\ f \in Seq(AnthEvent) /\ Continues(f, stops) /\ Len(f) = Len(stops) + Len(end)
        /\ \A n \in DOMAIN end : Len(stops) + n \in DOMAIN f /\ f[Len(stops) + n] = end[n]
        /\ \A n \in DOMAIN f \ DOMAIN stops : n - Len(stops) \in DOMAIN end /\ f[n] = end[n - Len(stops)]
    <3>1. stops \in Seq(AnthEvent) /\ end \in Seq(AnthEvent)
      BY <1>6, <1>7
    <3> HIDE <1>6, <1>7
    <3>2. QED
      BY <3>1, ConcatContinues
  <2> HIDE DEF f
  <2>2. Len(stops) + 2 \in DOMAIN f /\ f[Len(stops) + 2] = end[2] /\ Len(f) = Len(stops) + 2
    <3>1. 2 \in DOMAIN end
      BY <1>7
    <3>2. QED
      BY <1>7, <2>1, <3>1
  <2>3. \A n \in DOMAIN end : end[n][1] # "message_start"
    BY <1>7
  <2>4. \A n \in DOMAIN f : f[n][1] # "message_start"
    BY <1>6, <2>1, <2>3 DEF Continues
  <2>5. QED
    BY <1>7, <2>1, <2>2, <2>4
<1> HIDE DEF f
<1>9. c.out \o f \in Seq(AnthEvent) /\ Framing(c.out \o f) /\ (c.out \o f)[Len(c.out \o f)] = <<"message_stop">>
  BY <1>3, <1>8, FramingOn
<1> DEFINE z == [c EXCEPT !.finished = TRUE, !.out = c.out \o f]
<1>10. y = z
  BY <1>2, <1>3 DEF Emit, AnthState, f
<1>11. /\ z \in AnthState /\ z.out = c.out \o f /\ z.finished
       /\ z.textOpen = c.textOpen /\ z.textIndex = c.textIndex /\ z.next = c.next /\ z.block = c.block
  BY <1>3, <1>9 DEF AnthState
<1> HIDE DEF z
<1>12. QED
  BY <1>3, <1>9, <1>10, <1>11 DEF Over, Placed

(* What the client may rely on.                                            *)
LEMMA SentOnce ==
  ASSUME NEW o \in Seq(AnthEvent), NEW n \in DOMAIN o
  PROVE  /\ o[n][1] \in {"block_start", "block_delta", "block_stop"} => o[n] = <<o[n][1], o[n][2]>>
         /\ \A k \in {"message_start", "message_delta", "message_stop"} : o[n][1] = k <=> o[n] = <<k>>
         /\ \A b : \A k \in {"block_start", "block_delta", "block_stop"} :
              Has(o, n, k, b) <=> o[n] = <<k, b>>
<1>1. o[n] \in AnthEvent
  OBVIOUS
<1>2. QED
  BY <1>1 DEF AnthEvent, Has

LEMMA WellNested ==
  ASSUME WellSent(st)
  PROVE  BlocksNest
<1>1. sent = st.out /\ sent \in Seq(AnthEvent)
  BY DEF sent, WellSent, AnthState
<1>2. Counts(sent, "block_start", st.next) /\ Nested(sent) /\ Told(sent)
  BY <1>1 DEF WellSent
<1>3. \A kind : Events(kind) = Which(sent, kind)
  BY DEF Events, Which
<1>4. \A b : /\ \A m : m \in Sent(<<"block_start", b>>) <=> Has(sent, m, "block_start", b)
             /\ \A m : m \in Sent(<<"block_stop", b>>) <=> Has(sent, m, "block_stop", b)
  BY <1>1, SentOnce DEF Sent, Has
<1>5. Numbered("block_start")
  BY <1>2, <1>3 DEF Counts, Numbered
<1>6. ASSUME NEW n \in DOMAIN sent, sent[n][1] \in {"block_delta", "block_stop"}
      PROVE  /\ \E m \in Sent(<<"block_start", sent[n][2]>>) : m < n
             /\ \A m \in Sent(<<"block_stop", sent[n][2]>>) : m >= n
  BY <1>2, <1>4, <1>6 DEF Nested, Inside
<1>7. ASSUME NEW n \in Sent(<<"message_delta">>), NEW b \in 0..Len(sent),
             Sent(<<"block_start", b>>) # {}
      PROVE  \E m \in Sent(<<"block_stop", b>>) : m < n
  <2>1. n \in Which(sent, "message_delta")
    BY DEF Sent, Which
  <2>2. PICK m : Has(sent, m, "block_start", b)
    BY <1>4, <1>7
  <2>3. m \in Which(sent, "block_start") /\ sent[m][2] = b
    BY <2>2 DEF Has, Which
  <2>4. QED
    BY <1>2, <1>4, <2>1, <2>3 DEF Told
<1>8. QED
  BY <1>5, <1>6, <1>7 DEF BlocksNest

LEMMA WellFramed ==
  ASSUME st = ToAnthropic \/ Going(st) \/ Over(st), source.phase = "closed" => Over(st)
  PROVE  MessageFramed
<1>1. sent = st.out
  BY DEF sent
<1>2. CASE st = ToAnthropic
  BY <1>1, <1>2 DEF ToAnthropic, MessageFramed, Over
<1>3. CASE Going(st) \/ Over(st)
  <2>1. sent \in Seq(AnthEvent) /\ Framing(sent)
    BY <1>1, <1>3 DEF Going, Over, AnthState
  <2>2. 1 \in DOMAIN sent
    BY <2>1 DEF Framing
  <2>3. \A n \in DOMAIN sent : sent[n] # <<"message_stop">> => (sent[n] = <<"message_start">> <=> n = 1)
    <3> TAKE n \in DOMAIN sent
    <3>1. /\ sent[n][1] = "message_start" <=> sent[n] = <<"message_start">>
          /\ sent[1][1] = "message_start" <=> sent[1] = <<"message_start">>
          /\ sent[1][1] = "message_stop" <=> sent[1] = <<"message_stop">>
      BY <2>1, <2>2, SentOnce
    <3>2. sent[n][1] = "message_start" => n = 1
      BY <2>1 DEF Framing
    <3>3. sent[1][1] \in {"message_start", "message_stop"}
      BY <2>1 DEF Framing
    <3>4. QED
      BY <3>1, <3>2, <3>3
  <2>4. QED
    BY <1>1, <2>1, <2>3 DEF MessageFramed, Over, Framing
<1>4. QED
  BY <1>2, <1>3

-----------------------------------------------------------------------------
(* The translator for an OpenAI client.                                    *)
OpenaiEvent == {<<"role">>, <<"content">>, <<"finish">>, <<"done">>} \cup ({"tool", "args"} \X Nat)
OpenaiState ==
  [out : Seq(OpenaiEvent), tool : [Block -> Nat \cup {Absent}], next : Nat, finished : BOOLEAN]

Following(o) ==
  \A n \in DOMAIN o : o[n][1] = "args" =>
    \E m : Has(o, m, "tool", o[n][2]) /\ m < n /\ \A l \in (m + 1)..(n - 1) : o[l] = o[n]

(* The last thing sent is tool k, or pieces of its arguments.              *)
Trail(o, k) ==
  \E m : Has(o, m, "tool", k) /\ \A l \in (m + 1)..Len(o) : o[l] = <<"args", k>>

Relaying(x) ==
  /\ x \in OpenaiState
  /\ Counts(x.out, "tool", x.next) /\ Following(x.out)
  /\ \A b \in Block : x.tool[b] \in (0..(x.next - 1)) \cup {Absent}

LEMMA OpenaiEvents ==
  /\ \A k \in {"role", "content", "finish", "done"} : <<k>> \in OpenaiEvent
  /\ \A k \in {"tool", "args"}, n \in Nat : <<k, n>> \in OpenaiEvent
BY DEF OpenaiEvent

LEMMA FollowingOn ==
  ASSUME NEW o \in Seq(OpenaiEvent), NEW e \in OpenaiEvent, Following(o),
         e[1] = "args" => Trail(o, e[2])
  PROVE  /\ Following(Append(o, e))
         /\ e[1] = "tool" => Trail(Append(o, e), e[2])
         /\ e[1] = "args" => Trail(Append(o, e), e[2])
<1> DEFINE new == Append(o, e)
<1>1. Continues(new, o) /\ Len(new) = Len(o) + 1 /\ new[Len(new)] = e
  BY AppendContinues
<1> HIDE DEF new
<1>2. /\ Len(new) \in DOMAIN new /\ DOMAIN new = DOMAIN o \cup {Len(new)}
      /\ \A n \in DOMAIN o : new[n] = o[n] /\ n < Len(new) /\ n \in Int
      /\ \A m, kind, b : Has(new, m, kind, b) <=>
            Has(o, m, kind, b) \/ (m = Len(new) /\ new[m][1] = kind /\ new[m][2] = b)
      /\ \A m, kind, b : Has(o, m, kind, b) => m < Len(new)
  BY <1>1, OneMore
<1>3. Len(o) \in Nat /\ DOMAIN o = 1..Len(o)
  OBVIOUS
<1>4. e[1] = "args" => e = <<"args", e[2]>>
  BY DEF OpenaiEvent
<1>5. ASSUME e[1] = "args"
      PROVE  \E m : Has(new, m, "tool", e[2]) /\ m < Len(new) /\ \A l \in (m + 1)..Len(new) : new[l] = e
  <2>1. PICK m : Has(o, m, "tool", e[2]) /\ \A l \in (m + 1)..Len(o) : o[l] = <<"args", e[2]>>
    BY <1>5 DEF Trail
  <2>2. m \in DOMAIN o /\ m \in Int
    BY <1>2, <2>1 DEF Has
  <2>3. \A l \in (m + 1)..Len(new) : new[l] = e
    <3> TAKE l \in (m + 1)..Len(new)
    <3>1. l = Len(new) \/ (l \in (m + 1)..Len(o) /\ l \in DOMAIN o)
      BY <1>1, <1>3, <2>2
    <3>2. QED
      BY <1>1, <1>2, <1>4, <1>5, <2>1, <3>1
  <2>4. QED
    BY <1>2, <2>1, <2>3
<1>6. Following(new)
  <2> SUFFICES ASSUME NEW n \in DOMAIN new, new[n][1] = "args"
               PROVE  \E m : /\ Has(new, m, "tool", new[n][2]) /\ m < n
                             /\ \A l \in (m + 1)..(n - 1) : new[l] = new[n]
    BY DEF Following
  <2>1. CASE n = Len(new)
    <3>1. PICK m : Has(new, m, "tool", e[2]) /\ m < Len(new) /\ \A l \in (m + 1)..Len(new) : new[l] = e
      BY <1>1, <1>5, <2>1
    <3>2. \A l \in (m + 1)..(n - 1) : l \in (m + 1)..Len(new)
      BY <1>1, <1>3, <2>1
    <3>3. QED
      BY <1>1, <2>1, <3>1, <3>2
  <2>2. CASE n \in DOMAIN o
    <3>1. PICK m : Has(o, m, "tool", o[n][2]) /\ m < n /\ \A l \in (m + 1)..(n - 1) : o[l] = o[n]
      BY <1>2, <2>2 DEF Following
    <3>2. m \in DOMAIN o /\ \A l \in (m + 1)..(n - 1) : l \in DOMAIN o
      BY <1>3, <2>2, <3>1 DEF Has
    <3>3. QED
      BY <1>2, <2>2, <3>1, <3>2
  <2>3. QED
    BY <1>2, <2>1, <2>2
<1>7. e[1] = "args" => Trail(new, e[2])
  BY <1>4, <1>5 DEF Trail
<1>8. e[1] = "tool" => Trail(new, e[2])
  <2>1. \A l \in (Len(new) + 1)..Len(new) : FALSE
    BY <1>1, <1>3
  <2>2. e[1] = "tool" => Has(new, Len(new), "tool", e[2])
    BY <1>1, <1>2
  <2>3. QED
    BY <2>1, <2>2 DEF Trail
<1>9. QED
  BY <1>6, <1>7, <1>8 DEF new

(* An event that announces no tool.                                        *)
LEMMA RelaysOn ==
  ASSUME NEW x, Relaying(x), NEW e \in OpenaiEvent, e[1] # "tool",
         e[1] = "args" => Trail(x.out, e[2]), NEW done \in BOOLEAN
  PROVE  LET y == Emit([x EXCEPT !.finished = done], <<e>>) IN
         /\ Relaying(y) /\ y.tool = x.tool /\ (e[1] = "args" => Trail(y.out, e[2]))
<1> DEFINE y == [x EXCEPT !.finished = done, !.out = x.out \o <<e>>]
           new == Append(x.out, e)
<1>1. x \in OpenaiState /\ x.out \in Seq(OpenaiEvent)
  BY DEF Relaying, OpenaiState
<1>2. Emit([x EXCEPT !.finished = done], <<e>>) = y
  BY <1>1 DEF Emit, OpenaiState
<1>3. x.out \o <<e>> = new /\ new \in Seq(OpenaiEvent) /\ Continues(new, x.out)
      /\ Len(new) = Len(x.out) + 1 /\ new[Len(x.out) + 1] = e
  BY <1>1, EmitAppends, AppendContinues
<1>4. y \in OpenaiState /\ y.out = new /\ y.tool = x.tool /\ y.next = x.next
  BY <1>1, <1>3 DEF OpenaiState
<1>5. Following(new) /\ (e[1] = "args" => Trail(new, e[2]))
  BY <1>1, FollowingOn DEF Relaying
<1> HIDE DEF y, new
<1>6. Counts(new, "tool", x.next)
  <2>1. \A n \in DOMAIN new \ DOMAIN x.out : new[n][1] # "tool"
    BY <1>3 DEF Continues
  <2>2. QED
    BY <1>3, <2>1, CountsStay DEF Relaying
<1>7. Relaying(y)
  BY <1>4, <1>5, <1>6 DEF Relaying
<1>8. QED
  BY <1>2, <1>4, <1>5, <1>7

(* An event that is for no tool.                                           *)
LEMMA PlainRelayed ==
  ASSUME NEW x, Relaying(x), NEW k \in {"role", "content", "finish", "done"}
  PROVE  /\ Relaying(Emit(x, <<<<k>>>>))
         /\ Relaying(Emit([x EXCEPT !.finished = TRUE], <<<<k>>>>))
<1> DEFINE e == <<k>>
<1>1. e \in OpenaiEvent /\ e[1] # "tool" /\ e[1] # "args"
  BY OpenaiEvents
<1>2. x.finished \in BOOLEAN /\ [x EXCEPT !.finished = x.finished] = x
  BY DEF Relaying, OpenaiState
<1> HIDE DEF e
<1>3. \A done \in BOOLEAN : Relaying(Emit([x EXCEPT !.finished = done], <<e>>))
  <2> TAKE done \in BOOLEAN
  <2>1. e[1] = "args" => Trail(x.out, e[2])
    BY <1>1
  <2>2. QED
    BY <1>1, <2>1, RelaysOn, Zenon
<1>4. Relaying(Emit(x, <<e>>)) /\ Relaying(Emit([x EXCEPT !.finished = TRUE], <<e>>))
  BY <1>2, <1>3, Zenon
<1>5. QED
  BY <1>4 DEF e

(* A piece of the arguments of the tool that was sent last.                *)
LEMMA ArgumentsRelayed ==
  ASSUME NEW x, Relaying(x), NEW k \in Nat, Trail(x.out, k)
  PROVE  LET y == Emit(x, <<<<"args", k>>>>) IN
         Relaying(y) /\ y.tool = x.tool /\ Trail(y.out, k)
<1> DEFINE e == <<"args", k>>
<1>1. e \in OpenaiEvent /\ e[1] = "args" /\ e[2] = k
  BY OpenaiEvents
<1>2. x.finished \in BOOLEAN /\ [x EXCEPT !.finished = x.finished] = x
  BY DEF Relaying, OpenaiState
<1> HIDE DEF e
<1>3. \A done \in BOOLEAN :
        LET y == Emit([x EXCEPT !.finished = done], <<e>>) IN
        Relaying(y) /\ y.tool = x.tool /\ Trail(y.out, k)
  <2> TAKE done \in BOOLEAN
  <2>1. (e[1] = "args" => Trail(x.out, e[2])) /\ e[1] # "tool"
    BY <1>1
  <2>2. LET y == Emit([x EXCEPT !.finished = done], <<e>>) IN
        /\ Relaying(y) /\ y.tool = x.tool /\ (e[1] = "args" => Trail(y.out, e[2]))
    BY <1>1, <2>1, RelaysOn, Zenon
  <2>3. QED
    BY <1>1, <2>2
<1>4. LET y == Emit(x, <<e>>) IN Relaying(y) /\ y.tool = x.tool /\ Trail(y.out, k)
  BY <1>2, <1>3, Zenon
<1>5. QED
  BY <1>4 DEF e

LEMMA ToolRelayed ==
  ASSUME NEW x, Relaying(x), NEW b \in Block
  PROVE  LET y == ToolBegun(x, b) IN
         Relaying(y) /\ y.tool[b] # Absent /\ Trail(y.out, y.tool[b])
<1> DEFINE e == <<"tool", x.next>>
           y == [x EXCEPT !.tool = [x.tool EXCEPT ![b] = x.next], !.next = x.next + 1,
                          !.out = x.out \o <<e>>]
           new == Append(x.out, e)
<1>1. x \in OpenaiState /\ x.out \in Seq(OpenaiEvent) /\ x.next \in Nat
      /\ x.tool \in [Block -> Nat \cup {Absent}]
  BY DEF Relaying, OpenaiState
<1>2. ToolBegun(x, b) = y
  BY <1>1 DEF ToolBegun, Emit, OpenaiState
<1>3. e \in OpenaiEvent /\ e[1] = "tool" /\ e[2] = x.next
  BY <1>1, OpenaiEvents
<1> HIDE DEF e
<1>4. x.out \o <<e>> = new /\ new \in Seq(OpenaiEvent) /\ Continues(new, x.out)
      /\ Len(new) = Len(x.out) + 1 /\ new[Len(x.out) + 1] = e
  BY <1>1, <1>3, EmitAppends, AppendContinues
<1>5. [x.tool EXCEPT ![b] = x.next] \in [Block -> Nat \cup {Absent}] /\ x.next + 1 \in Nat
  BY <1>1
<1>6. y \in OpenaiState
  BY <1>1, <1>4, <1>5 DEF OpenaiState
<1>7. y.out = new /\ y.tool = [x.tool EXCEPT ![b] = x.next] /\ y.next = x.next + 1
  BY <1>1, <1>4 DEF OpenaiState
<1>8. Following(new) /\ Trail(new, x.next)
  BY <1>1, <1>3, FollowingOn DEF Relaying
<1> HIDE DEF y, new
<1>9. Counts(new, "tool", x.next + 1)
  <2>1. Counts(x.out, "tool", x.next) /\ new[Len(new)][1] = "tool" /\ new[Len(new)][2] = x.next
    BY <1>3, <1>4 DEF Relaying
  <2>2. QED
    BY <1>4, <2>1, CountsOn
<1>10. \A c \in Block : y.tool[c] \in (0..(y.next - 1)) \cup {Absent}
  <2> TAKE c \in Block
  <2>1. x.tool[c] \in (0..(x.next - 1)) \cup {Absent}
    BY DEF Relaying
  <2>2. y.tool[c] = x.tool[c] \/ y.tool[c] = x.next
    BY <1>1, <1>7
  <2>3. QED
    BY <1>1, <1>7, <2>1, <2>2
<1>11. y.tool[b] = x.next /\ x.next # Absent
  BY <1>1, <1>7 DEF Absent
<1>12. QED
  BY <1>2, <1>6, <1>7, <1>8, <1>9, <1>10, <1>11 DEF Relaying

LEMMA WellFollowed ==
  ASSUME Relaying(st)
  PROVE  ArgumentsFollowTheirTool
<1>1. sent = st.out /\ sent \in Seq(OpenaiEvent) /\ \A kind : Events(kind) = Which(sent, kind)
  BY DEF sent, Relaying, OpenaiState, Events, Which
<1>2. Counts(sent, "tool", st.next) /\ Following(sent)
  BY <1>1 DEF Relaying
<1>3. Numbered("tool")
  BY <1>1, <1>2 DEF Counts, Numbered
<1>4. \A m, k : Has(sent, m, "tool", k) => m \in Sent(<<"tool", k>>)
  <2> SUFFICES ASSUME NEW m, NEW k, Has(sent, m, "tool", k)
               PROVE  m \in Sent(<<"tool", k>>)
    OBVIOUS
  <2>1. m \in DOMAIN sent /\ sent[m] \in OpenaiEvent /\ sent[m][1] = "tool" /\ sent[m][2] = k
    BY <1>1 DEF Has
  <2>2. sent[m] = <<"tool", k>>
    BY <2>1 DEF OpenaiEvent
  <2>3. QED
    BY <2>1, <2>2 DEF Sent
<1>5. QED
  BY <1>2, <1>3, <1>4 DEF ArgumentsFollowTheirTool, Following

-----------------------------------------------------------------------------
(* The translator for a client of the Responses API.                       *)
ChatEvent ==
  {<<"created">>} \cup ({"delta"} \X Nat) \cup ({"completed"} \X Seq(Nat) \X Nat)
ChatState ==
  [out : Seq(ChatEvent), started : BOOLEAN, text : Seq(Nat), usage : Nat, finished : BOOLEAN]

Text(o) == LET at == Ascending(Which(o, "delta")) IN [n \in DOMAIN at |-> o[at[n]][2]]

Answering(x) ==
  /\ x \in ChatState /\ ~x.finished /\ x.text = Text(x.out)
  /\ x.started => x.out # <<>>
  /\ x.out # <<>> => x.out[1] = <<"created">>
  /\ \A n \in DOMAIN x.out : x.out[n][1] # "completed"

Answered(x) ==
  /\ x \in ChatState /\ x.out # <<>>
  /\ x.out[Len(x.out)] = <<"completed", Text(x.out), x.usage>>
  /\ \A n \in DOMAIN x.out : /\ x.out[n][1] = "completed" => n = Len(x.out)
                             /\ x.out[n][1] = "delta" => x.out[1] = <<"created">>

LEMMA ChatEvents ==
  /\ <<"created">> \in ChatEvent
  /\ \A n \in Nat : <<"delta", n>> \in ChatEvent
  /\ \A t \in Seq(Nat), n \in Nat : <<"completed", t, n>> \in ChatEvent
BY DEF ChatEvent

(* Another piece of text comes last; other events add none.                *)
LEMMA TextGrows ==
  ASSUME NEW o \in Seq(ChatEvent), NEW e \in ChatEvent
  PROVE  /\ e[1] = "delta" => Text(Append(o, e)) = Append(Text(o), e[2])
         /\ e[1] # "delta" => Text(Append(o, e)) = Text(o)
<1> DEFINE new == Append(o, e)
           S == Which(o, "delta")
           at == Ascending(S)
           last == Len(o) + 1
<1>1. /\ new \in Seq(ChatEvent) /\ Continues(new, o) /\ Len(new) = last /\ new[last] = e
  BY AppendContinues
<1>2. /\ Len(o) \in Nat /\ last \in Int /\ DOMAIN o = 1..Len(o) /\ DOMAIN new = DOMAIN o \cup {last}
      /\ \A n \in DOMAIN o : new[n] = o[n] /\ n < last /\ n \in Int
  BY <1>1 DEF Continues
<1>3. S \in SUBSET Int /\ S \subseteq 1..Len(o) /\ \A n \in S : n < last
  BY <1>2 DEF Which
<1>4. IsFiniteSet(S)
  <2>1. IsFiniteSet(1..Len(o))
    BY <1>2, FS_Interval
  <2>2. QED
    BY <1>3, <2>1, FS_Subset
<1>5. \A n \in S : o[n][2] \in Nat /\ new[n] = o[n]
  <2> TAKE n \in S
  <2>1. o[n] \in ChatEvent /\ o[n][1] = "delta"
    BY DEF Which
  <2>2. QED
    BY <1>2, <2>1 DEF ChatEvent, Which
<1> HIDE DEF new, last
<1>6. Ascending(S) \in Seq(S) /\ Ascending(S \cup {last}) = Append(Ascending(S), last)
  BY <1>2, <1>3, <1>4, AscendingGrows
<1>7. Which(new, "delta") = IF e[1] = "delta" THEN S \cup {last} ELSE S
  <2>1. \A n \in DOMAIN o : n # last /\ new[n] = o[n]
    BY <1>2
  <2>2. QED
    BY <1>1, <1>2, <2>1 DEF Which
<1> HIDE DEF S, at
<1>8. at \in Seq(S) /\ Ascending(S \cup {last}) = Append(at, last)
  BY <1>6 DEF at
<1>9. /\ Len(at) \in Nat /\ DOMAIN at = 1..Len(at) /\ \A n \in DOMAIN at : at[n] \in S
  BY <1>8
<1>10. Text(o) = [n \in DOMAIN at |-> o[at[n]][2]]
  BY DEF Text, S, at
<1>11. ASSUME e[1] # "delta"
       PROVE  Text(new) = Text(o)
  <2>1. Text(new) = [n \in DOMAIN at |-> new[at[n]][2]]
    BY <1>7, <1>11 DEF Text, at
  <2>2. QED
    BY <1>5, <1>9, <1>10, <2>1
<1>12. ASSUME e[1] = "delta"
       PROVE  Text(new) = Append(Text(o), e[2])
  <2> DEFINE N == Len(at)
             to == Append(at, last)
  <2>1. Text(new) = [n \in DOMAIN to |-> new[to[n]][2]]
    BY <1>7, <1>8, <1>12 DEF Text
  <2>2. to \in Seq(S \cup {last})
    <3>1. at \in Seq(S \cup {last})
      BY <1>8, SeqMonotonic
    <3>2. QED
      BY <3>1
  <2>3. DOMAIN to = 1..(N + 1) /\ (\A n \in 1..N : to[n] = at[n]) /\ to[N + 1] = last
    BY <1>8
  <2>4. e[2] \in Nat
    BY <1>12 DEF ChatEvent
  <2>5. N \in Nat /\ Text(o) = [n \in 1..N |-> o[at[n]][2]] /\ \A n \in 1..N : at[n] \in S
    BY <1>9, <1>10
  <2>6. Text(o) \in Seq(Nat) /\ Len(Text(o)) = N
    BY <1>5, <2>5
  <2>7. Append(Text(o), e[2]) = [n \in 1..(N + 1) |-> IF n = N + 1 THEN e[2] ELSE Text(o)[n]]
    BY <2>4, <2>5, <2>6
  <2> HIDE DEF to, N
  <2>8. \A n \in 1..(N + 1) : new[to[n]][2] = IF n = N + 1 THEN e[2] ELSE Text(o)[n]
    <3> TAKE n \in 1..(N + 1)
    <3>1. CASE n = N + 1
      BY <1>1, <2>3, <3>1
    <3>2. CASE n # N + 1
      <4>1. n \in 1..N
        BY <2>5, <3>2
      <4>2. QED
        BY <1>5, <2>3, <2>5, <3>2, <4>1
    <3>3. QED
      BY <3>1, <3>2
  <2>9. QED
    BY <2>1, <2>3, <2>7, <2>8
<1>13. QED
  BY <1>11, <1>12 DEF new

LEMMA AnswerGoesOn ==
  ASSUME NEW x, Answering(x), NEW y \in ChatState, NEW e \in ChatEvent,
         y.out = Append(x.out, e), e[1] \in {"created", "delta"},
         x.out = <<>> => e = <<"created">>, ~y.finished,
         y.text = IF e[1] = "delta" THEN Append(x.text, e[2]) ELSE x.text
  PROVE  Answering(y)
<1>1. x.out \in Seq(ChatEvent) /\ y.out \in Seq(ChatEvent)
  BY DEF Answering, ChatState
<1>2. y.text = Text(y.out)
  BY <1>1, TextGrows DEF Answering
<1>3. /\ Len(x.out) \in Nat /\ DOMAIN x.out = 1..Len(x.out) /\ DOMAIN y.out = 1..(Len(x.out) + 1)
      /\ \A n \in DOMAIN x.out : y.out[n] = x.out[n]
      /\ y.out[Len(x.out) + 1] = e /\ y.out # <<>>
  BY <1>1
<1>4. \A n \in DOMAIN y.out : n \in DOMAIN x.out \/ n = Len(x.out) + 1
  BY <1>3
<1>5. \A n \in DOMAIN y.out : y.out[n][1] # "completed"
  BY <1>3, <1>4 DEF Answering
<1>6. y.out[1] = <<"created">>
  <2>1. CASE x.out = <<>>
    BY <1>1, <1>3, <2>1
  <2>2. CASE x.out # <<>>
    <3>1. 1 \in DOMAIN x.out
      BY <1>1, <2>2
    <3>2. QED
      BY <1>3, <2>2, <3>1 DEF Answering
  <2>3. QED
    BY <2>1, <2>2
<1>7. QED
  BY <1>2, <1>3, <1>5, <1>6 DEF Answering

LEMMA CreatedAnswers ==
  ASSUME NEW x, Answering(x)
  PROVE  Answering(Created(x)) /\ Created(x).out # <<>> /\ Created(x).usage = x.usage
<1> DEFINE e == <<"created">>
           y == [x EXCEPT !.started = TRUE, !.out = x.out \o <<e>>]
<1>1. CASE x.started
  BY <1>1 DEF Created, Answering
<1>2. CASE ~x.started
  <2>1. x \in ChatState /\ x.out \in Seq(ChatEvent) /\ e \in ChatEvent /\ e[1] = "created"
    BY ChatEvents DEF Answering, ChatState
  <2>2. Created(x) = y
    BY <1>2, <2>1 DEF Created, Emit, ChatState
  <2> HIDE DEF e
  <2>3. /\ x.out \o <<e>> = Append(x.out, e) /\ Append(x.out, e) \in Seq(ChatEvent)
        /\ Continues(Append(x.out, e), x.out) /\ Len(Append(x.out, e)) = Len(x.out) + 1
        /\ Append(x.out, e)[Len(x.out) + 1] = e
    BY <2>1, EmitAppends, AppendContinues
  <2>4. /\ y \in ChatState /\ y.out = Append(x.out, e) /\ y.finished = x.finished
        /\ y.text = x.text /\ y.usage = x.usage
    BY <2>1, <2>3 DEF ChatState
  <2> HIDE DEF y
  <2>5. Answering(y)
    <3>1. ~y.finished /\ e = <<"created">>
      BY <2>4 DEF Answering, e
    <3>2. /\ e \in ChatEvent /\ e[1] \in {"created", "delta"} /\ (x.out = <<>> => e = <<"created">>)
          /\ y \in ChatState /\ y.out = Append(x.out, e) /\ ~y.finished
          /\ y.text = IF e[1] = "delta" THEN Append(x.text, e[2]) ELSE x.text
      BY <2>1, <2>4, <3>1
    <3>3. QED
      BY <3>2, AnswerGoesOn
  <2>6. Append(x.out, e) # <<>>
    <3> DEFINE o == x.out
    <3>1. o \in Seq(ChatEvent)
      BY <2>1
    <3> HIDE DEF o
    <3>2. Append(o, e) # <<>>
      BY <2>1, <3>1, AppendProperties
    <3>3. QED
      BY <3>2 DEF o
  <2>7. QED
    BY <2>2, <2>4, <2>5, <2>6
<1>3. QED
  BY <1>1, <1>2

LEMMA DeltaAnswers ==
  ASSUME NEW x, Answering(x), x.out # <<>>, NEW piece \in Nat
  PROVE  Answering(WithDelta(x, piece)) /\ WithDelta(x, piece).usage = x.usage
<1> DEFINE e == <<"delta", piece>>
           y == [x EXCEPT !.text = Append(x.text, piece), !.out = x.out \o <<e>>]
<1>1. /\ x \in ChatState /\ x.out \in Seq(ChatEvent) /\ x.text \in Seq(Nat)
      /\ e \in ChatEvent /\ e[1] = "delta" /\ e[2] = piece
  BY ChatEvents DEF Answering, ChatState
<1>2. WithDelta(x, piece) = y
  BY <1>1 DEF WithDelta, Emit, ChatState
<1> HIDE DEF e
<1>3. /\ x.out \o <<e>> = Append(x.out, e) /\ Append(x.out, e) \in Seq(ChatEvent)
      /\ Continues(Append(x.out, e), x.out) /\ Len(Append(x.out, e)) = Len(x.out) + 1
      /\ Append(x.out, e)[Len(x.out) + 1] = e
  BY <1>1, EmitAppends, AppendContinues
<1>4. Append(x.text, piece) \in Seq(Nat)
  BY <1>1
<1>5. /\ y \in ChatState /\ y.out = Append(x.out, e) /\ y.finished = x.finished
      /\ y.text = Append(x.text, piece) /\ y.usage = x.usage
  BY <1>1, <1>3, <1>4 DEF ChatState
<1> HIDE DEF y
<1>6. ~y.finished
  BY <1>5 DEF Answering
<1>7. QED
  BY <1>1, <1>2, <1>5, <1>6, AnswerGoesOn

LEMMA UsageAnswers ==
  ASSUME NEW x, Answering(x), NEW n \in Nat
  PROVE  /\ Answering(UsageTaken(x, n))
         /\ UsageTaken(x, n).usage = IF n > 0 THEN n ELSE x.usage
<1>1. x \in ChatState
  BY DEF Answering
<1> DEFINE y == [x EXCEPT !.usage = n]
<1>2. /\ y \in ChatState /\ y.out = x.out /\ y.text = x.text /\ y.started = x.started
      /\ y.finished = x.finished /\ y.usage = n
  BY <1>1 DEF ChatState
<1> HIDE DEF y
<1>3. Answering(y)
  BY <1>2 DEF Answering
<1>4. UsageTaken(x, n) = IF n > 0 THEN y ELSE x
  BY DEF UsageTaken, y
<1>5. QED
  BY <1>2, <1>3, <1>4

LEMMA CompletedAnswers ==
  ASSUME NEW x, Answering(x)
  PROVE  Answered(Completed(x)) /\ Completed(x).usage = x.usage
<1> DEFINE e == <<"completed", x.text, x.usage>>
           y == [x EXCEPT !.finished = TRUE, !.out = x.out \o <<e>>]
           new == Append(x.out, e)
<1>1. /\ x \in ChatState /\ x.out \in Seq(ChatEvent) /\ x.text \in Seq(Nat) /\ x.usage \in Nat
      /\ ~x.finished /\ x.text = Text(x.out)
  BY DEF Answering, ChatState
<1>2. e \in ChatEvent /\ e[1] = "completed"
  BY <1>1, ChatEvents
<1>3. Completed(x) = y
  BY <1>1 DEF Completed, Emit, ChatState
<1>4. e = <<"completed", Text(x.out), x.usage>>
  BY <1>1
<1> HIDE DEF e
<1>5. /\ x.out \o <<e>> = new /\ new \in Seq(ChatEvent)
      /\ Continues(new, x.out) /\ Len(new) = Len(x.out) + 1 /\ new[Len(x.out) + 1] = e
  BY <1>1, <1>2, EmitAppends, AppendContinues
<1>6. y \in ChatState /\ y.out = new /\ y.usage = x.usage
  BY <1>1, <1>5 DEF ChatState
<1>7. Text(new) = Text(x.out)
  BY <1>1, <1>2, TextGrows
<1> HIDE DEF y, new
<1>8. /\ Len(x.out) \in Nat /\ DOMAIN x.out = 1..Len(x.out) /\ DOMAIN new = 1..(Len(x.out) + 1)
      /\ \A n \in DOMAIN x.out : n \in DOMAIN new /\ new[n] = x.out[n]
      /\ \A n \in DOMAIN new : n \in DOMAIN x.out \/ n = Len(new)
  BY <1>5 DEF Continues
<1>9. new # <<>> /\ new[Len(new)] = e
  BY <1>5
<1>10. \A n \in DOMAIN new : new[n][1] = "completed" => n = Len(new)
  BY <1>8 DEF Answering
<1>11. ASSUME NEW n \in DOMAIN new, new[n][1] = "delta"
       PROVE  new[1] = <<"created">>
  <2>1. n \in DOMAIN x.out
    BY <1>2, <1>8, <1>9, <1>11
  <2>2. x.out # <<>> /\ 1 \in DOMAIN x.out
    BY <1>1, <2>1
  <2>3. QED
    BY <1>8, <2>2 DEF Answering
<1>12. QED
  BY <1>3, <1>4, <1>6, <1>7, <1>9, <1>10, <1>11 DEF Answered

-----------------------------------------------------------------------------
(* The inductive invariant of a streamed answer.                           *)
StreamPhase == {"open", "blocks", "block", "finished", "done", "closed"}

SourceType ==
  [phase : StreamPhase, at : Block \cup {Absent}, kind : {"text", "tool", "ended", "broken"},
   named : BOOLEAN]

(* In the block of a tool, that tool is the last thing sent.               *)
InTool ==
  source.phase = "block" /\ source.kind = "tool" =>
    source.at \in Block /\ st.tool[source.at] # Absent /\ Trail(st.out, st.tool[source.at])

(* What was sent to an Anthropic client, and what more there is to say if  *)
(* each tool was named first.                                              *)
SentFramed == IF source.phase = "open" THEN st = ToAnthropic \/ Going(st) ELSE Over(st)
SentNested == IF source.phase = "open" THEN st = ToAnthropic \/ Streaming(st) ELSE Ended(st)

StreamInv ==
  /\ lines \in 0..MaxLines /\ usage \in Nat
  /\ source \in SourceType
  /\ \/ /\ protocol = "openai"
        /\ SentFramed /\ (source.named => SentNested)
     \/ /\ protocol = "anthropic"
        /\ Relaying(st) /\ InTool /\ source.kind \in {"text", "tool"}
     \/ /\ protocol = "chat"
        /\ st.usage = usage
        /\ IF source.phase = "closed"
           THEN (Answering(st) /\ source.kind # "ended") \/ Answered(st)
           ELSE Answering(st) /\ source.kind # "ended"

LEMMA StreamStarts == StreamInit => StreamInv
<1> SUFFICES ASSUME StreamInit PROVE StreamInv
  OBVIOUS
<1>1. /\ lines \in 0..MaxLines /\ usage \in Nat
      /\ source \in SourceType
      /\ source.phase = "open" /\ source.kind = "text"
  BY StreamAssumption DEF StreamInit, StreamPhase, SourceType
<1>2. CASE protocol = "openai" /\ st = ToAnthropic
  BY <1>1, <1>2 DEF StreamInv, SentFramed, SentNested
<1>3. CASE protocol = "anthropic" /\ st = ToOpenai
  <2>1. ToOpenai \in OpenaiState
    <3>1. <<>> \in Seq(OpenaiEvent) /\ [b \in Block |-> Absent] \in [Block -> Nat \cup {Absent}]
      OBVIOUS
    <3>2. QED
      BY <3>1 DEF OpenaiState, ToOpenai
  <2>2. /\ ToOpenai.out = <<>> /\ ToOpenai.next = 0 /\ \A b \in Block : ToOpenai.tool[b] = Absent
    BY DEF ToOpenai
  <2>3. Relaying(ToOpenai)
    BY <2>1, <2>2, NothingCounted DEF Relaying, Following
  <2>4. QED
    BY <1>1, <1>3, <2>3 DEF StreamInv, InTool
<1>4. CASE protocol = "chat" /\ st = ToResponses
  <2>1. ToResponses \in ChatState
    BY DEF ToResponses, ChatState
  <2>2. Text(<<>>) = <<>>
    <3>1. Which(<<>>, "delta") = {}
      BY DEF Which
    <3>2. Ascending({}) \in [1..Cardinality({}) -> {}] /\ Cardinality({}) = 0
      BY FS_EmptySet, AscendingElements
    <3>3. DOMAIN Ascending({}) = {}
      BY <3>2
    <3>4. QED
      BY <3>1, <3>3 DEF Text
  <2>3. Answering(ToResponses) /\ ToResponses.usage = 0
    BY <2>1, <2>2 DEF Answering, ToResponses
  <2>4. usage = 0
    BY DEF StreamInit
  <2>5. QED
    BY <1>1, <1>4, <2>3, <2>4 DEF StreamInv
<1>5. QED
  BY <1>2, <1>3, <1>4 DEF StreamInit

(* What a step leaves as it was, or keeps typed.                           *)
LEMMA SourceOn ==
  ASSUME NEW s, NEW p \in StreamPhase,
         s \in SourceType
  PROVE  LET t == [s EXCEPT !.phase = p] IN
         /\ t \in SourceType
         /\ t.phase = p /\ t.at = s.at /\ t.kind = s.kind /\ t.named = s.named
BY DEF SourceType

LEMMA LinesOn ==
  ASSUME lines \in 0..MaxLines, lines < MaxLines, lines' = lines + 1
  PROVE  lines' \in 0..MaxLines
BY StreamAssumption

LEMMA OpenaiSteps ==
  ASSUME StreamInv
  PROVE  /\ \A text \in BOOLEAN, piece \in Pieces \cup {NoTool} : OpenaiChunk(text, piece) => StreamInv'
         /\ OpenaiDone => StreamInv'
<1>1. lines \in 0..MaxLines /\ usage \in Nat /\ source \in SourceType
  BY DEF StreamInv
<1>2. ASSUME NEW text \in BOOLEAN, NEW piece \in Pieces \cup {NoTool}, OpenaiChunk(text, piece)
      PROVE  StreamInv'
  <2>1. /\ protocol = "openai" /\ protocol' = protocol /\ usage' = usage /\ lines < MaxLines
        /\ lines' = lines + 1 /\ source.phase = "open"
    BY <1>2 DEF OpenaiChunk, Readable, Read
  <2>2. lines' \in 0..MaxLines
    BY <1>1, <2>1, LinesOn
  <2>3. /\ st = ToAnthropic \/ Going(st)
        /\ source.named => st = ToAnthropic \/ Streaming(st)
    BY <2>1 DEF StreamInv, SentFramed, SentNested
  <2>4. Going(Chunk(text, piece))
    BY <2>3, ChunkGoes DEF Chunk
  <2>5. source.named /\ Named(piece) => Streaming(Chunk(text, piece))
    BY <2>3, ChunkStreams DEF Chunk, Named
  <2>6. CASE /\ st' = Chunk(text, piece)
             /\ source' = [source EXCEPT !.named = source.named /\ Named(piece)]
    <3>1. /\ source' \in SourceType /\ source'.phase = "open"
          /\ source'.named <=> source.named /\ Named(piece)
      BY <1>1, <2>1, <2>6 DEF SourceType, Named, NoTool, Pieces
    <3>2. SentFramed' /\ (source'.named => SentNested')
      BY <2>4, <2>5, <2>6, <3>1 DEF SentFramed, SentNested
    <3>3. QED
      BY <1>1, <2>1, <2>2, <3>1, <3>2 DEF StreamInv
  <2>7. CASE /\ st' \in Finished(Chunk(text, piece))
             /\ source' = [source EXCEPT !.named = source.named /\ Named(piece), !.phase = "finished"]
    <3>1. /\ source' \in SourceType /\ source'.phase = "finished"
          /\ source'.named <=> source.named /\ Named(piece)
      BY <1>1, <2>1, <2>7 DEF SourceType, StreamPhase, Named, NoTool, Pieces
    <3>2. Over(st') /\ (source'.named => Ended(st'))
      BY <2>4, <2>5, <2>7, <3>1, FinishedEnds, FinishedOver
    <3>3. SentFramed' /\ (source'.named => SentNested')
      BY <3>1, <3>2 DEF SentFramed, SentNested
    <3>4. QED
      BY <1>1, <2>1, <2>2, <3>1, <3>3 DEF StreamInv
  <2>8. QED
    BY <1>2, <2>6, <2>7 DEF OpenaiChunk
<1>3. ASSUME OpenaiDone
      PROVE  StreamInv'
  <2>1. /\ protocol = "openai" /\ protocol' = protocol /\ usage' = usage /\ lines < MaxLines
        /\ lines' = lines + 1 /\ st' = Stopped(st) /\ source' = [source EXCEPT !.phase = "done"]
    BY <1>3 DEF OpenaiDone, Readable, Read
  <2>2. lines' \in 0..MaxLines
    BY <1>1, <2>1, LinesOn
  <2>3. /\ st = ToAnthropic \/ Going(st) \/ Over(st)
        /\ source.named => WellSent(st)
    BY <2>1, NothingSent, StreamingSent DEF StreamInv, SentFramed, SentNested, Ended
  <2>4. Over(st') /\ (source.named => Ended(st'))
    BY <2>1, <2>3, StoppedEnds, StoppedOver
  <2>5. source' \in SourceType /\ source'.phase = "done" /\ source'.named = source.named
    BY <1>1, <2>1, SourceOn DEF StreamPhase
  <2>6. SentFramed' /\ (source'.named => SentNested')
    BY <2>4, <2>5 DEF SentFramed, SentNested
  <2>7. QED
    BY <1>1, <2>1, <2>2, <2>5, <2>6 DEF StreamInv
<1>4. QED
  BY <1>2, <1>3

LEMMA AnthropicSteps ==
  ASSUME StreamInv
  PROVE  /\ AnthropicMessage => StreamInv'
         /\ \A b \in Block, kind \in {"text", "tool"} : AnthropicBlock(b, kind) => StreamInv'
         /\ AnthropicDelta => StreamInv'
         /\ AnthropicBlockStop => StreamInv'
         /\ AnthropicFinish => StreamInv'
         /\ AnthropicStop => StreamInv'
<1>1. lines \in 0..MaxLines /\ usage \in Nat /\ source \in SourceType
  BY DEF StreamInv
<1>2. ASSUME protocol = "anthropic"
      PROVE  Relaying(st) /\ InTool /\ source.kind \in {"text", "tool"} /\ st.finished \in BOOLEAN
  BY <1>2 DEF StreamInv, Relaying, OpenaiState
(* A line that announces no tool sends nothing, or one event.              *)
<1>3. ASSUME protocol = "anthropic", protocol' = protocol, usage' = usage,
             lines < MaxLines, lines' = lines + 1, source' \in SourceType, source'.kind = source.kind,
             source'.phase # "block", Relaying(st')
      PROVE  StreamInv'
  <2>1. lines' \in 0..MaxLines
    BY <1>1, <1>3, LinesOn
  <2>2. InTool'
    BY <1>3 DEF InTool
  <2>3. QED
    BY <1>1, <1>2, <1>3, <2>1, <2>2 DEF StreamInv
<1>4. ASSUME protocol = "anthropic", NEW k \in {"role", "finish"}
      PROVE  Relaying(Emit(st, <<<<k>>>>))
  BY <1>2, <1>4, PlainRelayed
<1>5. ASSUME AnthropicMessage PROVE StreamInv'
  <2>1. /\ protocol = "anthropic" /\ protocol' = protocol /\ usage' = usage /\ lines < MaxLines
        /\ lines' = lines + 1 /\ st' = Emit(st, <<<<"role">>>>)
        /\ source' = [source EXCEPT !.phase = "blocks"]
    BY <1>5 DEF AnthropicMessage, Readable, Read
  <2>2. source' \in SourceType /\ source'.phase = "blocks" /\ source'.kind = source.kind
    BY <1>1, <2>1, SourceOn DEF StreamPhase
  <2>3. QED
    BY <1>3, <1>4, <2>1, <2>2
<1>6. ASSUME NEW b \in Block, NEW kind \in {"text", "tool"}, AnthropicBlock(b, kind)
      PROVE  StreamInv'
  <2>1. /\ protocol = "anthropic" /\ protocol' = protocol /\ usage' = usage /\ lines < MaxLines
        /\ lines' = lines + 1 /\ st' = IF kind = "tool" THEN ToolBegun(st, b) ELSE st
        /\ source' = [source EXCEPT !.phase = "block", !.at = b, !.kind = kind]
    BY <1>6 DEF AnthropicBlock, Readable, Read
  <2>2. lines' \in 0..MaxLines
    BY <1>1, <2>1, LinesOn
  <2>3. source' \in SourceType /\ source'.at = b /\ source'.kind = kind
    BY <1>1, <2>1 DEF StreamPhase, SourceType
  <2>4. Relaying(st') /\ (kind = "tool" => st'.tool[b] # Absent /\ Trail(st'.out, st'.tool[b]))
    BY <1>2, <2>1, ToolRelayed
  <2>5. InTool'
    BY <2>3, <2>4 DEF InTool
  <2>6. QED
    BY <1>1, <2>1, <2>2, <2>3, <2>4, <2>5 DEF StreamInv
<1>7. ASSUME AnthropicDelta PROVE StreamInv'
  <2> DEFINE a == st.tool[source.at]
  <2>1. /\ protocol = "anthropic" /\ protocol' = protocol /\ usage' = usage /\ lines < MaxLines
        /\ lines' = lines + 1 /\ source' = source /\ source.phase = "block"
        /\ st' = Emit(st, IF source.kind = "text" THEN <<<<"content">>>>
                          ELSE IF a = Absent THEN <<>> ELSE <<<<"args", a>>>>)
    BY <1>7 DEF AnthropicDelta, Readable, Read
  <2>2. lines' \in 0..MaxLines
    BY <1>1, <2>1, LinesOn
  <2>4. Relaying(st') /\ InTool'
    <3>1. CASE source.kind = "text"
      <4>1. Relaying(st')
        BY <1>2, <2>1, <3>1, PlainRelayed
      <4>2. QED
        BY <2>1, <3>1, <4>1 DEF InTool
    <3>2. CASE source.kind = "tool"
      <4>1. source.at \in Block /\ a # Absent /\ Trail(st.out, a)
        BY <1>2, <2>1, <3>2 DEF InTool
      <4>2. a \in Nat
        BY <1>2, <2>1, <4>1 DEF Relaying, OpenaiState
      <4>3. st' = Emit(st, <<<<"args", a>>>>)
        BY <2>1, <3>2, <4>1
      <4>4. Relaying(st') /\ st'.tool = st.tool /\ Trail(st'.out, a)
        BY <1>2, <2>1, <4>1, <4>2, <4>3, ArgumentsRelayed
      <4>5. QED
        BY <2>1, <4>1, <4>4 DEF InTool
    <3>3. QED
      BY <1>2, <2>1, <3>1, <3>2
  <2>5. QED
    BY <1>1, <1>2, <2>1, <2>2, <2>4 DEF StreamInv
<1>8. ASSUME AnthropicBlockStop PROVE StreamInv'
  <2>1. /\ protocol = "anthropic" /\ protocol' = protocol /\ usage' = usage /\ lines < MaxLines
        /\ lines' = lines + 1 /\ st' = st /\ source' = [source EXCEPT !.phase = "blocks"]
    BY <1>8 DEF AnthropicBlockStop, Readable, Read
  <2>2. source' \in SourceType /\ source'.phase = "blocks" /\ source'.kind = source.kind
    BY <1>1, <2>1, SourceOn DEF StreamPhase
  <2>3. QED
    BY <1>2, <1>3, <2>1, <2>2
<1>9. ASSUME AnthropicFinish PROVE StreamInv'
  <2>1. /\ protocol = "anthropic" /\ protocol' = protocol /\ usage' = usage /\ lines < MaxLines
        /\ lines' = lines + 1 /\ st' = Emit(st, <<<<"finish">>>>)
        /\ source' = [source EXCEPT !.phase = "finished"]
    BY <1>9 DEF AnthropicFinish, Readable, Read
  <2>2. source' \in SourceType /\ source'.phase = "finished" /\ source'.kind = source.kind
    BY <1>1, <2>1, SourceOn DEF StreamPhase
  <2>3. QED
    BY <1>3, <1>4, <2>1, <2>2
<1>10. ASSUME AnthropicStop PROVE StreamInv'
  <2>1. /\ protocol = "anthropic" /\ protocol' = protocol /\ usage' = usage /\ lines < MaxLines
        /\ lines' = lines + 1 /\ st' = Emit([st EXCEPT !.finished = TRUE], <<<<"done">>>>)
        /\ source' = [source EXCEPT !.phase = "done"]
    BY <1>10 DEF AnthropicStop, Readable, Read
  <2>2. source' \in SourceType /\ source'.phase = "done" /\ source'.kind = source.kind
    BY <1>1, <2>1, SourceOn DEF StreamPhase
  <2>3. Relaying(st')
    BY <1>2, <2>1, PlainRelayed
  <2>4. QED
    BY <1>3, <2>1, <2>2, <2>3
<1>11. QED
  BY <1>5, <1>6, <1>7, <1>8, <1>9, <1>10

LEMMA ChatSteps ==
  ASSUME StreamInv
  PROVE  /\ \A text \in BOOLEAN, n \in {Absent, 0, lines + 1} : ChatChunk(text, n) => StreamInv'
         /\ ChatDone => StreamInv'
         /\ \A n \in {Absent, 0, lines + 1} : ChatEnds(n) => StreamInv'
         /\ ChatBreaks => StreamInv'
         /\ ChatBytes => StreamInv'
<1>1. lines \in 0..MaxLines /\ usage \in Nat /\ source \in SourceType /\ lines + 1 \in Nat
  BY StreamAssumption DEF StreamInv
<1>2. ASSUME protocol = "chat", source.phase # "closed"
      PROVE  Answering(st) /\ source.kind # "ended" /\ st.usage = usage
  BY <1>2 DEF StreamInv
<1>3. \A n \in {Absent, 0, lines + 1} : n # Absent => n \in Nat
  BY <1>1
(* A line that the stream goes on after.                                   *)
<1>4. ASSUME protocol = "chat", protocol' = protocol, lines < MaxLines, lines' = lines + 1,
             source' \in SourceType, source'.phase # "closed", source'.kind # "ended",
             Answering(st'), usage' \in Nat, st'.usage = usage'
      PROVE  StreamInv'
  BY <1>1, <1>4, LinesOn DEF StreamInv
<1>5. ASSUME NEW x, Answering(x), x.usage = usage, NEW n \in {Absent, 0, lines + 1}, Reports(n)
      PROVE  LET y == IF n = Absent THEN x ELSE UsageTaken(x, n) IN
             Answering(y) /\ y.usage = usage' /\ usage' \in Nat
  <2>1. usage' = IF n > 0 THEN n ELSE usage
    BY <1>5 DEF Reports
  <2>2. CASE n = Absent
    <3>1. usage' = usage
      BY <2>1, <2>2 DEF Absent
    <3>2. QED
      BY <1>1, <1>5, <2>2, <3>1
  <2>3. CASE n # Absent
    <3>1. n \in Nat
      BY <1>3, <2>3
    <3>2. Answering(UsageTaken(x, n)) /\ UsageTaken(x, n).usage = IF n > 0 THEN n ELSE x.usage
      BY <1>5, <3>1, UsageAnswers
    <3>3. QED
      BY <1>1, <1>5, <2>1, <2>3, <3>1, <3>2
  <2>4. QED
    BY <2>2, <2>3
<1>6. ASSUME NEW text \in BOOLEAN, NEW n \in {Absent, 0, lines + 1}, ChatChunk(text, n)
      PROVE  StreamInv'
  <2> DEFINE x == IF text THEN WithDelta(Created(st), lines + 1) ELSE Created(st)
  <2>1. /\ protocol = "chat" /\ protocol' = protocol /\ lines < MaxLines /\ lines' = lines + 1
        /\ source' = source /\ source.phase # "closed" /\ Reports(n)
        /\ st' = IF n = Absent THEN x ELSE UsageTaken(x, n)
    BY <1>6 DEF ChatChunk, Readable
  <2>2. Answering(Created(st)) /\ Created(st).out # <<>> /\ Created(st).usage = usage
    BY <1>2, <2>1, CreatedAnswers
  <2>3. Answering(WithDelta(Created(st), lines + 1)) /\ WithDelta(Created(st), lines + 1).usage = usage
    BY <1>1, <2>2, DeltaAnswers
  <2>4. Answering(x) /\ x.usage = usage
    BY <2>2, <2>3
  <2> HIDE DEF x
  <2>5. Answering(st') /\ st'.usage = usage' /\ usage' \in Nat
    BY <1>5, <2>1, <2>4
  <2>6. QED
    BY <1>1, <1>2, <1>4, <2>1, <2>5
<1>7. ASSUME ChatDone PROVE StreamInv'
  <2>1. /\ protocol = "chat" /\ protocol' = protocol /\ lines < MaxLines /\ lines' = lines + 1
        /\ source.phase # "closed" /\ source' = [source EXCEPT !.phase = "done"]
        /\ usage' = usage /\ st' = Created(st)
    BY <1>7 DEF ChatDone, Readable, Read
  <2>2. source' \in SourceType /\ source'.phase = "done" /\ source'.kind = source.kind
    BY <1>1, <2>1, SourceOn DEF StreamPhase
  <2>3. Answering(st') /\ st'.usage = usage
    BY <1>2, <2>1, CreatedAnswers
  <2>4. QED
    BY <1>1, <1>2, <1>4, <2>1, <2>2, <2>3
<1>8. ASSUME NEW n \in {Absent, 0, lines + 1}, ChatEnds(n)
      PROVE  StreamInv'
  <2> DEFINE x == IF n = Absent THEN st ELSE UsageTaken(st, n)
  <2>1. /\ protocol = "chat" /\ protocol' = protocol /\ lines' = lines /\ source.phase # "closed"
        /\ source' = [source EXCEPT !.phase = "closed", !.kind = "ended"]
        /\ Reports(n) /\ st' = Completed(x)
    BY <1>8 DEF ChatEnds
  <2>2. Answering(x) /\ x.usage = usage' /\ usage' \in Nat
    BY <1>2, <1>5, <2>1
  <2> HIDE DEF x
  <2>3. Answered(st') /\ st'.usage = usage'
    BY <2>1, <2>2, CompletedAnswers
  <2>4. source' \in SourceType /\ source'.phase = "closed"
    BY <1>1, <2>1 DEF StreamPhase, SourceType
  <2>5. QED
    BY <1>1, <2>1, <2>2, <2>3, <2>4 DEF StreamInv
<1>9. ASSUME ChatBreaks PROVE StreamInv'
  <2>1. /\ protocol = "chat" /\ protocol' = protocol /\ lines' = lines /\ usage' = usage /\ st' = st
        /\ source.phase # "closed" /\ source' = [source EXCEPT !.phase = "closed", !.kind = "broken"]
    BY <1>9 DEF ChatBreaks
  <2>2. source' \in SourceType /\ source'.phase = "closed" /\ source'.kind = "broken"
    BY <1>1, <2>1 DEF StreamPhase, SourceType
  <2>3. QED
    BY <1>1, <1>2, <2>1, <2>2 DEF StreamInv
<1>10. ASSUME ChatBytes PROVE StreamInv'
  <2>1. /\ protocol = "chat" /\ protocol' = protocol /\ lines' = lines /\ usage' = usage
        /\ source' = source /\ source.phase # "closed" /\ st' = Created(st)
    BY <1>10 DEF ChatBytes
  <2>2. Answering(st') /\ st'.usage = usage
    BY <1>2, <2>1, CreatedAnswers
  <2>3. QED
    BY <1>1, <1>2, <2>1, <2>2 DEF StreamInv
<1>11. QED
  BY <1>6, <1>7, <1>8, <1>9, <1>10

(* Lines that say nothing, the end of the stream, and stuttering.          *)
LEMMA OtherSteps ==
  ASSUME StreamInv
  PROVE  /\ Noise => StreamInv'
         /\ Close => StreamInv'
         /\ UNCHANGED streamVars => StreamInv'
<1>1. lines \in 0..MaxLines /\ usage \in Nat /\ source \in SourceType
  BY DEF StreamInv
<1>2. ASSUME Noise PROVE StreamInv'
  <2>1. /\ protocol' = protocol /\ usage' = usage /\ lines < MaxLines /\ lines' = lines + 1
        /\ source' = source /\ source.phase # "closed"
        /\ st' = IF protocol = "chat" THEN Created(st) ELSE st
    BY <1>2 DEF Noise, Readable, Read
  <2>2. lines' \in 0..MaxLines
    BY <1>1, <2>1, LinesOn
  <2>3. CASE protocol = "chat"
    <3>1. Answering(st) /\ st.usage = usage /\ source.kind # "ended"
      BY <2>1, <2>3 DEF StreamInv
    <3>2. Answering(st') /\ st'.usage = usage
      BY <2>1, <2>3, <3>1, CreatedAnswers
    <3>3. QED
      BY <1>1, <2>1, <2>2, <2>3, <3>1, <3>2 DEF StreamInv
  <2>4. CASE protocol # "chat"
    <3>1. st' = st
      BY <2>1, <2>4
    <3>2. (InTool' <=> InTool) /\ (SentFramed' <=> SentFramed) /\ (SentNested' <=> SentNested)
      BY <2>1, <3>1 DEF InTool, SentFramed, SentNested
    <3>3. QED
      BY <1>1, <2>1, <2>2, <2>4, <3>1, <3>2 DEF StreamInv
  <2>5. QED
    BY <2>3, <2>4
<1>3. ASSUME Close PROVE StreamInv'
  <2>1. /\ protocol' = protocol /\ usage' = usage /\ lines' = lines /\ protocol # "chat"
        /\ source.phase # "closed" /\ source' = [source EXCEPT !.phase = "closed"]
        /\ st' = IF protocol = "openai" THEN Flushed(st) ELSE st
    BY <1>3 DEF Close
  <2>2. source' \in SourceType /\ source'.phase = "closed" /\ source'.kind = source.kind /\ source'.named = source.named
    BY <1>1, <2>1, SourceOn DEF StreamPhase
  <2>3. CASE protocol = "openai"
    <3>1. /\ st = ToAnthropic \/ Going(st) \/ Over(st)
          /\ source.named => st = ToAnthropic \/ Streaming(st) \/ Ended(st)
      BY <2>3 DEF StreamInv, SentFramed, SentNested
    <3>2. Over(st')
      <4>1. Over(Stopped(st)) /\ (st.finished => Over(st))
        BY <3>1, StoppedOver DEF Going, ToAnthropic
      <4>2. QED
        BY <2>1, <2>3, <4>1 DEF Flushed
    <3>3. ASSUME source.named PROVE Ended(st')
      <4>1. WellSent(st) /\ (st.finished => Ended(st))
        <5>1. CASE st = ToAnthropic
          BY <5>1, NothingSent DEF ToAnthropic
        <5>2. CASE Streaming(st)
          BY <5>2, StreamingSent DEF Streaming
        <5>3. CASE Ended(st)
          BY <5>3 DEF Ended
        <5>4. QED
          BY <3>1, <3>3, <5>1, <5>2, <5>3
      <4>2. QED
        BY <2>1, <2>3, <4>1, StoppedEnds DEF Flushed
    <3>4. SentFramed' /\ (source'.named => SentNested')
      BY <2>2, <3>2, <3>3 DEF SentFramed, SentNested
    <3>5. QED
      BY <1>1, <2>1, <2>2, <2>3, <3>4 DEF StreamInv
  <2>4. CASE protocol = "anthropic"
    <3>1. st' = st /\ InTool'
      BY <2>1, <2>2, <2>4 DEF InTool
    <3>2. QED
      BY <1>1, <2>1, <2>2, <2>4, <3>1 DEF StreamInv
  <2>5. QED
    BY <2>1, <2>3, <2>4 DEF StreamInv
<1>4. ASSUME UNCHANGED streamVars PROVE StreamInv'
  <2>1. /\ protocol' = protocol /\ source' = source /\ st' = st /\ lines' = lines /\ usage' = usage
    BY <1>4 DEF streamVars
  <2>2. (InTool' <=> InTool) /\ (SentFramed' <=> SentFramed) /\ (SentNested' <=> SentNested)
    BY <2>1 DEF InTool, SentFramed, SentNested
  <2>3. QED
    BY <2>1, <2>2 DEF StreamInv
<1>5. QED
  BY <1>2, <1>3, <1>4

LEMMA StreamInvAlways == StreamSpec => []StreamInv
<1>1. StreamInv /\ [StreamNext]_streamVars => StreamInv'
  BY OpenaiSteps, AnthropicSteps, ChatSteps, OtherSteps DEF StreamNext
<1>2. QED
  BY <1>1, StreamStarts, PTL DEF StreamSpec

-----------------------------------------------------------------------------
(* What each kind of client can rely on; the events of another kind of     *)
(* client have no tools.                                                   *)
LEMMA NoToolsSent ==
  ASSUME \A n \in DOMAIN sent : sent[n][1] \notin {"tool", "args"}
  PROVE  ArgumentsFollowTheirTool
BY DEF ArgumentsFollowTheirTool, Numbered, Events

LEMMA SentTyped ==
  ASSUME StreamInv
  PROVE  /\ protocol = "openai" => /\ st \in AnthState /\ Placed(st) /\ sent \in Seq(AnthEvent)
                                   /\ source.named => WellSent(st)
         /\ protocol = "anthropic" => sent \in Seq(OpenaiEvent)
         /\ protocol = "chat" => sent \in Seq(ChatEvent)
<1>1. protocol = "openai" => st \in AnthState /\ Placed(st)
  BY NothingSent DEF StreamInv, SentFramed, Going, Over, WellSent
<1>2. protocol = "openai" /\ source.named => WellSent(st)
  BY NothingSent, StreamingSent DEF StreamInv, SentNested, Ended
<1>3. QED
  BY <1>1, <1>2 DEF StreamInv, AnthState, Relaying, OpenaiState, Answering, Answered, ChatState, sent

(* The types of a stream's state (StreamTypeOK), for any number of tools,  *)
(* blocks and lines.                                                       *)
THEOREM StreamTyped == StreamSpec => []StreamTypeOK
<1>1. StreamInv => StreamTypeOK
  <2> SUFFICES ASSUME StreamInv PROVE StreamTypeOK
    OBVIOUS
  <2>1. CASE protocol = "openai"
    <3>1. st \in AnthState /\ Placed(st)
      BY <2>1, SentTyped
    <3>2. QED
      BY <2>1, <3>1 DEF StreamInv, StreamTypeOK, Placed, AnthState
  <2>2. CASE protocol = "anthropic"
    <3>1. st.next \in Nat /\ st.tool \in [Block -> (0..(st.next - 1)) \cup {Absent}]
      <4>1. Relaying(st)
        BY <2>2 DEF StreamInv
      <4>2. QED
        BY <4>1 DEF Relaying, OpenaiState
    <3>2. QED
      BY <2>2, <3>1 DEF StreamInv, StreamTypeOK
  <2>3. CASE protocol = "chat"
    BY <2>3 DEF StreamInv, StreamTypeOK
  <2>4. QED
    BY <2>1, <2>2, <2>3 DEF StreamInv
<1>2. QED
  BY <1>1, StreamInvAlways, PTL

(* What an Anthropic client is sent begins with the only message_start, if *)
(* the upstream said anything, and once the stream is closed it ends with  *)
(* message_stop, whether the upstream ended or broke off.                  *)
THEOREM MessageFramedAlways == StreamSpec => []MessageFramed
<1>1. StreamInv => MessageFramed
  <2> SUFFICES ASSUME StreamInv PROVE MessageFramed
    OBVIOUS
  <2>1. CASE protocol = "openai"
    BY <2>1, WellFramed DEF StreamInv, SentFramed
  <2>2. QED
    BY <2>1 DEF MessageFramed
<1>2. QED
  BY <1>1, StreamInvAlways, PTL

(* If each tool is named before its arguments come, the blocks an          *)
(* Anthropic client gets nest, are numbered from 0 and have all been       *)
(* stopped when message_delta tells of a finish reason, for any number of  *)
(* tools.                                                                  *)
THEOREM BlocksNestAlways == StreamSpec => []BlocksNest
<1>1. StreamInv => BlocksNest
  <2> SUFFICES ASSUME StreamInv PROVE BlocksNest
    OBVIOUS
  <2>1. CASE protocol = "openai" /\ source.named
    BY <2>1, SentTyped, WellNested
  <2>2. QED
    BY <2>1 DEF BlocksNest
<1>2. QED
  BY <1>1, StreamInvAlways, PTL

(* An OpenAI client gets its tools numbered in order, each with its own    *)
(* arguments right after it, for any number of blocks.                     *)
THEOREM ArgumentsFollowAlways == StreamSpec => []ArgumentsFollowTheirTool
<1>1. StreamInv => ArgumentsFollowTheirTool
  <2> SUFFICES ASSUME StreamInv PROVE ArgumentsFollowTheirTool
    OBVIOUS
  <2>1. CASE protocol = "anthropic"
    BY <2>1, WellFollowed DEF StreamInv
  <2>2. CASE protocol # "anthropic"
    <3>1. \A n \in DOMAIN sent : sent[n] \in AnthEvent \/ sent[n] \in ChatEvent
      BY <2>2, SentTyped DEF StreamInv
    <3>2. \A n \in DOMAIN sent : sent[n][1] \notin {"tool", "args"}
      BY <3>1 DEF AnthEvent, ChatEvent
    <3>3. QED
      BY <3>2, NoToolsSent
  <2>3. QED
    BY <2>1, <2>2
<1>2. QED
  BY <1>1, StreamInvAlways, PTL

(* A client of the Responses API gets one response.completed, last, with   *)
(* all the text before it and the tokens reported last.                    *)
THEOREM ResponseCompletesAlways == StreamSpec => []ResponseCompletes
<1>1. StreamInv => ResponseCompletes
  <2> SUFFICES ASSUME StreamInv PROVE ResponseCompletes
    OBVIOUS
  <2> SUFFICES ASSUME protocol = "chat" PROVE ResponseCompletes
    BY DEF ResponseCompletes
  <2>1. sent = st.out /\ st.usage = usage /\ sent \in Seq(ChatEvent)
    BY SentTyped DEF StreamInv, sent
  <2>2. TextSent = Text(sent)
    BY DEF TextSent, Text, Events, Which
  <2>3. CASE Answering(st) /\ source.kind # "ended"
    <3>1. \A n \in DOMAIN sent : sent[n][1] # "completed" /\ sent[1] = <<"created">>
      BY <2>1, <2>3 DEF Answering
    <3>2. QED
      BY <2>3, <3>1 DEF ResponseCompletes
  <2>4. CASE Answered(st)
    BY <2>1, <2>2, <2>4 DEF Answered, ResponseCompletes
  <2>5. QED
    BY <2>3, <2>4 DEF StreamInv
<1>2. QED
  BY <1>1, StreamInvAlways, PTL
=============================================================================
