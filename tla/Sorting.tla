------------------------------ MODULE Sorting ------------------------------
(***************************************************************************)
(* What the code's stable sorts and filters of lists come to: the elements *)
(* of a finite set in the order of a relation R, each at the place that    *)
(* the number of those before it gives.                                    *)
(***************************************************************************)
EXTENDS Integers, FiniteSets

Before(S, R, x) == {y \in S : <<y, x>> \in R}

Sorted(S, R) ==
  [n \in 1..Cardinality(S) |-> CHOOSE x \in S : Cardinality(Before(S, R, x)) = n - 1]

Ascending(S) == Sorted(S, {p \in S \X S : p[1] < p[2]})

(* The elements of a sequence that pass a test, in their order.            *)
Filtered(s, Test(_)) ==
  LET kept == Ascending({i \in DOMAIN s : Test(s[i])})
  IN [n \in DOMAIN kept |-> s[kept[n]]]

(* R is a strict total order on S.                                         *)
Orders(R, S) ==
  /\ \A x \in S : <<x, x>> \notin R
  /\ \A x, y, z \in S : <<x, y>> \in R /\ <<y, z>> \in R => <<x, z>> \in R
  /\ \A x, y \in S : x # y => <<x, y>> \in R \/ <<y, x>> \in R
=============================================================================
