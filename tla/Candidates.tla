----------------------------- MODULE Candidates -----------------------------
(***************************************************************************)
(* Balancer::candidates_ordered (crates/xrouter-balancer/src/lib.rs): the  *)
(* order in which a request tries the entries of its tier; and             *)
(* Balancer::pick_weighted, which picks one of them by smooth weighted     *)
(* round robin.                                                            *)
(*                                                                         *)
(* A tier is a record: `entries`, a sequence of [endpoint, weight], and    *)
(* `default`, the position of its default entry counted from 1 (a config   *)
(* may name one past the end).  An order is a sequence of positions.       *)
(***************************************************************************)
EXTENDS Integers, Sequences, FiniteSets, Sorting

CONSTANT Endpoint

Positions(tier) == 1..Len(tier.entries)
Weight(tier, i) == tier.entries[i].weight

(* Its last group, the entries of an endpoint that is cooling ...          *)
Unhealthy(tier, cold) == {i \in Positions(tier) : tier.entries[i].endpoint \in cold}

(* ... and the one before, of endpoints whose provider is found degraded.  *)
Deprioritized(tier, cold, degraded) ==
  {i \in Positions(tier) \ Unhealthy(tier, cold) : tier.entries[i].endpoint \in degraded}

Healthy(tier, cold, degraded) ==
  Positions(tier) \ (Unhealthy(tier, cold) \cup Deprioritized(tier, cold, degraded))

(* Rotates a group so that its element d comes first; as it is without d.  *)
RotateTo(group, d) ==
  LET here == {k \in DOMAIN group : group[k] = d} IN
  IF here = {} THEN group
  ELSE LET k == CHOOSE k \in here : TRUE
       IN SubSeq(group, k, Len(group)) \o SubSeq(group, 1, k - 1)

(* Mutant: a sort that turns equal weights round.                          *)
HeaviestFirstUnstable(tier, group) ==
  LET Precedes(j, k) == \/ Weight(tier, group[j]) > Weight(tier, group[k])
                        \/ Weight(tier, group[j]) = Weight(tier, group[k]) /\ j > k
      sorted == Sorted(DOMAIN group, {p \in (DOMAIN group) \X (DOMAIN group) : Precedes(p[1], p[2])})
  IN [n \in DOMAIN group |-> group[sorted[n]]]

(* A stable sort, heaviest entry first.                                    *)
HeaviestFirst(tier, group) ==
  LET Precedes(j, k) == \/ Weight(tier, group[j]) > Weight(tier, group[k])
                        \/ Weight(tier, group[j]) = Weight(tier, group[k]) /\ j < k
      sorted == Sorted(DOMAIN group, {p \in (DOMAIN group) \X (DOMAIN group) : Precedes(p[1], p[2])})
  IN [n \in DOMAIN group |-> group[sorted[n]]]

(* A group in the order of the tier, its default entry first, then sorted. *)
Arranged(tier, S) == HeaviestFirst(tier, RotateTo(Ascending(S), tier.default))

(* Mutant: the tier's order, the health of its endpoints aside.            *)
OrderedBlindly(tier, cold, degraded) == Arranged(tier, Positions(tier))

(* Mutant: cooling endpoints are left out.                                 *)
OrderedFiltered(tier, cold, degraded) ==
  Arranged(tier, Healthy(tier, cold, degraded))
    \o Arranged(tier, Deprioritized(tier, cold, degraded))

Ordered(tier, cold, degraded) ==
  Arranged(tier, Healthy(tier, cold, degraded))
    \o Arranged(tier, Deprioritized(tier, cold, degraded))
    \o Ascending(Unhealthy(tier, cold))

-----------------------------------------------------------------------------
(* The weight of some entries together, counted unit by unit; the entries  *)
(* of an endpoint.                                                         *)
Units(tier, S) == UNION {{i} \X (1..Weight(tier, i)) : i \in S}
WeightOf(tier, S) == Cardinality(Units(tier, S))
EntriesOf(tier, e) == {i \in Positions(tier) : tier.entries[i].endpoint = e}

(* pick_weighted keeps, for the tier, how many candidates it had last and  *)
(* a current weight for each endpoint: w is [len, weights].                *)
Total(tier) == WeightOf(tier, Positions(tier))
AllOne(tier) == \A i \in Positions(tier) : Weight(tier, i) = 1

(* Mutant: the weights of a tier that had another length are kept.         *)
CarriedOver(tier, w) == [w EXCEPT !.len = Len(tier.entries)]

Reset(tier, w) ==
  IF w.len = Len(tier.entries) THEN w
  ELSE [len |-> Len(tier.entries), weights |-> [e \in DOMAIN w.weights |-> 0]]

(* Each candidate in turn adds its weight to that of its endpoint.         *)
Raised(tier, w, order, k) ==
  LET e == tier.entries[order[k]].endpoint IN
  w.weights[e] + WeightOf(tier, {i \in EntriesOf(tier, e) : \E j \in 1..k : order[j] = i})

(* The first of those that got highest is picked.                          *)
Best(tier, w, order) ==
  CHOOSE k \in DOMAIN order :
    \A j \in DOMAIN order : \/ Raised(tier, w, order, j) < Raised(tier, w, order, k)
                            \/ Raised(tier, w, order, j) = Raised(tier, w, order, k) /\ k <= j

PickedEntry(tier, w, order) ==
  IF AllOne(tier) THEN order[1] ELSE order[Best(tier, Reset(tier, w), order)]

(* Its endpoint pays the total; a tier of ones is not counted at all.      *)
AfterPick(tier, w, order) ==
  IF AllOne(tier) THEN w
  ELSE LET r == Reset(tier, w)
           picked == tier.entries[PickedEntry(tier, w, order)].endpoint
       IN [r EXCEPT !.weights = [e \in DOMAIN @ |->
             @[e] + WeightOf(tier, EntriesOf(tier, e)) - (IF e = picked THEN Total(tier) ELSE 0)]]
=============================================================================
