--------------------------- MODULE CandidateOrder ---------------------------
(***************************************************************************)
(* What the order of candidates_ordered promises, over every tier of at    *)
(* most MaxEntries entries and every health of its endpoints.  A step      *)
(* changes one thing: the health of an endpoint, the verdict on its        *)
(* provider, or the tier a request asks for.                               *)
(***************************************************************************)
EXTENDS Candidates

CONSTANTS
  Weights,       (* Weights an entry can have; 0 is legal.                 *)
  MaxEntries     (* Bounds the model: entries of a tier.                   *)

ASSUME OrderAssumption ==
  /\ Weights \subseteq Nat
  /\ MaxEntries \in Nat

VARIABLES
  tier, cold, degraded,
  wrr,           (* What pick_weighted keeps for the tier.                 *)
  picks          (* History: what it picked since the tier was last cut or *)
                 (* a round, of as many picks as the weights add up to,    *)
                 (* began.                                                 *)

orderVars == <<tier, cold, degraded, wrr, picks>>

SmallTiers ==
  [entries : UNION {[1..n -> [endpoint : Endpoint, weight : Weights]] : n \in 0..MaxEntries},
   default : 1..(MaxEntries + 1)]

NoPicks == [e \in Endpoint |-> 0]

OrderInit ==
  /\ tier \in SmallTiers
  /\ cold = {}
  /\ degraded = {}
  /\ wrr = [len |-> Len(tier.entries), weights |-> [e \in Endpoint |-> 0]]
  /\ picks = NoPicks

Toggled(S, e) == IF e \in S THEN S \ {e} ELSE S \cup {e}

ChangeHealth(e) ==
  /\ cold' = Toggled(cold, e)
  /\ UNCHANGED <<tier, degraded, wrr, picks>>

ChangeVerdict(e) ==
  /\ degraded' = Toggled(degraded, e)
  /\ UNCHANGED <<tier, cold, wrr, picks>>

order == Ordered(tier, cold, degraded)
Picked(p) == UNION {{e} \X (1..p[e]) : e \in Endpoint}
Count(p) == Cardinality(Picked(p))

PickWeighted ==
  /\ tier.entries # <<>>
  /\ wrr' = AfterPick(tier, wrr, order)
  /\ LET e == tier.entries[PickedEntry(tier, wrr, order)].endpoint
         p == IF Count(picks) = Total(tier) THEN NoPicks ELSE picks
     IN picks' = IF AllOne(tier) \/ Total(tier) = 0 THEN picks ELSE [p EXCEPT ![e] = @ + 1]
  /\ UNCHANGED <<tier, cold, degraded>>

(* A new configuration in which the tier lacks its last entry.             *)
CutTier ==
  /\ tier.entries # <<>>
  /\ tier' = [tier EXCEPT !.entries = SubSeq(@, 1, Len(@) - 1)]
  /\ picks' = NoPicks
  /\ UNCHANGED <<cold, degraded, wrr>>

OrderNext ==
  \/ \E e \in Endpoint : ChangeHealth(e) \/ ChangeVerdict(e)
  \/ PickWeighted
  \/ CutTier

OrderSpec == OrderInit /\ [][OrderNext]_orderVars
-----------------------------------------------------------------------------
Group(i) ==
  CASE i \in Healthy(tier, cold, degraded)       -> 1
    [] i \in Deprioritized(tier, cold, degraded) -> 2
    [] i \in Unhealthy(tier, cold)               -> 3
Comes(i, j) ==
  LET o == order IN \E m, n \in DOMAIN o : m < n /\ o[m] = i /\ o[n] = j

(* Invariant: every entry of the tier is a candidate exactly once, cooling *)
(* ones included, so that bad health alone never makes a tier refuse a     *)
(* request; and whatever its weight, none goes before one in better health *)
(* (candidates_ordered's three groups).                                    *)
AllByHealth ==
  /\ Len(order) = Len(tier.entries)
  /\ \A i \in Positions(tier) : \E n \in DOMAIN order : order[n] = i
  /\ \A i, j \in Positions(tier) : Comes(i, j) => Group(i) <= Group(j)

(* Invariant: among entries that are not cooling, weight decides within a  *)
(* group, then being the declared default, then the order of the tier,     *)
(* read cyclically from the default (the rotation survives the sort).      *)
DefaultThenCyclic ==
  \A i, j \in Positions(tier) :
    Comes(i, j) /\ Group(i) = Group(j) /\ Group(i) < 3 =>
      \/ Weight(tier, i) > Weight(tier, j)
      \/ /\ Weight(tier, i) = Weight(tier, j)
         /\ IF tier.default \in Positions(tier) /\ Group(tier.default) = Group(i)
            THEN (i - tier.default) % Len(tier.entries) < (j - tier.default) % Len(tier.entries)
            ELSE i < j

(* Invariant: in a round, each endpoint is picked as often as its weights  *)
(* say, however health reorders the candidates between picks (weights are  *)
(* keyed by endpoint so that "reordering ... never misaligns" them), and   *)
(* after entries were cut from the tier too.                               *)
RoundIsFair ==
  Total(tier) > 0 /\ Count(picks) = Total(tier) =>
    \A e \in Endpoint : picks[e] = WeightOf(tier, EntriesOf(tier, e))
=============================================================================
