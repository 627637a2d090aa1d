-------------------------- MODULE MCCandidateOrder --------------------------
(* Tiers of up to three entries over three endpoints and three weights.    *)
EXTENDS CandidateOrder, TLC

CONSTANTS a, b, c

MCEndpoint == {a, b, c}
MCWeights == {0, 1, 2}
Endpoints == Permutations(MCEndpoint)
=============================================================================
