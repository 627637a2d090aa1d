SPECIFICATION OrderSpec
CONSTANTS
  a = a
  b = b
  c = c
  Endpoint <- MCEndpoint
  Weights <- MCWeights
  MaxEntries = 3
SYMMETRY Endpoints
INVARIANTS
  AllByHealth
  DefaultThenCyclic
  RoundIsFair
