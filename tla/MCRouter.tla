------------------------------ MODULE MCRouter ------------------------------
(* Two requests at a time over an endpoint of each of two providers, which *)
(* share a key; a tier of both, and one of the first alone.                *)
EXTENDS Router, TLC

CONSTANTS e1, e2, p1, p2, k1, k2, r1, r2

MCEndpoint == {e1, e2}
MCProvider == {p1, p2}
MCKey == {k1, k2}
MCRequest == {r1, r2}
MCProviderOf == e1 :> p1 @@ e2 :> p2
MCKeysOf == p1 :> {k1, k2} @@ p2 :> {k2}
Entry(e) == [endpoint |-> e, weight |-> 1]
MCTiers == {[entries |-> <<Entry(e1), Entry(e2)>>, default |-> 1],
            [entries |-> <<Entry(e1)>>, default |-> 1],
            [entries |-> <<>>, default |-> 1]}
MCRetryAfters == {1}
MCWorlds == {{<<e1, k1>>, <<e1, k2>>}, {<<e2, k2>>}}
MCOneKeyServes == {{<<e1, k1>>}}
Failing == [state |-> "healthy", left |-> 0, failures |-> 2]
Cooled == [state |-> "cooling", left |-> 1, failures |-> 1]
MCHistories == {e1 :> Failing @@ e2 :> Failing, e1 :> Cooled @@ e2 :> Cooled}
MCOffSets == {{}, {p1}}
=============================================================================
