--------------------------- MODULE MCConfigReload ---------------------------
(* Two providers, one of which an edit leaves without keys.                *)
EXTENDS ConfigReload, TLC

CONSTANTS p1, p2, k1, k2, t1, ed1, ed2, ad1, ad2, r1

MCProvider == {p1, p2}
MCKey == {k1, k2}
MCTier == {t1}
MCEditor == {ed1, ed2}
MCOneEditor == {ed1}
MCAdmin == {ad1, ad2}
MCOneAdmin == {ad1}
MCRequest == {r1}
MCConfigs == {[keys |-> p1 :> {k1} @@ p2 :> {k1}, device |-> FALSE, tiers |-> {}],
              [keys |-> p1 :> {k2} @@ p2 :> {}, device |-> TRUE, tiers |-> {}]}
=============================================================================
