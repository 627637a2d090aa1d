----------------------------- MODULE MCKeyRings -----------------------------
(* Two attempts over a ring of three keys that a reload can shorten.       *)
EXTENDS KeyRings, TLC

CONSTANTS p1, k1, k2, k3, t1, t2

MCProvider == {p1}
MCKey == {k1, k2, k3}
MCThread == {t1, t2}
MCRings == {<<k1, k2, k3>>, <<k2, k1>>}
MCBanTicks == {0, 1}
=============================================================================
