-------------------------- MODULE MCHealthRegistry --------------------------
(* Two threads on the endpoints of one provider.                           *)
EXTENDS HealthRegistry, TLC

CONSTANTS e1, e2, p1, t1, t2

MCEndpoint == {e1, e2}
MCProvider == {p1}
MCProviderOf == [e \in MCEndpoint |-> p1]
MCThread == {t1, t2}
MCRetryAfters == {0, 1}
=============================================================================
