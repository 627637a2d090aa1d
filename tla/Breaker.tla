------------------------------- MODULE Breaker ------------------------------
(***************************************************************************)
(* What the health registry promises of each endpoint: a circuit breaker,  *)
(* without threads, locks, counters or the length of a window.  An         *)
(* endpoint opens on its third failure in a row, on a failure while        *)
(* half-open, on a Retry-After, or while it is being probed; it becomes    *)
(* half-open only when its window is over, and only a success closes it.   *)
(* plan/04-load-balancing.md draws the same breaker with one more way to   *)
(* open it, two failures within 5 s.  mark_failure has no such trigger and *)
(* looks at no time of a failure, so neither has this module: it is the    *)
(* breaker of the code, not that of the plan.                              *)
(***************************************************************************)
EXTENDS Integers

CONSTANTS Endpoint, Threshold

VARIABLES
  phase,     (* The breaker of each endpoint.                              *)
  strikes,   (* Failures since the last success, up to Threshold.          *)
  due        (* Whether an open breaker's window is over.                  *)

vars == <<phase, strikes, due>>

Init ==
  /\ phase = [e \in Endpoint |-> "closed"]
  /\ strikes = [e \in Endpoint |-> 0]
  /\ due = [e \in Endpoint |-> FALSE]

Struck(e) == IF strikes[e] < Threshold THEN strikes[e] + 1 ELSE Threshold

Set(e, p, s, d) ==
  /\ phase' = [phase EXCEPT ![e] = p]
  /\ strikes' = [strikes EXCEPT ![e] = s]
  /\ due' = [due EXCEPT ![e] = d]

(* A failure below the threshold is only counted, however soon it follows  *)
(* on the one before.                                                      *)
Strike(e) ==
  /\ phase[e] # "halfopen" /\ Struck(e) < Threshold
  /\ Set(e, phase[e], Struck(e), due[e])

Trip(e) ==
  /\ phase[e] = "halfopen" \/ Struck(e) >= Threshold
  /\ Set(e, "open", Struck(e), FALSE)

(* The provider asks for a pause, of any length.                           *)
Pause(e) == \E d \in BOOLEAN : Set(e, "open", 1, d)

(* A probe is under way: nobody else is sent there for a while.            *)
Probe(e) ==
  /\ phase[e] = "halfopen"
  /\ Set(e, "open", strikes[e], FALSE)

Close(e) == Set(e, "closed", 0, FALSE)

HalfOpen(e) ==
  /\ phase[e] = "open" /\ due[e]
  /\ Set(e, "halfopen", strikes[e], FALSE)

(* Time passes: the windows of some open breakers end.                     *)
Elapse ==
  \E over \in SUBSET {e \in Endpoint : phase[e] = "open"} :
    /\ due' = [e \in Endpoint |-> due[e] \/ e \in over]
    /\ UNCHANGED <<phase, strikes>>

Next ==
  \/ \E e \in Endpoint :
       Strike(e) \/ Trip(e) \/ Pause(e) \/ Probe(e) \/ Close(e) \/ HalfOpen(e)
  \/ Elapse

Spec == Init /\ [][Next]_vars
=============================================================================
