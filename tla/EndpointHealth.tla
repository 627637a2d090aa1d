--------------------------- MODULE EndpointHealth ---------------------------
(***************************************************************************)
(* The health record of one endpoint (HealthState and EndpointHealth of    *)
(* crates/xrouter-balancer/src/lib.rs) and what each operation of the      *)
(* registry does to it while it holds the record's lock.                   *)
(*                                                                         *)
(* Time is abstracted: `until` is kept as the number of ticks left, so a   *)
(* cooling window has expired exactly when `left` is 0.  The count of      *)
(* consecutive failures saturates at FailureCap: the code reads it only    *)
(* through `>= 3` and `min(f - 3, 4)`, which cannot tell values above 7    *)
(* apart.                                                                  *)
(***************************************************************************)
EXTENDS Integers

CONSTANTS
  BaseWindow,    (* Backoff of the first trip, 30 s in the code.           *)
  ProbeWindow,   (* Window a half-open endpoint is parked for, 5 s.        *)
  MaxWindow,     (* Cap of a jittered backoff, 300 s.                      *)
  RetryAfters,   (* Numeric Retry-After values the providers send, short   *)
                 (* enough to be added to an Instant.                      *)
  FailureCap     (* Where the failure count saturates.                     *)

FailureThreshold == 3

ASSUME WindowsAssumption ==
  /\ BaseWindow \in Nat /\ BaseWindow >= 2
  /\ ProbeWindow \in Nat /\ ProbeWindow >= 1
  /\ MaxWindow \in Nat /\ MaxWindow >= 1
  /\ RetryAfters \subseteq Nat
  /\ FailureCap \in Nat /\ FailureCap >= FailureThreshold

HealthState == {"healthy", "cooling", "halfopen"}
Record == [state : HealthState, left : Nat, failures : 0..FailureCap]

Default == [state |-> "healthy", left |-> 0, failures |-> 0]

Lesser(a, b) == IF a <= b THEN a ELSE b

IsCooling(h) == h.state = "cooling"

(* Mutant: the timer of the window is not consulted.                       *)
ExpiredAtOnce(h) == IsCooling(h)

Expired(h)   == IsCooling(h) /\ h.left = 0

(* A window is multiplied by a random factor in [0.9, 1.2) and capped; the *)
(* two ends are rounded down to whole ticks.                               *)
Jittered(b) == { Lesser(w, MaxWindow) : w \in ((9 * b) \div 10)..((12 * b) \div 10) }

Doubling == <<1, 2, 4, 8, 16>>
Exponent(f) == Lesser(f - FailureThreshold, 4)
Backoff(h, f) ==
  IF h.state = "halfopen" THEN BaseWindow ELSE BaseWindow * Doubling[Exponent(f) + 1]

(* Mutant: the read reports half-open but does not store it.               *)
AfterReadUnstored(h) == h

(* A read moves an expired window to half-open and nothing else.           *)
AfterRead(h) == IF Expired(h) THEN [h EXCEPT !.state = "halfopen"] ELSE h

(* Mutant: mark_success without the reset of the failure count.            *)
AfterSuccessKeepingCount(h) == [h EXCEPT !.state = "healthy", !.left = 0]

AfterSuccess(h) == Default

(* The third failure in a row, or any failure of a half-open endpoint,     *)
(* opens a new window; a lower count leaves the state as it was.           *)
Trips(h) == h.failures + 1 >= FailureThreshold \/ h.state = "halfopen"
Bumped(h) == Lesser(h.failures + 1, FailureCap)
AfterFailure(h) ==
  IF Trips(h)
  THEN { [state |-> "cooling", left |-> w, failures |-> Bumped(h)] :
           w \in Jittered(Backoff(h, Bumped(h))) }
  ELSE { [h EXCEPT !.failures = Bumped(h)] }

AfterProbing(h) == [h EXCEPT !.state = "cooling", !.left = ProbeWindow]
AfterRetryAfter(secs) == [state |-> "cooling", left |-> secs, failures |-> 1]
AfterTick(h) == [h EXCEPT !.left = IF @ > 0 THEN @ - 1 ELSE 0]

(* What a record says in the words of Breaker.                             *)
Phase(h) == CASE h.state = "healthy"  -> "closed"
              [] h.state = "cooling"  -> "open"
              [] h.state = "halfopen" -> "halfopen"
=============================================================================
