--------------------------- MODULE HealthRegistry ---------------------------
(***************************************************************************)
(* HealthRegistry (crates/xrouter-balancer/src/lib.rs) called by several   *)
(* threads at once.  Every record sits behind a lock of its own and the    *)
(* per-provider counters are atomics, so a call is a sequence of steps,    *)
(* one per lock or atomic access, and the steps of two calls interleave.   *)
(***************************************************************************)
EXTENDS EndpointHealth, FiniteSets

CONSTANTS
  Endpoint,      (* "provider:model" endpoints.                            *)
  Provider,
  ProviderOf,    (* The provider of each endpoint.                         *)
  Thread,        (* Threads that call the registry.                        *)
  MaxTotal,      (* Bounds the model: the count at which an endpoint that  *)
                 (* has no record is not counted again by a success.       *)
  MaxCooling     (* Bounds the model: the count at which no call starts    *)
                 (* that may open a window.                                *)

ASSUME RegistryAssumption ==
  /\ IsFiniteSet(Endpoint)
  /\ ProviderOf \in [Endpoint -> Provider]
  /\ MaxTotal \in Nat
  /\ MaxCooling \in Nat

VARIABLES
  known,         (* The endpoints that have a record.                      *)
  health,        (* Their records; Default for one that has none.          *)
  cooling,       (* cooling_counts, per provider.                          *)
  total,         (* total_counts, per provider.                            *)
  call           (* What each thread is in the middle of.                  *)

vars == <<known, health, cooling, total, call>>

Registering == {"success", "failure", "retryAfter"}
Op == Registering \cup {"recount"}
Step == {"count", "apply", "insert", "cool", "uncool"}
Idle == [at |-> "idle"]
Call == [at : Step, op : Op, id : Endpoint, was : BOOLEAN]

At(t, step) == call[t].at = step
IsCall(t, step, op) == At(t, step) /\ call[t].op = op
Of(p) == {e \in Endpoint : ProviderOf[e] = p}

TypeOK ==
  /\ known \subseteq Endpoint
  /\ health \in [Endpoint -> Record]
  /\ cooling \in [Provider -> Nat]
  /\ total \in [Provider -> Nat]
  /\ call \in [Thread -> Call \cup {Idle}]

Init ==
  /\ known = {}
  /\ health = [e \in Endpoint |-> Default]
  /\ cooling = [p \in Provider |-> 0]
  /\ total = [p \in Provider |-> 0]
  /\ call = [t \in Thread |-> Idle]

-----------------------------------------------------------------------------
Return(t) == call' = [call EXCEPT ![t] = Idle]
GoTo(t, step) == call' = [call EXCEPT ![t].at = step]
Recount(t, e, step) ==
  call' = [call EXCEPT ![t] = [at |-> step, op |-> "recount", id |-> e, was |-> FALSE]]
Store(e, h) == health' = [health EXCEPT ![e] = h]

WithinBounds(e, op) ==
  IF op = "success"
  THEN e \in known \/ total[ProviderOf[e]] < MaxTotal
  ELSE cooling[ProviderOf[e]] < MaxCooling

(* Mutant: an endpoint is never counted.                                   *)
RegisterNever(t, e, op) ==
  /\ At(t, "idle") /\ WithinBounds(e, op)
  /\ op = "retryAfter" => RetryAfters # {}
  /\ call' = [call EXCEPT ![t] = [at |-> "apply", op |-> op, id |-> e, was |-> FALSE]]
  /\ UNCHANGED <<known, health, cooling, total>>

(* register's contains_key; its increment is a step of its own.            *)
Register(t, e, op) ==
  /\ At(t, "idle") /\ WithinBounds(e, op)
  /\ op = "retryAfter" => RetryAfters # {}
  /\ call' = [call EXCEPT ![t] = [at |-> IF e \in known THEN "apply" ELSE "count",
                                  op |-> op, id |-> e, was |-> FALSE]]
  /\ UNCHANGED <<known, health, cooling, total>>

CountNew(t) ==
  /\ At(t, "count")
  /\ total' = [total EXCEPT ![ProviderOf[call[t].id]] = @ + 1]
  /\ GoTo(t, "apply")
  /\ UNCHANGED <<known, health, cooling>>

(* mark_success resets a record that exists; it never creates one.         *)
ApplySuccess(t) ==
  LET e == call[t].id IN
  /\ IsCall(t, "apply", "success")
  /\ IF e \in known THEN Store(e, AfterSuccess(health[e])) ELSE UNCHANGED health
  /\ IF e \in known /\ IsCooling(health[e]) THEN Recount(t, e, "uncool") ELSE Return(t)
  /\ UNCHANGED <<known, cooling, total>>

(* mark_failure counts a new window before it releases the record.         *)
ApplyFailure(t) ==
  LET e == call[t].id
      p == ProviderOf[e]
  IN
  /\ IsCall(t, "apply", "failure")
  /\ known' = known \cup {e}
  /\ \E h \in AfterFailure(health[e]) :
       /\ Store(e, h)
       /\ cooling' = IF IsCooling(h) /\ ~IsCooling(health[e])
                     THEN [cooling EXCEPT ![p] = @ + 1] ELSE cooling
  /\ Return(t)
  /\ UNCHANGED total

(* apply_retry_after reads whether the endpoint is cooling ...             *)
ReadCooling(t) ==
  /\ IsCall(t, "apply", "retryAfter")
  /\ call' = [call EXCEPT ![t].at = "insert", ![t].was = IsCooling(health[call[t].id])]
  /\ UNCHANGED <<known, health, cooling, total>>

(* ... and overwrites the record in a later step, whatever it is by then.  *)
InsertCooling(t) ==
  LET e == call[t].id IN
  /\ At(t, "insert")
  /\ known' = known \cup {e}
  /\ \E secs \in RetryAfters : Store(e, AfterRetryAfter(secs))
  /\ IF call[t].was THEN Return(t) ELSE Recount(t, e, "cool")
  /\ UNCHANGED <<cooling, total>>

(* mark_probing: one caller takes the half-open state away.                *)
MarkProbing(t, e) ==
  /\ At(t, "idle") /\ WithinBounds(e, "probing")
  /\ e \in known /\ health[e].state = "halfopen"
  /\ Store(e, AfterProbing(health[e]))
  /\ Recount(t, e, "cool")
  /\ UNCHANGED <<known, cooling, total>>

(* health_state on an expired window; any other read changes nothing.      *)
ReadHealth(t, e) ==
  /\ At(t, "idle")
  /\ e \in known /\ Expired(health[e])
  /\ Store(e, AfterRead(health[e]))
  /\ Recount(t, e, "uncool")
  /\ UNCHANGED <<known, cooling, total>>

(* inc_counter and dec_counter after the record's lock is released; the    *)
(* decrement does nothing at 0.                                            *)
CountCooling(t) ==
  /\ At(t, "cool")
  /\ cooling' = [cooling EXCEPT ![ProviderOf[call[t].id]] = @ + 1]
  /\ Return(t)
  /\ UNCHANGED <<known, health, total>>

(* Mutant: the decrement is not checked.                                   *)
UncountUnchecked(t) ==
  /\ At(t, "uncool")
  /\ cooling' = [cooling EXCEPT ![ProviderOf[call[t].id]] = @ - 1]
  /\ Return(t)
  /\ UNCHANGED <<known, health, total>>

UncountCooling(t) ==
  /\ At(t, "uncool")
  /\ cooling' = [cooling EXCEPT ![ProviderOf[call[t].id]] = IF @ > 0 THEN @ - 1 ELSE 0]
  /\ Return(t)
  /\ UNCHANGED <<known, health, total>>

Tick ==
  /\ \E e \in Endpoint : health[e].left > 0
  /\ health' = [e \in Endpoint |-> AfterTick(health[e])]
  /\ UNCHANGED <<known, cooling, total, call>>

Continue(t) ==
  \/ CountNew(t)     \/ ApplySuccess(t)  \/ ApplyFailure(t)
  \/ ReadCooling(t)  \/ InsertCooling(t)
  \/ CountCooling(t) \/ UncountCooling(t)

Next ==
  \/ \E t \in Thread :
       \/ Continue(t)
       \/ \E e \in Endpoint :
            \/ \E op \in Registering : Register(t, e, op)
            \/ MarkProbing(t, e)
            \/ ReadHealth(t, e)
  \/ Tick

(* Threads run to the end of a call, time passes, and each routed request  *)
(* reads the health of every entry of its tier (snapshot_states).          *)
Fairness ==
  /\ \A t \in Thread : WF_vars(Continue(t))
  /\ \A e \in Endpoint : SF_vars(\E t \in Thread : ReadHealth(t, e))
  /\ WF_vars(Tick)

Spec == Init /\ [][Next]_vars
FairSpec == Spec /\ Fairness
-----------------------------------------------------------------------------
(* Safety: an endpoint the router takes for healthy has failed fewer than  *)
(* three times since its last success, whatever calls overlapped           *)
(* (mark_failure's threshold against mark_success's reset).                *)
ThreeStrikes ==
  \A e \in Endpoint :
    health[e].state = "healthy" => health[e].failures < FailureThreshold

(* Safety: no endpoint has a record without having been counted first, so  *)
(* the 70% ratio of is_provider_degraded never divides by too small a      *)
(* total (register's check and increment against the insertions).          *)
TotalCoversKnown ==
  \A p \in Provider : total[p] >= Cardinality(known \cap Of(p))

(* Refinement: under every interleaving of calls the records behave as     *)
(* circuit breakers that open on three failures in a row (the plan's       *)
(* second trigger, two failures within 5 s, is not in the code).           *)
B == INSTANCE Breaker WITH
       Threshold <- FailureThreshold,
       phase <- [e \in Endpoint |-> Phase(health[e])],
       strikes <- [e \in Endpoint |-> Lesser(health[e].failures, FailureThreshold)],
       due <- [e \in Endpoint |-> health[e].state = "cooling" /\ health[e].left = 0]

BreakerSpec == B!Spec

(* Liveness: once no request fails any more, an idle endpoint recovers     *)
(* without a background probe: reads alone bring it back (health_state's   *)
(* "self-healing").                                                        *)
Calm == \A t \in Thread : ~IsCall(t, "apply", "failure") /\ ~At(t, "insert")
SelfHealing ==
  <>[]Calm => \A e \in Endpoint : []<>(~IsCooling(health[e]))
=============================================================================
