------------------------ MODULE HealthRegistryProofs ------------------------
(***************************************************************************)
(* What holds of HealthRegistry for any endpoints, providers and threads   *)
(* and any length of the windows.                                          *)
(***************************************************************************)
EXTENDS HealthRegistry, FiniteSetTheorems, TLAPS

-----------------------------------------------------------------------------
(* The operations on one record.                                           *)

(* A jittered window is a number of ticks.                                 *)
LEMMA JitteredIsNat ==
  ASSUME NEW b \in Nat, NEW w \in Jittered(b)
  PROVE  w \in Nat
<1>1. PICK v \in ((9 * b) \div 10)..((12 * b) \div 10) : w = Lesser(v, MaxWindow)
  BY DEF Jittered
<1>2. v \in Nat
  BY <1>1
<1>3. QED
  BY <1>1, <1>2, WindowsAssumption DEF Lesser

(* Every window that a failure opens lasts at least one tick.              *)
LEMMA JitteredIsPositive ==
  ASSUME NEW b \in Nat, b >= 2, NEW w \in Jittered(b)
  PROVE  w > 0
<1>1. PICK v \in ((9 * b) \div 10)..((12 * b) \div 10) : w = Lesser(v, MaxWindow)
  BY DEF Jittered
<1>2. (9 * b) \div 10 >= 1
  OBVIOUS
<1>3. v \in Int /\ v >= 1
  BY <1>1, <1>2
<1>4. QED
  BY <1>1, <1>3, WindowsAssumption DEF Lesser

(* The backoff of a failure that trips is a whole number, two at least.    *)
LEMMA BackoffBound ==
  ASSUME NEW h \in Record, Trips(h)
  PROVE  Backoff(h, Bumped(h)) \in Nat /\ Backoff(h, Bumped(h)) >= 2
<1> USE WindowsAssumption DEF Record, FailureThreshold
<1>1. CASE h.state = "halfopen"
  BY <1>1 DEF Backoff
<1>2. CASE h.state # "halfopen"
  <2>1. Bumped(h) \in Int /\ Bumped(h) >= 3
    BY <1>2 DEF Trips, Bumped, Lesser
  <2>2. Exponent(Bumped(h)) \in 0..4
    BY <2>1 DEF Exponent, Lesser
  <2> DEFINE d == Doubling[Exponent(Bumped(h)) + 1]
  <2>3. d \in Nat /\ d >= 1
    BY <2>2 DEF Doubling
  <2> HIDE DEF d
  <2>4. BaseWindow * d \in Nat /\ BaseWindow * d >= 2
    BY <2>3
  <2>5. QED
    BY <1>2, <2>4 DEF Backoff, d
<1>3. QED
  BY <1>1, <1>2

(* What a failure leaves behind: a record, with the count moved on by one, *)
(* and an unexpired window when it trips.                                  *)
LEMMA FailureResult ==
  ASSUME NEW h \in Record, NEW g \in AfterFailure(h)
  PROVE  /\ g \in Record
         /\ g.failures = Bumped(h)
         /\ Trips(h) => g.state = "cooling" /\ g.left > 0
         /\ ~Trips(h) => g.state = h.state /\ g.left = h.left
<1>1. Bumped(h) \in 0..FailureCap
  BY WindowsAssumption DEF Bumped, Lesser, Record
<1>2. CASE Trips(h)
  <2>1. PICK w \in Jittered(Backoff(h, Bumped(h))) :
          g = [state |-> "cooling", left |-> w, failures |-> Bumped(h)]
    BY <1>2 DEF AfterFailure
  <2>2. w \in Nat /\ w > 0
    BY <1>2, BackoffBound, JitteredIsNat, JitteredIsPositive
  <2>3. QED
    BY <1>1, <1>2, <2>1, <2>2 DEF Record, HealthState
<1>3. CASE ~Trips(h)
  <2>1. g = [h EXCEPT !.failures = Bumped(h)]
    BY <1>3 DEF AfterFailure
  <2>2. QED
    BY <1>1, <1>3, <2>1 DEF Record
<1>4. QED
  BY <1>2, <1>3

(* The other operations on a record return a record.                       *)
LEMMA RecordsStayRecords ==
  ASSUME NEW h \in Record
  PROVE  /\ Default \in Record
         /\ AfterSuccess(h) \in Record
         /\ AfterRead(h) \in Record
         /\ AfterProbing(h) \in Record
         /\ AfterTick(h) \in Record
         /\ \A secs \in RetryAfters : AfterRetryAfter(secs) \in Record
<1> USE WindowsAssumption DEF Record, HealthState, FailureThreshold
<1>1. Default \in Record /\ AfterSuccess(h) \in Record
  BY DEF Default, AfterSuccess
<1>2. AfterRead(h) \in Record
  BY DEF AfterRead
<1>3. AfterProbing(h) \in Record
  BY DEF AfterProbing
<1>4. AfterTick(h) \in Record
  BY DEF AfterTick
<1>5. \A secs \in RetryAfters : AfterRetryAfter(secs) \in Record
  BY DEF AfterRetryAfter
<1>6. QED
  BY <1>1, <1>2, <1>3, <1>4, <1>5

-----------------------------------------------------------------------------
(* Type correctness.                                                       *)

(* Returning from a call, or going on to a counter, leaves calls behind.   *)
LEMMA CallsStayCalls ==
  ASSUME TypeOK, NEW t \in Thread, NEW e \in Endpoint, NEW step \in {"cool", "uncool"},
         Return(t) \/ Recount(t, e, step)
  PROVE  call' \in [Thread -> Call \cup {Idle}]
<1>1. CASE Return(t)
  BY <1>1 DEF Return, TypeOK
<1>2. CASE Recount(t, e, step)
  <2>1. [at |-> step, op |-> "recount", id |-> e, was |-> FALSE] \in Call
    BY DEF Call, Step, Op
  <2>2. QED
    BY <1>2, <2>1 DEF Recount, TypeOK
<1>3. QED
  BY <1>1, <1>2

(* No step of a call leaves the types: counters stay natural numbers       *)
(* whatever overlaps, in particular cooling_counts, which dec_counter      *)
(* never takes below 0.                                                    *)
LEMMA TypeStep == TypeOK /\ [Next]_vars => TypeOK'
<1> SUFFICES ASSUME TypeOK, [Next]_vars PROVE TypeOK'
  OBVIOUS
<1> USE RegistryAssumption DEF TypeOK, At, IsCall, Return, GoTo, Recount, Store,
                               Call, Idle, Step, Op, Registering
<1>1. ASSUME NEW t \in Thread, NEW e \in Endpoint, NEW op \in Registering, Register(t, e, op)
      PROVE  TypeOK'
  BY <1>1 DEF Register
<1>2. ASSUME NEW t \in Thread, CountNew(t) PROVE TypeOK'
  <2>1. call[t] \in Call
    BY <1>2 DEF CountNew
  <2>2. call' \in [Thread -> Call \cup {Idle}]
    BY <1>2, <2>1 DEF CountNew
  <2>3. total' \in [Provider -> Nat]
    BY <1>2, <2>1 DEF CountNew
  <2>4. QED
    BY <1>2, <2>2, <2>3 DEF CountNew
<1>3. ASSUME NEW t \in Thread, ApplySuccess(t) PROVE TypeOK'
  <2>1. call[t] \in Call
    BY <1>3 DEF ApplySuccess
  <2>2. AfterSuccess(health[call[t].id]) \in Record
    BY <2>1, RecordsStayRecords
  <2>3. health' \in [Endpoint -> Record]
    BY <1>3, <2>1, <2>2 DEF ApplySuccess
  <2>4. call' \in [Thread -> Call \cup {Idle}]
    <3>1. Return(t) \/ Recount(t, call[t].id, "uncool")
      BY <1>3 DEF ApplySuccess
    <3>2. QED
      BY <2>1, <3>1, CallsStayCalls
  <2>5. QED
    BY <1>3, <2>3, <2>4 DEF ApplySuccess
<1>4. ASSUME NEW t \in Thread, ApplyFailure(t) PROVE TypeOK'
  <2>1. call[t] \in Call
    BY <1>4 DEF ApplyFailure
  <2>2. PICK h \in AfterFailure(health[call[t].id]) :
          /\ health' = [health EXCEPT ![call[t].id] = h]
          /\ cooling' = IF IsCooling(h) /\ ~IsCooling(health[call[t].id])
                        THEN [cooling EXCEPT ![ProviderOf[call[t].id]] = @ + 1] ELSE cooling
    BY <1>4 DEF ApplyFailure
  <2>3. h \in Record
    BY <2>1, FailureResult
  <2>4. health' \in [Endpoint -> Record] /\ cooling' \in [Provider -> Nat]
    BY <2>1, <2>2, <2>3
  <2>5. QED
    BY <1>4, <2>1, <2>4 DEF ApplyFailure
<1>5. ASSUME NEW t \in Thread, ReadCooling(t) PROVE TypeOK'
  <2>1. call[t] \in Call
    BY <1>5 DEF ReadCooling
  <2>2. IsCooling(health[call[t].id]) \in BOOLEAN
    BY DEF IsCooling
  <2>3. QED
    BY <1>5, <2>1, <2>2 DEF ReadCooling
<1>6. ASSUME NEW t \in Thread, InsertCooling(t) PROVE TypeOK'
  <2>1. call[t] \in Call
    BY <1>6 DEF InsertCooling
  <2>2. PICK secs \in RetryAfters :
          health' = [health EXCEPT ![call[t].id] = AfterRetryAfter(secs)]
    BY <1>6 DEF InsertCooling
  <2>3. AfterRetryAfter(secs) \in Record
    BY <2>1, RecordsStayRecords
  <2>4. call' \in [Thread -> Call \cup {Idle}]
    <3>1. Return(t) \/ Recount(t, call[t].id, "cool")
      BY <1>6 DEF InsertCooling
    <3>2. QED
      BY <2>1, <3>1, CallsStayCalls
  <2>5. QED
    BY <1>6, <2>1, <2>2, <2>3, <2>4 DEF InsertCooling
<1>7. ASSUME NEW t \in Thread, NEW e \in Endpoint, MarkProbing(t, e) PROVE TypeOK'
  <2>1. AfterProbing(health[e]) \in Record
    BY RecordsStayRecords
  <2>2. QED
    BY <1>7, <2>1 DEF MarkProbing
<1>8. ASSUME NEW t \in Thread, NEW e \in Endpoint, ReadHealth(t, e) PROVE TypeOK'
  <2>1. AfterRead(health[e]) \in Record
    BY RecordsStayRecords
  <2>2. QED
    BY <1>8, <2>1 DEF ReadHealth
<1>9. ASSUME NEW t \in Thread, CountCooling(t) PROVE TypeOK'
  <2>1. call[t] \in Call
    BY <1>9 DEF CountCooling
  <2>2. QED
    BY <1>9, <2>1 DEF CountCooling
<1>10. ASSUME NEW t \in Thread, UncountCooling(t) PROVE TypeOK'
  <2>1. call[t] \in Call
    BY <1>10 DEF UncountCooling
  <2>2. QED
    BY <1>10, <2>1 DEF UncountCooling
<1>11. CASE Tick
  <2>1. \A e \in Endpoint : AfterTick(health[e]) \in Record
    BY RecordsStayRecords
  <2>2. QED
    BY <1>11, <2>1 DEF Tick
<1>12. CASE UNCHANGED vars
  BY <1>12 DEF vars
<1>13. QED
  BY <1>1, <1>2, <1>3, <1>4, <1>5, <1>6, <1>7, <1>8, <1>9, <1>10, <1>11, <1>12
  DEF Next, Continue

(* A new registry is well typed.                                           *)
LEMMA TypeInit == Init => TypeOK
BY RegistryAssumption, WindowsAssumption
DEF Init, TypeOK, Record, HealthState, Default, FailureThreshold

(* Every reachable state of the registry is well typed.                    *)
THEOREM TypeCorrect == Spec => []TypeOK
<1>1. QED
  BY TypeInit, TypeStep, PTL DEF Spec

-----------------------------------------------------------------------------
(* Three strikes: the only steps that make a record healthy reset its     *)
(* count, and the only step that raises a count opens a window at three:   *)
(* the property is inductive once the types are known.                     *)
LEMMA ThreeStrikesStep == TypeOK /\ ThreeStrikes /\ [Next]_vars => ThreeStrikes'
<1> SUFFICES ASSUME TypeOK, ThreeStrikes, [Next]_vars,
                    NEW f \in Endpoint, health'[f].state = "healthy"
             PROVE  health'[f].failures < FailureThreshold
  BY DEF ThreeStrikes
<1>0. /\ health[f] \in Record
      /\ health[f].state = "healthy" => health[f].failures < FailureThreshold
  BY DEF TypeOK, ThreeStrikes
<1>1. CASE health'[f] = health[f]
  BY <1>0, <1>1
<1>2. ASSUME NEW t \in Thread, ApplySuccess(t) PROVE health'[f].failures < FailureThreshold
  BY <1>0, <1>2 DEF ApplySuccess, Store, TypeOK, AfterSuccess, Default, FailureThreshold
<1>3. ASSUME NEW t \in Thread, ApplyFailure(t) PROVE health'[f].failures < FailureThreshold
  <2>1. PICK h \in AfterFailure(health[call[t].id]) : Store(call[t].id, h)
    BY <1>3 DEF ApplyFailure
  <2>2. CASE f # call[t].id
    BY <1>1, <2>1, <2>2 DEF Store, TypeOK
  <2>3. CASE f = call[t].id
    <3>1. health'[f] = h
      BY <2>1, <2>3 DEF Store, TypeOK
    <3>2. ~Trips(health[f]) /\ h.state = health[f].state /\ h.failures = Bumped(health[f])
      BY <1>0, <2>3, <3>1, FailureResult
    <3>3. QED
      BY <1>0, <3>1, <3>2, WindowsAssumption
      DEF Trips, Bumped, Lesser, Record, FailureThreshold
  <2>4. QED
    BY <2>2, <2>3
<1>4. ASSUME NEW t \in Thread, InsertCooling(t) PROVE health'[f].failures < FailureThreshold
  BY <1>0, <1>1, <1>4 DEF InsertCooling, Store, TypeOK, AfterRetryAfter
<1>5. ASSUME NEW t \in Thread, NEW e \in Endpoint, MarkProbing(t, e)
      PROVE  health'[f].failures < FailureThreshold
  BY <1>0, <1>1, <1>5 DEF MarkProbing, Store, TypeOK, AfterProbing, Record
<1>6. ASSUME NEW t \in Thread, NEW e \in Endpoint, ReadHealth(t, e)
      PROVE  health'[f].failures < FailureThreshold
  BY <1>0, <1>1, <1>6 DEF ReadHealth, Store, TypeOK, AfterRead, Expired, IsCooling, Record
<1>7. CASE Tick
  BY <1>0, <1>7 DEF Tick, TypeOK, AfterTick, Record
<1>8. CASE UNCHANGED health
  BY <1>1, <1>8
<1>9. QED
  BY <1>2, <1>3, <1>4, <1>5, <1>6, <1>7, <1>8
  DEF Next, Continue, Register, CountNew, ReadCooling, CountCooling, UncountCooling, vars

(* An endpoint taken for healthy has failed fewer than three times in a    *)
(* row, for any number of threads and endpoints.                           *)
THEOREM ThreeStrikesAlways == Spec => []ThreeStrikes
<1>1. Init => ThreeStrikes
  BY DEF Init, ThreeStrikes, Default, FailureThreshold
<1>2. QED
  BY <1>1, ThreeStrikesStep, TypeCorrect, PTL DEF Spec

-----------------------------------------------------------------------------
(* The registry implements the circuit breaker: each step that stores a    *)
(* record is one transition of its breaker, and the others stutter.        *)

Strikes(h) == Lesser(h.failures, FailureThreshold)
Due(h) == h.state = "cooling" /\ h.left = 0

(* The breaker of an endpoint is read off its record.                      *)
LEMMA BreakerOf ==
  ASSUME NEW e \in Endpoint
  PROVE  /\ [f \in Endpoint |-> Phase(health[f])][e] = Phase(health[e])
         /\ [f \in Endpoint |-> Lesser(health[f].failures, FailureThreshold)][e]
              = Strikes(health[e])
         /\ [f \in Endpoint |-> health[f].state = "cooling" /\ health[f].left = 0][e]
              = Due(health[e])
BY DEF Strikes, Due

(* Storing one record is setting one breaker.                              *)
LEMMA StoreIsSet ==
  ASSUME TypeOK, NEW e \in Endpoint, NEW h \in Record, Store(e, h)
  PROVE  B!Set(e, Phase(h), Strikes(h), Due(h))
BY DEF B!Set, Store, TypeOK, Strikes, Due

(* A step that stores no record changes no breaker.                        *)
LEMMA UnchangedIsStutter == UNCHANGED health => UNCHANGED B!vars
BY DEF B!vars

(* A failure is a strike below the threshold and a trip from it on.        *)
LEMMA FailureRefines ==
  ASSUME TypeOK, NEW e \in Endpoint, NEW h \in AfterFailure(health[e]), Store(e, h)
  PROVE  B!Strike(e) \/ B!Trip(e)
<1> USE WindowsAssumption DEF FailureThreshold
<1>0. health[e] \in Record
  BY DEF TypeOK
<1>1. h \in Record /\ h.failures = Bumped(health[e])
  BY <1>0, FailureResult
<1>2. B!Set(e, Phase(h), Strikes(h), Due(h))
  BY <1>1, StoreIsSet
<1>3. B!Struck(e) = Strikes(h)
  BY <1>0, <1>1 DEF B!Struck, Strikes, Bumped, Lesser, Record
<1>4. CASE Trips(health[e])
  <2>1. Phase(h) = "open" /\ Due(h) = FALSE
    BY <1>0, <1>1, <1>4, FailureResult DEF Phase, Due
  <2>2. Phase(health[e]) = "halfopen" \/ B!Struck(e) >= FailureThreshold
    BY <1>0, <1>4 DEF Trips, B!Struck, Lesser, Record, Phase
  <2>3. QED
    BY <1>2, <1>3, <2>1, <2>2 DEF B!Trip
<1>5. CASE ~Trips(health[e])
  <2>1. h.state = health[e].state /\ h.left = health[e].left
    BY <1>0, <1>5, FailureResult
  <2>2. Phase(health[e]) # "halfopen" /\ B!Struck(e) < FailureThreshold
    BY <1>0, <1>5 DEF Trips, B!Struck, Lesser, Record, Phase, HealthState
  <2>3. Phase(h) = Phase(health[e]) /\ Due(h) = Due(health[e])
    BY <2>1 DEF Phase, Due
  <2>4. QED
    BY <1>2, <1>3, <2>2, <2>3, BreakerOf DEF B!Strike, B!Set
<1>6. QED
  BY <1>4, <1>5

(* Time passing ends windows and does nothing else to a breaker.           *)
LEMMA TickRefines ==
  ASSUME TypeOK, Tick
  PROVE  B!Elapse
<1> DEFINE over == {e \in Endpoint : IsCooling(health[e]) /\ health[e].left <= 1}
<1>1. \A e \in Endpoint : /\ health[e] \in Record
                         /\ health'[e] = AfterTick(health[e])
  BY DEF Tick, TypeOK
<1>2. \A e \in Endpoint : /\ health'[e].state = health[e].state
                         /\ health'[e].failures = health[e].failures
                         /\ Due(health'[e]) = (Due(health[e]) \/ e \in over)
  <2> SUFFICES ASSUME NEW e \in Endpoint
               PROVE  /\ health'[e].state = health[e].state
                      /\ health'[e].failures = health[e].failures
                      /\ Due(health'[e]) = (Due(health[e]) \/ e \in over)
    OBVIOUS
  <2>1. /\ health'[e].state = health[e].state
        /\ health'[e].failures = health[e].failures
        /\ health'[e].left = IF health[e].left > 0 THEN health[e].left - 1 ELSE 0
        /\ health[e].left \in Nat
    BY <1>1 DEF AfterTick, Record
  <2>2. CASE health[e].state = "cooling"
    BY <2>1, <2>2 DEF Due, IsCooling
  <2>3. CASE health[e].state # "cooling"
    BY <2>1, <2>3 DEF Due, IsCooling
  <2>4. QED
    BY <2>1, <2>2, <2>3
<1>3. over \in SUBSET {e \in Endpoint : Phase(health[e]) = "open"}
  BY DEF IsCooling, Phase
<1>4. [e \in Endpoint |-> Due(health[e])]' =
      [e \in Endpoint |-> Due(health[e]) \/ e \in over]
  BY <1>2
<1>5. UNCHANGED <<[e \in Endpoint |-> Phase(health[e])],
                  [e \in Endpoint |-> Lesser(health[e].failures, FailureThreshold)]>>
  <2>1. \A e \in Endpoint : Phase(health'[e]) = Phase(health[e])
    BY <1>2 DEF Phase
  <2>2. QED
    BY <1>2, <2>1
<1> HIDE DEF over
<1>6. QED
  BY <1>3, <1>4, <1>5 DEF B!Elapse, Due

(* Every step of the registry is a step of the breakers, or none.          *)
LEMMA BreakerStep == TypeOK /\ [Next]_vars => [B!Next]_(B!vars)
<1> SUFFICES ASSUME TypeOK, [Next]_vars PROVE B!Next \/ UNCHANGED B!vars
  OBVIOUS
<1>1. ASSUME NEW t \in Thread, ApplySuccess(t) PROVE B!Next \/ UNCHANGED B!vars
  <2>1. call[t].id \in Endpoint
    BY <1>1 DEF ApplySuccess, IsCall, At, TypeOK, Call, Idle
  <2>2. CASE call[t].id \in known
    <3>1. PICK e \in Endpoint : Store(e, Default)
      BY <1>1, <2>1, <2>2 DEF ApplySuccess, AfterSuccess, Store
    <3>2. Default \in Record
      BY <2>1, RecordsStayRecords DEF TypeOK
    <3>3. PICK h \in Record : h = Default
      BY <3>2
    <3>4. B!Set(e, Phase(h), Strikes(h), Due(h))
      BY <3>1, <3>3, StoreIsSet
    <3>5. Phase(h) = "closed" /\ Strikes(h) = 0 /\ Due(h) = FALSE
      BY <3>3 DEF Phase, Strikes, Due, Default, Lesser, FailureThreshold
    <3>6. B!Close(e)
      BY <3>4, <3>5 DEF B!Close
    <3>7. QED
      BY <3>6 DEF B!Next
  <2>3. CASE call[t].id \notin known
    BY <1>1, <2>3, UnchangedIsStutter DEF ApplySuccess
  <2>4. QED
    BY <2>2, <2>3
<1>2. ASSUME NEW t \in Thread, ApplyFailure(t) PROVE B!Next \/ UNCHANGED B!vars
  <2>1. call[t].id \in Endpoint
    BY <1>2 DEF ApplyFailure, IsCall, At, TypeOK, Call, Idle
  <2>2. PICK h \in AfterFailure(health[call[t].id]) : Store(call[t].id, h)
    BY <1>2 DEF ApplyFailure
  <2>3. QED
    BY <2>1, <2>2, FailureRefines DEF B!Next
<1>3. ASSUME NEW t \in Thread, InsertCooling(t) PROVE B!Next \/ UNCHANGED B!vars
  <2>1. call[t].id \in Endpoint
    BY <1>3 DEF InsertCooling, At, TypeOK, Call, Idle
  <2>2. PICK secs \in RetryAfters : Store(call[t].id, AfterRetryAfter(secs))
    BY <1>3 DEF InsertCooling
  <2> DEFINE h == AfterRetryAfter(secs)
  <2>3. h \in Record
    BY <2>1, RecordsStayRecords DEF TypeOK
  <2>4. B!Set(call[t].id, Phase(h), Strikes(h), Due(h))
    BY <2>1, <2>2, <2>3, StoreIsSet
  <2>5. Phase(h) = "open" /\ Strikes(h) = 1 /\ Due(h) \in BOOLEAN
    BY DEF AfterRetryAfter, Phase, Strikes, Due, Lesser, FailureThreshold
  <2>6. B!Pause(call[t].id)
    BY <2>4, <2>5 DEF B!Pause
  <2>7. QED
    BY <2>1, <2>6 DEF B!Next
<1>4. ASSUME NEW t \in Thread, NEW e \in Endpoint, MarkProbing(t, e)
      PROVE  B!Next \/ UNCHANGED B!vars
  <2>0. health[e] \in Record /\ AfterProbing(health[e]) \in Record
    BY RecordsStayRecords DEF TypeOK
  <2>1. PICK h \in Record : h = AfterProbing(health[e])
    BY <2>0
  <2>2. B!Set(e, Phase(h), Strikes(h), Due(h))
    <3>1. Store(e, h)
      BY <1>4, <2>1 DEF MarkProbing, Store
    <3>2. QED
      BY <3>1, StoreIsSet
  <2>3. Phase(h) = "open" /\ Strikes(h) = Strikes(health[e]) /\ Due(h) = FALSE
    BY <2>0, <2>1, WindowsAssumption DEF AfterProbing, Phase, Strikes, Due, Record
  <2>4. Phase(health[e]) = "halfopen"
    BY <1>4 DEF MarkProbing, Phase
  <2>5. B!Probe(e)
    BY <2>2, <2>3, <2>4, BreakerOf DEF B!Probe, B!Set
  <2>6. QED
    BY <2>5 DEF B!Next
<1>5. ASSUME NEW t \in Thread, NEW e \in Endpoint, ReadHealth(t, e)
      PROVE  B!Next \/ UNCHANGED B!vars
  <2>0. health[e] \in Record /\ AfterRead(health[e]) \in Record
    BY RecordsStayRecords DEF TypeOK
  <2>1. PICK h \in Record : h = AfterRead(health[e])
    BY <2>0
  <2>2. B!Set(e, Phase(h), Strikes(h), Due(h))
    <3>1. Store(e, h)
      BY <1>5, <2>1 DEF ReadHealth, Store
    <3>2. QED
      BY <3>1, StoreIsSet
  <2>3. Expired(health[e])
    BY <1>5 DEF ReadHealth
  <2>4. Phase(h) = "halfopen" /\ Strikes(h) = Strikes(health[e]) /\ Due(h) = FALSE
    BY <2>0, <2>1, <2>3 DEF AfterRead, Phase, Strikes, Due, Record
  <2>5. Phase(health[e]) = "open" /\ Due(health[e])
    BY <2>3 DEF Expired, IsCooling, Phase, Due
  <2>6. B!HalfOpen(e)
    BY <2>2, <2>4, <2>5, BreakerOf DEF B!HalfOpen, B!Set
  <2>7. QED
    BY <2>6 DEF B!Next
<1>6. CASE Tick
  BY <1>6, TickRefines DEF B!Next
<1>7. CASE UNCHANGED health
  BY <1>7, UnchangedIsStutter
<1>8. QED
  BY <1>1, <1>2, <1>3, <1>4, <1>5, <1>6, <1>7
  DEF Next, Continue, Register, CountNew, ReadCooling, CountCooling, UncountCooling, vars

(* For any number of threads, endpoints and providers, the records of the  *)
(* registry move as the circuit breakers of module Breaker.                *)
THEOREM ImplementsBreaker == Spec => BreakerSpec
<1>1. Init => B!Init
  <2> SUFFICES ASSUME Init PROVE B!Init
    OBVIOUS
  <2>1. \A e \in Endpoint : health[e] = Default
    BY DEF Init
  <2>2. Phase(Default) = "closed" /\ Strikes(Default) = 0 /\ Due(Default) = FALSE
    BY DEF Phase, Strikes, Due, Default, Lesser, FailureThreshold
  <2>3. \A e \in Endpoint : /\ Phase(health[e]) = "closed"
                           /\ Strikes(health[e]) = 0
                           /\ Due(health[e]) = FALSE
    BY <2>1, <2>2
  <2>4. QED
    BY <2>3 DEF B!Init, Strikes, Due
<1>2. QED
  BY <1>1, BreakerStep, TypeCorrect, PTL DEF Spec, BreakerSpec, B!Spec

-----------------------------------------------------------------------------
(* Counting.  An endpoint is paid for from the moment a call has counted   *)
(* it, or found it known, until it has a record: the total covers every    *)
(* endpoint that is paid for, and not only those known.                    *)

PaidFor(p) ==
  {e \in Of(p) : \/ e \in known
                 \/ \E t \in Thread : call[t].at \in {"apply", "insert"} /\ call[t].id = e}
TotalCoversPaid == \A p \in Provider : total[p] >= Cardinality(PaidFor(p))

(* The endpoints of a provider that are paid for are finitely many.        *)
LEMMA PaidForFinite ==
  ASSUME NEW p \in Provider
  PROVE  IsFiniteSet(PaidFor(p)) /\ Cardinality(PaidFor(p)) \in Nat
<1>1. PaidFor(p) \subseteq Endpoint
  BY DEF PaidFor, Of
<1>2. QED
  BY <1>1, RegistryAssumption, FS_Subset, FS_CardinalityType

(* A step pays for at most one endpoint more, and counts it if so.         *)
LEMMA PaidForGrows ==
  ASSUME TypeOK, [Next]_vars, NEW p \in Provider
  PROVE  \/ PaidFor(p)' \subseteq PaidFor(p) /\ total'[p] >= total[p]
         \/ \E e \in Endpoint : /\ PaidFor(p)' \subseteq PaidFor(p) \cup {e}
                               /\ total'[p] = total[p] + 1
<1> DEFINE Kept == PaidFor(p)' \subseteq PaidFor(p) /\ total'[p] >= total[p]
<1> USE DEF PaidFor, Of, TypeOK, At, IsCall, Call, Idle, Step
<1>1. ASSUME NEW t \in Thread, NEW e \in Endpoint, NEW op \in Registering, Register(t, e, op)
      PROVE  Kept
  BY <1>1 DEF Register
<1>2. ASSUME NEW t \in Thread, CountNew(t)
      PROVE  Kept \/ \E e \in Endpoint : /\ PaidFor(p)' \subseteq PaidFor(p) \cup {e}
                                        /\ total'[p] = total[p] + 1
  <2>1. call[t] \in Call
    BY <1>2 DEF CountNew
  <2>2. \A u \in Thread : u # t => call'[u] = call[u]
    BY <1>2 DEF CountNew, GoTo
  <2>3. call'[t].id = call[t].id /\ known' = known
    BY <1>2, <2>1 DEF CountNew, GoTo
  <2>4. PaidFor(p)' \subseteq PaidFor(p) \cup {e \in Of(p) : e = call[t].id}
    BY <2>2, <2>3
  <2>5. CASE ProviderOf[call[t].id] = p
    <3>1. total'[p] = total[p] + 1
      BY <1>2, <2>1, <2>5 DEF CountNew
    <3>2. QED
      BY <2>1, <2>4, <3>1
  <2>6. CASE ProviderOf[call[t].id] # p
    <3>1. total'[p] = total[p]
      BY <1>2, <2>1, <2>6 DEF CountNew
    <3>2. PaidFor(p)' \subseteq PaidFor(p)
      BY <2>4, <2>6
    <3>3. QED
      BY <3>1, <3>2
  <2>7. QED
    BY <2>5, <2>6
<1>3. ASSUME NEW t \in Thread, ApplySuccess(t) PROVE Kept
  <2>1. \A u \in Thread : u # t => call'[u] = call[u]
    BY <1>3 DEF ApplySuccess, Return, Recount
  <2>2. call'[t].at \notin {"apply", "insert"}
    BY <1>3 DEF ApplySuccess, Return, Recount
  <2>3. QED
    BY <1>3, <2>1, <2>2 DEF ApplySuccess
<1>4. ASSUME NEW t \in Thread, ApplyFailure(t) PROVE Kept
  <2>1. \A u \in Thread : u # t => call'[u] = call[u]
    BY <1>4 DEF ApplyFailure, Return
  <2>2. call'[t].at \notin {"apply", "insert"}
    BY <1>4 DEF ApplyFailure, Return
  <2>3. known' = known \cup {call[t].id} /\ call[t].at = "apply"
    BY <1>4 DEF ApplyFailure
  <2>4. QED
    BY <1>4, <2>1, <2>2, <2>3 DEF ApplyFailure
<1>5. ASSUME NEW t \in Thread, ReadCooling(t) PROVE Kept
  <2>1. call[t] \in Call
    BY <1>5 DEF ReadCooling
  <2>2. \A u \in Thread : u # t => call'[u] = call[u]
    BY <1>5 DEF ReadCooling
  <2>3. call'[t].id = call[t].id /\ call[t].at = "apply"
    BY <1>5, <2>1 DEF ReadCooling
  <2>4. QED
    BY <1>5, <2>2, <2>3 DEF ReadCooling
<1>6. ASSUME NEW t \in Thread, InsertCooling(t) PROVE Kept
  <2>1. \A u \in Thread : u # t => call'[u] = call[u]
    BY <1>6 DEF InsertCooling, Return, Recount
  <2>2. call'[t].at \notin {"apply", "insert"}
    BY <1>6 DEF InsertCooling, Return, Recount
  <2>3. known' = known \cup {call[t].id} /\ call[t].at = "insert"
    BY <1>6 DEF InsertCooling
  <2>4. QED
    BY <1>6, <2>1, <2>2, <2>3 DEF InsertCooling
<1>7. ASSUME NEW t \in Thread, NEW e \in Endpoint, MarkProbing(t, e) \/ ReadHealth(t, e)
      PROVE  Kept
  BY <1>7 DEF MarkProbing, ReadHealth, Recount
<1>8. ASSUME NEW t \in Thread, CountCooling(t) \/ UncountCooling(t) PROVE Kept
  BY <1>8 DEF CountCooling, UncountCooling, Return
<1>9. CASE Tick \/ UNCHANGED vars
  BY <1>9 DEF Tick, vars
<1>10. QED
  BY <1>1, <1>2, <1>3, <1>4, <1>5, <1>6, <1>7, <1>8, <1>9 DEF Next, Continue

(* The total keeps covering the endpoints paid for.                        *)
LEMMA TotalCoversStep == TypeOK /\ TotalCoversPaid /\ [Next]_vars => TotalCoversPaid'
<1> SUFFICES ASSUME TypeOK, TotalCoversPaid, [Next]_vars, NEW p \in Provider
             PROVE  total'[p] >= Cardinality(PaidFor(p)')
  BY DEF TotalCoversPaid
<1>0. /\ total[p] \in Nat /\ total[p] >= Cardinality(PaidFor(p))
      /\ total'[p] \in Nat
  BY TypeStep DEF TypeOK, TotalCoversPaid
<1>1. IsFiniteSet(PaidFor(p)) /\ Cardinality(PaidFor(p)) \in Nat
  BY PaidForFinite
<1>2. CASE PaidFor(p)' \subseteq PaidFor(p) /\ total'[p] >= total[p]
  <2>1. Cardinality(PaidFor(p)') \in Nat /\ Cardinality(PaidFor(p)') <= Cardinality(PaidFor(p))
    BY <1>1, <1>2, FS_Subset, FS_CardinalityType
  <2>2. QED
    BY <1>0, <1>1, <1>2, <2>1
<1>3. ASSUME NEW e \in Endpoint, PaidFor(p)' \subseteq PaidFor(p) \cup {e},
             total'[p] = total[p] + 1
      PROVE  total'[p] >= Cardinality(PaidFor(p)')
  <2>1. /\ IsFiniteSet(PaidFor(p) \cup {e})
        /\ Cardinality(PaidFor(p) \cup {e}) \in Nat
        /\ Cardinality(PaidFor(p) \cup {e}) <= Cardinality(PaidFor(p)) + 1
    <3>1. /\ IsFiniteSet(PaidFor(p) \cup {e})
          /\ \/ Cardinality(PaidFor(p) \cup {e}) = Cardinality(PaidFor(p))
             \/ Cardinality(PaidFor(p) \cup {e}) = Cardinality(PaidFor(p)) + 1
      BY <1>1, FS_AddElement
    <3>2. QED
      BY <1>1, <3>1
  <2>2. Cardinality(PaidFor(p)') \in Nat /\ Cardinality(PaidFor(p)') <= Cardinality(PaidFor(p) \cup {e})
    BY <1>3, <2>1, FS_Subset, FS_CardinalityType
  <2>3. QED
    BY <1>0, <1>1, <1>3, <2>1, <2>2
<1>4. QED
  BY <1>2, <1>3, PaidForGrows

(* No endpoint has a record that was not counted, whatever calls overlap.  *)
THEOREM TotalCoversKnownAlways == Spec => []TotalCoversKnown
<1>1. Init => TotalCoversPaid
  <2> SUFFICES ASSUME Init, NEW p \in Provider PROVE total[p] >= Cardinality(PaidFor(p))
    BY DEF TotalCoversPaid
  <2>0. known = {} /\ \A t \in Thread : call[t].at = "idle"
    BY DEF Init, Idle
  <2>1. PaidFor(p) = {}
    BY <2>0 DEF PaidFor
  <2>2. Cardinality(PaidFor(p)) = 0
    BY <2>1, FS_EmptySet
  <2>3. QED
    BY <2>2 DEF Init
<1>2. TypeOK /\ TotalCoversPaid => TotalCoversKnown
  <2> SUFFICES ASSUME TypeOK, TotalCoversPaid, NEW p \in Provider
               PROVE  total[p] >= Cardinality(known \cap Of(p))
    BY DEF TotalCoversKnown
  <2>1. known \cap Of(p) \subseteq PaidFor(p)
    BY DEF PaidFor
  <2>2. /\ Cardinality(known \cap Of(p)) \in Nat
        /\ Cardinality(known \cap Of(p)) <= Cardinality(PaidFor(p))
        /\ Cardinality(PaidFor(p)) \in Nat
    BY <2>1, PaidForFinite, FS_Subset, FS_CardinalityType
  <2>3. QED
    BY <2>2 DEF TotalCoversPaid, TypeOK
<1>3. QED
  BY <1>1, <1>2, TotalCoversStep, TypeCorrect, PTL DEF Spec
=============================================================================
