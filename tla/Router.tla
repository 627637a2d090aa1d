------------------------------- MODULE Router -------------------------------
(***************************************************************************)
(* route_openai_request (crates/xrouter-server/src/lib.rs), for providers  *)
(* with API keys: concurrent requests, each failing over along its         *)
(* candidates, share the health of the endpoints and the quarantine of the *)
(* keys.  Calls into the balancer are atomic here; HealthRegistry and      *)
(* KeyRings have their interleavings.  Of next_key this module assumes     *)
(* what KeyRings checks: if some key is neither dead nor banned, such a    *)
(* key is handed out, whichever the cursor has come to.  The counters      *)
(* behind is_provider_degraded drift (HealthRegistry), so either verdict   *)
(* is possible.  Metrics, tracking and bodies are left out, and requests   *)
(* turned away before they are routed: they touch nothing modelled here.   *)
(* A request waits for the lock of the device store once, to count the     *)
(* accounts, also if all of its candidates have keys; who holds that lock  *)
(* while a token is refreshed is in DeviceAccounts.                        *)
(* handle_images_generations is the same loop written out again, with a    *)
(* longer time limit: a request here may be of either kind.                *)
(***************************************************************************)
EXTENDS EndpointHealth, Candidates

CONSTANTS
  Provider, Key, Request,
  NoKey,         (* What a request holds before it has picked a key.       *)
  ProviderOf,    (* The provider of an endpoint.                           *)
  KeysOf,        (* The keys of a provider.                                *)
  Tiers,         (* What a request may resolve to: the tiers, and a tier   *)
                 (* of one entry for each directly addressed model.        *)
  OffSets,       (* The sets of providers that the configurations which    *)
                 (* reloads publish disable.                               *)
  Worlds,        (* Bounds the model: which endpoint and key pairs serve.  *)
  Histories,     (* Bounds the model: the health that is left of the past. *)
  MaxRequests    (* Bounds the model: requests that ever arrive.           *)

Pairs == {ek \in Endpoint \X Key : ek[2] \in KeysOf[ProviderOf[ek[1]]]}

ASSUME RouterAssumption ==
  /\ ProviderOf \in [Endpoint -> Provider]
  /\ KeysOf \in [Provider -> SUBSET Key]
  /\ \A p \in Provider : IsFiniteSet(KeysOf[p])
  /\ \A tier \in Tiers : tier.entries \in Seq([endpoint : Endpoint, weight : Nat])
  /\ OffSets \subseteq SUBSET Provider
  /\ Worlds \subseteq SUBSET Pairs
  /\ Histories \subseteq [Endpoint -> Record]
  /\ NoKey \notin Key
  /\ MaxRequests \in Nat

VARIABLES
  sound,         (* The pairs of an endpoint and a key that always answer  *)
                 (* 2xx.  It never changes; other pairs answer anything.   *)
  health,        (* The endpoints' health records.                         *)
  dead,          (* dead_keys.                                             *)
  banned,        (* The <<provider, key>> entries of banned_keys in force. *)
  arrived,       (* How many requests have arrived.                        *)
  req,           (* The requests under way.                                *)
  spared         (* History: the <<provider, key>> pairs that have been    *)
                 (* usable ever since a request arrived.                   *)

vars == <<sound, health, dead, banned, arrived, req>>

Usable(p) == {k \in KeysOf[p] : k \notin dead /\ <<p, k>> \notin banned}
UsablePairs == {pk \in Provider \X Key : pk[2] \in Usable(pk[1])}

Status == {"ok", "unauthorized", "timeout", "quota", "unavailable"}
Idle == [pc |-> "idle"]
Routing ==
  [pc : {"count", "pick", "claim", "wait", "answered"},
   tier : Tiers,
   route : Seq(Endpoint),        (* The candidates, in order.              *)
   off : SUBSET Provider,        (* Disabled in its copy of the config.    *)
   at : Nat, attempt : Nat,      (* Its place in them, attempts counted.   *)
   key : Key \cup {NoKey},
   probing : BOOLEAN,            (* It found the endpoint half-open.       *)
   last : Status]                (* What its last error, or answer, gives. *)

At(r, pc) == req[r].pc = pc
Target(r) == req[r].route[req[r].at]
Source(r) == ProviderOf[Target(r)]
Looking(r) == req[r].pc \in {"count", "pick"}
Trying(r) == req[r].pc \in {"claim", "wait"}

TypeOK ==
  /\ sound \subseteq Pairs
  /\ health \in [Endpoint -> Record]
  /\ dead \subseteq Key
  /\ banned \subseteq Provider \X Key
  /\ arrived \in 0..MaxRequests
  /\ spared \in [Request -> SUBSET (Provider \X Key)]
  /\ req \in [Request -> Routing \cup {Idle}]
  /\ \A r \in Request :
       /\ Looking(r) => req[r].attempt < req[r].at /\ req[r].at <= Len(req[r].route) + 1
       /\ Trying(r) => req[r].at \in DOMAIN req[r].route /\ req[r].key \in KeysOf[Source(r)]

Init ==
  /\ sound \in Worlds
  /\ health \in Histories
  /\ dead = {}
  /\ banned = {}
  /\ arrived = 0
  /\ req = [r \in Request |-> Idle]
  /\ spared = [r \in Request |-> {}]

-----------------------------------------------------------------------------
Store(e, h) == health' = [health EXCEPT ![e] = h]

(* The request keeps the configuration that is current when it arrives.    *)
(* snapshot_states reads the health of every entry, which moves expired    *)
(* windows to half-open, before the order is made; no entries is answered  *)
(* at once.                                                                *)
Arrive(r) ==
  /\ At(r, "idle")
  /\ arrived < MaxRequests
  /\ arrived' = arrived + 1
  /\ \E tier \in Tiers, off \in OffSets, degraded \in SUBSET Endpoint :
       LET listed == {tier.entries[i].endpoint : i \in Positions(tier)}
           read   == [e \in Endpoint |-> IF e \in listed THEN AfterRead(health[e]) ELSE health[e]]
           order  == Ordered(tier, {e \in listed : IsCooling(read[e])}, degraded)
       IN
       /\ degraded \subseteq listed
       /\ health' = read
       /\ req' = [req EXCEPT ![r] =
            [pc |-> IF order = <<>> THEN "answered" ELSE "count", tier |-> tier,
             route |-> [i \in DOMAIN order |-> tier.entries[order[i]].endpoint],
             off |-> off, at |-> 1, attempt |-> 0,
             key |-> NoKey, probing |-> FALSE, last |-> "unavailable"]]
  /\ UNCHANGED <<sound, dead, banned>>

(* device_counts: the request gets the lock of the device store, counts,   *)
(* and lets go; with no store there is nothing to wait for.                *)
CountAccounts(r) ==
  /\ At(r, "count")
  /\ req' = [req EXCEPT ![r].pc = "pick"]
  /\ UNCHANGED <<sound, health, dead, banned, arrived>>

(* keys_per_provider and max_attempts.                                     *)
KeysPerProvider(r) ==
  LET counts == {1} \cup {Cardinality(KeysOf[ProviderOf[req[r].route[i]]]) : i \in DOMAIN req[r].route}
  IN CHOOSE n \in counts : \A m \in counts : m <= n

MaxAttempts(r) == Len(req[r].route) * KeysPerProvider(r)

(* Mutant: an entry that is passed over is looked at again.                *)
PassOverForEver(r, last) ==
  req' = [req EXCEPT ![r].pc = "pick", ![r].last = last]

(* The loop goes on to the next candidate, after an attempt or without.    *)
PassOver(r, last) ==
  req' = [req EXCEPT ![r].pc = "pick", ![r].at = @ + 1, ![r].last = last]

(* Mutant: the attempt is counted, the candidate stays the same.           *)
SameCandidate(r, last) ==
  req' = [req EXCEPT ![r].pc = "pick", ![r].attempt = @ + 1,
                     ![r].key = NoKey, ![r].probing = FALSE, ![r].last = last]

NextCandidate(r, last) ==
  req' = [req EXCEPT ![r].pc = "pick", ![r].at = @ + 1, ![r].attempt = @ + 1,
                     ![r].key = NoKey, ![r].probing = FALSE, ![r].last = last]

(* The same, or past the last candidate if the attempts are used up.       *)
NextOrStop(r, last) ==
  LET stop == req[r].attempt + 1 >= MaxAttempts(r) IN
  req' = [req EXCEPT ![r].pc = "pick",
                     ![r].at = IF stop THEN Len(req[r].route) + 1 ELSE @ + 1,
                     ![r].attempt = @ + 1,
                     ![r].key = NoKey, ![r].probing = FALSE, ![r].last = last]

(* The answer of a request, which is no longer on any candidate.           *)
Finish(r, last) ==
  req' = [req EXCEPT ![r].pc = "answered", ![r].at = 1, ![r].attempt = 0,
                     ![r].key = NoKey, ![r].probing = FALSE, ![r].last = last]

InLoop(r) == req[r].at <= Len(req[r].route) /\ req[r].at <= MaxAttempts(r)

SkipDisabled(r) ==
  /\ At(r, "pick") /\ InLoop(r)
  /\ Source(r) \in req[r].off
  /\ PassOver(r, req[r].last)
  /\ UNCHANGED <<sound, health, dead, banned, arrived>>

(* next_key answers None.                                                  *)
SkipKeyless(r) ==
  /\ At(r, "pick") /\ InLoop(r)
  /\ Source(r) \notin req[r].off
  /\ Usable(Source(r)) = {}
  /\ PassOver(r, "unauthorized")
  /\ UNCHANGED <<sound, health, dead, banned, arrived>>

(* next_key, and is_half_open, which only looks at the endpoint's state.   *)
PickKey(r) ==
  LET halfOpen == health[Target(r)].state = "halfopen" IN
  /\ At(r, "pick") /\ InLoop(r)
  /\ Source(r) \notin req[r].off
  /\ \E k \in Usable(Source(r)) :
       req' = [req EXCEPT ![r].pc = IF halfOpen THEN "claim" ELSE "wait",
                          ![r].key = k, ![r].probing = halfOpen]
  /\ UNCHANGED <<sound, health, dead, banned, arrived>>

(* Mutant: mark_probing parks the endpoint whatever its state is by then.  *)
ClaimBlindly(r) ==
  /\ At(r, "claim")
  /\ Store(Target(r), AfterProbing(health[Target(r)]))
  /\ req' = [req EXCEPT ![r].pc = "wait"]
  /\ UNCHANGED <<sound, dead, banned, arrived>>

(* mark_probing, in a step of its own; the request is sent either way.     *)
ClaimProbe(r) ==
  LET h == health[Target(r)] IN
  /\ At(r, "claim")
  /\ Store(Target(r), IF h.state = "halfopen" THEN AfterProbing(h) ELSE h)
  /\ req' = [req EXCEPT ![r].pc = "wait"]
  /\ UNCHANGED <<sound, dead, banned, arrived>>

-----------------------------------------------------------------------------
(* The upstream's answer, or the lack of one for 15 s.                     *)
Serves(r) == <<Target(r), req[r].key>> \in sound

(* 2xx.                                                                    *)
Succeed(r) ==
  /\ At(r, "wait")
  /\ Store(Target(r), AfterSuccess(health[Target(r)]))
  /\ Finish(r, "ok")
  /\ UNCHANGED <<sound, dead, banned, arrived>>

(* Mutant: the failure is charged to the first candidate.                  *)
FailElsewhere(r) ==
  /\ At(r, "wait") /\ ~Serves(r)
  /\ \E h \in AfterFailure(health[req[r].route[1]]) : Store(req[r].route[1], h)
  /\ \E last \in {"unavailable", "timeout"} : NextOrStop(r, last)
  /\ UNCHANGED <<sound, dead, banned, arrived>>

(* No answer, a transport error, 5xx (among them a 504) or 408.            *)
Fail(r) ==
  /\ At(r, "wait") /\ ~Serves(r)
  /\ \E h \in AfterFailure(health[Target(r)]) : Store(Target(r), h)
  /\ \E last \in {"unavailable", "timeout"} : NextOrStop(r, last)
  /\ UNCHANGED <<sound, dead, banned, arrived>>

(* 401 or 403: the key is dead, for every provider that has it.            *)
RejectKey(r) ==
  /\ At(r, "wait") /\ ~Serves(r)
  /\ dead' = dead \cup {req[r].key}
  /\ NextCandidate(r, "unauthorized")
  /\ UNCHANGED <<sound, health, banned, arrived>>

(* 429: a ban, and a cooling window if Retry-After is a number, a failure  *)
(* if there is none, nothing if it is a date.                              *)
Quota(r) ==
  LET e == Target(r) IN
  /\ At(r, "wait") /\ ~Serves(r)
  /\ banned' = banned \cup {<<Source(r), req[r].key>>}
  /\ \/ \E secs \in RetryAfters : Store(e, AfterRetryAfter(secs))
     \/ \E h \in AfterFailure(health[e]) : Store(e, h)
     \/ UNCHANGED health
  /\ NextCandidate(r, "quota")
  /\ UNCHANGED <<sound, dead, arrived>>

(* Any other status, or an adapter that panics: on to the next candidate.  *)
Other(r) ==
  /\ At(r, "wait") /\ ~Serves(r)
  /\ NextCandidate(r, "unavailable")
  /\ UNCHANGED <<sound, health, dead, banned, arrived>>

(* Past the last candidate: the tier is exhausted, and the answer is the   *)
(* status of the last error.                                               *)
Exhaust(r) ==
  /\ At(r, "pick") /\ ~InLoop(r)
  /\ Finish(r, req[r].last)
  /\ UNCHANGED <<sound, health, dead, banned, arrived>>

Leave(r) ==
  /\ At(r, "answered")
  /\ req' = [req EXCEPT ![r] = Idle]
  /\ UNCHANGED <<sound, health, dead, banned, arrived>>

-----------------------------------------------------------------------------
Tick ==
  /\ \E e \in Endpoint : health[e].left > 0
  /\ health' = [e \in Endpoint |-> AfterTick(health[e])]
  /\ UNCHANGED <<sound, dead, banned, arrived, req>>

BanExpires(pk) ==
  /\ pk \in banned
  /\ banned' = banned \ {pk}
  /\ UNCHANGED <<sound, health, dead, arrived, req>>

Continue(r) ==
  \/ SkipDisabled(r) \/ SkipKeyless(r) \/ PickKey(r)
  \/ ClaimProbe(r)   \/ Exhaust(r)

Answer(r) ==
  Succeed(r) \/ Fail(r) \/ RejectKey(r) \/ Quota(r) \/ Other(r)

Next ==
  \/ \E r \in Request : Arrive(r) \/ CountAccounts(r) \/ Continue(r) \/ Answer(r) \/ Leave(r)
  \/ Tick
  \/ \E pk \in Provider \X Key : BanExpires(pk)

Observe ==
  spared' = [r \in Request |->
    CASE At(r, "idle")'                      -> {}
      [] ~At(r, "idle")' /\ At(r, "idle")    -> UsablePairs'
      [] ~At(r, "idle")' /\ ~At(r, "idle")   -> spared[r] \cap UsablePairs']

(* A request runs on, and an attempt is answered or times out.  Nothing is *)
(* assumed of when the lock of the store is given up: whoever holds it may *)
(* be in a call to an identity provider, which has no time limit.          *)
Fairness ==
  \A r \in Request : WF_vars(Continue(r)) /\ WF_vars(Answer(r))

Spec == Init /\ [][Next /\ Observe]_<<vars, spared>>
FairSpec == Spec /\ Fairness
-----------------------------------------------------------------------------
Failed(r) == At(r, "answered") /\ req[r].last # "ok"
Offered(r) == {req[r].tier.entries[i].endpoint : i \in Positions(req[r].tier)}
Works(r, e, k) ==
  ProviderOf[e] \notin req[r].off /\ <<e, k>> \in sound /\ <<ProviderOf[e], k>> \in spared[r]

(* Safety: a request is refused only if none of its candidates would have  *)
(* served it with every key of its provider; neither a cooling window, nor *)
(* the cap on attempts, nor what other requests do to the shared health    *)
(* and keys makes a tier give up early (the loop of route_openai_request). *)
FailsOnlyIfNothingWorks ==
  \A r \in Request : Failed(r) =>
    \A e \in Offered(r) :
      KeysOf[ProviderOf[e]] # {} => \E k \in KeysOf[ProviderOf[e]] : ~Works(r, e, k)

(* Action property: failures of some endpoints and keys do no harm to      *)
(* others.  A healthy endpoint that always serves is never cooled, a key   *)
(* is banned only at a provider that turned it away ("only affects this    *)
(* provider", ban_key), and dies only if some provider turned it away.     *)
Flawed(e, k) == <<e, k>> \in Pairs \ sound
NoCollateral ==
  [][/\ \A e \in Endpoint :
          health[e].state = "healthy" /\ (\A k \in Key : ~Flawed(e, k)) =>
            health'[e].state = "healthy"
     /\ \A pk \in banned' \ banned : \E e \in Endpoint : ProviderOf[e] = pk[1] /\ Flawed(e, pk[2])
     /\ \A k \in dead' \ dead : \E e \in Endpoint : Flawed(e, k)]_vars

(* Refinement: between concurrent requests, each of which looks at an      *)
(* endpoint, claims it and settles it in separate steps, its record still  *)
(* behaves as a circuit breaker of its own (mark_probing looks again under *)
(* the lock at what is_half_open has seen).                                *)
OneBreaker(e) == INSTANCE Breaker WITH
       Endpoint <- {e},
       Threshold <- FailureThreshold,
       phase <- [d \in {e} |-> Phase(health[d])],
       strikes <- [d \in {e} |-> Lesser(health[d].failures, FailureThreshold)],
       due <- [d \in {e} |-> Expired(health[d])]

BreakerEach ==
  [][\A e \in Endpoint : [OneBreaker(e)!Next]_(OneBreaker(e)!vars)]_vars

(* Liveness: every request that arrives is answered, with no bound on what *)
(* the upstreams do wrong (each attempt has a timeout, the loop an end),   *)
(* unless it is the refresh of a device token, under the lock of the store,*)
(* that holds it for ever.                                                 *)
LockComes(r) == []<>~At(r, "count")
EveryRequestAnswered ==
  \A r \in Request : LockComes(r) => (~At(r, "idle") ~> At(r, "answered"))

(* Claim of the comments in route_openai_request, "retries only rotate     *)
(* keys" and "retrying each candidate entry once per available key": a     *)
(* request is refused only if no key would have served it.  The code       *)
(* violates it: a candidate is tried with one key.                         *)
RetriesRotateKeys ==
  \A r \in Request : Failed(r) =>
    \A e \in Offered(r), k \in Key : ~Works(r, e, k)
=============================================================================
