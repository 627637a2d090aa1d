------------------------------ MODULE KeyRings ------------------------------
(***************************************************************************)
(* Key rotation (Balancer::next_key and the key quarantine of              *)
(* crates/xrouter-balancer/src/lib.rs) under concurrent request attempts.  *)
(* A call of next_key takes no lock over the dead-key and ban maps and     *)
(* moves the cursor with a separate load and store, so the steps of two    *)
(* calls interleave; it does hold the provider's entry of `keyrings` until *)
(* it returns, so that no reload swaps the ring under it.                  *)
(*                                                                         *)
(* Time is abstracted: a ban has expired when its `left` is 0.             *)
(***************************************************************************)
EXTENDS Integers, Sequences, FiniteSets

CONSTANTS
  Provider,
  Key,           (* Key strings; providers may share one.                  *)
  Thread,        (* Request attempts under way at once.                    *)
  Rings,         (* Non-empty key lists a configuration can hold.          *)
  BanTicks,      (* Values of quota_ban_secs.                              *)
  MaxDead,       (* Bounds the model: no key dies when so many have.       *)
  MaxBans        (* Bounds the model: entries of banned_keys.              *)

ASSUME KeyRingsAssumption ==
  /\ Rings \subseteq Seq(Key) \ {<<>>}
  /\ BanTicks \subseteq Nat
  /\ MaxDead \in Nat
  /\ MaxBans \in Nat

VARIABLES
  ring,          (* The key list of each provider, <<>> for none.          *)
  cursor,        (* Where its next scan starts, counted from 0.            *)
  dead,          (* dead_keys: by key string alone, whoever rejected it.   *)
  banned,        (* The <<provider, key>> entries of banned_keys ...       *)
  left,          (* ... and the ticks each has left, 0 for no entry.       *)
  pick,          (* What each request attempt is doing.                    *)
  seen           (* History: the keys a call has seen alive and those it   *)
                 (* has seen free of a ban, each at some time, and the     *)
                 (* keys it has seen usable all the time.                  *)

vars == <<ring, cursor, dead, banned, left, pick>>

Idle == [at |-> "idle"]
Step == {"dead", "banned", "unban", "claim"}
Scanning == [at : Step, p : Provider, start : Nat, step : Nat]
Holding  == [at : {"holding"}, p : Provider, key : Key]

(* Every variable has its type, and a cursor points into its ring.         *)
TypeOK ==
  /\ ring \in [Provider -> Rings \cup {<<>>}]
  /\ cursor \in [Provider -> Nat]
  /\ \A p \in Provider : ring[p] # <<>> => cursor[p] < Len(ring[p])
  /\ dead \subseteq Key
  /\ banned \subseteq Provider \X Key
  /\ left \in [Provider \X Key -> Nat]
  /\ pick \in [Thread -> Scanning \cup Holding \cup {Idle}]
  /\ seen \in [Thread -> [alive : SUBSET Key, free : SUBSET Key, always : SUBSET Key]]

Nothing == [alive |-> {}, free |-> {}, always |-> {}]

Init ==
  /\ ring \in [Provider -> Rings \cup {<<>>}]
  /\ cursor = [p \in Provider |-> 0]
  /\ dead = {}
  /\ banned = {}
  /\ left = [b \in Provider \X Key |-> 0]
  /\ pick = [t \in Thread |-> Idle]
  /\ seen = [t \in Thread |-> Nothing]

-----------------------------------------------------------------------------
At(t, step) == pick[t].at = step
InScan(t) == pick[t].at \in Step
InCall(t, p) == InScan(t) /\ pick[t].p = p

(* The slot a scan has come to, counted from 0, and the key in it.         *)
Slot(t) == (pick[t].start + pick[t].step) % Len(ring[pick[t].p])
Candidate(t) == ring[pick[t].p][Slot(t) + 1]
Pair(t) == <<pick[t].p, Candidate(t)>>

InForce(b) == b \in banned /\ left[b] > 0
Alive == Key \ dead
Free(p) == {k \in Key : ~InForce(<<p, k>>)}
Usable(p) == Alive \cap Free(p)

GoTo(t, step) == pick' = [pick EXCEPT ![t].at = step]
Hold(t, p, k) == pick' = [pick EXCEPT ![t] = [at |-> "holding", p |-> p, key |-> k]]
Release(t) == pick' = [pick EXCEPT ![t] = Idle]

(* next_key: take the ring's entry and read the cursor.                    *)
Begin(t, p) ==
  /\ At(t, "idle")
  /\ ring[p] # <<>>
  /\ pick' = [pick EXCEPT ![t] = [at |-> "dead", p |-> p, start |-> cursor[p], step |-> 0]]
  /\ UNCHANGED <<ring, cursor, dead, banned, left>>

(* Mutant: the scan stops one slot short.                                  *)
SkipShort(t) ==
  IF pick[t].step + 2 >= Len(ring[pick[t].p])
  THEN Release(t)
  ELSE pick' = [pick EXCEPT ![t].at = "dead", ![t].step = @ + 1]

(* The slot is passed over; after the last one next_key returns None and   *)
(* leaves the cursor alone.                                                *)
Skip(t) ==
  IF pick[t].step + 1 = Len(ring[pick[t].p])
  THEN Release(t)
  ELSE pick' = [pick EXCEPT ![t].at = "dead", ![t].step = @ + 1]

CheckDead(t) ==
  /\ At(t, "dead")
  /\ IF Candidate(t) \in dead THEN Skip(t) ELSE GoTo(t, "banned")
  /\ UNCHANGED <<ring, cursor, dead, banned, left>>

(* Mutant: an expired ban is ended, any other is not looked at.            *)
CheckBannedIgnored(t) ==
  /\ At(t, "banned")
  /\ GoTo(t, IF Pair(t) \in banned /\ left[Pair(t)] = 0 THEN "unban" ELSE "claim")
  /\ UNCHANGED <<ring, cursor, dead, banned, left>>

(* is_key_banned: an expired entry is removed only after its guard drops.  *)
CheckBanned(t) ==
  /\ At(t, "banned")
  /\ \/ /\ InForce(Pair(t))
        /\ Skip(t)
     \/ /\ Pair(t) \in banned /\ left[Pair(t)] = 0
        /\ GoTo(t, "unban")
     \/ /\ Pair(t) \notin banned
        /\ GoTo(t, "claim")
  /\ UNCHANGED <<ring, cursor, dead, banned, left>>

Unban(t) ==
  /\ At(t, "unban")
  /\ banned' = banned \ {Pair(t)}
  /\ left' = [left EXCEPT ![Pair(t)] = 0]
  /\ GoTo(t, "claim")
  /\ UNCHANGED <<ring, cursor, dead>>

(* Mutant: the cursor runs past the end of the ring.                       *)
ClaimUnwrapped(t) ==
  /\ At(t, "claim")
  /\ cursor' = [cursor EXCEPT ![pick[t].p] = Slot(t) + 1]
  /\ Hold(t, pick[t].p, Candidate(t))
  /\ UNCHANGED <<ring, dead, banned, left>>

(* Mutant: the cursor stays on the key that is returned.                   *)
ClaimInPlace(t) ==
  /\ At(t, "claim")
  /\ cursor' = [cursor EXCEPT ![pick[t].p] = Slot(t)]
  /\ Hold(t, pick[t].p, Candidate(t))
  /\ UNCHANGED <<ring, dead, banned, left>>

(* The next scan starts after the key returned, wherever the cursor is now.*)
Claim(t) ==
  LET p == pick[t].p IN
  /\ At(t, "claim")
  /\ cursor' = [cursor EXCEPT ![p] = (Slot(t) + 1) % Len(ring[p])]
  /\ Hold(t, p, Candidate(t))
  /\ UNCHANGED <<ring, dead, banned, left>>

(* The provider answered: it takes the key, rejects it (401, 403: the key  *)
(* dies) or reports its quota spent (429: a ban, replacing an older one).  *)
Accepted(t) ==
  /\ At(t, "holding")
  /\ Release(t)
  /\ UNCHANGED <<ring, cursor, dead, banned, left>>

MarkKeyDead(t) ==
  /\ At(t, "holding")
  /\ pick[t].key \in dead \/ Cardinality(dead) < MaxDead
  /\ dead' = dead \cup {pick[t].key}
  /\ Release(t)
  /\ UNCHANGED <<ring, cursor, banned, left>>

BanKey(t) ==
  LET b == <<pick[t].p, pick[t].key>> IN
  /\ At(t, "holding")
  /\ b \in banned \/ Cardinality(banned) < MaxBans
  /\ banned' = banned \cup {b}
  /\ \E secs \in BanTicks : left' = [left EXCEPT ![b] = secs]
  /\ Release(t)
  /\ UNCHANGED <<ring, cursor, dead>>

(* A reload installs a fresh ring; neither quarantine is touched.          *)
UpdateKeys(p, r) ==
  /\ \A t \in Thread : ~InCall(t, p)
  /\ ring' = [ring EXCEPT ![p] = r]
  /\ cursor' = [cursor EXCEPT ![p] = 0]
  /\ UNCHANGED <<dead, banned, left, pick>>

Tick ==
  /\ \E b \in banned : left[b] > 0
  /\ left' = [b \in Provider \X Key |-> IF left[b] > 0 THEN left[b] - 1 ELSE 0]
  /\ UNCHANGED <<ring, cursor, dead, banned, pick>>

Continue(t) ==
  CheckDead(t) \/ CheckBanned(t) \/ Unban(t) \/ Claim(t)

Answer(t) ==
  Accepted(t) \/ MarkKeyDead(t) \/ BanKey(t)

Next ==
  \/ \E t \in Thread : Continue(t) \/ Answer(t) \/ \E p \in Provider : Begin(t, p)
  \/ \E p \in Provider, r \in Rings : UpdateKeys(p, r)
  \/ Tick

(* A call runs to its end and every attempt is answered or times out.      *)
Fairness ==
  /\ \A t \in Thread : WF_vars(Continue(t)) /\ WF_vars(Answer(t))
  /\ WF_vars(Tick)

(* History of the calls under way, written by every step.                  *)
Observe ==
  seen' = [t \in Thread |->
    CASE ~InScan(t)'              -> Nothing
      [] InScan(t)' /\ ~InScan(t) -> [alive  |-> Alive',
                                      free   |-> Free(pick[t].p)',
                                      always |-> Usable(pick[t].p)']
      [] InScan(t)' /\ InScan(t)  -> [alive  |-> seen[t].alive \cup Alive',
                                      free   |-> seen[t].free \cup Free(pick[t].p)',
                                      always |-> seen[t].always \cap Usable(pick[t].p)']]

Spec == Init /\ [][Next /\ Observe]_<<vars, seen>>
FairSpec == Spec /\ Fairness
-----------------------------------------------------------------------------
(* Safety: next_key hands out no key that was dead for the whole call, nor *)
(* one that was banned for the whole call, however its reads of the two    *)
(* maps interleave with rejections, bans and reloads (next_key's skips).   *)
(* More it cannot promise: the maps are read one after the other.          *)
ReturnsUsableKey ==
  \A t \in Thread : At(t, "claim") => Candidate(t) \in seen[t].alive \cap seen[t].free

(* Action property: next_key answers None ("no valid keys") only if no key *)
(* of the ring was usable during the whole call (next_key's full turn).    *)
NoneOnlyIfUnusable ==
  [][\A t \in Thread :
       InScan(t) /\ pick'[t] = Idle =>
         \A i \in 1..Len(ring[pick[t].p]) :
           ring[pick[t].p][i] \notin seen[t].always]_<<vars, seen>>

(* Liveness: while a provider is called again and again and not reloaded,  *)
(* no key of its ring that stays usable is passed over for ever, although  *)
(* late stores of the cursor can undo the progress of other calls          *)
(* ("preserves round-robin fairness among healthy keys", next_key).        *)
Returning(p, k) == \E t \in Thread : At(t, "claim") /\ pick[t].p = p /\ Candidate(t) = k
Listed(p, k) == \E i \in 1..Len(ring[p]) : ring[p][i] = k
NoKeyStarves ==
  \A p \in Provider, k \in Key :
    /\ <>[](Listed(p, k) /\ k \in Usable(p))
    /\ <>[][\A r \in Rings : ~UpdateKeys(p, r)]_vars
    /\ []<>(\E t \in Thread : InScan(t) /\ pick[t].p = p)
    => []<>Returning(p, k)
=============================================================================
