--------------------------- MODULE KeyRingsProofs ---------------------------
(***************************************************************************)
(* What the runs of KeyRings show for one ring of three keys and two       *)
(* attempts, for any providers, keys, rings, attempts and bans.            *)
(*                                                                         *)
(* The argument follows one scan.  ScanMove says what a step of the system *)
(* can do to it; the history of what the scan has seen is written by every *)
(* step alike; both properties follow from the two.                        *)
(***************************************************************************)
EXTENDS KeyRings, TLAPS

allVars == <<vars, seen>>

(* What a step does to the scan of t, if t has one before or after it.     *)
SameSlot(t) ==
  /\ InScan(t) /\ InScan(t)'
  /\ pick'[t].p = pick[t].p
  /\ pick'[t].start = pick[t].start
  /\ ring'[pick[t].p] = ring[pick[t].p]

Stays(t)      == SameSlot(t) /\ pick'[t] = pick[t]
FindsAlive(t) == SameSlot(t) /\ At(t, "dead") /\ At(t, "banned")'
                 /\ pick'[t].step = pick[t].step /\ Candidate(t) \notin dead
FindsFree(t)  == SameSlot(t) /\ At(t, "banned") /\ pick'[t].at \in {"unban", "claim"}
                 /\ pick'[t].step = pick[t].step /\ ~InForce(Pair(t))
EndsBan(t)    == SameSlot(t) /\ At(t, "unban") /\ At(t, "claim")'
                 /\ pick'[t].step = pick[t].step
Passes(t)     == SameSlot(t) /\ At(t, "dead")' /\ pick'[t].step = pick[t].step + 1
                 /\ pick[t].step + 1 # Len(ring[pick[t].p])
                 /\ Candidate(t) \notin Usable(pick[t].p)
GivesUp(t)    == InScan(t) /\ pick'[t] = Idle
                 /\ pick[t].step + 1 = Len(ring[pick[t].p])
                 /\ Candidate(t) \notin Usable(pick[t].p)
Starts(t)     == ~InScan(t) /\ At(t, "dead")' /\ pick'[t].step = 0
                 /\ pick'[t].p \in Provider
                 /\ ring'[pick'[t].p] # <<>>
                 /\ pick'[t].start \in Nat
                 /\ pick'[t].start < Len(ring'[pick'[t].p])
Rests(t)      == ~InScan(t)' /\ (InScan(t) => pick'[t] # Idle)

ScanMove(t) ==
  \/ Stays(t) \/ FindsAlive(t) \/ FindsFree(t) \/ EndsBan(t)
  \/ Passes(t) \/ GivesUp(t) \/ Starts(t) \/ Rests(t)

(* A scan is over a ring that has keys and stays within one turn of it.    *)
WithinTurn ==
  \A t \in Thread : InScan(t) =>
    /\ ring[pick[t].p] # <<>>
    /\ pick[t].start < Len(ring[pick[t].p])
    /\ pick[t].step < Len(ring[pick[t].p])

(* What is so now has been seen by every scan under way.                   *)
SeesPresent ==
  \A t \in Thread : InScan(t) =>
    /\ Alive \subseteq seen[t].alive
    /\ Free(pick[t].p) \subseteq seen[t].free
    /\ seen[t].always \subseteq Usable(pick[t].p)

(* A candidate has been seen alive once it is past the dead-key check, and *)
(* free of a ban once it is past the ban check.                            *)
CandidateSeen ==
  \A t \in Thread :
    /\ pick[t].at \in {"banned", "unban", "claim"} => Candidate(t) \in seen[t].alive
    /\ pick[t].at \in {"unban", "claim"} => Candidate(t) \in seen[t].free

KeyAt(t, j) == ring[pick[t].p][((pick[t].start + j) % Len(ring[pick[t].p])) + 1]

(* No key that was passed over has been usable all the time.               *)
PassedUnusable ==
  \A t \in Thread : InScan(t) =>
    \A j \in Nat : j < pick[t].step => KeyAt(t, j) \notin seen[t].always

IInv == TypeOK /\ WithinTurn /\ SeesPresent /\ CandidateSeen /\ PassedUnusable

-----------------------------------------------------------------------------
(* A position within a turn is the slot itself, and so is the position one *)
(* turn later.                                                             *)
LEMMA SlotsOfTurn ==
  ASSUME NEW n \in Nat \ {0}, NEW a \in Nat, a < n
  PROVE  a % n = a /\ (a + n) % n = a
  OBVIOUS

(* A scan of a whole turn has come to every slot.                          *)
LEMMA TurnReachesAll ==
  ASSUME NEW n \in Nat \ {0}, NEW s \in Nat, s < n, NEW i \in 1..n
  PROVE  \E j \in Nat : j < n /\ ((s + j) % n) + 1 = i
<1>1. CASE s <= i - 1
  <2>1. (i - 1) - s \in Nat /\ (i - 1) - s < n
    BY <1>1
  <2>2. s + ((i - 1) - s) = i - 1
    OBVIOUS
  <2>3. (i - 1) % n = i - 1
    BY SlotsOfTurn
  <2>4. QED
    BY <2>1, <2>2, <2>3
<1>2. CASE s > i - 1
  <2> DEFINE j == (i - 1) - s + n
  <2>1. j \in Nat /\ j < n
    BY <1>2
  <2>2. s + j = (i - 1) + n
    OBVIOUS
  <2>3. ((i - 1) + n) % n = i - 1
    BY SlotsOfTurn
  <2>4. ((s + j) % n) + 1 = i
    BY <2>2, <2>3
  <2>5. QED
    BY <2>1, <2>4
<1>3. QED
  BY <1>1, <1>2

(* The parts of an attempt that scans, and of one that holds a key.        *)
LEMMA ScanParts ==
  ASSUME TypeOK, NEW t \in Thread, InScan(t)
  PROVE  /\ pick[t] \in Scanning
         /\ pick[t].p \in Provider /\ pick[t].start \in Nat /\ pick[t].step \in Nat
         /\ ring[pick[t].p] \in Rings \cup {<<>>}
<1>1. pick[t] \in Scanning
  BY DEF TypeOK, InScan, Step, Scanning, Holding, Idle
<1>2. QED
  BY <1>1 DEF TypeOK, Scanning

(* An attempt that holds a key has a provider and a key.                   *)
LEMMA HoldParts ==
  ASSUME TypeOK, NEW t \in Thread, At(t, "holding")
  PROVE  pick[t] \in Holding /\ pick[t].p \in Provider /\ pick[t].key \in Key
<1>1. pick[t] \in Scanning \cup Holding \cup {Idle}
  BY DEF TypeOK
<1>2. pick[t] \notin Scanning /\ pick[t] # Idle
  BY DEF At, Step, Scanning, Idle
<1>3. pick[t] \in Holding
  BY <1>1, <1>2
<1>4. QED
  BY <1>3 DEF Holding

(* The length of a ring that has keys, and its keys.                       *)
LEMMA RingLength ==
  ASSUME NEW r \in Rings \cup {<<>>}, r # <<>>
  PROVE  r \in Seq(Key) /\ Len(r) \in Nat \ {0}
         /\ \A i \in Nat : (i % Len(r)) + 1 \in 1..Len(r)
<1>1. r \in Seq(Key) /\ r # <<>>
  BY KeyRingsAssumption
<1>2. Len(r) \in Nat \ {0}
  BY <1>1
<1>3. QED
  BY <1>1, <1>2

(* The slot a scan has come to holds a key.                                *)
LEMMA CandidateIsKey ==
  ASSUME TypeOK, WithinTurn, NEW t \in Thread, InScan(t)
  PROVE  /\ Candidate(t) \in Key /\ Slot(t) \in Nat
         /\ (Slot(t) + 1) % Len(ring[pick[t].p]) \in 0..(Len(ring[pick[t].p]) - 1)
         /\ Pair(t) \in Provider \X Key
<1> DEFINE r == ring[pick[t].p]
<1>1. r \in Rings \cup {<<>>} /\ r # <<>> /\ pick[t].p \in Provider
  BY ScanParts DEF WithinTurn
<1>2. pick[t].start + pick[t].step \in Nat
  BY ScanParts
<1>3. r \in Seq(Key) /\ Len(r) \in Nat \ {0}
  BY <1>1, RingLength
<1>4. Slot(t) \in Nat /\ Slot(t) + 1 \in 1..Len(r)
  <2>1. \A i \in Nat : (i % Len(r)) + 1 \in 1..Len(r)
    BY <1>1, RingLength
  <2>2. ((pick[t].start + pick[t].step) % Len(r)) + 1 \in 1..Len(r)
    BY <1>2, <2>1
  <2>3. Slot(t) = (pick[t].start + pick[t].step) % Len(r)
    BY DEF Slot
  <2>4. Slot(t) \in Nat
    BY <1>2, <1>3, <2>3
  <2>5. QED
    BY <2>2, <2>3, <2>4
<1>5. Candidate(t) \in Key
  BY <1>3, <1>4 DEF Candidate
<1>6. QED
  BY <1>1, <1>3, <1>4, <1>5 DEF Pair

-----------------------------------------------------------------------------
(* What the moves of a scan write.                                         *)

(* A scan that goes to another check keeps its place.                      *)
LEMMA GoToParts ==
  ASSUME TypeOK, NEW t \in Thread, InScan(t), NEW x \in Step, GoTo(t, x)
  PROVE  /\ pick'[t].at = x
         /\ pick'[t].p = pick[t].p /\ pick'[t].start = pick[t].start
         /\ pick'[t].step = pick[t].step
         /\ pick'[t] \in Scanning
         /\ \A u \in Thread : u # t => pick'[u] = pick[u]
<1>1. pick'[t] = [pick[t] EXCEPT !.at = x]
  BY DEF GoTo, TypeOK
<1>2. pick[t] \in Scanning
  BY ScanParts
<1>3. \A u \in Thread : u # t => pick'[u] = pick[u]
  BY DEF GoTo, TypeOK
<1>4. QED
  BY <1>1, <1>2, <1>3 DEF Scanning

(* A skip moves the scan one slot on, or ends it after the last slot.      *)
LEMMA SkipParts ==
  ASSUME TypeOK, NEW t \in Thread, InScan(t), Skip(t)
  PROVE  /\ \/ /\ pick[t].step + 1 = Len(ring[pick[t].p])
               /\ pick'[t] = Idle
            \/ /\ pick[t].step + 1 # Len(ring[pick[t].p])
               /\ pick'[t] \in Scanning
               /\ pick'[t].at = "dead" /\ pick'[t].step = pick[t].step + 1
               /\ pick'[t].p = pick[t].p /\ pick'[t].start = pick[t].start
         /\ \A u \in Thread : u # t => pick'[u] = pick[u]
<1>1. CASE pick[t].step + 1 = Len(ring[pick[t].p])
  BY <1>1 DEF Skip, Release, TypeOK
<1>2. CASE pick[t].step + 1 # Len(ring[pick[t].p])
  <2>1. pick' = [pick EXCEPT ![t].at = "dead", ![t].step = @ + 1]
    BY <1>2 DEF Skip
  <2>2. pick'[t] = [pick[t] EXCEPT !.at = "dead", !.step = @ + 1]
    BY <2>1 DEF TypeOK
  <2>3. pick[t] \in Scanning
    BY ScanParts
  <2>4. \A u \in Thread : u # t => pick'[u] = pick[u]
    BY <2>1 DEF TypeOK
  <2>5. /\ pick'[t].at = "dead" /\ pick'[t].step = pick[t].step + 1
        /\ pick'[t].p = pick[t].p /\ pick'[t].start = pick[t].start
    BY <2>2, <2>3 DEF Scanning
  <2>6. pick'[t] \in Scanning
    <3>1. pick[t].step + 1 \in Nat /\ "dead" \in Step
      BY ScanParts DEF Step
    <3>2. pick'[t] = [[pick[t] EXCEPT !.at = "dead"] EXCEPT !.step = pick[t].step + 1]
      BY <2>2, <2>3 DEF Scanning
    <3>3. [pick[t] EXCEPT !.at = "dead"] \in Scanning
      BY <2>3, <3>1 DEF Scanning
    <3>4. QED
      BY <3>1, <3>2, <3>3 DEF Scanning
  <2>7. QED
    BY <1>2, <2>4, <2>5, <2>6
<1>3. QED
  BY <1>1, <1>2

(* A step that leaves the scan and its ring alone.                         *)
LEMMA BystanderMoves ==
  ASSUME NEW t \in Thread, pick'[t] = pick[t],
         InScan(t) => ring'[pick[t].p] = ring[pick[t].p]
  PROVE  ScanMove(t)
<1>1. CASE InScan(t)
  BY <1>1 DEF ScanMove, Stays, SameSlot, InScan
<1>2. CASE ~InScan(t)
  BY <1>2 DEF ScanMove, Rests, InScan
<1>3. QED
  BY <1>1, <1>2

(* A scan that passes over an unusable candidate goes on or gives up.      *)
LEMMA SkipMoves ==
  ASSUME TypeOK, NEW t \in Thread, InScan(t), Skip(t), ring' = ring,
         Candidate(t) \notin Usable(pick[t].p)
  PROVE  ScanMove(t)
<1>1. CASE pick'[t] = Idle /\ pick[t].step + 1 = Len(ring[pick[t].p])
  BY <1>1 DEF ScanMove, GivesUp
<1>2. CASE /\ pick[t].step + 1 # Len(ring[pick[t].p])
           /\ pick'[t].at = "dead" /\ pick'[t].step = pick[t].step + 1
           /\ pick'[t].p = pick[t].p /\ pick'[t].start = pick[t].start
  BY <1>2 DEF ScanMove, Passes, SameSlot, InScan, Step, At
<1>3. QED
  BY <1>1, <1>2, SkipParts

(* The dead-key check passes a dead key over and finds any other alive.    *)
LEMMA CheckDeadMoves ==
  ASSUME TypeOK, NEW t \in Thread, CheckDead(t)
  PROVE  ScanMove(t)
<1>1. InScan(t) /\ At(t, "dead") /\ ring' = ring
  BY DEF CheckDead, InScan, At, Step
<1>2. CASE Candidate(t) \in dead
  <2>1. Skip(t) /\ Candidate(t) \notin Usable(pick[t].p)
    BY <1>2 DEF CheckDead, Usable, Alive
  <2>2. QED
    BY <1>1, <2>1, SkipMoves
<1>3. CASE Candidate(t) \notin dead
  <2>1. GoTo(t, "banned") /\ "banned" \in Step
    BY <1>3 DEF CheckDead, Step
  <2>2. FindsAlive(t)
    BY <1>1, <1>3, <2>1, GoToParts DEF FindsAlive, SameSlot, InScan, At
  <2>3. QED
    BY <2>2 DEF ScanMove
<1>4. QED
  BY <1>2, <1>3

(* The ban check finds a ban in force, or lets the candidate through.      *)
LEMMA CheckBannedMoves ==
  ASSUME TypeOK, NEW t \in Thread, CheckBanned(t)
  PROVE  ScanMove(t)
<1>1. InScan(t) /\ At(t, "banned") /\ ring' = ring
  BY DEF CheckBanned, InScan, At, Step
<1>2. CASE InForce(Pair(t)) /\ Skip(t)
  <2>1. Candidate(t) \notin Usable(pick[t].p)
    BY <1>2 DEF Usable, Free, Pair
  <2>2. QED
    BY <1>1, <1>2, <2>1, SkipMoves
<1>3. ASSUME NEW x \in {"unban", "claim"}, GoTo(t, x), ~InForce(Pair(t))
      PROVE  ScanMove(t)
  <2>1. x \in Step
    BY DEF Step
  <2>2. FindsFree(t)
    BY <1>1, <1>3, <2>1, GoToParts DEF FindsFree, SameSlot, InScan, At
  <2>3. QED
    BY <2>2 DEF ScanMove
<1>4. QED
  BY <1>2, <1>3 DEF CheckBanned, InForce

(* Ending an expired ban goes on to the claim.                             *)
LEMMA UnbanMoves ==
  ASSUME TypeOK, NEW t \in Thread, Unban(t)
  PROVE  ScanMove(t)
<1>1. InScan(t) /\ At(t, "unban") /\ ring' = ring /\ GoTo(t, "claim") /\ "claim" \in Step
  BY DEF Unban, InScan, At, Step
<1>2. EndsBan(t)
  BY <1>1, GoToParts DEF EndsBan, SameSlot, InScan, At
<1>3. QED
  BY <1>2 DEF ScanMove

(* A claim ends the scan with a key in hand.                               *)
LEMMA ClaimMoves ==
  ASSUME TypeOK, NEW t \in Thread, Claim(t)
  PROVE  ScanMove(t)
<1>1. pick'[t] = [at |-> "holding", p |-> pick[t].p, key |-> Candidate(t)]
  BY DEF Claim, Hold, TypeOK
<1>2. pick'[t].at = "holding"
  BY <1>1
<1>3. ~InScan(t)' /\ pick'[t] # Idle
  BY <1>2 DEF InScan, Step, Idle
<1>4. QED
  BY <1>3 DEF ScanMove, Rests

(* An answer comes to an attempt that is no longer scanning.               *)
LEMMA AnswerMoves ==
  ASSUME TypeOK, NEW t \in Thread, Answer(t)
  PROVE  ScanMove(t)
<1>1. At(t, "holding") /\ Release(t)
  BY DEF Answer, Accepted, MarkKeyDead, BanKey
<1>2. ~InScan(t) /\ pick'[t] = Idle
  BY <1>1 DEF At, InScan, Step, Release, TypeOK
<1>3. ~InScan(t)'
  BY <1>2 DEF InScan, Step, Idle
<1>4. QED
  BY <1>2, <1>3 DEF ScanMove, Rests

(* A call starts a scan at the cursor of a ring that has keys.             *)
LEMMA BeginMoves ==
  ASSUME TypeOK, NEW t \in Thread, NEW p \in Provider, Begin(t, p)
  PROVE  ScanMove(t)
<1>1. pick'[t] = [at |-> "dead", p |-> p, start |-> cursor[p], step |-> 0]
  BY DEF Begin, TypeOK
<1>2. ring[p] # <<>> /\ ring' = ring /\ cursor[p] \in Nat /\ cursor[p] < Len(ring[p])
  BY DEF Begin, TypeOK
<1>3. ~InScan(t)
  BY DEF Begin, At, InScan, Step
<1>4. Starts(t)
  BY <1>1, <1>2, <1>3 DEF Starts, At
<1>5. QED
  BY <1>4 DEF ScanMove

(* A step of one attempt leaves the scans of the others alone.             *)
LEMMA OthersUntouched ==
  ASSUME TypeOK, NEW u \in Thread, NEW t \in Thread, t # u,
         Continue(u) \/ Answer(u) \/ \E p \in Provider : Begin(u, p)
  PROVE  pick'[t] = pick[t] /\ ring' = ring
<1> USE DEF TypeOK
<1>1. CASE CheckDead(u)
  <2>1. InScan(u) /\ (Skip(u) \/ GoTo(u, "banned")) /\ ring' = ring /\ "banned" \in Step
    BY <1>1 DEF CheckDead, InScan, At, Step
  <2>2. QED
    BY <2>1, SkipParts DEF GoTo
<1>2. CASE CheckBanned(u)
  <2>1. InScan(u) /\ (Skip(u) \/ GoTo(u, "unban") \/ GoTo(u, "claim")) /\ ring' = ring
    BY <1>2 DEF CheckBanned, InScan, At, Step
  <2>2. QED
    BY <2>1, SkipParts DEF GoTo
<1>3. CASE Unban(u)
  BY <1>3 DEF Unban, GoTo
<1>4. CASE Claim(u)
  BY <1>4 DEF Claim, Hold
<1>5. CASE Answer(u)
  BY <1>5 DEF Answer, Accepted, MarkKeyDead, BanKey, Release
<1>6. ASSUME NEW p \in Provider, Begin(u, p)
      PROVE  pick'[t] = pick[t] /\ ring' = ring
  BY <1>6 DEF Begin
<1>7. QED
  BY <1>1, <1>2, <1>3, <1>4, <1>5, <1>6 DEF Continue

(* Every step moves every scan in one of the ways of ScanMove.             *)
LEMMA NextMoves ==
  ASSUME TypeOK, Next, NEW t \in Thread
  PROVE  ScanMove(t)
<1>1. ASSUME NEW u \in Thread,
             Continue(u) \/ Answer(u) \/ \E p \in Provider : Begin(u, p)
      PROVE  ScanMove(t)
  <2>1. CASE u # t
    BY <1>1, <2>1, OthersUntouched, BystanderMoves
  <2>2. CASE u = t
    BY <1>1, <2>2, CheckDeadMoves, CheckBannedMoves, UnbanMoves, ClaimMoves,
       AnswerMoves, BeginMoves DEF Continue
  <2>3. QED
    BY <2>1, <2>2
<1>2. ASSUME NEW p \in Provider, NEW r \in Rings, UpdateKeys(p, r)
      PROVE  ScanMove(t)
  <2>1. pick' = pick /\ ring' = [ring EXCEPT ![p] = r] /\ ~InCall(t, p)
    BY <1>2 DEF UpdateKeys
  <2>2. InScan(t) => ring'[pick[t].p] = ring[pick[t].p]
    BY <2>1, ScanParts DEF InCall, TypeOK
  <2>3. QED
    BY <2>1, <2>2, BystanderMoves
<1>3. CASE Tick
  BY <1>3, BystanderMoves DEF Tick
<1>4. QED
  BY <1>1, <1>2, <1>3 DEF Next

-----------------------------------------------------------------------------
(* Types.                                                                  *)

(* A fresh cursor points into any ring that has keys.                      *)
LEMMA InitTyped == Init => TypeOK
<1> SUFFICES ASSUME Init PROVE TypeOK
  OBVIOUS
<1>1. \A p \in Provider : ring[p] # <<>> => cursor[p] < Len(ring[p])
  <2> SUFFICES ASSUME NEW p \in Provider, ring[p] # <<>>
               PROVE  cursor[p] < Len(ring[p])
    OBVIOUS
  <2>1. ring[p] \in Rings \cup {<<>>}
    BY DEF Init
  <2>2. QED
    BY <2>1, RingLength DEF Init
<1>2. QED
  BY <1>1 DEF Init, TypeOK, Nothing

(* The history is of keys, whatever the step.                              *)
LEMMA HistoryTyped ==
  ASSUME TypeOK, dead' \subseteq Key, Observe
  PROVE  seen' \in [Thread -> [alive : SUBSET Key, free : SUBSET Key, always : SUBSET Key]]
<1>1. Alive' \subseteq Key /\ \A p : Free(p)' \subseteq Key /\ Usable(p)' \subseteq Key
  BY DEF Alive, Free, Usable
<1>2. \A t \in Thread : seen[t] \in [alive : SUBSET Key, free : SUBSET Key, always : SUBSET Key]
  BY DEF TypeOK
<1>3. QED
  BY <1>1, <1>2 DEF Observe, Nothing

(* What an attempt may be doing, and what the rest of the state is.        *)
Attempt == Scanning \cup Holding \cup {Idle}
StateTyped ==
  /\ ring \in [Provider -> Rings \cup {<<>>}]
  /\ cursor \in [Provider -> Nat]
  /\ \A p \in Provider : ring[p] # <<>> => cursor[p] < Len(ring[p])
  /\ dead \subseteq Key
  /\ banned \subseteq Provider \X Key
  /\ left \in [Provider \X Key -> Nat]
PickTyped == pick \in [Thread -> Attempt]

(* A rejection adds a key of the attempt, a ban a pair of it.              *)
LEMMA AnswerTyped ==
  ASSUME TypeOK, NEW t \in Thread, Answer(t)
  PROVE  StateTyped' /\ PickTyped'
<1>1. At(t, "holding") /\ Release(t)
  BY DEF Answer, Accepted, MarkKeyDead, BanKey
<1>2. pick[t].p \in Provider /\ pick[t].key \in Key
  BY <1>1, HoldParts
<1>3. PickTyped'
  BY <1>1 DEF Release, PickTyped, Attempt, TypeOK
<1>4. CASE Accepted(t)
  BY <1>3, <1>4 DEF Accepted, TypeOK, StateTyped
<1>5. CASE MarkKeyDead(t)
  BY <1>2, <1>3, <1>5 DEF MarkKeyDead, TypeOK, StateTyped
<1>6. CASE BanKey(t)
  <2> DEFINE b == <<pick[t].p, pick[t].key>>
  <2>1. b \in Provider \X Key
    BY <1>2
  <2>2. PICK secs \in BanTicks : left' = [left EXCEPT ![b] = secs]
    BY <1>6 DEF BanKey
  <2>3. secs \in Nat
    BY KeyRingsAssumption
  <2>4. banned' = banned \cup {b}
    BY <1>6 DEF BanKey
  <2> HIDE DEF b
  <2>5. left' \in [Provider \X Key -> Nat] /\ banned' \subseteq Provider \X Key
    BY <2>1, <2>2, <2>3, <2>4 DEF TypeOK
  <2>6. QED
    BY <1>3, <1>6, <2>5 DEF BanKey, TypeOK, StateTyped
<1>7. QED
  BY <1>4, <1>5, <1>6 DEF Answer

(* A step of a scan writes a cursor within the ring.                       *)
LEMMA ContinueTyped ==
  ASSUME TypeOK, WithinTurn, NEW t \in Thread, Continue(t)
  PROVE  StateTyped' /\ PickTyped'
<1>1. InScan(t)
  BY DEF Continue, CheckDead, CheckBanned, Unban, Claim, InScan, At, Step
<1>2. /\ Candidate(t) \in Key
      /\ (Slot(t) + 1) % Len(ring[pick[t].p]) \in 0..(Len(ring[pick[t].p]) - 1)
      /\ Pair(t) \in Provider \X Key
      /\ pick[t].p \in Provider
      /\ Len(ring[pick[t].p]) \in Nat \ {0}
  <2>1. ring[pick[t].p] # <<>> /\ ring[pick[t].p] \in Rings \cup {<<>>} /\ pick[t].p \in Provider
    BY <1>1, ScanParts DEF WithinTurn
  <2>2. Len(ring[pick[t].p]) \in Nat \ {0}
    BY <2>1, RingLength
  <2>3. QED
    BY <1>1, <2>1, <2>2, CandidateIsKey
<1>3. ASSUME Skip(t) PROVE PickTyped'
  <2>1. pick'[t] \in Attempt /\ \A u \in Thread : u # t => pick'[u] = pick[u]
    BY <1>1, <1>3, SkipParts DEF Attempt
  <2>2. pick' = [pick EXCEPT ![t] = pick'[t]]
    <3>1. CASE pick[t].step + 1 = Len(ring[pick[t].p])
      BY <1>3, <3>1 DEF Skip, Release, TypeOK
    <3>2. CASE pick[t].step + 1 # Len(ring[pick[t].p])
      BY <1>3, <3>2 DEF Skip, TypeOK
    <3>3. QED
      BY <3>1, <3>2
  <2>3. QED
    BY <2>1, <2>2 DEF PickTyped, TypeOK, Attempt
<1>4. ASSUME NEW x \in Step, GoTo(t, x) PROVE PickTyped'
  <2>1. pick'[t] \in Scanning
    BY <1>1, <1>4, GoToParts
  <2>2. pick' = [pick EXCEPT ![t] = pick'[t]]
    BY <1>4 DEF GoTo, TypeOK
  <2>3. QED
    BY <2>1, <2>2 DEF PickTyped, TypeOK, Attempt
<1>5. CASE CheckDead(t)
  BY <1>3, <1>4, <1>5 DEF CheckDead, TypeOK, StateTyped, Step
<1>6. CASE CheckBanned(t)
  BY <1>3, <1>4, <1>6 DEF CheckBanned, TypeOK, StateTyped, Step
<1>7. CASE Unban(t)
  <2>1. left' \in [Provider \X Key -> Nat]
    BY <1>2, <1>7 DEF Unban, TypeOK
  <2>2. QED
    BY <1>4, <1>7, <2>1 DEF Unban, TypeOK, StateTyped, Step
<1>8. CASE Claim(t)
  <2> DEFINE c == (Slot(t) + 1) % Len(ring[pick[t].p])
  <2>1. c \in Nat /\ c < Len(ring[pick[t].p])
    BY <1>2
  <2>2. cursor' = [cursor EXCEPT ![pick[t].p] = c] /\ ring' = ring
    BY <1>8 DEF Claim
  <2> HIDE DEF c
  <2>3. /\ cursor' \in [Provider -> Nat]
        /\ \A p \in Provider : ring'[p] # <<>> => cursor'[p] < Len(ring'[p])
    BY <1>2, <2>1, <2>2 DEF TypeOK
  <2>4. PickTyped'
    <3>1. [at |-> "holding", p |-> pick[t].p, key |-> Candidate(t)] \in Attempt
      BY <1>2 DEF Attempt, Holding
    <3>2. pick' = [pick EXCEPT ![t] = [at |-> "holding", p |-> pick[t].p, key |-> Candidate(t)]]
      BY <1>8 DEF Claim, Hold
    <3>3. QED
      BY <3>1, <3>2 DEF PickTyped, TypeOK, Attempt
  <2>5. QED
    BY <1>8, <2>3, <2>4 DEF Claim, TypeOK, StateTyped
<1>9. QED
  BY <1>5, <1>6, <1>7, <1>8 DEF Continue

(* A call starts with a well-typed scan.                                   *)
LEMMA BeginTyped ==
  ASSUME TypeOK, NEW t \in Thread, NEW p \in Provider, Begin(t, p)
  PROVE  StateTyped' /\ PickTyped'
<1>1. [at |-> "dead", p |-> p, start |-> cursor[p], step |-> 0] \in Attempt
  BY DEF Attempt, Scanning, Step, TypeOK
<1>2. PickTyped'
  BY <1>1 DEF Begin, PickTyped, TypeOK, Attempt
<1>3. QED
  BY <1>2 DEF Begin, TypeOK, StateTyped

(* A fresh ring has at least the key its cursor points to.                 *)
LEMMA UpdateKeysTyped ==
  ASSUME TypeOK, NEW p \in Provider, NEW r \in Rings, UpdateKeys(p, r)
  PROVE  StateTyped' /\ PickTyped'
<1>1. 0 < Len(r)
  <2>1. r \in Rings \cup {<<>>} /\ r # <<>>
    BY KeyRingsAssumption
  <2>2. QED
    BY <2>1, RingLength
<1>2. \A q \in Provider : ring'[q] # <<>> => cursor'[q] < Len(ring'[q])
  BY <1>1 DEF UpdateKeys, TypeOK
<1>3. ring' \in [Provider -> Rings \cup {<<>>}] /\ cursor' \in [Provider -> Nat]
  BY DEF UpdateKeys, TypeOK
<1>4. QED
  BY <1>2, <1>3 DEF UpdateKeys, TypeOK, StateTyped, PickTyped, Attempt

(* Types are preserved by every step of a system whose scans stay within a *)
(* turn: a claim writes a cursor that points into the ring.                *)
LEMMA StepTyped ==
  ASSUME TypeOK, WithinTurn, Next, Observe
  PROVE  TypeOK'
<1>1. StateTyped' /\ PickTyped'
  <2>1. CASE Tick
    BY <2>1 DEF Tick, TypeOK, StateTyped, PickTyped, Attempt
  <2>2. QED
    BY <2>1, AnswerTyped, ContinueTyped, BeginTyped, UpdateKeysTyped DEF Next
<1>2. QED
  BY <1>1, HistoryTyped DEF StateTyped, PickTyped, Attempt, TypeOK

-----------------------------------------------------------------------------
(* The scan keeps to its turn, and what it has seen covers the present.    *)

(* No move takes a scan out of its turn of the ring.                       *)
LEMMA WithinTurnStep ==
  ASSUME TypeOK, WithinTurn, NEW t \in Thread, ScanMove(t), InScan(t)'
  PROVE  /\ ring'[pick'[t].p] # <<>>
         /\ pick'[t].start < Len(ring'[pick'[t].p])
         /\ pick'[t].step < Len(ring'[pick'[t].p])
<1>1. CASE Starts(t)
  <2>1. pick'[t].start \in Nat /\ pick'[t].start < Len(ring'[pick'[t].p])
        /\ ring'[pick'[t].p] # <<>> /\ pick'[t].step = 0
    BY <1>1 DEF Starts
  <2>2. QED
    BY <2>1, <1>1
<1>2. CASE SameSlot(t)
  <2>1. /\ ring[pick[t].p] # <<>>
        /\ pick[t].start < Len(ring[pick[t].p])
        /\ pick[t].step < Len(ring[pick[t].p])
    BY <1>2 DEF SameSlot, WithinTurn
  <2>2. pick[t].step \in Nat /\ Len(ring[pick[t].p]) \in Nat
    BY <1>2, <2>1, ScanParts, RingLength DEF SameSlot
  <2>3. \/ pick'[t].step = pick[t].step
        \/ /\ pick'[t].step = pick[t].step + 1
           /\ pick[t].step + 1 # Len(ring[pick[t].p])
    BY <1>2 DEF ScanMove, Stays, FindsAlive, FindsFree, EndsBan, Passes,
       GivesUp, Starts, Rests, SameSlot, InScan, Step, Idle
  <2>4. QED
    BY <1>2, <2>1, <2>2, <2>3 DEF SameSlot
<1>3. QED
  BY <1>1, <1>2 DEF ScanMove, Stays, FindsAlive, FindsFree, EndsBan, Passes, GivesUp, Rests,
     InScan, Step, Idle

(* Every step writes the present into the history of every scan.           *)
LEMMA SeesPresentAlways ==
  ASSUME TypeOK, Observe
  PROVE  SeesPresent'
<1> SUFFICES ASSUME NEW t \in Thread, InScan(t)'
             PROVE  /\ Alive' \subseteq seen'[t].alive
                    /\ Free(pick[t].p)' \subseteq seen'[t].free
                    /\ seen'[t].always \subseteq Usable(pick[t].p)'
  BY DEF SeesPresent
<1>1. CASE InScan(t)
  <2>1. seen'[t] = [alive  |-> seen[t].alive \cup Alive',
                    free   |-> seen[t].free \cup Free(pick[t].p)',
                    always |-> seen[t].always \cap Usable(pick[t].p)']
    BY <1>1 DEF Observe
  <2>2. QED
    BY <2>1
<1>2. CASE ~InScan(t)
  <2>1. seen'[t] = [alive  |-> Alive',
                    free   |-> Free(pick[t].p)',
                    always |-> Usable(pick[t].p)']
    BY <1>2 DEF Observe
  <2>2. QED
    BY <2>1
<1>3. QED
  BY <1>1, <1>2

(* A scan that goes on has seen no less, and what it saw all the time only *)
(* shrinks.                                                                *)
LEMMA HistoryGrows ==
  ASSUME TypeOK, Observe, NEW t \in Thread, InScan(t), InScan(t)'
  PROVE  /\ seen[t].alive \subseteq seen'[t].alive
         /\ seen[t].free \subseteq seen'[t].free
         /\ seen'[t].always \subseteq seen[t].always
<1>1. seen'[t] = [alive  |-> seen[t].alive \cup Alive',
                  free   |-> seen[t].free \cup Free(pick[t].p)',
                  always |-> seen[t].always \cap Usable(pick[t].p)']
  BY DEF Observe
<1>2. QED
  BY <1>1

(* A check that lets the candidate through has seen what it checks; later  *)
(* steps of the scan keep the candidate and do not forget.                 *)
LEMMA CandidateSeenStep ==
  ASSUME TypeOK, WithinTurn, SeesPresent, CandidateSeen, Observe,
         NEW t \in Thread, ScanMove(t)
  PROVE  /\ pick'[t].at \in {"banned", "unban", "claim"} => Candidate(t)' \in seen'[t].alive
         /\ pick'[t].at \in {"unban", "claim"} => Candidate(t)' \in seen'[t].free
<1>1. CASE ~SameSlot(t) \/ Passes(t)
  <2>1. pick'[t].at \notin {"banned", "unban", "claim"}
    BY <1>1 DEF ScanMove, Stays, FindsAlive, FindsFree, EndsBan, Passes, GivesUp, Starts, Rests,
       InScan, Step, Idle, At
  <2>2. QED
    BY <2>1
<1>2. CASE SameSlot(t) /\ ~Passes(t)
  <2>1. pick'[t].step = pick[t].step
    BY <1>2 DEF ScanMove, Stays, FindsAlive, FindsFree, EndsBan, GivesUp, Starts, Rests,
       SameSlot, InScan, Step, Idle
  <2>2. Candidate(t)' = Candidate(t) /\ Pair(t) = <<pick[t].p, Candidate(t)>>
    BY <1>2, <2>1 DEF SameSlot, Candidate, Slot, Pair
  <2>3. Candidate(t) \in Key
    BY <1>2, CandidateIsKey DEF SameSlot
  <2>4. /\ seen[t].alive \subseteq seen'[t].alive
        /\ seen[t].free \subseteq seen'[t].free
        /\ Alive \subseteq seen[t].alive
        /\ Free(pick[t].p) \subseteq seen[t].free
    BY <1>2, HistoryGrows DEF SameSlot, SeesPresent
  <2>5. CASE Stays(t) \/ EndsBan(t)
    BY <2>2, <2>4, <2>5 DEF CandidateSeen, Stays, EndsBan, At
  <2>6. CASE FindsAlive(t)
    <3>1. Candidate(t) \in Alive
      BY <2>3, <2>6 DEF FindsAlive, Alive
    <3>2. QED
      BY <2>2, <2>4, <2>6, <3>1 DEF FindsAlive, At
  <2>7. CASE FindsFree(t)
    <3>1. Candidate(t) \in Free(pick[t].p)
      BY <2>2, <2>3, <2>7 DEF FindsFree, Free
    <3>2. Candidate(t) \in seen[t].alive
      BY <2>7 DEF FindsFree, CandidateSeen, At
    <3>3. QED
      BY <2>2, <2>4, <3>1, <3>2
  <2>8. QED
    BY <1>2, <2>5, <2>6, <2>7 DEF ScanMove, GivesUp, Starts, Rests, SameSlot,
       InScan, Step, Idle
<1>3. QED
  BY <1>1, <1>2

(* A key that is passed over was not usable then, so not all the time.     *)
LEMMA PassedUnusableStep ==
  ASSUME TypeOK, WithinTurn, SeesPresent, PassedUnusable, Observe,
         NEW t \in Thread, ScanMove(t), InScan(t)',
         NEW j \in Nat, j < pick'[t].step
  PROVE  KeyAt(t, j)' \notin seen'[t].always
<1>1. SameSlot(t)
  <2>1. CASE Starts(t)
    BY <2>1 DEF Starts
  <2>2. QED
    BY <2>1 DEF ScanMove, Stays, FindsAlive, FindsFree, EndsBan, Passes, GivesUp, Rests,
       InScan, Step, Idle
<1>2. KeyAt(t, j)' = KeyAt(t, j)
  BY <1>1 DEF SameSlot, KeyAt
<1>3. InScan(t) /\ seen'[t].always \subseteq seen[t].always
  BY <1>1, HistoryGrows DEF SameSlot
<1>4. CASE j < pick[t].step
  BY <1>2, <1>3, <1>4 DEF PassedUnusable
<1>5. CASE ~(j < pick[t].step)
  <2>1. Passes(t)
    BY <1>1, <1>5 DEF ScanMove, Stays, FindsAlive, FindsFree, EndsBan, GivesUp, Starts, Rests,
       SameSlot, InScan, Step, Idle
  <2>2. j = pick[t].step
    BY <1>3, <1>5, <2>1, ScanParts DEF Passes
  <2>3. KeyAt(t, j) = Candidate(t)
    BY <2>2 DEF KeyAt, Candidate, Slot
  <2>4. Candidate(t) \notin seen[t].always
    BY <1>3, <2>1 DEF Passes, SeesPresent
  <2>5. QED
    BY <1>2, <1>3, <2>3, <2>4
<1>6. QED
  BY <1>4, <1>5

-----------------------------------------------------------------------------
(* The invariant and the theorems.                                         *)

(* No attempt is scanning at first.                                        *)
LEMMA InitInv == Init => IInv
<1> SUFFICES ASSUME Init PROVE IInv
  OBVIOUS
<1>1. \A t \in Thread : pick[t].at = "idle"
  BY DEF Init, Idle
<1>2. WithinTurn /\ SeesPresent /\ CandidateSeen /\ PassedUnusable
  BY <1>1 DEF WithinTurn, SeesPresent, CandidateSeen, PassedUnusable, InScan, Step
<1>3. QED
  BY <1>2, InitTyped DEF IInv

(* Every step preserves the invariant.                                     *)
LEMMA StepInv == IInv /\ [Next /\ Observe]_allVars => IInv'
<1> SUFFICES ASSUME IInv, [Next /\ Observe]_allVars PROVE IInv'
  OBVIOUS
<1>1. CASE Next /\ Observe
  <2>1. TypeOK'
    BY <1>1, StepTyped DEF IInv
  <2>2. \A t \in Thread : ScanMove(t)
    BY <1>1, NextMoves DEF IInv
  <2>3. WithinTurn'
    BY <2>2, WithinTurnStep DEF IInv, WithinTurn
  <2>4. SeesPresent'
    BY <1>1, SeesPresentAlways DEF IInv
  <2>5. CandidateSeen'
    BY <1>1, <2>2, CandidateSeenStep DEF IInv, CandidateSeen
  <2>6. PassedUnusable'
    BY <1>1, <2>2, PassedUnusableStep DEF IInv, PassedUnusable
  <2>7. QED
    BY <2>1, <2>3, <2>4, <2>5, <2>6 DEF IInv
<1>2. CASE UNCHANGED allVars
  BY <1>2 DEF allVars, vars, IInv, TypeOK, WithinTurn, SeesPresent, CandidateSeen, PassedUnusable,
     InScan, Alive, Free, Usable, InForce, Candidate, Slot, KeyAt
<1>3. QED
  BY <1>1, <1>2

(* The invariant holds always.                                             *)
LEMMA InvAlways == Spec => []IInv
<1>1. QED
  BY InitInv, StepInv, PTL DEF Spec, allVars

(* Rings, cursors, quarantines and calls stay well typed, and a cursor     *)
(* always points into its ring, through concurrent stores and reloads      *)
(* (next_key, update_keys).                                                *)
THEOREM KeyRingsTyped == Spec => []TypeOK
<1>1. IInv => TypeOK
  BY DEF IInv
<1>2. QED
  BY <1>1, InvAlways, PTL

(* next_key hands out no key that was dead, or banned, for the whole call. *)
THEOREM ReturnsUsableKeyAlways == Spec => []ReturnsUsableKey
<1>1. IInv => ReturnsUsableKey
  BY DEF IInv, CandidateSeen, ReturnsUsableKey, At
<1>2. QED
  BY <1>1, InvAlways, PTL

(* A scan that gives up has come to every key of the ring.                 *)
LEMMA GivingUp ==
  ASSUME IInv, NEW t \in Thread, InScan(t), pick'[t] = Idle, ScanMove(t),
         NEW i \in 1..Len(ring[pick[t].p])
  PROVE  ring[pick[t].p][i] \notin seen[t].always
<1> DEFINE n == Len(ring[pick[t].p])
<1>1. GivesUp(t)
  BY DEF ScanMove, Stays, FindsAlive, FindsFree, EndsBan, Passes, Starts, Rests, SameSlot,
     InScan, Step, Idle
<1>2. /\ n \in Nat \ {0} /\ pick[t].start \in Nat /\ pick[t].start < n
      /\ pick[t].step \in Nat /\ pick[t].step + 1 = n
  <2>1. ring[pick[t].p] # <<>> /\ pick[t].start < n
    BY DEF IInv, WithinTurn
  <2>2. QED
    BY <1>1, <2>1, ScanParts, RingLength DEF IInv, GivesUp
<1>3. PICK j \in Nat : j < n /\ ((pick[t].start + j) % n) + 1 = i
  BY <1>2, TurnReachesAll
<1>4. ring[pick[t].p][i] = KeyAt(t, j)
  BY <1>3 DEF KeyAt
<1>5. CASE j < pick[t].step
  BY <1>4, <1>5 DEF IInv, PassedUnusable
<1>6. CASE ~(j < pick[t].step)
  <2>1. j = pick[t].step
    BY <1>2, <1>3, <1>6
  <2>2. KeyAt(t, j) = Candidate(t)
    BY <2>1 DEF KeyAt, Candidate, Slot
  <2>3. Candidate(t) \notin seen[t].always
    BY <1>1 DEF GivesUp, IInv, SeesPresent
  <2>4. QED
    BY <1>4, <2>2, <2>3
<1>7. QED
  BY <1>5, <1>6

(* next_key answers that there is no key only if none of the ring was      *)
(* usable during the whole call, whatever other calls, rejections, bans    *)
(* and expiries happen meanwhile.                                          *)
THEOREM NoneOnlyIfUnusableAlways == Spec => NoneOnlyIfUnusable
<1> DEFINE Honest ==
      \A t \in Thread :
        InScan(t) /\ pick'[t] = Idle =>
          \A i \in 1..Len(ring[pick[t].p]) : ring[pick[t].p][i] \notin seen[t].always
<1>1. IInv /\ [Next /\ Observe]_allVars => [Honest]_allVars
  <2> SUFFICES ASSUME IInv, Next, NEW t \in Thread, InScan(t), pick'[t] = Idle,
                      NEW i \in 1..Len(ring[pick[t].p])
               PROVE  ring[pick[t].p][i] \notin seen[t].always
    OBVIOUS
  <2>1. ScanMove(t)
    BY NextMoves DEF IInv
  <2>2. QED
    BY <2>1, GivingUp
<1>2. QED
  BY <1>1, InvAlways, PTL DEF Spec, allVars, NoneOnlyIfUnusable
=============================================================================
