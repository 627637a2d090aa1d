------------------------- MODULE DeviceLoginsProofs -------------------------
(***************************************************************************)
(* What the runs of DeviceAccounts and of Logins show for a few users,     *)
(* threads and logins, for any number of them.                             *)
(*                                                                         *)
(* Of the accounts in a server's memory: each carries the identity that    *)
(* its user and its grant lead to, through refreshes, put-backs and        *)
(* reloads (Derived), and no list has a key twice, whichever store an      *)
(* account is put back into; both are needed for a user to be listed once  *)
(* only, or once per grant.                                                *)
(*                                                                         *)
(* Of logins: a pending device code goes only with the grant it was for;   *)
(* a page is closed only by its own post, and needs to be a whole          *)
(* configuration for what the post carries over to stay in it.  Whatever   *)
(* list a saver brings has every key once, since add_account looks for the *)
(* key first; and a list that only lost a logged-out key, or got an        *)
(* account, has all the other keys of the file it was made from.           *)
(***************************************************************************)
EXTENDS DeviceAccounts, Logins, SortingProofs, SequenceTheorems

IsList(accts) == \E S : accts \in Seq(S)
Clean(accts) == IsList(accts) /\ UniqueKeys(accts)

StoresClean == accounts = [s \in Store |-> accounts[s]] /\ \A s \in Store : Clean(accounts[s])

-----------------------------------------------------------------------------
(* The empty list is clean.                                                *)
LEMMA EmptyClean == Clean(<<>>)
<1>1. <<>> \in Seq({})
  OBVIOUS
<1>2. UniqueKeys(<<>>)
  BY DEF UniqueKeys
<1>3. QED
  BY <1>1, <1>2 DEF Clean, IsList

(* An account whose key is not in a list goes to its end.                  *)
LEMMA AppendClean ==
  ASSUME NEW accts, Clean(accts), NEW a,
         \A i \in DOMAIN accts : Key(accts[i]) # Key(a)
  PROVE  Clean(Append(accts, a))
<1>1. PICK S : accts \in Seq(S)
  BY DEF Clean, IsList
<1>2. DEFINE T == S \cup {a}
<1>3. accts \in Seq(T)
  BY <1>1
<1>4. a \in T
  OBVIOUS
<1> HIDE DEF T
<1>5. Append(accts, a) \in Seq(T)
  BY <1>3, <1>4
<1>6. /\ DOMAIN Append(accts, a) = 1..(Len(accts) + 1)
      /\ \A i \in 1..Len(accts) : Append(accts, a)[i] = accts[i]
      /\ Append(accts, a)[Len(accts) + 1] = a
      /\ DOMAIN accts = 1..Len(accts) /\ Len(accts) \in Nat
  BY <1>3, <1>4
<1>7. UniqueKeys(Append(accts, a))
  <2> SUFFICES ASSUME NEW i \in DOMAIN Append(accts, a), NEW j \in DOMAIN Append(accts, a),
                      Key(Append(accts, a)[i]) = Key(Append(accts, a)[j])
               PROVE  i = j
    BY DEF UniqueKeys
  <2>1. CASE i \in DOMAIN accts /\ j \in DOMAIN accts
    BY <2>1, <1>6 DEF Clean, UniqueKeys
  <2>2. CASE i \notin DOMAIN accts /\ j \notin DOMAIN accts
    BY <2>2, <1>6
  <2>3. CASE i \in DOMAIN accts /\ j \notin DOMAIN accts
    <3>1. j = Len(accts) + 1
      BY <2>3, <1>6
    <3>2. QED
      BY <3>1, <2>3, <1>6
  <2>4. CASE i \notin DOMAIN accts /\ j \in DOMAIN accts
    <3>1. i = Len(accts) + 1
      BY <2>4, <1>6
    <3>2. QED
      BY <3>1, <2>4, <1>6
  <2>5. QED
    BY <2>1, <2>2, <2>3, <2>4
<1>8. QED
  BY <1>5, <1>7 DEF Clean, IsList

(* An account takes the place of the one that has its key.                 *)
LEMMA ReplaceClean ==
  ASSUME NEW accts, Clean(accts), NEW a, NEW k,
         k \in DOMAIN accts => Key(accts[k]) = Key(a)
  PROVE  Clean([accts EXCEPT ![k] = a])
<1> DEFINE new == [accts EXCEPT ![k] = a]
<1>1. PICK S : accts \in Seq(S)
  BY DEF Clean, IsList
<1>2. Len(accts) \in Nat /\ accts \in [1..Len(accts) -> S]
  BY <1>1
<1>3. new \in [1..Len(accts) -> S \cup {a}]
  BY <1>2
<1>4. new \in Seq(S \cup {a})
  BY <1>2, <1>3
<1>5. /\ DOMAIN new = DOMAIN accts
      /\ \A i \in DOMAIN accts : new[i] = IF i = k THEN a ELSE accts[i]
  BY <1>2
<1> HIDE DEF new
<1>6. \A i \in DOMAIN accts : Key(new[i]) = Key(accts[i])
  BY <1>5
<1>7. UniqueKeys(new)
  BY <1>5, <1>6 DEF Clean, UniqueKeys
<1>8. QED
  BY <1>4, <1>7 DEF new, Clean, IsList

(* Adding any account to a clean list leaves it clean (add_account).       *)
LEMMA AddAccountClean ==
  ASSUME NEW accts, Clean(accts), NEW a
  PROVE  Clean(AddAccount(accts, a))
<1> DEFINE found == {i \in DOMAIN accts : Key(accts[i]) = Key(a)}
           k == CHOOSE i \in found : \A j \in found : i <= j
<1>1. CASE found = {}
  <2>1. \A i \in DOMAIN accts : Key(accts[i]) # Key(a)
    BY <1>1
  <2>2. AddAccount(accts, a) = Append(accts, a)
    BY <1>1 DEF AddAccount
  <2>3. QED
    BY <2>1, <2>2, AppendClean
<1>2. CASE found # {}
  <2>1. PICK i : i \in found
    BY <1>2
  <2>2. found = {i}
    BY <2>1 DEF Clean, UniqueKeys
  <2>3. i \in Nat
    BY <2>1 DEF Clean, IsList
  <2>4. \E h \in found : \A j \in found : h <= j
    BY <2>2, <2>3
  <2>5. k \in found
    BY <2>4
  <2>6. AddAccount(accts, a) = [accts EXCEPT ![k] = a]
    BY <1>2 DEF AddAccount
  <2>7. Key(accts[k]) = Key(a)
    BY <2>5
  <2> HIDE DEF k
  <2>8. Clean([accts EXCEPT ![k] = a])
    BY <2>7, ReplaceClean
  <2>9. QED
    BY <2>6, <2>8
<1>3. QED
  BY <1>1, <1>2

(* What logins left on disk is clean: one account for each person.         *)
LEMMA LoginsLeaveClean ==
  ASSUME NEW p, NEW users \in Signed, NEW list \in LeftByLogins(p, users)
  PROVE  Clean(list)
<1>1. PICK f : list = [i \in DOMAIN users |-> SignedIn(p, users[i], f[i])]
  BY DEF LeftByLogins
<1>2. /\ users \in Seq(User)
      /\ \A i, j \in DOMAIN users : users[i] = users[j] => i = j
  BY DeviceAccountsAssumption
<1>3. DOMAIN users = 1..Len(users) /\ Len(users) \in Nat
  BY <1>2
<1> DEFINE S == {list[i] : i \in DOMAIN users}
<1>4. list \in [1..Len(users) -> S]
  BY <1>1, <1>3
<1>5. list \in Seq(S)
  BY <1>3, <1>4
<1>6. DOMAIN list = DOMAIN users /\ \A i \in DOMAIN users : list[i] = SignedIn(p, users[i], f[i])
  BY <1>1
<1>7. \A i \in DOMAIN users : Key(list[i])[2].user = users[i]
  BY <1>6 DEF Key, SignedIn, DeriveIdentity
<1>8. UniqueKeys(list)
  BY <1>2, <1>6, <1>7 DEF UniqueKeys
<1>9. QED
  BY <1>5, <1>8 DEF Clean, IsList

-----------------------------------------------------------------------------
LEMMA InitClean ==
  ASSUME AccountsInit
  PROVE  StoresClean
<1>1. PICK p \in Provider, users \in Signed : \E list \in LeftByLogins(p, users) :
        accounts = [s \in Store |-> IF s = 1 THEN list ELSE <<>>]
  BY DEF AccountsInit
<1>2. PICK list \in LeftByLogins(p, users) :
        accounts = [s \in Store |-> IF s = 1 THEN list ELSE <<>>]
  BY <1>1
<1>3. Clean(list)
  BY LoginsLeaveClean
<1>4. QED
  BY <1>2, <1>3, EmptyClean DEF StoresClean

(* What most steps do: nothing to any store.                               *)
LEMMA UntouchedClean ==
  ASSUME StoresClean, UNCHANGED accounts
  PROVE  StoresClean'
BY DEF StoresClean, Clean, IsList, UniqueKeys, Store

LEMMA RestoreClean ==
  ASSUME StoresClean, NEW r \in Actor, Restore(r)
  PROVE  StoresClean'
<1>1. accounts' = [s \in Store |-> IF s = act[r].store THEN AddAccount(accounts[s], Mine(r))
                                   ELSE accounts[s]]
  BY DEF Restore, PutBack, StoresClean
<1>2. \A s \in Store : Clean(AddAccount(accounts[s], Mine(r)))
  BY AddAccountClean DEF StoresClean
<1>3. \A s \in Store : Clean(accounts'[s])
  BY <1>1, <1>2 DEF StoresClean
<1>4. QED
  BY <1>1, <1>3 DEF StoresClean

LEMMA ReloadClean ==
  ASSUME StoresClean, Reload
  PROVE  StoresClean'
<1>1. /\ Dropped = [s \in Store |-> Dropped[s]]
      /\ \A s \in Store : Clean(Dropped[s])
  BY EmptyClean DEF Dropped, StoresClean
<1>2. CASE accounts' = Dropped
  BY <1>1, <1>2 DEF StoresClean
<1>3. CASE \E p \in Provider, users \in Signed : \E list \in LeftByLogins(p, users) :
             accounts' = [Dropped EXCEPT ![loads'] = list]
  <2>1. PICK p \in Provider, users \in Signed : \E list \in LeftByLogins(p, users) :
          accounts' = [Dropped EXCEPT ![loads'] = list]
    BY <1>3
  <2>2. PICK list \in LeftByLogins(p, users) : accounts' = [Dropped EXCEPT ![loads'] = list]
    BY <2>1
  <2>3. Clean(list)
    BY LoginsLeaveClean
  <2>4. accounts' = [s \in Store |-> IF s = loads' THEN list ELSE Dropped[s]]
    BY <2>2, <1>1
  <2>5. QED
    BY <2>3, <2>4, <1>1 DEF StoresClean
<1>4. QED
  BY <1>2, <1>3 DEF Reload

LEMMA StepClean ==
  ASSUME StoresClean, [AccountsNext]_accountVars
  PROVE  StoresClean'
<1>1. CASE UNCHANGED accountVars
  BY <1>1, UntouchedClean DEF accountVars
<1>2. ASSUME NEW r \in Actor, Continue(r) PROVE StoresClean'
  BY <1>2, UntouchedClean, RestoreClean DEF Continue, SkipUnavailable, Take, FindStore
<1>3. ASSUME NEW r \in Actor, Upstream(r) \/ Refreshing(r) PROVE StoresClean'
  BY <1>3, UntouchedClean
     DEF Upstream, Refreshing, Accept, GiveUp, Reject, RefreshedInLock, Renewed
<1>4. ASSUME NEW r, NEW route, Begin(r, route) PROVE StoresClean'
  BY <1>4, UntouchedClean DEF Begin
<1>5. CASE Reload
  BY <1>5, ReloadClean
<1>6. CASE Expire \/ \E u \in User : Login(u)
  BY <1>6, UntouchedClean DEF Expire, Login
<1>7. QED
  BY <1>1, <1>2, <1>3, <1>4, <1>5, <1>6 DEF AccountsNext, Arrive, Warm

-----------------------------------------------------------------------------
(* Types in memory.  An account has the identity its user's grant leads    *)
(* to; what an actor carries, by the step it is at.                        *)
Derived == {a \in Account : a.id = DeriveIdentity(a.user, a.grant)}
Route == {route \in Seq(Provider) : route # <<>>}
Loaded == {0} \cup Store
TakeJob == [pc : {"take"}, route : Route, store : Loaded]
RefreshJob == [pc : {"refresh"}, route : Route, acct : Derived, store : Store]
AccountJob == [pc : {"sent", "renew", "restore"}, route : Route, acct : Derived, store : {0}]
PutJob == [pc : {"put"}, route : Route, acct : Derived, store : Loaded]
Carrying == RefreshJob \cup AccountJob \cup PutJob
ActorJob == {AtRest} \cup TakeJob \cup Carrying

InMemory ==
  /\ issued \in [User -> 0..MaxGrants] /\ due \in 0..MaxGrants
  /\ accounts \in [Store -> Seq(Derived)]
  /\ cursor \in [Store -> [Provider -> Nat]]
  /\ holder \in [Store -> Actor \cup {NoOne}]
  /\ current \in {0} \cup 1..loads /\ loads \in 0..(MaxReloads + 1)
  /\ act \in [Actor -> ActorJob]
  /\ \A r \in Actor, s \in Store : holder[s] = r <=> Locks(r, s)

LEMMA MemoryBounds ==
  /\ MaxGrants \in Nat /\ MaxGrants >= 1 /\ 1 \in Grant /\ 0 \in 0..MaxGrants
  /\ MaxReloads \in Nat /\ NoOne \notin Actor
BY DeviceStoreAssumption, DeviceAccountsAssumption DEF Grant, Actor

LEMMA SignedInTyped ==
  ASSUME NEW p \in Provider, NEW u \in User, NEW g \in Grant
  PROVE  /\ SignedIn(p, u, g) \in Account
         /\ SignedIn(p, u, g) \in Derived
<1>1. DeriveIdentity(u, g) \in Identity
  BY DEF DeriveIdentity, Identity
<1>2. SignedIn(p, u, g) \in Account
  BY <1>1 DEF SignedIn, Account
<1>3. QED
  BY <1>2 DEF SignedIn, Derived

LEMMA AddAccountTyped ==
  ASSUME NEW S, NEW accts \in Seq(S), NEW a \in S
  PROVE  AddAccount(accts, a) \in Seq(S)
<1> DEFINE found == {i \in DOMAIN accts : Key(accts[i]) = Key(a)}
           k == CHOOSE i \in found : \A j \in found : i <= j
<1>1. Append(accts, a) \in Seq(S)
  OBVIOUS
<1>2. [accts EXCEPT ![k] = a] \in Seq(S)
  <2> HIDE DEF k
  <2>1. Len(accts) \in Nat /\ accts \in [1..Len(accts) -> S]
    OBVIOUS
  <2>2. [accts EXCEPT ![k] = a] \in [1..Len(accts) -> S]
    BY <2>1
  <2>3. QED
    BY <2>1, <2>2
<1>3. QED
  BY <1>1, <1>2 DEF AddAccount

LEMMA LeftByLoginsTyped ==
  ASSUME NEW p \in Provider, NEW users \in Signed, NEW list \in LeftByLogins(p, users)
  PROVE  list \in Seq(Derived)
<1>1. PICK f \in [DOMAIN users -> Grant] :
        list = [i \in DOMAIN users |-> SignedIn(p, users[i], f[i])]
  BY DEF LeftByLogins
<1>2. users \in Seq(User) /\ DOMAIN users = 1..Len(users) /\ Len(users) \in Nat
  BY DeviceAccountsAssumption
<1>3. \A i \in DOMAIN users : SignedIn(p, users[i], f[i]) \in Derived
  BY <1>2, SignedInTyped
<1>4. list \in [1..Len(users) -> Derived]
  BY <1>1, <1>2, <1>3
<1>5. QED
  BY <1>2, <1>4

(* The cursor points at one of the provider's accounts: counting from the  *)
(* first, each number below theirs is the place of one.                    *)
LEMMA NextAccountTyped ==
  ASSUME NEW accts \in Seq(Derived), NEW p, AccountsOf(accts, p) # {}, NEW c \in Nat
  PROVE  /\ NextAccount(accts, p, c) \in Derived
         /\ NextCursor(accts, p, c) \in Nat
<1> DEFINE idxs == AccountsOf(accts, p)
           R == {q \in idxs \X idxs : q[1] < q[2]}
           N == Cardinality(idxs)
<1>1. idxs \subseteq DOMAIN accts /\ DOMAIN accts = 1..Len(accts) /\ Len(accts) \in Nat
  BY DEF AccountsOf
<1>2. IsFiniteSet(idxs) /\ idxs \subseteq Nat
  <2> HIDE DEF idxs
  <2>1. IsFiniteSet(1..Len(accts))
    BY <1>1, FS_Interval
  <2>2. idxs \subseteq 1..Len(accts)
    BY <1>1
  <2>3. QED
    BY <1>1, <2>1, <2>2, FS_Subset
<1>3. Orders(R, idxs)
  BY <1>2 DEF Orders
<1>4. N \in Nat /\ N # 0
  BY <1>2, FS_CardinalityType, FS_EmptySet
<1>5. c % N \in 0..(N - 1) /\ (c + 1) % N \in Nat
  BY <1>4
<1>6. PICK x \in idxs : Place(idxs, R, x) = (c % N) + 1
  <2>1. (c % N) + 1 \in 1..N
    BY <1>4, <1>5
  <2> HIDE DEF idxs, R
  <2>2. QED
    BY <1>2, <1>3, <2>1, EveryPlaceTaken
<1>7. Before(idxs, R, x) = {j \in idxs : j < x}
  BY DEF Before
<1>8. IsFiniteSet(Before(idxs, R, x)) /\ Before(idxs, R, x) \subseteq idxs
  BY <1>2, <1>7, FS_Subset
<1>9. Cardinality({j \in idxs : j < x}) = c % N
  <2>1. Cardinality(Before(idxs, R, x)) \in Nat
    BY <1>8, FS_CardinalityType
  <2>2. Cardinality(Before(idxs, R, x)) + 1 = (c % N) + 1
    BY <1>6 DEF Place
  <2>3. Cardinality(Before(idxs, R, x)) = c % N
    BY <1>4, <1>5, <2>1, <2>2
  <2>4. QED
    BY <1>7, <2>3
<1>10. (CHOOSE i \in idxs : Cardinality({j \in idxs : j < i}) = c % N) \in idxs
  BY <1>9
<1>11. NextAccount(accts, p, c) \in Derived
  BY <1>1, <1>10 DEF NextAccount
<1>12. QED
  BY <1>5, <1>11 DEF NextCursor

(* What each step makes of an actor.                                       *)
LEMMA JobOf ==
  ASSUME InMemory, NEW r \in Actor
  PROVE  /\ act[r] \in ActorJob
         /\ Doing(r, "take") => act[r] \in TakeJob
         /\ Doing(r, "refresh") => act[r] \in RefreshJob
         /\ Doing(r, "sent") \/ Doing(r, "renew") \/ Doing(r, "restore") => act[r] \in AccountJob
         /\ Doing(r, "put") => act[r] \in PutJob
         /\ Holds(r) <=> act[r] \in Carrying
BY DEF InMemory, ActorJob, AtRest, TakeJob, Carrying, RefreshJob, AccountJob, PutJob, Doing, Holds

LEMMA RouteParts ==
  ASSUME NEW route \in Route
  PROVE  /\ Head(route) \in Provider
         /\ Len(route) # 1 => Tail(route) \in Route
<1>1. route \in Seq(Provider) /\ Len(route) \in Nat /\ Len(route) # 0
  BY DEF Route
<1>2. Head(route) \in Provider /\ Tail(route) \in Seq(Provider) /\ Len(Tail(route)) = Len(route) - 1
  BY <1>1
<1>3. Len(route) # 1 => Tail(route) # <<>>
  BY <1>1, <1>2
<1>4. QED
  BY <1>2, <1>3 DEF Route

LEMMA TakingTyped ==
  ASSUME InMemory, NEW route \in Route
  PROVE  Taking(route) \in ActorJob /\ Taking(route).pc = "take"
<1>1. current \in Loaded
  BY MemoryBounds DEF InMemory, Loaded, Store
<1>2. QED
  BY <1>1 DEF Taking, ActorJob, TakeJob

(* An actor that holds no lock goes on without taking one.                 *)
LEMMA ActKeeps ==
  ASSUME InMemory, NEW r \in Actor, NEW j \in ActorJob, act' = [act EXCEPT ![r] = j],
         ~Doing(r, "refresh"), j.pc # "refresh", UNCHANGED holder
  PROVE  /\ act' \in [Actor -> ActorJob]
         /\ \A q \in Actor, s \in Store : holder'[s] = q <=> Locks(q, s)'
BY DEF InMemory, Locks, Doing

LEMMA WithAccountTyped ==
  ASSUME InMemory, NEW r \in Actor, NEW pc \in {"sent", "renew", "restore", "put"},
         NEW a \in Derived, act[r] \in TakeJob \cup Carrying
  PROVE  \E j \in ActorJob : j.pc = pc /\ WithAccount(r, pc, a) = [act EXCEPT ![r] = j]
<1> DEFINE j == [pc |-> pc, route |-> act[r].route, acct |-> a,
                 store |-> IF pc = "put" THEN current ELSE 0]
<1>1. act[r].route \in Route /\ current \in Loaded
  BY MemoryBounds DEF TakeJob, Carrying, RefreshJob, AccountJob, PutJob, InMemory, Loaded, Store
<1>2. j \in ActorJob /\ j.pc = pc
  BY <1>1 DEF ActorJob, Carrying, AccountJob, PutJob
<1>3. WithAccount(r, pc, a) = [act EXCEPT ![r] = j]
  BY DEF WithAccount, InMemory
<1> HIDE DEF j
<1>4. QED
  BY <1>2, <1>3

LEMMA NextCandidateTyped ==
  ASSUME InMemory, NEW r \in Actor, act[r] \in TakeJob \cup Carrying, NextCandidate(r)
  PROVE  \E j \in ActorJob : j.pc # "refresh" /\ act' = [act EXCEPT ![r] = j]
<1>1. act[r].route \in Route
  BY DEF TakeJob, Carrying, RefreshJob, AccountJob, PutJob
<1>2. act' = [act EXCEPT ![r] = IF Len(act[r].route) = 1 THEN AtRest ELSE Taking(Tail(act[r].route))]
  BY DEF NextCandidate, InMemory
<1>3. AtRest \in ActorJob /\ AtRest.pc # "refresh"
  BY DEF ActorJob, AtRest
<1>4. Len(act[r].route) # 1 => Taking(Tail(act[r].route)) \in ActorJob
                               /\ Taking(Tail(act[r].route)).pc # "refresh"
  BY <1>1, RouteParts, TakingTyped
<1>5. QED
  BY <1>2, <1>3, <1>4

(* The rest of refresh_if_needed: the grant counts for its user whether or *)
(* not it arrives.                                                         *)
LEMMA RefreshedTyped ==
  ASSUME InMemory, NEW r \in Actor, NEW pc \in {"sent", "restore"}, Refreshed(r, pc),
         act[r] \in RefreshJob \cup AccountJob
  PROVE  /\ issued' \in [User -> 0..MaxGrants] /\ UNCHANGED due
         /\ \E j \in ActorJob : j.pc = pc /\ act' = [act EXCEPT ![r] = j]
<1>1. Mine(r) \in Derived
  BY DEF Mine, RefreshJob, AccountJob
<1>2. CASE Refused(r, pc)
  BY <1>1, <1>2, WithAccountTyped DEF Refused, idp, InMemory, Carrying
<1>3. CASE Granted(r, pc)
  <2> DEFINE a == Mine(r)
             g == issued[a.user] + 1
  <2>1. /\ g <= MaxGrants /\ issued' = [issued EXCEPT ![a.user] = g] /\ UNCHANGED due
        /\ \E b \in {a, SignedIn(a.provider, a.user, g)} : act' = WithAccount(r, pc, b)
    BY <1>3 DEF Granted
  <2>2. a.user \in User /\ a.provider \in Provider /\ issued[a.user] \in 0..MaxGrants
    BY <1>1 DEF Derived, Account, InMemory
  <2>3. g \in Grant /\ g \in 0..MaxGrants
    BY <2>1, <2>2, MemoryBounds DEF Grant
  <2>4. SignedIn(a.provider, a.user, g) \in Derived
    BY <2>2, <2>3, SignedInTyped
  <2>5. issued' \in [User -> 0..MaxGrants]
    BY <2>1, <2>3 DEF InMemory
  <2>6. QED
    BY <1>1, <2>1, <2>4, <2>5, WithAccountTyped DEF Carrying
<1>4. QED
  BY <1>2, <1>3 DEF Refreshed

(* next_account, and the refresh under the lock.                           *)
LEMMA TakeTyped ==
  ASSUME InMemory, NEW r \in Actor, Take(r)
  PROVE  InMemory'
<1> DEFINE s == act[r].store
           p == Head(act[r].route)
           a == NextAccount(accounts[s], p, cursor[s][p])
           n == NextCursor(accounts[s], p, cursor[s][p])
<1>1. Doing(r, "take") /\ act[r] \in TakeJob /\ s # 0 /\ holder[s] = NoOne
      /\ AccountsOf(accounts[s], p) # {} /\ UNCHANGED <<issued, due, accounts, current, loads>>
  BY JobOf DEF Take, idp
<1>2. s \in Store /\ p \in Provider /\ act[r].route \in Route
  BY <1>1, RouteParts DEF TakeJob, Loaded
<1>l. \A q \in Actor, x \in Store : holder[x] = q <=> Locks(q, x)
  BY DEF InMemory
<1>3. a \in Derived /\ n \in Nat
  <2>1. accounts[s] \in Seq(Derived) /\ cursor[s][p] \in Nat
    BY <1>2 DEF InMemory
  <2> HIDE DEF s, p
  <2>2. QED
    BY <1>1, <2>1, NextAccountTyped
<1>4. cursor' = [cursor EXCEPT ![s] = [cursor[s] EXCEPT ![p] = n]]
  BY <1>2 DEF Take, InMemory
<1> HIDE DEF a, n
<1>5. cursor' \in [Store -> [Provider -> Nat]]
  BY <1>2, <1>3, <1>4 DEF InMemory
<1>6. /\ act' \in [Actor -> ActorJob]
      /\ holder' \in [Store -> Actor \cup {NoOne}]
      /\ \A q \in Actor, x \in Store : holder'[x] = q <=> Locks(q, x)'
  <2>1. CASE UNCHANGED holder /\ \E pc \in {"sent", "renew", "restore"} : act' = WithAccount(r, pc, a)
    <3>1. PICK pc \in {"sent", "renew", "restore"} : act' = WithAccount(r, pc, a)
      BY <2>1
    <3>2. PICK j \in ActorJob : j.pc = pc /\ act' = [act EXCEPT ![r] = j]
      BY <1>1, <1>3, <3>1, WithAccountTyped
    <3>3. ~Doing(r, "refresh") /\ j.pc # "refresh"
      BY <1>1, <3>2 DEF Doing
    <3>4. QED
      BY <2>1, <3>2, <3>3, ActKeeps DEF InMemory
  <2>2. CASE holder' = [holder EXCEPT ![s] = r] /\ act' = WithAccount(r, "refresh", a)
    <3> DEFINE j == [pc |-> "refresh", route |-> act[r].route, acct |-> a, store |-> s]
    <3>1. j \in ActorJob
      BY <1>2, <1>3 DEF ActorJob, Carrying, RefreshJob
    <3>2. act' = [act EXCEPT ![r] = j]
      BY <2>2 DEF WithAccount, InMemory
    <3>3. act' \in [Actor -> ActorJob] /\ act'[r] = j /\ \A q \in Actor \ {r} : act'[q] = act[q]
      BY <3>1, <3>2 DEF InMemory
    <3>4. /\ holder' \in [Store -> Actor \cup {NoOne}] /\ holder'[s] = r
          /\ \A x \in Store \ {s} : holder'[x] = holder[x]
      BY <1>2, <2>2 DEF InMemory
    <3>5. j.pc = "refresh" /\ j.store = s
      OBVIOUS
    <3> HIDE DEF j, s, p
    <3>6. \A x \in Store : Locks(r, x)' <=> x = s
      BY <3>3, <3>5 DEF Locks, Doing
    <3>7. \A q \in Actor \ {r}, x \in Store : Locks(q, x)' <=> Locks(q, x)
      BY <3>3 DEF Locks, Doing
    <3>8. \A x \in Store : holder[x] # r
      BY <1>1, <1>l DEF Locks, Doing
    <3>9. \A q \in Actor : ~Locks(q, s)
      BY <1>1, <1>2, <1>l, MemoryBounds
    <3>10. \A q \in Actor, x \in Store : holder'[x] = q <=> Locks(q, x)'
      BY <1>2, <1>l, <3>4, <3>6, <3>7, <3>8, <3>9
    <3>11. QED
      BY <3>3, <3>4, <3>10
  <2>3. \/ UNCHANGED holder /\ \E pc \in {"sent", "renew", "restore"} : act' = WithAccount(r, pc, a)
        \/ holder' = [holder EXCEPT ![s] = r] /\ act' = WithAccount(r, "refresh", a)
    BY DEF Take, a
  <2>4. QED
    BY <2>1, <2>2, <2>3
<1>7. QED
  BY <1>1, <1>5, <1>6 DEF InMemory, Store

LEMMA RefreshedInLockTyped ==
  ASSUME InMemory, NEW r \in Actor, RefreshedInLock(r)
  PROVE  InMemory'
<1> DEFINE s == act[r].store
<1>1. /\ act[r] \in RefreshJob /\ s \in Store /\ act[r].pc = "refresh"
      /\ Refreshed(r, "sent") /\ holder' = [holder EXCEPT ![s] = NoOne]
      /\ UNCHANGED <<accounts, cursor, current, loads>>
  BY JobOf DEF RefreshedInLock, RefreshJob
<1>2. /\ issued' \in [User -> 0..MaxGrants] /\ UNCHANGED due
      /\ \E j \in ActorJob : j.pc = "sent" /\ act' = [act EXCEPT ![r] = j]
  BY <1>1, RefreshedTyped
<1>3. PICK j \in ActorJob : j.pc = "sent" /\ act' = [act EXCEPT ![r] = j]
  BY <1>2
<1>4. act' \in [Actor -> ActorJob] /\ act'[r] = j /\ \A q \in Actor \ {r} : act'[q] = act[q]
  BY <1>3 DEF InMemory
<1>5. /\ holder' \in [Store -> Actor \cup {NoOne}] /\ holder'[s] = NoOne
      /\ \A x \in Store \ {s} : holder'[x] = holder[x]
  BY <1>1 DEF InMemory
<1> HIDE DEF s
<1>6. \A x \in Store : ~Locks(r, x)'
  BY <1>3, <1>4 DEF Locks, Doing
<1>7. \A q \in Actor \ {r}, x \in Store : Locks(q, x)' <=> Locks(q, x)
  BY <1>4 DEF Locks, Doing
<1>8. \A x \in Store : Locks(r, x) <=> x = s
  BY <1>1 DEF Locks, Doing, s
<1>l. \A q \in Actor, x \in Store : holder[x] = q <=> Locks(q, x)
  BY DEF InMemory
<1>9. \A q \in Actor, x \in Store : holder'[x] = q <=> Locks(q, x)'
  BY <1>l, <1>5, <1>6, <1>7, <1>8, MemoryBounds
<1>10. QED
  BY <1>1, <1>2, <1>4, <1>5, <1>9 DEF InMemory, Store

(* The steps that hold no lock and take none.                              *)
LEMMA LocklessTyped ==
  ASSUME InMemory, NEW r \in Actor,
         \/ SkipUnavailable(r) \/ Accept(r) \/ GiveUp(r) \/ Reject(r) \/ Renewed(r)
         \/ FindStore(r) \/ Restore(r)
         \/ \E route \in Route : Begin(r, route)
  PROVE  InMemory'
<1>1. ~Doing(r, "refresh") /\ UNCHANGED <<cursor, holder, current, loads>>
  BY DEF SkipUnavailable, Accept, GiveUp, Reject, Renewed, FindStore, Restore, PutBack, Begin, Doing
<1>2. /\ issued' \in [User -> 0..MaxGrants] /\ UNCHANGED due
      /\ \E j \in ActorJob : j.pc # "refresh" /\ act' = [act EXCEPT ![r] = j]
  <2>1. CASE SkipUnavailable(r) \/ GiveUp(r) \/ Restore(r)
    <3>1. act[r] \in TakeJob \cup Carrying /\ NextCandidate(r)
      BY <2>1, JobOf DEF SkipUnavailable, GiveUp, Restore, PutBack, Carrying
    <3>2. UNCHANGED <<issued, due>>
      BY <2>1 DEF SkipUnavailable, GiveUp, Restore, PutBack, idp
    <3>3. QED
      BY <3>1, <3>2, NextCandidateTyped DEF InMemory
  <2>2. CASE Accept(r)
    <3>1. AtRest \in ActorJob /\ AtRest.pc # "refresh"
      BY DEF ActorJob, AtRest
    <3>2. QED
      BY <2>2, <3>1 DEF Accept, idp, InMemory
  <2>3. CASE Reject(r)
    <3>1. act[r] \in AccountJob /\ UNCHANGED <<issued, due>>
          /\ \E pc \in {"renew", "restore"} : act' = WithAccount(r, pc, Mine(r))
      BY <2>3, JobOf DEF Reject, idp
    <3>2. Mine(r) \in Derived
      BY <3>1 DEF Mine, AccountJob
    <3>3. PICK pc \in {"renew", "restore"} : act' = WithAccount(r, pc, Mine(r))
      BY <3>1
    <3>4. PICK j \in ActorJob : j.pc = pc /\ act' = [act EXCEPT ![r] = j]
      BY <3>1, <3>2, <3>3, WithAccountTyped DEF Carrying
    <3>5. QED
      BY <3>1, <3>3, <3>4 DEF InMemory
  <2>4. CASE Renewed(r)
    <3>1. act[r] \in AccountJob /\ Refreshed(r, "restore")
      BY <2>4, JobOf DEF Renewed
    <3>2. /\ issued' \in [User -> 0..MaxGrants] /\ UNCHANGED due
          /\ \E j \in ActorJob : j.pc = "restore" /\ act' = [act EXCEPT ![r] = j]
      BY <3>1, RefreshedTyped
    <3>3. QED
      BY <3>2
  <2>5. CASE \E route \in Route : Begin(r, route)
    <3>1. PICK route \in Route : Begin(r, route)
      BY <2>5
    <3>2. Taking(route) \in ActorJob /\ Taking(route).pc = "take"
      BY TakingTyped
    <3>3. QED
      BY <3>1, <3>2 DEF Begin, idp, InMemory
  <2>6. CASE FindStore(r)
    <3>1. act[r] \in Carrying /\ UNCHANGED <<issued, due>> /\ Mine(r) \in Derived
      BY <2>6, JobOf DEF FindStore, idp, Carrying, Mine, AccountJob
    <3>2. CASE NextCandidate(r)
      BY <3>1, <3>2, NextCandidateTyped DEF InMemory
    <3>3. CASE act' = WithAccount(r, "put", Mine(r))
      <4>1. PICK j \in ActorJob : j.pc = "put" /\ act' = [act EXCEPT ![r] = j]
        BY <3>1, <3>3, WithAccountTyped
      <4>2. QED
        BY <3>1, <4>1 DEF InMemory
    <3>4. QED
      BY <2>6, <3>2, <3>3 DEF FindStore
  <2>7. QED
    BY <2>1, <2>2, <2>3, <2>4, <2>5, <2>6
<1>3. accounts' \in [Store -> Seq(Derived)]
  <2>1. CASE Restore(r)
    <3>1. Mine(r) \in Derived
      BY <2>1, JobOf DEF Restore, PutBack, Mine, PutJob
    <3>2. \A s \in Store : AddAccount(accounts[s], Mine(r)) \in Seq(Derived)
      BY <3>1, AddAccountTyped DEF InMemory
    <3>3. QED
      <4>1. act[r].store \in Store
        BY <2>1, JobOf DEF Restore, PutBack, PutJob, Loaded
      <4>2. QED
        BY <2>1, <3>2, <4>1 DEF Restore, PutBack, InMemory
  <2>2. CASE UNCHANGED accounts
    BY <2>2 DEF InMemory
  <2>3. QED
    BY <2>1, <2>2 DEF SkipUnavailable, Accept, GiveUp, Reject, Renewed, FindStore, Begin
<1>4. /\ act' \in [Actor -> ActorJob]
      /\ \A q \in Actor, s \in Store : holder'[s] = q <=> Locks(q, s)'
  BY <1>1, <1>2, ActKeeps
<1>5. QED
  BY <1>1, <1>2, <1>3, <1>4 DEF InMemory, Store

LEMMA ReloadTyped ==
  ASSUME InMemory, Reload
  PROVE  InMemory'
<1>1. UNCHANGED <<issued, due, cursor, holder, act>>
  BY DEF Reload, idp
<1>2. Dropped \in [Store -> Seq(Derived)]
  <2>1. <<>> \in Seq(Derived)
    OBVIOUS
  <2>2. QED
    BY <2>1 DEF Dropped, InMemory
<1>3. accounts' \in [Store -> Seq(Derived)]
  <2>1. CASE accounts' = Dropped
    BY <1>2, <2>1
  <2>2. CASE \E p \in Provider, users \in Signed : \E list \in LeftByLogins(p, users) :
               accounts' = [Dropped EXCEPT ![loads'] = list]
    <3>1. PICK p \in Provider, users \in Signed : \E list \in LeftByLogins(p, users) :
            accounts' = [Dropped EXCEPT ![loads'] = list]
      BY <2>2
    <3>2. PICK list \in LeftByLogins(p, users) : accounts' = [Dropped EXCEPT ![loads'] = list]
      BY <3>1
    <3>3. list \in Seq(Derived)
      BY LeftByLoginsTyped
    <3>4. QED
      BY <1>2, <3>2, <3>3
  <2>3. QED
    BY <2>1, <2>2 DEF Reload
<1>4. loads' \in 0..(MaxReloads + 1) /\ current' \in {0} \cup 1..loads'
  BY MemoryBounds DEF Reload, InMemory
<1>5. QED
  BY <1>1, <1>3, <1>4 DEF InMemory, Store, Locks, Doing

(* A login elsewhere, and time.                                            *)
LEMMA WorldTyped ==
  ASSUME InMemory, Expire \/ \E u \in User : Login(u)
  PROVE  InMemory'
<1>1. UNCHANGED <<accounts, cursor, holder, current, loads, act>>
  BY DEF Expire, Login
<1>2. issued' \in [User -> 0..MaxGrants] /\ due' \in 0..MaxGrants
  BY MemoryBounds DEF Expire, Login, InMemory
<1>3. QED
  BY <1>1, <1>2 DEF InMemory, Store, Locks, Doing

LEMMA MemoryStep ==
  ASSUME InMemory, [AccountsNext]_accountVars
  PROVE  InMemory'
<1>1. CASE UNCHANGED accountVars
  BY <1>1 DEF accountVars, idp, InMemory, Store, Locks, Doing
<1>2. ASSUME NEW r \in Actor, Continue(r) \/ Upstream(r) \/ Refreshing(r) PROVE InMemory'
  BY <1>2, TakeTyped, RefreshedInLockTyped, LocklessTyped DEF Continue, Upstream, Refreshing
<1>3. ASSUME NEW r \in Request, NEW route \in Routes, Arrive(r, route) PROVE InMemory'
  <2>1. route \in Route /\ r \in Actor
    BY DeviceAccountsAssumption DEF Route, Actor
  <2>2. QED
    BY <1>3, <2>1, LocklessTyped DEF Arrive
<1>4. ASSUME NEW p \in Provider, Warm(p) PROVE InMemory'
  <2>1. <<p>> \in Route /\ Warmer \in Actor
    BY DEF Route, Actor
  <2>2. QED
    BY <1>4, <2>1, LocklessTyped DEF Warm
<1>5. QED
  BY <1>1, <1>2, <1>3, <1>4, ReloadTyped, WorldTyped DEF AccountsNext

LEMMA InitTyped ==
  ASSUME AccountsInit
  PROVE  InMemory
<1>1. issued \in [User -> 0..MaxGrants] /\ due \in 0..MaxGrants
  BY MemoryBounds DEF AccountsInit
<1>2. accounts \in [Store -> Seq(Derived)]
  <2>1. PICK p \in Provider, users \in Signed : \E list \in LeftByLogins(p, users) :
          accounts = [s \in Store |-> IF s = 1 THEN list ELSE <<>>]
    BY DEF AccountsInit
  <2>2. PICK list \in LeftByLogins(p, users) :
          accounts = [s \in Store |-> IF s = 1 THEN list ELSE <<>>]
    BY <2>1
  <2>3. list \in Seq(Derived) /\ <<>> \in Seq(Derived)
    BY LeftByLoginsTyped
  <2>4. QED
    BY <2>2, <2>3
<1>3. cursor \in [Store -> [Provider -> Nat]] /\ holder \in [Store -> Actor \cup {NoOne}]
  BY DEF AccountsInit
<1>4. current \in {0} \cup 1..loads /\ loads \in 0..(MaxReloads + 1)
  BY MemoryBounds DEF AccountsInit
<1>5. act \in [Actor -> ActorJob] /\ \A r \in Actor : ~Doing(r, "refresh")
  BY DEF AccountsInit, ActorJob, AtRest, Doing
<1>6. \A r \in Actor, s \in Store : holder[s] = r <=> Locks(r, s)
  BY <1>5, MemoryBounds DEF AccountsInit, Locks
<1>7. QED
  BY <1>1, <1>2, <1>3, <1>4, <1>5, <1>6 DEF InMemory

(* For any users, routes, grants and reloads: what is in memory stays well *)
(* typed, so that next_account always finds the account its cursor is for, *)
(* and a store's lock is held by exactly the actor refreshing under it.    *)
THEOREM AccountsTyped == AccountsSpec => []AccountsTypeOK
<1>1. AccountsInit => InMemory
  BY InitTyped
<1>2. InMemory /\ [AccountsNext]_accountVars => InMemory'
  BY MemoryStep
<1>3. InMemory => AccountsTypeOK
  <2>1. ASSUME InMemory, NEW r \in Actor, Holds(r) PROVE Mine(r) \in Account
    BY <2>1, JobOf DEF Mine, Carrying, RefreshJob, AccountJob, PutJob, Derived
  <2>2. InMemory => accounts \in [Store -> Seq(Account)]
    <3>1. ASSUME InMemory, NEW s \in Store PROVE accounts[s] \in Seq(Account)
      <4>1. Len(accounts[s]) \in Nat /\ accounts[s] \in [1..Len(accounts[s]) -> Derived]
        BY <3>1 DEF InMemory
      <4>2. accounts[s] \in [1..Len(accounts[s]) -> Account]
        BY <4>1 DEF Derived
      <4>3. QED
        BY <4>1, <4>2
    <3>2. QED
      BY <3>1 DEF InMemory
  <2>3. QED
    BY <2>1, <2>2 DEF InMemory, AccountsTypeOK
<1>4. QED
  BY <1>1, <1>2, <1>3, PTL DEF AccountsSpec

(* For any users, routes, grants and reloads: however refreshes, put-backs *)
(* and reloads overlap, a store lists a user whose identity can be told    *)
(* once for each provider, and a nameless one once for each grant at most. *)
THEOREM OneShareEachAlways == AccountsSpec => []OneShareEach
<1>1. AccountsInit => InMemory /\ StoresClean
  BY InitTyped, InitClean
<1>2. InMemory /\ StoresClean /\ [AccountsNext]_accountVars => (InMemory /\ StoresClean)'
  BY MemoryStep, StepClean
<1>3. ASSUME InMemory, StoresClean PROVE OneShareEach
  <2> SUFFICES ASSUME NEW s \in Store,
                      NEW i \in DOMAIN accounts[s], NEW j \in DOMAIN accounts[s],
                      accounts[s][i].provider = accounts[s][j].provider,
                      accounts[s][i].user = accounts[s][j].user,
                      \/ accounts[s][i].user \notin Nameless
                      \/ accounts[s][i].grant = accounts[s][j].grant
               PROVE  i = j
    BY DEF OneShareEach
  <2>1. accounts[s] \in Seq(Derived)
    BY <1>3 DEF InMemory
  <2>2. accounts[s][i] \in Derived /\ accounts[s][j] \in Derived
    BY <2>1
  <2>3. accounts[s][i].id = accounts[s][j].id
    BY <2>2 DEF Derived, DeriveIdentity
  <2>4. Key(accounts[s][i]) = Key(accounts[s][j])
    BY <2>3 DEF Key
  <2>5. QED
    BY <1>3, <2>4 DEF StoresClean, Clean, UniqueKeys
<1>4. QED
  BY <1>1, <1>2, <1>3, PTL DEF AccountsSpec

-----------------------------------------------------------------------------
Whole(c) == DOMAIN c = {"keys", "devices", "meta"}

JobFine(j) ==
  /\ "at" \in DOMAIN j
  /\ j.at \in {"page", "save", "post"} => Whole(j.cfg)
  /\ j.at = "post" /\ j.base # Unreadable => KeptBy(j.base, j.shown, j.cfg)

Caller == Thread \cup {Server}
Jobs == DOMAIN job = Caller /\ \A t \in Caller : JobFine(job[t])

LoginsInv ==
  /\ kiro \subseteq Flow /\ DOMAIN flow = Flow
  /\ config = Unreadable \/ Whole(config)
  /\ Jobs

-----------------------------------------------------------------------------
(* How a step changes what callers are doing: one of them does something   *)
(* else; only a post that saves is no mere work.                           *)
Acts(u) == job' = [job EXCEPT ![u] = job'[u]] /\ JobFine(job'[u])
Works(u) == ~At(u, "post") /\ Acts(u)

LEMMA IdleFine == JobFine(Idle) /\ Idle.at = "idle"
BY DEF JobFine, Idle

LEMMA DoActs ==
  ASSUME Jobs, NEW u \in Caller, NEW j, JobFine(j), Do(u, j)
  PROVE  Acts(u) /\ job'[u] = j
BY DEF Jobs, Do, Acts

LEMMA GotoActs ==
  ASSUME Jobs, NEW u \in Caller, NEW step, step \notin {"page", "save", "post"}, Goto(u, step)
  PROVE  Acts(u)
<1> DEFINE j == [job[u] EXCEPT !.at = step]
<1>1. "at" \in DOMAIN job[u]
  BY DEF Jobs, JobFine
<1>2. "at" \in DOMAIN j /\ j.at = step
  BY <1>1
<1>3. JobFine(j)
  <2> HIDE DEF j
  <2>1. QED
    BY <1>2 DEF JobFine
<1>4. job' = [job EXCEPT ![u] = j]
  BY DEF Goto
<1> HIDE DEF j
<1>5. job'[u] = j
  BY <1>4 DEF Jobs
<1>6. QED
  BY <1>3, <1>4, <1>5 DEF Acts

LEMMA ActsKeepsJobs ==
  ASSUME Jobs, NEW u \in Caller, Acts(u)
  PROVE  Jobs'
<1>1. DOMAIN job' = Caller
  BY DEF Jobs, Acts
<1>2. \A t \in Caller : JobFine(job'[t])
  <2> SUFFICES ASSUME NEW t \in Caller
               PROVE  JobFine(job'[t])
    OBVIOUS
  <2>1. CASE t = u
    BY <2>1 DEF Acts
  <2>2. CASE t # u
    <3>1. job'[t] = job[t]
      BY <2>2 DEF Jobs, Acts
    <3>2. QED
      BY <3>1 DEF Jobs
  <2>3. QED
    BY <2>1, <2>2
<1>3. QED
  BY <1>1, <1>2 DEF Jobs, Caller, JobFine, Whole, KeptBy, WithAccounts

-----------------------------------------------------------------------------
(* Configurations stay whole in every hand.                                *)
LEMMA WizardLoadsWhole ==
  ASSUME LoginsInv
  PROVE  Whole(WizardLoad)
<1> DEFINE c == IF config = Unreadable THEN Defaults ELSE config
<1>1. Whole(c)
  BY DEF LoginsInv, Whole, Defaults
<1> HIDE DEF c
<1>2. \A list : Whole(Healed(c, list))
  BY <1>1 DEF Whole, Healed
<1>3. QED
  BY <1>2 DEF WizardLoad, c

LEMMA CliLoadsWhole ==
  ASSUME LoginsInv
  PROVE  Whole(CliLoad(config))
BY DEF LoginsInv, Whole, CliLoad, ServerReads, Defaults

LEMMA EntriesWhole ==
  ASSUME NEW c, Whole(c), NEW j, NEW keys
  PROVE  Whole(Entered(j, c)) /\ Whole(Left(j, c)) /\ Whole([c EXCEPT !.keys = keys])
BY DEF Whole, Entered, Left

LEMMA CarriedWhole ==
  ASSUME NEW c, Whole(c)
  PROVE  Whole(Carried(c))
<1>1. CASE config = Unreadable
  BY <1>1 DEF Carried
<1>2. CASE config # Unreadable
  <2> DEFINE kept == WithAccounts(config) \ c.devices
             more == {m \in config.meta : m.who[1] \in kept}
  <2>1. Carried(c) = [c EXCEPT !.devices = @ \cup kept, !.meta = @ \cup more]
    BY <1>2 DEF Carried
  <2> HIDE DEF kept, more
  <2>2. QED
    BY <2>1 DEF Whole
<1>3. QED
  BY <1>1, <1>2

-----------------------------------------------------------------------------
(* The steps of a login.                                                   *)
LEMMA LoginSteps ==
  ASSUME LoginsInv, NEW t \in Thread, NEW f,
         \/ DevicePoll(t, f) \/ CliLogin(t, f) \/ Callback(t, f) \/ CliCallback(t, f)
         \/ PollGranted(t) \/ PollFails(t) \/ Exchange(t)
  PROVE  Works(t) /\ UNCHANGED config
<1> t \in Caller /\ Jobs
  BY DEF Caller, LoginsInv
<1>1. \A j : j.at \notin {"page", "save", "post"} /\ "at" \in DOMAIN j => JobFine(j)
  BY DEF JobFine
<1>2. CASE DevicePoll(t, f)
  <2>1. Do(t, [at |-> "poll", by |-> "wizard", f |-> f]) /\ At(t, "idle") /\ UNCHANGED config
    BY <1>2 DEF DevicePoll, Free, files
  <2>2. QED
    BY <2>1, <1>1, DoActs DEF Works, At
<1>3. CASE CliLogin(t, f)
  <2>1. \E at \in {"poll", "wait"} : Do(t, [at |-> at, by |-> "cli", f |-> f])
    BY <1>3 DEF CliLogin
  <2>2. At(t, "idle") /\ UNCHANGED config
    BY <1>3 DEF CliLogin, Free, files
  <2>3. QED
    BY <2>1, <2>2, <1>1, DoActs DEF Works, At
<1>4. CASE Callback(t, f)
  <2>1. \/ Do(t, Idle)
        \/ Do(t, [at |-> "exchange", by |-> "wizard", f |-> google, came |-> f])
    BY <1>4 DEF Callback
  <2>2. At(t, "idle") /\ UNCHANGED config
    BY <1>4 DEF Callback, Free, files
  <2>3. QED
    BY <2>1, <2>2, <1>1, DoActs, IdleFine DEF Works, At
<1>5. CASE CliCallback(t, f)
  <2>1. \/ Do(t, Idle)
        \/ Do(t, [at |-> "exchange", by |-> "cli", f |-> job[t].f, came |-> f])
    BY <1>5 DEF CliCallback
  <2>2. At(t, "wait") /\ UNCHANGED config
    BY <1>5 DEF CliCallback, files
  <2>3. QED
    BY <2>1, <2>2, <1>1, DoActs, IdleFine DEF Works, At
<1>6. \A by, g : JobFine(Recording(by, g))
  BY DEF Recording, Edit, JobFine
<1>7. CASE PollGranted(t)
  <2>1. Do(t, Idle) \/ Do(t, Recording(job[t].by, job[t].f))
    BY <1>7 DEF PollGranted
  <2>2. At(t, "poll") /\ UNCHANGED config
    BY <1>7 DEF PollGranted, files
  <2>3. QED
    BY <2>1, <2>2, <1>6, DoActs, IdleFine DEF Works, At
<1>8. CASE PollFails(t)
  <2>1. Do(t, Idle) /\ At(t, "poll") /\ UNCHANGED config
    BY <1>8 DEF PollFails, files
  <2>2. QED
    BY <2>1, DoActs, IdleFine DEF Works, At
<1>9. CASE Exchange(t)
  <2>1. Do(t, Idle) \/ Do(t, Recording(job[t].by, job[t].f))
    BY <1>9 DEF Exchange
  <2>2. At(t, "exchange") /\ UNCHANGED config
    BY <1>9 DEF Exchange, files
  <2>3. QED
    BY <2>1, <2>2, <1>6, DoActs, IdleFine DEF Works, At
<1>10. QED
  BY <1>2, <1>3, <1>4, <1>5, <1>7, <1>8, <1>9

-----------------------------------------------------------------------------
(* The steps on the account store, the server's among them.                *)
LEMMA LogoutStep ==
  ASSUME LoginsInv, NEW t \in Thread, NEW p, NEW who, Logout(t, p, who)
  PROVE  Works(t) /\ UNCHANGED <<pending, flow, config>>
<1>1. JobFine(Edit("cli", "logout", p, who, NoFlow))
  BY DEF Edit, JobFine
<1>2. Do(t, Edit("cli", "logout", p, who, NoFlow)) /\ At(t, "idle")
  BY DEF Logout, Called, Free
<1>3. QED
  BY <1>1, <1>2, DoActs DEF Logout, files, LoginsInv, Works, At, Caller

LEMMA LoadStoreStep ==
  ASSUME LoginsInv, NEW t \in Thread, LoadStore(t)
  PROVE  Works(t) /\ UNCHANGED <<pending, flow, config>>
<1>1. \A by, kind, p, who, base, list :
        JobFine([at |-> "write", by |-> by, kind |-> kind, p |-> p, who |-> who,
                 base |-> base, list |-> list])
  BY DEF JobFine
<1>2. PICK j : Do(t, j) /\ JobFine(j)
  BY <1>1 DEF LoadStore
<1>3. At(t, "load") /\ UNCHANGED <<pending, flow, config>>
  BY DEF LoadStore, files
<1>4. QED
  BY <1>2, <1>3, DoActs DEF LoginsInv, Works, At, Caller

LEMMA SavingStep ==
  ASSUME LoginsInv, NEW t \in Caller, Saving(t)
  PROVE  Works(t) /\ UNCHANGED <<pending, flow, config>>
<1>1. UNCHANGED <<pending, flow, config>> /\ (At(t, "write") \/ At(t, "rename"))
  BY DEF Saving, WriteStore, RenameStore
<1>2. Do(t, Idle) \/ \E step \in {"rename", "serve", "config"} : Goto(t, step)
  BY DEF Saving, WriteStore, RenameStore
<1>3. Acts(t)
  BY <1>2, DoActs, GotoActs, IdleFine DEF LoginsInv
<1>4. QED
  BY <1>1, <1>3 DEF Works, At

LEMMA ServerSteps ==
  ASSUME LoginsInv, ServerLoads \/ ServerSaves
  PROVE  Works(Server) /\ UNCHANGED <<pending, flow, config>>
<1> Server \in Caller /\ Jobs
  BY DEF Caller, LoginsInv
<1>1. CASE ServerLoads
  <2>1. JobFine([at |-> "serve", by |-> "server", who |-> {}, base |-> store, list |-> store])
    BY DEF JobFine
  <2>2. Acts(Server)
    BY <1>1, <2>1, DoActs, IdleFine DEF ServerLoads
  <2>3. QED
    BY <1>1, <2>2 DEF ServerLoads, Works, At, files
<1>2. CASE ServerSaves
  <2>1. Acts(Server)
    BY <1>2, GotoActs DEF ServerSaves
  <2>2. QED
    BY <1>2, <2>1 DEF ServerSaves, Works, At, files
<1>3. QED
  BY <1>1, <1>2

-----------------------------------------------------------------------------
(* The steps on config.toml.                                               *)
LEMMA ConfigFine ==
  ASSUME NEW c, Whole(c)
  PROVE  JobFine([at |-> "save", cfg |-> c]) /\ JobFine([at |-> "page", cfg |-> c])
BY DEF JobFine

LEMMA LoadConfigStep ==
  ASSUME LoginsInv, NEW t \in Thread, LoadConfig(t)
  PROVE  Works(t) /\ UNCHANGED <<pending, flow, config>>
<1> DEFINE c == IF job[t].by = "wizard" THEN WizardLoad ELSE CliLoad(config)
           d == IF job[t].kind = "login" THEN Entered(job[t], c) ELSE Left(job[t], c)
<1>1. Whole(c)
  BY WizardLoadsWhole, CliLoadsWhole
<1>2. Do(t, Idle) \/ Do(t, [at |-> "save", cfg |-> d])
  BY DEF LoadConfig
<1>3. At(t, "config") /\ UNCHANGED <<pending, flow, config>>
  BY DEF LoadConfig, files
<1> HIDE DEF c
<1>4. Whole(d)
  BY <1>1, EntriesWhole
<1> HIDE DEF d
<1>5. Acts(t)
  BY <1>2, <1>4, ConfigFine, IdleFine, DoActs DEF LoginsInv, Caller
<1>6. QED
  BY <1>3, <1>5 DEF Works, At

LEMMA SaveConfigStep ==
  ASSUME LoginsInv, NEW t \in Thread, SaveConfig(t)
  PROVE  /\ Works(t) /\ UNCHANGED <<pending, flow>>
         /\ config' = config \/ Whole(config')
<1>1. Do(t, Idle) /\ At(t, "save") /\ UNCHANGED <<pending, flow>> /\ config' \in {job[t].cfg, config}
  BY DEF SaveConfig
<1>2. Whole(job[t].cfg)
  BY <1>1 DEF LoginsInv, Jobs, JobFine, At, Caller
<1>3. Works(t)
  BY <1>1, DoActs, IdleFine DEF LoginsInv, Works, At, Caller
<1>4. QED
  BY <1>1, <1>2, <1>3

LEMMA CommandSteps ==
  ASSUME LoginsInv, NEW t \in Thread, (\E k \in ApiKey : CliKeys(t, k)) \/ WizardAuth(t) \/ OpenPage(t)
  PROVE  Works(t) /\ UNCHANGED <<pending, flow, config>>
<1>1. At(t, "idle") /\ UNCHANGED <<pending, flow, config>>
  BY DEF CliKeys, WizardAuth, OpenPage, Called, Free, files
<1>2. \E c : Whole(c) /\ (Do(t, [at |-> "save", cfg |-> c]) \/ Do(t, [at |-> "page", cfg |-> c]))
  <2>1. CASE \E k \in ApiKey : CliKeys(t, k)
    <3>1. PICK k \in ApiKey : CliKeys(t, k)
      BY <2>1
    <3>2. Do(t, [at |-> "save", cfg |-> [CliLoad(config) EXCEPT !.keys = @ \cup {k}]])
      BY <3>1 DEF CliKeys
    <3>3. Whole([CliLoad(config) EXCEPT !.keys = @ \cup {k}])
      BY CliLoadsWhole, EntriesWhole
    <3>4. QED
      BY <3>2, <3>3
  <2>2. CASE WizardAuth(t) \/ OpenPage(t)
    BY <2>2, WizardLoadsWhole DEF WizardAuth, OpenPage
  <2>3. QED
    BY <2>1, <2>2
<1>3. Acts(t)
  BY <1>2, ConfigFine, DoActs DEF LoginsInv, Caller
<1>4. QED
  BY <1>1, <1>3 DEF Works, At

(* The post of a page carries over what the file has accounts of.          *)
LEMMA CarriedKeeps ==
  ASSUME NEW c, Whole(c), config # Unreadable
  PROVE  KeptBy(config, c.devices, Carried(c))
<1> DEFINE kept == WithAccounts(config) \ c.devices
           more == {m \in config.meta : m.who[1] \in kept}
<1>1. Carried(c) = [c EXCEPT !.devices = @ \cup kept, !.meta = @ \cup more]
  BY DEF Carried
<1>2. Carried(c).devices = c.devices \cup kept /\ Carried(c).meta = c.meta \cup more
  <2> HIDE DEF kept, more
  <2>1. QED
    BY <1>1 DEF Whole
<1>3. ASSUME NEW p \in WithAccounts(config) \ c.devices
      PROVE  {m \in config.meta : m.who[1] = p} \subseteq Carried(c).meta
  BY <1>2
<1>4. QED
  BY <1>2, <1>3 DEF KeptBy

LEMMA PostStep ==
  ASSUME LoginsInv, NEW t \in Thread, NEW keys, PostConfig(t, keys)
  PROVE  Works(t) /\ UNCHANGED <<pending, flow, config>>
<1> DEFINE c == [job[t].cfg EXCEPT !.keys = keys]
           j == [at |-> "post", base |-> config, shown |-> job[t].cfg.devices, cfg |-> Carried(c)]
<1>1. Do(t, j) /\ At(t, "page") /\ UNCHANGED <<pending, flow, config>>
  BY DEF PostConfig, files
<1>2. Whole(job[t].cfg)
  BY <1>1 DEF LoginsInv, Jobs, JobFine, At, Caller
<1>3. Whole(c) /\ c.devices = job[t].cfg.devices
  BY <1>2, EntriesWhole DEF Whole
<1> HIDE DEF c
<1>4. Whole(Carried(c)) /\ (config # Unreadable => KeptBy(config, c.devices, Carried(c)))
  BY <1>3, CarriedWhole, CarriedKeeps
<1>5. JobFine(j)
  BY <1>3, <1>4 DEF JobFine
<1> HIDE DEF j
<1>6. QED
  BY <1>1, <1>5, DoActs DEF LoginsInv, Works, At, Caller

Kept(t) ==
  config # Unreadable /\ job[t].base = config => KeptBy(config, job[t].shown, config')

LEMMA SavePostedStep ==
  ASSUME LoginsInv, NEW t \in Thread, SavePosted(t)
  PROVE  /\ Acts(t) /\ UNCHANGED <<pending, flow>>
         /\ config' = config \/ Whole(config')
         /\ Kept(t)
<1>1. Do(t, Idle) /\ At(t, "post") /\ UNCHANGED <<pending, flow>> /\ config' \in {job[t].cfg, config}
  BY DEF SavePosted
<1>2. /\ Whole(job[t].cfg)
      /\ job[t].base # Unreadable => KeptBy(job[t].base, job[t].shown, job[t].cfg)
  BY <1>1 DEF LoginsInv, Jobs, JobFine, At, Caller
<1>3. Acts(t)
  BY <1>1, DoActs, IdleFine DEF LoginsInv, Caller
<1>4. config' = config => Kept(t)
  BY DEF Kept, KeptBy, WithAccounts
<1>5. config' = job[t].cfg => Kept(t)
  BY <1>2 DEF Kept
<1>6. QED
  BY <1>1, <1>2, <1>3, <1>4, <1>5

-----------------------------------------------------------------------------
(* Pending device codes.                                                   *)
Pending == kiro' \subseteq Flow /\ DOMAIN flow' = Flow
Retried == \A f \in kiro : f \in kiro' \/ flow'[f] = "used"

LEMMA Untouched ==
  ASSUME LoginsInv, UNCHANGED <<pending, flow>>
  PROVE  Pending /\ Retried
BY DEF LoginsInv, Pending, Retried, pending

LEMMA PendingSteps ==
  ASSUME LoginsInv, NEW t \in Thread, NEW f,
         \/ DevicePoll(t, f) \/ CliLogin(t, f) \/ Callback(t, f) \/ CliCallback(t, f)
         \/ PollGranted(t) \/ PollFails(t) \/ Exchange(t)
  PROVE  Pending /\ Retried
<1>1. DOMAIN flow' = Flow
  BY DEF LoginsInv, pending, DevicePoll, CliLogin, Initiated, Callback, CliCallback,
         PollGranted, PollFails, Exchange
<1>2. kiro' \subseteq Flow
  BY DEF LoginsInv, pending, DevicePoll, CliLogin, Initiated, Callback, CliCallback,
         PollGranted, PollFails, Exchange
<1>3. Retried
  <2>1. CASE PollGranted(t)
    <3>1. flow' = [flow EXCEPT ![job[t].f] = "used"] /\ (kiro' = kiro \/ kiro' = kiro \ {job[t].f})
      BY <2>1 DEF PollGranted
    <3>2. QED
      BY <3>1 DEF Retried, LoginsInv
  <2>2. CASE ~PollGranted(t)
    <3>1. kiro \subseteq kiro'
      BY <2>2 DEF pending, DevicePoll, CliLogin, Callback, CliCallback, PollFails, Exchange
    <3>2. QED
      BY <3>1 DEF Retried
  <2>3. QED
    BY <2>1, <2>2
<1>4. QED
  BY <1>1, <1>2, <1>3 DEF Pending

-----------------------------------------------------------------------------
(* What a step of anyone does.                                             *)
Aside == UNCHANGED job \/ \E u \in Caller : Works(u)
Posted == \E u \in Thread : Acts(u) /\ Kept(u)
ConfigWhole == config' = config \/ Whole(config')

LEMMA NextSteps ==
  ASSUME LoginsInv, [Next]_vars
  PROVE  Pending /\ Retried /\ ConfigWhole /\ (Aside \/ Posted)
<1> Thread \subseteq Caller /\ Server \in Caller
  BY DEF Caller
<1>1. ASSUME NEW f \in Flow, DeviceLogin(f) \/ Approve(f)
      PROVE  Pending /\ Retried /\ ConfigWhole /\ Aside
  <2>1. ConfigWhole /\ Aside
    BY <1>1 DEF DeviceLogin, Approve, files, ConfigWhole, Aside
  <2>2. DOMAIN flow' = Flow
    BY <1>1 DEF LoginsInv, DeviceLogin, Initiated, Approve
  <2>3. kiro' \subseteq Flow /\ kiro \subseteq kiro'
    BY <1>1, LoginsAssumption DEF LoginsInv, DeviceLogin, Approve, pending, LoginsAssumption
  <2>4. QED
    BY <2>1, <2>2, <2>3 DEF Pending, Retried
<1>2. ASSUME NEW t \in Thread, NEW f,
             \/ DevicePoll(t, f) \/ CliLogin(t, f) \/ Callback(t, f) \/ CliCallback(t, f)
             \/ PollGranted(t) \/ PollFails(t) \/ Exchange(t)
      PROVE  Pending /\ Retried /\ ConfigWhole /\ Aside
  <2>1. Pending /\ Retried
    BY <1>2, PendingSteps
  <2>2. Works(t) /\ UNCHANGED config
    BY <1>2, LoginSteps
  <2>3. QED
    BY <2>1, <2>2 DEF ConfigWhole, Aside
<1>3. ASSUME NEW u \in Caller, Works(u), UNCHANGED <<pending, flow, config>>
      PROVE  Pending /\ Retried /\ ConfigWhole /\ Aside
  BY <1>3, Untouched DEF ConfigWhole, Aside
<1>4. ASSUME NEW t \in Thread, NEW p, NEW who, Logout(t, p, who)
      PROVE  Pending /\ Retried /\ ConfigWhole /\ Aside
  BY <1>4, <1>3, LogoutStep
<1>5. ASSUME NEW t \in Thread, Recorded(t)
      PROVE  Pending /\ Retried /\ ConfigWhole /\ Aside
  <2>1. CASE LoadStore(t)
    BY <2>1, <1>3, LoadStoreStep
  <2>2. CASE LoadConfig(t)
    BY <2>2, <1>3, LoadConfigStep
  <2>3. CASE SaveConfig(t)
    BY <2>3, SaveConfigStep, Untouched DEF ConfigWhole, Aside
  <2>4. QED
    BY <1>5, <2>1, <2>2, <2>3 DEF Recorded
<1>6. ASSUME NEW t \in Caller, Saving(t)
      PROVE  Pending /\ Retried /\ ConfigWhole /\ Aside
  BY <1>6, <1>3, SavingStep
<1>7. ASSUME NEW t \in Thread, (\E k \in ApiKey : CliKeys(t, k)) \/ WizardAuth(t) \/ OpenPage(t)
      PROVE  Pending /\ Retried /\ ConfigWhole /\ Aside
  BY <1>7, <1>3, CommandSteps
<1>8. ASSUME NEW t \in Thread, NEW keys, PostConfig(t, keys)
      PROVE  Pending /\ Retried /\ ConfigWhole /\ Aside
  BY <1>8, <1>3, PostStep
<1>s. ASSUME NEW t \in Thread, SavePosted(t)
      PROVE  Pending /\ Retried /\ ConfigWhole /\ Posted
  BY <1>s, SavePostedStep, Untouched DEF ConfigWhole, Posted
<1>9. ASSUME ServerLoads \/ ServerSaves
      PROVE  Pending /\ Retried /\ ConfigWhole /\ Aside
  BY <1>9, <1>3, ServerSteps
<1>10. CASE UNCHANGED vars
  BY <1>10, Untouched DEF vars, files, ConfigWhole, Aside
<1>11. Kiro \subseteq Flow
  BY LoginsAssumption DEF LoginsAssumption
<1>12. QED
  BY <1>1, <1>2, <1>4, <1>5, <1>6, <1>7, <1>8, <1>s, <1>9, <1>10 DEF Next

-----------------------------------------------------------------------------
LEMMA InitFine ==
  ASSUME Init
  PROVE  LoginsInv
<1>1. kiro = {} /\ DOMAIN flow = Flow
  BY DEF Init
<1>2. config = Unreadable \/ Whole(config)
  BY DEF Init, Whole
<1>3. DOMAIN job = Caller /\ \A t \in Caller : job[t] = Idle
  BY DEF Init, Caller
<1>4. Jobs
  BY <1>3, IdleFine DEF Jobs
<1>5. QED
  BY <1>1, <1>2, <1>4 DEF LoginsInv

LEMMA Inductive ==
  ASSUME LoginsInv, [Next]_vars
  PROVE  LoginsInv'
<1>1. Pending /\ ConfigWhole /\ (Aside \/ Posted)
  BY NextSteps
<1>2. config' = Unreadable \/ Whole(config')
  BY <1>1 DEF ConfigWhole, LoginsInv
<1>3. Jobs'
  <2>1. CASE UNCHANGED job
    BY <2>1 DEF LoginsInv, Jobs, Caller, JobFine, Whole, KeptBy, WithAccounts
  <2>2. ASSUME NEW u \in Caller, Acts(u)
        PROVE  Jobs'
    BY <2>2, ActsKeepsJobs DEF LoginsInv
  <2>3. QED
    BY <1>1, <2>1, <2>2 DEF Aside, Posted, Works, Caller
<1>4. QED
  BY <1>1, <1>2, <1>3 DEF LoginsInv, Pending, Whole

LEMMA Always == Spec => []LoginsInv
<1>1. Init => LoginsInv
  BY InitFine
<1>2. LoginsInv /\ [Next]_vars => LoginsInv'
  BY Inductive
<1>3. QED
  BY <1>1, <1>2, PTL DEF Spec

(* For any number of logins, polls and threads: a device code that the     *)
(* wizard has shown stays pending until the identity provider has granted  *)
(* it, so device_poll can be called for it again.                          *)
THEOREM PollsCanBeRetriedAlways == Spec => PollsCanBeRetried
<1>1. LoginsInv /\ [Next]_vars => Retried
  BY NextSteps
<1>2. LoginsInv /\ [Next]_vars => [\A f \in kiro : f \in kiro' \/ flow'[f] = "used"]_vars
  BY <1>1 DEF Retried
<1>3. QED
  BY <1>2, Always, PTL DEF Spec, PollsCanBeRetried

(* For any accounts, pages and savers: the post of a page of the wizard    *)
(* (post_config) that saves over the file it has read keeps every device   *)
(* provider that has accounts there, and the accounts of each provider     *)
(* that the page did not show.                                             *)
THEOREM PostKeepsDevicesAlways == Spec => PostKeepsDevices
<1>1. ASSUME LoginsInv, [Next]_vars, NEW t \in Thread, At(t, "post"), job'[t] = Idle
      PROVE  Kept(t)
  <2>1. job[t] # Idle
    BY <1>1 DEF At, Idle
  <2>2. ASSUME NEW u \in Caller, Acts(u)
        PROVE  u = t
    BY <1>1, <2>1, <2>2 DEF Acts, LoginsInv, Jobs, Caller
  <2>3. ~Aside
    BY <1>1, <2>1, <2>2 DEF Aside, Works
  <2>4. PICK u \in Thread : Acts(u) /\ Kept(u)
    BY <1>1, <2>3, NextSteps DEF Posted
  <2>5. QED
    BY <1>1, <2>2, <2>4 DEF Caller
<1>2. LoginsInv /\ [Next]_vars =>
        [\A t \in Thread :
           (At(t, "post") /\ job'[t] = Idle /\ config # Unreadable /\ job[t].base = config)
           => KeptBy(config, job[t].shown, config')]_vars
  BY <1>1 DEF Kept
<1>3. QED
  BY <1>2, Always, PTL DEF Spec, PostKeepsDevices

-----------------------------------------------------------------------------
(* Types of the files, and of what each caller has in its hands.  A list   *)
(* on its way into the store comes from the list it was made of (base) by  *)
(* a login, which leaves nobody out, or by a logout.                       *)
Who == Provider \X Identity
By == {"wizard", "cli"}
Kind == {"login", "logout"}
PollJob == [at : {"poll", "wait"}, by : By, f : Flow]
ExchangeJob == [at : {"exchange"}, by : By, f : Flow, came : Flow]
LoadJob == [at : {"load"}, by : By, kind : Kind, p : Provider, who : SUBSET Who, f : Flow \cup {NoFlow}]
WriteJob == [at : {"write", "rename", "config"}, by : By, kind : Kind, p : Provider, who : SUBSET Who,
             base : Seq(Account) \cup {Unreadable}, list : Seq(Account)]
ServeJob == [at : {"serve", "write", "rename"}, by : {"server"}, who : {{}},
             base : Seq(Account), list : Seq(Account)]
FileJob == [at : {"save", "page"}, cfg : Config]
PostJob == [at : {"post"}, base : Config \cup {Unreadable}, shown : SUBSET Provider, cfg : Config]

Missing(base, list) == Keys(List(base)) \ Keys(list)

ThreadJob(j) ==
  \/ j \in {Idle} \cup PollJob \cup ExchangeJob \cup FileJob \cup PostJob
  \/ j \in LoadJob /\ (j.kind = "login" => j.f \in Flow)
  \/ /\ j \in WriteJob /\ UniqueKeys(j.list)
     /\ Missing(j.base, j.list) \subseteq (IF j.kind = "login" THEN {} ELSE j.who)

ServerJob(j) == j = Idle \/ (j \in ServeJob /\ UniqueKeys(j.list) /\ j.list = j.base)

InHand ==
  /\ DOMAIN job = Caller
  /\ \A t \in Thread : ThreadJob(job[t])
  /\ ServerJob(job[Server])

OnFile ==
  /\ store \in Seq(Account) \cup {Unreadable} /\ UniqueKeys(List(store))
  /\ tmp \in Seq(Account) \cup {NoFile} /\ (tmp # NoFile => UniqueKeys(tmp))
  /\ config \in Config \cup {Unreadable}

AtProvider ==
  /\ kiro \subseteq Kiro /\ google \in (Flow \ Kiro) \cup {NoFlow}
  /\ flow \in [Flow -> {"new", "begun", "approved", "used"}]
  /\ calls \in 0..MaxCalls

LoginsTyped == AtProvider /\ OnFile /\ InHand

LEMMA ThreadDoes ==
  ASSUME InHand, NEW t \in Thread, NEW j, ThreadJob(j), Do(t, j)
  PROVE  InHand'
<1>1. /\ DOMAIN job' = Caller /\ job'[t] = j
      /\ \A u \in Caller \ {t} : job'[u] = job[u]
  BY DEF InHand, Do, Caller
<1>2. t # Server
  BY LoginsAssumption
<1>3. \A u \in Thread : ThreadJob(job'[u])
  BY <1>1 DEF InHand, Caller
<1>4. ServerJob(job'[Server])
  BY <1>1, <1>2 DEF InHand, Caller
<1>5. QED
  BY <1>1, <1>3, <1>4 DEF InHand, Caller, ThreadJob, ServerJob, Missing

LEMMA ServerDoes ==
  ASSUME InHand, NEW j, ServerJob(j), Do(Server, j)
  PROVE  InHand'
<1>1. /\ DOMAIN job' = Caller /\ job'[Server] = j
      /\ \A u \in Caller \ {Server} : job'[u] = job[u]
  BY DEF InHand, Do, Caller
<1>2. \A u \in Thread : u # Server
  BY LoginsAssumption
<1>3. \A u \in Thread : ThreadJob(job'[u])
  BY <1>1, <1>2 DEF InHand, Caller
<1>4. QED
  BY <1>1, <1>3 DEF InHand, Caller, ThreadJob, ServerJob, Missing

LEMMA HandsUntouched ==
  ASSUME InHand, UNCHANGED job
  PROVE  InHand'
BY DEF InHand, Caller, ThreadJob, ServerJob, Missing

LEMMA IdleTyped == ThreadJob(Idle) /\ ServerJob(Idle)
BY DEF ThreadJob, ServerJob

(* What a thread has, by its step.                                         *)
LEMMA ThreadHas ==
  ASSUME InHand, NEW t \in Thread
  PROVE  /\ At(t, "poll") \/ At(t, "wait") => job[t] \in PollJob
         /\ At(t, "exchange") => job[t] \in ExchangeJob
         /\ At(t, "load") => job[t] \in LoadJob /\ (job[t].kind = "login" => job[t].f \in Flow)
         /\ At(t, "write") \/ At(t, "rename") \/ At(t, "config") =>
              /\ job[t] \in WriteJob /\ UniqueKeys(job[t].list)
              /\ Missing(job[t].base, job[t].list)
                   \subseteq (IF job[t].kind = "login" THEN {} ELSE job[t].who)
         /\ At(t, "save") \/ At(t, "page") => job[t] \in FileJob
         /\ At(t, "post") => job[t] \in PostJob
<1>1. ThreadJob(job[t])
  BY DEF InHand
<1>2. QED
  BY <1>1 DEF ThreadJob, At, Idle, PollJob, ExchangeJob, LoadJob, WriteJob, FileJob, PostJob

LEMMA ServerHas ==
  ASSUME InHand, ~At(Server, "idle")
  PROVE  job[Server] \in ServeJob /\ UniqueKeys(job[Server].list) /\ job[Server].list = job[Server].base
BY DEF InHand, ServerJob, At, Idle

-----------------------------------------------------------------------------
(* Lists of accounts.                                                      *)
LEMMA KeysTyped ==
  ASSUME NEW list \in Seq(Account)
  PROVE  Keys(list) \subseteq Who /\ Providers(list) \subseteq Provider
<1>1. ASSUME NEW i \in DOMAIN list
      PROVE  list[i].provider \in Provider /\ list[i].id \in Identity
  <2>1. list[i] \in Account
    OBVIOUS
  <2>2. QED
    BY <2>1 DEF Account
<1>2. \A i \in DOMAIN list : Key(list[i]) \in Who
  BY <1>1 DEF Key, Who
<1>3. QED
  BY <1>1, <1>2 DEF Keys, Providers

LEMMA ListTyped ==
  ASSUME OnFile
  PROVE  List(store) \in Seq(Account) /\ UniqueKeys(List(store))
BY DEF OnFile, List

LEMMA AccountOfTyped ==
  ASSUME NEW f \in Flow
  PROVE  AccountOf(f) \in Account /\ Key(AccountOf(f)) \in Who
<1>1. ProviderOf[f] \in Provider /\ UserOf[f] \in User /\ 1 \in Grant
  BY LoginsAssumption, MemoryBounds
<1>2. AccountOf(f) \in Account
  BY <1>1, SignedInTyped DEF AccountOf
<1>3. QED
  BY <1>2 DEF Key, Who, Account

LEMMA RecordingTyped ==
  ASSUME NEW f \in Flow, NEW by \in By
  PROVE  ThreadJob(Recording(by, f))
<1>1. {Key(AccountOf(f))} \in SUBSET Who /\ ProviderOf[f] \in Provider
  BY AccountOfTyped, LoginsAssumption
<1> DEFINE j == [at |-> "load", by |-> by, kind |-> "login", p |-> ProviderOf[f],
                 who |-> {Key(AccountOf(f))}, f |-> f]
<1>2. j \in LoadJob /\ (j.kind = "login" => j.f \in Flow)
  BY <1>1 DEF LoadJob, Kind
<1>3. Recording(by, f) = j
  BY DEF Recording, Edit
<1> HIDE DEF j
<1>4. QED
  BY <1>2, <1>3 DEF ThreadJob

(* A login leaves nobody out of a list.                                    *)
LEMMA AddAccountKeeps ==
  ASSUME NEW list \in Seq(Account), UniqueKeys(list), NEW a \in Account
  PROVE  Keys(list) \subseteq Keys(AddAccount(list, a))
<1> DEFINE found == {i \in DOMAIN list : Key(list[i]) = Key(a)}
           k == CHOOSE i \in found : \A j \in found : i <= j
<1>1. CASE found = {}
  <2>1. AddAccount(list, a) = Append(list, a)
    BY <1>1 DEF AddAccount
  <2>2. /\ DOMAIN list \subseteq DOMAIN Append(list, a)
        /\ \A i \in DOMAIN list : Append(list, a)[i] = list[i]
    OBVIOUS
  <2>3. QED
    BY <2>1, <2>2 DEF Keys
<1>2. CASE found # {}
  <2>0. \A i, j \in found : i = j /\ i \in Nat
    BY DEF UniqueKeys
  <2>1. \E i \in found : \A j \in found : i <= j
    BY <1>2, <2>0
  <2>2. k \in found
    BY <2>1
  <2>3. AddAccount(list, a) = [list EXCEPT ![k] = a]
    BY <1>2 DEF AddAccount
  <2>4. k \in DOMAIN list /\ Key(list[k]) = Key(a)
    BY <2>2
  <2> HIDE DEF k
  <2>5. \A i \in DOMAIN list : Key(AddAccount(list, a)[i]) = Key(list[i])
    BY <2>3, <2>4
  <2>6. DOMAIN AddAccount(list, a) = DOMAIN list
    BY <2>3
  <2>7. QED
    BY <2>5, <2>6 DEF Keys
<1>3. QED
  BY <1>1, <1>2

(* A logout leaves out exactly whom it is for, and keeps the others' order.*)
LEMMA FilteredKeeps ==
  ASSUME NEW list \in Seq(Account), UniqueKeys(list), NEW j, j.kind # "login"
  PROVE  /\ Edited(j, list) \in Seq(Account) /\ UniqueKeys(Edited(j, list))
         /\ Keys(list) \ Keys(Edited(j, list)) \subseteq j.who
<1> DEFINE new == Edited(j, list)
           S == {i \in DOMAIN list : Key(list[i]) \notin j.who}
           kept == Ascending(S)
           N == Cardinality(S)
<1>1. DOMAIN list = 1..Len(list) /\ Len(list) \in Nat /\ \A i \in DOMAIN list : list[i] \in Account
  OBVIOUS
<1>2. S \in SUBSET Int /\ IsFiniteSet(S) /\ S \subseteq DOMAIN list
  <2>1. S \subseteq 1..Len(list)
    BY <1>1
  <2>2. IsFiniteSet(1..Len(list))
    BY <1>1, FS_Interval
  <2> HIDE DEF S
  <2>3. IsFiniteSet(S)
    BY <2>1, <2>2, FS_Subset
  <2>4. QED
    BY <1>1, <2>1, <2>3
<1>3. new = [n \in DOMAIN kept |-> list[kept[n]]]
  BY DEF Edited, Filtered
<1> HIDE DEF S, new
<1>4. /\ N \in Nat /\ kept \in [1..N -> S]
      /\ \A x \in S : \E n \in 1..N : kept[n] = x
      /\ \A m, n \in 1..N : m < n <=> kept[m] < kept[n]
  BY <1>2, AscendingElements
<1> HIDE DEF kept, N
<1>5. DOMAIN new = 1..N /\ \A n \in 1..N : new[n] = list[kept[n]] /\ kept[n] \in DOMAIN list
  BY <1>2, <1>3, <1>4
<1>6. new \in Seq(Account)
  <2>1. \A n \in 1..N : new[n] \in Account
    BY <1>1, <1>5
  <2>2. new = [n \in 1..N |-> new[n]]
    BY <1>3, <1>5
  <2>3. new \in [1..N -> Account]
    BY <2>1, <2>2
  <2>4. QED
    BY <1>4, <2>3
<1>7. UniqueKeys(new)
  <2> SUFFICES ASSUME NEW m \in 1..N, NEW n \in 1..N, Key(new[m]) = Key(new[n])
               PROVE  m = n
    BY <1>5 DEF UniqueKeys
  <2>1. kept[m] = kept[n]
    BY <1>5 DEF UniqueKeys
  <2>2. kept[m] \in Int
    BY <1>2, <1>4
  <2>3. ~(m < n) /\ ~(n < m)
    BY <1>4, <2>1, <2>2
  <2>4. m \in Int /\ n \in Int
    OBVIOUS
  <2>5. QED
    BY <2>3, <2>4
<1>8. ASSUME NEW i \in DOMAIN list, Key(list[i]) \notin j.who
      PROVE  Key(list[i]) \in Keys(new)
  <2>1. i \in S
    BY <1>8 DEF S
  <2>2. PICK n \in 1..N : kept[n] = i
    BY <1>4, <2>1
  <2>3. QED
    BY <1>5, <2>2 DEF Keys
<1>9. QED
  BY <1>6, <1>7, <1>8 DEF Keys, new

LEMMA EditedTyped ==
  ASSUME NEW list \in Seq(Account), UniqueKeys(list), NEW j, j.kind = "login" => j.f \in Flow
  PROVE  /\ Edited(j, list) \in Seq(Account) /\ UniqueKeys(Edited(j, list))
         /\ Keys(list) \ Keys(Edited(j, list)) \subseteq (IF j.kind = "login" THEN {} ELSE j.who)
<1>1. CASE j.kind = "login"
  <2>1. AccountOf(j.f) \in Account /\ Edited(j, list) = AddAccount(list, AccountOf(j.f))
    BY <1>1, AccountOfTyped DEF Edited
  <2>2. Clean(list)
    BY DEF Clean, IsList
  <2>3. QED
    BY <1>1, <2>1, <2>2, AddAccountTyped, AddAccountClean, AddAccountKeeps DEF Clean
<1>2. CASE j.kind # "login"
  BY <1>2, FilteredKeeps
<1>3. QED
  BY <1>1, <1>2

-----------------------------------------------------------------------------
(* Configurations.                                                         *)
LEMMA ConfigLoads ==
  ASSUME OnFile
  PROVE  WizardLoad \in Config /\ CliLoad(config) \in Config
<1>1. Defaults \in Config
  BY DEF Defaults, Config
<1>2. CliLoad(config) \in Config
  BY <1>1 DEF CliLoad, ServerReads, OnFile
<1> DEFINE c == IF config = Unreadable THEN Defaults ELSE config
           list == List(store)
           missing == Providers(list) \ c.devices
           more == BlankMeta({k \in Keys(list) : k[1] \in missing})
<1>3. c \in Config
  BY <1>1 DEF OnFile
<1>4. missing \subseteq Provider /\ more \subseteq Meta
  <2>1. Keys(list) \subseteq Who /\ Providers(list) \subseteq Provider
    BY ListTyped, KeysTyped
  <2>2. QED
    BY <2>1 DEF BlankMeta, Meta, Who
<1>5. WizardLoad = [c EXCEPT !.devices = @ \cup missing, !.meta = @ \cup more]
  BY DEF WizardLoad, Healed
<1> HIDE DEF c, missing, more
<1>6. WizardLoad \in Config
  BY <1>3, <1>4, <1>5 DEF Config
<1>7. QED
  BY <1>2, <1>6

LEMMA ConfigEdits ==
  ASSUME NEW c \in Config, NEW j, j.p \in Provider, j.who \in SUBSET Who
  PROVE  Entered(j, c) \in Config /\ Left(j, c) \in Config
<1>1. \A x \in {"blank", "none"} : [who : j.who, expiry : {x}] \subseteq Meta
  BY DEF Meta, Who
<1>2. QED
  BY <1>1 DEF Entered, Left, Config

LEMMA CarriedTyped ==
  ASSUME OnFile, NEW c \in Config
  PROVE  Carried(c) \in Config
<1>1. CASE config = Unreadable
  BY <1>1 DEF Carried
<1>2. CASE config # Unreadable
  <2> DEFINE kept == WithAccounts(config) \ c.devices
             more == {m \in config.meta : m.who[1] \in kept}
  <2>1. config \in Config
    BY <1>2 DEF OnFile
  <2>2. kept \subseteq Provider /\ more \subseteq Meta
    BY <2>1 DEF WithAccounts, Config
  <2>3. Carried(c) = [c EXCEPT !.devices = @ \cup kept, !.meta = @ \cup more]
    BY <1>2 DEF Carried
  <2> HIDE DEF kept, more
  <2>4. QED
    BY <2>2, <2>3 DEF Config
<1>3. QED
  BY <1>1, <1>2

LEMMA FileJobTyped ==
  ASSUME NEW c \in Config
  PROVE  ThreadJob([at |-> "save", cfg |-> c]) /\ ThreadJob([at |-> "page", cfg |-> c])
BY DEF ThreadJob, FileJob

-----------------------------------------------------------------------------
(* Step by step.                                                           *)
FlowMoves ==
  /\ flow' = flow \/ \E f \in Flow, x \in {"begun", "approved", "used"} : flow' = [flow EXCEPT ![f] = x]
  /\ calls' \in 0..MaxCalls

LEMMA FlowsTyped ==
  ASSUME AtProvider, FlowMoves, kiro' \subseteq Kiro, google' \in (Flow \ Kiro) \cup {NoFlow}
  PROVE  AtProvider'
BY DEF AtProvider, FlowMoves

LEMMA FilesUntouched ==
  ASSUME OnFile, UNCHANGED files
  PROVE  OnFile'
BY DEF OnFile, files, List

LEMMA CalledTyped ==
  ASSUME AtProvider, NEW t, Called(t)
  PROVE  calls' \in 0..MaxCalls
BY LoginsAssumption DEF AtProvider, Called

LEMMA IdentityTyped ==
  ASSUME LoginsTyped, NEW f \in Flow, DeviceLogin(f) \/ Approve(f)
  PROVE  LoginsTyped'
<1>1. FlowMoves /\ UNCHANGED <<files, job>>
  BY DEF LoginsTyped, AtProvider, DeviceLogin, Initiated, Approve, FlowMoves
<1>2. kiro' \subseteq Kiro /\ google' \in (Flow \ Kiro) \cup {NoFlow}
  BY DEF LoginsTyped, AtProvider, DeviceLogin, Approve, pending
<1>3. QED
  BY <1>1, <1>2, FlowsTyped, FilesUntouched, HandsUntouched DEF LoginsTyped

LEMMA LoginTyped ==
  ASSUME LoginsTyped, NEW t \in Thread,
         \/ \E f \in Kiro : DevicePoll(t, f)
         \/ \E f \in Flow : CliLogin(t, f)
         \/ \E f \in Flow \ Kiro : Callback(t, f) \/ CliCallback(t, f)
         \/ PollGranted(t) \/ PollFails(t) \/ Exchange(t)
  PROVE  LoginsTyped'
<1>1. UNCHANGED files
  BY DEF DevicePoll, CliLogin, Callback, CliCallback, PollGranted, PollFails, Exchange
<1>2. calls' \in 0..MaxCalls
  BY DEF LoginsTyped, AtProvider, DevicePoll, CliLogin, Callback, CliCallback, PollGranted,
         PollFails, Exchange
<1>3. Kiro \subseteq Flow /\ InHand /\ google \in (Flow \ Kiro) \cup {NoFlow} /\ kiro \subseteq Kiro
  BY LoginsAssumption DEF LoginsTyped, AtProvider
<1>4. ASSUME NEW f \in Kiro, DevicePoll(t, f)
      PROVE  FlowMoves /\ InHand' /\ UNCHANGED pending
  <2>1. [at |-> "poll", by |-> "wizard", f |-> f] \in PollJob
    BY <1>3 DEF PollJob, By
  <2>2. ThreadJob([at |-> "poll", by |-> "wizard", f |-> f])
    BY <2>1 DEF ThreadJob
  <2>3. Do(t, [at |-> "poll", by |-> "wizard", f |-> f]) /\ UNCHANGED <<pending, flow>>
    BY <1>4 DEF DevicePoll
  <2>4. QED
    BY <1>2, <1>3, <2>2, <2>3, ThreadDoes DEF FlowMoves
<1>5. ASSUME NEW f \in Flow, CliLogin(t, f)
      PROVE  FlowMoves /\ InHand' /\ UNCHANGED pending
  <2>1. \A x \in {"poll", "wait"} : [at |-> x, by |-> "cli", f |-> f] \in PollJob
    BY DEF PollJob, By
  <2>2. \A x \in {"poll", "wait"} : ThreadJob([at |-> x, by |-> "cli", f |-> f])
    BY <2>1 DEF ThreadJob
  <2>3. \E x \in {"poll", "wait"} : Do(t, [at |-> x, by |-> "cli", f |-> f])
    BY <1>5 DEF CliLogin
  <2>4. UNCHANGED pending /\ flow' = [flow EXCEPT ![f] = "begun"]
    BY <1>5 DEF CliLogin, Initiated
  <2>5. QED
    BY <1>2, <1>3, <2>2, <2>3, <2>4, ThreadDoes DEF FlowMoves
<1>6. ASSUME NEW f \in Flow \ Kiro, Callback(t, f)
      PROVE  FlowMoves /\ InHand' /\ UNCHANGED kiro /\ google' = NoFlow
  <2>1. google \in Flow
    BY <1>3, <1>6 DEF Callback
  <2>2. [at |-> "exchange", by |-> "wizard", f |-> google, came |-> f] \in ExchangeJob
    BY <2>1 DEF ExchangeJob, By
  <2>3. ThreadJob([at |-> "exchange", by |-> "wizard", f |-> google, came |-> f])
    BY <2>2 DEF ThreadJob
  <2>4. UNCHANGED <<kiro, flow>> /\ google' = NoFlow
        /\ (Do(t, Idle) \/ Do(t, [at |-> "exchange", by |-> "wizard", f |-> google, came |-> f]))
    BY <1>6 DEF Callback
  <2>5. QED
    BY <1>2, <1>3, <2>3, <2>4, IdleTyped, ThreadDoes DEF FlowMoves
<1>7. ASSUME NEW f \in Flow \ Kiro, CliCallback(t, f)
      PROVE  FlowMoves /\ InHand' /\ UNCHANGED pending
  <2>1. job[t] \in PollJob
    BY <1>3, <1>7, ThreadHas DEF CliCallback
  <2>2. [at |-> "exchange", by |-> "cli", f |-> job[t].f, came |-> f] \in ExchangeJob
    BY <2>1 DEF ExchangeJob, PollJob, By
  <2>3. ThreadJob([at |-> "exchange", by |-> "cli", f |-> job[t].f, came |-> f])
    BY <2>2 DEF ThreadJob
  <2>4. UNCHANGED <<pending, flow>>
        /\ (Do(t, Idle) \/ Do(t, [at |-> "exchange", by |-> "cli", f |-> job[t].f, came |-> f]))
    BY <1>7 DEF CliCallback
  <2>5. QED
    BY <1>2, <1>3, <2>3, <2>4, IdleTyped, ThreadDoes DEF FlowMoves
<1>8. ASSUME PollGranted(t) \/ PollFails(t) \/ Exchange(t)
      PROVE  FlowMoves /\ InHand' /\ kiro' \subseteq kiro /\ UNCHANGED google
  <2>1. job[t] \in PollJob \cup ExchangeJob
    BY <1>3, <1>8, ThreadHas DEF PollGranted, PollFails, Exchange
  <2>2. job[t].f \in Flow /\ job[t].by \in By
    BY <2>1 DEF PollJob, ExchangeJob
  <2>3. ThreadJob(Recording(job[t].by, job[t].f))
    BY <2>2, RecordingTyped
  <2>4. Do(t, Idle) \/ Do(t, Recording(job[t].by, job[t].f))
    BY <1>8 DEF PollGranted, PollFails, Exchange
  <2>5. UNCHANGED flow \/ flow' = [flow EXCEPT ![job[t].f] = "used"]
    BY <1>8 DEF PollGranted, PollFails, Exchange
  <2>6. kiro' \subseteq kiro /\ UNCHANGED google
    BY <1>8 DEF PollGranted, PollFails, Exchange, pending
  <2>7. QED
    BY <1>2, <1>3, <2>2, <2>3, <2>4, <2>5, <2>6, IdleTyped, ThreadDoes DEF FlowMoves
<1>9. FlowMoves /\ InHand' /\ kiro' \subseteq Kiro /\ google' \in {google, NoFlow}
  BY <1>3, <1>4, <1>5, <1>6, <1>7, <1>8 DEF pending
<1>10. QED
  BY <1>1, <1>3, <1>9, FlowsTyped, FilesUntouched DEF LoginsTyped

LEMMA LogoutTyped ==
  ASSUME LoginsTyped, NEW t \in Thread, NEW f \in Flow, NEW who,
         who \in {{}, {Key(AccountOf(f))}}, Logout(t, Key(AccountOf(f))[1], who)
  PROVE  LoginsTyped'
<1> DEFINE p == Key(AccountOf(f))[1]
           j == [at |-> "load", by |-> "cli", kind |-> "logout", p |-> p, who |-> who, f |-> NoFlow]
<1>1. Key(AccountOf(f)) \in Who
  BY AccountOfTyped
<1>2. p \in Provider /\ who \in SUBSET Who
  BY <1>1 DEF Who
<1> HIDE DEF p
<1>3. j \in LoadJob /\ j.kind # "login"
  BY <1>2 DEF LoadJob, By, Kind
<1>4. ThreadJob(j)
  <2> HIDE DEF j
  <2>1. QED
    BY <1>3 DEF ThreadJob
<1>5. Do(t, j) /\ UNCHANGED <<pending, flow, files>> /\ Called(t)
  BY DEF Logout, Edit, p
<1>6. FlowMoves
  BY <1>5, CalledTyped DEF FlowMoves, LoginsTyped
<1> HIDE DEF j
<1>7. QED
  BY <1>4, <1>5, <1>6, ThreadDoes, FlowsTyped, FilesUntouched DEF LoginsTyped, AtProvider, pending

(* DeviceStore::load and the change: a list that leaves nobody out but     *)
(* whom it logs out.                                                       *)
LEMMA LoadStoreTyped ==
  ASSUME LoginsTyped, NEW t \in Thread, LoadStore(t)
  PROVE  LoginsTyped'
<1> DEFINE who == Concerned(job[t], List(store))
           j == [job[t] EXCEPT !.who = who]
           list == Edited(j, List(store))
           w == [at |-> "write", by |-> j.by, kind |-> j.kind, p |-> j.p, who |-> j.who,
                 base |-> store, list |-> list]
<1>1. /\ job[t] \in LoadJob /\ (job[t].kind = "login" => job[t].f \in Flow)
      /\ Do(t, w) /\ UNCHANGED <<pending, flow, files, calls>>
  BY ThreadHas DEF LoadStore, LoginsTyped
<1>2. List(store) \in Seq(Account) /\ UniqueKeys(List(store)) /\ Keys(List(store)) \subseteq Who
  BY ListTyped, KeysTyped DEF LoginsTyped
<1>3. who \in SUBSET Who
  BY <1>1, <1>2 DEF Concerned, LoadJob
<1> HIDE DEF who
<1>4. /\ j.by = job[t].by /\ j.kind = job[t].kind /\ j.p = job[t].p /\ j.who = who /\ j.f = job[t].f
      /\ job[t].by \in By /\ job[t].kind \in Kind /\ job[t].p \in Provider
  BY <1>1 DEF LoadJob
<1> HIDE DEF j
<1>5. /\ list \in Seq(Account) /\ UniqueKeys(list)
      /\ Keys(List(store)) \ Keys(list) \subseteq (IF j.kind = "login" THEN {} ELSE j.who)
  BY <1>1, <1>2, <1>4, EditedTyped
<1> HIDE DEF list
<1>6. store \in Seq(Account) \cup {Unreadable}
  BY DEF LoginsTyped, OnFile
<1>7. w \in WriteJob /\ w.list = list /\ w.base = store /\ w.kind = j.kind /\ w.who = j.who
  BY <1>3, <1>4, <1>5, <1>6 DEF WriteJob
<1> HIDE DEF w
<1>8. ThreadJob(w)
  BY <1>5, <1>7 DEF ThreadJob, Missing
<1>9. FlowMoves
  BY <1>1 DEF FlowMoves, LoginsTyped, AtProvider
<1>10. QED
  BY <1>1, <1>8, <1>9, ThreadDoes, FlowsTyped, FilesUntouched DEF LoginsTyped, AtProvider, pending

(* save: the same list goes into the temporary file, and another step on.  *)
LEMMA SavingTyped ==
  ASSUME LoginsTyped, NEW t \in Caller, Saving(t)
  PROVE  LoginsTyped'
<1>1. FlowMoves /\ UNCHANGED <<pending, config>>
  BY DEF FlowMoves, LoginsTyped, AtProvider, Saving, WriteStore, RenameStore
<1>2. InHand /\ OnFile /\ Server \notin Thread
  BY LoginsAssumption DEF LoginsTyped
<1>3. CASE t \in Thread
  <2>1. /\ job[t] \in WriteJob /\ UniqueKeys(job[t].list)
        /\ Missing(job[t].base, job[t].list)
             \subseteq (IF job[t].kind = "login" THEN {} ELSE job[t].who)
    BY <1>2, <1>3, ThreadHas DEF Saving, WriteStore, RenameStore
  <2>2. job[t].list \in Seq(Account) /\ job[t].list # NoFile
    BY <2>1, LoginsAssumption DEF WriteJob
  <2>3. ASSUME NEW step \in {"rename", "config"}, Goto(t, step)
        PROVE  InHand'
    <3> DEFINE j == [job[t] EXCEPT !.at = step]
    <3>1. j \in WriteJob /\ j.list = job[t].list /\ j.base = job[t].base /\ j.kind = job[t].kind
          /\ j.who = job[t].who
      BY <2>1 DEF WriteJob
    <3>2. Do(t, j)
      BY <2>3 DEF Goto, Do
    <3> HIDE DEF j
    <3>3. ThreadJob(j)
      BY <2>1, <3>1 DEF ThreadJob
    <3>4. QED
      BY <1>2, <1>3, <3>2, <3>3, ThreadDoes
  <2>4. Do(t, Idle) \/ Goto(t, "rename") \/ Goto(t, "config")
    BY <1>2, <1>3 DEF Saving, WriteStore, RenameStore
  <2>5. InHand'
    BY <1>2, <1>3, <2>3, <2>4, IdleTyped, ThreadDoes
  <2>6. OnFile'
    BY <1>1, <1>2, <2>1, <2>2 DEF OnFile, Saving, WriteStore, RenameStore, List, UniqueKeys
  <2>7. QED
    BY <1>1, <2>5, <2>6, FlowsTyped DEF LoginsTyped, AtProvider, pending
<1>4. CASE t = Server
  <2>1. job[t] \in ServeJob /\ UniqueKeys(job[t].list) /\ job[t].list = job[t].base
    BY <1>2, <1>4, ServerHas DEF Saving, WriteStore, RenameStore, At
  <2>2. job[t].list \in Seq(Account) /\ job[t].list # NoFile
    BY <2>1, LoginsAssumption DEF ServeJob
  <2>3. \E step \in {"rename", "serve"} : Goto(t, step)
    BY <1>4 DEF Saving, WriteStore, RenameStore
  <2>4. PICK step \in {"rename", "serve"} : Goto(t, step)
    BY <2>3
  <2>5. InHand'
    <3> DEFINE j == [job[t] EXCEPT !.at = step]
    <3>1. j \in ServeJob /\ j.list = job[t].list /\ j.base = job[t].base
      BY <2>1 DEF ServeJob
    <3>2. Do(Server, j)
      BY <1>4, <2>4 DEF Goto, Do
    <3> HIDE DEF j
    <3>3. ServerJob(j)
      BY <2>1, <3>1 DEF ServerJob
    <3>4. QED
      BY <1>2, <3>2, <3>3, ServerDoes
  <2>6. OnFile'
    BY <1>1, <1>2, <2>1, <2>2 DEF OnFile, Saving, WriteStore, RenameStore, List, UniqueKeys
  <2>7. QED
    BY <1>1, <2>5, <2>6, FlowsTyped DEF LoginsTyped, AtProvider, pending
<1>5. QED
  BY <1>3, <1>4 DEF Caller

LEMMA ServerTyped ==
  ASSUME LoginsTyped, ServerLoads \/ ServerSaves
  PROVE  LoginsTyped'
<1>1. FlowMoves /\ UNCHANGED <<pending, files>>
  BY DEF FlowMoves, LoginsTyped, AtProvider, ServerLoads, ServerSaves
<1>2. InHand /\ OnFile
  BY DEF LoginsTyped
<1>3. InHand'
  <2>1. CASE ServerLoads
    <3> DEFINE j == [at |-> "serve", by |-> "server", who |-> {}, base |-> store, list |-> store]
    <3>1. store # Unreadable => store \in Seq(Account) /\ UniqueKeys(store)
      BY <1>2 DEF OnFile, List
    <3>2. store # Unreadable => ServerJob(j)
      BY <3>1 DEF ServerJob, ServeJob
    <3>3. Do(Server, Idle) \/ (store # Unreadable /\ Do(Server, j))
      BY <2>1 DEF ServerLoads
    <3> HIDE DEF j
    <3>4. QED
      BY <1>2, <3>2, <3>3, IdleTyped, ServerDoes
  <2>2. CASE ServerSaves
    <3> DEFINE j == [job[Server] EXCEPT !.at = "write"]
    <3>1. job[Server] \in ServeJob /\ UniqueKeys(job[Server].list) /\ job[Server].list = job[Server].base
      BY <1>2, <2>2, ServerHas DEF ServerSaves, At
    <3>2. j \in ServeJob /\ j.list = job[Server].list /\ j.base = job[Server].base
      BY <3>1 DEF ServeJob
    <3>3. Do(Server, j)
      BY <2>2 DEF ServerSaves, Goto, Do
    <3> HIDE DEF j
    <3>4. ServerJob(j)
      BY <3>1, <3>2 DEF ServerJob
    <3>5. QED
      BY <1>2, <3>3, <3>4, ServerDoes
  <2>3. QED
    BY <2>1, <2>2
<1>4. QED
  BY <1>1, <1>2, <1>3, FlowsTyped, FilesUntouched DEF LoginsTyped, AtProvider, pending

(* The steps on config.toml: whoever loads it edits a configuration, and   *)
(* saves one.                                                              *)
LEMMA ConfigStepsTyped ==
  ASSUME LoginsTyped, NEW t \in Thread,
         \/ LoadConfig(t) \/ SaveConfig(t)
         \/ \E k \in ApiKey : CliKeys(t, k)
         \/ WizardAuth(t) \/ OpenPage(t)
         \/ \E keys \in SUBSET ApiKey : PostConfig(t, keys)
         \/ SavePosted(t)
  PROVE  LoginsTyped'
<1>1. UNCHANGED <<pending, flow, store, tmp>>
  BY DEF LoadConfig, SaveConfig, CliKeys, WizardAuth, OpenPage, PostConfig, SavePosted, files
<1>2. FlowMoves
  <2>1. calls' \in 0..MaxCalls
    BY CalledTyped DEF LoginsTyped, AtProvider, LoadConfig, SaveConfig, CliKeys, WizardAuth,
         OpenPage, PostConfig, SavePosted
  <2>2. QED
    BY <1>1, <2>1 DEF FlowMoves
<1>3. InHand /\ OnFile /\ WizardLoad \in Config /\ CliLoad(config) \in Config
  BY ConfigLoads DEF LoginsTyped
<1>4. CASE LoadConfig(t)
  <2> DEFINE c == IF job[t].by = "wizard" THEN WizardLoad ELSE CliLoad(config)
             d == IF job[t].kind = "login" THEN Entered(job[t], c) ELSE Left(job[t], c)
  <2>1. job[t].p \in Provider /\ job[t].who \in SUBSET Who
    BY <1>3, <1>4, ThreadHas DEF LoadConfig, WriteJob
  <2>2. c \in Config
    BY <1>3
  <2>3. Do(t, Idle) \/ Do(t, [at |-> "save", cfg |-> d])
    BY <1>4 DEF LoadConfig
  <2> HIDE DEF c
  <2>4. d \in Config
    BY <2>1, <2>2, ConfigEdits
  <2> HIDE DEF d
  <2>5. InHand'
    BY <1>3, <2>3, <2>4, IdleTyped, FileJobTyped, ThreadDoes
  <2>6. UNCHANGED files
    BY <1>4 DEF LoadConfig
  <2>7. QED
    BY <1>1, <1>2, <1>3, <2>5, <2>6, FlowsTyped, FilesUntouched DEF LoginsTyped, AtProvider, pending
<1>5. CASE (\E k \in ApiKey : CliKeys(t, k)) \/ WizardAuth(t) \/ OpenPage(t)
  <2>1. \A k \in ApiKey : [CliLoad(config) EXCEPT !.keys = @ \cup {k}] \in Config
    BY <1>3 DEF Config
  <2>2. \E c \in Config : Do(t, [at |-> "save", cfg |-> c]) \/ Do(t, [at |-> "page", cfg |-> c])
    BY <1>3, <1>5, <2>1 DEF CliKeys, WizardAuth, OpenPage
  <2>3. InHand'
    BY <1>3, <2>2, FileJobTyped, ThreadDoes
  <2>4. UNCHANGED files
    BY <1>5 DEF CliKeys, WizardAuth, OpenPage
  <2>5. QED
    BY <1>1, <1>2, <1>3, <2>3, <2>4, FlowsTyped, FilesUntouched DEF LoginsTyped, AtProvider, pending
<1>6. CASE SaveConfig(t) \/ SavePosted(t)
  <2>1. job[t].cfg \in Config
    BY <1>3, <1>6, ThreadHas DEF SaveConfig, SavePosted, FileJob, PostJob
  <2>2. config' \in Config \cup {config} /\ Do(t, Idle)
    BY <1>6, <2>1 DEF SaveConfig, SavePosted
  <2>3. OnFile'
    BY <1>1, <1>3, <2>2 DEF OnFile, List
  <2>4. InHand'
    BY <1>3, <2>2, IdleTyped, ThreadDoes
  <2>5. QED
    BY <1>1, <1>2, <2>3, <2>4, FlowsTyped DEF LoginsTyped, AtProvider, pending
<1>7. ASSUME NEW keys \in SUBSET ApiKey, PostConfig(t, keys)
      PROVE  LoginsTyped'
  <2> DEFINE j == [at |-> "post", base |-> config, shown |-> job[t].cfg.devices,
                   cfg |-> Carried([job[t].cfg EXCEPT !.keys = keys])]
  <2>1. job[t].cfg \in Config
    BY <1>3, <1>7, ThreadHas DEF PostConfig, FileJob
  <2>2. [job[t].cfg EXCEPT !.keys = keys] \in Config /\ job[t].cfg.devices \in SUBSET Provider
    BY <2>1 DEF Config
  <2>3. Carried([job[t].cfg EXCEPT !.keys = keys]) \in Config
    BY <1>3, <2>2, CarriedTyped
  <2>4. j \in PostJob
    BY <1>3, <2>2, <2>3 DEF PostJob, OnFile
  <2>5. Do(t, j) /\ UNCHANGED files
    BY <1>7 DEF PostConfig
  <2> HIDE DEF j
  <2>6. InHand'
    BY <1>3, <2>4, <2>5, ThreadDoes DEF ThreadJob
  <2>7. QED
    BY <1>1, <1>2, <1>3, <2>5, <2>6, FlowsTyped, FilesUntouched DEF LoginsTyped, AtProvider, pending
<1>8. QED
  BY <1>4, <1>5, <1>6, <1>7

LEMMA TypedStep ==
  ASSUME LoginsTyped, [Next]_vars
  PROVE  LoginsTyped'
<1>1. CASE UNCHANGED vars
  <2>1. UNCHANGED <<kiro, google, flow, calls, job>> /\ UNCHANGED files
    BY <1>1 DEF vars, pending
  <2>2. AtProvider'
    BY <2>1 DEF LoginsTyped, AtProvider
  <2>3. QED
    BY <2>1, <2>2, FilesUntouched, HandsUntouched DEF LoginsTyped
<1>2. ASSUME NEW t \in Thread, Recorded(t) PROVE LoginsTyped'
  BY <1>2, LoadStoreTyped, ConfigStepsTyped DEF Recorded
<1>3. ASSUME NEW t \in Thread, NEW f \in Flow,
             \/ Logout(t, Key(AccountOf(f))[1], {Key(AccountOf(f))})
             \/ Logout(t, Key(AccountOf(f))[1], {})
      PROVE  LoginsTyped'
  BY <1>3, LogoutTyped
<1>4. Thread \subseteq Caller /\ Server \in Caller
  BY DEF Caller
<1>5. QED
  BY <1>1, <1>2, <1>3, <1>4, IdentityTyped, LoginTyped, SavingTyped, ServerTyped, ConfigStepsTyped
     DEF Next

LEMMA StartTyped ==
  ASSUME Init
  PROVE  LoginsTyped
<1>1. AtProvider
  BY LoginsAssumption DEF Init, AtProvider
<1>2. InHand
  BY IdleTyped DEF Init, InHand, Caller
<1>3. store \in Seq(Account) \cup {Unreadable} /\ UniqueKeys(List(store))
  BY LoginsAssumption, EmptyClean DEF Init, List, Clean
<1>4. Keys(List(store)) \subseteq Who /\ Providers(List(store)) \subseteq Provider
  <2>1. List(store) \in Seq(Account)
    BY <1>3 DEF List
  <2>2. QED
    BY <2>1, KeysTyped
<1>5. config \in Config \cup {Unreadable}
  <2>1. SUFFICES ASSUME NEW devices \in {{}, Providers(List(store))},
                        config = [keys |-> ApiKey, devices |-> devices,
                                  meta |-> [who : {k \in Keys(List(store)) : k[1] \in devices},
                                            expiry : {"none"}]]
                 PROVE  config \in Config
    BY DEF Init
  <2>2. [who : {k \in Keys(List(store)) : k[1] \in devices}, expiry : {"none"}] \in SUBSET Meta
    BY <1>4 DEF Meta, Who
  <2>3. devices \in SUBSET Provider
    BY <1>4
  <2>4. QED
    BY <2>1, <2>2, <2>3 DEF Config
<1>6. QED
  BY <1>1, <1>2, <1>3, <1>5 DEF Init, LoginsTyped, OnFile

LEMMA LoginsAlwaysTyped == Spec => []LoginsTyped
<1>1. Init => LoginsTyped
  BY StartTyped
<1>2. LoginsTyped /\ [Next]_vars => LoginsTyped'
  BY TypedStep
<1>3. QED
  BY <1>1, <1>2, PTL DEF Spec

(* For any logins, callers and lists: both files and everything on its way *)
(* into them stay well typed, and the store never lists a key twice, in    *)
(* whatever order savers of different lists rename over each other.        *)
THEOREM LoginsTypedAlways == Spec => []TypeOK
<1>1. LoginsTyped => TypeOK
  <2>1. ASSUME LoginsTyped, NEW t \in Thread, At(t, "rename") PROVE job[t].list \in Seq(Account)
    BY <2>1, ThreadHas DEF LoginsTyped, WriteJob
  <2>2. ASSUME LoginsTyped, ~At(Server, "idle") PROVE job[Server].list \in Seq(Account)
    BY <2>2, ServerHas DEF LoginsTyped, ServeJob
  <2>3. QED
    BY <2>1, <2>2 DEF LoginsTyped, AtProvider, OnFile, TypeOK
<1>2. QED
  BY <1>1, LoginsAlwaysTyped, PTL

Keeps(t) ==
  (/\ At(t, "rename") /\ RenameStore(t)
   /\ job[t].base = store /\ tmp = job[t].list)
  => Keys(List(store)) \ Keys(List(store'))
       \subseteq (IF t = Server \/ job[t].kind = "login" THEN {} ELSE job[t].who)

(* For any accounts and savers: one that saves over the file it has read,  *)
(* its own temporary file in place, drops nobody but whom it logs out.     *)
THEOREM LoneSaverKeepsAllAlways == Spec => LoneSaverKeepsAll
<1>1. ASSUME LoginsTyped, NEW t \in Thread \cup {Server}
      PROVE  Keeps(t)
  <2> SUFFICES ASSUME At(t, "rename"), RenameStore(t), job[t].base = store, tmp = job[t].list
               PROVE  Keys(List(store)) \ Keys(List(store'))
                        \subseteq (IF t = Server \/ job[t].kind = "login" THEN {} ELSE job[t].who)
    BY DEF Keeps
  <2>1. job[t].list \in Seq(Account)
    BY <1>1, ThreadHas, ServerHas DEF LoginsTyped, WriteJob, ServeJob, At
  <2>2. store' = job[t].list /\ List(store') = job[t].list
    BY <2>1, LoginsAssumption DEF RenameStore, List
  <2>3. CASE t = Server
    <3>1. job[t].list = store
      BY <1>1, <2>3, ServerHas DEF LoginsTyped, At
    <3>2. QED
      BY <2>2, <3>1
  <2>4. CASE t \in Thread
    <3>1. Missing(job[t].base, job[t].list) \subseteq (IF job[t].kind = "login" THEN {} ELSE job[t].who)
      BY <1>1, <2>4, ThreadHas DEF LoginsTyped
    <3>2. t # Server
      BY <2>4, LoginsAssumption
    <3>3. QED
      BY <2>2, <3>1, <3>2 DEF Missing
  <2>5. QED
    BY <2>3, <2>4
<1>2. LoginsTyped /\ [Next]_vars => [\A t \in Thread \cup {Server} : Keeps(t)]_vars
  BY <1>1
<1>3. [][\A t \in Thread \cup {Server} : Keeps(t)]_vars => LoneSaverKeepsAll
  BY DEF LoneSaverKeepsAll, Keeps
<1>4. QED
  BY <1>2, <1>3, LoginsAlwaysTyped, PTL DEF Spec
=============================================================================
