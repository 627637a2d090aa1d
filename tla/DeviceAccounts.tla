--------------------------- MODULE DeviceAccounts ---------------------------
(***************************************************************************)
(* Device accounts in the running server (crates/xrouter-server/src/       *)
(* lib.rs): requests take turns with the accounts of the store in memory,  *)
(* refresh an account's tokens under the store's lock or after a rejection *)
(* without it; /admin/reload puts a new store, read from the file, in its  *)
(* place while requests still hold the old one; refresh_model_cache takes  *)
(* and puts back an account of its own.  The file itself, which every step *)
(* that ends a lock saves, is the business of Logins.                      *)
(***************************************************************************)
EXTENDS DeviceStore

CONSTANTS
  Request,
  Warmer,        (* The task that runs refresh_model_cache.                *)
  NoOne,         (* The holder of a free lock.                             *)
  Routes,        (* The candidates of requests, as their providers.        *)
  Signed,        (* The users signed in at the start, as sequences.        *)
  MaxReloads     (* Bounds the model: reloads.                             *)

ASSUME DeviceAccountsAssumption ==
  /\ Warmer \notin Request
  /\ NoOne \notin Request \cup {Warmer}
  /\ \A route \in Routes : route \in Seq(Provider) /\ route # <<>>
  /\ \A users \in Signed : users \in Seq(User) /\ \A i, j \in DOMAIN users : users[i] = users[j] => i = j
  /\ MaxReloads \in Nat

Actor == Request \cup {Warmer}
Store == 1..(MaxReloads + 1)

VARIABLES
  issued,        (* The last grant of each user.                           *)
  due,           (* Grants up to this one need a refresh.                  *)
  accounts,      (* The accounts in each store there has been in memory.   *)
  cursor,        (* rr, of each store and provider.                        *)
  holder,        (* Who holds each store's lock.                           *)
  current,       (* The store in use, 0 for none (AppState::device_store). *)
  loads,         (* How many stores there have been.                       *)
  act            (* What each request, and the warmer, is doing.           *)

idp == <<issued, due>>
accountVars == <<idp, accounts, cursor, holder, current, loads, act>>

(* What an actor does: nothing; about to take an account for the first     *)
(* provider of its route from the store it loaded, or refreshing one under *)
(* its lock; then at work with an account and no hold of a store, until it *)
(* is about to put the account back into the store it found.               *)
AtRest == [pc |-> "idle"]
Taking(route) == [pc |-> "take", route |-> route, store |-> current]
WithAccount(r, pc, a) ==
  [act EXCEPT ![r] = [pc |-> pc, route |-> @.route, acct |-> a,
                      store |-> IF pc = "refresh" THEN @.store
                                ELSE IF pc = "put" THEN current ELSE 0]]

Doing(r, pc) == act[r].pc = pc
Mine(r) == act[r].acct
Holds(r) == act[r].pc \in {"refresh", "sent", "renew", "restore", "put"}
Locks(r, s) == Doing(r, "refresh") /\ act[r].store = s
Uses(r, s) == act[r].pc # "idle" /\ act[r].store = s

AccountsTypeOK ==
  /\ issued \in [User -> 0..MaxGrants]
  /\ due \in 0..MaxGrants
  /\ accounts \in [Store -> Seq(Account)]
  /\ cursor \in [Store -> [Provider -> Nat]]
  /\ holder \in [Store -> Actor \cup {NoOne}]
  /\ current \in {0} \cup 1..loads
  /\ loads \in 0..(MaxReloads + 1)
  /\ \A r \in Actor :
       /\ Holds(r) => Mine(r) \in Account
       /\ \A s \in Store : holder[s] = r <=> Locks(r, s)

(* What logins may have left in the file: grants of users, old or new.     *)
LeftByLogins(p, users) ==
  {[i \in DOMAIN users |-> SignedIn(p, users[i], f[i])] :
     f \in {g \in [DOMAIN users -> Grant] : \A i \in DOMAIN users : g[i] <= issued[users[i]]}}

(* A server that starts with what past logins left on disk.                *)
AccountsInit ==
  /\ issued = [u \in User |-> 1]
  /\ due = 0
  /\ \E p \in Provider, users \in Signed :
       \E list \in LeftByLogins(p, users) :
         accounts = [s \in Store |-> IF s = 1 THEN list ELSE <<>>]
  /\ cursor = [s \in Store |-> [p \in Provider |-> 0]]
  /\ holder = [s \in Store |-> NoOne]
  /\ current = 1 /\ loads = 1
  /\ act = [r \in Actor |-> AtRest]

-----------------------------------------------------------------------------
(* needs_refresh, and the early return for an account without the means.   *)
NeedsRefresh(a) == a.grant <= due

(* The rest of refresh_if_needed on what r holds, on its way to pc: the    *)
(* identity provider refuses or, at once or for a kiro client registered   *)
(* anew, grants, which may fail to reach us.                               *)
Refused(r, pc) == UNCHANGED idp /\ act' = WithAccount(r, pc, Mine(r))

Granted(r, pc) ==
  LET a == Mine(r)
      g == issued[a.user] + 1
  IN
  /\ g <= MaxGrants
  /\ issued' = [issued EXCEPT ![a.user] = g]
  /\ UNCHANGED due
  /\ \E b \in {a, SignedIn(a.provider, a.user, g)} : act' = WithAccount(r, pc, b)

Refreshed(r, pc) == Refused(r, pc) \/ Granted(r, pc)

-----------------------------------------------------------------------------
(* On to the next candidate, if there is one, with the store of the moment.*)
NextCandidate(r) ==
  act' = [act EXCEPT ![r] = IF Len(@.route) = 1 THEN AtRest ELSE Taking(Tail(@.route))]

Begin(r, route) ==
  /\ Doing(r, "idle")
  /\ act' = [act EXCEPT ![r] = Taking(route)]
  /\ UNCHANGED <<idp, accounts, cursor, holder, current, loads>>

Arrive(r, route) == r \in Request /\ Begin(r, route)
Warm(p) == Begin(Warmer, <<p>>)

(* There is no store, or no account in it.                                 *)
SkipUnavailable(r) ==
  LET s == act[r].store IN
  /\ Doing(r, "take")
  /\ \/ s = 0
     \/ /\ s # 0 /\ holder[s] = NoOne
        /\ AccountsOf(accounts[s], Head(act[r].route)) = {}
  /\ NextCandidate(r)
  /\ UNCHANGED <<idp, accounts, cursor, holder, current, loads>>

(* store.lock() and next_account.  A request refreshes under the lock and  *)
(* saves; with nothing to refresh it all happens at once.  The warmer lets *)
(* the lock go first.                                                      *)
Take(r) ==
  LET s == act[r].store
      p == Head(act[r].route)
      a == NextAccount(accounts[s], p, cursor[s][p])
      ready == ~NeedsRefresh(a)
  IN
  /\ Doing(r, "take") /\ s # 0
  /\ holder[s] = NoOne
  /\ AccountsOf(accounts[s], p) # {}
  /\ cursor' = [cursor EXCEPT ![s][p] = NextCursor(accounts[s], p, @)]
  /\ act' = WithAccount(r, IF r = Warmer THEN (IF ready THEN "restore" ELSE "renew")
                           ELSE IF ready THEN "sent" ELSE "refresh", a)
  /\ holder' = IF r # Warmer /\ ~ready THEN [holder EXCEPT ![s] = r] ELSE holder
  /\ UNCHANGED <<idp, accounts, current, loads>>

(* Mutant: the lock is kept when the identity provider refuses.            *)
RefreshedInLockKeptBusy(r) ==
  /\ Doing(r, "refresh")
  /\ Refreshed(r, "sent")
  /\ holder' = [holder EXCEPT ![act[r].store] = IF Mine(r)' = Mine(r) THEN r ELSE NoOne]
  /\ UNCHANGED <<accounts, cursor, current, loads>>

(* The refreshed copy goes with the request; the store, which is saved, is *)
(* not given it.                                                           *)
RefreshedInLock(r) ==
  /\ Doing(r, "refresh")
  /\ Refreshed(r, "sent")
  /\ holder' = [holder EXCEPT ![act[r].store] = NoOne]
  /\ UNCHANGED <<accounts, cursor, current, loads>>

-----------------------------------------------------------------------------
(* The upstream answers (or the 15 s are up): any answer but the three     *)
(* below leaves the account alone and ends the request or its candidate.   *)
Accept(r) ==
  /\ Doing(r, "sent")
  /\ act' = [act EXCEPT ![r] = AtRest]
  /\ UNCHANGED <<idp, accounts, cursor, holder, current, loads>>

GiveUp(r) ==
  /\ Doing(r, "sent")
  /\ NextCandidate(r)
  /\ UNCHANGED <<idp, accounts, cursor, holder, current, loads>>

(* 401, 403 or 429: the account is refreshed if it is due, and put back    *)
(* into whatever store is there by then.                                   *)
Reject(r) ==
  /\ Doing(r, "sent")
  /\ act' = WithAccount(r, IF NeedsRefresh(Mine(r)) THEN "renew" ELSE "restore", Mine(r))
  /\ UNCHANGED <<idp, accounts, cursor, holder, current, loads>>

Renewed(r) ==
  /\ Doing(r, "renew")
  /\ Refreshed(r, "restore")
  /\ UNCHANGED <<accounts, cursor, holder, current, loads>>

(* load_full, and then the lock of what it found, which may no longer be   *)
(* the store in use when the lock comes.                                   *)
FindStore(r) ==
  /\ Doing(r, "restore")
  /\ IF current = 0 THEN NextCandidate(r) ELSE act' = WithAccount(r, "put", Mine(r))
  /\ UNCHANGED <<idp, accounts, cursor, holder, current, loads>>

PutBack(r, list) ==
  LET s == act[r].store IN
  /\ Doing(r, "put") /\ s # 0
  /\ holder[s] = NoOne
  /\ accounts' = [accounts EXCEPT ![s] = list]
  /\ NextCandidate(r)
  /\ UNCHANGED <<idp, cursor, holder, current, loads>>

(* Mutant: an account is put back beside the one it was taken from.        *)
RestoreTwice(r) == PutBack(r, AddAccountTwice(accounts[act[r].store], Mine(r)))

Restore(r) == PutBack(r, AddAccount(accounts[act[r].store], Mine(r)))

-----------------------------------------------------------------------------
(* AppState::reload: a new store, with a lock of its own; none if the file *)
(* cannot be read or no provider needs it.  The old one lives on while a   *)
(* request uses it.                                                        *)
Dropped ==
  [s \in Store |-> IF s = current /\ ~\E r \in Actor : Uses(r, s) THEN <<>> ELSE accounts[s]]

Reload ==
  /\ loads <= MaxReloads
  /\ \/ /\ loads' = loads + 1
        /\ current' = loads'
        /\ \E p \in Provider, users \in Signed : \E list \in LeftByLogins(p, users) :
             accounts' = [Dropped EXCEPT ![loads'] = list]
     \/ current # 0 /\ current' = 0 /\ accounts' = Dropped /\ UNCHANGED loads
  /\ UNCHANGED <<idp, cursor, holder, act>>

(* The wizard or the CLI signs a user in; the file, not the store, has it. *)
Login(u) ==
  /\ issued[u] < MaxGrants
  /\ issued' = [issued EXCEPT ![u] = @ + 1]
  /\ UNCHANGED <<due, accounts, cursor, holder, current, loads, act>>

(* Time passes: a generation of tokens reaches its last minute.            *)
Expire ==
  /\ \E u \in User : due < issued[u]
  /\ due' = due + 1
  /\ UNCHANGED <<issued, accounts, cursor, holder, current, loads, act>>

Continue(r) == SkipUnavailable(r) \/ Take(r) \/ FindStore(r) \/ Restore(r)
Upstream(r) == Accept(r) \/ GiveUp(r) \/ Reject(r)
Refreshing(r) == RefreshedInLock(r) \/ Renewed(r)

AccountsNext ==
  \/ \E r \in Actor : Continue(r) \/ Upstream(r) \/ Refreshing(r)
  \/ \E r \in Request, route \in Routes : Arrive(r, route)
  \/ \E p \in Provider : Warm(p)
  \/ Reload
  \/ Expire
  \/ \E u \in User : Login(u)

(* The lock is granted in the order of requests for it, and an upstream    *)
(* answers within 15 s.  Of the identity provider nothing is assumed: its  *)
(* calls have no timeout.                                                  *)
Fairness ==
  \A r \in Actor : SF_accountVars(Continue(r)) /\ WF_accountVars(Upstream(r))

AccountsSpec == AccountsInit /\ [][AccountsNext]_accountVars
FairAccountsSpec == AccountsSpec /\ Fairness
-----------------------------------------------------------------------------
(* Safety: however refreshes in and out of the lock, put-backs and reloads *)
(* overlap, a store lists a user whose identity can be told once for each  *)
(* provider, and any other once for each grant at most, since a refresh    *)
(* that brings a new token derives the identity anew (refresh_if_needed):  *)
(* rejections, refusals and put-backs give nobody more turns, only grants  *)
(* do.  The extra turns are real, and taken with tokens that may be dead.  *)
OneShareEach ==
  \A s \in Store : \A i, j \in DOMAIN accounts[s] :
    LET a == accounts[s][i]
        b == accounts[s][j]
    IN (/\ a.provider = b.provider /\ a.user = b.user
        /\ a.user \notin Nameless \/ a.grant = b.grant) => i = j

(* A request waits for one lock that others hold during calls to the       *)
(* identity provider, yet it gets through as long as none of those calls   *)
(* stays unanswered for ever.                                              *)
ProviderAnswers == \A r \in Actor : []<>~Doing(r, "refresh") /\ []<>~Doing(r, "renew")
EveryRequestGetsThrough ==
  ProviderAnswers => \A r \in Actor : Doing(r, "take") ~> Doing(r, "idle")

(* An account that stays in the store of a server is used again and again, *)
(* while others come and go, if requests for its provider go on being      *)
(* served from that store.                                                 *)
Serves(r, s, p) == Doing(r, "take") /\ act[r].store = s /\ Head(act[r].route) = p /\ Take(r)
NoAccountStarves ==
  \A s \in Store, u \in User \ Nameless, p \in Provider :
    LET mine == Key(SignedIn(p, u, 1)) IN
    (/\ <>[](mine \in Keys(accounts[s]))
     /\ []<><<\E r \in Request : Serves(r, s, p)>>_accountVars)
    => []<>(\E r \in Actor : Holds(r) /\ Key(Mine(r)) = mine)
=============================================================================
