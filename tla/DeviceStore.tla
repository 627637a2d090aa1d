---------------------------- MODULE DeviceStore ----------------------------
(***************************************************************************)
(* The store of device-login accounts (crates/xrouter-auth/src/lib.rs): a  *)
(* list of accounts, keyed by provider and account id, and what a refresh  *)
(* makes of one.  An account holds the tokens of one grant, the n-th that   *)
(* the identity provider made to its user.                                 *)
(***************************************************************************)
EXTENDS Integers, Sequences, FiniteSets, Sorting

CONSTANTS
  User,          (* The people who sign in.                                *)
  Provider,      (* Device-login providers.                                *)
  Nameless,      (* Users whose identity no userinfo call or token tells.  *)
  MaxGrants      (* Bounds the model: grants issued to a user.             *)

ASSUME DeviceStoreAssumption ==
  /\ Nameless \subseteq User
  /\ MaxGrants \in Nat \ {0}

Grant == 1..MaxGrants
Identity == [user : User, token : {0} \cup Grant]
Account == [provider : Provider, id : Identity, user : User, grant : Grant]

Key(a) == <<a.provider, a.id>>
Keys(accounts) == {Key(accounts[i]) : i \in DOMAIN accounts}

(* derive_identity: an e-mail or subject where userinfo or the token gives *)
(* one, else a name made of the access token's hash.                       *)
DeriveIdentity(user, g) == [user |-> user, token |-> IF user \in Nameless THEN g ELSE 0]

(* The account that a completed login, or refresh, leads to.               *)
SignedIn(provider, user, g) ==
  [provider |-> provider, id |-> DeriveIdentity(user, g), user |-> user, grant |-> g]

(* Mutant: an account replaces any other of its provider.                  *)
AddAccountByProvider(accounts, a) ==
  LET found == {i \in DOMAIN accounts : accounts[i].provider = a.provider} IN
  IF found = {} THEN Append(accounts, a)
  ELSE [accounts EXCEPT ![CHOOSE i \in found : TRUE] = a]

(* Mutant: an account is always added at the end.                          *)
AddAccountTwice(accounts, a) == Append(accounts, a)

AddAccount(accounts, a) ==
  LET found == {i \in DOMAIN accounts : Key(accounts[i]) = Key(a)} IN
  IF found = {} THEN Append(accounts, a)
  ELSE [accounts EXCEPT ![CHOOSE i \in found : \A j \in found : i <= j] = a]

(* next_account: the positions of the provider's accounts, and the one the *)
(* cursor points at, counting from the first; the cursor has no bound of   *)
(* its own.                                                                *)
AccountsOf(accounts, p) == {i \in DOMAIN accounts : accounts[i].provider = p}

NextAccount(accounts, p, cursor) ==
  LET idxs == AccountsOf(accounts, p) IN
  accounts[CHOOSE i \in idxs : Cardinality({j \in idxs : j < i}) = cursor % Cardinality(idxs)]

(* Mutant: the cursor is never moved.                                      *)
NextCursorStuck(accounts, p, cursor) == cursor

NextCursor(accounts, p, cursor) == (cursor + 1) % Cardinality(AccountsOf(accounts, p))

UniqueKeys(accounts) ==
  \A i, j \in DOMAIN accounts : Key(accounts[i]) = Key(accounts[j]) => i = j
=============================================================================
