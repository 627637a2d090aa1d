------------------------------- MODULE Logins -------------------------------
(***************************************************************************)
(* Device logins and logouts, and the two files they end in: the store of  *)
(* device accounts (xrouter-auth) and config.toml.  The wizard             *)
(* (crates/xrouter-wizard/src/main.rs) handles each request in a thread of *)
(* its own, the CLI (crates/xrouter-cli/src/main.rs) runs as processes of  *)
(* its own, the server saves the store it holds in memory; nobody locks a  *)
(* file.  A save writes a temporary file that all savers of the store      *)
(* share, then renames it.  (For config.toml this race is in ConfigReload; *)
(* here its save is one step.)                                             *)
(***************************************************************************)
EXTENDS DeviceStore

CONSTANTS
  Flow,          (* Logins that are begun: device codes, Google states.    *)
  Kiro,          (* The flows with a device code.                          *)
  ProviderOf, UserOf,
  ApiKey,
  Earlier,       (* Lists of accounts from logins before.                  *)
  Thread,        (* Wizard threads and CLI processes.                      *)
  Server,
  Unreadable,    (* A file that does not parse.                            *)
  NoFile,        (* The temporary file when there is none.                 *)
  NoFlow,        (* No pending Google login.                               *)
  MaxCalls       (* Bounds the model: commands and pages besides logins.   *)

ASSUME LoginsAssumption ==
  /\ Kiro \subseteq Flow
  /\ NoFlow \notin Flow
  /\ ProviderOf \in [Flow -> Provider]
  /\ UserOf \in [Flow -> User]
  /\ Server \notin Thread
  /\ \A list \in Earlier : list \in Seq(Account) /\ UniqueKeys(list)
  /\ Unreadable \notin Seq(Account) /\ NoFile \notin Seq(Account)
  /\ MaxCalls \in Nat

(* config.toml: API keys, the device providers it has an entry for, and    *)
(* the accounts listed in these entries.  The wizard writes an account     *)
(* with "" for its expiry, which only the wizard itself can read; the CLI  *)
(* and the server read and write a time or nothing.                        *)
Meta == [who : Provider \X Identity, expiry : {"blank", "none"}]
Config == [keys : SUBSET ApiKey, devices : SUBSET Provider, meta : SUBSET Meta]
Defaults == [keys |-> {}, devices |-> {}, meta |-> {}]

VARIABLES
  kiro,          (* KIRO_PENDING, the device codes the wizard may poll.    *)
  google,        (* GOOGLE_PENDING, one login at most.                     *)
  flow,          (* How far each login is with the identity provider.      *)
  store, tmp,    (* device-store.json, and its temporary file.             *)
  config,        (* config.toml.                                           *)
  job,           (* What each thread, and the server, is doing.            *)
  calls          (* Commands and pages so far.                             *)

pending == <<kiro, google>>
files == <<store, tmp, config>>
vars == <<pending, flow, files, job, calls>>

Idle == [at |-> "idle"]
At(t, step) == job[t].at = step
Free(t) == At(t, "idle")
Called(t) == Free(t) /\ calls < MaxCalls /\ calls' = calls + 1
Do(t, j) == job' = [job EXCEPT ![t] = j]
Goto(t, step) == job' = [job EXCEPT ![t].at = step]

(* A login or logout on its way into the files: what it does to a list of  *)
(* accounts is Edited, what to the accounts of an entry is Entered.        *)
Edit(by, kind, p, who, f) == [at |-> "load", by |-> by, kind |-> kind, p |-> p, who |-> who, f |-> f]
AccountOf(f) == SignedIn(ProviderOf[f], UserOf[f], 1)
Recording(by, f) == Edit(by, "login", ProviderOf[f], {Key(AccountOf(f))}, f)

List(content) == IF content = Unreadable THEN <<>> ELSE content
Providers(list) == {list[i].provider : i \in DOMAIN list}

TypeOK ==
  /\ kiro \subseteq Kiro
  /\ google \in (Flow \ Kiro) \cup {NoFlow}
  /\ flow \in [Flow -> {"new", "begun", "approved", "used"}]
  /\ store \in Seq(Account) \cup {Unreadable}
  /\ tmp \in Seq(Account) \cup {NoFile}
  /\ config \in Config \cup {Unreadable}
  /\ \A t \in Thread : At(t, "rename") => job[t].list \in Seq(Account)
  /\ At(Server, "serve") \/ At(Server, "idle") \/ job[Server].list \in Seq(Account)
  /\ UniqueKeys(List(store))
  /\ calls \in 0..MaxCalls

Init ==
  /\ kiro = {} /\ google = NoFlow
  /\ flow = [f \in Flow |-> "new"]
  /\ store \in Earlier \cup {Unreadable}
  /\ tmp = NoFile
  /\ \/ config = Unreadable
     \/ \E devices \in {{}, Providers(List(store))} :
          config = [keys |-> ApiKey, devices |-> devices,
                    meta |-> [who : {k \in Keys(List(store)) : k[1] \in devices}, expiry : {"none"}]]
  /\ job = [t \in Thread \cup {Server} |-> Idle]
  /\ calls = 0

-----------------------------------------------------------------------------
(* Reading config.toml.  The server and the CLI; a CLI command that cannot *)
(* read it goes on with the defaults.                                      *)
ServerReads(c) == c # Unreadable /\ \A m \in c.meta : m.expiry = "none"
CliLoad(c) == IF ServerReads(c) THEN c ELSE Defaults

(* The wizard takes the defaults for a file that does not parse, and adds  *)
(* an entry for each device provider that has an account in the store.     *)
BlankMeta(who) == [who : who, expiry : {"blank"}]
Healed(c, list) ==
  LET missing == Providers(list) \ c.devices IN
  [c EXCEPT !.devices = @ \cup missing,
            !.meta = @ \cup BlankMeta({k \in Keys(list) : k[1] \in missing})]
WizardLoad == Healed(IF config = Unreadable THEN Defaults ELSE config, List(store))

-----------------------------------------------------------------------------
(* The identity provider gives a device code, to a client registered for   *)
(* it, or the login is known by the state in the consent URL made for it.  *)
Initiated(f) ==
  /\ flow[f] = "new"
  /\ flow' = [flow EXCEPT ![f] = "begun"]

(* The wizard's device_login: a consent URL whose verifier is kept, in     *)
(* place of any other, or a device code.                                   *)
DeviceLogin(f) ==
  /\ Initiated(f)
  /\ IF f \in Kiro THEN kiro' = kiro \cup {f} /\ UNCHANGED google
     ELSE google' = f /\ UNCHANGED kiro
  /\ UNCHANGED <<files, job, calls>>

(* The user consents in the browser.                                       *)
Approve(f) ==
  /\ flow[f] = "begun"
  /\ flow' = [flow EXCEPT ![f] = "approved"]
  /\ UNCHANGED <<pending, files, job, calls>>

(* Mutant: the pending login is taken, not looked at.                      *)
DevicePollTaking(t, f) ==
  /\ Free(t) /\ f \in kiro
  /\ kiro' = kiro \ {f}
  /\ Do(t, [at |-> "poll", by |-> "wizard", f |-> f])
  /\ UNCHANGED <<google, flow, files, calls>>

DevicePoll(t, f) ==
  /\ Free(t) /\ f \in kiro
  /\ Do(t, [at |-> "poll", by |-> "wizard", f |-> f])
  /\ UNCHANGED <<pending, flow, files, calls>>

(* The CLI's device_login polls, or waits for one callback, by itself.     *)
CliLogin(t, f) ==
  /\ Free(t) /\ Initiated(f)
  /\ Do(t, [at |-> IF f \in Kiro THEN "poll" ELSE "wait", by |-> "cli", f |-> f])
  /\ UNCHANGED <<pending, files, calls>>

(* poll_device_login: until the user consents the loop goes on; a device   *)
(* code is good for one grant, the answer to which may be lost; a denial,  *)
(* a failed call or 600 s end it.                                          *)
PollGranted(t) ==
  /\ At(t, "poll") /\ flow[job[t].f] = "approved"
  /\ flow' = [flow EXCEPT ![job[t].f] = "used"]
  /\ \/ /\ Do(t, Recording(job[t].by, job[t].f))
        /\ kiro' = kiro \ {job[t].f}
     \/ Do(t, Idle) /\ UNCHANGED kiro
  /\ UNCHANGED <<google, files, calls>>

PollFails(t) ==
  /\ At(t, "poll")
  /\ Do(t, Idle)
  /\ UNCHANGED <<pending, flow, files, calls>>

(* The browser comes to /oauth/callback with some state: the pending login *)
(* is taken before anything is checked.                                    *)
Callback(t, f) ==
  /\ Free(t) /\ google # NoFlow
  /\ flow[f] \in {"begun", "approved", "used"}
  /\ google' = NoFlow
  /\ Do(t, IF flow[f] = "begun" THEN Idle
           ELSE [at |-> "exchange", by |-> "wizard", f |-> google, came |-> f])
  /\ UNCHANGED <<kiro, flow, files, calls>>

CliCallback(t, f) ==
  /\ At(t, "wait")
  /\ flow[f] \in {"begun", "approved", "used"}
  /\ Do(t, IF flow[f] = "begun" THEN Idle
           ELSE [at |-> "exchange", by |-> "cli", f |-> job[t].f, came |-> f])
  /\ UNCHANGED <<pending, flow, files, calls>>

(* complete_google_login: the state is compared, the code exchanged.       *)
Exchange(t) ==
  LET f == job[t].f IN
  /\ At(t, "exchange")
  /\ \/ /\ job[t].came = f /\ flow[f] = "approved"
        /\ flow' = [flow EXCEPT ![f] = "used"]
        /\ Do(t, Recording(job[t].by, f)) \/ Do(t, Idle)
     \/ Do(t, Idle) /\ UNCHANGED flow
  /\ UNCHANGED <<pending, files, calls>>

(* device_logout of an account or, for no who, of all of a provider.       *)
Logout(t, p, who) ==
  /\ Called(t)
  /\ Do(t, Edit("cli", "logout", p, who, NoFlow))
  /\ UNCHANGED <<pending, flow, files>>

-----------------------------------------------------------------------------
Edited(j, list) ==
  IF j.kind = "login" THEN AddAccount(list, AccountOf(j.f))
  ELSE LET Stays(a) == Key(a) \notin j.who IN Filtered(list, Stays)

(* DeviceStore::load, or an empty store, and the change.                   *)
Concerned(j, list) == IF j.who # {} THEN j.who ELSE {k \in Keys(list) : k[1] = j.p}

LoadStore(t) ==
  LET j == [job[t] EXCEPT !.who = Concerned(job[t], List(store))] IN
  /\ At(t, "load")
  /\ Do(t, [at |-> "write", by |-> j.by, kind |-> j.kind, p |-> j.p, who |-> j.who,
            base |-> store, list |-> Edited(j, List(store))])
  /\ UNCHANGED <<pending, flow, files, calls>>

(* save, which may fail at either step.                                    *)
WriteStore(t) ==
  /\ At(t, "write")
  /\ \/ tmp' = job[t].list /\ Goto(t, "rename")
     \/ UNCHANGED tmp /\ IF t = Server THEN Goto(t, "serve") ELSE Do(t, Idle)
  /\ UNCHANGED <<pending, flow, store, config, calls>>

(* Mutant: the rename is taken to succeed.                                 *)
RenameStoreBlindly(t) ==
  /\ At(t, "rename")
  /\ store' = tmp /\ tmp' = NoFile
  /\ Goto(t, IF t = Server THEN "serve" ELSE "config")
  /\ UNCHANGED <<pending, flow, config, calls>>

RenameStore(t) ==
  /\ At(t, "rename")
  /\ IF tmp = NoFile
     THEN /\ IF t = Server THEN Goto(t, "serve") ELSE Do(t, Idle)
          /\ UNCHANGED <<store, tmp>>
     ELSE /\ store' = tmp /\ tmp' = NoFile
          /\ Goto(t, IF t = Server THEN "serve" ELSE "config")
  /\ UNCHANGED <<pending, flow, config, calls>>

(* The server loads the store at its start and at a reload, and saves what *)
(* it has whenever a request has used an account.                          *)
ServerLoads ==
  /\ At(Server, "idle") \/ At(Server, "serve")
  /\ IF store = Unreadable THEN Do(Server, Idle)
     ELSE Do(Server, [at |-> "serve", by |-> "server", who |-> {}, base |-> store, list |-> store])
  /\ UNCHANGED <<pending, flow, files, calls>>

ServerSaves ==
  /\ At(Server, "serve")
  /\ Goto(Server, "write")
  /\ UNCHANGED <<pending, flow, files, calls>>

-----------------------------------------------------------------------------
(* The entry of a login in config.toml, by the wizard (which leaves a      *)
(* known account alone) and by the CLI; what a logout leaves of it.  (The  *)
(* CLI files the entry under the provider's name as it was typed, which is *)
(* taken here to be the one the account has.)                              *)
Known(c, who) == who \subseteq {m.who : m \in c.meta}
Entered(j, c) ==
  [c EXCEPT !.devices = @ \cup {j.p},
            !.meta = IF Known(c, j.who) THEN @
                     ELSE @ \cup [who : j.who, expiry : {IF j.by = "wizard" THEN "blank" ELSE "none"}]]
Left(j, c) == [c EXCEPT !.meta = {m \in @ : m.who \notin j.who}]

(* save_device_account_to_config, and the second half of                   *)
(* persist_device_account and of device_logout: load the file and ...      *)
LoadConfig(t) ==
  LET j == job[t]
      c == IF j.by = "wizard" THEN WizardLoad ELSE CliLoad(config)
  IN
  /\ At(t, "config")
  /\ Do(t, IF j.by = "wizard" /\ Known(c, j.who) THEN Idle
           ELSE [at |-> "save", cfg |-> IF j.kind = "login" THEN Entered(j, c) ELSE Left(j, c)])
  /\ UNCHANGED <<pending, flow, files, calls>>

(* ... save it; the wizard ignores that this fails.                        *)
SaveConfig(t) ==
  /\ At(t, "save")
  /\ config' \in {job[t].cfg, config}
  /\ Do(t, Idle)
  /\ UNCHANGED <<pending, flow, store, tmp, calls>>

(* The CLI's keys add and auth commands, and the wizard's auth_enable and  *)
(* auth_disable, each load the file and save it changed.                   *)
CliKeys(t, k) ==
  /\ Called(t)
  /\ Do(t, [at |-> "save", cfg |-> [CliLoad(config) EXCEPT !.keys = @ \cup {k}]])
  /\ UNCHANGED <<pending, flow, files>>

WizardAuth(t) ==
  /\ Called(t)
  /\ Do(t, [at |-> "save", cfg |-> WizardLoad])
  /\ UNCHANGED <<pending, flow, files>>

(* The wizard's page shows a configuration and posts it back, changed.     *)
OpenPage(t) ==
  /\ Called(t)
  /\ Do(t, [at |-> "page", cfg |-> WizardLoad])
  /\ UNCHANGED <<pending, flow, files>>

(* Mutant: the page is saved as it is.                                     *)
CarriedNone(c) == c

(* post_config reads the file: device providers that it has accounts of,   *)
(* and the page does not know, are carried over.  A provider that the page *)
(* knows stays as the page has it, without accounts it got since.          *)
WithAccounts(c) == {p \in c.devices : \E m \in c.meta : m.who[1] = p}
Carried(c) ==
  IF config = Unreadable THEN c
  ELSE LET kept == WithAccounts(config) \ c.devices IN
       [c EXCEPT !.devices = @ \cup kept,
                 !.meta = @ \cup {m \in config.meta : m.who[1] \in kept}]

PostConfig(t, keys) ==
  /\ At(t, "page")
  /\ Do(t, [at |-> "post", base |-> config, shown |-> job[t].cfg.devices,
            cfg |-> Carried([job[t].cfg EXCEPT !.keys = keys])])
  /\ UNCHANGED <<pending, flow, files, calls>>

(* Then it saves the result, unless it is found invalid or the save fails. *)
SavePosted(t) ==
  /\ At(t, "post")
  /\ config' \in {job[t].cfg, config}
  /\ Do(t, Idle)
  /\ UNCHANGED <<pending, flow, store, tmp, calls>>

-----------------------------------------------------------------------------
Recorded(t) == LoadStore(t) \/ LoadConfig(t) \/ SaveConfig(t)
Saving(t) == WriteStore(t) \/ RenameStore(t)

Next ==
  \/ \E f \in Flow : DeviceLogin(f) \/ Approve(f)
  \/ \E t \in Thread :
       \/ \E f \in Kiro : DevicePoll(t, f)
       \/ \E f \in Flow : CliLogin(t, f)
       \/ \E f \in Flow \ Kiro : Callback(t, f) \/ CliCallback(t, f)
       \/ PollGranted(t) \/ PollFails(t) \/ Exchange(t)
       \/ \E f \in Flow : LET k == Key(AccountOf(f)) IN
            Logout(t, k[1], {k}) \/ Logout(t, k[1], {})
       \/ Recorded(t) \/ Saving(t)
       \/ \E k \in ApiKey : CliKeys(t, k)
       \/ WizardAuth(t) \/ OpenPage(t)
       \/ \E keys \in SUBSET ApiKey : PostConfig(t, keys)
       \/ SavePosted(t)
  \/ ServerLoads \/ ServerSaves \/ Saving(Server)

Spec == Init /\ [][Next]_vars
-----------------------------------------------------------------------------
(* device_poll looks at a pending login and takes it only when it is done: *)
(* as long as the identity provider would still grant a device code that   *)
(* the wizard has shown, the page can poll for it again, whatever polls of *)
(* it have failed or run at the same time.                                 *)
PollsCanBeRetried ==
  [][\A f \in kiro : f \in kiro' \/ flow'[f] = "used"]_vars

(* An account leaves the store only by a logout of it, unless two savers   *)
(* overlap: one that saves over the file it has read, its own temporary    *)
(* file in place, keeps the account of everybody else.                     *)
LoneSaverKeepsAll ==
  [][\A t \in Thread \cup {Server} :
       (/\ At(t, "rename") /\ RenameStore(t)
        /\ job[t].base = store /\ tmp = job[t].list)
       => Keys(List(store)) \ Keys(List(store')) \subseteq (IF t = Server \/ job[t].kind = "login" THEN {} ELSE job[t].who)]_vars

(* A page that was opened before a login, and is posted after it, does not *)
(* undo it: every device provider with an account in the file stays there, *)
(* and with its accounts if the page did not show it, unless somebody else *)
(* saves the file between the read and the save of the post.               *)
KeptBy(c, shown, new) ==
  /\ WithAccounts(c) \subseteq new.devices
  /\ \A p \in WithAccounts(c) \ shown : {m \in c.meta : m.who[1] = p} \subseteq new.meta

PostKeepsDevices ==
  [][\A t \in Thread :
       (At(t, "post") /\ job'[t] = Idle /\ config # Unreadable /\ job[t].base = config)
       => KeptBy(config, job[t].shown, config')]_vars

(* "Config model (mirrors crates/xrouter-config schema)" (the wizard's     *)
(* main.rs): what the wizard saves, the server and the CLI can read.       *)
SchemaMirrored == [][ServerReads(config) => ServerReads(config')]_vars
=============================================================================
