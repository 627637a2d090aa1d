---------------------------- MODULE ConfigReload ----------------------------
(***************************************************************************)
(* How a change of config.toml reaches a running server: the savers that   *)
(* write the file (wizard, CLI, an editor, handle_admin_create_tier), the  *)
(* file watcher (crates/xrouter-config/src/watch.rs, installed by the      *)
(* CLI's serve), /admin/reload (AppState::reload, which the embedding      *)
(* library calls too), and the requests that keep the configuration they   *)
(* started with while they use the key rings of the moment.  Nobody locks  *)
(* anything beyond a single store.                                         *)
(*                                                                         *)
(* A configuration is the keys of each provider, none if it is disabled,   *)
(* whether some provider logs in by device, and the tiers.  Writing the    *)
(* temporary file is one step: a file half written is not modelled.        *)
(***************************************************************************)
EXTENDS Integers, FiniteSets

CONSTANTS
  Provider, Key, Tier,
  Configs,       (* What people write into the file.                       *)
  Broken,        (* A file that does not parse.                            *)
  NoFile,        (* The temporary file when there is none.                 *)
  Editor,        (* Processes that save the file: wizard, CLI.             *)
  Admin,         (* Handlers of /admin/reload and of a tier's creation.    *)
  Request,
  MaxEdits,      (* Bounds the model: saves by editors.                    *)
  MaxAdmin       (* Bounds the model: calls of admin handlers.             *)

Config == [keys : [Provider -> SUBSET Key], device : BOOLEAN, tiers : SUBSET Tier]

ASSUME ConfigAssumption ==
  /\ Configs \subseteq Config
  /\ Broken \notin Config
  /\ NoFile \notin Config \cup {Broken}
  /\ Editor \cap Admin = {}
  /\ MaxEdits \in Nat
  /\ MaxAdmin \in Nat

VARIABLES
  file,          (* config.toml.                                           *)
  tmp,           (* config.toml.tmp, which all savers share.               *)
  published,     (* The configuration requests load (AppState::config).    *)
  ring,          (* The keys in each provider's ring.                      *)
  devices,       (* Whether the store of device accounts is loaded.        *)
  events,        (* File events the watcher has not received.              *)
  armed,         (* Whether its debounce timer runs.                       *)
  job,           (* What each editor, admin handler and the watcher does.  *)
  snap,          (* The configuration of each request, NoFile for none.    *)
  edits, calls,  (* Saves and admin calls so far.                          *)
  disturbed      (* History: whether an admin handler has been at work     *)
                 (* since the file last changed.                           *)

vars == <<file, tmp, published, ring, devices, events, armed, job, snap, edits, calls>>

Watcher == "watcher"
Actor == Editor \cup Admin \cup {Watcher}
Idle == [at |-> "idle"]
Listed(c) == {p \in Provider : c.keys[p] # {}}
Saving == [at : {"rename"}, cfg : Config \cup {Broken}]
Loading == [at : {"load", "publish"}, cfg : Config, todo : SUBSET Provider]

At(a, step) == job[a].at = step
Free(a) == At(a, "idle")
Do(a, j) == job' = [job EXCEPT ![a] = j]

TypeOK ==
  /\ file \in Config \cup {Broken}
  /\ tmp \in Config \cup {Broken, NoFile}
  /\ published \in Config
  /\ ring \in [Provider -> SUBSET Key]
  /\ devices \in BOOLEAN
  /\ events \in Nat
  /\ armed \in BOOLEAN
  /\ job \in [Actor -> Saving \cup Loading \cup {Idle, [at |-> "stopped"]}]
  /\ snap \in [Request -> Config \cup {NoFile}]
  /\ edits \in 0..MaxEdits /\ calls \in 0..MaxAdmin
  /\ disturbed \in BOOLEAN

Init ==
  /\ file \in Configs
  /\ tmp = NoFile
  /\ published = file
  /\ ring = file.keys
  /\ devices \in {FALSE, file.device}
  /\ events = 0
  /\ armed = FALSE
  /\ job = [a \in Actor |-> Idle]
  /\ snap = [r \in Request |-> NoFile]
  /\ edits = 0 /\ calls = 0
  /\ disturbed = FALSE

-----------------------------------------------------------------------------
(* save: the temporary file is written, then renamed; each is an event in  *)
(* the directory that the watcher watches.                                 *)
WriteTmp(a, c) ==
  /\ tmp' = c
  /\ events' = events + 1
  /\ Do(a, [at |-> "rename", cfg |-> c])

Edit(a, c) ==
  /\ Free(a) /\ edits < MaxEdits
  /\ c # file
  /\ WriteTmp(a, c)
  /\ edits' = edits + 1
  /\ UNCHANGED <<file, published, ring, devices, armed, snap, calls>>

(* Mutant: a rename of nothing leaves no file.                            *)
RenameUnchecked(a) ==
  /\ file' = tmp /\ events' = events + 1
  /\ tmp' = NoFile

(* The file becomes whatever the temporary file holds by now.  If another  *)
(* saver has renamed it away, the save fails.                              *)
Rename(a) ==
  /\ IF tmp = NoFile THEN UNCHANGED <<file, events>>
     ELSE file' = tmp /\ events' = events + 1
  /\ tmp' = NoFile

FinishEdit(a) ==
  /\ a \in Editor /\ At(a, "rename")
  /\ Rename(a)
  /\ Do(a, Idle)
  /\ UNCHANGED <<published, ring, devices, armed, snap, edits, calls>>

(* handle_admin_create_tier: the published configuration with the tier, in *)
(* place of one of that name, is saved and then published.                 *)
CreateTier(a, t) ==
  /\ Free(a) /\ calls < MaxAdmin
  /\ WriteTmp(a, [published EXCEPT !.tiers = @ \cup {t}])
  /\ calls' = calls + 1
  /\ UNCHANGED <<file, published, ring, devices, armed, snap, edits>>

SaveTier(a) ==
  /\ a \in Admin /\ At(a, "rename")
  /\ Rename(a)
  /\ Do(a, IF tmp = NoFile THEN Idle
           ELSE [at |-> "publish", cfg |-> job[a].cfg, todo |-> {}])
  /\ UNCHANGED <<published, ring, devices, armed, snap, edits, calls>>

-----------------------------------------------------------------------------
(* Reading the file may be an event too: the watcher takes any event of    *)
(* config.toml, and some platforms report that a file was opened.          *)
ReadFile == events' \in {events, events + 1}

(* The watcher's two branches: an event (re)arms the timer, the timer      *)
(* loads the file.                                                         *)

(* Mutant: an event that comes while the timer runs is not kept for it.    *)
ReceiveDisarming ==
  /\ Free(Watcher) /\ events > 0
  /\ events' = events - 1
  /\ armed' = ~armed
  /\ UNCHANGED <<file, tmp, published, ring, devices, job, snap, edits, calls>>

Receive ==
  /\ Free(Watcher) /\ events > 0
  /\ events' = events - 1
  /\ armed' = TRUE
  /\ UNCHANGED <<file, tmp, published, ring, devices, job, snap, edits, calls>>

(* Mutant: a file that does not parse ends the task.                       *)
TimerFiresOnce ==
  /\ Free(Watcher) /\ armed
  /\ armed' = FALSE
  /\ ReadFile
  /\ Do(Watcher, IF file = Broken THEN [at |-> "stopped"]
                 ELSE [at |-> "load", cfg |-> file, todo |-> Listed(file)])
  /\ UNCHANGED <<file, tmp, published, ring, devices, snap, edits, calls>>

TimerFires ==
  /\ Free(Watcher) /\ armed
  /\ armed' = FALSE
  /\ ReadFile
  /\ IF file = Broken THEN UNCHANGED job
     ELSE Do(Watcher, [at |-> "load", cfg |-> file, todo |-> Listed(file)])
  /\ UNCHANGED <<file, tmp, published, ring, devices, snap, edits, calls>>

(* /admin/reload; a file that does not parse is an error.                  *)
Reload(a) ==
  /\ Free(a) /\ calls < MaxAdmin
  /\ calls' = calls + 1
  /\ ReadFile
  /\ IF file = Broken THEN UNCHANGED job
     ELSE Do(a, [at |-> "load", cfg |-> file, todo |-> Listed(file)])
  /\ UNCHANGED <<file, tmp, published, ring, devices, armed, snap, edits>>

(* Mutant: a provider without keys has its ring emptied.                   *)
UpdateRingOrEmpty(a, p) ==
  /\ At(a, "load") /\ p \in job[a].todo
  /\ ring' = [q \in Provider |-> IF q = p \/ job[a].cfg.keys[q] = {}
                                 THEN job[a].cfg.keys[q] ELSE ring[q]]
  /\ Do(a, [job[a] EXCEPT !.todo = @ \ {p}])
  /\ UNCHANGED <<file, tmp, published, devices, events, armed, snap, edits, calls>>

(* update_keys, for each enabled provider with keys, in any order; a       *)
(* provider without keeps the ring it has.                                 *)
UpdateRing(a, p) ==
  /\ At(a, "load") /\ p \in job[a].todo
  /\ ring' = [ring EXCEPT ![p] = job[a].cfg.keys[p]]
  /\ Do(a, [job[a] EXCEPT !.todo = @ \ {p}])
  /\ UNCHANGED <<file, tmp, published, devices, events, armed, snap, edits, calls>>

(* init_device_store: AppState::reload loads the store if a provider needs *)
(* it, which may fail, and drops it if none does; the watcher never does.  *)
ReloadDevices(a) ==
  /\ a \in Admin /\ At(a, "load") /\ job[a].todo = {}
  /\ devices' \in {FALSE, job[a].cfg.device}
  /\ Do(a, [job[a] EXCEPT !.at = "publish"])
  /\ UNCHANGED <<file, tmp, published, ring, events, armed, snap, edits, calls>>

(* config.store, after the rings.                                          *)
Publish(a) ==
  /\ At(a, IF a = Watcher THEN "load" ELSE "publish") /\ job[a].todo = {}
  /\ published' = job[a].cfg
  /\ Do(a, Idle)
  /\ UNCHANGED <<file, tmp, ring, devices, events, armed, snap, edits, calls>>

-----------------------------------------------------------------------------
Arrive(r) ==
  /\ snap[r] = NoFile
  /\ snap' = [snap EXCEPT ![r] = published]
  /\ UNCHANGED <<file, tmp, published, ring, devices, events, armed, job, edits, calls>>

Leave(r) ==
  /\ snap[r] # NoFile
  /\ snap' = [snap EXCEPT ![r] = NoFile]
  /\ UNCHANGED <<file, tmp, published, ring, devices, events, armed, job, edits, calls>>

Continue(a) ==
  \/ FinishEdit(a) \/ SaveTier(a)
  \/ ReloadDevices(a) \/ Publish(a) \/ \E p \in Provider : UpdateRing(a, p)

Watch == Receive \/ TimerFires \/ Continue(Watcher)

Next ==
  \/ \E a \in Editor, c \in Configs \cup {Broken} : Edit(a, c)
  \/ \E a \in Admin : Reload(a) \/ \E t \in Tier : CreateTier(a, t)
  \/ \E a \in Editor \cup Admin : Continue(a)
  \/ Watch
  \/ \E r \in Request : Arrive(r) \/ Leave(r)

Observe ==
  disturbed' =
    \/ \E a \in Admin : ~Free(a)'
    \/ disturbed /\ file' = file
    \/ \E a \in Admin : ~Free(a) /\ file' # file

Fairness ==
  /\ WF_vars(Watch)
  /\ \A a \in Editor \cup Admin : WF_vars(Continue(a))

Spec == Init /\ [][Next /\ Observe]_<<vars, disturbed>>
FairSpec == Spec /\ Fairness
-----------------------------------------------------------------------------
(* Safety: a provider that has keys in the configuration a request started *)
(* with has keys in its ring for as long as the request runs, through any  *)
(* reloads ("config hot-reload never drops in-flight requests"): rings are *)
(* updated before a configuration is published, and never emptied.         *)
InFlightKeepsKeys ==
  \A r \in Request : snap[r] # NoFile =>
    \A p \in Listed(snap[r]) : ring[p] # {}

(* The server works with the configuration c.                              *)
Works(c) == published = c /\ \A p \in Listed(c) : ring[p] = c.keys[p]

Quiet == events = 0 /\ ~armed /\ \A a \in Actor : Free(a)

(* Safety: with nothing under way, the server works with what the file     *)
(* says, unless an admin handler was at work after the last change: no     *)
(* event is lost between the savers, the channel and the timer (watcher).  *)
CurrentWhenQuiet ==
  Quiet /\ ~disturbed /\ file # Broken => Works(file)

(* Liveness: a change of the file takes effect without a restart, unless   *)
(* it is overtaken by another or by an admin handler; a file that did not  *)
(* parse in between does no harm (watch_config_file's loop).               *)
EditsTakeEffect ==
  \A c \in Configs :
    (file = c /\ ~disturbed) ~> (Works(c) \/ file # c \/ disturbed)
=============================================================================
