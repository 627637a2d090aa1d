----------------------------- MODULE ModelCache -----------------------------
(***************************************************************************)
(* The model cache (crates/xrouter-providers/src/cache.rs) of a server     *)
(* process and the tasks that fill it (AppState::refresh_model_cache): one *)
(* at the start, one for each successful /admin/reload.  Every provider    *)
(* that answers is put into the map, and then the whole map is saved: it   *)
(* is gathered, written to a temporary file all savers share, and renamed  *)
(* over the snapshot, which a process reads when it starts.                *)
(*                                                                         *)
(* A list of models is a set of ids; the age of lists is left out, as no   *)
(* routing depends on it (get_or_stale).                                   *)
(***************************************************************************)
EXTENDS Catalog, FiniteSets, Functions

CONSTANTS
  Configs,       (* Configurations the server may run with.                *)
  Lists,         (* What a provider may answer.                            *)
  Refresh,       (* Tasks that refresh the cache.                          *)
  MaxFetches     (* Bounds the model: answers of providers.                *)

ASSUME CacheAssumption ==
  /\ \A c \in Configs : InTiers(c) \subseteq Name \X ModelId
  /\ \A models \in Lists : models \subseteq ModelId

VARIABLES
  cfg,           (* The configuration in force.                            *)
  known,         (* The map in memory.                                     *)
  snapshot,      (* The file, and the temporary one: {map}, {} for none.   *)
  tmp,
  task,          (* Each refresh: providers to ask, and a save in hand.    *)
  fetches,       (* Answers so far.                                        *)
  overlapped     (* History: two saves were under way at once.             *)

cacheVars == <<cfg, known, snapshot, tmp, task, fetches, overlapped>>

EmptyMap == <<>>
(* A task with nobody left to ask has ended.                               *)
NoTask == [at |-> "fetch", todo |-> {}, map |-> EmptyMap]

LoadSnapshot == IF snapshot = {} THEN EmptyMap ELSE CHOOSE map \in snapshot : TRUE

CacheInit ==
  /\ cfg \in Configs
  /\ known = EmptyMap /\ snapshot = {} /\ tmp = {}
  /\ task = [r \in Refresh |-> NoTask]
  /\ fetches = 0 /\ overlapped = FALSE

BeginRefresh(r) ==
  /\ task[r] = NoTask
  /\ task' = [task EXCEPT ![r].todo = Configured(cfg)]
  /\ UNCHANGED <<cfg, known, snapshot, tmp, fetches, overlapped>>

(* The configuration changes, and with /admin/reload so does the cache.    *)
Reconfigure(c) ==
  /\ cfg' = c
  /\ UNCHANGED <<known, snapshot, tmp, task, fetches, overlapped>>

Saving(r) == task[r].at \in {"gather", "write", "rename"}

(* A provider is asked: it answers, and is put into the map ...            *)
Fetched(r, p, models) ==
  /\ task[r].at = "fetch" /\ p \in task[r].todo
  /\ fetches < MaxFetches
  /\ fetches' = fetches + 1
  /\ known' = [q \in DOMAIN known \cup {p} |-> IF q = p THEN models ELSE known[q]]
  /\ task' = [task EXCEPT ![r].at = "gather", ![r].todo = @ \ {p}]
  /\ overlapped' = (overlapped \/ \E q \in Refresh \ {r} : Saving(q))
  /\ UNCHANGED <<cfg, snapshot, tmp>>

(* ... or it does not, and keeps the entry it has.                         *)
FetchFails(r, p) ==
  /\ task[r].at = "fetch" /\ p \in task[r].todo
  /\ task' = [task EXCEPT ![r].todo = @ \ {p}]
  /\ UNCHANGED <<cfg, known, snapshot, tmp, fetches, overlapped>>

Gather(r) ==
  /\ task[r].at = "gather"
  /\ task' = [task EXCEPT ![r].at = "write", ![r].map = known]
  /\ UNCHANGED <<cfg, known, snapshot, tmp, fetches, overlapped>>

(* A save that fails is given up, without a word.                          *)
GiveUpSave(r) == task' = [task EXCEPT ![r].at = "fetch", ![r].map = EmptyMap]

WriteTmp(r) ==
  /\ task[r].at = "write"
  /\ \/ tmp' = {task[r].map} /\ task' = [task EXCEPT ![r].at = "rename"]
     \/ UNCHANGED tmp /\ GiveUpSave(r)
  /\ UNCHANGED <<cfg, known, snapshot, fetches, overlapped>>

RenameTmp(r) ==
  /\ task[r].at = "rename"
  /\ \/ tmp # {} /\ snapshot' = tmp /\ tmp' = {}
     \/ UNCHANGED <<tmp, snapshot>>
  /\ GiveUpSave(r)
  /\ UNCHANGED <<cfg, known, fetches, overlapped>>

(* Mutant: a new process does not look at the snapshot.                    *)
CacheRestartEmpty ==
  /\ known' = EmptyMap
  /\ task' = [r \in Refresh |-> NoTask]
  /\ UNCHANGED <<cfg, snapshot, tmp, fetches, overlapped>>

(* The process ends, at any point, and another one starts.                 *)
CacheRestart ==
  /\ known' = LoadSnapshot
  /\ task' = [r \in Refresh |-> NoTask]
  /\ UNCHANGED <<cfg, snapshot, tmp, fetches, overlapped>>

CacheNext ==
  \/ \E r \in Refresh :
       \/ BeginRefresh(r) \/ Gather(r) \/ WriteTmp(r) \/ RenameTmp(r)
       \/ \E p \in task[r].todo :
            FetchFails(r, p) \/ \E models \in Lists : Fetched(r, p, models)
  \/ \E c \in Configs : Reconfigure(c)
-----------------------------------------------------------------------------
(* Safety: at any moment, every id the list of models offers resolves, to  *)
(* one target, unless it is the address of a provider that is not          *)
(* configured; and an address resolves to just that pair, unless it is the *)
(* name of a tier ("every `(provider, model)` pair we can route to").      *)
ListedResolve ==
  /\ \A id \in Listed(cfg, known) :
       \/ Resolve(cfg, known, id) \notin {NotFound, Ambiguous}
       \/ \E e \in InTiers(cfg) : e[1] \notin Configured(cfg) /\ id = Address(e[1], e[2])
  /\ \A e \in Pairs(cfg, known) :
       e[1] \in Configured(cfg) /\ ~IsTier(cfg, Address(e[1], e[2])) =>
         Resolve(cfg, known, Address(e[1], e[2])) = Direct(e[1], e[2])

Saved(kept) == UNION {DOMAIN map : map \in kept}

(* Action property: unless two saves were under way at once, a provider    *)
(* that is in the snapshot stays in it, whatever fails, crashes, or is     *)
(* taken out of the configuration, so that its models can be resolved      *)
(* right after any later start.                                            *)
SnapshotKeepsAll ==
  [][~overlapped' => Saved(snapshot) \subseteq Saved(snapshot')]_cacheVars
=============================================================================
