----------------------------- MODULE Embedding -----------------------------
(***************************************************************************)
(* xrouter as a library (xrouter-ffi): an app on the same device starts,   *)
(* stops, restarts and reconfigures the server through C or JNI calls,     *)
(* from any of its threads.                                                *)
(*                                                                         *)
(* Everything the calls share is a static of the library: the app state,   *)
(* behind a read-write lock; the sender that stops the server's task; the  *)
(* flag SERVER_LISTENING; the environment variable XROUTER_CONFIG.  A      *)
(* start makes a task, which fetches the model lists, binds its port and   *)
(* serves; it looks at its end of the channel only then, and stops when    *)
(* something was sent or the sender was dropped.  Nothing makes a call     *)
(* wait for the calls of other threads, or for the task it started or      *)
(* stopped.  Two more statics are kept for a display and left out: the     *)
(* last error, and the host and port of the last start (SERVER_INFO).      *)
(***************************************************************************)
EXTENDS Integers, FiniteSets

CONSTANTS
  Thread,        (* Threads of the app.                                    *)
  Port,          (* Ports server.json may name.                            *)
  DefaultPort,   (* The one it stands for if it is not there.              *)
  Path,          (* Files xrouter_init may be given.                       *)
  Config,        (* Configurations the app may write.                      *)
  MaxStarts,     (* Bound the model: servers started ...                   *)
  MaxEdits       (* ... and updates of a configuration or the port.        *)

ASSUME EmbeddingAssumption ==
  /\ MaxStarts \in Nat /\ MaxEdits \in Nat
  /\ DefaultPort \in Port
  /\ {"default", "torn", "none"} \cap Config = {}

VARIABLES
  run,           (* Each start's task ...                                  *)
  runPort,       (* ... the port it is for ...                             *)
  resolved,      (* ... whether its receiver has something to see ...      *)
  conf,          (* ... and the configuration its app state has.           *)
  appState,      (* GLOBAL_STATE: the start whose app state it is, or 0.   *)
  tx,            (* SHUTDOWN_TX: the start whose sender it is, or 0.       *)
  listening,     (* SERVER_LISTENING.                                      *)
  env,           (* The file XROUTER_CONFIG names, "" if it is not set.    *)
  file,          (* The configuration in each file.                        *)
  port,          (* server.json.                                           *)
  call,          (* What each thread is doing.                             *)
  edits,         (* Updates made so far.                                   *)
  promised       (* History: what the last update has set, or "none" if    *)
                 (* another start or update was under way at its side.     *)

server == <<run, runPort, resolved, listening>>
files == <<env, file, port>>
vars == <<server, conf, appState, tx, files, call, edits, promised>>

Start == 1..MaxStarts
DefaultPath == "xrouter.toml"
File == Path \cup {DefaultPath}
Idle == [at |-> "idle", does |-> "nothing", with |-> "none", port |-> 0, alone |-> FALSE]

Init ==
  /\ run = [i \in Start |-> "none"]
  /\ runPort = [i \in Start |-> 0]
  /\ resolved = [i \in Start |-> FALSE]
  /\ conf = [i \in Start |-> "none"]
  /\ appState = 0 /\ tx = 0 /\ edits = 0
  /\ listening = FALSE
  /\ env = "" /\ file = [f \in File |-> "none"]
  /\ port = DefaultPort
  /\ call = [t \in Thread |-> Idle]
  /\ promised = "none"

-----------------------------------------------------------------------------
(* Calls, begun and continued.  `alone` and `promised` are history: an     *)
(* update is alone if no other thread has a start or an update under way   *)
(* while it lasts; other threads may look, and stop the server.            *)
At(t, step) == call[t].at = step
Goto(t, step) == call' = [call EXCEPT ![t].at = step]
Return(t) == call' = [call EXCEPT ![t] = Idle]
Sets(t) == call[t].does \in {"start", "update"}
Others(t) == {u \in Thread \ {t} : Sets(u)}

Begin(t, step, does, with) ==
  /\ t \in Thread /\ At(t, "idle")
  /\ call' = [u \in Thread |->
                IF u = t THEN [at |-> step, does |-> does, with |-> with, port |-> 0,
                               alone |-> does = "update" /\ Others(t) = {} /\ env \notin Path]
                ELSE [call[u] EXCEPT !.alone = @ /\ does = "stop"]]
  /\ promised' = IF does = "update" \/ with \in Path THEN "none" ELSE promised

(* A reader holds the lock on the app state.                               *)
Readers == {t \in Thread : At(t, "reading")}

-----------------------------------------------------------------------------
(* load_or_create_config: the path becomes the environment's, a file that  *)
(* is not there is written if it can be, and may be left cut short; the    *)
(* call goes on with what it would have written.  Without a path it is     *)
(* xrouter.toml beside the file of the environment.                        *)
Named(path) == IF path = "none" THEN DefaultPath ELSE path

(* Mutant: the file is created whether or not it is there.                 *)
CreatedAnew(f) == [file EXCEPT ![f] = "default"]

Created(f) == IF file[f] = "none" THEN [file EXCEPT ![f] = "default"] ELSE file

LoadInto(t, path) ==
  LET f == Named(path) IN
  /\ env' = f
  /\ \/ file' = Created(f)
     \/ file[f] = "none" /\ file' \in {file, [file EXCEPT ![f] = "torn"]}
  /\ UNCHANGED port

(* What parses: a file cut short may, as a configuration that says less.   *)
Parsed(f) == IF file[f] = "none" THEN {"default"}
             ELSE IF file[f] = "torn" THEN {"torn", "none"} ELSE {file[f]}

BeginInit(t, path) ==
  /\ Begin(t, "load", "start", path)
  /\ UNCHANGED <<server, conf, appState, tx, files, edits>>

(* init and restartServer load the configuration and the port, and start;  *)
(* updateConfig loads, drops what it loaded, and reloads.                  *)
Load(t) ==
  /\ At(t, "load")
  /\ LET path == IF call[t].does = "start" THEN call[t].with ELSE "none" IN
     /\ LoadInto(t, path)
     /\ \E c \in Parsed(Named(path)) :
          IF c = "none"
          THEN Return(t)
          ELSE call' = IF call[t].does = "update"
                       THEN [call EXCEPT ![t].at = "lock"]
                       ELSE [call EXCEPT ![t].at = "store", ![t].with = c, ![t].port = port]
  /\ UNCHANGED <<server, conf, appState, tx, edits, promised>>

-----------------------------------------------------------------------------
(* start_server: the app state is stored when no reader holds the lock ... *)
NextStart == 1 + Cardinality({i \in Start : conf[i] # "none"})

StoreState(t) ==
  /\ At(t, "store") /\ Readers = {}
  /\ NextStart \in Start
  /\ conf' = [conf EXCEPT ![NextStart] = call[t].with]
  /\ runPort' = [runPort EXCEPT ![NextStart] = call[t].port]
  /\ appState' = NextStart
  /\ call' = [call EXCEPT ![t].at = "spawn", ![t].port = NextStart]
  /\ UNCHANGED <<run, resolved, listening, tx, files, edits, promised>>

(* Mutant: only a message, not the drop of the sender, resolves a receiver.*)
ResolvedBySending(old) == resolved

(* ... then the new sender replaces, and so drops, one that is there, and  *)
(* the task is spawned.  The call returns without waiting for it.          *)
ResolvedByDrop(old) == [i \in Start |-> resolved[i] \/ i = old]

Spawn(t) ==
  LET i == call[t].port IN
  /\ At(t, "spawn")
  /\ tx' = i
  /\ resolved' = ResolvedByDrop(tx)
  /\ run' = [run EXCEPT ![i] = "warming"]
  /\ Return(t)
  /\ UNCHANGED <<runPort, listening, conf, appState, files, edits, promised>>

-----------------------------------------------------------------------------
(* shutdown_server, alone or as the first half of restartServer.           *)
BeginShutdown(t, then) ==
  /\ Begin(t, "flag", then, "none")
  /\ UNCHANGED <<server, conf, appState, tx, files, edits>>

ClearFlag(t) ==
  /\ At(t, "flag")
  /\ listening' = FALSE
  /\ Goto(t, "signal")
  /\ UNCHANGED <<run, runPort, resolved, conf, appState, tx, files, edits, promised>>

Signal(t) ==
  /\ At(t, "signal")
  /\ resolved' = [i \in Start |-> resolved[i] \/ i = tx]
  /\ tx' = 0
  /\ Goto(t, "clear")
  /\ UNCHANGED <<run, runPort, listening, conf, appState, files, edits, promised>>

(* try_write: with a reader in the way the app state stays.  The wait of   *)
(* 200 ms that follows is over whether or not the task has stopped.        *)
ClearState(t) ==
  /\ At(t, "clear")
  /\ appState' = IF Readers = {} THEN 0 ELSE appState
  /\ IF call[t].does = "start" THEN Goto(t, "load") ELSE Return(t)
  /\ UNCHANGED <<server, conf, tx, files, edits, promised>>

-----------------------------------------------------------------------------
(* updateConfig: save_config_json writes the file of the environment, in   *)
(* place: it may fail before or half-way.                                  *)
BeginUpdate(t, c) ==
  /\ edits < MaxEdits
  /\ edits' = edits + 1
  /\ Begin(t, "save", "update", c)
  /\ UNCHANGED <<server, conf, appState, tx, files>>

Save(t) ==
  LET f == IF env = "" THEN DefaultPath ELSE env IN
  /\ At(t, "save")
  /\ \/ file' = [file EXCEPT ![f] = call[t].with] /\ Goto(t, "load")
     \/ file' = [file EXCEPT ![f] = "torn"] /\ Return(t)
     \/ UNCHANGED file /\ Return(t)
  /\ UNCHANGED <<server, conf, appState, tx, env, port, edits, promised>>

(* reload_config, and whatever else reads the app state: the lock is held  *)
(* over the read.  A call before the first start has no runtime to run on. *)
Started == \E i \in Start : conf[i] # "none"

Lock(t) ==
  /\ Started
  /\ \/ At(t, "lock") /\ Goto(t, "reading")
     \/ At(t, "idle") /\ Goto(t, "reading")
  /\ UNCHANGED <<server, conf, appState, tx, files, edits, promised>>

NoRuntime(t) ==
  /\ At(t, "lock") /\ ~Started
  /\ Return(t)
  /\ UNCHANGED <<server, conf, appState, tx, files, edits, promised>>

View(t) ==
  /\ At(t, "reading") /\ call[t].does = "nothing"
  /\ Return(t)
  /\ UNCHANGED <<server, conf, appState, tx, files, edits, promised>>

Reloaded(c) == [i \in Start |-> IF i = appState THEN c ELSE conf[i]]

Reload(t) ==
  /\ At(t, "reading") /\ call[t].does = "update"
  /\ \E c \in Parsed(env) :
       /\ conf' = IF c = "none" THEN conf ELSE Reloaded(c)
       /\ promised' = IF call[t].alone /\ c # "none" THEN call[t].with ELSE promised
  /\ Return(t)
  /\ UNCHANGED <<server, appState, tx, files, edits>>

(* saveServerConfig: in place too, and read as the default if cut short.   *)
SavePort(t, p) ==
  /\ edits < MaxEdits
  /\ t \in Thread /\ At(t, "idle")
  /\ edits' = edits + 1
  /\ port' = p
  /\ UNCHANGED <<server, conf, appState, tx, env, file, call, promised>>

-----------------------------------------------------------------------------
(* The task of a start (run_server_inner).  A port is held from the bind   *)
(* to the end of serving; another program may hold it as well.             *)
Holds(i, p) == run[i] \in {"bound", "serving"} /\ runPort[i] = p

Bind(i) ==
  /\ run[i] = "warming"
  /\ \A j \in Start : ~Holds(j, runPort[i])
  /\ run' = [run EXCEPT ![i] = "bound"]
  /\ UNCHANGED <<runPort, resolved, listening, conf, appState, tx, files, call, edits, promised>>

BindFails(i) ==
  /\ run[i] = "warming"
  /\ run' = [run EXCEPT ![i] = "ended"]
  /\ UNCHANGED <<runPort, resolved, listening, conf, appState, tx, files, call, edits, promised>>

Announce(i) ==
  /\ run[i] = "bound"
  /\ run' = [run EXCEPT ![i] = "serving"]
  /\ listening' = TRUE
  /\ UNCHANGED <<runPort, resolved, conf, appState, tx, files, call, edits, promised>>

Stop(i) ==
  /\ run[i] = "serving" /\ resolved[i]
  /\ run' = [run EXCEPT ![i] = "ended"]
  /\ UNCHANGED <<runPort, resolved, listening, conf, appState, tx, files, call, edits, promised>>

(* Mutant: the end of a task leaves the flag to shutdown_server.           *)
FinishQuietly(i) ==
  /\ run[i] = "ended"
  /\ run' = [run EXCEPT ![i] = "gone"]
  /\ UNCHANGED <<runPort, resolved, listening, conf, appState, tx, files, call, edits, promised>>

Finish(i) ==
  /\ run[i] = "ended"
  /\ run' = [run EXCEPT ![i] = "gone"]
  /\ listening' = FALSE
  /\ UNCHANGED <<runPort, resolved, conf, appState, tx, files, call, edits, promised>>

-----------------------------------------------------------------------------
Continue(t) ==
  \/ Load(t) \/ StoreState(t) \/ Spawn(t)
  \/ ClearFlag(t) \/ Signal(t) \/ ClearState(t)
  \/ Save(t) \/ NoRuntime(t) \/ Reload(t) \/ View(t)
  \/ Lock(t)

Task(i) == Bind(i) \/ BindFails(i) \/ Announce(i) \/ Stop(i) \/ Finish(i)

Next ==
  \/ \E t \in Thread :
       \/ NextStart \in Start /\ \E path \in Path \cup {"none"} : BeginInit(t, path)
       \/ BeginShutdown(t, "stop")
       \/ NextStart \in Start /\ BeginShutdown(t, "start")
       \/ \E c \in Config : BeginUpdate(t, c)
       \/ \E p \in Port : SavePort(t, p)
  \/ \E t \in Thread : Continue(t)
  \/ \E i \in Start : Task(i)

Spec == Init /\ [][Next]_vars

(* Fairness: the runtime runs a task that is past its bind.  The warm-up   *)
(* before it asks providers, some without a time limit, and looks at no    *)
(* channel, so nothing is assumed about Bind and BindFails.                *)
FairSpec == Spec /\ \A i \in Start : WF_vars(Announce(i) \/ Stop(i) \/ Finish(i))
-----------------------------------------------------------------------------
TypeOK ==
  /\ run \in [Start -> {"none", "warming", "bound", "serving", "ended", "gone"}]
  /\ appState \in 0..MaxStarts /\ tx \in 0..MaxStarts
  /\ \A i \in Start : run[i] # "none" => conf[i] # "none"
  /\ env \in File \cup {""}
  /\ port \in Port

(* Safety: the flag is up only while a server of the library is past its   *)
(* bind ("true only after the TCP port is actually bound", server.rs:16),  *)
(* however starts, stops and late tasks overlap.                           *)
FlagMeansBound ==
  listening => \E i \in Start : run[i] \in {"serving", "ended"}

(* Safety: an update that was answered with success, with no other start   *)
(* or update under way while it lasted, is what every app state has from   *)
(* then on, through any starts, restarts, stops and looks of any threads,  *)
(* overlapping as they like, until the next update begins.  The app must   *)
(* not have named a file of its own: an update is saved to that file, but  *)
(* another one is reloaded.                                                *)
UpdatesLast ==
  promised # "none" /\ appState # 0 => conf[appState] = promised

(* Liveness: once the app has stopped the server and starts it no more, no *)
(* task is left and the flag is down, also for a start that was replaced   *)
(* by another one and for a stop that came before the bind - if warm-ups   *)
(* end: a task whose provider never answers is not stopped by anything.    *)
WarmUpsEnd == \A i \in Start : []<>(run[i] # "warming")

StoppedForGood ==
  WarmUpsEnd =>
    (<>[](tx = 0) => <>[](~listening /\ \A i \in Start : run[i] \in {"none", "gone"}))
=============================================================================
