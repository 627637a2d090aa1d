-------------------------- MODULE EmbeddingProofs --------------------------
(***************************************************************************)
(* SERVER_LISTENING is up only while a task of the library is past its     *)
(* bind, for any number of threads and starts.  The flag is put up by a    *)
(* task that serves from then on, and the only danger is that a start      *)
(* would begin that task anew.  So the invariant says that starts are      *)
(* taken in order, that a thread about to spawn one is alone with it and   *)
(* that it has not run before: every call that stores an app state takes   *)
(* the next start, and none gives one back.                                *)
(*                                                                         *)
(* An update that met no other start or update lasts: the invariant        *)
(* (Promise) says of every call under way what it can still bring into an  *)
(* app state.                                                              *)
(***************************************************************************)
EXTENDS Embedding, FiniteSetTheorems, TLAPS

Phase == {"none", "warming", "bound", "serving", "ended", "gone"}

(* What a thread is doing, whatever the others are.                        *)
CallFine(c) ==
  /\ DOMAIN c = {"at", "does", "with", "port", "alone"}
  /\ c.does \in {"nothing", "stop", "start", "update"}
  /\ c.at = "store" => c.with # "none"
  /\ c.at = "save" => c.does # "start"
  /\ c.does = "start" /\ c.at = "load" => c.with \in Path \cup {"none"}
  /\ c.does = "start" /\ c.at \in {"flag", "signal", "clear"} => c.with = "none"

Taken(i) == conf[i] # "none"
InOrder(k) == \A i \in Start : Taken(i) <=> i <= k

(* A thread about to spawn a start is alone with it.                       *)
Fresh(t) == call[t].port \in Start /\ Taken(call[t].port) /\ run[call[t].port] = "none"
SpawnsFine ==
  /\ \A t \in Thread : At(t, "spawn") => Fresh(t)
  /\ \A t, u \in Thread :
       At(t, "spawn") /\ At(u, "spawn") /\ call[t].port = call[u].port => t = u

Calls == DOMAIN call = Thread /\ \A t \in Thread : CallFine(call[t])

Starts ==
  /\ DOMAIN conf = Start
  /\ \E k \in 0..MaxStarts : InOrder(k)
  /\ appState \in 0..MaxStarts
  /\ appState # 0 => Taken(appState)

Runs ==
  /\ run \in [Start -> Phase]
  /\ \A i \in Start : run[i] # "none" => Taken(i)
  /\ FlagMeansBound

Rest == tx \in 0..MaxStarts /\ env \in File \cup {""} /\ port \in Port

IInv == Calls /\ SpawnsFine /\ Starts /\ Runs /\ Rest

-----------------------------------------------------------------------------
LEMMA Bounds == MaxStarts \in Nat
BY EmbeddingAssumption

(* The next start has no configuration yet, and it is next.                *)
LEMMA NextIsFresh ==
  ASSUME Starts, NextStart \in Start
  PROVE  ~Taken(NextStart) /\ \A i \in Start : Taken(i) <=> i < NextStart
<1>1. PICK k \in 0..MaxStarts : InOrder(k)
  BY DEF Starts
<1>2. MaxStarts \in Nat /\ k \in Nat /\ k <= MaxStarts
  BY Bounds
<1>3. {i \in Start : conf[i] # "none"} = 1..k
  BY <1>1, <1>2 DEF InOrder, Taken, Start
<1>4. Cardinality(1..k) = k
  BY <1>2, FS_Interval
<1>5. NextStart = 1 + k
  BY <1>3, <1>4 DEF NextStart
<1>6. QED
  BY <1>1, <1>2, <1>5 DEF InOrder, Start

(* A thread goes on to anything but a spawn.                               *)
LEMMA CallMoves ==
  ASSUME IInv, NEW t \in Thread, NEW c, CallFine(c), c.at # "spawn",
         call' = [call EXCEPT ![t] = c], UNCHANGED <<run, conf>>
  PROVE  Calls' /\ SpawnsFine'
<1>1. call' = [u \in Thread |-> IF u = t THEN c ELSE call[u]]
  BY DEF IInv, Calls
<1>2. Calls'
  BY <1>1 DEF IInv, Calls
<1>3. \A u \in Thread : At(u, "spawn")' => u # t /\ call'[u] = call[u] /\ At(u, "spawn")
  BY <1>1 DEF At
<1>4. SpawnsFine'
  BY <1>3 DEF IInv, SpawnsFine, Fresh, Taken, Start
<1>5. QED
  BY <1>2, <1>4

LEMMA IdleFine == CallFine(Idle) /\ Idle.at # "spawn"
BY DEF CallFine, Idle

LEMMA Returns ==
  ASSUME IInv, NEW t \in Thread, Return(t), UNCHANGED <<run, conf>>
  PROVE  Calls' /\ SpawnsFine'
BY CallMoves, IdleFine DEF Return

LEMMA Goes ==
  ASSUME IInv, NEW t \in Thread, NEW step, Goto(t, step), UNCHANGED <<run, conf>>,
         step \in {"signal", "clear", "load", "lock", "reading"},
         step \in {"signal", "clear", "load"} /\ call[t].does = "start"
           => call[t].with = "none"
  PROVE  Calls' /\ SpawnsFine'
<1> DEFINE c == [call[t] EXCEPT !.at = step]
<1>1. CallFine(call[t])
  BY DEF IInv, Calls
<1>2. DOMAIN c = DOMAIN call[t] /\ c.at = step /\ c.does = call[t].does /\ c.with = call[t].with
  BY <1>1 DEF CallFine
<1>3. CallFine(c) /\ c.at # "spawn"
  <2> HIDE DEF c
  <2>1. QED
    BY <1>1, <1>2 DEF CallFine
<1>4. call' = [call EXCEPT ![t] = c]
  BY DEF Goto
<1> HIDE DEF c
<1>5. QED
  BY <1>3, <1>4, CallMoves

LEMMA CallUntouched ==
  ASSUME IInv, UNCHANGED <<call, run, conf>>
  PROVE  Calls' /\ SpawnsFine'
BY DEF IInv, Calls, SpawnsFine, Fresh, Taken, At, CallFine, Start

(* A new call is alone with its own record; the others' lose a mark.       *)
LEMMA Begins ==
  ASSUME IInv, NEW t \in Thread, NEW step, NEW does, NEW with, Begin(t, step, does, with),
         UNCHANGED <<run, conf>>, step \in {"load", "flag", "save"},
         does \in {"stop", "start", "update"},
         does = "start" => /\ with \in Path \cup {"none"}
                           /\ step = "flag" => with = "none"
                           /\ step # "save"
  PROVE  Calls' /\ SpawnsFine'
<1> DEFINE mine == [at |-> step, does |-> does, with |-> with, port |-> 0, alone |-> does = "update" /\ Others(t) = {} /\ env \notin Path]
           other(u) == [call[u] EXCEPT !.alone = @ /\ does = "stop"]
<1>1. call' = [u \in Thread |-> IF u = t THEN mine ELSE other(u)]
  BY DEF Begin
<1>2. CallFine(mine) /\ mine.at # "spawn"
  BY DEF CallFine
<1>3. \A u \in Thread : CallFine(other(u)) /\ other(u).at = call[u].at /\ other(u).port = call[u].port
  <2> TAKE u \in Thread
  <2>1. CallFine(call[u])
    BY DEF IInv, Calls
  <2>2. /\ DOMAIN other(u) = DOMAIN call[u]
        /\ other(u).at = call[u].at /\ other(u).does = call[u].does
        /\ other(u).with = call[u].with /\ other(u).port = call[u].port
    BY <2>1 DEF CallFine
  <2> HIDE DEF other
  <2>3. QED
    BY <2>1, <2>2 DEF CallFine
<1> HIDE DEF mine, other
<1>4. Calls'
  BY <1>1, <1>2, <1>3 DEF Calls
<1>5. \A u \in Thread : At(u, "spawn")' =>
        u # t /\ At(u, "spawn") /\ call'[u].port = call[u].port
  BY <1>1, <1>2, <1>3 DEF At
<1>6. SpawnsFine'
  BY <1>5 DEF IInv, SpawnsFine, Fresh, Taken, Start
<1>7. QED
  BY <1>4, <1>6

(* What most steps leave alone.                                            *)
LEMMA ServerUntouched ==
  ASSUME IInv, UNCHANGED <<run, listening, conf>>
  PROVE  Runs'
BY DEF IInv, Runs, FlagMeansBound, Taken

LEMMA StartsUntouched ==
  ASSUME IInv, UNCHANGED conf, appState' \in {0, appState}
  PROVE  Starts'
<1>1. DOMAIN conf' = Start' /\ \A i \in Start : Taken(i)' <=> Taken(i)
  BY DEF IInv, Starts, Taken, Start
<1>2. PICK k \in 0..MaxStarts : InOrder(k)
  BY DEF IInv, Starts
<1>3. InOrder(k)'
  BY <1>1, <1>2 DEF InOrder, Start
<1>4. appState' \in 0..MaxStarts
  BY Bounds DEF IInv, Starts
<1>5. appState' # 0 => Taken(appState)'
  BY DEF IInv, Starts, Taken
<1>6. QED
  BY <1>1, <1>2, <1>3, <1>4, <1>5 DEF Starts

-----------------------------------------------------------------------------
LEMMA InitFine ==
  ASSUME Init
  PROVE  IInv
<1>1. MaxStarts \in Nat
  BY Bounds
<1>2. Calls /\ SpawnsFine
  <2>1. \A t \in Thread : call[t] = Idle
    BY DEF Init
  <2>2. QED
    BY <2>1, IdleFine DEF Init, Calls, SpawnsFine, At
<1>3. Starts
  <2>0. \A i \in Start : ~(i <= 0)
    BY <1>1 DEF Start
  <2>1. \A i \in Start : conf[i] = "none"
    BY DEF Init
  <2>2. InOrder(0)
    BY <2>0, <2>1 DEF InOrder, Taken
  <2>3. 0 \in 0..MaxStarts
    BY <1>1
  <2>4. DOMAIN conf = Start /\ appState = 0
    BY DEF Init
  <2>5. QED
    BY <2>2, <2>3, <2>4 DEF Starts
<1>4. Runs
  BY DEF Init, Runs, Phase, FlagMeansBound
<1>5. Rest
  <2>0. 0 \in 0..MaxStarts
    BY <1>1
  <2>1. tx \in 0..MaxStarts
    BY <2>0 DEF Init
  <2>2. env \in File \cup {""} /\ port \in Port
    BY EmbeddingAssumption DEF Init
  <2>3. QED
    BY <2>1, <2>2 DEF Rest
<1>6. QED
  BY <1>2, <1>3, <1>4, <1>5 DEF IInv

(* load_or_create_config leaves the environment with a file's name.        *)
LEMMA LoadKeeps ==
  ASSUME IInv, NEW t \in Thread, Load(t)
  PROVE  IInv'
<1> DEFINE path == IF call[t].does = "start" THEN call[t].with ELSE "none"
<1>1. CallFine(call[t]) /\ call[t].at = "load"
  BY DEF IInv, Calls, Load, At
<1>2. path \in Path \cup {"none"}
  BY <1>1 DEF CallFine
<1>3. Rest'
  <2>1. env' = Named(path)
    BY DEF Load, LoadInto
  <2>2. Named(path) \in File
    BY <1>2 DEF Named, File
  <2>3. UNCHANGED <<tx, port>>
    BY DEF Load, LoadInto
  <2>4. QED
    BY <2>1, <2>2, <2>3 DEF IInv, Rest
<1>4. UNCHANGED <<run, listening, conf, appState>>
  BY DEF Load, server
<1>5. PICK c \in Parsed(Named(path)) :
        IF c = "none" THEN Return(t)
        ELSE call' = IF call[t].does = "update"
                     THEN [call EXCEPT ![t].at = "lock"]
                     ELSE [call EXCEPT ![t].at = "store", ![t].with = c, ![t].port = port]
  BY DEF Load
<1>6. Calls' /\ SpawnsFine'
  <2>1. CASE c = "none"
    BY <1>4, <1>5, <2>1, Returns
  <2>2. CASE c # "none" /\ call[t].does = "update"
    <3>1. Goto(t, "lock")
      BY <1>5, <2>2 DEF Goto
    <3>2. QED
      BY <1>4, <3>1, Goes
  <2>3. CASE c # "none" /\ call[t].does # "update"
    <3> DEFINE d == [[[call[t] EXCEPT !.at = "store"] EXCEPT !.with = c] EXCEPT !.port = port]
    <3>1. DOMAIN d = DOMAIN call[t] /\ d.at = "store" /\ d.with = c /\ d.does = call[t].does
      BY <1>1 DEF CallFine
    <3>2. call' = [call EXCEPT ![t] = d]
      BY <1>5, <2>3 DEF IInv, Calls
    <3> HIDE DEF d
    <3>3. CallFine(d) /\ d.at # "spawn"
      BY <1>1, <2>3, <3>1 DEF CallFine
    <3>4. QED
      BY <1>4, <3>2, <3>3, CallMoves
  <2>4. QED
    BY <2>1, <2>2, <2>3
<1>7. QED
  BY <1>3, <1>4, <1>6, ServerUntouched, StartsUntouched DEF IInv

(* start_server takes the next start for its app state ...                 *)
LEMMA StoreStateKeeps ==
  ASSUME IInv, NEW t \in Thread, StoreState(t)
  PROVE  IInv'
<1>0. PICK n : n = NextStart
  OBVIOUS
<1>1. n \in Start /\ ~Taken(n) /\ \A i \in Start : Taken(i) <=> i < n
  BY <1>0, NextIsFresh DEF IInv, StoreState
<1>2. CallFine(call[t]) /\ call[t].at = "store" /\ call[t].with # "none"
  BY DEF IInv, Calls, StoreState, At, CallFine
<1>3. conf' = [i \in Start |-> IF i = n THEN call[t].with ELSE conf[i]]
  BY <1>0 DEF IInv, Starts, StoreState
<1>4. appState' = n /\ UNCHANGED <<run, listening, tx, env, port>>
  BY <1>0 DEF StoreState, files
<1>d. PICK d : d = [[call[t] EXCEPT !.at = "spawn"] EXCEPT !.port = n]
  OBVIOUS
<1>5. call' = [u \in Thread |-> IF u = t THEN d ELSE call[u]]
  <2>1. call' = [[call EXCEPT ![t].at = "spawn"] EXCEPT ![t].port = n]
    BY <1>0 DEF StoreState
  <2>2. call' = [call EXCEPT ![t] = d]
    BY <1>d, <2>1 DEF IInv, Calls
  <2>3. QED
    BY <2>2 DEF IInv, Calls
<1>6. n \in Nat /\ MaxStarts \in Nat /\ n <= MaxStarts /\ n # 0
  BY <1>1, Bounds DEF Start
<1>7. /\ \A i \in Start : Taken(i)' <=> i <= n
      /\ Taken(n)'
      /\ \A i \in Start : Taken(i) => Taken(i)' /\ i # n
  BY <1>1, <1>2, <1>3, <1>6 DEF Taken, Start
<1>8. Starts'
  <2>1. InOrder(n)'
    BY <1>7 DEF InOrder
  <2>2. QED
    BY <1>3, <1>4, <1>6, <1>7, <2>1 DEF Starts
<1>9. Runs'
  BY <1>4, <1>7 DEF IInv, Runs, FlagMeansBound
<1>10. CallFine(d) /\ d.at = "spawn" /\ d.port = n
  <2>1. DOMAIN d = DOMAIN call[t] /\ d.at = "spawn" /\ d.port = n /\ d.does = call[t].does
    BY <1>2, <1>d DEF CallFine
  <2>2. QED
    BY <1>2, <2>1 DEF CallFine
<1>11. Calls'
  BY <1>5, <1>10 DEF IInv, Calls
<1>12. SpawnsFine'
  <2>1. run[n] = "none"
    BY <1>1 DEF IInv, Runs
  <2>2. \A u \in Thread : At(u, "spawn")' =>
          \/ u = t /\ call'[u].port = n
          \/ u # t /\ At(u, "spawn") /\ call'[u].port = call[u].port
             /\ Fresh(u) /\ call[u].port # n
    BY <1>5, <1>7, <1>10 DEF At, IInv, SpawnsFine, Fresh
  <2>3. ASSUME NEW u \in Thread, At(u, "spawn")' PROVE Fresh(u)'
    BY <2>1, <2>2, <2>3, <1>1, <1>4, <1>7 DEF Fresh, Start
  <2>4. QED
    BY <2>2, <2>3 DEF SpawnsFine, IInv
<1>13. QED
  BY <1>4, <1>8, <1>9, <1>11, <1>12 DEF IInv, Rest

(* ... and spawns its task, which nobody has spawned before.               *)
LEMMA SpawnKeeps ==
  ASSUME IInv, NEW t \in Thread, Spawn(t)
  PROVE  IInv'
<1> DEFINE n == call[t].port
<1>1. At(t, "spawn") /\ n \in Start /\ Taken(n) /\ run[n] = "none"
  BY DEF IInv, SpawnsFine, Spawn, Fresh
<1>2. run' = [i \in Start |-> IF i = n THEN "warming" ELSE run[i]]
  BY DEF IInv, Runs, Spawn
<1>3. tx' = n /\ UNCHANGED <<listening, conf, appState, env, port>>
  BY DEF Spawn, files
<1>4. call' = [u \in Thread |-> IF u = t THEN Idle ELSE call[u]]
  BY DEF IInv, Calls, Spawn, Return
<1>5. Calls'
  BY <1>4, IdleFine DEF IInv, Calls
<1>6. SpawnsFine'
  <2>1. \A u \in Thread : At(u, "spawn")' =>
          u # t /\ At(u, "spawn") /\ call'[u] = call[u] /\ call[u].port # n
    BY <1>1, <1>4, IdleFine DEF At, IInv, SpawnsFine
  <2>2. \A u \in Thread : At(u, "spawn")' => Fresh(u)'
    BY <1>2, <1>3, <2>1 DEF IInv, SpawnsFine, Fresh, Taken, Start
  <2>3. QED
    BY <2>1, <2>2 DEF IInv, SpawnsFine
<1>7. Runs'
  <2>1. run' \in [Start -> Phase]
    BY <1>2 DEF IInv, Runs, Phase
  <2>2. \A i \in Start : run'[i] # "none" => Taken(i)'
    BY <1>1, <1>2, <1>3 DEF IInv, Runs, Taken
  <2>3. FlagMeansBound'
    BY <1>1, <1>2, <1>3 DEF IInv, Runs, FlagMeansBound
  <2>4. QED
    BY <2>1, <2>2, <2>3 DEF Runs
<1>8. Starts'
  BY <1>3, StartsUntouched
<1>9. Rest'
  <2>1. tx' \in 0..MaxStarts
    BY <1>1, <1>3, Bounds DEF Start
  <2>2. UNCHANGED <<env, port>> /\ File' = File
    BY <1>3 DEF File
  <2>3. QED
    BY <2>1, <2>2 DEF IInv, Rest
<1>10. QED
  BY <1>5, <1>6, <1>7, <1>8, <1>9 DEF IInv

(* shutdown_server puts the flag down and takes the sender.                *)
LEMMA StopKeeps ==
  ASSUME IInv, NEW t \in Thread, ClearFlag(t) \/ Signal(t) \/ ClearState(t)
  PROVE  IInv'
<1>1. call[t].does = "start" /\ call[t].at \in {"flag", "signal", "clear"} => call[t].with = "none"
  BY DEF IInv, Calls, CallFine
<1>2. UNCHANGED <<run, conf, env, port>> /\ appState' \in {0, appState}
  BY DEF ClearFlag, Signal, ClearState, server, files
<1>3. Calls' /\ SpawnsFine'
  <2>1. CASE Goto(t, "signal") /\ At(t, "flag")
    BY <2>1, <1>1, <1>2, Goes DEF At
  <2>2. CASE Goto(t, "clear") /\ At(t, "signal")
    BY <2>2, <1>1, <1>2, Goes DEF At
  <2>3. CASE Goto(t, "load") /\ At(t, "clear")
    BY <2>3, <1>1, <1>2, Goes DEF At
  <2>4. CASE Return(t)
    BY <2>4, <1>2, Returns
  <2>5. QED
    BY <2>1, <2>2, <2>3, <2>4 DEF ClearFlag, Signal, ClearState
<1>4. Runs'
  <2>1. listening' => listening
    BY DEF ClearFlag, Signal, ClearState, server
  <2>2. QED
    BY <1>2, <2>1 DEF IInv, Runs, FlagMeansBound, Taken
<1>5. Rest'
  <2>1. tx' \in {0, tx}
    BY DEF ClearFlag, Signal, ClearState
  <2>2. 0 \in 0..MaxStarts
    BY Bounds
  <2>3. QED
    BY <1>2, <2>1, <2>2 DEF IInv, Rest
<1>6. QED
  BY <1>2, <1>3, <1>4, <1>5, StartsUntouched DEF IInv

(* Updates and looks touch the files and the app state they find.          *)
LEMMA UpdateKeeps ==
  ASSUME IInv, NEW t \in Thread, Save(t) \/ NoRuntime(t) \/ View(t) \/ Lock(t)
  PROVE  IInv'
<1>1. UNCHANGED <<run, listening, conf, appState, tx, env, port>>
  BY DEF Save, NoRuntime, View, Lock, server, files
<1>2. Calls' /\ SpawnsFine'
  <2>1. CASE Return(t)
    BY <1>1, <2>1, Returns
  <2>2. CASE Goto(t, "reading")
    BY <1>1, <2>2, Goes
  <2>3. CASE Goto(t, "load") /\ Save(t)
    <3>1. call[t].does # "start"
      BY <2>3 DEF IInv, Calls, CallFine, Save, At
    <3>2. QED
      BY <1>1, <2>3, <3>1, Goes
  <2>4. QED
    BY <2>1, <2>2, <2>3 DEF Save, NoRuntime, View, Lock
<1>3. QED
  BY <1>1, <1>2, ServerUntouched, StartsUntouched DEF IInv, Rest

LEMMA ReloadKeeps ==
  ASSUME IInv, NEW t \in Thread, Reload(t)
  PROVE  IInv'
<1>1. UNCHANGED <<run, listening, appState, tx, env, port>> /\ Return(t)
  BY DEF Reload, server, files
<1>2. \/ UNCHANGED conf
      \/ \E c : c # "none" /\ conf' = [i \in Start |-> IF i = appState THEN c ELSE conf[i]]
  BY DEF Reload, Reloaded
<1>3. DOMAIN conf' = Start /\ \A i \in Start : Taken(i)' <=> Taken(i)
  <2>1. CASE UNCHANGED conf
    BY <2>1 DEF IInv, Starts, Taken
  <2>2. CASE ~UNCHANGED conf
    <3>1. PICK c : c # "none" /\ conf' = [i \in Start |-> IF i = appState THEN c ELSE conf[i]]
      BY <1>2, <2>2
    <3>2. \A i \in Start : conf'[i] = IF i = appState THEN c ELSE conf[i]
      BY <3>1
    <3>3. appState # 0 => Taken(appState)
      BY DEF IInv, Starts
    <3>4. \A i \in Start : i # 0
      BY Bounds DEF Start
    <3>5. \A i \in Start : Taken(i)' <=> Taken(i)
      BY <3>1, <3>2, <3>3, <3>4 DEF Taken
    <3>6. QED
      BY <3>1, <3>5
  <2>3. QED
    BY <2>1, <2>2
<1>4. Starts'
  <2>1. PICK k \in 0..MaxStarts : InOrder(k)
    BY DEF IInv, Starts
  <2>2. InOrder(k)'
    BY <1>3, <2>1 DEF InOrder
  <2>3. appState' \in 0..MaxStarts /\ (appState' # 0 => appState \in Start /\ Taken(appState))
    BY <1>1 DEF IInv, Starts, Start
  <2>4. appState' # 0 => Taken(appState)'
    BY <1>1, <1>3, <2>3 DEF Taken
  <2>5. QED
    BY <1>3, <2>1, <2>2, <2>3, <2>4 DEF Starts
<1>5. Runs'
  BY <1>1, <1>3 DEF IInv, Runs, FlagMeansBound
<1>6. call' = [u \in Thread |-> IF u = t THEN Idle ELSE call[u]]
  BY <1>1 DEF IInv, Calls, Return
<1>7. Calls'
  BY <1>6, IdleFine DEF IInv, Calls
<1>8. \A u \in Thread : At(u, "spawn")' => u # t /\ call'[u] = call[u] /\ At(u, "spawn")
  BY <1>6, IdleFine DEF At
<1>9. SpawnsFine'
  BY <1>1, <1>3, <1>8 DEF IInv, SpawnsFine, Fresh
<1>10. QED
  BY <1>1, <1>4, <1>5, <1>7, <1>9 DEF IInv, Rest

LEMMA BeginKeeps ==
  ASSUME IInv, NEW t \in Thread,
         \/ \E path \in Path \cup {"none"} : BeginInit(t, path)
         \/ BeginShutdown(t, "stop") \/ BeginShutdown(t, "start")
         \/ \E c \in Config : BeginUpdate(t, c)
         \/ \E p \in Port : SavePort(t, p)
  PROVE  IInv'
<1>1. t \in Thread
  OBVIOUS
<1>2. UNCHANGED <<run, listening, conf, appState, tx, env>> /\ port' \in Port
  BY DEF BeginInit, BeginShutdown, BeginUpdate, SavePort, server, files, IInv, Rest
<1>3. Calls' /\ SpawnsFine'
  <2>1. ASSUME NEW path \in Path \cup {"none"}, BeginInit(t, path) PROVE Calls' /\ SpawnsFine'
    <3>1. Begin(t, "load", "start", path)
      BY <2>1 DEF BeginInit
    <3>2. QED
      BY <1>1, <1>2, <3>1, Begins
  <2>2. ASSUME BeginShutdown(t, "stop") PROVE Calls' /\ SpawnsFine'
    <3>1. Begin(t, "flag", "stop", "none")
      BY <2>2 DEF BeginShutdown
    <3>2. QED
      BY <1>1, <1>2, <3>1, Begins
  <2>3. ASSUME BeginShutdown(t, "start") PROVE Calls' /\ SpawnsFine'
    <3>1. Begin(t, "flag", "start", "none")
      BY <2>3 DEF BeginShutdown
    <3>2. QED
      BY <1>1, <1>2, <3>1, Begins
  <2>4. ASSUME NEW c \in Config, BeginUpdate(t, c) PROVE Calls' /\ SpawnsFine'
    <3>1. Begin(t, "save", "update", c)
      BY <2>4 DEF BeginUpdate
    <3>2. QED
      BY <1>1, <1>2, <3>1, Begins
  <2>5. ASSUME NEW p \in Port, SavePort(t, p) PROVE Calls' /\ SpawnsFine'
    BY <1>2, <2>5, CallUntouched DEF SavePort
  <2>6. QED
    BY <2>1, <2>2, <2>3, <2>4, <2>5
<1>4. QED
  BY <1>2, <1>3, ServerUntouched, StartsUntouched DEF IInv, Rest

-----------------------------------------------------------------------------
(* A task moves on from a phase that is not the first, to one that is not  *)
(* the first either; the flag goes up with a task that serves, and down    *)
(* when any task is gone.                                                  *)
LEMMA PhaseMoves ==
  ASSUME IInv, NEW i \in Start, NEW x \in Phase \ {"none"}, run[i] # "none",
         run' = [run EXCEPT ![i] = x], UNCHANGED <<call, conf, appState, tx, env, port>>,
         \/ listening' = FALSE
         \/ listening' = TRUE /\ x \in {"serving", "ended"}
         \/ listening' = listening /\ (run[i] \in {"serving", "ended"} => x \in {"serving", "ended"})
  PROVE  IInv'
<1>1. run' = [j \in Start |-> IF j = i THEN x ELSE run[j]]
  BY DEF IInv, Runs
<1>2. run' \in [Start -> Phase]
  BY <1>1 DEF IInv, Runs
<1>3. \A j \in Start : run'[j] = "none" <=> run[j] = "none"
  BY <1>1
<1>4. \A j \in Start : run'[j] # "none" => Taken(j)'
  BY <1>3 DEF IInv, Runs, Taken
<1>5. FlagMeansBound'
  BY <1>1 DEF IInv, Runs, FlagMeansBound
<1>6. Runs'
  BY <1>2, <1>4, <1>5 DEF Runs
<1>7. SpawnsFine'
  BY <1>3 DEF IInv, SpawnsFine, Fresh, Taken, At
<1>8. Calls' /\ Starts' /\ Rest'
  BY StartsUntouched DEF IInv, Calls, Rest, CallFine
<1>9. QED
  BY <1>6, <1>7, <1>8 DEF IInv

LEMMA TaskKeeps ==
  ASSUME IInv, NEW i \in Start, Task(i)
  PROVE  IInv'
<1>1. UNCHANGED <<call, conf, appState, tx, env, port>>
  BY DEF Task, Bind, BindFails, Announce, Stop, Finish, files
<1>2. CASE Bind(i)
  BY <1>1, <1>2, PhaseMoves DEF Bind, Phase
<1>3. CASE BindFails(i)
  BY <1>1, <1>3, PhaseMoves DEF BindFails, Phase
<1>4. CASE Announce(i)
  BY <1>1, <1>4, PhaseMoves DEF Announce, Phase
<1>5. CASE Stop(i)
  BY <1>1, <1>5, PhaseMoves DEF Stop, Phase
<1>6. CASE Finish(i)
  BY <1>1, <1>6, PhaseMoves DEF Finish, Phase
<1>7. QED
  BY <1>2, <1>3, <1>4, <1>5, <1>6 DEF Task

LEMMA StepKeeps ==
  ASSUME IInv, [Next]_vars
  PROVE  IInv'
<1>1. CASE UNCHANGED vars
  <2>1. UNCHANGED <<run, listening, conf, appState, call, tx, env, port>>
    BY <1>1 DEF vars, server, files
  <2>2. QED
    BY <2>1, CallUntouched, ServerUntouched, StartsUntouched DEF IInv, Rest
<1>2. ASSUME NEW t \in Thread, Continue(t) PROVE IInv'
  BY <1>2, LoadKeeps, StoreStateKeeps, SpawnKeeps, StopKeeps, UpdateKeeps, ReloadKeeps
     DEF Continue
<1>3. ASSUME NEW i \in Start, Task(i) PROVE IInv'
  BY <1>3, TaskKeeps
<1>4. QED
  BY <1>1, <1>2, <1>3, BeginKeeps DEF Next

-----------------------------------------------------------------------------
(* UpdatesLast is about what threads still have in their hands.  While an  *)
(* update lasts, its configuration is in xrouter.toml and every call under *)
(* way can only bring it into an app state (Kept); and an update is alone  *)
(* if nobody else does more than look at the app state or stop the server, *)
(* and what it saved is what it will reload (UpdateFine).                  *)
Looks(c) == c.does \in {"nothing", "stop"}

Updates(c) == c.alone /\ c.does = "update"

PlaceFine(c) ==
  /\ c.at = "idle" => c.does = "nothing"
  /\ c.does = "nothing" => c.at \in {"idle", "reading"}
  /\ c.does = "stop" => c.at \in {"flag", "signal", "clear"}

UpdateFine(c) ==
  Updates(c) =>
    /\ c.with \in Config /\ c.at \in {"save", "load", "lock", "reading"}
    /\ c.at = "save" => env \notin Path
    /\ c.at # "save" => file[DefaultPath] = c.with
    /\ c.at \in {"lock", "reading"} => env = DefaultPath

Harmless(c) ==
  \/ Looks(c)
  \/ c.at \in {"flag", "signal", "clear", "spawn"}
  \/ c.at = "load" /\ c.does = "start" /\ c.with = "none"
  \/ c.at = "store" /\ c.with = promised

Kept ==
  promised # "none" =>
    /\ promised \in Config /\ file[DefaultPath] = promised
    /\ \A t \in Thread : Harmless(call[t])
    /\ appState # 0 => conf[appState] = promised

Promise ==
  /\ DOMAIN file = File
  /\ \A t \in Thread : PlaceFine(call[t])
  /\ \A t \in Thread : UpdateFine(call[t])
  /\ \A t \in Thread : Updates(call[t]) => \A u \in Thread \ {t} : Looks(call[u])
  /\ Kept

(* A thread goes on: if it does more than look, no other is alone with an  *)
(* update, so what it does to the files can only concern its own.          *)
LEMMA PromiseMoves ==
  ASSUME Promise, NEW t \in Thread, NEW c,
         call' = [u \in Thread |-> IF u = t THEN c ELSE call[u]],
         UNCHANGED promised, DOMAIN file' = File,
         PlaceFine(c),
         Looks(call[t]) => Looks(c) /\ UNCHANGED <<env, file>>,
         UpdateFine(c)', Updates(c) => Updates(call[t]) \/ Looks(c),
         promised # "none" =>
           /\ file'[DefaultPath] = promised /\ Harmless(c)
           /\ appState' # 0 => conf'[appState'] = promised,
         Updates(c) => \A u \in Thread \ {t} : Looks(call[u])
  PROVE  Promise'
<1>1. \A u \in Thread : call'[u] = IF u = t THEN c ELSE call[u]
  OBVIOUS
<1>2. DOMAIN file' = File'
  BY DEF File
<1>3. \A u \in Thread : PlaceFine(call'[u])
  BY <1>1 DEF Promise
<1>4. ASSUME NEW u \in Thread \ {t}, Updates(call[u])
      PROVE  Looks(call[t]) /\ Looks(c) /\ UNCHANGED <<env, file>>
  BY <1>4 DEF Promise
<1>5. \A u \in Thread : UpdateFine(call[u])'
  <2>1. UpdateFine(call[t])'
    BY <1>1 DEF UpdateFine, Updates
  <2>2. ASSUME NEW u \in Thread \ {t} PROVE UpdateFine(call[u])'
    <3>1. CASE Updates(call[u])
      BY <1>1, <1>4, <3>1 DEF Promise, UpdateFine, Updates
    <3>2. CASE ~Updates(call[u])
      BY <1>1, <3>2 DEF UpdateFine, Updates
    <3>3. QED
      BY <3>1, <3>2
  <2>3. QED
    BY <2>1, <2>2
<1>6. ASSUME NEW v \in Thread, Updates(call'[v]), NEW u \in Thread \ {v}
      PROVE  Looks(call'[u])
  <2>1. CASE v = t
    BY <1>1, <1>6, <2>1
  <2>2. CASE v # t /\ u = t
    BY <1>1, <1>4, <1>6, <2>2
  <2>3. CASE v # t /\ u # t
    BY <1>1, <1>6, <2>3 DEF Promise
  <2>4. QED
    BY <2>1, <2>2, <2>3
<1>7. Kept'
  BY <1>1 DEF Promise, Kept, Harmless, Looks
<1>8. QED
  BY <1>2, <1>3, <1>5, <1>6, <1>7 DEF Promise, Updates, Looks, PlaceFine

(* Nothing that it is about changes, but the port, or a task's phase.      *)
LEMMA PromiseUntouched ==
  ASSUME Promise, UNCHANGED <<call, env, file, conf, appState, promised>>
  PROVE  Promise'
BY DEF Promise, PlaceFine, File, UpdateFine, Updates, Looks, Kept, Harmless

LEMMA IdleLooks == PlaceFine(Idle) /\ Looks(Idle) /\ ~Updates(Idle)
BY DEF Idle, PlaceFine, Looks, Updates

(* A call returns; nothing else changes, or only its share of the app      *)
(* state.                                                                  *)
LEMMA PromiseReturns ==
  ASSUME IInv, Promise, NEW t \in Thread, Return(t), UNCHANGED promised, DOMAIN file' = File,
         Looks(call[t]) => UNCHANGED <<env, file>>,
         promised # "none" =>
           /\ file'[DefaultPath] = promised
           /\ appState' # 0 => conf'[appState'] = promised
  PROVE  Promise'
<1>1. call' = [u \in Thread |-> IF u = t THEN Idle ELSE call[u]]
  BY DEF IInv, Calls, Return
<1>2. UpdateFine(Idle)' /\ Harmless(Idle)
  BY IdleLooks DEF UpdateFine, Updates, Harmless
<1>3. QED
  BY <1>1, <1>2, IdleLooks, PromiseMoves

(* A new call: with a file of its own or as an update it ends the promise; *)
(* unless it is a stop it takes every other call's being alone.            *)
LEMMA PromiseBegins ==
  ASSUME IInv, Promise, NEW t \in Thread, NEW step, NEW does, NEW with,
         Begin(t, step, does, with), UNCHANGED <<env, file, conf, appState>>,
         \/ does = "update" /\ step = "save" /\ with \in Config
         \/ does \in {"start", "stop"} /\ step = "flag"
         \/ does = "start" /\ step = "load" /\ (with = "none" \/ with \in Path)
  PROVE  Promise'
<1> DEFINE mine == [at |-> step, does |-> does, with |-> with, port |-> 0,
                    alone |-> does = "update" /\ Others(t) = {} /\ env \notin Path]
           other(u) == [call[u] EXCEPT !.alone = @ /\ does = "stop"]
<1>1. call' = [u \in Thread |-> IF u = t THEN mine ELSE other(u)]
  BY DEF Begin
<1>2. mine.at = step /\ mine.does = does /\ mine.with = with
      /\ (mine.alone => does = "update" /\ Others(t) = {} /\ env \notin Path)
  OBVIOUS
<1>3. \A u \in Thread : /\ other(u).at = call[u].at /\ other(u).does = call[u].does
                        /\ other(u).with = call[u].with
                        /\ other(u).alone <=> call[u].alone /\ does = "stop"
  <2> TAKE u \in Thread
  <2>1. DOMAIN call[u] = {"at", "does", "with", "port", "alone"}
    BY DEF IInv, Calls, CallFine
  <2>2. QED
    BY <2>1
<1> HIDE DEF mine, other
<1>4. call'[t] = mine /\ \A u \in Thread \ {t} : call'[u] = other(u)
  BY <1>1
<1>5. DOMAIN file' = File'
  BY DEF Promise, File
<1>6. \A u \in Thread : PlaceFine(call'[u])
  BY <1>2, <1>3, <1>4 DEF Promise, PlaceFine
<1>7. \A u \in Thread \ {t} : Updates(call'[u]) => Updates(call[u]) /\ does = "stop"
  BY <1>3, <1>4 DEF Updates
<1>8. \A u \in Thread \ {t} : Looks(call'[u]) <=> Looks(call[u])
  BY <1>3, <1>4 DEF Looks
<1>9. Updates(call'[t]) => /\ with \in Config /\ step = "save" /\ env \notin Path
                           /\ does = "update"
                           /\ \A u \in Thread \ {t} : Looks(call[u])
  <2>1. \A u \in Thread \ {t} : Others(t) = {} => call[u].does \notin {"start", "update"}
    BY DEF Others, Sets
  <2>2. \A u \in Thread : call[u].does \in {"nothing", "stop", "start", "update"}
    BY DEF IInv, Calls, CallFine
  <2>3. QED
    BY <1>2, <1>4, <2>1, <2>2 DEF Updates, Looks
<1>10. \A u \in Thread : UpdateFine(call[u])'
  <2>1. UpdateFine(call[t])'
    BY <1>2, <1>4, <1>9 DEF UpdateFine, Updates
  <2>2. \A u \in Thread \ {t} : UpdateFine(call[u])'
    BY <1>3, <1>4, <1>7 DEF Promise, UpdateFine, Updates
  <2>3. QED
    BY <2>1, <2>2
<1>11. \A v \in Thread : Updates(call'[v]) => \A u \in Thread \ {v} : Looks(call'[u])
  <2>1. ASSUME NEW v \in Thread \ {t}, Updates(call'[v]), NEW u \in Thread \ {v}
        PROVE  Looks(call'[u])
    <3>1. Updates(call[v]) /\ does = "stop"
      BY <1>7, <2>1
    <3>2. u = t => Looks(call'[u])
      BY <1>2, <1>4, <3>1 DEF Looks
    <3>3. u # t => Looks(call'[u])
      BY <1>8, <2>1, <3>1 DEF Promise
    <3>4. QED
      BY <3>2, <3>3
  <2>2. QED
    BY <1>8, <1>9, <2>1
<1>12. Kept'
  <2>1. SUFFICES ASSUME promised' # "none" PROVE Kept'
    BY DEF Kept
  <2>2. does # "update" /\ with \notin Path /\ promised' = promised /\ promised # "none"
    BY <2>1 DEF Begin
  <2>3. Harmless(call'[t])
    BY <1>2, <1>4, <2>2 DEF Harmless
  <2>4. \A u \in Thread \ {t} : Harmless(call'[u])
    BY <1>3, <1>4, <2>2 DEF Promise, Kept, Harmless, Looks
  <2>5. \A u \in Thread : Harmless(call[u])'
    BY <2>2, <2>3, <2>4 DEF Harmless, Looks
  <2>6. QED
    BY <2>2, <2>5 DEF Promise, Kept
<1>13. QED
  BY <1>5, <1>6, <1>10, <1>11, <1>12 DEF Promise, Updates, Looks, PlaceFine

(* The record of a call at another step, of whatever else.                 *)
LEMMA CallAt ==
  ASSUME IInv, NEW t \in Thread, NEW step, Goto(t, step)
  PROVE  \E c : /\ call' = [u \in Thread |-> IF u = t THEN c ELSE call[u]]
                /\ c.at = step /\ c.does = call[t].does /\ c.with = call[t].with
                /\ c.alone = call[t].alone
<1> DEFINE c == [call[t] EXCEPT !.at = step]
<1>1. DOMAIN call[t] = {"at", "does", "with", "port", "alone"} /\ DOMAIN call = Thread
  BY DEF IInv, Calls, CallFine
<1>2. call' = [u \in Thread |-> IF u = t THEN c ELSE call[u]]
  BY <1>1 DEF Goto
<1>3. c.at = step /\ c.does = call[t].does /\ c.with = call[t].with /\ c.alone = call[t].alone
  BY <1>1
<1>4. QED
  BY <1>2, <1>3

(* A start without a file of its own, and an update that is alone, load    *)
(* what the file holds, which is neither absent nor cut short.             *)
LEMMA LoadsWhatWasSaved ==
  ASSUME file[DefaultPath] \in Config, NEW t, LoadInto(t, "none")
  PROVE  /\ env' = DefaultPath /\ UNCHANGED file
         /\ Parsed(Named("none")) = {file[DefaultPath]} /\ file[DefaultPath] # "none"
<1>1. Named("none") = DefaultPath
  BY DEF Named
<1>2. file[DefaultPath] \notin {"none", "torn"}
  BY EmbeddingAssumption
<1>3. QED
  BY <1>1, <1>2 DEF LoadInto, Created, Parsed

LEMMA LoadPromise ==
  ASSUME IInv, Promise, NEW t \in Thread, Load(t)
  PROVE  Promise'
<1> DEFINE path == IF call[t].does = "start" THEN call[t].with ELSE "none"
<1>1. /\ call[t].at = "load" /\ ~Looks(call[t]) /\ UNCHANGED <<conf, appState, promised>>
      /\ DOMAIN call = Thread
      /\ DOMAIN call[t] = {"at", "does", "with", "port", "alone"}
  BY DEF Load, At, Looks, Promise, PlaceFine, IInv, Calls, CallFine
<1>2. DOMAIN file' = File
  BY DEF Load, LoadInto, Created, Promise
<1>3. LoadInto(t, path)
  BY DEF Load
<1>4. PICK d \in Parsed(Named(path)) :
        IF d = "none" THEN Return(t)
        ELSE call' = IF call[t].does = "update"
                     THEN [call EXCEPT ![t].at = "lock"]
                     ELSE [call EXCEPT ![t].at = "store", ![t].with = d, ![t].port = port]
  BY DEF Load
<1>5. promised # "none" =>
        /\ path = "none" /\ call[t].does = "start" /\ file[DefaultPath] = promised
        /\ file[DefaultPath] \in Config
        /\ appState' # 0 => conf'[appState'] = promised
  BY <1>1 DEF Promise, Kept, Harmless
<1>6. Updates(call[t]) =>
        /\ path = "none" /\ file[DefaultPath] = call[t].with /\ file[DefaultPath] \in Config
        /\ \A u \in Thread \ {t} : Looks(call[u])
  BY <1>1 DEF Promise, UpdateFine, Updates
<1>7. promised # "none" \/ Updates(call[t]) =>
        env' = DefaultPath /\ UNCHANGED file /\ d = file[DefaultPath] /\ d # "none"
  BY <1>3, <1>4, <1>5, <1>6, LoadsWhatWasSaved
<1>8. promised # "none" => file'[DefaultPath] = promised
  BY <1>5, <1>7
<1>9. CASE d = "none"
  BY <1>1, <1>2, <1>4, <1>5, <1>8, <1>9, PromiseReturns
<1>10. CASE d # "none" /\ call[t].does = "update"
  <2>1. Goto(t, "lock")
    BY <1>4, <1>10 DEF Goto
  <2>2. PICK c : /\ call' = [u \in Thread |-> IF u = t THEN c ELSE call[u]]
                 /\ c.at = "lock" /\ c.does = call[t].does /\ c.with = call[t].with
                 /\ c.alone = call[t].alone
    BY <2>1, CallAt
  <2>3. Updates(c) <=> Updates(call[t])
    BY <2>2 DEF Updates
  <2>4. promised = "none"
    BY <1>5, <1>10
  <2>5. UpdateFine(c)' /\ PlaceFine(c)
    BY <1>6, <1>7, <1>10, <2>2, <2>3 DEF UpdateFine, Updates, PlaceFine
  <2>6. QED
    BY <1>1, <1>2, <1>6, <2>2, <2>3, <2>4, <2>5, PromiseMoves
<1>11. CASE d # "none" /\ call[t].does # "update"
  <2>1. PICK c : c = [[[call[t] EXCEPT !.at = "store"] EXCEPT !.with = d] EXCEPT !.port = port]
    OBVIOUS
  <2>2. c.at = "store" /\ c.does = call[t].does /\ c.with = d
    BY <1>1, <2>1
  <2>3. call' = [u \in Thread |-> IF u = t THEN c ELSE call[u]]
    BY <1>1, <1>4, <1>11, <2>1
  <2>4. ~Updates(c)
    BY <1>11, <2>2 DEF Updates
  <2>5. UpdateFine(c)' /\ PlaceFine(c) /\ (promised # "none" => Harmless(c))
    BY <1>1, <1>5, <1>7, <2>2, <2>4 DEF UpdateFine, Updates, Harmless, Looks, PlaceFine
  <2>6. QED
    BY <1>1, <1>2, <1>5, <1>8, <2>2, <2>3, <2>4, <2>5, PromiseMoves
<1>12. QED
  BY <1>9, <1>10, <1>11

(* A start takes what it has loaded into its app state.                    *)
LEMMA StorePromise ==
  ASSUME IInv, Promise, NEW t \in Thread, StoreState(t)
  PROVE  Promise'
<1>0. PICK n : n = NextStart
  OBVIOUS
<1>1. /\ call[t].at = "store" /\ ~Looks(call[t]) /\ UNCHANGED <<env, file, promised>>
      /\ DOMAIN call = Thread
      /\ DOMAIN call[t] = {"at", "does", "with", "port", "alone"}
  BY DEF StoreState, At, Looks, Promise, PlaceFine, IInv, Calls, CallFine, files
<1>2. conf'[n] = call[t].with /\ appState' = n
  BY <1>0 DEF StoreState, IInv, Starts
<1>3. PICK c : c = [[call[t] EXCEPT !.at = "spawn"] EXCEPT !.port = n]
  OBVIOUS
<1>4. c.at = "spawn" /\ c.does = call[t].does /\ c.with = call[t].with /\ c.alone = call[t].alone
  BY <1>1, <1>3
<1>5. call' = [u \in Thread |-> IF u = t THEN c ELSE call[u]]
  <2>1. call' = [[call EXCEPT ![t].at = "spawn"] EXCEPT ![t].port = n]
    BY <1>0 DEF StoreState
  <2>2. QED
    BY <1>1, <1>3, <2>1
<1>6. ~Updates(call[t])
  BY <1>1 DEF Promise, UpdateFine
<1>7. ~Updates(c) /\ UpdateFine(c)' /\ Harmless(c) /\ PlaceFine(c)
  BY <1>1, <1>4, <1>6 DEF Updates, UpdateFine, Harmless, Looks, PlaceFine
<1>8. promised # "none" =>
        file'[DefaultPath] = promised /\ (appState' # 0 => conf'[appState'] = promised)
  BY <1>1, <1>2 DEF Promise, Kept, Harmless
<1>9. DOMAIN file' = File
  BY <1>1 DEF Promise
<1>10. QED
  BY <1>1, <1>4, <1>5, <1>7, <1>8, <1>9, PromiseMoves

(* The rest of a start, and a stop.                                        *)
LEMMA StopPromise ==
  ASSUME IInv, Promise, NEW t \in Thread,
         Spawn(t) \/ ClearFlag(t) \/ Signal(t) \/ ClearState(t)
  PROVE  Promise'
<1>1. /\ call[t].at \in {"spawn", "flag", "signal", "clear"}
      /\ UNCHANGED <<env, file, conf, promised>> /\ appState' \in {0, appState}
  BY DEF Spawn, ClearFlag, Signal, ClearState, At, files, server
<1>2. ~Updates(call[t])
  BY <1>1 DEF Promise, UpdateFine
<1>3. promised # "none" =>
        file'[DefaultPath] = promised /\ (appState' # 0 => conf'[appState'] = promised)
  BY <1>1 DEF Promise, Kept
<1>4. DOMAIN file' = File
  BY <1>1 DEF Promise
<1>5. CASE Return(t)
  BY <1>1, <1>3, <1>4, <1>5, PromiseReturns
<1>6. ASSUME NEW step \in {"signal", "clear", "load"}, Goto(t, step),
             step = "load" => call[t].at = "clear" /\ call[t].does = "start",
             call[t].at # "spawn"
      PROVE  Promise'
  <2>1. PICK c : /\ call' = [u \in Thread |-> IF u = t THEN c ELSE call[u]]
                 /\ c.at = step /\ c.does = call[t].does /\ c.with = call[t].with
                 /\ c.alone = call[t].alone
    BY <1>6, CallAt
  <2>2. ~Updates(c) /\ UpdateFine(c)'
    BY <1>2, <2>1 DEF Updates, UpdateFine
  <2>3. Harmless(c)
    BY <1>6, <2>1 DEF Harmless, IInv, Calls, CallFine
  <2>4. PlaceFine(c) /\ (Looks(call[t]) => Looks(c))
    BY <1>1, <1>6, <2>1 DEF Promise, PlaceFine, Looks
  <2>5. QED
    BY <1>1, <1>3, <1>4, <2>1, <2>2, <2>3, <2>4, PromiseMoves
<1>7. \/ Return(t)
      \/ \E step \in {"signal", "clear", "load"} :
           /\ Goto(t, step) /\ call[t].at # "spawn"
           /\ step = "load" => call[t].at = "clear" /\ call[t].does = "start"
  BY DEF Spawn, ClearFlag, Signal, ClearState, At
<1>8. QED
  BY <1>5, <1>6, <1>7

(* An update that is alone saves to the file it will reload.               *)
LEMMA SavePromise ==
  ASSUME IInv, Promise, NEW t \in Thread, Save(t)
  PROVE  Promise'
<1>1. call[t].at = "save" /\ ~Looks(call[t]) /\ UNCHANGED <<env, promised>>
  BY DEF Save, At, Looks, Promise, PlaceFine
<1>2. promised = "none"
  BY <1>1 DEF Promise, Kept, Harmless, Looks
<1>3. DOMAIN file' = File
  BY DEF Save, Promise
<1>4. CASE Return(t)
  BY <1>1, <1>2, <1>3, <1>4, PromiseReturns
<1>5. CASE Goto(t, "load") /\ ~Return(t)
  <2>1. PICK c : /\ call' = [u \in Thread |-> IF u = t THEN c ELSE call[u]]
                 /\ c.at = "load" /\ c.does = call[t].does /\ c.with = call[t].with
                 /\ c.alone = call[t].alone
    BY <1>5, CallAt
  <2>2. Updates(c) <=> Updates(call[t])
    BY <2>1 DEF Updates
  <2>3. Updates(call[t]) => call[t].with \in Config /\ env \notin Path
    BY <1>1 DEF Promise, UpdateFine
  <2>4. Updates(call[t]) => file'[DefaultPath] = call[t].with
    <3>1. file' = [file EXCEPT ![IF env = "" THEN DefaultPath ELSE env] = call[t].with]
      BY <1>5 DEF Save
    <3>2. env \notin Path => env \in {"", DefaultPath}
      BY DEF IInv, Rest, File
    <3>3. DefaultPath \in DOMAIN file
      BY DEF Promise, File
    <3>4. QED
      BY <2>3, <3>1, <3>2, <3>3
  <2>5. UpdateFine(c)' /\ PlaceFine(c)
    BY <1>1, <2>1, <2>2, <2>3, <2>4 DEF UpdateFine, Updates, PlaceFine, Looks
  <2>6. Updates(c) => \A u \in Thread \ {t} : Looks(call[u])
    BY <2>2 DEF Promise
  <2>7. QED
    BY <1>1, <1>2, <1>3, <2>1, <2>2, <2>5, <2>6, PromiseMoves
<1>6. QED
  BY <1>4, <1>5 DEF Save

(* Readers come and go, an update waits for the lock.                      *)
LEMMA LookPromise ==
  ASSUME IInv, Promise, NEW t \in Thread, Lock(t) \/ NoRuntime(t) \/ View(t)
  PROVE  Promise'
<1>1. UNCHANGED <<env, file, conf, appState, promised>>
  BY DEF Lock, NoRuntime, View, files
<1>2. promised # "none" =>
        file'[DefaultPath] = promised /\ (appState' # 0 => conf'[appState'] = promised)
  BY <1>1 DEF Promise, Kept
<1>3. DOMAIN file' = File
  BY <1>1 DEF Promise
<1>4. CASE Return(t)
  BY <1>1, <1>2, <1>3, <1>4, PromiseReturns
<1>5. CASE Goto(t, "reading") /\ (At(t, "lock") \/ At(t, "idle"))
  <2>1. PICK c : /\ call' = [u \in Thread |-> IF u = t THEN c ELSE call[u]]
                 /\ c.at = "reading" /\ c.does = call[t].does /\ c.with = call[t].with
                 /\ c.alone = call[t].alone
    BY <1>5, CallAt
  <2>2. Updates(c) <=> Updates(call[t])
    BY <2>1 DEF Updates
  <2>3. PlaceFine(c) /\ (Looks(call[t]) => Looks(c))
    BY <1>5, <2>1 DEF At, Looks, Promise, PlaceFine
  <2>4. UpdateFine(c)'
    BY <1>1, <1>5, <2>1, <2>2 DEF Promise, UpdateFine, Updates, At
  <2>5. promised # "none" => Harmless(c)
    BY <1>5, <2>1, <2>3 DEF Promise, PlaceFine, Kept, Harmless, Looks, At
  <2>6. Updates(c) => \A u \in Thread \ {t} : Looks(call[u])
    BY <2>2 DEF Promise
  <2>7. QED
    BY <1>1, <1>2, <1>3, <2>1, <2>2, <2>3, <2>4, <2>5, <2>6, PromiseMoves
<1>6. QED
  BY <1>4, <1>5 DEF Lock, NoRuntime, View

(* The update is answered: nobody else does more than look, and the app    *)
(* state has what the file has.                                            *)
LEMMA ReloadPromise ==
  ASSUME IInv, Promise, NEW t \in Thread, Reload(t)
  PROVE  Promise'
<1>1. /\ call[t].at = "reading" /\ call[t].does = "update" /\ ~Looks(call[t])
      /\ Return(t) /\ UNCHANGED <<env, file, appState>>
  BY DEF Reload, At, Looks, files
<1>2. promised = "none"
  BY <1>1 DEF Promise, Kept, Harmless
<1>3. PICK c \in Parsed(env) :
        /\ conf' = IF c = "none" THEN conf ELSE Reloaded(c)
        /\ promised' = IF call[t].alone /\ c # "none" THEN call[t].with ELSE promised
  BY DEF Reload
<1>4. CASE ~(call[t].alone /\ c # "none")
  <2>1. UNCHANGED promised
    BY <1>3, <1>4
  <2>2. DOMAIN file' = File
    BY <1>1 DEF Promise
  <2>3. QED
    BY <1>1, <1>2, <2>1, <2>2, PromiseReturns
<1>5. CASE call[t].alone /\ c # "none"
  <2>1. Updates(call[t])
    BY <1>1, <1>5 DEF Updates
  <2>2. /\ call[t].with \in Config /\ file[DefaultPath] = call[t].with /\ env = DefaultPath
        /\ \A u \in Thread \ {t} : Looks(call[u])
    BY <1>1, <2>1 DEF Promise, UpdateFine
  <2>3. c = call[t].with
    BY <1>3, <2>2, EmbeddingAssumption DEF Parsed
  <2>4. conf' = [i \in Start |-> IF i = appState THEN c ELSE conf[i]] /\ promised' = c
    BY <1>3, <1>5, <2>3 DEF Reloaded
  <2>5. appState # 0 => appState \in Start
    BY Bounds DEF IInv, Starts, Start
  <2>6. appState' # 0 => conf'[appState'] = promised'
    BY <1>1, <2>4, <2>5
  <2>7. call' = [u \in Thread |-> IF u = t THEN Idle ELSE call[u]]
    BY <1>1 DEF IInv, Calls, Return
  <2>8. \A u \in Thread : Looks(call'[u]) /\ (Updates(call'[u]) => u # t /\ Updates(call[u]))
    BY <2>2, <2>7, IdleLooks
  <2>9. \A u \in Thread : ~Updates(call'[u])
    BY <1>1, <2>2, <2>8 DEF Promise
  <2>10. Kept'
    BY <1>1, <2>2, <2>3, <2>4, <2>6, <2>8 DEF Kept, Harmless, Looks
  <2>11. \A u \in Thread : PlaceFine(call'[u])
    BY <2>7, IdleLooks DEF Promise
  <2>12. DOMAIN file' = File'
    BY <1>1 DEF Promise, File
  <2>13. \A u \in Thread : UpdateFine(call[u])' /\ ~Updates(call[u])'
    BY <2>9 DEF UpdateFine, Updates
  <2>14. QED
    BY <2>10, <2>11, <2>12, <2>13 DEF Promise
<1>6. QED
  BY <1>4, <1>5

LEMMA PromiseStep ==
  ASSUME IInv, Promise, [Next]_vars
  PROVE  Promise'
<1>1. CASE UNCHANGED vars
  BY <1>1, PromiseUntouched DEF vars, files
<1>2. ASSUME NEW t \in Thread, Continue(t) PROVE Promise'
  BY <1>2, LoadPromise, StorePromise, StopPromise, SavePromise, LookPromise, ReloadPromise
     DEF Continue
<1>3. ASSUME NEW i \in Start, Task(i) PROVE Promise'
  BY <1>3, PromiseUntouched DEF Task, Bind, BindFails, Announce, Stop, Finish, files
<1>4. ASSUME NEW t \in Thread, NEW path \in Path \cup {"none"}, BeginInit(t, path) PROVE Promise'
  <2>1. Begin(t, "load", "start", path) /\ UNCHANGED <<env, file, conf, appState>>
    BY <1>4 DEF BeginInit, files
  <2>2. QED
    BY <2>1, PromiseBegins
<1>5. ASSUME NEW t \in Thread, NEW does \in {"start", "stop"}, BeginShutdown(t, does) PROVE Promise'
  <2>1. Begin(t, "flag", does, "none") /\ UNCHANGED <<env, file, conf, appState>>
    BY <1>5 DEF BeginShutdown, files
  <2>2. QED
    BY <2>1, PromiseBegins
<1>6. ASSUME NEW t \in Thread, NEW c \in Config, BeginUpdate(t, c) PROVE Promise'
  <2>1. Begin(t, "save", "update", c) /\ UNCHANGED <<env, file, conf, appState>>
    BY <1>6 DEF BeginUpdate, files
  <2>2. QED
    BY <2>1, PromiseBegins
<1>7. ASSUME NEW t \in Thread, NEW p \in Port, SavePort(t, p) PROVE Promise'
  BY <1>7, PromiseUntouched DEF SavePort
<1>8. QED
  BY <1>1, <1>2, <1>3, <1>4, <1>5, <1>6, <1>7 DEF Next

LEMMA InitPromise ==
  ASSUME Init
  PROVE  Promise
<1>1. DOMAIN file = File /\ promised = "none" /\ \A t \in Thread : call[t] = Idle
  BY DEF Init
<1>2. QED
  BY <1>1, IdleLooks DEF Promise, UpdateFine, Kept

-----------------------------------------------------------------------------
LEMMA InvariantHolds == Spec => []IInv
<1>1. Init => IInv
  BY InitFine
<1>2. IInv /\ [Next]_vars => IInv'
  BY StepKeeps
<1>3. QED
  BY <1>1, <1>2, PTL DEF Spec

(* The statics of the library stay what they are declared to be, and no    *)
(* task runs for a start that has no configuration.                        *)
THEOREM EmbeddingTyped == Spec => []TypeOK
<1>1. IInv => TypeOK
  BY DEF IInv, Starts, Runs, Rest, Taken, Phase, TypeOK
<1>2. QED
  BY <1>1, InvariantHolds, PTL

(* However starts, stops and late tasks of any number of threads overlap,  *)
(* SERVER_LISTENING is up only with a server past its bind.                *)
THEOREM FlagMeansBoundAlways == Spec => []FlagMeansBound
<1>1. IInv => FlagMeansBound
  BY DEF IInv, Runs
<1>2. QED
  BY <1>1, InvariantHolds, PTL

(* An update answered with success that met no other start or update is what*)
(* every app state has until the next update begins, for any threads,      *)
(* files and starts, however later starts, stops and looks overlap.        *)
THEOREM UpdatesLastAlways == Spec => []UpdatesLast
<1>1. Init => Promise
  BY InitPromise
<1>2. IInv /\ Promise /\ [Next]_vars => Promise'
  BY PromiseStep
<1>3. Promise => UpdatesLast
  BY DEF Promise, Kept, UpdatesLast
<1>4. QED
  BY <1>1, <1>2, <1>3, InvariantHolds, PTL DEF Spec
=============================================================================
