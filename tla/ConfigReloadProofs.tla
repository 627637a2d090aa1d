------------------------- MODULE ConfigReloadProofs -------------------------
(***************************************************************************)
(* What the run of ConfigReload shows of rings for two providers and two   *)
(* configurations, for any providers, keys, configurations, savers, admin  *)
(* handlers and requests, and any number of saves and reloads.             *)
(*                                                                         *)
(* InFlightKeepsKeys is not inductive: a configuration is safe to publish  *)
(* because of what its handler has done before.  Prepared says, of every   *)
(* configuration on its way, which of its rings are already filled; and a  *)
(* ring that is filled is never emptied (RingsStayFilled).                 *)
(*                                                                         *)
(* The second half follows a change of the file: it is in the channel, in  *)
(* the timer, in the watcher's hands or published (OnItsWay).              *)
(***************************************************************************)
EXTENDS ConfigReload, TLAPS

allVars == <<vars, disturbed>>

Jobs == Saving \cup Loading \cup {Idle, [at |-> "stopped"]}

Filled(providers) == \A p \in providers : ring[p] # {}
Ready(c) == Filled(Listed(c))

(* A tier's creation saves a configuration whose rings are filled, as they *)
(* were for the published one; a reload fills them one after the other.    *)
JobFine(a, j) ==
  /\ a \in Admin /\ j.at = "rename" => j.cfg \in Config /\ Ready(j.cfg)
  /\ j.at \in {"load", "publish"} =>
       j.todo \subseteq Listed(j.cfg) /\ Filled(Listed(j.cfg) \ j.todo)

Prepared ==
  /\ Ready(published)
  /\ \A r \in Request : snap[r] # NoFile => Ready(snap[r])
  /\ \A a \in Actor : JobFine(a, job[a])

IInv == TypeOK /\ Prepared

-----------------------------------------------------------------------------
(* Which kind of job an actor has, by its step.                            *)
LEMMA JobKinds ==
  ASSUME TypeOK, NEW a \in Actor
  PROVE  /\ job[a] \in Jobs
         /\ At(a, "rename") => job[a].cfg \in Config \cup {Broken}
         /\ At(a, "load") \/ At(a, "publish") =>
              job[a] \in Loading /\ job[a].cfg \in Config /\ job[a].todo \subseteq Provider
BY DEF TypeOK, Jobs, At, Saving, Loading, Idle

(* A job of one actor changes, and is in order.                            *)
LEMMA JobStep ==
  ASSUME IInv, NEW a \in Actor, NEW j \in Jobs, Do(a, j), JobFine(a, j),
         UNCHANGED <<published, ring, snap>>
  PROVE  Prepared' /\ job' \in [Actor -> Jobs]
<1>1. job \in [Actor -> Jobs]
  BY DEF IInv, TypeOK, Jobs
<1>2. job' \in [Actor -> Jobs] /\ job'[a] = j /\ \A b \in Actor \ {a} : job'[b] = job[b]
  BY <1>1 DEF Do
<1>3. \A b \in Actor : JobFine(b, job'[b])
  BY <1>2 DEF IInv, Prepared
<1>4. \A b \in Actor : JobFine(b, job[b])'
  BY <1>3 DEF JobFine, Ready, Filled, Listed
<1>5. Ready(published)' /\ \A r \in Request : (snap[r] # NoFile => Ready(snap[r]))'
  BY DEF IInv, Prepared, Ready, Filled, Listed
<1>6. QED
  BY <1>2, <1>4, <1>5 DEF Prepared

(* Nothing that Prepared is about changes.                                 *)
LEMMA NoJobStep ==
  ASSUME IInv, UNCHANGED <<published, ring, snap, job>>
  PROVE  Prepared' /\ job' \in [Actor -> Jobs]
BY DEF IInv, TypeOK, Jobs, Prepared, JobFine, Ready, Filled, Listed

(* Idle actors have nothing to be held to.                                 *)
LEMMA IdleFine ==
  ASSUME NEW a
  PROVE  Idle \in Jobs /\ JobFine(a, Idle)
BY DEF Jobs, JobFine, Idle

(* The loading of a file that parses.                                      *)
LEMMA LoadFine ==
  ASSUME TypeOK, file # Broken, NEW a
  PROVE  LET j == [at |-> "load", cfg |-> file, todo |-> Listed(file)]
         IN j \in Jobs /\ JobFine(a, j)
<1> DEFINE j == [at |-> "load", cfg |-> file, todo |-> Listed(file)]
<1>1. file \in Config /\ Listed(file) \subseteq Provider
  BY DEF TypeOK, Listed
<1>2. j \in Jobs
  BY <1>1 DEF Jobs, Loading
<1>3. JobFine(a, j)
  BY DEF JobFine, Filled
<1>4. QED
  BY <1>2, <1>3

(* The variables that every action leaves in their types.                  *)
RestTyped ==
  /\ file \in Config \cup {Broken}
  /\ tmp \in Config \cup {Broken, NoFile}
  /\ devices \in BOOLEAN
  /\ events \in Nat
  /\ armed \in BOOLEAN
  /\ edits \in 0..MaxEdits /\ calls \in 0..MaxAdmin
  /\ disturbed \in BOOLEAN

LEMMA ObserveTyped ==
  ASSUME Observe
  PROVE  disturbed' \in BOOLEAN
BY Zenon DEF Observe

(* A saver that has the rename before it.                                  *)
LEMMA RenameTyped ==
  ASSUME TypeOK, NEW a, Rename(a)
  PROVE  /\ file' \in Config \cup {Broken}
         /\ tmp' \in Config \cup {Broken, NoFile}
         /\ events' \in Nat
BY DEF TypeOK, Rename
-----------------------------------------------------------------------------
(* An editor begins to save: it is no admin handler, so what it saves may  *)
(* be anything.                                                            *)
LEMMA EditKeeps ==
  ASSUME IInv, Observe, NEW a \in Editor, NEW c \in Configs \cup {Broken}, Edit(a, c)
  PROVE  IInv'
<1> DEFINE j == [at |-> "rename", cfg |-> c]
<1>1. c \in Config \cup {Broken} /\ a \notin Admin /\ a \in Actor
  BY ConfigAssumption DEF Actor
<1>2. j \in Jobs /\ JobFine(a, j)
  BY <1>1 DEF Jobs, Saving, JobFine
<1>3. Prepared' /\ job' \in [Actor -> Jobs]
  BY <1>1, <1>2, JobStep DEF Edit, WriteTmp
<1>4. RestTyped'
  BY <1>1, ObserveTyped, ConfigAssumption DEF RestTyped, IInv, TypeOK, Edit, WriteTmp
<1>5. QED
  BY <1>3, <1>4 DEF IInv, TypeOK, Jobs, RestTyped, Edit

LEMMA FinishEditKeeps ==
  ASSUME IInv, Observe, NEW a \in Actor, FinishEdit(a)
  PROVE  IInv'
<1>1. Prepared' /\ job' \in [Actor -> Jobs]
  BY JobStep, IdleFine DEF FinishEdit
<1>2. RestTyped'
  BY RenameTyped, ObserveTyped DEF RestTyped, IInv, TypeOK, FinishEdit
<1>3. QED
  BY <1>1, <1>2 DEF IInv, TypeOK, Jobs, RestTyped, FinishEdit

(* create_tier begins: its configuration has the keys of the published one.*)
LEMMA CreateTierKeeps ==
  ASSUME IInv, Observe, NEW a \in Admin, NEW t \in Tier, CreateTier(a, t)
  PROVE  IInv'
<1> DEFINE c == [published EXCEPT !.tiers = @ \cup {t}]
<1> DEFINE j == [at |-> "rename", cfg |-> c]
<1>1. c \in Config /\ c.keys = published.keys /\ a \in Actor
  BY DEF IInv, TypeOK, Config, Actor
<1>2. Ready(c)
  BY <1>1 DEF IInv, Prepared, Ready, Filled, Listed
<1>3. j \in Jobs /\ JobFine(a, j)
  BY <1>1, <1>2 DEF Jobs, Saving, JobFine
<1>4. Prepared' /\ job' \in [Actor -> Jobs]
  BY <1>1, <1>3, JobStep DEF CreateTier, WriteTmp
<1>5. RestTyped'
  BY <1>1, ObserveTyped, ConfigAssumption DEF RestTyped, IInv, TypeOK, CreateTier, WriteTmp
<1>6. QED
  BY <1>4, <1>5 DEF IInv, TypeOK, Jobs, RestTyped, CreateTier

(* It goes on to publish what it has saved.                                *)
LEMMA SaveTierKeeps ==
  ASSUME IInv, Observe, NEW a \in Actor, SaveTier(a)
  PROVE  IInv'
<1> DEFINE j == [at |-> "publish", cfg |-> job[a].cfg, todo |-> {}]
<1>1. job[a].cfg \in Config /\ Ready(job[a].cfg)
  BY DEF IInv, Prepared, JobFine, SaveTier, At
<1>2. j \in Jobs /\ JobFine(a, j)
  BY <1>1 DEF Jobs, Loading, JobFine, Ready, Filled
<1>3. Prepared' /\ job' \in [Actor -> Jobs]
  <2>1. CASE tmp = NoFile
    BY <2>1, JobStep, IdleFine DEF SaveTier
  <2>2. CASE tmp # NoFile
    BY <2>2, <1>2, JobStep DEF SaveTier
  <2>3. QED
    BY <2>1, <2>2
<1>4. RestTyped'
  BY RenameTyped, ObserveTyped DEF RestTyped, IInv, TypeOK, SaveTier
<1>5. QED
  BY <1>3, <1>4 DEF IInv, TypeOK, Jobs, RestTyped, SaveTier
-----------------------------------------------------------------------------
(* The watcher, and /admin/reload, begin to load the file, if it parses.   *)
LEMMA ReceiveKeeps ==
  ASSUME IInv, Observe, Receive
  PROVE  IInv'
<1>1. Prepared' /\ job' \in [Actor -> Jobs]
  BY NoJobStep DEF Receive
<1>2. RestTyped'
  BY ObserveTyped DEF RestTyped, IInv, TypeOK, Receive
<1>3. QED
  BY <1>1, <1>2 DEF IInv, TypeOK, Jobs, RestTyped, Receive

LEMMA TimerFiresKeeps ==
  ASSUME IInv, Observe, TimerFires
  PROVE  IInv'
<1>1. Prepared' /\ job' \in [Actor -> Jobs]
  <2>1. CASE file = Broken
    BY <2>1, NoJobStep DEF TimerFires
  <2>2. CASE file # Broken
    BY <2>2, JobStep, LoadFine DEF IInv, TimerFires, Actor
  <2>3. QED
    BY <2>1, <2>2
<1>2. RestTyped'
  <2>1. events' \in {events, events + 1} /\ armed' = FALSE
    BY DEF TimerFires, ReadFile
  <2>2. events' \in Nat
    BY <2>1 DEF IInv, TypeOK
  <2>3. UNCHANGED <<file, tmp, devices, edits, calls>>
    BY DEF TimerFires
  <2>4. /\ file' \in Config \cup {Broken} /\ tmp' \in Config \cup {Broken, NoFile}
        /\ devices' \in BOOLEAN /\ edits' \in 0..MaxEdits /\ calls' \in 0..MaxAdmin
    BY <2>3 DEF IInv, TypeOK
  <2>5. QED
    BY <2>1, <2>2, <2>4, ObserveTyped DEF RestTyped
<1>3. QED
  BY <1>1, <1>2 DEF IInv, TypeOK, Jobs, RestTyped, TimerFires

LEMMA ReloadKeeps ==
  ASSUME IInv, Observe, NEW a \in Admin, Reload(a)
  PROVE  IInv'
<1>1. Prepared' /\ job' \in [Actor -> Jobs]
  <2>1. CASE file = Broken
    BY <2>1, NoJobStep DEF Reload
  <2>2. CASE file # Broken
    BY <2>2, JobStep, LoadFine DEF IInv, Reload, Actor
  <2>3. QED
    BY <2>1, <2>2
<1>2. RestTyped'
  BY ObserveTyped, ConfigAssumption DEF RestTyped, IInv, TypeOK, Reload, ReadFile
<1>3. QED
  BY <1>1, <1>2 DEF IInv, TypeOK, Jobs, RestTyped, Reload
-----------------------------------------------------------------------------
(* update_keys fills the ring of a provider that has keys, and leaves the  *)
(* others as they are.                                                     *)
LEMMA RingsStayFilled ==
  ASSUME IInv, NEW a \in Actor, NEW p \in Provider, UpdateRing(a, p)
  PROVE  /\ ring' \in [Provider -> SUBSET Key]
         /\ ring'[p] # {}
         /\ \A q \in Provider : ring[q] # {} => ring'[q] # {}
<1>1. job[a].cfg \in Config /\ p \in Listed(job[a].cfg)
  BY JobKinds DEF IInv, Prepared, JobFine, UpdateRing, At
<1>2. job[a].cfg.keys[p] \in SUBSET Key /\ job[a].cfg.keys[p] # {}
  BY <1>1 DEF Config, Listed
<1>3. QED
  BY <1>2 DEF UpdateRing, IInv, TypeOK

LEMMA UpdateRingKeeps ==
  ASSUME IInv, Observe, NEW a \in Actor, NEW p \in Provider, UpdateRing(a, p)
  PROVE  IInv'
<1> DEFINE j == [job[a] EXCEPT !.todo = @ \ {p}]
<1>1. job[a] \in Loading /\ job[a].todo \subseteq Listed(job[a].cfg)
      /\ Filled(Listed(job[a].cfg) \ job[a].todo) /\ At(a, "load")
  BY JobKinds DEF IInv, Prepared, JobFine, UpdateRing, At
<1>2. j \in Loading /\ j.at = "load" /\ j.cfg = job[a].cfg /\ j.todo = job[a].todo \ {p}
  BY <1>1 DEF Loading, At
<1>3. \A q \in Provider : ring[q] # {} \/ q = p => ring'[q] # {}
  BY RingsStayFilled
<1>4. job' \in [Actor -> Jobs] /\ job'[a] = j /\ \A b \in Actor \ {a} : job'[b] = job[b]
  BY <1>2 DEF UpdateRing, Do, IInv, TypeOK, Jobs
<1>5. \A c : Ready(c) => Ready(c)'
  BY <1>3 DEF Ready, Filled, Listed
<1>6. \A b \in Actor : JobFine(b, job[b])'
  <2>1. SUFFICES ASSUME NEW b \in Actor PROVE JobFine(b, job[b])'
    OBVIOUS
  <2>2. CASE b = a
    <3>1. Listed(job'[a].cfg) \ job'[a].todo \subseteq (Listed(job[a].cfg) \ job[a].todo) \cup {p}
      BY <1>2, <1>4
    <3>2. Listed(job'[a].cfg) \subseteq Provider
      BY DEF Listed
    <3>3. Filled(Listed(job[a].cfg) \ job[a].todo)'
      BY <1>1, <1>2, <1>3, <1>4, <3>1, <3>2 DEF Filled, Listed
    <3>4. QED
      BY <1>1, <1>2, <1>4, <2>2, <3>3 DEF JobFine, Listed
  <2>3. CASE b # a
    <3>1. job'[b] = job[b] /\ JobFine(b, job[b])
      BY <1>4, <2>3 DEF IInv, Prepared
    <3>2. QED
      BY <1>3, <3>1 DEF JobFine, Ready, Filled, Listed
  <2>4. QED
    BY <2>2, <2>3
<1>7. Ready(published)' /\ \A r \in Request : (snap[r] # NoFile => Ready(snap[r]))'
  BY <1>3 DEF IInv, Prepared, UpdateRing, Ready, Filled, Listed
<1>8. RestTyped' /\ ring' \in [Provider -> SUBSET Key]
  BY RingsStayFilled, ObserveTyped DEF RestTyped, IInv, TypeOK, UpdateRing
<1>9. QED
  BY <1>4, <1>6, <1>7, <1>8 DEF IInv, TypeOK, Prepared, Jobs, RestTyped, UpdateRing

LEMMA ReloadDevicesKeeps ==
  ASSUME IInv, Observe, NEW a \in Actor, ReloadDevices(a)
  PROVE  IInv'
<1> DEFINE j == [job[a] EXCEPT !.at = "publish"]
<1>1. job[a] \in Loading /\ job[a].cfg \in Config /\ JobFine(a, job[a]) /\ At(a, "load")
  BY JobKinds DEF IInv, Prepared, ReloadDevices
<1>2. j \in Loading /\ j.at = "publish" /\ j.cfg = job[a].cfg /\ j.todo = job[a].todo
  BY <1>1 DEF Loading
<1>3. j \in Jobs /\ JobFine(a, j)
  BY <1>1, <1>2 DEF Jobs, JobFine, At
<1>4. Prepared' /\ job' \in [Actor -> Jobs]
  BY <1>3, JobStep DEF ReloadDevices
<1>5. RestTyped'
  BY <1>1, ObserveTyped DEF RestTyped, IInv, TypeOK, ReloadDevices, Config
<1>6. QED
  BY <1>4, <1>5 DEF IInv, TypeOK, Jobs, RestTyped, ReloadDevices

(* What is published has nothing left to do, so all its rings are filled.  *)
LEMMA PublishKeeps ==
  ASSUME IInv, Observe, NEW a \in Actor, Publish(a)
  PROVE  IInv'
<1>1. At(a, "load") \/ At(a, "publish")
  BY DEF Publish
<1>2. job[a].cfg \in Config /\ JobFine(a, job[a]) /\ job[a].todo = {}
  BY <1>1, JobKinds DEF IInv, Prepared, Publish
<1>3. Ready(job[a].cfg)
  BY <1>1, <1>2 DEF JobFine, Ready, Filled, At
<1>4. job' \in [Actor -> Jobs] /\ job'[a] = Idle /\ \A b \in Actor \ {a} : job'[b] = job[b]
  BY IdleFine DEF Publish, Do, IInv, TypeOK, Jobs
<1>5. \A b \in Actor : JobFine(b, job'[b])
  BY <1>4, IdleFine DEF IInv, Prepared
<1>6. \A b \in Actor : JobFine(b, job[b])'
  BY <1>5 DEF Publish, JobFine, Ready, Filled, Listed
<1>7. Ready(published)' /\ \A r \in Request : (snap[r] # NoFile => Ready(snap[r]))'
  BY <1>3 DEF IInv, Prepared, Publish, Ready, Filled, Listed
<1>8. RestTyped' /\ published' \in Config
  BY <1>2, ObserveTyped DEF RestTyped, IInv, TypeOK, Publish
<1>9. QED
  BY <1>4, <1>6, <1>7, <1>8 DEF IInv, TypeOK, Prepared, Jobs, RestTyped, Publish
-----------------------------------------------------------------------------
(* A request takes the published configuration, and gives it up.           *)
LEMMA RequestKeeps ==
  ASSUME IInv, Observe, NEW r \in Request, Arrive(r) \/ Leave(r)
  PROVE  IInv'
<1>1. UNCHANGED <<file, tmp, published, ring, devices, events, armed, job, edits, calls>>
  BY DEF Arrive, Leave
<1>2. snap' = [snap EXCEPT ![r] = published] \/ snap' = [snap EXCEPT ![r] = NoFile]
  BY DEF Arrive, Leave
<1>3. snap' \in [Request -> Config \cup {NoFile}]
      /\ \A q \in Request : snap'[q] \in {snap[q], published, NoFile}
  BY <1>2 DEF IInv, TypeOK
<1>4. \A q \in Request : snap'[q] # NoFile => Ready(snap'[q])
  BY <1>3 DEF IInv, Prepared
<1>5. \A q \in Request : (snap[q] # NoFile => Ready(snap[q]))'
  BY <1>1, <1>4 DEF Ready, Filled, Listed
<1>6. Ready(published)' /\ \A b \in Actor : JobFine(b, job[b])'
  BY <1>1 DEF IInv, Prepared, JobFine, Ready, Filled, Listed
<1>7. QED
  BY <1>1, <1>3, <1>5, <1>6, ObserveTyped DEF IInv, TypeOK, Prepared

LEMMA InitPrepared ==
  ASSUME Init
  PROVE  IInv
<1>1. file \in Config /\ published = file /\ ring = file.keys
  BY ConfigAssumption DEF Init
<1>2. file.keys \in [Provider -> SUBSET Key] /\ file.device \in BOOLEAN
  BY <1>1 DEF Config
<1>3. \A a \in Actor : job[a] = Idle
  BY DEF Init
<1>4. TypeOK
  <2>1. tmp \in Config \cup {Broken, NoFile} /\ devices \in BOOLEAN
    BY <1>2 DEF Init
  <2>2. events \in Nat /\ armed \in BOOLEAN /\ disturbed \in BOOLEAN
    BY DEF Init
  <2>3. edits \in 0..MaxEdits /\ calls \in 0..MaxAdmin
    BY ConfigAssumption DEF Init
  <2>4. job \in [Actor -> Saving \cup Loading \cup {Idle, [at |-> "stopped"]}]
    BY DEF Init
  <2>5. snap \in [Request -> Config \cup {NoFile}]
    BY DEF Init
  <2>6. QED
    BY <1>1, <1>2, <2>1, <2>2, <2>3, <2>4, <2>5 DEF TypeOK
<1>5. Prepared
  BY <1>1, <1>3, IdleFine DEF Init, Prepared, Ready, Filled, Listed
<1>6. QED
  BY <1>4, <1>5 DEF IInv

LEMMA StepKeeps ==
  ASSUME IInv, [Next /\ Observe]_allVars
  PROVE  IInv'
<1>1. CASE UNCHANGED allVars
  BY <1>1 DEF allVars, vars, IInv, TypeOK, Prepared, JobFine, Ready, Filled, Listed, Jobs, At
<1>2. CASE Next /\ Observe
  <2>1. Editor \subseteq Actor /\ Admin \subseteq Actor /\ Watcher \in Actor
    BY DEF Actor
  <2>2. ASSUME NEW a \in Actor, Continue(a) PROVE IInv'
    BY <1>2, <2>2, FinishEditKeeps, SaveTierKeeps, ReloadDevicesKeeps, PublishKeeps, UpdateRingKeeps
       DEF Continue
  <2>3. CASE \E a \in Editor, c \in Configs \cup {Broken} : Edit(a, c)
    BY <1>2, <2>3, EditKeeps
  <2>4. CASE \E a \in Admin : Reload(a) \/ \E t \in Tier : CreateTier(a, t)
    BY <1>2, <2>4, ReloadKeeps, CreateTierKeeps
  <2>5. CASE \E a \in Editor \cup Admin : Continue(a)
    BY <2>1, <2>2, <2>5
  <2>6. CASE Watch
    BY <1>2, <2>1, <2>2, <2>6, ReceiveKeeps, TimerFiresKeeps DEF Watch
  <2>7. CASE \E r \in Request : Arrive(r) \/ Leave(r)
    BY <1>2, <2>7, RequestKeeps
  <2>8. QED
    BY <1>2, <2>3, <2>4, <2>5, <2>6, <2>7 DEF Next
<1>3. QED
  BY <1>1, <1>2
-----------------------------------------------------------------------------
(* CurrentWhenQuiet is not inductive either: with no admin handler at work *)
(* since the last change, the file is still to be heard of (an event, the  *)
(* timer), or is being loaded, or is what the server works with already.   *)
Undisturbed == ~disturbed => \A a \in Admin : Free(a)

EditorsOnlySave ==
  \A a \in Editor \ {Watcher} : At(a, "idle") \/ At(a, "rename")

LoadsFile ==
  /\ At(Watcher, "load") /\ job[Watcher].cfg = file
  /\ \A p \in Listed(file) \ job[Watcher].todo : ring[p] = file.keys[p]

OnItsWay == events > 0 \/ armed \/ LoadsFile \/ (Free(Watcher) /\ Works(file))

Heeded ==
  /\ Undisturbed
  /\ EditorsOnlySave
  /\ ~disturbed /\ file # Broken => OnItsWay

(* What the history says of a step after which it is undisturbed: no admin *)
(* handler was or is at work, and it was so before unless the file changed.*)
LEMMA Unseen ==
  ASSUME TypeOK, Undisturbed, Observe, ~disturbed'
  PROVE  /\ \A a \in Admin : Free(a) /\ Free(a)'
         /\ file' = file => ~disturbed
<1>1. /\ \A a \in Admin : Free(a)'
      /\ disturbed => file' # file
      /\ file' # file => \A a \in Admin : Free(a)
  BY Zenon DEF Observe
<1>2. \A a \in Admin : Free(a)
  BY <1>1, Zenon DEF Undisturbed
<1>3. QED
  BY <1>1, <1>2, Zenon

(* Only a rename changes the file, and the watcher hears of it.            *)
LEMMA ChangesAreHeard ==
  ASSUME TypeOK, Next, file' # file
  PROVE  events' > 0
<1>1. ASSUME NEW a, Rename(a) PROVE events' > 0
  BY <1>1 DEF Rename, TypeOK
<1>2. ASSUME NEW a, Continue(a) PROVE events' > 0
  BY <1>1, <1>2 DEF Continue, FinishEdit, SaveTier, ReloadDevices, Publish, UpdateRing
<1>3. \E a \in Actor : Continue(a)
  BY DEF Next, Watch, Edit, CreateTier, WriteTmp, Reload, Receive, TimerFires, Arrive, Leave, Actor
<1>4. QED
  BY <1>2, <1>3

(* An actor that is no admin handler goes on: an editor with its rename,   *)
(* which either fails or is heard of, the watcher with its load.           *)
LEMMA ContinueOnItsWay ==
  ASSUME IInv, Heeded, ~disturbed, file # Broken, file' = file,
         NEW a \in Actor, a \notin Admin, Continue(a)
  PROVE  OnItsWay'
<1>1. OnItsWay /\ events \in Nat /\ job \in [Actor -> Jobs] /\ Watcher \in Actor
  BY DEF Heeded, IInv, TypeOK, Jobs, Actor
<1>2. a # Watcher => At(a, "idle") \/ At(a, "rename")
  BY DEF Heeded, EditorsOnlySave, Actor
<1>3. CASE FinishEdit(a)
  <2>1. events' \in Nat /\ events' >= events /\ UNCHANGED <<file, published, ring, armed>>
    BY <1>1, <1>3 DEF FinishEdit, Rename
  <2>2. CASE a = Watcher
    BY <1>1, <1>3, <2>1, <2>2 DEF OnItsWay, LoadsFile, Free, At, FinishEdit
  <2>3. CASE a # Watcher
    <3>1. job'[Watcher] = job[Watcher]
      BY <1>1, <1>3, <2>3 DEF FinishEdit, Do
    <3>2. QED
      BY <1>1, <2>1, <3>1 DEF OnItsWay, LoadsFile, Free, At, Works, Listed
  <2>4. QED
    BY <2>2, <2>3
<1>4. CASE Publish(a)
  <2>1. a = Watcher /\ At(a, "load") /\ job[a].todo = {} /\ published' = job[a].cfg
        /\ job'[a] = Idle /\ UNCHANGED <<ring, events, armed>>
    BY <1>1, <1>2, <1>4 DEF Publish, At, Do
  <2>2. Free(Watcher)' /\ ~Free(Watcher)
    BY <2>1 DEF Free, At, Idle
  <2>3. CASE LoadsFile
    <3>1. Works(file)'
      BY <2>1, <2>3 DEF LoadsFile, Works, Listed
    <3>2. QED
      BY <2>2, <3>1 DEF OnItsWay
  <2>4. CASE ~LoadsFile
    BY <1>1, <2>1, <2>2, <2>4 DEF OnItsWay
  <2>5. QED
    BY <2>3, <2>4
<1>5. CASE \E p \in Provider : UpdateRing(a, p)
  <2>1. PICK p \in Provider : UpdateRing(a, p)
    BY <1>5
  <2>2. a = Watcher /\ At(a, "load") /\ ~Free(Watcher) /\ UNCHANGED <<events, armed>>
        /\ ring' = [ring EXCEPT ![p] = job[a].cfg.keys[p]]
    BY <1>2, <2>1 DEF UpdateRing, Free, At
  <2>3. job'[a].at = "load" /\ job'[a].cfg = job[a].cfg /\ job'[a].todo = job[a].todo \ {p}
    <3>1. job[a] \in Loading
      BY <2>2, JobKinds DEF IInv
    <3>2. QED
      BY <1>1, <2>1, <2>2, <3>1 DEF UpdateRing, Do, Loading, At
  <2>4. CASE LoadsFile
    <3>1. \A q \in Listed(file) \ job'[Watcher].todo : ring'[q] = file.keys[q]
      BY <2>2, <2>3, <2>4 DEF LoadsFile, IInv, TypeOK, Listed
    <3>2. LoadsFile'
      BY <2>2, <2>3, <2>4, <3>1 DEF LoadsFile, At, Listed
    <3>3. QED
      BY <3>2 DEF OnItsWay
  <2>5. CASE ~LoadsFile
    BY <1>1, <2>2, <2>5 DEF OnItsWay
  <2>6. QED
    BY <2>4, <2>5
<1>6. ~SaveTier(a) /\ ~ReloadDevices(a)
  BY DEF SaveTier, ReloadDevices
<1>7. QED
  BY <1>3, <1>4, <1>5, <1>6 DEF Continue

(* An admin handler cannot begin to load or save unseen; a reload of a     *)
(* file that does not parse does nothing.                                  *)
LEMMA AdminsLeaveOnItsWay ==
  ASSUME IInv, file # Broken, NEW a \in Admin, Free(a)',
         Reload(a) \/ (\E t \in Tier : CreateTier(a, t))
  PROVE  FALSE
<1>1. job \in [Actor -> Jobs] /\ a \in Actor
  BY DEF IInv, TypeOK, Jobs, Actor
<1>2. job'[a].at \in {"load", "rename"}
  BY <1>1 DEF Reload, CreateTier, WriteTmp, Do
<1>3. QED
  BY <1>2 DEF Free, At

LEMMA StaysOnItsWay ==
  ASSUME IInv, Heeded, Next, Observe, ~disturbed', file' # Broken
  PROVE  OnItsWay'
<1>1. CASE file' # file
  BY <1>1, ChangesAreHeard DEF IInv, OnItsWay
<1>2. CASE file' = file
  <2>1. ~disturbed /\ file # Broken /\ OnItsWay /\ events \in Nat
        /\ \A a \in Admin : Free(a) /\ Free(a)'
    <3>1. ~disturbed /\ file # Broken /\ \A a \in Admin : Free(a) /\ Free(a)'
      BY <1>2, Unseen, Zenon DEF IInv, Heeded
    <3>2. QED
      BY <3>1 DEF IInv, TypeOK, Heeded
  <2>2. ASSUME NEW a \in Actor, Continue(a) PROVE OnItsWay'
    <3>1. CASE a \in Admin
      BY <2>1, <2>2, <3>1 DEF Continue, FinishEdit, SaveTier, ReloadDevices, Publish,
           UpdateRing, Free, At, Watcher
    <3>2. CASE a \notin Admin
      BY <1>2, <2>1, <2>2, <3>2, ContinueOnItsWay
    <3>3. QED
      BY <3>1, <3>2
  <2>3. CASE \E a \in Editor, c \in Configs \cup {Broken} : Edit(a, c)
    BY <2>1, <2>3 DEF Edit, WriteTmp, OnItsWay
  <2>4. CASE \E a \in Admin : Reload(a) \/ \E t \in Tier : CreateTier(a, t)
    BY <2>1, <2>4, AdminsLeaveOnItsWay
  <2>5. CASE \E a \in Editor \cup Admin : Continue(a)
    BY <2>2, <2>5 DEF Actor
  <2>6. CASE Watch
    <3>1. CASE Receive
      BY <3>1 DEF Receive, OnItsWay
    <3>2. CASE TimerFires
      <4>1. job' = [job EXCEPT ![Watcher] = [at |-> "load", cfg |-> file, todo |-> Listed(file)]]
            /\ ring' = ring
        BY <2>1, <3>2 DEF TimerFires, Do
      <4>2. job'[Watcher] = [at |-> "load", cfg |-> file, todo |-> Listed(file)]
        BY <4>1 DEF IInv, TypeOK, Actor
      <4>3. LoadsFile'
        BY <1>2, <4>2 DEF LoadsFile, At, Listed
      <4>4. QED
        BY <4>3 DEF OnItsWay
    <3>3. CASE Continue(Watcher)
      BY <2>2, <3>3 DEF Actor
    <3>4. QED
      BY <2>6, <3>1, <3>2, <3>3 DEF Watch
  <2>7. CASE \E r \in Request : Arrive(r) \/ Leave(r)
    BY <1>2, <2>1, <2>7 DEF Arrive, Leave, OnItsWay, LoadsFile, Free, At, Works, Listed
  <2>8. QED
    BY <2>3, <2>4, <2>5, <2>6, <2>7 DEF Next
<1>3. QED
  BY <1>1, <1>2

(* Editors save and do nothing else.                                       *)
LEMMA EditorsKeepSaving ==
  ASSUME IInv, EditorsOnlySave, Next
  PROVE  EditorsOnlySave'
<1> SUFFICES ASSUME NEW e \in Editor \ {Watcher}
             PROVE  At(e, "idle")' \/ At(e, "rename")'
  BY DEF EditorsOnlySave
<1>1. /\ e \in Actor /\ e \notin Admin /\ job \in [Actor -> Jobs] /\ Watcher \in Actor
      /\ At(e, "idle") \/ At(e, "rename")
  BY ConfigAssumption DEF IInv, TypeOK, Jobs, Actor, EditorsOnlySave
<1>2. CASE job'[e] = job[e]
  BY <1>1, <1>2 DEF At
<1>3. CASE job'[e] # job[e]
  <2>1. ASSUME NEW a \in Actor, Continue(a) PROVE job'[e] = Idle
    BY <1>1, <1>3, <2>1 DEF Continue, FinishEdit, SaveTier, ReloadDevices, Publish,
         UpdateRing, Do, At
  <2>2. CASE \E a \in Actor : Continue(a)
    BY <2>1, <2>2 DEF At, Idle
  <2>3. CASE \E a \in Editor, c \in Configs \cup {Broken} : Edit(a, c)
    BY <1>1, <1>3, <2>3 DEF Edit, WriteTmp, Do, At, Actor
  <2>4. QED
    BY <1>1, <1>3, <2>2, <2>3 DEF Next, Watch, Reload, CreateTier, WriteTmp, Receive,
         TimerFires, Arrive, Leave, Do, Actor
<1>4. QED
  BY <1>2, <1>3

LEMMA HeededKept ==
  ASSUME IInv, Heeded, [Next /\ Observe]_allVars
  PROVE  Heeded'
<1>1. CASE UNCHANGED allVars
  BY <1>1 DEF allVars, vars, Heeded, Undisturbed, EditorsOnlySave, OnItsWay, LoadsFile,
       Free, At, Works, Listed
<1>2. CASE Next /\ Observe
  <2>1. Undisturbed'
    BY <1>2, Unseen, Zenon DEF IInv, Heeded, Undisturbed
  <2>2. EditorsOnlySave'
    BY <1>2, EditorsKeepSaving DEF Heeded
  <2>3. ~disturbed' /\ file' # Broken => OnItsWay'
    BY <1>2, StaysOnItsWay
  <2>4. QED
    BY <2>1, <2>2, <2>3 DEF Heeded
<1>3. QED
  BY <1>1, <1>2
-----------------------------------------------------------------------------
LEMMA InvariantHolds == Spec => []IInv
<1>1. Init => IInv
  BY InitPrepared
<1>2. IInv /\ [Next /\ Observe]_allVars => IInv'
  BY StepKeeps
<1>3. QED
  BY <1>1, <1>2, PTL DEF Spec, allVars

(* The files, rings, jobs and snapshots stay well typed: in particular an  *)
(* admin handler never publishes a file that does not parse.               *)
THEOREM ReloadTyped == Spec => []TypeOK
<1>1. IInv => TypeOK
  BY DEF IInv
<1>2. QED
  BY <1>1, InvariantHolds, PTL

(* A request under way keeps keys to use at every provider its             *)
(* configuration gives keys to, through any number of saves and reloads.   *)
THEOREM InFlightKeepsKeysAlways == Spec => []InFlightKeepsKeys
<1>1. IInv => InFlightKeepsKeys
  BY DEF IInv, Prepared, Ready, Filled, InFlightKeepsKeys
<1>2. QED
  BY <1>1, InvariantHolds, PTL

(* With no save, event, timer or load under way, the server works with     *)
(* what the file says, unless an admin handler was at work after its last  *)
(* change: no change is lost between savers, channel and timer.            *)
THEOREM CurrentWhenQuietAlways == Spec => []CurrentWhenQuiet
<1>1. Init => Heeded
  <2>1. ASSUME Init PROVE Heeded
    <3>1. \A a \in Actor : job[a] = Idle
      BY <2>1 DEF Init
    <3>2. Works(file)
      BY <2>1 DEF Init, Works
    <3>3. \A a \in Actor : Free(a)
      BY <3>1 DEF Free, At, Idle
    <3>4. QED
      BY <3>2, <3>3 DEF Heeded, Undisturbed, EditorsOnlySave, OnItsWay, Free, Actor
  <2>2. QED
    BY <2>1
<1>2. IInv /\ Heeded /\ [Next /\ Observe]_allVars => Heeded'
  BY HeededKept
<1>3. IInv /\ Heeded => CurrentWhenQuiet
  BY DEF IInv, TypeOK, Heeded, OnItsWay, LoadsFile, CurrentWhenQuiet, Quiet, Free, At, Actor
<1>4. QED
  BY <1>1, <1>2, <1>3, InvariantHolds, PTL DEF Spec, allVars
=============================================================================
