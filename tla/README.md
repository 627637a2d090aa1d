# TLA+ models of xrouter

xrouter is a local LLM router: it accepts OpenAI, Anthropic and Responses requests, resolves the `model`
field to a *tier* (an ordered list of `provider:model` entries) or to one entry, and tries the entries in
turn, with rotated API keys, until one answers. This directory holds TLA+ modules of its state machines, the
TLC configurations that check them and the TLAPS proofs about them. Paths below are relative to `src/`.

Run, in this directory:

    tlc -workers 2 -config HealthRegistry.cfg MCHealthRegistry     # any row of the table of runs
    tlapm HealthRegistryProofs.tla                                 # or any other ...Proofs module

## 1. Inventory

| Component | State | Operations | Interacts with | What is hard |
|---|---|---|---|---|
| Endpoint health registry, `crates/xrouter-balancer/src/lib.rs:39-254` | a record per endpoint (state, window, failures), two counters per provider | `mark_success`, `mark_failure`, `mark_probing`, `apply_retry_after`, `health_state` | every request; candidate order | records and counters are locked apart, so calls interleave between them; recovery without a background task |
| Key rings and quarantine, same file 14-37, 187-192, 262-339 | a ring and a cursor per provider, dead keys, bans with an expiry | `next_key`, `mark_key_dead`, `ban_key`, `update_keys` | requests; reload | four maps read one after the other; a cursor loaded and stored apart |
| Candidate order, same file 347-384 | none | `candidates_ordered` | reads health; feeds the request loop | groups, a rotation and a sort that must not undo each other or lose an entry |
| Smooth weighted round robin, same file 386-419 | a weight per endpoint and tier | `pick_weighted` | no caller in the server | weights that stay attached to the right endpoint |
| Request routing, `crates/xrouter-server/src/lib.rs:735-1141`, and the same loop for images, 1512-1801 | local to a request: candidates, attempt, last error | the failover loop | everything above, provider adapters, tracker | many requests share health and keys; every kind of failure of every attempt |
| Stream translation, same file 1150-1423, `translate.rs` 248-499 | per stream: started, open blocks, numbering, finished | `push`, `flush`, two chunk translators, `ResponsesStreamTranslator` | upstream bytes, client | order and nesting of events; streams that break off |
| Whole-body translation, `translate.rs` 1-245, 500-620 | none | request and response rewriting | request routing | layout only |
| Configuration and reload, `crates/xrouter-config`, server 174-189, 514-591, cli 216-228 | the file, the published `Arc<Config>`, rings, device store | `load`, `save`, `/admin/reload`, the file watcher, `create_tier` | rings, device store, requests under way | three unsynchronised writers; a request keeps the configuration it started with |
| Model resolution, `resolve.rs`, and the list of models, server 276-335 | none | `resolve_model`, `handle_models` | configuration, model cache | two views of the same names, which must agree |
| Device accounts, `crates/xrouter-auth/src/lib.rs` | account list, round-robin cursor, store file | `next_account`, `refresh_if_needed`, `add_account`, `save`, logins | requests, reload, cache warmer, wizard, cli | one lock held over calls to the identity provider, tokens refreshed outside it too; several processes write one file |
| Tracker, `track.rs` | a buffer and a file | `record`, `flush`, `read_all` | requests, admin | two flushers and a reader; a crash with entries in memory |
| Model cache, `crates/xrouter-providers/src/cache.rs` | models and their time per provider, snapshot file | `insert`, `get`, `save_snapshot`, `load_snapshot` | resolution, admin | freshness over a restart; concurrent savers |
| Provider adapters, `crates/xrouter-providers/src/lib.rs` | none | one HTTP exchange | request routing | I/O |
| Metrics, `metrics.rs` | counters | increments | admin | nothing |
| Wizard, `crates/xrouter-wizard` | pending logins, configuration, store | login, poll, callback, save | auth, configuration | polls and callbacks that overlap or repeat |
| Command line, `crates/xrouter-cli` | none of its own | edits, `serve` | configuration | read, prompt, save |
| Embedding, `xrouter-ffi` | runtime, state, shutdown channel, flags | start, stop, restart, update, queries | server | calls of several threads over statics; restart before the old task has ended |

How a request runs: `route_openai_request` takes the current configuration, resolves the model, asks
`candidates_ordered` for the order (which reads, and so advances, the health of every entry), and for each
candidate takes a key from the ring, claims a probe if the endpoint is half-open, sends, and tells the
registry and the quarantine what came back. A streamed answer of the other protocol passes through a
`StreamTranslator`. Reloads replace configuration and rings under requests that are under way.

What makes each part correct:

- health: three failures in a row open an endpoint's breaker whatever calls overlap; only a success closes
  it; an idle endpoint recovers; the counters describe the records;
- keys: no unusable key is handed out, no request is refused while a key is usable, no usable key starves;
- order: every entry is a candidate once, better health goes first, then weight, then the default;
- routing: a request fails only if nothing it could try works; failures harm only what failed; every request
  is answered;
- streams: what the client receives is a well-formed message of its protocol, with one end;
- reload: a request under way keeps keys to use whatever is reloaded; every change of the file takes effect,
  and nothing older replaces it;
- weighted picks: in a round each endpoint is picked as often as its weights say, whatever its health does;
- names: what the list of models offers resolves, and to the model it names;
- device accounts: nothing but a new grant gives a user more turns, a lock held over a remote call is given up
  again, no account starves;
- logins: a login that can still succeed can be tried again; a saver that has the file to itself loses
  nobody's account; a page posted late does not undo a login; one program's file is readable to the others;
- tracker and model cache: a request counts once, a saved provider is found again, through failing writes and
  crashes;
- embedding: the flag is up only with a bound port, a stopped server ends, an acknowledged update lasts.

## 2. Modules

| Module | What it is | Code |
|---|---|---|
| `EndpointHealth` | the record of one endpoint, and what each operation does to it under its lock | balancer `lib.rs` 39-55, 100-185, 232-247 |
| `HealthRegistry` | threads calling the registry, one step per lock or atomic access | balancer `lib.rs` 57-254 |
| `Breaker` | the abstract specification: one circuit breaker per endpoint; `HealthRegistry` implements it lock by lock, and `Router` endpoint by endpoint (`BreakerEach`). It is the breaker of the code: that of `plan/04-load-balancing.md` 36-40 also opens on two failures within 5 s | balancer `lib.rs` 100-185 |
| `KeyRings` | `next_key` step by step, against rejections, bans and reloads | balancer `lib.rs` 187-192, 262-339 |
| `Sorting` | a finite set in the order of a relation, each element at the place that the number of those before it gives: what the code's stable sorts and filters of lists come to | balancer `lib.rs` 350-381 |
| `Candidates` | `candidates_ordered` and `pick_weighted` as operators; uses `Sorting` | balancer `lib.rs` 347-419 |
| `CandidateOrder` | their promises, over all small tiers, with health changing and tiers cut between picks | |
| `Router` | concurrent requests, composed of `EndpointHealth`, `Candidates` and an atomic form of `KeyRings` | server `lib.rs` 735-1141, 1512-1801 |
| `StreamTranslator` | a stream of an OpenAI upstream to an Anthropic client, the reverse, and a Chat Completions stream to a client of the Responses API | server `lib.rs` 1197-1423, `translate.rs` 252-499 |
| `ConfigReload` | savers, the file watcher, `/admin/reload` and `create_tier`, one step per file, ring or store | config `watch.rs`, `lib.rs` 160-206, server `lib.rs` 66-110, 174-189, 514-591, cli `main.rs` 214-230 |
| `DeviceStore` | an account, the list of accounts, turns and replacement | auth `lib.rs` |
| `DeviceAccounts` | requests, the cache warmer and reloads over the store in memory; extends `DeviceStore` | server `lib.rs` 853-905, 1024-1060 and `refresh_model_cache`, auth `lib.rs` |
| `Logins` | wizard threads, CLI processes and a server over `device-store.json` and `config.toml`; extends `DeviceStore` | wizard and cli `main.rs`, auth `lib.rs` |
| `Catalog` | `resolve_model` and `handle_models` as operators | `resolve.rs`, server `lib.rs` 276-335 |
| `ModelCache` | the cache, its refreshes and its snapshot; extends `Catalog` | providers `cache.rs`, server `lib.rs` |
| `Tracker` | the request log: buffer, two writers, file, readers | `track.rs` |
| `ServerFiles` | `ModelCache` and `Tracker` in one process that may end between any two steps | |
| `Embedding` | the library's statics, the calls of several threads, the servers' tasks | `xrouter-ffi/src` |
| `HealthRegistryProofs`, `KeyRingsProofs`, `ConfigReloadProofs`, `EmbeddingProofs`, `ServerFilesProofs` | theorems about the module they are named for | |
| `SortingProofs` | what a sorted list is; used by the two below | |
| `RequestPathProofs` | theorems about the way of a request: `CandidateOrder`, `Router` and `StreamTranslator` | |
| `DeviceLoginsProofs` | theorems about `DeviceAccounts` and `Logins` | |
| `MC...` | the constants of the runs | |

Correspondence, where it is not one name for one name:

- **Time.** `until` becomes `left`, the ticks that remain; a window or a ban has expired exactly when `left`
  is 0, and `Tick` passes time. The random jitter of a window is the set `Jittered`.
- **Failure count.** It saturates at `FailureCap`. The code reads it through `>= 3` and `min(f - 3, 4)`, so
  a cap of 7 would lose nothing; the run's 3 leaves out the longer backoffs, whose lengths no property reads.
- **Locks.** A DashMap entry is a lock of its own, an atomic counter is not under it. What happens under one
  guard is one action; a counter that is touched after `drop` is another. `mark_failure` still holds its guard
  when it counts, so there it is one action. `next_key` holds the guard of the ring all through, which is why
  `UpdateKeys` waits for it.
- **`health_state`, `is_healthy`, `snapshot_states`, `maybe_half_open`** change the record in one way,
  `AfterRead`. `is_half_open` changes nothing.
- **Sums of weights** in `pick_weighted` are counted: `Units` gives an entry as many units as it weighs, and
  `WeightOf` is how many units some entries have, so that a tier may have any length.
- **Degradation.** `HealthRegistry` has the counters. As they drift (section 5), `Router` and
  `CandidateOrder` allow either verdict for every endpoint; an empty verdict is also what a tier that is
  not `strict` gets.
- **A request** in `Router` moves through `count` (it waits for the lock of the device store, to count accounts
  for the cap on attempts), `pick` (the head of the loop), `claim` (between `is_half_open` and
  `mark_probing`), `wait` (the attempt) and `answered`. The exits of the loop body are the actions
  `SkipDisabled`, `SkipKeyless`, `Succeed`, `Fail`, `RejectKey`, `Quota`, `Other`; each writes what that exit
  writes. `off` is what is disabled in the configuration the request loaded, while rings and health are live.
  The branch for device providers is `DeviceAccounts`. It shares the health registry with this one, and the
  lock of the store: in `Router` the lock comes at some time or never (`CountAccounts`), in `DeviceAccounts` it
  is held by those who refresh under it.
- **Upstreams.** `sound` is the set of endpoint and key pairs that always answer 2xx. It is a constant of a
  behaviour, so that "would have served it" means something; every other pair may answer anything, 2xx too.
- **An SSE line** in `StreamTranslator` is what it says (a chunk with or without text, a piece of a tool call
  and a finish reason; an Anthropic event; tokens used), an event sent is its type and the block or tool it is
  for. `source` keeps the upstream to its own protocol, except that it may break off anywhere and, an OpenAI
  one, may send a tool's arguments before its name (`named` remembers whether it has). For a client of
  the Responses API a piece of text is the number of the line it came with, so that order and loss show.
- **A configuration** in `ConfigReload` is what a reload passes on: the keys of each provider (none stands
  for disabled or without keys, which the code treats alike), whether a device-login provider exists, and the
  tiers. `Edit` is any saver outside the server (wizard, CLI, editor); writing the temporary file and renaming
  it are two steps, because all savers share its name. The 200 ms of the debounce are the delay between
  `Receive` and `TimerFires`. `ReadFile` lets a load of the file be an event of its own: notify reports
  opens on some platforms and the watcher takes every event of `config.toml`, so there each load
  schedules another. `disturbed` is a history variable of the properties.
- **A device account** has the n-th *grant* of its user in place of its tokens. `due` is the last grant whose
  tokens need a refresh, so `Expire` makes a generation of them due. The identity of a user whose name no
  userinfo call or token gives (`Nameless`) changes with the token, as `derive_identity` then makes it of the
  token's hash. A store that a reload replaced lives on while a request holds it, so `accounts`, `cursor` and
  `holder` are kept for each store there has been. `refresh_if_needed` is `Refreshed`: no grant, a grant that
  arrives, a grant that is lost on the way. An account that was refreshed outside the lock is put back in two
  steps, `FindStore` and `Restore`, as the store may be replaced before its lock comes.
- **A login** in `Logins` is a `Flow`: `new`, `begun` (a device code or a consent URL is out), `approved` in
  the browser, `used`. What a login or a logout does to a list of accounts is `Edited`, what it does to
  `config.toml` is `Entered` or `Left`; the steps between are the loads, writes and renames of the code. A page
  that is posted is merged with the file in one step (`PostConfig`) and saved in another (`SavePosted`). The
  expiry of an account in `config.toml` is `blank` (the wizard's `""`) or `none`: this is what the two schemas
  differ in.
- **A model id** in `Catalog` is what its slashes separate and whether it ends in `:free`; `known` is the
  cache. `ModelCache` adds the two steps of a save, through a temporary file that all savers share.
  `overlapped` is history: two saves were under way at once.
- **Entries** in `Tracker` are numbered as they are recorded; `lost` collects what a failed write or a crash
  drops, so that "kept nowhere" can be told from "known to be lost". `torn` says behind how many whole frames a
  torn one lies; what `read_all` makes of the bytes behind it is `ReadBack`: any of the frames there, in order.
- **A start** in `Embedding` is one call of `start_server` with its task. The task looks at its end of the
  channel only once it serves, so `resolved` outlives what the threads do. `promised` and `alone` are history:
  an update is alone if no other thread has a start or an update under way while it lasts.
  `GLOBAL_STATE`, `SHUTDOWN_TX` and `SERVER_LISTENING` are each touched in a step of their own.

## 3. Runs

| Run | Question | Distinct states | Result |
|---|---|---|---|
| `health` | Under every interleaving of two threads on two endpoints, do the records behave as circuit breakers, the total cover the endpoints, and endpoints recover? | 691,017 | holds |
| `keyrings` | Does key rotation survive concurrent attempts, rejections, bans and reloads? | 572,093 | holds |
| `candidates` | Is the order right for every tier of up to three entries and every health of its endpoints, and are weighted picks fair? | 192,576 | holds |
| `router` | Do two concurrent requests over two providers that share a key fail only when nothing works, harm only what failed, move each endpoint's record as a circuit breaker moves, and end if the device store's lock comes? | 202,829 | holds |
| `key_retries` | Is a candidate retried with each of its keys? | | violated |
| `stream` | Is every translated stream of up to five lines framed and numbered well, and nested if its tools are named in time? | 913,327 | holds |
| `reload` | With two savers, an admin call, the watcher and a request, does a request keep keys to use and does every change of the file take effect? | 316,610 | holds |
| `device_accounts` | While accounts expire, are refreshed in and outside the lock, and stores are replaced: do only grants add to the list, does every request get through, does no account starve? | 549,215 | holds |
| `logins` | Can a login be tried again, does a lone saver keep everybody's account, does a late page keep the logins made before it is posted? | 1,493,927 | holds |
| `wizard_schema` | Can the server and the CLI read what the wizard saves? | | violated |
| `server_files` | Does every offered model of a configured provider resolve, does a request count once, does the snapshot keep every provider, with failing writes, torn frames, overlapping saves and crashes? | 3,637,692 | holds |
| `embedding` | Whatever two threads of an app call, is the flag up only with a server, does an update last, does a stopped server end? | 2,907,343 | holds |

**Bounds.** Two threads are enough for every race of two calls; a third adds no new pair of overlapping
steps, only more of the same. Two endpoints of one provider share counters, which is what the registry's
properties relate. `MaxTotal` and `MaxCooling` stop calls from *starting* once a counter has run away: the
drift itself makes counters unbounded. A ring of three keys that a reload replaces by one of two reaches the
wrap of the cursor, the shrink of the ring and a walk over a dead and a banned key; `MaxBans` and `MaxDead`
leave at least one key of three usable at times and none at others. `CandidateOrder` has three endpoints and
the weights 0, 1 and 2: equal, different and no weight, an endpoint twice in a tier, a default past its end.
`Router` starts from the healths that earlier outages leave (`Histories`: two failures already counted, or
cooling), so that one more failure trips a breaker and expired windows become half-open within two requests.
`MCWorlds` has a world in which only the first endpoint works, with either key, and one in which only the
second does. Five lines (`MaxLines`) are enough for text, a tool, text, another tool and a finish in one
stream. In `ConfigReload` two configurations differ in everything (one leaves a provider without keys, one
needs the device store), two saves let a good file follow one that does not parse and let two savers meet at
the temporary file, and one admin call meets the watcher; the events are not bounded.

`DeviceAccounts` has one request and the warmer, who meet at the lock, at the account and at the put-back; a
route that names one provider twice, so that a request goes on after a rejection; a user with a name and one
without; two grants each, so that a refresh, a lost refresh and a new identity happen; one reload, so that an
account of an old store comes back into a new one. `Logins` has two threads (interchangeable, hence
`SYMMETRY`; no liveness is checked there) and the server, one flow with a device code and one with a consent
URL, an account of somebody else from before, and one command or page besides (`MaxCalls`): the shortest
histories of two savers, of a poll that fails and is repeated, and of a page held open over a login.
`ServerFiles` has two refreshes, two answers of providers, two records that fill the buffer, one recorder
against the flushing task, and one reader; restarts are not bounded. Its configurations hold the names that
collide: a provider called like the first part of another's model, a tier called like a model, a model with
and without its free marker, an entry of a provider that is not configured. `Embedding` has two threads, two
starts, two ports, one update and one file besides the default: a restart that overlaps the old task, a
replaced sender, a stop before the bind, an update that meets either. Five lines in `stream` also hold a tool
whose name comes late, text behind it, and a finish.

**Deadlock** is checked, except in `router` and `key_retries` (the bound on arrivals, and a world in which
all is done, stop it), in `stream` (a stream ends) and in `embedding` (the bound on starts stops it).

**Fairness.** In `HealthRegistry` and `KeyRings` a thread that is inside a call runs on (no call waits for
another beyond a short lock), time passes, and an attempt is answered or times out (the 15 s timeout around
`adapter.send`). `SelfHealing` also needs reads of each endpoint to keep coming: that is strong fairness of
`ReadHealth`, which `snapshot_states` provides while requests arrive. `NoKeyStarves` states its need for calls,
and the absence of reloads, in the formula. In `Router` each request runs on and each attempt ends; nothing is
assumed of when upstreams work, and none is assumed to be sound. That the lock of the device store comes is a
hypothesis of `EveryRequestAnswered` (`LockComes`), not fairness: it may be held in a call to an identity
provider that never returns. In `ConfigReload` the watcher's task runs on, and so does a save or a handler once
it has begun; none of them waits for another, and nothing is assumed of when edits, calls and requests come. In
`DeviceAccounts` the lock goes to its waiters in turn (tokio's mutex is fair), which is strong fairness of a
step that needs it, and an upstream answers within its 15 s; the calls to the identity provider have no timeout,
so nothing is assumed of them and `EveryRequestGetsThrough` has `ProviderAnswers` as its hypothesis. In
`Embedding` the runtime runs a task that is past its bind; of the app's threads nothing is assumed, and nothing
of the warm-up before the bind, which waits for such calls too: `StoppedForGood` has `WarmUpsEnd` as its
hypothesis. `Logins`, `ServerFiles`, `StreamTranslator` and `CandidateOrder` state no fairness: their properties
are invariants and properties of steps.

### What the violated runs show

1. `key_retries`: `max_attempts` allows one attempt per candidate and key ("allow retrying each candidate
   entry once per available key"), but the loop walks each candidate once. A directly addressed model is
   refused after one rejected key although its other key works.
2. `wizard_schema`: the wizard's types "mirror" the server's, but it writes accounts with an `expires_at` of
   `""`, which it reads back as any value and the server and the CLI refuse as a time. A login through the
   wizard leaves a `config.toml` that neither can read; a command of the CLI then starts from the defaults and
   its save replaces the file by them.

The passing runs do not assume either away: `FailsOnlyIfNothingWorks` speaks of endpoints that work with
every key of their provider, and `Logins` has the unreadable file as a state in all its runs.

## 4. Proofs

All theorems are about the specifications the runs check, for every value of the constants under the modules'
`ASSUME`s, which TLC evaluates in the runs.

`HealthRegistryProofs` (any finite set of endpoints, any providers and threads, any windows;
`WindowsAssumption`, `RegistryAssumption`):

- `TypeCorrect`: `Spec => []TypeOK`. The one step that needs thought is the checked decrement.
- `ThreeStrikesAlways`: `Spec => []ThreeStrikes`. Inductive with `TypeOK`: a record turns healthy only by
  `AfterSuccess`, with a count of 0, and a failure below the threshold leaves it below.
- `ImplementsBreaker`: `Spec => BreakerSpec`, the refinement; `Breaker` is what the code does, without the
  plan's trigger of two failures within 5 s (section 5). The mapping forgets counters, calls and
  lengths: a breaker is `closed`, `open` or `halfopen` as the record is, its strikes are the failures up to
  the threshold, and it is `due` when the window is over. A step that stores one record is shown to be one
  action of `Breaker` (`StoreIsSet`, `FailureRefines`, `TickRefines`), every other step a stutter.
- `TotalCoversKnownAlways`: `Spec => []TotalCoversKnown`. It is not inductive: between its count and its
  insertion an endpoint is paid for but not known. The strengthening `TotalCoversPaid` bounds the
  endpoints that are known *or* that a call under way has counted; a call adds to that set only in the step
  that increments the total.

`KeyRingsProofs` (any providers, keys, attempts, bans and sets of non-empty rings; `KeyRingsAssumption`):

- `KeyRingsTyped`: `Spec => []TypeOK`, with it that a cursor points into its ring whoever stores it last.
- `ReturnsUsableKeyAlways`: `Spec => []ReturnsUsableKey`.
- `NoneOnlyIfUnusableAlways`: `Spec => NoneOnlyIfUnusable`.

The argument follows one scan. `ScanMove` lists what a step of anyone can do to it, and `NextMoves` shows that
there is nothing else; a reload cannot change the ring because it waits for the call. The invariant `IInv`
adds to the types that a scan keeps within one turn (`WithinTurn`), that its history covers the present
(`SeesPresent`, which every step restores by itself), that a candidate past a check was seen to pass it
(`CandidateSeen`), and that no key passed over was usable all the time (`PassedUnusable`); `TurnReachesAll`
shows that a whole turn misses no slot of the ring.

`ConfigReloadProofs` (any providers, keys, configurations, savers, admin handlers and requests):

- `ReloadTyped`: `Spec => []TypeOK`.
- `InFlightKeepsKeysAlways`: `Spec => []InFlightKeepsKeys`. Not inductive, as a configuration is safe to
  publish because of what its handler has done before. `Prepared` says it for every configuration on its way:
  a loader has filled the rings it has ticked off, a tier's creation carries a configuration whose rings are
  filled already, and so do the published one and those of requests. `RingsStayFilled` is why this lasts: a
  ring that is filled is replaced but never emptied.
- `CurrentWhenQuietAlways`: `Spec => []CurrentWhenQuiet`. The invariant `Heeded` follows a change of the file:
  unless an admin handler was at work since, it is in the channel, or in the timer, or in the hands of the
  watcher, whose rings so far are those of the file, or the server works with it (`OnItsWay`). An editor that
  has begun to rename cannot do harm, as the rename is itself the change that is heard of.

`EmbeddingProofs` (any threads, starts, ports, files and configurations):

- `EmbeddingTyped`: `Spec => []TypeOK`, which is proved only: the run is for the properties that the order of
  calls and tasks decides.
- `FlagMeansBoundAlways`: `Spec => []FlagMeansBound`. The danger is a start whose task would be begun anew,
  back before its bind with the flag up. The invariant says that starts are taken in order, that a thread
  about to spawn one is alone with it, and that it has not run (`SpawnsFine`, `Starts`).
- `UpdatesLastAlways`: `Spec => []UpdatesLast`. It is about what threads still have in their hands (`Promise`):
  an update is alone as long as nobody else does more than look at the app state or stop the server (`Looks`),
  and what it saved is then what it will reload; while it lasts, through any starts, stops and looks that
  overlap, every call under way can only bring its configuration into an app state (`Harmless`).

`ServerFilesProofs` (any recorders, readers, buffer size; any refreshes, lists and configurations; any number
of restarts, as the process may end at any step):

- `CountedOnceAlways`: `Spec => []CountedOnce`. An entry is in one place (`OnePlace`), and what a reader has
  of the file is still in the file when it comes to the buffer (`Reads`), so that it cannot meet it there; what
  it reads behind a torn frame has no entry twice either (`ReadBackDistinct`). It may miss entries there.
- `SnapshotKeepsAllAlways`: `Spec => SnapshotKeepsAll`. The map in memory covers the snapshot, also just after
  a start, and a lone saver's map covers it up to its rename, as nobody else can have put another snapshot or
  another temporary file in between.
- `ListedResolveAlways`: `Spec => []ListedResolve`, for entries of configured providers. The proof takes the two
  views of the names apart: an address is taken as its own pair unless a tier has the name, and an alias is
  listed only where one pair answers to it. Of the state it needs that every map in memory, in a hand or in a
  file lists model ids.

`SortingProofs`: `SortedElements` says that a set sorted by a strict total order has each element once and in
that order. There is no induction in it: an element's place is one more than the number of those before it, so
places are different and no greater than the number of elements, and a set of places as large as the set of
elements has none left (`PlacesAscend`, `EveryPlaceTaken`). `HasGreatest` and `AscendingGrows` follow from it:
what one more element does to a list that is kept in order.

`RequestPathProofs` has three parts.

The order (any endpoints, and tiers of any length and weights):

- `AllByHealthAlways`, `DefaultThenCyclicAlways`: `OrderSpec => []AllByHealth` and `[]DefaultThenCyclic`. Each
  list the code builds is described by the set it lists and by what comes before what (`Lists`, `Leads`): one
  lemma for a filter, for the rotation, for the sort and for putting one list behind another
  (`AscendingLists`, `RotatedLists`, `HeaviestFirstLists`, `ConcatLists`), and `OrderedLists` for the whole.
- `RoundIsFairAlways`: `OrderSpec => []RoundIsFair`. Only the end of a round shows that it was fair; the
  invariant (`RoundInv`, `Balanced`) says of every pick before that an endpoint's current weight is what it
  gained less what it paid, and that none owes a whole total. The second part needs that the endpoint picked
  is ahead, and it is because somebody is (`SomeoneAhead`): otherwise the picks of the round would have paid
  more than all entries gained. Sums over a set are compared by fitting the units of one into those of the
  other, label by label (`LabelsCount`), again without induction. What was kept of a tier that has since been
  cut is of another length and is thrown away at the next pick.

The router (any requests, endpoints, keys, tiers, worlds and earlier outages; `WindowsAssumption`,
`RouterAssumption`):

- `RequestsOnCandidates`: `Spec => []TypeOK`: a request in its loop is on a candidate, and holds a key of that
  candidate's provider.
- `RefusedOnlyIfNothingWorks`: `Spec => []FailsOnlyIfNothingWorks`. The invariant `RouterInv` says why a
  candidate behind a request would not have served it, and why that lasts (`Barred`): the request's copy of the
  configuration does not change, and a key that was unusable once does not count as spared again. All the
  candidates are in its route, cooling ones too (`OrderedLists`), and the cap on attempts, candidates times
  keys, is too high to end the loop before the last of them.
- `NoCollateralAlways`: `Spec => NoCollateral`, step by step: an exit of the loop that harms an endpoint or a
  key is one after an answer that a sound pair does not give.
- `BreakerEachAlways`: `Spec => BreakerEach`. Seen from one endpoint (`OneBreaker(e)`), whatever requests do in
  between, each step of its record is a step of `Breaker` or a stutter. The exits of the loop write no record, or
  that of their own candidate by one operation of `EndpointHealth` (`RecordsMove`), and each operation is one
  action of the breaker (`MovedIsBreaker`): a read half-opens a breaker that is due (`ReadOnArrival`), a failure
  trips a closed one at the third strike and reopens a half-open one (`FailureStrikes`), and a claim parks a
  record only as long as it is half-open, whatever the request saw when it decided to claim. With
  `ImplementsBreaker`, the registry taken lock by lock and the requests that use it keep the same promise.
- `FreshEndpointImplements`: an endpoint without a history implements `Breaker` from its initial state on;
  others start in the middle of one, where outages before have left them.
- `EveryStepNearsAlways`: `Spec => EveryStepNears`. Every step of a request on its way lowers `StepsLeft`, a
  natural number (three for each candidate it has not left, and two), and the steps of others leave the
  request where it is. The number stays one because `RouterInv` keeps the request among its candidates. So the
  loop cannot go round for ever, whatever keys die, bans expire or breakers trip meanwhile; of
  `EveryRequestAnswered` only the fairness that makes a request run on, and its hypothesis, are left to TLC.

The streams (any tools, blocks and lines):

- `StreamTyped`, `MessageFramedAlways`, `BlocksNestAlways`, `ArgumentsFollowAlways`, `ResponseCompletesAlways`:
  the five invariants of the run. The properties speak of all that was sent; the invariant (`StreamInv`) sums it
  up in what a translator's state must tell of it, so that each event is judged when it is appended: the
  numbers used so far (`Counts`), the blocks that are open (`Opened`, `Nested`), the tool sent last (`Trail`),
  the text so far (`Text`). Before its end a stream is `Streaming`, `Relaying` or `Answering`, and `Ended` or
  `Answered` after it, where only what may follow an end is still sent. `BlocksNest` is about streams that name
  a tool before they send its arguments, and its last part about ends that `message_delta` tells of; what
  `MessageFramed` says of broken-off and of empty streams is what the code does, not what the plan asks for
  (section 5).

`DeviceLoginsProofs` (any users, requests, routes, grants and reloads; any logins, threads, accounts, keys and
calls):

- `OneShareEachAlways`: `AccountsSpec => []OneShareEach`. `AddAccount` replaces the account with its key, so the
  danger is an account that is put back under a key which the store has under another: what anyone carries, and
  every account in any store, is therefore shown to have the identity that its own grant gives (`Derived`).
  Then two accounts of one user with one grant have one key, and a named user has one key whatever the grant.
- `AccountsTyped`: `AccountsSpec => []AccountsTypeOK`. What an actor carries depends on the step it is at
  (`InMemory`), and a lock is held by exactly the actor that says so, of a store that it still has.
- `PollsCanBeRetriedAlways`: `Spec => PollsCanBeRetried`. Only a granted poll takes a device code off the
  pending ones, and it is the one that was granted.
- `PostKeepsDevicesAlways`: `Spec => PostKeepsDevices`. What is carried over when a page is merged is remembered
  with the file it was merged with (`CarriedKeeps`), a merged page in a thread's hand is left only by its own
  save (`NextSteps` goes through what anyone may do), and every configuration in a hand and in the file is a
  whole record (`Whole`).
- `LoginsTypedAlways`: `Spec => []TypeOK`, in three parts: what the identity providers remember, what is in the
  files, and what each caller has in its hands (`AtProvider`, `OnFile`, `InHand`). A list on its way into the
  store has every key once, also when two savers write through one temporary file.
- `LoneSaverKeepsAllAlways`: `Spec => LoneSaverKeepsAll`. A list in a hand is the one it was made of, less what
  was logged out (`Missing`); the lone saver's temporary file holds that list, made of the file it replaces.

**Model-checked only.** The liveness properties `SelfHealing`, `NoKeyStarves`, `EveryRequestAnswered`,
`EditsTakeEffect`, `EveryRequestGetsThrough`, `NoAccountStarves` and `StoppedForGood`: they rest on fairness,
and so on `ENABLED`, which the prover cannot express. Of `EveryRequestAnswered` the part that does not, the
variant, is proved (`EveryStepNearsAlways`). Every invariant and every action property that a passing
run checks is stated by a theorem. The modules declare no `RECURSIVE` operator, and no proof uses an induction
theorem: the provers cannot instantiate one, and counting takes its place where lists are built.

## 5. Behaviours the models have, and no property forbids

The models follow the code where it falls short of what one may expect; the properties are stated so as to
hold in spite of these. Each is listed under the run whose behaviours include it.

- `health`, `router`: the plan (`plan/04-load-balancing.md` 37) opens a breaker on "3 consecutive OR 2 in 5s".
  `mark_failure` keeps no time of a failure, so two within 5 s do not open one; `Breaker` is without the second
  trigger, and `BreakerSpec` and `BreakerEach` say nothing of it.
- `health`: the cooling counter is adjusted after the record is released. A decrement that overtakes its
  increment finds 0 and is dropped, so the counter keeps one too many for ever, and a provider may count as
  degraded with none of its endpoints cooling.
- `keyrings`: `is_key_banned` removes an expired ban after it has dropped the guard it saw it under; a ban
  renewed in between is lost, and the key is used again at once.
- `router`: two requests see half-open before either claims the probe; `mark_probing` does nothing for the
  second, which is sent all the same. A key that one provider rejects is dead for every provider that lists the
  same text. Every request, also one whose candidates all have API keys, waits for the lock of the device store,
  which another may hold in a call to an identity provider that has no time limit (auth `lib.rs` 303).
- `reload`: `create_tier` publishes the configuration it cloned after an edit has been saved and loaded by the
  watcher, and so does a slow `/admin/reload`; nothing is left to correct it. `CurrentWhenQuiet` and
  `EditsTakeEffect` therefore except what an admin handler at work since the last change may have done.
- `stream`: `[DONE]` is answered without a look at `finished`, so the usual end, a finish reason and then
  `[DONE]`, sends `message_stop` twice. A Responses stream whose last line has no newline loses that line's
  text; one that ends before its first bytes is completed without having been created. A stream that breaks off
  ends with an ordinary `message_stop`, where the plan has an error event (`plan/04-load-balancing.md` 58,
  `plan/08-resilience.md` 17 and 30); an empty one, or one with `[DONE]` alone, gets a `message_stop`
  without a `message_start`. With `[DONE]`, or a break-off, but no finish reason, blocks stay open. The arguments
  of a tool that has no name or id yet are sent before its block starts, and if none comes the block is neither
  started nor stopped.
- `device_accounts`: the copy refreshed under the lock goes with the request and is not put back, so the
  store, and the file saved right after, keep the old token; a refresh outside the lock that comes late
  replaces a newer token. An account whose identity is made of its token (no userinfo answer, no claim in the
  token) gets another with each new token and is appended beside the old one, contrary to the comment of
  `derive_identity` ("updates tokens instead of duplicating"); the copies take turns, with dead tokens too.
- `logins`: a save over an older copy, or through another saver's temporary file, drops accounts; the wizard
  ignores that its save of `config.toml` failed, and answers that the login is done. A login that saves between
  the read (`main.rs` 415) and the save (427) of a posted page is wiped, contrary to the comment there ("so a UI
  save cannot wipe providers that were added by device login"), and so is a second account of a provider that
  the page knows.
- `server_files`: the list offers `provider/model` for an entry of a tier whose provider is not configured,
  which does not resolve (`ListedResolve` excepts exactly these). The free marker is taken off a name but
  never added. A bare id `cohere/x` of one provider goes to a provider called `cohere`, where it is taken as
  the model `x`, if that is configured. Two saves that overlap may drop a provider from the snapshot. A
  server that ends, also on request, leaves the buffer of the tracker unwritten; frames of two writers may be
  out of order; a reader misses the entries on their way between buffer and file. A write that fails in the
  middle of a frame, or a process that ends there, leaves a torn frame, and readers may miss every entry written
  behind it, for good.
- `embedding`: a stop that finds a reader at the app state leaves the state; the end of a replaced task takes
  down the flag of the server that runs; a task whose warm-up hangs is not ended by a stop, as it looks at its
  channel only after the bind; an update beside which a start is under way may be lost although it was answered
  with success, when the start stores what it had read before; a default file that is cut short as it is
  written stays; `updateConfig` saves to the file `xrouter_init` was given but reloads
  `xrouter.toml` beside it, so `UpdatesLast` is about apps that name no file.

## 6. What is not modelled

- Requests that are answered before routing (no token, no model field, an unknown model) change nothing but
  metrics and the tracker, so `Router` leaves them out; the pause after a 429 and the jitter before a retry
  only delay.
- Whole-body translation (`translate.rs` 1-245, 500-620): stateless rewriting of JSON documents. What can be
  wrong in it is a field, and fields are what the models abstract.
- `SseLineBuffer`: the bytes of a line are put together from chunks, and a character whose bytes are split
  over two chunks is replaced. Lines are the unit of `StreamTranslator`.
- Provider adapters and the calls to identity providers beyond their outcomes: I/O.
- Parsing of the configuration and the built-in defaults, except where two programs read one file
  differently; metrics, logging, tables, pages and read-only views, the age of lists in the model cache
  (`save_snapshot` stamps all of them with the time of the save), and the library's last error and the host and
  port of its last start (`SERVER_INFO`), which are only told to the app: nothing in the program acts on them.
- Values of a configuration or an answer that break the program's own assumptions: a provider's name with a
  slash, which no address then reaches; several spellings of the free marker on one name, of which one is taken
  off; a `Retry-After` too large to be added to an `Instant`, which panics; a provider typed at the CLI in
  another spelling than its accounts have.
- The CLI's prompts and the wizard's HTTP server, apart from what they do to the two files.

## 7. What is left to do

The seven steps of the plan this project was built along (health, keys and order; routing; streams; reload;
device accounts and logins; tracker, cache and resolution; embedding), and a theorem for each invariant and
action property that the runs check, are done. What could be added:

1. `SseLineBuffer` over a small alphabet of bytes, composed with `StreamTranslator`.
2. Device providers in `Router` itself, so that the two kinds of candidates meet in one tier and share the
   health registry with the lock of the store.
