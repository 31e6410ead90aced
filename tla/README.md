# Verification of the read-only storage sync subsystem

These are TLA+ models, TLC runs and TLAPS proofs for the read-only storage
subsystem of CLIProxyAPI (`src/`, described in `spec.md`).

## The system and its parts

| Part | Source | Role |
|---|---|---|
| Sync Scheduler `GitScheduler` | `src/unnamed/part_003` | Start / Stop / UpdateConfig under `s.mu`. There is one `run` goroutine per Start. Each has a helper goroutine that cancels a context when the stop channel closes. `sync` and `pullChanges` fetch and hard-reset the working copy. |
| Management control plane | `src/unnamed/part_004` 240-595 | `PutStorageReadOnly` / `PutStorageSyncInterval` take the handler mutex `h.mu` and call `UpdateConfig` on the scheduler. They then persist the main config and the side file `data/read_only_storage.json` after the unlock. Enabling read-only is gated on `HasPendingLocalChanges()`. |
| Brute-force guard | `src/unnamed/part_004` 105-237 | Per-IP failure counters and bans under `attemptsMu`. |
| Config State | `src/changes/read-only-storage-summary.md` 137-167 | Atomic `readOnlyStorage` and `syncIntervalMinutes` with their getters and setters. |
| Side file and watcher | `src/ARCHITECTURE.md` 205-355 | `LoadReadOnlyStorageConfig`, `StartReadOnlyStorageWatcher` and `PersistReadOnlyState` of package config. |
| Repository collaborator | not under `src/` | `GitTokenStore`: local writes, commit and push, and `HasPendingLocalChanges`. It is modelled from the spec. |
| Store scheduler | `src/internal/store/scheduler.go` | The scheduler of package `store`. It handles the stop channel as `part_003` does (Stop closes it without replacing it, Start replaces it only when running). It differs elsewhere: Start checks the read-only flag itself, the run loop waits for the timer before each sync, Pull is not forced, and there is no completion callback. It is modelled on its own in `StoreScheduler`. |
| Older handler | `src/unnamed/part_005` | An older copy of the handler, the one that drove the `store` scheduler. It is not modelled, except that its `updateStorageReadOnly` (358-364) is the writer of the flag in `StoreScheduler`. |
| Documentation and tests | `part_000-002`, `DEV.md`, `config_test.go` | These parts have no state changes. |

How the parts interact:
- The control plane sets Config State and calls `UpdateConfig` while holding `h.mu`.
- The watcher sets Config State on its own and never calls the scheduler.
- Each scheduler loop re-reads `s.running` under `s.mu` and the read-only flag on every iteration.
- A successful sync hard-resets the working copy, which throws away local changes that were not pushed.

## Modules

### `GitScheduler` (core)

State:
- `running` is `s.running`.
- `stopCh` is the generation number of `s.stopCh`, and `closed` is the set of generations already closed. Numbering the channels makes two bugs visible: closing a closed channel, and a loop started on a closed channel.
- `wedged` means a goroutine panicked while holding `s.mu`. In Go, `close` of a closed channel panics. Neither Start nor Stop unlocks with `defer`, so after that panic the mutex stays locked for ever. gin's recovery keeps the process alive.
- `cfgSet` and `hasStore` are the two nil checks of Start. `cfgRO` is the shared read-only flag.
- `loops[l]` records the channel, the program point and the cancelled context of loop goroutine `l`.
- `cpc`, `myCall` and `calls` track the callers. A caller's `"spawn"` point is the window between `s.mu.Unlock()` and `go s.run(s.stopCh)` (line 74), which reads `s.stopCh` again.
- `pending` and `discarded` describe the working copy: whether local changes exist, and whether a hard reset has thrown some away.

Actions:
- **Caller actions:**
  - `Start` and `Stop` model lines 45-95. `StartLocked` and `StopLocked` are their critical sections, and `Panic` is the double-close path.
  - `Spawn` is line 74.
  - `UpdateConfig` models lines 267-283. `UpdateConfigStart` and `UpdateConfigStop` model lines 285-292.
- **Loop actions:**
  - `CancelCtx` is the cancel goroutine (lines 105-108).
  - `LoopRead` models lines 112-120, and `LoopCheck` is line 123.
  - `SyncBegin` is the re-check of line 170.
  - `PullSucceeds` and `PullFails` model `sync` and `pullChanges`. The steps inside them may fail, but the hard reset is all or nothing.
  - `SyncCallback` models lines 182-188.
  - `TimerFires` and `WaitCancelled` are the select of lines 140-151.
  - `IdleTick` and `IdleCancelled` are the select of lines 155-161.
- **Environment actions:**
  - `SetReadOnlyStorage` is the Config State setter. Both the control plane and the watcher call it.
  - `LocalWrite` and `PushLocal` are the repository collaborator.

The model leaves out the interval length, the log lines and which git step failed. None of them changes the control flow, except through the interval overflow listed under hazards.

### `MC_GitScheduler`

This module supplies the caller as a model value: `{c1}`, the control plane serialized by `h.mu`. The control plane is the scheduler's only caller in the code.

### `GitSchedulerProofs`

This module holds the TLAPS proofs about the scheduler alone.

### `ManagementStorageProofs`

This module holds the TLAPS proofs about the control plane composed with the scheduler. It EXTENDS `ManagementStorage` and `GitSchedulerProofs`, and reuses the scheduler lemmas.

### `ManagementStorage` (control plane, Config State, side file, watcher)

This module EXTENDS `GitScheduler`. Each element of `Callers` is one HTTP request (`PUT storage/readonly` or `PUT storage/sync-interval`). The same request is also the scheduler caller, when its handler calls `UpdateConfig` while holding `h.mu`.

State added to the scheduler's:
- `cfgIv` is Config State's `syncIntervalMinutes`. `cfgRO` (from `GitScheduler`) is the read-only flag.
- `hmu` is the request holding `h.mu` for writing, or `NoReq`.
- `hpc[r]` is where request `r`'s handler is. `req[r]` holds its operation and the two values it will write to the side file.
- `side` is the side file. It is absent, corrupt (empty or not JSON), or valid with `read_only` and `sync_interval_minutes`.
- `events` counts the side file's write events that the watcher has not yet seen. `edits` counts hand edits.

Each action of a request is one step of its handler, in the code's order (`src/unnamed/part_004`):

| Action | Code |
|---|---|
| `PutStorageReadOnly` | 313-330. Enabling goes to the gate; disabling goes straight to the lock. |
| `PutStorageSyncInterval` | 344-361 |
| `EnsureCanEnableReadOnly` | 573-590. `HasPendingLocalChanges()` is checked outside `h.mu`; the request answers 409 if there are changes or no store. |
| `UpdateStorageLocked` | 364-370. Takes `h.mu` and sets the Config State field. |
| `CallUpdateConfig` | 372-375. This is `GitScheduler`'s `UpdateConfig`, taken whole. |
| `UpdateStorageUnlock` | 376-386. Waits for the scheduler call to return, then releases `h.mu`. |
| `PersistConfig` | 239-258. Main config save under a short lock. Its content is not modelled. |
| `PersistSnapshot` | 458-488. Reads the other field under `RLock`. |
| `PersistBothTruncate` / `PersistBothWrite` | 420-456. A corrupt file makes the writer return without writing. `os.WriteFile` truncates the file (one event) and then writes it (another event). Either step may fail. |

Two more actions:
- `WatcherReload` (ARCHITECTURE.md 272-305) consumes one event. It sets the flag from the file (false unless the file is valid and says true), and sets the interval when the file's interval is positive. It never calls the scheduler.
- `EditSideFile` is an operator rewriting the file. It is spec-modelled.

`MInit` is a booted process:
- the flag and interval are loaded from any side file;
- the scheduler is running with one loop exactly when read-only is on and a store exists;
- no local change is pending while read-only is on.

Because boot makes the scheduler's first call, the module assumes `MaxCalls >= 1` (`BootCallAssumption`).

`MFairSpec` assumes weak fairness of:
- every handler step;
- the scheduler steps of a request;
- every loop step;
- the watcher.

The code justifies each one:
- Each is a goroutine that keeps running until it blocks.
- Go's `sync.Mutex` switches to starvation mode after 1 ms, so a blocked `Lock` is eventually granted.
- fsnotify delivers every queued event to the watcher's `range` loop.

### `BruteForceGuard` (management Middleware, `part_004` 105-237)

The module models one remote IP.

State and actions:
- `Requests` are the IP's requests, and at most `MaxInFlight` of them are open at once.
- The state is `count` and `blockedUntil` of `failedAttempts[ip]`, plus the clock `now`.
- `Arrive` picks the request's key: missing, wrong or right.
- `BanCheck` models lines 127-171. It is the first critical section: a live ban answers 403, and an expired ban is cleared. Remote access or key configuration off also answers 403.
- `Authenticate` models lines 173-236. It is the slow bcrypt compare, run outside the lock. A right key clears the state.
- `Fail` models lines 151-164. It is the second critical section: the `maxFailures`-th failure bans the IP for `banDuration`.
- `Tick` advances the clock.
- `guesses` is a history variable. It counts the wrong keys compared since the IP's state was last cleared.

### `SyncInterval` (`part_003` 130-137, `part_004` 344-361, 516-568)

This module models the timer length the run loop computes from the interval. The computation is `time.Duration(minutes) * time.Minute` in two's complement modulo `DurationModulus`, with a fallback to 60 minutes for a length `<= 0`.
- `SetSyncInterval` sets any accepted interval. `parseIntField` bounds it below by `minSyncIntervalMinutes` and has no upper bound.
- `ArmTimer` arms the timer from the current interval, and `armed` records which interval that was.
- Go's Duration has 2^64 values. TLC runs use 2^16 values and 60-unit minutes, which keeps the same shape: products up to 546 minutes fit, 547 wraps. The proofs hold for every modulus.

### `StoreScheduler` (`src/internal/store/scheduler.go`)

This module models the scheduler of package `store`, driven by one caller whose calls are serialized, as `h.mu` serializes them in the handler.

State:
- `running`, `stopCh`, `closed` and `wedged` are as in `GitScheduler`.
- `cfgSet`, `hasStore` and `cfgRO` are `s.config != nil`, `s.tokenStore != nil` and `cfg.Storage.ReadOnly`.
- `loops[l]` is the goroutine spawned by call `l`: its channel, its program point and whether its ctx is cancelled.
- `cpc` is where the caller is (idle, in Start, in Stop, about to spawn), and `calls` counts the calls.

Actions:

| Action | Code |
|---|---|
| `SInit` | `NewGitScheduler` (25-32) |
| `CallStart`, `CallStop` | a direct call of Start or Stop (36-37, 78-79) |
| `UpdateConfig` | 228-256: store the config, compare the flag with `s.running`, then call Start or Stop |
| `StartLocked` | Start under `s.mu` (36-67): a restart closes and replaces the channel; the early returns leave the scheduler stopped |
| `Spawn` | `go s.run(s.stopCh)` (69-74) |
| `StopLocked` | Stop (78-93) |
| `Panic` | `close` of a closed channel in Start (42) or Stop (87); `s.mu` stays locked |
| `CancelCtx(l)` | the cancel goroutine (99-106) |
| `LoopRead(l)` | read `s.config` and `s.running` under `s.mu` (108-121) |
| `TimerFires(l)`, `WaitCancelled(l)` | the read-only `select` (122-145) |
| `IdleTick(l)`, `IdleCancelled(l)` | the one-second poll when read-only is off (146-156) |
| `SyncBegin(l)`, `PullDone(l)` | `sync` (161-181) and the non-forced `pullChanges` (185-224) |
| `SetReadOnly` | the older handler's `updateStorageReadOnly` writes the flag (`part_005` 358-364), without `s.mu` |

Fairness (`SFairSpec`):
- Every goroutine runs until it blocks, so each loop's steps and its cancel goroutine are weakly fair.
- Go's `select` picks uniformly among its ready cases. So a ctx case that is ready at every wait is eventually taken, which is strong fairness of `WaitCancelled` and `IdleCancelled`.
- The caller gets no fairness: it may stop calling at any time.

### `SyncLoopOwner` (abstract)

This is what the spec promises of the run loops (spec 4.3 and "Ordering guarantees").
- The phase `active` is Stopped or Running.
- At most one loop, the `owner`, runs on a live stop signal.
- `Activate` is a Start from Stopped. `Acquire(l)` lets a loop become the owner only while Running and with no owner.
- `Close` ends ownership only by closing the signal (Stop, or the first half of a restart).

`StoreScheduler` maps onto it with `active <- running`, and `owner <-` the loop whose channel is still open (0 if there is none). The mapping is `Own`, and `OwnerRefinement == Own!OSpec`.

`GitScheduler` maps onto it the same way. Its `Owner` is the loop that was spawned and whose channel is still open (0 if there is none), and `OwnerRefinement` is again `Own!OSpec`. The composition `ManagementStorage` boots with a loop already started, so its initial state is not an initial state of `SyncLoopOwner`. For it, only the step part is stated: `OwnerSteps == [][Own!ONext]_Own!ovars`.

## Runs

### Scheduler alone (`MC_GitScheduler`)

| Run | cfg | Expect | What it shows |
|---|---|---|---|
| serial | `GitScheduler_serial.cfg` | pass | With one caller, at most one loop is ever on an open stop channel. This holds even through panics, failing pulls and flag toggles (401,136 states). The run also checks `SchedulerInv`, the inductive invariant of the proof, and `OwnerRefinement`, the refinement of `SyncLoopOwner`. |
| double_close | `GitScheduler_NoCloseOfClosedChannel.cfg` | violation | Start, Spawn, Stop, Start, Spawn, Start: Start from Stopped keeps the closed channel, and the next restart (or Stop) closes it again. The scheduler is then wedged. |
| overlapping_pulls | `GitScheduler_NoConcurrentPulls.cfg` | violation | A restart does not wait for the old loop, so two hard resets of the same working copy overlap. |

The two violations are reported as findings in `PROJECT.json`. The double close happens with a single serialized caller. On the way to it, Start after Stop launches a loop on the closed channel, which is cancelled at once while `s.running` stays true. Any sequence of management requests that turns read-only off and then on twice reaches them.

Bounds:
- `MaxCalls = 4` API calls. The shortest double close takes four calls (Start, Stop, Start, Start), and every other bug above needs fewer. The serial state space is still explored in seconds.
- The loop ids are `1..MaxCalls`, one per call that may spawn a loop.

The scheduler runs assume no fairness and check safety only. Liveness is checked on the composition (`ms_complete`).

Each passing run has a mutant in `PROJECT.json`:
- For `AtMostOneUncancelledLoop` in `serial`: a restart that forgets to close the old channel (`StartLockedKeepsOldChannel`).
- For `SchedulerInv` and `OwnerRefinement` in `serial`: a Stop that forgets `close(s.stopCh)` (`StopLockedWithoutClose`). For the refinement, the old loop keeps its open channel while the scheduler is Stopped, and the next Start's loop becomes a second owner.


### Store scheduler (`MC_StoreScheduler`)

| Run | cfg | Expect | What it shows |
|---|---|---|---|
| store_live | `StoreScheduler_live.cfg` | pass | Four calls under `SFairSpec` (44,648 states, about 3 minutes). It checks `AtMostOneUncancelledLoop` and the inductive `StoreInv`. It checks `OwnerRefinement`, the refinement of `SyncLoopOwner`. It checks `LoopsEventuallyExit`: every loop whose channel was closed exits, unless the scheduler is wedged. |

Four calls are enough to reach the double close (UpdateConfig, Stop, Start, Start) and a restart that leaves a stale loop behind. The double close itself is not a run of its own here: Start and Stop handle the stop channel exactly as `part_003` does, and `double_close` checks that there. `store_live` reaches the wedged states, and the liveness property excludes them, because a wedged `s.mu` blocks the old loop's next read for ever.

Mutants:
- `AtMostOneUncancelledLoop`: a restart that does not close the old channel (`StartLockedKeepsChannel`).
- `StoreInv` and `OwnerRefinement`: a Stop that marks the scheduler stopped without closing (`StopLockedWithoutClose`).
- `LoopsEventuallyExit`: a wait with no ctx case (`WaitIgnoresCtx`).

### Control plane with scheduler (`MC_ManagementStorage`)

Every run here uses two requests, `MaxCalls = 3`, one queued watcher event and intervals `{1}`. Every cfg says `CHECK_DEADLOCK FALSE`, because the system stops once every request is done.

| Run | cfg | Expect | What it shows |
|---|---|---|---|
| ms_serialized | `ManagementStorage_serialized.cfg` | pass | Two concurrent requests, with hand edits of the side file and the watcher, never leave two live loops (`AtMostOneUncancelledLoop`). A request inside `UpdateConfig`, or between its Start and that Start's `go s.run`, holds `h.mu` (`SchedulerCallsUnderHmu`). Every step of the composition is a `SyncLoopOwner` step or a stutter (`OwnerSteps`, with the mutant `StopLockedWithoutClose`; about 1 minute). The run uses symmetry over requests and has about 1.65M states. Mutant: `h.mu` released as soon as `UpdateConfig` has decided (`UpdateStorageUnlockEarly`). |
| ms_complete | `ManagementStorage_complete.cfg` | pass | Under `MFairSpec`, every request that starts is eventually done (`RequestsComplete`, about 1M states). |
| discard_after_disable | `ManagementStorage_discard_after_disable.cfg` | violation | A loop already past its `running` check when a request turns read-only off still hard-resets. This throws away a local write made after the request answered (`NoLocalChangeDiscarded`). |
| flag_reverted | `ManagementStorage_flag_reverted.cfg` | violation | The side-file write truncates and then fails. The watcher then loads the empty file and sets read-only false, but the scheduler keeps running. With nothing in flight, the flag and the scheduler disagree (`QuiescentSchedulerMatchesFlag`). |

Why these bounds are enough:
- Two requests are enough to interleave `h.mu` holders with the unlocked side-file writers and the gate.
- Three calls allow a Start, a Stop and a restart.
- Three requests are where a double close could wedge `h.mu` and hang every later request. That state space (over 60M states) is beyond a 5-minute run, so that hazard is listed but not checked.

### Brute-force guard (`MC_BruteForceGuard`)

Every run here uses seven requests from one IP, `maxFailures = 5`, a ban of two ticks and four clock ticks, with symmetry over requests.

| Run | cfg | Expect | What it shows |
|---|---|---|---|
| guard_serial | `BruteForceGuard_serial.cfg` | pass | A client with one request open at a time gets at most five wrong keys compared per ban period (`GuessesBounded`). The run also checks `GuardInv`, the inductive strengthening used by the proof. |
| guard_concurrent | `BruteForceGuard_concurrent.cfg` | violation | With two requests open at once, both pass the ban check before either failure is counted. A client gets a sixth guess in the same period, and with n parallel requests it gets 4+n. |

Seven requests let five failures ban the IP, one more request be refused and the ban expire.

### Timer length (`MC_SyncInterval`)

| Run | cfg | Expect | What it shows |
|---|---|---|---|
| interval_safe | `SyncInterval_safe.cfg` | pass | Every interval up to 546 minutes arms a timer of exactly that length (`TimerHonoursInterval`). |
| interval_overflow | `SyncInterval_overflow.cfg` | violation | An accepted interval of 547 minutes wraps. The timer becomes the one-hour fallback, or a wrapped length further up. |

Every passing run has a mutant in `PROJECT.json`: a plausible bug in a mapped definition that TLC then finds violating the run's property. They are:
- the scheduler's forgotten close;
- an early or a missing release of `h.mu`;
- a ban one failure late;
- an expired ban that is not cleared;
- a timer computed in seconds.

## Proofs (checked by tlapm)

### `GitSchedulerProofs`

- `TypeCorrect`: `Spec => []TypeOK`, for any set of callers and any `MaxCalls \in Nat`.
  - The proof splits TypeOK into Boolean flags and data. Zenon proves the flags.
  - For the data, Zenon first computes what each caller step does, and the SMT solver then checks the types.
- `SingleCallerOneUncancelledLoop` and `SingleCallerSchedulerInv` assume `SingleCaller`: all callers are one.
  - Under that assumption, `Spec => []AtMostOneUncancelledLoop` and `Spec => []SchedulerInv` hold.
  - The invariant is not inductive alone, because a pending spawn or a loop on an old channel could break it in one step. The proof therefore uses `Core`:
    - `ChannelGenerations`: every generation below `stopCh` is closed, and nothing newer is.
    - `LoopsOnKnownChannels`: loops are on generations `<= stopCh`.
    - `OpenLoopMeansRunning`: an uncancelled loop exists only while running with no pending spawn.
    - `SpawnAfterAllClosed`: a pending spawn comes after every started loop's channel was closed.
  - Lemmas cover each group of steps. The caller lemmas do not assume `SingleCaller`. They assume only `OthersQuiet(c)`: while `c` takes its step, every other caller is idle or dead. `SingleCaller` implies this, and in the composition `h.mu` does.
    - `CloseCurrentCancelsAll`: closing the current channel cancels every started loop.
    - `StartLockedCore` and `StopLockedCore`, which `Start` and `UpdateConfig` share;
    - `SpawnCore` and `UpdateConfigCore`;
    - `FrameCore` for the loop and environment steps, through `LoopShape`.
- `SingleCallerRefinement` assumes `SingleCaller` and proves `Spec => OwnerRefinement`. Its invariant is `TypeOK /\ Core /\ SpawnSlot`. `SpawnSlot` says that a caller about to spawn has a loop number in `LoopIds`. Without it, `Spawn` could not be shown to be an `Acquire` of a real loop. Each step maps as follows:
  - The locked part of Start is a `Close` when it restarts a running scheduler (`CloseCurrentCancelsAll`: every loop is cancelled). From Stopped it is an `Activate`, or a stutter when the flag stays off.
  - The locked part of Stop is a `Close`, or a stutter when the scheduler is already stopped.
  - `Spawn` is an `Acquire` of its slot. `Core` shows that no loop was uncancelled before it, so the owner was 0. The slot is uncancelled after it, so it is the new owner (`OwnerIsUncancelledPrimed`). Spawning on a channel that is already closed is a stutter.
  - Loop and environment steps keep `running` and the owner (`FrameRefines`, `OwnerKept`).
  The caller lemmas (`CallerRefines`) again assume only `OthersQuiet(c)`.

### `ManagementStorageProofs`

These hold for any set of requests, any interval set and any bounds, under the module's assumptions. Nothing here assumes a single request.
- `MTypeCorrect`: `MSpec => []MTypeOK`.
- `HmuSerializesScheduler`: `MSpec => []SchedulerCallsUnderHmu`.
- `ControlPlaneOneUncancelledLoop`: `MSpec => []AtMostOneUncancelledLoop`. This is the property run `ms_serialized` checks for two requests. Boot may start with a running loop.
- `ControlPlaneOwnerSteps`: `MSpec => OwnerSteps`. The invariant is `MInv /\ SpawnSlot`. A scheduler call in the composition comes from the request holding `h.mu` (`MCallerQuiet`). That gives `OthersQuiet`, so `CallerRefines` from `GitSchedulerProofs` maps it to a `SyncLoopOwner` step. Every other handler step, the watcher and hand edits leave the scheduler alone (`MNonCallerFrame`), which makes them stutters.

`MTypeOK` is not inductive alone. `UpdateStorageLocked` copies `req[r].iv` into `cfgIv`, which must stay a positive interval. The strengthening `ReqShape` says:
- a handler past idle carries the operation it parsed;
- an interval request carries an interval from `Intervals`.

The inductive invariant is `MInv`. It is `MTypeOK /\ ReqShape /\ Core` plus two facts about `h.mu`:
- `HandlerHoldsHmu`: a handler between `h.mu.Lock()` and `Unlock()` (`hpc` in `sched` or `in_sched`) is the one holding it.
- `SchedulerCallsUnderHmu`: a caller inside the API holds `h.mu`.

Together they give `HolderAlone`: whoever holds `h.mu` sees every other caller idle or dead. That is `OthersQuiet`, so the scheduler's caller lemmas apply unchanged. Why the `h.mu` facts hold:
- `UpdateStorageLocked` takes `h.mu` only when it is free, and then nobody is inside the API.
- `UpdateStorageUnlock` releases it only after the caller is idle again.
- `CallerOwnPC` shows that a scheduler step changes only its own caller's program point.

TLC checked `MInv` as an invariant of the `ms_serialized` instance before the proof.

### `BruteForceGuardProofs`

This module assumes the guard's constants (`GuardAssumption`) and proves two theorems for any of their values:
- `SerialGuardInv`: `MaxInFlight = 1 => (GSpec => []GuardInv)`.
- `SerialGuessesBounded`: `MaxInFlight = 1 => (GSpec => []GuessesBounded)`.

`GuessesBounded` is not inductive on its own. The invariant `IInv` adds four facts:
- at most one request is in flight;
- `count < maxFailures`;
- without a ban, `guesses` is at most `count`, plus one for a wrong key whose failure is not counted yet (`Uncounted`);
- with a ban set, `count = 0` and no request is past the ban check.

There is one lemma per action (`ArriveIInv`, `BanCheckIInv`, `AuthenticateIInv`, `FailIInv`, `TickIInv`). `ArriveAlone` derives, from `Cardinality(InFlight) < 1`, that nothing else is in flight.

### `SyncIntervalProofs`

This module assumes `DurationModulus` is even and at least 2, and that a minute is positive. It proves three things:
- `NoWrapBelowHalf` (lemma): a product below half the range is not changed by the wrap or the fallback.
- `HonouredBelowThreshold`: if `MaxMinutes * MinuteNs < DurationModulus / 2`, then `SSpec => []TimerHonoursInterval`. The invariant is the type invariant and the property, and `ArmTimer` preserves it by the lemma.
- `WrapsToFallback`: any interval whose product lies in `[DurationModulus/2, DurationModulus)` gets the 60-minute fallback. At Go's 2^64 with `time.Minute = 6e10` ns, that is every interval from 153722868 to 307445734 minutes, all of which `PutStorageSyncInterval` accepts with 200.

The 64-bit instance is stated through the modulus rather than as literals. The prover's integer literals are limited to its native 63-bit integers.

### `StoreSchedulerProofs`

For every value of `MaxCalls`:
- `StoreSchedulerInv`: `SSpec => []StoreInv`.
- `OneUncancelledLoop`: `SSpec => []AtMostOneUncancelledLoop`.
- `Refinement`: `SSpec => OwnerRefinement`.

The inductive invariant is `IInv == PTypeOK /\ StoreInv`. `AtMostOneUncancelledLoop` alone is not inductive, because a Spawn would break it if another loop were still on the current channel. `StoreInv` adds what rules that out:
- a loop on an open channel is on `s.stopCh`, the scheduler is running, and no spawn is pending;
- each call spawns into its own slot, which no loop has yet;
- every loop is on a generation up to the current one.

One lemma per caller action shows that `IInv` is preserved, and `LoopStepIInv` does the same for the loop's steps. A step of a loop keeps its channel and never goes back to "none", so it cannot create a loop on an open channel.

The refinement step (`RefineStep`) takes one case per action:
- Start and Stop of a running scheduler are `Close`, because no loop is left on an open channel.
- Start of a stopped one is `Activate` or a stutter.
- Spawn is `Acquire` of the new slot, or a stutter when it spawns on an already-closed channel (the reuse bug).
- A loop step keeps the owner. It can end the ownership only while running, which is a `Close`.

### Left to TLC

Two things are checked by TLC only:
- liveness (`RequestsComplete`, `LoopsEventuallyExit`), which needs fairness and `ENABLED`, out of the provers' reach here;
- every violation. TLC finds each counterexample: `NoCloseOfClosedChannel` and `NoConcurrentPulls` fail even with one caller, and `NoLocalChangeDiscarded` and `QuiescentSchedulerMatchesFlag` fail in the composition.

## Not modelled, and what is left

- **Crash and restart.** A restart reloads the main config file and then the side file. The model does not keep the main config file's content, so a crash between the two writes (hazard at `part_004:392`) is not checked.
- **The three-request hang.** A double close panics while holding `h.mu`. With a third request, every later request would block for ever. This is listed as a hazard and is beyond a 5-minute run.
- **Local clients and many IPs in the guard.** Localhost requests skip the ban logic. The growth of `failedAttempts` over many IPs is a memory bound outside a per-IP model.
- **The older handler.** `part_005` is a superseded copy of the handler. It defines the same `Handler` methods as `part_004`, so the two are not built together, and the handler that runs is `part_004`. Its storage setters hold `h.mu` (Lock with defer Unlock) and then call `persistConfig`, which locks `h.mu` again (line 240). That would block on the first storage PUT, but only in this superseded copy, so it is not a hazard of the program. `part_004` persists after unlocking.
- **`sync`'s unlocked read of the flag** in `scheduler.go` (line 164). `StoreScheduler` does not model the pull's effect on the working copy, so the stale read is only a hazard there. `GitScheduler` checks the same race in `part_003`.
- **Refinement without serialization.** `GitScheduler` is shown to implement `SyncLoopOwner` only when its callers are serialized: with one caller, or under `h.mu` in the composition. The code's only caller is the control plane, which holds `h.mu`.
