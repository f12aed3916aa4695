# PlayerVox OverCrow in TLA+

Specifications of OverCrow, an in-game overlay for Linux desktops: its state
machines, its threads and tasks, and what they do when a step fails or comes late.
TLC checks them on small instances. TLAPS proves the safety of Core's state machines, of
the protocol between Core and the overlay, of the Hyprland bridge, of the Control Center
and of most providers and stores for every instance. Each module is written from the Rust source, and
keeps its names, so that it can be read beside it.

## 1. The system

| Process | What it is |
|---|---|
| `overcrow-control` | Control Center: settings, lifecycle (enable/disable), updates |
| `overcrow-core` | The authority on the active game and overlay mode; owns the session |
| `overcrow-overlay` | egui renderer with its providers (Discord, Twitch, media, notes, Warframe) |
| `overcrow-hyprland` | Bridge from Hyprland's IPC to Core |
| GNOME extension, KWin script | The same role in other compositors |
| `overcrowctl` | Command line client of Core |

Core learns of windows from a bridge (D-Bus, under a lease) or by polling X11.
It accepts a window as *active game* only if its process is in the last `/proc`
scan and selected in the settings. It publishes a snapshot with a revision that
grows with every visible change. The overlay follows these snapshots and sends
commands back. Core starts and stops the overlay and the bridge, which are
systemd user units, when a selected process appears or leaves.

### The parts and their modules

| Part | Module | What is hard | What is checked |
|---|---|---|---|
| Core state authority (`runtime.rs`) | `CoreRuntime` | scans and clock readings taken outside the mutex, restarts under the same pid | authority, lease bounds, monotone time, one revision per change |
| Session coordinator (`session.rs`) | `SessionCoordinator` | late systemd jobs, partial failure, abort in a start | Stopped is true, clean slate, ending shutdown, convergence |
| Core's log (`event_log.rs`) | `CoreEventLog` | snapshots skipped by a watch channel, rate limit | the log ends with what is current |
| Snapshot signal, overlay client | `SnapshotSync`, `SnapshotFollower` | owner changes, lost signals, lost answers | nothing stale, commands add up, input only under authority |
| Shortcut broker (`shortcut.rs`) | `ShortcutBroker`, `PortalBinding` | failed releases, answers out of order, a portal that is replaced | release before rebind, one attempt per policy, a live binding |
| X11 shortcuts (`x11_shortcut.rs`) | `X11Shortcuts` | binds abandoned while a thread grabs, key repeat, changed keyboards | no grab left behind, one activation per press |
| Accelerator grammar | `Accelerators` | five parsers in two languages | they agree |
| Hyprland bridge | `HyprlandBridge`, `HyprlandGeometry` | decisions from answers read one by one, death between commands | tags and bindings are unique and taken away, Interactive survives |
| Settings files, reload | `SettingsStores`, `Preferences` | kills and power losses inside a save, edits during a save, two reloads | a reported save survives, no edit is lost, Core never goes back |
| Control Center | `ControlCenter` | failure in the middle and in the rollback, Quit and updates meanwhile | stopped means stopped, what is installed was confirmed |
| Discord voice | `DiscordProvider` | late answers and departures for a channel that was left, gate against setup | what is shown belongs to the current channel |
| Twitch chat | `TwitchProvider` | redelivery, replaced sessions, full queues and lost answers, sends during a change of channel | each message once and in its channel |
| Twitch OAuth | `TwitchAuth`, `TwitchAuthPromise` | one-time refresh tokens, crash after a rotation | a consumed token is not left in the store |
| Emotes, avatars | `AssetLoader` | full queues, generations | nothing pending without work |
| Media | `MediaProvider` | click against discovery, wake-up against publication | a click reaches only the player last published |
| Warframe market, world state | `WarframeMarket`, `WarframeWorldstate` | flags shared by two threads, timers between replies | no flag without work, true phases |
| Notes | `Notes` | save against newer edit, updates out of order | no edit lost but with the report of a failed save |
| Widget layout | `WidgetLayout` | gesture against viewport, mode and game, failing saves | painted is stored, corner kept, an interrupted resize stores nothing |
| Logging | `EventLog` | full queue, rotation that fails halfway | every line is written or counted |

`PROJECT.json` lists every component with its status, every definition with its lines
in the source, and every hazard at its line with the properties that would catch it.

## 2. Modules

### CoreRuntime (`runtime.rs`, `manual_stopwatch.rs`, `telemetry.rs`, `state.rs`)

Every method that changes state holds the `mutation` mutex, so each is one action.
An action ends in `Commit`, as the methods end by publishing: it sets the state
and the metadata, and publishes if `snapshot_state_changed` says so.

| Variable | Code |
|---|---|
| `state` | `CoreState`: active game and overlay mode |
| `metadata` | `RuntimeMetadata`: lease, active process, identity, timing and its floor, telemetry, CPU baseline, stopwatch |
| `processes`, `settings`, `stopwatch_enabled` | what the last scan or reload installed |
| `selected_running`, `published` | the two watch channels |
| `now`, `watchdog_now`, `watchdog_busy` | the clock, and the watchdog's reading of it |

Three things happen outside the mutex and are kept apart. A caller's instant
may be `MaxLag` old when its method runs (parameter `at`). A scan may be older
than what it replaces. The watchdog reads its instant when its interval fires
and compares it when it gets the mutex.

Process names, paths and window geometry are abstract values: a process has a
start time, an identity and possibly an age. Resource figures are reduced to
whether they exist and which process group they came from.

### SessionCoordinator (`session.rs`, and its part of `main.rs`)

One action is one step between two awaits. Two tasks run coordinator code:
`task`, the loop, and `cleanup`, which the shutdown sequence spawns. Both are
positions in `pc`. The locals of the mutex holder exist once. `main` is the
position in `shutdown_session_coordinator`.

systemd is external. A command that succeeds has put its unit in the requested
state. One that fails, times out or is cancelled may leave a job that finishes
at any later time, unless a newer command for the unit replaces it.

### SnapshotSync, SnapshotFollower (`snapshot_signal.rs`, `core_client.rs`, `app.rs`)

Core publishes revisions, its publisher emits them as signals, the overlay's client
task follows them, and the UI takes what the client left in its one-place channel.
User commands go the other way through coalescing slots. `legacy` selects the cycle
for a Core without versioned snapshots (`LegacyCores` says which are tried). Core may
change owner, a signal or a call may fail, and the connection may end at any step.

`SnapshotFollower` is the abstract specification: what is shown never goes back within
one Core, and a new Core replaces it. The property `NeverBackwards` says that
`SnapshotSync` implements it.

Abstractions: Core is reduced to its versioned snapshot and the stopwatch. Publishing
and storing the update that wakes the UI are one step. A call in flight when the connection fails is executed before
the failure or never, because the backoff of at least 250 ms outlasts it.

### Accelerators (`model.rs`, `shortcut.rs`, `x11_shortcut.rs`, Hyprland, GNOME)

The five parsers of an accelerator as operators. The state is an accelerator, a
sequence of parts, and a step adds a part. Names and mask bits are translated as the
code translates them.

### ShortcutBroker (`shortcut.rs`: `run` and what it calls)

One action is the code between two awaits. `policy` and `unseen` are the three watch
channels, `desired`, `attempted` and `owned` are the locals and the field of the same
names, and `pc` says which await the task is in. The provider is external: it may
deny, never answer, fail to close, and lose a session. `spent` and `open` are
history. The senders outlive the task, so their channels never close. The public
method `bind` is called by tests only and is left out.

### PortalBinding (`shortcut.rs`: `bind_portal_session`, `PortalSession`)

`pc` is the await of the bind. Each D-Bus stream is a sequence of its own (`predicted`,
`any`, `owners`, `activations`, `closed`), because `select!` reads them in any order. The
portal is external: it replies, responds, is replaced, closes a session, names a request
its own way (`legacy`). Paths are reduced to whether they are the predicted one, the one
the reply named, or another's.

### X11Shortcuts (`x11_shortcut.rs`)

`setup` is the bind that is awaited. `auths` and `workers` are the threads it started,
which go on after a timeout dropped it (`Abandon`). `grabs` is the server's table. A grab
is one registration per shortcut and lock combination, planned as in the code from the
keyboard read at the start. `pressed` and `pending` are `NativeKeyState`. Keys,
modifiers, repeats and other clients are external.

### CoreEventLog (`event_log.rs`)

The tracker's four fields and the watch channel. `told` is what a reader of the log knows.

### HyprlandBridge, HyprlandGeometry (`overcrow-hyprland`)

One action per request or command: the bridge `b` holds what it has read, and the
compositor (`desk`, `tags`, `keys`) moves between two of them. Any request may fail. The
process then ends, cleans up, is cleaned up after by systemd, and restarts. One of the
three shortcuts is followed, since their reconcilers share nothing. The geometry timer
shares only the windows' frames with the rest and has a module of its own.

### SettingsStores, Preferences (`overcrow-config`, `twitch/prefs.rs`, `service.rs`)

`Preferences` has the validation and the edits of the four files as operators.
`SettingsStores` writes them: temporary file, sync, rename, sync of the directory, each a
step that may fail or be the last one. `file` is what the name means now and what it
means after a power loss. Core's two readers (`task`) load and apply under the reload
mutex, and Core refuses lifecycle settings that are disabled. A stamp numbers the edits. It
is history and no part of a file. Any client of the bus may call `ReloadSettings`; here it
is called after a save of the lifecycle settings, at any later time.

### ControlCenter (`overcrow-control`, `tray.rs`)

A command holds the controller's mutex and is one step. The lifecycle worker makes one
call per step (save, integrate, start, passive, stop, disable), each of which may fail. The
two threads that stop the runtime poll the controller, and the update's operation guard is
`update.op`. Core and the session units are external. The branch for a worker that panicked
is left out, because nothing the worker runs panics.

### DiscordProvider (`discord/`)

The worker is one task, so a branch of a `select!` and its handler are one action. `state`
is `WorkerState`, `rx` the frames under way, `subs` what the desktop has subscribed. A
cancelled read in the middle of a frame loses the place in the stream (`torn`). The desktop
may answer out of turn: `late` holds the unsubscriptions it has put off and a departure it
has not announced yet (`CatchUp`). `ShownIsCurrent` excepts one effect of such a departure:
announced to a worker that is subscribed to the channel left, it clears the channel shown
whichever that is (`client.rs:1137`), until the next selection.

### TwitchProvider, TwitchAuth, TwitchAuthPromise (`twitch/`)

One iteration of `run_provider` is `LoopTop` and one wake-up. Connecting and replacing a
session are split at their awaits. The provider knows its OAuth machine by
`TwitchAuthPromise` only. `TwitchAuth` is the machine itself with its store and Twitch's
answers, and `PromiseKept` says that it implements the promise. A token is the number of
its rotation. `cancel` and the sign-out may come before the restore, as closed commands do.
The widget's send goes through the bounded command queue, which may be full, and the answer
to it may be lost after Twitch has taken the message. What `accept_token` checks was checked
when the answer was parsed, so it refuses nothing here.

### AssetLoader (`twitch/emotes.rs`, `discord/avatars.rs`)

Two copies of one design; the constant `Emotes` says which. The steps of `set_enabled` and
`reset` are kept apart, because the worker runs between them.

### MediaProvider (`media/`, `runtime/latest.rs`, `runtime/readiness.rs`)

The worker asks one player per step. The latest-value channel (value, pending, token) and
the readiness bit are followed step by step on both sides. Other providers use the same
channel; their modules publish in one step.

### WarframeMarket, WarframeWorldstate (`warframe/`, `runtime/scheduler.rs`)

The atomics, the queue and the published snapshot of each worker, and the frames of the
egui thread that read them. The sync that takes the market's snapshot and the refresh it then
sends are two steps, because the worker runs between them. Periods are scaled down and cycles begin at 0, which keeps
their order and their common boundaries. The loop that walks the phases of Cetus takes 64 of
them in the code and `PhaseSteps` here; past them (80 hours without a reply) the code shows a
phase that ends in a second, and `PhasesAreTrue` speaks of what was walked. Of the lists in a world state the invasions are
kept.

### Notes (`notes/`, `widgets/notes*`)

`svc` is the state under the mutex, `slot` the update channel, `wake` the wake-up token.
Numbering an update and publishing it are two steps, as in the code. The widget shows
commands before they are saved. Title and body are one text. `missed` is history: the texts
of failed saves whose report was replaced, before a frame read it, by the update of a later
command (`service.rs:149-153`). These texts the code loses, and `NotesAreKept` excepts them
and nothing else.

### WidgetLayout (`widgets/manager`, `placement.rs`, `app.rs`)

An action is one egui frame: snapshot, pointer event, painting of every widget, saves.
Lengths are whole numbers on the horizontal axis, and a stored position is a ratio, so the
conversion to it and back is that of the code. egui is external: when widgets stop being
interactive, because the mode changed or the game left, it may keep or drop the drag. The
grip notices that it missed a frame (`MissedRender`).

### EventLog (`overcrow-logging`)

Threads offer events to a bounded queue; the worker writes, counts and rotates one file
operation at a time; a reader reads meanwhile. A line is one unit long.

### Parts: Desktop, Lifecycle, Shortcuts, Providers

These four declare the variables of parts that are proved about and instantiate their
modules, with what is promised of each part. A model-checking module and a proof module
extend the same one, so a theorem and a run speak of one definition. `Parts` has what
the first three share: `None`, the part of a behaviour (`component`) and its budget (`steps`).

| Module | Parts | Proofs |
|---|---|---|
| `Desktop` | geometry, Core's log, settings files | `DesktopProofs` |
| `Lifecycle` | Control Center | `LifecycleProofs`, with `SessionCoordinator` |
| `Shortcuts` | portal session, Hyprland bridge | `ShortcutProofs`, with `ShortcutBroker` |
| `Providers` | OAuth, media, market, world state | `ProviderProofs` |

## 3. Model checking

| Run | Module | Shows |
|---|---|---|
| `core` | `MCCoreRuntime` | `CoreIsSafe`: the authority is never wrong, with a bridge or with X11 polls. `LeaseBoundsSilence`, `ClockIsHonest`: a silent bridge loses its game in bounded time, no live one does, session time never goes back, nothing passes to another process. `RevisionPerChange` |
| `session` | `SessionCoordinator` | `SessionIsSafe`: Stopped is true, starts from a clean slate, clean shutdown. `Progress`: it converges and a shutdown ends |
| `broker` | `ShortcutBroker` | `BrokerIsSafe`: no lost wake-up, no leaked session, owned is desired, availability is true. `OneAttemptPerPolicy`. `Progress`: the policy is followed, losses are handled, shutdown ends |
| `sync` | `MCSnapshotSync` | `NeverBackwards`: `SnapshotSync` implements `SnapshotFollower`. `SyncIsSafe`: input only under a live authority, no confirmation lost. `CommandsAddUp`. `AcceleratorsAgree` |
| `sync_progress` | `SnapshotSync` | `Progress`: the overlay converges, Escape reaches Core |
| `providers` | `MCProviders` | the eleven properties of the providers |
| `desktop` | `MCDesktop` | the fifteen properties of the parts that meet the desktop and the disk |
| `sync_escape_reconnect`, `sync_interactive`, `discord_disabled`, `world_expired`, `twitch_day_sleep` | | the findings below |

Several properties are conjunctions: `CoreIsSafe`, for instance, names five invariants of
`CoreRuntime`. Each conjunct is a definition of its own in the module, with its comment.

**Composed runs.** Parts that share no state are checked side by side in one run.
`MCCoreRuntime` and `MCSnapshotSync` choose between instances of one module.
`MCProviders` and `MCDesktop` choose between modules: `component` names the part of the
behaviour. The parts of the modules above have their variables from there, those of
another part take the slots `x1`, `x2`, ... of a common pool, and what a behaviour does
not use stays 0. Nothing is lost, because such parts do not interact. A part's
environment is in its own module.

**Bounds.** Every bound has a name and stands in the `.cfg` or in the MC module. A *budget*
is a record of how many steps the user, the outside world and failures may take. There are
several mixtures where one large one would be too many states. What they allow:

- `core`: two pids, two start times and three identities, so a game can pass to another
  process or a reused pid; eight watchdog intervals with a lease of 2 and a lag of 1, so
  that readings are stale on both sides of a lease; ages computed too small and too large;
  revisions up to saturation; a session that is polled instead.
- `session`: two failures (a start and its cleanup) and two changes of selection, on all
  desktops. `broker`: three changes, so that one arrives during a close and one follows a
  failed close; two lost sessions.
- `sync`: two changes, one restart of Core and one failure, with an Escape and a signal that
  waits, or with three coalesced commands, two signals and either kind of Core. Five parts of
  an accelerator exceed the longest valid one.
- Discord: two channels, another user, three gates; up to three user or four desktop steps,
  two faults. Twitch: two channels, four deliveries with a memory, a buffer and a command
  queue of two. OAuth: three tokens, three faults. Images: three for a cache and queues of two.
  Media: three players, two of which are candidates. Market: four gate changes or four
  commands. World: nine seconds over cycles of three to six, so that every boundary occurs,
  with two phases to a walk, so that its limit does too.
- Hyprland: two game windows, an overlay and another window, with a change of the desktop or
  a foreign binding, a toggle and a crash. Geometry: six moves of three frames. X11: two attempts, two shortcuts
  that share modifiers, two keyboards. Portal: two binds and two changes of owner, or
  three foreign responses for a buffer of two. Control Center: three requests, three edits
  of the file, two faults. Notes: three edits and a failing save, with two texts, two pages
  and two items. Stores: two edits, a failure and a crash for each of the four files, with lists of
  two. Layout: all thirteen widgets, two of them on, two viewports, two gestures, a failing
  save, or one gesture through three changes of mode, game or viewport. Log: five events, a queue of two, three archives, two lives.

Where there are proofs they do not depend on any bound.

**Deadlock.** The clock of `CoreRuntime` stops at `MaxTime`; methods remain enabled, so
deadlock is checked there. All others stop when their task has ended or their budget is
spent, so their runs do not check it.

**Fairness.** `session` assumes weak fairness of the loop task and of the shutdown
sequence: tokio polls a ready task, every systemctl command has a timeout, and the
shutdown sequence waits under timers only. Nothing is assumed of the forced cleanup, of
systemd's late jobs, or of the selection. `sync_progress` assumes it of the client task,
Core's execution of calls, the publisher and UI frames, and nothing of the user, of games
or of failures. `broker` assumes weak fairness of the broker's own steps (a close has a
timeout) and strong fairness of the branches that compete in `tokio::select!`, which picks
at random among ready ones. Nothing is assumed of the answer to a bind. The other
modules state safety only. Where something must not be forgotten they say it as an
invariant: whoever waits has a wake-up, a request or a deadline on the way
(`PlayerIsShown`, `ImagesArrive`, `MarketWaitsForWork`, `NotesAreKept`, `ChatIsExact`).

**Findings.** Five runs show the code differing from a statement in the repository;
`PROJECT.json` quotes each.

- `sync_escape_reconnect`: losing and regaining Core while Escape is pending makes the
  overlay take input again.
- `sync_interactive`: after an Escape whose confirmation was overwritten by a newer
  Interactive snapshot, the overlay stays click-through.
- `discord_disabled`: a widget that is disabled while the game has no focus keeps the
  channel it showed, because `wait_for_open_gate` looks at open gates only.
- `world_expired`: where exactly `VALLIS_COLD_MS` are left, `vallis_at` computes a phase
  that ends now.
- `twitch_day_sleep`: a restored token that is refused and cannot be deleted leaves no
  retry, and a new authentication is refused.

Each property has a mutant in `PROJECT.json`: a plausible bug in the code it
speaks of under which TLC finds it violated.

## 4. Proofs

All are for every value of the constants, up to the hypotheses named at the end. Every
proof goes the same way: an inductive invariant that is stronger than the property, one
lemma per action for its preservation, and the property from it.

`CoreRuntimeProofs`. `RuntimeInv` is the inductive invariant. It adds two things to the
properties: types, and consistency of state and metadata (a game has its process,
identity and telemetry group; no game, nothing). It is needed because a toggle
publishes the telemetry that an earlier scan left in the metadata. From it follow
`TypeCorrect`, `AuthorityCorrect`, `InteractiveCorrect`, `CleanupCorrect`,
`TelemetryCorrect`, `PublicationCorrect`. `RevisionCorrect` also uses that every
step commits once and that the published snapshot was current before it.
`LeaseInv` bounds the distances between report, watchdog
reading and clock, for a watchdog that waits and one that does not. It yields
`LeaseCorrect` and `ExpiryCorrect`. `SessionTimeCorrect` rests on `ReconcileMonotone`:
reconciling two timings never yields an elapsed time below the floor at any later
instant. `CarryOverCorrect` follows from what each step does to the active process.

`LifecycleProofs`, *session*. `SessionInv` is `TypeOK`, `Holders` (who holds the mutex, and
where the shutdown sequence may be when each task is where) and `UnitsFollow` (a walk
of the stop plan that has not failed has switched off every unit it has passed). It
yields `SessionTypeCorrect`, `StoppedCorrect`, `StartCorrect` and `ShutdownCorrect`.
*Control Center* (`StopCorrect`, `ControlCorrect`): `ToggleKnows` says at each call of a
transaction what the settings file and the units are by then, also in a rollback;
`StopIsTrue`, that what a waiting stop would take for success is one; `LoadIsFresh` and
`ScreenAgrees` carry what was read to the screen.

`ShortcutProofs`, *broker*. `BrokerInv` adds `Consistent` to the properties, which speak only
of a waiting broker: between two waits availability and attempted definitions match
what is owned, and a session being closed was not the desired one. `SettleKeeps`
treats the end of `reconcile` once for the two ways to reach it. They yield
`BrokerTypeCorrect`, `WakeupCorrect`, `OwnershipCorrect`, `AvailabilityCorrect`,
`SessionsCorrect` and `AttemptCorrect`. *Portal* (`PortalCorrect`): a grant that is in some
stream or buffer and belongs to the request (`GrantIsRead`) means that the session it grants
is bound, or that the loss of its portal, or its closing, is in a stream that is read before
an activation (`PortalAlive`); `StreamsAreOpen` says which streams are open at which await.

*Hyprland bridge* (`BridgeStaysTidy`, `InteractiveIsKept`). `BridgeInv` has three parts.
`TaggingInv`: a list of commands that is being sent gives a tag to one window only and takes
it before from every other that carries it (`TakesFirst`, which only needs what was read to
be no less than what there is, `StillRead`, because only the bridge gives tags); a cleanup that did not
fail still takes every tag there is (`TakesAll`). `BindingInv`: a binding is made only where
none was read, and none can have come since. `CalmInv`: what a pass that began in Interactive
has read is so still, as long as the game and the overlay stand. The proof corrected the
property: with three changes of the desktop, a pass that had read it before the user entered
Interactive may turn to a window that was hidden since, and the next one ends Interactive.
The history variable `calm` now stops at such a turn.

`CoreSafe`, `ClockHonest`, `SessionSafe` and `BrokerSafe` put these together as the
conjunctions that the runs check.

`SnapshotSyncProofs`. `SyncInv` relates what is under way between Core and the overlay:
what a reply, the gate or the channel holds is no older than what is shown and no newer than
Core (`Ordered`), all that a versioned connection holds comes from the running Core until the
owner stream says otherwise (`SameCore`), authority comes after a baseline (`Connected`),
and the revisions are bounded by the changes made (`RevisionsAreCounted`). It yields `SyncSafe`, `CommandsAreKept`, whose induction follows
a queue of stopwatch commands by what it would make of any stopwatch, and `SyncFollows`: each
step of `SnapshotSync` is a step of `SnapshotFollower` or leaves it alone.

`ProviderProofs` has four parts. *OAuth* (`TokensCorrect`, `PromiseCorrect`): an operation
is a chain of store and network steps on one record, and the lemmas follow that chain. The
machine's beliefs about the store are true (`Truthful`), and a save that is still due would
store the token Twitch accepts (`SavesTheGrant`), except while the token expires. The refinement of `TwitchAuthPromise` follows from the same facts.
*Media* (`PlayerCorrect`): `MediaWakes` lists the places where the wake-up for a snapshot
may be between publication and frame; a call is judged by the player selected last
(`CallsAreCurrent`), and while clicks are obeyed that one is published (`PublishedIsCurrent`). *Market* (`MarketCorrect`): `PromiseHasAnswer` says
of a status that promises an answer where the answer is, through each step of the worker.
*World state* (`WorldCorrect`): the worker keeps nothing older than the grace period when it
publishes (`WorldWorker`), a snapshot that waits is newer than the one shown
(`WorldChannel`), and the key of the derived rows names no revision to come, so that a key
that fits means rows that fit (`WorldRows`).

`AssetLoaderProofs` (`ImagesCorrect`) counts: pending ids are pairwise different requests,
results or work of the current generation (`LoaderOnce`), and there is one stale result at
most (`LoaderStale`), so the result queue has room for every current one.

`DesktopProofs` has three parts. *Geometry* (`PullsCorrect`): what the synchronizer takes
for converged was seen so, of the window it tracks (`ConvergedWasCovered`). *Core's log*
(`CoreLogCorrect`): the property is inductive once windows and suppressed moves have their
shapes. *Settings files* (`SavesSafe`, `CoreOnlyForward`): stamps number the edits, and
`StoresInv` orders them. What the file has is no newer than the save under way
(`SaveIsNext`), one candidate at most is on its way to the saver (`OneCandidate`), an edit
starts from the newest file (`BaseIsNewest`), and what a reader of Core holds under the
reload mutex lies between what Core has and what the file has (`CoreFollows`).

`EventLogProofs` has two parts. *Files* (`RotationCorrect`): a rotation that has come
to step `g` has emptied the archive above it (`RotationMakesRoom`), so a rename overwrites
nothing but the oldest; the generations hold increasing numbers, older archives smaller
ones (`LinesAreOrdered`), and a reader, who goes from the oldest on, has read only smaller
numbers than are in the files ahead of it (`ReadingIsOrdered`), whatever is renamed behind or
before it. *Events* (`LogCorrect`): written events precede the one in the worker's hands,
that one the queue (`EventsAreOrdered`); none is missing (`NoneIsMissing`); the counts add up
(`EventsAreCounted`). `DrainSuffices` carries the argument about Drop: after `d` rounds of
the drain an event from before the flag stands at most at place `QUEUE_CAPACITY - d`, so
none is left when the rounds are over, and the last count covers the early losses.

Assumptions, each evaluated by TLC on the runs: `ClockAssumption` (a wait for the
mutex is shorter than the lease), `DataAssumption` and `NoneAssumption` (sets have
their shapes, and `None` is a value of its own), `BrokerAssumption` (bounds are naturals).
Hypotheses that stand in a theorem: the fault budgets are naturals (`TokensCorrect`,
`PromiseCorrect`), `None` is no status that promises an answer (`MarketCorrect`) and no
rectangle (`PullsCorrect`), the request queue has room for one (`ImagesCorrect`), there
is an archive (`RotationCorrect`, `LogCorrect`), the event queue's capacity is a natural
(`LogCorrect`), the grace period is one (`WorldCorrect`), and the files are the four there are
(`SavesSafe`, `CoreOnlyForward`). `WindowKinds` (`BridgeStaysTidy`, `InteractiveIsKept`) says of
Hyprland's windows that they are finitely many, put as what the proof uses: a set of their
tags can be counted and listed; and that each is of one kind. The code's constants meet
all of them.

## 5. Only model-checked, and not modelled

Liveness under fairness (`Progress` in three runs) is out of the prover's reach, and so is
`AcceleratorsAgree`, whose parsers are recursive operators. `EditsAreKept` and
`GesturesAreOwned` compute with folds over the lists of settings and widgets, and
`PhasesAreTrue` with cycles and rounding of every instant: induction over data. Not
attempted, because each would take an invariant over all the frames, keys or edits under
way: Discord (`VoiceIsCurrent`, `SessionIsGoverned`), Twitch chat (`SendsAreMeant`,
`ChatIsExact`), X11's grabs (`GrabsAreExact`) and notes (`NotesAreKept`). Everything else that
a passing run checks is proved: all properties of `core`, all safety properties of `session`,
`broker` and `sync` but for the accelerators, six of the eleven of `providers` and eleven of
the fifteen of `desktop`.

Real time is left out everywhere but in `CoreRuntime`, `CoreEventLog` and
`WarframeWorldstate`: a timeout may fire whenever it is armed. In `ShortcutBroker`, main's
abort after 3 s may therefore happen during any close, although a close is bounded by 2 s.

Not covered by a property, because the code makes no promise there that a model could
check: deliveries of EventSub older than the bounded memory or unread on a socket that is
replaced; the order in which a biased `select!` serves clicks and polls; the three reads of
`gnome_shortcut_definitions`, which may mix two configurations.

Not modelled:

- rendering (`widgets/*` but for layout, grip and the state of notes and chat), icons;
- decoding of external formats (`parse.rs` but for the cycles, `eventsub.rs`, `rpc.rs`,
  `ipc.rs`, `steam.rs`, `steam_binary.rs`): pure functions of bytes, without state;
- reading `/proc`, hwmon and the X server (`procfs_source.rs`, `hwmon.rs`, `x11.rs`): what
  they return is an input of `CoreRuntime`;
- HTTP transport and its limits (`http.rs`, `oauth.rs`, `update_download.rs`): a request is
  a step that succeeds or fails;
- reports of the Control Center (`support.rs`, `diagnostics.rs`, `compatibility.rs`), the
  Tauri shell, `overcrowctl`, the GNOME and KWin scripts but for the accelerator parser,
  packaging.
