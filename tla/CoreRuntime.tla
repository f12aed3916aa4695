----------------------------- MODULE CoreRuntime -----------------------------
(***************************************************************************)
(* overcrow-core's CoreRuntime: the one authority on the active game, the  *)
(* overlay mode, the session clock, the telemetry and the manual           *)
(* stopwatch, and the publisher of the versioned snapshot.                 *)
(*                                                                         *)
(* Every mutating method of runtime.rs runs under the `mutation` mutex, so *)
(* each is one action here.  What is NOT under the mutex is kept apart:    *)
(*   - the instant a caller reads before it queues for the mutex, which is *)
(*     up to MaxLag units old when the method runs (parameter `at`);       *)
(*   - the /proc scan, taken outside the mutex and installed later;        *)
(*   - the watchdog's instant, read when the interval fires and compared   *)
(*     when the mutex is finally granted (watchdog_now, watchdog_busy).    *)
(* Time is counted in units of the watchdog interval (250 ms).             *)
(***************************************************************************)
EXTENDS Integers

CONSTANTS
    None,           \* Rust's Option::None
    Pids,           \* process ids that appear in /proc or in a report
    StartTicks,     \* process start times, compared for equality only
    AppIds,         \* Steam application ids (non-zero)
    Executables,    \* executable paths
    Identities,     \* outcomes of classify_process_identity
    WidgetProfiles, \* manual_stopwatch.enabled in the profiles on disk
    Settings,       \* valid, enabled lifecycle settings
    Views,          \* a window's title, rectangle and scale
    ElapsedSamples, \* process ages a scan may compute
    Backends,       \* kinds of session: "bridge" on Wayland, "x11" on X11
    LeaseTimeout,   \* BRIDGE_LEASE_TIMEOUT in watchdog intervals
    MaxLag,         \* bound: how long a caller waits for the mutation mutex
    MaxTime,        \* bound: the horizon of the clock
    MaxElapsed,     \* bound: the longest session or stopwatch time
    MaxRevision     \* u64::MAX, where the revision saturates

ASSUME ClockAssumption ==
    /\ LeaseTimeout \in Nat /\ MaxLag \in Nat /\ MaxLag < LeaseTimeout
    /\ MaxTime \in Nat /\ MaxElapsed \in Nat /\ MaxRevision \in Nat
    /\ ElapsedSamples \subseteq Nat
    /\ Backends \subseteq {"bridge", "x11"}

ASSUME DataAssumption ==
    /\ Identities \subseteq [app: AppIds \cup {None}, exes: SUBSET Executables]
    /\ Settings \subseteq [apps: SUBSET AppIds, exes: SUBSET Executables]
    /\ WidgetProfiles \subseteq BOOLEAN
    /\ None \notin AppIds /\ None \notin Pids

VARIABLES
    backend,         \* the kind of session, found out once at the start
    now,             \* the monotonic clock
    watchdog_now,    \* instant of the watchdog's last interval tick
    watchdog_busy,   \* the watchdog waits for the mutex with that instant
    processes,       \* the installed process table
    settings,        \* the installed lifecycle settings
    stopwatch_enabled, \* widget_profile.manual_stopwatch.enabled
    state,           \* CoreState: the active game and the overlay mode
    metadata,        \* RuntimeMetadata
    selected_running,\* the watch channel the session coordinator follows
    published        \* the versioned snapshot in the snapshot watch channel

vars == <<backend, now, watchdog_now, watchdog_busy, processes, settings,
          stopwatch_enabled, state, metadata, selected_running, published>>

-----------------------------------------------------------------------------
\* Types

ProcessInstance == [pid: Pids, start_ticks: StartTicks]
ProcessTiming   == [elapsed: Nat, observed_at: Nat]
ProcessInfo     == [start_ticks: StartTicks, identity: Identities,
                    timing: ProcessTiming \cup {None}]
ProcessTable    == [Pids -> ProcessInfo \cup {None}]
GroupKey        == [instance: ProcessInstance, app: AppIds \cup {None}]
GameTelemetry   == [group: GroupKey \cup {None}, cpu: BOOLEAN]
ManualStopwatch == [accumulated: Nat, started_at: Nat \cup {None}]
GameWindow      == [pid: Pids, app: AppIds \cup {None}, view: Views]
Modes           == {"Passive", "Interactive"}

CoreState == [game: GameWindow \cup {None}, mode: Modes]

RuntimeMetadata ==
    [bridge_last_report: Nat \cup {None},
     active_identity: Identities \cup {None},
     active_process: ProcessInstance \cup {None},
     active_timing: ProcessTiming \cup {None},
     timing_floor: ProcessTiming \cup {None},
     telemetry: GameTelemetry \cup {None},
     sampler: GroupKey \cup {None},
     stopwatch: ManualStopwatch]

CoreSnapshot ==
    [game: GameWindow \cup {None}, mode: Modes, elapsed: Nat \cup {None},
     telemetry: GameTelemetry \cup {None},
     stopwatch: [elapsed: Nat, running: BOOLEAN]]

\* A window as a source reports it.  "overlay" is OverCrow's own window,
\* "invalid" one whose size or scale is not positive.
Observation ==
    [pid: Pids \cup {None}, view: Views, kind: {"valid", "invalid", "overlay"}]

ASSUME NoneAssumption ==
    None \notin GameWindow \cup ProcessInstance \cup ProcessTiming
               \cup GroupKey \cup Identities \cup Nat

-----------------------------------------------------------------------------
\* Clocks

\* Mutant: the subtraction wraps around.
DurationSinceWrapping(later, earlier) == (later - earlier) % 16

\* Instant subtraction: saturating_duration_since, and equally
\* checked_duration_since(..).unwrap_or_default().
DurationSince(later, earlier) == IF later > earlier THEN later - earlier ELSE 0

elapsed_at(timing, n) == timing.elapsed + DurationSince(n, timing.observed_at)

StoppedStopwatch == [accumulated |-> 0, started_at |-> None]

stopwatch_toggle(sw, n) ==
    IF sw.started_at = None
    THEN [sw EXCEPT !.started_at = n]
    ELSE [accumulated |-> sw.accumulated + DurationSince(n, sw.started_at),
          started_at |-> None]

stopwatch_snapshot_at(sw, n) ==
    [elapsed |-> IF sw.started_at = None THEN sw.accumulated
                 ELSE sw.accumulated + DurationSince(n, sw.started_at),
     running |-> sw.started_at # None]

\* The age of one process instance never goes back: a scan that computes a
\* smaller age than the one already shown is lifted to the floor.
reconcile_process_timing(previous, floor, instance, timing, at) ==
    IF previous # instance THEN [active |-> timing, floor |-> timing]
    ELSE IF timing = None THEN [active |-> None, floor |-> floor]
    ELSE LET lifted == [elapsed |-> elapsed_at(floor, at), observed_at |-> at]
             chosen == IF floor # None
                          /\ elapsed_at(floor, at) > elapsed_at(timing, at)
                       THEN lifted ELSE timing
         IN  [active |-> chosen, floor |-> chosen]

-----------------------------------------------------------------------------
\* Authorisation

allows_identity(s, identity) ==
    \/ identity.app \in s.apps
    \/ identity.exes \cap s.exes # {}

snapshot_has_selected_process(s, table) ==
    \E p \in Pids : table[p] # None /\ allows_identity(s, table[p].identity)

\* allowed_process: the reported pid is in the installed table and its
\* identity is selected.
allowed_process(observation) ==
    /\ observation.pid # None
    /\ processes[observation.pid] # None
    /\ allows_identity(settings, processes[observation.pid].identity)

active_game_is_current(game, m, table, s) ==
    LET p == table[game.pid]
    IN  /\ p # None
        /\ allows_identity(s, p.identity)
        /\ game.app = p.identity.app
        /\ m.active_identity = p.identity
        /\ m.active_process = [pid |-> game.pid, start_ticks |-> p.start_ticks]

-----------------------------------------------------------------------------
\* CoreState and RuntimeMetadata

ClearedState == [game |-> None, mode |-> "Passive"]

ClearedMetadata ==
    [bridge_last_report |-> None, active_identity |-> None,
     active_process |-> None, active_timing |-> None, timing_floor |-> None,
     telemetry |-> None, sampler |-> None, stopwatch |-> StoppedStopwatch]

\* prepare_telemetry_for_process keeps the telemetry and the CPU baseline of
\* the same process instance under the same Steam id.
same_telemetry_group(m, instance, app) ==
    /\ m.active_process = instance
    /\ (IF m.active_identity = None THEN None ELSE m.active_identity.app) = app

\* What apply_bridge_observation_at and apply_x11_observation do to the
\* metadata once the observed process is allowed.
AcceptProcess(m, pid, lease, at) ==
    LET p         == processes[pid]
        instance  == [pid |-> pid, start_ticks |-> p.start_ticks]
        same      == m.active_process = instance
        sameGroup == same_telemetry_group(m, instance, p.identity.app)
        timing    == reconcile_process_timing(m.active_process, m.timing_floor,
                                              instance, p.timing, at)
    IN  [bridge_last_report |-> lease,
         active_identity    |-> p.identity,
         active_process     |-> instance,
         active_timing      |-> timing.active,
         timing_floor       |-> timing.floor,
         telemetry          |-> IF sameGroup THEN m.telemetry ELSE None,
         sampler            |-> IF sameGroup THEN m.sampler ELSE None,
         stopwatch          |-> IF same THEN m.stopwatch ELSE StoppedStopwatch]

refresh_active_process(m, game, table, at) ==
    IF game = None \/ table[game.pid] = None
    THEN [m EXCEPT !.active_process = None, !.active_timing = None,
                   !.timing_floor = None, !.stopwatch = StoppedStopwatch]
    ELSE LET p        == table[game.pid]
             instance == [pid |-> game.pid, start_ticks |-> p.start_ticks]
             timing   == reconcile_process_timing(m.active_process,
                             m.timing_floor, instance, p.timing, at)
         IN  [m EXCEPT !.active_process = instance,
                       !.active_timing = timing.active,
                       !.timing_floor = timing.floor,
                       !.stopwatch = IF m.active_process = instance THEN @
                                     ELSE StoppedStopwatch]

\* collect_process_sample: the resource sample of the game's process group.
collect_process_sample(game, table) ==
    LET p == table[game.pid]
    IN  IF p # None /\ game.app \in {None, p.identity.app}
        THEN [instance |-> [pid |-> game.pid, start_ticks |-> p.start_ticks],
              app      |-> game.app]
        ELSE None

\* refresh_telemetry: a CPU share needs the previous sample of the same group.
refresh_telemetry(m, game, table) ==
    IF game = None THEN [m EXCEPT !.telemetry = None, !.sampler = None]
    ELSE LET sample == collect_process_sample(game, table)
         IN  [m EXCEPT !.sampler = sample,
                       !.telemetry =
                           [group |-> sample,
                            cpu |-> sample # None /\ m.sampler = sample]]

-----------------------------------------------------------------------------
\* Publication

snapshot_with_runtime(s, m, n) ==
    [game      |-> s.game,
     mode      |-> s.mode,
     elapsed   |-> IF s.game = None \/ m.active_timing = None THEN None
                   ELSE elapsed_at(m.active_timing, n),
     telemetry |-> IF s.game = None THEN None ELSE m.telemetry,
     stopwatch |-> stopwatch_snapshot_at(m.stopwatch, n)]

\* The session time and the time of a running stopwatch are left out: the
\* overlay extrapolates them.
snapshot_state_changed(current, next) ==
    \/ current.game # next.game
    \/ current.mode # next.mode
    \/ current.telemetry # next.telemetry
    \/ current.stopwatch.running # next.stopwatch.running
    \/ /\ ~next.stopwatch.running
       /\ current.stopwatch.elapsed # next.stopwatch.elapsed

\* Mutant: every method publishes.
publish_snapshot_always(snapshot) ==
    published' = [revision |-> published.revision + 1, snapshot |-> snapshot]

publish_snapshot(snapshot) ==
    published' =
        IF snapshot_state_changed(published.snapshot, snapshot)
        THEN [revision |-> IF published.revision < MaxRevision
                           THEN published.revision + 1 ELSE MaxRevision,
              snapshot |-> snapshot]
        ELSE published

\* Instants read before the mutex make both clocks gain on repetition.
WithinBounds(m) ==
    /\ m.timing_floor # None => m.timing_floor.elapsed <= MaxElapsed
    /\ m.stopwatch.accumulated <= MaxElapsed

\* The tail of every mutating method: store and publish.
Commit(s, m, n) ==
    /\ WithinBounds(m)
    /\ state' = s
    /\ metadata' = m
    /\ publish_snapshot(snapshot_with_runtime(s, m, n))

clear_game_locked == Commit(ClearedState, ClearedMetadata, now)

\* scan_processes at one instant: any set of processes, each with an age or,
\* when the uptime cannot be read, without one.  A failed scan is empty.
ScannedTables(scanned) ==
    [Pids -> {None} \cup
        [start_ticks: StartTicks, identity: Identities,
         timing: {None} \cup [elapsed: ElapsedSamples,
                              observed_at: {scanned}]]]

\* The instants a caller may have read before it got the mutex.
Recent == {t \in 0..now : now - t <= MaxLag}

-----------------------------------------------------------------------------
\* Actions

\* Core starts with no game, whatever the first scan found.
Init ==
    /\ backend \in Backends
    /\ now = 0
    /\ watchdog_now = 0
    /\ watchdog_busy = (backend = "bridge")
    /\ processes \in ScannedTables(0)
    /\ settings \in Settings
    /\ stopwatch_enabled \in WidgetProfiles
    /\ state = ClearedState
    /\ metadata = ClearedMetadata
    /\ selected_running = snapshot_has_selected_process(settings, processes)
    /\ published = [revision |-> 0,
                    snapshot |-> snapshot_with_runtime(ClearedState,
                                     ClearedMetadata, 0)]

\* A unit of time passes.  The watchdog interval fires in every unit, and its
\* check is made at most MaxLag units after the instant it read.
Tick ==
    /\ now < MaxTime
    /\ backend = "bridge" =>
           IF watchdog_busy THEN now - watchdog_now < MaxLag
           ELSE watchdog_now = now
    /\ now' = now + 1
    /\ UNCHANGED <<backend, watchdog_now, watchdog_busy, processes, settings,
                   stopwatch_enabled, state, metadata, selected_running,
                   published>>

clocks == <<backend, now, watchdog_now, watchdog_busy>>
inputs == <<processes, settings, stopwatch_enabled, selected_running>>

toggle_overlay ==
    /\ Commit([state EXCEPT !.mode =
                  IF state.game # None /\ @ = "Passive"
                  THEN "Interactive" ELSE "Passive"], metadata, now)
    /\ UNCHANGED <<clocks, inputs>>

set_overlay_interactive(interactive) ==
    /\ Commit([state EXCEPT !.mode =
                  IF interactive /\ state.game # None
                  THEN "Interactive" ELSE "Passive"], metadata, now)
    /\ UNCHANGED <<clocks, inputs>>

toggle_manual_stopwatch(at) ==
    /\ Commit(state,
              IF stopwatch_enabled /\ state.game # None
              THEN [metadata EXCEPT !.stopwatch = stopwatch_toggle(@, at)]
              ELSE metadata, at)
    /\ UNCHANGED <<clocks, inputs>>

reset_manual_stopwatch(at) ==
    /\ Commit(state,
              IF stopwatch_enabled /\ state.game # None
              THEN [metadata EXCEPT !.stopwatch = StoppedStopwatch]
              ELSE metadata, at)
    /\ UNCHANGED <<clocks, inputs>>

\* A valid observation either becomes the active game or clears it.
ApplyObservation(observation, lease, at) ==
    IF allowed_process(observation)
    THEN Commit([state EXCEPT !.game =
                    [pid  |-> observation.pid,
                     app  |-> processes[observation.pid].identity.app,
                     view |-> observation.view]],
                AcceptProcess(metadata, observation.pid, lease, at), at)
    ELSE Commit(ClearedState, ClearedMetadata, at)

\* The compositor bridge's ReportWindow call.
report_window(observation, at) ==
    /\ backend = "bridge"
    /\ observation.kind # "overlay"
    /\ IF observation.kind = "invalid" \/ observation.pid = None
       THEN clear_game_locked
       ELSE ApplyObservation(observation, at, at)
    /\ UNCHANGED <<clocks, inputs>>

\* One X11 poll: a window, no window, or a failed poll (both clear the game).
poll_window(observation) ==
    /\ backend = "x11"
    /\ \/ observation = None /\ clear_game_locked
       \/ /\ observation # None
          /\ observation.kind # "overlay"
          /\ IF observation.kind = "invalid" THEN clear_game_locked
             ELSE ApplyObservation(observation, None, now)
    /\ UNCHANGED <<clocks, inputs>>

\* The bridge's ClearWindow, and the session coordinator's clear_game before
\* it stops the session units.
clear_game ==
    /\ clear_game_locked
    /\ UNCHANGED <<clocks, inputs>>

\* The watchdog's interval fires and reads the clock ...
run_bridge_watchdog ==
    /\ backend = "bridge"
    /\ ~watchdog_busy /\ watchdog_now # now
    /\ watchdog_now' = now
    /\ watchdog_busy' = TRUE
    /\ UNCHANGED <<backend, now, inputs, state, metadata, published>>

\* Mutant: the lease lasts one unit longer.
expire_bridge_lease_later ==
    /\ watchdog_busy
    /\ watchdog_busy' = FALSE
    /\ IF metadata.bridge_last_report # None
          /\ DurationSince(watchdog_now, metadata.bridge_last_report)
                > LeaseTimeout
       THEN clear_game_locked
       ELSE UNCHANGED <<state, metadata, published>>
    /\ UNCHANGED <<backend, now, watchdog_now, inputs>>

\* ... and compares it with the last report once it holds the mutex.
expire_bridge_lease ==
    /\ watchdog_busy
    /\ watchdog_busy' = FALSE
    /\ IF metadata.bridge_last_report # None
          /\ DurationSince(watchdog_now, metadata.bridge_last_report)
                >= LeaseTimeout
       THEN clear_game_locked
       ELSE UNCHANGED <<state, metadata, published>>
    /\ UNCHANGED <<backend, now, watchdog_now, inputs>>

\* A scan taken at `scanned` is installed with the instant `at`.
install_refresh_snapshot(table, at) ==
    /\ processes' = table
    /\ selected_running' = snapshot_has_selected_process(settings, table)
    /\ IF state.game # None
          /\ ~active_game_is_current(state.game, metadata, table, settings)
       THEN Commit(ClearedState, ClearedMetadata, at)
       ELSE Commit(state,
                refresh_telemetry(
                    refresh_active_process(metadata, state.game, table, at),
                    state.game, table), at)
    /\ UNCHANGED <<clocks, settings, stopwatch_enabled>>

\* Mutant: the active game is not checked against the new settings.
reload_settings_unchecked(s) ==
    /\ settings' = s
    /\ selected_running' = snapshot_has_selected_process(s, processes)
    /\ Commit(state,
              refresh_active_process(metadata, state.game, processes, now), now)
    /\ UNCHANGED <<clocks, processes, stopwatch_enabled>>

\* A settings file that is invalid or disabled is refused without effect, so
\* only valid, enabled settings appear.
reload_settings(s) ==
    /\ settings' = s
    /\ selected_running' = snapshot_has_selected_process(s, processes)
    /\ IF state.game # None
          /\ ~active_game_is_current(state.game, metadata, processes, s)
       THEN Commit(ClearedState, ClearedMetadata, now)
       ELSE Commit(state,
                refresh_active_process(metadata, state.game, processes, now),
                now)
    /\ UNCHANGED <<clocks, processes, stopwatch_enabled>>

reload_widget_profile(enabled) ==
    /\ stopwatch_enabled' = enabled
    /\ Commit(state, metadata, now)
    /\ UNCHANGED <<clocks, processes, settings, selected_running>>

Next ==
    \/ Tick
    \/ toggle_overlay
    \/ \E b \in BOOLEAN : set_overlay_interactive(b)
    \/ \E at \in Recent : toggle_manual_stopwatch(at)
    \/ \E at \in Recent : reset_manual_stopwatch(at)
    \/ \E o \in Observation, at \in Recent : report_window(o, at)
    \/ \E o \in Observation \cup {None} : poll_window(o)
    \/ clear_game
    \/ run_bridge_watchdog
    \/ expire_bridge_lease
    \/ \E scanned \in Recent :
           \E table \in ScannedTables(scanned), at \in scanned..now :
               install_refresh_snapshot(table, at)
    \/ \E s \in Settings : reload_settings(s)
    \/ \E b \in WidgetProfiles : reload_widget_profile(b)

Spec == Init /\ [][Next]_vars

-----------------------------------------------------------------------------
\* Properties

\* Every variable of the runtime has its type.
TypeOK ==
    /\ backend \in Backends
    /\ now \in Nat /\ watchdog_now \in Nat /\ watchdog_busy \in BOOLEAN
    /\ processes \in ProcessTable
    /\ settings \in Settings
    /\ stopwatch_enabled \in BOOLEAN
    /\ state \in CoreState
    /\ metadata \in RuntimeMetadata
    /\ selected_running \in BOOLEAN
    /\ published \in [revision: Nat, snapshot: CoreSnapshot]

\* The active game is always authorised by the process table and the settings
\* installed NOW, not by those of the report that made it active: same pid,
\* same start time, same identity, still selected.  The session coordinator
\* has been told that a selected process runs.  (runtime.rs revalidates on
\* every scan and every settings reload.)
ActiveGameAuthorised ==
    state.game # None =>
        /\ active_game_is_current(state.game, metadata, processes, settings)
        /\ selected_running

\* The overlay takes input only over an active game, in Core's own state and
\* in the snapshot the overlay renders from: whatever clears the game (scan,
\* settings, lease, bridge) also ends Interactive mode.
InteractiveOverGame ==
    /\ state.mode = "Interactive" => state.game # None
    /\ published.snapshot.mode = "Interactive" => published.snapshot.game # None

\* The published snapshot is never behind the state: after every method it
\* shows the current game, mode and telemetry, and the stopwatch exactly
\* unless it is running, although clear_game_locked and expire_bridge_lease_at
\* publish without the metadata and publish_snapshot skips equal snapshots.
PublishedIsCurrent ==
    ~snapshot_state_changed(published.snapshot,
                            snapshot_with_runtime(state, metadata, now))

\* Without an active game nothing of the last one is left: no lease, identity,
\* clock, telemetry, CPU baseline or stopwatch.
NothingOutlivesTheGame == state.game = None => metadata = ClearedMetadata

\* Telemetry and the CPU baseline come from the active process group only.
TelemetryOfActiveGroup ==
    \A sampled \in {metadata.sampler} \cup
                   (IF metadata.telemetry = None THEN {}
                    ELSE {metadata.telemetry.group}) :
        sampled # None => /\ state.game # None
                          /\ sampled = [instance |-> metadata.active_process,
                                        app |-> state.game.app]

\* On a bridge session a game never outlives a silent bridge: it always has a
\* lease, and the lease is overdue by less than two waits for the mutex, one
\* of the check that just missed it and one of the next.
LeaseBoundsSilence ==
    backend = "bridge" /\ state.game # None =>
        /\ metadata.bridge_last_report # None
        /\ now - metadata.bridge_last_report <=
               LeaseTimeout + MaxLag + (IF MaxLag = 0 THEN 0 ELSE MaxLag - 1)

\* The watchdog drops a game only when its last report really is LeaseTimeout
\* old, even if the report arrived after the watchdog read the clock.
ExpiresInTime ==
    /\ watchdog_busy /\ ~watchdog_busy'
    /\ state.game # None /\ state'.game = None
    => now - metadata.bridge_last_report >= LeaseTimeout

NoEarlyExpiry == [][ExpiresInTime]_vars

\* What a viewer of the state can see.
Visible ==
    LET s == snapshot_with_runtime(state, metadata, now)
    IN  <<s.game, s.mode, s.telemetry, s.stopwatch.running,
          IF s.stopwatch.running THEN 0 ELSE s.stopwatch.elapsed>>

\* Every step that changes what a viewer can see publishes exactly one new
\* revision, and every other step publishes nothing, although publish_snapshot
\* compares with the last PUBLISHED snapshot and not with the last state
\* (until the u64 saturates).
RevisionPerChange ==
    [][ published.revision < MaxRevision =>
          IF Visible' # Visible
          THEN published'.revision = published.revision + 1
          ELSE published' = published ]_vars

\* The session time of one process instance never goes back, whichever clock
\* reading a late report, scan or reload brings along.
SessionTimeGoesOn ==
    /\ metadata.active_process # None
    /\ metadata'.active_process = metadata.active_process
    /\ metadata.timing_floor # None
    => /\ metadata'.timing_floor # None
       /\ metadata'.active_timing \in {None, metadata'.timing_floor}
       /\ elapsed_at(metadata'.timing_floor, now') >=
              elapsed_at(metadata.timing_floor, now)

SessionTimeMonotone == [][SessionTimeGoesOn]_vars

\* A stopwatch, a CPU baseline or telemetry never carries over to another
\* process instance (a restarted game, or a reused pid).
StartsAfresh ==
    metadata'.active_process # metadata.active_process =>
      /\ metadata'.stopwatch = StoppedStopwatch
      /\ metadata'.telemetry = None
      /\ metadata'.sampler = None

NothingCarriesOver == [][StartsAfresh]_vars

\* What holds of Core's state whatever reports, scans, reloads and commands interleave:
\* the active game is authorised, Interactive needs a game, nothing of a game outlives
\* it, telemetry is that of its process group, and the published snapshot is current.
CoreIsSafe ==
    /\ ActiveGameAuthorised /\ InteractiveOverGame /\ NothingOutlivesTheGame
    /\ TelemetryOfActiveGroup /\ PublishedIsCurrent

\* No step of the clocks misjudges a game: none expires early, the session time of a
\* process never goes back, and nothing measured for one process is kept for another.
ClockIsHonest == [][ExpiresInTime /\ SessionTimeGoesOn /\ StartsAfresh]_vars
=============================================================================
