-------------------------- MODULE CoreRuntimeProofs --------------------------
(***************************************************************************)
(* Machine-checked proofs about CoreRuntime, for any set of processes,     *)
(* identities, settings and windows, any lease and any bounds.             *)
(***************************************************************************)
EXTENDS CoreRuntime, TLAPS

-----------------------------------------------------------------------------
\* Type correctness

\* The age of a process at an instant is a natural number.
LEMMA ElapsedType ==
    ASSUME NEW t \in ProcessTiming, NEW n \in Nat
    PROVE  elapsed_at(t, n) \in Nat
BY DEF elapsed_at, DurationSince, ProcessTiming

\* Toggling and resetting a stopwatch yields a stopwatch.
LEMMA StopwatchType ==
    ASSUME NEW sw \in ManualStopwatch, NEW n \in Nat
    PROVE  /\ stopwatch_toggle(sw, n) \in ManualStopwatch
           /\ StoppedStopwatch \in ManualStopwatch
           /\ stopwatch_snapshot_at(sw, n) \in [elapsed: Nat, running: BOOLEAN]
<1>1. sw.started_at # None => DurationSince(n, sw.started_at) \in Nat
  BY DEF ManualStopwatch, DurationSince
<1> QED
  BY <1>1 DEF ManualStopwatch, stopwatch_toggle, StoppedStopwatch,
              stopwatch_snapshot_at

\* Reconciling keeps timings timings.
LEMMA TimingType ==
    ASSUME NEW previous, NEW instance, NEW at \in Nat,
           NEW floor \in ProcessTiming \cup {None},
           NEW timing \in ProcessTiming \cup {None}
    PROVE  LET r == reconcile_process_timing(previous, floor, instance, timing, at)
           IN  /\ r.active \in ProcessTiming \cup {None}
               /\ r.floor \in ProcessTiming \cup {None}
<1>1. floor # None => [elapsed |-> elapsed_at(floor, at), observed_at |-> at]
                        \in ProcessTiming
  BY ElapsedType, Zenon DEF ProcessTiming
<1> QED
  BY <1>1, Zenon DEF reconcile_process_timing

\* A snapshot of a well-typed state is well typed.
LEMMA SnapshotType ==
    ASSUME NEW s \in CoreState, NEW m \in RuntimeMetadata, NEW n \in Nat
    PROVE  snapshot_with_runtime(s, m, n) \in CoreSnapshot
<1>1. m.active_timing # None => elapsed_at(m.active_timing, n) \in Nat
  BY ElapsedType, Zenon DEF RuntimeMetadata
<1>2. stopwatch_snapshot_at(m.stopwatch, n) \in [elapsed: Nat, running: BOOLEAN]
  BY StopwatchType, Zenon DEF RuntimeMetadata
<1> QED
  BY <1>1, <1>2, Zenon DEF snapshot_with_runtime, CoreSnapshot, CoreState,
                    RuntimeMetadata

\* Storing and publishing well-typed values keeps the types.
LEMMA CommitType ==
    ASSUME NEW s \in CoreState, NEW m \in RuntimeMetadata, NEW n \in Nat,
           published \in [revision: Nat, snapshot: CoreSnapshot],
           Commit(s, m, n)
    PROVE  /\ state' \in CoreState
           /\ metadata' \in RuntimeMetadata
           /\ published' \in [revision: Nat, snapshot: CoreSnapshot]
<1>1. snapshot_with_runtime(s, m, n) \in CoreSnapshot
  BY SnapshotType, Zenon
<1> QED
  BY <1>1, ClockAssumption DEF Commit, publish_snapshot

\* The cleared state and metadata are well typed.
LEMMA ClearedType ==
    ClearedState \in CoreState /\ ClearedMetadata \in RuntimeMetadata
BY Zenon DEF ClearedState, ClearedMetadata, CoreState, RuntimeMetadata, Modes,
       StoppedStopwatch, ManualStopwatch

\* Accepting an allowed process yields well-typed metadata.
LEMMA AcceptType ==
    ASSUME processes \in ProcessTable,
           NEW m \in RuntimeMetadata, NEW pid \in Pids, processes[pid] # None,
           NEW lease \in Nat \cup {None}, NEW at \in Nat
    PROVE  AcceptProcess(m, pid, lease, at) \in RuntimeMetadata
<1> DEFINE p == processes[pid]
           instance == [pid |-> pid, start_ticks |-> p.start_ticks]
           r == reconcile_process_timing(m.active_process, m.timing_floor,
                                         instance, p.timing, at)
<1>1. p \in ProcessInfo
  BY Zenon DEF ProcessTable
<1>2. instance \in ProcessInstance
  BY <1>1, Zenon DEF ProcessInfo, ProcessInstance
<1>3. r.active \in ProcessTiming \cup {None} /\ r.floor \in ProcessTiming \cup {None}
  <2>1. m.timing_floor \in ProcessTiming \cup {None}
    BY Zenon DEF RuntimeMetadata
  <2>2. p.timing \in ProcessTiming \cup {None}
    BY <1>1, Zenon DEF ProcessInfo
  <2> QED
    BY <2>1, <2>2, TimingType, Zenon
<1>4. StoppedStopwatch \in ManualStopwatch
  BY Zenon DEF StoppedStopwatch, ManualStopwatch
<1> HIDE DEF instance, r
<1> QED
  BY <1>1, <1>2, <1>3, <1>4, Zenon
     DEF AcceptProcess, same_telemetry_group, RuntimeMetadata, ProcessInfo, instance, r

\* Refreshing the active process yields well-typed metadata.
LEMMA RefreshType ==
    ASSUME NEW m \in RuntimeMetadata, NEW game \in GameWindow \cup {None},
           NEW table \in ProcessTable, NEW at \in Nat
    PROVE  refresh_active_process(m, game, table, at) \in RuntimeMetadata
<1> DEFINE p == table[game.pid]
           instance == [pid |-> game.pid, start_ticks |-> p.start_ticks]
           r == reconcile_process_timing(m.active_process, m.timing_floor,
                                         instance, p.timing, at)
<1>0. StoppedStopwatch \in ManualStopwatch
  BY Zenon DEF StoppedStopwatch, ManualStopwatch
<1>1. CASE game = None \/ p = None
  BY <1>0, <1>1, ZenonT(30) DEF refresh_active_process, RuntimeMetadata
<1>2. CASE game # None /\ p # None
  <2>1. game.pid \in Pids
    BY <1>2, Zenon DEF GameWindow
  <2>2. p \in ProcessInfo
    BY <1>2, <2>1, Zenon DEF ProcessTable
  <2>3. instance \in ProcessInstance
    BY <2>1, <2>2, Zenon DEF ProcessInfo, ProcessInstance
  <2>4. r.active \in ProcessTiming \cup {None} /\ r.floor \in ProcessTiming \cup {None}
    <3>1. m.timing_floor \in ProcessTiming \cup {None}
      BY Zenon DEF RuntimeMetadata
    <3>2. p.timing \in ProcessTiming \cup {None}
      BY <2>2, Zenon DEF ProcessInfo
    <3> QED
      BY <3>1, <3>2, TimingType, Zenon
  <2>5. refresh_active_process(m, game, table, at) =
          [m EXCEPT !.active_process = instance,
                    !.active_timing = r.active,
                    !.timing_floor = r.floor,
                    !.stopwatch = IF m.active_process = instance
                                  THEN m.stopwatch ELSE StoppedStopwatch]
    BY <1>2, Zenon DEF refresh_active_process, RuntimeMetadata
  <2> HIDE DEF instance, r
  <2> QED
    BY <1>0, <2>3, <2>4, <2>5, ZenonT(30) DEF RuntimeMetadata
<1> QED
  BY <1>1, <1>2, Zenon

\* Refreshing the telemetry yields well-typed metadata.
LEMMA TelemetryType ==
    ASSUME NEW m \in RuntimeMetadata, NEW game \in GameWindow \cup {None},
           NEW table \in ProcessTable
    PROVE  refresh_telemetry(m, game, table) \in RuntimeMetadata
<1> DEFINE sample == collect_process_sample(game, table)
<1>1. CASE game = None
  BY <1>1, ZenonT(30) DEF refresh_telemetry, RuntimeMetadata
<1>2. CASE game # None
  <2>1. sample \in GroupKey \cup {None}
    <3>1. game.pid \in Pids /\ game.app \in AppIds \cup {None}
      BY <1>2, Zenon DEF GameWindow
    <3>2. table[game.pid] # None => table[game.pid].start_ticks \in StartTicks
      BY <3>1, Zenon DEF ProcessTable, ProcessInfo
    <3> QED
      BY <3>1, <3>2, Zenon DEF collect_process_sample, GroupKey, ProcessInstance
  <2>2. [group |-> sample, cpu |-> sample # None /\ m.sampler = sample]
          \in GameTelemetry
    BY <2>1, Zenon DEF GameTelemetry
  <2> HIDE DEF sample
  <2>3. refresh_telemetry(m, game, table) =
          [m EXCEPT !.sampler = sample,
                    !.telemetry = [group |-> sample,
                                   cpu |-> sample # None /\ m.sampler = sample]]
    BY <1>2, Zenon DEF refresh_telemetry, sample
  <2> QED
    BY <2>1, <2>2, <2>3, ZenonT(30) DEF RuntimeMetadata
<1> QED
  BY <1>1, <1>2, Zenon

\* A scan is a process table.
LEMMA ScanType ==
    ASSUME NEW scanned \in Nat
    PROVE  ScannedTables(scanned) \subseteq ProcessTable
BY ClockAssumption, Zenon DEF ScannedTables, ProcessTable, ProcessInfo, ProcessTiming

\* A valid observation leaves well-typed state behind.
LEMMA ObservationType ==
    ASSUME TypeOK, NEW o \in Observation, NEW lease \in Nat \cup {None},
           NEW at \in Nat, ApplyObservation(o, lease, at)
    PROVE  /\ state' \in CoreState
           /\ metadata' \in RuntimeMetadata
           /\ published' \in [revision: Nat, snapshot: CoreSnapshot]
<1> USE DEF TypeOK
<1>1. CASE allowed_process(o)
  <2>1. o.pid \in Pids /\ o.view \in Views /\ processes[o.pid] # None
    BY <1>1, Zenon DEF allowed_process, Observation
  <2>2. processes[o.pid].identity.app \in AppIds \cup {None}
    BY <2>1, DataAssumption, Zenon DEF ProcessTable, ProcessInfo
  <2> DEFINE g == [pid |-> o.pid, app |-> processes[o.pid].identity.app,
                   view |-> o.view]
  <2>3. [state EXCEPT !.game = g] \in CoreState
    BY <2>1, <2>2, Zenon DEF CoreState, GameWindow
  <2>4. AcceptProcess(metadata, o.pid, lease, at) \in RuntimeMetadata
    BY <2>1, AcceptType, Zenon
  <2>5. Commit([state EXCEPT !.game = g],
               AcceptProcess(metadata, o.pid, lease, at), at)
    BY <1>1, Zenon DEF ApplyObservation
  <2> HIDE DEF g
  <2> QED
    BY <2>3, <2>4, <2>5, CommitType, Zenon
<1>2. CASE ~allowed_process(o)
  BY <1>2, ClearedType, CommitType, Zenon DEF ApplyObservation
<1> QED
  BY <1>1, <1>2, Zenon

\* The initial state is well typed.
LEMMA InitType == Init => TypeOK
<1> SUFFICES ASSUME Init PROVE TypeOK
  BY Zenon
<1>1. processes \in ProcessTable
  BY ScanType, Zenon DEF Init
<1>2. ClearedState \in CoreState /\ ClearedMetadata \in RuntimeMetadata
  BY ClearedType, Zenon
<1>3. snapshot_with_runtime(ClearedState, ClearedMetadata, 0) \in CoreSnapshot
  BY <1>2, SnapshotType, Zenon
<1>4. selected_running \in BOOLEAN
  BY Zenon DEF Init, snapshot_has_selected_process
<1> QED
  BY <1>1, <1>2, <1>3, <1>4, DataAssumption, Zenon DEF Init, TypeOK

\* Every step keeps the types.
LEMMA NextType == TypeOK /\ [Next]_vars => TypeOK'
<1> SUFFICES ASSUME TypeOK, [Next]_vars PROVE TypeOK'
  BY Zenon
<1> USE DEF TypeOK
<1>c. clear_game_locked =>
        /\ state' \in CoreState /\ metadata' \in RuntimeMetadata
        /\ published' \in [revision: Nat, snapshot: CoreSnapshot]
  BY ClearedType, CommitType, Zenon DEF clear_game_locked
<1>r. Recent \subseteq Nat
  BY DEF Recent
<1>1. CASE Tick
  BY <1>1 DEF Tick
<1>2. CASE toggle_overlay
  <2> DEFINE s == [state EXCEPT !.mode =
                     IF state.game # None /\ @ = "Passive"
                     THEN "Interactive" ELSE "Passive"]
  <2>1. s \in CoreState
    BY Zenon DEF CoreState, Modes
  <2>2. Commit(s, metadata, now)
    BY <1>2, Zenon DEF toggle_overlay
  <2> HIDE DEF s
  <2> QED
    BY <1>2, <2>1, <2>2, CommitType, Zenon DEF toggle_overlay, clocks, inputs
<1>3. ASSUME NEW b \in BOOLEAN, set_overlay_interactive(b) PROVE TypeOK'
  <2> DEFINE s == [state EXCEPT !.mode =
                     IF b /\ state.game # None
                     THEN "Interactive" ELSE "Passive"]
  <2>1. s \in CoreState
    BY Zenon DEF CoreState, Modes
  <2>2. Commit(s, metadata, now)
    BY <1>3, Zenon DEF set_overlay_interactive
  <2> HIDE DEF s
  <2> QED
    BY <1>3, <2>1, <2>2, CommitType, Zenon DEF set_overlay_interactive, clocks, inputs
<1>4. ASSUME NEW at \in Recent, toggle_manual_stopwatch(at) PROVE TypeOK'
  <2> DEFINE m == IF stopwatch_enabled /\ state.game # None
                  THEN [metadata EXCEPT !.stopwatch =
                            stopwatch_toggle(metadata.stopwatch, at)]
                  ELSE metadata
  <2>1. m \in RuntimeMetadata
    <3>1. stopwatch_toggle(metadata.stopwatch, at) \in ManualStopwatch
      BY <1>r, StopwatchType, Zenon DEF RuntimeMetadata
    <3> QED
      BY <3>1, Zenon DEF RuntimeMetadata
  <2>2. Commit(state, m, at)
    BY <1>4, Zenon DEF toggle_manual_stopwatch
  <2> HIDE DEF m
  <2> QED
    BY <1>4, <1>r, <2>1, <2>2, CommitType, Zenon
       DEF toggle_manual_stopwatch, clocks, inputs
<1>5. ASSUME NEW at \in Recent, reset_manual_stopwatch(at) PROVE TypeOK'
  <2> DEFINE m == IF stopwatch_enabled /\ state.game # None
                  THEN [metadata EXCEPT !.stopwatch = StoppedStopwatch]
                  ELSE metadata
  <2>1. m \in RuntimeMetadata
    BY Zenon DEF RuntimeMetadata, StoppedStopwatch, ManualStopwatch
  <2>2. Commit(state, m, at)
    BY <1>5, Zenon DEF reset_manual_stopwatch
  <2> HIDE DEF m
  <2> QED
    BY <1>5, <1>r, <2>1, <2>2, CommitType, Zenon
       DEF reset_manual_stopwatch, clocks, inputs
<1>6. ASSUME NEW o \in Observation, NEW at \in Recent, report_window(o, at)
      PROVE TypeOK'
  <2>1. CASE o.kind = "invalid" \/ o.pid = None
    BY <1>6, <1>c, <2>1, Zenon DEF report_window, clocks, inputs
  <2>2. CASE ~(o.kind = "invalid" \/ o.pid = None)
    <3>1. ApplyObservation(o, at, at)
      BY <1>6, <2>2, Zenon DEF report_window
    <3>2. /\ state' \in CoreState /\ metadata' \in RuntimeMetadata
          /\ published' \in [revision: Nat, snapshot: CoreSnapshot]
      BY <1>6, <1>r, <3>1, ObservationType, Zenon
    <3> QED
      BY <1>6, <3>2, Zenon DEF report_window, clocks, inputs
  <2> QED
    BY <2>1, <2>2, Zenon
<1>7. ASSUME NEW o \in Observation \cup {None}, poll_window(o) PROVE TypeOK'
  <2>1. CASE clear_game_locked
    BY <1>7, <1>c, <2>1, Zenon DEF poll_window, clocks, inputs
  <2>2. CASE o \in Observation /\ ApplyObservation(o, None, now)
    <3>1. /\ state' \in CoreState /\ metadata' \in RuntimeMetadata
          /\ published' \in [revision: Nat, snapshot: CoreSnapshot]
      BY <2>2, ObservationType, ZenonT(30)
    <3> QED
      BY <1>7, <3>1, Zenon DEF poll_window, clocks, inputs
  <2> QED
    BY <1>7, <2>1, <2>2, Zenon DEF poll_window
<1>8. CASE clear_game
  BY <1>8, <1>c, Zenon DEF clear_game, clocks, inputs
<1>9. CASE run_bridge_watchdog
  BY <1>9, Zenon DEF run_bridge_watchdog, inputs
<1>10. CASE expire_bridge_lease
  BY <1>10, <1>c, ZenonT(30) DEF expire_bridge_lease, inputs
<1>11. ASSUME NEW scanned \in Recent, NEW table \in ScannedTables(scanned),
              NEW at \in scanned..now, install_refresh_snapshot(table, at)
       PROVE TypeOK'
  <2>1. table \in ProcessTable /\ at \in Nat
    BY <1>r, ScanType
  <2>2. selected_running' \in BOOLEAN
    BY <1>11, Zenon DEF install_refresh_snapshot, snapshot_has_selected_process
  <2> DEFINE m1 == refresh_active_process(metadata, state.game, table, at)
             m2 == refresh_telemetry(m1, state.game, table)
  <2>3. state.game \in GameWindow \cup {None}
    BY Zenon DEF CoreState
  <2>4. m1 \in RuntimeMetadata
    BY <2>1, <2>3, RefreshType, ZenonT(30)
  <2> HIDE DEF m1
  <2>5. m2 \in RuntimeMetadata
    BY <2>1, <2>3, <2>4, TelemetryType, ZenonT(30)
  <2> HIDE DEF m2
  <2>6. \/ Commit(ClearedState, ClearedMetadata, at)
        \/ Commit(state, m2, at)
    BY <1>11, Zenon DEF install_refresh_snapshot, m1, m2
  <2>7. /\ state' \in CoreState /\ metadata' \in RuntimeMetadata
        /\ published' \in [revision: Nat, snapshot: CoreSnapshot]
    BY <2>1, <2>5, <2>6, ClearedType, CommitType, Zenon
  <2> QED
    BY <1>11, <2>1, <2>2, <2>7, Zenon DEF install_refresh_snapshot, clocks
<1>12. ASSUME NEW s \in Settings, reload_settings(s) PROVE TypeOK'
  <2>2. selected_running' \in BOOLEAN
    BY <1>12, Zenon DEF reload_settings, snapshot_has_selected_process
  <2> DEFINE m1 == refresh_active_process(metadata, state.game, processes, now)
  <2>3. state.game \in GameWindow \cup {None}
    BY Zenon DEF CoreState
  <2>4. m1 \in RuntimeMetadata
    BY <2>3, RefreshType, Zenon
  <2> HIDE DEF m1
  <2>6. \/ Commit(ClearedState, ClearedMetadata, now)
        \/ Commit(state, m1, now)
    BY <1>12, Zenon DEF reload_settings, m1
  <2>7. /\ state' \in CoreState /\ metadata' \in RuntimeMetadata
        /\ published' \in [revision: Nat, snapshot: CoreSnapshot]
    BY <2>4, <2>6, ClearedType, CommitType, Zenon
  <2> QED
    BY <1>12, <2>2, <2>7, Zenon DEF reload_settings, clocks
<1>13. ASSUME NEW b \in WidgetProfiles, reload_widget_profile(b) PROVE TypeOK'
  <2>1. Commit(state, metadata, now)
    BY <1>13, Zenon DEF reload_widget_profile
  <2> QED
    BY <1>13, <2>1, CommitType, DataAssumption, Zenon DEF reload_widget_profile, clocks
<1>14. CASE UNCHANGED vars
  BY <1>14, Zenon DEF vars
<1> QED
  BY <1>1, <1>2, <1>3, <1>4, <1>5, <1>6, <1>7, <1>8, <1>9, <1>10, <1>11,
     <1>12, <1>13, <1>14, Zenon DEF Next

\* CoreRuntime's variables always have their types.
THEOREM TypeCorrect == Spec => []TypeOK
BY InitType, NextType, PTL DEF Spec

-----------------------------------------------------------------------------
\* Authorisation and cleanup

\* What holds of the state and the metadata together with the table and the
\* settings they were checked against.
Consistent(s, m, table, cfg) ==
    /\ s.game # None => active_game_is_current(s.game, m, table, cfg)
    /\ s.mode = "Interactive" => s.game # None
    /\ s.game = None => m = ClearedMetadata
    /\ m.sampler # None =>
           /\ s.game # None
           /\ m.sampler = [instance |-> m.active_process, app |-> s.game.app]
    /\ m.telemetry # None /\ m.telemetry.group # None =>
           /\ s.game # None
           /\ m.telemetry.group = [instance |-> m.active_process,
                                   app |-> s.game.app]

\* The inductive invariant of the runtime.
RuntimeInv ==
    /\ TypeOK
    /\ Consistent(state, metadata, processes, settings)
    /\ selected_running = snapshot_has_selected_process(settings, processes)
    /\ PublishedIsCurrent

\* The cleared state is consistent with every table.
LEMMA ClearedConsistent ==
    ASSUME NEW table, NEW cfg
    PROVE  Consistent(ClearedState, ClearedMetadata, table, cfg)
BY Zenon DEF Consistent, ClearedState, ClearedMetadata

\* Whether a snapshot is outdated does not depend on when one asks.
LEMMA OutdatedAnytime ==
    ASSUME NEW s, NEW m, NEW x, NEW n, NEW k,
           ~snapshot_state_changed(x, snapshot_with_runtime(s, m, n))
    PROVE  ~snapshot_state_changed(x, snapshot_with_runtime(s, m, k))
BY ZenonT(30) DEF snapshot_state_changed, snapshot_with_runtime, stopwatch_snapshot_at

\* What is stored is what is published.
LEMMA CommitCurrent ==
    ASSUME NEW s, NEW m, NEW n, Commit(s, m, n)
    PROVE  PublishedIsCurrent'
<1>1. state' = s /\ metadata' = m
  BY Zenon DEF Commit
<1> DEFINE snap == snapshot_with_runtime(s, m, n)
<1>2. ~snapshot_state_changed(snap, snap)
  BY Zenon DEF snapshot_state_changed
<1>3. ~snapshot_state_changed(published'.snapshot, snap)
  <2> HIDE DEF snap
  <2>1. published' = IF snapshot_state_changed(published.snapshot, snap)
                     THEN [revision |-> IF published.revision < MaxRevision
                                        THEN published.revision + 1
                                        ELSE MaxRevision,
                           snapshot |-> snap]
                     ELSE published
    BY Zenon DEF Commit, publish_snapshot, snap
  <2> QED
    BY <1>2, <2>1, Zenon
<1>4. ~snapshot_state_changed(published'.snapshot, snapshot_with_runtime(s, m, now'))
  BY <1>3, OutdatedAnytime, Zenon
<1> QED
  BY <1>1, <1>4, Zenon DEF PublishedIsCurrent

\* An observation leaves a consistent state.
LEMMA ObservationConsistent ==
    ASSUME RuntimeInv, NEW o \in Observation, NEW lease \in Nat \cup {None},
           NEW at \in Nat, ApplyObservation(o, lease, at)
    PROVE  /\ Consistent(state', metadata', processes, settings)
           /\ PublishedIsCurrent'
<1>1. CASE allowed_process(o)
  <2> DEFINE p == processes[o.pid]
             g == [pid |-> o.pid, app |-> p.identity.app, view |-> o.view]
             m == AcceptProcess(metadata, o.pid, lease, at)
  <2>1. /\ o.pid \in Pids /\ o.view \in Views /\ p # None
        /\ allows_identity(settings, p.identity)
    BY <1>1, Zenon DEF allowed_process, Observation
  <2>2. p \in ProcessInfo /\ p.identity.app \in AppIds \cup {None}
    BY <2>1, DataAssumption DEF RuntimeInv, TypeOK, ProcessTable, ProcessInfo
  <2>3. g # None
    BY <2>1, <2>2, NoneAssumption DEF GameWindow
  <2>4. Commit([state EXCEPT !.game = g], m, at)
    BY <1>1, Zenon DEF ApplyObservation
  <2>5. state' = [state EXCEPT !.game = g] /\ metadata' = m
    BY <2>4, Zenon DEF Commit
  <2>6. state'.game = g
    BY <2>5, Zenon DEF RuntimeInv, TypeOK, CoreState
  <2>7. active_game_is_current(g, m, processes, settings)
    BY <2>1, Zenon DEF active_game_is_current, AcceptProcess
  <2>8. /\ m.sampler # None =>
             m.sampler = [instance |-> m.active_process, app |-> g.app]
        /\ m.telemetry # None /\ m.telemetry.group # None =>
             m.telemetry.group = [instance |-> m.active_process, app |-> g.app]
    <3> DEFINE instance == [pid |-> o.pid, start_ticks |-> p.start_ticks]
    <3>1. m.active_process = instance
      BY Zenon DEF AcceptProcess, same_telemetry_group
    <3>2. CASE /\ metadata.active_process = instance
               /\ metadata.active_identity # None
               /\ metadata.active_identity.app = p.identity.app
      <4>1. state.game # None => state.game.app = p.identity.app
        BY <3>2, Zenon DEF RuntimeInv, Consistent, active_game_is_current
      <4>2. m.sampler = metadata.sampler /\ m.telemetry = metadata.telemetry
        BY <3>2, Zenon DEF AcceptProcess, same_telemetry_group
      <4> QED
        BY <3>1, <3>2, <4>1, <4>2, Zenon DEF RuntimeInv, Consistent
    <3>3. CASE metadata.active_process = instance /\ metadata.active_identity = None
      <4>1. instance # None
        BY <2>1, <2>2, NoneAssumption, SMTT(30) DEF ProcessInstance, ProcessInfo
      <4>2. state.game = None
        <5> SUFFICES ASSUME state.game # None PROVE FALSE
          BY Zenon
        <5>1. state.game.pid \in Pids
          BY Zenon DEF RuntimeInv, TypeOK, CoreState, GameWindow
        <5>2. processes[state.game.pid] # None
          BY Zenon DEF RuntimeInv, Consistent, active_game_is_current
        <5>3. processes[state.game.pid].identity \in Identities
          BY <5>1, <5>2, Zenon DEF RuntimeInv, TypeOK, ProcessTable, ProcessInfo
        <5> QED
          BY <3>3, <5>3, NoneAssumption, Zenon
             DEF RuntimeInv, Consistent, active_game_is_current
      <4>3. metadata.active_process = None
        BY <4>2, SMTT(30) DEF RuntimeInv, Consistent, ClearedMetadata
      <4> QED
        BY <3>3, <4>1, <4>3, Zenon
    <3>4. CASE ~(/\ metadata.active_process = instance
                 /\ (IF metadata.active_identity = None THEN None
                     ELSE metadata.active_identity.app) = p.identity.app)
      BY <3>4, ZenonT(30) DEF AcceptProcess, same_telemetry_group
    <3> QED
      BY <3>2, <3>3, <3>4, Zenon
  <2> HIDE DEF m, g
  <2>9. PublishedIsCurrent'
    BY <2>4, CommitCurrent, Zenon
  <2> QED
    BY <2>3, <2>5, <2>6, <2>7, <2>8, <2>9, Zenon DEF Consistent
<1>2. CASE ~allowed_process(o)
  <2>1. Commit(ClearedState, ClearedMetadata, at)
    BY <1>2, Zenon DEF ApplyObservation
  <2>2. state' = ClearedState /\ metadata' = ClearedMetadata
    BY <2>1, Zenon DEF Commit
  <2> QED
    BY <2>1, <2>2, ClearedConsistent, CommitCurrent, Zenon
<1> QED
  BY <1>1, <1>2, Zenon

\* Changing the mode over a game, or the stopwatch, keeps consistency.
LEMMA ModeConsistent ==
    ASSUME RuntimeInv, NEW mode \in Modes,
           mode = "Interactive" => state.game # None
    PROVE  Consistent([state EXCEPT !.mode = mode], metadata, processes, settings)
<1>1. /\ [state EXCEPT !.mode = mode].game = state.game
      /\ [state EXCEPT !.mode = mode].mode = mode
  BY Zenon DEF RuntimeInv, TypeOK, CoreState
<1> QED
  BY <1>1, Zenon DEF RuntimeInv, Consistent

\* Operating the stopwatch of an active game keeps the rest consistent.
LEMMA StopwatchConsistent ==
    ASSUME RuntimeInv, state.game # None, NEW sw
    PROVE  Consistent(state, [metadata EXCEPT !.stopwatch = sw],
                      processes, settings)
<1> DEFINE m == [metadata EXCEPT !.stopwatch = sw]
<1>1. /\ m.active_identity = metadata.active_identity
      /\ m.active_process = metadata.active_process
      /\ m.sampler = metadata.sampler
      /\ m.telemetry = metadata.telemetry
  BY Zenon DEF RuntimeInv, TypeOK, RuntimeMetadata
<1> HIDE DEF m
<1>2. Consistent(state, m, processes, settings)
  BY <1>1, Zenon DEF RuntimeInv, Consistent, active_game_is_current
<1> QED
  BY <1>2, Zenon DEF m

\* A game that is still current after a scan or a reload stays consistent
\* when its process is refreshed, and without a game nothing changes.
LEMMA RefreshConsistent ==
    ASSUME RuntimeInv, NEW table \in ProcessTable, NEW cfg, NEW at \in Nat,
           state.game # None =>
               active_game_is_current(state.game, metadata, table, cfg)
    PROVE  Consistent(state,
                      refresh_active_process(metadata, state.game, table, at),
                      table, cfg)
<1> DEFINE m == refresh_active_process(metadata, state.game, table, at)
<1>1. CASE state.game = None
  <2>1. metadata = ClearedMetadata
    BY <1>1, Zenon DEF RuntimeInv, Consistent
  <2>2. m = ClearedMetadata
    BY <1>1, <2>1, ZenonT(30) DEF refresh_active_process, ClearedMetadata
  <2> HIDE DEF m
  <2>3. Consistent(state, m, table, cfg)
    BY <1>1, <2>1, <2>2, Zenon DEF RuntimeInv, Consistent
  <2> QED
    BY <2>3, Zenon DEF m
<1>2. CASE state.game # None
  <2>1. table[state.game.pid] # None
    BY <1>2, Zenon DEF active_game_is_current
  <2>2. metadata.active_process =
          [pid |-> state.game.pid, start_ticks |-> table[state.game.pid].start_ticks]
    BY <1>2, Zenon DEF active_game_is_current
  <2>3. /\ m.active_identity = metadata.active_identity
        /\ m.active_process = metadata.active_process
        /\ m.sampler = metadata.sampler
        /\ m.telemetry = metadata.telemetry
    BY <1>2, <2>1, <2>2, Zenon
       DEF refresh_active_process, RuntimeInv, TypeOK, RuntimeMetadata
  <2> HIDE DEF m
  <2>4. Consistent(state, m, table, cfg)
    BY <1>2, <2>3, Zenon DEF RuntimeInv, Consistent, active_game_is_current
  <2> QED
    BY <2>4, Zenon DEF m
<1> QED
  BY <1>1, <1>2, Zenon

\* A fresh sample belongs to the active game's group.
LEMMA SampleConsistent ==
    ASSUME NEW s \in CoreState, NEW m \in RuntimeMetadata,
           NEW table \in ProcessTable, NEW cfg, Consistent(s, m, table, cfg)
    PROVE  Consistent(s, refresh_telemetry(m, s.game, table), table, cfg)
<1> DEFINE r == refresh_telemetry(m, s.game, table)
           sample == collect_process_sample(s.game, table)
<1>1. CASE s.game = None
  <2>1. m = ClearedMetadata
    BY <1>1, Zenon DEF Consistent
  <2>3. [m EXCEPT !.telemetry = None, !.sampler = None] = m
    <3>1. m.telemetry = None /\ m.sampler = None
      BY <2>1, Zenon DEF ClearedMetadata
    <3>2. [m EXCEPT !.telemetry = None] = m
      BY <3>1, Zenon DEF RuntimeMetadata
    <3>3. [m EXCEPT !.sampler = None] = m
      BY <3>1, Zenon DEF RuntimeMetadata
    <3> QED
      BY <3>2, <3>3, ZenonT(30)
  <2>2. r = m
    BY <1>1, <2>1, <2>3, Zenon DEF refresh_telemetry
  <2> HIDE DEF r
  <2> QED
    BY <2>2, Zenon DEF r
<1>2. CASE s.game # None
  <2>1. /\ r.active_identity = m.active_identity
        /\ r.active_process = m.active_process
        /\ r.sampler = sample
        /\ r.telemetry.group = sample
    BY <1>2, Zenon DEF refresh_telemetry, RuntimeMetadata
  <2>2. sample # None =>
          sample = [instance |-> m.active_process, app |-> s.game.app]
    BY <1>2, Zenon DEF collect_process_sample, Consistent, active_game_is_current
  <2> HIDE DEF r, sample
  <2>3. Consistent(s, r, table, cfg)
    BY <1>2, <2>1, <2>2, Zenon DEF Consistent, active_game_is_current
  <2> QED
    BY <2>3, Zenon DEF r
<1> QED
  BY <1>1, <1>2, Zenon

\* Core starts in its invariant.
LEMMA InitInv == Init => RuntimeInv
<1> SUFFICES ASSUME Init PROVE RuntimeInv
  BY Zenon
<1>1. TypeOK
  BY InitType, Zenon
<1>2. Consistent(state, metadata, processes, settings)
  BY ClearedConsistent, Zenon DEF Init
<1>3. PublishedIsCurrent
  BY Zenon DEF Init, PublishedIsCurrent, snapshot_state_changed
<1> QED
  BY <1>1, <1>2, <1>3, Zenon DEF RuntimeInv, Init

\* Every step keeps the invariant.
LEMMA NextInv == RuntimeInv /\ [Next]_vars => RuntimeInv'
<1> SUFFICES ASSUME RuntimeInv, [Next]_vars PROVE RuntimeInv'
  BY Zenon
<1>t. TypeOK /\ TypeOK'
  BY NextType, Zenon DEF RuntimeInv
<1>r. Recent \subseteq Nat
  BY <1>t DEF Recent, TypeOK
<1> DEFINE Kept == UNCHANGED <<processes, settings, selected_running>>
           Good == /\ Consistent(state', metadata', processes', settings')
                   /\ PublishedIsCurrent'
<1>k. Kept /\ Good => RuntimeInv'
  BY <1>t, Zenon DEF RuntimeInv, snapshot_has_selected_process
<1>c. clear_game_locked /\ Kept => Good
  <2> SUFFICES ASSUME clear_game_locked, Kept PROVE Good
    BY Zenon
  <2>1. state' = ClearedState /\ metadata' = ClearedMetadata
    BY Zenon DEF clear_game_locked, Commit
  <2>2. PublishedIsCurrent'
    BY CommitCurrent, Zenon DEF clear_game_locked
  <2> QED
    BY <2>1, <2>2, ClearedConsistent, Zenon
<1>u. UNCHANGED <<state, metadata, published>> /\ Kept => Good
  <2> SUFFICES ASSUME UNCHANGED <<state, metadata, published>>, Kept PROVE Good
    BY Zenon
  <2>1. ~snapshot_state_changed(published.snapshot,
                               snapshot_with_runtime(state, metadata, now'))
    BY OutdatedAnytime, Zenon DEF RuntimeInv, PublishedIsCurrent
  <2> QED
    BY <2>1, Zenon DEF RuntimeInv, PublishedIsCurrent
<1>1. CASE Tick
  BY <1>1, <1>k, <1>u, Zenon DEF Tick
<1>2. CASE toggle_overlay
  <2> DEFINE mode == IF state.game # None /\ state.mode = "Passive"
                     THEN "Interactive" ELSE "Passive"
  <2>1. Commit([state EXCEPT !.mode = mode], metadata, now)
    BY <1>2, Zenon DEF toggle_overlay
  <2>2. Consistent([state EXCEPT !.mode = mode], metadata, processes, settings)
    BY ModeConsistent, Zenon DEF Modes
  <2>3. state' = [state EXCEPT !.mode = mode] /\ metadata' = metadata
    BY <2>1, Zenon DEF Commit
  <2>4. PublishedIsCurrent'
    BY <2>1, CommitCurrent, Zenon
  <2>5. Kept
    BY <1>2, Zenon DEF toggle_overlay, inputs
  <2> QED
    BY <1>k, <2>2, <2>3, <2>4, <2>5, Zenon
<1>3. ASSUME NEW b \in BOOLEAN, set_overlay_interactive(b) PROVE RuntimeInv'
  <2> DEFINE mode == IF b /\ state.game # None THEN "Interactive" ELSE "Passive"
  <2>1. Commit([state EXCEPT !.mode = mode], metadata, now)
    BY <1>3, Zenon DEF set_overlay_interactive
  <2>2. Consistent([state EXCEPT !.mode = mode], metadata, processes, settings)
    BY ModeConsistent, Zenon DEF Modes
  <2>3. state' = [state EXCEPT !.mode = mode] /\ metadata' = metadata
    BY <2>1, Zenon DEF Commit
  <2>4. PublishedIsCurrent'
    BY <2>1, CommitCurrent, Zenon
  <2>5. Kept
    BY <1>3, Zenon DEF set_overlay_interactive, inputs
  <2> QED
    BY <1>k, <2>2, <2>3, <2>4, <2>5, Zenon
<1>s. ASSUME NEW sw, NEW at,
             Commit(state, IF stopwatch_enabled /\ state.game # None
                           THEN [metadata EXCEPT !.stopwatch = sw]
                           ELSE metadata, at),
             UNCHANGED inputs
      PROVE  RuntimeInv'
  <2> DEFINE m == IF stopwatch_enabled /\ state.game # None
                  THEN [metadata EXCEPT !.stopwatch = sw] ELSE metadata
  <2>1. Consistent(state, m, processes, settings)
    BY StopwatchConsistent, Zenon DEF RuntimeInv
  <2> HIDE DEF m
  <2>2. Commit(state, m, at)
    BY <1>s, Zenon DEF m
  <2>3. state' = state /\ metadata' = m
    BY <2>2, Zenon DEF Commit
  <2>4. PublishedIsCurrent'
    BY <2>2, CommitCurrent, Zenon
  <2>5. Kept
    BY <1>s, Zenon DEF inputs
  <2> QED
    BY <1>k, <2>1, <2>3, <2>4, <2>5, Zenon
<1>4. ASSUME NEW at \in Recent, toggle_manual_stopwatch(at) PROVE RuntimeInv'
  <2>1. Commit(state, IF stopwatch_enabled /\ state.game # None
                      THEN [metadata EXCEPT !.stopwatch =
                               stopwatch_toggle(metadata.stopwatch, at)]
                      ELSE metadata, at)
    BY <1>4, Zenon DEF toggle_manual_stopwatch
  <2>2. UNCHANGED inputs
    BY <1>4, Zenon DEF toggle_manual_stopwatch
  <2> QED
    BY <1>s, <2>1, <2>2, Zenon
<1>5. ASSUME NEW at \in Recent, reset_manual_stopwatch(at) PROVE RuntimeInv'
  <2>1. Commit(state, IF stopwatch_enabled /\ state.game # None
                      THEN [metadata EXCEPT !.stopwatch = StoppedStopwatch]
                      ELSE metadata, at)
    BY <1>5, Zenon DEF reset_manual_stopwatch
  <2>2. UNCHANGED inputs
    BY <1>5, Zenon DEF reset_manual_stopwatch
  <2> QED
    BY <1>s, <2>1, <2>2, Zenon
<1>6. ASSUME NEW o \in Observation, NEW at \in Recent, report_window(o, at)
      PROVE RuntimeInv'
  <2>1. Kept
    BY <1>6, Zenon DEF report_window, inputs
  <2>2. CASE clear_game_locked
    BY <1>c, <1>k, <2>1, <2>2, Zenon
  <2>3. CASE ApplyObservation(o, at, at)
    <3>1. at \in Nat
      BY <1>r, Zenon
    <3>2. Good
      BY <2>1, <2>3, <3>1, ObservationConsistent, Zenon
    <3> QED
      BY <1>k, <2>1, <3>2, Zenon
  <2> QED
    BY <1>6, <2>2, <2>3, Zenon DEF report_window
<1>7. ASSUME NEW o \in Observation \cup {None}, poll_window(o)
      PROVE RuntimeInv'
  <2>1. Kept
    BY <1>7, Zenon DEF poll_window, inputs
  <2>2. CASE clear_game_locked
    BY <1>c, <1>k, <2>1, <2>2, Zenon
  <2>3. CASE o \in Observation /\ ApplyObservation(o, None, now)
    <3>1. now \in Nat
      BY <1>t, Zenon DEF TypeOK
    <3>2. Good
      BY <2>1, <2>3, <3>1, ObservationConsistent, ZenonT(30)
    <3> QED
      BY <1>k, <2>1, <3>2, Zenon
  <2> QED
    BY <1>7, <2>2, <2>3, Zenon DEF poll_window
<1>8. CASE clear_game
  BY <1>8, <1>c, <1>k, Zenon DEF clear_game, inputs
<1>9. CASE run_bridge_watchdog
  BY <1>9, <1>u, <1>k, Zenon DEF run_bridge_watchdog, inputs
<1>10. CASE expire_bridge_lease
  BY <1>10, <1>u, <1>c, <1>k, Zenon DEF expire_bridge_lease, inputs
<1>11. ASSUME NEW scanned \in Recent, NEW table \in ScannedTables(scanned),
              NEW at \in scanned..now, install_refresh_snapshot(table, at)
       PROVE RuntimeInv'
  <2>1. table \in ProcessTable /\ at \in Nat
    BY <1>r, <1>t, ScanType DEF TypeOK
  <2>2. /\ processes' = table /\ settings' = settings
        /\ selected_running' = snapshot_has_selected_process(settings, table)
    BY <1>11, Zenon DEF install_refresh_snapshot
  <2> DEFINE m1 == refresh_active_process(metadata, state.game, table, at)
             m2 == refresh_telemetry(m1, state.game, table)
  <2>3. CASE state.game # None
             /\ ~active_game_is_current(state.game, metadata, table, settings)
    <3>1. Commit(ClearedState, ClearedMetadata, at)
      BY <1>11, <2>3, Zenon DEF install_refresh_snapshot
    <3>2. state' = ClearedState /\ metadata' = ClearedMetadata
      BY <3>1, Zenon DEF Commit
    <3> QED
      BY <1>t, <2>2, <3>1, <3>2, ClearedConsistent, CommitCurrent, Zenon
         DEF RuntimeInv, snapshot_has_selected_process
  <2>4. CASE ~(state.game # None
               /\ ~active_game_is_current(state.game, metadata, table, settings))
    <3>1. Commit(state, m2, at)
      BY <1>11, <2>4, Zenon DEF install_refresh_snapshot
    <3>2. Consistent(state, m1, table, settings)
      BY <2>1, <2>4, RefreshConsistent, Zenon
    <3>3. m1 \in RuntimeMetadata /\ state \in CoreState
      BY <1>t, <2>1, RefreshType, ZenonT(30) DEF TypeOK, CoreState
    <3> HIDE DEF m1
    <3>4. Consistent(state, m2, table, settings)
      BY <2>1, <3>2, <3>3, SampleConsistent, Zenon
    <3> HIDE DEF m2
    <3>5. state' = state /\ metadata' = m2
      BY <3>1, Zenon DEF Commit
    <3> QED
      BY <1>t, <2>2, <3>1, <3>4, <3>5, CommitCurrent, Zenon
         DEF RuntimeInv, snapshot_has_selected_process
  <2> QED
    BY <2>3, <2>4, Zenon
<1>12. ASSUME NEW s \in Settings, reload_settings(s) PROVE RuntimeInv'
  <2>1. processes \in ProcessTable /\ now \in Nat
    BY <1>t, Zenon DEF TypeOK
  <2>2. /\ processes' = processes /\ settings' = s
        /\ selected_running' = snapshot_has_selected_process(s, processes)
    BY <1>12, Zenon DEF reload_settings
  <2> DEFINE m1 == refresh_active_process(metadata, state.game, processes, now)
  <2>3. CASE state.game # None
             /\ ~active_game_is_current(state.game, metadata, processes, s)
    <3>1. Commit(ClearedState, ClearedMetadata, now)
      BY <1>12, <2>3, Zenon DEF reload_settings
    <3>2. state' = ClearedState /\ metadata' = ClearedMetadata
      BY <3>1, Zenon DEF Commit
    <3> QED
      BY <1>t, <2>2, <3>1, <3>2, ClearedConsistent, CommitCurrent, Zenon
         DEF RuntimeInv, snapshot_has_selected_process
  <2>4. CASE ~(state.game # None
               /\ ~active_game_is_current(state.game, metadata, processes, s))
    <3>1. Commit(state, m1, now)
      BY <1>12, <2>4, Zenon DEF reload_settings
    <3>2. Consistent(state, m1, processes, s)
      BY <2>1, <2>4, RefreshConsistent, Zenon
    <3> HIDE DEF m1
    <3>3. state' = state /\ metadata' = m1
      BY <3>1, Zenon DEF Commit
    <3> QED
      BY <1>t, <2>2, <3>1, <3>2, <3>3, CommitCurrent, Zenon
         DEF RuntimeInv, snapshot_has_selected_process
  <2> QED
    BY <2>3, <2>4, Zenon
<1>13. ASSUME NEW b \in WidgetProfiles, reload_widget_profile(b)
       PROVE RuntimeInv'
  <2>1. Commit(state, metadata, now)
    BY <1>13, Zenon DEF reload_widget_profile
  <2>2. state' = state /\ metadata' = metadata
    BY <2>1, Zenon DEF Commit
  <2>3. Kept
    BY <1>13, Zenon DEF reload_widget_profile
  <2>4. PublishedIsCurrent'
    BY <2>1, CommitCurrent, Zenon
  <2> QED
    BY <1>k, <2>2, <2>3, <2>4, Zenon DEF RuntimeInv
<1>14. CASE UNCHANGED vars
  BY <1>14, <1>u, <1>k, Zenon DEF vars
<1> QED
  BY <1>1, <1>2, <1>3, <1>4, <1>5, <1>6, <1>7, <1>8, <1>9, <1>10, <1>11,
     <1>12, <1>13, <1>14, Zenon DEF Next

\* The invariant implies the safety properties the runs check.
LEMMA InvSafe ==
    RuntimeInv => /\ ActiveGameAuthorised /\ InteractiveOverGame
                  /\ NothingOutlivesTheGame /\ TelemetryOfActiveGroup
<1> SUFFICES ASSUME RuntimeInv
             PROVE  /\ ActiveGameAuthorised /\ InteractiveOverGame
                    /\ NothingOutlivesTheGame /\ TelemetryOfActiveGroup
  BY Zenon
<1>1. ActiveGameAuthorised
  <2> SUFFICES ASSUME state.game # None
               PROVE  /\ active_game_is_current(state.game, metadata, processes,
                                                settings)
                      /\ selected_running
    BY Zenon DEF ActiveGameAuthorised
  <2>1. active_game_is_current(state.game, metadata, processes, settings)
    BY Zenon DEF RuntimeInv, Consistent
  <2>2. state.game.pid \in Pids
    BY Zenon DEF RuntimeInv, TypeOK, CoreState, GameWindow
  <2>3. snapshot_has_selected_process(settings, processes)
    BY <2>1, <2>2, Zenon DEF active_game_is_current, snapshot_has_selected_process
  <2> QED
    BY <2>1, <2>3, Zenon DEF RuntimeInv
<1>2. InteractiveOverGame
  BY ZenonT(30) DEF RuntimeInv, Consistent, InteractiveOverGame, PublishedIsCurrent,
         snapshot_state_changed, snapshot_with_runtime
<1>3. NothingOutlivesTheGame
  BY Zenon DEF RuntimeInv, Consistent, NothingOutlivesTheGame
<1>4. TelemetryOfActiveGroup
  BY Zenon DEF RuntimeInv, Consistent, TelemetryOfActiveGroup
<1> QED
  BY <1>1, <1>2, <1>3, <1>4, Zenon

\* The active game is authorised by the installed table and settings in every
\* reachable state, whatever scans, reloads and reports interleave.
THEOREM AuthorityCorrect == Spec => []ActiveGameAuthorised
BY InitInv, NextInv, InvSafe, PTL DEF Spec

\* Interactive mode implies an active game, in Core and in the snapshot.
THEOREM InteractiveCorrect == Spec => []InteractiveOverGame
BY InitInv, NextInv, InvSafe, PTL DEF Spec

\* No clock, lease, telemetry or stopwatch outlives the active game.
THEOREM CleanupCorrect == Spec => []NothingOutlivesTheGame
BY InitInv, NextInv, InvSafe, PTL DEF Spec

\* Telemetry always describes the active process group.
THEOREM TelemetryCorrect == Spec => []TelemetryOfActiveGroup
BY InitInv, NextInv, InvSafe, PTL DEF Spec

\* The published snapshot is never behind Core's state.
THEOREM PublicationCorrect == Spec => []PublishedIsCurrent
<1>1. RuntimeInv => PublishedIsCurrent
  BY Zenon DEF RuntimeInv
<1> QED
  BY <1>1, InitInv, NextInv, PTL DEF Spec

-----------------------------------------------------------------------------
\* Revisions

\* Every step either leaves state and snapshot alone or is one commit.
LEMMA StepIsCommit ==
    ASSUME [Next]_vars
    PROVE  \/ UNCHANGED <<state, metadata, published>>
           \/ \E s, m, n : Commit(s, m, n)
BY ZenonT(30) DEF Next, vars, Tick, toggle_overlay, set_overlay_interactive,
       toggle_manual_stopwatch, reset_manual_stopwatch, report_window,
       poll_window, clear_game, clear_game_locked, ApplyObservation,
       run_bridge_watchdog, expire_bridge_lease, install_refresh_snapshot,
       reload_settings, reload_widget_profile

\* What publish_snapshot compares, of one snapshot.
View(x) == <<x.game, x.mode, x.telemetry, x.stopwatch.running,
             IF x.stopwatch.running THEN 0 ELSE x.stopwatch.elapsed>>

\* snapshot_state_changed compares exactly the visible part.
LEMMA ChangedIsView ==
    ASSUME NEW x \in CoreSnapshot, NEW y \in CoreSnapshot
    PROVE  snapshot_state_changed(x, y) <=> View(x) # View(y)
<1>1. x.stopwatch.running \in BOOLEAN /\ y.stopwatch.running \in BOOLEAN
  BY Zenon DEF CoreSnapshot
<1> QED
  BY <1>1, Zenon DEF snapshot_state_changed, View

\* The visible part of a state does not depend on the clock.
LEMMA ViewAnytime ==
    ASSUME NEW s, NEW m, NEW n, NEW k
    PROVE  View(snapshot_with_runtime(s, m, n)) = View(snapshot_with_runtime(s, m, k))
BY ZenonT(30) DEF View, snapshot_with_runtime, stopwatch_snapshot_at

\* A step that changes what a viewer can see publishes one new revision, and
\* any other step publishes nothing.
THEOREM RevisionCorrect == Spec => RevisionPerChange
<1> DEFINE Q == IF Visible' # Visible
                THEN published'.revision = published.revision + 1
                ELSE published' = published
           P == published.revision < MaxRevision => Q
<1>1. RuntimeInv /\ RuntimeInv' /\ [Next]_vars => [P]_vars
  <2> SUFFICES ASSUME RuntimeInv, RuntimeInv', [Next]_vars,
                      published.revision < MaxRevision
               PROVE  Q
    BY Zenon
  <2> DEFINE before == snapshot_with_runtime(state, metadata, now)
             after(n) == snapshot_with_runtime(state', metadata', n)
  <2>0. /\ now \in Nat /\ now' \in Nat /\ published.revision \in Nat
        /\ published.snapshot \in CoreSnapshot
        /\ state \in CoreState /\ metadata \in RuntimeMetadata
        /\ state' \in CoreState /\ metadata' \in RuntimeMetadata
    BY Zenon DEF RuntimeInv, TypeOK
  <2>1. Visible = View(before) /\ Visible' = View(after(now'))
    BY Zenon DEF Visible, View
  <2>2. CASE UNCHANGED <<state, metadata, published>>
    <3>1. View(after(now')) = View(before)
      BY <2>2, ViewAnytime, Zenon
    <3> QED
      BY <2>1, <2>2, <3>1, Zenon
  <2>3. ASSUME NEW s, NEW m, NEW n, Commit(s, m, n)
        PROVE  Q
    <3>1. state' = s /\ metadata' = m
      BY <2>3, Zenon DEF Commit
    <3>2. published' = IF snapshot_state_changed(published.snapshot, after(n))
                       THEN [revision |-> published.revision + 1,
                             snapshot |-> after(n)]
                       ELSE published
      BY <2>3, <3>1, Zenon DEF Commit, publish_snapshot
    <3>3. View(published.snapshot) = View(before)
      <4>1. before \in CoreSnapshot
        BY <2>0, SnapshotType, Zenon
      <4>2. ~snapshot_state_changed(published.snapshot, before)
        BY Zenon DEF RuntimeInv, PublishedIsCurrent
      <4> QED
        BY <2>0, <4>1, <4>2, ChangedIsView, Zenon
    <3>4. View(after(n)) = View(after(now'))
      BY ViewAnytime, Zenon
    <3>5. snapshot_state_changed(published.snapshot, after(n))
             <=> View(published.snapshot) # View(after(n))
      <4>1. snapshot_state_changed(published.snapshot, after(n))
             <=> snapshot_state_changed(published.snapshot, after(now'))
        BY OutdatedAnytime, Zenon
      <4>2. after(now') \in CoreSnapshot
        BY <2>0, SnapshotType, Zenon
      <4>3. snapshot_state_changed(published.snapshot, after(now'))
             <=> View(published.snapshot) # View(after(now'))
        BY <2>0, <4>2, ChangedIsView, Zenon
      <4> QED
        BY <3>4, <4>1, <4>3, Zenon
    <3> HIDE DEF after, before
    <3>6. CASE Visible' # Visible
      BY <2>1, <3>2, <3>3, <3>4, <3>5, <3>6, Zenon
    <3>7. CASE Visible' = Visible
      BY <2>1, <3>2, <3>3, <3>4, <3>5, <3>7, Zenon
    <3> QED
      BY <3>6, <3>7, Zenon
  <2> QED
    BY <2>2, <2>3, StepIsCommit, Zenon
<1> QED
  BY <1>1, InitInv, NextInv, PTL DEF Spec, RevisionPerChange

\* All the state invariants of Core together.
THEOREM CoreSafe == Spec => []CoreIsSafe
<1>1. ActiveGameAuthorised /\ InteractiveOverGame /\ NothingOutlivesTheGame
      /\ TelemetryOfActiveGroup /\ PublishedIsCurrent => CoreIsSafe
  BY Zenon DEF CoreIsSafe
<1> QED
  BY <1>1, AuthorityCorrect, InteractiveCorrect, CleanupCorrect,
     TelemetryCorrect, PublicationCorrect, PTL

-----------------------------------------------------------------------------
\* The lease

Report == metadata.bridge_last_report
Patience == IF MaxLag = 0 THEN 1 ELSE MaxLag

\* The inductive invariant of the lease.  The last finished check found the
\* lease alive or was overtaken by a newer report; the check in flight reads a
\* clock at most one wait later.
LeaseInv ==
    /\ watchdog_now <= now
    /\ Report # None => Report <= now
    /\ backend = "bridge" =>
         /\ state.game # None => Report # None
         /\ now - watchdog_now <= (IF watchdog_busy THEN MaxLag ELSE Patience)
         /\ Report # None =>
              watchdog_now - Report <
                (IF watchdog_busy THEN LeaseTimeout + Patience ELSE LeaseTimeout)

\* Refreshing the process or the telemetry keeps the lease.
LEMMA RefreshKeepsReport ==
    ASSUME NEW m \in RuntimeMetadata, NEW game, NEW table, NEW at
    PROVE  /\ refresh_active_process(m, game, table, at).bridge_last_report
                = m.bridge_last_report
           /\ refresh_telemetry(m, game, table).bridge_last_report
                = m.bridge_last_report
BY Zenon DEF refresh_active_process, refresh_telemetry, RuntimeMetadata

\* What a step does to the lease.
LEMMA LeaseEffect ==
    ASSUME RuntimeInv, Next,
           ~Tick, ~run_bridge_watchdog, ~expire_bridge_lease
    PROVE  /\ UNCHANGED clocks
           /\ \/ state'.game = None /\ Report' = None
              \/ state'.game = state.game /\ Report' = Report
              \/ backend = "x11" /\ Report' = None
              \/ backend = "bridge" /\ Report' \in Recent
<1>c. clear_game_locked => state'.game = None /\ Report' = None
  BY DEF clear_game_locked, Commit, ClearedState, ClearedMetadata, Report
<1>o. ASSUME NEW o, NEW lease, NEW at, ApplyObservation(o, lease, at)
      PROVE  \/ state'.game = None /\ Report' = None
             \/ Report' = lease
  BY <1>o DEF ApplyObservation, Commit, AcceptProcess, ClearedState,
              ClearedMetadata, Report
<1>1. CASE toggle_overlay \/ (\E b \in BOOLEAN : set_overlay_interactive(b))
  BY <1>1, ZenonT(30) DEF toggle_overlay, set_overlay_interactive, Commit, Report,
              RuntimeInv, TypeOK, CoreState
<1>2. CASE \/ \E at \in Recent : toggle_manual_stopwatch(at)
           \/ \E at \in Recent : reset_manual_stopwatch(at)
  BY <1>2, ZenonT(30) DEF toggle_manual_stopwatch, reset_manual_stopwatch, Commit, Report,
              RuntimeInv, TypeOK, RuntimeMetadata
<1>3. ASSUME NEW o \in Observation, NEW at \in Recent, report_window(o, at)
      PROVE  /\ UNCHANGED clocks
             /\ \/ state'.game = None /\ Report' = None
                \/ backend = "bridge" /\ Report' \in Recent
  BY <1>3, <1>c, <1>o, Zenon DEF report_window
<1>4. ASSUME NEW o \in Observation \cup {None}, poll_window(o)
      PROVE  /\ UNCHANGED clocks
             /\ \/ state'.game = None /\ Report' = None
                \/ backend = "x11" /\ Report' = None
  BY <1>4, <1>c, <1>o, Zenon DEF poll_window
<1>5. CASE clear_game
  BY <1>5, <1>c, Zenon DEF clear_game
<1>6. ASSUME NEW scanned \in Recent, NEW table \in ScannedTables(scanned),
             NEW at \in scanned..now, install_refresh_snapshot(table, at)
      PROVE  /\ UNCHANGED clocks
             /\ \/ state'.game = None /\ Report' = None
                \/ state'.game = state.game /\ Report' = Report
  <2> DEFINE m1 == refresh_active_process(metadata, state.game, table, at)
             m2 == refresh_telemetry(m1, state.game, table)
  <2>1. /\ metadata \in RuntimeMetadata /\ table \in ProcessTable
        /\ at \in Nat /\ state.game \in GameWindow \cup {None}
    BY ScanType DEF RuntimeInv, TypeOK, CoreState, Recent
  <2>2. m1 \in RuntimeMetadata
    BY <2>1, RefreshType, Zenon
  <2>3. m1.bridge_last_report = metadata.bridge_last_report
    BY <2>1, RefreshKeepsReport
  <2> HIDE DEF m1
  <2>4. m2.bridge_last_report = metadata.bridge_last_report
    BY <2>2, <2>3, RefreshKeepsReport, ZenonT(30)
  <2> HIDE DEF m2
  <2>5. \/ Commit(ClearedState, ClearedMetadata, at)
        \/ Commit(state, m2, at)
    BY <1>6, Zenon DEF install_refresh_snapshot, m1, m2
  <2>6. UNCHANGED clocks
    BY <1>6, Zenon DEF install_refresh_snapshot
  <2> QED
    BY <2>4, <2>5, <2>6 DEF Commit, ClearedState, ClearedMetadata, Report
<1>7. ASSUME NEW s \in Settings, reload_settings(s)
      PROVE  /\ UNCHANGED clocks
             /\ \/ state'.game = None /\ Report' = None
                \/ state'.game = state.game /\ Report' = Report
  <2> DEFINE m1 == refresh_active_process(metadata, state.game, processes, now)
  <2>1. m1.bridge_last_report = metadata.bridge_last_report
    BY RefreshKeepsReport DEF RuntimeInv, TypeOK
  <2> HIDE DEF m1
  <2>2. \/ Commit(ClearedState, ClearedMetadata, now)
        \/ Commit(state, m1, now)
    BY <1>7, Zenon DEF reload_settings, m1
  <2>3. UNCHANGED clocks
    BY <1>7, Zenon DEF reload_settings
  <2> QED
    BY <2>1, <2>2, <2>3 DEF Commit, ClearedState, ClearedMetadata, Report
<1>8. CASE \E b \in WidgetProfiles : reload_widget_profile(b)
  BY <1>8, Zenon DEF reload_widget_profile, Commit, Report
<1> QED
  BY <1>1, <1>2, <1>3, <1>4, <1>5, <1>6, <1>7, <1>8, Zenon DEF Next

\* Every step keeps the lease invariant.
LEMMA LeaseStep == RuntimeInv /\ LeaseInv /\ [Next]_vars => LeaseInv'
<1> SUFFICES ASSUME RuntimeInv, LeaseInv, [Next]_vars PROVE LeaseInv'
  BY Zenon
<1>t. /\ now \in Nat /\ watchdog_now \in Nat /\ watchdog_busy \in BOOLEAN
      /\ Report \in Nat \cup {None}
      /\ LeaseTimeout \in Nat /\ MaxLag \in Nat /\ MaxLag < LeaseTimeout
  BY ClockAssumption, Zenon DEF RuntimeInv, TypeOK, RuntimeMetadata, Report
<1>1. CASE Tick
  <2>1. /\ now' = now + 1
        /\ UNCHANGED <<backend, watchdog_now, watchdog_busy, state, Report>>
    BY <1>1, Zenon DEF Tick, Report
  <2>2. backend = "bridge" => IF watchdog_busy THEN now - watchdog_now < MaxLag
                              ELSE watchdog_now = now
    BY <1>1, Zenon DEF Tick
  <2> QED
    BY <1>t, <2>1, <2>2 DEF LeaseInv, Patience
<1>2. CASE run_bridge_watchdog
  <2>1. /\ watchdog_now' = now /\ watchdog_busy' = TRUE /\ ~watchdog_busy
        /\ UNCHANGED <<backend, now, state, Report>>
    BY <1>2, Zenon DEF run_bridge_watchdog, Report
  <2> QED
    BY <1>t, <2>1 DEF LeaseInv, Patience
<1>3. CASE expire_bridge_lease
  <2>1. watchdog_busy /\ ~watchdog_busy' /\ UNCHANGED <<backend, now, watchdog_now>>
    BY <1>3, Zenon DEF expire_bridge_lease
  <2>2. CASE clear_game_locked
    <3>1. state'.game = None /\ Report' = None
      BY <2>2, Zenon DEF clear_game_locked, Commit, ClearedState, ClearedMetadata, Report
    <3> QED
      BY <1>t, <2>1, <3>1 DEF LeaseInv, Patience
  <2>3. CASE /\ UNCHANGED <<state, Report>>
             /\ ~(Report # None
                  /\ DurationSince(watchdog_now, Report) >= LeaseTimeout)
    BY <1>t, <2>1, <2>3 DEF LeaseInv, Patience, DurationSince
  <2> QED
    BY <1>3, <2>2, <2>3, Zenon DEF expire_bridge_lease, Report
<1>4. CASE Next /\ ~Tick /\ ~run_bridge_watchdog /\ ~expire_bridge_lease
  <2>1. UNCHANGED <<backend, now, watchdog_now, watchdog_busy>>
    BY <1>4, LeaseEffect, Zenon DEF clocks
  <2>2. CASE state'.game = None /\ Report' = None
    BY <1>t, <2>1, <2>2, Zenon DEF LeaseInv, Patience
  <2>3. CASE state'.game = state.game /\ Report' = Report
    BY <1>t, <2>1, <2>3, Zenon DEF LeaseInv, Patience
  <2>4. CASE backend = "x11" /\ Report' = None
    BY <1>t, <2>1, <2>4, Zenon DEF LeaseInv, Patience
  <2>5. CASE backend = "bridge" /\ Report' \in Recent
    <3>0. PICK r \in Recent : Report' = r
      BY <2>5, Zenon
    <3>1. r \in Nat /\ r <= now /\ now - r <= MaxLag
      BY <1>t, <3>0 DEF Recent
    <3>2. Report' # None
      BY <3>0, <3>1, NoneAssumption, Zenon
    <3>3. watchdog_now - r < LeaseTimeout /\ watchdog_now - r < LeaseTimeout + Patience
      BY <1>t, <3>1 DEF LeaseInv, Patience
    <3> QED
      BY <1>t, <2>1, <3>0, <3>1, <3>2, <3>3, ZenonT(30) DEF LeaseInv
  <2> QED
    BY <1>4, <2>2, <2>3, <2>4, <2>5, LeaseEffect, Zenon
<1>5. CASE UNCHANGED vars
  BY <1>5, Zenon DEF vars, LeaseInv, Report, Patience
<1> QED
  BY <1>1, <1>2, <1>3, <1>4, <1>5, Zenon

\* The lease starts in its invariant.
LEMMA LeaseInit == Init => LeaseInv
BY ClockAssumption DEF Init, LeaseInv, Report, Patience, ClearedState,
                       ClearedMetadata

\* A silent bridge loses its game at most LeaseTimeout plus two waits for the
\* mutex after its last report.
THEOREM LeaseCorrect == Spec => []LeaseBoundsSilence
<1>1. RuntimeInv /\ LeaseInv => LeaseBoundsSilence
  BY ClockAssumption
     DEF RuntimeInv, TypeOK, RuntimeMetadata, LeaseInv, LeaseBoundsSilence,
         Report, Patience
<1> QED
  BY <1>1, InitInv, NextInv, LeaseInit, LeaseStep, PTL DEF Spec

\* A report that is not LeaseTimeout old is never expired, however late the
\* watchdog gets the mutex.
THEOREM ExpiryCorrect == Spec => NoEarlyExpiry
<1> DEFINE P == /\ watchdog_busy /\ ~watchdog_busy'
                /\ state.game # None /\ state'.game = None
                => now - metadata.bridge_last_report >= LeaseTimeout
<1>1. RuntimeInv /\ LeaseInv /\ [Next]_vars => [P]_vars
  <2> SUFFICES ASSUME RuntimeInv, LeaseInv, [Next]_vars,
                      watchdog_busy, ~watchdog_busy',
                      state.game # None, state'.game = None
               PROVE  now - metadata.bridge_last_report >= LeaseTimeout
    BY Zenon
  <2>1. expire_bridge_lease
    <3>1. ~UNCHANGED clocks /\ ~UNCHANGED vars
      BY ZenonT(30) DEF clocks, vars
    <3>2. ~Tick /\ ~run_bridge_watchdog
      BY ZenonT(30) DEF Tick, run_bridge_watchdog
    <3> QED
      BY <3>1, <3>2, LeaseEffect, Zenon
  <2>2. /\ metadata.bridge_last_report # None
        /\ DurationSince(watchdog_now, metadata.bridge_last_report) >= LeaseTimeout
    BY <2>1, Zenon DEF expire_bridge_lease
  <2> QED
    BY <2>2, ClockAssumption
       DEF LeaseInv, Report, DurationSince, RuntimeInv, TypeOK, RuntimeMetadata
<1> QED
  BY <1>1, InitInv, NextInv, LeaseInit, LeaseStep, PTL DEF Spec, NoEarlyExpiry, ExpiresInTime

-----------------------------------------------------------------------------
\* The session time

\* One clock is ahead of another at every instant.
Ahead(f, t) == \A n \in Nat : elapsed_at(f, n) > elapsed_at(t, n)

\* The inductive invariant of the session time: the floor is the installed
\* process's own clock or ahead of it at EVERY instant.  Being ahead now would
\* not do, because a late report compares the two at an earlier instant.
TimingInv ==
    /\ metadata.active_timing \in {None, metadata.timing_floor}
    /\ state.game # None /\ processes[state.game.pid].timing # None =>
         /\ metadata.timing_floor # None
         /\ \/ metadata.timing_floor = processes[state.game.pid].timing
            \/ Ahead(metadata.timing_floor, processes[state.game.pid].timing)

\* A clock never goes back and never gains on real time.
LEMMA ElapsedGrows ==
    ASSUME NEW t \in ProcessTiming, NEW a \in Nat, NEW b \in Nat, a <= b
    PROVE  /\ elapsed_at(t, a) \in Nat /\ elapsed_at(t, b) \in Nat
           /\ elapsed_at(t, a) <= elapsed_at(t, b)
           /\ elapsed_at(t, b) <= elapsed_at(t, a) + (b - a)
           /\ t.observed_at <= a => elapsed_at(t, b) = elapsed_at(t, a) + (b - a)
BY DEF elapsed_at, DurationSince, ProcessTiming

\* A clock lifted to the floor at one instant is ahead at all of them.
LEMMA LiftedAhead ==
    ASSUME NEW f \in ProcessTiming, NEW t \in ProcessTiming, NEW at \in Nat,
           elapsed_at(f, at) > elapsed_at(t, at)
    PROVE  Ahead([elapsed |-> elapsed_at(f, at), observed_at |-> at], t)
<1> DEFINE lifted == [elapsed |-> elapsed_at(f, at), observed_at |-> at]
<1> SUFFICES ASSUME NEW n \in Nat
             PROVE  elapsed_at(lifted, n) > elapsed_at(t, n)
  BY Zenon DEF Ahead
<1>1. /\ elapsed_at(f, at) \in Nat
      /\ elapsed_at(t, at) \in Nat /\ elapsed_at(t, n) \in Nat
  BY ElapsedType, Zenon
<1>2. elapsed_at(lifted, n) = elapsed_at(f, at) + (IF n > at THEN n - at ELSE 0)
  BY Zenon DEF elapsed_at, DurationSince
<1>3. CASE n > at
  <2>1. elapsed_at(t, n) <= elapsed_at(t, at) + (n - at)
    BY <1>3, ElapsedGrows
  <2> QED
    BY <1>1, <1>2, <1>3, <2>1
<1>4. CASE n <= at
  <2>1. elapsed_at(t, n) <= elapsed_at(t, at)
    BY <1>4, ElapsedGrows, Zenon
  <2> QED
    BY <1>1, <1>2, <1>4, <2>1
<1> QED
  BY <1>3, <1>4

\* Reconciling the clock of the same process keeps the invariant and never
\* takes the floor back, whether the instant is fresh or late.
LEMMA ReconcileMonotone ==
    ASSUME NEW instance, NEW floor \in ProcessTiming \cup {None},
           NEW t \in ProcessTiming \cup {None}, NEW at \in Nat, NEW n \in Nat,
           at <= n,
           t # None /\ floor # None =>
               floor = t \/ Ahead(floor, t) \/ t.observed_at <= at
    PROVE  LET r == reconcile_process_timing(instance, floor, instance, t, at)
           IN  /\ r.active \in {None, r.floor}
               /\ floor # None => /\ r.floor # None
                                  /\ elapsed_at(r.floor, n) >= elapsed_at(floor, n)
               /\ t # None => r.floor # None /\ (r.floor = t \/ Ahead(r.floor, t))
<1> DEFINE r == reconcile_process_timing(instance, floor, instance, t, at)
           lifted == [elapsed |-> elapsed_at(floor, at), observed_at |-> at]
<1>1. CASE t = None
  <2>1. r.active = None /\ r.floor = floor
    BY <1>1, Zenon DEF reconcile_process_timing
  <2>2. floor # None => elapsed_at(floor, n) \in Nat
    BY ElapsedType, Zenon
  <2> HIDE DEF r
  <2> QED
    BY <1>1, <2>1, <2>2 DEF r
<1>2. CASE t # None /\ floor = None
  <2>1. r.active = t /\ r.floor = t
    BY <1>2, Zenon DEF reconcile_process_timing
  <2> HIDE DEF r
  <2> QED
    BY <1>2, <2>1, Zenon DEF r
<1>3. CASE t # None /\ floor # None /\ elapsed_at(floor, at) > elapsed_at(t, at)
  <2>1. r.active = lifted /\ r.floor = lifted
    BY <1>3, Zenon DEF reconcile_process_timing
  <2>2. elapsed_at(floor, at) \in Nat /\ elapsed_at(floor, n) \in Nat
    BY <1>3, ElapsedType, Zenon
  <2>3. lifted \in ProcessTiming
    BY <2>2, Zenon DEF ProcessTiming
  <2>4. lifted # None
    BY <2>3, NoneAssumption, Zenon
  <2>5. Ahead(lifted, t)
    BY <1>3, LiftedAhead, Zenon
  <2>6. elapsed_at(lifted, n) = elapsed_at(floor, at) + (n - at)
    BY <2>2 DEF elapsed_at, DurationSince
  <2>7. elapsed_at(floor, n) <= elapsed_at(floor, at) + (n - at)
    BY <1>3, ElapsedGrows, Zenon
  <2>8. elapsed_at(lifted, n) >= elapsed_at(floor, n)
    BY <2>2, <2>6, <2>7, Zenon
  <2> HIDE DEF r, lifted
  <2> QED
    BY <2>1, <2>4, <2>5, <2>8, Zenon DEF r
<1>4. CASE t # None /\ floor # None /\ ~(elapsed_at(floor, at) > elapsed_at(t, at))
  <2>1. r.active = t /\ r.floor = t
    BY <1>4, Zenon DEF reconcile_process_timing
  <2>2. /\ elapsed_at(floor, at) \in Nat /\ elapsed_at(floor, n) \in Nat
        /\ elapsed_at(t, at) \in Nat /\ elapsed_at(t, n) \in Nat
    BY <1>4, ElapsedType, Zenon
  <2>3. elapsed_at(t, n) >= elapsed_at(floor, n)
    <3>1. CASE floor = t
      BY <2>2, <3>1
    <3>2. CASE Ahead(floor, t)
      BY <1>4, <3>2, Zenon DEF Ahead
    <3>3. CASE t.observed_at <= at
      <4>1. elapsed_at(t, n) = elapsed_at(t, at) + (n - at)
        BY <1>4, <3>3, ElapsedGrows, ZenonT(30)
      <4>2. elapsed_at(floor, n) <= elapsed_at(floor, at) + (n - at)
        BY <1>4, ElapsedGrows, Zenon
      <4> QED
        BY <1>4, <2>2, <4>1, <4>2
    <3> QED
      BY <1>4, <3>1, <3>2, <3>3, Zenon
  <2> HIDE DEF r
  <2> QED
    BY <1>4, <2>1, <2>3, Zenon DEF r
<1> QED
  BY <1>1, <1>2, <1>3, <1>4, Zenon

\* The clock fields of the metadata.
Clock(m) == <<m.active_process, m.active_timing, m.timing_floor>>

\* The step takes the clock of the process `pid` of the new table, at an
\* instant that is not before the scan when the table is new.
Reconciles(pid, at) ==
    LET p == processes'[pid]
        instance == [pid |-> pid, start_ticks |-> p.start_ticks]
        r == reconcile_process_timing(metadata.active_process,
                 metadata.timing_floor, instance, p.timing, at)
    IN  /\ p # None
        /\ state'.game # None /\ state'.game.pid = pid
        /\ metadata'.active_process = instance
        /\ metadata'.active_timing = r.active
        /\ metadata'.timing_floor = r.floor
        /\ UNCHANGED processes \/ (p.timing # None => p.timing.observed_at <= at)

\* Refreshing the telemetry keeps the clocks.
LEMMA SamplingKeepsClock ==
    ASSUME NEW m \in RuntimeMetadata, NEW game, NEW table
    PROVE  Clock(refresh_telemetry(m, game, table)) = Clock(m)
BY Zenon DEF refresh_telemetry, RuntimeMetadata, Clock

\* What an accepted observation does to the clocks.
LEMMA ObservationClock ==
    ASSUME RuntimeInv, NEW o \in Observation, NEW lease, NEW at,
           ApplyObservation(o, lease, at), UNCHANGED processes
    PROVE  state'.game = None \/ \E pid \in Pids : Reconciles(pid, at)
<1>1. CASE allowed_process(o)
  <2>1. o.pid \in Pids /\ processes[o.pid] # None
    BY <1>1, Zenon DEF allowed_process, Observation
  <2> DEFINE g == [pid |-> o.pid, app |-> processes[o.pid].identity.app,
                   view |-> o.view]
  <2>2. g # None
    <3>1. processes[o.pid].identity.app \in AppIds \cup {None} /\ o.view \in Views
      BY <2>1, DataAssumption, Zenon
         DEF RuntimeInv, TypeOK, ProcessTable, ProcessInfo, Observation
    <3> QED
      BY <2>1, <3>1, NoneAssumption DEF GameWindow
  <2>3. /\ state' = [state EXCEPT !.game = g]
        /\ metadata' = AcceptProcess(metadata, o.pid, lease, at)
    BY <1>1, Zenon DEF ApplyObservation, Commit
  <2>4. state'.game = g
    BY <2>3, Zenon DEF RuntimeInv, TypeOK, CoreState
  <2>5. Reconciles(o.pid, at)
    BY <2>1, <2>2, <2>3, <2>4 DEF Reconciles, AcceptProcess
  <2> QED
    BY <2>1, <2>5, Zenon
<1>2. CASE ~allowed_process(o)
  BY <1>2 DEF ApplyObservation, Commit, ClearedState
<1> QED
  BY <1>1, <1>2, Zenon

\* What a refresh does to the clocks when a game stays.
LEMMA RefreshClock ==
    ASSUME RuntimeInv, state.game # None, NEW table \in ProcessTable, NEW at,
           table[state.game.pid] # None, processes' = table,
           state' = state,
           Clock(metadata') =
               Clock(refresh_active_process(metadata, state.game, table, at)),
           \/ table = processes
           \/ \A pid \in Pids : table[pid] # None /\ table[pid].timing # None
                                 => table[pid].timing.observed_at <= at
    PROVE  \E pid \in Pids : Reconciles(pid, at)
<1> DEFINE pid == state.game.pid
           m == refresh_active_process(metadata, state.game, table, at)
           instance == [pid |-> pid, start_ticks |-> table[pid].start_ticks]
           r == reconcile_process_timing(metadata.active_process,
                    metadata.timing_floor, instance, table[pid].timing, at)
<1>1. pid \in Pids
  BY Zenon DEF RuntimeInv, TypeOK, CoreState, GameWindow
<1>2. /\ m.active_process = instance
      /\ m.active_timing = r.active
      /\ m.timing_floor = r.floor
  BY ZenonT(30) DEF refresh_active_process, RuntimeInv, TypeOK, RuntimeMetadata
<1> HIDE DEF m
<1>3. /\ metadata'.active_process = instance
      /\ metadata'.active_timing = r.active
      /\ metadata'.timing_floor = r.floor
  BY <1>2, Zenon DEF Clock, m
<1>4. Reconciles(pid, at)
  BY <1>1, <1>3, Zenon DEF Reconciles
<1> QED
  BY <1>1, <1>4, Zenon

\* What any step does to the clocks.
LEMMA ClockEffect ==
    ASSUME RuntimeInv, Next, ~Tick
    PROVE  /\ now' = now
           /\ \/ state'.game = None
              \/ /\ UNCHANGED <<processes, Clock(metadata)>>
                 /\ state'.game = state.game
              \/ \E pid \in Pids, at \in 0..now : Reconciles(pid, at)
<1>r. Recent \subseteq 0..now
  BY Zenon DEF Recent
<1>n. now \in Nat /\ now \in 0..now
  BY DEF RuntimeInv, TypeOK
<1>c. clear_game_locked => state'.game = None
  BY DEF clear_game_locked, Commit, ClearedState
<1>1. CASE toggle_overlay \/ (\E b \in BOOLEAN : set_overlay_interactive(b))
  BY <1>1, ZenonT(30) DEF toggle_overlay, set_overlay_interactive, Commit, clocks, inputs,
              RuntimeInv, TypeOK, CoreState
<1>2. CASE \/ \E at \in Recent : toggle_manual_stopwatch(at)
           \/ \E at \in Recent : reset_manual_stopwatch(at)
  <2>1. \E sw : metadata' \in {metadata, [metadata EXCEPT !.stopwatch = sw]}
    BY <1>2, ZenonT(30) DEF toggle_manual_stopwatch, reset_manual_stopwatch, Commit
  <2>2. Clock(metadata)' = Clock(metadata)
    BY <2>1, Zenon DEF Clock, RuntimeInv, TypeOK, RuntimeMetadata
  <2> QED
    BY <1>2, <2>2, ZenonT(30) DEF toggle_manual_stopwatch, reset_manual_stopwatch, Commit,
                      clocks, inputs
<1>3. ASSUME NEW o \in Observation, NEW at \in Recent, report_window(o, at)
      PROVE  /\ now' = now
             /\ \/ state'.game = None
                \/ \E pid \in Pids : Reconciles(pid, at)
  BY <1>3, <1>c, ObservationClock, Zenon DEF report_window, clocks, inputs
<1>4. ASSUME NEW o \in Observation \cup {None}, poll_window(o)
      PROVE  /\ now' = now
             /\ \/ state'.game = None
                \/ \E pid \in Pids : Reconciles(pid, now)
  BY <1>4, <1>c, ObservationClock, Zenon DEF poll_window, clocks, inputs
<1>5. CASE clear_game
  BY <1>5, <1>c, Zenon DEF clear_game, clocks
<1>6. CASE run_bridge_watchdog \/ expire_bridge_lease
  BY <1>6, <1>c, Zenon DEF run_bridge_watchdog, expire_bridge_lease, inputs
<1>7. ASSUME NEW scanned \in Recent, NEW table \in ScannedTables(scanned),
             NEW at \in scanned..now, install_refresh_snapshot(table, at)
      PROVE  /\ now' = now
             /\ \/ state'.game = None
                \/ \E pid \in Pids : Reconciles(pid, at)
  <2> DEFINE m1 == refresh_active_process(metadata, state.game, table, at)
             m2 == refresh_telemetry(m1, state.game, table)
  <2>1. now' = now /\ processes' = table
    BY <1>7, Zenon DEF install_refresh_snapshot, clocks
  <2>2. CASE Commit(ClearedState, ClearedMetadata, at) \/ state.game = None
    BY <1>7, <2>1, <2>2, SMTT(30) DEF install_refresh_snapshot, Commit, ClearedState
  <2>3. CASE /\ state.game # None /\ Commit(state, m2, at)
             /\ active_game_is_current(state.game, metadata, table, settings)
    <3>1. /\ metadata \in RuntimeMetadata /\ table \in ProcessTable
          /\ at \in Nat /\ state.game \in GameWindow
      BY <1>n, <2>3, ScanType DEF RuntimeInv, TypeOK, CoreState, Recent
    <3>2. m1 \in RuntimeMetadata
      BY <3>1, RefreshType, Zenon
    <3>3. Clock(m2) = Clock(m1)
      BY <3>2, SamplingKeepsClock, Zenon
    <3>4. state' = state /\ metadata' = m2
      BY <2>3, Zenon DEF Commit
    <3>5. table[state.game.pid] # None
      BY <2>3, Zenon DEF active_game_is_current
    <3>6. \A pid \in Pids : table[pid] # None /\ table[pid].timing # None
                            => table[pid].timing.observed_at <= at
      <4>1. \A pid \in Pids : table[pid] # None /\ table[pid].timing # None
                              => table[pid].timing.observed_at = scanned
        BY Zenon DEF ScannedTables
      <4>2. scanned <= at
        BY <1>n DEF Recent
      <4> QED
        BY <4>1, <4>2, Zenon
    <3> HIDE DEF m1, m2
    <3>7. Clock(metadata') = Clock(m1)
      BY <3>3, <3>4, Zenon
    <3> QED
      BY <2>1, <2>3, <3>1, <3>4, <3>5, <3>6, <3>7, RefreshClock, Zenon DEF m1
  <2> QED
    BY <1>7, <2>2, <2>3, Zenon DEF install_refresh_snapshot
<1>8. ASSUME NEW s \in Settings, reload_settings(s)
      PROVE  /\ now' = now
             /\ \/ state'.game = None
                \/ \E pid \in Pids : Reconciles(pid, now)
  <2>1. now' = now /\ processes' = processes
    BY <1>8, Zenon DEF reload_settings, clocks
  <2>2. CASE Commit(ClearedState, ClearedMetadata, now) \/ state.game = None
    BY <1>8, <2>1, <2>2, SMTT(30) DEF reload_settings, Commit, ClearedState
  <2>3. CASE /\ state.game # None
             /\ active_game_is_current(state.game, metadata, processes, s)
    <3>1. /\ state' = state
          /\ metadata' = refresh_active_process(metadata, state.game, processes, now)
      BY <1>8, <2>3, Zenon DEF reload_settings, Commit
    <3>2. processes[state.game.pid] # None
      BY <2>3, Zenon DEF active_game_is_current
    <3> QED
      BY <2>1, <2>3, <3>1, <3>2, RefreshClock, Zenon DEF RuntimeInv, TypeOK
  <2> QED
    BY <1>8, <2>2, <2>3, Zenon DEF reload_settings
<1>9. CASE \E b \in WidgetProfiles : reload_widget_profile(b)
  BY <1>9, Zenon DEF reload_widget_profile, Commit, clocks
<1>10. \A scanned \in Recent : scanned..now \subseteq 0..now
  BY <1>n DEF Recent
<1> QED
  BY <1>r, <1>n, <1>1, <1>2, <1>3, <1>4, <1>5, <1>6, <1>7, <1>8, <1>9, <1>10, Zenon
     DEF Next

\* The session-time part of one step: what SessionTimeMonotone says of it.
TimeKept ==
    /\ metadata.active_process # None
    /\ metadata'.active_process = metadata.active_process
    /\ metadata.timing_floor # None
    => /\ metadata'.timing_floor # None
       /\ metadata'.active_timing \in {None, metadata'.timing_floor}
       /\ elapsed_at(metadata'.timing_floor, now') >=
              elapsed_at(metadata.timing_floor, now)

\* A step that takes a process's clock keeps the invariant and the time.
LEMMA ReconcileStep ==
    ASSUME RuntimeInv, RuntimeInv', TimingInv, now' = now,
           NEW pid \in Pids, NEW at \in 0..now, Reconciles(pid, at)
    PROVE  TimingInv' /\ TimeKept
<1> DEFINE p == processes'[pid]
           instance == [pid |-> pid, start_ticks |-> p.start_ticks]
           floor == metadata.timing_floor
           r == reconcile_process_timing(metadata.active_process, floor,
                                         instance, p.timing, at)
<1>1. /\ floor \in ProcessTiming \cup {None}
      /\ at \in Nat /\ now \in Nat /\ at <= now
  BY SMTT(30) DEF RuntimeInv, TypeOK, RuntimeMetadata
<1>2. p \in ProcessInfo
  BY Zenon DEF Reconciles, RuntimeInv, TypeOK, ProcessTable
<1>3. p.timing \in ProcessTiming \cup {None}
  BY <1>2, Zenon DEF ProcessInfo
<1>4. /\ state'.game # None /\ state'.game.pid = pid
      /\ metadata'.active_process = instance
      /\ metadata'.active_timing = r.active
      /\ metadata'.timing_floor = r.floor
  BY Zenon DEF Reconciles
<1>5. CASE metadata.active_process # instance
  <2>1. r.active = p.timing /\ r.floor = p.timing
    BY <1>5, Zenon DEF reconcile_process_timing
  <2> HIDE DEF r
  <2> QED
    BY <1>4, <1>5, <2>1, Zenon DEF TimingInv, TimeKept
<1>6. CASE metadata.active_process = instance
  <2>1. UNCHANGED processes /\ p.timing # None /\ floor # None =>
            floor = p.timing \/ Ahead(floor, p.timing)
    <3> SUFFICES ASSUME UNCHANGED processes, p.timing # None, floor # None
                 PROVE  floor = p.timing \/ Ahead(floor, p.timing)
      BY Zenon
    <3>1. state.game # None
      <4>1. instance \in ProcessInstance
        BY <1>2, Zenon DEF ProcessInfo, ProcessInstance
      <4>2. metadata.active_process # None
        BY <1>6, <4>1, NoneAssumption, Zenon
      <4> QED
        BY <4>2, SMTT(30) DEF RuntimeInv, Consistent, ClearedMetadata
    <3>2. state.game.pid = pid
      BY <1>6, <3>1, SMTT(30) DEF RuntimeInv, Consistent, active_game_is_current
    <3> QED
      BY <3>1, <3>2, Zenon DEF TimingInv
  <2>2. p.timing # None /\ floor # None =>
            floor = p.timing \/ Ahead(floor, p.timing)
                            \/ p.timing.observed_at <= at
    BY <2>1, Zenon DEF Reconciles
  <2>3. /\ r.active \in {None, r.floor}
        /\ floor # None => /\ r.floor # None
                           /\ elapsed_at(r.floor, now) >= elapsed_at(floor, now)
        /\ p.timing # None => /\ r.floor # None
                              /\ r.floor = p.timing \/ Ahead(r.floor, p.timing)
    <3> HIDE DEF instance, floor, p
    <3> QED
      BY <1>1, <1>3, <1>6, <2>2, ReconcileMonotone, ZenonT(30) DEF floor
  <2> HIDE DEF r
  <2>4. TimeKept
    BY <1>4, <2>3, Zenon DEF TimeKept
  <2>5. TimingInv'
    BY <1>4, <2>3, Zenon DEF TimingInv, Ahead
  <2> QED
    BY <2>4, <2>5, Zenon
<1> QED
  BY <1>5, <1>6, Zenon

\* Every step keeps the session-time invariant and the session time.
LEMMA TimingStep ==
    RuntimeInv /\ RuntimeInv' /\ TimingInv /\ [Next]_vars => TimingInv' /\ TimeKept
<1> SUFFICES ASSUME RuntimeInv, RuntimeInv', TimingInv, [Next]_vars
             PROVE  TimingInv' /\ TimeKept
  BY Zenon
<1>t. /\ now \in Nat
      /\ metadata.timing_floor \in ProcessTiming \cup {None}
      /\ metadata' \in RuntimeMetadata
  BY Zenon DEF RuntimeInv, TypeOK, RuntimeMetadata
<1>1. ASSUME UNCHANGED <<processes, Clock(metadata)>>, state'.game = state.game,
             now' \in {now, now + 1}
      PROVE  TimingInv' /\ TimeKept
  <2>1. /\ metadata'.active_process = metadata.active_process
        /\ metadata'.active_timing = metadata.active_timing
        /\ metadata'.timing_floor = metadata.timing_floor
    BY <1>1, Zenon DEF Clock
  <2>2. TimingInv'
    BY <1>1, <2>1, Zenon DEF TimingInv, Ahead
  <2>3. metadata.timing_floor # None =>
            elapsed_at(metadata.timing_floor, now) <=
                elapsed_at(metadata.timing_floor, now')
    BY <1>1, <1>t, ElapsedGrows
  <2>4. TimeKept
    <3>1. SUFFICES ASSUME metadata.timing_floor # None PROVE
            /\ metadata'.timing_floor # None
            /\ metadata'.active_timing \in {None, metadata'.timing_floor}
            /\ elapsed_at(metadata'.timing_floor, now') >=
                  elapsed_at(metadata.timing_floor, now)
      BY Zenon DEF TimeKept
    <3>2. /\ elapsed_at(metadata.timing_floor, now) \in Nat
          /\ elapsed_at(metadata.timing_floor, now') \in Nat
      BY <1>1, <1>t, <3>1, ElapsedType
    <3> QED
      BY <2>1, <2>3, <3>1, <3>2, Zenon DEF TimingInv
  <2> QED
    BY <2>2, <2>4, Zenon
<1>2. CASE Tick
  BY <1>1, <1>2, Zenon DEF Tick, Clock
<1>3. CASE UNCHANGED vars
  BY <1>1, <1>3, Zenon DEF vars, Clock
<1>4. CASE Next /\ ~Tick
  <2>1. CASE state'.game = None
    <3>1. metadata' = ClearedMetadata
      BY <2>1, Zenon DEF RuntimeInv, Consistent
    <3>2. /\ metadata'.active_process = None /\ metadata'.active_timing = None
      BY <3>1, Zenon DEF ClearedMetadata
    <3> QED
      BY <2>1, <3>2, Zenon DEF TimingInv, TimeKept
  <2>2. now' = now
    BY <1>4, ClockEffect, Zenon
  <2>3. CASE /\ UNCHANGED <<processes, Clock(metadata)>>
             /\ state'.game = state.game
    BY <1>1, <2>2, <2>3, Zenon
  <2>4. CASE \E pid \in Pids, at \in 0..now : Reconciles(pid, at)
    BY <2>2, <2>4, ReconcileStep, Zenon
  <2> QED
    BY <1>4, <2>1, <2>3, <2>4, ClockEffect, Zenon
<1> QED
  BY <1>2, <1>3, <1>4, Zenon

\* The session time of one process instance never goes back, for every number
\* of units a caller may wait for the mutex.
THEOREM SessionTimeCorrect == Spec => SessionTimeMonotone
<1>1. Init => TimingInv
  BY DEF Init, TimingInv, ClearedState, ClearedMetadata
<1>2. RuntimeInv /\ RuntimeInv' /\ TimingInv /\ [Next]_vars => [TimeKept]_vars
  BY TimingStep, Zenon
<1> QED
  BY <1>1, <1>2, InitInv, NextInv, TimingStep, PTL
     DEF Spec, SessionTimeMonotone, SessionTimeGoesOn, TimeKept

-----------------------------------------------------------------------------
\* What carries over

\* The active process changes only with the game: it is dropped, or an
\* observation of another process is accepted.
LEMMA ProcessEffect ==
    ASSUME RuntimeInv, [Next]_vars
    PROVE  \/ state'.game = None
           \/ metadata'.active_process = metadata.active_process
           \/ \E pid, lease, at : metadata' = AcceptProcess(metadata, pid, lease, at)
<1>c. clear_game_locked => state'.game = None
  BY DEF clear_game_locked, Commit, ClearedState
<1>o. ASSUME NEW o, NEW lease, NEW at, ApplyObservation(o, lease, at)
      PROVE  \/ state'.game = None
             \/ metadata' = AcceptProcess(metadata, o.pid, lease, at)
  BY <1>o DEF ApplyObservation, Commit, ClearedState
<1>1. CASE \/ \E o \in Observation, at \in Recent : report_window(o, at)
           \/ \E o \in Observation \cup {None} : poll_window(o)
           \/ clear_game
  BY <1>1, <1>c, <1>o, Zenon DEF report_window, poll_window, clear_game
<1>2. CASE \E scanned \in Recent :
             \E table \in ScannedTables(scanned), at \in scanned..now :
               install_refresh_snapshot(table, at)
  <2>0. PICK scanned \in Recent :
            \E table \in ScannedTables(scanned), at \in scanned..now :
              install_refresh_snapshot(table, at)
    BY <1>2, Zenon
  <2>1. PICK table \in ScannedTables(scanned), at \in scanned..now :
            install_refresh_snapshot(table, at)
    BY <2>0, Zenon
  <2> DEFINE m1 == refresh_active_process(metadata, state.game, table, at)
             m2 == refresh_telemetry(m1, state.game, table)
  <2>2. CASE Commit(ClearedState, ClearedMetadata, at) \/ state.game = None
    BY <2>1, <2>2, SMTT(30) DEF install_refresh_snapshot, Commit, ClearedState
  <2>3. CASE /\ state.game # None /\ Commit(state, m2, at)
             /\ active_game_is_current(state.game, metadata, table, settings)
    <3>1. /\ metadata \in RuntimeMetadata /\ table \in ProcessTable
          /\ at \in Nat /\ state.game \in GameWindow \cup {None}
      BY <2>1, ScanType DEF RuntimeInv, TypeOK, CoreState, Recent
    <3>2. m1 \in RuntimeMetadata
      BY <3>1, RefreshType, Zenon
    <3>3. Clock(m2) = Clock(m1)
      BY <3>2, SamplingKeepsClock, Zenon
    <3>4. m1.active_process = metadata.active_process
      BY <2>3, <3>1, Zenon DEF refresh_active_process, active_game_is_current, RuntimeMetadata
    <3> HIDE DEF m1, m2
    <3> QED
      BY <2>3, <3>3, <3>4, Zenon DEF Commit, Clock
  <2> QED
    BY <2>1, <2>2, <2>3, Zenon DEF install_refresh_snapshot
<1>3. CASE \E s \in Settings : reload_settings(s)
  <2>1. PICK s \in Settings : reload_settings(s)
    BY <1>3, Zenon
  <2>2. CASE Commit(ClearedState, ClearedMetadata, now) \/ state.game = None
    BY <2>1, <2>2, SMTT(30) DEF reload_settings, Commit, ClearedState
  <2>3. CASE /\ state.game # None
             /\ active_game_is_current(state.game, metadata, processes, s)
    <3>1. metadata' = refresh_active_process(metadata, state.game, processes, now)
      BY <2>1, <2>3, Zenon DEF reload_settings, Commit
    <3> QED
      BY <2>3, <3>1, Zenon DEF refresh_active_process, active_game_is_current,
                        RuntimeInv, TypeOK, RuntimeMetadata
  <2> QED
    BY <2>1, <2>2, <2>3, Zenon DEF reload_settings
<1>4. CASE \/ \E at \in Recent : toggle_manual_stopwatch(at)
           \/ \E at \in Recent : reset_manual_stopwatch(at)
  BY <1>4, ZenonT(30) DEF toggle_manual_stopwatch, reset_manual_stopwatch, Commit,
              RuntimeInv, TypeOK, RuntimeMetadata
<1>5. CASE \/ Tick \/ toggle_overlay
           \/ \E b \in BOOLEAN : set_overlay_interactive(b)
           \/ run_bridge_watchdog \/ expire_bridge_lease
           \/ \E b \in WidgetProfiles : reload_widget_profile(b)
           \/ UNCHANGED vars
  BY <1>5, <1>c, ZenonT(30) DEF Tick, toggle_overlay, set_overlay_interactive, Commit,
              run_bridge_watchdog, expire_bridge_lease, reload_widget_profile, vars
<1> QED
  BY <1>1, <1>2, <1>3, <1>4, <1>5, Zenon DEF Next

\* A stopwatch, telemetry or CPU baseline never carries over to another
\* process instance.
THEOREM CarryOverCorrect == Spec => NothingCarriesOver
<1> DEFINE P == metadata'.active_process # metadata.active_process =>
                  /\ metadata'.stopwatch = StoppedStopwatch
                  /\ metadata'.telemetry = None
                  /\ metadata'.sampler = None
<1>1. RuntimeInv /\ RuntimeInv' /\ [Next]_vars => [P]_vars
  <2> SUFFICES ASSUME RuntimeInv, RuntimeInv', [Next]_vars,
                      metadata'.active_process # metadata.active_process
               PROVE  /\ metadata'.stopwatch = StoppedStopwatch
                      /\ metadata'.telemetry = None
                      /\ metadata'.sampler = None
    BY Zenon
  <2>1. CASE state'.game = None
    BY <2>1, SMTT(30) DEF RuntimeInv, Consistent, ClearedMetadata
  <2>2. CASE \E pid, lease, at : metadata' = AcceptProcess(metadata, pid, lease, at)
    BY <2>2 DEF AcceptProcess, same_telemetry_group
  <2> QED
    BY <2>1, <2>2, ProcessEffect, Zenon
<1> QED
  BY <1>1, InitInv, NextInv, PTL DEF Spec, NothingCarriesOver, StartsAfresh

\* All the step properties of Core's clocks together.
THEOREM ClockHonest == Spec => ClockIsHonest
<1>1. [ExpiresInTime]_vars /\ [SessionTimeGoesOn]_vars /\ [StartsAfresh]_vars
      => [ExpiresInTime /\ SessionTimeGoesOn /\ StartsAfresh]_vars
  BY Zenon
<1> QED
  BY <1>1, ExpiryCorrect, SessionTimeCorrect, CarryOverCorrect, PTL
     DEF ClockIsHonest, NoEarlyExpiry, SessionTimeMonotone, NothingCarriesOver
=============================================================================
