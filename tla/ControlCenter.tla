---------------------------- MODULE ControlCenter ----------------------------
(***************************************************************************)
(* The Control Center: its controller (overcrow-control app.rs, model.rs,  *)
(* commands.rs), the transaction that switches OverCrow on and off         *)
(* (lifecycle.rs) on a worker thread, the update state machine             *)
(* (updates.rs) and the two threads that stop the runtime before they go   *)
(* on: the tray's Quit and the installation of an update (tray.rs).  Every *)
(* command holds the controller's mutex, so it is one step; the worker's   *)
(* calls and the stopping threads' polls are steps of their own.           *)
(***************************************************************************)
EXTENDS Naturals, FiniteSets

CONSTANTS Steam, Manual,  \* games: Steam ids, native executables
          Versions,       \* releases the update source may offer
          Budgets,        \* [requests, edits, faults] of one behaviour
          None

VARIABLES file,     \* settings.json: [bad, enabled, games]
          exe,      \* the manual games whose executable is there
          ui,       \* the controller: [settings, status, error, picked]
          worker,   \* the lifecycle worker: [pc, enabling, settings, failed, load]
          core,     \* the Core unit: [running, enabled]
          session,  \* a renderer or bridge unit is running
          stop,     \* where each stopping thread is in stop_runtime
          update,   \* [op, phase, candidate, asset]
          budget

vars == <<file, exe, ui, worker, core, session, stop, update, budget>>

Stoppers == {"quit", "install"}

Settings(enabled, games) == [enabled |-> enabled, games |-> games]

\* SettingsStore::load: a file it cannot accept is a disabled default and a warning.
Load == IF file.bad THEN [warning |-> TRUE, settings |-> Settings(FALSE, {})]
                    ELSE [warning |-> FALSE, settings |-> Settings(file.enabled, file.games)]

\* ControlModel::new and apply_settings_load drop the manual games that no longer
\* validate, and then do not count as enabled.
Revalidated(s) == LET kept == s.games \ (Manual \ exe)
                  IN  Settings(s.enabled /\ kept = s.games, kept)

StatusOf(load) == CASE load.warning -> "Warning"
                    [] ~load.warning /\ load.settings.enabled -> "Enabled"
                    [] OTHER -> "Disabled"

NoWorker == [pc |-> "none", enabling |-> FALSE, settings |-> Settings(FALSE, {}),
             failed |-> FALSE, load |-> [warning |-> FALSE, settings |-> Settings(FALSE, {})]]

\* What a new process holds.
NewController == [settings |-> Revalidated(Load.settings), status |-> StatusOf(Load),
                  error |-> FALSE, picked |-> None]
NewUpdate == [op |-> "none", phase |-> "Idle", candidate |-> None, asset |-> None]
NotStopping == [t \in Stoppers |-> "idle"]

Init ==
    /\ file = [bad |-> FALSE, enabled |-> FALSE, games |-> {}]
    /\ exe = Manual
    /\ ui = NewController
    /\ worker = NoWorker
    /\ core = [running |-> FALSE, enabled |-> FALSE]
    /\ session = FALSE
    /\ stop = NotStopping
    /\ update = NewUpdate
    /\ budget \in Budgets

Spend(what) == budget[what] > 0 /\ budget' = [budget EXCEPT ![what] = @ - 1]

------------------------------------------------------------------------------
(* The settings file.                                                      *)

\* SettingsStore::save: the file is replaced in one step or not at all, and a
\* replacement whose directory could not be synchronised is an error too.
Save(s, ok) ==
    \/ /\ ok /\ UNCHANGED budget
       /\ file' = [bad |-> FALSE, enabled |-> s.enabled, games |-> s.games]
    \/ /\ ~ok /\ Spend("faults")
       /\ \/ UNCHANGED file
          \/ file' = [bad |-> FALSE, enabled |-> s.enabled, games |-> s.games]

------------------------------------------------------------------------------
(* Commands.                                                               *)

EditingEnabled == worker.pc = "none" /\ ui.status = "Disabled"

\* selection_transaction keeps the change when the file was replaced and takes it
\* back when it was not; save_selections refuses a manual game that is gone.
SelectionTransaction(games) ==
    IF EditingEnabled /\ games # ui.settings.games /\ games \cap Manual \subseteq exe
      THEN {[settings |-> [ui.settings EXCEPT !.games = games], saved |-> TRUE],
            [settings |-> ui.settings, saved |-> FALSE]}
      ELSE {[settings |-> ui.settings, saved |-> FALSE]}

Written(outcome) ==
    IF outcome.saved THEN [bad |-> FALSE, enabled |-> outcome.settings.enabled,
                           games |-> outcome.settings.games]
                     ELSE file

\* poll_pending: first the picker's game, then the lifecycle completion.  A game
\* picked while editing is locked is dropped.  The worker always sends its completion:
\* the branch for one that panicked is left out, as nothing it runs panics.
PollLifecycle(settings) ==
    IF worker.pc = "done"
      THEN [settings |-> Revalidated(worker.load.settings), status |-> StatusOf(worker.load),
            error |-> worker.failed, picked |-> None]
      ELSE [ui EXCEPT !.settings = settings, !.picked = None]

PollPending ==
    \E outcome \in SelectionTransaction(ui.settings.games \cup ({ui.picked} \ {None})) :
        /\ file' = Written(outcome)
        /\ ui' = PollLifecycle(outcome.settings)
        /\ worker' = IF worker.pc = "done" THEN NoWorker ELSE worker

GetControlState ==
    /\ PollPending
    /\ UNCHANGED <<exe, core, session, stop, update, budget>>

Selectable(g) == g \in Steam \/ g \in ui.settings.games

\* set_game_selected and remove_manual_game
SetSelected(g) ==
    /\ Spend("edits")
    /\ Selectable(g)
    /\ LET games == IF g \in ui.settings.games THEN ui.settings.games \ {g}
                                               ELSE ui.settings.games \cup {g}
       IN \E outcome \in SelectionTransaction(games) :
            /\ file' = Written(outcome)
            /\ ui' = [ui EXCEPT !.settings = outcome.settings]
    /\ UNCHANGED <<exe, worker, core, session, stop, update>>

\* pick_manual_game: the dialog's answer waits for the next poll.
PickManualGame(g) ==
    /\ Spend("edits")
    /\ ui.picked = None
    /\ ui' = [ui EXCEPT !.picked = g]
    /\ UNCHANGED <<file, exe, worker, core, session, stop, update>>

\* set_overcrow_enabled: request_master_toggle starts the worker.
Accepted(enable) ==
    /\ worker.pc = "none"
    /\ enable => ui.status # "Warning" /\ ui.settings.games # {}

RequestMasterToggle(enable) ==
    /\ worker' = [NoWorker EXCEPT !.pc = IF enable THEN "validate" ELSE "disable",
                                  !.enabling = enable, !.settings = ui.settings]
    /\ ui' = [ui EXCEPT !.error = FALSE]

SetOvercrowEnabled(enable) ==
    /\ Spend("requests")
    /\ worker.pc = "none"
    /\ IF Accepted(enable) THEN RequestMasterToggle(enable)
                           ELSE ui' = [ui EXCEPT !.error = TRUE] /\ UNCHANGED worker
    /\ UNCHANGED <<file, exe, core, session, stop, update>>

------------------------------------------------------------------------------
(* The lifecycle worker.  A command that fails may have had its effect.    *)

Goto(pc) == worker' = [worker EXCEPT !.pc = pc]
Fail(pc) == worker' = [worker EXCEPT !.pc = pc, !.failed = TRUE]

\* enable up to its first side effect: nothing is rolled back.
EnableValidate ==
    /\ worker.pc = "validate"
    /\ \/ ~Load.warning /\ worker.settings.games \cap Manual \subseteq exe
          /\ Goto("save") /\ UNCHANGED budget
       \/ (Load.warning \/ ~(worker.settings.games \cap Manual \subseteq exe))
          /\ Fail("snapshot") /\ UNCHANGED budget
       \/ Spend("faults") /\ Fail("snapshot")  \* prepare_activation
    /\ UNCHANGED <<file, exe, ui, core, session, stop, update>>

EnableSave ==
    /\ worker.pc = "save"
    /\ \E ok \in BOOLEAN :
           /\ Save(Settings(TRUE, worker.settings.games), ok)
           /\ IF ok THEN Goto("integrate") ELSE Fail("rollback")
    /\ UNCHANGED <<exe, ui, core, session, stop, update>>

EnableIntegrate ==
    /\ worker.pc = "integrate"
    /\ \/ Goto("enable_core") /\ UNCHANGED budget
       \/ Spend("faults") /\ Fail("rollback")
    /\ UNCHANGED <<file, exe, ui, core, session, stop, update>>

EnableCore ==
    /\ worker.pc = "enable_core"
    /\ \/ /\ core' = [running |-> TRUE, enabled |-> TRUE]
          /\ Goto("snapshot") /\ UNCHANGED budget
       \/ /\ core' \in {core, [core EXCEPT !.enabled = TRUE], [running |-> TRUE, enabled |-> TRUE]}
          /\ Spend("faults") /\ Fail("rollback")
    /\ UNCHANGED <<file, exe, ui, session, stop, update>>

\* disable and rollback_after_enable write what the file holds with enabled = false,
\* and leave a file they could not load alone.
PersistDisabled ==
    /\ worker.pc \in {"disable", "rollback"}
    /\ IF Load.warning
         THEN Fail("passive") /\ UNCHANGED <<file, budget>>
         ELSE \E ok \in BOOLEAN :
                  /\ Save([Load.settings EXCEPT !.enabled = FALSE], ok)
                  /\ IF ok THEN Goto("passive") ELSE Fail("passive")
    /\ UNCHANGED <<exe, ui, core, session, stop, update>>

\* run_cleanup: each step is taken whatever became of the one before.
RequestPassive ==
    /\ worker.pc = "passive"
    /\ \/ Goto("stop_session") /\ UNCHANGED budget
       \/ Spend("faults") /\ Fail("stop_session")
    /\ UNCHANGED <<file, exe, ui, core, session, stop, update>>

StopSession ==
    /\ worker.pc = "stop_session"
    /\ \/ session' = FALSE /\ Goto("disable_core") /\ UNCHANGED budget
       \/ session' \in {session, FALSE} /\ Spend("faults") /\ Fail("disable_core")
    /\ UNCHANGED <<file, exe, ui, core, stop, update>>

\* The session units require the Core unit: stopping it stops them.
DisableCore ==
    /\ worker.pc = "disable_core"
    /\ \/ /\ core' = [running |-> FALSE, enabled |-> FALSE] /\ session' = FALSE
          /\ Goto("snapshot") /\ UNCHANGED budget
       \/ /\ core' \in {core, [core EXCEPT !.enabled = FALSE]} /\ UNCHANGED session
          /\ Spend("faults") /\ Fail("snapshot")
    /\ UNCHANGED <<file, exe, ui, stop, update>>

TakeSnapshot ==
    /\ worker.pc = "snapshot"
    /\ worker' = [worker EXCEPT !.pc = "done", !.load = Load]
    /\ UNCHANGED <<file, exe, ui, core, session, stop, update, budget>>

------------------------------------------------------------------------------
(* stop_runtime, as the tray's Quit and the installation call it.          *)

\* wait_for_lifecycle polls until no transaction is in flight.
Idle == worker.pc \in {"none", "done"}

\* Mutant: the error of the disable is not looked at.
ShutdownSucceeded_by_status == ui'.status = "Disabled"

\* The snapshot after the poll; a disable that reported an error is no shutdown.
ShutdownSucceeded == ui'.status = "Disabled" /\ ~ui'.error

\* stop_and_quit lets the user try again; the installation reports the failure.
Failed(t) == IF t = "quit" THEN "idle" ELSE "failed"

StopWait(t) ==
    /\ stop[t] \in {"wait", "wait_stopped"}
    /\ Idle
    /\ PollPending
    /\ stop' = [stop EXCEPT ![t] = CASE @ = "wait" -> "request"
                                     [] @ = "wait_stopped" /\ ShutdownSucceeded -> "stopped"
                                     [] OTHER -> Failed(t)]
    /\ UNCHANGED <<exe, core, session, update, budget>>

\* LIFECYCLE_TIMEOUT passed.
StopTimeout(t) ==
    /\ stop[t] \in {"wait", "wait_stopped"}
    /\ ~Idle
    /\ Spend("faults")
    /\ stop' = [stop EXCEPT ![t] = Failed(t)]
    /\ UNCHANGED <<file, exe, ui, worker, core, session, update>>

StopRequest(t) ==
    /\ stop[t] = "request"
    /\ IF Accepted(FALSE)
         THEN RequestMasterToggle(FALSE) /\ stop' = [stop EXCEPT ![t] = "wait_stopped"]
         ELSE UNCHANGED <<ui, worker>> /\ stop' = [stop EXCEPT ![t] = Failed(t)]
    /\ UNCHANGED <<file, exe, core, session, update, budget>>

RequestQuit ==
    /\ Spend("requests")
    /\ stop["quit"] = "idle"
    /\ stop' = [stop EXCEPT !["quit"] = "wait"]
    /\ UNCHANGED <<file, exe, ui, worker, core, session, update>>

\* A new process: nothing but the file and the units outlives the old one.
Relaunch ==
    /\ ui' = NewController
    /\ worker' = NoWorker
    /\ stop' = NotStopping
    /\ update' = NewUpdate
    /\ UNCHANGED <<file, exe, core, session>>

Quit == stop["quit"] = "stopped" /\ Relaunch /\ UNCHANGED budget

\* The process is killed, or restarts after an update.
Crash == Spend("faults") /\ Relaunch

------------------------------------------------------------------------------
(* Updates.                                                                *)

\* Mutant: an installation begins while another one runs.
BeginOperation_unguarded == stop["install"] = "idle" /\ update.op # "check"

\* begin_operation: one check or installation at a time.
BeginOperation == update.op = "none"

\* A check too soon after the last one changes nothing.
Check ==
    /\ Spend("requests")
    /\ BeginOperation
    /\ update' = [update EXCEPT !.op = "check", !.phase = "Checking", !.candidate = None]
    /\ UNCHANGED <<file, exe, ui, worker, core, session, stop>>

\* The source answers with a release to install, one to install by hand (no asset
\* for this package, or no package), none, or an error.
Checked ==
    /\ update.op = "check"
    /\ \/ \E v \in Versions, installable \in BOOLEAN :
            update' = [update EXCEPT !.op = "none",
                                     !.candidate = [version |-> v, installable |-> installable],
                                     !.phase = IF installable THEN "Available" ELSE "Manual"]
       \/ \E phase \in {"UpToDate", "Failed"} :
            update' = [update EXCEPT !.op = "none", !.phase = phase]
    /\ UNCHANGED <<file, exe, ui, worker, core, session, stop, budget>>

InstallAvailableUpdate ==
    /\ Spend("requests")
    /\ BeginOperation
    /\ update.candidate # None /\ update.candidate.installable
    /\ update' = [update EXCEPT !.op = "install", !.phase = "Downloading",
                                !.asset = update.candidate]
    /\ UNCHANGED <<file, exe, ui, worker, core, session, stop>>

\* publish_failure; the candidate stays for another try.
InstallFailed == [update EXCEPT !.op = "none", !.phase = "Failed", !.asset = None]

\* download: streamed, hashed and published in the cache, or an error.
Downloaded ==
    /\ update.op = "install" /\ update.phase = "Downloading" /\ stop["install"] = "idle"
    /\ \/ stop' = [stop EXCEPT !["install"] = "wait"] /\ UNCHANGED <<update, budget>>
       \/ Spend("faults") /\ update' = InstallFailed /\ UNCHANGED stop
    /\ UNCHANGED <<file, exe, ui, worker, core, session>>

\* before_install has answered; the privileged installer runs only if it succeeded.
BeforeInstall ==
    /\ stop["install"] \in {"stopped", "failed"}
    /\ update' = IF stop["install"] = "stopped" THEN [update EXCEPT !.phase = "Installing"]
                                                ELSE InstallFailed
    /\ stop' = [stop EXCEPT !["install"] = "idle"]
    /\ UNCHANGED <<file, exe, ui, worker, core, session, budget>>

Installed ==
    /\ update.phase = "Installing"
    /\ \/ \E phase \in {"Installed", "RestartRequired"} :
            update' = [update EXCEPT !.op = "none", !.phase = phase, !.asset = None]
          /\ UNCHANGED budget
       \/ Spend("faults") /\ update' = InstallFailed
    /\ UNCHANGED <<file, exe, ui, worker, core, session, stop>>

------------------------------------------------------------------------------
(* The rest of the desktop.                                                *)

\* Core starts the session's units for a game, and stops them after it.
SessionChanges ==
    /\ core.running /\ Spend("edits")
    /\ session' = ~session
    /\ UNCHANGED <<file, exe, ui, worker, core, stop, update>>

\* The file is damaged or repaired by hand.
EditFile ==
    /\ Spend("edits")
    /\ file' = [file EXCEPT !.bad = ~@]
    /\ UNCHANGED <<exe, ui, worker, core, session, stop, update>>

ChangeExecutable(g) ==
    /\ Spend("edits")
    /\ exe' = IF g \in exe THEN exe \ {g} ELSE exe \cup {g}
    /\ UNCHANGED <<file, ui, worker, core, session, stop, update>>

Next ==
    \/ GetControlState
    \/ \E g \in Steam \cup Manual : SetSelected(g)
    \/ \E g \in Manual : PickManualGame(g) \/ ChangeExecutable(g)
    \/ \E enable \in BOOLEAN : SetOvercrowEnabled(enable)
    \/ EnableValidate \/ EnableSave \/ EnableIntegrate \/ EnableCore
    \/ PersistDisabled \/ RequestPassive \/ StopSession \/ DisableCore \/ TakeSnapshot
    \/ \E t \in Stoppers : StopWait(t) \/ StopTimeout(t) \/ StopRequest(t)
    \/ RequestQuit \/ Quit \/ Crash
    \/ Check \/ Checked \/ InstallAvailableUpdate \/ Downloaded \/ BeforeInstall \/ Installed
    \/ SessionChanges \/ EditFile

Spec == Init /\ [][Next]_vars

------------------------------------------------------------------------------
(* Properties.                                                             *)

\* stop_runtime succeeds only when everything is really down: at the poll that
\* answers Quit or the installation, the settings are disabled, Core is stopped and
\* will not start at the next login, and no renderer or bridge runs.
StopsEverything ==
    \A t \in Stoppers : stop[t] = "wait_stopped" /\ stop'[t] = "stopped" =>
      ~core'.running /\ ~core'.enabled /\ ~session' /\ ~file'.enabled

\* While games can be selected, the controller shows the selection the settings file
\* holds, less the manual games that no longer validate, and the file says disabled:
\* a transaction, a failed save or a lost game never leaves the two apart.
SelectionsAgree ==
    EditingEnabled /\ ~file.bad =>
        /\ ~file.enabled
        /\ ui.settings.games \subseteq file.games
        /\ file.games \ ui.settings.games \subseteq Manual

\* What is downloaded and installed is the release that the published state offers.
InstallsTheOffer ==
    update.asset # None => update.candidate = update.asset /\ update.op = "install"
==============================================================================
