---------------------------- MODULE SettingsStores ----------------------------
(***************************************************************************)
(* The settings files on disk.  Each of the four stores replaces its file  *)
(* the same way: a private temporary file is written, synced and renamed   *)
(* over the old one, then the directory is synced.  Modelled are the       *)
(* process that edits (the renderer; the control centre for "lifecycle"),  *)
(* the Twitch saver's worker thread, the Core that reads two of the files  *)
(* back, and the failures: an operation that fails, a killed process, a    *)
(* loss of power.                                                          *)
(***************************************************************************)
EXTENDS Preferences

CONSTANTS Kinds,     \* the stores looked at
          Offerings, \* sequences of resources that the active invasions offer
          Current,   \* activities of the current worldstate
          Channels,  \* channel names as typed
          Budgets    \* records [edits, faults, crashes]

VARIABLES kind,    \* the store
          file,    \* [now, durable]: what the name means, and meant at the last sync
          memory,  \* [value, stamp]: the editing process's settings
          save,    \* [pc, value, stamp, base]: a running save
          saver,   \* the TwitchPrefsSaver: [busy, queue, outcome]
          core,    \* [value, stamp]: what the Core last applied
          task,    \* the Core's two readers, under reload_transaction
          acked,   \* stamp of the last save reported as durable
          stamps,  \* stamps given out
          strayed, \* the file was replaced by a save that reported failure
          budget

vars == <<kind, file, memory, save, saver, core, task, acked, stamps, strayed, budget>>

Spend(what) == budget[what] > 0 /\ budget' = [budget EXCEPT ![what] = @ - 1]

------------------------------------------------------------------------------
(* Reading.  A file is absent, of the wrong type, mode or size (unsafe),   *)
(* cut short by a crash (torn), or has a value that may still be invalid.  *)

Entry(is, value, stamp, synced) == [is |-> is, value |-> value, stamp |-> stamp, synced |-> synced]

Rejected(value) == [value |-> value, warning |-> TRUE]
Loaded(value) == [value |-> value, warning |-> FALSE]

Checked(check, default) == IF check.ok THEN Loaded(check.value) ELSE Rejected(default)

\* Schemas 1 and 2 are read as schema 3; without a file the old overlay.json counts.
Upgraded(p) == IF p.schema \in {1, 2} THEN [p EXCEPT !.schema = 3] ELSE p
ReadProfile(e) ==
    IF e.is = "value" THEN Checked(ValidateProfile(Upgraded(e.value)), DefaultProfile)
    ELSE Rejected(DefaultProfile)

\* A "legacy" entry is a missing file beside an overlay.json that shows the widget.
LoadProfile(e) ==
    CASE e.is = "missing" -> Loaded(DefaultProfile)
      [] e.is = "legacy" -> Loaded([DefaultProfile EXCEPT !.passive = TRUE])
      [] OTHER -> ReadProfile(e)

ReadTwitchPrefs(e) ==
    IF e.is = "value" THEN Checked(ValidateTwitchPrefs(e.value), DefaultTwitchPrefs)
    ELSE Rejected(DefaultTwitchPrefs)

LoadTwitchPrefs(e) == IF e.is = "missing" THEN Loaded(DefaultTwitchPrefs) ELSE ReadTwitchPrefs(e)

ReadWarframePrefs(e) ==
    IF e.is = "value" THEN Checked(ValidateWarframePrefs(e.value), DefaultWarframePrefs)
    ELSE Rejected(DefaultWarframePrefs)

LoadWarframePrefs(e) ==
    IF e.is = "missing" THEN Loaded(DefaultWarframePrefs) ELSE ReadWarframePrefs(e)

LoadSettings(e) ==
    CASE e.is = "missing" -> Loaded(DefaultSettings)
      [] e.is = "value" -> Checked(ValidateSettings(e.value), DefaultSettings)
      [] OTHER -> Rejected(DefaultSettings)

Load(e) ==
    CASE kind = "lifecycle" -> LoadSettings(e)
      [] kind = "widgets" -> LoadProfile(e)
      [] kind = "twitch" -> LoadTwitchPrefs(e)
      [] kind = "warframe" -> LoadWarframePrefs(e)

\* What the program may find when it first starts: a file of a value it wrote, of an
\* old schema, edited by hand, unsafe, or none.
InitialEntries(k) ==
    LET entry(v) == Entry("value", v, 0, TRUE)
    IN  {Entry("unsafe", None, 0, TRUE), Entry("missing", None, 0, TRUE)} \cup
        CASE k = "lifecycle" -> {entry(DefaultSettings), entry([DefaultSettings EXCEPT !.inRange = FALSE])}
          [] k = "widgets" -> {entry([DefaultProfile EXCEPT !.schema = 1]),
                               entry([DefaultProfile EXCEPT !.inRange = FALSE]),
                               Entry("legacy", None, 0, TRUE)}
          [] k = "twitch" -> {entry([DefaultTwitchPrefs EXCEPT !.favorites = <<c, c>>])
                                : c \in Channels}
          [] k = "warframe" -> {entry([DefaultWarframePrefs EXCEPT !.filter = <<f>>])
                                  : f \in [id : {"x"}, form : {"path", "blank", "padded", "illegal"}]}

Idle == [pc |-> "idle", value |-> None, stamp |-> 0, base |-> 0]
FreeSaver == [busy |-> FALSE, queue |-> <<>>, outcome |-> <<>>]
NoTask == [pc |-> "idle", read |-> [value |-> None, stamp |-> 0, warning |-> TRUE]]

Init ==
    /\ kind \in Kinds
    /\ \E e \in InitialEntries(kind) :
         /\ file = [now |-> e, durable |-> e]
         /\ memory = [value |-> Load(e).value, stamp |-> 0]
         /\ core = [value |-> Load(e).value, stamp |-> 0]
    /\ save = Idle /\ saver = FreeSaver
    /\ task = [t \in {"command", "refresh"} |-> NoTask]
    /\ acked = 0 /\ stamps = 0 /\ strayed = FALSE
    /\ budget \in Budgets

------------------------------------------------------------------------------
(* Edits.                                                                  *)

Candidates(v) ==
    CASE kind = "lifecycle" -> {[v EXCEPT !.enabled = ~@], [v EXCEPT !.games = SymDiff(@, {1})]}
      [] kind = "widgets" -> {CatalogCard(v), SetPassive(v, ~v.passive)} \cup ProfileOptions(v)
      [] kind = "twitch" -> {SetChannel(v, c) : c \in Channels} \cup {ClearChannel(v)}
                            \cup {ToggleFavorite(v, NormalizeTwitchChannel(c)) : c \in Channels}
      [] kind = "warframe" -> UNION {EditWarframePrefs(v, offered, Current) : offered \in Offerings}

Validate(v) ==
    CASE kind = "lifecycle" -> ValidateSettings(v)
      [] kind = "widgets" -> ValidateProfile(v)
      [] kind = "twitch" -> ValidateTwitchPrefs(v)
      [] kind = "warframe" -> ValidateWarframePrefs(v)

Job(v) == [pc |-> "temp", value |-> v, stamp |-> stamps + 1, base |-> memory.stamp]

\* persist_profile_change_with_commit, commit_warframe_prefs and the control centre
\* save before they return; a candidate that is not valid changes nothing.
Commit(v) ==
    /\ kind # "twitch"
    /\ save' = Job(v)
    /\ UNCHANGED saver

\* try_save: refused while an earlier save has not been answered and taken.
TrySave(v) ==
    /\ kind = "twitch"
    /\ ~saver.busy
    /\ saver' = [saver EXCEPT !.busy = TRUE, !.queue = <<Job(v)>>]
    /\ UNCHANGED save

Edit ==
    /\ Spend("edits")
    /\ kind = "twitch" \/ save.pc = "idle"
    /\ \E v \in Candidates(memory.value) :
         /\ Validate(v).ok
         /\ Commit(Validate(v).value) \/ TrySave(Validate(v).value)
    /\ stamps' = stamps + 1
    /\ UNCHANGED <<kind, file, memory, core, task, acked, strayed>>

\* The saver's thread takes the candidate.
Receive ==
    /\ save.pc = "idle" /\ saver.queue # <<>>
    /\ save' = Head(saver.queue)
    /\ saver' = [saver EXCEPT !.queue = <<>>]
    /\ UNCHANGED <<kind, file, memory, core, task, acked, stamps, strayed, budget>>

------------------------------------------------------------------------------
(* One save, step by step.  Each step may fail.                            *)

\* Durable, CommittedWithWarning or RolledBack, to whoever asked.
Outcome(result) == [result |-> result, value |-> save.value, stamp |-> save.stamp]

Applied(o) == IF o.result = "rolled_back" THEN memory ELSE [value |-> o.value, stamp |-> o.stamp]

\* The overlay asks the Core to reload when it switched the stopwatch.  ReloadSettings is
\* there for any client of the session bus; it is taken to be called after every save of
\* the lifecycle settings, which is when it would matter.
ReloadRequested(o) ==
    /\ o.result # "rolled_back"
    /\ \/ kind = "lifecycle"
       \/ kind = "widgets" /\ o.value.stopwatch # memory.value.stopwatch

Report(result) ==
    LET o == Outcome(result)
    IN  /\ save' = Idle
        /\ acked' = IF result = "durable" THEN save.stamp ELSE acked
        /\ IF kind = "twitch"
             THEN saver' = [saver EXCEPT !.outcome = <<o>>] /\ UNCHANGED <<memory, task>>
             ELSE /\ memory' = Applied(o)
                  /\ task' = IF ReloadRequested(o) /\ task["command"].pc = "idle"
                               THEN [task EXCEPT !["command"].pc = "wait"] ELSE task
                  /\ UNCHANGED saver

\* create_dir_all, the temporary file, its mode, its contents.
WriteTemp ==
    /\ save.pc = "temp"
    /\ save' = [save EXCEPT !.pc = "sync"]
    /\ UNCHANGED <<kind, file, memory, saver, core, task, acked, stamps, strayed, budget>>

Renamed(synced) == [file EXCEPT !.now = Entry("value", save.value, save.stamp, synced)]

\* Mutant: the temporary file is renamed without a sync.
PersistTemp_unsynced == file' = Renamed(FALSE)

\* sync_all on the temporary file, then the rename.
PersistTemp == file' = Renamed(TRUE)
Persist ==
    /\ save.pc = "sync"
    /\ PersistTemp
    /\ save' = [save EXCEPT !.pc = "parent"]
    /\ UNCHANGED <<kind, memory, saver, core, task, acked, stamps, strayed, budget>>

SyncParent ==
    /\ save.pc = "parent"
    /\ file' = [file EXCEPT !.durable = file.now]
    /\ Report("durable")
    /\ UNCHANGED <<kind, core, stamps, strayed, budget>>

\* What each store's save reports of a step that fails: before the rename the old
\* file is still there; after it the lifecycle and widget stores say that the new
\* one is, whether the directory cannot be opened or cannot be synced, the other two
\* only if it could be opened.
SettingsSaveFailure(pc) == IF pc = "parent" THEN {"committed"} ELSE {"rolled_back"}
ProfileSaveFailure(pc) == IF pc = "parent" THEN {"committed"} ELSE {"rolled_back"}
TwitchSaveFailure(pc) == IF pc = "parent" THEN {"committed", "rolled_back"} ELSE {"rolled_back"}
WarframeSaveFailure(pc) == IF pc = "parent" THEN {"committed", "rolled_back"} ELSE {"rolled_back"}

SaveFails ==
    /\ save.pc # "idle"
    /\ Spend("faults")
    /\ \E result \in CASE kind = "lifecycle" -> SettingsSaveFailure(save.pc)
                         [] kind = "widgets" -> ProfileSaveFailure(save.pc)
                         [] kind = "twitch" -> TwitchSaveFailure(save.pc)
                         [] kind = "warframe" -> WarframeSaveFailure(save.pc) :
         /\ Report(result)
         /\ strayed' = (strayed \/ (save.pc = "parent" /\ result = "rolled_back"))
    /\ UNCHANGED <<kind, file, core, stamps>>

TakeLatest ==
    /\ saver.outcome # <<>>
    /\ memory' = Applied(Head(saver.outcome))
    /\ saver' = [saver EXCEPT !.outcome = <<>>, !.busy = FALSE]
    /\ UNCHANGED <<kind, file, save, core, task, acked, stamps, strayed, budget>>

------------------------------------------------------------------------------
(* The Core: ReloadSettings and ReloadWidgetSettings on demand, and the    *)
(* widget profile again at every WIDGET_SETTINGS_REFRESH_INTERVAL.         *)

Tick ==
    /\ kind = "widgets"
    /\ task["refresh"].pc = "idle"
    /\ task' = [task EXCEPT !["refresh"].pc = "wait"]
    /\ UNCHANGED <<kind, file, memory, save, saver, core, acked, stamps, strayed, budget>>

\* Mutant: two reloads may run side by side.
LockReload_shared(t) == TRUE

LockReload(t) == \A u \in DOMAIN task : task[u].pc # "apply"

\* The lock is held from the load to the end of the reload.
ReloadLoad(t) ==
    /\ task[t].pc = "wait"
    /\ LockReload(t)
    /\ LET load == Load(file.now)
       IN  task' = [task EXCEPT ![t] =
                      IF load.warning THEN NoTask
                      ELSE [pc |-> "apply", read |-> [value |-> load.value, warning |-> FALSE,
                                                      stamp |-> file.now.stamp]]]
    /\ UNCHANGED <<kind, file, memory, save, saver, core, acked, stamps, strayed, budget>>

\* validate_enabled_settings: settings that are switched off are refused.
Refused(v) == kind = "lifecycle" /\ ~v.enabled

ReloadApply(t) ==
    /\ task[t].pc = "apply"
    /\ core' = IF Refused(task[t].read.value) THEN core
               ELSE [value |-> task[t].read.value, stamp |-> task[t].read.stamp]
    /\ task' = [task EXCEPT ![t] = NoTask]
    /\ UNCHANGED <<kind, file, memory, save, saver, acked, stamps, strayed, budget>>

------------------------------------------------------------------------------
(* The editing process dies, or everything does.                           *)

Restarted(e) == [value |-> Load(e).value, stamp |-> e.stamp]

\* The detached saver dies with its process.
Kill ==
    /\ Spend("crashes")
    /\ save' = Idle /\ saver' = FreeSaver /\ strayed' = FALSE
    /\ memory' = Restarted(file.now)
    /\ UNCHANGED <<kind, file, core, task, acked, stamps>>

\* A name that was not synced means the old or the new file; a file that was not
\* synced may have lost its contents.
AfterPowerLoss ==
    UNION {{e} \cup (IF e.synced THEN {} ELSE {[e EXCEPT !.is = "torn"]})
             : e \in {file.now, file.durable}}

PowerLoss ==
    /\ Spend("crashes")
    /\ \E e \in AfterPowerLoss :
         /\ file' = [now |-> e, durable |-> e]
         /\ memory' = Restarted(e)
         /\ core' = Restarted(e)
    /\ save' = Idle /\ saver' = FreeSaver /\ strayed' = FALSE
    /\ task' = [t \in DOMAIN task |-> NoTask]
    /\ UNCHANGED <<kind, acked, stamps>>

Next ==
    \/ Edit \/ Receive \/ WriteTemp \/ Persist \/ SyncParent \/ SaveFails
    \/ TakeLatest \/ Tick
    \/ \E t \in DOMAIN task : ReloadLoad(t) \/ ReloadApply(t)
    \/ Kill \/ PowerLoss

Spec == Init /\ [][Next]_vars

------------------------------------------------------------------------------
(* Properties.                                                             *)

\* Whenever the power fails, the file that is found can be read in full and is no
\* older than the last save the user was told is durable: save syncs the temporary
\* file before the rename and the directory before it returns Ok.
SurvivesPowerLoss ==
    \A e \in AfterPowerLoss :
        e.is # "torn" /\ e.stamp >= acked

\* No edit is lost to another: the candidate that is being saved was made from the
\* settings the file holds (or just held), also for the Twitch saver, whose thread
\* saves while the user goes on editing.  Only a save that replaced the file and
\* then could not open the directory leaves the process with older settings.
NoLostEdit ==
    ~strayed /\ save.pc \in {"temp", "sync"} => save.base = file.now.stamp

\* The Core never goes back to an older file: its two readers take reload_transaction
\* before they load and keep it until the profile is applied.
CoreGoesOn == core'.stamp >= core.stamp \/ PowerLoss

\* Every edit that the control centre, the catalog or a Warframe widget offers for
\* valid settings is valid: no sequence of clicks reaches settings that the next
\* save refuses (only a channel is typed, and may be refused).
EditsStayValid ==
    kind # "twitch" /\ save.pc = "idle" =>
      \A v \in Candidates(memory.value) : Validate(v) = Valid(v)
==============================================================================
