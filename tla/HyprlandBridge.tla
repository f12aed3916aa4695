---------------------------- MODULE HyprlandBridge ----------------------------
(***************************************************************************)
(* The Hyprland bridge (overcrow-hyprland): one task that, from a select   *)
(* over three timers and the event socket, reports the focused window to   *)
(* Core, tags the game (no input) and the overlay (takes input) while Core *)
(* is interactive, and binds the shortcut while a game is active.  Every   *)
(* decision is made from answers read one request at a time, and carried   *)
(* out one request at a time, while the desktop, the user and Core move    *)
(* on.  A failed request ends the process; it cleans up, systemd cleans up *)
(* again (ExecStopPost) and starts it anew.                                *)
(*                                                                         *)
(* One of the (at most three) shortcuts is followed: the reconcilers share *)
(* nothing.  HyprlandGeometry has the third timer.                         *)
(***************************************************************************)
EXTENDS Naturals, Sequences, FiniteSets

CONSTANTS Games,        \* windows of the authorised game: one pid, one class
          Overlays,     \* windows of the overlay's class
          Others,       \* windows of other applications
          Unreportable, \* those among Others that WindowReport::from_window rejects
          Budgets,      \* [desktop, user, keys, faults]: how many of each
          None

VARIABLES desk,     \* [exists, shown, here, active]: the compositor's windows
          tags,     \* [window -> its reserved tags]
          keys,     \* [own, legacy, foreign]: bindings of the accelerator
          globals,  \* portal actions advertised for the shortcut
          core,     \* [game, interactive]: Core's authority
          b,        \* the bridge: where it is, and what it has read
          last,     \* Reconciler::last_reportable
          focus,    \* FocusSyncState
          sc,       \* ShortcutReconciler
          due,      \* reconciliation_pending
          events,   \* unread lines of the event socket
          calm,     \* how Interactive has gone so far, see Steady
          budget

vars == <<desk, tags, keys, globals, core, b, last, focus, sc, due, events, calm, budget>>

BLOCKED     == "overcrow-game-input-blocked"
INTERACTIVE == "overcrow-interactive"
Tags        == {BLOCKED, INTERACTIVE}
Windows     == Games \cup Overlays \cup Others
NoCore      == [game |-> FALSE, interactive |-> FALSE]

------------------------------------------------------------------------------
(* What the bridge decides from what it has read.                          *)

\* WindowReport::from_window.
Reportable(w, r) == w \in r.shown \ Unreportable

\* remembered_report.
Remembered(r) ==
    IF last # None /\ Reportable(last, r) /\ last \notin Overlays /\ last \in r.here
      THEN last ELSE None

\* Mutant: Interactive does not keep the game.
Reconciled_unpreserving(r) ==
    CASE r.active # None /\ Reportable(r.active, r) /\ r.active \notin Overlays -> r.active
      [] r.active = None \/ Reportable(r.active, r) -> Remembered(r)
      [] OTHER -> None

\* reconcile.
Reconciled(r) ==
    CASE r.core.interactive -> Remembered(r)
      [] ~r.core.interactive /\ r.active # None /\ Reportable(r.active, r)
            /\ r.active \notin Overlays -> r.active
      [] ~r.core.interactive /\ (r.active = None \/ (Reportable(r.active, r) /\ r.active \in Overlays))
            -> Remembered(r)
      [] OTHER -> None

\* validated_game_address, unique_overlay_address.
Single(S) == IF \E w \in S : S = {w} THEN CHOOSE w \in S : TRUE ELSE None
GameOf(r) == IF r.core.game THEN Single(Games \cap r.shown) ELSE None
OverlayOf(r) == Single(Overlays \cap r.shown)

\* interaction_targets: the windows that should carry the tags.
Targets(r) ==
    IF r.core.interactive /\ GameOf(r) # None /\ OverlayOf(r) # None
      THEN [game |-> GameOf(r), overlay |-> OverlayOf(r)]
      ELSE [game |-> None, overlay |-> None]
TargetOf(r, tag) == IF tag = BLOCKED THEN Targets(r).game ELSE Targets(r).overlay

\* Tags taken away, in the order of the client list: nothing depends on which it is.
Lists(S) == {l \in [1..Cardinality(S) -> S] : \A p \in S : \E i \in DOMAIN l : l[i] = p}
Untags(S) ==
    LET list == CHOOSE l \in Lists(S) : TRUE
    IN  [i \in DOMAIN list |-> [do |-> "-", tag |-> list[i][1], window |-> list[i][2]]]

\* The commands of reconcile_window_tag: the tags taken away, or the one given.
TagCommands(r, tag, untag) ==
    LET target == TargetOf(r, tag)
        extra  == {w \in r.exists : tag \in r.tags[w] /\ w # target}
    IN  IF untag THEN Untags({tag} \X extra)
        ELSE IF target # None /\ tag \notin r.tags[target]
               THEN <<[do |-> "+", tag |-> tag, window |-> target]>> ELSE <<>>

ReconcileWindowTag(r, tag) == TagCommands(r, tag, TRUE) \o TagCommands(r, tag, FALSE)

\* observe_mode.
ObserveMode(f, interactive) ==
    IF f.seen /\ f.interactive = interactive THEN f
    ELSE [seen |-> TRUE, interactive |-> interactive, toOverlay |-> interactive,
          toGame |-> ~interactive /\ f.seen /\ f.interactive]

\* focus_plan: the commands, and what is left of the focus state.
FocusPlan(r) ==
    LET targets  == Targets(r)
        on       == targets.game # None
        f        == ObserveMode(focus, on)
        retag    == ReconcileWindowTag(r, BLOCKED) \o ReconcileWindowTag(r, INTERACTIVE)
        onGame   == r.active = targets.game
        give     == /\ on /\ retag = <<>> /\ r.active \in {None, targets.game}
                    /\ f.toOverlay \/ onGame
        return   == /\ ~on /\ ~r.core.interactive /\ f.toGame
                    /\ \A w \in r.exists : r.tags[w] = {}
        goto(w)  == <<[do |-> "focus", tag |-> BLOCKED, window |-> w]>>
    IN  CASE give -> [commands |-> goto(targets.overlay), focus |-> [f EXCEPT !.toOverlay = FALSE]]
          [] return -> [commands |-> IF GameOf(r) = None THEN <<>> ELSE goto(GameOf(r)),
                        focus |-> [f EXCEPT !.toGame = FALSE]]
          [] OTHER -> [commands |-> retag, focus |-> f]

\* Mutant: a window that is hidden is not looked at.
CleanupCommands_of_shown(r) == Untags({p \in Tags \X r.shown : p[1] \in r.tags[p[2]]})

\* cleanup_commands.
CleanupCommands(r) == Untags({p \in Tags \X r.exists : p[1] \in r.tags[p[2]]})

\* advertised_portal_action.
Advertised(r) ==
    CASE "own" \in r.globals -> "own" [] r.globals = {"legacy"} -> "legacy" [] OTHER -> "none"

ObserveDesired(s, desired) ==
    IF s.known /\ s.desired = desired THEN s
    ELSE [known |-> TRUE, desired |-> desired, state |-> "Unknown"]

\* needs_probe, for the state observe_desired leaves.
NeedsProbe(s, desired) ==
    s.state \notin (IF desired THEN {"Owned", "Conflict"} ELSE {"Absent", "Conflict"})

\* plan: the decision and the reconciler it leaves.
Plan(s, desired, r) ==
    LET action  == Advertised(r)
        wanted  == desired /\ action # "none"
        o       == ObserveDesired(s, wanted)
        owned   == r.keys.own + r.keys.legacy
        ours    == IF action = "own" THEN r.keys.own ELSE r.keys.legacy
        to(decision, state) == [decision |-> decision, sc |-> [o EXCEPT !.state = state]]
    IN  CASE wanted /\ o.state = "Conflict"                       -> to("Conflict", "Conflict")
          [] ~wanted /\ owned = 0                                 -> to("Idle", "Absent")
          [] ~wanted /\ owned = 1 /\ r.keys.foreign = 0           -> to("Unbind", "Owned")
          [] ~wanted /\ owned > 0 /\ owned + r.keys.foreign > 1   -> to("Ambiguous", "Conflict")
          [] wanted /\ o.state # "Conflict" /\ owned = 1 /\ r.keys.foreign = 0 ->
               to(IF ours = 1 THEN "Idle" ELSE "Unbind", "Owned")
          [] wanted /\ o.state # "Conflict" /\ owned + r.keys.foreign = 0 ->
               to("Bind", o.state)
          [] OTHER -> to("Conflict", "Conflict")

------------------------------------------------------------------------------
(* The bridge's steps.                                                     *)

NoRead == [active |-> None, exists |-> {}, shown |-> {}, here |-> {},
           tags |-> [w \in Windows |-> {}], core |-> NoCore, globals |-> {},
           keys |-> [own |-> 0, legacy |-> 0, foreign |-> 0]]

NewRun == [pc |-> "idle", todo |-> {}, read |-> NoRead, plan |-> <<>>, latest |-> FALSE,
           keepalive |-> FALSE, failed |-> FALSE, stop |-> FALSE, post |-> FALSE]
NewFocus == [seen |-> FALSE, interactive |-> FALSE, toOverlay |-> FALSE, toGame |-> FALSE]
NewShortcut == [known |-> FALSE, desired |-> FALSE, state |-> "Unknown"]

Init ==
    /\ LET game == CHOOSE g \in Games : TRUE
       IN  desk = [exists |-> Windows, shown |-> {game} \cup Overlays \cup Others,
                   here |-> Windows, active |-> game]
    /\ tags = [w \in Windows |-> {}]
    /\ keys = NoRead.keys
    /\ globals = {"own"}
    /\ core = NoCore
    /\ b = NewRun
    /\ last = None /\ focus = NewFocus /\ sc = NewShortcut
    /\ due = FALSE /\ events = {}
    /\ calm = "no"
    /\ budget \in Budgets

Spend(field) == budget[field] > 0 /\ budget' = [budget EXCEPT ![field] = @ - 1]

desktop == <<desk, tags, keys, globals>>
memory  == <<last, focus, sc, due, events>>

\* Core, as ReportWindow, ClearWindow and a lost lease leave it.
CoreReport(w) == IF w \in Games THEN [core EXCEPT !.game = TRUE] ELSE NoCore

\* A pass begins: the select takes a timer.
Begin(pc, todo, keepalive) ==
    /\ b.pc = "idle"
    /\ b' = [b EXCEPT !.pc = pc, !.todo = todo, !.read = NoRead, !.keepalive = keepalive]
    /\ calm' = IF calm = "begun" THEN "pass" ELSE calm

KeepaliveTick ==
    /\ Begin("reconcile", {"active", "clients", "core"}, TRUE)
    /\ UNCHANGED <<desktop, memory, core, budget>>

DebounceTick ==
    /\ due /\ due' = FALSE
    /\ Begin("reconcile", {"active", "clients", "core"}, FALSE)
    /\ UNCHANGED <<desktop, last, focus, sc, events, core, budget>>

FocusTick ==
    /\ Begin("focus", {"active", "clients"}, FALSE)
    /\ UNCHANGED <<desktop, memory, core, budget>>

\* read_event_line and is_reconciliation_event.
ReadEvent ==
    /\ b.pc = "idle" /\ events # {}
    /\ sc' = IF "config" \in events THEN [sc EXCEPT !.state = "Unknown"] ELSE sc
    /\ due' = TRUE
    /\ events' = {}
    /\ UNCHANGED <<desktop, core, b, last, focus, calm, budget>>

\* One answer of a try_join.
Answer(q) ==
    CASE q = "active"   -> [b.read EXCEPT !.active = desk.active]
      [] q = "clients"  -> [b.read EXCEPT !.exists = desk.exists, !.shown = desk.shown,
                                          !.here = desk.here, !.tags = tags]
      [] q = "core"     -> [b.read EXCEPT !.core = core]
      [] q = "globals"  -> [b.read EXCEPT !.globals = globals]
      [] q = "bindings" -> [b.read EXCEPT !.keys = keys]

Query(q) ==
    /\ b.pc \in {"reconcile", "focus", "snapshot", "shortcut"}
    /\ q \in b.todo
    /\ b' = [b EXCEPT !.read = Answer(q), !.todo = @ \ {q}]
    /\ UNCHANGED <<desktop, memory, core, calm, budget>>

\* reconcile_once, when it has read everything.  A pass that read the desktop before the
\* user entered Interactive may turn to another game: then nothing is promised of it.
Reconcile ==
    /\ b.pc = "reconcile" /\ b.todo = {}
    /\ last' = Reconciled(b.read)
    /\ b' = [b EXCEPT !.pc = "report"]
    /\ calm' = IF calm = "begun" /\ last' # last THEN "no" ELSE calm
    /\ UNCHANGED <<desktop, focus, sc, due, events, core, budget>>

Report ==
    /\ b.pc = "report"
    /\ core' = CoreReport(last)
    /\ b' = [b EXCEPT !.pc = "probe", !.latest = core'.game]
    /\ sc' = IF b.keepalive THEN [sc EXCEPT !.state = "Unknown"] ELSE sc
    /\ calm' = IF core'.interactive THEN calm ELSE "no"
    /\ UNCHANGED <<desktop, last, focus, due, events, budget>>

\* sync_focus_once: the snapshot comes after the windows; without it Core counts as
\* passive, and the error is returned once the tags are gone.
AskSnapshot ==
    /\ b.pc = "focus" /\ b.todo = {}
    /\ \/ /\ b' = [b EXCEPT !.pc = "snapshot", !.todo = {"core"}]
          /\ UNCHANGED <<calm, budget>>
       \/ /\ Spend("faults")
          /\ b' = [b EXCEPT !.pc = "snapshot", !.failed = TRUE]
          /\ calm' = "no"
    /\ UNCHANGED <<desktop, memory, core>>

PlanFocus ==
    /\ b.pc = "snapshot" /\ b.todo = {}
    /\ LET plan == FocusPlan(b.read)
       IN  /\ focus' = plan.focus
           /\ b' = [b EXCEPT !.pc = "dispatch", !.plan = plan.commands]
    /\ UNCHANGED <<desktop, last, sc, due, events, core, calm, budget>>

\* What the compositor does with a command; a window that is gone is refused.
Obey(c) ==
    /\ c.window \in desk.exists
    /\ tags' = CASE c.do = "+" -> [tags EXCEPT ![c.window] = @ \cup {c.tag}]
                 [] c.do = "-" -> [tags EXCEPT ![c.window] = @ \ {c.tag}]
                 [] OTHER -> tags
    /\ desk' = IF c.do = "focus" /\ c.window \in desk.shown
                 THEN [desk EXCEPT !.active = c.window] ELSE desk

Dispatch ==
    /\ b.pc = "dispatch" /\ b.plan # <<>>
    /\ Obey(Head(b.plan))
    /\ b' = [b EXCEPT !.plan = Tail(@)]
    /\ UNCHANGED <<keys, globals, memory, core, calm, budget>>

\* clear_core: Interactive without both windows gives the authority up.
Dispatched ==
    /\ b.pc = "dispatch" /\ b.plan = <<>> /\ ~b.failed
    /\ IF b.read.core.interactive /\ Targets(b.read).game = None
       THEN /\ core' = NoCore
            /\ calm' = "no"
            /\ b' = [b EXCEPT !.pc = "probe", !.latest = FALSE]
       ELSE /\ b' = [b EXCEPT !.pc = "probe", !.latest = b.read.core.game]
            /\ UNCHANGED <<core, calm>>
    /\ UNCHANGED <<desktop, memory, budget>>

\* sync_shortcuts_once.
Probe ==
    /\ b.pc = "probe"
    /\ LET o == ObserveDesired(sc, b.latest)
       IN  /\ sc' = o
           /\ b' = IF NeedsProbe(o, b.latest)
                     THEN [b EXCEPT !.pc = "shortcut", !.todo = {"globals", "bindings"}]
                     ELSE [NewRun EXCEPT !.latest = b.latest]
    /\ UNCHANGED <<desktop, last, focus, due, events, core, calm, budget>>

PlanShortcut ==
    /\ b.pc = "shortcut" /\ b.todo = {}
    /\ LET plan == Plan(sc, b.latest, b.read)
       IN  /\ sc' = plan.sc
           /\ b' = IF plan.decision \in {"Bind", "Unbind"}
                     THEN [b EXCEPT !.pc = plan.decision]
                     ELSE [NewRun EXCEPT !.latest = b.latest]
    /\ UNCHANGED <<desktop, last, focus, due, events, core, calm, budget>>

Bind ==
    /\ b.pc = "Bind"
    /\ keys' = [keys EXCEPT ![Advertised(b.read)] = @ + 1]
    /\ sc' = [sc EXCEPT !.state = "Owned"]
    /\ b' = [NewRun EXCEPT !.latest = b.latest]
    /\ UNCHANGED <<desk, tags, globals, last, focus, due, events, core, calm, budget>>

\* An unbind request names the accelerator, and takes all its bindings.
Unbind ==
    /\ b.pc = "Unbind"
    /\ keys' = NoRead.keys
    /\ sc' = [sc EXCEPT !.state = "Absent"]
    /\ b' = [NewRun EXCEPT !.latest = b.latest]
    /\ UNCHANGED <<desk, tags, globals, last, focus, due, events, core, calm, budget>>

------------------------------------------------------------------------------
(* Failure, cleanup and restart.                                           *)

Running == b.pc \notin {"cleanup", "down", "stopped"}

\* cleanup_runtime_state: one for the tags and one for the bindings, side by side; by
\* the failing process itself, and by ExecStopPost.
Cleanup(stop, post) ==
    [NewRun EXCEPT !.pc = "cleanup", !.todo = {"clients", "bindings"}, !.stop = stop,
                   !.post = post]

\* The answer to any request may be an error; so is a command for a window that has
\* gone, and the end of the event socket.  A failed reconciliation, and a lost socket,
\* clear Core as well.
Fail ==
    /\ \/ Running /\ Spend("faults")
       \/ b.pc = "dispatch" /\ (b.plan = <<>> => b.failed)
            /\ (b.plan # <<>> => Head(b.plan).window \notin desk.exists) /\ UNCHANGED budget
    /\ core' = IF b.pc \in {"idle", "reconcile", "report"} THEN NoCore ELSE core
    /\ b' = Cleanup(FALSE, FALSE)
    /\ calm' = "no"
    /\ UNCHANGED <<desktop, memory>>

\* systemctl stop, or a kill.
Kill(stop) ==
    /\ Running
    /\ Spend("user")
    /\ b' = Cleanup(stop, TRUE)
    /\ calm' = "no"
    /\ UNCHANGED <<desktop, memory, core>>

CleanupTags ==
    /\ b.pc = "cleanup" /\ "clients" \in b.todo
    /\ b' = [b EXCEPT !.todo = @ \ {"clients"},
                      !.plan = CleanupCommands([exists |-> desk.exists, shown |-> desk.shown, tags |-> tags])]
    /\ UNCHANGED <<desktop, memory, core, calm, budget>>

CleanupDispatch ==
    /\ b.pc = "cleanup" /\ b.plan # <<>>
    /\ IF Head(b.plan).window \in desk.exists
         THEN Obey(Head(b.plan)) /\ b' = [b EXCEPT !.plan = Tail(@)]
         ELSE b' = [b EXCEPT !.plan = <<>>, !.failed = TRUE] /\ UNCHANGED <<desk, tags>>
    /\ UNCHANGED <<keys, globals, memory, core, calm, budget>>

\* cleanup_shortcut_state: only a binding that is ours and alone on its accelerator.
CleanupKeys ==
    /\ b.pc = "cleanup" /\ "bindings" \in b.todo
    /\ b' = [b EXCEPT !.read = [b.read EXCEPT !.keys = keys], !.todo = (@ \ {"bindings"}) \cup
                 IF keys.own + keys.legacy = 1 /\ keys.foreign = 0 THEN {"unbind"} ELSE {}]
    /\ UNCHANGED <<desktop, memory, core, calm, budget>>

CleanupUnbind ==
    /\ b.pc = "cleanup" /\ "unbind" \in b.todo
    /\ keys' = NoRead.keys
    /\ b' = [b EXCEPT !.todo = @ \ {"unbind"}]
    /\ UNCHANGED <<desk, tags, globals, memory, core, calm, budget>>

CleanupFails ==
    /\ b.pc = "cleanup"
    /\ Spend("faults")
    /\ \/ b' = [b EXCEPT !.todo = @ \ {"clients"}, !.plan = <<>>, !.failed = TRUE]
       \/ b' = [b EXCEPT !.todo = @ \ {"bindings", "unbind"}, !.failed = TRUE]
    /\ UNCHANGED <<desktop, memory, core, calm>>

\* The process has ended; systemd starts it again unless it was stopped.
CleanedUp ==
    /\ b.pc = "cleanup" /\ b.todo = {} /\ b.plan = <<>>
    /\ b' = IF b.post THEN [b EXCEPT !.pc = IF b.stop THEN "stopped" ELSE "down"]
              ELSE Cleanup(FALSE, TRUE)
    /\ UNCHANGED <<desktop, memory, core, calm, budget>>

Restart ==
    /\ b.pc = "down" \/ (b.pc = "stopped" /\ budget.user > 0)
    /\ b' = NewRun
    /\ last' = None /\ focus' = NewFocus /\ sc' = NewShortcut /\ due' = FALSE /\ events' = {}
    /\ calm' = "no"
    /\ UNCHANGED <<desktop, core, budget>>

------------------------------------------------------------------------------
(* The user, the desktop and Core.                                         *)

\* Interactive with the reported game's window alone and in sight, and one overlay.
Steady(d) ==
    /\ last # None
    /\ Games \cap d.shown = {last} /\ last \in d.here
    /\ \E w \in Overlays : Overlays \cap d.shown = {w}

Desktop(d) ==
    /\ Spend("desktop")
    /\ desk' = d
    /\ tags' = [w \in Windows |-> IF w \in d.exists THEN tags[w] ELSE {}]
    /\ events' = IF b.pc \in {"down", "stopped"} THEN events ELSE events \cup {"window"}
    /\ calm' = IF Steady(d) THEN calm ELSE "no"
    /\ UNCHANGED <<keys, globals, core, b, last, focus, sc, due>>

MoveFocus == \E w \in desk.shown \cup {None} : w # desk.active /\ Desktop([desk EXCEPT !.active = w])
ShowHide == \E w \in desk.exists :
    LET hide == w \in desk.shown
    IN  Desktop([desk EXCEPT !.shown = IF hide THEN @ \ {w} ELSE @ \cup {w},
                             !.active = IF hide /\ @ = w THEN None ELSE @])
OpenClose == \E w \in Windows :
    LET close == w \in desk.exists
    IN  Desktop([desk EXCEPT !.exists = IF close THEN @ \ {w} ELSE @ \cup {w},
                             !.shown = IF close THEN @ \ {w} ELSE @ \cup {w},
                             !.active = IF close /\ @ = w THEN None ELSE @])
SwitchWorkspace == \E w \in Windows :
    Desktop([desk EXCEPT !.here = IF w \in @ THEN @ \ {w} ELSE @ \cup {w}])

\* The shortcut, in Core.
Toggle ==
    /\ core.game
    /\ Spend("user")
    /\ core' = [core EXCEPT !.interactive = ~@]
    /\ calm' = IF core'.interactive /\ Steady(desk) THEN "begun" ELSE "no"
    /\ UNCHANGED <<desktop, memory, b>>

\* The lease of the last report runs out.
Expire ==
    /\ core.game
    /\ Spend("faults")
    /\ core' = NoCore
    /\ calm' = "no"
    /\ UNCHANGED <<desktop, memory, b>>

\* The user's own bindings, a reloaded configuration, and the portal's list.
ForeignKeys ==
    /\ Spend("keys")
    /\ \/ keys' = [keys EXCEPT !.foreign = 1 - @] /\ UNCHANGED <<globals, events>>
       \/ \E n \in 0..1 : /\ keys' = [own |-> 0, legacy |-> 0, foreign |-> n]
                          /\ events' = events \cup {"config"}
                          /\ UNCHANGED globals
       \/ globals' \in {{}, {"own"}, {"legacy"}} /\ UNCHANGED <<keys, events>>
    /\ UNCHANGED <<desk, tags, core, b, last, focus, sc, due, calm>>

Bridge ==
    \/ KeepaliveTick \/ DebounceTick \/ FocusTick \/ ReadEvent
    \/ \E q \in {"active", "clients", "core", "globals", "bindings"} : Query(q)
    \/ Reconcile \/ Report \/ AskSnapshot \/ PlanFocus \/ Dispatch \/ Dispatched
    \/ Probe \/ PlanShortcut \/ Bind \/ Unbind

Next ==
    \/ Bridge
    \/ Fail \/ \E stop \in BOOLEAN : Kill(stop)
    \/ CleanupTags \/ CleanupDispatch \/ CleanupKeys \/ CleanupUnbind \/ CleanupFails
    \/ CleanedUp \/ Restart
    \/ MoveFocus \/ ShowHide \/ OpenClose \/ SwitchWorkspace
    \/ Toggle \/ Expire \/ ForeignKeys

Spec == Init /\ [][Next]_vars

------------------------------------------------------------------------------
(* Properties.                                                             *)

\* No two windows ever carry the same reserved tag, and the overlay is never the
\* window whose input is blocked: across retagging that another window's coming and
\* going interrupts, failed commands, and restarts over tags left behind.
TaggedIsUnique ==
    /\ \A t \in Tags, v, w \in Windows : t \in tags[v] /\ t \in tags[w] => v = w
    /\ \A w \in Overlays : BLOCKED \notin tags[w]

\* The bridge never has two bindings on the accelerator, also when it is killed between
\* the request and the note that it was made, and never adds to its legacy binding.
OneBinding == keys.own + keys.legacy <= 1

\* A bridge that has ended, and whose last cleanup reported no failure, leaves no tag on
\* any window, and not the binding that cleanup found alone on the accelerator: also when
\* the process was killed in the middle of a pass.
StoppedLeavesNothing ==
    b.pc \in {"stopped", "down"} /\ ~b.failed =>
      /\ \A w \in Windows : tags[w] = {}
      /\ b.read.keys.own + b.read.keys.legacy = 1 /\ b.read.keys.foreign = 0
           => keys.own + keys.legacy = 0

\* A pass of the bridge that began after the user entered Interactive does not end it
\* while the reported game and the overlay stand, whatever else takes the focus.  (A
\* restarted bridge remembers no game, and does end it.)
KeepsInteractive ==
    core.interactive /\ calm = "pass" /\ (Report \/ Dispatched) => core'.interactive
==============================================================================
