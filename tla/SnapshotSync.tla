----------------------------- MODULE SnapshotSync -----------------------------
(***************************************************************************)
(* How the overlay follows Core: Core's signal publisher, the overlay's    *)
(* D-Bus client thread, and the part of the UI thread that turns snapshots *)
(* into input passthrough.                                                 *)
(*                                                                         *)
(* The client is one task.  It is idle (backing off), in a D-Bus call, in  *)
(* its select! loop, or ended.  A call is executed by whichever Core owns  *)
(* the name when the message arrives, and its reply is handled later, or   *)
(* never.  Core is CoreRuntime reduced to its versioned snapshot and its   *)
(* stopwatch.                                                              *)
(***************************************************************************)
EXTENDS Naturals, Sequences

CONSTANTS
    None,        \* Rust's Option::None
    Commands,    \* what the user may ask the client for
    LegacyCores, \* may Core be one that does not know SnapshotVersioned?
    MaxChanges,  \* bound: changes the overlay did not ask for, and widget commands
    MaxRestarts, \* bound: restarts of Core
    MaxFailures, \* bound: failed calls and lost connections
    MaxSignals   \* bound: signals that wait in the client's stream

ASSUME SyncAssumption ==
    /\ Commands \subseteq {"SetPassive", "Reload", "Reset", "Toggle"}
    /\ LegacyCores \in (SUBSET BOOLEAN) \ {{}}
    /\ {MaxChanges, MaxRestarts, MaxFailures, MaxSignals} \subseteq Nat

VARIABLES
    core,        \* the running Core's generation, revision and view
    stopwatch,   \* Core's manual stopwatch
    unseen,      \* the publisher's watch receiver has a change to take
    signals,     \* SnapshotChanged signals the client has not handled
    owner_changed, \* the client's owner stream has an event
    pc, call,    \* where the client is, and the call it awaits
    gate,        \* RevisionGate.applied
    intent,      \* PassiveIntent
    slot, permit,\* the command channel: PendingCommands and the Notify permit
    update,      \* the snapshot channel's slot
    authority,   \* the flag the client shares with the UI
    ui,          \* OverlayState, core_authority and the passthrough in force
    frame,       \* the UI thread is inside logic(), before it reads authority
    repaint,     \* a repaint was requested
    ideal,       \* history: the stopwatch if every command acted at once
    legacy,      \* Core does not know SnapshotVersioned
    changes, restarts, failures

commands == <<slot, permit>>
client == <<pc, call, gate, intent, owner_changed>>
window == <<ui, frame>>
bounds == <<legacy, changes, restarts, failures>>
vars == <<core, stopwatch, unseen, signals, client, commands, update, authority,
          window, repaint, ideal, bounds>>

\* Core's revision saturates at u64::MAX, which no bounded behaviour reaches: a
\* change, or a command, is at most one revision, and so is the request for
\* Passive that an Interactive view allows.
MaxRevision == 2 * MaxChanges + 1

\* No game, a game under a passive overlay, a game under an interactive one.
Views == {"none", "passive", "interactive"}
VersionedCoreSnapshot == [gen: 0..MaxRestarts, rev: 0..MaxRevision, view: Views]
SnapshotUpdate == [snapshot: VersionedCoreSnapshot, passive_confirmed: BOOLEAN]
\* `carried`: the stopwatch holds time from before the user's last reset.
ManualStopwatch == [running: BOOLEAN, carried: BOOLEAN]
PendingWidgetActions == [reload: BOOLEAN, reset: BOOLEAN, toggle: BOOLEAN]
PassiveIntent == [pending: BOOLEAN, actions: PendingWidgetActions]
Calls == {"baseline", "reconcile", "passive", "snapshot", "reload", "reset", "toggle"}

ASSUME NoneAssumption == None \notin VersionedCoreSnapshot \cup SnapshotUpdate

Passive(snapshot) == snapshot.view # "interactive"
Nothing == [gen |-> 0, rev |-> 0, view |-> "none"]
StoppedStopwatch == [running |-> FALSE, carried |-> FALSE]

-----------------------------------------------------------------------------
\* Pending commands

NoActions == [reload |-> FALSE, reset |-> FALSE, toggle |-> FALSE]
EmptySlot == [set_passive |-> FALSE, actions |-> NoActions]

\* Mutant: a reset leaves the toggle before it.
Push_keeping_toggle(actions, command) ==
    CASE command = "Reload" -> [actions EXCEPT !.reload = TRUE]
      [] command = "Toggle" -> [actions EXCEPT !.toggle = ~@]
      [] command = "Reset"  -> [actions EXCEPT !.reset = TRUE]

Push(actions, command) ==
    CASE command = "Reload" -> [actions EXCEPT !.reload = TRUE]
      [] command = "Toggle" -> [actions EXCEPT !.toggle = ~@]
      [] command = "Reset"  -> [actions EXCEPT !.reset = TRUE, !.toggle = FALSE]

merge_newer(actions, newer) ==
    [reload |-> actions.reload \/ newer.reload,
     reset  |-> actions.reset \/ newer.reset,
     toggle |-> IF newer.reset THEN newer.toggle ELSE actions.toggle # newer.toggle]

\* Clear the action that is about to be dispatched.
Taken(actions, action) ==
    CASE action = "reload" -> [actions EXCEPT !.reload = FALSE]
      [] action = "reset"  -> [actions EXCEPT !.reset = FALSE]
      [] action = "toggle" -> [actions EXCEPT !.toggle = FALSE]

\* take_next: reloads go first, then resets, then toggles.
take_next(actions) ==
    CASE actions.reload -> "reload"
      [] ~actions.reload /\ actions.reset -> "reset"
      [] ~actions.reload /\ ~actions.reset /\ actions.toggle -> "toggle"
      [] OTHER -> "none"

\* What Core does to the stopwatch for a command, or for all that are pending.
Apply(action, sw) ==
    CASE action = "toggle" -> [sw EXCEPT !.running = ~@]
      [] action = "reset"  -> StoppedStopwatch
      [] OTHER -> sw
ApplyAll(actions, sw) ==
    LET zeroed == IF actions.reset THEN StoppedStopwatch ELSE sw
    IN  IF actions.toggle THEN Apply("toggle", zeroed) ELSE zeroed

\* The stopwatch once everything asked for and not yet executed has acted.
InFlight(sw) ==
    IF pc = "call" /\ call.reply = None THEN Apply(call.kind, sw) ELSE sw
Outstanding(sw) == ApplyAll(slot.actions, ApplyAll(intent.actions, sw))

-----------------------------------------------------------------------------
\* Core

\* A method of Core that the overlay did not call, and that changes the snapshot.
core_changes(view) ==
    /\ changes < MaxChanges
    /\ core' = [core EXCEPT !.rev = @ + 1, !.view = view]
    /\ unseen' = TRUE
    /\ IF view = "none"
       THEN stopwatch' = StoppedStopwatch
            /\ ideal' = Outstanding(InFlight(StoppedStopwatch))
       ELSE UNCHANGED <<stopwatch, ideal>>
    /\ changes' = changes + 1
    /\ UNCHANGED <<signals, client, commands, update, authority, window, repaint,
                   restarts, failures, legacy>>

\* Core ends and a new one owns the name.  Only the versioned cycle listens to
\* the owner stream beyond the baseline.
core_restarts ==
    /\ restarts < MaxRestarts
    /\ core' = [gen |-> core.gen + 1, rev |-> 0, view |-> "none"]
    /\ unseen' = FALSE
    /\ stopwatch' = StoppedStopwatch
    /\ ideal' = Outstanding(InFlight(StoppedStopwatch))
    /\ owner_changed' = \/ pc \in {"call", "loop"} /\ ~legacy
                        \/ pc = "call" /\ call.kind = "baseline"
    /\ restarts' = restarts + 1
    /\ UNCHANGED <<signals, pc, call, gate, intent, commands, update, authority,
                   window, repaint, changes, failures, legacy>>

\* The publisher takes the newest snapshot, skipping those in between.  An
\* emission that fails is logged and the snapshot is not sent again.
run_snapshot_signal_publisher ==
    /\ unseen
    /\ unseen' = FALSE
    /\ \/ /\ pc \in {"call", "loop"} /\ ~legacy
          /\ Len(signals) < MaxSignals
          /\ signals' = Append(signals, core)
          /\ UNCHANGED failures
       \/ /\ pc \notin {"call", "loop"} \/ legacy
          /\ UNCHANGED <<signals, failures>>
       \/ /\ pc \in {"call", "loop"} /\ ~legacy
          /\ failures < MaxFailures
          /\ failures' = failures + 1
          /\ UNCHANGED signals
    /\ UNCHANGED <<core, stopwatch, client, commands, update, authority, window,
                   repaint, ideal, changes, restarts, legacy>>

\* Core executes the call in flight.  Without a game it leaves the stopwatch
\* alone.
core_executes ==
    /\ pc = "call" /\ call.reply = None
    /\ LET view == IF call.kind = "passive" /\ core.view = "interactive"
                   THEN "passive" ELSE core.view
           sw   == IF core.view = "none" THEN stopwatch ELSE Apply(call.kind, stopwatch)
           next == IF view = core.view /\ sw = stopwatch THEN core
                   ELSE [core EXCEPT !.rev = @ + 1, !.view = view]
       IN  /\ core' = next
           /\ stopwatch' = sw
           /\ unseen' = (unseen \/ next # core \/ sw # stopwatch)
           /\ call' = [call EXCEPT !.reply = next]
           /\ ideal' = IF core.view = "none" THEN Outstanding(stopwatch) ELSE ideal
    /\ UNCHANGED <<signals, pc, gate, intent, owner_changed, commands, update,
                   authority, window, repaint, bounds>>

-----------------------------------------------------------------------------
\* The client

NoCall == [kind |-> "snapshot", reply |-> None]
Await(kind) == pc' = "call" /\ call' = [kind |-> kind, reply |-> None]

\* Mutant: overwriting an update drops its confirmation.
publish_replacing(snapshot) ==
    /\ update' = [snapshot |-> snapshot, passive_confirmed |-> Passive(snapshot)]
    /\ repaint' = TRUE

\* SnapshotSender::publish: overwriting an update keeps its confirmation.
publish(snapshot) ==
    /\ update' = [snapshot |-> snapshot,
                  passive_confirmed |-> \/ Passive(snapshot)
                                        \/ update # None /\ update.passive_confirmed]
    /\ repaint' = TRUE

\* Mutant: any other revision is applied.
revision_decision_unordered(event) ==
    IF event.rev = gate.rev THEN "Ignore" ELSE "Apply"

\* RevisionGate::apply.
revision_decision(event) ==
    CASE event.rev > gate.rev -> "Apply"
      [] event.rev < gate.rev -> "Ignore"
      [] event.rev = gate.rev ->
             IF event.view = gate.view THEN "Ignore" ELSE "Reconcile"

Absorbed(pending) ==
    [pending |-> pending \/ slot.set_passive,
     actions |-> merge_newer(intent.actions, slot.actions)]

\* Dispatch widget actions until none is left.  An action is forgotten before
\* its call, so that it is never dispatched twice.
Proceed(i) ==
    LET action == take_next(i.actions)
    IN  IF action # "none"
        THEN Await(action) /\ intent' = [i EXCEPT !.actions = Taken(@, action)]
        ELSE /\ intent' = i
             /\ IF legacy THEN Await("snapshot") ELSE pc' = "loop" /\ call' = NoCall

Dispatch(i) ==
    IF i.pending THEN Await("passive") /\ intent' = i ELSE Proceed(i)

connect ==
    /\ pc = "idle"
    /\ Await("baseline")
    /\ signals' = <<>>
    /\ owner_changed' = FALSE
    /\ gate' = None
    /\ UNCHANGED <<core, stopwatch, unseen, intent, commands, update, authority,
                   window, repaint, ideal, bounds>>

\* The owner stream is polled before any reply.
Answered(kinds) ==
    /\ pc = "call" /\ call.reply # None /\ call.kind \in kinds
    /\ ~owner_changed

connection_cycle_baseline ==
    /\ Answered({"baseline"})
    /\ IF legacy
       THEN Dispatch(Absorbed(intent.pending)) /\ UNCHANGED <<gate, update, authority, repaint>>
       ELSE /\ gate' = call.reply
            /\ publish(call.reply)
            /\ authority' = TRUE
            /\ Dispatch(Absorbed(intent.pending /\ ~Passive(call.reply)))
    /\ slot' = EmptySlot
    /\ UNCHANGED <<core, stopwatch, unseen, signals, owner_changed, permit, window,
                   ideal, bounds>>

\* A versioned client ignores the unversioned snapshot in the response; a
\* legacy client shows it.
dispatch_commands ==
    /\ Answered({"passive", "reload", "reset", "toggle"})
    /\ IF legacy
       THEN /\ publish(call.reply)
            /\ Proceed([intent EXCEPT !.pending =
                   @ /\ ~(call.kind = "passive" /\ Passive(call.reply))])
       ELSE Proceed(intent) /\ UNCHANGED <<update, repaint>>
    /\ UNCHANGED <<core, stopwatch, unseen, signals, owner_changed, gate, commands,
                   authority, window, ideal, bounds>>

legacy_snapshot ==
    /\ Answered({"snapshot"})
    /\ publish(call.reply)
    /\ authority' = TRUE
    /\ intent' = [intent EXCEPT !.pending = @ /\ ~Passive(call.reply)]
    /\ pc' = "loop" /\ call' = NoCall
    /\ UNCHANGED <<core, stopwatch, unseen, signals, owner_changed, gate, commands,
                   window, ideal, bounds>>

\* The legacy cycle wakes on a command or on its poll interval.
legacy_poll ==
    /\ pc = "loop" /\ legacy
    /\ permit' \in {FALSE, permit}
    /\ Dispatch(Absorbed(intent.pending))
    /\ slot' = EmptySlot
    /\ UNCHANGED <<core, stopwatch, unseen, signals, owner_changed, gate, update,
                   authority, window, repaint, ideal, bounds>>

\* apply_versioned, for a snapshot that arrives within a connection.
apply_versioned(event) ==
    IF revision_decision(event) = "Apply"
    THEN /\ gate' = event
         /\ publish(event)
         /\ intent' = [intent EXCEPT !.pending = @ /\ ~Passive(event)]
    ELSE UNCHANGED <<gate, update, repaint, intent>>

\* A signal that asks for reconciliation makes the timer due, which it may be
\* at any time.
handle_signal ==
    /\ pc = "loop" /\ signals # <<>> /\ ~owner_changed
    /\ apply_versioned(Head(signals))
    /\ signals' = Tail(signals)
    /\ UNCHANGED <<core, stopwatch, unseen, owner_changed, pc, call, commands,
                   authority, window, ideal, bounds>>

\* select! is biased: signals first, then commands, then the timer.
commands_notified ==
    /\ pc = "loop" /\ ~legacy /\ ~owner_changed /\ signals = <<>>
    /\ permit
    /\ permit' = FALSE
    /\ Dispatch(Absorbed(intent.pending))
    /\ slot' = EmptySlot
    /\ UNCHANGED <<core, stopwatch, unseen, signals, owner_changed, gate, update,
                   authority, window, repaint, ideal, bounds>>

\* Mutant: Core is asked again only after a conflict.
reconciliation_on_conflict ==
    /\ pc = "loop" /\ ~legacy /\ ~owner_changed /\ ~permit
    /\ signals # <<>> /\ revision_decision(Head(signals)) = "Reconcile"
    /\ Await("reconcile")
    /\ UNCHANGED <<core, stopwatch, unseen, signals, owner_changed, gate, intent,
                   commands, update, authority, window, repaint, ideal, bounds>>

reconciliation ==
    /\ pc = "loop" /\ ~legacy /\ ~owner_changed /\ signals = <<>> /\ ~permit
    /\ Await("reconcile")
    /\ UNCHANGED <<core, stopwatch, unseen, signals, owner_changed, gate, intent,
                   commands, update, authority, window, repaint, ideal, bounds>>

set_authority(value) ==
    /\ authority' = value
    /\ repaint' = (repaint \/ authority # value)

\* The connection is dropped, and a call that Core has not executed with it.
Disconnect ==
    /\ pc' = "idle" /\ call' = NoCall
    /\ gate' = None
    /\ signals' = <<>>
    /\ owner_changed' = FALSE
    /\ set_authority(FALSE)
    /\ ideal' = IF pc = "call" /\ call.reply = None THEN Outstanding(stopwatch) ELSE ideal
    /\ UNCHANGED <<core, stopwatch, unseen, intent, commands, update, window,
                   changes, restarts, legacy>>

reconcile_reply ==
    /\ Answered({"reconcile"})
    /\ IF revision_decision(call.reply) = "Reconcile"
       THEN Disconnect /\ UNCHANGED failures
       ELSE /\ apply_versioned(call.reply)
            /\ pc' = "loop" /\ call' = NoCall
            /\ UNCHANGED <<core, stopwatch, unseen, signals, owner_changed, commands,
                           authority, window, ideal, bounds>>

owner_stream_error ==
    /\ pc \in {"call", "loop"} /\ owner_changed
    /\ Disconnect
    /\ UNCHANGED failures

\* A call fails, or the bus ends the connection.
connection_fails ==
    /\ pc \in {"call", "loop"}
    /\ failures < MaxFailures
    /\ failures' = failures + 1
    /\ Disconnect

\* The overlay drops its client: CommandSender closes the channel.
drop_client ==
    /\ pc # "ended" /\ ~frame
    /\ pc' = "ended" /\ call' = NoCall
    /\ set_authority(FALSE)
    /\ UNCHANGED <<core, stopwatch, unseen, signals, gate, intent, owner_changed,
                   commands, update, window, ideal, bounds>>

-----------------------------------------------------------------------------
\* The UI thread

mouse_passthrough(snapshot, core_authority) == ~core_authority \/ Passive(snapshot)

\* The viewport command is sent only if the value computed from the state
\* changes.
Passthrough(old, old_authority, new, new_authority) ==
    LET before == mouse_passthrough(old, old_authority)
        after  == mouse_passthrough(new, new_authority)
    IN  IF before # after THEN after ELSE ui.passthrough

\* The first half of logic(): take_latest and apply_snapshot.  While a request
\* for Passive is pending, a snapshot that does not confirm it is discarded.
apply_snapshot ==
    /\ ~frame /\ pc # "ended"
    /\ frame' = TRUE
    /\ repaint' = FALSE
    /\ update' = None
    /\ LET pending == ui.passive_pending /\ ~update.passive_confirmed
       IN  IF update = None \/ pending
           THEN UNCHANGED ui
           ELSE ui' = [ui EXCEPT
                        !.passive_pending = FALSE,
                        !.snapshot = update.snapshot,
                        !.passthrough = Passthrough(ui.snapshot, ui.authority,
                                                    update.snapshot, ui.authority)]
    /\ UNCHANGED <<core, stopwatch, unseen, signals, client, commands, authority,
                   ideal, bounds>>

\* The second half reads the client's flag.
sync_core_authority ==
    /\ frame
    /\ frame' = FALSE
    /\ ui' = [ui EXCEPT !.authority = authority,
                        !.passthrough = Passthrough(ui.snapshot, ui.authority,
                                                    ui.snapshot, authority)]
    /\ UNCHANGED <<core, stopwatch, unseen, signals, client, commands, update,
                   authority, repaint, ideal, bounds>>

\* Escape in an Interactive overlay.
request_passive ==
    /\ ~frame /\ pc # "ended" /\ "SetPassive" \in Commands
    /\ ui.authority /\ ~Passive(ui.snapshot)
    /\ ui' = [ui EXCEPT !.passive_pending = TRUE, !.passthrough = TRUE]
    /\ slot' = [slot EXCEPT !.set_passive = TRUE]
    /\ permit' = TRUE
    /\ UNCHANGED <<core, stopwatch, unseen, signals, client, update, authority,
                   frame, repaint, ideal, bounds>>

\* A widget's command.  The controls are shown only under Core's authority.
widget_command(command) ==
    /\ ~frame /\ pc # "ended"
    /\ ui.authority /\ changes < MaxChanges
    /\ slot' = [slot EXCEPT !.actions = Push(@, command)]
    /\ permit' = TRUE
    /\ ideal' = CASE command = "Toggle" -> Apply("toggle", ideal)
                  [] command = "Reset"  -> Apply("reset", ideal)
                  [] command = "Reload" -> ideal
    /\ changes' = changes + 1
    /\ UNCHANGED <<core, stopwatch, unseen, signals, client, update, authority,
                   window, repaint, restarts, failures, legacy>>

-----------------------------------------------------------------------------

Init ==
    /\ core \in [gen: {0}, rev: {0}, view: Views]
    /\ stopwatch \in IF core.view = "none" THEN {StoppedStopwatch} ELSE ManualStopwatch
    /\ ideal = stopwatch
    /\ unseen = FALSE /\ signals = <<>> /\ owner_changed = FALSE
    /\ pc = "idle" /\ call = NoCall /\ gate = None
    /\ intent = [pending |-> FALSE, actions |-> NoActions]
    /\ slot = EmptySlot /\ permit = FALSE
    /\ update = None /\ authority = FALSE
    /\ ui = [snapshot |-> Nothing, passive_pending |-> FALSE, authority |-> FALSE,
             passthrough |-> TRUE]
    /\ frame = FALSE /\ repaint = FALSE /\ legacy \in LegacyCores
    /\ changes = 0 /\ restarts = 0 /\ failures = 0

ClientStep ==
    \/ connect \/ connection_cycle_baseline \/ dispatch_commands
    \/ legacy_snapshot \/ legacy_poll
    \/ handle_signal \/ commands_notified \/ reconciliation \/ reconcile_reply
    \/ owner_stream_error

Next ==
    \/ \E view \in Views : core_changes(view)
    \/ core_restarts
    \/ run_snapshot_signal_publisher
    \/ core_executes
    \/ ClientStep
    \/ connection_fails
    \/ drop_client
    \/ apply_snapshot
    \/ sync_core_authority
    \/ request_passive
    \/ \E command \in Commands \ {"SetPassive"} : widget_command(command)

Spec == Init /\ [][Next]_vars

\* The client's task, Core and the publisher run, and the UI thread paints a
\* frame that was asked for and ends a frame it began.  Nothing is assumed of
\* the user, of games or of failures.
FairSpec ==
    /\ Spec
    /\ WF_vars(ClientStep)
    /\ WF_vars(core_executes)
    /\ WF_vars(run_snapshot_signal_publisher)
    /\ WF_vars(repaint /\ apply_snapshot)
    /\ WF_vars(sync_core_authority)

-----------------------------------------------------------------------------
\* Properties

\* Signals wait in the stream, up to the bound.
SignalsFit == signals \in Seq(VersionedCoreSnapshot) /\ Len(signals) <= MaxSignals

CoreTypes ==
    /\ core \in VersionedCoreSnapshot /\ unseen \in BOOLEAN
    /\ stopwatch \in ManualStopwatch /\ ideal \in ManualStopwatch
ClientTypes ==
    /\ pc \in {"idle", "call", "loop", "ended"}
    /\ call \in [kind: Calls, reply: VersionedCoreSnapshot \cup {None}]
    /\ gate \in VersionedCoreSnapshot \cup {None}
    /\ intent \in PassiveIntent /\ owner_changed \in BOOLEAN
ChannelTypes ==
    /\ slot \in [set_passive: BOOLEAN, actions: PendingWidgetActions] /\ permit \in BOOLEAN
    /\ update \in SnapshotUpdate \cup {None} /\ authority \in BOOLEAN /\ repaint \in BOOLEAN
WindowTypes ==
    /\ ui \in [snapshot: VersionedCoreSnapshot, passive_pending: BOOLEAN,
               authority: BOOLEAN, passthrough: BOOLEAN]
    /\ frame \in BOOLEAN
BoundTypes ==
    /\ legacy \in LegacyCores /\ changes \in 0..MaxChanges
    /\ restarts \in 0..MaxRestarts /\ failures \in 0..MaxFailures

\* The type of the state.  A signal, a gate or a reply is a snapshot some Core
\* published.
TypeOK ==
    SignalsFit /\ CoreTypes /\ ClientTypes /\ ChannelTypes /\ WindowTypes /\ BoundTypes

\* What the UI shows is a snapshot Core published, and it never goes back to an
\* older one: not across late signals, reconciliation replies that overtake
\* signals, reconnections or a restart of Core (RevisionGate, SnapshotSender and
\* the owner stream together).
Version(snapshot) == snapshot.gen * (MaxRevision + 1) + snapshot.rev
Follower == INSTANCE SnapshotFollower
                WITH written <- Version(core), shown <- Version(ui.snapshot)
NeverBackwards == Follower!Spec

\* The overlay takes the pointer away from the game only while its UI believes
\* in a live Core that last reported Interactive.  The UI sends a viewport
\* command only when a computed value changes, so that the value in force and
\* the state can drift apart (sync_core_authority, apply_snapshot).
InputOnlyWithAuthority ==
    ~ui.passthrough => ui.authority /\ ~Passive(ui.snapshot)

\* A confirmation of Passive is not lost between the threads: when the client no
\* longer asks for it, the confirmation that the UI waits for is in the channel,
\* even if newer snapshots overwrote the one that carried it (SnapshotSender::publish).
ConfirmationIsKept ==
    ui.passive_pending /\ ~slot.set_passive /\ ~intent.pending
        => update # None /\ update.passive_confirmed

\* No stopwatch command is lost, doubled or reordered by coalescing: what is in
\* flight, in the client's intent and in the command slot, applied in that order
\* to Core's stopwatch, is what the user asked for (PendingWidgetActions::push,
\* merge_newer and take_next; an action whose call fails is not repeated).
CommandsAddUp ==
    pc # "ended" => Outstanding(InFlight(stopwatch)) = ideal

\* The client claims authority only over the Core whose snapshot its gate holds,
\* until its owner stream reports that Core is gone.  (Snapshots of a Core that does not
\* know SnapshotVersioned carry no version, so the gate says nothing of them.)
AuthorityIsLive ==
    authority /\ ~legacy => owner_changed \/ (gate # None /\ gate.gen = core.gen)

\* When games, Core and the user come to rest, the UI shows Core's snapshot with
\* Core's authority, or it waits for a confirmation of Passive: a lost signal is
\* made up for by reconciliation and a lost connection by the retry.
Converges ==
    <>[](pc = "ended" \/ (ui.authority /\ (ui.snapshot = core \/ ui.passive_pending)))

\* Escape reaches Core, across failed calls and restarts: the client keeps the
\* intent until a snapshot confirms it (PassiveIntent).
EscapeReachesCore ==
    slot.set_passive ~> (pc = "ended" \/ Passive(core))

\* app.rs says of a request for Passive that the next pointer event cannot land
\* on the overlay while Core still reports Interactive.
PendingIsClickThrough ==
    ui.passive_pending => ui.passthrough

\* The manual test plan says that in Interactive mode the overlay consumes input.
\* So once Core stays Interactive and the user asks for nothing, it does.
InteractiveTakesInput ==
    (<>[](core.view = "interactive" /\ pc # "ended" /\ ~intent.pending
            /\ ~slot.set_passive))
        => <>[](~ui.passthrough)

\* The overlay and its client agree about authority: input is taken only under it, it is
\* claimed only over the Core that gave it, and a confirmation of Passive is not lost.
SyncIsSafe ==
    TypeOK /\ InputOnlyWithAuthority /\ AuthorityIsLive /\ ConfirmationIsKept

\* What the overlay reaches in the end: Core's snapshot, and Core with an Escape.
Progress == Converges /\ EscapeReachesCore
=============================================================================
