---------------------------- MODULE ShortcutBroker ----------------------------
(***************************************************************************)
(* PortalShortcutBroker::run: the task that keeps the global shortcuts     *)
(* bound that the active game, the settings and the widget profile ask     *)
(* for.  The provider (desktop portal or X11) is external: a bind may      *)
(* succeed, fail or never answer, a close may succeed, fail or time out,   *)
(* and a session may be lost at any time.                                  *)
(*                                                                         *)
(* One action is the code between two awaits.  The three policy values     *)
(* are watch channels: a sender replaces the value and marks it unseen.    *)
(***************************************************************************)
EXTENDS Naturals, Sequences

CONSTANTS
    MaxChanges,    \* bound: values sent on the policy channels
    MaxLosses      \* bound: sessions lost at the provider

ASSUME BrokerAssumption == MaxChanges \in Nat /\ MaxLosses \in Nat

VARIABLES
    policy,        \* the current values of the three policy channels
    unseen,        \* the channels whose value changed() has not reported
    shutdown,      \* the shutdown channel
    pc,            \* where the task is
    desired,       \* local of run: the binding computed last
    attempted,     \* local of run: attempted_definitions, <<>> for None
    owned,         \* OwnedBinding
    lost,          \* the live session has a Closed or OwnerLost event to report
    availability,  \* ShortcutAvailability, as published
    spent,         \* history: the desired binding has had its one attempt
    open,          \* history: a session was made whose close has not returned
    changes, losses

policy_vars == <<policy, unseen, changes>>
vars == <<policy_vars, shutdown, pc, desired, attempted, owned, lost, availability,
          spent, open, losses>>

-----------------------------------------------------------------------------
(* What is desired *)

\* Two accelerators, the second with the chord of the stopwatch. Accelerators
\* shows that every accelerator of the settings has a trigger.
Trigger == [O |-> "o", P |-> "p", p |-> "p", R |-> "r"]
Definition(id, accelerator) == [id |-> id, accelerator |-> accelerator]
Ids == {"toggle-overlay", "toggle-manual-stopwatch", "reset-manual-stopwatch"}
Policies ==
    [game : BOOLEAN, enabled : BOOLEAN, accelerator : {"O", "p"}, stopwatch : BOOLEAN]
Channel == [game |-> "snapshots", enabled |-> "settings",
            accelerator |-> "settings", stopwatch |-> "profiles"]
Channels == {"snapshots", "settings", "profiles"}

wanted_shortcuts(p) ==
    IF ~p.game THEN <<>>
    ELSE (IF p.enabled THEN <<Definition("toggle-overlay", p.accelerator)>> ELSE <<>>)
         \o (IF p.stopwatch
             THEN <<Definition("toggle-manual-stopwatch", "P"),
                    Definition("reset-manual-stopwatch", "R")>>
             ELSE <<>>)
unique_triggers(definitions) ==
    \A i, j \in 1..Len(definitions) :
        Trigger[definitions[i].accelerator] = Trigger[definitions[j].accelerator] => i = j

Disabled   == [kind |-> "Disabled", definitions |-> <<>>]
Invalid    == [kind |-> "Invalid", definitions |-> <<>>]
Bind(ds)   == [kind |-> "Bind", definitions |-> ds]
desired_binding(p) ==
    LET ds == wanted_shortcuts(p)
    IN  IF ~unique_triggers(ds) THEN Invalid ELSE IF ds = <<>> THEN Disabled ELSE Bind(ds)

Idle        == [kind |-> "Idle", definitions |-> <<>>]
Binding(ds) == [kind |-> "Binding", definitions |-> ds]
Live(ds)    == [kind |-> "Live", definitions |-> ds]

-----------------------------------------------------------------------------
(* The senders *)

\* External: CoreRuntime sends on one channel. A snapshot may repeat the game.
send(channel, p) ==
    /\ changes < MaxChanges
    /\ \A field \in DOMAIN Channel : Channel[field] # channel => p[field] = policy[field]
    /\ channel # "snapshots" => p # policy
    /\ policy' = p /\ unseen' = unseen \cup {channel} /\ changes' = changes + 1
    /\ UNCHANGED <<shutdown, pc, desired, attempted, owned, lost, availability, spent, open, losses>>

\* main: shortcut_shutdown_tx.send_replace(true)
send_shutdown ==
    /\ ~shutdown /\ shutdown' = TRUE
    /\ UNCHANGED <<policy_vars, pc, desired, attempted, owned, lost, availability, spent, open, losses>>

\* External: the session ends at the provider, or the portal's owner changes.
session_lost ==
    /\ owned.kind = "Live" /\ ~lost /\ losses < MaxLosses
    /\ lost' = TRUE /\ losses' = losses + 1
    /\ UNCHANGED <<policy_vars, shutdown, pc, desired, attempted, owned, availability, spent, open>>

-----------------------------------------------------------------------------
(* reconcile *)

Matches ==
    \/ owned.kind = "Idle"
    \/ desired.kind = "Bind" /\ owned.definitions = desired.definitions

\* The end of reconcile, with the owned binding o that its release left.
Settle(o) ==
    LET binds == /\ desired.kind = "Bind" /\ o.kind = "Idle"
                 /\ attempted # desired.definitions
    IN  /\ attempted' = IF desired.kind = "Bind" /\ ~binds THEN attempted
                         ELSE desired.definitions
        /\ owned' = IF binds THEN Binding(desired.definitions) ELSE o
        /\ availability' = CASE desired.kind = "Disabled" -> "Disabled"
                             [] desired.kind = "Invalid"  -> "Unavailable"
                             [] desired.kind = "Bind"     ->
                                    IF binds THEN "Binding" ELSE availability
        /\ spent' = (spent \/ binds)
        /\ pc' = "wait"

\* Mutant: a live session is dropped without a close.
reconcile_dropping ==
    /\ pc = "top" /\ ~shutdown
    /\ Settle(IF Matches THEN owned ELSE Idle)
    /\ lost' = (Matches /\ lost)
    /\ UNCHANGED <<policy_vars, shutdown, desired, open, losses>>

\* The top of the loop, up to the first await of reconcile. An owned binding
\* that is still being made is dropped at once, a live one has to be closed.
reconcile ==
    /\ pc = "top" /\ ~shutdown
    /\ \/ /\ Matches \/ owned.kind = "Binding"
          /\ Settle(IF Matches THEN owned ELSE Idle)
          /\ UNCHANGED lost
       \/ /\ ~Matches /\ owned.kind = "Live"
          /\ pc' = "release" /\ owned' = Idle /\ lost' = FALSE
          /\ UNCHANGED <<attempted, availability, spent>>
    /\ UNCHANGED <<policy_vars, shutdown, desired, open, losses>>

\* Mutant: a failed close leaves the new definitions to be tried.
reconcile_released_retrying ==
    /\ pc = "release" /\ open' = FALSE
    /\ \/ Settle(Idle)
       \/ /\ attempted' = <<>> /\ availability' = "Unavailable" /\ spent' = TRUE
          /\ pc' = "wait" /\ UNCHANGED owned
    /\ UNCHANGED <<policy_vars, shutdown, desired, lost, losses>>

\* The close that reconcile awaits returns, or its timeout does. After a failure
\* the new definitions count as attempted: they are not bound over a session
\* whose end was not confirmed.
reconcile_released ==
    /\ pc = "release" /\ open' = FALSE
    /\ \/ Settle(Idle)
       \/ /\ attempted' = desired.definitions
          /\ availability' = "Unavailable"
          /\ spent' = TRUE
          /\ pc' = "wait" /\ UNCHANGED owned
    /\ UNCHANGED <<policy_vars, shutdown, desired, lost, losses>>

-----------------------------------------------------------------------------
(* The event that run waits for *)

\* wait_for_control reports one channel. Whichever it is, all three values are
\* read, and the snapshot is marked seen with borrow_and_update.
Control(channel) ==
    /\ pc = "wait" /\ channel \in unseen
    /\ unseen' = unseen \ {channel, "snapshots"}
    /\ desired' = desired_binding(policy)
    /\ spent' = (spent /\ desired' = desired)
    /\ pc' = "top"
    /\ UNCHANGED <<policy, changes, shutdown, attempted, owned, lost, availability, open, losses>>

\* The provider answers a bind.
Bound ==
    /\ pc = "wait" /\ owned.kind = "Binding" /\ pc' = "top"
    /\ \/ owned' = Live(owned.definitions) /\ availability' = "Available" /\ open' = TRUE
       \/ owned' = Idle /\ availability' = "Unavailable" /\ UNCHANGED open
    /\ UNCHANGED <<policy_vars, shutdown, desired, attempted, lost, spent, losses>>

\* A shortcut is pressed. A malformed signal, one of another session or one with
\* an unknown id does nothing; the action it finds publishes a snapshot, which wakes the broker.
Activated(own, id) ==
    /\ pc = "wait" /\ owned.kind = "Live" /\ changes < MaxChanges
    /\ LET known == \E i \in 1..Len(owned.definitions) : owned.definitions[i].id = id
       IN  unseen' = IF own /\ known THEN unseen \cup {"snapshots"} ELSE unseen
    /\ changes' = changes + 1 /\ pc' = "top"
    /\ UNCHANGED <<policy, shutdown, desired, attempted, owned, lost, availability, spent, open, losses>>

\* Mutant: the end of the session is ignored.
stream_loss_ignored ==
    /\ pc = "wait" /\ lost /\ pc' = "top"
    /\ UNCHANGED <<policy_vars, shutdown, desired, attempted, owned, lost, availability, spent, open, losses>>

\* Closed, OwnerLost or a stream error: the session is released, the definitions
\* stay attempted.
stream_loss ==
    /\ pc = "wait" /\ lost
    /\ pc' = "lost_release" /\ owned' = Idle /\ lost' = FALSE
    /\ UNCHANGED <<policy_vars, shutdown, desired, attempted, availability, spent, open, losses>>
release_after_stream_loss ==
    /\ pc = "lost_release" /\ open' = FALSE
    /\ availability' = "Unavailable" /\ pc' = "top"
    /\ UNCHANGED <<policy_vars, shutdown, desired, attempted, owned, lost, spent, losses>>

-----------------------------------------------------------------------------
(* Shutdown *)

\* The top of the loop, or the wait, sees the shutdown and calls close.
begin_close ==
    /\ pc \in {"top", "wait"} /\ shutdown
    /\ pc' = "close" /\ owned' = Idle /\ lost' = FALSE
    /\ UNCHANGED <<policy_vars, shutdown, desired, attempted, availability, spent, open, losses>>

\* release_owned returns: at once without a live session, else ok or with an error.
close ==
    /\ pc = "close" /\ open' = FALSE /\ pc' = "ended"
    /\ availability' \in {"Disabled"} \cup (IF open THEN {"Unavailable"} ELSE {})
    /\ UNCHANGED <<policy_vars, shutdown, desired, attempted, owned, lost, spent, losses>>

\* main gives up after SHORTCUT_SHUTDOWN_TIMEOUT and aborts the task.
abort ==
    /\ shutdown /\ pc \in {"release", "lost_release", "close"}
    /\ pc' = "aborted"
    /\ UNCHANGED <<policy_vars, shutdown, desired, attempted, owned, lost, availability, spent, open, losses>>

-----------------------------------------------------------------------------

Init ==
    /\ policy \in Policies /\ unseen = {} /\ shutdown = FALSE
    /\ pc = "top" /\ desired = desired_binding(policy) /\ attempted = <<>>
    /\ owned = Idle /\ lost = FALSE /\ availability = "Disabled"
    /\ spent = FALSE /\ open = FALSE /\ changes = 0 /\ losses = 0

Broker ==
    \/ reconcile \/ reconcile_released
    \/ \E channel \in Channels : Control(channel)
    \/ stream_loss \/ release_after_stream_loss
    \/ begin_close \/ close

Next ==
    \/ Broker \/ Bound \/ abort
    \/ \E own \in BOOLEAN, id \in Ids : Activated(own, id)
    \/ \E channel \in Channels, p \in Policies : send(channel, p)
    \/ send_shutdown \/ session_lost

Spec == Init /\ [][Next]_vars

\* A ready task is polled, a release has a timeout, and select! picks among ready
\* branches at random, so an event that stays ready is taken: strong fairness for
\* the branches that compete with others. Nothing is assumed of the provider's
\* answer to a bind, of the user, or of the senders.
Fairness ==
    /\ WF_vars(reconcile) /\ WF_vars(reconcile_released)
    /\ WF_vars(release_after_stream_loss) /\ WF_vars(close)
    /\ \A channel \in Channels : SF_vars(Control(channel))
    /\ SF_vars(stream_loss) /\ SF_vars(begin_close)
FairSpec == Spec /\ Fairness

-----------------------------------------------------------------------------
(* Properties *)

\* The shapes of the state. A bind always has definitions: the provider is never
\* asked for a session without shortcuts (desired_binding).
TypeOK ==
    /\ policy \in Policies /\ unseen \subseteq Channels /\ shutdown \in BOOLEAN
    /\ pc \in {"top", "release", "wait", "lost_release", "close", "ended", "aborted"}
    /\ desired.kind \in {"Disabled", "Invalid", "Bind"}
    /\ desired.kind = "Bind" <=> desired.definitions # <<>>
    /\ owned.kind \in {"Idle", "Binding", "Live"}
    /\ owned.kind = "Idle" <=> owned.definitions = <<>>
    /\ availability \in {"Disabled", "Binding", "Available", "Unavailable"}
    /\ lost \in BOOLEAN /\ spent \in BOOLEAN /\ open \in BOOLEAN
    /\ changes \in 0..MaxChanges /\ losses \in 0..MaxLosses

\* No change of game, settings or profile is lost: the binding the broker works
\* towards is the one they ask for, or a channel will still wake it. A value
\* that arrives while a session is being closed is the case at risk.
NoLostWakeup == desired = desired_binding(policy) \/ unseen # {}

\* When the broker waits, what it holds is what it last computed: a session for
\* another accelerator, or for no game, is never kept over a wait.
OwnedIsDesired ==
    pc = "wait" /\ owned.kind # "Idle" =>
        desired.kind = "Bind" /\ owned.definitions = desired.definitions

\* The published availability is true whenever the broker waits: Available only
\* with a live session, Binding only with a bind in flight, and Disabled only if
\* nothing is desired.
AvailabilityIsTrue ==
    pc = "wait" =>
        /\ availability = "Available" <=> owned.kind = "Live"
        /\ availability = "Binding" <=> owned.kind = "Binding"
        /\ availability = "Disabled" => desired.kind = "Disabled"

\* No session leaks: one whose close has not returned is the live one or the one
\* being closed, on every path through reconcile, loss and shutdown.
NoLeakedSession ==
    open => \/ owned.kind = "Live"
            \/ pc \in {"release", "lost_release", "close", "aborted"}

\* A desired binding is tried once: after a denial, a lost session or a close that
\* failed, the broker binds again only after the policy changed.
OneAttemptPerPolicy ==
    [][owned.kind # "Binding" /\ owned'.kind = "Binding" => ~spent]_vars

\* Once the senders are quiet the broker settles on the current policy, unless it
\* is shut down: what the game, the settings and the profile ask for is desired.
FollowsPolicy == <>[](desired = desired_binding(policy) \/ pc \in {"ended", "aborted"})

\* A lost session is given up, even if policy changes compete for the wait.
LossIsHandled == lost ~> ~lost

\* A shutdown ends the task.
ShutdownEnds == shutdown ~> pc \in {"ended", "aborted"}

\* What holds of the broker at every moment: no wakeup is lost, it owns what it desires,
\* it publishes the truth, and it leaks no session.
BrokerIsSafe ==
    TypeOK /\ NoLostWakeup /\ OwnedIsDesired /\ AvailabilityIsTrue /\ NoLeakedSession

\* What the broker does in the end: it follows the policy, gives up what it lost, and
\* stops when told to.
Progress == FollowsPolicy /\ LossIsHandled /\ ShutdownEnds
==============================================================================
