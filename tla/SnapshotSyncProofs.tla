-------------------------- MODULE SnapshotSyncProofs --------------------------
(***************************************************************************)
(* The overlay's client and UI against Core, for every bound.              *)
(***************************************************************************)
EXTENDS SnapshotSync, TLAPS

-----------------------------------------------------------------------------
\* The pending commands

\* merge_newer, take_next and push on well-formed actions.
LEMMA ActionTypes ==
    /\ NoActions \in PendingWidgetActions
    /\ \A a, b \in PendingWidgetActions : merge_newer(a, b) \in PendingWidgetActions
    /\ \A a \in PendingWidgetActions, k \in {"reload", "reset", "toggle"} :
           Taken(a, k) \in PendingWidgetActions
    /\ \A a \in PendingWidgetActions, c \in {"Reload", "Reset", "Toggle"} :
           Push(a, c) \in PendingWidgetActions
    /\ \A a \in PendingWidgetActions :
           take_next(a) \in {"none", "reload", "reset", "toggle"}
  <1>1. NoActions \in PendingWidgetActions
    BY DEF NoActions, PendingWidgetActions
  <1>2. \A a, b \in PendingWidgetActions : merge_newer(a, b) \in PendingWidgetActions
    BY DEF merge_newer, PendingWidgetActions
  <1>3. \A a \in PendingWidgetActions, k \in {"reload", "reset", "toggle"} :
           Taken(a, k) \in PendingWidgetActions
    BY Zenon DEF Taken, PendingWidgetActions
  <1>4. \A a \in PendingWidgetActions, c \in {"Reload", "Reset", "Toggle"} :
           Push(a, c) \in PendingWidgetActions
    BY Zenon DEF Push, PendingWidgetActions
  <1>5. \A a \in PendingWidgetActions :
           take_next(a) \in {"none", "reload", "reset", "toggle"}
    BY Zenon DEF take_next
  <1> QED
    BY <1>1, <1>2, <1>3, <1>4, <1>5, Zenon

\* A command acts on a stopwatch and yields one.
LEMMA ApplyTypes ==
    ASSUME NEW sw \in ManualStopwatch
    PROVE  /\ \A k : Apply(k, sw) \in ManualStopwatch
           /\ \A a : ApplyAll(a, sw) \in ManualStopwatch
  <1>1. \A k, s : s \in ManualStopwatch => Apply(k, s) \in ManualStopwatch
    BY Zenon DEF Apply, StoppedStopwatch, ManualStopwatch
  <1>2. StoppedStopwatch \in ManualStopwatch
    BY DEF StoppedStopwatch, ManualStopwatch
  <1> QED
    BY <1>1, <1>2, Zenon DEF ApplyAll

\* Two toggles cancel.
LEMMA ToggleTwice ==
    ASSUME NEW sw \in ManualStopwatch
    PROVE  Apply("toggle", Apply("toggle", sw)) = sw
  BY Zenon DEF Apply, ManualStopwatch

\* Coalescing a newer batch of commands into an older one does what both do in order.
LEMMA MergeAddsUp ==
    ASSUME NEW a \in PendingWidgetActions, NEW b \in PendingWidgetActions,
           NEW sw \in ManualStopwatch
    PROVE  ApplyAll(merge_newer(a, b), sw) = ApplyAll(b, ApplyAll(a, sw))
  <1> DEFINE m == merge_newer(a, b)
  <1>0. /\ m.reset = (a.reset \/ b.reset)
        /\ m.toggle = IF b.reset THEN b.toggle ELSE a.toggle # b.toggle
    BY DEF merge_newer
  <1>1. {a.reset, a.toggle, b.reset, b.toggle} \subseteq BOOLEAN
    BY DEF PendingWidgetActions
  <1>2. StoppedStopwatch \in ManualStopwatch
    BY DEF StoppedStopwatch, ManualStopwatch
  <1> HIDE DEF m
  <1>3. CASE b.reset
    BY <1>0, <1>3, Zenon DEF ApplyAll, m
  <1>4. CASE ~b.reset
    <2> DEFINE z == IF a.reset THEN StoppedStopwatch ELSE sw
    <2>1. z \in ManualStopwatch
      BY <1>2, Zenon
    <2>2. ApplyAll(a, sw) = IF a.toggle THEN Apply("toggle", z) ELSE z
      BY Zenon DEF ApplyAll
    <2>3. ApplyAll(m, sw) = IF m.toggle THEN Apply("toggle", z) ELSE z
      BY <1>0, <1>4, Zenon DEF ApplyAll
    <2>4. m.toggle = (a.toggle # b.toggle)
      BY <1>0, <1>4, Zenon
    <2> HIDE DEF z
    <2>5. ApplyAll(b, ApplyAll(a, sw)) =
              IF b.toggle THEN Apply("toggle", ApplyAll(a, sw)) ELSE ApplyAll(a, sw)
      BY <1>4, Zenon DEF ApplyAll
    <2>6. Apply("toggle", Apply("toggle", z)) = z
      BY <2>1, ToggleTwice, Zenon
    <2>7. CASE a.toggle
      BY <1>1, <2>2, <2>3, <2>4, <2>5, <2>6, <2>7, Zenon DEF m
    <2>8. CASE ~a.toggle
      BY <1>1, <2>2, <2>3, <2>4, <2>5, <2>6, <2>8, Zenon DEF m
    <2> QED
      BY <2>7, <2>8, Zenon
  <1> QED
    BY <1>3, <1>4, Zenon

\* Dispatching the next command before the rest does what all of them do.
LEMMA TakeAddsUp ==
    ASSUME NEW a \in PendingWidgetActions, NEW sw \in ManualStopwatch, take_next(a) # "none"
    PROVE  ApplyAll(Taken(a, take_next(a)), Apply(take_next(a), sw)) = ApplyAll(a, sw)
  <1>1. CASE a.reload
    <2>1. take_next(a) = "reload"
      BY <1>1, Zenon DEF take_next
    <2>2. Taken(a, "reload").reset = a.reset /\ Taken(a, "reload").toggle = a.toggle
      BY DEF Taken, PendingWidgetActions
    <2>3. Apply("reload", sw) = sw
      BY Zenon DEF Apply
    <2> QED
      BY <2>1, <2>2, <2>3, Zenon DEF ApplyAll
  <1>2. CASE ~a.reload /\ a.reset
    <2>1. take_next(a) = "reset"
      BY <1>2, Zenon DEF take_next
    <2>2. Taken(a, "reset").reset = FALSE /\ Taken(a, "reset").toggle = a.toggle
      BY DEF Taken, PendingWidgetActions
    <2>3. Apply("reset", sw) = StoppedStopwatch
      BY Zenon DEF Apply
    <2> QED
      BY <1>2, <2>1, <2>2, <2>3, Zenon DEF ApplyAll
  <1>3. CASE ~a.reload /\ ~a.reset /\ a.toggle
    <2>1. take_next(a) = "toggle"
      BY <1>3, Zenon DEF take_next
    <2>2. Taken(a, "toggle").reset = a.reset /\ Taken(a, "toggle").toggle = FALSE
      BY DEF Taken, PendingWidgetActions
    <2> QED
      BY <1>3, <2>1, <2>2, Zenon DEF ApplyAll
  <1> QED
    BY <1>1, <1>2, <1>3, Zenon DEF take_next

\* A command pushed on pending ones acts after them.
LEMMA PushAddsUp ==
    ASSUME NEW a \in PendingWidgetActions, NEW sw \in ManualStopwatch
    PROVE  /\ ApplyAll(Push(a, "Toggle"), sw) = Apply("toggle", ApplyAll(a, sw))
           /\ ApplyAll(Push(a, "Reset"), sw) = Apply("reset", ApplyAll(a, sw))
           /\ ApplyAll(Push(a, "Reload"), sw) = ApplyAll(a, sw)
  <1>1. ApplyAll(Push(a, "Reload"), sw) = ApplyAll(a, sw)
    <2>1. Push(a, "Reload").reset = a.reset /\ Push(a, "Reload").toggle = a.toggle
      BY DEF Push, PendingWidgetActions
    <2> QED
      BY <2>1, Zenon DEF ApplyAll
  <1>2. ApplyAll(Push(a, "Reset"), sw) = Apply("reset", ApplyAll(a, sw))
    <2>1. Push(a, "Reset").reset = TRUE /\ Push(a, "Reset").toggle = FALSE
      BY Zenon DEF Push, PendingWidgetActions
    <2> QED
      BY <2>1, Zenon DEF ApplyAll, Apply
  <1>3. ApplyAll(Push(a, "Toggle"), sw) = Apply("toggle", ApplyAll(a, sw))
    <2>1. Push(a, "Toggle").reset = a.reset /\ Push(a, "Toggle").toggle = ~a.toggle
      BY DEF Push, PendingWidgetActions
    <2> DEFINE z == IF a.reset THEN StoppedStopwatch ELSE sw
    <2>2. z \in ManualStopwatch
      BY DEF StoppedStopwatch, ManualStopwatch
    <2>3. ApplyAll(a, sw) = IF a.toggle THEN Apply("toggle", z) ELSE z
      BY Zenon DEF ApplyAll
    <2>4. ApplyAll(Push(a, "Toggle"), sw) = IF ~a.toggle THEN Apply("toggle", z) ELSE z
      BY <2>1, Zenon DEF ApplyAll
    <2> HIDE DEF z
    <2> QED
      BY <2>2, <2>3, <2>4, ToggleTwice, Zenon
  <1> QED
    BY <1>1, <1>2, <1>3, Zenon

-----------------------------------------------------------------------------
\* The types of variables that a step leaves alone.
LEMMA TypesKept ==
    /\ SignalsFit /\ UNCHANGED signals => SignalsFit'
    /\ CoreTypes /\ UNCHANGED <<core, stopwatch, unseen, ideal>> => CoreTypes'
    /\ ClientTypes /\ UNCHANGED <<pc, call, gate, intent, owner_changed>> => ClientTypes'
    /\ ChannelTypes /\ UNCHANGED <<slot, permit, update, authority, repaint>> => ChannelTypes'
    /\ WindowTypes /\ UNCHANGED <<ui, frame>> => WindowTypes'
    /\ BoundTypes /\ UNCHANGED <<legacy, changes, restarts, failures>> => BoundTypes'
  <1>1. SignalsFit /\ UNCHANGED signals => SignalsFit'
    BY Zenon DEF SignalsFit
  <1>2. CoreTypes /\ UNCHANGED <<core, stopwatch, unseen, ideal>> => CoreTypes'
    BY Zenon DEF CoreTypes
  <1>3. ClientTypes /\ UNCHANGED <<pc, call, gate, intent, owner_changed>> => ClientTypes'
    BY Zenon DEF ClientTypes
  <1>4. ChannelTypes /\ UNCHANGED <<slot, permit, update, authority, repaint>> => ChannelTypes'
    BY Zenon DEF ChannelTypes
  <1>5. WindowTypes /\ UNCHANGED <<ui, frame>> => WindowTypes'
    BY Zenon DEF WindowTypes
  <1>6. BoundTypes /\ UNCHANGED <<legacy, changes, restarts, failures>> => BoundTypes'
    BY Zenon DEF BoundTypes
  <1> QED
    BY <1>1, <1>2, <1>3, <1>4, <1>5, <1>6, Zenon

-----------------------------------------------------------------------------
\* The inductive invariant

\* How many revisions of Core the commands that wait, and the one in flight, may cost.
One(b) == IF b THEN 1 ELSE 0
Cost(actions) == One(actions.reset) + One(actions.toggle)
InFlightCost == One(pc = "call" /\ call.reply = None /\ call.kind \in {"reset", "toggle"})

\* Core's revision stays below MaxRevision: what was counted pays for the revisions made,
\* for those the pending commands may make, and for leaving an Interactive view.
RevisionsAreCounted ==
    /\ core.gen = restarts
    /\ core.rev + One(~Passive(core)) + Cost(slot.actions) + Cost(intent.actions) + InFlightCost
           <= 2 * changes + 1

\* The order of Core's snapshots: by generation, then by revision.
NotNewer(a, b) == a.gen < b.gen \/ (a.gen = b.gen /\ a.rev <= b.rev)

\* A snapshot that may be shown next: no older than what was shown and what is in the
\* channel, and published by now.
Publishable(s) ==
    /\ NotNewer(ui.snapshot, s) /\ NotNewer(s, core)
    /\ update # None => NotNewer(update.snapshot, s)

\* Core's snapshot, a reply in hand and the gate's snapshot may be shown; the channel's
\* snapshot too, as far as the UI is concerned; signals are Core's.
Ordered ==
    /\ Publishable(core)
    /\ update # None => NotNewer(ui.snapshot, update.snapshot)
    /\ pc = "call" /\ call.reply # None => Publishable(call.reply)
    /\ gate # None => Publishable(gate)
    /\ \A i \in DOMAIN signals : NotNewer(signals[i], core)

\* Until the owner stream reports a new owner, all that a versioned connection holds comes
\* from the running Core: that is why revisions alone can order it.
SameCore ==
    pc \in {"call", "loop"} /\ ~legacy /\ ~owner_changed =>
        /\ gate # None => gate.gen = core.gen
        /\ pc = "call" /\ call.reply # None => call.reply.gen = core.gen
        /\ \A i \in DOMAIN signals : signals[i].gen = core.gen

\* A versioned connection has passed its baseline, and so has a gate, before it claims
\* authority, handles a signal or sends any other call.
Connected ==
    /\ authority => pc \in {"call", "loop"} /\ (legacy \/ gate # None)
    /\ pc = "loop" \/ (pc = "call" /\ call.kind # "baseline") => legacy \/ gate # None
    /\ pc = "call" => (call.kind = "snapshot" => legacy) /\ (call.kind = "reconcile" => ~legacy)
    /\ legacy => gate = None /\ signals = <<>>

SyncInv == TypeOK /\ RevisionsAreCounted /\ Ordered /\ SameCore /\ Connected

-----------------------------------------------------------------------------
\* What the client's dispatch does, whichever handler runs it

\* Where the client is after it dispatched the intent i.
Moved(i) ==
    /\ pc' \in {"call", "loop"} /\ (pc' = "loop" => ~legacy)
    /\ call' \in [kind: Calls \ {"baseline", "reconcile"}, reply: {None}]
    /\ pc' = "call" /\ call'.kind = "snapshot" => legacy
    /\ intent' \in PassiveIntent /\ intent'.pending = i.pending
    /\ Cost(intent'.actions) + InFlightCost' <= Cost(i.actions)
    /\ \A sw \in ManualStopwatch :
           ApplyAll(intent'.actions, InFlight(sw)') = ApplyAll(i.actions, sw)

\* The cost of pending commands is a number, a dispatched one leaves it, and a pushed or
\* merged one adds no more than it costs.
LEMMA Costs ==
    /\ \A a \in PendingWidgetActions : Cost(a) \in 0..2
    /\ Cost(NoActions) = 0
    /\ \A a, b \in PendingWidgetActions : Cost(merge_newer(a, b)) <= Cost(a) + Cost(b)
    /\ \A a \in PendingWidgetActions, c \in {"Reload", "Reset", "Toggle"} :
           Cost(Push(a, c)) <= Cost(a) + 1
    /\ \A a \in PendingWidgetActions :
           /\ take_next(a) = "reload" => Cost(Taken(a, "reload")) = Cost(a)
           /\ take_next(a) = "reset" => Cost(Taken(a, "reset")) + 1 = Cost(a)
           /\ take_next(a) = "toggle" => Cost(Taken(a, "toggle")) + 1 = Cost(a)
  <1>1. \A a \in PendingWidgetActions : Cost(a) \in 0..2
    BY DEF Cost, One, PendingWidgetActions
  <1>2. Cost(NoActions) = 0
    BY DEF Cost, One, NoActions
  <1>3. \A a, b \in PendingWidgetActions : Cost(merge_newer(a, b)) <= Cost(a) + Cost(b)
    BY DEF Cost, One, PendingWidgetActions, merge_newer
  <1>4. ASSUME NEW a \in PendingWidgetActions, NEW c \in {"Reload", "Reset", "Toggle"}
        PROVE  Cost(Push(a, c)) <= Cost(a) + 1
    <2>1. CASE c = "Reload"
      <3>1. Push(a, c).reset = a.reset /\ Push(a, c).toggle = a.toggle
        BY <2>1 DEF Push, PendingWidgetActions
      <3> QED
        BY <3>1 DEF Cost, One
    <2>2. CASE c = "Reset"
      <3>1. Push(a, c).reset = TRUE /\ Push(a, c).toggle = FALSE
        BY <2>2, Zenon DEF Push, PendingWidgetActions
      <3> QED
        BY <3>1 DEF Cost, One
    <2>3. CASE c = "Toggle"
      <3>1. Push(a, c).reset = a.reset /\ Push(a, c).toggle = ~a.toggle
        BY <2>3 DEF Push, PendingWidgetActions
      <3> QED
        BY <3>1 DEF Cost, One
    <2> QED
      BY <2>1, <2>2, <2>3, Zenon
  <1>5. ASSUME NEW a \in PendingWidgetActions
        PROVE  /\ take_next(a) = "reload" => Cost(Taken(a, "reload")) = Cost(a)
               /\ take_next(a) = "reset" => Cost(Taken(a, "reset")) + 1 = Cost(a)
               /\ take_next(a) = "toggle" => Cost(Taken(a, "toggle")) + 1 = Cost(a)
    <2>1. Taken(a, "reload").reset = a.reset /\ Taken(a, "reload").toggle = a.toggle
      BY DEF Taken, PendingWidgetActions
    <2>2. Taken(a, "reset").reset = FALSE /\ Taken(a, "reset").toggle = a.toggle
      BY DEF Taken, PendingWidgetActions
    <2>3. Taken(a, "toggle").reset = a.reset /\ Taken(a, "toggle").toggle = FALSE
      BY DEF Taken, PendingWidgetActions
    <2>4. /\ take_next(a) = "reset" => a.reset
          /\ take_next(a) = "toggle" => a.toggle
      BY Zenon DEF take_next
    <2> QED
      BY <2>1, <2>2, <2>3, <2>4 DEF Cost, One
  <1> QED
    BY <1>1, <1>2, <1>3, <1>4, <1>5, Zenon

\* The loop of dispatch_widget_actions.
LEMMA ProceedMoves ==
    ASSUME NEW i \in PassiveIntent, Proceed(i)
    PROVE  Moved(i)
  <1> DEFINE action == take_next(i.actions)
  <1>0. i.actions \in PendingWidgetActions /\ i.pending \in BOOLEAN
    BY DEF PassiveIntent
  <1>1. CASE action # "none"
    <2>1. action \in {"reload", "reset", "toggle"}
      BY <1>0, <1>1, ActionTypes, Zenon
    <2>2. /\ pc' = "call" /\ call' = [kind |-> action, reply |-> None]
          /\ intent' = [i EXCEPT !.actions = Taken(@, action)]
      BY <1>1, Zenon DEF Proceed, Await
    <2> HIDE DEF action
    <2>3. call'.kind = action /\ call'.reply = None
      BY <2>2, Zenon
    <2>4. intent'.pending = i.pending /\ intent'.actions = Taken(i.actions, action)
      BY <2>2 DEF PassiveIntent
    <2>5. Taken(i.actions, action) \in PendingWidgetActions
      BY <1>0, <2>1, ActionTypes, Zenon
    <2>6. intent' \in PassiveIntent
      BY <2>2, <2>5 DEF PassiveIntent
    <2>7. call' \in [kind: Calls \ {"baseline", "reconcile"}, reply: {None}]
      BY <2>1, <2>2 DEF Calls
    <2>8. Cost(intent'.actions) + InFlightCost' <= Cost(i.actions)
      <3>1. InFlightCost' = IF action = "reload" THEN 0 ELSE 1
        BY <2>1, <2>2, <2>3, Zenon DEF InFlightCost, One
      <3>2. Cost(Taken(i.actions, action)) + (IF action = "reload" THEN 0 ELSE 1) = Cost(i.actions)
        <4>1. /\ action = "reload" => Cost(Taken(i.actions, action)) = Cost(i.actions)
              /\ action # "reload" => Cost(Taken(i.actions, action)) + 1 = Cost(i.actions)
          BY <1>0, <2>1, Costs, Zenon DEF action
        <4>2. Cost(Taken(i.actions, action)) \in Nat
          BY <2>5, Costs
        <4> QED
          BY <4>1, <4>2
      <3>3. Cost(i.actions) \in Nat
        BY <1>0, Costs
      <3> QED
        BY <2>4, <3>1, <3>2, <3>3
    <2>9. ASSUME NEW sw \in ManualStopwatch
          PROVE  ApplyAll(intent'.actions, InFlight(sw)') = ApplyAll(i.actions, sw)
      <3>1. InFlight(sw)' = Apply(action, sw)
        BY <2>2, <2>3, Zenon DEF InFlight
      <3> QED
        BY <1>0, <1>1, <2>4, <3>1, TakeAddsUp, Zenon DEF action
    <2> QED
      BY <2>1, <2>2, <2>3, <2>4, <2>6, <2>7, <2>8, <2>9, Zenon DEF Moved
  <1>2. CASE action = "none"
    <2>1. /\ intent' = i
          /\ IF legacy THEN pc' = "call" /\ call' = [kind |-> "snapshot", reply |-> None]
                       ELSE pc' = "loop" /\ call' = NoCall
      BY <1>2, Zenon DEF Proceed, Await
    <2>2. call' = [kind |-> "snapshot", reply |-> None]
      BY <2>1, Zenon DEF NoCall
    <2>3. call'.kind = "snapshot" /\ call'.reply = None
      BY <2>2, Zenon
    <2>4. call' \in [kind: Calls \ {"baseline", "reconcile"}, reply: {None}]
      BY <2>2 DEF Calls
    <2>5. InFlightCost' = 0
      BY <2>3, Zenon DEF InFlightCost, One
    <2>6. Cost(intent'.actions) + InFlightCost' <= Cost(i.actions)
      <3>1. Cost(i.actions) \in Nat
        BY <1>0, Costs
      <3> QED
        BY <2>1, <2>5, <3>1
    <2>7. \A sw : InFlight(sw)' = sw
      BY <2>3, Zenon DEF InFlight, Apply
    <2> QED
      BY <2>1, <2>3, <2>4, <2>6, <2>7, Zenon DEF Moved
  <1> QED
    BY <1>1, <1>2, Zenon

\* A request for Passive goes before the widget actions.
LEMMA DispatchMoves ==
    ASSUME NEW i \in PassiveIntent, Dispatch(i)
    PROVE  Moved(i)
  <1>1. CASE i.pending
    <2>1. pc' = "call" /\ call' = [kind |-> "passive", reply |-> None] /\ intent' = i
      BY <1>1, Zenon DEF Dispatch, Await
    <2>2. call'.kind = "passive" /\ call'.reply = None
      BY <2>1, Zenon
    <2>3. call' \in [kind: Calls \ {"baseline", "reconcile"}, reply: {None}]
      BY <2>1 DEF Calls
    <2>4. Cost(intent'.actions) + InFlightCost' <= Cost(i.actions)
      <3>1. InFlightCost' = 0
        BY <2>2, Zenon DEF InFlightCost, One
      <3>2. Cost(i.actions) \in Nat
        BY Costs DEF PassiveIntent
      <3> QED
        BY <2>1, <3>1, <3>2
    <2>5. \A sw : InFlight(sw)' = sw
      BY <2>2, Zenon DEF InFlight, Apply
    <2> QED
      BY <2>1, <2>2, <2>3, <2>4, <2>5, Zenon DEF Moved
  <1>2. CASE ~i.pending
    BY <1>2, ProceedMoves, Zenon DEF Dispatch
  <1> QED
    BY <1>1, <1>2, Zenon

\* Taking the command slot into the intent keeps what is pending.
LEMMA AbsorbedFacts ==
    ASSUME TypeOK, NEW p \in BOOLEAN
    PROVE  /\ Absorbed(p) \in PassiveIntent
           /\ Absorbed(p).pending = (p \/ slot.set_passive)
           /\ Cost(Absorbed(p).actions) <= Cost(intent.actions) + Cost(slot.actions)
           /\ \A sw \in ManualStopwatch :
                  ApplyAll(Absorbed(p).actions, sw) = Outstanding(sw)
  <1>1. intent.actions \in PendingWidgetActions /\ slot.actions \in PendingWidgetActions
        /\ slot.set_passive \in BOOLEAN
    BY DEF TypeOK, ClientTypes, ChannelTypes, PassiveIntent
  <1>2. /\ Absorbed(p).pending = (p \/ slot.set_passive)
        /\ Absorbed(p).actions = merge_newer(intent.actions, slot.actions)
    BY Zenon DEF Absorbed
  <1>3. merge_newer(intent.actions, slot.actions) \in PendingWidgetActions
    BY <1>1, ActionTypes, Zenon
  <1>4. Absorbed(p) \in PassiveIntent
    BY <1>1, <1>3 DEF Absorbed, PassiveIntent
  <1>5. Cost(Absorbed(p).actions) <= Cost(intent.actions) + Cost(slot.actions)
    BY <1>1, <1>2, Costs, Zenon
  <1>6. ASSUME NEW sw \in ManualStopwatch
        PROVE  ApplyAll(Absorbed(p).actions, sw) = Outstanding(sw)
    <2>1. ApplyAll(merge_newer(intent.actions, slot.actions), sw)
              = ApplyAll(slot.actions, ApplyAll(intent.actions, sw))
      BY <1>1, MergeAddsUp, Zenon
    <2> QED
      BY <1>2, <2>1, Zenon DEF Outstanding
  <1> QED
    BY <1>2, <1>4, <1>5, <1>6, Zenon

\* publish puts a well-formed update into the channel, which keeps a confirmation.
LEMMA PublishFacts ==
    ASSUME TypeOK, NEW s \in VersionedCoreSnapshot, publish(s)
    PROVE  /\ update' \in SnapshotUpdate /\ update' # None /\ repaint' = TRUE
           /\ update'.snapshot = s
           /\ Passive(s) => update'.passive_confirmed
           /\ update # None /\ update.passive_confirmed => update'.passive_confirmed
  <1> DEFINE c == Passive(s) \/ (update # None /\ update.passive_confirmed)
  <1>1. update' = [snapshot |-> s, passive_confirmed |-> c] /\ repaint' = TRUE
    BY Zenon DEF publish
  <1>2. c \in BOOLEAN
    BY Zenon
  <1>3. update'.snapshot = s /\ update'.passive_confirmed = c
    BY <1>1, Zenon
  <1>4. update' \in SnapshotUpdate
    BY <1>1, <1>2 DEF SnapshotUpdate
  <1> QED
    BY <1>1, <1>2, <1>3, <1>4, NoneAssumption, Zenon

-----------------------------------------------------------------------------
\* Types and revisions

\* The fields of a well-formed state.
LEMMA Parts ==
    ASSUME TypeOK
    PROVE  /\ core.gen \in 0..MaxRestarts /\ core.rev \in 0..MaxRevision /\ core.view \in Views
           /\ call.kind \in Calls /\ call.reply \in VersionedCoreSnapshot \cup {None}
           /\ intent.pending \in BOOLEAN /\ intent.actions \in PendingWidgetActions
           /\ slot.set_passive \in BOOLEAN /\ slot.actions \in PendingWidgetActions
           /\ ui.snapshot \in VersionedCoreSnapshot /\ ui.passive_pending \in BOOLEAN
           /\ ui.authority \in BOOLEAN /\ ui.passthrough \in BOOLEAN
           /\ update # None => /\ update.snapshot \in VersionedCoreSnapshot
                               /\ update.passive_confirmed \in BOOLEAN
  <1>1. core.gen \in 0..MaxRestarts /\ core.rev \in 0..MaxRevision /\ core.view \in Views
    BY DEF TypeOK, CoreTypes, VersionedCoreSnapshot
  <1>2. call.kind \in Calls /\ call.reply \in VersionedCoreSnapshot \cup {None}
    BY DEF TypeOK, ClientTypes
  <1>3. /\ intent.pending \in BOOLEAN /\ intent.actions \in PendingWidgetActions
        /\ slot.set_passive \in BOOLEAN /\ slot.actions \in PendingWidgetActions
    BY DEF TypeOK, ClientTypes, ChannelTypes, PassiveIntent
  <1>4. /\ ui.snapshot \in VersionedCoreSnapshot /\ ui.passive_pending \in BOOLEAN
        /\ ui.authority \in BOOLEAN /\ ui.passthrough \in BOOLEAN
    BY DEF TypeOK, WindowTypes
  <1>5. update # None => /\ update.snapshot \in VersionedCoreSnapshot
                         /\ update.passive_confirmed \in BOOLEAN
    BY DEF TypeOK, ChannelTypes, SnapshotUpdate
  <1> QED
    BY <1>1, <1>2, <1>3, <1>4, <1>5, Zenon

\* A step that leaves Core alone keeps the count if its pending commands cost no more.
LEMMA CountKept ==
    ASSUME TypeOK, RevisionsAreCounted, UNCHANGED <<core, changes, restarts>>,
           slot'.actions \in PendingWidgetActions, intent'.actions \in PendingWidgetActions,
           Cost(slot'.actions) + Cost(intent'.actions) + InFlightCost'
               <= Cost(slot.actions) + Cost(intent.actions) + InFlightCost
    PROVE  RevisionsAreCounted'
  <1>1. /\ Cost(slot.actions) \in Nat /\ Cost(intent.actions) \in Nat
        /\ Cost(slot'.actions) \in Nat /\ Cost(intent'.actions) \in Nat
    BY Parts, Costs
  <1>2. InFlightCost \in Nat /\ InFlightCost' \in Nat
    BY DEF InFlightCost, One
  <1>3. core.rev \in Nat /\ changes \in Nat /\ One(~Passive(core)) \in Nat
    BY Parts DEF TypeOK, BoundTypes, One
  <1>4. core'.rev = core.rev /\ core'.gen = core.gen /\ changes' = changes /\ restarts' = restarts
        /\ One(~Passive(core))' = One(~Passive(core))
    BY Zenon DEF One, Passive
  <1> QED
    BY <1>1, <1>2, <1>3, <1>4 DEF RevisionsAreCounted

\* Core's own changes: at most one revision each, and two are counted.
LEMMA ChangesAreCounted ==
    ASSUME TypeOK, RevisionsAreCounted, NEW view \in Views, core_changes(view)
    PROVE  TypeOK' /\ RevisionsAreCounted'
  <1>1. /\ core'.gen = core.gen /\ core'.rev = core.rev + 1 /\ core'.view = view
    BY Parts DEF core_changes, TypeOK, CoreTypes, VersionedCoreSnapshot
  <1>2. /\ Cost(slot.actions) \in Nat /\ Cost(intent.actions) \in Nat /\ InFlightCost \in Nat
    BY Parts, Costs DEF InFlightCost, One
  <1>3. core.rev \in Nat /\ changes \in Nat /\ changes < MaxChanges /\ MaxChanges \in Nat
    BY Parts, SyncAssumption DEF TypeOK, BoundTypes, core_changes
  <1>4. One(~Passive(core)) \in 0..1 /\ One(~Passive(core))' \in 0..1
    BY DEF One
  <1>5. /\ changes' = changes + 1 /\ slot' = slot /\ intent' = intent
        /\ InFlightCost' = InFlightCost /\ restarts' = restarts
    BY Zenon DEF core_changes, client, commands, InFlightCost
  <1>6. RevisionsAreCounted' /\ core.rev + 1 <= MaxRevision
    BY <1>1, <1>2, <1>3, <1>4, <1>5 DEF RevisionsAreCounted, MaxRevision
  <1>7. core' \in VersionedCoreSnapshot
    <2>1. core.rev + 1 \in 0..MaxRevision
      BY <1>3, <1>6 DEF MaxRevision
    <2> QED
      BY <2>1, Zenon DEF core_changes, TypeOK, CoreTypes, VersionedCoreSnapshot
  <1>8. changes' \in 0..MaxChanges
    BY <1>3, <1>5
  <1>9. /\ stopwatch' \in ManualStopwatch /\ ideal' \in ManualStopwatch
    <2>1. StoppedStopwatch \in ManualStopwatch
      BY DEF StoppedStopwatch, ManualStopwatch
    <2>2. Outstanding(InFlight(StoppedStopwatch)) \in ManualStopwatch
      BY <2>1, ApplyTypes, Zenon DEF Outstanding, InFlight
    <2> QED
      BY <2>1, <2>2, Zenon DEF core_changes, TypeOK, CoreTypes
  <1>10. UNCHANGED <<signals, pc, call, gate, intent, owner_changed, slot, permit, update,
                     authority, ui, frame, repaint, restarts, failures, legacy>>
         /\ unseen' = TRUE
    BY Zenon DEF core_changes, client, commands, window
  <1> QED
    BY <1>6, <1>7, <1>8, <1>9, <1>10, TypesKept, Zenon DEF TypeOK, CoreTypes, BoundTypes

\* A new Core starts over.
LEMMA RestartIsCounted ==
    ASSUME TypeOK, RevisionsAreCounted, core_restarts
    PROVE  TypeOK' /\ RevisionsAreCounted'
  <1>1. core'.gen = core.gen + 1 /\ core'.rev = 0 /\ core'.view = "none"
    BY DEF core_restarts
  <1>2. /\ Cost(slot.actions) \in Nat /\ Cost(intent.actions) \in Nat /\ InFlightCost \in Nat
    BY Parts, Costs DEF InFlightCost, One
  <1>3. /\ core.rev \in Nat /\ changes \in Nat /\ core.gen \in Nat
        /\ restarts \in Nat /\ restarts < MaxRestarts /\ MaxRestarts \in Nat
    BY Parts, SyncAssumption DEF TypeOK, BoundTypes, core_restarts
  <1>4. One(~Passive(core)) \in 0..1 /\ One(~Passive(core))' = 0
    BY <1>1 DEF One, Passive
  <1>5. /\ changes' = changes /\ slot' = slot /\ intent' = intent
        /\ InFlightCost' = InFlightCost /\ restarts' = restarts + 1
    BY Zenon DEF core_restarts, commands, InFlightCost
  <1>6. RevisionsAreCounted'
    BY <1>1, <1>2, <1>3, <1>4, <1>5 DEF RevisionsAreCounted
  <1>7. core' \in VersionedCoreSnapshot
    <2>1. core.gen + 1 \in 0..MaxRestarts /\ 0 \in 0..MaxRevision
      BY <1>3, SyncAssumption DEF RevisionsAreCounted, MaxRevision
    <2> QED
      BY <2>1 DEF core_restarts, VersionedCoreSnapshot, Views
  <1>8. restarts' \in 0..MaxRestarts
    BY <1>3, <1>5
  <1>9. /\ stopwatch' \in ManualStopwatch /\ ideal' \in ManualStopwatch
    <2>1. StoppedStopwatch \in ManualStopwatch
      BY DEF StoppedStopwatch, ManualStopwatch
    <2>2. Outstanding(InFlight(StoppedStopwatch)) \in ManualStopwatch
      BY <2>1, ApplyTypes, Zenon DEF Outstanding, InFlight
    <2> QED
      BY <2>1, <2>2, Zenon DEF core_restarts
  <1>10. UNCHANGED <<signals, pc, call, gate, intent, slot, permit, update, authority, ui,
                     frame, repaint, changes, failures, legacy>>
    BY Zenon DEF core_restarts, commands, window
  <1>11. owner_changed' \in BOOLEAN
    BY Zenon DEF core_restarts
  <1> QED
    BY <1>6, <1>7, <1>8, <1>9, <1>10, <1>11, TypesKept, Zenon DEF core_restarts, TypeOK, CoreTypes, BoundTypes, ClientTypes

\* A command in flight, or a request for Passive in an Interactive view, was counted.
LEMMA ExecutionIsCounted ==
    ASSUME TypeOK, RevisionsAreCounted, core_executes
    PROVE  /\ TypeOK' /\ RevisionsAreCounted'
           /\ pc' = "call" /\ call'.kind = call.kind /\ call'.reply = core'
           /\ core'.gen = core.gen /\ core.rev <= core'.rev
  <1> DEFINE view == IF call.kind = "passive" /\ core.view = "interactive"
                     THEN "passive" ELSE core.view
             sw   == IF core.view = "none" THEN stopwatch ELSE Apply(call.kind, stopwatch)
             next == IF view = core.view /\ sw = stopwatch THEN core
                     ELSE [core EXCEPT !.rev = @ + 1, !.view = view]
  <1>1. /\ pc = "call" /\ call.reply = None
        /\ core' = next /\ stopwatch' = sw
        /\ call' = [call EXCEPT !.reply = next]
        /\ unseen' = (unseen \/ next # core \/ sw # stopwatch)
        /\ ideal' = IF core.view = "none" THEN Outstanding(stopwatch) ELSE ideal
    BY Zenon DEF core_executes
  <1>2. UNCHANGED <<signals, pc, gate, intent, owner_changed, slot, permit, update, authority,
                    ui, frame, repaint, legacy, changes, restarts, failures>>
    BY Zenon DEF core_executes, commands, window, bounds
  <1>3. /\ view \in Views /\ sw \in ManualStopwatch /\ ideal' \in ManualStopwatch
    <2>1. view \in Views
      BY Parts DEF Views
    <2>2. sw \in ManualStopwatch
      BY ApplyTypes, Zenon DEF TypeOK, CoreTypes
    <2>3. Outstanding(stopwatch) \in ManualStopwatch
      BY ApplyTypes, Zenon DEF Outstanding, TypeOK, CoreTypes
    <2> QED
      BY <1>1, <2>1, <2>2, <2>3, Zenon DEF TypeOK, CoreTypes
  <1>4. sw # stopwatch => call.kind \in {"reset", "toggle"}
    BY Zenon DEF Apply
  <1> HIDE DEF sw, view
  <1>5. /\ next.gen = core.gen
        /\ next.view = IF view = core.view /\ sw = stopwatch THEN core.view ELSE view
        /\ next.rev = IF view = core.view /\ sw = stopwatch THEN core.rev ELSE core.rev + 1
    BY DEF TypeOK, CoreTypes, VersionedCoreSnapshot
  <1> HIDE DEF next
  <1>6. /\ Cost(slot.actions) \in Nat /\ Cost(intent.actions) \in Nat
        /\ core.rev \in Nat /\ changes \in 0..MaxChanges /\ MaxChanges \in Nat
    BY Parts, Costs, SyncAssumption DEF TypeOK, BoundTypes
  <1>7. call'.kind = call.kind /\ call'.reply = next
    BY <1>1 DEF TypeOK, ClientTypes
  <1>8. /\ InFlightCost = IF call.kind \in {"reset", "toggle"} THEN 1 ELSE 0
        /\ InFlightCost' \in {0, InFlightCost} /\ (next # None => InFlightCost' = 0)
    BY <1>1, <1>2, <1>7 DEF InFlightCost, One
  <1>9. /\ One(~Passive(core)) = IF core.view = "interactive" THEN 1 ELSE 0
        /\ One(~Passive(core))' = IF next.view = "interactive" THEN 1 ELSE 0
    BY <1>1, Zenon DEF One, Passive
  <1>10. /\ view # core.view => core.view = "interactive" /\ view = "passive"
    BY Zenon DEF view
  <1>11. /\ next.rev + One(~Passive(core))' <= core.rev + One(~Passive(core)) + InFlightCost
         /\ next.rev <= core.rev + One(~Passive(core)) + InFlightCost
         /\ next.rev \in Nat /\ core.rev <= next.rev
         /\ One(~Passive(core)) \in Nat /\ One(~Passive(core))' \in Nat /\ InFlightCost \in Nat
    <2>1. CASE view # core.view
      BY <1>4, <1>5, <1>6, <1>8, <1>9, <1>10, <2>1
    <2>2. CASE view = core.view /\ sw = stopwatch
      BY <1>4, <1>5, <1>6, <1>8, <1>9, <1>10, <2>2
    <2>3. CASE view = core.view /\ sw # stopwatch
      BY <1>4, <1>5, <1>6, <1>8, <1>9, <1>10, <2>3
    <2> QED
      BY <2>1, <2>2, <2>3, Zenon
  <1>12. next.rev \in 0..MaxRevision
    BY <1>6, <1>11 DEF RevisionsAreCounted, MaxRevision
  <1>13. next \in VersionedCoreSnapshot
    <2>1. CASE view = core.view /\ sw = stopwatch
      BY <2>1, Zenon DEF next, TypeOK, CoreTypes
    <2>2. CASE ~(view = core.view /\ sw = stopwatch)
      <3>1. core.rev + 1 \in 0..MaxRevision
        BY <1>5, <1>12, <2>2
      <3>2. next = [core EXCEPT !.rev = @ + 1, !.view = view]
        BY <2>2, Zenon DEF next
      <3> QED
        BY <1>3, <3>1, <3>2, Zenon DEF TypeOK, CoreTypes, VersionedCoreSnapshot
    <2> QED
      BY <2>1, <2>2, Zenon
  <1>14. RevisionsAreCounted'
    <2>1. InFlightCost' = 0
      BY <1>8, <1>13, NoneAssumption, Zenon
    <2>2. slot' = slot /\ intent' = intent /\ changes' = changes /\ restarts' = restarts
      BY <1>2, Zenon
    <2> QED
      BY <1>1, <1>5, <1>6, <1>11, <2>1, <2>2 DEF RevisionsAreCounted
  <1>15. call' \in [kind: Calls, reply: VersionedCoreSnapshot \cup {None}]
    BY <1>1, <1>13 DEF TypeOK, ClientTypes
  <1>16. unseen' \in BOOLEAN
    BY <1>1, Zenon DEF TypeOK, CoreTypes
  <1>17. TypeOK'
    BY <1>1, <1>2, <1>3, <1>13, <1>15, <1>16, TypesKept, Zenon DEF TypeOK, CoreTypes, ClientTypes
  <1> QED
    BY <1>1, <1>2, <1>5, <1>7, <1>11, <1>14, <1>17, Zenon

\* A connection that ends takes the call in flight with it.
LEMMA DisconnectIsCounted ==
    ASSUME TypeOK, RevisionsAreCounted, Disconnect, failures' \in 0..MaxFailures
    PROVE  TypeOK' /\ RevisionsAreCounted'
  <1>1. /\ pc' = "idle" /\ call' = NoCall /\ gate' = None /\ signals' = <<>>
        /\ owner_changed' = FALSE /\ authority' = FALSE /\ repaint' = (repaint \/ authority # FALSE)
        /\ ideal' = IF pc = "call" /\ call.reply = None THEN Outstanding(stopwatch) ELSE ideal
    BY Zenon DEF Disconnect, set_authority
  <1>2. UNCHANGED <<core, stopwatch, unseen, intent, slot, permit, update, ui, frame, changes,
                    restarts, legacy>>
    BY Zenon DEF Disconnect, commands, window
  <1>3. ideal' \in ManualStopwatch
    BY <1>1, ApplyTypes, Zenon DEF Outstanding, TypeOK, CoreTypes
  <1>4. call' \in [kind: Calls, reply: VersionedCoreSnapshot \cup {None}]
    BY <1>1 DEF NoCall, Calls
  <1>5. SignalsFit'
    BY <1>1, SyncAssumption DEF SignalsFit
  <1>6. TypeOK'
    BY <1>1, <1>2, <1>3, <1>4, <1>5, TypesKept, Zenon DEF TypeOK, CoreTypes, ClientTypes, ChannelTypes, BoundTypes
  <1>7. RevisionsAreCounted'
    <2>1. InFlightCost' = 0 /\ InFlightCost \in Nat
      BY <1>1 DEF InFlightCost, One
    <2>2. Cost(slot.actions) \in Nat /\ Cost(intent.actions) \in Nat
      BY Parts, Costs
    <2>3. Cost(slot.actions) + Cost(intent.actions) + 0
              <= Cost(slot.actions) + Cost(intent.actions) + InFlightCost
      BY <2>1, <2>2
    <2> QED
      BY <1>2, <2>1, <2>3, Parts, CountKept, Zenon
  <1> QED
    BY <1>6, <1>7, Zenon

\* The handlers that dispatch keep the count.
LEMMA MovedIsCounted ==
    ASSUME TypeOK, RevisionsAreCounted, NEW i \in PassiveIntent, Moved(i),
           UNCHANGED <<core, stopwatch, unseen, signals, owner_changed, ui, frame, ideal,
                       legacy, changes, restarts, failures>>,
           slot' \in [set_passive: BOOLEAN, actions: PendingWidgetActions],
           Cost(slot'.actions) + Cost(i.actions) <= Cost(slot.actions) + Cost(intent.actions),
           permit' \in BOOLEAN, gate' \in VersionedCoreSnapshot \cup {None},
           update' \in SnapshotUpdate \cup {None}, authority' \in BOOLEAN, repaint' \in BOOLEAN
    PROVE  TypeOK' /\ RevisionsAreCounted'
  <1>1. call' \in [kind: Calls, reply: VersionedCoreSnapshot \cup {None}]
    BY DEF Moved
  <1>2. pc' \in {"call", "loop"} /\ intent' \in PassiveIntent
    BY Zenon DEF Moved
  <1>3. TypeOK'
    BY <1>1, <1>2, TypesKept, Zenon DEF TypeOK, ClientTypes, ChannelTypes
  <1>4. RevisionsAreCounted'
    <2>1. intent'.actions \in PendingWidgetActions /\ slot'.actions \in PendingWidgetActions
          /\ i.actions \in PendingWidgetActions
      BY <1>2 DEF PassiveIntent
    <2>2. InFlightCost \in Nat /\ InFlightCost' \in Nat
      BY DEF InFlightCost, One
    <2>3. /\ Cost(slot.actions) \in Nat /\ Cost(intent.actions) \in Nat /\ Cost(i.actions) \in Nat
          /\ Cost(slot'.actions) \in Nat /\ Cost(intent'.actions) \in Nat
      BY <2>1, Parts, Costs
    <2>4. Cost(intent'.actions) + InFlightCost' <= Cost(i.actions)
      BY Zenon DEF Moved
    <2>5. Cost(slot'.actions) + Cost(intent'.actions) + InFlightCost'
               <= Cost(slot.actions) + Cost(intent.actions) + InFlightCost
      BY <2>2, <2>3, <2>4
    <2> QED
      BY <2>1, <2>5, CountKept, Zenon
  <1> QED
    BY <1>3, <1>4, Zenon

\* Emptying the slot into the intent costs nothing.
LEMMA AbsorbedIsCounted ==
    ASSUME TypeOK, NEW p \in BOOLEAN, slot' = EmptySlot
    PROVE  /\ slot' \in [set_passive: BOOLEAN, actions: PendingWidgetActions]
           /\ Cost(slot'.actions) + Cost(Absorbed(p).actions)
                  <= Cost(slot.actions) + Cost(intent.actions)
  <1>1. slot'.set_passive = FALSE /\ slot'.actions = NoActions
    BY Zenon DEF EmptySlot
  <1>2. slot' \in [set_passive: BOOLEAN, actions: PendingWidgetActions]
    BY ActionTypes DEF EmptySlot
  <1>3. /\ Cost(slot'.actions) = 0
        /\ Cost(Absorbed(p).actions) <= Cost(intent.actions) + Cost(slot.actions)
    BY <1>1, AbsorbedFacts, Costs, Zenon
  <1>4. /\ Cost(slot.actions) \in Nat /\ Cost(intent.actions) \in Nat
        /\ Cost(Absorbed(p).actions) \in Nat
    BY AbsorbedFacts, Parts, Costs DEF PassiveIntent
  <1> QED
    BY <1>2, <1>3, <1>4

\* Every step keeps the types and the count.
LEMMA CountedStep == SyncInv /\ [Next]_vars => TypeOK' /\ RevisionsAreCounted'
  <1> SUFFICES ASSUME SyncInv, [Next]_vars PROVE TypeOK' /\ RevisionsAreCounted'
    BY Zenon
  <1>t. TypeOK /\ RevisionsAreCounted
    BY Zenon DEF SyncInv
  <1>c. /\ Cost(slot.actions) \in Nat /\ Cost(intent.actions) \in Nat /\ InFlightCost \in Nat
    BY <1>t, Parts, Costs DEF InFlightCost, One
  \* A step that leaves the pending commands and Core alone.
  <1>k. ASSUME UNCHANGED <<core, changes, restarts>>, intent' \in PassiveIntent,
               intent'.actions = intent.actions, slot'.actions = slot.actions,
               \/ UNCHANGED <<pc, call>>
               \/ InFlightCost' = 0
        PROVE  RevisionsAreCounted'
    <2>1. InFlightCost' \in {0, InFlightCost}
      BY <1>k, Zenon DEF InFlightCost
    <2>2. Cost(slot'.actions) + Cost(intent'.actions) + InFlightCost'
               <= Cost(slot.actions) + Cost(intent.actions) + InFlightCost
      BY <1>c, <1>k, <2>1
    <2>3. slot.actions \in PendingWidgetActions /\ intent.actions \in PendingWidgetActions
      BY <1>t, Parts, Zenon
    <2> QED
      BY <1>k, <1>t, <2>2, <2>3, CountKept, Zenon
  <1>1. ASSUME NEW view \in Views, core_changes(view) PROVE TypeOK' /\ RevisionsAreCounted'
    BY <1>1, <1>t, ChangesAreCounted, Zenon
  <1>2. CASE core_restarts
    BY <1>2, <1>t, RestartIsCounted, Zenon
  <1>3. CASE run_snapshot_signal_publisher
    <2>1. /\ UNCHANGED <<core, stopwatch, pc, call, gate, intent, owner_changed, slot, permit,
                         update, authority, ui, frame, repaint, ideal, changes, restarts, legacy>>
          /\ unseen' = FALSE
      BY <1>3, Zenon DEF run_snapshot_signal_publisher, client, commands, window
    <2>2. SignalsFit'
      <3>1. /\ signals \in Seq(VersionedCoreSnapshot) /\ core \in VersionedCoreSnapshot
            /\ Len(signals) <= MaxSignals /\ MaxSignals \in Nat
        BY <1>t, SyncAssumption DEF TypeOK, CoreTypes, SignalsFit
      <3>2. \/ signals' = signals
            \/ signals' = Append(signals, core) /\ Len(signals) < MaxSignals
        BY <1>3, Zenon DEF run_snapshot_signal_publisher
      <3> QED
        BY <3>1, <3>2 DEF SignalsFit
    <2>3. failures' \in 0..MaxFailures
      BY <1>3, <1>t, SyncAssumption DEF run_snapshot_signal_publisher, TypeOK, BoundTypes
    <2>4. TypeOK'
      BY <1>t, <2>1, <2>2, <2>3, TypesKept, Zenon DEF TypeOK, CoreTypes, BoundTypes
    <2> QED
      BY <1>k, <1>t, <2>1, <2>4, Zenon DEF TypeOK, ClientTypes
  <1>4. CASE core_executes
    BY <1>4, <1>t, ExecutionIsCounted, Zenon
  <1>5. CASE connect
    <2>1. /\ UNCHANGED <<core, stopwatch, unseen, intent, slot, permit, update, authority, ui,
                         frame, repaint, ideal, legacy, changes, restarts, failures>>
          /\ pc' = "call" /\ call' = [kind |-> "baseline", reply |-> None]
          /\ signals' = <<>> /\ owner_changed' = FALSE /\ gate' = None
      BY <1>5, Zenon DEF connect, Await, commands, window, bounds
    <2>2. call' \in [kind: Calls, reply: VersionedCoreSnapshot \cup {None}]
      BY <2>1 DEF Calls
    <2>3. SignalsFit'
      BY <2>1, SyncAssumption DEF SignalsFit
    <2>4. TypeOK'
      BY <1>t, <2>1, <2>2, <2>3, TypesKept, Zenon DEF TypeOK, ClientTypes
    <2>5. InFlightCost' = 0
      BY <2>1 DEF InFlightCost, One
    <2> QED
      BY <1>k, <1>t, <2>1, <2>4, <2>5, Zenon DEF TypeOK, ClientTypes
  <1>6. CASE connection_cycle_baseline
    <2> DEFINE p == IF legacy THEN intent.pending ELSE intent.pending /\ ~Passive(call.reply)
    <2>1. /\ UNCHANGED <<core, stopwatch, unseen, signals, owner_changed, permit, ui, frame,
                         ideal, legacy, changes, restarts, failures>>
          /\ slot' = EmptySlot /\ Dispatch(Absorbed(p)) /\ call.reply # None
      BY <1>6, Zenon DEF connection_cycle_baseline, Answered, window, bounds
    <2>2. p \in BOOLEAN /\ call.reply \in VersionedCoreSnapshot
      BY <1>t, <2>1, Parts, Zenon
    <2>3. /\ gate' \in VersionedCoreSnapshot \cup {None} /\ update' \in SnapshotUpdate \cup {None}
          /\ authority' \in BOOLEAN /\ repaint' \in BOOLEAN
      <3>1. CASE legacy
        BY <1>6, <1>t, <3>1, Zenon DEF connection_cycle_baseline, TypeOK, ClientTypes, ChannelTypes
      <3>2. CASE ~legacy
        <4>1. publish(call.reply) /\ gate' = call.reply /\ authority' = TRUE
          BY <1>6, <3>2, Zenon DEF connection_cycle_baseline
        <4> QED
          BY Zenon, <1>t, <2>2, <4>1, PublishFacts
      <3> QED
        BY <3>1, <3>2, Zenon
    <2> HIDE DEF p
    <2>4. Absorbed(p) \in PassiveIntent /\ Moved(Absorbed(p))
      BY <1>t, <2>1, <2>2, AbsorbedFacts, DispatchMoves, Zenon
    <2>5. permit' \in BOOLEAN
      BY <1>t, <2>1, Zenon DEF TypeOK, ChannelTypes
    <2> QED
      BY <1>t, <2>1, <2>2, <2>3, <2>4, <2>5, AbsorbedIsCounted, MovedIsCounted, Zenon
  <1>7. CASE dispatch_commands
    <2> DEFINE i == IF legacy THEN [intent EXCEPT !.pending =
                                       @ /\ ~(call.kind = "passive" /\ Passive(call.reply))]
                    ELSE intent
    <2>1. /\ UNCHANGED <<core, stopwatch, unseen, signals, owner_changed, gate, slot, permit,
                         authority, ui, frame, ideal, legacy, changes, restarts, failures>>
          /\ call.reply # None /\ Proceed(i)
          /\ IF legacy THEN publish(call.reply) ELSE UNCHANGED <<update, repaint>>
      BY <1>7, Zenon DEF dispatch_commands, Answered, commands, window, bounds
    <2>2. i \in PassiveIntent /\ i.actions = intent.actions
      BY <1>t, Zenon DEF TypeOK, ClientTypes, PassiveIntent
    <2>3. call.reply \in VersionedCoreSnapshot
      BY <1>t, <2>1, Parts, Zenon
    <2> HIDE DEF i
    <2>4. Moved(i)
      BY <2>1, <2>2, ProceedMoves, Zenon
    <2>5. update' \in SnapshotUpdate \cup {None} /\ repaint' \in BOOLEAN
      <3>1. CASE legacy
        BY <1>t, <2>1, <2>3, <3>1, PublishFacts, Zenon
      <3>2. CASE ~legacy
        BY <1>t, <2>1, <3>2, Zenon DEF TypeOK, ChannelTypes
      <3> QED
        BY <3>1, <3>2, Zenon
    <2>6. /\ slot' \in [set_passive: BOOLEAN, actions: PendingWidgetActions]
          /\ permit' \in BOOLEAN /\ gate' \in VersionedCoreSnapshot \cup {None}
          /\ authority' \in BOOLEAN
      BY <1>t, <2>1, Zenon DEF TypeOK, ClientTypes, ChannelTypes
    <2>7. Cost(slot'.actions) + Cost(i.actions) <= Cost(slot.actions) + Cost(intent.actions)
      <3>1. slot' = slot
        BY <2>1, Zenon
      <3> QED
        BY <1>c, <2>2, <3>1
    <2> QED
      BY <1>t, <2>1, <2>2, <2>4, <2>5, <2>6, <2>7, MovedIsCounted, Zenon
  <1>8. CASE legacy_snapshot
    <2>1. /\ UNCHANGED <<core, stopwatch, unseen, signals, owner_changed, gate, slot, permit,
                         ui, frame, ideal, legacy, changes, restarts, failures>>
          /\ call.reply # None /\ publish(call.reply) /\ authority' = TRUE
          /\ pc' = "loop" /\ call' = NoCall
          /\ intent' = [intent EXCEPT !.pending = @ /\ ~Passive(call.reply)]
      BY <1>8, Zenon DEF legacy_snapshot, Answered, commands, window, bounds
    <2>2. intent' \in PassiveIntent /\ intent'.actions = intent.actions
      BY <1>t, <2>1, Zenon DEF TypeOK, ClientTypes, PassiveIntent
    <2>3. call.reply \in VersionedCoreSnapshot
      BY <1>t, <2>1, Parts, Zenon
    <2>4. update' \in SnapshotUpdate \cup {None} /\ repaint' \in BOOLEAN
      BY <1>t, <2>1, <2>3, PublishFacts, Zenon
    <2>5. call' \in [kind: Calls, reply: VersionedCoreSnapshot \cup {None}]
      BY <2>1 DEF NoCall, Calls
    <2>6. TypeOK'
      BY <1>t, <2>1, <2>2, <2>4, <2>5, TypesKept, Zenon DEF TypeOK, ClientTypes, ChannelTypes
    <2>7. InFlightCost' = 0
      BY <2>1 DEF InFlightCost, One
    <2> QED
      BY <1>k, <2>1, <2>2, <2>6, <2>7, Zenon
  <1>9. CASE legacy_poll \/ commands_notified
    <2>1. /\ UNCHANGED <<core, stopwatch, unseen, signals, owner_changed, gate, update,
                         authority, ui, frame, repaint, ideal, legacy, changes, restarts, failures>>
          /\ permit' \in {FALSE, permit}
          /\ slot' = EmptySlot /\ Dispatch(Absorbed(intent.pending))
      BY <1>9, Zenon DEF legacy_poll, commands_notified, window, bounds
    <2>2. intent.pending \in BOOLEAN
      BY <1>t, Parts, Zenon
    <2>3. Absorbed(intent.pending) \in PassiveIntent /\ Moved(Absorbed(intent.pending))
      BY <1>t, <2>1, <2>2, AbsorbedFacts, DispatchMoves, Zenon
    <2>4. /\ permit' \in BOOLEAN /\ gate' \in VersionedCoreSnapshot \cup {None}
          /\ update' \in SnapshotUpdate \cup {None} /\ authority' \in BOOLEAN
          /\ repaint' \in BOOLEAN
      BY <1>t, <2>1, Zenon DEF TypeOK, ClientTypes, ChannelTypes
    <2> QED
      BY <1>t, <2>1, <2>2, <2>3, <2>4, AbsorbedIsCounted, MovedIsCounted, Zenon
  \* A snapshot that arrives within a connection.
  <1>v. ASSUME NEW event \in VersionedCoreSnapshot, apply_versioned(event),
               UNCHANGED <<core, stopwatch, unseen, owner_changed, slot, permit, authority, ui,
                           frame, ideal, legacy, changes, restarts, failures>>,
               SignalsFit',
               UNCHANGED <<pc, call>> \/ (pc' = "loop" /\ call' = NoCall)
        PROVE  TypeOK' /\ RevisionsAreCounted'
    <2>1. /\ gate' \in VersionedCoreSnapshot \cup {None} /\ update' \in SnapshotUpdate \cup {None}
          /\ repaint' \in BOOLEAN
          /\ intent' \in PassiveIntent /\ intent'.actions = intent.actions
      <3>1. CASE revision_decision(event) = "Apply"
        <4>1. /\ gate' = event /\ publish(event)
              /\ intent' = [intent EXCEPT !.pending = @ /\ ~Passive(event)]
          BY <1>v, <3>1, Zenon DEF apply_versioned
        <4>2. intent' \in PassiveIntent /\ intent'.actions = intent.actions
          BY <1>t, <4>1, Zenon DEF TypeOK, ClientTypes, PassiveIntent
        <4> QED
          BY <1>t, <1>v, <4>1, <4>2, PublishFacts, Zenon
      <3>2. CASE revision_decision(event) # "Apply"
        BY <1>t, <1>v, <3>2, Zenon DEF apply_versioned, TypeOK, ClientTypes, ChannelTypes
      <3> QED
        BY <3>1, <3>2, Zenon
    <2>2. call' \in [kind: Calls, reply: VersionedCoreSnapshot \cup {None}]
      <3>1. NoCall \in [kind: Calls, reply: VersionedCoreSnapshot \cup {None}]
        BY DEF NoCall, Calls
      <3> QED
        BY <1>t, <1>v, <3>1, Zenon DEF TypeOK, ClientTypes
    <2>3. TypeOK'
      BY <1>t, <1>v, <2>1, <2>2, TypesKept, Zenon DEF TypeOK, ClientTypes, ChannelTypes
    <2>4. UNCHANGED <<pc, call>> \/ InFlightCost' = 0
      BY <1>v, Zenon DEF InFlightCost, One
    <2> QED
      BY <1>k, <1>v, <2>1, <2>3, <2>4, Zenon
  <1>10. CASE handle_signal
    <2>1. /\ signals # <<>> /\ apply_versioned(Head(signals)) /\ signals' = Tail(signals)
          /\ UNCHANGED <<core, stopwatch, unseen, owner_changed, pc, call, slot, permit,
                         authority, ui, frame, ideal, legacy, changes, restarts, failures>>
      BY <1>10, Zenon DEF handle_signal, commands, window, bounds
    <2>2. Head(signals) \in VersionedCoreSnapshot /\ SignalsFit'
      BY <1>t, <2>1, SyncAssumption DEF TypeOK, SignalsFit
    <2> QED
      BY <1>v, <2>1, <2>2, Zenon
  <1>11. CASE reconciliation
    <2>1. /\ UNCHANGED <<core, stopwatch, unseen, signals, owner_changed, gate, intent, slot,
                         permit, update, authority, ui, frame, repaint, ideal, legacy, changes,
                         restarts, failures>>
          /\ pc' = "call" /\ call' = [kind |-> "reconcile", reply |-> None]
      BY <1>11, Zenon DEF reconciliation, Await, commands, window, bounds
    <2>2. call' \in [kind: Calls, reply: VersionedCoreSnapshot \cup {None}]
      BY <2>1 DEF Calls
    <2>3. TypeOK'
      BY <1>t, <2>1, <2>2, TypesKept, Zenon DEF TypeOK, ClientTypes
    <2>4. InFlightCost' = 0
      BY <2>1 DEF InFlightCost, One
    <2> QED
      BY <1>k, <1>t, <2>1, <2>3, <2>4, Zenon DEF TypeOK, ClientTypes
  <1>12. CASE reconcile_reply
    <2>1. call.reply \in VersionedCoreSnapshot
      BY <1>12, <1>t, Parts, Zenon DEF reconcile_reply, Answered
    <2>2. CASE revision_decision(call.reply) = "Reconcile"
      <3>1. Disconnect /\ failures' = failures
        BY <1>12, <2>2, Zenon DEF reconcile_reply
      <3> QED
        BY <1>t, <3>1, DisconnectIsCounted, Zenon DEF TypeOK, BoundTypes
    <2>3. CASE revision_decision(call.reply) # "Reconcile"
      <3>1. /\ apply_versioned(call.reply) /\ pc' = "loop" /\ call' = NoCall
            /\ UNCHANGED <<core, stopwatch, unseen, signals, owner_changed, slot, permit,
                           authority, ui, frame, ideal, legacy, changes, restarts, failures>>
        BY <1>12, <2>3, Zenon DEF reconcile_reply, commands, window, bounds
      <3>2. SignalsFit'
        BY <1>t, <3>1, TypesKept, Zenon DEF TypeOK
      <3> QED
        BY <1>v, <2>1, <3>1, <3>2, Zenon
    <2> QED
      BY <2>2, <2>3, Zenon
  <1>13. CASE owner_stream_error
    BY <1>13, <1>t, DisconnectIsCounted, Zenon DEF owner_stream_error, TypeOK, BoundTypes
  <1>14. CASE connection_fails
    <2>1. Disconnect /\ failures' = failures + 1 /\ failures < MaxFailures
      BY <1>14, Zenon DEF connection_fails
    <2>2. failures' \in 0..MaxFailures
      BY <1>t, <2>1, SyncAssumption DEF TypeOK, BoundTypes
    <2> QED
      BY <1>t, <2>1, <2>2, DisconnectIsCounted, Zenon
  <1>15. CASE drop_client
    <2>1. /\ pc' = "ended" /\ call' = NoCall /\ authority' = FALSE
          /\ repaint' = (repaint \/ authority # FALSE)
          /\ UNCHANGED <<core, stopwatch, unseen, signals, gate, intent, owner_changed, slot,
                         permit, update, ui, frame, ideal, legacy, changes, restarts, failures>>
      BY <1>15, Zenon DEF drop_client, set_authority, commands, window, bounds
    <2>2. call' \in [kind: Calls, reply: VersionedCoreSnapshot \cup {None}]
      BY <2>1 DEF NoCall, Calls
    <2>3. TypeOK'
      BY <1>t, <2>1, <2>2, TypesKept, Zenon DEF TypeOK, ClientTypes, ChannelTypes
    <2>4. InFlightCost' = 0
      BY <2>1 DEF InFlightCost, One
    <2> QED
      BY <1>k, <1>t, <2>1, <2>3, <2>4, Zenon DEF TypeOK, ClientTypes
  \* The UI thread's steps that send no command.
  <1>u. ASSUME UNCHANGED <<core, stopwatch, unseen, signals, pc, call, gate, intent,
                           owner_changed, slot, permit, authority, ideal, legacy, changes,
                           restarts, failures>>,
               update' \in {update, None}, repaint' \in {repaint, FALSE}, frame' \in BOOLEAN,
               ui' \in [snapshot: VersionedCoreSnapshot, passive_pending: BOOLEAN,
                        authority: BOOLEAN, passthrough: BOOLEAN]
        PROVE  TypeOK' /\ RevisionsAreCounted'
    <2>1. ChannelTypes' /\ WindowTypes'
      BY <1>t, <1>u, Zenon DEF TypeOK, ChannelTypes, WindowTypes
    <2>2. TypeOK'
      BY <1>t, <1>u, <2>1, TypesKept, Zenon DEF TypeOK
    <2> QED
      BY <1>k, <1>t, <1>u, <2>2, Zenon DEF TypeOK, ClientTypes
  <1>16. CASE apply_snapshot
    <2>1. /\ UNCHANGED <<core, stopwatch, unseen, signals, pc, call, gate, intent, owner_changed,
                         slot, permit, authority, ideal, legacy, changes, restarts, failures>>
          /\ update' = None /\ repaint' = FALSE /\ frame' = TRUE
      BY <1>16, Zenon DEF apply_snapshot, client, commands, bounds
    <2>2. \/ ui' = ui
          \/ /\ update # None
             /\ ui' = [ui EXCEPT !.passive_pending = FALSE, !.snapshot = update.snapshot,
                                 !.passthrough = Passthrough(ui.snapshot, ui.authority,
                                                             update.snapshot, ui.authority)]
      BY <1>16, Zenon DEF apply_snapshot
    <2>3. Passthrough(ui.snapshot, ui.authority, update.snapshot, ui.authority) \in BOOLEAN
      BY <1>t, Parts, Zenon DEF Passthrough, mouse_passthrough
    <2>4. ui' \in [snapshot: VersionedCoreSnapshot, passive_pending: BOOLEAN,
                    authority: BOOLEAN, passthrough: BOOLEAN]
      <3>1. CASE ui' = ui
        BY <1>t, <3>1, Zenon DEF TypeOK, WindowTypes
      <3>2. CASE ui' # ui
        BY <1>t, <2>2, <2>3, <3>2, Parts, Zenon DEF TypeOK, WindowTypes
      <3> QED
        BY <3>1, <3>2, Zenon
    <2> QED
      BY <1>u, <2>1, <2>4, Zenon
  <1>17. CASE sync_core_authority
    <2>1. /\ UNCHANGED <<core, stopwatch, unseen, signals, pc, call, gate, intent, owner_changed,
                         slot, permit, authority, ideal, legacy, changes, restarts, failures>>
          /\ update' = update /\ repaint' = repaint /\ frame' = FALSE
          /\ ui' = [ui EXCEPT !.authority = authority,
                              !.passthrough = Passthrough(ui.snapshot, ui.authority,
                                                          ui.snapshot, authority)]
      BY <1>17, Zenon DEF sync_core_authority, client, commands, bounds
    <2>2. Passthrough(ui.snapshot, ui.authority, ui.snapshot, authority) \in BOOLEAN
      BY <1>t, Parts, Zenon DEF Passthrough, mouse_passthrough
    <2>3. ui' \in [snapshot: VersionedCoreSnapshot, passive_pending: BOOLEAN,
                    authority: BOOLEAN, passthrough: BOOLEAN]
      BY <1>t, <2>1, <2>2, Zenon DEF TypeOK, WindowTypes, ChannelTypes
    <2> QED
      BY <1>u, <2>1, <2>3, Zenon
  <1>18. CASE request_passive
    <2>1. /\ UNCHANGED <<core, stopwatch, unseen, signals, pc, call, gate, intent, owner_changed,
                         update, authority, frame, repaint, ideal, legacy, changes, restarts,
                         failures>>
          /\ ui' = [ui EXCEPT !.passive_pending = TRUE, !.passthrough = TRUE]
          /\ slot' = [slot EXCEPT !.set_passive = TRUE] /\ permit' = TRUE
      BY <1>18, Zenon DEF request_passive, client, bounds
    <2>2. /\ slot' \in [set_passive: BOOLEAN, actions: PendingWidgetActions]
          /\ slot'.actions = slot.actions
      BY <1>t, <2>1, Zenon DEF TypeOK, ChannelTypes
    <2>3. WindowTypes'
      BY <1>t, <2>1, Zenon DEF TypeOK, WindowTypes
    <2>4. TypeOK'
      BY <1>t, <2>1, <2>2, <2>3, TypesKept, Zenon DEF TypeOK, ChannelTypes
    <2> QED
      BY <1>k, <1>t, <2>1, <2>2, <2>4, Zenon DEF TypeOK, ClientTypes
  <1>19. ASSUME NEW command \in Commands \ {"SetPassive"}, widget_command(command)
         PROVE  TypeOK' /\ RevisionsAreCounted'
    <2>1. /\ UNCHANGED <<core, stopwatch, unseen, signals, pc, call, gate, intent, owner_changed,
                         update, authority, ui, frame, repaint, legacy, restarts, failures>>
          /\ changes < MaxChanges /\ changes' = changes + 1 /\ permit' = TRUE
          /\ slot' = [slot EXCEPT !.actions = Push(@, command)]
      BY <1>19, Zenon DEF widget_command, client, window
    <2>2. command \in {"Reload", "Reset", "Toggle"}
      BY SyncAssumption, Zenon
    <2>3. ideal' \in ManualStopwatch
      <3>1. ideal \in ManualStopwatch
        BY <1>t, Zenon DEF TypeOK, CoreTypes
      <3> QED
        BY <1>19, <2>2, <3>1, ApplyTypes, Zenon DEF widget_command
    <2>4. /\ Push(slot.actions, command) \in PendingWidgetActions
          /\ Cost(Push(slot.actions, command)) <= Cost(slot.actions) + 1
      BY <1>t, <2>2, Parts, ActionTypes, Costs, Zenon
    <2>5. /\ slot' \in [set_passive: BOOLEAN, actions: PendingWidgetActions]
          /\ slot'.actions = Push(slot.actions, command)
      BY <1>t, <2>1, <2>4 DEF TypeOK, ChannelTypes
    <2>6. /\ changes \in Nat /\ changes' \in 0..MaxChanges /\ core.rev \in Nat
          /\ Cost(slot'.actions) \in Nat /\ One(~Passive(core)) \in Nat
      BY <1>t, <2>1, <2>4, <2>5, SyncAssumption, Parts, Costs DEF TypeOK, BoundTypes, One
    <2>7. TypeOK'
      BY <1>t, <2>1, <2>3, <2>5, <2>6, TypesKept, Zenon
         DEF TypeOK, CoreTypes, ChannelTypes, BoundTypes
    <2>8. /\ InFlightCost' = InFlightCost /\ core' = core /\ intent' = intent
          /\ restarts' = restarts /\ One(~Passive(core))' = One(~Passive(core))
      BY <2>1, Zenon DEF InFlightCost, One, Passive
    <2>9. RevisionsAreCounted'
      BY <1>c, <1>t, <2>1, <2>4, <2>5, <2>6, <2>8 DEF RevisionsAreCounted
    <2> QED
      BY <2>7, <2>9, Zenon
  <1>20. CASE UNCHANGED vars
    <2>1. UNCHANGED <<core, stopwatch, unseen, signals, pc, call, gate, intent, owner_changed,
                      slot, permit, update, authority, ui, frame, repaint, ideal, legacy,
                      changes, restarts, failures>>
      BY <1>20, Zenon DEF vars, client, commands, window, bounds
    <2> QED
      BY <1>t, <1>u, <2>1, Zenon DEF TypeOK, WindowTypes
  <1> QED
    BY <1>1, <1>2, <1>3, <1>4, <1>5, <1>6, <1>7, <1>8, <1>9, <1>10, <1>11, <1>12, <1>13, <1>14,
       <1>15, <1>16, <1>17, <1>18, <1>19, <1>20, Zenon DEF Next, ClientStep

-----------------------------------------------------------------------------
\* The order of snapshots

\* NotNewer is a preorder.
LEMMA OrderFacts ==
    ASSUME NEW a \in VersionedCoreSnapshot, NEW b \in VersionedCoreSnapshot,
           NEW c \in VersionedCoreSnapshot
    PROVE  NotNewer(a, a) /\ (NotNewer(a, b) /\ NotNewer(b, c) => NotNewer(a, c))
  <1>1. /\ a.gen \in Nat /\ b.gen \in Nat /\ c.gen \in Nat
        /\ a.rev \in Nat /\ b.rev \in Nat /\ c.rev \in Nat
    BY DEF VersionedCoreSnapshot
  <1> QED
    BY <1>1 DEF NotNewer

\* A snapshot that waits in the client's stream is well formed.
LEMMA SignalTypes ==
    ASSUME TypeOK
    PROVE  /\ \A i \in DOMAIN signals : signals[i] \in VersionedCoreSnapshot
           /\ gate # None => gate \in VersionedCoreSnapshot
           /\ call.reply # None => call.reply \in VersionedCoreSnapshot
           /\ core \in VersionedCoreSnapshot /\ ui.snapshot \in VersionedCoreSnapshot
           /\ update # None => update.snapshot \in VersionedCoreSnapshot
  <1>1. \A i \in DOMAIN signals : signals[i] \in VersionedCoreSnapshot
    BY DEF TypeOK, SignalsFit
  <1> QED
    BY <1>1, Parts, Zenon DEF TypeOK, CoreTypes, ClientTypes

\* Core moves on: what was publishable still is, and Core's new snapshot is.
LEMMA CoreMovesOn ==
    ASSUME TypeOK, TypeOK', Ordered, NotNewer(core, core'),
           UNCHANGED <<ui, update, gate, signals, pc>>,
           call' = call \/ call'.reply = core'
    PROVE  Ordered'
  <1>t. /\ core \in VersionedCoreSnapshot /\ core' \in VersionedCoreSnapshot
        /\ ui.snapshot \in VersionedCoreSnapshot
    BY SignalTypes, Zenon DEF TypeOK, CoreTypes
  <1>1. \A s \in VersionedCoreSnapshot : NotNewer(s, core) => NotNewer(s, core')
    BY <1>t, OrderFacts, Zenon
  <1>2. \A s \in VersionedCoreSnapshot : Publishable(s) =>
            /\ NotNewer(ui'.snapshot, s) /\ NotNewer(s, core')
            /\ update' # None => NotNewer(update'.snapshot, s)
    BY <1>1, Zenon DEF Publishable
  <1>3. /\ NotNewer(ui'.snapshot, core') /\ NotNewer(core', core')
        /\ update' # None => NotNewer(update'.snapshot, core')
    BY <1>1, <1>t, OrderFacts, SignalTypes, Zenon DEF Ordered, Publishable
  <1>4. update' # None => NotNewer(ui'.snapshot, update'.snapshot)
    BY Zenon DEF Ordered
  <1>5. pc' = "call" /\ call'.reply # None => Publishable(call.reply)'
    BY <1>2, <1>3, SignalTypes, Zenon DEF Ordered, Publishable
  <1>6. gate' # None => Publishable(gate)'
    BY <1>2, SignalTypes, Zenon DEF Ordered, Publishable
  <1>7. \A i \in DOMAIN signals' : NotNewer(signals'[i], core')
    BY <1>1, SignalTypes, Zenon DEF Ordered
  <1> QED
    BY <1>3, <1>4, <1>5, <1>6, <1>7, Zenon DEF Ordered, Publishable

\* The client publishes nothing, and the UI takes nothing.
LEMMA NothingPublished ==
    ASSUME Ordered, UNCHANGED <<core, update>>, ui'.snapshot = ui.snapshot,
           gate' \in {gate, None},
           pc' = "call" => (pc = "call" /\ call' = call) \/ call'.reply = None,
           \A i \in DOMAIN signals' : NotNewer(signals'[i], core)
    PROVE  Ordered'
  <1>1. \A s : Publishable(s) =>
            /\ NotNewer(ui'.snapshot, s) /\ NotNewer(s, core')
            /\ update' # None => NotNewer(update'.snapshot, s)
    BY Zenon DEF Publishable
  <1>2. Publishable(core)'
    BY <1>1, Zenon DEF Ordered, Publishable
  <1>3. update' # None => NotNewer(ui'.snapshot, update'.snapshot)
    BY Zenon DEF Ordered
  <1>4. pc' = "call" /\ call'.reply # None => Publishable(call.reply)'
    BY <1>1, Zenon DEF Ordered, Publishable
  <1>5. gate' # None => Publishable(gate)'
    BY <1>1, Zenon DEF Ordered, Publishable
  <1> QED
    BY <1>2, <1>3, <1>4, <1>5, Zenon DEF Ordered

\* The client publishes a snapshot that may be shown.
LEMMA Published ==
    ASSUME TypeOK, Ordered, NEW s \in VersionedCoreSnapshot, Publishable(s), publish(s),
           UNCHANGED <<core, ui>>, gate' \in {None, s},
           pc' = "call" => call'.reply = None,
           \A i \in DOMAIN signals' : NotNewer(signals'[i], core)
    PROVE  Ordered'
  <1>1. update' # None /\ update'.snapshot = s
    BY PublishFacts, Zenon
  <1>2. NotNewer(s, s) /\ NotNewer(s, core) /\ NotNewer(ui.snapshot, s)
    BY OrderFacts, Zenon DEF Publishable
  <1>3. Publishable(core)'
    BY <1>1, <1>2, Zenon DEF Ordered, Publishable
  <1>4. gate' # None => Publishable(gate)'
    BY <1>1, <1>2, Zenon DEF Publishable
  <1> QED
    BY <1>1, <1>2, <1>3, <1>4, Zenon DEF Ordered

\* The UI takes the snapshot in the channel.
LEMMA Shown ==
    ASSUME Ordered, UNCHANGED <<core, gate, pc, call, signals>>, update' = None,
           ui'.snapshot = ui.snapshot \/ (update # None /\ ui'.snapshot = update.snapshot)
    PROVE  Ordered'
  <1>1. \A s : Publishable(s) =>
            /\ NotNewer(ui'.snapshot, s) /\ NotNewer(s, core')
            /\ update' # None => NotNewer(update'.snapshot, s)
    BY Zenon DEF Publishable
  <1>2. Publishable(core)'
    BY <1>1, Zenon DEF Ordered, Publishable
  <1>3. pc' = "call" /\ call'.reply # None => Publishable(call.reply)'
    BY <1>1, Zenon DEF Ordered, Publishable
  <1>4. gate' # None => Publishable(gate)'
    BY <1>1, Zenon DEF Ordered, Publishable
  <1> QED
    BY <1>2, <1>3, <1>4, Zenon DEF Ordered

\* RevisionGate compares revisions alone, which is enough among snapshots of one Core.
LEMMA AppliedIsNewer ==
    ASSUME TypeOK, Ordered, NEW event \in VersionedCoreSnapshot, gate # None,
           event.gen = gate.gen, NotNewer(event, core), revision_decision(event) = "Apply"
    PROVE  Publishable(event)
  <1>1. gate \in VersionedCoreSnapshot /\ ui.snapshot \in VersionedCoreSnapshot
        /\ (update # None => update.snapshot \in VersionedCoreSnapshot)
    BY SignalTypes, Zenon
  <1>2. event.rev > gate.rev
    <2>1. event.rev \in Nat /\ gate.rev \in Nat
      BY <1>1 DEF VersionedCoreSnapshot
    <2>2. CASE event.rev < gate.rev
      <3>1. ~(event.rev > gate.rev) /\ event.rev # gate.rev
        BY <2>1, <2>2
      <3>2. revision_decision(event) = "Ignore"
        BY <2>2, <3>1, Zenon DEF revision_decision
      <3> QED
        BY <3>2, Zenon
    <2>3. CASE event.rev = gate.rev
      <3>1. ~(event.rev > gate.rev) /\ ~(event.rev < gate.rev)
        BY <2>1, <2>3
      <3>2. revision_decision(event) \in {"Ignore", "Reconcile"}
        BY <2>3, <3>1, Zenon DEF revision_decision
      <3> QED
        BY <3>2, Zenon
    <2> QED
      BY <2>1, <2>2, <2>3
  <1>3. NotNewer(gate, event)
    BY <1>1, <1>2 DEF NotNewer, VersionedCoreSnapshot
  <1>4. Publishable(gate)
    BY Zenon DEF Ordered
  <1> QED
    BY <1>1, <1>3, <1>4, OrderFacts, Zenon DEF Publishable

\* A snapshot of the running Core that arrives within a versioned connection keeps the order.
LEMMA VersionedKeepsOrder ==
    ASSUME SyncInv, NEW event \in VersionedCoreSnapshot, apply_versioned(event),
           pc \in {"call", "loop"}, ~legacy, ~owner_changed, gate # None,
           event.gen = core.gen, NotNewer(event, core),
           UNCHANGED <<core, owner_changed, authority, ui, legacy>>,
           pc' = "loop",
           \A i \in DOMAIN signals' : NotNewer(signals'[i], core) /\ signals'[i].gen = core.gen
    PROVE  Ordered' /\ SameCore' /\ Connected'
  <1>t. TypeOK /\ Ordered /\ SameCore /\ Connected
    BY Zenon DEF SyncInv
  <1>1. gate.gen = core.gen
    BY <1>t, Zenon DEF SameCore
  <1>2. CASE revision_decision(event) = "Apply"
    <2>1. gate' = event /\ publish(event)
      BY <1>2, Zenon DEF apply_versioned
    <2>2. Publishable(event) /\ event # None
      BY <1>1, <1>2, <1>t, AppliedIsNewer, NoneAssumption, Zenon
    <2>3. Ordered'
      BY <1>t, <2>1, <2>2, Published, Zenon
    <2>4. SameCore'
      BY <2>1, Zenon DEF SameCore
    <2>5. Connected'
      BY <2>1, <2>2, Zenon DEF Connected
    <2> QED
      BY <2>3, <2>4, <2>5, Zenon
  <1>3. CASE revision_decision(event) # "Apply"
    <2>1. UNCHANGED <<gate, update>>
      BY <1>3, Zenon DEF apply_versioned
    <2>2. Ordered'
      BY <1>t, <2>1, NothingPublished, Zenon
    <2>3. SameCore'
      BY <1>1, <2>1, Zenon DEF SameCore
    <2>4. Connected'
      BY <2>1, Zenon DEF Connected
    <2> QED
      BY <2>2, <2>3, <2>4, Zenon
  <1> QED
    BY <1>2, <1>3, Zenon

\* A dispatch that publishes nothing keeps the order.
LEMMA MovedKeepsOrder ==
    ASSUME SyncInv, NEW i, Moved(i),
           UNCHANGED <<core, signals, owner_changed, ui, update, gate, authority, legacy>>,
           pc \in {"call", "loop"}, legacy \/ gate # None
    PROVE  Ordered' /\ SameCore' /\ Connected'
  <1>t. Ordered /\ SameCore /\ Connected
    BY Zenon DEF SyncInv
  <1>1. /\ pc' \in {"call", "loop"} /\ call'.reply = None
        /\ call'.kind \notin {"baseline", "reconcile"}
        /\ pc' = "call" /\ call'.kind = "snapshot" => legacy
    BY DEF Moved
  <1>2. Ordered'
    BY <1>1, <1>t, NothingPublished, Zenon DEF Ordered
  <1>3. SameCore'
    BY <1>1, <1>t, Zenon DEF SameCore
  <1>4. Connected'
    BY <1>1, <1>t, Zenon DEF Connected
  <1> QED
    BY <1>2, <1>3, <1>4, Zenon

\* So does a connection that ends.
LEMMA DisconnectKeepsOrder ==
    ASSUME SyncInv, Disconnect
    PROVE  Ordered' /\ SameCore' /\ Connected'
  <1>1. /\ pc' = "idle" /\ gate' = None /\ signals' = <<>> /\ authority' = FALSE
        /\ UNCHANGED <<core, update, ui>>
    BY Zenon DEF Disconnect, set_authority, window
  <1>2. \A i \in DOMAIN signals' : NotNewer(signals'[i], core)
    BY <1>1
  <1> QED
    BY <1>1, <1>2, NothingPublished, Zenon DEF SyncInv, SameCore, Connected

\* Every step keeps the order of snapshots and what a connection holds.
LEMMA OrderedStep == SyncInv /\ [Next]_vars => Ordered' /\ SameCore' /\ Connected'
  <1> SUFFICES ASSUME SyncInv, [Next]_vars PROVE Ordered' /\ SameCore' /\ Connected'
    BY Zenon
  <1>t. TypeOK /\ RevisionsAreCounted /\ Ordered /\ SameCore /\ Connected
    BY Zenon DEF SyncInv
  <1>p. TypeOK'
    BY CountedStep, Zenon
  <1>s. \A i \in DOMAIN signals : NotNewer(signals[i], core)
    BY <1>t, Zenon DEF Ordered
  <1>1. ASSUME NEW view \in Views, core_changes(view) PROVE Ordered' /\ SameCore' /\ Connected'
    <2>1. UNCHANGED <<ui, update, gate, signals, pc, call, owner_changed, authority, legacy>>
      BY <1>1, Zenon DEF core_changes, client, window
    <2>2. core'.gen = core.gen /\ NotNewer(core, core')
      BY <1>1, <1>t, Parts DEF core_changes, TypeOK, CoreTypes, VersionedCoreSnapshot, NotNewer
    <2>3. Ordered'
      BY <1>p, <1>t, <2>1, <2>2, CoreMovesOn, Zenon
    <2>4. SameCore'
      BY <1>t, <2>1, <2>2, Zenon DEF SameCore
    <2>5. Connected'
      BY <1>t, <2>1, Zenon DEF Connected
    <2> QED
      BY <2>3, <2>4, <2>5, Zenon
  <1>2. CASE core_restarts
    <2>1. /\ UNCHANGED <<ui, update, gate, signals, pc, call, authority, legacy>>
          /\ owner_changed' = \/ pc \in {"call", "loop"} /\ ~legacy
                              \/ pc = "call" /\ call.kind = "baseline"
      BY <1>2, Zenon DEF core_restarts, window
    <2>2. NotNewer(core, core')
      BY <1>2, <1>t, Parts DEF core_restarts, NotNewer
    <2>3. Ordered'
      BY <1>p, <1>t, <2>1, <2>2, CoreMovesOn, Zenon
    <2>4. SameCore'
      BY <2>1, Zenon DEF SameCore
    <2>5. Connected'
      BY <1>t, <2>1, Zenon DEF Connected
    <2> QED
      BY <2>3, <2>4, <2>5, Zenon
  <1>3. CASE run_snapshot_signal_publisher
    <2>1. /\ UNCHANGED <<core, pc, call, gate, owner_changed, update, authority, ui, legacy>>
          /\ signals' = signals \/ (signals' = Append(signals, core) /\ ~legacy)
      BY <1>3, Zenon DEF run_snapshot_signal_publisher, client, window
    <2>2. \A i \in DOMAIN signals' :
              (i \in DOMAIN signals /\ signals'[i] = signals[i]) \/ signals'[i] = core
      <3>1. signals \in Seq(VersionedCoreSnapshot)
        BY <1>t, Zenon DEF TypeOK, SignalsFit
      <3> QED
        BY <2>1, <3>1
    <2>3. NotNewer(core, core)
      BY <1>t, OrderFacts, Zenon DEF TypeOK, CoreTypes
    <2>4. Ordered'
      BY <1>s, <1>t, <2>1, <2>2, <2>3, NothingPublished, Zenon
    <2>5. SameCore'
      BY <1>t, <2>1, <2>2, Zenon DEF SameCore
    <2>6. Connected'
      BY <1>t, <2>1, Zenon DEF Connected
    <2> QED
      BY <2>4, <2>5, <2>6, Zenon
  <1>4. CASE core_executes
    <2>1. /\ UNCHANGED <<ui, update, gate, signals, pc, owner_changed, authority, legacy>>
          /\ pc = "call"
      BY <1>4, Zenon DEF core_executes, window, bounds
    <2>2. /\ call'.kind = call.kind /\ call'.reply = core'
          /\ core'.gen = core.gen /\ core.rev <= core'.rev
      BY <1>4, <1>t, ExecutionIsCounted, Zenon
    <2>3. NotNewer(core, core')
      BY <2>2, Zenon DEF NotNewer
    <2>4. Ordered'
      BY <1>p, <1>t, <2>1, <2>2, <2>3, CoreMovesOn, Zenon
    <2>5. SameCore'
      BY <1>t, <2>1, <2>2, Zenon DEF SameCore
    <2>6. Connected'
      BY <1>t, <2>1, <2>2, Zenon DEF Connected
    <2> QED
      BY <2>4, <2>5, <2>6, Zenon
  <1>5. CASE connect
    <2>1. /\ UNCHANGED <<core, update, ui, authority, legacy>> /\ pc = "idle"
          /\ pc' = "call" /\ call' = [kind |-> "baseline", reply |-> None]
          /\ signals' = <<>> /\ gate' = None
      BY <1>5, Zenon DEF connect, Await, window, bounds
    <2>2. call'.kind = "baseline" /\ call'.reply = None
      BY <2>1, Zenon
    <2>3. DOMAIN signals' = {}
      BY <2>1
    <2>4. Ordered'
      BY <1>t, <2>1, <2>2, <2>3, NothingPublished, Zenon
    <2>5. SameCore'
      BY <2>1, <2>2, <2>3, Zenon DEF SameCore
    <2>6. Connected'
      BY <1>t, <2>1, <2>2, Zenon DEF Connected
    <2> QED
      BY <2>4, <2>5, <2>6, Zenon
  <1>6. CASE connection_cycle_baseline
    <2> DEFINE p == IF legacy THEN intent.pending ELSE intent.pending /\ ~Passive(call.reply)
    <2>1. /\ UNCHANGED <<core, signals, owner_changed, ui, legacy>>
          /\ Dispatch(Absorbed(p)) /\ pc = "call" /\ call.reply # None /\ ~owner_changed
      BY <1>6, Zenon DEF connection_cycle_baseline, Answered, window, bounds
    <2>2. p \in BOOLEAN
      BY <1>t, Parts, Zenon
    <2> HIDE DEF p
    <2>3. Moved(Absorbed(p))
      BY <1>t, <2>1, <2>2, AbsorbedFacts, DispatchMoves, Zenon
    <2>4. CASE legacy
      BY <1>6, <2>1, <2>3, <2>4, MovedKeepsOrder, Zenon DEF connection_cycle_baseline
    <2>5. CASE ~legacy
      <3>1. gate' = call.reply /\ publish(call.reply) /\ authority' = TRUE
        BY <1>6, <2>5, Zenon DEF connection_cycle_baseline
      <3>2. /\ call.reply \in VersionedCoreSnapshot /\ Publishable(call.reply)
            /\ call.reply.gen = core.gen
        BY <1>t, <2>1, <2>5, SignalTypes, Zenon DEF Ordered, SameCore
      <3>3. /\ pc' \in {"call", "loop"} /\ call'.reply = None
            /\ call'.kind \notin {"baseline", "reconcile"}
            /\ pc' = "call" /\ call'.kind = "snapshot" => legacy
        BY <2>3 DEF Moved
      <3>4. Ordered'
        BY <1>s, <1>t, <2>1, <3>1, <3>2, <3>3, Published, Zenon
      <3>5. SameCore'
        BY <1>t, <2>1, <2>5, <3>1, <3>2, <3>3, Zenon DEF SameCore
      <3>6. Connected'
        BY <2>1, <2>5, <3>1, <3>3, Zenon DEF Connected
      <3> QED
        BY <3>4, <3>5, <3>6, Zenon
    <2> QED
      BY <2>4, <2>5, Zenon
  <1>7. CASE dispatch_commands
    <2> DEFINE i == IF legacy THEN [intent EXCEPT !.pending =
                                       @ /\ ~(call.kind = "passive" /\ Passive(call.reply))]
                    ELSE intent
    <2>1. /\ UNCHANGED <<core, signals, owner_changed, gate, authority, ui, legacy>>
          /\ pc = "call" /\ call.reply # None /\ call.kind # "baseline" /\ Proceed(i)
          /\ IF legacy THEN publish(call.reply) ELSE UNCHANGED <<update, repaint>>
      BY <1>7, Zenon DEF dispatch_commands, Answered, window, bounds
    <2>2. i \in PassiveIntent
      BY <1>t, Zenon DEF TypeOK, ClientTypes, PassiveIntent
    <2> HIDE DEF i
    <2>3. Moved(i)
      BY <2>1, <2>2, ProceedMoves, Zenon
    <2>4. CASE ~legacy
      <3>1. gate # None
        BY <1>t, <2>1, <2>4, Zenon DEF Connected
      <3> QED
        BY <2>1, <2>3, <2>4, <3>1, MovedKeepsOrder, Zenon
    <2>5. CASE legacy
      <3>1. publish(call.reply) /\ gate' = None /\ legacy' = legacy
        BY <1>t, <2>1, <2>5, Zenon DEF Connected
      <3>2. call.reply \in VersionedCoreSnapshot /\ Publishable(call.reply)
        BY <1>t, <2>1, SignalTypes, Zenon DEF Ordered
      <3>3. /\ pc' \in {"call", "loop"} /\ call'.reply = None
            /\ call'.kind \notin {"baseline", "reconcile"}
        BY <2>3 DEF Moved
      <3>4. Ordered'
        BY <1>s, <1>t, <2>1, <3>1, <3>2, <3>3, Published, Zenon
      <3>5. signals' = <<>> /\ legacy' = legacy
        BY <1>t, <2>1, <2>5, Zenon DEF Connected
      <3>6. SameCore' /\ Connected'
        <4>1. SameCore'
          BY <2>5, <3>5, Zenon DEF SameCore
        <4>2. Connected'
          <5>1. legacy' /\ gate' = None
            BY <2>5, <3>1, Zenon
          <5> QED
            BY <3>3, <3>5, <5>1, Zenon DEF Connected
        <4> QED
          BY <4>1, <4>2, Zenon
      <3> QED
        BY <3>4, <3>6, Zenon
    <2> QED
      BY <2>4, <2>5, Zenon
  <1>8. CASE legacy_snapshot
    <2>1. /\ UNCHANGED <<core, signals, owner_changed, gate, ui, legacy>>
          /\ pc = "call" /\ call.reply # None /\ call.kind = "snapshot" /\ publish(call.reply)
          /\ pc' = "loop"
      BY <1>8, Zenon DEF legacy_snapshot, Answered, window, bounds
    <2>2. legacy /\ gate = None
      BY <1>t, <2>1, Zenon DEF Connected
    <2>3. call.reply \in VersionedCoreSnapshot /\ Publishable(call.reply)
      BY <1>t, <2>1, SignalTypes, Zenon DEF Ordered
    <2>4. Ordered'
      BY <1>s, <1>t, <2>1, <2>2, <2>3, Published, Zenon
    <2>5. SameCore' /\ Connected'
      BY <1>t, <2>1, <2>2, Zenon DEF SameCore, Connected
    <2> QED
      BY <2>4, <2>5, Zenon
  <1>9. CASE legacy_poll \/ commands_notified
    <2>1. /\ UNCHANGED <<core, signals, owner_changed, gate, update, authority, ui, legacy>>
          /\ pc = "loop" /\ Dispatch(Absorbed(intent.pending))
      BY <1>9, Zenon DEF legacy_poll, commands_notified, window, bounds
    <2>2. Moved(Absorbed(intent.pending))
      BY <1>t, <2>1, Parts, AbsorbedFacts, DispatchMoves, Zenon
    <2>3. legacy \/ gate # None
      BY <1>t, <2>1, Zenon DEF Connected
    <2> QED
      BY <2>1, <2>2, <2>3, MovedKeepsOrder, Zenon
  <1>10. CASE handle_signal
    <2>1. /\ pc = "loop" /\ signals # <<>> /\ ~owner_changed /\ apply_versioned(Head(signals))
          /\ signals' = Tail(signals)
          /\ UNCHANGED <<core, owner_changed, pc, authority, ui, legacy>>
      BY <1>10, Zenon DEF handle_signal, window, bounds
    <2>2. ~legacy /\ gate # None
      BY <1>t, <2>1, Zenon DEF Connected
    <2>3. \A i \in DOMAIN signals : NotNewer(signals[i], core) /\ signals[i].gen = core.gen
      BY <1>s, <1>t, <2>1, <2>2, Zenon DEF SameCore
    <2>4. /\ Head(signals) \in VersionedCoreSnapshot
          /\ \E i \in DOMAIN signals : Head(signals) = signals[i]
          /\ \A i \in DOMAIN signals' : \E j \in DOMAIN signals : signals'[i] = signals[j]
      <3>1. signals \in Seq(VersionedCoreSnapshot)
        BY <1>t, Zenon DEF TypeOK, SignalsFit
      <3>2. Head(signals) = signals[1] /\ 1 \in DOMAIN signals
        BY <2>1, <3>1
      <3>3. \A i \in DOMAIN signals' : signals'[i] = signals[i + 1] /\ i + 1 \in DOMAIN signals
        BY <2>1, <3>1
      <3> QED
        BY <1>t, <3>2, <3>3, SignalTypes, Zenon
    <2>5. Head(signals).gen = core.gen /\ NotNewer(Head(signals), core)
      BY <2>3, <2>4, Zenon
    <2>6. \A i \in DOMAIN signals' : NotNewer(signals'[i], core) /\ signals'[i].gen = core.gen
      BY <2>3, <2>4, Zenon
    <2>7. pc \in {"call", "loop"} /\ pc' = "loop"
      BY <2>1, Zenon
    <2> QED
      BY <2>1, <2>2, <2>4, <2>5, <2>6, <2>7, VersionedKeepsOrder, Zenon
  <1>11. CASE reconciliation
    <2>1. /\ UNCHANGED <<core, signals, owner_changed, gate, update, authority, ui, legacy>>
          /\ pc = "loop" /\ ~legacy /\ pc' = "call"
          /\ call' = [kind |-> "reconcile", reply |-> None]
      BY <1>11, Zenon DEF reconciliation, Await, window, bounds
    <2>2. call'.kind = "reconcile" /\ call'.reply = None
      BY <2>1, Zenon
    <2>3. Ordered'
      BY <1>s, <1>t, <2>1, <2>2, NothingPublished, Zenon
    <2>4. SameCore' /\ Connected'
      BY <1>t, <2>1, <2>2, Zenon DEF SameCore, Connected
    <2> QED
      BY <2>3, <2>4, Zenon
  <1>12. CASE reconcile_reply
    <2>1. pc = "call" /\ call.reply # None /\ call.kind = "reconcile" /\ ~owner_changed
      BY <1>12, Zenon DEF reconcile_reply, Answered
    <2>2. ~legacy /\ gate # None
      BY <1>t, <2>1, Zenon DEF Connected
    <2>3. /\ call.reply \in VersionedCoreSnapshot /\ NotNewer(call.reply, core)
          /\ call.reply.gen = core.gen
      BY <1>t, <2>1, <2>2, SignalTypes, Zenon DEF Ordered, Publishable, SameCore
    <2>4. CASE revision_decision(call.reply) = "Reconcile"
      BY <1>12, <2>4, DisconnectKeepsOrder, Zenon DEF reconcile_reply
    <2>5. CASE revision_decision(call.reply) # "Reconcile"
      <3>1. /\ apply_versioned(call.reply) /\ pc' = "loop"
            /\ UNCHANGED <<core, signals, owner_changed, authority, ui, legacy>>
        BY <1>12, <2>5, Zenon DEF reconcile_reply, window, bounds
      <3>2. \A i \in DOMAIN signals' : NotNewer(signals'[i], core) /\ signals'[i].gen = core.gen
        BY <1>s, <1>t, <2>1, <2>2, <3>1, Zenon DEF SameCore
      <3> QED
        BY <2>1, <2>2, <2>3, <3>1, <3>2, VersionedKeepsOrder, Zenon
    <2> QED
      BY <2>4, <2>5, Zenon
  <1>13. CASE owner_stream_error \/ connection_fails
    BY <1>13, DisconnectKeepsOrder, Zenon DEF owner_stream_error, connection_fails
  \* The other steps publish nothing and leave the connection alone or end it.
  <1>14. CASE \/ drop_client \/ sync_core_authority \/ request_passive
              \/ \E command \in Commands \ {"SetPassive"} : widget_command(command)
              \/ UNCHANGED vars
    <2>1. UNCHANGED <<core, signals, gate, owner_changed, update, legacy>>
      BY <1>14, Zenon DEF drop_client, sync_core_authority, request_passive, widget_command,
         vars, client, bounds
    <2>2. \/ UNCHANGED <<pc, call, authority>>
          \/ pc' = "ended" /\ authority' = FALSE
      BY <1>14, Zenon DEF drop_client, set_authority, sync_core_authority, request_passive,
         widget_command, vars, client
    <2>3. ui'.snapshot = ui.snapshot
      <3>1. \/ ui' = ui
            \/ ui' = [ui EXCEPT !.passive_pending = TRUE, !.passthrough = TRUE]
            \/ ui' = [ui EXCEPT !.authority = authority,
                                !.passthrough = Passthrough(ui.snapshot, ui.authority,
                                                            ui.snapshot, authority)]
        BY <1>14, Zenon DEF drop_client, sync_core_authority, request_passive, widget_command,
           vars, window
      <3> QED
        BY <1>t, <3>1, Zenon DEF TypeOK, WindowTypes
    <2>4. Ordered'
      BY <1>s, <1>t, <2>1, <2>2, <2>3, NothingPublished, Zenon
    <2>5. SameCore' /\ Connected'
      <3>1. CASE UNCHANGED <<pc, call, authority>>
        BY <1>t, <2>1, <3>1, Zenon DEF SameCore, Connected
      <3>2. CASE pc' = "ended" /\ authority' = FALSE
        BY <1>t, <2>1, <3>2, Zenon DEF SameCore, Connected
      <3> QED
        BY <2>2, <3>1, <3>2, Zenon
    <2> QED
      BY <2>4, <2>5, Zenon
  <1>15. CASE apply_snapshot
    <2>1. UNCHANGED <<core, gate, pc, call, signals, owner_changed, authority, legacy>>
          /\ update' = None
      BY <1>15, Zenon DEF apply_snapshot, client, bounds
    <2>2. ui'.snapshot = ui.snapshot \/ (update # None /\ ui'.snapshot = update.snapshot)
      <3>1. \/ ui' = ui
            \/ /\ update # None
               /\ ui' = [ui EXCEPT !.passive_pending = FALSE, !.snapshot = update.snapshot,
                                   !.passthrough = Passthrough(ui.snapshot, ui.authority,
                                                               update.snapshot, ui.authority)]
        BY <1>15, Zenon DEF apply_snapshot
      <3> QED
        BY <1>t, <3>1, Zenon DEF TypeOK, WindowTypes
    <2>3. Ordered'
      BY <1>t, <2>1, <2>2, Shown, Zenon
    <2>4. SameCore' /\ Connected'
      BY <1>t, <2>1, Zenon DEF SameCore, Connected
    <2> QED
      BY <2>3, <2>4, Zenon
  <1> QED
    BY <1>1, <1>2, <1>3, <1>4, <1>5, <1>6, <1>7, <1>8, <1>9, <1>10, <1>11, <1>12, <1>13, <1>14,
       <1>15, Zenon DEF Next, ClientStep

-----------------------------------------------------------------------------
\* The overlay and its client are safe

\* The client starts disconnected and the UI knows of no Core.
LEMMA SyncInit ==
    Init => SyncInv /\ InputOnlyWithAuthority /\ ConfirmationIsKept /\ CommandsAddUp
  <1> SUFFICES ASSUME Init
               PROVE  SyncInv /\ InputOnlyWithAuthority /\ ConfirmationIsKept /\ CommandsAddUp
    BY Zenon
  <1>0. /\ unseen = FALSE /\ signals = <<>> /\ owner_changed = FALSE
        /\ pc = "idle" /\ call = NoCall /\ gate = None
        /\ intent = [pending |-> FALSE, actions |-> NoActions]
        /\ slot = EmptySlot /\ permit = FALSE /\ update = None /\ authority = FALSE
        /\ ui = [snapshot |-> Nothing, passive_pending |-> FALSE, authority |-> FALSE,
                 passthrough |-> TRUE]
        /\ frame = FALSE /\ repaint = FALSE /\ legacy \in LegacyCores
        /\ changes = 0 /\ restarts = 0 /\ failures = 0 /\ ideal = stopwatch
    BY Zenon DEF Init
  <1>1. /\ 0 \in 0..MaxRestarts /\ 0 \in 0..MaxRevision /\ 0 \in 0..MaxChanges
        /\ 0 \in 0..MaxFailures
    BY SyncAssumption DEF MaxRevision
  <1>2. /\ core \in VersionedCoreSnapshot /\ core.gen = 0 /\ core.rev = 0
        /\ Nothing \in VersionedCoreSnapshot
    BY <1>1 DEF Init, VersionedCoreSnapshot, Nothing, Views
  <1>3. stopwatch \in ManualStopwatch
    <2>1. StoppedStopwatch \in ManualStopwatch
      BY DEF StoppedStopwatch, ManualStopwatch
    <2> QED
      BY <2>1, Zenon DEF Init
  <1>4. SignalsFit /\ DOMAIN signals = {}
    BY <1>0, SyncAssumption DEF SignalsFit
  <1>5. ClientTypes
    BY <1>0, ActionTypes, Zenon DEF ClientTypes, NoCall, Calls, PassiveIntent
  <1>6. ChannelTypes
    BY <1>0, ActionTypes, Zenon DEF ChannelTypes, EmptySlot
  <1>7. WindowTypes
    BY <1>0, <1>2, Zenon DEF WindowTypes
  <1>8. TypeOK
    BY <1>0, <1>1, <1>2, <1>3, <1>4, <1>5, <1>6, <1>7, Zenon DEF TypeOK, CoreTypes, BoundTypes
  <1>9. slot.actions = NoActions /\ intent.actions = NoActions /\ slot.set_passive = FALSE
    BY <1>0, Zenon DEF EmptySlot
  <1>10. RevisionsAreCounted
    <2>1. Cost(slot.actions) = 0 /\ Cost(intent.actions) = 0
      BY <1>9, Costs, Zenon
    <2>2. InFlightCost = 0 /\ One(~Passive(core)) \in 0..1
      BY <1>0 DEF InFlightCost, One
    <2> QED
      BY <1>0, <1>2, <2>1, <2>2 DEF RevisionsAreCounted
  <1>11. ui.snapshot = Nothing /\ ui.passive_pending = FALSE /\ ui.passthrough = TRUE
    BY <1>0, Zenon
  <1>12. NotNewer(ui.snapshot, core) /\ NotNewer(core, core)
    BY <1>2, <1>11 DEF NotNewer, Nothing
  <1>13. Ordered /\ SameCore /\ Connected
    BY <1>0, <1>4, <1>12, Zenon DEF Ordered, Publishable, SameCore, Connected
  <1>14. CommandsAddUp
    <2>1. InFlight(stopwatch) = stopwatch
      BY <1>0, Zenon DEF InFlight
    <2>2. \A sw : ApplyAll(NoActions, sw) = sw
      BY Zenon DEF ApplyAll, NoActions
    <2> QED
      BY <1>0, <1>9, <2>1, <2>2, Zenon DEF CommandsAddUp, Outstanding
  <1> QED
    BY <1>8, <1>10, <1>11, <1>13, <1>14, Zenon
       DEF SyncInv, InputOnlyWithAuthority, ConfirmationIsKept

\* Before the owner stream reports a new owner, a claim of authority is over the running Core.
LEMMA AuthorityFollows == SyncInv => AuthorityIsLive
  BY Zenon DEF SyncInv, Connected, SameCore, AuthorityIsLive

\* The value in force can only be Passthrough's last word: it is recomputed whenever the
\* snapshot or the authority it depends on changes.
LEMMA PassthroughFollows ==
    ASSUME TypeOK, InputOnlyWithAuthority, NEW s, NEW a \in BOOLEAN,
           ~Passthrough(ui.snapshot, ui.authority, s, a)
    PROVE  a /\ ~Passive(s)
  <1>1. ui.authority \in BOOLEAN /\ ui.passthrough \in BOOLEAN
    BY Parts, Zenon
  <1>2. CASE mouse_passthrough(ui.snapshot, ui.authority) # mouse_passthrough(s, a)
    BY <1>1, <1>2, Zenon DEF Passthrough, mouse_passthrough
  <1>3. CASE mouse_passthrough(ui.snapshot, ui.authority) = mouse_passthrough(s, a)
    <2>1. ~ui.passthrough
      BY <1>3, Zenon DEF Passthrough
    <2>2. ui.authority /\ ~Passive(ui.snapshot)
      BY <2>1, Zenon DEF InputOnlyWithAuthority
    <2> QED
      BY <1>3, <2>2, Zenon DEF mouse_passthrough
  <1> QED
    BY <1>2, <1>3, Zenon

\* The overlay takes input only under authority: only the UI thread's steps touch it.
LEMMA InputStep ==
    TypeOK /\ InputOnlyWithAuthority /\ [Next]_vars => InputOnlyWithAuthority'
  <1> SUFFICES ASSUME TypeOK, InputOnlyWithAuthority, [Next]_vars
               PROVE  InputOnlyWithAuthority'
    BY Zenon
  <1>1. CASE apply_snapshot
    <2>1. CASE ui' = ui
      BY <2>1, Zenon DEF InputOnlyWithAuthority
    <2>2. CASE ui' # ui
      <3> DEFINE p == Passthrough(ui.snapshot, ui.authority, update.snapshot, ui.authority)
      <3>1. ui' = [ui EXCEPT !.passive_pending = FALSE, !.snapshot = update.snapshot,
                             !.passthrough = p]
        BY <1>1, <2>2, Zenon DEF apply_snapshot
      <3> HIDE DEF p
      <3>2. /\ ui'.snapshot = update.snapshot /\ ui'.authority = ui.authority
            /\ ui'.passthrough = p
        BY <3>1 DEF TypeOK, WindowTypes
      <3> QED
        BY <3>2, Parts, PassthroughFollows, Zenon DEF InputOnlyWithAuthority, p
    <2> QED
      BY <2>1, <2>2, Zenon
  <1>2. CASE sync_core_authority
    <2> DEFINE p == Passthrough(ui.snapshot, ui.authority, ui.snapshot, authority)
    <2>1. ui' = [ui EXCEPT !.authority = authority, !.passthrough = p]
      BY <1>2, Zenon DEF sync_core_authority
    <2> HIDE DEF p
    <2>2. ui'.snapshot = ui.snapshot /\ ui'.authority = authority /\ ui'.passthrough = p
      BY <2>1 DEF TypeOK, WindowTypes
    <2>3. authority \in BOOLEAN
      BY Zenon DEF TypeOK, ChannelTypes
    <2> QED
      BY <2>2, <2>3, PassthroughFollows, Zenon DEF InputOnlyWithAuthority, p
  <1>3. CASE request_passive
    <2>1. ui' = [ui EXCEPT !.passive_pending = TRUE, !.passthrough = TRUE]
      BY <1>3, Zenon DEF request_passive
    <2>2. ui'.passthrough = TRUE
      BY <2>1 DEF TypeOK, WindowTypes
    <2> QED
      BY <2>2, Zenon DEF InputOnlyWithAuthority
  <1>4. CASE ui' = ui
    BY <1>4, Zenon DEF InputOnlyWithAuthority
  <1>5. CASE \/ core_restarts \/ run_snapshot_signal_publisher \/ core_executes
             \/ \E view \in Views : core_changes(view)
             \/ \E command \in Commands \ {"SetPassive"} : widget_command(command)
             \/ drop_client \/ UNCHANGED vars
    BY <1>4, <1>5, Zenon DEF core_restarts, run_snapshot_signal_publisher, core_executes,
       core_changes, widget_command, drop_client, vars, window
  <1>6. CASE ClientStep \/ connection_fails
    <2>1. ui' = ui
      BY <1>6, Zenon DEF ClientStep, connect, connection_cycle_baseline, dispatch_commands,
         legacy_snapshot, legacy_poll, handle_signal, commands_notified, reconciliation,
         reconcile_reply, owner_stream_error, connection_fails, Disconnect, window
    <2> QED
      BY <1>4, <2>1, Zenon
  <1> QED
    BY <1>1, <1>2, <1>3, <1>5, <1>6, Zenon DEF Next

\* A confirmation that the UI waits for is not lost: a snapshot that ends the client's intent
\* confirms Passive, and publish keeps a confirmation that was not taken.
LEMMA ConfirmationStep == SyncInv /\ ConfirmationIsKept /\ [Next]_vars => ConfirmationIsKept'
  <1> SUFFICES ASSUME SyncInv, ConfirmationIsKept, [Next]_vars PROVE ConfirmationIsKept'
    BY Zenon
  <1>t. TypeOK /\ Connected
    BY Zenon DEF SyncInv
  <1>k. ASSUME UNCHANGED <<ui, update>>, slot'.set_passive = slot.set_passive,
               intent'.pending = intent.pending
        PROVE  ConfirmationIsKept'
    BY <1>k, Zenon DEF ConfirmationIsKept
  \* The client publishes a snapshot, and forgets the intent if it confirms Passive.
  <1>p. ASSUME NEW s \in VersionedCoreSnapshot, publish(s), UNCHANGED ui,
               slot'.set_passive = slot.set_passive,
               intent.pending => intent'.pending \/ Passive(s)
        PROVE  ConfirmationIsKept'
    BY <1>p, <1>t, PublishFacts, Zenon DEF ConfirmationIsKept
  <1>r. call.reply # None => call.reply \in VersionedCoreSnapshot
    BY <1>t, Parts, Zenon
  <1>v. ASSUME NEW event \in VersionedCoreSnapshot, apply_versioned(event), UNCHANGED <<ui, slot>>
        PROVE  ConfirmationIsKept'
    <2>1. CASE revision_decision(event) = "Apply"
      <3>1. publish(event) /\ intent' = [intent EXCEPT !.pending = @ /\ ~Passive(event)]
        BY <1>v, <2>1, Zenon DEF apply_versioned
      <3>2. intent'.pending = (intent.pending /\ ~Passive(event))
        BY <1>t, <3>1 DEF TypeOK, ClientTypes, PassiveIntent
      <3> QED
        BY <1>p, <1>v, <3>1, <3>2, Zenon
    <2>2. CASE revision_decision(event) # "Apply"
      BY <1>k, <1>v, <2>2, Zenon DEF apply_versioned
    <2> QED
      BY <2>1, <2>2, Zenon
  <1>1. CASE connection_cycle_baseline
    <2> DEFINE p == IF legacy THEN intent.pending ELSE intent.pending /\ ~Passive(call.reply)
    <2>1. Dispatch(Absorbed(p)) /\ ui' = ui /\ call.reply # None
      BY <1>1, Zenon DEF connection_cycle_baseline, Answered, window
    <2>2. p \in BOOLEAN
      BY <1>t, Parts, Zenon
    <2>3. p => intent.pending
      BY Zenon
    <2>4. legacy => p = intent.pending
      BY Zenon
    <2>5. ~legacy => p = (intent.pending /\ ~Passive(call.reply))
      BY Zenon
    <2> HIDE DEF p
    <2>6. intent'.pending = (p \/ slot.set_passive)
      BY <1>t, <2>1, <2>2, AbsorbedFacts, DispatchMoves, Zenon DEF Moved
    <2>7. CASE legacy
      <3>1. update' = update
        BY <1>1, <2>7, Zenon DEF connection_cycle_baseline
      <3> QED
        BY <2>1, <2>4, <2>6, <2>7, <3>1, Zenon DEF ConfirmationIsKept
    <2>8. CASE ~legacy
      <3>1. publish(call.reply)
        BY <1>1, <2>8, Zenon DEF connection_cycle_baseline
      <3> QED
        BY <1>r, <1>t, <2>1, <2>5, <2>6, <2>8, <3>1, PublishFacts, Zenon DEF ConfirmationIsKept
    <2> QED
      BY <2>7, <2>8, Zenon
  <1>2. CASE dispatch_commands
    <2> DEFINE i == IF legacy THEN [intent EXCEPT !.pending =
                                       @ /\ ~(call.kind = "passive" /\ Passive(call.reply))]
                    ELSE intent
    <2>1. /\ UNCHANGED <<ui, slot>> /\ call.reply # None /\ Proceed(i)
          /\ IF legacy THEN publish(call.reply) ELSE UNCHANGED <<update, repaint>>
      BY <1>2, Zenon DEF dispatch_commands, Answered, window, commands
    <2>2. /\ i \in PassiveIntent
          /\ intent.pending => i.pending \/ (legacy /\ Passive(call.reply))
          /\ ~legacy => i.pending = intent.pending
      BY <1>t, Zenon DEF TypeOK, ClientTypes, PassiveIntent
    <2> HIDE DEF i
    <2>3. intent'.pending = i.pending
      BY <2>1, <2>2, ProceedMoves, Zenon DEF Moved
    <2>4. CASE legacy
      BY <1>p, <1>r, <2>1, <2>2, <2>3, <2>4, Zenon
    <2>5. CASE ~legacy
      BY <1>k, <2>1, <2>2, <2>3, <2>5, Zenon
    <2> QED
      BY <2>4, <2>5, Zenon
  <1>3. CASE legacy_snapshot
    <2>1. /\ UNCHANGED <<ui, slot>> /\ call.reply # None /\ publish(call.reply)
          /\ intent' = [intent EXCEPT !.pending = @ /\ ~Passive(call.reply)]
      BY <1>3, Zenon DEF legacy_snapshot, Answered, window, commands
    <2>2. intent'.pending = (intent.pending /\ ~Passive(call.reply))
      BY <1>t, <2>1 DEF TypeOK, ClientTypes, PassiveIntent
    <2> QED
      BY <1>p, <1>r, <2>1, <2>2, Zenon
  <1>4. CASE legacy_poll \/ commands_notified
    <2>1. Dispatch(Absorbed(intent.pending)) /\ UNCHANGED <<ui, update>>
      BY <1>4, Zenon DEF legacy_poll, commands_notified, window
    <2>2. intent'.pending = (intent.pending \/ slot.set_passive)
      BY <1>t, <2>1, Parts, AbsorbedFacts, DispatchMoves, Zenon DEF Moved
    <2> QED
      BY <2>1, <2>2, Zenon DEF ConfirmationIsKept
  <1>5. CASE handle_signal
    <2>1. signals # <<>> /\ apply_versioned(Head(signals)) /\ UNCHANGED <<ui, slot>>
      BY <1>5, Zenon DEF handle_signal, window, commands
    <2>2. Head(signals) \in VersionedCoreSnapshot
      BY <1>t, <2>1 DEF TypeOK, SignalsFit
    <2> QED
      BY <1>v, <2>1, <2>2, Zenon
  <1>6. CASE reconcile_reply /\ revision_decision(call.reply) # "Reconcile"
    BY <1>6, <1>r, <1>v, Zenon DEF reconcile_reply, Answered, window, commands
  <1>7. CASE apply_snapshot
    <2>1. /\ UNCHANGED <<slot, intent>> /\ update' = None
          /\ IF update = None \/ (ui.passive_pending /\ ~update.passive_confirmed)
             THEN UNCHANGED ui
             ELSE ui' = [ui EXCEPT !.passive_pending = FALSE, !.snapshot = update.snapshot,
                                   !.passthrough = Passthrough(ui.snapshot, ui.authority,
                                                               update.snapshot, ui.authority)]
      BY <1>7, Zenon DEF apply_snapshot, client, commands
    <2>2. CASE update = None \/ (ui.passive_pending /\ ~update.passive_confirmed)
      BY <2>1, <2>2, Zenon DEF ConfirmationIsKept
    <2>3. CASE ~(update = None \/ (ui.passive_pending /\ ~update.passive_confirmed))
      <3>1. ui'.passive_pending = FALSE
        BY <1>t, <2>1, <2>3, Zenon DEF TypeOK, WindowTypes
      <3> QED
        BY <3>1, Zenon DEF ConfirmationIsKept
    <2> QED
      BY <2>2, <2>3, Zenon
  <1>8. CASE sync_core_authority
    <2>1. /\ UNCHANGED <<update, slot, intent>>
          /\ ui' = [ui EXCEPT !.authority = authority,
                              !.passthrough = Passthrough(ui.snapshot, ui.authority,
                                                          ui.snapshot, authority)]
      BY <1>8, Zenon DEF sync_core_authority, client, commands
    <2>2. ui'.passive_pending = ui.passive_pending
      BY <1>t, <2>1 DEF TypeOK, WindowTypes
    <2> QED
      BY <2>1, <2>2, Zenon DEF ConfirmationIsKept
  <1>9. CASE request_passive
    <2>1. slot' = [slot EXCEPT !.set_passive = TRUE]
      BY <1>9, Zenon DEF request_passive
    <2>2. slot'.set_passive = TRUE
      BY <1>t, <2>1 DEF TypeOK, ChannelTypes
    <2> QED
      BY <2>2, Zenon DEF ConfirmationIsKept
  <1>10. ASSUME NEW command, widget_command(command) PROVE ConfirmationIsKept'
    <2>1. UNCHANGED <<ui, update, intent>> /\ slot' = [slot EXCEPT !.actions = Push(@, command)]
      BY <1>10, Zenon DEF widget_command, window, client
    <2>2. slot'.set_passive = slot.set_passive
      BY <1>t, <2>1 DEF TypeOK, ChannelTypes
    <2> QED
      BY <1>k, <2>1, <2>2, Zenon
  <1>11. CASE \/ core_restarts \/ run_snapshot_signal_publisher \/ core_executes
              \/ \E view \in Views : core_changes(view)
              \/ drop_client \/ connect \/ reconciliation \/ UNCHANGED vars
    <2>1. UNCHANGED <<ui, update, slot, intent>>
      BY <1>11, Zenon DEF core_restarts, run_snapshot_signal_publisher, core_executes,
         core_changes, drop_client, connect, reconciliation, vars, window, client, commands
    <2> QED
      BY <1>k, <2>1, Zenon
  <1>12. CASE \/ owner_stream_error \/ connection_fails
              \/ (reconcile_reply /\ revision_decision(call.reply) = "Reconcile")
    <2>1. UNCHANGED <<ui, update, slot, intent>>
      BY <1>12, Zenon DEF owner_stream_error, connection_fails, reconcile_reply, Disconnect,
         window, commands
    <2> QED
      BY <1>k, <2>1, Zenon
  <1> QED
    BY <1>1, <1>2, <1>3, <1>4, <1>5, <1>6, <1>7, <1>8, <1>9, <1>10, <1>11, <1>12, Zenon
       DEF Next, ClientStep

\* No stopwatch command is lost, doubled or reordered by any step.
LEMMA CommandsStep == SyncInv /\ CommandsAddUp /\ [Next]_vars => CommandsAddUp'
  <1> SUFFICES ASSUME SyncInv, CommandsAddUp, [Next]_vars, pc' # "ended"
               PROVE  Outstanding(InFlight(stopwatch))' = ideal'
    BY Zenon DEF CommandsAddUp
  <1>t. TypeOK /\ RevisionsAreCounted /\ stopwatch \in ManualStopwatch
    BY Zenon DEF SyncInv, TypeOK, CoreTypes
  <1>a. /\ slot.actions \in PendingWidgetActions /\ intent.actions \in PendingWidgetActions
        /\ InFlight(stopwatch) \in ManualStopwatch
    BY <1>t, Parts, ApplyTypes, Zenon DEF InFlight
  \* A step that leaves the pending commands alone, and neither sends nor drops one.
  <1>k. ASSUME UNCHANGED <<stopwatch, ideal>>, intent'.actions = intent.actions,
               slot'.actions = slot.actions, pc # "ended",
               InFlight(stopwatch)' = InFlight(stopwatch)
        PROVE  Outstanding(InFlight(stopwatch))' = ideal'
    <2>1. Outstanding(InFlight(stopwatch)) = ideal
      BY <1>k, Zenon DEF CommandsAddUp
    <2> QED
      BY <1>k, <2>1, Zenon DEF Outstanding
  \* A dispatch of what was pending.
  <1>m. ASSUME NEW i, Moved(i), UNCHANGED <<stopwatch, ideal>>, pc # "ended",
               InFlight(stopwatch) = stopwatch,
               ApplyAll(slot'.actions, ApplyAll(i.actions, stopwatch)) = Outstanding(stopwatch)
        PROVE  Outstanding(InFlight(stopwatch))' = ideal'
    <2>1. Outstanding(stopwatch) = ideal
      BY <1>m, Zenon DEF CommandsAddUp
    <2>2. ApplyAll(intent'.actions, InFlight(stopwatch)') = ApplyAll(i.actions, stopwatch)
      <3>1. \A sw \in ManualStopwatch :
                ApplyAll(intent'.actions, InFlight(sw)') = ApplyAll(i.actions, sw)
        BY <1>m, Zenon DEF Moved
      <3>2. InFlight(stopwatch)' =
                IF pc' = "call" /\ call'.reply = None THEN Apply(call'.kind, stopwatch) ELSE stopwatch
        BY <1>m, Zenon DEF InFlight
      <3> QED
        BY <1>t, <3>1, <3>2, Zenon DEF InFlight
    <2> QED
      BY <1>m, <2>1, <2>2, Zenon DEF Outstanding
  <1>e. \A sw : ApplyAll(NoActions, sw) = sw
    BY Zenon DEF ApplyAll, NoActions
  <1>1. ASSUME NEW view \in Views, core_changes(view)
        PROVE  Outstanding(InFlight(stopwatch))' = ideal'
    <2>1. UNCHANGED <<pc, call, intent, slot>>
      BY <1>1, Zenon DEF core_changes, client, commands
    <2>2. CASE view = "none"
      <3>1. /\ stopwatch' = StoppedStopwatch
            /\ ideal' = Outstanding(InFlight(StoppedStopwatch))
        BY <1>1, <2>2, Zenon DEF core_changes
      <3> QED
        BY <2>1, <3>1, Zenon DEF Outstanding, InFlight
    <2>3. CASE view # "none"
      BY <1>1, <1>k, <2>1, <2>3, Zenon DEF core_changes, InFlight
    <2> QED
      BY <2>2, <2>3, Zenon
  <1>2. CASE core_restarts
    <2>1. /\ UNCHANGED <<pc, call, intent, slot>> /\ stopwatch' = StoppedStopwatch
          /\ ideal' = Outstanding(InFlight(StoppedStopwatch))
      BY <1>2, Zenon DEF core_restarts, commands
    <2> QED
      BY <2>1, Zenon DEF Outstanding, InFlight
  <1>3. CASE core_executes
    <2>1. /\ pc = "call" /\ call.reply = None /\ UNCHANGED <<intent, slot>>
          /\ stopwatch' = IF core.view = "none" THEN stopwatch ELSE Apply(call.kind, stopwatch)
          /\ ideal' = IF core.view = "none" THEN Outstanding(stopwatch) ELSE ideal
      BY <1>3, Zenon DEF core_executes, commands
    <2>2. call'.reply # None
      <3>1. call'.reply = core' /\ TypeOK'
        BY <1>3, <1>t, ExecutionIsCounted, Zenon
      <3> QED
        BY <3>1, NoneAssumption, Zenon DEF TypeOK, CoreTypes
    <2>3. InFlight(stopwatch)' = stopwatch'
      BY <2>2, Zenon DEF InFlight
    <2>4. CASE core.view = "none"
      BY <2>1, <2>3, <2>4, Zenon DEF Outstanding
    <2>5. CASE core.view # "none"
      <3>1. stopwatch' = InFlight(stopwatch) /\ ideal' = ideal
        BY <2>1, <2>5, Zenon DEF InFlight
      <3>2. Outstanding(InFlight(stopwatch)) = ideal
        BY <2>1, Zenon DEF CommandsAddUp
      <3> QED
        BY <2>1, <2>3, <3>1, <3>2, Zenon DEF Outstanding
    <2> QED
      BY <2>4, <2>5, Zenon
  <1>4. CASE connect \/ reconciliation
    <2>1. /\ pc \in {"idle", "loop"} /\ pc' = "call"
          /\ \/ call' = [kind |-> "baseline", reply |-> None]
             \/ call' = [kind |-> "reconcile", reply |-> None]
          /\ UNCHANGED <<stopwatch, ideal, intent, slot>>
      BY <1>4, Zenon DEF connect, reconciliation, Await, commands
    <2>2. call'.kind \in {"baseline", "reconcile"}
      BY <2>1
    <2>3. InFlight(stopwatch) = stopwatch /\ InFlight(stopwatch)' = stopwatch'
      BY <2>1, <2>2, Zenon DEF InFlight, Apply
    <2> QED
      BY <1>k, <2>1, <2>3, Zenon
  <1>5. CASE connection_cycle_baseline \/ legacy_poll \/ commands_notified
    <2>1. \E p : p \in BOOLEAN /\ Dispatch(Absorbed(p))
      <3>1. CASE connection_cycle_baseline /\ ~legacy
        <4>1. Dispatch(Absorbed(intent.pending /\ ~Passive(call.reply)))
          BY <3>1, Zenon DEF connection_cycle_baseline
        <4>2. (intent.pending /\ ~Passive(call.reply)) \in BOOLEAN
          BY Zenon
        <4> QED
          BY <4>1, <4>2, Zenon
      <3>2. CASE (connection_cycle_baseline /\ legacy) \/ legacy_poll \/ commands_notified
        <4>1. Dispatch(Absorbed(intent.pending)) /\ intent.pending \in BOOLEAN
          BY <1>t, <3>2, Parts, Zenon DEF connection_cycle_baseline, legacy_poll, commands_notified
        <4> QED
          BY <4>1, Zenon
      <3> QED
        BY <1>5, <3>1, <3>2, Zenon
    <2>2. PICK p : p \in BOOLEAN /\ Dispatch(Absorbed(p))
      BY <2>1, Zenon
    <2>3. /\ UNCHANGED <<stopwatch, ideal>> /\ slot' = EmptySlot
          /\ pc # "ended" /\ InFlight(stopwatch) = stopwatch
      BY <1>5, Zenon DEF connection_cycle_baseline, Answered, legacy_poll, commands_notified,
         InFlight
    <2>4. slot'.actions = NoActions
      BY <2>3, Zenon DEF EmptySlot
    <2>5. Moved(Absorbed(p)) /\ ApplyAll(Absorbed(p).actions, stopwatch) = Outstanding(stopwatch)
      BY <1>t, <2>2, AbsorbedFacts, DispatchMoves, Zenon
    <2> QED
      BY <1>e, <1>m, <2>3, <2>4, <2>5, Zenon
  <1>6. CASE dispatch_commands
    <2> DEFINE i == IF legacy THEN [intent EXCEPT !.pending =
                                       @ /\ ~(call.kind = "passive" /\ Passive(call.reply))]
                    ELSE intent
    <2>1. /\ UNCHANGED <<stopwatch, ideal, slot>> /\ pc # "ended"
          /\ InFlight(stopwatch) = stopwatch /\ Proceed(i)
      BY <1>6, Zenon DEF dispatch_commands, Answered, commands, InFlight
    <2>2. i \in PassiveIntent /\ i.actions = intent.actions
      BY <1>t, Zenon DEF TypeOK, ClientTypes, PassiveIntent
    <2> HIDE DEF i
    <2>3. ApplyAll(slot'.actions, ApplyAll(i.actions, stopwatch)) = Outstanding(stopwatch)
      BY <2>1, <2>2, Zenon DEF Outstanding
    <2> QED
      BY <1>m, <2>1, <2>2, <2>3, ProceedMoves, Zenon
  \* A reply or a signal is handled, and the client is in its loop.
  <1>7. CASE \/ legacy_snapshot \/ handle_signal
             \/ (reconcile_reply /\ revision_decision(call.reply) # "Reconcile")
    <2>1. /\ UNCHANGED <<stopwatch, ideal, slot>> /\ pc # "ended" /\ pc' = "loop"
          /\ InFlight(stopwatch) = stopwatch
      BY <1>7, Zenon DEF legacy_snapshot, handle_signal, reconcile_reply, Answered, commands,
         InFlight
    <2>2. \/ intent' = intent
          \/ \E p : intent' = [intent EXCEPT !.pending = p]
      BY <1>7, Zenon DEF legacy_snapshot, handle_signal, reconcile_reply, apply_versioned
    <2>3. intent'.actions = intent.actions
      BY <1>t, <2>2 DEF TypeOK, ClientTypes, PassiveIntent
    <2>4. InFlight(stopwatch)' = InFlight(stopwatch)
      BY <2>1, Zenon DEF InFlight
    <2> QED
      BY <1>k, <2>1, <2>3, <2>4, Zenon
  <1>8. CASE \/ owner_stream_error \/ connection_fails
             \/ (reconcile_reply /\ revision_decision(call.reply) = "Reconcile")
    <2>1. Disconnect /\ pc # "ended"
      BY <1>8, Zenon DEF owner_stream_error, connection_fails, reconcile_reply, Answered
    <2>2. /\ pc' = "idle" /\ UNCHANGED <<stopwatch, intent, slot>>
          /\ ideal' = IF pc = "call" /\ call.reply = None THEN Outstanding(stopwatch) ELSE ideal
      BY <2>1, Zenon DEF Disconnect, commands
    <2>3. InFlight(stopwatch)' = stopwatch
      BY <2>2, Zenon DEF InFlight
    <2>4. ideal' = Outstanding(stopwatch)
      BY <2>1, <2>2, Zenon DEF CommandsAddUp, InFlight
    <2> QED
      BY <2>2, <2>3, <2>4, Zenon DEF Outstanding
  <1>9. ASSUME NEW command \in Commands \ {"SetPassive"}, widget_command(command)
        PROVE  Outstanding(InFlight(stopwatch))' = ideal'
    <2>1. /\ UNCHANGED <<stopwatch, pc, call, intent>> /\ pc # "ended"
          /\ slot' = [slot EXCEPT !.actions = Push(@, command)]
      BY <1>9, Zenon DEF widget_command, client
    <2>2. slot'.actions = Push(slot.actions, command)
      BY <1>t, <2>1 DEF TypeOK, ChannelTypes
    <2>3. Outstanding(InFlight(stopwatch)) = ideal
      BY <2>1, Zenon DEF CommandsAddUp
    <2>4. Outstanding(InFlight(stopwatch))' =
              ApplyAll(Push(slot.actions, command), ApplyAll(intent.actions, InFlight(stopwatch)))
      BY <2>1, <2>2, Zenon DEF Outstanding, InFlight
    <2>5. ApplyAll(intent.actions, InFlight(stopwatch)) \in ManualStopwatch
      BY <1>a, ApplyTypes, Zenon
    <2>6. command \in {"Reload", "Reset", "Toggle"}
      BY SyncAssumption, Zenon
    <2>7. ideal' = CASE command = "Toggle" -> Apply("toggle", ideal)
                     [] command = "Reset"  -> Apply("reset", ideal)
                     [] command = "Reload" -> ideal
      BY <1>9, Zenon DEF widget_command
    <2> DEFINE before == ApplyAll(intent.actions, InFlight(stopwatch))
    <2>8. ideal = ApplyAll(slot.actions, before)
      BY <2>3, Zenon DEF Outstanding
    <2>9. /\ ApplyAll(Push(slot.actions, "Toggle"), before) = Apply("toggle", ideal)
          /\ ApplyAll(Push(slot.actions, "Reset"), before) = Apply("reset", ideal)
          /\ ApplyAll(Push(slot.actions, "Reload"), before) = ideal
      BY <1>a, <2>5, <2>8, PushAddsUp, Zenon
    <2> HIDE DEF before
    <2>10. Outstanding(InFlight(stopwatch))' = ApplyAll(Push(slot.actions, command), before)
      BY <2>4, Zenon DEF before
    <2> QED
      BY <2>6, <2>7, <2>9, <2>10, Zenon
  <1>10. CASE drop_client
    BY <1>10, Zenon DEF drop_client
  <1>11. CASE run_snapshot_signal_publisher \/ apply_snapshot \/ sync_core_authority \/ UNCHANGED vars
    <2>1. UNCHANGED <<stopwatch, ideal, pc, call, intent, slot>>
      BY <1>11, Zenon DEF run_snapshot_signal_publisher, apply_snapshot, sync_core_authority,
         vars, client, commands
    <2> QED
      BY <1>k, <2>1, Zenon DEF InFlight
  <1>12. CASE request_passive
    <2>1. /\ UNCHANGED <<stopwatch, ideal, pc, call, intent>>
          /\ slot' = [slot EXCEPT !.set_passive = TRUE]
      BY <1>12, Zenon DEF request_passive, client
    <2>2. slot'.actions = slot.actions
      BY <1>t, <2>1 DEF TypeOK, ChannelTypes
    <2> QED
      BY <1>k, <2>1, <2>2, Zenon DEF InFlight
  <1> QED
    BY <1>1, <1>2, <1>3, <1>4, <1>5, <1>6, <1>7, <1>8, <1>9, <1>10, <1>11, <1>12, Zenon
       DEF Next, ClientStep

\* The inductive invariant holds of every behaviour.
THEOREM SyncInvariant == Spec => []SyncInv
  <1>1. Init => SyncInv
    BY SyncInit, Zenon
  <1>2. SyncInv /\ [Next]_vars => SyncInv'
    BY CountedStep, OrderedStep, Zenon DEF SyncInv
  <1> QED
    BY <1>1, <1>2, PTL DEF Spec

\* The overlay takes input only under authority, the client claims authority only over the
\* running Core, and a confirmation of Passive is not lost, whatever Core's restarts, failed
\* calls, lost signals and the user's commands.
THEOREM SyncSafe == Spec => []SyncIsSafe
  <1> DEFINE I == SyncInv /\ InputOnlyWithAuthority /\ ConfirmationIsKept
  <1>1. Init => I
    BY SyncInit, Zenon
  <1>2. I /\ [Next]_vars => I'
    <2> SUFFICES ASSUME I, [Next]_vars PROVE I'
      BY Zenon
    <2>1. SyncInv'
      BY CountedStep, OrderedStep, Zenon DEF SyncInv
    <2>2. InputOnlyWithAuthority'
      BY InputStep, Zenon DEF SyncInv
    <2>3. ConfirmationIsKept'
      BY ConfirmationStep, Zenon
    <2> QED
      BY <2>1, <2>2, <2>3, Zenon
  <1>3. I => SyncIsSafe
    BY AuthorityFollows, Zenon DEF SyncIsSafe, SyncInv
  <1> QED
    BY <1>1, <1>2, <1>3, PTL DEF Spec

\* What the user asked of the stopwatch is what it will show, once everything that waits in
\* the slot, in the intent and in flight has acted.
THEOREM CommandsAreKept == Spec => []CommandsAddUp
  <1>1. Init => SyncInv /\ CommandsAddUp
    BY SyncInit, Zenon
  <1>2. SyncInv /\ CommandsAddUp /\ [Next]_vars => (SyncInv /\ CommandsAddUp)'
    BY CountedStep, OrderedStep, CommandsStep, Zenon DEF SyncInv
  <1> QED
    BY <1>1, <1>2, PTL DEF Spec

-----------------------------------------------------------------------------
\* The UI follows Core and never goes back

\* Version numbers the snapshots in their order.
LEMMA VersionOrder ==
    ASSUME NEW a \in VersionedCoreSnapshot, NEW b \in VersionedCoreSnapshot, NotNewer(a, b)
    PROVE  Version(a) \in Nat /\ Version(b) \in Nat /\ Version(a) <= Version(b)
  <1>0. MaxRevision \in Nat
    BY SyncAssumption DEF MaxRevision
  <1>1. ASSUME NEW K \in Nat, NEW g \in Nat, NEW h \in Nat, NEW r \in 0..(K - 1), NEW q \in Nat,
               g < h \/ (g = h /\ r <= q)
        PROVE  g * K + r <= h * K + q
    <2>1. CASE g = h /\ r <= q
      BY <2>1
    <2>2. CASE g < h
      <3>1. PICK d \in Nat : h = g + 1 + d
        <4>1. h - g - 1 \in Nat /\ h = g + 1 + (h - g - 1)
          BY <2>2
        <4> QED
          BY <4>1
      <3>2. h * K = g * K + K + d * K
        BY <3>1
      <3>3. d * K \in Nat /\ g * K \in Nat
        OBVIOUS
      <3> QED
        BY <3>2, <3>3
    <2> QED
      BY <1>1, <2>1, <2>2
  <1>2. /\ a.gen \in Nat /\ b.gen \in Nat /\ a.rev \in 0..MaxRevision /\ b.rev \in 0..MaxRevision
    BY DEF VersionedCoreSnapshot
  <1>3. \A g, r \in Nat : g * (MaxRevision + 1) + r \in Nat
    BY <1>0
  <1>4. MaxRevision + 1 \in Nat /\ a.rev \in 0..((MaxRevision + 1) - 1) /\ b.rev \in Nat
        /\ a.rev \in Nat
    BY <1>0, <1>2
  <1> QED
    BY <1>1, <1>2, <1>3, <1>4, Zenon DEF Version, NotNewer

\* A step moves Core on or shows a snapshot, never both, and never backwards.
LEMMA StepsForward ==
    SyncInv /\ [Next]_vars =>
        \/ NotNewer(core, core') /\ ui'.snapshot = ui.snapshot
        \/ core' = core /\ NotNewer(ui.snapshot, ui'.snapshot)
  <1> SUFFICES ASSUME SyncInv, [Next]_vars
               PROVE  \/ NotNewer(core, core') /\ ui'.snapshot = ui.snapshot
                      \/ core' = core /\ NotNewer(ui.snapshot, ui'.snapshot)
    BY Zenon
  <1>t. TypeOK /\ RevisionsAreCounted /\ Ordered
    BY Zenon DEF SyncInv
  <1>r. NotNewer(core, core) /\ NotNewer(ui.snapshot, ui.snapshot)
    BY <1>t, OrderFacts, SignalTypes, Zenon
  <1>1. ASSUME NEW view \in Views, core_changes(view)
        PROVE  NotNewer(core, core') /\ ui'.snapshot = ui.snapshot
    <2>1. NotNewer(core, core')
      BY <1>1, <1>t, Parts DEF core_changes, TypeOK, CoreTypes, VersionedCoreSnapshot, NotNewer
    <2> QED
      BY <1>1, <2>1, Zenon DEF core_changes, window
  <1>2. CASE core_restarts
    <2>1. NotNewer(core, core')
      BY <1>2, <1>t, Parts DEF core_restarts, NotNewer
    <2> QED
      BY <1>2, <2>1, Zenon DEF core_restarts, window
  <1>3. CASE core_executes
    <2>1. core'.gen = core.gen /\ core.rev <= core'.rev
      BY <1>3, <1>t, ExecutionIsCounted, Zenon
    <2> QED
      BY <1>3, <2>1, Zenon DEF core_executes, window, NotNewer
  <1>4. CASE apply_snapshot
    <2>1. /\ core' = core
          /\ \/ ui' = ui
             \/ /\ update # None
                /\ ui' = [ui EXCEPT !.passive_pending = FALSE, !.snapshot = update.snapshot,
                                    !.passthrough = Passthrough(ui.snapshot, ui.authority,
                                                                update.snapshot, ui.authority)]
      BY <1>4, Zenon DEF apply_snapshot
    <2>2. ui'.snapshot = ui.snapshot \/ (update # None /\ ui'.snapshot = update.snapshot)
      BY <1>t, <2>1, Zenon DEF TypeOK, WindowTypes
    <2> QED
      BY <1>r, <1>t, <2>1, <2>2, Zenon DEF Ordered
  <1>5. CASE sync_core_authority \/ request_passive
    <2>1. /\ core' = core
          /\ \/ ui' = [ui EXCEPT !.passive_pending = TRUE, !.passthrough = TRUE]
             \/ ui' = [ui EXCEPT !.authority = authority,
                                 !.passthrough = Passthrough(ui.snapshot, ui.authority,
                                                             ui.snapshot, authority)]
      BY <1>5, Zenon DEF sync_core_authority, request_passive
    <2>2. ui'.snapshot = ui.snapshot
      BY <1>t, <2>1, Zenon DEF TypeOK, WindowTypes
    <2> QED
      BY <1>r, <2>1, <2>2, Zenon
  <1>6. CASE \/ run_snapshot_signal_publisher \/ drop_client \/ UNCHANGED vars
             \/ \E command \in Commands \ {"SetPassive"} : widget_command(command)
    BY <1>6, <1>r, Zenon DEF run_snapshot_signal_publisher, drop_client, vars, widget_command,
       window
  <1>7. CASE ClientStep \/ connection_fails
    <2>1. core' = core /\ ui' = ui
      BY <1>7, Zenon DEF ClientStep, connect, connection_cycle_baseline, dispatch_commands,
         legacy_snapshot, legacy_poll, handle_signal, commands_notified, reconciliation,
         reconcile_reply, owner_stream_error, connection_fails, Disconnect, window
    <2> QED
      BY <1>r, <2>1, Zenon
  <1> QED
    BY <1>1, <1>2, <1>3, <1>4, <1>5, <1>6, <1>7, Zenon DEF Next

\* The UI's snapshot is one Core published, and it never goes back to an older one, although
\* RevisionGate compares revisions alone and a new connection starts with an empty gate.
THEOREM SyncFollows == Spec => NeverBackwards
  <1>1. Init => Follower!Init
    <2> SUFFICES ASSUME Init PROVE Follower!Init
      BY Zenon
    <2>1. SyncInv
      BY SyncInit, Zenon
    <2>2. /\ core \in VersionedCoreSnapshot /\ ui.snapshot \in VersionedCoreSnapshot
          /\ NotNewer(ui.snapshot, core)
      BY <2>1, SignalTypes, Zenon DEF SyncInv, Ordered, Publishable
    <2> QED
      BY <2>2, VersionOrder, Zenon DEF Follower!Init
  <1>2. SyncInv /\ SyncInv' /\ [Next]_vars =>
            [Follower!Write \/ Follower!Follow]_<<Version(core), Version(ui.snapshot)>>
    <2> SUFFICES ASSUME SyncInv, SyncInv', [Next]_vars
                 PROVE  Follower!Write \/ Follower!Follow
      BY Zenon
    <2>1. /\ core \in VersionedCoreSnapshot /\ ui.snapshot \in VersionedCoreSnapshot
          /\ core' \in VersionedCoreSnapshot /\ ui'.snapshot \in VersionedCoreSnapshot
          /\ NotNewer(ui'.snapshot, core')
      <3>1. core \in VersionedCoreSnapshot /\ ui.snapshot \in VersionedCoreSnapshot
        BY SignalTypes, Zenon DEF SyncInv
      <3>2. core' \in VersionedCoreSnapshot /\ ui' \in [snapshot: VersionedCoreSnapshot,
                passive_pending: BOOLEAN, authority: BOOLEAN, passthrough: BOOLEAN]
        BY Zenon DEF SyncInv, TypeOK, CoreTypes, WindowTypes
      <3>3. ui'.snapshot \in VersionedCoreSnapshot
        BY <3>2
      <3> QED
        BY <3>1, <3>2, <3>3, Zenon DEF SyncInv, Ordered, Publishable
    <2>2. CASE NotNewer(core, core') /\ ui'.snapshot = ui.snapshot
      <3>1. Version(core') \in Nat /\ Version(core) <= Version(core')
        BY <2>1, <2>2, VersionOrder, Zenon
      <3>2. Version(core) \in Nat
        BY <2>1, <2>2, VersionOrder, Zenon
      <3>3. Version(core') >= Version(core)
        BY <3>1, <3>2
      <3>4. Version(ui'.snapshot) = Version(ui.snapshot)
        BY <2>2, Zenon
      <3> QED
        BY <3>1, <3>3, <3>4, Zenon DEF Follower!Write
    <2>3. CASE core' = core /\ NotNewer(ui.snapshot, ui'.snapshot)
      <3>1. /\ Version(ui'.snapshot) \in Nat /\ Version(ui.snapshot) \in Nat
            /\ Version(ui.snapshot) <= Version(ui'.snapshot)
            /\ Version(ui'.snapshot) <= Version(core)
        BY <2>1, <2>3, VersionOrder, Zenon
      <3>2. Version(ui'.snapshot) >= Version(ui.snapshot)
        BY <3>1
      <3> QED
        BY <2>3, <3>1, <3>2, Zenon DEF Follower!Follow
    <2> QED
      BY <2>2, <2>3, StepsForward, Zenon
  <1> QED
    BY <1>1, <1>2, SyncInvariant, PTL DEF Spec, NeverBackwards, Follower!Spec
=============================================================================
