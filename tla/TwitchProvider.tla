---------------------------- MODULE TwitchProvider ----------------------------
(***************************************************************************)
(* The Twitch chat provider: the renderer's widget (widgets/twitch_chat),  *)
(* the worker that owns the EventSub socket (twitch/client.rs), the chat   *)
(* buffer (twitch/model.rs) and EventSub itself.  The worker's OAuth       *)
(* machine is known by what TwitchAuthPromise says of it.                  *)
(*                                                                         *)
(* One iteration of run_provider is LoopTop followed by one wake-up.  A    *)
(* connection attempt and a session_reconnect await the network, so they   *)
(* are split where the gate, the user and EventSub can move.               *)
(***************************************************************************)
EXTENDS Naturals, Sequences, SequencesExt, FiniteSets

CONSTANTS Channels,       \* channels the user may select
          Gates,          \* gates [lifecycle, game, widget, channel] the renderer sets
          Commands,       \* commands of the widget other than sends
          MaxGeneration,  \* generations followed
          MaxDeliveries,  \* EventSub deliveries followed
          BufferMax,      \* TWITCH_MESSAGE_BUFFER_MAX
          DedupMax,       \* DELIVERY_DEDUP_CAPACITY
          CommandMax,     \* COMMAND_CAPACITY
          Budgets,        \* [ui, chat, faults] steps of each environment
          None

VARIABLES gate,           \* the watch channel
          commands,       \* the command queue
          ui,             \* TwitchWidgetState
          active,         \* active_gate
          restored,       \* restore_attempted
          auth,           \* AuthMachine, by its promise
          state,          \* WorkerState
          socket,         \* the EventSub socket: its channel and unread deliveries
          pc,             \* where the worker is in its loop
          published,      \* the latest snapshot
          server,         \* EventSub: this session's deliveries, and how many of each kind
          sent,           \* the last message Helix accepted: meant for, and to
          removed,        \* messages whose deletion the worker has applied
          budget

vars == <<gate, commands, ui, active, restored, auth, state, socket, pc, published,
          server, sent, removed, budget>>

Auth == INSTANCE TwitchAuthPromise

------------------------------------------------------------------------------
(* The gate.                                                               *)

ClosedGate == [lifecycle |-> FALSE, game |-> FALSE, widget |-> FALSE, channel |-> None]

AllowsControl(g) == g.lifecycle /\ g.game /\ g.widget
IsOpen(g) == AllowsControl(g) /\ g.channel # None

------------------------------------------------------------------------------
(* MessageBuffer.                                                          *)

Push(buffer, m) ==
    Append(IF Len(buffer) = BufferMax THEN Tail(buffer) ELSE buffer, m)

\* The position of the first message that is the one looked for, 0 for none.
Position(buffer, Is(_)) ==
    LET here == {i \in DOMAIN buffer : Is(buffer[i])}
    IN  IF here = {} THEN 0 ELSE CHOOSE i \in here : \A j \in here : i <= j

PushPending(buffer, nonce, channel) ==
    Push(buffer, [id |-> 0, nonce |-> nonce, state |-> "Pending", channel |-> channel])

\* mark_sent and fail_pending.
Settle(buffer, nonce, id, outcome) ==
    LET i == Position(buffer, LAMBDA m : m.state = "Pending" /\ m.nonce = nonce)
    IN  IF i = 0 THEN buffer
        ELSE [buffer EXCEPT ![i].state = outcome, ![i].id = id]

\* Mutant: a received message is always appended.
UpsertReceived_appending(buffer, id, channel) ==
    Push(buffer, [id |-> id, nonce |-> 0, state |-> "Received", channel |-> channel])

\* upsert_received: an echo takes the place of the row it confirms.
UpsertReceived(buffer, id, channel) ==
    LET i == Position(buffer, LAMBDA m : m.id = id)
        received == [id |-> id, nonce |-> IF i = 0 THEN 0 ELSE buffer[i].nonce,
                     state |-> "Received", channel |-> channel]
    IN  IF i = 0 THEN Push(buffer, received) ELSE [buffer EXCEPT ![i] = received]

RemoveMessage(buffer, id) == SelectSeq(buffer, LAMBDA m : m.id # id)

------------------------------------------------------------------------------
(* WorkerState.                                                            *)

\* DeliveryDedup::insert, for an id not yet in it.
Remember(dedup, id) ==
    Append(IF Len(dedup) = DedupMax THEN Tail(dedup) ELSE dedup, id)

NewState ==
    [connection |-> "Inert", identity |-> None, buffer |-> <<>>, receipt |-> 0,
     generation |-> 0, paused |-> FALSE, dedup |-> <<>>, due |-> FALSE]

\* clear_private_state.
ClearPrivateState(s) ==
    [s EXCEPT !.identity = None, !.buffer = <<>>, !.receipt = 0, !.dedup = <<>>,
              !.due = FALSE, !.generation = @ + 1]

\* WorkerState::snapshot, as far as the widget decides by it.
Snapshot(s, channel) ==
    [generation |-> s.generation, channel |-> channel, receipt |-> s.receipt,
     messages |-> s.buffer]

Publish(s) == published' = Snapshot(s, active.channel)

\* apply_connection_failure; returns the new state and sessions.
ApplyConnectionFailure(error, s, a) ==
    [s |-> [s EXCEPT !.identity = None,
                     !.connection = IF error = "Network" THEN "Reconnecting" ELSE "Failed"],
     auths |-> IF error = "Authentication" THEN Auth!Forgotten ELSE {a}]

Errors == {"Network", "Authentication", "Refused"}

Fault == budget.faults > 0 /\ budget' = [budget EXCEPT !.faults = @ - 1]
UserStep == budget.ui > 0 /\ budget' = [budget EXCEPT !.ui = @ - 1]
ChatStep == budget.chat > 0 /\ budget' = [budget EXCEPT !.chat = @ - 1]

Init ==
    /\ gate \in Gates
    /\ commands = <<>>
    /\ ui = [pending |-> 0, next |-> 1, generation |-> 0, channel |-> None]
    /\ active = ClosedGate
    /\ restored = FALSE
    /\ auth = Auth!SignedOut
    /\ state = NewState
    /\ socket = None
    /\ pc = "top"
    /\ published = Snapshot(NewState, None)
    /\ server = [log |-> <<>>, deliveries |-> 0, posted |-> 0]
    /\ sent = [meant |-> None, to |-> None]
    /\ removed = {}
    /\ budget \in Budgets

------------------------------------------------------------------------------
(* The widget.                                                             *)

\* The app calls set_gate with every frame's gate.
SetGate ==
    /\ UserStep
    /\ \E g \in Gates \ {gate} : gate' = g
    /\ UNCHANGED <<commands, ui, active, restored, auth, state, socket, pc, published, server, sent, removed>>

\* try_send: a full queue takes nothing.
Full == Len(commands) = CommandMax
TrySend(c) == commands' = IF Full THEN commands ELSE Append(commands, c)

\* begin_send and try_send: one send at a time, for the channel shown.  A full queue
\* ends the wait at once (mark_send_rejected).
BeginSend ==
    /\ UserStep
    /\ ui.pending = 0
    /\ ui.channel # None
    /\ TrySend([kind |-> "SendMessage", request |-> ui.next,
                generation |-> ui.generation, channel |-> ui.channel])
    /\ ui' = [ui EXCEPT !.pending = IF Full THEN 0 ELSE ui.next, !.next = @ + 1]
    /\ UNCHANGED <<gate, active, restored, auth, state, socket, pc, published, server, sent, removed>>

\* Every other button of the widget.
Command ==
    /\ UserStep
    /\ \E c \in Commands : TrySend([kind |-> c])
    /\ UNCHANGED <<gate, ui, active, restored, auth, state, socket, pc, published, server, sent, removed>>

\* take_latest and apply_snapshot.
ApplySnapshot ==
    /\ ui' = [ui EXCEPT !.generation = published.generation,
                        !.channel = published.channel,
                        !.pending = IF \/ published.generation # ui.generation
                                       \/ published.receipt = ui.pending
                                    THEN 0 ELSE @]
    /\ ui' # ui
    /\ UNCHANGED <<gate, commands, active, restored, auth, state, socket, pc, published, server,
                   sent, removed, budget>>

------------------------------------------------------------------------------
(* The head of the loop.                                                   *)

\* A new gate closes the socket; a lost lifecycle or another channel also
\* forgets what belonged to the old one.
GateChanged(s) ==
    LET moved == gate.channel # active.channel
        lost == ~gate.lifecycle \/ ~gate.widget
        kept == IF lost \/ moved THEN ClearPrivateState(s) ELSE s
    IN  [kept EXCEPT !.paused = @ /\ ~moved,
                     !.connection = IF AllowsControl(gate) THEN "Disconnected" ELSE "Inert"]

\* Which wait the iteration ends in.
Branch(a, r, au, s, so) ==
    CASE ~AllowsControl(a) -> "closed"
      [] AllowsControl(a) /\ ~r -> "restore"
      [] AllowsControl(a) /\ r /\ (~au.can \/ ~IsOpen(a) \/ s.paused) -> "waiting"
      [] AllowsControl(a) /\ r /\ au.can /\ IsOpen(a) /\ ~s.paused ->
             IF so = None THEN "unconnected" ELSE "live"

LoopTop ==
    /\ pc = "top"
    /\ LET changed == gate # active
           lost == ~gate.lifecycle \/ ~gate.widget
           s == IF changed THEN GateChanged(state) ELSE state
           so == IF changed THEN None ELSE socket
           au == IF changed /\ lost THEN Auth!PendingCancelled(auth) ELSE auth
           next == Branch(gate, restored, au, s, so)
       IN  /\ s.generation <= MaxGeneration
           /\ active' = gate
           /\ socket' = so
           /\ pc' = next
           /\ auth' = au
           /\ state' = IF next = "waiting" /\ (s.paused \/ gate.channel = None)
                       THEN [s EXCEPT !.connection = "Disconnected"] ELSE s
           /\ IF changed THEN published' = Snapshot(s, gate.channel) ELSE UNCHANGED published
    /\ UNCHANGED <<gate, commands, ui, restored, server, sent, removed, budget>>

\* Nothing woke the worker but the gate.
GateWakes ==
    /\ pc \in {"closed", "waiting", "unconnected", "live"}
    /\ gate # active
    /\ pc' = "top"
    /\ UNCHANGED <<gate, commands, ui, active, restored, auth, state, socket, published, server,
                   sent, removed, budget>>

RestoreAuth ==
    /\ pc = "restore"
    /\ restored' = TRUE
    /\ auth' \in Auth!Restored
    /\ pc' = "top"
    /\ Publish(state)
    /\ UNCHANGED <<gate, commands, ui, active, state, socket, server, sent, removed, budget>>

\* A deadline of the OAuth machine.
AuthDeadline ==
    /\ pc \in {"waiting", "unconnected", "live"}
    /\ Fault
    /\ auth' \in Auth!Ticked(auth)
    /\ LET s == IF pc = "live" /\ ~auth'.can
                THEN [state EXCEPT !.connection = "Disconnected", !.due = FALSE]
                ELSE IF pc = "live" THEN [state EXCEPT !.due = FALSE] ELSE state
       IN  state' = s /\ Publish(s)
    /\ socket' = IF pc = "live" /\ ~auth'.can THEN None ELSE socket
    /\ pc' = "top"
    /\ UNCHANGED <<gate, commands, ui, active, restored, server, sent, removed>>

------------------------------------------------------------------------------
(* Commands while chat is not live.                                        *)

\* The receipt of a message that cannot be sent.
Declined(s, c) == [s EXCEPT !.receipt = c.request]

\* handle_closed_command: the states and sessions it may leave.
HandleClosedCommand(c, allow_auth) ==
    CASE c.kind = "BeginAuthentication" ->
             {[s |-> IF allow_auth /\ auth.can THEN [state EXCEPT !.paused = FALSE] ELSE state,
               a |-> a] : a \in IF allow_auth /\ ~auth.can THEN Auth!Begun(auth) ELSE {auth}}
      [] c.kind = "CancelAuthentication" -> {[s |-> state, a |-> Auth!Cancelled(auth)]}
      [] c.kind = "Disconnect" ->
             {[s |-> [state EXCEPT !.paused = TRUE, !.connection = "Disconnected"], a |-> auth]}
      [] c.kind = "SignOut" ->
             {[s |-> ClearPrivateState([state EXCEPT !.paused = FALSE]), a |-> a]
              : a \in Auth!Forgotten}
      [] c.kind = "Reconnect" ->
             {[s |-> IF allow_auth THEN [state EXCEPT !.paused = FALSE] ELSE state, a |-> auth]}
      [] c.kind = "SendMessage" -> {[s |-> Declined(state, c), a |-> auth]}

ClosedCommand ==
    /\ pc \in {"closed", "waiting", "unconnected"}
    /\ commands # <<>>
    /\ commands' = Tail(commands)
    /\ \E h \in HandleClosedCommand(Head(commands), pc # "closed") :
           /\ h.s.generation <= MaxGeneration
           /\ state' = h.s
           /\ auth' = h.a
           /\ pc' = "top"
           /\ UNCHANGED <<gate, ui, active, restored, socket, server, sent, removed, budget>>
           /\ Publish(h.s)

------------------------------------------------------------------------------
(* The EventSub socket.                                                    *)

\* connect_initial up to its first await.
Connect ==
    /\ pc = "unconnected"
    /\ pc' = "connecting"
    /\ state' = [state EXCEPT !.connection = "Connecting"]
    /\ Publish(state')
    /\ UNCHANGED <<gate, commands, ui, active, restored, auth, socket, server, sent, removed,
                   budget>>

\* The channel resolved, the welcome received and the three subscriptions made.
Connected ==
    /\ pc = "connecting"
    /\ pc' = "top"
    /\ state' = [state EXCEPT !.identity = active.channel, !.connection = "Joined"]
    /\ socket' = [channel |-> active.channel, rx |-> <<>>]
    /\ server' = [server EXCEPT !.log = <<>>]
    /\ Publish(state')
    /\ UNCHANGED <<gate, commands, ui, active, restored, auth, sent, removed, budget>>

\* What a failure of kind `error` does to the session.
Fails(error, s) ==
    LET f == ApplyConnectionFailure(error, s, auth)
    IN  /\ socket' = None
        /\ state' = [f.s EXCEPT !.due = FALSE]
        /\ auth' \in f.auths
        /\ pc' = "top"
        /\ Publish(state')

\* connect_initial or connect_replacement failed.
ConnectFails ==
    /\ pc \in {"connecting", "replacing"}
    /\ Fault
    /\ \E error \in Errors : Fails(error, state)
    /\ UNCHANGED <<gate, commands, ui, active, restored, server, sent, removed>>

\* connect_replacement: what the old socket had not delivered is gone with it.
Replaced ==
    /\ pc = "replacing"
    /\ pc' = "top"
    /\ state' = [state EXCEPT !.connection = "Joined", !.due = FALSE]
    /\ socket' = [socket EXCEPT !.rx = <<>>]
    /\ server' = [server EXCEPT !.log = SelectSeq(@, LAMBDA d : d \notin ToSet(socket.rx))]
    /\ Publish(state')
    /\ UNCHANGED <<gate, commands, ui, active, restored, auth, sent, removed, budget>>

\* The socket ends, fails or misses its keepalive.
SocketLost ==
    /\ pc = "live"
    /\ Fault
    /\ socket' = None
    /\ pc' = "top"
    /\ state' = [state EXCEPT !.connection = "Reconnecting", !.due = FALSE]
    /\ Publish(state')
    /\ UNCHANGED <<gate, commands, ui, active, restored, auth, server, sent, removed>>

\* EventSub delivers something new on the session.
Deliver(e) ==
    /\ socket # None
    /\ server.deliveries < MaxDeliveries
    /\ LET d == [e EXCEPT !.delivery = server.deliveries + 1]
       IN  /\ socket' = [socket EXCEPT !.rx = Append(@, d)]
           /\ server' = [server EXCEPT !.deliveries = @ + 1, !.log = Append(@, d),
                                       !.posted = IF e.kind = "Message" THEN e.id ELSE @]

Event(kind, id, channel) == [delivery |-> 0, kind |-> kind, id |-> id, channel |-> channel]

Chat ==
    /\ ChatStep
    /\ socket # None
    /\ \/ Deliver(Event("Message", server.posted + 1, socket.channel))
       \/ \E id \in 1..server.posted : Deliver(Event("Delete", id, socket.channel))
       \/ Deliver(Event("Clear", 0, socket.channel))
       \/ Deliver(Event("Reconnect", 0, socket.channel))
       \/ Deliver(Event("Revocation", 0, socket.channel))
    /\ UNCHANGED <<gate, commands, ui, active, restored, auth, state, pc, published, sent, removed>>

\* At-least-once delivery: one of the session's last DedupMax deliveries again.
Redeliver ==
    /\ socket # None
    /\ Fault
    /\ \E i \in DOMAIN server.log :
           /\ i > Len(server.log) - DedupMax
           /\ socket' = [socket EXCEPT !.rx = Append(@, server.log[i])]
    /\ UNCHANGED <<gate, commands, ui, active, restored, auth, state, pc, published, server, sent,
                   removed>>

\* apply_event on the chat of the joined channel.
ApplyEvent(s, e) ==
    IF e.channel # s.identity
    THEN s
    ELSE [s EXCEPT !.due = TRUE,
                   !.buffer = CASE e.kind = "Message" -> UpsertReceived(@, e.id, e.channel)
                                [] e.kind = "Clear" -> <<>>
                                [] e.kind = "Delete" -> RemoveMessage(@, e.id)]

\* Whether the delivery was applied before.
Duplicate(s, e) == e.delivery \in ToSet(s.dedup)

\* The socket has a delivery.
SocketMessage ==
    /\ pc = "live"
    /\ socket.rx # <<>>
    /\ LET e == Head(socket.rx)
           s == [state EXCEPT !.dedup = Remember(@, e.delivery)]
           read == [socket EXCEPT !.rx = Tail(@)]
       IN  CASE Duplicate(state, e) ->
                    /\ pc' = "top" /\ socket' = read
                    /\ UNCHANGED <<state, auth, published, removed>>
             [] ~Duplicate(state, e) /\ e.kind = "Reconnect" ->
                    /\ pc' = "replacing" /\ socket' = read
                    /\ state' = [s EXCEPT !.connection = "Reconnecting"]
                    /\ Publish(state')
                    /\ UNCHANGED <<auth, removed>>
             [] ~Duplicate(state, e) /\ e.kind = "Revocation" ->
                    /\ \E error \in {"Authentication", "Refused"} : Fails(error, s)
                    /\ UNCHANGED removed
             [] ~Duplicate(state, e) /\ e.kind \in {"Message", "Clear", "Delete"} ->
                    /\ pc' = "top" /\ socket' = read
                    /\ state' = ApplyEvent(s, e)
                    /\ removed' = IF e.kind = "Delete" THEN removed \cup {e.id} ELSE removed
                    /\ UNCHANGED <<auth, published>>
    /\ UNCHANGED <<gate, commands, ui, active, restored, server, sent, budget>>

\* The 33 ms of a chat publication are over.
SnapshotDue ==
    /\ pc = "live" /\ state.due
    /\ pc' = "top"
    /\ state' = [state EXCEPT !.due = FALSE]
    /\ Publish(state')
    /\ UNCHANGED <<gate, commands, ui, active, restored, auth, socket, server, sent, removed,
                   budget>>

------------------------------------------------------------------------------
(* Commands while chat is live.                                            *)

\* Mutant: only the session is looked at.
MaySend_anywhere(c) == state.connection = "Joined" /\ auth.can

\* The checks of send_message.
MaySend(c) ==
    /\ state.connection = "Joined"
    /\ c.generation = state.generation
    /\ c.channel = active.channel
    /\ state.identity # None
    /\ auth.can

\* send_message.  The row is pending only while Helix is asked, so no more than one
\* ever is.  A send counts as failed when its answer is lost or names no message,
\* although Helix may have accepted it.
SendMessage(c) ==
    LET row == PushPending(state.buffer, c.request, state.identity)
        failed == [state EXCEPT !.buffer = Settle(row, c.request, 0, "Failed"),
                                !.receipt = c.request, !.due = FALSE]
        accepted == [state EXCEPT !.buffer = Settle(row, c.request, server.posted + 1, "Received"),
                                  !.receipt = c.request, !.due = FALSE]
        quiet == pc' = "top" /\ UNCHANGED auth
        posts == /\ Deliver(Event("Message", server.posted + 1, state.identity))
                 /\ sent' = [meant |-> c.channel, to |-> state.identity]
    IN  \/ /\ ~MaySend(c)
           /\ state' = [Declined(state, c) EXCEPT !.due = FALSE]
           /\ quiet /\ UNCHANGED <<socket, server, sent, budget>>
           /\ Publish(state')
        \/ /\ MaySend(c)
           /\ state' = accepted /\ quiet /\ posts
           /\ UNCHANGED budget
           /\ Publish(state')
        \/ /\ MaySend(c)
           /\ Fault
           /\ \/ /\ state' = failed /\ quiet /\ Publish(state')
                 /\ posts \/ UNCHANGED <<socket, server, sent>>
              \/ Fails("Authentication", failed) /\ UNCHANGED <<server, sent>>

\* handle_live_command.
LiveCommand ==
    /\ pc = "live"
    /\ commands # <<>>
    /\ commands' = Tail(commands)
    /\ LET c == Head(commands)
           leaves(s, a) == /\ s.generation <= MaxGeneration
                           /\ state' = s /\ auth' = a /\ pc' = "top"
                           /\ Publish(s)
       IN  \/ /\ c.kind = "SendMessage"
              /\ SendMessage(c)
           \/ /\ c.kind = "Reconnect"
              /\ socket' = None
              /\ leaves([state EXCEPT !.paused = FALSE, !.connection = "Reconnecting",
                                      !.due = FALSE], auth)
              /\ UNCHANGED <<server, sent, budget>>
           \/ /\ c.kind = "Disconnect"
              /\ socket' = None
              /\ leaves([state EXCEPT !.paused = TRUE, !.connection = "Disconnected",
                                      !.due = FALSE], auth)
              /\ UNCHANGED <<server, sent, budget>>
           \/ /\ c.kind = "SignOut"
              /\ socket' = None
              /\ \E a \in Auth!Forgotten :
                     leaves([ClearPrivateState(state) EXCEPT !.paused = FALSE,
                                                             !.connection = "Disconnected"], a)
              /\ UNCHANGED <<server, sent, budget>>
           \/ /\ c.kind \in {"BeginAuthentication", "CancelAuthentication"}
              /\ leaves([state EXCEPT !.due = FALSE],
                        IF c.kind = "CancelAuthentication" THEN Auth!Cancelled(auth) ELSE auth)
              /\ UNCHANGED <<socket, server, sent, budget>>
    /\ UNCHANGED <<gate, ui, active, restored, removed>>

Next ==
    \/ SetGate \/ BeginSend \/ Command \/ ApplySnapshot
    \/ LoopTop \/ GateWakes \/ RestoreAuth \/ AuthDeadline \/ ClosedCommand
    \/ Connect \/ Connected \/ ConnectFails \/ Replaced \/ SocketLost
    \/ Chat \/ Redeliver \/ SocketMessage \/ SnapshotDue \/ LiveCommand

Spec == Init /\ [][Next]_vars

------------------------------------------------------------------------------
(* Properties.                                                             *)

\* A message goes to the channel the user wrote it for, whatever the gate, the
\* account and the session did while it was queued.  (send_message)
SentWhereMeant == sent.meant = sent.to

\* The buffer holds the chat of the selected channel only, each message once,
\* and never one whose deletion was applied, although EventSub delivers at
\* least once and the user's own messages are echoed.
EachMessageOnce ==
    /\ \A i, j \in DOMAIN state.buffer :
           i # j /\ state.buffer[i].id # 0 => state.buffer[i].id # state.buffer[j].id
    /\ \A i \in DOMAIN state.buffer : state.buffer[i].id \notin removed

\* Chat never outlives the channel, the widget or the master switch it belongs
\* to: disabling or switching forgets it before the next wait.
ChatOfSelectedChannel ==
    /\ \A i \in DOMAIN state.buffer : state.buffer[i].channel = active.channel
    /\ ~active.lifecycle \/ ~active.widget => state.buffer = <<>> /\ socket = None
    /\ socket # None => socket.channel = active.channel /\ AllowsControl(active)

\* A send the widget waits for is still queued, or the snapshot to be shown
\* next ends the wait: the composer is never stuck.
SendIsAnswered ==
    ui.pending # 0 =>
        \/ \E i \in DOMAIN commands :
               commands[i].kind = "SendMessage" /\ commands[i].request = ui.pending
        \/ published.receipt = ui.pending
        \/ published.generation # ui.generation

\* Messages the snapshot lacks are due: a chat line is never held back until
\* something else happens.
NothingHeldBack ==
    pc = "live" /\ published.messages # state.buffer => state.due
==============================================================================
