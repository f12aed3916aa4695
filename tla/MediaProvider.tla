---------------------------- MODULE MediaProvider ----------------------------
(***************************************************************************)
(* The media widget: media/client.rs and media/mpris.rs (one worker thread *)
(* that polls the players of the session bus and obeys the clicks), the    *)
(* channel of runtime/latest.rs that carries its snapshots and the         *)
(* readiness bit of runtime/readiness.rs that tells the egui thread to     *)
(* look at it.  A player is asked for its state while others still change, *)
(* a click names the player that was shown, and neither thread ever waits  *)
(* for the other.  The lengths of the poll interval, the backoff and the   *)
(* operation timeout are left out: each may end at any moment.             *)
(***************************************************************************)
EXTENDS Naturals, Sequences, FiniteSets

CONSTANTS Players,         \* bus names, numbered in their lexical order
          PlayerStates,    \* the [status, can] a player may be in
          CandidateLimit,  \* MPRIS_CANDIDATE_LIMIT
          CommandCapacity, \* COMMAND_CAPACITY
          Budgets          \* [changes, clicks, faults] followed

VARIABLES bus,      \* the players on the bus: name -> [status, can], 0 when absent
          worker,   \* [pc, then, names, selected, current, command]
          channel,  \* LatestChannel: [value, pending, token]
          ready,    \* the MEDIA bit of ProviderReadiness
          repaint,  \* a frame has been asked for
          ui,       \* [pc, snapshot]
          commands, \* the command queue
          shutdown,
          called,   \* the calls made since the last discovery
          budget

vars == <<bus, worker, channel, ready, repaint, ui, commands, shutdown, called, budget>>

MediaAction == {"Previous", "PlayPause", "Next"}
Absent == [status |-> "none", can |-> {}]

\* MediaSnapshot, with the track and the error's text left out.
MediaSnapshot(name, player, error) == [name |-> name, status |-> player.status,
                                       can |-> player.can, error |-> error]
NoPlayer == MediaSnapshot(0, [status |-> "Stopped", can |-> {}], FALSE)
ProviderError == [NoPlayer EXCEPT !.error = TRUE]
NoCommand == [name |-> 0, action |-> "none"]

Priority(status) == CASE status = "Playing" -> 2 [] status = "Paused" -> 1 [] OTHER -> 0

Supports(snapshot, action) ==
    /\ snapshot.name # 0
    /\ CASE action = "Previous" -> "previous" \in snapshot.can
         [] action = "Next" -> "next" \in snapshot.can
         [] OTHER -> (IF snapshot.status = "Playing" THEN "pause" ELSE "play") \in snapshot.can

\* consider_player: the higher status wins, then the lexically first name.
ConsiderPlayer(selected, candidate) ==
    IF \/ selected.name = 0
       \/ Priority(candidate.status) > Priority(selected.status)
       \/ Priority(candidate.status) = Priority(selected.status) /\ candidate.name < selected.name
      THEN candidate ELSE selected

\* command_method: a queued command is for the player it names, while that player
\* is still the selected one.
CommandMethod(current, command) ==
    current.name = command.name /\ Supports(current, command.action)

Init ==
    /\ bus = [p \in Players |-> Absent]
    /\ worker = [pc |-> "connect", then |-> "connect", names |-> {}, selected |-> NoPlayer,
                 current |-> NoPlayer, command |-> NoCommand]
    /\ channel = [value |-> NoPlayer, pending |-> FALSE, token |-> FALSE]
    /\ ready = FALSE /\ repaint = FALSE /\ shutdown = FALSE
    /\ ui = [pc |-> "idle", snapshot |-> NoPlayer]
    /\ commands = <<>> /\ called = {}
    /\ budget \in Budgets

Spend(kind) == budget[kind] > 0 /\ budget' = [budget EXCEPT ![kind] = @ - 1]

------------------------------------------------------------------------------
(* Publication.  LatestPublisher::publish stores the value, then puts the  *)
(* one token; only then is the readiness bit set and a frame asked for.    *)

\* publish_if_changed, up to the unlock of the value.
PublishIfChanged(snapshot, w, then) ==
    IF channel.value = snapshot
      THEN worker' = [w EXCEPT !.pc = then] /\ UNCHANGED channel
      ELSE /\ channel' = [channel EXCEPT !.value = snapshot, !.pending = TRUE]
           /\ worker' = [w EXCEPT !.pc = "notify", !.then = then]

NotifyReceiver ==
    /\ worker.pc = "notify"
    /\ channel' = [channel EXCEPT !.token = TRUE]
    /\ worker' = [worker EXCEPT !.pc = "mark"]
    /\ UNCHANGED <<bus, ready, repaint, ui, commands, shutdown, called, budget>>

\* Mutant: the callback only asks for a frame.
MarkMedia_forgotten ==
    /\ worker.pc = "mark"
    /\ worker' = [worker EXCEPT !.pc = "repaint"]
    /\ UNCHANGED <<bus, channel, ready, repaint, ui, commands, shutdown, called, budget>>

\* readiness.mark(MEDIA), before the frame is asked for.
MarkMedia ==
    /\ worker.pc = "mark"
    /\ ready' = TRUE
    /\ worker' = [worker EXCEPT !.pc = "repaint"]
    /\ UNCHANGED <<bus, channel, repaint, ui, commands, shutdown, called, budget>>

RequestRepaint ==
    /\ worker.pc = "repaint"
    /\ repaint' = TRUE
    /\ worker' = [worker EXCEPT !.pc = worker.then]
    /\ UNCHANGED <<bus, channel, ready, ui, commands, shutdown, called, budget>>

------------------------------------------------------------------------------
(* The worker.  Every wait gives way to the shutdown first.                *)

Waits == {"connect", "list", "read", "wait", "execute", "backoff"}

Shutdown ==
    /\ shutdown /\ worker.pc \in Waits
    /\ worker' = [worker EXCEPT !.pc = "done"]
    /\ UNCHANGED <<bus, channel, ready, repaint, ui, commands, shutdown, called, budget>>

At(pc) == worker.pc = pc /\ ~shutdown

Connect ==
    /\ At("connect")
    /\ worker' = [worker EXCEPT !.pc = "list"]
    /\ UNCHANGED <<bus, channel, ready, repaint, ui, commands, shutdown, called, budget>>

\* The connection or the discovery fails, or takes too long.
Fail ==
    /\ At("connect") \/ At("list") \/ At("read")
    /\ Spend("faults")
    /\ PublishIfChanged(ProviderError, worker, "backoff")
    /\ UNCHANGED <<bus, ready, repaint, ui, commands, shutdown, called>>

Backoff ==
    /\ At("backoff")
    /\ worker' = [worker EXCEPT !.pc = "connect"]
    /\ UNCHANGED <<bus, channel, ready, repaint, ui, commands, shutdown, called, budget>>

\* discover_player: the names are listed once, filter_mpris_bus_names refuses too many.
ListNames ==
    LET names == {p \in Players : bus[p] # Absent} IN
    /\ At("list")
    /\ IF Cardinality(names) > CandidateLimit
         THEN PublishIfChanged(ProviderError, worker, "backoff")
         ELSE /\ worker' = [worker EXCEPT !.pc = "read", !.names = names, !.selected = NoPlayer]
              /\ UNCHANGED channel
    /\ UNCHANGED <<bus, ready, repaint, ui, commands, shutdown, called, budget>>

\* read_player and consider_player.  A player that has gone, or that answers with
\* an error, is passed over.
ReadPlayer(p) ==
    /\ At("read")
    /\ p \in worker.names
    /\ \/ bus[p] # Absent /\ UNCHANGED budget
          /\ worker' = [worker EXCEPT !.names = @ \ {p},
                                      !.selected = ConsiderPlayer(@, MediaSnapshot(p, bus[p], FALSE))]
       \/ (IF bus[p] = Absent THEN UNCHANGED budget ELSE Spend("faults"))
          /\ worker' = [worker EXCEPT !.names = @ \ {p}]
    /\ UNCHANGED <<bus, channel, ready, repaint, ui, commands, shutdown, called>>

Discovered ==
    /\ At("read") /\ worker.names = {}
    /\ PublishIfChanged(worker.selected, [worker EXCEPT !.current = worker.selected], "wait")
    /\ called' = {}
    /\ UNCHANGED <<bus, ready, repaint, ui, commands, shutdown, budget>>

\* poll.tick()
PollTick ==
    /\ At("wait")
    /\ worker' = [worker EXCEPT !.pc = "list"]
    /\ UNCHANGED <<bus, channel, ready, repaint, ui, commands, shutdown, called, budget>>

TakeCommand ==
    /\ At("wait") /\ commands # <<>>
    /\ worker' = [worker EXCEPT !.pc = "execute", !.command = Head(commands)]
    /\ commands' = Tail(commands)
    /\ UNCHANGED <<bus, channel, ready, repaint, ui, shutdown, called, budget>>

\* execute_command: the call may fail, time out or be refused; polling goes on.
ExecuteCommand ==
    /\ At("execute")
    /\ called' = IF CommandMethod(worker.current, worker.command)
                   THEN called \cup {worker.command} ELSE called
    /\ worker' = [worker EXCEPT !.pc = "wait", !.command = NoCommand]
    /\ UNCHANGED <<bus, channel, ready, repaint, ui, commands, shutdown, budget>>

------------------------------------------------------------------------------
(* The egui thread, and the players.                                       *)

\* A frame is drawn when asked for, or whenever the user does something.
Frame ==
    /\ ui.pc = "idle" /\ ~shutdown
    /\ repaint' = FALSE
    /\ ui' = [ui EXCEPT !.pc = "ready"]
    /\ UNCHANGED <<bus, worker, channel, ready, commands, shutdown, called, budget>>

TakeReady ==
    /\ ui.pc = "ready"
    /\ ready' = FALSE
    /\ ui' = [ui EXCEPT !.pc = IF ready THEN "recv" ELSE "idle"]
    /\ UNCHANGED <<bus, worker, channel, repaint, commands, shutdown, called, budget>>

\* take_latest, in its two steps.
TakeToken ==
    /\ ui.pc = "recv"
    /\ channel' = [channel EXCEPT !.token = FALSE]
    /\ ui' = [ui EXCEPT !.pc = IF channel.token THEN "lock" ELSE "idle"]
    /\ UNCHANGED <<bus, worker, ready, repaint, commands, shutdown, called, budget>>

TakeValue ==
    /\ ui.pc = "lock"
    /\ channel' = [channel EXCEPT !.pending = FALSE]
    /\ ui' = [pc |-> "idle", snapshot |-> IF channel.pending THEN channel.value ELSE ui.snapshot]
    /\ UNCHANGED <<bus, worker, ready, repaint, commands, shutdown, called, budget>>

\* MediaClient::send: a full queue drops the click.
Send(action) ==
    /\ ui.pc = "idle" /\ ~shutdown
    /\ Spend("clicks")
    /\ Supports(ui.snapshot, action)
    /\ commands' = IF Len(commands) < CommandCapacity
                     THEN Append(commands, [name |-> ui.snapshot.name, action |-> action])
                     ELSE commands
    /\ UNCHANGED <<bus, worker, channel, ready, repaint, ui, shutdown, called>>

\* MediaClient::drop
Drop ==
    /\ ui.pc = "idle" /\ ~shutdown
    /\ shutdown' = TRUE
    /\ UNCHANGED <<bus, worker, channel, ready, repaint, ui, commands, called, budget>>

PlayerChanges(p) ==
    /\ Spend("changes")
    /\ \E player \in PlayerStates \cup {Absent} :
         player # bus[p] /\ bus' = [bus EXCEPT ![p] = player]
    /\ UNCHANGED <<worker, channel, ready, repaint, ui, commands, shutdown, called>>

WorkerStep ==
    \/ NotifyReceiver \/ MarkMedia \/ RequestRepaint
    \/ Shutdown \/ Connect \/ Fail \/ Backoff \/ ListNames
    \/ \E p \in Players : ReadPlayer(p)
    \/ Discovered \/ PollTick \/ TakeCommand \/ ExecuteCommand

Next ==
    \/ WorkerStep
    \/ Frame \/ TakeReady \/ TakeToken \/ TakeValue
    \/ \E action \in MediaAction : Send(action)
    \/ Drop
    \/ \E p \in Players : PlayerChanges(p)

Spec == Init /\ [][Next]_vars

------------------------------------------------------------------------------
(* Properties.                                                             *)

\* No snapshot is stranded in the channel: until the egui thread has taken the
\* published value, either the worker is still on its way to ask for a frame, or a
\* frame is asked for (or being drawn) that will find the bit, the token and the value.
NoStrandedSnapshot ==
    channel.pending =>
      \/ worker.pc \in {"notify", "mark", "repaint"}
      \/ channel.token /\ ready /\ (repaint \/ ui.pc = "ready")
      \/ channel.token /\ ui.pc = "recv"
      \/ ui.pc = "lock"

\* The worker judges a click by what it has published: until the next discovery, every
\* player that was called is the one of the latest snapshot, and that snapshot offers the
\* control that was used, however many clicks were queued before it was found.
ClicksHitTheShownPlayer ==
    worker.pc \in {"wait", "execute"} =>
      \A c \in called : c.name = channel.value.name /\ Supports(channel.value, c.action)

\* No snapshot waits without a wakeup of the egui thread, and a click reaches only the
\* player of the latest snapshot.
PlayerIsShown == NoStrandedSnapshot /\ ClicksHitTheShownPlayer
==============================================================================
