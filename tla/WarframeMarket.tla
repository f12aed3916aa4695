---------------------------- MODULE WarframeMarket ----------------------------
(***************************************************************************)
(* The Warframe market widget: warframe/market/client.rs (a worker thread  *)
(* fed through a bounded queue), and what warframe/controller.rs and       *)
(* runtime/scheduler.rs do with it on every frame.  The egui thread closes *)
(* and opens the gate, sends commands and fires the automatic refresh; the *)
(* worker fetches and publishes.  A generation tells the answers of an     *)
(* earlier opening of the gate from those of this one.                     *)
(*   Names, orders and times are abstracted: next_refresh_at_secs is       *)
(* "zero" (now), "later" or "never" (u64::MAX).  The steps of the channel  *)
(* that carries the snapshots are those of MediaProvider; here publishing  *)
(* is one step.                                                            *)
(***************************************************************************)
EXTENDS Naturals, Sequences, FiniteSets

CONSTANTS Items,           \* slugs that can be selected
          CommandCapacity, \* COMMAND_CAPACITY
          Budgets,         \* [gates, commands, timeouts] followed
          None

VARIABLES gate,            \* [enabled, generation]: the atomics set_enabled writes
          refresh_pending, \* the atomic that coalesces the automatic refreshes
          queue,           \* commands with the generation they were sent in
          current,         \* the publisher's MarketSnapshot
          unread,          \* it has not been taken by the egui thread
          view,            \* the egui thread's MarketSnapshot
          deadline,        \* the scheduler's market_refresh: "none", "armed", "fire" (sync is
                           \* about to send) or "fired"
          worker,          \* [pc, request, snapshot]
          shutdown,
          budget

vars == <<gate, refresh_pending, queue, current, unread, view, deadline, worker, shutdown,
          budget>>

NoSnapshot == [selected |-> None, status |-> None, error |-> FALSE, next_refresh |-> "zero"]
NoRequest == [generation |-> 0, command |-> "none", item |-> None]
Idle == [pc |-> "recv", request |-> NoRequest, snapshot |-> NoSnapshot]

Init ==
    /\ gate = [enabled |-> FALSE, generation |-> 0]
    /\ refresh_pending = FALSE /\ queue = <<>>
    /\ current = NoSnapshot /\ unread = FALSE /\ view = NoSnapshot
    /\ deadline = "none" /\ worker = Idle /\ shutdown = FALSE
    /\ budget \in Budgets

Spend(kind) == budget[kind] > 0 /\ budget' = [budget EXCEPT ![kind] = @ - 1]

\* LatestPublisher::publish and update, with the repaint that follows.
Publish(snapshot) == current' = snapshot /\ unread' = TRUE
PublishIf(wanted, snapshot) ==
    IF wanted THEN Publish(snapshot) ELSE UNCHANGED <<current, unread>>

------------------------------------------------------------------------------
(* The egui thread.                                                        *)

\* MarketClient::send.  The result holds what it leaves behind.
SendCommand(command, item, pending, q, generation) ==
    LET refresh == command = "refresh"
        full == Len(q) = CommandCapacity
    IN  IF refresh /\ pending
          THEN [pending |-> pending, queue |-> q, busy |-> FALSE]
          ELSE [pending |-> IF refresh THEN ~full ELSE pending,
                queue |-> IF full THEN q
                          ELSE Append(q, [generation |-> generation, command |-> command,
                                          item |-> item]),
                busy |-> full]

Busy(snapshot) == [snapshot EXCEPT !.status = "busy"]

\* The egui thread is in none of the calls below.
InUse == ~shutdown /\ deadline # "fire"

\* What a command does when the gate is open; nothing comes of one when it is closed, and
\* a refresh is due only when it is open.
SendIt(command, item) ==
    /\ gate.enabled
    /\ LET sent == SendCommand(command, item, refresh_pending, queue, gate.generation)
       IN  /\ queue' = sent.queue
           /\ refresh_pending' = sent.pending
           /\ PublishIf(sent.busy /\ current.status # "busy", Busy(current))

\* The user searches, selects or clears.
Send(command, item) ==
    /\ InUse
    /\ Spend("commands")
    /\ SendIt(command, item)
    /\ UNCHANGED <<gate, view, deadline, worker, shutdown>>

\* set_enabled: closing the gate takes back the status and the next refresh.
Closed(snapshot) == [snapshot EXCEPT !.status = None, !.next_refresh = "zero"]

SetEnabled(enabled) ==
    IF enabled = gate.enabled
      THEN gate' = gate
      ELSE gate' = [enabled |-> enabled, generation |-> gate.generation + 1]

\* OverlayScheduler::take_market_refresh.  Every publication has a new revision, so a
\* deadline is made anew exactly when a snapshot was taken; it fires once, when its
\* time has come (due).
Deadline(enabled, snapshot, taken, due) ==
    IF ~enabled \/ snapshot.selected = None \/ snapshot.next_refresh = "never"
      THEN "none"
      ELSE LET mine == IF taken \/ deadline = "none" THEN "armed" ELSE deadline
           IN  IF mine = "armed" /\ (due \/ snapshot.next_refresh = "zero") THEN "fire" ELSE mine

\* WarframeController::sync, as far as take_market_refresh.  The worker publishes nothing
\* between set_enabled and take_latest that it could not publish before or after: a gate
\* that was just moved has no request of its generation.
Sync(enabled, due) ==
    /\ InUse
    /\ IF enabled = gate.enabled THEN UNCHANGED budget ELSE Spend("gates")
    /\ SetEnabled(enabled)
    /\ LET closing == gate.enabled /\ ~enabled
                      /\ (current.status # None \/ current.next_refresh # "zero")
           published == IF closing THEN Closed(current) ELSE current
           taken == unread \/ closing
           seen == IF taken THEN published ELSE view
       IN  /\ current' = published /\ unread' = FALSE
           /\ view' = seen
           /\ deadline' = Deadline(enabled, seen, taken, due)
    /\ UNCHANGED <<refresh_pending, queue, worker, shutdown>>

\* The rest of the sync whose deadline came: the refresh is sent.  The worker may have
\* moved on since the snapshot was taken.
RefreshSelected ==
    /\ deadline = "fire"
    /\ SendIt("refresh", None)
    /\ deadline' = "fired"
    /\ UNCHANGED <<gate, view, worker, shutdown, budget>>

\* MarketClient::drop
Drop ==
    /\ InUse
    /\ shutdown' = TRUE
    /\ gate' = [enabled |-> FALSE, generation |-> gate.generation + 1]
    /\ UNCHANGED <<refresh_pending, queue, current, unread, view, deadline, worker, budget>>

------------------------------------------------------------------------------
(* The worker.                                                             *)

RequestIsCurrent(request) == gate.enabled /\ gate.generation = request.generation

\* publish_worker_if_current, under the publication gate.
PublishWorkerIfCurrent(request, snapshot) ==
    PublishIf(~shutdown /\ RequestIsCurrent(request) /\ current # snapshot, snapshot)

\* Mutant: a dropped refresh stays marked as queued.
Skip_keeping(request) == UNCHANGED refresh_pending

\* A request that is dropped before it is worked on.
Skip(request) == refresh_pending' = (refresh_pending /\ request.command # "refresh")

Receive ==
    /\ worker.pc = "recv"
    /\ queue # <<>>
    /\ LET request == Head(queue)
       IN  IF ~shutdown /\ RequestIsCurrent(request)
             THEN /\ worker' = [worker EXCEPT !.pc = "begin", !.request = request]
                  /\ UNCHANGED refresh_pending
             ELSE /\ worker' = [Idle EXCEPT !.pc = IF shutdown THEN "done" ELSE "recv"]
                  /\ Skip(request)
    /\ queue' = Tail(queue)
    /\ UNCHANGED <<gate, current, unread, view, deadline, shutdown, budget>>

\* The worker's copy of the snapshot, and the status shown while it fetches.
Begin ==
    /\ worker.pc = "begin"
    /\ LET request == worker.request
           shown == CASE request.command = "search" ->
                           [current EXCEPT !.status = "searching", !.error = FALSE]
                      [] request.command = "select" ->
                           [current EXCEPT !.status = "loading", !.error = FALSE,
                                           !.next_refresh = "never"]
                      [] request.command = "clear" -> NoSnapshot
                      [] OTHER -> current
       IN  IF request.command = "refresh" /\ current.selected = None
             THEN worker' = Idle /\ Skip(request) /\ UNCHANGED <<current, unread>>
             ELSE /\ worker' = [worker EXCEPT !.snapshot = shown,
                                  !.pc = IF request.command = "clear" THEN "publish" ELSE "fetch"]
                  /\ (IF request.command \in {"search", "select"}
                        THEN PublishWorkerIfCurrent(request, shown)
                        ELSE UNCHANGED <<current, unread>>)
                  /\ UNCHANGED refresh_pending
    /\ UNCHANGED <<gate, queue, view, deadline, shutdown, budget>>

\* backend.search or backend.orders answers.
Fetched ==
    /\ worker.pc = "fetch"
    /\ worker' = [worker EXCEPT !.pc = "publish",
         !.snapshot = IF worker.request.command = "search"
                        THEN [@ EXCEPT !.selected = None, !.next_refresh = "zero", !.status = None]
                        ELSE [selected |-> IF worker.request.command = "select"
                                             THEN worker.request.item ELSE @.selected,
                              status |-> None, error |-> FALSE, next_refresh |-> "later"]]
    /\ UNCHANGED <<gate, refresh_pending, queue, current, unread, view, deadline, shutdown,
                   budget>>

\* It fails: retry_policy says when to try again, the orders shown are kept, and a
\* silent refresh leaves the status as it was.
FetchFails ==
    /\ worker.pc = "fetch"
    /\ Spend("timeouts")
    /\ worker' = [worker EXCEPT !.pc = "publish",
         !.snapshot = [@ EXCEPT !.error = TRUE,
                         !.status = IF worker.request.command = "refresh"
                                      THEN worker.snapshot.status ELSE None,
                         !.next_refresh = IF worker.request.command = "search"
                                            THEN worker.snapshot.next_refresh ELSE "later"]]
    /\ UNCHANGED <<gate, refresh_pending, queue, current, unread, view, deadline, shutdown>>

PublishResult ==
    /\ worker.pc = "publish"
    /\ PublishWorkerIfCurrent(worker.request, worker.snapshot)
    /\ worker' = [worker EXCEPT !.pc = "settle"]
    /\ UNCHANGED <<gate, refresh_pending, queue, view, deadline, shutdown, budget>>

Settle ==
    /\ worker.pc = "settle"
    /\ Skip(worker.request)
    /\ worker' = [Idle EXCEPT !.pc = IF shutdown THEN "done" ELSE "recv"]
    /\ UNCHANGED <<gate, queue, current, unread, view, deadline, shutdown, budget>>

\* The queue is empty and its sender gone.
Disconnected ==
    /\ worker.pc = "recv"
    /\ shutdown /\ queue = <<>>
    /\ worker' = [worker EXCEPT !.pc = "done"]
    /\ refresh_pending' = FALSE
    /\ UNCHANGED <<gate, queue, current, unread, view, deadline, shutdown, budget>>

Next ==
    \/ \E item \in Items : Send("select", item)
    \/ \E command \in {"search", "clear"} : Send(command, None)
    \/ \E enabled, due \in BOOLEAN : Sync(enabled, due)
    \/ RefreshSelected \/ Drop
    \/ Receive \/ Begin \/ Fetched \/ FetchFails \/ PublishResult \/ Settle \/ Disconnected

Spec == Init /\ [][Next]_vars

------------------------------------------------------------------------------
(* Properties.                                                             *)

Working == worker.pc \notin {"recv", "done"}

\* The flag that coalesces refreshes never outlives its refresh: while it is up, a
\* refresh is queued or being worked on, so that a later refresh is not turned away
\* for ever.
RefreshPendingIsReal ==
    refresh_pending /\ ~shutdown =>
      \/ \E k \in DOMAIN queue : queue[k].command = "refresh"
      \/ Working /\ worker.request.command = "refresh"

\* "Searching" and "loading" are shown only while the worker works for this opening of
\* the gate, and a closed gate shows no status at all: an answer that comes after the gate
\* closed never leaves the widget waiting for nothing.
StatusHasWork ==
    ~shutdown =>
      /\ current.status \in {"searching", "loading"} =>
           Working /\ RequestIsCurrent(worker.request)
      /\ ~gate.enabled => current.status = None

\* The flag that coalesces refreshes is set only while a refresh is queued or under way,
\* and a status that promises an answer has work behind it.
MarketWaitsForWork == RefreshPendingIsReal /\ StatusHasWork
==============================================================================
