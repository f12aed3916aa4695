-------------------------- MODULE SessionCoordinator --------------------------
(***************************************************************************)
(* overcrow-core's session coordinator: it keeps the systemd user units of *)
(* a session (overlay, Hyprland bridge) in step with whether a selected    *)
(* game runs, and stops them when Core shuts down.                         *)
(*                                                                         *)
(* Two tasks run coordinator code under the `transition` mutex: "task",    *)
(* the loop of run_session_coordinator, and "cleanup", the forced cleanup  *)
(* that the shutdown sequence spawns.  One action is one step between two  *)
(* awaits: a systemctl command, a wait, or a lock.  The locals of the      *)
(* methods that run under the mutex (step, failed, then) exist once,       *)
(* because the mutex has one holder.                                       *)
(*                                                                         *)
(* systemd is external.  A command that succeeds has put its unit in the   *)
(* state it asked for and replaced any older job of the unit.  A command   *)
(* that fails, times out or is cancelled may leave its job behind, and the *)
(* job may finish at any later time.                                       *)
(***************************************************************************)
EXTENDS Naturals, Sequences

CONSTANTS
    MaxFailures,   \* bound: commands that fail on their own
    MaxChanges     \* bound: changes of the desired state

VARIABLES
    desktop,           \* the detected DesktopSession
    units,             \* the units that are active
    jobs,              \* the job systemd still has for a unit
    game,              \* CoreRuntime has an active game
    desired,           \* selected_running, the watch channel's value
    changed,           \* the channel changed since the task read it
    want,              \* the task's local copy
    applied,           \* AppliedState
    lock,              \* holder of the transition mutex
    pc,                \* where each task is
    step, failed, then,\* locals of the mutex holder
    final,             \* the task runs its last reconcile(false)
    transition_failed, \* the task's last reconcile failed
    shutdown,          \* the shutdown watch channel
    cancelled,         \* the runner's cancellation flag
    main,              \* where shutdown_session_coordinator is
    shutdown_error, cleanup_error,
    failures, changes  \* how often commands failed and `desired` changed

session == <<applied, lock, pc, step, failed, then, final, transition_failed>>
systemd == <<units, jobs>>
channel == <<desired, changed, changes>>
shutting == <<shutdown, cancelled, main, shutdown_error, cleanup_error>>
vars == <<desktop, systemd, game, channel, want, session, shutting, failures>>

-----------------------------------------------------------------------------
\* Plans

DesktopSession ==
    {"X11", "Hyprland", "PlasmaWayland", "GnomeWayland", "Unsupported"}
Units == {"overlay", "hyprland"}
Procs == {"task", "cleanup"}

start_command_plan(d) ==
    CASE d = "Hyprland"    -> <<"overlay", "hyprland">>
      [] d = "Unsupported" -> << >>
      [] OTHER             -> <<"overlay">>

\* Mutant: the bridge's unit is forgotten.
stop_command_plan_overlay_only(d) == <<"overlay">>

stop_command_plan(d) ==
    IF d \in {"Hyprland", "Unsupported"} THEN <<"hyprland", "overlay">>
    ELSE <<"overlay">>

\* The units the coordinator answers for.
Owned == IF desktop \in {"Hyprland", "Unsupported"} THEN Units ELSE {"overlay"}

-----------------------------------------------------------------------------
\* systemctl (external)

Succeed(verb, u) ==
    /\ ~cancelled
    /\ units' = IF verb = "start" THEN units \cup {u} ELSE units \ {u}
    /\ jobs' = [jobs EXCEPT ![u] = "none"]
    /\ UNCHANGED failures

\* A command that does not succeed may or may not have queued its job.
Leave(verb, u) ==
    /\ jobs' \in {jobs, [jobs EXCEPT ![u] = verb]}
    /\ UNCHANGED units

Fail(verb, u) ==
    /\ Leave(verb, u)
    /\ \/ cancelled /\ UNCHANGED failures
       \/ ~cancelled /\ failures < MaxFailures /\ failures' = failures + 1

job_completes(u) ==
    /\ jobs[u] # "none"
    /\ units' = IF jobs[u] = "start" THEN units \cup {u} ELSE units \ {u}
    /\ jobs' = [jobs EXCEPT ![u] = "none"]
    /\ UNCHANGED <<desktop, game, channel, want, session, shutting, failures>>

\* A unit ends on its own, or its restart policy gives up.
unit_exits(u) ==
    /\ u \in units
    /\ units' = units \ {u}
    /\ UNCHANGED <<desktop, jobs, game, channel, want, session, shutting,
                   failures>>

-----------------------------------------------------------------------------
\* The methods that run under the transition mutex

\* reconcile or force_stop_all returns to its caller and drops the mutex.
Return(p, ok) ==
    /\ lock' = "none"
    /\ pc' = [pc EXCEPT ![p] = IF p = "cleanup" \/ final
                               THEN (IF ok THEN "ok" ELSE "err")
                               ELSE "check"]
    /\ transition_failed' = IF p = "task" THEN ~ok ELSE transition_failed
    /\ UNCHANGED <<step, failed, then, final>>

\* The head of stop_all_locked: the game is cleared before any unit stops.
BeginStop(p, next) ==
    /\ game' = FALSE
    /\ pc' = [pc EXCEPT ![p] = "stop"]
    /\ step' = 1
    /\ failed' = FALSE
    /\ then' = next
    /\ lock' = p
    /\ UNCHANGED <<final, transition_failed>>

BeginStart(p) ==
    /\ pc' = [pc EXCEPT ![p] = "start"]
    /\ step' = 1
    /\ lock' = p
    /\ UNCHANGED <<failed, then, final, transition_failed>>

\* The mutex is granted; reconcile decides.
reconcile ==
    /\ pc["task"] = "lock"
    /\ lock = "none"
    /\ \/ /\ applied = "NeedsCleanup"
          /\ BeginStop("task", IF desktop = "Unsupported" THEN "return" ELSE "match")
          /\ UNCHANGED applied
       \/ /\ applied # "NeedsCleanup" /\ desktop = "Unsupported"
          /\ game' = FALSE
          /\ applied' = "Stopped"
          /\ Return("task", TRUE)
       \/ /\ applied = "Stopped" /\ want /\ desktop # "Unsupported"
          /\ BeginStart("task")
          /\ UNCHANGED <<applied, game>>
       \/ /\ applied = "Running" /\ ~want /\ desktop # "Unsupported"
          /\ BeginStop("task", "return")
          /\ UNCHANGED applied
       \/ /\ applied = (IF want THEN "Running" ELSE "Stopped")
          /\ desktop # "Unsupported"
          /\ Return("task", TRUE)
          /\ UNCHANGED <<applied, game>>
    /\ UNCHANGED <<desktop, systemd, channel, want, shutting, failures>>

force_stop_all ==
    /\ pc["cleanup"] = "lock"
    /\ lock = "none"
    /\ BeginStop("cleanup", "return")
    /\ UNCHANGED <<desktop, systemd, channel, want, applied, shutting, failures>>

\* One command of the start plan.  The first failure undoes the session.
start ==
    /\ pc["task"] = "start"
    /\ LET plan == start_command_plan(desktop)
           u    == plan[step]
       IN  \/ /\ Succeed("start", u)
              /\ UNCHANGED game
              /\ IF step < Len(plan)
                 THEN /\ step' = step + 1
                      /\ UNCHANGED <<applied, lock, pc, failed, then, final,
                                     transition_failed>>
                 ELSE applied' = "Running" /\ Return("task", TRUE)
           \/ /\ Fail("start", u)
              /\ applied' = "NeedsCleanup"
              /\ BeginStop("task", "fail")
    /\ UNCHANGED <<desktop, channel, want, shutting>>

\* The tail of stop_all_locked and what its caller does with the result.
stop_all_finish(p, ok) ==
    IF ok
    THEN /\ applied' = "Stopped"
         /\ IF then = "match" /\ want THEN BeginStart(p)
            ELSE Return(p, then # "fail")
    ELSE /\ applied' = "NeedsCleanup"
         /\ Return(p, FALSE)

\* One command of the stop plan.  Every command is tried.
stop_all_locked(p) ==
    /\ pc[p] = "stop"
    /\ LET plan == stop_command_plan(desktop)
           u    == plan[step]
       IN  \E ok \in BOOLEAN :
             /\ IF ok THEN Succeed("stop", u) ELSE Fail("stop", u)
             /\ IF step < Len(plan)
                THEN /\ step' = step + 1
                     /\ failed' = (failed \/ ~ok)
                     /\ UNCHANGED <<applied, lock, pc, then, final,
                                    transition_failed>>
                ELSE stop_all_finish(p, ok /\ ~failed)
    /\ UNCHANGED <<desktop, game, channel, want, shutting>>

-----------------------------------------------------------------------------
\* run_session_coordinator_with_retry

\* The task goes back to reconcile with a new wish.
Again(w, last) ==
    /\ pc' = [pc EXCEPT !["task"] = "lock"]
    /\ want' = w
    /\ final' = last
    /\ UNCHANGED <<applied, lock, step, failed, then, transition_failed>>

\* Mutant: the channel is marked as seen and its value not read.
TakeDesired_unread == Again(want, FALSE) /\ changed' = FALSE

TakeDesired == Again(desired, FALSE) /\ changed' = FALSE
TakeShutdown == Again(FALSE, TRUE) /\ UNCHANGED changed

\* The checks after reconcile, without an await.
after_reconcile ==
    /\ pc["task"] = "check"
    /\ IF shutdown THEN TakeShutdown
       ELSE IF changed THEN TakeDesired
       ELSE /\ pc' = [pc EXCEPT !["task"] = "wait"]
            /\ UNCHANGED <<applied, lock, step, failed, then, final,
                           transition_failed, want, changed>>
    /\ UNCHANGED <<desktop, systemd, game, desired, changes, shutting, failures>>

\* The select!: shutdown, a new wish, or after a failure the retry delay.
wait ==
    /\ pc["task"] = "wait"
    /\ \/ shutdown /\ TakeShutdown
       \/ changed /\ TakeDesired
       \/ transition_failed /\ Again(want, FALSE) /\ UNCHANGED changed
    /\ UNCHANGED <<desktop, systemd, game, desired, changes, shutting, failures>>

\* CoreRuntime: the last selected process ends (and with it the game) or the
\* first one starts; a selected process's window is reported.
selected_changes ==
    /\ changes < MaxChanges
    /\ changes' = changes + 1
    /\ desired' = ~desired
    /\ changed' = TRUE
    /\ game' = (game /\ desired')
    /\ UNCHANGED <<desktop, systemd, want, session, shutting, failures>>

game_reported ==
    /\ desired /\ ~game
    /\ game' = TRUE
    /\ UNCHANGED <<desktop, systemd, channel, want, session, shutting, failures>>

-----------------------------------------------------------------------------
\* shutdown_session_coordinator_with_timeouts

Ended(p) == pc[p] \in {"ok", "err", "aborted"}

\* A task is dropped at its await: the mutex is released and a running
\* systemctl is killed, but not its job.
Abort(p) ==
    /\ pc' = [pc EXCEPT ![p] = "aborted"]
    /\ lock' = IF lock = p THEN "none" ELSE lock
    /\ CASE pc[p] = "stop"  -> Leave("stop", stop_command_plan(desktop)[step])
         [] pc[p] = "start" -> Leave("start", start_command_plan(desktop)[step])
         [] OTHER           -> UNCHANGED systemd
    /\ UNCHANGED <<applied, step, failed, then, final, transition_failed>>

request_shutdown ==
    /\ main = "running"
    /\ main' = "waiting"
    /\ shutdown' = TRUE
    /\ UNCHANGED <<desktop, systemd, game, channel, want, session, cancelled,
                   shutdown_error, cleanup_error, failures>>

task_joined ==
    /\ main \in {"waiting", "grace"}
    /\ Ended("task")
    /\ main' = "reset"
    /\ shutdown_error' = (shutdown_error \/ pc["task"] # "ok")
    /\ UNCHANGED <<desktop, systemd, game, channel, want, session, shutdown,
                   cancelled, cleanup_error, failures>>

shutdown_times_out ==
    /\ main = "waiting"
    /\ ~Ended("task")
    /\ main' = "grace"
    /\ cancelled' = TRUE
    /\ shutdown_error' = TRUE
    /\ UNCHANGED <<desktop, systemd, game, channel, want, session, shutdown,
                   cleanup_error, failures>>

grace_times_out ==
    /\ main = "grace"
    /\ ~Ended("task")
    /\ Abort("task")
    /\ main' = "reset"
    /\ UNCHANGED <<desktop, game, channel, want, shutdown, cancelled,
                   shutdown_error, cleanup_error, failures>>

spawn_forced_cleanup ==
    /\ main = "reset"
    /\ cancelled' = FALSE
    /\ main' = "forced"
    /\ pc' = [pc EXCEPT !["cleanup"] = "lock"]
    /\ UNCHANGED <<desktop, systemd, game, channel, want, applied, lock, step,
                   failed, then, final, transition_failed, shutdown,
                   shutdown_error, cleanup_error, failures>>

forced_joined ==
    /\ main \in {"forced", "forced_grace"}
    /\ Ended("cleanup")
    /\ main' = "ended"
    /\ cleanup_error' = (cleanup_error \/ pc["cleanup"] # "ok")
    /\ UNCHANGED <<desktop, systemd, game, channel, want, session, shutdown,
                   cancelled, shutdown_error, failures>>

forced_times_out ==
    /\ main = "forced"
    /\ ~Ended("cleanup")
    /\ main' = "forced_grace"
    /\ cancelled' = TRUE
    /\ cleanup_error' = TRUE
    /\ UNCHANGED <<desktop, systemd, game, channel, want, session, shutdown,
                   shutdown_error, failures>>

forced_grace_times_out ==
    /\ main = "forced_grace"
    /\ ~Ended("cleanup")
    /\ Abort("cleanup")
    /\ main' = "ended"
    /\ UNCHANGED <<desktop, game, channel, want, shutdown, cancelled,
                   shutdown_error, cleanup_error, failures>>

-----------------------------------------------------------------------------
\* Core starts beside whatever units and jobs an earlier Core left behind.
Init ==
    /\ desktop \in DesktopSession
    /\ units \in SUBSET Units
    /\ jobs \in [Units -> {"none", "start", "stop"}]
    /\ game = FALSE
    /\ desired \in BOOLEAN
    /\ changed = FALSE
    /\ want = desired
    /\ applied = "NeedsCleanup"
    /\ lock = "none"
    /\ pc = [p \in Procs |-> IF p = "task" THEN "lock" ELSE "idle"]
    /\ step = 1 /\ failed = FALSE /\ then = "return"
    /\ final = FALSE /\ transition_failed = FALSE
    /\ shutdown = FALSE /\ cancelled = FALSE /\ main = "running"
    /\ shutdown_error = FALSE /\ cleanup_error = FALSE
    /\ failures = 0 /\ changes = 0

TaskStep == reconcile \/ start \/ stop_all_locked("task")
            \/ after_reconcile \/ wait
CleanupStep == force_stop_all \/ stop_all_locked("cleanup")
MainStep == task_joined \/ shutdown_times_out \/ grace_times_out
            \/ spawn_forced_cleanup \/ forced_joined \/ forced_times_out
            \/ forced_grace_times_out

Next ==
    \/ TaskStep
    \/ CleanupStep
    \/ request_shutdown
    \/ MainStep
    \/ selected_changes
    \/ game_reported
    \/ \E u \in Units : job_completes(u) \/ unit_exits(u)

Spec == Init /\ [][Next]_vars

\* The loop is polled when it is ready, its systemctl commands end within their
\* timeout, and the timers of the shutdown sequence fire.  Nothing is assumed
\* of the forced cleanup.
FairSpec == Spec /\ WF_vars(TaskStep) /\ WF_vars(MainStep)

-----------------------------------------------------------------------------
\* Properties

\* Every variable of the coordinator has its type, and the plans are walked
\* within their bounds.
TypeOK ==
    /\ desktop \in DesktopSession
    /\ units \subseteq Units
    /\ jobs \in [Units -> {"none", "start", "stop"}]
    /\ game \in BOOLEAN /\ desired \in BOOLEAN /\ changed \in BOOLEAN
    /\ want \in BOOLEAN /\ failed \in BOOLEAN /\ final \in BOOLEAN
    /\ transition_failed \in BOOLEAN
    /\ applied \in {"Stopped", "Running", "NeedsCleanup"}
    /\ lock \in Procs \cup {"none"}
    /\ pc \in [Procs -> {"idle", "lock", "stop", "start", "check", "wait", "ok",
                         "err", "aborted"}]
    /\ step \in 1..2
    /\ then \in {"match", "return", "fail"}
    /\ shutdown \in BOOLEAN /\ cancelled \in BOOLEAN
    /\ main \in {"running", "waiting", "grace", "reset", "forced",
                 "forced_grace", "ended"}
    /\ shutdown_error \in BOOLEAN /\ cleanup_error \in BOOLEAN
    /\ failures \in Nat /\ changes \in Nat

\* No owned unit is active and none will be activated by a job left behind.
AllStopped == \A u \in Owned : u \notin units /\ jobs[u] # "start"

\* When nobody holds the transition mutex, `Stopped` means stopped: nothing of
\* a failed start, of a failed stop or of an earlier Core is active or about
\* to be.  Only a start that was aborted half way may leave the word wrong, and
\* then no reconcile ever reads it again.
StoppedMeansStopped ==
    applied = "Stopped" /\ lock = "none" /\ pc["task"] # "aborted" => AllStopped

\* A session is only ever started from a clean slate: when start() issues its
\* first command, all owned units have been stopped, also after a restart of
\* Core beside units that survived it.
StartsFromCleanSlate == pc["task"] = "start" /\ step = 1 => AllStopped

\* A shutdown whose forced cleanup reports no error leaves no unit behind,
\* whether the task ended, failed, or was cancelled or aborted in the middle of
\* a start.  (shutdown_session_coordinator never trusts `applied`.)
CleanShutdown == main = "ended" /\ ~cleanup_error => AllStopped

\* When commands stop failing and the selection stops changing, the session
\* follows it: no change of the watch channel is lost while a transition runs,
\* and every failure is retried.
Converges ==
    <>[]( ~shutdown => applied = (IF desired /\ desktop # "Unsupported"
                                  THEN "Running" ELSE "Stopped") )

\* A requested shutdown always ends, whatever the tasks are waiting for.
ShutdownEnds == shutdown ~> main = "ended"

\* What the coordinator promises about the units at every moment: Stopped means stopped,
\* a start begins from a clean slate, and a clean shutdown leaves nothing.
SessionIsSafe == TypeOK /\ StoppedMeansStopped /\ StartsFromCleanSlate /\ CleanShutdown

\* What it promises in the end: the session follows the selection, and a shutdown ends.
Progress == Converges /\ ShutdownEnds
=============================================================================
