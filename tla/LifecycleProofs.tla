--------------------------- MODULE LifecycleProofs ---------------------------
(***************************************************************************)
(* Theorems about what starts and stops OverCrow: the session coordinator  *)
(* of the core, for every number of failures and of changes of the         *)
(* selection and for every desktop, and the control centre, for any games, *)
(* releases and failures.                                                  *)
(***************************************************************************)
EXTENDS SessionCoordinator, Lifecycle, TLAPS

------------------------------------------------------------------------------
(* overcrow-core/src/session.rs: units, jobs and the transition mutex.     *)

\* A unit is inactive and no job left behind will activate it.
Off(u) == u \notin units /\ jobs[u] # "start"

\* Control: who may be where, and who holds the mutex.
Holders ==
    /\ \A p \in Procs : pc[p] \in {"stop", "start"} <=> lock = p
    /\ pc["task"] # "idle"
    /\ pc["cleanup"] \notin {"start", "check", "wait"}
    /\ main \in {"running", "waiting", "grace", "reset"} => pc["cleanup"] = "idle"
    /\ main \in {"reset", "forced", "forced_grace", "ended"} => Ended("task")
    /\ main = "forced_grace" => cleanup_error
    /\ main = "ended" => cleanup_error \/ pc["cleanup"] = "ok"
    /\ \A p \in Procs : pc[p] = "stop" =>
          /\ step <= Len(stop_command_plan(desktop))
          /\ then = "match" => p = "task" /\ desktop # "Unsupported"
    /\ pc["task"] = "start" => step <= Len(start_command_plan(desktop))
    /\ desktop = "Unsupported" => applied # "Running"

\* What the words and the control state say of the units.  A walk of the stop
\* plan without a failure has switched off the units it has passed.
UnitsFollow ==
    /\ \A p \in Procs : pc[p] = "stop" /\ ~failed =>
          \A i \in 1..(step - 1) : Off(stop_command_plan(desktop)[i])
    /\ StartsFromCleanSlate
    /\ applied = "Stopped" /\ lock # "task" /\ pc["task"] # "aborted" => AllStopped
    /\ pc["cleanup"] = "ok" => AllStopped

\* The inductive invariant of the coordinator.
SessionInv == TypeOK /\ Holders /\ UnitsFollow

-----------------------------------------------------------------------------
\* The stop plan covers the owned units; the start plan stays within them.
LEMMA PlanFacts ==
    ASSUME desktop \in DesktopSession
    PROVE  /\ Len(stop_command_plan(desktop)) \in 1..2
           /\ \A i \in 1..Len(stop_command_plan(desktop)) :
                 stop_command_plan(desktop)[i] \in Owned
           /\ \A u \in Owned : \E i \in 1..Len(stop_command_plan(desktop)) :
                 stop_command_plan(desktop)[i] = u
           /\ Len(start_command_plan(desktop)) \in 0..2
           /\ desktop # "Unsupported" => Len(start_command_plan(desktop)) \in 1..2
           /\ \A i \in 1..Len(start_command_plan(desktop)) :
                 start_command_plan(desktop)[i] \in Owned
           /\ Owned \subseteq Units
BY DEF stop_command_plan, start_command_plan, Owned, DesktopSession, Units

\* A plan has at most two commands, so the command after one that is not the last is
\* the second.
LEMMA StepBound ==
    ASSUME NEW i \in 1..2, NEW n \in 0..2, i < n
    PROVE  i + 1 \in 1..2
BY SMT

\* The coordinator starts in its invariant.
LEMMA SessionInit == Init => SessionInv
<1> SUFFICES ASSUME Init PROVE SessionInv
  BY Zenon
<1>1. TypeOK
  <2>1. /\ game \in BOOLEAN /\ desired \in BOOLEAN /\ changed \in BOOLEAN
        /\ want \in BOOLEAN /\ failed \in BOOLEAN /\ final \in BOOLEAN
        /\ transition_failed \in BOOLEAN /\ shutdown \in BOOLEAN
        /\ cancelled \in BOOLEAN /\ shutdown_error \in BOOLEAN
        /\ cleanup_error \in BOOLEAN
    BY Zenon DEF Init
  <2>2. /\ desktop \in DesktopSession /\ units \subseteq Units
        /\ jobs \in [Units -> {"none", "start", "stop"}]
        /\ applied \in {"Stopped", "Running", "NeedsCleanup"}
        /\ lock \in Procs \cup {"none"}
        /\ step \in 1..2 /\ then \in {"match", "return", "fail"}
        /\ failures \in Nat /\ changes \in Nat
    BY DEF Init
  <2>3. main \in {"running", "waiting", "grace", "reset", "forced",
                  "forced_grace", "ended"}
    BY Zenon DEF Init
  <2>4. pc \in [Procs -> {"idle", "lock", "stop", "start", "check", "wait", "ok",
                         "err", "aborted"}]
    BY Zenon DEF Init
  <2> QED
    BY <2>1, <2>2, <2>3, <2>4, Zenon DEF TypeOK
<1>2. Holders
  BY Zenon DEF Init, Holders, Procs, Ended
<1>3. UnitsFollow
  BY Zenon DEF Init, UnitsFollow, StartsFromCleanSlate, Procs
<1> QED
  BY <1>1, <1>2, <1>3, Zenon DEF SessionInv

-----------------------------------------------------------------------------
\* Types

\* A systemctl command, whatever becomes of it, keeps the units' types.
LEMMA CommandType ==
    ASSUME TypeOK, NEW verb \in {"start", "stop"}, NEW u \in Units,
           Succeed(verb, u) \/ Fail(verb, u) \/ (Leave(verb, u) /\ UNCHANGED failures)
    PROVE  /\ units' \subseteq Units
           /\ jobs' \in [Units -> {"none", "start", "stop"}]
           /\ failures' \in Nat
BY DEF TypeOK, Succeed, Fail, Leave

\* The heads and tails of the locked methods keep the types of the control.
LEMMA ControlType ==
    ASSUME TypeOK, NEW p \in Procs, NEW ok \in BOOLEAN,
           NEW next \in {"match", "return", "fail"},
           \/ Return(p, ok)
           \/ BeginStop(p, next)
           \/ BeginStart(p)
           \/ stop_all_finish(p, ok)
    PROVE  /\ lock' \in Procs \cup {"none"}
           /\ pc' \in [Procs -> {"idle", "lock", "stop", "start", "check", "wait",
                                 "ok", "err", "aborted"}]
           /\ step' \in 1..2
           /\ then' \in {"match", "return", "fail"}
           /\ final' \in BOOLEAN
           /\ transition_failed' \in BOOLEAN
           /\ failed' \in BOOLEAN
<1>1. /\ lock' \in Procs \cup {"none"}
      /\ step' \in 1..2
      /\ then' \in {"match", "return", "fail"}
  BY DEF TypeOK, Return, BeginStop, BeginStart, stop_all_finish
<1>2. pc' \in [Procs -> {"idle", "lock", "stop", "start", "check", "wait",
                         "ok", "err", "aborted"}]
  <2>1. \E x \in {"ok", "err", "check", "stop", "start"} :
            pc' = [pc EXCEPT ![p] = x]
    BY Zenon DEF Return, BeginStop, BeginStart, stop_all_finish
  <2> QED
    BY <2>1, Zenon DEF TypeOK
<1>3. final' = final /\ failed' \in {failed, FALSE}
  BY ZenonT(30) DEF Return, BeginStop, BeginStart, stop_all_finish
<1>4. transition_failed' \in BOOLEAN
  <2>1. ASSUME NEW b \in BOOLEAN, Return(p, b) PROVE transition_failed' \in BOOLEAN
    BY <2>1, Zenon DEF Return, TypeOK
  <2>2. (then # "fail") \in BOOLEAN
    BY Zenon
  <2>3. BeginStop(p, next) \/ BeginStart(p) => transition_failed' \in BOOLEAN
    BY Zenon DEF BeginStop, BeginStart, TypeOK
  <2>4. stop_all_finish(p, ok) => transition_failed' \in BOOLEAN
    BY <2>1, <2>2, <2>3, Zenon DEF stop_all_finish
  <2> QED
    BY <2>1, <2>3, <2>4, Zenon
<1> QED
  BY <1>1, <1>2, <1>3, <1>4, Zenon DEF TypeOK

\* The types of the shutdown sequence and of the control, apart.
ShutdownType ==
    /\ main \in {"running", "waiting", "grace", "reset", "forced",
                 "forced_grace", "ended"}
    /\ shutdown \in BOOLEAN /\ cancelled \in BOOLEAN
    /\ shutdown_error \in BOOLEAN /\ cleanup_error \in BOOLEAN

WishType ==
    /\ game \in BOOLEAN /\ desired \in BOOLEAN /\ changed \in BOOLEAN
    /\ want \in BOOLEAN /\ changes \in Nat

UnitType ==
    /\ desktop \in DesktopSession
    /\ units \subseteq Units
    /\ jobs \in [Units -> {"none", "start", "stop"}]
    /\ failures \in Nat

TaskType ==
    /\ applied \in {"Stopped", "Running", "NeedsCleanup"}
    /\ lock \in Procs \cup {"none"}
    /\ pc \in [Procs -> {"idle", "lock", "stop", "start", "check", "wait", "ok",
                         "err", "aborted"}]
    /\ step \in 1..2
    /\ then \in {"match", "return", "fail"}
    /\ failed \in BOOLEAN /\ final \in BOOLEAN /\ transition_failed \in BOOLEAN

\* The four parts together are TypeOK.
LEMMA TypeParts ==
    TypeOK <=> ShutdownType /\ WishType /\ UnitType /\ TaskType
BY Zenon DEF TypeOK, ShutdownType, WishType, UnitType, TaskType

\* Steps of the environment and of the shutdown sequence keep the types.
LEMMA OtherType ==
    ASSUME TypeOK, Holders,
           \/ request_shutdown \/ task_joined \/ shutdown_times_out
           \/ spawn_forced_cleanup \/ forced_joined \/ forced_times_out
           \/ selected_changes \/ game_reported
           \/ \E u \in Units : job_completes(u) \/ unit_exits(u)
           \/ UNCHANGED vars
    PROVE  TypeOK'
<1> USE DEF request_shutdown, task_joined, shutdown_times_out,
            spawn_forced_cleanup, forced_joined, forced_times_out,
            selected_changes, game_reported, job_completes, unit_exits, vars,
            session, systemd, channel, shutting
<1>0. ShutdownType /\ WishType /\ UnitType /\ TaskType
  BY TypeParts, Zenon
<1>1. UnitType'
  BY <1>0, Zenon DEF UnitType
<1>2. TaskType'
  BY <1>0 DEF TaskType
<1>3. WishType'
  <2>1. /\ game' \in BOOLEAN /\ desired' \in BOOLEAN /\ changed' \in BOOLEAN
        /\ want' \in BOOLEAN
    BY <1>0, Zenon DEF WishType
  <2>2. changes' \in Nat
    BY <1>0 DEF WishType
  <2> QED
    BY <2>1, <2>2, Zenon DEF WishType
<1>4. ShutdownType'
  <2>1. main' \in {"running", "waiting", "grace", "reset", "forced",
                   "forced_grace", "ended"}
    BY <1>0, Zenon DEF ShutdownType
  <2>2. /\ shutdown' \in BOOLEAN /\ cancelled' \in BOOLEAN
        /\ shutdown_error' \in BOOLEAN /\ cleanup_error' \in BOOLEAN
    BY <1>0, Zenon DEF ShutdownType
  <2> QED
    BY <2>1, <2>2, Zenon DEF ShutdownType
<1> QED
  BY <1>1, <1>2, <1>3, <1>4, TypeParts, Zenon DEF TypeOK, ShutdownType, WishType, UnitType, TaskType

\* Steps of the two tasks, and an abort, keep the types.
LEMMA TaskStepType ==
    ASSUME TypeOK, Holders,
           \/ reconcile \/ force_stop_all \/ start
           \/ \E p \in Procs : stop_all_locked(p)
           \/ after_reconcile \/ wait
           \/ grace_times_out \/ forced_grace_times_out
    PROVE  TypeOK'
<1>0. /\ ShutdownType /\ WishType /\ UnitType /\ TaskType
      /\ desktop \in DesktopSession
      /\ "task" \in Procs /\ "cleanup" \in Procs
  BY TypeParts, Zenon DEF TypeOK, Procs
<1>p. ASSUME NEW i \in 1..Len(stop_command_plan(desktop))
      PROVE  stop_command_plan(desktop)[i] \in Units
  BY <1>0, PlanFacts, Zenon
<1>q. ASSUME NEW i \in 1..Len(start_command_plan(desktop))
      PROVE  start_command_plan(desktop)[i] \in Units
  BY <1>0, PlanFacts, Zenon
<1>s. /\ \A p \in Procs : pc[p] = "stop" =>
             step \in 1..Len(stop_command_plan(desktop))
      /\ pc["task"] = "start" => step \in 1..Len(start_command_plan(desktop))
  BY <1>0, PlanFacts DEF TaskType, Holders
<1>1. ShutdownType'
  <2>1. main' \in {main, "reset", "ended"}
    BY ZenonT(30) DEF reconcile, force_stop_all, start, stop_all_locked, after_reconcile,
           wait, grace_times_out, forced_grace_times_out, shutting
  <2>2. UNCHANGED <<shutdown, cancelled, shutdown_error, cleanup_error>>
    BY ZenonT(30) DEF reconcile, force_stop_all, start, stop_all_locked, after_reconcile,
           wait, grace_times_out, forced_grace_times_out, shutting
  <2> QED
    BY <1>0, <2>1, <2>2, Zenon DEF ShutdownType
<1>2. WishType'
  <2>1. /\ game' \in {game, FALSE} /\ UNCHANGED <<desired, changes>>
        /\ changed' \in {changed, FALSE} /\ want' \in {want, desired, FALSE}
    BY ZenonT(30) DEF reconcile, force_stop_all, start, stop_all_locked, after_reconcile,
           wait, grace_times_out, forced_grace_times_out, channel,
           BeginStop, Again, TakeDesired, TakeShutdown
  <2> QED
    BY <1>0, <2>1, Zenon DEF WishType
<1>3. UnitType'
  <2>1. CASE reconcile \/ force_stop_all \/ after_reconcile \/ wait
    BY <1>0, <2>1, ZenonT(30) DEF reconcile, force_stop_all, after_reconcile, wait, systemd,
                      UnitType
  <2>2. CASE start
    <3>1. start_command_plan(desktop)[step] \in Units
      BY <1>q, <1>s, <2>2, Zenon DEF start
    <3>2. \/ Succeed("start", start_command_plan(desktop)[step])
          \/ Fail("start", start_command_plan(desktop)[step])
      BY <2>2, ZenonT(30) DEF start
    <3> QED
      BY <1>0, <2>2, <3>1, <3>2, CommandType, Zenon DEF start, UnitType
  <2>3. ASSUME NEW p \in Procs, stop_all_locked(p) PROVE UnitType'
    <3>1. stop_command_plan(desktop)[step] \in Units
      BY <1>p, <1>s, <2>3, Zenon DEF stop_all_locked
    <3>2. \/ Succeed("stop", stop_command_plan(desktop)[step])
          \/ Fail("stop", stop_command_plan(desktop)[step])
      BY <2>3, Zenon DEF stop_all_locked
    <3> QED
      BY <1>0, <2>3, <3>1, <3>2, CommandType, Zenon DEF stop_all_locked, UnitType
  <2>4. ASSUME NEW p \in Procs, Abort(p), UNCHANGED <<desktop, failures>>,
               pc["cleanup"] # "start"
        PROVE  UnitType'
    <3>1. CASE pc[p] = "stop"
      BY <1>0, <1>p, <1>s, <2>4, <3>1, CommandType, Zenon DEF Abort, UnitType
    <3>2. CASE pc[p] = "start"
      <4>1. p = "task"
        BY <2>4, <3>2, Zenon DEF Procs
      <4> QED
        BY <1>0, <1>q, <1>s, <2>4, <3>2, <4>1, CommandType, Zenon DEF Abort, UnitType
    <3>3. CASE pc[p] \notin {"stop", "start"}
      BY <1>0, <2>4, <3>3, Zenon DEF Abort, UnitType, systemd
    <3> QED
      BY <3>1, <3>2, <3>3, Zenon
  <2>5. CASE grace_times_out \/ forced_grace_times_out
    BY <1>0, <2>4, <2>5, Zenon DEF grace_times_out, forced_grace_times_out, Holders
  <2> QED
    BY <2>1, <2>2, <2>3, <2>5, Zenon
<1>4. TaskType'
  <2>1. applied' \in {"Stopped", "Running", "NeedsCleanup"}
    BY <1>0, ZenonT(30) DEF TaskType, reconcile, force_stop_all, start, stop_all_locked,
           stop_all_finish, after_reconcile, wait, grace_times_out,
           forced_grace_times_out, Again, TakeDesired, TakeShutdown, Abort
  <2>2. CASE reconcile \/ force_stop_all
    BY <1>0, <2>1, <2>2, ControlType, ZenonT(30) DEF reconcile, force_stop_all, TaskType
  <2>3. CASE start
    <3>1. \/ Return("task", TRUE) \/ BeginStop("task", "fail")
          \/ /\ step < Len(start_command_plan(desktop)) /\ step' = step + 1
             /\ UNCHANGED <<lock, pc, failed, then, final, transition_failed>>
      BY <2>3, ZenonT(30) DEF start
    <3>2. CASE Return("task", TRUE) \/ BeginStop("task", "fail")
      BY <1>0, <2>1, <3>2, ControlType, ZenonT(30) DEF TaskType
    <3>3. CASE /\ step < Len(start_command_plan(desktop)) /\ step' = step + 1
               /\ UNCHANGED <<lock, pc, failed, then, final, transition_failed>>
      <4>1. step \in 1..2 /\ Len(start_command_plan(desktop)) \in 0..2
        BY <1>0, PlanFacts, Zenon DEF TaskType
      <4>2. step' \in 1..2
        BY <3>3, <4>1, StepBound, Zenon
      <4> QED
        BY <1>0, <2>1, <3>3, <4>2, Zenon DEF TaskType
    <3> QED
      BY <3>1, <3>2, <3>3, ZenonT(30)
  <2>4. ASSUME NEW p \in Procs, stop_all_locked(p) PROVE TaskType'
    <3>1. PICK ok \in BOOLEAN :
            \/ /\ step < Len(stop_command_plan(desktop)) /\ step' = step + 1
               /\ failed' = (failed \/ ~ok)
               /\ UNCHANGED <<lock, pc, then, final, transition_failed>>
            \/ stop_all_finish(p, ok /\ ~failed)
      BY <2>4, Zenon DEF stop_all_locked
    <3>2. CASE stop_all_finish(p, ok /\ ~failed)
      <4>1. (ok /\ ~failed) \in BOOLEAN
        BY Zenon
      <4> QED
        BY <1>0, <2>1, <3>2, <4>1, ControlType, ZenonT(30) DEF TaskType
    <3>3. CASE /\ step < Len(stop_command_plan(desktop)) /\ step' = step + 1
               /\ failed' = (failed \/ ~ok)
               /\ UNCHANGED <<lock, pc, then, final, transition_failed>>
      <4>1. failed' \in BOOLEAN
        BY <3>3, Zenon
      <4> QED
        <5>1. step \in 1..2 /\ Len(stop_command_plan(desktop)) \in 1..2
          BY <1>0, PlanFacts, Zenon DEF TaskType
        <5>2. Len(stop_command_plan(desktop)) \in 0..2
          BY <5>1
        <5>3. step' \in 1..2
          BY <3>3, <5>1, <5>2, StepBound, Zenon
        <5> QED
          BY <1>0, <2>1, <3>3, <4>1, <5>3, Zenon DEF TaskType
    <3> QED
      BY <3>1, <3>2, <3>3, Zenon
  <2>5. CASE after_reconcile \/ wait
    <3>1. /\ pc' \in {[pc EXCEPT !["task"] = "lock"], [pc EXCEPT !["task"] = "wait"]}
          /\ final' \in {final, TRUE, FALSE}
          /\ UNCHANGED <<lock, step, failed, then, transition_failed>>
      BY <2>5, ZenonT(30) DEF after_reconcile, wait, Again, TakeDesired, TakeShutdown
    <3>2. final' \in BOOLEAN
      BY <1>0, <3>1, Zenon DEF TaskType
    <3> QED
      BY <1>0, <2>1, <3>1, <3>2, Zenon DEF TaskType
  <2>6. CASE grace_times_out \/ forced_grace_times_out
    <3>1. PICK p \in Procs : Abort(p)
      BY <1>0, <2>6, Zenon DEF grace_times_out, forced_grace_times_out
    <3> QED
      BY <1>0, <2>1, <3>1, Zenon DEF Abort, TaskType
  <2> QED
    BY <2>2, <2>3, <2>4, <2>5, <2>6, Zenon
<1> QED
  BY <1>1, <1>2, <1>3, <1>4, Zenon DEF TypeOK, ShutdownType, WishType, UnitType, TaskType

-----------------------------------------------------------------------------
\* Control

\* Every step keeps the control invariant.
LEMMA HoldersStep ==
    ASSUME TypeOK, Holders, [Next]_vars
    PROVE  Holders'
<1>0. /\ desktop \in DesktopSession /\ step \in 1..2
      /\ pc \in [Procs -> {"idle", "lock", "stop", "start", "check", "wait", "ok",
                           "err", "aborted"}]
      /\ applied \in {"Stopped", "Running", "NeedsCleanup"}
      /\ lock \in {"task", "cleanup", "none"}
      /\ Procs = {"task", "cleanup"}
  BY Zenon DEF TypeOK, Procs
<1>u. desktop' = desktop
  BY ZenonT(30) DEF Next, TaskStep, CleanupStep, MainStep, reconcile, start,
         stop_all_locked, after_reconcile, wait, force_stop_all,
         request_shutdown, task_joined, shutdown_times_out, grace_times_out,
         spawn_forced_cleanup, forced_joined, forced_times_out,
         forced_grace_times_out, selected_changes, game_reported,
         job_completes, unit_exits, vars
<1>l. /\ Len(stop_command_plan(desktop)) \in 1..2
      /\ desktop # "Unsupported" => Len(start_command_plan(desktop)) \in 1..2
  BY <1>0, PlanFacts, Zenon
<1>b. ASSUME NEW p \in Procs, NEW next \in {"match", "return", "fail"},
             BeginStop(p, next), UNCHANGED <<main, cleanup_error>>,
             lock \in {p, "none"}, ~Ended(p), pc[p] # "idle",
             next = "match" => p = "task" /\ desktop # "Unsupported",
             applied' \in {applied, "NeedsCleanup"}
      PROVE  Holders'
  <2>1. /\ pc'[p] = "stop" /\ \A q \in Procs \ {p} : pc'[q] = pc[q]
        /\ lock' = p /\ step' = 1 /\ then' = next
    BY <1>0, <1>b, Zenon DEF BeginStop
  <2>2. \A q \in Procs \ {p} : pc'[q] \notin {"stop", "start"}
    BY <1>0, <1>b, <2>1, Zenon DEF Holders
  <2>3. CASE p = "task"
    BY <1>0, <1>b, <1>u, <1>l, <2>1, <2>2, <2>3, SMTT(30) DEF Holders, Ended
  <2>4. CASE p = "cleanup"
    BY <1>0, <1>b, <1>u, <1>l, <2>1, <2>2, <2>4 DEF Holders, Ended
  <2> QED
    BY <1>0, <2>3, <2>4, Zenon
<1>d. ASSUME BeginStart("task"), UNCHANGED <<main, cleanup_error>>,
             lock \in {"task", "none"}, ~Ended("task"), desktop # "Unsupported",
             applied' \in {applied, "Stopped"}
      PROVE  Holders'
  <2>1. /\ pc'["task"] = "start" /\ pc'["cleanup"] = pc["cleanup"]
        /\ lock' = "task" /\ step' = 1
    BY <1>0, <1>d, Zenon DEF BeginStart
  <2>2. pc["cleanup"] \notin {"stop", "start"}
    BY <1>0, <1>d, Zenon DEF Holders
  <2>3. /\ main' \notin {"reset", "forced", "forced_grace", "ended"}
        /\ main' \in {"running", "waiting", "grace", "reset"} =>
               pc'["cleanup"] = "idle"
        /\ pc'["cleanup"] \notin {"start", "check", "wait"}
    BY <1>d, <2>1, Zenon DEF Holders
  <2>4. 1 <= Len(start_command_plan(desktop'))
    BY <1>d, <1>u, <1>l
  <2> QED
    BY <1>0, <1>d, <1>u, <2>1, <2>2, <2>3, <2>4, Zenon DEF Holders
<1>1. CASE reconcile
  <2>0. /\ pc["task"] = "lock" /\ lock = "none" /\ UNCHANGED <<main, cleanup_error>>
        /\ ~Ended("task") /\ "task" \in Procs
    BY <1>0, <1>1, Zenon DEF reconcile, shutting, Ended
  <2>1. CASE \E next \in {"match", "return"} :
                /\ next = "match" => desktop # "Unsupported"
                /\ BeginStop("task", next) /\ UNCHANGED applied
    <3>1. PICK next \in {"match", "return"} :
                /\ next = "match" => desktop # "Unsupported"
                /\ BeginStop("task", next) /\ UNCHANGED applied
      BY <2>1, Zenon
    <3>2. next \in {"match", "return", "fail"} /\ pc["task"] # "idle"
      BY <2>0, <3>1, Zenon
    <3> QED
      BY <1>b, <2>0, <3>1, <3>2, Zenon
  <2>2. CASE Return("task", TRUE) /\ applied' \in {applied, "Stopped"}
    BY <1>0, <1>u, <2>0, <2>2, Zenon DEF Holders, Return, Ended
  <2>3. CASE BeginStart("task") /\ desktop # "Unsupported" /\ UNCHANGED applied
    BY <1>d, <2>0, <2>3, Zenon
  <2> QED
    BY <1>1, <2>1, <2>2, <2>3, ZenonT(30) DEF reconcile
<1>2. CASE force_stop_all
  <2>1. /\ pc["cleanup"] = "lock" /\ lock = "none"
        /\ UNCHANGED <<main, cleanup_error, applied>>
        /\ BeginStop("cleanup", "return") /\ "cleanup" \in Procs
    BY <1>0, <1>2, Zenon DEF force_stop_all, shutting
  <2> QED
    BY <1>b, <2>1, Zenon DEF Ended
<1>3. CASE start
  <2>0. /\ pc["task"] = "start" /\ lock = "task" /\ pc["cleanup"] # "stop"
        /\ UNCHANGED <<main, cleanup_error>>
    BY <1>0, <1>3, Zenon DEF start, shutting, Holders
  <2>1. CASE /\ step < Len(start_command_plan(desktop)) /\ step' = step + 1
             /\ UNCHANGED <<applied, lock, pc, failed, then, final,
                            transition_failed>>
    BY <1>0, <1>u, <1>l, <2>0, <2>1 DEF Holders, Ended
  <2>2. CASE applied' = "Running" /\ Return("task", TRUE)
    <3>1. desktop # "Unsupported"
      BY <1>0, <2>0 DEF Holders, start_command_plan
    <3> QED
      BY <1>0, <1>u, <2>0, <2>2, <3>1, Zenon DEF Holders, Return, Ended
  <2>3. CASE applied' = "NeedsCleanup" /\ BeginStop("task", "fail")
    BY <1>0, <1>b, <2>0, <2>3, Zenon DEF Ended
  <2> QED
    BY <1>3, <2>1, <2>2, <2>3, ZenonT(30) DEF start
<1>4. ASSUME NEW p \in Procs, stop_all_locked(p) PROVE Holders'
  <2>0. /\ pc[p] = "stop" /\ lock = p /\ UNCHANGED <<main, cleanup_error>>
        /\ \A q \in Procs \ {p} : pc[q] \notin {"stop", "start"}
    BY <1>0, <1>4, Zenon DEF stop_all_locked, shutting, Holders
  <2>1. CASE /\ step < Len(stop_command_plan(desktop)) /\ step' = step + 1
             /\ UNCHANGED <<applied, lock, pc, then, final, transition_failed>>
    BY <1>0, <1>u, <1>l, <2>0, <2>1 DEF Holders, Ended
  <2>2. ASSUME NEW ok \in BOOLEAN, Return(p, ok),
               applied' \in {"Stopped", "NeedsCleanup"}
        PROVE  Holders'
    BY <1>0, <1>u, <2>0, <2>2, Zenon DEF Holders, Return, Ended
  <2>3. CASE then = "match" /\ BeginStart(p) /\ applied' = "Stopped"
    <3>1. p = "task" /\ desktop # "Unsupported"
      BY <1>0, <2>0, <2>3, Zenon DEF Holders
    <3> QED
      BY <1>0, <1>d, <2>0, <2>3, <3>1, Zenon DEF Ended
  <2>4. (then # "fail") \in BOOLEAN
    BY Zenon
  <2> QED
    BY <1>4, <2>1, <2>2, <2>3, <2>4, ZenonT(30) DEF stop_all_locked, stop_all_finish
<1>5. CASE after_reconcile \/ wait
  <2>1. /\ pc["task"] \in {"check", "wait"}
        /\ pc' \in {[pc EXCEPT !["task"] = "lock"], [pc EXCEPT !["task"] = "wait"]}
        /\ UNCHANGED <<applied, lock, step, then, main, cleanup_error>>
    BY <1>5, Zenon DEF after_reconcile, wait, Again, TakeDesired, TakeShutdown, shutting
  <2> QED
    BY <1>0, <1>u, <2>1, Zenon DEF Holders, Ended
<1>6. CASE request_shutdown \/ task_joined \/ shutdown_times_out
  BY <1>0, <1>6, <1>u, Zenon DEF Holders, request_shutdown, task_joined,
                          shutdown_times_out, session, Ended
<1>7. CASE spawn_forced_cleanup
  BY <1>0, <1>7, <1>u, Zenon DEF Holders, spawn_forced_cleanup, Ended
<1>8. CASE forced_joined \/ forced_times_out
  BY <1>0, <1>8, <1>u, ZenonT(30) DEF Holders, forced_joined, forced_times_out, session, Ended
<1>9. CASE grace_times_out \/ forced_grace_times_out
  BY <1>0, <1>9, <1>u, Zenon DEF Holders, grace_times_out, forced_grace_times_out,
                          Abort, Ended
<1>10. CASE \/ selected_changes \/ game_reported
            \/ \E u \in Units : job_completes(u) \/ unit_exits(u)
            \/ UNCHANGED vars
  BY <1>0, <1>10, <1>u DEF Holders, selected_changes, game_reported,
       job_completes, unit_exits, vars, session, shutting, Ended
<1> QED
  BY <1>0, <1>1, <1>2, <1>3, <1>4, <1>5, <1>6, <1>7, <1>8, <1>9, <1>10, Zenon
     DEF Next, TaskStep, CleanupStep, MainStep

-----------------------------------------------------------------------------
\* The units

\* Stop commands, whatever becomes of them, leave no unit more active than it
\* was, and neither do the jobs and exits of systemd.
LEMMA OffKept ==
    ASSUME TypeOK, NEW w \in Units,
           \/ Succeed("stop", w) \/ Leave("stop", w)
           \/ job_completes(w) \/ unit_exits(w) \/ UNCHANGED systemd
    PROVE  \A u \in Units : Off(u) => Off(u)'
BY Zenon DEF TypeOK, Off, Succeed, Leave, job_completes, unit_exits, systemd

\* A stop command that succeeds has switched its unit off.
LEMMA StoppedIsOff ==
    ASSUME TypeOK, NEW w \in Units, Succeed("stop", w)
    PROVE  Off(w)'
BY Zenon DEF TypeOK, Off, Succeed

\* AllStopped in terms of Off, now and after a step.
LEMMA AllStoppedIsOff ==
    /\ AllStopped <=> \A u \in Owned : Off(u)
    /\ UNCHANGED desktop => (AllStopped' <=> \A u \in Owned : Off(u)')
BY Zenon DEF AllStopped, Off, Owned

\* A step that switches no unit on and leaves the control alone.
LEMMA QuietUnits ==
    ASSUME TypeOK, UnitsFollow, UNCHANGED desktop,
           \A u \in Units : Off(u) => Off(u)',
           UNCHANGED <<applied, lock, pc, step, failed>>
    PROVE  UnitsFollow'
<1>1. AllStopped => AllStopped'
  <2>1. Owned \subseteq Units
    BY Zenon DEF Owned, Units
  <2> QED
    BY <2>1, AllStoppedIsOff, Zenon
<1>2. \A i \in 1..(step - 1) : Off(stop_command_plan(desktop)[i])
          => Off(stop_command_plan(desktop)[i])'
  <2>1. \A i \in 1..(step - 1) : stop_command_plan(desktop)[i] \in Units
    BY DEF TypeOK, stop_command_plan, Units, DesktopSession
  <2> QED
    BY <2>1, Zenon
<1> QED
  BY <1>1, <1>2, Zenon DEF UnitsFollow, StartsFromCleanSlate

\* One command of the stop plan keeps what is known of the units.
LEMMA StopUnits ==
    ASSUME TypeOK, Holders, UnitsFollow, NEW p \in Procs, stop_all_locked(p)
    PROVE  UnitsFollow'
<1> DEFINE plan == stop_command_plan(desktop)
<1>0. /\ desktop \in DesktopSession /\ desktop' = desktop
      /\ step \in 1..Len(plan) /\ pc[p] = "stop" /\ lock = p
      /\ Procs = {"task", "cleanup"} /\ failed \in BOOLEAN
      /\ pc \in [Procs -> {"idle", "lock", "stop", "start", "check", "wait", "ok",
                           "err", "aborted"}]
  BY DEF TypeOK, Holders, stop_all_locked, Procs
<1>1. /\ Len(plan) \in 1..2 /\ plan[step] \in Units /\ Owned \subseteq Units
      /\ \A i \in 1..Len(plan) : plan[i] \in Units
      /\ \A u \in Owned : \E i \in 1..Len(plan) : plan[i] = u
  <2>1. /\ Len(plan) \in 1..2 /\ Owned \subseteq Units
        /\ \A i \in 1..Len(plan) : plan[i] \in Owned
        /\ \A u \in Owned : \E i \in 1..Len(plan) : plan[i] = u
    BY <1>0, PlanFacts, Zenon
  <2> QED
    BY <1>0, <2>1, Zenon
<1>w. PICK w \in Units : w = plan[step]
  BY <1>1, Zenon
<1>2. PICK ok \in BOOLEAN :
        /\ IF ok THEN Succeed("stop", w) ELSE Fail("stop", w)
        /\ IF step < Len(plan)
           THEN /\ step' = step + 1
                /\ failed' = (failed \/ ~ok)
                /\ UNCHANGED <<applied, lock, pc, then, final, transition_failed>>
           ELSE stop_all_finish(p, ok /\ ~failed)
  BY <1>w, Zenon DEF stop_all_locked
<1>3. \A u \in Units : Off(u) => Off(u)'
  BY <1>1, <1>2, OffKept, Zenon DEF Fail
<1>4. ok => Off(w)'
  BY <1>1, <1>2, StoppedIsOff, Zenon
<1>5. AllStopped => AllStopped'
  BY <1>0, <1>1, <1>3, AllStoppedIsOff, Zenon
<1>6. ~failed /\ ok => \A i \in 1..step, u \in Units : u = plan[i] => Off(u)'
  <2> SUFFICES ASSUME ~failed, ok, NEW i \in 1..step, NEW u \in Units, u = plan[i]
               PROVE  Off(u)'
    BY Zenon
  <2>1. CASE i = step
    BY <1>w, <1>4, <2>1, Zenon
  <2>2. CASE i \in 1..(step - 1)
    <3>1. Off(plan[i])
      BY <1>0, <2>2, Zenon DEF UnitsFollow
    <3> QED
      BY <1>3, <3>1, Zenon
  <2> QED
    BY <1>0, <1>1, <2>1, <2>2
<1> HIDE DEF plan
<1>7. CASE step < Len(plan)
  <2>1. /\ step' = step + 1 /\ failed' = (failed \/ ~ok)
        /\ UNCHANGED <<applied, lock, pc>>
    BY <1>2, <1>7, Zenon
  <2>2. ~failed' => \A i \in 1..(step' - 1), u \in Units : u = plan[i] => Off(u)'
    <3>1. ~failed' => ~failed /\ ok
      BY <2>1, Zenon
    <3>2. step' - 1 = step
      BY <1>0, <1>1, <2>1
    <3> QED
      BY <1>6, <3>1, <3>2, Zenon
  <2>3. plan' = plan
    BY <1>0, Zenon DEF plan
  <2>4. \A q \in Procs : pc'[q] = "stop" /\ ~failed' =>
          \A i \in 1..(step' - 1) : Off(plan[i])'
    <3>1. \A i \in 1..(step' - 1) : plan[i] \in Units
      BY <1>0, <1>1, <2>1
    <3>2. ~failed' => \A i \in 1..(step' - 1) :
                         plan[i] \notin units' /\ jobs'[plan[i]] # "start"
      BY <2>2, <3>1, Zenon DEF Off
    <3> QED
      BY <2>3, <3>2, Zenon DEF Off
  <2>5. StartsFromCleanSlate'
    BY <1>0, <1>1, <2>1 DEF StartsFromCleanSlate
  <2>6. /\ applied' = "Stopped" /\ lock' # "task" /\ pc'["task"] # "aborted"
              => AllStopped'
        /\ pc'["cleanup"] = "ok" => AllStopped'
    BY <1>5, <2>1, Zenon DEF UnitsFollow
  <2> QED
    BY <1>0, <2>3, <2>4, <2>5, <2>6, Zenon DEF UnitsFollow, plan
<1>8. CASE ~(step < Len(plan))
  <2>1. step = Len(plan) /\ stop_all_finish(p, ok /\ ~failed)
    BY <1>0, <1>1, <1>2, <1>8
  <2>2. \A q \in Procs \ {p} : pc[q] # "stop"
    BY <1>0, Zenon DEF Holders
  <2>3. CASE ok /\ ~failed
    <3>1. AllStopped'
      BY <1>0, <1>1, <1>6, <2>1, <2>3, AllStoppedIsOff, Zenon
    <3>2. (ok /\ ~failed) = TRUE
      BY <2>3, Zenon
    <3>3. \A q \in Procs : pc'[q] # "stop"
      <4>1. \E x \in {"ok", "err", "check", "start"} : pc' = [pc EXCEPT ![p] = x]
        BY <2>1, <2>3, Zenon DEF stop_all_finish, Return, BeginStart
      <4> QED
        BY <1>0, <2>2, <4>1, Zenon
    <3> QED
      BY <3>1, <3>3, Zenon DEF UnitsFollow, StartsFromCleanSlate
  <2>4. CASE ~(ok /\ ~failed)
    <3>1. /\ applied' = "NeedsCleanup" /\ lock' = "none"
          /\ \E x \in {"err", "check"} : pc' = [pc EXCEPT ![p] = x]
      BY <2>1, <2>4, Zenon DEF stop_all_finish, Return
    <3>2. \A q \in Procs : pc'[q] # "stop" /\ (pc'[q] = "ok" => pc[q] = "ok")
      BY <1>0, <2>2, <3>1, Zenon
    <3>3. pc'["task"] # "start"
      BY <1>0, <3>1, Zenon DEF Holders
    <3> QED
      BY <1>0, <1>5, <3>1, <3>2, <3>3, Zenon DEF UnitsFollow, StartsFromCleanSlate
  <2> QED
    BY <2>3, <2>4, Zenon
<1> QED
  BY <1>7, <1>8, Zenon

\* Every step keeps what is known of the units.
LEMMA UnitsStep ==
    ASSUME TypeOK, Holders, UnitsFollow, [Next]_vars
    PROVE  UnitsFollow'
<1>0. /\ Procs = {"task", "cleanup"} /\ "task" \in Procs /\ "cleanup" \in Procs
      /\ Units = {"overlay", "hyprland"} /\ "overlay" \in Units
      /\ applied \in {"Stopped", "Running", "NeedsCleanup"}
      /\ step \in 1..2
      /\ pc \in [Procs -> {"idle", "lock", "stop", "start", "check", "wait", "ok",
                           "err", "aborted"}]
      /\ Owned \subseteq Units
  BY Zenon DEF TypeOK, Procs, Units, Owned
<1>q. ASSUME UNCHANGED <<desktop, systemd>> PROVE AllStopped' <=> AllStopped
  BY <1>q, Zenon DEF AllStopped, Owned, systemd
<1>n. \A q \in Procs : pc[q] = "stop" => lock = q
  BY Zenon DEF Holders
<1>1. CASE reconcile
  <2>0. /\ pc["task"] = "lock" /\ lock = "none" /\ UNCHANGED <<desktop, systemd>>
        /\ pc["cleanup"] # "stop"
    BY <1>0, <1>1, <1>n, Zenon DEF reconcile
  <2>1. CASE \E next : BeginStop("task", next) /\ UNCHANGED applied
    <3>1. step' = 1 /\ lock' = "task" /\ pc' = [pc EXCEPT !["task"] = "stop"]
      BY <2>1, Zenon DEF BeginStop
    <3> QED
      BY <1>0, <1>q, <2>0, <3>1 DEF UnitsFollow, StartsFromCleanSlate
  <2>2. CASE Return("task", TRUE) /\ applied' = applied
    <3>1. /\ lock' = "none"
          /\ \E x \in {"ok", "err", "check"} : pc' = [pc EXCEPT !["task"] = x]
      BY <2>2, ZenonT(30) DEF Return
    <3> QED
      BY <1>0, <1>q, <2>0, <2>2, <3>1, Zenon DEF UnitsFollow, StartsFromCleanSlate
  <2>3. CASE BeginStart("task") /\ applied = "Stopped" /\ UNCHANGED applied
    <3>1. step' = 1 /\ lock' = "task" /\ pc' = [pc EXCEPT !["task"] = "start"]
      BY <2>3, Zenon DEF BeginStart
    <3> QED
      BY <1>0, <1>q, <2>0, <2>3, <3>1, Zenon DEF UnitsFollow, StartsFromCleanSlate
  <2>4. desktop = "Unsupported" /\ applied # "NeedsCleanup" => applied = "Stopped"
    BY <1>0, Zenon DEF Holders
  <2> QED
    BY <1>1, <2>1, <2>2, <2>3, <2>4, ZenonT(30) DEF reconcile
<1>2. CASE force_stop_all
  <2>1. /\ pc["cleanup"] = "lock" /\ lock = "none" /\ UNCHANGED <<desktop, systemd>>
        /\ step' = 1 /\ lock' = "cleanup" /\ pc' = [pc EXCEPT !["cleanup"] = "stop"]
        /\ UNCHANGED applied /\ pc["task"] \notin {"stop", "start"}
    BY <1>0, <1>2, Zenon DEF force_stop_all, BeginStop, Holders
  <2> QED
    BY <1>0, <1>q, <2>1 DEF UnitsFollow, StartsFromCleanSlate
<1>3. CASE start
  <2>0. /\ pc["task"] = "start" /\ lock = "task" /\ pc["cleanup"] \notin {"stop", "ok"}
    <3>1. pc["task"] = "start" /\ lock = "task"
      BY <1>0, <1>3, Zenon DEF start, Holders
    <3>2. main \notin {"reset", "forced", "forced_grace", "ended"}
      BY <3>1, Zenon DEF Holders, Ended
    <3>3. pc["cleanup"] = "idle"
      BY <3>2, Zenon DEF Holders, TypeOK
    <3> QED
      BY <3>1, <3>3, Zenon
  <2>1. CASE step' = step + 1 /\ UNCHANGED <<lock, pc>>
    BY <1>0, <2>0, <2>1 DEF UnitsFollow, StartsFromCleanSlate
  <2>2. CASE applied' = "Running" /\ Return("task", TRUE)
    <3>1. \E x \in {"ok", "err", "check"} : pc' = [pc EXCEPT !["task"] = x]
      BY <2>2, ZenonT(30) DEF Return
    <3> QED
      BY <1>0, <2>0, <2>2, <3>1, Zenon DEF UnitsFollow, StartsFromCleanSlate
  <2>3. CASE applied' = "NeedsCleanup" /\ BeginStop("task", "fail")
    <3>1. step' = 1 /\ pc' = [pc EXCEPT !["task"] = "stop"]
      BY <2>3, Zenon DEF BeginStop
    <3> QED
      BY <1>0, <2>0, <2>3, <3>1 DEF UnitsFollow, StartsFromCleanSlate
  <2> QED
    BY <1>3, <2>1, <2>2, <2>3, ZenonT(30) DEF start
<1>4. ASSUME NEW p \in Procs, stop_all_locked(p) PROVE UnitsFollow'
  BY <1>4, StopUnits, Zenon
<1>5. CASE after_reconcile \/ wait
  <2>1. /\ pc["task"] \in {"check", "wait"} /\ UNCHANGED <<desktop, systemd>>
        /\ pc' \in {[pc EXCEPT !["task"] = "lock"], [pc EXCEPT !["task"] = "wait"]}
        /\ UNCHANGED <<applied, lock, step, failed>>
    BY <1>5, Zenon DEF after_reconcile, wait, Again, TakeDesired, TakeShutdown
  <2>2. pc["cleanup"] = "idle"
    BY <2>1, Zenon DEF Holders, Ended, TypeOK
  <2>3. \A q \in Procs : pc'[q] \notin {"stop", "start", "ok", "aborted"}
    BY <1>0, <2>1, <2>2, Zenon
  <2>4. pc["task"] # "aborted"
    BY <2>1, Zenon
  <2> QED
    BY <1>0, <1>q, <2>1, <2>3, <2>4, Zenon DEF UnitsFollow, StartsFromCleanSlate
<1>6. CASE \/ request_shutdown \/ task_joined \/ shutdown_times_out
           \/ forced_joined \/ forced_times_out
           \/ selected_changes \/ game_reported \/ UNCHANGED vars
  <2>1. UNCHANGED <<desktop, systemd, applied, lock, pc, step, failed>>
    BY <1>6, Zenon DEF request_shutdown, task_joined, shutdown_times_out, forced_joined,
                forced_times_out, selected_changes, game_reported, vars, session
  <2> QED
    BY <1>0, <2>1, OffKept, QuietUnits, Zenon
<1>7. ASSUME NEW u \in Units, job_completes(u) \/ unit_exits(u) PROVE UnitsFollow'
  <2>1. UNCHANGED <<desktop, applied, lock, pc, step, failed>>
    BY <1>7, Zenon DEF job_completes, unit_exits, session
  <2> QED
    BY <1>7, <2>1, OffKept, QuietUnits, Zenon
<1>8. CASE spawn_forced_cleanup
  <2>1. /\ UNCHANGED <<desktop, systemd, applied, lock, step, failed>>
        /\ pc' = [pc EXCEPT !["cleanup"] = "lock"]
        /\ pc["task"] \notin {"stop", "start"}
    BY <1>8, Zenon DEF spawn_forced_cleanup, Holders, Ended
  <2> QED
    BY <1>0, <1>q, <2>1, Zenon DEF UnitsFollow, StartsFromCleanSlate
<1>9. CASE grace_times_out
  <2>1. /\ pc' = [pc EXCEPT !["task"] = "aborted"]
        /\ pc["cleanup"] = "idle"
    BY <1>9, Zenon DEF grace_times_out, Abort, Holders
  <2> QED
    BY <1>0, <2>1, Zenon DEF UnitsFollow, StartsFromCleanSlate
<1>10. CASE forced_grace_times_out
  <2>1. /\ pc' = [pc EXCEPT !["cleanup"] = "aborted"]
        /\ pc["task"] \notin {"stop", "start"}
        /\ lock' \in {lock, "none"} /\ lock # "task" /\ UNCHANGED <<applied, desktop>>
    BY <1>0, <1>10, Zenon DEF forced_grace_times_out, Abort, Holders, Ended
  <2>2. \A u \in Units : Off(u) => Off(u)'
    <3>1. CASE pc["cleanup"] = "stop"
      <4>1. step \in 1..Len(stop_command_plan(desktop))
        BY <1>0, <3>1, PlanFacts DEF Holders, TypeOK
      <4>2. PICK w \in Units : w = stop_command_plan(desktop)[step]
        BY <4>1, PlanFacts, Zenon DEF TypeOK
      <4>3. Leave("stop", w)
        BY <1>10, <3>1, <4>2, Zenon DEF forced_grace_times_out, Abort
      <4> QED
        BY <4>3, OffKept, Zenon
    <3>2. CASE pc["cleanup"] # "stop"
      <4>1. pc["cleanup"] # "start"
        BY Zenon DEF Holders
      <4>2. UNCHANGED systemd
        BY <1>10, <3>2, <4>1, Zenon DEF forced_grace_times_out, Abort
      <4> QED
        BY <1>0, <4>2, OffKept, Zenon
    <3> QED
      BY <3>1, <3>2, Zenon
  <2>3. AllStopped => AllStopped'
    BY <1>0, <2>1, <2>2, AllStoppedIsOff, Zenon
  <2> QED
    BY <1>0, <2>1, <2>3, Zenon DEF UnitsFollow, StartsFromCleanSlate
<1> QED
  BY <1>0, <1>1, <1>2, <1>3, <1>4, <1>5, <1>6, <1>7, <1>8, <1>9, <1>10, Zenon
     DEF Next, TaskStep, CleanupStep, MainStep

-----------------------------------------------------------------------------
\* Every step keeps the invariant.
LEMMA SessionNext == SessionInv /\ [Next]_vars => SessionInv'
<1> SUFFICES ASSUME SessionInv, [Next]_vars PROVE SessionInv'
  BY Zenon
<1>1. TypeOK'
  BY OtherType, TaskStepType, Zenon
     DEF SessionInv, Next, TaskStep, CleanupStep, MainStep, Procs
<1>2. Holders'
  BY HoldersStep, Zenon DEF SessionInv
<1>3. UnitsFollow'
  BY UnitsStep, Zenon DEF SessionInv
<1> QED
  BY <1>1, <1>2, <1>3, Zenon DEF SessionInv

\* The coordinator's variables keep their types.
THEOREM SessionTypeCorrect == Spec => []TypeOK
<1>1. SessionInv => TypeOK
  BY Zenon DEF SessionInv
<1> QED
  BY <1>1, SessionInit, SessionNext, PTL DEF Spec

\* Outside a transition, Stopped means that no owned unit is active or about to
\* be, whatever commands failed before.
THEOREM StoppedCorrect == Spec => []StoppedMeansStopped
<1>1. SessionInv => StoppedMeansStopped
  BY Zenon DEF SessionInv, UnitsFollow, StoppedMeansStopped
<1> QED
  BY <1>1, SessionInit, SessionNext, PTL DEF Spec

\* Every start begins with all owned units stopped.
THEOREM StartCorrect == Spec => []StartsFromCleanSlate
<1>1. SessionInv => StartsFromCleanSlate
  BY Zenon DEF SessionInv, UnitsFollow
<1> QED
  BY <1>1, SessionInit, SessionNext, PTL DEF Spec

\* A shutdown whose forced cleanup reports no error leaves no unit behind.
THEOREM ShutdownCorrect == Spec => []CleanShutdown
<1>1. SessionInv => CleanShutdown
  BY Zenon DEF SessionInv, UnitsFollow, Holders, CleanShutdown
<1> QED
  BY <1>1, SessionInit, SessionNext, PTL DEF Spec

\* All the state invariants of the coordinator together.
THEOREM SessionSafe == Spec => []SessionIsSafe
<1>1. TypeOK /\ StoppedMeansStopped /\ StartsFromCleanSlate /\ CleanShutdown => SessionIsSafe
  BY Zenon DEF SessionIsSafe
<1> QED
  BY <1>1, SessionTypeCorrect, StoppedCorrect, StartCorrect, ShutdownCorrect, PTL

------------------------------------------------------------------------------
(* overcrow-control: switching OverCrow on and off, and stopping it.       *)

ControlSteps ==
    {"none", "validate", "save", "integrate", "enable_core", "disable", "rollback", "passive",
     "stop_session", "disable_core", "snapshot", "done"}
ControlSettings == [enabled : BOOLEAN, games : SUBSET (Steam \cup Manual)]
ControlLoads == [warning : BOOLEAN, settings : ControlSettings]
ControlFiles == [bad : BOOLEAN, enabled : BOOLEAN, games : SUBSET (Steam \cup Manual)]
ControlScreens ==
    [settings : ControlSettings, status : {"Warning", "Enabled", "Disabled"}, error : BOOLEAN,
     picked : Manual \cup {None}]
ControlToggles ==
    [pc : ControlSteps, enabling : BOOLEAN, settings : ControlSettings, failed : BOOLEAN,
     load : ControlLoads]
ControlUnits == [running : BOOLEAN, enabled : BOOLEAN]
ControlStops == {"idle", "wait", "request", "wait_stopped", "stopped", "failed"}
Releases == {None} \cup [version : Versions, installable : BOOLEAN]
ControlUpdates ==
    [op : {"none", "check", "install"},
     phase : {"Idle", "Checking", "Available", "Manual", "UpToDate", "Failed", "Downloading",
              "Installing", "Installed", "RestartRequired"},
     candidate : Releases, asset : Releases]

ControlTypes ==
    /\ settings_file \in ControlFiles /\ ui \in ControlScreens /\ toggle \in ControlToggles
    /\ core \in ControlUnits /\ stop \in [Control!Stoppers -> ControlStops]
    /\ update \in ControlUpdates

\* Nothing of OverCrow runs, or will at the next login.
ControlDown == ~core.running /\ ~core.enabled /\ ~session_units /\ ~settings_file.enabled

\* A transaction on its way: one that enables has written so before it touches Core, one
\* that undoes it has failed, and one that ended without an error has done its work.
ToggleKnows ==
    /\ toggle.pc \in {"validate", "save", "integrate", "enable_core"} => toggle.enabling
    /\ toggle.pc \in {"integrate", "enable_core"} => settings_file.enabled
    /\ toggle.pc = "disable" => ~toggle.enabling
    /\ toggle.pc = "rollback" => toggle.failed
    /\ toggle.pc \in {"passive", "stop_session", "disable_core"} =>
         toggle.failed \/ (~toggle.enabling /\ ~settings_file.enabled)
    /\ toggle.pc \in {"snapshot", "done"} /\ ~toggle.failed /\ ~toggle.enabling => ControlDown
    /\ toggle.pc = "snapshot" /\ ~toggle.failed /\ toggle.enabling => settings_file.enabled
    /\ toggle.pc = "done" /\ ~toggle.failed /\ toggle.enabling =>
         toggle.load.warning \/ toggle.load.settings.enabled

\* What a finished transaction read is what the file holds until it is shown.
LoadIsFresh ==
    toggle.pc = "done" /\ ~toggle.load.warning =>
      /\ toggle.load.settings.enabled = settings_file.enabled
      /\ toggle.load.settings.games = settings_file.games

\* The screen against the file, damaged or not.
ScreenAgrees ==
    /\ ui.status = "Disabled" => ui.settings.enabled = FALSE
    /\ toggle.pc = "none" /\ ui.status = "Disabled" =>
         /\ settings_file.enabled = FALSE
         /\ ui.settings.games \subseteq settings_file.games
         /\ settings_file.games \ ui.settings.games \subseteq Manual

\* A thread that asked for the stop and waits: what it would take for success is one.
StopIsTrue ==
    /\ \E t \in Control!Stoppers : stop[t] = "wait_stopped"
    /\ toggle.pc = "none" /\ ui.status = "Disabled" /\ ~ui.error
    => ControlDown

ControlInv ==
    ControlTypes /\ ToggleKnows /\ LoadIsFresh /\ ScreenAgrees /\ StopIsTrue
    /\ Control!InstallsTheOffer

------------------------------------------------------------------------------
\* Goto and Fail.
LEMMA ToggleGoes ==
    ASSUME toggle \in ControlToggles, NEW p \in ControlSteps, Control!Goto(p)
    PROVE  /\ toggle' \in ControlToggles /\ toggle'.pc = p
           /\ toggle'.enabling = toggle.enabling /\ toggle'.failed = toggle.failed
  BY DEF ControlToggles, Control!Goto

\* Fail: the transaction goes on to its next step, marked as failed.
LEMMA ToggleFails ==
    ASSUME toggle \in ControlToggles, NEW p \in ControlSteps, Control!Fail(p)
    PROVE  /\ toggle' \in ControlToggles /\ toggle'.pc = p
           /\ toggle'.enabling = toggle.enabling /\ toggle'.failed
  BY Zenon DEF ControlToggles, Control!Fail

\* A step of the transaction that leaves the controller, the threads that stop and the
\* update alone.
LEMMA ToggleSteps ==
    ASSUME ControlInv, UNCHANGED <<ui, stop, update>>,
           settings_file' \in ControlFiles, core' \in ControlUnits, toggle' \in ControlToggles,
           toggle'.pc # "none", ToggleKnows', LoadIsFresh'
    PROVE  ControlInv'
  <1>1. ControlTypes'
    BY Zenon DEF ControlInv, ControlTypes
  <1>2. ScreenAgrees' /\ StopIsTrue'
    BY Zenon DEF ControlInv, ScreenAgrees, StopIsTrue
  <1>3. Control!InstallsTheOffer'
    BY Zenon DEF ControlInv, Control!InstallsTheOffer
  <1> QED
    BY <1>1, <1>2, <1>3, Zenon DEF ControlInv

\* What a command to the Core unit leaves.
LEMMA UnitsChange ==
    ASSUME NEW c \in ControlUnits, NEW e \in BOOLEAN, NEW d,
           d = [c EXCEPT !.enabled = e] \/ d = [running |-> e, enabled |-> e]
    PROVE  d \in ControlUnits
  BY DEF ControlUnits

\* A file that was saved.
LEMMA SavedFile ==
    ASSUME NEW e \in BOOLEAN, NEW g \in SUBSET (Steam \cup Manual)
    PROVE  /\ [bad |-> FALSE, enabled |-> e, games |-> g] \in ControlFiles
           /\ [bad |-> FALSE, enabled |-> e, games |-> g].enabled = e
           /\ [bad |-> FALSE, enabled |-> e, games |-> g].games = g
  BY DEF ControlFiles

\* What Load says.
LEMMA LoadedFile ==
    ASSUME settings_file \in ControlFiles
    PROVE  /\ Control!Load \in ControlLoads
           /\ ~Control!Load.warning =>
                /\ Control!Load.settings.enabled = settings_file.enabled
                /\ Control!Load.settings.games = settings_file.games
  <1>1. CASE settings_file.bad
    <2>1. Control!Load = [warning |-> TRUE, settings |-> [enabled |-> FALSE, games |-> {}]]
      BY <1>1, Zenon DEF Control!Load, Control!Settings
    <2> QED
      BY <2>1 DEF ControlLoads, ControlSettings
  <1>2. CASE ~settings_file.bad
    <2>1. Control!Load = [warning |-> FALSE, settings |->
                            [enabled |-> settings_file.enabled, games |-> settings_file.games]]
      BY <1>2, Zenon DEF Control!Load, Control!Settings
    <2>2. settings_file.enabled \in BOOLEAN /\ settings_file.games \in SUBSET (Steam \cup Manual)
      BY DEF ControlFiles
    <2> QED
      BY <2>1, <2>2 DEF ControlLoads, ControlSettings
  <1> QED
    BY <1>1, <1>2, Zenon

------------------------------------------------------------------------------
\* Enabling: nothing is touched before the file says so.
LEMMA EnableValidateStep == ControlInv /\ Control!EnableValidate => ControlInv'
  <1> SUFFICES ASSUME ControlInv, Control!EnableValidate PROVE ControlInv'
    OBVIOUS
  <1>1. /\ toggle \in ControlToggles /\ settings_file \in ControlFiles /\ core \in ControlUnits
        /\ toggle.pc = "validate" /\ toggle.enabling
    BY Zenon DEF ControlInv, ControlTypes, ToggleKnows, Control!EnableValidate
  <1>2. settings_file' = settings_file /\ core' = core /\ UNCHANGED <<ui, stop, update>>
    BY Zenon DEF Control!EnableValidate
  <1>3. \/ Control!Goto("save")
        \/ Control!Fail("snapshot")
    BY Zenon DEF Control!EnableValidate
  <1>4. "save" \in ControlSteps /\ "snapshot" \in ControlSteps
    BY DEF ControlSteps
  <1>5. /\ toggle' \in ControlToggles /\ toggle'.enabling
        /\ toggle'.pc = "save" \/ (toggle'.pc = "snapshot" /\ toggle'.failed)
    BY <1>1, <1>3, <1>4, ToggleGoes, ToggleFails, Zenon
  <1>6. ToggleKnows' /\ LoadIsFresh' /\ toggle'.pc # "none"
    BY <1>5, Zenon DEF ToggleKnows, LoadIsFresh
  <1> QED
    BY <1>1, <1>2, <1>5, <1>6, ToggleSteps, Zenon

\* The settings are saved enabled, or the enable ends or is undone.
LEMMA EnableSaveStep == ControlInv /\ Control!EnableSave => ControlInv'
  <1> SUFFICES ASSUME ControlInv, Control!EnableSave PROVE ControlInv'
    OBVIOUS
  <1>1. /\ toggle \in ControlToggles /\ settings_file \in ControlFiles /\ core \in ControlUnits
        /\ toggle.pc = "save" /\ toggle.enabling
    BY Zenon DEF ControlInv, ControlTypes, ToggleKnows, Control!EnableSave
  <1>2. core' = core /\ UNCHANGED <<ui, stop, update>>
    BY Zenon DEF Control!EnableSave
  <1> DEFINE f == [bad |-> FALSE, enabled |-> TRUE, games |-> toggle.settings.games]
             s == [enabled |-> TRUE, games |-> toggle.settings.games]
  <1>3. s.enabled = TRUE /\ s.games = toggle.settings.games
    OBVIOUS
  <1>4. \/ settings_file' = f /\ Control!Goto("integrate")
        \/ settings_file' \in {settings_file, f}
           /\ Control!Fail("rollback")
    BY <1>3, Zenon DEF Control!EnableSave, Control!Save, Control!Settings
  <1>5. toggle.settings.games \in SUBSET (Steam \cup Manual)
    BY <1>1 DEF ControlToggles, ControlSettings
  <1>6. f \in ControlFiles /\ f.enabled
    BY <1>5, SavedFile, Zenon
  <1>7. "integrate" \in ControlSteps /\ "rollback" \in ControlSteps
    BY DEF ControlSteps
  <1> HIDE DEF f, s
  <1>8. /\ toggle' \in ControlToggles /\ toggle'.enabling /\ settings_file' \in ControlFiles
        /\ \/ toggle'.pc = "integrate" /\ settings_file'.enabled
           \/ toggle'.pc = "rollback" /\ toggle'.failed
    BY <1>1, <1>4, <1>6, <1>7, ToggleGoes, ToggleFails, Zenon
  <1>9. ToggleKnows' /\ LoadIsFresh' /\ toggle'.pc # "none"
    BY <1>8, Zenon DEF ToggleKnows, LoadIsFresh
  <1> QED
    BY <1>1, <1>2, <1>8, <1>9, ToggleSteps, Zenon

\* The session integration is installed only once the file says enabled.
LEMMA EnableIntegrateStep == ControlInv /\ Control!EnableIntegrate => ControlInv'
  <1> SUFFICES ASSUME ControlInv, Control!EnableIntegrate PROVE ControlInv'
    OBVIOUS
  <1>1. /\ toggle \in ControlToggles /\ settings_file \in ControlFiles /\ core \in ControlUnits
        /\ toggle.pc = "integrate" /\ toggle.enabling /\ settings_file.enabled
    BY Zenon DEF ControlInv, ControlTypes, ToggleKnows, Control!EnableIntegrate
  <1>2. settings_file' = settings_file /\ core' = core /\ UNCHANGED <<ui, stop, update>>
    BY Zenon DEF Control!EnableIntegrate
  <1>3. \/ Control!Goto("enable_core")
        \/ Control!Fail("rollback")
    BY Zenon DEF Control!EnableIntegrate
  <1>4. "enable_core" \in ControlSteps /\ "rollback" \in ControlSteps
    BY DEF ControlSteps
  <1>5. /\ toggle' \in ControlToggles /\ toggle'.enabling
        /\ toggle'.pc = "enable_core" \/ (toggle'.pc = "rollback" /\ toggle'.failed)
    BY <1>1, <1>3, <1>4, ToggleGoes, ToggleFails, Zenon
  <1>6. settings_file'.enabled
    BY <1>1, <1>2, Zenon
  <1>7. ToggleKnows' /\ LoadIsFresh' /\ toggle'.pc # "none"
    BY <1>5, <1>6, Zenon DEF ToggleKnows, LoadIsFresh
  <1> QED
    BY <1>1, <1>2, <1>5, <1>7, ToggleSteps, Zenon

\* The Core unit is started and enabled only once the file says so.
LEMMA EnableCoreStep == ControlInv /\ Control!EnableCore => ControlInv'
  <1> SUFFICES ASSUME ControlInv, Control!EnableCore PROVE ControlInv'
    OBVIOUS
  <1>1. /\ toggle \in ControlToggles /\ settings_file \in ControlFiles /\ core \in ControlUnits
        /\ toggle.pc = "enable_core" /\ toggle.enabling /\ settings_file.enabled
    BY Zenon DEF ControlInv, ControlTypes, ToggleKnows, Control!EnableCore
  <1>2. settings_file' = settings_file /\ UNCHANGED <<ui, stop, update>>
    BY Zenon DEF Control!EnableCore
  <1>3. \/ Control!Goto("snapshot")
        \/ Control!Fail("rollback")
    BY Zenon DEF Control!EnableCore
  <1>4. "snapshot" \in ControlSteps /\ "rollback" \in ControlSteps
    BY DEF ControlSteps
  <1>5. /\ toggle' \in ControlToggles /\ toggle'.enabling
        /\ toggle'.pc = "snapshot" \/ (toggle'.pc = "rollback" /\ toggle'.failed)
    BY <1>1, <1>3, <1>4, ToggleGoes, ToggleFails, Zenon
  <1>6. settings_file'.enabled
    BY <1>1, <1>2, Zenon
  <1>7. ToggleKnows' /\ LoadIsFresh' /\ toggle'.pc # "none"
    BY <1>5, <1>6, Zenon DEF ToggleKnows, LoadIsFresh
  <1>8. core' \in {core, [core EXCEPT !.enabled = TRUE], [running |-> TRUE, enabled |-> TRUE]}
    BY Zenon DEF Control!EnableCore
  <1>9. core' \in ControlUnits
    BY <1>1, <1>8, UnitsChange, Zenon
  <1> QED
    BY <1>1, <1>2, <1>5, <1>7, <1>9, ToggleSteps, Zenon

\* Disabling, and undoing an enable: the file first, then the rest whatever happens.
LEMMA PersistDisabledStep == ControlInv /\ Control!PersistDisabled => ControlInv'
  <1> SUFFICES ASSUME ControlInv, Control!PersistDisabled PROVE ControlInv'
    OBVIOUS
  <1>1. /\ toggle \in ControlToggles /\ settings_file \in ControlFiles /\ core \in ControlUnits
        /\ ~toggle.enabling \/ toggle.failed
    BY Zenon DEF ControlInv, ControlTypes, ToggleKnows, Control!PersistDisabled
  <1>2. core' = core /\ UNCHANGED <<ui, stop, update>>
    BY Zenon DEF Control!PersistDisabled
  <1> DEFINE s == [Control!Load.settings EXCEPT !.enabled = FALSE]
             f == [bad |-> FALSE, enabled |-> s.enabled, games |-> s.games]
  <1>3. \/ settings_file' = f /\ Control!Goto("passive")
        \/ settings_file' \in {settings_file, f}
           /\ Control!Fail("passive")
    BY Zenon DEF Control!PersistDisabled, Control!Save
  <1>4. Control!Load.settings \in ControlSettings
    BY <1>1, LoadedFile DEF ControlLoads
  <1>5. s.enabled = FALSE /\ s.games \in SUBSET (Steam \cup Manual)
    BY <1>4 DEF ControlSettings
  <1> HIDE DEF s
  <1>6. f \in ControlFiles /\ ~f.enabled
    BY <1>5, SavedFile, Zenon
  <1>7. "passive" \in ControlSteps
    BY DEF ControlSteps
  <1> HIDE DEF f
  <1>8. /\ toggle' \in ControlToggles /\ settings_file' \in ControlFiles
        /\ toggle'.pc = "passive" /\ toggle'.enabling = toggle.enabling
        /\ toggle'.failed \/ (toggle'.failed = toggle.failed /\ ~settings_file'.enabled)
    BY <1>1, <1>3, <1>6, <1>7, ToggleGoes, ToggleFails, Zenon
  <1>9. toggle'.failed \/ (~toggle'.enabling /\ ~settings_file'.enabled)
    BY <1>1, <1>8, Zenon
  <1>10. ToggleKnows' /\ LoadIsFresh' /\ toggle'.pc # "none"
    BY <1>8, <1>9, Zenon DEF ToggleKnows, LoadIsFresh
  <1> QED
    BY <1>1, <1>2, <1>8, <1>10, ToggleSteps, Zenon

\* Leaving Interactive and stopping the session units, whether or not they fail.
LEMMA UndoStep ==
    ControlInv /\ (Control!RequestPassive \/ Control!StopSession) => ControlInv'
  <1> SUFFICES ASSUME ControlInv, Control!RequestPassive \/ Control!StopSession
               PROVE  ControlInv'
    OBVIOUS
  <1>1. /\ toggle \in ControlToggles /\ settings_file \in ControlFiles /\ core \in ControlUnits
        /\ toggle.failed \/ (~toggle.enabling /\ ~settings_file.enabled)
    BY Zenon DEF ControlInv, ControlTypes, ToggleKnows, Control!RequestPassive,
                 Control!StopSession
  <1>2. settings_file' = settings_file /\ core' = core /\ UNCHANGED <<ui, stop, update>>
    BY Zenon DEF Control!RequestPassive, Control!StopSession
  <1>3. \E p \in {"stop_session", "disable_core"} :
          \/ Control!Goto(p)
          \/ Control!Fail(p)
    BY Zenon DEF Control!RequestPassive, Control!StopSession
  <1>4. \A p \in {"stop_session", "disable_core"} : p \in ControlSteps
    BY DEF ControlSteps
  <1>5. /\ toggle' \in ControlToggles /\ toggle'.enabling = toggle.enabling
        /\ toggle'.failed \/ toggle'.failed = toggle.failed
        /\ toggle'.pc \in {"stop_session", "disable_core"}
    BY <1>1, <1>3, <1>4, ToggleGoes, ToggleFails, Zenon
  <1>6. toggle'.failed \/ (~toggle'.enabling /\ ~settings_file'.enabled)
    BY <1>1, <1>2, <1>5, Zenon
  <1>7. ToggleKnows' /\ LoadIsFresh' /\ toggle'.pc # "none"
    BY <1>5, <1>6, Zenon DEF ToggleKnows, LoadIsFresh
  <1> QED
    BY <1>1, <1>2, <1>5, <1>7, ToggleSteps, Zenon

\* The Core unit is stopped and disabled last.
LEMMA DisableCoreStep == ControlInv /\ Control!DisableCore => ControlInv'
  <1> SUFFICES ASSUME ControlInv, Control!DisableCore PROVE ControlInv'
    OBVIOUS
  <1>1. /\ toggle \in ControlToggles /\ settings_file \in ControlFiles /\ core \in ControlUnits
        /\ toggle.failed \/ (~toggle.enabling /\ ~settings_file.enabled)
    BY Zenon DEF ControlInv, ControlTypes, ToggleKnows, Control!DisableCore
  <1>2. settings_file' = settings_file /\ UNCHANGED <<ui, stop, update>>
    BY Zenon DEF Control!DisableCore
  <1>3. \/ /\ core' = [running |-> FALSE, enabled |-> FALSE] /\ session_units' = FALSE
           /\ Control!Goto("snapshot")
        \/ /\ core' \in {core, [core EXCEPT !.enabled = FALSE]}
           /\ Control!Fail("snapshot")
    BY Zenon DEF Control!DisableCore
  <1>4. "snapshot" \in ControlSteps
    BY DEF ControlSteps
  <1>5. core' \in ControlUnits
    BY <1>1, <1>3, UnitsChange, Zenon
  <1>6. ASSUME core' = [running |-> FALSE, enabled |-> FALSE]
        PROVE  ~core'.running /\ ~core'.enabled
    BY <1>6
  <1>7. /\ toggle' \in ControlToggles /\ toggle'.pc = "snapshot"
        /\ toggle'.enabling = toggle.enabling
        /\ \/ toggle'.failed
           \/ toggle'.failed = toggle.failed /\ ~core'.running /\ ~core'.enabled /\ ~session_units'
    BY <1>1, <1>3, <1>4, <1>6, ToggleGoes, ToggleFails, Zenon
  <1>8. \/ toggle'.failed
        \/ ~toggle'.enabling /\ ControlDown'
    BY <1>1, <1>2, <1>7, Zenon DEF ControlDown
  <1>9. ToggleKnows' /\ LoadIsFresh' /\ toggle'.pc # "none"
    BY <1>7, <1>8, Zenon DEF ToggleKnows, LoadIsFresh
  <1> QED
    BY <1>1, <1>2, <1>5, <1>7, <1>9, ToggleSteps, Zenon

\* The transaction ends with what it reads of the file.
LEMMA TakeSnapshotStep == ControlInv /\ Control!TakeSnapshot => ControlInv'
  <1> SUFFICES ASSUME ControlInv, Control!TakeSnapshot PROVE ControlInv'
    OBVIOUS
  <1>1. /\ toggle \in ControlToggles /\ settings_file \in ControlFiles /\ core \in ControlUnits
        /\ toggle.pc = "snapshot"
        /\ ~toggle.failed /\ ~toggle.enabling => ControlDown
        /\ ~toggle.failed /\ toggle.enabling => settings_file.enabled
    BY Zenon DEF ControlInv, ControlTypes, ToggleKnows, Control!TakeSnapshot
  <1>2. /\ settings_file' = settings_file /\ core' = core /\ session_units' = session_units
        /\ UNCHANGED <<ui, stop, update>>
        /\ toggle' = [toggle EXCEPT !.pc = "done", !.load = Control!Load]
    BY Zenon DEF Control!TakeSnapshot
  <1>3. PICK l : l = Control!Load
    OBVIOUS
  <1>4. /\ l \in ControlLoads
        /\ ~l.warning => /\ l.settings.enabled = settings_file.enabled
                         /\ l.settings.games = settings_file.games
    BY <1>1, <1>3, LoadedFile, Zenon
  <1>5. "done" \in ControlSteps
    BY DEF ControlSteps
  <1>6. toggle' = [toggle EXCEPT !.pc = "done", !.load = l]
    BY <1>2, <1>3, Zenon
  <1>7. /\ toggle' \in ControlToggles /\ toggle'.pc = "done" /\ toggle'.load = l
        /\ toggle'.enabling = toggle.enabling /\ toggle'.failed = toggle.failed
    BY <1>1, <1>4, <1>5, <1>6, Zenon DEF ControlToggles
  <1>8. ControlDown => ControlDown'
    BY <1>2, Zenon DEF ControlDown
  <1>9. ToggleKnows' /\ toggle'.pc # "none"
    BY <1>1, <1>2, <1>4, <1>7, <1>8, Zenon DEF ToggleKnows
  <1>10. LoadIsFresh'
    BY <1>2, <1>4, <1>7, Zenon DEF LoadIsFresh
  <1> QED
    BY <1>1, <1>2, <1>7, <1>9, <1>10, ToggleSteps, Zenon

------------------------------------------------------------------------------
\* A step elsewhere: what the transaction and the screen are about stays.
LEMMA ElsewhereStep ==
    ASSUME ControlInv, toggle' = toggle,
           settings_file' \in ControlFiles, settings_file'.enabled = settings_file.enabled,
           settings_file'.games = settings_file.games,
           ui' \in ControlScreens, ui'.status = ui.status, ui'.error = ui.error,
           ui'.settings = ui.settings,
           core' \in ControlUnits, ControlDown => ControlDown',
           stop' \in [Control!Stoppers -> ControlStops],
           \A t \in Control!Stoppers : stop'[t] = "wait_stopped" => stop[t] = "wait_stopped",
           update' \in ControlUpdates, Control!InstallsTheOffer'
    PROVE  ControlInv'
  <1>1. ControlTypes'
    BY Zenon DEF ControlInv, ControlTypes
  <1>2. ToggleKnows'
    BY Zenon DEF ControlInv, ToggleKnows
  <1>3. LoadIsFresh' /\ ScreenAgrees'
    BY Zenon DEF ControlInv, LoadIsFresh, ScreenAgrees
  <1>4. StopIsTrue'
    BY Zenon DEF ControlInv, StopIsTrue
  <1> QED
    BY <1>1, <1>2, <1>3, <1>4, Zenon DEF ControlInv

\* The renderer and the bridge come and go by themselves only while Core runs.
LEMMA SessionChangesStep == ControlInv /\ Control!SessionChanges => ControlInv'
  <1> SUFFICES ASSUME ControlInv, Control!SessionChanges PROVE ControlInv'
    OBVIOUS
  <1>1. core.running /\ UNCHANGED <<settings_file, ui, toggle, core, stop, update>>
    BY Zenon DEF Control!SessionChanges
  <1>2. ~ControlDown
    BY <1>1, Zenon DEF ControlDown
  <1>3. ControlTypes /\ Control!InstallsTheOffer'
    BY <1>1, Zenon DEF ControlInv, Control!InstallsTheOffer
  <1> QED
    BY <1>1, <1>2, <1>3, ElsewhereStep, Zenon DEF ControlTypes

\* The file is damaged or repaired by hand; what it says of enabling and games stays.
LEMMA EditFileStep == ControlInv /\ Control!EditFile => ControlInv'
  <1> SUFFICES ASSUME ControlInv, Control!EditFile PROVE ControlInv'
    OBVIOUS
  <1>1. UNCHANGED <<ui, toggle, core, session_units, stop, update>>
    BY Zenon DEF Control!EditFile
  <1>2. settings_file' = [settings_file EXCEPT !.bad = ~settings_file.bad]
    BY DEF Control!EditFile
  <1>3. ControlTypes /\ Control!InstallsTheOffer'
    BY <1>1, Zenon DEF ControlInv, Control!InstallsTheOffer
  <1>4. settings_file \in ControlFiles
    BY <1>3, Zenon DEF ControlTypes
  <1>5. PICK b \in BOOLEAN : b = ~settings_file.bad
    BY Zenon
  <1>6. /\ settings_file' \in ControlFiles /\ settings_file'.enabled = settings_file.enabled
        /\ settings_file'.games = settings_file.games
    BY <1>2, <1>4, <1>5, Zenon DEF ControlFiles
  <1>7. ControlDown => ControlDown'
    BY <1>1, <1>6, Zenon DEF ControlDown
  <1> QED
    BY <1>1, <1>3, <1>6, <1>7, ElsewhereStep, Zenon DEF ControlTypes

\* Picking an executable changes the selection on the screen alone.
LEMMA PickManualGameStep ==
    ASSUME NEW g \in Manual
    PROVE  ControlInv /\ Control!PickManualGame(g) => ControlInv'
  <1> SUFFICES ASSUME ControlInv, Control!PickManualGame(g) PROVE ControlInv'
    OBVIOUS
  <1>1. /\ ui' = [ui EXCEPT !.picked = g]
        /\ UNCHANGED <<settings_file, toggle, core, session_units, stop, update>>
    BY Zenon DEF Control!PickManualGame
  <1>2. ControlTypes /\ Control!InstallsTheOffer' /\ (ControlDown => ControlDown')
    BY <1>1, Zenon DEF ControlInv, Control!InstallsTheOffer, ControlDown
  <1>3. ui \in ControlScreens
    BY <1>2, Zenon DEF ControlTypes
  <1>4. /\ ui' \in ControlScreens /\ ui'.status = ui.status /\ ui'.error = ui.error
        /\ ui'.settings = ui.settings
    BY <1>1, <1>3 DEF ControlScreens
  <1> QED
    BY <1>1, <1>2, <1>4, ElsewhereStep, Zenon DEF ControlTypes

\* A step of the update or of a thread that stops, and of nothing else.
LEMMA UpdateSteps ==
    ASSUME ControlInv, UNCHANGED <<settings_file, ui, toggle, core, session_units>>,
           stop' \in [Control!Stoppers -> ControlStops],
           \A t \in Control!Stoppers : stop'[t] = "wait_stopped" => stop[t] = "wait_stopped",
           update' \in ControlUpdates, Control!InstallsTheOffer'
    PROVE  ControlInv'
  <1>1. ControlTypes /\ (ControlDown => ControlDown')
    BY Zenon DEF ControlInv, ControlDown
  <1> QED
    BY <1>1, ElsewhereStep, Zenon DEF ControlTypes

\* A thread that stops goes on.
LEMMA StopMoves ==
    ASSUME stop \in [Control!Stoppers -> ControlStops], NEW t \in Control!Stoppers,
           NEW p \in ControlStops, p # "wait_stopped", stop' = [stop EXCEPT ![t] = p]
    PROVE  /\ stop' \in [Control!Stoppers -> ControlStops] /\ stop'[t] = p
           /\ \A u \in Control!Stoppers : u # t => stop'[u] = stop[u]
           /\ \A u \in Control!Stoppers : stop'[u] = "wait_stopped" => stop[u] = "wait_stopped"
  <1>1. /\ stop' \in [Control!Stoppers -> ControlStops] /\ stop'[t] = p
        /\ \A u \in Control!Stoppers : u # t => stop'[u] = stop[u]
    OBVIOUS
  <1> QED
    BY <1>1, Zenon

\* A stop request that has failed is one that may be.
LEMMA FailedStops ==
    ASSUME NEW t
    PROVE  Control!Failed(t) \in ControlStops /\ Control!Failed(t) \notin {"wait_stopped", "stopped"}
  <1>1. Control!Failed(t) \in {"idle", "failed"}
    BY Zenon DEF Control!Failed
  <1> QED
    BY <1>1 DEF ControlStops

\* A stop request that waits too long fails.
LEMMA StopTimeoutStep ==
    ASSUME NEW t \in Control!Stoppers
    PROVE  ControlInv /\ Control!StopTimeout(t) => ControlInv'
  <1> SUFFICES ASSUME ControlInv, Control!StopTimeout(t) PROVE ControlInv'
    OBVIOUS
  <1>1. /\ UNCHANGED <<settings_file, ui, toggle, core, session_units, update>>
        /\ stop' = [stop EXCEPT ![t] = Control!Failed(t)]
    BY Zenon DEF Control!StopTimeout
  <1>2. ControlTypes /\ Control!InstallsTheOffer'
    BY <1>1, Zenon DEF ControlInv, Control!InstallsTheOffer
  <1>3. stop \in [Control!Stoppers -> ControlStops] /\ update' \in ControlUpdates
    BY <1>1, <1>2, Zenon DEF ControlTypes
  <1>4. /\ stop' \in [Control!Stoppers -> ControlStops]
        /\ \A u \in Control!Stoppers : stop'[u] = "wait_stopped" => stop[u] = "wait_stopped"
    BY <1>1, <1>3, FailedStops, StopMoves, Zenon
  <1> QED
    BY <1>1, <1>2, <1>3, <1>4, UpdateSteps, Zenon

\* The tray asks the runtime to stop, once at a time.
LEMMA RequestQuitStep == ControlInv /\ Control!RequestQuit => ControlInv'
  <1> SUFFICES ASSUME ControlInv, Control!RequestQuit PROVE ControlInv'
    OBVIOUS
  <1>1. /\ UNCHANGED <<settings_file, ui, toggle, core, session_units, update>>
        /\ stop' = [stop EXCEPT !["quit"] = "wait"]
    BY Zenon DEF Control!RequestQuit
  <1>2. ControlTypes /\ Control!InstallsTheOffer'
    BY <1>1, Zenon DEF ControlInv, Control!InstallsTheOffer
  <1>3. /\ stop \in [Control!Stoppers -> ControlStops] /\ update' \in ControlUpdates
        /\ "quit" \in Control!Stoppers
    BY <1>1, <1>2, Zenon DEF ControlTypes, Control!Stoppers
  <1>4. "wait" \in ControlStops
    BY DEF ControlStops
  <1>5. /\ stop' \in [Control!Stoppers -> ControlStops]
        /\ \A u \in Control!Stoppers : stop'[u] = "wait_stopped" => stop[u] = "wait_stopped"
    BY <1>1, <1>3, <1>4, StopMoves, Zenon
  <1> QED
    BY <1>1, <1>2, <1>3, <1>5, UpdateSteps, Zenon

------------------------------------------------------------------------------
\* Updates: one operation at a time, so that the offer stays until it is installed.
LEMMA ReleaseStep ==
    ASSUME ControlInv, UNCHANGED <<settings_file, ui, toggle, core, session_units, stop>>,
           update' \in ControlUpdates,
           update'.asset # None => update'.candidate = update'.asset /\ update'.op = "install"
    PROVE  ControlInv'
  <1>1. stop \in [Control!Stoppers -> ControlStops] /\ Control!InstallsTheOffer'
    BY Zenon DEF ControlInv, ControlTypes, Control!InstallsTheOffer
  <1> QED
    BY <1>1, UpdateSteps, Zenon

\* A check for updates starts only without another operation.
LEMMA CheckStep == ControlInv /\ Control!Check => ControlInv'
  <1> SUFFICES ASSUME ControlInv, Control!Check PROVE ControlInv'
    OBVIOUS
  <1>1. /\ UNCHANGED <<settings_file, ui, toggle, core, session_units, stop>> /\ update.op = "none"
        /\ update' = [update EXCEPT !.op = "check", !.phase = "Checking", !.candidate = None]
    BY Zenon DEF Control!Check, Control!BeginOperation
  <1>2. update \in ControlUpdates /\ update.asset = None
    BY <1>1, Zenon DEF ControlInv, ControlTypes, Control!InstallsTheOffer
  <1>3. update' \in ControlUpdates /\ update'.asset = None
    BY <1>1, <1>2, Zenon DEF ControlUpdates, Releases
  <1> QED
    BY <1>1, <1>3, ReleaseStep, Zenon

\* A check ends with an offer, with none, or fails.
LEMMA CheckedStep == ControlInv /\ Control!Checked => ControlInv'
  <1> SUFFICES ASSUME ControlInv, Control!Checked PROVE ControlInv'
    OBVIOUS
  <1>1. UNCHANGED <<settings_file, ui, toggle, core, session_units, stop>> /\ update.op = "check"
    BY Zenon DEF Control!Checked
  <1>2. update \in ControlUpdates /\ update.asset = None
    BY <1>1, Zenon DEF ControlInv, ControlTypes, Control!InstallsTheOffer
  <1>3. update' \in ControlUpdates /\ update'.asset = None
    <2>1. CASE \E v \in Versions, i \in BOOLEAN :
                 update' = [update EXCEPT !.op = "none",
                              !.candidate = [version |-> v, installable |-> i],
                              !.phase = IF i THEN "Available" ELSE "Manual"]
      <3>1. PICK v \in Versions, i \in BOOLEAN :
                 update' = [update EXCEPT !.op = "none",
                              !.candidate = [version |-> v, installable |-> i],
                              !.phase = IF i THEN "Available" ELSE "Manual"]
        BY <2>1, Zenon
      <3>2. PICK r \in Releases, p \in {"Available", "Manual"} :
                 update' = [update EXCEPT !.op = "none", !.candidate = r, !.phase = p]
        BY <3>1, Zenon DEF Releases
      <3> QED
        BY <1>2, <3>2, Zenon DEF ControlUpdates
    <2>2. CASE \E phase \in {"UpToDate", "Failed"} :
                 update' = [update EXCEPT !.op = "none", !.phase = phase]
      BY <1>2, <2>2, Zenon DEF ControlUpdates
    <2> QED
      BY <2>1, <2>2, Zenon DEF Control!Checked
  <1> QED
    BY <1>1, <1>3, ReleaseStep, Zenon

\* Only the offered release is installed, and only one that can be.
LEMMA InstallAvailableStep == ControlInv /\ Control!InstallAvailableUpdate => ControlInv'
  <1> SUFFICES ASSUME ControlInv, Control!InstallAvailableUpdate PROVE ControlInv'
    OBVIOUS
  <1>1. /\ UNCHANGED <<settings_file, ui, toggle, core, session_units, stop>>
        /\ update' = [update EXCEPT !.op = "install", !.phase = "Downloading",
                                    !.asset = update.candidate]
    BY Zenon DEF Control!InstallAvailableUpdate
  <1>2. update \in ControlUpdates
    BY Zenon DEF ControlInv, ControlTypes
  <1>3. /\ update' \in ControlUpdates /\ update'.asset = update.candidate
        /\ update'.candidate = update.candidate /\ update'.op = "install"
    BY <1>1, <1>2, Zenon DEF ControlUpdates
  <1> QED
    BY <1>1, <1>3, ReleaseStep, Zenon

\* publish_failure leaves nothing to install.
LEMMA FailedUpdate ==
    ASSUME update \in ControlUpdates
    PROVE  Control!InstallFailed \in ControlUpdates /\ Control!InstallFailed.asset = None
  BY Zenon DEF ControlUpdates, Releases, Control!InstallFailed

\* The installer ends as installed, as waiting for a restart, or failed.
LEMMA InstalledStep == ControlInv /\ Control!Installed => ControlInv'
  <1> SUFFICES ASSUME ControlInv, Control!Installed PROVE ControlInv'
    OBVIOUS
  <1>1. /\ UNCHANGED <<settings_file, ui, toggle, core, session_units, stop>>
        /\ \/ \E phase \in {"Installed", "RestartRequired"} :
                update' = [update EXCEPT !.op = "none", !.phase = phase, !.asset = None]
           \/ update' = Control!InstallFailed
    BY Zenon DEF Control!Installed
  <1>2. update \in ControlUpdates
    BY Zenon DEF ControlInv, ControlTypes
  <1>3. ASSUME NEW p \in {"Installed", "RestartRequired"}
        PROVE  /\ [update EXCEPT !.op = "none", !.phase = p, !.asset = None] \in ControlUpdates
               /\ [update EXCEPT !.op = "none", !.phase = p, !.asset = None].asset = None
    BY <1>2, Zenon DEF ControlUpdates, Releases
  <1>4. update' \in ControlUpdates /\ update'.asset = None
    BY <1>1, <1>2, <1>3, FailedUpdate, Zenon
  <1> QED
    BY <1>1, <1>4, ReleaseStep, Zenon

\* The download ends: the runtime is to stop, or the update has failed.
LEMMA DownloadedStep == ControlInv /\ Control!Downloaded => ControlInv'
  <1> SUFFICES ASSUME ControlInv, Control!Downloaded PROVE ControlInv'
    OBVIOUS
  <1>1. /\ UNCHANGED <<settings_file, ui, toggle, core, session_units>>
        /\ \/ stop' = [stop EXCEPT !["install"] = "wait"] /\ update' = update
           \/ update' = Control!InstallFailed /\ stop' = stop
    BY Zenon DEF Control!Downloaded
  <1>2. /\ stop \in [Control!Stoppers -> ControlStops] /\ update \in ControlUpdates
        /\ "install" \in Control!Stoppers
    BY Zenon DEF ControlInv, ControlTypes, Control!Stoppers
  <1>3. "wait" \in ControlStops
    BY DEF ControlStops
  <1>4. /\ stop' \in [Control!Stoppers -> ControlStops]
        /\ \A u \in Control!Stoppers : stop'[u] = "wait_stopped" => stop[u] = "wait_stopped"
    BY <1>1, <1>2, <1>3, StopMoves, Zenon
  <1>5. update' \in ControlUpdates /\ Control!InstallsTheOffer'
    BY <1>1, <1>2, FailedUpdate, Zenon DEF ControlInv, Control!InstallsTheOffer
  <1> QED
    BY <1>1, <1>4, <1>5, UpdateSteps, Zenon

\* The installer runs only if the runtime did stop.
LEMMA BeforeInstallStep == ControlInv /\ Control!BeforeInstall => ControlInv'
  <1> SUFFICES ASSUME ControlInv, Control!BeforeInstall PROVE ControlInv'
    OBVIOUS
  <1>1. /\ UNCHANGED <<settings_file, ui, toggle, core, session_units>>
        /\ stop' = [stop EXCEPT !["install"] = "idle"]
        /\ update' \in {[update EXCEPT !.phase = "Installing"], Control!InstallFailed}
    BY Zenon DEF Control!BeforeInstall
  <1>2. /\ stop \in [Control!Stoppers -> ControlStops] /\ update \in ControlUpdates
        /\ "install" \in Control!Stoppers
    BY Zenon DEF ControlInv, ControlTypes, Control!Stoppers
  <1>3. "idle" \in ControlStops
    BY DEF ControlStops
  <1>4. /\ stop' \in [Control!Stoppers -> ControlStops]
        /\ \A u \in Control!Stoppers : stop'[u] = "wait_stopped" => stop[u] = "wait_stopped"
    BY <1>1, <1>2, <1>3, StopMoves, Zenon
  <1>5. ASSUME update' = [update EXCEPT !.phase = "Installing"]
        PROVE  /\ update' \in ControlUpdates /\ update'.asset = update.asset
               /\ update'.candidate = update.candidate /\ update'.op = update.op
    BY <1>2, <1>5 DEF ControlUpdates
  <1>6. update' \in ControlUpdates /\ Control!InstallsTheOffer'
    BY <1>1, <1>2, <1>5, FailedUpdate, Zenon DEF ControlInv, Control!InstallsTheOffer
  <1> QED
    BY <1>1, <1>4, <1>6, UpdateSteps, Zenon

------------------------------------------------------------------------------
\* What a load shows on the screen: less the manual games that are gone, and disabled
\* when one is.
LEMMA ShownLoad ==
    ASSUME NEW l \in ControlLoads
    PROVE  /\ Control!Revalidated(l.settings) \in ControlSettings
           /\ Control!StatusOf(l) \in {"Warning", "Enabled", "Disabled"}
           /\ Control!StatusOf(l) = "Disabled" =>
                /\ ~l.warning /\ ~l.settings.enabled
                /\ Control!Revalidated(l.settings).enabled = FALSE
           /\ Control!Revalidated(l.settings).games \subseteq l.settings.games
           /\ l.settings.games \ Control!Revalidated(l.settings).games \subseteq Manual
  <1>1. PICK s : s = l.settings
    OBVIOUS
  <1>2. s \in ControlSettings /\ s.enabled \in BOOLEAN /\ s.games \in SUBSET (Steam \cup Manual)
    BY <1>1 DEF ControlLoads, ControlSettings
  <1>3. PICK k : k = s.games \ (Manual \ exe)
    BY Zenon
  <1>4. PICK e \in BOOLEAN : e = (s.enabled /\ k = s.games)
    BY Zenon
  <1>5. Control!Revalidated(s) = [enabled |-> e, games |-> k]
    BY <1>3, <1>4, Zenon DEF Control!Revalidated, Control!Settings
  <1>6. k \in SUBSET (Steam \cup Manual) /\ k \subseteq s.games /\ s.games \ k \subseteq Manual
    BY <1>2, <1>3
  <1>7. /\ Control!Revalidated(s) \in ControlSettings /\ Control!Revalidated(s).enabled = e
        /\ Control!Revalidated(s).games = k
    BY <1>5, <1>6 DEF ControlSettings
  <1>8. /\ Control!StatusOf(l) \in {"Warning", "Enabled", "Disabled"}
        /\ Control!StatusOf(l) = "Disabled" => ~l.warning /\ ~l.settings.enabled
    <2>1. CASE l.warning
      BY <2>1 DEF Control!StatusOf
    <2>2. CASE ~l.warning /\ l.settings.enabled
      BY <2>2 DEF Control!StatusOf
    <2>3. CASE ~l.warning /\ ~l.settings.enabled
      BY <2>3 DEF Control!StatusOf
    <2> QED
      BY <2>1, <2>2, <2>3, Zenon
  <1>9. ~s.enabled => e = FALSE
    BY <1>4, Zenon
  <1> QED
    BY <1>1, <1>6, <1>7, <1>8, <1>9, Zenon

\* selection_transaction: the file and the screen change together or not at all.
LEMMA SelectionOutcome ==
    ASSUME ControlTypes, NEW g \in SUBSET (Steam \cup Manual),
           NEW o \in Control!SelectionTransaction(g)
    PROVE  /\ o.settings \in ControlSettings /\ Control!Written(o) \in ControlFiles
           /\ \/ Control!Written(o) = settings_file /\ o.settings = ui.settings
              \/ /\ toggle.pc = "none" /\ ui.status = "Disabled"
                 /\ Control!Written(o).enabled = ui.settings.enabled
                 /\ Control!Written(o).games = o.settings.games
                 /\ o.settings.enabled = ui.settings.enabled
  <1>1. ui.settings \in ControlSettings /\ settings_file \in ControlFiles
    BY DEF ControlTypes, ControlScreens
  <1>2. \/ o = [settings |-> ui.settings, saved |-> FALSE]
        \/ /\ toggle.pc = "none" /\ ui.status = "Disabled"
           /\ o = [settings |-> [ui.settings EXCEPT !.games = g], saved |-> TRUE]
    BY Zenon DEF Control!SelectionTransaction, Control!EditingEnabled
  <1>3. CASE o = [settings |-> ui.settings, saved |-> FALSE]
    <2>1. o.settings = ui.settings /\ ~o.saved
      BY <1>3
    <2> QED
      BY <1>1, <2>1, Zenon DEF Control!Written
  <1>4. CASE /\ toggle.pc = "none" /\ ui.status = "Disabled"
             /\ o = [settings |-> [ui.settings EXCEPT !.games = g], saved |-> TRUE]
    <2>1. PICK s : s = [ui.settings EXCEPT !.games = g]
      BY Zenon
    <2>2. s \in ControlSettings /\ s.enabled = ui.settings.enabled /\ s.games = g
      BY <1>1, <2>1 DEF ControlSettings
    <2>3. o.settings = s /\ o.saved
      BY <1>4, <2>1
    <2>4. Control!Written(o) = [bad |-> FALSE, enabled |-> s.enabled, games |-> s.games]
      BY <2>3, Zenon DEF Control!Written
    <2>5. s.enabled \in BOOLEAN /\ s.games \in SUBSET (Steam \cup Manual)
      BY <2>2 DEF ControlSettings
    <2>6. PICK e, k : e = s.enabled /\ k = s.games
      OBVIOUS
    <2>7. Control!Written(o) = [bad |-> FALSE, enabled |-> e, games |-> k]
      BY <2>4, <2>6, Zenon
    <2>8. /\ Control!Written(o) \in ControlFiles /\ Control!Written(o).enabled = e
          /\ Control!Written(o).games = k
      BY <2>5, <2>6, <2>7 DEF ControlFiles
    <2> QED
      BY <1>4, <2>2, <2>3, <2>6, <2>8, Zenon
  <1> QED
    BY <1>2, <1>3, <1>4, Zenon

\* The selection changed, or nothing did.
LEMMA SelectionKept ==
    ASSUME ControlInv, toggle' = toggle, core' = core, session_units' = session_units,
           ui'.status = ui.status, ui'.error = ui.error,
           \A t \in Control!Stoppers : stop'[t] = "wait_stopped" => stop[t] = "wait_stopped",
           \/ settings_file' = settings_file /\ ui'.settings = ui.settings
           \/ /\ toggle.pc = "none" /\ ui.status = "Disabled"
              /\ settings_file'.enabled = ui.settings.enabled
              /\ settings_file'.games = ui'.settings.games
              /\ ui'.settings.enabled = ui.settings.enabled
    PROVE  ToggleKnows' /\ LoadIsFresh' /\ ScreenAgrees' /\ StopIsTrue'
  <1>1. CASE settings_file' = settings_file /\ ui'.settings = ui.settings
    <2>1. ToggleKnows'
      BY <1>1, Zenon DEF ControlInv, ToggleKnows, ControlDown
    <2>2. LoadIsFresh' /\ ScreenAgrees'
      BY <1>1, Zenon DEF ControlInv, LoadIsFresh, ScreenAgrees
    <2>3. StopIsTrue'
      BY <1>1, Zenon DEF ControlInv, StopIsTrue, ControlDown
    <2> QED
      BY <2>1, <2>2, <2>3, Zenon
  <1>2. CASE /\ toggle.pc = "none" /\ ui.status = "Disabled"
             /\ settings_file'.enabled = ui.settings.enabled
             /\ settings_file'.games = ui'.settings.games
             /\ ui'.settings.enabled = ui.settings.enabled
    <2>1. ToggleKnows' /\ LoadIsFresh'
      BY <1>2, Zenon DEF ToggleKnows, LoadIsFresh
    <2>2. settings_file'.enabled = FALSE /\ ui'.settings.enabled = FALSE
      BY <1>2, Zenon DEF ControlInv, ScreenAgrees
    <2>3. ScreenAgrees'
      BY <1>2, <2>2, Zenon DEF ScreenAgrees
    <2>4. StopIsTrue'
      BY <1>2, <2>2, Zenon DEF ControlInv, StopIsTrue, ControlDown
    <2> QED
      BY <2>1, <2>3, <2>4, Zenon
  <1> QED
    BY <1>1, <1>2, Zenon

\* poll_pending: what it leaves, and that success after it is real.
LEMMA Polls ==
    ASSUME ControlInv, Control!PollPending, core' = core, session_units' = session_units,
           \A t \in Control!Stoppers : stop'[t] = "wait_stopped" => stop[t] = "wait_stopped"
    PROVE  /\ settings_file' \in ControlFiles /\ ui' \in ControlScreens
           /\ toggle' \in ControlToggles
           /\ ToggleKnows' /\ LoadIsFresh' /\ ScreenAgrees' /\ StopIsTrue'
           /\ (\E t \in Control!Stoppers : stop[t] = "wait_stopped")
              /\ toggle.pc \in {"none", "done"} /\ ui'.status = "Disabled" /\ ~ui'.error
                => ControlDown'
  <1>t. ControlTypes
    BY Zenon DEF ControlInv
  <1>u. /\ ui \in ControlScreens /\ toggle \in ControlToggles /\ settings_file \in ControlFiles
        /\ ui.settings.games \in SUBSET (Steam \cup Manual) /\ ui.picked \in Manual \cup {None}
        /\ toggle.load \in ControlLoads /\ toggle.failed \in BOOLEAN
    BY <1>t DEF ControlTypes, ControlScreens, ControlToggles, ControlSettings
  <1>g. ui.settings.games \cup ({ui.picked} \ {None}) \in SUBSET (Steam \cup Manual)
    BY <1>u
  <1>1. PICK o \in Control!SelectionTransaction(ui.settings.games \cup ({ui.picked} \ {None})) :
          /\ settings_file' = Control!Written(o)
          /\ ui' = Control!PollLifecycle(o.settings)
          /\ toggle' = IF toggle.pc = "done" THEN Control!NoWorker ELSE toggle
    BY Zenon DEF Control!PollPending
  <1>2. /\ o.settings \in ControlSettings /\ settings_file' \in ControlFiles
        /\ \/ settings_file' = settings_file /\ o.settings = ui.settings
           \/ /\ toggle.pc = "none" /\ ui.status = "Disabled"
              /\ settings_file'.enabled = ui.settings.enabled
              /\ settings_file'.games = o.settings.games
              /\ o.settings.enabled = ui.settings.enabled
    BY <1>t, <1>g, <1>1, SelectionOutcome, Zenon
  <1>3. CASE toggle.pc = "done"
    <2>1. /\ settings_file' = settings_file /\ toggle' = Control!NoWorker
          /\ ui' = [settings |-> Control!Revalidated(toggle.load.settings),
                    status |-> Control!StatusOf(toggle.load), error |-> toggle.failed,
                    picked |-> None]
      BY <1>1, <1>2, <1>3, Zenon DEF Control!PollLifecycle
    <2>2. toggle' \in ControlToggles /\ toggle'.pc = "none"
      BY <2>1 DEF Control!NoWorker, Control!Settings, ControlToggles, ControlSettings,
                  ControlLoads, ControlSteps
    <2>3. /\ Control!Revalidated(toggle.load.settings) \in ControlSettings
          /\ Control!StatusOf(toggle.load) \in {"Warning", "Enabled", "Disabled"}
      BY <1>u, ShownLoad, Zenon
    <2>4. /\ ui' \in ControlScreens /\ ui'.status = Control!StatusOf(toggle.load)
          /\ ui'.error = toggle.failed
          /\ ui'.settings = Control!Revalidated(toggle.load.settings)
      BY <1>u, <2>1, <2>3 DEF ControlScreens
    <2>5. ToggleKnows' /\ LoadIsFresh'
      BY <2>2, Zenon DEF ToggleKnows, LoadIsFresh
    <2>6. ui'.status = "Disabled" =>
            /\ ~toggle.load.warning /\ ~toggle.load.settings.enabled
            /\ ui'.settings.enabled = FALSE
            /\ ui'.settings.games \subseteq toggle.load.settings.games
            /\ toggle.load.settings.games \ ui'.settings.games \subseteq Manual
      BY <1>u, <2>4, ShownLoad, Zenon
    <2>7. ui'.status = "Disabled" =>
            /\ settings_file'.enabled = FALSE
            /\ settings_file'.games = toggle.load.settings.games
      <3> SUFFICES ASSUME ui'.status = "Disabled"
                   PROVE  /\ settings_file'.enabled = FALSE
                          /\ settings_file'.games = toggle.load.settings.games
        BY Zenon
      <3>1. /\ toggle.load.settings.enabled = settings_file.enabled
            /\ toggle.load.settings.games = settings_file.games
        BY <1>3, <2>6, Zenon DEF ControlInv, LoadIsFresh
      <3>2. settings_file.enabled \in BOOLEAN
        BY <1>u DEF ControlFiles
      <3> QED
        BY <2>1, <2>6, <3>1, <3>2, Zenon
    <2>8. ScreenAgrees'
      BY <2>6, <2>7, Zenon DEF ScreenAgrees
    <2>9. ui'.status = "Disabled" /\ ~ui'.error => ControlDown
      BY <1>3, <2>4, <2>6, Zenon DEF ControlInv, ToggleKnows
    <2>10. ControlDown => ControlDown'
      BY <2>1, Zenon DEF ControlDown
    <2> QED
      BY <1>2, <2>2, <2>4, <2>5, <2>8, <2>9, <2>10, Zenon DEF StopIsTrue
  <1>4. CASE toggle.pc # "done"
    <2>1. toggle' = toggle /\ ui' = [ui EXCEPT !.settings = o.settings, !.picked = None]
      BY <1>1, <1>4, Zenon DEF Control!PollLifecycle
    <2>2. /\ ui' \in ControlScreens /\ ui'.settings = o.settings /\ ui'.status = ui.status
          /\ ui'.error = ui.error
      BY <1>u, <1>2, <2>1, Zenon DEF ControlScreens
    <2>3. ToggleKnows' /\ LoadIsFresh' /\ ScreenAgrees' /\ StopIsTrue'
      BY <1>2, <2>1, <2>2, SelectionKept, Zenon
    <2>4. toggle.pc = "none" /\ ui'.status = "Disabled" => settings_file'.enabled = FALSE
      BY <2>1, <2>3, Zenon DEF ScreenAgrees
    <2>5. /\ \E t \in Control!Stoppers : stop[t] = "wait_stopped"
          /\ toggle.pc = "none" /\ ui'.status = "Disabled" /\ ~ui'.error
          => ControlDown
      BY <2>2, Zenon DEF ControlInv, StopIsTrue
    <2>6. ControlDown /\ settings_file'.enabled = FALSE => ControlDown'
      BY Zenon DEF ControlDown
    <2> QED
      BY <1>u, <1>2, <1>4, <2>1, <2>2, <2>3, <2>4, <2>5, <2>6, Zenon
  <1> QED
    BY <1>3, <1>4, Zenon

\* A step that polls and leaves the update alone.
LEMMA PollSteps ==
    ASSUME ControlInv, Control!PollPending, UNCHANGED <<core, session_units, update>>,
           stop' \in [Control!Stoppers -> ControlStops],
           \A t \in Control!Stoppers : stop'[t] = "wait_stopped" => stop[t] = "wait_stopped"
    PROVE  ControlInv'
  <1>1. /\ settings_file' \in ControlFiles /\ ui' \in ControlScreens /\ toggle' \in ControlToggles
        /\ ToggleKnows' /\ LoadIsFresh' /\ ScreenAgrees' /\ StopIsTrue'
    BY Polls, Zenon
  <1>2. ControlTypes'
    BY <1>1, Zenon DEF ControlInv, ControlTypes
  <1>3. Control!InstallsTheOffer'
    BY Zenon DEF ControlInv, Control!InstallsTheOffer
  <1> QED
    BY <1>1, <1>2, <1>3, Zenon DEF ControlInv

\* A poll of the screen shows a finished transaction.
LEMMA GetControlStateStep == ControlInv /\ Control!GetControlState => ControlInv'
  <1> SUFFICES ASSUME ControlInv, Control!GetControlState PROVE ControlInv'
    OBVIOUS
  <1>1. Control!PollPending /\ UNCHANGED <<core, session_units, update>> /\ stop' = stop
    BY Zenon DEF Control!GetControlState
  <1>2. stop \in [Control!Stoppers -> ControlStops]
    BY Zenon DEF ControlInv, ControlTypes
  <1> QED
    BY <1>1, <1>2, PollSteps, Zenon

\* Where a wait of stop_runtime goes.
LEMMA WaitEnds ==
    ASSUME NEW t \in Control!Stoppers, Control!StopWait(t),
           stop \in [Control!Stoppers -> ControlStops]
    PROVE  \E p \in ControlStops :
             /\ p # "wait_stopped" /\ stop' = [stop EXCEPT ![t] = p]
             /\ p = "stopped" => stop[t] = "wait_stopped" /\ Control!ShutdownSucceeded
  <1>1. PICK p : p = CASE stop[t] = "wait" -> "request"
                       [] stop[t] = "wait_stopped" /\ Control!ShutdownSucceeded -> "stopped"
                       [] OTHER -> Control!Failed(t)
    OBVIOUS
  <1>2. stop' = [stop EXCEPT ![t] = p]
    BY <1>1 DEF Control!StopWait
  <1>3. CASE stop[t] = "wait"
    <2>1. p = "request"
      BY <1>1, <1>3
    <2> QED
      BY <1>2, <2>1, Zenon DEF ControlStops
  <1>4. CASE stop[t] = "wait_stopped" /\ Control!ShutdownSucceeded
    <2>1. p = "stopped"
      BY <1>1, <1>4
    <2> QED
      BY <1>2, <1>4, <2>1, Zenon DEF ControlStops
  <1>5. CASE stop[t] # "wait" /\ ~(stop[t] = "wait_stopped" /\ Control!ShutdownSucceeded)
    <2>1. p = Control!Failed(t)
      BY <1>1, <1>5
    <2>2. p \in ControlStops /\ p # "wait_stopped" /\ p # "stopped"
      BY <2>1, FailedStops, Zenon
    <2> QED
      BY <1>2, <2>2, Zenon
  <1> QED
    BY <1>3, <1>4, <1>5, Zenon

\* A stop request waits for a transaction to end, or for its own.
LEMMA StopWaitStep ==
    ASSUME NEW t \in Control!Stoppers
    PROVE  ControlInv /\ Control!StopWait(t) => ControlInv'
  <1> SUFFICES ASSUME ControlInv, Control!StopWait(t) PROVE ControlInv'
    OBVIOUS
  <1>1. Control!PollPending /\ UNCHANGED <<core, session_units, update>>
    BY Zenon DEF Control!StopWait
  <1>2. stop \in [Control!Stoppers -> ControlStops]
    BY Zenon DEF ControlInv, ControlTypes
  <1>3. /\ stop' \in [Control!Stoppers -> ControlStops]
        /\ \A u \in Control!Stoppers : stop'[u] = "wait_stopped" => stop[u] = "wait_stopped"
    BY <1>2, WaitEnds, StopMoves, Zenon
  <1> QED
    BY <1>1, <1>3, PollSteps, Zenon

\* set_game_selected and remove_manual_game
LEMMA SetSelectedStep ==
    ASSUME NEW g \in Steam \cup Manual
    PROVE  ControlInv /\ Control!SetSelected(g) => ControlInv'
  <1> SUFFICES ASSUME ControlInv, Control!SetSelected(g) PROVE ControlInv'
    OBVIOUS
  <1>t. ControlTypes
    BY Zenon DEF ControlInv
  <1>u. ui \in ControlScreens /\ ui.settings.games \in SUBSET (Steam \cup Manual)
    BY <1>t DEF ControlTypes, ControlScreens, ControlSettings
  <1>1. UNCHANGED <<toggle, core, session_units, stop, update>>
    BY Zenon DEF Control!SetSelected
  <1>2. PICK n \in {ui.settings.games \ {g}, ui.settings.games \cup {g}} :
          \E o \in Control!SelectionTransaction(n) :
            settings_file' = Control!Written(o) /\ ui' = [ui EXCEPT !.settings = o.settings]
    BY Zenon DEF Control!SetSelected
  <1>3. n \in SUBSET (Steam \cup Manual)
    BY <1>u, <1>2
  <1>4. PICK o \in Control!SelectionTransaction(n) :
            settings_file' = Control!Written(o) /\ ui' = [ui EXCEPT !.settings = o.settings]
    BY <1>2, Zenon
  <1>5. /\ o.settings \in ControlSettings /\ settings_file' \in ControlFiles
        /\ \/ settings_file' = settings_file /\ o.settings = ui.settings
           \/ /\ toggle.pc = "none" /\ ui.status = "Disabled"
              /\ settings_file'.enabled = ui.settings.enabled
              /\ settings_file'.games = o.settings.games
              /\ o.settings.enabled = ui.settings.enabled
    BY <1>t, <1>3, <1>4, SelectionOutcome, Zenon
  <1>6. /\ ui' \in ControlScreens /\ ui'.settings = o.settings /\ ui'.status = ui.status
        /\ ui'.error = ui.error
    BY <1>u, <1>4, <1>5 DEF ControlScreens
  <1>7. ToggleKnows' /\ LoadIsFresh' /\ ScreenAgrees' /\ StopIsTrue'
    BY <1>1, <1>5, <1>6, SelectionKept, Zenon
  <1>8. ControlTypes' /\ Control!InstallsTheOffer'
    BY <1>1, <1>5, <1>6, Zenon DEF ControlInv, ControlTypes, Control!InstallsTheOffer
  <1> QED
    BY <1>7, <1>8, Zenon DEF ControlInv

------------------------------------------------------------------------------
\* request_master_toggle starts a transaction, and the screen forgets the last error.
LEMMA RequestSteps ==
    ASSUME ControlInv, NEW e \in BOOLEAN, Control!RequestMasterToggle(e),
           UNCHANGED <<settings_file, core, session_units, update>>,
           stop' \in [Control!Stoppers -> ControlStops]
    PROVE  ControlInv'
  <1>t. ControlTypes
    BY Zenon DEF ControlInv
  <1>u. ui \in ControlScreens /\ ui.settings \in ControlSettings
    BY <1>t DEF ControlTypes, ControlScreens
  <1>1. PICK p : p = IF e THEN "validate" ELSE "disable"
    OBVIOUS
  <1>2. /\ p \in ControlSteps /\ p # "none" /\ p # "done"
        /\ (p = "validate" /\ e) \/ (p = "disable" /\ ~e)
    BY <1>1 DEF ControlSteps
  <1>3. /\ toggle' = [Control!NoWorker EXCEPT !.pc = p, !.enabling = e, !.settings = ui.settings]
        /\ ui' = [ui EXCEPT !.error = FALSE]
    BY <1>1, Zenon DEF Control!RequestMasterToggle
  <1>4. Control!NoWorker \in ControlToggles
    BY DEF Control!NoWorker, Control!Settings, ControlToggles, ControlSettings, ControlLoads,
           ControlSteps
  <1>5. PICK n \in ControlToggles : n = Control!NoWorker
    BY <1>4
  <1>6. toggle' \in ControlToggles /\ toggle'.pc = p /\ toggle'.enabling = e
    BY <1>2, <1>3, <1>5, <1>u, Zenon DEF ControlToggles
  <1>7. ui' \in ControlScreens /\ ui'.status = ui.status /\ ui'.settings = ui.settings
    BY <1>3, <1>u, Zenon DEF ControlScreens
  <1>8. ControlTypes'
    BY <1>t, <1>6, <1>7, Zenon DEF ControlTypes
  <1>9. CASE toggle'.pc = "validate" /\ toggle'.enabling
    BY <1>7, <1>8, <1>9, Zenon DEF ControlInv, ToggleKnows, LoadIsFresh, ScreenAgrees,
                                   StopIsTrue, Control!InstallsTheOffer
  <1>10. CASE toggle'.pc = "disable" /\ ~toggle'.enabling
    BY <1>7, <1>8, <1>10, Zenon DEF ControlInv, ToggleKnows, LoadIsFresh, ScreenAgrees,
                                    StopIsTrue, Control!InstallsTheOffer
  <1> QED
    BY <1>2, <1>6, <1>9, <1>10, Zenon

\* The master switch starts a transaction unless one runs.
LEMMA SetOvercrowEnabledStep ==
    ASSUME NEW e \in BOOLEAN
    PROVE  ControlInv /\ Control!SetOvercrowEnabled(e) => ControlInv'
  <1> SUFFICES ASSUME ControlInv, Control!SetOvercrowEnabled(e) PROVE ControlInv'
    OBVIOUS
  <1>1. UNCHANGED <<settings_file, core, session_units, stop, update>>
    BY Zenon DEF Control!SetOvercrowEnabled
  <1>2. stop' \in [Control!Stoppers -> ControlStops] /\ ControlTypes
    BY <1>1, Zenon DEF ControlInv, ControlTypes
  <1>3. CASE Control!RequestMasterToggle(e)
    BY <1>1, <1>2, <1>3, RequestSteps, Zenon
  <1>4. CASE ui' = [ui EXCEPT !.error = TRUE] /\ toggle' = toggle
    <2>1. ui \in ControlScreens
      BY <1>2, Zenon DEF ControlTypes
    <2>2. /\ ui' \in ControlScreens /\ ui'.status = ui.status /\ ui'.settings = ui.settings
          /\ ui'.error
      BY <1>4, <2>1, Zenon DEF ControlScreens
    <2>3. ControlTypes'
      BY <1>1, <1>2, <1>4, <2>2, Zenon DEF ControlTypes
    <2>4. ToggleKnows'
      BY <1>1, <1>4, Zenon DEF ControlInv, ToggleKnows, ControlDown
    <2>5. LoadIsFresh' /\ ScreenAgrees' /\ StopIsTrue'
      BY <1>1, <1>4, <2>2, Zenon DEF ControlInv, LoadIsFresh, ScreenAgrees, StopIsTrue
    <2> QED
      BY <1>1, <2>3, <2>4, <2>5, Zenon DEF ControlInv, Control!InstallsTheOffer
  <1> QED
    BY <1>3, <1>4, Zenon DEF Control!SetOvercrowEnabled

\* A stop request starts its own transaction that disables.
LEMMA StopRequestStep ==
    ASSUME NEW t \in Control!Stoppers
    PROVE  ControlInv /\ Control!StopRequest(t) => ControlInv'
  <1> SUFFICES ASSUME ControlInv, Control!StopRequest(t) PROVE ControlInv'
    OBVIOUS
  <1>1. UNCHANGED <<settings_file, core, session_units, update>>
    BY Zenon DEF Control!StopRequest
  <1>2. stop \in [Control!Stoppers -> ControlStops] /\ ControlTypes
    BY Zenon DEF ControlInv, ControlTypes
  <1>3. CASE Control!RequestMasterToggle(FALSE) /\ stop' = [stop EXCEPT ![t] = "wait_stopped"]
    <2>1. stop' \in [Control!Stoppers -> ControlStops]
      BY <1>2, <1>3 DEF ControlStops
    <2> QED
      BY <1>1, <1>3, <2>1, RequestSteps, Zenon
  <1>4. CASE ui' = ui /\ toggle' = toggle /\ stop' = [stop EXCEPT ![t] = Control!Failed(t)]
    <2>1. /\ stop' \in [Control!Stoppers -> ControlStops]
          /\ \A u \in Control!Stoppers : stop'[u] = "wait_stopped" => stop[u] = "wait_stopped"
      BY <1>2, <1>4, FailedStops, StopMoves, Zenon
    <2>2. update' \in ControlUpdates /\ Control!InstallsTheOffer'
      BY <1>1, <1>2, Zenon DEF ControlTypes, ControlInv, Control!InstallsTheOffer
    <2> QED
      BY <1>1, <1>4, <2>1, <2>2, UpdateSteps, Zenon
  <1> QED
    BY <1>3, <1>4, Zenon DEF Control!StopRequest

\* An executable on the disk appears or is gone.
LEMMA ChangeExecutableStep ==
    ASSUME NEW g
    PROVE  ControlInv /\ Control!ChangeExecutable(g) => ControlInv'
  <1> SUFFICES ASSUME ControlInv, Control!ChangeExecutable(g) PROVE ControlInv'
    OBVIOUS
  <1>1. UNCHANGED <<settings_file, ui, toggle, core, session_units, stop, update>>
    BY Zenon DEF Control!ChangeExecutable
  <1>2. ControlTypes /\ Control!InstallsTheOffer'
    BY <1>1, Zenon DEF ControlInv, Control!InstallsTheOffer
  <1> QED
    BY <1>1, <1>2, UpdateSteps, Zenon DEF ControlTypes

\* What a new process starts from, whatever the file and the units are.
LEMMA FreshController ==
    ASSUME settings_file \in ControlFiles
    PROVE  /\ Control!NewController \in ControlScreens
           /\ Control!NoWorker \in ControlToggles /\ Control!NoWorker.pc = "none"
           /\ Control!NewUpdate \in ControlUpdates /\ Control!NewUpdate.asset = None
           /\ Control!NotStopping \in [Control!Stoppers -> ControlStops]
           /\ \A t \in Control!Stoppers : Control!NotStopping[t] # "wait_stopped"
           /\ Control!NewController.status = "Disabled" =>
                /\ Control!NewController.settings.enabled = FALSE
                /\ settings_file.enabled = FALSE
                /\ Control!NewController.settings.games \subseteq settings_file.games
                /\ settings_file.games \ Control!NewController.settings.games \subseteq Manual
  <1>1. Control!NoWorker \in ControlToggles /\ Control!NoWorker.pc = "none"
    BY DEF Control!NoWorker, Control!Settings, ControlToggles, ControlSettings, ControlLoads,
           ControlSteps
  <1>2. Control!NewUpdate \in ControlUpdates /\ Control!NewUpdate.asset = None
    BY DEF Control!NewUpdate, ControlUpdates, Releases
  <1>3. /\ Control!NotStopping \in [Control!Stoppers -> ControlStops]
        /\ \A t \in Control!Stoppers : Control!NotStopping[t] # "wait_stopped"
    BY DEF Control!NotStopping, ControlStops
  <1>4. PICK l : l = Control!Load
    OBVIOUS
  <1>5. /\ l \in ControlLoads
        /\ ~l.warning => /\ l.settings.enabled = settings_file.enabled
                         /\ l.settings.games = settings_file.games
    BY <1>4, LoadedFile, Zenon
  <1>6. PICK s, z : s = Control!Revalidated(l.settings) /\ z = Control!StatusOf(l)
    OBVIOUS
  <1>7. /\ s \in ControlSettings /\ z \in {"Warning", "Enabled", "Disabled"}
        /\ z = "Disabled" =>
             /\ ~l.warning /\ ~l.settings.enabled /\ s.enabled = FALSE
             /\ s.games \subseteq l.settings.games
             /\ l.settings.games \ s.games \subseteq Manual
    BY <1>5, <1>6, ShownLoad, Zenon
  <1>8. Control!NewController = [settings |-> s, status |-> z, error |-> FALSE, picked |-> None]
    BY <1>4, <1>6, Zenon DEF Control!NewController
  <1>9. /\ Control!NewController \in ControlScreens /\ Control!NewController.settings = s
        /\ Control!NewController.status = z
    BY <1>7, <1>8 DEF ControlScreens
  <1>10. settings_file.enabled \in BOOLEAN
    BY DEF ControlFiles
  <1>11. z = "Disabled" =>
           /\ s.enabled = FALSE /\ settings_file.enabled = FALSE
           /\ s.games \subseteq settings_file.games
           /\ settings_file.games \ s.games \subseteq Manual
    BY <1>5, <1>7, <1>10, Zenon
  <1> QED
    BY <1>1, <1>2, <1>3, <1>9, <1>11, Zenon

\* A new process shows what the file holds and has no transaction.
LEMMA ControlStarts ==
    ASSUME settings_file \in ControlFiles, core \in ControlUnits,
           ui = Control!NewController, toggle = Control!NoWorker,
           stop = Control!NotStopping, update = Control!NewUpdate
    PROVE  ControlInv
  <1>1. ControlTypes
    BY FreshController, Zenon DEF ControlTypes
  <1>2. toggle.pc = "none"
    BY FreshController, Zenon
  <1>3. ToggleKnows /\ LoadIsFresh
    BY <1>2, Zenon DEF ToggleKnows, LoadIsFresh
  <1>4. ScreenAgrees
    BY FreshController, Zenon DEF ScreenAgrees
  <1>5. StopIsTrue
    BY FreshController, Zenon DEF StopIsTrue
  <1>6. Control!InstallsTheOffer
    BY FreshController, Zenon DEF Control!InstallsTheOffer
  <1> QED
    BY <1>1, <1>3, <1>4, <1>5, <1>6, Zenon DEF ControlInv

\* Quit, a crash, a restart after an update.
LEMMA RelaunchStep == ControlInv /\ Control!Relaunch => ControlInv'
  <1> SUFFICES ASSUME ControlInv, Control!Relaunch PROVE ControlInv'
    OBVIOUS
  <1>1. settings_file \in ControlFiles /\ core \in ControlUnits
    BY Zenon DEF ControlInv, ControlTypes
  <1>2. /\ UNCHANGED <<settings_file, exe, core, session_units>>
        /\ ui' = Control!NewController /\ toggle' = Control!NoWorker
        /\ stop' = Control!NotStopping /\ update' = Control!NewUpdate
    BY Zenon DEF Control!Relaunch
  <1>3. /\ ui' \in ControlScreens /\ toggle' \in ControlToggles /\ toggle'.pc = "none"
        /\ update' \in ControlUpdates /\ update'.asset = None
        /\ stop' \in [Control!Stoppers -> ControlStops]
        /\ \A t \in Control!Stoppers : stop'[t] # "wait_stopped"
        /\ ui'.status = "Disabled" =>
             /\ ui'.settings.enabled = FALSE
             /\ settings_file.enabled = FALSE
             /\ ui'.settings.games \subseteq settings_file.games
             /\ settings_file.games \ ui'.settings.games \subseteq Manual
    BY <1>1, <1>2, FreshController, Zenon
  <1>4. ControlTypes'
    BY <1>1, <1>2, <1>3, Zenon DEF ControlTypes
  <1>5. ToggleKnows' /\ LoadIsFresh'
    BY <1>3, Zenon DEF ToggleKnows, LoadIsFresh
  <1>6. ScreenAgrees'
    BY <1>2, <1>3, Zenon DEF ScreenAgrees
  <1>7. StopIsTrue' /\ Control!InstallsTheOffer'
    BY <1>3, Zenon DEF StopIsTrue, Control!InstallsTheOffer
  <1> QED
    BY <1>4, <1>5, <1>6, <1>7, Zenon DEF ControlInv

\* The initial states satisfy the invariant.
LEMMA ControlStart == Control!Init => ControlInv
  <1> SUFFICES ASSUME Control!Init PROVE ControlInv
    OBVIOUS
  <1>1. /\ settings_file = [bad |-> FALSE, enabled |-> FALSE, games |-> {}]
        /\ core = [running |-> FALSE, enabled |-> FALSE]
        /\ ui = Control!NewController /\ toggle = Control!NoWorker
        /\ stop = Control!NotStopping /\ update = Control!NewUpdate
    BY Zenon DEF Control!Init
  <1>2. settings_file \in ControlFiles /\ core \in ControlUnits
    BY <1>1 DEF ControlFiles, ControlUnits
  <1> QED
    BY <1>1, <1>2, ControlStarts, Zenon

\* Every step preserves the invariant.
LEMMA ControlStep == ControlInv /\ [Control!Next]_(Control!vars) => ControlInv'
  <1> SUFFICES ASSUME ControlInv, [Control!Next]_(Control!vars) PROVE ControlInv'
    OBVIOUS
  <1>1. CASE Control!GetControlState
    BY <1>1, GetControlStateStep, Zenon
  <1>2. CASE \E g \in Steam \cup Manual : Control!SetSelected(g)
    BY <1>2, SetSelectedStep, Zenon
  <1>3. CASE \E g \in Manual : Control!PickManualGame(g) \/ Control!ChangeExecutable(g)
    BY <1>3, PickManualGameStep, ChangeExecutableStep, Zenon
  <1>4. CASE \E e \in BOOLEAN : Control!SetOvercrowEnabled(e)
    BY <1>4, SetOvercrowEnabledStep, Zenon
  <1>5. CASE Control!EnableValidate \/ Control!EnableSave \/ Control!EnableIntegrate
             \/ Control!EnableCore
    BY <1>5, EnableValidateStep, EnableSaveStep, EnableIntegrateStep, EnableCoreStep, Zenon
  <1>6. CASE Control!PersistDisabled \/ Control!RequestPassive \/ Control!StopSession
             \/ Control!DisableCore \/ Control!TakeSnapshot
    BY <1>6, PersistDisabledStep, UndoStep, DisableCoreStep, TakeSnapshotStep, Zenon
  <1>7. CASE \E t \in Control!Stoppers :
               Control!StopWait(t) \/ Control!StopTimeout(t) \/ Control!StopRequest(t)
    BY <1>7, StopWaitStep, StopTimeoutStep, StopRequestStep, Zenon
  <1>8. CASE Control!RequestQuit
    BY <1>8, RequestQuitStep, Zenon
  <1>9. CASE Control!Quit \/ Control!Crash
    BY <1>9, RelaunchStep, Zenon DEF Control!Quit, Control!Crash
  <1>10. CASE Control!Check \/ Control!Checked \/ Control!InstallAvailableUpdate
    BY <1>10, CheckStep, CheckedStep, InstallAvailableStep, Zenon
  <1>11. CASE Control!Downloaded \/ Control!BeforeInstall \/ Control!Installed
    BY <1>11, DownloadedStep, BeforeInstallStep, InstalledStep, Zenon
  <1>12. CASE Control!SessionChanges \/ Control!EditFile
    BY <1>12, SessionChangesStep, EditFileStep, Zenon
  <1>13. CASE UNCHANGED Control!vars
    <2>1. UNCHANGED <<settings_file, ui, toggle, core, session_units, stop, update>>
      BY <1>13, Zenon DEF Control!vars
    <2>2. ControlTypes /\ Control!InstallsTheOffer'
      BY <2>1, Zenon DEF ControlInv, Control!InstallsTheOffer
    <2> QED
      BY <2>1, <2>2, UpdateSteps, Zenon DEF ControlTypes
  <1> QED
    BY <1>1, <1>2, <1>3, <1>4, <1>5, <1>6, <1>7, <1>8, <1>9, <1>10, <1>11, <1>12, <1>13,
       Zenon DEF Control!Next

\* Of all steps only the thread's own poll answers that it stopped the runtime.
LEMMA OnlyThePollStops ==
    ASSUME stop \in [Control!Stoppers -> ControlStops], Control!Next,
           NEW t \in Control!Stoppers, stop[t] = "wait_stopped", stop'[t] = "stopped"
    PROVE  Control!StopWait(t)
  <1>1. stop' # stop
    OBVIOUS
  <1>2. ASSUME NEW u \in Control!Stoppers, NEW p, p # "stopped",
               stop' = [stop EXCEPT ![u] = p]
        PROVE  FALSE
    BY <1>2
  <1>3. ASSUME NEW u \in Control!Stoppers, u # t, NEW p, stop' = [stop EXCEPT ![u] = p]
        PROVE  FALSE
    BY <1>3
  <1>4. ASSUME Control!Relaunch PROVE FALSE
    <2>1. stop' = Control!NotStopping
      BY <1>4, Zenon DEF Control!Relaunch
    <2> QED
      BY <2>1 DEF Control!NotStopping
  <1>5. "quit" \in Control!Stoppers /\ "install" \in Control!Stoppers
    BY Zenon DEF Control!Stoppers
  <1>6. ASSUME NEW u \in Control!Stoppers, Control!StopTimeout(u) \/ Control!StopRequest(u)
        PROVE  FALSE
    <2>1. \/ stop' = [stop EXCEPT ![u] = Control!Failed(u)]
          \/ stop' = [stop EXCEPT ![u] = "wait_stopped"]
      BY <1>6, Zenon DEF Control!StopTimeout, Control!StopRequest
    <2> QED
      BY <1>2, <2>1, FailedStops, Zenon
  <1>7. ASSUME NEW u \in Control!Stoppers, Control!StopWait(u), u # t
        PROVE  FALSE
    BY <1>3, <1>7, WaitEnds, Zenon
  <1>8. ~Control!RequestQuit /\ ~Control!BeforeInstall /\ ~Control!Downloaded
    <2>1. Control!RequestQuit => stop' = [stop EXCEPT !["quit"] = "wait"]
      BY Zenon DEF Control!RequestQuit
    <2>2. Control!BeforeInstall => stop' = [stop EXCEPT !["install"] = "idle"]
      BY Zenon DEF Control!BeforeInstall
    <2>3. Control!Downloaded => stop' = [stop EXCEPT !["install"] = "wait"] \/ stop' = stop
      BY Zenon DEF Control!Downloaded
    <2> QED
      BY <1>1, <1>2, <1>5, <2>1, <2>2, <2>3, Zenon
  <1>9. ~Control!Quit /\ ~Control!Crash
    BY <1>4, Zenon DEF Control!Quit, Control!Crash
  <1>10. /\ ~Control!GetControlState /\ ~Control!EnableValidate /\ ~Control!EnableSave
         /\ ~Control!EnableIntegrate /\ ~Control!EnableCore /\ ~Control!PersistDisabled
         /\ ~Control!RequestPassive /\ ~Control!StopSession /\ ~Control!DisableCore
    BY <1>1, Zenon DEF Control!GetControlState, Control!EnableValidate, Control!EnableSave,
         Control!EnableIntegrate, Control!EnableCore, Control!PersistDisabled,
         Control!RequestPassive, Control!StopSession, Control!DisableCore
  <1>11. /\ ~Control!TakeSnapshot /\ ~Control!Check /\ ~Control!Checked
         /\ ~Control!InstallAvailableUpdate /\ ~Control!Installed /\ ~Control!SessionChanges
         /\ ~Control!EditFile
    BY <1>1, Zenon DEF Control!TakeSnapshot, Control!Check, Control!Checked,
         Control!InstallAvailableUpdate, Control!Installed, Control!SessionChanges,
         Control!EditFile
  <1>12. /\ ~\E g \in Steam \cup Manual : Control!SetSelected(g)
         /\ ~\E g \in Manual : Control!PickManualGame(g) \/ Control!ChangeExecutable(g)
         /\ ~\E e \in BOOLEAN : Control!SetOvercrowEnabled(e)
    BY <1>1, Zenon DEF Control!SetSelected, Control!PickManualGame, Control!ChangeExecutable,
         Control!SetOvercrowEnabled
  <1> QED
    BY <1>6, <1>7, <1>8, <1>9, <1>10, <1>11, <1>12, Zenon DEF Control!Next

\* When it answers so, everything is down.
LEMMA StopStep == ControlInv /\ [Control!Next]_(Control!vars) => Control!StopsEverything
  <1> SUFFICES ASSUME ControlInv, [Control!Next]_(Control!vars), NEW t \in Control!Stoppers,
                      stop[t] = "wait_stopped", stop'[t] = "stopped"
               PROVE  ControlDown'
    BY Zenon DEF Control!StopsEverything, ControlDown
  <1>1. stop \in [Control!Stoppers -> ControlStops]
    BY Zenon DEF ControlInv, ControlTypes
  <1>2. Control!Next
    <2>1. stop' # stop
      OBVIOUS
    <2> QED
      BY <2>1, Zenon DEF Control!vars
  <1>3. Control!StopWait(t)
    BY <1>1, <1>2, OnlyThePollStops, Zenon
  <1>4. /\ Control!PollPending /\ core' = core /\ session_units' = session_units
        /\ toggle.pc \in {"none", "done"}
    BY <1>3, Zenon DEF Control!StopWait, Control!Idle
  <1>5. PICK p \in ControlStops :
             /\ p # "wait_stopped" /\ stop' = [stop EXCEPT ![t] = p]
             /\ p = "stopped" => stop[t] = "wait_stopped" /\ Control!ShutdownSucceeded
    BY <1>1, <1>3, WaitEnds, Zenon
  <1>6. /\ stop'[t] = p
        /\ \A u \in Control!Stoppers : stop'[u] = "wait_stopped" => stop[u] = "wait_stopped"
    BY <1>1, <1>5, StopMoves, Zenon
  <1>7. ui'.status = "Disabled" /\ ~ui'.error
    BY <1>5, <1>6, Zenon DEF Control!ShutdownSucceeded
  <1> QED
    BY <1>4, <1>6, <1>7, Polls, Zenon

\* For any games, releases and budgets: stop_runtime, as Quit and the installer call it,
\* answers success only when the settings say disabled, Core is stopped and will not start
\* at the next login and no renderer or bridge runs, whatever other commands, failures of
\* the transaction, hand edits of the file and restarts came between (tray.rs, lifecycle.rs).
THEOREM StopCorrect == Control!Spec => StopMeansStopped
  <1>1. Control!StopsEverything => (component = "control" => Control!StopsEverything)
    OBVIOUS
  <1> QED
    BY ControlStart, ControlStep, StopStep, <1>1, PTL DEF Control!Spec, StopMeansStopped

\* While games can be selected the screen and the settings file agree, and what is
\* downloaded and installed is the release that is offered (app.rs, updates.rs).
THEOREM ControlCorrect == Control!Spec => []ControlIsCurrent
  <1>1. ControlInv => ControlIsCurrent
    BY Zenon DEF ControlInv, ScreenAgrees, ControlIsCurrent, Control!SelectionsAgree,
                 Control!EditingEnabled
  <1> QED
    BY ControlStart, ControlStep, <1>1, PTL DEF Control!Spec
==============================================================================
