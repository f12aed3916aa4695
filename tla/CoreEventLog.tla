----------------------------- MODULE CoreEventLog -----------------------------
(***************************************************************************)
(* What the Core logs of the games it sees: CoreEventTracker and           *)
(* run_core_event_logging of overcrow-core/src/event_log.rs.  Snapshots    *)
(* arrive over a watch channel, which keeps only the latest; a game that   *)
(* is being moved is logged once in an interval.  The reader of the log is *)
(* modelled by what it knows: told.  The texts of the log are left out:    *)
(* an operation that emits events is given by what they tell who knew      *)
(* `known` before.                                                         *)
(***************************************************************************)
EXTENDS Naturals

CONSTANTS Games,    \* identities: pid, app ids and backend
          Rects,
          Modes,
          Interval, \* GEOMETRY_LOG_INTERVAL
          MaxTime,  \* time followed
          Budgets   \* snapshots published

NoGame == [game |-> "none", rect |-> "none"]

VARIABLES snapshot, unseen,  \* the watch channel: [game, mode]
          game, mode,        \* CoreEventTracker
          next_geometry_log, \* 0 for None
          pending_geometry,  \* [rect, suppressed], suppressed 0 for None
          told,              \* what the log says: [game, mode]
          clock, budget

vars == <<snapshot, unseen, game, mode, next_geometry_log, pending_geometry, told, clock,
          budget>>

Windows == {NoGame} \cup [game : Games, rect : Rects]
NoPending == [rect |-> "none", suppressed |-> 0]

Init ==
    /\ snapshot = [game |-> NoGame, mode |-> "passive"] /\ unseen = TRUE
    /\ game = NoGame /\ mode = "none" /\ next_geometry_log = 0 /\ pending_geometry = NoPending
    /\ told = [game |-> NoGame, mode |-> "none"]
    /\ clock = 1 /\ budget \in Budgets

Publish(w, m) ==
    /\ budget > 0 /\ budget' = budget - 1
    /\ snapshot' = [game |-> w, mode |-> m] /\ unseen' = TRUE
    /\ UNCHANGED <<game, mode, next_geometry_log, pending_geometry, told, clock>>

Tick ==
    /\ clock < MaxTime /\ clock' = clock + 1
    /\ UNCHANGED <<snapshot, unseen, game, mode, next_geometry_log, pending_geometry, told,
                   budget>>

------------------------------------------------------------------------------
(* Events: [kind, game, mode], and what a reader makes of one.             *)

GameEvent(kind, w) == [kind |-> kind, game |-> w, mode |-> "none"]
Moved(rect) == GameEvent("geometry", [game |-> "none", rect |-> rect])

Understood(known, e) ==
    CASE e.kind \in {"detected", "changed"} -> [known EXCEPT !.game = e.game]
      [] e.kind = "geometry" -> [known EXCEPT !.game.rect = e.game.rect]
      [] e.kind = "cleared" -> [known EXCEPT !.game = NoGame]
      [] e.kind = "mode" -> [known EXCEPT !.mode = e.mode]

------------------------------------------------------------------------------
(* CoreEventTracker::observe.                                              *)

\* flush_pending_geometry
Flushed(known) == IF pending_geometry = NoPending THEN known
                  ELSE Understood(known, Moved(pending_geometry.rect))

\* Mutant: the pending geometry survives the reset.
ResetGeometryLimit_deadline == next_geometry_log' = 0 /\ UNCHANGED pending_geometry

ResetGeometryLimit == next_geometry_log' = 0 /\ pending_geometry' = NoPending

\* observe_geometry: the event, and by LimitGeometry the limit.
Due == next_geometry_log = 0 \/ clock >= next_geometry_log
ObserveGeometry(known, rect) == IF Due THEN Understood(known, Moved(rect)) ELSE known
LimitGeometry(rect) ==
    IF Due
      THEN next_geometry_log' = clock + Interval /\ pending_geometry' = NoPending
      ELSE /\ pending_geometry' = [rect |-> rect, suppressed |-> pending_geometry.suppressed + 1]
           /\ UNCHANGED next_geometry_log

\* flush_due_geometry
FlushIsDue == next_geometry_log # 0 /\ clock >= next_geometry_log
FlushDueGeometry ==
    /\ pending_geometry' = IF FlushIsDue THEN NoPending ELSE pending_geometry
    /\ next_geometry_log' = IF FlushIsDue /\ pending_geometry # NoPending THEN clock + Interval
                            ELSE next_geometry_log

ModeEvents(known, m) ==
    IF m = mode THEN known ELSE Understood(known, [kind |-> "mode", game |-> NoGame, mode |-> m])

Observe ==
    /\ unseen /\ unseen' = FALSE
    /\ LET new == snapshot.game
           about == CASE game = NoGame /\ new # NoGame -> "detected"
                      [] game # NoGame /\ new = NoGame -> "cleared"
                      [] game # NoGame /\ new # NoGame /\ game.game # new.game -> "changed"
                      [] game # NoGame /\ new # NoGame /\ game.game = new.game
                           /\ game.rect # new.rect -> "moved"
                      [] OTHER -> "same"
           read == CASE about = "detected" -> Understood(told, GameEvent(about, new))
                     [] about \in {"cleared", "changed"} ->
                          Understood(Flushed(told), GameEvent(about, new))
                     [] about = "moved" -> ObserveGeometry(told, new.rect)
                     [] about = "same" -> IF FlushIsDue THEN Flushed(told) ELSE told
       IN  /\ CASE about \in {"detected", "cleared", "changed"} -> ResetGeometryLimit
                [] about = "moved" -> LimitGeometry(new.rect)
                [] about = "same" -> FlushDueGeometry
           /\ told' = ModeEvents(read, snapshot.mode)
           /\ game' = new /\ mode' = snapshot.mode
    /\ UNCHANGED <<snapshot, clock, budget>>

Next == Observe \/ Tick \/ \E w \in Windows, m \in Modes : Publish(w, m)
Spec == Init /\ [][Next]_vars

------------------------------------------------------------------------------
(* Properties.                                                             *)

\* The log tells the truth: who reads it knows the game and the mode last observed, and
\* its rectangle too, unless a newer one is kept back by the limit; what is kept back is
\* the newest, and never of an earlier game.
CoreLogIsFaithful ==
    /\ told.mode = mode /\ told.game.game = game.game
    /\ IF pending_geometry = NoPending THEN told.game = game
       ELSE pending_geometry.rect = game.rect
==============================================================================
