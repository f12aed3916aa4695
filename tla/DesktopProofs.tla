----------------------------- MODULE DesktopProofs -----------------------------
(***************************************************************************)
(* Theorems about the parts of OverCrow that meet the desktop and the      *)
(* disk: the geometry synchronizer of the Hyprland bridge, the event log   *)
(* of the core and the settings files, one instance each.  They share no   *)
(* state.  Some share names of variables and constants (game, mode,        *)
(* steps...), and so do the instances here: no theorem speaks of two, so   *)
(* that each is about any values these names may have in its own module.   *)
(* Every section ends with its theorem: the inductive invariant comes      *)
(* first, then a lemma per operation, then the step.                       *)
(***************************************************************************)
EXTENDS Naturals, Sequences, Desktop, TLAPS

------------------------------------------------------------------------------
(* overcrow-hyprland/src/geometry.rs: who moves whom.                      *)

\* A command is one of dispatch_once, at most one waits.
GeometryCommand == [window : Nat, rect : Rects]

\* What the synchronizer takes for converged has been seen converged, of the window it
\* tracks.
ConvergedWasCovered(s) == s.converged # None => <<s.identity, s.converged>> \in together

\* The inductive invariant.
GeometryInv ==
    /\ game \in [id : Nat, rect : Rects, keeps : BOOLEAN]
    /\ overlay \in Rects \cup {None}
    /\ \/ commands = <<>>
       \/ \E c \in GeometryCommand : commands = <<c>>
    /\ sync = [identity |-> sync.identity, converged |-> sync.converged, last |-> sync.last]
    /\ ConvergedWasCovered(sync)
    /\ Geometry!PullsTheGameItCovered

\* What a tick leaves of the synchronizer, and what it sends.
LEMMA GeometryTracks ==
    ASSUME GeometryInv
    PROVE  /\ Geometry!Tracked.identity = game.id /\ ConvergedWasCovered(Geometry!Tracked)
           /\ Geometry!Tracked = [identity |-> Geometry!Tracked.identity,
                                  converged |-> Geometry!Tracked.converged,
                                  last |-> Geometry!Tracked.last]
  BY SMT DEF GeometryInv, Geometry!Tracked, Geometry!NewSync, ConvergedWasCovered

\* sync_geometry_once: a pull is sent only to the window that is tracked, and only while
\* it stands where it was covered.
LEMMA GeometryTicks ==
    ASSUME None \notin Rects, GeometryInv, Geometry!GeometryTick
    PROVE  GeometryInv'
  <1> DEFINE s == Geometry!Tracked
             push == <<[window |-> Geometry!Overlay, rect |-> game.rect]>>
             pull == <<[window |-> game.id, rect |-> overlay]>>
  <1>1. /\ s.identity = game.id /\ ConvergedWasCovered(s)
        /\ s = [identity |-> s.identity, converged |-> s.converged, last |-> s.last]
    BY GeometryTracks
  <1>2. /\ sync' = Geometry!Commands.sync /\ commands' = Geometry!Commands.commands
        /\ together \subseteq together' /\ game' = game /\ overlay' = overlay
        /\ overlay = game.rect => <<game.id, overlay>> \in together'
    BY Zenon DEF Geometry!GeometryTick
  <1>3. game \in [id : Nat, rect : Rects, keeps : BOOLEAN] /\ overlay \in Rects \cup {None}
    BY Zenon DEF GeometryInv
  <1> HIDE DEF s
  <1>4. CASE overlay = None
    <2>1. sync' = [s EXCEPT !.converged = None, !.last = <<>>] /\ commands' = <<>>
      BY <1>2, <1>4, Zenon DEF Geometry!Commands, s
    <2>2. /\ sync'.converged = None
          /\ sync' = [identity |-> s.identity, converged |-> None, last |-> <<>>]
      BY <1>1, <2>1, Zenon
    <2>3. Geometry!PullsTheGameItCovered'
      BY <2>1 DEF Geometry!PullsTheGameItCovered
    <2> QED
      BY <1>2, <1>3, <2>1, <2>2, <2>3, Zenon DEF GeometryInv, ConvergedWasCovered
  <1>5. CASE overlay # None /\ overlay = game.rect
    <2>1. sync' = [s EXCEPT !.converged = game.rect, !.last = <<>>] /\ commands' = <<>>
      BY <1>2, <1>5 DEF Geometry!Commands, s
    <2>2. /\ sync'.converged = overlay /\ sync'.identity = game.id
          /\ sync' = [identity |-> sync'.identity, converged |-> sync'.converged,
                      last |-> sync'.last]
      BY <1>1, <1>5, <2>1, Zenon
    <2>3. Geometry!PullsTheGameItCovered'
      BY <2>1 DEF Geometry!PullsTheGameItCovered
    <2> QED
      BY <1>2, <1>3, <1>5, <2>1, <2>2, <2>3, Zenon DEF GeometryInv, ConvergedWasCovered
  <1>6. CASE overlay # None /\ overlay # game.rect
    <2>1. PICK c \in {push, pull} :
            /\ <<sync', commands'>> \in {<<s, <<>> >>, <<[s EXCEPT !.last = c], c>>}
            /\ c = pull => s.converged = game.rect
      <3>1. CASE Geometry!MayPull(s)
        <4>1. Geometry!Commands = Geometry!DispatchOnce(s, pull)
          BY <1>6, <3>1 DEF Geometry!Commands, s
        <4> QED
          BY <1>2, <3>1, <4>1, Zenon DEF Geometry!DispatchOnce, Geometry!MayPull
      <3>2. CASE ~Geometry!MayPull(s)
        <4>1. Geometry!Commands = Geometry!DispatchOnce(s, push)
          BY <1>6, <3>2 DEF Geometry!Commands, s
        <4>2. push # pull
          BY <1>6
        <4> QED
          BY <1>2, <4>1, <4>2, Zenon DEF Geometry!DispatchOnce
      <3> QED
        BY <3>1, <3>2
    <2>2. /\ sync'.converged = s.converged /\ sync'.identity = game.id
          /\ sync' = [identity |-> sync'.identity, converged |-> sync'.converged,
                      last |-> sync'.last]
      BY <1>1, <2>1
    <2>3. ConvergedWasCovered(sync)'
      BY <1>1, <1>2, <2>2, Zenon DEF ConvergedWasCovered
    <2>4. commands' = <<>> \/ \E d \in GeometryCommand : commands' = <<d>>
      BY <1>3, <1>6, <2>1 DEF GeometryCommand, Geometry!Overlay
    <2>5. Geometry!PullsTheGameItCovered'
      <3>1. CASE commands' = <<>>
        BY <3>1 DEF Geometry!PullsTheGameItCovered
      <3>2. CASE commands' = push
        BY <3>2 DEF Geometry!PullsTheGameItCovered
      <3>3. CASE commands' = pull /\ s.converged = game.rect
        <4>1. <<game.id, sync'.converged>> \in together'
          BY <1>3, <2>2, <2>3, <3>3, Zenon DEF ConvergedWasCovered
        <4>2. \A k \in DOMAIN commands' : commands'[k].window = game.id
          BY <3>3
        <4> QED
          BY <4>1, <4>2, Zenon DEF Geometry!PullsTheGameItCovered
      <3> QED
        BY <2>1, <3>1, <3>2, <3>3
    <2> QED
      BY <1>2, <1>3, <2>2, <2>3, <2>4, <2>5, Zenon DEF GeometryInv
  <1> QED
    BY <1>4, <1>5, <1>6

\* The compositor carries the one command out, or the bridge starts anew.
LEMMA GeometryDispatches ==
    ASSUME GeometryInv, Geometry!Dispatch
    PROVE  GeometryInv'
  <1>1. PICK c \in GeometryCommand : commands = <<c>>
    BY Zenon DEF GeometryInv, Geometry!Dispatch
  <1>2. Head(commands) = c /\ Tail(commands) = <<>>
    BY <1>1
  <1>3. commands' = <<>> /\ together' = together /\ sync' \in {sync, Geometry!NewSync}
    BY <1>2, Zenon DEF Geometry!Dispatch
  <1>4. /\ game' \in {game, [game EXCEPT !.rect = c.rect]}
        /\ overlay' \in {overlay, c.rect}
    BY <1>2, Zenon DEF Geometry!Dispatch
  <1>5. /\ game' \in [id : Nat, rect : Rects, keeps : BOOLEAN]
        /\ overlay' \in Rects \cup {None}
    BY <1>4 DEF GeometryInv, GeometryCommand
  <1>6. /\ ConvergedWasCovered(sync)'
        /\ sync' = [identity |-> sync'.identity, converged |-> sync'.converged,
                    last |-> sync'.last]
    BY <1>3 DEF GeometryInv, ConvergedWasCovered, Geometry!NewSync
  <1>7. Geometry!PullsTheGameItCovered'
    BY <1>3 DEF Geometry!PullsTheGameItCovered
  <1> QED
    BY <1>3, <1>5, <1>6, <1>7, Zenon DEF GeometryInv

\* The user, the game and the snapshots move windows; the synchronizer is left alone.
LEMMA GeometryElsewhere ==
    ASSUME GeometryInv, UNCHANGED <<sync, commands, together>>,
           game' \in [id : Nat, rect : Rects, keeps : BOOLEAN],
           overlay' \in Rects \cup {None}
    PROVE  GeometryInv'
  BY Zenon DEF GeometryInv, ConvergedWasCovered, Geometry!PullsTheGameItCovered

LEMMA GeometryStep ==
    ASSUME None \notin Rects, GeometryInv, [Geometry!Next]_(Geometry!vars)
    PROVE  GeometryInv'
  <1>1. game \in [id : Nat, rect : Rects, keeps : BOOLEAN] /\ overlay \in Rects \cup {None}
    BY Zenon DEF GeometryInv
  <1>2. CASE Geometry!GeometryTick
    BY <1>2, GeometryTicks, Zenon
  <1>3. CASE Geometry!Dispatch
    BY <1>3, GeometryDispatches, Zenon
  <1>4. ASSUME NEW r \in Rects, Geometry!MoveGame(r) \/ Geometry!ReplaceGame(r) PROVE GeometryInv'
    <2>1. /\ UNCHANGED <<sync, commands, together, overlay>>
          /\ \/ game' = [game EXCEPT !.rect = r]
             \/ game' = [game EXCEPT !.id = game.id + 1, !.rect = r]
      BY <1>4, Zenon DEF Geometry!MoveGame, Geometry!ReplaceGame
    <2>2. game.id + 1 \in Nat
      BY <1>1
    <2>3. game' \in [id : Nat, rect : Rects, keeps : BOOLEAN]
      BY <1>1, <2>1, <2>2, Zenon
    <2> QED
      BY <1>1, <2>1, <2>3, GeometryElsewhere, Zenon
  <1>5. ASSUME NEW r \in Rects, Geometry!MoveOverlay(r) \/ Geometry!OpenOverlay(r)
        PROVE  GeometryInv'
    <2>1. UNCHANGED <<sync, commands, together, game>> /\ overlay' \in {r, None}
      BY <1>5, Zenon DEF Geometry!MoveOverlay, Geometry!OpenOverlay
    <2> QED
      BY <1>1, <2>1, GeometryElsewhere, Zenon
  <1>6. ASSUME NEW m \in {"none", "passive", "interactive"}, Geometry!Snapshot(m)
        PROVE  GeometryInv'
    BY <1>1, <1>6, GeometryElsewhere, Zenon DEF Geometry!Snapshot
  <1>7. CASE Geometry!Focus
    BY <1>1, <1>7, GeometryElsewhere, Zenon DEF Geometry!Focus
  <1>8. CASE UNCHANGED Geometry!vars
    BY <1>1, <1>8, GeometryElsewhere, Zenon DEF Geometry!vars
  <1> QED
    BY <1>2, <1>3, <1>4, <1>5, <1>6, <1>7, <1>8, Zenon DEF Geometry!Next

\* The game's window is only moved onto an overlay that has covered this very window
\* where it stands, for any frames, any number of windows of the game and any number of
\* moves, replacements and restarts.
THEOREM PullsCorrect ==
    ASSUME None \notin Rects
    PROVE  Geometry!Spec => []PullsTheGameItCovered
  <1>1. Geometry!Init => GeometryInv
    <2> SUFFICES ASSUME Geometry!Init PROVE GeometryInv
      OBVIOUS
    <2>1. /\ game \in [id : Nat, rect : Rects, keeps : BOOLEAN]
          /\ overlay \in Rects \cup {None} /\ commands = <<>> /\ sync = Geometry!NewSync
      BY DEF Geometry!Init
    <2>2. ConvergedWasCovered(sync)
          /\ sync = [identity |-> sync.identity, converged |-> sync.converged,
                     last |-> sync.last]
      BY <2>1 DEF ConvergedWasCovered, Geometry!NewSync
    <2>3. Geometry!PullsTheGameItCovered
      BY <2>1 DEF Geometry!PullsTheGameItCovered
    <2> QED
      BY <2>1, <2>2, <2>3, Zenon DEF GeometryInv
  <1>2. GeometryInv /\ [Geometry!Next]_(Geometry!vars) => GeometryInv'
    BY GeometryStep
  <1>3. GeometryInv => Geometry!PullsTheGameItCovered
    BY Zenon DEF GeometryInv
  <1> QED
    BY <1>1, <1>2, <1>3, PTL DEF Geometry!Spec, PullsTheGameItCovered

------------------------------------------------------------------------------
(* overcrow-core/src/event_log.rs: what the log says of the game.          *)

\* Windows, and what is kept of them, are records of a game and a rectangle.
IsWindow(w) == w = [game |-> w.game, rect |-> w.rect]

\* The inductive invariant.
CoreLogInv ==
    /\ IsWindow(game) /\ IsWindow(snapshot.game) /\ IsWindow(told.game)
    /\ told = [game |-> told.game, mode |-> told.mode]
    /\ pending_geometry.suppressed \in Nat
    /\ CoreLog!CoreLogIsFaithful

\* What an event tells, by its kind.
LEMMA Tells ==
    ASSUME NEW known, known = [game |-> known.game, mode |-> known.mode], NEW w, NEW r, NEW m
    PROVE  /\ \A how \in {"detected", "changed"} :
                CoreLog!Understood(known, CoreLog!GameEvent(how, w))
                  = [game |-> w, mode |-> known.mode]
           /\ CoreLog!Understood(known, CoreLog!GameEvent("cleared", w))
                = [game |-> CoreLog!NoGame, mode |-> known.mode]
           /\ IsWindow(known.game) =>
                CoreLog!Understood(known, CoreLog!Moved(r))
                  = [game |-> [game |-> known.game.game, rect |-> r], mode |-> known.mode]
           /\ CoreLog!ModeEvents(known, m)
                = [game |-> known.game, mode |-> IF m = mode THEN known.mode ELSE m]
  <1>1. ASSUME NEW how \in {"detected", "changed"}
        PROVE  CoreLog!Understood(known, CoreLog!GameEvent(how, w))
                 = [game |-> w, mode |-> known.mode]
    BY <1>1 DEF CoreLog!Understood, CoreLog!GameEvent
  <1>2. CoreLog!Understood(known, CoreLog!GameEvent("cleared", w))
          = [game |-> CoreLog!NoGame, mode |-> known.mode]
    BY DEF CoreLog!Understood, CoreLog!GameEvent
  <1>3. ASSUME IsWindow(known.game)
        PROVE  CoreLog!Understood(known, CoreLog!Moved(r))
                 = [game |-> [game |-> known.game.game, rect |-> r], mode |-> known.mode]
    BY <1>3 DEF CoreLog!Understood, CoreLog!GameEvent, CoreLog!Moved, IsWindow
  <1>4. CoreLog!ModeEvents(known, m)
          = [game |-> known.game, mode |-> IF m = mode THEN known.mode ELSE m]
    <2>1. CASE m = mode
      BY <2>1 DEF CoreLog!ModeEvents
    <2>2. CASE m # mode
      BY <2>2 DEF CoreLog!ModeEvents, CoreLog!Understood
    <2> QED
      BY <2>1, <2>2
  <1> QED
    BY <1>1, <1>2, <1>3, <1>4, Zenon

\* observe: after each of its five cases the log tells the new window, or keeps back the
\* newest rectangle of the same game.
LEMMA CoreLogObserves ==
    ASSUME CoreLogInv, CoreLog!Observe
    PROVE  CoreLogInv'
  <1> DEFINE new == snapshot.game
             Known(w) == [game |-> w, mode |-> told.mode]
  <1>1. /\ IsWindow(game) /\ IsWindow(new) /\ IsWindow(told.game)
        /\ told = [game |-> told.game, mode |-> told.mode]
        /\ told.mode = mode /\ told.game.game = game.game
        /\ pending_geometry.suppressed \in Nat
        /\ pending_geometry = CoreLog!NoPending => told.game = game
        /\ pending_geometry # CoreLog!NoPending => pending_geometry.rect = game.rect
    BY Zenon DEF CoreLogInv, CoreLog!CoreLogIsFaithful
  <1>2. /\ game' = new /\ mode' = snapshot.mode /\ snapshot' = snapshot
    BY Zenon DEF CoreLog!Observe
  <1>3. IsWindow(CoreLog!NoGame)
    BY DEF IsWindow, CoreLog!NoGame
  \* The log tells the flushed rectangle before what follows.
  <1>4. /\ CoreLog!Flushed(told) = [game |-> CoreLog!Flushed(told).game, mode |-> told.mode]
        /\ CoreLog!Flushed(told).game = game
    <2>1. CASE pending_geometry = CoreLog!NoPending
      BY <1>1, <2>1, Zenon DEF CoreLog!Flushed
    <2>2. CASE pending_geometry # CoreLog!NoPending
      <3>1. CoreLog!Flushed(told)
              = [game |-> [game |-> told.game.game, rect |-> pending_geometry.rect],
                 mode |-> told.mode]
        BY <1>1, <2>2, Tells, Zenon DEF CoreLog!Flushed
      <3>2. [game |-> told.game.game, rect |-> pending_geometry.rect] = game
        BY <1>1, <2>2, Zenon DEF IsWindow
      <3> QED
        BY <3>1, <3>2
    <2> QED
      BY <2>1, <2>2
  \* After it, what is told of the game is the new window, or a newer rectangle is kept.
  <1> DEFINE Told(w) ==
        /\ told' = CoreLog!ModeEvents(Known(w), snapshot.mode)
        /\ IsWindow(w) /\ w.game = new.game
        /\ pending_geometry'.suppressed \in Nat
        /\ IF pending_geometry' = CoreLog!NoPending THEN w = new
           ELSE pending_geometry'.rect = new.rect
  <1>5. ASSUME NEW w, Told(w) PROVE CoreLogInv'
    <2>1. Known(w) = [game |-> Known(w).game, mode |-> Known(w).mode]
      OBVIOUS
    <2>2. told' = [game |-> w, mode |-> IF snapshot.mode = mode THEN told.mode ELSE snapshot.mode]
      BY <1>5, <2>1, Tells
    <2>3. told' = [game |-> w, mode |-> snapshot.mode]
      BY <1>1, <2>2
    <2>4. told'.game = w /\ told'.mode = snapshot.mode
      BY <2>3
    <2> QED
      BY <1>1, <1>2, <1>5, <2>3, <2>4, Zenon DEF CoreLogInv, CoreLog!CoreLogIsFaithful
  <1> HIDE DEF Known
  <1>6. CoreLog!NoPending.suppressed \in Nat
    BY DEF CoreLog!NoPending
  <1>7. CASE game = CoreLog!NoGame /\ new # CoreLog!NoGame
    <2>1. /\ told' = CoreLog!ModeEvents(CoreLog!Understood(told, CoreLog!GameEvent("detected", new)),
                                       snapshot.mode)
          /\ CoreLog!ResetGeometryLimit
      BY <1>7 DEF CoreLog!Observe
    <2> QED
      BY <1>1, <1>5, <1>6, <2>1, Tells, Zenon DEF Known, CoreLog!ResetGeometryLimit
  <1>8. CASE game # CoreLog!NoGame /\ new = CoreLog!NoGame
    <2>1. /\ told' = CoreLog!ModeEvents(CoreLog!Understood(CoreLog!Flushed(told),
                                                          CoreLog!GameEvent("cleared", new)),
                                       snapshot.mode)
          /\ CoreLog!ResetGeometryLimit
      BY <1>8 DEF CoreLog!Observe
    <2>2. CoreLog!Understood(CoreLog!Flushed(told), CoreLog!GameEvent("cleared", new)) = Known(new)
      BY <1>4, <1>8, Tells DEF Known
    <2> QED
      BY <1>1, <1>5, <1>6, <2>1, <2>2, Zenon DEF CoreLog!ResetGeometryLimit
  <1>9. CASE game # CoreLog!NoGame /\ new # CoreLog!NoGame /\ game.game # new.game
    <2>1. /\ told' = CoreLog!ModeEvents(CoreLog!Understood(CoreLog!Flushed(told),
                                                          CoreLog!GameEvent("changed", new)),
                                       snapshot.mode)
          /\ CoreLog!ResetGeometryLimit
      BY <1>9, Zenon DEF CoreLog!Observe
    <2>2. CoreLog!Understood(CoreLog!Flushed(told), CoreLog!GameEvent("changed", new)) = Known(new)
      BY <1>4, Tells DEF Known
    <2> QED
      BY <1>1, <1>5, <1>6, <2>1, <2>2, Zenon DEF CoreLog!ResetGeometryLimit
  <1>10. CASE /\ game # CoreLog!NoGame /\ new # CoreLog!NoGame
              /\ game.game = new.game /\ game.rect # new.rect
    <2>1. /\ told' = CoreLog!ModeEvents(CoreLog!ObserveGeometry(told, new.rect), snapshot.mode)
          /\ CoreLog!LimitGeometry(new.rect)
      BY <1>10 DEF CoreLog!Observe
    <2>2. CASE CoreLog!Due
      <3>1. CoreLog!Understood(told, CoreLog!Moved(new.rect))
              = Known([game |-> told.game.game, rect |-> new.rect])
        BY <1>1, Tells, Zenon DEF Known
      <3>2. [game |-> told.game.game, rect |-> new.rect] = new
        BY <1>1, <1>10, Zenon DEF IsWindow
      <3> QED
        BY <1>1, <1>5, <1>6, <2>1, <2>2, <3>1, <3>2, Zenon
           DEF CoreLog!ObserveGeometry, CoreLog!LimitGeometry
    <2>3. CASE ~CoreLog!Due
      <3>1. pending_geometry'.suppressed \in Nat /\ pending_geometry'.rect = new.rect
            /\ pending_geometry'.suppressed # 0
        BY <1>1, <2>1, <2>3 DEF CoreLog!LimitGeometry
      <3>2. pending_geometry' # CoreLog!NoPending
        BY <3>1 DEF CoreLog!NoPending
      <3>3. told = Known(told.game)
        BY <1>1, Zenon DEF Known
      <3>4. told' = CoreLog!ModeEvents(Known(told.game), snapshot.mode)
        BY <2>1, <2>3, <3>3, Zenon DEF CoreLog!ObserveGeometry
      <3> QED
        BY <1>1, <1>5, <1>10, <3>1, <3>2, <3>4, Zenon
    <2> QED
      BY <2>2, <2>3
  <1>11. CASE game = new
    <2>1. /\ told' = CoreLog!ModeEvents(IF CoreLog!FlushIsDue THEN CoreLog!Flushed(told) ELSE told,
                                       snapshot.mode)
          /\ CoreLog!FlushDueGeometry
      BY <1>11, Zenon DEF CoreLog!Observe
    <2>2. CASE CoreLog!FlushIsDue
      <3>1. CoreLog!Flushed(told) = Known(new)
        BY <1>4, <1>11, Zenon DEF Known
      <3> QED
        BY <1>1, <1>5, <1>6, <2>1, <2>2, <3>1, Zenon DEF CoreLog!FlushDueGeometry
    <2>3. CASE ~CoreLog!FlushIsDue
      <3>1. told = Known(told.game)
        BY <1>1, Zenon DEF Known
      <3> QED
        BY <1>1, <1>5, <1>11, <2>1, <2>3, <3>1, Zenon DEF CoreLog!FlushDueGeometry
    <2> QED
      BY <2>2, <2>3
  <1> QED
    BY <1>1, <1>7, <1>8, <1>9, <1>10, <1>11, Zenon DEF IsWindow

\* The log tells the game and the mode last observed, and its rectangle or that a newer
\* one is kept back, for any games, any interval and any number of snapshots, seen or
\* overtaken.
THEOREM CoreLogCorrect == CoreLog!Spec => []CoreLogIsFaithful
  <1>1. CoreLog!Init => CoreLogInv
    BY DEF CoreLog!Init, CoreLogInv, CoreLog!CoreLogIsFaithful, CoreLog!NoGame,
           CoreLog!NoPending, IsWindow
  <1>2. CoreLogInv /\ [CoreLog!Next]_(CoreLog!vars) => CoreLogInv'
    <2> SUFFICES ASSUME CoreLogInv, [CoreLog!Next]_(CoreLog!vars) PROVE CoreLogInv'
      OBVIOUS
    <2>1. CASE CoreLog!Observe
      BY <2>1, CoreLogObserves
    <2>2. ASSUME NEW w \in CoreLog!Windows, NEW m \in Modes, CoreLog!Publish(w, m)
          PROVE  CoreLogInv'
      <3>1. IsWindow(w)
        BY DEF CoreLog!Windows, CoreLog!NoGame, IsWindow
      <3>2. snapshot'.game = w /\ UNCHANGED <<game, mode, pending_geometry, told>>
        BY <2>2 DEF CoreLog!Publish
      <3> QED
        BY <3>1, <3>2, Zenon DEF CoreLogInv, CoreLog!CoreLogIsFaithful
    <2>3. CASE CoreLog!Tick \/ UNCHANGED CoreLog!vars
      <3>1. UNCHANGED <<snapshot, game, mode, pending_geometry, told>>
        BY <2>3, Zenon DEF CoreLog!Tick, CoreLog!vars
      <3> QED
        BY <3>1, Zenon DEF CoreLogInv, CoreLog!CoreLogIsFaithful
    <2> QED
      BY <2>1, <2>2, <2>3, Zenon DEF CoreLog!Next
  <1>3. CoreLogInv => CoreLog!CoreLogIsFaithful
    BY Zenon DEF CoreLogInv
  <1> QED
    BY <1>1, <1>2, <1>3, PTL DEF CoreLog!Spec, CoreLogIsFaithful

------------------------------------------------------------------------------
(* The settings files: overcrow-config's stores, and who reads them.       *)

\* An entry of the directory that the power cannot spoil: written in full before it got
\* its name.
Whole(e) ==
    /\ e = [is |-> e.is, value |-> e.value, stamp |-> e.stamp, synced |-> TRUE]
    /\ e.is # "torn" /\ e.stamp \in Nat

\* A file and what of it is on the disk: no older than what was reported.
FileIsWhole ==
    /\ store_file = [now |-> store_file.now, durable |-> store_file.durable]
    /\ Whole(store_file.now) /\ Whole(store_file.durable)
    /\ acked \in Nat /\ stamps \in Nat
    /\ acked <= store_file.durable.stamp /\ store_file.durable.stamp <= store_file.now.stamp
    /\ store_file.now.stamp <= stamps

\* A save that has not replaced the file is newer than it, one that has is what it holds.
JobTypes(j) ==
    /\ j = [pc |-> j.pc, value |-> j.value, stamp |-> j.stamp, base |-> j.base]
    /\ j.stamp \in Nat

SaveIsNext ==
    /\ JobTypes(save) /\ save.pc \in {"idle", "temp", "sync", "parent"}
    /\ save.pc \in {"temp", "sync"} => store_file.now.stamp <= save.stamp /\ save.stamp <= stamps
    /\ save.pc = "parent" => save.stamp = store_file.now.stamp

\* The saver's thread has one candidate at a time: queued, being saved, or answered.
OneCandidate ==
    /\ saver = [busy |-> saver.busy, queue |-> saver.queue, outcome |-> saver.outcome]
    /\ saver.busy \in BOOLEAN
    /\ kind # "twitch" \/ ~saver.busy => saver.queue = <<>> /\ saver.outcome = <<>>
    /\ kind = "twitch" /\ ~saver.busy => save.pc = "idle"
    /\ saver.queue # <<>> =>
         /\ saver.outcome = <<>> /\ save.pc = "idle"
         /\ \E j : /\ saver.queue = <<j>> /\ JobTypes(j) /\ j.pc = "temp"
                   /\ store_file.now.stamp <= j.stamp /\ j.stamp <= stamps
    /\ saver.outcome # <<>> =>
         /\ save.pc = "idle"
         /\ \E o : /\ saver.outcome = <<o>>
                   /\ o.result # "rolled_back" => o.stamp = store_file.now.stamp

\* Whether the outcome that waits is of a save that replaced the file.
Replaced == saver.outcome # <<>> /\ Head(saver.outcome).result # "rolled_back"

\* What an edit starts from.
BaseIsNewest ==
    ~strayed =>
      /\ save.pc # "parent" /\ ~Replaced => memory.stamp = store_file.now.stamp
      /\ save.pc \in {"temp", "sync"} => save.base = store_file.now.stamp
      /\ \A j : saver.queue = <<j>> => j.base = store_file.now.stamp

\* The Core's two readers.
ReaderTypes(r) ==
    /\ r = [pc |-> r.pc, read |-> r.read]
    /\ r.pc \in {"idle", "wait", "apply"}

CoreFollows ==
    /\ task = [t \in {"command", "refresh"} |-> task[t]]
    /\ \A t \in {"command", "refresh"} : ReaderTypes(task[t])
    /\ loaded.stamp \in Nat /\ loaded.stamp <= store_file.now.stamp
    /\ \A t \in {"command", "refresh"} :
         task[t].pc = "apply" =>
           /\ task[t].read.stamp \in Nat
           /\ loaded.stamp <= task[t].read.stamp /\ task[t].read.stamp <= store_file.now.stamp
    /\ \A t, u \in {"command", "refresh"} : task[t].pc = "apply" /\ task[u].pc = "apply" => t = u

StoresInv == FileIsWhole /\ SaveIsNext /\ OneCandidate /\ BaseIsNewest /\ CoreFollows

\* The stores there are.
FourStores == Kinds \subseteq {"lifecycle", "widgets", "twitch", "warframe"}

\* The initial states: nothing is saved yet and every entry found is whole.
LEMMA StoresStart ==
    ASSUME FourStores, Stores!Init
    PROVE  StoresInv
  <1>1. PICK e \in Stores!InitialEntries(kind) :
          /\ store_file = [now |-> e, durable |-> e]
          /\ memory = [value |-> Stores!Load(e).value, stamp |-> 0]
          /\ loaded = [value |-> Stores!Load(e).value, stamp |-> 0]
    BY Zenon DEF Stores!Init
  <1>0. kind \in {"lifecycle", "widgets", "twitch", "warframe"}
    BY Zenon DEF Stores!Init, FourStores
  <1>2. \A i, v : i # "torn" => /\ Whole(Stores!Entry(i, v, 0, TRUE))
                                /\ Stores!Entry(i, v, 0, TRUE).stamp = 0
    BY DEF Whole, Stores!Entry
  <1>3. Whole(e) /\ e.stamp = 0
    <2>0. /\ "unsafe" # "torn" /\ "missing" # "torn" /\ "value" # "torn" /\ "legacy" # "torn"
          /\ "widgets" # "lifecycle" /\ "twitch" # "lifecycle" /\ "warframe" # "lifecycle"
          /\ "twitch" # "widgets" /\ "warframe" # "widgets" /\ "warframe" # "twitch"
      OBVIOUS
    <2>1. CASE e \in {Stores!Entry("unsafe", None, 0, TRUE), Stores!Entry("missing", None, 0, TRUE)}
      BY <1>2, <2>0, <2>1, Zenon
    <2>2. CASE kind = "lifecycle"
      BY <1>1, <1>2, <2>0, <2>1, <2>2, Zenon DEF Stores!InitialEntries
    <2>3. CASE kind = "widgets"
      BY <1>1, <1>2, <2>0, <2>1, <2>3, Zenon DEF Stores!InitialEntries
    <2>4. CASE kind = "twitch"
      BY <1>1, <1>2, <2>0, <2>1, <2>4, Zenon DEF Stores!InitialEntries
    <2>5. CASE kind = "warframe"
      BY <1>1, <1>2, <2>0, <2>1, <2>5, Zenon DEF Stores!InitialEntries
    <2> QED
      BY <1>0, <2>2, <2>3, <2>4, <2>5, Zenon
  <1>4. /\ save = Stores!Idle /\ saver = Stores!FreeSaver
        /\ task = [t \in {"command", "refresh"} |-> Stores!NoTask]
        /\ acked = 0 /\ stamps = 0 /\ strayed = FALSE
    BY Zenon DEF Stores!Init
  <1>5. store_file.now = e /\ store_file.durable = e /\ memory.stamp = 0 /\ loaded.stamp = 0
    BY <1>1
  <1>6. FileIsWhole
    BY <1>1, <1>3, <1>4, <1>5 DEF FileIsWhole
  <1>7. SaveIsNext
    BY <1>4, Zenon DEF SaveIsNext, JobTypes, Stores!Idle
  <1>8. OneCandidate /\ BaseIsNewest
    BY <1>3, <1>4, <1>5 DEF OneCandidate, BaseIsNewest, Replaced, Stores!FreeSaver, Stores!Idle
  <1>9. CoreFollows
    BY <1>3, <1>4, <1>5 DEF CoreFollows, ReaderTypes, Stores!NoTask
  <1> QED
    BY <1>6, <1>7, <1>8, <1>9, Zenon DEF StoresInv

\* What a candidate is when it is handed over.
LEMMA JobIsNew ==
    ASSUME StoresInv, NEW v, NEW j, j = Stores!Job(v)
    PROVE  /\ JobTypes(j) /\ j.pc = "temp" /\ j.base = memory.stamp
           /\ store_file.now.stamp <= j.stamp /\ j.stamp <= stamps + 1
  BY DEF Stores!Job, JobTypes, StoresInv, FileIsWhole, Whole

\* A new stamp disturbs nothing that is there.
LEMMA StampsGrow ==
    ASSUME StoresInv, stamps' = stamps + 1, store_file' = store_file, acked' = acked
    PROVE  FileIsWhole'
  BY DEF StoresInv, FileIsWhole, Whole

\* The Core is still behind a newer file.
LEMMA CoreStays ==
    ASSUME StoresInv, store_file'.now.stamp \in Nat, store_file.now.stamp <= store_file'.now.stamp,
           loaded' = loaded, task' = task
    PROVE  CoreFollows'
  <1>1. loaded.stamp \in Nat /\ loaded.stamp <= store_file.now.stamp /\ store_file.now.stamp \in Nat
    BY Zenon DEF StoresInv, CoreFollows, FileIsWhole, Whole
  <1>2. loaded.stamp <= store_file'.now.stamp
    BY <1>1
  <1>3. ASSUME NEW t \in {"command", "refresh"}, task[t].pc = "apply"
        PROVE  /\ task[t].read.stamp \in Nat
               /\ loaded.stamp <= task[t].read.stamp /\ task[t].read.stamp <= store_file'.now.stamp
    <2>1. /\ task[t].read.stamp \in Nat
          /\ loaded.stamp <= task[t].read.stamp /\ task[t].read.stamp <= store_file.now.stamp
      BY <1>3, Zenon DEF StoresInv, CoreFollows
    <2> QED
      BY <1>1, <2>1
  <1> QED
    BY <1>1, <1>2, <1>3, Zenon DEF StoresInv, CoreFollows

\* The same file, the same view.
LEMMA FileStays ==
    ASSUME StoresInv, store_file'.now = store_file.now
    PROVE  store_file'.now.stamp \in Nat /\ store_file.now.stamp <= store_file'.now.stamp
  BY DEF StoresInv, FileIsWhole, Whole

\* An edit is saved at once, or queued for the saver's thread.
LEMMA EditStep == StoresInv /\ Stores!Edit => StoresInv'
  <1> SUFFICES ASSUME StoresInv, Stores!Edit PROVE StoresInv'
    BY Zenon
  <1>1. /\ stamps' = stamps + 1 /\ (kind = "twitch" \/ save.pc = "idle")
        /\ UNCHANGED <<kind, store_file, memory, loaded, task, acked, strayed>>
    BY Zenon DEF Stores!Edit
  <1>2. PICK v : Stores!Commit(v) \/ Stores!TrySave(v)
    BY Zenon DEF Stores!Edit
  <1>3. FileIsWhole' /\ CoreFollows'
    BY <1>1, StampsGrow, FileStays, CoreStays, Zenon
  <1>4. CASE Stores!Commit(v)
    <2>1. kind # "twitch" /\ save' = Stores!Job(v) /\ saver' = saver /\ save.pc = "idle"
      BY <1>1, <1>4, Zenon DEF Stores!Commit
    <2>2. /\ JobTypes(save') /\ save'.pc = "temp" /\ save'.base = memory.stamp
          /\ store_file.now.stamp <= save'.stamp /\ save'.stamp <= stamps + 1
      BY <2>1, JobIsNew, Zenon
    <2>3. saver.queue = <<>> /\ saver.outcome = <<>>
      BY <2>1, Zenon DEF StoresInv, OneCandidate
    <2>4. SaveIsNext'
      BY <1>1, <2>2 DEF SaveIsNext, JobTypes
    <2>5. OneCandidate'
      BY <1>1, <2>1, <2>3, Zenon DEF StoresInv, OneCandidate
    <2>6. BaseIsNewest'
      <3>1. ~strayed => memory.stamp = store_file.now.stamp
        BY <2>1, <2>3, Zenon DEF StoresInv, BaseIsNewest, Replaced
      <3>2. \A j : <<>> # <<j>>
        OBVIOUS
      <3> QED
        BY <1>1, <2>1, <2>2, <2>3, <3>1, <3>2, Zenon DEF BaseIsNewest
    <2> QED
      BY <1>3, <2>4, <2>5, <2>6, Zenon DEF StoresInv
  <1>5. CASE Stores!TrySave(v)
    <2> DEFINE j == Stores!Job(v)
    <2>1. /\ kind = "twitch" /\ ~saver.busy /\ save' = save
          /\ saver' = [saver EXCEPT !.busy = TRUE, !.queue = <<j>>]
      BY <1>5, Zenon DEF Stores!TrySave
    <2>2. /\ JobTypes(j) /\ j.pc = "temp" /\ j.base = memory.stamp
          /\ store_file.now.stamp <= j.stamp /\ j.stamp <= stamps + 1
      BY JobIsNew, Zenon
    <2> HIDE DEF j
    <2>3. saver.queue = <<>> /\ saver.outcome = <<>> /\ save.pc = "idle"
      BY <2>1, Zenon DEF StoresInv, OneCandidate
    <2>4. saver' = [busy |-> TRUE, queue |-> <<j>>, outcome |-> <<>>]
      BY <2>1, <2>3, Zenon DEF StoresInv, OneCandidate
    <2>5. SaveIsNext'
      BY <1>1, <2>1, <2>3 DEF StoresInv, SaveIsNext, JobTypes
    <2>6. OneCandidate'
      <3>1. /\ saver'.busy = TRUE /\ saver'.queue = <<j>> /\ saver'.outcome = <<>>
            /\ saver' = [busy |-> saver'.busy, queue |-> saver'.queue, outcome |-> saver'.outcome]
        BY <2>4
      <3>2. j.stamp <= stamps'
        BY <1>1, <2>2, Zenon
      <3> QED
        BY <1>1, <2>1, <2>2, <2>3, <3>1, <3>2, Zenon DEF OneCandidate
    <2>7. BaseIsNewest'
      <3>1. ~strayed => memory.stamp = store_file.now.stamp
        BY <2>1, <2>3 DEF StoresInv, BaseIsNewest, Replaced
      <3>2. \A k : <<j>> = <<k>> => k = j
        OBVIOUS
      <3>3. saver'.queue = <<j>> /\ ~Replaced'
        BY <2>4 DEF Replaced
      <3> QED
        BY <1>1, <2>1, <2>2, <2>3, <3>1, <3>2, <3>3 DEF BaseIsNewest
    <2> QED
      BY <1>3, <2>5, <2>6, <2>7, Zenon DEF StoresInv
  <1> QED
    BY <1>2, <1>4, <1>5, Zenon

\* The saver's thread takes the candidate.
LEMMA ReceiveStep == StoresInv /\ Stores!Receive => StoresInv'
  <1> SUFFICES ASSUME StoresInv, Stores!Receive PROVE StoresInv'
    BY Zenon
  <1>1. /\ save.pc = "idle" /\ saver.queue # <<>> /\ save' = Head(saver.queue)
        /\ saver' = [saver EXCEPT !.queue = <<>>]
        /\ UNCHANGED <<kind, store_file, memory, loaded, task, acked, stamps, strayed>>
    BY Zenon DEF Stores!Receive
  <1>2. PICK j : /\ saver.queue = <<j>> /\ JobTypes(j) /\ j.pc = "temp"
                 /\ store_file.now.stamp <= j.stamp /\ j.stamp <= stamps
    BY <1>1, Zenon DEF StoresInv, OneCandidate
  <1>3. save' = j
    BY <1>1, <1>2
  <1>4. saver' = [busy |-> saver.busy, queue |-> <<>>, outcome |-> <<>>]
        /\ kind = "twitch" /\ saver.busy /\ saver.busy \in BOOLEAN
    BY <1>1 DEF StoresInv, OneCandidate
  <1>5. FileIsWhole' /\ CoreFollows'
    BY <1>1, FileStays, CoreStays, Zenon DEF StoresInv, FileIsWhole
  <1>6. SaveIsNext'
    BY <1>1, <1>2, <1>3 DEF SaveIsNext
  <1>7. OneCandidate'
    <2>1. /\ saver'.busy = saver.busy /\ saver'.queue = <<>> /\ saver'.outcome = <<>>
          /\ saver' = [busy |-> saver'.busy, queue |-> saver'.queue, outcome |-> saver'.outcome]
      BY <1>4
    <2> QED
      BY <1>1, <1>4, <2>1, Zenon DEF OneCandidate
  <1>8. BaseIsNewest'
    <2>1. ~strayed => memory.stamp = store_file.now.stamp /\ j.base = store_file.now.stamp
      <3>1. saver.outcome = <<>>
        BY <1>1, Zenon DEF StoresInv, OneCandidate
      <3> QED
        BY <1>1, <1>2, <3>1 DEF StoresInv, BaseIsNewest, Replaced
    <2>2. saver'.queue = <<>> /\ \A k : <<>> # <<k>>
      BY <1>4
    <2> QED
      BY <1>1, <1>2, <1>3, <2>1, <2>2 DEF BaseIsNewest
  <1> QED
    BY <1>5, <1>6, <1>7, <1>8, Zenon DEF StoresInv

\* A step of the save that leaves its candidate alone.
LEMMA SaveGoesOn ==
    ASSUME StoresInv, NEW step, save' = [save EXCEPT !.pc = step]
    PROVE  /\ JobTypes(save') /\ save'.pc = step /\ save'.stamp = save.stamp
           /\ save'.base = save.base
  BY DEF StoresInv, SaveIsNext, JobTypes

\* A running save has the saver to itself.
LEMMA SaverWaits ==
    ASSUME StoresInv, save.pc # "idle"
    PROVE  saver.queue = <<>> /\ saver.outcome = <<>> /\ (kind = "twitch" => saver.busy)
  BY Zenon DEF StoresInv, OneCandidate

\* The temporary file is written.
LEMMA WriteTempStep == StoresInv /\ Stores!WriteTemp => StoresInv'
  <1> SUFFICES ASSUME StoresInv, Stores!WriteTemp PROVE StoresInv'
    BY Zenon
  <1>1. /\ save.pc = "temp" /\ save' = [save EXCEPT !.pc = "sync"]
        /\ UNCHANGED <<kind, store_file, memory, saver, loaded, task, acked, stamps, strayed>>
    BY Zenon DEF Stores!WriteTemp
  <1>2. JobTypes(save') /\ save'.pc = "sync" /\ save'.stamp = save.stamp /\ save'.base = save.base
    BY <1>1, SaveGoesOn, Zenon
  <1>3. saver.queue = <<>> /\ saver.outcome = <<>> /\ (kind = "twitch" => saver.busy)
    BY <1>1, SaverWaits
  <1>4. FileIsWhole' /\ CoreFollows'
    BY <1>1, FileStays, CoreStays, Zenon DEF StoresInv, FileIsWhole
  <1>5. SaveIsNext'
    BY <1>1, <1>2 DEF StoresInv, SaveIsNext
  <1>6. OneCandidate'
    BY <1>1, <1>3, Zenon DEF StoresInv, OneCandidate
  <1>7. BaseIsNewest'
    <2>1. save.pc # "parent" /\ save'.pc # "parent" /\ Replaced' = Replaced
          /\ save.pc \in {"temp", "sync"}
      BY <1>1, <1>2 DEF Replaced
    <2> QED
      BY <1>1, <1>2, <2>1, Zenon DEF StoresInv, BaseIsNewest
  <1> QED
    BY <1>4, <1>5, <1>6, <1>7, Zenon DEF StoresInv

\* The temporary file is synced and renamed.
LEMMA PersistStep == StoresInv /\ Stores!Persist => StoresInv'
  <1> SUFFICES ASSUME StoresInv, Stores!Persist PROVE StoresInv'
    BY Zenon
  <1>1. /\ save.pc = "sync" /\ save' = [save EXCEPT !.pc = "parent"]
        /\ store_file' = [store_file EXCEPT !.now = Stores!Entry("value", save.value, save.stamp, TRUE)]
        /\ UNCHANGED <<kind, memory, saver, loaded, task, acked, stamps, strayed>>
    BY Zenon DEF Stores!Persist, Stores!PersistTemp, Stores!Renamed
  <1>2. JobTypes(save') /\ save'.pc = "parent" /\ save'.stamp = save.stamp
    BY <1>1, SaveGoesOn, Zenon
  <1>3. saver.queue = <<>> /\ saver.outcome = <<>> /\ (kind = "twitch" => saver.busy)
    BY <1>1, SaverWaits
  <1>4. /\ store_file.now.stamp <= save.stamp /\ save.stamp <= stamps /\ save.stamp \in Nat
    BY <1>1 DEF StoresInv, SaveIsNext, JobTypes
  <1>5. /\ store_file' = [now |-> store_file'.now, durable |-> store_file.durable]
        /\ Whole(store_file'.now) /\ store_file'.now.stamp = save.stamp
    BY <1>1, <1>4, Zenon DEF StoresInv, FileIsWhole, Whole, Stores!Entry
  <1>6. FileIsWhole'
    <2>1. store_file'.durable = store_file.durable /\ store_file' = [now |-> store_file'.now, durable |-> store_file'.durable]
      BY <1>5
    <2>2. acked <= store_file.durable.stamp /\ store_file.durable.stamp <= save.stamp
      BY <1>4 DEF StoresInv, FileIsWhole, Whole
    <2> QED
      BY <1>1, <1>4, <1>5, <2>1, <2>2, Zenon DEF StoresInv, FileIsWhole
  <1>7. SaveIsNext'
    BY <1>2, <1>5 DEF SaveIsNext
  <1>8. OneCandidate'
    BY <1>1, <1>3, Zenon DEF StoresInv, OneCandidate
  <1>9. BaseIsNewest'
    <2>1. saver'.queue = <<>> /\ \A j : <<>> # <<j>>
      BY <1>1, <1>3
    <2> QED
      BY <1>2, <2>1 DEF BaseIsNewest
  <1>10. CoreFollows'
    BY <1>1, <1>4, <1>5, CoreStays, Zenon
  <1> QED
    BY <1>6, <1>7, <1>8, <1>9, <1>10, Zenon DEF StoresInv

\* A save ends and tells whoever asked, with success only once the file is replaced.
LEMMA ReportStep ==
    ASSUME StoresInv, save.pc # "idle", NEW result, Stores!Report(result),
           result # "rolled_back" => save.pc = "parent",
           store_file'.now = store_file.now, kind' = kind, loaded' = loaded, stamps' = stamps,
           ~strayed' => ~strayed /\ ~(save.pc = "parent" /\ result = "rolled_back")
    PROVE  SaveIsNext' /\ OneCandidate' /\ BaseIsNewest' /\ CoreFollows'
  <1> DEFINE o == Stores!Outcome(result)
  <1>1. /\ save' = Stores!Idle
        /\ kind = "twitch" => /\ saver' = [saver EXCEPT !.outcome = <<o>>]
                              /\ memory' = memory /\ task' = task
        /\ kind # "twitch" =>
             /\ memory' = Stores!Applied(o) /\ saver' = saver
             /\ task' = task \/ (task["command"].pc = "idle"
                                 /\ task' = [task EXCEPT !["command"].pc = "wait"])
    BY Zenon DEF Stores!Report
  <1>2. o.result = result /\ o.stamp = save.stamp
    BY DEF Stores!Outcome
  <1>3. result # "rolled_back" => Stores!Applied(o).stamp = save.stamp
    BY <1>2 DEF Stores!Applied
  <1>4. result = "rolled_back" => Stores!Applied(o) = memory
    BY <1>2 DEF Stores!Applied
  <1> HIDE DEF o
  <1>5. saver.queue = <<>> /\ saver.outcome = <<>> /\ (kind = "twitch" => saver.busy)
    BY SaverWaits
  <1>6. result # "rolled_back" => save.stamp = store_file.now.stamp
    BY Zenon DEF StoresInv, SaveIsNext
  <1>7. ~strayed' => ~strayed /\ (result = "rolled_back" => memory.stamp = store_file.now.stamp)
    BY <1>5, Zenon DEF StoresInv, BaseIsNewest, Replaced
  <1>8. SaveIsNext'
    BY <1>1 DEF SaveIsNext, JobTypes, Stores!Idle
  <1>9. save'.pc = "idle"
    BY <1>1 DEF Stores!Idle
  <1>10. \A j : <<>> # <<j>>
    OBVIOUS
  <1>11. CASE kind = "twitch"
    <2>1. /\ saver' = [saver EXCEPT !.outcome = <<o>>] /\ memory' = memory /\ task' = task
      BY <1>1, <1>11
    <2>2. /\ saver'.busy = saver.busy /\ saver'.queue = <<>> /\ saver'.outcome = <<o>>
          /\ saver' = [busy |-> saver'.busy, queue |-> saver'.queue, outcome |-> saver'.outcome]
      BY <1>5, <2>1 DEF StoresInv, OneCandidate
    <2>3. saver.busy /\ saver.busy \in BOOLEAN
      BY <1>5, <1>11, Zenon DEF StoresInv, OneCandidate
    <2>4. o.result # "rolled_back" => o.stamp = store_file'.now.stamp
      BY <1>2, <1>6
    <2>5. OneCandidate'
      BY <1>9, <1>11, <2>2, <2>3, <2>4, Zenon DEF OneCandidate
    <2>6. Replaced' <=> result # "rolled_back"
      BY <1>2, <2>2 DEF Replaced
    <2>7. BaseIsNewest'
      BY <1>7, <1>9, <1>10, <2>1, <2>2, <2>6 DEF BaseIsNewest
    <2>8. CoreFollows'
      BY <2>1, FileStays, CoreStays, Zenon
    <2> QED
      BY <1>8, <2>5, <2>7, <2>8, Zenon
  <1>12. CASE kind # "twitch"
    <2>1. OneCandidate'
      BY <1>1, <1>5, <1>12, Zenon DEF StoresInv, OneCandidate
    <2>2. ~Replaced' /\ saver'.queue = <<>>
      BY <1>1, <1>5, <1>12, Zenon DEF Replaced
    <2>3. ~strayed' => memory'.stamp = store_file'.now.stamp
      BY <1>1, <1>3, <1>4, <1>6, <1>7, <1>12, Zenon
    <2>4. BaseIsNewest'
      BY <1>9, <1>10, <2>2, <2>3 DEF BaseIsNewest
    <2>5. ASSUME task' = task PROVE CoreFollows'
      BY <2>5, FileStays, CoreStays, Zenon
    <2>6. ASSUME task["command"].pc = "idle", task' = [task EXCEPT !["command"].pc = "wait"]
          PROVE  CoreFollows'
      <3>1. /\ task' = [t \in {"command", "refresh"} |-> task'[t]]
            /\ task'["refresh"] = task["refresh"]
            /\ task'["command"] = [task["command"] EXCEPT !.pc = "wait"]
        BY <2>6, Zenon DEF StoresInv, CoreFollows
      <3>2. ReaderTypes(task'["command"]) /\ task'["command"].pc = "wait"
        BY <3>1 DEF StoresInv, CoreFollows, ReaderTypes
      <3> QED
        BY <3>1, <3>2, Zenon DEF StoresInv, CoreFollows
    <2> QED
      BY <1>1, <1>8, <1>12, <2>1, <2>4, <2>5, <2>6, Zenon
  <1> QED
    BY <1>11, <1>12, Zenon

\* The directory is synced: what was renamed is durable, and is reported so.
LEMMA SyncParentStep == StoresInv /\ Stores!SyncParent => StoresInv'
  <1> SUFFICES ASSUME StoresInv, Stores!SyncParent PROVE StoresInv'
    BY Zenon
  <1>1. /\ save.pc = "parent" /\ store_file' = [store_file EXCEPT !.durable = store_file.now]
        /\ Stores!Report("durable") /\ acked' = save.stamp
        /\ UNCHANGED <<kind, loaded, stamps, strayed>>
    BY Zenon DEF Stores!SyncParent, Stores!Report
  <1>2. /\ store_file'.now = store_file.now /\ store_file'.durable = store_file.now
        /\ store_file' = [now |-> store_file'.now, durable |-> store_file'.durable]
    BY <1>1 DEF StoresInv, FileIsWhole
  <1>3. save.stamp = store_file.now.stamp
    BY <1>1, Zenon DEF StoresInv, SaveIsNext
  <1>4. FileIsWhole'
    BY <1>1, <1>2, <1>3 DEF StoresInv, FileIsWhole, Whole
  <1>5. "durable" # "rolled_back" /\ "parent" # "idle"
    OBVIOUS
  <1>6. SaveIsNext' /\ OneCandidate' /\ BaseIsNewest' /\ CoreFollows'
    BY <1>1, <1>2, <1>5, ReportStep, Zenon
  <1> QED
    BY <1>4, <1>6, Zenon DEF StoresInv

\* What a failing step reports: never success before the rename.
LEMMA FailureIsHonest ==
    ASSUME NEW at \in {"temp", "sync", "parent"},
           NEW result \in Stores!SettingsSaveFailure(at) \cup Stores!ProfileSaveFailure(at)
                          \cup Stores!TwitchSaveFailure(at) \cup Stores!WarframeSaveFailure(at)
    PROVE  result # "durable" /\ (result # "rolled_back" => at = "parent")
  BY DEF Stores!SettingsSaveFailure, Stores!ProfileSaveFailure, Stores!TwitchSaveFailure,
         Stores!WarframeSaveFailure

\* A save fails at any of its steps.
LEMMA SaveFailsStep ==
    ASSUME StoresInv, kind \in {"lifecycle", "widgets", "twitch", "warframe"}, Stores!SaveFails
    PROVE  StoresInv'
  <1>1. save.pc # "idle" /\ UNCHANGED <<kind, store_file, loaded, stamps>>
    BY Zenon DEF Stores!SaveFails
  <1>2. save.pc \in {"temp", "sync", "parent"}
    BY <1>1, Zenon DEF StoresInv, SaveIsNext
  <1>3. PICK result \in CASE kind = "lifecycle" -> Stores!SettingsSaveFailure(save.pc)
                         [] kind = "widgets" -> Stores!ProfileSaveFailure(save.pc)
                         [] kind = "twitch" -> Stores!TwitchSaveFailure(save.pc)
                         [] kind = "warframe" -> Stores!WarframeSaveFailure(save.pc) :
          /\ Stores!Report(result)
          /\ strayed' = (strayed \/ (save.pc = "parent" /\ result = "rolled_back"))
    BY Zenon DEF Stores!SaveFails
  <1>4. result \in Stores!SettingsSaveFailure(save.pc) \cup Stores!ProfileSaveFailure(save.pc)
                   \cup Stores!TwitchSaveFailure(save.pc) \cup Stores!WarframeSaveFailure(save.pc)
    BY <1>3
  <1>5. result # "durable" /\ (result # "rolled_back" => save.pc = "parent")
    BY <1>2, <1>4, FailureIsHonest, Zenon
  <1>6. acked' = acked
    BY <1>3, <1>5, Zenon DEF Stores!Report
  <1>7. FileIsWhole'
    BY <1>1, <1>6, Zenon DEF StoresInv, FileIsWhole
  <1>8. SaveIsNext' /\ OneCandidate' /\ BaseIsNewest' /\ CoreFollows'
    BY <1>1, <1>3, <1>5, ReportStep, Zenon
  <1> QED
    BY <1>7, <1>8, Zenon DEF StoresInv

\* The process takes the saver's answer.
LEMMA TakeLatestStep == StoresInv /\ Stores!TakeLatest => StoresInv'
  <1> SUFFICES ASSUME StoresInv, Stores!TakeLatest PROVE StoresInv'
    BY Zenon
  <1>1. /\ saver.outcome # <<>> /\ memory' = Stores!Applied(Head(saver.outcome))
        /\ saver' = [saver EXCEPT !.outcome = <<>>, !.busy = FALSE]
        /\ UNCHANGED <<kind, store_file, save, loaded, task, acked, stamps, strayed>>
    BY Zenon DEF Stores!TakeLatest
  <1>2. /\ save.pc = "idle"
        /\ \E o : saver.outcome = <<o>> /\ (o.result # "rolled_back" => o.stamp = store_file.now.stamp)
    BY <1>1, Zenon DEF StoresInv, OneCandidate
  <1>3. PICK o : saver.outcome = <<o>> /\ (o.result # "rolled_back" => o.stamp = store_file.now.stamp)
    BY <1>2, Zenon
  <1>4. saver.queue = <<>>
    BY <1>1, Zenon DEF StoresInv, OneCandidate
  <1>5. saver' = [busy |-> FALSE, queue |-> <<>>, outcome |-> <<>>]
    BY <1>1, <1>4, Zenon DEF StoresInv, OneCandidate
  <1>6. FileIsWhole' /\ CoreFollows'
    BY <1>1, FileStays, CoreStays, Zenon DEF StoresInv, FileIsWhole
  <1>7. SaveIsNext'
    BY <1>1, Zenon DEF StoresInv, SaveIsNext
  <1>8. /\ saver'.busy = FALSE /\ saver'.queue = <<>> /\ saver'.outcome = <<>>
        /\ saver' = [busy |-> saver'.busy, queue |-> saver'.queue, outcome |-> saver'.outcome]
    BY <1>5
  <1>9. OneCandidate'
    BY <1>1, <1>2, <1>8, Zenon DEF OneCandidate
  <1>10. Head(saver.outcome) = o
    BY <1>3
  <1>11. o.result # "rolled_back" => memory'.stamp = o.stamp
    BY <1>1, <1>10 DEF Stores!Applied
  <1>12. o.result = "rolled_back" => memory' = memory
    BY <1>1, <1>10, Zenon DEF Stores!Applied
  <1>13. ~strayed /\ o.result = "rolled_back" => memory.stamp = store_file.now.stamp
    BY <1>2, <1>10 DEF StoresInv, BaseIsNewest, Replaced
  <1>14. BaseIsNewest'
    <2>1. ~strayed => memory'.stamp = store_file.now.stamp
      BY <1>3, <1>11, <1>12, <1>13, Zenon
    <2>2. \A j : <<>> # <<j>>
      OBVIOUS
    <2>3. \A j : saver'.queue # <<j>>
      BY <1>8, <2>2
    <2>4. save'.pc = "idle" /\ store_file' = store_file /\ strayed' = strayed
      BY <1>1, <1>2, Zenon
    <2> QED
      BY <2>1, <2>3, <2>4, Zenon DEF BaseIsNewest
  <1> QED
    BY <1>6, <1>7, <1>9, <1>14, Zenon DEF StoresInv

\* A step of a reader alone.
LEMMA ReaderSteps ==
    ASSUME StoresInv, CoreFollows', UNCHANGED <<kind, store_file, memory, save, saver, acked, stamps, strayed>>
    PROVE  StoresInv'
  <1>1. Replaced' = Replaced
    BY Zenon DEF Replaced
  <1> QED
    BY <1>1, Zenon DEF StoresInv, FileIsWhole, SaveIsNext, OneCandidate, BaseIsNewest

\* The readers after one of them has moved.
LEMMA ReadersMove ==
    ASSUME StoresInv, NEW t \in {"command", "refresh"}, NEW r, ReaderTypes(r),
           task' = [task EXCEPT ![t] = r]
    PROVE  /\ task' = [u \in {"command", "refresh"} |-> task'[u]]
           /\ task'[t] = r
           /\ \A u \in {"command", "refresh"} : ReaderTypes(task'[u]) /\ (u # t => task'[u] = task[u])
  BY Zenon DEF StoresInv, CoreFollows

\* The timer of the widget profile.
LEMMA TickStep == StoresInv /\ Stores!Tick => StoresInv'
  <1> SUFFICES ASSUME StoresInv, Stores!Tick PROVE StoresInv'
    BY Zenon
  <1> DEFINE r == [task["refresh"] EXCEPT !.pc = "wait"]
  <1>1. /\ task["refresh"].pc = "idle"
        /\ UNCHANGED <<kind, store_file, memory, save, saver, loaded, acked, stamps, strayed>>
    BY Zenon DEF Stores!Tick
  <1>2. task' = [task EXCEPT !["refresh"] = r]
    BY DEF Stores!Tick
  <1>3. ReaderTypes(r) /\ r.pc = "wait"
    BY DEF StoresInv, CoreFollows, ReaderTypes
  <1> HIDE DEF r
  <1>4. /\ task' = [u \in {"command", "refresh"} |-> task'[u]] /\ task'["refresh"] = r
        /\ \A u \in {"command", "refresh"} :
             ReaderTypes(task'[u]) /\ (u # "refresh" => task'[u] = task[u])
    BY <1>2, <1>3, ReadersMove, Zenon
  <1>5. CoreFollows'
    BY <1>1, <1>3, <1>4, Zenon DEF StoresInv, CoreFollows
  <1> QED
    BY <1>1, <1>5, ReaderSteps, Zenon

\* A reader loads under the lock: no other holds a file it has yet to apply.
LEMMA ReloadLoadStep ==
    ASSUME StoresInv, NEW t \in {"command", "refresh"}, Stores!ReloadLoad(t)
    PROVE  StoresInv'
  <1> DEFINE load == Stores!Load(store_file.now)
             r == IF load.warning THEN Stores!NoTask
                  ELSE [pc |-> "apply", read |-> [value |-> load.value, warning |-> FALSE,
                                                  stamp |-> store_file.now.stamp]]
  <1>1. /\ \A u \in DOMAIN task : task[u].pc # "apply"
        /\ task' = [task EXCEPT ![t] = r]
        /\ UNCHANGED <<kind, store_file, memory, save, saver, loaded, acked, stamps, strayed>>
    BY Zenon DEF Stores!ReloadLoad, Stores!LockReload
  <1>2. DOMAIN task = {"command", "refresh"}
    BY DEF StoresInv, CoreFollows
  <1>3. ReaderTypes(r) /\ (r.pc = "apply" => r.read.stamp = store_file.now.stamp)
    BY Zenon DEF ReaderTypes, Stores!NoTask
  <1> HIDE DEF r
  <1>4. /\ task' = [u \in {"command", "refresh"} |-> task'[u]] /\ task'[t] = r
        /\ \A u \in {"command", "refresh"} :
             ReaderTypes(task'[u]) /\ (u # t => task'[u] = task[u])
    BY <1>1, <1>3, ReadersMove, Zenon
  <1>5. \A u \in {"command", "refresh"} : task'[u].pc = "apply" => u = t
    BY <1>1, <1>2, <1>4, Zenon
  <1>6. /\ loaded.stamp \in Nat /\ loaded.stamp <= store_file.now.stamp
        /\ store_file.now.stamp \in Nat /\ store_file.now.stamp <= store_file.now.stamp
    BY DEF StoresInv, CoreFollows, FileIsWhole, Whole
  <1>7. CoreFollows'
    BY <1>1, <1>3, <1>4, <1>5, <1>6, Zenon DEF CoreFollows
  <1> QED
    BY <1>1, <1>7, ReaderSteps, Zenon

\* A reader applies what it read: newer than all the Core had.
LEMMA ReloadApplyStep ==
    ASSUME StoresInv, NEW t \in {"command", "refresh"}, Stores!ReloadApply(t)
    PROVE  StoresInv' /\ loaded.stamp <= loaded'.stamp
  <1>1. /\ task[t].pc = "apply"
        /\ \/ loaded' = loaded
           \/ loaded' = [value |-> task[t].read.value, stamp |-> task[t].read.stamp]
        /\ task' = [task EXCEPT ![t] = Stores!NoTask]
        /\ UNCHANGED <<kind, store_file, memory, save, saver, acked, stamps, strayed>>
    BY Zenon DEF Stores!ReloadApply
  <1>2. ReaderTypes(Stores!NoTask) /\ Stores!NoTask.pc = "idle"
    BY DEF ReaderTypes, Stores!NoTask
  <1>3. /\ task' = [u \in {"command", "refresh"} |-> task'[u]] /\ task'[t] = Stores!NoTask
        /\ \A u \in {"command", "refresh"} :
             ReaderTypes(task'[u]) /\ (u # t => task'[u] = task[u])
    BY <1>1, <1>2, ReadersMove, Zenon
  <1>4. \A u \in {"command", "refresh"} : task'[u].pc # "apply"
    BY <1>1, <1>2, <1>3, Zenon DEF StoresInv, CoreFollows
  <1>5. loaded'.stamp \in {loaded.stamp, task[t].read.stamp}
    BY <1>1
  <1>6. /\ loaded'.stamp \in Nat /\ loaded'.stamp <= store_file.now.stamp /\ loaded.stamp <= loaded'.stamp
    BY <1>1, <1>5 DEF StoresInv, CoreFollows
  <1>7. CoreFollows'
    BY <1>1, <1>3, <1>4, <1>6, Zenon DEF CoreFollows
  <1> QED
    BY <1>1, <1>6, <1>7, ReaderSteps, Zenon

\* A process that starts has no save under way, and starts from the file.
LEMMA StartsAgain ==
    ASSUME save' = Stores!Idle, saver' = Stores!FreeSaver, memory'.stamp = store_file'.now.stamp
    PROVE  SaveIsNext' /\ OneCandidate' /\ BaseIsNewest'
  <1>1. SaveIsNext' /\ save'.pc = "idle"
    BY DEF SaveIsNext, JobTypes, Stores!Idle
  <1>2. /\ saver'.busy = FALSE /\ saver'.queue = <<>> /\ saver'.outcome = <<>>
        /\ saver' = [busy |-> saver'.busy, queue |-> saver'.queue, outcome |-> saver'.outcome]
    BY DEF Stores!FreeSaver
  <1>3. OneCandidate'
    BY <1>1, <1>2, Zenon DEF OneCandidate
  <1>4. \A j : <<>> # <<j>>
    OBVIOUS
  <1> QED
    BY <1>1, <1>2, <1>3, <1>4 DEF BaseIsNewest

\* The editing process is killed.
LEMMA KillStep == StoresInv /\ Stores!Kill => StoresInv'
  <1> SUFFICES ASSUME StoresInv, Stores!Kill PROVE StoresInv'
    BY Zenon
  <1>1. /\ save' = Stores!Idle /\ saver' = Stores!FreeSaver
        /\ memory' = Stores!Restarted(store_file.now)
        /\ UNCHANGED <<kind, store_file, loaded, task, acked, stamps>>
    BY Zenon DEF Stores!Kill
  <1>2. memory'.stamp = store_file'.now.stamp
    BY <1>1 DEF Stores!Restarted
  <1>3. SaveIsNext' /\ OneCandidate' /\ BaseIsNewest'
    BY <1>1, <1>2, StartsAgain, Zenon
  <1>4. FileIsWhole' /\ CoreFollows'
    BY <1>1, FileStays, CoreStays, Zenon DEF StoresInv, FileIsWhole
  <1> QED
    BY <1>3, <1>4, Zenon DEF StoresInv

\* What is found after the power is back: one of the two, in full.
LEMMA FoundWhole ==
    ASSUME StoresInv, NEW e \in Stores!AfterPowerLoss
    PROVE  /\ Whole(e) /\ e.stamp \in Nat
           /\ acked <= e.stamp /\ e.stamp <= stamps
  <1>1. PICK f \in {store_file.now, store_file.durable} :
          e \in {f} \cup (IF f.synced THEN {} ELSE {[f EXCEPT !.is = "torn"]})
    BY Zenon DEF Stores!AfterPowerLoss
  <1>2. Whole(f)
    BY <1>1, Zenon DEF StoresInv, FileIsWhole
  <1>3. f.synced
    BY <1>2 DEF Whole
  <1>4. e = f
    BY <1>1, <1>3, Zenon
  <1>5. acked <= f.stamp /\ f.stamp <= stamps
    BY <1>1, <1>2 DEF StoresInv, FileIsWhole, Whole
  <1> QED
    BY <1>2, <1>4, <1>5, Zenon DEF Whole

\* The power fails.
LEMMA PowerLossStep == StoresInv /\ Stores!PowerLoss => StoresInv'
  <1> SUFFICES ASSUME StoresInv, Stores!PowerLoss PROVE StoresInv'
    BY Zenon
  <1>1. PICK e \in Stores!AfterPowerLoss :
          /\ store_file' = [now |-> e, durable |-> e]
          /\ memory' = Stores!Restarted(e) /\ loaded' = Stores!Restarted(e)
    BY Zenon DEF Stores!PowerLoss
  <1>2. /\ save' = Stores!Idle /\ saver' = Stores!FreeSaver
        /\ task' = [t \in DOMAIN task |-> Stores!NoTask]
        /\ UNCHANGED <<kind, acked, stamps>>
    BY Zenon DEF Stores!PowerLoss
  <1>3. Whole(e) /\ e.stamp \in Nat /\ acked <= e.stamp /\ e.stamp <= stamps
    BY FoundWhole, Zenon
  <1>4. /\ store_file'.now = e /\ store_file'.durable = e
        /\ store_file' = [now |-> store_file'.now, durable |-> store_file'.durable]
        /\ memory'.stamp = e.stamp /\ loaded'.stamp = e.stamp
    BY <1>1 DEF Stores!Restarted
  <1>5. FileIsWhole'
    BY <1>2, <1>3, <1>4 DEF StoresInv, FileIsWhole
  <1>6. SaveIsNext' /\ OneCandidate' /\ BaseIsNewest'
    BY <1>2, <1>4, StartsAgain, Zenon
  <1>7. task' = [t \in {"command", "refresh"} |-> Stores!NoTask]
    <2>1. DOMAIN task = {"command", "refresh"}
      BY DEF StoresInv, CoreFollows
    <2> QED
      BY <1>2, <2>1, Zenon
  <1>8. CoreFollows'
    BY <1>3, <1>4, <1>7 DEF CoreFollows, ReaderTypes, Stores!NoTask
  <1> QED
    BY <1>5, <1>6, <1>8, Zenon DEF StoresInv

\* Every step preserves the invariant, and none but a loss of power takes the Core back.
LEMMA StoresStep ==
    ASSUME StoresInv, kind \in {"lifecycle", "widgets", "twitch", "warframe"},
           [Stores!Next]_(Stores!vars)
    PROVE  /\ StoresInv' /\ kind' \in {"lifecycle", "widgets", "twitch", "warframe"}
           /\ [Stores!CoreGoesOn]_(Stores!vars)
  <1>0. loaded.stamp \in Nat
    BY Zenon DEF StoresInv, CoreFollows
  <1>s. loaded'.stamp = loaded.stamp \/ loaded.stamp <= loaded'.stamp \/ Stores!PowerLoss
        => [Stores!CoreGoesOn]_(Stores!vars)
    <2>1. loaded'.stamp = loaded.stamp => loaded'.stamp >= loaded.stamp
      BY <1>0
    <2> QED
      BY <2>1 DEF Stores!CoreGoesOn
  <1>1. CASE UNCHANGED Stores!vars
    <2>1. /\ kind' = kind /\ loaded' = loaded /\ task' = task
          /\ UNCHANGED <<kind, store_file, memory, save, saver, acked, stamps, strayed>>
      BY <1>1, Zenon DEF Stores!vars
    <2>2. CoreFollows'
      BY <2>1, FileStays, CoreStays, Zenon
    <2> QED
      BY <1>s, <2>1, <2>2, ReaderSteps, Zenon
  <1>2. CASE \/ Stores!Edit \/ Stores!Receive \/ Stores!WriteTemp \/ Stores!Persist
             \/ Stores!SyncParent \/ Stores!SaveFails \/ Stores!TakeLatest \/ Stores!Tick
             \/ Stores!Kill
    <2>1. kind' = kind /\ loaded' = loaded
      BY <1>2, Zenon DEF Stores!Edit, Stores!Receive, Stores!WriteTemp, Stores!Persist,
         Stores!SyncParent, Stores!SaveFails, Stores!TakeLatest, Stores!Tick, Stores!Kill
    <2>2. StoresInv'
      BY <1>2, EditStep, ReceiveStep, WriteTempStep, PersistStep, SyncParentStep, SaveFailsStep,
         TakeLatestStep, TickStep, KillStep, Zenon
    <2> QED
      BY <1>s, <2>1, <2>2, Zenon
  <1>3. ASSUME NEW t \in DOMAIN task, Stores!ReloadLoad(t) \/ Stores!ReloadApply(t)
        PROVE  StoresInv' /\ kind' = kind /\ [Stores!CoreGoesOn]_(Stores!vars)
    <2>1. t \in {"command", "refresh"}
      BY <1>3 DEF StoresInv, CoreFollows
    <2>2. CASE Stores!ReloadLoad(t)
      <3>1. loaded' = loaded /\ kind' = kind
        BY <2>2, Zenon DEF Stores!ReloadLoad
      <3> QED
        BY <1>s, <2>1, <2>2, <3>1, ReloadLoadStep, Zenon
    <2>3. CASE Stores!ReloadApply(t)
      <3>1. kind' = kind
        BY <2>3, Zenon DEF Stores!ReloadApply
      <3> QED
        BY <1>s, <2>1, <2>3, <3>1, ReloadApplyStep, Zenon
    <2> QED
      BY <1>3, <2>2, <2>3, Zenon
  <1>4. CASE Stores!PowerLoss
    <2>1. kind' = kind
      BY <1>4, Zenon DEF Stores!PowerLoss
    <2> QED
      BY <1>s, <1>4, <2>1, PowerLossStep, Zenon
  <1> QED
    BY <1>1, <1>2, <1>3, <1>4, Zenon DEF Stores!Next

\* What the invariant says of the property.
LEMMA StoresSafe ==
    ASSUME StoresInv
    PROVE  SavesAreSafe
  <1>1. Stores!SurvivesPowerLoss
    <2> SUFFICES ASSUME NEW e \in Stores!AfterPowerLoss
                 PROVE  e.is # "torn" /\ e.stamp >= acked
      BY Zenon DEF Stores!SurvivesPowerLoss
    <2>1. Whole(e) /\ e.stamp \in Nat /\ acked <= e.stamp
      BY FoundWhole, Zenon
    <2>2. acked \in Nat
      BY Zenon DEF StoresInv, FileIsWhole
    <2> QED
      BY <2>1, <2>2 DEF Whole
  <1>2. Stores!NoLostEdit
    BY Zenon DEF StoresInv, BaseIsNewest, Stores!NoLostEdit
  <1> QED
    BY <1>1, <1>2, Zenon DEF SavesAreSafe

\* A save that was reported as durable survives a loss of power, what is found can be read
\* in full, and every save starts from the settings the file holds, although the Twitch
\* saver writes on a thread of its own and any step of a save may fail (store.rs,
\* widget_store.rs, twitch_prefs.rs, warframe_prefs.rs).
THEOREM SavesSafe ==
    ASSUME FourStores
    PROVE  Stores!Spec => []SavesAreSafe
  <1> DEFINE Inv == StoresInv /\ kind \in {"lifecycle", "widgets", "twitch", "warframe"}
  <1>1. Stores!Init => Inv
    BY StoresStart, Zenon DEF FourStores, Stores!Init
  <1>2. Inv /\ [Stores!Next]_(Stores!vars) => Inv'
    BY StoresStep, Zenon
  <1>3. Inv => SavesAreSafe
    BY StoresSafe, Zenon
  <1> QED
    BY <1>1, <1>2, <1>3, PTL DEF Stores!Spec

\* The Core's two readers never apply an older file after a newer one: each takes
\* reload_transaction before it loads and keeps it until it has applied (runtime.rs).
THEOREM CoreOnlyForward ==
    ASSUME FourStores
    PROVE  Stores!Spec => CoreNeverGoesBack
  <1> DEFINE Inv == StoresInv /\ kind \in {"lifecycle", "widgets", "twitch", "warframe"}
  <1>1. Stores!Init => Inv
    BY StoresStart, Zenon DEF FourStores, Stores!Init
  <1>2. Inv /\ [Stores!Next]_(Stores!vars) =>
          Inv' /\ [component = "stores" => Stores!CoreGoesOn]_(Stores!vars)
    BY StoresStep, Zenon
  <1> QED
    BY <1>1, <1>2, PTL DEF Stores!Spec, CoreNeverGoesBack
================================================================================
