--------------------------- MODULE HyprlandGeometry ---------------------------
(***************************************************************************)
(* The geometry timer of the Hyprland bridge: GeometrySynchronizer and     *)
(* sync_geometry_once.  Every 33 ms the overlay is moved onto the game; or *)
(* the game onto the overlay, when the user has resized the overlay they   *)
(* have the focus on.  One game window, one overlay; the workspace is part *)
(* of the overlay's frame, since the game never moves there by command.    *)
(***************************************************************************)
EXTENDS Naturals, Sequences

CONSTANTS Rects,     \* frames a window may have
          MaxGames,  \* identities (pid, class, address) the game's window may have
          MaxMoves,  \* moves of windows by the user or the applications
          None

VARIABLES game,      \* [id, rect, keeps]: the game's window, and whether it refuses a resize
          overlay,   \* its frame, or None while it is not mapped
          focused,   \* the overlay has the focus
          mode,      \* "none", "passive" or "interactive": latest_snapshot
          sync,      \* [identity, converged, last]: the synchronizer
          commands,  \* dispatched, not yet carried out
          ticked,    \* the timer has fired since the mode, or the overlay, came up
          together,  \* <<game, frame>> at which a tick found the overlay on it
          moves

vars == <<game, overlay, focused, mode, sync, commands, ticked, together, moves>>

NewSync == [identity |-> None, converged |-> None, last |-> <<>>]

Init ==
    /\ game \in [id : {1}, rect : Rects, keeps : BOOLEAN]
    /\ overlay \in Rects \cup {None}
    /\ focused = FALSE /\ mode = "none" /\ ticked = FALSE
    /\ sync = NewSync /\ commands = <<>>
    /\ together = {}
    /\ moves = 0

------------------------------------------------------------------------------
(* GeometrySynchronizer.                                                   *)

Overlay == 0  \* its address among the commands

\* dispatch_once: the same commands are not sent twice in a row.
DispatchOnce(s, c) ==
    IF s.last = c THEN [sync |-> s, commands |-> <<>>]
    ELSE [sync |-> [s EXCEPT !.last = c], commands |-> c]

MayPull(s) == mode = "interactive" /\ focused /\ s.converged = game.rect

\* Mutant: what was tracked carries over to another window.
Tracked_carrying_over == [sync EXCEPT !.identity = game.id]

\* Another window of the game is another game: nothing carries over.
Tracked == IF sync.identity = game.id THEN sync ELSE [NewSync EXCEPT !.identity = game.id]

\* commands, for windows that are all visible and valid.
Commands ==
    LET s == Tracked
    IN  CASE overlay = None ->
               [sync |-> [s EXCEPT !.converged = None, !.last = <<>>], commands |-> <<>>]
          [] overlay = game.rect ->
               [sync |-> [s EXCEPT !.converged = game.rect, !.last = <<>>], commands |-> <<>>]
          [] overlay \notin {None, game.rect} /\ MayPull(s) ->
               DispatchOnce(s, <<[window |-> game.id, rect |-> overlay]>>)
          [] OTHER -> DispatchOnce(s, <<[window |-> Overlay, rect |-> game.rect]>>)

\* sync_geometry_once: the answers, and the commands that follow from them.
GeometryTick ==
    /\ commands = <<>>
    /\ mode # "none"
    /\ sync' = Commands.sync
    /\ commands' = Commands.commands
    /\ ticked' = TRUE
    /\ together' = IF overlay = game.rect THEN together \cup {<<game.id, overlay>>} ELSE together
    /\ UNCHANGED <<game, overlay, focused, mode, moves>>

\* The compositor; a game may keep its size.  A window that is gone is refused: the
\* bridge ends and starts anew.
Dispatch ==
    /\ commands # <<>>
    /\ LET c == Head(commands)
       IN  IF c.window = game.id \/ (c.window = Overlay /\ overlay # None)
           THEN /\ overlay' = IF c.window = Overlay THEN c.rect ELSE overlay
                /\ game' = IF c.window = game.id /\ ~game.keeps
                             THEN [game EXCEPT !.rect = c.rect] ELSE game
                /\ commands' = Tail(commands)
                /\ UNCHANGED <<focused, mode, sync, ticked>>
           ELSE /\ sync' = NewSync /\ commands' = <<>>
                /\ mode' = "none" /\ ticked' = FALSE /\ focused' = FALSE
                /\ UNCHANGED <<game, overlay>>
    /\ UNCHANGED <<together, moves>>

------------------------------------------------------------------------------
(* The user, the game and the rest of the bridge.                          *)

Move == moves < MaxMoves /\ moves' = moves + 1

MoveGame(r) ==
    /\ Move
    /\ game' = [game EXCEPT !.rect = r]
    /\ UNCHANGED <<overlay, focused, mode, sync, commands, ticked, together>>

MoveOverlay(r) ==
    /\ Move
    /\ overlay # None
    /\ overlay' = r
    /\ UNCHANGED <<game, focused, mode, sync, commands, ticked, together>>

\* The overlay's window closes, or opens anywhere: not within one period of the timer.
OpenOverlay(r) ==
    /\ Move
    /\ overlay = None /\ mode # "none" => ticked
    /\ overlay' = IF overlay = None THEN r ELSE None
    /\ focused' = FALSE /\ ticked' = FALSE
    /\ UNCHANGED <<game, mode, sync, commands, together>>

\* The game is replaced by another window, where it likes.
ReplaceGame(r) ==
    /\ Move
    /\ game.id < MaxGames
    /\ game' = [game EXCEPT !.id = @ + 1, !.rect = r]
    /\ UNCHANGED <<overlay, focused, mode, sync, commands, ticked, together>>

\* reconcile_once or sync_focus_once bring a new snapshot; the overlay is given the
\* focus two focus timers (250 ms) into Interactive, and the user may move it.
Snapshot(m) ==
    /\ commands = <<>>
    /\ m # mode
    /\ m = "interactive" => ticked
    /\ Move
    /\ mode' = m
    /\ ticked' = FALSE
    /\ focused' = (focused /\ m = "interactive")
    /\ UNCHANGED <<game, overlay, sync, commands, together>>

Focus ==
    /\ mode = "interactive" /\ overlay # None
    /\ ~focused => ticked
    /\ Move
    /\ focused' = ~focused
    /\ UNCHANGED <<game, overlay, mode, sync, commands, ticked, together>>

Next ==
    \/ GeometryTick \/ Dispatch
    \/ \E r \in Rects : MoveGame(r) \/ MoveOverlay(r) \/ OpenOverlay(r) \/ ReplaceGame(r)
    \/ \E m \in {"none", "passive", "interactive"} : Snapshot(m)
    \/ Focus

Spec == Init /\ [][Next]_vars

------------------------------------------------------------------------------
(* Properties.                                                             *)

\* The game's window is only ever moved onto an overlay that has once covered this very
\* window where it stands: never onto where an overlay happened to be when it opened over
\* a new game, whatever was replaced, closed, reopened or restarted in between.
PullsTheGameItCovered ==
    \A k \in DOMAIN commands :
      commands[k].window # Overlay => <<commands[k].window, sync.converged>> \in together
==============================================================================
