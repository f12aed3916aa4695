----------------------------- MODULE WidgetLayout -----------------------------
(***************************************************************************)
(* Where the overlay's widgets are shown and how dragging and resizing     *)
(* them reaches the settings file: OverlayApp::ui (overlay app.rs), the    *)
(* WidgetManager (widgets/manager), the resize grip (widgets/chrome.rs)    *)
(* and placement.rs.  One action is one egui frame, from the snapshot and  *)
(* the pointer events it starts with to the save it may end with.          *)
(*                                                                         *)
(* Positions and sizes are those of the horizontal axis, in whole units; a *)
(* position in the profile is a ratio <<n, d>> of the free space.  On this *)
(* axis ResizeAxis::Both and ResizeAxis::Horizontal do the same.           *)
(***************************************************************************)
EXTENDS Integers, Sequences, SequencesExt

CONSTANTS None,
          DefaultPosition, \* WidgetId::default_position
          DefaultWidth,    \* WidgetId::default_panel_size, 0 = as wide as the content
          Content,         \* the width of each widget's content
          Enabled,         \* the widgets switched on at first
          Warframe,        \* the game that is played is Warframe
          Margin,          \* WIDGET_MARGIN
          MinWidth, MaxWidth, \* WIDGET_PANEL_MIN, WIDGET_PANEL_MAX
          Viewports,       \* widths of the game
          Deltas,          \* pointer motion in one frame
          Budgets          \* records [gestures, moves, clicks, changes, faults, restarts]

VARIABLES snapshot, \* [mode, game, authority, viewport]: what the frame is made for
          manager,  \* the WidgetManager
          profile,  \* OverlayApp::preferences
          stored,   \* the profile in the file
          about,    \* about_open
          pointer,  \* [down, target, part, whole]: the button, and what egui drags with it;
                    \*   whole is history: every frame since the press was interactive
          grips,    \* egui memory: the widgets whose ResizePointerState has a position
          drawn,    \* egui memory: the grips painted in the last frame
          areas,    \* egui memory: the size of each Area, 0 before its first frame
          painted,  \* where each widget was painted in the last frame, or None
          budget

vars == <<snapshot, manager, profile, stored, about, pointer, grips, drawn, areas,
          painted, budget>>

Ids == {"session", "clock", "performance", "manual_stopwatch", "media", "notes",
        "warframe_status", "warframe_fissures", "warframe_market", "warframe_sortie",
        "warframe_invasions", "twitch_chat", "discord_voice"}

WarframeIds == {"warframe_status", "warframe_fissures", "warframe_market", "warframe_sortie",
                "warframe_invasions"}

Each(x) == [w \in Ids |-> x]
Largest(a, b) == IF a >= b THEN a ELSE b
Clamp(x, low, high) == IF x < low THEN low ELSE IF x > high THEN high ELSE x

NewManager ==
    [measured |-> [mode \in {"passive", "interactive"} |-> Each(0)], anchor |-> Each(None),
     visible |-> {}, catalog |-> FALSE, resize |-> None, interaction |-> TRUE, viewport |-> None]

DefaultSettings(w) ==
    [enabled |-> w \in Enabled, passive |-> TRUE, position |-> DefaultPosition[w],
     width |-> DefaultWidth[w]]

Up == [down |-> FALSE, target |-> None, part |-> "body", whole |-> FALSE]

Init ==
    /\ snapshot \in [mode : {"passive"}, game : {FALSE}, authority : {TRUE}, viewport : Viewports]
    /\ manager = NewManager
    /\ profile = [w \in Ids |-> DefaultSettings(w)]
    /\ stored = profile
    /\ about = FALSE /\ pointer = Up
    /\ grips = {} /\ drawn = {} /\ areas = Each(0)
    /\ painted = Each(None)
    /\ budget \in Budgets

------------------------------------------------------------------------------
(* placement.rs.                                                           *)

AvailableSpace(viewport, size) == Largest(viewport - size - 2 * Margin, 0)

ScreenAxis(viewport, size, ratio) ==
    Margin + (AvailableSpace(viewport, size) * ratio[1]) \div ratio[2]

NormalizedAxis(viewport, size, x) ==
    LET available == AvailableSpace(viewport, size)
    IN  IF available = 0 THEN <<0, 1>> ELSE <<Clamp(x - Margin, 0, available), available>>

ClampTopLeft(viewport, size, x) ==
    Clamp(x, Margin, Largest(viewport - Margin - size, Margin))

------------------------------------------------------------------------------
(* WidgetManager.  m is the manager, p the profile, i the frame's input:   *)
(* [mode, game, authority, viewport, press, part, delta, release, ...].    *)

WidgetVisible(w, i, p) ==
    i.game /\ p[w].enabled /\ (i.mode = "interactive" \/ p[w].passive)

WarframeWidgetVisible(w) == w \in WarframeIds => Warframe

WidgetDraggable(i) == i.game /\ i.mode = "interactive"

EffectivePanelSize(w, p) == IF p[w].width > 0 THEN p[w].width ELSE DefaultWidth[w]

ResizedBy(m, w) == m.resize # None /\ m.resize.id = w

PanelSize(m, w, i, p) ==
    IF i.mode = "interactive" /\ ResizedBy(m, w) THEN m.resize.size
    ELSE Largest(EffectivePanelSize(w, p), 1)

SyncViewport(m, viewport) ==
    IF m.viewport # None /\ m.viewport # viewport
      THEN [m EXCEPT !.anchor = Each(None), !.resize = None, !.viewport = viewport]
      ELSE [m EXCEPT !.viewport = viewport]

\* screen_position, after sync_viewport.
ScreenPosition(m, w, i, p) ==
    LET measured == m.measured[i.mode][w]
        size == IF measured > 1 THEN measured ELSE Largest(EffectivePanelSize(w, p), 1)
    IN  CASE i.mode = "interactive" /\ ResizedBy(m, w) -> m.resize.anchor
          [] ~(i.mode = "interactive" /\ ResizedBy(m, w)) /\ m.anchor[w] # None ->
               ClampTopLeft(i.viewport, IF measured > 1 THEN measured ELSE 1, m.anchor[w])
          [] OTHER -> ScreenAxis(i.viewport, size, p[w].position)

PointerNearResizeGrip(w, ptr) == ptr.target = w /\ ptr.part = "grip"

CanMovePanel(m, w, i, ptr) ==
    /\ m.interaction /\ WidgetDraggable(i)
    /\ ~ResizedBy(m, w) /\ ~PointerNearResizeGrip(w, ptr)

\* egui's Area: painted where it is asked for, moved by a drag, kept inside the
\* margins by the size it had.
AreaShow(w, x, movable, i, ptr, known) ==
    LET mine == movable /\ ptr.target = w
        dragged == mine /\ ptr.down
        at == IF dragged THEN x + i.delta ELSE x
    IN  [position |-> IF known[w] > 0 THEN ClampTopLeft(i.viewport, known[w], at) ELSE at,
         dragged |-> dragged, stopped |-> mine /\ i.release]

\* Mutant: a grip that was not painted for a while goes on with the drag.
MissedRender_resuming(w, s) == FALSE

MissedRender(w, s) == w \in s.grips /\ w \notin drawn

\* resize_grip: a drag that this grip followed in every frame since the press.
ResizeGrip(w, enabled, i, ptr, s) ==
    LET missed == MissedRender(w, s)
        holds == ~missed /\ (w \in s.grips \/ (i.press = w /\ i.part = "grip"))
        mine == ptr.target = w /\ ptr.part = "grip"
    IN  IF ~enabled
          THEN [delta |-> 0, dragging |-> FALSE, stopped |-> FALSE, cancelled |-> FALSE]
          ELSE [delta |-> IF holds /\ mine THEN i.delta ELSE 0,
                dragging |-> holds /\ mine /\ ptr.down,
                stopped |-> holds /\ mine /\ i.release,
                cancelled |-> missed \/ (holds /\ ~mine)]

\* clamp_delta_at_limits and clamp_panel_size_min.
Resized(size, delta) ==
    LET d == IF (size <= MinWidth /\ delta < 0) \/ (size >= MaxWidth /\ delta > 0) THEN 0 ELSE delta
    IN  Clamp(size + d, MinWidth, MaxWidth)

PlacementSaveRequested(dragged, stopped) == ~dragged /\ stopped

\* s is [m, p, save, painted, grips, drawn, areas]; r the Area's response.
FinishDragOnly(s, w, i, size, r) ==
    LET save == PlacementSaveRequested(r.dragged, r.stopped)
    IN  [s EXCEPT !.m.measured[i.mode][w] = size, !.m.visible = @ \cup {w},
                  !.m.anchor[w] = r.position, !.save = @ \/ save,
                  !.p[w].position = IF save THEN NormalizedAxis(i.viewport, size, r.position) ELSE @]

\* The session that a drag of the grip starts or goes on with.
ResizeSession(s, w, i, size, r) ==
    IF s.m.resize # None THEN s.m.resize
    ELSE [id |-> w, anchor |-> r.position, changed |-> FALSE,
          size |-> Largest(IF PanelSize(s.m, w, i, s.p) > 1 THEN PanelSize(s.m, w, i, s.p) ELSE size,
                          MinWidth)]

Pulled(session, w, delta) ==
    IF session.id = w /\ Resized(session.size, delta) # session.size
      THEN [session EXCEPT !.size = Resized(@, delta), !.changed = TRUE] ELSE session

EndResize(s, w, i, stopped, session) ==
    LET done == stopped /\ session.id = w
        saved == done /\ session.changed
    IN  [s EXCEPT !.m.resize = IF done THEN None ELSE session,
                  !.m.anchor[w] = IF saved THEN session.anchor ELSE @,
                  !.p[w].width = IF saved THEN session.size ELSE @,
                  !.p[w].position = IF saved THEN NormalizedAxis(i.viewport, session.size, session.anchor)
                                    ELSE @,
                  !.save = @ \/ saved]

\* apply_resize_grip: the session starts with the drag and ends with it; a tug that
\* changed nothing is not saved.
ApplyResizeGrip(s, w, i, size, r, g) ==
    CASE g.cancelled -> [s EXCEPT !.m.resize = IF ResizedBy(s.m, w) THEN None ELSE @]
      [] ~g.cancelled /\ ~g.dragging /\ ~g.stopped -> s
      [] OTHER -> EndResize(s, w, i, g.stopped, Pulled(ResizeSession(s, w, i, size, r), w, g.delta))

FinishResizablePanel(s, w, i, size, r, g) ==
    LET shown == [s EXCEPT !.m.visible = @ \cup {w}]
        resized == ApplyResizeGrip(shown, w, i, size, r, g)
    IN  IF g.dragging \/ g.stopped \/ g.cancelled THEN resized
        ELSE FinishDragOnly(resized, w, i, size, r)

FinishWidthResizablePanel(s, w, i, size, r, g) == FinishResizablePanel(s, w, i, size, r, g)

------------------------------------------------------------------------------
(* The widgets, painted in the order of OverlayApp::ui.                    *)

Paint(s, w, i, ptr, movable, size) ==
    LET m == SyncViewport(s.m, i.viewport)
        r == AreaShow(w, ScreenPosition(m, w, i, s.p), movable, i, ptr, s.areas)
    IN  [s |-> [s EXCEPT !.m = m, !.painted[w] = r.position, !.areas[w] = size,
                         !.kept = @ \/ (ptr.target = w /\ movable)],
         r |-> r]

\* A widget with finish_drag_only, as wide as its content.
RenderCard(s, w, i, ptr) ==
    LET paint == Paint(s, w, i, ptr, s.m.interaction /\ WidgetDraggable(i), Content[w])
    IN  IF WidgetVisible(w, i, s.p) THEN FinishDragOnly(paint.s, w, i, Content[w], paint.r) ELSE s

\* A panel with a resize grip: as wide as configured, or as its content.  `axes`: what
\* the grip resizes.
RenderPanel(s, w, i, ptr, axes) ==
    LET m == SyncViewport(s.m, i.viewport)
        panel == PanelSize(m, w, i, s.p)
        size == IF panel > 1 THEN panel ELSE Content[w]
        paint == Paint(s, w, i, ptr, CanMovePanel(m, w, i, ptr), size)
        enabled == s.m.interaction /\ i.mode = "interactive"
        g == ResizeGrip(w, enabled, i, ptr, s)
        gripped == [paint.s EXCEPT !.grips = IF g.dragging THEN @ \cup {w} ELSE @ \ {w},
                                   !.drawn = IF enabled THEN @ \cup {w} ELSE @,
                                   !.kept = @ \/ g.dragging]
    IN  IF WidgetVisible(w, i, s.p) /\ WarframeWidgetVisible(w)
          THEN IF axes = "width" THEN FinishWidthResizablePanel(gripped, w, i, size, paint.r, g)
                                 ELSE FinishResizablePanel(gripped, w, i, size, paint.r, g)
          ELSE s

\* What each render function paints: a card, or a panel whose grip resizes its width or
\* both axes.
Card(w) == [id |-> w, grip |-> "none"]
Panel(w, axes) == [id |-> w, grip |-> axes]

RenderSession == Card("session")
RenderClock == Card("clock")
RenderPerformance == Panel("performance", "width")
RenderManualStopwatch == Card("manual_stopwatch")
RenderMedia == Card("media")
RenderNotes == Panel("notes", "both")
RenderTwitch == Panel("twitch_chat", "both")
RenderDiscordVoice == Card("discord_voice")
RenderWarframeStatus == Panel("warframe_status", "width")
RenderWarframeFissures == Panel("warframe_fissures", "both")
RenderWarframeMarket == Panel("warframe_market", "both")
RenderWarframeSortie == Panel("warframe_sortie", "both")
RenderWarframeInvasions == Panel("warframe_invasions", "both")

RenderWarframe ==
    <<RenderWarframeStatus, RenderWarframeFissures, RenderWarframeSortie,
      RenderWarframeInvasions, RenderWarframeMarket>>

PaintOrder ==
    <<RenderSession, RenderClock, RenderPerformance, RenderManualStopwatch, RenderMedia,
      RenderNotes, RenderTwitch, RenderDiscordVoice>> \o RenderWarframe

Render(s, widget, i, ptr) ==
    IF widget.grip = "none" THEN RenderCard(s, widget.id, i, ptr)
                            ELSE RenderPanel(s, widget.id, i, ptr, widget.grip)

RenderAll(start, i, ptr) ==
    FoldLeft(LAMBDA s, widget : Render(s, widget, i, ptr), start, PaintOrder)

------------------------------------------------------------------------------
(* What follows the widgets in the frame: the save of a new geometry, the  *)
(* toolbar of a widget, the library and the about window.                  *)

\* Mutant: a save that fails leaves the change on screen.
Persist_optimistic(f, old, i) == IF i.fails THEN f ELSE [f EXCEPT !.stored = f.s.p]

\* persist_profile_change with handle_catalog_outcome: a save that fails takes the
\* change back.  The stored profile is f.stored.
Persist(f, old, i) == IF i.fails THEN [f EXCEPT !.s.p = old] ELSE [f EXCEPT !.stored = f.s.p]

ClearRuntimeGeometry(m) ==
    [m EXCEPT !.measured = NewManager.measured, !.anchor = Each(None), !.resize = None]

CommitGeometryPreferences(f, i) ==
    LET g == Persist(f, profile, i)
    IN  CASE ~f.s.save -> f
          [] f.s.save /\ i.fails -> [g EXCEPT !.s.m = ClearRuntimeGeometry(@)]
          [] OTHER -> g

ClearRuntimePosition(m, w) == [m EXCEPT !.anchor[w] = None]
ClearRuntimeSize(m, w) == [m EXCEPT !.measured["passive"][w] = 0, !.measured["interactive"][w] = 0]

\* OverlayApp::apply_catalog_action.  The actions that only change how a widget looks
\* (background, scale, layout, which parts are shown) leave this state alone.
ApplyCatalogAction(f, i) ==
    LET w == i.widget
        old == f.s.p
        p == CASE i.click = "disable" -> [old EXCEPT ![w].enabled = FALSE]
               [] i.click = "passive" -> [old EXCEPT ![w].passive = ~@]
               [] i.click = "card" -> [old EXCEPT ![w].enabled = ~@]
               [] i.click = "reset_size" -> [old EXCEPT ![w].width = DefaultWidth[w]]
               [] i.click = "reset_position" -> [old EXCEPT ![w].position = DefaultPosition[w]]
        g == Persist([f EXCEPT !.s.p = p], old, i)
    IN  CASE i.fails \/ i.click \in {"disable", "passive", "card"} -> g
          [] ~i.fails /\ i.click = "reset_position" -> [g EXCEPT !.s.m = ClearRuntimePosition(@, w)]
          [] ~i.fails /\ i.click = "reset_size" -> [g EXCEPT !.s.m = ClearRuntimeSize(@, w)]

ControlsVisible(i) == i.game /\ i.mode = "interactive"

\* paint_widget_controls: the toolbar of the widget under the pointer.
PaintWidgetControls(f, i) ==
    IF /\ i.click \in {"disable", "passive", "reset_size", "reset_position"}
       /\ i.widget \in f.s.m.visible
      THEN ApplyCatalogAction(f, i) ELSE f

WidgetControls(f, i) ==
    IF ControlsVisible(i) /\ ~f.s.m.catalog /\ ~f.about THEN PaintWidgetControls(f, i) ELSE f

\* The bar at the bottom, the library above it and the about window: opening one
\* closes the other, and a click outside the library closes it.
PaintOverlayControls(f, i) ==
    LET open == f.s.m.catalog
    IN  CASE ~ControlsVisible(i) -> f
          [] ControlsVisible(i) /\ i.click = "library" ->
               [f EXCEPT !.s.m.catalog = ~open, !.about = open /\ @]
          [] ControlsVisible(i) /\ i.click = "about" ->
               [f EXCEPT !.about = ~@, !.s.m.catalog = open /\ f.about]
          [] ControlsVisible(i) /\ i.click = "card" /\ open -> ApplyCatalogAction(f, i)
          [] ControlsVisible(i) /\ i.click = "outside" -> [f EXCEPT !.s.m.catalog = FALSE]
          [] ControlsVisible(i) /\ i.click = "close" -> [f EXCEPT !.about = FALSE]
          [] OTHER -> f

WidgetActionsAllowed(catalog, shown) == ~catalog /\ ~shown

SyncInteractionState(m, mode, game, down) ==
    [m EXCEPT !.resize = IF /\ @ # None /\ mode = "interactive" /\ game /\ m.interaction /\ down
                            /\ @.id \in m.visible
                           THEN @ ELSE None,
              !.anchor = IF game THEN @ ELSE Each(None)]

\* OverlayApp::ui without authority or without a game: nothing is painted.
Blank(i, ptr) ==
    [s |-> [m |-> SyncInteractionState(manager, IF i.authority THEN i.mode ELSE "passive", FALSE, ptr.down),
            p |-> profile, save |-> FALSE, painted |-> Each(None), grips |-> grips, drawn |-> {},
            areas |-> areas, kept |-> FALSE],
     stored |-> stored, about |-> FALSE]

Ui(i, ptr) ==
    LET shown == about /\ ControlsVisible(i)
        m == [manager EXCEPT !.visible = {},
                             !.interaction = WidgetActionsAllowed(manager.catalog, shown)]
        s == RenderAll([m |-> m, p |-> profile, save |-> FALSE, painted |-> Each(None),
                        grips |-> grips, drawn |-> {}, areas |-> areas, kept |-> FALSE], i, ptr)
        f == PaintOverlayControls(
               WidgetControls(
                 CommitGeometryPreferences([s |-> s, stored |-> stored, about |-> shown], i), i), i)
    IN  IF i.authority /\ i.game
          THEN [f EXCEPT !.s.m = SyncInteractionState(@, i.mode, i.game, ptr.down)]
          ELSE Blank(i, ptr)

------------------------------------------------------------------------------
(* Frames.  egui's pointer (external): the window gets the button only     *)
(* while it is interactive, and egui may keep or give up a drag whose       *)
(* target is not painted or no longer senses drags.                        *)

Still == [press |-> None, part |-> "body", delta |-> 0, release |-> FALSE, click |-> "none",
          widget |-> None]

Spent(kind) == [budget EXCEPT ![kind] = @ - 1]

Interactive(n) == n.mode = "interactive" /\ n.game /\ n.authority

\* One call of OverlayApp::ui for snapshot n and pointer events e, whose save, if it
\* makes one, fails or not.
Frame(n, e, left) ==
    \E fails \in {x \in BOOLEAN : x => left.faults > 0} :
      LET i == [mode |-> n.mode, game |-> n.game, authority |-> n.authority,
                viewport |-> n.viewport, press |-> e.press, part |-> e.part, delta |-> e.delta,
                release |-> e.release, click |-> e.click, widget |-> e.widget, fails |-> fails]
          ptr == CASE e.press # None ->
                        [down |-> TRUE, target |-> e.press, part |-> e.part, whole |-> TRUE]
                   [] e.release -> [pointer EXCEPT !.down = FALSE]
                   [] OTHER -> [pointer EXCEPT !.whole = @ /\ Interactive(n)]
      IN  /\ snapshot' = n
          /\ \E f \in {Ui(i, ptr)} :
               /\ manager' = f.s.m /\ profile' = f.s.p /\ stored' = f.stored /\ about' = f.about
               /\ pointer' \in CASE e.release -> {Up}
                                 [] ~e.release /\ f.s.kept -> {ptr}
                                 [] OTHER -> {ptr, [ptr EXCEPT !.target = None]}
               /\ grips' = f.s.grips /\ drawn' = f.s.drawn /\ areas' = f.s.areas
               /\ painted' = f.s.painted
          /\ budget' = IF fails THEN [left EXCEPT !.faults = @ - 1] ELSE left

Repaint == Frame(snapshot, Still, budget)

\* A new snapshot: another mode, the game gone or back, the Core lost or found, the
\* game's window resized.
NewSnapshot ==
    /\ budget.changes > 0
    /\ \E mode \in {"passive", "interactive"}, game, authority \in BOOLEAN, v \in Viewports :
         /\ mode = "interactive" => game
         /\ Frame([mode |-> mode, game |-> game, authority |-> authority, viewport |-> v], Still,
                  Spent("changes"))

Reachable == Interactive(snapshot)

Press ==
    /\ Reachable /\ ~pointer.down /\ budget.gestures > 0
    /\ \E w \in manager.visible, part \in {"body", "grip"}, d \in Deltas :
         /\ part = "grip" => w \in drawn
         /\ Frame(snapshot, [Still EXCEPT !.press = w, !.part = part, !.delta = d], Spent("gestures"))

Drag ==
    /\ Reachable /\ pointer.down /\ budget.moves > 0
    /\ \E d \in Deltas : Frame(snapshot, [Still EXCEPT !.delta = d], Spent("moves"))

Release ==
    /\ Reachable /\ pointer.down
    /\ \E d \in Deltas : Frame(snapshot, [Still EXCEPT !.delta = d, !.release = TRUE], budget)

Click ==
    /\ Reachable /\ ~pointer.down /\ budget.clicks > 0
    /\ \E c \in {"library", "about", "card", "outside", "close", "disable", "passive",
                 "reset_size", "reset_position"}, w \in Enabled :
         Frame(snapshot, [Still EXCEPT !.click = c, !.widget = w], Spent("clicks"))

\* The renderer is started again: only the file is left.
Restart ==
    /\ budget.restarts > 0
    /\ budget' = Spent("restarts")
    /\ snapshot' = [snapshot EXCEPT !.mode = "passive", !.game = FALSE, !.authority = FALSE]
    /\ manager' = NewManager /\ profile' = stored /\ about' = FALSE /\ pointer' = Up
    /\ grips' = {} /\ drawn' = {} /\ areas' = Each(0) /\ painted' = Each(None)
    /\ UNCHANGED stored

Next == Repaint \/ NewSnapshot \/ Press \/ Drag \/ Release \/ Click \/ Restart

Spec == Init /\ [][Next]_vars

------------------------------------------------------------------------------
(* Properties.                                                             *)

\* After every frame the profile the widgets are painted from is the one in the file:
\* a drop, a resize and every click in the same frame are saved together or taken
\* back together, whatever the order in which their saves fail.
ProfileIsStored == profile = stored

\* Only a completed gesture or a reset changes the stored geometry of a widget, and its
\* width only a resize that no other mode, and no loss of the game or of the Core,
\* interrupted: however long egui keeps the drag, it is not taken up again (the
\* missed_render of chrome.rs:624) and its late release stores nothing.
StoresOnlyDrops ==
    LET drops(w) == pointer.target = w /\ pointer.down /\ ~pointer'.down
        reset == budget'.clicks < budget.clicks
    IN  \A w \in Ids :
          /\ stored'[w].position # stored[w].position => drops(w) \/ reset
          /\ stored'[w].width # stored[w].width =>
               (drops(w) /\ pointer.part = "grip" /\ pointer.whole) \/ reset

\* A panel that is resized keeps its left edge until the button is up: the Area never
\* takes the gesture over (it only gives way when the panel reaches the far margin).
KeepsCorner ==
    manager.resize # None /\ snapshot' = snapshot =>
      LET w == manager.resize.id
      IN  painted'[w] # None =>
            \/ painted'[w] = manager.resize.anchor
            \/ painted'[w] + areas[w] >= snapshot.viewport - Margin
==============================================================================
