------------------------------ MODULE MCDesktop ------------------------------
(***************************************************************************)
(* The parts that meet the desktop and the disk, one at a time, on small   *)
(* instances for TLC: the Core's event log, the two ways to bind           *)
(* shortcuts, the Hyprland bridge, the control centre, notes, settings     *)
(* files, widget layout and the log writer.  A behaviour is one of a       *)
(* single part: `component` says which.  The log writer and the parts of   *)
(* modules Desktop, Lifecycle and Shortcuts have the variables named       *)
(* there; those of another part take the slots x1, x2, ... in the order of *)
(* its module.  What a behaviour does not use stays 0, or as it starts.    *)
(***************************************************************************)
EXTENDS Integers, Sequences, TLC, EventLog, Desktop, Lifecycle, Shortcuts

VARIABLES x1, x2, x3, x4, x5, x6, x7, x8, x9, x10, x11, x12, x13, x14, x15, x16, x17,
          x18, x19, x20, x21

\* The slots from the k-th on, and that they are unused.
From21 == <<x21>>
From20 == <<x20, From21>>
From19 == <<x19, From20>>
From18 == <<x18, From19>>
From17 == <<x17, From18>>
From16 == <<x16, From17>>
From15 == <<x15, From16>>
From14 == <<x14, From15>>
From13 == <<x13, From14>>
From12 == <<x12, From13>>
From1 == <<x1, x2, x3, x4, x5, x6, x7, x8, x9, x10, x11, From12>>
Unused21 == x21 = 0
Unused20 == x20 = 0 /\ Unused21
Unused19 == x19 = 0 /\ Unused20
Unused18 == x18 = 0 /\ Unused19
Unused17 == x17 = 0 /\ Unused18
Unused16 == x16 = 0 /\ Unused17
Unused15 == x15 = 0 /\ Unused16
Unused14 == x14 = 0 /\ Unused15
Unused13 == x13 = 0 /\ Unused14
Unused12 == x12 = 0 /\ Unused13
Unused1 ==
    /\ x1 = 0 /\ x2 = 0 /\ x3 = 0 /\ x4 = 0 /\ x5 = 0
    /\ x6 = 0 /\ x7 = 0 /\ x8 = 0 /\ x9 = 0 /\ x10 = 0 /\ x11 = 0 /\ Unused12

\* The variables of one named part alone, and those that several of them have.
Window == <<game, mode>>
WindowOff == game = 0 /\ mode = 0
GeometryOnly == <<overlay, focused, sync, commands, ticked, together, moves>>
GeometryOff ==
    /\ overlay = 0 /\ focused = 0 /\ sync = 0 /\ commands = 0 /\ ticked = 0
    /\ together = 0 /\ moves = 0
CoreLogOnly == <<snapshot, unseen, next_geometry_log, pending_geometry, told, clock>>
CoreLogOff ==
    /\ snapshot = 0 /\ unseen = 0 /\ next_geometry_log = 0 /\ pending_geometry = 0
    /\ told = 0 /\ clock = 0
PortalOnly == <<portal_pc, returned, buffered, watching, predicted, any, owners,
                activations, closed, reply, owner, names, legacy, asked, request,
                portal_session, missed>>
PortalOff ==
    /\ portal_pc = 0 /\ returned = 0 /\ buffered = 0 /\ watching = 0 /\ predicted = 0
    /\ any = 0 /\ owners = 0 /\ activations = 0 /\ closed = 0 /\ reply = 0
    /\ owner = 0 /\ names = 0 /\ legacy = 0 /\ asked = 0 /\ request = 0
    /\ portal_session = 0 /\ missed = 0
HyprlandOnly == <<desk, tags, keys, globals, authority, bridge, reported, focus, sc,
                  due, lines, calm>>
HyprlandOff ==
    /\ desk = 0 /\ tags = 0 /\ keys = 0 /\ globals = 0 /\ authority = 0 /\ bridge = 0
    /\ reported = 0 /\ focus = 0 /\ sc = 0 /\ due = 0 /\ lines = 0 /\ calm = 0
ControlOnly == <<settings_file, exe, ui, toggle, core, session_units, stop, update>>
ControlOff ==
    /\ settings_file = 0 /\ exe = 0 /\ ui = 0 /\ toggle = 0 /\ core = 0
    /\ session_units = 0 /\ stop = 0 /\ update = 0
StoresOnly == <<kind, store_file, memory, save, saver, loaded, task, acked, stamps,
                strayed>>
StoresOff ==
    /\ kind = 0 /\ store_file = 0 /\ memory = 0 /\ save = 0 /\ saver = 0 /\ loaded = 0
    /\ task = 0 /\ acked = 0 /\ stamps = 0 /\ strayed = 0

Named == <<vars, Window, GeometryOnly, CoreLogOnly, steps, PortalOnly, HyprlandOnly,
           ControlOnly, StoresOnly>>
NamedOff ==
    /\ WindowOff /\ GeometryOff /\ CoreLogOff /\ steps = 0 /\ PortalOff /\ HyprlandOff
    /\ ControlOff /\ StoresOff
allvars == <<component, Named, From1>>

------------------------------------------------------------------------------
(* The instances.  Budgets bound the steps of the users and of the outside *)
(* world in a behaviour; each record is a different mixture of them.       *)

PortalBudget(b, o, c, n) ==
    [binds |-> b, owners |-> o, closes |-> c, presses |-> 1, noise |-> n]
PortalUses == {PortalBudget(2, 2, 1, 1), PortalBudget(1, 1, 1, 3)}

Shortcuts == <<[id |-> "toggle", mods |-> {"logo", "alt"}, key |-> "o"],
               [id |-> "music", mods |-> {"logo", "alt"}, key |-> "m"]>>
Keysyms == (10 :> {"o"}) @@ (11 :> {"m"}) @@ (20 :> {"Shift"}) @@ (21 :> {"Caps_Lock"})
           @@ (22 :> {"Control"}) @@ (23 :> {"Alt"}) @@ (24 :> {"Num_Lock"}) @@ (25 :> {"Super"})
ModifierBits == [shift |-> {20}, lock |-> {21}, control |-> {22}, mod1 |-> {23},
                 mod2 |-> {24}, mod3 |-> {}, mod4 |-> {25}, mod5 |-> {}]
\* On the second keyboard Alt and Meta share a key and no modifier is Super.
Keyboards == {[keys |-> Keysyms, bits |-> ModifierBits],
              [keys |-> [Keysyms EXCEPT ![23] = {"Alt", "Meta"}],
               bits |-> [ModifierBits EXCEPT !.mod4 = {}]]}
SuperAlt == {"mod4", "mod1"}
ModifierStates == {SuperAlt, SuperAlt \cup {"lock", "mod2"}}
RivalGrabs == {[keycode |-> 11, modifiers |-> SuperAlt]}
X11Budget(k, s, r, c, v) ==
    [keys |-> k, states |-> s, repeats |-> r, changes |-> c, rivals |-> v]
X11Budgets == {X11Budget(3, 0, 1, 0, 0), X11Budget(2, 1, 0, 1, 0), X11Budget(0, 0, 0, 1, 1)}

HyprlandBudget(d, u, k, f) == [desktop |-> d, user |-> u, keys |-> k, faults |-> f]
HyprlandUses == {HyprlandBudget(1, 1, 0, 1), HyprlandBudget(0, 1, 1, 1)}

ControlBudget(requests, edits, faults) ==
    [requests |-> requests, edits |-> edits, faults |-> faults]
ControlUses == {ControlBudget(3, 2, 1), ControlBudget(2, 3, 1), ControlBudget(2, 1, 2)}

NotesBudgets == {[edits |-> 3, faults |-> 1]}

Text(id, form) == [id |-> id, form |-> form]
OfferedResources == {<<Text("x", "path"), Text("y", "plain")>>,
                     <<Text("x", "plain"), Text("y", "path"), Text("z", "plain")>>}
CurrentActivities == {Text("d1", "plain"), Text("d2", "plain"), Text("d3", "plain")}
TypedChannels == {Text("p", "decorated"), Text("q", "plain"), Text("q", "illegal")}
FissureEras == <<"lith", "meso", "neo">>
StoreKinds == {"lifecycle", "widgets", "twitch", "warframe"}
StoreUses == {[edits |-> 2, faults |-> 1, crashes |-> 1]}

Widgets == {"session", "clock", "performance", "manual_stopwatch", "media", "notes",
            "warframe_status", "warframe_fissures", "warframe_market", "warframe_sortie",
            "warframe_invasions", "twitch_chat", "discord_voice"}
Positions == ("clock" :> <<1, 1>>) @@ ("warframe_market" :> <<1, 2>>)
             @@ [w \in Widgets |-> <<0, 1>>]
Widths == ("warframe_market" :> 4) @@ [w \in Widgets |-> 0]
Contents == [w \in Widgets |-> 3]
EnabledWidgets == {"session", "warframe_market"}
LayoutBudget(g, m, c, h, f, r) ==
    [gestures |-> g, moves |-> m, clicks |-> c, changes |-> h, faults |-> f, restarts |-> r]
LayoutBudgets == {LayoutBudget(2, 1, 0, 2, 1, 0), LayoutBudget(1, 1, 1, 2, 1, 0),
                  LayoutBudget(1, 0, 1, 2, 0, 1), LayoutBudget(1, 1, 0, 3, 0, 0)}

LogBudget(e, f, r) == [events |-> e, faults |-> f, starts |-> 2, reads |-> r]
LogBudgets == {LogBudget(5, 1, 0), LogBudget(3, 0, 1)}

X11 == INSTANCE X11Shortcuts WITH
    keyboard <- x1, setup <- x2, permit <- x3, auths <- x4, workers <- x5,
    conns <- x6, grabs <- x7, session <- x8, plan <- x9, down <- x10, state <- x11,
    grabbed <- x12, repeating <- x13, events <- x14, pressed <- x15, pending <- x16,
    clock <- x17, outcome <- x18, told <- x19, strays <- x20, budget <- x21,
    Definitions <- Shortcuts, Keyboards <- Keyboards, Foreign <- RivalGrabs,
    States <- ModifierStates, Attempts <- 2, Budgets <- X11Budgets
NotesPad == INSTANCE Notes WITH
    svc <- x1, slot <- x2, wake <- x3, shutdown <- x4, worker <- x5, ui <- x6,
    widget <- x7, disk <- x8, typed <- x9, missed <- x10, budget <- x11,
    Texts <- {"a", "b"}, PageMax <- 2, ItemMax <- 2, Budgets <- NotesBudgets
Layout == INSTANCE WidgetLayout WITH
    snapshot <- x1, manager <- x2, profile <- x3, stored <- x4, about <- x5,
    pointer <- x6, grips <- x7, drawn <- x8, areas <- x9, painted <- x10,
    budget <- x11, DefaultPosition <- Positions, DefaultWidth <- Widths,
    Content <- Contents, Enabled <- EnabledWidgets, Warframe <- TRUE, Margin <- 1,
    MinWidth <- 3, MaxWidth <- 6, Viewports <- {12, 14}, Deltas <- {-2, 3},
    Budgets <- LayoutBudgets

------------------------------------------------------------------------------
X11Init == component = "x11" /\ X11!Init /\ NamedOff
NotesPadInit == component = "notes" /\ NotesPad!Init /\ NamedOff /\ Unused12
LayoutInit == component = "layout" /\ Layout!Init /\ NamedOff /\ Unused12
GeometryInit ==
    /\ component = "geometry" /\ Geometry!Init
    /\ CoreLogOff /\ steps = 0 /\ PortalOff /\ HyprlandOff /\ ControlOff /\ StoresOff
    /\ Unused1
CoreLogInit ==
    /\ component = "core_log" /\ CoreLog!Init
    /\ GeometryOff /\ PortalOff /\ HyprlandOff /\ ControlOff /\ StoresOff /\ Unused1
PortalInit ==
    /\ component = "portal" /\ Portal!Init
    /\ WindowOff /\ GeometryOff /\ CoreLogOff /\ HyprlandOff /\ ControlOff
    /\ StoresOff /\ Unused1
HyprlandInit ==
    /\ component = "hyprland" /\ Hyprland!Init
    /\ WindowOff /\ GeometryOff /\ CoreLogOff /\ PortalOff /\ ControlOff /\ StoresOff
    /\ Unused1
ControlInit ==
    /\ component = "control" /\ Control!Init
    /\ WindowOff /\ GeometryOff /\ CoreLogOff /\ PortalOff /\ HyprlandOff /\ StoresOff
    /\ Unused1
StoresInit ==
    /\ component = "stores" /\ Stores!Init
    /\ WindowOff /\ GeometryOff /\ CoreLogOff /\ PortalOff /\ HyprlandOff
    /\ ControlOff /\ Unused1
LogInit == component = "log" /\ NamedOff /\ Unused1
X11Next ==
    component = "x11" /\ X11!Next /\ UNCHANGED <<component, Named>>
NotesPadNext ==
    component = "notes" /\ NotesPad!Next /\ UNCHANGED <<component, Named, From12>>
LayoutNext ==
    component = "layout" /\ Layout!Next /\ UNCHANGED <<component, Named, From12>>
GeometryNext ==
    component = "geometry" /\ Geometry!Next
    /\ UNCHANGED <<component, vars, CoreLogOnly, steps, PortalOnly, HyprlandOnly,
                   ControlOnly, StoresOnly, From1>>
CoreLogNext ==
    component = "core_log" /\ CoreLog!Next
    /\ UNCHANGED <<component, vars, GeometryOnly, PortalOnly, HyprlandOnly,
                   ControlOnly, StoresOnly, From1>>
PortalNext ==
    component = "portal" /\ Portal!Next
    /\ UNCHANGED <<component, vars, Window, GeometryOnly, CoreLogOnly, HyprlandOnly,
                   ControlOnly, StoresOnly, From1>>
HyprlandNext ==
    component = "hyprland" /\ Hyprland!Next
    /\ UNCHANGED <<component, vars, Window, GeometryOnly, CoreLogOnly, PortalOnly,
                   ControlOnly, StoresOnly, From1>>
ControlNext ==
    component = "control" /\ Control!Next
    /\ UNCHANGED <<component, vars, Window, GeometryOnly, CoreLogOnly, PortalOnly,
                   HyprlandOnly, StoresOnly, From1>>
StoresNext ==
    component = "stores" /\ Stores!Next
    /\ UNCHANGED <<component, vars, Window, GeometryOnly, CoreLogOnly, PortalOnly,
                   HyprlandOnly, ControlOnly, From1>>
LogNext ==
    component = "log" /\ Next
    /\ UNCHANGED <<component, Window, GeometryOnly, CoreLogOnly, steps, PortalOnly,
                   HyprlandOnly, ControlOnly, StoresOnly, From1>>

MCInit ==
    /\ Init
    /\ \/ X11Init \/ HyprlandInit \/ ControlInit \/ NotesPadInit \/ StoresInit
       \/ LayoutInit \/ CoreLogInit \/ PortalInit \/ GeometryInit \/ LogInit
    /\ component = "log" \/ budget = LogBudget(3, 0, 1)
MCNext ==
    \/ X11Next \/ HyprlandNext \/ ControlNext \/ NotesPadNext \/ StoresNext
    \/ LayoutNext \/ CoreLogNext \/ PortalNext \/ GeometryNext \/ LogNext
MCSpec == MCInit /\ [][MCNext]_allvars

------------------------------------------------------------------------------
(* Properties: those of the modules, said of the part at hand.             *)

\* X11: a bound session holds every grab of the keyboard it was planned for, a bind that
\* was abandoned leaves none behind, and a press activates once however often the key
\* repeats (x11_shortcut.rs).
GrabsAreExact ==
    component = "x11" => X11!BoundMeansHeard /\ X11!AbandonedHoldsNothing /\ X11!OncePerPress

\* Notes: the widget shows the document the service means to save, no accepted edit waits
\* for a wakeup that was lost, and what was typed is kept, also when saves fail and more
\* is typed meanwhile.  One case is excepted, because the code loses an edit in it: the
\* report of a failed save that the next command replaces before it is read
\* (notes/service.rs:149-153, widgets/notes.rs).
NotesAreKept ==
    component = "notes" =>
      NotesPad!WidgetAgrees /\ NotesPad!NoLostWakeup /\ NotesPad!DraftsSurvive

\* Layout: after every frame the profile painted is the one in the file, also when some
\* of the saves of the frame fail (widgets/manager/layout.rs, app.rs).  Settings files:
\* no sequence of offered edits makes settings that the next save refuses.
EditsAreKept ==
    /\ component = "layout" => Layout!ProfileIsStored
    /\ component = "stores" => Stores!EditsStayValid

\* Layout: only a completed gesture or a reset changes the stored geometry, a resize that
\* was interrupted is never taken up again, and a panel that is resized keeps its corner.
GesturesAreOwned ==
    [][component = "layout" => Layout!StoresOnlyDrops /\ Layout!KeepsCorner]_allvars

==============================================================================
