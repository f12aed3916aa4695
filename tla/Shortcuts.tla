------------------------------ MODULE Shortcuts ------------------------------
(***************************************************************************)
(* How shortcuts are bound, by the portal and on Hyprland, where the       *)
(* bridge also gives the overlay its input: two of the parts of the        *)
(* program, and what is promised of each.                                  *)
(***************************************************************************)
EXTENDS Parts

------------------------------------------------------------------------------
(* overcrow-core/src/shortcut.rs: a session of the portal.                 *)

CONSTANTS BufferMax, PortalBudgets
VARIABLES portal_pc, returned, buffered, watching, predicted, any, owners, activations,
          closed, reply, owner, names, legacy, asked, request, portal_session,
          missed
Portal == INSTANCE PortalBinding WITH
    pc <- portal_pc, session <- portal_session, budget <- steps, Budgets <- PortalBudgets

\* Portal: a binding the broker is told of is one the running portal holds, and every
\* activation of a bound session finds the stream that listens (shortcut.rs).
PortalBindingIsLive == component = "portal" => Portal!PortalBindingIsLive

------------------------------------------------------------------------------
(* overcrow-hyprland/src/bridge.rs: the bridge to Hyprland.                *)

CONSTANTS GameWindows, Overlays, Others, Unreportable, BridgeBudgets
VARIABLES desk, tags, keys, globals, authority, bridge, reported, focus, sc, due, lines, calm
Hyprland == INSTANCE HyprlandBridge WITH
    Games <- GameWindows, core <- authority, b <- bridge, last <- reported,
    events <- lines, budget <- steps, Budgets <- BridgeBudgets

\* Hyprland: at most one window carries the overlay's tag, the bridge owns at most one
\* binding of the accelerator, and a bridge that stopped left neither behind (bridge.rs).
BridgeIsTidy ==
    component = "hyprland" =>
      Hyprland!TaggedIsUnique /\ Hyprland!OneBinding /\ Hyprland!StoppedLeavesNothing

\* Hyprland: a pass of the bridge that began after the user entered Interactive does not
\* end it while the game reported then and the overlay stand, whatever else takes the
\* focus (reconcile.rs, bridge.rs).
InteractiveSurvives == [][component = "hyprland" => Hyprland!KeepsInteractive]_(Hyprland!vars)
==============================================================================
