------------------------------- MODULE Desktop -------------------------------
(***************************************************************************)
(* Parts of the program that meet the desktop and the disk, side by side:  *)
(* the geometry synchronizer of the Hyprland bridge, the Core's event log  *)
(* and the settings files, and what is promised of each.  A variable that  *)
(* two parts name alike is declared once.                                  *)
(***************************************************************************)
EXTENDS Parts

------------------------------------------------------------------------------
CONSTANTS Rects, MaxGames, MaxMoves
VARIABLES game, overlay, focused, mode, sync, commands, ticked, together, moves
Geometry == INSTANCE HyprlandGeometry

\* Hyprland: the synchronizer moves the game's window only if that same window was
\* covered by the overlay before the overlay moved (geometry.rs).
PullsTheGameItCovered == component = "geometry" => Geometry!PullsTheGameItCovered

------------------------------------------------------------------------------
CONSTANTS Games, Places, Modes, Interval, MaxTime, Changes
VARIABLES snapshot, unseen, next_geometry_log, pending_geometry, told, clock
CoreLog == INSTANCE CoreEventLog WITH Rects <- Places, Budgets <- Changes, budget <- steps

\* The Core's log: once the tracker has seen the newest snapshot the log names its game
\* and mode, and a rate-limited move is not forgotten (event_log.rs).
CoreLogIsFaithful == component = "core_log" => CoreLog!CoreLogIsFaithful

------------------------------------------------------------------------------
CONSTANTS FavoritesMax, ListMax, DoneMax, Eras, Offerings, Current, Channels, Kinds,
          StoreBudgets
VARIABLES kind, store_file, memory, save, saver, task, acked, stamps, strayed,
          loaded
Stores == INSTANCE SettingsStores WITH
    file <- store_file, core <- loaded, budget <- steps, Budgets <- StoreBudgets

\* Settings files: a save that was reported survives a power loss, and a save starts from
\* the newest settings (store.rs, widget_store.rs, twitch_prefs.rs, warframe_prefs.rs).
SavesAreSafe == component = "stores" => Stores!SurvivesPowerLoss /\ Stores!NoLostEdit

\* Settings files: the Core's two readers never apply an older file after a newer one.
CoreNeverGoesBack == [][component = "stores" => Stores!CoreGoesOn]_(Stores!vars)
==============================================================================
