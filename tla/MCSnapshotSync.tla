---------------------------- MODULE MCSnapshotSync ----------------------------
(***************************************************************************)
(* SnapshotSync on two small instances for TLC: Escape against changes of  *)
(* the view, and the stopwatch commands, with both kinds of Core.  Beside  *)
(* them every short accelerator is tried on the parsers that must agree on *)
(* it.  The behaviour picks one of the three.                              *)
(***************************************************************************)
EXTENDS SnapshotSync

VARIABLES instance, accelerator

allvars == <<vars, instance, accelerator>>

Escape == INSTANCE SnapshotSync WITH
    Commands <- {"SetPassive"}, LegacyCores <- {FALSE}, MaxSignals <- 1
Widgets == INSTANCE SnapshotSync WITH
    Commands <- {"Reload", "Reset", "Toggle"}
Keys == INSTANCE Accelerators WITH MaxParts <- 5

MCInit ==
    \/ instance = "escape" /\ Escape!Init /\ accelerator = <<>>
    \/ instance = "widgets" /\ Widgets!Init /\ accelerator = <<>>
    \/ instance = "keys" /\ Escape!Init /\ core = Nothing /\ Keys!Init

EscapeNext == instance = "escape" /\ Escape!Next /\ UNCHANGED <<instance, accelerator>>
WidgetsNext == instance = "widgets" /\ Widgets!Next /\ UNCHANGED <<instance, accelerator>>
KeysNext == instance = "keys" /\ Keys!Next /\ UNCHANGED <<instance, vars>>

MCNext == EscapeNext \/ WidgetsNext \/ KeysNext
MCSpec == MCInit /\ [][MCNext]_allvars

\* Every accelerator of up to five parts means the same to the settings, the portal, X11,
\* Hyprland and GNOME, and is recovered from a binding left behind.
AcceleratorsAgree == instance = "keys" => Keys!AcceleratorsAgree
=============================================================================
