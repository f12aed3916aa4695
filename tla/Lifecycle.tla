------------------------------ MODULE Lifecycle ------------------------------
(***************************************************************************)
(* The control centre, which switches OverCrow on and off, as one of the   *)
(* parts of the program, and what is promised of it.                       *)
(***************************************************************************)
EXTENDS Parts

CONSTANTS Steam, Manual, Versions, ControlBudgets
VARIABLES settings_file, exe, ui, toggle, core, session_units, stop, update
Control == INSTANCE ControlCenter WITH
    file <- settings_file, worker <- toggle, session <- session_units, budget <- steps,
    Budgets <- ControlBudgets

\* Control centre: when stop_runtime reports success, the settings are disabled, Core is
\* stopped and will not start at the next login, and no renderer or bridge runs.
StopMeansStopped == [][component = "control" => Control!StopsEverything]_(Control!vars)

\* Control centre: while games can be selected the screen shows what the settings file
\* holds, and what is installed is the release that was offered and confirmed.
ControlIsCurrent ==
    component = "control" => Control!SelectionsAgree /\ Control!InstallsTheOffer
==============================================================================
