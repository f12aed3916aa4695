-------------------------------- MODULE Parts --------------------------------
(***************************************************************************)
(* What the parts that are described side by side have in common.  They    *)
(* share no state, so a behaviour is one of a single part: `component`     *)
(* says which, and `steps` is what is left of its budget.                  *)
(***************************************************************************)
CONSTANT None
VARIABLES component, steps
==============================================================================
