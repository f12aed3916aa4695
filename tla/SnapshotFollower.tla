--------------------------- MODULE SnapshotFollower ---------------------------
(***************************************************************************)
(* What a reader of a versioned value is promised: a writer moves the value *)
(* forward, the reader may skip values and may lag, but it never goes back  *)
(* and never shows a value that was not written yet.                        *)
(***************************************************************************)
EXTENDS Naturals

VARIABLES
    written,   \* version of the newest value
    shown      \* version of the value the reader acts on

Init == written \in Nat /\ shown \in Nat /\ shown <= written

Write == /\ written' \in Nat /\ written' >= written
         /\ UNCHANGED shown

Follow == /\ shown' \in Nat /\ shown' >= shown /\ shown' <= written
          /\ UNCHANGED written

Spec == Init /\ [][Write \/ Follow]_<<written, shown>>
=============================================================================
