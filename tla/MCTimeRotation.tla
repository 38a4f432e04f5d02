--------------------------- MODULE MCTimeRotation ---------------------------
(***************************************************************************)
(* TimeRotation over all three policies: periods of two clock ticks, so that  *)
(* several rotations share a period and a duration ends inside one.           *)
(***************************************************************************)
EXTENDS TimeRotation

AllUpkeeps == {"age", "count", "all"}
AgeOnly    == {"age"}

=============================================================================
