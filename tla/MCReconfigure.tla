---------------------------- MODULE MCReconfigure ----------------------------
(***************************************************************************)
(* Reconfigure with a buffered and a raw sink whose order the second version *)
(* turns round or shortens, with no sink before them, and with one buffered  *)
(* sink in both versions.                                                    *)
(***************************************************************************)
EXTENDS Reconfigure

Buf(p) == [path |-> p, kind |-> "buf"]
Raw(p) == [path |-> p, kind |-> "raw"]

Turned   == <<<<Buf("a"), Raw("b")>>, <<Raw("b"), Buf("a")>>>>
Rotating == <<<<Buf("a")>>, <<Buf("a")>>>>
Shorter  == <<<<>>, <<Buf("a"), Raw("b")>>, <<Raw("b")>>>>
Dropped  == <<<<Buf("a"), Raw("b")>>, <<Raw("b")>>>>
Both     == {"a", "b"}
OnlyA    == {"a"}

=============================================================================
