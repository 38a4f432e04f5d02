------------------------------ MODULE Archive ------------------------------
(***************************************************************************)
(* What the archive of a rotated log promises, whatever the file names:     *)
(* every generation of the log is archived, in order; the newest Keep of    *)
(* them stay, and of the others the oldest goes first.  A fault (a stop of  *)
(* the process, a failed file operation) costs at most one generation, at   *)
(* once or later, when the copy it left behind is overwritten, and may      *)
(* leave one stray copy that the policy no longer sees.                     *)
(***************************************************************************)
EXTENDS Integers, FiniteSets

CONSTANT Keep   \* generations the retention policy keeps

VARIABLES
    kept,       \* archived generations that can still be read
    newest,     \* the newest generation archived so far
    faults      \* faults so far

Init == kept = {} /\ newest = 0 /\ faults = 0

Add ==
    /\ newest' = newest + 1
    /\ kept' = kept \cup {newest'}
    /\ UNCHANGED faults

Promised == {g \in 1..newest : g > newest - Keep}

\* Faults excuse as many of the promised generations, and of the older ones that stay.
Drop ==
    \E g \in kept :
        /\ kept' = kept \ {g}
        /\ IF g \in Promised THEN Cardinality(Promised \ kept') <= faults
                             ELSE Cardinality({h \in kept : h < g}) <= faults
        /\ UNCHANGED <<newest, faults>>

Fault ==
    /\ faults' = faults + 1
    /\ \/ kept' = kept
       \/ \E g \in kept : kept' = kept \ {g}
    /\ UNCHANGED newest

Next == Add \/ Drop \/ Fault

Spec == Init /\ [][Next]_<<kept, newest, faults>>

=============================================================================
