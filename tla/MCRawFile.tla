----------------------------- MODULE MCRawFile -----------------------------
(***************************************************************************)
(* The unbuffered sink with two threads that log, and one or two that       *)
(* reopen.                                                                  *)
(***************************************************************************)
EXTENDS RawFile, TLC

CONSTANTS t1, t2, r1, r2

TwoThreads   == {t1, t2}
OneReopener  == {r1}
TwoReopeners == {r1, r2}
Symmetry     == Permutations(Threads) \cup Permutations(Reopeners)
NoFaults     == {}
AnyFault     == {"open", "write", "partial"}

=============================================================================
