----------------------------- MODULE MCBufFile -----------------------------
(***************************************************************************)
(* The buffered sink with a channel of two messages, lines of one and three *)
(* bytes, and a buffer of two or three.                                     *)
(***************************************************************************)
EXTENDS BufFile, TLC

CONSTANTS t1, t2

OneThread  == {t1}
TwoThreads == {t1, t2}
Symmetry   == Permutations(Threads)
Mixed      == {1, 3}
Short      == {1}
NoLimit    == {}
BySize     == {"size"}
ByAge      == {"age"}
NoFaults   == {}
Opens      == {"open"}
Failures   == {"open", "write"}
Never      == {FALSE}
Always     == {TRUE}
AnyFault   == {"open", "write", "clock"}

=============================================================================
