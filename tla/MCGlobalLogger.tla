--------------------------- MODULE MCGlobalLogger ---------------------------
(***************************************************************************)
(* Instances of GlobalLogger for TLC.                                       *)
(***************************************************************************)
EXTENDS GlobalLogger, TLC

CONSTANTS t1, t2

Config(sinks, level, dynamic, tracing, signals) ==
    [sinks |-> sinks, level |-> level, dynamic |-> dynamic, tracing |-> tracing,
     signals |-> signals, hook |-> signals]

\* What a test suite sets up: two dynamic loggers of different levels, the
\* second with tracing; and a fixed one, as in production.
Quiet1   == Config("quiet", 1, TRUE, FALSE, FALSE)
Verbose  == Config("verbose", 3, TRUE, FALSE, FALSE)
Traced   == Config("verbose", 3, TRUE, TRUE, FALSE)
Fixed    == Config("quiet", 2, FALSE, FALSE, TRUE)

TwoThreads == {t1, t2}

Dynamics == {Quiet1, Verbose}
Tracings == {Verbose, Traced}
All      == {Quiet1, Verbose, Traced, Fixed}
=============================================================================
