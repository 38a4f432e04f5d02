------------------------------- MODULE Recipes -------------------------------
(***************************************************************************)
(* What a configuration is: Builder of src/src/config.rs, the recipes that   *)
(* fill one in, src/src/recipe.rs, and the values taken from the             *)
(* environment, src/src/env.rs.  Pure operators.                             *)
(*                                                                         *)
(* A level is its number in the log crate: 1 Error ... 5 Trace.  Formats,    *)
(* paths and facilities make no difference here.                             *)
(***************************************************************************)
EXTENDS Integers, Sequences, FiniteSetsExt

Error == 1   Warn == 2   Info == 3   Debug == 4   Trace == 5
Level == Error..Trace

-----------------------------------------------------------------------------
\* Builder

BuilderDefault == [dynamic |-> FALSE, signals |-> {}, panic_hook |-> FALSE,
                   force_abort |-> FALSE, sinks |-> <<>>]
BuilderNew     == [BuilderDefault EXCEPT !.panic_hook = TRUE]

NoPanicHook(b)       == [b EXCEPT !.panic_hook = FALSE]
ForceAbortOnPanic(b) == [b EXCEPT !.force_abort = TRUE]
Test(b)              == [b EXCEPT !.dynamic = TRUE, !.signals = {}]
Signal(b, s)         == [b EXCEPT !.signals = @ \cup {s}]
AddSink(b, k, level) == [b EXCEPT !.sinks = Append(@, [kind |-> k, level |-> level])]

\* get_max_level starts from Error.
GetMaxLevel(b) == Max({Error} \cup {b.sinks[k].level : k \in 1..Len(b.sinks)})

-----------------------------------------------------------------------------
\* The environment.  A variable is "unset" or has a value.

\* impl_from_env: a value that does not parse gives the default too.
EnvOr(value, Valid, default) == IF value \in Valid THEN value ELSE default

\* For a String an empty value counts, for a PathBuf it does not.
EnvString(value, default) == IF value = "unset" THEN default ELSE value
EnvPath(value, default)   == IF value \in {"unset", ""} THEN default ELSE value

ConsoleTarget(s) ==
    CASE s \in {"stdout", "out", "1"} -> "stdout"
      [] s \in {"stderr", "err", "2"} -> "stderr"
      [] OTHER                        -> "invalid"

-----------------------------------------------------------------------------
\* Recipes.

ConsoleLogger(target, level) == AddSink(BuilderDefault, target, level)
StdoutLogger(level)          == Test(ConsoleLogger("stdout", level))
StderrLogger(level)          == Test(ConsoleLogger("stderr", level))

RawFileLogger(level) == AddSink(Signal(BuilderDefault, "USR1"), "raw", level)
SplitErrorFileLogger(level) ==
    AddSink(AddSink(Signal(BuilderDefault, "USR1"), "raw", level), "raw", Error)
BufferedFileLogger(level) == AddSink(Signal(BuilderDefault, "USR1"), "buf", level)
SyslogLocal(level)        == AddSink(BuilderDefault, "syslog", level)
RingFileLogger(level) ==
    [AddSink(Signal(BuilderDefault, "HUP"), "ring", level) EXCEPT !.dynamic = TRUE]

EnvLogger(file, levelVar) ==
    LET level == EnvOr(levelVar, Level, Info) IN
    Test(CASE ConsoleTarget(file) # "invalid" -> ConsoleLogger(ConsoleTarget(file), level)
           [] ConsoleTarget(file) = "invalid" /\ EnvPath(file, "") # "" -> RawFileLogger(level)
           [] OTHER -> ConsoleLogger("stderr", level))

=============================================================================
