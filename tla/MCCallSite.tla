----------------------------- MODULE MCCallSite -----------------------------
(***************************************************************************)
(* CallSite with a plain and an async function and one that boxes its future, *)
(* under a builder with a console and a ring file, and under a recipe.        *)
(***************************************************************************)
EXTENDS CallSite

Ident(l)   == [literal |-> FALSE, value |-> l]
Literal(l) == [literal |-> TRUE, value |-> l]

Plain   == [tokens |-> <<>>, isAsync |-> FALSE, last |-> "expr"]
Async   == [tokens |-> <<Ident(Error)>>, isAsync |-> TRUE, last |-> "expr"]
Boxed   == [tokens |-> <<Ident(Debug), Literal(Warn)>>, isAsync |-> FALSE,
            last |-> "Box::pin(async move)"]
OldTrait == [tokens |-> <<>>, isAsync |-> FALSE, last |-> "Box::pin(other)"]

OneOfEach == {Plain, Boxed, OldTrait}
Boxes     == {Boxed, OldTrait}   \* whatever another can do, these can
AllFns    == {Plain, Async, Boxed, OldTrait}

Shared     == [base |-> "req", wraps |-> <<>>]
Keyed      == [base |-> "req", wraps |-> <<"key", "arc">>]
ArcOfKeyed == [base |-> "req", wraps |-> <<"arc", "key">>]
OnlyKeyed  == {Keyed}
KeyInArc   == {Keyed, ArcOfKeyed}
OneCell    == {"req"}

Debugging == Signal(AddSink(AddSink(BuilderNew, "stdout", Info), "ring", Debug), "HUP")
All        == {ForceAbortOnPanic(Debugging), RingFileLogger(Info)}
RingRecipe == {RingFileLogger(Info)}

\* Whatever the recipe, log::max_level lets through what the sinks ask for and no more,
\* and only a recipe without test() listens for a signal.
Files == {RawFileLogger(l) : l \in Level} \cup {BufferedFileLogger(l) : l \in Level}
            \cup {SplitErrorFileLogger(l) : l \in Level} \cup {RingFileLogger(l) : l \in Level}
Tests == {StdoutLogger(l) : l \in Level} \cup {StderrLogger(l) : l \in Level}
            \cup {EnvLogger(f, l) : f \in {"unset", "", "err", "path"}, l \in 0..6}
ASSUME RecipesAssumption ==
    /\ \A b \in Files \cup Tests \cup {SyslogLocal(l) : l \in Level} :
          /\ GetMaxLevel(b) \in {b.sinks[k].level : k \in 1..Len(b.sinks)}
          /\ \A k \in 1..Len(b.sinks) : b.sinks[k].level <= GetMaxLevel(b)
    /\ \A b \in Files : b.signals # {}
    /\ \A b \in Tests : b.signals = {} /\ b.dynamic
    /\ EnvString("", "default") = "" /\ EnvPath("", "default") = "default"

OffOrInfo   == {Off, Info}
OnlyOff     == {Off}
OnlyError == {Error}
OnlyDebug == {Debug}

Symmetry == Permutations(Threads)

=============================================================================
