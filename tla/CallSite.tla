------------------------------ MODULE CallSite ------------------------------
(***************************************************************************)
(* The calling side of the logger: functions under #[logfn]                  *)
(* (src/log_helper/src/lib.rs), the logging and assertion macros             *)
(* (src/src/macros.rs), filters whose level others change meanwhile          *)
(* (src/src/filter.rs), the panic hook (src/src/log_impl.rs), and the two     *)
(* sinks that write where they are called: the console                       *)
(* (src/src/console_impl.rs) and the ring file (src/src/ringfile.rs).         *)
(*                                                                         *)
(* Each thread runs user code: it calls, logs, asserts, returns, panics, or  *)
(* has an async call dropped under it.  Every read of a level and every sink *)
(* is a step of its own.  Setup again and a signal may come at any time.      *)
(***************************************************************************)
EXTENDS Recipes, SequencesExt

CONSTANTS
    Threads,      \* threads, each running one task
    Fns,          \* functions with #[logfn]
    Filters,      \* filters the code logs through
    Atomics,      \* the level cells of LogFilter and GlobalFilter
    Builders,     \* configurations the first setup may have been given
    LogLevels,    \* levels of the macros the code uses by itself
    MaxLevels,    \* levels the program may give log::set_max_level
    FilterLevels, \* levels the program may give set_level
    Keep,         \* what one thread's ring holds, in records
    MaxCalls,     \* bound: calls of functions with #[logfn]
    MaxLogs,      \* bound: other uses of a macro
    MaxEvents     \* bound: changes of a level, setups again, signals, failed dumps

Off  == 0
None == [base |-> "none", wraps |-> <<>>]   \* the macros of the log crate

\* A Builder without a sink logs nothing: every step here needs one.
ASSUME BuildersAssumption ==
    \A b \in Builders : /\ b.sinks \in Seq([kind : STRING, level : Level]) /\ b.sinks # <<>>
                        /\ b.panic_hook \in BOOLEAN
ASSUME FiltersAssumption ==
    Filters \subseteq [base : Atomics \cup {"dummy", "none"}, wraps : Seq({"key", "arc"})]
\* log::Level has no Off, log::LevelFilter has.
ASSUME LevelsAssumption ==
    LogLevels \subseteq Level /\ FilterLevels \subseteq Level /\ MaxLevels \subseteq Level \cup {Off}
ASSUME KeepAssumption == Keep \in Nat \ {0, 1}
ASSUME BoundsAssumption == MaxCalls \in Nat

VARIABLES
    config,      \* the Builder in force
    maxLevel,    \* log::max_level
    filterLevel, \* level cell -> its value
    step,        \* thread -> the macro or the hook it is in
    stack,       \* thread -> the #[logfn] calls it is in
    calls,       \* every call so far: its thread, how it ended, and whether the
                 \* level stayed as it was meanwhile
    hist,        \* sink -> thread -> the records it took since it was opened
    file,        \* ring file -> what the last dump wrote, thread by thread
    broken,      \* ring files whose last dump failed: what they hold is unknown
    setup,       \* setup_log of the same configuration, by another thread
    signal,      \* the signal listener
    mark,        \* ring file -> thread -> its records when the signal came
    used,        \* what the bounds count
    exited       \* the process has ended

vars == <<config, maxLevel, filterLevel, step, stack, calls, hist, file, broken, setup, signal,
          mark, used, exited>>
levels  == <<maxLevel, filterLevel>>
events  == <<setup, signal, mark>>
records == <<hist, file, broken>>

Sinks == 1..Len(config.sinks)
Rings == {k \in Sinks : config.sinks[k].kind = "ring"}

-----------------------------------------------------------------------------
\* #[logfn] at compile time.

\* Args::parse: a literal always counts, an identifier if nothing came before it.
ParseArgs(tokens) ==
    LET level == FoldLeft(LAMBDA l, tok : IF tok.literal \/ l = Off THEN tok.value ELSE l,
                          Off, tokens)
    IN  IF level = Off THEN Info ELSE level

\* process_async_trait: which block, if not the whole body, is the async one.
ProcessAsyncTrait(fn) ==
    CASE fn.isAsync                  -> "none"
      [] fn.last = "Box::pin(async move)" -> "block"
      [] fn.last = "Box::pin(other)"      -> "unimplemented"
      [] OTHER                            -> "none"

Compiles(fn) == ParseArgs(fn.tokens) \in Level /\ ProcessAsyncTrait(fn) # "unimplemented"

\* generate_function: an async call can be dropped where it waits.
AsyncContext(fn) == fn.isAsync \/ ProcessAsyncTrait(fn) = "block"

\* Where a return in the body leads: the body is a closure or an async block of its
\* own, so the code after it runs.  Mutant: it is the function's body itself.
ReturnsFromFn(early) == IF early THEN "return" ELSE "max"
AfterBody(early)     == "max"

-----------------------------------------------------------------------------
\* Filters.

\* is_enabled; KeyFilter, Arc and & ask what they wrap.  Mutant: a strict comparison.
BelowLevel(f, level) == f.base \in {"dummy", "none"} \/ level < filterLevel[f.base]
IsEnabled(f, level)  == f.base \in {"dummy", "none"} \/ level <= filterLevel[f.base]

\* _private_api_log: a KeyFilter adds its key; the default of Arc<T> does not.
HasKey(f) == f.wraps # <<>> /\ Head(f.wraps) = "key"

Record(what, id, level, f) == [what |-> what, id |-> id, level |-> level, key |-> HasKey(f)]

-----------------------------------------------------------------------------
\* A thread in a macro: first the two levels, then the sinks in order, then `then`.

NoRecord == Record("none", 0, Off, None)
Idle == [at |-> "run", k |-> 1, rec |-> NoRecord, filter |-> None, then |-> "run",
         asserted |-> FALSE, cleared |-> FALSE]

Emit(t, at, r, f, then) ==
    step' = [step EXCEPT ![t] = [@ EXCEPT !.at = at, !.k = 1, !.rec = r, !.filter = f,
                                          !.then = then]]
Goto(t, at) ==
    step' = [step EXCEPT ![t] = IF at = "run" THEN Idle ELSE [@ EXCEPT !.at = at, !.k = 1]]

Init ==
    /\ config \in Builders
    /\ maxLevel = GetMaxLevel(config)
    /\ filterLevel = [a \in Atomics |-> Trace]
    /\ step = [t \in Threads |-> Idle]
    /\ stack = [t \in Threads |-> <<>>]
    /\ calls = <<>>
    /\ hist = [k \in Sinks |-> [t \in Threads |-> <<>>]]
    /\ file = [k \in Rings |-> [t \in Threads |-> <<>>]]
    /\ broken = {}
    /\ setup = [at |-> "idle", k |-> 1]
    /\ signal = [at |-> "idle", k |-> 1, cleared |-> FALSE]
    /\ mark = [k \in Rings |-> [t \in Threads |-> 0]]
    /\ used = [logs |-> 0, events |-> 0]
    /\ exited = FALSE

\* Where a thread is, while there is a process.
At(t, where) == ~exited /\ step[t].at = where
Running(t)   == At(t, "run")

\* do_log_filter, and the macros of log: STATIC_MAX_LEVEL is Trace.
CheckMaxLevel(t) ==
    /\ At(t, "max")
    /\ LET s == step[t] IN
       IF s.rec.level > maxLevel
       THEN Goto(t, s.then)
       ELSE step' = [step EXCEPT ![t].at = IF s.filter.base = "none" THEN "sink" ELSE "filter",
                                 ![t].asserted = s.rec.what = "assert"]
    /\ UNCHANGED <<config, levels, stack, calls, records, events, used, exited>>

CheckFilter(t) ==
    /\ At(t, "filter")
    /\ Goto(t, IF IsEnabled(step[t].filter, step[t].rec.level) THEN "sink" ELSE step[t].then)
    /\ UNCHANGED <<config, levels, stack, calls, records, events, used, exited>>

\* GlobalLogger::log: the next sink formats and writes the record if its level allows.
Sink(t) ==
    /\ At(t, "sink")
    /\ LET k == step[t].k  r == step[t].rec IN
       /\ hist' = IF r.level <= config.sinks[k].level
                  THEN [hist EXCEPT ![k][t] = Append(@, r)] ELSE hist
       /\ IF k < Len(config.sinks) THEN step' = [step EXCEPT ![t].k = k + 1]
                                   ELSE Goto(t, step[t].then)
    /\ UNCHANGED <<config, levels, stack, calls, file, broken, events, used, exited>>

-----------------------------------------------------------------------------
\* User code.

InBody(t)  == stack[t] # <<>> /\ Last(stack[t]).at = "body"
Top(t)     == Last(stack[t])

Call(t, fn) ==
    /\ Running(t) /\ Compiles(fn) /\ Len(calls) < MaxCalls
    /\ stack[t] = <<>> \/ InBody(t)
    /\ calls' = Append(calls, [thread |-> t, how |-> "open", steady |-> TRUE])
    /\ stack' = [stack EXCEPT ![t] = Append(@, [id |-> Len(calls) + 1, at |-> "begin",
                    level |-> ParseArgs(fn.tokens), async |-> AsyncContext(fn)])]
    /\ UNCHANGED <<config, levels, step, records, events, used, exited>>

\* begin_expr.  An async call may be dropped before it gets here.
Begin(t) ==
    /\ Running(t) /\ stack[t] # <<>> /\ Top(t).at = "begin"
    /\ Emit(t, "max", Record("enter", Top(t).id, Top(t).level, None), None, "run")
    /\ stack' = [stack EXCEPT ![t][Len(stack[t])].at = "body"]
    /\ UNCHANGED <<config, levels, calls, records, events, used, exited>>

\* The body ends, by its last expression or by a return before it; then end_expr.
Leave(t, early) ==
    /\ Running(t) /\ InBody(t)
    /\ Emit(t, AfterBody(early), Record("return", Top(t).id, Top(t).level, None), None, "return")
    /\ UNCHANGED <<config, levels, stack, calls, records, events, used, exited>>

Ended(t, n, how) ==
    /\ stack' = [stack EXCEPT ![t] = SubSeq(@, 1, n)]
    /\ calls' = [c \in DOMAIN calls |->
                    IF \E d \in (n + 1)..Len(stack[t]) : stack[t][d].id = c
                    THEN [calls[c] EXCEPT !.how = how] ELSE calls[c]]

Return(t) ==
    /\ At(t, "return")
    /\ Ended(t, Len(stack[t]) - 1, "returned")
    /\ step' = [step EXCEPT ![t] = Idle]
    /\ UNCHANGED <<config, levels, records, events, used, exited>>

UseMacro(t, what, level, f, then) ==
    /\ Running(t) /\ InBody(t) /\ used.logs < MaxLogs
    /\ Emit(t, "max", Record(what, used.logs + 1, level, f), f, then)
    /\ used' = [used EXCEPT !.logs = @ + 1]
    /\ UNCHANGED <<config, levels, stack, calls, records, events, exited>>

\* logger_error ... logger_trace; and log_println, log_eprintln, which use info.
LoggerLog(t, f, level) == UseMacro(t, "log", level, f, "run")
LogPrintln(t)          == UseMacro(t, "log", Info, None, "run")

\* An assertion, its _eq or its debug_ form fails: an error record, then a panic.
LoggerAssert(t, f) == UseMacro(t, "assert", Error, f, "panic")
LogAssert(t)       == UseMacro(t, "assert", Error, None, "panic")

\* The future of async calls is dropped where they wait: nothing is logged.
Cancel(t, n) ==
    /\ Running(t)
    /\ n \in 0..(Len(stack[t]) - 1)
    /\ \A d \in (n + 1)..Len(stack[t]) : stack[t][d].async
    /\ Ended(t, n, "cancelled")
    /\ UNCHANGED <<config, levels, step, records, events, used, exited>>

-----------------------------------------------------------------------------
\* A panic: panic_hook_log, or panic_hook_force_exit.

\* log_panic hands its record to the logger whatever the levels.
Panic(t) ==
    /\ At(t, "panic")
    /\ IF config.panic_hook
       THEN Emit(t, "sink", Record("panic", step[t].rec.id, Error, None), None, "flush")
       ELSE Goto(t, "unwind")
    /\ UNCHANGED <<config, levels, stack, calls, records, events, used, exited>>

\* RingFile::dump: for each thread the last records its ring holds.  Mutant: nothing.
Newest(seq, n) == SubSeq(seq, Max({1, n - Keep + 1}), n)
NoDump(k) == file[k]
Dump(k)   == [t \in Threads |-> Newest(hist[k][t], Len(hist[k][t]))]

\* LogSinkRingFile::dump: its caller goes on just the same when it fails.  A
\* console has nothing to dump.
DumpSink(k) ==
    \/ /\ k \notin Rings
       /\ UNCHANGED <<file, broken, used>>
    \/ /\ k \in Rings
       /\ file' = [file EXCEPT ![k] = Dump(k)]
       /\ broken' = broken \ {k}
       /\ UNCHANGED used
    \/ /\ k \in Rings /\ used.events < MaxEvents
       /\ broken' = broken \cup {k}
       /\ used' = [used EXCEPT !.events = @ + 1]
       /\ UNCHANGED file

\* GlobalLogger::flush, sink by sink.
Flush(t) ==
    /\ At(t, "flush")
    /\ LET k == step[t].k IN
       /\ DumpSink(k)
       /\ IF k < Len(config.sinks) THEN step' = [step EXCEPT ![t].k = k + 1]
                                   ELSE Goto(t, "unwind")
    /\ UNCHANGED <<config, levels, stack, calls, hist, events, exited>>

\* Up to whoever catches it; the calls on the way never log their return.
Unwind(t, n) ==
    /\ At(t, "unwind")
    /\ n \in 0..(Len(stack[t]) - 1)
    /\ Ended(t, n, "panicked")
    /\ step' = [step EXCEPT ![t] = Idle]
    /\ UNCHANGED <<config, levels, records, events, used, exited>>

\* A panic out of the hook, which force_abort_on_panic asks for, may end the process.
Abort(t) ==
    /\ At(t, "unwind") /\ config.panic_hook /\ config.force_abort
    /\ exited' = TRUE
    /\ UNCHANGED <<config, levels, step, stack, calls, records, events, used>>

-----------------------------------------------------------------------------
\* Levels change, setups come again, signals arrive.

ChangeMaxLevel(l) ==
    /\ maxLevel' = l
    /\ calls' = IF l = maxLevel THEN calls
                ELSE [c \in DOMAIN calls |-> [calls[c] EXCEPT !.steady = @ /\ calls[c].how # "open"]]

SetMaxLevel(l) ==
    /\ ~exited /\ used.events < MaxEvents /\ l # maxLevel
    /\ ChangeMaxLevel(l)
    /\ used' = [used EXCEPT !.events = @ + 1]
    /\ UNCHANGED <<config, filterLevel, step, stack, records, events, exited>>

SetLevel(a, l) ==
    /\ ~exited /\ used.events < MaxEvents /\ l # filterLevel[a]
    /\ filterLevel' = [filterLevel EXCEPT ![a] = l]
    /\ used' = [used EXCEPT !.events = @ + 1]
    /\ UNCHANGED <<config, maxLevel, step, stack, calls, records, events, exited>>

\* try_setup with the checksum in force: open every sink, then reset the level.
SetupAgain ==
    /\ ~exited /\ setup.at = "idle" /\ used.events < MaxEvents
    /\ setup' = [at |-> "open", k |-> 1]
    /\ used' = [used EXCEPT !.events = @ + 1]
    /\ UNCHANGED <<config, levels, step, stack, calls, records, signal, mark, exited>>

\* The ring file clears its buffers; the console does nothing.
OpenSink ==
    /\ ~exited /\ setup.at = "open"
    /\ LET k == setup.k IN
       /\ IF k \in Rings
          THEN /\ hist' = [hist EXCEPT ![k] = [t \in Threads |-> <<>>]]
               /\ mark' = [mark EXCEPT ![k] = [t \in Threads |-> 0]]
               /\ step' = [t \in Threads |-> [step[t] EXCEPT !.cleared = step[t].at # "run"]]
               /\ signal' = [signal EXCEPT !.cleared = @ \/ (signal.at = "exit" /\ signal.k = k)]
          ELSE UNCHANGED <<hist, mark, step, signal>>
       /\ setup' = IF k < Len(config.sinks) THEN [setup EXCEPT !.k = k + 1]
                                            ELSE [at |-> "level", k |-> 1]
    /\ UNCHANGED <<config, levels, stack, calls, file, broken, used, exited>>

ResetLevel ==
    /\ ~exited /\ setup.at = "level"
    /\ ChangeMaxLevel(GetMaxLevel(config))
    /\ setup' = [at |-> "idle", k |-> 1]
    /\ UNCHANGED <<config, filterLevel, step, stack, records, signal, mark, used, exited>>

\* listener_for_signal: reopen, sink by sink.
SignalArrives ==
    /\ ~exited /\ signal.at = "idle" /\ config.signals # {} /\ used.events < MaxEvents
    /\ signal' = [at |-> "reopen", k |-> 1, cleared |-> FALSE]
    /\ mark' = [k \in Rings |-> [t \in Threads |-> Len(hist[k][t])]]
    /\ used' = [used EXCEPT !.events = @ + 1]
    /\ UNCHANGED <<config, levels, step, stack, calls, records, setup, exited>>

\* A console has nothing to reopen; a ring file dumps and then ends the process,
\* whether the dump failed or not.
ReopenSink ==
    /\ ~exited /\ signal.at = "reopen"
    /\ LET k == signal.k IN
       /\ DumpSink(k)
       /\ signal' = CASE k \in Rings              -> [signal EXCEPT !.at = "exit"]
                      [] k \notin Rings /\ k < Len(config.sinks) -> [signal EXCEPT !.k = k + 1]
                      [] OTHER                    -> [signal EXCEPT !.at = "idle"]
    /\ UNCHANGED <<config, levels, step, stack, calls, hist, setup, mark, exited>>

Exit ==
    /\ ~exited /\ signal.at = "exit"
    /\ exited' = TRUE
    /\ UNCHANGED <<config, levels, step, stack, calls, records, events, used>>

-----------------------------------------------------------------------------
Next ==
    \/ \E t \in Threads :
        \/ CheckMaxLevel(t) \/ CheckFilter(t) \/ Sink(t)
        \/ Begin(t) \/ Return(t) \/ Panic(t) \/ Flush(t) \/ Abort(t)
        \/ \E fn \in Fns : Call(t, fn)
        \/ \E early \in BOOLEAN : Leave(t, early)
        \/ \E f \in Filters, l \in LogLevels : LoggerLog(t, f, l)
        \/ \E f \in Filters : LoggerAssert(t, f)
        \/ LogPrintln(t) \/ LogAssert(t)
        \/ \E n \in 0..MaxCalls : Cancel(t, n) \/ Unwind(t, n)
    \/ \E l \in MaxLevels : SetMaxLevel(l)
    \/ \E a \in Atomics, l \in FilterLevels : SetLevel(a, l)
    \/ SetupAgain \/ OpenSink \/ ResetLevel
    \/ SignalArrives \/ ReopenSink \/ Exit

Spec == Init /\ [][Next]_vars

-----------------------------------------------------------------------------
TypeOK ==
    /\ config \in Builders
    /\ maxLevel \in Level \cup {Off}
    /\ filterLevel \in [Atomics -> Level]
    /\ \A t \in Threads :
          /\ step[t].at \in {"run", "max", "filter", "sink", "return", "panic", "flush", "unwind"}
          /\ step[t].k \in Sinks
          /\ Len(stack[t]) <= MaxCalls
    /\ Len(calls) <= MaxCalls
    /\ broken \subseteq Rings
    /\ exited \in BOOLEAN

Consoles == Sinks \ Rings
Place(k, t, what, id) == {i \in DOMAIN hist[k][t] : hist[k][t][i].what = what /\ hist[k][t][i].id = id}

\* The console tells the story of the calls.  A return is logged only by a call that
\* returns, after its enter; if the level stayed as it was during a call that returned,
\* by the end of the body or by a return in the middle of it, both records are there or
\* neither is; and of the calls entered between the two, each has returned there too,
\* unless it panicked or was dropped (generate_function, src/log_helper/src/lib.rs:133).
CallsBracketed ==
    \A k \in Consoles, c \in DOMAIN calls :
        LET t == calls[c].thread
            enter == Place(k, t, "enter", c)
            return == Place(k, t, "return", c)
        IN  /\ return # {} => calls[c].how \in {"open", "returned"}
            /\ calls[c].how = "returned" /\ calls[c].steady =>
                  /\ (enter = {}) <=> (return = {})
                  /\ \A i \in enter, j \in return :
                        /\ i < j
                        /\ \A d \in DOMAIN calls :
                              /\ calls[d].steady /\ calls[d].how \notin {"panicked", "cancelled"}
                              /\ \E p \in Place(k, t, "enter", d) : i < p /\ p < j
                              => \E p \in Place(k, t, "return", d) : i < p /\ p < j

\* The last records of a thread tell why it panics: the assertion's, unless the program
\* turned logging off, and the hook's.
Told(seq, s) ==
    LET n == Len(seq) IN
    /\ n > 0 /\ seq[n].what = "panic" /\ seq[n].id = s.rec.id
    /\ s.asserted => n > 1 /\ seq[n - 1].what = "assert" /\ seq[n - 1].id = s.rec.id

\* When a failed assertion starts to unwind, under the panic hook, every sink has its
\* record and then the panic's, and the ring file on disk has both, whatever level the
\* filters have been set to meanwhile, unless a setup has cleared the ring; the file,
\* unless the last dump of it, by whatever thread, failed.
PanicOnRecord ==
    \A t \in Threads : step[t].at = "unwind" /\ config.panic_hook =>
        /\ \A k \in Consoles : Told(hist[k][t], step[t])
        /\ \A k \in Rings : ~step[t].cleared =>
                Told(hist[k][t], step[t]) /\ (k \in broken \/ Told(file[k][t], step[t]))

\* When the signal ends the process, the ring file holds of every thread what its ring
\* held at some moment since the signal came: no record finished by then is missing.
\* Unless a setup clears the ring after the dump (the file keeps the older records, or a
\* panic meanwhile dumps what has come since), or the last dump failed.
DumpOnExit ==
    exited /\ signal.at = "exit" /\ ~signal.cleared =>
        \A k \in Rings \ broken : signal.k = k => \A t \in Threads :
            \E n \in mark[k][t]..Len(hist[k][t]) :
                file[k][t] = Newest(hist[k][t], n)

\* What src/src/ringfile.rs:48 says of a program debugged with the ring file: an
\* unexpected assertion "will automatically trigger the dump in our panic hook".
AssertionDumps ==
    \A t \in Threads : step[t].at = "unwind" =>
        \A k \in Rings : step[t].cleared \/ file[k][t] # <<>>

\* A record logged through a filter with a key carries the key.
KeyKept ==
    \A t \in Threads : step[t].at = "sink" /\ Contains(step[t].filter.wraps, "key") =>
        step[t].rec.key

=============================================================================
