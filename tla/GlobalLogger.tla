---------------------------- MODULE GlobalLogger ----------------------------
(***************************************************************************)
(* setup_log and the global logger: src/src/log_impl.rs and the Builder of  *)
(* src/src/config.rs.  Several threads may call setup_log, on a logger that *)
(* is absent, fixed or dynamic; a spin lock covers try_setup, and the first *)
(* setup does the rest after it has let the lock go.                        *)
(*                                                                         *)
(* A configuration is a record: the sinks (which also give its level), and  *)
(* the flags of the Builder.                                                *)
(*                                                                         *)
(* LoggerProofs extends this module beside CallSite, hence the names that    *)
(* say setup or logger where one module alone would not need them.           *)
(***************************************************************************)
EXTENDS Integers, FiniteSets

CONSTANTS
    Callers,    \* threads that call setup_log
    Configs,    \* the configurations they may ask for
    NoConfig,   \* GlobalLogger.inner is None
    Faults,     \* "open": open of a sink fails; "logger", "tracing": the
                \* program installs a logger, a tracing dispatcher of its own
    MaxSetups   \* bound: calls of setup_log

Levels == 0..3   \* log's max level: 0 is Off, its value before any setup

ASSUME ConfigsAssumption ==
    /\ Configs \subseteq [sinks : STRING, level : Levels \ {0}, dynamic : BOOLEAN,
                          tracing : BOOLEAN, signals : BOOLEAN, hook : BOOLEAN]
    /\ NoConfig \notin Configs
ASSUME CallersAssumption == "free" \notin Callers
ASSUME FaultsAssumption == Faults \subseteq {"open", "logger", "tracing"}
ASSUME SetupsAssumption == MaxSetups \in Nat

VARIABLES
    pc,           \* thread -> where it is in setup_log
    builder,      \* thread -> the configuration it asks for
    first,        \* thread -> try_setup is about to return Ok(true)
    result,       \* thread -> how its last setup_log ended
    setups,       \* calls of setup_log so far
    lock,         \* GlobalLoggerStatic.lock: its holder, or "free"
    inited,       \* GlobalLoggerStatic.inited
    inner,        \* GlobalLogger.inner: the configuration in force
    checksum,     \* GlobalLogger.config_checksum
    tracingInited,\* GlobalLogger.tracing_inited
    listener,     \* GlobalLogger.signal_listener: the thread was started
    logger,       \* log::set_logger: "none", "ours" or "other"
    logLevel,     \* log::max_level
    dispatcher,   \* tracing's global dispatcher: "none", "ours" or "other"
    hook          \* whether the panic hook is ours

call    == <<builder, first, result, setups>>
shared  == <<inited, inner, checksum, tracingInited, listener>>
process == <<logger, logLevel, dispatcher, hook>>
setupVars == <<pc, call, lock, shared, process>>

\* cal_checksum: everything but tracing_global.
Checksum(c) == [sinks |-> c.sinks, level |-> c.level, dynamic |-> c.dynamic,
                signals |-> c.signals, hook |-> c.hook]

\* get_max_level: the most verbose of the sinks.
MaxLevel(c) == c.level

NoChecksum == [sinks |-> "none", level |-> 0, dynamic |-> FALSE, signals |-> FALSE, hook |-> FALSE]

SetupInit ==
    /\ pc = [t \in Callers |-> "idle"]
    /\ builder = [t \in Callers |-> NoConfig]
    /\ first = [t \in Callers |-> FALSE] /\ result = [t \in Callers |-> "none"]
    /\ setups = 0
    /\ lock = "free" /\ inited = FALSE /\ inner = NoConfig /\ checksum = NoChecksum
    /\ tracingInited = FALSE /\ listener = FALSE
    /\ logger = "none" /\ logLevel = 0 /\ dispatcher = "none" /\ hook = FALSE

Proceed(t, place) == pc' = [pc EXCEPT ![t] = place]

\* try_setup returns an error: the guard is dropped.
Fail(t) == Proceed(t, "unlock") /\ result' = [result EXCEPT ![t] = "err"]

-----------------------------------------------------------------------------
\* setup_log(builder).
CallSetup(t) ==
    /\ pc[t] = "idle" /\ setups < MaxSetups
    /\ \E c \in Configs : builder' = [builder EXCEPT ![t] = c]
    /\ setups' = setups + 1
    /\ first' = [first EXCEPT ![t] = FALSE]
    /\ result' = [result EXCEPT ![t] = "none"]
    /\ Proceed(t, "lock")
    /\ UNCHANGED <<lock, shared, process>>

LockIgnored == TRUE   \* mutant: the exchange is not checked
LockFree    == lock = "free"

\* GlobalLoggerStatic::lock spins until the exchange succeeds.
Lock(t) ==
    /\ pc[t] = "lock" /\ LockFree
    /\ lock' = t
    /\ Proceed(t, "check")
    /\ UNCHANGED <<call, shared, process>>

MayReconfigure(t) == builder[t].dynamic

\* check_the_same.
Check(t) ==
    /\ pc[t] = "check"
    /\ \/ inner = NoConfig /\ Proceed(t, "init") /\ UNCHANGED result
       \/ /\ inner # NoConfig /\ checksum = Checksum(builder[t])
          /\ Proceed(t, "open") /\ UNCHANGED result
       \/ /\ inner # NoConfig /\ checksum # Checksum(builder[t])
          /\ IF MayReconfigure(t) THEN Proceed(t, "build") /\ UNCHANGED result ELSE Fail(t)
    /\ UNCHANGED <<builder, first, setups, lock, shared, process>>

\* The same configuration: open() of its sinks.
OpenSame(t) ==
    /\ pc[t] = "open"
    /\ \/ Proceed(t, "samelevel") /\ UNCHANGED result
       \/ "open" \in Faults /\ Fail(t)
    /\ UNCHANGED <<builder, first, setups, lock, shared, process>>

\* reinit: build_sinks builds and opens every sink.
Build(t) ==
    /\ pc[t] = "build"
    /\ \/ Proceed(t, "set") /\ UNCHANGED result
       \/ "open" \in Faults /\ Fail(t)
    /\ UNCHANGED <<builder, first, setups, lock, shared, process>>

\* Mutant: the checksum is stored before LoggerInner::set is asked.
ChecksumFirst(t) ==
    /\ pc[t] = "set"
    /\ checksum' = Checksum(builder[t])
    /\ IF inner.dynamic
       THEN /\ inner' = builder[t]
            /\ Proceed(t, "level") /\ UNCHANGED result
       ELSE Fail(t) /\ UNCHANGED inner
    /\ UNCHANGED <<builder, first, setups, lock, inited, tracingInited, listener, process>>

\* reinit: LoggerInner::set swaps the sinks of a dynamic logger.
Reinit(t) ==
    /\ pc[t] = "set"
    /\ IF inner.dynamic
       THEN /\ inner' = builder[t]
            /\ checksum' = Checksum(builder[t])
            /\ Proceed(t, "level") /\ UNCHANGED result
       ELSE Fail(t) /\ UNCHANGED <<inner, checksum>>
    /\ UNCHANGED <<builder, first, setups, lock, inited, tracingInited, listener, process>>

\* log::set_max_level, under the lock; a setup that opened the same sinks
\* again skips the tracing.
ResetLogLevel(t) ==
    /\ pc[t] \in {"level", "samelevel"}
    /\ logLevel' = MaxLevel(builder[t])
    /\ Proceed(t, IF builder[t].tracing /\ pc[t] = "level" THEN "tracing" ELSE "unlock")
    /\ result' = [result EXCEPT ![t] = "ok"]
    /\ UNCHANGED <<builder, first, setups, lock, shared, logger, dispatcher, hook>>

\* The first setup: init builds the sinks and stores them.
InitSinks(t) ==
    /\ pc[t] = "init"
    /\ \/ /\ inner' = builder[t]
          /\ checksum' = Checksum(builder[t])
          /\ first' = [first EXCEPT ![t] = TRUE]
          /\ Proceed(t, IF builder[t].tracing THEN "tracing" ELSE "publish")
          /\ UNCHANGED result
       \/ "open" \in Faults /\ Fail(t) /\ UNCHANGED <<inner, checksum, first>>
    /\ UNCHANGED <<builder, setups, lock, inited, tracingInited, listener, process>>

\* init_tracing_global.
Tracing(t) ==
    /\ pc[t] = "tracing"
    /\ IF tracingInited \/ dispatcher # "none"
       THEN Fail(t) /\ UNCHANGED <<tracingInited, dispatcher>>
       ELSE /\ tracingInited' = TRUE
            /\ dispatcher' = "ours"
            /\ Proceed(t, IF first[t] THEN "publish" ELSE "unlock")
            /\ UNCHANGED result
    /\ UNCHANGED <<builder, first, setups, lock, inited, inner, checksum, listener,
                   logger, logLevel, hook>>

Publish(t) ==
    /\ pc[t] = "publish"
    /\ inited' = TRUE
    /\ result' = [result EXCEPT ![t] = "ok"]
    /\ Proceed(t, "unlock")
    /\ UNCHANGED <<builder, first, setups, lock, inner, checksum, tracingInited,
                   listener, process>>

\* Whether try_setup returned Ok(true).  Mutant: setup_log takes any Ok for it.
AnyOk(t) == result[t] = "ok"
FirstOk(t) == result[t] = "ok" /\ first[t]

\* Mutant: an error leaves the lock taken.
UnlockOnSuccess(t) ==
    /\ pc[t] = "unlock"
    /\ lock' = IF result[t] = "ok" THEN "free" ELSE lock
    /\ Proceed(t, IF FirstOk(t) THEN "install" ELSE "idle")
    /\ UNCHANGED <<call, shared, process>>

\* The guard is dropped: try_setup returns.
Unlock(t) ==
    /\ pc[t] = "unlock"
    /\ lock' = "free"
    /\ Proceed(t, IF FirstOk(t) THEN "install" ELSE "idle")
    /\ UNCHANGED <<call, shared, process>>

\* The rest of the first setup, without the lock: log::set_logger, which takes
\* a logger only once,
Install(t) ==
    /\ pc[t] = "install"
    /\ IF logger = "none"
       THEN /\ logger' = "ours"
            /\ Proceed(t, "firstlevel") /\ UNCHANGED result
       ELSE /\ result' = [result EXCEPT ![t] = "err"]
            /\ Proceed(t, "idle") /\ UNCHANGED logger
    /\ UNCHANGED <<builder, first, setups, lock, shared, logLevel, dispatcher, hook>>

\* the level,
FirstLevel(t) ==
    /\ pc[t] = "firstlevel"
    /\ logLevel' = MaxLevel(builder[t])
    /\ Proceed(t, "hook")
    /\ UNCHANGED <<call, lock, shared, logger, dispatcher, hook>>

\* the panic hook,
SetHook(t) ==
    /\ pc[t] = "hook"
    /\ hook' = (hook \/ builder[t].hook)
    /\ Proceed(t, "listen")
    /\ UNCHANGED <<call, lock, shared, logger, logLevel, dispatcher>>

\* and the thread that listens for signals.
Listen(t) ==
    /\ pc[t] = "listen"
    /\ listener' = (listener \/ builder[t].signals)
    /\ Proceed(t, "idle")
    /\ UNCHANGED <<call, lock, inited, inner, checksum, tracingInited, process>>

-----------------------------------------------------------------------------
\* The program, against the notes in the documentation, sets its own logger or
\* its own tracing dispatcher.
OtherLogger ==
    /\ "logger" \in Faults /\ logger = "none"
    /\ logger' = "other"
    /\ UNCHANGED <<pc, call, lock, shared, logLevel, dispatcher, hook>>

OtherDispatcher ==
    /\ "tracing" \in Faults /\ dispatcher = "none"
    /\ dispatcher' = "other"
    /\ UNCHANGED <<pc, call, lock, shared, logger, logLevel, hook>>

SetupStep(t) == \/ Lock(t) \/ Check(t) \/ OpenSame(t) \/ Build(t) \/ Reinit(t) \/ ResetLogLevel(t)
                \/ InitSinks(t) \/ Tracing(t) \/ Publish(t) \/ Unlock(t)
                \/ Install(t) \/ FirstLevel(t) \/ SetHook(t) \/ Listen(t)

SetupNext == \/ \E t \in Callers : CallSetup(t) \/ SetupStep(t)
        \/ OtherLogger \/ OtherDispatcher

SetupSpec == SetupInit /\ [][SetupNext]_setupVars

\* A thread inside setup_log is scheduled; the lock, whose waiters yield, is
\* contended by finitely many calls, so weak fairness is enough.
FairSetupSpec == SetupSpec /\ \A t \in Callers : WF_setupVars(SetupStep(t))

-----------------------------------------------------------------------------
Places == {"idle", "lock", "check", "open", "samelevel", "build", "set", "level", "init", "tracing",
           "publish", "unlock", "install", "firstlevel", "hook", "listen"}

\* Types, with the bounds of the instance.
SetupTypeOK ==
    /\ pc \in [Callers -> Places]
    /\ builder \in [Callers -> Configs \cup {NoConfig}]
    /\ first \in [Callers -> BOOLEAN] /\ result \in [Callers -> {"none", "ok", "err"}]
    /\ setups \in 0..MaxSetups
    /\ lock \in Callers \cup {"free"}
    /\ inited \in BOOLEAN /\ tracingInited \in BOOLEAN /\ listener \in BOOLEAN
    /\ inner \in Configs \cup {NoConfig}
    /\ checksum \in {Checksum(c) : c \in Configs} \cup {NoChecksum}
    /\ logger \in {"none", "ours", "other"} /\ dispatcher \in {"none", "ours", "other"}
    /\ logLevel \in Levels /\ hook \in BOOLEAN

\* log::set_logger() "can only be called once": no two setups get to call it.
InstalledOnce == \A t \in Callers : pc[t] = "install" => logger # "ours"

\* GlobalLogger.inner is written through a &mut that nothing protects from
\* readers: init only runs while no one can reach the logger, and finds it
\* empty, as it asserts.
InitUnseen ==
    \A t \in Callers :
        pc[t] = "init" => inner = NoConfig /\ ~inited /\ logger # "ours" /\ ~listener

\* The checksum is that of the sinks in force, so that the same configuration
\* is recognised and another is not taken for it.
ChecksumInForce == lock = "free" /\ inner # NoConfig => checksum = Checksum(inner)

\* setup_log returns, whatever fails in it: no path keeps the lock.
SetupReturns == \A t \in Callers : (pc[t] # "idle") ~> (pc[t] = "idle")

NobodyInSetup == \A t \in Callers : pc[t] = "idle"

\* "reset the log level": when no setup is under way, log's max level is the
\* level of the sinks in force.
LevelInForce == NobodyInSetup /\ logger = "ours" => logLevel = MaxLevel(inner)

\* "Return the GlobalLogger after initialized.": once a setup_log has returned
\* Ok, get_global_logger returns the logger.
InitializedAfterSetup == (\E t \in Callers : pc[t] = "idle" /\ result[t] = "ok") => inited

\* "subscribe to tracing as global dispatcher": a setup_log with
\* tracing_global that has returned Ok has subscribed.
TracingSubscribed ==
    \A t \in Callers : pc[t] = "idle" /\ result[t] = "ok" /\ builder[t].tracing
                            => dispatcher = "ours"

=============================================================================
