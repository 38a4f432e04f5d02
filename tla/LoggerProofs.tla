---------------------------- MODULE LoggerProofs ----------------------------
(***************************************************************************)
(* Proofs about the logger as the program meets it, in two parts.           *)
(*                                                                         *)
(* setup_log (GlobalLogger): the one setup that installs the logger, and    *)
(* what the spin lock is worth.                                             *)
(*                                                                         *)
(* The call sites (CallSite): what the enter and return records of logfn    *)
(* calls tell, what is on record when a thread panics, and what a ring sink *)
(* has in its file when the process exits on a signal.                      *)
(***************************************************************************)
EXTENDS CallSite, GlobalLogger, SequenceTheorems, TLAPS

-----------------------------------------------------------------------------
(* setup_log.                                                              *)

\* Under the lock, from the exchange in lock() to the drop of the guard.
Critical == {"check", "open", "samelevel", "build", "set", "level", "init", "tracing",
             "publish", "unlock"}

\* What the first setup does after it has let the lock go.
Installing == {"install", "firstlevel", "hook", "listen"}

\* Who works on the shared state holds the lock.
LockHeld == \A t \in Callers : pc[t] \in Critical => lock = t

\* A thread inside setup_log has a configuration, and a place in it that fits the logger.
InPlace ==
    \A t \in Callers :
        /\ pc[t] # "idle" => builder[t] \in Configs
        /\ pc[t] = "init" => inner = NoConfig
        /\ pc[t] \in {"open", "samelevel", "build", "set", "level", "tracing", "publish"}
                => inner # NoConfig
        /\ pc[t] = "publish" \/ pc[t] \in Installing => first[t]

\* Before the first setup has stored its sinks nobody can reach the logger, and
\* no setup is the first one.
NobodyYet ==
    inner = NoConfig => /\ ~inited /\ logger # "ours" /\ ~listener
                        /\ \A t \in Callers : ~first[t]

\* There is one first setup, and when our logger is installed it is past set_logger.
OneFirst ==
    /\ \A t, u \in Callers : first[t] /\ first[u] => t = u
    /\ logger = "ours" => \A t \in Callers :
            first[t] => pc[t] \in {"idle", "firstlevel", "hook", "listen"}

\* The checksum is that of the sinks from the moment they are stored.
ChecksumStored == inner # NoConfig => checksum = Checksum(inner)

\* The inductive invariant of setup_log.
SetupInv == SetupTypeOK /\ LockHeld /\ InPlace /\ NobodyYet /\ OneFirst /\ ChecksumStored

-----------------------------------------------------------------------------
\* It holds before the first setup.
LEMMA SetupInitInv == SetupInit => SetupInv
<1> SUFFICES ASSUME SetupInit PROVE SetupInv
    OBVIOUS
<1>1. SetupTypeOK
  <2>1. setups \in 0..MaxSetups /\ logLevel \in Levels
    BY SetupsAssumption DEF SetupInit, Levels
  <2>2. checksum \in {Checksum(c) : c \in Configs} \cup {NoChecksum}
    BY DEF SetupInit
  <2>3. pc \in [Callers -> Places] /\ builder \in [Callers -> Configs \cup {NoConfig}]
    BY DEF SetupInit, Places
  <2> QED BY <2>1, <2>2, <2>3 DEF SetupInit, SetupTypeOK
<1>2. LockHeld /\ InPlace /\ NobodyYet /\ OneFirst /\ ChecksumStored
    BY DEF SetupInit, LockHeld, Critical, InPlace, Installing, NobodyYet, OneFirst, ChecksumStored
<1> QED BY <1>1, <1>2 DEF SetupInv

\* What the types are made of.
LEMMA ConfigTypes ==
    ASSUME NEW c \in Configs
    PROVE  /\ MaxLevel(c) \in Levels
           /\ c.dynamic \in BOOLEAN /\ c.signals \in BOOLEAN /\ c.hook \in BOOLEAN
           /\ Checksum(c) \in {Checksum(d) : d \in Configs} \cup {NoChecksum}
           /\ c # NoConfig
BY ConfigsAssumption DEF MaxLevel, Levels

\* Every step of a setup keeps the types.
LEMMA SetupTypeStep == SetupInv /\ [SetupNext]_setupVars => SetupTypeOK'
<1> SUFFICES ASSUME SetupInv, [SetupNext]_setupVars PROVE SetupTypeOK'
    OBVIOUS
<1> USE DEF call, shared, process, Proceed, Fail
<1>1. ASSUME NEW t \in Callers, CallSetup(t) PROVE SetupTypeOK'
    BY <1>1, SetupsAssumption DEF SetupInv, SetupTypeOK, CallSetup, Places
<1>2. ASSUME NEW t \in Callers, Lock(t) \/ Check(t) \/ OpenSame(t) \/ Build(t) \/ Unlock(t)
      PROVE  SetupTypeOK'
    BY <1>2 DEF SetupInv, SetupTypeOK, Lock, Check, OpenSame, Build, Unlock, Places
<1>3. ASSUME NEW t \in Callers, Reinit(t) \/ InitSinks(t) PROVE SetupTypeOK'
  <2>1. builder[t] \in Configs
    BY <1>3 DEF SetupInv, SetupTypeOK, InPlace, Reinit, InitSinks
  <2>2. Checksum(builder[t]) \in {Checksum(d) : d \in Configs} \cup {NoChecksum}
    BY <2>1, ConfigTypes
  <2>3. /\ checksum' \in {checksum, Checksum(builder[t])} /\ inner' \in {inner, builder[t]}
        /\ pc' \in [Callers -> Places] /\ first' \in [Callers -> BOOLEAN]
        /\ result' \in [Callers -> {"none", "ok", "err"}]
    BY <1>3 DEF SetupInv, SetupTypeOK, Reinit, InitSinks, Places
  <2>4. UNCHANGED <<builder, setups, lock, inited, tracingInited, listener, process>>
    BY <1>3 DEF Reinit, InitSinks
  <2> QED BY <2>1, <2>2, <2>3, <2>4 DEF SetupInv, SetupTypeOK
<1>4. ASSUME NEW t \in Callers, ResetLogLevel(t) \/ FirstLevel(t) PROVE SetupTypeOK'
  <2>1. builder[t] \in Configs
    BY <1>4 DEF SetupInv, SetupTypeOK, InPlace, ResetLogLevel, FirstLevel
  <2>2. MaxLevel(builder[t]) \in Levels
    BY <2>1, ConfigTypes
  <2> QED BY <1>4, <2>2 DEF SetupInv, SetupTypeOK, ResetLogLevel, FirstLevel, Places
<1>5. ASSUME NEW t \in Callers, Tracing(t) \/ Publish(t) \/ Install(t) PROVE SetupTypeOK'
  <2>1. CASE Tracing(t)
    <3>1. pc' \in [Callers -> Places] /\ result' \in [Callers -> {"none", "ok", "err"}]
      BY <2>1 DEF SetupInv, SetupTypeOK, Tracing, Fail, Proceed, Places
    <3>2. tracingInited' \in BOOLEAN /\ dispatcher' \in {"none", "ours", "other"}
      BY <2>1 DEF SetupInv, SetupTypeOK, Tracing
    <3>3. UNCHANGED <<builder, first, setups, lock, inited, inner, checksum, listener,
                      logger, logLevel, hook>>
      BY <2>1 DEF Tracing
    <3> QED BY <3>1, <3>2, <3>3 DEF SetupInv, SetupTypeOK
  <2>2. CASE Publish(t)
    BY <2>2 DEF SetupInv, SetupTypeOK, Publish, Places
  <2>3. CASE Install(t)
    BY <2>3 DEF SetupInv, SetupTypeOK, Install, Places
  <2> QED BY <1>5, <2>1, <2>2, <2>3
<1>6. ASSUME NEW t \in Callers, SetHook(t) \/ Listen(t) PROVE SetupTypeOK'
  <2>1. builder[t].hook \in BOOLEAN /\ builder[t].signals \in BOOLEAN
    BY <1>6, ConfigTypes DEF SetupInv, SetupTypeOK, InPlace, SetHook, Listen
  <2> QED BY <1>6, <2>1 DEF SetupInv, SetupTypeOK, SetHook, Listen, Places
<1>7. CASE OtherLogger \/ OtherDispatcher
    BY <1>7 DEF SetupInv, SetupTypeOK, OtherLogger, OtherDispatcher
<1>8. CASE UNCHANGED setupVars
    BY <1>8 DEF SetupInv, SetupTypeOK, setupVars
<1> QED
    BY <1>1, <1>2, <1>3, <1>4, <1>5, <1>6, <1>7, <1>8 DEF SetupNext, SetupStep

\* Steps that leave the sinks, and what the world sees of them, alone.
Shifting(t) == \/ CallSetup(t) \/ Lock(t) \/ Check(t) \/ OpenSame(t) \/ Build(t)
               \/ ResetLogLevel(t) \/ Unlock(t) \/ FirstLevel(t) \/ SetHook(t)

\* Every step of a setup keeps the rest of it.
LEMMA SetupInvStep == SetupInv /\ SetupTypeOK' /\ [SetupNext]_setupVars => SetupInv'
<1> SUFFICES ASSUME SetupInv, SetupTypeOK', [SetupNext]_setupVars
             PROVE  (LockHeld /\ InPlace /\ NobodyYet /\ OneFirst /\ ChecksumStored)'
    BY DEF SetupInv
<1> USE CallersAssumption
<1> USE DEF SetupInv, SetupTypeOK, call, shared, process, Proceed, Fail, Critical, Installing
<1>1. ASSUME NEW t \in Callers, Shifting(t)
      PROVE  (LockHeld /\ InPlace /\ NobodyYet /\ OneFirst /\ ChecksumStored)'
  <2> USE <1>1 DEF Shifting, CallSetup, Lock, Check, OpenSame, Build, ResetLogLevel, Unlock,
                   FirstLevel, SetHook
  <2>1. LockHeld'
    BY DEF LockHeld, LockFree
  <2>2. InPlace'
    BY DEF InPlace, FirstOk
  <2>3. NobodyYet'
    BY DEF NobodyYet
  <2>4. OneFirst'
    BY DEF OneFirst, FirstOk
  <2>5. ChecksumStored'
    BY DEF ChecksumStored
  <2> QED BY <2>1, <2>2, <2>3, <2>4, <2>5
<1>2. ASSUME NEW t \in Callers, Reinit(t)
      PROVE  (LockHeld /\ InPlace /\ NobodyYet /\ OneFirst /\ ChecksumStored)'
  <2>1. builder[t] \in Configs /\ builder[t] # NoConfig
    BY <1>2, ConfigTypes DEF Reinit, InPlace
  <2>2. LockHeld' /\ InPlace'
    BY <1>2, <2>1 DEF Reinit, LockHeld, InPlace
  <2>3. NobodyYet' /\ OneFirst' /\ ChecksumStored'
    BY <1>2, <2>1 DEF Reinit, NobodyYet, OneFirst, ChecksumStored, InPlace
  <2> QED BY <2>2, <2>3
<1>3. ASSUME NEW t \in Callers, InitSinks(t)
      PROVE  (LockHeld /\ InPlace /\ NobodyYet /\ OneFirst /\ ChecksumStored)'
  <2>1. builder[t] \in Configs /\ builder[t] # NoConfig
    BY <1>3, ConfigTypes DEF InitSinks, InPlace
  <2>2. LockHeld'
    BY <1>3 DEF InitSinks, LockHeld
  <2>3. InPlace'
    BY <1>3, <2>1 DEF InitSinks, LockHeld, InPlace
  <2>4. NobodyYet' /\ OneFirst' /\ ChecksumStored'
    BY <1>3, <2>1 DEF InitSinks, NobodyYet, OneFirst, ChecksumStored, InPlace
  <2> QED BY <2>2, <2>3, <2>4
<1>4. ASSUME NEW t \in Callers, Tracing(t) \/ Publish(t)
      PROVE  (LockHeld /\ InPlace /\ NobodyYet /\ OneFirst /\ ChecksumStored)'
  <2>1. LockHeld' /\ InPlace'
    BY <1>4 DEF Tracing, Publish, LockHeld, InPlace
  <2>2. NobodyYet' /\ OneFirst' /\ ChecksumStored'
    BY <1>4 DEF Tracing, Publish, NobodyYet, OneFirst, ChecksumStored, InPlace
  <2> QED BY <2>1, <2>2
<1>5. ASSUME NEW t \in Callers, Install(t) \/ Listen(t)
      PROVE  (LockHeld /\ InPlace /\ NobodyYet /\ OneFirst /\ ChecksumStored)'
  <2>1. LockHeld' /\ InPlace'
    BY <1>5 DEF Install, Listen, LockHeld, InPlace
  <2>2. NobodyYet' /\ OneFirst' /\ ChecksumStored'
    BY <1>5 DEF Install, Listen, NobodyYet, OneFirst, ChecksumStored, InPlace
  <2> QED BY <2>1, <2>2
<1>6. CASE OtherLogger \/ OtherDispatcher
    BY <1>6 DEF OtherLogger, OtherDispatcher, LockHeld, InPlace, NobodyYet, OneFirst, ChecksumStored
<1>7. CASE UNCHANGED setupVars
    BY <1>7 DEF setupVars, LockHeld, InPlace, NobodyYet, OneFirst, ChecksumStored
<1> QED
    BY <1>1, <1>2, <1>3, <1>4, <1>5, <1>6, <1>7 DEF SetupNext, SetupStep, Shifting

\* So it holds throughout.
LEMMA SetupInvariance == SetupSpec => []SetupInv
<1>1. SetupInv /\ [SetupNext]_setupVars => SetupInv'
    BY SetupTypeStep, SetupInvStep
<1> QED BY SetupInitInv, <1>1, PTL DEF SetupSpec

-----------------------------------------------------------------------------
\* Types, for every set of threads and configurations: whatever fails in
\* setup_log, each field keeps its range.
THEOREM SetupTypeCorrect == SetupSpec => []SetupTypeOK
<1>1. SetupInv => SetupTypeOK
    BY DEF SetupInv
<1> QED BY <1>1, SetupInvariance, PTL

\* log::set_logger is called by one setup at most, although it is called
\* without the lock: try_setup returns Ok(true) once.
THEOREM InstalledOnceHolds == SetupSpec => []InstalledOnce
<1>1. SetupInv => InstalledOnce
    BY DEF SetupInv, OneFirst, InPlace, Installing, InstalledOnce
<1> QED BY <1>1, SetupInvariance, PTL

\* GlobalLogger::init, which writes through a &mut, runs while nobody can reach
\* the logger: the spin lock and the test of check_the_same are enough for it.
THEOREM InitUnseenHolds == SetupSpec => []InitUnseen
<1>1. SetupInv => InitUnseen
    BY DEF SetupInv, InPlace, NobodyYet, InitUnseen
<1> QED BY <1>1, SetupInvariance, PTL

\* The checksum that decides between the same configuration and another is that
\* of the sinks in force, after setups that race and fail.
THEOREM ChecksumInForceHolds == SetupSpec => []ChecksumInForce
<1>1. SetupInv => ChecksumInForce
    BY DEF SetupInv, ChecksumStored, ChecksumInForce
<1> QED BY <1>1, SetupInvariance, PTL

-----------------------------------------------------------------------------
(* The call sites.                                                         *)

\* What a logfn call writes.
Own == {"enter", "return"}

\* What a record can be, where a macro can stand, and how a call can end.
Whats  == Own \cup {"none", "log", "assert", "panic"}
Wheres == {"run", "max", "filter", "sink", "return", "panic", "flush", "unwind"}
Hows   == {"open", "returned", "cancelled", "panicked"}

\* The records the variables are made of.
Records == [what : Whats, id : Nat, level : Level \cup {Off}, key : BOOLEAN]
Steps   == [at : Wheres, k : Nat, rec : Records, filter : Filters \cup {None}, then : Wheres,
            asserted : BOOLEAN, cleared : BOOLEAN]
Frames  == [id : Nat, at : {"begin", "body"}, level : Level, async : BOOLEAN]
Calls   == [thread : Threads, how : Hows, steady : BOOLEAN]

\* The types of the variables, sharper than TypeOK where the proofs need it.
Types ==
    /\ config \in Builders /\ maxLevel \in Level \cup {Off} /\ filterLevel \in [Atomics -> Level]
    /\ step \in [Threads -> Steps] /\ stack \in [Threads -> Seq(Frames)]
    /\ calls \in Seq(Calls) /\ Len(calls) <= MaxCalls
    /\ hist \in [Sinks -> [Threads -> Seq(Records)]]
    /\ file \in [Rings -> [Threads -> Seq(Records)]] /\ broken \subseteq Rings
    /\ setup \in [at : {"idle", "open", "level"}, k : Sinks]
    /\ signal \in [at : {"idle", "reopen", "exit"}, k : Sinks, cleared : BOOLEAN]
    /\ mark \in [Rings -> [Threads -> Nat]]
    /\ used \in [logs : Nat, events : Nat] /\ exited \in BOOLEAN
    /\ \A t \in Threads : step[t].k \in Sinks

\* Where a step stands tells which record it is about and where it leads.
Shape(s) ==
    /\ s.at = "run" => ~s.asserted /\ ~s.cleared /\ s.rec.what = "none"
    /\ s.at = "max" => ~s.asserted
    /\ s.at \in {"max", "filter"} => s.k = 1
    /\ s.at \in {"max", "filter", "sink"} =>
          \/ s.rec.what = "enter" /\ s.then = "run" /\ s.at # "filter" /\ s.filter = None
          \/ s.rec.what = "return" /\ s.then = "return" /\ s.at # "filter" /\ s.filter = None
          \/ s.rec.what = "log" /\ s.then = "run"
          \/ s.rec.what = "assert" /\ s.then = "panic" /\ s.rec.level = Error
                /\ (s.at = "max" \/ s.asserted)
          \/ s.rec.what = "panic" /\ s.then = "flush" /\ s.rec.level = Error /\ s.at = "sink"
    /\ s.at = "return" => s.rec.what = "return"
    /\ s.at = "panic"  => s.rec.what = "assert"
    /\ s.at = "flush"  => s.rec.what = "panic"
    /\ s.at = "unwind" => s.rec.what \in {"assert", "panic"}

\* A call that logs its enter or its return is the innermost of its thread.
Framed(t) ==
    step[t].rec.what \in Own =>
        /\ stack[t] # <<>> /\ Top(t).at = "body"
        /\ step[t].rec.id = Top(t).id /\ step[t].rec.level = Top(t).level

\* The stack of a thread holds the calls it has open, outermost first.
Nested(t) ==
    \A a \in 1..Len(stack[t]) :
        /\ stack[t][a].id \in 1..Len(calls) /\ a <= stack[t][a].id
        /\ calls[stack[t][a].id].thread = t /\ calls[stack[t][a].id].how = "open"
        /\ a < Len(stack[t]) => stack[t][a].at = "body"
        /\ \A b \in 1..Len(stack[t]) : b < a => stack[t][b].id < stack[t][a].id

\* A call that has not ended is on the stack of its thread.
Stacked(c) ==
    calls[c].how = "open" =>
        \E a \in 1..Len(stack[calls[c].thread]) : stack[calls[c].thread][a].id = c

\* The steps and the stacks of all threads, and all calls.
Shaped == \A t \in Threads : Shape(step[t]) /\ Framed(t) /\ Nested(t)
Opened == \A c \in 1..Len(calls) : Stacked(c)

-----------------------------------------------------------------------------
\* The record at i of a sink is one of `what` by the call.
IsAt(k, t, i, what, c) ==
    /\ i \in 1..Len(hist[k][t])
    /\ hist[k][t][i].what = what /\ hist[k][t][i].id = c
Has(k, t, what, c) == \E i \in Nat : IsAt(k, t, i, what, c)

\* The innermost call of t has not come to its enter at sink k.
Entering(k, t) ==
    /\ stack[t] # <<>>
    /\ \/ Top(t).at = "begin"
       \/ /\ step[t].rec.what = "enter"
          /\ step[t].at = "max" \/ (step[t].at = "sink" /\ step[t].k <= k)

\* It has come past its return there.
Leaving(k, t) ==
    /\ step[t].rec.what = "return"
    /\ step[t].at = "return" \/ (step[t].at = "sink" /\ k < step[t].k)

\* A record of that level reaches sink k.
Loud(k, level) == level <= maxLevel /\ level <= config.sinks[k].level

\* Of its own records only those of calls before the one that enters.
Known(k, t) ==
    \A i \in 1..Len(hist[k][t]) : hist[k][t][i].what \in Own =>
        /\ hist[k][t][i].id \in 1..Len(calls) /\ calls[hist[k][t][i].id].thread = t
        /\ Entering(k, t) => hist[k][t][i].id < Top(t).id

\* Calls are on record in the order in which they began.
Ascending(k, t) ==
    \A i, p \in Nat, c, d \in Nat :
        IsAt(k, t, i, "enter", c) /\ IsAt(k, t, p, "enter", d) /\ i < p => c < d

\* While the level stays, whether a call is on record at k is decided by it.
EnterLoud(k, t) ==
    \A a \in 1..Len(stack[t]) :
        stack[t][a].at = "body" /\ calls[stack[t][a].id].steady
            /\ ~(a = Len(stack[t]) /\ Entering(k, t))
        => (Has(k, t, "enter", stack[t][a].id) <=> Loud(k, stack[t][a].level))
PassedMax(t) ==
    step[t].at = "sink" /\ step[t].rec.what \in Own /\ calls[step[t].rec.id].steady =>
        step[t].rec.level <= maxLevel
ReturnLoud(k, t) ==
    Leaving(k, t) /\ calls[step[t].rec.id].steady =>
        (Has(k, t, "return", step[t].rec.id) <=> Loud(k, step[t].rec.level))

\* A return on record is that of a call that has returned, or is about to.
ReturnOpen(k, c) ==
    Has(k, calls[c].thread, "return", c) =>
        \/ calls[c].how = "returned"
        \/ calls[c].how = "open" /\ Leaving(k, calls[c].thread)
              /\ step[calls[c].thread].rec.id = c
BothOrNone(k, c) ==
    calls[c].how = "returned" /\ calls[c].steady =>
        (Has(k, calls[c].thread, "enter", c) <=> Has(k, calls[c].thread, "return", c))

\* What was entered between the records of a call has ended, and a call that
\* returned with the level as it was has its return there.
Between(k, t, c) ==
    \A i, j \in Nat : IsAt(k, t, i, "enter", c) /\ IsAt(k, t, j, "return", c) =>
        /\ i < j
        /\ \A d \in 1..Len(calls), p \in Nat : IsAt(k, t, p, "enter", d) /\ i < p /\ p < j =>
              /\ calls[d].how # "open"
              /\ calls[d].how = "returned" /\ calls[d].steady =>
                    \E q \in Nat : IsAt(k, t, q, "return", d) /\ i < q /\ q < j

\* The same of a call that is over, wherever its records are: before its return its enter.
Bracketed ==
    \A k \in Consoles :
        /\ \A t \in Threads : /\ Known(k, t) /\ Ascending(k, t)
                              /\ EnterLoud(k, t) /\ ReturnLoud(k, t)
        /\ \A c \in 1..Len(calls) :
              ReturnOpen(k, c) /\ BothOrNone(k, c) /\ Between(k, calls[c].thread, c)

\* What a thread has in hand passed log::max_level before its sinks.
Quiet == \A t \in Threads : PassedMax(t)

-----------------------------------------------------------------------------
\* A sink whose records of t no setup has cleared since its step began.
Kept(k, t) == k \in Rings => ~step[t].cleared

\* The last record of a sequence.
LastIs(seq, what, id) == Len(seq) > 0 /\ seq[Len(seq)].what = what /\ seq[Len(seq)].id = id

\* From the sink a failed assertion has come to on, its record is the last ...
Asserting(k, t) ==
    /\ step[t].asserted
    /\ \/ step[t].at = "panic"
       \/ step[t].at = "sink" /\ step[t].rec.what = "assert" /\ k < step[t].k
       \/ step[t].at = "sink" /\ step[t].rec.what = "panic" /\ step[t].k <= k

\* ... until the hook adds its own there ...
Hooked(k, t) ==
    \/ step[t].at \in {"flush", "unwind"}
    \/ step[t].at = "sink" /\ step[t].rec.what = "panic" /\ k < step[t].k

\* ... and flushes.
Flushed(k, t) ==
    /\ k \in Rings
    /\ step[t].at = "unwind" \/ (step[t].at = "flush" /\ k < step[t].k)

\* PanicOnRecord, from the assertion that fails to the unwinding.
OnRecord ==
    config.panic_hook => \A t \in Threads, k \in Sinks : Kept(k, t) =>
        /\ Asserting(k, t) => LastIs(hist[k][t], "assert", step[t].rec.id)
        /\ Hooked(k, t)    => Told(hist[k][t], step[t])
        /\ Flushed(k, t)   => k \in broken \/ Told(file[k][t], step[t])

\* The ring file when the signal is about to end the process.
Marked ==
    /\ \A k \in Rings, t \in Threads : mark[k][t] <= Len(hist[k][t])
    /\ signal.at = "exit" =>
          /\ signal.k \in Rings
          /\ ~signal.cleared /\ signal.k \notin broken => \A t \in Threads :
                \E n \in mark[signal.k][t]..Len(hist[signal.k][t]) :
                    file[signal.k][t] = Newest(hist[signal.k][t], n)

\* The inductive invariant of the call sites.
IInv == Types /\ Shaped /\ Opened /\ Quiet /\ Bracketed /\ OnRecord /\ Marked

-----------------------------------------------------------------------------
\* The operators the actions are made of.

\* The sinks of a Builder, and that setting it up again keeps them.
LEMMA SinkTypes ==
    ASSUME Types
    PROVE  /\ config.sinks \in Seq([kind : STRING, level : Level]) /\ Len(config.sinks) \in Nat \ {0}
           /\ 1 \in Sinks /\ Sinks \subseteq Nat /\ Rings \subseteq Sinks
           /\ \A k \in Sinks : config.sinks[k].level \in Level
           /\ config.panic_hook \in BOOLEAN
<1>1. config.sinks \in Seq([kind : STRING, level : Level]) /\ config.sinks # <<>>
      /\ config.panic_hook \in BOOLEAN
    BY BuildersAssumption DEF Types
<1> DEFINE R == [kind : STRING, level : Level]
<1>2. Len(config.sinks) \in Nat \ {0}
    BY <1>1
<1>3. \A k \in Sinks : config.sinks[k] \in R
    BY <1>1, ElementOfSeq DEF Sinks
<1>4. \A k \in Sinks : config.sinks[k].level \in Level
    BY <1>3
<1>5. 1 \in Sinks /\ Sinks \subseteq Nat
    BY <1>2 DEF Sinks
<1>6. Rings \subseteq Sinks
    BY DEF Rings
<1> QED BY <1>1, <1>2, <1>4, <1>5, <1>6

LEMMA SinksStay ==
    ASSUME config' = config
    PROVE  Sinks' = Sinks /\ Rings' = Rings /\ Consoles' = Consoles
BY DEF Sinks, Rings, Consoles

\* The level a Builder gives log::set_max_level.
LEMMA MaxOfLevels ==
    ASSUME NEW S, S \subseteq Level, S # {}
    PROVE  Max(S) \in S /\ \A x \in S : x <= Max(S)
<1>1. \E x \in S : \A y \in S : x >= y
  <2>1. CASE 5 \in S
    BY <2>1 DEF Level, Error, Trace
  <2>2. CASE 5 \notin S /\ 4 \in S
    BY <2>2 DEF Level, Error, Trace
  <2>3. CASE 5 \notin S /\ 4 \notin S /\ 3 \in S
    BY <2>3 DEF Level, Error, Trace
  <2>4. CASE 5 \notin S /\ 4 \notin S /\ 3 \notin S /\ 2 \in S
    BY <2>4 DEF Level, Error, Trace
  <2>5. CASE 5 \notin S /\ 4 \notin S /\ 3 \notin S /\ 2 \notin S
    <3>1. PICK x \in S : TRUE
      OBVIOUS
    <3>2. \A y \in S : y = 1
      BY <2>5 DEF Level, Error, Trace
    <3> QED BY <3>1, <3>2
  <2> QED BY <2>1, <2>2, <2>3, <2>4, <2>5
<1>2. Max(S) \in S /\ \A y \in S : Max(S) >= y
    BY <1>1 DEF Max
<1> QED BY <1>2 DEF Level, Error, Trace

LEMMA MaxLevelType ==
    ASSUME NEW b \in Builders
    PROVE  GetMaxLevel(b) \in Level
<1> DEFINE S == {Error} \cup {b.sinks[k].level : k \in 1..Len(b.sinks)}
<1>1. b.sinks \in Seq([kind : STRING, level : Level])
    BY BuildersAssumption
<1>2. \A k \in 1..Len(b.sinks) : b.sinks[k].level \in Level
  <2> TAKE k \in 1..Len(b.sinks)
  <2>1. b.sinks[k] \in [kind : STRING, level : Level]
    BY <1>1, ElementOfSeq
  <2> QED BY <2>1
<1>3. S \subseteq Level /\ S # {}
    BY <1>2 DEF Level, Error, Trace
<1> HIDE DEF S
<1>4. Max(S) \in Level
    BY <1>3, MaxOfLevels
<1> QED BY <1>4 DEF GetMaxLevel, S

\* The types of what the macros and the sinks pass on.
LEMMA IdleType == Idle \in Steps /\ NoRecord \in Records
<1>1. NoRecord \in Records
    BY DEF NoRecord, Record, HasKey, None, Records, Whats, Own
<1> QED BY <1>1 DEF Idle, Steps, Wheres

LEMMA RecordType ==
    ASSUME NEW what \in Whats, NEW id \in Nat, NEW level \in Level \cup {Off}, NEW f
    PROVE  /\ Record(what, id, level, f) \in Records
           /\ Record(what, id, level, f).what = what /\ Record(what, id, level, f).id = id
           /\ Record(what, id, level, f).level = level
<1>1. HasKey(f) \in BOOLEAN
    BY Zenon DEF HasKey
<1> QED BY <1>1 DEF Record, Records

\* What the steps of a macro do to the step and to nothing else.
LEMMA EmitEffect ==
    ASSUME Types, NEW t \in Threads, NEW at \in Wheres, NEW r \in Records,
           NEW f \in Filters \cup {None}, NEW then \in Wheres, Emit(t, at, r, f, then)
    PROVE  /\ step' \in [Threads -> Steps]
           /\ step'[t].at = at /\ step'[t].k = 1 /\ step'[t].rec = r /\ step'[t].filter = f
           /\ step'[t].then = then
           /\ step'[t].asserted = step[t].asserted /\ step'[t].cleared = step[t].cleared
           /\ \A u \in Threads : u # t => step'[u] = step[u]
           /\ \A u \in Threads : step'[u].k \in Sinks
<1> DEFINE s == [step[t] EXCEPT !.at = at, !.k = 1, !.rec = r, !.filter = f, !.then = then]
<1>1. step[t] \in Steps /\ step \in [Threads -> Steps] /\ 1 \in Sinks
    BY SinkTypes DEF Types
<1>2. /\ s \in Steps /\ s.at = at /\ s.k = 1 /\ s.rec = r /\ s.filter = f /\ s.then = then
      /\ s.asserted = step[t].asserted /\ s.cleared = step[t].cleared
    BY <1>1 DEF Steps
<1>3. step' = [step EXCEPT ![t] = s]
    BY DEF Emit
<1> HIDE DEF s
<1> QED BY <1>1, <1>2, <1>3 DEF Types

LEMMA GotoEffect ==
    ASSUME Types, NEW t \in Threads, NEW at \in Wheres, Goto(t, at)
    PROVE  /\ step' \in [Threads -> Steps]
           /\ at = "run" => step'[t] = Idle
           /\ at # "run" => /\ step'[t].at = at /\ step'[t].k = 1 /\ step'[t].rec = step[t].rec
                            /\ step'[t].filter = step[t].filter /\ step'[t].then = step[t].then
                            /\ step'[t].asserted = step[t].asserted
                            /\ step'[t].cleared = step[t].cleared
           /\ \A u \in Threads : u # t => step'[u] = step[u]
           /\ \A u \in Threads : step'[u].k \in Sinks
<1> DEFINE s == IF at = "run" THEN Idle ELSE [step[t] EXCEPT !.at = at, !.k = 1]
<1>1. step[t] \in Steps /\ step \in [Threads -> Steps] /\ 1 \in Sinks
    BY SinkTypes DEF Types
<1>2. /\ s \in Steps /\ s.k = 1
      /\ at = "run" => s = Idle
      /\ at # "run" => /\ s.at = at /\ s.rec = step[t].rec
                       /\ s.filter = step[t].filter /\ s.then = step[t].then
                       /\ s.asserted = step[t].asserted /\ s.cleared = step[t].cleared
    BY <1>1, IdleType DEF Steps, Idle
<1>3. step' = [step EXCEPT ![t] = s]
    BY DEF Goto
<1> HIDE DEF s
<1> QED BY <1>1, <1>2, <1>3 DEF Types

\* The next sink, or where the round ends.
LEMMA NextSinkEffect ==
    ASSUME Types, NEW t \in Threads, NEW at \in Wheres,
           IF step[t].k < Len(config.sinks) THEN step' = [step EXCEPT ![t].k = step[t].k + 1]
                                            ELSE Goto(t, at)
    PROVE  /\ step' \in [Threads -> Steps]
           /\ \/ /\ step[t].k < Len(config.sinks)
                 /\ step'[t].k = step[t].k + 1 /\ step'[t].at = step[t].at
                 /\ step'[t].rec = step[t].rec
                 /\ step'[t].filter = step[t].filter /\ step'[t].then = step[t].then
                 /\ step'[t].asserted = step[t].asserted /\ step'[t].cleared = step[t].cleared
              \/ step[t].k = Len(config.sinks) /\ Goto(t, at)
           /\ \A u \in Threads : u # t => step'[u] = step[u]
           /\ \A u \in Threads : step'[u].k \in Sinks
<1>1. step[t] \in Steps /\ step \in [Threads -> Steps] /\ step[t].k \in Sinks
    BY DEF Types
<1>2. CASE step[t].k < Len(config.sinks)
  <2> DEFINE s == [step[t] EXCEPT !.k = step[t].k + 1]
  <2>1. step[t].k + 1 \in Nat /\ step[t].k + 1 \in Sinks
    BY <1>1, <1>2, SinkTypes DEF Sinks
  <2>2. /\ s \in Steps /\ s.k = step[t].k + 1 /\ s.at = step[t].at /\ s.rec = step[t].rec
        /\ s.filter = step[t].filter /\ s.then = step[t].then
        /\ s.asserted = step[t].asserted /\ s.cleared = step[t].cleared
    BY <1>1, <2>1 DEF Steps
  <2>3. step' = [step EXCEPT ![t] = s]
    BY <1>2
  <2> HIDE DEF s
  <2> QED BY <1>1, <1>2, <2>1, <2>2, <2>3 DEF Types
<1>3. CASE ~(step[t].k < Len(config.sinks))
  <2>1. Goto(t, at) /\ step[t].k = Len(config.sinks)
    BY <1>1, <1>3, SinkTypes DEF Sinks
  <2> QED BY <2>1, GotoEffect
<1> QED BY <1>2, <1>3

\* What a sink is given.
Wrote(k, t, r) == hist' = [hist EXCEPT ![k][t] = Append(@, r)]

\* A write to one sink by one thread.
LEMMA SinkWrites ==
    ASSUME Types, NEW k \in Sinks, NEW t \in Threads, NEW r \in Records,
           Wrote(k, t, r)
    PROVE  /\ hist' \in [Sinks -> [Threads -> Seq(Records)]]
           /\ hist'[k][t] = Append(hist[k][t], r)
           /\ Len(hist[k][t]) \in Nat /\ Len(hist'[k][t]) = Len(hist[k][t]) + 1
           /\ hist'[k][t][Len(hist[k][t]) + 1] = r
           /\ \A i \in 1..Len(hist[k][t]) : hist'[k][t][i] = hist[k][t][i]
           /\ \A j \in Sinks, u \in Threads : j # k \/ u # t => hist'[j][u] = hist[j][u]
<1> DEFINE h == hist[k][t]
           g == [hist[k] EXCEPT ![t] = Append(h, r)]
<1>1. hist \in [Sinks -> [Threads -> Seq(Records)]] /\ h \in Seq(Records)
    BY DEF Types
<1>2. /\ Append(h, r) \in Seq(Records) /\ Len(h) \in Nat /\ Len(Append(h, r)) = Len(h) + 1
      /\ Append(h, r)[Len(h) + 1] = r /\ \A i \in 1..Len(h) : Append(h, r)[i] = h[i]
    BY <1>1, AppendProperties
<1>3. hist' = [hist EXCEPT ![k] = g]
    BY DEF Wrote
<1>4. g \in [Threads -> Seq(Records)] /\ g[t] = Append(h, r)
      /\ \A u \in Threads : u # t => g[u] = hist[k][u]
    BY <1>1, <1>2
<1> HIDE DEF g
<1>5. hist' \in [Sinks -> [Threads -> Seq(Records)]] /\ hist'[k] = g
      /\ \A j \in Sinks : j # k => hist'[j] = hist[j]
    BY <1>1, <1>3, <1>4
<1> QED BY <1>1, <1>2, <1>4, <1>5

\* A sequence made anew, place by place.
LEMMA SeqOfPlaces ==
    ASSUME NEW S, NEW n \in Nat, NEW f \in [1..n -> S]
    PROVE  f \in Seq(S) /\ Len(f) = n
<1>1. f \in Seq(S)
    OBVIOUS
<1> QED BY <1>1, LenProperties

\* A thread's calls from the (n+1)-th of its stack on end.
LEMMA EndedEffect ==
    ASSUME Types, NEW t \in Threads, NEW n \in 0..(Len(stack[t]) - 1), NEW how \in Hows,
           Ended(t, n, how)
    PROVE  /\ stack' \in [Threads -> Seq(Frames)] /\ Len(stack'[t]) = n
           /\ \A a \in 1..n : stack'[t][a] = stack[t][a]
           /\ \A u \in Threads : u # t => stack'[u] = stack[u]
           /\ calls' \in Seq(Calls) /\ Len(calls') = Len(calls)
           /\ \A c \in 1..Len(calls) :
                 /\ calls'[c].thread = calls[c].thread /\ calls'[c].steady = calls[c].steady
                 /\ \/ /\ \E d \in (n + 1)..Len(stack[t]) : stack[t][d].id = c
                       /\ calls'[c].how = how
                    \/ /\ ~\E d \in (n + 1)..Len(stack[t]) : stack[t][d].id = c
                       /\ calls'[c].how = calls[c].how
<1> DEFINE s == stack[t]  cut == SubSeq(s, 1, n)
           Over(c) == \E d \in (n + 1)..Len(s) : s[d].id = c
<1>1. s \in Seq(Frames) /\ stack \in [Threads -> Seq(Frames)] /\ calls \in Seq(Calls)
    BY DEF Types
<1>2. Len(s) \in Nat /\ n \in Nat /\ n <= Len(s) /\ Len(calls) \in Nat
      /\ DOMAIN calls = 1..Len(calls)
    BY <1>1
<1>3. \A i \in 1..n : s[i] \in Frames
    BY <1>1, <1>2, ElementOfSeq
<1>4. cut \in Seq(Frames) /\ Len(cut) = n /\ \A i \in 1..n : cut[i] = s[i]
    BY <1>2, <1>3, SubSeqProperties
<1>5. stack' = [stack EXCEPT ![t] = cut]
    BY DEF Ended
<1>6. calls' = [c \in 1..Len(calls) |-> IF Over(c) THEN [calls[c] EXCEPT !.how = how] ELSE calls[c]]
    BY <1>2 DEF Ended
<1> HIDE DEF cut, Over
<1>7. ASSUME NEW c \in 1..Len(calls)
      PROVE  /\ calls'[c] \in Calls
             /\ calls'[c].thread = calls[c].thread /\ calls'[c].steady = calls[c].steady
             /\ Over(c) => calls'[c].how = how
             /\ ~Over(c) => calls'[c].how = calls[c].how
  <2>1. calls[c] \in Calls
    BY <1>1, ElementOfSeq
  <2>2. calls'[c] = IF Over(c) THEN [calls[c] EXCEPT !.how = how] ELSE calls[c]
    BY <1>6
  <2> QED BY <2>1, <2>2 DEF Calls
<1>8. calls' \in [1..Len(calls) -> Calls]
  <2>1. DOMAIN calls' = 1..Len(calls)
    BY <1>6
  <2>2. calls' = [c \in 1..Len(calls) |-> calls'[c]]
    BY <1>6, <2>1
  <2> QED BY <1>7, <2>2
<1>9. calls' \in Seq(Calls) /\ Len(calls') = Len(calls)
    BY <1>2, <1>8, SeqOfPlaces
<1>10. stack' \in [Threads -> Seq(Frames)] /\ stack'[t] = cut
       /\ \A u \in Threads : u # t => stack'[u] = stack[u]
    BY <1>1, <1>4, <1>5
<1>11. \A c \in 1..Len(calls) :
          /\ calls'[c].thread = calls[c].thread /\ calls'[c].steady = calls[c].steady
          /\ (Over(c) /\ calls'[c].how = how) \/ (~Over(c) /\ calls'[c].how = calls[c].how)
    BY <1>7
<1> QED BY <1>4, <1>9, <1>10, <1>11 DEF Over

\* A new maximal level: the open calls have not had the same all along.
LEMMA LevelEffect ==
    ASSUME Types, NEW l \in Level \cup {Off}, ChangeMaxLevel(l)
    PROVE  /\ maxLevel' = l
           /\ calls' \in Seq(Calls) /\ Len(calls') = Len(calls)
           /\ \A c \in 1..Len(calls) :
                 /\ calls'[c].thread = calls[c].thread /\ calls'[c].how = calls[c].how
                 /\ calls[c].how # "open" => calls'[c].steady = calls[c].steady
                 /\ calls'[c].steady => calls[c].steady
                 /\ calls[c].how = "open" /\ calls'[c].steady => l = maxLevel
<1>1. calls \in Seq(Calls) /\ Len(calls) \in Nat /\ DOMAIN calls = 1..Len(calls)
    BY DEF Types
<1>2. maxLevel' = l
    BY DEF ChangeMaxLevel
<1>3. CASE l = maxLevel
    BY <1>1, <1>2, <1>3 DEF ChangeMaxLevel
<1>4. CASE l # maxLevel
  <2>1. calls' = [c \in 1..Len(calls) |-> [calls[c] EXCEPT !.steady = calls[c].steady /\ calls[c].how # "open"]]
    BY <1>1, <1>4 DEF ChangeMaxLevel
  <2>2. ASSUME NEW c \in 1..Len(calls)
        PROVE  /\ calls'[c] \in Calls
               /\ calls'[c].thread = calls[c].thread /\ calls'[c].how = calls[c].how
               /\ calls'[c].steady <=> calls[c].steady /\ calls[c].how # "open"
    <3>1. calls[c] \in Calls
      BY <1>1, ElementOfSeq
    <3>2. calls[c].steady \in BOOLEAN /\ (calls[c].steady /\ calls[c].how # "open") \in BOOLEAN
      BY <3>1 DEF Calls
    <3> DEFINE b == calls[c].steady /\ calls[c].how # "open"
    <3>3. calls'[c] = [calls[c] EXCEPT !.steady = b]
      BY <2>1
    <3>4. b \in BOOLEAN
      BY <3>2
    <3> HIDE DEF b
    <3>5. /\ calls'[c] \in Calls /\ calls'[c].steady = b
          /\ calls'[c].thread = calls[c].thread /\ calls'[c].how = calls[c].how
      BY <3>1, <3>3, <3>4 DEF Calls
    <3> QED BY <3>5 DEF b
  <2>3. calls' \in [1..Len(calls) -> Calls]
    <3>1. calls' = [c \in 1..Len(calls) |-> calls'[c]]
      BY <2>1
    <3> QED BY <2>2, <3>1
  <2>4. calls' \in Seq(Calls) /\ Len(calls') = Len(calls)
    BY <1>1, <2>3, SeqOfPlaces
  <2>5. ASSUME NEW c \in 1..Len(calls)
        PROVE  calls'[c].steady = calls[c].steady \/ calls[c].how = "open"
    <3>1. calls[c].steady \in BOOLEAN /\ calls'[c].steady \in BOOLEAN
      <4>1. calls[c] \in Calls /\ calls'[c] \in Calls
        BY <1>1, <2>2, ElementOfSeq
      <4> QED BY <4>1 DEF Calls
    <3> QED BY <2>2, <3>1
  <2> QED BY <1>2, <1>4, <2>2, <2>4, <2>5
<1> QED BY <1>3, <1>4

\* The first level lets a record through, or ends its round.
LEMMA MaxEffect ==
    ASSUME Types, NEW t \in Threads, CheckMaxLevel(t)
    PROVE  /\ step' \in [Threads -> Steps] /\ \A u \in Threads : step'[u].k \in Sinks
           /\ \A u \in Threads : u # t => step'[u] = step[u]
           /\ \/ step[t].rec.level > maxLevel /\ Goto(t, step[t].then)
              \/ /\ step[t].rec.level <= maxLevel
                 /\ step'[t].at = IF step[t].filter.base = "none" THEN "sink" ELSE "filter"
                 /\ step'[t].asserted = (step[t].rec.what = "assert")
                 /\ step'[t].rec = step[t].rec /\ step'[t].filter = step[t].filter
                 /\ step'[t].then = step[t].then /\ step'[t].k = step[t].k
                 /\ step'[t].cleared = step[t].cleared
<1>1. step[t] \in Steps /\ step \in [Threads -> Steps] /\ maxLevel \in Int /\ step[t].k \in Sinks
    BY DEF Types, Level, Off, Error, Trace
<1>2. step[t].rec.level \in Int /\ step[t].then \in Wheres
    BY <1>1 DEF Steps, Records, Level, Off, Error, Trace
<1>3. CASE step[t].rec.level > maxLevel
  <2>1. Goto(t, step[t].then)
    BY <1>3 DEF CheckMaxLevel
  <2> QED BY <1>2, <1>3, <2>1, GotoEffect
<1>4. CASE ~(step[t].rec.level > maxLevel)
  <2> DEFINE b == step[t].rec.what = "assert"
             a == IF step[t].filter.base = "none" THEN "sink" ELSE "filter"
             s == [step[t] EXCEPT !.at = a, !.asserted = b]
  <2>1. step' = [step EXCEPT ![t].at = a, ![t].asserted = b]
    BY <1>4 DEF CheckMaxLevel
  <2>2. a \in Wheres /\ b \in BOOLEAN
    BY DEF Wheres
  <2> HIDE DEF a, b
  <2>3. step' = [step EXCEPT ![t] = s]
    BY <2>1, <1>1
  <2>4. /\ s \in Steps /\ s.at = a /\ s.asserted = b /\ s.rec = step[t].rec
        /\ s.filter = step[t].filter /\ s.then = step[t].then /\ s.k = step[t].k
        /\ s.cleared = step[t].cleared
    BY <1>1, <2>2 DEF Steps
  <2> HIDE DEF s
  <2>5. step'[t] = s /\ step' \in [Threads -> Steps] /\ \A u \in Threads : u # t => step'[u] = step[u]
    BY <1>1, <2>3, <2>4
  <2>6. \A u \in Threads : step'[u].k \in Sinks
    BY <2>4, <2>5 DEF Types
  <2> QED BY <1>2, <1>1, <1>4, <2>4, <2>5, <2>6 DEF a, b
<1> QED BY <1>3, <1>4

\* A new call is the innermost.
LEMMA CallEffect ==
    ASSUME Types, NEW t \in Threads, NEW fn \in Fns, Call(t, fn)
    PROVE  /\ calls' \in Seq(Calls) /\ Len(calls') = Len(calls) + 1 /\ Len(calls') <= MaxCalls
           /\ \A c \in 1..Len(calls) : calls'[c] = calls[c]
           /\ calls'[Len(calls) + 1] = [thread |-> t, how |-> "open", steady |-> TRUE]
           /\ stack' \in [Threads -> Seq(Frames)] /\ Len(stack'[t]) = Len(stack[t]) + 1
           /\ \A a \in 1..Len(stack[t]) : stack'[t][a] = stack[t][a]
           /\ stack'[t][Len(stack[t]) + 1].id = Len(calls) + 1
           /\ stack'[t][Len(stack[t]) + 1].at = "begin"
           /\ stack'[t][Len(stack[t]) + 1].level \in Level
           /\ \A u \in Threads : u # t => stack'[u] = stack[u]
<1> DEFINE c == [thread |-> t, how |-> "open", steady |-> TRUE]
           e == [id |-> Len(calls) + 1, at |-> "begin", level |-> ParseArgs(fn.tokens),
                 async |-> AsyncContext(fn)]
<1>1. calls \in Seq(Calls) /\ Len(calls) \in Nat /\ stack \in [Threads -> Seq(Frames)]
      /\ stack[t] \in Seq(Frames) /\ Len(stack[t]) \in Nat
    BY DEF Types
<1>2. c \in Calls
    BY DEF Calls, Hows
<1>3. AsyncContext(fn) \in BOOLEAN
    BY Zenon DEF AsyncContext
<1>4. ParseArgs(fn.tokens) \in Level
    BY DEF Call, Compiles
<1>5. e \in Frames /\ e.id = Len(calls) + 1 /\ e.at = "begin" /\ e.level \in Level
    BY <1>1, <1>3, <1>4 DEF Frames
<1>6. calls' = Append(calls, c) /\ stack' = [stack EXCEPT ![t] = Append(@, e)]
      /\ Len(calls) < MaxCalls
    BY DEF Call
<1> HIDE DEF c, e
<1>7. stack' = [stack EXCEPT ![t] = Append(stack[t], e)]
    BY <1>6
<1>8. /\ Append(stack[t], e) \in Seq(Frames) /\ Len(Append(stack[t], e)) = Len(stack[t]) + 1
      /\ \A a \in 1..Len(stack[t]) : Append(stack[t], e)[a] = stack[t][a]
      /\ Append(stack[t], e)[Len(stack[t]) + 1] = e
    BY <1>1, <1>5, AppendProperties
<1>9. /\ stack' \in [Threads -> Seq(Frames)] /\ stack'[t] = Append(stack[t], e)
      /\ \A u \in Threads : u # t => stack'[u] = stack[u]
    BY <1>1, <1>7, <1>8
<1>10. /\ calls' \in Seq(Calls) /\ Len(calls') = Len(calls) + 1
       /\ \A i \in 1..Len(calls) : calls'[i] = calls[i]
       /\ calls'[Len(calls) + 1] = c
    BY <1>1, <1>2, <1>6, AppendProperties
<1>11. Len(calls') <= MaxCalls
    BY <1>1, <1>6, <1>10, BoundsAssumption
<1> QED BY <1>5, <1>8, <1>9, <1>10, <1>11 DEF c

\* The frame of the innermost call, and that of a call whose body begins.
LEMMA TopFrame ==
    ASSUME Types, NEW t \in Threads, stack[t] # <<>>
    PROVE  /\ Len(stack[t]) \in Nat \ {0} /\ Top(t) = stack[t][Len(stack[t])]
           /\ Top(t) \in Frames
<1>1. stack[t] \in Seq(Frames)
    BY DEF Types
<1>2. Len(stack[t]) \in Nat \ {0}
    BY <1>1
<1>3. stack[t][Len(stack[t])] \in Frames
    BY <1>1, <1>2, ElementOfSeq
<1> QED BY <1>2, <1>3 DEF Top, Last

\* A call that starts its body.
LEMMA BeginEffect ==
    ASSUME Types, NEW t \in Threads, Begin(t)
    PROVE  /\ stack' \in [Threads -> Seq(Frames)] /\ Len(stack'[t]) = Len(stack[t])
           /\ \A a \in 1..Len(stack[t]) : /\ stack'[t][a].id = stack[t][a].id
                                          /\ stack'[t][a].level = stack[t][a].level
                                          /\ a # Len(stack[t]) => stack'[t][a] = stack[t][a]
           /\ stack'[t][Len(stack[t])].at = "body"
           /\ \A u \in Threads : u # t => stack'[u] = stack[u]
<1>1. stack[t] # <<>>
    BY DEF Begin
<1> DEFINE n == Len(stack[t])
           e == [stack[t][n] EXCEPT !.at = "body"]
           s == [stack[t] EXCEPT ![n] = e]
<1>2. n \in Nat \ {0} /\ stack[t][n] \in Frames /\ stack \in [Threads -> Seq(Frames)]
      /\ stack[t] \in Seq(Frames)
    BY <1>1, TopFrame DEF Types
<1>3. e \in Frames /\ e.at = "body" /\ e.id = stack[t][n].id /\ e.level = stack[t][n].level
    BY <1>2 DEF Frames
<1>4. stack' = [stack EXCEPT ![t][n].at = "body"]
    BY DEF Begin
<1>5. stack' = [stack EXCEPT ![t] = s]
    BY <1>4, <1>2
<1> HIDE DEF e
<1>6. s \in Seq(Frames) /\ Len(s) = n /\ s[n] = e /\ \A a \in 1..n : a # n => s[a] = stack[t][a]
    BY <1>2, <1>3, ExceptSeq
<1> HIDE DEF s
<1>7. stack' \in [Threads -> Seq(Frames)] /\ stack'[t] = s
      /\ \A u \in Threads : u # t => stack'[u] = stack[u]
    BY <1>2, <1>5, <1>6
<1> QED BY <1>2, <1>3, <1>6, <1>7

\* The ring of a thread, cut to what it holds.
LEMMA NewestType ==
    ASSUME NEW h \in Seq(Records), NEW n \in 0..Len(h)
    PROVE  /\ Newest(h, n) \in Seq(Records)
           /\ Newest(h, n) = SubSeq(h, IF n - Keep + 1 > 1 THEN n - Keep + 1 ELSE 1, n)
<1>1. Len(h) \in Nat /\ n \in Int /\ Keep \in Nat \ {0, 1}
    BY KeepAssumption
<1> DEFINE a == n - Keep + 1  m == IF a > 1 THEN a ELSE 1
<1>2. a \in Int
    BY <1>1
<1> HIDE DEF a
<1>3. Max({1, a}) = m
  <2>1. m \in {1, a} /\ \A y \in {1, a} : m >= y
    BY <1>2
  <2>2. \A x \in {1, a} : (\A y \in {1, a} : x >= y) => x = m
    BY <1>2
  <2>3. Max({1, a}) = CHOOSE x \in {1, a} : \A y \in {1, a} : x >= y
    BY DEF Max
  <2> HIDE DEF m
  <2> QED BY <2>1, <2>2, <2>3
<1>4. m \in Int /\ m >= 1
    BY <1>2
<1>5. Newest(h, n) = SubSeq(h, m, n)
    BY <1>3 DEF Newest, a
<1> HIDE DEF m
<1>6. \A i \in m..n : h[i] \in Records
    BY <1>1, <1>4, ElementOfSeq
<1>7. SubSeq(h, m, n) \in Seq(Records)
    BY <1>1, <1>4, <1>6, SubSeqProperties
<1> QED BY <1>5, <1>7 DEF m, a

\* The file of a ring holds records.
LEMMA DumpType ==
    ASSUME Types, NEW k \in Rings
    PROVE  /\ Dump(k) \in [Threads -> Seq(Records)]
           /\ \A t \in Threads : Dump(k)[t] = Newest(hist[k][t], Len(hist[k][t]))
<1> DEFINE D(t) == Newest(hist[k][t], Len(hist[k][t]))
<1>1. ASSUME NEW t \in Threads PROVE D(t) \in Seq(Records)
  <2>1. hist[k][t] \in Seq(Records) /\ Len(hist[k][t]) \in 0..Len(hist[k][t])
    BY SinkTypes DEF Types
  <2> QED BY <2>1, NewestType
<1>2. Dump(k) = [t \in Threads |-> D(t)]
    BY DEF Dump
<1> HIDE DEF D
<1>3. Dump(k) \in [Threads -> Seq(Records)] /\ \A t \in Threads : Dump(k)[t] = D(t)
    BY <1>1, <1>2
<1> QED BY <1>3 DEF D

\* A dump of one sink: every other file stays, and a dump that fails leaves it broken.
LEMMA DumpEffect ==
    ASSUME Types, NEW k \in Sinks, DumpSink(k)
    PROVE  /\ file' \in [Rings -> [Threads -> Seq(Records)]] /\ broken' \subseteq Rings
           /\ used' \in [logs : Nat, events : Nat]
           /\ \A j \in Rings :
                \/ file'[j] = file[j] /\ (j \in broken => j \in broken')
                \/ j = k /\ file'[j] = Dump(j)
           /\ k \in Rings => k \in broken' \/ file'[k] = Dump(k)
<1>1. file \in [Rings -> [Threads -> Seq(Records)]] /\ broken \subseteq Rings
      /\ used \in [logs : Nat, events : Nat]
    BY DEF Types
<1>2. CASE k \notin Rings /\ UNCHANGED <<file, broken, used>>
    BY <1>1, <1>2
<1>3. CASE k \in Rings /\ file' = [file EXCEPT ![k] = Dump(k)] /\ broken' = broken \ {k} /\ UNCHANGED used
  <2>1. Dump(k) \in [Threads -> Seq(Records)]
    BY <1>3, DumpType
  <2>2. file' \in [Rings -> [Threads -> Seq(Records)]] /\ file'[k] = Dump(k)
    BY <1>1, <1>3, <2>1
  <2>3. \A j \in Rings : j # k => file'[j] = file[j] /\ (j \in broken => j \in broken')
    BY <1>1, <1>3
  <2> QED BY <1>1, <1>3, <2>2, <2>3
<1>4. CASE k \in Rings /\ broken' = broken \cup {k} /\ used' = [used EXCEPT !.events = @ + 1]
            /\ UNCHANGED file
    BY <1>1, <1>4
<1> QED BY <1>2, <1>3, <1>4 DEF DumpSink

-----------------------------------------------------------------------------
\* Types.

\* The types hold at the start.
LEMMA InitTypes == Init => Types
<1> SUFFICES ASSUME Init PROVE Types
    OBVIOUS
<1>1. config \in Builders
    BY DEF Init
<1>2. maxLevel \in Level \cup {Off}
    BY MaxLevelType DEF Init
<1>3. config.sinks \in Seq([kind : STRING, level : Level]) /\ config.sinks # <<>>
    BY <1>1, BuildersAssumption
<1>4. 1 \in Sinks
    BY <1>3 DEF Sinks
<1>5. filterLevel \in [Atomics -> Level]
    BY DEF Init, Level, Trace, Error
<1>6. step \in [Threads -> Steps] /\ \A t \in Threads : step[t].k \in Sinks
    BY <1>4, IdleType DEF Init, Idle
<1>7. stack \in [Threads -> Seq(Frames)]
    BY DEF Init
<1>8. calls \in Seq(Calls) /\ Len(calls) <= MaxCalls
    BY BoundsAssumption DEF Init
<1>9. [t \in Threads |-> <<>>] \in [Threads -> Seq(Records)]
    OBVIOUS
<1>10. hist \in [Sinks -> [Threads -> Seq(Records)]] /\ file \in [Rings -> [Threads -> Seq(Records)]]
       /\ broken \subseteq Rings
    BY <1>9 DEF Init
<1>11. setup \in [at : {"idle", "open", "level"}, k : Sinks]
       /\ signal \in [at : {"idle", "reopen", "exit"}, k : Sinks, cleared : BOOLEAN]
    BY <1>4 DEF Init
<1>12. mark \in [Rings -> [Threads -> Nat]] /\ used \in [logs : Nat, events : Nat] /\ exited \in BOOLEAN
    BY DEF Init
<1> QED BY <1>1, <1>2, <1>5, <1>6, <1>7, <1>8, <1>10, <1>11, <1>12 DEF Types

\* A macro starts from nothing.
LEMMA MacroEffect ==
    ASSUME Types, NEW t \in Threads, NEW what \in {"log", "assert"}, NEW level \in Level,
           NEW f \in Filters \cup {None}, NEW then \in Wheres, UseMacro(t, what, level, f, then)
    PROVE  /\ step' \in [Threads -> Steps] /\ \A u \in Threads : step'[u].k \in Sinks
           /\ \A u \in Threads : u # t => step'[u] = step[u]
           /\ step[t].at = "run" /\ step'[t].at = "max" /\ step'[t].k = 1 /\ step'[t].then = then
           /\ step'[t].rec.what = what /\ step'[t].rec.level = level
           /\ step'[t].asserted = step[t].asserted /\ step'[t].cleared = step[t].cleared
           /\ used' \in [logs : Nat, events : Nat]
           /\ UNCHANGED <<config, levels, stack, calls, records, events, exited>>
<1> DEFINE r == Record(what, used.logs + 1, level, f)
<1>1. used \in [logs : Nat, events : Nat] /\ used.logs \in Nat
    BY DEF Types
<1>2. r \in Records /\ r.what = what /\ r.level = level
    BY <1>1, RecordType DEF Whats
<1>3. Emit(t, "max", r, f, then) /\ used' = [used EXCEPT !.logs = @ + 1]
    BY DEF UseMacro
<1>4. used' \in [logs : Nat, events : Nat]
    BY <1>1, <1>3
<1>5. step[t].at = "run" /\ UNCHANGED <<config, levels, stack, calls, records, events, exited>>
    BY DEF UseMacro, Running, At
<1> HIDE DEF r
<1>6. "max" \in Wheres
    BY DEF Wheres
<1> QED BY <1>2, <1>3, <1>4, <1>5, <1>6, EmitEffect

\* The macros user code has, each a use of UseMacro.
Macro(t) == \/ \E f \in Filters, l \in LogLevels : LoggerLog(t, f, l)
            \/ \E f \in Filters : LoggerAssert(t, f)
            \/ LogPrintln(t) \/ LogAssert(t)

\* Which macro it is.
LEMMA MacroKinds ==
    ASSUME NEW t \in Threads, Macro(t)
    PROVE  \E level \in Level, f \in Filters \cup {None} :
              \/ UseMacro(t, "log", level, f, "run")
              \/ level = Error /\ UseMacro(t, "assert", level, f, "panic")
<1>1. Error \in Level /\ Info \in Level /\ LogLevels \subseteq Level
    BY LevelsAssumption DEF Level, Error, Info, Trace
<1>2. ASSUME NEW f \in Filters, NEW l \in LogLevels, LoggerLog(t, f, l)
      PROVE  UseMacro(t, "log", l, f, "run")
    BY <1>2 DEF LoggerLog
<1>3. ASSUME NEW f \in Filters, LoggerAssert(t, f) PROVE UseMacro(t, "assert", Error, f, "panic")
    BY <1>3 DEF LoggerAssert
<1>4. LogPrintln(t) => UseMacro(t, "log", Info, None, "run")
    BY DEF LogPrintln
<1>5. LogAssert(t) => UseMacro(t, "assert", Error, None, "panic")
    BY DEF LogAssert
<1> QED BY <1>1, <1>2, <1>3, <1>4, <1>5 DEF Macro

\* Steps of a thread that change nothing but where it stands.
LEMMA TypesMove ==
    ASSUME Types, step' \in [Threads -> Steps], \A u \in Threads : step'[u].k \in Sinks,
           UNCHANGED <<config, levels, stack, calls, records, events, exited>>,
           used' \in [logs : Nat, events : Nat]
    PROVE  Types'
<1>1. UNCHANGED <<config, maxLevel, filterLevel, stack, calls, hist, file, broken, setup, signal, mark, exited>>
    BY DEF levels, records, events
<1>2. Sinks' = Sinks /\ Rings' = Rings
    BY <1>1, SinksStay
<1> QED BY <1>1, <1>2 DEF Types

\* The steps of a thread keep the types.
LEMMA TypesThread ==
    ASSUME Types, Shaped, NEW t \in Threads,
           \/ CheckMaxLevel(t) \/ CheckFilter(t) \/ Sink(t)
           \/ Begin(t) \/ Return(t) \/ Panic(t) \/ Flush(t) \/ Abort(t)
           \/ \E fn \in Fns : Call(t, fn)
           \/ \E early \in BOOLEAN : Leave(t, early)
           \/ Macro(t)
           \/ \E n \in 0..MaxCalls : Cancel(t, n) \/ Unwind(t, n)
    PROVE  Types'
<1>1. step[t] \in Steps /\ step[t].rec \in Records /\ step[t].then \in Wheres
      /\ step[t].rec.id \in Nat /\ step[t].k \in Sinks /\ used \in [logs : Nat, events : Nat]
      /\ stack \in [Threads -> Seq(Frames)] /\ step \in [Threads -> Steps]
      /\ \A u \in Threads : step[u].k \in Sinks
    BY DEF Types, Steps, Records
<1>2. CASE CheckMaxLevel(t)
  <2>1. UNCHANGED <<config, levels, stack, calls, records, events, used, exited>>
    BY <1>2 DEF CheckMaxLevel
  <2> QED BY <1>1, <1>2, <2>1, MaxEffect, TypesMove
<1>3. CASE CheckFilter(t)
  <2>1. UNCHANGED <<config, levels, stack, calls, records, events, used, exited>>
    BY <1>3 DEF CheckFilter
  <2>2. PICK at \in Wheres : Goto(t, at)
    BY <1>1, <1>3 DEF CheckFilter, Wheres
  <2> QED BY <1>1, <2>1, <2>2, GotoEffect, TypesMove
<1>4. CASE Sink(t)
  <2>1. UNCHANGED <<config, maxLevel, filterLevel, stack, calls, file, broken, setup, signal, mark, used, exited>>
    BY <1>4 DEF Sink, levels, events
  <2>2. step' \in [Threads -> Steps] /\ \A u \in Threads : step'[u].k \in Sinks
    BY <1>1, <1>4, NextSinkEffect DEF Sink
  <2>3. hist' \in [Sinks -> [Threads -> Seq(Records)]]
    <3>1. \/ hist' = hist
          \/ Wrote(step[t].k, t, step[t].rec)
      BY <1>4 DEF Sink, Wrote
    <3> QED BY <1>1, <3>1, SinkWrites DEF Types
  <2>4. Sinks' = Sinks /\ Rings' = Rings
    BY <2>1, SinksStay
  <2> QED BY <2>1, <2>2, <2>3, <2>4 DEF Types
<1>5. CASE Begin(t)
  <2>1. UNCHANGED <<config, maxLevel, filterLevel, calls, hist, file, broken, setup, signal, mark, used, exited>>
        /\ Emit(t, "max", Record("enter", Top(t).id, Top(t).level, None), None, "run")
    BY <1>5 DEF Begin, levels, events, records
  <2>2. Top(t).id \in Nat /\ Top(t).level \in Level
    BY <1>5, TopFrame DEF Begin, Frames
  <2>3. Record("enter", Top(t).id, Top(t).level, None) \in Records
    BY <2>2, RecordType DEF Whats, Own
  <2>4. step' \in [Threads -> Steps] /\ \A u \in Threads : step'[u].k \in Sinks
    <3>1. "max" \in Wheres /\ "run" \in Wheres
      BY DEF Wheres
    <3> QED BY <2>1, <2>3, <3>1, EmitEffect
  <2>5. stack' \in [Threads -> Seq(Frames)]
    BY <1>5, BeginEffect
  <2>6. Sinks' = Sinks /\ Rings' = Rings
    BY <2>1, SinksStay
  <2> QED BY <2>1, <2>4, <2>5, <2>6 DEF Types
<1>6. CASE Panic(t)
  <2>1. UNCHANGED <<config, levels, stack, calls, records, events, used, exited>>
    BY <1>6 DEF Panic
  <2>2. "sink" \in Wheres /\ "flush" \in Wheres /\ "unwind" \in Wheres
    BY DEF Wheres
  <2>3. CASE Goto(t, "unwind")
    BY <1>1, <2>1, <2>2, <2>3, GotoEffect, TypesMove
  <2>4. CASE Emit(t, "sink", Record("panic", step[t].rec.id, Error, None), None, "flush")
    <3>1. Record("panic", step[t].rec.id, Error, None) \in Records
      <4>1. Error \in Level \cup {Off} /\ "panic" \in Whats
        BY DEF Whats, Level, Error, Trace
      <4> QED BY <1>1, <4>1, RecordType
    <3> QED BY <1>1, <2>1, <2>2, <2>4, <3>1, EmitEffect, TypesMove
  <2> QED BY <1>6, <2>3, <2>4 DEF Panic
<1>7. CASE Flush(t)
  <2>1. UNCHANGED <<config, maxLevel, filterLevel, stack, calls, hist, setup, signal, mark, exited>>
        /\ DumpSink(step[t].k)
    BY <1>7 DEF Flush, levels, events
  <2>2. step' \in [Threads -> Steps] /\ \A u \in Threads : step'[u].k \in Sinks
    <3>1. "unwind" \in Wheres
      BY DEF Wheres
    <3> QED BY <1>1, <1>7, <3>1, NextSinkEffect DEF Flush
  <2>3. file' \in [Rings -> [Threads -> Seq(Records)]] /\ broken' \subseteq Rings
        /\ used' \in [logs : Nat, events : Nat]
    <3>1. step[t].k \in Sinks
      BY DEF Types
    <3> QED BY <2>1, <3>1, DumpEffect
  <2>4. Sinks' = Sinks /\ Rings' = Rings
    BY <2>1, SinksStay
  <2> QED BY <2>1, <2>2, <2>3, <2>4 DEF Types
<1>8. CASE Abort(t)
  <2>1. UNCHANGED <<config, maxLevel, filterLevel, step, stack, calls, hist, file, broken, setup, signal,
                    mark, used>> /\ exited' = TRUE
    BY <1>8 DEF Abort, levels, events, records
  <2>2. Sinks' = Sinks /\ Rings' = Rings
    BY <2>1, SinksStay
  <2> QED BY <2>1, <2>2 DEF Types
<1>9. ASSUME NEW fn \in Fns, Call(t, fn) PROVE Types'
  <2>1. UNCHANGED <<config, maxLevel, filterLevel, step, hist, file, broken, setup, signal, mark, used, exited>>
    BY <1>9 DEF Call, levels, events, records
  <2>2. calls' \in Seq(Calls) /\ Len(calls') <= MaxCalls /\ stack' \in [Threads -> Seq(Frames)]
    BY <1>9, CallEffect
  <2>3. Sinks' = Sinks /\ Rings' = Rings
    BY <2>1, SinksStay
  <2> QED BY <2>1, <2>2, <2>3 DEF Types
<1>10. ASSUME NEW early \in BOOLEAN, Leave(t, early) PROVE Types'
  <2>1. UNCHANGED <<config, levels, stack, calls, records, events, used, exited>>
        /\ Emit(t, "max", Record("return", Top(t).id, Top(t).level, None), None, "return")
    BY <1>10 DEF Leave, AfterBody
  <2>2. Top(t).id \in Nat /\ Top(t).level \in Level
    BY <1>10, TopFrame DEF Leave, InBody, Frames
  <2>3. Record("return", Top(t).id, Top(t).level, None) \in Records
    BY <2>2, RecordType DEF Whats, Own
  <2>4. "max" \in Wheres /\ "return" \in Wheres
    BY DEF Wheres
  <2> QED BY <1>1, <2>1, <2>3, <2>4, EmitEffect, TypesMove
<1>11. CASE Macro(t)
  <2>1. PICK level \in Level, f \in Filters \cup {None}, what \in {"log", "assert"}, then \in Wheres :
            UseMacro(t, what, level, f, then)
    BY <1>11, MacroKinds DEF Wheres
  <2>2. /\ step' \in [Threads -> Steps] /\ \A u \in Threads : step'[u].k \in Sinks
        /\ used' \in [logs : Nat, events : Nat]
        /\ UNCHANGED <<config, levels, stack, calls, records, events, exited>>
    BY <2>1, MacroEffect
  <2> QED BY <2>2, TypesMove
<1>12. ASSUME NEW n \in 0..(Len(stack[t]) - 1), NEW how \in Hows, Ended(t, n, how),
              step' = step \/ step' = [step EXCEPT ![t] = Idle],
              UNCHANGED <<config, levels, records, events, used, exited>>
       PROVE  Types'
  <2>1. UNCHANGED <<config, maxLevel, filterLevel, hist, file, broken, setup, signal, mark, used, exited>>
    BY <1>12 DEF levels, events, records
  <2>2. calls' \in Seq(Calls) /\ Len(calls') <= MaxCalls /\ stack' \in [Threads -> Seq(Frames)]
    BY <1>12, EndedEffect DEF Types
  <2>3. step' \in [Threads -> Steps] /\ \A u \in Threads : step'[u].k \in Sinks
    <3>1. Idle \in Steps /\ Idle.k \in Sinks
      BY IdleType, SinkTypes DEF Idle
    <3> QED BY <1>1, <1>12, <3>1
  <2>4. Sinks' = Sinks /\ Rings' = Rings
    BY <2>1, SinksStay
  <2> QED BY <2>1, <2>2, <2>3, <2>4 DEF Types
<1>13. CASE Return(t)
  <2>1. stack[t] # <<>>
    BY <1>13 DEF Return, At, Shaped, Shape, Framed, Own
  <2>2. (Len(stack[t]) - 1) \in 0..(Len(stack[t]) - 1)
    BY <2>1, TopFrame
  <2>3. "returned" \in Hows /\ Ended(t, Len(stack[t]) - 1, "returned")
    BY <1>13 DEF Return, Hows
  <2>4. step' = [step EXCEPT ![t] = Idle] /\ UNCHANGED <<config, levels, records, events, used, exited>>
    BY <1>13 DEF Return
  <2> QED BY <1>12, <2>2, <2>3, <2>4
<1>14. ASSUME NEW n \in 0..MaxCalls, Cancel(t, n) \/ Unwind(t, n) PROVE Types'
  <2>1. n \in 0..(Len(stack[t]) - 1) /\ \E how \in Hows : Ended(t, n, how)
    BY <1>14 DEF Cancel, Unwind, Hows
  <2>2. UNCHANGED <<config, levels, records, events, used, exited>>
        /\ (step' = step \/ step' = [step EXCEPT ![t] = Idle])
    BY <1>14 DEF Cancel, Unwind
  <2> QED BY <1>12, <2>1, <2>2
<1> QED BY <1>2, <1>3, <1>4, <1>5, <1>6, <1>7, <1>8, <1>9, <1>10, <1>11, <1>13, <1>14

\* So do the setup, the levels and the signal.
LEMMA TypesOthers ==
    ASSUME Types,
           \/ \E l \in MaxLevels : SetMaxLevel(l)
           \/ \E a \in Atomics, l \in FilterLevels : SetLevel(a, l)
           \/ SetupAgain \/ OpenSink \/ ResetLevel \/ SignalArrives \/ ReopenSink \/ Exit
    PROVE  Types'
<1> USE DEF levels, records, events
<1>1. /\ config \in Builders /\ step \in [Threads -> Steps] /\ used \in [logs : Nat, events : Nat]
      /\ setup \in [at : {"idle", "open", "level"}, k : Sinks]
      /\ signal \in [at : {"idle", "reopen", "exit"}, k : Sinks, cleared : BOOLEAN]
      /\ 1 \in Sinks
    BY SinkTypes DEF Types
<1>2. ASSUME NEW l \in Level \cup {Off}, ChangeMaxLevel(l), used' \in [logs : Nat, events : Nat],
             setup' \in [at : {"idle", "open", "level"}, k : Sinks],
             UNCHANGED <<config, filterLevel, step, stack, records, signal, mark, exited>>
      PROVE  Types'
  <2>1. UNCHANGED <<config, filterLevel, step, stack, hist, file, broken, signal, mark, exited>>
    BY <1>2
  <2>2. Sinks' = Sinks /\ Rings' = Rings
    BY <2>1, SinksStay
  <2>3. maxLevel' \in Level \cup {Off} /\ calls' \in Seq(Calls) /\ Len(calls') <= MaxCalls
    BY <1>2, LevelEffect DEF Types
  <2> QED BY <1>2, <2>1, <2>2, <2>3 DEF Types
<1>3. ASSUME NEW l \in MaxLevels, SetMaxLevel(l) PROVE Types'
  <2>1. l \in Level \cup {Off} /\ used' = [used EXCEPT !.events = @ + 1]
    BY <1>3, LevelsAssumption DEF SetMaxLevel
  <2>2. used' \in [logs : Nat, events : Nat]
    BY <1>1, <2>1
  <2> QED BY <1>1, <1>2, <1>3, <2>1, <2>2 DEF SetMaxLevel
<1>4. ASSUME NEW a \in Atomics, NEW l \in FilterLevels, SetLevel(a, l) PROVE Types'
  <2>1. l \in Level /\ used' = [used EXCEPT !.events = @ + 1]
    BY <1>4, LevelsAssumption DEF SetLevel
  <2>2. used' \in [logs : Nat, events : Nat] /\ filterLevel' \in [Atomics -> Level]
    <3>1. filterLevel \in [Atomics -> Level] /\ filterLevel' = [filterLevel EXCEPT ![a] = l]
      BY <1>4 DEF SetLevel, Types
    <3> QED BY <1>1, <2>1, <3>1
  <2>3. UNCHANGED <<config, maxLevel, step, stack, calls, hist, file, broken, setup, signal, mark, exited>>
    BY <1>4 DEF SetLevel
  <2>4. Sinks' = Sinks /\ Rings' = Rings
    BY <2>3, SinksStay
  <2> QED BY <2>2, <2>3, <2>4 DEF Types
<1>5. CASE SetupAgain
  <2>1. used' = [used EXCEPT !.events = @ + 1] /\ setup' = [at |-> "open", k |-> 1]
        /\ UNCHANGED <<config, maxLevel, filterLevel, step, stack, calls, hist, file, broken, signal, mark, exited>>
    BY <1>5 DEF SetupAgain
  <2>2. used' \in [logs : Nat, events : Nat] /\ setup' \in [at : {"idle", "open", "level"}, k : Sinks]
    BY <1>1, <2>1
  <2>3. Sinks' = Sinks /\ Rings' = Rings
    BY <2>1, SinksStay
  <2> QED BY <2>1, <2>2, <2>3 DEF Types
<1>6. CASE OpenSink
  <2>1. UNCHANGED <<config, maxLevel, filterLevel, stack, calls, file, broken, used, exited>>
    BY <1>6 DEF OpenSink
  <2>2. Sinks' = Sinks /\ Rings' = Rings
    BY <2>1, SinksStay
  <2>3. setup' \in [at : {"idle", "open", "level"}, k : Sinks]
    <3>1. CASE setup.k < Len(config.sinks)
      <4>1. setup.k + 1 \in Sinks
        BY <1>1, <3>1, SinkTypes DEF Sinks
      <4> QED BY <1>1, <1>6, <3>1, <4>1 DEF OpenSink
    <3>2. CASE ~(setup.k < Len(config.sinks))
      BY <1>1, <1>6, <3>2 DEF OpenSink
    <3> QED BY <3>1, <3>2
  <2>4. CASE setup.k \notin Rings
    <3>1. UNCHANGED <<hist, mark, step, signal>>
      BY <1>6, <2>4 DEF OpenSink
    <3> QED BY <2>1, <2>2, <2>3, <3>1 DEF Types
  <2>5. CASE setup.k \in Rings
    <3>1. /\ hist' = [hist EXCEPT ![setup.k] = [t \in Threads |-> <<>>]]
          /\ mark' = [mark EXCEPT ![setup.k] = [t \in Threads |-> 0]]
          /\ step' = [t \in Threads |-> [step[t] EXCEPT !.cleared = step[t].at # "run"]]
          /\ signal' = [signal EXCEPT !.cleared = @ \/ (signal.at = "exit" /\ signal.k = setup.k)]
      BY <1>6, <2>5 DEF OpenSink
    <3>2. [t \in Threads |-> <<>>] \in [Threads -> Seq(Records)]
          /\ [t \in Threads |-> 0] \in [Threads -> Nat]
      OBVIOUS
    <3>3. hist' \in [Sinks -> [Threads -> Seq(Records)]] /\ mark' \in [Rings -> [Threads -> Nat]]
      BY <3>1, <3>2 DEF Types
    <3>4. step' \in [Threads -> Steps] /\ \A t \in Threads : step'[t].k \in Sinks
      <4>1. ASSUME NEW t \in Threads
            PROVE  step'[t] \in Steps /\ step'[t].k = step[t].k
        <5>1. step[t] \in Steps /\ (step[t].at # "run") \in BOOLEAN
          BY <1>1
        <5>2. step'[t] = [step[t] EXCEPT !.cleared = step[t].at # "run"]
          BY <3>1
        <5> QED BY <5>1, <5>2 DEF Steps
      <4>2. step' = [t \in Threads |-> step'[t]]
        BY <3>1
      <4> QED BY <4>1, <4>2 DEF Types
    <3>5. signal' \in [at : {"idle", "reopen", "exit"}, k : Sinks, cleared : BOOLEAN]
      <4> DEFINE b == signal.cleared \/ (signal.at = "exit" /\ signal.k = setup.k)
      <4>1. b \in BOOLEAN /\ signal' = [signal EXCEPT !.cleared = b]
        BY <3>1
      <4> HIDE DEF b
      <4> QED BY <1>1, <4>1
    <3> QED BY <2>1, <2>2, <2>3, <3>3, <3>4, <3>5 DEF Types
  <2> QED BY <2>4, <2>5
<1>7. CASE ResetLevel
  <2>1. GetMaxLevel(config) \in Level \cup {Off}
    BY <1>1, MaxLevelType
  <2>2. setup' \in [at : {"idle", "open", "level"}, k : Sinks] /\ used' \in [logs : Nat, events : Nat]
    BY <1>1, <1>7 DEF ResetLevel
  <2> QED BY <1>2, <1>7, <2>1, <2>2 DEF ResetLevel
<1>8. CASE SignalArrives
  <2>1. /\ used' = [used EXCEPT !.events = @ + 1]
        /\ signal' = [at |-> "reopen", k |-> 1, cleared |-> FALSE]
        /\ UNCHANGED <<config, maxLevel, filterLevel, step, stack, calls, hist, file, broken, setup, exited>>
    BY <1>8 DEF SignalArrives
  <2>2. used' \in [logs : Nat, events : Nat]
        /\ signal' \in [at : {"idle", "reopen", "exit"}, k : Sinks, cleared : BOOLEAN]
    BY <1>1, <2>1
  <2>3. mark' \in [Rings -> [Threads -> Nat]]
    <3>1. mark' = [k \in Rings |-> [t \in Threads |-> Len(hist[k][t])]]
      BY <1>8 DEF SignalArrives
    <3>2. \A k \in Rings, t \in Threads : Len(hist[k][t]) \in Nat
      <4> TAKE k \in Rings, t \in Threads
      <4>1. hist[k][t] \in Seq(Records)
        BY SinkTypes DEF Types
      <4> QED BY <4>1
    <3> QED BY <3>1, <3>2
  <2>4. Sinks' = Sinks /\ Rings' = Rings
    BY <2>1, SinksStay
  <2> QED BY <2>1, <2>2, <2>3, <2>4 DEF Types
<1>9. CASE ReopenSink
  <2>1. UNCHANGED <<config, maxLevel, filterLevel, step, stack, calls, hist, setup, mark, exited>>
        /\ DumpSink(signal.k) /\ signal.k \in Sinks
    BY <1>1, <1>9 DEF ReopenSink
  <2>2. file' \in [Rings -> [Threads -> Seq(Records)]] /\ broken' \subseteq Rings
        /\ used' \in [logs : Nat, events : Nat]
    BY <2>1, DumpEffect
  <2>3. signal' \in [at : {"idle", "reopen", "exit"}, k : Sinks, cleared : BOOLEAN]
    <3>1. \/ signal' = [signal EXCEPT !.at = "exit"] \/ signal' = [signal EXCEPT !.at = "idle"]
          \/ signal.k < Len(config.sinks) /\ signal' = [signal EXCEPT !.k = @ + 1]
      BY <1>9 DEF ReopenSink
    <3>2. signal.k < Len(config.sinks) => signal.k + 1 \in Sinks
      BY <1>1, SinkTypes DEF Sinks
    <3> QED BY <1>1, <3>1, <3>2
  <2>4. Sinks' = Sinks /\ Rings' = Rings
    BY <2>1, SinksStay
  <2> QED BY <2>1, <2>2, <2>3, <2>4 DEF Types
<1>10. CASE Exit
  <2>1. UNCHANGED <<config, maxLevel, filterLevel, step, stack, calls, hist, file, broken, setup, signal,
                    mark, used>> /\ exited' = TRUE
    BY <1>10 DEF Exit
  <2>2. Sinks' = Sinks /\ Rings' = Rings
    BY <2>1, SinksStay
  <2> QED BY <2>1, <2>2 DEF Types
<1> QED BY <1>3, <1>4, <1>5, <1>6, <1>7, <1>8, <1>9, <1>10

-----------------------------------------------------------------------------
\* Where the threads stand, and what they have open.

\* A round of a macro or of the hook leads on, and keeps its record or drops it.
Round(t) == CheckMaxLevel(t) \/ CheckFilter(t) \/ Sink(t) \/ Panic(t) \/ Flush(t)

\* A step of a macro or of the hook leads where its kind allows.
LEMMA RoundShape ==
    ASSUME Types, Shaped, NEW t \in Threads, Round(t)
    PROVE  /\ Shape(step'[t])
           /\ step'[t].rec.what \in Own => step'[t].rec = step[t].rec
           /\ \A u \in Threads : u # t => step'[u] = step[u]
           /\ UNCHANGED <<stack, calls>>
<1>1. step[t] \in Steps /\ step[t].rec \in Records /\ step[t].then \in Wheres /\ Shape(step[t])
    BY DEF Types, Steps, Records, Shaped
<1>2. Idle.at = "run" /\ Idle.rec.what = "none" /\ Idle.asserted = FALSE /\ Idle.cleared = FALSE
    BY DEF Idle, NoRecord, Record
<1>3. None.base = "none"
    BY DEF None
<1>4. UNCHANGED <<stack, calls>>
    BY DEF Round, CheckMaxLevel, CheckFilter, Sink, Panic, Flush
<1>5. ASSUME Goto(t, step[t].then), step[t].at \in {"max", "filter", "sink"}
      PROVE  /\ Shape(step'[t])
             /\ step'[t].rec.what \in Own => step'[t].rec = step[t].rec
             /\ \A u \in Threads : u # t => step'[u] = step[u]
    BY <1>1, <1>2, <1>5, GotoEffect DEF Shape, Own
<1>6. CASE CheckMaxLevel(t)
  <2>1. step[t].at = "max"
    BY <1>6 DEF CheckMaxLevel, At
  <2>2. CASE step[t].rec.level > maxLevel /\ Goto(t, step[t].then)
    BY <2>1, <2>2, <1>4, <1>5
  <2>3. CASE /\ step'[t].at = IF step[t].filter.base = "none" THEN "sink" ELSE "filter"
             /\ step'[t].asserted = (step[t].rec.what = "assert")
             /\ step'[t].rec = step[t].rec /\ step'[t].filter = step[t].filter
             /\ step'[t].then = step[t].then /\ step'[t].k = step[t].k
             /\ \A u \in Threads : u # t => step'[u] = step[u]
    BY <1>1, <1>3, <1>4, <2>1, <2>3 DEF Shape
  <2> QED BY <1>6, <2>2, <2>3, MaxEffect
<1>7. CASE CheckFilter(t)
  <2>1. step[t].at = "filter" /\ (Goto(t, "sink") \/ Goto(t, step[t].then))
    BY <1>7 DEF CheckFilter, At
  <2>2. CASE Goto(t, "sink")
    <3>1. "sink" \in Wheres
      BY DEF Wheres
    <3> QED BY <1>1, <1>4, <2>1, <2>2, <3>1, GotoEffect DEF Shape
  <2> QED BY <2>1, <2>2, <1>4, <1>5
<1>8. CASE Sink(t)
  <2>1. step[t].at = "sink"
    BY <1>8 DEF Sink, At
  <2>2. \/ /\ step'[t].at = step[t].at /\ step'[t].rec = step[t].rec
           /\ step'[t].filter = step[t].filter /\ step'[t].then = step[t].then
           /\ step'[t].asserted = step[t].asserted /\ step'[t].cleared = step[t].cleared
           /\ \A u \in Threads : u # t => step'[u] = step[u]
        \/ Goto(t, step[t].then)
    BY <1>1, <1>8, NextSinkEffect DEF Sink
  <2> QED BY <1>1, <1>4, <1>5, <2>1, <2>2 DEF Shape
<1>9. CASE Panic(t)
  <2>1. step[t].at = "panic"
    BY <1>9 DEF Panic, At
  <2>2. CASE Goto(t, "unwind")
    <3>1. "unwind" \in Wheres
      BY DEF Wheres
    <3> QED BY <1>1, <1>4, <2>1, <2>2, <3>1, GotoEffect DEF Shape
  <2>3. CASE Emit(t, "sink", Record("panic", step[t].rec.id, Error, None), None, "flush")
    <3> DEFINE r == Record("panic", step[t].rec.id, Error, None)
    <3>1. Error \in Level \cup {Off} /\ "panic" \in Whats /\ step[t].rec.id \in Nat
      BY <1>1 DEF Whats, Level, Error, Trace, Records
    <3>2. r \in Records /\ r.what = "panic" /\ r.level = Error
      BY <3>1, RecordType
    <3> HIDE DEF r
    <3>3. "sink" \in Wheres /\ "flush" \in Wheres
      BY DEF Wheres
    <3>4. Emit(t, "sink", r, None, "flush")
      BY <2>3 DEF r
    <3> QED BY <1>4, <3>2, <3>3, <3>4, EmitEffect DEF Shape, Own
  <2> QED BY <1>9, <2>2, <2>3 DEF Panic
<1>10. CASE Flush(t)
  <2>1. step[t].at = "flush" /\ "unwind" \in Wheres
    BY <1>10 DEF Flush, At, Wheres
  <2>2. \/ /\ step'[t].at = step[t].at /\ step'[t].rec = step[t].rec
           /\ step'[t].filter = step[t].filter /\ step'[t].then = step[t].then
           /\ step'[t].asserted = step[t].asserted /\ step'[t].cleared = step[t].cleared
           /\ \A u \in Threads : u # t => step'[u] = step[u]
        \/ Goto(t, "unwind")
    BY <1>1, <1>10, <2>1, NextSinkEffect DEF Flush
  <2>3. CASE Goto(t, "unwind")
    BY <1>1, <1>4, <2>1, <2>3, GotoEffect DEF Shape
  <2> QED BY <1>1, <1>4, <2>1, <2>2, <2>3 DEF Shape
<1> QED BY <1>6, <1>7, <1>8, <1>9, <1>10 DEF Round

\* The beginnings of a round: enter, return, a macro.
LEMMA BeginStep ==
    ASSUME Types, Shaped, NEW t \in Threads, Begin(t)
    PROVE  /\ stack[t] # <<>> /\ step[t].at = "run" /\ Top(t).at = "begin"
           /\ step'[t].at = "max" /\ step'[t].rec.what = "enter"
           /\ step'[t].rec.id = Top(t).id /\ step'[t].rec.level = Top(t).level
           /\ step'[t].rec \in Records /\ Shape(step'[t])
           /\ \A u \in Threads : u # t => step'[u] = step[u]
           /\ UNCHANGED <<config, levels, calls, records, events, used, exited>>
<1>1. /\ stack[t] # <<>> /\ step[t].at = "run" /\ Top(t).at = "begin"
      /\ UNCHANGED <<config, levels, calls, records, events, used, exited>>
      /\ Emit(t, "max", Record("enter", Top(t).id, Top(t).level, None), None, "run")
    BY DEF Begin, Running, At
<1>2. Top(t).id \in Nat /\ Top(t).level \in Level /\ "enter" \in Whats
    BY <1>1, TopFrame DEF Frames, Whats, Own
<1> DEFINE r == Record("enter", Top(t).id, Top(t).level, None)
<1>3. r \in Records /\ r.what = "enter" /\ r.id = Top(t).id /\ r.level = Top(t).level
    BY <1>2, RecordType
<1> HIDE DEF r
<1>4. Emit(t, "max", r, None, "run") /\ "max" \in Wheres /\ "run" \in Wheres
    BY <1>1 DEF r, Wheres
<1>5. ~step[t].asserted
    BY <1>1 DEF Shaped, Shape
<1> QED BY <1>1, <1>3, <1>4, <1>5, EmitEffect DEF Shape

\* A return is about to be logged.
LEMMA LeaveStep ==
    ASSUME Types, Shaped, NEW t \in Threads, NEW early \in BOOLEAN, Leave(t, early)
    PROVE  /\ stack[t] # <<>> /\ step[t].at = "run" /\ Top(t).at = "body"
           /\ step'[t].at = "max" /\ step'[t].rec.what = "return"
           /\ step'[t].rec.id = Top(t).id /\ step'[t].rec.level = Top(t).level
           /\ step'[t].rec \in Records /\ Shape(step'[t])
           /\ \A u \in Threads : u # t => step'[u] = step[u]
           /\ UNCHANGED <<config, levels, stack, calls, records, events, used, exited>>
<1>1. /\ stack[t] # <<>> /\ step[t].at = "run" /\ Top(t).at = "body"
      /\ UNCHANGED <<config, levels, stack, calls, records, events, used, exited>>
      /\ Emit(t, "max", Record("return", Top(t).id, Top(t).level, None), None, "return")
    BY DEF Leave, Running, At, InBody, Top, AfterBody
<1>2. Top(t).id \in Nat /\ Top(t).level \in Level /\ "return" \in Whats
    BY <1>1, TopFrame DEF Frames, Whats, Own
<1> DEFINE r == Record("return", Top(t).id, Top(t).level, None)
<1>3. r \in Records /\ r.what = "return" /\ r.id = Top(t).id /\ r.level = Top(t).level
    BY <1>2, RecordType
<1> HIDE DEF r
<1>4. Emit(t, "max", r, None, "return") /\ "max" \in Wheres /\ "return" \in Wheres
    BY <1>1 DEF r, Wheres
<1>5. ~step[t].asserted
    BY <1>1 DEF Shaped, Shape
<1>6. /\ step'[t].at = "max" /\ step'[t].k = 1 /\ step'[t].rec = r /\ step'[t].filter = None
      /\ step'[t].then = "return" /\ step'[t].asserted = step[t].asserted
      /\ \A u \in Threads : u # t => step'[u] = step[u]
    BY <1>3, <1>4, EmitEffect
<1>7. Shape(step'[t])
    BY <1>3, <1>5, <1>6 DEF Shape
<1> QED BY <1>1, <1>3, <1>6, <1>7

\* A macro starts in a thread that runs.
LEMMA MacroStep ==
    ASSUME Types, Shaped, NEW t \in Threads, Macro(t)
    PROVE  /\ step[t].at = "run" /\ step'[t].at = "max" /\ step'[t].rec.what \in {"log", "assert"}
           /\ Shape(step'[t])
           /\ \A u \in Threads : u # t => step'[u] = step[u]
           /\ UNCHANGED <<config, levels, stack, calls, records, events, exited>>
<1>1. PICK level \in Level, f \in Filters \cup {None} :
              \/ UseMacro(t, "log", level, f, "run")
              \/ level = Error /\ UseMacro(t, "assert", level, f, "panic")
    BY MacroKinds
<1>2. step[t].at = "run" => ~step[t].asserted
    BY DEF Shaped, Shape
<1>3. "run" \in Wheres /\ "panic" \in Wheres
    BY DEF Wheres
<1>4. CASE UseMacro(t, "log", level, f, "run")
    BY <1>2, <1>3, <1>4, MacroEffect DEF Shape
<1>5. CASE level = Error /\ UseMacro(t, "assert", level, f, "panic")
    BY <1>2, <1>3, <1>5, MacroEffect DEF Shape
<1> QED BY <1>1, <1>4, <1>5

\* The end of the innermost calls of a thread: a return, a dropped future, a panic.
Ending(t, n, how) ==
    /\ stack[t] # <<>> /\ n \in 0..(Len(stack[t]) - 1) /\ Ended(t, n, how)
    /\ \/ step[t].at = "run" /\ how = "cancelled" /\ step' = step
       \/ /\ step[t].at = "return" /\ how = "returned" /\ n = Len(stack[t]) - 1
          /\ step' = [step EXCEPT ![t] = Idle]
       \/ step[t].at = "unwind" /\ how = "panicked" /\ step' = [step EXCEPT ![t] = Idle]
    /\ UNCHANGED <<config, levels, records, events, used, exited>>

\* The ways a call ends.
LEMMA EndingKinds ==
    ASSUME Types, Shaped, NEW t \in Threads,
           Return(t) \/ \E n \in 0..MaxCalls : Cancel(t, n) \/ Unwind(t, n)
    PROVE  \E n \in Nat, how \in {"returned", "cancelled", "panicked"} : Ending(t, n, how)
<1>1. CASE Return(t)
  <2>1. stack[t] # <<>>
    BY <1>1 DEF Return, At, Shaped, Shape, Framed, Own
  <2>2. (Len(stack[t]) - 1) \in 0..(Len(stack[t]) - 1)
    BY <2>1, TopFrame
  <2>3. Ending(t, Len(stack[t]) - 1, "returned")
    BY <1>1, <2>1, <2>2 DEF Return, At, Ending
  <2> QED BY <2>2, <2>3
<1>2. ASSUME NEW n \in 0..MaxCalls, Cancel(t, n) \/ Unwind(t, n)
      PROVE  Ending(t, n, "cancelled") \/ Ending(t, n, "panicked")
  <2>1. stack[t] \in Seq(Frames) /\ n \in 0..(Len(stack[t]) - 1)
    BY <1>2 DEF Types, Cancel, Unwind
  <2>2. stack[t] # <<>>
    BY <2>1, BoundsAssumption
  <2> QED BY <1>2, <2>1, <2>2 DEF Ending, Cancel, Unwind, Running, At
<1>3. \A n \in 0..MaxCalls : n \in Nat
    BY BoundsAssumption
<1> QED BY <1>1, <1>2, <1>3

\* What it does, with the shape of things.
LEMMA EndingStep ==
    ASSUME Types, Shaped, NEW t \in Threads, NEW n \in Nat,
           NEW how \in {"returned", "cancelled", "panicked"}, Ending(t, n, how)
    PROVE  /\ stack' \in [Threads -> Seq(Frames)] /\ Len(stack'[t]) = n /\ n < Len(stack[t])
           /\ Len(stack[t]) \in Nat /\ Len(calls) \in Nat
           /\ \A a \in 1..n : stack'[t][a] = stack[t][a]
           /\ \A u \in Threads : u # t => stack'[u] = stack[u] /\ step'[u] = step[u]
           /\ Len(calls') = Len(calls)
           /\ \A c \in 1..Len(calls) :
                 /\ calls'[c].thread = calls[c].thread /\ calls'[c].steady = calls[c].steady
                 /\ \/ /\ \E d \in (n + 1)..Len(stack[t]) : stack[t][d].id = c
                       /\ calls'[c].how = how /\ calls[c].how = "open" /\ calls[c].thread = t
                    \/ /\ ~\E d \in (n + 1)..Len(stack[t]) : stack[t][d].id = c
                       /\ calls'[c].how = calls[c].how
           /\ step'[t].at = "run" /\ step'[t].rec.what = "none" /\ Shape(step'[t])
           /\ UNCHANGED <<config, levels, records>>
<1>1. how \in Hows /\ n \in 0..(Len(stack[t]) - 1) /\ Ended(t, n, how)
    BY DEF Hows, Ending
<1>2. stack[t] \in Seq(Frames) /\ calls \in Seq(Calls) /\ step \in [Threads -> Steps]
    BY DEF Types
<1>3. Len(stack[t]) \in Nat /\ Len(calls) \in Nat /\ n < Len(stack[t])
    BY <1>1, <1>2
<1>4. /\ stack' \in [Threads -> Seq(Frames)] /\ Len(stack'[t]) = n
      /\ \A a \in 1..n : stack'[t][a] = stack[t][a]
      /\ \A u \in Threads : u # t => stack'[u] = stack[u]
      /\ Len(calls') = Len(calls)
    BY <1>1, EndedEffect
<1>5. \A c \in 1..Len(calls) :
         /\ calls'[c].thread = calls[c].thread /\ calls'[c].steady = calls[c].steady
         /\ \/ /\ \E d \in (n + 1)..Len(stack[t]) : stack[t][d].id = c
               /\ calls'[c].how = how
            \/ /\ ~\E d \in (n + 1)..Len(stack[t]) : stack[t][d].id = c
               /\ calls'[c].how = calls[c].how
    BY <1>1, EndedEffect
<1>6. \A d \in (n + 1)..Len(stack[t]) :
          calls[stack[t][d].id].how = "open" /\ calls[stack[t][d].id].thread = t
  <2> TAKE d \in (n + 1)..Len(stack[t])
  <2>1. d \in 1..Len(stack[t])
    BY <1>3
  <2> QED BY <2>1 DEF Shaped, Nested
<1>7. /\ step'[t].at = "run" /\ step'[t].rec.what = "none" /\ Shape(step'[t])
      /\ \A u \in Threads : u # t => step'[u] = step[u]
  <2>1. step[t].at = "run" => step[t].rec.what = "none" /\ Shape(step[t])
    BY DEF Shaped, Shape
  <2>2. /\ Idle.at = "run" /\ Idle.rec.what = "none" /\ Idle.asserted = FALSE /\ Idle.cleared = FALSE
    BY DEF Idle, NoRecord, Record
  <2>3. Shape(Idle)
    BY <2>2 DEF Shape
  <2>4. (step' = step /\ step[t].at = "run") \/ step' = [step EXCEPT ![t] = Idle]
    BY DEF Ending
  <2> QED BY <1>2, <2>1, <2>2, <2>3, <2>4
<1>8. UNCHANGED <<config, levels, records>>
    BY DEF Ending
<1>9. ASSUME NEW c \in 1..Len(calls)
      PROVE  /\ calls'[c].thread = calls[c].thread /\ calls'[c].steady = calls[c].steady
             /\ \/ /\ \E d \in (n + 1)..Len(stack[t]) : stack[t][d].id = c
                   /\ calls'[c].how = how /\ calls[c].how = "open" /\ calls[c].thread = t
                \/ /\ ~\E d \in (n + 1)..Len(stack[t]) : stack[t][d].id = c
                   /\ calls'[c].how = calls[c].how
    BY <1>5, <1>6
<1> QED BY <1>9, <1>3, <1>4, <1>5, <1>6, <1>7, <1>8

\* A change of log's maximal level, by the program or by a setup.
LevelStep == \E l \in Level \cup {Off} :
    ChangeMaxLevel(l) /\ UNCHANGED <<config, step, stack, records, signal, mark, exited>>

\* A setup clears a ring.
Clearing == OpenSink /\ setup.k \in Rings

\* The kinds of steps the proofs tell apart.
LEMMA NextKinds ==
    ASSUME Types, Shaped, [Next]_vars
    PROVE  \/ \E t \in Threads :
                 \/ Round(t) \/ Begin(t) \/ Macro(t)
                 \/ \E early \in BOOLEAN : Leave(t, early)
                 \/ \E fn \in Fns : Call(t, fn)
                 \/ \E n \in Nat, how \in {"returned", "cancelled", "panicked"} : Ending(t, n, how)
           \/ LevelStep \/ Clearing
           \/ UNCHANGED <<config, maxLevel, step, stack, calls, hist>>
<1> USE DEF levels, records, events
<1>1. ASSUME NEW t \in Threads, Abort(t) PROVE UNCHANGED <<config, maxLevel, step, stack, calls, hist>>
    BY <1>1 DEF Abort
<1>2. ASSUME NEW l \in MaxLevels, SetMaxLevel(l) PROVE LevelStep
  <2>1. l \in Level \cup {Off}
    BY LevelsAssumption
  <2> QED BY <1>2, <2>1 DEF SetMaxLevel, LevelStep
<1>3. ASSUME ResetLevel PROVE LevelStep
  <2>1. GetMaxLevel(config) \in Level \cup {Off}
    BY MaxLevelType DEF Types
  <2> QED BY <1>3, <2>1 DEF ResetLevel, LevelStep
<1>4. ASSUME \/ \E a \in Atomics, l \in FilterLevels : SetLevel(a, l)
             \/ SetupAgain \/ SignalArrives \/ ReopenSink \/ Exit \/ (OpenSink /\ setup.k \notin Rings)
             \/ UNCHANGED vars
      PROVE  UNCHANGED <<config, maxLevel, step, stack, calls, hist>>
    BY <1>4 DEF SetLevel, SetupAgain, SignalArrives, ReopenSink, Exit, OpenSink, vars
<1>5. ASSUME NEW t \in Threads, Return(t) \/ \E n \in 0..MaxCalls : Cancel(t, n) \/ Unwind(t, n)
      PROVE  \E n \in Nat, how \in {"returned", "cancelled", "panicked"} : Ending(t, n, how)
    BY <1>5, EndingKinds
<1> QED BY <1>1, <1>2, <1>3, <1>4, <1>5 DEF Next, Round, Macro, Clearing

\* A ring that is opened again starts empty.
LEMMA ClearingEffect ==
    ASSUME Types, Clearing
    PROVE  /\ \A t \in Threads :
                 /\ step'[t].at = step[t].at /\ step'[t].k = step[t].k /\ step'[t].rec = step[t].rec
                 /\ step'[t].filter = step[t].filter /\ step'[t].then = step[t].then
                 /\ step'[t].asserted = step[t].asserted
                 /\ step'[t].cleared = (step[t].at # "run")
           /\ \A k \in Sinks : k # setup.k => hist'[k] = hist[k]
           /\ setup.k \in Rings /\ \A t \in Threads : hist'[setup.k][t] = <<>>
           /\ UNCHANGED <<config, maxLevel, stack, calls, file, broken>>
<1>1. /\ setup.k \in Rings
      /\ hist' = [hist EXCEPT ![setup.k] = [t \in Threads |-> <<>>]]
      /\ step' = [t \in Threads |-> [step[t] EXCEPT !.cleared = step[t].at # "run"]]
      /\ UNCHANGED <<config, maxLevel, stack, calls, file, broken>>
    BY DEF Clearing, OpenSink, levels
<1>2. ASSUME NEW t \in Threads
      PROVE  /\ step'[t].at = step[t].at /\ step'[t].k = step[t].k /\ step'[t].rec = step[t].rec
             /\ step'[t].filter = step[t].filter /\ step'[t].then = step[t].then
             /\ step'[t].asserted = step[t].asserted
             /\ step'[t].cleared = (step[t].at # "run")
  <2>1. step[t] \in Steps
    BY DEF Types
  <2>2. step'[t] = [step[t] EXCEPT !.cleared = step[t].at # "run"]
    BY <1>1
  <2> QED BY <2>1, <2>2 DEF Steps
<1>3. \A k \in Sinks : k # setup.k => hist'[k] = hist[k]
    BY <1>1 DEF Types
<1>4. \A t \in Threads : hist'[setup.k][t] = <<>>
    BY <1>1, SinkTypes DEF Types
<1> QED BY <1>1, <1>2, <1>3, <1>4

\* Stacks and calls left as they are.
LEMMA ShapedFrame ==
    ASSUME Types, Shaped, Opened, Len(calls') = Len(calls), stack' = stack,
           \A c \in 1..Len(calls) : /\ calls'[c].thread = calls[c].thread
                                    /\ calls'[c].how = calls[c].how,
           \A u \in Threads : /\ Shape(step'[u])
                              /\ step'[u].rec.what \in Own => step'[u].rec = step[u].rec
    PROVE  Shaped' /\ Opened'
<1>1. ASSUME NEW u \in Threads PROVE Framed(u)'
    BY <1>1 DEF Shaped, Framed, Top
<1>2. ASSUME NEW u \in Threads PROVE Nested(u)'
  <2>1. stack'[u] = stack[u]
    OBVIOUS
  <2> QED BY <2>1 DEF Shaped, Nested
<1>3. Opened'
  <2>1. ASSUME NEW c \in 1..Len(calls), Stacked(c) PROVE Stacked(c)'
    <3>1. calls'[c].thread = calls[c].thread /\ calls'[c].how = calls[c].how
      OBVIOUS
    <3> QED BY <2>1, <3>1 DEF Stacked
  <2> QED BY <2>1 DEF Opened
<1> QED BY <1>1, <1>2, <1>3 DEF Shaped

\* The fields of a call.
LEMMA CallTypes ==
    ASSUME Types, NEW c \in 1..Len(calls)
    PROVE  calls[c].thread \in Threads /\ calls[c].how \in Hows /\ calls[c].steady \in BOOLEAN
<1>1. calls[c] \in Calls
    BY ElementOfSeq DEF Types
<1> QED BY <1>1 DEF Calls

\* Every step keeps the steps and the stacks in shape.
LEMMA ShapedStep ==
    ASSUME Types, Shaped, Opened, [Next]_vars
    PROVE  Shaped' /\ Opened'
<1>1. \A u \in Threads : step[u] \in Steps /\ Shape(step[u]) /\ Framed(u) /\ Nested(u)
    BY DEF Types, Shaped
<1>2. Len(calls) \in Nat /\ \A u \in Threads : Len(stack[u]) \in Nat
  <2>1. \A u \in Threads : stack[u] \in Seq(Frames)
    BY DEF Types
  <2> QED BY <2>1 DEF Types
<1>3. ASSUME NEW t \in Threads, Round(t) PROVE Shaped' /\ Opened'
    BY <1>1, <1>3, RoundShape, ShapedFrame
<1>4. ASSUME NEW t \in Threads, Macro(t) PROVE Shaped' /\ Opened'
  <2>1. step'[t].rec.what \notin Own /\ UNCHANGED <<stack, calls>>
    BY <1>4, MacroStep DEF Own
  <2> QED BY <1>1, <1>4, <2>1, MacroStep, ShapedFrame
<1>5. ASSUME NEW t \in Threads, NEW early \in BOOLEAN, Leave(t, early) PROVE Shaped' /\ Opened'
  <2>1. /\ stack[t] # <<>> /\ Top(t).at = "body"
        /\ step'[t].rec.id = Top(t).id /\ step'[t].rec.level = Top(t).level
        /\ Shape(step'[t]) /\ \A u \in Threads : u # t => step'[u] = step[u]
        /\ stack' = stack /\ calls' = calls
    BY <1>5, LeaveStep
  <2>2. ASSUME NEW u \in Threads PROVE Framed(u)' /\ Shape(step'[u])
    BY <1>1, <2>1 DEF Framed, Top
  <2>3. ASSUME NEW u \in Threads PROVE Nested(u)'
    BY <1>1, <2>1 DEF Nested
  <2>4. Opened'
    BY <2>1 DEF Opened, Stacked
  <2> QED BY <2>2, <2>3, <2>4 DEF Shaped
<1>6. ASSUME NEW t \in Threads, Begin(t) PROVE Shaped' /\ Opened'
  <2>1. /\ stack[t] # <<>> /\ Top(t) = stack[t][Len(stack[t])] /\ Len(stack[t]) \in Nat \ {0}
        /\ step'[t].rec.id = Top(t).id /\ step'[t].rec.level = Top(t).level
        /\ Shape(step'[t]) /\ \A u \in Threads : u # t => step'[u] = step[u]
        /\ calls' = calls
    BY <1>6, BeginStep, TopFrame
  <2>2. /\ Len(stack'[t]) = Len(stack[t])
        /\ \A a \in 1..Len(stack[t]) : /\ stack'[t][a].id = stack[t][a].id
                                       /\ stack'[t][a].level = stack[t][a].level
                                       /\ a # Len(stack[t]) => stack'[t][a] = stack[t][a]
        /\ stack'[t][Len(stack[t])].at = "body"
        /\ \A u \in Threads : u # t => stack'[u] = stack[u]
    BY <1>6, BeginEffect
  <2>3. ASSUME NEW u \in Threads PROVE Framed(u)' /\ Shape(step'[u])
    <3>1. CASE u = t
      <4>1. stack'[t] # <<>> /\ Top(t)' = stack'[t][Len(stack[t])]
        BY <2>1, <2>2 DEF Top, Last
      <4>2. Top(t)'.at = "body" /\ Top(t)'.id = Top(t).id /\ Top(t)'.level = Top(t).level
        BY <2>1, <2>2, <4>1
      <4> QED BY <2>1, <3>1, <4>1, <4>2 DEF Framed
    <3>2. CASE u # t
      BY <1>1, <2>1, <2>2, <3>2 DEF Framed, Top
    <3> QED BY <3>1, <3>2
  <2>4. ASSUME NEW u \in Threads PROVE Nested(u)'
    <3>1. /\ Len(stack'[u]) = Len(stack[u])
          /\ \A a \in 1..Len(stack[u]) : stack'[u][a].id = stack[u][a].id
      BY <2>2
    <3>2. ASSUME NEW a \in 1..Len(stack[u]), a < Len(stack[u]), stack[u][a].at = "body"
          PROVE  stack'[u][a].at = "body"
      <4>1. stack'[u][a] = stack[u][a]
        BY <2>2, <3>2
      <4> QED BY <3>2, <4>1
    <3>3. Nested(u)
      BY <1>1
    <3>4. ASSUME NEW a \in 1..Len(stack[u]), a < Len(stack[u]) PROVE stack'[u][a].at = "body"
      BY <3>2, <3>3, <3>4 DEF Nested
    <3> QED BY <2>1, <3>1, <3>3, <3>4 DEF Nested
  <2>5. Opened'
    <3>1. \A u \in Threads : /\ Len(stack'[u]) = Len(stack[u])
                             /\ \A a \in 1..Len(stack[u]) : stack'[u][a].id = stack[u][a].id
      BY <2>2
    <3>2. \A c \in 1..Len(calls) : calls[c].thread \in Threads
      BY CallTypes
    <3>3. ASSUME NEW c \in 1..Len(calls), Stacked(c) PROVE Stacked(c)'
      <4>1. SUFFICES ASSUME calls[c].how = "open"
                     PROVE  \E a \in 1..Len(stack'[calls[c].thread]) :
                                stack'[calls[c].thread][a].id = c
        BY <2>1 DEF Stacked
      <4>2. PICK a \in 1..Len(stack[calls[c].thread]) : stack[calls[c].thread][a].id = c
        BY <3>3, <4>1 DEF Stacked
      <4> QED BY <3>1, <3>2, <4>2
    <3> QED BY <1>1, <2>1, <3>3 DEF Opened
  <2> QED BY <2>3, <2>4, <2>5 DEF Shaped
<1>7. ASSUME NEW t \in Threads, NEW fn \in Fns, Call(t, fn) PROVE Shaped' /\ Opened'
  <2>0. calls'[Len(calls) + 1] = [thread |-> t, how |-> "open", steady |-> TRUE]
    BY <1>7, CallEffect
  <2>2. calls'[Len(calls) + 1].thread = t /\ calls'[Len(calls) + 1].how = "open"
    BY <2>0
  <2>1. /\ Len(calls') = Len(calls) + 1
        /\ \A c \in 1..Len(calls) : calls'[c] = calls[c]
        /\ Len(stack'[t]) = Len(stack[t]) + 1
        /\ \A a \in 1..Len(stack[t]) : stack'[t][a] = stack[t][a]
        /\ stack'[t][Len(stack[t]) + 1].id = Len(calls) + 1
        /\ \A u \in Threads : u # t => stack'[u] = stack[u]
    BY <1>7, CallEffect
  <2>3. step[t].at = "run" /\ step' = step /\ (stack[t] = <<>> \/ Top(t).at = "body")
    BY <1>7 DEF Call, Running, At, InBody, Top
  <2>4. ASSUME NEW u \in Threads PROVE Framed(u)' /\ Shape(step'[u])
    <3>1. step[t].rec.what \notin Own
      BY <1>1, <2>3 DEF Shape, Own
    <3> QED BY <1>1, <2>1, <2>3, <3>1 DEF Framed, Top
  <2>5. ASSUME NEW u \in Threads PROVE Nested(u)'
    <3>1. CASE u = t
      <4>1. Len(stack[t]) <= Len(calls) /\ \A b \in 1..Len(stack[t]) : stack[t][b].id <= Len(calls)
        <5>1. \A b \in 1..Len(stack[t]) : stack[t][b].id \in 1..Len(calls) /\ b <= stack[t][b].id
          BY <1>1 DEF Nested
        <5>2. CASE Len(stack[t]) = 0
          BY <1>2, <5>1, <5>2
        <5>3. CASE Len(stack[t]) # 0
          <6>1. Len(stack[t]) \in 1..Len(stack[t])
            BY <1>2, <5>3
          <6> QED BY <1>2, <5>1, <6>1
        <5> QED BY <5>2, <5>3
      <4>2. \A b \in 1..Len(stack[t]) : stack[t][b].at = "body"
        <5> TAKE b \in 1..Len(stack[t])
        <5>1. CASE b < Len(stack[t])
          BY <1>1, <5>1 DEF Nested
        <5>2. CASE b = Len(stack[t])
          <6>1. stack[t] # <<>>
            BY <5>2
          <6> QED BY <2>3, <5>2, <6>1, TopFrame
        <5> QED BY <1>2, <5>1, <5>2
      <4>3. ASSUME NEW a \in 1..Len(stack'[t])
            PROVE  /\ stack'[t][a].id \in 1..Len(calls') /\ a <= stack'[t][a].id
                   /\ calls'[stack'[t][a].id].thread = t /\ calls'[stack'[t][a].id].how = "open"
                   /\ a < Len(stack'[t]) => stack'[t][a].at = "body"
                   /\ \A b \in 1..Len(stack'[t]) : b < a => stack'[t][b].id < stack'[t][a].id
        <5>1. CASE a \in 1..Len(stack[t])
          <6>1. /\ stack'[t][a] = stack[t][a] /\ stack[t][a].id \in 1..Len(calls)
                /\ a <= stack[t][a].id /\ calls[stack[t][a].id].thread = t
                /\ calls[stack[t][a].id].how = "open"
                /\ \A b \in 1..Len(stack[t]) : b < a => stack[t][b].id < stack[t][a].id
            BY <1>1, <2>1, <5>1 DEF Nested
          <6>2. \A b \in 1..Len(stack'[t]) : b < a => b \in 1..Len(stack[t])
            BY <1>2, <5>1
          <6>3. \A b \in 1..Len(stack'[t]) : b < a => stack'[t][b].id < stack'[t][a].id
            BY <2>1, <6>1, <6>2
          <6>4. calls'[stack[t][a].id] = calls[stack[t][a].id]
            BY <2>1, <6>1
          <6>5. stack[t][a].id \in 1..Len(calls') /\ stack[t][a].at = "body"
            BY <1>2, <2>1, <4>2, <5>1, <6>1
          <6> QED BY <6>1, <6>3, <6>4, <6>5
        <5>2. CASE a = Len(stack[t]) + 1
          <6>1. \A b \in 1..Len(stack'[t]) : b < a => b \in 1..Len(stack[t])
            BY <1>2, <5>2
          <6>2. \A b \in 1..Len(stack'[t]) : b < a => stack'[t][b].id < stack'[t][a].id
            <7> TAKE b \in 1..Len(stack'[t])
            <7> HAVE b < a
            <7>1. b \in 1..Len(stack[t])
              BY <6>1
            <7>2. stack'[t][b].id \in 1..Len(calls)
              BY <1>1, <2>1, <7>1 DEF Nested
            <7> QED BY <1>2, <2>1, <5>2, <7>2
          <6>3. stack'[t][a].id = Len(calls) + 1 /\ ~(a < Len(stack'[t]))
            BY <1>2, <2>1, <5>2
          <6>4. Len(calls) + 1 \in 1..Len(calls') /\ a <= Len(calls) + 1
            BY <1>2, <2>1, <4>1, <5>2
          <6> QED BY <2>2, <6>2, <6>3, <6>4
        <5> QED BY <1>2, <2>1, <5>1, <5>2
      <4> QED BY <3>1, <4>3 DEF Nested
    <3>2. CASE u # t
      <4>1. stack'[u] = stack[u]
        BY <2>1, <3>2
      <4>2. \A a \in 1..Len(stack[u]) : /\ stack[u][a].id \in 1..Len(calls')
                                        /\ calls'[stack[u][a].id] = calls[stack[u][a].id]
        <5> TAKE a \in 1..Len(stack[u])
        <5>1. stack[u][a].id \in 1..Len(calls)
          BY <1>1 DEF Nested
        <5> QED BY <1>2, <2>1, <5>1
      <4> QED BY <1>1, <4>1, <4>2 DEF Nested
    <3> QED BY <3>1, <3>2
  <2>6. ASSUME NEW c \in 1..Len(calls') PROVE Stacked(c)'
    <3>1. CASE c = Len(calls) + 1
      <4>1. Len(stack[t]) + 1 \in 1..Len(stack'[t])
        BY <1>2, <2>1
      <4>2. stack'[t][Len(stack[t]) + 1].id = c /\ calls'[c].thread = t
        BY <2>1, <2>2, <3>1
      <4> QED BY <4>1, <4>2 DEF Stacked
    <3>2. CASE c \in 1..Len(calls)
      <4>1. Stacked(c) /\ calls'[c] = calls[c]
        BY <2>1, <3>2 DEF Opened
      <4>2. CASE calls[c].thread = t
        <5>1. SUFFICES ASSUME calls[c].how = "open"
                       PROVE  \E a \in 1..Len(stack'[t]) : stack'[t][a].id = c
          BY <4>1, <4>2 DEF Stacked
        <5>2. PICK a \in 1..Len(stack[t]) : stack[t][a].id = c
          BY <4>1, <4>2, <5>1 DEF Stacked
        <5>3. a \in 1..Len(stack'[t]) /\ stack'[t][a] = stack[t][a]
          BY <1>2, <2>1
        <5> QED BY <5>2, <5>3
      <4>3. CASE calls[c].thread # t
        <5>1. calls[c].thread \in Threads
          BY <3>2, CallTypes
        <5> QED BY <2>1, <4>1, <4>3, <5>1 DEF Stacked
      <4> QED BY <4>2, <4>3
    <3> QED BY <1>2, <2>1, <3>1, <3>2
  <2> QED BY <2>4, <2>5, <2>6 DEF Shaped, Opened
<1>8. ASSUME NEW t \in Threads, NEW n \in Nat, NEW how \in {"returned", "cancelled", "panicked"},
             Ending(t, n, how)
      PROVE  Shaped' /\ Opened'
  <2>1. /\ stack' \in [Threads -> Seq(Frames)] /\ Len(stack'[t]) = n /\ n < Len(stack[t])
        /\ \A a \in 1..n : stack'[t][a] = stack[t][a]
        /\ \A u \in Threads : u # t => stack'[u] = stack[u] /\ step'[u] = step[u]
        /\ Len(calls') = Len(calls)
        /\ step'[t].rec.what = "none" /\ Shape(step'[t])
    BY <1>8, EndingStep
  <2>2. \A c \in 1..Len(calls) :
                 /\ calls'[c].thread = calls[c].thread
                 /\ \/ /\ \E d \in (n + 1)..Len(stack[t]) : stack[t][d].id = c
                       /\ calls'[c].how = how /\ calls[c].thread = t
                    \/ /\ ~\E d \in (n + 1)..Len(stack[t]) : stack[t][d].id = c
                       /\ calls'[c].how = calls[c].how
    BY <1>8, EndingStep
  <2>3. ASSUME NEW u \in Threads PROVE Framed(u)' /\ Shape(step'[u])
    <3>1. CASE u = t
      BY <2>1, <3>1 DEF Framed, Own
    <3>2. CASE u # t
      BY <1>1, <2>1, <3>2 DEF Framed, Top
    <3> QED BY <3>1, <3>2
  <2>4. ASSUME NEW u \in Threads PROVE Nested(u)'
    <3>1. CASE u = t
      <4>1. ASSUME NEW a \in 1..n
            PROVE  /\ a \in 1..Len(stack[t]) /\ stack'[t][a] = stack[t][a]
                   /\ calls'[stack[t][a].id].how = "open"
        <5>1. a \in 1..Len(stack[t]) /\ stack[t][a].id \in 1..Len(calls)
              /\ calls[stack[t][a].id].how = "open"
          BY <1>1, <1>2, <2>1 DEF Nested
        <5>2. \A d \in (n + 1)..Len(stack[t]) : stack[t][d].id # stack[t][a].id
          <6> TAKE d \in (n + 1)..Len(stack[t])
          <6>1. d \in 1..Len(stack[t]) /\ a < d
            BY <1>2
          <6>2. stack[t][a].id < stack[t][d].id /\ stack[t][d].id \in 1..Len(calls)
            BY <1>1, <5>1, <6>1 DEF Nested
          <6> QED BY <5>1, <6>2
        <5>3. calls'[stack[t][a].id].how = calls[stack[t][a].id].how
          BY <2>2, <5>1, <5>2
        <5>4. stack'[t][a] = stack[t][a]
          BY <2>1
        <5> QED BY <5>1, <5>3, <5>4
      <4>2. ASSUME NEW a \in 1..n
            PROVE  /\ stack'[t][a].id \in 1..Len(calls) /\ a <= stack'[t][a].id
                   /\ calls'[stack'[t][a].id].thread = t /\ calls'[stack'[t][a].id].how = "open"
                   /\ a < n => stack'[t][a].at = "body"
                   /\ \A b \in 1..n : b < a => stack'[t][b].id < stack'[t][a].id
        <5>1. /\ stack[t][a].id \in 1..Len(calls) /\ a <= stack[t][a].id
              /\ calls[stack[t][a].id].thread = t
              /\ a < Len(stack[t]) => stack[t][a].at = "body"
              /\ \A b \in 1..Len(stack[t]) : b < a => stack[t][b].id < stack[t][a].id
          BY <1>1, <4>1 DEF Nested
        <5>2. \A b \in 1..n : b < a => stack'[t][b].id < stack'[t][a].id
          <6> TAKE b \in 1..n
          <6>1. b \in 1..Len(stack[t])
            BY <4>1
          <6> QED BY <4>1, <5>1, <6>1
        <5>3. calls'[stack[t][a].id].thread = t
          BY <2>2, <5>1
        <5>4. a < n => a < Len(stack[t])
          BY <1>2, <2>1
        <5> QED BY <4>1, <5>1, <5>2, <5>3, <5>4
      <4> QED BY <2>1, <3>1, <4>2 DEF Nested
    <3>2. CASE u # t
      <4>1. \A a \in 1..Len(stack[u]) :
               /\ stack[u][a].id \in 1..Len(calls) /\ calls[stack[u][a].id].thread = u
        BY <1>1 DEF Nested
      <4>2. \A a \in 1..Len(stack[u]) : /\ calls'[stack[u][a].id].thread = u
                                        /\ calls'[stack[u][a].id].how = calls[stack[u][a].id].how
        BY <2>2, <3>2, <4>1
      <4>3. stack'[u] = stack[u] /\ Len(calls') = Len(calls)
        BY <2>1, <3>2
      <4> QED BY <1>1, <4>2, <4>3 DEF Nested
    <3> QED BY <3>1, <3>2
  <2>5. ASSUME NEW c \in 1..Len(calls') PROVE Stacked(c)'
    <3>1. Stacked(c) /\ calls'[c].thread = calls[c].thread /\ calls[c].thread \in Threads
      <4>1. c \in 1..Len(calls)
        BY <2>1
      <4> QED BY <2>2, <4>1, CallTypes DEF Opened
    <3>2. SUFFICES ASSUME calls'[c].how = "open"
                   PROVE  \E a \in 1..Len(stack'[calls[c].thread]) : stack'[calls[c].thread][a].id = c
      BY <3>1 DEF Stacked
    <3>3. calls[c].how = "open" /\ ~\E d \in (n + 1)..Len(stack[t]) : stack[t][d].id = c
      BY <2>1, <2>2, <3>2
    <3>4. PICK a \in 1..Len(stack[calls[c].thread]) : stack[calls[c].thread][a].id = c
      BY <3>1, <3>3 DEF Stacked
    <3>5. CASE calls[c].thread = t
      <4>1. a \in 1..n
        BY <1>2, <3>3, <3>4, <3>5
      <4> QED BY <2>1, <3>4, <3>5, <4>1
    <3>6. CASE calls[c].thread # t
      BY <2>1, <3>1, <3>4, <3>6
    <3> QED BY <3>5, <3>6
  <2> QED BY <2>3, <2>4, <2>5 DEF Shaped, Opened
<1>9. CASE LevelStep
  <2>1. PICK l \in Level \cup {Off} : ChangeMaxLevel(l) /\ step' = step /\ stack' = stack
    BY <1>9 DEF LevelStep
  <2>2. /\ Len(calls') = Len(calls)
        /\ \A c \in 1..Len(calls) : /\ calls'[c].thread = calls[c].thread
                                    /\ calls'[c].how = calls[c].how
    BY <2>1, LevelEffect
  <2> QED BY <1>1, <2>1, <2>2, ShapedFrame
<1>10. CASE Clearing
  <2>1. stack' = stack /\ calls' = calls
    BY <1>10, ClearingEffect
  <2>2. ASSUME NEW u \in Threads PROVE Shape(step'[u]) /\ step'[u].rec = step[u].rec
    <3>1. /\ step'[u].at = step[u].at /\ step'[u].k = step[u].k /\ step'[u].rec = step[u].rec
          /\ step'[u].filter = step[u].filter /\ step'[u].then = step[u].then
          /\ step'[u].asserted = step[u].asserted
          /\ step'[u].cleared = (step[u].at # "run")
      BY <1>10, ClearingEffect
    <3>2. step'[u].at = "run" => ~step'[u].cleared
      BY <3>1
    <3> QED BY <1>1, <3>1, <3>2 DEF Shape
  <2> QED BY <2>1, <2>2, ShapedFrame
<1>11. CASE UNCHANGED <<config, maxLevel, step, stack, calls, hist>>
    BY <1>1, <1>11, ShapedFrame
<1> QED BY <1>3, <1>4, <1>5, <1>6, <1>7, <1>8, <1>9, <1>10, <1>11, NextKinds

\* A call that logs its enter or its return is open.
LEMMA OwnOpen ==
    ASSUME Types, Shaped, NEW t \in Threads, step[t].rec.what \in Own
    PROVE  /\ stack[t] # <<>> /\ Len(stack[t]) \in 1..Len(stack[t])
           /\ Top(t) = stack[t][Len(stack[t])] /\ Top(t).at = "body"
           /\ step[t].rec.id = Top(t).id /\ step[t].rec.level = Top(t).level
           /\ step[t].rec.id \in 1..Len(calls) /\ calls[step[t].rec.id].how = "open"
           /\ calls[step[t].rec.id].thread = t
<1>1. /\ stack[t] # <<>> /\ Top(t).at = "body"
      /\ step[t].rec.id = Top(t).id /\ step[t].rec.level = Top(t).level
    BY DEF Shaped, Framed
<1>2. Len(stack[t]) \in 1..Len(stack[t]) /\ Top(t) = stack[t][Len(stack[t])]
    BY <1>1, TopFrame
<1>3. /\ Top(t).id \in 1..Len(calls) /\ calls[Top(t).id].how = "open"
      /\ calls[Top(t).id].thread = t
    BY <1>2 DEF Shaped, Nested
<1> QED BY <1>1, <1>2, <1>3

-----------------------------------------------------------------------------
\* The level, once it has let a record of a call through.

\* Every step keeps what has passed log::max_level below it.
LEMMA QuietStep ==
    ASSUME Types, Shaped, Opened, Quiet, Shaped', [Next]_vars
    PROVE  Quiet'
<1>1. ASSUME NEW u \in Threads, step'[u] = step[u], maxLevel' = maxLevel,
             \A c \in 1..Len(calls) : calls'[c].steady = calls[c].steady
      PROVE  PassedMax(u)'
    BY <1>1, OwnOpen DEF Quiet, PassedMax
<1>2. ASSUME NEW t \in Threads, Round(t) PROVE Quiet'
  <2>1. maxLevel' = maxLevel /\ calls' = calls /\ \A u \in Threads : u # t => step'[u] = step[u]
    <3>1. maxLevel' = maxLevel
      BY <1>2 DEF Round, CheckMaxLevel, CheckFilter, Sink, Panic, Flush, levels
    <3> QED BY <1>2, <3>1, RoundShape
  <2>2. PassedMax(t)'
    <3>1. SUFFICES ASSUME step'[t].at = "sink", step'[t].rec.what \in Own,
                          calls'[step'[t].rec.id].steady
                   PROVE  step'[t].rec.level <= maxLevel'
      BY DEF PassedMax
    <3>2. step'[t].rec = step[t].rec
      BY <1>2, <3>1, RoundShape
    <3>3. Shape(step[t]) /\ step[t] \in Steps
      BY DEF Shaped, Types
    <3>4. CASE CheckMaxLevel(t)
      <4>1. step[t].rec.level > maxLevel => step'[t].at # "sink"
        <5>1. SUFFICES ASSUME Goto(t, step[t].then) PROVE step'[t].at # "sink"
          <6>1. step[t].rec.level \in Int /\ maxLevel \in Int
            <7>1. step[t].rec \in Records
              BY <3>3 DEF Steps
            <7> QED BY <7>1 DEF Types, Records, Level, Off, Error, Trace
          <6> QED BY <3>4, <6>1, MaxEffect
        <5>2. step[t].then \in {"run", "return", "panic"} /\ step[t].then \in Wheres
          BY <3>3, <3>4 DEF Shape, CheckMaxLevel, At, Steps
        <5>3. Idle.at = "run"
          BY DEF Idle
        <5> QED BY <5>1, <5>2, <5>3, GotoEffect
      <4> QED BY <2>1, <3>1, <3>2, <3>4, <4>1, MaxEffect
    <3>5. CASE CheckFilter(t)
      BY <3>1, <3>2, <3>3, <3>5 DEF CheckFilter, At, Shape, Own
    <3>6. CASE Sink(t)
      BY <2>1, <3>1, <3>2, <3>6 DEF Sink, At, Quiet, PassedMax
    <3>7. CASE Panic(t) \/ Flush(t)
      BY <3>1, <3>2, <3>3, <3>7 DEF Panic, Flush, At, Shape, Own
    <3> QED BY <1>2, <3>4, <3>5, <3>6, <3>7 DEF Round
  <2> QED BY <1>1, <2>1, <2>2 DEF Quiet
<1>3. ASSUME NEW t \in Threads, maxLevel' = maxLevel, step'[t].at \in {"max", "run"},
             \A u \in Threads : u # t => step'[u] = step[u],
             \A c \in 1..Len(calls) : calls'[c].steady = calls[c].steady
      PROVE  Quiet'
  <2>1. PassedMax(t)'
    BY <1>3 DEF PassedMax
  <2> QED BY <1>1, <1>3, <2>1 DEF Quiet
<1>4. ASSUME NEW t \in Threads, Begin(t) PROVE Quiet'
    BY <1>3, <1>4, BeginStep DEF levels
<1>5. ASSUME NEW t \in Threads, Macro(t) PROVE Quiet'
    BY <1>3, <1>5, MacroStep DEF levels
<1>6. ASSUME NEW t \in Threads, NEW early \in BOOLEAN, Leave(t, early) PROVE Quiet'
    BY <1>3, <1>6, LeaveStep DEF levels
<1>7. ASSUME NEW t \in Threads, NEW fn \in Fns, Call(t, fn) PROVE Quiet'
  <2>1. step' = step /\ maxLevel' = maxLevel
    BY <1>7 DEF Call, levels
  <2>2. \A c \in 1..Len(calls) : calls'[c].steady = calls[c].steady
    BY <1>7, CallEffect
  <2> QED BY <1>1, <2>1, <2>2 DEF Quiet
<1>8. ASSUME NEW t \in Threads, NEW n \in Nat, NEW how \in {"returned", "cancelled", "panicked"},
             Ending(t, n, how)
      PROVE  Quiet'
  <2>1. maxLevel' = maxLevel /\ step'[t].at = "run"
        /\ \A u \in Threads : u # t => step'[u] = step[u]
    BY <1>8, EndingStep DEF levels
  <2>2. \A c \in 1..Len(calls) : calls'[c].steady = calls[c].steady
    BY <1>8, EndingStep
  <2> QED BY <1>3, <2>1, <2>2
<1>9. CASE LevelStep
  <2>1. PICK l \in Level \cup {Off} : ChangeMaxLevel(l) /\ step' = step
    BY <1>9 DEF LevelStep
  <2>2. /\ maxLevel' = l
        /\ \A c \in 1..Len(calls) :
              /\ calls'[c].steady => calls[c].steady
              /\ calls[c].how = "open" /\ calls'[c].steady => l = maxLevel
    BY <2>1, LevelEffect
  <2>3. ASSUME NEW u \in Threads PROVE PassedMax(u)'
    <3>1. SUFFICES ASSUME step[u].at = "sink", step[u].rec.what \in Own,
                          calls'[step[u].rec.id].steady
                   PROVE  step[u].rec.level <= maxLevel'
      BY <2>1 DEF PassedMax
    <3>2. step[u].rec.id \in 1..Len(calls) /\ calls[step[u].rec.id].how = "open"
      BY <3>1, OwnOpen
    <3>3. calls[step[u].rec.id].steady /\ maxLevel' = maxLevel
      BY <2>2, <3>1, <3>2
    <3> QED BY <3>1, <3>3 DEF Quiet, PassedMax
  <2> QED BY <2>3 DEF Quiet
<1>10. CASE Clearing
  <2>1. /\ maxLevel' = maxLevel /\ calls' = calls
        /\ \A u \in Threads : step'[u].at = step[u].at /\ step'[u].rec = step[u].rec
    BY <1>10, ClearingEffect
  <2> QED BY <2>1 DEF Quiet, PassedMax
<1>11. CASE UNCHANGED <<config, maxLevel, step, stack, calls, hist>>
    BY <1>11 DEF Quiet, PassedMax
<1> QED BY <1>2, <1>4, <1>5, <1>6, <1>7, <1>8, <1>9, <1>10, <1>11, NextKinds

-----------------------------------------------------------------------------
\* The records of a console.

\* Those of one console and one thread.
Told1(k, t) == Known(k, t) /\ Ascending(k, t) /\ EnterLoud(k, t) /\ ReturnLoud(k, t)
Told2(k, c) == ReturnOpen(k, c) /\ BothOrNone(k, c) /\ Between(k, calls[c].thread, c)

\* The same records are at the same places.
LEMMA SameRecords ==
    ASSUME NEW k, NEW t, hist'[k][t] = hist[k][t]
    PROVE  \A what, c : /\ \A i \in Nat : IsAt(k, t, i, what, c)' <=> IsAt(k, t, i, what, c)
                        /\ Has(k, t, what, c)' <=> Has(k, t, what, c)
BY DEF IsAt, Has

\* Nothing of a call is on record before its enter is.
LEMMA NothingYet ==
    ASSUME Types, NEW k, NEW t \in Threads, Known(k, t), Entering(k, t), NEW what \in Own
    PROVE  ~Has(k, t, what, Top(t).id)
<1> SUFFICES ASSUME NEW i \in Nat, IsAt(k, t, i, what, Top(t).id) PROVE FALSE
    BY DEF Has
<1>1. hist[k][t][i].id < Top(t).id /\ hist[k][t][i].id = Top(t).id
    BY DEF Known, IsAt
<1>2. Top(t).id \in Nat
  <2>1. stack[t] # <<>>
    BY DEF Entering
  <2> QED BY <2>1, TopFrame DEF Frames
<1> QED BY <1>1, <1>2

\* A thread of which nothing changes, next to another's step.
LEMMA ThreadFrame ==
    ASSUME Types, Shaped, NEW k, NEW t \in Threads, Told1(k, t), config' = config,
           maxLevel' = maxLevel, hist'[k][t] = hist[k][t], stack'[t] = stack[t],
           step'[t].at = step[t].at, step'[t].k = step[t].k, step'[t].rec = step[t].rec,
           Len(calls) <= Len(calls'), Len(calls') \in Nat,
           \A c \in 1..Len(calls) : /\ calls'[c].thread = calls[c].thread
                                    /\ calls'[c].steady = calls[c].steady
    PROVE  Told1(k, t)'
<1>1. Len(calls) \in Nat
    BY DEF Types
<1>2. /\ Top(t)' = Top(t)
      /\ Entering(k, t)' <=> Entering(k, t)
      /\ Leaving(k, t)' <=> Leaving(k, t)
    BY DEF Top, Entering, Leaving
<1>3. \A l : Loud(k, l)' <=> Loud(k, l)
    BY DEF Loud
<1>4. Known(k, t)'
  <2> SUFFICES ASSUME NEW i \in 1..Len(hist[k][t]), hist[k][t][i].what \in Own
               PROVE  /\ hist[k][t][i].id \in 1..Len(calls')
                      /\ calls'[hist[k][t][i].id].thread = t
                      /\ Entering(k, t) => hist[k][t][i].id < Top(t).id
    BY <1>2 DEF Known
  <2>1. /\ hist[k][t][i].id \in 1..Len(calls) /\ calls[hist[k][t][i].id].thread = t
        /\ Entering(k, t) => hist[k][t][i].id < Top(t).id
    BY DEF Told1, Known
  <2>2. hist[k][t][i].id \in 1..Len(calls')
    BY <1>1, <2>1
  <2>3. calls'[hist[k][t][i].id].thread = calls[hist[k][t][i].id].thread
    BY <2>1
  <2> QED BY <2>1, <2>2, <2>3
<1>5. Ascending(k, t)'
    BY SameRecords DEF Told1, Ascending
<1>6. EnterLoud(k, t)'
  <2> SUFFICES ASSUME NEW a \in 1..Len(stack[t]), stack[t][a].at = "body",
                      calls'[stack[t][a].id].steady,
                      ~(a = Len(stack[t]) /\ Entering(k, t))
               PROVE  Has(k, t, "enter", stack[t][a].id)' <=> Loud(k, stack[t][a].level)
    BY <1>2, <1>3 DEF EnterLoud
  <2>1. calls[stack[t][a].id].steady
    BY DEF Shaped, Nested
  <2> QED BY <2>1, SameRecords DEF Told1, EnterLoud
<1>7. ReturnLoud(k, t)'
  <2> SUFFICES ASSUME Leaving(k, t), calls'[step[t].rec.id].steady
               PROVE  Has(k, t, "return", step[t].rec.id)' <=> Loud(k, step[t].rec.level)
    BY <1>2, <1>3 DEF ReturnLoud
  <2>1. calls[step[t].rec.id].steady
    BY OwnOpen DEF Leaving, Own
  <2> QED BY <2>1, SameRecords DEF Told1, ReturnLoud
<1> QED BY <1>4, <1>5, <1>6, <1>7 DEF Told1

\* The story of one console.
Console(k) == /\ \A t \in Threads : Told1(k, t)
              /\ \A c \in 1..Len(calls) : Told2(k, c)

\* Bracketed, console by console.
LEMMA BracketedIsConsole == Bracketed <=> \A k \in Consoles : Console(k)
BY DEF Bracketed, Console, Told1, Told2

\* What has ended stays as it was.
LEMMA BetweenFrame ==
    ASSUME NEW k, NEW t, NEW c, Between(k, t, c), Known(k, t), hist'[k][t] = hist[k][t],
           Len(calls) \in Nat, Len(calls') \in Nat,
           \A d \in 1..Len(calls) : calls[d].how # "open" =>
               calls'[d].how = calls[d].how /\ calls'[d].steady = calls[d].steady
    PROVE  Between(k, t, c)'
<1>1. \A n \in Nat : \A e : /\ IsAt(k, t, n, "enter", e)' <=> IsAt(k, t, n, "enter", e)
                            /\ IsAt(k, t, n, "return", e)' <=> IsAt(k, t, n, "return", e)
    BY SameRecords
<1>2. ASSUME NEW i \in Nat, NEW j \in Nat,
             IsAt(k, t, i, "enter", c)', IsAt(k, t, j, "return", c)'
      PROVE  /\ i < j
             /\ \A d \in 1..Len(calls'), p \in Nat : IsAt(k, t, p, "enter", d)' /\ i < p /\ p < j =>
                   /\ calls'[d].how # "open"
                   /\ calls'[d].how = "returned" /\ calls'[d].steady =>
                         \E q \in Nat : IsAt(k, t, q, "return", d)' /\ i < q /\ q < j
  <2>1. IsAt(k, t, i, "enter", c) /\ IsAt(k, t, j, "return", c)
    BY <1>1, <1>2
  <2>2. i < j
    BY <2>1 DEF Between
  <2>3. ASSUME NEW d \in 1..Len(calls'), NEW p \in Nat,
               IsAt(k, t, p, "enter", d)', i < p, p < j
        PROVE  /\ calls'[d].how # "open"
               /\ calls'[d].how = "returned" /\ calls'[d].steady =>
                     \E q \in Nat : IsAt(k, t, q, "return", d)' /\ i < q /\ q < j
    <3>1. IsAt(k, t, p, "enter", d)
      BY <1>1, <2>3
    <3>2. d \in 1..Len(calls)
      BY <3>1 DEF Known, IsAt, Own
    <3>3. /\ calls[d].how # "open"
          /\ calls[d].how = "returned" /\ calls[d].steady =>
                \E q \in Nat : IsAt(k, t, q, "return", d) /\ i < q /\ q < j
      BY <2>1, <2>3, <3>1, <3>2 DEF Between
    <3>4. calls'[d].how = calls[d].how /\ calls'[d].steady = calls[d].steady
      BY <3>2, <3>3
    <3> QED BY <1>1, <3>3, <3>4
  <2> QED BY <2>2, <2>3
<1> QED BY <1>2 DEF Between

\* A step that moves no record of a thread and none of its calls.
LEMMA MoveFrame ==
    ASSUME Types, Shaped, NEW k \in Sinks, NEW t \in Threads, Console(k),
           UNCHANGED <<config, maxLevel, calls, hist>>,
           \A u \in Threads : u # t => step'[u] = step[u] /\ stack'[u] = stack[u],
           Len(stack'[t]) = Len(stack[t]),
           \A a \in 1..Len(stack[t]) : /\ stack'[t][a].id = stack[t][a].id
                                       /\ stack'[t][a].level = stack[t][a].level
                                       /\ a # Len(stack[t]) => stack'[t][a] = stack[t][a],
           ~Leaving(k, t), Entering(k, t)' => Entering(k, t),
           stack[t] # <<>> /\ Top(t)'.at = "body" /\ ~Entering(k, t)' =>
               \/ Top(t).at = "body" /\ ~Entering(k, t)
               \/ Entering(k, t) /\ ~(Top(t).level <= maxLevel),
           Leaving(k, t)' => /\ stack[t] # <<>> /\ step'[t].rec.id = Top(t).id
                             /\ ~(step'[t].rec.level <= maxLevel)
    PROVE  Console(k)'
<1>1. Told1(k, t) /\ stack[t] \in Seq(Frames) /\ Len(stack[t]) \in Nat /\ Len(calls) \in Nat
    BY DEF Console, Types
<1>2. ASSUME stack[t] # <<>>
      PROVE  /\ Len(stack[t]) \in 1..Len(stack[t]) /\ stack'[t] # <<>>
             /\ Top(t) = stack[t][Len(stack[t])] /\ Top(t)' = stack'[t][Len(stack[t])]
             /\ Top(t)'.id = Top(t).id
             /\ Top(t).id \in 1..Len(calls) /\ calls[Top(t).id].how = "open"
             /\ calls[Top(t).id].thread = t
  <2>1. Len(stack[t]) \in Nat \ {0} /\ Top(t) = stack[t][Len(stack[t])]
    BY <1>2, TopFrame
  <2>2. Len(stack[t]) \in 1..Len(stack[t])
    BY <2>1
  <2>3. stack'[t] # <<>>
    BY <2>1
  <2>4. Top(t)' = stack'[t][Len(stack[t])]
    BY DEF Top, Last
  <2>5. Top(t)'.id = Top(t).id
    BY <2>1, <2>2, <2>4
  <2>6. /\ Top(t).id \in 1..Len(calls) /\ calls[Top(t).id].how = "open"
        /\ calls[Top(t).id].thread = t
    BY <2>1, <2>2 DEF Shaped, Nested
  <2> QED BY <2>1, <2>2, <2>3, <2>4, <2>5, <2>6
<1>3. Known(k, t)'
  <2> SUFFICES ASSUME NEW i \in 1..Len(hist[k][t]), hist[k][t][i].what \in Own, Entering(k, t)'
               PROVE  hist[k][t][i].id < Top(t)'.id
    BY <1>1 DEF Known, Told1
  <2>1. stack[t] # <<>> /\ hist[k][t][i].id < Top(t).id
    BY <1>1 DEF Told1, Known, Entering
  <2> QED BY <1>2, <2>1
<1>4. Ascending(k, t)'
    BY <1>1, SameRecords DEF Told1, Ascending
<1>5. EnterLoud(k, t)'
  <2> SUFFICES ASSUME NEW a \in 1..Len(stack'[t]), stack'[t][a].at = "body",
                      NEW c, NEW l, c = stack'[t][a].id, l = stack'[t][a].level, calls'[c].steady,
                      ~(a = Len(stack'[t]) /\ Entering(k, t)')
               PROVE  Has(k, t, "enter", c)' <=> Loud(k, l)'
    BY DEF EnterLoud
  <2>1. a \in 1..Len(stack[t]) /\ stack'[t][a].id = stack[t][a].id
        /\ stack'[t][a].level = stack[t][a].level /\ stack[t] # <<>>
    BY <1>1
  <2>2. SUFFICES Has(k, t, "enter", c) <=> Loud(k, l)
    BY SameRecords DEF Loud
  <2>3. CASE a # Len(stack[t])
    BY <1>1, <2>1, <2>3 DEF Told1, EnterLoud
  <2>4. CASE a = Len(stack[t])
    <3>1. ~Entering(k, t)' /\ Top(t)'.at = "body" /\ stack[t][a] = Top(t)
      BY <1>2, <2>1, <2>4
    <3>2. CASE Top(t).at = "body" /\ ~Entering(k, t)
      BY <1>1, <2>1, <3>1, <3>2 DEF Told1, EnterLoud
    <3>3. CASE Entering(k, t) /\ ~(Top(t).level <= maxLevel)
      <4>1. ~Has(k, t, "enter", Top(t).id)
        BY <1>1, <3>3, NothingYet DEF Told1, Own
      <4> QED BY <3>1, <3>3, <4>1 DEF Loud
    <3> QED BY <2>1, <3>1, <3>2, <3>3
  <2> QED BY <2>3, <2>4
<1>6. ReturnLoud(k, t)'
  <2> SUFFICES ASSUME Leaving(k, t)', NEW c, NEW l, c = step'[t].rec.id, l = step'[t].rec.level
               PROVE  ~Has(k, t, "return", c)' /\ ~Loud(k, l)'
    BY DEF ReturnLoud
  <2>1. stack[t] # <<>> /\ c = Top(t).id /\ ~(l <= maxLevel)
    OBVIOUS
  <2>2. ReturnOpen(k, Top(t).id)
    BY <1>2, <2>1 DEF Console, Told2
  <2>3. ~Has(k, t, "return", Top(t).id)
    BY <1>2, <2>1, <2>2 DEF ReturnOpen
  <2> QED BY <2>1, <2>3, SameRecords DEF Loud
<1>7. ASSUME NEW u \in Threads PROVE Told1(k, u)'
  <2>1. CASE u = t
    BY <1>3, <1>4, <1>5, <1>6, <2>1 DEF Told1
  <2>2. CASE u # t
    <3>1. /\ Told1(k, u) /\ config' = config /\ maxLevel' = maxLevel /\ hist'[k][u] = hist[k][u]
          /\ stack'[u] = stack[u] /\ step'[u] = step[u] /\ calls' = calls
      BY <2>2 DEF Console
    <3> QED BY <1>1, <3>1, ThreadFrame
  <2> QED BY <2>1, <2>2
<1>8. ASSUME NEW c \in 1..Len(calls') PROVE Told2(k, c)'
  <2>1. c \in 1..Len(calls) /\ Told2(k, c) /\ calls[c].thread \in Threads
    BY CallTypes DEF Console
  <2> DEFINE u == calls[c].thread
  <2>2. \A what, d : Has(k, u, what, d)' <=> Has(k, u, what, d)
    BY SameRecords
  <2>3. ReturnOpen(k, c)'
    <3>1. CASE u = t
      BY <2>1, <2>2, <3>1 DEF Told2, ReturnOpen
    <3>2. CASE u # t
      <4>1. (Leaving(k, u)' <=> Leaving(k, u)) /\ step'[u] = step[u]
        BY <2>1, <3>2 DEF Leaving
      <4> QED BY <2>1, <2>2, <4>1 DEF Told2, ReturnOpen
    <3> QED BY <3>1, <3>2
  <2>4. BothOrNone(k, c)'
    BY <2>1, <2>2 DEF Told2, BothOrNone
  <2>5. Between(k, u, c)'
    BY <1>1, <2>1, BetweenFrame DEF Told2, Console, Told1
  <2> QED BY <2>3, <2>4, <2>5 DEF Told2
<1> QED BY <1>7, <1>8 DEF Console

\* The steps of a thread that write nothing and begin or end no call.
LEMMA ConsoleMove ==
    ASSUME Types, Shaped, Shaped', NEW k \in Sinks, NEW t \in Threads, Console(k),
           \/ CheckMaxLevel(t) \/ CheckFilter(t) \/ Panic(t) \/ Flush(t)
           \/ Begin(t) \/ Macro(t)
           \/ \E early \in BOOLEAN : Leave(t, early)
    PROVE  Console(k)'
<1>1. Shape(step[t]) /\ Framed(t) /\ Shape(step'[t]) /\ step[t] \in Steps /\ Len(stack[t]) \in Nat
  <2>1. stack[t] \in Seq(Frames)
    BY DEF Types
  <2> QED BY <2>1 DEF Shaped, Types
<1>2. \* None of logfn's records is under way, before or after.
      ASSUME UNCHANGED <<config, maxLevel, calls, hist, stack>>,
             \A u \in Threads : u # t => step'[u] = step[u],
             step[t].rec.what \notin Own, step'[t].rec.what \notin Own
      PROVE  Console(k)'
  <2>1. ~Leaving(k, t) /\ ~Leaving(k, t)'
    BY <1>2 DEF Leaving, Own
  <2>2. Top(t)' = Top(t) /\ (Entering(k, t)' <=> Entering(k, t))
    BY <1>2 DEF Entering, Own, Top
  <2>3. stack[t] # <<>> /\ Top(t)'.at = "body" /\ ~Entering(k, t)' =>
            Top(t).at = "body" /\ ~Entering(k, t)
    BY <2>2
  <2> QED BY <1>2, <2>1, <2>2, <2>3, MoveFrame
<1>3. CASE CheckMaxLevel(t)
  <2>1. step[t].at = "max" /\ UNCHANGED <<config, maxLevel, calls, hist, stack>>
    BY <1>3 DEF CheckMaxLevel, At, levels, records
  <2>2. \A u \in Threads : u # t => step'[u] = step[u]
    BY <1>3, MaxEffect
  <2>3. CASE step[t].rec.what \notin Own
    <3>1. step'[t].rec.what \notin Own
      BY <1>3, <2>3, RoundShape DEF Round
    <3> QED BY <1>2, <2>1, <2>2, <2>3, <3>1
  <2>4. CASE step[t].rec.what \in Own
    <3>1. /\ stack[t] # <<>> /\ Top(t).at = "body" /\ Top(t)' = Top(t)
          /\ step[t].rec.id = Top(t).id /\ step[t].rec.level = Top(t).level
      BY <2>1, <2>4, OwnOpen DEF Top
    <3>2. ~Leaving(k, t)
      BY <2>1 DEF Leaving
    <3>3. step[t].rec.level \in Int /\ maxLevel \in Int /\ step[t].then \in Wheres
          /\ step[t].k = 1 /\ k \in Nat /\ 1 <= k
      <4>1. step[t].rec \in Records
        BY <1>1 DEF Steps
      <4>2. step[t].k = 1
        BY <1>1, <2>1 DEF Shape
      <4>3. step[t].rec.level \in Int
        BY <4>1 DEF Records, Level, Off, Error, Trace
      <4>4. maxLevel \in Int
        BY DEF Types, Level, Off, Error, Trace
      <4>5. k \in Nat /\ 1 <= k
        BY SinkTypes DEF Sinks
      <4> QED BY <1>1, <4>2, <4>3, <4>4, <4>5 DEF Steps
    <3>4. CASE step[t].rec.level > maxLevel /\ Goto(t, step[t].then)
      <4>1. ~(step[t].rec.level <= maxLevel)
        BY <3>3, <3>4
      <4>2. CASE step[t].rec.what = "enter"
        <5>1. step'[t] = Idle /\ Idle.rec.what = "none"
          BY <1>1, <2>1, <3>3, <3>4, <4>2, GotoEffect DEF Shape, Idle, NoRecord, Record
        <5>2. Entering(k, t) /\ ~Entering(k, t)' /\ ~Leaving(k, t)'
          BY <2>1, <3>1, <4>2, <5>1 DEF Entering, Leaving
        <5> QED BY <2>1, <2>2, <3>1, <3>2, <4>1, <5>2, MoveFrame
      <4>3. CASE step[t].rec.what = "return"
        <5>1. step'[t].at = "return" /\ step'[t].rec = step[t].rec
          BY <1>1, <2>1, <3>3, <3>4, <4>3, GotoEffect DEF Shape
        <5>2. ~Entering(k, t) /\ ~Entering(k, t)'
          BY <2>1, <3>1, <4>3, <5>1 DEF Entering
        <5> QED BY <2>1, <2>2, <3>1, <3>2, <4>1, <5>1, <5>2, MoveFrame
      <4> QED BY <2>4, <4>2, <4>3 DEF Own
    <3>5. CASE /\ step'[t].at = IF step[t].filter.base = "none" THEN "sink" ELSE "filter"
               /\ step'[t].rec = step[t].rec /\ step'[t].k = step[t].k
      <4>1. step'[t].at = "sink"
        BY <1>1, <2>4, <3>5 DEF Shape, Own
      <4>2. ~Leaving(k, t)' /\ (Entering(k, t)' <=> Entering(k, t))
        BY <2>1, <3>1, <3>3, <3>5, <4>1 DEF Leaving, Entering
      <4>3. stack[t] # <<>> /\ Top(t)'.at = "body" /\ ~Entering(k, t)' =>
                Top(t).at = "body" /\ ~Entering(k, t)
        BY <3>1, <4>2
      <4> QED BY <2>1, <2>2, <3>2, <4>2, <4>3, MoveFrame
    <3> QED BY <1>3, <3>4, <3>5, MaxEffect
  <2> QED BY <2>3, <2>4
<1>4. CASE CheckFilter(t) \/ Panic(t) \/ Flush(t)
  <2>1. UNCHANGED <<config, maxLevel, calls, hist, stack>>
    BY <1>4 DEF CheckFilter, Panic, Flush, levels, records
  <2>2. step[t].rec.what \notin Own
    BY <1>1, <1>4 DEF CheckFilter, Panic, Flush, At, Shape, Own
  <2>3. step'[t].rec.what \notin Own /\ \A u \in Threads : u # t => step'[u] = step[u]
    BY <1>4, <2>2, RoundShape DEF Round
  <2> QED BY <1>2, <2>1, <2>2, <2>3
<1>5. CASE Macro(t)
  <2>1. step[t].rec.what \notin Own
    BY <1>1, <1>5, MacroStep DEF Shape, Own
  <2>2. /\ step'[t].rec.what \notin Own /\ \A u \in Threads : u # t => step'[u] = step[u]
        /\ UNCHANGED <<config, maxLevel, calls, hist, stack>>
    BY <1>5, MacroStep DEF Own, levels, records
  <2> QED BY <1>2, <2>1, <2>2
<1>6. ASSUME NEW early \in BOOLEAN, Leave(t, early) PROVE Console(k)'
  <2>1. /\ stack[t] # <<>> /\ step[t].at = "run" /\ Top(t).at = "body" /\ Top(t)' = Top(t)
        /\ step'[t].at = "max" /\ step'[t].rec.what = "return"
        /\ \A u \in Threads : u # t => step'[u] = step[u]
        /\ UNCHANGED <<config, maxLevel, calls, hist, stack>>
    BY <1>6, LeaveStep DEF levels, records, Top
  <2>2. ~Leaving(k, t) /\ ~Leaving(k, t)' /\ ~Entering(k, t) /\ ~Entering(k, t)'
    BY <2>1 DEF Leaving, Entering
  <2> QED BY <2>1, <2>2, MoveFrame
<1>7. CASE Begin(t)
  <2>1. /\ stack[t] # <<>> /\ step[t].at = "run" /\ Top(t).at = "begin"
        /\ step'[t].at = "max" /\ step'[t].rec.what = "enter"
        /\ \A u \in Threads : u # t => step'[u] = step[u]
        /\ UNCHANGED <<config, maxLevel, calls, hist>>
    BY <1>7, BeginStep DEF levels, records
  <2>2. /\ Len(stack'[t]) = Len(stack[t])
        /\ \A a \in 1..Len(stack[t]) : /\ stack'[t][a].id = stack[t][a].id
                                       /\ stack'[t][a].level = stack[t][a].level
                                       /\ a # Len(stack[t]) => stack'[t][a] = stack[t][a]
        /\ \A u \in Threads : u # t => stack'[u] = stack[u]
    BY <1>7, BeginEffect
  <2>3. stack'[t] # <<>>
    <3>1. Len(stack'[t]) # 0
      BY <2>1, <2>2, TopFrame
    <3> QED BY <3>1
  <2>4. ~Leaving(k, t) /\ ~Leaving(k, t)' /\ Entering(k, t) /\ Entering(k, t)'
    BY <2>1, <2>3 DEF Leaving, Entering
  <2> QED BY <2>1, <2>2, <2>4, MoveFrame
<1> QED BY <1>3, <1>4, <1>5, <1>6, <1>7

\* A new call has nothing on record.
LEMMA ConsoleCall ==
    ASSUME Types, Shaped, Opened, NEW k \in Sinks, NEW t \in Threads, NEW fn \in Fns, Console(k),
           Call(t, fn)
    PROVE  Console(k)'
<1>1. step[t].at = "run" /\ (stack[t] = <<>> \/ Top(t).at = "body")
      /\ UNCHANGED <<config, maxLevel, step, hist>>
    BY DEF Call, Running, At, InBody, Top, levels, records
<1>2. /\ Len(calls') = Len(calls) + 1 /\ Len(calls) \in Nat
      /\ \A c \in 1..Len(calls) : calls'[c] = calls[c]
      /\ Len(stack'[t]) = Len(stack[t]) + 1 /\ Len(stack[t]) \in Nat
      /\ \A a \in 1..Len(stack[t]) : stack'[t][a] = stack[t][a]
      /\ stack'[t][Len(stack[t]) + 1].id = Len(calls) + 1
      /\ stack'[t][Len(stack[t]) + 1].at = "begin"
      /\ \A u \in Threads : u # t => stack'[u] = stack[u]
  <2>1. stack[t] \in Seq(Frames)
    BY DEF Types
  <2>2. Len(stack[t]) \in Nat /\ Len(calls) \in Nat
    BY <2>1 DEF Types
  <2> QED BY <2>2, CallEffect
<1>3. calls'[Len(calls) + 1].how = "open" /\ calls'[Len(calls) + 1].thread = t
  <2>1. calls'[Len(calls) + 1] = [thread |-> t, how |-> "open", steady |-> TRUE]
    BY CallEffect
  <2> QED BY <2>1
<1>4. step[t].rec.what = "none" /\ Nested(t) /\ Told1(k, t)
    BY <1>1 DEF Shaped, Shape, Console
<1>5. ~Entering(k, t) /\ ~Leaving(k, t) /\ ~Leaving(k, t)'
    BY <1>1, <1>4 DEF Entering, Leaving
<1>6. Known(k, t)'
  <2> SUFFICES ASSUME NEW i \in 1..Len(hist[k][t]), hist[k][t][i].what \in Own
               PROVE  /\ hist[k][t][i].id \in 1..Len(calls')
                      /\ calls'[hist[k][t][i].id].thread = t
                      /\ hist[k][t][i].id < Top(t)'.id
    BY <1>1 DEF Known
  <2>1. hist[k][t][i].id \in 1..Len(calls) /\ calls[hist[k][t][i].id].thread = t
    BY <1>4 DEF Told1, Known
  <2>2. Top(t)'.id = Len(calls) + 1
    BY <1>2 DEF Top, Last
  <2>3. hist[k][t][i].id \in 1..Len(calls') /\ hist[k][t][i].id < Len(calls) + 1
    BY <1>2, <2>1
  <2>4. calls'[hist[k][t][i].id] = calls[hist[k][t][i].id]
    BY <1>2, <2>1
  <2> QED BY <2>1, <2>2, <2>3, <2>4
<1>7. Ascending(k, t)'
    BY <1>1, <1>4, SameRecords DEF Told1, Ascending
<1>8. EnterLoud(k, t)'
  <2> SUFFICES ASSUME NEW a \in 1..Len(stack'[t]), stack'[t][a].at = "body",
                      NEW c, NEW l, c = stack'[t][a].id, l = stack'[t][a].level, calls'[c].steady
               PROVE  Has(k, t, "enter", c)' <=> Loud(k, l)'
    BY DEF EnterLoud
  <2>1. a \in 1..Len(stack[t]) /\ stack'[t][a] = stack[t][a]
    BY <1>2
  <2>2. c \in 1..Len(calls)
    BY <1>4, <2>1 DEF Nested
  <2>3. calls[c].steady
    BY <1>2, <2>2
  <2>4. Has(k, t, "enter", c) <=> Loud(k, l)
    BY <1>4, <1>5, <2>1, <2>3 DEF Told1, EnterLoud
  <2> QED BY <1>1, <2>4, SameRecords DEF Loud
<1>9. ReturnLoud(k, t)'
    BY <1>5 DEF ReturnLoud
<1>10. ASSUME NEW u \in Threads PROVE Told1(k, u)'
  <2>1. CASE u = t
    BY <1>6, <1>7, <1>8, <1>9, <2>1 DEF Told1
  <2>2. CASE u # t
    <3>1. Told1(k, u) /\ stack'[u] = stack[u] /\ step'[u] = step[u] /\ hist'[k][u] = hist[k][u]
      BY <1>1, <1>2, <2>2 DEF Console
    <3> QED BY <1>1, <1>2, <3>1, ThreadFrame
  <2> QED BY <2>1, <2>2
<1>11. ASSUME NEW c \in 1..Len(calls) PROVE Told2(k, c)'
  <2>1. Told2(k, c) /\ calls'[c] = calls[c] /\ calls[c].thread \in Threads
    BY <1>2, CallTypes DEF Console
  <2>0. PICK u \in Threads : u = calls[c].thread
    BY <2>1
  <2>2. /\ \A what, d : Has(k, u, what, d)' <=> Has(k, u, what, d)
        /\ Leaving(k, u)' <=> Leaving(k, u)
    BY <1>1, SameRecords DEF Leaving
  <2>3. ReturnOpen(k, c)' /\ BothOrNone(k, c)'
    BY <1>1, <2>0, <2>1, <2>2 DEF Told2, ReturnOpen, BothOrNone
  <2>4. Known(k, u) /\ hist'[k][u] = hist[k][u] /\ Len(calls') \in Nat
    BY <1>1, <1>2, <2>1 DEF Console, Told1
  <2>5. Between(k, u, c)'
    BY <1>2, <2>0, <2>1, <2>4, BetweenFrame DEF Told2
  <2> QED BY <2>0, <2>1, <2>3, <2>5 DEF Told2
<1>12. ASSUME NEW c, c = Len(calls) + 1 PROVE Told2(k, c)'
  <2>1. \A what \in Own : ~Has(k, t, what, c)
    <3>1. SUFFICES ASSUME NEW what \in Own, NEW i \in Nat, IsAt(k, t, i, what, c) PROVE FALSE
      BY DEF Has
    <3>2. c \in 1..Len(calls)
      BY <1>4, <3>1 DEF Told1, Known, IsAt
    <3> QED BY <1>2, <1>12, <3>2
  <2>2. ~Has(k, t, "return", c)' /\ \A i \in Nat : ~IsAt(k, t, i, "return", c)'
    BY <1>1, <2>1, SameRecords DEF Own, Has
  <2>3. calls'[c].how = "open" /\ calls'[c].thread = t
    BY <1>3, <1>12
  <2> QED BY <2>2, <2>3 DEF Told2, ReturnOpen, BothOrNone, Between
<1>13. ASSUME NEW c \in 1..Len(calls') PROVE Told2(k, c)'
  <2>1. c \in 1..Len(calls) \/ c = Len(calls) + 1
    BY <1>2
  <2> QED BY <1>11, <1>12, <2>1
<1> QED BY <1>10, <1>13 DEF Console

\* A call that returns has both its records or none; one that is dropped or
\* panics has no return.
LEMMA ConsoleEnding ==
    ASSUME Types, Shaped, Opened, NEW k \in Sinks, NEW t \in Threads, NEW n \in Nat,
           NEW how \in {"returned", "cancelled", "panicked"}, Console(k), Ending(t, n, how)
    PROVE  Console(k)'
<1>1. /\ Len(stack'[t]) = n /\ n < Len(stack[t]) /\ Len(stack[t]) \in Nat /\ Len(calls) \in Nat
      /\ \A a \in 1..n : stack'[t][a] = stack[t][a]
      /\ \A u \in Threads : u # t => stack'[u] = stack[u] /\ step'[u] = step[u]
      /\ Len(calls') = Len(calls)
      /\ step'[t].at = "run" /\ step'[t].rec.what = "none"
    BY EndingStep
<1>2. \A c \in 1..Len(calls) :
         /\ calls'[c].thread = calls[c].thread /\ calls'[c].steady = calls[c].steady
         /\ \/ /\ \E d \in (n + 1)..Len(stack[t]) : stack[t][d].id = c
               /\ calls'[c].how = how /\ calls[c].how = "open" /\ calls[c].thread = t
            \/ /\ ~\E d \in (n + 1)..Len(stack[t]) : stack[t][d].id = c
               /\ calls'[c].how = calls[c].how
    BY EndingStep
<1>3. UNCHANGED <<config, maxLevel, hist>>
    BY EndingStep DEF levels, records
<1>4. Told1(k, t) /\ Nested(t) /\ Shape(step[t])
    BY DEF Console, Shaped
<1>5. /\ stack[t] # <<>>
      /\ \/ step[t].at \in {"run", "unwind"} /\ how # "returned"
         \/ step[t].at = "return" /\ how = "returned" /\ n = Len(stack[t]) - 1
    BY DEF Ending
<1>6. ~Leaving(k, t)' /\ Known(k, t) /\ Ascending(k, t) /\ EnterLoud(k, t) /\ ReturnLoud(k, t)
    BY <1>1, <1>4 DEF Leaving, Told1
<1>7. Known(k, t)'
  <2> SUFFICES ASSUME NEW i \in 1..Len(hist[k][t]), hist[k][t][i].what \in Own
               PROVE  /\ hist[k][t][i].id \in 1..Len(calls')
                      /\ calls'[hist[k][t][i].id].thread = t
                      /\ ~Entering(k, t)'
    BY <1>3 DEF Known
  <2>1. hist[k][t][i].id \in 1..Len(calls) /\ calls[hist[k][t][i].id].thread = t
    BY <1>6 DEF Known
  <2>2. ~Entering(k, t)'
    <3>1. SUFFICES ASSUME stack'[t] # <<>>, Top(t)'.at = "begin" PROVE FALSE
      BY <1>1 DEF Entering
    <3>2. n \in 1..n /\ Top(t)' = stack'[t][n]
      <4>1. stack'[t] \in Seq(Frames)
        BY EndingStep
      <4> QED BY <1>1, <3>1, <4>1 DEF Top, Last
    <3>3. stack'[t][n] = stack[t][n] /\ n \in 1..Len(stack[t])
      BY <1>1, <3>2
    <3> QED BY <1>1, <1>4, <3>1, <3>2, <3>3 DEF Nested
  <2> QED BY <1>1, <1>2, <2>1, <2>2
<1>8. Ascending(k, t)'
    BY <1>3, <1>6, SameRecords DEF Ascending
<1>9. EnterLoud(k, t)'
  <2> SUFFICES ASSUME NEW a \in 1..Len(stack'[t]), stack'[t][a].at = "body",
                      NEW c, NEW l, c = stack'[t][a].id, l = stack'[t][a].level, calls'[c].steady
               PROVE  Has(k, t, "enter", c)' <=> Loud(k, l)'
    BY DEF EnterLoud
  <2>1. a \in 1..Len(stack[t]) /\ stack'[t][a] = stack[t][a] /\ a # Len(stack[t])
    BY <1>1
  <2>2. c \in 1..Len(calls)
    BY <1>4, <2>1 DEF Nested
  <2>3. calls[c].steady
    BY <1>2, <2>2
  <2>4. Has(k, t, "enter", c) <=> Loud(k, l)
    BY <1>6, <2>1, <2>3 DEF EnterLoud
  <2> QED BY <1>3, <2>4, SameRecords DEF Loud
<1>10. ReturnLoud(k, t)'
    BY <1>6 DEF ReturnLoud
<1>11. ASSUME NEW u \in Threads PROVE Told1(k, u)'
  <2>1. CASE u = t
    BY <1>7, <1>8, <1>9, <1>10, <2>1 DEF Told1
  <2>2. CASE u # t
    <3>1. Told1(k, u) /\ stack'[u] = stack[u] /\ step'[u] = step[u] /\ hist'[k][u] = hist[k][u]
      BY <1>1, <1>3, <2>2 DEF Console
    <3> QED BY <1>1, <1>2, <1>3, <3>1, ThreadFrame
  <2> QED BY <2>1, <2>2
<1>12. ASSUME NEW c \in 1..Len(calls') PROVE Told2(k, c)'
  <2>1. c \in 1..Len(calls) /\ Told2(k, c) /\ calls'[c].thread = calls[c].thread
        /\ calls'[c].steady = calls[c].steady
    BY <1>1, <1>2 DEF Console
  <2>2. PICK u \in Threads : u = calls[c].thread
    BY <2>1, CallTypes
  <2>3. /\ \A what : Has(k, u, what, c)' <=> Has(k, u, what, c)
        /\ u # t => (Leaving(k, u)' <=> Leaving(k, u)) /\ step'[u] = step[u]
    BY <1>1, <1>3, SameRecords DEF Leaving
  <2>4. Between(k, u, c)'
    <3>1. \A d \in 1..Len(calls) : calls[d].how # "open" =>
               calls'[d].how = calls[d].how /\ calls'[d].steady = calls[d].steady
      BY <1>2
    <3>2. Known(k, u) /\ hist'[k][u] = hist[k][u]
      BY <1>3 DEF Console, Told1
    <3> QED BY <1>1, <2>1, <2>2, <3>1, <3>2, BetweenFrame DEF Told2
  <2>5. CASE calls'[c].how = calls[c].how /\ ~\E d \in (n + 1)..Len(stack[t]) : stack[t][d].id = c
    <3>1. ReturnOpen(k, c)'
      <4>1. SUFFICES ASSUME Has(k, u, "return", c), calls[c].how # "returned"
                     PROVE  calls[c].how = "open" /\ Leaving(k, u)' /\ step'[u].rec.id = c
        BY <2>1, <2>2, <2>3, <2>5 DEF ReturnOpen
      <4>2. calls[c].how = "open" /\ Leaving(k, u) /\ step[u].rec.id = c
        BY <2>1, <2>2, <4>1 DEF Told2, ReturnOpen
      <4>3. u # t
        <5>1. SUFFICES ASSUME u = t PROVE FALSE
          OBVIOUS
        <5>2. step[t].at = "return" /\ step[t].rec.what = "return" /\ n = Len(stack[t]) - 1
          BY <1>5, <4>2, <5>1 DEF Leaving
        <5>3. c = stack[t][Len(stack[t])].id
          BY <4>2, <5>1, <5>2, OwnOpen DEF Own
        <5>4. Len(stack[t]) \in (n + 1)..Len(stack[t])
          BY <1>1, <5>2
        <5> QED BY <2>5, <5>3, <5>4
      <4> QED BY <2>3, <4>2, <4>3
    <3>2. BothOrNone(k, c)'
      BY <2>1, <2>2, <2>3, <2>5 DEF Told2, BothOrNone
    <3> QED BY <2>1, <2>2, <2>4, <3>1, <3>2 DEF Told2
  <2>6. CASE /\ \E d \in (n + 1)..Len(stack[t]) : stack[t][d].id = c
             /\ calls'[c].how = how /\ calls[c].how = "open" /\ calls[c].thread = t
    <3>1. u = t
      BY <2>2, <2>6
    <3>2. ASSUME how # "returned" PROVE ~Has(k, t, "return", c)'
      <4>1. ~Leaving(k, t)
        BY <1>4, <1>5, <3>2 DEF Leaving
      <4> QED BY <2>1, <2>2, <2>3, <2>6, <3>1, <4>1 DEF Told2, ReturnOpen
    <3>3. ASSUME how = "returned", calls[c].steady
          PROVE  Has(k, t, "enter", c)' <=> Has(k, t, "return", c)'
      <4>1. step[t].at = "return" /\ step[t].rec.what = "return" /\ n = Len(stack[t]) - 1
        BY <1>4, <1>5, <3>3 DEF Shape
      <4>2. PICK d \in (n + 1)..Len(stack[t]) : stack[t][d].id = c
        BY <2>6
      <4>3. d = Len(stack[t])
        BY <1>1, <4>1, <4>2
      <4>4. /\ d \in 1..Len(stack[t]) /\ stack[t][d].at = "body" /\ Top(t) = stack[t][d]
            /\ step[t].rec.id = c /\ step[t].rec.level = stack[t][d].level
        BY <4>1, <4>2, <4>3, OwnOpen DEF Own
      <4>5. Leaving(k, t) /\ ~Entering(k, t)
        BY <4>1, <4>4 DEF Leaving, Entering
      <4>6. Has(k, t, "enter", c) <=> Loud(k, stack[t][d].level)
        BY <1>6, <3>3, <4>2, <4>4, <4>5 DEF EnterLoud
      <4>7. Has(k, t, "return", c) <=> Loud(k, stack[t][d].level)
        BY <1>6, <3>3, <4>4, <4>5 DEF ReturnLoud
      <4> QED BY <2>3, <3>1, <4>6, <4>7
    <3>4. ReturnOpen(k, c)'
      BY <2>1, <2>2, <2>6, <3>1, <3>2 DEF ReturnOpen
    <3>5. BothOrNone(k, c)'
      BY <2>1, <2>2, <2>6, <3>1, <3>3 DEF BothOrNone
    <3> QED BY <2>1, <2>2, <2>4, <3>4, <3>5 DEF Told2
  <2> QED BY <1>2, <2>1, <2>5, <2>6
<1> QED BY <1>11, <1>12 DEF Console

\* A change of the level makes the open calls unsteady, and leaves the others.
LEMMA ConsoleLevel ==
    ASSUME Types, Shaped, Opened, NEW k \in Sinks, Console(k), LevelStep
    PROVE  Console(k)'
<1>1. PICK l \in Level \cup {Off} : ChangeMaxLevel(l) /\ UNCHANGED <<config, step, stack, hist>>
    BY DEF LevelStep, records
<1>2. /\ maxLevel' = l /\ Len(calls') = Len(calls) /\ Len(calls) \in Nat
      /\ \A c \in 1..Len(calls) :
            /\ calls'[c].thread = calls[c].thread /\ calls'[c].how = calls[c].how
            /\ calls[c].how # "open" => calls'[c].steady = calls[c].steady
            /\ calls'[c].steady => calls[c].steady
            /\ calls[c].how = "open" /\ calls'[c].steady => l = maxLevel
    BY <1>1, LevelEffect DEF Types
<1>3. CASE l = maxLevel
  <2>1. calls' = calls /\ maxLevel' = maxLevel
    BY <1>1, <1>3 DEF ChangeMaxLevel
  <2>2. ASSUME NEW u \in Threads PROVE Told1(k, u)'
    BY <1>1, <1>2, <2>1, ThreadFrame DEF Console
  <2>3. ASSUME NEW c \in 1..Len(calls') PROVE Told2(k, c)'
    <3>1. PICK u \in Threads : u = calls[c].thread
      BY <2>1, CallTypes
    <3>2. \A what, d : /\ \A i \in Nat : IsAt(k, u, i, what, d)' <=> IsAt(k, u, i, what, d)
                       /\ Has(k, u, what, d)' <=> Has(k, u, what, d)
      BY <1>1, SameRecords
    <3>3. Leaving(k, u)' <=> Leaving(k, u)
      BY <1>1 DEF Leaving
    <3>4. Told2(k, c)
      BY <2>1 DEF Console
    <3>5. Between(k, u, c)'
      BY <2>1, <3>1, <3>2, <3>4 DEF Told2, Between
    <3>6. ReturnOpen(k, c)' /\ BothOrNone(k, c)'
      BY <1>1, <2>1, <3>1, <3>2, <3>3, <3>4 DEF Told2, ReturnOpen, BothOrNone
    <3> QED BY <2>1, <3>1, <3>5, <3>6 DEF Told2
  <2> QED BY <2>2, <2>3 DEF Console
<1>4. CASE l # maxLevel
  <2>1. ASSUME NEW u \in Threads PROVE Told1(k, u)'
    <3>1. Told1(k, u) /\ Nested(u)
      BY DEF Console, Shaped
    <3>2. Top(u)' = Top(u) /\ (Entering(k, u)' <=> Entering(k, u)) /\ (Leaving(k, u)' <=> Leaving(k, u))
      BY <1>1 DEF Top, Entering, Leaving
    <3>3. Known(k, u)'
      BY <1>1, <1>2, <3>1, <3>2 DEF Told1, Known
    <3>4. Ascending(k, u)'
      BY <1>1, <3>1, SameRecords DEF Told1, Ascending
    <3>5. EnterLoud(k, u)'
      BY <1>1, <1>2, <1>4, <3>1 DEF EnterLoud, Nested
    <3>6. ReturnLoud(k, u)'
      <4>1. Leaving(k, u) => ~calls'[step[u].rec.id].steady
        BY <1>2, <1>4, OwnOpen DEF Leaving, Own
      <4> QED BY <1>1, <3>2, <4>1 DEF ReturnLoud
    <3> QED BY <3>3, <3>4, <3>5, <3>6 DEF Told1
  <2>2. ASSUME NEW c \in 1..Len(calls') PROVE Told2(k, c)'
    <3>1. PICK u \in Threads : u = calls[c].thread
      BY <1>2, CallTypes
    <3>2. \A what, d : Has(k, u, what, d)' <=> Has(k, u, what, d)
      BY <1>1, SameRecords
    <3>3. Leaving(k, u)' <=> Leaving(k, u)
      BY <1>1 DEF Leaving
    <3>4. Told2(k, c) /\ Known(k, u) /\ c \in 1..Len(calls) /\ calls'[c].thread = u
      BY <1>2, <3>1 DEF Console, Told1
    <3>5. Between(k, u, c)'
      BY <1>1, <1>2, <3>1, <3>4, BetweenFrame DEF Told2
    <3>6. ReturnOpen(k, c)'
      BY <1>1, <1>2, <3>1, <3>2, <3>3, <3>4 DEF Told2, ReturnOpen
    <3>7. BothOrNone(k, c)'
      BY <1>2, <3>1, <3>2, <3>4 DEF Told2, BothOrNone
    <3> QED BY <3>4, <3>5, <3>6, <3>7 DEF Told2
  <2> QED BY <2>1, <2>2 DEF Console
<1> QED BY <1>3, <1>4

\* Steps that are none of the calling threads', and clearing of a ring.
LEMMA ConsoleStill ==
    ASSUME Types, Shaped, NEW k \in Consoles, Console(k),
           Clearing \/ UNCHANGED <<config, maxLevel, step, stack, calls, hist>>
    PROVE  Console(k)'
<1>1. /\ UNCHANGED <<config, maxLevel, stack, calls>> /\ hist'[k] = hist[k]
      /\ \A u \in Threads : /\ step'[u].at = step[u].at /\ step'[u].k = step[u].k
                            /\ step'[u].rec = step[u].rec
    BY ClearingEffect DEF Consoles
<1>2. ASSUME NEW u \in Threads PROVE Told1(k, u)'
  <2>1. Len(calls) \in Nat /\ Told1(k, u)
    BY DEF Types, Console
  <2> QED BY <1>1, <2>1, ThreadFrame
<1>3. ASSUME NEW c \in 1..Len(calls') PROVE Told2(k, c)'
  <2>1. PICK u \in Threads : u = calls[c].thread
    BY <1>1, CallTypes
  <2>2. \A what, d : Has(k, u, what, d)' <=> Has(k, u, what, d)
    BY <1>1, SameRecords
  <2>3. Leaving(k, u)' <=> Leaving(k, u)
    BY <1>1 DEF Leaving
  <2>4. Told2(k, c) /\ Known(k, u) /\ Len(calls) \in Nat
    BY <1>1 DEF Console, Told1, Types
  <2>5. Between(k, u, c)'
    BY <1>1, <2>1, <2>4, BetweenFrame DEF Told2
  <2>6. ReturnOpen(k, c)' /\ BothOrNone(k, c)'
    BY <1>1, <2>1, <2>2, <2>3, <2>4 DEF Told2, ReturnOpen, BothOrNone
  <2> QED BY <1>1, <2>1, <2>5, <2>6 DEF Told2
<1> QED BY <1>2, <1>3 DEF Console

\* Such a record, as the n records before it see it.
Longer(k, t, n, r) ==
    /\ Len(hist'[k][t]) = n + 1 /\ hist'[k][t][n + 1] = r
    /\ \A i \in 1..n : hist'[k][t][i] = hist[k][t][i]

\* Which is what a write leaves.
LEMMA WroteLast ==
    ASSUME Types, NEW k \in Sinks, NEW t \in Threads, NEW r \in Records, Wrote(k, t, r),
           NEW n \in Nat, n = Len(hist[k][t])
    PROVE  Longer(k, t, n, r)
BY SinkWrites DEF Longer

\* What it adds to the records of calls.
AddsAt(k, t, n, r) ==
    \A i \in Nat : \A what, c :
        IsAt(k, t, i, what, c)' <=>
            \/ IsAt(k, t, i, what, c)
            \/ i = n + 1 /\ r.what = what /\ r.id = c

\* A record written comes at the end, and nothing before it moves.
LEMMA WrittenAt ==
    ASSUME Types, NEW k \in Sinks, NEW t \in Threads, NEW r \in Records, Wrote(k, t, r),
           NEW n \in Nat, n = Len(hist[k][t])
    PROVE  AddsAt(k, t, n, r)
<1>1. /\ Len(hist'[k][t]) = n + 1 /\ hist'[k][t][n + 1] = r
      /\ \A i \in 1..n : hist'[k][t][i] = hist[k][t][i]
    BY WroteLast DEF Longer
<1> SUFFICES ASSUME NEW i \in Nat, NEW what, NEW c
             PROVE  IsAt(k, t, i, what, c)' <=>
                       \/ IsAt(k, t, i, what, c)
                       \/ i = n + 1 /\ r.what = what /\ r.id = c
    BY DEF AddsAt
<1>2. IsAt(k, t, i, what, c)' <=>
        i \in 1..(n + 1) /\ hist'[k][t][i].what = what /\ hist'[k][t][i].id = c
    BY <1>1 DEF IsAt
<1>3. IsAt(k, t, i, what, c) <=> i \in 1..n /\ hist[k][t][i].what = what /\ hist[k][t][i].id = c
    BY DEF IsAt
<1>4. CASE i \in 1..n
  <2>1. hist'[k][t][i] = hist[k][t][i] /\ i \in 1..(n + 1) /\ i # n + 1
    BY <1>1, <1>4
  <2> QED BY <1>2, <1>3, <1>4, <2>1
<1>5. CASE i = n + 1
  <2>1. i \in 1..(n + 1) /\ i \notin 1..n /\ hist'[k][t][i] = r
    BY <1>1, <1>5
  <2> QED BY <1>2, <1>3, <1>5, <2>1
<1>6. CASE i \notin 1..n /\ i # n + 1
  <2>1. i \notin 1..(n + 1)
    BY <1>6
  <2> QED BY <1>2, <1>3, <1>6, <2>1
<1> QED BY <1>4, <1>5, <1>6

\* A sink passes on what it is given, written or not.
LEMMA SinkEffect ==
    ASSUME Types, Shaped, NEW t \in Threads, Sink(t)
    PROVE  /\ step[t].at = "sink" /\ step[t].k \in Sinks /\ step[t].rec \in Records
           /\ step[t].rec.level \in Int /\ config.sinks[step[t].k].level \in Int
           /\ \/ /\ step[t].rec.level <= config.sinks[step[t].k].level
                 /\ Wrote(step[t].k, t, step[t].rec)
              \/ ~(step[t].rec.level <= config.sinks[step[t].k].level) /\ hist' = hist
           /\ \/ /\ step[t].k < Len(config.sinks)
                 /\ step'[t].at = "sink" /\ step'[t].k = step[t].k + 1
                 /\ step'[t].rec = step[t].rec /\ step'[t].then = step[t].then
                 /\ step'[t].asserted = step[t].asserted /\ step'[t].cleared = step[t].cleared
              \/ /\ step[t].k = Len(config.sinks) /\ step[t].then = "run" /\ step'[t] = Idle
              \/ /\ step[t].k = Len(config.sinks) /\ step[t].then # "run"
                 /\ step'[t].at = step[t].then /\ step'[t].k = 1 /\ step'[t].rec = step[t].rec
                 /\ step'[t].asserted = step[t].asserted /\ step'[t].cleared = step[t].cleared
           /\ \A u \in Threads : u # t => step'[u] = step[u]
           /\ UNCHANGED <<config, maxLevel, stack, calls, file, broken>>
<1>1. step[t] \in Steps /\ step[t].at = "sink" /\ step[t].k \in Sinks
    BY DEF Types, Sink, At
<1>2. step[t].rec \in Records /\ step[t].then \in Wheres
    BY <1>1 DEF Steps
<1>3. step[t].rec.level \in Int /\ config.sinks[step[t].k].level \in Int
  <2>1. config.sinks[step[t].k].level \in Level
    BY <1>1, SinkTypes
  <2> QED BY <1>2, <2>1 DEF Records, Level, Off, Error, Trace
<1>4. \/ /\ step[t].rec.level <= config.sinks[step[t].k].level
         /\ Wrote(step[t].k, t, step[t].rec)
      \/ ~(step[t].rec.level <= config.sinks[step[t].k].level) /\ hist' = hist
    BY DEF Sink, Wrote
<1>5. /\ \/ /\ step[t].k < Len(config.sinks)
            /\ step'[t].at = step[t].at /\ step'[t].k = step[t].k + 1
            /\ step'[t].rec = step[t].rec /\ step'[t].then = step[t].then
            /\ step'[t].asserted = step[t].asserted /\ step'[t].cleared = step[t].cleared
         \/ step[t].k = Len(config.sinks) /\ Goto(t, step[t].then)
      /\ \A u \in Threads : u # t => step'[u] = step[u]
  <2>1. IF step[t].k < Len(config.sinks) THEN step' = [step EXCEPT ![t].k = step[t].k + 1]
                                         ELSE Goto(t, step[t].then)
    BY DEF Sink
  <2> QED BY <1>2, <2>1, NextSinkEffect
<1>6. UNCHANGED <<config, maxLevel, stack, calls, file, broken>>
    BY DEF Sink, levels
<1>7. ASSUME Goto(t, step[t].then)
      PROVE  \/ step[t].then = "run" /\ step'[t] = Idle
             \/ /\ step[t].then # "run"
                /\ step'[t].at = step[t].then /\ step'[t].k = 1 /\ step'[t].rec = step[t].rec
                /\ step'[t].asserted = step[t].asserted /\ step'[t].cleared = step[t].cleared
    BY <1>2, <1>7, GotoEffect
<1> QED BY <1>1, <1>2, <1>3, <1>4, <1>5, <1>6, <1>7

\* A record comes last, if one comes at all; a file keeps what it had, or holds the ring,
\* or the last dump of it failed.
Appended(k, t) == \/ hist'[k][t] = hist[k][t]
                  \/ \E r \in Records : hist'[k][t] = Append(hist[k][t], r)
Dumped(k, t)   == \/ k \in broken'
                  \/ k \notin broken /\ file'[k][t] = file[k][t]
                  \/ file'[k][t] = Newest(hist[k][t], Len(hist[k][t]))

\* Every step adds one record to a sink, or empties a ring.
LEMMA NextRecords ==
    ASSUME Types, Shaped, [Next]_vars
    PROVE  /\ config' = config
           /\ \A k \in Rings, t \in Threads : Dumped(k, t)
           /\ \/ /\ UNCHANGED <<signal, mark>>
                 /\ \A k \in Sinks, t \in Threads : Appended(k, t)
              \/ SignalArrives /\ hist' = hist
              \/ ReopenSink /\ hist' = hist
              \/ Clearing
<1> DEFINE Goal == /\ config' = config
                   /\ \A k \in Rings, t \in Threads : Dumped(k, t)
                   /\ \/ /\ UNCHANGED <<signal, mark>>
                         /\ \A k \in Sinks, t \in Threads : Appended(k, t)
                      \/ SignalArrives /\ hist' = hist
                      \/ ReopenSink /\ hist' = hist
                      \/ Clearing
<1>1. ASSUME UNCHANGED <<config, signal, mark, hist, file, broken>> PROVE Goal
    BY <1>1 DEF Dumped, Appended
<1>2. ASSUME NEW j \in Sinks, DumpSink(j)
      PROVE  \A k \in Rings, t \in Threads : Dumped(k, t)
  <2> SUFFICES ASSUME NEW k \in Rings, NEW t \in Threads PROVE Dumped(k, t)
    OBVIOUS
  <2>1. CASE file'[k] = file[k] /\ (k \in broken => k \in broken')
    BY <2>1 DEF Dumped
  <2>2. CASE file'[k] = Dump(k)
    BY <2>2, DumpType DEF Dumped
  <2> QED BY <1>2, <2>1, <2>2, DumpEffect
<1>3. ASSUME NEW t \in Threads, Sink(t) PROVE Goal
  <2>1. UNCHANGED <<config, signal, mark, file, broken>>
    BY <1>3 DEF Sink, events
  <2>2. ASSUME NEW k \in Sinks, NEW u \in Threads PROVE Appended(k, u)
    <3>1. /\ step[t].k \in Sinks /\ step[t].rec \in Records
          /\ \/ Wrote(step[t].k, t, step[t].rec)
             \/ hist' = hist
      BY <1>3, SinkEffect
    <3> QED BY <3>1, SinkWrites DEF Appended
  <2> QED BY <2>1, <2>2 DEF Dumped
<1>4. ASSUME NEW t \in Threads, Flush(t) PROVE Goal
  <2>1. UNCHANGED <<config, signal, mark, hist>> /\ step[t].k \in Sinks /\ DumpSink(step[t].k)
    BY <1>4 DEF Flush, events, Types
  <2> QED BY <1>2, <2>1 DEF Appended
<1>5. ASSUME NEW t \in Threads,
             \/ CheckMaxLevel(t) \/ CheckFilter(t) \/ Begin(t) \/ Return(t) \/ Panic(t) \/ Abort(t)
             \/ \E fn \in Fns : Call(t, fn)
             \/ \E early \in BOOLEAN : Leave(t, early)
             \/ \E n \in 0..MaxCalls : Cancel(t, n) \/ Unwind(t, n)
      PROVE  Goal
  <2>1. UNCHANGED <<config, signal, mark, hist, file, broken>>
    BY <1>5 DEF CheckMaxLevel, CheckFilter, Begin, Return, Panic, Abort, Call, Leave, Cancel, Unwind,
          events, records
  <2> QED BY <1>1, <2>1
<1>6. ASSUME NEW t \in Threads, Macro(t) PROVE Goal
  <2>1. UNCHANGED <<config, signal, mark, hist, file, broken>>
    BY <1>6, MacroStep DEF events, records
  <2> QED BY <1>1, <2>1
<1>7. ASSUME \/ \E l \in MaxLevels : SetMaxLevel(l)
             \/ \E a \in Atomics, l \in FilterLevels : SetLevel(a, l)
             \/ SetupAgain \/ ResetLevel \/ Exit \/ UNCHANGED vars
             \/ OpenSink /\ setup.k \notin Rings
      PROVE  Goal
  <2>1. UNCHANGED <<config, signal, mark, hist, file, broken>>
    BY <1>7 DEF SetMaxLevel, SetLevel, SetupAgain, ResetLevel, Exit, OpenSink, vars, events, records
  <2> QED BY <1>1, <2>1
<1>8. ASSUME Clearing PROVE Goal
    BY <1>8 DEF Clearing, OpenSink, Dumped
<1>9. ASSUME SignalArrives PROVE Goal
    BY <1>9 DEF SignalArrives, records, Dumped
<1>10. ASSUME ReopenSink PROVE Goal
  <2>1. config' = config /\ hist' = hist /\ signal.k \in Sinks /\ DumpSink(signal.k)
    BY <1>10 DEF ReopenSink, Types
  <2> QED BY <1>2, <1>10, <2>1
<1> HIDE DEF Goal
<1>11. Goal
    BY <1>3, <1>4, <1>5, <1>6, <1>7, <1>8, <1>9, <1>10 DEF Next, Macro, Clearing
<1> QED BY <1>11 DEF Goal

\* Past the sink a call's enter, or its return, has come to.
LEMMA SinkPasses ==
    ASSUME Types, Shaped, NEW t \in Threads, NEW k \in Sinks, Sink(t)
    PROVE  /\ step[t].rec.what = "enter" =>
                 /\ Entering(k, t) <=> step[t].k <= k
                 /\ Entering(k, t)' <=> step[t].k < k
                 /\ ~Leaving(k, t) /\ ~Leaving(k, t)'
           /\ step[t].rec.what = "return" =>
                 /\ Leaving(k, t) <=> k < step[t].k
                 /\ Leaving(k, t)' <=> k <= step[t].k
                 /\ ~Entering(k, t) /\ ~Entering(k, t)' /\ step'[t].rec = step[t].rec
           /\ step[t].rec.what \notin Own =>
                 /\ Entering(k, t)' <=> Entering(k, t)
                 /\ ~Leaving(k, t) /\ ~Leaving(k, t)'
<1>1. /\ step[t].at = "sink" /\ step[t].k \in Sinks /\ stack' = stack /\ Top(t)' = Top(t)
      /\ \/ /\ step[t].k < Len(config.sinks)
            /\ step'[t].at = "sink" /\ step'[t].k = step[t].k + 1
            /\ step'[t].rec = step[t].rec
         \/ step[t].k = Len(config.sinks) /\ step[t].then = "run" /\ step'[t] = Idle
         \/ /\ step[t].k = Len(config.sinks) /\ step[t].then # "run"
            /\ step'[t].at = step[t].then /\ step'[t].rec = step[t].rec
    BY SinkEffect DEF Top
<1>2. Shape(step[t]) /\ k \in Nat /\ step[t].k \in Nat /\ k <= Len(config.sinks)
      /\ Len(config.sinks) \in Nat
    BY <1>1, SinkTypes DEF Shaped, Sinks
<1>3. Idle.at = "run" /\ Idle.rec.what = "none"
    BY DEF Idle, NoRecord, Record
<1>4. ASSUME step[t].rec.what = "enter"
      PROVE  /\ Entering(k, t) <=> step[t].k <= k
             /\ Entering(k, t)' <=> step[t].k < k
             /\ ~Leaving(k, t) /\ ~Leaving(k, t)'
  <2>1. stack[t] # <<>> /\ Top(t).at = "body" /\ step[t].then = "run"
    BY <1>1, <1>2, <1>4, OwnOpen DEF Own, Shape
  <2>2. Entering(k, t) <=> step[t].k <= k
    BY <1>1, <1>4, <2>1 DEF Entering
  <2>3. Entering(k, t)' <=> step[t].k < k
    BY <1>1, <1>2, <1>3, <1>4, <2>1 DEF Entering
  <2>4. ~Leaving(k, t) /\ ~Leaving(k, t)'
    BY <1>1, <1>3, <1>4, <2>1 DEF Leaving
  <2> QED BY <2>2, <2>3, <2>4
<1>5. ASSUME step[t].rec.what = "return"
      PROVE  /\ Leaving(k, t) <=> k < step[t].k
             /\ Leaving(k, t)' <=> k <= step[t].k
             /\ ~Entering(k, t) /\ ~Entering(k, t)' /\ step'[t].rec = step[t].rec
  <2>1. stack[t] # <<>> /\ Top(t).at = "body" /\ step[t].then = "return"
    BY <1>1, <1>2, <1>5, OwnOpen DEF Own, Shape
  <2>2. Leaving(k, t) <=> k < step[t].k
    BY <1>1, <1>5 DEF Leaving
  <2>3. Leaving(k, t)' <=> k <= step[t].k
    BY <1>1, <1>2, <1>5, <2>1 DEF Leaving
  <2>4. ~Entering(k, t) /\ ~Entering(k, t)' /\ step'[t].rec = step[t].rec
    BY <1>1, <1>5, <2>1 DEF Entering
  <2> QED BY <2>2, <2>3, <2>4
<1>6. ASSUME step[t].rec.what \notin Own
      PROVE  /\ Entering(k, t)' <=> Entering(k, t)
             /\ ~Leaving(k, t) /\ ~Leaving(k, t)'
  <2>1. step'[t].rec.what \notin Own
    BY <1>6, RoundShape DEF Round
  <2> QED BY <1>1, <1>6, <2>1 DEF Entering, Leaving, Own
<1> QED BY <1>4, <1>5, <1>6

\* A thread of whose calls nothing new is on record at a sink.
LEMMA OwnFrame ==
    ASSUME Types, Shaped, NEW k \in Sinks, NEW t \in Threads, Told1(k, t),
           UNCHANGED <<config, maxLevel, calls>>, stack'[t] = stack[t],
           Len(hist'[k][t]) \in Nat,
           \A i \in Nat, what \in Own : \A c : IsAt(k, t, i, what, c)' <=> IsAt(k, t, i, what, c),
           Entering(k, t)' <=> Entering(k, t), Leaving(k, t)' <=> Leaving(k, t),
           Leaving(k, t) => step'[t].rec = step[t].rec
    PROVE  /\ Told1(k, t)'
           /\ \A c \in 1..Len(calls) : calls[c].thread = t /\ Told2(k, c) => Told2(k, c)'
<1>1. \A c : /\ Has(k, t, "enter", c)' <=> Has(k, t, "enter", c)
             /\ Has(k, t, "return", c)' <=> Has(k, t, "return", c)
    BY DEF Has, Own
<1>2. \A i \in Nat : \A c : /\ IsAt(k, t, i, "enter", c)' <=> IsAt(k, t, i, "enter", c)
                            /\ IsAt(k, t, i, "return", c)' <=> IsAt(k, t, i, "return", c)
    BY DEF Own
<1>3. Top(t)' = Top(t) /\ \A l : Loud(k, l)' <=> Loud(k, l)
    BY DEF Top, Loud
<1>4. Known(k, t)'
  <2> SUFFICES ASSUME NEW i \in 1..Len(hist'[k][t]), hist'[k][t][i].what \in Own
               PROVE  /\ hist'[k][t][i].id \in 1..Len(calls)
                      /\ calls[hist'[k][t][i].id].thread = t
                      /\ Entering(k, t) => hist'[k][t][i].id < Top(t).id
    BY <1>3 DEF Known
  <2>0. PICK c : c = hist'[k][t][i].id
    OBVIOUS
  <2>1. PICK what \in Own : what = hist'[k][t][i].what /\ c = hist'[k][t][i].id
    BY <2>0
  <2>2. IsAt(k, t, i, what, c)' /\ i \in Nat
    BY <2>1 DEF IsAt
  <2>3. IsAt(k, t, i, what, c)
    BY <2>2
  <2>4. i \in 1..Len(hist[k][t]) /\ hist[k][t][i].what = what /\ hist[k][t][i].id = c
    BY <2>3 DEF IsAt
  <2>5. Known(k, t)
    BY DEF Told1
  <2>6. /\ c \in 1..Len(calls) /\ calls[c].thread = t
        /\ Entering(k, t) => c < Top(t).id
    BY <2>4, <2>5 DEF Known
  <2> QED BY <2>1, <2>6
<1>5. Ascending(k, t)'
    BY <1>2 DEF Told1, Ascending
<1>6. EnterLoud(k, t)'
    BY <1>1, <1>3 DEF Told1, EnterLoud
<1>7. ReturnLoud(k, t)'
    BY <1>1, <1>3 DEF Told1, ReturnLoud, Leaving
<1>8. ASSUME NEW c \in 1..Len(calls), calls[c].thread = t, Told2(k, c) PROVE Told2(k, c)'
  <2>1. ReturnOpen(k, c)'
    BY <1>1, <1>8 DEF Told2, ReturnOpen
  <2>2. BothOrNone(k, c)'
    BY <1>1, <1>8 DEF Told2, BothOrNone
  <2>3. Between(k, t, c)'
    BY <1>2, <1>8 DEF Told2, Between
  <2> QED BY <1>8, <2>1, <2>2, <2>3 DEF Told2
<1> QED BY <1>4, <1>5, <1>6, <1>7, <1>8 DEF Told1

\* What a call's enter leaves on record where it is written, or is not.
LEMMA EnterSink ==
    ASSUME Types, Shaped, Opened, Quiet, NEW t \in Threads, Sink(t), NEW k \in Sinks,
           k = step[t].k, Console(k), step[t].rec.what = "enter", Types'
    PROVE  /\ Told1(k, t)'
           /\ \A c \in 1..Len(calls) : calls[c].thread = t => Told2(k, c)'
<1>1. /\ Told1(k, t) /\ Nested(t) /\ step[t].rec \in Records /\ step[t].at = "sink"
      /\ stack' = stack /\ Top(t)' = Top(t) /\ UNCHANGED <<config, maxLevel, calls>>
    BY SinkEffect DEF Console, Shaped, Top
<1>2. /\ Entering(k, t) /\ ~Entering(k, t)' /\ ~Leaving(k, t) /\ ~Leaving(k, t)'
  <2>1. k \in Nat
    BY SinkTypes
  <2> QED BY <2>1, SinkPasses
<1>3. /\ stack[t] # <<>> /\ Len(stack[t]) \in 1..Len(stack[t]) /\ Top(t) = stack[t][Len(stack[t])]
      /\ step[t].rec.id = Top(t).id /\ step[t].rec.level = Top(t).level
      /\ step[t].rec.id \in 1..Len(calls) /\ calls[step[t].rec.id].how = "open"
      /\ calls[step[t].rec.id].thread = t
    BY OwnOpen DEF Own
<1>4. PICK b \in 1..Len(calls) : b = step[t].rec.id
    BY <1>3
<1>5. PICK n \in Nat : n = Len(hist[k][t])
  <2>1. hist[k][t] \in Seq(Records)
    BY DEF Types
  <2> QED BY <2>1
<1>6. b \in Nat /\ Len(calls) \in Nat
    BY DEF Types
<1>7. ~Has(k, t, "enter", b) /\ ~Has(k, t, "return", b)
    BY <1>1, <1>2, <1>3, <1>4, NothingYet DEF Told1, Own
<1>8. /\ \A c : Has(k, t, "return", c)' <=> Has(k, t, "return", c)
      /\ \A i \in Nat : \A c : IsAt(k, t, i, "return", c)' <=> IsAt(k, t, i, "return", c)
      /\ \A c : c # b => (Has(k, t, "enter", c)' <=> Has(k, t, "enter", c))
      /\ \A i \in Nat : \A c :
            IsAt(k, t, i, "enter", c)' => IsAt(k, t, i, "enter", c) \/ (i = n + 1 /\ c = b)
      /\ Has(k, t, "enter", b)' <=> step[t].rec.level <= config.sinks[k].level
      /\ \A i \in 1..Len(hist'[k][t]) :
            hist'[k][t][i] = step[t].rec \/ (i \in 1..n /\ hist'[k][t][i] = hist[k][t][i])
  <2>1. CASE ~(step[t].rec.level <= config.sinks[k].level) /\ hist' = hist
    BY <1>5, <1>7, <2>1, SameRecords
  <2>2. CASE /\ step[t].rec.level <= config.sinks[k].level
             /\ Wrote(k, t, step[t].rec)
    <3>a. PICK r \in Records : r = step[t].rec
      BY <1>1
    <3>b. Wrote(k, t, r)
      BY <2>2, <3>a
    <3>1. /\ Len(hist'[k][t]) = n + 1 /\ hist'[k][t][n + 1] = step[t].rec
          /\ \A i \in 1..n : hist'[k][t][i] = hist[k][t][i]
      <4>1. Longer(k, t, n, r)
        BY <1>5, <3>b, WroteLast
      <4> QED BY <3>a, <4>1 DEF Longer
    <3>2. \A i \in Nat : \A c :
             /\ IsAt(k, t, i, "return", c)' <=> IsAt(k, t, i, "return", c)
             /\ IsAt(k, t, i, "enter", c)' <=> IsAt(k, t, i, "enter", c) \/ (i = n + 1 /\ c = b)
      <4>1. AddsAt(k, t, n, r)
        BY <1>5, <3>b, WrittenAt
      <4>2. r.what = "enter" /\ r.id = b
        BY <1>4, <3>a
      <4> QED BY <4>1, <4>2 DEF AddsAt
    <3>3. \A i \in 1..(n + 1) : i = n + 1 \/ i \in 1..n
      OBVIOUS
    <3>4. /\ \A c : Has(k, t, "return", c)' <=> Has(k, t, "return", c)
          /\ \A c : c # b => (Has(k, t, "enter", c)' <=> Has(k, t, "enter", c))
      BY <3>2 DEF Has
    <3>5. Has(k, t, "enter", b)'
      <4>1. IsAt(k, t, n + 1, "enter", b)'
        BY <3>2
      <4> QED BY <4>1 DEF Has
    <3> QED BY <2>2, <3>1, <3>2, <3>3, <3>4, <3>5
  <2> QED BY <2>1, <2>2, SinkEffect
<1>9. Known(k, t)'
  <2> SUFFICES ASSUME NEW i \in 1..Len(hist'[k][t]), hist'[k][t][i].what \in Own
               PROVE  /\ hist'[k][t][i].id \in 1..Len(calls)
                      /\ calls[hist'[k][t][i].id].thread = t
    BY <1>1, <1>2 DEF Known
  <2>1. hist'[k][t][i] = step[t].rec \/ (i \in 1..Len(hist[k][t]) /\ hist'[k][t][i] = hist[k][t][i])
    BY <1>5, <1>8
  <2> QED BY <1>1, <1>3, <2>1 DEF Told1, Known
<1>10. Ascending(k, t)'
  <2> SUFFICES ASSUME NEW i \in Nat, NEW p \in Nat, NEW c \in Nat, NEW d \in Nat,
                      IsAt(k, t, i, "enter", c)', IsAt(k, t, p, "enter", d)', i < p
               PROVE  c < d
    BY DEF Ascending
  <2>1. IsAt(k, t, i, "enter", c) \/ (i = n + 1 /\ c = b)
    BY <1>8
  <2>2. IsAt(k, t, p, "enter", d) \/ (p = n + 1 /\ d = b)
    BY <1>8
  <2>3. CASE IsAt(k, t, i, "enter", c) /\ IsAt(k, t, p, "enter", d)
    BY <1>1, <2>3 DEF Told1, Ascending
  <2>4. CASE IsAt(k, t, i, "enter", c) /\ d = b
    BY <1>1, <1>2, <1>3, <1>4, <2>4 DEF Told1, Known, IsAt, Own
  <2>5. CASE i = n + 1
    <3>1. p > n + 1
      BY <2>5
    <3> QED BY <1>5, <2>2, <3>1 DEF IsAt
  <2> QED BY <2>1, <2>2, <2>3, <2>4, <2>5
<1>11. EnterLoud(k, t)'
  <2> SUFFICES ASSUME NEW a \in 1..Len(stack[t]), stack[t][a].at = "body",
                      NEW c, NEW l, c = stack[t][a].id, l = stack[t][a].level, calls[c].steady
               PROVE  Has(k, t, "enter", c)' <=> Loud(k, l)'
    BY <1>1, <1>2 DEF EnterLoud
  <2>1. Loud(k, l)' <=> Loud(k, l)
    BY <1>1 DEF Loud
  <2>2. CASE a # Len(stack[t])
    <3>1. Has(k, t, "enter", c) <=> Loud(k, l)
      BY <1>1, <2>2 DEF Told1, EnterLoud
    <3>2. c # b
      <4>1. a < Len(stack[t])
        BY <1>3, <2>2
      <4>2. stack[t][a].id < stack[t][Len(stack[t])].id /\ stack[t][a].id \in 1..Len(calls)
        BY <1>1, <1>3, <4>1 DEF Nested
      <4> QED BY <1>3, <1>4, <1>6, <4>2
    <3> QED BY <1>8, <2>1, <3>1, <3>2
  <2>3. CASE a = Len(stack[t])
    <3>1. c = b /\ l = step[t].rec.level
      BY <1>3, <1>4, <2>3
    <3>2. l <= maxLevel
      BY <1>1, <1>4, <3>1 DEF Quiet, PassedMax, Own
    <3> QED BY <1>8, <2>1, <3>1, <3>2 DEF Loud
  <2> QED BY <2>2, <2>3
<1>12. ReturnLoud(k, t)'
    BY <1>2 DEF ReturnLoud
<1>13. ASSUME NEW c \in 1..Len(calls), calls[c].thread = t PROVE Told2(k, c)'
  <2>1. Told2(k, c)
    BY DEF Console
  <2>2. ReturnOpen(k, c)'
    BY <1>1, <1>2, <1>8, <1>13, <2>1 DEF Told2, ReturnOpen
  <2>3. BothOrNone(k, c)'
    BY <1>1, <1>3, <1>4, <1>8, <1>13, <2>1 DEF Told2, BothOrNone
  <2>4. Between(k, t, c)'
    <3> SUFFICES ASSUME NEW i \in Nat, NEW j \in Nat,
                        IsAt(k, t, i, "enter", c)', IsAt(k, t, j, "return", c)'
                 PROVE  /\ i < j
                        /\ \A d \in 1..Len(calls'), p \in Nat : IsAt(k, t, p, "enter", d)' /\ i < p /\ p < j =>
                              /\ calls'[d].how # "open"
                              /\ calls'[d].how = "returned" /\ calls'[d].steady =>
                                    \E q \in Nat : IsAt(k, t, q, "return", d)' /\ i < q /\ q < j
      BY DEF Between
    <3>1. IsAt(k, t, j, "return", c) /\ c # b
      BY <1>7, <1>8 DEF Has
    <3>2. IsAt(k, t, i, "enter", c)
      BY <1>8, <3>1
    <3>3. i < j
      BY <1>13, <2>1, <3>1, <3>2 DEF Told2, Between
    <3>4. ASSUME NEW d \in 1..Len(calls), NEW p \in Nat, IsAt(k, t, p, "enter", d)', i < p, p < j
          PROVE  /\ calls[d].how # "open"
                 /\ calls[d].how = "returned" /\ calls[d].steady =>
                       \E q \in Nat : IsAt(k, t, q, "return", d) /\ i < q /\ q < j
      <4>1. j \in 1..n
        BY <1>5, <3>1 DEF IsAt
      <4>2. IsAt(k, t, p, "enter", d)
        BY <1>8, <3>4, <4>1
      <4> QED BY <1>13, <2>1, <3>1, <3>2, <3>4, <4>2 DEF Told2, Between
    <3> QED BY <1>1, <1>8, <3>3, <3>4
  <2> QED BY <1>1, <1>13, <2>2, <2>3, <2>4 DEF Told2
<1> QED BY <1>9, <1>10, <1>11, <1>12, <1>13 DEF Told1

\* What a call's return does.
LEMMA ReturnSink ==
    ASSUME Types, Shaped, Opened, Quiet, NEW t \in Threads, Sink(t), NEW k \in Sinks,
           k = step[t].k, Console(k), step[t].rec.what = "return", Types'
    PROVE  /\ Told1(k, t)'
           /\ \A c \in 1..Len(calls) : calls[c].thread = t => Told2(k, c)'
<1>1. /\ Told1(k, t) /\ Nested(t) /\ step[t].rec \in Records /\ step[t].at = "sink"
      /\ stack' = stack /\ Top(t)' = Top(t) /\ UNCHANGED <<config, maxLevel, calls>>
    BY SinkEffect DEF Console, Shaped, Top
<1>2. /\ ~Entering(k, t) /\ ~Entering(k, t)' /\ ~Leaving(k, t) /\ Leaving(k, t)'
      /\ step'[t].rec = step[t].rec
  <2>1. k \in Nat
    BY SinkTypes
  <2> QED BY <2>1, SinkPasses
<1>3. /\ stack[t] # <<>> /\ Len(stack[t]) \in 1..Len(stack[t]) /\ Top(t) = stack[t][Len(stack[t])]
      /\ step[t].rec.id = Top(t).id /\ step[t].rec.level = Top(t).level
      /\ step[t].rec.id \in 1..Len(calls) /\ calls[step[t].rec.id].how = "open"
      /\ calls[step[t].rec.id].thread = t
    BY OwnOpen DEF Own
<1>4. PICK b \in 1..Len(calls) : b = step[t].rec.id
    BY <1>3
<1>5. PICK n \in Nat : n = Len(hist[k][t])
  <2>1. hist[k][t] \in Seq(Records)
    BY DEF Types
  <2> QED BY <2>1
<1>6. b \in Nat /\ Len(calls) \in Nat
    BY DEF Types
<1>7. ~Has(k, t, "return", b)
  <2>1. ReturnOpen(k, b)
    BY DEF Console, Told2
  <2> QED BY <1>2, <1>3, <1>4, <2>1 DEF ReturnOpen
<1>8. /\ \A c : Has(k, t, "enter", c)' <=> Has(k, t, "enter", c)
      /\ \A i \in Nat : \A c : IsAt(k, t, i, "enter", c)' <=> IsAt(k, t, i, "enter", c)
      /\ \A c : c # b => (Has(k, t, "return", c)' <=> Has(k, t, "return", c))
      /\ \A i \in Nat : \A c :
            /\ IsAt(k, t, i, "return", c) => IsAt(k, t, i, "return", c)'
            /\ IsAt(k, t, i, "return", c)' => IsAt(k, t, i, "return", c) \/ (i = n + 1 /\ c = b)
      /\ Has(k, t, "return", b)' <=> step[t].rec.level <= config.sinks[k].level
      /\ \A i \in 1..Len(hist'[k][t]) :
            hist'[k][t][i] = step[t].rec \/ (i \in 1..n /\ hist'[k][t][i] = hist[k][t][i])
  <2>1. CASE ~(step[t].rec.level <= config.sinks[k].level) /\ hist' = hist
    BY <1>5, <1>7, <2>1, SameRecords
  <2>2. CASE /\ step[t].rec.level <= config.sinks[k].level
             /\ Wrote(k, t, step[t].rec)
    <3>a. PICK r \in Records : r = step[t].rec
      BY <1>1
    <3>b. Wrote(k, t, r)
      BY <2>2, <3>a
    <3>1. /\ Len(hist'[k][t]) = n + 1 /\ hist'[k][t][n + 1] = step[t].rec
          /\ \A i \in 1..n : hist'[k][t][i] = hist[k][t][i]
      <4>1. Longer(k, t, n, r)
        BY <1>5, <3>b, WroteLast
      <4> QED BY <3>a, <4>1 DEF Longer
    <3>2. \A i \in Nat : \A c :
             /\ IsAt(k, t, i, "enter", c)' <=> IsAt(k, t, i, "enter", c)
             /\ IsAt(k, t, i, "return", c)' <=> IsAt(k, t, i, "return", c) \/ (i = n + 1 /\ c = b)
      <4>1. AddsAt(k, t, n, r)
        BY <1>5, <3>b, WrittenAt
      <4>2. r.what = "return" /\ r.id = b
        BY <1>4, <3>a
      <4> QED BY <4>1, <4>2 DEF AddsAt
    <3>3. \A i \in 1..(n + 1) : i = n + 1 \/ i \in 1..n
      OBVIOUS
    <3>4. /\ \A c : Has(k, t, "enter", c)' <=> Has(k, t, "enter", c)
          /\ \A c : c # b => (Has(k, t, "return", c)' <=> Has(k, t, "return", c))
      BY <3>2 DEF Has
    <3>5. Has(k, t, "return", b)'
      <4>1. IsAt(k, t, n + 1, "return", b)'
        BY <3>2
      <4> QED BY <4>1 DEF Has
    <3> QED BY <2>2, <3>1, <3>2, <3>3, <3>4, <3>5
  <2> QED BY <2>1, <2>2, SinkEffect
<1>9. Known(k, t)'
  <2> SUFFICES ASSUME NEW i \in 1..Len(hist'[k][t]), hist'[k][t][i].what \in Own
               PROVE  /\ hist'[k][t][i].id \in 1..Len(calls)
                      /\ calls[hist'[k][t][i].id].thread = t
    BY <1>1, <1>2 DEF Known
  <2>1. hist'[k][t][i] = step[t].rec \/ (i \in 1..Len(hist[k][t]) /\ hist'[k][t][i] = hist[k][t][i])
    BY <1>5, <1>8
  <2> QED BY <1>1, <1>3, <2>1 DEF Told1, Known
<1>10. Ascending(k, t)'
    BY <1>1, <1>8 DEF Told1, Ascending
<1>11. EnterLoud(k, t)'
  <2> SUFFICES ASSUME NEW a \in 1..Len(stack[t]), stack[t][a].at = "body",
                      NEW c, NEW l, c = stack[t][a].id, l = stack[t][a].level, calls[c].steady
               PROVE  Has(k, t, "enter", c)' <=> Loud(k, l)'
    BY <1>1 DEF EnterLoud
  <2>1. Loud(k, l)' <=> Loud(k, l)
    BY <1>1 DEF Loud
  <2>2. Has(k, t, "enter", c) <=> Loud(k, l)
    BY <1>1, <1>2 DEF Told1, EnterLoud
  <2> QED BY <1>8, <2>1, <2>2
<1>12. ReturnLoud(k, t)'
  <2> SUFFICES ASSUME calls[b].steady
               PROVE  Has(k, t, "return", b)' <=> Loud(k, step[t].rec.level)'
    BY <1>1, <1>2, <1>4 DEF ReturnLoud
  <2>1. step[t].rec.level <= maxLevel
    BY <1>1, <1>4 DEF Quiet, PassedMax, Own
  <2> QED BY <1>1, <1>2, <1>8, <2>1 DEF Loud
<1>13. ASSUME NEW c \in 1..Len(calls), calls[c].thread = t PROVE Told2(k, c)'
  <2>1. Told2(k, c)
    BY DEF Console
  <2>2. ReturnOpen(k, c)'
    BY <1>1, <1>2, <1>3, <1>4, <1>8, <1>13, <2>1 DEF Told2, ReturnOpen
  <2>3. BothOrNone(k, c)'
    BY <1>1, <1>3, <1>4, <1>8, <1>13, <2>1 DEF Told2, BothOrNone
  <2>4. Between(k, t, c)'
    <3> SUFFICES ASSUME NEW i \in Nat, NEW j \in Nat,
                        IsAt(k, t, i, "enter", c)', IsAt(k, t, j, "return", c)'
                 PROVE  /\ i < j
                        /\ \A d \in 1..Len(calls'), p \in Nat : IsAt(k, t, p, "enter", d)' /\ i < p /\ p < j =>
                              /\ calls'[d].how # "open"
                              /\ calls'[d].how = "returned" /\ calls'[d].steady =>
                                    \E q \in Nat : IsAt(k, t, q, "return", d)' /\ i < q /\ q < j
      BY DEF Between
    <3>1. IsAt(k, t, i, "enter", c) /\ (IsAt(k, t, j, "return", c) \/ (j = n + 1 /\ c = b))
      BY <1>8
    <3>2. CASE IsAt(k, t, j, "return", c)
      <4>1. /\ i < j
            /\ \A d \in 1..Len(calls), p \in Nat : IsAt(k, t, p, "enter", d) /\ i < p /\ p < j =>
                  /\ calls[d].how # "open"
                  /\ calls[d].how = "returned" /\ calls[d].steady =>
                        \E q \in Nat : IsAt(k, t, q, "return", d) /\ i < q /\ q < j
        BY <1>13, <2>1, <3>1, <3>2 DEF Told2, Between
      <4> QED BY <1>1, <1>8, <4>1
    <3>3. CASE j = n + 1 /\ c = b
      <4>1. i \in 1..n
        BY <1>5, <3>1 DEF IsAt
      <4>2. ASSUME NEW d \in 1..Len(calls), NEW p \in Nat, IsAt(k, t, p, "enter", d), i < p
            PROVE  /\ calls[d].how # "open"
                   /\ calls[d].how = "returned" /\ calls[d].steady =>
                         \E q \in Nat : IsAt(k, t, q, "return", d) /\ i < q /\ q < j
        <5>1. b < d
          <6>1. d \in Nat /\ IsAt(k, t, i, "enter", b)
            BY <1>6, <3>1, <3>3
          <6> QED BY <1>1, <1>6, <4>2, <6>1 DEF Told1, Ascending
        <5>2. calls[d].thread = t
          BY <1>1, <4>2 DEF Told1, Known, IsAt, Own
        <5>3. calls[d].how # "open"
          <6>1. SUFFICES ASSUME calls[d].how = "open" PROVE FALSE
            OBVIOUS
          <6>2. PICK a \in 1..Len(stack[t]) : stack[t][a].id = d
            BY <5>2, <6>1 DEF Opened, Stacked
          <6>3. a = Len(stack[t]) \/ a < Len(stack[t])
            BY <1>3
          <6>4. stack[t][Len(stack[t])].id = b
            BY <1>3, <1>4
          <6>5. a < Len(stack[t]) => stack[t][a].id < b
            BY <1>1, <1>3, <6>4 DEF Nested
          <6> QED BY <1>6, <5>1, <6>2, <6>3, <6>4, <6>5
        <5>4. ASSUME calls[d].how = "returned", calls[d].steady
              PROVE  \E q \in Nat : IsAt(k, t, q, "return", d) /\ i < q /\ q < j
          <6>1. Told2(k, d) /\ Has(k, t, "enter", d)
            BY <4>2 DEF Console, Has
          <6>2. PICK q \in Nat : IsAt(k, t, q, "return", d)
            BY <5>2, <5>4, <6>1 DEF Told2, BothOrNone, Has
          <6>3. p < q
            BY <4>2, <5>2, <6>1, <6>2 DEF Told2, Between
          <6>4. q \in 1..n
            BY <1>5, <6>2 DEF IsAt
          <6> QED BY <3>3, <4>2, <6>2, <6>3, <6>4
        <5> QED BY <5>3, <5>4
      <4> QED BY <1>1, <1>8, <3>3, <4>1, <4>2
    <3> QED BY <3>1, <3>2, <3>3
  <2> QED BY <1>1, <1>13, <2>2, <2>3, <2>4 DEF Told2
<1> QED BY <1>9, <1>10, <1>11, <1>12, <1>13 DEF Told1

\* One sink takes a record, or lets it pass.
LEMMA ConsoleSink ==
    ASSUME Types, Shaped, Opened, Quiet, Types', NEW t \in Threads, Sink(t), NEW k \in Sinks,
           Console(k)
    PROVE  Console(k)'
<1>1. /\ UNCHANGED <<config, maxLevel, stack, calls>> /\ step[t].k \in Sinks
      /\ \A u \in Threads : u # t => step'[u] = step[u]
      /\ step[t].rec \in Records
      /\ \/ Wrote(step[t].k, t, step[t].rec)
         \/ hist' = hist
    BY SinkEffect
<1>2. \A j \in Sinks, u \in Threads : j # step[t].k \/ u # t => hist'[j][u] = hist[j][u]
    BY <1>1, SinkWrites
<1>3. ASSUME NEW u \in Threads
      PROVE  /\ Told1(k, u)'
             /\ \A c \in 1..Len(calls) : calls[c].thread = u => Told2(k, c)'
  <2>1. Told1(k, u) /\ (\A c \in 1..Len(calls) : Told2(k, c)) /\ stack'[u] = stack[u]
    BY <1>1 DEF Console
  <2>2. Len(hist'[k][u]) \in Nat
    <3>1. hist'[k][u] \in Seq(Records)
      BY <1>1, SinksStay DEF Types
    <3> QED BY <3>1
  <2>3. CASE u # t
    <3>1. hist'[k][u] = hist[k][u] /\ step'[u] = step[u]
      BY <1>1, <1>2, <2>3
    <3>2. (Entering(k, u)' <=> Entering(k, u)) /\ (Leaving(k, u)' <=> Leaving(k, u))
      BY <2>1, <3>1 DEF Entering, Leaving, Top
    <3>3. \A i \in Nat, what \in Own : \A c : IsAt(k, u, i, what, c)' <=> IsAt(k, u, i, what, c)
      BY <3>1, SameRecords
    <3> QED BY <1>1, <2>1, <2>2, <3>1, <3>2, <3>3, OwnFrame
  <2>4. CASE u = t /\ step[t].k = k /\ step[t].rec.what \in Own
    BY <2>4, EnterSink, ReturnSink DEF Own
  <2>5. CASE u = t /\ (step[t].k # k \/ step[t].rec.what \notin Own)
    <3>1. \A i \in Nat, what \in Own : \A c : IsAt(k, t, i, what, c)' <=> IsAt(k, t, i, what, c)
      <4>1. CASE step[t].k # k \/ hist' = hist
        <5>1. hist'[k][t] = hist[k][t]
          BY <1>2, <4>1
        <5> QED BY <5>1, SameRecords
      <4>2. CASE /\ step[t].k = k /\ step[t].rec.what \notin Own
                 /\ Wrote(k, t, step[t].rec)
        <5>1. PICK n \in Nat : n = Len(hist[k][t])
          BY <1>1, <4>2, SinkWrites
        <5>2. PICK r \in Records : r = step[t].rec
          BY <1>1
        <5>3. Wrote(k, t, r)
          BY <4>2, <5>2
        <5>4. AddsAt(k, t, n, r)
          BY <1>1, <4>2, <5>1, <5>3, WrittenAt
        <5> QED BY <4>2, <5>2, <5>4 DEF AddsAt
      <4> QED BY <1>1, <2>5, <4>1, <4>2
    <3>2. /\ Entering(k, t)' <=> Entering(k, t)
          /\ Leaving(k, t)' <=> Leaving(k, t)
          /\ Leaving(k, t) => step'[t].rec = step[t].rec
      <4>1. CASE step[t].rec.what \notin Own
        BY <4>1, SinkPasses
      <4>2. CASE step[t].rec.what \in Own /\ step[t].k # k
        <5>1. k \in Nat /\ step[t].k \in Nat
          BY <1>1, SinkTypes
        <5>2. (step[t].k < k <=> step[t].k <= k) /\ (k < step[t].k <=> k <= step[t].k)
          BY <4>2, <5>1
        <5> QED BY <4>2, <5>2, SinkPasses DEF Own
      <4> QED BY <2>5, <4>1, <4>2
    <3> QED BY <1>1, <2>1, <2>2, <2>5, <3>1, <3>2, OwnFrame
  <2> QED BY <2>3, <2>4, <2>5
<1>4. ASSUME NEW c \in 1..Len(calls') PROVE Told2(k, c)'
  <2>1. PICK u \in Threads : u = calls[c].thread
    BY <1>1, CallTypes
  <2> QED BY <1>1, <1>3, <2>1
<1> QED BY <1>3, <1>4 DEF Console

\* Every step keeps the story of every console.
LEMMA BracketedStep ==
    ASSUME Types, Shaped, Opened, Quiet, Bracketed, Types', Shaped', [Next]_vars
    PROVE  Bracketed'
<1> SUFFICES ASSUME NEW k \in Consoles PROVE Console(k)'
  <2>1. config' = config
    BY NextRecords
  <2>2. Consoles' = Consoles
    BY <2>1, SinksStay
  <2>3. \A k \in Consoles : Console(k)'
    OBVIOUS
  <2>4. (\A k \in Consoles : Console(k))'
    BY <2>2, <2>3
  <2>5. Bracketed' <=> (\A k \in Consoles : Console(k))'
    BY BracketedIsConsole, PTL
  <2> QED BY <2>4, <2>5
<1>1. k \in Sinks /\ Console(k)
    BY BracketedIsConsole DEF Consoles
<1>2. ASSUME NEW t \in Threads, Round(t) PROVE Console(k)'
    BY <1>1, <1>2, ConsoleMove, ConsoleSink DEF Round
<1>3. ASSUME NEW t \in Threads, Begin(t) \/ Macro(t) \/ \E early \in BOOLEAN : Leave(t, early)
      PROVE  Console(k)'
    BY <1>1, <1>3, ConsoleMove
<1>4. ASSUME NEW t \in Threads, NEW fn \in Fns, Call(t, fn) PROVE Console(k)'
    BY <1>1, <1>4, ConsoleCall
<1>5. ASSUME NEW t \in Threads, NEW n \in Nat, NEW how \in {"returned", "cancelled", "panicked"},
             Ending(t, n, how)
      PROVE  Console(k)'
    BY <1>1, <1>5, ConsoleEnding
<1>6. LevelStep => Console(k)'
    BY <1>1, ConsoleLevel
<1>7. Clearing \/ UNCHANGED <<config, maxLevel, step, stack, calls, hist>> => Console(k)'
    BY <1>1, ConsoleStill
<1> QED BY <1>2, <1>3, <1>4, <1>5, <1>6, <1>7, NextKinds

-----------------------------------------------------------------------------
\* The records of a panic.

\* The last two records of a ring are in what it holds.
LEMMA NewestTold ==
    ASSUME NEW h \in Seq(Records), NEW s, Told(h, s)
    PROVE  Told(Newest(h, Len(h)), s)
<1>1. Len(h) \in Nat /\ Len(h) > 0 /\ Len(h) \in 0..Len(h) /\ Keep \in Nat \ {0, 1}
    BY KeepAssumption DEF Told
<1>2. PICK m \in Nat : m = IF Len(h) - Keep + 1 > 1 THEN Len(h) - Keep + 1 ELSE 1
    BY <1>1
<1>3. m \in 1..Len(h) /\ (Len(h) > 1 => m < Len(h))
    BY <1>1, <1>2
<1> DEFINE g == SubSeq(h, m, Len(h))  n == Len(h) - m + 1
<1>4. Newest(h, Len(h)) = g
    BY <1>1, <1>2, NewestType
<1>5. \A i \in m..Len(h) : h[i] \in Records
    BY <1>1, <1>3, ElementOfSeq
<1>6. Len(g) = n /\ \A i \in 1..n : g[i] = h[m + i - 1]
  <2>1. m \in Int /\ Len(h) \in Int /\ m <= Len(h)
    BY <1>1, <1>3
  <2>2. /\ Len(SubSeq(h, m, Len(h))) = IF m <= Len(h) THEN Len(h) - m + 1 ELSE 0
        /\ \A i \in 1..(Len(h) - m + 1) : SubSeq(h, m, Len(h))[i] = h[m + i - 1]
    BY <1>5, <2>1, SubSeqProperties
  <2> QED BY <2>1, <2>2
<1>7. n \in Nat /\ n > 0 /\ n \in 1..n /\ m + n - 1 = Len(h)
      /\ (Len(h) > 1 => n > 1 /\ n - 1 \in 1..n /\ m + (n - 1) - 1 = Len(h) - 1)
    BY <1>1, <1>3
<1> HIDE DEF g, n
<1>8. g[n] = h[Len(h)] /\ (Len(h) > 1 => g[n - 1] = h[Len(h) - 1])
    BY <1>6, <1>7
<1> QED BY <1>4, <1>6, <1>7, <1>8 DEF Told

\* What the steps of a thread and the sinks keep of a panic's records.
Recorded(k, t) ==
    Kept(k, t) =>
        /\ Asserting(k, t) => LastIs(hist[k][t], "assert", step[t].rec.id)
        /\ Hooked(k, t)    => Told(hist[k][t], step[t])
        /\ Flushed(k, t)   => k \in broken \/ Told(file[k][t], step[t])

\* It stays while the thread stands where it is, whatever else is dumped.
LEMMA RecordedFrame ==
    ASSUME Types, NEW k \in Sinks, NEW t \in Threads, Recorded(k, t), config' = config,
           hist'[k][t] = hist[k][t], k \in Rings => Dumped(k, t),
           step'[t].at = step[t].at, step'[t].k = step[t].k, step'[t].rec = step[t].rec,
           step'[t].asserted = step[t].asserted, step[t].cleared => step'[t].cleared
    PROVE  Recorded(k, t)'
<1>1. SUFFICES ASSUME Kept(k, t)'
               PROVE  /\ Asserting(k, t) => LastIs(hist[k][t], "assert", step[t].rec.id)
                      /\ Hooked(k, t)    => Told(hist[k][t], step[t])
                      /\ Flushed(k, t)   => k \in broken' \/ Told(file'[k][t], step[t])
  <2>1. /\ Asserting(k, t)' <=> Asserting(k, t)
        /\ Hooked(k, t)' <=> Hooked(k, t)
        /\ Flushed(k, t)' <=> Flushed(k, t)
    BY SinksStay DEF Asserting, Hooked, Flushed
  <2>2. \A h : Told(h, step'[t]) <=> Told(h, step[t])
    BY DEF Told
  <2> QED BY <2>1, <2>2 DEF Recorded
<1>2. Kept(k, t)
    BY <1>1, SinksStay DEF Kept
<1>3. Flushed(k, t) => Hooked(k, t) /\ k \in Rings
    BY DEF Flushed, Hooked
<1>4. hist[k][t] \in Seq(Records)
    BY DEF Types
<1>5. Hooked(k, t) => Told(Newest(hist[k][t], Len(hist[k][t])), step[t])
    BY <1>2, <1>4, NewestTold DEF Recorded
<1> QED BY <1>2, <1>3, <1>5 DEF Recorded, Dumped

\* Neither assertion nor hook has come to a sink.
LEMMA NotRecorded ==
    ASSUME NEW k, NEW t,
           \/ step'[t].at \in {"run", "max", "filter", "return"}
           \/ step'[t].at = "sink" /\ step'[t].rec.what \notin {"assert", "panic"}
    PROVE  Recorded(k, t)'
BY DEF Recorded, Asserting, Hooked, Flushed

\* A failed assertion passes its levels ...
LEMMA RecordedLevels ==
    ASSUME Types, Shaped, Shaped', NEW k \in Sinks, NEW t \in Threads,
           CheckMaxLevel(t) \/ CheckFilter(t)
    PROVE  Recorded(k, t)'
<1>1. step[t] \in Steps /\ Shape(step[t]) /\ step[t].then \in Wheres /\ k \in Nat /\ 1 <= k
  <2>1. k \in Nat /\ 1 <= k
    BY SinkTypes DEF Sinks
  <2> QED BY <2>1 DEF Types, Shaped, Steps
<1>2. ASSUME step'[t].at = "sink", step'[t].k = 1, step'[t].rec = step[t].rec,
             step[t].at \in {"max", "filter"}
      PROVE  Recorded(k, t)'
  <2>1. step[t].rec.what # "panic"
    BY <1>1, <1>2 DEF Shape
  <2>2. ~Asserting(k, t)' /\ ~Hooked(k, t)' /\ ~Flushed(k, t)'
    BY <1>1, <1>2, <2>1 DEF Asserting, Hooked, Flushed
  <2> QED BY <2>2 DEF Recorded
<1>3. CASE CheckMaxLevel(t)
  <2>1. step[t].at = "max" /\ step[t].k = 1 /\ ~step[t].asserted
    BY <1>1, <1>3 DEF CheckMaxLevel, At, Shape
  <2>2. CASE Goto(t, step[t].then)
    <3>1. CASE step[t].then = "run"
      BY <1>1, <2>2, <3>1, GotoEffect, NotRecorded DEF Idle
    <3>2. CASE step[t].then = "return"
      BY <1>1, <2>2, <3>2, GotoEffect, NotRecorded
    <3>3. CASE step[t].then = "panic"
      <4>1. step'[t].at = "panic" /\ step'[t].asserted = step[t].asserted
        BY <1>1, <2>2, <3>3, GotoEffect
      <4>2. ~Asserting(k, t)' /\ ~Hooked(k, t)' /\ ~Flushed(k, t)'
        BY <2>1, <4>1 DEF Asserting, Hooked, Flushed
      <4> QED BY <4>2 DEF Recorded
    <3> QED BY <1>1, <2>1, <3>1, <3>2, <3>3 DEF Shape
  <2>3. CASE /\ step'[t].at = IF step[t].filter.base = "none" THEN "sink" ELSE "filter"
             /\ step'[t].rec = step[t].rec /\ step'[t].k = step[t].k
    <3>1. CASE step'[t].at = "filter"
      BY <3>1, NotRecorded
    <3>2. CASE step'[t].at = "sink"
      BY <1>2, <2>1, <2>3, <3>2
    <3> QED BY <2>3, <3>1, <3>2
  <2> QED BY <1>3, <2>2, <2>3, MaxEffect
<1>4. CASE CheckFilter(t)
  <2>1. step[t].at = "filter" /\ "sink" \in Wheres
        /\ Goto(t, IF IsEnabled(step[t].filter, step[t].rec.level) THEN "sink" ELSE step[t].then)
    BY <1>4 DEF CheckFilter, At, Wheres
  <2>2. CASE Goto(t, "sink")
    BY <1>2, <2>1, <2>2, GotoEffect
  <2>3. CASE ~IsEnabled(step[t].filter, step[t].rec.level) /\ Goto(t, step[t].then)
    <3>1. step[t].rec.what # "assert"
      <4>1. SUFFICES ASSUME step[t].rec.level = Error PROVE FALSE
        BY <1>1, <2>1 DEF Shape
      <4>2. step[t].filter \in Filters \cup {None}
        BY <1>1 DEF Steps
      <4>3. PICK base : base = step[t].filter.base
        OBVIOUS
      <4>4. base \in Atomics \cup {"dummy", "none"}
        BY <4>2, <4>3, FiltersAssumption DEF None
      <4>5. base \in Atomics => Error <= filterLevel[base]
        <5>1. filterLevel \in [Atomics -> Level]
          BY DEF Types
        <5>2. base \in Atomics => filterLevel[base] \in Level
          BY <5>1
        <5> QED BY <5>2 DEF Level, Error, Trace
      <4> QED BY <2>3, <4>1, <4>3, <4>4, <4>5 DEF IsEnabled
    <3>2. step[t].then = "run"
      BY <1>1, <2>1, <3>1 DEF Shape
    <3>3. step'[t].at = "run"
      BY <1>1, <2>3, <3>2, GotoEffect DEF Idle
    <3> QED BY <3>3, NotRecorded
  <2> QED BY <2>1, <2>2, <2>3
<1> QED BY <1>3, <1>4

\* ... and the sinks, each of which takes an error, before the hook's record ...
LEMMA RecordedSink ==
    ASSUME Types, Shaped, NEW k \in Sinks, NEW t \in Threads, Recorded(k, t), Sink(t)
    PROVE  Recorded(k, t)'
<1>1. /\ step[t].at = "sink" /\ step[t].k \in Sinks /\ step[t].rec \in Records
      /\ \/ /\ step[t].rec.level <= config.sinks[step[t].k].level
            /\ Wrote(step[t].k, t, step[t].rec)
         \/ ~(step[t].rec.level <= config.sinks[step[t].k].level) /\ hist' = hist
      /\ \/ /\ step[t].k < Len(config.sinks)
            /\ step'[t].at = "sink" /\ step'[t].k = step[t].k + 1
            /\ step'[t].rec = step[t].rec
            /\ step'[t].asserted = step[t].asserted /\ step'[t].cleared = step[t].cleared
         \/ step[t].then = "run" /\ step'[t] = Idle
         \/ /\ step[t].k = Len(config.sinks) /\ step[t].then # "run"
            /\ step'[t].at = step[t].then /\ step'[t].k = 1 /\ step'[t].rec = step[t].rec
            /\ step'[t].asserted = step[t].asserted /\ step'[t].cleared = step[t].cleared
      /\ UNCHANGED <<config, file, broken>>
    BY SinkEffect
<1>2. Shape(step[t]) /\ k \in Nat /\ step[t].k \in Nat /\ 1 <= k /\ k <= Len(config.sinks)
      /\ Len(config.sinks) \in Nat /\ Rings' = Rings
    BY <1>1, SinkTypes, SinksStay DEF Shaped, Sinks
<1>3. CASE step[t].rec.what \notin {"assert", "panic"}
  <2>1. step'[t].at \in {"run", "return"} \/ (step'[t].at = "sink" /\ step'[t].rec = step[t].rec)
    BY <1>1, <1>2, <1>3 DEF Shape, Idle
  <2> QED BY <1>3, <2>1, NotRecorded
<1>4. ASSUME step[t].rec.what \in {"assert", "panic"}
      PROVE  /\ k # step[t].k => hist'[k][t] = hist[k][t]
             /\ k = step[t].k => hist'[k][t] = Append(hist[k][t], step[t].rec)
             /\ hist[k][t] \in Seq(Records)
  <2>1. step[t].rec.level = Error
    BY <1>1, <1>2, <1>4 DEF Shape
  <2>2. Error <= config.sinks[step[t].k].level
    <3>1. config.sinks[step[t].k].level \in Level
      BY <1>1, SinkTypes
    <3> QED BY <3>1 DEF Level, Error, Trace
  <2>3. Wrote(step[t].k, t, step[t].rec)
    BY <1>1, <2>1, <2>2
  <2>4. /\ hist'[step[t].k][t] = Append(hist[step[t].k][t], step[t].rec)
        /\ \A j \in Sinks : j # step[t].k => hist'[j][t] = hist[j][t]
    <3>1. step[t].k \in Sinks /\ step[t].rec \in Records
      BY <1>1
    <3> QED BY <2>3, <3>1, SinkWrites
  <2>5. hist[k][t] \in Seq(Records)
    BY DEF Types
  <2> QED BY <2>4, <2>5
<1>5. CASE step[t].rec.what = "assert"
  <2>1. step[t].then = "panic" /\ step[t].asserted
    BY <1>1, <1>2, <1>5 DEF Shape
  <2>2. /\ step'[t].rec = step[t].rec /\ step'[t].cleared = step[t].cleared
        /\ \/ step'[t].at = "sink" /\ step'[t].k = step[t].k + 1
           \/ step'[t].at = "panic" /\ step[t].k = Len(config.sinks)
    BY <1>1, <2>1
  <2>3. ~Hooked(k, t)' /\ ~Flushed(k, t)'
    BY <1>5, <2>2 DEF Hooked, Flushed
  <2>4. ASSUME Kept(k, t)', Asserting(k, t)' PROVE LastIs(hist'[k][t], "assert", step[t].rec.id)
    <3>1. k < step[t].k \/ k = step[t].k
      BY <1>2, <1>5, <2>2, <2>4 DEF Asserting
    <3>2. CASE k < step[t].k
      <4>1. Kept(k, t) /\ Asserting(k, t)
        BY <1>1, <1>2, <1>5, <2>1, <2>2, <2>4, <3>2 DEF Kept, Asserting
      <4>2. hist'[k][t] = hist[k][t]
        BY <1>2, <1>4, <1>5, <3>2
      <4> QED BY <4>1, <4>2 DEF Recorded
    <3>3. CASE k = step[t].k
      <4>1. hist'[k][t] = Append(hist[k][t], step[t].rec) /\ hist[k][t] \in Seq(Records)
        BY <1>4, <1>5, <3>3
      <4>2. Len(hist'[k][t]) = Len(hist[k][t]) + 1 /\ Len(hist[k][t]) \in Nat
            /\ hist'[k][t][Len(hist[k][t]) + 1] = step[t].rec
        BY <1>1, <4>1, AppendProperties
      <4> QED BY <1>5, <4>2 DEF LastIs
    <3> QED BY <3>1, <3>2, <3>3
  <2> QED BY <2>2, <2>3, <2>4 DEF Recorded
<1>6. CASE step[t].rec.what = "panic"
  <2>1. step[t].then = "flush"
    BY <1>1, <1>2, <1>6 DEF Shape
  <2>2. /\ step'[t].rec = step[t].rec /\ step'[t].cleared = step[t].cleared
        /\ step'[t].asserted = step[t].asserted
        /\ \/ step'[t].at = "sink" /\ step'[t].k = step[t].k + 1
           \/ step'[t].at = "flush" /\ step'[t].k = 1 /\ step[t].k = Len(config.sinks)
    BY <1>1, <2>1
  <2>3. ~Flushed(k, t)' /\ \A h : Told(h, step'[t]) <=> Told(h, step[t])
    BY <1>2, <2>2 DEF Flushed, Told
  <2>4. SUFFICES ASSUME Kept(k, t)'
                 PROVE  /\ Asserting(k, t)' => LastIs(hist'[k][t], "assert", step[t].rec.id)
                        /\ Hooked(k, t)' => Told(hist'[k][t], step[t])
    BY <2>2, <2>3 DEF Recorded
  <2>5. Kept(k, t)
    BY <1>2, <2>2, <2>4 DEF Kept
  <2>6. ASSUME Asserting(k, t)' PROVE LastIs(hist'[k][t], "assert", step[t].rec.id)
    <3>1. step[t].asserted /\ step[t].k < k
      BY <1>2, <1>6, <2>2, <2>6 DEF Asserting
    <3>2. Asserting(k, t) /\ hist'[k][t] = hist[k][t]
      BY <1>1, <1>2, <1>4, <1>6, <3>1 DEF Asserting
    <3> QED BY <2>5, <3>2 DEF Recorded
  <2>7. ASSUME Hooked(k, t)' PROVE Told(hist'[k][t], step[t])
    <3>1. k < step[t].k \/ k = step[t].k
      BY <1>2, <1>6, <2>2, <2>7 DEF Hooked
    <3>2. CASE k < step[t].k
      <4>1. Hooked(k, t) /\ hist'[k][t] = hist[k][t]
        BY <1>1, <1>2, <1>4, <1>6, <3>2 DEF Hooked
      <4> QED BY <2>5, <4>1 DEF Recorded
    <3>3. CASE k = step[t].k
      <4>1. hist'[k][t] = Append(hist[k][t], step[t].rec) /\ hist[k][t] \in Seq(Records)
        BY <1>4, <1>6, <3>3
      <4>2. PICK n \in Nat : n = Len(hist[k][t])
        BY <4>1
      <4>3. Len(hist'[k][t]) = n + 1 /\ hist'[k][t][n + 1] = step[t].rec
            /\ \A i \in 1..n : hist'[k][t][i] = hist[k][t][i]
        BY <1>1, <4>1, <4>2, AppendProperties
      <4>4. step[t].asserted => LastIs(hist[k][t], "assert", step[t].rec.id)
        <5>1. step[t].asserted => Asserting(k, t)
          BY <1>1, <1>2, <1>6, <3>3 DEF Asserting
        <5> QED BY <2>5, <5>1 DEF Recorded
      <4>5. step[t].asserted => /\ n > 0 /\ n \in 1..n /\ (n + 1) - 1 = n
                                /\ hist'[k][t][n].what = "assert" /\ hist'[k][t][n].id = step[t].rec.id
        BY <4>2, <4>3, <4>4 DEF LastIs
      <4> QED BY <1>6, <4>2, <4>3, <4>5 DEF Told
    <3> QED BY <3>1, <3>2, <3>3
  <2> QED BY <2>6, <2>7
<1> QED BY <1>3, <1>5, <1>6

\* ... comes on top of it at each sink, and each ring is dumped with both.
LEMMA RecordedHook ==
    ASSUME Types, Shaped, config.panic_hook, NEW k \in Sinks, NEW t \in Threads, Recorded(k, t),
           Panic(t)
    PROVE  Recorded(k, t)'
<1>1. /\ step[t].at = "panic" /\ step[t] \in Steps /\ step[t].rec \in Records
      /\ UNCHANGED <<config, hist, file, broken>> /\ k \in Nat /\ 1 <= k
  <2>1. k \in Nat /\ 1 <= k
    BY SinkTypes DEF Sinks
  <2> QED BY <2>1 DEF Panic, At, Types, Steps, records
<1> DEFINE r == Record("panic", step[t].rec.id, Error, None)
<1>2. Error \in Level \cup {Off} /\ "panic" \in Whats /\ step[t].rec.id \in Nat
    BY <1>1 DEF Whats, Level, Error, Trace, Records
<1>3. r \in Records /\ r.what = "panic" /\ r.id = step[t].rec.id
    BY <1>2, RecordType
<1>4. Emit(t, "sink", r, None, "flush") /\ "sink" \in Wheres /\ "flush" \in Wheres
    BY DEF Panic, Wheres
<1> HIDE DEF r
<1>5. /\ step'[t].at = "sink" /\ step'[t].k = 1 /\ step'[t].rec = r
      /\ step'[t].asserted = step[t].asserted /\ step'[t].cleared = step[t].cleared
    BY <1>3, <1>4, EmitEffect
<1>6. ~Hooked(k, t)' /\ ~Flushed(k, t)'
    BY <1>1, <1>5 DEF Hooked, Flushed
<1>7. Asserting(k, t)' => Asserting(k, t)
    BY <1>1, <1>3, <1>5 DEF Asserting
<1>8. Kept(k, t)' => Kept(k, t)
    BY <1>1, <1>5, SinksStay DEF Kept
<1> QED BY <1>1, <1>3, <1>5, <1>6, <1>7, <1>8 DEF Recorded

\* The hook goes on to the unwinding when the sinks are flushed.
LEMMA RecordedFlush ==
    ASSUME Types, Shaped, NEW k \in Sinks, NEW t \in Threads, Recorded(k, t), Flush(t)
    PROVE  Recorded(k, t)'
<1>1. /\ step[t].at = "flush" /\ step[t] \in Steps /\ step[t].k \in Sinks
      /\ UNCHANGED <<config, hist>> /\ "unwind" \in Wheres
    BY DEF Flush, At, Types, Wheres
<1>2. k \in Nat /\ step[t].k \in Nat /\ k <= Len(config.sinks) /\ Len(config.sinks) \in Nat
      /\ Rings' = Rings
    BY <1>1, SinkTypes, SinksStay DEF Sinks
<1>3. /\ \/ /\ step'[t].at = "flush" /\ step'[t].k = step[t].k + 1
         \/ step'[t].at = "unwind" /\ step[t].k = Len(config.sinks)
      /\ step'[t].rec = step[t].rec
      /\ step'[t].asserted = step[t].asserted /\ step'[t].cleared = step[t].cleared
  <2>1. IF step[t].k < Len(config.sinks) THEN step' = [step EXCEPT ![t].k = step[t].k + 1]
                                         ELSE Goto(t, "unwind")
    BY DEF Flush
  <2>2. \/ /\ step'[t].k = step[t].k + 1 /\ step'[t].at = step[t].at
           /\ step'[t].rec = step[t].rec
           /\ step'[t].asserted = step[t].asserted /\ step'[t].cleared = step[t].cleared
        \/ step[t].k = Len(config.sinks) /\ Goto(t, "unwind")
    BY <1>1, <2>1, NextSinkEffect
  <2>3. Goto(t, "unwind") =>
            /\ step'[t].at = "unwind" /\ step'[t].rec = step[t].rec
            /\ step'[t].asserted = step[t].asserted /\ step'[t].cleared = step[t].cleared
    BY <1>1, GotoEffect
  <2> QED BY <1>1, <2>2, <2>3
<1>4. SUFFICES ASSUME Kept(k, t)'
               PROVE  /\ Hooked(k, t)' => Told(hist[k][t], step[t])
                      /\ Flushed(k, t)' => k \in broken' \/ Told(file'[k][t], step[t])
  <2>1. ~Asserting(k, t)'
    BY <1>3 DEF Asserting
  <2>2. \A h : Told(h, step'[t]) <=> Told(h, step[t])
    BY <1>3 DEF Told
  <2> QED BY <1>1, <2>1, <2>2 DEF Recorded
<1>5. Kept(k, t)
    BY <1>2, <1>3, <1>4 DEF Kept
<1>6. Told(hist[k][t], step[t])
    BY <1>1, <1>5 DEF Recorded, Hooked
<1>7. ASSUME Flushed(k, t)' PROVE k \in broken' \/ Told(file'[k][t], step[t])
  <2>1. k \in Rings /\ (k < step[t].k \/ k = step[t].k)
    BY <1>2, <1>3, <1>7 DEF Flushed
  <2>2. file \in [Rings -> [Threads -> Seq(Records)]] /\ hist[k][t] \in Seq(Records)
    BY DEF Types
  <2>3. CASE k = step[t].k
    <3>1. k \in broken' \/ file'[k] = Dump(k)
      BY <2>1, <2>3, DumpEffect DEF Flush
    <3>2. file'[k] = Dump(k) => file'[k][t] = Newest(hist[k][t], Len(hist[k][t]))
      BY <2>1, DumpType
    <3> QED BY <1>6, <2>2, <3>1, <3>2, NewestTold
  <2>4. CASE k < step[t].k
    <3>1. file'[k] = file[k] /\ (k \in broken => k \in broken')
      <4>1. DumpSink(step[t].k) /\ step[t].k \in Sinks /\ k # step[t].k
        BY <1>2, <2>4 DEF Flush, Types
      <4> QED BY <2>1, <4>1, DumpEffect
    <3>2. Flushed(k, t)
      BY <1>1, <2>1, <2>4 DEF Flushed
    <3> QED BY <1>5, <3>1, <3>2 DEF Recorded
  <2> QED BY <2>1, <2>3, <2>4
<1> QED BY <1>6, <1>7

\* Every step keeps the panics on record.
LEMMA OnRecordStep ==
    ASSUME Types, Shaped, Shaped', OnRecord, [Next]_vars
    PROVE  OnRecord'
<1>1. config' = config /\ \A k \in Rings, t \in Threads : Dumped(k, t)
    BY NextRecords
<1> SUFFICES ASSUME config.panic_hook, NEW k \in Sinks, NEW u \in Threads
             PROVE  Recorded(k, u)'
  <2>1. Sinks' = Sinks
    BY <1>1, SinksStay
  <2> QED BY <1>1, <2>1 DEF OnRecord, Recorded
<1>2. Recorded(k, u)
    BY DEF OnRecord, Recorded
<1>3. ASSUME step'[u] = step[u], hist'[k][u] = hist[k][u] PROVE Recorded(k, u)'
    BY <1>1, <1>2, <1>3, RecordedFrame
<1>4. ASSUME NEW t \in Threads, Round(t) PROVE Recorded(k, u)'
  <2>1. CASE u # t
    <3>1. step'[u] = step[u]
      BY <1>4, <2>1, RoundShape
    <3>2. hist'[k][u] = hist[k][u]
      <4>1. CASE Sink(t)
        <5>1. /\ step[t].k \in Sinks /\ step[t].rec \in Records
              /\ \/ Wrote(step[t].k, t, step[t].rec)
                 \/ hist' = hist
          BY <4>1, SinkEffect
        <5> QED BY <2>1, <5>1, SinkWrites
      <4>2. CASE ~Sink(t)
        BY <1>4, <4>2 DEF Round, CheckMaxLevel, CheckFilter, Panic, Flush, records
      <4> QED BY <4>1, <4>2
    <3> QED BY <1>3, <3>1, <3>2
  <2>2. CASE u = t
    BY <1>2, <1>4, <2>2, RecordedLevels, RecordedSink, RecordedHook, RecordedFlush DEF Round
  <2> QED BY <2>1, <2>2
<1>5. ASSUME NEW t \in Threads, step'[t].at \in {"run", "max"}, UNCHANGED hist,
             u # t => step'[u] = step[u]
      PROVE  Recorded(k, u)'
    BY <1>3, <1>5, NotRecorded
<1>6. ASSUME NEW t \in Threads, Begin(t) \/ Macro(t) \/ \E early \in BOOLEAN : Leave(t, early)
      PROVE  Recorded(k, u)'
    BY <1>5, <1>6, BeginStep, MacroStep, LeaveStep DEF records
<1>7. ASSUME NEW t \in Threads, NEW fn \in Fns, Call(t, fn) PROVE Recorded(k, u)'
    BY <1>3, <1>7 DEF Call, records
<1>8. ASSUME NEW t \in Threads, NEW n \in Nat, NEW how \in {"returned", "cancelled", "panicked"},
             Ending(t, n, how)
      PROVE  Recorded(k, u)'
    BY <1>5, <1>8, EndingStep DEF records
<1>9. LevelStep \/ UNCHANGED <<config, maxLevel, step, stack, calls, hist>> => Recorded(k, u)'
    BY <1>3 DEF LevelStep, records
<1>10. CASE Clearing
  <2>1. /\ step'[u].at = step[u].at /\ step'[u].k = step[u].k /\ step'[u].rec = step[u].rec
        /\ step'[u].asserted = step[u].asserted
        /\ step'[u].cleared = (step[u].at # "run")
        /\ k \notin Rings => hist'[k] = hist[k]
    BY <1>10, ClearingEffect
  <2>2. CASE step[u].at = "run"
    BY <2>1, <2>2, NotRecorded
  <2>3. CASE step[u].at # "run" /\ k \in Rings
    <3>1. ~Kept(k, u)'
      BY <1>1, <2>1, <2>3, SinksStay DEF Kept
    <3> QED BY <3>1 DEF Recorded
  <2>4. CASE step[u].at # "run" /\ k \notin Rings
    BY <1>1, <1>2, <2>1, <2>4, RecordedFrame
  <2> QED BY <2>2, <2>3, <2>4
<1> QED BY <1>4, <1>6, <1>7, <1>8, <1>9, <1>10, NextKinds

-----------------------------------------------------------------------------
\* The ring file when the process ends.

\* What a ring held at a moment does not change with what comes later.
LEMMA NewestStays ==
    ASSUME NEW h \in Seq(Records), NEW r \in Records, NEW n \in 0..Len(h)
    PROVE  Newest(Append(h, r), n) = Newest(h, n)
<1> DEFINE g == Append(h, r)
<1>1. /\ g \in Seq(Records) /\ Len(h) \in Nat /\ Len(g) = Len(h) + 1
      /\ \A i \in 1..Len(h) : g[i] = h[i]
    BY AppendProperties
<1> HIDE DEF g
<1>2. Keep \in Nat \ {0, 1} /\ n \in Nat /\ n <= Len(h) /\ n \in 0..Len(g)
    BY <1>1, KeepAssumption
<1>3. PICK m : m = IF n - Keep + 1 > 1 THEN n - Keep + 1 ELSE 1
    OBVIOUS
<1>4. m \in Nat /\ m >= 1 /\ Newest(g, n) = SubSeq(g, m, n) /\ Newest(h, n) = SubSeq(h, m, n)
  <2>1. m \in Nat /\ m >= 1
    BY <1>2, <1>3
  <2>2. Newest(g, n) = SubSeq(g, m, n)
    BY <1>1, <1>2, <1>3, NewestType
  <2>3. Newest(h, n) = SubSeq(h, m, n)
    BY <1>3, NewestType
  <2> QED BY <2>1, <2>2, <2>3
<1>5. \A i \in m..n : i \in 1..Len(h) /\ g[i] = h[i] /\ h[i] \in Records /\ g[i] \in Records
  <2> TAKE i \in m..n
  <2>1. i \in 1..Len(h)
    BY <1>1, <1>2, <1>4
  <2> QED BY <1>1, <2>1, ElementOfSeq
<1>6. SubSeq(g, m, n) = SubSeq(h, m, n)
  <2> DEFINE a == SubSeq(g, m, n)  b == SubSeq(h, m, n)
             l == IF m <= n THEN n - m + 1 ELSE 0
  <2>1. /\ a \in Seq(Records) /\ Len(a) = l /\ \A i \in 1..(n - m + 1) : a[i] = g[m + i - 1]
        /\ b \in Seq(Records) /\ Len(b) = l /\ \A i \in 1..(n - m + 1) : b[i] = h[m + i - 1]
    BY <1>2, <1>4, <1>5, SubSeqProperties
  <2> HIDE DEF a, b
  <2>2. \A i \in 1..l : a[i] = b[i]
    <3> TAKE i \in 1..l
    <3>1. i \in 1..(n - m + 1) /\ m + i - 1 \in m..n
      BY <1>2, <1>4
    <3> QED BY <1>5, <2>1, <3>1
  <2>3. a = b
    BY <2>1, <2>2, SeqEqual
  <2> QED BY <2>3 DEF a, b
<1> QED BY <1>4, <1>6 DEF g

\* A ring that only grows, dumped in between or not.
LEMMA MarkedGrows ==
    ASSUME Types, NEW k \in Rings, NEW t \in Threads, Appended(k, t), mark'[k][t] = mark[k][t],
           mark[k][t] <= Len(hist[k][t])
    PROVE  /\ mark'[k][t] <= Len(hist'[k][t])
           /\ /\ Dumped(k, t)
              /\ k \notin broken => \E n \in mark[k][t]..Len(hist[k][t]) : file[k][t] = Newest(hist[k][t], n)
              => (k \notin broken' =>
                    \E n \in mark'[k][t]..Len(hist'[k][t]) : file'[k][t] = Newest(hist'[k][t], n))
<1>1. hist[k][t] \in Seq(Records) /\ mark[k][t] \in Nat /\ Len(hist[k][t]) \in Nat
  <2>1. hist[k][t] \in Seq(Records) /\ mark[k][t] \in Nat
    BY SinkTypes DEF Types
  <2> QED BY <2>1
<1>2. /\ Len(hist'[k][t]) \in Nat /\ Len(hist[k][t]) <= Len(hist'[k][t])
      /\ \A n \in 0..Len(hist[k][t]) : Newest(hist'[k][t], n) = Newest(hist[k][t], n)
  <2>1. ASSUME NEW r \in Records, hist'[k][t] = Append(hist[k][t], r)
        PROVE  /\ Len(hist'[k][t]) = Len(hist[k][t]) + 1
               /\ \A n \in 0..Len(hist[k][t]) : Newest(hist'[k][t], n) = Newest(hist[k][t], n)
    BY <1>1, <2>1, AppendProperties, NewestStays
  <2> QED BY <1>1, <2>1 DEF Appended
<1>3. mark'[k][t] <= Len(hist'[k][t])
    BY <1>1, <1>2
<1>4. ASSUME Dumped(k, t), k \notin broken',
             k \notin broken => \E n \in mark[k][t]..Len(hist[k][t]) : file[k][t] = Newest(hist[k][t], n)
      PROVE  \E m \in mark'[k][t]..Len(hist'[k][t]) : file'[k][t] = Newest(hist'[k][t], m)
  <2>1. PICK m \in mark[k][t]..Len(hist[k][t]) : file'[k][t] = Newest(hist[k][t], m)
    <3>1. Len(hist[k][t]) \in mark[k][t]..Len(hist[k][t])
      BY <1>1
    <3> QED BY <1>4, <3>1 DEF Dumped
  <2>2. m \in mark'[k][t]..Len(hist'[k][t]) /\ m \in 0..Len(hist[k][t])
    BY <1>1, <1>2
  <2> QED BY <1>2, <2>1, <2>2
<1> QED BY <1>3, <1>4

\* Every step keeps the marks told.
LEMMA MarkedStep ==
    ASSUME Types, Shaped, Types', Marked, [Next]_vars
    PROVE  Marked'
<1>1. config' = config /\ Sinks' = Sinks /\ Rings' = Rings /\ Rings \subseteq Sinks
      /\ \A k \in Rings, t \in Threads : Dumped(k, t)
    BY NextRecords, SinksStay, SinkTypes
<1>2. \A k \in Rings, t \in Threads : mark[k][t] <= Len(hist[k][t])
    BY DEF Marked
<1>3. \A k \in Rings, t \in Threads : hist[k][t] \in Seq(Records) /\ Len(hist[k][t]) \in Nat
  <2> TAKE k \in Rings, t \in Threads
  <2>1. hist[k][t] \in Seq(Records)
    BY <1>1 DEF Types
  <2> QED BY <2>1
<1>4. CASE UNCHANGED <<signal, mark>> /\ \A k \in Sinks, t \in Threads : Appended(k, t)
  <2>1. ASSUME NEW k \in Rings, NEW t \in Threads
        PROVE  /\ mark'[k][t] <= Len(hist'[k][t])
               /\ (k \notin broken =>
                    \E n \in mark[k][t]..Len(hist[k][t]) : file[k][t] = Newest(hist[k][t], n))
                  => (k \notin broken' =>
                    \E n \in mark'[k][t]..Len(hist'[k][t]) : file'[k][t] = Newest(hist'[k][t], n))
    BY <1>1, <1>2, <1>4, MarkedGrows
  <2> QED BY <1>1, <1>4, <2>1 DEF Marked
<1>5. CASE SignalArrives /\ hist' = hist
  <2>1. signal'.at # "exit" /\ mark' = [k \in Rings |-> [t \in Threads |-> Len(hist[k][t])]]
    BY <1>5 DEF SignalArrives
  <2>2. \A k \in Rings, t \in Threads : mark'[k][t] <= Len(hist'[k][t])
    BY <1>3, <1>5, <2>1
  <2> QED BY <1>1, <2>1, <2>2 DEF Marked
<1>6. CASE ReopenSink /\ hist' = hist
  <2>1. /\ mark' = mark /\ signal.at = "reopen" /\ signal.k \in Sinks
        /\ signal \in [at : {"idle", "reopen", "exit"}, k : Sinks, cleared : BOOLEAN]
        /\ file \in [Rings -> [Threads -> Seq(Records)]]
    BY <1>6 DEF ReopenSink, Types
  <2>2. CASE signal.k \in Rings
    <3>1. signal' = [signal EXCEPT !.at = "exit"] /\ DumpSink(signal.k)
      BY <1>6, <2>2 DEF ReopenSink
    <3>2. signal'.k = signal.k /\ (signal.k \in broken' \/ file'[signal.k] = Dump(signal.k))
      BY <2>1, <2>2, <3>1, DumpEffect
    <3>3. ASSUME NEW t \in Threads, signal.k \notin broken'
          PROVE  \E n \in mark[signal.k][t]..Len(hist[signal.k][t]) :
                     file'[signal.k][t] = Newest(hist[signal.k][t], n)
      <4>1. file'[signal.k][t] = Newest(hist[signal.k][t], Len(hist[signal.k][t]))
        BY <2>2, <3>2, <3>3, DumpType
      <4>2. mark[signal.k][t] \in Nat
        BY <2>2 DEF Types
      <4>3. Len(hist[signal.k][t]) \in mark[signal.k][t]..Len(hist[signal.k][t])
        BY <1>2, <1>3, <2>2, <4>2
      <4> QED BY <4>1, <4>3
    <3> QED BY <1>1, <1>2, <1>6, <2>1, <2>2, <3>2, <3>3 DEF Marked
  <2>3. CASE signal.k \notin Rings
    <3>1. signal' = [signal EXCEPT !.k = signal.k + 1] \/ signal' = [signal EXCEPT !.at = "idle"]
      BY <1>6, <2>3 DEF ReopenSink
    <3>2. signal'.at # "exit"
      BY <2>1, <3>1
    <3> QED BY <1>1, <1>2, <1>6, <2>1, <3>2 DEF Marked
  <2> QED BY <2>2, <2>3
<1>7. CASE Clearing
  <2>1. setup.k \in Rings /\ (\A t \in Threads : hist'[setup.k][t] = <<>>)
        /\ UNCHANGED <<file, broken>>
        /\ \A k \in Sinks : k # setup.k => hist'[k] = hist[k]
    BY <1>7, ClearingEffect
  <2>2. /\ mark' = [mark EXCEPT ![setup.k] = [t \in Threads |-> 0]]
        /\ signal' = [signal EXCEPT !.cleared = @ \/ (signal.at = "exit" /\ signal.k = setup.k)]
    BY <1>7 DEF Clearing, OpenSink
  <2>3. mark \in [Rings -> [Threads -> Nat]]
        /\ signal \in [at : {"idle", "reopen", "exit"}, k : Sinks, cleared : BOOLEAN]
    BY DEF Types
  <2>4. \A t \in Threads : mark'[setup.k][t] = 0
    BY <2>1, <2>2, <2>3
  <2>5. \A k \in Rings : k # setup.k => mark'[k] = mark[k]
    BY <2>2, <2>3
  <2>6. ASSUME NEW k \in Rings, NEW t \in Threads PROVE mark'[k][t] <= Len(hist'[k][t])
    <3>1. CASE k = setup.k
      BY <2>1, <2>4, <3>1
    <3>2. CASE k # setup.k
      BY <1>1, <1>2, <2>1, <2>5, <3>2
    <3> QED BY <3>1, <3>2
  <2>7. /\ signal'.at = signal.at /\ signal'.k = signal.k
        /\ signal'.cleared <=> signal.cleared \/ (signal.at = "exit" /\ signal.k = setup.k)
    <3> DEFINE b == signal.cleared \/ (signal.at = "exit" /\ signal.k = setup.k)
    <3>1. signal.cleared \in BOOLEAN
      BY <2>3
    <3>2. b \in BOOLEAN
      BY <3>1
    <3>3. signal' = [signal EXCEPT !.cleared = b]
      BY <2>2
    <3> HIDE DEF b
    <3>4. signal'.at = signal.at /\ signal'.k = signal.k /\ signal'.cleared = b
      BY <2>3, <3>2, <3>3
    <3> QED BY <3>4 DEF b
  <2>8. ASSUME signal'.at = "exit", ~signal'.cleared, signal'.k \notin broken', NEW t \in Threads
        PROVE  /\ signal.k \in Rings
               /\ \E n \in mark'[signal.k][t]..Len(hist'[signal.k][t]) :
                     file'[signal.k][t] = Newest(hist'[signal.k][t], n)
    <3>1. signal.at = "exit" /\ ~signal.cleared /\ signal.k # setup.k
      BY <2>7, <2>8
    <3>2. signal.k \in Rings
      BY <3>1 DEF Marked
    <3>3. hist'[signal.k] = hist[signal.k] /\ mark'[signal.k] = mark[signal.k]
      BY <1>1, <2>1, <2>5, <3>1, <3>2
    <3>4. broken' = broken /\ file' = file
      BY <2>1
    <3>5. signal.k \notin broken
      BY <2>7, <2>8, <3>4
    <3>6. \E n \in mark[signal.k][t]..Len(hist[signal.k][t]) : file[signal.k][t] = Newest(hist[signal.k][t], n)
      BY <3>1, <3>5 DEF Marked
    <3> QED BY <3>2, <3>3, <3>4, <3>6
  <2>9. signal'.at = "exit" => signal'.k \in Rings
    BY <2>7 DEF Marked
  <2> QED BY <1>1, <2>6, <2>7, <2>8, <2>9 DEF Marked
<1> QED BY <1>4, <1>5, <1>6, <1>7, NextRecords

-----------------------------------------------------------------------------
\* The invariant, and what it is for.

\* The inductive invariant holds at the start.
LEMMA InitInv == Init => IInv
<1> SUFFICES ASSUME Init PROVE IInv
    OBVIOUS
<1>1. Types
    BY InitTypes
<1>2. \A t \in Threads : step[t] = Idle /\ stack[t] = <<>>
    BY DEF Init
<1>3. calls = <<>> /\ Len(calls) = 0 /\ signal.at = "idle"
    BY DEF Init
<1>4. \A k \in Sinks, t \in Threads : hist[k][t] = <<>> /\ Len(hist[k][t]) = 0
    BY DEF Init
<1>5. Idle.at = "run" /\ Idle.rec.what = "none" /\ Idle.asserted = FALSE /\ Idle.cleared = FALSE
    BY DEF Idle, NoRecord, Record
<1>6. Shaped
  <2> SUFFICES ASSUME NEW t \in Threads PROVE Shape(step[t]) /\ Framed(t) /\ Nested(t)
    BY DEF Shaped
  <2>1. Shape(step[t])
    BY <1>2, <1>5 DEF Shape
  <2>2. Framed(t) /\ Nested(t)
    BY <1>2, <1>5 DEF Framed, Nested, Own
  <2> QED BY <2>1, <2>2
<1>7. Opened /\ Quiet
    BY <1>2, <1>3, <1>5 DEF Opened, Quiet, PassedMax
<1>8. Bracketed
  <2> SUFFICES ASSUME NEW k \in Consoles PROVE Console(k)
    BY BracketedIsConsole
  <2>1. k \in Sinks
    BY DEF Consoles
  <2>2. ASSUME NEW t \in Threads PROVE Told1(k, t)
    <3>1. ~Leaving(k, t) /\ stack[t] = <<>> /\ Len(hist[k][t]) = 0
      BY <1>2, <1>4, <1>5, <2>1 DEF Leaving
    <3>2. Known(k, t) /\ Ascending(k, t)
      BY <3>1 DEF Known, Ascending, IsAt
    <3>3. EnterLoud(k, t) /\ ReturnLoud(k, t)
      BY <3>1 DEF EnterLoud, ReturnLoud
    <3> QED BY <3>2, <3>3 DEF Told1
  <2> QED BY <1>3, <2>2 DEF Console
<1>9. OnRecord
  <2> SUFFICES ASSUME NEW k \in Sinks, NEW t \in Threads
               PROVE  ~Asserting(k, t) /\ ~Hooked(k, t) /\ ~Flushed(k, t)
    BY DEF OnRecord
  <2> QED BY <1>2, <1>5 DEF Asserting, Hooked, Flushed
<1>10. Marked
  <2> SUFFICES ASSUME NEW k \in Rings, NEW t \in Threads PROVE mark[k][t] <= Len(hist[k][t])
    BY <1>3 DEF Marked
  <2>1. k \in Sinks /\ mark[k][t] = 0
    BY <1>1, SinkTypes DEF Init
  <2> QED BY <1>4, <2>1
<1> QED BY <1>1, <1>6, <1>7, <1>8, <1>9, <1>10 DEF IInv

\* Every step keeps the types.
LEMMA TypesStep ==
    ASSUME Types, Shaped, [Next]_vars
    PROVE  Types'
<1>1. ASSUME UNCHANGED vars PROVE Types'
  <2>1. UNCHANGED <<config, maxLevel, filterLevel, step, stack, calls, hist, file, broken, setup, signal,
                    mark, used, exited>>
    BY <1>1 DEF vars
  <2>2. Sinks' = Sinks /\ Rings' = Rings
    BY <2>1, SinksStay
  <2> QED BY <2>1, <2>2 DEF Types
<1>2. ASSUME NEW t \in Threads,
             \/ CheckMaxLevel(t) \/ CheckFilter(t) \/ Sink(t)
             \/ Begin(t) \/ Return(t) \/ Panic(t) \/ Flush(t) \/ Abort(t)
             \/ \E fn \in Fns : Call(t, fn)
             \/ \E early \in BOOLEAN : Leave(t, early)
             \/ \E f \in Filters, l \in LogLevels : LoggerLog(t, f, l)
             \/ \E f \in Filters : LoggerAssert(t, f)
             \/ LogPrintln(t) \/ LogAssert(t)
             \/ \E n \in 0..MaxCalls : Cancel(t, n) \/ Unwind(t, n)
      PROVE  Types'
    BY <1>2, TypesThread DEF Macro
<1> QED BY <1>1, <1>2, TypesOthers DEF Next

\* Every step keeps it.
LEMMA NextInv == IInv /\ [Next]_vars => IInv'
<1> SUFFICES ASSUME IInv, [Next]_vars PROVE IInv'
    OBVIOUS
<1>1. Types /\ Shaped /\ Opened /\ Quiet /\ Bracketed /\ OnRecord /\ Marked
    BY DEF IInv
<1>2. Types'
    BY <1>1, TypesStep
<1>3. Shaped' /\ Opened'
    BY <1>1, ShapedStep
<1>4. Quiet'
    BY <1>1, <1>3, QuietStep
<1>5. Bracketed'
    BY <1>1, <1>2, <1>3, BracketedStep
<1>6. OnRecord'
    BY <1>1, <1>3, OnRecordStep
<1>7. Marked'
    BY <1>1, <1>2, MarkedStep
<1> QED BY <1>2, <1>3, <1>4, <1>5, <1>6, <1>7 DEF IInv

\* So it holds throughout.
LEMMA Invariance == Spec => []IInv
BY InitInv, NextInv, PTL DEF Spec

\* A call on a thread's stack is one of those made, and the deeper one the later.
LEMMA StackBound ==
    ASSUME Types, Shaped, NEW t \in Threads
    PROVE  Len(stack[t]) <= Len(calls)
<1>1. stack[t] \in Seq(Frames) /\ calls \in Seq(Calls) /\ Nested(t)
    BY DEF Types, Shaped
<1>2. Len(stack[t]) \in Nat /\ Len(calls) \in Nat
    BY <1>1
<1>3. CASE Len(stack[t]) = 0
    BY <1>2, <1>3
<1>4. CASE Len(stack[t]) > 0
  <2> DEFINE n == Len(stack[t])  id == stack[t][n].id
  <2>1. n \in 1..Len(stack[t])
    BY <1>2, <1>4
  <2>2. id \in 1..Len(calls) /\ n <= id
    BY <1>1, <2>1 DEF Nested
  <2> QED BY <1>2, <2>2
<1> QED BY <1>2, <1>3, <1>4

\* Whatever the recipe, the level that setup_log gives log::set_max_level lets through
\* what each sink of the Builder asks for, and no more than one of them does
\* (Builder::get_max_level, src/src/config.rs).
THEOREM MaxLevelFits ==
    ASSUME NEW b \in Builders
    PROVE  /\ \A k \in 1..Len(b.sinks) : b.sinks[k].level <= GetMaxLevel(b)
           /\ \E k \in 1..Len(b.sinks) : b.sinks[k].level = GetMaxLevel(b)
<1> DEFINE S == {Error} \cup {b.sinks[k].level : k \in 1..Len(b.sinks)}
<1>1. b.sinks \in Seq([kind : STRING, level : Level]) /\ b.sinks # <<>>
    BY BuildersAssumption
<1>2. Len(b.sinks) \in Nat /\ 1 \in 1..Len(b.sinks)
    BY <1>1
<1>3. ASSUME NEW k \in 1..Len(b.sinks) PROVE b.sinks[k].level \in Level
  <2>1. b.sinks[k] \in [kind : STRING, level : Level]
    BY <1>1, ElementOfSeq
  <2> QED BY <2>1
<1>4. S \subseteq Level /\ S # {}
    BY <1>3 DEF Level, Error, Trace
<1>5. \A k \in 1..Len(b.sinks) : b.sinks[k].level \in S
    OBVIOUS
<1>6. ASSUME NEW x \in S PROVE x = Error \/ \E k \in 1..Len(b.sinks) : b.sinks[k].level = x
    BY <1>6
<1> HIDE DEF S
<1>7. Max(S) \in S /\ \A x \in S : x <= Max(S)
    BY <1>4, MaxOfLevels
<1>8. GetMaxLevel(b) = Max(S)
    BY DEF GetMaxLevel, S
<1>9. CASE Max(S) = Error
  <2>1. b.sinks[1].level \in Level /\ b.sinks[1].level <= Max(S)
    BY <1>2, <1>3, <1>5, <1>7
  <2>2. b.sinks[1].level = Max(S)
    BY <1>9, <2>1 DEF Level, Error, Trace
  <2> QED BY <1>2, <1>5, <1>7, <1>8, <2>2
<1> QED BY <1>5, <1>6, <1>7, <1>8, <1>9

\* Levels, places and bounds are what the code declares of them; the calls a thread
\* is in are no more than those ever made.
THEOREM TypeCorrect == Spec => []TypeOK
<1>1. IInv => TypeOK
  <2> SUFFICES ASSUME IInv PROVE TypeOK
    OBVIOUS
  <2>1. Types /\ Shaped
    BY DEF IInv
  <2>2. ASSUME NEW t \in Threads
        PROVE  /\ step[t].at \in {"run", "max", "filter", "sink", "return", "panic", "flush", "unwind"}
               /\ step[t].k \in Sinks
               /\ Len(stack[t]) <= MaxCalls
    <3>1. step[t] \in Steps /\ step[t].k \in Sinks
      BY <2>1 DEF Types
    <3>2. Len(stack[t]) \in Nat /\ Len(calls) \in Nat /\ Len(calls) <= MaxCalls
      <4>1. stack[t] \in Seq(Frames) /\ calls \in Seq(Calls) /\ Len(calls) <= MaxCalls
        BY <2>1 DEF Types
      <4> QED BY <4>1
    <3>3. Len(stack[t]) <= MaxCalls
      BY <2>1, <3>2, StackBound, BoundsAssumption
    <3> QED BY <3>1, <3>3 DEF Steps, Wheres
  <2> QED BY <2>1, <2>2 DEF TypeOK, Types
<1> QED BY <1>1, Invariance, PTL

\* What CallsBracketed says of one call.
BracketedAt(k, t, c) ==
    /\ Place(k, t, "return", c) # {} => calls[c].how \in {"open", "returned"}
    /\ calls[c].how = "returned" /\ calls[c].steady =>
          /\ (Place(k, t, "enter", c) = {}) <=> (Place(k, t, "return", c) = {})
          /\ \A i \in Place(k, t, "enter", c), j \in Place(k, t, "return", c) :
                /\ i < j
                /\ \A d \in DOMAIN calls :
                      /\ calls[d].steady /\ calls[d].how \notin {"panicked", "cancelled"}
                      /\ \E p \in Place(k, t, "enter", d) : i < p /\ p < j
                      => \E p \in Place(k, t, "return", d) : i < p /\ p < j

\* A return is on record only of a call that returns; both records of a call are, or
\* neither, unless the level changed meanwhile; and what is entered between the two has
\* returned there, unless it panicked or was dropped: for any threads, calls, filters and
\* sinks, with levels changed, rings cleared and signals come at any step
\* (generate_function, src/log_helper/src/lib.rs:133; GlobalLogger::log,
\* src/src/log_impl.rs).
THEOREM CallsBracketedHolds == Spec => []CallsBracketed
<1>1. IInv => CallsBracketed
  <2> SUFFICES ASSUME IInv, NEW k \in Consoles, NEW c \in 1..Len(calls), NEW t \in Threads,
                      t = calls[c].thread
               PROVE  BracketedAt(k, t, c)
    <3>1. ASSUME IInv PROVE DOMAIN calls = 1..Len(calls)
      BY <3>1 DEF IInv, Types
    <3>2. ASSUME IInv, NEW c \in 1..Len(calls) PROVE calls[c].thread \in Threads
      BY <3>2, CallTypes DEF IInv
    <3>3. CallsBracketed <=> \A k \in Consoles, c \in DOMAIN calls : BracketedAt(k, calls[c].thread, c)
      BY DEF CallsBracketed, BracketedAt
    <3> QED BY <3>1, <3>2, <3>3
  <2>1. Types /\ Console(k) /\ DOMAIN calls = 1..Len(calls)
    BY BracketedIsConsole DEF IInv, Types
  <2>2. \A what, d : /\ \A i : i \in Place(k, t, what, d) <=> i \in Nat /\ IsAt(k, t, i, what, d)
                     /\ Place(k, t, what, d) # {} <=> Has(k, t, what, d)
    <3>1. hist[k][t] \in Seq(Records)
      BY <2>1 DEF Types, Consoles
    <3>2. DOMAIN hist[k][t] = 1..Len(hist[k][t]) /\ Len(hist[k][t]) \in Nat
      BY <3>1
    <3>3. \A i \in 1..Len(hist[k][t]) : i \in Nat
      BY <3>2
    <3>4. \A what, d : \A i : i \in Place(k, t, what, d) <=> i \in Nat /\ IsAt(k, t, i, what, d)
      BY <3>2, <3>3 DEF Place, IsAt
    <3> QED BY <3>4 DEF Has
  <2>3. Told2(k, c)
    BY <2>1 DEF Console
  <2>4. Place(k, t, "return", c) # {} => calls[c].how \in {"open", "returned"}
    BY <2>2, <2>3 DEF Told2, ReturnOpen
  <2>5. ASSUME calls[c].how = "returned", calls[c].steady
        PROVE  (Place(k, t, "enter", c) = {}) <=> (Place(k, t, "return", c) = {})
    BY <2>2, <2>3, <2>5 DEF Told2, BothOrNone
  <2>6. ASSUME NEW i \in Place(k, t, "enter", c), NEW j \in Place(k, t, "return", c)
        PROVE  /\ i < j
               /\ \A d \in DOMAIN calls :
                     /\ calls[d].steady
                     /\ calls[d].how \notin {"panicked", "cancelled"}
                     /\ \E p \in Place(k, t, "enter", d) : i < p /\ p < j
                     => \E p \in Place(k, t, "return", d) : i < p /\ p < j
    <3>1. i \in Nat /\ j \in Nat /\ IsAt(k, t, i, "enter", c) /\ IsAt(k, t, j, "return", c)
      BY <2>2, <2>6
    <3>2. i < j
      BY <2>3, <3>1 DEF Told2, Between
    <3>3. ASSUME NEW d \in 1..Len(calls), calls[d].steady,
                 calls[d].how \notin {"panicked", "cancelled"},
                 NEW p \in Place(k, t, "enter", d), i < p, p < j
          PROVE  \E q \in Place(k, t, "return", d) : i < q /\ q < j
      <4>1. p \in Nat /\ IsAt(k, t, p, "enter", d)
        BY <2>2, <3>3
      <4>2. calls[d].how # "open" /\ calls[d].how \in Hows
        BY <2>1, <2>3, <3>1, <3>3, <4>1, CallTypes DEF Told2, Between
      <4>3. calls[d].how = "returned"
        BY <3>3, <4>2 DEF Hows
      <4>4. PICK q \in Nat : IsAt(k, t, q, "return", d) /\ i < q /\ q < j
        BY <2>3, <3>1, <3>3, <4>1, <4>3 DEF Told2, Between
      <4> QED BY <2>2, <4>4
    <3> QED BY <2>1, <3>2, <3>3
  <2> QED BY <2>4, <2>5, <2>6 DEF BracketedAt
<1> QED BY <1>1, Invariance, PTL

\* A thread that unwinds from a failed assertion, under the panic hook, has its own
\* record and the hook's last at every sink, and on disk where that is a ring, whatever
\* the filters say, unless a setup has cleared the ring or the last dump of it failed;
\* the hook goes on to the next sink then as well (panic_hook_log,
\* src/src/log_impl.rs; logger_assert, src/src/macros.rs).
THEOREM PanicOnRecordHolds == Spec => []PanicOnRecord
<1>1. IInv => PanicOnRecord
  <2> SUFFICES ASSUME IInv, NEW t \in Threads, step[t].at = "unwind", config.panic_hook
               PROVE  /\ \A k \in Consoles : Told(hist[k][t], step[t])
                      /\ \A k \in Rings : ~step[t].cleared =>
                              Told(hist[k][t], step[t]) /\ (k \in broken \/ Told(file[k][t], step[t]))
    BY DEF PanicOnRecord
  <2>1. Types /\ \A k \in Sinks : Recorded(k, t)
    BY DEF IInv, OnRecord, Recorded
  <2>2. ASSUME NEW k \in Consoles PROVE Told(hist[k][t], step[t])
    BY <2>1, <2>2 DEF Consoles, Recorded, Kept, Hooked
  <2>3. ASSUME NEW k \in Rings, ~step[t].cleared
        PROVE  Told(hist[k][t], step[t]) /\ (k \in broken \/ Told(file[k][t], step[t]))
    BY <2>1, <2>3, SinkTypes DEF Recorded, Kept, Hooked, Flushed
  <2> QED BY <2>2, <2>3
<1> QED BY <1>1, Invariance, PTL

\* When the signal ends the process, the ring file holds what each thread's ring held at
\* a moment since the signal came, unless a setup has cleared the ring or the last dump
\* of it failed, whereupon the process ends all the same (LogSinkRingFile::dump,
\* src/src/ringfile.rs; listener_for_signal, src/src/log_impl.rs).
THEOREM DumpOnExitHolds == Spec => []DumpOnExit
<1>1. IInv => DumpOnExit
    BY DEF IInv, Marked, DumpOnExit
<1> QED BY <1>1, Invariance, PTL

=============================================================================
