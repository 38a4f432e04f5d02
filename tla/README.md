# captains-log: a verification development

captains-log is a logging library for Rust (`src/src/`), with a proc-macro crate
beside it (`src/log_helper/`). A program builds a configuration, `setup_log`
installs a global logger with a list of sinks, and every thread logs through
it. This directory holds TLA+ models of the parts of the library that keep
state, the TLC configurations that check them, and proofs for TLAPS.

Two commands, in this directory:

    tlc -workers 2 -config RotationRun.cfg Rotation     # one run
    tlapm RotationProofs.tla                            # the proofs of a module

`PROJECT.json` lists the runs, and for every definition the lines of the source
it stands for.

## 1. Inventory

| component | state | operations | interacts with |
|---|---|---|---|
| **Rotation**, `rotation.rs` | the set of suffixes (numbers or timestamps), the handle of the last archive thread, the files | `rotate` (limiters, join, renames, spawn), `wait`, `handle_old_files` (retention, compression), the scan at start | called by the writer thread of the buffered sink; its own thread shares the backend through an `UnsafeCell` |
| **Buffered file sink**, `buf_file_impl.rs` | a channel of 1024, a writer thread, a buffer, the file, its size and creation time | `log`, `flush`, `open`/`reopen` (messages), timeout of the receive, disconnection | many threads send, one receives; rotation; the panic hook when the writer panics |
| **Syslog sink**, `syslog.rs` | a channel of 256, a backend thread, a connection with or without a `BufWriter` | `log`, `flush`, the write with its retries, `reinit` | many threads send; a server that may be away, or stay and not read |
| **Raw file sink**, `file_impl.rs` | a file handle in an `ArcSwapOption` | `log` (writes on the calling thread), `open`/`reopen` | the signal listener, logrotate |
| **Global logger**, `log_impl.rs`, `config.rs` | spin lock, `inited`, the sinks in force, their checksum, `tracing_inited`, the listener; `log`'s logger and level, `tracing`'s dispatcher, the panic hook | `setup_log`, `reopen`, `log`, `flush` | every sink; other threads that set up or log meanwhile |
| **Panic hook**, `log_impl.rs` | none | log the panic, flush every sink | runs on the thread that panics, a sink's own included |
| **Signal listener**, `log_impl.rs` | none | calls `reopen` for every signal | every sink |
| **Console sink**, `console_impl.rs` | none | one `write` per record | - |
| **Ring file sink**, `ringfile.rs` | that of the ring-file crate | `log`, `open` clears, `flush` dumps, `reopen` dumps and ends the process | the panic hook, the signal listener |
| **Filters**, `filter.rs` | one atomic level each | `set_level`, `is_enabled` | macros; whoever changes a level |
| **Macros**, `macros.rs`, and **`logfn`**, `log_helper` | none; the position of a thread in its calls | log through a filter, assert, log the entry and the return of a function | filters, `log`'s level, the global logger, the panic hook |
| **Tracing bridge**, `tracing_bridge.rs` | an extension of each span | the callbacks of a `Layer` | the global logger, the registry and the lock of a span |
| **Recipes, env, builder**, `recipe.rs`, `env.rs`, `config.rs` | none | fill in a configuration | `setup_log` |
| **Formatter, parser, time** | none | construction and formatting | - |

What is hard in them, and the property that makes each right:

- *Rotation.* Two threads share the backend without a lock; only a join keeps
  them apart. Renames, removals and compressions are separate file operations,
  and the program may stop between any two. The set in memory must agree with
  the directory, the policy must keep exactly what it says, and a fault must not
  cost more than one generation.
- *Buffered sink.* Lines and flush requests of many threads, reopen requests, a
  timeout, a rotation and a panic all meet in one thread. No line may be lost,
  doubled or reordered, and a flush that returns must have covered every line
  sent before it.
- *Syslog.* The same contract over a connection that fails, or to a server that stops
  reading; no call may hang.
- *Raw file.* A descriptor that is written through must not be closed by a
  reopen, a short write must not split a line, and a reopen must take effect.
- *Timestamp suffixes.* The name of an archived file is a reading of a clock, the
  set sorts by names, and retention goes by them: names must sort as the files
  were made, also when several rotations share a period or the process restarts.
- *Global logger.* Setups race with one another and fail half-way; one must be
  installed, the checksum must be that of the sinks in force. A reconfiguration
  replaces the list under calls that walk it and writers that still hold lines.
- *Tracing bridge.* Several layers and threads work on what is collected of a
  span, under its lock, while the values they format may log themselves.
- *Calling side.* A function under `logfn` may return early, panic or be dropped;
  levels change under a call; what explains a panic must be out before it unwinds.

`PROJECT.json` lists the hazards, each at its line, with the properties aimed at
it.

## 2. Modules

| module | what it is |
|---|---|
| `Rotation` | the archive with numeric suffixes |
| `TimeRotation` | the archive with timestamp suffixes, and the limiter by age |
| `Archive` | what an archive promises, whatever its file names; `Rotation` implements it |
| `BufFile` | the buffered sink |
| `LogStream` | what a sink promises the threads that log; `BufFile` and `Syslog` implement it |
| `Syslog` | the syslog sink |
| `RawFile` | the unbuffered sink |
| `GlobalLogger` | `setup_log` |
| `Reconfigure` | the calls of the logger over lists of sinks that replace one another |
| `Tracing` | the layers of the tracing bridge |
| `Recipes` | the builder, the recipes, the environment: pure operators |
| `CallSite` | `logfn`, macros, filters, the panic hook, the console and the ring file |
| `RotationProofs`, `TimeRotationProofs`, `BufFileProofs`, `SyslogProofs`, `RawFileProofs`, `ReconfigureProofs`, `TracingProofs` | theorems about the module they are named after |
| `LoggerProofs` | theorems about `GlobalLogger` and `CallSite`, the two sides of the logger a program meets |
| `MC...` | instances of the above for TLC; `Rotation` and `Syslog` need none, their constants are plain values in the `.cfg` |

### Rotation

A file is a *generation*: generation g is the g-th file created under the log's
own name. `disk` maps a path (a number and a form, plain or gz; number 0 is the
log) to the generation it holds, 0 for no file and -g for a truncated copy of g.
`suffixes` is the set of the backend, `pc` the writer thread, `hpc` the thread
that runs `handle_old_files`, `th` the handle in `LogRotate.th`.

`Rotate` is the call after a limiter has asked for it (the limiters themselves
are in `BufFile`); `Descend` is the way down of the recursive
`_move_file_with_suffix`, which changes only the set, and `Move` one rename of
the way up, with its two assertions. `Spawn`, `Reopen` end the rotation. `Trim`,
`TrimDone` are the retention loop; `CompressOpen`, `CompressCopy`,
`CompressUnlink`, `CompressFinish` the calls inside `compress`. Each has its
failing outcome. `Crash` stops the process anywhere and `Start` scans what it
left. The numbering scheme (`AppendCount`) is from the file-rotate crate, which
is not in the repository; it is modelled as the code uses it and marked
external. When both forms of a number are on disk the scan inserts whichever the
directory lists first, hence the choice in `Start`.

### BufFile

A line is the number the channel gave it; a file is an inode. `pc` is the
writer thread and `caller` the return address of `reopen`, `check_rotate` and
`flush`, which are called from several places. A call that sends is two steps,
so that a full channel blocks it. `log` is the file under the log's name, `f`
the one the writer has open: after an external move or a failed open they
differ. `home` records where a line went. The archive is one step (`Rename`) and
the thread it spawns a flag (`hpc`), because `Rotation` has the detail.

`After` is the table of return addresses. `HookLog` and `HookFlush` are the panic
hook running on the writer thread. `Hooks` says whether a panic may find that hook:
`setup_log` sets it after the writer thread has been started, and the program may
set another.

### Syslog

As in `BufFile`, up to `run`: a batch is a line and whatever `try_recv` finds
after it. `Accept` is what the standard library's `BufWriter` may do with a
line; a datagram connection hands it on at once. `DropWriter` is the drop of a
`BufWriter` whose connection failed: any prefix of what it held may get out. A
line that a stream took in part before it failed counts as not taken.

The server may keep a connection and stop reading (`Stall`, `Resume`; `reading` stands
for the buffers of the system in between, which are full when it is false). No timeout
is set on a stream once it is connected, so the steps that hand something to the socket
wait for a server that reads: `Accept` when the line does not stay in the `BufWriter`,
and `Flush` when there is something in it. `Syslog.timeout` is only looked at after a
call has failed (`TryAgain`, `GiveUp`). A new connection over tcp has a timeout
(`ConnectFail`), one over a unix stream waits as well.

### RawFile

A handle is the result of one `open_file`, with its reference count; a line is
two pieces, so that a write may stop in between. `Reopeners` are the callers of
`reopen`: the signal listener, and the program itself.

### GlobalLogger

One step for every access to shared state of `setup_log`. The holder of the spin
lock is a thread; what runs after `try_setup` returned (`Install` to `Listen`)
does not hold it. A configuration is a record whose `sinks` stand for the list
of sinks; `Checksum` is injective on everything the code hashes, so a collision
of the hash is not considered. `LoggerProofs` extends this module and `CallSite`,
hence names such as `SetupSpec`, `Callers` and `logLevel`, which is the cell that
`CallSite` calls `maxLevel`.

### TimeRotation

A suffix is a pair: the period of `time_fmt` that the clock showed (`Unit` ticks
each) and the number that the file-rotate crate adds when the newest suffix has
the same period. `archive` maps a suffix to the file that carries it, `suffixes`
is the set of the backend. The clock is a variable that ticks and may be set
back, which is also what a name in local time sees at the end of daylight
saving. `Limits` asks the limiters, `Archive` is the rename, `Reopen` ends the
rotation; `Trim`, `TrimDone`, `CompressOne`, `CompressDone` are the spawned
thread, and `Stop` and `Start` a restart, which scans the archive and takes the
log's modification time for its creation. A name that the set holds makes
`_move_file_with_suffix` recurse into `AppendTimestamp::rotate_file` with an old
suffix, which that crate refuses: `ArchivePanic`. The faults of single file
operations are the code that `Rotation` models and are not repeated.

### Reconfigure

A *version* is one list of sinks. `op[t]` is a call and the version it loaded;
each sink it reaches is one step, except that a raw sink is reopened in two: `OpenRaw`
opens the file and `StoreRaw` stores it (`opened` is what is between), so that two
reopens may store in the other order. A buffered sink is its channel (`queue`), what its
writer holds (`buf`) and the file it has open (`inode`); several versions have
a writer for one path, and all share `path`, the file that has the name. `Alive`
is the reference count of a version: in force, being built, or loaded by a call.
A writer whose version is dropped empties its channel, writes and ends. `reopen` of
a buffered sink only sends a message; the writer opens the file later, and when that
fails (`WriterReopens`, and the open after `Rotate`) it goes on with what it had, which
`failed` records. Without a file it keeps its lines, also when it ends (`WriteOut`);
when it starts without one and rotates by age it panics (`StartPanics`).
Each backend knows the archives it scanned when it was built and those
it made (`known`); `RotatePanics` is the assertion that another backend's archive
makes fail. `went` and `avoid` remember, for the properties, the version that
took a record and the files that were moved away before a reopen that holds for
it (`Holds`). A reopen that returned Ok holds at a raw sink only if no other reopen of
its list ran beside it (`alone`): of two at once either may store last, and what it
stores may be the file that was moved away. At a buffered sink one thread opens the file, and
a reopen holds whatever others there are.

### Tracing

A call on a span runs through `Stack`, the layers from the innermost; `op[t].at`
is the layer it has reached. `ForWriting` and `ForReading` take the lock of the
span's extensions, `OnNewSpan`, `OnRecord` and `OnLook` log and give it back.
`ext` has one text per formatter *type*, as the extensions do. `FormatEvent` is a
value whose `Debug` logs an event while it is recorded: it enters the layers
again under the lock. The registry (who holds and has entered a span, when it
closes) is tracing-subscriber's and stands as the environment.

### Recipes and CallSite

`Recipes` has a configuration as a record and each recipe as an operator; the
level of every recipe, and what the environment makes of it, is compared with
the sinks in an assumption of `MCCallSite` over all levels. `MaxLevelFits` says the
same of every `Builder`.

In `CallSite` a thread has a stack of calls of functions under `logfn` and, in
`step`, the macro or the hook it is in. `CheckMaxLevel` and `CheckFilter` are the two
reads of `do_log_filter`, `Sink` one sink of the logger. `AfterBody` says where a
return in the body leads: `generate_function` wraps the body in a closure or an async
block, so that the code after it runs. `Cancel` drops async calls where they
wait, `Unwind` is a panic that someone catches, `Abort` what a panic out of the
hook may do (whether it ends the process is the standard library's; both
outcomes are explored). `OpenSink` is the repeated setup that clears the ring,
`ReopenSink` and `Exit` the signal. The ring is the ring-file crate's: the last
`Keep` records of each thread (`Newest`), cleared and dumped in one step. A setup may
clear the ring between the signal's dump and the exit (`signal.cleared`): the file then
keeps older records than the ring, and `DumpOnExit` says nothing. `DumpSink` may fail;
its callers go on all the same, the signal to the exit, and `broken` has the rings whose
last dump failed, of whose files the properties say nothing.

## 3. Runs and bounds

Every passing run is exhaustive within its bounds.

| run | asks | bounds |
|---|---|---|
| `RotationRun` | one user of the backend; set and directory agree; no leftover blocks a cascade; retention exact; rotations get through | 3 files kept, 1 left plain, 8 generations, 2 failing calls of `compress` |
| `RotationFaults` | stops anywhere, failing file operations, external deletion: what is lost, and the abstract archive | 3 kept, 1 left plain, 7 generations, 3 faults of any kind |
| `TimeRotationRun` | names sort as files were made; a name collides only after the clock was set back; the newest generations are kept, oldest out first; retention by age | periods of 2 ticks, clock to 5, 4 generations, all three policies (2 files kept, age 3), 1 left plain, age limit 2, `use_last_time`, 1 step back, 1 stop |
| `BufFileRun` | the contract of the sink, and the abstract stream with its liveness | 2 threads, channel of 2, buffer of 2 bytes, lines of 1 and 3, 3 lines, 3 files, rotation over 3 bytes, 1 reopen, at the start no log, a short one, or one over the limit |
| `BufFileFaults` | failing opens and writes, an external move, a clock set back, a panic with the hook and without | 1 thread, 2 lines, 2 files, rotation by size, 1 reopen, 1 move, 2 times |
| `SyslogRun` | the contract under every failure and with a server that stops reading, the abstract stream, calls return | 2 threads, channel of 2, 3 lines, 2 tries |
| `RawFileRun` | handles, whole lines, reopen takes effect | 2 threads, 2 callers of reopen, 3 lines, 4 opens, 1 move |
| `GlobalLoggerRun` | setups that race and fail | 2 threads, 4 calls, 4 configurations |
| `ReconfigureRun` | a record goes to one configuration and gets written, a reopen holds afterwards | 2 threads, 3 versions (no sink, a buffered and a raw one, the raw one alone), 1 record, 2 flushes or reopens, 1 event (failed open of a caller or a writer, move or rotation) |
| `TracingRun` | the story of a span, attributes once, calls return | 2 threads, 1 span, 2 attributes, 3 layers of 2 formatter types |
| `CallSiteRun` | calls bracketed, panics on record, the dump on exit | 2 threads, 2 calls in a nest or side by side, 1 other macro, 2 of changes of a level, setups, signals and failed dumps, functions behind both ways of boxing a future, a ring of 2, 2 configurations |

*Why they are enough.* With k files kept, after k + 2 rotations each number has
been filled, cascaded, compressed and trimmed, and the state repeats up to the
names of the generations; the bounds leave at least two rotations after the
last fault may have happened. A channel of two is full with one message of each
of two threads; a buffer of two has lines that fit, that fill it and that are
longer; three lines are enough for one in the file, one in the buffer and one in
the channel. Two failures of one line show the retry and its end. Four setups
of two threads hold a first one that fails, its retry, a reconfiguration inside
the unlocked part of the first, and one that is refused.

For timestamps a period of two ticks has two rotations in it and a boundary
between them; the clock runs over several periods, so that a file becomes too old
by one tick. Two reopens at once store in either order, with a move before,
between or after them and a record behind. That an open fails beside the move takes two
events: `ReconfigureReopen.cfg` (section 3, by hand) has them, and the theorem every
number. Two versions of one list, after
one without sinks, so that both are seen being built, show every overlap of a call, a swap and a
dropped writer; a third would only repeat it. Two threads and three layers, one
of them silent, are the smallest stack in which a layer of another type, and
one of the same type that is disabled, stand between two that log. Two calls are
a nest, or two threads at once; a change of level falls into any gap of them, and two
events are a setup after a signal, a signal after a setup, or a level changed and reset.
A boxed function and one with the old form of `async_trait` can end in every way the others
can.

Symmetry of the threads is used in `RawFileRun` and `CallSiteRun`, which check no
liveness. Rotation by age, which rotates at every flush once it has begun, is
explored by `BufFileAge` and `TimeRotationRun`, and covered by the theorems, which
hold for every choice of limiters. Deadlock is not checked where the bounds, or a
panic of a thread that the code allows, end the behaviour; `RotationRun` checks it.

### Disagreements between the code and its documentation

One is a run of the project: it checks a statement of the documentation, and TLC
shows a behaviour of the code that violates it.

| run | what is said | what the code does |
|---|---|---|
| `BufFilePanic` | a panic goes on after the hook (`config.rs:27`) | the hook on the writer thread waits for itself |

Eighteen more have a configuration, to be run by hand with the MC module of their
name (`tlc -config BufFileAge.cfg MCBufFile`), or with `Rotation` or `Syslog` itself
(`tlc -config RotationAge.cfg Rotation`); each ends in a violation.

| configuration | what is said | what the code does |
|---|---|---|
| `RotationCollision` | a collision is due to an old log file, and the new path is free (`rotation.rs:500`, 545) | a removal that fails takes the suffix out of the set all the same; the file stays, and a later cascade panics on it |
| `RotationAll` | `Upkeep::All` does not delete any old logs (`rotation.rs:63`) | a stop between the removal and the end of the gzip stream loses one |
| `RotationAge` | `Upkeep::Age` is ignored for numeric suffixes (`rotation.rs:76`) | every archive is removed at once |
| `TimeRotationAge` | a file older than the duration is deleted (`rotation.rs:59`): no younger one | with `use_last_time` it goes one period early |
| `TimeRotationTaken` | a destination that exists is moved out of the way (`rotation.rs:527`) | with timestamps the writer panics, when the clock was set back |
| `BufFileAge` | rotate by day or hour (`rotation.rs:47`) | the creation time of the first file stays; every later flush rotates |
| `BufFileOpen` | the log exists when it is archived (`rotation.rs:544`) | after a failed open it does not |
| `SyslogHang` | a message is dropped after a timeout, to prevent a hang up (`syslog.rs:22`, 96) | nothing times out while the server keeps the connection and does not read: `write_all` and `flush` wait, the channel fills, and callers hang |
| `SyslogStuck` | the message is flushed asynchronously (`syslog.rs:8`) | a line after a flush request of one batch stays buffered |
| `RawFileRace` | reopen may be called by the signal and manually (`log_impl.rs:293`) | two at once may put the moved file back |
| `GlobalLoggerLevel` | a reconfiguration resets the level (`log_impl.rs:139`) | the first setup overrides it later |
| `GlobalLoggerRetry` | `get_global_logger` returns the logger after initialisation (`log_impl.rs:206`) | never, after a first setup that failed in the tracing |
| `GlobalLoggerTracing` | `tracing_global` subscribes (`config.rs:43`) | not when nothing else differs from the setup before |
| `ReconfigureRotate` | a collision is due to an old log file (`rotation.rs:500`) | it may be due to the writer of the configuration before |
| `ReconfigureFlush` | `flush` is for the shutdown of a program with buffered sinks (`log_impl.rs:425`): afterwards all is written | the lines in the channel of a replaced sink are not covered |
| `TracingShared` | layers may be stacked (`log_impl.rs:358`, `tracing_bridge.rs:27`) | two layers of one formatter type share the text: the second logs no "new" and applies each record twice |
| `CallSitePanic` | an assertion triggers the dump of the ring in the panic hook (`ringfile.rs:49`); the hook is on by default (`config.rs:27`) | the recipe starts from `Builder::default()`, without the hook |
| `CallSiteKey` | a record through a `KeyFilter` carries its key (`filter.rs:15`) | not through an `Arc` of it |

One more passes: `ReconfigureReopen.cfg` (`MCReconfigure`) checks `OneConfiguration` and
`ReopenFollows` alone, with two events, a move of the log and an open that fails, say
(1,832,334 states). It starts with the sinks open, and is too large for the liveness that
`ReconfigureRun` checks.

## 4. Fairness

- `Rotation`: weak fairness of the two threads; the system schedules them. No
  fairness of `Rotate`, `FlushWait` or the faults.
- `BufFile`: weak fairness of the writer thread, whose wait for a message ends
  with a message or with the timeout, and of the archive thread. None of the
  program: nobody has to log, flush or close.
- `Syslog`: strong fairness of the backend and of each thread's blocked send. The
  system schedules the backend, and a call of it that waits for the server gets on when
  the server reads again and again, although it may stop in between: the room that
  it makes in the buffers stays until it is used. Several threads compete for the room
  in the channel, which wakes its waiting senders in turn. The server owes nothing: not
  to read, nor to fail, nor to accept a connection. `CallsReturn` therefore has the
  hypothesis that it never stops reading for good (`[]<>reading`), and `NeverHangsUp`,
  which is what the documentation says, has none and does not hold (`SyslogHang.cfg`).
- `GlobalLogger`: weak fairness of each thread inside `setup_log`. The waiters
  for the spin lock yield; with finitely many calls (`MaxSetups`) the lock stays
  free in the end, so weak fairness is enough. With an endless stream of setups
  the code promises nothing, and the model does not either.
- `Reconfigure`: weak fairness of each writer thread, which wakes up at its flush
  interval. Nothing is asked of the callers and the setups: a line that was sent gets
  written whatever becomes of them.
- `Tracing`: strong fairness of each thread inside a callback. It may wait for the
  lock of a span that others take again and again; the lock is a `RwLock`
  that hands itself to whoever waits, and that is what is assumed of it.
- `RawFile`, `TimeRotation` and `CallSite` state no liveness.

## 5. Proofs

| theorem | states |
|---|---|
| `RotationProofs!TypeCorrect` | `Spec => []TypeOK` |
| `RotationProofs!BackendExclusiveHolds` | `Spec => []BackendExclusive` |
| `RotationProofs!NoCollisionHolds` | `Orderly`, `Spec => []NoCollision` |
| `RotationProofs!SetMatchesDiskHolds` | `Orderly`, `Spec => []SetMatchesDisk` |
| `RotationProofs!RetentionExactHolds` | `Orderly`, `Spec => []RetentionExact` |
| `RotationProofs!RetainedReadableHolds` | `Orderly`, `Spec => []RetainedReadable` |
| `RotationProofs!ArchiveHolds` | `Orderly`, `Spec => ImplementsArchive` |
| `TimeRotationProofs!TypeCorrect` | `Spec => []TypeOK` |
| `TimeRotationProofs!NamesInOrderHolds` | `Spec => []NamesInOrder` |
| `TimeRotationProofs!CollisionNeedsStepBackHolds` | `Spec => []CollisionNeedsStepBack` |
| `TimeRotationProofs!NewestKeptHolds` | `Spec => []NewestKept` |
| `TimeRotationProofs!RetentionByAgeHolds` | `Spec => RetentionByAge` |
| `TimeRotationProofs!OnlyOlderLeaveHolds` | `UseLastTime = FALSE`, `Spec => OnlyOlderLeave` |
| `BufFileProofs!TypeCorrect` | `Spec => []TypeOK` |
| `BufFileProofs!FlushedOnReturnHolds` | `Spec => FlushedOnReturn` |
| `BufFileProofs!InOrderHolds` | `Spec => []InOrder` |
| `BufFileProofs!ConservationHolds` | `Spec => []Conservation` |
| `BufFileProofs!StreamHolds` | `"open" \notin Faults`, `Spec => Stream!Spec` |
| `BufFileProofs!ArchiveFrozenHolds` | `"open" \notin Faults`, `Spec => ArchiveFrozen` |
| `BufFileProofs!ArchivedLengthHolds` | `RotateBy = {"size"}`, no failed opens or writes, `Spec => []ArchivedLength` |
| `SyslogProofs!TypeCorrect` | `Spec => []TypeOK` |
| `SyslogProofs!InOrderHolds` | `Spec => []InOrder` |
| `SyslogProofs!ConservationHolds` | `Spec => []Conservation` |
| `SyslogProofs!StreamHolds` | `Spec => ImplementsStream` |
| `RawFileProofs!TypeCorrect` | `Spec => []TypeOK` |
| `RawFileProofs!OpenWhileUsedHolds` | `Spec => []OpenWhileUsed` |
| `RawFileProofs!ReopenTakesEffectHolds` | `Spec => []ReopenTakesEffect` |
| `RawFileProofs!DeliveredHolds` | `Spec => []Delivered` |
| `LoggerProofs!SetupTypeCorrect` | `SetupSpec => []SetupTypeOK` |
| `LoggerProofs!InstalledOnceHolds` | `SetupSpec => []InstalledOnce` |
| `LoggerProofs!InitUnseenHolds` | `SetupSpec => []InitUnseen` |
| `LoggerProofs!ChecksumInForceHolds` | `SetupSpec => []ChecksumInForce` |
| `LoggerProofs!TypeCorrect` | `Spec => []TypeOK` of `CallSite` |
| `LoggerProofs!CallsBracketedHolds` | `Spec => []CallsBracketed` |
| `LoggerProofs!PanicOnRecordHolds` | `Spec => []PanicOnRecord` |
| `LoggerProofs!DumpOnExitHolds` | `Spec => []DumpOnExit` |
| `LoggerProofs!MaxLevelFits` | of every `Builder` with a sink: `GetMaxLevel` is the level of a sink, and no sink's is higher |
| `ReconfigureProofs!TypeCorrect` | `Spec => []TypeOK` |
| `ReconfigureProofs!OneConfigurationHolds` | `Spec => []OneConfiguration` |
| `ReconfigureProofs!ReopenFollowsHolds` | `Spec => ReopenFollows` |
| `TracingProofs!TypeCorrect` | `Spec => []TypeOK` |
| `TracingProofs!AppliedOnceHolds` | `TypesApart`, `Spec => []AppliedOnce` |
| `TracingProofs!SpanStoryHolds` | `TypesApart`, `Spec => SpanStory` |

They hold for every policy, set of faults, number of threads, capacity and
bound that the `ASSUME`s of the module admit; TLC evaluates the assumptions in
every run. The bounds themselves (`MaxLines`, `MaxGen`, ...) are constants of
unknown value in the proofs. TLC checks `TypeOK` in `RotationFaults` only, as it is
proved for every module in the table.

### Where a theorem has a hypothesis

- `Orderly` (`Rotation`): no stop of the process, no external deletion, no failed
  removal. Every rename and every step of a compression may fail. The last part is
  needed for `NoCollision`, which is therefore not a property of the code as it stands:
  `RotationCollision.cfg` has the panic after one failed removal, without a stop and
  without anybody else at the files.
  `RetainedReadable` and `ImplementsArchive` hold under every fault in
  `RotationFaults`; the proofs of these two are for the faults `Orderly` admits.
- `"open" \notin Faults` (`BufFile`): a sink without a file drops what it is given
  (`BufFileOpen.cfg`), so a line may leave memory without a place in a file.
- `ArchivedLength` is about rotation by size: with an age limit as well a file is
  archived short, and a failed write leaves a size that is not the file's.
- `UseLastTime = FALSE` (`OnlyOlderLeave`): with it `TimeRotationAge.cfg` is the
  counterexample. `RetentionByAge` states what holds with both.
- `TypesApart` (`Tracing`): no two layers that look at spans have one formatter
  type; `TracingShared.cfg` is the counterexample without it.

Five assumptions are limits of the models: `PathsAssumption` of `Reconfigure` (one list
has no path twice, which the builder does not check), `BuildersAssumption` of `CallSite`
(a configuration has a sink: without one nothing is logged, and there is nothing to say),
`KeepAssumption` of `CallSite` (a ring holds at least the two records that a failed
assertion leaves), `CallersAssumption` of `RawFile` (finitely many threads), and
`ThreadsAssumption` of `BufFile` and `Syslog` with `CallersAssumption` of `GlobalLogger`
(a thread is not the value that stands for nobody).

### The inductive invariants

*Rotation.* `BackendExclusive` is not inductive: that no archive thread runs
during the cascade follows from the join before it, which only waits when there
is a handle. The invariant adds `HandleHeld` (a thread that runs has its handle
stored; during the cascade neither exists). For the types it adds where the
cascade is (`CascadeBelowEnd`), that a generation is left when the log has to be
created (`LogToCome`), and what `compress` works on (`CompressesArchived`).

The set and the directory agree only at rest. `Layout` says where each generation
is at every step: `Form` and `Here` are the suffix of a file with the one the
writer has in hand, and above or below the hole of the cascade; the numbers have no gap
(`NoGap`), the compressed files are the oldest (`OldestCompressed`), every number
holds the generation of its age (`FilesInPlace`), and what is on disk beside them
is the copy a failed `compress` left of a plain file, below the numbers whose files
are compressed (`NoStrayPlain`, `StrayCopies`): that is why the leftover is never in the
way of a cascade. `LimitKept` counts. `RetentionExact` adds `Clean`: with no fault so
far no copy is truncated or forgotten. That the retention keeps a number of files
is a statement about the last number, as there is no gap.

`RetainedReadable` needs to know what a fault has cost so far. `Counted` says that the
copies which are not whole, or which the set does not name, are at most as many as the
faults (`Spoilt`, without the copy `compress` is writing), that each is of an archived
generation (`OldCopies`), and that the cascade ends beyond what the policy keeps
(`EndFar`). A generation that the policy keeps and that cannot be read is in one of
those copies (`LostIsSpoilt`), a different one for each, so there are no more than
faults. That no step adds a copy without a fault is the work: the cascade moves them
(`CountedFollow`), `compress` overwrites one or completes its own (`CountedCompress`).

For `ArchiveHolds`, `KeptIs` turns what can be read into what some file or the encoder
holds; every step is then matched with one of `Archive` (`MoveImplements`,
`TrimImplements`, `OpenImplements`, ...). The last move of a cascade is `Add`; the loop that
removes old files is `Drop`, and drops the oldest but for faults because a number is an
age (`OlderFew`); overwriting what an earlier failure left is a `Drop` that the earlier
fault excuses; a failed step of `compress` is `Fault`.

*TimeRotation.* The set is the archive but for the oldest files the retention loop
has removed already (`SetKept`), a name tells when its file was archived
(`Stamped`), and the log is newer than all (`Generations`). While the clock has
not been set back names sort as the files do (`Ordered`), and a new name is not taken.
`NewestKept` is inductive together with `Numbered` (the log is the newest generation): as
the archive has no gap, the place of a name is the age of its file (`PlaceIsAge`, a
bijection from the newer names to the newer generations), so what the loop finds too old
is what `Upkeep::Count` does not keep. It is the promise of `Archive` without faults;
as the policy is a variable here it is stated as an invariant.

*BufFile.* When a request is answered, the lines before it must have left the
channel (it is first in, first out), the writer's hand and the buffer. The
invariant says where each is: `LinesQueued` (lines in the channel are numbered
in order, above the last received), `RequestsQueued` (a request in the channel
comes after every line counted in its mark), `LineInHand`, `LinesReceived` (a
line received is in hand, in the buffer or out), `RequestInHand` (once the
request is in hand its lines are received, and once the buffer is written they
are out) and `OwnRequest` (a waiting thread has one request, in the channel or
in hand). `FlushedOnReturn` follows, as only `Ack` ends a wait. `PlaceInv` adds that
lines leave memory in order and that the writer's file is not older than any it
has written to, for `InOrder` and `Conservation`. `HandleInv` says that without
failed opens the writer's file is the one that has the name, and `SizeInv` that its
size is known and the buffer bounded. `StreamHolds` maps the lines that have left
memory to those of the stream, and each answered request to an answer; it is the safety
part of `ImplementsStream`.

*Syslog.* What the server has, followed by what the `BufWriter` holds, is a rising
sequence without the line in hand and the lost ones (`WireInOrder`), also when a
failed connection takes a prefix of it; requests are as in `BufFile`, and whether the server
reads matters to none of this. The sink may
give a line up, so `ImplementsStream` is about the steps of the stream without its
fairness here, and proved as it stands.

*RawFile.* `Counted` says that the reference count of a handle is the number of
its users, with the cardinalities of the sets of threads that hold it; `NotOlder`
that no handle which is or will be the sink's is older than the last reopen allows, and
`LinesOwned` that a line is only where its call has put it.

*GlobalLogger.* `LockHeld` (who works on the shared state holds the spin lock),
`InPlace` (what a thread's position says of the logger), `NobodyYet` (before
the first setup nobody can reach the logger) and `OneFirst` (there is one first
setup, also after it has let the lock go).

*CallSite.* The three properties speak of what has ended; the invariant says what is so
while a call, a panic or a signal is under way. `Shaped` says what a thread can have
in hand where it stands (`Shape`), that a call which logs its own record is the innermost
(`Framed`), and that the stack of a thread has its open calls in the order they
began (`Nested`); `Opened` is the converse, an open call is on a stack.

`Bracketed` tells the story of each console. `Known` and `Ascending`: its records of
`logfn` are of calls that have begun, in that order, and none is of the call that is
about to enter. `EnterLoud`: as long as no level has changed, an open call is on record
just if its level lets it through, which is compared with `ReturnLoud` when it
returns and gives `BothOrNone` when it has; `Quiet` says that a record on its way through the
sinks has passed `log::max_level`, without which these two are not inductive. `ReturnOpen`:
a return is on record only of a call that has returned or has just logged it. `Between`: what
was entered between the two records of a call has ended, and its return is there. When
a return is written, everything entered after the call's own enter is a call above it on the
stack, and the call is the innermost: so all of them have ended.

`OnRecord` follows an assertion that fails from sink to sink: its record is the last
of each sink passed (`Asserting`), the hook adds its own (`Hooked`) and
flushes (`Flushed`), and in between the thread does nothing else. `Marked` compares the
ring file with what the ring held since the signal (`mark`), as long as no setup has
cleared it; a ring that grows after the dump keeps the moment of the dump as witness.
Both exempt a ring file whose last dump failed, until a later dump succeeds (`broken`).

*Reconfigure.* `InOnePlace` says where a record is for one path: nowhere until its
call has passed the sink, then in the channel, in the buffer or in one file, of the
version it loaded. `Followed` says, for every point at which a record may wait, that
the sink has opened its file after the move, that a reopen stands in its
channel before the record, or that its writer's last open failed (`Opened`, `Ready`):
`BuiltFollow` for the sinks a setup has built, `ListFollows` for those in force,
`LoggersFollow` and `ReopensFollow` for the calls under way, `QueuesFollow`
and `BuffersFollow` for the records. A raw sink may also get an older file, one that another
reopen has in hand. `Handed` says that storing it harms nobody: it is later than the
moves before its own reopen, than what the last reopen that holds retired, and than what every
record of its version avoids. That stays so when a reopen returns alone, since nobody
else then has a file of its list in hand (`NoneAlone`); this is where two reopens at once
have to be left out. `Calm` is the frame: file numbers (`Numbers`), versions
that calls have seen (`Published`), callers whose flush is answered once (`Awaited`),
the call of a record (`Loggers`). The steps are first shown to be instances of a
coarser one (`NextSteps`), which the other lemmas use.

*Tracing.* `Owners` (who may make a call on a span), `Givers` (two calls do not give one
attribute), `Locked` (the lock is with the callbacks inside, a writer alone) and
`Fresh` (what a callback read under the lock is still there) give `Collected`: a
layer's text has the attributes of the calls that have passed it, once each. `Told`
relates it to the last line logged.

### Only model-checked

- Liveness under fairness: `WriterProceeds`, `CallsReturn` (of `Syslog`), `SetupReturns`,
  `LinesSurviveSwap`, `CallReturns` and the fairness of `ImplementsStream` in `BufFile`
  (the prover has no `ENABLED`).
- `RetainedReadable` and `ImplementsArchive` of `Rotation` where the process is stopped,
  a file is deleted from outside or a removal fails: the directory a stop leaves in the
  middle of a cascade needs another invariant than `Layout`, with two forms of a number
  and gaps between numbers.

## 6. Plan

What is done is above. What is left, in order of weight:

1. `RetainedReadable` and `ImplementsArchive` of `Rotation` across stops of the process.
2. The retention of `TimeRotation` once the clock has been set back: how many files it
   may remove too early, as `NewestKept` is silent about it.

## 7. Not modelled

- The formatter, the parser and the time: no state that outlives a call, and no
  property of the modelled parts depends on what they print.
- `tracing_layer` and `tracing_dispatch` called by the program: they only refuse
  when a global dispatcher has been set.
- The ring file's buffers, and the background thread and channel that handle its
  data (`ringfile.rs:57`): they belong to a crate outside the repository. A dump is one
  step here, which may fail.
- A ring file beside buffered sinks: its `reopen` ends the process with lines in
  their buffers, which no run looks at.
- The branch of `log_assert!(cond,)`, which names a variable that its macro does not
  have, and the statements before the `Box::pin` of a function under `logfn`,
  which the macro drops: neither is a behaviour, but code that is not generated.
- `flush_millis` 0, said to flush when nothing is left to write
  (`buf_file_impl.rs:71`): the constructor turns 0 into 1000, and the branch for 0 in
  the writer is never taken.
- Bytes: a line has a length and an identity. Formatting, paths, the choice of a
  server address and messages to stderr are left out.
- Other processes that append to the same file.
- The memory order of the atomics: accesses are sequentially consistent in the
  models. The orderings the code uses on the lock (acquire on the exchange, a
  sequentially consistent store) make the steps under it so.
