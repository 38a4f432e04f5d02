------------------------------ MODULE BufFile ------------------------------
(***************************************************************************)
(* The buffered file sink, src/src/buf_file_impl.rs: threads of the program *)
(* send lines, flush requests and reopen requests through a bounded channel *)
(* to one writer thread, which collects lines in a buffer, writes the       *)
(* buffer to the log file, and rotates the file (src/src/rotation.rs; the   *)
(* archive itself is in module Rotation).                                   *)
(*                                                                         *)
(* A line is the number the channel gave it: line i is the i-th line sent.  *)
(* A file is an inode number, in the order of creation; 0 is no file.       *)
(***************************************************************************)
EXTENDS Integers, Sequences, FiniteSets

CONSTANTS
    Threads,      \* threads of the program
    Cap,          \* capacity of the channel (1024)
    FlushSize,    \* flush_size
    Sizes,        \* lengths of lines
    RotateBy,     \* the limiters configured: a subset of {"size", "age"}
    SizeLimit,    \* Rotation.by_size
    AgeLimit,     \* the limit of Rotation.by_age, in ticks
    Hooks,        \* whether a panic finds the panic hook of log_impl.rs: setup_log
                  \* sets it after it has started the writer thread, the program
                  \* may set another
    Faults,       \* what may go wrong: open_file, libc::write, the clock
    MaxLines,     \* bound: lines sent
    MaxFiles,     \* bound: files created
    MaxReopens,   \* bound: reopen requests
    MaxMoves,     \* bound: times another program moves the log away
    MaxTime       \* bound: the clock

ASSUME ThreadsAssumption == 0 \notin Threads
ASSUME ChannelAssumption == Cap \in Nat \ {0} /\ FlushSize \in Nat \ {0}
ASSUME SizesAssumption   == Sizes \subseteq Nat \ {0}
ASSUME LimitsAssumption  == /\ RotateBy \subseteq {"size", "age"}
                            /\ SizeLimit \in Nat /\ AgeLimit \in Nat
ASSUME FaultsAssumption  == Hooks \subseteq BOOLEAN /\ Faults \subseteq {"open", "write", "clock"}
ASSUME BoundsAssumption  == /\ MaxLines \in Nat /\ MaxFiles \in Nat \ {0}
                            /\ MaxReopens \in Nat /\ MaxMoves \in Nat /\ MaxTime \in Nat

VARIABLES
    app,       \* thread -> what it is doing
    mark,      \* thread -> lines sent when its flush request was sent
    chan,      \* the channel
    sent,      \* lines sent so far
    reopens,   \* reopen requests sent so far
    closed,    \* the sink, and with it the sender, is dropped
    pc,        \* the writer thread
    caller,    \* whom reopen, check_rotate or flush returns to
    cur,       \* the line in hand
    acking,    \* the thread whose flush request is in hand
    got,       \* the last line received
    buf,       \* BufFileInner.buf: the lines in it
    blen,      \* BufFileInner.buf.len()
    f,         \* BufFileInner.f
    opened,    \* the file open_file has just opened
    size,      \* BufFileInner.size
    created,   \* BufFileInner.create_time; -1: None
    hpc,       \* the thread of handle_old_files: "none" or "running"
    log,       \* the file under the log's name
    files,     \* files created so far
    flen,      \* file -> length
    born,      \* file -> time of creation
    rotated,   \* files the writer has archived
    home,      \* line -> the file it is in; 0: none yet; -1: lost by a failed write
    moves,     \* times the log was moved away
    now        \* the clock

requests == <<app, mark, sent, reopens, closed>>
control  == <<pc, caller, cur, acking, got>>
buffer   == <<buf, blen>>
handle   == <<f, opened, size, created>>
disk     == <<log, files, flen, born, rotated, home, moves>>
vars     == <<requests, chan, control, buffer, handle, hpc, disk, now>>

Lines == 1..MaxLines
Inode == 1..MaxFiles
LineMsg(i, n) == [kind |-> "line", id |-> i, size |-> n, by |-> 0]
FlushMsg(t)   == [kind |-> "flush", id |-> 0, size |-> 0, by |-> t]
ReopenMsg     == [kind |-> "reopen", id |-> 0, size |-> 0, by |-> 0]

NoLine == [id |-> 0, size |-> 0]

\* The channel keeps the order in which messages enter it.
EnqueueFirst(m) == <<m>> \o chan   \* mutant: the last in is the first out
Enqueue(m)      == Append(chan, m)

\* LogSinkBufFile::new on a directory where the log exists or not: short, or over the limit
\* if an earlier run stopped between its last write and the rotation.
Init ==
    /\ app = [t \in Threads |-> "idle"]
    /\ mark = [t \in Threads |-> 0]
    /\ chan = <<>> /\ sent = 0 /\ reopens = 0 /\ closed = FALSE
    /\ pc = "open" /\ caller = "start"
    /\ cur = NoLine /\ acking = 0 /\ got = 0
    /\ buf = {} /\ blen = 0
    /\ f = 0 /\ opened = 0 /\ size = 0 /\ created = -1
    /\ hpc = "none"
    /\ files \in {0, 1} /\ log = files
    /\ \E n \in {1, SizeLimit + 1} : flen = [i \in Inode |-> IF i = log THEN n ELSE 0]
    /\ born = [i \in Inode |-> 0]
    /\ rotated = {}
    /\ home = [i \in Lines |-> 0]
    /\ moves = 0 /\ now = 0

-----------------------------------------------------------------------------
\* The threads of the program.

\* tx.send may block, so a call is a step and its completion another.
CallLog(t) ==
    /\ app[t] = "idle" /\ ~closed
    /\ app' = [app EXCEPT ![t] = "line"]
    /\ UNCHANGED <<mark, sent, reopens, closed, chan, control, buffer, handle, hpc, disk, now>>

CallFlush(t) ==
    /\ app[t] = "idle" /\ ~closed
    /\ app' = [app EXCEPT ![t] = "flush"]
    /\ UNCHANGED <<mark, sent, reopens, closed, chan, control, buffer, handle, hpc, disk, now>>

Room == pc # "dead" /\ Len(chan) < Cap

\* LogSinkBufFile::log, for a record the sink's level lets through.
SendLine(t) ==
    /\ app[t] = "line" /\ Room /\ sent < MaxLines
    /\ \E n \in Sizes : chan' = Enqueue(LineMsg(sent + 1, n))
    /\ sent' = sent + 1
    /\ app' = [app EXCEPT ![t] = "idle"]
    /\ UNCHANGED <<mark, reopens, closed, control, buffer, handle, hpc, disk, now>>

\* LogSinkBufFile::flush sends its Once and waits for it.
SendFlush(t) ==
    /\ app[t] = "flush" /\ Room
    /\ chan' = Enqueue(FlushMsg(t))
    /\ app' = [app EXCEPT ![t] = "waiting"]
    /\ mark' = [mark EXCEPT ![t] = sent]
    /\ UNCHANGED <<sent, reopens, closed, control, buffer, handle, hpc, disk, now>>

\* The receiver is gone: send returns an error, the line is dropped, flush
\* returns at once.
SendFails(t) ==
    /\ app[t] \in {"line", "flush"} /\ pc = "dead"
    /\ app' = [app EXCEPT ![t] = "idle"]
    /\ UNCHANGED <<mark, sent, reopens, closed, chan, control, buffer, handle, hpc, disk, now>>

\* open (from setup_log) and reopen (from a signal or the program).
SendReopen ==
    /\ ~closed /\ Room /\ reopens < MaxReopens
    /\ chan' = Enqueue(ReopenMsg)
    /\ reopens' = reopens + 1
    /\ UNCHANGED <<app, mark, sent, closed, control, buffer, handle, hpc, disk, now>>

\* Another configuration replaces the sink and no call on it is left.
DropSink ==
    /\ ~closed /\ \A t \in Threads : app[t] = "idle"
    /\ closed' = TRUE
    /\ UNCHANGED <<app, mark, sent, reopens, chan, control, buffer, handle, hpc, disk, now>>

-----------------------------------------------------------------------------
\* The writer thread: BufFileInner::log_writer and the functions it calls.

\* Mutant of After: the line in hand is forgotten once the buffer is flushed.
LineForgotten == [start |-> "check", check0 |-> "recv", reopen |-> "drain", before |-> "drain",
                  after |-> "drain", timeout |-> "recv", flush |-> "wait", exit |-> "wait"]

\* Where reopen, check_rotate and flush return to.
After == [start |-> "check", check0 |-> "recv", reopen |-> "drain", before |-> "append",
          after |-> "drain", timeout |-> "recv", flush |-> "wait", exit |-> "wait"]

\* log_writer reopens, then calls check_rotate, before its loop.
Return ==
    /\ pc' = After[caller]
    /\ caller' = IF caller = "start" THEN "check0" ELSE caller

\* reopen: open_file under the log's name, which creates the file if need be.
Open ==
    /\ pc = "open"
    /\ pc' = "stat"
    /\ IF log # 0
       THEN opened' = log /\ UNCHANGED <<log, files, born>>
       ELSE /\ files < MaxFiles
            /\ files' = files + 1
            /\ log' = files + 1
            /\ opened' = files + 1
            /\ born' = [born EXCEPT ![files + 1] = now]
    /\ UNCHANGED <<requests, chan, caller, cur, acking, got, buffer, f, size, created,
                   hpc, flen, rotated, home, moves, now>>

\* open_file fails: reopen reports it and keeps the old file, if any.
OpenFailed ==
    /\ pc = "open" /\ "open" \in Faults
    /\ Return
    /\ UNCHANGED <<requests, chan, cur, acking, got, buffer, handle, hpc, disk, now>>

\* reopen: metadata of the path, not of the open file.
Stat ==
    /\ pc = "stat" /\ log # 0
    /\ f' = opened
    /\ size' = flen[log]
    /\ created' = IF created = -1 THEN born[log] ELSE created
    /\ Return
    /\ UNCHANGED <<requests, chan, cur, acking, got, buffer, opened, hpc, disk, now>>

\* expect("get metadata"): the path has gone since open_file.
StatPanic ==
    /\ pc = "stat" /\ log = 0
    /\ pc' = "panic"
    /\ UNCHANGED <<requests, chan, caller, cur, acking, got, buffer, handle, hpc, disk, now>>

TooBigAtLimit == "size" \in RotateBy /\ size >= SizeLimit   \* mutant: off by one
TooBig == "size" \in RotateBy /\ size > SizeLimit
\* A clock behind the creation time rotates at once.
TooOld == "age" \in RotateBy /\ (now < created \/ now - created > AgeLimit)

\* check_rotate and LogRotate::rotate; the age limiter unwraps create_time.
Check ==
    /\ pc = "check"
    /\ IF "age" \in RotateBy /\ created = -1 THEN pc' = "panic" /\ UNCHANGED caller
       ELSE IF TooBig \/ TooOld THEN pc' = "rename" /\ UNCHANGED caller
       ELSE Return
    /\ UNCHANGED <<requests, chan, cur, acking, got, buffer, handle, hpc, disk, now>>

\* Mutant: the file is not opened again after a rotation.
RenameOnly ==
    /\ pc = "rename" /\ hpc = "none" /\ log # 0
    /\ log' = 0
    /\ rotated' = rotated \cup {log}
    /\ hpc' = "running"
    /\ Return
    /\ UNCHANGED <<requests, chan, cur, acking, got, buffer, handle,
                   files, flen, born, home, moves, now>>

\* LogRotate::rotate waits for the thread of the last rotation, renames the
\* log, spawns the next thread; check_rotate then reopens.
Rename ==
    /\ pc = "rename" /\ hpc = "none" /\ log # 0
    /\ log' = 0
    /\ rotated' = rotated \cup {log}
    /\ hpc' = "running"
    /\ pc' = "open"
    /\ UNCHANGED <<requests, chan, caller, cur, acking, got, buffer, handle,
                   files, flen, born, home, moves, now>>

\* assert!(old_path.exists()) in _move_file_with_suffix.
RenamePanic ==
    /\ pc = "rename" /\ hpc = "none" /\ log = 0
    /\ pc' = "panic"
    /\ UNCHANGED <<requests, chan, caller, cur, acking, got, buffer, handle, hpc, disk, now>>

\* handle_old_files ends.
HandlerDone ==
    /\ hpc = "running"
    /\ hpc' = "none"
    /\ UNCHANGED <<requests, chan, control, buffer, handle, disk, now>>

\* recv_timeout in the outer loop, try_recv in the inner one.
Take ==
    /\ pc \in {"recv", "drain"}
    /\ chan # <<>>
    /\ chan' = Tail(chan)

WouldNotFit(n)  == blen + n > FlushSize /\ blen > 0

\* write: flush what is buffered when the line would not fit.
TakeLine ==
    /\ Take
    /\ Head(chan).kind = "line"
    /\ cur' = [id |-> Head(chan).id, size |-> Head(chan).size]
    /\ got' = Head(chan).id
    /\ IF WouldNotFit(Head(chan).size)
       THEN pc' = "flush" /\ caller' = "before"
       ELSE pc' = "append" /\ UNCHANGED caller
    /\ UNCHANGED <<requests, acking, buffer, handle, hpc, disk, now>>

TakeReopen ==
    /\ Take
    /\ Head(chan).kind = "reopen"
    /\ pc' = "open" /\ caller' = "reopen"
    /\ UNCHANGED <<requests, cur, acking, got, buffer, handle, hpc, disk, now>>

\* Mutant: the request is answered without a flush.
TakeFlushAtOnce ==
    /\ Take
    /\ Head(chan).kind = "flush"
    /\ acking' = Head(chan).by
    /\ pc' = "wait" /\ caller' = "flush"
    /\ UNCHANGED <<requests, cur, got, buffer, handle, hpc, disk, now>>

TakeFlush ==
    /\ Take
    /\ Head(chan).kind = "flush"
    /\ acking' = Head(chan).by
    /\ pc' = "flush" /\ caller' = "flush"
    /\ UNCHANGED <<requests, cur, got, buffer, handle, hpc, disk, now>>

\* try_recv finds nothing.
Drained ==
    /\ pc = "drain" /\ chan = <<>>
    /\ pc' = "recv"
    /\ UNCHANGED <<requests, chan, caller, cur, acking, got, buffer, handle, hpc, disk, now>>

\* recv_timeout times out, or finds the sender dropped.
Timeout ==
    /\ pc = "recv" /\ chan = <<>> /\ ~closed
    /\ pc' = "flush" /\ caller' = "timeout"
    /\ UNCHANGED <<requests, chan, cur, acking, got, buffer, handle, hpc, disk, now>>

Disconnected ==
    /\ pc = "recv" /\ chan = <<>> /\ closed
    /\ pc' = "flush" /\ caller' = "exit"
    /\ UNCHANGED <<requests, chan, cur, acking, got, buffer, handle, hpc, disk, now>>

\* write: append the line, flush when the buffer is full.
AppendLine ==
    /\ pc = "append"
    /\ buf' = buf \cup {cur.id}
    /\ blen' = blen + cur.size
    /\ IF blen' >= FlushSize
       THEN pc' = "flush" /\ caller' = "after"
       ELSE pc' = "drain" /\ UNCHANGED caller
    /\ cur' = NoLine
    /\ UNCHANGED <<requests, chan, acking, got, handle, hpc, disk, now>>

\* flush: the buffer goes to the open file, and is emptied also when the write
\* fails; without a file it stays.
Write(ok) ==
    /\ pc = "flush" /\ f # 0
    /\ size' = size + blen
    /\ flen' = IF ok THEN [flen EXCEPT ![f] = @ + blen] ELSE flen
    /\ home' = [i \in Lines |-> IF i \in buf THEN (IF ok THEN f ELSE -1) ELSE home[i]]
    /\ buf' = {} /\ blen' = 0
    /\ pc' = "check"
    /\ UNCHANGED <<requests, chan, caller, cur, acking, got, f, opened, created, hpc,
                   log, files, born, rotated, moves, now>>

Flush     == Write(TRUE)
WriteFail == "write" \in Faults /\ Write(FALSE)

\* Mutant: the buffer is emptied although there is no file.
FlushToNowhere ==
    /\ pc = "flush" /\ f = 0
    /\ buf' = {} /\ blen' = 0
    /\ Return
    /\ UNCHANGED <<requests, chan, cur, acking, got, handle, hpc, disk, now>>

FlushNoFile ==
    /\ pc = "flush" /\ f = 0
    /\ Return
    /\ UNCHANGED <<requests, chan, cur, acking, got, buffer, handle, hpc, disk, now>>

\* flush(true) waits for the thread of the last rotation; then the Once of the
\* request is completed, or log_writer returns.
Ack ==
    /\ pc = "wait" /\ caller = "flush" /\ hpc = "none"
    /\ app' = [app EXCEPT ![acking] = "idle"]
    /\ pc' = "drain"
    /\ UNCHANGED <<mark, sent, reopens, closed, chan, caller, cur, acking, got, buffer,
                   handle, hpc, disk, now>>

Exit ==
    /\ pc = "wait" /\ caller = "exit" /\ hpc = "none"
    /\ pc' = "done"
    /\ UNCHANGED <<requests, chan, caller, cur, acking, got, buffer, handle, hpc, disk, now>>

-----------------------------------------------------------------------------
\* A panic of the writer thread.

\* Without the hook the thread unwinds and drops the receiver.
Unwind ==
    /\ pc = "panic" /\ FALSE \in Hooks
    /\ pc' = "dead"
    /\ chan' = <<>>
    /\ UNCHANGED <<requests, caller, cur, acking, got, buffer, handle, hpc, disk, now>>

\* panic_hook_log runs on the panicking thread: it logs the panic, then calls
\* flush, both through the thread's own channel, and waits for the Once.
HookLog ==
    /\ pc = "panic" /\ TRUE \in Hooks
    /\ Len(chan) < Cap
    /\ IF sent < MaxLines
       THEN /\ \E n \in Sizes : chan' = Enqueue(LineMsg(sent + 1, n))
            /\ sent' = sent + 1
       ELSE UNCHANGED <<chan, sent>>   \* past the bound the line is not counted
    /\ pc' = "hookflush"
    /\ UNCHANGED <<app, mark, reopens, closed, caller, cur, acking, got, buffer, handle,
                   hpc, disk, now>>

HookFlush ==
    /\ pc = "hookflush"
    /\ Len(chan) < Cap
    /\ chan' = Enqueue(FlushMsg(0))
    /\ pc' = "hookwait"
    /\ UNCHANGED <<requests, caller, cur, acking, got, buffer, handle, hpc, disk, now>>

-----------------------------------------------------------------------------
\* Another program, such as logrotate, moves the log away.
ExternalMove ==
    /\ log # 0 /\ moves < MaxMoves
    /\ log' = 0
    /\ moves' = moves + 1
    /\ UNCHANGED <<requests, chan, control, buffer, handle, hpc, files, flen, born,
                   rotated, home, now>>

Tick ==
    /\ \/ now < MaxTime /\ now' = now + 1
       \/ "clock" \in Faults /\ now > 0 /\ now' = now - 1
    /\ UNCHANGED <<requests, chan, control, buffer, handle, hpc, disk>>

AppStep == SendReopen \/ DropSink \/ ExternalMove \/ Tick
             \/ \E t \in Threads : CallLog(t) \/ CallFlush(t) \/ SendLine(t)
                                     \/ SendFlush(t) \/ SendFails(t)

WriterStep == Open \/ OpenFailed \/ Stat \/ StatPanic \/ Check \/ Rename \/ RenamePanic
                \/ TakeLine \/ TakeReopen \/ TakeFlush \/ Drained \/ Timeout
                \/ Disconnected \/ AppendLine \/ Flush \/ WriteFail \/ FlushNoFile
                \/ Ack \/ Exit \/ Unwind \/ HookLog \/ HookFlush

Next == AppStep \/ WriterStep \/ HandlerDone

Spec == Init /\ [][Next]_vars

\* The writer, whose wait for a message ends with a message or the timeout,
\* and the thread of handle_old_files are scheduled; the program owes nothing.
FairSpec == Spec /\ WF_vars(WriterStep) /\ WF_vars(HandlerDone)

-----------------------------------------------------------------------------
Message == [kind : {"line", "flush", "reopen"}, id : Nat, size : Nat, by : Threads \cup {0}]

\* Types, with the bounds of the instance.
TypeOK ==
    /\ app \in [Threads -> {"idle", "line", "flush", "waiting"}]
    /\ mark \in [Threads -> 0..MaxLines]
    /\ chan \in Seq(Message) /\ Len(chan) <= Cap
    /\ sent \in 0..MaxLines /\ got \in 0..MaxLines
    /\ reopens \in 0..MaxReopens /\ moves \in 0..MaxMoves /\ now \in 0..MaxTime
    /\ closed \in BOOLEAN
    /\ pc \in {"open", "stat", "check", "rename", "recv", "drain", "append", "flush", "wait",
               "done", "panic", "hookflush", "hookwait", "dead"}
    /\ caller \in DOMAIN After
    /\ cur \in [id : 0..MaxLines, size : Nat]
    /\ acking \in Threads \cup {0}
    /\ buf \subseteq Lines /\ blen \in Nat
    /\ f \in 0..MaxFiles /\ opened \in 0..MaxFiles /\ log \in 0..MaxFiles
    /\ files \in 0..MaxFiles
    /\ size \in Nat /\ created \in -1..MaxTime
    /\ hpc \in {"none", "running"}
    /\ flen \in [Inode -> Nat] /\ born \in [Inode -> 0..MaxTime]
    /\ rotated \subseteq Inode
    /\ home \in [Lines -> -1..MaxFiles]

\* A line has left memory: written, or dropped by a write that failed.
Out(i) == home[i] # 0

\* flush() keeps its word: when it returns, every line sent before the request
\* has left memory, provided the sink has a file, and no thread works on the
\* archive.
FlushedOnReturn == [][\A t \in Threads :
    app[t] = "waiting" /\ app'[t] # "waiting" =>
        /\ f # 0 => \A i \in 1..mark[t] : Out(i)
        /\ hpc = "none"]_vars

\* Every line sent is in exactly one place: the channel, the writer's hand, its
\* buffer, or out of memory.
InChan(i) == \E k \in 1..Len(chan) : chan[k].kind = "line" /\ chan[k].id = i
Places(i) == {p \in {"chan", "hand", "buf", "out"} :
                \/ p = "chan" /\ InChan(i)
                \/ p = "hand" /\ cur.id = i
                \/ p = "buf" /\ i \in buf
                \/ p = "out" /\ Out(i)}
Conservation == pc # "dead" => \A i \in 1..sent : Cardinality(Places(i)) = 1

\* Files hold the lines in the order of the channel: a later line is never in
\* an older file.
InOrder == \A i, j \in Lines : i < j /\ home[i] > 0 /\ home[j] > 0 => home[i] <= home[j]

Longest == CHOOSE n \in Sizes : \A m \in Sizes : m <= n
Larger(m, n) == IF m > n THEN m ELSE n

\* Rotation by size: an archived file is over the limit by less than one flush.
ArchivedLength == \A i \in rotated : /\ flen[i] > SizeLimit
                                    /\ flen[i] <= SizeLimit + Larger(FlushSize, Longest)

\* Nothing is written to a file once it is archived, where the thread of
\* handle_old_files may be compressing it.
ArchiveFrozen == [][\A i \in rotated : flen'[i] = flen[i]]_vars

\* The sink as the threads of the program see it.
Stream == INSTANCE LogStream WITH
    accepted <- sent, out <- {i \in Lines : Out(i)},
    request <- [t \in Threads |-> IF app[t] = "waiting" THEN mark[t] ELSE -1]

\* With a file it can open and no panic, the sink implements the abstract
\* stream, whatever rotates, reopens, times out or is dropped meanwhile.
ImplementsStream == Stream!FairSpec

\* "Rotate the file by day / hour.": a file rotated by age is older than the
\* age limit.
RotatedByAge == [][rotated' # rotated /\ RotateBy = {"age"} => now - born[log] > AgeLimit]_vars

\* "we will hookup to log error when panic, but panic will go on": a panic of
\* the writer thread unwinds it.
PanicGoesOn == (pc = "panic") ~> (pc = "dead")

\* assert!(old_path.exists()): the log is there whenever it is to be archived,
\* unless another program has moved it.
LogExists == pc = "rename" /\ moves = 0 => log # 0

=============================================================================
