----------------------------- MODULE Reconfigure -----------------------------
(***************************************************************************)
(* One configuration of the global logger replaces another while threads     *)
(* log: GlobalLogger::log, flush, reopen and open over the sinks of          *)
(* LoggerInner, reinit and build_sinks, src/src/log_impl.rs and config.rs.   *)
(*                                                                         *)
(* A version is one list of sinks.  A call takes a reference to the version  *)
(* in force (ArcSwap::load) and walks its sinks with it; a version without   *)
(* a reference is dropped, and the writer threads of its buffered sinks end  *)
(* once they have emptied their channels.  Two versions share the paths they *)
(* write to.  What happens inside a sink is in BufFile, RawFile, Rotation.   *)
(***************************************************************************)
EXTENDS Integers, Sequences, FiniteSets, SequencesExt

CONSTANTS
    Threads,      \* threads that log, flush and reopen
    Configs,      \* version -> its sinks in order, each [path, kind]
    Paths,
    Movable,      \* the paths whose file another program moves away
    MaxLines,     \* bound: records
    MaxCalls,     \* bound: flushes and reopens
    MaxEvents     \* bound: files that cannot be opened, log files moved away by
                  \* someone else, and rotations, together

ASSUME ConfigsAssumption ==
    /\ Len(Configs) \in Nat \ {0}
    /\ \A v \in 1..Len(Configs) :
        /\ Len(Configs[v]) \in Nat
        /\ \A k \in 1..Len(Configs[v]) : Configs[v][k] \in [path : Paths, kind : {"buf", "raw"}]
\* A sink is known by its version and its path here.
ASSUME PathsAssumption ==
    \A v \in 1..Len(Configs) : \A j, k \in 1..Len(Configs[v]) :
        Configs[v][j].path = Configs[v][k].path => j = k
ASSUME MovableAssumption == Movable \subseteq Paths
ASSUME BoundsAssumption == MaxLines \in Nat /\ MaxCalls \in Nat /\ MaxEvents \in Nat

VARIABLES
    cur,       \* LoggerInner.sinks: the version in force
    setup,     \* try_setup: the version it builds, the next sink, or 0
    built,     \* newest version ever built
    op,        \* thread -> its call
    opened,    \* thread -> the file its reopen has opened for a raw sink and not
               \* stored yet; 0: none
    queue,     \* version, path -> channel of a buffered sink
    buf,       \* version, path -> lines its writer has taken and not written
    writer,    \* version, path -> "none", "start", "run", "panicked", "done"
    inode,     \* version, path -> the file the sink has open; 0: none
    failed,    \* version, path of the writers whose last open failed
    path,      \* path -> the file that has this name; 0: none
    inodes,    \* path -> files created so far
    archives,  \* path -> files archived under path.1, path.2, ...
    known,     \* version, path -> length of _Backend.suffixes
    content,   \* path, file -> lines
    lines,     \* records begun
    went,      \* record -> the version that took it
    calls, events,   \* counters of the bounds
    retired,   \* path -> the files up to this one were moved away before the
               \* last reopen that Holds began
    avoid,     \* record -> retired when its call began
    alone      \* threads whose reopen has had no other of the same list beside it

sinks  == <<queue, buf, writer, inode, known, failed>>
disk   == <<path, inodes, archives, content>>
global == <<cur, setup, built, opened>>
counts == <<lines, calls, events>>
ghosts == <<went, retired, avoid, alone>>
vars   == <<global, op, sinks, disk, counts, ghosts>>

Versions == 1..Len(Configs)
Lines    == 1..MaxLines
Files    == 0..MaxEvents + 2
Idle     == [kind |-> "idle"]

SinksOf(v)   == {Configs[v][k].path : k \in 1..Len(Configs[v])}
Buffered(v)  == {Configs[v][k].path : k \in {j \in 1..Len(Configs[v]) : Configs[v][j].kind = "buf"}}
Alive(v)     == v = cur \/ v = setup.version \/ \E t \in Threads : op[t] # Idle /\ op[t].version = v

-----------------------------------------------------------------------------
\* The first version is in force and its sinks are open.
Init ==
    /\ cur = 1 /\ setup = [version |-> 0, at |-> 1] /\ built = 1
    /\ op = [t \in Threads |-> Idle] /\ opened = [t \in Threads |-> 0]
    /\ queue = [vp \in Versions \X Paths |-> <<>>]
    /\ buf = [vp \in Versions \X Paths |-> {}]
    /\ writer = [vp \in Versions \X Paths |->
                    IF vp[1] = 1 /\ vp[2] \in Buffered(1) THEN "run" ELSE "none"]
    /\ inode = [vp \in Versions \X Paths |-> IF vp[1] = 1 /\ vp[2] \in SinksOf(1) THEN 1 ELSE 0]
    /\ path = [p \in Paths |-> IF p \in SinksOf(1) THEN 1 ELSE 0]
    /\ inodes = path
    /\ archives = [p \in Paths |-> 0]
    /\ known = [vp \in Versions \X Paths |-> 0] /\ failed = {}
    /\ content = [pi \in Paths \X Files |-> {}]
    /\ lines = 0 /\ calls = 0 /\ events = 0
    /\ went = [n \in Lines |-> 0]
    /\ retired = [p \in Paths |-> 0]
    /\ avoid = [n \in Lines |-> [p \in Paths |-> 0]] /\ alone = {}

\* open_file: the file that has the name, created if need be.
Named(p) == IF path[p] # 0 THEN path[p] ELSE inodes[p] + 1
OpenFile(p) ==
    /\ path' = [path EXCEPT ![p] = Named(p)]
    /\ inodes' = [inodes EXCEPT ![p] = IF path[p] # 0 THEN @ ELSE @ + 1]

\* Mutant: a file that is open stays open.
KeepOpen(v, p) ==
    IF inode[<<v, p>>] # 0
    THEN UNCHANGED <<inode, path, inodes>>
    ELSE OpenFile(p) /\ inode' = [inode EXCEPT ![<<v, p>>] = Named(p)]

\* The sink of one owner opens its file and keeps it.
Open(v, p) == OpenFile(p) /\ inode' = [inode EXCEPT ![<<v, p>>] = Named(p)]

Event == events < MaxEvents /\ events' = events + 1

\* BufFileInner::reopen: an open that fails leaves the writer with the file it
\* had, if it had one, and nobody is told.
WriterReopens(v, p) ==
    \/ /\ Open(v, p)
       /\ failed' = failed \ {<<v, p>>}
       /\ UNCHANGED events
    \/ /\ Event
       /\ failed' = failed \cup {<<v, p>>}
       /\ UNCHANGED <<inode, path, inodes>>

\* A message for a writer; its channel is gone when the writer panicked.
Send(v, p, msg) ==
    queue' = IF writer[<<v, p>>] = "panicked" THEN queue
                                          ELSE [queue EXCEPT ![<<v, p>>] = Append(@, msg)]

-----------------------------------------------------------------------------
\* try_setup with another checksum; its lock admits one caller (GlobalLogger).

SetupStart ==
    /\ setup.version = 0 /\ built < Len(Configs)
    /\ setup' = [version |-> built + 1, at |-> 1]
    /\ built' = built + 1
    /\ UNCHANGED <<cur, op, opened, sinks, disk, counts, ghosts>>

\* build_sinks: the next sink is built and opened.  A buffered sink scans the
\* archive and spawns its writer, and open only sends it a message.  Nobody else
\* has a reference to a raw sink here: it opens its file and stores it.
BuildSink ==
    LET v == setup.version IN
    /\ v # 0 /\ setup.at <= Len(Configs[v])
    /\ LET p == Configs[v][setup.at].path IN
        IF p \in Buffered(v)
        THEN /\ writer' = [writer EXCEPT ![<<v, p>>] = "start"]
             /\ known' = [known EXCEPT ![<<v, p>>] = archives[p]]
             /\ Send(v, p, [kind |-> "reopen"])
             /\ UNCHANGED <<inode, path, inodes>>
        ELSE /\ Open(v, p)
             /\ UNCHANGED <<writer, known, queue>>
    /\ setup' = [setup EXCEPT !.at = @ + 1]
    /\ UNCHANGED <<cur, built, op, opened, buf, failed, archives, content, counts, ghosts>>

\* A sink cannot be opened: reinit fails, the new sinks are dropped.
BuildFails ==
    /\ setup.version # 0 /\ setup.at <= Len(Configs[setup.version])
    /\ Configs[setup.version][setup.at].kind = "raw"
    /\ Event
    /\ setup' = [version |-> 0, at |-> 1]
    /\ UNCHANGED <<cur, built, op, opened, sinks, disk, lines, calls, ghosts>>

\* LoggerInner::set stores the new list.
Publish ==
    /\ setup.version # 0 /\ setup.at > Len(Configs[setup.version])
    /\ cur' = setup.version
    /\ setup' = [version |-> 0, at |-> 1]
    /\ UNCHANGED <<built, op, opened, sinks, disk, counts, ghosts>>

-----------------------------------------------------------------------------
\* Calls of the logger.  Each loads the list once and keeps the reference.

\* The call that logs record n is over.
Done(n) == n <= lines /\ \A t \in Threads : op[t] = Idle \/ op[t].line # n

Reopening(t) == op[t] # Idle /\ op[t].kind = "reopen"
Call(t, kind, n) ==
    op' = [op EXCEPT ![t] =
              [kind |-> kind, version |-> cur, at |-> 1, line |-> n, waiting |-> FALSE,
               covers |-> IF kind = "flush" THEN {m \in 1..lines : Done(m)} ELSE {},
               before |-> [p \in Paths |-> IF kind # "reopen" THEN 0
                                            ELSE IF path[p] = 0 THEN inodes[p] ELSE path[p] - 1]]]

StartLog(t) ==
    /\ op[t] = Idle /\ lines < MaxLines
    /\ Call(t, "log", lines + 1)
    /\ lines' = lines + 1
    /\ went' = [went EXCEPT ![lines + 1] = cur]
    /\ avoid' = [avoid EXCEPT ![lines + 1] = retired]
    /\ UNCHANGED <<global, sinks, disk, calls, events, retired, alone>>

\* flush, reopen by the signal listener or the program; and open, which
\* try_setup calls when the checksum is the same and which every sink handles
\* as a reopen.
Reopeners == {u \in Threads : Reopening(u) /\ op[u].version = cur}
StartOther(t) ==
    /\ op[t] = Idle /\ calls < MaxCalls
    /\ \/ /\ Call(t, "flush", 0)
          /\ UNCHANGED alone
       \/ /\ Call(t, "reopen", 0)
          /\ alone' = IF Reopeners = {} THEN alone \cup {t} ELSE alone \ (Reopeners \cup {t})
    /\ calls' = calls + 1
    /\ UNCHANGED <<global, sinks, disk, lines, events, went, retired, avoid>>

\* Mutant: the list is loaded for each sink.
InForce(t)  == cur
ListOf(t)   == op[t].version

AtSink(t, kind) == /\ op[t] # Idle /\ op[t].kind = kind /\ ~op[t].waiting
                   /\ op[t].at <= Len(Configs[ListOf(t)])
Sink(t)         == Configs[ListOf(t)][op[t].at]
Advance(t)      == op' = [op EXCEPT ![t].at = @ + 1]

\* A raw sink writes the line; a buffered sink sends it.
LogSink(t) ==
    /\ AtSink(t, "log")
    /\ LET v == ListOf(t)
           p == Sink(t).path IN
        IF Sink(t).kind = "raw"
        THEN /\ content' = [content EXCEPT ![<<p, inode[<<v, p>>]>>] = @ \cup {op[t].line}]
             /\ UNCHANGED queue
        ELSE /\ Send(v, p, [kind |-> "line", line |-> op[t].line])
             /\ UNCHANGED content
    /\ Advance(t)
    /\ UNCHANGED <<global, buf, writer, inode, known, failed, path, inodes, archives, counts, ghosts>>

\* A raw sink has nothing to flush; a buffered one makes the caller wait, unless
\* its writer is gone.
FlushSink(t) ==
    /\ AtSink(t, "flush")
    /\ LET v == ListOf(t)
           p == Sink(t).path IN
        IF Sink(t).kind = "raw" \/ writer[<<v, p>>] = "panicked"
        THEN Advance(t) /\ UNCHANGED queue
        ELSE /\ Send(v, p, [kind |-> "flush", caller |-> t])
             /\ op' = [op EXCEPT ![t].waiting = TRUE]
    /\ UNCHANGED <<global, buf, writer, inode, known, failed, disk, counts, ghosts>>

\* A buffered sink sends a message; a raw sink first opens its file ...
ReopenSink(t) ==
    /\ AtSink(t, "reopen") /\ Sink(t).kind = "buf"
    /\ Send(ListOf(t), Sink(t).path, [kind |-> "reopen"])
    /\ Advance(t)
    /\ UNCHANGED <<global, buf, writer, inode, known, failed, disk, counts, ghosts>>

OpenRaw(t) ==
    /\ AtSink(t, "reopen") /\ Sink(t).kind = "raw" /\ opened[t] = 0
    /\ OpenFile(Sink(t).path)
    /\ opened' = [opened EXCEPT ![t] = Named(Sink(t).path)]
    /\ UNCHANGED <<cur, setup, built, op, sinks, archives, content, counts, ghosts>>

\* ... and then stores it; another reopen may come between.
StoreRaw(t) ==
    /\ AtSink(t, "reopen") /\ opened[t] # 0
    /\ inode' = [inode EXCEPT ![<<ListOf(t), Sink(t).path>>] = opened[t]]
    /\ opened' = [opened EXCEPT ![t] = 0]
    /\ Advance(t)
    /\ UNCHANGED <<cur, setup, built, queue, buf, writer, known, failed, disk, counts, ghosts>>

\* A sink that cannot be reopened ends the loop; the sinks after it are not.
ReopenFails(t) ==
    /\ AtSink(t, "reopen") /\ Sink(t).kind = "raw" /\ opened[t] = 0
    /\ Event
    /\ op' = [op EXCEPT ![t] = Idle]
    /\ UNCHANGED <<global, sinks, disk, lines, calls, ghosts>>

\* A reopen that returned Ok holds for a path: its list is in force, no setup is
\* under way, and it was alone or left the file to the one thread that opens it.
Holds(t, p) == /\ Reopening(t) /\ op[t].version = cur /\ setup.version = 0
               /\ t \in alone \/ p \in Buffered(cur)

\* The call returns and drops its reference.
Return(t) ==
    /\ op[t] # Idle /\ op[t].at > Len(Configs[ListOf(t)])
    /\ op' = [op EXCEPT ![t] = Idle]
    /\ retired' = [p \in Paths |-> IF Holds(t, p) /\ retired[p] < op[t].before[p]
                                   THEN op[t].before[p] ELSE retired[p]]
    /\ UNCHANGED <<global, sinks, disk, counts, went, avoid, alone>>

-----------------------------------------------------------------------------
\* The writer thread of a buffered sink.

Panics(v, p) == /\ writer' = [writer EXCEPT ![<<v, p>>] = "panicked"]
                /\ queue' = [queue EXCEPT ![<<v, p>>] = <<>>]

WriterOpens(v, p) ==
    /\ writer[<<v, p>>] = "start"
    /\ WriterReopens(v, p)
    /\ writer' = [writer EXCEPT ![<<v, p>>] = "run"]
    /\ UNCHANGED <<global, op, queue, buf, known, archives, content, lines, calls, ghosts>>

\* The first open fails, and a rotation by age wants the create_time all the same.
StartPanics(v, p) ==
    /\ writer[<<v, p>>] = "start"
    /\ Event
    /\ failed' = failed \cup {<<v, p>>}
    /\ Panics(v, p)
    /\ UNCHANGED <<global, op, buf, inode, known, disk, lines, calls, ghosts>>

Running(v, p) == writer[<<v, p>>] = "run"

\* flush: without a file the lines stay where they are.
WriteOut(v, p) ==
    IF inode[<<v, p>>] = 0
    THEN UNCHANGED <<buf, content>>
    ELSE /\ content' = [content EXCEPT ![<<p, inode[<<v, p>>]>>] = @ \cup buf[<<v, p>>]]
         /\ buf' = [buf EXCEPT ![<<v, p>>] = {}]

\* One message; a flush writes the buffer and lets its caller go.
TakeMessage(v, p) ==
    /\ Running(v, p) /\ queue[<<v, p>>] # <<>>
    /\ LET msg == Head(queue[<<v, p>>]) IN
        \/ /\ msg.kind = "line"
           /\ buf' = [buf EXCEPT ![<<v, p>>] = @ \cup {msg.line}]
           /\ UNCHANGED <<op, inode, failed, path, inodes, content, events>>
        \/ /\ msg.kind = "reopen"
           /\ WriterReopens(v, p)
           /\ UNCHANGED <<op, buf, content>>
        \/ /\ msg.kind = "flush"
           /\ WriteOut(v, p)
           /\ op' = [op EXCEPT ![msg.caller].waiting = FALSE, ![msg.caller].at = @ + 1]
           /\ UNCHANGED <<inode, failed, path, inodes, events>>
    /\ queue' = [queue EXCEPT ![<<v, p>>] = Tail(@)]
    /\ UNCHANGED <<global, writer, known, archives, lines, calls, ghosts>>

\* The buffer is full or the flush interval is over.
FlushBuffer(v, p) ==
    /\ Running(v, p) /\ buf[<<v, p>>] # {} /\ inode[<<v, p>>] # 0
    /\ WriteOut(v, p)
    /\ UNCHANGED <<global, op, queue, writer, inode, known, failed, path, inodes, archives, counts, ghosts>>

EndsAtOnce(v, p) == ~Alive(v)   \* mutant: the channel is not emptied
ChannelOver(v, p) == ~Alive(v) /\ queue[<<v, p>>] = <<>>

\* The version is dropped and the channel empty: the writer flushes and ends.
\* What it could not write for want of a file ends with it, in its buffer.
WriterEnds(v, p) ==
    /\ Running(v, p) /\ ChannelOver(v, p)
    /\ WriteOut(v, p)
    /\ writer' = [writer EXCEPT ![<<v, p>>] = "done"]
    /\ UNCHANGED <<global, op, queue, inode, known, failed, path, inodes, archives, counts, ghosts>>

\* check_rotate after a flush, with numbers and no deletion: path.N moves to
\* path.N+1, ..., the log to path.1, for the N this backend knows.  The new log
\* may fail to open; the writer then goes on with the archived file.
FlushedAll(v, p) == Running(v, p) /\ buf[<<v, p>>] = {} /\ inode[<<v, p>>] # 0
CanRotate(v, p)  == path[p] # 0 /\ archives[p] = known[<<v, p>>]
Rotate(v, p) ==
    /\ FlushedAll(v, p) /\ CanRotate(v, p)
    /\ Event
    /\ archives' = [archives EXCEPT ![p] = @ + 1]
    /\ known' = [known EXCEPT ![<<v, p>>] = @ + 1]
    /\ \/ /\ inodes' = [inodes EXCEPT ![p] = @ + 1]
          /\ path' = [path EXCEPT ![p] = inodes[p] + 1]
          /\ inode' = [inode EXCEPT ![<<v, p>>] = inodes[p] + 1]
          /\ failed' = failed \ {<<v, p>>}
       \/ /\ path' = [path EXCEPT ![p] = 0]
          /\ failed' = failed \cup {<<v, p>>}
          /\ UNCHANGED <<inode, inodes>>
    /\ UNCHANGED <<global, op, queue, buf, writer, content, lines, calls, ghosts>>

\* An assertion of _move_file_with_suffix fails: the log is not there, or
\* path.N+1 is, since another backend has rotated this log.
RotatePanics(v, p) ==
    /\ FlushedAll(v, p) /\ ~CanRotate(v, p)
    /\ Panics(v, p)
    /\ UNCHANGED <<global, op, buf, inode, known, failed, disk, counts, ghosts>>

\* Another program moves a log away.
Move ==
    /\ Event
    /\ \E p \in Movable : path[p] # 0 /\ path' = [path EXCEPT ![p] = 0]
    /\ UNCHANGED <<global, op, sinks, inodes, archives, content, lines, calls, ghosts>>

Caller(t)    == LogSink(t) \/ FlushSink(t) \/ ReopenSink(t) \/ OpenRaw(t) \/ StoreRaw(t) \/ Return(t)
Writer(v, p) == WriterOpens(v, p) \/ TakeMessage(v, p) \/ FlushBuffer(v, p) \/ WriterEnds(v, p)
Setup        == BuildSink \/ Publish

Next == \/ \E t \in Threads : StartLog(t) \/ StartOther(t) \/ ReopenFails(t) \/ Caller(t)
        \/ \E v \in Versions, p \in Paths :
            \/ Writer(v, p) \/ StartPanics(v, p) \/ Rotate(v, p) \/ RotatePanics(v, p)
        \/ SetupStart \/ BuildFails \/ Setup \/ Move

Spec == Init /\ [][Next]_vars

\* A writer thread is scheduled, and wakes up at its flush interval.
FairSpec == Spec /\ \A v \in Versions : \A p \in Buffered(v) : WF_vars(Writer(v, p))

-----------------------------------------------------------------------------
\* Types.
Messages == [kind : {"reopen"}] \cup [kind : {"line"}, line : Lines]
              \cup [kind : {"flush"}, caller : Threads]
Ops == [kind : {"log", "flush", "reopen"}, version : Versions, at : Nat \ {0},
        line : Lines \cup {0}, waiting : BOOLEAN,
        covers : SUBSET Lines, before : [Paths -> Nat]]

TypeOK ==
    /\ cur \in Versions /\ built \in Versions
    /\ setup \in [version : Versions \cup {0}, at : Nat \ {0}]
    /\ op \in [Threads -> Ops \cup {Idle}]
    /\ opened \in [Threads -> Files] /\ alone \subseteq Threads
    /\ queue \in [Versions \X Paths -> Seq(Messages)]
    /\ buf \in [Versions \X Paths -> SUBSET Lines]
    /\ writer \in [Versions \X Paths -> {"none", "start", "run", "panicked", "done"}]
    /\ inode \in [Versions \X Paths -> Files] /\ known \in [Versions \X Paths -> Nat]
    /\ failed \subseteq Versions \X Paths
    /\ path \in [Paths -> Files] /\ inodes \in [Paths -> Files] /\ archives \in [Paths -> Nat]
    /\ content \in [Paths \X Files -> SUBSET Lines]
    /\ lines \in 0..MaxLines /\ calls \in 0..MaxCalls /\ events \in 0..MaxEvents
    /\ went \in [Lines -> Versions \cup {0}]
    /\ retired \in [Paths -> Nat] /\ avoid \in [Lines -> [Paths -> Nat]]

InChannel(n, v, p) == \E k \in 1..Len(queue[<<v, p>>]) :
                        queue[<<v, p>>][k].kind = "line" /\ queue[<<v, p>>][k].line = n
Copies(n, p) == Cardinality({v \in Versions : InChannel(n, v, p)})
                + Cardinality({v \in Versions : n \in buf[<<v, p>>]})
                + Cardinality({i \in Files : n \in content[<<p, i>>]})
Written(n, p) == \E i \in Files : n \in content[<<p, i>>]

\* A record whose call is over has gone once to every sink of one version, the
\* one it began with, and to no other: no swap of the list, no drop of a version
\* and no file that cannot be opened loses it or doubles it.  (A writer that
\* panicked loses its own, and one that ends without a file keeps its own.)
OneConfiguration ==
    \A n \in Lines : Done(n) =>
        \A p \in Paths :
            \/ writer[<<went[n], p>>] = "panicked"
            \/ Copies(n, p) = IF p \in SinksOf(went[n]) THEN 1 ELSE 0

\* A record that a buffered sink of a version has taken gets written although the version is
\* replaced and dropped meanwhile, unless its writer panicked or never got a file to write to.
LinesSurviveSwap ==
    \A n \in Lines : Done(n) ~>
        \A v \in Versions : \A p \in Buffered(v) : went[n] = v =>
            \/ Written(n, p)
            \/ writer[<<v, p>>] = "panicked"
            \/ <<v, p>> \in failed /\ inode[<<v, p>>] = 0

\* After a reopen that returned Ok, with the list it loaded still in force and no setup under
\* way, no later record is written to a file that was moved away before the reopen began, also
\* when the configuration changes afterwards.  A raw sink owes this to a reopen with no other
\* beside it, since two may store what they opened in the other order; a buffered sink owes it
\* whatever other reopens there are, but not while its writer could not open the file again,
\* which the reopen does not report.
ReopenFollows ==
    [][\A n \in Lines, p \in Paths, i \in Files :
        n \in content'[<<p, i>>] \ content[<<p, i>>] =>
            i > avoid[n][p] \/ <<went[n], p>> \in failed]_vars

\* When a flush has returned, every record logged before it began is written.
FlushCoversAll ==
    [][\A t \in Threads : op[t] # Idle /\ op[t].kind = "flush" /\ op'[t] = Idle =>
        \A n \in op[t].covers, p \in Paths : p \in SinksOf(went[n]) => Written(n, p)]_vars

\* "Assumption: Any collision in file name is due to an old log file": two
\* versions that rotate one log do not meet.
NoWriterPanics == \A v \in Versions, p \in Paths : writer[<<v, p>>] # "panicked"

=============================================================================
