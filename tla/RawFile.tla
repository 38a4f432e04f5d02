------------------------------ MODULE RawFile ------------------------------
(***************************************************************************)
(* The unbuffered file sink, src/src/file_impl.rs.  Threads write their     *)
(* lines themselves, through a file handle that a reopen may replace at any *)
(* moment: reference counts (ArcSwapOption) keep a handle open while a line *)
(* is written through it.  Another program, such as logrotate, moves the    *)
(* log away and asks for the reopen.                                        *)
(*                                                                         *)
(* A file is an inode number, in the order of creation; a handle is the     *)
(* result of one open_file.                                                 *)
(***************************************************************************)
EXTENDS Integers, FiniteSets

CONSTANTS
    Threads,      \* threads that log
    Reopeners,    \* callers of reopen: the signal listener, the program
    Faults,       \* what may go wrong: "open", "write", "partial"
    MaxLines,     \* bound: lines
    MaxHandles,   \* bound: calls of open_file
    MaxMoves      \* bound: times the log is moved away

ASSUME CallersAssumption == IsFiniteSet(Threads) /\ IsFiniteSet(Reopeners)
ASSUME FaultsAssumption == Faults \subseteq {"open", "write", "partial"}
ASSUME BoundsAssumption == MaxLines \in Nat /\ MaxHandles \in Nat \ {0} /\ MaxMoves \in Nat

VARIABLES
    app,       \* thread -> what it is doing
    line,      \* thread -> the line it logs
    held,      \* thread -> the handle it has loaded
    since,     \* thread -> fresh when its call began
    lines,     \* lines begun so far
    failed,    \* lines cut short by a write error
    ro,        \* caller of reopen -> what it is doing
    got,       \* caller of reopen -> the handle it has opened
    f,         \* LogSinkFile.f
    handles,   \* handles opened so far
    file,      \* handle -> file
    count,     \* handle -> references; 0: closed
    log,       \* the file under the log's name; 0: none
    files,     \* files created so far
    content,   \* file -> line -> pieces of the line it holds
    fresh,     \* the file of the last reopen that returned as the only one under way
    moves      \* times the log was moved away

threads   == <<app, line, held, since, lines, failed>>
reopening == <<ro, got>>
refs      == <<f, handles, file, count>>
disk      == <<log, files, content, moves>>
vars      == <<threads, reopening, refs, disk, fresh>>

Lines  == 1..MaxLines
Handle == 1..MaxHandles
Inode  == 1..MaxMoves + 1

Pieces == 2   \* a write that stops early stops once

\* build_sinks publishes the sink after its open succeeded.
Init ==
    /\ app = [t \in Threads |-> "idle"] /\ line = [t \in Threads |-> 0]
    /\ held = [t \in Threads |-> 0] /\ since = [t \in Threads |-> 0]
    /\ lines = 0 /\ failed = {}
    /\ ro = [r \in Reopeners |-> "idle"] /\ got = [r \in Reopeners |-> 0]
    /\ f = 1 /\ handles = 1
    /\ file = [h \in Handle |-> IF h = 1 THEN 1 ELSE 0]
    /\ count = [h \in Handle |-> IF h = 1 THEN 1 ELSE 0]
    /\ log = 1 /\ files = 1 /\ moves = 0
    /\ content = [i \in Inode |-> [n \in Lines |-> 0]]
    /\ fresh = 1

-----------------------------------------------------------------------------
\* LogSinkFile::log, for a record the level lets through.
CallLog(t) ==
    /\ app[t] = "idle" /\ lines < MaxLines
    /\ app' = [app EXCEPT ![t] = "load"]
    /\ lines' = lines + 1
    /\ line' = [line EXCEPT ![t] = lines + 1]
    /\ since' = [since EXCEPT ![t] = fresh]
    /\ UNCHANGED <<held, failed, reopening, refs, disk, fresh>>

\* Mutant: the descriptor without the reference.
LoadRaw(t) ==
    /\ app[t] = "load"
    /\ held' = [held EXCEPT ![t] = f]
    /\ app' = [app EXCEPT ![t] = "write"]
    /\ UNCHANGED <<line, since, lines, failed, reopening, refs, disk, fresh>>

\* load_full: a reference of its own.
Load(t) ==
    /\ app[t] = "load"
    /\ held' = [held EXCEPT ![t] = f]
    /\ count' = [count EXCEPT ![f] = @ + 1]
    /\ app' = [app EXCEPT ![t] = "write"]
    /\ UNCHANGED <<line, since, lines, failed, reopening, f, handles, file, disk, fresh>>

Written(t) == content[file[held[t]]][line[t]]

\* The call ends: its reference is dropped, which closes the last of a handle.
Done(t) ==
    /\ app' = [app EXCEPT ![t] = "idle"]
    /\ held' = [held EXCEPT ![t] = 0]
    /\ count' = [count EXCEPT ![held[t]] = IF @ > 0 THEN @ - 1 ELSE 0]
    /\ UNCHANGED <<line, since, lines, f, handles, file>>

\* libc::write takes all that is left.
Write(t) ==
    /\ app[t] = "write"
    /\ content' = [content EXCEPT ![file[held[t]]][line[t]] = Pieces]
    /\ Done(t)
    /\ UNCHANGED <<failed, reopening, log, files, moves, fresh>>

\* Mutant: a short write ends the call.
ShortWriteEnds(t) ==
    /\ app[t] = "write" /\ "partial" \in Faults /\ Written(t) = 0
    /\ content' = [content EXCEPT ![file[held[t]]][line[t]] = 1]
    /\ Done(t)
    /\ UNCHANGED <<failed, reopening, log, files, moves, fresh>>

\* libc::write takes a part: the loop goes on with the rest.
WritePartial(t) ==
    /\ app[t] = "write" /\ "partial" \in Faults /\ Written(t) = 0
    /\ content' = [content EXCEPT ![file[held[t]]][line[t]] = 1]
    /\ UNCHANGED <<threads, reopening, refs, log, files, moves, fresh>>

\* A write error is ignored.
WriteFail(t) ==
    /\ app[t] = "write" /\ "write" \in Faults
    /\ failed' = failed \cup {line[t]}
    /\ Done(t)
    /\ UNCHANGED <<reopening, disk, fresh>>

-----------------------------------------------------------------------------
\* LogSinkFile::reopen, called by GlobalLogger::reopen and by open.
CallReopen(r) ==
    /\ ro[r] = "idle"
    /\ ro' = [ro EXCEPT ![r] = "open"]
    /\ UNCHANGED <<threads, got, refs, disk, fresh>>

\* open_file creates the file if need be.
Open(r) ==
    /\ ro[r] = "open" /\ handles < MaxHandles
    /\ IF log # 0 THEN UNCHANGED <<log, files>>
                  ELSE log' = files + 1 /\ files' = files + 1
    /\ handles' = handles + 1
    /\ file' = [file EXCEPT ![handles + 1] = log']
    /\ count' = [count EXCEPT ![handles + 1] = 1]
    /\ got' = [got EXCEPT ![r] = handles + 1]
    /\ ro' = [ro EXCEPT ![r] = "store"]
    /\ UNCHANGED <<threads, f, content, moves, fresh>>

OpenFail(r) ==
    /\ ro[r] = "open" /\ "open" \in Faults
    /\ ro' = [ro EXCEPT ![r] = "idle"]
    /\ UNCHANGED <<threads, got, refs, disk, fresh>>

Returned(r) ==
    /\ ro' = [ro EXCEPT ![r] = "idle"]
    /\ got' = [got EXCEPT ![r] = 0]
    /\ fresh' = IF \A q \in Reopeners \ {r} : ro[q] = "idle" THEN file[got[r]] ELSE fresh

\* Mutant: the old handle is kept when it still works.
StoreIfClosed(r) ==
    /\ ro[r] = "store"
    /\ count' = [count EXCEPT ![got[r]] = 0]
    /\ Returned(r)
    /\ UNCHANGED <<threads, f, handles, file, disk>>

\* self.f.store: the swap drops the reference of the old handle; reopen returns.
Store(r) ==
    /\ ro[r] = "store"
    /\ f' = got[r]
    /\ count' = [count EXCEPT ![f] = @ - 1]
    /\ Returned(r)
    /\ UNCHANGED <<threads, handles, file, disk>>

\* Another program moves the log away.
Move ==
    /\ log # 0 /\ moves < MaxMoves
    /\ log' = 0
    /\ moves' = moves + 1
    /\ UNCHANGED <<threads, reopening, refs, files, content, fresh>>

Next == \/ \E t \in Threads : CallLog(t) \/ Load(t) \/ Write(t) \/ WritePartial(t) \/ WriteFail(t)
        \/ \E r \in Reopeners : CallReopen(r) \/ Open(r) \/ OpenFail(r) \/ Store(r)
        \/ Move

Spec == Init /\ [][Next]_vars

-----------------------------------------------------------------------------
\* Types, with the bounds of the instance.
TypeOK ==
    /\ app \in [Threads -> {"idle", "load", "write"}]
    /\ line \in [Threads -> 0..MaxLines] /\ held \in [Threads -> 0..MaxHandles]
    /\ since \in [Threads -> 0..MaxMoves + 1]
    /\ lines \in 0..MaxLines /\ failed \subseteq Lines
    /\ ro \in [Reopeners -> {"idle", "open", "store"}]
    /\ got \in [Reopeners -> 0..MaxHandles]
    /\ f \in Handle /\ handles \in Handle
    /\ file \in [Handle -> 0..MaxMoves + 1] /\ count \in [Handle -> Nat]
    /\ log \in 0..MaxMoves + 1 /\ files \in Inode /\ fresh \in Inode /\ moves \in 0..MaxMoves
    /\ content \in [Inode -> [Lines -> 0..Pieces]]

\* "ArcSwap ensure file fd is not close during reopen", and none is kept for good: the
\* open handles are the current one, those a line is being written through, and those
\* a reopen is about to store.
OpenWhileUsed ==
    {h \in Handle : count[h] > 0} =
        {f} \cup {held[t] : t \in {u \in Threads : app[u] = "write"}}
            \cup {got[r] : r \in {q \in Reopeners : ro[q] = "store"}}

\* Every line whose call is over is in one file, all of it, unless a write
\* failed; a reopen in the middle of a short write does not split it.
Delivered ==
    \A n \in 1..lines :
        n \notin failed /\ (\A t \in Threads : app[t] = "idle" \/ line[t] # n)
            => \E i \in Inode : \A j \in Inode : content[j][n] = IF j = i THEN Pieces ELSE 0

\* Once a reopen has returned and no other is under way, a line logged after
\* it goes to the file that reopen found under the log's name, or a newer one:
\* never to one that was moved away before.
ReopenTakesEffect ==
    \A t \in Threads : app[t] = "write" => file[held[t]] >= since[t]

\* "Reopen file. This is a signal handler, also can be called manually.": both
\* together never take the sink back to an older file.
NeverBack == [][file'[f'] >= file[f]]_f

=============================================================================
