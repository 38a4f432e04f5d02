------------------------------ MODULE Rotation ------------------------------
(***************************************************************************)
(* Archiving of a rotated log file with numeric suffixes:                   *)
(* LogRotate and _Backend<AppendCount> of src/src/rotation.rs.              *)
(*                                                                         *)
(* Two threads share the backend through an UnsafeCell.  The writer thread  *)
(* of the sink cascades file.1 -> file.2 -> ... and moves the log to        *)
(* file.1; a thread spawned after every rotation removes the files that are *)
(* too old and compresses the rest.  The process may stop between any two   *)
(* file operations and start again on the files it left.                    *)
(*                                                                         *)
(* A file is the generation of the log it holds: generation g is the g-th   *)
(* file ever created under the log's own name.  A path is a suffix and a    *)
(* form; suffix 0 is the log itself.                                        *)
(***************************************************************************)
EXTENDS Integers, FiniteSets

CONSTANTS
    UpkeepKind,   \* "count", "all" or "age": the variant of Rotation.upkeep
    MaxFiles,     \* the number in Upkeep::Count
    Compress,     \* whether compress_exclude is Some
    Exclude,      \* the number in compress_exclude
    Faults,       \* the faults that may occur, by the place they hit
    MaxGen,       \* bound: generations of the log
    MaxSuffix,    \* bound: archive numbers
    MaxFaults     \* bound: faults

\* A file operation that fails, a stop of the process, and a file of the
\* archive deleted by someone else.
FaultKinds == {"rename", "remove", "open", "copy", "unlink", "finish", "crash", "delete"}

ASSUME UpkeepAssumption   == UpkeepKind \in {"count", "all", "age"}
ASSUME MaxFilesAssumption == MaxFiles \in Nat
ASSUME CompressAssumption == Compress \in BOOLEAN /\ Exclude \in Nat
ASSUME FaultsAssumption   == Faults \subseteq FaultKinds
ASSUME BoundsAssumption   == /\ MaxGen \in Nat \ {0}
                             /\ MaxSuffix \in Nat \ {0}
                             /\ MaxFaults \in Nat

VARIABLES
    disk,      \* path -> generation; 0: no file; -g: a truncated copy of g
    gen,       \* newest generation created
    suffixes,  \* _Backend.suffixes: archive number -> form, or "none"
    pc,        \* the writer thread
    at,        \* the cascade: suffix whose file is renamed next
    end,       \* the cascade: first free suffix
    carried,   \* the cascade: form of the file that goes to end
    th,        \* LogRotate.th holds a handle
    hpc,       \* the thread that runs handle_old_files; "none" when finished
    hpos,      \* the youngest suffix found too old so far
    hcur,      \* the suffix being compressed
    faults     \* faults so far

vars    == <<disk, gen, suffixes, pc, at, end, carried, th, hpc, hpos, hcur, faults>>
cascade == <<at, end, carried>>
handler == <<hpc, hpos, hcur>>

Numbers == 1..MaxSuffix
Forms   == {"plain", "gz"}
Path    == (0..MaxSuffix) \X Forms
Log     == <<0, "plain">>

Panicked == {"nosource", "collision", "dead"}

-----------------------------------------------------------------------------
\* What a path holds.

OnDisk(p)   == disk[p] # 0
Archived(s) == {f \in Forms : OnDisk(<<s, f>>)}
Readable(g) == \E p \in Path : p # Log /\ disk[p] = g

\* A fault happens here, while the bound allows one.
Fault(kind) == kind \in Faults /\ faults < MaxFaults /\ faults' = faults + 1

Known    == {s \in Numbers : suffixes[s] # "none"}
\* Position of a suffix in the iteration order of the set, newest first.
Rank(s)  == Cardinality({t \in Known : t < s})
FileOf(s) == <<s, suffixes[s]>>

\* AppendCount::too_old.  build() gives the scheme the limit 0 for Upkeep::Age.
Limit     == IF UpkeepKind = "count" THEN MaxFiles ELSE 0
TooOldByOne(s) == Rank(s) > Limit        \* mutant: one file too many
TooOldEarly(s) == Rank(s) + 1 >= Limit   \* mutant: one file too few
TooOld(s) == Rank(s) >= Limit

-----------------------------------------------------------------------------
Init ==
    /\ disk = [p \in Path |-> 0]
    /\ gen = 0
    /\ suffixes = [s \in Numbers |-> "none"]
    /\ pc = "start"
    /\ at = 0 /\ end = 0 /\ carried = "plain"
    /\ th = FALSE
    /\ hpc = "none" /\ hpos = 0 /\ hcur = 0
    /\ faults = 0

\* Mutant: truncates a log that is there instead of appending to it.
OpenLogTruncating ==
    /\ gen' = gen + 1
    /\ disk' = [disk EXCEPT ![Log] = gen + 1]

\* open_file under the log's name: creates the file unless it is there.
OpenLog ==
    IF OnDisk(Log)
    THEN UNCHANGED <<disk, gen>>
    ELSE /\ gen' = gen + 1
         /\ disk' = [disk EXCEPT ![Log] = gen + 1]

\* _Backend::new and the first reopen.  When a suffix is on disk in both forms
\* the set keeps the one the directory lists first.
Start ==
    /\ pc = "start"
    /\ suffixes' \in [Numbers -> Forms \cup {"none"}]
    /\ \A s \in Numbers : IF Archived(s) = {} THEN suffixes'[s] = "none"
                                              ELSE suffixes'[s] \in Archived(s)
    /\ OpenLog
    /\ pc' = "idle"
    /\ UNCHANGED <<cascade, th, handler, faults>>

\* LogRotate::rotate once a limiter has asked for it.
Rotate ==
    /\ pc = "idle"
    /\ gen < MaxGen
    /\ pc' = "join"
    /\ UNCHANGED <<disk, gen, suffixes, cascade, th, handler, faults>>

\* BufFileInner::flush(true) calls LogRotate::wait.
FlushWait ==
    /\ pc = "idle"
    /\ pc' = "wait"
    /\ UNCHANGED <<disk, gen, suffixes, cascade, th, handler, faults>>

NotJoined == TRUE   \* mutant: the thread is not waited for

\* LogRotate::wait returns: no handle, or its thread has finished.
Joined == th => hpc = "none"

FlushWaitDone ==
    /\ pc = "wait"
    /\ Joined
    /\ th' = FALSE
    /\ pc' = "idle"
    /\ UNCHANGED <<disk, gen, suffixes, cascade, handler, faults>>

\* The first number that the set does not hold.
FirstFree == {k \in Numbers : suffixes[k] = "none" /\ \A j \in 1..k - 1 : suffixes[j] # "none"}

\* The form of the file that is about to arrive at a suffix.
Arriving(s) == IF s = 1 THEN "plain" ELSE suffixes[s - 1]

\* The way down of _move_file_with_suffix: every occupied number up to the
\* first free one takes over the form of the file that is about to arrive.
Descend ==
    /\ pc = "join"
    /\ Joined
    /\ th' = FALSE
    /\ \E k \in FirstFree :
        /\ end' = k
        /\ at' = k - 1
        /\ carried' = Arriving(k)
        /\ suffixes' = [s \in Numbers |-> IF s < k THEN Arriving(s) ELSE suffixes[s]]
    /\ pc' = "move"
    /\ UNCHANGED <<disk, gen, handler, faults>>

\* The form the file leaving suffix at keeps.
MovedForm == IF at + 1 = end THEN carried ELSE suffixes[at + 1]
Source    == IF at = 0 THEN Log ELSE <<at, MovedForm>>
Target    == <<at + 1, MovedForm>>

\* The way up: rename, the oldest file first, after the two assertions.
Move ==
    /\ pc = "move"
    /\ OnDisk(Source)
    /\ ~OnDisk(Target)
    /\ disk' = [disk EXCEPT ![Target] = disk[Source], ![Source] = 0]
    /\ IF at = 0 THEN pc' = "insert" /\ UNCHANGED at
                 ELSE pc' = "move" /\ at' = at - 1
    /\ UNCHANGED <<gen, suffixes, end, carried, th, handler, faults>>

\* A failed assertion, or a rename that fails under expect("move files"),
\* ends the writer thread.
MovePanic ==
    /\ pc = "move"
    /\ \/ ~OnDisk(Source) /\ pc' = "nosource" /\ UNCHANGED faults
       \/ OnDisk(Source) /\ OnDisk(Target) /\ pc' = "collision" /\ UNCHANGED faults
       \/ Fault("rename") /\ pc' = "dead"
    /\ UNCHANGED <<disk, gen, suffixes, cascade, th, handler>>

\* rename_files inserts the last suffix; rotate spawns handle_old_files and
\* stores the handle.
Spawn ==
    /\ pc = "insert"
    /\ suffixes' = [suffixes EXCEPT ![end] = carried]
    /\ th' = TRUE
    /\ hpc' = "trim"
    /\ hpos' = MaxSuffix + 1
    /\ pc' = "reopen"
    /\ UNCHANGED <<disk, gen, cascade, hcur, faults>>

\* check_rotate reopens the sink after a rotation.
Reopen ==
    /\ pc = "reopen"
    /\ OpenLog
    /\ pc' = "idle"
    /\ UNCHANGED <<suffixes, cascade, th, handler, faults>>

-----------------------------------------------------------------------------
\* handle_old_files, on the spawned thread.

\* Mutant: the loop does not advance.
OldestAgain == {s \in Known : \A t \in Known : t <= s}

\* The next suffix of the retention loop, which goes from the oldest to the
\* youngest; Upkeep::All has no such loop.
Older == {s \in Known : s < hpos /\ UpkeepKind # "all" /\ \A t \in Known : t > s => t >= hpos}

\* One suffix of the retention loop, from the oldest: its file is removed, or
\* the error is kept and the loop goes on.
Trim ==
    /\ hpc = "trim"
    /\ \E s \in Older :
        /\ TooOld(s)
        /\ hpos' = s
        /\ \/ disk' = [disk EXCEPT ![FileOf(s)] = 0] /\ UNCHANGED faults
           \/ Fault("remove") /\ UNCHANGED disk
    /\ UNCHANGED <<gen, suffixes, pc, cascade, th, hpc, hcur>>

\* What split_off takes out of the set: the youngest old suffix and all older.
DroppedButOne == {s \in Numbers : s > hpos}   \* mutant: the youngest stays
Dropped       == {s \in Numbers : s >= hpos}

\* The loop meets a file that is young enough: the set forgets what was removed.
TrimDone ==
    /\ hpc = "trim"
    /\ \A s \in Older : ~TooOld(s)
    /\ suffixes' = [s \in Numbers |-> IF s \in Dropped THEN "none" ELSE suffixes[s]]
    /\ hpc' = "compress"
    /\ UNCHANGED <<disk, gen, pc, cascade, th, hpos, hcur, faults>>

\* The files the compression loop still has to do, the oldest first.
ToCompress == {s \in Known : Compress /\ Rank(s) >= Exclude /\ suffixes[s] = "plain"}

NewestFirst    == {s \in ToCompress : \A t \in ToCompress : s <= t}   \* mutant
NextToCompress == {s \in ToCompress : \A t \in ToCompress : t <= s}

\* compress() opens the source and creates or truncates file.N.gz.
CompressOpen ==
    /\ hpc = "compress"
    /\ \E s \in NextToCompress :
        /\ hcur' = s
        /\ \/ /\ OnDisk(FileOf(s))
              /\ disk' = [disk EXCEPT ![<<s, "gz">>] = - disk[FileOf(s)]]
              /\ hpc' = "copy"
              /\ UNCHANGED faults
           \/ /\ ~OnDisk(FileOf(s))
              /\ hpc' = "none"
              /\ UNCHANGED <<disk, faults>>
           \/ /\ Fault("open")
              /\ hpc' = "none"
              /\ UNCHANGED disk
    /\ UNCHANGED <<gen, suffixes, pc, cascade, th, hpos>>

\* io::copy into the encoder, which still holds the end of the stream.
CompressCopy ==
    /\ hpc = "copy"
    /\ \/ hpc' = "unlink" /\ UNCHANGED faults
       \/ Fault("copy") /\ hpc' = "none"
    /\ UNCHANGED <<disk, gen, suffixes, pc, cascade, th, hpos, hcur>>

Finished(s, d) == [d EXCEPT ![<<s, "gz">>] = - d[<<s, "gz">>]]

\* fs::remove_file of the source.  When it fails compress() returns, and the
\* encoder is finished as it is dropped.
CompressUnlink ==
    /\ hpc = "unlink"
    /\ \/ /\ OnDisk(<<hcur, "plain">>)
          /\ disk' = [disk EXCEPT ![<<hcur, "plain">>] = 0]
          /\ hpc' = "finish"
          /\ UNCHANGED faults
       \/ /\ hpc' = "none"
          /\ disk' = Finished(hcur, disk)
          /\ \/ ~OnDisk(<<hcur, "plain">>) /\ UNCHANGED faults
             \/ Fault("unlink")
    /\ UNCHANGED <<gen, suffixes, pc, cascade, th, hpos, hcur>>

\* compress() returns: the encoder is dropped, which writes the end of the
\* stream and ignores an error; then suffixes.replace.
CompressFinish ==
    /\ hpc = "finish"
    /\ \/ disk' = Finished(hcur, disk) /\ UNCHANGED faults
       \/ Fault("finish") /\ UNCHANGED disk
    /\ suffixes' = [suffixes EXCEPT ![hcur] = "gz"]
    /\ hpc' = "compress"
    /\ UNCHANGED <<gen, pc, cascade, th, hpos, hcur>>

CompressDone ==
    /\ hpc = "compress"
    /\ ToCompress = {}
    /\ hpc' = "none"
    /\ UNCHANGED <<disk, gen, suffixes, pc, cascade, th, hpos, hcur, faults>>

-----------------------------------------------------------------------------
\* The process stops, in the middle of anything: only the files remain.
Crash ==
    /\ pc # "start"
    /\ Fault("crash")
    /\ suffixes' = [s \in Numbers |-> "none"]
    /\ pc' = "start"
    /\ at' = 0 /\ end' = 0 /\ carried' = "plain"
    /\ th' = FALSE
    /\ hpc' = "none" /\ hpos' = 0 /\ hcur' = 0
    /\ UNCHANGED <<disk, gen>>

\* Someone else removes a file of the archive while the program runs: one
\* the set knows, not the copy compress() is writing.
ExternalDelete ==
    /\ Fault("delete")
    /\ \E s \in Known :
        /\ OnDisk(FileOf(s))
        /\ disk' = [disk EXCEPT ![FileOf(s)] = 0]
    /\ UNCHANGED <<gen, suffixes, pc, cascade, th, handler>>

WriterStep  == Start \/ FlushWaitDone \/ Descend \/ Move \/ MovePanic \/ Spawn \/ Reopen
HandlerStep == Trim \/ TrimDone \/ CompressOpen \/ CompressCopy \/ CompressUnlink
                 \/ CompressFinish \/ CompressDone

Next == WriterStep \/ HandlerStep \/ Rotate \/ FlushWait \/ Crash \/ ExternalDelete

Spec == Init /\ [][Next]_vars

\* Both threads are scheduled; nothing makes the log grow or the process stop.
FairSpec == Spec /\ WF_vars(WriterStep) /\ WF_vars(HandlerStep)

-----------------------------------------------------------------------------
\* Types, with the bounds of the instance.
TypeOK ==
    /\ disk \in [Path -> -MaxGen..MaxGen]
    /\ gen \in 0..MaxGen
    /\ suffixes \in [Numbers -> Forms \cup {"none"}]
    /\ pc \in {"start", "idle", "wait", "join", "move", "insert", "reopen"} \cup Panicked
    /\ at \in 0..MaxSuffix /\ end \in 0..MaxSuffix /\ carried \in Forms
    /\ th \in BOOLEAN
    /\ hpc \in {"none", "trim", "compress", "copy", "unlink", "finish"}
    /\ hpos \in 0..MaxSuffix + 1 /\ hcur \in 0..MaxSuffix
    /\ faults \in 0..MaxFaults

\* The backend in its UnsafeCell has one user at a time: while the writer is
\* inside rename_files, from its first change of the set to the insertion of
\* the last suffix, no thread runs handle_old_files.
BackendExclusive == pc \in {"move", "insert"} => hpc = "none"

\* No two generations trade places and none is lost sight of: at rest every
\* suffix of the set names a file that is there, and a larger suffix names an
\* older generation.
AtRest == pc = "idle" /\ hpc = "none"
Gen(s) == IF disk[FileOf(s)] < 0 THEN - disk[FileOf(s)] ELSE disk[FileOf(s)]

SetMatchesDisk ==
    AtRest => \A s \in Known : /\ OnDisk(FileOf(s))
                              /\ \A t \in Known : s < t => Gen(s) > Gen(t)

\* The generation compress() holds open, also once its source file is removed.
InEncoder == IF hpc \in {"copy", "unlink", "finish"} THEN {- disk[<<hcur, "gz">>]} ELSE {}
Kept      == {g \in 1..gen : Readable(g) \/ g \in InEncoder}
\* The newest generation that is in the archive.
Newest    == IF OnDisk(Log) THEN gen - 1 ELSE gen

\* Upkeep::Count: once handle_old_files has run, exactly the newest MaxFiles
\* generations are kept, and all but the newest Exclude of them are compressed.
RetentionExact ==
    AtRest /\ faults = 0 /\ UpkeepKind = "count" =>
        /\ Kept = {g \in 1..Newest : g > Newest - MaxFiles}
        /\ \A s \in Known : Rank(s) >= Exclude /\ Compress => suffixes[s] = "gz"

\* In every state, a stop or a failed operation in between included, a
\* generation that the policy keeps can be read, but for one per fault.
Retained == CASE UpkeepKind = "count" -> MaxFiles
              [] UpkeepKind = "all"   -> MaxGen
              [] UpkeepKind = "age"   -> 0
RetainedReadable ==
    Cardinality({g \in 1..Newest : g > Newest - Retained} \ Kept) <= faults

\* The assertion before fs::rename: the cascade has cleared the way, so the
\* new path does not exist.
NoCollision == pc # "collision"

\* Upkeep::All: "Does not delete any old logs."  Every generation archived so
\* far can be read; while compress() runs, its data may be in the encoder.
AllReadable == UpkeepKind = "all" => Kept = 1..Newest

\* "archive in file.<number> form, and Upkeep::Age will be ignore": with
\* numeric suffixes no file is deleted for its age.
AgeIgnored == UpkeepKind = "age" => Kept = 1..Newest

\* The archive as its readers see it.
Promise == INSTANCE Archive WITH
    kept <- Kept, newest <- Newest, faults <- faults, Keep <- Retained

\* The files implement the abstract archive: generations are added in order, only
\* one that the policy gives up is dropped, and a fault costs at most one.
ImplementsArchive == Promise!Spec

\* A rotation or a waiting flush gets through: the wait for the thread of the
\* last rotation ends, and the cascade ends.
WriterProceeds == pc \in {"join", "wait"} ~> pc = "idle"

=============================================================================
