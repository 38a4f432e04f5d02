---------------------------- MODULE TimeRotation ----------------------------
(***************************************************************************)
(* Archiving of a rotated log file with timestamp suffixes: LogRotate with   *)
(* its two limiters and _Backend<AppendTimestamp> of src/src/rotation.rs.    *)
(*                                                                         *)
(* The wall clock is a variable: it advances, and it may be set back (also   *)
(* what the end of daylight saving does to the local time in a name).  The   *)
(* name of an archived file is a suffix <<stamp, number>>: the period of     *)
(* time_fmt that the clock shows, and a number when that period has several  *)
(* (0: none).  The steps of compress() and the faults of file operations are *)
(* those of Rotation and are not repeated: one file is compressed at once.   *)
(***************************************************************************)
EXTENDS Integers, FiniteSets

CONSTANTS
    Upkeeps,      \* the variants of Rotation.upkeep an instance starts with
    MaxAge,       \* the duration in Upkeep::Age
    MaxFiles,     \* the number in Upkeep::Count
    Exclude,      \* the number in compress_exclude
    AgeLimit,     \* the duration of by_age.age_type
    UseLastTime,  \* by_age.use_last_time
    SizeLimited,  \* whether by_size is Some
    Unit,         \* length of one period of time_fmt
    MaxNow,       \* bound: clock
    MaxGen,       \* bound: generations of the log
    MaxBack,      \* bound: times the clock is set back
    MaxStops      \* bound: stops of the process

ASSUME UpkeepsAssumption  == Upkeeps \subseteq {"age", "count", "all"} /\ Upkeeps # {}
ASSUME DurationAssumption == /\ MaxAge \in Nat /\ MaxFiles \in Nat /\ Exclude \in Nat
                             /\ AgeLimit \in Nat /\ Unit \in Nat \ {0}
ASSUME SwitchAssumption   == UseLastTime \in BOOLEAN /\ SizeLimited \in BOOLEAN
ASSUME BoundAssumption    == /\ MaxNow \in Nat /\ MaxGen \in Nat \ {0}
                             /\ MaxBack \in Nat /\ MaxStops \in Nat

VARIABLES
    upkeep,    \* Rotation.upkeep, chosen once
    now,       \* the wall clock
    back,      \* times the clock was set back
    log,       \* the log's own name: generation, or 0 when there is no file
    mtime,     \* when the log was last written
    gen,       \* newest generation created
    created,   \* BufFileInner.create_time; -1: None
    archive,   \* the archive directory: suffix -> the file's generation, form and
               \* the clock when it was archived (for the properties)
    suffixes,  \* _Backend.suffixes
    pc,        \* the writer thread
    hpc,       \* the thread that runs handle_old_files; "none" when finished
    old,       \* handle_old_files: the suffixes found too old so far
    stops      \* stops so far

vars  == <<upkeep, now, back, log, mtime, gen, created, archive, suffixes, pc, hpc,
           old, stops>>
clock == <<now, back>>
sink  == <<log, mtime, gen, created>>
fixed == <<upkeep, stops>>

Suffix    == Int \X Nat
OnDisk    == DOMAIN archive
Newer(s, t) == s[1] > t[1] \/ (s[1] = t[1] /\ s[2] > t[2])

\* The iteration order of the set: TimestampSuffix sorts the newest first.
Position(s) == Cardinality({t \in suffixes : Newer(t, s)})
Newest      == {s \in suffixes : Position(s) = 0}

-----------------------------------------------------------------------------
\* The timestamp scheme.

\* DateFrom: Now, or one period of the limiter earlier.
Shift    == IF UseLastTime THEN AgeLimit ELSE 0
Stamp(t) == t \div Unit

NameWithoutNumber == <<Stamp(now - Shift), 0>>   \* mutant

\* AppendTimestamp::rotate_file: a number when the newest suffix of the set
\* carries the same stamp.
NewName ==
    LET stamp == Stamp(now - Shift)
        same  == {s \in Newest : s[1] = stamp}
    IN  <<stamp, IF same = {} THEN 0 ELSE 1 + (CHOOSE s \in same : TRUE)[2]>>

\* Mutant: the age is measured from the end of the period.
TooOldEarly(s) == upkeep = "age" /\ s[1] <= Stamp(now - MaxAge)

\* Mutant: the file at the limit counts as too old.
TooOldAtLimit(s) == upkeep = "count" /\ Position(s) + 1 >= MaxFiles

\* AppendTimestamp::too_old with the limit that build() derives from upkeep.
TooOld(s) ==
    CASE upkeep = "age"   -> s[1] < Stamp(now - MaxAge)
      [] upkeep = "count" -> Position(s) >= MaxFiles
      [] upkeep = "all"   -> FALSE

-----------------------------------------------------------------------------
Init ==
    /\ upkeep \in Upkeeps
    /\ now = 0 /\ back = 0
    /\ log = 0 /\ mtime = 0 /\ gen = 0 /\ created = -1
    /\ archive = <<>> /\ suffixes = {}
    /\ pc = "down" /\ hpc = "none" /\ old = {}
    /\ stops = 0

\* open_file under the log's name creates the file unless it is there.
OpenLog ==
    IF log # 0
    THEN UNCHANGED <<log, mtime, gen>>
    ELSE gen < MaxGen /\ gen' = gen + 1 /\ log' = gen + 1 /\ mtime' = now

NothingScanned == UNCHANGED suffixes   \* mutant

\* scan_suffixes lists the archive.
Scan == suffixes' = OnDisk

\* build() scans the archive; log_writer opens the log, takes its mtime for the
\* create time and asks the limiters.
Start ==
    /\ pc = "down"
    /\ Scan
    /\ OpenLog
    /\ created' = IF log # 0 THEN mtime ELSE now
    /\ pc' = "limits"
    /\ UNCHANGED <<clock, archive, hpc, old, fixed>>

\* BufFileInner::flush writes what is in the buffer, if anything.
Flush ==
    /\ pc = "idle"
    /\ mtime' \in {mtime, now}
    /\ pc' = "limits"
    /\ UNCHANGED <<clock, log, gen, created, archive, suffixes, hpc, old, fixed>>

\* LimiterAge::check; a create time in the future asks for a rotation too.
AgeReached == AgeLimit # 0 /\ (now < created \/ now - created > AgeLimit)

\* LogRotate::rotate asks both limiters.  The size of the file is not modelled:
\* LimiterSize may say anything.
Limits ==
    /\ pc = "limits"
    /\ \/ (AgeReached \/ SizeLimited) /\ pc' = "join"
       \/ ~AgeReached /\ pc' = "idle"
    /\ UNCHANGED <<clock, sink, archive, suffixes, hpc, old, fixed>>

\* rename_files, after LogRotate::wait: the log gets its name in the archive,
\* and the thread for the old files is spawned.
Archive ==
    /\ pc = "join"
    /\ hpc = "none"
    /\ NewName \notin suffixes
    /\ archive' = [s \in OnDisk \cup {NewName} |->
                      IF s = NewName THEN [gen |-> log, form |-> "plain", at |-> now]
                                     ELSE archive[s]]
    /\ suffixes' = suffixes \cup {NewName}
    /\ log' = 0
    /\ hpc' = "trim"
    /\ pc' = "reopen"
    /\ UNCHANGED <<clock, mtime, gen, created, old, fixed>>

\* The set holds the name: _move_file_with_suffix recurses to move that file
\* away, AppendTimestamp cannot rename an archived file and panics.
ArchivePanic ==
    /\ pc = "join"
    /\ hpc = "none"
    /\ NewName \in suffixes
    /\ pc' = "panicked"
    /\ UNCHANGED <<clock, sink, archive, suffixes, hpc, old, fixed>>

\* check_rotate reopens the sink; its create time stays what it was.
Reopen ==
    /\ pc = "reopen"
    /\ OpenLog
    /\ pc' = "idle"
    /\ UNCHANGED <<clock, created, archive, suffixes, hpc, old, fixed>>

-----------------------------------------------------------------------------
\* handle_old_files, on the spawned thread.

\* The suffix the retention loop looks at: the oldest it has not seen.
Oldest == {s \in suffixes \ old : \A t \in suffixes \ old : ~Newer(s, t)}

\* The loop removes the file of a suffix that is too old.
Trim ==
    /\ hpc = "trim"
    /\ upkeep # "all"
    /\ \E s \in Oldest :
        /\ TooOld(s)
        /\ old' = old \cup {s}
        /\ archive' = [t \in OnDisk \ {s} |-> archive[t]]
    /\ UNCHANGED <<clock, sink, suffixes, pc, hpc, fixed>>

LoopDone == upkeep = "all" \/ \A s \in Oldest : ~TooOld(s)

\* The loop ends at the first suffix that is young enough; split_off forgets
\* the youngest old one and all that sort after it.
TrimDone ==
    /\ hpc = "trim"
    /\ LoopDone
    /\ suffixes' = {s \in suffixes : \A t \in old : s # t /\ Newer(s, t)}
    /\ old' = {}
    /\ hpc' = "compress"
    /\ UNCHANGED <<clock, sink, archive, pc, fixed>>

ToCompress == {s \in suffixes \cap OnDisk :
                  Position(s) >= Exclude /\ archive[s].form = "plain"}

\* compress() of the oldest file that is not compressed yet.
CompressOne ==
    /\ hpc = "compress"
    /\ \E s \in ToCompress :
        /\ \A t \in ToCompress : ~Newer(s, t)
        /\ archive' = [archive EXCEPT ![s].form = "gz"]
    /\ UNCHANGED <<clock, sink, suffixes, pc, hpc, old, fixed>>

CompressDone ==
    /\ hpc = "compress"
    /\ ToCompress = {}
    /\ hpc' = "none"
    /\ UNCHANGED <<clock, sink, archive, suffixes, pc, old, fixed>>

-----------------------------------------------------------------------------
\* The environment.

Tick ==
    /\ now < MaxNow
    /\ now' = now + 1
    /\ UNCHANGED <<back, sink, archive, suffixes, pc, hpc, old, fixed>>

StepBack ==
    /\ back < MaxBack
    /\ now' \in 0..now - 1
    /\ back' = back + 1
    /\ UNCHANGED <<sink, archive, suffixes, pc, hpc, old, fixed>>

\* The process stops, in the middle of anything; only the files remain.
Stop ==
    /\ pc # "down"
    /\ stops < MaxStops
    /\ stops' = stops + 1
    /\ pc' = "down" /\ hpc' = "none" /\ old' = {}
    /\ suffixes' = {} /\ created' = -1
    /\ UNCHANGED <<upkeep, clock, log, mtime, gen, archive>>

Next == \/ Start \/ Flush \/ Limits \/ Archive \/ ArchivePanic \/ Reopen
        \/ Trim \/ TrimDone \/ CompressOne \/ CompressDone \/ Tick \/ StepBack \/ Stop

Spec == Init /\ [][Next]_vars

-----------------------------------------------------------------------------
\* Types.
TypeOK ==
    /\ upkeep \in Upkeeps
    /\ now \in Nat /\ back \in Nat /\ stops \in Nat
    /\ log \in Nat /\ mtime \in Nat /\ gen \in Nat /\ created \in Nat \cup {-1}
    /\ OnDisk \in SUBSET Suffix
    /\ archive \in [OnDisk -> [gen : Nat, form : {"plain", "gz"}, at : Nat]]
    /\ suffixes \in SUBSET Suffix /\ old \in SUBSET Suffix
    /\ pc \in {"down", "limits", "idle", "join", "reopen", "panicked"}
    /\ hpc \in {"none", "trim", "compress"}

\* A clock that only advances gives every archived file a name that sorts after
\* all earlier ones, however many files share a period and however often the
\* process stops; so at rest the set lists exactly the archive, newest first.
NamesInOrder ==
    back = 0 =>
        /\ \A s, t \in OnDisk : Newer(s, t) => archive[s].gen > archive[t].gen
        /\ pc # "down" /\ hpc = "none" => suffixes = OnDisk

\* The writer dies of a name that is taken only if the clock was set back:
\* several rotations in one period are told apart by their numbers.
CollisionNeedsStepBack == pc = "panicked" => back > 0

\* As long as the clock only advances the archive is the newest generations without
\* a gap: the retention loop removes the oldest file first, never one that
\* Upkeep::Count or Upkeep::All keeps, and leaves no file that Upkeep::Count does
\* not keep, although it goes by the names alone.
Archived == IF log = 0 THEN gen ELSE log - 1
Kept     == {archive[s].gen : s \in OnDisk}
Promised ==
    CASE upkeep = "age"   -> {}
      [] upkeep = "count" -> {g \in 1..Archived : g > Archived - MaxFiles}
      [] upkeep = "all"   -> 1..Archived
NewestKept ==
    back = 0 =>
        /\ Promised \subseteq Kept
        /\ \A g \in Kept : g..Archived \subseteq Kept
        /\ hpc = "compress" /\ upkeep = "count" => Kept = Promised

\* Upkeep::Age deletes by age alone, whatever the clock does: a file leaves the
\* archive only when it is older than the duration (less the shift that
\* use_last_time puts into its name), and once the retention loop is over no
\* file of an earlier period than now - MaxAge is left of those it knew.
Leaving       == {archive[s] : s \in {t \in OnDisk : t \notin DOMAIN archive'}}
RetentionByAge ==
    [][upkeep = "age" =>
        /\ \A f \in Leaving : now - f.at > MaxAge - Shift
        /\ hpc = "trim" /\ hpc' = "compress" =>
               \A s \in suffixes' : archive[s].at - Shift >= Unit * Stamp(now - MaxAge)]_vars

\* "Log file older than the duration will be deleted": no younger file is.
\* With use_last_time the name is one period behind the file.
OnlyOlderLeave == [][upkeep = "age" => \A f \in Leaving : now - f.at > MaxAge]_vars

\* "Move destination file out of the way if it exists": a name that is taken
\* does not stop the writer.
MovedOutOfTheWay == pc # "panicked"

=============================================================================
