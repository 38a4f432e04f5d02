--------------------------- MODULE RotationProofs ---------------------------
(***************************************************************************)
(* Proofs about the archive: types, that the backend, which its two threads *)
(* share without a lock, has one user at a time, that the set in memory is  *)
(* the archive and keeps what the policy says, that a fault costs at most   *)
(* one of the generations kept, and that the files implement Archive.       *)
(***************************************************************************)
EXTENDS Rotation, FiniteSetTheorems, TLAPS

\* A thread that runs has its handle in LogRotate.th, and none runs while the
\* writer is between wait() and the next spawn.
HandleHeld ==
    /\ hpc # "none" => th
    /\ pc \in {"move", "insert"} => hpc = "none" /\ ~th

\* The cascade moves files the set knows, below the first free number.
CascadeBelowEnd ==
    /\ pc = "move" => at < end
    /\ pc \in {"move", "insert"} =>
        /\ end \in Numbers /\ carried \in Forms
        /\ \A s \in 1..end - 1 : suffixes[s] # "none"

\* A generation is left for the log whenever it has to be created.
LogToCome ==
    /\ pc \in {"join", "move", "insert", "reopen"} => gen < MaxGen
    /\ disk[Log] = 0 => gen < MaxGen

\* compress() works on an archived file.
CompressesArchived == hpc \in {"copy", "unlink", "finish"} => hcur \in Numbers

IInv == TypeOK /\ HandleHeld /\ CascadeBelowEnd /\ LogToCome /\ CompressesArchived

-----------------------------------------------------------------------------
LEMMA PathFacts ==
    /\ Log \in Path
    /\ \A s \in Numbers, g \in Forms : <<s, g>> \in Path /\ <<s, g>> # Log
BY BoundsAssumption DEF Log, Path, Numbers, Forms

\* A file operation on a path of the archive leaves the types and the log alone.
LEMMA DiskTypes ==
    ASSUME disk \in [Path -> -MaxGen..MaxGen], NEW p, NEW g \in -MaxGen..MaxGen
    PROVE  [disk EXCEPT ![p] = g] \in [Path -> -MaxGen..MaxGen]
OBVIOUS

LEMMA FaultTypes ==
    ASSUME faults \in 0..MaxFaults, NEW kind, Fault(kind)
    PROVE  faults' \in 0..MaxFaults
BY BoundsAssumption DEF Fault

LEMMA InitInv == Init => IInv
<1> SUFFICES ASSUME Init PROVE IInv
    OBVIOUS
<1> USE BoundsAssumption
<1>1. TypeOK
  <2>1. disk \in [Path -> -MaxGen..MaxGen] /\ suffixes \in [Numbers -> Forms \cup {"none"}]
    BY DEF Init
  <2>2. /\ gen \in 0..MaxGen /\ at \in 0..MaxSuffix /\ end \in 0..MaxSuffix /\ carried \in Forms
        /\ hpos \in 0..MaxSuffix + 1 /\ hcur \in 0..MaxSuffix /\ faults \in 0..MaxFaults
    BY DEF Init, Forms
  <2>3. pc = "start" /\ hpc = "none" /\ th \in BOOLEAN
    BY DEF Init
  <2> QED BY <2>1, <2>2, <2>3 DEF TypeOK
<1>2. HandleHeld /\ CascadeBelowEnd /\ LogToCome /\ CompressesArchived
    BY DEF Init, HandleHeld, CascadeBelowEnd, LogToCome, CompressesArchived
<1> QED BY <1>1, <1>2 DEF IInv

LEMMA OpenLogFacts ==
    ASSUME TypeOK, LogToCome, OpenLog
    PROVE  /\ disk' \in [Path -> -MaxGen..MaxGen] /\ gen' \in 0..MaxGen
           /\ disk'[Log] # 0
<1> USE BoundsAssumption DEF TypeOK
<1>1. CASE disk[Log] # 0
    BY <1>1 DEF OpenLog, OnDisk
<1>2. CASE disk[Log] = 0
  <2>1. gen' = gen + 1 /\ gen + 1 \in 1..MaxGen /\ disk' = [disk EXCEPT ![Log] = gen + 1]
    BY <1>2 DEF OpenLog, OnDisk, LogToCome
  <2> QED BY <2>1, PathFacts
<1> QED BY <1>1, <1>2

LEMMA StartStep == IInv /\ Start => IInv'
<1> SUFFICES ASSUME IInv, Start PROVE IInv'
    OBVIOUS
<1> USE DEF IInv, Start, cascade, handler
<1>1. disk' \in [Path -> -MaxGen..MaxGen] /\ gen' \in 0..MaxGen /\ disk'[Log] # 0
    BY OpenLogFacts
<1>2. TypeOK'
    BY <1>1 DEF TypeOK
<1>3. HandleHeld' /\ CascadeBelowEnd' /\ LogToCome' /\ CompressesArchived'
    BY <1>1 DEF HandleHeld, CascadeBelowEnd, LogToCome, CompressesArchived
<1> QED BY <1>2, <1>3

LEMMA ReopenStep == IInv /\ Reopen => IInv'
<1> SUFFICES ASSUME IInv, Reopen PROVE IInv'
    OBVIOUS
<1> USE DEF IInv, Reopen, cascade, handler
<1>1. disk' \in [Path -> -MaxGen..MaxGen] /\ gen' \in 0..MaxGen /\ disk'[Log] # 0
    BY OpenLogFacts
<1>2. TypeOK'
    BY <1>1 DEF TypeOK
<1>3. HandleHeld' /\ CascadeBelowEnd' /\ LogToCome' /\ CompressesArchived'
    BY <1>1 DEF HandleHeld, CascadeBelowEnd, LogToCome, CompressesArchived
<1> QED BY <1>2, <1>3

\* The steps that only move the writer: a request, a wait that ends, a panic.
LEMMA WriterOnlyStep == IInv /\ (Rotate \/ FlushWait \/ FlushWaitDone \/ MovePanic) => IInv'
<1> SUFFICES ASSUME IInv, Rotate \/ FlushWait \/ FlushWaitDone \/ MovePanic PROVE IInv'
    OBVIOUS
<1> USE BoundsAssumption DEF IInv, cascade, handler
<1>1. /\ UNCHANGED <<disk, gen, suffixes, at, end, carried, hpc, hpos, hcur>>
      /\ pc' \in {"join", "wait", "idle"} \cup Panicked
    BY DEF Rotate, FlushWait, FlushWaitDone, MovePanic, Panicked
<1>2. th' \in BOOLEAN /\ faults' \in 0..MaxFaults
  <2>1. th' \in BOOLEAN /\ faults \in 0..MaxFaults
    BY DEF Rotate, FlushWait, FlushWaitDone, MovePanic, TypeOK
  <2>2. faults' = faults \/ Fault("rename")
    BY DEF Rotate, FlushWait, FlushWaitDone, MovePanic
  <2> QED BY <2>1, <2>2, FaultTypes
<1>3. TypeOK'
    BY <1>1, <1>2 DEF TypeOK
<1>4. HandleHeld'
    BY <1>1 DEF Rotate, FlushWait, FlushWaitDone, MovePanic, Joined, HandleHeld, TypeOK, Panicked
<1>5. pc' = "join" => gen < MaxGen
    BY DEF Rotate, FlushWait, FlushWaitDone, MovePanic, Panicked
<1>6. CascadeBelowEnd' /\ LogToCome' /\ CompressesArchived'
    BY <1>1, <1>5 DEF CascadeBelowEnd, LogToCome, CompressesArchived, Panicked
<1> QED BY <1>3, <1>4, <1>6

LEMMA DescendStep == IInv /\ Descend => IInv'
<1> SUFFICES ASSUME IInv, Descend PROVE IInv'
    OBVIOUS
<1> USE BoundsAssumption DEF IInv, cascade, handler
<1>1. PICK k \in FirstFree : /\ end' = k
                             /\ at' = k - 1
                             /\ carried' = Arriving(k)
                             /\ suffixes' = [s \in Numbers |-> IF s < k THEN Arriving(s) ELSE suffixes[s]]
    BY DEF Descend
<1>2. /\ k \in Numbers /\ k \in Nat
      /\ \A j \in 1..k - 1 : j \in Numbers /\ suffixes[j] \in Forms
    BY DEF FirstFree, Numbers, TypeOK
<1>3. \A s \in 1..k : Arriving(s) \in Forms
  <2>1. ASSUME NEW s \in 1..k, s # 1 PROVE s - 1 \in 1..k - 1
    BY <1>2, <2>1
  <2> QED BY <1>2, <2>1 DEF Arriving, Forms
<1>4. carried' \in Forms /\ suffixes' \in [Numbers -> Forms \cup {"none"}]
  <2>1. k \in 1..k /\ \A s \in Numbers : s < k => s \in 1..k
    BY <1>2 DEF Numbers
  <2> QED BY <1>1, <1>3, <2>1 DEF TypeOK
<1>5. end' \in Numbers /\ end' \in 0..MaxSuffix /\ at' \in 0..MaxSuffix /\ at' < end'
    BY <1>1, <1>2 DEF Numbers
<1>6. \A s \in 1..end' - 1 : suffixes'[s] # "none"
  <2>1. ASSUME NEW s \in 1..end' - 1 PROVE s \in Numbers /\ s < k /\ s \in 1..k
    BY <1>1, <1>2
  <2> QED BY <1>1, <1>3, <2>1 DEF Forms
<1>7. TypeOK'
    BY <1>4, <1>5 DEF TypeOK, Descend
<1>8. HandleHeld'
    BY DEF Descend, Joined, HandleHeld, TypeOK
<1>9. CascadeBelowEnd' /\ LogToCome' /\ CompressesArchived'
    BY <1>4, <1>5, <1>6 DEF Descend, CascadeBelowEnd, LogToCome, CompressesArchived
<1> QED BY <1>7, <1>8, <1>9

LEMMA MoveStep == IInv /\ Move => IInv'
<1> SUFFICES ASSUME IInv, Move PROVE IInv'
    OBVIOUS
<1> USE BoundsAssumption DEF IInv, cascade, handler
<1>1. at \in Nat /\ at + 1 \in Numbers /\ end \in Numbers /\ MovedForm \in Forms
  <2>1. at \in Nat /\ at < end /\ end \in Numbers /\ at + 1 \in Numbers
    BY DEF Move, CascadeBelowEnd, Numbers, TypeOK
  <2>2. CASE at + 1 = end
    BY <2>1, <2>2 DEF Move, CascadeBelowEnd, MovedForm
  <2>3. CASE at + 1 # end
    <3>1. at + 1 \in 1..end - 1
      BY <2>1, <2>3 DEF Numbers
    <3> QED BY <2>1, <2>3, <3>1 DEF Move, CascadeBelowEnd, MovedForm, TypeOK
  <2> QED BY <2>1, <2>2, <2>3
<1>2. Source \in Path /\ Target \in Path /\ Target # Log /\ (Source = Log => at = 0)
  <2>1. Target \in Path /\ Target # Log
    BY <1>1, PathFacts DEF Target
  <2>2. CASE at = 0
    BY <2>1, <2>2, PathFacts DEF Source
  <2>3. CASE at # 0
    <3>1. at \in Numbers
      BY <1>1, <2>3 DEF Numbers
    <3> QED BY <1>1, <2>1, <2>3, <3>1, PathFacts DEF Source
  <2> QED BY <2>2, <2>3
<1>3. disk' \in [Path -> -MaxGen..MaxGen]
    BY <1>2 DEF Move, TypeOK
<1>4. at' \in 0..MaxSuffix /\ (pc' = "move" => at' < end) /\ pc' \in {"move", "insert"}
    BY <1>1 DEF Move, TypeOK, CascadeBelowEnd, Numbers
<1>5. TypeOK'
    BY <1>3, <1>4 DEF TypeOK, Move
<1>6. HandleHeld' /\ CascadeBelowEnd' /\ LogToCome' /\ CompressesArchived'
    BY <1>4 DEF Move, HandleHeld, CascadeBelowEnd, LogToCome, CompressesArchived
<1> QED BY <1>5, <1>6

LEMMA SpawnStep == IInv /\ Spawn => IInv'
<1> SUFFICES ASSUME IInv, Spawn PROVE IInv'
    OBVIOUS
<1> USE BoundsAssumption DEF IInv, Spawn, cascade
<1>1. suffixes' \in [Numbers -> Forms \cup {"none"}]
    BY DEF TypeOK, CascadeBelowEnd
<1>2. TypeOK'
    BY <1>1 DEF TypeOK
<1>3. HandleHeld' /\ CascadeBelowEnd' /\ LogToCome' /\ CompressesArchived'
    BY DEF HandleHeld, CascadeBelowEnd, LogToCome, CompressesArchived
<1> QED BY <1>2, <1>3

LEMMA CrashStep == IInv /\ Crash => IInv'
<1> SUFFICES ASSUME IInv, Crash PROVE IInv'
    OBVIOUS
<1> USE BoundsAssumption DEF IInv, Crash
<1>1. TypeOK'
  <2>1. suffixes' \in [Numbers -> Forms \cup {"none"}]
    OBVIOUS
  <2>2. faults' \in 0..MaxFaults
    BY FaultTypes DEF TypeOK
  <2>3. /\ hpos' \in 0..MaxSuffix + 1 /\ hcur' \in 0..MaxSuffix /\ carried' \in Forms
        /\ at' \in 0..MaxSuffix /\ end' \in 0..MaxSuffix
    BY DEF Forms
  <2>4. pc' = "start" /\ hpc' = "none" /\ th' \in BOOLEAN
    OBVIOUS
  <2> QED BY <2>1, <2>2, <2>3, <2>4 DEF TypeOK
<1>2. HandleHeld' /\ CascadeBelowEnd' /\ LogToCome' /\ CompressesArchived'
    BY DEF HandleHeld, CascadeBelowEnd, LogToCome, CompressesArchived
<1> QED BY <1>1, <1>2

\* handle_old_files, or someone else, changes files of the archive only.
LEMMA ArchiveStep ==
    ASSUME IInv, UNCHANGED <<gen, pc, at, end, carried, th>>,
           disk' \in [Path -> -MaxGen..MaxGen], disk'[Log] = disk[Log],
           suffixes' \in [Numbers -> Forms \cup {"none"}],
           hpc' \in {"none", "trim", "compress", "copy", "unlink", "finish"},
           hpos' \in 0..MaxSuffix + 1, hcur' \in 0..MaxSuffix, faults' \in 0..MaxFaults,
           hpc = "none" => hpc' = "none" /\ suffixes' = suffixes,
           hpc' \in {"copy", "unlink", "finish"} => hcur' \in Numbers
    PROVE  IInv'
<1> USE DEF IInv
<1>1. TypeOK'
    BY DEF TypeOK
<1>2. HandleHeld' /\ LogToCome' /\ CompressesArchived'
    BY DEF HandleHeld, LogToCome, CompressesArchived
<1>3. CascadeBelowEnd'
    BY DEF CascadeBelowEnd, HandleHeld
<1> QED BY <1>1, <1>2, <1>3

LEMMA HandlerOrDelete == IInv /\ (HandlerStep \/ ExternalDelete) => IInv'
<1> SUFFICES ASSUME IInv, HandlerStep \/ ExternalDelete PROVE IInv'
    OBVIOUS
<1> USE BoundsAssumption DEF IInv, cascade, handler
<1>0. /\ disk \in [Path -> -MaxGen..MaxGen] /\ suffixes \in [Numbers -> Forms \cup {"none"}]
      /\ hpos \in 0..MaxSuffix + 1 /\ hcur \in 0..MaxSuffix /\ faults \in 0..MaxFaults
      /\ MaxGen \in Nat /\ Numbers \subseteq 0..MaxSuffix
      /\ \A s \in Known : s \in Numbers /\ suffixes[s] \in Forms /\ FileOf(s) # Log
    BY PathFacts DEF TypeOK, Known, Numbers, FileOf
\* A file of the set is removed, or nothing on disk changes.
<1>1. ASSUME NEW s \in Known
      PROVE  /\ [disk EXCEPT ![FileOf(s)] = 0] \in [Path -> -MaxGen..MaxGen]
             /\ [disk EXCEPT ![FileOf(s)] = 0][Log] = disk[Log]
  <2>1. 0 \in -MaxGen..MaxGen /\ FileOf(s) # Log
    BY <1>0
  <2> QED BY <1>0, <2>1, DiskTypes, PathFacts
<1>2. CASE Trim
  <2>1. PICK s \in Older : /\ hpos' = s
                           /\ \/ disk' = [disk EXCEPT ![FileOf(s)] = 0] /\ UNCHANGED faults
                              \/ Fault("remove") /\ UNCHANGED disk
    BY <1>2 DEF Trim
  <2>2. s \in Known /\ hpos' \in 0..MaxSuffix + 1
    BY <1>0, <2>1 DEF Older, Numbers
  <2>3. /\ disk' \in [Path -> -MaxGen..MaxGen] /\ disk'[Log] = disk[Log]
        /\ faults' \in 0..MaxFaults
    <3>1. \/ disk' = disk /\ Fault("remove")
          \/ disk' = [disk EXCEPT ![FileOf(s)] = 0] /\ faults' = faults
      BY <2>1
    <3>2. faults' \in 0..MaxFaults
      BY <1>0, <3>1, FaultTypes
    <3>3. CASE disk' = disk
      BY <1>0, <3>2, <3>3
    <3>4. CASE disk' = [disk EXCEPT ![FileOf(s)] = 0]
      BY <1>1, <2>2, <3>2, <3>4
    <3> QED BY <3>1, <3>3, <3>4
  <2>4. UNCHANGED <<gen, suffixes, pc, at, end, carried, th, hpc, hcur>> /\ hpc = "trim"
    BY <1>2 DEF Trim
  <2> QED BY <1>0, <2>2, <2>3, <2>4, ArchiveStep
<1>3. CASE TrimDone
  <2>1. suffixes' \in [Numbers -> Forms \cup {"none"}]
    BY <1>0, <1>3 DEF TrimDone
  <2>2. UNCHANGED <<disk, gen, pc, at, end, carried, th, hpos, hcur, faults>> /\ hpc = "trim" /\ hpc' = "compress"
    BY <1>3 DEF TrimDone
  <2> QED BY <1>0, <2>1, <2>2, ArchiveStep
<1>4. CASE CompressOpen
  <2>1. PICK s \in NextToCompress :
            /\ hcur' = s
            /\ \/ /\ disk' = [disk EXCEPT ![<<s, "gz">>] = - disk[FileOf(s)]]
                  /\ hpc' = "copy" /\ UNCHANGED faults
               \/ hpc' = "none" /\ UNCHANGED <<disk, faults>>
               \/ Fault("open") /\ hpc' = "none" /\ UNCHANGED disk
    BY <1>4 DEF CompressOpen
  <2>2. s \in Known /\ s \in Numbers /\ FileOf(s) \in Path /\ <<s, "gz">> # Log
    BY <1>0, PathFacts DEF NextToCompress, ToCompress, FileOf, Forms
  <2>3. - disk[FileOf(s)] \in -MaxGen..MaxGen
    BY <1>0, <2>2
  <2>4. /\ disk' \in [Path -> -MaxGen..MaxGen] /\ disk'[Log] = disk[Log]
        /\ faults' \in 0..MaxFaults
    BY <1>0, <2>1, <2>2, <2>3, PathFacts, FaultTypes
  <2>5. UNCHANGED <<gen, suffixes, pc, at, end, carried, th, hpos>> /\ hpc = "compress"
    BY <1>4 DEF CompressOpen
  <2> QED BY <1>0, <2>1, <2>2, <2>4, <2>5, ArchiveStep
<1>5. CASE CompressCopy
  <2>1. /\ UNCHANGED <<disk, gen, suffixes, pc, at, end, carried, th, hpos, hcur>>
        /\ hpc = "copy" /\ hpc' \in {"unlink", "none"}
    BY <1>5 DEF CompressCopy
  <2>2. faults' \in 0..MaxFaults /\ hcur \in Numbers
    BY <1>0, <1>5, FaultTypes DEF CompressCopy, CompressesArchived
  <2> QED BY <1>0, <2>1, <2>2, ArchiveStep
\* The end of the stream, which makes a copy readable.
<1>6. ASSUME hcur \in Numbers
      PROVE  LET d == Finished(hcur, disk)
             IN  d \in [Path -> -MaxGen..MaxGen] /\ d[Log] = disk[Log]
  <2>1. <<hcur, "gz">> \in Path /\ <<hcur, "gz">> # Log
    BY <1>6, PathFacts DEF Forms
  <2>2. - disk[<<hcur, "gz">>] \in -MaxGen..MaxGen
    BY <1>0, <2>1
  <2> QED BY <1>0, <2>1, <2>2, PathFacts DEF Finished
<1>7. CASE CompressUnlink
  <2>1. hcur \in Numbers /\ <<hcur, "plain">> # Log
    BY <1>7, PathFacts DEF CompressUnlink, CompressesArchived, Forms
  <2>2. \/ disk' = [disk EXCEPT ![<<hcur, "plain">>] = 0]
        \/ disk' = Finished(hcur, disk)
    BY <1>7 DEF CompressUnlink
  <2>3. disk' \in [Path -> -MaxGen..MaxGen] /\ disk'[Log] = disk[Log]
    BY <1>0, <1>6, <2>1, <2>2, PathFacts
  <2>4. /\ UNCHANGED <<gen, suffixes, pc, at, end, carried, th, hpos, hcur>>
        /\ hpc = "unlink" /\ hpc' \in {"finish", "none"}
    BY <1>7 DEF CompressUnlink
  <2>5. faults' \in 0..MaxFaults
    BY <1>0, <1>7, FaultTypes DEF CompressUnlink
  <2> QED BY <1>0, <2>1, <2>3, <2>4, <2>5, ArchiveStep
<1>8. CASE CompressFinish
  <2>1. hcur \in Numbers
    BY <1>8 DEF CompressFinish, CompressesArchived
  <2>2. /\ disk' \in [Path -> -MaxGen..MaxGen] /\ disk'[Log] = disk[Log]
        /\ faults' \in 0..MaxFaults
    BY <1>0, <1>6, <1>8, <2>1, FaultTypes DEF CompressFinish
  <2>3. suffixes' \in [Numbers -> Forms \cup {"none"}]
    BY <1>0, <1>8, <2>1 DEF CompressFinish, Forms
  <2>4. /\ UNCHANGED <<gen, pc, at, end, carried, th, hpos, hcur>>
        /\ hpc = "finish" /\ hpc' = "compress"
    BY <1>8 DEF CompressFinish
  <2> QED BY <1>0, <2>1, <2>2, <2>3, <2>4, ArchiveStep
<1>9. CASE CompressDone
  <2>1. /\ UNCHANGED <<disk, gen, suffixes, pc, at, end, carried, th, hpos, hcur, faults>>
        /\ hpc = "compress" /\ hpc' = "none"
    BY <1>9 DEF CompressDone
  <2> QED BY <1>0, <2>1, ArchiveStep
<1>10. CASE ExternalDelete
  <2>1. disk' \in [Path -> -MaxGen..MaxGen] /\ disk'[Log] = disk[Log]
    BY <1>1, <1>10 DEF ExternalDelete
  <2>2. faults' \in 0..MaxFaults
    BY <1>0, <1>10, FaultTypes DEF ExternalDelete
  <2>3. UNCHANGED <<gen, suffixes, pc, at, end, carried, th, hpc, hpos, hcur>>
    BY <1>10 DEF ExternalDelete
  <2>4. hpc \in {"none", "trim", "compress", "copy", "unlink", "finish"}
    BY DEF TypeOK
  <2>5. hpc \in {"copy", "unlink", "finish"} => hcur \in Numbers
    BY DEF CompressesArchived
  <2> QED BY <1>0, <2>1, <2>2, <2>3, <2>4, <2>5, ArchiveStep
<1> QED
    BY <1>2, <1>3, <1>4, <1>5, <1>7, <1>8, <1>9, <1>10 DEF HandlerStep

LEMMA NextInv == IInv /\ [Next]_vars => IInv'
<1>1. ASSUME IInv, UNCHANGED vars PROVE IInv'
    BY <1>1 DEF vars, IInv, TypeOK, HandleHeld, CascadeBelowEnd, LogToCome, CompressesArchived
<1> QED
    BY <1>1, StartStep, ReopenStep, WriterOnlyStep, DescendStep, MoveStep, SpawnStep, CrashStep,
       HandlerOrDelete
    DEF Next, WriterStep

LEMMA Invariance == Spec => []IInv
BY InitInv, NextInv, PTL DEF Spec

-----------------------------------------------------------------------------
\* Types: for every policy, every fault and any length of the archive, the
\* state of LogRotate and its backend keeps its shape.
THEOREM TypeCorrect == Spec => []TypeOK
<1>1. IInv => TypeOK
    BY DEF IInv
<1> QED BY <1>1, Invariance, PTL

\* The UnsafeCell of _Backend is sound: LogRotate::wait, which rotate calls
\* first, keeps the cascade and handle_old_files apart, whatever fails.
THEOREM BackendExclusiveHolds == Spec => []BackendExclusive
<1>1. IInv => BackendExclusive
    BY DEF IInv, HandleHeld, BackendExclusive
<1> QED BY <1>1, Invariance, PTL

-----------------------------------------------------------------------------
\* The set and the files, as long as the process does not stop, nobody else
\* deletes files and remove_file succeeds: renames and compression may fail.
Orderly == "crash" \notin Faults /\ "delete" \notin Faults /\ "remove" \notin Faults

Cascading == pc \in {"move", "insert"}

\* The form of the file that is or will be at a suffix: rename_files inserts the
\* last one at the end, compress() replaces one when it is done.
Form(s) == IF Cascading /\ s = end THEN carried
           ELSE IF hpc = "finish" /\ s = hcur THEN "gz" ELSE suffixes[s]

\* The form of the file that is at a suffix now: below the hole of the cascade
\* the files have still to move.
Here(s) == IF pc = "move" /\ s <= at THEN Form(s + 1)
           ELSE IF pc = "move" /\ s = at + 1 THEN "none" ELSE Form(s)

\* Its age, in generations archived since; and whether the retention loop has
\* removed it already.
Age(s) == IF pc = "move" /\ s > at THEN s - 1 ELSE s
Removed(s) == hpc = "trim" /\ s >= hpos

\* The suffixes are numbered without a gap.
NoGap == \A s, t \in Numbers : s < t /\ Form(t) # "none" => Form(s) # "none"

\* Files are compressed oldest first.
OldestCompressed ==
    \A s, t \in Numbers : s < t /\ Form(s) = "gz" /\ Form(t) # "none" => Form(t) = "gz"

\* Every suffix holds the generation of its age, whole or truncated.
FilesInPlace ==
    \A s \in Numbers : Here(s) # "none" =>
        /\ Age(s) <= Newest
        /\ Removed(s) => disk[<<s, Here(s)>>] = 0
        /\ ~Removed(s) => disk[<<s, Here(s)>>] \in {Newest + 1 - Age(s), Age(s) - (Newest + 1)}

\* There is no other plain file; a compressed one that the set does not name is
\* the failed copy of a plain file, which every younger file is as well.
NoStrayPlain ==
    \A s \in Numbers : /\ disk[<<s, "plain">>] >= 0
                       /\ disk[<<s, "plain">>] # 0 => Here(s) = "plain"
StrayCopies ==
    \A s \in Numbers : disk[<<s, "gz">>] # 0 /\ Here(s) # "gz" =>
        /\ UpkeepKind # "all" => s <= Limit
        /\ Cascading => s < end
        /\ \A t \in Numbers : t <= s \/ (Cascading /\ t = s + 1) => Form(t) = "plain"

\* The log, and the state before the first start.
LogInPlace ==
    /\ pc \in {"idle", "wait", "join", "move"} => disk[Log] = gen /\ gen # 0
    /\ pc \in {"insert", "reopen"} => disk[Log] = 0
    /\ pc = "start" => /\ gen = 0 /\ hpc = "none"
                       /\ \A p \in Path : disk[p] = 0
                       /\ \A s \in Numbers : suffixes[s] = "none"

\* compress() at work.
Compressing ==
    hpc \in {"copy", "unlink", "finish"} =>
        /\ suffixes[hcur] = "plain" /\ disk[<<hcur, "gz">>] < 0
        /\ hpc # "finish" => disk[<<hcur, "plain">>] = - disk[<<hcur, "gz">>]
        /\ \A t \in Numbers : t > hcur => suffixes[t] # "plain"

\* How many files the set knows: no more than the policy keeps once the retention
\* loop is through, no fewer ever.
LimitKept ==
    /\ hpc = "trim" => /\ \/ hpos = MaxSuffix + 1
                          \/ UpkeepKind # "all" /\ hpos > Limit /\ hpos \in Known
                       /\ end \in Known /\ \A s \in Known : s <= end
    /\ hpc # "trim" /\ ~Cascading /\ UpkeepKind # "all" => \A s \in Known : s <= Limit
    /\ Cascading => \A s \in Known : s < end
    /\ \A s \in Nat :
            0 < s /\ s <= (IF Cascading THEN gen ELSE Newest) /\ (UpkeepKind = "all" \/ s <= Limit)
                => s \in Numbers /\ Form(s) # "none"

Layout == pc \notin Panicked => /\ NoGap
                                /\ OldestCompressed
                                /\ FilesInPlace
                                /\ NoStrayPlain
                                /\ StrayCopies
                                /\ LogInPlace
                                /\ Compressing
                                /\ LimitKept

\* Without a fault no copy is truncated or forgotten, and nothing is left to
\* compress.
AtWork(s) == hpc \in {"copy", "unlink", "finish"} /\ s = hcur

CopiesWhole ==
    \A s \in Numbers : disk[<<s, "gz">>] # 0 /\ ~AtWork(s) =>
        disk[<<s, "gz">>] > 0 /\ Here(s) = "gz"

NothingToCompress == hpc = "none" /\ ~Cascading => ToCompress = {}

Clean == pc \notin Panicked /\ faults = 0 => CopiesWhole /\ NothingToCompress

\* A step outside compress(): a compressed file that is there afterwards is the
\* log that has just been moved, or was there before, under a number whose form
\* the set knew as well; that number is its own unless the cascade moved it.
CopiesFollow ==
    \A s \in Numbers : disk'[<<s, "gz">>] # 0 =>
        \/ disk'[<<s, "gz">>] > 0 /\ Here(s)' = "gz"
        \/ \E t \in Numbers : /\ disk[<<t, "gz">>] = disk'[<<s, "gz">>]
                              /\ Here(t) = "gz" => Here(s)' = "gz"
                              /\ t # s => t = at /\ s = at + 1 /\ disk'[<<t, "gz">>] = 0

LEMMA ColumnPaths ==
    /\ Log \in Path
    /\ \A s \in Numbers : /\ s \in Nat /\ s # 0 /\ s <= MaxSuffix
                          /\ \A g \in Forms : <<s, g>> \in Path /\ <<s, g>> # Log
BY BoundsAssumption, PathFacts DEF Numbers

\* One file of the disk changes.
LEMMA OneFile ==
    ASSUME disk \in [Path -> -MaxGen..MaxGen], NEW p \in Path, NEW v, disk' = [disk EXCEPT ![p] = v]
    PROVE  /\ disk'[p] = v
           /\ \A q \in Path : q # p => disk'[q] = disk[q]
OBVIOUS

LEMMA FormTypes ==
    ASSUME IInv, NEW s \in Numbers
    PROVE  /\ Form(s) \in Forms \cup {"none"}
           /\ Here(s) \in Forms \cup {"none"}
<1>1. \A t \in Numbers : Form(t) \in Forms \cup {"none"}
    BY DEF Form, IInv, TypeOK, Forms
<1>2. ASSUME pc = "move", s <= at PROVE s + 1 \in Numbers
    BY <1>2, BoundsAssumption DEF IInv, CascadeBelowEnd, TypeOK, Numbers
<1>3. Here(s) \in Forms \cup {"none"}
    BY <1>1, <1>2 DEF Here
<1> QED BY <1>1, <1>3

\* With no gap, the rank of a suffix is the number of smaller ones.
LEMMA RankIs ==
    ASSUME NoGap, ~Cascading, hpc # "finish", NEW s \in Known
    PROVE  Rank(s) = s - 1
<1>1. s \in Nat /\ s # 0 /\ s \in Numbers
    BY ColumnPaths DEF Known
<1>2. {t \in Known : t < s} = 1..s - 1
  <2>1. ASSUME NEW t \in 1..s - 1 PROVE t \in Known
    <3>1. t \in Numbers /\ t < s
      BY <1>1, <2>1, BoundsAssumption DEF Numbers
    <3> QED BY <1>1, <3>1 DEF NoGap, Form, Known
  <2>2. \A t \in Known : t \in Nat /\ t # 0
    BY ColumnPaths DEF Known
  <2>3. \A t \in Known : t < s => t \in 1..s - 1
    BY <1>1, <2>2
  <2>4. \A t \in 1..s - 1 : t < s
    BY <1>1
  <2> QED BY <2>1, <2>3, <2>4
<1>3. Cardinality(1..s - 1) = s - 1
    BY <1>1, FS_Interval
<1> QED BY <1>2, <1>3 DEF Rank

\* The steps that change nothing but the writer's place, outside the cascade.
LEMMA SameLayout ==
    ASSUME Layout, pc \notin Panicked, ~Cascading, ~Cascading', pc' # "start",
           UNCHANGED <<disk, gen, suffixes, hpc, hpos, hcur, end>>,
           pc' \in {"idle", "wait", "join"} => disk[Log] = gen /\ gen # 0,
           pc' # "reopen"
    PROVE  Layout'
<1> USE DEF Layout
<1>1. /\ \A s : Form(s)' = Form(s) /\ Removed(s)' = Removed(s)
      /\ \A s : Here(s)' = Here(s) /\ Age(s)' = Age(s)
    BY DEF Form, Here, Age, Removed, Cascading
<1>2. Newest' = Newest /\ Known' = Known /\ Limit' = Limit
    BY DEF Newest, OnDisk, Known, Limit
<1>3. NoGap' /\ OldestCompressed'
    BY <1>1 DEF NoGap, OldestCompressed
<1>4. FilesInPlace'
    BY <1>1, <1>2 DEF FilesInPlace
<1>5. NoStrayPlain' /\ StrayCopies'
    BY <1>1, <1>2 DEF NoStrayPlain, StrayCopies
<1>6. LogInPlace'
    BY DEF LogInPlace, Cascading
<1>7. Compressing'
    BY DEF Compressing
<1>8. LimitKept'
    BY <1>1, <1>2 DEF LimitKept
<1> QED BY <1>3, <1>4, <1>5, <1>6, <1>7, <1>8

LEMMA LayoutWriterOnly ==
    ASSUME IInv, Layout, Rotate \/ FlushWait \/ FlushWaitDone
    PROVE  Layout'
<1>1. /\ pc \in {"idle", "wait"} /\ pc' \in {"join", "wait", "idle"}
      /\ UNCHANGED <<disk, gen, suffixes, hpc, hpos, hcur, end>>
    BY DEF Rotate, FlushWait, FlushWaitDone, cascade, handler
<1>2. disk[Log] = gen /\ gen # 0
    BY <1>1 DEF Layout, LogInPlace, Panicked
<1> QED BY <1>1, <1>2, SameLayout DEF Cascading, Panicked

LEMMA LayoutStart ==
    ASSUME IInv, Layout, Start
    PROVE  Layout'
<1> USE DEF Start, cascade, handler
<1>1. /\ gen = 0 /\ hpc = "none" /\ (\A p \in Path : disk[p] = 0)
      /\ disk \in [Path -> -MaxGen..MaxGen]
    BY DEF Layout, LogInPlace, Panicked, IInv, TypeOK
<1>2. /\ gen' = 1 /\ disk'[Log] = 1
      /\ \A s \in Numbers : disk'[<<s, "plain">>] = 0 /\ disk'[<<s, "gz">>] = 0
  <2>1. ~OnDisk(Log)
    BY <1>1, ColumnPaths DEF OnDisk
  <2>2. gen' = 1 /\ disk' = [disk EXCEPT ![Log] = 1]
    BY <1>1, <2>1 DEF OpenLog
  <2>3. disk'[Log] = 1 /\ \A q \in Path : q # Log => disk'[q] = 0
    BY <1>1, <2>2, ColumnPaths, OneFile
  <2> QED BY <2>2, <2>3, ColumnPaths DEF Forms
<1>3. \A s \in Numbers : suffixes'[s] = "none"
  <2>1. ASSUME NEW s \in Numbers PROVE Archived(s) = {}
    BY <1>1, ColumnPaths DEF Archived, OnDisk
  <2> QED BY <2>1
<1>4. pc' = "idle" /\ hpc' = "none" /\ \A s \in Numbers : Form(s)' = "none" /\ Here(s)' = "none"
    BY <1>1, <1>3 DEF Form, Here, Cascading
<1>5. Newest' = 0
    BY <1>2 DEF Newest, OnDisk
<1>6. NoGap' /\ OldestCompressed' /\ FilesInPlace'
    BY <1>4 DEF NoGap, OldestCompressed, FilesInPlace
<1>7. NoStrayPlain' /\ StrayCopies'
  <2>1. NoStrayPlain'
    <3> SUFFICES ASSUME NEW s \in Numbers
                 PROVE  disk'[<<s, "plain">>] >= 0 /\ disk'[<<s, "plain">>] = 0
        BY DEF NoStrayPlain
    <3>1. disk'[<<s, "plain">>] = 0
        BY <1>2
    <3> HIDE DEF Start
    <3> QED BY <3>1
  <2>2. StrayCopies'
    BY <1>2 DEF StrayCopies
  <2> QED BY <2>1, <2>2
<1>8. LogInPlace' /\ Compressing'
    BY <1>2, <1>4 DEF LogInPlace, Compressing
<1>9. LimitKept'
  <2>1. Known' = {}
    BY <1>3 DEF Known
  <2>2. ~Cascading'
    BY <1>4 DEF Cascading
  <2> QED BY <1>4, <1>5, <2>1, <2>2 DEF LimitKept
<1> QED BY <1>6, <1>7, <1>8, <1>9 DEF Layout

LEMMA LayoutReopen ==
    ASSUME IInv, Layout, Reopen
    PROVE  Layout'
<1> USE DEF Reopen, cascade, handler
<1>0. pc = "reopen" /\ pc' = "idle" /\ pc \notin Panicked /\ ~Cascading /\ ~Cascading'
    BY DEF Panicked, Cascading
<1>1. disk[Log] = 0 /\ gen \in Nat /\ disk \in [Path -> -MaxGen..MaxGen]
    BY <1>0, BoundsAssumption DEF Layout, LogInPlace, IInv, TypeOK
<1>2. /\ gen' = gen + 1 /\ disk'[Log] = gen + 1
      /\ \A s \in Numbers, g \in Forms : disk'[<<s, g>>] = disk[<<s, g>>]
  <2>1. gen' = gen + 1 /\ disk' = [disk EXCEPT ![Log] = gen + 1]
    BY <1>1 DEF OpenLog, OnDisk
  <2>2. disk'[Log] = gen + 1 /\ \A q \in Path : q # Log => disk'[q] = disk[q]
    BY <1>1, <2>1, ColumnPaths, OneFile
  <2> QED BY <2>1, <2>2, ColumnPaths
<1>3. Newest' = Newest /\ Newest = gen /\ Known' = Known
    BY <1>1, <1>2 DEF Newest, OnDisk, Known
<1>4. \A s : Form(s)' = Form(s) /\ Here(s)' = Here(s) /\ Age(s)' = Age(s) /\ Removed(s)' = Removed(s)
    BY <1>0 DEF Form, Here, Age, Removed, Cascading
<1>5. \A s \in Numbers : Here(s) # "none" => Here(s) \in Forms
    BY <1>0 DEF Here, Form, Cascading, IInv, TypeOK, Forms
<1> USE <1>0 DEF Layout
<1>6. NoGap' /\ OldestCompressed'
    BY <1>4 DEF NoGap, OldestCompressed
<1>7. FilesInPlace'
    BY <1>2, <1>3, <1>4, <1>5 DEF FilesInPlace
<1>8. NoStrayPlain' /\ StrayCopies'
    BY <1>2, <1>4 DEF NoStrayPlain, StrayCopies, Forms
<1>9. LogInPlace'
    BY <1>1, <1>2 DEF LogInPlace
<1>10. Compressing'
  <2>1. hpc \in {"copy", "unlink", "finish"} => hcur \in Numbers
    BY DEF IInv, CompressesArchived
  <2> QED BY <1>2, <2>1 DEF Compressing, Forms
<1>11. LimitKept'
    BY <1>3, <1>4 DEF LimitKept
<1> QED BY <1>6, <1>7, <1>8, <1>9, <1>10, <1>11

LEMMA LayoutSpawn ==
    ASSUME IInv, Layout, Spawn
    PROVE  Layout' /\ CopiesFollow
<1> USE DEF Spawn, cascade
<1>0. /\ pc = "insert" /\ pc' = "reopen" /\ pc \notin Panicked /\ Cascading /\ ~Cascading'
      /\ hpc = "none" /\ hpc' = "trim" /\ end \in Numbers /\ carried \in Forms
      /\ suffixes \in [Numbers -> Forms \cup {"none"}] /\ hpos' = MaxSuffix + 1
    BY DEF Panicked, Cascading, IInv, HandleHeld, CascadeBelowEnd, TypeOK
<1> USE <1>0 DEF Layout
<1>1. \A s \in Numbers : Form(s)' = Form(s)
    BY DEF Form, Cascading
<1>2. \A s \in Numbers : /\ Here(s)' = Here(s) /\ Here(s) = Form(s) /\ Age(s)' = Age(s)
                         /\ ~Removed(s) /\ ~Removed(s)'
    BY <1>1, ColumnPaths, BoundsAssumption DEF Here, Age, Removed
<1>3. Newest' = Newest /\ Newest = gen /\ Newest' = gen
    BY DEF Newest, OnDisk, LogInPlace
<1>4. NoGap' /\ OldestCompressed'
    BY <1>1 DEF NoGap, OldestCompressed
<1>5. FilesInPlace'
    BY <1>2, <1>3 DEF FilesInPlace
<1>6. NoStrayPlain' /\ StrayCopies'
  <2>1. Limit' = Limit
    BY DEF Limit
  <2> QED BY <1>1, <1>2, <2>1 DEF NoStrayPlain, StrayCopies
<1>7. LogInPlace' /\ Compressing'
    BY DEF LogInPlace, Compressing
<1>8. LimitKept'
  <2>1. end' = end /\ suffixes'[end] = carried /\ carried # "none"
    BY DEF Forms
  <2>2. end' \in Known'
    BY <2>1 DEF Known
  <2>3. \A s \in Known' : s <= end
    <3> SUFFICES ASSUME NEW s \in Numbers, suffixes'[s] # "none", s # end PROVE s <= end
      BY ColumnPaths DEF Known
    <3>1. s \in Known
      BY DEF Known
    <3>2. s < end
      BY <3>1 DEF LimitKept
    <3> QED BY <3>2, ColumnPaths
  <2>4. \A s \in Nat : 0 < s /\ s <= Newest' /\ (UpkeepKind = "all" \/ s <= Limit)
                            => s \in Numbers /\ Form(s)' # "none"
    BY <1>1, <1>3 DEF LimitKept
  <2>5. Limit' = Limit
    BY DEF Limit
  <2> QED BY <2>1, <2>2, <2>3, <2>4, <2>5 DEF LimitKept
<1>9. CopiesFollow
    BY <1>2 DEF CopiesFollow
<1> QED BY <1>4, <1>5, <1>6, <1>7, <1>8, <1>9

\* The way down: no file moves, every suffix takes the form that will arrive.
LEMMA LayoutDescend ==
    ASSUME IInv, Layout, Descend
    PROVE  Layout' /\ CopiesFollow
<1> USE DEF cascade, handler
<1>0. /\ pc = "join" /\ pc' = "move" /\ pc \notin Panicked /\ ~Cascading /\ Cascading'
      /\ hpc = "none" /\ hpc' = "none" /\ UNCHANGED <<disk, gen, hpos, hcur>>
      /\ suffixes \in [Numbers -> Forms \cup {"none"}]
    BY DEF Descend, Panicked, Cascading, IInv, HandleHeld, Joined, TypeOK
<1>1. PICK k \in FirstFree : /\ end' = k
                             /\ at' = k - 1
                             /\ carried' = Arriving(k)
                             /\ suffixes' = [s \in Numbers |-> IF s < k THEN Arriving(s) ELSE suffixes[s]]
    BY DEF Descend
<1>2. k \in Numbers /\ k \in Nat /\ k # 0 /\ suffixes[k] = "none"
    BY <1>1, ColumnPaths DEF FirstFree
<1> USE <1>0 DEF Layout
\* The set holds 1 to k - 1.
<1>3. \A s \in Numbers : /\ Form(s) = suffixes[s] /\ Here(s) = suffixes[s] /\ Age(s) = s
                         /\ ~Removed(s) /\ s \in Nat /\ s # 0
    BY ColumnPaths DEF Form, Here, Age, Removed
<1>4. \A s \in Numbers : suffixes[s] # "none" <=> s < k
  <2>1. ASSUME NEW s \in Numbers, s < k PROVE suffixes[s] # "none"
    <3>1. s \in 1..k - 1
      BY <1>2, <1>3, <2>1
    <3> QED BY <1>1, <3>1 DEF FirstFree
  <2>2. ASSUME NEW s \in Numbers, ~(s < k) PROVE suffixes[s] = "none"
    <3>1. CASE s = k
      BY <1>2, <3>1
    <3>2. CASE k < s
      BY <1>2, <1>3, <3>2 DEF NoGap
    <3> QED BY <1>2, <1>3, <2>2, <3>1, <3>2
  <2> QED BY <2>1, <2>2
<1>5. \A s \in Numbers : Form(s)' = IF s <= k THEN Arriving(s) ELSE "none"
  <2> SUFFICES ASSUME NEW s \in Numbers PROVE Form(s)' = IF s <= k THEN Arriving(s) ELSE "none"
    OBVIOUS
  <2>1. Form(s)' = IF s = k THEN carried' ELSE suffixes'[s]
    BY <1>1 DEF Form
  <2> QED BY <1>1, <1>2, <1>3, <1>4, <2>1
<1>6. Arriving(1) = "plain" /\ \A s \in Numbers : s # 1 => s - 1 \in Numbers /\ Arriving(s) = suffixes[s - 1]
    BY <1>3, BoundsAssumption DEF Arriving, Numbers
<1>7. \A s \in Numbers : s < k => s + 1 \in Numbers /\ Form(s + 1)' = suffixes[s]
  <2> SUFFICES ASSUME NEW s \in Numbers, s < k
               PROVE  s + 1 \in Numbers /\ Form(s + 1)' = suffixes[s]
    OBVIOUS
  <2>1. s + 1 \in Numbers /\ s + 1 # 1 /\ s + 1 <= k /\ (s + 1) - 1 = s
    BY <1>2, <1>3, BoundsAssumption DEF Numbers
  <2>2. Arriving(s + 1) = suffixes[s]
    BY <1>6, <2>1
  <2> QED BY <1>5, <2>1, <2>2
<1>8. \A s \in Numbers : /\ Here(s)' = suffixes[s] /\ ~Removed(s)'
                         /\ suffixes[s] # "none" => Age(s)' = s
  <2> SUFFICES ASSUME NEW s \in Numbers
               PROVE  /\ Here(s)' = suffixes[s] /\ ~Removed(s)'
                      /\ suffixes[s] # "none" => Age(s)' = s
    OBVIOUS
  <2>1. Here(s)' = IF s <= k - 1 THEN Form(s + 1)' ELSE IF s = k - 1 + 1 THEN "none" ELSE Form(s)'
    BY <1>1 DEF Here
  <2>2. Age(s)' = IF s > k - 1 THEN s - 1 ELSE s
    BY <1>1 DEF Age
  <2>3. CASE s < k
    BY <1>2, <1>3, <1>7, <2>1, <2>2, <2>3 DEF Removed
  <2>4. CASE ~(s < k)
    BY <1>2, <1>3, <1>4, <1>5, <2>1, <2>4 DEF Removed
  <2> QED BY <2>3, <2>4
<1>9. Newest' = Newest /\ Newest = gen - 1 /\ gen \in Nat
    BY BoundsAssumption DEF Newest, OnDisk, LogInPlace, IInv, TypeOK
<1>10. \A s \in Numbers : Form(s)' # "none" <=> s <= k
  <2> SUFFICES ASSUME NEW s \in Numbers, s <= k PROVE Arriving(s) # "none"
    BY <1>5
  <2>1. CASE s = 1
    BY <1>6, <2>1
  <2>2. CASE s # 1
    BY <1>2, <1>3, <1>4, <1>6, <2>2
  <2> QED BY <2>1, <2>2
<1>11. NoGap'
    BY <1>2, <1>3, <1>10 DEF NoGap
<1>12. OldestCompressed'
  <2> SUFFICES ASSUME NEW s \in Numbers, NEW t \in Numbers, s < t, Form(s)' = "gz", Form(t)' # "none"
               PROVE  Form(t)' = "gz"
    BY DEF OldestCompressed
  <2>1. s <= k /\ t <= k /\ Form(s)' = Arriving(s) /\ Form(t)' = Arriving(t)
    BY <1>5, <1>10
  <2>2. s # 1 /\ t # 1
    BY <1>3, <1>6, <2>1
  <2>3. /\ s - 1 \in Numbers /\ t - 1 \in Numbers /\ s - 1 < t - 1 /\ t - 1 < k
        /\ suffixes[s - 1] = "gz" /\ Form(t)' = suffixes[t - 1]
    BY <1>2, <1>3, <1>6, <2>1, <2>2
  <2> QED BY <1>3, <1>4, <2>3 DEF OldestCompressed
<1>13. FilesInPlace'
    BY <1>3, <1>8, <1>9 DEF FilesInPlace
<1>14. NoStrayPlain'
  <2>1. NoStrayPlain /\ disk' = disk
    OBVIOUS
  <2> HIDE DEF Layout
  <2> SUFFICES ASSUME NEW s \in Numbers
               PROVE  /\ disk'[<<s, "plain">>] >= 0
                      /\ disk'[<<s, "plain">>] # 0 => Here(s)' = "plain"
    BY DEF NoStrayPlain
  <2> QED BY <1>3, <1>8, <2>1 DEF NoStrayPlain
<1>15. StrayCopies'
  <2> SUFFICES ASSUME NEW s \in Numbers, disk[<<s, "gz">>] # 0, suffixes[s] # "gz"
               PROVE  /\ UpkeepKind # "all" => s <= Limit
                      /\ s < k
                      /\ \A t \in Numbers : t <= s \/ t = s + 1 => Form(t)' = "plain"
    BY <1>1, <1>8 DEF StrayCopies, Limit
  <2>1. /\ UpkeepKind # "all" => s <= Limit
        /\ \A t \in Numbers : t <= s => suffixes[t] = "plain"
    BY <1>3 DEF StrayCopies
  <2>2. s < k
    BY <1>3, <1>4, <2>1
  <2>3. ASSUME NEW t \in Numbers, t <= s \/ t = s + 1 PROVE Form(t)' = "plain"
    <3>1. t <= k /\ Form(t)' = Arriving(t)
      BY <1>2, <1>3, <1>5, <2>2, <2>3
    <3>2. CASE t = 1
      BY <1>6, <3>1, <3>2
    <3>3. CASE t # 1
      <4>1. t - 1 \in Numbers /\ t - 1 <= s /\ Arriving(t) = suffixes[t - 1]
        BY <1>3, <1>6, <2>3, <3>3
      <4> QED BY <2>1, <3>1, <4>1
    <3> QED BY <3>2, <3>3
  <2> QED BY <2>1, <2>2, <2>3
<1>16. LogInPlace' /\ Compressing'
    BY DEF LogInPlace, Compressing
<1>17. LimitKept'
  <2>1. \A s \in Known' : s < end'
    <3> SUFFICES ASSUME NEW s \in Numbers, suffixes'[s] # "none" PROVE s < k
      BY <1>1 DEF Known
    <3> QED BY <1>1, <1>2, <1>3, <1>4
  <2>2. ASSUME NEW s \in Nat, 0 < s, s <= gen, UpkeepKind = "all" \/ s <= Limit
        PROVE  s \in Numbers /\ Form(s)' # "none"
    <3>1. CASE s = 1
      BY <1>2, <1>3, <1>10, <3>1, BoundsAssumption DEF Numbers
    <3>2. CASE s # 1
      <4>1. /\ s - 1 \in Nat /\ 0 < s - 1 /\ s - 1 <= Newest
            /\ UpkeepKind = "all" \/ s - 1 <= Limit
        BY <1>9, <2>2, <3>2, MaxFilesAssumption DEF Limit
      <4>2. s - 1 \in Numbers /\ suffixes[s - 1] # "none"
        BY <1>3, <4>1 DEF LimitKept
      <4>3. s - 1 < k
        BY <1>4, <4>2
      <4> QED BY <1>2, <1>7, <4>2, <4>3, <2>2
    <3> QED BY <3>1, <3>2
  <2> QED BY <2>1, <2>2 DEF LimitKept, Limit
<1>18. CopiesFollow
    BY <1>3, <1>8 DEF CopiesFollow
<1> QED BY <1>11, <1>12, <1>13, <1>14, <1>15, <1>16, <1>17, <1>18

\* What the way up finds: the file to move is there, its new path is free.
LEMMA WayClear ==
    ASSUME IInv, Layout, pc = "move"
    PROVE  /\ at \in Nat /\ at + 1 \in Numbers /\ at + 1 <= end /\ end \in Numbers
           /\ MovedForm = Form(at + 1) /\ MovedForm \in Forms
           /\ OnDisk(Source) /\ ~OnDisk(Target)
<1> USE DEF Layout
<1>0. pc \notin Panicked /\ Cascading /\ hpc = "none"
    BY DEF Panicked, Cascading, IInv, HandleHeld
<1>1. at \in Nat /\ end \in Numbers /\ at + 1 \in Numbers /\ at + 1 <= end /\ end \in Nat
    BY BoundsAssumption DEF IInv, CascadeBelowEnd, TypeOK, Numbers
<1>2. MovedForm = Form(at + 1)
    BY <1>0 DEF MovedForm, Form
<1>3. MovedForm \in Forms
  <2>1. CASE at + 1 = end
    BY <2>1 DEF MovedForm, IInv, CascadeBelowEnd
  <2>2. CASE at + 1 # end
    <3>1. at + 1 \in 1..end - 1
      BY <1>1, <2>2
    <3> QED BY <1>1, <2>2, <3>1 DEF MovedForm, IInv, CascadeBelowEnd, TypeOK
  <2> QED BY <2>1, <2>2
<1>4. Here(at + 1) = "none"
    BY <1>1 DEF Here
<1>5. ~OnDisk(Target)
  <2>1. CASE MovedForm = "plain"
    BY <1>0, <1>1, <1>4, <2>1 DEF NoStrayPlain, OnDisk, Target
  <2>2. CASE MovedForm = "gz"
    BY <1>0, <1>1, <1>2, <1>4, <2>2 DEF StrayCopies, OnDisk, Target
  <2> QED BY <1>3, <2>1, <2>2 DEF Forms
<1>6. OnDisk(Source)
  <2>1. CASE at = 0
    BY <1>0, <2>1 DEF OnDisk, Source, LogInPlace
  <2>2. CASE at # 0
    <3>1. at \in Numbers /\ Here(at) = MovedForm /\ Age(at) = at /\ ~Removed(at)
      BY <1>0, <1>1, <1>2, <2>2, BoundsAssumption DEF Here, Age, Removed, Numbers
    <3>2. Here(at) # "none"
      BY <1>3, <3>1 DEF Forms
    <3>3. /\ at <= Newest
          /\ disk[<<at, MovedForm>>] \in {Newest + 1 - at, at - (Newest + 1)}
      BY <1>0, <3>1, <3>2 DEF FilesInPlace
    <3>4. Newest \in Int
      BY BoundsAssumption DEF Newest, IInv, TypeOK
    <3> QED BY <1>1, <2>2, <3>3, <3>4 DEF OnDisk, Source
  <2> QED BY <2>1, <2>2
<1> QED BY <1>1, <1>2, <1>3, <1>5, <1>6

\* The way up: a file of the archive fills the hole and leaves one behind it.
LEMMA LayoutMoveUp ==
    ASSUME IInv, Layout, Move, at # 0
    PROVE  Layout' /\ CopiesFollow
<1> USE DEF cascade, handler
<1>0. /\ pc = "move" /\ pc' = "move" /\ pc \notin Panicked /\ Cascading /\ Cascading'
      /\ hpc = "none" /\ hpc' = "none" /\ at' = at - 1
      /\ UNCHANGED <<gen, suffixes, end, carried, hpos, hcur>>
      /\ disk \in [Path -> -MaxGen..MaxGen]
    BY DEF Move, Panicked, Cascading, IInv, HandleHeld, TypeOK
<1>a. PICK a \in Nat : a = at
    BY DEF IInv, TypeOK
<1> USE <1>0, <1>a DEF Layout
<1> DEFINE m == MovedForm
<1>1. /\ a \in Numbers /\ a \in Nat /\ a + 1 \in Numbers /\ a + 1 <= end /\ end \in Numbers /\ end \in Nat
      /\ m = Form(a + 1) /\ m \in Forms /\ m # "none"
  <2>1. a \in Nat /\ a + 1 \in Numbers /\ a + 1 <= end /\ end \in Numbers /\ m = Form(a + 1) /\ m \in Forms
    BY WayClear
  <2>2. a \in Numbers /\ m # "none" /\ end \in Nat
    BY <2>1, BoundsAssumption DEF Numbers, Forms
  <2> QED BY <2>1, <2>2
<1>2. /\ disk'[<<a + 1, m>>] = disk[<<a, m>>] /\ disk'[<<a, m>>] = 0
      /\ \A s \in Numbers, g \in Forms :
            <<s, g>> # <<a, m>> /\ <<s, g>> # <<a + 1, m>> => disk'[<<s, g>>] = disk[<<s, g>>]
      /\ disk'[Log] = disk[Log]
  <2>1. <<a, m>> \in Path /\ <<a + 1, m>> \in Path /\ <<a, m>> # <<a + 1, m>>
    BY <1>1, ColumnPaths
  <2>2. disk' = [disk EXCEPT ![<<a + 1, m>>] = disk[<<a, m>>], ![<<a, m>>] = 0]
    BY DEF Move, Source, Target
  <2>3. /\ disk'[<<a + 1, m>>] = disk[<<a, m>>] /\ disk'[<<a, m>>] = 0
        /\ \A p \in Path : p # <<a, m>> /\ p # <<a + 1, m>> => disk'[p] = disk[p]
    BY <2>1, <2>2
  <2>4. Log # <<a, m>> /\ Log # <<a + 1, m>>
    BY <1>1, ColumnPaths
  <2> QED BY <2>3, <2>4, ColumnPaths
<1> HIDE DEF m
<1>3. \A s : Form(s)' = Form(s)
    BY DEF Form
<1>4. Newest' = Newest /\ Newest = gen - 1 /\ gen \in Nat
    BY <1>2, BoundsAssumption DEF Newest, OnDisk, LogInPlace, IInv, TypeOK
<1>5. \A s \in Numbers : s \in Nat
    BY ColumnPaths
\* Only the file that moves changes its place.
<1>6. ASSUME NEW s \in Numbers, s # a, s # a + 1
      PROVE  /\ Here(s)' = Here(s) /\ Age(s)' = Age(s)
             /\ disk'[<<s, "plain">>] = disk[<<s, "plain">>] /\ disk'[<<s, "gz">>] = disk[<<s, "gz">>]
  <2>1. Here(s)' = Here(s) /\ Age(s)' = Age(s)
    BY <1>1, <1>3, <1>5, <1>6 DEF Here, Age
  <2> QED BY <1>2, <1>6, <2>1 DEF Forms
<1>7. /\ Here(a) = m /\ Age(a) = a /\ Here(a)' = "none"
      /\ Here(a + 1) = "none" /\ Here(a + 1)' = m /\ Age(a + 1)' = a
  <2>1. Here(a) = m /\ Here(a + 1) = "none" /\ Age(a) = a
    BY <1>1 DEF Here, Age
  <2>2. (a - 1) + 1 = a /\ ~(a <= a - 1) /\ ~(a + 1 <= a - 1) /\ a + 1 # a /\ a + 1 > a - 1
        /\ (a + 1) - 1 = a
    BY <1>1
  <2>3. Here(a)' = "none" /\ Here(a + 1)' = m /\ Age(a + 1)' = a
    BY <1>1, <1>3, <2>2 DEF Here, Age
  <2> QED BY <2>1, <2>3
<1>8. \A s : ~Removed(s) /\ ~Removed(s)'
    BY DEF Removed
<1>9. a <= Newest /\ disk[<<a, m>>] \in {Newest + 1 - a, a - (Newest + 1)}
    BY <1>1, <1>7, <1>8 DEF FilesInPlace
<1>10. NoGap' /\ OldestCompressed'
    BY <1>3 DEF NoGap, OldestCompressed
<1>11. FilesInPlace'
  <2> SUFFICES ASSUME NEW s \in Numbers, Here(s)' # "none"
               PROVE  /\ Age(s)' <= Newest
                      /\ disk'[<<s, Here(s)'>>] \in {Newest + 1 - Age(s)', Age(s)' - (Newest + 1)}
    BY <1>4, <1>8 DEF FilesInPlace
  <2>1. CASE s = a + 1
    BY <1>2, <1>7, <1>9, <2>1
  <2>2. CASE s # a /\ s # a + 1
    <3>1. Here(s)' = Here(s) /\ Age(s)' = Age(s)
      BY <1>6, <2>2
    <3>2. Here(s) \in Forms
      BY <3>1, FormTypes
    <3>3. disk'[<<s, Here(s)>>] = disk[<<s, Here(s)>>]
      BY <1>6, <2>2, <3>2 DEF Forms
    <3> QED BY <1>8, <3>1, <3>3 DEF FilesInPlace
  <2> QED BY <1>7, <2>1, <2>2
<1>12. NoStrayPlain'
  <2> SUFFICES ASSUME NEW s \in Numbers
               PROVE  /\ disk'[<<s, "plain">>] >= 0
                      /\ disk'[<<s, "plain">>] # 0 => Here(s)' = "plain"
    BY DEF NoStrayPlain
  <2>1. CASE s # a /\ s # a + 1
    BY <1>6, <2>1 DEF NoStrayPlain
  <2>2. CASE s = a
    <3>1. CASE m = "plain"
      BY <1>2, <2>2, <3>1
    <3>2. CASE m = "gz"
      <4>1. disk[<<a, "plain">>] = 0
        BY <1>1, <1>7, <3>2 DEF NoStrayPlain
      <4>2. disk'[<<a, "plain">>] = disk[<<a, "plain">>]
        BY <1>1, <1>2, <3>2 DEF Forms
      <4> QED BY <2>2, <4>1, <4>2
    <3> QED BY <1>1, <3>1, <3>2 DEF Forms
  <2>3. CASE s = a + 1
    <3>1. CASE m = "plain"
      BY <1>1, <1>2, <1>7, <2>3, <3>1 DEF NoStrayPlain
    <3>2. CASE m = "gz"
      <4>1. disk[<<a + 1, "plain">>] = 0
        BY <1>1, <1>7, <3>2 DEF NoStrayPlain
      <4>2. disk'[<<a + 1, "plain">>] = disk[<<a + 1, "plain">>]
        BY <1>1, <1>2, <3>2 DEF Forms
      <4> QED BY <2>3, <4>1, <4>2
    <3> QED BY <1>1, <3>1, <3>2 DEF Forms
  <2> QED BY <2>1, <2>2, <2>3
<1>13. StrayCopies'
  <2>1. ASSUME NEW s \in Numbers, disk'[<<s, "gz">>] # 0, Here(s)' # "gz"
        PROVE  disk[<<s, "gz">>] # 0 /\ Here(s) # "gz"
    <3>1. CASE s # a /\ s # a + 1
      BY <1>6, <2>1, <3>1
    <3>2. CASE s = a
      <4>1. m = "plain"
        BY <1>1, <1>2, <2>1, <3>2 DEF Forms
      <4> QED BY <1>1, <1>2, <1>7, <2>1, <3>2, <4>1 DEF Forms
    <3>3. CASE s = a + 1
      <4>1. m = "plain"
        BY <1>1, <1>7, <2>1, <3>3 DEF Forms
      <4> QED BY <1>1, <1>2, <1>7, <2>1, <3>3, <4>1 DEF Forms
    <3> QED BY <3>1, <3>2, <3>3
  <2> QED BY <1>3, <2>1 DEF StrayCopies, Limit
<1>14. LogInPlace' /\ Compressing'
    BY <1>2 DEF LogInPlace, Compressing
<1>15. LimitKept'
    BY <1>3, <1>4 DEF LimitKept, Known, Limit
<1>16. CopiesFollow
  <2> SUFFICES ASSUME NEW s \in Numbers, disk'[<<s, "gz">>] # 0
               PROVE  \E t \in Numbers : /\ disk[<<t, "gz">>] = disk'[<<s, "gz">>]
                                         /\ Here(t) = "gz" => Here(s)' = "gz"
                                         /\ t # s => t = a /\ s = a + 1 /\ disk'[<<t, "gz">>] = 0
    BY DEF CopiesFollow
  <2>1. CASE s # a /\ s # a + 1
    BY <1>6, <2>1
  <2>2. CASE s = a
    <3>1. m = "plain"
      BY <1>1, <1>2, <2>2 DEF Forms
    <3>2. disk'[<<a, "gz">>] = disk[<<a, "gz">>]
      BY <1>1, <1>2, <3>1 DEF Forms
    <3> QED BY <1>1, <1>7, <2>2, <3>1, <3>2
  <2>3. CASE s = a + 1 /\ m = "gz"
    BY <1>1, <1>2, <1>7, <2>3
  <2>4. CASE s = a + 1 /\ m = "plain"
    <3>1. disk'[<<a + 1, "gz">>] = disk[<<a + 1, "gz">>]
      BY <1>1, <1>2, <2>4 DEF Forms
    <3> QED BY <1>1, <1>7, <2>4, <3>1
  <2> QED BY <1>1, <2>1, <2>2, <2>3, <2>4 DEF Forms
<1> QED BY <1>10, <1>11, <1>12, <1>13, <1>14, <1>15, <1>16

\* The last move archives the log itself.
LEMMA LayoutMoveLog ==
    ASSUME IInv, Layout, Move, at = 0
    PROVE  Layout' /\ CopiesFollow
<1> USE DEF cascade, handler
<1>0. /\ pc = "move" /\ pc' = "insert" /\ pc \notin Panicked /\ Cascading /\ Cascading'
      /\ hpc = "none" /\ hpc' = "none" /\ at' = at
      /\ UNCHANGED <<gen, suffixes, end, carried, hpos, hcur>>
      /\ disk \in [Path -> -MaxGen..MaxGen]
    BY DEF Move, Panicked, Cascading, IInv, HandleHeld, TypeOK
<1> USE <1>0 DEF Layout
<1> DEFINE m == MovedForm
<1>1. 1 \in Numbers /\ end \in Numbers /\ end \in Nat /\ m = Form(1) /\ m \in Forms /\ m # "none"
  <2>1. at + 1 \in Numbers /\ at + 1 = 1 /\ end \in Numbers /\ m = Form(at + 1) /\ m \in Forms
    BY WayClear
  <2>2. m # "none" /\ end \in Nat
    BY <2>1, BoundsAssumption DEF Numbers, Forms
  <2> QED BY <2>1, <2>2
<1>2. /\ disk'[<<1, m>>] = disk[Log] /\ disk'[Log] = 0
      /\ \A s \in Numbers, g \in Forms : <<s, g>> # <<1, m>> => disk'[<<s, g>>] = disk[<<s, g>>]
  <2>1. <<1, m>> \in Path /\ <<1, m>> # Log /\ Log \in Path
    BY <1>1, ColumnPaths
  <2>2. disk' = [disk EXCEPT ![<<1, m>>] = disk[Log], ![Log] = 0]
    BY DEF Move, Source, Target
  <2>3. /\ disk'[<<1, m>>] = disk[Log] /\ disk'[Log] = 0
        /\ \A p \in Path : p # <<1, m>> /\ p # Log => disk'[p] = disk[p]
    BY <2>1, <2>2
  <2> QED BY <2>3, ColumnPaths
<1> HIDE DEF m
<1>3. \A s : Form(s)' = Form(s)
    BY DEF Form
<1>4. Newest = gen - 1 /\ Newest' = gen /\ gen \in Nat /\ disk[Log] = gen /\ gen # 0
    BY <1>2, BoundsAssumption DEF Newest, OnDisk, LogInPlace, IInv, TypeOK
<1>5. \A s \in Numbers : s \in Nat /\ s # 0
    BY ColumnPaths
<1>6. \A s \in Numbers : s # 1 => /\ Here(s)' = Here(s) /\ Here(s) = Form(s)
                                  /\ Age(s) = s - 1 /\ Age(s)' = s
    BY <1>3, <1>5 DEF Here, Age
<1>7. Here(1) = "none" /\ Here(1)' = m /\ Age(1)' = 1
    BY <1>1, <1>3 DEF Here, Age
<1>8. \A s : ~Removed(s) /\ ~Removed(s)'
    BY DEF Removed
<1>9. NoGap' /\ OldestCompressed'
    BY <1>3 DEF NoGap, OldestCompressed
<1>10. FilesInPlace'
  <2> SUFFICES ASSUME NEW s \in Numbers, Here(s)' # "none"
               PROVE  /\ Age(s)' <= gen
                      /\ disk'[<<s, Here(s)'>>] \in {gen + 1 - Age(s)', Age(s)' - (gen + 1)}
    BY <1>4, <1>8 DEF FilesInPlace
  <2>1. CASE s = 1
    BY <1>2, <1>4, <1>7, <2>1
  <2>2. CASE s # 1
    <3>1. Here(s)' = Here(s) /\ Age(s) = s - 1 /\ Age(s)' = s /\ Here(s) = Form(s)
      BY <1>6, <2>2
    <3>2. Here(s) \in Forms
      BY <3>1 DEF Form, IInv, TypeOK, CascadeBelowEnd, Forms
    <3>3. disk'[<<s, Here(s)>>] = disk[<<s, Here(s)>>]
      BY <1>2, <2>2, <3>2
    <3>4. /\ s - 1 <= gen - 1
          /\ disk[<<s, Here(s)>>] \in {(gen - 1) + 1 - (s - 1), (s - 1) - ((gen - 1) + 1)}
      BY <1>4, <1>8, <3>1 DEF FilesInPlace
    <3>5. /\ s <= gen
          /\ (gen - 1) + 1 - (s - 1) = gen + 1 - s /\ (s - 1) - ((gen - 1) + 1) = s - (gen + 1)
      BY <1>4, <1>5, <3>4
    <3> QED BY <3>1, <3>3, <3>4, <3>5
  <2> QED BY <2>1, <2>2
<1>11. NoStrayPlain'
  <2> SUFFICES ASSUME NEW s \in Numbers
               PROVE  /\ disk'[<<s, "plain">>] >= 0
                      /\ disk'[<<s, "plain">>] # 0 => Here(s)' = "plain"
    BY DEF NoStrayPlain
  <2>1. CASE s # 1
    <3>1. disk'[<<s, "plain">>] = disk[<<s, "plain">>]
      BY <1>2, <2>1 DEF Forms
    <3> QED BY <1>6, <2>1, <3>1 DEF NoStrayPlain
  <2>2. CASE s = 1 /\ m = "plain"
    BY <1>2, <1>4, <1>7, <2>2
  <2>3. CASE s = 1 /\ m = "gz"
    <3>1. disk[<<1, "plain">>] = 0
      BY <1>1, <1>7 DEF NoStrayPlain
    <3>2. disk'[<<1, "plain">>] = disk[<<1, "plain">>]
      BY <1>1, <1>2, <2>3 DEF Forms
    <3> QED BY <2>3, <3>1, <3>2
  <2> QED BY <1>1, <2>1, <2>2, <2>3 DEF Forms
<1>12. StrayCopies'
  <2>1. ASSUME NEW s \in Numbers, disk'[<<s, "gz">>] # 0, Here(s)' # "gz"
        PROVE  disk[<<s, "gz">>] # 0 /\ Here(s) # "gz"
    <3>1. CASE s # 1
      BY <1>2, <1>6, <2>1, <3>1 DEF Forms
    <3>2. CASE s = 1
      <4>1. m = "plain"
        BY <1>1, <1>7, <2>1, <3>2 DEF Forms
      <4> QED BY <1>1, <1>2, <1>7, <2>1, <3>2, <4>1 DEF Forms
    <3> QED BY <3>1, <3>2
  <2> QED BY <1>3, <2>1 DEF StrayCopies, Limit
<1>13. LogInPlace' /\ Compressing'
    BY <1>2 DEF LogInPlace, Compressing
<1>14. LimitKept'
    BY <1>3 DEF LimitKept, Known, Limit
<1>15. CopiesFollow
  <2> SUFFICES ASSUME NEW s \in Numbers, disk'[<<s, "gz">>] # 0
               PROVE  \/ disk'[<<s, "gz">>] > 0 /\ Here(s)' = "gz"
                      \/ /\ disk[<<s, "gz">>] = disk'[<<s, "gz">>]
                         /\ Here(s) = "gz" => Here(s)' = "gz"
    BY DEF CopiesFollow
  <2>1. CASE s # 1
    <3>1. disk'[<<s, "gz">>] = disk[<<s, "gz">>]
      BY <1>2, <2>1 DEF Forms
    <3> QED BY <1>6, <2>1, <3>1
  <2>2. CASE s = 1 /\ m = "gz"
    BY <1>2, <1>4, <1>7, <2>2
  <2>3. CASE s = 1 /\ m = "plain"
    <3>1. disk'[<<1, "gz">>] = disk[<<1, "gz">>]
      BY <1>1, <1>2, <2>3 DEF Forms
    <3> QED BY <1>1, <1>7, <2>3, <3>1
  <2> QED BY <1>1, <2>1, <2>2, <2>3 DEF Forms
<1> QED BY <1>9, <1>10, <1>11, <1>12, <1>13, <1>14, <1>15

\* handle_old_files runs outside the cascade, on files of the archive.
LEMMA HandlerOutside ==
    ASSUME IInv, hpc # "none", UNCHANGED <<pc, gen, disk[Log], at, end, carried>>
    PROVE  /\ ~Cascading /\ ~Cascading' /\ pc # "move" /\ pc' # "move"
           /\ Newest' = Newest /\ Limit' = Limit
           /\ \A s \in Numbers : /\ Here(s) = Form(s) /\ Here(s)' = Form(s)'
                                 /\ Age(s) = s /\ Age(s)' = s
<1>1. ~Cascading /\ ~Cascading' /\ pc # "move" /\ pc' # "move"
    BY DEF Cascading, IInv, HandleHeld
<1> QED BY <1>1 DEF Newest, OnDisk, Limit, Here, Age

LEMMA LayoutTrim ==
    ASSUME IInv, Layout, Trim, "remove" \notin Faults, pc \notin Panicked
    PROVE  Layout' /\ CopiesFollow
<1> USE DEF Layout, cascade
<1>1. PICK r \in Older : TooOld(r) /\ hpos' = r /\ disk' = [disk EXCEPT ![FileOf(r)] = 0] /\ faults' = faults
    BY DEF Trim, Fault
<1>2. /\ UNCHANGED <<gen, suffixes, pc, at, end, carried, th, hpc, hcur>> /\ hpc = "trim"
      /\ disk \in [Path -> -MaxGen..MaxGen]
    BY DEF Trim, IInv, TypeOK
<1>3. /\ r \in Numbers /\ r \in Nat /\ r # 0 /\ r \in Known /\ suffixes[r] \in Forms /\ suffixes[r] # "none"
      /\ r < hpos /\ UpkeepKind # "all" /\ \A t \in Known : t > r => t >= hpos
    BY <1>1, ColumnPaths DEF Older, Known, IInv, TypeOK, Forms
<1>4. /\ disk'[<<r, suffixes[r]>>] = 0
      /\ \A s \in Numbers, g \in Forms : <<s, g>> # <<r, suffixes[r]>> => disk'[<<s, g>>] = disk[<<s, g>>]
      /\ disk'[Log] = disk[Log]
  <2>1. <<r, suffixes[r]>> \in Path /\ <<r, suffixes[r]>> # Log
    BY <1>3, ColumnPaths
  <2>2. disk' = [disk EXCEPT ![<<r, suffixes[r]>>] = 0]
    BY <1>1 DEF FileOf
  <2>3. disk'[<<r, suffixes[r]>>] = 0 /\ \A p \in Path : p # <<r, suffixes[r]>> => disk'[p] = disk[p]
    BY <1>2, <2>1, <2>2, OneFile
  <2> QED BY <2>1, <2>3, ColumnPaths
<1>5. /\ ~Cascading /\ ~Cascading' /\ Newest' = Newest /\ Limit' = Limit
      /\ \A s \in Numbers : Here(s) = Form(s) /\ Here(s)' = Form(s)' /\ Age(s) = s /\ Age(s)' = s
  <2>1. hpc # "none" /\ UNCHANGED <<pc, gen, disk[Log], at, end, carried>>
    BY <1>2, <1>4
  <2> QED BY <2>1, HandlerOutside
<1>6. \A s \in Numbers : Form(s) = suffixes[s] /\ Form(s)' = suffixes[s] /\ s \in Nat
    BY <1>2, <1>5, ColumnPaths DEF Form
<1>7. hpos \in Nat
    BY BoundsAssumption DEF IInv, TypeOK
<1>8. NoGap' /\ OldestCompressed'
    BY <1>6 DEF NoGap, OldestCompressed
<1>9. FilesInPlace'
  <2> SUFFICES ASSUME NEW s \in Numbers, suffixes[s] # "none"
               PROVE  /\ s <= Newest
                      /\ s >= r => disk'[<<s, suffixes[s]>>] = 0
                      /\ ~(s >= r) => disk'[<<s, suffixes[s]>>] \in {Newest + 1 - s, s - (Newest + 1)}
    BY <1>1, <1>2, <1>5, <1>6 DEF FilesInPlace, Removed
  <2>1. suffixes[s] \in Forms /\ s \in Known
    BY DEF IInv, TypeOK, Known
  <2>2. /\ s <= Newest
        /\ s >= hpos => disk[<<s, suffixes[s]>>] = 0
        /\ ~(s >= hpos) => disk[<<s, suffixes[s]>>] \in {Newest + 1 - s, s - (Newest + 1)}
    BY <1>2, <1>5, <1>6 DEF FilesInPlace, Removed
  <2>3. CASE s = r
    BY <1>3, <1>4, <2>2, <2>3
  <2>4. CASE s # r
    <3>1. disk'[<<s, suffixes[s]>>] = disk[<<s, suffixes[s]>>]
      BY <1>4, <2>1, <2>4
    <3>2. s >= r => s >= hpos
      BY <1>3, <1>6, <2>1, <2>4
    <3>3. ~(s >= r) => ~(s >= hpos)
      BY <1>3, <1>6, <1>7
    <3> QED BY <2>2, <3>1, <3>2, <3>3
  <2> QED BY <2>3, <2>4
<1>10. \A s \in Numbers, g \in Forms : disk'[<<s, g>>] = disk[<<s, g>>] \/ disk'[<<s, g>>] = 0
    BY <1>4
<1>11. NoStrayPlain'
  <2> SUFFICES ASSUME NEW s \in Numbers
               PROVE  disk'[<<s, "plain">>] >= 0 /\ (disk'[<<s, "plain">>] # 0 => Here(s)' = "plain")
    BY DEF NoStrayPlain
  <2>1. disk'[<<s, "plain">>] = disk[<<s, "plain">>] \/ disk'[<<s, "plain">>] = 0
    BY <1>10 DEF Forms
  <2> QED BY <1>5, <1>6, <2>1 DEF NoStrayPlain
<1>12. StrayCopies'
  <2>1. ASSUME NEW s \in Numbers, disk'[<<s, "gz">>] # 0 PROVE disk[<<s, "gz">>] # 0
    BY <1>10, <2>1 DEF Forms
  <2> QED BY <1>5, <1>6, <2>1 DEF StrayCopies
<1>13. LogInPlace' /\ Compressing'
    BY <1>2, <1>4 DEF LogInPlace, Compressing
<1>14. LimitKept'
  <2>1. r > Limit
    <3>1. Rank(r) = r - 1
      BY <1>2, <1>3, <1>5, RankIs
    <3> QED BY <1>1, <1>3, <3>1, MaxFilesAssumption DEF TooOld, Limit
  <2>2. Known' = Known
    BY <1>2 DEF Known
  <2> QED BY <1>1, <1>2, <1>3, <1>5, <1>6, <2>1, <2>2 DEF LimitKept
<1>15. CopiesFollow
  <2>1. ASSUME NEW s \in Numbers, disk'[<<s, "gz">>] # 0 PROVE disk[<<s, "gz">>] = disk'[<<s, "gz">>]
    BY <1>10, <2>1 DEF Forms
  <2> QED BY <1>5, <1>6, <2>1 DEF CopiesFollow
<1> QED BY <1>8, <1>9, <1>11, <1>12, <1>13, <1>14, <1>15

\* When the retention loop stops, what is left is what the policy keeps.
LEMMA LayoutTrimDone ==
    ASSUME IInv, Layout, TrimDone, pc \notin Panicked
    PROVE  Layout' /\ CopiesFollow
<1> USE DEF Layout, cascade
<1>1. /\ UNCHANGED <<disk, gen, pc, at, end, carried, th, hpos, hcur>> /\ hpc = "trim" /\ hpc' = "compress"
      /\ \A s \in Older : ~TooOld(s)
      /\ suffixes \in [Numbers -> Forms \cup {"none"}] /\ hpos \in Nat
      /\ \A s \in Numbers : suffixes'[s] = IF s >= hpos THEN "none" ELSE suffixes[s]
    BY BoundsAssumption DEF TrimDone, IInv, TypeOK, Dropped
<1>2. /\ ~Cascading /\ ~Cascading' /\ Newest' = Newest /\ Limit' = Limit
      /\ \A s \in Numbers : Here(s) = Form(s) /\ Here(s)' = Form(s)' /\ Age(s) = s /\ Age(s)' = s
  <2>1. hpc # "none" /\ UNCHANGED <<pc, gen, disk[Log], at, end, carried>>
    BY <1>1
  <2> QED BY <2>1, HandlerOutside
<1>3. \A s \in Numbers : /\ Form(s) = suffixes[s] /\ s \in Nat /\ s # 0 /\ s <= MaxSuffix
                         /\ Form(s)' = IF s >= hpos THEN "none" ELSE suffixes[s]
    BY <1>1, <1>2, ColumnPaths DEF Form
<1>4. \/ hpos = MaxSuffix + 1
      \/ UpkeepKind # "all" /\ hpos > Limit /\ hpos \in Known
    BY <1>1 DEF LimitKept
<1>5. NoGap' /\ OldestCompressed'
  <2>1. NoGap'
    BY <1>1, <1>3 DEF NoGap
  <2>2. OldestCompressed'
    BY <1>1, <1>3 DEF OldestCompressed
  <2> QED BY <2>1, <2>2
<1>6. FilesInPlace'
    BY <1>1, <1>2, <1>3 DEF FilesInPlace, Removed
\* A file the set forgets is gone, and so is every copy of it.
<1>7. ASSUME NEW s \in Numbers, s >= hpos
      PROVE  disk[<<s, "plain">>] = 0 /\ disk[<<s, "gz">>] = 0
  <2>1. Limit \in Nat /\ MaxSuffix \in Nat
    BY MaxFilesAssumption, BoundsAssumption DEF Limit
  <2>2. hpos # MaxSuffix + 1
    BY <1>3, <1>7, <2>1
  <2>3. UpkeepKind # "all" /\ s > Limit
    BY <1>1, <1>3, <1>4, <1>7, <2>1, <2>2
  <2>4. Here(s) # "none" => disk[<<s, Here(s)>>] = 0
    BY <1>1, <1>7 DEF FilesInPlace, Removed
  <2>5. disk[<<s, "plain">>] = 0
    BY <2>4 DEF NoStrayPlain
  <2>6. disk[<<s, "gz">>] # 0 => Here(s) = "gz"
    BY <1>3, <2>1, <2>3 DEF StrayCopies
  <2> QED BY <2>4, <2>5, <2>6
<1>8. NoStrayPlain'
  <2> SUFFICES ASSUME NEW s \in Numbers
               PROVE  disk[<<s, "plain">>] >= 0 /\ (disk[<<s, "plain">>] # 0 => Form(s)' = "plain")
    BY <1>1, <1>2 DEF NoStrayPlain
  <2>1. disk[<<s, "plain">>] >= 0 /\ (disk[<<s, "plain">>] # 0 => Form(s) = "plain")
    BY <1>2 DEF NoStrayPlain
  <2>2. ~(s >= hpos) => Form(s)' = Form(s)
    BY <1>3
  <2> QED BY <1>7, <2>1, <2>2
<1>9. StrayCopies'
  <2> SUFFICES ASSUME NEW s \in Numbers, disk[<<s, "gz">>] # 0, Form(s)' # "gz"
               PROVE  /\ UpkeepKind # "all" => s <= Limit
                      /\ \A t \in Numbers : t <= s => Form(t)' = "plain"
    BY <1>1, <1>2 DEF StrayCopies
  <2>1. ~(s >= hpos)
    BY <1>7
  <2>2. /\ UpkeepKind # "all" => s <= Limit
        /\ \A t \in Numbers : t <= s => Form(t) = "plain"
    BY <1>2, <1>3, <2>1 DEF StrayCopies
  <2> QED BY <1>1, <1>3, <2>1, <2>2
<1>10. LogInPlace' /\ Compressing'
    BY <1>1 DEF LogInPlace, Compressing
<1>11. LimitKept'
  <2>1. Limit \in Nat /\ MaxSuffix \in Nat
    BY MaxFilesAssumption, BoundsAssumption DEF Limit
  <2>2. ASSUME UpkeepKind # "all", NEW s \in Known, s < hpos PROVE s <= Limit
    \* The suffix the loop looked at last: the largest one left.
    <3>1. s \in Numbers /\ s \in Nat /\ s # 0
      BY <1>3 DEF Known
    <3>2. PICK l \in Known : s <= l /\ l < hpos /\ \A t \in Known : t > l => t >= hpos
      <4>1. CASE hpos = MaxSuffix + 1
        <5>1. end \in Known /\ \A t \in Known : t <= end
          BY <1>1 DEF LimitKept
        <5>2. end \in Nat /\ end < hpos
          BY <1>3, <2>1, <4>1, <5>1 DEF Known
        <5>3. \A t \in Known : t \in Nat
          BY <1>3 DEF Known
        <5> QED BY <5>1, <5>2, <5>3
      <4>2. CASE hpos \in Known
        <5>1. hpos - 1 \in Numbers /\ hpos - 1 < hpos /\ hpos \in Numbers /\ s <= hpos - 1
          BY <1>1, <1>3, <2>1, <2>2, <3>1, <4>2 DEF Known, Numbers
        <5>2. suffixes[hpos] # "none"
          BY <4>2 DEF Known
        <5>3. hpos - 1 \in Known
          BY <1>3, <5>1, <5>2 DEF NoGap, Known
        <5>4. \A t \in Known : t > hpos - 1 => t >= hpos
          BY <1>1, <1>3 DEF Known
        <5> QED BY <5>1, <5>3, <5>4
      <4> QED BY <1>4, <4>1, <4>2
    <3>3. l \in Older
      BY <2>2, <3>2 DEF Older
    <3>4. Rank(l) = l - 1
      BY <1>1, <1>2, RankIs
    <3>5. l - 1 < Limit /\ l \in Nat
      BY <1>1, <1>3, <2>1, <3>3, <3>4 DEF TooOld, Known
    <3> QED BY <2>1, <3>1, <3>2, <3>5
  <2>3. ASSUME UpkeepKind # "all", NEW s \in Known' PROVE s <= Limit
    <3>1. s \in Known /\ s < hpos
      BY <1>1, <1>3 DEF Known
    <3> QED BY <2>2, <2>3, <3>1
  <2>4. ASSUME NEW s \in Nat, 0 < s, s <= Newest, UpkeepKind = "all" \/ s <= Limit
        PROVE  s \in Numbers /\ Form(s)' # "none"
    <3>1. s \in Numbers /\ Form(s) # "none"
      BY <1>2, <2>4 DEF LimitKept
    <3>2. ~(s >= hpos)
      BY <1>1, <1>3, <1>4, <2>1, <2>4, <3>1
    <3> QED BY <1>3, <3>1, <3>2
  <2> QED BY <1>1, <1>2, <2>3, <2>4 DEF LimitKept
<1>12. CopiesFollow
  <2>1. ASSUME NEW s \in Numbers, disk[<<s, "gz">>] # 0 PROVE Here(s)' = Here(s)
    <3>1. ~(s >= hpos)
      BY <1>7, <2>1
    <3> QED BY <1>2, <1>3, <3>1
  <2>2. disk' = disk
    BY <1>1
  <2> QED BY <2>1, <2>2 DEF CopiesFollow
<1> QED BY <1>5, <1>6, <1>8, <1>9, <1>10, <1>11, <1>12

\* The steps of compress() that leave the files alone.
LEMMA LayoutHandlerOnly ==
    ASSUME IInv, Layout, hpc \notin {"none", "trim", "finish"}, hpc' \notin {"trim", "finish"},
           UNCHANGED <<disk, gen, suffixes, pc, at, end, carried>>, Compressing'
    PROVE  Layout'
<1> SUFFICES ASSUME pc \notin Panicked PROVE Layout'
    BY DEF Layout
<1> USE DEF Layout
<1>1. /\ ~Cascading /\ ~Cascading' /\ Newest' = Newest /\ Limit' = Limit /\ Known' = Known
      /\ \A s \in Numbers : Here(s) = Form(s) /\ Here(s)' = Form(s)' /\ Age(s) = s /\ Age(s)' = s
    BY HandlerOutside DEF Known
<1>2. \A s \in Numbers : Form(s) = suffixes[s] /\ Form(s)' = suffixes[s] /\ ~Removed(s) /\ ~Removed(s)'
    BY <1>1 DEF Form, Removed
<1>3. NoGap' /\ OldestCompressed'
    BY <1>2 DEF NoGap, OldestCompressed
<1>4. FilesInPlace'
    BY <1>1, <1>2 DEF FilesInPlace
<1>5. NoStrayPlain' /\ StrayCopies'
    BY <1>1, <1>2 DEF NoStrayPlain, StrayCopies
<1>6. LogInPlace'
    BY DEF LogInPlace, IInv, LogToCome
<1>7. LimitKept'
    BY <1>1, <1>2 DEF LimitKept
<1> QED BY <1>3, <1>4, <1>5, <1>6, <1>7

LEMMA LayoutCompressOpen ==
    ASSUME IInv, Layout, CompressOpen
    PROVE  Layout'
<1> SUFFICES ASSUME pc \notin Panicked PROVE Layout'
    BY DEF CompressOpen, Layout
<1> USE DEF Layout, cascade
<1>1. PICK r \in NextToCompress :
        /\ hcur' = r
        /\ \/ /\ OnDisk(FileOf(r))
              /\ disk' = [disk EXCEPT ![<<r, "gz">>] = - disk[FileOf(r)]]
              /\ hpc' = "copy"
           \/ UNCHANGED disk /\ hpc' = "none"
    BY DEF CompressOpen
<1>2. /\ UNCHANGED <<gen, suffixes, pc, at, end, carried, th, hpos>> /\ hpc = "compress"
      /\ disk \in [Path -> -MaxGen..MaxGen]
    BY DEF CompressOpen, IInv, TypeOK
<1>3. CASE UNCHANGED disk /\ hpc' = "none"
  <2>1. Compressing'
    BY <1>3 DEF Compressing
  <2> QED BY <1>2, <1>3, <2>1, LayoutHandlerOnly
<1>4. CASE /\ OnDisk(FileOf(r))
           /\ disk' = [disk EXCEPT ![<<r, "gz">>] = - disk[FileOf(r)]]
           /\ hpc' = "copy"
  <2>1. /\ r \in Numbers /\ r \in Nat /\ r \in Known /\ suffixes[r] = "plain" /\ Rank(r) >= Exclude
        /\ Compress /\ \A t \in ToCompress : t <= r
    BY <1>1, ColumnPaths DEF NextToCompress, ToCompress, Known
  <2>2. /\ disk'[<<r, "gz">>] = - disk[<<r, "plain">>] /\ disk[<<r, "plain">>] # 0
        /\ \A s \in Numbers, g \in Forms : <<s, g>> # <<r, "gz">> => disk'[<<s, g>>] = disk[<<s, g>>]
        /\ disk'[Log] = disk[Log]
    <3>1. <<r, "gz">> \in Path /\ <<r, "gz">> # Log
      BY <2>1, ColumnPaths DEF Forms
    <3>2. disk' = [disk EXCEPT ![<<r, "gz">>] = - disk[<<r, "plain">>]] /\ disk[<<r, "plain">>] # 0
      BY <1>4, <2>1 DEF FileOf, OnDisk
    <3>3. /\ disk'[<<r, "gz">>] = - disk[<<r, "plain">>]
          /\ \A p \in Path : p # <<r, "gz">> => disk'[p] = disk[p]
      BY <1>2, <3>1, <3>2, OneFile
    <3> QED BY <3>1, <3>2, <3>3, ColumnPaths
  <2>3. /\ ~Cascading /\ ~Cascading' /\ Newest' = Newest /\ Limit' = Limit /\ Known' = Known
        /\ \A s \in Numbers : Here(s) = Form(s) /\ Here(s)' = Form(s)' /\ Age(s) = s /\ Age(s)' = s
    <3>1. hpc # "none" /\ UNCHANGED <<pc, gen, disk[Log], at, end, carried>>
      BY <1>2, <2>2
    <3> QED BY <1>2, <3>1, HandlerOutside DEF Known
  <2>4. \A s \in Numbers : /\ Form(s) = suffixes[s] /\ Form(s)' = suffixes[s] /\ ~Removed(s) /\ ~Removed(s)'
                           /\ suffixes[s] \in Forms \cup {"none"} /\ s \in Nat
    BY <1>2, <1>4, <2>3, ColumnPaths DEF Form, Removed, IInv, TypeOK
  <2>5. NoGap' /\ OldestCompressed'
    BY <2>4 DEF NoGap, OldestCompressed
  <2>6. FilesInPlace'
    <3> SUFFICES ASSUME NEW s \in Numbers, suffixes[s] # "none"
                 PROVE  s <= Newest /\ disk'[<<s, suffixes[s]>>] \in {Newest + 1 - s, s - (Newest + 1)}
      BY <2>3, <2>4 DEF FilesInPlace
    <3>1. s <= Newest /\ disk[<<s, suffixes[s]>>] \in {Newest + 1 - s, s - (Newest + 1)}
      BY <2>3, <2>4 DEF FilesInPlace
    <3>2. disk'[<<s, suffixes[s]>>] = disk[<<s, suffixes[s]>>]
      BY <2>1, <2>2, <2>4
    <3> QED BY <3>1, <3>2
  <2>7. \A s \in Numbers : disk'[<<s, "plain">>] = disk[<<s, "plain">>]
    BY <2>2 DEF Forms
  <2>8. NoStrayPlain'
    <3>1. NoStrayPlain
      OBVIOUS
    <3> HIDE DEF Layout
    <3> SUFFICES ASSUME NEW s \in Numbers
                 PROVE  /\ disk'[<<s, "plain">>] >= 0
                        /\ disk'[<<s, "plain">>] # 0 => Here(s)' = "plain"
      BY DEF NoStrayPlain
    <3> QED BY <2>3, <2>4, <2>7, <3>1 DEF NoStrayPlain
  <2>9. StrayCopies'
    <3>1. ASSUME NEW t \in Numbers, t <= r PROVE suffixes[t] = "plain"
      <4>1. t < r => suffixes[t] # "none"
        BY <2>1, <2>4 DEF NoGap
      <4>2. t < r => suffixes[t] # "gz"
        BY <2>1, <2>4 DEF OldestCompressed
      <4> QED BY <2>1, <2>4, <3>1, <4>1, <4>2 DEF Forms
    <3>2. UpkeepKind # "all" => r <= Limit
      BY <1>2, <2>1, <2>3 DEF LimitKept
    <3>3. ASSUME NEW s \in Numbers, s # r, disk'[<<s, "gz">>] # 0, suffixes[s] # "gz"
          PROVE  /\ UpkeepKind # "all" => s <= Limit
                 /\ \A t \in Numbers : t <= s => suffixes[t] = "plain"
      <4>1. disk[<<s, "gz">>] # 0
        BY <2>2, <3>3 DEF Forms
      <4> QED BY <2>3, <2>4, <3>3, <4>1 DEF StrayCopies
    <3> QED BY <2>3, <2>4, <3>1, <3>2, <3>3 DEF StrayCopies
  <2>10. LogInPlace'
    BY <1>2, <2>2 DEF LogInPlace, IInv, LogToCome
  <2>11. Compressing'
    <3>1. disk'[<<r, "gz">>] < 0 /\ disk[<<r, "plain">>] = - disk'[<<r, "gz">>]
      <4>1. <<r, "plain">> \in Path
        BY <2>1, ColumnPaths DEF Forms
      <4>2. disk[<<r, "plain">>] \in Int
        BY <1>2, <4>1, BoundsAssumption
      <4>3. disk[<<r, "plain">>] >= 0
        BY <2>1 DEF NoStrayPlain
      <4> QED BY <2>2, <4>2, <4>3
    <3>2. disk'[<<r, "plain">>] = - disk'[<<r, "gz">>]
      BY <2>1, <2>7, <3>1
    <3>3. ASSUME NEW t \in Numbers, t > r PROVE suffixes[t] # "plain"
      <4> SUFFICES ASSUME suffixes[t] = "plain" PROVE FALSE
        OBVIOUS
      <4>1. t \in Known
        BY DEF Known
      <4>2. Rank(t) = t - 1 /\ Rank(r) = r - 1
        BY <1>2, <2>1, <2>3, <4>1, RankIs
      <4>3. Rank(t) >= Exclude
        BY <2>1, <2>4, <3>3, <4>2, CompressAssumption
      <4>4. t \in ToCompress
        BY <2>1, <4>1, <4>3 DEF ToCompress
      <4> QED BY <2>1, <2>4, <3>3, <4>4
    <3> QED BY <1>1, <1>2, <2>1, <3>1, <3>2, <3>3 DEF Compressing
  <2>12. LimitKept'
    BY <1>2, <1>4, <2>3, <2>4 DEF LimitKept
  <2> QED BY <2>5, <2>6, <2>8, <2>9, <2>10, <2>11, <2>12
<1> QED BY <1>1, <1>3, <1>4

LEMMA LayoutCopyOrDone ==
    ASSUME IInv, Layout, CompressCopy \/ CompressDone
    PROVE  Layout'
<1> SUFFICES ASSUME pc \notin Panicked PROVE Layout'
    BY DEF CompressCopy, CompressDone, Layout
<1>1. /\ hpc \in {"copy", "compress"} /\ hpc' \in {"unlink", "none"} /\ (hpc' = "unlink" => hpc = "copy")
      /\ UNCHANGED <<disk, gen, suffixes, pc, at, end, carried, hcur>>
    BY DEF CompressCopy, CompressDone, cascade
<1>2. Compressing'
    BY <1>1 DEF Layout, Compressing
<1> QED BY <1>1, <1>2, LayoutHandlerOnly

\* The source of a finished copy goes, or stays beside the copy.
LEMMA LayoutCompressUnlink ==
    ASSUME IInv, Layout, CompressUnlink
    PROVE  Layout'
<1> SUFFICES ASSUME pc \notin Panicked PROVE Layout'
    BY DEF CompressUnlink, Layout
<1> USE DEF Layout, cascade
<1>1. /\ UNCHANGED <<gen, suffixes, pc, at, end, carried, th, hpos, hcur>> /\ hpc = "unlink"
      /\ disk \in [Path -> -MaxGen..MaxGen] /\ hcur \in Numbers
      /\ suffixes \in [Numbers -> Forms \cup {"none"}]
      /\ suffixes[hcur] = "plain" /\ disk[<<hcur, "gz">>] < 0
      /\ disk[<<hcur, "plain">>] = - disk[<<hcur, "gz">>]
      /\ \A t \in Numbers : t > hcur => suffixes[t] # "plain"
    BY DEF CompressUnlink, IInv, TypeOK, CompressesArchived, Compressing
<1>2. /\ <<hcur, "plain">> \in Path /\ <<hcur, "plain">> # Log /\ disk[<<hcur, "plain">>] \in Int
      /\ <<hcur, "gz">> \in Path /\ <<hcur, "gz">> # Log /\ disk[<<hcur, "gz">>] \in Int
    BY <1>1, ColumnPaths, BoundsAssumption DEF Forms
<1>3. OnDisk(<<hcur, "plain">>)
    BY <1>1, <1>2 DEF OnDisk
<1>4. ASSUME disk'[Log] = disk[Log]
      PROVE  /\ ~Cascading /\ ~Cascading' /\ Newest' = Newest /\ Limit' = Limit /\ Known' = Known
             /\ \A s \in Numbers : Here(s) = Form(s) /\ Here(s)' = Form(s)' /\ Age(s) = s /\ Age(s)' = s
    BY <1>1, <1>4, HandlerOutside DEF Known
<1>5. CASE disk' = [disk EXCEPT ![<<hcur, "plain">>] = 0] /\ hpc' = "finish"
  <2>1. /\ disk'[<<hcur, "plain">>] = 0 /\ disk'[Log] = disk[Log]
        /\ \A s \in Numbers, g \in Forms : <<s, g>> # <<hcur, "plain">> => disk'[<<s, g>>] = disk[<<s, g>>]
    <3>1. /\ disk'[<<hcur, "plain">>] = 0
          /\ \A p \in Path : p # <<hcur, "plain">> => disk'[p] = disk[p]
      BY <1>1, <1>2, <1>5, OneFile
    <3> QED BY <1>2, <3>1, ColumnPaths
  <2>2. /\ ~Cascading /\ ~Cascading' /\ Newest' = Newest /\ Limit' = Limit /\ Known' = Known
        /\ \A s \in Numbers : Here(s) = Form(s) /\ Here(s)' = Form(s)' /\ Age(s) = s /\ Age(s)' = s
    BY <1>4, <2>1
  <2>3. \A s \in Numbers : /\ Form(s) = suffixes[s] /\ Form(s)' = (IF s = hcur THEN "gz" ELSE suffixes[s])
                           /\ ~Removed(s) /\ ~Removed(s)' /\ s \in Nat
                           /\ suffixes[s] \in Forms \cup {"none"}
    BY <1>1, <1>5, <2>2, ColumnPaths DEF Form, Removed
  <2>4. NoGap'
    BY <1>1, <2>3 DEF NoGap
  <2>5. OldestCompressed'
    <3> SUFFICES ASSUME NEW s \in Numbers, NEW t \in Numbers, s < t, Form(s)' = "gz", Form(t)' # "none",
                        t # hcur
                 PROVE  suffixes[t] = "gz"
      BY <2>3 DEF OldestCompressed
    <3>1. CASE s = hcur
      BY <1>1, <2>3, <3>1 DEF Forms
    <3>2. CASE s # hcur
      BY <2>3, <3>2 DEF OldestCompressed
    <3> QED BY <3>1, <3>2
  <2>6. FilesInPlace'
    <3> SUFFICES ASSUME NEW s \in Numbers, suffixes[s] # "none"
                 PROVE  s <= Newest /\ disk'[<<s, Form(s)'>>] \in {Newest + 1 - s, s - (Newest + 1)}
      BY <1>1, <2>2, <2>3 DEF FilesInPlace
    <3>1. s <= Newest /\ disk[<<s, suffixes[s]>>] \in {Newest + 1 - s, s - (Newest + 1)}
      BY <2>2, <2>3 DEF FilesInPlace
    <3>2. CASE s = hcur
      <4>1. disk'[<<s, Form(s)'>>] = disk[<<hcur, "gz">>]
        BY <2>1, <2>3, <3>2 DEF Forms
      <4>2. Newest \in Int
        BY BoundsAssumption DEF Newest, IInv, TypeOK
      <4>3. s \in Nat /\ disk[<<hcur, "plain">>] \in {Newest + 1 - s, s - (Newest + 1)}
        BY <1>1, <2>3, <3>1, <3>2
      <4>4. disk[<<hcur, "gz">>] = - disk[<<hcur, "plain">>]
        BY <1>1, <1>2
      <4>5. disk[<<hcur, "gz">>] \in {Newest + 1 - s, s - (Newest + 1)}
        BY <4>2, <4>3, <4>4
      <4> QED BY <3>1, <4>1, <4>5
    <3>3. CASE s # hcur
      <4>1. disk'[<<s, Form(s)'>>] = disk[<<s, suffixes[s]>>]
        BY <2>1, <2>3, <3>3
      <4> QED BY <3>1, <4>1
    <3> QED BY <3>2, <3>3
  <2>7. NoStrayPlain'
    <3> SUFFICES ASSUME NEW s \in Numbers
                 PROVE  disk'[<<s, "plain">>] >= 0 /\ (disk'[<<s, "plain">>] # 0 => Form(s)' = "plain")
      BY <2>2 DEF NoStrayPlain
    <3>1. CASE s = hcur
      <4>1. disk'[<<s, "plain">>] = 0
        BY <2>1, <3>1
      <4> QED BY <4>1
    <3>2. CASE s # hcur
      <4>1. disk'[<<s, "plain">>] = disk[<<s, "plain">>] /\ Form(s)' = Form(s)
        BY <2>1, <2>3, <3>2 DEF Forms
      <4>2. disk[<<s, "plain">>] >= 0 /\ (disk[<<s, "plain">>] # 0 => Form(s) = "plain")
        BY <2>2 DEF NoStrayPlain
      <4> QED BY <4>1, <4>2
    <3> QED BY <3>1, <3>2
  <2>8. StrayCopies'
    <3> SUFFICES ASSUME NEW s \in Numbers, disk'[<<s, "gz">>] # 0, Form(s)' # "gz"
                 PROVE  /\ UpkeepKind # "all" => s <= Limit
                        /\ \A t \in Numbers : t <= s => Form(t)' = "plain"
      BY <2>2 DEF StrayCopies
    <3>1. s # hcur /\ Form(s) # "gz" /\ disk[<<s, "gz">>] # 0
      BY <2>1, <2>3 DEF Forms
    <3>2. /\ UpkeepKind # "all" => s <= Limit
          /\ \A t \in Numbers : t <= s => suffixes[t] = "plain"
      BY <2>2, <2>3, <3>1 DEF StrayCopies
    <3>3. ~(hcur <= s)
      BY <1>1, <2>3, <3>1, <3>2
    <3> QED BY <2>3, <3>2, <3>3
  <2>9. LogInPlace'
    BY <1>1, <2>1 DEF LogInPlace, IInv, LogToCome
  <2>10. Compressing'
    <3>1. disk'[<<hcur, "gz">>] = disk[<<hcur, "gz">>]
      BY <1>1, <2>1 DEF Forms
    <3> QED BY <1>1, <1>5, <3>1 DEF Compressing
  <2>11. LimitKept'
    BY <1>1, <1>5, <2>2, <2>3 DEF LimitKept
  <2> QED BY <2>4, <2>5, <2>6, <2>7, <2>8, <2>9, <2>10, <2>11
<1>6. CASE hpc' = "none" /\ disk' = Finished(hcur, disk)
  <2>1. /\ disk'[<<hcur, "gz">>] = - disk[<<hcur, "gz">>] /\ disk'[Log] = disk[Log]
        /\ \A s \in Numbers, g \in Forms : <<s, g>> # <<hcur, "gz">> => disk'[<<s, g>>] = disk[<<s, g>>]
    <3>1. /\ disk'[<<hcur, "gz">>] = - disk[<<hcur, "gz">>]
          /\ \A p \in Path : p # <<hcur, "gz">> => disk'[p] = disk[p]
      BY <1>1, <1>2, <1>6, OneFile DEF Finished
    <3> QED BY <1>2, <3>1, ColumnPaths
  <2>2. /\ ~Cascading /\ ~Cascading' /\ Newest' = Newest /\ Limit' = Limit /\ Known' = Known
        /\ \A s \in Numbers : Here(s) = Form(s) /\ Here(s)' = Form(s)' /\ Age(s) = s /\ Age(s)' = s
    BY <1>4, <2>1
  <2>3. \A s \in Numbers : /\ Form(s) = suffixes[s] /\ Form(s)' = suffixes[s]
                           /\ ~Removed(s) /\ ~Removed(s)' /\ suffixes[s] \in Forms \cup {"none"}
    BY <1>1, <1>6, <2>2 DEF Form, Removed
  <2>4. /\ \A s \in Numbers : disk'[<<s, "plain">>] = disk[<<s, "plain">>]
        /\ \A s \in Numbers : disk'[<<s, "gz">>] # 0 => disk[<<s, "gz">>] # 0
        /\ \A s \in Numbers : suffixes[s] # "none" => disk'[<<s, suffixes[s]>>] = disk[<<s, suffixes[s]>>]
    <3>1. \A s \in Numbers : disk'[<<s, "plain">>] = disk[<<s, "plain">>]
      BY <2>1 DEF Forms
    <3>2. \A s \in Numbers : s # hcur => disk'[<<s, "gz">>] = disk[<<s, "gz">>]
      BY <2>1 DEF Forms
    <3>3. disk[<<hcur, "gz">>] # 0
      BY <1>1, <1>2
    <3>4. \A s \in Numbers : disk'[<<s, "gz">>] # 0 => disk[<<s, "gz">>] # 0
      BY <3>2, <3>3
    <3>5. ASSUME NEW s \in Numbers, suffixes[s] # "none"
          PROVE  disk'[<<s, suffixes[s]>>] = disk[<<s, suffixes[s]>>]
      <4>1. suffixes[s] = "plain" \/ (suffixes[s] = "gz" /\ s # hcur)
        BY <1>1, <2>3, <3>5 DEF Forms
      <4> QED BY <3>1, <3>2, <4>1
    <3> QED BY <3>1, <3>4, <3>5
  <2>5. NoGap' /\ OldestCompressed'
    BY <2>3 DEF NoGap, OldestCompressed
  <2>6. FilesInPlace'
    BY <2>2, <2>3, <2>4 DEF FilesInPlace
  <2>7. NoStrayPlain' /\ StrayCopies'
    BY <2>2, <2>3, <2>4 DEF NoStrayPlain, StrayCopies
  <2>8. LogInPlace' /\ Compressing'
    BY <1>1, <1>6, <2>1 DEF LogInPlace, Compressing, IInv, LogToCome
  <2>9. LimitKept'
    BY <1>1, <1>6, <2>2, <2>3 DEF LimitKept
  <2> QED BY <2>5, <2>6, <2>7, <2>8, <2>9
<1> QED BY <1>3, <1>5, <1>6 DEF CompressUnlink

\* The set takes over the form that the files have already.
LEMMA LayoutCompressFinish ==
    ASSUME IInv, Layout, CompressFinish
    PROVE  Layout'
<1> SUFFICES ASSUME pc \notin Panicked PROVE Layout'
    BY DEF CompressFinish, Layout
<1> USE DEF Layout, cascade
<1>1. /\ UNCHANGED <<gen, pc, at, end, carried, th, hpos, hcur>> /\ hpc = "finish" /\ hpc' = "compress"
      /\ disk \in [Path -> -MaxGen..MaxGen] /\ hcur \in Numbers
      /\ suffixes \in [Numbers -> Forms \cup {"none"}]
      /\ suffixes' = [suffixes EXCEPT ![hcur] = "gz"]
      /\ suffixes[hcur] = "plain"
    BY DEF CompressFinish, IInv, TypeOK, CompressesArchived, Compressing
<1>2. <<hcur, "gz">> \in Path /\ <<hcur, "gz">> # Log /\ disk[<<hcur, "gz">>] \in Int
  <2>1. hcur \in Numbers /\ disk \in [Path -> -MaxGen..MaxGen]
    BY <1>1
  <2>2. <<hcur, "gz">> \in Path /\ <<hcur, "gz">> # Log
    BY <2>1, ColumnPaths DEF Forms
  <2>3. disk[<<hcur, "gz">>] \in -MaxGen..MaxGen /\ MaxGen \in Nat
    BY <2>1, <2>2, BoundsAssumption
  <2> QED BY <2>2, <2>3
<1>3. /\ disk'[<<hcur, "gz">>] \in {disk[<<hcur, "gz">>], - disk[<<hcur, "gz">>]}
      /\ disk'[Log] = disk[Log]
      /\ \A s \in Numbers, g \in Forms : <<s, g>> # <<hcur, "gz">> => disk'[<<s, g>>] = disk[<<s, g>>]
  <2>1. CASE disk' = disk
    BY <2>1
  <2>2. CASE disk' = Finished(hcur, disk)
    <3>1. /\ disk'[<<hcur, "gz">>] = - disk[<<hcur, "gz">>]
          /\ \A p \in Path : p # <<hcur, "gz">> => disk'[p] = disk[p]
      BY <1>1, <1>2, <2>2, OneFile DEF Finished
    <3> QED BY <1>2, <3>1, ColumnPaths
  <2> QED BY <2>1, <2>2 DEF CompressFinish
<1>4. /\ ~Cascading /\ ~Cascading' /\ Newest' = Newest /\ Limit' = Limit
      /\ \A s \in Numbers : Here(s) = Form(s) /\ Here(s)' = Form(s)' /\ Age(s) = s /\ Age(s)' = s
  <2>1. hpc # "none" /\ UNCHANGED <<pc, gen, disk[Log], at, end, carried>>
    BY <1>1, <1>3
  <2> QED BY <2>1, HandlerOutside
<1>5. \A s \in Numbers : /\ Form(s) = (IF s = hcur THEN "gz" ELSE suffixes[s]) /\ Form(s)' = Form(s)
                         /\ ~Removed(s) /\ ~Removed(s)'
    BY <1>1, <1>4 DEF Form, Removed
<1>6. Known' = Known
  <2>1. \A s \in Numbers : (suffixes'[s] # "none") = (suffixes[s] # "none")
    BY <1>1
  <2> QED BY <2>1 DEF Known
<1>7. NoGap' /\ OldestCompressed'
    BY <1>5 DEF NoGap, OldestCompressed
<1>8. FilesInPlace'
  <2> SUFFICES ASSUME NEW s \in Numbers, Form(s) # "none"
               PROVE  s <= Newest /\ disk'[<<s, Form(s)>>] \in {Newest + 1 - s, s - (Newest + 1)}
    BY <1>4, <1>5 DEF FilesInPlace
  <2>1. s <= Newest /\ disk[<<s, Form(s)>>] \in {Newest + 1 - s, s - (Newest + 1)}
    BY <1>4, <1>5 DEF FilesInPlace
  <2>2. CASE s = hcur
    <3>1. disk'[<<s, Form(s)>>] \in {disk[<<s, Form(s)>>], - disk[<<s, Form(s)>>]}
      BY <1>3, <1>5, <2>2
    <3>2. Newest \in Int /\ s \in Nat
      BY BoundsAssumption, ColumnPaths DEF Newest, IInv, TypeOK
    <3> QED BY <2>1, <3>1, <3>2
  <2>3. CASE s # hcur
    <3>1. Form(s) \in Forms
      BY <1>1, <1>5, <2>3
    <3>2. disk'[<<s, Form(s)>>] = disk[<<s, Form(s)>>]
      BY <1>3, <2>3, <3>1
    <3> QED BY <2>1, <3>2
  <2> QED BY <2>2, <2>3
<1>9. NoStrayPlain'
  <2>1. \A s \in Numbers : disk'[<<s, "plain">>] = disk[<<s, "plain">>]
    BY <1>3 DEF Forms
  <2> QED BY <1>4, <1>5, <2>1 DEF NoStrayPlain
<1>10. StrayCopies'
  <2>1. \A s \in Numbers : s # hcur => disk'[<<s, "gz">>] = disk[<<s, "gz">>]
    BY <1>3 DEF Forms
  <2> QED BY <1>4, <1>5, <2>1 DEF StrayCopies
<1>11. LogInPlace' /\ Compressing'
    BY <1>1, <1>3 DEF LogInPlace, Compressing, IInv, LogToCome
<1>12. LimitKept'
    BY <1>1, <1>4, <1>5, <1>6 DEF LimitKept
<1> QED BY <1>7, <1>8, <1>9, <1>10, <1>11, <1>12

LEMMA LayoutInit == Init => Layout
<1> SUFFICES ASSUME Init PROVE Layout
    OBVIOUS
<1> USE DEF Init
<1>1. /\ ~Cascading /\ Newest = 0 /\ Known = {}
      /\ \A s \in Numbers : Form(s) = "none" /\ Here(s) = "none"
  <2>1. ~Cascading
    BY DEF Cascading
  <2>2. disk[Log] = 0
    BY ColumnPaths
  <2> QED BY <2>1, <2>2 DEF Newest, OnDisk, Known, Form, Here
<1>2. \A p \in Path : disk[p] = 0
    OBVIOUS
<1>3. \A s \in Numbers : disk[<<s, "plain">>] = 0 /\ disk[<<s, "gz">>] = 0
    BY <1>2, ColumnPaths DEF Forms
<1>4. NoGap /\ OldestCompressed /\ FilesInPlace
    BY <1>1 DEF NoGap, OldestCompressed, FilesInPlace
<1>5. NoStrayPlain
  <2> SUFFICES ASSUME NEW s \in Numbers
               PROVE  disk[<<s, "plain">>] >= 0 /\ disk[<<s, "plain">>] = 0
    BY DEF NoStrayPlain
  <2>1. disk[<<s, "plain">>] = 0
    BY <1>3
  <2> HIDE DEF Init
  <2> QED BY <2>1
<1>6. StrayCopies
    BY <1>3 DEF StrayCopies
<1>7. LogInPlace
    BY <1>2 DEF LogInPlace
<1>8. Compressing
    BY DEF Compressing
<1>9. LimitKept
  <2>1. hpc # "trim"
    OBVIOUS
  <2> HIDE DEF Init
  <2> QED BY <1>1, <2>1 DEF LimitKept
<1> QED BY <1>4, <1>5, <1>6, <1>7, <1>8, <1>9 DEF Layout

LEMMA LayoutStep == Orderly /\ IInv /\ Layout /\ [Next]_vars => Layout'
<1> SUFFICES ASSUME Orderly, IInv, Layout, [Next]_vars PROVE Layout'
    OBVIOUS
<1>1. CASE Start \/ FlushWaitDone \/ Rotate \/ FlushWait
    BY <1>1, LayoutStart, LayoutWriterOnly
<1>2. CASE Descend
    BY <1>2, LayoutDescend
<1>3. CASE Move
  <2>1. CASE at = 0
    BY <1>3, <2>1, LayoutMoveLog
  <2>2. CASE at # 0
    BY <1>3, <2>2, LayoutMoveUp
  <2> QED BY <2>1, <2>2
<1>4. CASE MovePanic
  <2>1. pc' \in Panicked
    BY <1>4 DEF MovePanic, Panicked
  <2> QED BY <2>1 DEF Layout
<1>5. CASE Spawn
    BY <1>5, LayoutSpawn
<1>6. CASE Reopen
    BY <1>6, LayoutReopen
<1>7. CASE HandlerStep
  <2> SUFFICES ASSUME pc \notin Panicked PROVE Layout'
    BY <1>7 DEF HandlerStep, Trim, TrimDone, CompressOpen, CompressCopy, CompressUnlink,
                CompressFinish, CompressDone, Layout
  <2>1. CASE Trim
    BY <2>1, LayoutTrim DEF Orderly
  <2>2. CASE TrimDone
    BY <2>2, LayoutTrimDone
  <2>3. CASE CompressOpen
    BY <2>3, LayoutCompressOpen
  <2>4. CASE CompressCopy \/ CompressDone
    BY <2>4, LayoutCopyOrDone
  <2>5. CASE CompressUnlink
    BY <2>5, LayoutCompressUnlink
  <2>6. CASE CompressFinish
    BY <2>6, LayoutCompressFinish
  <2> QED BY <1>7, <2>1, <2>2, <2>3, <2>4, <2>5, <2>6 DEF HandlerStep
<1>8. CASE Crash \/ ExternalDelete
    BY <1>8 DEF Crash, ExternalDelete, Fault, Orderly
<1>9. CASE UNCHANGED vars
    BY <1>9 DEF vars, Layout, NoGap, OldestCompressed, FilesInPlace, NoStrayPlain, StrayCopies,
                LogInPlace, Compressing, LimitKept, Form, Here, Age, Removed, Cascading, Newest,
                OnDisk, Known, Limit
<1> QED BY <1>1, <1>2, <1>3, <1>4, <1>5, <1>6, <1>7, <1>8, <1>9 DEF Next, WriterStep

\* The cascade never meets a file in its way, however often a rename or a
\* compression fails and for every policy, as long as the retention never fails to
\* remove a file, the process is not stopped and started again, and nobody else
\* touches the archive.  The first is needed: a removal that fails leaves a file
\* whose suffix is split off the set all the same (rotation.rs:463 to 472), and the
\* assertion before fs::rename then fails, as RotationCollision.cfg shows.
THEOREM NoCollisionHolds ==
    ASSUME Orderly
    PROVE  Spec => []NoCollision
<1>1. Init => Layout /\ NoCollision
    BY LayoutInit DEF Init, NoCollision
<1>2. Layout /\ NoCollision /\ IInv /\ [Next]_vars => Layout' /\ NoCollision'
  <2> SUFFICES ASSUME Layout, NoCollision, IInv, [Next]_vars PROVE Layout' /\ NoCollision'
    OBVIOUS
  <2>1. Layout'
    BY LayoutStep
  <2>2. pc' # "collision"
    <3>1. CASE MovePanic
      <4>1. pc = "move"
        BY <3>1 DEF MovePanic
      <4>2. ~OnDisk(Target)
        BY <4>1, WayClear
      <4> QED BY <3>1, <4>2 DEF MovePanic
    <3>2. CASE Next /\ ~MovePanic
      BY <3>2 DEF NoCollision, Next, WriterStep, HandlerStep, Start, FlushWaitDone, Descend, Move, Spawn,
                  Reopen, Rotate, FlushWait, Crash, ExternalDelete, Trim, TrimDone, CompressOpen,
                  CompressCopy, CompressUnlink, CompressFinish, CompressDone
    <3>3. CASE UNCHANGED vars
      BY <3>3 DEF vars, NoCollision
    <3> QED BY <3>1, <3>2, <3>3
  <2> QED BY <2>1, <2>2 DEF NoCollision
<1> QED BY <1>1, <1>2, Invariance, PTL DEF Spec

LEMMA LayoutInvariance ==
    ASSUME Orderly
    PROVE  Spec => []Layout
<1>1. Layout /\ IInv /\ [Next]_vars => Layout'
    BY LayoutStep
<1> QED BY <1>1, LayoutInit, Invariance, PTL DEF Spec

\* At rest the set and the directory agree: every number the set holds names a
\* file that is there, and a larger number an older generation.  Renames and
\* compression may have failed.
THEOREM SetMatchesDiskHolds ==
    ASSUME Orderly
    PROVE  Spec => []SetMatchesDisk
<1>1. IInv /\ Layout => SetMatchesDisk
  <2> SUFFICES ASSUME IInv, Layout, AtRest
               PROVE  \A s \in Known : /\ OnDisk(FileOf(s))
                                      /\ \A t \in Known : s < t => Gen(s) > Gen(t)
    BY DEF SetMatchesDisk
  <2>1. /\ pc = "idle" /\ hpc = "none" /\ pc \notin Panicked
        /\ Newest \in Int
    BY BoundsAssumption DEF AtRest, Panicked, Newest, IInv, TypeOK
  <2>2. ASSUME NEW s \in Known
        PROVE  /\ s \in Nat /\ s <= Newest
               /\ disk[FileOf(s)] \in {Newest + 1 - s, s - (Newest + 1)}
    <3>1. s \in Numbers /\ s \in Nat /\ suffixes[s] # "none"
      BY ColumnPaths DEF Known
    <3>2. Here(s) = suffixes[s] /\ Age(s) = s /\ ~Removed(s)
      BY <2>1 DEF Here, Form, Age, Removed, Cascading
    <3> QED BY <2>1, <3>1, <3>2 DEF Layout, FilesInPlace, FileOf
  <2>3. ASSUME NEW s \in Known PROVE OnDisk(FileOf(s)) /\ Gen(s) = Newest + 1 - s
    BY <2>1, <2>2 DEF OnDisk, Gen
  <2>4. ASSUME NEW s \in Known, NEW t \in Known, s < t PROVE Gen(s) > Gen(t)
    BY <2>1, <2>2, <2>3, <2>4
  <2> QED BY <2>3, <2>4
<1> QED BY <1>1, LayoutInvariance, Invariance, PTL

-----------------------------------------------------------------------------
\* What handle_old_files leaves when nothing fails.

LEMMA CleanFollow ==
    ASSUME CopiesWhole, CopiesFollow, hpc \notin {"copy", "unlink", "finish"}
    PROVE  CopiesWhole'
<1> SUFFICES ASSUME NEW s \in Numbers, disk'[<<s, "gz">>] # 0
             PROVE  disk'[<<s, "gz">>] > 0 /\ Here(s)' = "gz"
    BY DEF CopiesWhole
<1>1. ASSUME NEW t \in Numbers, disk[<<t, "gz">>] = disk'[<<s, "gz">>], Here(t) = "gz" => Here(s)' = "gz"
      PROVE  disk'[<<s, "gz">>] > 0 /\ Here(s)' = "gz"
    BY <1>1 DEF CopiesWhole, AtWork
<1> QED BY <1>1 DEF CopiesFollow

\* The steps of the writer outside the cascade leave the archive alone, whatever
\* compress() is doing.
LEMMA WriterAlone ==
    ASSUME IInv, Layout, Rotate \/ FlushWait \/ FlushWaitDone \/ Reopen
    PROVE  /\ ~Cascading /\ ~Cascading' /\ UNCHANGED <<suffixes, hpc, hpos, hcur, end, faults>>
           /\ pc \notin Panicked /\ Newest' = Newest
           /\ \A s \in Numbers, f \in Forms : disk'[<<s, f>>] = disk[<<s, f>>]
           /\ \A s \in Numbers : Here(s)' = Here(s) /\ AtWork(s)' = AtWork(s)
<1>1. /\ ~Cascading /\ ~Cascading' /\ UNCHANGED <<suffixes, hpc, hpos, hcur, end, faults>>
      /\ pc \notin Panicked /\ Newest' = Newest
      /\ \A s \in Numbers, f \in Forms : disk'[<<s, f>>] = disk[<<s, f>>]
  <2>1. CASE Rotate \/ FlushWait \/ FlushWaitDone
    BY <2>1 DEF Rotate, FlushWait, FlushWaitDone, Cascading, handler, cascade, Panicked, Newest, OnDisk
  <2>2. CASE Reopen
    <3>1. disk \in [Path -> -MaxGen..MaxGen] /\ gen \in Nat /\ disk[Log] = 0 /\ pc = "reopen"
      BY <2>2, BoundsAssumption DEF Reopen, Layout, LogInPlace, Panicked, IInv, TypeOK
    <3>2. gen' = gen + 1 /\ disk' = [disk EXCEPT ![Log] = gen + 1]
      BY <2>2, <3>1 DEF Reopen, OpenLog, OnDisk
    <3>3. disk'[Log] = gen + 1 /\ \A q \in Path : q # Log => disk'[q] = disk[q]
      BY <3>1, <3>2, ColumnPaths, OneFile
    <3>4. Newest' = Newest
      BY <3>1, <3>2, <3>3 DEF Newest, OnDisk
    <3> QED BY <2>2, <3>1, <3>3, <3>4, ColumnPaths DEF Reopen, Cascading, handler, cascade, Panicked
  <2> QED BY <2>1, <2>2
<1>2. \A s \in Numbers : Here(s)' = Here(s) /\ AtWork(s)' = AtWork(s)
    BY <1>1 DEF Here, Form, AtWork, Cascading
<1> QED BY <1>1, <1>2

LEMMA CleanWriter ==
    ASSUME IInv, Layout, CopiesWhole, NothingToCompress,
           Rotate \/ FlushWait \/ FlushWaitDone \/ Reopen
    PROVE  CopiesWhole' /\ NothingToCompress'
<1>1. /\ ~Cascading /\ ~Cascading' /\ UNCHANGED <<suffixes, hpc, hpos, hcur, end>>
      /\ \A s \in Numbers : /\ disk'[<<s, "gz">>] = disk[<<s, "gz">>]
                            /\ Here(s)' = Here(s) /\ AtWork(s)' = AtWork(s)
    BY WriterAlone DEF Forms
<1>2. Known' = Known /\ \A s : Rank(s)' = Rank(s)
    BY <1>1 DEF Known, Rank
<1>3. ToCompress' = ToCompress
    BY <1>1, <1>2 DEF ToCompress
<1> QED BY <1>1, <1>3 DEF CopiesWhole, NothingToCompress

LEMMA CleanStart ==
    ASSUME IInv, Layout, Start
    PROVE  CopiesWhole' /\ NothingToCompress'
<1>1. (\A p \in Path : disk[p] = 0) /\ disk \in [Path -> -MaxGen..MaxGen]
    BY DEF Start, Layout, LogInPlace, Panicked, IInv, TypeOK
<1>2. \A s \in Numbers : disk'[<<s, "gz">>] = 0
  <2>1. disk' = disk \/ disk' = [disk EXCEPT ![Log] = gen + 1]
    BY DEF Start, OpenLog
  <2>2. \A q \in Path : q # Log => disk'[q] = disk[q]
    BY <1>1, <2>1, ColumnPaths, OneFile
  <2> QED BY <1>1, <2>2, ColumnPaths DEF Forms
<1>3. \A s \in Numbers : suffixes'[s] = "none"
  <2>1. ASSUME NEW s \in Numbers PROVE Archived(s) = {}
    BY <1>1, ColumnPaths DEF Archived, OnDisk
  <2> QED BY <2>1 DEF Start
<1>4. ToCompress' = {}
    BY <1>3 DEF ToCompress, Known
<1> QED BY <1>2, <1>4 DEF CopiesWhole, NothingToCompress

\* compress() without a fault: the copy is whole when its source is gone and the
\* set names it, and the loop ends with nothing left to do.
LEMMA CleanCompress ==
    ASSUME IInv, Layout, pc \notin Panicked, CopiesWhole, faults' = faults,
           CompressOpen \/ CompressCopy \/ CompressUnlink \/ CompressFinish \/ CompressDone
    PROVE  CopiesWhole' /\ NothingToCompress'
<1> USE DEF Layout, cascade
<1>0. /\ faults \in Int /\ disk \in [Path -> -MaxGen..MaxGen] /\ hpc # "none"
      /\ suffixes \in [Numbers -> Forms \cup {"none"}]
      /\ UNCHANGED <<pc, gen, at, end, carried>>
    BY BoundsAssumption DEF IInv, TypeOK, CompressOpen, CompressCopy, CompressUnlink, CompressFinish, CompressDone
<1>1. /\ ~Cascading /\ pc # "move" /\ ~Cascading' /\ pc' # "move"
    BY <1>0 DEF Cascading, IInv, HandleHeld
<1>2. \A s \in Numbers : /\ Here(s) = Form(s) /\ Here(s)' = Form(s)'
                         /\ Form(s) = (IF hpc = "finish" /\ s = hcur THEN "gz" ELSE suffixes[s])
                         /\ Form(s)' = (IF hpc' = "finish" /\ s = hcur' THEN "gz" ELSE suffixes'[s])
    BY <1>1 DEF Here, Form
<1>3. ASSUME NEW k PROVE ~Fault(k)
    BY <1>0 DEF Fault
<1>4. CASE CompressOpen
  <2>1. PICK r \in NextToCompress :
          /\ hcur' = r
          /\ \/ /\ OnDisk(FileOf(r))
                /\ disk' = [disk EXCEPT ![<<r, "gz">>] = - disk[FileOf(r)]]
                /\ hpc' = "copy"
             \/ ~OnDisk(FileOf(r))
    BY <1>3, <1>4 DEF CompressOpen
  <2>2. r \in Numbers /\ suffixes[r] = "plain" /\ hpc = "compress" /\ UNCHANGED suffixes
    BY <1>4 DEF NextToCompress, ToCompress, Known, CompressOpen
  <2>3. OnDisk(FileOf(r))
    <3>1. Here(r) = "plain" /\ Age(r) = r /\ ~Removed(r) /\ Newest \in Int /\ r \in Nat
      BY <1>0, <1>1, <1>2, <2>2, ColumnPaths, BoundsAssumption DEF Age, Removed, Newest, IInv, TypeOK
    <3>2. r <= Newest /\ disk[<<r, "plain">>] \in {Newest + 1 - r, r - (Newest + 1)}
      BY <2>2, <3>1 DEF FilesInPlace
    <3> QED BY <2>2, <3>1, <3>2 DEF OnDisk, FileOf
  <2>4. \A s \in Numbers : s # r => disk'[<<s, "gz">>] = disk[<<s, "gz">>]
    <3>1. <<r, "gz">> \in Path /\ disk' = [disk EXCEPT ![<<r, "gz">>] = - disk[FileOf(r)]]
      BY <2>1, <2>2, <2>3, ColumnPaths DEF Forms
    <3>2. \A p \in Path : p # <<r, "gz">> => disk'[p] = disk[p]
      BY <1>0, <3>1, OneFile
    <3> QED BY <3>2, ColumnPaths DEF Forms
  <2>5. hpc' = "copy"
    BY <2>1, <2>3
  <2>6. CopiesWhole'
    BY <1>2, <2>1, <2>2, <2>4, <2>5 DEF CopiesWhole, AtWork
  <2> QED BY <2>5, <2>6 DEF NothingToCompress
<1>5. CASE CompressCopy
  <2>1. hpc = "copy" /\ hpc' = "unlink" /\ UNCHANGED <<disk, suffixes, hcur>>
    BY <1>3, <1>5 DEF CompressCopy
  <2> QED BY <1>2, <2>1 DEF CopiesWhole, AtWork, NothingToCompress
<1>6. CASE CompressUnlink
  <2>1. /\ hcur \in Numbers /\ disk[<<hcur, "gz">>] < 0 /\ hpc = "unlink"
        /\ disk[<<hcur, "plain">>] = - disk[<<hcur, "gz">>]
        /\ UNCHANGED <<suffixes, hcur>>
    BY <1>6 DEF CompressUnlink, IInv, CompressesArchived, Compressing
  <2>2. <<hcur, "plain">> \in Path /\ disk[<<hcur, "gz">>] \in Int
    <3>1. <<hcur, "plain">> \in Path /\ <<hcur, "gz">> \in Path
      BY <2>1, ColumnPaths DEF Forms
    <3> QED BY <1>0, <3>1, BoundsAssumption
  <2>3. OnDisk(<<hcur, "plain">>)
    BY <2>1, <2>2 DEF OnDisk
  <2>4. hpc' = "finish" /\ disk' = [disk EXCEPT ![<<hcur, "plain">>] = 0]
    BY <1>3, <1>6, <2>3 DEF CompressUnlink
  <2>5. \A s \in Numbers : disk'[<<s, "gz">>] = disk[<<s, "gz">>]
    <3>1. \A p \in Path : p # <<hcur, "plain">> => disk'[p] = disk[p]
      BY <1>0, <2>2, <2>4, OneFile
    <3> QED BY <3>1, ColumnPaths DEF Forms
  <2> QED BY <1>2, <2>1, <2>4, <2>5 DEF CopiesWhole, AtWork, NothingToCompress
<1>7. CASE CompressFinish
  <2>1. /\ hcur \in Numbers /\ disk[<<hcur, "gz">>] < 0 /\ hpc = "finish" /\ hpc' = "compress"
        /\ suffixes' = [suffixes EXCEPT ![hcur] = "gz"] /\ hcur' = hcur
    BY <1>7 DEF CompressFinish, IInv, CompressesArchived, Compressing
  <2>2. disk' = [disk EXCEPT ![<<hcur, "gz">>] = - disk[<<hcur, "gz">>]]
    BY <1>3, <1>7 DEF CompressFinish, Finished
  <2>3. <<hcur, "gz">> \in Path
    BY <2>1, ColumnPaths DEF Forms
  <2>4. /\ disk'[<<hcur, "gz">>] = - disk[<<hcur, "gz">>]
        /\ \A p \in Path : p # <<hcur, "gz">> => disk'[p] = disk[p]
    BY <1>0, <2>2, <2>3, OneFile
  <2>5. disk'[<<hcur, "gz">>] > 0
    <3>1. disk[<<hcur, "gz">>] \in Int
      BY <1>0, <2>3, BoundsAssumption
    <3> QED BY <2>1, <2>4, <3>1
  <2>6. \A s \in Numbers : s # hcur => disk'[<<s, "gz">>] = disk[<<s, "gz">>]
    BY <2>4, ColumnPaths DEF Forms
  <2>7. \A s \in Numbers : Here(s)' = Here(s) /\ Here(hcur)' = "gz"
    BY <1>0, <1>2, <2>1
  <2>8. CopiesWhole'
    <3> SUFFICES ASSUME NEW s \in Numbers, disk'[<<s, "gz">>] # 0
                 PROVE  disk'[<<s, "gz">>] > 0 /\ Here(s)' = "gz"
      BY DEF CopiesWhole
    <3>1. CASE s = hcur
      BY <1>0, <1>2, <2>1, <2>5, <3>1
    <3>2. CASE s # hcur
      BY <2>1, <2>6, <2>7, <3>2 DEF CopiesWhole, AtWork
    <3> QED BY <3>1, <3>2
  <2> QED BY <2>1, <2>8 DEF NothingToCompress
<1>8. CASE CompressDone
  <2>1. hpc = "compress" /\ hpc' = "none" /\ UNCHANGED <<disk, suffixes, hcur>> /\ ToCompress = {}
    BY <1>8 DEF CompressDone
  <2>2. ToCompress' = {}
    BY <2>1 DEF ToCompress, Known, Rank
  <2>3. CopiesWhole'
    BY <1>2, <2>1 DEF CopiesWhole, AtWork
  <2> QED BY <2>2, <2>3 DEF NothingToCompress
<1> QED BY <1>4, <1>5, <1>6, <1>7, <1>8

LEMMA CleanStep == Orderly /\ IInv /\ Layout /\ Clean /\ [Next]_vars => Clean'
<1> SUFFICES ASSUME Orderly, IInv, Layout, Clean, [Next]_vars, pc' \notin Panicked, faults' = 0
             PROVE  CopiesWhole' /\ NothingToCompress'
    BY DEF Clean
<1>1. CASE Crash \/ ExternalDelete
    BY <1>1 DEF Crash, ExternalDelete, Fault, Orderly
<1>2. CASE UNCHANGED vars
  <2>1. CopiesWhole /\ NothingToCompress
    BY <1>2 DEF vars, Clean
  <2> QED BY <1>2, <2>1 DEF vars, CopiesWhole, NothingToCompress, Here, Form, AtWork, Cascading,
                            ToCompress, Known, Rank
<1>3. CASE Next /\ ~Crash /\ ~ExternalDelete
  <2>1. ~MovePanic
    BY DEF MovePanic, Panicked
  <2>2. faults = 0
    <3>1. faults' = faults \/ faults' = faults + 1
      BY <1>3, <2>1 DEF Next, WriterStep, HandlerStep, Fault, Start, FlushWaitDone, Descend, Move,
           Spawn, Reopen, Rotate, FlushWait, Trim, TrimDone, CompressOpen, CompressCopy,
           CompressUnlink, CompressFinish, CompressDone
    <3>2. faults \in Nat
      BY BoundsAssumption DEF IInv, TypeOK
    <3> QED BY <3>1, <3>2
  <2>3. pc \notin Panicked
    BY <1>3, <2>1 DEF Next, WriterStep, HandlerStep, Start, FlushWaitDone, Descend, Move,
           Spawn, Reopen, Rotate, FlushWait, Trim, TrimDone, CompressOpen, CompressCopy,
           CompressUnlink, CompressFinish, CompressDone, Panicked
  <2>4. CopiesWhole /\ NothingToCompress
    BY <2>2, <2>3 DEF Clean
  <2>5. CASE Start
    BY <2>5, CleanStart
  <2>6. CASE Rotate \/ FlushWait \/ FlushWaitDone \/ Reopen
    BY <2>4, <2>6, CleanWriter
  <2>7. CASE Descend
    <3>1. hpc = "none" /\ Cascading'
      BY <2>7 DEF Descend, Joined, IInv, HandleHeld, Cascading
    <3>2. CopiesFollow
      BY <2>7, LayoutDescend
    <3> QED BY <2>4, <3>1, <3>2, CleanFollow DEF NothingToCompress
  <2>8. CASE Move
    <3>1. hpc = "none" /\ Cascading'
      BY <2>8 DEF Move, IInv, HandleHeld, Cascading
    <3>2. CopiesFollow
      BY <2>8, LayoutMoveUp, LayoutMoveLog
    <3> QED BY <2>4, <3>1, <3>2, CleanFollow DEF NothingToCompress
  <2>9. CASE Spawn
    <3>1. hpc = "none" /\ hpc' = "trim"
      BY <2>9 DEF Spawn, IInv, HandleHeld
    <3>2. CopiesFollow
      BY <2>9, LayoutSpawn
    <3> QED BY <2>4, <3>1, <3>2, CleanFollow DEF NothingToCompress
  <2>10. CASE Trim
    <3>1. hpc = "trim" /\ hpc' = "trim"
      BY <2>10 DEF Trim
    <3>2. CopiesFollow
      BY <2>3, <2>10, LayoutTrim DEF Orderly
    <3> QED BY <2>4, <3>1, <3>2, CleanFollow DEF NothingToCompress
  <2>11. CASE TrimDone
    <3>1. hpc = "trim" /\ hpc' = "compress"
      BY <2>11 DEF TrimDone
    <3>2. CopiesFollow
      BY <2>3, <2>11, LayoutTrimDone
    <3> QED BY <2>4, <3>1, <3>2, CleanFollow DEF NothingToCompress
  <2>12. CASE CompressOpen \/ CompressCopy \/ CompressUnlink \/ CompressFinish \/ CompressDone
    BY <2>2, <2>3, <2>4, <2>12, CleanCompress
  <2> QED BY <1>3, <2>1, <2>5, <2>6, <2>7, <2>8, <2>9, <2>10, <2>11, <2>12 DEF Next, WriterStep, HandlerStep
<1> QED BY <1>1, <1>2, <1>3

LEMMA CleanInit == Init => Clean
<1> SUFFICES ASSUME Init PROVE CopiesWhole /\ NothingToCompress
    BY DEF Clean
<1>1. \A s \in Numbers : disk[<<s, "gz">>] = 0
    BY ColumnPaths DEF Init, Forms
<1>2. ToCompress = {}
    BY DEF Init, ToCompress, Known
<1> QED BY <1>1, <1>2 DEF CopiesWhole, NothingToCompress

\* The log's own name is never compressed.
LogPlain == disk[<<0, "gz">>] = 0

LEMMA LogPlainStep == IInv /\ LogPlain /\ [Next]_vars => LogPlain'
<1> SUFFICES ASSUME IInv, LogPlain, [Next]_vars PROVE disk'[<<0, "gz">>] = disk[<<0, "gz">>]
    BY DEF LogPlain
<1> DEFINE zero == <<0, "gz">>
<1>1. /\ disk \in [Path -> -MaxGen..MaxGen] /\ zero \in Path /\ zero # Log
      /\ \A s \in Numbers, g \in Forms : <<s, g>> \in Path /\ <<s, g>> # zero
    BY ColumnPaths, BoundsAssumption DEF IInv, TypeOK, Path, Forms, Log, Numbers
<1> HIDE DEF zero
<1>2. ASSUME NEW p \in Path, p # zero, NEW v, disk' = [disk EXCEPT ![p] = v]
      PROVE  disk'[zero] = disk[zero]
    BY <1>1, <1>2, OneFile
<1>3. Log \in Path /\ \A s \in Known : FileOf(s) \in Path /\ FileOf(s) # zero
  <2>1. \A s \in Known : s \in Numbers /\ suffixes[s] \in Forms
    BY DEF Known, IInv, TypeOK
  <2> QED BY <1>1, <2>1, ColumnPaths DEF FileOf
<1>4. CASE Start \/ Reopen
  <2>1. disk' = disk \/ disk' = [disk EXCEPT ![Log] = gen + 1]
    BY <1>4 DEF Start, Reopen, OpenLog
  <2> QED BY <1>1, <1>2, <1>3, <2>1 DEF zero
<1>5. CASE Move
  <2>1. pc = "move" /\ at \in Nat /\ at + 1 \in Numbers /\ (at # 0 => at \in Numbers)
    BY <1>5, BoundsAssumption DEF Move, IInv, CascadeBelowEnd, TypeOK, Numbers
  <2>2. MovedForm \in Forms
    BY <2>1, BoundsAssumption DEF MovedForm, IInv, CascadeBelowEnd, TypeOK, Numbers
  <2>3. Source \in Path /\ Target \in Path /\ Source # zero /\ Target # zero
    BY <1>1, <1>3, <2>1, <2>2 DEF Source, Target
  <2>4. disk' = [disk EXCEPT ![Target] = disk[Source], ![Source] = 0]
    BY <1>5 DEF Move
  <2>5. disk'[zero] = disk[zero]
    BY <1>1, <2>3, <2>4
  <2> QED BY <2>5 DEF zero
<1>6. CASE Trim
  <2>1. disk' = disk \/ \E s \in Known : disk' = [disk EXCEPT ![FileOf(s)] = 0]
    BY <1>6 DEF Trim, Older
  <2> QED BY <1>2, <1>3, <2>1 DEF zero
<1>7. CASE CompressOpen
  <2>1. disk' = disk \/ \E s \in Numbers : disk' = [disk EXCEPT ![<<s, "gz">>] = - disk[FileOf(s)]]
    BY <1>7 DEF CompressOpen, NextToCompress, ToCompress, Known
  <2> QED BY <1>1, <1>2, <2>1 DEF zero, Forms
<1>8. CASE CompressUnlink \/ CompressFinish
  <2>1. hcur \in Numbers
    BY <1>8 DEF CompressUnlink, CompressFinish, IInv, CompressesArchived
  <2>2. \/ disk' = disk
        \/ disk' = [disk EXCEPT ![<<hcur, "plain">>] = 0]
        \/ disk' = [disk EXCEPT ![<<hcur, "gz">>] = - disk[<<hcur, "gz">>]]
    BY <1>8 DEF CompressUnlink, CompressFinish, Finished
  <2>3. <<hcur, "plain">> \in Path /\ <<hcur, "plain">> # zero /\ <<hcur, "gz">> \in Path /\ <<hcur, "gz">> # zero
    BY <1>1, <2>1 DEF Forms
  <2>4. disk'[zero] = disk[zero]
    BY <1>2, <2>2, <2>3
  <2> QED BY <2>4 DEF zero
<1>9. CASE ExternalDelete
    BY <1>2, <1>3, <1>9 DEF ExternalDelete, zero
<1>10. CASE UNCHANGED disk
    BY <1>10
<1> QED BY <1>4, <1>5, <1>6, <1>7, <1>8, <1>9, <1>10 DEF Next, WriterStep, HandlerStep, FlushWaitDone,
        Descend, MovePanic, Spawn, Rotate, FlushWait, Crash, TrimDone, CompressCopy, CompressDone, vars

\* Upkeep::Count does what it says: whenever no rotation is under way and none
\* of its operations has failed, exactly the newest MaxFiles generations are in
\* the archive, each readable, and all but the newest Exclude of them compressed.
THEOREM RetentionExactHolds ==
    ASSUME Orderly
    PROVE  Spec => []RetentionExact
<1>1. Init => LogPlain
    BY BoundsAssumption DEF Init, LogPlain, Path, Forms
<1>2. Layout /\ IInv /\ Clean /\ [Next]_vars => Layout' /\ Clean'
    BY LayoutStep, CleanStep
<1>3. IInv /\ Layout /\ Clean /\ LogPlain => RetentionExact
  <2> SUFFICES ASSUME IInv, Layout, Clean, LogPlain, AtRest, faults = 0, UpkeepKind = "count"
               PROVE  /\ Kept = {g \in 1..Newest : g > Newest - MaxFiles}
                      /\ \A s \in Known : Rank(s) >= Exclude /\ Compress => suffixes[s] = "gz"
    BY DEF RetentionExact
  <2> USE DEF Layout
  <2>1. /\ pc = "idle" /\ hpc = "none" /\ pc \notin Panicked /\ ~Cascading
        /\ CopiesWhole /\ ToCompress = {} /\ Limit = MaxFiles
        /\ disk[Log] = gen /\ gen # 0 /\ gen \in Nat /\ Newest = gen - 1
        /\ disk \in [Path -> -MaxGen..MaxGen] /\ MaxGen \in Nat
    BY BoundsAssumption DEF AtRest, Panicked, Cascading, Clean, NothingToCompress, Limit, LogInPlace,
                            Newest, OnDisk, IInv, TypeOK
  <2>2. \A s \in Numbers : /\ Here(s) = suffixes[s] /\ Form(s) = suffixes[s] /\ Age(s) = s /\ ~Removed(s)
                           /\ ~AtWork(s) /\ s \in Nat /\ s # 0 /\ suffixes[s] \in Forms \cup {"none"}
    BY <2>1, ColumnPaths DEF Here, Form, Age, Removed, AtWork, IInv, TypeOK
  <2>3. Kept = {g \in 1..gen : Readable(g)}
    BY <2>1 DEF Kept, InEncoder
  <2>4. ASSUME NEW g \in 1..gen, Readable(g) PROVE g \in 1..Newest /\ g > Newest - MaxFiles
    <3>1. PICK p \in Path : p # Log /\ disk[p] = g
      BY <2>4 DEF Readable
    <3>2. PICK s \in Numbers, f \in Forms : p = <<s, f>>
      <4>1. PICK s \in 0..MaxSuffix, f \in Forms : p = <<s, f>>
        BY <3>1 DEF Path
      <4>2. s # 0
        BY <2>4, <3>1, <4>1 DEF LogPlain, Log, Forms
      <4>3. s \in Numbers
        BY <4>1, <4>2, BoundsAssumption DEF Numbers
      <4> QED BY <4>1, <4>3
    <3>3. suffixes[s] = f
      <4>1. disk[<<s, f>>] # 0
        BY <3>1, <3>2
      <4>2. f = "plain" => suffixes[s] = "plain"
        BY <2>1, <2>2, <4>1 DEF NoStrayPlain
      <4>3. f = "gz" => suffixes[s] = "gz"
        BY <2>1, <2>2, <4>1 DEF CopiesWhole
      <4> QED BY <4>2, <4>3 DEF Forms
    <3>4. suffixes[s] # "none"
      BY <3>3 DEF Forms
    <3>5. s <= Newest /\ g \in {Newest + 1 - s, s - (Newest + 1)}
      BY <2>1, <2>2, <3>1, <3>2, <3>3, <3>4 DEF FilesInPlace
    <3>6. s <= MaxFiles
      BY <2>1, <3>4 DEF LimitKept, Known
    <3> QED BY <2>1, <2>2, <2>4, <3>5, <3>6, MaxFilesAssumption
  <2>5. ASSUME NEW g \in 1..Newest, g > Newest - MaxFiles PROVE g \in 1..gen /\ Readable(g)
    <3> DEFINE s == Newest + 1 - g
    <3>1. /\ s \in Nat /\ 0 < s /\ s <= Newest /\ s <= MaxFiles /\ g \in 1..gen
          /\ g = Newest + 1 - s /\ s - (Newest + 1) = - g
      BY <2>1, <2>5, MaxFilesAssumption
    <3> HIDE DEF s
    <3>2. s \in Numbers /\ suffixes[s] # "none"
      <4>1. s \in Numbers /\ Form(s) # "none"
        BY <2>1, <3>1 DEF LimitKept
      <4> QED BY <2>2, <4>1
    <3>3. suffixes[s] \in Forms /\ disk[<<s, suffixes[s]>>] \in {g, - g}
      BY <2>1, <2>2, <3>1, <3>2 DEF FilesInPlace
    <3>4. disk[<<s, suffixes[s]>>] = g
      <4>1. g > 0 /\ g \in Nat
        BY <3>1
      <4>2. CASE suffixes[s] = "plain"
        <5>1. disk[<<s, "plain">>] >= 0
          BY <2>1, <3>2 DEF NoStrayPlain
        <5> QED BY <3>3, <4>1, <4>2, <5>1
      <4>3. CASE suffixes[s] = "gz"
        <5>1. disk[<<s, "gz">>] # 0
          BY <3>3, <4>1, <4>3
        <5>2. disk[<<s, "gz">>] > 0
          BY <2>1, <2>2, <3>2, <5>1 DEF CopiesWhole
        <5> QED BY <3>3, <4>1, <4>3, <5>2
      <4> QED BY <3>3, <4>2, <4>3 DEF Forms
    <3>5. <<s, suffixes[s]>> \in Path /\ <<s, suffixes[s]>> # Log
      BY <3>2, <3>3, ColumnPaths
    <3> QED BY <3>1, <3>4, <3>5 DEF Readable
  <2>6. ASSUME NEW s \in Known, Rank(s) >= Exclude, Compress PROVE suffixes[s] = "gz"
    <3>1. suffixes[s] # "plain"
      BY <2>1, <2>6 DEF ToCompress
    <3> QED BY <2>2, <3>1 DEF Known, Forms
  <2>7. \A g \in 1..Newest : g > Newest - MaxFiles => g \in Kept
    BY <2>3, <2>5
  <2>8. \A g \in Kept : g \in 1..Newest /\ g > Newest - MaxFiles
    BY <2>3, <2>4
  <2> QED BY <2>6, <2>7, <2>8
<1>4. Spec => []LogPlain
    BY <1>1, LogPlainStep, Invariance, PTL DEF Spec
<1>5. Spec => [](Layout /\ Clean)
    BY <1>2, LayoutInit, CleanInit, Invariance, PTL DEF Spec
<1> QED BY <1>3, <1>4, <1>5, Invariance, PTL

-----------------------------------------------------------------------------
\* What a failed compression costs: a generation is lost only in a copy that is
\* not whole, and there is at most one such copy per fault.

\* A copy that is not whole, or that the set does not name, and that compress()
\* is not writing.
Spoilt == {s \in Numbers : /\ disk[<<s, "gz">>] # 0
                           /\ ~AtWork(s)
                           /\ ~(disk[<<s, "gz">>] > 0 /\ Here(s) = "gz")}

\* Every copy, also one the set does not name, is of an archived generation.
OldCopies == \A s \in Numbers : disk[<<s, "gz">>] \in -Newest..Newest

\* The cascade ends beyond what the policy keeps.
EndFar == Cascading => end >= gen \/ (UpkeepKind # "all" /\ end > Limit)

Counted == pc \notin Panicked => OldCopies /\ EndFar /\ Cardinality(Spoilt) <= faults

\* The writer that panicked in the cascade has joined the last thread before.
Stopped == pc \in Panicked => hpc = "none"

LEMMA SpoiltFinite == IsFiniteSet(Spoilt) /\ Cardinality(Spoilt) \in Nat
<1>1. IsFiniteSet(Numbers)
    BY FS_Interval, BoundsAssumption DEF Numbers
<1>2. Spoilt \in SUBSET Numbers
    BY DEF Spoilt
<1> QED BY <1>1, <1>2, FS_Subset, FS_CardinalityType

LEMMA SpoiltFiniteNext == IsFiniteSet(Spoilt') /\ Cardinality(Spoilt') \in Nat
<1>1. IsFiniteSet(Numbers)
    BY FS_Interval, BoundsAssumption DEF Numbers
<1>2. Spoilt' \in SUBSET Numbers
    BY DEF Spoilt
<1> QED BY <1>1, <1>2, FS_Subset, FS_CardinalityType

\* Counting: a set that gains at most one element, and one of which at most one
\* element is replaced.
LEMMA OneMore ==
    ASSUME NEW A, IsFiniteSet(A), NEW B, NEW x, B \subseteq A \cup {x}
    PROVE  Cardinality(B) <= Cardinality(A) + 1
<1>a. Cardinality(A) \in Nat
    BY FS_CardinalityType
<1>b. /\ IsFiniteSet(A \cup {x})
      /\ Cardinality(A \cup {x}) \in {Cardinality(A), Cardinality(A) + 1}
    BY FS_AddElement, Zenon
<1>1. /\ IsFiniteSet(A \cup {x}) /\ Cardinality(A \cup {x}) <= Cardinality(A) + 1
      /\ Cardinality(A) \in Nat
    BY <1>a, <1>b
<1>2. IsFiniteSet(B) /\ Cardinality(B) <= Cardinality(A \cup {x})
    BY <1>1, FS_Subset
<1>3. Cardinality(B) \in Nat /\ Cardinality(A \cup {x}) \in Nat
    BY <1>1, <1>2, FS_CardinalityType
<1> QED BY <1>1, <1>2, <1>3

LEMMA OneReplaced ==
    ASSUME NEW A, IsFiniteSet(A), NEW B, NEW x \in A, NEW y, B \subseteq (A \ {x}) \cup {y}
    PROVE  Cardinality(B) <= Cardinality(A)
<1>1. IsFiniteSet(A \ {x}) /\ Cardinality(A \ {x}) = Cardinality(A) - 1 /\ Cardinality(A) \in Nat
    BY FS_RemoveElement, FS_CardinalityType
<1>2. Cardinality(B) <= Cardinality(A \ {x}) + 1
    BY <1>1, OneMore
<1> QED BY <1>1, <1>2

\* A set whose elements are values of a function on a finite set is no larger.
LEMMA Covered ==
    ASSUME NEW A, IsFiniteSet(A), NEW f, NEW B, \A x \in B : \E s \in A : f[s] = x
    PROVE  Cardinality(B) <= Cardinality(A)
<1> DEFINE D == {s \in A : f[s] \in B}
           h == [s \in D |-> f[s]]
<1>1. h \in Surjection(D, B)
    BY DEF Surjection
<1>2. IsFiniteSet(D) /\ Cardinality(D) <= Cardinality(A)
    BY FS_Subset
<1> HIDE DEF h, D
<1>3. IsFiniteSet(B) /\ Cardinality(B) <= Cardinality(D)
    BY <1>1, <1>2, FS_Surjection
<1>4. Cardinality(A) \in Nat /\ Cardinality(B) \in Nat /\ Cardinality(D) \in Nat
    BY <1>2, <1>3, FS_CardinalityType
<1> QED BY <1>2, <1>3, <1>4

LEMMA NewestType ==
    ASSUME IInv, Layout, pc \notin Panicked
    PROVE  /\ Newest \in Nat /\ gen \in Nat /\ Newest <= gen /\ gen <= MaxGen /\ MaxGen \in Nat
           /\ pc = "move" => Newest = gen - 1
<1>1. gen \in Nat /\ gen <= MaxGen /\ MaxGen \in Nat
    BY BoundsAssumption DEF IInv, TypeOK
<1>2. disk[Log] # 0 => gen # 0
  <2>1. CASE pc \in {"idle", "wait", "join", "move", "insert", "reopen"}
    BY <2>1 DEF Layout, LogInPlace
  <2>2. CASE pc = "start"
    BY <2>2, ColumnPaths DEF Layout, LogInPlace
  <2> QED BY <2>1, <2>2 DEF IInv, TypeOK
<1>3. pc = "move" => disk[Log] # 0
    BY DEF Layout, LogInPlace
<1> QED BY <1>1, <1>2, <1>3 DEF Newest, OnDisk

\* Where a generation that the policy keeps has to be.
LEMMA Located ==
    ASSUME IInv, Layout, EndFar, pc \notin Panicked,
           NEW g \in 1..Newest, g > Newest - Retained
    PROVE  \E s \in Numbers : /\ Here(s) \in Forms /\ ~Removed(s)
                              /\ disk[<<s, Here(s)>>] \in {g, - g}
<1> USE DEF Layout
<1>a. PICK a \in Int : a = Newest + 1 - g
    BY NewestType
<1>1. /\ Newest \in Nat /\ gen \in Nat /\ Newest <= gen /\ (pc = "move" => Newest = gen - 1)
      /\ Limit \in Nat
    BY NewestType, MaxFilesAssumption DEF Limit
<1>2. /\ a \in Nat /\ 0 < a /\ a <= Newest /\ (UpkeepKind = "all" \/ a <= Limit)
      /\ Newest + 1 - a = g /\ a - (Newest + 1) = - g
    BY <1>a, <1>1, UpkeepAssumption, MaxFilesAssumption, BoundsAssumption DEF Retained, Limit
<1>3. a \in Numbers /\ Form(a) # "none"
    BY <1>1, <1>2 DEF LimitKept
<1>4. ASSUME NEW s \in Numbers, Here(s) # "none", Age(s) = a
      PROVE  /\ Here(s) \in Forms /\ ~Removed(s)
             /\ disk[<<s, Here(s)>>] \in {g, - g}
  <2>1. Here(s) \in Forms
    BY <1>4, FormTypes
  <2>2. ~Removed(s)
    <3> SUFFICES ASSUME hpc = "trim", s >= hpos PROVE FALSE
      BY DEF Removed
    <3>1. pc # "move"
      BY DEF IInv, HandleHeld
    <3>2. s = a
      BY <1>4, <3>1 DEF Age
    <3>3. hpos \in Nat /\ MaxSuffix \in Nat /\ s <= MaxSuffix
      BY ColumnPaths, BoundsAssumption DEF IInv, TypeOK
    <3>4. UpkeepKind # "all" /\ hpos > Limit
      BY <1>2, <3>2, <3>3 DEF LimitKept
    <3> QED BY <1>1, <1>2, <3>2, <3>3, <3>4
  <2>3. disk[<<s, Here(s)>>] \in {Newest + 1 - a, a - (Newest + 1)}
    BY <1>4, <2>2 DEF FilesInPlace
  <2> QED BY <1>2, <2>1, <2>2, <2>3
<1>5. \E s \in Numbers : Here(s) # "none" /\ Age(s) = a
  <2>1. CASE pc # "move"
    BY <1>3, <2>1 DEF Here, Age
  <2>2. CASE pc = "move"
    <3>1. /\ at \in Nat /\ end \in Nat /\ at < end /\ end \in Numbers /\ Cascading
          /\ carried # "none" /\ \A s \in 1..end - 1 : suffixes[s] # "none"
      BY <2>2, ColumnPaths DEF IInv, CascadeBelowEnd, TypeOK, Cascading, Forms
    <3>2. a + 1 <= end /\ a + 1 \in Numbers
      <4>1. a + 1 <= end
        BY <1>1, <1>2, <2>2, <3>1 DEF EndFar
      <4> QED BY <1>2, <3>1, <4>1, BoundsAssumption DEF Numbers
    <3>3. Form(a + 1) # "none"
      <4>1. CASE a + 1 = end
        BY <3>1, <4>1 DEF Form
      <4>2. CASE a + 1 # end
        <5>1. a + 1 \in 1..end - 1
          BY <1>2, <3>1, <3>2, <4>2
        <5>2. Form(a + 1) = suffixes[a + 1]
          BY <2>2, <4>2 DEF Form, IInv, HandleHeld
        <5> QED BY <3>1, <5>1, <5>2
      <4> QED BY <4>1, <4>2
    <3>4. CASE a <= at
      BY <1>2, <1>3, <2>2, <3>1, <3>3, <3>4 DEF Here, Age
    <3>5. CASE ~(a <= at)
      <4>1. /\ ~(a + 1 <= at) /\ ~(a + 1 = at + 1) /\ a + 1 > at /\ (a + 1) - 1 = a
        BY <1>2, <3>1, <3>5
      <4>2. Here(a + 1) # "none" /\ Age(a + 1) = a
        BY <2>2, <3>3, <4>1 DEF Here, Age
      <4> QED BY <3>2, <4>2
    <3> QED BY <3>4, <3>5
  <2> QED BY <2>1, <2>2
<1> QED BY <1>4, <1>5

\* A generation that the policy keeps and that cannot be read is in a spoilt copy.
LEMMA LostIsSpoilt ==
    ASSUME IInv, Layout, EndFar, pc \notin Panicked,
           NEW g \in 1..Newest, g > Newest - Retained, g \notin Kept
    PROVE  \E s \in Spoilt : disk[<<s, "gz">>] = - g
<1> USE DEF Layout
<1>1. PICK s \in Numbers : /\ Here(s) \in Forms /\ ~Removed(s)
                           /\ disk[<<s, Here(s)>>] \in {g, - g}
    BY Located
<1>2. g \in 1..gen /\ g \in Int /\ g > 0
    BY NewestType
<1>3. ~Readable(g) /\ g \notin InEncoder
    BY <1>2 DEF Kept
<1>4. disk[<<s, Here(s)>>] = - g
    BY <1>1, <1>3, ColumnPaths DEF Readable
<1>5. Here(s) = "gz"
  <2>1. Here(s) # "plain"
    BY <1>2, <1>4 DEF NoStrayPlain
  <2> QED BY <1>1, <2>1 DEF Forms
<1>6. ~AtWork(s)
    BY <1>2, <1>3, <1>4, <1>5 DEF AtWork, InEncoder
<1>7. s \in Spoilt
    BY <1>2, <1>4, <1>5, <1>6 DEF Spoilt
<1> QED BY <1>4, <1>5, <1>7

LEMMA EnoughKept ==
    ASSUME IInv, Layout, Counted, pc \notin Panicked
    PROVE  RetainedReadable
<1> DEFINE B == {g \in 1..Newest : g > Newest - Retained} \ Kept
           f == [s \in Spoilt |-> - disk[<<s, "gz">>]]
<1>1. \A g \in B : \E s \in Spoilt : f[s] = g
  <2> SUFFICES ASSUME NEW g \in B PROVE \E s \in Spoilt : f[s] = g
    OBVIOUS
  <2>1. PICK s \in Spoilt : disk[<<s, "gz">>] = - g
    BY LostIsSpoilt DEF Counted
  <2>2. f[s] = g
    BY <2>1, NewestType
  <2> QED BY <2>2
<1> HIDE DEF B, f
<1>2. Cardinality(B) <= Cardinality(Spoilt) /\ IsFiniteSet(Spoilt)
    BY <1>1, SpoiltFinite, Covered
<1>3. Cardinality(B) \in Nat
  <2>1. IsFiniteSet(1..Newest)
    BY NewestType, FS_Interval
  <2>2. B \in SUBSET (1..Newest)
    BY DEF B
  <2> QED BY <2>1, <2>2, FS_Subset, FS_CardinalityType
<1>4. faults \in Nat /\ Cardinality(Spoilt) <= faults /\ Cardinality(Spoilt) \in Nat
    BY SpoiltFinite, BoundsAssumption DEF Counted, IInv, TypeOK
<1>5. Cardinality(B) <= faults
    BY <1>2, <1>3, <1>4
<1> QED BY <1>5 DEF RetainedReadable, B

\* The steps outside compress() spoil no copy.
LEMMA FollowSpoilt ==
    ASSUME IInv, CopiesFollow, hpc \notin {"copy", "unlink", "finish"}
    PROVE  Cardinality(Spoilt') <= Cardinality(Spoilt)
<1>a. PICK a \in Nat : a = at
    BY DEF IInv, TypeOK
<1>1. ASSUME NEW s \in Spoilt', s \notin Spoilt
      PROVE  a \in Spoilt /\ s = a + 1 /\ disk'[<<a, "gz">>] = 0
  <2>1. s \in Numbers /\ disk'[<<s, "gz">>] # 0 /\ ~(disk'[<<s, "gz">>] > 0 /\ Here(s)' = "gz")
    BY <1>1 DEF Spoilt
  <2>2. PICK t \in Numbers : /\ disk[<<t, "gz">>] = disk'[<<s, "gz">>]
                             /\ Here(t) = "gz" => Here(s)' = "gz"
                             /\ t # s => t = a /\ s = a + 1 /\ disk'[<<t, "gz">>] = 0
    BY <1>a, <2>1 DEF CopiesFollow
  <2>3. t \in Spoilt
    BY <2>1, <2>2 DEF Spoilt, AtWork
  <2> QED BY <1>1, <2>2, <2>3
<1>2. CASE Spoilt' \subseteq Spoilt
  <2>1. Spoilt' \in SUBSET Spoilt
    BY <1>2
  <2> QED BY <2>1, SpoiltFinite, FS_Subset
<1>3. CASE ~(Spoilt' \subseteq Spoilt)
  <2>1. a \in Spoilt /\ disk'[<<a, "gz">>] = 0
    BY <1>1, <1>3
  <2>2. a \notin Spoilt'
    BY <2>1 DEF Spoilt
  <2>3. Spoilt' \subseteq (Spoilt \ {a}) \cup {a + 1}
    BY <1>1, <2>2
  <2> QED BY <2>1, <2>3, SpoiltFinite, OneReplaced
<1> QED BY <1>2, <1>3

\* A copy that the set names is of an archived generation.
LEMMA NamedCopy ==
    ASSUME IInv, Layout, pc \notin Panicked, NEW s \in Numbers, Here(s) # "none"
    PROVE  disk[<<s, Here(s)>>] \in -Newest..Newest
<1>1. Newest \in Nat
    BY NewestType
<1>2. Age(s) \in Nat /\ Age(s) # 0
  <2>1. s \in Nat /\ s # 0 /\ at \in Nat
    BY ColumnPaths DEF IInv, TypeOK
  <2>2. pc = "move" => s # at + 1
    BY <2>1 DEF Here
  <2> QED BY <2>1, <2>2 DEF Age
<1>3. /\ Age(s) <= Newest
      /\ \/ disk[<<s, Here(s)>>] = 0
         \/ disk[<<s, Here(s)>>] \in {Newest + 1 - Age(s), Age(s) - (Newest + 1)}
    BY DEF Layout, FilesInPlace
<1> QED BY <1>1, <1>2, <1>3

NamedOld ==
    IInv /\ Layout /\ pc \notin Panicked =>
        /\ Newest \in Nat
        /\ \A s \in Numbers : Here(s) # "none" => disk[<<s, Here(s)>>] \in -Newest..Newest

LEMMA NamedCopyNext == NamedOld'
<1>1. NamedOld
    BY NamedCopy, NewestType DEF NamedOld
<1> QED BY <1>1, PTL

LEMMA FollowOld ==
    ASSUME OldCopies, CopiesFollow, IInv', Layout', pc' \notin Panicked,
           Newest \in Nat, Newest <= Newest'
    PROVE  OldCopies'
<1> SUFFICES ASSUME NEW s \in Numbers PROVE disk'[<<s, "gz">>] \in -Newest'..Newest'
    BY DEF OldCopies
<1>1. Newest' \in Nat /\ (Here(s)' = "gz" => disk'[<<s, "gz">>] \in -Newest'..Newest')
    BY NamedCopyNext DEF NamedOld
<1>2. ASSUME NEW t \in Numbers, disk[<<t, "gz">>] = disk'[<<s, "gz">>]
      PROVE  disk'[<<s, "gz">>] \in -Newest'..Newest'
    BY <1>1, <1>2 DEF OldCopies
<1>3. CASE disk'[<<s, "gz">>] = 0
  <2>1. \A n \in Nat : 0 \in -n..n
    OBVIOUS
  <2> QED BY <1>1, <1>3, <2>1
<1>4. CASE disk'[<<s, "gz">>] # 0
  <2>1. \/ Here(s)' = "gz"
        \/ \E t \in Numbers : disk[<<t, "gz">>] = disk'[<<s, "gz">>]
    BY <1>4 DEF CopiesFollow
  <2> QED BY <1>1, <1>2, <2>1
<1> QED BY <1>3, <1>4

\* A step of the writer or of the retention loop.
LEMMA CountedFollow ==
    ASSUME IInv, Layout, Counted, pc \notin Panicked, IInv', Layout', EndFar', CopiesFollow,
           hpc \notin {"copy", "unlink", "finish"}, Newest <= Newest', faults <= faults'
    PROVE  Counted'
<1>1. Cardinality(Spoilt') <= faults'
  <2>1. Cardinality(Spoilt') <= Cardinality(Spoilt) /\ Cardinality(Spoilt) <= faults
    BY FollowSpoilt DEF Counted
  <2>2. Cardinality(Spoilt) \in Nat /\ faults \in Nat /\ faults' \in Nat
    BY SpoiltFinite, BoundsAssumption DEF IInv, TypeOK
  <2>3. Cardinality(Spoilt') \in Nat
    BY SpoiltFiniteNext
  <2> QED BY <2>1, <2>2, <2>3
<1>2. pc' \notin Panicked => OldCopies'
    BY FollowOld, NewestType DEF Counted
<1> QED BY <1>1, <1>2 DEF Counted

\* A step of compress() on one copy, which is being written, is whole, or is
\* spoilt by a fault.
LEMMA CountedCopy ==
    ASSUME IInv, Counted, pc \notin Panicked, IInv', ~Cascading', Newest' = Newest,
           NEW c \in Numbers, disk'[<<c, "gz">>] \in -Newest..Newest,
           \A s \in Numbers : s # c => /\ disk'[<<s, "gz">>] = disk[<<s, "gz">>]
                                       /\ Here(s)' = Here(s) /\ ~AtWork(s),
           \/ faults' = faults /\ (AtWork(c)' \/ (disk'[<<c, "gz">>] > 0 /\ Here(c)' = "gz"))
           \/ faults' = faults + 1
    PROVE  Counted'
<1>1. OldCopies'
    BY DEF OldCopies, Counted
<1>2. Spoilt' \subseteq Spoilt \cup {c}
    BY DEF Spoilt
<1>3. Cardinality(Spoilt') <= faults'
  <2>1. /\ Cardinality(Spoilt) \in Nat /\ Cardinality(Spoilt') \in Nat /\ faults \in Nat
        /\ Cardinality(Spoilt) <= faults
    BY SpoiltFinite, SpoiltFiniteNext, BoundsAssumption DEF Counted, IInv, TypeOK
  <2>2. CASE faults' = faults + 1
    <3>1. Cardinality(Spoilt') <= Cardinality(Spoilt) + 1
      BY <1>2, SpoiltFinite, OneMore
    <3> QED BY <2>1, <2>2, <3>1
  <2>3. CASE faults' = faults /\ (AtWork(c)' \/ (disk'[<<c, "gz">>] > 0 /\ Here(c)' = "gz"))
    <3>1. c \notin Spoilt'
      BY <2>3 DEF Spoilt
    <3>2. Spoilt' \in SUBSET Spoilt
      BY <1>2, <3>1
    <3>3. Cardinality(Spoilt') <= Cardinality(Spoilt)
      BY <3>2, SpoiltFinite, FS_Subset
    <3> QED BY <2>1, <2>3, <3>3
  <2> QED BY <2>2, <2>3
<1> QED BY <1>1, <1>3 DEF Counted, EndFar

\* What a step of compress() on the copy of a file changes.
LEMMA CompressAlone ==
    ASSUME IInv, Layout, pc \notin Panicked, NEW c \in Numbers, hcur' = c,
           UNCHANGED <<gen, pc, at, end, carried, disk[Log]>>,
           hpc \in {"compress", "copy", "unlink", "finish"},
           hpc \in {"copy", "unlink", "finish"} => hcur = c,
           \A s \in Numbers : s # c => suffixes'[s] = suffixes[s]
    PROVE  /\ ~Cascading' /\ Newest' = Newest
           /\ \A s \in Numbers : s # c => Here(s)' = Here(s) /\ ~AtWork(s)
           /\ Here(c)' = IF hpc' = "finish" THEN "gz" ELSE suffixes'[c]
<1>1. /\ ~Cascading' /\ Newest' = Newest /\ ~Cascading
      /\ \A s \in Numbers : Here(s) = Form(s) /\ Here(s)' = Form(s)'
    BY HandlerOutside
<1>2. ASSUME NEW s \in Numbers, s # c PROVE Form(s)' = Form(s) /\ ~AtWork(s)
    BY <1>1, <1>2 DEF Form, AtWork
<1>3. Form(c)' = IF hpc' = "finish" THEN "gz" ELSE suffixes'[c]
    BY <1>1 DEF Form
<1> QED BY <1>1, <1>2, <1>3

LEMMA CountedCompressOpen ==
    ASSUME IInv, Layout, Counted, pc \notin Panicked, IInv', Layout', CompressOpen
    PROVE  Counted'
<1> USE DEF cascade
<1>1. PICK r \in NextToCompress :
        /\ hcur' = r
        /\ \/ /\ OnDisk(FileOf(r))
              /\ disk' = [disk EXCEPT ![<<r, "gz">>] = - disk[FileOf(r)]]
              /\ hpc' = "copy" /\ faults' = faults
           \/ UNCHANGED disk /\ hpc' = "none" /\ (faults' = faults \/ faults' = faults + 1)
    BY DEF CompressOpen, Fault
<1>2. /\ r \in Numbers /\ suffixes[r] = "plain" /\ hpc = "compress" /\ faults \in Nat
      /\ UNCHANGED <<gen, suffixes, pc, at, end, carried>>
      /\ disk \in [Path -> -MaxGen..MaxGen]
    BY BoundsAssumption DEF NextToCompress, ToCompress, Known, CompressOpen, IInv, TypeOK
<1>3. CASE OnDisk(FileOf(r)) /\ disk' = [disk EXCEPT ![<<r, "gz">>] = - disk[FileOf(r)]] /\ hpc' = "copy" /\ faults' = faults
  <2>1. /\ disk'[<<r, "gz">>] = - disk[<<r, "plain">>] /\ disk'[Log] = disk[Log]
        /\ \A s \in Numbers : s # r => disk'[<<s, "gz">>] = disk[<<s, "gz">>]
    <3>1. <<r, "gz">> \in Path /\ <<r, "gz">> # Log
      BY <1>2, ColumnPaths DEF Forms
    <3>2. disk' = [disk EXCEPT ![<<r, "gz">>] = - disk[<<r, "plain">>]]
      BY <1>2, <1>3 DEF FileOf
    <3>3. /\ disk'[<<r, "gz">>] = - disk[<<r, "plain">>]
          /\ \A p \in Path : p # <<r, "gz">> => disk'[p] = disk[p]
      BY <1>2, <3>1, <3>2, OneFile
    <3> QED BY <3>1, <3>3, ColumnPaths DEF Forms
  <2>2. /\ ~Cascading' /\ Newest' = Newest
        /\ \A s \in Numbers : s # r => Here(s)' = Here(s) /\ ~AtWork(s)
    BY <1>1, <1>2, <2>1, CompressAlone
  <2>3. disk[<<r, "plain">>] \in -Newest..Newest
    <3>1. Here(r) = "plain"
      BY <1>2 DEF Here, Form, Cascading, IInv, HandleHeld
    <3> QED BY <1>2, <3>1, NamedCopy
  <2>4. disk'[<<r, "gz">>] \in -Newest..Newest
    BY <2>1, <2>3, NewestType
  <2>5. AtWork(r)'
    BY <1>1, <1>3 DEF AtWork
  <2> QED BY <1>2, <1>3, <2>1, <2>2, <2>4, <2>5, CountedCopy
<1>4. CASE UNCHANGED disk /\ hpc' = "none" /\ (faults' = faults \/ faults' = faults + 1)
  <2>1. /\ ~Cascading' /\ Newest' = Newest /\ ~Cascading
        /\ \A s \in Numbers : Here(s) = Form(s) /\ Here(s)' = Form(s)'
    BY <1>2, <1>4, HandlerOutside
  <2>2. \A s \in Numbers : Here(s)' = Here(s)
    BY <1>2, <1>4, <2>1 DEF Form
  <2>3. CopiesFollow
    BY <1>4, <2>2 DEF CopiesFollow
  <2>4. Newest <= Newest' /\ faults <= faults' /\ EndFar'
    BY <1>2, <1>4, <2>1, NewestType DEF EndFar
  <2> QED BY <1>2, <2>3, <2>4, CountedFollow
<1> QED BY <1>1, <1>3, <1>4

LEMMA CountedCompress ==
    ASSUME IInv, Layout, Counted, pc \notin Panicked, IInv', Layout',
           CompressCopy \/ CompressUnlink \/ CompressFinish
    PROVE  Counted'
<1> USE DEF cascade, Fault
<1>1. /\ hcur \in Numbers /\ hcur' = hcur /\ hpc \in {"copy", "unlink", "finish"}
      /\ UNCHANGED <<gen, pc, at, end, carried>> /\ disk \in [Path -> -MaxGen..MaxGen]
      /\ suffixes \in [Numbers -> Forms \cup {"none"}]
    BY DEF CompressCopy, CompressUnlink, CompressFinish, IInv, CompressesArchived, TypeOK
<1>a. PICK c \in Numbers : c = hcur
    BY <1>1
<1>2. /\ <<c, "gz">> \in Path /\ <<c, "plain">> \in Path /\ <<c, "gz">> # Log /\ <<c, "plain">> # Log
      /\ disk[<<c, "gz">>] < 0 /\ disk[<<c, "gz">>] \in -Newest..Newest /\ Newest \in Nat
      /\ hpc # "finish" => disk[<<c, "plain">>] = - disk[<<c, "gz">>]
    BY <1>1, <1>a, ColumnPaths, NewestType DEF Counted, OldCopies, Layout, Compressing, Forms
<1>3. \A s \in Numbers : s # c => suffixes'[s] = suffixes[s]
    BY <1>1, <1>a DEF CompressCopy, CompressUnlink, CompressFinish
<1>4. \/ UNCHANGED disk
      \/ disk' = [disk EXCEPT ![<<c, "plain">>] = 0]
      \/ disk' = [disk EXCEPT ![<<c, "gz">>] = - disk[<<c, "gz">>]]
    BY <1>a DEF CompressCopy, CompressUnlink, CompressFinish, Finished
<1>5. /\ disk'[Log] = disk[Log]
      /\ disk'[<<c, "gz">>] \in {disk[<<c, "gz">>], - disk[<<c, "gz">>]}
      /\ \A s \in Numbers : s # c => disk'[<<s, "gz">>] = disk[<<s, "gz">>]
  <2>1. CASE UNCHANGED disk
    BY <2>1
  <2>2. CASE disk' = [disk EXCEPT ![<<c, "plain">>] = 0]
    <3>1. \A p \in Path : p # <<c, "plain">> => disk'[p] = disk[p]
      BY <1>1, <1>2, <2>2, OneFile
    <3> QED BY <1>2, <3>1, ColumnPaths DEF Forms
  <2>3. CASE disk' = [disk EXCEPT ![<<c, "gz">>] = - disk[<<c, "gz">>]]
    <3>1. /\ disk'[<<c, "gz">>] = - disk[<<c, "gz">>]
          /\ \A p \in Path : p # <<c, "gz">> => disk'[p] = disk[p]
      BY <1>1, <1>2, <2>3, OneFile
    <3> QED BY <1>2, <3>1, ColumnPaths DEF Forms
  <2> QED BY <1>4, <2>1, <2>2, <2>3
<1>6. disk'[<<c, "gz">>] \in -Newest..Newest
    BY <1>2, <1>5
<1>7. /\ ~Cascading' /\ Newest' = Newest
      /\ \A s \in Numbers : s # c => Here(s)' = Here(s) /\ ~AtWork(s)
      /\ Here(c)' = IF hpc' = "finish" THEN "gz" ELSE suffixes'[c]
    BY <1>1, <1>a, <1>3, <1>5, CompressAlone
<1>8. \/ faults' = faults /\ (AtWork(c)' \/ (disk'[<<c, "gz">>] > 0 /\ Here(c)' = "gz"))
      \/ faults' = faults + 1
  <2>1. CASE CompressCopy
    BY <1>1, <1>a, <2>1 DEF CompressCopy, AtWork
  <2>2. CASE CompressUnlink
    <3>1. OnDisk(<<hcur, "plain">>)
      BY <1>2, <1>a, <2>2 DEF CompressUnlink, OnDisk
    <3> QED BY <1>1, <1>a, <2>2, <3>1 DEF CompressUnlink, AtWork
  <2>3. CASE CompressFinish
    <3>1. hpc' = "compress" /\ suffixes'[c] = "gz"
      BY <1>1, <1>a, <2>3 DEF CompressFinish
    <3>2. faults' = faults + 1 \/ (faults' = faults /\ disk' = Finished(hcur, disk))
      BY <2>3 DEF CompressFinish
    <3>3. CASE disk' = Finished(hcur, disk)
      <4>1. disk'[<<c, "gz">>] = - disk[<<c, "gz">>]
        BY <1>1, <1>2, <1>a, <3>3 DEF Finished
      <4>2. disk'[<<c, "gz">>] > 0
        BY <1>2, <4>1
      <4> QED BY <1>7, <3>1, <3>2, <4>2
    <3> QED BY <3>2, <3>3
  <2> QED BY <2>1, <2>2, <2>3
<1> QED BY <1>5, <1>6, <1>7, <1>8, CountedCopy

LEMMA CountedWriter ==
    ASSUME IInv, Layout, Counted, Rotate \/ FlushWait \/ FlushWaitDone \/ Reopen
    PROVE  Counted'
<1>1. /\ ~Cascading' /\ faults' = faults /\ pc \notin Panicked /\ Newest' = Newest
      /\ \A s \in Numbers : /\ disk'[<<s, "gz">>] = disk[<<s, "gz">>]
                            /\ Here(s)' = Here(s) /\ AtWork(s)' = AtWork(s)
    BY WriterAlone DEF Forms
<1>2. Spoilt' = Spoilt
    BY <1>1 DEF Spoilt
<1>3. OldCopies'
    BY <1>1 DEF OldCopies, Counted
<1> QED BY <1>1, <1>2, <1>3 DEF Counted, EndFar

\* The first free number is beyond what the policy keeps.
LEMMA DescendFar ==
    ASSUME IInv, Layout, Descend
    PROVE  EndFar'
<1> USE DEF Layout
<1>1. PICK k \in FirstFree : end' = k
    BY DEF Descend
<1>2. k \in Numbers /\ k \in Nat /\ k # 0 /\ suffixes[k] = "none"
    BY <1>1, ColumnPaths DEF FirstFree
<1>3. /\ pc = "join" /\ pc \notin Panicked /\ ~Cascading /\ hpc = "none" /\ gen' = gen /\ Limit' = Limit
    BY DEF Descend, Joined, IInv, HandleHeld, Cascading, Panicked, Limit
<1>4. Form(k) = "none"
    BY <1>2, <1>3 DEF Form
<1>5. gen \in Nat /\ Newest = gen - 1 /\ Limit \in Nat
    BY <1>3, NewestType, MaxFilesAssumption DEF Limit, LogInPlace, Newest, OnDisk
<1>6. ~(k <= Newest /\ (UpkeepKind = "all" \/ k <= Limit))
    BY <1>2, <1>3, <1>4 DEF LimitKept
<1> QED BY <1>1, <1>2, <1>3, <1>5, <1>6 DEF EndFar

\* The steps that change the set or move files, and the retention loop.
LEMMA CountedArchive ==
    ASSUME Orderly, IInv, Layout, Counted, pc \notin Panicked, IInv', Layout',
           Start \/ Descend \/ Move \/ Spawn \/ Trim \/ TrimDone \/ CompressDone
    PROVE  Counted'
<1> USE DEF cascade, handler
<1>1. faults' = faults /\ hpc \notin {"copy", "unlink", "finish"}
  <2>1. CASE Trim
    BY <2>1 DEF Trim, Fault, Orderly
  <2>2. CASE TrimDone \/ CompressDone
    BY <2>2 DEF TrimDone, CompressDone
  <2>3. CASE Start
    BY <2>3 DEF Start, Layout, LogInPlace
  <2>4. CASE Descend \/ Move \/ Spawn
    BY <2>4 DEF Descend, Joined, Move, Spawn, IInv, HandleHeld
  <2> QED BY <2>1, <2>2, <2>3, <2>4
<1>2. faults <= faults'
    BY <1>1, BoundsAssumption DEF IInv, TypeOK
<1>3. Newest <= Newest'
  <2>1. Newest \in Nat /\ gen \in Nat
    BY NewestType
  <2>2. CASE Descend \/ Spawn \/ TrimDone \/ CompressDone
    BY <2>1, <2>2 DEF Descend, Spawn, TrimDone, CompressDone, Newest, OnDisk
  <2>3. CASE Start
    <3>1. gen = 0 /\ disk[Log] = 0 /\ disk \in [Path -> -MaxGen..MaxGen]
      BY <2>3, ColumnPaths DEF Start, Layout, LogInPlace, IInv, TypeOK
    <3>2. gen' = 1 /\ disk'[Log] = 1
      BY <2>3, <3>1, ColumnPaths DEF Start, OpenLog, OnDisk
    <3> QED BY <3>1, <3>2 DEF Newest, OnDisk
  <2>4. CASE Move
    <3>1. pc = "move" /\ gen' = gen
      BY <2>4 DEF Move
    <3>2. Newest = gen - 1
      BY <3>1, NewestType
    <3> QED BY <2>1, <3>1, <3>2 DEF Newest
  <2>5. CASE Trim
    <3>1. PICK s \in Known : disk' = [disk EXCEPT ![FileOf(s)] = 0] \/ disk' = disk
      BY <2>5 DEF Trim, Older
    <3>2. disk \in [Path -> -MaxGen..MaxGen] /\ FileOf(s) \in Path /\ FileOf(s) # Log
      BY ColumnPaths DEF Known, FileOf, IInv, TypeOK
    <3>3. disk'[Log] = disk[Log]
      BY <3>1, <3>2, ColumnPaths, OneFile
    <3> QED BY <2>1, <2>5, <3>3 DEF Newest, OnDisk, Trim
  <2> QED BY <2>2, <2>3, <2>4, <2>5
<1>4. EndFar'
  <2>1. CASE Descend
    BY <2>1, DescendFar
  <2>2. CASE Move
    BY <2>2 DEF Move, EndFar, Cascading, Limit, Counted
  <2>3. CASE Start \/ Spawn
    BY <2>3 DEF Start, Spawn, EndFar, Cascading
  <2>4. CASE Trim \/ TrimDone \/ CompressDone
    BY <2>4 DEF Trim, TrimDone, CompressDone, EndFar, Cascading, IInv, HandleHeld
  <2> QED BY <2>1, <2>2, <2>3, <2>4
<1>5. CopiesFollow
  <2>1. CASE Descend
    BY <2>1, LayoutDescend
  <2>2. CASE Move
    BY <2>2, LayoutMoveUp, LayoutMoveLog
  <2>3. CASE Spawn
    BY <2>3, LayoutSpawn
  <2>4. CASE Trim
    BY <2>4, LayoutTrim DEF Orderly
  <2>5. CASE TrimDone
    BY <2>5, LayoutTrimDone
  <2>6. CASE CompressDone
    <3>1. UNCHANGED <<disk, gen, suffixes, pc, at, end, carried, hcur>> /\ hpc = "compress" /\ hpc' = "none"
      BY <2>6 DEF CompressDone
    <3>2. \A s \in Numbers : Here(s)' = Here(s)
      BY <3>1 DEF Here, Form, Cascading
    <3> QED BY <3>1, <3>2 DEF CopiesFollow
  <2>7. CASE Start
    <3>1. (\A p \in Path : disk[p] = 0) /\ disk \in [Path -> -MaxGen..MaxGen]
      BY <2>7 DEF Start, Layout, LogInPlace, IInv, TypeOK
    <3>2. disk' = disk \/ disk' = [disk EXCEPT ![Log] = gen + 1]
      BY <2>7 DEF Start, OpenLog
    <3>3. \A q \in Path : q # Log => disk'[q] = 0
      BY <3>1, <3>2, ColumnPaths, OneFile
    <3>4. \A s \in Numbers : disk'[<<s, "gz">>] = 0
      BY <3>3, ColumnPaths DEF Forms
    <3> QED BY <3>4 DEF CopiesFollow
  <2> QED BY <2>1, <2>2, <2>3, <2>4, <2>5, <2>6, <2>7
<1> HIDE DEF cascade, handler
<1> QED BY <1>1, <1>2, <1>3, <1>4, <1>5, CountedFollow

\* A writer that has panicked leaves everything as it is.
LEMMA Halted ==
    ASSUME Orderly, Stopped, pc \in Panicked, [Next]_vars
    PROVE  UNCHANGED vars
<1>1. hpc = "none"
    BY DEF Stopped
<1> QED BY <1>1 DEF Panicked, Orderly, Next, WriterStep, HandlerStep, Start, FlushWaitDone, Descend,
         Move, MovePanic, Spawn, Reopen, Rotate, FlushWait, Crash, ExternalDelete, Fault, Trim,
         TrimDone, CompressOpen, CompressCopy, CompressUnlink, CompressFinish, CompressDone

LEMMA CountedStep ==
    ASSUME Orderly, IInv, Layout, Counted, Stopped, [Next]_vars, IInv', Layout'
    PROVE  Counted' /\ Stopped'
<1>1. CASE UNCHANGED vars
  <2>1. Spoilt' = Spoilt
    BY <1>1 DEF vars, Spoilt, AtWork, Here, Form, Cascading
  <2> QED BY <1>1, <2>1 DEF vars, Counted, Stopped, OldCopies, EndFar, Cascading, Newest, OnDisk, Limit
<1>2. CASE Next /\ pc \notin Panicked
  <2>1. CASE MovePanic
    <3>1. pc = "move" /\ pc' \in Panicked /\ hpc' = hpc
      BY <2>1 DEF MovePanic, Panicked, handler
    <3> QED BY <3>1 DEF Counted, Stopped, IInv, HandleHeld
  <2>2. CASE ~MovePanic
    <3>1. Counted'
      <4>1. CASE Rotate \/ FlushWait \/ FlushWaitDone \/ Reopen
        BY <4>1, CountedWriter
      <4>2. CASE Start \/ Descend \/ Move \/ Spawn \/ Trim \/ TrimDone \/ CompressDone
        BY <1>2, <4>2, CountedArchive
      <4>3. CASE CompressOpen \/ CompressCopy \/ CompressUnlink \/ CompressFinish
        BY <1>2, <4>3, CountedCompressOpen, CountedCompress
      <4>4. CASE Crash \/ ExternalDelete
        BY <4>4 DEF Crash, ExternalDelete, Fault, Orderly
      <4> QED BY <1>2, <2>2, <4>1, <4>2, <4>3, <4>4 DEF Next, WriterStep, HandlerStep
    <3>2. pc' \notin Panicked
      BY <1>2, <2>2 DEF Next, WriterStep, HandlerStep, Start, FlushWaitDone, Descend, Move,
           Spawn, Reopen, Rotate, FlushWait, Crash, ExternalDelete, Trim, TrimDone, CompressOpen,
           CompressCopy, CompressUnlink, CompressFinish, CompressDone, Panicked
    <3> QED BY <3>1, <3>2 DEF Stopped
  <2> QED BY <2>1, <2>2
<1>3. CASE pc \in Panicked
    BY <1>1, <1>3, Halted
<1> QED BY <1>1, <1>2, <1>3

LEMMA CountedInit == Init => Counted /\ Stopped
<1> SUFFICES ASSUME Init PROVE Counted /\ Stopped
    OBVIOUS
<1>1. \A s \in Numbers : disk[<<s, "gz">>] = 0
    BY ColumnPaths DEF Init, Forms
<1>2. Spoilt = {} /\ Newest = 0
    BY <1>1, ColumnPaths DEF Spoilt, Newest, OnDisk, Init
<1>3. Cardinality(Spoilt) = 0
    BY <1>2, FS_EmptySet
<1> QED BY <1>1, <1>2, <1>3 DEF Init, Counted, Stopped, OldCopies, EndFar, Cascading, Panicked

LEMMA CountedInvariance ==
    ASSUME Orderly
    PROVE  Spec => [](IInv /\ Layout /\ Counted /\ Stopped)
<1>1. Init => IInv /\ Layout /\ Counted /\ Stopped
    BY InitInv, LayoutInit, CountedInit
<1>2. IInv /\ Layout /\ Counted /\ Stopped /\ [Next]_vars => (IInv /\ Layout /\ Counted /\ Stopped)'
    BY NextInv, LayoutStep, CountedStep
<1> QED BY <1>1, <1>2, PTL DEF Spec

EnoughKeptAt == IInv /\ Layout /\ Counted /\ pc \notin Panicked => RetainedReadable

LEMMA EnoughKeptNext == EnoughKeptAt'
<1>1. EnoughKeptAt
    BY EnoughKept DEF EnoughKeptAt
<1> QED BY <1>1, PTL

\* A failed compression costs at most one generation: in every state the policy's
\* newest generations can be read, but for one per fault, however often a rename
\* or any step of compress() fails and whatever the two threads are doing.
THEOREM RetainedReadableHolds ==
    ASSUME Orderly
    PROVE  Spec => []RetainedReadable
<1>1. Init => RetainedReadable
    BY InitInv, LayoutInit, CountedInit, EnoughKept DEF Init, Panicked
<1>2. ASSUME IInv, Layout, Stopped, RetainedReadable, [Next]_vars, IInv', Layout', Counted'
      PROVE  RetainedReadable'
  <2>1. CASE UNCHANGED vars
    BY <1>2, <2>1 DEF vars, RetainedReadable, Newest, Kept, Readable, InEncoder, OnDisk, Retained
  <2>2. CASE MovePanic
    <3> DEFINE B == {g \in 1..Newest : g > Newest - Retained} \ Kept
    <3>1. UNCHANGED <<disk, gen, hpc, hcur>> /\ pc \notin Panicked /\ faults' \in {faults, faults + 1}
      BY <2>2 DEF MovePanic, handler, Panicked, Fault
    <3>2. B' = B
      BY <3>1 DEF Newest, Kept, Readable, InEncoder, OnDisk, Retained
    <3>3. IsFiniteSet(1..Newest) /\ B \in SUBSET (1..Newest)
      BY <1>2, <3>1, NewestType, FS_Interval
    <3>4. Cardinality(B) <= faults
      BY <1>2 DEF RetainedReadable
    <3> HIDE DEF B
    <3>5. Cardinality(B) \in Nat /\ faults \in Nat
      <4>1. IsFiniteSet(B)
        BY <3>3, FS_Subset
      <4> QED BY <1>2, <4>1, FS_CardinalityType, BoundsAssumption DEF IInv, TypeOK
    <3>6. Cardinality(B) <= faults'
      BY <3>1, <3>4, <3>5
    <3>7. Cardinality(B') <= faults'
      BY <3>2, <3>6
    <3> QED BY <3>7 DEF B, RetainedReadable
  <2>3. CASE pc \in Panicked
    BY <1>2, <2>1, <2>3, Halted
  <2>4. CASE Next /\ ~MovePanic /\ pc \notin Panicked
    <3>1. pc' \notin Panicked
      BY <2>4 DEF Next, WriterStep, HandlerStep, Start, FlushWaitDone, Descend, Move,
           Spawn, Reopen, Rotate, FlushWait, Crash, ExternalDelete, Trim, TrimDone, CompressOpen,
           CompressCopy, CompressUnlink, CompressFinish, CompressDone, Panicked
    <3> QED BY <1>2, <3>1, EnoughKeptNext DEF EnoughKeptAt
  <2> QED BY <1>2, <2>1, <2>2, <2>3, <2>4
<1> QED BY <1>1, <1>2, CountedInvariance, PTL DEF Spec

-----------------------------------------------------------------------------
\* The files implement the abstract archive, step by step.

\* A generation is in a file of the archive.
Stored(g) == \E s \in Numbers, f \in Forms : disk[<<s, f>>] = g

KeptIs == Newest \in Nat /\ Kept = {g \in 1..Newest : Stored(g) \/ g \in InEncoder}

KeptIsAt == IInv /\ Layout /\ LogPlain /\ Counted /\ pc \notin Panicked => KeptIs

\* The generation compress() holds is archived too.
LEMMA EncoderOld ==
    ASSUME IInv, OldCopies, Newest \in Nat, NEW g \in InEncoder
    PROVE  g \in -Newest..Newest
<1>1. hcur \in Numbers /\ g = - disk[<<hcur, "gz">>]
    BY DEF InEncoder, IInv, CompressesArchived
<1> QED BY <1>1 DEF OldCopies

LEMMA KeptHolds == KeptIsAt
<1> SUFFICES ASSUME IInv, Layout, LogPlain, Counted, pc \notin Panicked PROVE KeptIs
    BY DEF KeptIsAt
<1>1. Newest \in Nat /\ gen \in Nat /\ Newest <= gen
    BY NewestType
<1>2. ASSUME NEW g \in 1..gen, Readable(g) PROVE Stored(g)
  <2>1. PICK p \in Path : p # Log /\ disk[p] = g
    BY <1>2 DEF Readable
  <2>2. PICK s \in 0..MaxSuffix, f \in Forms : p = <<s, f>>
    BY <2>1 DEF Path
  <2>3. s # 0
    BY <1>2, <2>1, <2>2 DEF LogPlain, Log, Forms
  <2>4. s \in Numbers
    BY <2>2, <2>3, BoundsAssumption DEF Numbers
  <2> QED BY <2>1, <2>2, <2>4 DEF Stored
<1>3. ASSUME NEW g, Stored(g) PROVE Readable(g) /\ g \in -Newest..Newest
  <2>1. PICK s \in Numbers, f \in Forms : disk[<<s, f>>] = g
    BY <1>3 DEF Stored
  <2>2. Readable(g)
    BY <2>1, ColumnPaths DEF Readable
  <2>3. CASE f = "gz"
    BY <2>1, <2>2, <2>3 DEF Counted, OldCopies
  <2>4. CASE f = "plain" /\ disk[<<s, "plain">>] # 0
    <3>1. Here(s) = "plain"
      BY <2>4 DEF Layout, NoStrayPlain
    <3>2. disk[<<s, "plain">>] \in -Newest..Newest
      BY <3>1, NamedCopy
    <3> QED BY <2>1, <2>2, <2>4, <3>2
  <2>5. CASE f = "plain" /\ disk[<<s, "plain">>] = 0
    BY <1>1, <2>1, <2>2, <2>5
  <2> QED BY <2>1, <2>2, <2>3, <2>4, <2>5 DEF Forms
<1>4. \A g \in InEncoder : g \in -Newest..Newest
    BY <1>1, EncoderOld DEF Counted
<1>5. \A g \in Kept : g \in 1..Newest /\ (Stored(g) \/ g \in InEncoder)
    BY <1>1, <1>2, <1>3, <1>4 DEF Kept
<1>6. \A g \in 1..Newest : Stored(g) \/ g \in InEncoder => g \in Kept
    BY <1>1, <1>3 DEF Kept
<1> QED BY <1>1, <1>5, <1>6 DEF KeptIs

LEMMA KeptNext == KeptIsAt'
BY KeptHolds, PTL

\* The abstract module counts as this one does.
LEMMA SameCount == \A S : Promise!Cardinality(S) = Cardinality(S)
BY DEF Promise!Cardinality, Cardinality

\* The actions of the abstract archive, by what they leave.
LEMMA AsFault ==
    ASSUME faults' = faults + 1, Newest' = Newest,
           Kept' = Kept \/ \E g \in Kept : Kept' = Kept \ {g}
    PROVE  Promise!Next
BY DEF Promise!Next, Promise!Fault

LEMMA AsAdd ==
    ASSUME faults' = faults, Newest' = Newest + 1, Kept' = Kept \cup {Newest + 1}
    PROVE  Promise!Next
BY DEF Promise!Next, Promise!Add

LEMMA AsDrop ==
    ASSUME faults' = faults, Newest' = Newest, Kept \subseteq 1..Newest, RetainedReadable',
           NEW v, Kept' = Kept \/ Kept' = Kept \ {v},
           v \in 1..Newest => v > Newest - Retained \/ Cardinality({h \in Kept : h < v}) <= faults
    PROVE  [Promise!Next]_<<Kept, Newest, faults>>
<1>1. CASE Kept' = Kept
    BY <1>1
<1>2. CASE Kept' # Kept
  <2>1. v \in Kept /\ v \in 1..Newest /\ Kept' = Kept \ {v}
    BY <1>2
  <2>2. Cardinality({g \in 1..Newest : g > Newest - Retained} \ Kept') <= faults
    BY DEF RetainedReadable, Retained
  <2>3. v \notin {g \in 1..Newest : g > Newest - Retained} => Cardinality({h \in Kept : h < v}) <= faults
    BY <2>1
  <2>4. Promise!Drop
    <3>1. Promise!Promised = {g \in 1..Newest : g > Newest - Retained}
      BY DEF Promise!Promised
    <3>2. IF v \in Promise!Promised THEN Cardinality(Promise!Promised \ Kept') <= faults
                                    ELSE Cardinality({h \in Kept : h < v}) <= faults
      BY <2>2, <2>3, <3>1
    <3> SUFFICES \E g \in Kept :
                    /\ Kept' = Kept \ {g}
                    /\ IF g \in Promise!Promised THEN Cardinality(Promise!Promised \ Kept') <= faults
                                                 ELSE Cardinality({h \in Kept : h < g}) <= faults
                    /\ UNCHANGED <<Newest, faults>>
      BY SameCount DEF Promise!Drop
    <3>3. v \in Kept
      BY <2>1
    <3> WITNESS v \in Kept
    <3> QED BY <2>1, <3>2
  <2> QED BY <2>4 DEF Promise!Next
<1> QED BY <1>1, <1>2

\* The generations older than all that the set names are in spoilt copies.
LEMMA OlderFew ==
    ASSUME IInv, Layout, LogPlain, Counted, pc \notin Panicked, hpc \in {"trim", "compress"},
           NEW v \in Int,
           \A s \in Numbers : Here(s) # "none" /\ ~Removed(s) => Newest + 1 - s >= v
    PROVE  Cardinality({h \in Kept : h < v}) <= faults
<1> DEFINE B == {h \in Kept : h < v}
           f == [s \in Spoilt |-> disk[<<s, "gz">>]]
<1>1. KeptIs /\ InEncoder = {} /\ Newest \in Nat
    BY KeptHolds DEF KeptIsAt, KeptIs, InEncoder
<1>2. ASSUME NEW s \in Numbers, NEW h \in 1..Newest, h < v, Here(s) # "none"
      PROVE  disk[<<s, Here(s)>>] # h
  <2> SUFFICES ASSUME disk[<<s, Here(s)>>] = h PROVE FALSE
    OBVIOUS
  <2>1. Age(s) = s /\ s \in Nat
    BY ColumnPaths DEF Age, IInv, HandleHeld
  <2>2. ~Removed(s)
    BY <1>2 DEF Layout, FilesInPlace
  <2>3. s <= Newest /\ h \in {Newest + 1 - s, s - (Newest + 1)}
    BY <1>2, <2>1, <2>2 DEF Layout, FilesInPlace
  <2>4. h = Newest + 1 - s
    BY <1>1, <2>1, <2>3
  <2> QED BY <1>2, <2>2, <2>4
<1>3. \A h \in B : \E s \in Spoilt : f[s] = h
  <2> SUFFICES ASSUME NEW h \in B PROVE \E s \in Spoilt : disk[<<s, "gz">>] = h
    OBVIOUS
  <2>1. h \in 1..Newest /\ h < v /\ Stored(h)
    BY <1>1 DEF KeptIs
  <2>2. PICK s \in Numbers, g \in Forms : disk[<<s, g>>] = h
    BY <2>1 DEF Stored
  <2>3. Here(s) # g
    BY <1>2, <2>1, <2>2 DEF Forms
  <2>4. g = "gz"
    <3>1. CASE g = "plain"
      BY <2>1, <2>2, <2>3, <3>1 DEF Layout, NoStrayPlain
    <3> QED BY <2>2, <3>1 DEF Forms
  <2>5. s \in Spoilt
    BY <2>1, <2>2, <2>3, <2>4 DEF Spoilt, AtWork
  <2> QED BY <2>2, <2>4, <2>5
<1> HIDE DEF B, f
<1>4. Cardinality(B) <= Cardinality(Spoilt)
    BY <1>3, SpoiltFinite, Covered
<1>5. Cardinality(B) \in Nat
  <2>1. IsFiniteSet(1..Newest) /\ B \in SUBSET (1..Newest)
    BY <1>1, FS_Interval DEF KeptIs, B
  <2>2. IsFiniteSet(B)
    BY <2>1, FS_Subset
  <2> QED BY <2>2, FS_CardinalityType
<1>6. Cardinality(Spoilt) \in Nat /\ Cardinality(Spoilt) <= faults /\ faults \in Nat
    BY SpoiltFinite, BoundsAssumption DEF Counted, IInv, TypeOK
<1>7. Cardinality(B) <= faults
    BY <1>4, <1>5, <1>6
<1> QED BY <1>7 DEF B

LEMMA SameKept ==
    ASSUME KeptIs, KeptIs', Newest' = Newest,
           \A g \in 1..Newest : Stored(g)' \/ g \in InEncoder' <=> Stored(g) \/ g \in InEncoder
    PROVE  Kept' = Kept
BY DEF KeptIs

LEMMA SameFiles ==
    ASSUME KeptIs, KeptIs', Newest' = Newest, InEncoder' = InEncoder,
           \A s \in Numbers, f \in Forms : disk'[<<s, f>>] = disk[<<s, f>>]
    PROVE  Kept' = Kept
<1>1. \A g : Stored(g)' <=> Stored(g)
    BY DEF Stored
<1> QED BY <1>1, SameKept

\* One file of the archive goes, or becomes a copy that is not whole.
LEMMA OneLost ==
    ASSUME KeptIs, KeptIs', Newest' = Newest, InEncoder = {}, \A g \in InEncoder' : Stored(g)',
           NEW r \in Numbers, NEW m \in Forms, disk'[<<r, m>>] \in Int, disk'[<<r, m>>] <= 0,
           \A s \in Numbers, f \in Forms : <<s, f>> # <<r, m>> => disk'[<<s, f>>] = disk[<<s, f>>]
    PROVE  Kept' = Kept \/ Kept' = Kept \ {disk[<<r, m>>]}
<1>1. \A g \in Kept' : Stored(g)' /\ g \in 1..Newest
    BY DEF KeptIs
<1>2. ASSUME NEW g \in 1..Newest, Stored(g)' PROVE g \in Kept
  <2>1. PICK s \in Numbers, f \in Forms : disk'[<<s, f>>] = g
    BY <1>2 DEF Stored
  <2>2. <<s, f>> # <<r, m>>
    BY <2>1
  <2>3. disk[<<s, f>>] = g
    BY <2>1, <2>2
  <2> QED BY <2>3 DEF KeptIs, Stored
<1>3. ASSUME NEW g \in Kept, g # disk[<<r, m>>] PROVE g \in Kept'
  <2>1. g \in 1..Newest /\ Stored(g)
    BY DEF KeptIs
  <2>2. PICK s \in Numbers, f \in Forms : disk[<<s, f>>] = g
    BY <2>1 DEF Stored
  <2>3. disk'[<<s, f>>] = g
    BY <1>3, <2>2
  <2> QED BY <2>1, <2>3 DEF KeptIs, Stored
<1> QED BY <1>1, <1>2, <1>3

LEMMA WriterStutters ==
    ASSUME IInv, Layout, KeptIs, KeptIs', Rotate \/ FlushWait \/ FlushWaitDone \/ Reopen
    PROVE  UNCHANGED <<Kept, Newest, faults>>
<1>1. /\ UNCHANGED <<hpc, hcur, faults>> /\ Newest' = Newest
      /\ \A s \in Numbers, f \in Forms : disk'[<<s, f>>] = disk[<<s, f>>]
    BY WriterAlone
<1>2. InEncoder' = InEncoder
    BY <1>1 DEF InEncoder, IInv, CompressesArchived, Forms
<1> QED BY <1>1, <1>2, SameFiles

\* The steps that change the set and no file of the archive.
LEMMA SetStutters ==
    ASSUME IInv, Layout, KeptIs, KeptIs', pc \notin Panicked,
           Start \/ Descend \/ Spawn \/ TrimDone \/ CompressDone
    PROVE  UNCHANGED <<Kept, Newest, faults>>
<1>1. /\ faults' = faults /\ InEncoder = {} /\ InEncoder' = {}
  <2>1. CASE Start
    BY <2>1 DEF Start, handler, InEncoder, Layout, LogInPlace
  <2>2. CASE Descend
    BY <2>2 DEF Descend, Joined, handler, InEncoder, IInv, HandleHeld
  <2>3. CASE Spawn
    BY <2>3 DEF Spawn, InEncoder, IInv, HandleHeld
  <2>4. CASE TrimDone \/ CompressDone
    BY <2>4 DEF TrimDone, CompressDone, InEncoder
  <2> QED BY <2>1, <2>2, <2>3, <2>4
<1>2. CASE Descend \/ Spawn \/ TrimDone \/ CompressDone
  <2>1. UNCHANGED <<disk, gen>>
    BY <1>2 DEF Descend, Spawn, TrimDone, CompressDone
  <2>2. Newest' = Newest
    BY <2>1 DEF Newest, OnDisk
  <2> QED BY <1>1, <2>1, <2>2, SameFiles
<1>3. CASE Start
  <2>1. gen = 0 /\ (\A p \in Path : disk[p] = 0) /\ disk \in [Path -> -MaxGen..MaxGen]
    BY <1>3 DEF Start, Layout, LogInPlace, IInv, TypeOK
  <2>2. gen' = 1 /\ disk' = [disk EXCEPT ![Log] = 1]
    BY <1>3, <2>1, ColumnPaths DEF Start, OpenLog, OnDisk
  <2>3. disk'[Log] = 1 /\ \A q \in Path : q # Log => disk'[q] = disk[q]
    BY <2>1, <2>2, ColumnPaths, OneFile
  <2>4. Newest' = Newest
    BY <2>1, <2>2, <2>3, ColumnPaths DEF Newest, OnDisk
  <2> QED BY <1>1, <2>3, <2>4, ColumnPaths, SameFiles
<1> QED BY <1>2, <1>3

\* What the way up moves.
LEMMA MovedFile ==
    ASSUME IInv, Layout, Move
    PROVE  \E a \in Nat, m \in Forms :
              /\ a = at /\ a + 1 \in Numbers
              /\ disk'[<<a + 1, m>>] = disk[Source] /\ disk[<<a + 1, m>>] = 0
              /\ a = 0 => Source = Log /\ disk'[Log] = 0
              /\ a # 0 => a \in Numbers /\ Source = <<a, m>> /\ disk'[<<a, m>>] = 0 /\ disk'[Log] = disk[Log]
              /\ \A s \in Numbers, f \in Forms :
                    <<s, f>> # <<a + 1, m>> /\ <<s, f>> # <<a, m>> => disk'[<<s, f>>] = disk[<<s, f>>]
<1>1. pc = "move" /\ disk' = [disk EXCEPT ![Target] = disk[Source], ![Source] = 0]
    BY DEF Move
<1>2. PICK a \in Nat, m \in Forms : a = at /\ m = MovedForm /\ a + 1 \in Numbers
    BY <1>1, WayClear
<1>3. disk \in [Path -> -MaxGen..MaxGen] /\ Target = <<a + 1, m>> /\ disk[<<a + 1, m>>] = 0
    BY <1>1, <1>2, WayClear DEF IInv, TypeOK, Target, OnDisk
<1>4. (a = 0 => Source = Log) /\ (a # 0 => a \in Numbers /\ Source = <<a, m>>)
    BY <1>2, BoundsAssumption DEF Source, Numbers
<1>5. Source \in Path /\ Target \in Path /\ Source # Target
    BY <1>2, <1>3, <1>4, ColumnPaths DEF Log
<1>6. /\ disk'[Target] = disk[Source] /\ disk'[Source] = 0
      /\ \A p \in Path : p # Target /\ p # Source => disk'[p] = disk[p]
    BY <1>1, <1>3, <1>5
<1>7. a # 0 => disk'[Log] = disk[Log]
    BY <1>2, <1>3, <1>4, <1>6, ColumnPaths
<1>8. \A s \in Numbers, f \in Forms :
         <<s, f>> # <<a + 1, m>> /\ <<s, f>> # <<a, m>> => disk'[<<s, f>>] = disk[<<s, f>>]
    BY <1>3, <1>4, <1>6, ColumnPaths
<1> QED BY <1>2, <1>3, <1>4, <1>6, <1>7, <1>8

LEMMA MoveImplements ==
    ASSUME IInv, Layout, KeptIs, KeptIs', pc \notin Panicked, Move
    PROVE  [Promise!Next]_<<Kept, Newest, faults>>
<1>1. PICK a \in Nat, m \in Forms :
          /\ a = at /\ a + 1 \in Numbers
          /\ disk'[<<a + 1, m>>] = disk[Source] /\ disk[<<a + 1, m>>] = 0
          /\ a = 0 => Source = Log /\ disk'[Log] = 0
          /\ a # 0 => a \in Numbers /\ Source = <<a, m>> /\ disk'[<<a, m>>] = 0 /\ disk'[Log] = disk[Log]
          /\ \A s \in Numbers, f \in Forms :
                <<s, f>> # <<a + 1, m>> /\ <<s, f>> # <<a, m>> => disk'[<<s, f>>] = disk[<<s, f>>]
    BY MovedFile
<1>2. pc = "move" /\ gen' = gen /\ faults' = faults /\ InEncoder = {} /\ InEncoder' = {}
    BY DEF Move, handler, InEncoder, IInv, HandleHeld
<1>3. gen \in Nat /\ Newest \in Nat /\ Newest = gen - 1 /\ disk[Log] = gen
    BY <1>2, NewestType DEF Layout, LogInPlace
<1>4. CASE a # 0
  <2>1. Newest' = Newest
    BY <1>1, <1>2, <1>4 DEF Newest, OnDisk
  <2>2. ASSUME NEW g \in 1..Newest PROVE Stored(g)' <=> Stored(g)
    <3>1. ASSUME NEW s \in Numbers, NEW f \in Forms, disk[<<s, f>>] = g PROVE Stored(g)'
      <4>1. CASE <<s, f>> = <<a, m>>
        BY <1>1, <1>4, <3>1, <4>1 DEF Stored
      <4>2. CASE <<s, f>> # <<a, m>>
        <5>1. <<s, f>> # <<a + 1, m>>
          BY <1>1, <3>1
        <5> QED BY <1>1, <3>1, <4>2, <5>1 DEF Stored
      <4> QED BY <4>1, <4>2
    <3>2. ASSUME NEW s \in Numbers, NEW f \in Forms, disk'[<<s, f>>] = g PROVE Stored(g)
      <4>1. CASE <<s, f>> = <<a + 1, m>>
        BY <1>1, <1>4, <3>2, <4>1 DEF Stored
      <4>2. CASE <<s, f>> # <<a + 1, m>>
        <5>1. <<s, f>> # <<a, m>>
          BY <1>1, <1>4, <3>2
        <5> QED BY <1>1, <3>2, <4>2, <5>1 DEF Stored
      <4> QED BY <4>1, <4>2
    <3> QED BY <3>1, <3>2 DEF Stored
  <2> QED BY <1>2, <2>1, <2>2, SameKept
<1>5. CASE a = 0
  <2>1. Newest' = gen /\ Newest' = Newest + 1
    BY <1>1, <1>2, <1>3, <1>5 DEF Newest, OnDisk
  <2>2. /\ disk'[<<1, m>>] = gen /\ disk[<<1, m>>] = 0 /\ 1 \in Numbers
        /\ \A s \in Numbers, f \in Forms : <<s, f>> # <<1, m>> => disk'[<<s, f>>] = disk[<<s, f>>]
    <3>1. a + 1 = 1 /\ \A s \in Numbers, f \in Forms : <<s, f>> # <<0, m>>
      BY <1>5, ColumnPaths
    <3> QED BY <1>1, <1>3, <1>5, <3>1
  <2>3. ASSUME NEW g \in 1..Newest PROVE Stored(g)' <=> Stored(g)
    <3>1. g # gen /\ g # 0
      BY <1>3
    <3> QED BY <2>2, <3>1 DEF Stored
  <2>4. Stored(gen)'
    BY <1>2, <2>2 DEF Stored
  <2>5. ASSUME NEW g PROVE g \in Kept' <=> g \in Kept \cup {Newest + 1}
    <3>1. g \in 1..Newest + 1 <=> g \in 1..Newest \/ g = Newest + 1
      BY <1>3
    <3>2. Newest + 1 = gen /\ Newest + 1 \notin 1..Newest
      BY <1>3
    <3> QED BY <1>2, <2>1, <2>3, <2>4, <3>1, <3>2 DEF KeptIs
  <2>6. Kept' = Kept \cup {Newest + 1}
    BY <2>5
  <2> QED BY <1>2, <2>1, <2>6, AsAdd
<1> QED BY <1>4, <1>5

\* The retention loop drops what the policy gives up, the oldest first.
LEMMA TrimImplements ==
    ASSUME Orderly, IInv, Layout, LogPlain, Counted, KeptIs, KeptIs', RetainedReadable',
           pc \notin Panicked, Trim
    PROVE  [Promise!Next]_<<Kept, Newest, faults>>
<1> USE DEF cascade
<1>1. PICK r \in Older : TooOld(r) /\ disk' = [disk EXCEPT ![FileOf(r)] = 0] /\ faults' = faults
    BY DEF Trim, Fault, Orderly
<1>2. /\ r \in Numbers /\ r \in Nat /\ r \in Known /\ suffixes[r] \in Forms /\ suffixes[r] # "none"
      /\ r < hpos /\ UpkeepKind # "all" /\ hpc = "trim" /\ hpc' = "trim" /\ gen' = gen
      /\ \A t \in Known : t > r => t >= hpos
    BY <1>1, ColumnPaths DEF Older, Known, IInv, TypeOK, Forms, Trim
<1>3. PICK m \in Forms : m = suffixes[r]
    BY <1>2
<1>4. /\ disk'[<<r, m>>] = 0 /\ disk'[Log] = disk[Log]
      /\ \A s \in Numbers, f \in Forms : <<s, f>> # <<r, m>> => disk'[<<s, f>>] = disk[<<s, f>>]
  <2>1. <<r, m>> \in Path /\ <<r, m>> # Log /\ disk \in [Path -> -MaxGen..MaxGen]
    BY <1>2, <1>3, ColumnPaths DEF IInv, TypeOK
  <2>2. disk' = [disk EXCEPT ![<<r, m>>] = 0]
    BY <1>1, <1>3 DEF FileOf
  <2> QED BY <2>1, <2>2, OneFile, ColumnPaths
<1>5. Newest' = Newest /\ InEncoder = {} /\ InEncoder' = {}
    BY <1>2, <1>4 DEF Newest, OnDisk, InEncoder
<1>6. Kept' = Kept \/ Kept' = Kept \ {disk[<<r, m>>]}
  <2>1. disk'[<<r, m>>] \in Int /\ disk'[<<r, m>>] <= 0
    BY <1>4
  <2>2. \A g \in InEncoder' : Stored(g)'
    BY <1>5
  <2>3. \A s \in Numbers, f \in Forms : <<s, f>> # <<r, m>> => disk'[<<s, f>>] = disk[<<s, f>>]
    BY <1>4
  <2>4. KeptIs /\ KeptIs' /\ Newest' = Newest /\ InEncoder = {} /\ r \in Numbers /\ m \in Forms
    BY <1>2, <1>5
  <2> QED BY <2>1, <2>2, <2>3, <2>4, OneLost
<1>7. /\ pc # "move" /\ ~Cascading
      /\ \A s \in Numbers : Here(s) = suffixes[s] /\ Age(s) = s /\ s \in Nat
    BY <1>2, ColumnPaths DEF Here, Form, Age, Cascading, IInv, HandleHeld
<1>8. ASSUME disk[<<r, m>>] \in 1..Newest PROVE Cardinality({h \in Kept : h < disk[<<r, m>>]}) <= faults
  <2>1. PICK v \in 1..Newest : v = disk[<<r, m>>]
    BY <1>8
  <2>2. ~Removed(r) /\ hpos \in Nat
    BY <1>2, BoundsAssumption DEF Removed, IInv, TypeOK
  <2>3. v \in {Newest + 1 - r, r - (Newest + 1)} /\ r <= Newest
    BY <1>2, <1>3, <1>7, <2>1, <2>2 DEF Layout, FilesInPlace
  <2>4. v = Newest + 1 - r /\ Newest \in Nat
    BY <1>2, <2>1, <2>3 DEF KeptIs
  <2>5. ASSUME NEW s \in Numbers, Here(s) # "none", ~Removed(s) PROVE Newest + 1 - s >= v
    <3>1. s \in Known /\ ~(s >= hpos) /\ s \in Nat
      BY <1>2, <1>7, <2>5 DEF Known, Removed
    <3>2. ~(s > r)
      BY <1>2, <3>1
    <3> QED BY <1>2, <2>4, <3>1, <3>2
  <2>6. Cardinality({h \in Kept : h < v}) <= faults
    BY <1>2, <2>5, OlderFew
  <2> QED BY <2>1, <2>6
<1> QED BY <1>1, <1>5, <1>6, <1>8, AsDrop DEF KeptIs

\* compress() overwrites what an earlier failure left of another generation.
LEMMA OpenImplements ==
    ASSUME Orderly, IInv, Layout, LogPlain, Counted, KeptIs, KeptIs', RetainedReadable',
           pc \notin Panicked, CompressOpen
    PROVE  [Promise!Next]_<<Kept, Newest, faults>>
<1> USE DEF cascade
<1>1. PICK r \in NextToCompress :
        /\ hcur' = r
        /\ \/ /\ OnDisk(FileOf(r))
              /\ disk' = [disk EXCEPT ![<<r, "gz">>] = - disk[FileOf(r)]]
              /\ hpc' = "copy" /\ faults' = faults
           \/ UNCHANGED disk /\ hpc' = "none" /\ (faults' = faults \/ faults' = faults + 1)
    BY DEF CompressOpen, Fault
<1>2. /\ r \in Numbers /\ r \in Nat /\ r \in Known /\ suffixes[r] = "plain" /\ hpc = "compress" /\ gen' = gen
      /\ disk \in [Path -> -MaxGen..MaxGen] /\ InEncoder = {} /\ Newest \in Nat
    BY ColumnPaths DEF NextToCompress, ToCompress, Known, CompressOpen, IInv, TypeOK, InEncoder, KeptIs
<1>3. CASE UNCHANGED disk /\ hpc' = "none" /\ (faults' = faults \/ faults' = faults + 1)
  <2>1. InEncoder' = InEncoder /\ Newest' = Newest
    BY <1>2, <1>3 DEF InEncoder, Newest, OnDisk
  <2>2. Kept' = Kept
    BY <1>3, <2>1, SameFiles
  <2>3. CASE faults' = faults
    BY <2>1, <2>2, <2>3
  <2>4. CASE faults' = faults + 1
    BY <2>1, <2>2, <2>4, AsFault
  <2> QED BY <1>3, <2>3, <2>4
<1>4. CASE /\ OnDisk(FileOf(r))
           /\ disk' = [disk EXCEPT ![<<r, "gz">>] = - disk[FileOf(r)]]
           /\ hpc' = "copy" /\ faults' = faults
  <2>1. /\ disk'[<<r, "gz">>] = - disk[<<r, "plain">>] /\ disk'[Log] = disk[Log]
        /\ \A s \in Numbers, f \in Forms : <<s, f>> # <<r, "gz">> => disk'[<<s, f>>] = disk[<<s, f>>]
    <3>1. <<r, "gz">> \in Path /\ <<r, "gz">> # Log
      BY <1>2, ColumnPaths DEF Forms
    <3>2. disk' = [disk EXCEPT ![<<r, "gz">>] = - disk[<<r, "plain">>]]
      BY <1>2, <1>4 DEF FileOf
    <3> QED BY <1>2, <3>1, <3>2, OneFile, ColumnPaths
  <2>2. disk[<<r, "plain">>] \in Int /\ disk[<<r, "plain">>] >= 0 /\ <<r, "plain">> # <<r, "gz">>
    <3>1. <<r, "plain">> \in Path
      BY <1>2, ColumnPaths DEF Forms
    <3>2. disk[<<r, "plain">>] >= 0
      BY <1>2 DEF Layout, NoStrayPlain
    <3> QED BY <1>2, <3>1, <3>2, BoundsAssumption
  <2>3. disk'[<<r, "plain">>] = disk[<<r, "plain">>]
    BY <1>2, <2>1, <2>2 DEF Forms
  <2>4. Newest' = Newest
    BY <1>2, <2>1 DEF Newest, OnDisk
  <2>5. \A g \in InEncoder' : Stored(g)'
    <3>1. InEncoder' = {- disk'[<<r, "gz">>]}
      BY <1>1, <1>4 DEF InEncoder
    <3>2. - disk'[<<r, "gz">>] = disk'[<<r, "plain">>]
      BY <2>1, <2>2, <2>3
    <3> QED BY <1>2, <3>1, <3>2 DEF Stored, Forms
  <2>6. Kept' = Kept \/ Kept' = Kept \ {disk[<<r, "gz">>]}
    <3>1. disk'[<<r, "gz">>] \in Int /\ disk'[<<r, "gz">>] <= 0 /\ "gz" \in Forms
      BY <2>1, <2>2 DEF Forms
    <3> QED BY <1>2, <2>1, <2>4, <2>5, <3>1, OneLost
  <2>7. ASSUME NEW v \in 1..Newest, ~(v > Newest - Retained) PROVE Cardinality({h \in Kept : h < v}) <= faults
    <3>1. UpkeepKind # "all" /\ Retained = Limit /\ Limit \in Nat
      BY <1>2, <2>7, NewestType, UpkeepAssumption, MaxFilesAssumption DEF Retained, Limit
    <3>2. ASSUME NEW s \in Numbers, Here(s) # "none" PROVE Newest + 1 - s >= v
      <4>1. s \in Known /\ ~Cascading /\ s \in Nat
        BY <1>2, <3>2, ColumnPaths DEF Here, Form, Cascading, IInv, HandleHeld, Known
      <4>2. s <= Limit
        BY <1>2, <3>1, <4>1 DEF Layout, LimitKept
      <4> QED BY <1>2, <2>7, <3>1, <4>1, <4>2
    <3> QED BY <1>2, <3>2, OlderFew
  <2>8. ASSUME disk[<<r, "gz">>] \in 1..Newest
        PROVE  \/ disk[<<r, "gz">>] > Newest - Retained
               \/ Cardinality({h \in Kept : h < disk[<<r, "gz">>]}) <= faults
    BY <2>7, <2>8
  <2> QED BY <1>4, <2>4, <2>6, <2>8, AsDrop DEF KeptIs
<1> QED BY <1>1, <1>3, <1>4

\* What compress() is copying.
LEMMA Copying ==
    ASSUME IInv, Layout, pc \notin Panicked, hpc \in {"copy", "unlink", "finish"}
    PROVE  \E c \in Numbers :
              /\ c = hcur /\ InEncoder = {- disk[<<c, "gz">>]}
              /\ <<c, "gz">> \in Path /\ <<c, "plain">> \in Path
              /\ <<c, "gz">> # Log /\ <<c, "plain">> # Log
              /\ disk[<<c, "gz">>] < 0 /\ disk[<<c, "gz">>] \in Int
              /\ hpc # "finish" => disk[<<c, "plain">>] = - disk[<<c, "gz">>]
<1>1. PICK c \in Numbers : c = hcur
    BY DEF IInv, CompressesArchived
<1>2. /\ <<c, "gz">> \in Path /\ <<c, "plain">> \in Path
      /\ <<c, "gz">> # Log /\ <<c, "plain">> # Log
    BY ColumnPaths DEF Forms
<1>3. disk[<<c, "gz">>] \in Int
    BY <1>2, BoundsAssumption DEF IInv, TypeOK
<1> QED BY <1>1, <1>2, <1>3 DEF InEncoder, Layout, Compressing

LEMMA CopyImplements ==
    ASSUME IInv, Layout, KeptIs, KeptIs', pc \notin Panicked, CompressCopy
    PROVE  [Promise!Next]_<<Kept, Newest, faults>>
<1>1. /\ hpc = "copy" /\ UNCHANGED <<disk, gen, hcur>>
      /\ \/ hpc' = "unlink" /\ faults' = faults
         \/ hpc' = "none" /\ faults' = faults + 1
    BY DEF CompressCopy, Fault
<1>2. Newest' = Newest
    BY <1>1 DEF Newest, OnDisk
<1>3. CASE hpc' = "unlink" /\ faults' = faults
  <2>1. InEncoder' = InEncoder
    BY <1>1, <1>3 DEF InEncoder
  <2> QED BY <1>1, <1>2, <1>3, <2>1, SameFiles
<1>4. CASE hpc' = "none" /\ faults' = faults + 1
  <2>1. PICK c \in Numbers : /\ InEncoder = {- disk[<<c, "gz">>]}
                             /\ disk[<<c, "plain">>] = - disk[<<c, "gz">>]
    BY <1>1, Copying
  <2>2. InEncoder' = {} /\ \A g \in InEncoder : Stored(g)
    BY <1>4, <2>1 DEF InEncoder, Stored, Forms
  <2>3. \A g : Stored(g)' <=> Stored(g)
    BY <1>1 DEF Stored
  <2>4. Kept' = Kept
    BY <1>2, <2>2, <2>3, SameKept
  <2> QED BY <1>2, <1>4, <2>4, AsFault
<1> QED BY <1>1, <1>3, <1>4

LEMMA UnlinkImplements ==
    ASSUME IInv, Layout, KeptIs, KeptIs', pc \notin Panicked, CompressUnlink
    PROVE  [Promise!Next]_<<Kept, Newest, faults>>
<1>1. /\ hpc = "unlink" /\ UNCHANGED <<gen, hcur>> /\ disk \in [Path -> -MaxGen..MaxGen]
    BY DEF CompressUnlink, IInv, TypeOK
<1>2. PICK c \in Numbers :
         /\ c = hcur /\ InEncoder = {- disk[<<c, "gz">>]}
         /\ <<c, "gz">> \in Path /\ <<c, "plain">> \in Path
         /\ <<c, "gz">> # Log /\ <<c, "plain">> # Log
         /\ disk[<<c, "gz">>] < 0 /\ disk[<<c, "gz">>] \in Int
         /\ disk[<<c, "plain">>] = - disk[<<c, "gz">>]
    BY <1>1, Copying
<1>3. \/ hpc' = "finish" /\ disk' = [disk EXCEPT ![<<c, "plain">>] = 0] /\ faults' = faults
      \/ hpc' = "none" /\ disk' = [disk EXCEPT ![<<c, "gz">>] = - disk[<<c, "gz">>]] /\ faults' = faults + 1
  <2>1. OnDisk(<<c, "plain">>)
    BY <1>2 DEF OnDisk
  <2> QED BY <1>2, <2>1 DEF CompressUnlink, Fault, Finished
<1>4. CASE hpc' = "finish" /\ disk' = [disk EXCEPT ![<<c, "plain">>] = 0] /\ faults' = faults
  <2>1. /\ disk'[<<c, "plain">>] = 0
        /\ \A p \in Path : p # <<c, "plain">> => disk'[p] = disk[p]
    BY <1>1, <1>2, <1>4, OneFile
  <2>2. disk'[Log] = disk[Log] /\ disk'[<<c, "gz">>] = disk[<<c, "gz">>]
    BY <1>2, <2>1, ColumnPaths
  <2>3. Newest' = Newest /\ InEncoder' = InEncoder
    BY <1>1, <1>2, <1>4, <2>2 DEF Newest, OnDisk, InEncoder
  <2>4. ASSUME NEW g \in 1..Newest PROVE Stored(g)' \/ g \in InEncoder <=> Stored(g) \/ g \in InEncoder
    <3>1. ASSUME NEW s \in Numbers, NEW f \in Forms, disk'[<<s, f>>] = g PROVE Stored(g)
      <4>1. <<s, f>> # <<c, "plain">>
        BY <2>1, <3>1
      <4>2. disk[<<s, f>>] = g
        BY <2>1, <3>1, <4>1, ColumnPaths
      <4> QED BY <4>2 DEF Stored
    <3>2. ASSUME NEW s \in Numbers, NEW f \in Forms, disk[<<s, f>>] = g, g \notin InEncoder PROVE Stored(g)'
      <4>1. <<s, f>> # <<c, "plain">>
        BY <1>2, <3>2
      <4>2. disk'[<<s, f>>] = g
        BY <2>1, <3>2, <4>1, ColumnPaths
      <4> QED BY <4>2 DEF Stored
    <3> QED BY <3>1, <3>2 DEF Stored
  <2>5. Kept' = Kept
    BY <2>3, <2>4, SameKept
  <2> QED BY <1>4, <2>3, <2>5
<1>5. CASE hpc' = "none" /\ disk' = [disk EXCEPT ![<<c, "gz">>] = - disk[<<c, "gz">>]] /\ faults' = faults + 1
  <2>1. /\ disk'[<<c, "gz">>] = - disk[<<c, "gz">>]
        /\ \A p \in Path : p # <<c, "gz">> => disk'[p] = disk[p]
    BY <1>1, <1>2, <1>5, OneFile
  <2>2. disk'[Log] = disk[Log] /\ disk'[<<c, "plain">>] = disk[<<c, "plain">>]
    BY <1>2, <2>1, ColumnPaths
  <2>3. Newest' = Newest /\ InEncoder' = {}
    BY <1>1, <1>5, <2>2 DEF Newest, OnDisk, InEncoder
  <2>4. ASSUME NEW g \in 1..Newest PROVE Stored(g)' <=> Stored(g) \/ g \in InEncoder
    <3>1. ASSUME NEW s \in Numbers, NEW f \in Forms, disk[<<s, f>>] = g PROVE Stored(g)'
      <4>1. <<s, f>> # <<c, "gz">>
        BY <1>2, <3>1
      <4>2. disk'[<<s, f>>] = g
        BY <2>1, <3>1, <4>1, ColumnPaths
      <4> QED BY <4>2 DEF Stored
    <3>2. ASSUME g \in InEncoder PROVE Stored(g)'
      <4>1. disk'[<<c, "gz">>] = g
        BY <1>2, <2>1, <3>2
      <4> QED BY <4>1 DEF Stored, Forms
    <3>3. ASSUME NEW s \in Numbers, NEW f \in Forms, disk'[<<s, f>>] = g PROVE Stored(g) \/ g \in InEncoder
      <4>1. CASE <<s, f>> = <<c, "gz">>
        BY <1>2, <2>1, <3>3, <4>1
      <4>2. CASE <<s, f>> # <<c, "gz">>
        <5>1. disk[<<s, f>>] = g
          BY <2>1, <3>3, <4>2, ColumnPaths
        <5> QED BY <5>1 DEF Stored
      <4> QED BY <4>1, <4>2
    <3> QED BY <3>1, <3>2, <3>3 DEF Stored
  <2>5. Kept' = Kept
    BY <2>3, <2>4, SameKept
  <2> QED BY <1>5, <2>3, <2>5, AsFault
<1> QED BY <1>3, <1>4, <1>5

LEMMA FinishImplements ==
    ASSUME IInv, Layout, KeptIs, KeptIs', pc \notin Panicked, CompressFinish
    PROVE  [Promise!Next]_<<Kept, Newest, faults>>
<1>1. /\ hpc = "finish" /\ hpc' = "compress" /\ UNCHANGED <<gen, hcur>>
      /\ disk \in [Path -> -MaxGen..MaxGen]
    BY DEF CompressFinish, IInv, TypeOK
<1>2. PICK c \in Numbers :
         /\ c = hcur /\ InEncoder = {- disk[<<c, "gz">>]}
         /\ <<c, "gz">> \in Path /\ <<c, "gz">> # Log
         /\ disk[<<c, "gz">>] < 0 /\ disk[<<c, "gz">>] \in Int
    BY <1>1, Copying
<1>3. \/ disk' = [disk EXCEPT ![<<c, "gz">>] = - disk[<<c, "gz">>]] /\ faults' = faults
      \/ UNCHANGED disk /\ faults' = faults + 1
    BY <1>2 DEF CompressFinish, Finished, Fault
<1>4. InEncoder' = {}
    BY <1>1 DEF InEncoder
<1>5. CASE disk' = [disk EXCEPT ![<<c, "gz">>] = - disk[<<c, "gz">>]] /\ faults' = faults
  <2>1. /\ disk'[<<c, "gz">>] = - disk[<<c, "gz">>]
        /\ \A p \in Path : p # <<c, "gz">> => disk'[p] = disk[p]
    BY <1>1, <1>2, <1>5, OneFile
  <2>2. Newest' = Newest
    BY <1>1, <1>2, <2>1, ColumnPaths DEF Newest, OnDisk
  <2>3. ASSUME NEW g \in 1..Newest PROVE Stored(g)' <=> Stored(g) \/ g \in InEncoder
    <3>1. ASSUME NEW s \in Numbers, NEW f \in Forms, disk[<<s, f>>] = g PROVE Stored(g)'
      <4>1. <<s, f>> # <<c, "gz">>
        BY <1>2, <3>1
      <4>2. disk'[<<s, f>>] = g
        BY <2>1, <3>1, <4>1, ColumnPaths
      <4> QED BY <4>2 DEF Stored
    <3>2. ASSUME g \in InEncoder PROVE Stored(g)'
      <4>1. disk'[<<c, "gz">>] = g
        BY <1>2, <2>1, <3>2
      <4> QED BY <4>1 DEF Stored, Forms
    <3>3. ASSUME NEW s \in Numbers, NEW f \in Forms, disk'[<<s, f>>] = g PROVE Stored(g) \/ g \in InEncoder
      <4>1. CASE <<s, f>> = <<c, "gz">>
        BY <1>2, <2>1, <3>3, <4>1
      <4>2. CASE <<s, f>> # <<c, "gz">>
        <5>1. disk[<<s, f>>] = g
          BY <2>1, <3>3, <4>2, ColumnPaths
        <5> QED BY <5>1 DEF Stored
      <4> QED BY <4>1, <4>2
    <3> QED BY <3>1, <3>2, <3>3 DEF Stored
  <2>4. Kept' = Kept
    BY <1>4, <2>2, <2>3, SameKept
  <2> QED BY <1>5, <2>2, <2>4
<1>6. CASE UNCHANGED disk /\ faults' = faults + 1
  <2>1. Newest' = Newest
    BY <1>1, <1>6 DEF Newest, OnDisk
  <2>2. \A g : Stored(g)' <=> Stored(g)
    BY <1>6 DEF Stored
  <2>3. Kept' = {g \in 1..Newest : Stored(g)}
    BY <1>4, <2>1, <2>2 DEF KeptIs
  <2>4. Kept = {g \in 1..Newest : Stored(g) \/ g = - disk[<<c, "gz">>]}
    BY <1>2 DEF KeptIs
  <2>5. Kept' = Kept \/ \E g \in Kept : Kept' = Kept \ {g}
    BY <2>3, <2>4
  <2> QED BY <1>6, <2>1, <2>5, AsFault
<1> QED BY <1>3, <1>5, <1>6

LEMMA ArchiveStutter == UNCHANGED vars => UNCHANGED <<Kept, Newest, faults>>
BY DEF vars, Kept, Newest, Readable, InEncoder, OnDisk

LEMMA ArchiveNext ==
    ASSUME Orderly, IInv, Layout, LogPlain, Counted, Stopped, [Next]_vars,
           IInv', Layout', LogPlain', Counted', RetainedReadable'
    PROVE  [Promise!Next]_<<Kept, Newest, faults>>
<1>1. CASE UNCHANGED vars
    BY <1>1, ArchiveStutter
<1>2. CASE pc \in Panicked
    BY <1>2, Halted, ArchiveStutter
<1>3. CASE MovePanic
  <2>1. Kept' = Kept /\ Newest' = Newest /\ (faults' = faults \/ faults' = faults + 1)
    BY <1>3 DEF MovePanic, handler, Fault, Kept, Newest, Readable, InEncoder, OnDisk
  <2> QED BY <2>1, AsFault
<1>4. CASE Next /\ ~MovePanic /\ pc \notin Panicked
  <2>1. pc' \notin Panicked
    BY <1>4 DEF Next, WriterStep, HandlerStep, Start, FlushWaitDone, Descend, Move,
         Spawn, Reopen, Rotate, FlushWait, Crash, ExternalDelete, Trim, TrimDone, CompressOpen,
         CompressCopy, CompressUnlink, CompressFinish, CompressDone, Panicked, Orderly, Fault
  <2>2. KeptIs /\ KeptIs'
    BY <1>4, <2>1, KeptHolds, KeptNext DEF KeptIsAt
  <2>3. CASE Rotate \/ FlushWait \/ FlushWaitDone \/ Reopen
    BY <2>2, <2>3, WriterStutters
  <2>4. CASE Start \/ Descend \/ Spawn \/ TrimDone \/ CompressDone
    BY <1>4, <2>2, <2>4, SetStutters
  <2>5. CASE Move
    BY <1>4, <2>2, <2>5, MoveImplements
  <2>6. CASE Trim
    BY <1>4, <2>2, <2>6, TrimImplements
  <2>7. CASE CompressOpen
    BY <1>4, <2>2, <2>7, OpenImplements
  <2>8. CASE CompressCopy \/ CompressUnlink \/ CompressFinish
    BY <1>4, <2>2, <2>8, CopyImplements, UnlinkImplements, FinishImplements
  <2>9. CASE Crash \/ ExternalDelete
    BY <2>9 DEF Crash, ExternalDelete, Fault, Orderly
  <2> QED BY <1>4, <2>3, <2>4, <2>5, <2>6, <2>7, <2>8, <2>9 DEF Next, WriterStep, HandlerStep
<1> QED BY <1>1, <1>2, <1>3, <1>4

\* The archive its readers see is the one module Archive promises: whatever the
\* cascade, the retention loop and compress() do to the names and the forms of the
\* files, generations are added in order, nothing the policy keeps is dropped but
\* for a fault, and a fault loses at most one generation.
THEOREM ArchiveHolds ==
    ASSUME Orderly
    PROVE  Spec => ImplementsArchive
<1>1. Init => LogPlain
    BY BoundsAssumption DEF Init, LogPlain, Path, Forms
<1>2. Spec => []LogPlain
    BY <1>1, LogPlainStep, Invariance, PTL DEF Spec
<1>3. Init => Promise!Init
  <2> SUFFICES ASSUME Init PROVE Promise!Init
    OBVIOUS
  <2>1. Newest = 0 /\ gen = 0 /\ faults = 0
    BY ColumnPaths DEF Init, Newest, OnDisk
  <2>2. Kept = {}
    BY <2>1 DEF Kept
  <2> QED BY <2>1, <2>2 DEF Promise!Init
<1>4. Orderly /\ IInv /\ Layout /\ LogPlain /\ Counted /\ Stopped /\ [Next]_vars
      /\ IInv' /\ Layout' /\ LogPlain' /\ Counted' /\ RetainedReadable'
        => [Promise!Next]_<<Kept, Newest, faults>>
    BY ArchiveNext
<1> QED BY <1>2, <1>3, <1>4, CountedInvariance, RetainedReadableHolds, PTL
        DEF Spec, ImplementsArchive, Promise!Spec

=============================================================================
