-------------------------- MODULE TimeRotationProofs --------------------------
(***************************************************************************)
(* Proofs about the archive with timestamp suffixes: with a clock that only *)
(* advances the names are in the order of the files, never collide, and the *)
(* newest files are kept; Upkeep::Age deletes by age alone, whatever the    *)
(* clock does.                                                              *)
(***************************************************************************)
EXTENDS TimeRotation, FiniteSetTheorems, TLAPS

Finite == IsFiniteSet(suffixes) /\ IsFiniteSet(OnDisk)

\* While the writer runs, the set lists the archive, except for the files the
\* retention loop has removed already; those are the oldest.
SetKept ==
    /\ pc = "down" => hpc = "none"
    /\ hpc # "trim" => old = {}
    /\ pc # "down" => old \subseteq suffixes /\ OnDisk = suffixes \ old
    /\ \A s \in old, t \in suffixes \ old : Newer(t, s)

\* A name tells when its file was archived.
Stamped ==
    /\ \A s \in OnDisk : s[1] = Stamp(archive[s].at - Shift)
    /\ back = 0 => \A s \in OnDisk : archive[s].at <= now

\* The log is newer than every archived file; a writer that may rotate has one.
Generations ==
    /\ log <= gen
    /\ \A s \in OnDisk : archive[s].gen <= gen /\ (log # 0 => archive[s].gen < log)
    /\ pc \in {"limits", "idle", "join"} => log # 0

Ordered == back = 0 => \A s, t \in OnDisk : Newer(s, t) => archive[s].gen > archive[t].gen

IInv == TypeOK /\ Finite /\ SetKept /\ Stamped /\ Generations /\ Ordered /\ CollisionNeedsStepBack

-----------------------------------------------------------------------------
\* Newer is a total order of the suffixes, and a finite set of them has a newest
\* and an oldest.
LEMMA NewerOrder ==
    /\ \A s, t \in Suffix : ~(Newer(s, t) /\ Newer(t, s))
    /\ \A s, t \in Suffix : s = t \/ Newer(s, t) \/ Newer(t, s)
    /\ \A s, t, u \in Suffix : Newer(s, t) /\ Newer(t, u) => Newer(s, u)
BY DEF Suffix, Newer

LEMMA OldestExists ==
    ASSUME NEW S \in SUBSET Suffix, IsFiniteSet(S), S # {}
    PROVE  \E m \in S : \A s \in S : ~Newer(m, s)
<1> DEFINE Below(s) == {t \in S : Newer(s, t)}
           T == {Below(s) : s \in S}
<1>1. T \subseteq FiniteSubsetsOf(S) /\ T # {}
  <2>1. ASSUME NEW s \in S
        PROVE  Below(s) \in FiniteSubsetsOf(S)
    <3>1. Below(s) \in SUBSET S
        OBVIOUS
    <3>2. IsFiniteSet(Below(s))
        BY <3>1, FS_Subset
    <3> QED BY <3>1, <3>2 DEF FiniteSubsetsOf
  <2> HIDE DEF Below
  <2> QED BY <2>1
<1>2. PICK x \in T : \A y \in T : <<y, x>> \notin StrictSubsetOrdering(S)
    BY <1>1, FS_StrictSubsetOrderingWellFounded, WFMin
<1>3. PICK m \in S : x = Below(m)
    BY <1>2
<1>4. ASSUME NEW s \in S, Newer(m, s)
      PROVE  FALSE
  <2>1. Below(s) \subseteq Below(m) /\ s \in Below(m) /\ s \notin Below(s)
    BY <1>4, NewerOrder
  <2>2. <<Below(s), Below(m)>> \in StrictSubsetOrdering(S)
    BY <2>1 DEF StrictSubsetOrdering
  <2> QED BY <1>2, <1>3, <2>2
<1> QED BY <1>4

LEMMA NewestExists ==
    ASSUME NEW S \in SUBSET Suffix, IsFiniteSet(S), S # {}
    PROVE  \E m \in S : \A s \in S : ~Newer(s, m)
<1> DEFINE Above(s) == {t \in S : Newer(t, s)}
           T == {Above(s) : s \in S}
<1>1. T \subseteq FiniteSubsetsOf(S) /\ T # {}
  <2>1. ASSUME NEW s \in S
        PROVE  Above(s) \in FiniteSubsetsOf(S)
    <3>1. Above(s) \in SUBSET S
        OBVIOUS
    <3>2. IsFiniteSet(Above(s))
        BY <3>1, FS_Subset
    <3> QED BY <3>1, <3>2 DEF FiniteSubsetsOf
  <2> HIDE DEF Above
  <2> QED BY <2>1
<1>2. PICK x \in T : \A y \in T : <<y, x>> \notin StrictSubsetOrdering(S)
    BY <1>1, FS_StrictSubsetOrderingWellFounded, WFMin
<1>3. PICK m \in S : x = Above(m)
    BY <1>2
<1>4. ASSUME NEW s \in S, Newer(s, m)
      PROVE  FALSE
  <2>1. Above(s) \subseteq Above(m) /\ s \in Above(m) /\ s \notin Above(s)
    BY <1>4, NewerOrder
  <2>2. <<Above(s), Above(m)>> \in StrictSubsetOrdering(S)
    BY <2>1 DEF StrictSubsetOrdering
  <2> QED BY <1>2, <1>3, <2>2
<1> QED BY <1>4

\* Periods: the division of time_fmt is monotone, and a period begins no later
\* than the moments in it.
LEMMA StampFacts ==
    /\ \A a \in Int : Stamp(a) \in Int /\ Unit * Stamp(a) <= a
    /\ \A a, b \in Int : a <= b => Stamp(a) <= Stamp(b)
    /\ MaxAge \in Nat /\ Shift \in Nat
<1>1. Unit \in Nat \ {0} /\ MaxAge \in Nat /\ Shift \in Nat
    BY DurationAssumption DEF Shift
<1>2. \A a \in Int : a \div Unit \in Int /\ Unit * (a \div Unit) <= a /\ a < Unit * (a \div Unit) + Unit
    BY <1>1
<1>3. ASSUME NEW a \in Int, NEW b \in Int, a <= b
      PROVE  a \div Unit <= b \div Unit
  <2>1. Unit * (a \div Unit) <= a /\ b < Unit * (b \div Unit) + Unit
    BY <1>2
  <2>2. a \div Unit \in Int /\ b \div Unit \in Int
    BY <1>2
  <2> QED BY <1>1, <1>3, <2>1, <2>2
<1> QED BY <1>1, <1>2, <1>3 DEF Stamp

\* The head of the set: nothing sorts before it.
LEMMA NewestFacts ==
    ASSUME Finite, suffixes \in SUBSET Suffix
    PROVE  /\ Newest \subseteq suffixes
           /\ \A s \in suffixes : s \in Newest <=> \A t \in suffixes : ~Newer(t, s)
<1> SUFFICES ASSUME NEW s \in suffixes
             PROVE  Position(s) = 0 <=> \A t \in suffixes : ~Newer(t, s)
    BY DEF Newest
<1> DEFINE A == {t \in suffixes : Newer(t, s)}
<1>1. IsFiniteSet(A)
    BY FS_Subset DEF Finite
<1>2. Cardinality(A) = 0 <=> A = {}
    BY <1>1, FS_EmptySet
<1> QED BY <1>2 DEF Position

\* The name a rotation gives.
LEMMA NewNameFacts ==
    ASSUME TypeOK, Finite
    PROVE  /\ NewName \in Suffix /\ NewName[1] = Stamp(now - Shift)
           /\ \A c \in Newest : c[1] = Stamp(now - Shift) => NewName[2] > c[2]
<1> DEFINE stamp == Stamp(now - Shift)
           same == {s \in Newest : s[1] = stamp}
           c == CHOOSE s \in same : TRUE
<1>1. stamp \in Int
    BY StampFacts DEF TypeOK
<1>2. same \subseteq suffixes /\ suffixes \in SUBSET Suffix
    BY NewestFacts DEF TypeOK
<1>3. NewName = <<stamp, IF same = {} THEN 0 ELSE 1 + c[2]>>
    BY DEF NewName
<1>4. \A d \in same : d = c
  <2>1. \A d, e \in same : d = e
    BY <1>2, NewestFacts, NewerOrder DEF TypeOK
  <2> QED BY <2>1
<1>5. same # {} => c \in same
    OBVIOUS
<1> HIDE DEF c, same, stamp
<1>6. same # {} => c[2] \in Nat
    BY <1>2, <1>5 DEF Suffix
<1>7. NewName \in Suffix /\ NewName[1] = stamp /\ (same # {} => NewName[2] = 1 + c[2])
    BY <1>1, <1>3, <1>6 DEF Suffix
<1>8. ASSUME NEW d \in Newest, d[1] = stamp
      PROVE  NewName[2] > d[2]
  <2>1. d \in same
    BY <1>8 DEF same
  <2> QED BY <1>4, <1>6, <1>7, <2>1
<1> QED BY <1>7, <1>8 DEF stamp

-----------------------------------------------------------------------------
LEMMA InitInv == Init => IInv
<1> SUFFICES ASSUME Init PROVE IInv
    OBVIOUS
<1>1. OnDisk = {} /\ suffixes = {} /\ old = {} /\ log = 0 /\ pc = "down" /\ hpc = "none"
    BY DEF Init, OnDisk
<1>2. TypeOK
    BY <1>1 DEF Init, TypeOK, OnDisk
<1>3. Finite
    BY <1>1, FS_EmptySet DEF Finite
<1>4. SetKept /\ Stamped /\ Generations /\ Ordered /\ CollisionNeedsStepBack
    BY <1>1 DEF Init, SetKept, Stamped, Generations, Ordered, CollisionNeedsStepBack
<1> QED BY <1>2, <1>3, <1>4 DEF IInv

\* What a rotation puts into the archive.
LEMMA ArchiveFacts ==
    ASSUME IInv, Archive
    PROVE  \E n \in Suffix :
            /\ n = NewName /\ n \notin OnDisk /\ OnDisk = suffixes
            /\ OnDisk' = OnDisk \cup {n} /\ suffixes' = suffixes \cup {n}
            /\ archive'[n] = [gen |-> log, form |-> "plain", at |-> now]
            /\ \A s \in OnDisk : archive'[s] = archive[s]
<1>1. PICK n \in Suffix : n = NewName
    BY NewNameFacts DEF IInv
<1>2. OnDisk = suffixes
    BY DEF Archive, IInv, SetKept
<1>3. archive' = [s \in OnDisk \cup {n} |->
                    IF s = n THEN [gen |-> log, form |-> "plain", at |-> now] ELSE archive[s]]
      /\ suffixes' = suffixes \cup {n} /\ n \notin suffixes
    BY <1>1 DEF Archive
<1>4. OnDisk' = OnDisk \cup {n}
    BY <1>3 DEF OnDisk
<1> QED BY <1>1, <1>2, <1>3, <1>4

LEMMA TrimFacts ==
    ASSUME IInv, Trim
    PROVE  \E s \in suffixes \ old :
            /\ s \in Oldest /\ TooOld(s)
            /\ old' = old \cup {s} /\ OnDisk' = OnDisk \ {s}
            /\ \A t \in OnDisk' : archive'[t] = archive[t]
            /\ pc # "down" /\ OnDisk = suffixes \ old
BY DEF Trim, Oldest, OnDisk, IInv, SetKept

LEMMA CompressFacts ==
    ASSUME IInv, CompressOne
    PROVE  /\ OnDisk' = OnDisk
           /\ \E s \in OnDisk : archive' = [archive EXCEPT ![s].form = "gz"]
           /\ \A t \in OnDisk : archive'[t].gen = archive[t].gen /\ archive'[t].at = archive[t].at
<1>1. PICK s \in OnDisk : archive' = [archive EXCEPT ![s].form = "gz"]
    BY DEF CompressOne, ToCompress
<1>2. /\ OnDisk' = OnDisk
      /\ \A t \in OnDisk : archive'[t] = IF t = s THEN [archive[s] EXCEPT !.form = "gz"] ELSE archive[t]
    BY <1>1 DEF OnDisk, IInv, TypeOK
<1>3. archive[s] \in [gen : Nat, form : {"plain", "gz"}, at : Nat]
    BY <1>1 DEF IInv, TypeOK
<1>4. \A t \in OnDisk : archive'[t].gen = archive[t].gen /\ archive'[t].at = archive[t].at
    BY <1>2, <1>3
<1>5. \E t \in OnDisk : archive' = [archive EXCEPT ![t].form = "gz"]
    BY <1>1
<1> QED BY <1>2, <1>4, <1>5

LEMMA TypeStep == IInv /\ [Next]_vars => TypeOK'
<1> SUFFICES ASSUME IInv, [Next]_vars PROVE TypeOK'
    OBVIOUS
<1>0. TypeOK
    BY DEF IInv
<1> USE DEF clock, sink, fixed
<1>1. ASSUME OpenLog
      PROVE  log' \in Nat /\ mtime' \in Nat /\ gen' \in Nat
    BY <1>0, <1>1 DEF OpenLog, TypeOK
<1>2. CASE Start
  <2>1. created' \in Nat \cup {-1}
    BY <1>0, <1>2 DEF Start, TypeOK
  <2>2. OnDisk' = OnDisk
    BY <1>2 DEF Start, OnDisk
  <2> QED BY <1>0, <1>1, <1>2, <2>1, <2>2 DEF Start, Scan, TypeOK
<1>3. CASE Flush \/ Limits \/ ArchivePanic
  <2>1. OnDisk' = OnDisk
    BY <1>3 DEF Flush, Limits, ArchivePanic, OnDisk
  <2> QED BY <1>0, <1>3, <2>1 DEF Flush, Limits, ArchivePanic, TypeOK
<1>4. CASE Archive
  <2>1. PICK n \in Suffix :
            /\ OnDisk' = OnDisk \cup {n} /\ suffixes' = suffixes \cup {n}
            /\ archive'[n] = [gen |-> log, form |-> "plain", at |-> now]
            /\ \A s \in OnDisk : archive'[s] = archive[s]
    BY <1>4, ArchiveFacts
  <2>2. archive' \in [OnDisk' -> [gen : Nat, form : {"plain", "gz"}, at : Nat]]
    <3>1. archive' = [s \in OnDisk' |-> archive'[s]]
        BY <1>4 DEF Archive, OnDisk
    <3>2. archive'[n] \in [gen : Nat, form : {"plain", "gz"}, at : Nat]
        BY <1>0, <2>1 DEF TypeOK
    <3>3. \A s \in OnDisk : archive'[s] \in [gen : Nat, form : {"plain", "gz"}, at : Nat]
        BY <1>0, <2>1 DEF TypeOK
    <3> QED BY <2>1, <3>1, <3>2, <3>3
  <2> QED BY <1>0, <1>4, <2>1, <2>2 DEF Archive, TypeOK
<1>5. CASE Reopen
  <2>1. OnDisk' = OnDisk
    BY <1>5 DEF Reopen, OnDisk
  <2> QED BY <1>0, <1>1, <1>5, <2>1 DEF Reopen, TypeOK
<1>6. CASE Trim
  <2>1. PICK s \in suffixes \ old :
            /\ old' = old \cup {s} /\ OnDisk' = OnDisk \ {s}
            /\ \A t \in OnDisk' : archive'[t] = archive[t]
    BY <1>6, TrimFacts
  <2>2. archive' = [t \in OnDisk' |-> archive'[t]]
    BY <1>6 DEF Trim, OnDisk
  <2>3. archive' \in [OnDisk' -> [gen : Nat, form : {"plain", "gz"}, at : Nat]]
    BY <1>0, <2>1, <2>2 DEF TypeOK
  <2> QED BY <1>0, <1>6, <2>1, <2>3 DEF Trim, TypeOK
<1>7. CASE TrimDone
  <2>1. OnDisk' = OnDisk /\ suffixes' \subseteq suffixes
    BY <1>7 DEF TrimDone, OnDisk
  <2> QED BY <1>0, <1>7, <2>1 DEF TrimDone, TypeOK
<1>8. CASE CompressOne
  <2>1. PICK s \in OnDisk : archive' = [archive EXCEPT ![s].form = "gz"]
    BY <1>8, CompressFacts
  <2>2. OnDisk' = OnDisk
    BY <1>8, CompressFacts
  <2>3. archive' \in [OnDisk -> [gen : Nat, form : {"plain", "gz"}, at : Nat]]
    BY <1>0, <2>1 DEF TypeOK
  <2> QED BY <1>0, <1>8, <2>2, <2>3 DEF CompressOne, TypeOK
<1>9. CASE CompressDone \/ Tick \/ StepBack \/ Stop \/ UNCHANGED vars
  <2>1. OnDisk' = OnDisk
    BY <1>9 DEF CompressDone, Tick, StepBack, Stop, OnDisk, vars
  <2> QED BY <1>0, <1>9, <2>1 DEF CompressDone, Tick, StepBack, Stop, TypeOK, vars
<1> QED BY <1>2, <1>3, <1>4, <1>5, <1>6, <1>7, <1>8, <1>9 DEF Next

LEMMA FiniteStep == IInv /\ [Next]_vars => Finite'
<1> SUFFICES ASSUME IInv, [Next]_vars PROVE Finite'
    OBVIOUS
<1>0. Finite
    BY DEF IInv
<1> USE DEF clock, sink, fixed
<1>1. CASE Archive
    BY <1>0, <1>1, ArchiveFacts, FS_AddElement DEF Finite
<1>2. CASE Trim
  <2>1. OnDisk' \in SUBSET OnDisk /\ suffixes' = suffixes
    BY <1>2, TrimFacts DEF Trim
  <2> QED BY <1>0, <2>1, FS_Subset DEF Finite
<1>3. CASE TrimDone
  <2>1. suffixes' \in SUBSET suffixes /\ OnDisk' = OnDisk
    BY <1>3 DEF TrimDone, OnDisk
  <2> QED BY <1>0, <2>1, FS_Subset DEF Finite
<1>4. CASE CompressOne
    BY <1>0, <1>4, CompressFacts DEF CompressOne, Finite
<1>5. CASE Start \/ Flush \/ Limits \/ ArchivePanic \/ Reopen \/ CompressDone \/ Tick \/ StepBack
            \/ Stop \/ UNCHANGED vars
  <2>1. OnDisk' = OnDisk /\ (suffixes' = suffixes \/ suffixes' = {} \/ suffixes' = OnDisk)
    BY <1>5 DEF Start, Scan, Flush, Limits, ArchivePanic, Reopen, CompressDone, Tick, StepBack,
                Stop, vars, OnDisk
  <2> QED BY <1>0, <2>1, FS_EmptySet DEF Finite
<1> QED BY <1>1, <1>2, <1>3, <1>4, <1>5 DEF Next

\* Each removal of the loop takes the oldest of what is left, so that the set cut
\* by split_off is the archive again.
LEMMA SetStep == IInv /\ [Next]_vars => SetKept'
<1> SUFFICES ASSUME IInv, [Next]_vars PROVE SetKept'
    OBVIOUS
<1>0. TypeOK /\ SetKept
    BY DEF IInv
<1> USE DEF clock, sink, fixed
<1>1. CASE Archive
  <2>1. old = {} /\ old' = {} /\ OnDisk' = suffixes' /\ pc' = "reopen" /\ hpc' = "trim"
    BY <1>0, <1>1, ArchiveFacts DEF Archive, SetKept
  <2> QED BY <2>1 DEF SetKept
<1>2. CASE Trim
  <2>1. PICK s \in suffixes \ old :
            /\ s \in Oldest
            /\ old' = old \cup {s} /\ OnDisk' = OnDisk \ {s}
            /\ pc # "down" /\ OnDisk = suffixes \ old
    BY <1>2, TrimFacts
  <2>2. UNCHANGED <<suffixes, pc, hpc>> /\ hpc = "trim"
    BY <1>2 DEF Trim
  <2>3. OnDisk' = suffixes' \ old'
    BY <2>1, <2>2
  <2>4. \A u \in old', t \in suffixes \ old' : Newer(t, u)
    <3> SUFFICES ASSUME NEW u \in old', NEW t \in suffixes \ old' PROVE Newer(t, u)
        OBVIOUS
    <3>1. CASE u \in old
        BY <1>0, <2>1, <3>1 DEF SetKept
    <3>2. CASE u = s
        <4>1. ~Newer(s, t) /\ t # s /\ t \in Suffix /\ s \in Suffix
            BY <1>0, <2>1 DEF Oldest, TypeOK
        <4> QED BY <3>2, <4>1, NewerOrder
    <3> QED BY <2>1, <3>1, <3>2
  <2>5. old' \subseteq suffixes'
    BY <1>0, <2>1, <2>2 DEF SetKept
  <2> QED BY <2>1, <2>2, <2>3, <2>4, <2>5 DEF SetKept
<1>3. CASE TrimDone
  <2>1. /\ UNCHANGED pc /\ old' = {} /\ hpc' = "compress" /\ OnDisk' = OnDisk
        /\ suffixes' = {s \in suffixes : \A t \in old : s # t /\ Newer(s, t)} /\ hpc = "trim"
    BY <1>3 DEF TrimDone, OnDisk
  <2>2. suffixes' = suffixes \ old
    BY <1>0, <2>1 DEF SetKept
  <2> QED BY <1>0, <2>1, <2>2 DEF SetKept
<1>4. CASE CompressOne
    BY <1>0, <1>4, CompressFacts DEF CompressOne, SetKept
<1>5. CASE Start
  <2>1. pc' = "limits" /\ old' = old /\ OnDisk' = OnDisk /\ suffixes' = OnDisk /\ hpc' = hpc /\ old = {}
    BY <1>0, <1>5 DEF Start, Scan, OnDisk, SetKept
  <2> QED BY <1>0, <2>1 DEF SetKept
<1>6. CASE Flush \/ Limits \/ ArchivePanic \/ Reopen \/ CompressDone \/ Tick \/ StepBack \/ UNCHANGED vars
  <2>1. /\ UNCHANGED <<suffixes, old>> /\ OnDisk' = OnDisk
        /\ pc' = pc \/ (pc # "down" /\ pc' # "down")
        /\ hpc' \in {hpc, "none"}
        /\ hpc' = hpc \/ hpc # "trim"
        /\ pc = "down" => hpc' = "none"
    BY <1>0, <1>6 DEF Flush, Limits, ArchivePanic, Reopen, CompressDone, Tick, StepBack, vars, OnDisk,
                      SetKept
  <2>2. pc' = "down" => pc = "down"
    BY <1>6 DEF Flush, Limits, ArchivePanic, Reopen, CompressDone, Tick, StepBack, vars
  <2>3. hpc' # "trim" => old = {}
    BY <1>0, <2>1 DEF SetKept
  <2>4. pc' # "down" => pc # "down"
    BY <1>6 DEF Flush, Limits, ArchivePanic, Reopen, CompressDone, Tick, StepBack, vars
  <2> QED BY <1>0, <2>1, <2>2, <2>3, <2>4 DEF SetKept
<1>7. CASE Stop
    BY <1>7 DEF Stop, SetKept
<1> QED BY <1>1, <1>2, <1>3, <1>4, <1>5, <1>6, <1>7 DEF Next

LEMMA StampStep == IInv /\ [Next]_vars => Stamped'
<1> SUFFICES ASSUME IInv, [Next]_vars PROVE Stamped'
    OBVIOUS
<1>0. TypeOK /\ Stamped
    BY DEF IInv
<1> USE DEF clock, sink, fixed
<1>1. CASE Archive
  <2>1. PICK n \in Suffix :
            /\ n = NewName
            /\ OnDisk' = OnDisk \cup {n}
            /\ archive'[n] = [gen |-> log, form |-> "plain", at |-> now]
            /\ \A s \in OnDisk : archive'[s] = archive[s]
    BY <1>1, ArchiveFacts
  <2>2. UNCHANGED <<now, back>>
    BY <1>1 DEF Archive
  <2>3. archive'[n].at = now /\ n[1] = Stamp(now - Shift)
    BY <2>1, NewNameFacts DEF IInv
  <2>4. \A s \in OnDisk' : s[1] = Stamp(archive'[s].at - Shift)
    BY <1>0, <2>1, <2>3 DEF Stamped
  <2>5. back = 0 => \A s \in OnDisk' : archive'[s].at <= now
    BY <1>0, <2>1, <2>3 DEF Stamped, TypeOK
  <2> QED BY <2>2, <2>4, <2>5 DEF Stamped
<1>2. CASE Trim
    BY <1>0, <1>2, TrimFacts DEF Trim, Stamped
<1>3. CASE CompressOne
    BY <1>0, <1>3, CompressFacts DEF CompressOne, Stamped
<1>4. CASE Tick
  <2>1. UNCHANGED <<archive, back>> /\ OnDisk' = OnDisk /\ now' = now + 1
    BY <1>4 DEF Tick, OnDisk
  <2> QED BY <1>0, <2>1 DEF Stamped, TypeOK
<1>5. CASE StepBack
  <2>1. UNCHANGED archive /\ OnDisk' = OnDisk /\ back' # 0
    BY <1>0, <1>5 DEF StepBack, OnDisk, TypeOK
  <2> QED BY <1>0, <2>1 DEF Stamped
<1>6. CASE Start \/ Flush \/ Limits \/ ArchivePanic \/ Reopen \/ TrimDone \/ CompressDone
            \/ Stop \/ UNCHANGED vars
  <2>1. UNCHANGED <<archive, now, back>> /\ OnDisk' = OnDisk
    BY <1>6 DEF Start, Flush, Limits, ArchivePanic, Reopen, TrimDone, CompressDone, Stop, vars, OnDisk
  <2> QED BY <1>0, <2>1 DEF Stamped
<1> QED BY <1>1, <1>2, <1>3, <1>4, <1>5, <1>6 DEF Next

LEMMA GenerationsStep == IInv /\ [Next]_vars => Generations'
<1> SUFFICES ASSUME IInv, [Next]_vars PROVE Generations'
    OBVIOUS
<1>0. /\ TypeOK /\ Generations
      /\ \A s \in OnDisk : archive[s].gen \in Nat
    BY DEF IInv, TypeOK
<1> USE DEF clock, sink, fixed
<1>1. CASE Start \/ Reopen
  <2>1. UNCHANGED archive /\ OnDisk' = OnDisk /\ OpenLog
    BY <1>1 DEF Start, Reopen, OnDisk
  <2>2. \/ log' = log /\ gen' = gen /\ log # 0
        \/ log' = gen + 1 /\ gen' = gen + 1
    BY <2>1 DEF OpenLog
  <2> QED BY <1>0, <2>1, <2>2 DEF Generations, TypeOK
<1>2. CASE Archive
  <2>1. PICK n \in Suffix :
            /\ OnDisk' = OnDisk \cup {n}
            /\ archive'[n] = [gen |-> log, form |-> "plain", at |-> now]
            /\ \A s \in OnDisk : archive'[s] = archive[s]
    BY <1>2, ArchiveFacts
  <2>2. log' = 0 /\ gen' = gen /\ pc' = "reopen" /\ archive'[n].gen = log
    BY <1>2, <2>1 DEF Archive
  <2> QED BY <1>0, <2>1, <2>2 DEF Generations, TypeOK
<1>3. CASE Trim
    BY <1>0, <1>3, TrimFacts DEF Trim, Generations
<1>4. CASE CompressOne
    BY <1>0, <1>4, CompressFacts DEF CompressOne, Generations
<1>5. CASE Flush \/ Limits \/ ArchivePanic \/ TrimDone \/ CompressDone \/ Tick \/ StepBack
            \/ Stop \/ UNCHANGED vars
  <2>1. UNCHANGED <<archive, log, gen>> /\ OnDisk' = OnDisk
        /\ (pc' \in {"limits", "idle", "join"} => pc \in {"limits", "idle", "join"})
    BY <1>5 DEF Flush, Limits, ArchivePanic, TrimDone, CompressDone, Tick, StepBack, Stop, vars, OnDisk
  <2> QED BY <1>0, <2>1 DEF Generations
<1> QED BY <1>1, <1>2, <1>3, <1>4, <1>5 DEF Next

\* With a clock that was never set back, the next name sorts before all others:
\* either its period is later, or its number is higher than that of the newest.
LEMMA NameIsNewest ==
    ASSUME IInv, back = 0, pc # "down", hpc = "none"
    PROVE  NewName \in Suffix /\ \A s \in suffixes : Newer(NewName, s)
<1> DEFINE stamp == Stamp(now - Shift)
<1>0. TypeOK /\ Finite /\ suffixes = OnDisk /\ suffixes \in SUBSET Suffix
    BY DEF IInv, SetKept, TypeOK
<1>1. NewName \in Suffix /\ NewName[1] = stamp
      /\ \A c \in Newest : c[1] = stamp => NewName[2] > c[2]
    BY <1>0, NewNameFacts
<1>2. \A s \in suffixes : s[1] <= stamp
  <2> SUFFICES ASSUME NEW s \in OnDisk PROVE s[1] <= stamp
    BY <1>0
  <2>1. archive[s].at \in Nat /\ archive[s].at <= now /\ now \in Nat
    BY DEF IInv, TypeOK, Stamped
  <2>2. s[1] = Stamp(archive[s].at - Shift)
    BY DEF IInv, Stamped
  <2> QED BY <2>1, <2>2, StampFacts
<1> SUFFICES ASSUME NEW s \in suffixes PROVE Newer(NewName, s)
    BY <1>1
<1>3. s[1] \in Int /\ s[2] \in Nat /\ stamp \in Int /\ NewName[2] \in Nat
    BY <1>0, <1>1 DEF Suffix
<1>4. CASE s[1] # stamp
    BY <1>1, <1>2, <1>3, <1>4 DEF Newer
<1>5. CASE s[1] = stamp
  <2>1. PICK m \in suffixes : \A t \in suffixes : ~Newer(t, m)
    BY <1>0, NewestExists DEF Finite
  <2>2. m \in Newest /\ m[1] \in Int /\ m[2] \in Nat /\ m[1] <= stamp
    BY <1>0, <1>2, <2>1, NewestFacts DEF Suffix
  <2>3. m[1] = stamp /\ s[2] <= m[2]
    BY <1>3, <1>5, <2>1, <2>2 DEF Newer
  <2>4. NewName[2] > m[2]
    BY <1>1, <2>2, <2>3
  <2> QED BY <1>1, <1>3, <1>5, <2>2, <2>3, <2>4 DEF Newer
<1> QED BY <1>4, <1>5

LEMMA OrderStep == IInv /\ [Next]_vars => Ordered'
<1> SUFFICES ASSUME IInv, [Next]_vars PROVE Ordered'
    OBVIOUS
<1>0. TypeOK /\ Ordered /\ Generations
    BY DEF IInv
<1> USE DEF clock, sink, fixed
<1>1. CASE Archive
  <2> SUFFICES ASSUME back = 0, NEW s \in OnDisk', NEW t \in OnDisk', Newer(s, t)
               PROVE  archive'[s].gen > archive'[t].gen
    BY <1>1 DEF Archive, Ordered
  <2>1. PICK n \in Suffix :
            /\ n = NewName /\ OnDisk = suffixes /\ n \notin OnDisk
            /\ OnDisk' = OnDisk \cup {n}
            /\ archive'[n] = [gen |-> log, form |-> "plain", at |-> now]
            /\ \A u \in OnDisk : archive'[u] = archive[u]
    BY <1>1, ArchiveFacts
  <2>2. \A u \in OnDisk : Newer(n, u) /\ u \in Suffix
    BY <1>0, <1>1, <2>1, NameIsNewest DEF Archive, TypeOK
  <2>3. archive'[n].gen = log /\ log # 0
    BY <1>0, <1>1, <2>1 DEF Archive, Generations
  <2>4. t # n
    BY <2>1, <2>2, NewerOrder
  <2>5. CASE s = n
    BY <1>0, <2>1, <2>3, <2>4, <2>5 DEF Generations
  <2>6. CASE s # n
    BY <1>0, <2>1, <2>4, <2>6 DEF Ordered
  <2> QED BY <2>5, <2>6
<1>2. CASE Trim
    BY <1>0, <1>2, TrimFacts DEF Trim, Ordered
<1>3. CASE CompressOne
    BY <1>0, <1>3, CompressFacts DEF CompressOne, Ordered
<1>4. CASE StepBack
  <2>1. back' # 0
    BY <1>0, <1>4 DEF StepBack, TypeOK
  <2> QED BY <2>1 DEF Ordered
<1>5. CASE Start \/ Flush \/ Limits \/ ArchivePanic \/ Reopen \/ TrimDone \/ CompressDone
            \/ Tick \/ Stop \/ UNCHANGED vars
  <2>1. UNCHANGED <<archive, back>> /\ OnDisk' = OnDisk
    BY <1>5 DEF Start, Flush, Limits, ArchivePanic, Reopen, TrimDone, CompressDone, Tick, Stop, vars,
                OnDisk
  <2> QED BY <1>0, <2>1 DEF Ordered
<1> QED BY <1>1, <1>2, <1>3, <1>4, <1>5 DEF Next

\* A name that is taken is older than the clock it was given at.
LEMMA CollisionStep == IInv /\ [Next]_vars => CollisionNeedsStepBack'
<1> SUFFICES ASSUME IInv, [Next]_vars PROVE CollisionNeedsStepBack'
    OBVIOUS
<1>0. TypeOK /\ CollisionNeedsStepBack
    BY DEF IInv
<1> USE DEF clock, sink, fixed
<1>1. CASE ArchivePanic
  <2>1. back # 0
    <3> SUFFICES ASSUME back = 0 PROVE FALSE
        OBVIOUS
    <3>1. NewName \in Suffix /\ Newer(NewName, NewName)
        BY <1>1, NameIsNewest DEF ArchivePanic
    <3> QED BY <3>1, NewerOrder
  <2> QED BY <1>0, <1>1, <2>1 DEF ArchivePanic, CollisionNeedsStepBack, TypeOK
<1>2. CASE StepBack
    BY <1>0, <1>2 DEF StepBack, CollisionNeedsStepBack, TypeOK
<1>3. CASE Start \/ Flush \/ Limits \/ Archive \/ Reopen \/ Trim \/ TrimDone \/ CompressOne
            \/ CompressDone \/ Tick \/ Stop \/ UNCHANGED vars
  <2>1. back' = back /\ (pc' = "panicked" => pc = "panicked")
    BY <1>3 DEF Start, Flush, Limits, Archive, Reopen, Trim, TrimDone, CompressOne, CompressDone, Tick,
                Stop, vars
  <2> QED BY <1>0, <2>1 DEF CollisionNeedsStepBack
<1> QED BY <1>1, <1>2, <1>3 DEF Next

LEMMA Invariance == Spec => []IInv
<1>1. IInv /\ [Next]_vars => IInv'
    BY TypeStep, FiniteStep, SetStep, StampStep, GenerationsStep, OrderStep, CollisionStep DEF IInv
<1> QED BY InitInv, <1>1, PTL DEF Spec

-----------------------------------------------------------------------------
\* Which generations are kept.

\* The log is the newest generation created, and every archived file is one.
Numbered == log \in {0, gen} /\ \A s \in OnDisk : archive[s].gen # 0

KInv == Numbered /\ NewestKept

LEMMA KeptFacts ==
    ASSUME IInv, Numbered
    PROVE  /\ Archived \in Nat /\ MaxFiles \in Nat
           /\ Kept \subseteq 1..Archived
           /\ back = 0 => \A s, t \in OnDisk : archive[s].gen = archive[t].gen => s = t
<1>1. gen \in Nat /\ log \in Nat /\ OnDisk \in SUBSET Suffix
      /\ \A s \in OnDisk : archive[s].gen \in Nat
    BY DEF IInv, TypeOK
<1>2. Archived \in Nat
    BY <1>1 DEF Archived
<1>3. ASSUME NEW s \in OnDisk PROVE archive[s].gen \in 1..Archived
    BY <1>1, <1>2 DEF IInv, Generations, Numbered, Archived
<1>4. ASSUME back = 0, NEW s \in OnDisk, NEW t \in OnDisk, archive[s].gen = archive[t].gen PROVE s = t
    BY <1>1, <1>4, NewerOrder DEF IInv, Ordered
<1> QED BY <1>2, <1>3, <1>4, DurationAssumption DEF Kept

\* The retention loop goes by the place of a name; while the clock only advances
\* that is the number of generations after the file.
LEMMA PlaceIsAge ==
    ASSUME IInv, KInv, back = 0, pc # "down", NEW s \in suffixes \ old
    PROVE  s \in OnDisk /\ Position(s) = Archived - archive[s].gen
<1> DEFINE A == {t \in suffixes : Newer(t, s)}
           B == archive[s].gen + 1..Archived
           f == [t \in A |-> archive[t].gen]
<1>1. OnDisk = suffixes \ old /\ s \in OnDisk /\ s \in Suffix
      /\ suffixes \in SUBSET Suffix /\ old \subseteq suffixes
    BY DEF IInv, SetKept, TypeOK
<1>2. /\ Archived \in Nat /\ archive[s].gen \in 1..Archived
      /\ \A t \in OnDisk : archive[t].gen \in 1..Archived
    BY <1>1, KeptFacts DEF Kept, KInv
<1>3. ASSUME NEW t \in A PROVE t \in OnDisk /\ archive[t].gen \in B
  <2>1. t \notin old
    BY <1>1, NewerOrder DEF IInv, SetKept
  <2>2. archive[t].gen > archive[s].gen
    BY <1>1, <2>1 DEF IInv, Ordered
  <2> QED BY <1>1, <1>2, <2>1, <2>2
<1>4. ASSUME NEW g \in B PROVE \E t \in A : archive[t].gen = g
  <2>1. archive[s].gen \in Kept /\ g \in archive[s].gen..Archived /\ g > archive[s].gen
    BY <1>1, <1>2 DEF Kept
  <2>2. PICK t \in OnDisk : archive[t].gen = g
    BY <2>1 DEF KInv, NewestKept, Kept
  <2>3. ~Newer(s, t) /\ s # t
    BY <1>1, <1>2, <2>1, <2>2 DEF IInv, Ordered
  <2>4. Newer(t, s)
    BY <1>1, <2>2, <2>3, NewerOrder
  <2> QED BY <1>1, <2>2, <2>4
<1>5. f \in Bijection(A, B)
  <2>1. f \in [A -> B]
    BY <1>3
  <2>2. \A t, u \in A : f[t] = f[u] => t = u
    BY <1>3, KeptFacts DEF KInv
  <2>3. \A g \in B : \E t \in A : f[t] = g
    BY <1>4
  <2> HIDE DEF A, B, f
  <2> QED BY <2>1, <2>2, <2>3 DEF Bijection, Injection, Surjection, IsInjective
<1>6. IsFiniteSet(B) /\ Cardinality(B) = Archived - archive[s].gen
    BY <1>2, FS_Interval
<1>7. IsFiniteSet(A)
    BY FS_Subset DEF IInv, Finite
<1> HIDE DEF B, f
<1> HIDE DEF A
<1>8. Cardinality(A) = Cardinality(B)
    BY <1>5, <1>7, FS_Bijection DEF ExistsBijection
<1>9. Position(s) = Cardinality(A)
    BY DEF Position, A
<1> QED BY <1>1, <1>6, <1>8, <1>9

\* A rotation archives the generation after the newest.
LEMMA KeptArchive ==
    ASSUME IInv, KInv, Archive
    PROVE  KInv'
<1>1. PICK n \in Suffix :
            /\ n \notin OnDisk
            /\ OnDisk' = OnDisk \cup {n}
            /\ archive'[n] = [gen |-> log, form |-> "plain", at |-> now]
            /\ \A s \in OnDisk : archive'[s] = archive[s]
    BY ArchiveFacts
<1>2. /\ log # 0 /\ log = gen /\ gen \in Nat /\ log' = 0 /\ gen' = gen /\ back' = back
      /\ upkeep' = upkeep /\ hpc' = "trim"
    BY DEF Archive, sink, clock, fixed, IInv, TypeOK, Generations, KInv, Numbered
<1>3. archive'[n].gen = log
    BY <1>1
<1>4. Numbered'
    BY <1>1, <1>2, <1>3 DEF KInv, Numbered
<1>5. Archived' = Archived + 1 /\ Archived' = log /\ Archived \in Nat /\ Kept \subseteq 1..Archived
      /\ MaxFiles \in Nat
    BY <1>2, KeptFacts DEF Archived, KInv
<1>6. Kept' = Kept \cup {log}
  <2>1. \A s \in OnDisk' : archive'[s].gen \in Kept \cup {log}
    BY <1>1, <1>3 DEF Kept
  <2>2. \A s \in OnDisk : s \in OnDisk' /\ archive'[s].gen = archive[s].gen
    BY <1>1
  <2>3. n \in OnDisk'
    BY <1>1
  <2> QED BY <1>3, <2>1, <2>2, <2>3 DEF Kept
<1>7. Promised' \subseteq Promised \cup {log}
    BY <1>2, <1>5, UpkeepsAssumption DEF Promised, IInv, TypeOK
<1>8. ASSUME back = 0, NEW g \in Kept' PROVE (g..Archived)' \subseteq Kept'
    BY <1>5, <1>6, <1>8 DEF KInv, NewestKept
<1>9. back = 0 => Promised' \subseteq Kept'
    BY <1>6, <1>7 DEF KInv, NewestKept
<1>10. NewestKept'
    BY <1>2, <1>8, <1>9 DEF NewestKept
<1> QED BY <1>4, <1>10 DEF KInv

\* What the loop removes is the oldest file, and older than the policy keeps.
LEMMA KeptTrim ==
    ASSUME IInv, KInv, Trim
    PROVE  KInv'
<1>1. PICK s \in suffixes \ old :
            /\ s \in Oldest /\ TooOld(s)
            /\ OnDisk' = OnDisk \ {s} /\ OnDisk = suffixes \ old
            /\ \A t \in OnDisk' : archive'[t] = archive[t]
            /\ pc # "down"
    BY TrimFacts
<1>2. UNCHANGED <<log, gen, back, upkeep, hpc>> /\ hpc = "trim" /\ upkeep # "all"
    BY DEF Trim, sink, clock, fixed
<1>3. Numbered'
    BY <1>1, <1>2 DEF KInv, Numbered
<1>4. Archived' = Archived /\ Promised' = Promised
    BY <1>2 DEF Archived, Promised
<1>5. ASSUME back = 0 PROVE /\ Promised \subseteq Kept'
                            /\ \A g \in Kept' : g..Archived \subseteq Kept'
  <2>1. Archived \in Nat /\ Kept \subseteq 1..Archived /\ MaxFiles \in Nat
    BY KeptFacts DEF KInv
  <2>2. PICK v \in 1..Archived : v = archive[s].gen
    BY <1>1, <2>1 DEF Kept
  <2>3. Kept' = Kept \ {v}
    <3>1. \A t \in OnDisk : archive[t].gen = v => t = s
      BY <1>1, <1>5, <2>2, KeptFacts DEF KInv
    <3>2. \A t \in OnDisk' : t \in OnDisk /\ t # s /\ archive'[t].gen = archive[t].gen
      BY <1>1
    <3>3. Kept' \subseteq Kept \ {v}
      BY <3>1, <3>2 DEF Kept
    <3>4. \A t \in OnDisk : archive[t].gen # v => t \in OnDisk' /\ archive'[t].gen = archive[t].gen
      BY <1>1, <2>2
    <3>5. Kept \ {v} \subseteq Kept'
      BY <3>4 DEF Kept
    <3> QED BY <3>3, <3>5
  <2>4. \A g \in Kept' : g > v
    <3> SUFFICES ASSUME NEW t \in OnDisk' PROVE archive[t].gen > v
      BY <1>1 DEF Kept
    <3>1. t \in suffixes \ old /\ t # s /\ t \in Suffix /\ s \in Suffix
      BY <1>1 DEF IInv, TypeOK
    <3>2. Newer(t, s)
      BY <1>1, <3>1, NewerOrder DEF Oldest
    <3> QED BY <1>1, <1>5, <2>2, <3>1, <3>2 DEF IInv, Ordered
  <2>5. v \notin Promised
    <3>1. CASE upkeep = "count"
      <4>1. Position(s) = Archived - v /\ Position(s) >= MaxFiles
        BY <1>1, <1>5, <2>2, <3>1, PlaceIsAge DEF TooOld
      <4> QED BY <2>1, <3>1, <4>1 DEF Promised
    <3>2. CASE upkeep = "age"
      BY <3>2 DEF Promised
    <3> QED BY <1>2, <3>1, <3>2, UpkeepsAssumption DEF IInv, TypeOK
  <2>6. Promised \subseteq Kept'
    BY <1>5, <2>3, <2>5 DEF KInv, NewestKept
  <2>7. ASSUME NEW g \in Kept' PROVE g..Archived \subseteq Kept'
    <3>1. g \in Kept /\ g \in Int /\ g > v
      BY <2>1, <2>3, <2>4
    <3>2. g..Archived \subseteq Kept
      BY <1>5, <3>1 DEF KInv, NewestKept
    <3> QED BY <2>3, <3>1, <3>2
  <2> QED BY <2>6, <2>7
<1>6. NewestKept'
    BY <1>2, <1>4, <1>5 DEF NewestKept
<1> QED BY <1>3, <1>6 DEF KInv

\* Where the loop ends, only what Upkeep::Count keeps is left.
LEMMA LoopLeavesPromised ==
    ASSUME IInv, KInv, TrimDone, back = 0, upkeep = "count"
    PROVE  Kept \subseteq Promised
<1>1. OnDisk = suffixes \ old /\ pc # "down"
    BY DEF TrimDone, IInv, SetKept
<1>2. SUFFICES ASSUME NEW s \in OnDisk PROVE archive[s].gen \in Promised
    BY DEF Kept
<1>3. suffixes \ old \in SUBSET Suffix /\ IsFiniteSet(suffixes \ old)
    BY FS_Subset DEF IInv, TypeOK, Finite
<1>4. PICK m \in suffixes \ old : \A t \in suffixes \ old : ~Newer(m, t)
    BY <1>1, <1>2, <1>3, OldestExists
<1>5. Position(m) = Archived - archive[m].gen /\ ~(Position(m) >= MaxFiles)
    BY <1>1, <1>4, PlaceIsAge DEF TrimDone, LoopDone, Oldest, TooOld
<1>6. /\ Archived \in Nat /\ MaxFiles \in Nat
      /\ archive[s].gen \in 1..Archived /\ archive[m].gen \in 1..Archived
    BY <1>1, <1>2, <1>4, KeptFacts DEF KInv, Kept
<1>7. archive[m].gen <= archive[s].gen
  <2>1. s = m \/ Newer(s, m)
    BY <1>1, <1>2, <1>3, <1>4, NewerOrder
  <2> QED BY <1>1, <1>2, <1>4, <1>6, <2>1 DEF IInv, Ordered
<1> QED BY <1>5, <1>6, <1>7 DEF Promised

LEMMA KeptStep == IInv /\ KInv /\ [Next]_vars => KInv'
<1> SUFFICES ASSUME IInv, KInv, [Next]_vars PROVE KInv'
    OBVIOUS
<1>0. gen \in Nat /\ back \in Nat
    BY DEF IInv, TypeOK
<1> USE DEF clock, sink, fixed
<1>1. CASE Start \/ Reopen
  <2>1. UNCHANGED <<archive, back, upkeep>> /\ OnDisk' = OnDisk /\ OpenLog /\ hpc' = hpc
    BY <1>1 DEF Start, Reopen, OnDisk
  <2>2. \/ log' = log /\ gen' = gen
        \/ log = 0 /\ log' = gen + 1 /\ gen' = gen + 1
    BY <2>1 DEF OpenLog
  <2>3. Archived' = Archived /\ Kept' = Kept /\ Numbered'
    BY <1>0, <2>1, <2>2 DEF Archived, Kept, KInv, Numbered
  <2>4. Promised' = Promised
    BY <2>1, <2>3 DEF Promised
  <2> QED BY <2>1, <2>3, <2>4 DEF KInv, NewestKept
<1>2. CASE StepBack
  <2>1. UNCHANGED <<archive, log, gen>> /\ OnDisk' = OnDisk /\ back' # 0
    BY <1>0, <1>2 DEF StepBack, OnDisk
  <2> QED BY <2>1 DEF KInv, Numbered, NewestKept
<1>3. CASE CompressOne
  <2>1. /\ OnDisk' = OnDisk /\ \A t \in OnDisk : archive'[t].gen = archive[t].gen
        /\ UNCHANGED <<log, gen, back, upkeep, hpc>>
    BY <1>3, CompressFacts DEF CompressOne
  <2>2. Kept' = Kept /\ Archived' = Archived /\ Promised' = Promised /\ Numbered'
    BY <2>1 DEF Kept, Archived, Promised, KInv, Numbered
  <2> QED BY <2>1, <2>2 DEF KInv, NewestKept
<1>4. CASE TrimDone
  <2>1. UNCHANGED <<archive, log, gen, back, upkeep>> /\ OnDisk' = OnDisk
    BY <1>4 DEF TrimDone, OnDisk
  <2>2. Kept' = Kept /\ Archived' = Archived /\ Promised' = Promised /\ Numbered'
    BY <2>1 DEF Kept, Archived, Promised, KInv, Numbered
  <2> QED BY <1>4, <2>1, <2>2, LoopLeavesPromised DEF KInv, NewestKept
<1>5. CASE Flush \/ Limits \/ ArchivePanic \/ CompressDone \/ Tick \/ Stop \/ UNCHANGED vars
  <2>1. /\ UNCHANGED <<archive, log, gen, back, upkeep>> /\ OnDisk' = OnDisk
        /\ hpc' = "compress" => hpc = "compress"
    BY <1>5 DEF Flush, Limits, ArchivePanic, CompressDone, Tick, Stop, vars, OnDisk
  <2>2. Kept' = Kept /\ Archived' = Archived /\ Promised' = Promised /\ Numbered'
    BY <2>1 DEF Kept, Archived, Promised, KInv, Numbered
  <2> QED BY <2>1, <2>2 DEF KInv, NewestKept
<1> QED BY <1>1, <1>2, <1>3, <1>4, <1>5, KeptArchive, KeptTrim DEF Next

LEMMA KeptInvariance == Spec => []KInv
<1>1. Init => KInv
  <2> SUFFICES ASSUME Init PROVE KInv
    OBVIOUS
  <2>1. OnDisk = {} /\ log = 0 /\ gen = 0
    BY DEF Init, OnDisk
  <2>2. Archived = 0 /\ Promised = {}
    BY <2>1, UpkeepsAssumption, DurationAssumption DEF Archived, Promised, Init
  <2> QED BY <2>1, <2>2 DEF KInv, Numbered, NewestKept, Kept, Init
<1> QED BY <1>1, KeptStep, Invariance, PTL DEF Spec

-----------------------------------------------------------------------------
\* Types.
THEOREM TypeCorrect == Spec => []TypeOK
<1>1. IInv => TypeOK
    BY DEF IInv
<1> QED BY <1>1, Invariance, PTL

\* Sorting the names newest first sorts the files, and at rest the writer's set is
\* the archive: for every period, retention policy and number of rotations in one
\* period, as long as the clock only advances.
THEOREM NamesInOrderHolds == Spec => []NamesInOrder
<1>1. IInv => NamesInOrder
    BY DEF IInv, Ordered, SetKept, NamesInOrder
<1> QED BY <1>1, Invariance, PTL

\* rotate_file never meets a name that is taken, unless the clock was set back.
THEOREM CollisionNeedsStepBackHolds == Spec => []CollisionNeedsStepBack
<1>1. IInv => CollisionNeedsStepBack
    BY DEF IInv
<1> QED BY <1>1, Invariance, PTL

\* Sorting the names is enough for the retention: for every number of files kept
\* and every period, with any number of rotations in one period and a stop at any
\* moment, the newest generations are kept, the oldest file goes first, and after
\* the loop Upkeep::Count has exactly its number, as long as the clock only advances.
THEOREM NewestKeptHolds == Spec => []NewestKept
<1>1. KInv => NewestKept
    BY DEF KInv
<1> QED BY <1>1, KeptInvariance, PTL

\* What leaves the archive, and what the retention loop leaves there.
LEMMA OnlyTrimRemoves ==
    ASSUME IInv, [Next]_vars, upkeep = "age", NEW f \in Leaving
    PROVE  now - f.at > MaxAge - Shift
<1> USE DEF clock, sink, fixed
<1>1. PICK s \in OnDisk : f = archive[s] /\ s \notin OnDisk'
    BY DEF Leaving, OnDisk
<1>2. Trim
  <2>1. CASE Archive
    BY <1>1, <2>1, ArchiveFacts
  <2>2. CASE CompressOne
    BY <1>1, <2>2, CompressFacts
  <2>3. CASE Start \/ Flush \/ Limits \/ ArchivePanic \/ Reopen \/ TrimDone \/ CompressDone
            \/ Tick \/ StepBack \/ Stop \/ UNCHANGED vars
    BY <1>1, <2>3 DEF Start, Flush, Limits, ArchivePanic, Reopen, TrimDone, CompressDone, Tick,
                      StepBack, Stop, vars, OnDisk
  <2> QED BY <2>1, <2>2, <2>3 DEF Next
<1>3. TooOld(s)
    BY <1>1, <1>2, TrimFacts
<1>4. s[1] = Stamp(f.at - Shift) /\ f.at \in Nat /\ now \in Nat
    BY <1>1 DEF IInv, TypeOK, Stamped
<1>5. Stamp(f.at - Shift) < Stamp(now - MaxAge)
    BY <1>3, <1>4 DEF TooOld
<1>6. MaxAge \in Nat /\ Shift \in Nat
    BY StampFacts
<1>7. f.at - Shift < now - MaxAge
  <2> SUFFICES ASSUME now - MaxAge <= f.at - Shift PROVE FALSE
    BY <1>4, <1>6
  <2>1. Stamp(now - MaxAge) <= Stamp(f.at - Shift)
    BY <1>4, <1>6, StampFacts
  <2>2. Stamp(now - MaxAge) \in Int /\ Stamp(f.at - Shift) \in Int
    BY <1>4, <1>6, StampFacts
  <2> QED BY <1>5, <2>1, <2>2
<1> QED BY <1>4, <1>6, <1>7

LEMMA LoopLeavesYoung ==
    ASSUME IInv, [Next]_vars, upkeep = "age", hpc = "trim", hpc' = "compress", NEW s \in suffixes'
    PROVE  archive[s].at - Shift >= Unit * Stamp(now - MaxAge)
<1> USE DEF clock, sink, fixed
<1>1. TrimDone
    BY DEF Next, Start, Flush, Limits, Archive, ArchivePanic, Reopen, Trim, CompressOne, CompressDone,
           Tick, StepBack, Stop, vars
<1>2. suffixes' \subseteq suffixes \ old /\ pc # "down"
    BY <1>1 DEF TrimDone, IInv, SetKept
<1>3. s \in suffixes \ old /\ s \in OnDisk
    BY <1>2 DEF IInv, SetKept
<1>4. suffixes \ old \in SUBSET Suffix /\ IsFiniteSet(suffixes \ old)
    BY FS_Subset DEF IInv, TypeOK, Finite
<1>5. PICK m \in suffixes \ old : \A t \in suffixes \ old : ~Newer(m, t)
    BY <1>3, <1>4, OldestExists
<1>6. ~TooOld(m)
    BY <1>1, <1>5 DEF TrimDone, LoopDone, Oldest
<1>7. m[1] \in Int /\ s[1] \in Int /\ m[1] <= s[1]
    BY <1>3, <1>4, <1>5 DEF Suffix, Newer
<1>8. now \in Nat /\ MaxAge \in Nat /\ Shift \in Nat /\ archive[s].at \in Nat
    BY <1>3, StampFacts DEF IInv, TypeOK
<1>9. Stamp(now - MaxAge) \in Int /\ Stamp(now - MaxAge) <= s[1]
  <2>1. Stamp(now - MaxAge) \in Int
    BY <1>8, StampFacts
  <2> QED BY <1>6, <1>7, <2>1 DEF TooOld
<1>10. s[1] = Stamp(archive[s].at - Shift)
    BY <1>3 DEF IInv, Stamped
<1>11. Unit * s[1] <= archive[s].at - Shift
    BY <1>8, <1>10, StampFacts
<1>12. Unit * Stamp(now - MaxAge) <= Unit * s[1]
    BY <1>7, <1>9, DurationAssumption
<1> QED BY <1>7, <1>8, <1>9, <1>11, <1>12, DurationAssumption

\* Upkeep::Age for every duration, period and shift, and a clock that may be set
\* back at any moment: no file leaves before its time, and none that is over it is
\* left when the loop ends.
THEOREM RetentionByAgeHolds == Spec => RetentionByAge
<1> DEFINE A == upkeep = "age" =>
        /\ \A f \in Leaving : now - f.at > MaxAge - Shift
        /\ hpc = "trim" /\ hpc' = "compress" =>
               \A s \in suffixes' : archive[s].at - Shift >= Unit * Stamp(now - MaxAge)
<1>1. IInv /\ [Next]_vars => [A]_vars
    BY OnlyTrimRemoves, LoopLeavesYoung
<1> QED BY <1>1, Invariance, PTL DEF Spec, RetentionByAge

\* Without use_last_time the documented promise of Upkeep::Age holds to the letter:
\* only files older than the duration are deleted.
THEOREM OnlyOlderLeaveHolds ==
    ASSUME UseLastTime = FALSE
    PROVE  Spec => OnlyOlderLeave
<1> DEFINE A == upkeep = "age" => \A f \in Leaving : now - f.at > MaxAge
<1>1. Shift = 0 /\ MaxAge \in Nat
    BY StampFacts DEF Shift
<1>2. ASSUME IInv, [Next]_vars
      PROVE  A
    BY <1>1, <1>2, OnlyTrimRemoves
<1>3. IInv /\ [Next]_vars => [A]_vars
    BY <1>2
<1> QED BY <1>3, Invariance, PTL DEF Spec, OnlyOlderLeave

=============================================================================
