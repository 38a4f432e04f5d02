---------------------------- MODULE RawFileProofs ----------------------------
(***************************************************************************)
(* Proofs about the unbuffered file sink: reference counts keep exactly the *)
(* handles in use open, a reopen takes effect for the calls that follow it, *)
(* and no reopen splits or doubles a line.                                  *)
(***************************************************************************)
EXTENDS RawFile, FiniteSetTheorems, TLAPS

Writers(h) == {t \in Threads : app[t] = "write" /\ held[t] = h}
Storers(h) == {r \in Reopeners : ro[r] = "store" /\ got[r] = h}

\* A reference is LogSinkFile.f, a line being written, or a reopen about to store.
Counted == \A h \in Handle :
    count[h] = (IF f = h THEN 1 ELSE 0) + Cardinality(Writers(h)) + Cardinality(Storers(h))

\* References are to handles that were opened, and those to files that exist.
Opened ==
    /\ f <= handles
    /\ \A t \in Threads : app[t] = "write" => held[t] \in 1..handles
    /\ \A r \in Reopeners : ro[r] = "store" => got[r] \in 1..handles
    /\ \A h \in 1..handles : file[h] \in 1..files

\* The file under the log's name is the newest; each move allows one more.
NewestNamed ==
    /\ log # 0 => log = files /\ files <= moves + 1
    /\ log = 0 => files <= moves

\* No handle that is or will be the sink's has a file older than fresh.
NotOlder ==
    /\ fresh <= file[f]
    /\ \A r \in Reopeners : ro[r] = "store" => fresh <= file[got[r]]
    /\ \A t \in Threads : since[t] <= fresh

\* A line belongs to the call that logs it; one that was not begun is nowhere,
\* and one under way is at most in the file of its handle.
LinesOwned ==
    /\ \A t \in Threads : app[t] # "idle" => line[t] \in 1..lines
    /\ \A t, u \in Threads : app[t] # "idle" /\ app[u] # "idle" /\ line[t] = line[u] => t = u
    /\ \A n \in Lines : n > lines => n \notin failed /\ \A i \in Inode : content[i][n] = 0
    /\ \A t \in Threads, i \in Inode :
        app[t] = "load" \/ (app[t] = "write" /\ i # file[held[t]]) => content[i][line[t]] = 0

IInv == TypeOK /\ Counted /\ Opened /\ NewestNamed /\ NotOlder /\ ReopenTakesEffect
            /\ LinesOwned /\ Delivered

-----------------------------------------------------------------------------
\* Sets of holders, and what taking and dropping a reference does to them.
LEMMA Holders ==
    ASSUME NEW h
    PROVE  /\ IsFiniteSet(Writers(h)) /\ Cardinality(Writers(h)) \in Nat
           /\ IsFiniteSet(Storers(h)) /\ Cardinality(Storers(h)) \in Nat
<1>1. Writers(h) \in SUBSET Threads /\ Storers(h) \in SUBSET Reopeners
    BY DEF Writers, Storers
<1>2. IsFiniteSet(Writers(h)) /\ IsFiniteSet(Storers(h))
    BY <1>1, CallersAssumption, FS_Subset
<1> QED BY <1>2, FS_CardinalityType

LEMMA OneMore ==
    ASSUME NEW S, IsFiniteSet(S), NEW x, x \notin S
    PROVE  Cardinality(S \cup {x}) = Cardinality(S) + 1
BY FS_AddElement

LEMMA OneLess ==
    ASSUME NEW S, IsFiniteSet(S), NEW x \in S
    PROVE  Cardinality(S \ {x}) = Cardinality(S) - 1
BY FS_RemoveElement

LEMMA NonEmpty ==
    ASSUME NEW S, IsFiniteSet(S)
    PROVE  Cardinality(S) \in Nat /\ (Cardinality(S) > 0 <=> S # {})
BY FS_EmptySet, FS_CardinalityType

LEMMA CountKept ==
    ASSUME Counted, UNCHANGED <<f, count>>,
           \A h \in Handle : Writers(h)' = Writers(h) /\ Storers(h)' = Storers(h)
    PROVE  Counted'
BY DEF Counted

\* A reference is held, so the count is not zero.
LEMMA CountPositive ==
    ASSUME TypeOK, Counted, NEW h \in Handle
    PROVE  /\ f = h => count[h] > 0
           /\ \A t \in Threads : app[t] = "write" /\ held[t] = h => count[h] > 0
           /\ \A r \in Reopeners : ro[r] = "store" /\ got[r] = h => count[h] > 0
           /\ count[h] > 0 => f = h \/ Writers(h) # {} \/ Storers(h) # {}
<1>1. count[h] = (IF f = h THEN 1 ELSE 0) + Cardinality(Writers(h)) + Cardinality(Storers(h))
    BY DEF Counted
<1>2. /\ Cardinality(Writers(h)) \in Nat /\ (Cardinality(Writers(h)) > 0 <=> Writers(h) # {})
      /\ Cardinality(Storers(h)) \in Nat /\ (Cardinality(Storers(h)) > 0 <=> Storers(h) # {})
    BY Holders, NonEmpty
<1>3. /\ \A t \in Threads : app[t] = "write" /\ held[t] = h => Writers(h) # {}
      /\ \A r \in Reopeners : ro[r] = "store" /\ got[r] = h => Storers(h) # {}
    BY DEF Writers, Storers
<1> QED BY <1>1, <1>2, <1>3

LEMMA LoadCount ==
    ASSUME TypeOK, Counted, NEW t \in Threads, Load(t)
    PROVE  Counted'
<1>1. /\ UNCHANGED <<f, ro, got>> /\ f \in Handle /\ app[t] = "load"
      /\ count' = [count EXCEPT ![f] = @ + 1]
      /\ app' = [app EXCEPT ![t] = "write"] /\ held' = [held EXCEPT ![t] = f]
    BY DEF Load, reopening, TypeOK
<1>2. \A h \in Handle : Storers(h)' = Storers(h)
    BY <1>1 DEF Storers
<1>3. Writers(f)' = Writers(f) \cup {t} /\ t \notin Writers(f)
    BY <1>1 DEF Writers, TypeOK
<1>4. \A h \in Handle \ {f} : Writers(h)' = Writers(h)
    BY <1>1 DEF Writers, TypeOK
<1>5. Cardinality(Writers(f)') = Cardinality(Writers(f)) + 1
    BY <1>3, Holders, OneMore
<1>6. /\ \A h \in Handle \ {f} : count'[h] = count[h]
      /\ count'[f] = count[f] + 1
    BY <1>1 DEF TypeOK
<1> SUFFICES ASSUME NEW h \in Handle
             PROVE  count'[h] = (IF f' = h THEN 1 ELSE 0) + Cardinality(Writers(h)')
                                                          + Cardinality(Storers(h)')
    BY DEF Counted
<1>7. CASE h = f
    BY <1>1, <1>2, <1>5, <1>6, <1>7, Holders DEF Counted
<1>8. CASE h # f
    BY <1>1, <1>2, <1>4, <1>6, <1>8 DEF Counted
<1> QED BY <1>7, <1>8

LEMMA DoneCount ==
    ASSUME TypeOK, Counted, Opened, NEW t \in Threads, app[t] = "write", Done(t), UNCHANGED reopening
    PROVE  /\ Counted'
           /\ count' \in [Handle -> Nat]
<1>1. PICK g \in Handle : g = held[t]
    BY DEF Opened, TypeOK, Handle
<1>2. count[g] > 0 /\ count[g] \in Nat
    BY <1>1, CountPositive DEF TypeOK
<1>3. /\ UNCHANGED <<f, ro, got>>
      /\ count' = [count EXCEPT ![g] = count[g] - 1]
      /\ app' = [app EXCEPT ![t] = "idle"] /\ held' = [held EXCEPT ![t] = 0]
    BY <1>1, <1>2 DEF Done, reopening, TypeOK
<1>4. \A h \in Handle : Storers(h)' = Storers(h)
    BY <1>3 DEF Storers
<1>5. Writers(g)' = Writers(g) \ {t} /\ t \in Writers(g)
    BY <1>1, <1>3 DEF Writers, TypeOK
<1>6. ASSUME NEW h \in Handle \ {g}
      PROVE  Writers(h)' = Writers(h)
  <2>1. \A u \in Threads : app'[u] = "write" /\ held'[u] = h <=> app[u] = "write" /\ held[u] = h
    BY <1>1, <1>3 DEF TypeOK
  <2> QED BY <2>1 DEF Writers
<1>7. Cardinality(Writers(g)') = Cardinality(Writers(g)) - 1
    BY <1>5, Holders, OneLess
<1>8. /\ \A h \in Handle \ {g} : count'[h] = count[h]
      /\ count'[g] = count[g] - 1
      /\ count' \in [Handle -> Nat]
    BY <1>1, <1>2, <1>3 DEF TypeOK
<1>0. \A h \in Handle : /\ Cardinality(Writers(h)) \in Nat /\ Cardinality(Storers(h)) \in Nat
                        /\ count[h] = (IF f = h THEN 1 ELSE 0) + Cardinality(Writers(h))
                                                              + Cardinality(Storers(h))
    BY Holders DEF Counted
<1> SUFFICES ASSUME NEW h \in Handle
             PROVE  count'[h] = (IF f' = h THEN 1 ELSE 0) + Cardinality(Writers(h)')
                                                          + Cardinality(Storers(h)')
    BY <1>8 DEF Counted
<1>9. CASE h = g
    BY <1>0, <1>1, <1>3, <1>4, <1>7, <1>8, <1>9
<1>10. CASE h # g
    BY <1>0, <1>1, <1>3, <1>4, <1>6, <1>8, <1>10
<1> QED BY <1>9, <1>10

LEMMA OpenCount ==
    ASSUME TypeOK, Counted, Opened, NEW r \in Reopeners, Open(r)
    PROVE  Counted'
<1>0. PICK g \in Handle : g = handles + 1
    BY BoundsAssumption DEF Open, TypeOK, Handle
<1>1. /\ UNCHANGED <<f, app, held>> /\ f # g /\ ro[r] = "open"
      /\ count' = [count EXCEPT ![g] = 1]
      /\ ro' = [ro EXCEPT ![r] = "store"] /\ got' = [got EXCEPT ![r] = g]
    BY <1>0, BoundsAssumption DEF Open, threads, TypeOK, Opened, Handle
<1>2. \A h \in Handle : Writers(h)' = Writers(h)
    BY <1>1 DEF Writers
<1>3. Writers(g) = {} /\ Storers(g) = {}
    BY <1>0, BoundsAssumption DEF Writers, Storers, Opened, TypeOK, Handle
<1>4. Storers(g)' = {r}
  <2>1. \A q \in Reopeners : ~(ro[q] = "store" /\ got[q] = g)
    BY <1>3 DEF Storers
  <2>2. \A q \in Reopeners : ro'[q] = "store" /\ got'[q] = g <=> q = r
    BY <1>1, <2>1 DEF TypeOK
  <2> QED BY <2>2 DEF Storers
<1>5. \A h \in Handle \ {g} : Storers(h)' = Storers(h)
    BY <1>1 DEF Storers, TypeOK
<1>6. /\ \A h \in Handle \ {g} : count'[h] = count[h]
      /\ count'[g] = 1
    BY <1>1 DEF TypeOK
<1>7. Cardinality({}) = 0 /\ Cardinality({r}) = 1
    BY FS_EmptySet, FS_Singleton
<1> SUFFICES ASSUME NEW h \in Handle
             PROVE  count'[h] = (IF f' = h THEN 1 ELSE 0) + Cardinality(Writers(h)')
                                                          + Cardinality(Storers(h)')
    BY DEF Counted
<1>8. CASE h = g
    BY <1>1, <1>2, <1>3, <1>4, <1>6, <1>7, <1>8
<1>9. CASE h # g
    BY <1>1, <1>2, <1>5, <1>6, <1>9 DEF Counted
<1> QED BY <1>8, <1>9

LEMMA StoreCount ==
    ASSUME TypeOK, Counted, Opened, NEW r \in Reopeners, Store(r)
    PROVE  /\ Counted'
           /\ count' \in [Handle -> Nat]
<1>0. PICK g \in Handle : g = got[r]
    BY DEF Store, TypeOK, Opened, Handle
<1>1. /\ UNCHANGED <<app, held>> /\ f' = g /\ ro[r] = "store"
      /\ f \in Handle /\ got[r] = g
      /\ count' = [count EXCEPT ![f] = @ - 1]
      /\ ro' = [ro EXCEPT ![r] = "idle"] /\ got' = [got EXCEPT ![r] = 0]
    BY <1>0 DEF Store, Returned, threads, TypeOK, Opened, Handle
<1>2. \A h \in Handle : Writers(h)' = Writers(h)
    BY <1>1 DEF Writers
<1>3. Storers(g)' = Storers(g) \ {r} /\ r \in Storers(g)
    BY <1>1 DEF Storers, TypeOK
<1>4. ASSUME NEW h \in Handle \ {g}
      PROVE  Storers(h)' = Storers(h)
  <2>1. \A q \in Reopeners : ro'[q] = "store" /\ got'[q] = h <=> ro[q] = "store" /\ got[q] = h
    BY <1>1 DEF TypeOK
  <2> QED BY <2>1 DEF Storers
<1>5. Cardinality(Storers(g)') = Cardinality(Storers(g)) - 1
    BY <1>3, Holders, OneLess
<1>6. count[f] > 0 /\ count[f] \in Nat
    BY <1>1, CountPositive DEF TypeOK
<1>7. /\ \A h \in Handle \ {f} : count'[h] = count[h]
      /\ count'[f] = count[f] - 1
      /\ count' \in [Handle -> Nat]
    BY <1>1, <1>6 DEF TypeOK
<1>8. \A h \in Handle : /\ Cardinality(Writers(h)) \in Nat /\ Cardinality(Storers(h)) \in Nat
                        /\ count[h] \in Nat
                        /\ count[h] = (IF f = h THEN 1 ELSE 0) + Cardinality(Writers(h))
                                                              + Cardinality(Storers(h))
    BY Holders DEF Counted, TypeOK
<1> SUFFICES ASSUME NEW h \in Handle
             PROVE  count'[h] = (IF f' = h THEN 1 ELSE 0) + Cardinality(Writers(h)')
                                                          + Cardinality(Storers(h)')
    BY <1>7 DEF Counted
<1>9. CASE h = g
    BY <1>1, <1>2, <1>5, <1>7, <1>8, <1>9
<1>10. CASE h # g
    BY <1>1, <1>2, <1>4, <1>7, <1>8, <1>10
<1> QED BY <1>9, <1>10

-----------------------------------------------------------------------------
LEMMA InitInv == Init => IInv
<1> SUFFICES ASSUME Init PROVE IInv
    OBVIOUS
<1> USE BoundsAssumption DEF Lines, Handle, Inode, Pieces
<1>1. TypeOK
  <2>1. file \in [Handle -> 0..MaxMoves + 1] /\ count \in [Handle -> Nat]
    BY DEF Init
  <2>2. content \in [Inode -> [Lines -> 0..Pieces]]
    BY DEF Init
  <2>3. 0 \in 0..MaxLines /\ 0 \in 0..MaxHandles /\ 0 \in 0..MaxMoves + 1 /\ 1 \in Handle
        /\ 1 \in Inode /\ 0 \in 0..MaxMoves /\ 1 \in 0..MaxMoves + 1
    OBVIOUS
  <2> QED BY <2>1, <2>2, <2>3 DEF Init, TypeOK
<1>2. Counted
  <2>1. \A h \in Handle : Writers(h) = {} /\ Storers(h) = {}
    BY DEF Init, Writers, Storers
  <2>2. \A h \in Handle : count[h] = IF f = h THEN 1 ELSE 0
    BY DEF Init
  <2> QED BY <2>1, <2>2, FS_EmptySet DEF Counted
<1>3. Opened /\ NewestNamed /\ NotOlder /\ ReopenTakesEffect
    BY DEF Init, Opened, NewestNamed, NotOlder, ReopenTakesEffect
<1>4. LinesOwned /\ Delivered
    BY DEF Init, LinesOwned, Delivered
<1> QED BY <1>1, <1>2, <1>3, <1>4 DEF IInv

\* What a write does to the files.
LEMMA WrittenFacts ==
    ASSUME TypeOK, NEW i \in Inode, NEW n \in Lines, NEW v \in 0..Pieces,
           content' = [content EXCEPT ![i][n] = v]
    PROVE  /\ content' \in [Inode -> [Lines -> 0..Pieces]]
           /\ \A j \in Inode, m \in Lines :
                content'[j][m] = IF j = i /\ m = n THEN v ELSE content[j][m]
<1> DEFINE g == [content[i] EXCEPT ![n] = v]
<1>1. content \in [Inode -> [Lines -> 0..Pieces]] /\ content[i] \in [Lines -> 0..Pieces]
    BY DEF TypeOK
<1>2. g \in [Lines -> 0..Pieces] /\ \A m \in Lines : g[m] = IF m = n THEN v ELSE content[i][m]
    BY <1>1
<1>3. content' = [content EXCEPT ![i] = g]
    BY <1>1
<1> HIDE DEF g
<1>4. content' \in [Inode -> [Lines -> 0..Pieces]]
      /\ \A j \in Inode : content'[j] = IF j = i THEN g ELSE content[j]
    BY <1>1, <1>2, <1>3
<1> QED BY <1>2, <1>4

\* The line and the file of a write that is under way.
LEMMA WriterFacts ==
    ASSUME IInv, NEW t \in Threads, app[t] = "write"
    PROVE  line[t] \in Lines /\ line[t] \in 1..lines /\ file[held[t]] \in Inode
<1>1. line[t] \in Lines /\ line[t] \in 1..lines
    BY BoundsAssumption DEF IInv, TypeOK, LinesOwned, Lines
<1>2. file[held[t]] \in Inode
    BY BoundsAssumption DEF IInv, TypeOK, Opened, Inode
<1> QED BY <1>1, <1>2

LEMMA TypeStep == IInv /\ [Next]_vars => TypeOK'
<1> SUFFICES ASSUME IInv, [Next]_vars PROVE TypeOK'
    OBVIOUS
<1>0. TypeOK /\ Counted /\ Opened /\ NewestNamed
    BY DEF IInv
<1> USE DEF threads, reopening, refs, disk
<1>1. ASSUME NEW t \in Threads, CallLog(t)
      PROVE  TypeOK'
  <2>1. lines + 1 \in 0..MaxLines /\ fresh \in 0..MaxMoves + 1
    BY <1>0, <1>1, BoundsAssumption DEF CallLog, TypeOK, Inode
  <2> QED BY <1>0, <1>1, <2>1 DEF CallLog, TypeOK
<1>2. ASSUME NEW t \in Threads, Load(t)
      PROVE  TypeOK'
  <2>1. f \in 0..MaxHandles /\ count[f] + 1 \in Nat
    BY <1>0, BoundsAssumption DEF TypeOK, Handle
  <2> QED BY <1>0, <1>2, <2>1 DEF Load, TypeOK
<1>3. ASSUME NEW t \in Threads, Write(t) \/ WriteFail(t)
      PROVE  TypeOK'
  <2>1. app[t] = "write" /\ Done(t) /\ UNCHANGED reopening
    BY <1>3 DEF Write, WriteFail
  <2>2. count' \in [Handle -> Nat]
    BY <1>0, <2>1, DoneCount
  <2>3. /\ app' \in [Threads -> {"idle", "load", "write"}] /\ held' \in [Threads -> 0..MaxHandles]
        /\ UNCHANGED <<line, since, lines, f, handles, file, ro, got>>
    BY <1>0, <2>1, BoundsAssumption DEF Done, TypeOK
  <2>4. content' \in [Inode -> [Lines -> 0..Pieces]] /\ failed' \subseteq Lines
        /\ UNCHANGED <<log, files, moves, fresh>>
    <3>1. CASE Write(t)
        <4>1. PICK i \in Inode, n \in Lines : i = file[held[t]] /\ n = line[t]
            BY <2>1, WriterFacts
        <4>2. content' = [content EXCEPT ![i][n] = Pieces] /\ Pieces \in 0..Pieces
            BY <3>1, <4>1 DEF Write, Pieces
        <4>3. content' \in [Inode -> [Lines -> 0..Pieces]]
            BY <1>0, <4>2, WrittenFacts
        <4> QED BY <1>0, <3>1, <4>3 DEF Write, TypeOK
    <3>2. CASE WriteFail(t)
        <4>1. line[t] \in Lines
            BY <2>1, BoundsAssumption DEF IInv, LinesOwned, TypeOK, Lines
        <4> QED BY <1>0, <3>2, <4>1 DEF WriteFail, TypeOK
    <3> QED BY <1>3, <3>1, <3>2
  <2> QED BY <1>0, <2>2, <2>3, <2>4 DEF TypeOK
<1>4. ASSUME NEW t \in Threads, WritePartial(t)
      PROVE  TypeOK'
  <2>1. PICK i \in Inode, n \in Lines : i = file[held[t]] /\ n = line[t]
    BY <1>4, WriterFacts DEF WritePartial
  <2>2. content' = [content EXCEPT ![i][n] = 1] /\ 1 \in 0..Pieces
    BY <1>4, <2>1 DEF WritePartial, Pieces
  <2>3. content' \in [Inode -> [Lines -> 0..Pieces]]
    BY <1>0, <2>2, WrittenFacts
  <2> QED BY <1>0, <1>4, <2>3 DEF WritePartial, TypeOK
<1>5. ASSUME NEW r \in Reopeners, CallReopen(r) \/ OpenFail(r)
      PROVE  TypeOK'
    BY <1>0, <1>5 DEF CallReopen, OpenFail, TypeOK
<1>6. ASSUME NEW r \in Reopeners, Open(r)
      PROVE  TypeOK'
  <2>1. handles + 1 \in Handle /\ handles + 1 \in 0..MaxHandles
    BY <1>0, <1>6, BoundsAssumption DEF Open, TypeOK, Handle
  <2>2. log' \in 0..MaxMoves + 1 /\ files' \in Inode
    BY <1>0, <1>6, BoundsAssumption DEF Open, TypeOK, NewestNamed, Inode
  <2>3. /\ file' \in [Handle -> 0..MaxMoves + 1] /\ count' \in [Handle -> Nat]
        /\ got' \in [Reopeners -> 0..MaxHandles] /\ ro' \in [Reopeners -> {"idle", "open", "store"}]
    BY <1>0, <1>6, <2>1, <2>2 DEF Open, TypeOK
  <2> QED BY <1>0, <1>6, <2>1, <2>2, <2>3 DEF Open, TypeOK
<1>7. ASSUME NEW r \in Reopeners, Store(r)
      PROVE  TypeOK'
  <2>1. count' \in [Handle -> Nat]
    BY <1>0, <1>7, StoreCount
  <2>2. got[r] \in 1..handles /\ got[r] \in Handle /\ file[got[r]] \in Inode
    BY <1>0, <1>7, BoundsAssumption DEF Store, TypeOK, Opened, Handle, Inode
  <2>3. fresh' \in Inode
    BY <1>0, <1>7, <2>2 DEF Store, Returned, TypeOK
  <2>4. got' \in [Reopeners -> 0..MaxHandles] /\ ro' \in [Reopeners -> {"idle", "open", "store"}]
    BY <1>0, <1>7, BoundsAssumption DEF Store, Returned, TypeOK
  <2> QED BY <1>0, <1>7, <2>1, <2>2, <2>3, <2>4 DEF Store, TypeOK
<1>8. CASE Move
    BY <1>0, <1>8, BoundsAssumption DEF Move, TypeOK
<1>9. CASE UNCHANGED vars
    BY <1>0, <1>9 DEF vars, TypeOK
<1> QED BY <1>1, <1>2, <1>3, <1>4, <1>5, <1>6, <1>7, <1>8, <1>9 DEF Next

\* Every reference taken is counted and every one dropped is uncounted.
LEMMA CountStep == IInv /\ [Next]_vars => Counted'
<1> SUFFICES ASSUME IInv, [Next]_vars PROVE Counted'
    OBVIOUS
<1>0. TypeOK /\ Counted /\ Opened
    BY DEF IInv
<1> USE DEF threads, reopening, refs
<1>1. ASSUME NEW t \in Threads, CallLog(t)
      PROVE  Counted'
  <2>1. \A u \in Threads : (app'[u] = "write" <=> app[u] = "write") /\ held' = held
    BY <1>0, <1>1 DEF CallLog, TypeOK
  <2> QED BY <1>0, <1>1, <2>1, CountKept DEF CallLog, Writers, Storers
<1>2. ASSUME NEW t \in Threads, Load(t)
      PROVE  Counted'
    BY <1>0, <1>2, LoadCount
<1>3. ASSUME NEW t \in Threads, Write(t) \/ WriteFail(t)
      PROVE  Counted'
    BY <1>0, <1>3, DoneCount DEF Write, WriteFail
<1>4. ASSUME NEW t \in Threads, WritePartial(t)
      PROVE  Counted'
    BY <1>0, <1>4, CountKept DEF WritePartial, Writers, Storers
<1>5. ASSUME NEW r \in Reopeners, CallReopen(r) \/ OpenFail(r)
      PROVE  Counted'
  <2>1. \A q \in Reopeners : (ro'[q] = "store" <=> ro[q] = "store") /\ got' = got
    BY <1>0, <1>5 DEF CallReopen, OpenFail, TypeOK
  <2> QED BY <1>0, <1>5, <2>1, CountKept DEF CallReopen, OpenFail, Writers, Storers
<1>6. ASSUME NEW r \in Reopeners, Open(r)
      PROVE  Counted'
    BY <1>0, <1>6, OpenCount
<1>7. ASSUME NEW r \in Reopeners, Store(r)
      PROVE  Counted'
    BY <1>0, <1>7, StoreCount
<1>8. CASE Move \/ UNCHANGED vars
    BY <1>0, <1>8, CountKept DEF Move, vars, Writers, Storers
<1> QED BY <1>1, <1>2, <1>3, <1>4, <1>5, <1>6, <1>7, <1>8 DEF Next

\* Handles and files are numbered in the order of creation, and the file of a
\* handle never changes.
LEMMA OpenedStep == IInv /\ [Next]_vars => Opened' /\ NewestNamed'
<1> SUFFICES ASSUME IInv, [Next]_vars PROVE Opened' /\ NewestNamed'
    OBVIOUS
<1>0. TypeOK /\ Opened /\ NewestNamed
    BY DEF IInv
<1>1. handles \in Nat /\ files \in Nat /\ moves \in Nat
    BY <1>0, BoundsAssumption DEF TypeOK, Handle, Inode
<1> USE DEF threads, reopening, refs, disk
<1>2. ASSUME NEW t \in Threads, CallLog(t) \/ WritePartial(t)
      PROVE  Opened' /\ NewestNamed'
    BY <1>0, <1>2 DEF CallLog, WritePartial, TypeOK, Opened, NewestNamed
<1>3. ASSUME NEW t \in Threads, Load(t)
      PROVE  Opened' /\ NewestNamed'
  <2>1. f \in 1..handles
    BY <1>0, <1>1 DEF TypeOK, Opened, Handle
  <2> QED BY <1>0, <1>3, <2>1 DEF Load, TypeOK, Opened, NewestNamed
<1>4. ASSUME NEW t \in Threads, Write(t) \/ WriteFail(t)
      PROVE  Opened' /\ NewestNamed'
  <2>1. /\ UNCHANGED <<f, handles, file, files, ro, got, log, moves>>
        /\ \A u \in Threads : app'[u] = "write" => app[u] = "write" /\ held'[u] = held[u]
    BY <1>0, <1>4 DEF Write, WriteFail, Done, TypeOK
  <2> QED BY <1>0, <2>1 DEF Opened, NewestNamed
<1>5. ASSUME NEW r \in Reopeners, CallReopen(r) \/ OpenFail(r)
      PROVE  Opened' /\ NewestNamed'
    BY <1>0, <1>5 DEF CallReopen, OpenFail, TypeOK, Opened, NewestNamed
<1>6. ASSUME NEW r \in Reopeners, Open(r)
      PROVE  Opened' /\ NewestNamed'
  <2>1. /\ UNCHANGED <<f, app, held, moves>> /\ handles' = handles + 1
        /\ handles + 1 \in Handle
        /\ log' \in 1..files' /\ files' \in {files, files + 1}
        /\ \A h \in Handle : file'[h] = IF h = handles + 1 THEN log' ELSE file[h]
    BY <1>0, <1>1, <1>6, BoundsAssumption DEF Open, TypeOK, NewestNamed, Handle, Inode
  <2>2. NewestNamed'
    BY <1>0, <1>1, <1>6 DEF Open, NewestNamed
  <2>3. \A q \in Reopeners : ro'[q] = "store" => got'[q] \in 1..handles + 1
    BY <1>0, <1>1, <1>6 DEF Open, TypeOK, Opened
  <2>4. \A h \in 1..handles + 1 : file'[h] \in 1..files'
    <3> SUFFICES ASSUME NEW h \in 1..handles + 1 PROVE file'[h] \in 1..files'
        OBVIOUS
    <3>1. h \in Handle
        BY <1>1, <2>1, BoundsAssumption DEF Handle
    <3>2. CASE h = handles + 1
        BY <2>1, <3>1, <3>2
    <3>3. CASE h # handles + 1
        <4>1. file[h] \in 1..files
            BY <1>0, <1>1, <3>3 DEF Opened
        <4> QED BY <1>1, <2>1, <3>1, <3>3, <4>1
    <3> QED BY <3>2, <3>3
  <2>5. f' <= handles' /\ \A t \in Threads : app'[t] = "write" => held'[t] \in 1..handles'
    BY <1>0, <1>1, <2>1 DEF Opened, TypeOK, Handle
  <2> QED BY <2>1, <2>2, <2>3, <2>4, <2>5 DEF Opened
<1>7. ASSUME NEW r \in Reopeners, Store(r)
      PROVE  Opened' /\ NewestNamed'
  <2>1. /\ UNCHANGED <<app, held, handles, file, files, log, moves>> /\ f' \in 1..handles
        /\ \A q \in Reopeners : ro'[q] = "store" => ro[q] = "store" /\ got'[q] = got[q]
    BY <1>0, <1>7 DEF Store, Returned, TypeOK, Opened
  <2> QED BY <1>0, <1>1, <2>1 DEF Opened, NewestNamed
<1>8. CASE Move
    BY <1>0, <1>1, <1>8 DEF Move, Opened, NewestNamed
<1>9. CASE UNCHANGED vars
    BY <1>0, <1>9 DEF vars, Opened, NewestNamed
<1> QED BY <1>2, <1>3, <1>4, <1>5, <1>6, <1>7, <1>8, <1>9 DEF Next

\* fresh only grows, and no handle older than it is stored or loaded.
LEMMA FreshStep == IInv /\ [Next]_vars => NotOlder' /\ ReopenTakesEffect'
<1> SUFFICES ASSUME IInv, [Next]_vars PROVE NotOlder' /\ ReopenTakesEffect'
    OBVIOUS
<1>0. TypeOK /\ Opened /\ NewestNamed /\ NotOlder /\ ReopenTakesEffect
    BY DEF IInv
<1>1. /\ handles \in Nat /\ files \in Nat /\ moves \in Nat /\ fresh \in Nat
      /\ \A h \in Handle : file[h] \in Nat
      /\ \A t \in Threads : since[t] \in Nat
    BY <1>0, BoundsAssumption DEF TypeOK, Handle, Inode
<1> USE DEF threads, reopening, refs, disk
<1>2. ASSUME NEW t \in Threads, CallLog(t)
      PROVE  NotOlder' /\ ReopenTakesEffect'
  <2>1. \A u \in Threads : since'[u] = IF u = t THEN fresh ELSE since[u]
    BY <1>0, <1>2 DEF CallLog, TypeOK
  <2>2. \A u \in Threads : app'[u] = "write" => u # t /\ app[u] = "write"
    BY <1>0, <1>2 DEF CallLog, TypeOK
  <2>3. UNCHANGED <<held, ro, got, f, file, fresh>>
    BY <1>2 DEF CallLog
  <2> QED BY <1>0, <1>1, <2>1, <2>2, <2>3 DEF NotOlder, ReopenTakesEffect
<1>3. ASSUME NEW t \in Threads, Load(t)
      PROVE  NotOlder' /\ ReopenTakesEffect'
  <2>1. UNCHANGED <<ro, got, f, file, fresh, since>>
    BY <1>3 DEF Load
  <2>2. \A u \in Threads : app'[u] = "write" => IF u = t THEN held'[u] = f
                                                 ELSE app[u] = "write" /\ held'[u] = held[u]
    BY <1>0, <1>3 DEF Load, TypeOK
  <2>3. f \in Handle /\ file[f] >= fresh /\ fresh >= since[t]
    BY <1>0, <1>1 DEF NotOlder, TypeOK
  <2>4. file[f] >= since[t]
    BY <1>1, <2>3
  <2> QED BY <1>0, <2>1, <2>2, <2>4 DEF NotOlder, ReopenTakesEffect
<1>4. ASSUME NEW t \in Threads, Write(t) \/ WriteFail(t) \/ WritePartial(t)
      PROVE  NotOlder' /\ ReopenTakesEffect'
  <2>1. UNCHANGED <<ro, got, f, file, fresh, since>>
    BY <1>4 DEF Write, WriteFail, WritePartial, Done
  <2>2. \A u \in Threads : app'[u] = "write" => app[u] = "write" /\ held'[u] = held[u]
    BY <1>0, <1>4 DEF Write, WriteFail, WritePartial, Done, TypeOK
  <2> QED BY <1>0, <2>1, <2>2 DEF NotOlder, ReopenTakesEffect
<1>5. ASSUME NEW r \in Reopeners, CallReopen(r) \/ OpenFail(r)
      PROVE  NotOlder' /\ ReopenTakesEffect'
  <2>1. UNCHANGED <<app, held, since, got, f, file, fresh>>
    BY <1>5 DEF CallReopen, OpenFail
  <2>2. \A q \in Reopeners : ro'[q] = "store" => ro[q] = "store"
    BY <1>0, <1>5 DEF CallReopen, OpenFail, TypeOK
  <2> QED BY <1>0, <2>1, <2>2 DEF NotOlder, ReopenTakesEffect
<1>6. ASSUME NEW r \in Reopeners, Open(r)
      PROVE  NotOlder' /\ ReopenTakesEffect'
  <2>1. /\ UNCHANGED <<app, held, since, f, fresh>>
        /\ handles + 1 \in Handle
        /\ \A h \in Handle : file'[h] = IF h = handles + 1 THEN log' ELSE file[h]
        /\ \A q \in Reopeners : ro'[q] = "store" => IF q = r THEN got'[q] = handles + 1
                                                   ELSE ro[q] = "store" /\ got'[q] = got[q]
    BY <1>0, <1>1, <1>6, BoundsAssumption DEF Open, TypeOK, Handle
  <2>2. log' >= files /\ files >= file[f] /\ file[f] >= fresh /\ f \in Handle /\ f \in 1..handles
    <3>1. f \in Handle /\ f \in 1..handles
        BY <1>0, <1>1 DEF TypeOK, Opened, Handle
    <3>2. file[f] \in 1..files /\ file[f] >= fresh
        BY <1>0, <1>1, <3>1 DEF Opened, NotOlder
    <3>3. log' >= files
        BY <1>0, <1>1, <1>6 DEF Open, NewestNamed
    <3> QED BY <1>1, <3>1, <3>2, <3>3
  <2>3. log' >= fresh /\ log' \in Nat
    BY <1>0, <1>1, <1>6, <2>2 DEF Open, TypeOK, NewestNamed
  <2>4. \A h \in 1..handles : h \in Handle /\ file'[h] = file[h]
    BY <1>0, <1>1, <2>1, BoundsAssumption DEF Handle
  <2>5. ReopenTakesEffect'
    BY <1>0, <2>1, <2>4 DEF ReopenTakesEffect, Opened
  <2>6. NotOlder'
    BY <1>0, <1>1, <2>1, <2>2, <2>3, <2>4 DEF NotOlder, Opened
  <2> QED BY <2>5, <2>6
<1>7. ASSUME NEW r \in Reopeners, Store(r)
      PROVE  NotOlder' /\ ReopenTakesEffect'
  <2>1. /\ UNCHANGED <<app, held, since, file>> /\ f' = got[r] /\ ro[r] = "store"
        /\ fresh' = (IF \A q \in Reopeners \ {r} : ro[q] = "idle" THEN file[got[r]] ELSE fresh)
        /\ \A q \in Reopeners : ro'[q] = "store" => q # r /\ ro[q] = "store" /\ got'[q] = got[q]
    BY <1>0, <1>7 DEF Store, Returned, TypeOK
  <2>2. got[r] \in Handle /\ fresh <= file[got[r]]
    BY <1>0, <2>1, BoundsAssumption DEF NotOlder, Opened, TypeOK, Handle
  <2>3. file[got[r]] \in Nat /\ fresh' \in Nat /\ fresh <= fresh' /\ fresh' <= file[got[r]]
    BY <1>1, <2>1, <2>2
  <2>4. \A q \in Reopeners : ro'[q] = "store" => fresh' = fresh
    BY <2>1
  <2>5. NotOlder'
    <3>1. \A t \in Threads : since[t] <= fresh'
        BY <1>0, <1>1, <2>3 DEF NotOlder
    <3> QED BY <1>0, <2>1, <2>3, <2>4, <3>1 DEF NotOlder
  <2> QED BY <1>0, <2>1, <2>5 DEF ReopenTakesEffect
<1>8. CASE Move \/ UNCHANGED vars
    BY <1>0, <1>8 DEF Move, vars, NotOlder, ReopenTakesEffect
<1> QED BY <1>2, <1>3, <1>4, <1>5, <1>6, <1>7, <1>8 DEF Next

\* Steps that write nothing and end no call.
LEMMA LinesKept ==
    ASSUME LinesOwned, Delivered, UNCHANGED <<line, lines, failed, content>>,
           \A t \in Threads :
                /\ app'[t] = "idle" <=> app[t] = "idle"
                /\ app'[t] = "load" => app[t] = "load"
                /\ app'[t] = "write" => \/ app[t] = "write" /\ file'[held'[t]] = file[held[t]]
                                        \/ app[t] = "load"
    PROVE  LinesOwned' /\ Delivered'
<1>1. LinesOwned'
    BY DEF LinesOwned
<1>2. Delivered'
    BY DEF Delivered
<1> QED BY <1>1, <1>2

\* The end of a call, after a write that took the whole line or failed.
LEMMA EndOfCall ==
    ASSUME IInv, NEW t \in Threads, Write(t) \/ WriteFail(t)
    PROVE  LinesOwned' /\ Delivered'
<1>0. TypeOK /\ LinesOwned /\ Delivered
    BY DEF IInv
<1>1. PICK i \in Inode, n \in Lines : i = file[held[t]] /\ n = line[t] /\ n \in 1..lines
    BY WriterFacts DEF Write, WriteFail
<1>2. /\ app[t] = "write" /\ UNCHANGED <<line, lines, file>>
      /\ \A u \in Threads : app'[u] = IF u = t THEN "idle" ELSE app[u]
      /\ \A u \in Threads : u # t => held'[u] = held[u]
    BY <1>0 DEF Write, WriteFail, Done, TypeOK
<1>3. \A u \in Threads : app'[u] # "idle" => u # t /\ app[u] # "idle" /\ line[u] # n
    BY <1>0, <1>1, <1>2 DEF LinesOwned
<1>4. /\ \A m \in Lines, j \in Inode : m # n => content'[j][m] = content[j][m]
      /\ \A m \in Lines : m # n => (m \in failed' <=> m \in failed)
      /\ n \in failed' \/ \A j \in Inode : content'[j][n] = IF j = i THEN Pieces ELSE 0
  <2>1. CASE Write(t)
    <3>1. content' = [content EXCEPT ![i][n] = Pieces] /\ Pieces \in 0..Pieces /\ failed' = failed
        BY <1>1, <2>1 DEF Write, Pieces
    <3>2. \A j \in Inode, m \in Lines :
                content'[j][m] = IF j = i /\ m = n THEN Pieces ELSE content[j][m]
        BY <1>0, <3>1, WrittenFacts
    <3>3. \A j \in Inode : j # i => content[j][n] = 0
        BY <1>0, <1>1, <1>2 DEF LinesOwned
    <3> QED BY <3>1, <3>2, <3>3
  <2>2. CASE WriteFail(t)
    BY <1>1, <2>2 DEF WriteFail, disk
  <2> QED BY <2>1, <2>2
<1>5. n <= lines /\ \A m \in 1..lines : m \in Lines
    BY <1>0, <1>1, BoundsAssumption DEF TypeOK, Lines
<1>6. LinesOwned'
  <2>1. \A u \in Threads : app'[u] # "idle" => line[u] \in Lines
    BY <1>0, <1>2, <1>5 DEF LinesOwned
  <2>2. \A m \in Lines : m > lines => m # n
    BY <1>5, BoundsAssumption, <1>0 DEF TypeOK, Lines
  <2>3. \A m \in Lines : m > lines => m \notin failed' /\ \A j \in Inode : content'[j][m] = 0
    BY <1>0, <1>4, <2>2 DEF LinesOwned
  <2>4. \A u \in Threads, j \in Inode :
            app'[u] = "load" \/ (app'[u] = "write" /\ j # file'[held'[u]]) => content'[j][line[u]] = 0
    BY <1>0, <1>2, <1>3, <1>4, <2>1 DEF LinesOwned
  <2> QED BY <1>0, <1>2, <1>3, <2>3, <2>4 DEF LinesOwned
<1>7. Delivered'
  <2> SUFFICES ASSUME NEW m \in 1..lines, m \notin failed',
                      \A u \in Threads : app'[u] = "idle" \/ line[u] # m
               PROVE  \E k \in Inode : \A j \in Inode : content'[j][m] = IF j = k THEN Pieces ELSE 0
    BY <1>2 DEF Delivered
  <2>1. CASE m = n
    BY <1>4, <2>1
  <2>2. CASE m # n
    <3>1. m \notin failed /\ \A u \in Threads : app[u] = "idle" \/ line[u] # m
        BY <1>1, <1>2, <1>4, <1>5, <2>2
    <3>2. \E k \in Inode : \A j \in Inode : content[j][m] = IF j = k THEN Pieces ELSE 0
        BY <1>0, <3>1 DEF Delivered
    <3> QED BY <1>4, <1>5, <2>2, <3>2
  <2> QED BY <2>1, <2>2
<1> QED BY <1>6, <1>7

\* A line stays in the file its call has loaded, whatever is reopened meanwhile.
LEMMA LinesStep == IInv /\ [Next]_vars => LinesOwned' /\ Delivered'
<1> SUFFICES ASSUME IInv, [Next]_vars PROVE LinesOwned' /\ Delivered'
    OBVIOUS
<1>0. TypeOK /\ Opened /\ LinesOwned /\ Delivered
    BY DEF IInv
<1> USE DEF threads, reopening, refs, disk
<1>1. ASSUME NEW t \in Threads, CallLog(t)
      PROVE  LinesOwned' /\ Delivered'
  <2>1. /\ UNCHANGED <<held, failed, file, content>> /\ lines' = lines + 1 /\ app[t] = "idle"
        /\ \A u \in Threads : app'[u] = (IF u = t THEN "load" ELSE app[u])
                           /\ line'[u] = (IF u = t THEN lines + 1 ELSE line[u])
    BY <1>0, <1>1 DEF CallLog, TypeOK
  <2>2. lines \in Nat /\ lines + 1 \in Lines
    BY <1>0, <1>1, BoundsAssumption DEF CallLog, TypeOK, Lines
  <2>3. lines + 1 \notin failed /\ \A i \in Inode : content[i][lines + 1] = 0
    BY <1>0, <2>2 DEF LinesOwned
  <2>4. \A u \in Threads : app[u] # "idle" => line[u] \in 1..lines
    BY <1>0 DEF LinesOwned
  <2>5. LinesOwned'
    <3>1. \A u \in Threads : app'[u] # "idle" => line'[u] \in 1..lines + 1
        BY <2>1, <2>2, <2>4
    <3>2. \A u, v \in Threads : app'[u] # "idle" /\ app'[v] # "idle" /\ line'[u] = line'[v] => u = v
        BY <1>0, <2>1, <2>2, <2>4 DEF LinesOwned
    <3>3. \A n \in Lines : n > lines + 1 => n \notin failed /\ \A i \in Inode : content[i][n] = 0
        BY <1>0, <2>2 DEF LinesOwned, Lines
    <3>4. \A u \in Threads, i \in Inode :
            app'[u] = "load" \/ (app'[u] = "write" /\ i # file[held[u]]) => content[i][line'[u]] = 0
        BY <1>0, <2>1, <2>3 DEF LinesOwned
    <3> QED BY <2>1, <3>1, <3>2, <3>3, <3>4 DEF LinesOwned
  <2>6. Delivered'
    <3> SUFFICES ASSUME NEW m \in 1..lines + 1, m \notin failed,
                        \A u \in Threads : app'[u] = "idle" \/ line'[u] # m
                 PROVE  \E k \in Inode : \A j \in Inode : content[j][m] = IF j = k THEN Pieces ELSE 0
        BY <2>1 DEF Delivered
    <3>1. m # lines + 1 /\ m \in 1..lines
        BY <2>1, <2>2
    <3>2. \A u \in Threads : app[u] = "idle" \/ line[u] # m
        BY <2>1
    <3> QED BY <1>0, <3>1, <3>2 DEF Delivered
  <2> QED BY <2>5, <2>6
<1>2. ASSUME NEW t \in Threads, Load(t)
      PROVE  LinesOwned' /\ Delivered'
  <2>1. /\ UNCHANGED <<line, lines, failed, content, file>> /\ app[t] = "load"
        /\ \A u \in Threads : app'[u] = (IF u = t THEN "write" ELSE app[u])
                           /\ (u # t => held'[u] = held[u])
    BY <1>0, <1>2 DEF Load, TypeOK
  <2> QED BY <1>0, <2>1, LinesKept
<1>3. ASSUME NEW t \in Threads, Write(t) \/ WriteFail(t)
      PROVE  LinesOwned' /\ Delivered'
    BY <1>3, EndOfCall
<1>4. ASSUME NEW t \in Threads, WritePartial(t)
      PROVE  LinesOwned' /\ Delivered'
  <2>1. PICK i \in Inode, n \in Lines : i = file[held[t]] /\ n = line[t] /\ n \in 1..lines
    BY <1>4, WriterFacts DEF WritePartial
  <2>2. /\ UNCHANGED <<app, held, line, lines, failed, file>> /\ app[t] = "write"
        /\ content' = [content EXCEPT ![i][n] = 1] /\ 1 \in 0..Pieces
    BY <1>4, <2>1 DEF WritePartial, Pieces
  <2>3. \A j \in Inode, m \in Lines :
            content'[j][m] = IF j = i /\ m = n THEN 1 ELSE content[j][m]
    <3>1. content \in [Inode -> [Lines -> 0..Pieces]]
      BY <1>0 DEF TypeOK
    <3>2. n \in Lines /\ i \in Inode
      BY <2>1
    <3> QED BY <2>2, <3>1, <3>2, WrittenFacts
  <2>4. lines \in Nat /\ n <= lines /\ \A m \in 1..lines : m \in Lines
    BY <1>0, <2>1, BoundsAssumption DEF TypeOK, Lines
  <2>5. \A u \in Threads : app[u] # "idle" => line[u] \in Lines /\ (line[u] = n => u = t)
    BY <1>0, <2>1, <2>2, <2>4 DEF LinesOwned
  <2>6. LinesOwned'
    <3>1. \A m \in Lines : m > lines => m # n
        BY <2>4, BoundsAssumption DEF Lines
    <3>2. \A m \in Lines : m > lines => m \notin failed /\ \A j \in Inode : content'[j][m] = 0
        BY <1>0, <2>3, <3>1 DEF LinesOwned
    <3>3. \A u \in Threads, j \in Inode :
            app[u] = "load" \/ (app[u] = "write" /\ j # file[held[u]]) => content'[j][line[u]] = 0
        BY <1>0, <2>1, <2>2, <2>3, <2>5 DEF LinesOwned
    <3> QED BY <1>0, <2>2, <3>2, <3>3 DEF LinesOwned
  <2>7. Delivered'
    <3> SUFFICES ASSUME NEW m \in 1..lines, m \notin failed,
                        \A u \in Threads : app[u] = "idle" \/ line[u] # m
                 PROVE  \E k \in Inode : \A j \in Inode : content'[j][m] = IF j = k THEN Pieces ELSE 0
        BY <2>2 DEF Delivered
    <3>1. m # n /\ m \in Lines
        BY <2>1, <2>2, <2>4
    <3> QED BY <1>0, <2>3, <3>1 DEF Delivered
  <2> QED BY <2>6, <2>7
<1>5. ASSUME NEW r \in Reopeners, Open(r)
      PROVE  LinesOwned' /\ Delivered'
  <2>1. UNCHANGED <<app, held, line, lines, failed, content>>
    BY <1>5 DEF Open
  <2>2. \A h \in 1..handles : file'[h] = file[h]
    BY <1>0, <1>5, BoundsAssumption DEF Open, TypeOK, Handle
  <2>3. \A t \in Threads : app[t] = "write" => file'[held[t]] = file[held[t]]
    BY <1>0, <2>2 DEF Opened
  <2>4. app \in [Threads -> {"idle", "load", "write"}]
    BY <1>0 DEF TypeOK
  <2> QED BY <1>0, <2>1, <2>3, <2>4, LinesKept
<1>6. CASE (\E r \in Reopeners : CallReopen(r) \/ OpenFail(r) \/ Store(r)) \/ Move \/ UNCHANGED vars
  <2>1. UNCHANGED <<app, held, line, lines, failed, content, file>>
    BY <1>6 DEF CallReopen, OpenFail, Store, Returned, Move, vars
  <2>2. app \in [Threads -> {"idle", "load", "write"}]
    BY <1>0 DEF TypeOK
  <2> QED BY <1>0, <2>1, <2>2, LinesKept
<1> QED BY <1>1, <1>2, <1>3, <1>4, <1>5, <1>6 DEF Next

LEMMA Invariance == Spec => []IInv
<1>1. IInv /\ [Next]_vars => IInv'
    BY TypeStep, CountStep, OpenedStep, FreshStep, LinesStep DEF IInv
<1> QED BY InitInv, <1>1, PTL DEF Spec

-----------------------------------------------------------------------------
\* Types; a reference count is never negative.
THEOREM TypeCorrect == Spec => []TypeOK
<1>1. IInv => TypeOK
    BY DEF IInv
<1> QED BY <1>1, Invariance, PTL

\* "ArcSwap ensure file fd is not close during reopen", for any number of threads
\* and of reopens at once: the open handles are exactly those in use.
THEOREM OpenWhileUsedHolds == Spec => []OpenWhileUsed
<1>1. ASSUME IInv
      PROVE  OpenWhileUsed
  <2>0. TypeOK /\ Counted /\ Opened
    BY <1>1 DEF IInv
  <2> DEFINE Used == {f} \cup {held[t] : t \in {u \in Threads : app[u] = "write"}}
                         \cup {got[r] : r \in {q \in Reopeners : ro[q] = "store"}}
  <2>1. \A h \in Used : h \in Handle
    BY <2>0, BoundsAssumption DEF TypeOK, Opened, Handle
  <2>2. ASSUME NEW h \in Handle
        PROVE  h \in Used <=> f = h \/ Writers(h) # {} \/ Storers(h) # {}
    BY DEF Writers, Storers
  <2>3. ASSUME NEW h \in Handle
        PROVE  count[h] > 0 <=> f = h \/ Writers(h) # {} \/ Storers(h) # {}
    BY <2>0, CountPositive DEF Writers, Storers
  <2> HIDE DEF Used
  <2>4. {h \in Handle : count[h] > 0} = Used
    BY <2>1, <2>2, <2>3
  <2> QED BY <2>4 DEF OpenWhileUsed, Used
<1> QED BY <1>1, Invariance, PTL

\* After a reopen that returned alone, no line goes to a file moved away before it.
THEOREM ReopenTakesEffectHolds == Spec => []ReopenTakesEffect
<1>1. IInv => ReopenTakesEffect
    BY DEF IInv
<1> QED BY <1>1, Invariance, PTL

\* A line whose call is over is whole, in one file only, unless a write failed:
\* the loop over short writes keeps to the handle it has loaded.
THEOREM DeliveredHolds == Spec => []Delivered
<1>1. IInv => Delivered
    BY DEF IInv
<1> QED BY <1>1, Invariance, PTL

=============================================================================
