-------------------------- MODULE ReconfigureProofs --------------------------
(***************************************************************************)
(* Proofs about the change of configuration: that every record goes to one   *)
(* configuration, and that a reopen holds for the records after it, for any  *)
(* number of threads, versions, sinks and paths.                             *)
(***************************************************************************)
EXTENDS Reconfigure, FiniteSetTheorems, SequenceTheorems, TLAPS

Pairs == Versions \X Paths

\* The newest file of a path that has been moved away: one that is opened now
\* is a later one.
Moved(p) == IF path[p] = 0 THEN inodes[p] ELSE inodes[p] - 1

\* Files are numbered in the order they are created; the one that has the name
\* is the newest.
Numbers ==
    /\ \A p \in Paths :
        /\ path[p] # 0 => path[p] = inodes[p]
        /\ Moved(p) <= events /\ Moved(p) \in Nat
        /\ retired[p] <= Moved(p)
    /\ \A t \in Threads : op[t] # Idle => \A p \in Paths : op[t].before[p] <= Moved(p)
    /\ \A n \in Lines, p \in Paths : avoid[n][p] <= Moved(p)

\* A version that calls have seen is not the one being built.
IsPublished(v) == v <= built /\ v # setup.version
Published ==
    /\ IsPublished(cur)
    /\ setup.version <= built
    /\ \A t \in Threads : op[t] # Idle => IsPublished(op[t].version)
    /\ \A n \in 1..lines : went[n] \in Versions /\ IsPublished(went[n])

\* The messages of a channel.
LineAt(v, p, j, n) ==
    j \in 1..Len(queue[<<v, p>>]) /\ queue[<<v, p>>][j].kind = "line" /\ queue[<<v, p>>][j].line = n
ReopenAt(v, p, j) ==
    j \in 1..Len(queue[<<v, p>>]) /\ queue[<<v, p>>][j].kind = "reopen"
FlushAt(v, p, j, t) ==
    j \in 1..Len(queue[<<v, p>>]) /\ queue[<<v, p>>][j].kind = "flush" /\ queue[<<v, p>>][j].caller = t

\* A flush that a writer has still to answer belongs to a caller who waits for
\* it, and for no other.
Waiting(t) ==
    /\ op[t] # Idle /\ op[t].kind = "flush" /\ op[t].waiting
    /\ op[t].at <= Len(Configs[op[t].version])
Awaited ==
    /\ \A v \in Versions, p \in Paths, t \in Threads : \A j \in Nat : FlushAt(v, p, j, t) => Waiting(t)
    /\ \A v, w \in Versions, p, q \in Paths, t \in Threads : \A j, k \in Nat :
        FlushAt(v, p, j, t) /\ FlushAt(w, q, k, t) => v = w /\ p = q /\ j = k

\* The calls that log: one for a record, with the version the record goes to.
Logging(t, n) == op[t] # Idle /\ op[t].line = n
Loggers ==
    /\ \A t \in Threads : op[t] # Idle => (op[t].kind = "log" <=> op[t].line # 0)
    /\ \A t \in Threads, n \in Lines : Logging(t, n) => n <= lines /\ op[t].version = went[n]
    /\ \A t, u \in Threads, n \in Lines : Logging(t, n) /\ Logging(u, n) => t = u

\* The call of record n is past the sink of p.
Passed(n, p) ==
    /\ n <= lines /\ p \in SinksOf(went[n])
    /\ \A t \in Threads : Logging(t, n) =>
        \A k \in 1..Len(Configs[went[n]]) : Configs[went[n]][k].path = p => k < op[t].at

Queued(n, v, p)  == \E j \in Nat : LineAt(v, p, j, n)
HasCopy(n, v, p) == Queued(n, v, p) \/ n \in buf[<<v, p>>]

\* Where a record is for the sink of a path: nowhere until its call is past that
\* sink, then in one place, of the version it went to.
InOnePlace(n, p) ==
    /\ \A v \in Versions : HasCopy(n, v, p) => v = went[n] /\ Passed(n, p)
    /\ Written(n, p) => Passed(n, p)
    /\ \A v \in Versions : \A j, k \in Nat : LineAt(v, p, j, n) /\ LineAt(v, p, k, n) => j = k
    /\ \A v \in Versions : /\ ~(Queued(n, v, p) /\ n \in buf[<<v, p>>])
                          /\ ~(HasCopy(n, v, p) /\ Written(n, p))
    /\ \A i, j \in Files : n \in content[<<p, i>>] /\ n \in content[<<p, j>>] => i = j
    /\ Passed(n, p) => \A v \in Versions : v = went[n] =>
        writer[<<v, p>>] = "panicked" \/ HasCopy(n, v, p) \/ Written(n, p)
Records == \A n \in Lines, p \in Paths : InOnePlace(n, p)

\* What a sink writes from now on goes to a file later than b, but for the lines
\* that are before a reopen in its channel, and while its writer has no new file.
Opened(v, p, b) ==
    \/ inode[<<v, p>>] > b
    \/ <<v, p>> \in failed
    \/ /\ p \in Buffered(v)
       /\ writer[<<v, p>>] \in {"start", "panicked"} \/ \E j \in Nat : ReopenAt(v, p, j)

\* The same for the line at a place of a channel: a reopen behind it does not help.
Ready(v, p, j, b) ==
    \/ inode[<<v, p>>] > b
    \/ <<v, p>> \in failed
    \/ writer[<<v, p>>] = "start"
    \/ \E k \in Nat : k < j /\ ReopenAt(v, p, k)

\* The sinks built so far, those in force, and those of the calls under way.
BuiltFollow ==
    setup.version # 0 => \A k \in 1..Len(Configs[setup.version]) : k < setup.at =>
        Opened(setup.version, Configs[setup.version][k].path, retired[Configs[setup.version][k].path])
ListFollows == \A p \in SinksOf(cur) : Opened(cur, p, retired[p])
LoggersFollow ==
    \A t \in Threads, n \in Lines : Logging(t, n) =>
        \A p \in SinksOf(op[t].version) : Opened(op[t].version, p, avoid[n][p])
ReopensFollow ==
    \A t \in Threads : Reopening(t) => \A k \in 1..Len(Configs[op[t].version]) :
        k < op[t].at /\ (t \in alone \/ Configs[op[t].version][k].path \in Buffered(op[t].version)) =>
            Opened(op[t].version, Configs[op[t].version][k].path, op[t].before[Configs[op[t].version][k].path])

\* Of two reopens of one list neither is alone.
NoneAlone ==
    \A t, u \in Threads : t # u /\ Reopening(t) /\ Reopening(u) /\ op[t].version = op[u].version =>
        t \notin alone

\* A file a reopen has in hand for a raw sink: storing it harms no record of its list.
InHand(t, v, k, p) ==
    /\ Reopening(t) /\ v = op[t].version /\ k = op[t].at /\ k \in 1..Len(Configs[v])
    /\ p = Configs[v][k].path /\ p \notin Buffered(v)
Keeps(t, v, p) ==
    /\ opened[t] > op[t].before[p]
    /\ v = cur => opened[t] > retired[p]
    /\ \A n \in 1..lines : went[n] = v => opened[t] > avoid[n][p]
Handed ==
    \A t \in Threads : opened[t] # 0 =>
        \E v \in Versions, p \in Paths : \E k \in Nat : InHand(t, v, k, p) /\ Keeps(t, v, p)

\* The records in the channels and in the buffers.
QueuesFollow ==
    \A n \in Lines, v \in Versions, p \in Paths : \A j \in Nat :
        LineAt(v, p, j, n) => Ready(v, p, j, avoid[n][p])
BuffersFollow ==
    \A n \in Lines, v \in Versions, p \in Paths : n \in buf[<<v, p>>] =>
        inode[<<v, p>>] > avoid[n][p] \/ <<v, p>> \in failed

Followed == /\ BuiltFollow /\ ListFollows /\ LoggersFollow /\ ReopensFollow
            /\ NoneAlone /\ Handed /\ QueuesFollow /\ BuffersFollow

Calm == TypeOK /\ Numbers /\ Published /\ Awaited /\ Loggers
IInv == Calm /\ Records /\ Followed

-----------------------------------------------------------------------------
\* Calls, messages and what is done with them.
LEMMA OpIsNotIdle == \A c \in Ops : c # Idle
<1> SUFFICES ASSUME NEW c \in Ops, c = Idle PROVE FALSE
    OBVIOUS
<1>1. c.kind \in {"log", "flush", "reopen"}
    BY DEF Ops
<1>2. c.kind = "idle"
    BY DEF Idle
<1> QED BY <1>1, <1>2

LEMMA OpFacts ==
    ASSUME TypeOK, NEW t \in Threads, op[t] # Idle
    PROVE  /\ op[t] \in Ops
           /\ op[t].kind \in {"log", "flush", "reopen"} /\ op[t].version \in Versions
           /\ op[t].at \in Nat \ {0} /\ op[t].line \in Lines \cup {0} /\ op[t].waiting \in BOOLEAN
           /\ op[t].before \in [Paths -> Nat]
BY DEF TypeOK, Ops

LEMMA MessageFacts ==
    ASSUME NEW m \in Messages
    PROVE  /\ m.kind \in {"line", "flush", "reopen"}
           /\ m.kind = "line" => m.line \in Lines
           /\ m.kind = "flush" => m.caller \in Threads
BY DEF Messages

LEMMA Bounds ==
    /\ MaxLines \in Nat /\ MaxEvents \in Nat /\ Len(Configs) \in Nat \ {0}
    /\ \A v \in Versions : Len(Configs[v]) \in Nat
    /\ \A v \in Versions : \A k \in 1..Len(Configs[v]) :
        Configs[v][k].path \in Paths /\ Configs[v][k].kind \in {"buf", "raw"}
    /\ \A n \in Lines : n \in Nat \ {0}
BY ConfigsAssumption, BoundsAssumption DEF Versions, Lines

\* The kind of a sink is the kind of its path.
LEMMA SinkKinds ==
    ASSUME NEW v \in Versions, NEW k \in 1..Len(Configs[v])
    PROVE  /\ Configs[v][k].path \in SinksOf(v)
           /\ Configs[v][k].path \in Buffered(v) <=> Configs[v][k].kind = "buf"
           /\ \A j \in 1..Len(Configs[v]) : Configs[v][j].path = Configs[v][k].path => j = k
BY PathsAssumption DEF Versions, SinksOf, Buffered

\* A message sent to a writer.
Sent(v, p, m) ==
    /\ queue' \in [Pairs -> Seq(Messages)]
    /\ \A w \in Versions, q \in Paths : w # v \/ q # p => queue'[<<w, q>>] = queue[<<w, q>>]
    /\ writer[<<v, p>>] = "panicked" => queue'[<<v, p>>] = queue[<<v, p>>]
    /\ writer[<<v, p>>] # "panicked" =>
        /\ Len(queue'[<<v, p>>]) = Len(queue[<<v, p>>]) + 1
        /\ \A j \in 1..Len(queue[<<v, p>>]) : queue'[<<v, p>>][j] = queue[<<v, p>>][j]
        /\ queue'[<<v, p>>][Len(queue[<<v, p>>]) + 1] = m

LEMMA SendSends ==
    ASSUME TypeOK, NEW v \in Versions, NEW p \in Paths, NEW m \in Messages, Send(v, p, m)
    PROVE  Sent(v, p, m)
<1> DEFINE s == queue[<<v, p>>]
           r == Append(s, m)
<1>1. queue \in [Pairs -> Seq(Messages)] /\ <<v, p>> \in Pairs
    BY DEF TypeOK, Pairs
<1>2. s \in Seq(Messages) /\ r \in Seq(Messages) /\ Len(r) = Len(s) + 1 /\ r[Len(s) + 1] = m
      /\ \A j \in 1..Len(s) : r[j] = s[j]
    BY <1>1
<1>3. \A w \in Versions, q \in Paths : <<w, q>> \in Pairs /\ (<<w, q>> = <<v, p>> <=> w = v /\ q = p)
    BY DEF Pairs
<1>4. CASE writer[<<v, p>>] = "panicked"
    BY <1>1, <1>4 DEF Send, Sent
<1>5. CASE writer[<<v, p>>] # "panicked"
  <2>1. queue' = [queue EXCEPT ![<<v, p>>] = r]
    BY <1>5 DEF Send
  <2> HIDE DEF r
  <2>2. queue' \in [Pairs -> Seq(Messages)] /\ queue'[<<v, p>>] = r
        /\ \A x \in Pairs : x # <<v, p>> => queue'[x] = queue[x]
    BY <1>1, <1>2, <2>1
  <2> QED BY <1>2, <1>3, <1>5, <2>2 DEF Sent
<1> QED BY <1>4, <1>5

\* A message taken by a writer.
Taken(v, p) ==
    /\ queue' \in [Pairs -> Seq(Messages)]
    /\ \A w \in Versions, q \in Paths : w # v \/ q # p => queue'[<<w, q>>] = queue[<<w, q>>]
    /\ Len(queue[<<v, p>>]) \in Nat \ {0}
    /\ Len(queue'[<<v, p>>]) = Len(queue[<<v, p>>]) - 1
    /\ \A j \in 1..Len(queue[<<v, p>>]) - 1 : queue'[<<v, p>>][j] = queue[<<v, p>>][j + 1]

LEMMA TakeTakes ==
    ASSUME TypeOK, NEW v \in Versions, NEW p \in Paths, TakeMessage(v, p)
    PROVE  Taken(v, p) /\ queue[<<v, p>>][1] \in Messages /\ Head(queue[<<v, p>>]) = queue[<<v, p>>][1]
<1> DEFINE s == queue[<<v, p>>]
           r == Tail(s)
<1>1. queue \in [Pairs -> Seq(Messages)] /\ <<v, p>> \in Pairs
    BY DEF TypeOK, Pairs
<1>2. s \in Seq(Messages) /\ s # <<>>
    BY <1>1 DEF TakeMessage
<1>3. /\ r \in Seq(Messages) /\ Len(r) = Len(s) - 1 /\ Len(s) \in Nat \ {0}
      /\ \A j \in 1..Len(s) - 1 : r[j] = s[j + 1]
      /\ s[1] \in Messages /\ Head(s) = s[1]
    BY <1>2
<1>4. queue' = [queue EXCEPT ![<<v, p>>] = r]
    BY DEF TakeMessage
<1> HIDE DEF r
<1>5. queue' \in [Pairs -> Seq(Messages)] /\ queue'[<<v, p>>] = r
      /\ \A x \in Pairs : x # <<v, p>> => queue'[x] = queue[x]
    BY <1>1, <1>3, <1>4
<1>6. \A w \in Versions, q \in Paths : <<w, q>> \in Pairs /\ (<<w, q>> = <<v, p>> <=> w = v /\ q = p)
    BY DEF Pairs
<1> QED BY <1>3, <1>5, <1>6 DEF Taken

\* The file of a path is opened: one later than those moved away.
Finds(p) ==
    /\ path' \in [Paths -> Files] /\ inodes' \in [Paths -> Files]
    /\ Named(p) = Moved(p) + 1 /\ Named(p) \in Files
    /\ \A q \in Paths : Moved(q)' = Moved(q) /\ (path'[q] # 0 => path'[q] = inodes'[q])

\* A sink has a file from now on.
Has(v, p, i) ==
    /\ inode' \in [Pairs -> Files] /\ inode'[<<v, p>>] = i
    /\ \A w \in Versions, q \in Paths : w # v \/ q # p => inode'[<<w, q>>] = inode[<<w, q>>]

Opens(v, p) == Finds(p) /\ Has(v, p, Moved(p) + 1)

\* A writer opens its file, or fails to.
Tries(v, p) ==
    \/ /\ Opens(v, p)
       /\ failed' = failed \ {<<v, p>>}
       /\ UNCHANGED events
    \/ /\ failed' = failed \cup {<<v, p>>}
       /\ events' \in 0..MaxEvents /\ events <= events'
       /\ UNCHANGED <<inode, path, inodes>>

LEMMA FindFinds ==
    ASSUME TypeOK, Numbers, NEW p \in Paths, OpenFile(p)
    PROVE  Finds(p)
<1>1. /\ path \in [Paths -> Files] /\ inodes \in [Paths -> Files]
      /\ events \in 0..MaxEvents /\ MaxEvents \in Nat /\ Files = 0..MaxEvents + 2
      /\ \A q \in Paths : /\ path[q] # 0 => path[q] = inodes[q]
                          /\ Moved(q) \in Nat /\ Moved(q) <= events
                          /\ inodes[q] \in Nat /\ path[q] \in Nat
    BY BoundsAssumption DEF TypeOK, Numbers, Files
<1>2. CASE path[p] # 0
  <2>1. Named(p) = path[p] /\ path' = [path EXCEPT ![p] = path[p]]
        /\ inodes' = [inodes EXCEPT ![p] = inodes[p]]
    BY <1>2 DEF OpenFile, Named
  <2>2. path' = path /\ inodes' = inodes
    BY <1>1, <2>1
  <2>3. path[p] = Moved(p) + 1
    BY <1>1, <1>2 DEF Moved
  <2>4. \A q \in Paths : Moved(q)' = Moved(q)
    BY <2>2 DEF Moved
  <2> QED BY <1>1, <2>1, <2>2, <2>3, <2>4 DEF Finds
<1>3. CASE path[p] = 0
  <2>1. /\ Named(p) = inodes[p] + 1
        /\ inodes' = [inodes EXCEPT ![p] = inodes[p] + 1]
        /\ path' = [path EXCEPT ![p] = inodes[p] + 1]
    BY <1>3 DEF OpenFile, Named
  <2>2. inodes[p] + 1 \in Files /\ inodes[p] + 1 # 0 /\ Moved(p) = inodes[p]
    BY <1>1, <1>3 DEF Moved
  <2>3. /\ path' \in [Paths -> Files] /\ inodes' \in [Paths -> Files]
        /\ path'[p] = inodes[p] + 1 /\ inodes'[p] = inodes[p] + 1
        /\ \A q \in Paths : q # p => path'[q] = path[q] /\ inodes'[q] = inodes[q]
    BY <1>1, <2>1, <2>2
  <2>4. \A q \in Paths : Moved(q)' = Moved(q) /\ (path'[q] # 0 => path'[q] = inodes'[q])
    BY <1>1, <2>2, <2>3 DEF Moved
  <2> QED BY <2>1, <2>2, <2>3, <2>4 DEF Finds
<1> QED BY <1>2, <1>3

LEMMA HaveHas ==
    ASSUME TypeOK, NEW v \in Versions, NEW p \in Paths, NEW i \in Files,
           inode' = [inode EXCEPT ![<<v, p>>] = i]
    PROVE  Has(v, p, i)
<1>1. inode \in [Pairs -> Files] /\ <<v, p>> \in Pairs
    BY DEF TypeOK, Pairs
<1>2. /\ inode' \in [Pairs -> Files] /\ inode'[<<v, p>>] = i
      /\ \A x \in Pairs : x # <<v, p>> => inode'[x] = inode[x]
    BY <1>1
<1>3. \A w \in Versions, q \in Paths : <<w, q>> \in Pairs /\ (<<w, q>> = <<v, p>> <=> w = v /\ q = p)
    BY DEF Pairs
<1> QED BY <1>2, <1>3 DEF Has

LEMMA OpenOpens ==
    ASSUME TypeOK, Numbers, NEW v \in Versions, NEW p \in Paths, Open(v, p)
    PROVE  Opens(v, p)
<1>1. OpenFile(p) /\ inode' = [inode EXCEPT ![<<v, p>>] = Named(p)]
    BY DEF Open
<1>2. Finds(p)
    BY <1>1, FindFinds
<1>3. Has(v, p, Named(p))
    BY <1>1, <1>2, HaveHas DEF Finds
<1> QED BY <1>2, <1>3 DEF Opens, Finds

LEMMA TryTries ==
    ASSUME TypeOK, Numbers, NEW v \in Versions, NEW p \in Paths, WriterReopens(v, p)
    PROVE  Tries(v, p)
<1>1. CASE Open(v, p) /\ failed' = failed \ {<<v, p>>} /\ UNCHANGED events
    BY <1>1, OpenOpens DEF Tries
<1>2. CASE Event /\ failed' = failed \cup {<<v, p>>} /\ UNCHANGED <<inode, path, inodes>>
  <2>1. events' \in 0..MaxEvents /\ events <= events'
    BY <1>2, BoundsAssumption DEF Event, TypeOK
  <2> QED BY <1>2, <2>1 DEF Tries
<1> QED BY <1>1, <1>2 DEF WriterReopens

LEMMA TryFacts ==
    ASSUME TypeOK, Numbers, NEW v \in Versions, NEW p \in Paths, Tries(v, p)
    PROVE  /\ inode' \in [Pairs -> Files] /\ path' \in [Paths -> Files] /\ inodes' \in [Paths -> Files]
           /\ failed' \subseteq Pairs /\ events' \in 0..MaxEvents /\ events <= events'
           /\ \A q \in Paths : Moved(q)' = Moved(q) /\ (path'[q] # 0 => path'[q] = inodes'[q])
           /\ \A w \in Versions, q \in Paths : w # v \/ q # p =>
                /\ inode'[<<w, q>>] = inode[<<w, q>>]
                /\ <<w, q>> \in failed' <=> <<w, q>> \in failed
           /\ inode'[<<v, p>>] = Moved(p) + 1 \/ <<v, p>> \in failed'
<1>1. /\ inode \in [Pairs -> Files] /\ path \in [Paths -> Files] /\ inodes \in [Paths -> Files]
      /\ failed \subseteq Pairs /\ events \in 0..MaxEvents /\ <<v, p>> \in Pairs
    BY DEF TypeOK, Pairs
<1>2. \A w \in Versions, q \in Paths : <<w, q>> = <<v, p>> <=> w = v /\ q = p
    OBVIOUS
<1>3. CASE Opens(v, p) /\ failed' = failed \ {<<v, p>>} /\ UNCHANGED events
  <2>1. events <= events'
    BY <1>1, <1>3
  <2> QED BY <1>1, <1>2, <1>3, <2>1 DEF Opens, Finds, Has
<1>4. CASE /\ failed' = failed \cup {<<v, p>>}
           /\ events' \in 0..MaxEvents /\ events <= events'
           /\ UNCHANGED <<inode, path, inodes>>
  <2>1. \A q \in Paths : Moved(q)' = Moved(q) /\ (path'[q] # 0 => path'[q] = inodes'[q])
    BY <1>4 DEF Moved, Numbers
  <2> QED BY <1>1, <1>2, <1>4, <2>1
<1> QED BY <1>3, <1>4 DEF Tries

\* A call that goes on: the same but for where it is.
GoesOn(t) ==
    /\ op' \in [Threads -> Ops \cup {Idle}]
    /\ op[t] # Idle /\ op'[t] # Idle
    /\ op'[t].kind = op[t].kind /\ op'[t].version = op[t].version /\ op'[t].line = op[t].line
    /\ op'[t].before = op[t].before
    /\ \A u \in Threads : u # t => op'[u] = op[u]

Advances(t) == GoesOn(t) /\ op'[t].at = op[t].at + 1 /\ op'[t].waiting = op[t].waiting

LEMMA AdvanceAdvances ==
    ASSUME TypeOK, NEW t \in Threads, op[t] # Idle, Advance(t)
    PROVE  Advances(t)
<1> DEFINE c == [op[t] EXCEPT !.at = @ + 1]
<1>1. op[t] \in Ops /\ op' = [op EXCEPT ![t] = c] /\ op[t].at + 1 \in Nat \ {0}
    BY OpFacts DEF Advance
<1>2. c \in Ops
    BY <1>1 DEF Ops
<1>3. /\ c.kind = op[t].kind /\ c.version = op[t].version /\ c.line = op[t].line
      /\ c.before = op[t].before /\ c.at = op[t].at + 1 /\ c.waiting = op[t].waiting
    BY <1>1 DEF Ops
<1> HIDE DEF c
<1>4. op'[t] = c /\ op' \in [Threads -> Ops \cup {Idle}] /\ \A u \in Threads : u # t => op'[u] = op[u]
    BY <1>1, <1>2 DEF TypeOK
<1> QED BY <1>2, <1>3, <1>4, OpIsNotIdle DEF Advances, GoesOn

\* A call begins; another reopen may be marked as disturbed.
Begins(t, kind, n) ==
    /\ op' \in [Threads -> Ops \cup {Idle}]
    /\ op[t] = Idle /\ op'[t] # Idle
    /\ op'[t].kind = kind /\ op'[t].version = cur /\ op'[t].line = n /\ op'[t].at = 1 /\ ~op'[t].waiting
    /\ \A p \in Paths : op'[t].before[p] = IF kind = "reopen" THEN Moved(p) ELSE 0
    /\ \A u \in Threads : u # t => op'[u] = op[u]

LEMMA CallBegins ==
    ASSUME TypeOK, Numbers, NEW t \in Threads, op[t] = Idle, NEW kind \in {"log", "flush", "reopen"},
           NEW n \in Lines \cup {0}, Call(t, kind, n)
    PROVE  Begins(t, kind, n)
<1> DEFINE b == [p \in Paths |-> IF kind # "reopen" THEN 0
                            ELSE IF path[p] = 0 THEN inodes[p] ELSE path[p] - 1]
           cv == IF kind = "flush" THEN {m \in 1..lines : Done(m)} ELSE {}
           c == [kind |-> kind, version |-> cur, at |-> 1, line |-> n, waiting |-> FALSE,
                 covers |-> cv, before |-> b]
<1>1. op' = [op EXCEPT ![t] = c]
    BY DEF Call
<1>2. \A p \in Paths : b[p] = (IF kind = "reopen" THEN Moved(p) ELSE 0) /\ b[p] \in Nat
  <2> TAKE p \in Paths
  <2>1. (path[p] # 0 => path[p] = inodes[p]) /\ Moved(p) \in Nat
    BY DEF Numbers
  <2>2. CASE kind # "reopen"
    BY <2>2
  <2>3. CASE kind = "reopen" /\ path[p] = 0
    BY <2>1, <2>3 DEF Moved
  <2>4. CASE kind = "reopen" /\ path[p] # 0
    BY <2>1, <2>4 DEF Moved
  <2> QED BY <2>2, <2>3, <2>4
<1>3. b \in [Paths -> Nat]
    BY <1>2
<1>4. cv \in SUBSET Lines
  <2>1. 1..lines \subseteq Lines
    BY BoundsAssumption DEF TypeOK, Lines
  <2> QED BY <2>1
<1> HIDE DEF b, cv
<1>6. c \in Ops
    BY <1>3, <1>4 DEF Ops, TypeOK
<1>7. c.kind = kind /\ c.version = cur /\ c.line = n /\ c.at = 1 /\ c.waiting = FALSE /\ c.before = b
    OBVIOUS
<1> HIDE DEF c
<1>8. op' \in [Threads -> Ops \cup {Idle}] /\ op'[t] = c /\ \A u \in Threads : u # t => op'[u] = op[u]
    BY <1>1, <1>6 DEF TypeOK
<1>9. c # Idle
    BY <1>6, OpIsNotIdle
<1> QED BY <1>2, <1>7, <1>8, <1>9 DEF Begins

LEMMA FlushWaits ==
    ASSUME TypeOK, NEW t \in Threads, op[t] # Idle, op' = [op EXCEPT ![t].waiting = TRUE]
    PROVE  GoesOn(t) /\ op'[t].at = op[t].at /\ op'[t].waiting
<1> DEFINE c == [op[t] EXCEPT !.waiting = TRUE]
<1>1. op[t] \in Ops /\ op' = [op EXCEPT ![t] = c]
    BY OpFacts
<1>2. c \in Ops
    BY <1>1 DEF Ops
<1>3. /\ c.kind = op[t].kind /\ c.version = op[t].version /\ c.line = op[t].line
      /\ c.before = op[t].before /\ c.at = op[t].at /\ c.waiting = TRUE
    BY <1>1 DEF Ops
<1> HIDE DEF c
<1>4. op'[t] = c /\ op' \in [Threads -> Ops \cup {Idle}] /\ \A u \in Threads : u # t => op'[u] = op[u]
  <2>1. op \in [Threads -> Ops \cup {Idle}]
    BY DEF TypeOK
  <2> QED BY <1>1, <1>2, <2>1
<1> QED BY <1>2, <1>3, <1>4, OpIsNotIdle DEF GoesOn

Answered(t) == op' = [op EXCEPT ![t].waiting = FALSE, ![t].at = @ + 1]

LEMMA FlushReturns ==
    ASSUME TypeOK, NEW t \in Threads, op[t] # Idle, Answered(t)
    PROVE  GoesOn(t) /\ op'[t].at = op[t].at + 1 /\ ~op'[t].waiting
<1> DEFINE c == [op[t] EXCEPT !.waiting = FALSE, !.at = @ + 1]
<1>1. op[t] \in Ops /\ op' = [op EXCEPT ![t] = c] /\ op[t].at + 1 \in Nat \ {0}
  <2>1. op' = [op EXCEPT ![t] = c]
    BY DEF Answered
  <2> QED BY <2>1, OpFacts
<1>2. c \in Ops
    BY <1>1 DEF Ops
<1>3. /\ c.kind = op[t].kind /\ c.version = op[t].version /\ c.line = op[t].line
      /\ c.before = op[t].before /\ c.at = op[t].at + 1 /\ c.waiting = FALSE
    BY <1>1 DEF Ops
<1> HIDE DEF c
<1>4. op'[t] = c /\ op' \in [Threads -> Ops \cup {Idle}] /\ \A u \in Threads : u # t => op'[u] = op[u]
  <2>1. op \in [Threads -> Ops \cup {Idle}]
    BY DEF TypeOK
  <2> QED BY <1>1, <1>2, <2>1
<1> QED BY <1>2, <1>3, <1>4, OpIsNotIdle DEF GoesOn

\* A call is over.
Ends(t) ==
    /\ op' \in [Threads -> Ops \cup {Idle}]
    /\ op[t] # Idle /\ op'[t] = Idle
    /\ \A u \in Threads : u # t => op'[u] = op[u]

LEMMA IdleEnds ==
    ASSUME TypeOK, NEW t \in Threads, op[t] # Idle, op' = [op EXCEPT ![t] = Idle]
    PROVE  Ends(t)
BY DEF TypeOK, Ends

\* Lines are added to a file, or to the buffer of a writer.
Adds(p, i, new) ==
    /\ content' \in [Paths \X Files -> SUBSET Lines]
    /\ \A q \in Paths, j \in Files :
        content'[<<q, j>>] = IF q = p /\ j = i THEN content[<<q, j>>] \cup new ELSE content[<<q, j>>]

LEMMA AddAdds ==
    ASSUME TypeOK, NEW p \in Paths, NEW i \in Files, NEW new \in SUBSET Lines,
           content' = [content EXCEPT ![<<p, i>>] = @ \cup new]
    PROVE  Adds(p, i, new)
<1>1. content \in [Paths \X Files -> SUBSET Lines] /\ <<p, i>> \in Paths \X Files
    BY DEF TypeOK
<1>2. content[<<p, i>>] \cup new \in SUBSET Lines
    BY <1>1
<1>3. /\ content' \in [Paths \X Files -> SUBSET Lines]
      /\ content'[<<p, i>>] = content[<<p, i>>] \cup new
      /\ \A x \in Paths \X Files : x # <<p, i>> => content'[x] = content[x]
    BY <1>1, <1>2
<1>4. \A q \in Paths, j \in Files : <<q, j>> \in Paths \X Files /\ (<<q, j>> = <<p, i>> <=> q = p /\ j = i)
    OBVIOUS
<1> QED BY <1>3, <1>4 DEF Adds

Puts(v, p, new) ==
    /\ buf' \in [Pairs -> SUBSET Lines]
    /\ \A w \in Versions, q \in Paths :
        buf'[<<w, q>>] = IF w = v /\ q = p THEN new ELSE buf[<<w, q>>]

LEMMA PutPuts ==
    ASSUME TypeOK, NEW v \in Versions, NEW p \in Paths, NEW new \in SUBSET Lines,
           buf' = [buf EXCEPT ![<<v, p>>] = new]
    PROVE  Puts(v, p, new)
<1>1. buf \in [Pairs -> SUBSET Lines] /\ <<v, p>> \in Pairs
    BY DEF TypeOK, Pairs
<1>2. /\ buf' \in [Pairs -> SUBSET Lines] /\ buf'[<<v, p>>] = new
      /\ \A x \in Pairs : x # <<v, p>> => buf'[x] = buf[x]
    BY <1>1
<1>3. \A w \in Versions, q \in Paths : <<w, q>> \in Pairs /\ (<<w, q>> = <<v, p>> <=> w = v /\ q = p)
    BY DEF Pairs
<1> QED BY <1>2, <1>3 DEF Puts

\* A writer thread changes state.
Becomes(v, p, s) ==
    /\ writer' \in [Pairs -> {"none", "start", "run", "panicked", "done"}]
    /\ writer'[<<v, p>>] = s
    /\ \A w \in Versions, q \in Paths : w # v \/ q # p => writer'[<<w, q>>] = writer[<<w, q>>]

LEMMA WriterBecomes ==
    ASSUME TypeOK, NEW v \in Versions, NEW p \in Paths,
           NEW s \in {"none", "start", "run", "panicked", "done"},
           writer' = [writer EXCEPT ![<<v, p>>] = s]
    PROVE  Becomes(v, p, s)
<1>1. writer \in [Pairs -> {"none", "start", "run", "panicked", "done"}] /\ <<v, p>> \in Pairs
    BY DEF TypeOK, Pairs
<1>2. /\ writer' \in [Pairs -> {"none", "start", "run", "panicked", "done"}] /\ writer'[<<v, p>>] = s
      /\ \A x \in Pairs : x # <<v, p>> => writer'[x] = writer[x]
    BY <1>1
<1>3. \A w \in Versions, q \in Paths : <<w, q>> \in Pairs /\ (<<w, q>> = <<v, p>> <=> w = v /\ q = p)
    BY DEF Pairs
<1> QED BY <1>2, <1>3 DEF Becomes

-----------------------------------------------------------------------------
\* The steps, one by one, by what they do.
Builds(v, k, p) ==
    /\ v = setup.version /\ v \in Versions /\ k = setup.at /\ k \in 1..Len(Configs[v])
    /\ p = Configs[v][k].path /\ p \in Paths
    /\ \/ /\ p \in Buffered(v) /\ Becomes(v, p, "start") /\ Sent(v, p, [kind |-> "reopen"])
          /\ known' \in [Pairs -> Nat]
          /\ UNCHANGED <<inode, path, inodes>>
       \/ p \notin Buffered(v) /\ Opens(v, p) /\ UNCHANGED <<writer, known, queue>>
    /\ setup' = [version |-> v, at |-> k + 1]
    /\ UNCHANGED <<cur, built, op, opened, buf, failed, archives, content, counts, ghosts>>

LEMMA BuildBuilds ==
    ASSUME TypeOK, Numbers, BuildSink
    PROVE  \E v \in Versions, p \in Paths : \E k \in 1..Len(Configs[v]) : Builds(v, k, p)
<1> DEFINE v == setup.version
           k == setup.at
           p == Configs[v][k].path
<1>1. v \in Versions /\ k \in 1..Len(Configs[v]) /\ setup = [version |-> v, at |-> k]
    BY Bounds DEF BuildSink, TypeOK
<1>2. p \in Paths
    BY <1>1, Bounds
<1>3. setup' = [version |-> v, at |-> k + 1]
    BY <1>1 DEF BuildSink
<1>4. UNCHANGED <<cur, built, op, opened, buf, failed, archives, content, counts, ghosts>>
    BY DEF BuildSink
<1>5. CASE p \in Buffered(v)
  <2>1. /\ writer' = [writer EXCEPT ![<<v, p>>] = "start"]
        /\ known' = [known EXCEPT ![<<v, p>>] = archives[p]]
        /\ Send(v, p, [kind |-> "reopen"])
        /\ UNCHANGED <<inode, path, inodes>>
    BY <1>5 DEF BuildSink
  <2>2. Becomes(v, p, "start")
    BY <1>1, <1>2, <2>1, WriterBecomes
  <2>3. [kind |-> "reopen"] \in Messages
    BY DEF Messages
  <2>4. Sent(v, p, [kind |-> "reopen"])
    BY <1>1, <1>2, <2>1, <2>3, SendSends
  <2>5. known' \in [Pairs -> Nat]
    BY <1>2, <2>1 DEF TypeOK, Pairs
  <2> QED BY <1>1, <1>2, <1>3, <1>4, <1>5, <2>1, <2>2, <2>4, <2>5 DEF Builds
<1>6. CASE p \notin Buffered(v)
  <2>1. Open(v, p) /\ UNCHANGED <<writer, known, queue>>
    BY <1>6 DEF BuildSink
  <2> QED BY <1>1, <1>2, <1>3, <1>4, <1>6, <2>1, OpenOpens DEF Builds
<1> QED BY <1>5, <1>6

\* A call is at a sink.
At(t, kind, v, k, p) ==
    /\ op[t] # Idle /\ op[t].kind = kind /\ ~op[t].waiting
    /\ v = op[t].version /\ v \in Versions /\ k = op[t].at /\ k \in 1..Len(Configs[v])
    /\ p = Configs[v][k].path /\ p \in Paths /\ p \in SinksOf(v)

LEMMA AtSinkAt ==
    ASSUME TypeOK, NEW t \in Threads, NEW kind, AtSink(t, kind)
    PROVE  \E v \in Versions, p \in Paths : \E k \in 1..Len(Configs[v]) :
             At(t, kind, v, k, p) /\ ListOf(t) = v /\ Sink(t) = Configs[v][k]
<1> DEFINE v == op[t].version
           k == op[t].at
<1>1. op[t] # Idle /\ op[t].kind = kind /\ ~op[t].waiting /\ k <= Len(Configs[v])
    BY DEF AtSink, ListOf
<1>2. v \in Versions /\ k \in 1..Len(Configs[v])
    BY <1>1, OpFacts, Bounds
<1>3. Configs[v][k].path \in Paths /\ Configs[v][k].path \in SinksOf(v)
    BY <1>2, Bounds, SinkKinds
<1>4. ListOf(t) = v /\ Sink(t) = Configs[v][k]
    BY DEF ListOf, Sink
<1> QED BY <1>1, <1>2, <1>3, <1>4 DEF At

LogsTo(t, v, k, p) ==
    /\ At(t, "log", v, k, p) /\ op[t].line \in Lines /\ Advances(t)
    /\ \/ p \notin Buffered(v) /\ Adds(p, inode[<<v, p>>], {op[t].line}) /\ UNCHANGED queue
       \/ p \in Buffered(v) /\ Sent(v, p, [kind |-> "line", line |-> op[t].line]) /\ UNCHANGED content
    /\ UNCHANGED <<global, buf, writer, inode, known, failed, path, inodes, archives, counts, ghosts>>

LEMMA LogSinkLogs ==
    ASSUME TypeOK, Loggers, NEW t \in Threads, LogSink(t)
    PROVE  \E v \in Versions, p \in Paths : \E k \in 1..Len(Configs[v]) : LogsTo(t, v, k, p)
<1>0. AtSink(t, "log")
    BY DEF LogSink
<1>1. PICK v \in Versions, p \in Paths : \E k \in 1..Len(Configs[v]) :
             At(t, "log", v, k, p) /\ ListOf(t) = v /\ Sink(t) = Configs[v][k]
    BY <1>0, AtSinkAt
<1>2. PICK k \in 1..Len(Configs[v]) : At(t, "log", v, k, p) /\ ListOf(t) = v /\ Sink(t) = Configs[v][k]
    BY <1>1
<1>3. op[t] # Idle /\ op[t].kind = "log" /\ p = Configs[v][k].path
    BY <1>2 DEF At
<1>4. op[t].line \in Lines
    BY <1>3, OpFacts DEF Loggers
<1>5. Advances(t)
    BY <1>3, AdvanceAdvances DEF LogSink
<1>6. UNCHANGED <<global, buf, writer, inode, known, failed, path, inodes, archives, counts, ghosts>>
    BY DEF LogSink
<1>7. CASE Configs[v][k].kind = "raw"
  <2>1. content' = [content EXCEPT ![<<p, inode[<<v, p>>]>>] = @ \cup {op[t].line}] /\ UNCHANGED queue
    BY <1>2, <1>3, <1>7 DEF LogSink
  <2>2. inode[<<v, p>>] \in Files
    BY DEF TypeOK
  <2>3. Adds(p, inode[<<v, p>>], {op[t].line})
    BY <1>4, <2>1, <2>2, AddAdds
  <2>4. p \notin Buffered(v)
    BY <1>3, <1>7, SinkKinds
  <2> QED BY <1>2, <1>4, <1>5, <1>6, <2>1, <2>3, <2>4 DEF LogsTo
<1>8. CASE Configs[v][k].kind # "raw"
  <2>1. Send(v, p, [kind |-> "line", line |-> op[t].line]) /\ UNCHANGED content
    BY <1>2, <1>3, <1>8 DEF LogSink
  <2>2. [kind |-> "line", line |-> op[t].line] \in Messages
    BY <1>4 DEF Messages
  <2>3. Sent(v, p, [kind |-> "line", line |-> op[t].line])
    BY <2>1, <2>2, SendSends
  <2>4. p \in Buffered(v)
    BY <1>3, <1>8, SinkKinds, Bounds
  <2> QED BY <1>2, <1>4, <1>5, <1>6, <2>1, <2>3, <2>4 DEF LogsTo
<1> QED BY <1>7, <1>8

Flushes(t, v, k, p) ==
    /\ At(t, "flush", v, k, p)
    /\ \/ Advances(t) /\ UNCHANGED queue
       \/ /\ GoesOn(t) /\ op'[t].at = op[t].at /\ op'[t].waiting
          /\ writer[<<v, p>>] # "panicked" /\ Sent(v, p, [kind |-> "flush", caller |-> t])
    /\ UNCHANGED <<global, buf, writer, inode, known, failed, disk, counts, ghosts>>

LEMMA FlushSinkFlushes ==
    ASSUME TypeOK, NEW t \in Threads, FlushSink(t)
    PROVE  \E v \in Versions, p \in Paths : \E k \in 1..Len(Configs[v]) : Flushes(t, v, k, p)
<1>0. AtSink(t, "flush")
    BY DEF FlushSink
<1>1. PICK v \in Versions, p \in Paths : \E k \in 1..Len(Configs[v]) :
             At(t, "flush", v, k, p) /\ ListOf(t) = v /\ Sink(t) = Configs[v][k]
    BY <1>0, AtSinkAt
<1>2. PICK k \in 1..Len(Configs[v]) : At(t, "flush", v, k, p) /\ ListOf(t) = v /\ Sink(t) = Configs[v][k]
    BY <1>1
<1>3. op[t] # Idle /\ p = Configs[v][k].path
    BY <1>2 DEF At
<1>4. UNCHANGED <<global, buf, writer, inode, known, failed, disk, counts, ghosts>>
    BY DEF FlushSink
<1>5. CASE Configs[v][k].kind = "raw" \/ writer[<<v, p>>] = "panicked"
  <2>1. Advance(t) /\ UNCHANGED queue
    BY <1>2, <1>3, <1>5 DEF FlushSink
  <2> QED BY <1>2, <1>3, <1>4, <2>1, AdvanceAdvances DEF Flushes
<1>6. CASE ~(Configs[v][k].kind = "raw" \/ writer[<<v, p>>] = "panicked")
  <2>1. Send(v, p, [kind |-> "flush", caller |-> t]) /\ op' = [op EXCEPT ![t].waiting = TRUE]
    BY <1>2, <1>3, <1>6 DEF FlushSink
  <2>2. [kind |-> "flush", caller |-> t] \in Messages
    BY DEF Messages
  <2>3. Sent(v, p, [kind |-> "flush", caller |-> t])
    BY <2>1, <2>2, SendSends
  <2>4. GoesOn(t) /\ op'[t].at = op[t].at /\ op'[t].waiting
    BY <1>3, <2>1, FlushWaits
  <2> QED BY <1>2, <1>4, <1>6, <2>3, <2>4 DEF Flushes
<1> QED BY <1>5, <1>6

\* A reopen at a buffered sink, and the two steps of one at a raw sink.
Reopens(t, v, k, p) ==
    /\ At(t, "reopen", v, k, p) /\ Advances(t)
    /\ p \in Buffered(v) /\ Sent(v, p, [kind |-> "reopen"])
    /\ UNCHANGED <<global, buf, writer, inode, known, failed, disk, counts, ghosts>>

OpensRaw(t, v, k, p) ==
    /\ At(t, "reopen", v, k, p) /\ p \notin Buffered(v)
    /\ Finds(p)
    /\ opened' \in [Threads -> Files] /\ opened'[t] = Moved(p) + 1
    /\ \A u \in Threads : u # t => opened'[u] = opened[u]
    /\ UNCHANGED <<cur, setup, built, op, sinks, archives, content, counts, ghosts>>

Stores(t, v, k, p) ==
    /\ At(t, "reopen", v, k, p) /\ Advances(t)
    /\ opened[t] # 0 /\ Has(v, p, opened[t])
    /\ opened' \in [Threads -> Files] /\ opened'[t] = 0
    /\ \A u \in Threads : u # t => opened'[u] = opened[u]
    /\ UNCHANGED <<cur, setup, built, queue, buf, writer, known, failed, disk, counts, ghosts>>

LEMMA ReopenSinkReopens ==
    ASSUME TypeOK, Numbers, NEW t \in Threads, ReopenSink(t) \/ OpenRaw(t) \/ StoreRaw(t)
    PROVE  \E v \in Versions, p \in Paths : \E k \in 1..Len(Configs[v]) :
             Reopens(t, v, k, p) \/ OpensRaw(t, v, k, p) \/ Stores(t, v, k, p)
<1>0. AtSink(t, "reopen")
    BY DEF ReopenSink, OpenRaw, StoreRaw
<1>1. PICK v \in Versions, p \in Paths : \E k \in 1..Len(Configs[v]) :
             At(t, "reopen", v, k, p) /\ ListOf(t) = v /\ Sink(t) = Configs[v][k]
    BY <1>0, AtSinkAt
<1>2. PICK k \in 1..Len(Configs[v]) : At(t, "reopen", v, k, p) /\ ListOf(t) = v /\ Sink(t) = Configs[v][k]
    BY <1>1
<1>3. op[t] # Idle /\ p = Configs[v][k].path
    BY <1>2 DEF At
<1>4. opened \in [Threads -> Files]
    BY DEF TypeOK
<1>5. CASE ReopenSink(t)
  <2>1. /\ Send(v, p, [kind |-> "reopen"]) /\ Configs[v][k].kind = "buf" /\ Advance(t)
        /\ UNCHANGED <<global, buf, writer, inode, known, failed, disk, counts, ghosts>>
    BY <1>2, <1>3, <1>5 DEF ReopenSink
  <2>2. [kind |-> "reopen"] \in Messages
    BY DEF Messages
  <2>3. p \in Buffered(v)
    BY <1>3, <2>1, SinkKinds
  <2>4. Advances(t)
    BY <1>3, <2>1, AdvanceAdvances
  <2> QED BY <1>2, <2>1, <2>2, <2>3, <2>4, SendSends DEF Reopens
<1>6. CASE OpenRaw(t)
  <2>1. /\ OpenFile(p) /\ opened' = [opened EXCEPT ![t] = Named(p)] /\ Configs[v][k].kind = "raw"
        /\ UNCHANGED <<cur, setup, built, op, sinks, archives, content, counts, ghosts>>
    BY <1>2, <1>3, <1>6 DEF OpenRaw
  <2>2. Finds(p)
    BY <2>1, FindFinds
  <2>3. /\ opened' \in [Threads -> Files] /\ opened'[t] = Moved(p) + 1
        /\ \A u \in Threads : u # t => opened'[u] = opened[u]
    BY <1>4, <2>1, <2>2 DEF Finds
  <2>4. p \notin Buffered(v)
    BY <1>3, <2>1, SinkKinds
  <2> QED BY <1>2, <2>1, <2>2, <2>3, <2>4 DEF OpensRaw
<1>7. CASE StoreRaw(t)
  <2>1. /\ inode' = [inode EXCEPT ![<<v, p>>] = opened[t]] /\ opened[t] # 0
        /\ opened' = [opened EXCEPT ![t] = 0] /\ Advance(t)
        /\ UNCHANGED <<cur, setup, built, queue, buf, writer, known, failed, disk, counts, ghosts>>
    BY <1>2, <1>3, <1>7 DEF StoreRaw
  <2>2. Has(v, p, opened[t])
    BY <1>4, <2>1, HaveHas
  <2>3. 0 \in Files
    BY BoundsAssumption DEF Files
  <2>4. /\ opened' \in [Threads -> Files] /\ opened'[t] = 0
        /\ \A u \in Threads : u # t => opened'[u] = opened[u]
    BY <1>4, <2>1, <2>3
  <2>5. Advances(t)
    BY <1>3, <2>1, AdvanceAdvances
  <2> QED BY <1>2, <2>1, <2>2, <2>4, <2>5 DEF Stores
<1> QED BY <1>5, <1>6, <1>7

\* The buffer of a writer goes to its file, if it has one.
Emptied(v, p) == \/ Adds(p, inode[<<v, p>>], buf[<<v, p>>]) /\ Puts(v, p, {})
                 \/ UNCHANGED <<buf, content>>

LEMMA WriteOutWrites ==
    ASSUME TypeOK, NEW v \in Versions, NEW p \in Paths, WriteOut(v, p)
    PROVE  Emptied(v, p)
<1>1. buf[<<v, p>>] \in SUBSET Lines /\ inode[<<v, p>>] \in Files
    BY DEF TypeOK
<1>2. CASE inode[<<v, p>>] = 0
    BY <1>2 DEF WriteOut, Emptied
<1>3. CASE inode[<<v, p>>] # 0
  <2>1. /\ content' = [content EXCEPT ![<<p, inode[<<v, p>>]>>] = @ \cup buf[<<v, p>>]]
        /\ buf' = [buf EXCEPT ![<<v, p>>] = {}]
    BY <1>3 DEF WriteOut
  <2>2. Adds(p, inode[<<v, p>>], buf[<<v, p>>])
    BY <1>1, <2>1, AddAdds
  <2>3. Puts(v, p, {})
    BY <2>1, PutPuts
  <2> QED BY <2>2, <2>3 DEF Emptied
<1> QED BY <1>2, <1>3

\* A writer takes a line, a reopen or a flush.
TakesLine(v, p, n) ==
    /\ Running(v, p) /\ Taken(v, p) /\ LineAt(v, p, 1, n) /\ n \in Lines
    /\ Puts(v, p, buf[<<v, p>>] \cup {n})
    /\ UNCHANGED <<op, inode, failed, path, inodes, content>>
    /\ UNCHANGED <<global, writer, known, archives, counts, ghosts>>

TakesReopen(v, p) ==
    /\ Running(v, p) /\ Taken(v, p) /\ ReopenAt(v, p, 1)
    /\ Tries(v, p)
    /\ UNCHANGED <<op, buf, content>>
    /\ UNCHANGED <<global, writer, known, archives, lines, calls, ghosts>>

TakesFlush(v, p, t) ==
    /\ Running(v, p) /\ Taken(v, p) /\ FlushAt(v, p, 1, t)
    /\ Emptied(v, p)
    /\ Waiting(t) /\ GoesOn(t) /\ op'[t].at = op[t].at + 1 /\ ~op'[t].waiting
    /\ UNCHANGED <<inode, failed, path, inodes>>
    /\ UNCHANGED <<global, writer, known, archives, counts, ghosts>>

LEMMA TakeSteps ==
    ASSUME TypeOK, Numbers, Awaited, NEW v \in Versions, NEW p \in Paths, TakeMessage(v, p)
    PROVE  \/ \E n \in Lines : TakesLine(v, p, n)
           \/ TakesReopen(v, p)
           \/ \E t \in Threads : TakesFlush(v, p, t)
<1> DEFINE m == Head(queue[<<v, p>>])
<1>1. Taken(v, p) /\ m \in Messages /\ m = queue[<<v, p>>][1]
    BY TakeTakes
<1>2. /\ Running(v, p) /\ UNCHANGED <<global, writer, known, archives, lines, calls, ghosts>>
      /\ \/ /\ m.kind = "line"
            /\ buf' = [buf EXCEPT ![<<v, p>>] = @ \cup {m.line}]
            /\ UNCHANGED <<op, inode, failed, path, inodes, content, events>>
         \/ /\ m.kind = "reopen"
            /\ WriterReopens(v, p)
            /\ UNCHANGED <<op, buf, content>>
         \/ /\ m.kind = "flush"
            /\ WriteOut(v, p)
            /\ Answered(m.caller)
            /\ UNCHANGED <<inode, failed, path, inodes, events>>
    BY DEF TakeMessage, Answered
<1> HIDE DEF m
<1>3. 1 \in 1..Len(queue[<<v, p>>])
    BY <1>1 DEF Taken
<1>4. buf[<<v, p>>] \in SUBSET Lines /\ inode[<<v, p>>] \in Files
    BY DEF TypeOK
<1>5. CASE m.kind = "line"
  <2>1. /\ buf' = [buf EXCEPT ![<<v, p>>] = @ \cup {m.line}]
        /\ UNCHANGED <<op, inode, failed, path, inodes, content, events>>
    BY <1>2, <1>5
  <2>2. m.line \in Lines /\ LineAt(v, p, 1, m.line)
    BY <1>1, <1>3, <1>5, MessageFacts DEF LineAt
  <2>3. Puts(v, p, buf[<<v, p>>] \cup {m.line})
    BY <1>4, <2>1, <2>2, PutPuts
  <2> QED BY <1>1, <1>2, <2>1, <2>2, <2>3 DEF TakesLine, counts
<1>6. CASE m.kind = "reopen"
  <2>1. WriterReopens(v, p) /\ UNCHANGED <<op, buf, content>>
    BY <1>2, <1>6
  <2>2. ReopenAt(v, p, 1)
    BY <1>1, <1>3, <1>6 DEF ReopenAt
  <2> QED BY <1>1, <1>2, <2>1, <2>2, TryTries DEF TakesReopen
<1>7. CASE m.kind = "flush"
  <2>1. WriteOut(v, p) /\ Answered(m.caller) /\ UNCHANGED <<inode, failed, path, inodes, events>>
    BY <1>2, <1>7
  <2>2. m.caller \in Threads /\ FlushAt(v, p, 1, m.caller)
    BY <1>1, <1>3, <1>7, MessageFacts DEF FlushAt
  <2>3. Waiting(m.caller)
    BY <2>2 DEF Awaited
  <2>4. GoesOn(m.caller) /\ op'[m.caller].at = op[m.caller].at + 1 /\ ~op'[m.caller].waiting
    BY <2>1, <2>2, <2>3, FlushReturns DEF Waiting
  <2> QED BY <1>1, <1>2, <2>1, <2>2, <2>3, <2>4, WriteOutWrites DEF TakesFlush, counts
<1> QED BY <1>1, <1>5, <1>6, <1>7, MessageFacts

\* A writer empties its buffer, at a flush or for the last time.
Empties(v, p) ==
    /\ Emptied(v, p)
    /\ UNCHANGED writer \/ (writer[<<v, p>>] = "run" /\ Becomes(v, p, "done"))
    /\ UNCHANGED <<global, op, queue, inode, known, failed, path, inodes, archives, counts, ghosts>>

LEMMA EmptySteps ==
    ASSUME TypeOK, NEW v \in Versions, NEW p \in Paths, FlushBuffer(v, p) \/ WriterEnds(v, p)
    PROVE  Empties(v, p)
<1>1. /\ WriteOut(v, p)
      /\ UNCHANGED <<global, op, queue, inode, known, failed, path, inodes, archives, counts, ghosts>>
    BY DEF FlushBuffer, WriterEnds
<1>2. UNCHANGED writer \/ (writer[<<v, p>>] = "run" /\ Becomes(v, p, "done"))
    BY WriterBecomes DEF FlushBuffer, WriterEnds, Running
<1> QED BY <1>1, <1>2, WriteOutWrites DEF Empties

\* A call for a record begins; a flush or a reopen begins; a call ends.
StartsLog(t, n) ==
    /\ n \in Lines /\ n = lines + 1 /\ Begins(t, "log", n)
    /\ lines' = n
    /\ went' \in [Lines -> Versions \cup {0}] /\ went'[n] = cur
    /\ \A m \in Lines : m # n => went'[m] = went[m]
    /\ avoid' \in [Lines -> [Paths -> Nat]] /\ avoid'[n] = retired
    /\ \A m \in Lines : m # n => avoid'[m] = avoid[m]
    /\ UNCHANGED <<global, sinks, disk, calls, events, retired, alone>>

StartsOther(t) ==
    /\ \/ Begins(t, "flush", 0) /\ UNCHANGED alone
       \/ /\ Begins(t, "reopen", 0)
          /\ alone' = IF Reopeners = {} THEN alone \cup {t} ELSE alone \ (Reopeners \cup {t})
    /\ calls' \in 0..MaxCalls
    /\ UNCHANGED <<global, sinks, disk, lines, events, went, retired, avoid>>

Gives(t) ==
    /\ Ends(t) /\ op[t].kind = "reopen" /\ opened[t] = 0
    /\ events' \in 0..MaxEvents /\ events <= events'
    /\ UNCHANGED <<global, sinks, disk, lines, calls, ghosts>>

Returns(t) ==
    /\ Ends(t) /\ op[t].at \in Nat /\ op[t].version \in Versions
    /\ \A k \in 1..Len(Configs[op[t].version]) : k < op[t].at
    /\ retired' \in [Paths -> Nat]
    /\ \A p \in Paths : retired'[p] # retired[p] =>
        retired'[p] = op[t].before[p] /\ Holds(t, p)
    /\ UNCHANGED <<global, sinks, disk, counts, went, avoid, alone>>

LEMMA StartLogStarts ==
    ASSUME TypeOK, Numbers, NEW t \in Threads, StartLog(t)
    PROVE  \E n \in Lines : StartsLog(t, n)
<1> DEFINE n == lines + 1
<1>1. n \in Lines /\ lines \in Nat
    BY BoundsAssumption DEF StartLog, TypeOK, Lines
<1>2. Begins(t, "log", n)
    BY <1>1, CallBegins DEF StartLog
<1>3. /\ lines' = n /\ went' = [went EXCEPT ![n] = cur] /\ avoid' = [avoid EXCEPT ![n] = retired]
      /\ UNCHANGED <<global, sinks, disk, calls, events, retired, alone>>
    BY DEF StartLog
<1>4. /\ went \in [Lines -> Versions \cup {0}] /\ cur \in Versions
      /\ avoid \in [Lines -> [Paths -> Nat]] /\ retired \in [Paths -> Nat]
    BY DEF TypeOK
<1> HIDE DEF n
<1>5. /\ went' \in [Lines -> Versions \cup {0}] /\ went'[n] = cur
      /\ \A m \in Lines : m # n => went'[m] = went[m]
    BY <1>1, <1>3, <1>4
<1>6. /\ avoid' \in [Lines -> [Paths -> Nat]] /\ avoid'[n] = retired
      /\ \A m \in Lines : m # n => avoid'[m] = avoid[m]
    BY <1>1, <1>3, <1>4
<1> QED BY <1>1, <1>2, <1>3, <1>5, <1>6 DEF StartsLog, n

LEMMA StartOtherStarts ==
    ASSUME TypeOK, Numbers, NEW t \in Threads, StartOther(t)
    PROVE  StartsOther(t)
<1>1. \A kind \in {"flush", "reopen"} : Call(t, kind, 0) => Begins(t, kind, 0)
    BY CallBegins DEF StartOther
<1>2. /\ \/ Begins(t, "flush", 0) /\ UNCHANGED alone
         \/ /\ Begins(t, "reopen", 0)
            /\ alone' = IF Reopeners = {} THEN alone \cup {t} ELSE alone \ (Reopeners \cup {t})
      /\ UNCHANGED <<global, sinks, disk, lines, events, went, retired, avoid>>
    BY <1>1 DEF StartOther
<1>3. calls' \in 0..MaxCalls
    BY BoundsAssumption DEF StartOther, TypeOK
<1> QED BY <1>2, <1>3 DEF StartsOther

LEMMA ReopenFailsGives ==
    ASSUME TypeOK, NEW t \in Threads, ReopenFails(t)
    PROVE  Gives(t)
<1>1. Ends(t) /\ op[t].kind = "reopen" /\ opened[t] = 0
    BY IdleEnds DEF ReopenFails, AtSink
<1>2. events' \in 0..MaxEvents /\ events <= events'
    BY BoundsAssumption DEF ReopenFails, Event, TypeOK
<1> QED BY <1>1, <1>2 DEF ReopenFails, Gives

LEMMA ReturnReturns ==
    ASSUME TypeOK, NEW t \in Threads, Return(t)
    PROVE  Returns(t)
<1>1. op[t] # Idle /\ op[t].at > Len(Configs[op[t].version]) /\ op' = [op EXCEPT ![t] = Idle]
      /\ UNCHANGED <<global, sinks, disk, counts, went, avoid, alone>>
    BY DEF Return, ListOf
<1>2. op[t].at \in Nat /\ op[t].version \in Versions /\ op[t].before \in [Paths -> Nat]
    BY <1>1, OpFacts
<1>3. \A k \in 1..Len(Configs[op[t].version]) : k < op[t].at
    BY <1>1, <1>2, Bounds
<1>4. retired \in [Paths -> Nat]
    BY DEF TypeOK
<1>5. retired' = [p \in Paths |-> IF Holds(t, p) /\ retired[p] < op[t].before[p]
                                 THEN op[t].before[p] ELSE retired[p]]
    BY DEF Return
<1>6. /\ retired' \in [Paths -> Nat]
      /\ \A p \in Paths : retired'[p] # retired[p] => retired'[p] = op[t].before[p] /\ Holds(t, p)
    BY <1>2, <1>4, <1>5
<1> QED BY <1>1, <1>2, <1>3, <1>6, IdleEnds DEF Returns

\* A new writer opens its file; a writer rotates it, or panics; a log is moved away.
WriterStarts(v, p) ==
    /\ writer[<<v, p>>] = "start" /\ Becomes(v, p, "run") /\ Tries(v, p)
    /\ UNCHANGED <<global, op, queue, buf, known, archives, content, lines, calls, ghosts>>

Rotates(v, p) ==
    /\ path' \in [Paths -> Files] /\ inodes' \in [Paths -> Files]
    /\ Has(v, p, Moved(p) + 2) /\ failed' = failed \ {<<v, p>>}
    /\ Moved(p)' = Moved(p) + 1 /\ \A q \in Paths : q # p => Moved(q)' = Moved(q)
    /\ \A q \in Paths : path'[q] # 0 => path'[q] = inodes'[q]
    /\ events' = events + 1 /\ events' \in 0..MaxEvents
    /\ archives' \in [Paths -> Nat] /\ known' \in [Pairs -> Nat]
    /\ UNCHANGED <<global, op, queue, buf, writer, content, lines, calls, ghosts>>

WriterPanics(v, p) ==
    /\ writer[<<v, p>>] \in {"start", "run"} /\ Becomes(v, p, "panicked")
    /\ queue' \in [Pairs -> Seq(Messages)] /\ Len(queue'[<<v, p>>]) = 0
    /\ \A w \in Versions, q \in Paths : w # v \/ q # p => queue'[<<w, q>>] = queue[<<w, q>>]
    /\ failed \subseteq failed' /\ failed' \subseteq Pairs
    /\ events' \in 0..MaxEvents /\ events <= events'
    /\ UNCHANGED <<global, op, buf, inode, known, disk, lines, calls, ghosts>>

MovesAway ==
    /\ path' \in [Paths -> Files]
    /\ \A q \in Paths : /\ path'[q] # 0 => path'[q] = inodes'[q]
                        /\ Moved(q)' \in {Moved(q), Moved(q) + 1}
    /\ events' = events + 1 /\ events' \in 0..MaxEvents
    /\ archives' \in [Paths -> Nat] /\ known' \in [Pairs -> Nat]
    /\ failed \subseteq failed' /\ failed' \subseteq Pairs
    /\ UNCHANGED <<global, op, queue, buf, writer, inode, inodes, content, lines, calls, ghosts>>

LEMMA NumberFacts ==
    ASSUME TypeOK, Numbers, NEW p \in Paths
    PROVE  /\ inodes[p] \in Nat /\ path[p] \in Nat /\ Moved(p) \in Nat /\ Moved(p) <= events
           /\ path[p] = 0 => Moved(p) = inodes[p]
           /\ path[p] # 0 => inodes[p] = Moved(p) + 1 /\ path[p] = inodes[p]
           /\ events \in Nat /\ events <= MaxEvents /\ Files = 0..MaxEvents + 2
<1>1. inodes[p] \in Nat /\ path[p] \in Nat /\ events \in Nat /\ events <= MaxEvents
    BY BoundsAssumption DEF TypeOK, Files
<1>2. (path[p] # 0 => path[p] = inodes[p]) /\ Moved(p) \in Nat /\ Moved(p) <= events
    BY DEF Numbers
<1>3. path[p] = 0 => Moved(p) = inodes[p]
    BY DEF Moved
<1>4. path[p] # 0 => Moved(p) = inodes[p] - 1
    BY DEF Moved
<1> QED BY <1>1, <1>2, <1>3, <1>4 DEF Files

LEMMA WriterOpensStarts ==
    ASSUME TypeOK, Numbers, NEW v \in Versions, NEW p \in Paths, WriterOpens(v, p)
    PROVE  WriterStarts(v, p)
<1>1. writer[<<v, p>>] = "start" /\ WriterReopens(v, p) /\ writer' = [writer EXCEPT ![<<v, p>>] = "run"]
      /\ UNCHANGED <<global, op, queue, buf, known, archives, content, lines, calls, ghosts>>
    BY DEF WriterOpens
<1>2. Becomes(v, p, "run")
    BY <1>1, WriterBecomes
<1> QED BY <1>1, <1>2, TryTries DEF WriterStarts

\* The log is moved away, by another program or by a rotation that then opens nothing.
LEMMA MoveFacts ==
    ASSUME TypeOK, Numbers, NEW p \in Paths, path[p] # 0, path' = [path EXCEPT ![p] = 0],
           inodes' = inodes
    PROVE  /\ path' \in [Paths -> Files]
           /\ \A q \in Paths : /\ path'[q] # 0 => path'[q] = inodes'[q]
                               /\ Moved(q)' \in {Moved(q), Moved(q) + 1}
<1>1. path \in [Paths -> Files] /\ 0 \in Files
    BY BoundsAssumption DEF TypeOK, Files
<1>2. path' \in [Paths -> Files] /\ path'[p] = 0 /\ \A q \in Paths : q # p => path'[q] = path[q]
    BY <1>1
<1>3. ASSUME NEW q \in Paths
      PROVE  (path'[q] # 0 => path'[q] = inodes'[q]) /\ Moved(q)' \in {Moved(q), Moved(q) + 1}
  <2>1. CASE q = p
    <3>1. Moved(q)' = inodes[q] /\ inodes[q] = Moved(q) + 1
      BY <1>2, <2>1, NumberFacts DEF Moved
    <3> QED BY <1>2, <2>1, <3>1
  <2>2. CASE q # p
    <3>1. Moved(q)' = Moved(q)
      BY <1>2, <2>2 DEF Moved
    <3> QED BY <1>2, <2>2, <3>1, NumberFacts
  <2> QED BY <2>1, <2>2
<1> QED BY <1>2, <1>3

LEMMA RotateRotates ==
    ASSUME TypeOK, Numbers, NEW v \in Versions, NEW p \in Paths, Rotate(v, p)
    PROVE  Rotates(v, p) \/ MovesAway
<1>1. /\ path[p] # 0 /\ events < MaxEvents /\ events' = events + 1
      /\ UNCHANGED <<global, op, queue, buf, writer, content, lines, calls, ghosts>>
    BY DEF Rotate, Event, CanRotate
<1>2. path \in [Paths -> Files] /\ inodes \in [Paths -> Files] /\ failed \subseteq Pairs /\ <<v, p>> \in Pairs
    BY DEF TypeOK, Pairs
<1>3. /\ inodes[p] = Moved(p) + 1 /\ Moved(p) \in Nat /\ Moved(p) <= events /\ events \in Nat
      /\ Files = 0..MaxEvents + 2 /\ MaxEvents \in Nat
    BY <1>1, NumberFacts, BoundsAssumption
<1>4. inodes[p] + 1 \in Files /\ inodes[p] + 1 = Moved(p) + 2 /\ inodes[p] + 1 # 0
    BY <1>1, <1>3
<1>5. archives' \in [Paths -> Nat] /\ known' \in [Pairs -> Nat]
  <2>1. archives' = [archives EXCEPT ![p] = @ + 1] /\ known' = [known EXCEPT ![<<v, p>>] = @ + 1]
    BY DEF Rotate
  <2> QED BY <2>1 DEF TypeOK, Pairs
<1>6. events' \in 0..MaxEvents
    BY <1>1, <1>3
<1>7. CASE /\ inodes' = [inodes EXCEPT ![p] = @ + 1]
           /\ path' = [path EXCEPT ![p] = inodes[p] + 1]
           /\ inode' = [inode EXCEPT ![<<v, p>>] = inodes[p] + 1]
           /\ failed' = failed \ {<<v, p>>}
  <2>1. Has(v, p, Moved(p) + 2)
    BY <1>4, <1>7, HaveHas
  <2>2. /\ path' \in [Paths -> Files] /\ inodes' \in [Paths -> Files]
        /\ path'[p] = inodes[p] + 1 /\ inodes'[p] = inodes[p] + 1
        /\ \A q \in Paths : q # p => path'[q] = path[q] /\ inodes'[q] = inodes[q]
    BY <1>2, <1>4, <1>7
  <2>3. Moved(p)' = Moved(p) + 1
    BY <1>3, <1>4, <2>2 DEF Moved
  <2>4. \A q \in Paths : q # p => Moved(q)' = Moved(q)
    BY <2>2 DEF Moved
  <2>5. \A q \in Paths : path'[q] # 0 => path'[q] = inodes'[q]
    BY <2>2, NumberFacts
  <2> QED BY <1>1, <1>5, <1>6, <1>7, <2>1, <2>2, <2>3, <2>4, <2>5 DEF Rotates
<1>8. CASE /\ path' = [path EXCEPT ![p] = 0] /\ failed' = failed \cup {<<v, p>>}
           /\ UNCHANGED <<inode, inodes>>
    BY <1>1, <1>2, <1>5, <1>6, <1>8, MoveFacts DEF MovesAway
<1> QED BY <1>7, <1>8 DEF Rotate

LEMMA PanicPanics ==
    ASSUME TypeOK, NEW v \in Versions, NEW p \in Paths, RotatePanics(v, p) \/ StartPanics(v, p)
    PROVE  WriterPanics(v, p)
<1>1. /\ writer' = [writer EXCEPT ![<<v, p>>] = "panicked"] /\ queue' = [queue EXCEPT ![<<v, p>>] = <<>>]
      /\ writer[<<v, p>>] \in {"start", "run"}
      /\ UNCHANGED <<global, op, buf, inode, known, disk, lines, calls, ghosts>>
    BY DEF RotatePanics, StartPanics, FlushedAll, Running, Panics, counts
<1>2. Becomes(v, p, "panicked")
    BY <1>1, WriterBecomes
<1>3. PICK e \in Seq(Messages) : e = <<>> /\ Len(e) = 0
    BY EmptySeq
<1>4. queue \in [Pairs -> Seq(Messages)] /\ <<v, p>> \in Pairs /\ failed \subseteq Pairs
    BY DEF TypeOK, Pairs
<1>5. /\ queue' \in [Pairs -> Seq(Messages)] /\ queue'[<<v, p>>] = e
      /\ \A x \in Pairs : x # <<v, p>> => queue'[x] = queue[x]
    BY <1>1, <1>3, <1>4
<1>6. \A w \in Versions, q \in Paths : <<w, q>> \in Pairs /\ (<<w, q>> = <<v, p>> <=> w = v /\ q = p)
    BY DEF Pairs
<1>7. failed' = failed \/ failed' = failed \cup {<<v, p>>}
    BY DEF RotatePanics, StartPanics
<1>8. events' \in 0..MaxEvents /\ events <= events'
  <2>1. events \in 0..MaxEvents /\ MaxEvents \in Nat
    BY BoundsAssumption DEF TypeOK
  <2>2. CASE RotatePanics(v, p)
    BY <2>1, <2>2 DEF RotatePanics, counts
  <2>3. CASE StartPanics(v, p)
    BY <2>1, <2>3 DEF StartPanics, Event
  <2> QED BY <2>2, <2>3
<1> QED BY <1>1, <1>2, <1>3, <1>4, <1>5, <1>6, <1>7, <1>8 DEF WriterPanics

LEMMA MoveMoves ==
    ASSUME TypeOK, Numbers, Move
    PROVE  MovesAway
<1>1. PICK p \in Movable : path[p] # 0 /\ path' = [path EXCEPT ![p] = 0]
    BY DEF Move
<1>2. /\ events < MaxEvents /\ events' = events + 1
      /\ UNCHANGED <<global, op, sinks, inodes, archives, content, lines, calls, ghosts>>
    BY DEF Move, Event
<1>3. p \in Paths /\ inodes' = inodes
    BY <1>2, MovableAssumption
<1>4. events' \in 0..MaxEvents
    BY <1>2, BoundsAssumption DEF TypeOK
<1>5. archives' \in [Paths -> Nat] /\ known' \in [Pairs -> Nat] /\ failed' \subseteq Pairs /\ failed' = failed
    BY <1>2 DEF TypeOK, Pairs, sinks
<1> QED BY <1>1, <1>2, <1>3, <1>4, <1>5, MoveFacts DEF MovesAway, sinks

Steps ==
    \/ SetupStart \/ BuildFails \/ Publish \/ MovesAway
    \/ \E v \in Versions, p \in Paths : \E k \in 1..Len(Configs[v]) : Builds(v, k, p)
    \/ \E t \in Threads, n \in Lines : StartsLog(t, n)
    \/ \E t \in Threads : StartsOther(t) \/ Gives(t) \/ Returns(t)
    \/ \E t \in Threads, v \in Versions, p \in Paths : \E k \in 1..Len(Configs[v]) :
        \/ LogsTo(t, v, k, p) \/ Flushes(t, v, k, p)
        \/ Reopens(t, v, k, p) \/ OpensRaw(t, v, k, p) \/ Stores(t, v, k, p)
    \/ \E v \in Versions, p \in Paths, n \in Lines : TakesLine(v, p, n)
    \/ \E v \in Versions, p \in Paths, t \in Threads : TakesFlush(v, p, t)
    \/ \E v \in Versions, p \in Paths :
        \/ WriterStarts(v, p) \/ TakesReopen(v, p) \/ Empties(v, p)
        \/ Rotates(v, p) \/ WriterPanics(v, p)

LEMMA NextSteps ==
    ASSUME TypeOK, Numbers, Awaited, Loggers, Next
    PROVE  Steps
<1>1. CASE SetupStart \/ BuildFails \/ Publish \/ Move
    BY <1>1, MoveMoves DEF Steps
<1>2. CASE BuildSink
    BY <1>2, BuildBuilds DEF Steps
<1>3. CASE \E t \in Threads : StartLog(t) \/ StartOther(t) \/ ReopenFails(t) \/ Return(t)
    BY <1>3, StartLogStarts, StartOtherStarts, ReopenFailsGives, ReturnReturns DEF Steps
<1>4. CASE \E t \in Threads : LogSink(t) \/ FlushSink(t) \/ ReopenSink(t) \/ OpenRaw(t) \/ StoreRaw(t)
    BY <1>4, LogSinkLogs, FlushSinkFlushes, ReopenSinkReopens DEF Steps
<1>5. CASE \E v \in Versions, p \in Paths : TakeMessage(v, p)
    BY <1>5, TakeSteps DEF Steps
<1>6. CASE \E v \in Versions, p \in Paths :
            \/ WriterOpens(v, p) \/ FlushBuffer(v, p) \/ WriterEnds(v, p)
            \/ Rotate(v, p) \/ RotatePanics(v, p) \/ StartPanics(v, p)
    BY <1>6, WriterOpensStarts, EmptySteps, RotateRotates, PanicPanics DEF Steps
<1> QED BY <1>1, <1>2, <1>3, <1>4, <1>5, <1>6 DEF Next, Caller, Writer, Setup

-----------------------------------------------------------------------------
\* Types and the numbers of the files.
LEMMA InitInv == Init => TypeOK /\ Numbers /\ Published /\ Awaited /\ Loggers
<1> SUFFICES ASSUME Init PROVE TypeOK /\ Numbers /\ Published /\ Awaited /\ Loggers
    OBVIOUS
<1>1. /\ 1 \in Versions /\ 0 \in Files /\ 1 \in Files /\ 0 \in 0..MaxLines /\ 0 \in 0..MaxCalls /\ 0 \in 0..MaxEvents
    BY Bounds, BoundsAssumption DEF Versions, Files
<1>2. PICK e \in Seq(Messages) : e = <<>> /\ Len(e) = 0
    BY EmptySeq
<1>3. /\ queue \in [Pairs -> Seq(Messages)]
      /\ \A v \in Versions, p \in Paths : queue[<<v, p>>] = e
    BY <1>2 DEF Init, Pairs
<1>4. TypeOK
  <2>1. /\ cur \in Versions /\ built \in Versions
        /\ setup \in [version : Versions \cup {0}, at : Nat \ {0}]
        /\ op \in [Threads -> Ops \cup {Idle}] /\ opened \in [Threads -> Files] /\ alone \subseteq Threads
    BY <1>1 DEF Init
  <2>2. /\ buf \in [Versions \X Paths -> SUBSET Lines]
        /\ writer \in [Versions \X Paths -> {"none", "start", "run", "panicked", "done"}]
        /\ known \in [Versions \X Paths -> Nat] /\ failed \subseteq Versions \X Paths
    BY DEF Init
  <2>3. inode \in [Versions \X Paths -> Files]
    BY <1>1 DEF Init
  <2>4. path \in [Paths -> Files] /\ inodes \in [Paths -> Files] /\ archives \in [Paths -> Nat]
    BY <1>1 DEF Init
  <2>5. content \in [Paths \X Files -> SUBSET Lines]
    BY DEF Init
  <2>6. /\ lines \in 0..MaxLines /\ calls \in 0..MaxCalls /\ events \in 0..MaxEvents
        /\ went \in [Lines -> Versions \cup {0}]
        /\ retired \in [Paths -> Nat] /\ avoid \in [Lines -> [Paths -> Nat]]
    BY <1>1 DEF Init
  <2> QED BY <1>3, <2>1, <2>2, <2>3, <2>4, <2>5, <2>6 DEF TypeOK, Pairs
<1>5. Numbers
  <2>1. \A p \in Paths : Moved(p) = 0 /\ (path[p] # 0 => path[p] = inodes[p]) /\ retired[p] = 0
    BY DEF Init, Moved
  <2>2. events = 0 /\ (\A t \in Threads : op[t] = Idle) /\ \A n \in Lines, p \in Paths : avoid[n][p] = 0
    BY DEF Init
  <2> QED BY <2>1, <2>2 DEF Numbers
<1>6. Published
  <2>1. cur = 1 /\ built = 1 /\ setup.version = 0 /\ lines = 0 /\ \A t \in Threads : op[t] = Idle
    BY DEF Init
  <2> QED BY <2>1 DEF Published, IsPublished
<1>7. Awaited
    BY <1>2, <1>3 DEF Awaited, FlushAt
<1>8. Loggers
  <2>1. \A t \in Threads : op[t] = Idle
    BY DEF Init
  <2> QED BY <2>1 DEF Loggers, Logging
<1> QED BY <1>4, <1>5, <1>6, <1>7, <1>8

LEMMA TypeStep ==
    ASSUME TypeOK, Numbers, Awaited, Loggers, [Next]_vars
    PROVE  TypeOK'
<1> USE DEF global, sinks, disk, counts, ghosts
<1>1. CASE SetupStart
  <2>1. built + 1 \in Versions /\ 1 \in Nat \ {0}
    BY <1>1, Bounds DEF SetupStart, TypeOK, Versions
  <2> QED BY <1>1, <2>1 DEF SetupStart, TypeOK
<1>2. CASE BuildFails
  <2>1. events' \in 0..MaxEvents
    BY <1>2, BoundsAssumption DEF BuildFails, Event, TypeOK
  <2> QED BY <1>2, <2>1 DEF BuildFails, TypeOK
<1>3. CASE Publish
    BY <1>3 DEF Publish, TypeOK
<1>4. CASE MovesAway
    BY <1>4 DEF MovesAway, TypeOK, Pairs
<1>5. ASSUME NEW v \in Versions, NEW p \in Paths, NEW k \in 1..Len(Configs[v]), Builds(v, k, p)
      PROVE  TypeOK'
  <2>1. k + 1 \in Nat \ {0} /\ Len(Configs[v]) \in Nat
    BY Bounds
  <2>2. setup' \in [version : Versions \cup {0}, at : Nat \ {0}]
    BY <1>5, <2>1 DEF Builds
  <2>3. UNCHANGED <<cur, built, op, opened, buf, failed, archives, content, counts, ghosts>>
    BY <1>5 DEF Builds
  <2>4. CASE p \in Buffered(v)
    <3>1. /\ Becomes(v, p, "start") /\ Sent(v, p, [kind |-> "reopen"])
          /\ known' \in [Pairs -> Nat]
          /\ UNCHANGED <<inode, path, inodes>>
      BY <1>5, <2>4 DEF Builds
    <3> QED BY <2>2, <2>3, <3>1 DEF Becomes, Sent, TypeOK, Pairs
  <2>5. CASE p \notin Buffered(v)
    <3>1. Opens(v, p) /\ UNCHANGED <<writer, known, queue>>
      BY <1>5, <2>5 DEF Builds
    <3> QED BY <2>2, <2>3, <3>1 DEF Opens, Finds, Has, TypeOK, Pairs
  <2> QED BY <2>4, <2>5
<1>6. ASSUME NEW t \in Threads, NEW n \in Lines, StartsLog(t, n)
      PROVE  TypeOK'
  <2>1. n \in 0..MaxLines
    BY BoundsAssumption DEF Lines
  <2> QED BY <1>6, <2>1 DEF StartsLog, Begins, TypeOK
<1>7. ASSUME NEW t \in Threads, StartsOther(t) \/ Gives(t) \/ Returns(t)
      PROVE  TypeOK'
  <2>1. CASE StartsOther(t)
    BY <2>1 DEF StartsOther, Begins, Reopeners, TypeOK
  <2>2. CASE Gives(t) \/ Returns(t)
    BY <2>2 DEF Gives, Returns, Ends, TypeOK
  <2> QED BY <1>7, <2>1, <2>2
<1>8. ASSUME NEW t \in Threads, NEW v \in Versions, NEW p \in Paths, NEW k \in 1..Len(Configs[v]),
             \/ LogsTo(t, v, k, p) \/ Flushes(t, v, k, p)
             \/ Reopens(t, v, k, p) \/ OpensRaw(t, v, k, p) \/ Stores(t, v, k, p)
      PROVE  TypeOK'
  <2>1. CASE LogsTo(t, v, k, p)
    BY <2>1 DEF LogsTo, Advances, GoesOn, Adds, Sent, TypeOK, Pairs
  <2>2. CASE Flushes(t, v, k, p)
    BY <2>2 DEF Flushes, Advances, GoesOn, Sent, TypeOK, Pairs
  <2>3. CASE Reopens(t, v, k, p)
    BY <2>3 DEF Reopens, Advances, GoesOn, Sent, TypeOK, Pairs
  <2>4. CASE OpensRaw(t, v, k, p)
    BY <2>4 DEF OpensRaw, Finds, TypeOK
  <2>5. CASE Stores(t, v, k, p)
    BY <2>5 DEF Stores, Advances, GoesOn, Has, TypeOK, Pairs
  <2> QED BY <1>8, <2>1, <2>2, <2>3, <2>4, <2>5
<1>9. ASSUME NEW v \in Versions, NEW p \in Paths, NEW n \in Lines, TakesLine(v, p, n)
      PROVE  TypeOK'
    BY <1>9 DEF TakesLine, Taken, Puts, TypeOK, Pairs
<1>10. ASSUME NEW v \in Versions, NEW p \in Paths, NEW t \in Threads, TakesFlush(v, p, t)
       PROVE  TypeOK'
    BY <1>10 DEF TakesFlush, Taken, Emptied, Puts, Adds, GoesOn, TypeOK, Pairs
<1>11. ASSUME NEW v \in Versions, NEW p \in Paths,
              \/ WriterStarts(v, p) \/ TakesReopen(v, p) \/ Empties(v, p)
              \/ Rotates(v, p) \/ WriterPanics(v, p)
       PROVE  TypeOK'
  <2>1. CASE WriterStarts(v, p)
    <3>1. Tries(v, p)
      BY <2>1 DEF WriterStarts
    <3> QED BY <2>1, <3>1, TryFacts DEF WriterStarts, Becomes, TypeOK, Pairs
  <2>2. CASE TakesReopen(v, p)
    <3>1. Tries(v, p)
      BY <2>2 DEF TakesReopen
    <3> QED BY <2>2, <3>1, TryFacts DEF TakesReopen, Taken, TypeOK, Pairs
  <2>3. CASE Empties(v, p)
    BY <2>3 DEF Empties, Becomes, Emptied, Adds, Puts, TypeOK, Pairs
  <2>4. CASE Rotates(v, p)
    BY <2>4 DEF Rotates, Has, TypeOK, Pairs
  <2>5. CASE WriterPanics(v, p)
    BY <2>5 DEF WriterPanics, Becomes, TypeOK, Pairs
  <2> QED BY <1>11, <2>1, <2>2, <2>3, <2>4, <2>5
<1>12. CASE UNCHANGED vars
    BY <1>12 DEF vars, TypeOK
<1>13. CASE Next
  <2>1. Steps
    BY <1>13, NextSteps
  <2> QED BY <1>1, <1>2, <1>3, <1>4, <1>5, <1>6, <1>7, <1>8, <1>9, <1>10, <1>11, <2>1 DEF Steps
<1> QED BY <1>12, <1>13

\* What a step may do to the numbers.
Steady ==
    /\ \A p \in Paths :
        /\ path'[p] # 0 => path'[p] = inodes'[p]
        /\ Moved(p)' = Moved(p) \/ (Moved(p)' = Moved(p) + 1 /\ events' = events + 1)
        /\ retired'[p] = retired[p] \/ \E t \in Threads : op[t] # Idle /\ retired'[p] = op[t].before[p]
    /\ events <= events'
    /\ \A t \in Threads : op'[t] # Idle =>
        \/ op[t] # Idle /\ op'[t].before = op[t].before
        \/ \A p \in Paths : op'[t].before[p] \in {0, Moved(p)}
    /\ \A n \in Lines : avoid'[n] = avoid[n] \/ avoid'[n] = retired

LEMMA SteadyNumbers ==
    ASSUME TypeOK, TypeOK', Numbers, Steady
    PROVE  Numbers'
<1>1. ASSUME NEW p \in Paths
      PROVE  /\ path'[p] # 0 => path'[p] = inodes'[p]
             /\ Moved(p)' <= events' /\ Moved(p)' \in Nat
             /\ retired'[p] <= Moved(p)' /\ Moved(p) <= Moved(p)' /\ Moved(p) \in Nat
  <2>1. Moved(p) \in Nat /\ Moved(p) <= events /\ retired[p] <= Moved(p) /\ retired[p] \in Nat
    BY DEF Numbers, TypeOK
  <2>2. events \in Nat /\ events' \in Nat /\ events <= events'
    BY BoundsAssumption DEF TypeOK, Steady
  <2>3. Moved(p)' = Moved(p) \/ (Moved(p)' = Moved(p) + 1 /\ events' = events + 1)
    BY DEF Steady
  <2>4. Moved(p)' \in Nat /\ Moved(p)' <= events' /\ Moved(p) <= Moved(p)'
    BY <2>1, <2>2, <2>3
  <2>5. retired'[p] <= Moved(p)
    <3>1. CASE retired'[p] = retired[p]
      BY <2>1, <3>1
    <3>2. ASSUME NEW t \in Threads, op[t] # Idle, retired'[p] = op[t].before[p]
          PROVE  retired'[p] <= Moved(p)
      BY <3>2 DEF Numbers
    <3> QED BY <3>1, <3>2 DEF Steady
  <2>6. retired'[p] \in Nat
    BY DEF TypeOK
  <2>7. path'[p] # 0 => path'[p] = inodes'[p]
    BY DEF Steady
  <2> QED BY <2>1, <2>4, <2>5, <2>6, <2>7
<1>2. ASSUME NEW t \in Threads, op'[t] # Idle, NEW p \in Paths
      PROVE  op'[t].before[p] <= Moved(p)'
  <2>1. CASE op[t] # Idle /\ op'[t].before = op[t].before
    <3>1. op[t].before[p] <= Moved(p) /\ op[t].before[p] \in Nat
      BY <2>1, OpFacts DEF Numbers
    <3> QED BY <1>1, <2>1, <3>1
  <2>2. CASE op'[t].before[p] \in {0, Moved(p)}
    BY <1>1, <2>2
  <2> QED BY <1>2, <2>1, <2>2 DEF Steady
<1>3. ASSUME NEW n \in Lines, NEW p \in Paths
      PROVE  avoid'[n][p] <= Moved(p)'
  <2>1. avoid[n][p] <= Moved(p) /\ retired[p] <= Moved(p) /\ avoid[n][p] \in Nat /\ retired[p] \in Nat
    BY DEF Numbers, TypeOK
  <2>2. avoid'[n][p] <= Moved(p) /\ avoid'[n][p] \in Nat
    BY <2>1 DEF Steady
  <2> QED BY <1>1, <2>2
<1> QED BY <1>1, <1>2, <1>3 DEF Numbers

LEMMA NumbersStep ==
    ASSUME TypeOK, TypeOK', Numbers, Awaited, Loggers, [Next]_vars
    PROVE  Numbers'
<1> USE DEF global, sinks, disk, counts, ghosts
<1>a. /\ events \in Nat
      /\ \A p \in Paths : path[p] # 0 => path[p] = inodes[p]
      /\ UNCHANGED path /\ UNCHANGED inodes => \A p \in Paths : Moved(p)' = Moved(p)
  <2>1. events \in Nat
    <3>1. events \in 0..MaxEvents
      BY DEF TypeOK
    <3> QED BY <3>1, BoundsAssumption
  <2>2. \A p \in Paths : path[p] # 0 => path[p] = inodes[p]
    BY DEF Numbers
  <2>3. UNCHANGED path /\ UNCHANGED inodes => \A p \in Paths : Moved(p)' = Moved(p)
    BY DEF Moved
  <2> QED BY <2>1, <2>2, <2>3
<1>1. CASE SetupStart \/ Publish \/ UNCHANGED vars
  <2>1. UNCHANGED <<path, inodes, retired, events, op, avoid>>
    BY <1>1 DEF SetupStart, Publish, vars
  <2> QED BY <1>a, <2>1, SteadyNumbers DEF Steady
<1>2. CASE BuildFails
  <2>1. events' = events + 1 /\ UNCHANGED <<path, inodes, retired, op, avoid>>
    BY <1>2 DEF BuildFails, Event
  <2> QED BY <1>a, <2>1, SteadyNumbers DEF Steady
<1>3. CASE MovesAway
  <2>1. Steady
    BY <1>a, <1>3 DEF MovesAway, Steady
  <2> QED BY <2>1, SteadyNumbers
<1>4. ASSUME NEW v \in Versions, NEW p \in Paths, NEW k \in 1..Len(Configs[v]), Builds(v, k, p)
      PROVE  Numbers'
  <2>1. Steady
    BY <1>a, <1>4 DEF Builds, Opens, Finds, Steady
  <2> QED BY <2>1, SteadyNumbers
<1>5. ASSUME NEW t \in Threads, NEW n \in Lines, StartsLog(t, n)
      PROVE  Numbers'
  <2>1. Steady
    BY <1>a, <1>5 DEF StartsLog, Begins, Steady
  <2> QED BY <2>1, SteadyNumbers
<1>6. ASSUME NEW t \in Threads, StartsOther(t) \/ Gives(t) \/ Returns(t)
      PROVE  Numbers'
  <2>1. CASE StartsOther(t)
    <3>1. Steady
      BY <1>a, <2>1 DEF StartsOther, Begins, Steady
    <3> QED BY <3>1, SteadyNumbers
  <2>2. CASE Gives(t)
    <3>1. Steady
      BY <1>a, <2>2 DEF Gives, Ends, Steady
    <3> QED BY <3>1, SteadyNumbers
  <2>3. CASE Returns(t)
    <3>1. Steady
      BY <1>a, <2>3 DEF Returns, Ends, Steady
    <3> QED BY <3>1, SteadyNumbers
  <2> QED BY <1>6, <2>1, <2>2, <2>3
<1>7. ASSUME NEW t \in Threads, NEW v \in Versions, NEW p \in Paths, NEW k \in 1..Len(Configs[v]),
             \/ LogsTo(t, v, k, p) \/ Flushes(t, v, k, p)
             \/ Reopens(t, v, k, p) \/ OpensRaw(t, v, k, p) \/ Stores(t, v, k, p)
      PROVE  Numbers'
  <2>1. (GoesOn(t) \/ UNCHANGED op) /\ UNCHANGED <<retired, avoid, events>>
    BY <1>7 DEF LogsTo, Flushes, Reopens, OpensRaw, Stores, Advances
  <2>2. \A q \in Paths : Moved(q)' = Moved(q) /\ (path'[q] # 0 => path'[q] = inodes'[q])
    BY <1>a, <1>7 DEF LogsTo, Flushes, Reopens, OpensRaw, Stores, Finds
  <2>3. Steady
    BY <1>a, <2>1, <2>2 DEF GoesOn, Steady
  <2> QED BY <2>3, SteadyNumbers
<1>8. ASSUME NEW v \in Versions, NEW p \in Paths, NEW t \in Threads, TakesFlush(v, p, t)
      PROVE  Numbers'
  <2>1. Steady
    BY <1>a, <1>8 DEF TakesFlush, GoesOn, Steady
  <2> QED BY <2>1, SteadyNumbers
<1>9. ASSUME NEW v \in Versions, NEW p \in Paths,
             \/ WriterStarts(v, p) \/ TakesReopen(v, p) \/ Empties(v, p) \/ WriterPanics(v, p)
             \/ \E n \in Lines : TakesLine(v, p, n)
      PROVE  Numbers'
  <2>1. UNCHANGED <<op, retired, avoid>>
    BY <1>9 DEF WriterStarts, TakesReopen, Empties, WriterPanics, TakesLine
  <2>2. CASE Tries(v, p)
    BY <2>1, <2>2, TryFacts, SteadyNumbers DEF Steady
  <2>3. CASE ~Tries(v, p)
    <3>1. UNCHANGED <<path, inodes>>
      BY <1>9, <2>3 DEF WriterStarts, TakesReopen, Empties, WriterPanics, TakesLine
    <3>2. events' = events \/ events <= events'
      BY <1>9, <2>3 DEF WriterStarts, TakesReopen, Empties, WriterPanics, TakesLine
    <3>3. events <= events'
      BY <1>a, <3>2
    <3> QED BY <1>a, <2>1, <3>1, <3>3, SteadyNumbers DEF Steady
  <2> QED BY <2>2, <2>3
<1>10. ASSUME NEW v \in Versions, NEW p \in Paths, Rotates(v, p)
       PROVE  Numbers'
  <2>1. Steady
    BY <1>a, <1>10 DEF Rotates, Steady
  <2> QED BY <2>1, SteadyNumbers
<1>11. CASE Next
  <2>1. Steps
    BY <1>11, NextSteps
  <2> QED BY <1>1, <1>2, <1>3, <1>4, <1>5, <1>6, <1>7, <1>8, <1>9, <1>10, <2>1 DEF Steps
<1> QED BY <1>1, <1>11

-----------------------------------------------------------------------------
\* The versions that are published, the flushes that wait, the calls that log.

\* No call begins in this step, and those that go on keep what they are.
NoneBegins ==
    \A t \in Threads : op'[t] # Idle =>
        /\ op[t] # Idle /\ op'[t].kind = op[t].kind /\ op'[t].version = op[t].version
        /\ op'[t].line = op[t].line /\ op'[t].before = op[t].before

\* The steps in which a call begins are the two that are named so.
LEMMA OthersBeginNone ==
    ASSUME TypeOK, Steps, ~\E t \in Threads, n \in Lines : StartsLog(t, n),
           ~\E t \in Threads : StartsOther(t)
    PROVE  NoneBegins /\ lines' = lines /\ went' = went /\ avoid' = avoid
<1> USE DEF global, sinks, disk, counts, ghosts
<1>1. CASE SetupStart \/ BuildFails \/ Publish \/ MovesAway
    BY <1>1 DEF SetupStart, BuildFails, Publish, MovesAway, NoneBegins
<1>2. ASSUME NEW v \in Versions, NEW p \in Paths, NEW k \in 1..Len(Configs[v]), Builds(v, k, p)
      PROVE  NoneBegins /\ lines' = lines /\ went' = went /\ avoid' = avoid
    BY <1>2 DEF Builds, NoneBegins
<1>3. ASSUME NEW t \in Threads, Gives(t) \/ Returns(t)
      PROVE  NoneBegins /\ lines' = lines /\ went' = went /\ avoid' = avoid
    BY <1>3 DEF Gives, Returns, Ends, NoneBegins
<1>4. ASSUME NEW t \in Threads, NEW v \in Versions, NEW p \in Paths, NEW k \in 1..Len(Configs[v]),
             \/ LogsTo(t, v, k, p) \/ Flushes(t, v, k, p)
             \/ Reopens(t, v, k, p) \/ OpensRaw(t, v, k, p) \/ Stores(t, v, k, p)
      PROVE  NoneBegins /\ lines' = lines /\ went' = went /\ avoid' = avoid
  <2>1. (GoesOn(t) \/ UNCHANGED op) /\ UNCHANGED <<lines, went, avoid>>
    BY <1>4 DEF LogsTo, Flushes, Reopens, OpensRaw, Stores, Advances
  <2> QED BY <2>1 DEF GoesOn, NoneBegins
<1>5. ASSUME NEW v \in Versions, NEW p \in Paths, NEW t \in Threads, TakesFlush(v, p, t)
      PROVE  NoneBegins /\ lines' = lines /\ went' = went /\ avoid' = avoid
    BY <1>5 DEF TakesFlush, GoesOn, NoneBegins
<1>6. ASSUME NEW v \in Versions, NEW p \in Paths,
             \/ WriterStarts(v, p) \/ TakesReopen(v, p) \/ Empties(v, p) \/ Rotates(v, p)
             \/ WriterPanics(v, p)
             \/ \E n \in Lines : TakesLine(v, p, n)
      PROVE  NoneBegins /\ lines' = lines /\ went' = went /\ avoid' = avoid
    BY <1>6 DEF WriterStarts, TakesReopen, Empties, Rotates, WriterPanics, TakesLine, NoneBegins
<1> QED BY <1>1, <1>2, <1>3, <1>4, <1>5, <1>6 DEF Steps

\* The version in force and the one that is built change in the steps of the setup only.
LEMMA OthersKeepSetup ==
    ASSUME Steps, ~(SetupStart \/ BuildFails \/ Publish)
    PROVE  cur' = cur /\ built' = built /\ setup'.version = setup.version
<1> USE DEF global
<1>1. CASE MovesAway
    BY <1>1 DEF MovesAway
<1>2. ASSUME NEW v \in Versions, NEW p \in Paths, NEW k \in 1..Len(Configs[v]), Builds(v, k, p)
      PROVE  cur' = cur /\ built' = built /\ setup'.version = setup.version
    BY <1>2 DEF Builds
<1>3. ASSUME NEW t \in Threads, StartsOther(t) \/ Gives(t) \/ Returns(t) \/ \E n \in Lines : StartsLog(t, n)
      PROVE  cur' = cur /\ built' = built /\ setup'.version = setup.version
    BY <1>3 DEF StartsOther, Gives, Returns, StartsLog
<1>4. ASSUME NEW t \in Threads, NEW v \in Versions, NEW p \in Paths, NEW k \in 1..Len(Configs[v]),
             \/ LogsTo(t, v, k, p) \/ Flushes(t, v, k, p)
             \/ Reopens(t, v, k, p) \/ OpensRaw(t, v, k, p) \/ Stores(t, v, k, p)
      PROVE  cur' = cur /\ built' = built /\ setup'.version = setup.version
    BY <1>4 DEF LogsTo, Flushes, Reopens, OpensRaw, Stores
<1>5. ASSUME NEW v \in Versions, NEW p \in Paths,
             \/ WriterStarts(v, p) \/ TakesReopen(v, p) \/ Empties(v, p) \/ Rotates(v, p)
             \/ WriterPanics(v, p)
             \/ \E n \in Lines : TakesLine(v, p, n)
             \/ \E t \in Threads : TakesFlush(v, p, t)
      PROVE  cur' = cur /\ built' = built /\ setup'.version = setup.version
    BY <1>5 DEF WriterStarts, TakesReopen, Empties, Rotates, WriterPanics, TakesLine, TakesFlush
<1> QED BY <1>1, <1>2, <1>3, <1>4, <1>5 DEF Steps

LEMMA PublishedStep ==
    ASSUME TypeOK, Numbers, Awaited, Loggers, Published, [Next]_vars
    PROVE  Published'
<1> USE DEF global, sinks, disk, counts, ghosts
<1>a. /\ cur \in Versions /\ \A v \in Versions : v \in Nat \ {0}
      /\ built \in Nat /\ setup.version \in Versions \cup {0} /\ lines \in Nat
    BY BoundsAssumption DEF TypeOK, Versions
<1>1. CASE UNCHANGED vars
    BY <1>1 DEF vars, Published, IsPublished
<1>2. CASE SetupStart
  <2>1. /\ built' = built + 1 /\ setup'.version = built + 1
        /\ UNCHANGED <<cur, op, went, lines>>
    BY <1>2 DEF SetupStart
  <2>2. \A v \in Versions : IsPublished(v) => IsPublished(v)'
    BY <1>a, <2>1 DEF IsPublished
  <2>3. \A t \in Threads : op[t] # Idle => op[t].version \in Versions
    BY OpFacts
  <2>4. IsPublished(cur)'
    BY <1>a, <2>1 DEF Published, IsPublished
  <2>5. \A t \in Threads : op'[t] # Idle => op'[t].version <= built' /\ op'[t].version # setup'.version
    BY <1>a, <2>1, <2>3 DEF Published, IsPublished
  <2>6. \A n \in 1..lines : went'[n] \in Versions /\ went'[n] <= built' /\ went'[n] # setup'.version
    BY <1>a, <2>1 DEF Published, IsPublished
  <2> QED BY <1>a, <2>1, <2>4, <2>5, <2>6 DEF Published, IsPublished
<1>3. CASE BuildFails \/ Publish
  <2>1. /\ built' = built /\ setup'.version = 0 /\ cur' \in {cur, setup.version}
        /\ cur' \in Versions /\ UNCHANGED <<op, went, lines>>
    BY <1>3, <1>a DEF BuildFails, Publish
  <2>2. \A t \in Threads : op[t] # Idle => op[t].version \in Versions
    BY OpFacts
  <2>3. \A t \in Threads : op'[t] # Idle => op'[t].version <= built' /\ op'[t].version # setup'.version
    BY <1>a, <2>1, <2>2 DEF Published, IsPublished
  <2>4. \A n \in 1..lines : went'[n] \in Versions /\ went'[n] <= built' /\ went'[n] # setup'.version
    BY <1>a, <2>1 DEF Published, IsPublished
  <2>5. cur' <= built' /\ cur' # setup'.version
    BY <1>a, <2>1 DEF Published, IsPublished
  <2> QED BY <1>a, <2>1, <2>3, <2>4, <2>5 DEF Published, IsPublished
<1>4. CASE Steps /\ ~(SetupStart \/ BuildFails \/ Publish)
  <2>1. cur' = cur /\ built' = built /\ setup'.version = setup.version
    BY <1>4, OthersKeepSetup
  <2>2. \A t \in Threads : op'[t] # Idle =>
            op'[t].version = cur \/ (op[t] # Idle /\ op'[t].version = op[t].version)
    <3>1. ASSUME NEW t \in Threads, StartsOther(t) \/ \E n \in Lines : StartsLog(t, n)
          PROVE  \A u \in Threads : op'[u] # Idle =>
                   op'[u].version = cur \/ (op[u] # Idle /\ op'[u].version = op[u].version)
      BY <3>1 DEF StartsOther, StartsLog, Begins
    <3> QED BY <1>4, <3>1, OthersBeginNone DEF NoneBegins
  <2>3. \A t \in Threads : op'[t] # Idle => op'[t].version <= built' /\ op'[t].version # setup'.version
    BY <2>1, <2>2 DEF Published, IsPublished
  <2>4. \A n \in 1..lines' : went'[n] \in Versions /\ went'[n] <= built' /\ went'[n] # setup'.version
    <3>1. ASSUME NEW t \in Threads, NEW n \in Lines, StartsLog(t, n)
          PROVE  n = lines + 1 /\ lines' = n /\ went'[n] = cur /\ \A m \in Lines : m # n => went'[m] = went[m]
      BY <3>1 DEF StartsLog
    <3>2. ASSUME NEW t \in Threads, NEW n \in Lines, StartsLog(t, n), NEW m \in 1..lines'
          PROVE  went'[m] \in Versions /\ went'[m] <= built' /\ went'[m] # setup'.version
      <4>1. m \in Lines
        BY <1>a, <3>1, <3>2, BoundsAssumption DEF Lines
      <4>2. CASE m = n
        BY <1>a, <2>1, <3>1, <3>2, <4>2 DEF Published, IsPublished
      <4>3. CASE m # n
        <5>1. m \in 1..lines
          BY <1>a, <3>1, <3>2, <4>3
        <5> QED BY <2>1, <3>1, <3>2, <4>1, <4>3, <5>1 DEF Published, IsPublished
      <4> QED BY <4>2, <4>3
    <3>3. CASE lines' = lines /\ went' = went
      BY <2>1, <3>3 DEF Published, IsPublished
    <3>4. ASSUME NEW t \in Threads, StartsOther(t)
          PROVE  lines' = lines /\ went' = went
      BY <3>4 DEF StartsOther
    <3> QED BY <1>4, <3>2, <3>3, <3>4, OthersBeginNone
  <2> QED BY <2>1, <2>3, <2>4 DEF Published, IsPublished
<1> QED BY <1>1, <1>2, <1>3, <1>4, NextSteps

LEMMA LoggersStep ==
    ASSUME TypeOK, Numbers, Awaited, Loggers, Published, [Next]_vars
    PROVE  Loggers'
<1> USE DEF global, sinks, disk, counts, ghosts
<1>1. CASE UNCHANGED vars
    BY <1>1 DEF vars, Loggers, Logging
<1>2. CASE NoneBegins /\ lines' = lines /\ went' = went
    BY <1>2 DEF NoneBegins, Loggers, Logging
<1>3. ASSUME NEW t \in Threads, StartsOther(t)
      PROVE  Loggers'
  <2>1. (Begins(t, "flush", 0) \/ Begins(t, "reopen", 0)) /\ lines' = lines /\ went' = went
    BY <1>3 DEF StartsOther
  <2>2. /\ op'[t].line = 0 /\ op'[t].kind # "log"
        /\ \A u \in Threads : u # t => op'[u] = op[u]
    BY <2>1 DEF Begins
  <2>3. \A n \in Lines : ~Logging(t, n)'
    BY <2>2, Bounds DEF Logging
  <2>4. \A u \in Threads, n \in Lines : Logging(u, n)' => u # t /\ Logging(u, n)
    BY <2>2, <2>3 DEF Logging
  <2>5. \A u \in Threads : op'[u] # Idle => (op'[u].kind = "log" <=> op'[u].line # 0)
    BY <2>2 DEF Loggers
  <2> QED BY <2>1, <2>2, <2>4, <2>5 DEF Loggers
<1>4. ASSUME NEW t \in Threads, NEW n \in Lines, StartsLog(t, n)
      PROVE  Loggers'
  <2>1. /\ n = lines + 1 /\ Begins(t, "log", n) /\ lines' = n /\ lines \in Nat /\ n \in Nat \ {0}
        /\ went'[n] = cur /\ \A m \in Lines : m # n => went'[m] = went[m]
    BY <1>4, Bounds DEF StartsLog, TypeOK
  <2>2. /\ op'[t] # Idle /\ op'[t].kind = "log" /\ op'[t].version = cur /\ op'[t].line = n
        /\ \A u \in Threads : u # t /\ op'[u] # Idle =>
              /\ op[u] # Idle /\ op'[u].kind = op[u].kind /\ op'[u].version = op[u].version
              /\ op'[u].line = op[u].line
    BY <2>1 DEF Begins
  <2>3. \A u \in Threads : u # t /\ op'[u] # Idle => op'[u].line # n
    <3>1. \A u \in Threads : op[u] # Idle => op[u].line # n
      BY <1>4, <2>1, Bounds DEF Loggers, Logging
    <3> QED BY <2>2, <3>1
  <2>4. \A u \in Threads : op'[u] # Idle => (op'[u].kind = "log" <=> op'[u].line # 0)
    BY <2>1, <2>2 DEF Loggers
  <2>5. ASSUME NEW u \in Threads, NEW m \in Lines, Logging(u, m)'
        PROVE  m <= lines' /\ op'[u].version = went'[m]
    <3>1. CASE u = t
      BY <2>1, <2>2, <2>5, <3>1 DEF Logging
    <3>2. CASE u # t
      <4>1. Logging(u, m) /\ m # n /\ op'[u].version = op[u].version
        BY <2>2, <2>3, <2>5, <3>2 DEF Logging
      <4>2. m <= lines /\ op[u].version = went[m]
        BY <4>1 DEF Loggers
      <4> QED BY <2>1, <4>1, <4>2, Bounds
    <3> QED BY <3>1, <3>2
  <2>6. ASSUME NEW u \in Threads, NEW w \in Threads, NEW m \in Lines, Logging(u, m)', Logging(w, m)'
        PROVE  u = w
    <3>1. CASE u = t \/ w = t
      BY <2>2, <2>3, <2>6, <3>1 DEF Logging
    <3>2. CASE u # t /\ w # t
      <4>1. Logging(u, m) /\ Logging(w, m)
        BY <2>2, <2>6, <3>2 DEF Logging
      <4> QED BY <4>1 DEF Loggers
    <3> QED BY <3>1, <3>2
  <2> QED BY <2>4, <2>5, <2>6 DEF Loggers
<1> QED BY <1>1, <1>2, <1>3, <1>4, NextSteps, OthersBeginNone

\* What a channel holds after a message is sent: what it held, in place, and the message at the end.
NewestAt(v, p, w, q, j) ==
    w = v /\ q = p /\ j = Len(queue[<<v, p>>]) + 1 /\ writer[<<v, p>>] # "panicked"

LEMMA SentAt ==
    ASSUME TypeOK, NEW v \in Versions, NEW p \in Paths, NEW m, Sent(v, p, m),
           NEW w \in Versions, NEW q \in Paths, NEW j \in Nat
    PROVE  /\ \A n \in Lines :
                /\ LineAt(w, q, j, n)' => LineAt(w, q, j, n) \/ NewestAt(v, p, w, q, j)
                /\ LineAt(w, q, j, n) => LineAt(w, q, j, n)'
           /\ ReopenAt(w, q, j) => ReopenAt(w, q, j)'
           /\ NewestAt(v, p, w, q, j) => j \in 1..Len(queue'[<<w, q>>]) /\ queue'[<<w, q>>][j] = m
           /\ \A k \in Nat, n \in Lines : NewestAt(v, p, w, q, j) /\ LineAt(w, q, k, n) => k < j
<1>1. Len(queue[<<w, q>>]) \in Nat /\ Len(queue[<<v, p>>]) \in Nat
  <2>1. queue[<<w, q>>] \in Seq(Messages) /\ queue[<<v, p>>] \in Seq(Messages)
    BY DEF TypeOK
  <2> QED BY <2>1
<1>2. CASE w # v \/ q # p \/ writer[<<v, p>>] = "panicked"
  <2>1. queue'[<<w, q>>] = queue[<<w, q>>]
    BY <1>2 DEF Sent
  <2> QED BY <1>1, <1>2, <2>1 DEF NewestAt, LineAt, FlushAt, ReopenAt
<1>3. CASE w = v /\ q = p /\ writer[<<v, p>>] # "panicked"
  <2>1. /\ Len(queue'[<<v, p>>]) = Len(queue[<<v, p>>]) + 1
        /\ \A i \in 1..Len(queue[<<v, p>>]) : queue'[<<v, p>>][i] = queue[<<v, p>>][i]
        /\ queue'[<<v, p>>][Len(queue[<<v, p>>]) + 1] = m
    BY <1>3 DEF Sent
  <2>2. \A i \in 1..Len(queue'[<<v, p>>]) : i \in 1..Len(queue[<<v, p>>]) \/ i = Len(queue[<<v, p>>]) + 1
    BY <1>1, <2>1
  <2>3. 1..Len(queue[<<v, p>>]) \subseteq 1..Len(queue'[<<v, p>>])
    BY <1>1, <2>1
  <2>4. NewestAt(v, p, w, q, j) <=> j = Len(queue[<<v, p>>]) + 1
    BY <1>3 DEF NewestAt
  <2>5. \A n \in Lines :
            /\ LineAt(v, p, j, n)' => LineAt(v, p, j, n) \/ NewestAt(v, p, w, q, j)
            /\ LineAt(v, p, j, n) => LineAt(v, p, j, n)'
    BY <2>1, <2>2, <2>3, <2>4 DEF LineAt
  <2>7. ReopenAt(v, p, j) => ReopenAt(v, p, j)'
    BY <2>1, <2>3 DEF ReopenAt
  <2>8. NewestAt(v, p, w, q, j) => j \in 1..Len(queue'[<<v, p>>]) /\ queue'[<<v, p>>][j] = m
    BY <1>1, <2>1, <2>4
  <2>9. \A k \in Nat, n \in Lines : NewestAt(v, p, w, q, j) /\ LineAt(v, p, k, n) => k < j
    BY <1>1, <2>4 DEF LineAt
  <2> QED BY <1>3, <2>5, <2>7, <2>8, <2>9
<1> QED BY <1>2, <1>3

LEMMA SentLineAt ==
    ASSUME TypeOK, NEW v \in Versions, NEW p \in Paths, NEW m, Sent(v, p, m), NEW n \in Lines, m.line = n,
           NEW w \in Versions, NEW q \in Paths, NEW j \in Nat, NEW x \in Lines
    PROVE  /\ LineAt(w, q, j, x) => LineAt(w, q, j, x)'
           /\ LineAt(w, q, j, x)' => LineAt(w, q, j, x) \/ (NewestAt(v, p, w, q, j) /\ x = n)
<1>1. LineAt(w, q, j, x) => LineAt(w, q, j, x)'
    BY SentAt
<1>2. LineAt(w, q, j, x)' => LineAt(w, q, j, x) \/ NewestAt(v, p, w, q, j)
    BY SentAt
<1>3. NewestAt(v, p, w, q, j) => queue'[<<w, q>>][j] = m
    BY SentAt
<1>4. LineAt(w, q, j, x)' => queue'[<<w, q>>][j].line = x
    BY DEF LineAt
<1> QED BY <1>1, <1>2, <1>3, <1>4

LEMMA SentFlushAt ==
    ASSUME TypeOK, NEW v \in Versions, NEW p \in Paths, NEW m, Sent(v, p, m),
           NEW w \in Versions, NEW q \in Paths, NEW j \in Nat, NEW t \in Threads, FlushAt(w, q, j, t)'
    PROVE  FlushAt(w, q, j, t) \/ (NewestAt(v, p, w, q, j) /\ m.kind = "flush" /\ m.caller = t)
<1>1. /\ j \in 1..Len(queue'[<<w, q>>]) /\ queue'[<<w, q>>][j].kind = "flush"
      /\ queue'[<<w, q>>][j].caller = t
    BY DEF FlushAt
<1>2. CASE w # v \/ q # p \/ writer[<<v, p>>] = "panicked"
  <2>1. queue'[<<w, q>>] = queue[<<w, q>>]
    BY <1>2 DEF Sent
  <2> QED BY <1>1, <2>1 DEF FlushAt
<1>3. CASE w = v /\ q = p /\ writer[<<v, p>>] # "panicked"
  <2>1. Len(queue[<<v, p>>]) \in Nat
    <3>1. queue[<<v, p>>] \in Seq(Messages)
      BY DEF TypeOK
    <3> QED BY <3>1
  <2>2. /\ Len(queue'[<<v, p>>]) = Len(queue[<<v, p>>]) + 1
        /\ \A i \in 1..Len(queue[<<v, p>>]) : queue'[<<v, p>>][i] = queue[<<v, p>>][i]
        /\ queue'[<<v, p>>][Len(queue[<<v, p>>]) + 1] = m
    BY <1>3 DEF Sent
  <2>3. CASE j \in 1..Len(queue[<<v, p>>])
    <3>1. queue[<<v, p>>][j] = queue'[<<v, p>>][j]
      BY <2>2, <2>3
    <3> QED BY <1>1, <1>3, <2>3, <3>1 DEF FlushAt
  <2>4. CASE j = Len(queue[<<v, p>>]) + 1
    BY <1>1, <1>3, <2>2, <2>4 DEF NewestAt
  <2> QED BY <1>1, <1>3, <2>1, <2>2, <2>3, <2>4
<1> QED BY <1>2, <1>3

\* What a channel holds after a message is taken: the rest, each one place further.
LEMMA TakenAt ==
    ASSUME TypeOK, NEW v \in Versions, NEW p \in Paths, Taken(v, p),
           NEW w \in Versions, NEW q \in Paths, NEW j \in Nat
    PROVE  IF w = v /\ q = p
           THEN /\ \A n \in Lines : /\ LineAt(v, p, j, n)' => LineAt(v, p, j + 1, n)
                                    /\ LineAt(v, p, j + 1, n) /\ j # 0 => LineAt(v, p, j, n)'
                /\ \A t \in Threads : FlushAt(v, p, j, t)' => FlushAt(v, p, j + 1, t)
                /\ ReopenAt(v, p, j + 1) /\ j # 0 => ReopenAt(v, p, j)'
           ELSE /\ \A n \in Lines : LineAt(w, q, j, n)' <=> LineAt(w, q, j, n)
                /\ \A t \in Threads : FlushAt(w, q, j, t)' => FlushAt(w, q, j, t)
                /\ ReopenAt(w, q, j) => ReopenAt(w, q, j)'
<1>1. CASE w # v \/ q # p
  <2>1. queue'[<<w, q>>] = queue[<<w, q>>]
    BY <1>1 DEF Taken
  <2> QED BY <1>1, <2>1 DEF LineAt, FlushAt, ReopenAt
<1>2. CASE w = v /\ q = p
  <2>1. /\ Len(queue[<<v, p>>]) \in Nat \ {0} /\ Len(queue'[<<v, p>>]) = Len(queue[<<v, p>>]) - 1
        /\ \A i \in 1..Len(queue[<<v, p>>]) - 1 : queue'[<<v, p>>][i] = queue[<<v, p>>][i + 1]
    BY DEF Taken
  <2>2. j \in 1..Len(queue'[<<v, p>>]) <=> j # 0 /\ j + 1 \in 1..Len(queue[<<v, p>>])
    BY <2>1
  <2>3. j \in 1..Len(queue'[<<v, p>>]) => queue'[<<v, p>>][j] = queue[<<v, p>>][j + 1]
    BY <2>1
  <2> QED BY <1>2, <2>2, <2>3 DEF LineAt, FlushAt, ReopenAt
<1> QED BY <1>1, <1>2

\* A writer that panics has nothing in its channel; the others are as they were.
LEMMA PanicAt ==
    ASSUME NEW v \in Versions, NEW p \in Paths, WriterPanics(v, p),
           NEW w \in Versions, NEW q \in Paths, NEW j \in Nat
    PROVE  IF w = v /\ q = p
           THEN /\ \A n \in Lines : ~LineAt(v, p, j, n)'
                /\ \A t \in Threads : ~FlushAt(v, p, j, t)'
           ELSE /\ \A n \in Lines : LineAt(w, q, j, n)' <=> LineAt(w, q, j, n)
                /\ \A t \in Threads : FlushAt(w, q, j, t)' => FlushAt(w, q, j, t)
                /\ ReopenAt(w, q, j) => ReopenAt(w, q, j)'
<1>1. CASE w # v \/ q # p
  <2>1. queue'[<<w, q>>] = queue[<<w, q>>]
    BY <1>1 DEF WriterPanics
  <2> QED BY <1>1, <2>1 DEF LineAt, FlushAt, ReopenAt
<1>2. CASE w = v /\ q = p
  <2>1. Len(queue'[<<v, p>>]) = 0
    BY DEF WriterPanics
  <2> QED BY <1>2, <2>1 DEF LineAt, FlushAt
<1> QED BY <1>1, <1>2

\* Each flush in a channel was there, in a place of its own.
LEMMA AwaitedFrame ==
    ASSUME Awaited, \A t \in Threads : Waiting(t) => Waiting(t)',
           \A v \in Versions, p \in Paths, t \in Threads : \A j \in Nat :
               FlushAt(v, p, j, t)' => FlushAt(v, p, j, t)
    PROVE  Awaited'
<1>1. ASSUME NEW v \in Versions, NEW p \in Paths, NEW t \in Threads, NEW j \in Nat, FlushAt(v, p, j, t)'
      PROVE  Waiting(t)' /\ FlushAt(v, p, j, t)
    BY <1>1 DEF Awaited
<1>2. ASSUME NEW v \in Versions, NEW w \in Versions, NEW p \in Paths, NEW q \in Paths,
             NEW t \in Threads, NEW j \in Nat, NEW k \in Nat, FlushAt(v, p, j, t)', FlushAt(w, q, k, t)'
      PROVE  v = w /\ p = q /\ j = k
  <2>1. FlushAt(v, p, j, t) /\ FlushAt(w, q, k, t)
    BY <1>1, <1>2
  <2> QED BY <2>1 DEF Awaited
<1> QED BY <1>1, <1>2 DEF Awaited

LEMMA AwaitedSent ==
    ASSUME TypeOK, Awaited, NEW v \in Versions, NEW p \in Paths, NEW m, Sent(v, p, m), m.kind # "flush",
           \A t \in Threads : Waiting(t) => Waiting(t)'
    PROVE  Awaited'
<1>1. ASSUME NEW w \in Versions, NEW q \in Paths, NEW t \in Threads, NEW j \in Nat, FlushAt(w, q, j, t)'
      PROVE  FlushAt(w, q, j, t)
  <2>1. FlushAt(w, q, j, t) \/ (NewestAt(v, p, w, q, j) /\ m.kind = "flush" /\ m.caller = t)
    BY <1>1, SentFlushAt
  <2> QED BY <2>1
<1> QED BY <1>1, AwaitedFrame

LEMMA AwaitedTaken ==
    ASSUME TypeOK, Awaited, NEW v \in Versions, NEW p \in Paths, Taken(v, p),
           \A t \in Threads : Waiting(t) => Waiting(t)' \/ FlushAt(v, p, 1, t)
    PROVE  Awaited'
<1> DEFINE Was(w, q, j) == IF w = v /\ q = p THEN j + 1 ELSE j
<1>1. ASSUME NEW w \in Versions, NEW q \in Paths, NEW t \in Threads, NEW j \in Nat, FlushAt(w, q, j, t)'
      PROVE  FlushAt(w, q, Was(w, q, j), t) /\ Was(w, q, j) \in Nat
    BY <1>1, TakenAt
<1>2. ASSUME NEW w \in Versions, NEW q \in Paths, NEW t \in Threads, NEW j \in Nat, FlushAt(w, q, j, t)'
      PROVE  Waiting(t)'
  <2>1. FlushAt(w, q, Was(w, q, j), t) /\ Was(w, q, j) \in Nat /\ j # 0
    BY <1>1, <1>2 DEF FlushAt
  <2>2. ~FlushAt(v, p, 1, t)
    <3>1. SUFFICES ASSUME FlushAt(v, p, 1, t) PROVE FALSE
      OBVIOUS
    <3>2. w = v /\ p = q /\ Was(w, q, j) = 1
      BY <2>1, <3>1 DEF Awaited
    <3> QED BY <2>1, <3>2
  <2> QED BY <2>1, <2>2 DEF Awaited
<1>3. ASSUME NEW w \in Versions, NEW u \in Versions, NEW q \in Paths, NEW r \in Paths,
             NEW t \in Threads, NEW j \in Nat, NEW k \in Nat, FlushAt(w, q, j, t)', FlushAt(u, r, k, t)'
      PROVE  w = u /\ q = r /\ j = k
  <2>1. /\ FlushAt(w, q, Was(w, q, j), t) /\ FlushAt(u, r, Was(u, r, k), t)
        /\ Was(w, q, j) \in Nat /\ Was(u, r, k) \in Nat
    BY <1>1, <1>3
  <2>2. w = u /\ q = r /\ Was(w, q, j) = Was(u, r, k)
    BY <2>1 DEF Awaited
  <2> QED BY <2>2
<1> QED BY <1>2, <1>3 DEF Awaited

LEMMA AwaitedFlush ==
    ASSUME TypeOK, Awaited, NEW v \in Versions, NEW p \in Paths, NEW m, Sent(v, p, m),
           NEW t \in Threads, m.caller = t, ~Waiting(t), Waiting(t)',
           \A u \in Threads : Waiting(u) => Waiting(u)'
    PROVE  Awaited'
<1>1. ASSUME NEW w \in Versions, NEW q \in Paths, NEW u \in Threads, NEW j \in Nat, FlushAt(w, q, j, u)'
      PROVE  FlushAt(w, q, j, u) \/ (NewestAt(v, p, w, q, j) /\ u = t)
  <2>1. FlushAt(w, q, j, u) \/ (NewestAt(v, p, w, q, j) /\ m.kind = "flush" /\ m.caller = u)
    BY <1>1, SentFlushAt
  <2> QED BY <2>1
<1>2. \A w \in Versions, q \in Paths : \A j \in Nat : ~FlushAt(w, q, j, t)
    BY DEF Awaited
<1>3. ASSUME NEW w \in Versions, NEW q \in Paths, NEW u \in Threads, NEW j \in Nat, FlushAt(w, q, j, u)'
      PROVE  Waiting(u)'
    BY <1>1, <1>3 DEF Awaited
<1>4. ASSUME NEW w \in Versions, NEW x \in Versions, NEW q \in Paths, NEW r \in Paths,
             NEW u \in Threads, NEW j \in Nat, NEW i \in Nat, FlushAt(w, q, j, u)', FlushAt(x, r, i, u)'
      PROVE  w = x /\ q = r /\ j = i
  <2>1. CASE u = t
    <3>1. NewestAt(v, p, w, q, j) /\ NewestAt(v, p, x, r, i)
      BY <1>1, <1>2, <1>4, <2>1
    <3> QED BY <3>1 DEF NewestAt
  <2>2. CASE u # t
    <3>1. FlushAt(w, q, j, u) /\ FlushAt(x, r, i, u)
      BY <1>1, <1>4, <2>2
    <3> QED BY <3>1 DEF Awaited
  <2> QED BY <2>1, <2>2
<1> QED BY <1>3, <1>4 DEF Awaited

LEMMA AwaitedStep ==
    ASSUME TypeOK, Numbers, Awaited, Loggers, [Next]_vars
    PROVE  Awaited'
<1> USE DEF global, sinks, disk, counts, ghosts
<1>a. queue' = queue => \A v \in Versions, p \in Paths, t \in Threads : \A j \in Nat :
                          FlushAt(v, p, j, t)' => FlushAt(v, p, j, t)
    BY DEF FlushAt
<1>b. op' = op => \A t \in Threads : Waiting(t) => Waiting(t)'
    BY DEF Waiting
<1>c. \A t \in Threads, v \in Versions, p \in Paths : \A k \in 1..Len(Configs[v]) :
        \A kind : At(t, kind, v, k, p) => ~Waiting(t)
    BY DEF At, Waiting
<1>1. CASE SetupStart \/ BuildFails \/ Publish \/ MovesAway \/ UNCHANGED vars
  <2>1. queue' = queue /\ op' = op
    BY <1>1 DEF SetupStart, BuildFails, Publish, MovesAway, vars
  <2> QED BY <1>a, <1>b, <2>1, AwaitedFrame
<1>2. ASSUME NEW v \in Versions, NEW p \in Paths, NEW k \in 1..Len(Configs[v]), Builds(v, k, p)
      PROVE  Awaited'
  <2>1. op' = op /\ (Sent(v, p, [kind |-> "reopen"]) \/ queue' = queue)
    BY <1>2 DEF Builds
  <2>2. [kind |-> "reopen"].kind # "flush"
    OBVIOUS
  <2>3. CASE Sent(v, p, [kind |-> "reopen"])
    BY <1>b, <2>1, <2>2, <2>3, AwaitedSent
  <2> QED BY <1>a, <1>b, <2>1, <2>3, AwaitedFrame
<1>3. ASSUME NEW t \in Threads, StartsOther(t) \/ Gives(t) \/ Returns(t) \/ \E n \in Lines : StartsLog(t, n)
      PROVE  Awaited'
  <2>1. queue' = queue
    BY <1>3 DEF StartsOther, Gives, Returns, StartsLog
  <2>2. ASSUME NEW u \in Threads, Waiting(u)
        PROVE  Waiting(u)'
    <3>1. u # t
      <4>1. CASE StartsOther(t) \/ \E n \in Lines : StartsLog(t, n)
        BY <2>2, <4>1 DEF Waiting, StartsOther, StartsLog, Begins
      <4>2. CASE Gives(t)
        BY <2>2, <4>2 DEF Waiting, Gives
      <4>3. CASE Returns(t)
        <5>1. SUFFICES ASSUME u = t PROVE FALSE
          OBVIOUS
        <5>2. op[t].at \in Nat \ {0} /\ op[t].version \in Versions
          <6>1. op[t] # Idle
            BY <2>2, <5>1 DEF Waiting
          <6> QED BY <6>1, OpFacts
        <5>3. op[t].at \in 1..Len(Configs[op[t].version])
          BY <2>2, <5>1, <5>2, Bounds DEF Waiting
        <5> QED BY <4>3, <5>2, <5>3 DEF Returns
      <4> QED BY <1>3, <4>1, <4>2, <4>3
    <3>2. /\ op'[u] = Idle <=> op[u] = Idle
          /\ op[u] # Idle => op'[u].kind = op[u].kind /\ op'[u].version = op[u].version
                             /\ op'[u].at = op[u].at /\ op'[u].waiting = op[u].waiting
      BY <1>3, <3>1 DEF StartsOther, Gives, Returns, StartsLog, Begins, Ends
    <3> QED BY <2>2, <3>2 DEF Waiting
  <2> QED BY <1>a, <2>1, <2>2, AwaitedFrame
<1>4. ASSUME NEW t \in Threads, NEW v \in Versions, NEW p \in Paths, NEW k \in 1..Len(Configs[v]),
             \/ LogsTo(t, v, k, p) \/ Flushes(t, v, k, p)
             \/ Reopens(t, v, k, p) \/ OpensRaw(t, v, k, p) \/ Stores(t, v, k, p)
      PROVE  Awaited'
  <2>1. ~Waiting(t) /\ (GoesOn(t) \/ op' = op)
    BY <1>c, <1>4 DEF LogsTo, Flushes, Reopens, OpensRaw, Stores, Advances
  <2>2. \A u \in Threads : Waiting(u) => Waiting(u)'
    BY <2>1 DEF GoesOn, Waiting
  <2>3. CASE queue' = queue
    BY <1>a, <2>2, <2>3, AwaitedFrame
  <2>4. CASE LogsTo(t, v, k, p)
    <3> DEFINE m == [kind |-> "line", line |-> op[t].line]
    <3>1. Sent(v, p, m) \/ queue' = queue
      BY <2>4 DEF LogsTo
    <3>2. m.kind # "flush"
      OBVIOUS
    <3> HIDE DEF m
    <3> QED BY <2>2, <2>3, <3>1, <3>2, AwaitedSent
  <2>5. CASE Reopens(t, v, k, p)
    <3> DEFINE m == [kind |-> "reopen"]
    <3>1. Sent(v, p, m) \/ queue' = queue
      BY <2>5 DEF Reopens
    <3>2. m.kind # "flush"
      OBVIOUS
    <3> HIDE DEF m
    <3> QED BY <2>2, <2>3, <3>1, <3>2, AwaitedSent
  <2>6. CASE Flushes(t, v, k, p) /\ queue' # queue
    <3> DEFINE m == [kind |-> "flush", caller |-> t]
    <3>1. Sent(v, p, m) /\ op'[t].at = op[t].at /\ op'[t].waiting /\ op[t].kind = "flush" /\ GoesOn(t)
      BY <2>6 DEF Flushes, At
    <3>2. Waiting(t)'
      <4>1. op[t].at <= Len(Configs[op[t].version])
        BY <2>6, Bounds DEF Flushes, At
      <4> QED BY <3>1, <4>1 DEF GoesOn, Waiting
    <3>3. m.caller = t
      OBVIOUS
    <3> HIDE DEF m
    <3> QED BY <2>1, <2>2, <3>1, <3>2, <3>3, AwaitedFlush
  <2>7. CASE OpensRaw(t, v, k, p) \/ Stores(t, v, k, p)
    BY <2>3, <2>7 DEF OpensRaw, Stores
  <2> QED BY <1>4, <2>3, <2>4, <2>5, <2>6, <2>7
<1>5. ASSUME NEW v \in Versions, NEW p \in Paths, NEW n \in Lines, TakesLine(v, p, n)
      PROVE  Awaited'
  <2>1. Taken(v, p) /\ op' = op
    BY <1>5 DEF TakesLine
  <2> QED BY <1>b, <2>1, AwaitedTaken
<1>6. ASSUME NEW v \in Versions, NEW p \in Paths, NEW t \in Threads, TakesFlush(v, p, t)
      PROVE  Awaited'
  <2>1. Taken(v, p) /\ FlushAt(v, p, 1, t) /\ GoesOn(t)
    BY <1>6 DEF TakesFlush
  <2>2. \A u \in Threads : Waiting(u) => Waiting(u)' \/ FlushAt(v, p, 1, u)
    BY <2>1 DEF GoesOn, Waiting
  <2> QED BY <2>1, <2>2, AwaitedTaken
<1>7. ASSUME NEW v \in Versions, NEW p \in Paths, WriterStarts(v, p) \/ Empties(v, p) \/ Rotates(v, p)
      PROVE  Awaited'
  <2>1. queue' = queue /\ op' = op
    BY <1>7 DEF WriterStarts, Empties, Rotates
  <2> QED BY <1>a, <1>b, <2>1, AwaitedFrame
<1>8. ASSUME NEW v \in Versions, NEW p \in Paths, TakesReopen(v, p)
      PROVE  Awaited'
  <2>1. Taken(v, p) /\ op' = op
    BY <1>8 DEF TakesReopen
  <2> QED BY <1>b, <2>1, AwaitedTaken
<1>9. ASSUME NEW v \in Versions, NEW p \in Paths, WriterPanics(v, p)
      PROVE  Awaited'
  <2>1. op' = op
    BY <1>9 DEF WriterPanics
  <2>2. ASSUME NEW w \in Versions, NEW q \in Paths, NEW u \in Threads, NEW j \in Nat, FlushAt(w, q, j, u)'
        PROVE  FlushAt(w, q, j, u)
    BY <1>9, <2>2, PanicAt
  <2> QED BY <1>b, <2>1, <2>2, AwaitedFrame
<1>10. CASE Next
  <2>1. Steps
    BY <1>10, NextSteps
  <2> QED BY <1>1, <1>2, <1>3, <1>4, <1>5, <1>6, <1>7, <1>8, <1>9, <2>1 DEF Steps
<1> QED BY <1>1, <1>10

LEMMA CalmStep ==
    ASSUME Calm, [Next]_vars
    PROVE  Calm'
BY TypeStep, NumbersStep, PublishedStep, LoggersStep, AwaitedStep DEF Calm

-----------------------------------------------------------------------------
\* Where the records are.

LEMMA NotLogging ==
    ASSUME Loggers, NEW t \in Threads, op[t] # Idle, op[t].kind # "log"
    PROVE  \A n \in Lines : ~Logging(t, n)
<1>1. op[t].line = 0
    BY DEF Loggers
<1> QED BY <1>1, Bounds DEF Logging

\* The call of the record stays where it is.
Still(n) ==
    /\ went'[n] = went[n] /\ (n <= lines' <=> n <= lines)
    /\ \A t \in Threads : /\ Logging(t, n)' <=> Logging(t, n)
                          /\ Logging(t, n) => op'[t].at = op[t].at

LEMMA StillPassed ==
    ASSUME NEW n \in Lines, NEW p \in Paths, Still(n)
    PROVE  Passed(n, p)' <=> Passed(n, p)
BY DEF Still, Passed

\* The channel of p holds the record where it held it, but for a message in front of it that is taken.
ChannelKept(n, v, p) ==
    \/ \A j \in Nat : LineAt(v, p, j, n)' <=> LineAt(v, p, j, n)
    \/ ~LineAt(v, p, 1, n) /\ \A j \in Nat : LineAt(v, p, j, n)' <=> j # 0 /\ LineAt(v, p, j + 1, n)

LEMMA ChannelKeeps ==
    ASSUME NEW n \in Lines, NEW v \in Versions, NEW p \in Paths, ChannelKept(n, v, p),
           \A j, k \in Nat : LineAt(v, p, j, n) /\ LineAt(v, p, k, n) => j = k
    PROVE  /\ Queued(n, v, p)' <=> Queued(n, v, p)
           /\ \A j, k \in Nat : LineAt(v, p, j, n)' /\ LineAt(v, p, k, n)' => j = k
<1>1. CASE \A j \in Nat : LineAt(v, p, j, n)' <=> LineAt(v, p, j, n)
    BY <1>1 DEF Queued
<1>2. CASE ~LineAt(v, p, 1, n) /\ \A j \in Nat : LineAt(v, p, j, n)' <=> j # 0 /\ LineAt(v, p, j + 1, n)
  <2>1. ASSUME NEW j \in Nat, LineAt(v, p, j, n)
        PROVE  Queued(n, v, p)'
    <3>1. j # 0
      BY <2>1 DEF LineAt
    <3>2. j # 1 /\ j - 1 \in Nat /\ (j - 1) + 1 = j /\ j - 1 # 0
      BY <1>2, <2>1, <3>1
    <3>3. LineAt(v, p, j - 1, n)'
      BY <1>2, <2>1, <3>2
    <3> QED BY <3>2, <3>3 DEF Queued
  <2>2. ASSUME NEW j \in Nat, LineAt(v, p, j, n)'
        PROVE  LineAt(v, p, j + 1, n) /\ j + 1 \in Nat
    BY <1>2, <2>2
  <2>3. ASSUME NEW j \in Nat, NEW k \in Nat, LineAt(v, p, j, n)', LineAt(v, p, k, n)'
        PROVE  j = k
    <3>1. j + 1 = k + 1
      BY <2>2, <2>3
    <3> QED BY <3>1
  <2> QED BY <2>1, <2>2, <2>3 DEF Queued
<1> QED BY <1>1, <1>2 DEF ChannelKept

\* Nothing happens to the record at this sink.
Unmoved(n, p) ==
    /\ went'[n] = went[n] /\ (Passed(n, p)' <=> Passed(n, p))
    /\ \A v \in Versions : ChannelKept(n, v, p) /\ (n \in buf'[<<v, p>>] <=> n \in buf[<<v, p>>])
    /\ \A i \in Files : n \in content'[<<p, i>>] <=> n \in content[<<p, i>>]
    /\ \A v \in Versions : v = went[n] /\ Passed(n, p) /\ writer[<<v, p>>] = "panicked" =>
        writer'[<<v, p>>] = "panicked"

LEMMA UnmovedStays ==
    ASSUME NEW n \in Lines, NEW p \in Paths, Unmoved(n, p), InOnePlace(n, p)
    PROVE  InOnePlace(n, p)'
<1>1. went'[n] = went[n] /\ (Passed(n, p)' <=> Passed(n, p))
    BY DEF Unmoved
<1>2. \A v \in Versions : n \in buf'[<<v, p>>] <=> n \in buf[<<v, p>>]
    BY DEF Unmoved
<1>3. ASSUME NEW v \in Versions
      PROVE  /\ Queued(n, v, p)' <=> Queued(n, v, p)
             /\ \A j, k \in Nat : LineAt(v, p, j, n)' /\ LineAt(v, p, k, n)' => j = k
    BY ChannelKeeps DEF Unmoved, InOnePlace
<1>4. \A v \in Versions : HasCopy(n, v, p)' <=> HasCopy(n, v, p)
    BY <1>2, <1>3 DEF HasCopy
<1>5. /\ Written(n, p)' <=> Written(n, p)
      /\ \A i \in Files : n \in content'[<<p, i>>] <=> n \in content[<<p, i>>]
    BY DEF Unmoved, Written
<1>6. \A v \in Versions : HasCopy(n, v, p)' => v = went'[n] /\ Passed(n, p)'
    BY <1>1, <1>4 DEF InOnePlace
<1>7. \A v \in Versions : ~(Queued(n, v, p)' /\ n \in buf'[<<v, p>>]) /\ ~(HasCopy(n, v, p)' /\ Written(n, p)')
    BY <1>2, <1>3, <1>4, <1>5 DEF InOnePlace
<1>8. \A i, j \in Files : n \in content'[<<p, i>>] /\ n \in content'[<<p, j>>] => i = j
    BY <1>5 DEF InOnePlace
<1>9. ASSUME Passed(n, p)', NEW v \in Versions, v = went'[n]
      PROVE  writer'[<<v, p>>] = "panicked" \/ HasCopy(n, v, p)' \/ Written(n, p)'
  <2>1. writer[<<v, p>>] = "panicked" \/ HasCopy(n, v, p) \/ Written(n, p)
    BY <1>1, <1>9 DEF InOnePlace
  <2>2. writer[<<v, p>>] = "panicked" => writer'[<<v, p>>] = "panicked"
    BY <1>1, <1>9 DEF Unmoved
  <2> QED BY <1>4, <1>5, <2>1, <2>2
<1> QED BY <1>1, <1>3, <1>5, <1>6, <1>7, <1>8, <1>9 DEF InOnePlace

\* A step that moves no record.
LEMMA RecordsFrame ==
    ASSUME Records, buf' = buf, content' = content,
           \A n \in Lines, p \in Paths : went'[n] = went[n] /\ (Passed(n, p)' <=> Passed(n, p)),
           \A n \in Lines, v \in Versions, p \in Paths : ChannelKept(n, v, p),
           \A n \in Lines, v \in Versions, p \in Paths :
               v = went[n] /\ Passed(n, p) /\ writer[<<v, p>>] = "panicked" => writer'[<<v, p>>] = "panicked"
    PROVE  Records'
<1>1. ASSUME NEW n \in Lines, NEW p \in Paths
      PROVE  InOnePlace(n, p)'
  <2>1. Unmoved(n, p)
    BY DEF Unmoved
  <2> QED BY <2>1, UnmovedStays DEF Records
<1> QED BY <1>1 DEF Records

\* The buffer of a writer is written: its lines move to the file.
LEMMA OutRecords ==
    ASSUME TypeOK, Records, NEW v \in Versions, NEW p \in Paths,
           Adds(p, inode[<<v, p>>], buf[<<v, p>>]), Puts(v, p, {}),
           \A n \in Lines, w \in Versions, q \in Paths : ChannelKept(n, w, q),
           \A n \in Lines : Still(n),
           \A w \in Versions, q \in Paths : writer[<<w, q>>] = "panicked" => writer'[<<w, q>>] = "panicked"
    PROVE  Records'
<1>1. PICK i \in Files : i = inode[<<v, p>>]
    BY DEF TypeOK
<1>2. \A q \in Paths, j \in Files :
        content'[<<q, j>>] = IF q = p /\ j = i THEN content[<<q, j>>] \cup buf[<<v, p>>] ELSE content[<<q, j>>]
    BY <1>1 DEF Adds
<1>3. \A w \in Versions, q \in Paths : buf'[<<w, q>>] = IF w = v /\ q = p THEN {} ELSE buf[<<w, q>>]
    BY DEF Puts
<1>4. \A n \in Lines, q \in Paths : went'[n] = went[n] /\ (Passed(n, q)' <=> Passed(n, q))
    BY StillPassed DEF Still
<1>5. ASSUME NEW n \in Lines, NEW q \in Paths, q # p \/ n \notin buf[<<v, p>>]
      PROVE  InOnePlace(n, q)'
  <2>1. \A w \in Versions : n \in buf'[<<w, q>>] <=> n \in buf[<<w, q>>]
    BY <1>3, <1>5
  <2>2. \A j \in Files : n \in content'[<<q, j>>] <=> n \in content[<<q, j>>]
    BY <1>2, <1>5
  <2>3. Unmoved(n, q)
    BY <1>4, <2>1, <2>2 DEF Unmoved
  <2> QED BY <2>3, UnmovedStays DEF Records
<1>6. ASSUME NEW n \in Lines, n \in buf[<<v, p>>]
      PROVE  InOnePlace(n, p)'
  <2>1. InOnePlace(n, p)
    BY DEF Records
  <2>2. HasCopy(n, v, p) /\ v = went[n] /\ Passed(n, p) /\ ~Queued(n, v, p) /\ ~Written(n, p)
    BY <1>6, <2>1 DEF InOnePlace, HasCopy
  <2>3. ASSUME NEW w \in Versions
        PROVE  ~Queued(n, w, p) /\ (w # v => n \notin buf[<<w, p>>])
    BY <2>1, <2>2 DEF InOnePlace, HasCopy
  <2>4. ASSUME NEW w \in Versions
        PROVE  /\ ~Queued(n, w, p)' /\ n \notin buf'[<<w, p>>] /\ ~HasCopy(n, w, p)'
               /\ \A j, k \in Nat : LineAt(w, p, j, n)' /\ LineAt(w, p, k, n)' => j = k
    <3>1. Queued(n, w, p)' <=> Queued(n, w, p)
      BY <2>1, ChannelKeeps DEF InOnePlace
    <3>2. ~Queued(n, w, p)' /\ n \notin buf'[<<w, p>>]
      BY <1>3, <2>3, <3>1
    <3> QED BY <3>2 DEF HasCopy, Queued
  <2>5. \A j \in Files : n \in content'[<<p, j>>] <=> j = i
    BY <1>2, <1>6, <2>2 DEF Written
  <2>6. Written(n, p)'
    BY <2>5 DEF Written
  <2> QED BY <1>4, <2>2, <2>4, <2>5, <2>6 DEF InOnePlace
<1> QED BY <1>5, <1>6 DEF Records

LEMMA EmptiedRecords ==
    ASSUME TypeOK, Records, NEW v \in Versions, NEW p \in Paths, Emptied(v, p),
           \A n \in Lines, w \in Versions, q \in Paths : ChannelKept(n, w, q),
           \A n \in Lines : Still(n),
           \A w \in Versions, q \in Paths : writer[<<w, q>>] = "panicked" => writer'[<<w, q>>] = "panicked"
    PROVE  Records'
<1>1. CASE UNCHANGED <<buf, content>>
  <2>1. \A n \in Lines, q \in Paths : went'[n] = went[n] /\ (Passed(n, q)' <=> Passed(n, q))
    BY StillPassed DEF Still
  <2> QED BY <1>1, <2>1, RecordsFrame
<1>2. CASE Adds(p, inode[<<v, p>>], buf[<<v, p>>]) /\ Puts(v, p, {})
    BY <1>2, OutRecords
<1> QED BY <1>1, <1>2 DEF Emptied

\* A writer takes a line: it moves from the channel to the buffer.
LEMMA TakesLineRecords ==
    ASSUME TypeOK, Records, NEW v \in Versions, NEW p \in Paths, NEW m \in Lines, TakesLine(v, p, m)
    PROVE  Records'
<1> USE DEF global, sinks, disk, counts, ghosts
<1>1. /\ Taken(v, p) /\ LineAt(v, p, 1, m) /\ content' = content /\ writer' = writer
      /\ op' = op /\ went' = went /\ lines' = lines
    BY DEF TakesLine
<1>2. \A w \in Versions, q \in Paths :
        buf'[<<w, q>>] = IF w = v /\ q = p THEN buf[<<v, p>>] \cup {m} ELSE buf[<<w, q>>]
    BY DEF TakesLine, Puts
<1>3. \A n \in Lines : Still(n)
    BY <1>1 DEF Still, Logging
<1>4. \A n \in Lines, q \in Paths : Passed(n, q)' <=> Passed(n, q)
    BY <1>3, StillPassed
<1>5. ASSUME NEW n \in Lines, NEW w \in Versions, NEW q \in Paths, n # m \/ w # v \/ q # p
      PROVE  ChannelKept(n, w, q)
  <2>1. CASE w = v /\ q = p
    <3>1. \A j \in Nat : /\ LineAt(v, p, j, n)' => LineAt(v, p, j + 1, n)
                         /\ LineAt(v, p, j + 1, n) /\ j # 0 => LineAt(v, p, j, n)'
      BY <1>1, TakenAt
    <3>2. ~LineAt(v, p, 1, n)
      BY <1>1, <1>5, <2>1 DEF LineAt
    <3>3. \A j \in Nat : LineAt(v, p, j, n)' => j # 0
      BY DEF LineAt
    <3> QED BY <2>1, <3>1, <3>2, <3>3 DEF ChannelKept
  <2>2. CASE ~(w = v /\ q = p)
    <3>1. \A j \in Nat : LineAt(w, q, j, n)' <=> LineAt(w, q, j, n)
      BY <1>1, <2>2, TakenAt
    <3> QED BY <3>1 DEF ChannelKept
  <2> QED BY <2>1, <2>2
<1>6. ASSUME NEW n \in Lines, NEW q \in Paths, n # m \/ q # p
      PROVE  InOnePlace(n, q)'
  <2>1. \A w \in Versions : n \in buf'[<<w, q>>] <=> n \in buf[<<w, q>>]
    BY <1>2, <1>6
  <2>2. Unmoved(n, q)
    BY <1>1, <1>4, <1>5, <1>6, <2>1 DEF Unmoved
  <2> QED BY <2>2, UnmovedStays DEF Records
<1>7. InOnePlace(m, p)'
  <2>1. InOnePlace(m, p)
    BY DEF Records
  <2>2. Queued(m, v, p) /\ HasCopy(m, v, p) /\ v = went[m] /\ Passed(m, p) /\ ~Written(m, p)
        /\ m \notin buf[<<v, p>>]
    BY <1>1, <2>1 DEF InOnePlace, HasCopy, Queued
  <2>3. \A w \in Versions : w # v => ~HasCopy(m, w, p)
    BY <2>1, <2>2 DEF InOnePlace
  <2>4. \A j \in Nat : ~LineAt(v, p, j, m)'
    <3>1. SUFFICES ASSUME NEW j \in Nat, LineAt(v, p, j, m)' PROVE FALSE
      OBVIOUS
    <3>2. LineAt(v, p, j + 1, m) /\ j # 0
      <4>1. LineAt(v, p, j + 1, m)
        BY <1>1, <3>1, TakenAt
      <4>2. j # 0
        BY <3>1 DEF LineAt
      <4> QED BY <4>1, <4>2
    <3>3. j + 1 = 1
      BY <1>1, <2>1, <3>2 DEF InOnePlace
    <3> QED BY <3>2, <3>3
  <2>5. ASSUME NEW w \in Versions, w # v
        PROVE  ~Queued(m, w, p)' /\ m \notin buf'[<<w, p>>]
    <3>1. Queued(m, w, p)' <=> Queued(m, w, p)
      BY <1>5, <2>1, <2>5, ChannelKeeps DEF InOnePlace
    <3> QED BY <1>2, <2>3, <2>5, <3>1 DEF HasCopy
  <2>6. ~Queued(m, v, p)' /\ m \in buf'[<<v, p>>]
    BY <1>2, <2>4 DEF Queued
  <2>7. \A w \in Versions : ~Queued(m, w, p)' /\ (HasCopy(m, w, p)' <=> w = v)
    BY <2>5, <2>6 DEF HasCopy
  <2>8. \A w \in Versions : \A j \in Nat : ~LineAt(w, p, j, m)'
    BY <2>7 DEF Queued
  <2>9. (Written(m, p)' <=> Written(m, p)) /\ \A i \in Files : m \notin content'[<<p, i>>]
    BY <1>1, <2>2 DEF Written
  <2> QED BY <1>1, <1>4, <2>2, <2>7, <2>8, <2>9 DEF InOnePlace
<1> QED BY <1>6, <1>7 DEF Records

\* A call hands its record to a sink: it is in the file, or in the channel.
LEMMA LogsToRecords ==
    ASSUME Calm, Records, NEW t \in Threads, NEW v \in Versions, NEW p \in Paths,
           NEW k \in 1..Len(Configs[v]), LogsTo(t, v, k, p)
    PROVE  Records'
<1> USE DEF global, sinks, disk, counts, ghosts
<1>a. TypeOK /\ Loggers
    BY DEF Calm
<1>1. PICK n \in Lines : n = op[t].line
    BY DEF LogsTo
<1>2. /\ op[t] # Idle /\ v = op[t].version /\ k = op[t].at /\ p = Configs[v][k].path /\ p \in SinksOf(v)
      /\ Logging(t, n) /\ n <= lines /\ v = went[n]
      /\ \A u \in Threads : Logging(u, n) => u = t
    BY <1>a, <1>1 DEF LogsTo, At, Logging, Loggers
<1>3. /\ op'[t] # Idle /\ op'[t].line = n /\ op'[t].at = k + 1
      /\ \A u \in Threads : u # t => op'[u] = op[u]
    BY <1>1, <1>2 DEF LogsTo, Advances, GoesOn
<1>4. UNCHANGED <<buf, writer, inode, lines, went>>
    BY DEF LogsTo
<1>5. \A u \in Threads : Logging(u, n)' <=> u = t
    BY <1>2, <1>3 DEF Logging
<1>6. k \in Nat /\ Len(Configs[v]) \in Nat /\ \A j \in 1..Len(Configs[v]) : j \in Nat /\ (j < k + 1 <=> j < k \/ j = k)
    BY Bounds
<1>7. \A j \in 1..Len(Configs[v]) : Configs[v][j].path = p <=> j = k
    BY <1>2, SinkKinds
<1>8. ASSUME NEW q \in Paths
      PROVE  /\ Passed(n, q) <=> q \in SinksOf(v) /\ \A j \in 1..Len(Configs[v]) : Configs[v][j].path = q => j < k
             /\ Passed(n, q)' <=> q \in SinksOf(v) /\ \A j \in 1..Len(Configs[v]) : Configs[v][j].path = q => j < k + 1
  <2>1. Passed(n, q) <=> q \in SinksOf(v) /\ \A j \in 1..Len(Configs[v]) : Configs[v][j].path = q => j < k
    BY <1>2 DEF Passed
  <2>2. Passed(n, q)' <=> q \in SinksOf(v) /\ \A j \in 1..Len(Configs[v]) : Configs[v][j].path = q => j < k + 1
    BY <1>2, <1>3, <1>4, <1>5 DEF Passed
  <2> QED BY <2>1, <2>2
<1>9. /\ ~Passed(n, p) /\ Passed(n, p)'
      /\ \A q \in Paths : q # p => (Passed(n, q)' <=> Passed(n, q))
  <2>1. ~(k < k) /\ k < k + 1
    BY <1>6
  <2>a. /\ Passed(n, p) <=> p \in SinksOf(v) /\ \A j \in 1..Len(Configs[v]) : Configs[v][j].path = p => j < k
        /\ Passed(n, p)' <=> p \in SinksOf(v) /\ \A j \in 1..Len(Configs[v]) : Configs[v][j].path = p => j < k + 1
    BY <1>8
  <2>2. ~Passed(n, p) /\ Passed(n, p)'
    BY <1>2, <1>7, <2>1, <2>a
  <2>3. ASSUME NEW q \in Paths, q # p
        PROVE  Passed(n, q)' <=> Passed(n, q)
    <3>1. \A j \in 1..Len(Configs[v]) : Configs[v][j].path = q => (j < k + 1 <=> j < k)
      BY <1>6, <1>7, <2>3
    <3> QED BY <1>8, <3>1
  <2> QED BY <2>2, <2>3
<1>10. ASSUME NEW m \in Lines, m # n
       PROVE  Still(m)
  <2>1. ~Logging(t, m) /\ ~Logging(t, m)'
    BY <1>1, <1>3, <1>10 DEF Logging
  <2> QED BY <1>3, <1>4, <2>1 DEF Still, Logging
<1>11. \A m \in Lines, q \in Paths : m # n \/ q # p => (Passed(m, q)' <=> Passed(m, q))
    BY <1>9, <1>10, StillPassed
<1>12. InOnePlace(n, p)
    BY DEF Records
<1>13. ~Written(n, p) /\ \A w \in Versions : ~HasCopy(n, w, p)
    BY <1>9, <1>12 DEF InOnePlace
<1>14. CASE Adds(p, inode[<<v, p>>], {n}) /\ UNCHANGED queue
  <2>1. PICK i \in Files : i = inode[<<v, p>>]
    BY <1>a DEF TypeOK
  <2>2. \A q \in Paths, j \in Files :
          content'[<<q, j>>] = IF q = p /\ j = i THEN content[<<q, j>>] \cup {n} ELSE content[<<q, j>>]
    BY <1>14, <2>1 DEF Adds
  <2>3. \A m \in Lines, w \in Versions, q \in Paths : \A j \in Nat : LineAt(w, q, j, m)' <=> LineAt(w, q, j, m)
    BY <1>14 DEF LineAt
  <2>4. ASSUME NEW m \in Lines, NEW q \in Paths, m # n \/ q # p
        PROVE  InOnePlace(m, q)'
    <3>1. \A j \in Files : m \in content'[<<q, j>>] <=> m \in content[<<q, j>>]
      BY <2>2, <2>4
    <3>2. Unmoved(m, q)
      BY <1>4, <1>11, <2>3, <2>4, <3>1 DEF Unmoved, ChannelKept
    <3> QED BY <3>2, UnmovedStays DEF Records
  <2>5. \A w \in Versions : (HasCopy(n, w, p)' <=> HasCopy(n, w, p)) /\ (Queued(n, w, p)' <=> Queued(n, w, p))
    BY <1>4, <2>3 DEF HasCopy, Queued
  <2>6. \A w \in Versions : ~HasCopy(n, w, p)' /\ ~Queued(n, w, p)'
    BY <1>13, <2>5 DEF HasCopy
  <2>7. \A w \in Versions : \A j \in Nat : ~LineAt(w, p, j, n)'
    BY <2>6 DEF Queued
  <2>8. \A j \in Files : n \in content'[<<p, j>>] <=> j = i
    BY <1>13, <2>2 DEF Written
  <2>9. Written(n, p)'
    BY <2>8 DEF Written
  <2>10. InOnePlace(n, p)'
    BY <1>9, <2>6, <2>7, <2>8, <2>9 DEF InOnePlace
  <2> QED BY <2>4, <2>10 DEF Records
<1>15. ASSUME NEW m, m.kind = "line", m.line = n, Sent(v, p, m), UNCHANGED content
       PROVE  Records'
  <2>1. ASSUME NEW x \in Lines, NEW w \in Versions, NEW q \in Paths, NEW j \in Nat
        PROVE  /\ LineAt(w, q, j, x) => LineAt(w, q, j, x)'
               /\ LineAt(w, q, j, x)' => LineAt(w, q, j, x) \/ (NewestAt(v, p, w, q, j) /\ x = n)
    BY <1>a, <1>15, SentLineAt
  <2>2. ASSUME NEW x \in Lines, NEW q \in Paths, x # n \/ q # p
        PROVE  InOnePlace(x, q)'
    <3>1. \A w \in Versions : \A j \in Nat : LineAt(w, q, j, x)' <=> LineAt(w, q, j, x)
      BY <2>1, <2>2 DEF NewestAt
    <3>2. Unmoved(x, q)
      BY <1>4, <1>11, <1>15, <2>2, <3>1 DEF Unmoved, ChannelKept
    <3> QED BY <3>2, UnmovedStays DEF Records
  <2>3. ASSUME NEW w \in Versions, NEW j \in Nat, LineAt(w, p, j, n)'
        PROVE  NewestAt(v, p, w, p, j)
    BY <1>13, <2>1, <2>3 DEF HasCopy, Queued
  <2>4. ASSUME NEW w \in Versions, Queued(n, w, p)' \/ HasCopy(n, w, p)'
        PROVE  w = v
    BY <1>4, <1>13, <2>3, <2>4 DEF HasCopy, Queued, NewestAt
  <2>5. \A w \in Versions : n \notin buf'[<<w, p>>]
    BY <1>4, <1>13 DEF HasCopy
  <2>6. \A w \in Versions : \A i, j \in Nat : LineAt(w, p, i, n)' /\ LineAt(w, p, j, n)' => i = j
    BY <2>3 DEF NewestAt
  <2>7. ~Written(n, p)' /\ \A i \in Files : n \notin content'[<<p, i>>]
    BY <1>13, <1>15 DEF Written
  <2>8. writer'[<<v, p>>] = "panicked" \/ HasCopy(n, v, p)'
    <3>1. CASE writer[<<v, p>>] # "panicked"
      <4>1. Len(queue[<<v, p>>]) \in Nat
        <5>1. queue[<<v, p>>] \in Seq(Messages)
          BY <1>a DEF TypeOK
        <5> QED BY <5>1
      <4>2. PICK j \in Nat : j = Len(queue[<<v, p>>]) + 1
        BY <4>1
      <4>3. NewestAt(v, p, v, p, j)
        BY <3>1, <4>2 DEF NewestAt
      <4>4. j \in 1..Len(queue'[<<v, p>>]) /\ queue'[<<v, p>>][j] = m
        BY <1>a, <1>15, <4>3, SentAt
      <4>5. LineAt(v, p, j, n)'
        BY <1>15, <4>4 DEF LineAt
      <4> QED BY <4>5 DEF HasCopy, Queued
    <3> QED BY <1>4, <3>1
  <2>9. InOnePlace(n, p)'
    BY <1>2, <1>4, <1>9, <2>4, <2>5, <2>6, <2>7, <2>8 DEF InOnePlace
  <2> QED BY <2>2, <2>9 DEF Records
<1> DEFINE msg == [kind |-> "line", line |-> op[t].line]
<1>16. msg.kind = "line" /\ msg.line = n
    BY <1>1
<1>17. \/ Adds(p, inode[<<v, p>>], {n}) /\ UNCHANGED queue
       \/ Sent(v, p, msg) /\ UNCHANGED content
    BY <1>1 DEF LogsTo
<1> HIDE DEF msg
<1> QED BY <1>14, <1>15, <1>16, <1>17

\* A message that is not a line leaves the lines of the channels where they are.
LEMMA SentOther ==
    ASSUME TypeOK, NEW v \in Versions, NEW p \in Paths, NEW m, Sent(v, p, m), m.kind # "line",
           NEW w \in Versions, NEW q \in Paths, NEW j \in Nat, NEW x \in Lines
    PROVE  LineAt(w, q, j, x)' <=> LineAt(w, q, j, x)
<1>1. LineAt(w, q, j, x) => LineAt(w, q, j, x)'
    BY SentAt
<1>2. LineAt(w, q, j, x)' => LineAt(w, q, j, x) \/ NewestAt(v, p, w, q, j)
    BY SentAt
<1>3. NewestAt(v, p, w, q, j) => queue'[<<w, q>>][j] = m
    BY SentAt
<1>4. LineAt(w, q, j, x)' => queue'[<<w, q>>][j].kind = "line"
    BY DEF LineAt
<1> QED BY <1>1, <1>2, <1>3, <1>4

\* A message that is not a line, and is taken, too.
LEMMA TakenOther ==
    ASSUME TypeOK, NEW v \in Versions, NEW p \in Paths, Taken(v, p),
           queue[<<v, p>>][1].kind # "line"
    PROVE  \A n \in Lines, w \in Versions, q \in Paths : ChannelKept(n, w, q)
<1> TAKE n \in Lines, w \in Versions, q \in Paths
<1>1. CASE w = v /\ q = p
  <2>1. \A j \in Nat : /\ LineAt(v, p, j, n)' => LineAt(v, p, j + 1, n)
                       /\ LineAt(v, p, j + 1, n) /\ j # 0 => LineAt(v, p, j, n)'
    BY TakenAt
  <2>2. ~LineAt(v, p, 1, n)
    BY DEF LineAt
  <2>3. \A j \in Nat : LineAt(v, p, j, n)' => j # 0
    BY DEF LineAt
  <2> QED BY <1>1, <2>1, <2>2, <2>3 DEF ChannelKept
<1>2. CASE ~(w = v /\ q = p)
  <2>1. \A j \in Nat : LineAt(w, q, j, n)' <=> LineAt(w, q, j, n)
    BY <1>2, TakenAt
  <2> QED BY <2>1 DEF ChannelKept
<1> QED BY <1>1, <1>2

\* A new record is nowhere yet.
LEMMA StartsLogRecords ==
    ASSUME Calm, Records, NEW t \in Threads, NEW n \in Lines, StartsLog(t, n)
    PROVE  Records'
<1> USE DEF global, sinks, disk, counts, ghosts
<1>a. TypeOK /\ Loggers
    BY DEF Calm
<1>1. /\ n = lines + 1 /\ lines' = n /\ lines \in Nat /\ UNCHANGED <<queue, buf, content, writer>>
      /\ went'[n] = cur /\ (\A m \in Lines : m # n => went'[m] = went[m]) /\ cur \in Versions
    BY <1>a, Bounds DEF StartsLog, TypeOK
<1>2. /\ op[t] = Idle /\ op'[t] # Idle /\ op'[t].line = n /\ op'[t].at = 1
      /\ \A u \in Threads : u # t =>
            /\ op'[u] = Idle <=> op[u] = Idle
            /\ op[u] # Idle => op'[u].line = op[u].line /\ op'[u].at = op[u].at
    BY DEF StartsLog, Begins
<1>3. \A m \in Lines, w \in Versions, q \in Paths : \A j \in Nat : LineAt(w, q, j, m)' <=> LineAt(w, q, j, m)
    BY <1>1 DEF LineAt
<1>4. ASSUME NEW m \in Lines, m # n
      PROVE  Still(m)
  <2>1. m <= lines' <=> m <= lines
    BY <1>1, <1>4, Bounds
  <2>2. ~Logging(t, m) /\ ~Logging(t, m)'
    BY <1>2, <1>4 DEF Logging
  <2> QED BY <1>1, <1>2, <1>4, <2>1, <2>2 DEF Still, Logging
<1>5. ASSUME NEW m \in Lines, NEW q \in Paths, m # n
      PROVE  InOnePlace(m, q)'
  <2>1. Passed(m, q)' <=> Passed(m, q)
    BY <1>4, <1>5, StillPassed
  <2>2. Unmoved(m, q)
    BY <1>1, <1>3, <1>5, <2>1 DEF Unmoved, ChannelKept
  <2> QED BY <2>2, UnmovedStays DEF Records
<1>6. ASSUME NEW q \in Paths
      PROVE  InOnePlace(n, q)'
  <2>1. ~(n <= lines)
    BY <1>1
  <2>2. ~Passed(n, q)
    BY <2>1 DEF Passed
  <2>3. ~Written(n, q) /\ \A w \in Versions : ~HasCopy(n, w, q)
    BY <2>2 DEF Records, InOnePlace
  <2>4. /\ Written(n, q)' <=> Written(n, q)
        /\ \A w \in Versions : (Queued(n, w, q)' <=> Queued(n, w, q)) /\ (HasCopy(n, w, q)' <=> HasCopy(n, w, q))
    BY <1>1, <1>3 DEF Written, HasCopy, Queued
  <2>5. \A w \in Versions : \A j \in Nat : ~LineAt(w, q, j, n)'
    BY <2>3, <2>4 DEF HasCopy, Queued
  <2>6. \A i \in Files : n \notin content'[<<q, i>>]
    BY <2>3, <2>4 DEF Written
  <2>7. ~Passed(n, q)'
    <3>1. SUFFICES ASSUME Passed(n, q)' PROVE FALSE
      OBVIOUS
    <3>2. Logging(t, n)'
      BY <1>2 DEF Logging
    <3>3. \A k \in 1..Len(Configs[cur]) : Configs[cur][k].path = q => k < 1
      BY <1>1, <1>2, <3>1, <3>2 DEF Passed
    <3>4. q \in SinksOf(cur)
      BY <1>1, <3>1 DEF Passed
    <3>5. PICK k \in 1..Len(Configs[cur]) : Configs[cur][k].path = q
      BY <3>4 DEF SinksOf
    <3> QED BY <1>1, <3>3, <3>5, Bounds
  <2>8. \A w \in Versions : ~HasCopy(n, w, q)' /\ ~Queued(n, w, q)'
    BY <2>3, <2>4 DEF HasCopy
  <2> QED BY <2>3, <2>4, <2>5, <2>6, <2>7, <2>8 DEF InOnePlace
<1> QED BY <1>5, <1>6 DEF Records

\* A call that returns is past every sink.
LEMMA ReturnsRecords ==
    ASSUME Calm, Records, NEW t \in Threads, Returns(t)
    PROVE  Records'
<1> USE DEF global, sinks, disk, counts, ghosts
<1>1. /\ op[t] # Idle /\ op'[t] = Idle /\ (\A u \in Threads : u # t => op'[u] = op[u])
      /\ \A k \in 1..Len(Configs[op[t].version]) : k < op[t].at
      /\ UNCHANGED <<queue, buf, content, writer, went, lines>>
    BY DEF Returns, Ends
<1>2. ASSUME NEW n \in Lines, NEW p \in Paths
      PROVE  Passed(n, p)' <=> Passed(n, p)
  <2>1. \A u \in Threads : Logging(u, n)' <=> Logging(u, n) /\ u # t
    BY <1>1 DEF Logging
  <2>2. Logging(t, n) => op[t].version = went[n]
    BY DEF Calm, Loggers
  <2>3. Logging(t, n) => \A k \in 1..Len(Configs[went[n]]) : k < op[t].at
    BY <1>1, <2>2
  <2> QED BY <1>1, <2>1, <2>3 DEF Passed
<1>3. \A m \in Lines, w \in Versions, q \in Paths : \A j \in Nat : LineAt(w, q, j, m)' <=> LineAt(w, q, j, m)
    BY <1>1 DEF LineAt
<1> QED BY <1>1, <1>2, <1>3, RecordsFrame DEF ChannelKept

\* A writer that panics loses what is in its channel, and nothing else.
LEMMA PanicsRecords ==
    ASSUME Calm, Records, NEW v \in Versions, NEW p \in Paths, WriterPanics(v, p)
    PROVE  Records'
<1> USE DEF global, sinks, disk, counts, ghosts
<1>1. /\ writer'[<<v, p>>] = "panicked"
      /\ \A w \in Versions, q \in Paths : w # v \/ q # p => writer'[<<w, q>>] = writer[<<w, q>>]
      /\ UNCHANGED <<buf, content, op, went, lines>>
    BY DEF WriterPanics, Becomes
<1>2. \A n \in Lines : Still(n)
    BY <1>1 DEF Still, Logging
<1>3. \A n \in Lines, q \in Paths : went'[n] = went[n] /\ (Passed(n, q)' <=> Passed(n, q))
    BY <1>2, StillPassed DEF Still
<1>4. \A n \in Lines : \A j \in Nat : ~LineAt(v, p, j, n)'
    BY PanicAt
<1>5. \A n \in Lines, w \in Versions, q \in Paths : w # v \/ q # p =>
        \A j \in Nat : LineAt(w, q, j, n)' <=> LineAt(w, q, j, n)
    BY PanicAt
<1>6. ASSUME NEW n \in Lines, NEW q \in Paths
      PROVE  InOnePlace(n, q)'
  <2>1. InOnePlace(n, q)
    BY DEF Records
  <2>2. \A w \in Versions : Queued(n, w, q)' => Queued(n, w, q) /\ ~(w = v /\ q = p)
    BY <1>4, <1>5 DEF Queued
  <2>3. \A w \in Versions : HasCopy(n, w, q)' => HasCopy(n, w, q)
    BY <1>1, <2>2 DEF HasCopy
  <2>4. \A w \in Versions : ~(w = v /\ q = p) => (HasCopy(n, w, q)' <=> HasCopy(n, w, q))
    BY <1>1, <1>5 DEF HasCopy, Queued
  <2>5. (Written(n, q)' <=> Written(n, q)) /\ content' = content /\ buf' = buf
    BY <1>1 DEF Written
  <2>6. \A w \in Versions : \A j, k \in Nat : LineAt(w, q, j, n)' /\ LineAt(w, q, k, n)' => j = k
    BY <1>4, <1>5, <2>1 DEF InOnePlace
  <2>7. \A w \in Versions : HasCopy(n, w, q)' => w = went'[n] /\ Passed(n, q)'
    BY <1>3, <2>1, <2>3 DEF InOnePlace
  <2>8. \A w \in Versions : /\ ~(Queued(n, w, q)' /\ n \in buf'[<<w, q>>])
                            /\ ~(HasCopy(n, w, q)' /\ Written(n, q)')
    BY <2>1, <2>2, <2>3, <2>5 DEF InOnePlace
  <2>9. ASSUME Passed(n, q)', NEW w \in Versions, w = went'[n]
        PROVE  writer'[<<w, q>>] = "panicked" \/ HasCopy(n, w, q)' \/ Written(n, q)'
    <3>1. writer[<<w, q>>] = "panicked" \/ HasCopy(n, w, q) \/ Written(n, q)
      BY <1>3, <2>1, <2>9 DEF InOnePlace
    <3> QED BY <1>1, <2>4, <2>5, <3>1
  <2> QED BY <1>3, <2>1, <2>5, <2>6, <2>7, <2>8, <2>9 DEF InOnePlace
<1> QED BY <1>6 DEF Records

LEMMA RecordsStep ==
    ASSUME Calm, Records, [Next]_vars
    PROVE  Records'
<1> USE DEF global, sinks, disk, counts, ghosts
<1>a. TypeOK /\ Numbers /\ Awaited /\ Loggers /\ Published
    BY DEF Calm
<1>b. ASSUME \A n \in Lines : Still(n), buf' = buf, content' = content,
             \A n \in Lines, v \in Versions, p \in Paths : ChannelKept(n, v, p),
             \A n \in Lines, v \in Versions, p \in Paths :
               v = went[n] /\ Passed(n, p) /\ writer[<<v, p>>] = "panicked" => writer'[<<v, p>>] = "panicked"
      PROVE  Records'
  <2>1. \A n \in Lines, p \in Paths : went'[n] = went[n] /\ (Passed(n, p)' <=> Passed(n, p))
    BY <1>b, StillPassed DEF Still
  <2> QED BY <1>b, <2>1, RecordsFrame
<1>c. op' = op /\ lines' = lines /\ went' = went => \A n \in Lines : Still(n)
    BY DEF Still, Logging
<1>d. queue' = queue => \A n \in Lines, v \in Versions, p \in Paths : ChannelKept(n, v, p)
    BY DEF ChannelKept, LineAt
<1>e. ASSUME NEW v \in Versions, NEW p \in Paths, NEW m, Sent(v, p, m), m.kind # "line"
      PROVE  \A n \in Lines, w \in Versions, q \in Paths : ChannelKept(n, w, q)
    BY <1>a, <1>e, SentOther DEF ChannelKept
<1>1. CASE SetupStart \/ BuildFails \/ Publish \/ MovesAway \/ UNCHANGED vars
  <2>1. UNCHANGED <<op, lines, went, queue, buf, content, writer>>
    BY <1>1 DEF SetupStart, BuildFails, Publish, MovesAway, vars
  <2> QED BY <1>b, <1>c, <1>d, <2>1
<1>2. ASSUME NEW v \in Versions, NEW p \in Paths, WriterStarts(v, p) \/ Rotates(v, p)
      PROVE  Records'
  <2>1. UNCHANGED <<op, lines, went, queue, buf, content>>
    BY <1>2 DEF WriterStarts, Rotates
  <2>2. \A w \in Versions, q \in Paths : writer[<<w, q>>] = "panicked" => writer'[<<w, q>>] = "panicked"
    BY <1>2 DEF WriterStarts, Rotates, Becomes
  <2> QED BY <1>b, <1>c, <1>d, <2>1, <2>2
<1>3. ASSUME NEW v \in Versions, NEW p \in Paths, NEW k \in 1..Len(Configs[v]), Builds(v, k, p)
      PROVE  Records'
  <2> DEFINE m == [kind |-> "reopen"]
  <2>1. UNCHANGED <<op, lines, went, buf, content>> /\ v = setup.version
        /\ (Sent(v, p, m) \/ queue' = queue)
    BY <1>3 DEF Builds
  <2>2. \A w \in Versions, q \in Paths : w # v => writer'[<<w, q>>] = writer[<<w, q>>]
    BY <1>3 DEF Builds, Becomes
  <2>3. \A n \in Lines, q \in Paths : Passed(n, q) => went[n] # v
    <3>1. \A n \in Lines, q \in Paths : Passed(n, q) => n \in 1..lines
      BY <1>a, BoundsAssumption DEF Passed, Lines, TypeOK
    <3> QED BY <1>a, <2>1, <3>1 DEF Published, IsPublished
  <2>4. m.kind # "line"
    OBVIOUS
  <2> HIDE DEF m
  <2>5. \A n \in Lines, w \in Versions, q \in Paths : ChannelKept(n, w, q)
    BY <1>d, <1>e, <2>1, <2>4
  <2> QED BY <1>b, <1>c, <2>1, <2>2, <2>3, <2>5
<1>4. ASSUME NEW t \in Threads, StartsOther(t) \/ Gives(t)
      PROVE  Records'
  <2>1. UNCHANGED <<lines, went, queue, buf, content, writer>>
    BY <1>4 DEF StartsOther, Gives
  <2>2. ASSUME NEW n \in Lines
        PROVE  Still(n)
    <3>1. n # 0
      BY Bounds
    <3>2. CASE StartsOther(t)
      BY <2>1, <3>1, <3>2 DEF StartsOther, Begins, Still, Logging
    <3>3. CASE Gives(t)
      <4>1. ~Logging(t, n)
        BY <1>a, <3>3, NotLogging DEF Gives, Ends
      <4> QED BY <2>1, <3>3, <4>1 DEF Gives, Ends, Still, Logging
    <3> QED BY <1>4, <3>2, <3>3
  <2> QED BY <1>b, <1>d, <2>1, <2>2
<1>5. ASSUME NEW t \in Threads, NEW v \in Versions, NEW p \in Paths, NEW k \in 1..Len(Configs[v]),
             Flushes(t, v, k, p) \/ Reopens(t, v, k, p) \/ OpensRaw(t, v, k, p) \/ Stores(t, v, k, p)
      PROVE  Records'
  <2> DEFINE m == IF op[t].kind = "flush" THEN [kind |-> "flush", caller |-> t] ELSE [kind |-> "reopen"]
  <2>1. /\ UNCHANGED <<lines, went, buf, content, writer>> /\ (GoesOn(t) \/ op' = op)
        /\ op[t] # Idle /\ op[t].kind \in {"flush", "reopen"}
    BY <1>5 DEF Flushes, Reopens, OpensRaw, Stores, At, Advances
  <2>2. Sent(v, p, m) \/ queue' = queue
    BY <1>5 DEF Flushes, Reopens, OpensRaw, Stores, At
  <2>3. m.kind # "line"
    OBVIOUS
  <2> HIDE DEF m
  <2>4. \A n \in Lines, w \in Versions, q \in Paths : ChannelKept(n, w, q)
    BY <1>d, <1>e, <2>2, <2>3
  <2>5. ASSUME NEW n \in Lines
        PROVE  Still(n)
    <3>1. ~Logging(t, n)
      BY <1>a, <2>1, NotLogging
    <3>2. CASE GoesOn(t)
      BY <2>1, <3>1, <3>2 DEF GoesOn, Still, Logging
    <3>3. CASE op' = op
      BY <1>c, <2>1, <3>3
    <3> QED BY <2>1, <3>2, <3>3
  <2> QED BY <1>b, <2>1, <2>4, <2>5
<1>6. ASSUME NEW v \in Versions, NEW p \in Paths, TakesReopen(v, p)
      PROVE  Records'
  <2>1. UNCHANGED <<op, lines, went, buf, content, writer>> /\ Taken(v, p)
        /\ queue[<<v, p>>][1].kind # "line"
    BY <1>6 DEF TakesReopen, ReopenAt
  <2> QED BY <1>a, <1>b, <1>c, <2>1, TakenOther
<1>7. ASSUME NEW v \in Versions, NEW p \in Paths, NEW t \in Threads, TakesFlush(v, p, t)
      PROVE  Records'
  <2>1. /\ UNCHANGED <<lines, went, writer>> /\ Taken(v, p) /\ GoesOn(t)
        /\ queue[<<v, p>>][1].kind # "line" /\ Waiting(t) /\ Emptied(v, p)
    BY <1>7 DEF TakesFlush, FlushAt
  <2>2. ASSUME NEW n \in Lines
        PROVE  Still(n)
    <3>1. ~Logging(t, n)
      BY <1>a, <2>1, NotLogging DEF Waiting
    <3> QED BY <2>1, <3>1 DEF GoesOn, Still, Logging
  <2>3. \A n \in Lines, w \in Versions, q \in Paths : ChannelKept(n, w, q)
    BY <1>a, <2>1, TakenOther
  <2> QED BY <1>a, <2>1, <2>2, <2>3, EmptiedRecords
<1>8. ASSUME NEW v \in Versions, NEW p \in Paths, Empties(v, p)
      PROVE  Records'
  <2>1. UNCHANGED <<op, lines, went, queue>> /\ Emptied(v, p)
    BY <1>8 DEF Empties
  <2>2. \A w \in Versions, q \in Paths : writer[<<w, q>>] = "panicked" => writer'[<<w, q>>] = "panicked"
    BY <1>8 DEF Empties, Becomes
  <2> QED BY <1>a, <1>c, <1>d, <2>1, <2>2, EmptiedRecords
<1>9. CASE Next
  <2>1. Steps
    BY <1>9, <1>a, NextSteps
  <2>2. ASSUME NEW t \in Threads, NEW n \in Lines, StartsLog(t, n)
        PROVE  Records'
    BY <2>2, StartsLogRecords
  <2>3. ASSUME NEW t \in Threads, Returns(t)
        PROVE  Records'
    BY <2>3, ReturnsRecords
  <2>4. ASSUME NEW t \in Threads, NEW v \in Versions, NEW p \in Paths, NEW k \in 1..Len(Configs[v]),
               LogsTo(t, v, k, p)
        PROVE  Records'
    BY <2>4, LogsToRecords
  <2>5. ASSUME NEW v \in Versions, NEW p \in Paths, NEW n \in Lines, TakesLine(v, p, n)
        PROVE  Records'
    BY <1>a, <2>5, TakesLineRecords
  <2>6. ASSUME NEW v \in Versions, NEW p \in Paths, WriterPanics(v, p)
        PROVE  Records'
    BY <2>6, PanicsRecords
  <2> QED BY <1>1, <1>2, <1>3, <1>4, <1>5, <1>6, <1>7, <1>8, <2>1, <2>2, <2>3, <2>4, <2>5, <2>6 DEF Steps
<1> QED BY <1>1, <1>9

LEMMA InitRecords == Init => Records
<1> SUFFICES ASSUME Init PROVE Records
    OBVIOUS
<1>1. ASSUME NEW n \in Lines, NEW p \in Paths
      PROVE  InOnePlace(n, p)
  <2>1. lines = 0
    BY DEF Init
  <2>2. ~Passed(n, p)
    BY <2>1, Bounds DEF Passed
  <2>3. \A i \in Files : n \notin content[<<p, i>>]
    BY DEF Init
  <2>4. \A v \in Versions : n \notin buf[<<v, p>>]
    BY DEF Init
  <2>5. \A v \in Versions : \A j \in Nat : ~LineAt(v, p, j, n)
    <3>1. PICK e \in Seq(Messages) : e = <<>> /\ Len(e) = 0
      BY EmptySeq
    <3>2. \A v \in Versions : queue[<<v, p>>] = e
      BY <3>1 DEF Init
    <3> QED BY <3>1, <3>2 DEF LineAt
  <2> QED BY <2>2, <2>3, <2>4, <2>5 DEF InOnePlace, HasCopy, Queued, Written
<1> QED BY <1>1 DEF Records

LEMMA InChannelQueued ==
    ASSUME TypeOK, NEW n, NEW v \in Versions, NEW p \in Paths
    PROVE  InChannel(n, v, p) <=> Queued(n, v, p)
<1>1. queue[<<v, p>>] \in Seq(Messages)
    BY DEF TypeOK
<1>2. Len(queue[<<v, p>>]) \in Nat
    BY <1>1
<1> QED BY <1>2 DEF InChannel, Queued, LineAt

LEMMA CardinalityOne == \A x : Cardinality({x}) = 1 /\ Cardinality({}) = 0
BY FS_Singleton, FS_EmptySet

\* Once its call is over, a record is in one place for each sink of its version.
LEMMA RecordsAreOnce ==
    ASSUME Calm, Records
    PROVE  OneConfiguration
<1> SUFFICES ASSUME NEW n \in Lines, Done(n), NEW p \in Paths, writer[<<went[n], p>>] # "panicked"
             PROVE  Copies(n, p) = IF p \in SinksOf(went[n]) THEN 1 ELSE 0
    BY DEF OneConfiguration
<1> DEFINE A == {v \in Versions : InChannel(n, v, p)}
           B == {v \in Versions : n \in buf[<<v, p>>]}
           C == {i \in Files : n \in content[<<p, i>>]}
<1>1. TypeOK /\ n <= lines /\ went[n] \in Versions
  <2>1. n \in 1..lines
    BY BoundsAssumption DEF Calm, TypeOK, Done, Lines
  <2> QED BY <2>1 DEF Calm, Published, Done
<1>2. Passed(n, p) <=> p \in SinksOf(went[n])
    BY <1>1 DEF Passed, Done, Logging
<1>3. InOnePlace(n, p)
    BY DEF Records
<1>4. PICK w \in Versions : w = went[n]
    BY <1>1
<1>5. \A v \in Versions : InChannel(n, v, p) <=> Queued(n, v, p)
    BY <1>1, InChannelQueued
<1>6. /\ Copies(n, p) = Cardinality(A) + Cardinality(B) + Cardinality(C)
      /\ \A x : Cardinality({x}) = 1 /\ Cardinality({}) = 0
    BY CardinalityOne DEF Copies
<1>7. CASE p \notin SinksOf(went[n])
  <2>1. ~Written(n, p) /\ \A v \in Versions : ~HasCopy(n, v, p)
    BY <1>2, <1>3, <1>7 DEF InOnePlace
  <2>2. A = {} /\ B = {} /\ C = {}
    BY <1>5, <2>1 DEF HasCopy, Written
  <2> HIDE DEF A, B, C
  <2> QED BY <1>6, <1>7, <2>2
<1>8. CASE p \in SinksOf(went[n])
  <2>1. HasCopy(n, w, p) \/ Written(n, p)
    BY <1>2, <1>3, <1>4, <1>8 DEF InOnePlace
  <2>2. \A v \in Versions : v # w => ~HasCopy(n, v, p)
    BY <1>3, <1>4 DEF InOnePlace
  <2>3. CASE Written(n, p)
    <3>1. \A v \in Versions : ~HasCopy(n, v, p)
      BY <1>3, <2>3 DEF InOnePlace
    <3>2. PICK i \in Files : n \in content[<<p, i>>]
      BY <2>3 DEF Written
    <3>3. A = {} /\ B = {}
      BY <1>5, <3>1 DEF HasCopy
    <3>4. C = {i}
      <4>1. \A j \in Files : n \in content[<<p, j>>] <=> j = i
        BY <1>3, <3>2 DEF InOnePlace
      <4> QED BY <4>1
    <3> HIDE DEF A, B, C
    <3> QED BY <1>6, <1>8, <3>3, <3>4
  <2>4. CASE Queued(n, w, p)
    <3>1. n \notin buf[<<w, p>>] /\ ~Written(n, p)
      BY <1>3, <2>4 DEF InOnePlace, HasCopy
    <3>2. A = {w}
      BY <1>5, <2>2, <2>4 DEF HasCopy
    <3>3. B = {} /\ C = {}
      BY <2>2, <3>1 DEF HasCopy, Written
    <3> HIDE DEF A, B, C
    <3>4. Cardinality(A) = 1 /\ Cardinality(B) = 0 /\ Cardinality(C) = 0
      BY <1>6, <3>2, <3>3
    <3> QED BY <1>6, <1>8, <3>4
  <2>5. CASE n \in buf[<<w, p>>]
    <3>1. ~Queued(n, w, p) /\ ~Written(n, p)
      BY <1>3, <2>5 DEF InOnePlace, HasCopy
    <3>2. B = {w}
      BY <2>2, <2>5 DEF HasCopy
    <3>3. A = {} /\ C = {}
      BY <1>5, <2>2, <3>1 DEF HasCopy, Written
    <3> HIDE DEF A, B, C
    <3>4. Cardinality(B) = 1 /\ Cardinality(A) = 0 /\ Cardinality(C) = 0
      BY <1>6, <3>2, <3>3
    <3> QED BY <1>6, <1>8, <3>4
  <2> QED BY <2>1, <2>3, <2>4, <2>5 DEF HasCopy
<1> QED BY <1>7, <1>8

-----------------------------------------------------------------------------
\* A reopen holds for the records after it.

\* A sink has a newer file than those moved away, or its writer could not open one.
Past(v, p) == inode'[<<v, p>>] > Moved(p) \/ <<v, p>> \in failed'

\* What a step may do to a sink: the file it has open is changed for a newer one, or for
\* the one a reopen has in hand; a new writer opens its file before it does anything else;
\* one that panicked stays so, or is there once more when its version is built.
Stored(v, p) == \E t \in Threads : \E k \in 1..Len(Configs[v]) :
                    Stores(t, v, k, p) /\ inode'[<<v, p>>] = opened[t]
Clears(v, p) ==
    /\ writer'[<<v, p>>] = "panicked"
    /\ \A n \in Lines : \A j \in Nat : ~LineAt(v, p, j, n)'
SinkMoves(v, p) ==
    /\ \/ Past(v, p)
       \/ /\ inode'[<<v, p>>] = inode[<<v, p>>] \/ Stored(v, p)
          /\ <<v, p>> \in failed => <<v, p>> \in failed'
    /\ writer[<<v, p>>] = "start" => writer'[<<v, p>>] = "start" \/ Past(v, p) \/ Clears(v, p)
    /\ writer[<<v, p>>] = "panicked" => writer'[<<v, p>>] \in {"panicked", "start"}

LEMMA SinkStep ==
    ASSUME Calm, [Next]_vars, NEW v \in Versions, NEW p \in Paths
    PROVE  SinkMoves(v, p)
<1> USE DEF global, sinks, disk, counts, ghosts
<1>a. TypeOK /\ Numbers /\ Awaited /\ Loggers
    BY DEF Calm
<1>b. Moved(p) \in Nat /\ Moved(p) + 1 > Moved(p) /\ Moved(p) + 2 > Moved(p)
  <2>1. Moved(p) \in Nat
    BY <1>a DEF Numbers
  <2> QED BY <2>1
<1>c. inode' = inode /\ writer' = writer /\ failed \subseteq failed' => SinkMoves(v, p)
    BY DEF SinkMoves
<1>d. ASSUME NEW w \in Versions, NEW q \in Paths, Has(w, q, Moved(q) + 1) \/ Has(w, q, Moved(q) + 2)
      PROVE  inode'[<<v, p>>] = inode[<<v, p>>] \/ (w = v /\ q = p /\ inode'[<<v, p>>] > Moved(p))
    BY <1>b, <1>d DEF Has
<1>e. ASSUME NEW w \in Versions, NEW q \in Paths, Tries(w, q)
      PROVE  IF w = v /\ q = p THEN Past(v, p)
             ELSE inode'[<<v, p>>] = inode[<<v, p>>] /\ (<<v, p>> \in failed' <=> <<v, p>> \in failed)
    BY <1>a, <1>b, <1>e, TryFacts DEF Past
<1>1. CASE SetupStart \/ BuildFails \/ Publish \/ MovesAway \/ UNCHANGED vars
  <2>1. inode' = inode /\ writer' = writer /\ failed \subseteq failed'
    BY <1>1 DEF SetupStart, BuildFails, Publish, MovesAway, vars
  <2> QED BY <1>c, <2>1
<1>2. ASSUME NEW w \in Versions, NEW q \in Paths, NEW k \in 1..Len(Configs[w]), Builds(w, k, q)
      PROVE  SinkMoves(v, p)
  <2>1. failed' = failed
    BY <1>2 DEF Builds
  <2>2. CASE Becomes(w, q, "start") /\ inode' = inode
    BY <2>1, <2>2 DEF Becomes, SinkMoves
  <2>3. CASE Opens(w, q) /\ writer' = writer
    BY <1>d, <2>1, <2>3 DEF Opens, SinkMoves, Past
  <2> QED BY <1>2, <2>2, <2>3 DEF Builds
<1>3. ASSUME NEW t \in Threads, StartsOther(t) \/ Gives(t) \/ Returns(t) \/ \E n \in Lines : StartsLog(t, n)
      PROVE  SinkMoves(v, p)
    BY <1>3, <1>c DEF StartsOther, Gives, Returns, StartsLog
<1>4. ASSUME NEW t \in Threads, NEW w \in Versions, NEW q \in Paths, NEW k \in 1..Len(Configs[w]),
             \/ LogsTo(t, w, k, q) \/ Flushes(t, w, k, q)
             \/ Reopens(t, w, k, q) \/ OpensRaw(t, w, k, q) \/ Stores(t, w, k, q)
      PROVE  SinkMoves(v, p)
  <2>1. writer' = writer /\ failed' = failed /\ (inode' = inode \/ Stores(t, w, k, q))
    BY <1>4 DEF LogsTo, Flushes, Reopens, OpensRaw, Stores
  <2>2. CASE Stores(t, w, k, q)
    <3>1. CASE w = v /\ q = p
      BY <2>1, <2>2, <3>1 DEF Stores, Has, Stored, SinkMoves
    <3>2. CASE ~(w = v /\ q = p)
      BY <2>1, <2>2, <3>2 DEF Stores, Has, SinkMoves
    <3> QED BY <3>1, <3>2
  <2> QED BY <1>c, <2>1, <2>2
<1>5. ASSUME NEW w \in Versions, NEW q \in Paths,
             \/ \E n \in Lines : TakesLine(w, q, n)
             \/ \E t \in Threads : TakesFlush(w, q, t)
      PROVE  SinkMoves(v, p)
    BY <1>5, <1>c DEF TakesLine, TakesFlush
<1>6. ASSUME NEW w \in Versions, NEW q \in Paths, WriterStarts(w, q)
      PROVE  SinkMoves(v, p)
  <2>1. writer[<<w, q>>] = "start" /\ Becomes(w, q, "run") /\ Tries(w, q)
    BY <1>6 DEF WriterStarts
  <2> QED BY <1>e, <2>1 DEF Becomes, SinkMoves
<1>7. ASSUME NEW w \in Versions, NEW q \in Paths, TakesReopen(w, q)
      PROVE  SinkMoves(v, p)
  <2>1. writer' = writer /\ Tries(w, q)
    BY <1>7 DEF TakesReopen
  <2> QED BY <1>e, <2>1 DEF SinkMoves
<1>8. ASSUME NEW w \in Versions, NEW q \in Paths, Empties(w, q)
      PROVE  SinkMoves(v, p)
    BY <1>8 DEF Empties, Becomes, SinkMoves
<1>9. ASSUME NEW w \in Versions, NEW q \in Paths, Rotates(w, q)
      PROVE  SinkMoves(v, p)
  <2>1. writer' = writer /\ Has(w, q, Moved(q) + 2) /\ failed' = failed \ {<<w, q>>}
    BY <1>9 DEF Rotates
  <2>2. ~(w = v /\ q = p) => (<<v, p>> \in failed' <=> <<v, p>> \in failed)
    BY <2>1
  <2>3. w = v /\ q = p => inode'[<<v, p>>] > Moved(p)
    BY <1>b, <2>1 DEF Has
  <2> QED BY <1>d, <2>1, <2>2, <2>3 DEF SinkMoves, Past
<1>10. ASSUME NEW w \in Versions, NEW q \in Paths, WriterPanics(w, q)
       PROVE  SinkMoves(v, p)
  <2>1. inode' = inode /\ failed \subseteq failed' /\ Becomes(w, q, "panicked")
    BY <1>10 DEF WriterPanics
  <2>2. CASE w = v /\ q = p
    <3>1. Clears(v, p)
      BY <1>10, <2>1, <2>2, PanicAt DEF Becomes, Clears
    <3> QED BY <2>1, <2>2, <3>1 DEF Becomes, SinkMoves
  <2>3. CASE ~(w = v /\ q = p)
    BY <2>1, <2>3 DEF Becomes, SinkMoves
  <2> QED BY <2>2, <2>3
<1>11. CASE Next
  <2>1. Steps
    BY <1>11, <1>a, NextSteps
  <2> QED BY <1>1, <1>2, <1>3, <1>4, <1>5, <1>6, <1>7, <1>8, <1>9, <1>10, <2>1 DEF Steps
<1> QED BY <1>1, <1>11

\* What a step may do to a channel, as far as lines and reopens go: it keeps them, or
\* takes the first, a line goes to its end, or its writer panics.
Rests(v, p) ==
    /\ \A j \in Nat : ReopenAt(v, p, j) => ReopenAt(v, p, j)'
    /\ \A n \in Lines : \A j \in Nat : LineAt(v, p, j, n)' => LineAt(v, p, j, n)
Shifts(v, p) ==
    /\ \A j \in Nat : ReopenAt(v, p, j + 1) /\ j # 0 => ReopenAt(v, p, j)'
    /\ ReopenAt(v, p, 1) => Past(v, p)
    /\ \A n \in Lines : \A j \in Nat : LineAt(v, p, j, n)' => LineAt(v, p, j + 1, n)
Receives(v, p) ==
    /\ \A j \in Nat : ReopenAt(v, p, j) => ReopenAt(v, p, j)'
    /\ \E t \in Threads : \E k \in 1..Len(Configs[v]) :
        /\ At(t, "log", v, k, p)
        /\ \A n \in Lines : \A j \in Nat : LineAt(v, p, j, n)' =>
            LineAt(v, p, j, n) \/ (NewestAt(v, p, v, p, j) /\ n = op[t].line)

LEMMA ChannelStep ==
    ASSUME Calm, [Next]_vars, NEW v \in Versions, NEW p \in Paths
    PROVE  Rests(v, p) \/ Shifts(v, p) \/ Receives(v, p) \/ Clears(v, p)
<1> USE DEF global, sinks, disk, counts, ghosts
<1>a. TypeOK /\ Numbers /\ Awaited /\ Loggers
    BY DEF Calm
<1>b. queue' = queue => Rests(v, p)
    BY DEF Rests, ReopenAt, LineAt
<1>c. ASSUME NEW w \in Versions, NEW q \in Paths, NEW m, Sent(w, q, m), m.kind # "line"
      PROVE  Rests(v, p)
  <2>1. \A j \in Nat : ReopenAt(v, p, j) => ReopenAt(v, p, j)'
    BY <1>a, <1>c, SentAt
  <2>2. \A n \in Lines : \A j \in Nat : LineAt(v, p, j, n)' => LineAt(v, p, j, n)
    BY <1>a, <1>c, SentOther
  <2> QED BY <2>1, <2>2 DEF Rests
<1>d. ASSUME NEW w \in Versions, NEW q \in Paths, Taken(w, q),
             w = v /\ q = p /\ ReopenAt(v, p, 1) => Past(v, p)
      PROVE  Rests(v, p) \/ Shifts(v, p)
  <2>1. CASE w = v /\ q = p
    <3>1. \A j \in Nat : ReopenAt(v, p, j + 1) /\ j # 0 => ReopenAt(v, p, j)'
      BY <1>a, <1>d, <2>1, TakenAt
    <3>2. \A n \in Lines : \A j \in Nat : LineAt(v, p, j, n)' => LineAt(v, p, j + 1, n)
      BY <1>a, <1>d, <2>1, TakenAt
    <3> QED BY <1>d, <2>1, <3>1, <3>2 DEF Shifts
  <2>2. CASE ~(w = v /\ q = p)
    <3>1. \A j \in Nat : ReopenAt(v, p, j) => ReopenAt(v, p, j)'
      BY <1>a, <1>d, <2>2, TakenAt
    <3>2. \A n \in Lines : \A j \in Nat : LineAt(v, p, j, n)' => LineAt(v, p, j, n)
      BY <1>a, <1>d, <2>2, TakenAt
    <3> QED BY <3>1, <3>2 DEF Rests
  <2> QED BY <2>1, <2>2
<1>1. CASE SetupStart \/ BuildFails \/ Publish \/ MovesAway \/ UNCHANGED vars
  <2>1. queue' = queue
    BY <1>1 DEF SetupStart, BuildFails, Publish, MovesAway, vars
  <2> QED BY <1>b, <2>1
<1>2. ASSUME NEW w \in Versions, NEW q \in Paths, NEW k \in 1..Len(Configs[w]), Builds(w, k, q)
      PROVE  Rests(v, p)
  <2> DEFINE m == [kind |-> "reopen"]
  <2>1. (Sent(w, q, m) \/ queue' = queue) /\ m.kind # "line"
    BY <1>2 DEF Builds
  <2> HIDE DEF m
  <2> QED BY <1>b, <1>c, <2>1
<1>3. ASSUME NEW t \in Threads, StartsOther(t) \/ Gives(t) \/ Returns(t) \/ \E n \in Lines : StartsLog(t, n)
      PROVE  Rests(v, p)
  <2>1. queue' = queue
    BY <1>3 DEF StartsOther, Gives, Returns, StartsLog
  <2> QED BY <1>b, <2>1
<1>4. ASSUME NEW t \in Threads, NEW w \in Versions, NEW q \in Paths, NEW k \in 1..Len(Configs[w]),
             Flushes(t, w, k, q) \/ Reopens(t, w, k, q) \/ OpensRaw(t, w, k, q) \/ Stores(t, w, k, q)
      PROVE  Rests(v, p)
  <2> DEFINE m == IF op[t].kind = "flush" THEN [kind |-> "flush", caller |-> t] ELSE [kind |-> "reopen"]
  <2>1. (Sent(w, q, m) \/ queue' = queue) /\ m.kind # "line"
    BY <1>4 DEF Flushes, Reopens, OpensRaw, Stores, At
  <2> HIDE DEF m
  <2> QED BY <1>b, <1>c, <2>1
<1>5. ASSUME NEW t \in Threads, NEW w \in Versions, NEW q \in Paths, NEW k \in 1..Len(Configs[w]),
             LogsTo(t, w, k, q)
      PROVE  Rests(v, p) \/ Receives(v, p)
  <2> DEFINE m == [kind |-> "line", line |-> op[t].line]
  <2>1. /\ Sent(w, q, m) \/ queue' = queue
        /\ op[t].line \in Lines /\ m.line = op[t].line /\ At(t, "log", w, k, q)
    BY <1>5 DEF LogsTo
  <2> HIDE DEF m
  <2>2. CASE Sent(w, q, m)
    <3>1. \A j \in Nat : ReopenAt(v, p, j) => ReopenAt(v, p, j)'
      BY <1>a, <2>2, SentAt
    <3>2. \A n \in Lines : \A j \in Nat : LineAt(v, p, j, n)' =>
            LineAt(v, p, j, n) \/ (NewestAt(w, q, v, p, j) /\ n = op[t].line)
      BY <1>a, <2>1, <2>2, SentLineAt
    <3>3. CASE w = v /\ q = p
      BY <2>1, <3>1, <3>2, <3>3 DEF Receives
    <3>4. CASE ~(w = v /\ q = p)
      BY <3>1, <3>2, <3>4 DEF Rests, NewestAt
    <3> QED BY <3>3, <3>4
  <2> QED BY <1>b, <2>1, <2>2
<1>6. ASSUME NEW w \in Versions, NEW q \in Paths,
             \/ \E n \in Lines : TakesLine(w, q, n)
             \/ \E t \in Threads : TakesFlush(w, q, t)
      PROVE  Rests(v, p) \/ Shifts(v, p)
  <2>1. Taken(w, q) /\ ~ReopenAt(w, q, 1)
    BY <1>6 DEF TakesLine, TakesFlush, LineAt, FlushAt, ReopenAt
  <2> QED BY <1>d, <2>1
<1>7. ASSUME NEW w \in Versions, NEW q \in Paths, TakesReopen(w, q)
      PROVE  Rests(v, p) \/ Shifts(v, p)
  <2>1. Taken(w, q) /\ Tries(w, q)
    BY <1>7 DEF TakesReopen
  <2>2. Moved(q) \in Nat
    BY <1>a DEF Numbers
  <2>3. Past(w, q)
    BY <1>a, <2>1, <2>2, TryFacts DEF Past
  <2> QED BY <1>d, <2>1, <2>3
<1>8. ASSUME NEW w \in Versions, NEW q \in Paths, WriterStarts(w, q) \/ Empties(w, q) \/ Rotates(w, q)
      PROVE  Rests(v, p)
  <2>1. queue' = queue
    BY <1>8 DEF WriterStarts, Empties, Rotates
  <2> QED BY <1>b, <2>1
<1>9. ASSUME NEW w \in Versions, NEW q \in Paths, WriterPanics(w, q)
      PROVE  Rests(v, p) \/ Clears(v, p)
  <2>1. CASE w = v /\ q = p
    <3>1. writer'[<<v, p>>] = "panicked"
      BY <1>9, <2>1 DEF WriterPanics, Becomes
    <3>2. \A n \in Lines : \A j \in Nat : ~LineAt(v, p, j, n)'
      BY <1>9, <2>1, PanicAt
    <3> QED BY <3>1, <3>2 DEF Clears
  <2>2. CASE ~(w = v /\ q = p)
    <3>1. \A j \in Nat : ReopenAt(v, p, j) => ReopenAt(v, p, j)'
      BY <1>9, <2>2, PanicAt
    <3>2. \A n \in Lines : \A j \in Nat : LineAt(v, p, j, n)' => LineAt(v, p, j, n)
      BY <1>9, <2>2, PanicAt
    <3> QED BY <3>1, <3>2 DEF Rests
  <2> QED BY <2>1, <2>2
<1>10. CASE Next
  <2>1. Steps
    BY <1>10, <1>a, NextSteps
  <2> QED BY <1>1, <1>2, <1>3, <1>4, <1>5, <1>6, <1>7, <1>8, <1>9, <2>1 DEF Steps
<1> QED BY <1>1, <1>10

LEMMA SinkNumbers ==
    ASSUME Calm, TypeOK', NEW v \in Versions, NEW p \in Paths
    PROVE  /\ inode[<<v, p>>] \in Nat /\ inode'[<<v, p>>] \in Nat /\ Moved(p) \in Nat
           /\ retired[p] \in Nat /\ retired[p] <= Moved(p)
           /\ \A n \in Lines : avoid[n][p] \in Nat /\ avoid[n][p] <= Moved(p)
           /\ \A t \in Threads : op[t] # Idle => op[t].before[p] \in Nat /\ op[t].before[p] <= Moved(p)
<1>1. TypeOK /\ Numbers
    BY DEF Calm
<1>2. inode[<<v, p>>] \in Files /\ inode'[<<v, p>>] \in Files /\ \A i \in Files : i \in Nat
  <2>1. inode \in [Versions \X Paths -> Files] /\ inode' \in [Versions \X Paths -> Files]
    BY <1>1 DEF TypeOK
  <2>2. Files \subseteq Nat
    BY BoundsAssumption DEF Files
  <2> QED BY <2>1, <2>2
<1>3. /\ Moved(p) \in Nat /\ retired[p] \in Nat /\ retired[p] <= Moved(p)
      /\ \A n \in Lines : avoid[n][p] \in Nat /\ avoid[n][p] <= Moved(p)
    BY <1>1 DEF Numbers, TypeOK
<1>4. \A t \in Threads : op[t] # Idle => op[t].before[p] \in Nat /\ op[t].before[p] <= Moved(p)
    BY <1>1, OpFacts DEF Numbers
<1> QED BY <1>2, <1>3, <1>4

\* No reopen stores one of the files up to b for this sink.
Safe(v, p, b) == \A t \in Threads : \A k \in 1..Len(Configs[v]) : Stores(t, v, k, p) => opened[t] > b

\* A sink that is past the files up to b stays past them.
LEMMA OpenedStep ==
    ASSUME Calm, TypeOK', [Next]_vars, NEW v \in Versions, NEW p \in Paths, NEW b \in Nat, b <= Moved(p),
           Safe(v, p, b), Opened(v, p, b)
    PROVE  Opened(v, p, b)'
<1>1. SinkMoves(v, p) /\ (Rests(v, p) \/ Shifts(v, p) \/ Receives(v, p) \/ Clears(v, p))
    BY SinkStep, ChannelStep
<1>2. inode[<<v, p>>] \in Nat /\ inode'[<<v, p>>] \in Nat /\ Moved(p) \in Nat
    BY SinkNumbers
<1>3. Past(v, p) => Opened(v, p, b)'
  <2>1. inode'[<<v, p>>] > Moved(p) => inode'[<<v, p>>] > b
    BY <1>2
  <2> QED BY <2>1 DEF Past, Opened
<1>s. Stored(v, p) => inode'[<<v, p>>] > b
    BY DEF Safe, Stored
<1>4. CASE inode[<<v, p>>] > b \/ <<v, p>> \in failed
  <2>1. Past(v, p) \/ inode'[<<v, p>>] > b \/ <<v, p>> \in failed'
    BY <1>1, <1>4, <1>s DEF SinkMoves
  <2> QED BY <1>3, <2>1 DEF Opened
<1>5. CASE p \in Buffered(v) /\ writer[<<v, p>>] \in {"start", "panicked"}
    BY <1>1, <1>3, <1>5 DEF SinkMoves, Clears, Opened
<1>6. ASSUME p \in Buffered(v), NEW j \in Nat, ReopenAt(v, p, j)
      PROVE  Opened(v, p, b)'
  <2>1. CASE Rests(v, p) \/ Receives(v, p)
    <3>1. ReopenAt(v, p, j)'
      BY <1>6, <2>1 DEF Rests, Receives
    <3> QED BY <1>6, <3>1 DEF Opened
  <2>2. CASE Clears(v, p)
    BY <1>6, <2>2 DEF Clears, Opened
  <2>3. CASE Shifts(v, p)
    <3>1. CASE j = 1
      BY <1>3, <1>6, <2>3, <3>1 DEF Shifts
    <3>2. CASE j # 1
      <4>1. j # 0
        BY <1>6 DEF ReopenAt
      <4>2. j - 1 \in Nat /\ j - 1 # 0 /\ (j - 1) + 1 = j
        BY <3>2, <4>1
      <4>3. ReopenAt(v, p, j - 1)'
        BY <1>6, <2>3, <4>2 DEF Shifts
      <4> QED BY <1>6, <4>2, <4>3 DEF Opened
    <3> QED BY <3>1, <3>2
  <2> QED BY <1>1, <2>1, <2>2, <2>3
<1> QED BY <1>4, <1>5, <1>6 DEF Opened

\* And a line in a channel that is to go to a later file than b goes there.
LEMMA ReadyStep ==
    ASSUME Calm, TypeOK', [Next]_vars, NEW v \in Versions, NEW p \in Paths, NEW b \in Nat, b <= Moved(p),
           Safe(v, p, b), NEW n \in Lines, NEW j \in Nat, LineAt(v, p, j, n)',
           \A i \in Nat : LineAt(v, p, i, n) => Ready(v, p, i, b),
           \A t \in Threads : Logging(t, n) /\ op[t].version = v /\ p \in SinksOf(v) => Opened(v, p, b)
    PROVE  Ready(v, p, j, b)'
<1>1. SinkMoves(v, p) /\ (Rests(v, p) \/ Shifts(v, p) \/ Receives(v, p) \/ Clears(v, p))
    BY SinkStep, ChannelStep
<1>2. inode[<<v, p>>] \in Nat /\ inode'[<<v, p>>] \in Nat /\ Moved(p) \in Nat
    BY SinkNumbers
<1>3. Past(v, p) => Ready(v, p, j, b)'
  <2>1. inode'[<<v, p>>] > Moved(p) => inode'[<<v, p>>] > b
    BY <1>2
  <2> QED BY <2>1 DEF Past, Ready
<1>s. Stored(v, p) => inode'[<<v, p>>] > b
    BY DEF Safe, Stored
<1>4. CASE inode[<<v, p>>] > b \/ <<v, p>> \in failed
  <2>1. Past(v, p) \/ inode'[<<v, p>>] > b \/ <<v, p>> \in failed'
    BY <1>1, <1>4, <1>s DEF SinkMoves
  <2> QED BY <1>3, <2>1 DEF Ready
<1>5. CASE writer[<<v, p>>] = "start"
    BY <1>1, <1>3, <1>5 DEF SinkMoves, Clears, Ready
<1>6. ASSUME NEW k \in Nat, k < j, ReopenAt(v, p, k)'
      PROVE  Ready(v, p, j, b)'
    BY <1>6 DEF Ready
<1>7. CASE (Rests(v, p) \/ Receives(v, p)) /\ LineAt(v, p, j, n)
  <2>1. Ready(v, p, j, b)
    BY <1>7
  <2>2. \A k \in Nat : ReopenAt(v, p, k) => ReopenAt(v, p, k)'
    BY <1>7 DEF Rests, Receives
  <2> QED BY <1>4, <1>5, <1>6, <2>1, <2>2 DEF Ready
<1>8. CASE Shifts(v, p)
  <2>1. LineAt(v, p, j + 1, n) /\ j + 1 \in Nat
    BY <1>8 DEF Shifts
  <2>2. Ready(v, p, j + 1, b)
    BY <2>1
  <2>3. ASSUME NEW k \in Nat, k < j + 1, ReopenAt(v, p, k)
        PROVE  Ready(v, p, j, b)'
    <3>1. CASE k = 1
      BY <1>3, <1>8, <2>3, <3>1 DEF Shifts
    <3>2. CASE k # 1
      <4>1. k # 0
        BY <2>3 DEF ReopenAt
      <4>2. k - 1 \in Nat /\ k - 1 # 0 /\ (k - 1) + 1 = k /\ k - 1 < j
        BY <2>3, <3>2, <4>1
      <4>3. ReopenAt(v, p, k - 1)'
        BY <1>8, <2>3, <4>2 DEF Shifts
      <4> QED BY <1>6, <4>2, <4>3
    <3> QED BY <3>1, <3>2
  <2> QED BY <1>4, <1>5, <2>2, <2>3 DEF Ready
<1>9. CASE Receives(v, p) /\ ~LineAt(v, p, j, n)
  <2>1. PICK t \in Threads : \E k \in 1..Len(Configs[v]) :
          /\ At(t, "log", v, k, p)
          /\ \A m \in Lines : \A i \in Nat : LineAt(v, p, i, m)' =>
              LineAt(v, p, i, m) \/ (NewestAt(v, p, v, p, i) /\ m = op[t].line)
    BY <1>9 DEF Receives
  <2>2. /\ op[t] # Idle /\ op[t].version = v /\ p \in SinksOf(v)
        /\ NewestAt(v, p, v, p, j) /\ n = op[t].line
    BY <1>9, <2>1 DEF At
  <2>3. Opened(v, p, b)
    BY <2>2 DEF Logging
  <2>4. \A k \in Nat : ReopenAt(v, p, k) => ReopenAt(v, p, k)' /\ k < j
    <3>1. Len(queue[<<v, p>>]) \in Nat
      <4>1. queue[<<v, p>>] \in Seq(Messages)
        BY DEF Calm, TypeOK
      <4> QED BY <4>1
    <3>2. \A k \in Nat : ReopenAt(v, p, k) => k < j
      BY <2>2, <3>1 DEF ReopenAt, NewestAt
    <3> QED BY <1>9, <3>2 DEF Receives
  <2>5. writer[<<v, p>>] # "panicked"
    BY <2>2 DEF NewestAt
  <2> QED BY <1>4, <1>5, <1>6, <2>3, <2>4, <2>5 DEF Opened
<1> QED BY <1>1, <1>7, <1>8, <1>9 DEF Rests, Clears

\* A reopen that is under way after a step begins in it, or stays at its sink, or has
\* told that sink.
LEMMA ReopenGoesOn ==
    ASSUME Calm, [Next]_vars, NEW t \in Threads, Reopening(t)'
    PROVE  \/ op'[t].at = 1
           \/ /\ Reopening(t) /\ op'[t].version = op[t].version /\ op'[t].before = op[t].before
              /\ \/ op'[t].at = op[t].at
                 \/ /\ op'[t].at = op[t].at + 1
                    /\ \E v \in Versions, p \in Paths : \E k \in 1..Len(Configs[v]) :
                        Reopens(t, v, k, p) \/ Stores(t, v, k, p)
<1> USE DEF global, sinks, disk, counts, ghosts
<1> DEFINE Same == /\ Reopening(t) /\ op'[t].version = op[t].version /\ op'[t].before = op[t].before
                   /\ op'[t].at = op[t].at
           Told == /\ Reopening(t) /\ op'[t].version = op[t].version /\ op'[t].before = op[t].before
                   /\ op'[t].at = op[t].at + 1
                   /\ \E v \in Versions, p \in Paths : \E k \in 1..Len(Configs[v]) :
                       Reopens(t, v, k, p) \/ Stores(t, v, k, p)
<1>a. TypeOK /\ Numbers /\ Awaited /\ Loggers
    BY DEF Calm
<1>b. op'[t] # Idle /\ op'[t].kind = "reopen"
    BY DEF Reopening
<1>c. op'[t] = op[t] => Same
    BY <1>b DEF Reopening
<1>1. ASSUME SetupStart \/ BuildFails \/ Publish \/ MovesAway \/ UNCHANGED vars
      PROVE  Same
  <2>1. op' = op
    BY <1>1 DEF SetupStart, BuildFails, Publish, MovesAway, vars
  <2> QED BY <1>c, <2>1
<1>2. ASSUME NEW v \in Versions, NEW p \in Paths,
             \/ WriterStarts(v, p) \/ TakesReopen(v, p) \/ Empties(v, p) \/ Rotates(v, p) \/ WriterPanics(v, p)
             \/ \E n \in Lines : TakesLine(v, p, n)
             \/ \E k \in 1..Len(Configs[v]) : Builds(v, k, p)
             \/ \E u \in Threads : \E k \in 1..Len(Configs[v]) : OpensRaw(u, v, k, p)
      PROVE  Same
  <2>1. op' = op
    BY <1>2 DEF WriterStarts, TakesReopen, Empties, Rotates, WriterPanics, TakesLine, Builds, OpensRaw
  <2> QED BY <1>c, <2>1
<1>3. ASSUME NEW u \in Threads, StartsOther(u) \/ \E n \in Lines : StartsLog(u, n)
      PROVE  op'[t].at = 1 \/ Same
    BY <1>3, <1>b DEF StartsOther, StartsLog, Begins, Reopening
<1>4. ASSUME NEW u \in Threads, Gives(u) \/ Returns(u)
      PROVE  Same
  <2>1. op'[u] = Idle /\ \A w \in Threads : w # u => op'[w] = op[w]
    BY <1>4 DEF Gives, Returns, Ends
  <2> QED BY <1>b, <1>c, <2>1
<1>5. ASSUME NEW u \in Threads, NEW v \in Versions, NEW p \in Paths, NEW k \in 1..Len(Configs[v]),
             \/ LogsTo(u, v, k, p) \/ Flushes(u, v, k, p)
             \/ Reopens(u, v, k, p) \/ Stores(u, v, k, p)
      PROVE  Same \/ Told
  <2>1. GoesOn(u) /\ op[u].kind \in {"log", "flush", "reopen"}
    BY <1>5 DEF LogsTo, Flushes, Reopens, Stores, At, Advances
  <2>2. CASE u # t
    BY <1>c, <2>1, <2>2 DEF GoesOn
  <2>3. CASE u = t
    <3>1. op[t].kind = "reopen" /\ Reopening(t) /\ op'[t].version = op[t].version /\ op'[t].before = op[t].before
      BY <1>b, <2>1, <2>3 DEF GoesOn, Reopening
    <3>2. Reopens(t, v, k, p) \/ Stores(t, v, k, p)
      BY <1>5, <2>3, <3>1 DEF LogsTo, Flushes, At
    <3>3. op'[t].at = op[t].at + 1
      BY <3>2 DEF Reopens, Stores, Advances
    <3> QED BY <3>1, <3>2, <3>3
  <2> QED BY <2>2, <2>3
<1>6. ASSUME NEW v \in Versions, NEW p \in Paths, NEW u \in Threads, TakesFlush(v, p, u)
      PROVE  Same
  <2>1. GoesOn(u) /\ op[u].kind = "flush"
    BY <1>6 DEF TakesFlush, Waiting
  <2>2. u # t
    BY <1>b, <2>1 DEF GoesOn
  <2> QED BY <1>c, <2>1, <2>2 DEF GoesOn
<1>7. CASE Next
  <2>1. Steps
    BY <1>7, <1>a, NextSteps
  <2> HIDE DEF Same, Told
  <2>2. op'[t].at = 1 \/ Same \/ Told
    BY <1>1, <1>2, <1>3, <1>4, <1>5, <1>6, <2>1 DEF Steps
  <2> QED BY <2>2 DEF Same, Told
<1> QED BY <1>1, <1>7

\* A reopen that began alone has been alone since.
LEMMA AloneStep ==
    ASSUME Calm, [Next]_vars
    PROVE  alone' = alone \/ \E t \in Threads : StartsOther(t)
<1> USE DEF global, sinks, disk, counts, ghosts
<1>1. CASE SetupStart \/ BuildFails \/ Publish \/ MovesAway \/ UNCHANGED vars
    BY <1>1 DEF SetupStart, BuildFails, Publish, MovesAway, vars
<1>2. ASSUME NEW t \in Threads, Gives(t) \/ Returns(t) \/ \E n \in Lines : StartsLog(t, n)
      PROVE  alone' = alone
    BY <1>2 DEF Gives, Returns, StartsLog
<1>3. ASSUME NEW t \in Threads, NEW v \in Versions, NEW p \in Paths, NEW k \in 1..Len(Configs[v]),
             \/ LogsTo(t, v, k, p) \/ Flushes(t, v, k, p)
             \/ Reopens(t, v, k, p) \/ OpensRaw(t, v, k, p) \/ Stores(t, v, k, p)
      PROVE  alone' = alone
    BY <1>3 DEF LogsTo, Flushes, Reopens, OpensRaw, Stores
<1>4. ASSUME NEW v \in Versions, NEW p \in Paths, NEW k \in 1..Len(Configs[v]), Builds(v, k, p)
      PROVE  alone' = alone
    BY <1>4 DEF Builds
<1>5. ASSUME NEW v \in Versions, NEW p \in Paths,
             \/ WriterStarts(v, p) \/ TakesReopen(v, p) \/ Empties(v, p) \/ Rotates(v, p)
             \/ WriterPanics(v, p)
             \/ \E n \in Lines : TakesLine(v, p, n)
             \/ \E t \in Threads : TakesFlush(v, p, t)
      PROVE  alone' = alone
    BY <1>5 DEF WriterStarts, TakesReopen, Empties, Rotates, WriterPanics, TakesLine, TakesFlush
<1>6. CASE Next
  <2>1. Steps
    BY <1>6, NextSteps DEF Calm
  <2> QED BY <1>1, <1>2, <1>3, <1>4, <1>5, <2>1 DEF Steps
<1> QED BY <1>1, <1>6

LEMMA NoneAloneStep ==
    ASSUME Calm, Calm', Followed, [Next]_vars
    PROVE  NoneAlone'
<1> SUFFICES ASSUME NEW t \in Threads, NEW u \in Threads, t # u, Reopening(t)', Reopening(u)',
                    op'[t].version = op'[u].version, t \in alone'
             PROVE  FALSE
    BY DEF NoneAlone
<1>1. ASSUME NEW w \in Threads, StartsOther(w)
      PROVE  FALSE
  <2>1. /\ Begins(w, "flush", 0) \/ Begins(w, "reopen", 0)
        /\ \/ op'[w].kind = "flush" /\ alone' = alone
           \/ alone' = IF Reopeners = {} THEN alone \cup {w} ELSE alone \ (Reopeners \cup {w})
    BY <1>1 DEF StartsOther, Begins
  <2>2. /\ op'[w].version = cur
        /\ \A x \in Threads : x # w /\ Reopening(x)' => Reopening(x) /\ op'[x].version = op[x].version
    BY <2>1 DEF Begins, Reopening
  <2>3. CASE t # w /\ u # w
    <3>1. t \notin alone
      BY <2>2, <2>3 DEF Followed, NoneAlone
    <3> QED BY <2>1, <2>3, <3>1
  <2>4. CASE t = w
    <3>1. u \in Reopeners
      BY <2>2, <2>4 DEF Reopeners
    <3>2. op'[w].kind # "flush"
      BY <2>4 DEF Reopening
    <3> QED BY <2>1, <2>4, <3>1, <3>2
  <2>5. CASE u = w
    <3>1. t \in Reopeners
      BY <2>2, <2>5 DEF Reopeners
    <3>2. op'[w].kind # "flush"
      BY <2>5 DEF Reopening
    <3> QED BY <2>1, <2>5, <3>1, <3>2
  <2> QED BY <2>3, <2>4, <2>5
<1>2. CASE ~\E w \in Threads : StartsOther(w)
  <2>1. alone' = alone
    BY <1>2, AloneStep
  <2>2. \A x \in Threads : Reopening(x)' => Reopening(x) /\ op'[x].version = op[x].version
    <3>1. ASSUME NEW w \in Threads, NEW n \in Lines, StartsLog(w, n), NEW x \in Threads, Reopening(x)'
          PROVE  Reopening(x) /\ op'[x].version = op[x].version
      <4>1. Begins(w, "log", n)
        BY <3>1 DEF StartsLog
      <4> QED BY <3>1, <4>1 DEF Begins, Reopening
    <3>2. CASE NoneBegins
      BY <3>2 DEF NoneBegins, Reopening
    <3>3. CASE UNCHANGED vars
      BY <3>3 DEF vars, Reopening
    <3>4. CASE Next
      BY <1>2, <3>1, <3>2, <3>4, NextSteps, OthersBeginNone DEF Calm
    <3> QED BY <3>3, <3>4
  <2>3. t \notin alone
    BY <2>2 DEF Followed, NoneAlone
  <2> QED BY <2>1, <2>3
<1> QED BY <1>1, <1>2

\* What a reopen stores was in its hand.
LEMMA StoresKeep ==
    ASSUME Handed, NEW t \in Threads, NEW v \in Versions, NEW p \in Paths, NEW k \in 1..Len(Configs[v]),
           Stores(t, v, k, p)
    PROVE  Reopening(t) /\ op[t].version = v /\ p \notin Buffered(v) /\ Keeps(t, v, p)
<1>1. opened[t] # 0 /\ v = op[t].version /\ k = op[t].at /\ p = Configs[v][k].path
    BY DEF Stores, At
<1>2. PICK w \in Versions, q \in Paths : \E i \in Nat : InHand(t, w, i, q) /\ Keeps(t, w, q)
    BY <1>1 DEF Handed
<1>3. w = v /\ q = p /\ Reopening(t) /\ p \notin Buffered(v)
    BY <1>1, <1>2 DEF InHand
<1> QED BY <1>1, <1>2, <1>3

\* No file a reopen has in hand is stored where it harms: for the records, for the
\* list in force, and for a reopen that owes it.
LEMMA SafeForRecord ==
    ASSUME Handed, NEW n \in 1..lines, NEW v \in Versions, NEW p \in Paths, went[n] = v
    PROVE  Safe(v, p, avoid[n][p])
BY StoresKeep DEF Safe, Keeps

LEMMA SafeForList ==
    ASSUME Handed, NEW v \in Versions, NEW p \in Paths, v = cur
    PROVE  Safe(v, p, retired[p])
BY StoresKeep DEF Safe, Keeps

LEMMA SafeForReopen ==
    ASSUME Handed, NoneAlone, NEW t \in Threads, Reopening(t), NEW v \in Versions, v = op[t].version,
           NEW p \in Paths, t \in alone \/ p \in Buffered(v)
    PROVE  Safe(v, p, op[t].before[p])
<1> SUFFICES ASSUME NEW u \in Threads, NEW k \in 1..Len(Configs[v]), Stores(u, v, k, p)
             PROVE  opened[u] > op[t].before[p]
    BY DEF Safe
<1>1. Reopening(u) /\ op[u].version = v /\ p \notin Buffered(v) /\ Keeps(u, v, p)
    BY StoresKeep
<1>2. u = t
    BY <1>1 DEF NoneAlone
<1> QED BY <1>1, <1>2 DEF Keeps

\* A step that stores a file changes none of these.
LEMMA StoresSame ==
    ASSUME NEW t \in Threads, NEW v \in Versions, NEW p \in Paths, NEW k \in 1..Len(Configs[v]),
           Stores(t, v, k, p)
    PROVE  /\ UNCHANGED <<cur, setup, queue, buf, retired, avoid>>
           /\ \A u \in Threads, n \in Lines : Logging(u, n)' =>
                Logging(u, n) /\ op'[u].version = op[u].version
<1>1. UNCHANGED <<cur, setup, queue, buf, retired, avoid>> /\ GoesOn(t)
    BY DEF Stores, Advances, ghosts
<1>2. \A u \in Threads, n \in Lines : Logging(u, n)' => Logging(u, n) /\ op'[u].version = op[u].version
    BY <1>1 DEF GoesOn, Logging
<1> QED BY <1>1, <1>2

\* A sink that a reopen has reached has opened the file, or will: the request
\* is in its channel, unless its writer panicked.
LEMMA SentOpened ==
    ASSUME TypeOK, NEW v \in Versions, NEW p \in Paths, NEW b \in Nat, NEW m, Sent(v, p, m),
           m.kind = "reopen", p \in Buffered(v), UNCHANGED writer
    PROVE  Opened(v, p, b)'
<1>1. CASE writer[<<v, p>>] = "panicked"
    BY <1>1 DEF Opened
<1>2. CASE writer[<<v, p>>] # "panicked"
  <2>1. Len(queue[<<v, p>>]) \in Nat
    <3>1. queue[<<v, p>>] \in Seq(Messages)
      BY DEF TypeOK
    <3> QED BY <3>1
  <2>2. PICK j \in Nat : j = Len(queue[<<v, p>>]) + 1
    BY <2>1
  <2>3. NewestAt(v, p, v, p, j)
    BY <1>2, <2>2 DEF NewestAt
  <2>4. j \in 1..Len(queue'[<<v, p>>]) /\ queue'[<<v, p>>][j] = m
    BY <2>3, SentAt
  <2>5. ReopenAt(v, p, j)'
    BY <2>4 DEF ReopenAt
  <2> QED BY <2>5 DEF Opened
<1> QED BY <1>1, <1>2

LEMMA ReopensFollowStep ==
    ASSUME Calm, Calm', Followed, [Next]_vars
    PROVE  ReopensFollow'
<1>a. TypeOK /\ TypeOK'
    BY DEF Calm
<1> SUFFICES ASSUME NEW t \in Threads, Reopening(t)', NEW v \in Versions, v = op'[t].version,
                    NEW k \in 1..Len(Configs[v]), k < op'[t].at,
                    NEW p \in Paths, p = Configs[v][k].path, NEW b \in Nat, b = op'[t].before[p],
                    t \in alone' \/ p \in Buffered(v)
             PROVE  Opened(v, p, b)'
  <2>1. \A t \in Threads : Reopening(t)' => op'[t].version \in Versions /\ op'[t].before \in [Paths -> Nat]
    BY <1>a, OpFacts DEF TypeOK, Ops, Reopening
  <2>2. \A v \in Versions : \A k \in 1..Len(Configs[v]) : Configs[v][k].path \in Paths
    BY Bounds
  <2> QED BY <2>1, <2>2 DEF ReopensFollow
<1>1. k \in Nat \ {0} /\ ~(k < 1)
    BY Bounds
<1>2. /\ Reopening(t) /\ v = op[t].version /\ b = op[t].before[p] /\ op[t] # Idle
      /\ \/ op'[t].at = op[t].at
         \/ /\ op'[t].at = op[t].at + 1
            /\ \E w \in Versions, q \in Paths : \E i \in 1..Len(Configs[w]) :
                Reopens(t, w, i, q) \/ Stores(t, w, i, q)
    BY <1>1, ReopenGoesOn DEF Reopening
<1>b. t \in alone \/ p \in Buffered(v)
  <2>1. ASSUME NEW w \in Threads, StartsOther(w)
        PROVE  alone' \subseteq alone \cup {w} /\ w # t
    <3>1. op[w] = Idle /\ alone' \subseteq alone \cup {w}
      BY <2>1 DEF StartsOther, Begins
    <3> QED BY <1>2, <3>1
  <2> QED BY <2>1, AloneStep
<1>3. b <= Moved(p) /\ Moved(p) \in Nat /\ op[t].at \in Nat
    BY <1>a, <1>2, SinkNumbers, OpFacts
<1>4. CASE k < op[t].at
  <2>1. Opened(v, p, b)
    BY <1>2, <1>4, <1>b DEF Followed, ReopensFollow
  <2>2. Safe(v, p, b)
    BY <1>2, <1>b, SafeForReopen DEF Followed
  <2> QED BY <1>a, <1>3, <2>1, <2>2, OpenedStep
<1>5. CASE ~(k < op[t].at)
  <2>1. k = op[t].at
    <3>1. PICK a \in Nat : a = op[t].at
      BY <1>3
    <3>2. ~(k < a) /\ k \in Nat /\ k < op'[t].at /\ op'[t].at \in {a, a + 1}
      BY <1>1, <1>2, <1>5, <3>1
    <3> QED BY <3>1, <3>2
  <2>2. PICK w \in Versions, q \in Paths : \E i \in 1..Len(Configs[w]) :
            Reopens(t, w, i, q) \/ Stores(t, w, i, q)
    BY <1>2, <1>3, <1>5
  <2>3. PICK i \in 1..Len(Configs[w]) : Reopens(t, w, i, q) \/ Stores(t, w, i, q)
    BY <2>2
  <2>4. w = v /\ i = k /\ q = p
    BY <1>2, <2>1, <2>3 DEF Reopens, Stores, At
  <2>5. CASE Stores(t, v, k, p)
    <3>a. Handed
      BY DEF Followed
    <3>b. Keeps(t, v, p)
      BY <2>5, <3>a, StoresKeep
    <3>c. opened[t] > op[t].before[p]
      BY <3>b DEF Keeps
    <3>1. opened[t] > b
      BY <1>2, <3>c
    <3>2. inode'[<<v, p>>] = opened[t]
      BY <2>5 DEF Stores, Has
    <3> QED BY <3>1, <3>2 DEF Opened
  <2> DEFINE m == [kind |-> "reopen"]
  <2>6. CASE Reopens(t, v, k, p)
    <3>1. m.kind = "reopen" /\ Sent(v, p, m) /\ p \in Buffered(v) /\ writer' = writer
      BY <2>6 DEF Reopens
    <3> HIDE DEF m
    <3> QED BY <1>a, <3>1, SentOpened
  <2> QED BY <2>3, <2>4, <2>5, <2>6
<1> QED BY <1>4, <1>5

\* What a step does to what is in force, built and retired.
LEMMA GlobalStep ==
    ASSUME Calm, [Next]_vars
    PROVE  /\ \/ setup'.version = 0 \/ setup'.at = 1 \/ setup' = setup
              \/ \E v \in Versions, p \in Paths : \E k \in 1..Len(Configs[v]) : Builds(v, k, p)
           /\ cur' = cur \/ Publish
           /\ retired' = retired \/ \E t \in Threads : Returns(t)
<1> USE DEF global, sinks, disk, counts, ghosts
<1>1. CASE SetupStart \/ BuildFails \/ Publish \/ MovesAway \/ UNCHANGED vars
    BY <1>1 DEF SetupStart, BuildFails, Publish, MovesAway, vars
<1>2. ASSUME NEW v \in Versions, NEW p \in Paths, NEW k \in 1..Len(Configs[v]), Builds(v, k, p)
      PROVE  cur' = cur /\ retired' = retired
    BY <1>2 DEF Builds
<1>3. ASSUME NEW t \in Threads, StartsOther(t) \/ Gives(t) \/ Returns(t) \/ \E n \in Lines : StartsLog(t, n)
      PROVE  setup' = setup /\ cur' = cur /\ (retired' = retired \/ Returns(t))
    BY <1>3 DEF StartsOther, Gives, Returns, StartsLog
<1>4. ASSUME NEW t \in Threads, NEW v \in Versions, NEW p \in Paths, NEW k \in 1..Len(Configs[v]),
             \/ LogsTo(t, v, k, p) \/ Flushes(t, v, k, p)
             \/ Reopens(t, v, k, p) \/ OpensRaw(t, v, k, p) \/ Stores(t, v, k, p)
      PROVE  setup' = setup /\ cur' = cur /\ retired' = retired
    BY <1>4 DEF LogsTo, Flushes, Reopens, OpensRaw, Stores
<1>5. ASSUME NEW v \in Versions, NEW p \in Paths,
             \/ WriterStarts(v, p) \/ TakesReopen(v, p) \/ Empties(v, p) \/ Rotates(v, p) \/ WriterPanics(v, p)
             \/ \E n \in Lines : TakesLine(v, p, n)
             \/ \E t \in Threads : TakesFlush(v, p, t)
      PROVE  setup' = setup /\ cur' = cur /\ retired' = retired
    BY <1>5 DEF WriterStarts, TakesReopen, Empties, Rotates, WriterPanics, TakesLine, TakesFlush
<1>6. CASE Next
  <2>1. Steps
    BY <1>6, NextSteps DEF Calm
  <2>2. CASE SetupStart \/ BuildFails \/ Publish \/ MovesAway
    BY <1>1, <2>2
  <2>3. CASE \E v \in Versions, p \in Paths : \E k \in 1..Len(Configs[v]) : Builds(v, k, p)
    BY <1>2, <2>3
  <2>4. CASE \E t \in Threads : StartsOther(t) \/ Gives(t) \/ Returns(t) \/ \E n \in Lines : StartsLog(t, n)
    BY <1>3, <2>4
  <2>5. CASE \E t \in Threads, v \in Versions, p \in Paths : \E k \in 1..Len(Configs[v]) :
             \/ LogsTo(t, v, k, p) \/ Flushes(t, v, k, p)
             \/ Reopens(t, v, k, p) \/ OpensRaw(t, v, k, p) \/ Stores(t, v, k, p)
    BY <1>4, <2>5
  <2>6. CASE \E v \in Versions, p \in Paths :
             \/ WriterStarts(v, p) \/ TakesReopen(v, p) \/ Empties(v, p) \/ Rotates(v, p) \/ WriterPanics(v, p)
             \/ \E n \in Lines : TakesLine(v, p, n)
             \/ \E t \in Threads : TakesFlush(v, p, t)
    BY <1>5, <2>6
  <2> QED BY <2>1, <2>2, <2>3, <2>4, <2>5, <2>6 DEF Steps
<1> QED BY <1>1, <1>6

\* A reopen that returns has told every sink of the list in force.
LEMMA RetiredStep ==
    ASSUME Calm, Followed, [Next]_vars, NEW p \in Paths, retired'[p] # retired[p]
    PROVE  /\ setup.version = 0 /\ setup' = setup /\ cur' = cur
           /\ p \in SinksOf(cur) => \E b \in Nat : b = retired'[p] /\ b <= Moved(p) /\ Opened(cur, p, b)
<1> USE DEF global, sinks, disk, counts, ghosts
<1>1. PICK t \in Threads : Returns(t)
    BY GlobalStep
<1>2. /\ retired'[p] = op[t].before[p] /\ Reopening(t) /\ setup.version = 0 /\ op[t].version = cur
      /\ t \in alone \/ p \in Buffered(cur)
      /\ \A k \in 1..Len(Configs[op[t].version]) : k < op[t].at
      /\ setup' = setup /\ cur' = cur /\ op[t] # Idle
    BY <1>1 DEF Returns, Ends, Holds
<1>3. op[t].before[p] \in Nat /\ op[t].before[p] <= Moved(p)
    BY <1>2, OpFacts DEF Calm, Numbers
<1>4. ASSUME p \in SinksOf(cur)
      PROVE  Opened(cur, p, op[t].before[p])
  <2>1. PICK k \in 1..Len(Configs[cur]) : Configs[cur][k].path = p
    BY <1>4 DEF SinksOf
  <2> QED BY <1>2, <2>1 DEF Followed, ReopensFollow
<1> QED BY <1>2, <1>3, <1>4

LEMMA BuiltFollowStep ==
    ASSUME Calm, Calm', Followed, [Next]_vars
    PROVE  BuiltFollow'
<1>a. TypeOK /\ TypeOK'
    BY DEF Calm
<1> SUFFICES ASSUME NEW v \in Versions, v = setup'.version,
                    NEW k \in 1..Len(Configs[v]), k < setup'.at,
                    NEW p \in Paths, p = Configs[v][k].path, NEW b \in Nat, b = retired'[p]
             PROVE  Opened(v, p, b)'
  <2>1. setup'.version # 0 => setup'.version \in Versions
    BY <1>a DEF TypeOK
  <2>2. \A v \in Versions : \A k \in 1..Len(Configs[v]) : Configs[v][k].path \in Paths
    BY Bounds
  <2>3. retired' \in [Paths -> Nat]
    BY <1>a DEF TypeOK
  <2> QED BY <2>1, <2>2, <2>3 DEF BuiltFollow
<1>1. v # 0 /\ k \in Nat \ {0} /\ ~(k < 1)
    BY Bounds DEF Versions
<1>2. b = retired[p] /\ b <= Moved(p) /\ Moved(p) \in Nat
  <2>1. b = retired[p]
    BY <1>1, RetiredStep
  <2> QED BY <1>a, <2>1, SinkNumbers
<1>s. setup.version = v => Safe(v, p, b)
  <2>1. \A t \in Threads : Reopening(t) => op[t].version # setup.version
    BY DEF Calm, Published, IsPublished, Reopening
  <2> QED BY <2>1, StoresKeep DEF Followed, Safe
<1>3. CASE setup' = setup
  <2>1. Opened(v, p, b)
    BY <1>1, <1>2, <1>3 DEF Followed, BuiltFollow
  <2> QED BY <1>a, <1>2, <1>3, <1>s, <2>1, OpenedStep
<1>4. ASSUME NEW w \in Versions, NEW q \in Paths, NEW i \in 1..Len(Configs[w]), Builds(w, i, q)
      PROVE  Opened(v, p, b)'
  <2>1. w = v /\ w = setup.version /\ i = setup.at /\ setup'.at = i + 1 /\ q = Configs[w][i].path /\ i \in Nat
    BY <1>4, Bounds DEF Builds
  <2>2. CASE k < i
    <3>1. Opened(v, p, b)
      BY <1>1, <1>2, <2>1, <2>2 DEF Followed, BuiltFollow
    <3> QED BY <1>a, <1>2, <1>s, <2>1, <3>1, OpenedStep
  <2>3. CASE ~(k < i)
    <3>1. k = i /\ q = p
      BY <1>1, <2>1, <2>3
    <3>2. CASE Opens(v, p)
      <4>1. inode'[<<v, p>>] = Moved(p) + 1
        BY <3>2 DEF Opens, Has
      <4>2. inode'[<<v, p>>] > b
        BY <1>2, <4>1
      <4> QED BY <4>2 DEF Opened
    <3>3. CASE p \in Buffered(v) /\ Becomes(v, p, "start")
      BY <3>3 DEF Becomes, Opened
    <3> QED BY <1>4, <2>1, <3>1, <3>2, <3>3 DEF Builds
  <2> QED BY <2>2, <2>3
<1> QED BY <1>1, <1>3, <1>4, GlobalStep

LEMMA ListFollowsStep ==
    ASSUME Calm, Calm', Followed, [Next]_vars
    PROVE  ListFollows'
<1>a. TypeOK /\ TypeOK'
    BY DEF Calm
<1> SUFFICES ASSUME NEW v \in Versions, v = cur', NEW p \in Paths, p \in SinksOf(v),
                    NEW b \in Nat, b = retired'[p]
             PROVE  Opened(v, p, b)'
  <2>1. cur' \in Versions /\ retired' \in [Paths -> Nat]
    BY <1>a DEF TypeOK
  <2>2. \A v \in Versions : SinksOf(v) \subseteq Paths
    BY Bounds DEF SinksOf
  <2> QED BY <2>1, <2>2 DEF ListFollows
<1>s. Safe(v, p, b)
    BY StoresSame, SafeForList DEF Followed, Safe
<1>1. CASE retired'[p] # retired[p]
  <2>1. v = cur
    BY <1>1, RetiredStep
  <2>2. b <= Moved(p) /\ Opened(v, p, b)
    BY <1>1, <2>1, RetiredStep
  <2> QED BY <1>a, <1>s, <2>2, OpenedStep
<1>2. CASE retired'[p] = retired[p]
  <2>1. b <= Moved(p)
    BY <1>a, <1>2, SinkNumbers
  <2>2. Opened(v, p, b)
    <3>1. CASE cur' = cur
      BY <1>2, <3>1 DEF Followed, ListFollows
    <3>2. CASE Publish
      <4>1. /\ v = setup.version /\ setup.version # 0
            /\ setup.at > Len(Configs[setup.version]) /\ setup.at \in Nat
        BY <1>a, <3>2 DEF Publish, TypeOK
      <4>2. PICK k \in 1..Len(Configs[v]) : Configs[v][k].path = p
        BY DEF SinksOf
      <4>3. k < setup.at
        BY <4>1, <4>2, Bounds
      <4> QED BY <1>2, <4>1, <4>2, <4>3 DEF Followed, BuiltFollow
    <3> QED BY <3>1, <3>2, GlobalStep
  <2> QED BY <1>a, <1>s, <2>1, <2>2, OpenedStep
<1> QED BY <1>1, <1>2

\* A file stays in the hand of its reopen until it is stored.
LEMMA HandKept ==
    ASSUME Calm, Handed, [Next]_vars, NEW t \in Threads, opened'[t] # 0
    PROVE  /\ op'[t] = op[t]
           /\ \/ opened'[t] = opened[t]
              \/ \E v \in Versions, p \in Paths : \E k \in 1..Len(Configs[v]) : OpensRaw(t, v, k, p)
<1> USE DEF global, sinks, disk, counts, ghosts
<1> DEFINE Kept == op'[t] = op[t] /\ opened'[t] = opened[t]
<1>a. opened[t] # 0 =>
        /\ Reopening(t) /\ op[t] # Idle /\ op[t].at \in 1..Len(Configs[op[t].version])
        /\ Configs[op[t].version][op[t].at].path \notin Buffered(op[t].version)
  <2>1. ASSUME opened[t] # 0
        PROVE  \E v \in Versions, p \in Paths : \E k \in Nat : InHand(t, v, k, p)
    BY <2>1 DEF Handed
  <2> QED BY <2>1 DEF InHand, Reopening
<1>1. CASE SetupStart \/ BuildFails \/ Publish \/ MovesAway \/ UNCHANGED vars
    BY <1>1 DEF SetupStart, BuildFails, Publish, MovesAway, vars
<1>2. ASSUME NEW v \in Versions, NEW p \in Paths, NEW k \in 1..Len(Configs[v]), Builds(v, k, p)
      PROVE  Kept
    BY <1>2 DEF Builds
<1>3. ASSUME NEW u \in Threads, StartsOther(u) \/ Gives(u) \/ \E n \in Lines : StartsLog(u, n)
      PROVE  Kept
  <2>1. /\ opened' = opened /\ \A w \in Threads : w # u => op'[w] = op[w]
        /\ op[u] = Idle \/ opened[u] = 0
    BY <1>3 DEF StartsOther, Gives, StartsLog, Begins, Ends
  <2> QED BY <1>a, <2>1
<1>4. ASSUME NEW u \in Threads, Returns(u)
      PROVE  Kept
  <2>1. /\ opened' = opened /\ \A w \in Threads : w # u => op'[w] = op[w]
        /\ \A k \in 1..Len(Configs[op[u].version]) : k < op[u].at
        /\ op[u].at \in Nat
    BY <1>4 DEF Returns, Ends
  <2>2. op[u].at \notin 1..Len(Configs[op[u].version])
    BY <2>1
  <2> QED BY <1>a, <2>1, <2>2
<1>5. ASSUME NEW u \in Threads, NEW v \in Versions, NEW p \in Paths, NEW k \in 1..Len(Configs[v]),
             LogsTo(u, v, k, p) \/ Flushes(u, v, k, p) \/ Reopens(u, v, k, p)
      PROVE  Kept
  <2>1. /\ opened' = opened /\ \A w \in Threads : w # u => op'[w] = op[w]
    BY <1>5 DEF LogsTo, Flushes, Reopens, Advances, GoesOn
  <2>2. \/ op[u].kind # "reopen"
        \/ Configs[op[u].version][op[u].at].path \in Buffered(op[u].version)
    BY <1>5 DEF LogsTo, Flushes, Reopens, At
  <2> QED BY <1>a, <2>1, <2>2 DEF Reopening
<1>6. ASSUME NEW u \in Threads, NEW v \in Versions, NEW p \in Paths, NEW k \in 1..Len(Configs[v]),
             OpensRaw(u, v, k, p)
      PROVE  op' = op /\ (u = t \/ Kept)
    BY <1>6 DEF OpensRaw
<1>7. ASSUME NEW u \in Threads, NEW v \in Versions, NEW p \in Paths, NEW k \in 1..Len(Configs[v]),
             Stores(u, v, k, p)
      PROVE  Kept
    BY <1>7 DEF Stores, Advances, GoesOn
<1>8. ASSUME NEW v \in Versions, NEW p \in Paths, NEW u \in Threads, TakesFlush(v, p, u)
      PROVE  Kept
  <2>1. opened' = opened /\ (\A w \in Threads : w # u => op'[w] = op[w]) /\ op[u].kind = "flush"
    BY <1>8 DEF TakesFlush, GoesOn, Waiting
  <2> QED BY <1>a, <2>1 DEF Reopening
<1>9. ASSUME NEW v \in Versions, NEW p \in Paths,
             \/ WriterStarts(v, p) \/ TakesReopen(v, p) \/ Empties(v, p) \/ Rotates(v, p)
             \/ WriterPanics(v, p)
             \/ \E n \in Lines : TakesLine(v, p, n)
      PROVE  Kept
    BY <1>9 DEF WriterStarts, TakesReopen, Empties, Rotates, WriterPanics, TakesLine
<1>10. CASE Next
  <2>1. Steps
    BY <1>10, NextSteps DEF Calm
  <2> HIDE DEF Kept
  <2>2. op'[t] = op[t] /\ (Kept \/ \E v \in Versions, p \in Paths : \E k \in 1..Len(Configs[v]) : OpensRaw(t, v, k, p))
    <3>1. Kept => op'[t] = op[t]
      BY DEF Kept
    <3>2. Kept \/ \E v \in Versions, p \in Paths : \E k \in 1..Len(Configs[v]) : OpensRaw(t, v, k, p)
      BY <1>1, <1>2, <1>3, <1>4, <1>5, <1>6, <1>7, <1>8, <1>9, <2>1 DEF Steps, Kept
    <3> QED BY <1>6, <3>1, <3>2
  <2> QED BY <2>2 DEF Kept
<1> QED BY <1>1, <1>10

\* A record keeps its version and what it is to avoid; one that begins gets those in force.
LEMMA RecordKept ==
    ASSUME Calm, [Next]_vars, NEW n \in 1..lines'
    PROVE  /\ n \in Lines
           /\ \/ n \in 1..lines /\ went'[n] = went[n] /\ avoid'[n] = avoid[n]
              \/ went'[n] = cur /\ avoid'[n] = retired
<1> USE DEF global, sinks, disk, counts, ghosts
<1>a. lines \in Nat /\ lines <= MaxLines /\ MaxLines \in Nat /\ Lines = 1..MaxLines
    BY BoundsAssumption DEF Calm, TypeOK, Lines
<1>1. ASSUME NEW u \in Threads, NEW m \in Lines, StartsLog(u, m)
      PROVE  /\ n \in Lines
             /\ \/ n \in 1..lines /\ went'[n] = went[n] /\ avoid'[n] = avoid[n]
                \/ went'[n] = cur /\ avoid'[n] = retired
  <2>1. /\ m = lines + 1 /\ lines' = m /\ went'[m] = cur /\ avoid'[m] = retired
        /\ \A x \in Lines : x # m => went'[x] = went[x] /\ avoid'[x] = avoid[x]
    BY <1>1 DEF StartsLog
  <2>2. n \in Lines /\ (n = m \/ n \in 1..lines)
    BY <1>a, <1>1, <2>1
  <2> QED BY <2>1, <2>2
<1>2. CASE ~\E u \in Threads, m \in Lines : StartsLog(u, m)
  <2>1. lines' = lines /\ went' = went /\ avoid' = avoid
    <3>1. CASE UNCHANGED vars
      BY <3>1 DEF vars
    <3>2. ASSUME NEW u \in Threads, StartsOther(u)
          PROVE  lines' = lines /\ went' = went /\ avoid' = avoid
      BY <3>2 DEF StartsOther
    <3>3. CASE Next
      BY <1>2, <3>2, <3>3, NextSteps, OthersBeginNone DEF Calm
    <3> QED BY <3>1, <3>3
  <2> QED BY <1>a, <2>1
<1> QED BY <1>1, <1>2

\* While a reopen has a file in hand for a raw sink, nothing makes the records of its list
\* avoid that file.
LEMMA HandedStep ==
    ASSUME Calm, Calm', Followed, [Next]_vars
    PROVE  Handed'
<1>a. TypeOK /\ TypeOK' /\ Handed /\ NoneAlone
    BY DEF Calm, Followed
<1> SUFFICES ASSUME NEW t \in Threads, opened'[t] # 0
             PROVE  \E v \in Versions, p \in Paths : \E k \in Nat : InHand(t, v, k, p)' /\ Keeps(t, v, p)'
    BY DEF Handed
<1>1. op'[t] = op[t]
    BY <1>a, HandKept
<1>2. ASSUME NEW v \in Versions, NEW p \in Paths, NEW k \in 1..Len(Configs[v]), OpensRaw(t, v, k, p)
      PROVE  \E x \in Versions, y \in Paths : \E z \in Nat : InHand(t, x, z, y)' /\ Keeps(t, x, y)'
  <2>1. /\ Reopening(t) /\ v = op[t].version /\ k = op[t].at /\ p = Configs[v][k].path
        /\ p \notin Buffered(v) /\ opened'[t] = Moved(p) + 1 /\ op[t] # Idle
        /\ UNCHANGED <<cur, op, lines, went, avoid, retired>>
    BY <1>2 DEF OpensRaw, At, Reopening, counts, ghosts
  <2>2. InHand(t, v, k, p)'
    BY <2>1 DEF InHand, Reopening
  <2>3. \A x \in Nat : x <= Moved(p) => opened'[t] > x
    <3>1. PICK m \in Nat : m = Moved(p)
      BY <1>a, SinkNumbers
    <3>2. opened'[t] = m + 1
      BY <2>1, <3>1
    <3> QED BY <3>1, <3>2
  <2>4. opened'[t] > op[t].before[p] /\ opened'[t] > retired[p]
    BY <1>a, <2>1, <2>3, SinkNumbers
  <2>5. \A n \in 1..lines : opened'[t] > avoid[n][p]
    <3>1. \A n \in 1..lines : n \in Lines
      BY <1>a, BoundsAssumption DEF TypeOK, Lines
    <3> QED BY <1>a, <2>3, <3>1, SinkNumbers
  <2>6. Keeps(t, v, p)'
    BY <2>1, <2>4, <2>5 DEF Keeps
  <2>7. k \in Nat
    BY Bounds
  <2> QED BY <2>2, <2>6, <2>7
<1>3. CASE opened'[t] = opened[t]
  <2>1. PICK v \in Versions, p \in Paths : \E k \in Nat : InHand(t, v, k, p) /\ Keeps(t, v, p)
    BY <1>a, <1>3 DEF Handed
  <2>2. PICK k \in Nat : InHand(t, v, k, p) /\ Keeps(t, v, p)
    BY <2>1
  <2>3. Reopening(t) /\ op[t] # Idle /\ v = op[t].version /\ p \notin Buffered(v)
    BY <2>2 DEF InHand, Reopening
  <2>4. InHand(t, v, k, p)'
    BY <1>1, <2>2 DEF InHand, Reopening
  <2>5. v = cur' => opened[t] > retired'[p]
    <3>1. CASE cur' # cur
      <4>1. cur' = setup.version
        BY <3>1, GlobalStep DEF Publish
      <4> QED BY <2>3, <4>1 DEF Calm, Published, IsPublished
    <3>2. CASE retired'[p] = retired[p] /\ cur' = cur
      BY <2>2, <3>2 DEF Keeps
    <3>3. CASE retired'[p] # retired[p] /\ cur' = cur /\ v = cur
      <4>1. PICK u \in Threads : Returns(u)
        BY <3>3, GlobalStep
      <4>2. /\ Reopening(u) /\ op[u].version = cur /\ op'[u] = Idle
            /\ u \in alone \/ p \in Buffered(cur)
        BY <3>3, <4>1 DEF Returns, Ends, Holds
      <4>3. u # t
        BY <1>1, <2>3, <4>2
      <4> QED BY <1>a, <2>3, <3>3, <4>2, <4>3 DEF NoneAlone
    <3> QED BY <3>1, <3>2, <3>3
  <2>6. ASSUME NEW n \in 1..lines', went'[n] = v
        PROVE  opened[t] > avoid'[n][p]
    <3>1. CASE n \in 1..lines /\ went'[n] = went[n] /\ avoid'[n] = avoid[n]
      BY <2>2, <2>6, <3>1 DEF Keeps
    <3>2. CASE went'[n] = cur /\ avoid'[n] = retired
      BY <2>2, <2>6, <3>2 DEF Keeps
    <3> QED BY <3>1, <3>2, RecordKept
  <2>7. Keeps(t, v, p)'
    BY <1>1, <1>3, <2>2, <2>5, <2>6 DEF Keeps
  <2> QED BY <2>2, <2>4, <2>7
<1> QED BY <1>a, <1>2, <1>3, HandKept

\* The records keep what they are to avoid; one that begins is nowhere yet.
LEMMA AvoidStep ==
    ASSUME Calm, Records, [Next]_vars, NEW n \in Lines, avoid'[n] # avoid[n]
    PROVE  /\ avoid'[n] = retired
           /\ \A t \in Threads : Logging(t, n)' => op'[t].version = cur
           /\ \A v \in Versions, p \in Paths : n \notin buf'[<<v, p>>] /\ \A j \in Nat : ~LineAt(v, p, j, n)'
           /\ \A p \in Paths, i \in Files : n \notin content'[<<p, i>>]
<1> USE DEF global, sinks, disk, counts, ghosts
<1>1. PICK t \in Threads : StartsLog(t, n)
  <2>1. Steps
    <3>1. CASE Next
      BY <3>1, NextSteps DEF Calm
    <3> QED BY <3>1 DEF vars
  <2>2. ASSUME NEW t \in Threads, NEW m \in Lines, StartsLog(t, m)
        PROVE  m = n
    BY <2>2 DEF StartsLog
  <2>3. ASSUME NEW t \in Threads, StartsOther(t)
        PROVE  FALSE
    BY <2>3 DEF StartsOther
  <2> QED BY <2>1, <2>2, <2>3, OthersBeginNone DEF Calm
<1>2. /\ n = lines + 1 /\ lines \in Nat /\ Begins(t, "log", n) /\ avoid'[n] = retired
      /\ UNCHANGED <<queue, buf, content>>
    BY <1>1, BoundsAssumption DEF StartsLog, Calm, TypeOK
<1>3. ASSUME NEW u \in Threads, Logging(u, n)'
      PROVE  op'[u].version = cur
  <2>1. CASE u = t
    BY <1>2, <2>1 DEF Begins
  <2>2. CASE u # t
    <3>1. Logging(u, n)
      BY <1>2, <1>3, <2>2 DEF Begins, Logging
    <3>2. n <= lines
      BY <3>1 DEF Calm, Loggers
    <3> QED BY <1>2, <3>2
  <2> QED BY <2>1, <2>2
<1>4. \A p \in Paths : ~Passed(n, p)
  <2>1. ~(n <= lines)
    BY <1>2
  <2> QED BY <2>1 DEF Passed
<1>5. \A p \in Paths : ~Written(n, p) /\ \A v \in Versions : ~HasCopy(n, v, p)
    BY <1>4 DEF Records, InOnePlace
<1> QED BY <1>2, <1>3, <1>5 DEF HasCopy, Queued, Written, LineAt

LEMMA LoggersFollowStep ==
    ASSUME Calm, Calm', Records, Followed, [Next]_vars
    PROVE  LoggersFollow'
<1>a. TypeOK /\ TypeOK'
    BY DEF Calm
<1> SUFFICES ASSUME NEW t \in Threads, NEW n \in Lines, Logging(t, n)', NEW v \in Versions, v = op'[t].version,
                    NEW p \in Paths, p \in SinksOf(v), NEW b \in Nat, b = avoid'[n][p]
             PROVE  Opened(v, p, b)'
  <2>1. \A t \in Threads, n \in Lines : Logging(t, n)' => op'[t].version \in Versions
    BY <1>a DEF TypeOK, Ops, Logging
  <2>2. avoid' \in [Lines -> [Paths -> Nat]]
    BY <1>a DEF TypeOK
  <2>3. \A v \in Versions : SinksOf(v) \subseteq Paths
    BY Bounds DEF SinksOf
  <2> QED BY <2>1, <2>2, <2>3 DEF LoggersFollow
<1>s. Safe(v, p, b)
  <2> SUFFICES ASSUME NEW u \in Threads, NEW k \in 1..Len(Configs[v]), Stores(u, v, k, p)
               PROVE  opened[u] > b
    BY DEF Safe
  <2>1. Logging(t, n) /\ op[t].version = v /\ b = avoid[n][p]
    BY StoresSame
  <2>2. n <= lines /\ went[n] = v
    BY <2>1 DEF Calm, Loggers
  <2>3. lines \in Nat /\ n \in Nat \ {0}
    <3>1. lines \in 0..MaxLines
      BY <1>a DEF TypeOK
    <3> QED BY <3>1, Bounds DEF Lines
  <2>4. n \in 1..lines
    BY <2>2, <2>3
  <2>5. Safe(v, p, avoid[n][p])
    BY <2>2, <2>4, SafeForRecord DEF Followed
  <2> QED BY <2>1, <2>5 DEF Safe
<1>1. CASE avoid'[n] # avoid[n]
  <2>1. v = cur /\ b = retired[p]
    BY <1>1, AvoidStep
  <2>2. b <= Moved(p) /\ Opened(v, p, b)
    BY <1>a, <2>1, SinkNumbers DEF Followed, ListFollows
  <2> QED BY <1>a, <1>s, <2>2, OpenedStep
<1>2. CASE avoid'[n] = avoid[n]
  <2>1. b <= Moved(p) /\ b = avoid[n][p]
    BY <1>a, <1>2, SinkNumbers
  <2>2. CASE Logging(t, n) /\ op'[t].version = op[t].version
    <3>1. Opened(v, p, b)
      BY <2>1, <2>2 DEF Followed, LoggersFollow
    <3> QED BY <1>a, <1>s, <2>1, <3>1, OpenedStep
  <2>3. CASE v = cur /\ avoid[n] = retired
    <3>1. Opened(v, p, b)
      BY <2>1, <2>3 DEF Followed, ListFollows
    <3> QED BY <1>a, <1>s, <2>1, <3>1, OpenedStep
  <2>4. (Logging(t, n) /\ op'[t].version = op[t].version) \/ (v = cur /\ avoid[n] = retired)
    <3>1. ASSUME NEW u \in Threads, NEW m \in Lines, StartsLog(u, m)
          PROVE  (Logging(t, n) /\ op'[t].version = op[t].version) \/ (v = cur /\ avoid[n] = retired)
      <4>1. Begins(u, "log", m) /\ avoid'[m] = retired
        BY <3>1 DEF StartsLog
      <4>2. CASE t = u
        BY <1>2, <4>1, <4>2 DEF Begins, Logging
      <4>3. CASE t # u
        BY <4>1, <4>3 DEF Begins, Logging
      <4> QED BY <4>2, <4>3
    <3>2. ASSUME NEW u \in Threads, StartsOther(u)
          PROVE  Logging(t, n) /\ op'[t].version = op[t].version
      <4>1. Begins(u, "flush", 0) \/ Begins(u, "reopen", 0)
        BY <3>2 DEF StartsOther
      <4>2. t # u
        BY <4>1, Bounds DEF Begins, Logging
      <4> QED BY <4>1, <4>2 DEF Begins, Logging
    <3>3. CASE NoneBegins
      BY <3>3 DEF NoneBegins, Logging
    <3>4. CASE Next
      BY <3>1, <3>2, <3>3, <3>4, NextSteps, OthersBeginNone DEF Calm
    <3>5. CASE UNCHANGED vars
      BY <3>5 DEF vars, Logging
    <3> QED BY <3>4, <3>5
  <2> QED BY <2>2, <2>3, <2>4
<1> QED BY <1>1, <1>2

LEMMA CopyFacts ==
    ASSUME Calm, Records, NEW n \in Lines, NEW v \in Versions, NEW p \in Paths, HasCopy(n, v, p)
    PROVE  went[n] = v /\ n \in 1..lines
<1>1. v = went[n] /\ Passed(n, p)
    BY DEF Records, InOnePlace
<1>2. n <= lines
    BY <1>1 DEF Passed
<1> QED BY <1>1, <1>2, Bounds DEF Calm, TypeOK

LEMMA QueuesFollowStep ==
    ASSUME Calm, Calm', Records, Followed, [Next]_vars
    PROVE  QueuesFollow'
<1>a. TypeOK /\ TypeOK'
    BY DEF Calm
<1> SUFFICES ASSUME NEW n \in Lines, NEW v \in Versions, NEW p \in Paths, NEW j \in Nat, LineAt(v, p, j, n)',
                    NEW b \in Nat, b = avoid'[n][p]
             PROVE  Ready(v, p, j, b)'
  <2>1. avoid' \in [Lines -> [Paths -> Nat]]
    BY <1>a DEF TypeOK
  <2> QED BY <2>1 DEF QueuesFollow
<1>1. avoid'[n] = avoid[n]
    BY AvoidStep
<1>2. b = avoid[n][p] /\ b <= Moved(p)
    BY <1>a, <1>1, SinkNumbers
<1>3. \A i \in Nat : LineAt(v, p, i, n) => Ready(v, p, i, b)
    BY <1>2 DEF Followed, QueuesFollow
<1>4. \A t \in Threads : Logging(t, n) /\ op[t].version = v /\ p \in SinksOf(v) => Opened(v, p, b)
    BY <1>2 DEF Followed, LoggersFollow
<1>5. Safe(v, p, b)
  <2> SUFFICES ASSUME NEW u \in Threads, NEW k \in 1..Len(Configs[v]), Stores(u, v, k, p)
               PROVE  opened[u] > b
    BY DEF Safe
  <2>1. LineAt(v, p, j, n)
    BY StoresSame DEF LineAt
  <2>2. went[n] = v /\ n \in 1..lines
    BY <2>1, CopyFacts DEF HasCopy, Queued
  <2> QED BY <1>2, <2>2, SafeForRecord DEF Followed, Safe
<1> QED BY <1>a, <1>2, <1>3, <1>4, <1>5, ReadyStep

\* Where the lines of a buffer and of a file come from.
LEMMA BufferStep ==
    ASSUME Calm, [Next]_vars, NEW n \in Lines, NEW v \in Versions, NEW p \in Paths, n \in buf'[<<v, p>>]
    PROVE  n \in buf[<<v, p>>] \/ TakesLine(v, p, n)
<1> USE DEF global, sinks, disk, counts, ghosts
<1>1. CASE SetupStart \/ BuildFails \/ Publish \/ MovesAway \/ UNCHANGED vars
    BY <1>1 DEF SetupStart, BuildFails, Publish, MovesAway, vars
<1>2. ASSUME NEW w \in Versions, NEW q \in Paths, NEW k \in 1..Len(Configs[w]), Builds(w, k, q)
      PROVE  buf' = buf
    BY <1>2 DEF Builds
<1>3. ASSUME NEW t \in Threads, StartsOther(t) \/ Gives(t) \/ Returns(t) \/ \E m \in Lines : StartsLog(t, m)
      PROVE  buf' = buf
    BY <1>3 DEF StartsOther, Gives, Returns, StartsLog
<1>4. ASSUME NEW t \in Threads, NEW w \in Versions, NEW q \in Paths, NEW k \in 1..Len(Configs[w]),
             \/ LogsTo(t, w, k, q) \/ Flushes(t, w, k, q)
             \/ Reopens(t, w, k, q) \/ OpensRaw(t, w, k, q) \/ Stores(t, w, k, q)
      PROVE  buf' = buf
    BY <1>4 DEF LogsTo, Flushes, Reopens, OpensRaw, Stores
<1>5. ASSUME NEW w \in Versions, NEW q \in Paths,
             WriterStarts(w, q) \/ TakesReopen(w, q) \/ Rotates(w, q) \/ WriterPanics(w, q)
      PROVE  buf' = buf
    BY <1>5 DEF WriterStarts, TakesReopen, Rotates, WriterPanics
<1>6. ASSUME NEW w \in Versions, NEW q \in Paths, Empties(w, q) \/ \E t \in Threads : TakesFlush(w, q, t)
      PROVE  n \in buf[<<v, p>>]
  <2>1. Puts(w, q, {}) \/ buf' = buf
    BY <1>6 DEF Empties, TakesFlush, Emptied
  <2> QED BY <2>1 DEF Puts
<1>7. ASSUME NEW w \in Versions, NEW q \in Paths, NEW m \in Lines, TakesLine(w, q, m)
      PROVE  n \in buf[<<v, p>>] \/ TakesLine(v, p, n)
  <2>1. buf'[<<v, p>>] = IF v = w /\ p = q THEN buf[<<w, q>>] \cup {m} ELSE buf[<<v, p>>]
    BY <1>7 DEF TakesLine, Puts
  <2> QED BY <1>7, <2>1
<1>8. CASE Next
  <2>1. Steps
    BY <1>8, NextSteps DEF Calm
  <2> QED BY <1>1, <1>2, <1>3, <1>4, <1>5, <1>6, <1>7, <2>1 DEF Steps
<1> QED BY <1>1, <1>8

\* Where record n was before it was in file i of path p: there, in a buffer of the sink that has
\* it open, or with a thread in the middle of its walk.
FoundBefore(n, p, i) ==
    \/ n \in content[<<p, i>>]
    \/ \E v \in Versions : n \in buf[<<v, p>>] /\ i = inode[<<v, p>>]
    \/ \E v \in Versions, t \in Threads :
        /\ Logging(t, n) /\ op[t].version = v /\ p \in SinksOf(v) /\ p \notin Buffered(v)
        /\ i = inode[<<v, p>>]

LEMMA ContentStep ==
    ASSUME Calm, [Next]_vars, NEW n \in Lines, NEW p \in Paths, NEW i \in Files, n \in content'[<<p, i>>]
    PROVE  FoundBefore(n, p, i)
<1> USE DEF FoundBefore
<1> USE DEF global, sinks, disk, counts, ghosts
<1>1. CASE SetupStart \/ BuildFails \/ Publish \/ MovesAway \/ UNCHANGED vars
    BY <1>1 DEF SetupStart, BuildFails, Publish, MovesAway, vars
<1>2. ASSUME NEW w \in Versions, NEW q \in Paths, NEW k \in 1..Len(Configs[w]), Builds(w, k, q)
      PROVE  content' = content
    BY <1>2 DEF Builds
<1>3. ASSUME NEW t \in Threads, StartsOther(t) \/ Gives(t) \/ Returns(t) \/ \E m \in Lines : StartsLog(t, m)
      PROVE  content' = content
    BY <1>3 DEF StartsOther, Gives, Returns, StartsLog
<1>4. ASSUME NEW t \in Threads, NEW w \in Versions, NEW q \in Paths, NEW k \in 1..Len(Configs[w]),
             Flushes(t, w, k, q) \/ Reopens(t, w, k, q) \/ OpensRaw(t, w, k, q) \/ Stores(t, w, k, q)
      PROVE  content' = content
    BY <1>4 DEF Flushes, Reopens, OpensRaw, Stores
<1>5. ASSUME NEW w \in Versions, NEW q \in Paths,
             \/ WriterStarts(w, q) \/ TakesReopen(w, q) \/ Rotates(w, q) \/ WriterPanics(w, q)
             \/ \E m \in Lines : TakesLine(w, q, m)
      PROVE  content' = content
    BY <1>5 DEF WriterStarts, TakesReopen, Rotates, WriterPanics, TakesLine
<1>6. ASSUME NEW w \in Versions, NEW q \in Paths, Empties(w, q) \/ \E t \in Threads : TakesFlush(w, q, t)
      PROVE  n \in content[<<p, i>>] \/ \E v \in Versions : n \in buf[<<v, p>>] /\ i = inode[<<v, p>>]
  <2>1. Adds(q, inode[<<w, q>>], buf[<<w, q>>]) \/ content' = content
    BY <1>6 DEF Empties, TakesFlush, Emptied
  <2>2. CASE content' = content
    BY <2>2
  <2>3. CASE Adds(q, inode[<<w, q>>], buf[<<w, q>>])
    <3>1. content'[<<p, i>>] = IF p = q /\ i = inode[<<w, q>>] THEN content[<<p, i>>] \cup buf[<<w, q>>]
                                                             ELSE content[<<p, i>>]
      BY <2>3 DEF Adds
    <3> QED BY <3>1
  <2> QED BY <2>1, <2>2, <2>3
<1>7. ASSUME NEW t \in Threads, NEW w \in Versions, NEW q \in Paths, NEW k \in 1..Len(Configs[w]),
             LogsTo(t, w, k, q)
      PROVE  \/ n \in content[<<p, i>>]
             \/ Logging(t, n) /\ op[t].version = w /\ p \in SinksOf(w) /\ p \notin Buffered(w)
                /\ i = inode[<<w, p>>]
  <2>1. op[t] # Idle /\ op[t].version = w /\ q \in SinksOf(w)
    BY <1>7 DEF LogsTo, At
  <2>2. CASE content' = content
    BY <2>2
  <2>3. CASE q \notin Buffered(w) /\ Adds(q, inode[<<w, q>>], {op[t].line})
    <3>1. content'[<<p, i>>] = IF p = q /\ i = inode[<<w, q>>] THEN content[<<p, i>>] \cup {op[t].line}
                                                             ELSE content[<<p, i>>]
      BY <2>3 DEF Adds
    <3> QED BY <2>1, <2>3, <3>1 DEF Logging
  <2> QED BY <1>7, <2>2, <2>3 DEF LogsTo
<1>8. CASE Next
  <2>1. Steps
    BY <1>8, NextSteps DEF Calm
  <2>2. CASE content' = content
    BY <2>2
  <2>3. CASE \E w \in Versions, q \in Paths : Empties(w, q) \/ \E t \in Threads : TakesFlush(w, q, t)
    BY <1>6, <2>3
  <2>4. CASE \E t \in Threads, w \in Versions, q \in Paths : \E k \in 1..Len(Configs[w]) : LogsTo(t, w, k, q)
    BY <1>7, <2>4
  <2>5. CASE SetupStart \/ BuildFails \/ Publish \/ MovesAway
    BY <1>1, <2>5
  <2>6. \/ content' = content
        \/ \E w \in Versions, q \in Paths : Empties(w, q) \/ \E t \in Threads : TakesFlush(w, q, t)
        \/ \E t \in Threads, w \in Versions, q \in Paths : \E k \in 1..Len(Configs[w]) : LogsTo(t, w, k, q)
        \/ SetupStart \/ BuildFails \/ Publish \/ MovesAway
    BY <1>2, <1>3, <1>4, <1>5, <2>1 DEF Steps
  <2> QED BY <2>2, <2>3, <2>4, <2>5, <2>6
<1> QED BY <1>1, <1>8

LEMMA BuffersFollowStep ==
    ASSUME Calm, Calm', Records, Followed, [Next]_vars
    PROVE  BuffersFollow'
<1>a. TypeOK /\ TypeOK'
    BY DEF Calm
<1> SUFFICES ASSUME NEW n \in Lines, NEW v \in Versions, NEW p \in Paths, n \in buf'[<<v, p>>],
                    NEW b \in Nat, b = avoid'[n][p]
             PROVE  inode'[<<v, p>>] > b \/ <<v, p>> \in failed'
  <2>1. avoid' \in [Lines -> [Paths -> Nat]]
    BY <1>a DEF TypeOK
  <2> QED BY <2>1 DEF BuffersFollow
<1>1. avoid'[n] = avoid[n]
    BY AvoidStep
<1>2. b = avoid[n][p] /\ b <= Moved(p) /\ inode[<<v, p>>] \in Nat /\ inode'[<<v, p>>] \in Nat /\ Moved(p) \in Nat
    BY <1>a, <1>1, SinkNumbers
<1>3. CASE n \in buf[<<v, p>>]
  <2>1. inode[<<v, p>>] > b \/ <<v, p>> \in failed
    BY <1>2, <1>3 DEF Followed, BuffersFollow
  <2>2. Stored(v, p) => inode'[<<v, p>>] > b
    <3>1. went[n] = v /\ n \in 1..lines
      BY <1>3, CopyFacts DEF HasCopy
    <3>2. Safe(v, p, b)
      BY <1>2, <3>1, SafeForRecord DEF Followed
    <3> QED BY <3>2 DEF Safe, Stored
  <2>3. SinkMoves(v, p)
    BY SinkStep
  <2>4. inode'[<<v, p>>] > Moved(p) => inode'[<<v, p>>] > b
    BY <1>2
  <2> QED BY <2>1, <2>2, <2>3, <2>4 DEF SinkMoves, Past
<1>4. CASE TakesLine(v, p, n)
  <2>1. LineAt(v, p, 1, n) /\ writer[<<v, p>>] = "run" /\ inode' = inode /\ failed' = failed
    BY <1>4 DEF TakesLine, Running
  <2>2. Ready(v, p, 1, b)
    BY <1>2, <2>1 DEF Followed, QueuesFollow
  <2>3. ASSUME NEW k \in Nat, k < 1
        PROVE  ~ReopenAt(v, p, k)
    BY <2>3 DEF ReopenAt
  <2> QED BY <2>1, <2>2, <2>3 DEF Ready
<1> QED BY <1>3, <1>4, BufferStep

LEMMA ReopenFollowsStep ==
    ASSUME Calm, Records, Followed, [Next]_vars,
           NEW n \in Lines, NEW p \in Paths, NEW i \in Files, n \in content'[<<p, i>>] \ content[<<p, i>>]
    PROVE  i > avoid[n][p] \/ <<went[n], p>> \in failed
<1>1. ASSUME NEW v \in Versions, n \in buf[<<v, p>>], i = inode[<<v, p>>]
      PROVE  i > avoid[n][p] \/ <<went[n], p>> \in failed
  <2>1. went[n] = v
    BY <1>1, CopyFacts DEF HasCopy
  <2> QED BY <1>1, <2>1 DEF Followed, BuffersFollow
<1>2. ASSUME NEW v \in Versions, NEW t \in Threads, Logging(t, n), op[t].version = v, p \in SinksOf(v),
             p \notin Buffered(v), i = inode[<<v, p>>]
      PROVE  i > avoid[n][p] \/ <<went[n], p>> \in failed
  <2>1. Opened(v, p, avoid[n][p])
    BY <1>2 DEF Followed, LoggersFollow
  <2>2. went[n] = v
    BY <1>2 DEF Calm, Loggers
  <2> QED BY <1>2, <2>1, <2>2 DEF Opened
<1>3. FoundBefore(n, p, i) /\ n \notin content[<<p, i>>]
    BY ContentStep
<1> QED BY <1>1, <1>2, <1>3 DEF FoundBefore

LEMMA InitFollowed == Init => Followed
<1> SUFFICES ASSUME Init PROVE Followed
    OBVIOUS
<1>1. \A t \in Threads : op[t] = Idle
    BY DEF Init
<1>2. BuiltFollow /\ LoggersFollow /\ ReopensFollow
  <2>1. setup.version = 0
    BY DEF Init
  <2> QED BY <1>1, <2>1 DEF BuiltFollow, LoggersFollow, ReopensFollow, Logging, Reopening
<1>a. NoneAlone /\ Handed
  <2>1. \A t \in Threads : opened[t] = 0
    BY DEF Init
  <2> QED BY <1>1, <2>1 DEF NoneAlone, Handed, Reopening
<1>3. ListFollows
  <2>1. \A p \in SinksOf(1) : p \in Paths
    BY Bounds DEF SinksOf, Versions
  <2>2. cur = 1 /\ 1 \in Versions
    BY Bounds DEF Init, Versions
  <2>3. \A p \in SinksOf(1) : inode[<<1, p>>] = 1 /\ retired[p] = 0
    BY <2>1, <2>2 DEF Init
  <2>4. \A p \in SinksOf(1) : inode[<<1, p>>] > retired[p]
    <3> SUFFICES ASSUME NEW p \in SinksOf(1) PROVE inode[<<1, p>>] > retired[p]
      OBVIOUS
    <3>1. inode[<<1, p>>] = 1 /\ retired[p] = 0
      BY <2>3
    <3>2. 1 > 0
      OBVIOUS
    <3> QED BY <3>1, <3>2
  <2> QED BY <2>2, <2>4 DEF ListFollows, Opened
<1>4. QueuesFollow
  <2>1. PICK e \in Seq(Messages) : e = <<>> /\ Len(e) = 0
    BY EmptySeq
  <2>2. \A v \in Versions, p \in Paths : queue[<<v, p>>] = e
    BY <2>1 DEF Init
  <2> QED BY <2>1, <2>2 DEF QueuesFollow, LineAt
<1>5. BuffersFollow
  <2>1. \A v \in Versions, p \in Paths : buf[<<v, p>>] = {}
    BY DEF Init
  <2> QED BY <2>1 DEF BuffersFollow
<1> QED BY <1>a, <1>2, <1>3, <1>4, <1>5 DEF Followed

-----------------------------------------------------------------------------
LEMMA Inductive == Spec => []IInv
<1>1. Init => IInv
    BY InitInv, InitRecords, InitFollowed DEF IInv, Calm
<1>2. IInv /\ [Next]_vars => IInv'
  <2> SUFFICES ASSUME IInv, [Next]_vars PROVE IInv'
    OBVIOUS
  <2>1. Calm /\ Records /\ Followed
    BY DEF IInv
  <2>2. Calm'
    BY <2>1, CalmStep
  <2>3. Records'
    BY <2>1, RecordsStep
  <2>4. Followed'
    BY <2>1, <2>2, BuiltFollowStep, ListFollowsStep, LoggersFollowStep, ReopensFollowStep,
       NoneAloneStep, HandedStep, QueuesFollowStep, BuffersFollowStep DEF Followed
  <2> QED BY <2>2, <2>3, <2>4 DEF IInv
<1> QED BY <1>1, <1>2, PTL DEF Spec

\* Types, for any number of threads, versions, sinks and paths.
THEOREM TypeCorrect == Spec => []TypeOK
<1>1. IInv => TypeOK
    BY DEF IInv, Calm
<1> QED BY <1>1, Inductive, PTL

\* GlobalLogger::log walks the list it loaded, whatever list try_setup stores meanwhile, and a
\* version that is dropped ends its writers only when their channels are empty: a record whose
\* call is over is in one place for each sink of one version, and nowhere else.
THEOREM OneConfigurationHolds == Spec => []OneConfiguration
<1>1. IInv => OneConfiguration
    BY RecordsAreOnce DEF IInv
<1> QED BY <1>1, Inductive, PTL

\* GlobalLogger::reopen tells every sink of the list in force, a writer takes that message
\* before the lines behind it, and a sink that is built later opens the file that has the name:
\* no record that begins after the reopen returned is written to a file moved away before it, but
\* by a writer whose last open failed.  A raw sink opens its file in one step and stores it in
\* another; what it has in hand is newer than every file that a reopen alone in its list has left.
THEOREM ReopenFollowsHolds == Spec => ReopenFollows
<1>1. IInv /\ [Next]_vars =>
        [\A n \in Lines, p \in Paths, i \in Files :
            n \in content'[<<p, i>>] \ content[<<p, i>>] =>
                i > avoid[n][p] \/ <<went[n], p>> \in failed]_vars
    BY ReopenFollowsStep DEF IInv
<1> QED BY <1>1, Inductive, PTL DEF Spec, ReopenFollows

=============================================================================
