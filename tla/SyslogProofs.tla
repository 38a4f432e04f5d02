---------------------------- MODULE SyslogProofs ----------------------------
(***************************************************************************)
(* Proofs about the syslog sink: no line is doubled or turned round across  *)
(* failures, a flush covers what was sent before it, and the sink implements *)
(* the abstract stream of LogStream.                                        *)
(***************************************************************************)
EXTENDS Syslog, FiniteSetTheorems, TLAPS

\* What the server has and what the BufWriter holds for it, in order.
Wire == socket \o wbuf

OnWire(i)  == \E k \in 1..Len(Wire) : Wire[k] = i
Taken(i)   == OnWire(i) \/ i \in lost
Handed(i)  == Taken(i) \/ (cur # 0 /\ i = cur)
InChan(i)  == \E k \in 1..Len(chan) : chan[k].kind = "line" /\ chan[k].id = i

\* The lines that have left the channel are the first r, the newest of them in
\* hand; the others are in the channel, in order.
ReceivedUpTo(r) ==
    /\ \A i \in Lines : Handed(i) <=> i <= r
    /\ cur # 0 => cur = r
    /\ \A k \in 1..Len(chan) : chan[k].kind = "line" => r < chan[k].id /\ chan[k].id <= sent
    /\ \A k, l \in 1..Len(chan) :
        chan[k].kind = "line" /\ chan[l].kind = "line" /\ k < l => chan[k].id < chan[l].id
    /\ \A i \in Lines : r < i /\ i <= sent => InChan(i)
Received == \E r \in 0..sent : ReceivedUpTo(r)

\* The lines that have left memory are the first n.
OutUpTo(n)  == \A i \in Lines : i \in Out <=> i <= n
LeftInOrder == \E n \in 0..MaxLines : OutUpTo(n)

\* The wire is in order, and neither the line in hand nor a lost one is on it.
WireInOrder ==
    /\ \A j, k \in 1..Len(Wire) : j < k => Wire[j] < Wire[k]
    /\ \A i \in lost : ~OnWire(i)
    /\ cur # 0 => ~Taken(cur)

Writing == {"write", "rewrite", "connect", "elapsed"}

\* Where a line is in hand, and where the BufWriter is known to be empty.
HandAndBuffer ==
    /\ cur # 0 <=> pc \in Writing
    /\ ~up \/ pc \in {"rewrite", "connect", "elapsed", "ack"} => wbuf = <<>>

\* A message of the channel is a line or a flush request.  The request stands
\* behind the lines it is about and before all others; its thread waits for it
\* and has no other.
RequestsQueued ==
    \A k \in 1..Len(chan) :
        /\ chan[k].kind = "line" => chan[k].id # 0
        /\ chan[k].kind = "flush" =>
            /\ chan[k].id = 0
            /\ chan[k].by # 0
            /\ app[chan[k].by] = "waiting" /\ mark[chan[k].by] <= sent
            /\ \A l \in 1..Len(chan) : chan[l].kind = "line" =>
                    (l < k <=> chan[l].id <= mark[chan[k].by])
            /\ \A l \in 1..Len(chan) :
                    chan[l].kind = "flush" /\ chan[l].by = chan[k].by => l = k

\* The request in hand: its lines have left the channel.
RequestInHand ==
    /\ acking # 0 =>
        /\ pc \in {"flush", "ack"}
        /\ app[acking] = "waiting" /\ mark[acking] <= sent
        /\ \A k \in 1..Len(chan) :
            /\ chan[k].kind = "line" => mark[acking] < chan[k].id
            /\ chan[k].kind = "flush" => chan[k].by # acking
    /\ pc = "ack" => acking # 0

IInv == TypeOK /\ Received /\ LeftInOrder /\ WireInOrder /\ HandAndBuffer
            /\ RequestsQueued /\ RequestInHand

-----------------------------------------------------------------------------
\* What sending and receiving do to the channel.
LEMMA AppendFacts ==
    ASSUME chan \in Seq(Message), NEW m \in Message, chan' = Append(chan, m)
    PROVE  /\ chan' \in Seq(Message)
           /\ Len(chan') = Len(chan) + 1 /\ Len(chan) \in Nat
           /\ \A k \in 1..Len(chan) : chan'[k] = chan[k]
           /\ chan'[Len(chan) + 1] = m
OBVIOUS

LEMMA TakeFacts ==
    ASSUME chan \in Seq(Message), NEW kind, Take(kind)
    PROVE  /\ chan' \in Seq(Message)
           /\ Len(chan) \in Nat \ {0} /\ Len(chan') = Len(chan) - 1
           /\ \A k \in 1..Len(chan) - 1 : chan'[k] = chan[k + 1]
           /\ Head(chan) = chan[1] /\ chan[1] \in Message /\ chan[1].kind = kind
           /\ pc = "recv"
BY DEF Take

LEMMA MessageTypes ==
    /\ \A i \in 0..MaxLines : LineMsg(i) \in Message
    /\ \A t \in Threads \cup {0} : FlushMsg(t) \in Message
BY BoundsAssumption DEF LineMsg, FlushMsg, Message

LEMMA ChanElements ==
    ASSUME chan \in Seq(Message), NEW k \in 1..Len(chan)
    PROVE  /\ chan[k] \in Message /\ chan[k].kind \in {"line", "flush"}
           /\ chan[k].id \in 0..MaxLines /\ chan[k].by \in Threads \cup {0}
<1>1. chan[k] \in Message
    OBVIOUS
<1> QED BY <1>1 DEF Message

\* The wire as one sequence.
LEMMA WireFacts ==
    ASSUME TypeOK
    PROVE  /\ Wire \in Seq(Lines)
           /\ Len(Wire) = Len(socket) + Len(wbuf)
           /\ Len(socket) \in Nat /\ Len(wbuf) \in Nat
           /\ \A k \in 1..Len(socket) : Wire[k] = socket[k]
           /\ \A k \in 1..Len(wbuf) : Wire[Len(socket) + k] = wbuf[k]
BY DEF TypeOK, Wire

\* A line that the connection takes goes to the end of the wire, whatever the
\* BufWriter does with it.
LEMMA AcceptFacts ==
    ASSUME TypeOK, cur \in Lines, Accept
    PROVE  /\ wbuf' \in Seq(Lines) /\ socket' \in Seq(Lines)
           /\ Wire' = Append(Wire, cur)
<1>1. CASE wbuf' = Append(wbuf, cur) /\ UNCHANGED socket
    BY <1>1 DEF TypeOK, Wire
<1>2. CASE wbuf' = <<cur>> /\ socket' = socket \o wbuf
    BY <1>2 DEF TypeOK, Wire
<1>3. CASE wbuf' = <<>> /\ socket' = socket \o wbuf \o <<cur>>
    BY <1>3 DEF TypeOK, Wire
<1> QED BY <1>1, <1>2, <1>3 DEF Accept

\* Dropping the writer cuts the wire, and what is cut off is lost.
LEMMA DropFacts ==
    ASSUME TypeOK, DropWriter
    PROVE  /\ wbuf' = <<>> /\ socket' \in Seq(Lines) /\ lost' \subseteq Lines
           /\ \E n \in 0..Len(Wire) :
                /\ Len(Wire') = n
                /\ \A k \in 1..n : Wire'[k] = Wire[k]
                /\ lost' = lost \cup {Wire[k] : k \in n + 1..Len(Wire)}
<1>1. PICK n \in 0..Len(wbuf) : /\ socket' = socket \o SubSeq(wbuf, 1, n)
                                /\ lost' = lost \cup {wbuf[k] : k \in n + 1..Len(wbuf)}
    BY DEF DropWriter
<1>2. wbuf' = <<>>
    BY DEF DropWriter
<1>3. /\ SubSeq(wbuf, 1, n) \in Seq(Lines) /\ Len(SubSeq(wbuf, 1, n)) = n
      /\ \A k \in 1..n : SubSeq(wbuf, 1, n)[k] = wbuf[k]
    BY DEF TypeOK
<1>4. socket' \in Seq(Lines) /\ lost' \subseteq Lines
    BY <1>1, <1>3 DEF TypeOK
<1>5. Wire' = socket' /\ Len(Wire') = Len(socket) + n
  <2>1. Wire' = socket'
    BY <1>2, <1>4 DEF Wire
  <2>2. Len(socket') = Len(socket) + n
    BY <1>1, <1>3 DEF TypeOK
  <2> QED BY <2>1, <2>2
<1>6. \A k \in 1..Len(socket) + n : Wire'[k] = Wire[k]
  <2> SUFFICES ASSUME NEW k \in 1..Len(socket) + n PROVE Wire'[k] = Wire[k]
    OBVIOUS
  <2>1. Len(socket) \in Nat /\ socket \in Seq(Lines) /\ wbuf \in Seq(Lines)
    BY DEF TypeOK
  <2>2. CASE k <= Len(socket)
    BY <1>1, <1>3, <1>5, <2>1, <2>2, WireFacts DEF TypeOK
  <2>3. CASE ~(k <= Len(socket))
    <3>1. k - Len(socket) \in 1..n /\ k - Len(socket) \in 1..Len(wbuf)
      BY <1>1, <2>1, <2>3
    <3>2. Wire[k] = wbuf[k - Len(socket)]
      BY <1>1, <2>1, <2>3, <3>1, WireFacts DEF TypeOK
    <3>3. Wire'[k] = SubSeq(wbuf, 1, n)[k - Len(socket)]
      BY <1>1, <1>3, <1>5, <2>1, <2>3, <3>1
    <3> QED BY <1>3, <3>1, <3>2, <3>3
  <2> QED BY <2>2, <2>3
<1>7. {wbuf[k] : k \in n + 1..Len(wbuf)} = {Wire[k] : k \in Len(socket) + n + 1..Len(Wire)}
  <2>1. ASSUME NEW k \in n + 1..Len(wbuf)
        PROVE  Len(socket) + k \in Len(socket) + n + 1..Len(Wire) /\ Wire[Len(socket) + k] = wbuf[k]
    BY WireFacts
  <2>2. ASSUME NEW k \in Len(socket) + n + 1..Len(Wire)
        PROVE  k - Len(socket) \in n + 1..Len(wbuf) /\ wbuf[k - Len(socket)] = Wire[k]
    BY WireFacts
  <2>3. ASSUME NEW x \in {wbuf[k] : k \in n + 1..Len(wbuf)}
        PROVE  x \in {Wire[k] : k \in Len(socket) + n + 1..Len(Wire)}
    <3>1. PICK k \in n + 1..Len(wbuf) : x = wbuf[k]
        OBVIOUS
    <3> QED BY <2>1, <3>1
  <2>4. ASSUME NEW x \in {Wire[k] : k \in Len(socket) + n + 1..Len(Wire)}
        PROVE  x \in {wbuf[k] : k \in n + 1..Len(wbuf)}
    <3>1. PICK k \in Len(socket) + n + 1..Len(Wire) : x = Wire[k]
        OBVIOUS
    <3> QED BY <2>2, <3>1
  <2> QED BY <2>3, <2>4
<1>8. Len(socket) + n \in 0..Len(Wire)
    BY WireFacts
<1> QED BY <1>1, <1>2, <1>4, <1>5, <1>6, <1>7, <1>8

\* What has left memory: everything on the wire, once the BufWriter is empty.
LEMMA OutFacts ==
    ASSUME TypeOK, NEW i
    PROVE  /\ i \in Out => Taken(i) /\ i \in Lines
           /\ wbuf = <<>> => (Taken(i) <=> i \in Out)
<1>1. i \in ToSet(socket) <=> \E k \in 1..Len(socket) : socket[k] = i
    BY DEF ToSet, TypeOK
<1>2. i \in ToSet(socket) => OnWire(i) /\ i \in Lines
  <2>1. ASSUME NEW k \in 1..Len(socket), socket[k] = i
        PROVE  k \in 1..Len(Wire) /\ Wire[k] = i /\ i \in Lines
    BY <2>1, WireFacts DEF TypeOK
  <2> QED BY <1>1, <2>1 DEF OnWire
<1>3. wbuf = <<>> => (OnWire(i) => i \in ToSet(socket))
    BY <1>1, WireFacts DEF OnWire
<1>4. i \in lost => i \in Lines
    BY DEF TypeOK
<1> QED BY <1>2, <1>3, <1>4 DEF Out, Taken

-----------------------------------------------------------------------------
LEMMA InitInv == Init => IInv
<1> SUFFICES ASSUME Init PROVE IInv
    OBVIOUS
<1>1. TypeOK
  <2>1. app \in [Threads -> {"idle", "line", "flush", "waiting"}] /\ mark \in [Threads -> 0..MaxLines]
    BY BoundsAssumption DEF Init
  <2>2. chan \in Seq(Message) /\ Len(chan) <= Cap
    BY ChannelAssumption DEF Init
  <2>3. wbuf \in Seq(Lines) /\ socket \in Seq(Lines) /\ lost \subseteq Lines
    BY DEF Init
  <2>4. up \in BOOLEAN /\ reading \in BOOLEAN
    BY Zenon DEF Init
  <2>5. /\ sent \in 0..MaxLines /\ closed \in BOOLEAN /\ pc = "recv"
        /\ cur \in 0..MaxLines /\ acking \in Threads \cup {0}
        /\ batch \in BOOLEAN /\ needFlush \in BOOLEAN /\ tries \in 0..MaxTries
    <3>1. /\ sent = 0 /\ closed = FALSE /\ pc = "recv" /\ cur = 0 /\ acking = 0
          /\ batch = FALSE /\ needFlush = FALSE /\ tries = 0
        BY DEF Init
    <3>2. 0 \in 0..MaxLines /\ 0 \in 0..MaxTries
        BY BoundsAssumption
    <3> QED BY <3>1, <3>2
  <2> QED BY <2>1, <2>2, <2>3, <2>4, <2>5 DEF TypeOK
<1>2. chan = <<>> /\ Wire = <<>> /\ cur = 0 /\ acking = 0 /\ sent = 0 /\ lost = {} /\ pc = "recv"
    BY DEF Init, Wire
<1>3. \A i : ~Taken(i) /\ ~Handed(i)
    BY <1>2 DEF Taken, Handed, OnWire
<1>4. Received
  <2>1. ReceivedUpTo(0)
    BY <1>2, <1>3 DEF ReceivedUpTo, Lines
  <2> QED BY <2>1, <1>2 DEF Received
<1>5. LeftInOrder
  <2>1. OutUpTo(0)
    BY <1>1, <1>3, OutFacts DEF OutUpTo, Lines
  <2> QED BY <2>1, BoundsAssumption DEF LeftInOrder
<1>6. WireInOrder /\ HandAndBuffer /\ RequestsQueued /\ RequestInHand
    BY <1>2, <1>3 DEF Init, WireInOrder, HandAndBuffer, RequestsQueued, RequestInHand, Writing
<1> QED BY <1>1, <1>4, <1>5, <1>6 DEF IInv

\* Types: the channel never exceeds its capacity, and the line in hand is one
\* that was sent.
LEMMA TypeStep == IInv /\ [Next]_vars => TypeOK'
<1> SUFFICES ASSUME IInv, [Next]_vars PROVE TypeOK'
    OBVIOUS
<1>0. TypeOK /\ HandAndBuffer /\ RequestsQueued /\ RequestInHand
    BY DEF IInv
<1> USE DEF requests, control, wire, vars
<1>1. CASE DropSink
    BY <1>0, <1>1 DEF DropSink, TypeOK
<1>2. ASSUME NEW t \in Threads, CallLog(t) \/ CallFlush(t)
      PROVE  TypeOK'
    BY <1>0, <1>2 DEF CallLog, CallFlush, TypeOK
<1>3. ASSUME NEW t \in Threads, SendLine(t)
      PROVE  TypeOK'
  <2>1. CASE sent < MaxLines
    <3>1. LineMsg(sent + 1) \in Message /\ chan' = Append(chan, LineMsg(sent + 1)) /\ Len(chan) < Cap
        BY <1>0, <1>3, <2>1, MessageTypes, BoundsAssumption DEF SendLine, TypeOK
    <3>2. chan' \in Seq(Message) /\ Len(chan') <= Cap
        BY <1>0, <3>1, AppendFacts, ChannelAssumption DEF TypeOK
    <3> QED BY <1>0, <1>3, <2>1, <3>2, BoundsAssumption DEF SendLine, TypeOK
  <2>2. CASE ~(sent < MaxLines)
    BY <1>0, <1>3, <2>2 DEF SendLine, TypeOK
  <2> QED BY <2>1, <2>2
<1>4. ASSUME NEW t \in Threads, SendFlush(t)
      PROVE  TypeOK'
  <2>1. FlushMsg(t) \in Message /\ chan' = Append(chan, FlushMsg(t)) /\ Len(chan) < Cap
    BY <1>4, MessageTypes DEF SendFlush
  <2>2. chan' \in Seq(Message) /\ Len(chan') <= Cap
    BY <1>0, <2>1, AppendFacts, ChannelAssumption DEF TypeOK
  <2> QED BY <1>0, <1>4, <2>2 DEF SendFlush, TypeOK
<1>5. CASE TakeLine
  <2>0. chan \in Seq(Message) /\ Len(chan) <= Cap
    BY <1>0 DEF TypeOK
  <2>a. Take("line")
    BY <1>5 DEF TakeLine
  <2>1. /\ chan' \in Seq(Message) /\ Len(chan') <= Cap
        /\ Head(chan).id \in 0..MaxLines
    <3>1. Head(chan) \in Message
      BY <2>0, <2>a, TakeFacts
    <3>2. chan' \in Seq(Message) /\ Len(chan') <= Cap
      BY <2>0, <2>a, TakeFacts, ChannelAssumption
    <3> QED BY <3>1, <3>2 DEF Message
  <2> QED BY <1>0, <1>5, <2>1, BoundsAssumption DEF TakeLine, TypeOK
<1>6. CASE TakeFlush
  <2>0. chan \in Seq(Message) /\ Len(chan) <= Cap
    BY <1>0 DEF TypeOK
  <2>a. Take("flush")
    BY <1>6 DEF TakeFlush
  <2>1. /\ chan' \in Seq(Message) /\ Len(chan') <= Cap
        /\ Head(chan).by \in Threads \cup {0}
    <3>1. Head(chan) \in Message
      BY <2>0, <2>a, TakeFacts
    <3>2. chan' \in Seq(Message) /\ Len(chan') <= Cap
      BY <2>0, <2>a, TakeFacts, ChannelAssumption
    <3> QED BY <3>1, <3>2 DEF Message
  <2> QED BY <1>0, <1>6, <2>1 DEF TakeFlush, TypeOK
<1>7. CASE BatchDone \/ Disconnected \/ NotConnected \/ Connect \/ ConnectFail \/ Stall \/ Resume
    BY <1>0, <1>7 DEF BatchDone, Disconnected, NotConnected, Connect, ConnectFail, Stall, Resume,
                      TypeOK
<1>8. CASE TryAgain
    BY <1>0, <1>8, BoundsAssumption DEF TryAgain, TypeOK
<1>9. CASE Write
  <2>1. cur \in Lines
    BY <1>0, <1>9 DEF Write, HandAndBuffer, Writing, TypeOK, Lines
  <2>2. wbuf' \in Seq(Lines) /\ socket' \in Seq(Lines)
    BY <1>0, <1>9, <2>1, AcceptFacts DEF Write
  <2> QED BY <1>0, <1>9, <2>2, BoundsAssumption DEF Write, TypeOK
<1>10. CASE WriteFail
  <2>1. /\ wbuf' \in Seq(Lines) /\ socket' \in Seq(Lines) /\ lost' \subseteq Lines /\ up' = FALSE
        /\ reading' = reading
    <3>1. DropWriter
        BY <1>10 DEF WriteFail
    <3>2. up' = FALSE /\ reading' = reading
        BY <3>1 DEF DropWriter
    <3> QED BY <1>0, <3>1, <3>2, DropFacts
  <2> QED BY <1>0, <1>10, <2>1 DEF WriteFail, TypeOK
<1>11. CASE GiveUp
    BY <1>0, <1>11, BoundsAssumption DEF GiveUp, TypeOK, HandAndBuffer, Writing, Lines
<1>12. CASE Flush
    BY <1>0, <1>12 DEF Flush, Return, TypeOK
<1>13. CASE FlushFail
  <2>1. /\ wbuf' \in Seq(Lines) /\ socket' \in Seq(Lines) /\ lost' \subseteq Lines /\ up' = FALSE
        /\ reading' = reading
    <3>1. DropWriter
        BY <1>13 DEF FlushFail
    <3>2. up' = FALSE /\ reading' = reading
        BY <3>1 DEF DropWriter
    <3> QED BY <1>0, <3>1, <3>2, DropFacts
  <2> QED BY <1>0, <1>13, <2>1 DEF FlushFail, Return, TypeOK
<1>14. CASE FlushNoWriter
    BY <1>0, <1>14 DEF FlushNoWriter, Return, TypeOK
<1>15. CASE Ack
    BY <1>0, <1>15 DEF Ack, TypeOK
<1>16. CASE UNCHANGED vars
    BY <1>0, <1>16 DEF TypeOK
<1> QED
    BY <1>1, <1>2, <1>3, <1>4, <1>5, <1>6, <1>7, <1>8, <1>9, <1>10, <1>11, <1>12, <1>13, <1>14,
       <1>15, <1>16 DEF Next, AppStep, BackendStep, ServerStep

-----------------------------------------------------------------------------
\* What the parts of the invariant need to know of a step.

\* The lines received are the same as long as the backend only moves them.
LEMMA ReceivedKept ==
    ASSUME Received, chan' = chan, sent' = sent, cur' \in {0, cur},
           \A i \in Lines : Handed(i)' <=> Handed(i)
    PROVE  Received'
<1>1. PICK r \in 0..sent : ReceivedUpTo(r)
    BY DEF Received
<1>2. ReceivedUpTo(r)'
    BY <1>1 DEF ReceivedUpTo, InChan
<1> QED BY <1>1, <1>2 DEF Received

LEMMA SameWire ==
    ASSUME Wire' = Wire, lost' = lost
    PROVE  \A i : (Taken(i)' <=> Taken(i)) /\ (OnWire(i)' <=> OnWire(i))
BY DEF Taken, OnWire

\* Nothing is taken but what has left the channel.
LEMMA TakenFirst ==
    ASSUME TypeOK, Received, WireInOrder
    PROVE  \E m \in 0..sent : \A i \in Lines : Taken(i) <=> i <= m
<1>1. PICK r \in 0..sent : ReceivedUpTo(r)
    BY DEF Received
<1>2. CASE cur = 0
    BY <1>1, <1>2 DEF ReceivedUpTo, Handed
<1>3. CASE cur # 0
  <2>1. cur = r /\ cur \in Lines /\ r - 1 \in 0..sent
    BY <1>1, <1>3 DEF ReceivedUpTo, TypeOK, Lines
  <2>2. \A i \in Lines : Taken(i) <=> i <= r - 1
    BY <1>1, <1>3, <2>1 DEF ReceivedUpTo, Handed, WireInOrder, Lines
  <2> QED BY <2>1, <2>2
<1> QED BY <1>2, <1>3

\* With an empty BufWriter, what has left memory is what was taken.
LEMMA LeftWhenEmpty ==
    ASSUME TypeOK', Received', WireInOrder', wbuf' = <<>>
    PROVE  LeftInOrder'
<1>1. PICK r \in 0..sent' : ReceivedUpTo(r)'
    BY DEF Received
<1>2. PICK m \in 0..MaxLines : \A i \in Lines : Taken(i)' <=> i <= m
  <2>1. CASE cur' = 0
    BY <1>1, <2>1, BoundsAssumption DEF ReceivedUpTo, Handed, TypeOK
  <2>2. CASE cur' # 0
    <3>1. cur' = r /\ cur' \in Lines /\ r - 1 \in 0..MaxLines
        BY <1>1, <2>2, BoundsAssumption DEF ReceivedUpTo, TypeOK, Lines
    <3>2. \A i \in Lines : Taken(i)' <=> i <= r - 1
        BY <1>1, <2>2, <3>1 DEF ReceivedUpTo, Handed, WireInOrder, Lines
    <3> QED BY <3>1, <3>2
  <2> QED BY <2>1, <2>2
<1>3. Wire' = socket'
    BY DEF Wire, TypeOK
<1>4. \A i : OnWire(i)' <=> i \in ToSet(socket')
    BY <1>3 DEF OnWire, ToSet, TypeOK
<1>5. \A i : Taken(i)' <=> i \in Out'
    BY <1>4 DEF Taken, Out
<1> QED BY <1>2, <1>5 DEF LeftInOrder, OutUpTo

\* The line in hand goes to the end of the wire.
LEMMA AcceptWire ==
    ASSUME TypeOK, Received, WireInOrder, cur \in Lines, Accept, cur' = 0, lost' = lost
    PROVE  WireInOrder' /\ \A i : Taken(i)' <=> Taken(i) \/ i = cur
<1>1. Wire' = Append(Wire, cur) /\ Wire \in Seq(Lines)
    BY AcceptFacts, WireFacts
<1> DEFINE N == Len(Wire)
<1>2. /\ N \in Nat /\ Len(Wire') = N + 1
      /\ \A k \in 1..N : Wire'[k] = Wire[k] /\ Wire[k] \in Lines
      /\ Wire'[N + 1] = cur
    BY <1>1
<1>3. \A i : OnWire(i)' <=> OnWire(i) \/ i = cur
    BY <1>2 DEF OnWire
<1>4. \A k \in 1..N : Wire[k] < cur
  <2>1. PICK r \in 0..sent : ReceivedUpTo(r)
    BY DEF Received
  <2>2. cur # 0 /\ cur = r
    BY <2>1 DEF ReceivedUpTo, Lines
  <2> SUFFICES ASSUME NEW k \in 1..N PROVE Wire[k] < cur
    OBVIOUS
  <2>3. Taken(Wire[k]) /\ Wire[k] \in Lines
    BY <1>2 DEF Taken, OnWire
  <2>4. Wire[k] <= r /\ Wire[k] # cur
    BY <2>1, <2>2, <2>3 DEF ReceivedUpTo, Handed, WireInOrder
  <2> QED BY <2>1, <2>2, <2>3, <2>4 DEF Lines
<1>5. \A j, k \in 1..N + 1 : j < k => Wire'[j] < Wire'[k]
  <2> SUFFICES ASSUME NEW j \in 1..N + 1, NEW k \in 1..N + 1, j < k PROVE Wire'[j] < Wire'[k]
    OBVIOUS
  <2>1. CASE k = N + 1
    BY <1>2, <1>4, <2>1
  <2>2. CASE k # N + 1
    BY <1>2, <2>2 DEF WireInOrder
  <2> QED BY <2>1, <2>2
<1>6. \A i \in lost' : ~OnWire(i)'
    BY <1>3 DEF WireInOrder, Taken, Lines
<1>7. WireInOrder'
    BY <1>2, <1>5, <1>6 DEF WireInOrder
<1> QED BY <1>3, <1>7 DEF Taken

\* What is cut off the wire is lost, and nothing else.
LEMMA DropWire ==
    ASSUME TypeOK, WireInOrder, DropWriter, cur' = cur
    PROVE  WireInOrder' /\ \A i : Taken(i)' <=> Taken(i)
<1>1. PICK n \in 0..Len(Wire) :
            /\ Len(Wire') = n
            /\ \A k \in 1..n : Wire'[k] = Wire[k]
            /\ lost' = lost \cup {Wire[k] : k \in n + 1..Len(Wire)}
    BY DropFacts
<1> DEFINE N == Len(Wire)
<1>2. N \in Nat /\ n \in Nat /\ n <= N
    BY WireFacts
<1>3. \A i : i \in lost' <=> i \in lost \/ \E k \in n + 1..N : Wire[k] = i
    BY <1>1
<1>4. \A i : OnWire(i)' <=> \E k \in 1..n : Wire[k] = i
    BY <1>1 DEF OnWire
<1>5. \A i : OnWire(i) <=> \/ \E k \in 1..n : Wire[k] = i
                           \/ \E k \in n + 1..N : Wire[k] = i
    BY <1>2 DEF OnWire
<1>6. \A i : Taken(i)' <=> Taken(i)
    BY <1>3, <1>4, <1>5 DEF Taken
<1>7. \A j, k \in 1..n : j < k => Wire'[j] < Wire'[k]
    BY <1>1, <1>2 DEF WireInOrder
<1>8. ASSUME NEW i \in lost', OnWire(i)'
      PROVE  FALSE
  <2>1. PICK j \in 1..n : Wire[j] = i
    BY <1>4, <1>8
  <2>2. i \notin lost
    BY <1>2, <2>1 DEF WireInOrder, OnWire
  <2>3. PICK k \in n + 1..N : Wire[k] = i
    BY <1>3, <2>2
  <2>4. j \in 1..N /\ k \in 1..N /\ j < k /\ Wire[j] \in Lines
    BY <1>2, <2>1, <2>3, WireFacts
  <2> QED BY <2>1, <2>3, <2>4 DEF WireInOrder, Lines
<1>9. WireInOrder'
    BY <1>1, <1>6, <1>7, <1>8 DEF WireInOrder
<1> QED BY <1>6, <1>9

-----------------------------------------------------------------------------
\* The invariant is kept: one lemma for each group of actions.

Rest == Received /\ LeftInOrder /\ WireInOrder /\ HandAndBuffer /\ RequestsQueued /\ RequestInHand

\* Steps that leave the channel and the backend alone, and wake no thread.
LEMMA QuietStep ==
    ASSUME IInv, UNCHANGED <<mark, sent, chan, pc, cur, acking, up, wbuf, socket, lost>>,
           \A t \in Threads : app[t] = "waiting" => app'[t] = "waiting"
    PROVE  Rest'
<1> USE DEF IInv
<1>1. Wire' = Wire /\ Out' = Out
    BY DEF Wire, Out
<1>2. Received'
  <2>1. \A i : Handed(i)' <=> Handed(i)
    BY <1>1, SameWire DEF Handed
  <2> QED BY <2>1, ReceivedKept
<1>3. LeftInOrder' /\ WireInOrder' /\ HandAndBuffer'
    BY <1>1, SameWire DEF LeftInOrder, OutUpTo, WireInOrder, HandAndBuffer
<1>4. RequestsQueued'
    BY ChanElements DEF RequestsQueued, TypeOK
<1>5. RequestInHand'
    BY DEF RequestInHand, TypeOK
<1> QED BY <1>2, <1>3, <1>4, <1>5 DEF Rest

\* A line sent goes behind every request, and is the newest of the channel.
LEMMA SendLineStep ==
    ASSUME IInv, NEW t \in Threads, SendLine(t), sent < MaxLines
    PROVE  Rest'
<1> USE DEF IInv, requests, control, wire
<1>1. /\ UNCHANGED <<mark, pc, cur, acking, up, wbuf, socket, lost>>
      /\ chan' = Append(chan, LineMsg(sent + 1)) /\ sent' = sent + 1
      /\ \A u \in Threads : app[u] = "waiting" => app'[u] = "waiting"
    BY DEF SendLine, TypeOK
<1>2. Wire' = Wire /\ Out' = Out
    BY <1>1 DEF Wire, Out
<1>3. /\ LineMsg(sent + 1) \in Message /\ LineMsg(sent + 1).kind = "line"
      /\ LineMsg(sent + 1).id = sent + 1 /\ sent + 1 \in Lines
    BY MessageTypes, BoundsAssumption DEF TypeOK, LineMsg, Lines
<1> DEFINE N == Len(chan)
<1>4. /\ N \in Nat /\ Len(chan') = N + 1
      /\ \A k \in 1..N : chan'[k] = chan[k]
      /\ chan'[N + 1].kind = "line" /\ chan'[N + 1].id = sent + 1
    BY <1>1, <1>3, AppendFacts DEF TypeOK
<1>5. \A k \in 1..N : chan[k].id \in Int /\ chan[k].by \in Threads \cup {0}
    BY ChanElements, BoundsAssumption DEF TypeOK
<1> HIDE DEF N
<1>6. Received'
  <2>1. PICK r \in 0..sent : ReceivedUpTo(r)
    BY DEF Received
  <2>2. r \in Nat /\ sent \in Nat /\ r <= sent
    BY <2>1, BoundsAssumption DEF TypeOK
  <2>3. \A i \in Lines : Handed(i)' <=> i <= r
    BY <1>1, <1>2, <2>1, SameWire DEF Handed, ReceivedUpTo
  <2>4. cur' # 0 => cur' = r
    BY <1>1, <2>1 DEF ReceivedUpTo
  <2>5. \A k \in 1..N + 1 : chan'[k].kind = "line" => r < chan'[k].id /\ chan'[k].id <= sent + 1
    BY <1>4, <1>5, <2>1, <2>2 DEF ReceivedUpTo, N
  <2>6. ASSUME NEW k \in 1..N + 1, NEW l \in 1..N + 1,
               chan'[k].kind = "line", chan'[l].kind = "line", k < l
        PROVE  chan'[k].id < chan'[l].id
    <3>1. k \in 1..N /\ chan'[k] = chan[k]
      BY <1>4, <2>6
    <3>2. CASE l \in 1..N
      BY <1>4, <2>1, <2>6, <3>1, <3>2 DEF ReceivedUpTo, N
    <3>3. CASE l = N + 1
      <4>1. chan[k].id <= sent
        BY <2>1, <2>6, <3>1 DEF ReceivedUpTo, N
      <4> QED BY <1>4, <1>5, <2>2, <3>1, <3>3, <4>1
    <3> QED BY <1>4, <3>2, <3>3
  <2>7. \A i \in Lines : r < i /\ i <= sent + 1 => InChan(i)'
    <3> SUFFICES ASSUME NEW i \in Lines, r < i, i <= sent + 1 PROVE InChan(i)'
        OBVIOUS
    <3>1. CASE i = sent + 1
        BY <1>4, <3>1 DEF InChan
    <3>2. CASE i # sent + 1
        <4>1. InChan(i)
            BY <2>1, <2>2, <3>2 DEF ReceivedUpTo, Lines
        <4> QED BY <1>4, <4>1 DEF InChan, N
    <3> QED BY <3>1, <3>2
  <2>8. ReceivedUpTo(r)' /\ r \in 0..sent'
    BY <1>1, <1>4, <2>2, <2>3, <2>4, <2>5, <2>6, <2>7 DEF ReceivedUpTo
  <2> QED BY <2>8 DEF Received
<1>7. LeftInOrder'
    BY <1>2 DEF LeftInOrder, OutUpTo
<1>8. WireInOrder'
    BY <1>1, <1>2, SameWire DEF WireInOrder
<1>9. HandAndBuffer'
    BY <1>1 DEF HandAndBuffer
<1>10. RequestsQueued'
  <2> SUFFICES ASSUME NEW k \in 1..N + 1
               PROVE  /\ chan'[k].kind = "line" => chan'[k].id # 0
                      /\ chan'[k].kind = "flush" =>
                            /\ chan'[k].id = 0
                            /\ chan'[k].by # 0
                            /\ app'[chan'[k].by] = "waiting" /\ mark[chan'[k].by] <= sent + 1
                            /\ \A l \in 1..N + 1 : chan'[l].kind = "line" =>
                                    (l < k <=> chan'[l].id <= mark[chan'[k].by])
                            /\ \A l \in 1..N + 1 :
                                    chan'[l].kind = "flush" /\ chan'[l].by = chan'[k].by => l = k
    BY <1>1, <1>4 DEF RequestsQueued
  <2>1. sent \in Nat
    BY BoundsAssumption DEF TypeOK
  <2>2. CASE k = N + 1
    BY <1>4, <2>1, <2>2
  <2>3. CASE k \in 1..N /\ chan[k].kind = "line"
    BY <1>4, <2>3 DEF RequestsQueued, N
  <2>4. CASE k \in 1..N /\ chan[k].kind = "flush"
    <3>1. /\ chan[k].id = 0 /\ chan[k].by \in Threads /\ chan[k].by # 0
          /\ app[chan[k].by] = "waiting" /\ mark[chan[k].by] <= sent
          /\ \A l \in 1..N : chan[l].kind = "line" => (l < k <=> chan[l].id <= mark[chan[k].by])
          /\ \A l \in 1..N : chan[l].kind = "flush" /\ chan[l].by = chan[k].by => l = k
        BY <1>5, <2>4 DEF RequestsQueued, N
    <3>2. mark[chan[k].by] \in Nat
        BY <3>1, BoundsAssumption DEF TypeOK
    <3> QED BY <1>1, <1>4, <2>1, <2>4, <3>1, <3>2
  <2>5. k \in 1..N => chan[k].kind \in {"line", "flush"}
    BY ChanElements DEF TypeOK, N
  <2> QED BY <1>4, <2>2, <2>3, <2>4, <2>5
<1>11. RequestInHand'
  <2>1. acking # 0 => acking \in Threads /\ mark[acking] \in Nat /\ mark[acking] <= sent
    BY BoundsAssumption DEF RequestInHand, TypeOK
  <2>2. sent \in Nat
    BY BoundsAssumption DEF TypeOK
  <2> QED BY <1>1, <1>4, <2>1, <2>2 DEF RequestInHand, N
<1> QED BY <1>6, <1>7, <1>8, <1>9, <1>10, <1>11 DEF Rest

\* A request goes behind every line sent before it, which are all the lines
\* there are.
LEMMA SendFlushStep ==
    ASSUME IInv, NEW t \in Threads, SendFlush(t)
    PROVE  Rest'
<1> USE DEF IInv, requests, control, wire
<1>1. /\ UNCHANGED <<sent, pc, cur, acking, up, wbuf, socket, lost>>
      /\ chan' = Append(chan, FlushMsg(t))
      /\ app[t] = "flush" /\ app'[t] = "waiting" /\ mark'[t] = sent
      /\ \A u \in Threads \ {t} : app'[u] = app[u] /\ mark'[u] = mark[u]
    BY DEF SendFlush, TypeOK
<1>2. Wire' = Wire /\ Out' = Out
    BY <1>1 DEF Wire, Out
<1>3. /\ FlushMsg(t) \in Message /\ FlushMsg(t).kind = "flush"
      /\ FlushMsg(t).id = 0 /\ FlushMsg(t).by = t /\ t # 0
    BY MessageTypes, ThreadsAssumption DEF FlushMsg
<1> DEFINE N == Len(chan)
<1>4. /\ N \in Nat /\ Len(chan') = N + 1
      /\ \A k \in 1..N : chan'[k] = chan[k]
      /\ chan'[N + 1].kind = "flush" /\ chan'[N + 1].id = 0 /\ chan'[N + 1].by = t
    BY <1>1, <1>3, AppendFacts DEF TypeOK
<1>5. \A k \in 1..N : chan[k].id \in Int /\ chan[k].by \in Threads \cup {0}
    BY ChanElements, BoundsAssumption DEF TypeOK
<1>6. sent \in Nat
    BY BoundsAssumption DEF TypeOK
<1> HIDE DEF N
<1>7. PICK r \in 0..sent : ReceivedUpTo(r)
    BY DEF Received
<1>8. Received'
  <2>1. \A i \in Lines : Handed(i)' <=> i <= r
    BY <1>1, <1>2, <1>7, SameWire DEF Handed, ReceivedUpTo
  <2>2. cur' # 0 => cur' = r
    BY <1>1, <1>7 DEF ReceivedUpTo
  <2>3. \A k \in 1..N + 1 : chan'[k].kind = "line" => k \in 1..N
    BY <1>4
  <2>4. \A i \in Lines : InChan(i) => InChan(i)'
    BY <1>4 DEF InChan, N
  <2>5. ReceivedUpTo(r)'
    BY <1>1, <1>4, <1>7, <2>1, <2>2, <2>3, <2>4 DEF ReceivedUpTo, N
  <2> QED BY <1>1, <1>7, <2>5 DEF Received
<1>9. LeftInOrder' /\ WireInOrder' /\ HandAndBuffer'
    BY <1>1, <1>2, SameWire DEF LeftInOrder, OutUpTo, WireInOrder, HandAndBuffer
<1>10. RequestsQueued'
  <2> SUFFICES ASSUME NEW k \in 1..N + 1
               PROVE  /\ chan'[k].kind = "line" => chan'[k].id # 0
                      /\ chan'[k].kind = "flush" =>
                            /\ chan'[k].id = 0
                            /\ chan'[k].by # 0
                            /\ app'[chan'[k].by] = "waiting" /\ mark'[chan'[k].by] <= sent
                            /\ \A l \in 1..N + 1 : chan'[l].kind = "line" =>
                                    (l < k <=> chan'[l].id <= mark'[chan'[k].by])
                            /\ \A l \in 1..N + 1 :
                                    chan'[l].kind = "flush" /\ chan'[l].by = chan'[k].by => l = k
    BY <1>1, <1>4 DEF RequestsQueued
  <2>1. \A l \in 1..N : chan[l].kind = "flush" => chan[l].by \in Threads \ {t}
    BY <1>1, <1>5 DEF RequestsQueued, N
  <2>2. CASE k = N + 1
    <3>1. \A l \in 1..N : chan[l].kind = "line" => chan[l].id <= sent
        BY <1>7 DEF ReceivedUpTo, N
    <3> QED BY <1>1, <1>3, <1>4, <1>6, <2>1, <2>2, <3>1
  <2>3. CASE k \in 1..N /\ chan[k].kind = "line"
    BY <1>4, <2>3 DEF RequestsQueued, N
  <2>4. CASE k \in 1..N /\ chan[k].kind = "flush"
    <3>1. /\ chan[k].id = 0 /\ chan[k].by \in Threads \ {t} /\ chan[k].by # 0
          /\ app[chan[k].by] = "waiting" /\ mark[chan[k].by] <= sent
          /\ \A l \in 1..N : chan[l].kind = "line" => (l < k <=> chan[l].id <= mark[chan[k].by])
          /\ \A l \in 1..N : chan[l].kind = "flush" /\ chan[l].by = chan[k].by => l = k
        BY <2>1, <2>4 DEF RequestsQueued, N
    <3>2. chan'[k] = chan[k] /\ k < N + 1
        BY <1>4, <2>4
    <3>3. app'[chan[k].by] = "waiting" /\ mark'[chan[k].by] = mark[chan[k].by]
        BY <1>1, <3>1
    <3>4. \A l \in 1..N + 1 : chan'[l].kind = "line" => l \in 1..N /\ chan'[l] = chan[l]
        BY <1>4
    <3>5. \A l \in 1..N + 1 : chan'[l].kind = "flush" /\ chan'[l].by # t
                                    => l \in 1..N /\ chan'[l] = chan[l]
        BY <1>4
    <3> QED BY <2>4, <3>1, <3>2, <3>3, <3>4, <3>5
  <2>5. k \in 1..N => chan[k].kind \in {"line", "flush"}
    BY ChanElements DEF TypeOK, N
  <2> QED BY <1>4, <2>2, <2>3, <2>4, <2>5
<1>11. RequestInHand'
  <2>1. acking # 0 => acking \in Threads \ {t}
    BY <1>1 DEF RequestInHand, TypeOK
  <2> QED BY <1>1, <1>4, <2>1 DEF RequestInHand, N
<1> QED BY <1>8, <1>9, <1>10, <1>11 DEF Rest

\* A line received becomes the line in hand; it is the next one.
LEMMA TakeLineStep ==
    ASSUME IInv, TakeLine
    PROVE  Rest'
<1> USE DEF IInv, requests, control, wire
<1>1. /\ UNCHANGED <<app, mark, sent, acking, up, wbuf, socket, lost>>
      /\ Take("line") /\ cur' = Head(chan).id /\ pc' = "write" /\ pc = "recv"
    BY DEF TakeLine, Take
<1>2. Wire' = Wire /\ Out' = Out
    BY <1>1 DEF Wire, Out
<1> DEFINE N == Len(chan)
<1>3. /\ N \in Nat \ {0} /\ Len(chan') = N - 1
      /\ \A k \in 1..N - 1 : chan'[k] = chan[k + 1]
      /\ chan[1].kind = "line" /\ cur' = chan[1].id
    BY <1>1, TakeFacts DEF TypeOK
<1>4. \A k \in 1..N : chan[k].id \in Int /\ chan[k].kind \in {"line", "flush"}
    BY ChanElements, BoundsAssumption DEF TypeOK
<1>5. sent \in Nat /\ cur = 0 /\ acking = 0
    BY <1>1, BoundsAssumption DEF TypeOK, HandAndBuffer, RequestInHand, Writing
<1> HIDE DEF N
<1>6. PICK r \in 0..sent : ReceivedUpTo(r)
    BY DEF Received
<1>7. r < chan[1].id /\ chan[1].id <= sent
    BY <1>3, <1>6 DEF ReceivedUpTo, N
<1>8. r \in Nat /\ r + 1 \in Lines /\ r + 1 <= sent
  <2>1. chan[1].id \in Int /\ r \in Nat /\ sent <= MaxLines /\ MaxLines \in Nat
    BY <1>3, <1>4, <1>5, <1>6, BoundsAssumption DEF TypeOK
  <2> QED BY <1>5, <1>7, <2>1 DEF Lines
<1>9. chan[1].id = r + 1
  <2>1. InChan(r + 1)
    BY <1>6, <1>8 DEF ReceivedUpTo
  <2>2. PICK k \in 1..N : chan[k].kind = "line" /\ chan[k].id = r + 1
    BY <2>1 DEF InChan, N
  <2>3. k = 1 \/ chan[1].id < chan[k].id
    BY <1>3, <1>6, <2>2 DEF ReceivedUpTo, N
  <2> QED BY <1>3, <1>4, <1>7, <1>8, <2>2, <2>3
<1>10. Received'
  <2>1. \A i \in Lines : Handed(i)' <=> i <= r + 1
    <3>1. \A i \in Lines : Taken(i) <=> i <= r
        BY <1>5, <1>6 DEF Handed, ReceivedUpTo
    <3>2. \A i : Taken(i)' <=> Taken(i)
        BY <1>1, <1>2, SameWire
    <3>3. cur' = r + 1 /\ r + 1 # 0
        BY <1>3, <1>8, <1>9
    <3>4. \A i \in Lines : i <= r + 1 <=> i <= r \/ i = r + 1
        BY <1>8 DEF Lines
    <3> QED BY <3>1, <3>2, <3>3, <3>4 DEF Handed
  <2>2. \A k \in 1..N - 1 : chan'[k].kind = "line" => r + 1 < chan'[k].id /\ chan'[k].id <= sent
    BY <1>3, <1>6, <1>9 DEF ReceivedUpTo, N
  <2>3. \A k, l \in 1..N - 1 : chan'[k].kind = "line" /\ chan'[l].kind = "line" /\ k < l
                                    => chan'[k].id < chan'[l].id
    BY <1>3, <1>6 DEF ReceivedUpTo, N
  <2>4. ASSUME NEW i \in Lines, r + 1 < i, i <= sent
        PROVE  InChan(i)'
    <3>1. PICK k \in 1..N : chan[k].kind = "line" /\ chan[k].id = i
        BY <1>6, <1>8, <2>4 DEF ReceivedUpTo, InChan, N, Lines
    <3>2. k # 1
        BY <1>8, <1>9, <2>4, <3>1
    <3>3. k - 1 \in 1..N - 1 /\ chan'[k - 1] = chan[k]
        BY <1>3, <3>1, <3>2
    <3> QED BY <1>3, <3>1, <3>3 DEF InChan
  <2>5. ReceivedUpTo(r + 1)' /\ r + 1 \in 0..sent'
    BY <1>1, <1>3, <1>5, <1>8, <1>9, <2>1, <2>2, <2>3, <2>4 DEF ReceivedUpTo
  <2> QED BY <2>5 DEF Received
<1>11. LeftInOrder'
    BY <1>2 DEF LeftInOrder, OutUpTo
<1>12. WireInOrder'
  <2>1. ~Taken(r + 1)
    BY <1>6, <1>8 DEF ReceivedUpTo, Handed
  <2> QED BY <1>1, <1>2, <1>3, <1>9, <2>1, SameWire DEF WireInOrder
<1>13. HandAndBuffer'
    BY <1>1, <1>3, <1>8, <1>9 DEF HandAndBuffer, Writing
<1>14. RequestsQueued'
  <2> SUFFICES ASSUME NEW k \in 1..N - 1
               PROVE  /\ chan'[k].kind = "line" => chan'[k].id # 0
                      /\ chan'[k].kind = "flush" =>
                            /\ chan'[k].id = 0
                            /\ chan'[k].by # 0
                            /\ app[chan'[k].by] = "waiting" /\ mark[chan'[k].by] <= sent
                            /\ \A l \in 1..N - 1 : chan'[l].kind = "line" =>
                                    (l < k <=> chan'[l].id <= mark[chan'[k].by])
                            /\ \A l \in 1..N - 1 :
                                    chan'[l].kind = "flush" /\ chan'[l].by = chan'[k].by => l = k
    BY <1>1, <1>3 DEF RequestsQueued
  <2>1. k + 1 \in 1..N /\ chan'[k] = chan[k + 1]
    BY <1>3
  <2>2. \A l \in 1..N - 1 : l + 1 \in 1..N /\ chan'[l] = chan[l + 1] /\ (l + 1 < k + 1 <=> l < k)
                                /\ (l + 1 = k + 1 => l = k)
    BY <1>3
  <2> QED BY <2>1, <2>2 DEF RequestsQueued, N
<1>15. RequestInHand'
    BY <1>1, <1>5 DEF RequestInHand
<1> QED BY <1>10, <1>11, <1>12, <1>13, <1>14, <1>15 DEF Rest

\* A request received: the lines behind it were sent after it.
LEMMA TakeFlushStep ==
    ASSUME IInv, TakeFlush
    PROVE  Rest'
<1> USE DEF IInv, requests, control, wire
<1>1. /\ UNCHANGED <<app, mark, sent, cur, up, wbuf, socket, lost>>
      /\ Take("flush") /\ acking' = Head(chan).by /\ pc' = "flush" /\ pc = "recv"
    BY DEF TakeFlush, Take
<1>2. Wire' = Wire /\ Out' = Out
    BY <1>1 DEF Wire, Out
<1> DEFINE N == Len(chan)
<1>3. /\ N \in Nat \ {0} /\ Len(chan') = N - 1
      /\ \A k \in 1..N - 1 : chan'[k] = chan[k + 1]
      /\ chan[1].kind = "flush" /\ acking' = chan[1].by
    BY <1>1, TakeFacts DEF TypeOK
<1>4. \A k \in 1..N : chan[k].id \in Int /\ chan[k].kind \in {"line", "flush"}
    BY ChanElements, BoundsAssumption DEF TypeOK
<1> HIDE DEF N
<1>5. PICK r \in 0..sent : ReceivedUpTo(r)
    BY DEF Received
<1>6. Received'
  <2>1. \A i \in Lines : Handed(i)' <=> i <= r
    BY <1>2, <1>1, <1>5, SameWire DEF Handed, ReceivedUpTo
  <2>2. \A k \in 1..N - 1 : chan'[k].kind = "line" => r < chan'[k].id /\ chan'[k].id <= sent
    <3> SUFFICES ASSUME NEW k \in 1..N - 1, chan'[k].kind = "line"
                 PROVE  r < chan'[k].id /\ chan'[k].id <= sent
        OBVIOUS
    <3>1. k + 1 \in 1..N /\ chan'[k] = chan[k + 1]
        BY <1>3
    <3> QED BY <1>5, <3>1 DEF ReceivedUpTo, N
  <2>3. ASSUME NEW k \in 1..N - 1, NEW l \in 1..N - 1,
               chan'[k].kind = "line", chan'[l].kind = "line", k < l
        PROVE  chan'[k].id < chan'[l].id
    <3>1. /\ k + 1 \in 1..N /\ l + 1 \in 1..N /\ k + 1 < l + 1
          /\ chan'[k] = chan[k + 1] /\ chan'[l] = chan[l + 1]
      BY <1>3, <2>3
    <3> QED BY <1>5, <2>3, <3>1 DEF ReceivedUpTo, N
  <2>4. ASSUME NEW i \in Lines, r < i, i <= sent
        PROVE  InChan(i)'
    <3>1. PICK k \in 1..N : chan[k].kind = "line" /\ chan[k].id = i
        BY <1>5, <2>4 DEF ReceivedUpTo, InChan, N
    <3>2. k - 1 \in 1..N - 1 /\ chan'[k - 1] = chan[k]
        BY <1>3, <3>1
    <3> QED BY <1>3, <3>1, <3>2 DEF InChan
  <2>5. ReceivedUpTo(r)'
    BY <1>1, <1>3, <1>5, <2>1, <2>2, <2>3, <2>4 DEF ReceivedUpTo
  <2> QED BY <1>1, <1>5, <2>5 DEF Received
<1>7. LeftInOrder' /\ WireInOrder'
    BY <1>1, <1>2, SameWire DEF LeftInOrder, OutUpTo, WireInOrder
<1>8. HandAndBuffer'
    BY <1>1 DEF HandAndBuffer, Writing
<1>9. \A k \in 1..N - 1 : k + 1 \in 1..N /\ chan'[k] = chan[k + 1] /\ 1 < k + 1
    BY <1>3
<1>10. RequestsQueued'
  <2> SUFFICES ASSUME NEW k \in 1..N - 1
               PROVE  /\ chan'[k].kind = "line" => chan'[k].id # 0
                      /\ chan'[k].kind = "flush" =>
                            /\ chan'[k].id = 0
                            /\ chan'[k].by # 0
                            /\ app[chan'[k].by] = "waiting" /\ mark[chan'[k].by] <= sent
                            /\ \A l \in 1..N - 1 : chan'[l].kind = "line" =>
                                    (l < k <=> chan'[l].id <= mark[chan'[k].by])
                            /\ \A l \in 1..N - 1 :
                                    chan'[l].kind = "flush" /\ chan'[l].by = chan'[k].by => l = k
    BY <1>1, <1>3 DEF RequestsQueued
  <2>1. \A l \in 1..N - 1 : (l + 1 < k + 1 <=> l < k) /\ (l + 1 = k + 1 => l = k)
    BY <1>3
  <2> QED BY <1>9, <2>1 DEF RequestsQueued, N
<1>11. RequestInHand'
  <2>1. 1 \in 1..N
    BY <1>3
  <2>2. /\ chan[1].by # 0 /\ app[chan[1].by] = "waiting" /\ mark[chan[1].by] <= sent
        /\ \A l \in 1..N : chan[l].kind = "line" => (l < 1 <=> chan[l].id <= mark[chan[1].by])
        /\ \A l \in 1..N : chan[l].kind = "flush" /\ chan[l].by = chan[1].by => l = 1
    BY <1>3, <2>1 DEF RequestsQueued, N
  <2>3. chan[1].by \in Threads
    BY <2>1, <2>2, ChanElements DEF TypeOK, N
  <2>4. mark[chan[1].by] \in Int
    BY <2>3, BoundsAssumption DEF TypeOK
  <2>5. \A k \in 1..N - 1 : /\ chan'[k].kind = "line" => mark[chan[1].by] < chan'[k].id
                            /\ chan'[k].kind = "flush" => chan'[k].by # chan[1].by
    <3> SUFFICES ASSUME NEW k \in 1..N - 1
                 PROVE  /\ chan[k + 1].kind = "line" => mark[chan[1].by] < chan[k + 1].id
                        /\ chan[k + 1].kind = "flush" => chan[k + 1].by # chan[1].by
        BY <1>9
    <3>1. k + 1 \in 1..N /\ ~(k + 1 < 1) /\ k + 1 # 1
        BY <1>3
    <3>2. chan[k + 1].kind = "line" => ~(chan[k + 1].id <= mark[chan[1].by])
        BY <2>2, <3>1
    <3>3. chan[k + 1].id \in Int
        BY <1>4, <3>1
    <3>4. chan[k + 1].kind = "flush" => chan[k + 1].by # chan[1].by
        BY <2>2, <3>1
    <3> QED BY <2>4, <3>2, <3>3, <3>4
  <2> QED BY <1>1, <1>3, <2>2, <2>5 DEF RequestInHand
<1> QED BY <1>6, <1>7, <1>8, <1>10, <1>11 DEF Rest

\* Steps of the backend that only decide what comes next.
LEMMA ControlStep ==
    ASSUME IInv, BatchDone \/ Disconnected \/ NotConnected \/ Connect \/ ConnectFail \/ TryAgain
    PROVE  Rest'
<1> USE DEF IInv, requests, control, wire
<1>1. UNCHANGED <<app, mark, sent, chan, cur, acking, wbuf, socket, lost>>
    BY DEF BatchDone, Disconnected, NotConnected, Connect, ConnectFail, TryAgain
<1>2. Wire' = Wire /\ Out' = Out
    BY <1>1 DEF Wire, Out
<1>3. Received'
  <2>1. \A i : Handed(i)' <=> Handed(i)
    BY <1>1, <1>2, SameWire DEF Handed
  <2> QED BY <1>1, <2>1, ReceivedKept
<1>4. LeftInOrder' /\ WireInOrder' /\ RequestsQueued'
    BY <1>1, <1>2, SameWire DEF LeftInOrder, OutUpTo, WireInOrder, RequestsQueued
<1>5. HandAndBuffer'
    BY <1>1 DEF HandAndBuffer, Writing, BatchDone, Disconnected, NotConnected, Connect,
                ConnectFail, TryAgain
<1>6. RequestInHand'
  <2>1. acking = 0 /\ pc' # "ack"
    BY DEF RequestInHand, BatchDone, Disconnected, NotConnected, Connect, ConnectFail, TryAgain
  <2> QED BY <1>1, <2>1 DEF RequestInHand
<1> QED BY <1>3, <1>4, <1>5, <1>6 DEF Rest

\* The line in hand goes to the connection, whatever the BufWriter does with it.
LEMMA WriteStep ==
    ASSUME IInv, Write, TypeOK'
    PROVE  Rest'
<1> USE DEF IInv, requests, control, wire
<1>1. /\ UNCHANGED <<app, mark, sent, chan, acking, up, lost>>
      /\ Accept /\ cur' = 0 /\ pc' = "recv" /\ up /\ pc \in {"write", "rewrite"}
    BY DEF Write
<1>2. cur \in Lines /\ acking = 0
    BY <1>1 DEF TypeOK, HandAndBuffer, RequestInHand, Writing, Lines
<1>3. WireInOrder' /\ \A i : Taken(i)' <=> Taken(i) \/ i = cur
    BY <1>1, <1>2, AcceptWire
<1>4. Received'
  <2>1. \A i \in Lines : Handed(i)' <=> Handed(i)
    BY <1>1, <1>2, <1>3 DEF Handed, Lines
  <2> QED BY <1>1, <2>1, ReceivedKept
<1>5. LeftInOrder'
  <2>1. CASE wbuf' = <<>>
    BY <1>3, <1>4, <2>1, LeftWhenEmpty
  <2>2. CASE socket' = socket
    BY <1>1, <2>2 DEF LeftInOrder, OutUpTo, Out
  <2>3. CASE socket' = socket \o wbuf
    <3>1. \A i : i \in Out' <=> Taken(i)
        <4>1. socket' = Wire /\ Wire \in Seq(Lines)
            BY <2>3, WireFacts DEF Wire
        <4>2. \A i : i \in ToSet(socket') <=> OnWire(i)
            BY <4>1 DEF OnWire, ToSet
        <4> QED BY <1>1, <4>2 DEF Out, Taken
    <3>2. PICK m \in 0..sent : \A i \in Lines : Taken(i) <=> i <= m
        BY TakenFirst
    <3>3. m \in 0..MaxLines
        BY <3>2, BoundsAssumption DEF TypeOK
    <3> QED BY <3>1, <3>2, <3>3 DEF LeftInOrder, OutUpTo
  <2> QED BY <1>1, <2>1, <2>2, <2>3 DEF Accept
<1>6. HandAndBuffer' /\ RequestsQueued' /\ RequestInHand'
    BY <1>1, <1>2 DEF HandAndBuffer, Writing, RequestsQueued, RequestInHand
<1> QED BY <1>3, <1>4, <1>5, <1>6 DEF Rest

\* The writer is dropped: the line in hand stays in hand, and a flush goes on.
LEMMA DropStep ==
    ASSUME IInv, WriteFail \/ FlushFail, TypeOK'
    PROVE  Rest'
<1> USE DEF IInv, requests, control, wire
<1>1. UNCHANGED <<app, mark, sent, chan, cur, acking>> /\ DropWriter
    BY DEF WriteFail, FlushFail
<1>2. WireInOrder' /\ \A i : Taken(i)' <=> Taken(i)
    BY <1>1, DropWire
<1>3. Received'
  <2>1. \A i : Handed(i)' <=> Handed(i)
    BY <1>1, <1>2 DEF Handed
  <2> QED BY <1>1, <2>1, ReceivedKept
<1>4. wbuf' = <<>>
    BY <1>1 DEF DropWriter
<1>5. LeftInOrder'
    BY <1>2, <1>3, <1>4, LeftWhenEmpty
<1>6. HandAndBuffer'
  <2>1. CASE WriteFail
    BY <1>1, <1>4, <2>1 DEF WriteFail, HandAndBuffer, Writing
  <2>2. CASE FlushFail
    BY <1>1, <1>4, <2>2 DEF FlushFail, Return, HandAndBuffer, Writing
  <2> QED BY <2>1, <2>2
<1>7. RequestsQueued'
    BY <1>1 DEF RequestsQueued
<1>8. RequestInHand'
  <2>1. CASE WriteFail
    BY <1>1, <2>1 DEF WriteFail, RequestInHand
  <2>2. CASE FlushFail
    BY <1>1, <2>2 DEF FlushFail, Return, RequestInHand
  <2> QED BY <2>1, <2>2
<1> QED BY <1>2, <1>3, <1>5, <1>6, <1>7, <1>8 DEF Rest

\* The line in hand is given up; nothing older is still in the BufWriter.
LEMMA GiveUpStep ==
    ASSUME IInv, GiveUp, TypeOK'
    PROVE  Rest'
<1> USE DEF IInv, requests, control, wire
<1>1. /\ UNCHANGED <<app, mark, sent, chan, acking, up, wbuf, socket>>
      /\ lost' = lost \cup {cur} /\ cur' = 0 /\ pc = "elapsed" /\ pc' = "recv"
    BY DEF GiveUp
<1>2. cur # 0 /\ wbuf = <<>> /\ acking = 0
    BY <1>1 DEF HandAndBuffer, RequestInHand, Writing
<1>3. Wire' = Wire
    BY <1>1 DEF Wire
<1>4. \A i : (OnWire(i)' <=> OnWire(i)) /\ (Taken(i)' <=> Taken(i) \/ i = cur)
    BY <1>1, <1>3 DEF OnWire, Taken
<1>5. WireInOrder'
    BY <1>1, <1>2, <1>3, <1>4 DEF WireInOrder, Taken
<1>6. Received'
  <2>1. \A i \in Lines : Handed(i)' <=> Handed(i)
    BY <1>1, <1>2, <1>4 DEF Handed
  <2> QED BY <1>1, <2>1, ReceivedKept
<1>7. LeftInOrder'
    BY <1>1, <1>2, <1>5, <1>6, LeftWhenEmpty
<1>8. HandAndBuffer' /\ RequestsQueued' /\ RequestInHand'
    BY <1>1, <1>2 DEF HandAndBuffer, Writing, RequestsQueued, RequestInHand
<1> QED BY <1>5, <1>6, <1>7, <1>8 DEF Rest

\* A flush empties the BufWriter, and a request in hand is answered next.
LEMMA FlushStep ==
    ASSUME IInv, Flush \/ FlushNoWriter, TypeOK'
    PROVE  Rest'
<1> USE DEF IInv, requests, control, wire
<1>1. /\ UNCHANGED <<app, mark, sent, chan, cur, acking, lost>>
      /\ pc \in {"flush", "exit"} /\ Return
    BY DEF Flush, FlushNoWriter
<1>2. Wire' = Wire /\ wbuf' = <<>>
  <2>1. CASE Flush
    BY <2>1 DEF Flush, Wire, TypeOK
  <2>2. CASE FlushNoWriter
    BY <2>2 DEF FlushNoWriter, Wire, HandAndBuffer
  <2> QED BY <2>1, <2>2
<1>3. WireInOrder'
    BY <1>1, <1>2, SameWire DEF WireInOrder
<1>4. Received'
  <2>1. \A i : Handed(i)' <=> Handed(i)
    BY <1>1, <1>2, SameWire DEF Handed
  <2> QED BY <1>1, <2>1, ReceivedKept
<1>5. LeftInOrder'
    BY <1>2, <1>3, <1>4, LeftWhenEmpty
<1>6. HandAndBuffer'
    BY <1>1, <1>2 DEF HandAndBuffer, Writing, Return
<1>7. RequestsQueued'
    BY <1>1 DEF RequestsQueued
<1>8. RequestInHand'
    BY <1>1 DEF RequestInHand, Return
<1> QED BY <1>3, <1>4, <1>5, <1>6, <1>7, <1>8 DEF Rest

\* The answer: the thread that waited has no other request.
LEMMA AckStep ==
    ASSUME IInv, Ack
    PROVE  Rest'
<1> USE DEF IInv, requests, control, wire
<1>1. /\ UNCHANGED <<mark, sent, chan, cur, up, wbuf, socket, lost>>
      /\ pc = "ack" /\ pc' = "recv" /\ acking' = 0
      /\ \A t \in Threads \ {acking} : app'[t] = app[t]
    BY DEF Ack, TypeOK
<1>2. Wire' = Wire /\ Out' = Out
    BY <1>1 DEF Wire, Out
<1>3. Received'
  <2>1. \A i : Handed(i)' <=> Handed(i)
    BY <1>1, <1>2, SameWire DEF Handed
  <2> QED BY <1>1, <2>1, ReceivedKept
<1>4. LeftInOrder' /\ WireInOrder'
    BY <1>1, <1>2, SameWire DEF LeftInOrder, OutUpTo, WireInOrder
<1>5. HandAndBuffer' /\ RequestInHand'
    BY <1>1 DEF HandAndBuffer, Writing, RequestInHand
<1>6. RequestsQueued'
  <2>1. acking # 0
    BY <1>1 DEF RequestInHand
  <2>2. \A k \in 1..Len(chan) : chan[k].kind = "flush" => chan[k].by \in Threads \ {acking}
    BY <2>1, ChanElements DEF RequestsQueued, RequestInHand, TypeOK
  <2> QED BY <1>1, <2>2 DEF RequestsQueued
<1> QED BY <1>3, <1>4, <1>5, <1>6 DEF Rest

LEMMA Invariance == Spec => []IInv
<1>1. ASSUME IInv, [Next]_vars
      PROVE  IInv'
  <2>1. TypeOK'
    BY <1>1, TypeStep
  <2>2. Rest'
    <3>1. CASE DropSink \/ (\E t \in Threads : CallLog(t) \/ CallFlush(t)) \/ Stall \/ Resume
                \/ UNCHANGED vars
        <4>1. /\ UNCHANGED <<mark, sent, chan, pc, cur, acking, up, wbuf, socket, lost>>
              /\ \A t \in Threads : app[t] = "waiting" => app'[t] = "waiting"
            BY <1>1, <3>1 DEF DropSink, CallLog, CallFlush, Stall, Resume, IInv, TypeOK,
                              vars, requests, control, wire
        <4> QED BY <1>1, <4>1, QuietStep
    <3>2. ASSUME NEW t \in Threads, SendLine(t)
          PROVE  Rest'
        <4>1. CASE sent < MaxLines
            BY <1>1, <3>2, <4>1, SendLineStep
        <4>2. CASE ~(sent < MaxLines)
            <5>1. /\ UNCHANGED <<mark, sent, chan, pc, cur, acking, up, wbuf, socket, lost>>
                  /\ \A u \in Threads : app[u] = "waiting" => app'[u] = "waiting"
                BY <1>1, <3>2, <4>2 DEF SendLine, IInv, TypeOK, control, wire
            <5> QED BY <1>1, <5>1, QuietStep
        <4> QED BY <4>1, <4>2
    <3>3. ASSUME NEW t \in Threads, SendFlush(t)
          PROVE  Rest'
        BY <1>1, <3>3, SendFlushStep
    <3>4. CASE BackendStep \/ WriteFail \/ ConnectFail \/ FlushFail
        BY <1>1, <2>1, <3>4, TakeLineStep, TakeFlushStep, ControlStep, WriteStep, DropStep,
           GiveUpStep, FlushStep, AckStep DEF BackendStep
    <3> QED BY <1>1, <3>1, <3>2, <3>3, <3>4 DEF Next, AppStep, ServerStep
  <2> QED BY <2>1, <2>2 DEF IInv, Rest
<1> QED BY InitInv, <1>1, PTL DEF Spec

-----------------------------------------------------------------------------
\* Types, for every number of threads, capacity and bound; that the channel
\* never holds more than its capacity is part of them.
THEOREM TypeCorrect == Spec => []TypeOK
<1>1. IInv => TypeOK
    BY DEF IInv
<1> QED BY <1>1, Invariance, PTL

\* The socket gets the lines in the order they were sent and none twice,
\* through write errors, new connections and lines given up.
THEOREM InOrderHolds == Spec => []InOrder
<1>1. IInv => InOrder
    BY WireFacts DEF IInv, WireInOrder, InOrder
<1> QED BY <1>1, Invariance, PTL

LEMMA OnePlace ==
    ASSUME IInv, NEW i \in 1..sent
    PROVE  \E p \in {"chan", "hand", "wbuf", "socket", "lost"} : Places(i) = {p}
<1> DEFINE C == \E k \in 1..Len(chan) : chan[k].id = i
           H == cur = i
           B == i \in ToSet(wbuf)
           S == i \in ToSet(socket)
           L == i \in lost
<1>0. TypeOK /\ Received /\ WireInOrder /\ RequestsQueued
    BY DEF IInv
<1>1. i \in Lines /\ i # 0
    BY <1>0, BoundsAssumption DEF TypeOK, Lines
<1>2. C <=> InChan(i)
    BY <1>0, <1>1, ChanElements DEF InChan, RequestsQueued, TypeOK
<1>3. B <=> \E k \in 1..Len(wbuf) : wbuf[k] = i
    BY <1>0 DEF ToSet, TypeOK
<1>4. S <=> \E k \in 1..Len(socket) : socket[k] = i
    BY <1>0 DEF ToSet, TypeOK
<1>5. (S => OnWire(i)) /\ (B => OnWire(i))
  <2>1. ASSUME NEW k \in 1..Len(socket), socket[k] = i
        PROVE  k \in 1..Len(Wire) /\ Wire[k] = i
    BY <1>0, <2>1, WireFacts
  <2>2. ASSUME NEW k \in 1..Len(wbuf), wbuf[k] = i
        PROVE  Len(socket) + k \in 1..Len(Wire) /\ Wire[Len(socket) + k] = i
    BY <1>0, <2>2, WireFacts
  <2> QED BY <1>3, <1>4, <2>1, <2>2 DEF OnWire
<1>6. OnWire(i) => S \/ B
  <2> SUFFICES ASSUME NEW k \in 1..Len(Wire), Wire[k] = i PROVE S \/ B
    BY DEF OnWire
  <2>1. CASE k \in 1..Len(socket)
    BY <1>0, <1>4, <2>1, WireFacts
  <2>2. CASE k \notin 1..Len(socket)
    <3>1. k - Len(socket) \in 1..Len(wbuf) /\ Wire[Len(socket) + (k - Len(socket))] = Wire[k]
        BY <1>0, <2>2, WireFacts
    <3>2. wbuf[k - Len(socket)] = i
        BY <1>0, <3>1, WireFacts
    <3> QED BY <1>3, <3>1, <3>2
  <2> QED BY <2>1, <2>2
<1>7. ~(S /\ B)
  <2> SUFFICES ASSUME NEW j \in 1..Len(socket), socket[j] = i,
                      NEW k \in 1..Len(wbuf), wbuf[k] = i
               PROVE  FALSE
    BY <1>3, <1>4
  <2>1. /\ j \in 1..Len(Wire) /\ Len(socket) + k \in 1..Len(Wire) /\ j < Len(socket) + k
        /\ Wire[j] = i /\ Wire[Len(socket) + k] = i
    BY <1>0, WireFacts
  <2> QED BY <1>0, <1>1, <2>1 DEF WireInOrder, Lines
<1>8. (L => ~OnWire(i)) /\ (H => ~Taken(i))
    BY <1>0, <1>1 DEF WireInOrder
<1>9. C <=> ~(Taken(i) \/ H)
  <2>1. PICK r \in 0..sent : ReceivedUpTo(r)
    BY <1>0 DEF Received
  <2>2. Handed(i) <=> Taken(i) \/ H
    BY <1>1 DEF Handed
  <2>3. Handed(i) <=> i <= r
    BY <1>1, <2>1 DEF ReceivedUpTo
  <2>4. InChan(i) <=> r < i
    BY <1>1, <2>1 DEF ReceivedUpTo, InChan
  <2>5. i \in Int /\ r \in Int
    BY <1>0, <2>1, BoundsAssumption DEF TypeOK
  <2> QED BY <1>2, <2>2, <2>3, <2>4, <2>5
<1>10. Taken(i) <=> OnWire(i) \/ L
    BY DEF Taken
<1>11. /\ C \/ H \/ B \/ S \/ L
       /\ C => ~H /\ ~B /\ ~S /\ ~L
       /\ H => ~B /\ ~S /\ ~L
       /\ B => ~S /\ ~L
       /\ S => ~L
    BY <1>5, <1>6, <1>7, <1>8, <1>9, <1>10
<1>12. Places(i) = {p \in {"chan", "hand", "wbuf", "socket", "lost"} :
            (p = "chan" /\ C) \/ (p = "hand" /\ H) \/ (p = "wbuf" /\ B)
                \/ (p = "socket" /\ S) \/ (p = "lost" /\ L)}
    BY DEF Places
<1> HIDE DEF C, H, B, S, L
<1>13. CASE C
    BY <1>11, <1>12, <1>13
<1>14. CASE H
    BY <1>11, <1>12, <1>14
<1>15. CASE B
    BY <1>11, <1>12, <1>15
<1>16. CASE S
    BY <1>11, <1>12, <1>16
<1>17. CASE L
    BY <1>11, <1>12, <1>17
<1> QED BY <1>11, <1>13, <1>14, <1>15, <1>16, <1>17

\* Every line sent is in one place and only one, whatever fails: the retry of
\* write never doubles a line, and what the drop of a BufWriter cuts off is lost
\* and not on the wire.
THEOREM ConservationHolds == Spec => []Conservation
<1>1. IInv => Conservation
  <2> SUFFICES ASSUME IInv, NEW i \in 1..sent PROVE Cardinality(Places(i)) = 1
    BY DEF Conservation
  <2>1. PICK p \in {"chan", "hand", "wbuf", "socket", "lost"} : Places(i) = {p}
    BY OnePlace
  <2> QED BY <2>1, FS_Singleton
<1> QED BY <1>1, Invariance, PTL

-----------------------------------------------------------------------------
\* The lines that have left memory are the first ones, and were sent.
OutFirst == \E n \in 0..sent : Out = 1..n

LEMMA OutFirstHolds == IInv => OutFirst
<1> SUFFICES ASSUME IInv PROVE OutFirst
    OBVIOUS
<1>1. PICK n \in 0..MaxLines : OutUpTo(n)
    BY DEF IInv, LeftInOrder
<1>2. \A i : i \in Out => Taken(i) /\ i \in Lines
    BY OutFacts DEF IInv
<1>3. Out = 1..n
  <2>1. ASSUME NEW i \in Out
        PROVE  i \in 1..n
    BY <1>1, <1>2 DEF OutUpTo, Lines
  <2>2. ASSUME NEW i \in 1..n
        PROVE  i \in Out
    <3>1. i \in Lines
        BY <1>1, BoundsAssumption DEF Lines
    <3> QED BY <1>1, <3>1 DEF OutUpTo
  <2> QED BY <2>1, <2>2
<1>4. n <= sent
  <2>1. PICK r \in 0..sent : ReceivedUpTo(r)
    BY DEF IInv, Received
  <2>2. CASE n = 0
    BY <2>1, <2>2, BoundsAssumption DEF IInv, TypeOK
  <2>3. CASE n # 0
    <3>1. Taken(n) /\ n \in Lines
        BY <1>2, <1>3, <2>3, BoundsAssumption DEF Lines
    <3>2. n <= r
        BY <2>1, <3>1 DEF ReceivedUpTo, Handed
    <3> QED BY <2>1, <3>2, BoundsAssumption DEF IInv, TypeOK
  <2> QED BY <2>2, <2>3
<1>5. n \in 0..sent
    BY <1>1, <1>4, BoundsAssumption DEF IInv, TypeOK
<1> QED BY <1>3, <1>5 DEF OutFirst

\* What has left memory stays out.
LEMMA OutGrows ==
    ASSUME IInv, [Next]_vars
    PROVE  Out \subseteq Out'
<1> USE DEF requests, control, wire
<1>0. wbuf \in Seq(Lines) /\ socket \in Seq(Lines)
    BY DEF IInv, TypeOK
<1>1. CASE UNCHANGED <<socket, lost>>
    BY <1>1 DEF Out
<1>2. ASSUME NEW x \in Seq(Lines), socket' = socket \o x, lost \subseteq lost'
      PROVE  Out \subseteq Out'
  <2>1. Len(socket) \in Nat /\ Len(socket') = Len(socket) + Len(x) /\ Len(x) \in Nat
        /\ \A k \in 1..Len(socket) : socket'[k] = socket[k]
    BY <1>0, <1>2
  <2>2. ToSet(socket) \subseteq ToSet(socket')
    <3> SUFFICES ASSUME NEW k \in 1..Len(socket) PROVE socket[k] \in ToSet(socket')
        BY <1>0 DEF ToSet
    <3>1. k \in DOMAIN socket' /\ socket'[k] = socket[k]
        BY <1>0, <1>2, <2>1
    <3> QED BY <3>1 DEF ToSet
  <2> QED BY <1>2, <2>2 DEF Out
<1>3. CASE DropWriter
  <2>1. PICK n \in 0..Len(wbuf) : socket' = socket \o SubSeq(wbuf, 1, n) /\ lost \subseteq lost'
    BY <1>3 DEF DropWriter
  <2>2. SubSeq(wbuf, 1, n) \in Seq(Lines)
    BY <1>0
  <2> QED BY <1>2, <2>1, <2>2
<1>4. CASE Write
  <2>1. cur \in Lines /\ lost' = lost /\ Accept
    BY <1>4 DEF Write, IInv, TypeOK, HandAndBuffer, Writing, Lines
  <2>2. CASE socket' = socket
    BY <1>1, <2>1, <2>2
  <2>3. CASE socket' = socket \o wbuf
    BY <1>0, <1>2, <2>1, <2>3
  <2>4. CASE socket' = socket \o wbuf \o <<cur>>
    <3>1. wbuf \o <<cur>> \in Seq(Lines) /\ socket' = socket \o (wbuf \o <<cur>>)
        BY <1>0, <2>1, <2>4
    <3> QED BY <1>2, <2>1, <3>1
  <2> QED BY <2>1, <2>2, <2>3, <2>4 DEF Accept
<1>5. CASE Flush
  <2>1. socket' = socket \o wbuf /\ lost' = lost
    BY <1>5 DEF Flush
  <2> QED BY <1>0, <1>2, <2>1
<1>6. CASE WriteFail \/ FlushFail
    BY <1>3, <1>6 DEF WriteFail, FlushFail
<1>7. CASE GiveUp
    BY <1>7 DEF GiveUp, Out
<1>8. CASE TakeLine \/ TakeFlush \/ BatchDone \/ Disconnected \/ NotConnected \/ Connect
            \/ ConnectFail \/ TryAgain \/ FlushNoWriter \/ Ack \/ Stall \/ Resume
    BY <1>1, <1>8 DEF TakeLine, TakeFlush, BatchDone, Disconnected, NotConnected, Connect,
                      ConnectFail, TryAgain, FlushNoWriter, Ack, Stall, Resume
<1>9. CASE AppStep
    BY <1>1, <1>9 DEF AppStep, DropSink, CallLog, CallFlush, SendLine, SendFlush
<1>10. CASE UNCHANGED vars
    BY <1>1, <1>10 DEF vars
<1> QED BY <1>4, <1>5, <1>6, <1>7, <1>8, <1>9, <1>10 DEF Next, BackendStep, ServerStep

\* When a request is answered, the lines it is about have left memory.
LEMMA FlushCovers ==
    ASSUME IInv, Ack
    PROVE  /\ acking \in Threads /\ app[acking] = "waiting" /\ mark[acking] \in 0..sent
           /\ 1..mark[acking] \subseteq Out
<1>1. pc = "ack" /\ acking # 0 /\ acking \in Threads /\ app[acking] = "waiting"
    BY DEF Ack, IInv, RequestInHand, TypeOK
<1>2. mark[acking] \in 0..sent
    BY <1>1, BoundsAssumption DEF IInv, RequestInHand, TypeOK
<1>3. wbuf = <<>> /\ cur = 0
    BY <1>1 DEF IInv, HandAndBuffer, Writing
<1> SUFFICES ASSUME NEW i \in 1..mark[acking] PROVE i \in Out
    BY <1>1, <1>2
<1>4. i \in Lines /\ i <= sent
    BY <1>2, BoundsAssumption DEF IInv, TypeOK, Lines
<1>5. ~InChan(i)
  <2>1. \A k \in 1..Len(chan) : chan[k].kind = "line" => mark[acking] < chan[k].id
    BY <1>1 DEF IInv, RequestInHand
  <2> QED BY <1>2, <1>4, <2>1 DEF InChan, Lines
<1>6. Taken(i)
    BY <1>3, <1>4, <1>5 DEF IInv, Received, ReceivedUpTo, Handed, Lines
<1> QED BY <1>3, <1>6, OutFacts DEF IInv

\* Only the answer wakes a thread that waits.
LEMMA OnlyAckWakes ==
    ASSUME IInv, [Next]_vars, ~Ack
    PROVE  /\ \A t \in Threads : app[t] = "waiting" => app'[t] = "waiting" /\ mark'[t] = mark[t]
           /\ \/ \E t \in Threads : SendFlush(t)
              \/ \A t \in Threads : app'[t] = "waiting" => app[t] = "waiting" /\ mark'[t] = mark[t]
<1> USE DEF requests
<1>0. TypeOK
    BY DEF IInv
<1>1. CASE DropSink \/ BackendStep \/ ServerStep \/ UNCHANGED vars
  <2>1. UNCHANGED <<app, mark>>
    BY <1>1 DEF DropSink, BackendStep, ServerStep, TakeLine, TakeFlush, BatchDone, Disconnected, Write,
                WriteFail, NotConnected, Connect, ConnectFail, TryAgain, GiveUp, Flush, FlushFail,
                FlushNoWriter, Stall, Resume, vars
  <2> QED BY <2>1
<1>2. ASSUME NEW t \in Threads, CallLog(t) \/ CallFlush(t) \/ SendLine(t)
      PROVE  /\ \A u \in Threads : app[u] = "waiting" <=> app'[u] = "waiting"
             /\ mark' = mark
    BY <1>0, <1>2 DEF CallLog, CallFlush, SendLine, TypeOK
<1>3. ASSUME NEW t \in Threads, SendFlush(t)
      PROVE  \A u \in Threads : app[u] = "waiting" => app'[u] = "waiting" /\ mark'[u] = mark[u]
    BY <1>0, <1>3 DEF SendFlush, TypeOK
<1> QED BY <1>1, <1>2, <1>3 DEF Next, AppStep

\* The requests the abstract stream sees.
Asked == [t \in Threads |-> IF app[t] = "waiting" THEN mark[t] ELSE -1]

\* A step of the sink is a step of the stream, or none: a send accepts a line or
\* records a request, the answer returns it, and what the backend writes or gives
\* up leaves memory.
LEMMA StreamStep ==
    ASSUME IInv, OutFirst, OutFirst', [Next]_vars
    PROVE  [Stream!Next]_Stream!vars
<1> USE DEF requests, control, wire
<1>0. TypeOK /\ sent \in Nat
    BY BoundsAssumption DEF IInv, TypeOK
<1>1. ASSUME sent' = sent, Asked' = Asked
      PROVE  [Stream!Next]_Stream!vars
  <2>1. PICK m \in 0..sent : Out = 1..m
    BY DEF OutFirst
  <2>2. PICK n \in 0..sent : Out' = 1..n
    BY <1>1 DEF OutFirst
  <2>3. Out \subseteq Out'
    BY OutGrows
  <2>4. CASE Out' = Out
    BY <1>1, <2>4 DEF Stream!vars, Asked
  <2>5. CASE Out' # Out
    <3>1. n \in 1..sent
        BY <1>0, <2>1, <2>2, <2>3, <2>5
    <3>2. Stream!Deliver
        BY <1>1, <2>2, <2>3, <2>5, <3>1 DEF Stream!Deliver, Asked
    <3> QED BY <3>2 DEF Stream!Next
  <2> QED BY <2>4, <2>5
<1>2. CASE Ack
  <2>1. PICK t \in Threads : t = acking
    BY <1>2, FlushCovers
  <2>2. app[t] = "waiting" /\ mark[t] \in 0..sent /\ 1..mark[t] \subseteq Out
    BY <1>2, <2>1, FlushCovers
  <2>3. UNCHANGED <<mark, sent>> /\ Out' = Out /\ app' = [app EXCEPT ![t] = "idle"]
    BY <1>2, <2>1 DEF Ack, Out
  <2>4. Asked[t] = mark[t] /\ mark[t] # -1
    BY <2>2 DEF Asked
  <2>5. Asked' = [Asked EXCEPT ![t] = -1]
    BY <1>0, <2>3 DEF Asked, TypeOK
  <2>6. Stream!Return(t)
    BY <2>2, <2>3, <2>4, <2>5 DEF Stream!Return, Asked
  <2> QED BY <2>6 DEF Stream!Next
<1>3. ASSUME NEW t \in Threads, SendFlush(t)
      PROVE  [Stream!Next]_Stream!vars
  <2>1. UNCHANGED sent /\ Out' = Out
    BY <1>3 DEF SendFlush, Out
  <2>2. Asked[t] = -1
    BY <1>3 DEF SendFlush, Asked
  <2>3. Asked' = [Asked EXCEPT ![t] = sent]
    BY <1>0, <1>3 DEF SendFlush, Asked, TypeOK
  <2>4. Stream!Flush(t)
    BY <2>1, <2>2, <2>3 DEF Stream!Flush, Asked
  <2> QED BY <2>4 DEF Stream!Next
<1>4. ASSUME NEW t \in Threads, CallLog(t) \/ CallFlush(t) \/ SendLine(t)
      PROVE  [Stream!Next]_Stream!vars
  <2>1. Asked' = Asked /\ Out' = Out
    BY <1>0, <1>4 DEF CallLog, CallFlush, SendLine, Asked, Out, TypeOK
  <2>2. CASE sent' = sent
    BY <1>1, <2>1, <2>2
  <2>3. CASE sent' # sent
    <3>1. sent' = sent + 1
        BY <1>4, <2>3 DEF CallLog, CallFlush, SendLine
    <3>2. Stream!Accept
        BY <2>1, <3>1 DEF Stream!Accept, Asked
    <3> QED BY <3>2 DEF Stream!Next
  <2> QED BY <2>2, <2>3
<1>5. CASE DropSink \/ (BackendStep /\ ~Ack) \/ ServerStep \/ UNCHANGED vars
  <2>1. UNCHANGED <<app, mark, sent>>
    BY <1>5 DEF DropSink, BackendStep, ServerStep, TakeLine, TakeFlush, BatchDone, Disconnected, Write,
                WriteFail, NotConnected, Connect, ConnectFail, TryAgain, GiveUp, Flush, FlushFail,
                FlushNoWriter, Stall, Resume, vars
  <2> QED BY <1>1, <2>1 DEF Asked
<1> QED BY <1>2, <1>3, <1>4, <1>5 DEF Next, AppStep

\* The sink is a stream of lines as LogStream promises it: one by one, out in the
\* order they came in, and no flush that returns early; failures of the server
\* are steps of it, as a line given up has left memory.
THEOREM StreamHolds == Spec => ImplementsStream
<1>1. Init => Stream!Init
  <2> SUFFICES ASSUME Init PROVE Stream!Init
    OBVIOUS
  <2>1. sent = 0 /\ Out = {}
    BY DEF Init, Out, ToSet
  <2>2. Asked = [t \in Threads |-> -1]
    BY DEF Init, Asked
  <2> QED BY <2>1, <2>2 DEF Stream!Init, Asked
<1>2. IInv /\ OutFirst /\ OutFirst' /\ [Next]_vars => [Stream!Next]_Stream!vars
    BY StreamStep
<1> QED BY <1>1, <1>2, OutFirstHolds, Invariance, PTL DEF Spec, ImplementsStream, Stream!Spec

=============================================================================
