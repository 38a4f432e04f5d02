--------------------------- MODULE BufFileProofs ---------------------------
(***************************************************************************)
(* Proofs about the buffered sink: types, and what flush() promises.        *)
(***************************************************************************)
EXTENDS BufFile, FiniteSetTheorems, TLAPS

\* The lines in the channel are the ones sent and not yet received, in order.
LinesQueued ==
    /\ got <= sent
    /\ \A k \in 1..Len(chan) :
        chan[k].kind = "line" => got < chan[k].id /\ chan[k].id <= sent
    /\ \A k, l \in 1..Len(chan) :
        chan[k].kind = "line" /\ chan[l].kind = "line" /\ k < l => chan[k].id < chan[l].id
    /\ pc # "dead" => \A i \in Lines : got < i /\ i <= sent => InChan(i)

\* A flush request stands behind the lines it is about and before all others;
\* its thread waits and has no other.
RequestsQueued ==
    \A k \in 1..Len(chan) : chan[k].kind = "flush" /\ chan[k].by # 0 =>
        /\ app[chan[k].by] = "waiting" /\ mark[chan[k].by] <= sent
        /\ \A l \in 1..Len(chan) : chan[l].kind = "line" =>
                (l < k <=> chan[l].id <= mark[chan[k].by])
        /\ \A l \in 1..Len(chan) : chan[l].kind = "flush" /\ chan[l].by = chan[k].by => l = k

Calling  == {"flush", "check", "rename", "open", "stat"}
Panicking == {"panic", "hookflush", "hookwait", "dead"}

\* A line is in the writer's hand from its receipt to append.
LineInHand ==
    /\ pc = "append" => cur.id # 0
    /\ caller = "before" /\ pc \in Calling => cur.id # 0
    /\ cur.id # 0 => \/ pc = "append"
                     \/ caller = "before" /\ pc \in Calling \cup Panicking

\* Every line received is out of memory, in the buffer or in the hand.
LinesReceived == \A i \in Lines : i <= got => Out(i) \/ i \in buf \/ cur.id = i

\* The request in hand: its lines are received, and after the write the buffer
\* is empty.
RequestInHand ==
    caller = "flush" =>
        /\ pc \in Calling \cup {"wait"} =>
            /\ acking \in Threads
            /\ app[acking] = "waiting"
            /\ mark[acking] <= got
            /\ \A k \in 1..Len(chan) : chan[k].kind = "flush" => chan[k].by # acking
        /\ pc \in Calling \ {"flush"} => buf = {}
        /\ pc = "wait" => f = 0 \/ buf = {}

\* A flush message of the writer itself only follows a panic.
OwnRequest == pc \notin Panicking =>
    \A k \in 1..Len(chan) : chan[k].kind = "flush" => chan[k].by # 0

IInv == /\ TypeOK
        /\ LinesQueued
        /\ RequestsQueued
        /\ LineInHand
        /\ LinesReceived
        /\ RequestInHand
        /\ OwnRequest

-----------------------------------------------------------------------------
\* What sending and receiving do to the channel, once and for all.
LEMMA EnqueueFacts ==
    ASSUME chan \in Seq(Message), NEW m \in Message
    PROVE  /\ Enqueue(m) \in Seq(Message)
           /\ Len(Enqueue(m)) = Len(chan) + 1
           /\ \A k \in 1..Len(chan) : Enqueue(m)[k] = chan[k]
           /\ Enqueue(m)[Len(chan) + 1] = m
BY DEF Enqueue

LEMMA TakeFacts ==
    ASSUME chan \in Seq(Message), chan # <<>>
    PROVE  /\ Tail(chan) \in Seq(Message)
           /\ Len(chan) \in Nat \ {0}
           /\ Len(Tail(chan)) = Len(chan) - 1
           /\ \A k \in 1..Len(chan) - 1 : Tail(chan)[k] = chan[k + 1]
           /\ Head(chan) = chan[1]
           /\ chan[1] \in Message
OBVIOUS

LEMMA ChanElements ==
    ASSUME chan \in Seq(Message), NEW k \in 1..Len(chan)
    PROVE  /\ chan[k] \in Message
           /\ chan[k].id \in Nat /\ chan[k].by \in Threads \cup {0}
<1>1. chan[k] \in Message
    OBVIOUS
<1> QED BY <1>1 DEF Message

LEMMA MessageTypes ==
    /\ \A i \in Nat, n \in Nat : LineMsg(i, n) \in Message
    /\ \A t \in Threads \cup {0} : FlushMsg(t) \in Message
    /\ ReopenMsg \in Message
BY DEF LineMsg, FlushMsg, ReopenMsg, Message

LEMMA ChanTypes ==
    ASSUME chan \in Seq(Message), Len(chan) < Cap, Cap \in Nat, NEW m \in Message
    PROVE  Enqueue(m) \in Seq(Message) /\ Len(Enqueue(m)) <= Cap
BY EnqueueFacts

\* Where a function of the writer thread returns to.
LEMMA ReturnFacts ==
    ASSUME caller \in DOMAIN After, Return
    PROVE  /\ pc' \in {"check", "recv", "drain", "append", "wait"}
           /\ pc' = "check" <=> caller = "start"
           /\ pc' = "append" => caller = "before"
           /\ caller' \in DOMAIN After /\ (caller' = caller \/ caller' = "check0")
BY DEF Return, After

LEMMA InitInv == Init => IInv
<1> SUFFICES ASSUME Init PROVE IInv
    OBVIOUS
<1> USE BoundsAssumption, SizesAssumption, ChannelAssumption
<1>1. TypeOK
  <2>1. chan \in Seq(Message) /\ Len(chan) <= Cap
    BY DEF Init
  <2>2. caller \in DOMAIN After /\ cur \in [id : 0..MaxLines, size : Nat]
    BY DEF Init, After, NoLine
  <2>3. flen \in [Inode -> Nat] /\ born \in [Inode -> 0..MaxTime] /\ home \in [Lines -> -1..MaxFiles]
    BY LimitsAssumption DEF Init, Inode, Lines
  <2>4. files \in 0..MaxFiles /\ log \in 0..MaxFiles /\ created \in -1..MaxTime
    BY DEF Init
  <2>5. app \in [Threads -> {"idle", "line", "flush", "waiting"}] /\ mark \in [Threads -> 0..MaxLines]
    BY DEF Init
  <2>6. closed \in BOOLEAN /\ hpc \in {"none", "running"} /\ pc = "open"
    BY DEF Init
  <2>7. /\ sent = 0 /\ got = 0 /\ reopens = 0 /\ moves = 0 /\ now = 0 /\ acking = 0
        /\ buf = {} /\ rotated = {} /\ blen = 0 /\ size = 0 /\ f = 0 /\ opened = 0
    BY DEF Init
  <2> QED
    BY <2>1, <2>2, <2>3, <2>4, <2>5, <2>6, <2>7 DEF TypeOK
<1>2. LinesQueued /\ RequestsQueued /\ OwnRequest
    BY DEF Init, LinesQueued, RequestsQueued, OwnRequest, Lines
<1>3. LineInHand /\ LinesReceived /\ RequestInHand
    BY DEF Init, LineInHand, LinesReceived, RequestInHand, NoLine, Lines
<1> QED BY <1>1, <1>2, <1>3 DEF IInv

LEMMA TypeStep == IInv /\ [Next]_vars => TypeOK'
<1> SUFFICES ASSUME IInv, [Next]_vars PROVE TypeOK'
    OBVIOUS
<1> USE BoundsAssumption, SizesAssumption, ChannelAssumption
<1> USE DEF IInv, requests, control, buffer, handle, disk
<1>1. ASSUME NEW t \in Threads, CallLog(t) \/ CallFlush(t) \/ SendFails(t) PROVE TypeOK'
  <2>1. app' \in [Threads -> {"idle", "line", "flush", "waiting"}]
    BY <1>1 DEF TypeOK, CallLog, CallFlush, SendFails
  <2>2. UNCHANGED <<mark, sent, reopens, closed, chan, control, buffer, handle, hpc, disk, now>>
    BY <1>1 DEF CallLog, CallFlush, SendFails
  <2> HIDE DEF control, buffer, handle, disk
  <2> QED
    BY <2>1, <2>2 DEF TypeOK, control, buffer, handle, disk
<1>2. ASSUME NEW t \in Threads, SendLine(t) PROVE TypeOK'
  <2>1. PICK n \in Sizes : chan' = Enqueue(LineMsg(sent + 1, n))
    BY <1>2 DEF SendLine
  <2>2. LineMsg(sent + 1, n) \in Message
    BY MessageTypes DEF TypeOK
  <2>3. chan' \in Seq(Message) /\ Len(chan') <= Cap
    BY <1>2, <2>1, <2>2, ChanTypes DEF TypeOK, SendLine, Room
  <2>4. sent' \in 0..MaxLines /\ app' \in [Threads -> {"idle", "line", "flush", "waiting"}]
    BY <1>2 DEF TypeOK, SendLine
  <2> QED
    BY <1>2, <2>3, <2>4 DEF TypeOK, SendLine
<1>3. ASSUME NEW t \in Threads, SendFlush(t) PROVE TypeOK'
  <2>1. FlushMsg(t) \in Message
    BY MessageTypes
  <2>2. chan' \in Seq(Message) /\ Len(chan') <= Cap
    BY <1>3, <2>1, ChanTypes DEF TypeOK, SendFlush, Room
  <2>3. app' \in [Threads -> {"idle", "line", "flush", "waiting"}] /\ mark' \in [Threads -> 0..MaxLines]
    BY <1>3 DEF TypeOK, SendFlush
  <2> QED
    BY <1>3, <2>2, <2>3 DEF TypeOK, SendFlush
<1>4. CASE SendReopen
  <2>1. chan' \in Seq(Message) /\ Len(chan') <= Cap
    BY <1>4, MessageTypes, ChanTypes DEF TypeOK, SendReopen, Room
  <2> QED
    BY <1>4, <2>1 DEF TypeOK, SendReopen
<1>5. CASE DropSink
    BY <1>5 DEF TypeOK, DropSink
<1>22. CASE ExternalMove
    BY <1>22 DEF TypeOK, ExternalMove
<1>24. CASE Tick
    BY <1>24 DEF TypeOK, Tick
<1>23. CASE HandlerDone
    BY <1>23 DEF TypeOK, HandlerDone
<1>6. CASE Open
  <2>1. opened' \in 0..MaxFiles /\ log' \in 0..MaxFiles /\ files' \in 0..MaxFiles
    BY <1>6 DEF TypeOK, Open
  <2>2. born' \in [Inode -> 0..MaxTime]
    BY <1>6 DEF TypeOK, Open
  <2> QED
    BY <1>6, <2>1, <2>2 DEF TypeOK, Open
<1>7. CASE OpenFailed \/ FlushNoFile
  <2>1. Return
    BY <1>7 DEF OpenFailed, FlushNoFile
  <2>2. pc' \in {"check", "recv", "drain", "append", "wait"} /\ caller' \in DOMAIN After
    BY <2>1 DEF TypeOK, Return, After
  <2> QED
    BY <1>7, <2>2 DEF TypeOK, OpenFailed, FlushNoFile
<1>8. CASE Stat
  <2>1. pc' \in {"check", "recv", "drain", "append", "wait"} /\ caller' \in DOMAIN After
    BY <1>8, ReturnFacts DEF TypeOK, Stat
  <2>2. size' \in Nat /\ created' \in -1..MaxTime
    <3>1. log \in Inode
      BY <1>8 DEF TypeOK, Stat, Inode
    <3>2. flen[log] \in Nat /\ born[log] \in 0..MaxTime
      BY <3>1 DEF TypeOK
    <3> QED BY <1>8, <3>2 DEF TypeOK, Stat
  <2> QED
    BY <1>8, <2>1, <2>2 DEF TypeOK, Stat
<1>9. CASE StatPanic \/ RenamePanic
    BY <1>9 DEF TypeOK, StatPanic, RenamePanic
<1>10. CASE Check
    BY <1>10 DEF TypeOK, Check, Return, After
<1>11. CASE Rename
  <2>1. rotated' \subseteq Inode
    BY <1>11 DEF TypeOK, Rename, Inode
  <2> QED
    BY <1>11, <2>1 DEF TypeOK, Rename
<1>12. CASE TakeLine
  <2>1. /\ chan' \in Seq(Message) /\ Len(chan') <= Cap
        /\ Head(chan) \in Message /\ Head(chan) = chan[1] /\ 1 \in 1..Len(chan)
    BY <1>12, TakeFacts DEF TypeOK, TakeLine, Take
  <2>2. Head(chan).id \in 0..MaxLines /\ Head(chan).size \in Nat
    <3>1. Head(chan).id \in Nat /\ Head(chan).size \in Nat
      BY <2>1 DEF Message
    <3>2. Head(chan).id <= sent /\ sent \in 0..MaxLines
      BY <1>12, <2>1, <3>1 DEF TypeOK, TakeLine, LinesQueued
    <3> QED BY <3>1, <3>2
  <2> QED
    BY <1>12, <2>1, <2>2 DEF TypeOK, TakeLine, Take, After
<1>13. CASE TakeReopen \/ TakeFlush
  <2>1. chan' \in Seq(Message) /\ Len(chan') <= Cap /\ Head(chan) \in Message
    <3>1. chan \in Seq(Message) /\ chan # <<>> /\ chan' = Tail(chan)
      BY <1>13 DEF TypeOK, TakeReopen, TakeFlush, Take
    <3> QED
      BY <3>1, TakeFacts DEF TypeOK
  <2>2. acking' \in Threads \cup {0}
    BY <1>13, <2>1 DEF TypeOK, TakeReopen, TakeFlush, Message
  <2> QED
    BY <1>13, <2>1, <2>2 DEF TypeOK, TakeReopen, TakeFlush, Take, After
<1>14. CASE Drained \/ Timeout \/ Disconnected \/ Exit
    BY <1>14 DEF TypeOK, Drained, Timeout, Disconnected, Exit, After
<1>15. CASE AppendLine
  <2>1. cur.id \in Lines /\ cur.size \in Nat
    BY <1>15 DEF TypeOK, AppendLine, LineInHand, Lines
  <2>2. buf' \subseteq Lines /\ blen' \in Nat /\ cur' \in [id : 0..MaxLines, size : Nat]
    BY <1>15, <2>1 DEF TypeOK, AppendLine, NoLine
  <2> QED
    BY <1>15, <2>2 DEF TypeOK, AppendLine, After
<1>16. ASSUME NEW ok \in BOOLEAN, Write(ok) PROVE TypeOK'
  <2>1. home' \in [Lines -> -1..MaxFiles]
    BY <1>16 DEF TypeOK, Write
  <2>2. flen' \in [Inode -> Nat]
    <3>0. flen \in [Inode -> Nat] /\ f \in 0..MaxFiles /\ blen \in Nat
      BY DEF TypeOK
    <3>1. f \in Inode
      BY <1>16, <3>0 DEF Write, Inode
    <3>2. flen[f] + blen \in Nat
      BY <3>0, <3>1
    <3>3. flen' = flen \/ flen' = [flen EXCEPT ![f] = flen[f] + blen]
      BY <1>16 DEF Write
    <3> QED
      BY <3>0, <3>1, <3>2, <3>3
  <2>3. size' \in Nat
    BY <1>16 DEF TypeOK, Write
  <2> QED
    BY <1>16, <2>1, <2>2, <2>3 DEF TypeOK, Write
<1>17. CASE Ack
    BY <1>17 DEF TypeOK, Ack
<1>18. CASE Unwind
    BY <1>18 DEF TypeOK, Unwind
<1>19. CASE HookLog
  <2>1. chan' \in Seq(Message) /\ Len(chan') <= Cap /\ sent' \in 0..MaxLines
    <3>1. CASE sent < MaxLines
      <4>1. PICK n \in Sizes : chan' = Enqueue(LineMsg(sent + 1, n)) /\ sent' = sent + 1
        BY <1>19, <3>1 DEF HookLog
      <4>2. LineMsg(sent + 1, n) \in Message
        BY MessageTypes DEF TypeOK
      <4> QED
        BY <1>19, <3>1, <4>1, <4>2, ChanTypes DEF TypeOK, HookLog
    <3>2. CASE ~(sent < MaxLines)
      BY <1>19, <3>2 DEF TypeOK, HookLog
    <3> QED BY <3>1, <3>2
  <2> QED
    BY <1>19, <2>1 DEF TypeOK, HookLog
<1>20. CASE HookFlush
  <2>1. chan' \in Seq(Message) /\ Len(chan') <= Cap
    BY <1>20, MessageTypes, ChanTypes DEF TypeOK, HookFlush
  <2> QED
    BY <1>20, <2>1 DEF TypeOK, HookFlush
<1>21. CASE UNCHANGED vars
    BY <1>21 DEF TypeOK, vars
<1> QED
    BY <1>1, <1>2, <1>3, <1>4, <1>5, <1>6, <1>7, <1>8, <1>9, <1>10, <1>11, <1>12, <1>13, <1>14,
       <1>15, <1>16, <1>17, <1>18, <1>19, <1>20, <1>21, <1>22, <1>23, <1>24
    DEF Next, AppStep, WriterStep, Flush, WriteFail

\* The steps that leave the channel, the requests and the lines alone.
Quiet == UNCHANGED <<app, mark, chan, sent, got, buf, cur, home>>

LEMMA QuietSteps ==
    ASSUME DropSink \/ ExternalMove \/ Tick \/ HandlerDone \/ Open \/ OpenFailed \/ Stat
             \/ StatPanic \/ Check \/ Rename \/ RenamePanic \/ Drained \/ Timeout
             \/ Disconnected \/ FlushNoFile \/ Exit \/ UNCHANGED vars
    PROVE  Quiet
BY DEF DropSink, ExternalMove, Tick, HandlerDone, Open, OpenFailed, Stat, StatPanic, Check,
       Rename, RenamePanic, Drained, Timeout, Disconnected, FlushNoFile, Exit, vars, Quiet,
       requests, control, buffer, handle, disk

LEMMA LinesQueuedStep == IInv /\ [Next]_vars => LinesQueued'
<1> SUFFICES ASSUME IInv, [Next]_vars PROVE LinesQueued'
    OBVIOUS
<1> USE BoundsAssumption, SizesAssumption
<1> USE DEF IInv, requests, control, buffer, handle, disk
\* A line enters the channel with the next number.
<1>1. ASSUME NEW n \in Sizes, chan' = Enqueue(LineMsg(sent + 1, n)), sent' = sent + 1,
             sent < MaxLines, got' = got, pc # "dead"
      PROVE  LinesQueued'
  <2>1. chan \in Seq(Message) /\ LineMsg(sent + 1, n) \in Message
    BY MessageTypes DEF TypeOK
  <2> DEFINE m == LineMsg(sent + 1, n)
  <2>2. /\ Len(chan') = Len(chan) + 1 /\ Len(chan) \in Nat
        /\ \A k \in 1..Len(chan) : chan'[k] = chan[k]
        /\ chan'[Len(chan) + 1] = m
        /\ m.kind = "line" /\ m.id = sent + 1
    BY <1>1, <2>1, EnqueueFacts DEF LineMsg
  <2>7. sent \in Nat /\ got \in Nat /\ \A k \in 1..Len(chan) : chan[k].id \in Nat
    <3>1. sent \in Nat /\ got \in Nat /\ chan \in Seq(Message)
      BY DEF TypeOK
    <3> HIDE DEF IInv
    <3> QED BY <3>1, ChanElements
  <2>3. ASSUME NEW i \in Lines, got' < i, i <= sent' PROVE InChan(i)'
    <3>1. CASE i = sent + 1
      BY <2>2, <3>1 DEF InChan
    <3>2. CASE i <= sent
      BY <1>1, <2>2, <2>3, <3>2 DEF InChan, LinesQueued
    <3> QED BY <1>1, <2>3, <3>1, <3>2 DEF TypeOK, Lines
  <2>4. got' <= sent'
    BY <1>1 DEF LinesQueued, TypeOK
  <2>5. ASSUME NEW k \in 1..Len(chan'), chan'[k].kind = "line"
        PROVE  got' < chan'[k].id /\ chan'[k].id <= sent'
    BY <1>1, <2>2, <2>5, <2>7 DEF LinesQueued
  <2>6. ASSUME NEW k \in 1..Len(chan'), NEW l \in 1..Len(chan'),
               chan'[k].kind = "line", chan'[l].kind = "line", k < l
        PROVE  chan'[k].id < chan'[l].id
    <3>1. CASE l = Len(chan) + 1
      BY <2>2, <2>6, <2>7, <3>1 DEF LinesQueued
    <3>2. CASE l \in 1..Len(chan)
      BY <2>2, <2>6, <3>2 DEF LinesQueued
    <3> QED BY <2>2, <3>1, <3>2
  <2> QED BY <2>3, <2>4, <2>5, <2>6 DEF LinesQueued
\* Another message changes nothing for the lines.
<1>2. ASSUME NEW m \in Message, m.kind # "line", chan' = Enqueue(m),
             sent' = sent, got' = got, pc # "dead"
      PROVE  LinesQueued'
  <2>2. /\ Len(chan') = Len(chan) + 1 /\ Len(chan) \in Nat
        /\ \A k \in 1..Len(chan) : chan'[k] = chan[k]
        /\ chan'[Len(chan) + 1] = m
    BY <1>2, EnqueueFacts DEF TypeOK
  <2>3. \A i \in Lines : InChan(i) => InChan(i)'
    BY <2>2 DEF InChan
  <2> QED
    BY <1>2, <2>2, <2>3 DEF LinesQueued
\* The first message leaves the channel; if it is a line, it is got + 1.
<1>3. ASSUME Take, sent' = sent,
             IF Head(chan).kind = "line" THEN got' = Head(chan).id ELSE got' = got
      PROVE  LinesQueued'
  <2>1. /\ Len(chan) \in Nat \ {0} /\ Len(chan') = Len(chan) - 1
        /\ \A k \in 1..Len(chan) - 1 : chan'[k] = chan[k + 1]
        /\ Head(chan) = chan[1]
    BY <1>3, TakeFacts DEF TypeOK, Take
  <2>6. /\ sent \in Nat /\ got \in Nat
        /\ \A k \in 1..Len(chan) : chan[k].id \in Nat
        /\ got <= got' /\ got' \in Nat
    BY <1>3, <2>1, ChanElements DEF TypeOK, LinesQueued
  <2>2. ASSUME NEW i \in Lines, got' < i, i <= sent PROVE InChan(i)'
    <3>4. got < i /\ i <= sent /\ pc # "dead"
      BY <1>3, <2>2, <2>6 DEF Take, Lines
    <3>1. PICK k \in 1..Len(chan) : chan[k].kind = "line" /\ chan[k].id = i
      BY <3>4 DEF LinesQueued, InChan
    <3>2. k # 1
      BY <1>3, <2>1, <2>2, <3>1 DEF Lines
    <3>3. k - 1 \in 1..Len(chan') /\ chan'[k - 1] = chan[k]
      BY <2>1, <3>2
    <3> QED BY <3>1, <3>3 DEF InChan
  <2>3. got <= got' /\ got' <= sent
    BY <1>3, <2>1, <2>6 DEF LinesQueued
  <2>4. ASSUME NEW k \in 1..Len(chan'), chan'[k].kind = "line"
        PROVE  got' < chan'[k].id /\ chan'[k].id <= sent'
    BY <1>3, <2>1, <2>4 DEF LinesQueued
  <2>5. ASSUME NEW k \in 1..Len(chan'), NEW l \in 1..Len(chan'),
               chan'[k].kind = "line", chan'[l].kind = "line", k < l
        PROVE  chan'[k].id < chan'[l].id
    <3>1. k + 1 \in 1..Len(chan) /\ l + 1 \in 1..Len(chan) /\ k + 1 < l + 1
      BY <2>1, <2>5
    <3>2. chan'[k] = chan[k + 1] /\ chan'[l] = chan[l + 1]
      BY <2>1, <2>5
    <3> QED BY <2>5, <3>1, <3>2 DEF LinesQueued
  <2> QED BY <1>3, <2>2, <2>3, <2>4, <2>5 DEF LinesQueued
<1>4. ASSUME NEW t \in Threads, SendLine(t) PROVE LinesQueued'
    BY <1>1, <1>4 DEF SendLine, Room
<1>5. CASE SendReopen \/ HookFlush \/ \E t \in Threads : SendFlush(t)
    BY <1>2, <1>5, MessageTypes DEF SendReopen, HookFlush, SendFlush, Room, ReopenMsg, FlushMsg
<1>6. CASE HookLog
  <2>1. CASE sent < MaxLines
    BY <1>1, <1>6, <2>1 DEF HookLog
  <2>2. CASE ~(sent < MaxLines)
    BY <1>6, <2>2 DEF HookLog, LinesQueued, InChan
  <2> QED BY <2>1, <2>2
<1>7. CASE TakeLine \/ TakeReopen \/ TakeFlush
    BY <1>3, <1>7 DEF TakeLine, TakeReopen, TakeFlush
<1>8. CASE Unwind
    BY <1>8 DEF Unwind, LinesQueued, TypeOK
<1>9. CASE \/ AppendLine \/ Flush \/ WriteFail \/ Ack
           \/ \E t \in Threads : CallLog(t) \/ CallFlush(t) \/ SendFails(t)
    BY <1>9 DEF AppendLine, Flush, WriteFail, Write, Ack, CallLog, CallFlush, SendFails,
                LinesQueued, InChan
<1>10. CASE Quiet /\ (pc = "dead" => pc' = "dead")
    BY <1>10 DEF Quiet, LinesQueued, InChan
<1>11. ASSUME DropSink \/ ExternalMove \/ Tick \/ HandlerDone \/ Open \/ OpenFailed \/ Stat
             \/ StatPanic \/ Check \/ Rename \/ RenamePanic \/ Drained \/ Timeout
             \/ Disconnected \/ FlushNoFile \/ Exit \/ UNCHANGED vars
       PROVE  pc = "dead" => pc' = "dead"
    BY <1>11 DEF DropSink, ExternalMove, Tick, HandlerDone, Open, OpenFailed, Stat, StatPanic,
       Check, Rename, RenamePanic, Drained, Timeout, Disconnected, FlushNoFile, Exit, vars
<1> QED
    BY <1>4, <1>5, <1>6, <1>7, <1>8, <1>9, <1>10, <1>11, QuietSteps
    DEF Next, AppStep, WriterStep

LEMMA LineInHandStep == IInv /\ [Next]_vars => LineInHand'
<1> SUFFICES ASSUME IInv, [Next]_vars PROVE LineInHand'
    OBVIOUS
<1> USE DEF IInv, requests, control, buffer, handle, disk, Calling, Panicking
<1>1. CASE TakeLine
  <2>1. Head(chan).id # 0
    BY <1>1, TakeFacts DEF TakeLine, Take, TypeOK, LinesQueued
  <2> QED BY <1>1, <2>1 DEF TakeLine, Take, LineInHand
<1>2. CASE TakeReopen \/ TakeFlush
    BY <1>2 DEF TakeReopen, TakeFlush, Take, LineInHand
<1>3. CASE AppendLine
    BY <1>3 DEF AppendLine, NoLine, LineInHand
<1>4. CASE OpenFailed \/ Stat \/ FlushNoFile
  <2>1. Return /\ cur' = cur /\ pc \in Calling
    BY <1>4 DEF OpenFailed, Stat, FlushNoFile
  <2> QED BY <2>1 DEF Return, After, TypeOK, LineInHand
<1>5. CASE Check
    BY <1>5 DEF Check, Return, After, TypeOK, LineInHand
<1>6. CASE Open \/ StatPanic \/ Rename \/ RenamePanic \/ Flush \/ WriteFail
    BY <1>6 DEF Open, StatPanic, Rename, RenamePanic, Flush, WriteFail, Write, LineInHand
<1>7. CASE Drained \/ Timeout \/ Disconnected \/ Ack \/ Exit \/ Unwind \/ HookLog \/ HookFlush
    BY <1>7 DEF Drained, Timeout, Disconnected, Ack, Exit, Unwind, HookLog, HookFlush, LineInHand
<1>8. CASE AppStep \/ HandlerDone \/ UNCHANGED vars
  <2>1. UNCHANGED <<pc, caller, cur>>
    BY <1>8 DEF AppStep, CallLog, CallFlush, SendLine, SendFlush, SendFails, SendReopen,
                DropSink, ExternalMove, Tick, HandlerDone, vars
  <2> QED BY <2>1 DEF LineInHand
<1> QED
    BY <1>1, <1>2, <1>3, <1>4, <1>5, <1>6, <1>7, <1>8 DEF Next, WriterStep

LEMMA LinesReceivedStep == IInv /\ [Next]_vars => LinesReceived'
<1> SUFFICES ASSUME IInv, [Next]_vars PROVE LinesReceived'
    OBVIOUS
<1> USE BoundsAssumption
<1> USE DEF IInv, requests, control, buffer, handle, disk
<1>1. CASE TakeLine
  <2>1. cur.id = 0
    BY <1>1 DEF TakeLine, Take, LineInHand, Calling, Panicking
  <2>2. /\ Len(chan) \in Nat \ {0} /\ Head(chan) = chan[1] /\ 1 \in 1..Len(chan)
        /\ got < chan[1].id /\ chan[1].id <= sent /\ sent \in 0..MaxLines /\ got \in Nat
        /\ \A k \in 1..Len(chan) : chan[k].id \in Nat
    BY <1>1, TakeFacts, ChanElements DEF TakeLine, Take, TypeOK, LinesQueued
  <2>3. ASSUME NEW i \in Lines, got < i, i < chan[1].id PROVE FALSE
    <3>1. PICK k \in 1..Len(chan) : chan[k].kind = "line" /\ chan[k].id = i
      BY <1>1, <2>2, <2>3 DEF TakeLine, Take, LinesQueued, InChan, Lines
    <3>2. k > 1
      BY <2>2, <2>3, <3>1
    <3> QED BY <1>1, <2>2, <2>3, <3>1, <3>2 DEF TakeLine, LinesQueued
  <2>4. ASSUME NEW i \in Lines, i <= got' PROVE Out(i)' \/ i \in buf' \/ cur'.id = i
    <3>1. CASE i <= got
      BY <1>1, <2>1, <3>1 DEF TakeLine, LinesReceived, Out, Lines
    <3>2. CASE got < i
      BY <1>1, <2>2, <2>3, <2>4, <3>2 DEF TakeLine, Lines
    <3> QED BY <2>2, <3>1, <3>2 DEF Lines
  <2> QED BY <2>4 DEF LinesReceived
<1>2. CASE AppendLine
    BY <1>2 DEF AppendLine, LinesReceived, Out
<1>3. ASSUME NEW ok \in BOOLEAN, Write(ok) PROVE LinesReceived'
    BY <1>3 DEF Write, LinesReceived, Out
<1>4. CASE UNCHANGED <<got, buf, home, cur>>
    BY <1>4 DEF LinesReceived, Out
<1>5. ASSUME AppStep \/ HandlerDone \/ UNCHANGED vars PROVE UNCHANGED <<got, buf, home, cur>>
    BY <1>5 DEF AppStep, CallLog, CallFlush, SendLine, SendFlush, SendFails, SendReopen,
                DropSink, ExternalMove, Tick, HandlerDone, vars
<1>6. ASSUME \/ Open \/ OpenFailed \/ Stat \/ StatPanic \/ Check \/ Rename \/ RenamePanic
             \/ TakeReopen \/ TakeFlush \/ Drained \/ Timeout \/ Disconnected \/ FlushNoFile
             \/ Ack \/ Exit \/ Unwind \/ HookLog \/ HookFlush
      PROVE  UNCHANGED <<got, buf, home, cur>>
    BY <1>6 DEF Open, OpenFailed, Stat, StatPanic, Check, Rename, RenamePanic, TakeReopen,
                TakeFlush, Drained, Timeout, Disconnected, FlushNoFile, Ack, Exit, Unwind,
                HookLog, HookFlush
<1> QED
    BY <1>1, <1>2, <1>3, <1>4, <1>5, <1>6 DEF Next, WriterStep, Flush, WriteFail

LEMMA RequestsQueuedStep == IInv /\ [Next]_vars => RequestsQueued'
<1> SUFFICES ASSUME IInv, [Next]_vars PROVE RequestsQueued'
    OBVIOUS
<1> USE ThreadsAssumption, BoundsAssumption, SizesAssumption
<1> USE DEF IInv, requests, control, buffer, handle, disk
<1>0. /\ chan \in Seq(Message) /\ Len(chan) \in Nat /\ sent \in 0..MaxLines /\ got \in 0..MaxLines
      /\ \A k \in 1..Len(chan) : chan[k].id \in Nat /\ chan[k].by \in Threads \cup {0}
      /\ app \in [Threads -> {"idle", "line", "flush", "waiting"}]
      /\ mark \in [Threads -> 0..MaxLines]
    BY ChanElements DEF TypeOK
\* A new line stands behind every request.
<1>1. ASSUME NEW n \in Sizes, chan' = Enqueue(LineMsg(sent + 1, n)), sent' = sent + 1, mark' = mark,
             \A u \in Threads : app[u] = "waiting" => app'[u] = "waiting"
      PROVE  RequestsQueued'
  <2> DEFINE m == LineMsg(sent + 1, n)
  <2>1. /\ Len(chan') = Len(chan) + 1
        /\ \A k \in 1..Len(chan) : chan'[k] = chan[k]
        /\ chan'[Len(chan) + 1] = m
        /\ m.kind = "line" /\ m.id = sent + 1
    BY <1>0, <1>1, MessageTypes, EnqueueFacts DEF LineMsg
  <2>2. ASSUME NEW k \in 1..Len(chan'), chan'[k].kind = "flush", chan'[k].by # 0
        PROVE  k \in 1..Len(chan) /\ chan'[k] = chan[k] /\ chan[k].by \in Threads
    BY <1>0, <2>1, <2>2
  <2>3. ASSUME NEW k \in 1..Len(chan'), chan'[k].kind = "flush", chan'[k].by # 0,
               NEW l \in 1..Len(chan'), chan'[l].kind = "line"
        PROVE  l < k <=> chan'[l].id <= mark'[chan'[k].by]
    <3>1. CASE l \in 1..Len(chan)
      BY <1>1, <2>1, <2>2, <2>3, <3>1 DEF RequestsQueued
    <3>2. CASE l = Len(chan) + 1
      <4>1. mark[chan[k].by] \in 0..MaxLines /\ mark[chan[k].by] <= sent
        BY <1>0, <2>2, <2>3 DEF RequestsQueued
      <4> QED BY <1>0, <1>1, <2>1, <2>2, <2>3, <3>2, <4>1
    <3> QED BY <1>0, <2>1, <3>1, <3>2
  <2>4. ASSUME NEW k \in 1..Len(chan'), chan'[k].kind = "flush", chan'[k].by # 0,
               NEW l \in 1..Len(chan'), chan'[l].kind = "flush", chan'[l].by = chan'[k].by
        PROVE  l = k
    BY <1>0, <2>1, <2>2, <2>4 DEF RequestsQueued
  <2>5. ASSUME NEW k \in 1..Len(chan'), chan'[k].kind = "flush", chan'[k].by # 0
        PROVE  app'[chan'[k].by] = "waiting" /\ mark'[chan'[k].by] <= sent'
    <3>1. mark[chan[k].by] \in 0..MaxLines /\ mark[chan[k].by] <= sent /\ app[chan[k].by] = "waiting"
      BY <1>0, <2>2, <2>5 DEF RequestsQueued
    <3> QED BY <1>0, <1>1, <2>2, <2>5, <3>1
  <2> QED BY <2>3, <2>4, <2>5 DEF RequestsQueued
\* A new request stands behind every line sent so far.
<1>2. ASSUME NEW t \in Threads, SendFlush(t) PROVE RequestsQueued'
  <2>1. /\ Len(chan') = Len(chan) + 1
        /\ \A k \in 1..Len(chan) : chan'[k] = chan[k]
        /\ chan'[Len(chan) + 1] = FlushMsg(t)
        /\ FlushMsg(t).kind = "flush" /\ FlushMsg(t).by = t
    BY <1>0, <1>2, MessageTypes, EnqueueFacts DEF FlushMsg, SendFlush
  <2>2. ASSUME NEW k \in 1..Len(chan), chan[k].kind = "flush", chan[k].by # 0
        PROVE  /\ chan[k].by # t /\ chan[k].by \in Threads
               /\ app'[chan[k].by] = "waiting" /\ mark'[chan[k].by] = mark[chan[k].by]
    BY <1>0, <1>2, <2>2 DEF SendFlush, RequestsQueued
  <2>3. ASSUME NEW k \in 1..Len(chan'), chan'[k].kind = "flush", chan'[k].by # 0
        PROVE  app'[chan'[k].by] = "waiting" /\ mark'[chan'[k].by] <= sent'
    BY <1>0, <1>2, <2>1, <2>2, <2>3 DEF SendFlush, RequestsQueued
  <2>4. ASSUME NEW k \in 1..Len(chan'), chan'[k].kind = "flush", chan'[k].by # 0,
               NEW l \in 1..Len(chan'), chan'[l].kind = "line"
        PROVE  l < k <=> chan'[l].id <= mark'[chan'[k].by]
    <3>1. l \in 1..Len(chan) /\ chan'[l] = chan[l]
      BY <1>0, <2>1, <2>4
    <3>2. CASE k \in 1..Len(chan)
      BY <2>1, <2>2, <2>4, <3>1, <3>2 DEF RequestsQueued
    <3>3. CASE k = Len(chan) + 1
      <4>1. chan[l].id <= sent /\ mark'[t] = sent
        BY <1>0, <1>2, <2>4, <3>1 DEF SendFlush, LinesQueued
      <4> QED BY <1>0, <2>1, <3>1, <3>3, <4>1
    <3> QED BY <1>0, <2>1, <3>2, <3>3
  <2>5. ASSUME NEW k \in 1..Len(chan'), chan'[k].kind = "flush", chan'[k].by # 0,
               NEW l \in 1..Len(chan'), chan'[l].kind = "flush", chan'[l].by = chan'[k].by
        PROVE  l = k
    <3>1. CASE k \in 1..Len(chan) /\ l \in 1..Len(chan)
      BY <2>1, <2>5, <3>1 DEF RequestsQueued
    <3>2. CASE k = Len(chan) + 1
      <4>1. chan'[l].by = t /\ t # 0
        BY <2>1, <2>5, <3>2
      <4>2. l \notin 1..Len(chan)
        BY <2>1, <2>2, <2>5, <4>1
      <4> QED BY <1>0, <2>1, <3>2, <4>2
    <3>3. CASE l = Len(chan) + 1
      <4>1. chan'[k].by = t /\ t # 0
        BY <2>1, <2>5, <3>3
      <4>2. k \notin 1..Len(chan)
        BY <2>1, <2>2, <2>5, <4>1
      <4> QED BY <1>0, <2>1, <3>3, <4>2
    <3> QED BY <1>0, <2>1, <3>1, <3>2, <3>3
  <2> QED BY <2>3, <2>4, <2>5 DEF RequestsQueued
\* A message that is neither.
<1>3. ASSUME NEW m \in Message, m.kind # "line", m.by = 0, chan' = Enqueue(m),
             UNCHANGED <<app, mark, sent>>
      PROVE  RequestsQueued'
  <2>1. /\ Len(chan') = Len(chan) + 1
        /\ \A k \in 1..Len(chan) : chan'[k] = chan[k]
        /\ chan'[Len(chan) + 1] = m
    BY <1>0, <1>3, EnqueueFacts
  <2>2. ASSUME NEW k \in 1..Len(chan'), chan'[k].kind = "line" \/ chan'[k].by # 0
        PROVE  k \in 1..Len(chan) /\ chan'[k] = chan[k]
    BY <1>0, <1>3, <2>1, <2>2
  <2>3. ASSUME NEW k \in 1..Len(chan'), chan'[k].kind = "flush", chan'[k].by # 0
        PROVE  /\ app'[chan'[k].by] = "waiting" /\ mark'[chan'[k].by] <= sent'
               /\ \A l \in 1..Len(chan') : chan'[l].kind = "line" =>
                        (l < k <=> chan'[l].id <= mark'[chan'[k].by])
               /\ \A l \in 1..Len(chan') : chan'[l].kind = "flush" /\ chan'[l].by = chan'[k].by
                        => l = k
    BY <1>3, <2>2, <2>3 DEF RequestsQueued
  <2> QED BY <2>3 DEF RequestsQueued
\* The first message leaves.
<1>4. ASSUME Take, UNCHANGED <<app, mark, sent>> PROVE RequestsQueued'
  <2>1. /\ Len(chan') = Len(chan) - 1
        /\ \A k \in 1..Len(chan') : k + 1 \in 1..Len(chan) /\ chan'[k] = chan[k + 1]
    BY <1>0, <1>4, TakeFacts DEF Take
  <2>2. ASSUME NEW k \in 1..Len(chan'), chan'[k].kind = "flush", chan'[k].by # 0
        PROVE  /\ app'[chan'[k].by] = "waiting" /\ mark'[chan'[k].by] <= sent'
               /\ \A l \in 1..Len(chan') : chan'[l].kind = "line" =>
                        (l + 1 < k + 1 <=> chan'[l].id <= mark'[chan'[k].by])
               /\ \A l \in 1..Len(chan') : chan'[l].kind = "flush" /\ chan'[l].by = chan'[k].by
                        => l + 1 = k + 1
    <3>1. k + 1 \in 1..Len(chan) /\ chan[k + 1].kind = "flush" /\ chan[k + 1].by # 0
      BY <2>1, <2>2
    <3>2. /\ app[chan[k + 1].by] = "waiting" /\ mark[chan[k + 1].by] <= sent
          /\ \A l \in 1..Len(chan) : chan[l].kind = "line" =>
                    (l < k + 1 <=> chan[l].id <= mark[chan[k + 1].by])
          /\ \A l \in 1..Len(chan) : chan[l].kind = "flush" /\ chan[l].by = chan[k + 1].by
                    => l = k + 1
      BY <3>1 DEF RequestsQueued
    <3> QED BY <1>4, <2>1, <3>2
  <2>3. \A k, l \in 1..Len(chan') : (l + 1 < k + 1 <=> l < k) /\ (l + 1 = k + 1 => l = k)
    OBVIOUS
  <2> QED BY <2>2, <2>3 DEF RequestsQueued
\* No request of the thread that is answered is left in the channel.
<1>5. CASE Ack
  <2>1. \A k \in 1..Len(chan) : chan[k].kind = "flush" => chan[k].by # acking
    BY <1>5 DEF Ack, RequestInHand
  <2> QED BY <1>0, <1>5, <2>1 DEF Ack, RequestsQueued
<1>6. ASSUME NEW t \in Threads, SendLine(t) PROVE RequestsQueued'
  <2>1. \A u \in Threads : app[u] = "waiting" => app'[u] = "waiting"
    BY <1>0, <1>6 DEF SendLine
  <2> QED BY <1>1, <1>6, <2>1 DEF SendLine
<1>7. CASE HookLog
  <2>1. CASE sent < MaxLines
    BY <1>1, <1>7, <2>1 DEF HookLog
  <2>2. CASE ~(sent < MaxLines)
    BY <1>7, <2>2 DEF HookLog, RequestsQueued
  <2> QED BY <2>1, <2>2
<1>8. CASE SendReopen \/ HookFlush
    BY <1>3, <1>8, MessageTypes DEF SendReopen, HookFlush, ReopenMsg, FlushMsg
<1>9. CASE TakeLine \/ TakeReopen \/ TakeFlush
    BY <1>4, <1>9 DEF TakeLine, TakeReopen, TakeFlush
<1>10. CASE Unwind
    BY <1>10 DEF Unwind, RequestsQueued
<1>11. ASSUME NEW t \in Threads, CallLog(t) \/ CallFlush(t) \/ SendFails(t) PROVE RequestsQueued'
  <2>1. \A u \in Threads : app[u] = "waiting" => app'[u] = "waiting"
    BY <1>0, <1>11 DEF CallLog, CallFlush, SendFails
  <2>2. UNCHANGED <<chan, mark, sent>>
    BY <1>11 DEF CallLog, CallFlush, SendFails
  <2> QED BY <1>0, <2>1, <2>2 DEF RequestsQueued
<1>12. CASE Quiet \/ AppendLine \/ Flush \/ WriteFail
    BY <1>12 DEF Quiet, AppendLine, Flush, WriteFail, Write, RequestsQueued
<1> QED
    BY <1>2, <1>5, <1>6, <1>7, <1>8, <1>9, <1>10, <1>11, <1>12, QuietSteps
    DEF Next, AppStep, WriterStep

LEMMA RequestInHandStep == IInv /\ [Next]_vars => RequestInHand'
<1> SUFFICES ASSUME IInv, [Next]_vars PROVE RequestInHand'
    OBVIOUS
<1> USE DEF IInv, requests, control, buffer, handle, disk, Calling, Panicking
<1>0. /\ chan \in Seq(Message) /\ Len(chan) \in Nat /\ sent \in 0..MaxLines /\ got \in 0..MaxLines
      /\ \A k \in 1..Len(chan) : chan[k].id \in Nat /\ chan[k].by \in Threads \cup {0}
      /\ app \in [Threads -> {"idle", "line", "flush", "waiting"}]
      /\ mark \in [Threads -> 0..MaxLines]
      /\ caller \in DOMAIN After
  <2>1. /\ chan \in Seq(Message) /\ sent \in 0..MaxLines /\ got \in 0..MaxLines
        /\ app \in [Threads -> {"idle", "line", "flush", "waiting"}]
        /\ mark \in [Threads -> 0..MaxLines]
        /\ caller \in DOMAIN After
    BY DEF TypeOK
  <2> HIDE DEF IInv
  <2> QED BY <2>1, ChanElements
\* The request received was behind its lines, and was the only one of its thread.
<1>1. CASE TakeFlush
  <2>1. /\ chan # <<>> /\ chan' = Tail(chan) /\ pc \in {"recv", "drain"}
        /\ Head(chan).kind = "flush" /\ acking' = Head(chan).by
        /\ pc' = "flush" /\ UNCHANGED <<app, mark, sent, got>>
    BY <1>1 DEF TakeFlush, Take
  <2>2. /\ Len(chan) \in Nat \ {0} /\ Head(chan) = chan[1] /\ 1 \in 1..Len(chan)
        /\ Len(chan') = Len(chan) - 1
        /\ \A k \in 1..Len(chan') : k + 1 \in 1..Len(chan) /\ chan'[k] = chan[k + 1]
    BY <1>0, <2>1, TakeFacts
  <2>3. chan[1].kind = "flush" /\ chan[1].by # 0 /\ chan[1].by \in Threads
    BY <1>0, <2>1, <2>2 DEF OwnRequest
  <2>4. app[chan[1].by] = "waiting" /\ mark[chan[1].by] <= sent
    BY <2>2, <2>3 DEF RequestsQueued
  <2>5. mark[chan[1].by] <= got
    <3>1. SUFFICES ASSUME got < mark[chan[1].by] PROVE FALSE
      BY <1>0, <2>3
    <3>2. got + 1 \in Lines /\ got < got + 1 /\ got + 1 <= sent /\ got + 1 <= mark[chan[1].by]
      BY <1>0, <2>3, <2>4, <3>1, BoundsAssumption DEF Lines
    <3>3. PICK l \in 1..Len(chan) : chan[l].kind = "line" /\ chan[l].id = got + 1
      BY <2>1, <3>2 DEF LinesQueued, InChan
    <3>4. l < 1
      BY <2>2, <2>3, <3>2, <3>3 DEF RequestsQueued
    <3> QED BY <3>4
  <2>6. ASSUME NEW k \in 1..Len(chan'), chan'[k].kind = "flush" PROVE chan'[k].by # chan[1].by
    <3>1. k + 1 \in 1..Len(chan) /\ k + 1 # 1 /\ chan'[k] = chan[k + 1]
      BY <2>2
    <3> QED BY <2>2, <2>3, <2>6, <3>1 DEF RequestsQueued
  <2> QED BY <2>1, <2>2, <2>3, <2>4, <2>5, <2>6 DEF RequestInHand
<1>2. CASE TakeLine \/ TakeReopen
    BY <1>2 DEF TakeLine, TakeReopen, Take, RequestInHand
<1>3. CASE OpenFailed \/ Stat \/ FlushNoFile
  <2>1. Return /\ UNCHANGED <<app, mark, chan, acking, got, buf>> /\ pc \in Calling
    BY <1>3 DEF OpenFailed, Stat, FlushNoFile
  <2>2. caller' = "flush" => caller = "flush" /\ pc' = "wait"
    BY <1>0, <2>1 DEF Return, After
  <2>3. pc = "flush" => f' = 0
    BY <1>3 DEF OpenFailed, Stat, FlushNoFile
  <2> QED BY <2>1, <2>2, <2>3 DEF RequestInHand
<1>4. CASE Check
  <2>1. UNCHANGED <<app, mark, chan, acking, got, buf, f>> /\ pc = "check"
    BY <1>4 DEF Check
  <2>2. caller' = "flush" => caller = "flush" /\ pc' \in {"panic", "rename", "wait"}
    BY <1>0, <1>4 DEF Check, Return, After
  <2> QED BY <2>1, <2>2 DEF RequestInHand
<1>5. CASE Open \/ Rename
  <2>1. /\ UNCHANGED <<caller, app, mark, chan, acking, got, buf, f>>
        /\ pc \in {"open", "rename"} /\ pc' \in {"open", "stat"}
    BY <1>5 DEF Open, Rename
  <2> QED BY <2>1 DEF RequestInHand
<1>6. ASSUME NEW ok \in BOOLEAN, Write(ok) PROVE RequestInHand'
    BY <1>6 DEF Write, RequestInHand
<1>7. CASE StatPanic \/ RenamePanic \/ Drained \/ AppendLine \/ Ack \/ Exit
    BY <1>7 DEF StatPanic, RenamePanic, Drained, AppendLine, Ack, Exit, RequestInHand
<1>8. CASE Timeout \/ Disconnected
    BY <1>8 DEF Timeout, Disconnected, RequestInHand
<1>9. CASE Unwind \/ HookLog \/ HookFlush
    BY <1>9 DEF Unwind, HookLog, HookFlush, RequestInHand
\* What the threads send is not a request of the thread in hand, which waits.
<1>10. ASSUME NEW m \in Message, chan' = Enqueue(m), UNCHANGED <<pc, caller, acking, got, buf, f>>,
              m.kind = "flush" => m.by \in Threads /\ app[m.by] # "waiting",
              \A u \in Threads : app[u] = "waiting" => app'[u] = "waiting" /\ mark'[u] = mark[u]
       PROVE  RequestInHand'
  <2>1. /\ Len(chan') = Len(chan) + 1
        /\ \A k \in 1..Len(chan) : chan'[k] = chan[k]
        /\ chan'[Len(chan) + 1] = m
    BY <1>0, <1>10, EnqueueFacts
  <2>2. ASSUME caller = "flush", pc \in Calling \cup {"wait"}
        PROVE  /\ acking \in Threads /\ app'[acking] = "waiting" /\ mark'[acking] <= got
               /\ \A k \in 1..Len(chan') : chan'[k].kind = "flush" => chan'[k].by # acking
    <3>1. /\ acking \in Threads /\ app[acking] = "waiting" /\ mark[acking] <= got
          /\ \A k \in 1..Len(chan) : chan[k].kind = "flush" => chan[k].by # acking
      BY <2>2 DEF RequestInHand
    <3>2. m.kind = "flush" => m.by # acking
      BY <1>10, <3>1
    <3>3. \A k \in 1..Len(chan') : k \in 1..Len(chan) \/ k = Len(chan) + 1
      BY <1>0, <2>1
    <3> QED BY <1>10, <2>1, <3>1, <3>2, <3>3
  <2> QED BY <1>10, <2>2 DEF RequestInHand
<1>11. ASSUME NEW t \in Threads, SendLine(t) PROVE RequestInHand'
  <2>1. PICK n \in Sizes : chan' = Enqueue(LineMsg(sent + 1, n))
    BY <1>11 DEF SendLine
  <2>2. LineMsg(sent + 1, n) \in Message /\ LineMsg(sent + 1, n).kind # "flush"
    BY SizesAssumption, BoundsAssumption, MessageTypes DEF LineMsg, TypeOK
  <2>3. \A u \in Threads : app[u] = "waiting" => app'[u] = "waiting" /\ mark'[u] = mark[u]
    BY <1>0, <1>11 DEF SendLine
  <2>4. UNCHANGED <<pc, caller, acking, got, buf, f>>
    BY <1>11 DEF SendLine
  <2> QED BY <1>10, <2>1, <2>2, <2>3, <2>4
<1>12. ASSUME NEW t \in Threads, SendFlush(t) PROVE RequestInHand'
  <2>1. FlushMsg(t) \in Message /\ FlushMsg(t).by = t /\ app[t] # "waiting"
    BY <1>12, MessageTypes DEF FlushMsg, SendFlush
  <2>2. \A u \in Threads : app[u] = "waiting" => app'[u] = "waiting" /\ mark'[u] = mark[u]
    BY <1>0, <1>12 DEF SendFlush
  <2> QED BY <1>10, <1>12, <2>1, <2>2 DEF SendFlush
<1>13. CASE SendReopen
  <2>1. ReopenMsg \in Message /\ ReopenMsg.kind # "flush"
    BY MessageTypes DEF ReopenMsg
  <2> QED BY <1>10, <1>13, <2>1 DEF SendReopen
<1>14. ASSUME NEW t \in Threads, CallLog(t) \/ CallFlush(t) \/ SendFails(t) PROVE RequestInHand'
  <2>1. \A u \in Threads : app[u] = "waiting" => app'[u] = "waiting"
    BY <1>0, <1>14 DEF CallLog, CallFlush, SendFails
  <2>2. UNCHANGED <<chan, mark, pc, caller, acking, got, buf, f>>
    BY <1>14 DEF CallLog, CallFlush, SendFails
  <2> QED BY <2>1, <2>2 DEF RequestInHand
<1>15. CASE DropSink \/ ExternalMove \/ Tick \/ HandlerDone \/ UNCHANGED vars
  <2>1. UNCHANGED <<app, mark, chan, pc, caller, acking, got, buf, f>>
    BY <1>15 DEF DropSink, ExternalMove, Tick, HandlerDone, vars
  <2> QED BY <2>1 DEF RequestInHand
<1> QED
    BY <1>1, <1>2, <1>3, <1>4, <1>5, <1>6, <1>7, <1>8, <1>9, <1>11, <1>12, <1>13, <1>14, <1>15
    DEF Next, AppStep, WriterStep, Flush, WriteFail

LEMMA OwnRequestStep == IInv /\ [Next]_vars => OwnRequest'
<1> SUFFICES ASSUME IInv, [Next]_vars PROVE OwnRequest'
    OBVIOUS
<1> USE ThreadsAssumption
<1> USE DEF IInv, requests, control, buffer, handle, disk, Panicking
<1>0. chan \in Seq(Message) /\ Len(chan) \in Nat
    BY DEF TypeOK
<1>1. ASSUME NEW m \in Message, m.kind = "flush" => m.by # 0, chan' = Enqueue(m), pc' = pc
      PROVE  OwnRequest'
  <2>1. /\ Len(chan') = Len(chan) + 1
        /\ \A k \in 1..Len(chan) : chan'[k] = chan[k]
        /\ chan'[Len(chan) + 1] = m
    BY <1>0, <1>1, EnqueueFacts
  <2>2. \A k \in 1..Len(chan') : k \in 1..Len(chan) \/ k = Len(chan) + 1
    BY <1>0, <2>1
  <2> QED BY <1>1, <2>1, <2>2 DEF OwnRequest
<1>2. ASSUME NEW t \in Threads, SendLine(t) PROVE OwnRequest'
  <2>1. PICK n \in Sizes : chan' = Enqueue(LineMsg(sent + 1, n))
    BY <1>2 DEF SendLine
  <2>2. LineMsg(sent + 1, n) \in Message /\ LineMsg(sent + 1, n).kind # "flush"
    BY SizesAssumption, BoundsAssumption, MessageTypes DEF LineMsg, TypeOK
  <2> QED BY <1>1, <1>2, <2>1, <2>2 DEF SendLine
<1>3. ASSUME NEW t \in Threads, SendFlush(t) PROVE OwnRequest'
    BY <1>1, <1>3, MessageTypes DEF SendFlush, FlushMsg
<1>4. CASE SendReopen
    BY <1>1, <1>4, MessageTypes DEF SendReopen, ReopenMsg
<1>5. CASE TakeLine \/ TakeReopen \/ TakeFlush
  <2>1. chan # <<>> /\ chan' = Tail(chan) /\ pc \notin Panicking
    BY <1>5 DEF TakeLine, TakeReopen, TakeFlush, Take
  <2>2. \A k \in 1..Len(chan') : k + 1 \in 1..Len(chan) /\ chan'[k] = chan[k + 1]
    BY <1>0, <2>1, TakeFacts
  <2> QED BY <2>1, <2>2 DEF OwnRequest
<1>6. CASE Unwind
    BY <1>6 DEF Unwind, OwnRequest
<1>7. CASE HookLog \/ HookFlush
    BY <1>7 DEF HookLog, HookFlush, OwnRequest
<1>8. CASE chan' = chan /\ (pc \in Panicking => pc' \in Panicking)
    BY <1>8 DEF OwnRequest
<1>9. ASSUME DropSink \/ ExternalMove \/ Tick \/ HandlerDone \/ UNCHANGED vars
             \/ \E t \in Threads : CallLog(t) \/ CallFlush(t) \/ SendFails(t)
      PROVE  chan' = chan /\ pc' = pc
    BY <1>9 DEF DropSink, ExternalMove, Tick, HandlerDone, vars, CallLog, CallFlush, SendFails
<1>10. ASSUME Open \/ OpenFailed \/ Stat \/ StatPanic \/ Check \/ Rename \/ RenamePanic
              \/ Drained \/ Timeout \/ Disconnected \/ AppendLine \/ Flush \/ WriteFail
              \/ FlushNoFile \/ Ack \/ Exit
       PROVE  chan' = chan /\ pc \notin Panicking
    BY <1>10 DEF Open, OpenFailed, Stat, StatPanic, Check, Rename, RenamePanic, Drained, Timeout,
                 Disconnected, AppendLine, Flush, WriteFail, Write, FlushNoFile, Ack, Exit
<1> QED
    BY <1>2, <1>3, <1>4, <1>5, <1>6, <1>7, <1>8, <1>9, <1>10 DEF Next, AppStep, WriterStep

LEMMA NextInv == IInv /\ [Next]_vars => IInv'
BY TypeStep, LinesQueuedStep, RequestsQueuedStep, LineInHandStep, LinesReceivedStep,
   RequestInHandStep, OwnRequestStep DEF IInv

LEMMA Invariance == Spec => []IInv
BY InitInv, NextInv, PTL DEF Spec

-----------------------------------------------------------------------------
\* Types: whatever the numbers of threads, the sizes and the faults, the state
\* of the sink of buf_file_impl.rs keeps its shape; the channel never holds
\* more than its capacity.
THEOREM TypeCorrect == Spec => []TypeOK
<1>1. IInv => TypeOK
    BY DEF IInv
<1> QED BY <1>1, Invariance, PTL

\* When log_writer is about to complete the Once of a flush request, every line
\* sent before the request has left memory, unless the sink has no file.
FlushBarrier ==
    \A t \in Threads :
        pc = "wait" /\ caller = "flush" /\ acking = t =>
            /\ app[t] = "waiting"
            /\ f # 0 => \A i \in 1..mark[t] : Out(i)

LEMMA BarrierFromInv == IInv => FlushBarrier
<1> SUFFICES ASSUME IInv, NEW t \in Threads, pc = "wait", caller = "flush", acking = t
             PROVE  app[t] = "waiting" /\ (f # 0 => \A i \in 1..mark[t] : Out(i))
    BY DEF FlushBarrier
<1>1. /\ app[t] = "waiting" /\ mark[t] <= got /\ (f = 0 \/ buf = {})
    BY DEF IInv, RequestInHand, Calling
<1>2. ASSUME f # 0, NEW i \in 1..mark[t] PROVE Out(i)
  <2>1. mark[t] \in 0..MaxLines /\ got \in 0..MaxLines /\ MaxLines \in Nat
    BY BoundsAssumption DEF IInv, TypeOK
  <2>2. i \in Lines /\ i <= got /\ i # 0
    BY <1>1, <2>1 DEF Lines
  <2>3. cur.id = 0
    BY DEF IInv, LineInHand, Calling, Panicking
  <2> QED BY <1>1, <1>2, <2>2, <2>3 DEF IInv, LinesReceived
<1> QED BY <1>1, <1>2

\* Only Ack lets a waiting thread go.
LEMMA ReturnFromInv == IInv /\ [Next]_vars =>
    \A t \in Threads : app[t] = "waiting" /\ app'[t] # "waiting" =>
        /\ f # 0 => \A i \in 1..mark[t] : Out(i)
        /\ hpc = "none"
<1> SUFFICES ASSUME IInv, [Next]_vars, NEW t \in Threads, app[t] = "waiting", app'[t] # "waiting"
             PROVE  (f # 0 => \A i \in 1..mark[t] : Out(i)) /\ hpc = "none"
    OBVIOUS
<1> USE DEF requests, control, buffer, handle, disk
<1>0. app \in [Threads -> {"idle", "line", "flush", "waiting"}]
    BY DEF IInv, TypeOK
<1>1. CASE Ack
  <2>1. acking = t
    BY <1>0, <1>1 DEF Ack
  <2> QED BY <1>1, <2>1, BarrierFromInv DEF Ack, FlushBarrier
<1>2. ASSUME NEW u \in Threads, CallLog(u) \/ CallFlush(u) \/ SendLine(u) \/ SendFlush(u) \/ SendFails(u)
      PROVE  FALSE
    BY <1>0, <1>2 DEF CallLog, CallFlush, SendLine, SendFlush, SendFails
<1>3. ASSUME app' = app PROVE FALSE
    BY <1>3
<1>4. ASSUME SendReopen \/ HookLog \/ HookFlush \/ Unwind \/ AppendLine \/ Flush \/ WriteFail
             \/ TakeLine \/ TakeReopen \/ TakeFlush
      PROVE  app' = app
    BY <1>4 DEF SendReopen, HookLog, HookFlush, Unwind, AppendLine, Flush, WriteFail, Write,
                TakeLine, TakeReopen, TakeFlush
<1> QED BY <1>1, <1>2, <1>3, <1>4, QuietSteps DEF Next, AppStep, WriterStep, Quiet

\* flush() as its caller sees it: when it returns, every line sent before it
\* has left memory, unless the sink has no file, and no thread of
\* handle_old_files is at work.
THEOREM FlushedOnReturnHolds == Spec => FlushedOnReturn
<1>1. IInv /\ [Next]_vars => [\A t \in Threads : app[t] = "waiting" /\ app'[t] # "waiting" =>
                                /\ f # 0 => \A i \in 1..mark[t] : Out(i)
                                /\ hpc = "none"]_vars
    BY ReturnFromInv
<1> QED BY <1>1, Invariance, PTL DEF Spec, FlushedOnReturn

-----------------------------------------------------------------------------
\* Where the lines are. The writer has taken lines 1 to got; all but the one in
\* its hand are out of memory, the older ones, or in the buffer, the newer ones.
Held == IF cur.id = 0 THEN got ELSE got - 1
OutUpTo(n) == \A i \in Lines : /\ Out(i) <=> i <= n
                               /\ i \in buf <=> n < i /\ i <= Held
LeftInOrder == /\ cur.id # 0 => cur.id = got
               /\ \E n \in 0..Held : OutUpTo(n)

\* The file under the log's name is the newest; the writer's is not older than
\* any file it has written to.
NewestOpen == /\ log # 0 => log = files
              /\ f <= opened /\ opened <= files
              /\ \A i \in Lines : home[i] <= f

PlaceInv == LeftInOrder /\ NewestOpen /\ InOrder

LEMMA HeldType == IInv /\ LeftInOrder => Held \in 0..MaxLines /\ got \in 0..MaxLines
BY BoundsAssumption DEF IInv, TypeOK, LeftInOrder, Held

\* The lines are received one by one.
LEMMA NextReceived ==
    ASSUME IInv, TakeLine
    PROVE  cur.id = 0 /\ got' = got + 1 /\ cur'.id = got + 1
<1> USE DEF IInv
<1>1. cur.id = 0
    BY DEF TakeLine, Take, LineInHand, Calling, Panicking
<1>2. /\ Len(chan) \in Nat \ {0} /\ Head(chan) = chan[1] /\ 1 \in 1..Len(chan)
      /\ got < chan[1].id /\ chan[1].id <= sent /\ sent \in 0..MaxLines /\ got \in Nat
      /\ \A k \in 1..Len(chan) : chan[k].id \in Nat
    BY TakeFacts, ChanElements, BoundsAssumption DEF TakeLine, Take, TypeOK, LinesQueued
<1>3. ASSUME got + 1 < chan[1].id PROVE FALSE
  <2>1. got + 1 \in Lines /\ got < got + 1 /\ got + 1 <= sent /\ pc # "dead"
    BY <1>2, <1>3, BoundsAssumption DEF Lines, TakeLine, Take
  <2>2. PICK k \in 1..Len(chan) : chan[k].kind = "line" /\ chan[k].id = got + 1
    BY <2>1 DEF LinesQueued, InChan
  <2>3. k > 1
    BY <1>2, <1>3, <2>2
  <2>4. chan[1].id < chan[k].id
    BY <1>2, <2>2, <2>3 DEF TakeLine, LinesQueued
  <2> QED BY <1>2, <1>3, <2>2, <2>4
<1>4. chan[1].id = got + 1
    BY <1>2, <1>3
<1> QED BY <1>1, <1>2, <1>4 DEF TakeLine

\* The steps that move no line between the hand, the buffer and the disk.
LEMMA NoLineMoves ==
    ASSUME \/ AppStep \/ HandlerDone \/ UNCHANGED vars
           \/ Open \/ OpenFailed \/ Stat \/ StatPanic \/ Check \/ Rename \/ RenamePanic
           \/ TakeReopen \/ TakeFlush \/ Drained \/ Timeout \/ Disconnected \/ FlushNoFile
           \/ Ack \/ Exit \/ Unwind \/ HookLog \/ HookFlush
    PROVE  UNCHANGED <<got, buf, home, cur>>
<1> USE DEF requests, control, buffer, handle, disk
<1>1. ASSUME AppStep \/ HandlerDone \/ UNCHANGED vars PROVE UNCHANGED <<got, buf, home, cur>>
    BY <1>1 DEF AppStep, CallLog, CallFlush, SendLine, SendFlush, SendFails, SendReopen,
                DropSink, ExternalMove, Tick, HandlerDone, vars
<1>2. ASSUME \/ Open \/ OpenFailed \/ Stat \/ StatPanic \/ Check \/ Rename \/ RenamePanic
             \/ TakeReopen \/ TakeFlush \/ Drained \/ Timeout \/ Disconnected \/ FlushNoFile
             \/ Ack \/ Exit \/ Unwind \/ HookLog \/ HookFlush
      PROVE  UNCHANGED <<got, buf, home, cur>>
    BY <1>2 DEF Open, OpenFailed, Stat, StatPanic, Check, Rename, RenamePanic, TakeReopen,
                TakeFlush, Drained, Timeout, Disconnected, FlushNoFile, Ack, Exit, Unwind,
                HookLog, HookFlush
<1> QED BY <1>1, <1>2

\* What a write does to the lines: all the lines held are out.
LEMMA WriteFacts ==
    ASSUME IInv, PlaceInv, NEW ok \in BOOLEAN, Write(ok)
    PROVE  /\ Held' = Held /\ cur' = cur /\ got' = got /\ buf' = {}
           /\ \A i \in Lines : /\ Out(i)' <=> i <= Held
                               /\ i \in buf => ~Out(i) /\ home'[i] = IF ok THEN f ELSE -1
                               /\ i \notin buf => home'[i] = home[i]
<1> USE DEF IInv, PlaceInv
<1>1. /\ cur' = cur /\ got' = got /\ buf' = {} /\ f # 0
      /\ home' = [i \in Lines |-> IF i \in buf THEN (IF ok THEN f ELSE -1) ELSE home[i]]
    BY DEF Write, control
<1>2. PICK n \in 0..Held : OutUpTo(n)
    BY DEF LeftInOrder
<1>3. Held \in 0..MaxLines /\ MaxLines \in Nat
    BY HeldType, BoundsAssumption
<1>4. ASSUME NEW i \in Lines
      PROVE  /\ Out(i)' <=> i <= Held
             /\ i \in buf => ~Out(i) /\ home'[i] = IF ok THEN f ELSE -1
             /\ i \notin buf => home'[i] = home[i]
  <2>1. /\ i \in buf => home'[i] = IF ok THEN f ELSE -1
        /\ i \notin buf => home'[i] = home[i]
    BY <1>1
  <2>2. Out(i)' <=> Out(i) \/ i \in buf
    BY <1>1, <2>1 DEF Out
  <2>3. (Out(i) <=> i <= n) /\ (i \in buf <=> n < i /\ i <= Held)
    BY <1>2 DEF OutUpTo
  <2>4. i \in Nat
    BY DEF Lines
  <2> QED BY <1>3, <2>1, <2>2, <2>3, <2>4
<1> QED BY <1>1, <1>4 DEF Held

LEMMA LeftInOrderStep == IInv /\ PlaceInv /\ [Next]_vars => LeftInOrder'
<1> SUFFICES ASSUME IInv, PlaceInv, [Next]_vars PROVE LeftInOrder'
    OBVIOUS
<1> USE BoundsAssumption DEF IInv, PlaceInv
<1>0. PICK n \in 0..Held : OutUpTo(n)
    BY DEF LeftInOrder
<1>1. CASE TakeLine
  <2>1. cur.id = 0 /\ got' = got + 1 /\ cur'.id = got + 1 /\ UNCHANGED <<buf, home>> /\ got \in Nat
    <3>1. cur.id = 0 /\ got' = got + 1 /\ cur'.id = got + 1 /\ got \in Nat
      BY <1>1, NextReceived DEF TypeOK
    <3> HIDE DEF IInv, PlaceInv
    <3> QED BY <1>1, <3>1 DEF TakeLine, buffer, disk
  <2>2. Held' = Held /\ cur'.id = got'
    BY <2>1 DEF Held
  <2>3. OutUpTo(n)'
    BY <1>0, <2>1, <2>2 DEF OutUpTo, Out
  <2> QED BY <2>2, <2>3 DEF LeftInOrder
<1>2. CASE AppendLine
  <2>1. /\ cur.id # 0 /\ cur.id = got /\ cur'.id = 0 /\ UNCHANGED <<got, home>>
        /\ buf' = buf \cup {got} /\ got \in 0..MaxLines
    BY <1>2 DEF AppendLine, NoLine, LineInHand, LeftInOrder, control, disk, TypeOK
  <2>2. Held' = got /\ Held = got - 1
    BY <2>1 DEF Held
  <2>3. ASSUME NEW i \in Lines PROVE (Out(i)' <=> i <= n) /\ (i \in buf' <=> n < i /\ i <= Held')
    <3>1. (Out(i) <=> i <= n) /\ (i \in buf <=> n < i /\ i <= Held)
      BY <1>0 DEF OutUpTo
    <3>2. Out(i)' <=> Out(i)
      BY <2>1 DEF Out
    <3>3. i \in buf' <=> i \in buf \/ i = got
      BY <2>1
    <3> QED BY <2>1, <2>2, <3>1, <3>2, <3>3 DEF Lines
  <2>4. n \in 0..Held'
    BY <2>1, <2>2
  <2> QED BY <2>1, <2>3, <2>4 DEF LeftInOrder, OutUpTo
<1>3. ASSUME NEW ok \in BOOLEAN, Write(ok) PROVE LeftInOrder'
  <2>1. Held \in 0..MaxLines
    BY HeldType
  <2>2. /\ Held' = Held /\ cur' = cur /\ got' = got /\ buf' = {}
        /\ \A i \in Lines : Out(i)' <=> i <= Held
    BY <1>3, WriteFacts
  <2>3. \A i \in Lines : i \in buf' <=> Held < i /\ i <= Held
    BY <2>1, <2>2 DEF Lines
  <2>4. OutUpTo(Held)'
    BY <2>2, <2>3 DEF OutUpTo
  <2>5. Held \in 0..Held'
    BY <2>1, <2>2
  <2>6. \E m \in 0..Held' : OutUpTo(m)'
    BY <2>2, <2>3, <2>5 DEF OutUpTo
  <2> QED BY <2>2, <2>6 DEF LeftInOrder
<1>4. CASE UNCHANGED <<got, buf, home, cur>>
    BY <1>4 DEF LeftInOrder, OutUpTo, Held, Out
<1> QED
    BY <1>1, <1>2, <1>3, <1>4, NoLineMoves DEF Next, WriterStep, Flush, WriteFail

LEMMA NewestOpenStep == IInv /\ PlaceInv /\ [Next]_vars => NewestOpen'
<1> SUFFICES ASSUME IInv, PlaceInv, [Next]_vars PROVE NewestOpen'
    OBVIOUS
<1> USE BoundsAssumption DEF IInv, PlaceInv
<1> USE DEF requests, control, buffer, handle, disk
<1>0. /\ f \in Int /\ opened \in Int /\ files \in Int /\ log \in Int
      /\ \A i \in Lines : home[i] \in Int
    BY DEF TypeOK
<1>1. CASE Open
    BY <1>0, <1>1 DEF Open, NewestOpen
<1>2. CASE Stat
    BY <1>0, <1>2 DEF Stat, NewestOpen
<1>3. CASE Rename
    BY <1>3 DEF Rename, NewestOpen
<1>4. CASE ExternalMove
    BY <1>4 DEF ExternalMove, NewestOpen
<1>5. ASSUME NEW ok \in BOOLEAN, Write(ok) PROVE NewestOpen'
  <2>1. UNCHANGED <<log, files, f, opened>> /\ f # 0 /\ f >= -1
    BY <1>5 DEF Write, TypeOK
  <2>2. \A i \in Lines : home'[i] \in {home[i], f, -1}
    BY <1>5, WriteFacts
  <2>3. \A i \in Lines : home'[i] <= f
    BY <1>0, <2>1, <2>2 DEF NewestOpen
  <2> QED BY <2>1, <2>3 DEF NewestOpen
<1>6. CASE UNCHANGED <<log, files, f, opened, home>>
    BY <1>6 DEF NewestOpen
<1>7. ASSUME \/ SendReopen \/ DropSink \/ Tick \/ HandlerDone \/ UNCHANGED vars
             \/ \E t \in Threads : CallLog(t) \/ CallFlush(t) \/ SendLine(t) \/ SendFlush(t) \/ SendFails(t)
      PROVE  UNCHANGED <<log, files, f, opened, home>>
    BY <1>7 DEF CallLog, CallFlush, SendLine, SendFlush, SendFails, SendReopen, DropSink, Tick,
                HandlerDone, vars
<1>8. ASSUME \/ OpenFailed \/ StatPanic \/ Check \/ RenamePanic \/ TakeLine \/ AppendLine
             \/ TakeReopen \/ TakeFlush \/ Drained \/ Timeout \/ Disconnected \/ FlushNoFile
             \/ Ack \/ Exit \/ Unwind \/ HookLog \/ HookFlush
      PROVE  UNCHANGED <<log, files, f, opened, home>>
    BY <1>8 DEF OpenFailed, StatPanic, Check, RenamePanic, TakeLine, AppendLine, TakeReopen,
                TakeFlush, Drained, Timeout, Disconnected, FlushNoFile, Ack, Exit, Unwind,
                HookLog, HookFlush
<1> QED
    BY <1>1, <1>2, <1>3, <1>4, <1>5, <1>6, <1>7, <1>8
    DEF Next, AppStep, WriterStep, Flush, WriteFail

\* A write puts its lines in the newest file written to, and no later line is
\* out before them.
LEMMA InOrderStep == IInv /\ PlaceInv /\ [Next]_vars => InOrder'
<1> SUFFICES ASSUME IInv, PlaceInv, [Next]_vars PROVE InOrder'
    OBVIOUS
<1> USE BoundsAssumption DEF IInv, PlaceInv
<1>1. ASSUME NEW ok \in BOOLEAN, Write(ok) PROVE InOrder'
  <2>1. PICK n \in 0..Held : OutUpTo(n)
    BY DEF LeftInOrder
  <2>2. f \in 0..MaxFiles /\ (\A i \in Lines : home[i] \in Int /\ home[i] <= f) /\ Held \in Nat
    BY HeldType DEF TypeOK, NewestOpen
  <2>3. \A i \in Lines : home'[i] = IF i \in buf THEN (IF ok THEN f ELSE -1) ELSE home[i]
    BY <1>1, WriteFacts
  <2>4. ASSUME NEW i \in Lines, NEW j \in Lines, i < j, home'[i] > 0, home'[j] > 0
        PROVE  home'[i] <= home'[j]
    <3>1. CASE j \in buf
      <4>1. home'[j] = f
        BY <2>3, <2>4, <3>1
      <4> QED BY <2>2, <2>3, <4>1
    <3>2. CASE j \notin buf
      <4>1. home'[j] = home[j] /\ Out(j)
        BY <2>2, <2>3, <2>4, <3>2 DEF Out
      <4>2. j <= n /\ i <= n
        BY <2>1, <2>4, <4>1 DEF OutUpTo, Lines
      <4>3. i \notin buf
        BY <2>1, <4>2 DEF OutUpTo, Lines
      <4> QED BY <2>3, <2>4, <4>1, <4>3 DEF InOrder
    <3> QED BY <3>1, <3>2
  <2> QED BY <2>4 DEF InOrder
<1>2. CASE home' = home
    BY <1>2 DEF InOrder
<1>3. ASSUME TakeLine \/ AppendLine PROVE home' = home
    BY <1>3 DEF TakeLine, AppendLine, disk
<1> QED BY <1>1, <1>2, <1>3, NoLineMoves DEF Next, WriterStep, Flush, WriteFail

LEMMA PlaceInvInit == Init => PlaceInv
<1> SUFFICES ASSUME Init PROVE PlaceInv
    OBVIOUS
<1>1. cur.id = 0 /\ got = 0 /\ Held = 0 /\ buf = {} /\ \A i \in Lines : home[i] = 0
    BY DEF Init, NoLine, Held
<1>2. OutUpTo(0)
    BY <1>1, BoundsAssumption DEF OutUpTo, Out, Lines
<1>3. LeftInOrder
    BY <1>1, <1>2 DEF LeftInOrder
<1>4. NewestOpen
    BY <1>1 DEF Init, NewestOpen
<1> QED BY <1>1, <1>3, <1>4 DEF PlaceInv, InOrder

LEMMA PlaceInvariance == Spec => [](IInv /\ PlaceInv)
<1>1. IInv /\ PlaceInv /\ [Next]_vars => PlaceInv'
    BY LeftInOrderStep, NewestOpenStep, InOrderStep DEF PlaceInv
<1> QED BY <1>1, InitInv, NextInv, PlaceInvInit, PTL DEF Spec

\* The lines of buf_file_impl.rs keep their order across rotations and reopens:
\* a later line is never in an older file.
THEOREM InOrderHolds == Spec => []InOrder
<1>1. PlaceInv => InOrder
    BY DEF PlaceInv
<1> QED BY <1>1, PlaceInvariance, PTL

LEMMA OnePlace ==
    ASSUME IInv, PlaceInv, pc # "dead", NEW i \in 1..sent
    PROVE  \E p \in {"chan", "hand", "buf", "out"} : Places(i) = {p}
<1> USE DEF IInv, PlaceInv
<1>0. PICK n \in 0..Held : OutUpTo(n)
    BY DEF LeftInOrder
<1>a. sent \in 0..MaxLines /\ MaxLines \in Nat /\ Held \in 0..MaxLines /\ got \in 0..MaxLines
    BY HeldType, BoundsAssumption DEF TypeOK
<1>b. i \in Lines
    BY <1>a DEF Lines
<1>1. /\ i \in Lines /\ i \in Nat /\ i # 0 /\ i <= sent /\ got \in Nat /\ sent \in Nat
      /\ Held \in Nat /\ n \in Nat /\ n <= Held
  <2> HIDE DEF PlaceInv, IInv
  <2> QED BY <1>a, <1>b
<1>2. (Out(i) <=> i <= n) /\ (i \in buf <=> n < i /\ i <= Held)
    BY <1>0, <1>1 DEF OutUpTo
<1>3. InChan(i) <=> got < i
    BY <1>1 DEF InChan, LinesQueued
<1>0a. cur.id # 0 => cur.id = got
    BY DEF LeftInOrder
<1>0b. /\ Held = IF cur.id = 0 THEN got ELSE got - 1
       /\ cur.id \in Nat
    BY <1>1 DEF Held, LeftInOrder, TypeOK
<1>4. cur.id = i <=> Held < i /\ i <= got
  <2> HIDE DEF PlaceInv, IInv
  <2> QED BY <1>1, <1>0a, <1>0b
<1>5. Held <= got
    BY <1>1 DEF Held
<1>6. CASE i <= n
  <2>1. Out(i) /\ i \notin buf /\ cur.id # i /\ ~InChan(i)
    BY <1>1, <1>2, <1>3, <1>4, <1>5, <1>6
  <2> QED BY <2>1 DEF Places
<1>7. CASE n < i /\ i <= Held
  <2>1. ~Out(i) /\ i \in buf /\ cur.id # i /\ ~InChan(i)
    BY <1>1, <1>2, <1>3, <1>4, <1>5, <1>7
  <2> QED BY <2>1 DEF Places
<1>8. CASE Held < i /\ i <= got
  <2>1. ~Out(i) /\ i \notin buf /\ cur.id = i /\ ~InChan(i)
    BY <1>1, <1>2, <1>3, <1>4, <1>5, <1>8
  <2> QED BY <2>1 DEF Places
<1>9. CASE got < i
  <2>1. ~Out(i) /\ i \notin buf /\ cur.id # i /\ InChan(i)
    BY <1>1, <1>2, <1>3, <1>4, <1>5, <1>9
  <2> QED BY <2>1 DEF Places
<1> QED BY <1>1, <1>5, <1>6, <1>7, <1>8, <1>9

\* No line is lost or doubled between log() of LogSinkBufFile and the file: as
\* long as the writer thread is there, every line sent is in the channel, in the
\* writer's hand, in its buffer or out of memory, and in one of them only.
THEOREM ConservationHolds == Spec => []Conservation
<1>1. IInv /\ PlaceInv => Conservation
  <2> SUFFICES ASSUME IInv, PlaceInv, pc # "dead", NEW i \in 1..sent
               PROVE  Cardinality(Places(i)) = 1
    BY DEF Conservation
  <2>1. PICK p \in {"chan", "hand", "buf", "out"} : Places(i) = {p}
    BY OnePlace
  <2> QED BY <2>1, FS_Singleton
<1> QED BY <1>1, PlaceInvariance, PTL

-----------------------------------------------------------------------------
\* The sink implements the stream of LogStream, as long as open_file succeeds.

\* The writer has a file, except while it opens its first one.
FileOpen == /\ pc \notin {"open", "stat"} \cup Panicking => f # 0
            /\ pc = "stat" => opened # 0

LEMMA FileOpenStep ==
    ASSUME "open" \notin Faults, IInv, FileOpen, [Next]_vars
    PROVE  FileOpen'
<1> USE DEF FileOpen, Panicking, requests, control, buffer, handle, disk
<1>1. CASE Open
  <2>1. pc' = "stat" /\ opened' # 0
    BY <1>1 DEF Open, IInv, TypeOK
  <2> QED BY <2>1
<1>2. CASE Stat
  <2>1. pc' \in {"check", "recv", "drain", "append", "wait"} /\ f' # 0
    <3>1. caller \in DOMAIN After /\ Return /\ opened # 0 /\ f' = opened
      BY <1>2 DEF Stat, IInv, TypeOK
    <3> QED BY <3>1, ReturnFacts
  <2> QED BY <2>1
<1>3. CASE OpenFailed
    BY <1>3 DEF OpenFailed
<1>4. CASE Check \/ FlushNoFile
  <2>1. pc \notin {"open", "stat"} \cup Panicking /\ f' = f /\ pc' # "stat"
    BY <1>4 DEF Check, FlushNoFile, Return, After, IInv, TypeOK
  <2> QED BY <2>1
<1>5. ASSUME NEW ok \in BOOLEAN, Write(ok) PROVE FileOpen'
    BY <1>5 DEF Write
<1>6. CASE StatPanic \/ RenamePanic \/ Rename \/ Unwind \/ HookLog \/ HookFlush
    BY <1>6 DEF StatPanic, RenamePanic, Rename, Unwind, HookLog, HookFlush
<1>7. CASE TakeLine \/ TakeReopen \/ TakeFlush \/ Drained \/ Timeout \/ Disconnected \/ AppendLine
            \/ Ack \/ Exit
    BY <1>7 DEF TakeLine, TakeReopen, TakeFlush, Take, Drained, Timeout, Disconnected, AppendLine,
                Ack, Exit
<1>8. CASE AppStep \/ HandlerDone \/ UNCHANGED vars
  <2>1. UNCHANGED <<pc, f, opened>>
    BY <1>8 DEF AppStep, CallLog, CallFlush, SendLine, SendFlush, SendFails, SendReopen,
                DropSink, ExternalMove, Tick, HandlerDone, vars
  <2> QED BY <2>1
<1> QED
    BY <1>1, <1>2, <1>3, <1>4, <1>5, <1>6, <1>7, <1>8 DEF Next, WriterStep, Flush, WriteFail

LEMMA FileOpenHolds ==
    ASSUME "open" \notin Faults
    PROVE  Spec => []FileOpen
<1>1. Init => FileOpen
    BY DEF Init, FileOpen
<1>2. IInv /\ FileOpen /\ [Next]_vars => FileOpen'
    BY FileOpenStep
<1> QED BY <1>1, <1>2, Invariance, PTL DEF Spec

\* The lines that have left memory, and the requests the abstract stream sees.
OutLines == {i \in Lines : Out(i)}
Asked == [t \in Threads |-> IF app[t] = "waiting" THEN mark[t] ELSE -1]

\* They are the first ones, and were sent.
OutFirst == \E n \in 0..sent : OutLines = 1..n

LEMMA OutFirstHolds == IInv /\ PlaceInv => OutFirst
<1> SUFFICES ASSUME IInv, PlaceInv PROVE OutFirst
    OBVIOUS
<1>1. PICK n \in 0..Held : OutUpTo(n)
    BY DEF PlaceInv, LeftInOrder
<1>2. Held \in 0..MaxLines /\ got \in 0..MaxLines /\ sent \in 0..MaxLines /\ got <= sent
    BY HeldType DEF IInv, PlaceInv, TypeOK, LinesQueued
<1>3. MaxLines \in Nat
    BY BoundsAssumption
<1>4. Held <= got
    BY <1>2, <1>3 DEF Held
<1>5. n \in 0..sent /\ n \in 0..MaxLines
    BY <1>2, <1>3, <1>4
<1>6. OutLines = 1..n
    BY <1>1, <1>3, <1>5 DEF OutUpTo, OutLines, Lines
<1> QED BY <1>5, <1>6 DEF OutFirst

\* What has left memory stays out.
LEMMA OutGrows ==
    ASSUME IInv, [Next]_vars
    PROVE  OutLines \subseteq OutLines'
<1>1. ASSUME NEW ok \in BOOLEAN, Write(ok) PROVE OutLines \subseteq OutLines'
    BY <1>1 DEF Write, OutLines, Out
<1>2. CASE home' = home
    BY <1>2 DEF OutLines, Out
<1>3. ASSUME TakeLine \/ AppendLine PROVE home' = home
    BY <1>3 DEF TakeLine, AppendLine, disk
<1> QED BY <1>1, <1>2, <1>3, NoLineMoves DEF Next, WriterStep, Flush, WriteFail

\* The steps that are no step of a thread, of the hook or of an answer.
LEMMA StreamSilent ==
    ASSUME \/ SendReopen \/ DropSink \/ ExternalMove \/ Tick \/ HandlerDone \/ UNCHANGED vars
           \/ Open \/ OpenFailed \/ Stat \/ StatPanic \/ Check \/ Rename \/ RenamePanic
           \/ TakeLine \/ TakeReopen \/ TakeFlush \/ Drained \/ Timeout \/ Disconnected
           \/ AppendLine \/ Flush \/ WriteFail \/ FlushNoFile \/ Exit \/ Unwind \/ HookFlush
    PROVE  UNCHANGED <<app, mark, sent>>
<1> USE DEF requests
<1>1. CASE SendReopen \/ DropSink \/ ExternalMove \/ Tick \/ HandlerDone \/ UNCHANGED vars
    BY <1>1 DEF SendReopen, DropSink, ExternalMove, Tick, HandlerDone, vars
<1>2. CASE \/ Open \/ OpenFailed \/ Stat \/ StatPanic \/ Check \/ Rename \/ RenamePanic
           \/ TakeLine \/ TakeReopen \/ TakeFlush \/ Drained \/ Timeout \/ Disconnected
           \/ AppendLine \/ Flush \/ WriteFail \/ FlushNoFile \/ Exit \/ Unwind \/ HookFlush
    BY <1>2 DEF Open, OpenFailed, Stat, StatPanic, Check, Rename, RenamePanic, TakeLine,
                TakeReopen, TakeFlush, Drained, Timeout, Disconnected, AppendLine, Flush,
                WriteFail, Write, FlushNoFile, Exit, Unwind, HookFlush
<1> QED BY <1>1, <1>2

\* A step of the sink is a step of the stream, or none: a send, and the hook's
\* line, accepts a line; a flush request is recorded, its answer returns it; a
\* write takes the buffer out of memory, whether the lines reach the file or not.
LEMMA StreamStep ==
    ASSUME IInv, FileOpen, OutFirst, OutFirst', [Next]_vars
    PROVE  [Stream!Next]_Stream!vars
<1> USE DEF requests, control, buffer, handle, disk
<1>0. TypeOK /\ sent \in Nat
    BY BoundsAssumption DEF IInv, TypeOK
<1>1. ASSUME sent' = sent, Asked' = Asked
      PROVE  [Stream!Next]_Stream!vars
  <2>1. PICK m \in 0..sent : OutLines = 1..m
    BY DEF OutFirst
  <2>2. PICK n \in 0..sent : OutLines' = 1..n
    BY <1>1 DEF OutFirst
  <2>3. OutLines \subseteq OutLines'
    BY OutGrows
  <2>4. CASE OutLines' = OutLines
    BY <1>1, <2>4 DEF Stream!vars, Asked, OutLines
  <2>5. CASE OutLines' # OutLines
    <3>1. n \in 1..sent
      BY <1>0, <2>1, <2>2, <2>3, <2>5
    <3>2. Stream!Deliver
      BY <1>1, <2>2, <2>3, <2>5, <3>1 DEF Stream!Deliver, Asked, OutLines
    <3> QED BY <3>2 DEF Stream!Next
  <2> QED BY <2>4, <2>5
<1>2. ASSUME sent' = sent + 1, Asked' = Asked, home' = home
      PROVE  [Stream!Next]_Stream!vars
  <2>1. OutLines' = OutLines
    BY <1>2 DEF OutLines, Out
  <2>2. Stream!Accept
    BY <1>2, <2>1 DEF Stream!Accept, Asked, OutLines
  <2> QED BY <2>2 DEF Stream!Next
<1>3. CASE Ack
  <2>1. pc = "wait" /\ caller = "flush" /\ acking \in Threads /\ f # 0
    BY <1>3 DEF Ack, IInv, RequestInHand, FileOpen, Panicking
  <2>2. PICK t \in Threads : t = acking
    BY <2>1
  <2>3. app[t] = "waiting" /\ \A i \in 1..mark[t] : Out(i)
    BY <2>1, <2>2, BarrierFromInv DEF FlushBarrier
  <2>4. mark[t] \in 0..MaxLines /\ MaxLines \in Nat
    BY <1>0, BoundsAssumption DEF TypeOK
  <2>5. 1..mark[t] \subseteq OutLines
    BY <2>3, <2>4 DEF OutLines, Lines
  <2>6. UNCHANGED <<mark, sent>> /\ OutLines' = OutLines /\ app' = [app EXCEPT ![t] = "idle"]
    BY <1>3, <2>2 DEF Ack, OutLines, Out
  <2>7. Asked[t] = mark[t] /\ mark[t] # -1
    BY <2>3, <2>4 DEF Asked
  <2>8. Asked' = [Asked EXCEPT ![t] = -1]
    BY <1>0, <2>6 DEF Asked, TypeOK
  <2>9. Stream!Return(t)
    BY <2>5, <2>6, <2>7, <2>8 DEF Stream!Return, Asked, OutLines
  <2> QED BY <2>9 DEF Stream!Next
<1>4. ASSUME NEW t \in Threads, SendFlush(t)
      PROVE  [Stream!Next]_Stream!vars
  <2>1. UNCHANGED sent /\ OutLines' = OutLines
    BY <1>4 DEF SendFlush, OutLines, Out
  <2>2. Asked[t] = -1
    BY <1>4 DEF SendFlush, Asked
  <2>3. Asked' = [Asked EXCEPT ![t] = sent]
    BY <1>0, <1>4 DEF SendFlush, Asked, TypeOK
  <2>4. Stream!Flush(t)
    BY <2>1, <2>2, <2>3 DEF Stream!Flush, Asked, OutLines
  <2> QED BY <2>4 DEF Stream!Next
<1>5. ASSUME NEW t \in Threads, CallLog(t) \/ CallFlush(t) \/ SendFails(t)
      PROVE  [Stream!Next]_Stream!vars
  <2>1. sent' = sent /\ Asked' = Asked
    BY <1>0, <1>5 DEF CallLog, CallFlush, SendFails, Asked, TypeOK
  <2> QED BY <1>1, <2>1
<1>6. ASSUME NEW t \in Threads, SendLine(t)
      PROVE  [Stream!Next]_Stream!vars
  <2>1. sent' = sent + 1 /\ Asked' = Asked /\ home' = home
    BY <1>0, <1>6 DEF SendLine, Asked, TypeOK
  <2> QED BY <1>2, <2>1
<1>7. CASE HookLog
  <2>1. Asked' = Asked /\ home' = home /\ sent' \in {sent, sent + 1}
    BY <1>7 DEF HookLog, Asked
  <2> QED BY <1>1, <1>2, <2>1
<1>8. ASSUME UNCHANGED <<app, mark, sent>>
      PROVE  [Stream!Next]_Stream!vars
    BY <1>1, <1>8 DEF Asked
<1> QED
    BY <1>3, <1>4, <1>5, <1>6, <1>7, <1>8, StreamSilent DEF Next, AppStep, WriterStep

\* The sink is a stream of lines as LogStream promises it, whatever rotates,
\* reopens, times out, panics or is dropped meanwhile, provided open_file
\* succeeds: lines leave memory one by one in the order they were sent, and no
\* flush returns before the lines sent before it are out.
THEOREM StreamHolds ==
    ASSUME "open" \notin Faults
    PROVE  Spec => Stream!Spec
<1>1. Init => Stream!Init
  <2> SUFFICES ASSUME Init PROVE Stream!Init
    OBVIOUS
  <2>1. sent = 0 /\ OutLines = {}
    BY DEF Init, OutLines, Out
  <2>2. Asked = [t \in Threads |-> -1]
    BY DEF Init, Asked
  <2> QED BY <2>1, <2>2 DEF Stream!Init, Asked, OutLines
<1>2. IInv /\ FileOpen /\ OutFirst /\ OutFirst' /\ [Next]_vars => [Stream!Next]_Stream!vars
    BY StreamStep
<1>3. Spec => []FileOpen
    BY FileOpenHolds
<1> QED BY <1>1, <1>2, <1>3, OutFirstHolds, PlaceInvariance, PTL DEF Spec, Stream!Spec

-----------------------------------------------------------------------------
\* The archive, as long as open_file succeeds: the writer writes to the file
\* under the log's name, never to one it has archived.
HandleInv ==
    /\ log # 0 => log \notin rotated
    /\ \A i \in rotated : i <= files
    /\ pc \notin {"open", "stat"} \cup Panicking => f \notin rotated /\ (log # 0 => f = log)
    /\ pc = "stat" => opened = files /\ opened \notin rotated

LEMMA HandleInvStep ==
    ASSUME "open" \notin Faults, IInv, NewestOpen, HandleInv, [Next]_vars
    PROVE  HandleInv'
<1> USE DEF HandleInv, Panicking, requests, control, buffer, handle, disk
<1>0. /\ files \in Nat /\ log \in 0..MaxFiles /\ rotated \subseteq Inode /\ MaxFiles \in Nat
      /\ \A i \in rotated : i \in Nat /\ i # 0
  <2>1. /\ files \in 0..MaxFiles /\ log \in 0..MaxFiles /\ rotated \subseteq 1..MaxFiles
        /\ MaxFiles \in Nat
    BY BoundsAssumption DEF IInv, TypeOK, Inode
  <2>2. \A i \in 1..MaxFiles : i \in Nat /\ i # 0
    BY <2>1
  <2>3. files \in Nat
    BY <2>1
  <2> HIDE DEF HandleInv, IInv
  <2> QED BY <2>1, <2>2, <2>3 DEF Inode
<1>1. CASE Open
  <2>1. CASE log # 0
    BY <1>1, <2>1 DEF Open, NewestOpen
  <2>2. CASE log = 0
    <3>1. /\ log' = files + 1 /\ opened' = files + 1 /\ files' = files + 1
          /\ rotated' = rotated /\ pc' = "stat"
      BY <1>1, <2>2 DEF Open
    <3>2. files + 1 \notin rotated /\ \A i \in rotated : i <= files + 1
      BY <1>0
    <3> QED BY <3>1, <3>2
  <2> QED BY <2>1, <2>2
<1>2. CASE Stat
  <2>1. /\ pc' \in {"check", "recv", "drain", "append", "wait"} /\ f' = opened /\ opened = log
        /\ UNCHANGED <<log, files, rotated, opened>>
    <3>1. caller \in DOMAIN After
      BY DEF IInv, TypeOK
    <3>2. Return /\ f' = opened /\ opened = log /\ UNCHANGED <<log, files, rotated, opened>>
      BY <1>2 DEF Stat, NewestOpen
    <3> QED BY <3>1, <3>2, ReturnFacts
  <2>2. pc = "stat" /\ opened \notin rotated
    BY <1>2 DEF Stat
  <2>3. f' \notin rotated' /\ f' = log' /\ pc' # "stat"
    BY <2>1, <2>2
  <2>4. (log' # 0 => log' \notin rotated') /\ \A i \in rotated' : i <= files'
    BY <2>1
  <2> QED BY <2>3, <2>4
<1>3. CASE OpenFailed
    BY <1>3 DEF OpenFailed
<1>4. CASE Check \/ FlushNoFile
  <2>1. /\ pc \notin {"open", "stat"} \cup Panicking /\ pc' # "stat"
        /\ UNCHANGED <<log, files, rotated, opened, f>>
    BY <1>4 DEF Check, FlushNoFile, Return, After, IInv, TypeOK
  <2> QED BY <2>1
<1>5. ASSUME NEW ok \in BOOLEAN, Write(ok) PROVE HandleInv'
    BY <1>5 DEF Write
<1>6. CASE Rename
  <2>1. /\ log' = 0 /\ rotated' = rotated \cup {log} /\ files' = files /\ pc' = "open"
        /\ log = files
    BY <1>6 DEF Rename, NewestOpen
  <2> QED BY <1>0, <2>1
<1>7. CASE StatPanic \/ RenamePanic \/ Unwind \/ HookLog \/ HookFlush
    BY <1>7 DEF StatPanic, RenamePanic, Unwind, HookLog, HookFlush
<1>8. CASE TakeLine \/ TakeReopen \/ TakeFlush \/ Drained \/ Timeout \/ Disconnected \/ AppendLine
            \/ Ack \/ Exit
    BY <1>8 DEF TakeLine, TakeReopen, TakeFlush, Take, Drained, Timeout, Disconnected, AppendLine,
                Ack, Exit
<1>9. CASE ExternalMove
    BY <1>9 DEF ExternalMove
<1>10. CASE UNCHANGED <<pc, f, opened, log, files, rotated>>
    BY <1>10
<1>11. ASSUME \/ SendReopen \/ DropSink \/ Tick \/ HandlerDone \/ UNCHANGED vars
              \/ \E t \in Threads : CallLog(t) \/ CallFlush(t) \/ SendLine(t) \/ SendFlush(t) \/ SendFails(t)
       PROVE  UNCHANGED <<pc, f, opened, log, files, rotated>>
    BY <1>11 DEF CallLog, CallFlush, SendLine, SendFlush, SendFails, SendReopen, DropSink, Tick,
                 HandlerDone, vars
<1> QED
    BY <1>1, <1>2, <1>3, <1>4, <1>5, <1>6, <1>7, <1>8, <1>9, <1>10, <1>11
    DEF Next, AppStep, WriterStep, Flush, WriteFail

LEMMA HandleInvHolds ==
    ASSUME "open" \notin Faults
    PROVE  Spec => []HandleInv
<1>1. Init => HandleInv
    BY DEF Init, HandleInv
<1>2. IInv /\ PlaceInv /\ HandleInv /\ [Next]_vars => HandleInv'
    BY HandleInvStep DEF PlaceInv
<1> QED BY <1>1, <1>2, PlaceInvariance, PTL DEF Spec

\* Only a write changes the length of a file.
LEMMA LengthSteps ==
    ASSUME [Next]_vars
    PROVE  flen' = flen \/ \E ok \in BOOLEAN : Write(ok)
<1> USE DEF requests, control, buffer, handle, disk
<1>1. CASE AppStep \/ HandlerDone \/ UNCHANGED vars
    BY <1>1 DEF AppStep, CallLog, CallFlush, SendLine, SendFlush, SendFails, SendReopen,
                DropSink, ExternalMove, Tick, HandlerDone, vars
<1>2. CASE \/ Open \/ OpenFailed \/ Stat \/ StatPanic \/ Check \/ Rename \/ RenamePanic
           \/ TakeLine \/ TakeReopen \/ TakeFlush \/ Drained \/ Timeout \/ Disconnected
           \/ AppendLine \/ FlushNoFile \/ Ack \/ Exit \/ Unwind \/ HookLog \/ HookFlush
    BY <1>2 DEF Open, OpenFailed, Stat, StatPanic, Check, Rename, RenamePanic, TakeLine,
                TakeReopen, TakeFlush, Drained, Timeout, Disconnected, AppendLine, FlushNoFile,
                Ack, Exit, Unwind, HookLog, HookFlush
<1>3. CASE Flush \/ WriteFail
    BY <1>3 DEF Flush, WriteFail
<1> QED BY <1>1, <1>2, <1>3 DEF Next, WriterStep

LEMMA FrozenStep ==
    ASSUME IInv, HandleInv, [Next]_vars
    PROVE  \A i \in rotated : flen'[i] = flen[i]
<1>1. ASSUME NEW ok \in BOOLEAN, Write(ok), NEW i \in rotated PROVE flen'[i] = flen[i]
  <2>1. f \notin rotated /\ flen \in [Inode -> Nat]
    BY <1>1 DEF Write, HandleInv, Panicking, IInv, TypeOK
  <2> QED BY <1>1, <2>1 DEF Write
<1> QED BY <1>1, LengthSteps

\* check_rotate reopens after LogRotate::rotate: nothing is written to a file
\* once it is archived, where handle_old_files may be compressing it.
THEOREM ArchiveFrozenHolds ==
    ASSUME "open" \notin Faults
    PROVE  Spec => ArchiveFrozen
<1>1. IInv /\ HandleInv /\ [Next]_vars => [\A i \in rotated : flen'[i] = flen[i]]_vars
    BY FrozenStep
<1>2. Spec => []HandleInv
    BY HandleInvHolds
<1> QED BY <1>1, <1>2, Invariance, PTL DEF Spec, ArchiveFrozen

-----------------------------------------------------------------------------
\* Rotation by size: how long an archived file can be.

\* A buffer never holds more than this.
Most == Larger(FlushSize, Longest)

SizesKnown == /\ \A k \in 1..Len(chan) : chan[k].kind = "line" => chan[k].size \in Sizes
              /\ cur.id # 0 => cur.size \in Sizes

\* write() makes room before it appends, so only a line longer than the buffer
\* makes it longer than flush_size.
BufferBounded ==
    /\ blen <= Most
    /\ pc = "append" => blen = 0 \/ blen + cur.size <= FlushSize
    /\ caller = "before" /\ pc \in Calling \ {"flush"} => blen = 0

\* BufFileInner.size is the length of the open file, at or below the limit from
\* one check_rotate to the next write.
LengthKnown ==
    /\ \A i \in Inode : i > files => flen[i] = 0
    /\ \A i \in Inode : flen[i] <= SizeLimit + Most
    /\ pc \notin {"open", "stat"} \cup Panicking => size = flen[f]
    /\ pc \in {"recv", "drain", "append", "flush", "wait"} => size <= SizeLimit
    /\ pc = "rename" => size > SizeLimit
    /\ pc \in {"open", "stat"} /\ caller # "start" /\ log # 0 => flen[log] <= SizeLimit
    /\ \A i \in rotated : flen[i] > SizeLimit

SizeInv == SizesKnown /\ BufferBounded /\ LengthKnown

LongestExists == \E n \in Sizes : \A m \in Sizes : m <= n

LEMMA MostFacts ==
    ASSUME LongestExists
    PROVE  /\ Most \in Nat /\ FlushSize <= Most /\ \A n \in Sizes : n <= Most
           /\ FlushSize \in Nat /\ SizeLimit \in Nat /\ Sizes \subseteq Nat
<1>1. Longest \in Sizes /\ \A m \in Sizes : m <= Longest
    BY DEF LongestExists, Longest
<1>2. Sizes \subseteq Nat /\ FlushSize \in Nat /\ SizeLimit \in Nat
    BY SizesAssumption, ChannelAssumption, LimitsAssumption
<1> QED BY <1>1, <1>2 DEF Most, Larger

\* The steps that leave the channel and the hand alone.
LEMMA SizesKnownStep == IInv /\ SizesKnown /\ [Next]_vars => SizesKnown'
<1> SUFFICES ASSUME IInv, SizesKnown, [Next]_vars PROVE SizesKnown'
    OBVIOUS
<1> USE SizesAssumption, BoundsAssumption
<1> USE DEF requests, control, buffer, handle, disk
<1>0. chan \in Seq(Message) /\ Len(chan) \in Nat /\ sent \in 0..MaxLines
    BY DEF IInv, TypeOK
<1>1. ASSUME NEW m \in Message, m.kind = "line" => m.size \in Sizes, chan' = Enqueue(m), cur' = cur
      PROVE  SizesKnown'
  <2>1. /\ Len(chan') = Len(chan) + 1
        /\ \A k \in 1..Len(chan) : chan'[k] = chan[k]
        /\ chan'[Len(chan) + 1] = m
    BY <1>0, <1>1, EnqueueFacts
  <2>2. \A k \in 1..Len(chan') : k \in 1..Len(chan) \/ k = Len(chan) + 1
    BY <1>0, <2>1
  <2> QED BY <1>1, <2>1, <2>2 DEF SizesKnown
<1>2. ASSUME NEW n \in Sizes, chan' = Enqueue(LineMsg(sent + 1, n)), cur' = cur
      PROVE  SizesKnown'
  <2>1. LineMsg(sent + 1, n) \in Message /\ LineMsg(sent + 1, n).size = n
    BY <1>0, MessageTypes DEF LineMsg
  <2> QED BY <1>1, <1>2, <2>1
<1>3. ASSUME NEW t \in Threads, SendLine(t) PROVE SizesKnown'
    BY <1>2, <1>3 DEF SendLine
<1>4. CASE HookLog
    BY <1>2, <1>4 DEF HookLog, SizesKnown
<1>5. ASSUME NEW t \in Threads, SendFlush(t) PROVE SizesKnown'
  <2>1. FlushMsg(t) \in Message /\ FlushMsg(t).kind # "line"
    BY MessageTypes DEF FlushMsg
  <2> QED BY <1>1, <1>5, <2>1 DEF SendFlush
<1>6. CASE SendReopen
  <2>1. ReopenMsg \in Message /\ ReopenMsg.kind # "line"
    BY MessageTypes DEF ReopenMsg
  <2> QED BY <1>1, <1>6, <2>1 DEF SendReopen
<1>7. CASE HookFlush
  <2>1. FlushMsg(0) \in Message /\ FlushMsg(0).kind # "line"
    BY MessageTypes DEF FlushMsg
  <2> QED BY <1>1, <1>7, <2>1 DEF HookFlush
<1>8. CASE TakeLine \/ TakeReopen \/ TakeFlush
  <2>1. chan # <<>> /\ chan' = Tail(chan)
    BY <1>8 DEF TakeLine, TakeReopen, TakeFlush, Take
  <2>2. Head(chan) = chan[1] /\ 1 \in 1..Len(chan)
    BY <1>0, <2>1, TakeFacts
  <2>3. \A k \in 1..Len(chan') : k + 1 \in 1..Len(chan) /\ chan'[k] = chan[k + 1]
    BY <1>0, <2>1, TakeFacts
  <2>4. cur'.id # 0 => cur'.size \in Sizes
    BY <1>8, <2>2 DEF TakeLine, TakeReopen, TakeFlush, SizesKnown
  <2> QED BY <2>3, <2>4 DEF SizesKnown
<1>9. CASE AppendLine
    BY <1>9 DEF AppendLine, NoLine, SizesKnown
<1>10. CASE Unwind
    BY <1>10 DEF Unwind, SizesKnown
<1>11. CASE UNCHANGED <<chan, cur>>
    BY <1>11 DEF SizesKnown
<1>12. ASSUME NEW t \in Threads, CallLog(t) \/ CallFlush(t) \/ SendFails(t) PROVE SizesKnown'
    BY <1>11, <1>12 DEF CallLog, CallFlush, SendFails
<1>13. ASSUME Flush \/ WriteFail \/ Ack PROVE UNCHANGED <<chan, cur>>
    BY <1>13 DEF Flush, WriteFail, Write, Ack
<1> QED
    BY <1>3, <1>4, <1>5, <1>6, <1>7, <1>8, <1>9, <1>10, <1>11, <1>12, <1>13, QuietSteps
    DEF Next, AppStep, WriterStep, Quiet

LEMMA BufferBoundedStep ==
    ASSUME LongestExists, IInv, FileOpen, SizeInv, [Next]_vars
    PROVE  BufferBounded'
<1> USE MostFacts DEF BufferBounded, requests, control, buffer, handle, disk, Calling
<1>0. /\ TypeOK /\ BufferBounded /\ SizesKnown
      /\ blen \in Nat /\ cur.size \in Nat
    BY DEF IInv, SizeInv, TypeOK
<1>1. CASE TakeLine
  <2>1. /\ pc' \in {"append", "flush"} /\ blen' = blen /\ cur'.size = Head(chan).size
        /\ pc' = "append" => blen = 0 \/ blen + cur'.size <= FlushSize
    <3>1. chan \in Seq(Message) /\ chan # <<>>
      BY <1>0, <1>1 DEF TakeLine, Take, TypeOK
    <3>2. Head(chan) \in Message
      BY <3>1
    <3>3. Head(chan).size \in Nat
      BY <3>2 DEF Message
    <3> QED BY <1>0, <1>1, <3>3 DEF TakeLine, WouldNotFit
  <2> QED BY <1>0, <2>1
<1>2. CASE AppendLine
  <2>1. cur.size \in Sizes /\ cur.size <= Most
    BY <1>0, <1>2 DEF AppendLine, SizesKnown, IInv, LineInHand
  <2>2. blen + cur.size <= Most
    BY <1>0, <1>2, <2>1 DEF AppendLine
  <2>3. blen' = blen + cur.size /\ pc' \in {"flush", "drain"}
    BY <1>2 DEF AppendLine
  <2> QED BY <2>2, <2>3
<1>3. ASSUME NEW ok \in BOOLEAN, Write(ok) PROVE BufferBounded'
    BY <1>3 DEF Write
<1>4. CASE Stat \/ OpenFailed \/ Check
  <2>1. /\ blen' = blen /\ cur' = cur /\ pc \in {"open", "stat", "check"}
        /\ caller' = caller \/ caller' # "before"
        /\ pc' = "append" => caller = "before"
    <3>1. /\ blen' = blen /\ cur' = cur /\ pc \in {"open", "stat", "check"}
          /\ Return \/ (pc' \in {"panic", "rename"} /\ caller' = caller)
      <4>1. CASE Stat \/ OpenFailed
        BY <4>1 DEF Stat, OpenFailed
      <4>2. CASE Check
        BY <4>2 DEF Check
      <4> QED BY <1>4, <4>1, <4>2
    <3>2. caller \in DOMAIN After
      BY <1>0 DEF TypeOK
    <3> QED BY <3>1, <3>2, ReturnFacts
  <2> QED BY <1>0, <2>1
<1>5. CASE FlushNoFile
    BY <1>5 DEF FlushNoFile, FileOpen, Panicking
<1>6. CASE Open \/ Rename \/ StatPanic \/ RenamePanic
  <2>1. /\ blen' = blen /\ caller' = caller /\ pc \in {"open", "rename", "stat"} /\ pc' # "append"
    BY <1>6 DEF Open, Rename, StatPanic, RenamePanic
  <2> QED BY <1>0, <2>1
<1>7. CASE TakeReopen \/ TakeFlush \/ Timeout \/ Disconnected
  <2>1. blen' = blen /\ caller' # "before" /\ pc' # "append"
    BY <1>7 DEF TakeReopen, TakeFlush, Timeout, Disconnected
  <2> QED BY <1>0, <2>1
<1>8. CASE Drained \/ Ack \/ Exit \/ Unwind \/ HookLog \/ HookFlush
  <2>1. blen' = blen /\ pc' \in {"recv", "drain", "done", "dead", "hookflush", "hookwait"}
    BY <1>8 DEF Drained, Ack, Exit, Unwind, HookLog, HookFlush
  <2> QED BY <1>0, <2>1
<1>9. CASE AppStep \/ HandlerDone \/ UNCHANGED vars
  <2>1. UNCHANGED <<pc, caller, blen, cur>>
    BY <1>9 DEF AppStep, CallLog, CallFlush, SendLine, SendFlush, SendFails, SendReopen,
                DropSink, ExternalMove, Tick, HandlerDone, vars
  <2> QED BY <1>0, <2>1
<1> QED
    BY <1>1, <1>2, <1>3, <1>4, <1>5, <1>6, <1>7, <1>8, <1>9 DEF Next, WriterStep, Flush, WriteFail

LEMMA LengthKnownStep ==
    ASSUME LongestExists, RotateBy = {"size"}, "open" \notin Faults, "write" \notin Faults,
           IInv, NewestOpen, FileOpen, HandleInv, SizeInv, [Next]_vars
    PROVE  LengthKnown'
<1> USE DEF LengthKnown, Panicking, requests, control, buffer, handle, disk
<1>0. /\ TypeOK /\ BufferBounded /\ LengthKnown
      /\ blen \in Nat /\ size \in Nat /\ files \in Nat /\ f \in 0..MaxFiles /\ MaxFiles \in Nat
      /\ flen \in [Inode -> Nat] /\ rotated \subseteq Inode /\ log \in 0..MaxFiles
    BY BoundsAssumption DEF IInv, SizeInv, TypeOK
<1>m. /\ Most \in Nat /\ SizeLimit \in Nat
    BY MostFacts
<1>1. CASE Open
  <2>1. CASE log # 0
    <3>1. UNCHANGED <<log, files, flen, rotated, caller, size, f>> /\ pc = "open" /\ pc' = "stat"
      BY <1>1, <2>1 DEF Open
    <3> QED BY <1>0, <3>1
  <2>2. CASE log = 0
    <3>1. /\ UNCHANGED <<flen, rotated, caller, size, f>> /\ pc' = "stat"
          /\ log' = files + 1 /\ files' = files + 1 /\ files + 1 \in Inode
      BY <1>0, <1>1, <2>2 DEF Open, Inode
    <3>2. flen[log'] = 0
      BY <1>0, <3>1
    <3>3. \A i \in Inode : i > files' => flen'[i] = 0
      BY <1>0, <3>1 DEF Inode
    <3> QED BY <1>0, <1>m, <3>1, <3>2, <3>3
  <2> QED BY <2>1, <2>2
<1>2. CASE Stat
  <2>1. /\ pc = "stat" /\ log # 0 /\ opened = log /\ f' = log /\ size' = flen[log]
        /\ UNCHANGED <<log, files, flen, rotated>>
    BY <1>2 DEF Stat, HandleInv, NewestOpen
  <2>2. /\ pc' \in {"check", "recv", "drain", "append", "wait"}
        /\ pc' # "check" => caller # "start"
    <3>1. caller \in DOMAIN After
      BY <1>0 DEF TypeOK
    <3>2. Return
      BY <1>2 DEF Stat
    <3> HIDE DEF IInv, SizeInv
    <3> QED BY <3>1, <3>2, ReturnFacts
  <2>3. pc' # "check" => flen[log] <= SizeLimit
    BY <1>0, <2>1, <2>2
  <2> QED BY <1>0, <2>1, <2>2, <2>3
<1>3. CASE Check
  <2>1. UNCHANGED <<size, f, log, files, flen, rotated>> /\ pc = "check"
    BY <1>3 DEF Check
  <2>2. CASE size > SizeLimit
    <3>1. pc' = "rename"
      BY <1>3, <2>2, <1>m DEF Check, TooBig
    <3> QED BY <1>0, <2>1, <2>2, <3>1
  <2>3. CASE size <= SizeLimit
    <3>1. Return
      BY <1>0, <1>3, <2>3, <1>m DEF Check, TooBig, TooOld
    <3>2. pc' \in {"check", "recv", "drain", "append", "wait"}
      BY <1>0, <3>1 DEF Return, After, TypeOK
    <3> QED BY <1>0, <2>1, <2>3, <3>2
  <2> QED BY <1>0, <1>m, <2>2, <2>3
<1>4. CASE Rename
  <2>1. /\ log' = 0 /\ rotated' = rotated \cup {log} /\ pc = "rename" /\ pc' = "open" /\ f = log
        /\ UNCHANGED <<files, flen, size, f>>
    BY <1>4 DEF Rename, HandleInv
  <2>2. flen[log] > SizeLimit
    BY <1>0, <2>1
  <2> QED BY <1>0, <2>1, <2>2
<1>5. CASE Write(TRUE)
  <2>1. /\ pc = "flush" /\ pc' = "check" /\ f \in Inode /\ f \notin rotated
        /\ size' = size + blen /\ flen' = [flen EXCEPT ![f] = @ + blen]
        /\ UNCHANGED <<log, files, rotated, f>>
    BY <1>0, <1>5 DEF Write, HandleInv, Inode
  <2>2. flen'[f] = flen[f] + blen /\ \A i \in Inode : i # f => flen'[i] = flen[i]
    BY <1>0, <2>1
  <2>3. size' = flen'[f]
    BY <1>0, <2>1, <2>2
  <2>4. flen[f] <= SizeLimit /\ blen <= Most /\ flen[f] \in Nat
    BY <1>0, <2>1 DEF BufferBounded
  <2>5. flen'[f] <= SizeLimit + Most
    BY <1>0, <1>m, <2>2, <2>4
  <2>6. \A i \in Inode : flen'[i] <= SizeLimit + Most
    BY <1>0, <2>2, <2>5
  <2>7. f <= files
    BY <1>0 DEF NewestOpen, IInv, TypeOK
  <2>8. \A i \in Inode : i > files' => flen'[i] = 0
    BY <1>0, <2>1, <2>2, <2>7 DEF Inode
  <2>9. \A i \in rotated' : flen'[i] > SizeLimit
    BY <1>0, <2>1, <2>2
  <2> QED BY <2>1, <2>3, <2>6, <2>8, <2>9
<1>6. CASE TakeReopen
  <2>1. /\ pc \in {"recv", "drain"} /\ pc' = "open" /\ UNCHANGED <<log, files, flen, rotated, size, f>>
    BY <1>6 DEF TakeReopen, Take
  <2>2. log # 0 => flen[log] <= SizeLimit
    BY <1>0, <2>1 DEF HandleInv
  <2> QED BY <1>0, <2>1, <2>2
<1>7. CASE OpenFailed \/ WriteFail \/ FlushNoFile
    BY <1>7 DEF OpenFailed, WriteFail, FlushNoFile, FileOpen
<1>8. CASE StatPanic \/ RenamePanic \/ Exit \/ Unwind \/ HookLog \/ HookFlush
  <2>1. /\ UNCHANGED <<log, files, flen, rotated, size, f>>
        /\ pc' \in Panicking \/ (pc = "wait" /\ pc' = "done")
    BY <1>8 DEF StatPanic, RenamePanic, Exit, Unwind, HookLog, HookFlush
  <2> QED BY <1>0, <2>1
<1>9. CASE TakeLine \/ TakeFlush \/ Drained \/ Timeout \/ Disconnected \/ AppendLine \/ Ack
  <2>1. /\ UNCHANGED <<log, files, flen, rotated, size, f>>
        /\ pc \in {"recv", "drain", "append", "wait"}
        /\ pc' \in {"recv", "drain", "append", "flush", "wait"}
    BY <1>9 DEF TakeLine, TakeFlush, Take, Drained, Timeout, Disconnected, AppendLine, Ack
  <2> QED BY <1>0, <2>1
<1>10. CASE ExternalMove
    BY <1>0, <1>10 DEF ExternalMove
<1>11. CASE UNCHANGED <<pc, caller, log, files, flen, rotated, size, f>>
    BY <1>0, <1>11
<1>12. ASSUME \/ SendReopen \/ DropSink \/ Tick \/ HandlerDone \/ UNCHANGED vars
              \/ \E t \in Threads : CallLog(t) \/ CallFlush(t) \/ SendLine(t) \/ SendFlush(t) \/ SendFails(t)
       PROVE  UNCHANGED <<pc, caller, log, files, flen, rotated, size, f>>
    BY <1>12 DEF CallLog, CallFlush, SendLine, SendFlush, SendFails, SendReopen, DropSink, Tick,
                 HandlerDone, vars
<1> QED
    BY <1>1, <1>2, <1>3, <1>4, <1>5, <1>6, <1>7, <1>8, <1>9, <1>10, <1>11, <1>12
    DEF Next, AppStep, WriterStep, Flush

LEMMA SizeInvInit ==
    ASSUME LongestExists, Init
    PROVE  SizeInv
<1> USE MostFacts DEF Init
<1>1. SizesKnown
    BY DEF SizesKnown, NoLine
<1>2. BufferBounded
    BY DEF BufferBounded
<1>3. PICK n \in {1, SizeLimit + 1} : flen = [i \in Inode |-> IF i = log THEN n ELSE 0]
    OBVIOUS
<1>4. \A i \in Inode : flen[i] = IF i = log THEN n ELSE 0
    BY <1>3
<1>5. LengthKnown
  <2>1. n <= SizeLimit + Most /\ n \in Nat
    BY ChannelAssumption
  <2>2. log = files /\ rotated = {} /\ pc = "open" /\ caller = "start" /\ files \in Nat
    OBVIOUS
  <2> HIDE DEF Init
  <2>3. \A i \in Inode : (i > files => flen[i] = 0) /\ flen[i] <= SizeLimit + Most
    BY <1>4, <2>1, <2>2 DEF Inode
  <2> QED BY <2>2, <2>3 DEF LengthKnown
<1> QED BY <1>1, <1>2, <1>5 DEF SizeInv

LEMMA LengthFromInv ==
    ASSUME IInv, SizeInv
    PROVE  ArchivedLength
BY DEF IInv, TypeOK, SizeInv, LengthKnown, ArchivedLength, Most

\* check_rotate looks at the size after every write of the buffer: a file rotated
\* by size (and by nothing else) is longer than the limit by no more than one
\* write, that is by flush_size or by the longest line; write() makes room in the
\* buffer before it appends. Lines have a longest, and the file can be opened and
\* written.
THEOREM ArchivedLengthHolds ==
    ASSUME RotateBy = {"size"}, "open" \notin Faults, "write" \notin Faults,
           \E n \in Sizes : \A m \in Sizes : m <= n
    PROVE  Spec => []ArchivedLength
<1>0. LongestExists
    BY DEF LongestExists
<1>1. Init => SizeInv
    BY <1>0, SizeInvInit
<1>2. IInv /\ PlaceInv /\ FileOpen /\ HandleInv /\ SizeInv /\ [Next]_vars => SizeInv'
    BY <1>0, SizesKnownStep, BufferBoundedStep, LengthKnownStep DEF SizeInv, PlaceInv
<1>3. IInv /\ SizeInv => ArchivedLength
    BY LengthFromInv
<1>4. Spec => []FileOpen
    BY FileOpenHolds
<1>5. Spec => []HandleInv
    BY HandleInvHolds
<1> QED BY <1>1, <1>2, <1>3, <1>4, <1>5, PlaceInvariance, PTL DEF Spec

=============================================================================
