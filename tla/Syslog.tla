------------------------------- MODULE Syslog -------------------------------
(***************************************************************************)
(* The syslog sink, src/src/syslog.rs: threads of the program send lines    *)
(* and flush requests through a bounded channel to a backend thread, which  *)
(* writes them to a connection it opens again when it fails.  A stream      *)
(* connection (tcp, unix stream) has a BufWriter in front of the socket.    *)
(*                                                                         *)
(* Line i is the i-th line sent; the socket is the sequence of the lines    *)
(* handed to the system.                                                    *)
(*                                                                         *)
(* The server may refuse a connection, break one, or keep it and stop       *)
(* reading: no timeout is set for a write, so that a call which has to hand *)
(* something to a server that does not read waits.                          *)
(***************************************************************************)
EXTENDS Integers, Sequences, SequencesExt, FiniteSets

CONSTANTS
    Threads,    \* threads of the program
    Cap,        \* capacity of the channel (256)
    Buffered,   \* whether the connection is a stream
    Faults,     \* what may fail: connect, write, flush; stall: the server stops reading
    MaxTries,   \* bound: attempts that fit in Syslog.timeout
    MaxLines    \* bound: lines sent

ASSUME ThreadsAssumption == 0 \notin Threads
ASSUME ChannelAssumption == Cap \in Nat \ {0} /\ Buffered \in BOOLEAN
ASSUME FaultsAssumption  == Faults \subseteq {"connect", "write", "flush", "stall"}
ASSUME BoundsAssumption  == MaxTries \in Nat \ {0} /\ MaxLines \in Nat

VARIABLES
    app,        \* thread -> what it is doing
    mark,       \* thread -> lines sent when its flush request was sent
    chan,       \* the channel
    sent,       \* lines sent so far
    closed,     \* the sink is dropped
    pc,         \* the backend thread
    cur,        \* the line in hand; 0: none
    acking,     \* the thread whose flush request is in hand
    batch,      \* the inner loop of run, after a line
    needFlush,  \* need_flush
    tries,      \* attempts made for the line in hand
    up,         \* Backend.writer is Some
    reading,    \* the server takes what is sent to it
    wbuf,       \* the lines in the BufWriter
    socket,     \* the lines handed to the system, in order
    lost        \* the lines given up, or in a BufWriter whose connection failed

requests == <<app, mark, sent, closed>>
control  == <<cur, acking, batch, needFlush, tries>>
wire     == <<up, reading, wbuf, socket, lost>>
vars     == <<requests, chan, pc, control, wire>>

Lines == 1..MaxLines
LineMsg(i)  == [kind |-> "line", id |-> i, by |-> 0]
FlushMsg(t) == [kind |-> "flush", id |-> 0, by |-> t]

\* LogSinkSyslog::new tries to connect once.
Init ==
    /\ app = [t \in Threads |-> "idle"]
    /\ mark = [t \in Threads |-> 0]
    /\ chan = <<>> /\ sent = 0 /\ closed = FALSE
    /\ pc = "recv"
    /\ cur = 0 /\ acking = 0 /\ batch = FALSE /\ needFlush = FALSE /\ tries = 0
    /\ up \in (IF "connect" \in Faults THEN BOOLEAN ELSE {TRUE})
    /\ reading = TRUE
    /\ wbuf = <<>> /\ socket = <<>> /\ lost = {}

-----------------------------------------------------------------------------
\* The threads of the program.  tx.send blocks while the channel is full.

CallLog(t) ==
    /\ app[t] = "idle" /\ ~closed /\ sent < MaxLines
    /\ app' = [app EXCEPT ![t] = "line"]
    /\ UNCHANGED <<mark, sent, closed, chan, pc, control, wire>>

CallFlush(t) ==
    /\ app[t] = "idle" /\ ~closed
    /\ app' = [app EXCEPT ![t] = "flush"]
    /\ UNCHANGED <<mark, sent, closed, chan, pc, control, wire>>

\* LogSinkSyslog::log.
SendLine(t) ==
    /\ app[t] = "line" /\ Len(chan) < Cap
    /\ IF sent < MaxLines
       THEN chan' = Append(chan, LineMsg(sent + 1)) /\ sent' = sent + 1
       ELSE UNCHANGED <<chan, sent>>   \* past the bound the line is not counted
    /\ app' = [app EXCEPT ![t] = "idle"]
    /\ UNCHANGED <<mark, closed, pc, control, wire>>

\* LogSinkSyslog::flush sends its Once and waits for it.
SendFlush(t) ==
    /\ app[t] = "flush" /\ Len(chan) < Cap
    /\ chan' = Append(chan, FlushMsg(t))
    /\ app' = [app EXCEPT ![t] = "waiting"]
    /\ mark' = [mark EXCEPT ![t] = sent]
    /\ UNCHANGED <<sent, closed, pc, control, wire>>

DropSink ==
    /\ ~closed /\ \A t \in Threads : app[t] = "idle"
    /\ closed' = TRUE
    /\ UNCHANGED <<app, mark, sent, chan, pc, control, wire>>

-----------------------------------------------------------------------------
\* The backend thread: Backend::run and the functions it calls.

\* recv in the outer loop, try_recv in the inner one.
Take(kind) ==
    /\ pc = "recv" /\ chan # <<>>
    /\ Head(chan).kind = kind
    /\ chan' = Tail(chan)

\* A line of the outer loop opens a batch, which ends with a flush.
TakeLine ==
    /\ Take("line")
    /\ cur' = Head(chan).id
    /\ pc' = "write"
    /\ batch' = TRUE
    /\ needFlush' = (batch => needFlush)
    /\ tries' = 0
    /\ UNCHANGED <<requests, acking, wire>>

\* Mutant: the request is answered before the flush.
TakeFlushAtOnce ==
    /\ Take("flush")
    /\ acking' = Head(chan).by
    /\ pc' = "ack"
    /\ needFlush' = FALSE
    /\ UNCHANGED <<requests, cur, batch, tries, wire>>

\* A flush request inside a batch takes the flush at the end of it away.
TakeFlush ==
    /\ Take("flush")
    /\ acking' = Head(chan).by
    /\ pc' = "flush"
    /\ needFlush' = FALSE
    /\ UNCHANGED <<requests, cur, batch, tries, wire>>

\* try_recv finds nothing: the batch ends.
BatchDone ==
    /\ pc = "recv" /\ chan = <<>> /\ batch
    /\ batch' = FALSE
    /\ pc' = IF needFlush THEN "flush" ELSE "recv"
    /\ needFlush' = FALSE
    /\ UNCHANGED <<requests, chan, cur, acking, tries, wire>>

\* recv finds the sender dropped.
Disconnected ==
    /\ pc = "recv" /\ chan = <<>> /\ ~batch /\ closed
    /\ pc' = "exit"
    /\ UNCHANGED <<requests, chan, control, wire>>

\* The connection takes a line: a BufWriter keeps it, after it has handed on
\* what it holds if the line does not fit, or hands on everything.  What is
\* handed on waits for a server that reads.
Accept ==
    \/ Buffered /\ wbuf' = Append(wbuf, cur) /\ UNCHANGED socket
    \/ Buffered /\ reading /\ wbuf' = <<cur>> /\ socket' = socket \o wbuf
    \/ reading /\ wbuf' = <<>> /\ socket' = socket \o wbuf \o <<cur>>

\* self.writer = None: the BufWriter, when it is dropped, hands on what the
\* failed connection still takes; the rest is lost.
DropWriter ==
    /\ up' = FALSE
    /\ wbuf' = <<>>
    /\ \E n \in 0..Len(wbuf) :
        /\ socket' = socket \o SubSeq(wbuf, 1, n)
        /\ lost' = lost \cup {wbuf[k] : k \in n + 1..Len(wbuf)}
    /\ UNCHANGED reading

\* write, and its second write_all once connected again.
Write ==
    /\ pc \in {"write", "rewrite"} /\ up
    /\ Accept
    /\ cur' = 0
    /\ pc' = "recv"
    /\ UNCHANGED <<requests, chan, acking, batch, needFlush, tries, up, reading, lost>>

\* Mutant: write returns after the first failure.
NotRetried ==
    /\ pc \in {"write", "rewrite"} /\ up /\ "write" \in Faults
    /\ DropWriter
    /\ pc' = "recv"
    /\ UNCHANGED <<requests, chan, control>>

WriteFail ==
    /\ pc \in {"write", "rewrite"} /\ up /\ "write" \in Faults
    /\ DropWriter
    /\ pc' = IF pc = "write" THEN "connect" ELSE "elapsed"
    /\ UNCHANGED <<requests, chan, control>>

NotConnected ==
    /\ pc = "write" /\ ~up
    /\ pc' = "connect"
    /\ UNCHANGED <<requests, chan, control, wire>>

\* The retry loop of write: sleep, reinit, and the write again.  Only over tcp
\* has the attempt a timeout (ConnectFail): a unix stream waits for a server
\* that accepts.
Connect ==
    /\ pc = "connect" /\ reading
    /\ up' = TRUE
    /\ pc' = "rewrite"
    /\ UNCHANGED <<requests, chan, control, reading, wbuf, socket, lost>>

ConnectFail ==
    /\ pc = "connect" /\ "connect" \in Faults
    /\ pc' = "elapsed"
    /\ UNCHANGED <<requests, chan, control, wire>>

TryAgain ==
    /\ pc = "elapsed" /\ tries + 1 < MaxTries
    /\ tries' = tries + 1
    /\ pc' = "connect"
    /\ UNCHANGED <<requests, chan, cur, acking, batch, needFlush, wire>>

\* Mutants: the timeout does not end the loop; the line goes back to the queue.
TryForever ==
    /\ pc = "elapsed"
    /\ pc' = "connect"
    /\ UNCHANGED <<requests, chan, control, wire>>

Requeue ==
    /\ pc = "elapsed"
    /\ chan' = Append(chan, LineMsg(cur))
    /\ cur' = 0
    /\ pc' = "recv"
    /\ UNCHANGED <<requests, acking, batch, needFlush, tries, wire>>

\* The time is over: the line is dropped.
GiveUp ==
    /\ pc = "elapsed"
    /\ lost' = lost \cup {cur}
    /\ cur' = 0
    /\ pc' = "recv"
    /\ UNCHANGED <<requests, chan, acking, batch, needFlush, tries, up, reading, wbuf, socket>>

\* Where flush is called from decides what follows it.
Return == pc' = CASE pc = "exit"              -> "done"
                  [] pc # "exit" /\ acking # 0 -> "ack"
                  [] pc # "exit" /\ acking = 0 -> "recv"

Flush ==
    /\ pc \in {"flush", "exit"} /\ up
    /\ wbuf # <<>> => reading
    /\ wbuf' = <<>> /\ socket' = socket \o wbuf
    /\ Return
    /\ UNCHANGED <<requests, chan, control, up, reading, lost>>

FlushFail ==
    /\ pc \in {"flush", "exit"} /\ up /\ Buffered /\ "flush" \in Faults
    /\ DropWriter
    /\ Return
    /\ UNCHANGED <<requests, chan, control>>

FlushNoWriter ==
    /\ pc \in {"flush", "exit"} /\ ~up
    /\ Return
    /\ UNCHANGED <<requests, chan, control, wire>>

\* o.call_once.
Ack ==
    /\ pc = "ack"
    /\ app' = [app EXCEPT ![acking] = "idle"]
    /\ acking' = 0
    /\ pc' = "recv"
    /\ UNCHANGED <<mark, sent, closed, chan, cur, batch, needFlush, tries, wire>>

-----------------------------------------------------------------------------
\* The server keeps the connection and stops reading, with the buffers of the
\* system in between full; it may read again.
Stall ==
    /\ reading /\ "stall" \in Faults
    /\ reading' = FALSE
    /\ UNCHANGED <<requests, chan, pc, control, up, wbuf, socket, lost>>

Resume ==
    /\ ~reading
    /\ reading' = TRUE
    /\ UNCHANGED <<requests, chan, pc, control, up, wbuf, socket, lost>>

AppStep == DropSink \/ \E t \in Threads : CallLog(t) \/ CallFlush(t) \/ SendLine(t) \/ SendFlush(t)

BackendStep == TakeLine \/ TakeFlush \/ BatchDone \/ Disconnected \/ Write
                 \/ NotConnected \/ Connect \/ TryAgain \/ GiveUp
                 \/ Flush \/ FlushNoWriter \/ Ack

\* What the server decides, a call of the backend that fails included.
ServerStep == WriteFail \/ ConnectFail \/ FlushFail \/ Stall \/ Resume

Next == AppStep \/ BackendStep \/ ServerStep

Spec == Init /\ [][Next]_vars

\* The backend thread is scheduled, and a blocked send gets its turn: several
\* threads may compete for the room, hence the strong fairness.  So does the
\* call that waits for the server, when the server reads again and again: the
\* room it makes stays until the backend uses it.  The server owes nothing.
FairSpec == /\ Spec
            /\ SF_vars(BackendStep)
            /\ \A t \in Threads : SF_vars(SendLine(t)) /\ SF_vars(SendFlush(t))

-----------------------------------------------------------------------------
Message == [kind : {"line", "flush"}, id : 0..MaxLines, by : Threads \cup {0}]

\* Types, with the bounds of the instance.
TypeOK ==
    /\ app \in [Threads -> {"idle", "line", "flush", "waiting"}]
    /\ mark \in [Threads -> 0..MaxLines]
    /\ chan \in Seq(Message) /\ Len(chan) <= Cap
    /\ sent \in 0..MaxLines /\ closed \in BOOLEAN
    /\ pc \in {"recv", "write", "rewrite", "connect", "elapsed", "flush", "ack", "exit", "done"}
    /\ cur \in 0..MaxLines /\ acking \in Threads \cup {0}
    /\ batch \in BOOLEAN /\ needFlush \in BOOLEAN /\ tries \in 0..MaxTries
    /\ up \in BOOLEAN /\ reading \in BOOLEAN
    /\ wbuf \in Seq(Lines) /\ socket \in Seq(Lines) /\ lost \subseteq Lines

Out == ToSet(socket) \cup lost

\* Every line sent is in exactly one place, whatever fails: the channel, the
\* hand, the BufWriter, the socket, or among the lines known to be lost.
Places(i) == {p \in {"chan", "hand", "wbuf", "socket", "lost"} :
                \/ p = "chan" /\ \E k \in 1..Len(chan) : chan[k].id = i
                \/ p = "hand" /\ cur = i
                \/ p = "wbuf" /\ i \in ToSet(wbuf)
                \/ p = "socket" /\ i \in ToSet(socket)
                \/ p = "lost" /\ i \in lost}
Conservation == \A i \in 1..sent : Cardinality(Places(i)) = 1

\* Across failures and new connections the server never sees a line before an
\* earlier one, nor twice.
InOrder == \A j, k \in 1..Len(socket) : j < k => socket[j] < socket[k]

\* "In order to prevent hang up, the message will be dropped after a timeout":
\* a call of log or flush returns, whatever the server refuses or breaks, if it
\* never stops reading for good.
Returns(t)  == (app[t] # "idle") ~> (app[t] = "idle")
CallsReturn == []<>reading => \A t \in Threads : Returns(t)

\* The same sentence as it stands, and "Drop msg when syslog server fail after
\* a timeout": a call returns whatever the server does.
NeverHangsUp == \A t \in Threads : Returns(t)

\* The sink as the threads of the program see it: flushes and order, failures
\* included (a line that is lost has left memory).
Stream == INSTANCE LogStream WITH
    accepted <- sent, out <- Out,
    request <- [t \in Threads |-> IF app[t] = "waiting" THEN mark[t] ELSE -1]
ImplementsStream == Stream!Spec

\* "the message is sent to channel, and asynchronous flushed by backend
\* writer": a line that was sent leaves memory, even if nothing follows it.
LinesGetOut == \A i \in Lines : (sent >= i) ~> (i \in Out)

=============================================================================
