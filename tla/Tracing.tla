------------------------------- MODULE Tracing -------------------------------
(***************************************************************************)
(* CaptainsLogLayer of src/src/tracing_bridge.rs: the callbacks by which a   *)
(* stack of layers logs the life of tracing spans.                           *)
(*                                                                         *)
(* A call on a span runs through the stack one layer after another, on the   *)
(* thread of the caller; other threads run between any two of them.  What a  *)
(* formatter has collected of a span's attributes is kept in the extensions  *)
(* of the span, one entry per formatter TYPE, under the span's lock, which a *)
(* callback holds while it formats and logs.  The registry, the references   *)
(* that keep a span alive and the lock are tracing-subscriber's.             *)
(***************************************************************************)
EXTENDS Integers, Sequences, FiniteSets, SequencesExt

CONSTANTS
    Threads,
    Spans,     \* span ids, each used once
    Fields,    \* attributes, each recorded at most once per span
    Stack      \* the layers, innermost first: see CaptainsLogLayer

VARIABLES
    alive,     \* the registry: spans created and not closed yet
    unused,    \* ids not given out yet
    handles,   \* span -> threads that hold a Span handle
    entered,   \* span -> threads that have entered it
    ext,       \* span -> formatter type -> the text collected, in extensions
    lock,      \* span -> who holds the lock of its extensions, and how
    op,        \* thread -> the call it makes
    last,      \* layer, span -> the last line logged
    recorded   \* span -> the attributes given to it (for the properties)

vars     == <<alive, unused, handles, entered, ext, lock, op, last, recorded>>
registry == <<alive, unused, handles, entered, recorded>>

NoField == "nofield"
NoLine  == [action |-> "none", text |-> <<>>]
Idle    == [kind |-> "idle"]

-----------------------------------------------------------------------------
\* CaptainsLogLayer: the formatter type and the callbacks that are disabled.

AllCallbacks == {"new", "record", "enter", "exit", "close"}

CaptainsLogLayer(form) == [form |-> form, off |-> {}]
DisableEnter(layer)    == [layer EXCEPT !.off = @ \cup {"enter"}]
DisableExit(layer)     == [layer EXCEPT !.off = @ \cup {"exit"}]
DisableClose(layer)    == [layer EXCEPT !.off = @ \cup {"close"}]
DisableRecord(layer)   == [layer EXCEPT !.off = @ \cup {"record"}]
DisableSpan(layer)     == [layer EXCEPT !.off = AllCallbacks]

Layers == 1..Len(Stack)

\* What the builder methods can make of a layer: the callback for new spans is
\* disabled with all the others or not at all.
ASSUME StackAssumption ==
    /\ Len(Stack) \in Nat
    /\ \A l \in Layers : \/ Stack[l].off = AllCallbacks
                          \/ Stack[l].off \subseteq AllCallbacks \ {"new"}
ASSUME FieldsAssumption == NoField \notin Fields

\* TracingText: what has been recorded, in order; a visit appends.
Visit(text, f) == IF f = NoField THEN text ELSE Append(text, f)

-----------------------------------------------------------------------------
Init ==
    /\ alive = {} /\ unused = Spans
    /\ handles = [s \in Spans |-> {}]
    /\ entered = [s \in Spans |-> {}]
    /\ ext = [s \in Spans |-> <<>>]
    /\ lock = [s \in Spans |-> {}]
    /\ op = [t \in Threads |-> Idle]
    /\ last = [ls \in Layers \X Spans |-> NoLine]
    /\ recorded = [s \in Spans |-> {}]

\* A call enters the innermost layer.  A nested event is the one that the
\* formatting of a value makes.
Call(t, kind, s, f) ==
    /\ op[t] = Idle
    /\ op' = [op EXCEPT ![t] = [kind |-> kind, span |-> s, field |-> f, at |-> 1,
                                phase |-> "call", text |-> <<>>, event |-> 0]]

-----------------------------------------------------------------------------
\* What the program does with spans.

NewSpan(t) ==
    \E s \in unused, f \in Fields \cup {NoField} :
        /\ Call(t, "new", s, f)
        /\ unused' = unused \ {s}
        /\ alive' = alive \cup {s}
        /\ handles' = [handles EXCEPT ![s] = {t}]
        /\ recorded' = [recorded EXCEPT ![s] = {f} \ {NoField}]
        /\ UNCHANGED <<entered, ext, lock, last>>

\* Span::clone for another thread.
Give(t) ==
    /\ op[t] = Idle
    /\ \E s \in alive, u \in Threads :
        /\ t \in handles[s] /\ u \notin handles[s]
        /\ handles' = [handles EXCEPT ![s] = @ \cup {u}]
    /\ UNCHANGED <<alive, unused, entered, ext, lock, op, last, recorded>>

Record(t) ==
    \E s \in alive, f \in Fields :
        /\ t \in handles[s] /\ f \notin recorded[s]
        /\ Call(t, "record", s, f)
        /\ recorded' = [recorded EXCEPT ![s] = @ \cup {f}]
        /\ UNCHANGED <<alive, unused, handles, entered, ext, lock, last>>

Enter(t) ==
    \E s \in alive :
        /\ t \in handles[s] \ entered[s]
        /\ Call(t, "enter", s, NoField)
        /\ entered' = [entered EXCEPT ![s] = @ \cup {t}]
        /\ UNCHANGED <<alive, unused, handles, ext, lock, last, recorded>>

Exit(t) ==
    \E s \in alive :
        /\ t \in entered[s]
        /\ Call(t, "exit", s, NoField)
        /\ entered' = [entered EXCEPT ![s] = @ \ {t}]
        /\ UNCHANGED <<alive, unused, handles, ext, lock, last, recorded>>

\* A handle is dropped; the last one closes the span.
DropSpan(t) ==
    \E s \in alive :
        /\ t \in handles[s] \ entered[s]
        /\ handles' = [handles EXCEPT ![s] = @ \ {t}]
        /\ IF handles[s] = {t} THEN Call(t, "close", s, NoField)
                               ELSE op[t] = Idle /\ UNCHANGED op
        /\ UNCHANGED <<alive, unused, entered, ext, lock, last, recorded>>

-----------------------------------------------------------------------------
\* The callbacks of the layer that call t has reached.

Layer(t) == Stack[op[t].at]
Text(t)  == ext[op[t].span][Layer(t).form]
Known(t) == Layer(t).form \in DOMAIN ext[op[t].span]
InCall(t, kinds) == op[t] # Idle /\ op[t].kind \in kinds /\ op[t].at \in Layers

\* The next layer, with the lock given back.
Leave(t) ==
    /\ op' = [op EXCEPT ![t].at = @ + 1, ![t].phase = "call", ![t].event = 0]
    /\ lock' = [lock EXCEPT ![op[t].span] = @ \ {<<t, "read">>, <<t, "write">>}]

SharedLock    == {"write"}            \* mutant: extensions() instead of extensions_mut()
ExclusiveLock == {"read", "write"}

Free(s, hows) == \A holder \in lock[s] : holder[2] \notin hows

\* Mutant: on_record asks disable_record.
SkippedByOwnFlag(t) == op[t].kind \in Layer(t).off

\* The early returns: on_record asks disable_span_new.
Skipped(t) ==
    \/ op[t].kind \in Layer(t).off \ {"record"}
    \/ op[t].kind = "record" /\ "new" \in Layer(t).off

Skip(t) ==
    /\ InCall(t, AllCallbacks) /\ op[t].phase = "call"
    /\ Skipped(t)
    /\ Leave(t)
    /\ UNCHANGED <<registry, ext, last>>

\* on_new_span and on_record take the lock exclusively and let the formatter
\* visit the values; on_enter, on_exit and on_close share it.
ForWriting(t) ==
    /\ InCall(t, {"new", "record"}) /\ op[t].phase = "call"
    /\ ~Skipped(t)
    /\ Free(op[t].span, ExclusiveLock)
    /\ lock' = [lock EXCEPT ![op[t].span] = @ \cup {<<t, "write">>}]
    /\ op' = [op EXCEPT ![t].phase = "held",
                        ![t].text = Visit(IF Known(t) THEN Text(t) ELSE <<>>, op[t].field)]
    /\ UNCHANGED <<registry, ext, last>>

ForReading(t) ==
    /\ InCall(t, {"enter", "exit", "close"}) /\ op[t].phase = "call"
    /\ ~Skipped(t)
    /\ Free(op[t].span, {"write"})
    /\ lock' = [lock EXCEPT ![op[t].span] = @ \cup {<<t, "read">>}]
    /\ op' = [op EXCEPT ![t].phase = "held", ![t].text = IF Known(t) THEN Text(t) ELSE <<>>]
    /\ UNCHANGED <<registry, ext, last>>

\* The Debug of a value that is being recorded logs an event of its own.
FormatEvent(t) ==
    /\ InCall(t, {"new", "record"}) /\ op[t].phase = "held"
    /\ op[t].field # NoField /\ op[t].event = 0
    /\ op' = [op EXCEPT ![t].event = 1]
    /\ UNCHANGED <<registry, ext, lock, last>>

\* Mutant: the event is formatted with the attributes of its span.
OnEventInSpan(t) == Free(op[t].span, {"read", "write"})

\* on_event needs nothing of the span: it takes no lock.
OnEventReady(t) == TRUE

\* on_event, one layer after another.
OnEvent(t) ==
    /\ InCall(t, {"new", "record"}) /\ op[t].event \in Layers
    /\ OnEventReady(t)
    /\ op' = [op EXCEPT ![t].event = @ + 1]
    /\ UNCHANGED <<registry, ext, lock, last>>

\* The formatting is over.
Formatted(t) == op[t].phase = "held" /\ op[t].event \notin Layers

Line(t) == last' = [last EXCEPT ![<<op[t].at, op[t].span>>] =
                        [action |-> op[t].kind, text |-> op[t].text]]
Keep(t) == ext' = [ext EXCEPT ![op[t].span] =
                [f \in DOMAIN @ \cup {Layer(t).form} |->
                    IF f = Layer(t).form THEN op[t].text ELSE @[f]]]

\* on_new_span: only when no layer has made the entry yet.
OnNewSpan(t) ==
    /\ InCall(t, {"new"}) /\ Formatted(t)
    /\ IF Known(t) THEN UNCHANGED <<ext, last>> ELSE Line(t) /\ Keep(t)
    /\ Leave(t)
    /\ UNCHANGED registry

\* on_record: the text is kept also when the line is disabled.
OnRecord(t) ==
    /\ InCall(t, {"record"}) /\ Formatted(t)
    /\ IF "record" \in Layer(t).off THEN UNCHANGED last ELSE Line(t)
    /\ Keep(t)
    /\ Leave(t)
    /\ UNCHANGED registry

\* on_enter, on_exit, on_close: a line when there is an entry.
OnLook(t) ==
    /\ InCall(t, {"enter", "exit", "close"}) /\ Formatted(t)
    /\ IF Known(t) THEN Line(t) ELSE UNCHANGED last
    /\ Leave(t)
    /\ UNCHANGED <<registry, ext>>

\* The call returns from the outermost layer; the registry removes a closed
\* span and its extensions.
Return(t) ==
    /\ op[t] # Idle /\ op[t].at \notin Layers
    /\ op' = [op EXCEPT ![t] = Idle]
    /\ IF op[t].kind = "close"
       THEN /\ alive' = alive \ {op[t].span}
            /\ ext' = [ext EXCEPT ![op[t].span] = <<>>]
       ELSE UNCHANGED <<alive, ext>>
    /\ UNCHANGED <<unused, handles, entered, lock, last, recorded>>

Program(t)  == NewSpan(t) \/ Give(t) \/ Record(t) \/ Enter(t) \/ Exit(t) \/ DropSpan(t)
Callback(t) == Skip(t) \/ ForWriting(t) \/ ForReading(t) \/ OnEvent(t) \/ OnNewSpan(t)
                 \/ OnRecord(t) \/ OnLook(t) \/ Return(t)

Next == \E t \in Threads : Program(t) \/ FormatEvent(t) \/ Callback(t)

Spec == Init /\ [][Next]_vars

\* A thread inside a call is scheduled and the lock goes to whoever waits for
\* it; nothing makes a program start a call.
FairSpec == Spec /\ \A t \in Threads : SF_vars(Callback(t))

-----------------------------------------------------------------------------
\* Types.
Calls == [kind : AllCallbacks, span : Spans, field : Fields \cup {NoField},
          at : 1..Len(Stack) + 1, phase : {"call", "held"}, text : Seq(Fields),
          event : 0..Len(Stack) + 1]

TypeOK ==
    /\ alive \subseteq Spans /\ unused \subseteq Spans
    /\ handles \in [Spans -> SUBSET Threads] /\ entered \in [Spans -> SUBSET Threads]
    /\ DOMAIN ext = Spans
    /\ \A s \in Spans : \A f \in DOMAIN ext[s] : ext[s][f] \in Seq(Fields)
    /\ lock \in [Spans -> SUBSET (Threads \X {"read", "write"})]
    /\ op \in [Threads -> Calls \cup {Idle}]
    /\ last \in [Layers \X Spans -> [action : AllCallbacks \cup {"none"}, text : Seq(Fields)]]
    /\ recorded \in [Spans -> SUBSET Fields]

\* The log tells the story of a span in order, whatever the threads do: for
\* each layer its first line is "new", none follows "close", and a line never
\* shows fewer attributes, or the same in another order, than the one before.
InStory(l, s) ==
    LET before == last[<<l, s>>]
        after  == last'[<<l, s>>]
    IN  before # after => /\ before.action = "none" <=> after.action = "new"
                          /\ before.action # "close"
                          /\ IsPrefix(before.text, after.text)
SpanStory == [][\A l \in Layers, s \in Spans : InStory(l, s)]_vars

\* Two threads that record at the same time lose nothing: once no call on a
\* span is under way, every formatter that is in use holds each attribute given
\* to the span exactly once.
Quiet(s)   == \A t \in Threads : op[t] = Idle \/ op[t].span # s
InUse(f)   == \E l \in Layers : Stack[l].form = f /\ "new" \notin Stack[l].off
AppliedOnce ==
    \A s \in alive : Quiet(s) =>
        \A f \in {Stack[l].form : l \in Layers} : InUse(f) =>
            /\ f \in DOMAIN ext[s]
            /\ ToSet(ext[s][f]) = recorded[s]
            /\ Len(ext[s][f]) = Cardinality(recorded[s])

\* A call on a span returns: a callback that holds the lock of a span needs
\* nothing that another one holds, not even when a value it formats logs an
\* event from inside.
CallReturns == \A t \in Threads : op[t] # Idle ~> op[t] = Idle

=============================================================================
