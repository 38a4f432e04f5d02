---------------------------- MODULE TracingProofs ----------------------------
(***************************************************************************)
(* Proofs about the tracing bridge: what its layers collect and log of a     *)
(* span, for any number of threads, spans, attributes and layers, when no    *)
(* two layers that look at spans share a formatter type.                     *)
(***************************************************************************)
EXTENDS Tracing, FiniteSetTheorems, SequenceTheorems, TLAPS

\* Layers that look at spans have formatter types of their own.
Using(l) == "new" \notin Stack[l].off
TypesApart == \A l, m \in Layers : Using(l) /\ Using(m) /\ Stack[l].form = Stack[m].form => l = m

\* A call on a span that gives it attributes, one that only looks at it.
Busy(t, s)    == op[t] # Idle /\ op[t].span = s
Writing(t, s) == Busy(t, s) /\ op[t].kind \in {"new", "record"}
Holds(t, s)   == Busy(t, s) /\ op[t].phase = "held"

\* Who may make a call on a span: its holders; while one creates or closes it
\* nobody else can.
Owners ==
    /\ \A s \in unused : s \notin alive /\ handles[s] = {}
    /\ \A s \in Spans : entered[s] \subseteq handles[s]
    /\ \A t \in Threads, s \in Spans : Busy(t, s) =>
        /\ s \in alive
        /\ op[t].kind = "new"    => handles[s] = {t}
        /\ op[t].kind = "close"  => handles[s] = {}
        /\ op[t].kind # "close"  => t \in handles[s]
    /\ \A t, u \in Threads, s \in Spans :
        Busy(t, s) /\ Busy(u, s) /\ op[t].kind = "close" => t = u

\* The attribute a call gives is the span's, and no other call gives it.
Givers ==
    /\ \A t \in Threads, s \in Spans : Writing(t, s) =>
        /\ op[t].field # NoField => op[t].field \in recorded[s]
        /\ op[t].kind = "record" => op[t].field # NoField
        /\ op[t].kind = "new" => recorded[s] = {op[t].field} \ {NoField}
    /\ \A t, u \in Threads, s \in Spans :
        Writing(t, s) /\ Writing(u, s) /\ op[t].field = op[u].field => t = u

\* The lock of a span's extensions is with the callbacks that are inside it, and
\* one that writes is alone.
Mode(t) == IF op[t].kind \in {"new", "record"} THEN "write" ELSE "read"
Locked ==
    /\ \A s \in Spans : lock[s] = {h \in Threads \X {"read", "write"} :
                                      Holds(h[1], s) /\ h[2] = Mode(h[1])}
    /\ \A t, u \in Threads, s \in Spans : Holds(t, s) /\ Holds(u, s) /\ Writing(t, s) => t = u
    /\ \A t \in Threads, s \in Spans : Holds(t, s) => op[t].at \in Layers /\ ~Skipped(t)

\* What a callback inside the lock has read is still what is there.
Fresh ==
    \A t \in Threads, s \in Spans : Holds(t, s) =>
        op[t].text = Visit(IF Known(t) THEN Text(t) ELSE <<>>,
                           IF Writing(t, s) THEN op[t].field ELSE NoField)

\* A call that has still to reach a layer, or to leave it.
Ahead(t, l, s) == Writing(t, s) /\ op[t].at <= l
Once(text)     == IsFiniteSet(ToSet(text)) /\ Len(text) = Cardinality(ToSet(text))

\* The entry of a formatter is there once its layer has seen the new span, and
\* has the attributes of all calls that have passed the layer, each once.
Entered(s, l) ==
    LET form == Stack[l].form IN
    /\ form \in DOMAIN ext[s] <=>
            ~\E t \in Threads : Ahead(t, l, s) /\ op[t].kind = "new"
    /\ form \in DOMAIN ext[s] =>
        /\ Once(ext[s][form])
        /\ \A x \in Fields : x \in ToSet(ext[s][form]) <=>
            x \in recorded[s] /\ ~\E t \in Threads : Ahead(t, l, s) /\ op[t].field = x
Collected ==
    /\ \A s \in unused : DOMAIN ext[s] = {}
    /\ \A s \in alive, l \in Layers : Using(l) => Entered(s, l)

\* The last line of a layer about a span against the entry of its formatter.
Tells(s, l) ==
    /\ ~Using(l) \/ s \in unused => last[<<l, s>>] = NoLine
    /\ Using(l) /\ s \in alive =>
        IF Stack[l].form \in DOMAIN ext[s]
        THEN /\ last[<<l, s>>].action # "none"
             /\ IsPrefix(last[<<l, s>>].text, ext[s][Stack[l].form])
        ELSE last[<<l, s>>] = NoLine
    /\ last[<<l, s>>].action = "close" /\ s \in alive =>
        \E t \in Threads : Busy(t, s) /\ op[t].kind = "close" /\ op[t].at > l
Told == \A s \in Spans, l \in Layers : Tells(s, l)

IInv == TypeOK /\ Owners /\ Givers /\ Locked /\ Fresh /\ Collected /\ Told

-----------------------------------------------------------------------------
LEMMA CallIsNotIdle == \A c \in Calls : c # Idle
<1> SUFFICES ASSUME NEW c \in Calls, c = Idle PROVE FALSE
    OBVIOUS
<1>1. c.kind \in AllCallbacks
    BY DEF Calls
<1>2. c.kind = "idle"
    BY DEF Idle
<1> QED BY <1>1, <1>2 DEF AllCallbacks

LEMMA BusyFacts ==
    ASSUME TypeOK, NEW t \in Threads, op[t] # Idle
    PROVE  /\ op[t] \in Calls
           /\ op[t].kind \in AllCallbacks /\ op[t].span \in Spans /\ op[t].field \in Fields \cup {NoField}
           /\ op[t].at \in 1..Len(Stack) + 1 /\ op[t].phase \in {"call", "held"}
           /\ op[t].text \in Seq(Fields) /\ op[t].event \in 0..Len(Stack) + 1
           /\ op[t].at \in Nat
BY StackAssumption DEF TypeOK, Calls

\* The program makes a call.
Begins(t, kind, s, f) ==
    /\ op[t] = Idle /\ op'[t] # Idle /\ op'[t] \in Calls
    /\ op'[t].kind = kind /\ op'[t].span = s /\ op'[t].field = f
    /\ op'[t].at = 1 /\ op'[t].phase = "call"
    /\ \A u \in Threads : u # t => op'[u] = op[u]
    /\ op' \in [Threads -> Calls \cup {Idle}]

LEMMA CallBegins ==
    ASSUME TypeOK, NEW t \in Threads, NEW kind \in AllCallbacks, NEW s \in Spans,
           NEW f \in Fields \cup {NoField}, Call(t, kind, s, f)
    PROVE  Begins(t, kind, s, f)
<1> DEFINE c == [kind |-> kind, span |-> s, field |-> f, at |-> 1, phase |-> "call",
                 text |-> <<>>, event |-> 0]
<1>1. op[t] = Idle /\ op' = [op EXCEPT ![t] = c]
    BY DEF Call
<1>2. c \in Calls
  <2>1. 1 \in 1..Len(Stack) + 1 /\ 0 \in 0..Len(Stack) + 1
    BY StackAssumption
  <2>2. <<>> \in Seq(Fields)
    BY EmptySeq
  <2> QED BY <2>1, <2>2 DEF Calls
<1>3. c # Idle
    BY <1>2, CallIsNotIdle
<1>4. op'[t] = c /\ \A u \in Threads : u # t => op'[u] = op[u]
    BY <1>1 DEF TypeOK
<1>5. op' \in [Threads -> Calls \cup {Idle}]
    BY <1>1, <1>2 DEF TypeOK
<1>6. /\ c.kind = kind /\ c.span = s /\ c.field = f /\ c.at = 1 /\ c.phase = "call"
    OBVIOUS
<1> HIDE DEF c
<1> QED BY <1>1, <1>2, <1>3, <1>4, <1>5, <1>6 DEF Begins

\* A call goes on: the same call, on the same span, with the same attribute.
GoesOn(t) ==
    /\ op[t] # Idle /\ op'[t] # Idle /\ op'[t] \in Calls
    /\ op'[t].kind = op[t].kind /\ op'[t].span = op[t].span /\ op'[t].field = op[t].field
    /\ \A u \in Threads : u # t => op'[u] = op[u]
    /\ op' \in [Threads -> Calls \cup {Idle}]
    /\ UNCHANGED registry

\* It leaves a layer, with the lock given back.
Leaves(t) ==
    /\ GoesOn(t)
    /\ op'[t].at = op[t].at + 1 /\ op'[t].phase = "call"
    /\ lock' = [lock EXCEPT ![op[t].span] = @ \ {<<t, "read">>, <<t, "write">>}]

LEMMA LeaveLeaves ==
    ASSUME TypeOK, NEW t \in Threads, op[t] # Idle, op[t].at \in Layers, Leave(t), UNCHANGED registry
    PROVE  Leaves(t)
<1>1. op[t] \in Calls /\ op[t].at + 1 \in 1..Len(Stack) + 1 /\ 0 \in 0..Len(Stack) + 1
    BY StackAssumption, BusyFacts DEF Layers
<1> DEFINE c == [op[t] EXCEPT !.at = @ + 1, !.phase = "call", !.event = 0]
<1>2. op' = [op EXCEPT ![t] = c]
    BY DEF Leave
<1>3. c \in Calls
    BY <1>1 DEF Calls
<1>4. /\ c.kind = op[t].kind /\ c.span = op[t].span /\ c.field = op[t].field
      /\ c.at = op[t].at + 1 /\ c.phase = "call"
    BY <1>1 DEF Calls
<1> HIDE DEF c
<1>5. op'[t] = c /\ op' \in [Threads -> Calls \cup {Idle}] /\ \A u \in Threads : u # t => op'[u] = op[u]
    BY <1>2, <1>3 DEF TypeOK
<1>6. c # Idle
    BY <1>3, CallIsNotIdle
<1> QED BY <1>3, <1>4, <1>5, <1>6 DEF Leaves, GoesOn, Leave

\* It enters the lock: the text is what it finds there, and what it was given.
Takes(t) ==
    /\ GoesOn(t)
    /\ op'[t].at = op[t].at /\ op[t].at \in Layers /\ op[t].phase = "call" /\ op'[t].phase = "held"
    /\ ~Skipped(t) /\ UNCHANGED <<ext, last>>

LEMMA VisitType ==
    ASSUME NEW text \in Seq(Fields), NEW f \in Fields \cup {NoField}
    PROVE  Visit(text, f) \in Seq(Fields)
BY DEF Visit

LEMMA TextType ==
    ASSUME TypeOK, NEW t \in Threads, op[t] # Idle
    PROVE  (IF Known(t) THEN Text(t) ELSE <<>>) \in Seq(Fields)
<1>1. <<>> \in Seq(Fields)
    BY EmptySeq
<1>2. op[t].span \in Spans
    BY BusyFacts
<1> QED BY <1>1, <1>2 DEF TypeOK, Known, Text

LEMMA WritingTakes ==
    ASSUME TypeOK, NEW t \in Threads, ForWriting(t)
    PROVE  /\ Takes(t) /\ op[t].kind \in {"new", "record"}
           /\ op'[t].text = Visit(IF Known(t) THEN Text(t) ELSE <<>>, op[t].field)
           /\ lock' = [lock EXCEPT ![op[t].span] = @ \cup {<<t, "write">>}]
           /\ Free(op[t].span, ExclusiveLock)
<1> DEFINE x == Visit(IF Known(t) THEN Text(t) ELSE <<>>, op[t].field)
           c == [op[t] EXCEPT !.phase = "held", !.text = x]
<1>1. /\ op[t] # Idle /\ op[t].kind \in {"new", "record"} /\ op[t].at \in Layers /\ op[t].phase = "call"
      /\ ~Skipped(t) /\ UNCHANGED <<registry, ext, last>>
      /\ lock' = [lock EXCEPT ![op[t].span] = @ \cup {<<t, "write">>}]
      /\ Free(op[t].span, ExclusiveLock)
    BY DEF ForWriting, InCall
<1>2. x \in Seq(Fields) /\ op[t] \in Calls
    BY <1>1, BusyFacts, TextType, VisitType
<1>3. op' = [op EXCEPT ![t] = c]
    BY DEF ForWriting
<1> HIDE DEF x
<1>4. c \in Calls
    BY <1>2 DEF Calls
<1>5. /\ c.kind = op[t].kind /\ c.span = op[t].span /\ c.field = op[t].field
      /\ c.at = op[t].at /\ c.phase = "held" /\ c.text = x
    BY <1>2 DEF Calls
<1> HIDE DEF c
<1>6. op'[t] = c /\ op' \in [Threads -> Calls \cup {Idle}] /\ \A u \in Threads : u # t => op'[u] = op[u]
    BY <1>3, <1>4 DEF TypeOK
<1>7. c # Idle
    BY <1>4, CallIsNotIdle
<1>8. Takes(t)
    BY <1>1, <1>4, <1>5, <1>6, <1>7 DEF Takes, GoesOn
<1> QED BY <1>1, <1>5, <1>6, <1>8 DEF x

LEMMA ReadingTakes ==
    ASSUME TypeOK, NEW t \in Threads, ForReading(t)
    PROVE  /\ Takes(t) /\ op[t].kind \in {"enter", "exit", "close"}
           /\ op'[t].text = IF Known(t) THEN Text(t) ELSE <<>>
           /\ lock' = [lock EXCEPT ![op[t].span] = @ \cup {<<t, "read">>}]
           /\ Free(op[t].span, {"write"})
<1> DEFINE x == IF Known(t) THEN Text(t) ELSE <<>>
           c == [op[t] EXCEPT !.phase = "held", !.text = x]
<1>1. /\ op[t] # Idle /\ op[t].kind \in {"enter", "exit", "close"} /\ op[t].at \in Layers
      /\ op[t].phase = "call" /\ ~Skipped(t) /\ UNCHANGED <<registry, ext, last>>
      /\ lock' = [lock EXCEPT ![op[t].span] = @ \cup {<<t, "read">>}]
      /\ Free(op[t].span, {"write"})
    BY DEF ForReading, InCall
<1>2. x \in Seq(Fields) /\ op[t] \in Calls
    BY <1>1, BusyFacts, TextType
<1>3. op' = [op EXCEPT ![t] = c]
    BY DEF ForReading
<1> HIDE DEF x
<1>4. c \in Calls
    BY <1>2 DEF Calls
<1>5. /\ c.kind = op[t].kind /\ c.span = op[t].span /\ c.field = op[t].field
      /\ c.at = op[t].at /\ c.phase = "held" /\ c.text = x
    BY <1>2 DEF Calls
<1> HIDE DEF c
<1>6. op'[t] = c /\ op' \in [Threads -> Calls \cup {Idle}] /\ \A u \in Threads : u # t => op'[u] = op[u]
    BY <1>3, <1>4 DEF TypeOK
<1>7. c # Idle
    BY <1>4, CallIsNotIdle
<1>8. Takes(t)
    BY <1>1, <1>4, <1>5, <1>6, <1>7 DEF Takes, GoesOn
<1> QED BY <1>1, <1>5, <1>6, <1>8 DEF x

\* An event logged while a value is formatted goes through the layers and
\* touches nothing of the span.
Formats(t) ==
    /\ GoesOn(t)
    /\ op'[t].at = op[t].at /\ op'[t].phase = op[t].phase /\ op'[t].text = op[t].text
    /\ UNCHANGED <<ext, lock, last>>

LEMMA EventFormats ==
    ASSUME TypeOK, NEW t \in Threads, FormatEvent(t) \/ OnEvent(t)
    PROVE  Formats(t)
<1>1. op[t] # Idle /\ UNCHANGED <<registry, ext, lock, last>>
    BY DEF FormatEvent, OnEvent, InCall
<1>2. PICK e \in 0..Len(Stack) + 1 : op' = [op EXCEPT ![t].event = e]
  <2>1. CASE FormatEvent(t)
    <3>1. 1 \in 0..Len(Stack) + 1
      BY StackAssumption
    <3>2. op' = [op EXCEPT ![t].event = 1]
      BY <2>1 DEF FormatEvent
    <3> QED BY <3>1, <3>2
  <2>2. CASE OnEvent(t)
    <3>1. op[t].event \in Layers /\ op' = [op EXCEPT ![t].event = op[t].event + 1]
      BY <2>2 DEF OnEvent
    <3>2. op[t].event + 1 \in 0..Len(Stack) + 1
      BY <3>1, StackAssumption DEF Layers
    <3> QED BY <3>1, <3>2
  <2> QED BY <2>1, <2>2
<1> DEFINE c == [op[t] EXCEPT !.event = e]
<1>3. op[t] \in Calls /\ op' = [op EXCEPT ![t] = c]
    BY <1>1, <1>2, BusyFacts
<1>4. c \in Calls
    BY <1>3 DEF Calls
<1>5. /\ c.kind = op[t].kind /\ c.span = op[t].span /\ c.field = op[t].field
      /\ c.at = op[t].at /\ c.phase = op[t].phase /\ c.text = op[t].text
    BY <1>3 DEF Calls
<1> HIDE DEF c
<1>6. op'[t] = c /\ op' \in [Threads -> Calls \cup {Idle}] /\ \A u \in Threads : u # t => op'[u] = op[u]
    BY <1>3, <1>4 DEF TypeOK
<1>7. c # Idle
    BY <1>4, CallIsNotIdle
<1> QED BY <1>1, <1>4, <1>5, <1>6, <1>7 DEF Formats, GoesOn

\* The call returns.
Ends(t) ==
    /\ op[t] # Idle /\ op'[t] = Idle
    /\ \A u \in Threads : u # t => op'[u] = op[u]
    /\ op' \in [Threads -> Calls \cup {Idle}]

LEMMA ReturnEnds ==
    ASSUME TypeOK, NEW t \in Threads, Return(t)
    PROVE  Ends(t)
BY DEF Return, Ends, TypeOK

-----------------------------------------------------------------------------
LEMMA InitInv == Init => IInv
<1> SUFFICES ASSUME Init PROVE IInv
    OBVIOUS
<1> USE DEF Init
<1>1. /\ \A t \in Threads : op[t] = Idle
      /\ \A s \in Spans : handles[s] = {} /\ entered[s] = {} /\ lock[s] = {} /\ ext[s] = <<>>
      /\ \A l \in Layers, s \in Spans : last[<<l, s>>] = NoLine
      /\ alive = {} /\ unused = Spans
    OBVIOUS
<1>2. TypeOK
  <2>1. <<>> \in Seq(Fields) /\ DOMAIN <<>> = {}
    BY EmptySeq
  <2>2. NoLine \in [action : AllCallbacks \cup {"none"}, text : Seq(Fields)]
    BY <2>1 DEF NoLine
  <2>3. last \in [Layers \X Spans -> [action : AllCallbacks \cup {"none"}, text : Seq(Fields)]]
    BY <2>2
  <2>4. \A s \in Spans : DOMAIN ext[s] = {}
    BY <1>1, <2>1
  <2>5. op \in [Threads -> Calls \cup {Idle}]
    OBVIOUS
  <2> QED BY <2>3, <2>4, <2>5 DEF TypeOK
<1> HIDE DEF Init
<1>3. \A t \in Threads, s \in Spans : ~Busy(t, s)
    BY <1>1 DEF Busy
<1>4. Owners
    BY <1>1, <1>3 DEF Owners
<1>5. Givers /\ Fresh
    BY <1>3 DEF Givers, Writing, Fresh, Holds
<1>6. Locked
    BY <1>1, <1>3 DEF Locked, Holds
<1>7. Collected
  <2>1. DOMAIN <<>> = {}
    OBVIOUS
  <2> QED BY <1>1, <2>1 DEF Collected
<1>8. Told
    BY <1>1 DEF Told, Tells, NoLine
<1> QED BY <1>2, <1>4, <1>5, <1>6, <1>7, <1>8 DEF IInv

\* The steps of the program, by what they do to a span.
Creates(t, s, f) ==
    /\ s \in unused /\ f \in Fields \cup {NoField} /\ Begins(t, "new", s, f)
    /\ unused' = unused \ {s} /\ alive' = alive \cup {s}
    /\ handles' = [handles EXCEPT ![s] = {t}]
    /\ recorded' = [recorded EXCEPT ![s] = {f} \ {NoField}]
    /\ UNCHANGED <<entered, ext, lock, last>>

Gives(t, s, f) ==
    /\ s \in alive /\ f \in Fields /\ Begins(t, "record", s, f)
    /\ t \in handles[s] /\ f \notin recorded[s]
    /\ recorded' = [recorded EXCEPT ![s] = @ \cup {f}]
    /\ UNCHANGED <<alive, unused, handles, entered, ext, lock, last>>

Touches(t, s, kind) ==
    /\ s \in alive /\ kind \in {"enter", "exit"} /\ Begins(t, kind, s, NoField)
    /\ t \in handles[s]
    /\ entered' = [entered EXCEPT ![s] = IF kind = "enter" THEN @ \cup {t} ELSE @ \ {t}]
    /\ UNCHANGED <<alive, unused, handles, ext, lock, last, recorded>>

Closes(t, s) ==
    /\ s \in alive /\ handles[s] = {t} /\ t \notin entered[s]
    /\ Begins(t, "close", s, NoField)
    /\ handles' = [handles EXCEPT ![s] = {}]
    /\ UNCHANGED <<alive, unused, entered, ext, lock, last, recorded>>

\* A handle is given to another thread, or dropped while there are others.
Passes(t, s) ==
    /\ s \in alive /\ t \in handles[s] /\ op[t] = Idle
    /\ \/ \E u \in Threads : handles' = [handles EXCEPT ![s] = @ \cup {u}]
       \/ t \notin entered[s] /\ handles[s] # {t} /\ handles' = [handles EXCEPT ![s] = @ \ {t}]
    /\ UNCHANGED <<alive, unused, entered, ext, lock, op, last, recorded>>

LEMMA ProgramSteps ==
    ASSUME TypeOK, Owners, NEW t \in Threads, Program(t)
    PROVE  \E s \in Spans :
             \/ \E f \in Fields \cup {NoField} : Creates(t, s, f) \/ Gives(t, s, f)
             \/ \E kind \in {"enter", "exit"} : Touches(t, s, kind)
             \/ Closes(t, s)
             \/ Passes(t, s)
<1>0. alive \subseteq Spans /\ unused \subseteq Spans /\ {"new", "record", "enter", "exit", "close"} = AllCallbacks
      /\ NoField \in Fields \cup {NoField}
    BY DEF TypeOK, AllCallbacks
<1>1. CASE NewSpan(t)
  <2>1. PICK s \in unused, f \in Fields \cup {NoField} :
          /\ Call(t, "new", s, f)
          /\ unused' = unused \ {s}
          /\ alive' = alive \cup {s}
          /\ handles' = [handles EXCEPT ![s] = {t}]
          /\ recorded' = [recorded EXCEPT ![s] = {f} \ {NoField}]
          /\ UNCHANGED <<entered, ext, lock, last>>
    BY <1>1 DEF NewSpan
  <2>2. s \in Spans /\ Begins(t, "new", s, f)
    BY <1>0, <2>1, CallBegins
  <2> QED BY <2>1, <2>2 DEF Creates
<1>2. CASE Record(t)
  <2>1. PICK s \in alive, f \in Fields :
          /\ t \in handles[s] /\ f \notin recorded[s]
          /\ Call(t, "record", s, f)
          /\ recorded' = [recorded EXCEPT ![s] = @ \cup {f}]
          /\ UNCHANGED <<alive, unused, handles, entered, ext, lock, last>>
    BY <1>2 DEF Record
  <2>2. s \in Spans /\ Begins(t, "record", s, f)
    BY <1>0, <2>1, CallBegins
  <2> QED BY <2>1, <2>2 DEF Gives
<1>3. CASE Enter(t)
  <2>1. PICK s \in alive :
          /\ t \in handles[s] \ entered[s]
          /\ Call(t, "enter", s, NoField)
          /\ entered' = [entered EXCEPT ![s] = @ \cup {t}]
          /\ UNCHANGED <<alive, unused, handles, ext, lock, last, recorded>>
    BY <1>3 DEF Enter
  <2>2. s \in Spans /\ Begins(t, "enter", s, NoField)
    BY <1>0, <2>1, CallBegins
  <2> QED BY <2>1, <2>2 DEF Touches
<1>4. CASE Exit(t)
  <2>1. PICK s \in alive :
          /\ t \in entered[s]
          /\ Call(t, "exit", s, NoField)
          /\ entered' = [entered EXCEPT ![s] = @ \ {t}]
          /\ UNCHANGED <<alive, unused, handles, ext, lock, last, recorded>>
    BY <1>4 DEF Exit
  <2>2. s \in Spans /\ Begins(t, "exit", s, NoField)
    BY <1>0, <2>1, CallBegins
  <2>3. t \in handles[s]
    BY <2>1, <2>2 DEF Owners
  <2> QED BY <2>1, <2>2, <2>3 DEF Touches
<1>5. CASE DropSpan(t)
  <2>1. PICK s \in alive :
          /\ t \in handles[s] \ entered[s]
          /\ handles' = [handles EXCEPT ![s] = @ \ {t}]
          /\ IF handles[s] = {t} THEN Call(t, "close", s, NoField)
                                 ELSE op[t] = Idle /\ UNCHANGED op
          /\ UNCHANGED <<alive, unused, entered, ext, lock, last, recorded>>
    BY <1>5 DEF DropSpan
  <2>2. CASE handles[s] = {t}
    <3>1. s \in Spans /\ Begins(t, "close", s, NoField)
      BY <1>0, <2>1, <2>2, CallBegins
    <3>2. handles' = [handles EXCEPT ![s] = {}]
      BY <2>1, <2>2
    <3> QED BY <2>1, <2>2, <3>1, <3>2 DEF Closes
  <2>3. CASE handles[s] # {t}
    BY <1>0, <2>1, <2>3 DEF Passes
  <2> QED BY <2>2, <2>3
<1>6. CASE Give(t)
    BY <1>0, <1>6 DEF Give, Passes
<1> QED BY <1>1, <1>2, <1>3, <1>4, <1>5, <1>6 DEF Program

\* The steps of the callbacks.
LEMMA CallbackSteps ==
    ASSUME TypeOK, NEW t \in Threads, Callback(t) \/ FormatEvent(t)
    PROVE  \/ ForWriting(t) /\ Takes(t)
           \/ ForReading(t) /\ Takes(t)
           \/ (Skip(t) \/ OnNewSpan(t) \/ OnRecord(t) \/ OnLook(t)) /\ Leaves(t)
           \/ Formats(t)
           \/ Return(t) /\ Ends(t)
<1>1. CASE Skip(t) \/ OnNewSpan(t) \/ OnRecord(t) \/ OnLook(t)
  <2>1. op[t] # Idle /\ op[t].at \in Layers /\ Leave(t) /\ UNCHANGED registry
    BY <1>1 DEF Skip, OnNewSpan, OnRecord, OnLook, InCall
  <2> QED BY <1>1, <2>1, LeaveLeaves
<1> QED BY <1>1, WritingTakes, ReadingTakes, EventFormats, ReturnEnds DEF Callback

\* What goes on in callbacks leaves calls and registry alone.
LEMMA GoOnSteps ==
    ASSUME TypeOK, NEW t \in Threads, Callback(t) \/ FormatEvent(t)
    PROVE  GoesOn(t) \/ (Return(t) /\ Ends(t))
BY CallbackSteps DEF Takes, Leaves, Formats

-----------------------------------------------------------------------------
LEMMA OwnersStep ==
    ASSUME TypeOK, Owners, [Next]_vars
    PROVE  Owners'
<1>0. /\ handles \in [Spans -> SUBSET Threads] /\ entered \in [Spans -> SUBSET Threads]
      /\ alive \subseteq Spans /\ unused \subseteq Spans
    BY DEF TypeOK
<1>1. ASSUME NEW t \in Threads, GoesOn(t) PROVE Owners'
  <2>1. \A u \in Threads, s \in Spans : (Busy(u, s)' <=> Busy(u, s)) /\ (Busy(u, s) => op'[u].kind = op[u].kind)
    BY <1>1 DEF GoesOn, Busy
  <2>2. UNCHANGED <<alive, unused, handles, entered>>
    BY <1>1 DEF GoesOn, registry
  <2> QED BY <2>1, <2>2 DEF Owners
<1>2. ASSUME NEW t \in Threads, Return(t), Ends(t) PROVE Owners'
  <2>1. \A u \in Threads, s \in Spans : Busy(u, s)' <=> u # t /\ Busy(u, s)
    BY <1>2 DEF Ends, Busy
  <2>2. \A u \in Threads, s \in Spans : u # t => op'[u] = op[u]
    BY <1>2 DEF Ends
  <2>3. UNCHANGED <<unused, handles, entered>>
    BY <1>2 DEF Return
  <2>4. alive' = alive \/ (op[t].kind = "close" /\ alive' = alive \ {op[t].span})
    BY <1>2 DEF Return
  <2>5. \A u \in Threads, s \in Spans : u # t /\ Busy(u, s) => s \in alive'
    <3>1. op[t] # Idle
      BY <1>2 DEF Ends
    <3>2. ASSUME NEW u \in Threads, NEW s \in Spans, u # t, Busy(u, s), op[t].kind = "close", s = op[t].span
          PROVE  FALSE
      BY <3>1, <3>2 DEF Owners, Busy
    <3> QED BY <2>4, <3>2 DEF Owners
  <2> QED BY <2>1, <2>2, <2>3, <2>4, <2>5 DEF Owners
<1>3. ASSUME NEW t \in Threads, Program(t) PROVE Owners'
  <2>1. PICK s \in Spans :
             \/ \E f \in Fields \cup {NoField} : Creates(t, s, f) \/ Gives(t, s, f)
             \/ \E kind \in {"enter", "exit"} : Touches(t, s, kind)
             \/ Closes(t, s)
             \/ Passes(t, s)
    BY <1>3, ProgramSteps
  <2>a. ASSUME NEW kind, NEW f, Begins(t, kind, s, f)
        PROVE  /\ ~\E x \in Spans : Busy(t, x)
               /\ \A u \in Threads, x \in Spans : Busy(u, x)' <=> Busy(u, x) \/ (u = t /\ x = s)
               /\ \A u \in Threads : u # t => op'[u] = op[u]
               /\ op'[t].kind = kind
    BY <2>a DEF Begins, Busy
  <2>2. ASSUME NEW f, Creates(t, s, f) PROVE Owners'
    <3>1. /\ ~\E x \in Spans : Busy(t, x)
          /\ \A u \in Threads, x \in Spans : Busy(u, x)' <=> Busy(u, x) \/ (u = t /\ x = s)
          /\ \A u \in Threads : u # t => op'[u] = op[u]
          /\ op'[t].kind = "new"
      BY <2>2, <2>a DEF Creates
    <3>2. /\ s \in unused /\ unused' = unused \ {s} /\ alive' = alive \cup {s} /\ entered' = entered
          /\ handles'[s] = {t} /\ \A x \in Spans : x # s => handles'[x] = handles[x]
      BY <1>0, <2>2 DEF Creates
    <3>3. \A u \in Threads : ~Busy(u, s)
      BY <3>2 DEF Owners
    <3>4. entered[s] = {}
      BY <1>0, <3>2 DEF Owners
    <3> QED BY <1>0, <3>1, <3>2, <3>3, <3>4 DEF Owners
  <2>3. ASSUME NEW f, Gives(t, s, f) PROVE Owners'
    <3>1. /\ ~\E x \in Spans : Busy(t, x)
          /\ \A u \in Threads, x \in Spans : Busy(u, x)' <=> Busy(u, x) \/ (u = t /\ x = s)
          /\ \A u \in Threads : u # t => op'[u] = op[u]
          /\ op'[t].kind = "record"
      BY <2>3, <2>a DEF Gives
    <3>2. s \in alive /\ t \in handles[s] /\ UNCHANGED <<alive, unused, handles, entered>>
      BY <2>3 DEF Gives
    <3>3. \A u \in Threads : Busy(u, s) => op[u].kind # "close"
      BY <3>2 DEF Owners
    <3> QED BY <3>1, <3>2, <3>3 DEF Owners
  <2>4. ASSUME NEW kind, Touches(t, s, kind) PROVE Owners'
    <3>1. /\ ~\E x \in Spans : Busy(t, x)
          /\ \A u \in Threads, x \in Spans : Busy(u, x)' <=> Busy(u, x) \/ (u = t /\ x = s)
          /\ \A u \in Threads : u # t => op'[u] = op[u]
          /\ op'[t].kind \in {"enter", "exit"}
      BY <2>4, <2>a DEF Touches
    <3>2. /\ s \in alive /\ t \in handles[s] /\ UNCHANGED <<alive, unused, handles>>
          /\ \A x \in Spans : entered'[x] \subseteq entered[x] \cup (IF x = s THEN {t} ELSE {})
      BY <1>0, <2>4 DEF Touches
    <3>3. \A u \in Threads : Busy(u, s) => op[u].kind # "close"
      BY <3>2 DEF Owners
    <3>4. \A x \in Spans : entered'[x] \subseteq handles'[x]
      BY <3>2 DEF Owners
    <3> QED BY <3>1, <3>2, <3>3, <3>4 DEF Owners
  <2>5. ASSUME Closes(t, s) PROVE Owners'
    <3>1. /\ ~\E x \in Spans : Busy(t, x)
          /\ \A u \in Threads, x \in Spans : Busy(u, x)' <=> Busy(u, x) \/ (u = t /\ x = s)
          /\ \A u \in Threads : u # t => op'[u] = op[u]
          /\ op'[t].kind = "close"
      BY <2>5, <2>a DEF Closes
    <3>2. /\ s \in alive /\ handles[s] = {t} /\ t \notin entered[s] /\ UNCHANGED <<alive, unused, entered>>
          /\ handles'[s] = {} /\ \A x \in Spans : x # s => handles'[x] = handles[x]
      BY <1>0, <2>5 DEF Closes
    <3>3. \A u \in Threads : ~Busy(u, s)
      BY <3>1, <3>2 DEF Owners
    <3>4. entered[s] = {}
      BY <3>2 DEF Owners
    <3> QED BY <1>0, <3>1, <3>2, <3>3, <3>4 DEF Owners
  <2>6. ASSUME Passes(t, s) PROVE Owners'
    <3>1. /\ s \in alive /\ t \in handles[s] /\ op[t] = Idle /\ UNCHANGED <<alive, unused, entered, op>>
          /\ \A x \in Spans : x # s => handles'[x] = handles[x]
          /\ entered[s] \subseteq handles'[s]
          /\ \A u \in Threads : u # t /\ u \in handles[s] => u \in handles'[s]
          /\ s \notin unused
      BY <1>0, <2>6 DEF Passes, Owners
    <3>2. \A u \in Threads : Busy(u, s) => u # t /\ op[u].kind # "close" /\ op[u].kind # "new"
      BY <3>1 DEF Owners, Busy
    <3>3. \A u \in Threads, x \in Spans : Busy(u, x)' <=> Busy(u, x)
      BY <3>1 DEF Busy
    <3>4. UNCHANGED <<alive, unused, entered, op>>
      BY <3>1
    <3>5. \A x \in Spans : handles'[x] = handles[x] \/ (x = s /\ x \notin unused /\ entered[x] \subseteq handles'[x])
      BY <3>1
    <3>6. /\ \A x \in unused' : x \notin alive' /\ handles'[x] = {}
          /\ \A x \in Spans : entered'[x] \subseteq handles'[x]
      BY <1>0, <3>4, <3>5 DEF Owners
    <3>7. ASSUME NEW u \in Threads, NEW x \in Spans, Busy(u, x)
          PROVE  /\ x \in alive
                 /\ op[u].kind = "new"    => handles'[x] = {u}
                 /\ op[u].kind = "close"  => handles'[x] = {}
                 /\ op[u].kind # "close"  => u \in handles'[x]
      <4>1. CASE x = s
        BY <3>1, <3>2, <3>7, <4>1 DEF Owners
      <4>2. CASE x # s
        BY <3>1, <3>7, <4>2 DEF Owners
      <4> QED BY <4>1, <4>2
    <3> QED BY <3>3, <3>4, <3>6, <3>7 DEF Owners
  <2> QED BY <2>1, <2>2, <2>3, <2>4, <2>5, <2>6
<1>4. CASE UNCHANGED vars
    BY <1>4 DEF vars, Owners, Busy
<1>5. CASE Next
    BY <1>1, <1>2, <1>3, <1>5, GoOnSteps DEF Next
<1> QED BY <1>4, <1>5

-----------------------------------------------------------------------------
\* What a callback writes: the entry of its layer's formatter, and one line.
Lines == [action : AllCallbacks \cup {"none"}, text : Seq(Fields)]

Keeps(t) ==
    /\ DOMAIN ext' = Spans
    /\ \A s \in Spans : s # op[t].span => ext'[s] = ext[s]
    /\ DOMAIN ext'[op[t].span] = DOMAIN ext[op[t].span] \cup {Layer(t).form}
    /\ ext'[op[t].span][Layer(t).form] = op[t].text
    /\ \A f \in DOMAIN ext[op[t].span] : f # Layer(t).form => ext'[op[t].span][f] = ext[op[t].span][f]

LEMMA KeepKeeps ==
    ASSUME TypeOK, NEW t \in Threads, op[t] # Idle, Keep(t)
    PROVE  Keeps(t)
<1> DEFINE g == [f \in DOMAIN ext[op[t].span] \cup {Layer(t).form} |->
                    IF f = Layer(t).form THEN op[t].text ELSE ext[op[t].span][f]]
<1>1. op[t].span \in Spans /\ DOMAIN ext = Spans
    BY BusyFacts DEF TypeOK
<1>2. ext' = [ext EXCEPT ![op[t].span] = g]
    BY DEF Keep
<1>3. /\ DOMAIN g = DOMAIN ext[op[t].span] \cup {Layer(t).form}
      /\ g[Layer(t).form] = op[t].text
      /\ \A f \in DOMAIN ext[op[t].span] : f # Layer(t).form => g[f] = ext[op[t].span][f]
    OBVIOUS
<1> HIDE DEF g
<1>4. DOMAIN ext' = Spans /\ ext'[op[t].span] = g /\ \A s \in Spans : s # op[t].span => ext'[s] = ext[s]
    BY <1>1, <1>2
<1> QED BY <1>3, <1>4 DEF Keeps

Logs(t) ==
    /\ last' \in [Layers \X Spans -> Lines]
    /\ last'[<<op[t].at, op[t].span>>] = [action |-> op[t].kind, text |-> op[t].text]
    /\ \A l \in Layers, s \in Spans : l # op[t].at \/ s # op[t].span => last'[<<l, s>>] = last[<<l, s>>]

LEMMA LineLogs ==
    ASSUME TypeOK, NEW t \in Threads, op[t] # Idle, op[t].at \in Layers, Line(t)
    PROVE  Logs(t)
<1> DEFINE line == [action |-> op[t].kind, text |-> op[t].text]
           p == <<op[t].at, op[t].span>>
<1>1. /\ op[t].span \in Spans /\ op[t].kind \in AllCallbacks /\ op[t].text \in Seq(Fields)
      /\ last \in [Layers \X Spans -> Lines]
    BY BusyFacts DEF TypeOK, Lines
<1>2. line \in Lines /\ p \in Layers \X Spans
    BY <1>1 DEF Lines
<1>3. last' = [last EXCEPT ![p] = line]
    BY DEF Line
<1>4. \A l \in Layers, s \in Spans : <<l, s>> = p <=> l = op[t].at /\ s = op[t].span
    OBVIOUS
<1> HIDE DEF line, p
<1>5. last' \in [Layers \X Spans -> Lines] /\ last'[p] = line
      /\ \A q \in Layers \X Spans : q # p => last'[q] = last[q]
    BY <1>1, <1>2, <1>3
<1>6. \A l \in Layers, s \in Spans : l # op[t].at \/ s # op[t].span => last'[<<l, s>>] = last[<<l, s>>]
    BY <1>4, <1>5
<1> QED BY <1>5, <1>6 DEF Logs, line, p

\* What a step inside a call may write.
LEMMA CallbackWrites ==
    ASSUME TypeOK, NEW t \in Threads, Callback(t) \/ FormatEvent(t)
    PROVE  /\ op[t] # Idle
           /\ UNCHANGED ext \/ Keeps(t) \/ ext' = [ext EXCEPT ![op[t].span] = <<>>]
           /\ UNCHANGED last \/ Logs(t)
<1>1. CASE OnNewSpan(t) \/ OnRecord(t) \/ OnLook(t)
  <2>1. op[t] # Idle /\ op[t].at \in Layers
    BY <1>1 DEF OnNewSpan, OnRecord, OnLook, InCall
  <2>2. UNCHANGED ext \/ Keep(t)
    BY <1>1 DEF OnNewSpan, OnRecord, OnLook
  <2>3. UNCHANGED last \/ Line(t)
    BY <1>1 DEF OnNewSpan, OnRecord, OnLook
  <2> QED BY <2>1, <2>2, <2>3, KeepKeeps, LineLogs
<1>2. CASE Skip(t) \/ ForWriting(t) \/ ForReading(t) \/ OnEvent(t) \/ FormatEvent(t)
    BY <1>2 DEF Skip, ForWriting, ForReading, OnEvent, FormatEvent, InCall
<1>3. CASE Return(t)
    BY <1>3 DEF Return
<1> QED BY <1>1, <1>2, <1>3 DEF Callback

LEMMA TypeStep ==
    ASSUME TypeOK, Owners, [Next]_vars
    PROVE  TypeOK'
<1>0. /\ alive \subseteq Spans /\ unused \subseteq Spans
      /\ handles \in [Spans -> SUBSET Threads] /\ entered \in [Spans -> SUBSET Threads]
      /\ DOMAIN ext = Spans
      /\ \A s \in Spans : \A f \in DOMAIN ext[s] : ext[s][f] \in Seq(Fields)
      /\ lock \in [Spans -> SUBSET (Threads \X {"read", "write"})]
      /\ op \in [Threads -> Calls \cup {Idle}]
      /\ last \in [Layers \X Spans -> Lines]
      /\ recorded \in [Spans -> SUBSET Fields]
    BY DEF TypeOK, Lines
<1>1. ASSUME NEW t \in Threads, Program(t) PROVE TypeOK'
  <2>1. PICK s \in Spans :
             \/ \E f \in Fields \cup {NoField} : Creates(t, s, f) \/ Gives(t, s, f)
             \/ \E kind \in {"enter", "exit"} : Touches(t, s, kind)
             \/ Closes(t, s)
             \/ Passes(t, s)
    BY <1>1, ProgramSteps
  <2>2. UNCHANGED <<ext, lock, last>>
    BY <2>1 DEF Creates, Gives, Touches, Closes, Passes
  <2>3. op' \in [Threads -> Calls \cup {Idle}]
    BY <1>0, <2>1 DEF Creates, Gives, Touches, Closes, Passes, Begins
  <2>4. alive' \subseteq Spans /\ unused' \subseteq Spans
    BY <1>0, <2>1 DEF Creates, Gives, Touches, Closes, Passes
  <2>5. handles' \in [Spans -> SUBSET Threads]
    <3>1. CASE handles' = handles
      BY <1>0, <3>1
    <3>2. CASE \E h \in SUBSET Threads : handles' = [handles EXCEPT ![s] = h]
      BY <1>0, <3>2
    <3>3. handles' = handles \/ \E h \in SUBSET Threads : handles' = [handles EXCEPT ![s] = h]
      <4>1. handles[s] \in SUBSET Threads /\ \A u \in Threads : handles[s] \cup {u} \in SUBSET Threads
        BY <1>0
      <4>2. handles[s] \ {t} \in SUBSET Threads /\ {t} \in SUBSET Threads /\ {} \in SUBSET Threads
        BY <1>0
      <4>3. CASE Passes(t, s)
        BY <4>1, <4>2, <4>3 DEF Passes
      <4>4. CASE ~Passes(t, s)
        BY <2>1, <4>2, <4>4 DEF Creates, Gives, Touches, Closes
      <4> QED BY <4>3, <4>4
    <3> QED BY <3>1, <3>2, <3>3
  <2>6. entered' \in [Spans -> SUBSET Threads]
    BY <1>0, <2>1 DEF Creates, Gives, Touches, Closes, Passes
  <2>7. recorded' \in [Spans -> SUBSET Fields]
    BY <1>0, <2>1 DEF Creates, Gives, Touches, Closes, Passes
  <2> QED BY <1>0, <2>2, <2>3, <2>4, <2>5, <2>6, <2>7 DEF TypeOK, Lines
<1>2. ASSUME NEW t \in Threads, Callback(t) \/ FormatEvent(t) PROVE TypeOK'
  <2>1. GoesOn(t) \/ (Return(t) /\ Ends(t))
    BY <1>2, GoOnSteps
  <2>2. UNCHANGED <<unused, handles, entered, recorded>> /\ alive' \subseteq alive
        /\ op' \in [Threads -> Calls \cup {Idle}]
    BY <2>1 DEF GoesOn, Return, Ends, registry
  <2>3. /\ op[t] # Idle
        /\ UNCHANGED ext \/ Keeps(t) \/ ext' = [ext EXCEPT ![op[t].span] = <<>>]
        /\ UNCHANGED last \/ Logs(t)
    BY <1>2, CallbackWrites
  <2>4. op[t].span \in Spans /\ op[t].text \in Seq(Fields)
    BY <2>3, BusyFacts
  <2>5. DOMAIN ext' = Spans /\ \A s \in Spans : \A f \in DOMAIN ext'[s] : ext'[s][f] \in Seq(Fields)
    <3>1. CASE UNCHANGED ext
      BY <1>0, <3>1
    <3>2. CASE Keeps(t)
      BY <1>0, <2>4, <3>2 DEF Keeps
    <3>3. CASE ext' = [ext EXCEPT ![op[t].span] = <<>>]
      <4>1. DOMAIN <<>> = {}
        OBVIOUS
      <4>2. \A s \in Spans : ext'[s] = IF s = op[t].span THEN <<>> ELSE ext[s]
        BY <1>0, <3>3
      <4> QED BY <1>0, <3>3, <4>1, <4>2
    <3> QED BY <2>3, <3>1, <3>2, <3>3
  <2>6. last' \in [Layers \X Spans -> Lines]
    BY <1>0, <2>3 DEF Logs
  <2>7. lock' \in [Spans -> SUBSET (Threads \X {"read", "write"})]
    <3>1. lock' = lock \/ \E h \in SUBSET (Threads \X {"read", "write"}) : lock' = [lock EXCEPT ![op[t].span] = h]
      <4>1. \A h \in SUBSET (Threads \X {"read", "write"}) :
              /\ h \cup {<<t, "write">>} \in SUBSET (Threads \X {"read", "write"})
              /\ h \cup {<<t, "read">>} \in SUBSET (Threads \X {"read", "write"})
              /\ h \ {<<t, "read">>, <<t, "write">>} \in SUBSET (Threads \X {"read", "write"})
        OBVIOUS
      <4>2. lock[op[t].span] \in SUBSET (Threads \X {"read", "write"})
        BY <1>0, <2>4
      <4>3. CASE Return(t) \/ OnEvent(t) \/ FormatEvent(t)
        BY <4>3 DEF Return, OnEvent, FormatEvent
      <4>4. CASE ForWriting(t)
        BY <4>1, <4>2, <4>4 DEF ForWriting
      <4>5. CASE ForReading(t)
        BY <4>1, <4>2, <4>5 DEF ForReading
      <4>6. CASE Skip(t) \/ OnNewSpan(t) \/ OnRecord(t) \/ OnLook(t)
        <5>1. Leave(t)
          BY <4>6 DEF Skip, OnNewSpan, OnRecord, OnLook
        <5> QED BY <4>1, <4>2, <5>1 DEF Leave
      <4> QED BY <1>2, <4>3, <4>4, <4>5, <4>6 DEF Callback
    <3> QED BY <1>0, <3>1
  <2> QED BY <1>0, <2>2, <2>5, <2>6, <2>7 DEF TypeOK, Lines
<1>3. CASE UNCHANGED vars
    BY <1>3 DEF vars, TypeOK
<1> QED BY <1>1, <1>2, <1>3 DEF Next

\* A call that goes on is as busy as before; one that ends is no longer; a new
\* one is on the span of the step.
LEMMA BusyKept ==
    ASSUME NEW t \in Threads, GoesOn(t)
    PROVE  \A u \in Threads, s \in Spans :
               /\ Busy(u, s)' <=> Busy(u, s)
               /\ Writing(u, s)' <=> Writing(u, s)
               /\ op'[u].kind = op[u].kind /\ op'[u].field = op[u].field /\ op'[u].span = op[u].span
BY DEF GoesOn, Busy, Writing

LEMMA BusyEnds ==
    ASSUME NEW t \in Threads, Ends(t)
    PROVE  \A u \in Threads, s \in Spans :
               /\ Busy(u, s)' <=> u # t /\ Busy(u, s)
               /\ Writing(u, s)' <=> u # t /\ Writing(u, s)
               /\ u # t => op'[u] = op[u]
BY DEF Ends, Busy, Writing

LEMMA BusyBegins ==
    ASSUME NEW t \in Threads, NEW kind, NEW s \in Spans, NEW f, Begins(t, kind, s, f)
    PROVE  /\ \A x \in Spans : ~Busy(t, x)
           /\ \A u \in Threads, x \in Spans :
               /\ Busy(u, x)' <=> Busy(u, x) \/ (u = t /\ x = s)
               /\ Writing(u, x)' <=> Writing(u, x) \/ (u = t /\ x = s /\ kind \in {"new", "record"})
               /\ Holds(u, x)' <=> Holds(u, x)
               /\ u # t => op'[u] = op[u]
           /\ op'[t].kind = kind /\ op'[t].field = f
BY DEF Begins, Busy, Writing, Holds

LEMMA WritingBegins ==
    ASSUME NEW t \in Threads, NEW kind \in {"new", "record"}, NEW s \in Spans, NEW f,
           Begins(t, kind, s, f)
    PROVE  \A u \in Threads, x \in Spans : Writing(u, x)' <=> Writing(u, x) \/ (u = t /\ x = s)
BY BusyBegins

LEMMA GiversStep ==
    ASSUME TypeOK, Owners, Givers, [Next]_vars
    PROVE  Givers'
<1>1. ASSUME NEW t \in Threads, Callback(t) \/ FormatEvent(t) PROVE Givers'
  <2>1. CASE GoesOn(t)
    <3>1. UNCHANGED recorded
      BY <2>1 DEF GoesOn, registry
    <3> QED BY <2>1, <3>1, BusyKept DEF Givers
  <2>2. CASE Return(t) /\ Ends(t)
    <3>1. UNCHANGED recorded
      BY <2>2 DEF Return
    <3> QED BY <2>2, <3>1, BusyEnds DEF Givers
  <2> QED BY <1>1, <2>1, <2>2, GoOnSteps
<1>2. ASSUME NEW t \in Threads, Program(t) PROVE Givers'
  <2>1. PICK s \in Spans :
             \/ \E f \in Fields \cup {NoField} : Creates(t, s, f) \/ Gives(t, s, f)
             \/ \E kind \in {"enter", "exit"} : Touches(t, s, kind)
             \/ Closes(t, s)
             \/ Passes(t, s)
    BY <1>2, ProgramSteps
  <2>2. ASSUME NEW f, Creates(t, s, f) PROVE Givers'
    <3>1. Begins(t, "new", s, f) /\ s \in unused
      BY <2>2 DEF Creates
    <3>2. recorded'[s] = {f} \ {NoField} /\ \A x \in Spans : x # s => recorded'[x] = recorded[x]
      BY <2>2 DEF Creates, TypeOK
    <3>3. \A u \in Threads : ~Writing(u, s)
      BY <3>1 DEF Owners, Writing
    <3>4. \A u \in Threads, x \in Spans : Writing(u, x)' <=> Writing(u, x) \/ (u = t /\ x = s)
      BY <3>1, WritingBegins
    <3>5. /\ \A x \in Spans : ~Busy(t, x)
          /\ \A u \in Threads : u # t => op'[u] = op[u]
          /\ op'[t].kind = "new" /\ op'[t].field = f
      BY <3>1, BusyBegins
    <3> QED BY <3>2, <3>3, <3>4, <3>5 DEF Givers, Writing
  <2>3. ASSUME NEW f, Gives(t, s, f) PROVE Givers'
    <3>1. /\ Begins(t, "record", s, f) /\ s \in alive /\ f \in Fields
          /\ t \in handles[s] /\ f \notin recorded[s]
      BY <2>3 DEF Gives
    <3>2. recorded'[s] = recorded[s] \cup {f} /\ \A x \in Spans : x # s => recorded'[x] = recorded[x]
      BY <2>3 DEF Gives, TypeOK
    <3>3. \A u \in Threads, x \in Spans : Writing(u, x)' <=> Writing(u, x) \/ (u = t /\ x = s)
      BY <3>1, WritingBegins
    <3>4. /\ \A x \in Spans : ~Busy(t, x) /\ ~Writing(t, x)
          /\ \A u \in Threads : u # t => op'[u] = op[u]
          /\ op'[t].kind = "record" /\ op'[t].field = f
      BY <3>1, BusyBegins DEF Writing
    <3>5. \A u \in Threads : Writing(u, s) => op[u].kind = "record"
      <4> SUFFICES ASSUME NEW u \in Threads, Writing(u, s), op[u].kind = "new" PROVE FALSE
        BY DEF Writing
      <4>1. handles[s] = {u}
        BY DEF Owners, Writing
      <4> QED BY <3>1, <3>4, <4>1 DEF Writing
    <3>6. \A u \in Threads : Writing(u, s) => op[u].field \in recorded[s] /\ op[u].field # f
      BY <3>1, <3>5 DEF Givers
    <3>7. f # NoField
      BY <3>1, FieldsAssumption
    <3> QED BY <3>2, <3>3, <3>4, <3>5, <3>6, <3>7 DEF Givers
  <2>4. ASSUME NEW kind \in {"enter", "exit", "close"}, Begins(t, kind, s, NoField), UNCHANGED recorded PROVE Givers'
    <3>1. \A u \in Threads, x \in Spans : Writing(u, x)' <=> Writing(u, x)
      BY <2>4, BusyBegins
    <3>2. \A x \in Spans : ~Writing(t, x)
      BY <2>4, BusyBegins DEF Writing
    <3>3. \A u \in Threads : u # t => op'[u] = op[u]
      BY <2>4, BusyBegins
    <3> QED BY <2>4, <3>1, <3>2, <3>3 DEF Givers
  <2>5. ASSUME NEW kind \in {"enter", "exit"}, Touches(t, s, kind) PROVE Givers'
    BY <2>4, <2>5 DEF Touches
  <2>6. CASE Closes(t, s)
    BY <2>4, <2>6 DEF Closes
  <2>7. CASE Passes(t, s)
    BY <2>7 DEF Passes, Givers, Writing, Busy
  <2> QED BY <2>1, <2>2, <2>3, <2>5, <2>6, <2>7
<1>3. CASE UNCHANGED vars
    BY <1>3 DEF vars, Givers, Writing, Busy
<1> QED BY <1>1, <1>2, <1>3 DEF Next

-----------------------------------------------------------------------------
\* Steps of the program leave what is inside the lock alone.
LEMMA ProgramOutside ==
    ASSUME TypeOK, Owners, NEW t \in Threads, Program(t)
    PROVE  /\ UNCHANGED <<ext, lock, last>>
           /\ \A u \in Threads, s \in Spans : Holds(u, s)' <=> Holds(u, s)
           /\ \A u \in Threads, s \in Spans : Busy(u, s) => op'[u] = op[u]
<1>1. PICK s \in Spans :
             \/ \E f \in Fields \cup {NoField} : Creates(t, s, f) \/ Gives(t, s, f)
             \/ \E kind \in {"enter", "exit"} : Touches(t, s, kind)
             \/ Closes(t, s)
             \/ Passes(t, s)
    BY ProgramSteps
<1>2. UNCHANGED <<ext, lock, last>>
    BY <1>1 DEF Creates, Gives, Touches, Closes, Passes
<1>3. UNCHANGED op \/ \E kind \in AllCallbacks, f \in Fields \cup {NoField} : Begins(t, kind, s, f)
    BY <1>1 DEF Creates, Gives, Touches, Closes, Passes, AllCallbacks
<1>4. CASE UNCHANGED op
    BY <1>2, <1>4 DEF Holds, Busy
<1>5. ASSUME NEW kind \in AllCallbacks, NEW f \in Fields \cup {NoField}, Begins(t, kind, s, f)
      PROVE  /\ \A u \in Threads, x \in Spans : Holds(u, x)' <=> Holds(u, x)
             /\ \A u \in Threads, x \in Spans : Busy(u, x) => op'[u] = op[u]
    <2>1. \A x \in Spans : ~Busy(t, x)
      BY <1>5, BusyBegins
    <2>2. \A u \in Threads : u # t => op'[u] = op[u]
      BY <1>5, BusyBegins
    <2>3. \A u \in Threads, x \in Spans : Holds(u, x)' <=> Holds(u, x)
      BY <1>5, BusyBegins
    <2> QED BY <2>1, <2>2, <2>3
<1> QED BY <1>2, <1>3, <1>4, <1>5

LEMMA LockedStep ==
    ASSUME TypeOK, Owners, Locked, [Next]_vars
    PROVE  Locked'
<1>0. lock \in [Spans -> SUBSET (Threads \X {"read", "write"})]
    BY DEF TypeOK
<1>1. ASSUME NEW t \in Threads, Program(t) PROVE Locked'
  <2>1. /\ UNCHANGED lock
        /\ \A u \in Threads, s \in Spans : Holds(u, s)' <=> Holds(u, s)
        /\ \A u \in Threads, s \in Spans : Holds(u, s) => op'[u] = op[u]
    BY <1>1, ProgramOutside DEF Holds
  <2>2. \A u \in Threads, s \in Spans : Holds(u, s) =>
          Mode(u)' = Mode(u) /\ (Writing(u, s)' <=> Writing(u, s)) /\ (Skipped(u)' <=> Skipped(u))
    BY <2>1 DEF Mode, Writing, Busy, Holds, Skipped, Layer
  <2>3. \A s \in Spans : lock'[s] = {h \in Threads \X {"read", "write"} : Holds(h[1], s)' /\ h[2] = Mode(h[1])'}
    <3> TAKE s \in Spans
    <3>1. \A h \in Threads \X {"read", "write"} : h[1] \in Threads
      OBVIOUS
    <3> QED BY <2>1, <2>2, <3>1 DEF Locked
  <2>4. \A u, v \in Threads, s \in Spans : Holds(u, s)' /\ Holds(v, s)' /\ Writing(u, s)' => u = v
    BY <2>1, <2>2 DEF Locked
  <2>5. \A u \in Threads, s \in Spans : Holds(u, s)' => op'[u].at \in Layers /\ ~Skipped(u)'
    BY <2>1, <2>2 DEF Locked
  <2> QED BY <2>3, <2>4, <2>5 DEF Locked
<1>2. ASSUME NEW t \in Threads, GoesOn(t) \/ Ends(t)
      PROVE  \A u \in Threads, s \in Spans : u # t =>
               /\ (Holds(u, s)' <=> Holds(u, s)) /\ Mode(u)' = Mode(u)
               /\ (Writing(u, s)' <=> Writing(u, s)) /\ (Skipped(u)' <=> Skipped(u))
               /\ op'[u].at = op[u].at
  <2>1. \A u \in Threads : u # t => op'[u] = op[u]
    BY <1>2 DEF GoesOn, Ends
  <2> QED BY <2>1 DEF Holds, Busy, Mode, Writing, Skipped, Layer
<1>3. ASSUME NEW t \in Threads, Takes(t), NEW mode \in {"read", "write"}, mode = Mode(t),
             lock' = [lock EXCEPT ![op[t].span] = @ \cup {<<t, mode>>}],
             \A u \in Threads : Holds(u, op[t].span) => mode = "read" /\ ~Writing(u, op[t].span)
      PROVE  Locked'
  <2>0. GoesOn(t) /\ op[t].span \in Spans
    BY <1>3, BusyFacts DEF Takes, GoesOn
  <2>1. /\ \A s \in Spans : Holds(t, s)' <=> s = op[t].span
        /\ \A s \in Spans : ~Holds(t, s)
        /\ Mode(t)' = Mode(t) /\ ~Skipped(t)' /\ op'[t].at \in Layers
        /\ \A s \in Spans : Writing(t, s)' => mode = "write"
    BY <1>3 DEF Takes, GoesOn, Holds, Busy, Mode, Skipped, Layer, Writing
  <2>2. \A u \in Threads, s \in Spans : u # t =>
               /\ (Holds(u, s)' <=> Holds(u, s)) /\ Mode(u)' = Mode(u)
               /\ (Writing(u, s)' <=> Writing(u, s)) /\ (Skipped(u)' <=> Skipped(u))
               /\ op'[u].at = op[u].at
    BY <1>2, <2>0
  <2>3. \A s \in Spans : lock'[s] = {h \in Threads \X {"read", "write"} : Holds(h[1], s)' /\ h[2] = Mode(h[1])'}
    <3> TAKE s \in Spans
    <3>1. lock'[s] = lock[s] \cup (IF s = op[t].span THEN {<<t, mode>>} ELSE {})
      BY <1>0, <1>3, <2>0
    <3>2. lock[s] = {h \in Threads \X {"read", "write"} : Holds(h[1], s) /\ h[2] = Mode(h[1])}
      BY DEF Locked
    <3>3. ASSUME NEW u \in Threads, NEW how \in {"read", "write"}
          PROVE  <<u, how>> \in lock'[s] <=> Holds(u, s)' /\ how = Mode(u)'
      <4>1. CASE u = t
        BY <1>3, <2>1, <3>1, <3>2, <4>1
      <4>2. CASE u # t
        BY <2>2, <3>1, <3>2, <4>2
      <4> QED BY <4>1, <4>2
    <3>4. lock'[s] \subseteq Threads \X {"read", "write"}
      BY <1>3, <3>1, <3>2
    <3>5. ASSUME NEW h \in Threads \X {"read", "write"}
          PROVE  h \in lock'[s] <=> Holds(h[1], s)' /\ h[2] = Mode(h[1])'
      <4>1. h[1] \in Threads /\ h[2] \in {"read", "write"} /\ h = <<h[1], h[2]>>
        OBVIOUS
      <4> QED BY <3>3, <4>1
    <3> QED BY <3>4, <3>5
  <2>4. \A u, v \in Threads, s \in Spans : Holds(u, s)' /\ Holds(v, s)' /\ Writing(u, s)' => u = v
    <3> SUFFICES ASSUME NEW u \in Threads, NEW v \in Threads, NEW s \in Spans,
                        Holds(u, s)', Holds(v, s)', Writing(u, s)', u # v
                 PROVE FALSE
      OBVIOUS
    <3>1. CASE u = t
      BY <1>3, <2>1, <2>2, <3>1
    <3>2. CASE v = t
      BY <1>3, <2>1, <2>2, <3>2
    <3>3. CASE u # t /\ v # t
      BY <2>2, <3>3 DEF Locked
    <3> QED BY <3>1, <3>2, <3>3
  <2>5. \A u \in Threads, s \in Spans : Holds(u, s)' => op'[u].at \in Layers /\ ~Skipped(u)'
    BY <2>1, <2>2 DEF Locked
  <2> QED BY <2>3, <2>4, <2>5 DEF Locked
<1>4. ASSUME NEW t \in Threads, GoesOn(t) \/ Ends(t), \A s \in Spans : ~Holds(t, s)',
             \A s \in Spans : lock'[s] = {h \in lock[s] : h[1] # t}
      PROVE  Locked'
  <2>2. \A u \in Threads, s \in Spans : u # t =>
               /\ (Holds(u, s)' <=> Holds(u, s)) /\ Mode(u)' = Mode(u)
               /\ (Writing(u, s)' <=> Writing(u, s)) /\ (Skipped(u)' <=> Skipped(u))
               /\ op'[u].at = op[u].at
    BY <1>2, <1>4
  <2>3. \A s \in Spans : lock'[s] = {h \in Threads \X {"read", "write"} : Holds(h[1], s)' /\ h[2] = Mode(h[1])'}
    <3> TAKE s \in Spans
    <3>1. lock'[s] = {h \in lock[s] : h[1] # t}
      BY <1>4
    <3>2. lock[s] = {h \in Threads \X {"read", "write"} : Holds(h[1], s) /\ h[2] = Mode(h[1])}
      BY DEF Locked
    <3>3. ASSUME NEW u \in Threads, NEW how \in {"read", "write"}
          PROVE  <<u, how>> \in lock'[s] <=> Holds(u, s)' /\ how = Mode(u)'
      BY <1>4, <2>2, <3>1, <3>2
    <3>4. lock'[s] \subseteq Threads \X {"read", "write"}
      BY <3>1, <3>2
    <3>5. ASSUME NEW h \in Threads \X {"read", "write"}
          PROVE  h \in lock'[s] <=> Holds(h[1], s)' /\ h[2] = Mode(h[1])'
      <4>1. h[1] \in Threads /\ h[2] \in {"read", "write"} /\ h = <<h[1], h[2]>>
        OBVIOUS
      <4> QED BY <3>3, <4>1
    <3> QED BY <3>4, <3>5
  <2>4. \A u, v \in Threads, s \in Spans : Holds(u, s)' /\ Holds(v, s)' /\ Writing(u, s)' => u = v
    BY <1>4, <2>2 DEF Locked
  <2>5. \A u \in Threads, s \in Spans : Holds(u, s)' => op'[u].at \in Layers /\ ~Skipped(u)'
    BY <1>4, <2>2 DEF Locked
  <2> QED BY <2>3, <2>4, <2>5 DEF Locked
<1>5. ASSUME NEW t \in Threads, Callback(t) \/ FormatEvent(t) PROVE Locked'
  <2>1. CASE ForWriting(t)
    <3>1. /\ Takes(t) /\ op[t].kind \in {"new", "record"}
          /\ lock' = [lock EXCEPT ![op[t].span] = @ \cup {<<t, "write">>}]
          /\ Free(op[t].span, ExclusiveLock)
      BY <2>1, WritingTakes
    <3>2. op[t].span \in Spans
      BY <3>1, BusyFacts DEF Takes, GoesOn
    <3>3. \A u \in Threads : ~Holds(u, op[t].span)
      <4> SUFFICES ASSUME NEW u \in Threads, Holds(u, op[t].span) PROVE FALSE
        OBVIOUS
      <4>1. <<u, Mode(u)>> \in lock[op[t].span]
        BY <3>2 DEF Locked, Mode
      <4>2. <<u, Mode(u)>>[2] \in ExclusiveLock
        BY DEF Mode, ExclusiveLock
      <4> QED BY <3>1, <4>1, <4>2 DEF Free
    <3>4. Mode(t) = "write"
      BY <3>1 DEF Mode
    <3> QED BY <1>3, <3>1, <3>3, <3>4
  <2>2. CASE ForReading(t)
    <3>1. /\ Takes(t) /\ op[t].kind \in {"enter", "exit", "close"}
          /\ lock' = [lock EXCEPT ![op[t].span] = @ \cup {<<t, "read">>}]
          /\ Free(op[t].span, {"write"})
      BY <2>2, ReadingTakes
    <3>2. op[t].span \in Spans
      BY <3>1, BusyFacts DEF Takes, GoesOn
    <3>3. \A u \in Threads : Holds(u, op[t].span) => ~Writing(u, op[t].span)
      <4> SUFFICES ASSUME NEW u \in Threads, Holds(u, op[t].span), Writing(u, op[t].span) PROVE FALSE
        OBVIOUS
      <4>1. Mode(u) = "write"
        BY DEF Mode, Writing
      <4>2. <<u, "write">> \in lock[op[t].span]
        BY <3>2, <4>1 DEF Locked
      <4> QED BY <3>1, <4>2 DEF Free
    <3>4. Mode(t) = "read"
      BY <3>1 DEF Mode
    <3> QED BY <1>3, <3>1, <3>3, <3>4
  <2>3. CASE Leaves(t)
    <3>1. \A s \in Spans : ~Holds(t, s)'
      BY <2>3 DEF Leaves, Holds
    <3>2. op[t].span \in Spans /\ op[t] # Idle
      BY <2>3, BusyFacts DEF Leaves, GoesOn
    <3>3. ASSUME NEW s \in Spans PROVE lock'[s] = {h \in lock[s] : h[1] # t}
      <4>1. \A h \in lock[s] : h \in Threads \X {"read", "write"} /\ (h[1] = t => Busy(t, s))
        BY DEF Locked, Holds
      <4>2. lock'[s] = IF s = op[t].span THEN lock[s] \ {<<t, "read">>, <<t, "write">>} ELSE lock[s]
        BY <1>0, <2>3, <3>2 DEF Leaves
      <4>3. CASE s = op[t].span
        BY <4>1, <4>2, <4>3
      <4>4. CASE s # op[t].span
        BY <4>1, <4>2, <4>4 DEF Busy
      <4> QED BY <4>3, <4>4
    <3>4. GoesOn(t)
      BY <2>3 DEF Leaves
    <3> QED BY <1>4, <3>1, <3>3, <3>4
  <2>4. CASE Return(t) /\ Ends(t)
    <3>1. \A s \in Spans : ~Holds(t, s)'
      BY <2>4 DEF Ends, Holds, Busy
    <3>2. \A s \in Spans : ~Holds(t, s)
      BY <2>4 DEF Return, Locked
    <3>3. \A s \in Spans : lock'[s] = {h \in lock[s] : h[1] # t}
      BY <2>4, <3>2 DEF Return, Locked
    <3> QED BY <1>4, <2>4, <3>1, <3>3
  <2>5. CASE Formats(t)
    <3>1. \A u \in Threads, s \in Spans :
            /\ (Holds(u, s)' <=> Holds(u, s)) /\ Mode(u)' = Mode(u)
            /\ (Writing(u, s)' <=> Writing(u, s)) /\ (Skipped(u)' <=> Skipped(u))
            /\ op'[u].at = op[u].at
      BY <2>5 DEF Formats, GoesOn, Holds, Busy, Mode, Writing, Skipped, Layer
    <3>2. UNCHANGED lock
      BY <2>5 DEF Formats
    <3>3. \A s \in Spans : lock'[s] = {h \in Threads \X {"read", "write"} : Holds(h[1], s)' /\ h[2] = Mode(h[1])'}
      <4> TAKE s \in Spans
      <4>1. \A h \in Threads \X {"read", "write"} : h[1] \in Threads
        OBVIOUS
      <4> QED BY <3>1, <3>2, <4>1 DEF Locked
    <3>4. \A u, v \in Threads, s \in Spans : Holds(u, s)' /\ Holds(v, s)' /\ Writing(u, s)' => u = v
      BY <3>1 DEF Locked
    <3>5. \A u \in Threads, s \in Spans : Holds(u, s)' => op'[u].at \in Layers /\ ~Skipped(u)'
      BY <3>1 DEF Locked
    <3> QED BY <3>3, <3>4, <3>5 DEF Locked
  <2> QED BY <1>5, <2>1, <2>2, <2>3, <2>4, <2>5, CallbackSteps
<1>6. CASE UNCHANGED vars
  <2>1. UNCHANGED <<op, lock>>
    BY <1>6 DEF vars
  <2> QED BY <2>1 DEF Locked, Holds, Busy, Mode, Writing, Skipped, Layer
<1> QED BY <1>1, <1>5, <1>6 DEF Next

-----------------------------------------------------------------------------
\* Texts: one more attribute, and the texts a text begins with.
LEMMA OnceEmpty == Once(<<>>) /\ ToSet(<<>>) = {}
<1>1. ToSet(<<>>) = {} /\ Len(<<>>) = 0
    BY EmptySeq DEF ToSet
<1> QED BY <1>1, FS_EmptySet DEF Once

LEMMA AppendSet ==
    ASSUME NEW text \in Seq(Fields), NEW x \in Fields
    PROVE  ToSet(Append(text, x)) = ToSet(text) \cup {x}
<1>1. Append(text, x) \in Seq(Fields) /\ Len(Append(text, x)) = Len(text) + 1 /\ Len(text) \in Nat
      /\ \A i \in 1..Len(text) : Append(text, x)[i] = text[i]
      /\ Append(text, x)[Len(text) + 1] = x
    OBVIOUS
<1>2. DOMAIN Append(text, x) = 1..Len(text) + 1 /\ DOMAIN text = 1..Len(text)
    BY <1>1
<1>3. 1..Len(text) + 1 = 1..Len(text) \cup {Len(text) + 1}
    BY <1>1
<1> DEFINE new == Append(text, x)
<1> HIDE DEF new
<1>4. ToSet(new) = ToSet(text) \cup {x}
    BY <1>1, <1>2, <1>3 DEF ToSet, new
<1> QED BY <1>4 DEF new

LEMMA OnceAppend ==
    ASSUME NEW text \in Seq(Fields), NEW x \in Fields, Once(text), x \notin ToSet(text)
    PROVE  Once(Append(text, x))
<1>1. Len(Append(text, x)) = Len(text) + 1
    OBVIOUS
<1>2. /\ IsFiniteSet(ToSet(text) \cup {x})
      /\ Cardinality(ToSet(text) \cup {x}) = Cardinality(ToSet(text)) + 1
    BY FS_AddElement DEF Once
<1> QED BY <1>1, <1>2, AppendSet DEF Once

LEMMA PrefixPoints ==
    ASSUME NEW a \in Seq(Fields), NEW b \in Seq(Fields)
    PROVE  IsPrefix(a, b) <=> Len(a) <= Len(b) /\ \A i \in 1..Len(a) : a[i] = b[i]
<1>1. Len(a) \in Nat /\ Len(b) \in Nat
    OBVIOUS
<1> DEFINE c == SubSeq(b, 1, Len(a))
<1>2. SubSeq(a, 1, Len(a)) = a
    BY SubSeqFull
<1>3. ASSUME Len(a) <= Len(b)
      PROVE  c \in Seq(Fields) /\ Len(c) = Len(a) /\ \A i \in 1..Len(a) : c[i] = b[i]
    BY <1>1, <1>3
<1> HIDE DEF c
<1>4. ASSUME Len(a) <= Len(b), \A i \in 1..Len(a) : a[i] = b[i] PROVE a = c
    BY <1>3, <1>4, SeqEqual
<1> QED BY <1>2, <1>3, <1>4 DEF IsPrefix, c

LEMMA PrefixFacts ==
    ASSUME NEW a \in Seq(Fields), NEW b \in Seq(Fields)
    PROVE  /\ IsPrefix(a, a) /\ IsPrefix(<<>>, a)
           /\ \A x \in Fields : IsPrefix(a, b) => IsPrefix(a, Append(b, x))
<1>1. IsPrefix(a, a)
    BY PrefixPoints
<1>2. IsPrefix(<<>>, a)
  <2>1. PICK e \in Seq(Fields) : e = <<>>
    BY EmptySeq
  <2>2. Len(e) = 0 /\ Len(a) \in Nat
    BY <2>1, EmptySeq
  <2>3. Len(e) <= Len(a) /\ \A i \in 1..Len(e) : e[i] = a[i]
    BY <2>2
  <2>4. IsPrefix(e, a)
    BY <2>3, PrefixPoints
  <2> QED BY <2>1, <2>4
<1>3. ASSUME NEW x \in Fields, IsPrefix(a, b) PROVE IsPrefix(a, Append(b, x))
  <2>1. Len(a) <= Len(b) /\ \A i \in 1..Len(a) : a[i] = b[i]
    BY <1>3, PrefixPoints
  <2>2. /\ Append(b, x) \in Seq(Fields) /\ Len(Append(b, x)) = Len(b) + 1
        /\ \A i \in 1..Len(b) : Append(b, x)[i] = b[i]
        /\ Len(a) \in Nat /\ Len(b) \in Nat
    OBVIOUS
  <2>3. Len(a) <= Len(Append(b, x)) /\ \A i \in 1..Len(a) : a[i] = Append(b, x)[i]
    BY <2>1, <2>2
  <2> QED BY <2>2, <2>3, PrefixPoints
<1> QED BY <1>1, <1>2, <1>3

-----------------------------------------------------------------------------
\* What is kept while a callback is inside the lock: nobody else writes there.
LEMMA EntryStands ==
    ASSUME TypeOK, Owners, Locked, NEW t \in Threads, Callback(t) \/ FormatEvent(t),
           NEW u \in Threads, u # t, NEW s \in Spans, Holds(u, s)
    PROVE  ext'[s] = ext[s] /\ op'[u] = op[u]
<1>1. op'[u] = op[u]
    BY GoOnSteps DEF GoesOn, Ends
<1>2. CASE OnNewSpan(t) \/ OnRecord(t)
  <2>1. Writing(t, op[t].span) /\ Holds(t, op[t].span)
    BY <1>2 DEF OnNewSpan, OnRecord, Formatted, InCall, Writing, Holds, Busy
  <2>2. op[t].span \in Spans
    BY <2>1, BusyFacts DEF Writing, Busy
  <2>3. s # op[t].span
    BY <2>1, <2>2 DEF Locked
  <2>4. UNCHANGED ext \/ Keeps(t) \/ ext' = [ext EXCEPT ![op[t].span] = <<>>]
    BY CallbackWrites
  <2> QED BY <1>1, <2>3, <2>4 DEF Keeps, TypeOK
<1>3. CASE Return(t)
  <2>1. op[t] # Idle /\ (UNCHANGED ext \/ (op[t].kind = "close" /\ ext' = [ext EXCEPT ![op[t].span] = <<>>]))
    BY <1>3 DEF Return
  <2>2. op[t].kind = "close" => s # op[t].span
    BY <2>1 DEF Owners, Holds, Busy
  <2> QED BY <1>1, <2>1, <2>2 DEF TypeOK
<1>4. CASE Skip(t) \/ ForWriting(t) \/ ForReading(t) \/ OnEvent(t) \/ OnLook(t) \/ FormatEvent(t)
    BY <1>1, <1>4 DEF Skip, ForWriting, ForReading, OnEvent, OnLook, FormatEvent
<1> QED BY <1>2, <1>3, <1>4 DEF Callback

\* The text a callback inside the lock ought to have.
Entry(t)       == IF Known(t) THEN Text(t) ELSE <<>>
Expected(t, s) == Visit(Entry(t), IF Writing(t, s) THEN op[t].field ELSE NoField)

LEMMA FreshStep ==
    ASSUME TypeOK, Owners, Locked, Fresh, [Next]_vars
    PROVE  Fresh'
<1>1. Fresh <=> \A u \in Threads, s \in Spans : Holds(u, s) => op[u].text = Expected(u, s)
    BY DEF Fresh, Expected, Entry
<1>2. Fresh' <=> \A u \in Threads, s \in Spans : Holds(u, s)' => op'[u].text = Expected(u, s)'
    BY DEF Fresh, Expected, Entry
<1>3. ASSUME NEW u \in Threads, NEW s \in Spans, Holds(u, s), op'[u] = op[u], ext'[s] = ext[s]
      PROVE  op'[u].text = Expected(u, s)'
  <2>1. Known(u)' = Known(u) /\ Text(u)' = Text(u) /\ Writing(u, s)' = Writing(u, s)
    BY <1>3 DEF Known, Text, Layer, Holds, Busy, Writing
  <2> QED BY <1>1, <1>3, <2>1 DEF Expected, Entry
<1>4. ASSUME NEW t \in Threads, Program(t) PROVE Fresh'
    BY <1>2, <1>3, <1>4, ProgramOutside DEF Holds
<1>5. ASSUME NEW t \in Threads, Callback(t) \/ FormatEvent(t) PROVE Fresh'
  <2> SUFFICES ASSUME NEW u \in Threads, NEW s \in Spans, Holds(u, s)'
               PROVE  op'[u].text = Expected(u, s)'
    BY <1>2
  <2>1. CASE u # t
    <3>1. op'[u] = op[u]
      BY <1>5, <2>1, GoOnSteps DEF GoesOn, Ends
    <3>2. Holds(u, s)
      BY <3>1 DEF Holds, Busy
    <3> QED BY <1>3, <1>5, <2>1, <3>1, <3>2, EntryStands
  <2>2. CASE u = t /\ ForWriting(t)
    <3>1. /\ Takes(t) /\ op[t].kind \in {"new", "record"}
          /\ op'[t].text = Visit(Entry(t), op[t].field)
      BY <2>2, WritingTakes DEF Entry
    <3>2. /\ UNCHANGED ext /\ op'[t].at = op[t].at /\ op'[t].span = op[t].span
          /\ op'[t].kind = op[t].kind /\ op'[t].field = op[t].field
      BY <3>1 DEF Takes, GoesOn
    <3>3. Known(t)' = Known(t) /\ Text(t)' = Text(t)
      BY <3>2 DEF Known, Text, Layer
    <3>4. Writing(t, s)'
      BY <2>2, <3>1, <3>2 DEF Writing, Holds
    <3> QED BY <2>2, <3>1, <3>2, <3>3, <3>4 DEF Expected, Entry
  <2>3. CASE u = t /\ ForReading(t)
    <3>1. /\ Takes(t) /\ op[t].kind \in {"enter", "exit", "close"}
          /\ op'[t].text = Entry(t)
      BY <2>3, ReadingTakes DEF Entry
    <3>2. /\ UNCHANGED ext /\ op'[t].at = op[t].at /\ op'[t].span = op[t].span
          /\ op'[t].kind = op[t].kind
      BY <3>1 DEF Takes, GoesOn
    <3>3. Known(t)' = Known(t) /\ Text(t)' = Text(t)
      BY <3>2 DEF Known, Text, Layer
    <3>4. ~Writing(t, s)'
      BY <3>1, <3>2 DEF Writing
    <3> QED BY <2>3, <3>1, <3>3, <3>4 DEF Expected, Entry, Visit
  <2>4. CASE u = t /\ Formats(t)
    <3>1. /\ UNCHANGED ext /\ op'[t].at = op[t].at /\ op'[t].span = op[t].span
          /\ op'[t].kind = op[t].kind /\ op'[t].field = op[t].field
          /\ op'[t].text = op[t].text /\ op'[t].phase = op[t].phase
          /\ op[t] # Idle /\ op'[t] # Idle
      BY <2>4 DEF Formats, GoesOn
    <3>2. Known(t)' = Known(t) /\ Text(t)' = Text(t) /\ (Writing(t, s)' <=> Writing(t, s))
      BY <3>1 DEF Known, Text, Layer, Writing, Busy
    <3>3. Holds(t, s)
      BY <2>4, <3>1 DEF Holds, Busy
    <3>4. op[t].text = Expected(t, s)
      BY <1>1, <3>3
    <3>5. Expected(t, s)' = Expected(t, s)
      BY <3>1, <3>2 DEF Expected, Entry, Visit
    <3> QED BY <2>4, <3>1, <3>4, <3>5
  <2>5. CASE u = t /\ (Leaves(t) \/ Ends(t))
    BY <2>5 DEF Leaves, Ends, Holds, Busy
  <2> QED BY <1>5, <2>1, <2>2, <2>3, <2>4, <2>5, CallbackSteps
<1>6. CASE UNCHANGED vars
  <2>1. UNCHANGED <<op, ext>>
    BY <1>6 DEF vars
  <2>2. \A u \in Threads, s \in Spans : Holds(u, s)' => Holds(u, s)
    BY <2>1 DEF Holds, Busy
  <2> QED BY <1>2, <1>3, <2>1, <2>2
<1> QED BY <1>4, <1>5, <1>6 DEF Next

-----------------------------------------------------------------------------
\* What the three callbacks that write find, and what they leave.
AtWork(t) ==
    /\ op[t] # Idle /\ op[t].span \in Spans /\ op[t].span \in alive /\ op[t].span \notin unused
    /\ op[t].at \in Layers /\ Using(op[t].at) /\ Layer(t).form = Stack[op[t].at].form
    /\ Holds(t, op[t].span) /\ op[t].text = Expected(t, op[t].span)
    /\ Leaves(t)

LEMMA Working ==
    ASSUME TypeOK, Owners, Locked, Fresh, NEW t \in Threads, OnNewSpan(t) \/ OnRecord(t) \/ OnLook(t)
    PROVE  AtWork(t)
<1>1. op[t] # Idle /\ op[t].at \in Layers /\ op[t].phase = "held" /\ Leave(t) /\ UNCHANGED registry
    BY DEF OnNewSpan, OnRecord, OnLook, InCall, Formatted
<1>2. op[t].span \in Spans /\ op[t].kind \in AllCallbacks
    BY <1>1, BusyFacts
<1>3. Busy(t, op[t].span) /\ Holds(t, op[t].span)
    BY <1>1 DEF Busy, Holds
<1>4. op[t].span \in alive /\ op[t].span \notin unused
    BY <1>2, <1>3 DEF Owners
<1>5. op[t].text = Expected(t, op[t].span)
    BY <1>2, <1>3 DEF Fresh, Expected, Entry
<1>6. ~Skipped(t)
    BY <1>2, <1>3 DEF Locked
<1>7. Using(op[t].at)
    BY <1>1, <1>2, <1>6, StackAssumption DEF Skipped, Layer, Using, AllCallbacks
<1> QED BY <1>1, <1>2, <1>3, <1>4, <1>5, <1>7, LeaveLeaves DEF AtWork, Layer

LEMMA NewSpanFacts ==
    ASSUME TypeOK, Owners, Givers, Locked, Fresh, Collected, NEW t \in Threads, OnNewSpan(t)
    PROVE  /\ AtWork(t) /\ op[t].kind = "new" /\ Writing(t, op[t].span)
           /\ Layer(t).form \notin DOMAIN ext[op[t].span]
           /\ op[t].text = Visit(<<>>, op[t].field)
           /\ recorded[op[t].span] = {op[t].field} \ {NoField}
           /\ \A u \in Threads : Busy(u, op[t].span) => u = t
           /\ Logs(t) /\ Keeps(t)
<1>1. AtWork(t) /\ op[t].kind = "new" /\ Writing(t, op[t].span)
    BY Working DEF OnNewSpan, InCall, Writing, AtWork, Holds
<1>2. op[t].at <= op[t].at
    BY <1>1, StackAssumption DEF AtWork, Layers
<1>3. Ahead(t, op[t].at, op[t].span)
    BY <1>1, <1>2 DEF Ahead
<1>4. Entered(op[t].span, op[t].at)
    BY <1>1 DEF Collected, AtWork
<1>5. Layer(t).form \notin DOMAIN ext[op[t].span]
    BY <1>1, <1>3, <1>4 DEF Entered, AtWork
<1>6. op[t].text = Visit(<<>>, op[t].field)
    BY <1>1, <1>5 DEF AtWork, Expected, Entry, Known
<1>7. recorded[op[t].span] = {op[t].field} \ {NoField}
    BY <1>1 DEF Givers, AtWork
<1>8. \A u \in Threads : Busy(u, op[t].span) => u = t
  <2> SUFFICES ASSUME NEW u \in Threads, Busy(u, op[t].span), u # t PROVE FALSE
    OBVIOUS
  <2>1. handles[op[t].span] = {t}
    BY <1>1 DEF Owners, AtWork, Writing
  <2>2. op[u].kind # "close" => u \in handles[op[t].span]
    BY <1>1 DEF Owners, AtWork
  <2>3. op[u].kind = "close" => handles[op[t].span] = {}
    BY <1>1 DEF Owners, AtWork
  <2> QED BY <2>1, <2>2, <2>3
<1>9. Line(t) /\ Keep(t)
    BY <1>5 DEF OnNewSpan, Known
<1>10. Logs(t) /\ Keeps(t)
    BY <1>1, <1>9, LineLogs, KeepKeeps DEF AtWork
<1> QED BY <1>1, <1>5, <1>6, <1>7, <1>8, <1>10

LEMMA RecordFacts ==
    ASSUME TypeOK, Owners, Givers, Locked, Fresh, Collected, NEW t \in Threads, OnRecord(t)
    PROVE  /\ AtWork(t) /\ op[t].kind = "record" /\ Writing(t, op[t].span)
           /\ Layer(t).form \in DOMAIN ext[op[t].span]
           /\ op[t].text = Append(ext[op[t].span][Layer(t).form], op[t].field)
           /\ op[t].field \in Fields /\ op[t].field \in recorded[op[t].span]
           /\ op[t].field \notin ToSet(ext[op[t].span][Layer(t).form])
           /\ \A u \in Threads : Busy(u, op[t].span) => op[u].kind \notin {"new", "close"}
           /\ UNCHANGED last \/ Logs(t)
           /\ Keeps(t)
<1>1. AtWork(t) /\ op[t].kind = "record" /\ Writing(t, op[t].span)
    BY Working DEF OnRecord, InCall, Writing, AtWork, Holds
<1>2. op[t].at <= op[t].at
    BY <1>1, StackAssumption DEF AtWork, Layers
<1>3. Ahead(t, op[t].at, op[t].span)
    BY <1>1, <1>2 DEF Ahead
<1>4. Entered(op[t].span, op[t].at)
    BY <1>1 DEF Collected, AtWork
<1>5. \A u \in Threads : Busy(u, op[t].span) => op[u].kind \notin {"new", "close"}
  <2> SUFFICES ASSUME NEW u \in Threads, Busy(u, op[t].span), op[u].kind \in {"new", "close"} PROVE FALSE
    OBVIOUS
  <2>1. t \in handles[op[t].span]
    BY <1>1 DEF Owners, AtWork, Writing
  <2>2. op[u].kind = "new" => handles[op[t].span] = {u}
    BY <1>1 DEF Owners, AtWork
  <2>3. op[u].kind = "close" => handles[op[t].span] = {}
    BY <1>1 DEF Owners, AtWork
  <2> QED BY <1>1, <2>1, <2>2, <2>3
<1>6. Layer(t).form \in DOMAIN ext[op[t].span]
    BY <1>1, <1>4, <1>5 DEF Entered, AtWork, Ahead, Writing
<1>7. /\ op[t].field # NoField /\ op[t].field \in recorded[op[t].span]
      /\ op[t].field \in Fields
  <2>1. op[t].field \in Fields \cup {NoField}
    BY <1>1, BusyFacts DEF AtWork
  <2> QED BY <1>1, <2>1 DEF Givers, AtWork
<1>8. op[t].text = Append(ext[op[t].span][Layer(t).form], op[t].field)
    BY <1>1, <1>6, <1>7 DEF AtWork, Expected, Entry, Known, Text, Visit
<1>9. op[t].field \notin ToSet(ext[op[t].span][Layer(t).form])
    BY <1>1, <1>3, <1>4, <1>6, <1>7 DEF Entered, AtWork
<1>10. Keep(t) /\ (UNCHANGED last \/ Line(t))
    BY DEF OnRecord
<1>11. Keeps(t) /\ (UNCHANGED last \/ Logs(t))
    BY <1>1, <1>10, LineLogs, KeepKeeps DEF AtWork
<1> QED BY <1>1, <1>5, <1>6, <1>7, <1>8, <1>9, <1>11

LEMMA LookFacts ==
    ASSUME TypeOK, Owners, Locked, Fresh, NEW t \in Threads, OnLook(t)
    PROVE  /\ AtWork(t) /\ op[t].kind \in {"enter", "exit", "close"} /\ ~Writing(t, op[t].span)
           /\ UNCHANGED ext
           /\ \/ UNCHANGED last
              \/ /\ Logs(t) /\ Layer(t).form \in DOMAIN ext[op[t].span]
                 /\ op[t].text = ext[op[t].span][Layer(t).form]
<1>1. AtWork(t) /\ op[t].kind \in {"enter", "exit", "close"} /\ UNCHANGED ext
    BY Working DEF OnLook, InCall
<1>2. ~Writing(t, op[t].span)
    BY <1>1 DEF Writing
<1>3. CASE Known(t)
  <2>1. Logs(t)
    BY <1>1, <1>3, LineLogs DEF OnLook, AtWork
  <2>2. op[t].text = ext[op[t].span][Layer(t).form]
    BY <1>1, <1>2, <1>3 DEF AtWork, Expected, Entry, Text, Visit
  <2> QED BY <1>1, <1>2, <1>3, <2>1, <2>2 DEF Known
<1>4. CASE ~Known(t)
    BY <1>1, <1>2, <1>4 DEF OnLook
<1> QED BY <1>3, <1>4

\* The entries of other layers, and of other spans, are not touched.
LEMMA OthersKept ==
    ASSUME TypeOK, TypesApart, NEW t \in Threads, op[t].at \in Layers, Using(op[t].at),
           Keeps(t), NEW s \in Spans, NEW l \in Layers, Using(l), s # op[t].span \/ l # op[t].at
    PROVE  /\ Stack[l].form \in DOMAIN ext'[s] <=> Stack[l].form \in DOMAIN ext[s]
           /\ Stack[l].form \in DOMAIN ext[s] => ext'[s][Stack[l].form] = ext[s][Stack[l].form]
<1>1. CASE s # op[t].span
    BY <1>1 DEF Keeps
<1>2. CASE s = op[t].span /\ l # op[t].at
  <2>1. Stack[l].form # Layer(t).form
    BY <1>2 DEF TypesApart, Layer
  <2> QED BY <1>2, <2>1 DEF Keeps
<1> QED BY <1>1, <1>2

-----------------------------------------------------------------------------
\* A layer and a span that a step has not touched.
Untouched(s, l) ==
    /\ Stack[l].form \in DOMAIN ext'[s] <=> Stack[l].form \in DOMAIN ext[s]
    /\ Stack[l].form \in DOMAIN ext[s] => ext'[s][Stack[l].form] = ext[s][Stack[l].form]
    /\ recorded'[s] = recorded[s]
    /\ \A u \in Threads : Ahead(u, l, s)' <=> Ahead(u, l, s)
    /\ \A u \in Threads : Ahead(u, l, s) => op'[u].kind = op[u].kind /\ op'[u].field = op[u].field

LEMMA EnteredKept ==
    ASSUME NEW s \in Spans, NEW l \in Layers, Untouched(s, l), Entered(s, l)
    PROVE  Entered(s, l)'
<1>1. (\E u \in Threads : Ahead(u, l, s) /\ op[u].kind = "new")'
        <=> \E u \in Threads : Ahead(u, l, s) /\ op[u].kind = "new"
    BY DEF Untouched
<1>2. \A x \in Fields : (\E u \in Threads : Ahead(u, l, s) /\ op[u].field = x)'
        <=> \E u \in Threads : Ahead(u, l, s) /\ op[u].field = x
    BY DEF Untouched
<1>3. Stack[l].form \in DOMAIN ext'[s] <=> Stack[l].form \in DOMAIN ext[s]
    BY DEF Untouched
<1>4. Stack[l].form \in DOMAIN ext[s] => ext'[s][Stack[l].form] = ext[s][Stack[l].form]
    BY DEF Untouched
<1>5. recorded'[s] = recorded[s]
    BY DEF Untouched
<1>6. (Stack[l].form \in DOMAIN ext[s] <=>
            ~\E t \in Threads : Ahead(t, l, s) /\ op[t].kind = "new")'
    BY <1>1, <1>3 DEF Entered
<1>7. ASSUME Stack[l].form \in DOMAIN ext[s]
      PROVE  /\ Once(ext'[s][Stack[l].form])
             /\ \A x \in Fields : x \in ToSet(ext'[s][Stack[l].form]) <=>
                x \in recorded'[s] /\ ~(\E t \in Threads : Ahead(t, l, s) /\ op[t].field = x)'
    BY <1>2, <1>4, <1>5, <1>7 DEF Entered
<1> QED BY <1>3, <1>6, <1>7 DEF Entered

\* A call that goes on is ahead of the layers it was ahead of, but for the one it leaves.
LEMMA AheadKept ==
    ASSUME TypeOK, NEW t \in Threads, GoesOn(t),
           op'[t].at = op[t].at \/ (op'[t].at = op[t].at + 1 /\ op[t].at \in Layers)
    PROVE  /\ \A u \in Threads, l \in Layers, s \in Spans :
                u # t \/ op'[t].at = op[t].at \/ l # op[t].at \/ s # op[t].span
                    => (Ahead(u, l, s)' <=> Ahead(u, l, s))
           /\ \A u \in Threads : op'[u].kind = op[u].kind /\ op'[u].field = op[u].field
<1>0. op[t].at \in Nat /\ \A l \in Layers : l \in Nat
    BY BusyFacts, StackAssumption DEF GoesOn, Layers
<1>1. \A u \in Threads : op'[u].kind = op[u].kind /\ op'[u].field = op[u].field /\ op'[u].span = op[u].span
    BY DEF GoesOn
<1>2. \A u \in Threads, s \in Spans : Writing(u, s)' <=> Writing(u, s)
    BY BusyKept
<1>3. \A l \in Layers : op'[t].at = op[t].at \/ l # op[t].at => (op'[t].at <= l <=> op[t].at <= l)
    BY <1>0
<1>4. \A u \in Threads : u # t => op'[u] = op[u]
    BY DEF GoesOn
<1>5. \A s \in Spans : s # op[t].span => ~Writing(t, s)
    BY DEF Writing, Busy
<1> QED BY <1>1, <1>2, <1>3, <1>4, <1>5 DEF Ahead

LEMMA CollectedStep ==
    ASSUME TypesApart, TypeOK, Owners, Givers, Locked, Fresh, Collected, [Next]_vars
    PROVE  Collected'
<1>0. alive \subseteq Spans /\ unused \subseteq Spans /\ \A l \in Layers : l \in Nat /\ 1 <= l
    BY StackAssumption DEF TypeOK, Layers
<1>1. ASSUME NEW t \in Threads, NEW sp, NEW at, sp = op[t].span, at = op[t].at, GoesOn(t),
             \/ op'[t].at = op[t].at /\ UNCHANGED ext
             \/ op'[t].at = op[t].at + 1 /\ op[t].at \in Layers /\ (UNCHANGED ext \/ (Keeps(t) /\ AtWork(t))),
             op'[t].at = at + 1 /\ Using(at) /\ sp \in alive => Entered(sp, at)'
      PROVE  Collected'
  <2>1. UNCHANGED <<alive, unused, recorded>>
    BY <1>1 DEF GoesOn, registry
  <2>2. \A s \in unused : DOMAIN ext'[s] = {}
    BY <1>0, <1>1 DEF Collected, Keeps, AtWork
  <2>3. ASSUME NEW s \in alive, NEW l \in Layers, Using(l) PROVE Entered(s, l)'
    <3>1. CASE op'[t].at = op[t].at + 1 /\ s = op[t].span /\ l = op[t].at
      BY <1>1, <2>3, <3>1
    <3>2. CASE op'[t].at = op[t].at \/ s # op[t].span \/ l # op[t].at
      <4>1. /\ \A u \in Threads : Ahead(u, l, s)' <=> Ahead(u, l, s)
            /\ \A u \in Threads : op'[u].kind = op[u].kind /\ op'[u].field = op[u].field
        BY <1>0, <1>1, <3>2, AheadKept
      <4>2. CASE UNCHANGED ext
        <5>1. Untouched(s, l)
          BY <2>1, <4>1, <4>2 DEF Untouched
        <5> QED BY <1>0, <2>3, <5>1, EnteredKept DEF Collected
      <4>3. CASE op'[t].at = op[t].at + 1 /\ Keeps(t) /\ AtWork(t)
        <5>1. op[t].at \in Nat /\ op'[t].at # op[t].at
          BY <1>0, <4>3 DEF AtWork
        <5>2. /\ Stack[l].form \in DOMAIN ext'[s] <=> Stack[l].form \in DOMAIN ext[s]
              /\ Stack[l].form \in DOMAIN ext[s] => ext'[s][Stack[l].form] = ext[s][Stack[l].form]
          BY <1>0, <2>3, <3>2, <4>3, <5>1, OthersKept DEF AtWork
        <5>3. Untouched(s, l)
          BY <2>1, <4>1, <5>2 DEF Untouched
        <5> QED BY <1>0, <2>3, <5>3, EnteredKept DEF Collected
      <4> QED BY <1>1, <4>2, <4>3
    <3> QED BY <1>1, <3>1, <3>2
  <2> QED BY <2>1, <2>2, <2>3 DEF Collected
<1>2. ASSUME NEW t \in Threads, OnNewSpan(t) PROVE Collected'
  <2>0. PICK sp, at, form, f : sp = op[t].span /\ at = op[t].at /\ form = Layer(t).form /\ f = op[t].field
    OBVIOUS
  <2>1. /\ AtWork(t) /\ op[t].kind = "new" /\ Writing(t, sp)
        /\ form \notin DOMAIN ext[sp]
        /\ op[t].text = Visit(<<>>, f)
        /\ recorded[sp] = {f} \ {NoField}
        /\ \A u \in Threads : Busy(u, sp) => u = t
        /\ Keeps(t)
    BY <1>2, <2>0, NewSpanFacts
  <2>2. GoesOn(t) /\ op'[t].at = at + 1 /\ at \in Layers /\ sp \in Spans /\ form = Stack[at].form
    BY <2>0, <2>1 DEF AtWork, Leaves
  <2>3. \A u \in Threads : ~Ahead(u, at, sp)'
    <3>1. \A u \in Threads : u # t => ~Writing(u, sp)'
      BY <2>1, <2>2, BusyKept DEF Writing
    <3>2. ~(at + 1 <= at)
      BY <1>0, <2>2
    <3> QED BY <2>2, <3>1, <3>2 DEF Ahead
  <2>4. /\ form \in DOMAIN ext'[sp] /\ ext'[sp][form] = op[t].text
        /\ recorded'[sp] = {f} \ {NoField}
    BY <2>0, <2>1, <2>2 DEF Keeps, GoesOn, registry
  <2>5. f \in Fields \cup {NoField} /\ <<>> \in Seq(Fields)
    BY <2>0, <2>1, BusyFacts, EmptySeq DEF AtWork
  <2>6. Once(op[t].text) /\ \A x \in Fields : x \in ToSet(op[t].text) <=> x \in {f} \ {NoField}
    <3>1. CASE f = NoField
      <4>1. op[t].text = <<>>
        BY <2>1, <3>1 DEF Visit
      <4> QED BY <3>1, <4>1, OnceEmpty
    <3>2. CASE f # NoField
      <4>1. op[t].text = Append(<<>>, f) /\ f \in Fields
        BY <2>1, <2>5, <3>2 DEF Visit
      <4>2. Once(op[t].text)
        BY <2>5, <4>1, OnceEmpty, OnceAppend
      <4>3. ToSet(op[t].text) = {f}
        <5>1. ToSet(Append(<<>>, f)) = ToSet(<<>>) \cup {f}
          BY <2>5, <4>1, AppendSet
        <5>2. ToSet(<<>>) = {}
          BY OnceEmpty
        <5> QED BY <4>1, <5>1, <5>2
      <4> QED BY <3>2, <4>2, <4>3
    <3> QED BY <3>1, <3>2
  <2>7. Entered(sp, at)'
    BY <2>2, <2>3, <2>4, <2>6 DEF Entered
  <2> QED BY <1>1, <2>0, <2>1, <2>2, <2>7
<1>3. ASSUME NEW t \in Threads, OnRecord(t) PROVE Collected'
  <2>0. PICK sp, at, form, f, text :
          /\ sp = op[t].span /\ at = op[t].at /\ form = Layer(t).form /\ f = op[t].field
          /\ text = ext[sp][form]
    OBVIOUS
  <2>1. /\ AtWork(t) /\ op[t].kind = "record" /\ Writing(t, sp)
        /\ form \in DOMAIN ext[sp]
        /\ op[t].text = Append(text, f)
        /\ f \in Fields /\ f \in recorded[sp] /\ f \notin ToSet(text)
        /\ \A u \in Threads : Busy(u, sp) => op[u].kind \notin {"new", "close"}
        /\ Keeps(t)
    BY <1>3, <2>0, RecordFacts
  <2>2. GoesOn(t) /\ op'[t].at = at + 1 /\ at \in Layers /\ sp \in Spans /\ form = Stack[at].form
        /\ Using(at) /\ sp \in alive
    BY <2>0, <2>1 DEF AtWork, Leaves
  <2>3. \A u \in Threads : (Ahead(u, at, sp)' <=> Ahead(u, at, sp) /\ u # t)
                            /\ op'[u].kind = op[u].kind /\ op'[u].field = op[u].field
    <3>1. \A u \in Threads : (Writing(u, sp)' <=> Writing(u, sp)) /\ op'[u].kind = op[u].kind /\ op'[u].field = op[u].field
      BY <2>2, BusyKept
    <3>2. ~(at + 1 <= at)
      BY <1>0, <2>2
    <3>3. \A u \in Threads : u # t => op'[u] = op[u]
      BY <2>2 DEF GoesOn
    <3> QED BY <2>2, <3>1, <3>2, <3>3 DEF Ahead
  <2>4. /\ form \in DOMAIN ext'[sp] /\ ext'[sp][form] = Append(text, f)
        /\ recorded'[sp] = recorded[sp]
    BY <2>0, <2>1, <2>2 DEF Keeps, GoesOn, registry
  <2>5. /\ Once(text)
        /\ \A x \in Fields : x \in ToSet(text) <=>
             x \in recorded[sp] /\ ~\E u \in Threads : Ahead(u, at, sp) /\ op[u].field = x
    <3>1. Entered(sp, at)
      BY <2>2 DEF Collected
    <3> QED BY <2>0, <2>1, <2>2, <3>1 DEF Entered
  <2>6. /\ text \in Seq(Fields) /\ Once(Append(text, f)) /\ ToSet(Append(text, f)) = ToSet(text) \cup {f}
    <3>1. text \in Seq(Fields)
      BY <2>0, <2>1, <2>2 DEF TypeOK
    <3> QED BY <2>1, <2>5, <3>1, OnceAppend, AppendSet
  <2>7. \A x \in Fields : x \in ToSet(Append(text, f)) <=>
             x \in recorded[sp] /\ ~\E u \in Threads : Ahead(u, at, sp)' /\ op'[u].field = x
    <3> TAKE x \in Fields
    <3>1. CASE x = f
      <4>1. \A u \in Threads : Ahead(u, at, sp) /\ u # t => op[u].field # f
        BY <2>0, <2>1, <2>2 DEF Givers, Ahead
      <4> QED BY <2>1, <2>3, <2>6, <3>1, <4>1
    <3>2. CASE x # f
      BY <2>0, <2>3, <2>5, <2>6, <3>2
    <3> QED BY <3>1, <3>2
  <2>8. \A u \in Threads : Ahead(u, at, sp)' => op'[u].kind # "new"
    BY <2>1, <2>3 DEF Ahead, Writing
  <2>9. Entered(sp, at)'
    BY <2>2, <2>4, <2>6, <2>7, <2>8 DEF Entered
  <2> QED BY <1>1, <2>0, <2>1, <2>2, <2>9
<1>4. ASSUME NEW t \in Threads, OnLook(t) PROVE Collected'
  <2>0. PICK sp, at : sp = op[t].span /\ at = op[t].at
    OBVIOUS
  <2>1. AtWork(t) /\ ~Writing(t, sp) /\ UNCHANGED ext
    BY <1>4, <2>0, LookFacts
  <2>2. GoesOn(t) /\ op'[t].at = at + 1 /\ at \in Layers /\ sp \in Spans /\ Using(at) /\ sp \in alive
    BY <2>0, <2>1 DEF AtWork, Leaves
  <2>3. /\ \A u \in Threads : Ahead(u, at, sp)' <=> Ahead(u, at, sp)
        /\ \A u \in Threads : op'[u].kind = op[u].kind /\ op'[u].field = op[u].field
    <3>1. /\ \A u \in Threads : (Writing(u, sp)' <=> Writing(u, sp))
          /\ \A u \in Threads : op'[u].kind = op[u].kind /\ op'[u].field = op[u].field
      BY <2>2, BusyKept
    <3>2. \A u \in Threads : u # t => op'[u] = op[u]
      BY <2>2 DEF GoesOn
    <3> QED BY <2>1, <3>1, <3>2 DEF Ahead
  <2>4. Untouched(sp, at)
    BY <2>1, <2>2, <2>3 DEF Untouched, GoesOn, registry
  <2>5. Entered(sp, at)'
    BY <2>2, <2>4, EnteredKept DEF Collected
  <2> QED BY <1>1, <2>0, <2>1, <2>2, <2>5
<1>5. ASSUME NEW t \in Threads, Skip(t) PROVE Collected'
  <2>0. PICK sp, at : sp = op[t].span /\ at = op[t].at
    OBVIOUS
  <2>1. /\ op[t] # Idle /\ op[t].kind \in AllCallbacks /\ at \in Layers /\ UNCHANGED ext
        /\ Leave(t) /\ Skipped(t) /\ UNCHANGED registry
    BY <1>5, <2>0 DEF Skip, InCall
  <2>2. GoesOn(t) /\ op'[t].at = at + 1 /\ sp \in Spans
    BY <2>0, <2>1, LeaveLeaves, BusyFacts DEF Leaves
  <2>3. Using(at) => ~Writing(t, sp)
    BY <2>0, <2>1 DEF Skipped, Layer, Using, Writing
  <2>4. ASSUME Using(at), sp \in alive PROVE Entered(sp, at)'
    <3>1. /\ \A u \in Threads : (Writing(u, sp)' <=> Writing(u, sp))
          /\ \A u \in Threads : op'[u].kind = op[u].kind /\ op'[u].field = op[u].field
      BY <2>2, BusyKept
    <3>2. \A u \in Threads : u # t => op'[u] = op[u]
      BY <2>2 DEF GoesOn
    <3>3. \A u \in Threads : Ahead(u, at, sp)' <=> Ahead(u, at, sp)
      BY <2>3, <2>4, <3>1, <3>2 DEF Ahead
    <3>4. Untouched(sp, at)
      BY <2>1, <3>1, <3>3 DEF Untouched, registry
    <3> QED BY <2>1, <2>2, <2>4, <3>4, EnteredKept DEF Collected
  <2> QED BY <1>1, <2>0, <2>1, <2>2, <2>4
<1>6. ASSUME NEW t \in Threads, Takes(t) \/ Formats(t) PROVE Collected'
  <2>0. PICK sp, at : sp = op[t].span /\ at = op[t].at
    OBVIOUS
  <2>1. GoesOn(t) /\ op'[t].at = at /\ UNCHANGED ext /\ at \in Nat
    BY <1>6, <2>0, BusyFacts DEF Takes, Formats, GoesOn
  <2>2. at # at + 1
    BY <2>1
  <2> QED BY <1>1, <2>0, <2>1, <2>2
<1>7. ASSUME NEW t \in Threads, Return(t), Ends(t) PROVE Collected'
  <2>1. /\ op[t] # Idle /\ op[t].at \notin Layers /\ UNCHANGED <<unused, recorded>>
        /\ \/ op[t].kind = "close" /\ alive' = alive \ {op[t].span} /\ ext' = [ext EXCEPT ![op[t].span] = <<>>]
           \/ UNCHANGED <<alive, ext>>
    BY <1>7 DEF Return
  <2>2. op[t].span \notin unused /\ alive' \subseteq alive
        /\ \A s \in Spans : s \in alive' \/ s \in unused => ext'[s] = ext[s]
    <3>1. op[t].span \in alive /\ op[t].span \notin unused
      BY <2>1, BusyFacts DEF Owners, Busy
    <3> QED BY <2>1, <3>1 DEF TypeOK
  <2>3. ASSUME NEW s \in alive', NEW l \in Layers, Using(l) PROVE Entered(s, l)'
    <3>1. s \in Spans /\ s \in alive
      BY <1>0, <2>2
    <3>2. ~(op[t].at <= l)
      BY <2>1, BusyFacts, StackAssumption DEF Layers
    <3>3. \A u \in Threads : Ahead(u, l, s)' <=> Ahead(u, l, s)
      BY <1>7, <3>1, <3>2, BusyEnds DEF Ahead
    <3>4. \A u \in Threads : Ahead(u, l, s) => op'[u].kind = op[u].kind /\ op'[u].field = op[u].field
      BY <1>7, <3>2 DEF Ahead, Ends
    <3>5. Untouched(s, l)
      BY <2>1, <2>2, <3>1, <3>3, <3>4 DEF Untouched
    <3> QED BY <2>3, <3>1, <3>5, EnteredKept DEF Collected
  <2> QED BY <1>0, <2>1, <2>2, <2>3 DEF Collected
<1>8. ASSUME NEW t \in Threads, Callback(t) \/ FormatEvent(t) PROVE Collected'
    BY <1>2, <1>3, <1>4, <1>5, <1>6, <1>7, <1>8, CallbackSteps
<1>9. ASSUME NEW t \in Threads, NEW kind \in AllCallbacks, NEW s \in Spans, NEW f \in Fields \cup {NoField},
             Begins(t, kind, s, f)
      PROVE  \A l \in Layers, x \in Spans :
               /\ \A u \in Threads : Ahead(u, l, x)' <=> Ahead(u, l, x) \/ (u = t /\ x = s /\ kind \in {"new", "record"})
               /\ \A u \in Threads : Ahead(u, l, x) => op'[u] = op[u] /\ u # t
  <2>1. /\ \A x \in Spans : ~Busy(t, x)
        /\ \A u \in Threads, x \in Spans :
            Writing(u, x)' <=> Writing(u, x) \/ (u = t /\ x = s /\ kind \in {"new", "record"})
        /\ \A u \in Threads : u # t => op'[u] = op[u]
    BY <1>9, BusyBegins
  <2>2. op'[t].at = 1
    BY <1>9 DEF Begins
  <2>3. \A x \in Spans : ~Writing(t, x)
    BY <2>1 DEF Writing
  <2> QED BY <1>0, <2>1, <2>2, <2>3 DEF Ahead
<1>10. ASSUME NEW t \in Threads, NEW s \in Spans, NEW f \in Fields \cup {NoField}, Creates(t, s, f) PROVE Collected'
  <2>1. /\ s \in unused /\ unused' = unused \ {s} /\ alive' = alive \cup {s} /\ UNCHANGED ext
        /\ recorded'[s] = {f} \ {NoField} /\ \A x \in Spans : x # s => recorded'[x] = recorded[x]
        /\ Begins(t, "new", s, f)
    BY <1>10 DEF Creates, TypeOK
  <2>2. \A l \in Layers, x \in Spans :
               /\ \A u \in Threads : Ahead(u, l, x)' <=> Ahead(u, l, x) \/ (u = t /\ x = s)
               /\ \A u \in Threads : Ahead(u, l, x) => op'[u] = op[u] /\ u # t
    BY <1>9, <2>1 DEF AllCallbacks
  <2>3. ASSUME NEW x \in alive, x # s, NEW l \in Layers, Using(l) PROVE Entered(x, l)'
    <3>1. x \in Spans
      BY <1>0, <2>3
    <3>2. Untouched(x, l)
      BY <2>1, <2>2, <2>3, <3>1 DEF Untouched
    <3> QED BY <2>3, <3>1, <3>2, EnteredKept DEF Collected
  <2>4. ASSUME NEW l \in Layers PROVE Entered(s, l)'
    <3>1. op'[t].kind = "new" /\ Ahead(t, l, s)'
      BY <2>1, <2>2 DEF Begins
    <3>2. DOMAIN ext'[s] = {}
      BY <2>1 DEF Collected
    <3> QED BY <3>1, <3>2 DEF Entered
  <2>5. \A x \in unused' : DOMAIN ext'[x] = {}
    BY <2>1 DEF Collected
  <2>6. ASSUME NEW x \in alive', NEW l \in Layers, Using(l) PROVE Entered(x, l)'
    BY <2>1, <2>3, <2>4, <2>6
  <2> QED BY <2>5, <2>6 DEF Collected
<1>11. ASSUME NEW t \in Threads, NEW s \in Spans, NEW f \in Fields \cup {NoField}, Gives(t, s, f) PROVE Collected'
  <2>1. /\ s \in alive /\ UNCHANGED <<unused, alive, ext>> /\ f \in Fields /\ f \notin recorded[s]
        /\ recorded'[s] = recorded[s] \cup {f} /\ \A x \in Spans : x # s => recorded'[x] = recorded[x]
        /\ Begins(t, "record", s, f)
    BY <1>11 DEF Gives, TypeOK
  <2>2. \A l \in Layers, x \in Spans :
               /\ \A u \in Threads : Ahead(u, l, x)' <=> Ahead(u, l, x) \/ (u = t /\ x = s)
               /\ \A u \in Threads : Ahead(u, l, x) => op'[u] = op[u] /\ u # t
    BY <1>9, <2>1 DEF AllCallbacks
  <2>3. ASSUME NEW x \in alive, x # s, NEW l \in Layers, Using(l) PROVE Entered(x, l)'
    <3>1. x \in Spans
      BY <1>0, <2>3
    <3>2. Untouched(x, l)
      BY <2>1, <2>2, <2>3, <3>1 DEF Untouched
    <3> QED BY <2>3, <3>1, <3>2, EnteredKept DEF Collected
  <2>4. ASSUME NEW l \in Layers, Using(l) PROVE Entered(s, l)'
    <3>1. op'[t].kind = "record" /\ op'[t].field = f
      BY <2>1 DEF Begins
    <3>2. Entered(s, l)
      BY <2>1, <2>4 DEF Collected
    <3>3. (\E u \in Threads : Ahead(u, l, s) /\ op[u].kind = "new")'
            <=> \E u \in Threads : Ahead(u, l, s) /\ op[u].kind = "new"
      BY <2>2, <3>1
    <3>4. \A x \in Fields : x # f =>
            ((\E u \in Threads : Ahead(u, l, s) /\ op[u].field = x)'
              <=> \E u \in Threads : Ahead(u, l, s) /\ op[u].field = x)
      BY <2>2, <3>1
    <3>5. (\E u \in Threads : Ahead(u, l, s) /\ op[u].field = f)'
      BY <2>2, <3>1
    <3>6. Stack[l].form \in DOMAIN ext[s] =>
            /\ Once(ext[s][Stack[l].form])
            /\ \A x \in Fields : x \in ToSet(ext[s][Stack[l].form]) <=>
                x \in recorded'[s] /\ ~(\E u \in Threads : Ahead(u, l, s) /\ op[u].field = x)'
      <4> SUFFICES ASSUME Stack[l].form \in DOMAIN ext[s], NEW x \in Fields
                   PROVE  /\ Once(ext[s][Stack[l].form])
                          /\ x \in ToSet(ext[s][Stack[l].form]) <=>
                             x \in recorded'[s] /\ ~(\E u \in Threads : Ahead(u, l, s) /\ op[u].field = x)'
        BY <3>2 DEF Entered
      <4>1. /\ Once(ext[s][Stack[l].form])
            /\ x \in ToSet(ext[s][Stack[l].form]) <=>
                 x \in recorded[s] /\ ~\E u \in Threads : Ahead(u, l, s) /\ op[u].field = x
        BY <3>2 DEF Entered
      <4>2. CASE x = f
        BY <2>1, <3>5, <4>1, <4>2
      <4>3. CASE x # f
        BY <2>1, <3>4, <4>1, <4>3
      <4> QED BY <4>2, <4>3
    <3>7. Stack[l].form \in DOMAIN ext[s] <=> ~(\E u \in Threads : Ahead(u, l, s) /\ op[u].kind = "new")'
      BY <3>2, <3>3 DEF Entered
    <3> QED BY <2>1, <3>6, <3>7 DEF Entered
  <2>5. \A x \in unused' : DOMAIN ext'[x] = {}
    BY <2>1 DEF Collected
  <2>6. ASSUME NEW x \in alive', NEW l \in Layers, Using(l) PROVE Entered(x, l)'
    BY <2>1, <2>3, <2>4, <2>6
  <2> QED BY <2>5, <2>6 DEF Collected
<1>12. ASSUME UNCHANGED <<alive, unused, ext, recorded>>,
              \A l \in Layers, x \in Spans, u \in Threads :
                /\ Ahead(u, l, x)' <=> Ahead(u, l, x)
                /\ Ahead(u, l, x) => op'[u] = op[u]
       PROVE  Collected'
  <2>1. ASSUME NEW x \in alive, NEW l \in Layers, Using(l) PROVE Entered(x, l)'
    <3>1. x \in Spans
      BY <1>0, <2>1
    <3>2. Untouched(x, l)
      BY <1>12, <3>1 DEF Untouched
    <3> QED BY <2>1, <3>1, <3>2, EnteredKept DEF Collected
  <2> QED BY <1>12, <2>1 DEF Collected
<1>13. ASSUME NEW t \in Threads, Program(t) PROVE Collected'
  <2>1. PICK s \in Spans :
             \/ \E f \in Fields \cup {NoField} : Creates(t, s, f) \/ Gives(t, s, f)
             \/ \E kind \in {"enter", "exit"} : Touches(t, s, kind)
             \/ Closes(t, s)
             \/ Passes(t, s)
    BY <1>13, ProgramSteps
  <2>2. ASSUME NEW kind \in {"enter", "exit", "close"}, Begins(t, kind, s, NoField),
               UNCHANGED <<alive, unused, ext, recorded>>
        PROVE  Collected'
    BY <1>9, <1>12, <2>2 DEF AllCallbacks
  <2>3. CASE \E kind \in {"enter", "exit"} : Touches(t, s, kind)
    BY <2>2, <2>3 DEF Touches
  <2>4. CASE Closes(t, s)
    BY <2>2, <2>4 DEF Closes
  <2>5. CASE Passes(t, s)
    <3>1. UNCHANGED <<alive, unused, ext, recorded, op>>
      BY <2>5 DEF Passes
    <3> QED BY <1>12, <3>1 DEF Ahead, Writing, Busy
  <2> QED BY <1>10, <1>11, <2>1, <2>3, <2>4, <2>5
<1>14. CASE UNCHANGED vars
  <2>1. UNCHANGED <<alive, unused, ext, recorded, op>>
    BY <1>14 DEF vars
  <2> QED BY <1>12, <2>1 DEF Ahead, Writing, Busy
<1> QED BY <1>8, <1>13, <1>14 DEF Next

-----------------------------------------------------------------------------
\* A layer and a span that a step has not logged about.
Unlogged(s, l) ==
    /\ last'[<<l, s>>] = last[<<l, s>>]
    /\ s \in unused' => s \in unused
    /\ s \in alive' => s \in alive
    /\ Using(l) /\ s \in alive' =>
        /\ Stack[l].form \in DOMAIN ext'[s] <=> Stack[l].form \in DOMAIN ext[s]
        /\ Stack[l].form \in DOMAIN ext[s] => ext'[s][Stack[l].form] = ext[s][Stack[l].form]
    /\ s \in alive' => \A u \in Threads : Busy(u, s) /\ op[u].kind = "close" /\ op[u].at > l =>
        Busy(u, s)' /\ op'[u].kind = "close" /\ op'[u].at > l

LEMMA TellsKept ==
    ASSUME NEW s \in Spans, NEW l \in Layers, Unlogged(s, l), Tells(s, l)
    PROVE  Tells(s, l)'
<1>1. (~Using(l) \/ s \in unused')  => last'[<<l, s>>] = NoLine
    BY DEF Unlogged, Tells
<1>2. ASSUME Using(l), s \in alive'
      PROVE  IF Stack[l].form \in DOMAIN ext'[s]
             THEN /\ last'[<<l, s>>].action # "none"
                  /\ IsPrefix(last'[<<l, s>>].text, ext'[s][Stack[l].form])
             ELSE last'[<<l, s>>] = NoLine
  <2>1. CASE Stack[l].form \in DOMAIN ext[s]
    BY <1>2, <2>1 DEF Unlogged, Tells
  <2>2. CASE Stack[l].form \notin DOMAIN ext[s]
    BY <1>2, <2>2 DEF Unlogged, Tells
  <2> QED BY <2>1, <2>2
<1>3. ASSUME last'[<<l, s>>].action = "close", s \in alive'
      PROVE  \E t \in Threads : Busy(t, s)' /\ op'[t].kind = "close" /\ op'[t].at > l
    BY <1>3 DEF Unlogged, Tells
<1>4. Using(l)' <=> Using(l)
    BY DEF Using
<1> QED BY <1>1, <1>2, <1>3, <1>4 DEF Tells

\* What a callback that logs says, and what it had said before.
LEMMA LineFacts ==
    ASSUME TypeOK, Owners, Givers, Locked, Fresh, Collected, Told, NEW t \in Threads,
           OnNewSpan(t) \/ OnRecord(t) \/ OnLook(t), NEW sp, NEW at, NEW form,
           sp = op[t].span, at = op[t].at, form = Stack[at].form
    PROVE  /\ AtWork(t) /\ sp \in Spans /\ at \in Layers /\ form = Layer(t).form
           /\ UNCHANGED last \/ Logs(t)
           /\ form \in DOMAIN ext'[sp] <=> (form \in DOMAIN ext[sp] \/ op[t].kind = "new")
           /\ form \in DOMAIN ext[sp] => IsPrefix(last[<<at, sp>>].text, ext'[sp][form])
           /\ Logs(t) => /\ form \in DOMAIN ext'[sp] /\ ext'[sp][form] = op[t].text
                         /\ IsPrefix(op[t].text, op[t].text)
                         /\ IsPrefix(last[<<at, sp>>].text, op[t].text)
           /\ last[<<at, sp>>].action = "none" <=> op[t].kind = "new"
           /\ op[t].kind = "new" => Logs(t)
           /\ last[<<at, sp>>].action # "close"
           /\ op[t].kind \in AllCallbacks
           /\ UNCHANGED ext \/ Keeps(t)
<1>1. AtWork(t)
    BY Working
<1>2. /\ sp \in Spans /\ at \in Layers /\ form = Layer(t).form /\ sp \in alive /\ Using(at)
      /\ Busy(t, sp) /\ op[t].kind \in AllCallbacks /\ op[t].text \in Seq(Fields)
    BY <1>1, BusyFacts DEF AtWork, Holds
<1>3. IsPrefix(op[t].text, op[t].text)
    BY <1>2, PrefixFacts
<1>4. Tells(sp, at)
    BY <1>2 DEF Told
<1>5. last[<<at, sp>>].text \in Seq(Fields)
    BY <1>2 DEF TypeOK
<1>6. last[<<at, sp>>].action # "close"
  <2> SUFFICES ASSUME last[<<at, sp>>].action = "close" PROVE FALSE
    OBVIOUS
  <2>1. PICK u \in Threads : Busy(u, sp) /\ op[u].kind = "close" /\ op[u].at > at
    BY <1>2, <1>4 DEF Tells
  <2>2. u = t
    BY <1>2, <2>1 DEF Owners
  <2>3. at \in Nat
    BY <1>2, StackAssumption DEF Layers
  <2> QED BY <2>1, <2>2, <2>3
<1>7. CASE OnNewSpan(t)
  <2>1. /\ op[t].kind = "new" /\ form \notin DOMAIN ext[sp] /\ Logs(t) /\ Keeps(t)
    BY <1>2, <1>7, NewSpanFacts
  <2>2. last[<<at, sp>>] = NoLine
    BY <1>2, <1>4, <2>1 DEF Tells
  <2>3. IsPrefix(last[<<at, sp>>].text, op[t].text) /\ last[<<at, sp>>].action = "none"
    BY <1>2, <2>2, PrefixFacts DEF NoLine
  <2>4. form \in DOMAIN ext'[sp] /\ ext'[sp][form] = op[t].text
    BY <1>2, <2>1 DEF Keeps
  <2> QED BY <1>1, <1>2, <1>3, <1>6, <2>1, <2>3, <2>4
<1>8. CASE OnRecord(t)
  <2>1. /\ op[t].kind = "record" /\ form \in DOMAIN ext[sp]
        /\ op[t].text = Append(ext[sp][form], op[t].field) /\ op[t].field \in Fields
        /\ UNCHANGED last \/ Logs(t)
        /\ Keeps(t)
    BY <1>2, <1>8, RecordFacts
  <2>2. last[<<at, sp>>].action # "none" /\ IsPrefix(last[<<at, sp>>].text, ext[sp][form])
    BY <1>2, <1>4, <2>1 DEF Tells
  <2>3. ext[sp][form] \in Seq(Fields)
    BY <1>2, <2>1 DEF TypeOK
  <2>4. IsPrefix(last[<<at, sp>>].text, op[t].text)
    BY <1>5, <2>1, <2>2, <2>3, PrefixFacts
  <2>5. form \in DOMAIN ext'[sp] /\ ext'[sp][form] = op[t].text
    BY <1>2, <2>1 DEF Keeps
  <2> QED BY <1>1, <1>2, <1>3, <1>6, <2>1, <2>2, <2>4, <2>5
<1>9. CASE OnLook(t)
  <2>1. /\ op[t].kind # "new" /\ UNCHANGED ext
        /\ UNCHANGED last \/ (Logs(t) /\ form \in DOMAIN ext[sp] /\ op[t].text = ext[sp][form])
    BY <1>2, <1>9, LookFacts
  <2>2. form \in DOMAIN ext[sp]
    <3>1. Entered(sp, at)
      BY <1>2 DEF Collected
    <3>2. ~\E u \in Threads : Busy(u, sp) /\ op[u].kind = "new"
      <4> SUFFICES ASSUME NEW u \in Threads, Busy(u, sp), op[u].kind = "new" PROVE FALSE
        OBVIOUS
      <4>1. handles[sp] = {u}
        BY <1>2 DEF Owners
      <4>2. op[t].kind = "close" \/ t \in handles[sp]
        BY <1>2 DEF Owners
      <4>3. op[t].kind = "close" => handles[sp] = {}
        BY <1>2 DEF Owners
      <4>4. u = t
        BY <4>1, <4>2, <4>3
      <4> QED BY <2>1, <4>4
    <3> QED BY <1>2, <3>1, <3>2 DEF Entered, Ahead, Writing
  <2>3. last[<<at, sp>>].action # "none" /\ IsPrefix(last[<<at, sp>>].text, ext[sp][form])
    BY <1>2, <1>4, <2>2 DEF Tells
  <2>4. Logs(t) => op[t].text = ext[sp][form]
    <3>1. Known(t)
      BY <1>2, <2>2 DEF Known
    <3>2. ~Writing(t, sp)
      BY <1>2, <1>9, LookFacts
    <3> QED BY <1>1, <1>2, <3>1, <3>2 DEF AtWork, Expected, Entry, Text, Visit
  <2> QED BY <1>1, <1>2, <1>3, <1>6, <2>1, <2>2, <2>3, <2>4
<1> QED BY <1>7, <1>8, <1>9

LEMMA ToldStep ==
    ASSUME TypesApart, TypeOK, Owners, Givers, Locked, Fresh, Collected, Told, [Next]_vars
    PROVE  Told'
<1>0. alive \subseteq Spans /\ unused \subseteq Spans /\ \A l \in Layers : l \in Nat
    BY StackAssumption DEF TypeOK, Layers
<1>1. ASSUME NEW t \in Threads, GoesOn(t), op'[t].at = op[t].at \/ op'[t].at = op[t].at + 1
      PROVE  /\ UNCHANGED <<alive, unused>>
             /\ \A s \in Spans, l \in Layers, u \in Threads : Busy(u, s) /\ op[u].kind = "close" /\ op[u].at > l =>
                    Busy(u, s)' /\ op'[u].kind = "close" /\ op'[u].at > l
  <2>1. op[t].at \in Nat /\ UNCHANGED <<alive, unused>> /\ \A u \in Threads : u # t => op'[u] = op[u]
    BY <1>1, BusyFacts DEF GoesOn, registry
  <2>2. \A u \in Threads, s \in Spans : (Busy(u, s)' <=> Busy(u, s)) /\ op'[u].kind = op[u].kind
    BY <1>1, BusyKept
  <2> QED BY <1>0, <1>1, <2>1, <2>2
<1>2. ASSUME NEW t \in Threads, OnNewSpan(t) \/ OnRecord(t) \/ OnLook(t) PROVE Told'
  <2>0. PICK sp, at, form : sp = op[t].span /\ at = op[t].at /\ form = Stack[at].form
    OBVIOUS
  <2>1. /\ AtWork(t) /\ sp \in Spans /\ at \in Layers /\ form = Layer(t).form
        /\ UNCHANGED last \/ Logs(t)
        /\ form \in DOMAIN ext'[sp] <=> (form \in DOMAIN ext[sp] \/ op[t].kind = "new")
        /\ form \in DOMAIN ext[sp] => IsPrefix(last[<<at, sp>>].text, ext'[sp][form])
        /\ Logs(t) => /\ form \in DOMAIN ext'[sp] /\ ext'[sp][form] = op[t].text
                      /\ IsPrefix(op[t].text, op[t].text)
        /\ op[t].kind = "new" => Logs(t)
        /\ last[<<at, sp>>].action # "close"
        /\ op[t].kind \in AllCallbacks
        /\ UNCHANGED ext \/ Keeps(t)
    BY <1>2, <2>0, LineFacts
  <2>2. GoesOn(t) /\ op'[t].at = at + 1 /\ Using(at) /\ sp \in alive /\ sp \notin unused /\ Busy(t, sp)
    BY <2>0, <2>1 DEF AtWork, Leaves, Holds
  <2>3. /\ UNCHANGED <<alive, unused>>
        /\ \A s \in Spans, l \in Layers, u \in Threads : Busy(u, s) /\ op[u].kind = "close" /\ op[u].at > l =>
               Busy(u, s)' /\ op'[u].kind = "close" /\ op'[u].at > l
    BY <1>1, <2>0, <2>2
  <2>4. ASSUME NEW s \in Spans, NEW l \in Layers, s # sp \/ l # at PROVE Tells(s, l)'
    <3>1. last'[<<l, s>>] = last[<<l, s>>]
      BY <2>0, <2>1, <2>4 DEF Logs
    <3>2. Using(l) =>
            /\ Stack[l].form \in DOMAIN ext'[s] <=> Stack[l].form \in DOMAIN ext[s]
            /\ Stack[l].form \in DOMAIN ext[s] => ext'[s][Stack[l].form] = ext[s][Stack[l].form]
      BY <2>0, <2>1, <2>2, <2>4, OthersKept
    <3>3. Unlogged(s, l)
      BY <2>3, <3>1, <3>2 DEF Unlogged
    <3> QED BY <3>3, TellsKept DEF Told
  <2>5. Tells(sp, at)'
    <3>1. CASE Logs(t)
      <4>1. last'[<<at, sp>>].action = op[t].kind /\ last'[<<at, sp>>].text = op[t].text
        BY <2>0, <3>1 DEF Logs
      <4>2. op[t].kind # "none"
        BY <2>1 DEF AllCallbacks
      <4>3. op[t].kind = "close" => Busy(t, sp)' /\ op'[t].kind = "close" /\ op'[t].at > at
        <5>1. Busy(t, sp)' /\ op'[t].kind = op[t].kind
          BY <2>1, <2>2, BusyKept
        <5>2. op'[t].at > at
          BY <1>0, <2>1, <2>2
        <5> QED BY <5>1, <5>2
      <4>4. /\ form \in DOMAIN ext'[sp] /\ IsPrefix(last'[<<at, sp>>].text, ext'[sp][form])
        BY <2>1, <3>1, <4>1
      <4>5. Using(at)' /\ sp \notin unused'
        BY <2>2, <2>3 DEF Using
      <4> QED BY <2>0, <2>2, <4>1, <4>2, <4>3, <4>4, <4>5 DEF Tells
    <3>2. CASE UNCHANGED last /\ op[t].kind # "new"
      <4>1. Tells(sp, at)
        BY <2>1 DEF Told
      <4>2. Using(at)' /\ sp \notin unused'
        BY <2>2, <2>3 DEF Using
      <4>3. CASE form \in DOMAIN ext[sp]
        BY <2>0, <2>1, <2>2, <2>3, <3>2, <4>1, <4>2, <4>3 DEF Tells
      <4>4. CASE form \notin DOMAIN ext[sp]
        BY <2>0, <2>1, <2>2, <2>3, <3>2, <4>1, <4>2, <4>4 DEF Tells, NoLine
      <4> QED BY <4>3, <4>4
    <3> QED BY <2>1, <3>1, <3>2
  <2>6. ASSUME NEW s \in Spans, NEW l \in Layers PROVE Tells(s, l)'
    BY <2>4, <2>5
  <2> QED BY <2>6 DEF Told
<1>3. ASSUME NEW t \in Threads, GoesOn(t), UNCHANGED <<ext, last>>,
             op'[t].at = op[t].at \/ op'[t].at = op[t].at + 1
      PROVE  Told'
  <2>1. \A s \in Spans, l \in Layers : Unlogged(s, l)
    BY <1>1, <1>3 DEF Unlogged
  <2> QED BY <2>1, TellsKept DEF Told
<1>4. ASSUME NEW t \in Threads, Return(t), Ends(t) PROVE Told'
  <2>1. /\ op[t] # Idle /\ UNCHANGED <<unused, last>> /\ op[t].span \in Spans
        /\ \/ op[t].kind = "close" /\ alive' = alive \ {op[t].span} /\ ext' = [ext EXCEPT ![op[t].span] = <<>>]
           \/ op[t].kind # "close" /\ UNCHANGED <<alive, ext>>
    BY <1>4, BusyFacts DEF Return
  <2>2. ASSUME NEW s \in Spans, NEW l \in Layers PROVE Unlogged(s, l)
    <3>1. s \in alive' => s \in alive /\ ext'[s] = ext[s]
      BY <2>1 DEF TypeOK
    <3>2. ASSUME s \in alive', NEW u \in Threads, Busy(u, s), op[u].kind = "close"
          PROVE  Busy(u, s)' /\ op'[u] = op[u]
      <4>1. u # t
        BY <2>1, <3>2 DEF Busy
      <4> QED BY <1>4, <3>2, <4>1, BusyEnds
    <3> QED BY <2>1, <3>1, <3>2 DEF Unlogged
  <2> QED BY <2>2, TellsKept DEF Told
<1>5. ASSUME NEW t \in Threads, Callback(t) \/ FormatEvent(t) PROVE Told'
  <2>1. CASE Takes(t) \/ Formats(t)
    <3>1. GoesOn(t) /\ UNCHANGED <<ext, last>> /\ op'[t].at = op[t].at
      BY <2>1 DEF Takes, Formats
    <3> QED BY <1>3, <3>1
  <2>2. CASE Skip(t) /\ Leaves(t)
    <3>1. GoesOn(t) /\ UNCHANGED <<ext, last>> /\ op'[t].at = op[t].at + 1
      BY <2>2 DEF Leaves, Skip
    <3> QED BY <1>3, <3>1
  <2> QED BY <1>2, <1>4, <1>5, <2>1, <2>2, CallbackSteps
<1>6. ASSUME NEW t \in Threads, Program(t) PROVE Told'
  <2>1. PICK s \in Spans :
             \/ \E f \in Fields \cup {NoField} : Creates(t, s, f) \/ Gives(t, s, f)
             \/ \E kind \in {"enter", "exit"} : Touches(t, s, kind)
             \/ Closes(t, s)
             \/ Passes(t, s)
    BY <1>6, ProgramSteps
  <2>2. UNCHANGED <<ext, last>> /\ \A u \in Threads, x \in Spans : Busy(u, x) => op'[u] = op[u]
    BY <1>6, ProgramOutside
  <2>3. \A u \in Threads, x \in Spans : Busy(u, x) => Busy(u, x)' /\ op'[u] = op[u]
    BY <2>2 DEF Busy
  <2>4. CASE UNCHANGED <<alive, unused>>
    <3>1. \A x \in Spans, l \in Layers : Unlogged(x, l)
      BY <2>2, <2>3, <2>4 DEF Unlogged
    <3> QED BY <3>1, TellsKept DEF Told
  <2>5. CASE s \in unused /\ unused' = unused \ {s} /\ alive' = alive \cup {s}
    <3>1. ASSUME NEW x \in Spans, x # s, NEW l \in Layers PROVE Tells(x, l)'
      <4>1. Unlogged(x, l)
        BY <2>2, <2>3, <2>5, <3>1 DEF Unlogged
      <4> QED BY <4>1, TellsKept DEF Told
    <3>2. ASSUME NEW l \in Layers PROVE Tells(s, l)'
      <4>1. last'[<<l, s>>] = NoLine /\ DOMAIN ext'[s] = {}
        BY <2>2, <2>5 DEF Told, Tells, Collected
      <4>2. last'[<<l, s>>].action # "close"
        BY <4>1 DEF NoLine
      <4> QED BY <4>1, <4>2 DEF Tells
    <3>3. ASSUME NEW x \in Spans, NEW l \in Layers PROVE Tells(x, l)'
      BY <3>1, <3>2
    <3> QED BY <3>3 DEF Told
  <2> QED BY <2>1, <2>4, <2>5 DEF Creates, Gives, Touches, Closes, Passes
<1>7. CASE UNCHANGED vars
  <2>1. UNCHANGED <<alive, unused, ext, last, op>>
    BY <1>7 DEF vars
  <2>2. \A s \in Spans, l \in Layers : Unlogged(s, l)
    BY <2>1 DEF Unlogged, Busy
  <2> QED BY <2>2, TellsKept DEF Told
<1> QED BY <1>5, <1>6, <1>7 DEF Next

-----------------------------------------------------------------------------
LEMMA InvStep ==
    ASSUME TypesApart, IInv, [Next]_vars
    PROVE  IInv'
BY TypeStep, OwnersStep, GiversStep, LockedStep, FreshStep, CollectedStep, ToldStep DEF IInv

\* Whatever the layers are: what a layer collects and logs is a sequence of
\* attributes, and a call is at a layer of the stack or past its last one.
THEOREM TypeCorrect == Spec => []TypeOK
<1>1. Init => TypeOK /\ Owners
    BY InitInv DEF IInv
<1>2. TypeOK /\ Owners /\ [Next]_vars => (TypeOK /\ Owners)'
    BY TypeStep, OwnersStep
<1> QED BY <1>1, <1>2, PTL DEF Spec

LEMMA AppliedOnceFromInv == IInv => AppliedOnce
<1> SUFFICES ASSUME IInv, NEW s \in alive, Quiet(s), NEW f \in {Stack[l].form : l \in Layers}, InUse(f)
             PROVE  /\ f \in DOMAIN ext[s]
                    /\ ToSet(ext[s][f]) = recorded[s]
                    /\ Len(ext[s][f]) = Cardinality(recorded[s])
    BY DEF AppliedOnce
<1>1. PICK l \in Layers : Stack[l].form = f /\ Using(l)
    BY DEF InUse, Using
<1>2. s \in Spans /\ recorded[s] \subseteq Fields
    BY DEF IInv, TypeOK
<1>3. \A t \in Threads : ~Ahead(t, l, s)
    BY DEF Quiet, Ahead, Writing, Busy
<1>4. Entered(s, l)
    BY <1>1 DEF IInv, Collected
<1>5. f \in DOMAIN ext[s] /\ Once(ext[s][f]) /\ \A x \in Fields : x \in ToSet(ext[s][f]) <=> x \in recorded[s]
    BY <1>1, <1>3, <1>4 DEF Entered
<1>6. ext[s][f] \in Seq(Fields)
    BY <1>2, <1>5 DEF IInv, TypeOK
<1>7. ToSet(ext[s][f]) \subseteq Fields
    BY <1>6 DEF ToSet
<1>8. ToSet(ext[s][f]) = recorded[s]
    BY <1>2, <1>5, <1>7
<1> QED BY <1>5, <1>8 DEF Once

\* on_new_span and on_record: no update of a span's attributes is lost or applied
\* twice, however the calls of the threads interleave between the layers.
THEOREM AppliedOnceHolds ==
    ASSUME TypesApart
    PROVE  Spec => []AppliedOnce
<1>1. Init => IInv
    BY InitInv
<1>2. IInv /\ [Next]_vars => IInv'
    BY InvStep
<1>3. IInv => AppliedOnce
    BY AppliedOnceFromInv
<1> QED BY <1>1, <1>2, <1>3, PTL DEF Spec

LEMMA StoryStep ==
    ASSUME IInv, [Next]_vars
    PROVE  \A l \in Layers, s \in Spans : InStory(l, s)
<1>1. CASE UNCHANGED last
    BY <1>1 DEF InStory
<1>2. ASSUME NEW t \in Threads, OnNewSpan(t) \/ OnRecord(t) \/ OnLook(t),
             NEW l \in Layers, NEW s \in Spans
      PROVE  InStory(l, s)
  <2>0. PICK sp, at, form : sp = op[t].span /\ at = op[t].at /\ form = Stack[at].form
    OBVIOUS
  <2>1. /\ sp \in Spans /\ at \in Layers
        /\ UNCHANGED last \/ Logs(t)
        /\ Logs(t) => IsPrefix(last[<<at, sp>>].text, op[t].text)
        /\ last[<<at, sp>>].action = "none" <=> op[t].kind = "new"
        /\ last[<<at, sp>>].action # "close"
    BY <1>2, <2>0, LineFacts DEF IInv
  <2>2. CASE l = at /\ s = sp /\ Logs(t)
    <3>1. last'[<<at, sp>>].action = op[t].kind /\ last'[<<at, sp>>].text = op[t].text
      BY <2>0, <2>2 DEF Logs
    <3> QED BY <2>1, <2>2, <3>1 DEF InStory
  <2>3. CASE last'[<<l, s>>] = last[<<l, s>>]
    BY <2>3 DEF InStory
  <2> QED BY <2>0, <2>1, <2>2, <2>3 DEF Logs
<1>3. ASSUME NEW t \in Threads, Program(t) PROVE UNCHANGED last
    BY <1>3, ProgramOutside DEF IInv
<1>4. ASSUME NEW t \in Threads, Callback(t) \/ FormatEvent(t), ~(OnNewSpan(t) \/ OnRecord(t) \/ OnLook(t))
      PROVE  UNCHANGED last
    BY <1>4 DEF Callback, Skip, ForWriting, ForReading, OnEvent, FormatEvent, Return
<1> QED BY <1>1, <1>2, <1>3, <1>4 DEF Next, vars

\* The lines of one layer about one span: "new" comes first, nothing follows
\* "close", and no line shows fewer attributes than the one before it.
THEOREM SpanStoryHolds ==
    ASSUME TypesApart
    PROVE  Spec => SpanStory
<1>1. Init => IInv
    BY InitInv
<1>2. IInv /\ [Next]_vars => IInv'
    BY InvStep
<1>3. IInv /\ [Next]_vars => [\A l \in Layers, s \in Spans : InStory(l, s)]_vars
    BY StoryStep
<1> QED BY <1>1, <1>2, <1>3, PTL DEF Spec, SpanStory

=============================================================================
