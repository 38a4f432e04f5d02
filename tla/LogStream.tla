----------------------------- MODULE LogStream -----------------------------
(***************************************************************************)
(* What a sink promises the threads that log through it: lines are accepted *)
(* one by one and leave memory in that order; a flush returns only when     *)
(* every line accepted before the request has left; and both happen in the  *)
(* end.                                                                     *)
(***************************************************************************)
EXTENDS Integers

CONSTANT Threads

VARIABLES
    accepted,   \* lines accepted so far
    out,        \* lines that have left memory
    request     \* thread -> the lines its pending flush is about; -1: none

vars == <<accepted, out, request>>

Init == accepted = 0 /\ out = {} /\ request = [t \in Threads |-> -1]

Accept ==
    /\ accepted' = accepted + 1
    /\ UNCHANGED <<out, request>>

Deliver ==
    /\ \E n \in 1..accepted : out' = 1..n /\ out \subseteq out' /\ out # out'
    /\ UNCHANGED <<accepted, request>>

Flush(t) ==
    /\ request[t] = -1
    /\ request' = [request EXCEPT ![t] = accepted]
    /\ UNCHANGED <<accepted, out>>

Return(t) ==
    /\ request[t] # -1
    /\ 1..request[t] \subseteq out
    /\ request' = [request EXCEPT ![t] = -1]
    /\ UNCHANGED <<accepted, out>>

Next == Accept \/ Deliver \/ \E t \in Threads : Flush(t) \/ Return(t)

Spec == Init /\ [][Next]_vars

FairSpec == Spec /\ WF_vars(Deliver) /\ \A t \in Threads : WF_vars(Return(t))

=============================================================================
