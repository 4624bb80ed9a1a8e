---------------------------- MODULE DoubleEnded ----------------------------
(***************************************************************************)
(* A linearizable double-ended queue: each call takes effect at one moment *)
(* between its start and its return.                                       *)
(***************************************************************************)
EXTENDS Sequences, SequencesExt

CONSTANTS Threads, Values

Sides == {"left", "right"}

VARIABLES
    items,      \* the values, left end first
    call,       \* call[t]: <<"push", side, value>>, <<"pop", side>> or <<>>
    result      \* result[t]: <<>> until the call takes effect

vars == <<items, call, result>>

Init == /\ items = <<>>
        /\ call = [t \in Threads |-> <<>>]
        /\ result = [t \in Threads |-> <<>>]

Pending(t, kind, s) ==
    /\ call[t] # <<>> /\ result[t] = <<>>
    /\ call[t][1] = kind /\ call[t][2] = s
TakesEffect(t, r) == result' = [result EXCEPT ![t] = r] /\ UNCHANGED call

Invoke(t) ==
    /\ call[t] = <<>>
    /\ \E s \in Sides :
          \/ \E v \in Values : call' = [call EXCEPT ![t] = <<"push", s, v>>]
          \/ call' = [call EXCEPT ![t] = <<"pop", s>>]
    /\ UNCHANGED <<items, result>>

Push(t, s) ==
    /\ Pending(t, "push", s)
    /\ TakesEffect(t, <<"true">>)
    /\ LET v == call[t][3]
       IN items' = IF s = "left" THEN <<v>> \o items ELSE Append(items, v)

Pop(t, s) ==
    /\ Pending(t, "pop", s)
    /\ items # <<>>
    /\ items' = IF s = "left" THEN Tail(items) ELSE Front(items)
    /\ TakesEffect(t, <<"true", IF s = "left" THEN Head(items) ELSE Last(items)>>)

FindEmpty(t, s) ==
    /\ Pending(t, "pop", s)
    /\ TakesEffect(t, <<"false">>)
    /\ items = <<>>
    /\ UNCHANGED items

Return(t) ==
    /\ result[t] # <<>>
    /\ call' = [call EXCEPT ![t] = <<>>]
    /\ result' = [result EXCEPT ![t] = <<>>]
    /\ UNCHANGED items

Next == \E t \in Threads :
           \/ Invoke(t)
           \/ Return(t)
           \/ \E s \in Sides : Push(t, s) \/ Pop(t, s) \/ FindEmpty(t, s)

Spec == Init /\ [][Next]_vars
=============================================================================
