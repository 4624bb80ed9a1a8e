----------------------------- MODULE InsertSet -----------------------------
(***************************************************************************)
(* A linearizable set that only grows: between the call and the return of  *)
(* an operation there is one moment at which it takes effect.              *)
(***************************************************************************)
CONSTANTS Threads, Keys,
          Initial           \* the keys present from the start

VARIABLES
    keys,       \* the set
    call,       \* call[t]: operation t has called, <<>> between operations
    result      \* result[t]: what it will return, once it has taken effect

vars == <<keys, call, result>>

Calls   == {"insert", "search"} \X Keys
NoCall  == <<>>
Results == {"none", "true", "false"}

Init == /\ keys = Initial
        /\ call = [t \in Threads |-> NoCall]
        /\ result = [t \in Threads |-> "none"]

Pending(t, kind, k) == call[t] = <<kind, k>> /\ result[t] = "none"

Invoke(t) ==
    /\ call[t] = NoCall
    /\ \E c \in Calls : call' = [call EXCEPT ![t] = c]
    /\ UNCHANGED <<keys, result>>

(* insert(k) adds the key and reports true. *)
Add(t, k) ==
    /\ Pending(t, "insert", k)
    /\ k \notin keys
    /\ keys' = keys \cup {k}
    /\ result' = [result EXCEPT ![t] = "true"]
    /\ UNCHANGED call

(* insert(k) finds the key there and reports false. *)
Reject(t, k) ==
    /\ Pending(t, "insert", k)
    /\ k \in keys
    /\ result' = [result EXCEPT ![t] = "false"]
    /\ UNCHANGED <<keys, call>>

Look(t, k) ==
    /\ Pending(t, "search", k)
    /\ result' = [result EXCEPT ![t] = IF k \in keys THEN "true" ELSE "false"]
    /\ UNCHANGED <<keys, call>>

Return(t) ==
    /\ result[t] # "none"
    /\ call' = [call EXCEPT ![t] = NoCall]
    /\ result' = [result EXCEPT ![t] = "none"]
    /\ UNCHANGED keys

Next == \E t \in Threads : \/ Invoke(t) \/ Return(t)
                           \/ \E k \in Keys : Add(t, k) \/ Reject(t, k) \/ Look(t, k)

Spec == Init /\ [][Next]_vars

(* A weaker set, whose insert() may report success without adding the key. *)
(* Everything else it says can be relied on: a key reported as present is  *)
(* present, and no key appears that nobody inserted.                       *)
Lose(t, k) ==
    /\ Pending(t, "insert", k)
    /\ result' = [result EXCEPT ![t] = "true"]
    /\ UNCHANGED <<keys, call>>

NextLossy == Next \/ \E t \in Threads, k \in Keys : Lose(t, k)

SpecLossy == Init /\ [][NextLossy]_vars
=============================================================================
