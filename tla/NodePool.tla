------------------------------ MODULE NodePool ------------------------------
(***************************************************************************)
(* What a lock-free free list promises its clients, with no list in it: a  *)
(* set of nodes, each one free, in the hands of exactly one operation, or  *)
(* in use by the client.  allocate() takes some free node, and may refuse  *)
(* only while there is none; deallocate() gives the node back.             *)
(***************************************************************************)
CONSTANTS Threads, Nodes,
          None          \* not a node

VARIABLES
    free,       \* nodes an allocation may return
    live,       \* nodes the client uses
    holding,    \* holding[t]: the node thread t is constructing or destructing
    refused     \* threads whose allocation has just returned null

vars == <<free, live, holding, refused>>

Init ==
    /\ free = Nodes
    /\ live = {}
    /\ holding = [t \in Threads |-> None]
    /\ refused = {}

Idle(t) == holding[t] = None /\ t \notin refused

(* allocate() hands out a node that nobody has. *)
Take(t) ==
    /\ Idle(t)
    /\ \E n \in free :
          /\ free' = free \ {n}
          /\ holding' = [holding EXCEPT ![t] = n]
    /\ UNCHANGED <<live, refused>>

(* allocate() returns null: there is no free node at that moment. *)
Refuse(t) ==
    /\ Idle(t)
    /\ free = {}
    /\ refused' = refused \cup {t}
    /\ UNCHANGED <<free, live, holding>>

(* The caller sees the null pointer. *)
Forget(t) ==
    /\ t \in refused
    /\ refused' = refused \ {t}
    /\ UNCHANGED <<free, live, holding>>

(* The constructed object is handed to the client. *)
Publish(t) ==
    /\ holding[t] # None
    /\ live' = live \cup {holding[t]}
    /\ holding' = [holding EXCEPT ![t] = None]
    /\ UNCHANGED <<free, refused>>

(* The client gives an object up to destruct(). *)
Retire(t) ==
    /\ Idle(t)
    /\ \E n \in live :
          /\ live' = live \ {n}
          /\ holding' = [holding EXCEPT ![t] = n]
    /\ UNCHANGED <<free, refused>>

(* deallocate() has made the node available again. *)
Release(t) ==
    /\ holding[t] # None
    /\ free' = free \cup {holding[t]}
    /\ holding' = [holding EXCEPT ![t] = None]
    /\ UNCHANGED <<live, refused>>

(* Give a node back in one step (the unsynchronised deallocate). *)
Discard(n) ==
    /\ n \in live
    /\ live' = live \ {n}
    /\ free' = free \cup {n}
    /\ UNCHANGED <<holding, refused>>

Next == \/ \E n \in Nodes : Discard(n)
        \/ \E t \in Threads : \/ Take(t) \/ Refuse(t) \/ Forget(t)
                              \/ Publish(t) \/ Retire(t) \/ Release(t)

Spec == Init /\ [][Next]_vars
=============================================================================
