--------------------------- MODULE CacheFreelist ---------------------------
(***************************************************************************)
(* cache_freelist (detail-dev/freelist.hpp): the algorithm of              *)
(* fixed_size_freelist over nodes that come from an allocator.  The list   *)
(* begins empty; an unbounded allocation that finds it empty asks the      *)
(* allocator for a node, a bounded one returns null, and reserve() puts    *)
(* nodes of the allocator on the list.  Nodes go back to the allocator in  *)
(* the destructor only, so their addresses stay theirs: they are the slots *)
(* of Freelist, with null the index after the last.                        *)
(***************************************************************************)
EXTENDS Freelist

VARIABLES
    heap,       \* nodes the allocator has
    bounded     \* is the allocation that t is in, or was in last, a bounded one

varsCache == <<vars, heap, bounded>>

(* The constructor that takes an allocator, with n = 0.                    *)
InitCache ==
    /\ pool = [index |-> Null, tag |-> 0]
    /\ next = [i \in Slots |-> Null]
    /\ live = {}
    /\ pc = [t \in Threads |-> "idle"]
    /\ node = [t \in Threads |-> Null]
    /\ old = [t \in Threads |-> NoPool]
    /\ nxt = [t \in Threads |-> Null]
    /\ overtaken = [t \in Threads |-> 0]
    /\ heap = Nodes
    /\ bounded = [t \in Threads |-> FALSE]

(* A node of the allocator's, to be constructed.                           *)
Grow(t) ==
    /\ \E n \in heap : /\ heap' = heap \ {n}
                       /\ node' = [node EXCEPT ![t] = n]
    /\ Goto(t, "construct")

(* The list is empty: a bounded allocation returns null, another one takes *)
(* a node of the allocator's or leaves with its std::bad_alloc.            *)
FindEmpty(t, isBounded) ==
    /\ pool.index = Null
    /\ Forget(t)
    /\ overtaken' = [overtaken EXCEPT ![t] = 0]
    /\ \/ isBounded /\ Goto(t, "null") /\ UNCHANGED <<node, heap>>
       \/ ~isBounded /\ Grow(t)
       \/ ~isBounded /\ heap = {} /\ Goto(t, "idle") /\ UNCHANGED <<node, heap>>
    /\ UNCHANGED <<pool, next, live>>

CacheLoad(t) ==
    /\ pc[t] = "idle"
    /\ \E isBounded \in BOOLEAN :
          \/ FindEmpty(t, isBounded) /\ UNCHANGED bounded
          \/ /\ pool.index # Null /\ AllocLoad(t)
             /\ bounded' = [bounded EXCEPT ![t] = isBounded]
             /\ UNCHANGED heap

CacheRetry(t) ==
    /\ pc[t] = "a_cas"
    /\ \/ FindEmpty(t, bounded[t])
       \/ pool.index # Null /\ AllocRetry(t) /\ UNCHANGED heap
    /\ UNCHANGED bounded

(* A step inside an operation that is the one of fixed_size_freelist.      *)
AllocStep(t) == (AllocReadNext(t) \/ AllocSucceed(t)) /\ UNCHANGED <<heap, bounded>>
ConstructStep(t) == (Construct(t) \/ ReturnNull(t)) /\ UNCHANGED <<heap, bounded>>
DeallocStep(t) == \/ DeallocLink(t) /\ UNCHANGED <<heap, bounded>>
                  \/ DeallocSucceed(t) /\ UNCHANGED <<heap, bounded>>
                  \/ DeallocRetry(t) /\ UNCHANGED <<heap, bounded>>
DestructStep(t) == DeallocLoad(t) /\ UNCHANGED <<heap, bounded>>
ClientStep     == ClientWrite /\ UNCHANGED <<heap, bounded>>

(* reserve(), one node of it: deallocate_impl() loads cache_pool.          *)
Reserve(t) ==
    /\ pc[t] = "idle"
    /\ \E n \in heap : /\ heap' = heap \ {n}
                       /\ node' = [node EXCEPT ![t] = n]
    /\ old' = [old EXCEPT ![t] = pool]
    /\ Goto(t, "d_link")
    /\ UNCHANGED <<pool, next, live, nxt, overtaken, bounded>>

(* The variants that are not thread-safe, while nothing else is under way. *)
CacheAllocUnsafe(t) ==
    /\ Quiet
    /\ \/ \E isBounded \in BOOLEAN : FindEmpty(t, isBounded)
       \/ pool.index # Null /\ AllocUnsafe(t) /\ UNCHANGED heap
    /\ UNCHANGED bounded

CacheDeallocUnsafe == DeallocUnsafe /\ UNCHANGED <<heap, bounded>>

ReserveUnsafe ==
    /\ Quiet
    /\ \E n \in heap : /\ heap' = heap \ {n}
                       /\ next' = [next EXCEPT ![n] = pool.index]
                       /\ pool' = [pool EXCEPT !.index = n]
    /\ UNCHANGED <<live, pc, node, old, nxt, overtaken, bounded>>

(* The nodes that the links lead to from n.                                *)
Listed(n) ==
    LET Up[k \in 0 .. Count] ==
          IF k = 0 THEN {n} \ {Null} ELSE Up[k - 1] \cup ({next[i] : i \in Up[k - 1]} \ {Null})
    IN  Up[Count]

(* Mutant: the loop goes on from the node it has just given back. *)
DestroyFirst ==
    /\ Quiet /\ live = {}
    /\ heap' = heap \cup ({pool.index} \ {Null})
    /\ pool' = NoPool
    /\ UNCHANGED <<next, live, pc, node, old, nxt, overtaken, bounded>>

(* The destructor, when the client has given every object back, and then   *)
(* another list on the same allocator.                                     *)
Destroy ==
    /\ Quiet /\ live = {}
    /\ heap' = heap \cup Listed(pool.index)
    /\ pool' = NoPool
    /\ UNCHANGED <<next, live, pc, node, old, nxt, overtaken, bounded>>

ThreadStep(t) == \/ CacheLoad(t) \/ CacheRetry(t) \/ AllocStep(t) \/ ConstructStep(t)
                 \/ DestructStep(t) \/ DeallocStep(t) \/ Reserve(t) \/ CacheAllocUnsafe(t)

AnyStep == CacheDeallocUnsafe \/ ReserveUnsafe \/ ClientStep \/ Destroy

NextCache == AnyStep \/ \E t \in Threads : ThreadStep(t)

SpecCache == InitCache /\ [][NextCache]_varsCache

-----------------------------------------------------------------------------
(* Every node is with the allocator, on the list or in one pair of hands:  *)
(* growing and reserving while others push and pop loses none, a stalled   *)
(* allocation installs no stale link, and the destructor gives all back.   *)
CacheSound ==
    /\ TypeOK /\ Exclusive /\ NoABA
    /\ heap \cap (live \cup Owned) = {}
    /\ Chained(pool.index, next, Free \ heap)
=============================================================================
