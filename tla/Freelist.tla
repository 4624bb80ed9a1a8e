------------------------------ MODULE Freelist ------------------------------
(***************************************************************************)
(* fixed_size_freelist (detail-dev/freelist.hpp): a Treiber stack of array *)
(* slots.  pool_ is one atomic word holding the index of the first free    *)
(* slot and a tag; the link of a free slot is stored in the slot itself,   *)
(* over the memory the client uses while the slot is allocated.            *)
(*                                                                         *)
(* Every atomic access and every plain read or write of a link is a step   *)
(* of its own.  compare_exchange_weak may fail although the word matches,  *)
(* and reloads old_pool when it fails.                                     *)
(***************************************************************************)
EXTENDS Integers

CONSTANTS
    Threads,
    Count,          \* node_count(): slots in the storage
    IndexMod,       \* values of index_t (2^16 in the code)
    TagMod,         \* values of tag_t   (2^16 in the code)
    MaxOvertake,    \* bound: allocations that complete during one attempt
                    \* (load to compare_exchange) of another allocation
    ClientData      \* what a client may leave where the link is stored

Index == 0 .. IndexMod - 1
Tag   == 0 .. TagMod - 1

ASSUME SizeAssumption == /\ Count \in Nat \ {0}
                         /\ IndexMod \in Nat \ {0}
                         /\ TagMod \in Nat \ {0}
ASSUME OvertakeAssumption == MaxOvertake \in Nat /\ MaxOvertake < TagMod
ASSUME ClientAssumption == ClientData \subseteq Index

(* null_handle(): the node count, truncated to an index.                   *)
Null == Count % IndexMod

(* The slots an index can name, and the ones the list can hand out: from   *)
(* Count = IndexMod on, null_handle() is the index of a real slot.         *)
Slots == {i \in Index : i < Count}
Nodes == Slots \ {Null}

TaggedIndex == [index : Index, tag : Tag]
NoPool == [index |-> Null, tag |-> 0]

VARIABLES
    pool,       \* pool_
    next,       \* next[i]: index part of the link stored in slot i
    live,       \* slots handed to the client, not yet given to destruct()
    pc,         \* where each thread is
    node,       \* node_index of construct(), index of deallocate()
    old,        \* old_pool
    nxt,        \* index of new_pool, read by allocate_impl()
    overtaken   \* allocations completed since t loaded old_pool (history)

vars == <<pool, next, live, pc, node, old, nxt, overtaken>>

Allocating(t)  == pc[t] \in {"a_next", "a_cas"}
Owning(t)      == pc[t] \in {"construct", "d_link", "d_cas"}
Owned          == {node[t] : t \in {u \in Threads : Owning(u)}}
Free           == Nodes \ (live \cup Owned)

(* Mutant: the tag is carried over unchanged. *)
GetNextTagStuck(g) == g

GetNextTag(g) == (g + 1) % TagMod

(***************************************************************************)
(* initialize() pushes slots 0, 1, ..., Count-1, each index truncated.     *)
(***************************************************************************)
InitialNext(i) == IF i > 0 THEN i - 1
                  ELSE IF Count <= IndexMod THEN Null ELSE IndexMod - 1

Init ==
    /\ pool = [index |-> (Count - 1) % IndexMod, tag |-> 0]
    /\ next = [i \in Slots |-> InitialNext(i)]
    /\ live = {}
    /\ pc = [t \in Threads |-> "idle"]
    /\ node = [t \in Threads |-> Null]
    /\ old = [t \in Threads |-> NoPool]
    /\ nxt = [t \in Threads |-> Null]
    /\ overtaken = [t \in Threads |-> 0]

Goto(t, label) == pc' = [pc EXCEPT ![t] = label]
Forget(t) == /\ old' = [old EXCEPT ![t] = NoPool]
             /\ nxt' = [nxt EXCEPT ![t] = Null]

(* Mutant: the test for an empty list is missing. *)
ExamineUnchecked(t) ==
    /\ Goto(t, "a_next")
    /\ old' = [old EXCEPT ![t] = pool]
    /\ nxt' = [nxt EXCEPT ![t] = Null]
    /\ overtaken' = [overtaken EXCEPT ![t] = 0]

(* allocate_impl() has pool_ in old_pool: it returns null_handle() if the  *)
(* list is empty and goes on to read the link of the first slot otherwise. *)
Examine(t) ==
    /\ IF pool.index = Null
       THEN Goto(t, "null") /\ Forget(t)
       ELSE /\ Goto(t, "a_next")
            /\ old' = [old EXCEPT ![t] = pool]
            /\ nxt' = [nxt EXCEPT ![t] = Null]
    /\ overtaken' = [overtaken EXCEPT ![t] = 0]

AllocLoad(t) ==
    /\ pc[t] = "idle"
    /\ Examine(t)
    /\ UNCHANGED <<pool, next, live, node>>

AllocReadNext(t) ==
    /\ pc[t] = "a_next"
    /\ nxt' = [nxt EXCEPT ![t] = next[old[t].index]]
    /\ Goto(t, "a_cas")
    /\ UNCHANGED <<pool, next, live, node, old, overtaken>>

(* Bound: an attempt is overtaken by at most MaxOvertake allocations.      *)
MayOvertake(t) == \A u \in Threads \ {t} :
                     Allocating(u) => overtaken[u] < MaxOvertake

AllocSucceed(t) ==
    /\ pc[t] = "a_cas"
    /\ pool = old[t]
    /\ MayOvertake(t)
    /\ pool' = [index |-> nxt[t], tag |-> GetNextTag(old[t].tag)]
    /\ node' = [node EXCEPT ![t] = old[t].index]
    /\ overtaken' = [u \in Threads |->
                       IF u # t /\ Allocating(u) THEN overtaken[u] + 1 ELSE 0]
    /\ Goto(t, "construct")
    /\ Forget(t)
    /\ UNCHANGED <<next, live>>

(* Mutant: old_pool is not reloaded. *)
AllocRetryStalePool(t) ==
    /\ pc[t] = "a_cas"
    /\ Goto(t, "a_next")
    /\ UNCHANGED <<pool, next, live, node, old, nxt, overtaken>>

AllocRetry(t) ==
    /\ pc[t] = "a_cas"
    /\ Examine(t)
    /\ UNCHANGED <<pool, next, live, node>>

(* construct() runs the constructor of T over the link and returns.        *)
Construct(t) ==
    /\ pc[t] = "construct"
    /\ \E d \in ClientData : next' = [next EXCEPT ![node[t]] = d]
    /\ live' = live \cup {node[t]}
    /\ node' = [node EXCEPT ![t] = Null]
    /\ Goto(t, "idle")
    /\ UNCHANGED <<pool, old, nxt, overtaken>>

ReturnNull(t) ==
    /\ pc[t] = "null"
    /\ Goto(t, "idle")
    /\ UNCHANGED <<pool, next, live, node, old, nxt, overtaken>>

(* The client stores into an object it was given.                          *)
ClientWrite ==
    /\ \E n \in live, d \in ClientData : next' = [next EXCEPT ![n] = d]
    /\ UNCHANGED <<pool, live, pc, node, old, nxt, overtaken>>

(* destruct(): any thread may destroy an object in use; ~T() is the last   *)
(* client access, and deallocate_impl() begins by loading pool_.           *)
DeallocLoad(t) ==
    /\ pc[t] = "idle"
    /\ \E n \in live : /\ live' = live \ {n}
                       /\ node' = [node EXCEPT ![t] = n]
    /\ old' = [old EXCEPT ![t] = pool]
    /\ Goto(t, "d_link")
    /\ UNCHANGED <<pool, next, nxt, overtaken>>

DeallocLink(t) ==
    /\ pc[t] = "d_link"
    /\ next' = [next EXCEPT ![node[t]] = old[t].index]
    /\ Goto(t, "d_cas")
    /\ UNCHANGED <<pool, live, node, old, nxt, overtaken>>

DeallocSucceed(t) ==
    /\ pc[t] = "d_cas"
    /\ pool = old[t]
    /\ pool' = [index |-> node[t], tag |-> old[t].tag]
    /\ node' = [node EXCEPT ![t] = Null]
    /\ Goto(t, "idle")
    /\ Forget(t)
    /\ UNCHANGED <<next, live, overtaken>>

(* Mutant: the slot is not linked to the reloaded top. *)
DeallocRetryUnlinked(t) ==
    /\ pc[t] = "d_cas"
    /\ old' = [old EXCEPT ![t] = pool]
    /\ UNCHANGED <<pool, next, live, pc, node, nxt, overtaken>>

DeallocRetry(t) ==
    /\ pc[t] = "d_cas"
    /\ old' = [old EXCEPT ![t] = pool]
    /\ Goto(t, "d_link")
    /\ UNCHANGED <<pool, next, live, node, nxt, overtaken>>

(***************************************************************************)
(* The ThreadSafe = false variants, legal only while no other operation is *)
(* under way, run without interleaving.                                    *)
(***************************************************************************)
Quiet == \A t \in Threads : pc[t] = "idle"

AllocUnsafe(t) ==
    /\ Quiet
    /\ IF pool.index = Null
       THEN Goto(t, "null") /\ UNCHANGED <<pool, node>>
       ELSE /\ pool' = [index |-> next[pool.index], tag |-> GetNextTag(pool.tag)]
            /\ node' = [node EXCEPT ![t] = pool.index]
            /\ Goto(t, "construct")
    /\ UNCHANGED <<next, live, old, nxt, overtaken>>

DeallocUnsafe ==
    /\ Quiet
    /\ \E n \in live : /\ pool' = [pool EXCEPT !.index = n]
                       /\ next' = [next EXCEPT ![n] = pool.index]
                       /\ live' = live \ {n}
    /\ UNCHANGED <<pc, node, old, nxt, overtaken>>

Step(t) == \/ AllocReadNext(t) \/ AllocSucceed(t) \/ AllocRetry(t)
           \/ Construct(t) \/ ReturnNull(t)
           \/ DeallocLink(t) \/ DeallocSucceed(t) \/ DeallocRetry(t)

Next == \/ \E t \in Threads : \/ Step(t) \/ AllocLoad(t)
                              \/ DeallocLoad(t) \/ AllocUnsafe(t)
        \/ DeallocUnsafe
        \/ ClientWrite

Spec == Init /\ [][Next]_vars

(***************************************************************************)
(* Fairness.  A thread inside an operation keeps running, and              *)
(* compare_exchange_weak does not fail spuriously for ever.  Nothing is    *)
(* assumed of which thread wins a race, and clients need not start or end  *)
(* anything.                                                               *)
(***************************************************************************)
Spurious(t) == pool = old[t] /\ (AllocRetry(t) \/ DeallocRetry(t))

Fairness == /\ \A t \in Threads : WF_vars(Step(t))
            /\ <>[][~ \E t \in Threads : Spurious(t)]_vars

FairSpec == Spec /\ Fairness

-----------------------------------------------------------------------------
TypeOK ==
    /\ pool \in TaggedIndex
    /\ next \in [Slots -> Index]
    /\ live \subseteq Nodes
    /\ pc \in [Threads -> {"idle", "a_next", "a_cas", "construct", "null",
                          "d_link", "d_cas"}]
    /\ node \in [Threads -> Index]
    /\ old \in [Threads -> TaggedIndex]
    /\ nxt \in [Threads -> Index]
    /\ overtaken \in [Threads -> 0 .. MaxOvertake]
    /\ \A t \in Threads : Owning(t) => node[t] \in Nodes
    /\ \A t \in Threads : Allocating(t) => old[t].index \in Nodes

(* A slot is in one place: two threads never construct or destruct the     *)
(* same slot, nor one that the client still uses.  allocate_impl() breaks  *)
(* this when its compare_exchange succeeds on a list that has changed.     *)
Exclusive ==
    /\ \A t, u \in Threads :
          Owning(t) /\ Owning(u) /\ node[t] = node[u] => t = u
    /\ \A t \in Threads : Owning(t) => node[t] \notin live

(* The links followed from top visit every slot of S exactly once, as      *)
(* c[1], ..., c[k], and end at null_handle().                              *)
IsChain(c, k, top, link, S) ==
    /\ top = IF k = 0 THEN Null ELSE c[1]
    /\ \A i \in 1 .. k : link[c[i]] = IF i = k THEN Null ELSE c[i + 1]
    /\ \A i, j \in 1 .. k : c[i] = c[j] => i = j
    /\ S = {c[i] : i \in 1 .. k}

Chained(top, link, S) ==
    \E k \in 0 .. Count : \E c \in [1 .. k -> Nodes] : IsChain(c, k, top, link, S)

(* The links in memory, followed from pool_, visit exactly the slots that  *)
(* are in nobody's hands: no slot is lost or listed twice, whatever        *)
(* clients write over the links of their slots.                            *)
FreeListIntact == Chained(pool.index, next, Free)

(* The link an allocation read is the current one whenever its             *)
(* compare_exchange can succeed: the tag rules out ABA as long as no more  *)
(* than MaxOvertake < TagMod allocations overtake the attempt.             *)
NoABA == \A t \in Threads : pc[t] = "a_cas" /\ pool = old[t]
                               => nxt[t] = next[pool.index]

(* Why: the tag counts the allocations that overtook the attempt, and if   *)
(* none did, the slot is still free and its link still the one read.       *)
StalledAttempts ==
    \A t \in Threads : Allocating(t) =>
       /\ \/ pool.tag = old[t].tag + overtaken[t]
          \/ pool.tag = old[t].tag + overtaken[t] - TagMod
       /\ overtaken[t] = 0 => /\ old[t].index \in Free
                              /\ pc[t] = "a_cas" => nxt[t] = next[old[t].index]

(* A slot about to be pushed is linked to the top its compare_exchange     *)
(* expects.                                                                *)
PushesLinked == \A t \in Threads :
                   pc[t] = "d_cas" => next[node[t]] = old[t].index

IInv == TypeOK /\ Exclusive /\ FreeListIntact /\ StalledAttempts /\ PushesLinked

(***************************************************************************)
(* The list implements the abstract pool: allocate_impl() takes effect     *)
(* when its compare_exchange succeeds, or when it loads an empty pool_.    *)
(***************************************************************************)
HeldBy(t) == IF Owning(t) THEN node[t] ELSE Null

Pool == INSTANCE NodePool WITH
            None    <- Null,
            free    <- Free,
            holding <- [t \in Threads |-> HeldBy(t)],
            refused <- {t \in Threads : pc[t] = "null"}

(* allocate() returns only free nodes and refuses only when there is none; *)
(* deallocate() always gives the node back.                                *)
ImplementsPool == Pool!Spec

(* Lock-freedom: unless the threads are idle again and again, operations   *)
(* complete for ever; a single thread may starve.                          *)
Completes == \E t \in Threads : pc[t] # "idle" /\ pc'[t] = "idle"
LockFree == []<>Quiet \/ []<><<Completes>>_vars
=============================================================================
