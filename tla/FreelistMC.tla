----------------------------- MODULE FreelistMC -----------------------------
(***************************************************************************)
(* Instances for TLC of the two free lists of freelist.hpp and of the one  *)
(* of concurrentqueue.h, each in a world of its own, in which the          *)
(* variables of the others keep their first value.                         *)
(***************************************************************************)
EXTENDS Freelist, FiniteSets

CONSTANTS
  CacheThreads,    \* those that use cache_freelist
  PoolThreads,     \* those that use the block pool of a ConcurrentQueue
  InitialBlocks, AllBlocks

ASSUME CacheThreadsAssumption == CacheThreads \subseteq Threads

\* The blocks of the initial array come first; null is none of them.
ASSUME BlocksAssumption ==
    /\ IsFiniteSet(PoolThreads) /\ IsFiniteSet(AllBlocks)
    /\ AllBlocks \subseteq Nat \ {0}
    /\ InitialBlocks \in Nat /\ 1 .. InitialBlocks \subseteq AllBlocks

VARIABLES
  world,
  cpool, cnext, clive, cpc, cnode, cold, cnxt, covertaken, heap, bounded,
  initialBlockPoolIndex, created, freeListHead, freeListNext, refs, wanted, held, destroyed,
  bpc, br

Cache == INSTANCE CacheFreelist WITH
            pool <- cpool, next <- cnext, live <- clive, pc <- cpc, node <- cnode,
            old <- cold, nxt <- cnxt, overtaken <- covertaken
Blocks == INSTANCE BlockPool WITH Threads <- PoolThreads, cpc <- bpc, cr <- br

cached == <<cpool, cnext, clive, cpc, cnode, cold, cnxt, covertaken, heap, bounded>>
blocks == <<initialBlockPoolIndex, created, freeListHead, freeListNext, refs, wanted, held,
            destroyed, bpc, br>>

InitMC == /\ world \in {"fixed", "cache", "blocks"}
          /\ Init /\ Cache!InitCache /\ Blocks!Init

NextMC ==
    \/ world = "fixed" /\ Next /\ UNCHANGED <<world, cached, blocks>>
    \/ /\ world = "cache"
       /\ Cache!AnyStep \/ \E t \in CacheThreads : Cache!ThreadStep(t)
       /\ UNCHANGED <<world, vars, blocks>>
    \/ /\ world = "blocks"
       /\ Blocks!Next \/ (destroyed # <<>> /\ UNCHANGED blocks)   \* the queue is gone
       /\ UNCHANGED <<world, vars, cached>>

(* The fairness is that of Freelist. *)
SpecMC == InitMC /\ [][NextMC]_<<world, vars, cached, blocks>> /\ Fairness

(* Every node of cache_freelist is in one place. *)
CacheSound == Cache!CacheSound

(* A block of a ConcurrentQueue is handed out to one producer at a time,   *)
(* none is lost and each is freed once.                                    *)
BlocksSound == Blocks!PoolSound
=============================================================================
