# Verification of zwq_repos

TLA+ models, TLC configurations and TLAPS proofs for the concurrent and
transactional parts of this repository.

1. [Inventory](#1-inventory)
2. [Modules](#2-modules)
3. [Runs](#3-runs)
4. [Proofs](#4-proofs)
5. [Where the code departs from its own words](#5-where-the-code-departs-from-its-own-words)
6. [Assumptions and limits](#6-assumptions-and-limits)
7. [Plan](#7-plan)

## 1. Inventory

The repository is a collection of C++ components without a common program. About
7000 lines are its own; the rest is vendored: `multi_index/` (Boost.MultiIndex),
the moodycamel queues in `utility/`, `detail-dev/parameter.hpp` and `policies.hpp`.
The vendored parts that carry the repository's own (the container under
`generic_index`, the queues under the thread pools) are modelled too.

| component | state | operations | what is hard | what makes it correct |
|---|---|---|---|---|
| `fixed_size_freelist` (`detail-dev/freelist.hpp`) | `pool_`, one atomic word of a 16-bit index and a 16-bit tag; links stored in the free slots | `construct`, `destruct`; safe and unsafe `allocate`, `deallocate` | ABA; links overwritten by clients; wrap of tag and index | a slot is in one place; no slot is lost; null only when no slot is free; lock-freedom |
| `cache_freelist` (same file) | a tagged pointer, heap nodes | the same, bounded or growing, `reserve`, the destructor | the same, and who owns a heap node | a node is with the list, with one client, or with the heap, and freed once |
| `deque` (`detail-dev/deque.hpp`) | the anchor (both ends, status, tag) in one double word; links in the nodes | `push_left/right`, `pop_left/right`, `stabilize` | two-step pushes finished by others; nodes recycled under a stalled thread; exhausted pool | linearizable double-ended queue; no stale pointer followed; lock-freedom |
| `NonBlockingBST` (`BST/nbbst.hpp`, `BST.cpp`, `BSTclass.h`) | a leaf-oriented tree; in each internal node a flag and a record of the insertion in progress | `insert`, `helpInsert`, `search` | helping; a stale parent, leaf or record; retries | linearizable set; search-tree order; flags do not outlive insertions |
| `bstree` (`utility/bstree.hpp`) | the same over shared pointers | `insert`, `lookup`, `helpinsert` | flags that are never cleared; an early return after a failed attempt | it stays a search tree, and what it does report is true |
| other trees: `SequentialBST`, `STMbst`, `bstclass.*` | trees | `insert`, `remove`, `search` | as above | as above |
| `generic_index` (`chainbase/chainbase.hpp`) | objects, next id, a stack of undo states (old values, removed values, new ids), revision | `emplace`, `modify`, `remove`, session start, `undo`, `squash`, `commit`, `undo_all`, `set_revision` | long legal sequences; unique keys; exceptions half way | each undo state stands for a snapshot |
| `database` sessions (`chainbase.*`) | a list of indices in a mapped file; session objects in memory | the same over all indices; session `undo`, `squash`, `push`, destructor | calls that throw, and deaths, when some of the indices have been reached | the indices agree on revisions and moments, or `undo_all` brings them back to one |
| `database` locks (`read_write_mutex_manager`) | ten mutexes and a counter in a mapped file | `with_read_lock`, `with_write_lock`, `next_lock` | timeouts; holders that die; mutexes constructed over others | exclusion while no writer has timed out; a dead holder does not block writers for ever |
| `thread_pool` (`utility/thread_pool.hpp`, `thread_pool_block.hpp`) | queue of tasks, flag, threads | `submit`, workers, `terminal`, destructor | shutdown while tasks wait, while workers sleep | tasks run; the destructor returns |
| blocking queue (`utility/blockingconcurrentqueue.h`) | a queue and a semaphore: a counter that goes negative over one of the system | `enqueue`, `wait_dequeue`, timed and bulk forms | a signal on its way to a waiter that times out | a token per element; nobody sleeps beside an element |
| concurrent queue (`utility/concurrentqueue.h`) | per producer a ring of blocks with four wrapping counters and an index of blocks; a free list of blocks; a list and a hash table of producers; tokens | `enqueue`, `dequeue`, bulk forms, tokens, moves, swaps, construction, destruction | counters that overshoot and wrap; constructors that throw and memory that runs out half way; reuse of blocks; tables that grow under readers | each producer's elements come out once and in order; blocks are in one place |
| single-producer queue (`utility/readerwriterqueue.h`, `atomicops.h`) | a ring of blocks, each a ring of slots with front and tail and shadow copies of them; a semaphore | `enqueue`, `try_enqueue`, `try_dequeue`, `pop`, `peek`, `wait_dequeue` | atomics without order, fences alone; the consumer passing from block to block | values come out once, in order, fully constructed |
| `multi_index_container` (`multi_index/`) | nodes, each linked into every index | insertion, erasure, `replace`, `modify`, `modify_key`, ranges, rehash, copies, archives | refusals and exceptions at any index of the chain; rollbacks | all indices hold the same elements, in their order; a failure changes nothing or drops one element |
| `smart_ptr_wrapper.hpp`, `weak_ptr_wrapper.hpp` | a shared pointer | atomic load, store, exchange, swap | `swap` is three steps | values are not lost |
| `hashmap_*.hpp` | liburcu hash table | `insert`, `remove`, `find` | iterators outlive the read section | no node is used after it is freed |
| `IoCcontainer`, `aspect_*`, `Strategy`, `Matrix`, demos | a map of factories; none | registration, resolution; pure functions | look-up and insertion in two steps | |

Interactions. The deque takes its nodes from a free list and gives them back. The
database calls its indices one after the other and holds no undo state of its own;
an index keeps its objects in a `multi_index_container`; clients call the database inside
`with_read_lock` or `with_write_lock`, which nothing enforces. The thread pools stand on
the concurrent queue or, through the semaphore, on the blocking one. The trees, hash maps
and wrappers use one another only as value types.

`PROJECT.json` lists every component with its status, and under `hazards` each place
where the code is hard to test, with the properties that cover it.

## 2. Modules

| module | what it is | corresponds to |
|---|---|---|
| `NodePool` | abstract: a pool of nodes whose allocations and frees are atomic; null only when no node is free | what `construct`/`destruct` promise |
| `Freelist` | the free list, one step per atomic access or link access | `detail-dev/freelist.hpp:207-531` |
| `CacheFreelist` | extends it: the list that grows by an allocator | `detail-dev/freelist.hpp:21-174` |
| `InsertSet` | abstract: a linearizable set that only grows (`Spec`), or one that may lose an insertion (`SpecLossy`) | what `insert` and `search` promise |
| `NonBlockingBST` | the tree, one step per access to a shared word | `BST/nbbst.hpp`, `BST/BST.cpp:23-43`, `BST/BSTclass.h:29-81` |
| `BsTree` | extends it with what `bstree` does differently | `utility/bstree.hpp:214-310` |
| `DoubleEnded` | abstract: a linearizable double-ended queue | what the pushes and pops promise |
| `Deque` | the deque, one step per access to the anchor or a link | `detail-dev/deque.hpp` |
| `UndoLog` | abstract: a stack of whole copies of the content | what sessions, `undo`, `squash` and `commit` promise |
| `GenericIndex` | one index with its three buffers of differences | `chainbase/chainbase.hpp:125-535` |
| `Database` | sessions over several indices, one call to an index per step | `chainbase/chainbase.cpp:156-200`, `chainbase.hpp:248-287`, `678-736` |
| `RWLocks` | the array of mutexes, its users, their deaths | `chainbase/chainbase.hpp:612-641`, `875-925` |
| `ThreadPool` | both thread pools (`blocking` tells them apart) | `utility/thread_pool.hpp`, `thread_pool_block.hpp` |
| `BlockingQueue` | the semaphore beside the queue, and every form of call | `utility/blockingconcurrentqueue.h` |
| `Subqueue` | what both kinds of sub-queue share: four wrapping counters, claiming of elements | `utility/concurrentqueue.h` (`ProducerBase`, `dequeue`) |
| `ExplicitQueue`, `ImplicitQueue` | the two kinds: ring of blocks, index, bulk operations, failures, destructor | `ExplicitProducer`, `ImplicitProducer` |
| `BlockPool` | initial blocks and the free list with reference counts | `FreeList`, `requisition_block`, the destructor |
| `Producers` | list of producers, tokens, hash table that grows | `get_or_add_implicit_producer`, `ProducerToken`, `recycle_or_create_producer` |
| `QueueMoves` | constructors, moves, swaps, destructors | `swap_internal` and what it calls |
| `Consumers` | choice of a producer, with and without a token | `try_dequeue*`, `update_current_producer_after_rotation` |
| `SpscQueue` | the single-producer queue, store by store, over a memory that reorders stores between fences | `utility/readerwriterqueue.h`, `atomicops.h` |
| `OrderedTree`, `OrderedIndex` | the red-black tree as operators on records of links; the index upon it: link points, hints, ranks, copies | `multi_index/detail/ord_index_*`, `rnk_index_*` |
| `HashedIndex` | buckets and groups in a doubly linked list, rehashing, undoable unlinking | `multi_index/hashed_index.hpp`, `detail/hash_index_node.hpp` |
| `SequencedIndex`, `RandomIndex` | the circular list; the array of pointers | `multi_index/detail/seq_index_*`, `rnd_index_*` |
| `Archive` | what is saved and how the order comes back | `multi_index/detail/index_*.hpp`, `duplicates_iterator.hpp` |
| `MultiIndex` | the container: each operation passes through all indices | `multi_index/multi_index_container.hpp` and the indices' entry points |
| `FreelistMC`, `TreesMC`, `GenericIndexMC`, `DequeMC`, `ChainbaseMC`, `ThreadPoolMC`, `MultiIndexMC`, `SpscQueueMC`, `ConcurrentQueueMC` | instances for TLC: values a .cfg cannot write, one client program (`DequeMC`), and *worlds*: a variable `world` chooses at the start which of several modules moves, so that related models share a run | |
| `FreelistProofs`, `FreelistMCProofs`, `BlockPoolProofs`, `NonBlockingBSTProofs`, `DequeProofs`, `GenericIndexProofs`, `ChainbaseProofs`, `ThreadPoolProofs` | theorems and their proofs, see section 4 | |

Refinements (`INSTANCE ... WITH`): `Freelist` implements `NodePool`; `NonBlockingBST`
implements `InsertSet` and `BsTree` its lossy form; `Deque` implements
`DoubleEnded`; `GenericIndex` and `Database` implement `UndoLog`. A part that stands on
another uses it as its abstract description says: `Deque` takes the pool as `NodePool`,
an atomic set of free nodes; `Database` an index as `UndoLog`, content and snapshots;
`Consumers` and `BlockingQueue` a sub-queue as a sequence.

### How state and actions correspond to the code

**Freelist.** `pool` is `pool_`; `next[i]` is the index half of the link that lies in
slot `i`; `node`, `old`, `nxt` are the locals `node_index`/`index`, `old_pool` and the
index of `new_pool`. `AllocLoad` loads `pool_` and looks for null, `AllocReadNext` reads
the link (463-475), `AllocSucceed` and `AllocRetry` are the two outcomes of the
`compare_exchange_weak` - which may fail for no reason, and reloads `old_pool` -
(477), and likewise for deallocation. `ClientWrite` is the client using its memory: it
may leave anything in `ClientData` where the link will be. `Construct` hands the slot to
the client; the unsafe variants are single actions that need every other thread idle.

**CacheFreelist.** The steps are `Freelist`'s; `heap` holds the nodes that the allocator
still owns. An unbounded allocation that finds the list empty takes one from there,
`reserve` allocates and gives back at once, and `Destroy` walks the list.

**NonBlockingBST, BsTree.** Nodes are named for the thread and operation that creates
them, so creation needs no step. `ReadUpdate` and `ReadChild` are the two reads of each
level of `search`, `Publish` builds the subtree and the record (40-45), `Flag`/`FlagFails`
are the `compare_exchange` of the parent's update word (48), `CASChild` and `Unflag` are
those of `helpInsert` (69-71), done by owner and helpers alike. In `bstree` the word is a
pointer to an object; `helpinsert` compares it with an object it has just made, so its
unflagging never succeeds, and `insert` leaves its loop after one attempt.

**Deque.** `anchor` is `anchor_`, `link[s][n]` a node's `left` or `right` with its tag.
`left` and `right` are written out twice in the code; here one action stands for both,
with `Opposite`. `Load` is the load of the anchor with the tests that follow it;
`PushFirst`, `PushLink`, `PushAnchor`, `PopLast`, `PopCheck`, `PopPrev`, `PopAnchor` are
the accesses of the two operations, `ReadPrev` to `MakeStable` those of `stabilize`.
`Take` copies the data and frees the node; from then on its memory holds the pool's link
(`Wild`) in place of `left`, until `BeginPush` constructs it again with zero tags.

**GenericIndex.** Single-threaded, so an action is a whole operation with every hook it
calls (`on_create`, `on_modify`, `on_remove`) and every exit: a uniqueness violation that
throws (`fault = "threw"`) and a dereferenced `end()` (`"undefined"`).

**Database.** `op` is the loop in progress and `at` the index it has reached; each call to
an index is a step. `StartThrows` is `bad_alloc` at any index of `start_undo_session`,
after which the vector's destructor undoes the sessions begun (`"unwind"`). `UndoThrows` is an
exception out of an index's `undo()`, as run `index_undo` exhibits it, or out of one of the undos of
its `undo_all()`: it ends the loop, with this index
left at some content and its undo state still on the stack, the earlier ones undone and the later
ones not. It can happen wherever there is something to put back (`Differs`) and wherever an
exception has left the index half done before (`faulty`); `Change` includes the `modify` that
throws. In `session::undo()` the handle then keeps the index sessions that were not undone (`CallThrows`), and
may be called or destroyed again; in `~session()` the exception ends the process (`DestructorThrows`). `Die` stops
the process between two calls: the indices stay as they are, session objects vanish
without their destructors. `torn` remembers whether the indices disagree: `"recoverable"`
until an `undo_all` returns, `"lost"` when they were changed or called otherwise in that state, or when
the oldest undo state was going. `base` is what `undo_all` should restore. `CallDamages` is where the model
ends: a call that dereferences `end()` in a faulty index, or a `squash()` that runs out of memory.

**RWLocks.** `locks[s]` is an `interprocess_sharable_mutex`, which has no owner: a flag
and a count. `next_lock` (increment), `Construct` (placement new, under the number as it is
then) and `Reload` are three steps. `Die` stops a reading process or the writing one with
all its threads; mutexes stay locked.

**BlockingQueue, ThreadPool.** `m_count` and `m_sema` are the semaphore's two counters;
each atomic access is a step, from `TryWaitMany` (a call) over `Spin`, `Join`, `Wake`,
`TimeOut`, `Restore`, `TryWait` to `Take`, which collects the elements that the tokens
stand for. One action of a pool per step of a worker; `inner` has one sequence per
producer - a task that submits does so with a token of its own, hence as a producer of its
own; `blocking`, chosen at the start, says which of the two pools it is. The client that
owns the pool may call `terminal` - one exit task per step - and destroys the pool.

**Concurrent queue.** One step per atomic access; `ppc`, `cpc` and the registers `pr`,
`cr` are the places of producers and consumers in their code. A constructor that throws
and an allocation that fails are choices of the step that could meet them. Ghost
variables (`sent`, `claimed`, `leftover`, `misplaced`) record what the properties speak of.

**SpscQueue.** Stores wait in `buf`, epochs of them separated by release fences; the
stores of the oldest epoch reach `mem` in any order. Loads are in program order, as the
acquire fences make them.

**MultiIndex.** Operators on records of links do what the node and index headers do, and
an action of `MultiIndex` is a whole call through the chain of indices, last to first, with
the place at which a comparison, hash or copy throws chosen freely. `report` is what the caller
learns; its `restored` says whether the value of the element, after a refusal or a rollback, is what it was: the
rollback that a caller passes to `modify` may put back anything. `FailuresContained` then allows that one value to
differ and nothing else.

## 3. Runs

| run | instance | distinct states | what it shows |
|---|---|---|---|
| `freelist` | world "fixed": 3 threads, 2 slots, tag of 3 values, 2 overtakings; world "cache": 2 threads, 2 nodes; world "blocks": 2 threads, 1 block of the initial array and 1 from the heap | 389 815 | `TypeOK`, `Exclusive`, `FreeListIntact`, `NoABA`, `ImplementsPool`; `CacheSound`: a node of the growing list is in one place, down to the end of the destructor; `BlocksSound`: the same of the blocks of a concurrent queue, whose list has reference counts for a tag; `LockFree` under fairness |
| `bst` | worlds "nbbst" and "bstree": 2 threads, 2 operations each, 3 keys, the reserved one among them | ~131 000 | `TreesSound` (search order, helpers help a real insertion, flags), `ImplementsSet`, `FlagProtectsChild`; `CallsAnswered`: every call returns, and `bstree` implements the lossy set |
| `index` | 3 ids, 3 unique values, stack of 2, revisions from -2 | 467 914 | `ImplementsUndoLog` up to the first exception, `UndefinedOnlyAfterThrow`, `LogSound`, `SquashAssertions` |
| `index_undo` | 2 ids, 2 unique values, one undo state | violation | see section 5 |
| `deque` | 2 threads; 3 nodes, each allocated once, or 2 nodes, one of which is recycled while no other thread remembers it (`FreshNodes`) | 700 300 | `DequeSound` (each node in one place, neighbours linked both ways unless a push is half done, no wild pointer followed), `NoABA`, `ImplementsDeque`; `LockFree` under fairness |
| `deque_reuse` | a program of nine calls | violation | see section 5 |
| `chainbase` | world "sessions": 2 indices, 2 session objects, stack of 2, exceptions without limit, 2 deaths; world "locks": 1 reading process, 2 writing threads, 2 mutexes, counter of 3 values, 2 deaths | 803 783 | `InStep`, `UndoAllRecovers`, `ImplementsUndoLog`; `LocksSound`; `DeadHoldersPassed` under fairness |
| `threadpool` | 2 workers, 2 clients, 3 tasks, one submitted by a task, in either kind of pool; world "direct": the same threads call the blocking queue, timed and in bulk, with 3 elements | 125 188 | `PoolSound`, `OwnersTasksRun`; `EverybodyServed`, `DestructorReturns` under fairness |
| `multi_index` | each kind of index alone (4 to 6 elements), and six pairs (3 or 4) | up to renaming of nodes | `Consistent`, `AnswersAgree`, `RollbacksSound`, `FailuresContained`, `OrdersKept` |
| `spsc` | rings of 1 to 5 blocks of 2 and 4 slots, 3 values, with and without the semaphore | | `RingSound`, `AnswersInOrder`; `EveryValueArrives` under fairness |
| `concurrent_queue` | ten worlds, see `ConcurrentQueueMC` | | `SubqueuesSound`, `SubqueuesInOrder`, `ProducersSound` (of the table of producers and of moved queues) |
| `bulk_failure` | 1 consumer, 3 blocks of 2, an index of 2 entries that grows | violation | see section 5 |

**Bounds and why they are enough.**
*Free lists:* two slots are enough for ABA (one slot goes and comes back while the link
to the other changes), three threads for a victim, a remover and a returner; `TagMod`
is small so that the tag wraps often, and `MaxOvertake < TagMod` is the only assumption
about it. Safety is proved for all values besides. The growing list was explored once with
three threads and two nodes (2 778 168 states) and two threads and three nodes (689 032).
*Trees:* two threads give an owner and a helper at every point of an insertion, and second
operations let a thread return to a part of the tree that has grown, or meet the flags and
records of a first. Memory is never reused by the code, so names need not be. `BsTree`
alone was explored once with four keys (589 377 states).
*Index:* the buffers treat ids independently; three ids and two stacked states cover
every cell of the table in the comment on `squash`, with an id handed out in either or
neither state. Values are unique, which the code leaves to the index's definition: an
index without the constraint is the case in which no value is ever taken.
*Deque:* three nodes give a deque with an inner node, where the two ends do not touch. Recycling
is allowed in the passing run where it is safe: `FreshNodes`, the hypothesis of the theorems, is a
bound of `DequeMC`. Where it is not, `deque_reuse` finds its counterexample, along a given program:
all programs over three recycled nodes exceed what can be explored in minutes. Two nodes
were explored once with two uses each (204 399 states) and with three (1.1 million).
*Database:* two indices are one that has been called and one that has not; a third would
join one of them. Once nothing is promised of the indices (`torn = "lost"`) they are not followed
(`Promised` in `ChainbaseMC`). *Locks:* two mutexes and a counter of three values let a slot come
round again and the counter wrap at a number that the slots do not divide.
*Pools:* two workers, so that one can leave while the other is busy; two direct consumers
can both time out while two signals are on their way.
*Container:* six nodes in a red-black tree bring about every case of rebalancing in both
mirror images; three elements in a pair of indices leave one on each side of the one that
fails. Nodes differ in nothing but their names: `View` in `MultiIndexMC` names each by its
place in the first index.
*Single-producer queue:* blocks of two and four slots (one always stays free) wrap within
three values, and a ring of one block has to grow. Five values were explored once, without
liveness: 2.6 million states.
*Concurrent queue:* indices wrap at 8 or 16 in worlds with one consumer and blocks of two;
worlds with two consumers have few elements instead. Explored once besides: the block pool
with three threads and two blocks (7 896 778 states) and two threads and three blocks
(691 603), producers with three enqueuers and
three producers (308 000; the whole run with that: 1 467 932), moves with three producers
(300 000), two consumers in contention with bulk calls (612 000), implicit producers with
bulk calls and one consumer (596 000) or two (739 000), explicit ones with bulk calls and
two (209 000).

**Fairness.** Liveness is checked under weak fairness of each thread's own steps once it
is inside an operation: operating-system scheduling.
In `ThreadPool` an owner that began `terminal` or the destructor goes on; in `RWLocks` a
timed wait on a mutex that stays locked runs out, since time passes; in `SpscQueue` a store
reaches memory in the end. In `Freelist` `compare_exchange_weak` does not fail spuriously for
ever. No thread has to begin an operation, with one exception: `EveryValueArrives` is about a
consumer that keeps calling, so `SpscQueue.FairSpec` has strong fairness of `TakeCalls`, the beginning of a
dequeue. It is strong because between two calls, while one is under way, none can begin. Strong fairness
is assumed nowhere else, so properties that a single thread could
starve on are stated for the system (`LockFree`, `DeadHoldersPassed`). Waiters with a time
limit can keep trading their timeouts for each other's signals, so `EverybodyServed` speaks
of those without one. Fairness of every thread also means that a thread which stops for good in the
middle of a call is not covered by `CallsAnswered`.

`CHECK_DEADLOCK FALSE` appears where the bounds or the system itself end: every operation
allowed has been done, the pool has been destroyed, or all callers wait without a timeout
for a dead process.

Each property also has a mutant in `PROJECT.json`: a changed definition, such as a
comparison left out, under which the run finds the property violated. The mutated forms
stand beside the originals in the modules, marked as such.

## 4. Proofs

Everything here holds for every value of the constants that meets the named assumption:
any number of threads, nodes, keys, revisions. Each inductive invariant was first
checked by TLC on an instance (the states given below), then proved with one lemma per
action; the theorems the reader should know of are listed under `theorems` in `PROJECT.json`.

### `FreelistProofs`

- `TypeCorrect`: `Spec => []TypeOK`;
- `NoDoubleAllocation`: `Spec => []Exclusive`, no slot in two hands;
- `NoSlotLost`: `Spec => []FreeListIntact`, the links from `pool_` visit exactly the slots
  in nobody's hands, each once;
- `TagPreventsABA`: `Spec => []NoABA`, a `compare_exchange` of an allocation never
  installs a stale link;
- `Refinement`: `Spec => ImplementsPool`, the list implements `NodePool`.

*Assumptions* (named in `Freelist`): `SizeAssumption`, positive sizes;
`OvertakeAssumption`, fewer than `TagMod` allocations complete during one attempt of another;
`ClientAssumption`, what a client leaves in its memory is read as some index.

*Argument.* The invariant is
`IInv == TypeOK /\ Exclusive /\ FreeListIntact /\ StalledAttempts /\ PushesLinked`.
`FreeListIntact` alone is not inductive. A successful allocation installs the link it read
some time ago, so one has to know that the link is still right: `StalledAttempts` says that
the tag differs from the one loaded by the number of allocations that overtook the
attempt, modulo `TagMod`, and that if none did, the slot is still free and its link the one
read. Deallocations do not change the tag, which is harmless for that reason alone: a slot
has to be allocated before it can be pushed again. With at most `MaxOvertake < TagMod`
overtakings, equal words mean none (`MatchMeansFresh`). A successful deallocation makes its
slot the top, which needs the slot's link to name the old top (`PushesLinked`). `Exclusive`
keeps the writes of clients and of other deallocations off the links of the list. The list is a
sequence without repetitions (`IsChain`), with a lemma each for popping, pushing and leaving
it alone; that it is never longer than `Count` (`ChainLength`) bounds the quantifier.
In the refinement `AllocSucceed` takes a node in the abstract pool, an empty `pool_` refuses,
and everything else is a stutter.

### `FreelistMCProofs`

- `CacheInvariant`: `Cache!SpecCache => []Inv`, the list links exactly the nodes that neither the
  allocator nor a thread nor the client has;
- `NoNodeLost`: `SpecMC => []CacheSound`, as run `freelist` states it: no node is in two places or
  lost, down to the end of the destructor, and no stale link is installed;
- `NoBlockLost`: `SpecMC => []BlocksSound`, the theorem of `BlockPoolProofs` as the run states it.

*Argument.* The allocator is one more client of the fixed list: with `live \cup heap` for
`live`, a step of the growing list is a step of `Freelist` or leaves its invariant alone,
so the lemmas of `FreelistProofs` are used again, through an instance, rather than repeated.
The walk of the destructor goes by induction over the list. The invariant was checked on
52 944 states.

### `BlockPoolProofs`

- `BlocksSound`: `Spec => []PoolSound`: no block of a concurrent queue is in two hands, the free
  list visits every block that it should, each once, and the destructor frees every block once.

*Assumption:* `Sizes`, as `BlocksAssumption` in `FreelistMC`: finitely many threads and blocks, null is no
block and those of the initial array come first. There are no tags and no bound on overtaking.

*Argument.* The list defeats ABA by counting. `Counted`: a block's count is exactly the
number of threads that have counted themselves in, plus one if the list holds it, or a thread
is moving it on or off the list with the list's reference in hand. `Placed`: a block that should be
on the list and is not has a count above zero or one thread that links it, and that thread began when
the count was zero. So while anybody holds a reference nobody writes the block's link, and what was
read from it stays right (`Knows`): a block that has left cannot return while somebody is counted
in, and the `compare_exchange` fails if the head is another one. `Chained` is the list as a sequence without repetitions,
`Ended` says that the destructor has freed everything. The walk along the links that `PoolSound` makes is
a recursive function; what it visits is found by induction over the list (`SetInduction`). Checked
with two threads and three blocks (691 603 states).

### `NonBlockingBSTProofs`

- `TypeCorrect`, `HelpedIsReal` (`[]HelpsSomebody`: who helps, helps an insertion that
  somebody began), `NoFlagLeft` (`[]FlagsCleared`: a flag does not outlive its insertion),
  `FlagsProtect` (`FlagProtectsChild`: a child changes only under the flag of its parent);
- `NoKeyTwice`: no two leaves of the tree bear the same key;
- `Refinement`: `Spec => ImplementsSet`, `insert` and `search` are those of a linearizable set.

*Assumption:* `KeyAssumption`: keys are integers, none above the second of the two reserved
ones, `Inf1 < Inf2`; a client may use the first.

*Argument.* `IInv` is the conjunction of `Typed`; `Ordered`, nodes are published
before they are linked, so that the tree has no cycles; `Marked`, a flag names the record of an
insertion that has not unflagged; `Insertion`, what an insertion in progress knows of its
parent, leaf and new subtree; `Carried`, `Reading` and `Helping`, the same for the records
that other threads hold. TLC found it inductive over 196 402 states. For the refinement each
node is given the interval of keys that belong beneath it (`RangeInv`): the interval of a
node never changes once it is in the tree, so a search that has reached a node is still on the way
to its key, however long it pauses; two leaves with one key would share an interval. An insertion takes
effect at the `compare_exchange` of the child, whoever performs it. That the tree is a search tree for
the recursive definition in `TreesSound` stays with TLC, and so does `BsTree`.

### `DequeProofs`

- `DequeKeepsItsNodes`: `Spec /\ []FreshNodes => []DequeSound`: each node is in the pool, in the deque or in one
  thread's hands, neighbours are linked both ways unless the status tells of a half done push,
  and no thread follows the pool's bits in a node that was given up;
- `LinksAreNotMistaken`: `Spec /\ []FreshNodes => NoABA`, `stabilize()` changes a link only under the anchor
  it loaded;
- `DequeIsLinearizable`: `Spec /\ []FreshNodes => ImplementsDeque`, pushes and pops are those of a linearizable
  double-ended queue.

*Assumptions:* `DequeAssumption`: finitely many nodes, whose names are neither null nor the pool's bits,
which differ (`Contents` has to tell a node that points nowhere from one that was given up).
Nodes are recycled any number of times. What the theorems ask for is `FreshNodes`: a node that a thread
has allocated and not yet pushed is not among those that another thread, in the middle of a call,
has read from the anchor or a link. A thread's own memory is of no concern: a single thread, or
callers that take turns, meet the condition whatever they do. The code does not see to it - the pool may
hand out at once what was just given back - and trusts the tags instead; run `deque_reuse` shows the step at which
they fail, which is one that breaks `FreshNodes`. So the three theorems say exactly what the
program would gain from a pool that waits for such readers, and that nothing else is wrong with it. Nothing
is assumed of the tags, which may have a single value: under `FreshNodes` they are not what keeps the deque whole.

*Argument.* That the links lead from one end to the other is not inductive: a popped node keeps its links,
and a stalled thread may still act on what it read from one. `IInv` gives each node of the
deque (`In`: neither in the pool nor owned) an integer, its place (`\E pos : Placing(pos)`), and places of
nodes in the deque are
never changed: a push takes the next number at its end, a pop gives up the number at its end, and a
new numbering begins when the deque was empty. `Ordered(pos)`: the places are consecutive between the
anchor's ends, and links agree with them except for the one that the status excuses. `Read(pos, t)` says what a
thread's registers are worth: what a pop has read as the inner neighbour still is one if both ends are
still in the deque, and the link that `stabilize()` is about to change is the missing one if the
anchor is the one loaded - if not, its `compare_exchange` fails, since the link no longer points where it did.
Only a node on its way in can disturb such a register, by being constructed (`BeginPush`), by having its own link stored
(`PushLink`), or by becoming an end (`PushFirst`, `PushAnchor`) under a number that its name had not;
`FreshNodes` is used at these four steps and says that nobody else has that name in a register.
`Apart` keeps owners and pool disjoint, `Clean` the pool's bits out of the deque.
One lemma per action shows that a step keeps the invariant,
and `Contents`, a walk along the links, is computed from the places: it is the one sequence with
consecutive places from end to end (`Laid`). In the refinement `PushFirst`, `PushAnchor`, `PopLast`, `PopAnchor`
and a `Load` of an empty anchor are the moments at which a call takes effect; everything else stutters.

### `GenericIndexProofs`

- `RecordsSound` (`[]LogSound`): revisions are contiguous and the three buffers of each undo state
  partition what changed;
- `SquashAsserts` (`[]SquashAssertions`): no assertion inside `squash` fails;
- `ThrowsFirst` (`UndefinedOnlyAfterThrow`): an `end()` is dereferenced only after an exception left
  the index broken;
- `Refinement`: `Spec => ImplementsUndoLog`, the three buffers of differences stand for whole
  copies of the content.

*Argument.* The stack of undo states represents a chain of contents, `\E c : Represents(c)`:
one per state and the present one at the end, each pair of neighbours related by the buffers between them
(`Sane`, `Fits`, `Kept`). A modification changes the last content and the last buffers; `squash`
drops an inner content, which is the table in the comment on `squash` read as a composition of
differences; `undo` drops the last. The loops of `undo` are recursive functions over the ids,
followed with induction over sets (`SetInduction`). After an exception nothing but `Kept` - the
unique values - fails, so `LogSound` and `SquashAssertions` need no case of their own. Checked on all 467 914
states of run `index`.

### `ChainbaseProofs`

- `IndicesInStep` (`[]InStep`): between calls all indices have the same revision and the same undo
  states, unless a call of `undo()` threw at a later index, or a death came in the middle of a call, and
  no `undo_all()` has returned since;
- `UndoAllRepairs` (`[]UndoAllRecovers`): what `undo_all()` would bring back is one moment of the whole
  database, and no exception out of `undo()`, `session::undo()` or `undo_all()` itself, at any
  index, and no death moves it, unless the oldest undo state was going;
- `UndoAllRestores`: when `undo_all()` returns, every index has the content and the revision of that moment and
  an empty stack. That it returns is not claimed; if it throws, it can be called again;
- `Refinement`: `Spec => ImplementsUndoLog`, the database is one undo log: what returns takes effect
  as a whole, what throws at the first index leaves the copies alone, and what throws further on,
  or dies, spoils the log until `undo_all()` has returned;
- `WritersAlone`: `SpecMC => []LocksSound`, for the locks beside the sessions.

*Assumption:* `NoSentinel == \A r \in Revisions : r >= -1` for the sessions: with revisions below,
the successor of one is the number that means a disabled session, and a `start_undo_session` that
throws leaves the indices out of step (`chainbase.hpp:278-287`).

*Argument.* `IInv` is `Typed`, `Contiguous`, `Progress`, `Agreement`, `Restorable` and `Recovery`. A
loop in progress is described by the states `before` its first call: index `i` is
`Part(op, i, before[i])`, the state after the call if the loop has passed `i` and the one before it
if not, and the database as an undo log remains at `before` until the last call. The undo states
of an index have consecutive revisions, so that revision and number of states say which they are,
and indices that agree on those agree on their moments. An index whose `undo()` threw has an unknown
content, but its oldest undo state and the revision under it are untouched; so are those of the
indices before it, unless they were undone to the bottom, and then they are at that very moment
(`Restorable`: `base = Bases(Visible)`). Once the indices disagree nothing but undoing keeps this
(`Recovery`). Checked on 1 376 388 states with revisions -1 to 1.

Of the locks: `WritersExclude`, that as long as no writer has timed out and moved on to another
mutex, a writer is alone. *Argument.* Until then all users are at one mutex (`OneMutex`), whose
flag and count are those who hold it, dead or alive (`Excluded`). *Assumption:* `LockAssumption`: a process
that reads is not one that writes, there is a mutex, the counters have room. Checked on
1 035 190 states.

### `ThreadPoolProofs`

- `TokensAgree`: `SpecMC => []PoolSound`, in the pool and under direct calls, bulk and timed ones
  included: tokens and elements agree (`TokensCovered`), posts and sleepers match
  (`PostsCovered`), and `size_approx()` is exact when nothing is under way (`ApproxExact`);
- `TerminalDrains`: `Spec => []OwnersTasksRun`: when the destructor of the blocking pool returns, what
  the owner submitted before `terminal()` has run.

*Assumption:* `ThreadPoolAssumption`: finitely many workers, at least one, clients and tasks, none of them
another, and an owner among the clients.

*Argument.* The counts of `TokensCovered` and `PostsCovered` are sums over all threads and producers; a
sum changes by as much as the one value that changes (`SumChange`, by induction over the finite
domain). Where a thread stands says what its registers may hold (`Fits`): how many tokens it owes
elements for (`Weight`), and how many posts it will bring or take (`Posts`). A step of one thread then preserves
both equations when the change of `m_count`, of the elements and of `Weight` cancel, and so do those of
`m_sema`, of the missing tokens and of `Posts` (`Balance`); each of the calls does. `Signal` alone moves
both at once: it releases as many sleepers as `m_count` was below zero.
For `terminal()` the invariant `Order` is added: only the owner enqueues exit tasks, after all its others
(`ExitsLast`); an element is taken from the front of its producer's queue, so that once an exit
task is out nothing else of the owner's is in the queue (`Overtaken`); and each of its tasks is in
the queue, in a worker's hands or done (`Accounted`). A worker leaves with an exit task in its hand (`Leaving`), and
the destructor waits for all workers. Checked on the 125 188 states of run `threadpool`.

### What stays with TLC

Liveness under fairness (`LockFree`, `CallsAnswered`, `DeadHoldersPassed`, `EverybodyServed`,
`DestructorReturns`, `EveryValueArrives`) and `ENABLED` are out of the prover's reach; so
are `RECURSIVE` operators, among them the `Find` of the trees, and the theorems of the library that take
an operator as a parameter. Numbers, sets and lists can be inducted upon with the lemma
`SetInduction` of several modules, which states the principle with a set in place of an operator. `RingSound`, `Consistent`, `AnswersAgree`,
`RollbacksSound` and the invariants of run `concurrent_queue` are only model-checked. So is
`TreesSound`, which speaks of both trees and uses a `RECURSIVE` operator; what it says of
`NonBlockingBST` is proved as `NoKeyTwice` and the others above, `SearchTree` excepted.

## 5. Where the code departs from its own words

- `index_undo`: `undo()` "restores the state to how it was prior to the current session",
  unless a new object took the unique key of a modified one: old values are written back
  before new objects are erased (`chainbase.hpp:313-323`).
- `deque_reuse`: the tags on links are there "to protect from the ABA problem", but a
  recycled node's tags begin at zero again (`deque.hpp:39-41`, `297`), so that a stalled
  `compare_exchange` succeeds on a node that has moved, and the deque loses its shape.
- `bulk_failure`: a bulk enqueue that fails is said to "undo changes (but keep injected blocks)"
  (`concurrentqueue.h:2022`), but the index of blocks then counts fewer entries than the ring has blocks
  (2024), and a later enqueue overwrites an entry that is still in use.

Seen while modelling, without a run:

- "a squash will decrement the revision" (`chainbase.hpp:526`), but not a squash of the
  only undo state (344-347); `squash` in `GenericIndex` does as the code.
- The runtime-sized storage of the free list asserts `count > 65535`, the opposite of what its
  16-bit indices can name (`freelist.hpp:300`).
- A push on an exhausted pool constructs the node on a null pointer before it could "return false
  if the freelist is not able to allocate" (`deque.hpp:151-152`).
- `bstree::insert` returns true without having inserted when its one attempt is overtaken, and its
  flags are never cleared (`bstree.hpp`): `BsTree` implements `SpecLossy`, a set that may lose insertions.
- In `concurrentqueue.h`: after a constructor that throws, a block may be marked empty and
  never be used again, and a destructor runs over elements never constructed (`leftover`); a bulk
  dequeue of zero elements can meet the assertion at 2871; `assert(overcommit <= myDequeueCount)`
  (1913) is false once the counters have wrapped; a consumer's quota can be overshot, so
  that no rotation follows (1101-1105); implicit producers of threads that end are recycled
  only under a macro that is off.
- `size_approx()` of the single-producer queue, called by the consumer, may follow `next` before it is set.

## 6. Assumptions and limits

- Memory is sequentially consistent, except in `SpscQueue`. The code asks for `consume`,
  `acquire` and `relaxed` order in places; what that permits beyond interleaving is not modelled elsewhere.
- The deque and the wrappers depend on templates that do not all compile as they stand
  (`freelist_stack` is nowhere defined); they are modelled as written, with the pool's
  contract taken from `NodePool`.
- `updateRecord` has padding, and a `compare_exchange` compares representations; the model
  compares values.
- Boost.Interprocess, the system's semaphore and threads are external: a mutex is a flag and a count.
  `terminal` counts exit tasks by `capacity()`, taken to equal the number of threads
  after `shrink_to_fit`.
- `GenericIndex` takes its container to be what `MultiIndex` shows: a failing `modify` erases the
  object. It copies objects where `undo()` moves them.
- Deaths happen between calls to indices, never inside one. Memory that runs out in `emplace` once the
  object is in the index but not yet recorded (`chainbase.hpp:213-216`, `516-520`) is not modelled, nor
  what a `squash` that ran out of memory in the middle leaves behind: the models stop there.
- Exclusion after a writer's timeout, when `next_lock` counts and constructs in two steps, is promised by
  nobody and claimed by no property; the steps are in `RWLocks` all the same.
- The edge at which `null_handle()` names a slot (65536 slots) is in `Freelist` and its theorems, not in its run.
- In run `chainbase` `set_revision` does not take the value 2^64 - 2, whose successor is
  the sentinel -1 for a disabled session.
- Parts of modelled files that are left out: the allocation of an explicit producer's index in its
  constructor, `MemStats`, moves and swaps of `ConsumerToken` and of the blocking queue,
  `waitMany(0)`; of the single-producer queue `size_approx`, moves, and exceptions of the
  consumer's assignment; swap, assignment and move of the container.
- Not modelled at all: see `components` in `PROJECT.json`, each with its reason.

## 7. Plan

Done: free lists with their abstract pool; the trees; the index; the deque; database sessions and
locks; thread pools and the queues under them; the container; and the proofs of section 4.

To prove:
1. `SpscQueue`: `RingSound`, with an invariant about what the buffered stores of each side
   have made visible.
2. `Subqueue`: what `SubqueuesSound` says of it, modulo the width of the counters.

To model:
1. `shared_ptr_wrapper::swap`, the hash maps over an external RCU, and `IoCcontainer`.
2. The operations of `bstclass` that have a meaning, against `InsertSet`; the sequential and
   transactional trees as pure operators against the set of their leaves.
3. `Matrix::det` and `__power2` over bounded inputs, against reference definitions.
