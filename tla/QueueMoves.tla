----------------------------- MODULE QueueMoves -----------------------------
(***************************************************************************)
(* Construction, moving, swapping and destruction of ConcurrentQueue       *)
(* objects and of producer tokens in utility/concurrentqueue.h, none of    *)
(* which may run concurrently with anything on the same queues.  A queue's *)
(* state is tied together by pointers into the object itself: the first    *)
(* hash table is a member, producers point to their queue, tokens and      *)
(* producers to each other.                                                *)
(***************************************************************************)
EXTENDS FiniteSets, Sequences, Integers

CONSTANTS
  Queues,          \* objects, numbered from 1; a hash table of that number is their member
  Ids,             \* threads that enqueue without a token
  Tokens,          \* token objects
  HashSize,        \* INITIAL_IMPLICIT_PRODUCER_HASH_SIZE
  PoolSize,        \* blocks that the constructor allocates
  MaxTables,       \* a bound: the numbers of hash tables end there
  MaxProducers,    \* a bound: producers created altogether
  MaxConstructed   \* a bound: queues constructed altogether

VARIABLES
  alive,           \* the queue objects there are
  member,          \* their members that are moved and swapped one by one, see Fresh
  initialEntries, implicitProducerHash,
  prev, capacity, entries,                 \* hash tables; 0 is the null pointer
  parent, explicit, inactive, token,       \* producers; parent 0: destroyed
  blocks,                                  \* producers' blocks: <<pool, number>>
  producer,                                \* ProducerToken::producer, -1: no such object
  constructed,                             \* how many queues were constructed so far
  contents, registered                     \* traces, see Homes

tables == <<initialEntries, implicitProducerHash, prev, capacity, entries>>
producers == <<parent, explicit, inactive, token, blocks>>
traces == <<contents, registered>>
vars == <<alive, member, tables, producers, producer, constructed, traces>>

Null == 0
NoObject == -1
Created == Len(parent)
NoEntries == [i \in Ids |-> Null]
Dynamic == Cardinality(Queues) + 1 .. MaxTables

\* What a constructor sets, and what the move constructor leaves in the other queue.
Fresh(pool, size) ==
  [producerList |-> <<>>, initialBlockPool |-> pool, initialBlockPoolSize |-> size,
   initialBlockPoolIndex |-> 0, freeList |-> {}, hashCount |-> 0]

Init ==
  /\ alive = {} /\ member = [q \in Queues |-> Fresh(Null, 0)]
  /\ initialEntries = [q \in Queues |-> NoEntries]
  /\ implicitProducerHash = [q \in Queues |-> Null]
  /\ prev = [h \in 1 .. MaxTables |-> Null]
  /\ capacity = [h \in 1 .. MaxTables |-> IF h \in Queues THEN HashSize ELSE 0]
  /\ entries = [h \in Dynamic |-> NoEntries]
  /\ parent = <<>> /\ explicit = {} /\ inactive = {} /\ token = <<>> /\ blocks = <<>>
  /\ producer = [k \in Tokens |-> NoObject]
  /\ constructed = 0
  /\ contents = [q \in Queues |-> 0] /\ registered = <<>>

EntriesOf(h) == IF h \in Queues THEN initialEntries[h] ELSE entries[h]

\* The tables from h back, as far as their number allows.
Chain(h) ==
  LET From[n \in 1 .. MaxTables] ==
        IF n = 1 THEN <<h>>
        ELSE LET s == From[n - 1]
                 before == prev[s[Len(s)]]
             IN  IF before = Null THEN s ELSE Append(s, before)
  IN  From[MaxTables]
TablesFrom(h) == IF h = Null THEN {} ELSE {Chain(h)[n] : n \in DOMAIN Chain(h)}

------------------------------------------------------------------------------
(* Construction and destruction. *)

\* populate_initial_implicit_producer_hash(); the queue is another one from now on.
InitialHash(q) ==
  /\ initialEntries' = [initialEntries EXCEPT ![q] = NoEntries]
  /\ implicitProducerHash' = [implicitProducerHash EXCEPT ![q] = q]

\* populate_initial_block_list() may fail to allocate.
Construct(q) ==
  /\ q \notin alive /\ constructed < MaxConstructed
  /\ alive' = alive \union {q}
  /\ constructed' = constructed + 1
  /\ \E size \in {0, PoolSize} :
       member' = [member EXCEPT ![q] = Fresh(IF size = 0 THEN Null ELSE constructed', size)]
  /\ InitialHash(q)
  /\ contents' = [contents EXCEPT ![q] = constructed']
  /\ registered' = Append(registered, NoEntries)
  /\ UNCHANGED <<prev, capacity, entries, producers, producer>>

ListOf(q) == {member[q].producerList[n] : n \in DOMAIN member[q].producerList}

\* Tokens are told; producers, and what they hold, go; then the tables that were
\* allocated, and the pools.
Destroy(q) ==
  /\ q \in alive
  /\ alive' = alive \ {q}
  /\ producer' = [k \in Tokens |->
                    IF \E p \in ListOf(q) : token[p] = k THEN Null ELSE producer[k]]
  /\ parent' = [p \in 1 .. Created |-> IF p \in ListOf(q) THEN Null ELSE parent[p]]
  /\ token' = [p \in 1 .. Created |-> IF p \in ListOf(q) THEN Null ELSE token[p]]
  /\ blocks' = [p \in 1 .. Created |-> IF p \in ListOf(q) THEN {} ELSE blocks[p]]
  /\ inactive' = inactive \ ListOf(q)
  /\ LET Freed(h) == h \in TablesFrom(implicitProducerHash[q]) \ Queues
     IN  /\ prev' = [h \in 1 .. MaxTables |-> IF Freed(h) \/ h = q THEN Null ELSE prev[h]]
         /\ capacity' = [h \in 1 .. MaxTables |-> IF Freed(h) THEN 0 ELSE capacity[h]]
         /\ entries' = [h \in Dynamic |-> IF Freed(h) THEN NoEntries ELSE entries[h]]
  /\ initialEntries' = [initialEntries EXCEPT ![q] = NoEntries]
  /\ implicitProducerHash' = [implicitProducerHash EXCEPT ![q] = Null]
  /\ member' = [member EXCEPT ![q] = Fresh(Null, 0)]
  /\ contents' = [contents EXCEPT ![q] = 0]
  /\ UNCHANGED <<explicit, constructed, registered>>

------------------------------------------------------------------------------
(* Moving and swapping. *)

\* swap_implicit_producer_hashes(): the entries in the two objects and the main tables
\* are swapped; then what points to the first table of the other object is found.
SwapHashes(a, b, main, own) ==
  /\ initialEntries' = [own EXCEPT ![a] = own[b], ![b] = own[a]]
  /\ implicitProducerHash' = [main EXCEPT ![a] = IF main[b] = b THEN a ELSE main[b],
                                          ![b] = IF main[a] = a THEN b ELSE main[a]]
  /\ prev' = [h \in 1 .. MaxTables |->
                IF h \in TablesFrom(main[b]) /\ prev[h] = b THEN a
                ELSE IF h \in TablesFrom(main[a]) /\ prev[h] = a THEN b ELSE prev[h]]
  /\ UNCHANGED <<capacity, entries>>

\* reown_producers() of both.
Reown(a, b) ==
  parent' = [p \in 1 .. Created |->
               IF \E n \in DOMAIN member'[a].producerList : member'[a].producerList[n] = p THEN a
               ELSE IF \E n \in DOMAIN member'[b].producerList : member'[b].producerList[n] = p
               THEN b ELSE parent[p]]

\* ConcurrentQueue(ConcurrentQueue&&): a is constructed from b, which is left empty, and
\* without a pool.
MoveConstruct(a, b) ==
  /\ a \notin alive /\ b \in alive /\ constructed < MaxConstructed
  /\ alive' = alive \union {a}
  /\ constructed' = constructed + 1
  /\ member' = [member EXCEPT ![a] = member[b], ![b] = Fresh(Null, 0)]
  /\ SwapHashes(a, b, [implicitProducerHash EXCEPT ![a] = a],
                [initialEntries EXCEPT ![a] = NoEntries])
  /\ Reown(a, a)
  /\ contents' = [contents EXCEPT ![a] = contents[b], ![b] = constructed']
  /\ registered' = Append(registered, NoEntries)
  /\ UNCHANGED <<explicit, inactive, token, blocks, producer>>

\* swap(), and assignment from an rvalue, which swaps too.
Swap(a, b) ==
  /\ {a, b} \subseteq alive /\ a < b
  /\ member' = [member EXCEPT ![a] = member[b], ![b] = member[a]]
  /\ SwapHashes(a, b, implicitProducerHash, initialEntries)
  /\ Reown(a, b)
  /\ contents' = [contents EXCEPT ![a] = contents[b], ![b] = contents[a]]
  /\ UNCHANGED <<alive, explicit, inactive, token, blocks, producer, constructed, registered>>

------------------------------------------------------------------------------
(* Use. *)

\* get_or_add_implicit_producer() and the enqueue, by thread i alone: a producer
\* is looked for in the main table first.
FoundIn(q, i) ==
  LET chain == Chain(implicitProducerHash[q])
      hits == {n \in DOMAIN chain : EntriesOf(chain[n])[i] # Null}
  IN  IF hits = {} THEN Null
      ELSE EntriesOf(chain[CHOOSE n \in hits : \A m \in hits : n <= m])[i]

PutEntry(h, i, p) ==
  IF h \in Queues
  THEN initialEntries' = [initialEntries EXCEPT ![h][i] = p] /\ UNCHANGED entries
  ELSE entries' = [entries EXCEPT ![h][i] = p] /\ UNCHANGED initialEntries

\* With each enqueue the entry comes into the main table.
EnqueueAgain(q, i) ==
  /\ q \in alive /\ FoundIn(q, i) # Null
  /\ PutEntry(implicitProducerHash[q], i, FoundIn(q, i))
  /\ UNCHANGED <<alive, member, implicitProducerHash, prev, capacity, producers, producer,
                 constructed, traces>>

NeedsTable(q) ==
  member[q].hashCount + 1 >= capacity[implicitProducerHash[q]] \div 2

\* A new producer of queue q, at the end of its list.
NewProducer(q, isExplicit, k) ==
  /\ Created < MaxProducers
  /\ parent' = Append(parent, q) /\ token' = Append(token, k) /\ blocks' = Append(blocks, {})
  /\ explicit' = IF isExplicit THEN explicit \union {Created + 1} ELSE explicit
  /\ UNCHANGED inactive

EnqueueFirst(q, i) ==
  /\ q \in alive /\ FoundIn(q, i) = Null
  /\ NewProducer(q, FALSE, Null)
  /\ member' = [member EXCEPT ![q].producerList = Append(@, Created + 1),
                              ![q].hashCount = @ + 1]
  /\ IF NeedsTable(q)
     THEN \E h \in Dynamic :
            /\ capacity[h] = 0 /\ \A g \in Dynamic : g < h => capacity[g] # 0
            /\ capacity' = [capacity EXCEPT ![h] = 2 * capacity[implicitProducerHash[q]]]
            /\ prev' = [prev EXCEPT ![h] = implicitProducerHash[q]]
            /\ implicitProducerHash' = [implicitProducerHash EXCEPT ![q] = h]
            /\ PutEntry(h, i, Created + 1)
     ELSE /\ PutEntry(implicitProducerHash[q], i, Created + 1)
          /\ UNCHANGED <<implicitProducerHash, prev, capacity>>
  /\ registered' = [registered EXCEPT ![contents[q]][i] = Created + 1]
  /\ UNCHANGED <<alive, producer, constructed, contents>>

\* requisition_block() for a producer of queue q, through the parent pointer.
TakeBlock(p) ==
  LET q == parent[p]
      m == member[q]
  IN  /\ q # Null /\ blocks[p] = {}
      /\ \/ /\ m.initialBlockPoolIndex < m.initialBlockPoolSize
            /\ blocks' = [blocks EXCEPT ![p] = {<<m.initialBlockPool, m.initialBlockPoolIndex>>}]
            /\ member' = [member EXCEPT ![q].initialBlockPoolIndex = @ + 1]
         \/ /\ m.initialBlockPoolIndex >= m.initialBlockPoolSize
            /\ \E b \in m.freeList :
                 /\ blocks' = [blocks EXCEPT ![p] = {b}]
                 /\ member' = [member EXCEPT ![q].freeList = @ \ {b}]
      /\ UNCHANGED <<alive, tables, parent, explicit, inactive, token, producer, constructed,
                     traces>>

\* An implicit producer's block is empty and goes to the free list of its parent.
FreeBlock(p) ==
  /\ parent[p] # Null /\ blocks[p] # {} /\ p \notin explicit
  /\ blocks' = [blocks EXCEPT ![p] = {}]
  /\ member' = [member EXCEPT ![parent[p]].freeList = @ \union blocks[p]]
  /\ UNCHANGED <<alive, tables, parent, explicit, inactive, token, producer, constructed, traces>>

\* ProducerToken(queue): recycles an explicit producer if it can, the newest first.
CreateToken(k, q) ==
  LET recyclable == {n \in DOMAIN member[q].producerList :
                       member[q].producerList[n] \in inactive \cap explicit}
      newest == CHOOSE n \in recyclable : \A m \in recyclable : m <= n
      p == member[q].producerList[newest]
  IN  /\ q \in alive /\ producer[k] = NoObject
      /\ IF recyclable # {}
         THEN /\ inactive' = inactive \ {p}
              /\ token' = [token EXCEPT ![p] = k]
              /\ producer' = [producer EXCEPT ![k] = p]
              /\ UNCHANGED <<member, parent, explicit, blocks>>
         ELSE /\ NewProducer(q, TRUE, k)
              /\ member' = [member EXCEPT ![q].producerList = Append(@, Created + 1)]
              /\ producer' = [producer EXCEPT ![k] = Created + 1]
      /\ UNCHANGED <<alive, tables, constructed, traces>>

\* The token of each valid producer pointer in f is told where it is now.
Retoken(f, changed) ==
  /\ producer' = f
  /\ token' = [p \in 1 .. Created |->
                 IF \E k \in changed : f[k] = p THEN CHOOSE k \in changed : f[k] = p
                 ELSE token[p]]
  /\ UNCHANGED <<alive, member, tables, parent, explicit, inactive, blocks, constructed, traces>>

MoveToken(k, other) ==
  /\ producer[k] = NoObject /\ producer[other] # NoObject
  /\ Retoken([producer EXCEPT ![k] = producer[other], ![other] = Null], {k})

\* swap(), and assignment.
SwapTokens(k, other) ==
  /\ NoObject \notin {producer[k], producer[other]} /\ k # other
  /\ Retoken([producer EXCEPT ![k] = producer[other], ![other] = producer[k]], {k, other})

DestroyToken(k) ==
  /\ producer[k] # NoObject
  /\ producer' = [producer EXCEPT ![k] = NoObject]
  /\ IF producer[k] = Null THEN UNCHANGED <<token, inactive>>
     ELSE /\ token' = [token EXCEPT ![producer[k]] = Null]
          /\ inactive' = inactive \union {producer[k]}
  /\ UNCHANGED <<alive, member, tables, parent, explicit, blocks, constructed, traces>>

------------------------------------------------------------------------------
ObjectNext ==
  \/ \E q \in Queues : Construct(q) \/ Destroy(q)
  \/ \E a, b \in Queues : MoveConstruct(a, b) \/ Swap(a, b)
UseNext ==
  \/ \E q \in Queues, i \in Ids : EnqueueAgain(q, i) \/ EnqueueFirst(q, i)
  \/ \E p \in 1 .. Created : TakeBlock(p) \/ FreeBlock(p)
TokenNext ==
  \/ \E k \in Tokens, q \in Queues : CreateToken(k, q)
  \/ \E k, other \in Tokens : MoveToken(k, other) \/ SwapTokens(k, other)
  \/ \E k \in Tokens : DestroyToken(k)

Next == ObjectNext \/ UseNext \/ TokenNext

Spec == Init /\ [][Next]_vars

------------------------------------------------------------------------------
(* Properties. *)

\* "When a queue is moved ... they are moved along with the queue itself": a thread finds
\* in a queue the producer it was given by that queue when its contents were elsewhere,
\* in tables that belong to that queue alone and end in its own member.
Homes ==
  \A q \in alive :
    LET chain == Chain(implicitProducerHash[q]) IN
    /\ chain[Len(chain)] = q
    /\ \A i \in Ids : FoundIn(q, i) = registered[contents[q]][i]
    /\ \A a \in alive \ {q} :
         TablesFrom(implicitProducerHash[a]) \cap TablesFrom(implicitProducerHash[q]) = {}

\* A producer gives blocks to, and takes them from, the queue that lists it.
Parents ==
  \A p \in 1 .. Created :
    IF parent[p] = Null THEN \A q \in alive : p \notin ListOf(q)
    ELSE parent[p] \in alive /\ p \in ListOf(parent[p])
           /\ \A q \in alive \ {parent[p]} : p \notin ListOf(q)

\* Tokens and producers point to each other; a valid token's producer is not up for
\* recycling and its queue is alive.
TokensKnown ==
  /\ \A k \in Tokens : producer[k] \notin {Null, NoObject} =>
       token[producer[k]] = k /\ parent[producer[k]] # Null /\ producer[k] \notin inactive
  /\ \A p \in 1 .. Created : token[p] # Null => producer[token[p]] = p

\* A block of the initial pool outlives neither the pool nor its use by one producer.
BlocksHome ==
  LET Pool(q) == member[q].initialBlockPool
      Held == {p \in 1 .. Created : blocks[p] # {}}
  IN  /\ \A q \in alive : \A b \in member[q].freeList : b[1] = Pool(q)
      /\ \A p \in Held : \A b \in blocks[p] :
           /\ b[1] = Pool(parent[p]) /\ b \notin member[parent[p]].freeList
           /\ \A o \in Held \ {p} : b \notin blocks[o]
      /\ \A q, a \in alive : q # a /\ Pool(q) = Pool(a) => Pool(q) = Null

MovesSound == alive \subseteq Queues /\ Homes /\ Parents /\ TokensKnown /\ BlocksHome
==============================================================================
