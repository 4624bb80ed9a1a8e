--------------------------- MODULE ImplicitQueue ---------------------------
(***************************************************************************)
(* ConcurrentQueue::ImplicitProducer of utility/concurrentqueue.h: the     *)
(* sub-queue of a thread that enqueues without a token.  Blocks come from  *)
(* the parent's pool, one for every BlockSize elements, and the consumer   *)
(* that empties a block gives it back.  The block index maps the base of a *)
(* block to the block; when it is full it is replaced by one of twice the  *)
(* size, which shares the old entries.                                     *)
(*                                                                         *)
(* One access to memory that the other side writes is one step.  Memory is *)
(* sequentially consistent here.                                           *)
(***************************************************************************)
EXTENDS Subqueue

CONSTANTS
  Blocks,          \* the blocks of the pool, numbered from 1
  InitialIndex,    \* IMPLICIT_INITIAL_INDEX_SIZE, a power of two
  MaxCount         \* a bound: the longest bulk

VARIABLES
  tailBlock, next, dequeued, elements,   \* blocks: their chain, their counters, their slots
  entries,           \* BlockIndexEntry: key and value
  headers,           \* block indices: which entries they list, and their tail
  pool,              \* how many times each block is in the pool
  throws,            \* may T's constructor and assignment throw
  ppc, pr,           \* the producer's step and registers
  alive              \* not destroyed

blocks == <<tailBlock, next, dequeued, elements>>
index == <<entries, headers>>
others == <<blocks, index, pool, throws, ppc, pr, alive>>
vars == <<subqueue, others>>

Null == 0
Unwritten == -1               \* what an atomic holds that was never given a value
INVALID_BLOCK_BASE == 1

Header == headers[Len(headers)]
Capacity(h) == Len(h.index)
EntryAt(h, k) == h.index[(k % Capacity(h)) + 1]
NewEntry == [key |-> INVALID_BLOCK_BASE, value |-> Unwritten]

\* The constructor may fail to allocate the index; then every enqueue fails.
Init ==
  /\ InitSubqueue
  /\ tailBlock = Null
  /\ next = [b \in Blocks |-> Null]
  /\ dequeued = [b \in Blocks |-> 0]
  /\ elements = [b \in Blocks |-> [i \in Offsets |-> Raw]]
  /\ \/ headers = <<[index |-> [k \in 1 .. InitialIndex |-> k], tail |-> InitialIndex - 1]>>
     \/ headers = <<>>
  /\ entries = [k \in 1 .. InitialIndex |-> NewEntry]
  /\ pool = [b \in Blocks |-> 1]
  /\ throws \in BOOLEAN
  /\ ppc = "idle" /\ pr = <<>>
  /\ alive = TRUE

------------------------------------------------------------------------------
(* The block index, from the producer's side. *)

SetTail(t) == headers' = [headers EXCEPT ![Len(headers)].tail = t % Capacity(Header)]
NextEntry == EntryAt(Header, Header.tail + 1)
Usable(e) == entries[e].key = INVALID_BLOCK_BASE \/ entries[e].value = Null

\* get_block_index_index_for_index(): the entry is as many places before the tail as
\* the bases are blocks apart.  The division is unsigned; the power of two makes up.
PlaceOf(h, t, tailBase, i) == (t + Distance(tailBase, Base(i)) \div BlockSize) % Capacity(h)
OwnEntry(i) ==
  EntryAt(Header, PlaceOf(Header, Header.tail, entries[EntryAt(Header, Header.tail)].key, i))

\* new_block_index(): the old entries, the oldest first, then as many new ones.
GrowIndex ==
  LET n == Capacity(Header)
      old == [k \in 1 .. n |-> EntryAt(Header, Header.tail + k)]
      new == [k \in 1 .. n |-> Len(entries) + k]
  IN  /\ headers' = Append(headers, [index |-> old \o new, tail |-> n - 1])
      /\ entries' = entries \o [k \in 1 .. n |-> NewEntry]

------------------------------------------------------------------------------
(* enqueue() and enqueue_bulk(). *)

Return == ppc' = "idle" /\ pr' = <<>>
MayEnqueue(count) == alive /\ ppc = "idle" /\ sent + count <= MaxElements

\* enqueue() in the middle of a block.
EnqueueInBlock ==
  /\ MayEnqueue(1) /\ Offset(tailIndex) # 0
  /\ pr' = [bulk |-> FALSE, count |-> 1, chain |-> <<>>]
  /\ ppc' = "construct"
  /\ UNCHANGED <<subqueue, blocks, index, pool, throws, alive>>

\* Blocks are needed for the bases from pr.at on, left of them altogether.
BeginBlocks(bulk, canAlloc, count) ==
  LET left == Distance(BlockBefore(tailIndex), Base(Plus(tailIndex, count - 1)))
  IN  /\ pr' = [bulk |-> bulk, count |-> count, canAlloc |-> canAlloc,
                at |-> BlockBefore(tailIndex), left |-> left \div BlockSize,
                start |-> tailBlock, entry |-> 0, chain |-> <<>>, undone |-> 0]
      /\ ppc' = IF left = 0 THEN "fill" ELSE "leeway"
      /\ UNCHANGED <<subqueue, blocks, index, pool, throws, alive>>

EnqueueAtBoundary(canAlloc) ==
  MayEnqueue(1) /\ Offset(tailIndex) = 0 /\ BeginBlocks(FALSE, canAlloc, 1)
EnqueueBulk(canAlloc, count) == MayEnqueue(count) /\ BeginBlocks(TRUE, canAlloc, count)

ProducerKeeps == <<subqueue, pool, throws, alive>>

\* No leeway: the blocks begun before in a bulk are given back one by one.
GiveUp == ppc' = "revert" /\ pr' = [pr EXCEPT !.at = BlockBefore(tailIndex)]

Leeway ==
  /\ ppc = "leeway"
  /\ IF Full(Plus(pr.at, BlockSize)) \/ headers = <<>> THEN GiveUp
     ELSE ppc' = "insert" /\ UNCHANGED pr
  /\ UNCHANGED <<ProducerKeeps, blocks, index>>

\* insert_block_index_entry(): the key goes into the entry behind the tail if that
\* one is free; then the tail shows it.
InsertEntry ==
  /\ ppc = "insert" /\ Usable(NextEntry)
  /\ entries' = [entries EXCEPT ![NextEntry].key = Plus(pr.at, BlockSize)]
  /\ pr' = [pr EXCEPT !.entry = NextEntry, !.at = Plus(@, BlockSize)]
  /\ ppc' = "show"
  /\ UNCHANGED <<ProducerKeeps, blocks, headers>>

ShowEntry ==
  /\ ppc = "show"
  /\ SetTail(Header.tail + 1)
  /\ ppc' = "block"
  /\ UNCHANGED <<ProducerKeeps, blocks, entries, pr>>

IndexFull ==
  /\ ppc = "insert" /\ ~Usable(NextEntry)
  /\ \/ pr.canAlloc /\ GrowIndex /\ UNCHANGED <<ppc, pr>>
     \/ GiveUp /\ UNCHANGED index
  /\ UNCHANGED <<ProducerKeeps, blocks>>

\* requisition_block() and reset_empty().
GetBlock ==
  LET b == Min({x \in Blocks : pool[x] > 0}) IN
  /\ ppc = "block" /\ \E x \in Blocks : pool[x] > 0
  /\ pool' = [pool EXCEPT ![b] = @ - 1]
  /\ dequeued' = [dequeued EXCEPT ![b] = 0]
  /\ next' = IF pr.bulk THEN [next EXCEPT ![b] = Null] ELSE next
  /\ pr' = [pr EXCEPT !.chain = Append(@, b)]
  /\ ppc' = IF throws /\ ~pr.bulk THEN "construct" ELSE "value"
  /\ UNCHANGED <<subqueue, tailBlock, elements, index, throws, alive>>

\* rewind_block_index_tail(), and the entry is free again.
Rewind(e) ==
  /\ entries' = [entries EXCEPT ![e].value = Null]
  /\ SetTail(Header.tail + Capacity(Header) - 1)

\* No block: other threads hold them all, or there is no memory.
NoBlock ==
  /\ ppc = "block"
  /\ Rewind(pr.entry)
  /\ GiveUp
  /\ UNCHANGED <<ProducerKeeps, blocks>>

NewBlock == pr.chain[Len(pr.chain)]

\* The entry gets its block, and the block is chained to the one before it.
StoreValue ==
  /\ ppc = "value"
  /\ entries' = [entries EXCEPT ![pr.entry].value = NewBlock]
  /\ next' = IF pr.bulk /\ (Len(pr.chain) > 1 \/ Offset(tailIndex) # 0)
             THEN [next EXCEPT ![tailBlock] = NewBlock] ELSE next
  /\ tailBlock' = NewBlock
  /\ pr' = [pr EXCEPT !.left = @ - 1]
  /\ ppc' = IF pr.left > 1 THEN "leeway"
            ELSE IF pr.bulk THEN "fill"
            ELSE IF throws THEN "tail" ELSE "construct"
  /\ UNCHANGED <<ProducerKeeps, dequeued, elements, headers>>

\* The element of enqueue(): in a block that was just begun, a constructor that may
\* throw is run before the block is published.
Target == IF pr.chain = <<>> THEN tailBlock ELSE NewBlock

Construct ==
  /\ ppc = "construct"
  /\ elements' = [elements EXCEPT ![Target][Offset(tailIndex)] = sent + 1]
  /\ ppc' = IF throws /\ pr.chain # <<>> THEN "value" ELSE "tail"
  /\ UNCHANGED <<ProducerKeeps, tailBlock, next, dequeued, index, pr>>

ConstructorThrows ==
  /\ ppc = "construct" /\ throws
  /\ IF pr.chain = <<>> THEN UNCHANGED <<index, pool>>
     ELSE Rewind(pr.entry) /\ pool' = [pool EXCEPT ![NewBlock] = @ + 1]
  /\ Return
  /\ UNCHANGED <<subqueue, blocks, throws, alive>>

\* The block of the element that comes n after the first, along the chain.
BulkBlock(n) ==
  LET Walk[k \in 0 .. MaxCount] ==
        IF k > 0 THEN next[Walk[k - 1]]
        ELSE IF Offset(tailIndex) = 0 /\ pr.chain # <<>> THEN pr.chain[1] ELSE pr.start
  IN  Walk[(Offset(tailIndex) + n) \div BlockSize]

Fill ==
  /\ ppc = "fill"
  /\ LET at == [n \in 0 .. pr.count - 1 |-> <<BulkBlock(n), Offset(tailIndex + n)>>]
     IN  elements' = [b \in Blocks |-> [i \in Offsets |->
           IF \E n \in DOMAIN at : at[n] = <<b, i>>
           THEN sent + 1 + CHOOSE n \in DOMAIN at : at[n] = <<b, i>>
           ELSE elements[b][i]]]
  /\ tailBlock' = IF pr.chain = <<>> THEN pr.start ELSE NewBlock
  /\ ppc' = "tail"
  /\ UNCHANGED <<ProducerKeeps, next, dequeued, index, pr>>

\* What was constructed is destroyed again, and the operation reverted.
FillThrows ==
  /\ ppc = "fill" /\ throws
  /\ GiveUp
  /\ UNCHANGED <<ProducerKeeps, blocks, index>>

\* The entries of the blocks begun, in the order of their bases: each is looked up,
\* freed, and the tail goes back by one.  Then the blocks go to the pool.
Revert ==
  /\ ppc = "revert" /\ pr.undone < Len(pr.chain)
  /\ Rewind(OwnEntry(Plus(pr.at, BlockSize)))
  /\ pr' = [pr EXCEPT !.at = Plus(@, BlockSize), !.undone = @ + 1]
  /\ UNCHANGED <<ProducerKeeps, blocks, ppc>>

Reverted ==
  /\ ppc = "revert" /\ pr.undone = Len(pr.chain)
  /\ tailBlock' = pr.start
  /\ pool' = [b \in Blocks |-> pool[b] + Cardinality({k \in DOMAIN pr.chain : pr.chain[k] = b})]
  /\ Return
  /\ UNCHANGED <<subqueue, next, dequeued, elements, index, throws, alive>>

StoreTail ==
  /\ ppc = "tail"
  /\ tailIndex' = Plus(tailIndex, pr.count)
  /\ sent' = sent + pr.count
  /\ Return
  /\ UNCHANGED <<headIndex, dequeueOptimisticCount, dequeueOvercommit, consumers, claimed,
                 blocks, index, pool, throws, alive>>

------------------------------------------------------------------------------
(* dequeue() and dequeue_bulk(), after the claim. *)

ConsumerKeeps == <<counters, sent, claimed, tailBlock, next, headers, throws, ppc, pr, alive>>

ReadBlockIndex(c) ==
  /\ cpc[c] = "header"
  /\ Goto(c, "index tail", [cr[c] EXCEPT !.header = Len(headers)])
  /\ UNCHANGED <<counters, sent, claimed, others>>

ReadIndexTail(c) ==
  /\ cpc[c] = "index tail"
  /\ Goto(c, "key", [cr[c] EXCEPT !.place = headers[cr[c].header].tail])
  /\ UNCHANGED <<counters, sent, claimed, others>>

HeaderOf(c) == headers[cr[c].header]
EntryOf(c) == EntryAt(HeaderOf(c), cr[c].place)

ReadTailBase(c) ==
  /\ cpc[c] = "key"
  /\ Goto(c, "value", [cr[c] EXCEPT
        !.place = PlaceOf(HeaderOf(c), @, entries[EntryOf(c)].key, cr[c].at)])
  /\ UNCHANGED <<counters, sent, claimed, others>>

ReadValue(c) ==
  /\ cpc[c] = "value"
  /\ Goto(c, "move", [cr[c] EXCEPT !.block = entries[EntryOf(c)].value])
  /\ UNCHANGED <<counters, sent, claimed, others>>

\* The elements in one block are moved out and destroyed; if an assignment throws,
\* they and the rest are destroyed all the same.
Move(c) ==
  /\ cpc[c] = "move"
  /\ elements' = [elements EXCEPT ![cr[c].block] =
                    [i \in Offsets |-> IF i \in OffsetsOf(cr[c]) THEN Raw ELSE @[i]]]
  /\ cpc' = [cpc EXCEPT ![c] = "counter"]
  /\ UNCHANGED <<ConsumerKeeps, dequeued, entries, pool, cr>>

\* The next block of a bulk is in the next place of the same index.
NextBlockOrEnd(c) ==
  IF cr[c].left = InBlock(cr[c]) THEN Fail(c)
  ELSE Goto(c, "value", [NextInBulk(cr[c]) EXCEPT !.place = @ + 1])

\* set_empty() and set_many_empty(): the consumer that counts the last element frees
\* the block.
CountEmpty(c) ==
  LET b == cr[c].block IN
  /\ cpc[c] = "counter"
  /\ dequeued' = [dequeued EXCEPT ![b] = @ + InBlock(cr[c])]
  /\ IF dequeued'[b] = BlockSize THEN Goto(c, "unmap", cr[c]) ELSE NextBlockOrEnd(c)
  /\ UNCHANGED <<ConsumerKeeps, elements, entries, pool>>

FreeEntry(c) ==
  /\ cpc[c] = "unmap"
  /\ entries' = [entries EXCEPT ![EntryOf(c)].value = Null]
  /\ cpc' = [cpc EXCEPT ![c] = "free"]
  /\ UNCHANGED <<ConsumerKeeps, elements, dequeued, pool, cr>>

FreeBlock(c) ==
  /\ cpc[c] = "free"
  /\ pool' = [pool EXCEPT ![cr[c].block] = @ + 1]
  /\ NextBlockOrEnd(c)
  /\ UNCHANGED <<ConsumerKeeps, elements, dequeued, entries>>

------------------------------------------------------------------------------
(* The destructor. *)

AtRest == ppc = "idle" /\ \A c \in Consumers : cpc[c] = "idle"

\* The undequeued elements, and the block in which the destructor looks for each.
Left == {Plus(headIndex, n) : n \in 0 .. Distance(headIndex, tailIndex) - 1}
FoundIn(i) == entries[OwnEntry(i)].value

\* It frees each such block when it has come to the next one, and the tail block
\* last, unless that was given back when it was full and then emptied.
Freed ==
  LET bases == {Base(i) : i \in Left}
      last == Base(Plus(tailIndex, -1))
  IN  [b \in Blocks |->
         Cardinality({i \in bases \ {last} : FoundIn(i) = b})
           + IF b = tailBlock /\ (Left # {} \/ Offset(tailIndex) # 0) THEN 1 ELSE 0]

Destroy ==
  /\ alive /\ AtRest
  /\ elements' = [b \in Blocks |-> [i \in Offsets |->
                    IF \E x \in Left : Offset(x) = i /\ FoundIn(x) = b THEN Raw
                    ELSE elements[b][i]]]
  /\ pool' = [b \in Blocks |-> pool[b] + Freed[b]]
  /\ alive' = FALSE
  /\ UNCHANGED <<subqueue, tailBlock, next, dequeued, index, throws, ppc, pr>>

------------------------------------------------------------------------------
ProducerNext ==
  \/ EnqueueInBlock
  \/ \E canAlloc \in BOOLEAN : EnqueueAtBoundary(canAlloc)
  \/ \E canAlloc \in BOOLEAN, count \in 1 .. MaxCount : EnqueueBulk(canAlloc, count)
  \/ Leeway \/ InsertEntry \/ ShowEntry \/ IndexFull \/ GetBlock \/ NoBlock \/ StoreValue
  \/ Construct \/ ConstructorThrows \/ Fill \/ FillThrows \/ Revert \/ Reverted \/ StoreTail

ConsumerNext(c) ==
  \/ alive /\ BeginDequeue(c) /\ UNCHANGED others
  \/ Claiming(c) /\ UNCHANGED others
  \/ ReadBlockIndex(c) \/ ReadIndexTail(c) \/ ReadTailBase(c) \/ ReadValue(c)
  \/ Move(c) \/ CountEmpty(c) \/ FreeEntry(c) \/ FreeBlock(c)

Next == ProducerNext \/ (\E c \in Consumers : ConsumerNext(c)) \/ Destroy

Spec == Init /\ [][Next]_vars

------------------------------------------------------------------------------
(* Properties. *)

TypeOK ==
  /\ tailBlock \in Blocks \union {Null} /\ pool \in [Blocks -> 0 .. 1]
  /\ dequeued \in [Blocks -> 0 .. BlockSize]
  /\ \A e \in DOMAIN entries : entries[e].value \in Blocks \union {Null, Unwritten}

\* The assertion of get_block_index_index_for_index(): the place computed from the
\* tail has the key, and a block, for consumers in the middle of a growth, a rewinding
\* or a reuse of entries, and for the producer that reverts a bulk.
EntryFound ==
  /\ \A c \in Consumers : cpc[c] = "value" =>
       entries[EntryOf(c)].key = Base(cr[c].at) /\ entries[EntryOf(c)].value \in Blocks
  /\ ppc = "revert" /\ pr.undone < Len(pr.chain) =>
       LET e == OwnEntry(Plus(pr.at, BlockSize))
       IN  entries[e].key = Plus(pr.at, BlockSize) /\ entries[e].value = pr.chain[pr.undone + 1]

\* "prevVal + count <= BLOCK_SIZE": no slot is declared empty twice, and none is
\* constructed over.
SlotsTurnOver ==
  /\ \A c \in Consumers : cpc[c] = "counter" => dequeued[cr[c].block] + InBlock(cr[c]) <= BlockSize
  /\ ppc = "construct" => elements[Target][Offset(tailIndex)] = Raw
  /\ ppc = "fill" => \A n \in 0 .. pr.count - 1 :
                        elements[BulkBlock(n)][Offset(tailIndex + n)] = Raw

\* A block in the pool holds nothing and is in nobody's hands: in no entry of the
\* index, not in the chain of a bulk.
PoolUnused ==
  alive => \A b \in Blocks : pool[b] > 0 =>
    /\ elements[b] = [i \in Offsets |-> Raw]
    /\ \A e \in DOMAIN entries : entries[e].value = b => entries[e].key = INVALID_BLOCK_BASE
    /\ ppc \in {"construct", "value"} /\ pr.chain # <<>> => b # NewBlock

\* The destructor leaves no element, and every block is in the pool, once.
NothingLost ==
  ~alive => \A b \in Blocks : pool[b] = 1 /\ elements[b] = [i \in Offsets |-> Raw]

ImplicitSound == TypeOK /\ CountersAgree /\ EntryFound /\ SlotsTurnOver /\ PoolUnused /\ NothingLost

\* Elements come out in the order they went in, each once: whatever consumer claims
\* the nth finds it through the index, in spite of growth, reuse and wrapping.
ImplicitInOrder ==
  \A c \in Consumers : cpc[c] = "move" =>
    \A k \in 0 .. InBlock(cr[c]) - 1 :
      elements[cr[c].block][Offset(cr[c].at) + k] = cr[c].value + k
==============================================================================
