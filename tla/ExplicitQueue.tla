--------------------------- MODULE ExplicitQueue ---------------------------
(***************************************************************************)
(* ConcurrentQueue::ExplicitProducer of utility/concurrentqueue.h: the     *)
(* sub-queue of one producer token.  The producer fills a ring of blocks   *)
(* and keeps a circular index of them; any number of consumers claim       *)
(* elements by counting, optimistically at first, and find them through    *)
(* the index.                                                              *)
(*                                                                         *)
(* One access to memory that the other side writes is one step.  Memory is *)
(* sequentially consistent here.                                           *)
(***************************************************************************)
EXTENDS Subqueue

CONSTANTS
  Blocks,          \* the blocks requisition_block() can come by, numbered from 1
  InitialIndex,    \* EXPLICIT_INITIAL_INDEX_SIZE
  MaxCount,        \* a bound: the longest bulk
  Obstinate        \* does the producer go on after an undone bulk

VARIABLES
  tailBlock, next, emptyFlags, elements,   \* the ring of blocks; 0 is the null pointer
  headers,                                 \* block indices; blockIndex points to the last
  slotsUsed, indexFront,                   \* pr_blockIndexSlotsUsed, pr_blockIndexFront
  free,                                    \* blocks nobody has
  throws,                                  \* may T's constructor and assignment throw
  ppc, pr,                                 \* the producer's step and registers
  alive,                                   \* not destroyed
  leftover, misplaced                      \* traces of failures, see ExplicitSound

ring == <<tailBlock, next, emptyFlags, elements, free>>
index == <<headers, slotsUsed, indexFront>>
ghosts == <<alive, leftover, misplaced>>
others == <<ring, index, throws, ppc, pr, ghosts>>
vars == <<subqueue, others>>

Header == headers[Len(headers)]
IndexSize == Header.size
Slot(i) == i % IndexSize

IsEmpty(b) == emptyFlags[b] = Offsets
NextIsEmpty == tailBlock # 0 /\ IsEmpty(next[tailBlock])

NoEntry == [base |-> 0, block |-> 0]
NewHeader(size, front, filled) ==
  [size |-> size, front |-> front,
   entries |-> [i \in 0 .. size - 1 |-> IF i < Len(filled) THEN filled[i + 1] ELSE NoEntry]]

Init ==
  /\ InitSubqueue
  /\ tailBlock = 0
  /\ next = [b \in Blocks |-> 0]
  /\ emptyFlags = [b \in Blocks |-> {}]
  /\ elements = [b \in Blocks |-> [i \in Offsets |-> Raw]]
  /\ headers = <<NewHeader(InitialIndex, -1, <<>>)>>
  /\ slotsUsed = 0 /\ indexFront = 0
  /\ free = Blocks
  /\ throws \in BOOLEAN
  /\ ppc = "idle" /\ pr = <<>>
  /\ alive = TRUE
  /\ leftover = {} /\ misplaced = FALSE

------------------------------------------------------------------------------
(* What enqueue() and enqueue_bulk() are made of. *)

Return == ppc' = "idle" /\ pr' = <<>>

\* Mutant: a full ring of entries is copied from its first slot on.
GrowIndexInPlace(exposed) ==
  /\ headers' = Append(headers, NewHeader(2 * IndexSize, exposed - 1,
                 [k \in 1 .. slotsUsed |-> Header.entries[k - 1]]))
  /\ indexFront' = slotsUsed

\* new_block_index(): twice the size, the entries in use moved to its beginning.
GrowIndex(exposed) ==
  LET used == [k \in 1 .. slotsUsed |->
                 Header.entries[Slot(indexFront - slotsUsed + k - 1)]]
  IN  /\ headers' = Append(headers, NewHeader(2 * IndexSize, exposed - 1, used))
      /\ indexFront' = slotsUsed

IndexFull == slotsUsed = IndexSize

\* A block is linked behind the tail block and becomes the tail block.
LinkBlock(b) ==
  /\ next' = IF tailBlock = 0 THEN [next EXCEPT ![b] = b]
             ELSE [next EXCEPT ![b] = next[tailBlock], ![tailBlock] = b]
  /\ tailBlock' = b
  /\ free' = free \ {b}

\* The entry of the tail block in header h, without showing it to the consumers.
WithEntry(h, front, base, b) ==
  [h EXCEPT !.entries[front % h.size] = [base |-> base, block |-> b]]
ReplaceHeader(h) == headers' = [headers EXCEPT ![Len(headers)] = h]

------------------------------------------------------------------------------
(* enqueue() *)

\* MaxElements bounds the run; a producer that is not Obstinate stops after an undone
\* bulk that left the index out of order.
MayEnqueue(count) ==
  /\ alive /\ ppc = "idle" /\ sent + count <= MaxElements
  /\ misplaced => Obstinate

\* In a block that was just begun the element comes before or after the index
\* entry, depending on whether its constructor may throw.
FirstStep == IF throws THEN "construct" ELSE "index"

Enqueue(canAlloc) ==
  /\ MayEnqueue(1)
  /\ pr' = [count |-> 1, canAlloc |-> canAlloc, new |-> Offset(tailIndex) = 0,
            start |-> tailBlock, slots |-> slotsUsed]
  /\ IF Offset(tailIndex) # 0
     THEN ppc' = "construct" /\ UNCHANGED <<tailBlock, emptyFlags>>
     ELSE IF NextIsEmpty
     THEN /\ ppc' = FirstStep
          /\ tailBlock' = next[tailBlock]
          /\ emptyFlags' = [emptyFlags EXCEPT ![tailBlock'] = {}]
     ELSE ppc' = "leeway" /\ UNCHANGED <<tailBlock, emptyFlags>>
  /\ UNCHANGED <<subqueue, next, elements, free, index, throws, ghosts>>

\* No room without a block: too full, no memory for the index, or none for a block.
EnqueueFails ==
  /\ ppc = "leeway"
  /\ \/ UNCHANGED index
     \/ /\ ~Full(tailIndex) /\ IndexFull /\ pr.canAlloc
        /\ GrowIndex(slotsUsed)
        /\ UNCHANGED slotsUsed
  /\ Return
  /\ UNCHANGED <<subqueue, ring, throws, ghosts>>

NewBlock ==
  /\ ppc = "leeway" /\ ~Full(tailIndex)
  /\ \/ ~IndexFull /\ UNCHANGED <<headers, indexFront>>
     \/ IndexFull /\ pr.canAlloc /\ GrowIndex(slotsUsed)
  /\ free # {}
  /\ LinkBlock(Min(free))
  /\ emptyFlags' = [emptyFlags EXCEPT ![tailBlock'] = {}]
  /\ slotsUsed' = slotsUsed + 1
  /\ ppc' = FirstStep
  /\ UNCHANGED <<subqueue, elements, throws, pr, ghosts>>

\* The block's index entry, and the front that shows it.
PublishEntry ==
  /\ ppc = "index" /\ pr.count = 1
  /\ ReplaceHeader([WithEntry(Header, indexFront, tailIndex, tailBlock) EXCEPT
                      !.front = indexFront])
  /\ indexFront' = Slot(indexFront + 1)
  /\ ppc' = IF throws THEN "tail" ELSE "construct"
  /\ UNCHANGED <<subqueue, ring, slotsUsed, throws, pr, ghosts>>

Construct ==
  /\ ppc = "construct"
  /\ elements' = [elements EXCEPT ![tailBlock][Offset(tailIndex)] = sent + 1]
  /\ ppc' = IF throws /\ pr.new THEN "index" ELSE "tail"
  /\ UNCHANGED <<subqueue, tailBlock, next, emptyFlags, free, index, throws, pr, ghosts>>

\* "Revert change to the current block, but leave the new block available for next time."
ConstructorThrows ==
  /\ ppc = "construct" /\ throws
  /\ IF pr.new
     THEN /\ slotsUsed' = pr.slots
          /\ tailBlock' = IF pr.start = 0 THEN tailBlock ELSE pr.start
          /\ leftover' = leftover \union {tailBlock}
     ELSE UNCHANGED <<slotsUsed, tailBlock, leftover>>
  /\ Return
  /\ UNCHANGED <<subqueue, next, emptyFlags, elements, free, headers, indexFront, throws,
                 alive, misplaced>>

StoreTail ==
  /\ ppc = "tail"
  /\ tailIndex' = Plus(tailIndex, pr.count)
  /\ sent' = sent + pr.count
  /\ Return
  /\ UNCHANGED <<headIndex, dequeueOptimisticCount, dequeueOvercommit, consumers, claimed,
                 ring, index, throws, ghosts>>

------------------------------------------------------------------------------
(* enqueue_bulk() *)

EnqueueBulk(canAlloc, count) ==
  /\ MayEnqueue(count)
  /\ pr' = [count |-> count, canAlloc |-> canAlloc, start |-> tailBlock,
            slots |-> slotsUsed, front |-> indexFront, first |-> 0, pool |-> FALSE,
            at |-> BlockBefore(tailIndex),
            left |-> Distance(BlockBefore(tailIndex), Base(Plus(tailIndex, count - 1)))]
  /\ ppc' = IF pr'.left = 0 THEN "fill" ELSE "blocks"
  /\ UNCHANGED <<subqueue, ring, index, throws, ghosts>>

\* One block further, with its entry in the index, which nobody sees yet.
NextEntry(h, front, b) ==
  /\ pr' = [pr EXCEPT !.at = Plus(@, BlockSize), !.left = @ - BlockSize,
                      !.first = IF @ = 0 THEN b ELSE @, !.pool = b \in free]
  /\ ReplaceHeader(WithEntry(h, front, pr'.at, b))
  /\ indexFront' = (front + 1) % h.size

Reusable == ~pr.pool /\ NextIsEmpty /\ next[tailBlock] # pr.first

\* "Allocate as many blocks as possible from ahead."
ReuseBlock ==
  /\ ppc = "blocks" /\ pr.left > 0 /\ Reusable
  /\ NextEntry(Header, indexFront, next[tailBlock])
  /\ tailBlock' = next[tailBlock]
  /\ UNCHANGED <<subqueue, next, emptyFlags, elements, free, slotsUsed, throws, ppc,
                 ghosts>>

\* "Now allocate as many blocks as necessary from the block pool."
AllocateBlock ==
  /\ ppc = "blocks" /\ pr.left > 0 /\ ~Reusable /\ ~IndexFull
  /\ ~Full(Plus(pr.at, BlockSize)) /\ free # {}
  /\ LinkBlock(Min(free))
  /\ emptyFlags' = [emptyFlags EXCEPT ![tailBlock'] = Offsets]
  /\ NextEntry(Header, indexFront, tailBlock')
  /\ slotsUsed' = slotsUsed + 1
  /\ UNCHANGED <<subqueue, elements, throws, ppc, ghosts>>

\* The index is full on the way: it grows, and the bulk falls back to its new front.
GrowForBulk ==
  /\ ppc = "blocks" /\ pr.left > 0 /\ ~Reusable /\ IndexFull /\ pr.canAlloc
  /\ ~Full(Plus(pr.at, BlockSize))
  /\ GrowIndex(pr.slots)
  /\ pr' = [pr EXCEPT !.front = pr.slots, !.pool = TRUE]
  /\ UNCHANGED <<subqueue, ring, slotsUsed, throws, ppc, ghosts>>

\* "Undo changes (but keep injected blocks)."  If blocks had been begun, the index is
\* misplaced: their entries have overwritten the oldest ones, or a new index has moved
\* them in front of its fallback, and slotsUsed does not count the injected blocks.
Undo ==
  /\ misplaced' = (misplaced \/ pr.first # 0)
  /\ indexFront' = pr.front
  /\ slotsUsed' = pr.slots
  /\ tailBlock' = IF pr.start = 0 THEN pr.first ELSE pr.start
  /\ Return

BulkFails ==
  /\ ppc = "blocks" /\ pr.left > 0 /\ ~Reusable
  /\ Undo
  /\ UNCHANGED <<subqueue, next, emptyFlags, elements, free, headers, throws, alive,
                 leftover>>

\* The blocks in the ring from b on, up to the tail block.
Stretch(b) ==
  LET Up[n \in 0 .. Cardinality(Blocks)] ==
        IF n = 0 THEN {b}
        ELSE Up[n - 1] \union {next[x] : x \in Up[n - 1] \ {tailBlock}}
  IN  IF b = 0 THEN {} ELSE Up[Cardinality(Blocks)]

ShowBlocks == ReplaceHeader([Header EXCEPT !.front = Slot(indexFront - 1)])

BlocksReady ==
  /\ ppc = "blocks" /\ pr.left = 0
  /\ emptyFlags' = [b \in Blocks |-> IF b \in Stretch(pr.first) THEN {} ELSE emptyFlags[b]]
  /\ IF throws THEN UNCHANGED headers ELSE ShowBlocks
  /\ ppc' = "fill"
  /\ UNCHANGED <<subqueue, tailBlock, next, elements, free, slotsUsed, indexFront, throws,
                 pr, ghosts>>

\* The block of the element that comes n after the first.
BulkBlock(n) ==
  LET Walk[k \in 0 .. MaxCount] ==
        IF k > 0 THEN next[Walk[k - 1]]
        ELSE IF Offset(tailIndex) = 0 /\ pr.first # 0 THEN pr.first ELSE pr.start
  IN  Walk[(Offset(tailIndex) + n) \div BlockSize]

Fill ==
  /\ ppc = "fill"
  /\ LET at == [n \in 0 .. pr.count - 1 |-> <<BulkBlock(n), Offset(tailIndex + n)>>]
     IN  elements' = [b \in Blocks |-> [i \in Offsets |->
           IF \E n \in DOMAIN at : at[n] = <<b, i>>
           THEN sent + 1 + CHOOSE n \in DOMAIN at : at[n] = <<b, i>>
           ELSE elements[b][i]]]
  /\ ppc' = IF throws /\ pr.first # 0 THEN "show" ELSE "tail"
  /\ UNCHANGED <<subqueue, tailBlock, next, emptyFlags, free, index, throws, pr, ghosts>>

\* A constructor throws: what was constructed is destroyed again, and the operation
\* reverted.
FillThrows ==
  /\ ppc = "fill" /\ throws
  /\ Undo
  /\ leftover' = leftover \union Stretch(pr.first)
  /\ UNCHANGED <<subqueue, next, emptyFlags, elements, free, headers, throws, alive>>

ShowAfterFill ==
  /\ ppc = "show"
  /\ ShowBlocks
  /\ ppc' = "tail"
  /\ UNCHANGED <<subqueue, ring, slotsUsed, indexFront, throws, pr, ghosts>>

------------------------------------------------------------------------------
(* dequeue() and dequeue_bulk(), after the claim. *)

ReadBlockIndex(c) ==
  /\ cpc[c] = "header"
  /\ Goto(c, "entry", [cr[c] EXCEPT !.header = Len(headers)])
  /\ UNCHANGED <<counters, sent, claimed, ring, index, throws, ppc, pr, ghosts>>

\* The front's entry has the base of its block; the element's block is as many
\* entries away.  The division is unsigned, which the power of two makes up for.
ReadFront(c) ==
  LET h == headers[cr[c].header]
      away == Distance(h.entries[h.front].base, Base(cr[c].at)) \div BlockSize
  IN  /\ cpc[c] = "entry"
      /\ Goto(c, "move", [cr[c] EXCEPT !.place = (h.front + away) % h.size])
      /\ UNCHANGED <<counters, sent, claimed, ring, index, throws, ppc, pr, ghosts>>

BlockOf(c) == headers[cr[c].header].entries[cr[c].place].block

\* The elements in one block are moved out and destroyed; if an assignment throws,
\* they and the rest are destroyed all the same.
Move(c) ==
  /\ cpc[c] = "move"
  /\ elements' = [elements EXCEPT ![BlockOf(c)] =
                    [i \in Offsets |-> IF i \in OffsetsOf(cr[c]) THEN Raw ELSE @[i]]]
  /\ cpc' = [cpc EXCEPT ![c] = "flags"]
  /\ UNCHANGED <<counters, sent, claimed, tailBlock, next, emptyFlags, free, index, throws,
                 ppc, pr, cr, ghosts>>

SetEmpty(c) ==
  /\ cpc[c] = "flags"
  /\ emptyFlags' = [emptyFlags EXCEPT ![BlockOf(c)] = @ \union OffsetsOf(cr[c])]
  /\ IF cr[c].left = InBlock(cr[c]) THEN Fail(c)
     ELSE Goto(c, "move",
               [NextInBulk(cr[c]) EXCEPT !.place = (@ + 1) % headers[cr[c].header].size])
  /\ UNCHANGED <<counters, sent, claimed, tailBlock, next, elements, free, index, throws,
                 ppc, pr, ghosts>>

------------------------------------------------------------------------------
(* The destructor. *)

RingBlocks == IF tailBlock = 0 THEN {} ELSE Stretch(next[tailBlock])

\* The block in which the head is, unless that is at a boundary.
HalfDequeued ==
  LET oldest == indexFront - slotsUsed
      Passed(k) == CircularLess(Plus(Header.entries[Slot(oldest + k)].base, BlockSize), headIndex)
  IN  IF Offset(headIndex) = 0 THEN 0
      ELSE Header.entries[Slot(oldest + Min({k \in 0 .. IndexSize - 1 : ~Passed(k)}))].block

\* What the destructor takes for elements of block b.
Remaining(b) ==
  IF IsEmpty(b) THEN {}
  ELSE {i \in Offsets :
          /\ b = HalfDequeued => i >= Offset(headIndex)
          /\ b = tailBlock /\ Offset(tailIndex) # 0 => i < Offset(tailIndex)}

AtRest == ppc = "idle" /\ \A c \in Consumers : cpc[c] = "idle"

Destroy ==
  /\ alive /\ AtRest
  /\ elements' = [b \in Blocks |-> [i \in Offsets |->
                    IF b \in RingBlocks /\ i \in Remaining(b) THEN Raw ELSE elements[b][i]]]
  /\ free' = free \union RingBlocks
  /\ alive' = FALSE
  /\ UNCHANGED <<subqueue, tailBlock, next, emptyFlags, index, throws, ppc, pr, leftover,
                 misplaced>>

------------------------------------------------------------------------------
ProducerNext ==
  \/ \E canAlloc \in BOOLEAN : Enqueue(canAlloc)
  \/ EnqueueFails \/ NewBlock \/ PublishEntry \/ Construct \/ ConstructorThrows \/ StoreTail
  \/ \E canAlloc \in BOOLEAN, count \in 1 .. MaxCount : EnqueueBulk(canAlloc, count)
  \/ ReuseBlock \/ AllocateBlock \/ GrowForBulk \/ BulkFails \/ BlocksReady
  \/ Fill \/ FillThrows \/ ShowAfterFill

ConsumerNext(c) ==
  \/ alive /\ BeginDequeue(c) /\ UNCHANGED others
  \/ Claiming(c) /\ UNCHANGED others
  \/ ReadBlockIndex(c) \/ ReadFront(c) \/ Move(c) \/ SetEmpty(c)

Next == ProducerNext \/ (\E c \in Consumers : ConsumerNext(c)) \/ Destroy

Spec == Init /\ [][Next]_vars

------------------------------------------------------------------------------
(* Properties. *)

TypeOK ==
  /\ tailBlock \in Blocks \union {0} /\ free \subseteq Blocks
  /\ emptyFlags \in [Blocks -> SUBSET Offsets]

\* The assertion of set_empty() and set_many_empty(), and that of new elements'
\* slots: nobody declares a slot empty twice or constructs over an element.
SlotsTurnOver ==
  /\ \A c \in Consumers : cpc[c] = "flags" => OffsetsOf(cr[c]) \cap emptyFlags[BlockOf(c)] = {}
  /\ ppc = "construct" => elements[tailBlock][Offset(tailIndex)] = Raw
  /\ ppc = "fill" => \A n \in 0 .. pr.count - 1 :
                        elements[BulkBlock(n)][Offset(tailIndex + n)] = Raw

\* At rest and with the index in place, the destructor would destroy the elements there
\* are and nothing else, and every block without elements could be used again, except
\* for leftovers: blocks that had been made ready when a constructor threw.
DestructorExact ==
  AtRest /\ alive /\ ~misplaced =>
    \A b \in RingBlocks \ leftover :
      /\ Remaining(b) = {i \in Offsets : elements[b][i] # Raw}
      /\ Remaining(b) = {} => IsEmpty(b) \/ b = tailBlock

ExplicitSound == TypeOK /\ CountersAgree /\ SlotsTurnOver /\ DestructorExact

\* Elements come out in the order they went in, each once: whatever consumer claims
\* the nth finds it through the index, in spite of growth, reuse and wrapping.
ExplicitInOrder ==
  \A c \in Consumers : cpc[c] = "move" =>
    \A k \in 0 .. InBlock(cr[c]) - 1 :
      elements[BlockOf(c)][Offset(cr[c].at) + k] = cr[c].value + k
==============================================================================
