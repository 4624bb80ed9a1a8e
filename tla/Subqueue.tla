------------------------------ MODULE Subqueue ------------------------------
(***************************************************************************)
(* ConcurrentQueue::ProducerBase of utility/concurrentqueue.h, and the     *)
(* part of dequeue() and dequeue_bulk() that its two kinds share.  A       *)
(* consumer counts elements optimistically, reads the tail again, gives    *)
(* back what it counted too much, and claims the rest by advancing the     *)
(* head.  The element indices are unsigned counters that wrap; their low   *)
(* bits are an offset into a block.                                        *)
(***************************************************************************)
EXTENDS Sequences, FiniteSetsExt, Integers

CONSTANTS
  Consumers,
  IndexMod,     \* index_t is an unsigned integer modulo IndexMod
  BlockSize,    \* BLOCK_SIZE
  MaxSubqueue,  \* MAX_SUBQUEUE_SIZE
  BulkCounts,   \* the maxima dequeue_bulk() is called with
  MaxElements   \* a bound: elements enqueued altogether

VARIABLES
  tailIndex, headIndex, dequeueOptimisticCount, dequeueOvercommit,
  cpc, cr,           \* the consumers' steps and registers
  sent, claimed      \* elements enqueued and claimed so far

counters == <<tailIndex, headIndex, dequeueOptimisticCount, dequeueOvercommit>>
consumers == <<cpc, cr>>
subqueue == <<counters, consumers, sent, claimed>>

Indices == 0 .. IndexMod - 1
Offsets == 0 .. BlockSize - 1
Raw == 0                              \* no object lives in the slot

Offset(i) == i % BlockSize
Base(i) == i - Offset(i)
Plus(i, n) == (i + n) % IndexMod
Distance(i, j) == (j - i) % IndexMod

\* details::circular_less_than(): the difference is negative.
CircularLess(i, j) == Distance(j, i) > IndexMod \div 2

InitSubqueue ==
  /\ tailIndex = 0 /\ headIndex = 0
  /\ dequeueOptimisticCount = 0 /\ dequeueOvercommit = 0
  /\ cpc = [c \in Consumers |-> "idle"] /\ cr = [c \in Consumers |-> <<>>]
  /\ sent = 0 /\ claimed = 0

\* There is not enough leeway for a block at index i.
Full(i) ==
  \/ ~CircularLess(headIndex, Plus(i, BlockSize))
  \/ MaxSubqueue - BlockSize < Distance(headIndex, i)

BlockBefore(i) == Base(Plus(i, -1))

------------------------------------------------------------------------------
Goto(c, step, registers) ==
  cpc' = [cpc EXCEPT ![c] = step] /\ cr' = [cr EXCEPT ![c] = registers]
Fail(c) == Goto(c, "idle", <<>>)

\* dequeue() is a dequeue_bulk() of one at most.
Begin(c, max) ==
  /\ cpc[c] = "idle"
  /\ Goto(c, "overcommit", [max |-> max, tail |-> tailIndex])
  /\ UNCHANGED <<counters, sent, claimed>>

Dequeue(c) == Begin(c, 1)
DequeueBulk(c, max) == Begin(c, max)

ReadOvercommit(c) ==
  /\ cpc[c] = "overcommit"
  /\ Goto(c, "optimistic", [max |-> cr[c].max, tail |-> cr[c].tail, over |-> dequeueOvercommit])
  /\ UNCHANGED <<counters, sent, claimed>>

\* How many elements there may be for a consumer with dequeue number n.
Available(n, over, tail) == Distance(Plus(n, -over), tail)

ReadOptimistic(c) ==
  LET r == cr[c]
      some == Available(dequeueOptimisticCount, r.over, r.tail)
  IN  /\ cpc[c] = "optimistic"
      /\ IF CircularLess(0, some)
         THEN Goto(c, "count", [desired |-> Min({some, r.max}), over |-> r.over])
         ELSE Fail(c)
      /\ UNCHANGED <<counters, sent, claimed>>

Count(c) ==
  /\ cpc[c] = "count"
  /\ dequeueOptimisticCount' = Plus(dequeueOptimisticCount, cr[c].desired)
  /\ Goto(c, "tail", [desired |-> cr[c].desired, over |-> cr[c].over,
                      mine |-> dequeueOptimisticCount])
  /\ UNCHANGED <<tailIndex, headIndex, dequeueOvercommit, sent, claimed>>

\* With the tail of now: how many elements of those counted there are.
ReadTail(c) ==
  LET r == cr[c]
      some == Available(r.mine, r.over, tailIndex)
      actual == IF CircularLess(0, some) THEN Min({some, r.desired}) ELSE 0
  IN  /\ cpc[c] = "tail"
      /\ Goto(c, IF CircularLess(0, some) /\ actual = r.desired THEN "head" ELSE "give back",
              [back |-> r.desired - actual, left |-> actual])
      /\ UNCHANGED <<counters, sent, claimed>>

\* Mutant: what was counted too much is forgotten.
GiveBackNothing(c) ==
  /\ cpc[c] = "give back"
  /\ IF cr[c].left = 0 THEN Fail(c) ELSE Goto(c, "head", [cr[c] EXCEPT !.back = 0])
  /\ UNCHANGED <<counters, sent, claimed>>

GiveBack(c) ==
  /\ cpc[c] = "give back"
  /\ dequeueOvercommit' = Plus(dequeueOvercommit, cr[c].back)
  /\ IF cr[c].left = 0 THEN Fail(c) ELSE Goto(c, "head", [cr[c] EXCEPT !.back = 0])
  /\ UNCHANGED <<tailIndex, headIndex, dequeueOptimisticCount, sent, claimed>>

Claim(c) ==
  /\ cpc[c] = "head"
  /\ headIndex' = Plus(headIndex, cr[c].left)
  /\ claimed' = claimed + cr[c].left
  /\ Goto(c, "header", [at |-> headIndex, left |-> cr[c].left, value |-> claimed + 1,
                        header |-> 0, place |-> 0, block |-> 0])
  /\ UNCHANGED <<tailIndex, dequeueOptimisticCount, dequeueOvercommit, sent>>

\* Up to the claim, after which the two kinds of producer differ.
BeginDequeue(c) == Dequeue(c) \/ \E max \in BulkCounts : DequeueBulk(c, max)
Claiming(c) ==
  \/ ReadOvercommit(c) \/ ReadOptimistic(c) \/ Count(c) \/ ReadTail(c) \/ GiveBack(c)
  \/ Claim(c)

\* The elements that a consumer at index r.at takes from that block.
InBlock(r) == Min({r.left, BlockSize - Offset(r.at)})
OffsetsOf(r) == Offset(r.at) .. Offset(r.at) + InBlock(r) - 1
NextInBulk(r) ==
  [r EXCEPT !.at = Plus(@, InBlock(r)), !.left = @ - InBlock(r), !.value = @ + InBlock(r)]

------------------------------------------------------------------------------
\* The dequeues a consumer has counted and neither turned into a claim nor given back.
Outstanding(c) ==
  CASE cpc[c] = "tail" -> cr[c].desired
    [] cpc[c] \in {"give back", "head"} -> cr[c].back + cr[c].left
    [] OTHER -> 0

\* The four counters agree, around the wrap too: what was counted optimistically and
\* not given back has been claimed or is about to be, and no claim passes the tail.
CountersAgree ==
  /\ {tailIndex, headIndex, dequeueOptimisticCount, dequeueOvercommit} \subseteq Indices
  /\ claimed \in 0 .. sent /\ sent \in 0 .. MaxElements
  /\ Available(dequeueOptimisticCount, dequeueOvercommit, headIndex)
       = Distance(MapThenSumSet(Outstanding, Consumers), 0)
  /\ Distance(headIndex, tailIndex) = sent - claimed
==============================================================================
