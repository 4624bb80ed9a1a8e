------------------------- MODULE ConcurrentQueueMC -------------------------
(***************************************************************************)
(* The parts of the concurrent queue, each in a world of its own: an       *)
(* explicit or an implicit sub-queue with one consumer, which lets the     *)
(* indices wrap, or with two; producers found through a crowded hash       *)
(* table, or used through tokens; queue objects that are moved; two        *)
(* consumers, or one that chooses among three producers.  Worlds share the *)
(* variables they both have; the others stay at Unused.  The block pool is *)
(* in FreelistMC.                                                          *)
(***************************************************************************)
EXTENDS Integers

VARIABLES
  world,
  tailIndex, headIndex, cpc, cr,
  dequeueOptimisticCount, dequeueOvercommit, sent, claimed,
  tailBlock, next, elements, headers, throws, ppc, pr, alive,
  emptyFlags, free, slotsUsed, indexFront, leftover, misplaced,
  dequeued, pool, entries,
  producerList, producerCount, created, explicit, inactive, token, hashes, hashCount,
  resizing, given,
  member, initialEntries, implicitProducerHash, prev, capacity, parent, blocks, producer,
  constructed, contents, registered,
  producerListTail, nextExplicitConsumerId, globalExplicitConsumerOffset, tokens

steps == <<cpc, cr>>
ends == <<tailIndex, headIndex>>
subqueue == <<dequeueOptimisticCount, dequeueOvercommit, sent, claimed, tailBlock, next,
              elements, headers, throws, ppc, pr>>
ofExplicit == <<emptyFlags, free, slotsUsed, indexFront, leftover, misplaced>>
ofImplicit == <<dequeued, pool>>
ofProducers == <<producerList, created, hashes, hashCount, resizing, given>>
ofTokens == <<explicit, inactive, token>>
ofMoves == <<member, initialEntries, implicitProducerHash, prev, capacity, parent,
             blocks, producer, constructed, contents, registered>>
ofConsumers == <<producerListTail, nextExplicitConsumerId, globalExplicitConsumerOffset,
                 tokens>>

\* A variable that a world does not use.
Unused(x) == x = 0

NoSteps == Unused(cpc) /\ Unused(cr)
NoEnds == Unused(tailIndex) /\ Unused(headIndex)
NoSubqueue == Unused(dequeueOptimisticCount) /\ Unused(dequeueOvercommit) /\
              Unused(sent) /\ Unused(claimed) /\ Unused(tailBlock) /\ Unused(next) /\
              Unused(elements) /\ Unused(headers) /\ Unused(throws) /\ Unused(ppc) /\
              Unused(pr)
NoOfExplicit == Unused(emptyFlags) /\ Unused(free) /\ Unused(slotsUsed) /\
                Unused(indexFront) /\ Unused(leftover) /\ Unused(misplaced)
NoOfImplicit == Unused(dequeued) /\ Unused(pool)
NoOfProducers == Unused(producerList) /\ Unused(created) /\ Unused(hashes) /\
                 Unused(hashCount) /\ Unused(resizing) /\ Unused(given)
NoOfTokens == Unused(explicit) /\ Unused(inactive) /\ Unused(token)
NoOfMoves == Unused(member) /\ Unused(initialEntries) /\ Unused(implicitProducerHash) /\
             Unused(prev) /\ Unused(capacity) /\ Unused(parent) /\ Unused(blocks) /\
             Unused(producer) /\ Unused(constructed) /\ Unused(contents) /\
             Unused(registered)
NoOfConsumers == Unused(producerListTail) /\ Unused(nextExplicitConsumerId) /\
                 Unused(globalExplicitConsumerOffset) /\ Unused(tokens)

BesideExplicit == <<ofImplicit, entries, ofProducers, producerCount, ofTokens, ofMoves,
                    ofConsumers>>
BesideImplicit == <<ofExplicit, ofProducers, producerCount, ofTokens, ofMoves,
                    ofConsumers>>
BesideProducers == <<ends, subqueue, alive, ofExplicit, ofImplicit, entries, ofMoves,
                     ofConsumers>>
BesideMoves == <<ends, steps, subqueue, ofExplicit, ofImplicit, ofProducers,
                 producerCount, ofConsumers>>
BesideConsumers == <<subqueue, alive, ofExplicit, ofImplicit, entries, ofProducers,
                     ofTokens, ofMoves>>

InitBesideExplicit == NoOfImplicit /\ Unused(entries) /\ NoOfProducers /\
                      Unused(producerCount) /\ NoOfTokens /\ NoOfMoves /\ NoOfConsumers
InitBesideImplicit == NoOfExplicit /\ NoOfProducers /\ Unused(producerCount) /\
                      NoOfTokens /\ NoOfMoves /\ NoOfConsumers
InitBesideProducers == NoEnds /\ NoSubqueue /\ Unused(alive) /\ NoOfExplicit /\
                       NoOfImplicit /\ Unused(entries) /\ NoOfMoves /\ NoOfConsumers
InitBesideMoves == NoEnds /\ NoSteps /\ NoSubqueue /\ NoOfExplicit /\ NoOfImplicit /\
                   NoOfProducers /\ Unused(producerCount) /\ NoOfConsumers
InitBesideConsumers == NoSubqueue /\ Unused(alive) /\ NoOfExplicit /\ NoOfImplicit /\
                       Unused(entries) /\ NoOfProducers /\ NoOfTokens /\ NoOfMoves

------------------------------------------------------------------------------
ExplicitOne == INSTANCE ExplicitQueue WITH
  Consumers <- {1}, IndexMod <- 8, BlockSize <- 2, MaxSubqueue <- 100, BulkCounts <- {3},
  MaxElements <- 9, Blocks <- {1, 2, 3}, InitialIndex <- 2, MaxCount <- 3, Obstinate <- FALSE
ExplicitTwo == INSTANCE ExplicitQueue WITH
  Consumers <- {1, 2}, IndexMod <- 16, BlockSize <- 2, MaxSubqueue <- 4, BulkCounts <- {},
  MaxElements <- 3, Blocks <- {1, 2}, InitialIndex <- 2, MaxCount <- 3, Obstinate <- FALSE
ImplicitWrap == INSTANCE ImplicitQueue WITH
  Consumers <- {1}, IndexMod <- 8, BlockSize <- 2, MaxSubqueue <- 100, BulkCounts <- {3},
  MaxElements <- 9, Blocks <- {1, 2}, InitialIndex <- 2, MaxCount <- 1
ImplicitBulk == INSTANCE ImplicitQueue WITH
  Consumers <- {1}, IndexMod <- 8, BlockSize <- 2, MaxSubqueue <- 100, BulkCounts <- {3},
  MaxElements <- 5, Blocks <- {1, 2, 3}, InitialIndex <- 2, MaxCount <- 3
ImplicitTwo == INSTANCE ImplicitQueue WITH
  Consumers <- {1, 2}, IndexMod <- 16, BlockSize <- 2, MaxSubqueue <- 4, BulkCounts <- {},
  MaxElements <- 3, Blocks <- {1, 2}, InitialIndex <- 2, MaxCount <- 2
Crowded == INSTANCE Producers WITH
  Enqueuers <- {1, 2, 3}, TokenUsers <- {}, HashedId <- <<1, 1, 1>>, HashSize <- 4,
  MaxProducers <- 2
Recycled == INSTANCE Producers WITH
  Enqueuers <- {1}, TokenUsers <- {2, 3}, HashedId <- <<1>>, HashSize <- 2, MaxProducers <- 3
Moved == INSTANCE QueueMoves WITH
  Queues <- {1, 2}, Ids <- {1, 2}, Tokens <- {1, 2}, HashSize <- 4, PoolSize <- 1,
  MaxTables <- 4, MaxProducers <- 2, MaxConstructed <- 3
Contending == INSTANCE Consumers WITH
  Consumers <- {1, 2}, Quota <- 1, BulkCounts <- {}, MaxProducers <- 2, MaxElements <- 1
Choosing == INSTANCE Consumers WITH
  Consumers <- {1}, Quota <- 2, BulkCounts <- {2}, MaxProducers <- 3, MaxElements <- 3

Init ==
  \/ world = "explicit, one" /\ ExplicitOne!Init /\ InitBesideExplicit
  \/ world = "explicit, two" /\ ExplicitTwo!Init /\ InitBesideExplicit
  \/ world = "implicit, wrap" /\ ImplicitWrap!Init /\ InitBesideImplicit
  \/ world = "implicit, bulk" /\ ImplicitBulk!Init /\ InitBesideImplicit
  \/ world = "implicit, two" /\ ImplicitTwo!Init /\ InitBesideImplicit
  \/ world = "crowded" /\ Crowded!Init /\ InitBesideProducers
  \/ world = "recycled" /\ Recycled!Init /\ InitBesideProducers
  \/ world = "moved" /\ Moved!Init /\ InitBesideMoves
  \/ world = "contending" /\ Contending!Init /\ InitBesideConsumers
  \/ world = "choosing" /\ Choosing!Init /\ InitBesideConsumers

Next ==
  \/ world = "explicit, one" /\ ExplicitOne!Next /\ UNCHANGED <<world, BesideExplicit>>
  \/ world = "explicit, two" /\ ExplicitTwo!Next /\ UNCHANGED <<world, BesideExplicit>>
  \/ world = "implicit, wrap" /\ ImplicitWrap!Next /\ UNCHANGED <<world, BesideImplicit>>
  \/ world = "implicit, bulk" /\ ImplicitBulk!Next /\ UNCHANGED <<world, BesideImplicit>>
  \/ world = "implicit, two" /\ ImplicitTwo!Next /\ UNCHANGED <<world, BesideImplicit>>
  \/ world = "crowded" /\ Crowded!Next /\ UNCHANGED <<world, BesideProducers>>
  \/ world = "recycled" /\ Recycled!Next /\ UNCHANGED <<world, BesideProducers>>
  \/ world = "moved" /\ Moved!Next /\ UNCHANGED <<world, BesideMoves>>
  \/ world = "contending" /\ Contending!Next /\ UNCHANGED <<world, BesideConsumers>>
  \/ world = "choosing" /\ Choosing!Next /\ UNCHANGED <<world, BesideConsumers>>

vars == <<world, steps, ends, alive, entries, producerCount, subqueue, ofExplicit,
          ofImplicit, ofProducers, ofTokens, ofMoves, ofConsumers>>

Spec == Init /\ [][Next]_vars

------------------------------------------------------------------------------
\* The counters of a sub-queue agree, no slot is constructed over or declared empty twice,
\* what the index is searched for is there, blocks in the pool are in nobody's hands, and
\* the destructors of ExplicitProducer and ImplicitProducer destroy exactly what is left.
SubqueuesSound ==
  /\ world = "explicit, one" => ExplicitOne!ExplicitSound
  /\ world = "explicit, two" => ExplicitTwo!ExplicitSound
  /\ world = "implicit, wrap" => ImplicitWrap!ImplicitSound
  /\ world = "implicit, bulk" => ImplicitBulk!ImplicitSound
  /\ world = "implicit, two" => ImplicitTwo!ImplicitSound

\* Elements leave a sub-queue in the order in which they came, each once, whichever of
\* dequeue() and dequeue_bulk() claims them and however the producer's blocks are reused.
SubqueuesInOrder ==
  /\ world = "explicit, one" => ExplicitOne!ExplicitInOrder
  /\ world = "explicit, two" => ExplicitTwo!ExplicitInOrder
  /\ world = "implicit, wrap" => ImplicitWrap!ImplicitInOrder
  /\ world = "implicit, bulk" => ImplicitBulk!ImplicitInOrder
  /\ world = "implicit, two" => ImplicitTwo!ImplicitInOrder

\* Threads and tokens have a producer each, moves and swaps of queue objects leave tokens,
\* producers, blocks and pools together, consumers visit all producers before they answer
\* that there is nothing, and consumer tokens are spread over the producers.
ProducersSound ==
  /\ world = "crowded" => Crowded!ProducersSound
  /\ world = "recycled" => Recycled!ProducersSound
  /\ world = "moved" => Moved!MovesSound
  /\ world = "contending" => Contending!ConsumersSound
  /\ world = "choosing" => Choosing!ConsumersSound
==============================================================================
