----------------------------- MODULE Consumers -----------------------------
(***************************************************************************)
(* How a consumer of ConcurrentQueue in utility/concurrentqueue.h chooses  *)
(* producers: the scoring of try_dequeue(), the passes over the list of    *)
(* producers, and consumer tokens, which stay with one producer for a      *)
(* quota of elements and then make every token rotate.  Producers are      *)
(* added meanwhile.                                                        *)
(*                                                                         *)
(* A sub-queue is here what Subqueue promises: a dequeue takes elements    *)
(* from its head in one step, and none only when there are none.           *)
(***************************************************************************)
EXTENDS FiniteSetsExt, Sequences, Integers

CONSTANTS
  Consumers,
  Quota,           \* EXPLICIT_CONSUMER_CONSUMPTION_QUOTA_BEFORE_ROTATE
  BulkCounts,      \* the maxima try_dequeue_bulk() is called with
  MaxProducers,    \* a bound
  MaxElements      \* a bound: elements enqueued altogether

VARIABLES
  producerListTail,  \* producers are numbered in the order of the list, next_prod() last
  producerCount,
  tailIndex, headIndex,                \* of each producer
  nextExplicitConsumerId, globalExplicitConsumerOffset,
  tokens,            \* the consumers' tokens
  cpc, cr            \* their steps and registers

producers == <<producerListTail, producerCount, tailIndex, headIndex>>
offsets == <<nextExplicitConsumerId, globalExplicitConsumerOffset>>
vars == <<producers, offsets, tokens, cpc, cr>>

Null == 0
NoToken == [initialOffset |-> -1]

Init ==
  /\ producerListTail = Null /\ producerCount = 0
  /\ tailIndex = [p \in 1 .. MaxProducers |-> 0] /\ headIndex = tailIndex
  /\ nextExplicitConsumerId = 0 /\ globalExplicitConsumerOffset = 0
  /\ tokens = [c \in Consumers |-> NoToken]
  /\ cpc = [c \in Consumers |-> "idle"] /\ cr = [c \in Consumers |-> {}]

NextProd(p) == p - 1
NextOrTail(p, tail) == IF NextProd(p) = Null THEN tail ELSE NextProd(p)

Goto(c, step, registers) ==
  cpc' = [cpc EXCEPT ![c] = step] /\ cr' = [cr EXCEPT ![c] = registers]

\* A call returns; what is left of its registers is the trace, if it came back with
\* nothing.
Answer(c, r) ==
  Goto(c, "idle", IF r.count > 0 THEN {} ELSE r.unseen)
Return(c) == Answer(c, cr[c])

------------------------------------------------------------------------------
(* Producers: add_producer() counts a producer before it is in the list. *)

CountProducer ==
  /\ producerCount < MaxProducers /\ producerCount = producerListTail
  /\ producerCount' = producerCount + 1
  /\ UNCHANGED <<producerListTail, tailIndex, headIndex, offsets, tokens, cpc, cr>>

LinkProducer ==
  /\ producerListTail < producerCount
  /\ producerListTail' = producerListTail + 1
  /\ UNCHANGED <<producerCount, tailIndex, headIndex, offsets, tokens, cpc, cr>>

Enqueue(p) ==
  /\ p <= producerListTail /\ MapThenSumSet(LAMBDA o : tailIndex[o], DOMAIN tailIndex) < MaxElements
  /\ tailIndex' = [tailIndex EXCEPT ![p] = @ + 1]
  /\ UNCHANGED <<producerListTail, producerCount, headIndex, offsets, tokens, cpc, cr>>

------------------------------------------------------------------------------
(* Calls.  The registers hold how many elements are asked for and were taken, and, as *)
(* a trace, which producers of the beginning have not appeared empty.                 *)

Call(c, max, step, ptr) ==
  /\ cpc[c] = "idle"
  /\ Goto(c, step, [max |-> max, count |-> 0, ptr |-> ptr, best |-> Null, size |-> 0,
                    nonEmpty |-> 0, tail |-> Null, bulk |-> max > 1,
                    unseen |-> 1 .. producerListTail])
  /\ UNCHANGED <<producers, offsets, tokens>>

TryDequeue(c) == Call(c, 1, "score", producerListTail)
TryDequeueNonInterleaved(c) == Call(c, 1, "each", producerListTail)
TryDequeueBulk(c, max) == Call(c, max, "each", producerListTail)

\* With a token one goes first to where the token's current producer has to be.
WithToken(c, max) ==
  LET t == tokens[c] IN
  /\ t # NoToken
  /\ Call(c, max, IF t.desired = Null \/ t.lastKnown # globalExplicitConsumerOffset
                  THEN "rotate" ELSE "current", Null)

\* dequeue() and dequeue_bulk() of producer p, for what is still missing.
Missing(c) == cr[c].max - cr[c].count
Taken(c, p) == Min({Missing(c), tailIndex[p] - headIndex[p]})
Dequeue(c, p) == headIndex' = [headIndex EXCEPT ![p] = @ + Taken(c, p)]
After(c, p) ==
  [cr[c] EXCEPT !.count = @ + Taken(c, p),
                !.unseen = IF Taken(c, p) < Missing(c) THEN @ \ {p} ELSE @]

OnlyHeads == UNCHANGED <<producerListTail, producerCount, tailIndex, offsets>>

------------------------------------------------------------------------------
(* try_dequeue(): up to three producers that are not empty are scored. *)

ScoreTail(c) ==
  LET r == cr[c] IN
  /\ cpc[c] = "score"
  /\ IF r.nonEmpty < 3 /\ r.ptr # Null
     THEN Goto(c, "score head", [r EXCEPT !.tail = tailIndex[r.ptr]])
     ELSE IF r.nonEmpty = 0 THEN Return(c) ELSE Goto(c, "best", r)
  /\ UNCHANGED <<producers, offsets, tokens>>

\* The head may have passed the tail that was read.
ScoreHead(c) ==
  LET r == cr[c]
      size == Max({0, r.tail - headIndex[r.ptr]})
      scored == [r EXCEPT !.ptr = NextProd(@), !.tail = Null]
  IN  /\ cpc[c] = "score head"
      /\ Goto(c, "score",
           IF size = 0 THEN [scored EXCEPT !.unseen = @ \ {r.ptr}]
           ELSE [scored EXCEPT !.nonEmpty = @ + 1, !.size = Max({@, size}),
                               !.best = IF size > r.size THEN r.ptr ELSE @])
      /\ UNCHANGED <<producers, offsets, tokens>>

Best(c) ==
  LET p == cr[c].best IN
  /\ cpc[c] = "best"
  /\ Dequeue(c, p)
  /\ IF Taken(c, p) = 1 THEN Answer(c, After(c, p))
     ELSE Goto(c, "each", [After(c, p) EXCEPT !.ptr = producerListTail, !.size = 0, !.nonEmpty = 0])
  /\ OnlyHeads /\ UNCHANGED tokens

\* A pass over the list, without the producer that was tried before.
Each(c) ==
  LET p == cr[c].ptr
      next == [After(c, p) EXCEPT !.ptr = NextProd(@)]
  IN  /\ cpc[c] = "each" /\ p # Null
      /\ IF p = cr[c].best
         THEN Goto(c, "each", [cr[c] EXCEPT !.ptr = NextProd(@)]) /\ UNCHANGED headIndex
         ELSE /\ Dequeue(c, p)
              /\ IF next.count = next.max THEN Answer(c, next) ELSE Goto(c, "each", next)
      /\ OnlyHeads /\ UNCHANGED tokens

EndOfPass(c) ==
  /\ cpc[c] = "each" /\ cr[c].ptr = Null
  /\ Return(c)
  /\ UNCHANGED <<producers, offsets, tokens>>

------------------------------------------------------------------------------
(* Consumer tokens. *)

CreateToken(c) ==
  /\ tokens[c] = NoToken /\ cpc[c] = "idle"
  /\ tokens' = [tokens EXCEPT ![c] = [initialOffset |-> nextExplicitConsumerId, lastKnown |-> -1,
                                      consumed |-> 0, current |-> Null, desired |-> Null,
                                      among |-> Null]]
  /\ nextExplicitConsumerId' = nextExplicitConsumerId + 1
  /\ UNCHANGED <<producers, globalExplicitConsumerOffset, cpc, cr>>

\* update_current_producer_after_rotation()
RotateTail(c) ==
  /\ cpc[c] = "rotate"
  /\ IF tokens[c].desired = Null /\ producerListTail = Null THEN Return(c)
     ELSE Goto(c, "rotate count", [cr[c] EXCEPT !.tail = producerListTail])
  /\ UNCHANGED <<producers, offsets, tokens>>

RotateCount(c) ==
  /\ cpc[c] = "rotate count"
  /\ Goto(c, "rotate offset", [cr[c] EXCEPT !.size = producerCount])
  /\ UNCHANGED <<producers, offsets, tokens>>

\* n producers on from p, from the end of the list to its tail.
Onwards(p, n, tail) ==
  LET Go[k \in 0 .. n] == IF k = 0 THEN p ELSE NextOrTail(Go[k - 1], tail) IN Go[n]

\* among: of how many producers the places were counted, if always of the same.
RotateOffset(c) ==
  LET t == tokens[c]
      tail == cr[c].tail
      n == cr[c].size
      first == Onwards(tail, n - 1 - (t.initialOffset % n), tail)
      start == IF t.desired = Null THEN first ELSE t.desired
      place == Onwards(start, (globalExplicitConsumerOffset - t.lastKnown) % n, tail)
  IN  /\ cpc[c] = "rotate offset"
      /\ tokens' = [tokens EXCEPT ![c] = [t EXCEPT
           !.lastKnown = globalExplicitConsumerOffset, !.consumed = 0,
           !.desired = place, !.current = place,
           !.among = IF tail = n /\ (t.desired = Null \/ @ = n) THEN n ELSE Null]]
      /\ Goto(c, "current", [cr[c] EXCEPT !.ptr = Null, !.size = 0, !.tail = Null])
      /\ UNCHANGED <<producers, offsets>>

QuotaReached(c, consumed) ==
  IF cr[c].bulk THEN consumed >= Quota ELSE consumed = Quota

Current(c) ==
  LET p == tokens[c].current
      r == After(c, p)
      consumed == tokens[c].consumed + r.count
  IN  /\ cpc[c] = "current"
      /\ Dequeue(c, p)
      /\ tokens' = [tokens EXCEPT ![c].consumed = consumed]
      /\ IF r.count < r.max THEN Goto(c, "tail", r)
         ELSE IF QuotaReached(c, consumed) THEN Goto(c, "advance", r)
         ELSE Answer(c, r)
      /\ OnlyHeads

\* "Make everyone rotate."
AdvanceOffset(c) ==
  /\ cpc[c] = "advance"
  /\ globalExplicitConsumerOffset' = globalExplicitConsumerOffset + 1
  /\ Return(c)
  /\ UNCHANGED <<producers, nextExplicitConsumerId, tokens>>

ReadTail(c) ==
  /\ cpc[c] = "tail"
  /\ Goto(c, "on", [cr[c] EXCEPT !.tail = producerListTail,
                                 !.ptr = NextOrTail(tokens[c].current, producerListTail)])
  /\ UNCHANGED <<producers, offsets, tokens>>

\* From the current producer on round the list; a producer that has something becomes
\* the current one, to which a bulk goes round again.
GoOn(c) ==
  LET p == cr[c].ptr
      r == [After(c, p) EXCEPT !.ptr = NextOrTail(p, cr[c].tail)]
  IN  /\ cpc[c] = "on" /\ p # tokens[c].current
      /\ Dequeue(c, p)
      /\ tokens' = IF Taken(c, p) = 0 THEN tokens
                   ELSE [tokens EXCEPT ![c].current = p, ![c].consumed = Taken(c, p)]
      /\ IF r.count = r.max THEN Answer(c, r) ELSE Goto(c, "on", r)
      /\ OnlyHeads

BackAtCurrent(c) ==
  /\ cpc[c] = "on" /\ cr[c].ptr = tokens[c].current
  /\ Return(c)
  /\ UNCHANGED <<producers, offsets, tokens>>

\* try_dequeue_from_producer() and try_dequeue_bulk_from_producer()
FromProducer(c, p, max) ==
  /\ cpc[c] = "idle" /\ p <= producerListTail
  /\ headIndex' = [headIndex EXCEPT ![p] = @ + Min({max, tailIndex[p] - @})]
  /\ OnlyHeads /\ UNCHANGED <<tokens, cpc, cr>>

------------------------------------------------------------------------------
ProducersNext == CountProducer \/ LinkProducer \/ \E p \in 1 .. MaxProducers : Enqueue(p)

ConsumerNext(c) ==
  \/ TryDequeue(c) \/ TryDequeueNonInterleaved(c) \/ (\E max \in BulkCounts : TryDequeueBulk(c, max))
  \/ \E max \in BulkCounts \union {1} : WithToken(c, max)
  \/ \E max \in BulkCounts, p \in 1 .. MaxProducers : FromProducer(c, p, max)
  \/ ScoreTail(c) \/ ScoreHead(c) \/ Best(c) \/ Each(c) \/ EndOfPass(c)
  \/ CreateToken(c) \/ RotateTail(c) \/ RotateCount(c) \/ RotateOffset(c) \/ Current(c)
  \/ AdvanceOffset(c) \/ ReadTail(c) \/ GoOn(c) \/ BackAtCurrent(c)

Next == ProducersNext \/ \E c \in Consumers : ConsumerNext(c)

Spec == Init /\ [][Next]_vars

------------------------------------------------------------------------------
(* Properties. *)

\* "Returns false if all producer streams appeared empty at the time they were checked":
\* every producer that was in the list when the call began, wherever the pass started.
EmptyAnswers ==
  \A c \in Consumers : cpc[c] = "idle" => cr[c] = {}

\* A token goes round to where it came from: its producers are in the part of the list
\* that it goes through, although producers have been added since it was placed.
TokensInList ==
  \A c \in Consumers : cpc[c] = "on" =>
    tokens[c].current \in 1 .. cr[c].tail /\ cr[c].ptr \in 1 .. cr[c].tail

\* Tokens that have followed the same rotations of the same producers are spread over
\* them as their ids are.
TokensSpread ==
  \A c, d \in Consumers :
    LET s == tokens[c]
        t == tokens[d]
    IN  /\ NoToken \notin {s, t} /\ s # t
        /\ s.among # Null /\ s.among = t.among /\ s.lastKnown = t.lastKnown
        => (s.desired = t.desired <=> s.initialOffset % s.among = t.initialOffset % s.among)

ConsumersSound ==
  /\ \A p \in 1 .. MaxProducers : headIndex[p] <= tailIndex[p]
  /\ EmptyAnswers /\ TokensInList /\ TokensSpread
==============================================================================
