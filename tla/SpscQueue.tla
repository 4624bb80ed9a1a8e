----------------------------- MODULE SpscQueue -----------------------------
(***************************************************************************)
(* ReaderWriterQueue and BlockingReaderWriterQueue of                      *)
(* utility/readerwriterqueue.h, with the fences, the weak_atomic and the   *)
(* spsc_sema::LightweightSemaphore of utility/atomicops.h.                 *)
(*                                                                         *)
(* One producer and one consumer share a ring of blocks.  weak_atomic      *)
(* promises no order at all, so a store is first kept in its thread's      *)
(* buffer, a sequence of epochs: a release fence begins an epoch, the      *)
(* stores of the oldest epoch reach memory in any order, and a thread sees *)
(* its own stores at once.  Loads happen in program order, which is what   *)
(* the acquire fences are for.                                             *)
(***************************************************************************)
EXTENDS Integers, Sequences, FiniteSetsExt, TLC

CONSTANTS
  Setups,      \* the pairs <<maxSize, MAX_BLOCK_SIZE>> queues are made with
  MaxBlocks,   \* a bound: malloc fails when this many blocks exist
  MaxValues    \* a bound: the producer enqueues the values 1 .. MaxValues

VARIABLES
  mem, buf,               \* shared memory, and each thread's stores on their way there
  localTail, localFront,  \* the consumer's and the producer's shadow copies, per block
  size, blocks, largest,  \* the blocks' sizes, how many there are, largestBlockSize
  setup, blocking,        \* how the queue was made, and whether it has the semaphore
  ppc, pr,                \* the producer: its step and its registers
  cpc, cr,                \* the consumer: its step and its registers
  count, posted,          \* the semaphore: m_count and m_sema
  sent, taken, alive      \* how many values went in and came out; not yet destroyed

queue == <<mem, buf, localTail, localFront, size, blocks, largest>>
fixed == <<setup, blocking>>
sema == <<count, posted>>
vars == <<queue, fixed, ppc, pr, cpc, cr, sema, sent, taken, alive>>

Producer == "producer"
Consumer == "consumer"
Blocks == 1 .. MaxBlocks
Raw == 0                   \* no object lives in the slot
Garbage == -1              \* memory that was never written

------------------------------------------------------------------------------
(* Memory. *)

FrontBlock == <<"frontBlock", 0, 0>>
TailBlock == <<"tailBlock", 0, 0>>
Front(b) == <<"front", b, 0>>
Tail_(b) == <<"tail", b, 0>>
Next_(b) == <<"next", b, 0>>
Data(b, i) == <<"data", b, i>>

\* weak_atomic::load(), and a plain read.
Load(t, loc) ==
  LET own == {e \in DOMAIN buf[t] : loc \in DOMAIN buf[t][e]}
  IN  IF own = {} THEN mem[loc] ELSE buf[t][Max(own)][loc]

\* Stores by t; between two of the epochs there is a release fence.
Store(t, epochs) ==
  buf' = [buf EXCEPT ![t] =
            IF @ = <<>> THEN epochs
            ELSE SubSeq(@, 1, Len(@) - 1) \o <<epochs[1] @@ @[Len(@)]>> \o Tail(epochs)]

\* The same, when the fence comes before the first of them too.
StoreRelease(t, epochs) == buf' = [buf EXCEPT ![t] = @ \o epochs]

\* A store of the oldest epoch reaches memory.
Commit(t) ==
  /\ buf[t] # <<>>
  /\ \E loc \in DOMAIN Head(buf[t]) :
       LET rest == [l \in DOMAIN Head(buf[t]) \ {loc} |-> Head(buf[t])[l]]
       IN  /\ mem' = [mem EXCEPT ![loc] = Head(buf[t])[loc]]
           /\ buf' = [buf EXCEPT ![t] =
                        IF rest = <<>> THEN Tail(@) ELSE <<rest>> \o Tail(@)]
  /\ UNCHANGED <<localTail, localFront, size, blocks, largest, fixed, ppc, pr, cpc, cr,
                 sema, sent, taken, alive>>

Successor(b, i) == (i + 1) % size[b]

\* The elements in the queue as far as the producer can see.
Held ==
  LET UpTo[b \in 0 .. blocks] ==
        IF b = 0 THEN 0
        ELSE ((Load(Producer, Tail_(b)) - Load(Producer, Front(b))) % size[b]) + UpTo[b - 1]
  IN  UpTo[blocks]

------------------------------------------------------------------------------
(* The constructor. *)

CeilToPow2(x) == CHOOSE p \in {2 ^ k : k \in 0 .. x} : p >= x /\ p \div 2 < x

InitialBlockSize(maxSize, max) ==
  IF CeilToPow2(maxSize + 1) > max * 2 THEN max ELSE CeilToPow2(maxSize + 1)

InitialBlockCount(maxSize, max) ==
  IF CeilToPow2(maxSize + 1) > max * 2 THEN (maxSize + max * 2 - 3) \div (max - 1) ELSE 1

Locations ==
  {FrontBlock, TailBlock}
    \union UNION {{Front(b), Tail_(b), Next_(b)} : b \in Blocks}
    \union UNION {{Data(b, i) : i \in 0 .. Max({InitialBlockSize(s[1], s[2]) : s \in Setups}
                                              \union {s[2] : s \in Setups}) - 1} : b \in Blocks}

\* What make_block() leaves in a block of the ring.
Constructed(loc, n) ==
  CASE loc[1] \in {"frontBlock", "tailBlock"} -> 1
    [] loc[1] \in {"front", "tail"} -> 0
    [] loc[1] = "next" -> (loc[2] % n) + 1
    [] OTHER -> Raw

Init ==
  /\ setup \in Setups
  /\ blocking \in BOOLEAN
  /\ blocks = InitialBlockCount(setup[1], setup[2])
  /\ largest = InitialBlockSize(setup[1], setup[2])
  /\ size = [b \in Blocks |-> IF b <= blocks THEN largest ELSE 1]
  /\ mem = [loc \in Locations |-> IF loc[2] <= blocks THEN Constructed(loc, blocks)
                                  ELSE IF loc[1] = "data" THEN Raw ELSE Garbage]
  /\ buf = [t \in {Producer, Consumer} |-> <<>>]
  /\ localTail = [b \in Blocks |-> 0]
  /\ localFront = [b \in Blocks |-> 0]
  /\ ppc = "idle" /\ pr = <<>>
  /\ cpc = "idle" /\ cr = <<>>
  /\ count = 0 /\ posted = 0
  /\ sent = 0 /\ taken = 0 /\ alive = TRUE

------------------------------------------------------------------------------
(* The producer: enqueue() and try_enqueue(). *)

ProducerIdle == ppc' = "idle" /\ pr' = <<>>

\* The element goes into slot i of block b.
Place(b, i, how) == ppc' = "construct" /\ pr' = [pr EXCEPT !.block = b, !.slot = i, !.how = how]

Enqueue(canAlloc) ==
  LET b == Load(Producer, TailBlock)
      i == Load(Producer, Tail_(b))
      r == [block |-> b, slot |-> i, how |-> "room", canAlloc |-> canAlloc,
            held |-> Held]
  IN  /\ ppc = "idle" /\ alive /\ sent < MaxValues
      /\ pr' = r
      /\ ppc' = IF Successor(b, i) # localFront[b] THEN "construct" ELSE "reload"
      /\ UNCHANGED <<queue, fixed, cpc, cr, sema, sent, taken, alive>>

\* The shadow copy says full: read the front itself.
ReloadFront ==
  /\ ppc = "reload"
  /\ localFront' = [localFront EXCEPT ![pr.block] = Load(Producer, Front(pr.block))]
  /\ ppc' = IF Successor(pr.block, pr.slot) # localFront'[pr.block] THEN "construct" ELSE "next"
  /\ UNCHANGED <<mem, buf, localTail, size, blocks, largest, fixed, pr, cpc, cr, sema, sent,
                 taken, alive>>

\* The tail block is full.  A block ahead is free unless it is the front block;
\* otherwise a block is made, if that is allowed and malloc succeeds.
NextBlock ==
  /\ ppc = "next"
  /\ \/ /\ Load(Producer, Next_(pr.block)) # Load(Producer, FrontBlock)
        /\ ppc' = "free"
        /\ UNCHANGED <<pr, size, blocks, largest, localTail>>
     \/ /\ Load(Producer, Next_(pr.block)) = Load(Producer, FrontBlock)
        /\ pr.canAlloc /\ blocks < MaxBlocks
        /\ blocks' = blocks + 1
        /\ largest' = IF largest >= setup[2] THEN largest ELSE largest * 2
        /\ size' = [size EXCEPT ![blocks'] = largest']
        /\ localTail' = [localTail EXCEPT ![blocks'] = 1]
        /\ Place(blocks', 0, "new")
     \/ /\ Load(Producer, Next_(pr.block)) = Load(Producer, FrontBlock)
        /\ ~pr.canAlloc \/ blocks = MaxBlocks
        /\ ProducerIdle
        /\ UNCHANGED <<size, blocks, largest, localTail>>
  /\ UNCHANGED <<mem, buf, localFront, fixed, cpc, cr, sema, sent, taken, alive>>

FreeBlock ==
  LET b == Load(Producer, Next_(pr.block)) IN
  /\ ppc = "free"
  /\ localFront' = [localFront EXCEPT ![b] = Load(Producer, Front(b))]
  /\ Place(b, Load(Producer, Tail_(b)), "next")
  /\ UNCHANGED <<mem, buf, localTail, size, blocks, largest, fixed, cpc, cr, sema, sent,
                 taken, alive>>

\* The stores that make the element in pr.slot visible, epoch by epoch.
Published(b, i) ==
  LET element == Data(b, i) :> sent + 1
      tail == Tail_(b) :> Successor(b, i)
      old == Load(Producer, TailBlock)
  IN  CASE pr.how = "room" -> <<element, tail>>
        [] pr.how = "next" -> <<element @@ tail, TailBlock :> b>>
        [] pr.how = "new" ->
             <<element @@ (Front(b) :> 0) @@ (Tail_(b) :> 1)
                 @@ (Next_(b) :> Load(Producer, Next_(old))) @@ (Next_(old) :> b),
               TailBlock :> b>>

Construct ==
  /\ ppc = "construct"
  /\ Store(Producer, Published(pr.block, pr.slot))
  /\ sent' = sent + 1
  /\ IF blocking THEN ppc' = "signal" /\ pr' = <<>> ELSE ProducerIdle
  /\ UNCHANGED <<mem, localTail, localFront, size, blocks, largest, fixed, cpc, cr, sema,
                 taken, alive>>

\* The element's constructor throws: a new block leaks, nothing else has changed.
ConstructorThrows ==
  /\ ppc = "construct"
  /\ ProducerIdle
  /\ blocks' = IF pr.how = "new" THEN blocks - 1 ELSE blocks
  /\ UNCHANGED <<mem, buf, localTail, localFront, size, largest, fixed, cpc, cr, sema, sent,
                 taken, alive>>

\* Mutant: the count after the addition is tested.
SignalLate ==
  /\ ppc = "signal" /\ buf[Producer] = <<>>
  /\ count' = count + 1
  /\ ppc' = IF count' < 0 THEN "post" ELSE "idle"
  /\ UNCHANGED <<queue, fixed, pr, cpc, cr, posted, sent, taken, alive>>

\* LightweightSemaphore::signal(): fetch_add_release waits for the stores before it.
Signal ==
  /\ ppc = "signal" /\ buf[Producer] = <<>>
  /\ count' = count + 1
  /\ ppc' = IF count < 0 THEN "post" ELSE "idle"
  /\ UNCHANGED <<queue, fixed, pr, cpc, cr, posted, sent, taken, alive>>

Post ==
  /\ ppc = "post"
  /\ posted' = posted + 1 /\ ppc' = "idle"
  /\ UNCHANGED <<queue, fixed, pr, cpc, cr, count, sent, taken, alive>>

------------------------------------------------------------------------------
(* The consumer: try_dequeue(), pop() and peek(). *)

ConsumerIdle == cpc' = "idle" /\ cr' = <<>>
ConsumerKeeps == <<mem, localFront, size, blocks, largest, fixed, ppc, pr, sent, alive>>

\* The fast path: the shadow copy of the front block's tail.
ReadFront(call) ==
  LET b == Load(Consumer, FrontBlock)
      i == Load(Consumer, Front(b))
  IN  /\ cr' = [call |-> call, block |-> b, slot |-> i, 
             some |-> i # Load(Consumer, Tail_(b)) \/ b # Load(Consumer, TailBlock)]
      /\ cpc' = IF i # localTail[b] THEN "element" ELSE "tail"

Ask(call) ==
  /\ cpc = "idle" /\ alive
  /\ ReadFront(call)
  /\ UNCHANGED <<ConsumerKeeps, buf, localTail, sema, taken>>

TryDequeue == ~blocking /\ Ask("dequeue")
Pop == ~blocking /\ Ask("pop")
Peek == Ask("peek")

\* The tail itself; after the tail block has been looked at, a second time.
ReadTail ==
  /\ cpc \in {"tail", "tail again"}
  /\ localTail' = [localTail EXCEPT ![cr.block] = Load(Consumer, Tail_(cr.block))]
  /\ cpc' = IF cr.slot # localTail'[cr.block] THEN "element"
            ELSE IF cpc = "tail" THEN "tail block" ELSE "next"
  /\ UNCHANGED <<ConsumerKeeps, buf, cr, sema, taken>>

\* Mutant: the front block's tail is not read again.
ReadTailBlockOnly ==
  /\ cpc = "tail block"
  /\ IF cr.block = Load(Consumer, TailBlock) THEN ConsumerIdle
     ELSE cpc' = "next" /\ UNCHANGED cr
  /\ UNCHANGED <<ConsumerKeeps, buf, localTail, sema, taken>>

\* Nothing in the front block: the queue is empty if it was the tail block.
ReadTailBlock ==
  /\ cpc = "tail block"
  /\ IF cr.block = Load(Consumer, TailBlock) THEN ConsumerIdle
     ELSE cpc' = "tail again" /\ UNCHANGED cr
  /\ UNCHANGED <<ConsumerKeeps, buf, localTail, sema, taken>>

ReadNext ==
  /\ cpc = "next"
  /\ LET b == Load(Consumer, Next_(cr.block))
     IN  cr' = [cr EXCEPT !.block = b, !.slot = Load(Consumer, Front(b))]
  /\ cpc' = "advance"
  /\ UNCHANGED <<ConsumerKeeps, buf, localTail, sema, taken>>

\* peek() looks into the next block, the others make it the front block.
Advance ==
  /\ cpc = "advance"
  /\ IF cr.call = "peek" THEN UNCHANGED <<localTail, buf>>
     ELSE /\ localTail' = [localTail EXCEPT ![cr.block] = Load(Consumer, Tail_(cr.block))]
          /\ StoreRelease(Consumer, <<FrontBlock :> cr.block>>)
  /\ cpc' = "element"
  /\ UNCHANGED <<ConsumerKeeps, cr, sema, taken>>

PeekElement ==
  /\ cpc = "element" /\ cr.call = "peek"
  /\ ConsumerIdle
  /\ UNCHANGED <<ConsumerKeeps, buf, localTail, sema, taken>>

\* Mutant: no release fence between the destructor of the element and the front.
TakeElementUnfenced ==
  /\ cpc = "element" /\ cr.call # "peek"
  /\ Store(Consumer, <<(Data(cr.block, cr.slot) :> Raw)
                       @@ (Front(cr.block) :> Successor(cr.block, cr.slot))>>)
  /\ taken' = taken + 1
  /\ ConsumerIdle
  /\ UNCHANGED <<ConsumerKeeps, localTail, sema>>

\* The element is moved out (not by pop()) and destroyed, then the front moves on.
TakeElement ==
  /\ cpc = "element" /\ cr.call # "peek"
  /\ Store(Consumer, <<Data(cr.block, cr.slot) :> Raw,
                       Front(cr.block) :> Successor(cr.block, cr.slot)>>)
  /\ taken' = taken + 1
  /\ ConsumerIdle
  /\ UNCHANGED <<ConsumerKeeps, localTail, sema>>

------------------------------------------------------------------------------
(* BlockingReaderWriterQueue: a token of the semaphore for every element. *)

\* try_dequeue() and pop() do not wait; wait_dequeue() does, for ever or for a time.
Call(call, patience) ==
  /\ blocking /\ cpc = "idle" /\ alive
  /\ cr' = [call |-> call, patience |-> patience]
  /\ cpc' = "try"
  /\ UNCHANGED <<ConsumerKeeps, buf, localTail, sema, taken>>

BlockingTryDequeue == Call("dequeue", "none")
BlockingPop == Call("pop", "none")
WaitDequeue == Call("dequeue", "ever")
WaitDequeueTimed == Call("dequeue", "timed")

SemaKeeps == <<ConsumerKeeps, buf, localTail, taken>>

TryWait ==
  /\ cpc = "try"
  /\ IF count > 0 THEN cpc' = "take token" /\ UNCHANGED cr
     ELSE IF cr.patience = "none" THEN ConsumerIdle
     ELSE cpc' = "spin" /\ UNCHANGED cr
  /\ UNCHANGED <<SemaKeeps, sema>>

\* waitWithPartialSpinning(): the loop ends with a token or after a number of turns.
Spin ==
  /\ cpc = "spin"
  /\ cpc' \in {"join"} \union (IF count > 0 THEN {"take token"} ELSE {})
  /\ UNCHANGED <<SemaKeeps, cr, sema>>

TakeToken ==
  /\ cpc = "take token"
  /\ count' = count - 1 /\ cpc' = "token"
  /\ UNCHANGED <<SemaKeeps, cr, posted>>

Join ==
  /\ cpc = "join"
  /\ count' = count - 1
  /\ cpc' = IF count > 0 THEN "token" ELSE "sleep"
  /\ UNCHANGED <<SemaKeeps, cr, posted>>

\* m_sema.wait() and timed_wait() that succeed, and try_wait() of the loop below.
Wake ==
  /\ cpc \in {"sleep", "try sema"} /\ posted > 0
  /\ posted' = posted - 1 /\ cpc' = "token"
  /\ UNCHANGED <<SemaKeeps, cr, count>>

TimeOut ==
  /\ cpc = "sleep" /\ cr.patience = "timed" /\ posted = 0
  /\ cpc' = "restore"
  /\ UNCHANGED <<SemaKeeps, cr, sema>>

\* The count is put back, unless the producer has counted on this waiter meanwhile.
Restore ==
  /\ cpc = "restore"
  /\ count' = count + 1
  /\ IF count < 0 THEN ConsumerIdle ELSE cpc' = "rejoin" /\ UNCHANGED cr
  /\ UNCHANGED <<SemaKeeps, posted>>

Rejoin ==
  /\ cpc = "rejoin"
  /\ count' = count - 1
  /\ cpc' = IF count > 0 THEN "try sema" ELSE "restore"
  /\ UNCHANGED <<SemaKeeps, cr, posted>>

TryWaitFails ==
  /\ cpc = "try sema" /\ posted = 0
  /\ cpc' = "restore"
  /\ UNCHANGED <<SemaKeeps, cr, sema>>

WithToken ==
  /\ cpc = "token"
  /\ ReadFront(cr.call)
  /\ UNCHANGED <<ConsumerKeeps, buf, localTail, sema, taken>>

------------------------------------------------------------------------------
\* The destructor, when the user has brought both threads to an end: it destroys
\* what is between front and tail in every block of the ring.
Destroy ==
  /\ alive /\ ppc = "idle" /\ cpc = "idle" /\ \A t \in DOMAIN buf : buf[t] = <<>>
  /\ alive' = FALSE
  /\ LET Left(b) == {i \in 0 .. size[b] - 1 :
                       (i - mem[Front(b)]) % size[b]
                          < (mem[Tail_(b)] - mem[Front(b)]) % size[b]}
     IN  mem' = [loc \in DOMAIN mem |->
                   IF loc[1] = "data" /\ loc[2] <= blocks /\ loc[3] \in Left(loc[2])
                   THEN Raw ELSE mem[loc]]
  /\ UNCHANGED <<buf, localTail, localFront, size, blocks, largest, fixed, ppc, pr, cpc, cr,
                 sema, sent, taken>>

ProducerNext ==
  \/ ReloadFront \/ NextBlock \/ FreeBlock \/ Construct \/ ConstructorThrows
  \/ Signal \/ Post

ConsumerNext ==
  \/ ReadTail \/ ReadTailBlock \/ ReadNext \/ Advance \/ PeekElement \/ TakeElement
  \/ TryWait \/ Spin \/ TakeToken \/ Join \/ Wake \/ TimeOut \/ Restore \/ Rejoin
  \/ TryWaitFails \/ WithToken

TakeCalls ==
  TryDequeue \/ Pop \/ BlockingTryDequeue \/ BlockingPop \/ WaitDequeue \/ WaitDequeueTimed

Next ==
  \/ \E canAlloc \in BOOLEAN : Enqueue(canAlloc)
  \/ Commit(Producer) \/ Commit(Consumer)
  \/ ProducerNext
  \/ Peek \/ TakeCalls
  \/ ConsumerNext
  \/ Destroy

Spec == Init /\ [][Next]_vars

\* Hardware writes its buffers back, threads go on with a call they have begun, and
\* the consumer keeps calling.
FairSpec ==
  /\ Spec
  /\ WF_vars(Commit(Producer)) /\ WF_vars(Commit(Consumer))
  /\ WF_vars(ProducerNext) /\ WF_vars(ConsumerNext)
  /\ SF_vars(TakeCalls)

------------------------------------------------------------------------------
(* Properties. *)

TypeOK ==
  /\ \A loc \in DOMAIN mem : mem[loc] \in {Garbage} \union 0 .. MaxBlocks + MaxValues
  /\ \A t \in DOMAIN buf : \A e \in DOMAIN buf[t] : DOMAIN buf[t][e] \in SUBSET DOMAIN mem
  /\ blocks \in Blocks /\ size \in [Blocks -> 1 .. largest]
  /\ count \in -1 .. MaxValues + 1 /\ posted \in 0 .. 1
  /\ taken \in 0 .. sent

\* The producer constructs only where no element lives any more, in a slot that
\* leaves the one after it to the consumer's front.
SlotFree ==
  ppc = "construct" => pr.how = "new" \/ Load(Producer, Data(pr.block, pr.slot)) = Raw

\* "This block must be empty since it's not the head block": the assertion in
\* inner_enqueue().
NextBlockEmpty ==
  ppc = "construct" /\ pr.how = "next" => localFront[pr.block] = pr.slot

\* "We know there's for sure an element to dequeue on it": the assertion in
\* try_dequeue(), pop() and peek().
AdvanceFindsElement ==
  cpc = "advance" => cr.slot # Load(Consumer, Tail_(cr.block))

\* When both threads rest, elements live exactly between front and tail, and none
\* after the destructor.
ElementsAccountedFor ==
  (ppc = "idle" /\ cpc = "idle" /\ \A t \in DOMAIN buf : buf[t] = <<>>) =>
     Cardinality({loc \in DOMAIN mem : loc[1] = "data" /\ mem[loc] # Raw})
        = IF alive THEN sent - taken ELSE 0

\* readerwriterqueue.h: slots, blocks and assertions, whatever order the stores
\* arrive in.
RingSound ==
  TypeOK /\ SlotFree /\ NextBlockEmpty /\ AdvanceFindsElement /\ ElementsAccountedFor

\* A call that ends in this step with the front element in its hands.
Answers == cpc = "element" /\ cpc' = "idle"

\* The consumer gets the values in the order they were sent, each once, and peek()
\* the one that is next.  Emptiness is reported only if the consumer could see no
\* element when the call began, and never with a token of the semaphore in hand:
\* no filled block is skipped.  The producer is refused, or makes a block, only with
\* maxSize elements in the queue.
AnswersInOrder ==
  [][/\ Answers => Load(Consumer, Data(cr.block, cr.slot)) = taken + 1
     /\ cpc = "tail block" /\ cpc' = "idle" =>
          ~cr.some /\ ~(blocking /\ cr.call # "peek")
     /\ ppc = "next" /\ ppc' \in {"idle", "construct"} => pr.held >= setup[1]]_vars

\* Every value sent is taken in the end: no store stays behind, no waiter sleeps
\* through its signal, no time-out keeps a token for itself.
EveryValueArrives ==
  \A n \in 1 .. MaxValues : sent >= n ~> (taken >= n \/ ~alive)

==============================================================================
