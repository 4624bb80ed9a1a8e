----------------------------- MODULE BlockPool -----------------------------
(***************************************************************************)
(* The memory pools of ConcurrentQueue in utility/concurrentqueue.h: the   *)
(* initial array of blocks, and FreeList, a stack of blocks on which one   *)
(* counter per block is a reference count and a flag that says the block   *)
(* should be on the list.  A block is linked only by the thread that       *)
(* brings its count to zero, so its next pointer is stable as long as      *)
(* somebody holds a reference: that is what keeps ABA away without a tag.  *)
(*                                                                         *)
(* One atomic access is one step.                                          *)
(***************************************************************************)
EXTENDS FiniteSets, Sequences, Integers

CONSTANTS
  Threads,
  InitialBlocks,   \* initialBlockPoolSize: the blocks 1, 2, ... of the initial pool
  AllBlocks        \* these and those that create() can allocate

VARIABLES
  initialBlockPoolIndex,
  created,         \* blocks that exist
  freeListHead, freeListNext,
  refs, wanted,    \* freeListRefs: the count, and SHOULD_BE_ON_FREELIST
  held,            \* blocks in the hands of producers
  destroyed,       \* how many times the destructor frees each block
  cpc, cr          \* the threads' steps and registers

pool == <<initialBlockPoolIndex, created, held>>
list == <<freeListHead, freeListNext, refs, wanted>>
threads == <<cpc, cr>>
vars == <<pool, list, destroyed, threads>>

Null == 0

Init ==
  /\ initialBlockPoolIndex = 0
  /\ created = 1 .. InitialBlocks
  /\ freeListHead = Null
  /\ freeListNext = [b \in AllBlocks |-> Null]
  /\ refs = [b \in AllBlocks |-> 0] /\ wanted = [b \in AllBlocks |-> FALSE]
  /\ held = {}
  /\ destroyed = <<>>
  /\ cpc = [t \in Threads |-> "idle"] /\ cr = [t \in Threads |-> <<>>]

Goto(t, step, registers) ==
  cpc' = [cpc EXCEPT ![t] = step] /\ cr' = [cr EXCEPT ![t] = registers]
Return(t) == Goto(t, "idle", <<>>)
Step(t, step) == Goto(t, step, cr[t])

------------------------------------------------------------------------------
(* requisition_block() *)

Requisition(t, canAlloc) ==
  /\ cpc[t] = "idle" /\ destroyed = <<>>
  /\ Goto(t, IF initialBlockPoolIndex >= InitialBlocks THEN "head" ELSE "initial",
          [canAlloc |-> canAlloc])
  /\ UNCHANGED <<pool, list, destroyed>>

\* try_get_block_from_initial_pool(): two threads may take the last index and the one after.
TakeInitial(t) ==
  /\ cpc[t] = "initial"
  /\ initialBlockPoolIndex' = initialBlockPoolIndex + 1
  /\ IF initialBlockPoolIndex < InitialBlocks
     THEN held' = held \union {initialBlockPoolIndex + 1} /\ Return(t)
     ELSE Step(t, "head") /\ UNCHANGED held
  /\ UNCHANGED <<created, list, destroyed>>

\* Both kinds of memory are used up: a new block, if there is memory for one.
WithoutList(t) ==
  \/ Return(t) /\ UNCHANGED <<created, held>>
  \/ /\ cr[t].canAlloc
     /\ \E b \in AllBlocks \ created :
          /\ b - 1 \in created
          /\ created' = created \union {b} /\ held' = held \union {b}
     /\ Return(t)

\* try_get()
LookAt(t, head) ==
  IF head = Null THEN WithoutList(t)
  ELSE Goto(t, "refs", [canAlloc |-> cr[t].canAlloc, head |-> head]) /\ UNCHANGED <<created, held>>

ReadHead(t) ==
  /\ cpc[t] = "head"
  /\ LookAt(t, freeListHead)
  /\ UNCHANGED <<initialBlockPoolIndex, list, destroyed>>

ReadRefs(t) ==
  LET b == cr[t].head IN
  /\ cpc[t] = "refs"
  /\ IF refs[b] = 0 THEN Step(t, "head")
     ELSE Goto(t, "ref", [canAlloc |-> cr[t].canAlloc, head |-> b,
                          refs |-> refs[b], wanted |-> wanted[b]])
  /\ UNCHANGED <<pool, list, destroyed>>

AddRef(t) ==
  LET b == cr[t].head IN
  /\ cpc[t] = "ref"
  /\ IF refs[b] = cr[t].refs /\ wanted[b] = cr[t].wanted
     THEN refs' = [refs EXCEPT ![b] = @ + 1] /\ Step(t, "next")
     ELSE UNCHANGED refs /\ Step(t, "head")
  /\ UNCHANGED <<pool, freeListHead, freeListNext, wanted, destroyed>>

ReadNext(t) ==
  /\ cpc[t] = "next"
  /\ Goto(t, "pop", [canAlloc |-> cr[t].canAlloc, head |-> cr[t].head,
                     next |-> freeListNext[cr[t].head]])
  /\ UNCHANGED <<pool, list, destroyed>>

\* A failed exchange leaves the head of now in the register.
Pop(t) ==
  /\ cpc[t] = "pop"
  /\ IF freeListHead = cr[t].head
     THEN freeListHead' = cr[t].next /\ Step(t, "taken")
     ELSE /\ Goto(t, "unref", [canAlloc |-> cr[t].canAlloc, head |-> freeListHead,
                               block |-> cr[t].head])
          /\ UNCHANGED freeListHead
  /\ UNCHANGED <<pool, freeListNext, refs, wanted, destroyed>>

\* "Decrease refcount twice, once for our ref, and once for the list's ref."
Taken(t) ==
  LET b == cr[t].head IN
  /\ cpc[t] = "taken"
  /\ refs' = [refs EXCEPT ![b] = @ - 2]
  /\ held' = held \union {b}
  /\ Return(t)
  /\ UNCHANGED <<initialBlockPoolIndex, created, freeListHead, freeListNext, wanted, destroyed>>

\* Mutant: it does not look whether a block should be on the list.
UnrefForgetful(t) ==
  LET b == cr[t].block IN
  /\ cpc[t] = "unref"
  /\ refs' = [refs EXCEPT ![b] = @ - 1]
  /\ LookAt(t, cr[t].head)
  /\ UNCHANGED <<initialBlockPoolIndex, freeListHead, freeListNext, wanted, destroyed>>

\* The one that gives the last reference back links a block that should be on the list.
Unref(t) ==
  LET b == cr[t].block IN
  /\ cpc[t] = "unref"
  /\ refs' = [refs EXCEPT ![b] = @ - 1]
  /\ IF wanted[b] /\ refs[b] = 1
     THEN Step(t, "link") /\ UNCHANGED <<created, held>>
     ELSE LookAt(t, cr[t].head)
  /\ UNCHANGED <<initialBlockPoolIndex, freeListHead, freeListNext, wanted, destroyed>>

------------------------------------------------------------------------------
(* add() *)

Add(t, b) ==
  /\ cpc[t] = "idle" /\ destroyed = <<>> /\ b \in held
  /\ held' = held \ {b}
  /\ wanted' = [wanted EXCEPT ![b] = TRUE]
  /\ IF refs[b] = 0 THEN Goto(t, "link", [block |-> b]) ELSE Return(t)
  /\ UNCHANGED <<initialBlockPoolIndex, created, freeListHead, freeListNext, refs, destroyed>>

\* add_knowing_refcount_is_zero(), which a thread in try_get() runs as well and then
\* goes on with the head it had seen.
ReadListHead(t) ==
  /\ cpc[t] = "link"
  /\ cpc' = [cpc EXCEPT ![t] = "store next"]
  /\ cr' = [cr EXCEPT ![t] = [x \in DOMAIN @ \union {"old"} |->
                                IF x = "old" THEN freeListHead ELSE @[x]]]
  /\ UNCHANGED <<pool, list, destroyed>>

StoreNext(t) ==
  /\ cpc[t] = "store next"
  /\ freeListNext' = [freeListNext EXCEPT ![cr[t].block] = cr[t].old]
  /\ Step(t, "store refs")
  /\ UNCHANGED <<pool, freeListHead, refs, wanted, destroyed>>

StoreRefs(t) ==
  /\ cpc[t] = "store refs"
  /\ refs' = [refs EXCEPT ![cr[t].block] = 1]
  /\ wanted' = [wanted EXCEPT ![cr[t].block] = FALSE]
  /\ Step(t, "push")
  /\ UNCHANGED <<pool, freeListHead, freeListNext, destroyed>>

EndLink(t) ==
  IF "head" \in DOMAIN cr[t] THEN LookAt(t, cr[t].head)
  ELSE Return(t) /\ UNCHANGED <<created, held>>

Push(t) ==
  /\ cpc[t] = "push"
  /\ IF freeListHead = cr[t].old
     THEN freeListHead' = cr[t].block /\ EndLink(t)
     ELSE /\ Goto(t, "retry", [cr[t] EXCEPT !.old = freeListHead])
          /\ UNCHANGED <<freeListHead, created, held>>
  /\ UNCHANGED <<initialBlockPoolIndex, freeListNext, refs, wanted, destroyed>>

\* "We can only try again when the refcount goes back to zero."
Retry(t) ==
  LET b == cr[t].block IN
  /\ cpc[t] = "retry"
  /\ wanted' = [wanted EXCEPT ![b] = TRUE]
  /\ refs' = [refs EXCEPT ![b] = @ - 1]
  /\ IF refs[b] = 1 /\ ~wanted[b] THEN Step(t, "store next") /\ UNCHANGED <<created, held>>
     ELSE EndLink(t)
  /\ UNCHANGED <<initialBlockPoolIndex, freeListHead, freeListNext, destroyed>>

------------------------------------------------------------------------------
\* The blocks of the list, as far as the number of blocks allows to follow it.
Listed ==
  LET Down[n \in 0 .. Cardinality(AllBlocks)] ==
        IF n = 0 THEN <<freeListHead>>
        ELSE LET s == Down[n - 1] IN
             IF s[n] = Null THEN Append(s, Null) ELSE Append(s, freeListNext[s[n]])
  IN  [b \in AllBlocks |->
         Cardinality({n \in 1 .. Cardinality(AllBlocks) + 1 : Down[Cardinality(AllBlocks)][n] = b})]

AtRest == \A t \in Threads : cpc[t] = "idle"

\* ~ConcurrentQueue(): the producers have returned their blocks; what is on the list and
\* was allocated is destroyed, and so is the initial array.
Destroy ==
  /\ destroyed = <<>> /\ AtRest /\ held = {}
  /\ destroyed' = [b \in AllBlocks |-> IF b <= InitialBlocks THEN 1 ELSE Listed[b]]
  /\ UNCHANGED <<pool, list, threads>>

Next ==
  \/ \E t \in Threads, canAlloc \in BOOLEAN : Requisition(t, canAlloc)
  \/ \E t \in Threads, b \in AllBlocks : Add(t, b)
  \/ \E t \in Threads :
       \/ TakeInitial(t) \/ ReadHead(t) \/ ReadRefs(t) \/ AddRef(t) \/ ReadNext(t) \/ Pop(t)
       \/ Taken(t) \/ Unref(t)
       \/ ReadListHead(t) \/ StoreNext(t) \/ StoreRefs(t) \/ Push(t) \/ Retry(t)
  \/ Destroy

Spec == Init /\ [][Next]_vars

------------------------------------------------------------------------------
(* Properties. *)

\* try_get()'s assertion, and what it is for: a block that has just been popped is in
\* nobody's hands and nobody is about to put it on the list.
PoppedExclusively ==
  \A t \in Threads : cpc[t] = "taken" =>
    /\ ~wanted[cr[t].head] /\ cr[t].head \notin held
    /\ \A u \in Threads \ {t} :
         /\ cpc[u] = "taken" => cr[u].head # cr[t].head
         /\ cpc[u] \in {"link", "store next", "store refs", "push", "retry"} =>
              cr[u].block # cr[t].head

\* "We run only one copy of this method per node at a time."
LinkedByOne ==
  \A t, u \in Threads :
    /\ t # u /\ {cpc[t], cpc[u]} \subseteq {"link", "store next", "store refs"}
         => cr[t].block # cr[u].block
    /\ cpc[t] \in {"store next", "store refs"} => refs[cr[t].block] = 0

\* At rest nothing is lost and nothing is in two places: a block that exists and has
\* been handed out is held or on the list, where it is once.
EveryBlockOnce ==
  AtRest => \A b \in created :
    Listed[b] = IF b \in held \/ (b <= InitialBlocks /\ b > initialBlockPoolIndex) THEN 0 ELSE 1

\* The destructor frees every block once.
FreedOnce == destroyed # <<>> => \A b \in created : destroyed[b] = 1

PoolSound ==
  /\ refs \in [AllBlocks -> Nat] /\ held \subseteq created
  /\ PoppedExclusively /\ LinkedByOne /\ EveryBlockOnce /\ FreedOnce
==============================================================================
