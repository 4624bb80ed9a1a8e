-------------------------- MODULE FreelistMCProofs --------------------------
(***************************************************************************)
(* cache_freelist loses no node, hands none out twice and installs no      *)
(* stale link, for every number of threads and nodes.  Its list is that of *)
(* fixed_size_freelist with the allocator as one more client, which holds  *)
(* the nodes of heap: what FreelistProofs shows of the one holds of the    *)
(* other once that is said.  At the end, the same of ConcurrentQueue's     *)
(* free list, which BlockPoolProofs is about.                              *)
(***************************************************************************)
EXTENDS FreelistMC, TLAPS

Core == INSTANCE FreelistProofs WITH
           pool <- cpool, next <- cnext, live <- clive \cup heap, pc <- cpc, node <- cnode,
           old <- cold, nxt <- cnxt, overtaken <- covertaken
Counting == INSTANCE BlockPoolProofs WITH Threads <- PoolThreads, cpc <- bpc, cr <- br

Inv == Core!IInv /\ heap \subseteq Cache!Nodes /\ heap \cap clive = {}

(* The constants and the operators that mention no variable are the same.  *)
LEMMA CoreConstants ==
    /\ Core!Index = Index /\ Core!Index = Cache!Index
    /\ Core!Tag = Cache!Tag /\ Core!Null = Cache!Null
    /\ Core!Slots = Cache!Slots /\ Core!Nodes = Cache!Nodes
    /\ Core!NoPool = Cache!NoPool /\ Core!TaggedIndex = Cache!TaggedIndex
    /\ \A g : Core!GetNextTag(g) = Cache!GetNextTag(g)
<1>1. /\ Core!Index = Index /\ Core!Index = Cache!Index
      /\ Core!Tag = Cache!Tag /\ Core!Null = Cache!Null
  BY DEF Index, Core!Index, Core!Tag, Core!Null, Cache!Index, Cache!Tag, Cache!Null
<1>. QED
  BY <1>1
     DEF Core!Slots, Core!Nodes, Core!NoPool, Core!TaggedIndex, Core!GetNextTag,
         Cache!Slots, Cache!Nodes, Cache!NoPool, Cache!TaggedIndex, Cache!GetNextTag

LEMMA CoreStep == Core!IInv /\ [Core!Next]_(Core!vars) => Core!IInv'
BY Core!NextInvariant, SizeAssumption, OvertakeAssumption, ClientAssumption,
   CoreConstants

(* A step of the fixed list that leaves the client and the allocator alone *)
(* is that step of the list whose client is both.                          *)
LEMMA SharedSteps ==
    ASSUME NEW t \in Threads, heap' = heap,
           \/ Cache!AllocLoad(t) \/ Cache!AllocRetry(t) \/ Cache!AllocReadNext(t)
           \/ Cache!AllocSucceed(t) \/ Cache!ReturnNull(t) \/ Cache!DeallocLink(t)
           \/ Cache!DeallocSucceed(t) \/ Cache!DeallocRetry(t) \/ Cache!AllocUnsafe(t)
    PROVE  Core!Next
<1>1. (clive \cup heap)' = clive \cup heap
  BY DEF Cache!AllocLoad, Cache!AllocRetry, Cache!AllocReadNext, Cache!AllocSucceed,
         Cache!ReturnNull, Cache!DeallocLink, Cache!DeallocSucceed,
         Cache!DeallocRetry, Cache!AllocUnsafe
<1>2. ASSUME Cache!AllocLoad(t) \/ Cache!AllocRetry(t)
      PROVE  Core!AllocLoad(t) \/ Core!AllocRetry(t)
  BY <1>1, <1>2, CoreConstants
     DEF Cache!AllocLoad, Cache!AllocRetry, Cache!Examine, Cache!Goto, Cache!Forget,
         Core!AllocLoad, Core!AllocRetry, Core!Examine, Core!Goto, Core!Forget
<1>3. ASSUME Cache!AllocSucceed(t) PROVE Core!AllocSucceed(t)
  <2>1. Cache!MayOvertake(t) => Core!MayOvertake(t)
    BY DEF Cache!MayOvertake, Core!MayOvertake, Cache!Allocating, Core!Allocating
  <2>. QED
    BY <1>1, <1>3, <2>1, CoreConstants
       DEF Cache!AllocSucceed, Cache!Goto, Cache!Forget, Cache!Allocating,
           Core!AllocSucceed, Core!Goto, Core!Forget, Core!Allocating
<1>4. ASSUME Cache!AllocReadNext(t) \/ Cache!ReturnNull(t)
      PROVE  Core!AllocReadNext(t) \/ Core!ReturnNull(t)
  BY <1>1, <1>4 DEF Cache!AllocReadNext, Cache!ReturnNull, Cache!Goto,
                    Core!AllocReadNext, Core!ReturnNull, Core!Goto
<1>5. ASSUME Cache!DeallocLink(t) \/ Cache!DeallocSucceed(t) \/ Cache!DeallocRetry(t)
      PROVE  Core!DeallocLink(t) \/ Core!DeallocSucceed(t) \/ Core!DeallocRetry(t)
  BY <1>1, <1>5, CoreConstants
     DEF Cache!DeallocLink, Cache!DeallocSucceed, Cache!DeallocRetry, Cache!Goto,
         Cache!Forget, Core!DeallocLink, Core!DeallocSucceed, Core!DeallocRetry,
         Core!Goto, Core!Forget
<1>6. ASSUME Cache!AllocUnsafe(t) PROVE Core!AllocUnsafe(t)
  BY <1>1, <1>6, CoreConstants
     DEF Cache!AllocUnsafe, Cache!Quiet, Cache!Goto, Core!AllocUnsafe, Core!Quiet,
         Core!Goto
<1>. QED
  BY <1>2, <1>3, <1>4, <1>5, <1>6 DEF Core!Next, Core!Step

LEMMA ClientSteps ==
    ASSUME Inv, heap' = heap,
           \/ \E t \in Threads : Cache!Construct(t) \/ Cache!DeallocLoad(t)
           \/ Cache!DeallocUnsafe \/ Cache!ClientWrite
    PROVE  Core!Next /\ heap' \cap clive' = {}
<1>1. ASSUME NEW t \in Threads, Cache!Construct(t)
      PROVE  Core!Construct(t) /\ heap' \cap clive' = {}
  <2>1. (clive \cup heap)' = clive \cup heap \cup {cnode[t]} /\ clive' = clive \cup {cnode[t]}
    BY <1>1 DEF Cache!Construct
  <2>2. cnode[t] \notin heap
    BY <1>1 DEF Cache!Construct, Inv, Core!IInv, Core!Exclusive, Core!Owning
  <2>. QED
    BY <1>1, <2>1, <2>2
       DEF Inv, Cache!Construct, Cache!Goto, Core!Construct, Core!Goto, Cache!Null,
           Core!Null
<1>2. ASSUME NEW t \in Threads, Cache!DeallocLoad(t)
      PROVE  Core!DeallocLoad(t) /\ heap' \cap clive' = {}
  <2>1. PICK n \in clive : clive' = clive \ {n} /\ cnode' = [cnode EXCEPT ![t] = n]
    BY <1>2 DEF Cache!DeallocLoad
  <2>2. n \in clive \cup heap /\ (clive \cup heap)' = (clive \cup heap) \ {n}
    BY <2>1 DEF Inv
  <2>. QED
    BY <1>2, <2>1, <2>2
       DEF Inv, Cache!DeallocLoad, Cache!Goto, Core!DeallocLoad, Core!Goto
<1>3. ASSUME Cache!DeallocUnsafe
      PROVE  Core!DeallocUnsafe /\ heap' \cap clive' = {}
  <2>1. PICK n \in clive : /\ cpool' = [cpool EXCEPT !.index = n]
                          /\ cnext' = [cnext EXCEPT ![n] = cpool.index]
                          /\ clive' = clive \ {n}
    BY <1>3 DEF Cache!DeallocUnsafe
  <2>2. n \in clive \cup heap /\ (clive \cup heap)' = (clive \cup heap) \ {n}
    BY <2>1 DEF Inv
  <2>. QED
    BY <1>3, <2>1, <2>2
       DEF Inv, Cache!DeallocUnsafe, Cache!Quiet, Core!DeallocUnsafe, Core!Quiet
<1>4. ASSUME Cache!ClientWrite
      PROVE  Core!ClientWrite /\ heap' \cap clive' = {}
  BY <1>4 DEF Inv, Cache!ClientWrite, Core!ClientWrite
<1>. QED
  BY <1>1, <1>2, <1>3, <1>4 DEF Core!Next, Core!Step

(* reserve() gives a node of the allocator's to the list as destruct()     *)
(* does one of the client's.                                               *)
LEMMA ReserveSteps ==
    ASSUME Inv, Cache!ReserveUnsafe \/ \E t \in Threads : Cache!Reserve(t)
    PROVE  Core!Next /\ heap' \subseteq heap /\ clive' = clive
<1>1. ASSUME NEW t \in Threads, Cache!Reserve(t)
      PROVE  Core!DeallocLoad(t) /\ heap' \subseteq heap /\ clive' = clive
  <2>1. PICK n \in heap : heap' = heap \ {n} /\ cnode' = [cnode EXCEPT ![t] = n]
    BY <1>1 DEF Cache!Reserve
  <2>2. /\ clive' = clive /\ n \in clive \cup heap
        /\ (clive \cup heap)' = (clive \cup heap) \ {n}
    BY <1>1, <2>1 DEF Inv, Cache!Reserve
  <2>. QED
    BY <1>1, <2>1, <2>2 DEF Cache!Reserve, Cache!Goto, Core!DeallocLoad, Core!Goto
<1>2. ASSUME Cache!ReserveUnsafe
      PROVE  Core!DeallocUnsafe /\ heap' \subseteq heap /\ clive' = clive
  <2>1. PICK n \in heap : /\ heap' = heap \ {n}
                          /\ cnext' = [cnext EXCEPT ![n] = cpool.index]
                          /\ cpool' = [cpool EXCEPT !.index = n]
    BY <1>2 DEF Cache!ReserveUnsafe
  <2>2. /\ clive' = clive /\ n \in clive \cup heap
        /\ (clive \cup heap)' = (clive \cup heap) \ {n}
    BY <1>2, <2>1 DEF Inv, Cache!ReserveUnsafe
  <2>. QED
    BY <1>2, <2>1, <2>2
       DEF Cache!ReserveUnsafe, Cache!Quiet, Core!DeallocUnsafe, Core!Quiet
<1>. QED
  BY <1>1, <1>2 DEF Core!Next

LEMMA CoreFreeMember ==
    ASSUME NEW n
    PROVE  /\ n \in Core!Free <=> /\ n \in Cache!Nodes /\ n \notin clive \cup heap
                                  /\ \A u \in Threads : Cache!Owning(u) => cnode[u] # n
           /\ n \in Core!Free' <=> /\ n \in Cache!Nodes /\ n \notin (clive \cup heap)'
                                   /\ \A u \in Threads : Cache!Owning(u)' => cnode'[u] # n
BY CoreConstants DEF Core!Free, Core!Owned, Core!Owning, Cache!Owning

(* The steps that fixed_size_freelist has not: an allocation that found    *)
(* the list empty leaves with a node of the allocator's, or without.       *)
LEMMA LeaveStep ==
    ASSUME Inv, NEW t \in Threads, ~Cache!Owning(t),
           UNCHANGED <<cpool, cnext, clive, cnode, heap>>,
           Cache!Goto(t, "idle"), Cache!Forget(t),
           covertaken' = [covertaken EXCEPT ![t] = 0]
    PROVE  Core!IInv'
<1>1. \A u \in Threads : /\ Cache!Owning(u)' <=> Cache!Owning(u)
                         /\ u # t => /\ cpc'[u] = cpc[u] /\ cold'[u] = cold[u]
                                     /\ cnxt'[u] = cnxt[u] /\ covertaken'[u] = covertaken[u]
                         /\ cpc'[t] = "idle"
  BY DEF Inv, Core!IInv, Core!TypeOK, Cache!Goto, Cache!Forget, Cache!Owning
<1>2. Core!Free' = Core!Free
  BY <1>1, CoreFreeMember
<1>3. Core!TypeOK'
  <2>1. /\ 0 \in 0 .. MaxOvertake
        /\ Cache!NoPool \in Cache!TaggedIndex /\ Cache!Null \in Cache!Index
    <3>1. Cache!Null \in Cache!Index
      BY Core!NullInIndex, SizeAssumption, OvertakeAssumption, ClientAssumption,
         CoreConstants
    <3>. QED
      BY <3>1, SizeAssumption, OvertakeAssumption
         DEF Cache!Tag, Cache!NoPool, Cache!TaggedIndex
  <2>2. /\ cold' \in [Threads -> Cache!TaggedIndex] /\ cnxt' \in [Threads -> Cache!Index]
        /\ covertaken' \in [Threads -> 0 .. MaxOvertake]
        /\ cpc' \in [Threads -> {"idle", "a_next", "a_cas", "construct", "null",
                              "d_link", "d_cas"}]
    BY <2>1, CoreConstants DEF Inv, Core!IInv, Core!TypeOK, Cache!Goto, Cache!Forget
  <2>. QED
    BY <1>1, <2>2, CoreConstants
       DEF Inv, Core!IInv, Core!TypeOK, Core!Owning, Core!Allocating, Cache!Owning
<1>. QED
  BY <1>1, <1>2, <1>3
     DEF Inv, Core!IInv, Core!Exclusive, Core!FreeListIntact, Core!StalledAttempts,
         Core!PushesLinked, Core!Owning, Core!Allocating, Cache!Owning

LEMMA GrowStep ==
    ASSUME Inv, NEW t \in Threads, ~Cache!Owning(t),
           UNCHANGED <<cpool, cnext, clive>>,
           Cache!Grow(t), Cache!Forget(t), covertaken' = [covertaken EXCEPT ![t] = 0]
    PROVE  Core!IInv' /\ heap' \subseteq heap
<1>1. PICK n \in heap : heap' = heap \ {n} /\ cnode' = [cnode EXCEPT ![t] = n]
  BY DEF Cache!Grow
<1>2. /\ n \in Cache!Nodes /\ n \notin clive /\ (clive \cup heap)' = (clive \cup heap) \ {n}
      /\ Cache!Owning(t)' /\ cnode'[t] = n
  BY <1>1 DEF Inv, Core!IInv, Core!TypeOK, Cache!Grow, Cache!Goto, Cache!Owning
<1>3. \A u \in Threads : /\ u # t => /\ cpc'[u] = cpc[u] /\ cold'[u] = cold[u]
                                     /\ cnxt'[u] = cnxt[u] /\ covertaken'[u] = covertaken[u]
                                     /\ cnode'[u] = cnode[u]
                                     /\ Cache!Owning(u)' <=> Cache!Owning(u)
                         /\ cpc'[t] = "construct"
  BY <1>1
     DEF Inv, Core!IInv, Core!TypeOK, Cache!Grow, Cache!Goto, Cache!Forget,
         Cache!Owning
<1>4. \A u \in Threads : Cache!Owning(u) => cnode[u] # n
  BY <1>1 DEF Inv, Core!IInv, Core!Exclusive, Core!Owning, Cache!Owning
<1>5. Core!Free' = Core!Free
  BY <1>1, <1>2, <1>3, <1>4, CoreFreeMember
<1>6. Core!TypeOK'
  <2>1. /\ 0 \in 0 .. MaxOvertake
        /\ Cache!NoPool \in Cache!TaggedIndex /\ Cache!Null \in Cache!Index
    <3>1. Cache!Null \in Cache!Index
      BY Core!NullInIndex, SizeAssumption, OvertakeAssumption, ClientAssumption,
         CoreConstants
    <3>. QED
      BY <3>1, SizeAssumption, OvertakeAssumption
         DEF Cache!Tag, Cache!NoPool, Cache!TaggedIndex
  <2>2. /\ cold' \in [Threads -> Cache!TaggedIndex] /\ cnxt' \in [Threads -> Cache!Index]
        /\ covertaken' \in [Threads -> 0 .. MaxOvertake]
        /\ cpc' \in [Threads -> {"idle", "a_next", "a_cas", "construct", "null",
                              "d_link", "d_cas"}]
    BY <2>1, CoreConstants
       DEF Inv, Core!IInv, Core!TypeOK, Cache!Grow, Cache!Goto, Cache!Forget
  <2>3. cnode' \in [Threads -> Cache!Index]
    BY <1>1, <1>2, CoreConstants
       DEF Inv, Core!IInv, Core!TypeOK, Cache!Nodes, Cache!Slots
  <2>4. (clive \cup heap)' \subseteq Cache!Nodes
    BY <1>2, CoreConstants DEF Inv, Core!IInv, Core!TypeOK
  <2>. QED
    BY <1>2, <1>3, <2>2, <2>3, <2>4, CoreConstants
       DEF Inv, Core!IInv, Core!TypeOK, Core!Owning, Core!Allocating, Cache!Owning
<1>7. Core!Exclusive'
  BY <1>2, <1>3, <1>4 DEF Inv, Core!IInv, Core!Exclusive, Core!Owning, Cache!Owning
<1>. QED
  BY <1>1, <1>3, <1>5, <1>6, <1>7
     DEF Inv, Core!IInv, Core!FreeListIntact, Core!StalledAttempts,
         Core!PushesLinked, Core!Owning, Core!Allocating, Cache!Owning

LEMMA FindEmptyStep ==
    ASSUME Inv, NEW t \in Threads, NEW b \in BOOLEAN, cpc[t] \in {"idle", "a_cas"},
           Cache!FindEmpty(t, b)
    PROVE  Core!IInv' /\ heap' \subseteq heap /\ clive' = clive
<1>1. ~Cache!Owning(t) /\ UNCHANGED <<cpool, cnext, clive>>
  BY DEF Cache!FindEmpty, Cache!Owning
<1>2. CASE Cache!Goto(t, "null") /\ UNCHANGED <<cnode, heap>>
  <2>1. Core!AllocLoad(t) \/ Core!AllocRetry(t)
    BY <1>1, <1>2, CoreConstants
       DEF Cache!FindEmpty, Cache!Goto, Cache!Forget, Core!AllocLoad, Core!AllocRetry,
           Core!Examine, Core!Goto, Core!Forget
  <2>2. Core!Next
    BY <2>1 DEF Core!Next, Core!Step
  <2>. QED
    BY <1>1, <1>2, <2>2, CoreStep DEF Inv
<1>3. CASE Cache!Goto(t, "idle") /\ UNCHANGED <<cnode, heap>>
  BY <1>1, <1>3, LeaveStep DEF Cache!FindEmpty
<1>4. CASE Cache!Grow(t)
  BY <1>1, <1>4, GrowStep DEF Cache!FindEmpty
<1>. QED
  BY <1>2, <1>3, <1>4 DEF Cache!FindEmpty

(* The destructor's walk.  Onward(A) is one round of it, and Walk(g, m, n) *)
(* says that g holds the nodes that m rounds from n have visited.          *)
Onward(A) == A \cup ({cnext[i] : i \in A} \ {Cache!Null})

Walk(g, m, n) ==
    g = [k \in 0 .. m |-> IF k = 0 THEN {n} \ {Cache!Null} ELSE Onward(g[k - 1])]

LEMMA WalkSteps ==
    ASSUME NEW m \in Nat, NEW n, NEW g
    PROVE  Walk(g, m, n) <=> /\ g = [k \in 0 .. m |-> g[k]]
                             /\ g[0] = {n} \ {Cache!Null}
                             /\ \A j \in 1 .. m : g[j] = Onward(g[j - 1])
<1> DEFINE W(k) == IF k = 0 THEN {n} \ {Cache!Null} ELSE Onward(g[k - 1])
<1>1. Walk(g, m, n) <=> g = [k \in 0 .. m |-> W(k)]
  BY DEF Walk
<1>2. W(0) = {n} \ {Cache!Null} /\ \A j \in 1 .. m : W(j) = Onward(g[j - 1])
  OBVIOUS
<1>3. \A j \in 0 .. m : j = 0 \/ j \in 1 .. m
  OBVIOUS
<1>4. 0 \in 0 .. m /\ \A j \in 1 .. m : j \in 0 .. m
  OBVIOUS
<1> HIDE DEF W
<1>5. g = [k \in 0 .. m |-> W(k)]
        <=> g = [k \in 0 .. m |-> g[k]] /\ \A j \in 0 .. m : g[j] = W(j)
  BY Zenon
<1>. QED
  BY <1>1, <1>2, <1>3, <1>4, <1>5, Zenon

LEMMA WalkExists == \A n : \A m \in Nat : \E g : Walk(g, m, n)
<1> SUFFICES ASSUME NEW n, NEW m \in Nat PROVE \E g : Walk(g, m, n)
  OBVIOUS
<1> DEFINE T == {k \in Nat : \E g : Walk(g, k, n)}
<1>1. 0 \in T
  <2>1. Walk([k \in 0 .. 0 |-> {n} \ {Cache!Null}], 0, n)
    BY DEF Walk
  <2>. QED
    BY <2>1
<1>2. ASSUME NEW k \in Nat, k \in T PROVE k + 1 \in T
  <2>1. PICK g : Walk(g, k, n)
    BY <1>2
  <2> DEFINE h == [j \in 0 .. k + 1 |-> IF j = k + 1 THEN Onward(g[k]) ELSE g[j]]
  <2>2. h = [j \in 0 .. k + 1 |-> h[j]]
    OBVIOUS
  <2>3. h[k + 1] = Onward(g[k]) /\ \A j \in 0 .. k : h[j] = g[j]
    OBVIOUS
  <2>4. g[0] = {n} \ {Cache!Null} /\ \A j \in 1 .. k : g[j] = Onward(g[j - 1])
    BY <2>1, WalkSteps
  <2> HIDE DEF h
  <2>5. \A j \in 1 .. k + 1 : h[j] = Onward(h[j - 1])
    <3>1. \A j \in 1 .. k + 1 : /\ j = k + 1 \/ j \in 1 .. k
                                /\ j - 1 \in 0 .. k
                                /\ j = k + 1 => j - 1 = k
      OBVIOUS
    <3>2. \A j \in 1 .. k : j \in 0 .. k
      OBVIOUS
    <3>. QED
      BY <2>3, <2>4, <3>1, <3>2, Zenon
  <2>6. Walk(h, k + 1, n)
    <3>1. h[0] = g[0] /\ k + 1 \in Nat
      BY <2>3
    <3>. QED
      BY <2>2, <2>4, <2>5, <3>1, WalkSteps
  <2>. QED
    BY <2>6
<1>. HIDE DEF T
<1>3. 0 .. m \subseteq T
  BY <1>1, <1>2, Counting!SetInduction
<1>. QED
  BY <1>3 DEF T

LEMMA ListedUnfolded == \A n : \E g : Walk(g, Count, n) /\ Cache!Listed(n) = g[Count]
<1> SUFFICES ASSUME NEW n PROVE \E g : Walk(g, Count, n) /\ Cache!Listed(n) = g[Count]
  OBVIOUS
<1> DEFINE g == CHOOSE f : Walk(f, Count, n)
<1>1. Walk(g, Count, n)
  BY WalkExists, SizeAssumption
<1>2. Cache!Listed(n) = g[Count]
  BY DEF Cache!Listed, Walk, Onward
<1>. QED
  BY <1>1, <1>2

(* It visits the list, all of it and nothing else.                         *)
LEMMA WalkVisits ==
    ASSUME NEW S, Cache!Chained(cpool.index, cnext, S)
    PROVE  Cache!Listed(cpool.index) = S
<1>1. PICK k \in 0 .. Count : \E c \in [1 .. k -> Cache!Nodes] :
                                 Cache!IsChain(c, k, cpool.index, cnext, S)
  BY DEF Cache!Chained
<1>2. PICK c \in [1 .. k -> Cache!Nodes] : Cache!IsChain(c, k, cpool.index, cnext, S)
  BY <1>1
<1>3. /\ cpool.index = IF k = 0 THEN Cache!Null ELSE c[1]
      /\ \A i \in 1 .. k : cnext[c[i]] = IF i = k THEN Cache!Null ELSE c[i + 1]
      /\ S = {c[i] : i \in 1 .. k}
      /\ Cache!Null \notin S
  BY <1>2 DEF Cache!IsChain, Cache!Nodes
<1>4. PICK g : Walk(g, Count, cpool.index) /\ Cache!Listed(cpool.index) = g[Count]
  BY ListedUnfolded
<1>5. /\ g[0] = {cpool.index} \ {Cache!Null}
      /\ \A j \in 1 .. Count : g[j] = Onward(g[j - 1])
  BY <1>4, SizeAssumption, WalkSteps
<1>6. \A j \in 0 .. Count - 1 : g[j + 1] = Onward(g[j])
  BY <1>5, SizeAssumption
<1>7. Count \in Nat
  BY SizeAssumption
<1>8. g[Count] \subseteq S
  <2> DEFINE T == {j \in Nat : g[j] \subseteq S}
  <2>1. 0 \in T
    BY <1>3, <1>5
  <2>2. ASSUME NEW j \in 0 .. Count - 1, j \in T PROVE j + 1 \in T
    <3>1. \A n \in S : cnext[n] \in S \cup {Cache!Null}
      BY <1>3
    <3>. QED
      BY <3>1, <2>2, <1>6 DEF Onward
  <2>. HIDE DEF T
  <2>3. 0 .. Count \subseteq T
    BY <2>1, <2>2, <1>7, Counting!SetInduction
  <2>. QED
    BY <2>3, <1>7 DEF T
<1>9. S \subseteq g[Count]
  <2> DEFINE T == {j \in Nat : \A i \in 1 .. k : i <= j + 1 => c[i] \in g[j]}
  <2>1. 0 \in T
    <3>1. \A i \in 1 .. k : i <= 1 => c[i] = cpool.index /\ c[i] \in S
      BY <1>3
    <3>. QED
      BY <3>1, <1>3, <1>5
  <2>2. ASSUME NEW j \in 0 .. Count - 1, j \in T PROVE j + 1 \in T
    <3>1. SUFFICES ASSUME NEW i \in 1 .. k, i <= j + 2 PROVE c[i] \in g[j + 1]
      OBVIOUS
    <3>2. CASE i <= j + 1
      BY <3>2, <2>2, <1>6 DEF Onward
    <3>3. CASE i = j + 2
      <4>1. i - 1 \in 1 .. k /\ i - 1 <= j + 1 /\ i - 1 # k
        BY <3>3
      <4>2. cnext[c[i - 1]] = c[i]
        BY <4>1, <1>3
      <4>3. c[i - 1] \in g[j] /\ c[i] # Cache!Null
        BY <4>1, <2>2, <1>3
      <4>. QED
        BY <4>2, <4>3, <1>6 DEF Onward
    <3>. QED
      BY <3>1, <3>2, <3>3
  <2>. HIDE DEF T
  <2>3. 0 .. Count \subseteq T
    BY <2>1, <2>2, <1>7, Counting!SetInduction
  <2>4. Count \in T
    BY <2>3, <1>7
  <2>. QED
    BY <2>4, <1>3, <1>7 DEF T
<1>. QED
  BY <1>4, <1>8, <1>9

LEMMA SameChains ==
    \A top, link, S : Core!Chained(top, link, S) <=> Cache!Chained(top, link, S)
BY CoreConstants DEF Core!Chained, Core!IsChain, Cache!Chained, Cache!IsChain

LEMMA EmptyChain == \A link : Cache!Chained(Cache!Null, link, {})
<1> SUFFICES ASSUME NEW link PROVE Cache!Chained(Cache!Null, link, {})
  OBVIOUS
<1> DEFINE c == [i \in 1 .. 0 |-> Cache!Null]
<1>1. c \in [1 .. 0 -> Cache!Nodes] /\ 0 \in 0 .. Count
  BY SizeAssumption
<1>2. Cache!IsChain(c, 0, Cache!Null, link, {})
  BY DEF Cache!IsChain
<1>. QED
  BY <1>1, <1>2 DEF Cache!Chained

LEMMA DestroyStep ==
    ASSUME Inv, Cache!Destroy
    PROVE  Inv'
<1>1. \A u \in Threads : /\ ~Cache!Owning(u) /\ ~Cache!Owning(u)'
                         /\ ~Core!Owning(u)' /\ ~Core!Allocating(u)' /\ cpc'[u] = "idle"
  BY DEF Cache!Destroy, Cache!Quiet, Cache!Owning, Core!Owning, Core!Allocating
<1>2. Cache!Listed(cpool.index) = Core!Free
  BY SameChains, WalkVisits DEF Inv, Core!IInv, Core!FreeListIntact
<1>3. heap' = Cache!Nodes /\ clive' = {}
  BY <1>1, <1>2, CoreFreeMember DEF Inv, Cache!Destroy
<1>4. Core!Free' = {}
  BY <1>3, CoreFreeMember
<1>5. Core!FreeListIntact'
  BY <1>4, EmptyChain, SameChains DEF Cache!Destroy, Cache!NoPool, Core!FreeListIntact
<1>6. Core!TypeOK'
  <2>1. Cache!NoPool \in Cache!TaggedIndex
    <3>1. Cache!Null \in Cache!Index
      BY Core!NullInIndex, SizeAssumption, OvertakeAssumption, ClientAssumption,
         CoreConstants
    <3>. QED
      BY <3>1, SizeAssumption DEF Cache!Tag, Cache!NoPool, Cache!TaggedIndex
  <2>. QED
    BY <1>1, <1>3, <2>1, CoreConstants DEF Cache!Destroy, Inv, Core!IInv, Core!TypeOK
<1>7. Core!Exclusive' /\ Core!StalledAttempts' /\ Core!PushesLinked'
  BY <1>1 DEF Core!Exclusive, Core!StalledAttempts, Core!PushesLinked
<1>. QED
  BY <1>3, <1>5, <1>6, <1>7 DEF Inv, Core!IInv

LEMMA InitInv == Cache!InitCache => Inv
<1> SUFFICES ASSUME Cache!InitCache PROVE Inv
  OBVIOUS
<1>1. \A u \in Threads : ~Core!Owning(u) /\ ~Core!Allocating(u) /\ cpc[u] = "idle"
  BY DEF Cache!InitCache, Core!Owning, Core!Allocating
<1>2. Core!Free = {}
  BY CoreFreeMember DEF Cache!InitCache
<1>3. Core!FreeListIntact
  BY <1>2, EmptyChain, SameChains DEF Cache!InitCache, Core!FreeListIntact
<1>4. Core!TypeOK
  <2>1. /\ 0 \in 0 .. MaxOvertake
        /\ Cache!NoPool \in Cache!TaggedIndex /\ Cache!Null \in Cache!Index
    <3>1. Cache!Null \in Cache!Index
      BY Core!NullInIndex, SizeAssumption, OvertakeAssumption, ClientAssumption,
         CoreConstants
    <3>. QED
      BY <3>1, SizeAssumption, OvertakeAssumption
         DEF Cache!Tag, Cache!NoPool, Cache!TaggedIndex
  <2>. QED
    BY <1>1, <2>1, CoreConstants DEF Cache!InitCache, Cache!NoPool, Core!TypeOK
<1>5. Core!Exclusive /\ Core!StalledAttempts /\ Core!PushesLinked
  BY <1>1 DEF Core!Exclusive, Core!StalledAttempts, Core!PushesLinked
<1>. QED
  BY <1>3, <1>4, <1>5 DEF Cache!InitCache, Inv, Core!IInv

(* Every step keeps the invariant. *)
LEMMA NextInv ==
    ASSUME Inv, [Cache!NextCache]_(Cache!varsCache)
    PROVE  Inv'
<1>1. ASSUME NEW t \in Threads,
             Cache!CacheLoad(t) \/ Cache!CacheRetry(t) \/ Cache!CacheAllocUnsafe(t)
      PROVE  Inv'
  <2>1. CASE \E b \in BOOLEAN : Cache!FindEmpty(t, b) /\ cpc[t] \in {"idle", "a_cas"}
    BY <2>1, FindEmptyStep DEF Inv
  <2>2. CASE /\ Cache!AllocLoad(t) \/ Cache!AllocRetry(t) \/ Cache!AllocUnsafe(t)
             /\ heap' = heap
    <3>1. clive' = clive
      BY <2>2 DEF Cache!AllocLoad, Cache!AllocRetry, Cache!AllocUnsafe
    <3>. QED
      BY <2>2, <3>1, SharedSteps, CoreStep DEF Inv
  <2>3. CASE Cache!CacheRetry(t) /\ Cache!FindEmpty(t, bounded[t])
    <3>1. \/ bounded[t] \/ ~bounded[t]
      OBVIOUS
    <3>. QED
      BY <2>3, FindEmptyStep DEF Inv, Cache!CacheRetry, Cache!FindEmpty
  <2>. QED
    BY <1>1, <2>1, <2>2, <2>3
       DEF Cache!CacheLoad, Cache!CacheRetry, Cache!CacheAllocUnsafe, Cache!Quiet
<1>2. ASSUME NEW t \in Threads, Cache!AllocStep(t) \/ Cache!DeallocStep(t)
      PROVE  Inv'
  <2>1. clive' = clive /\ heap' = heap
    BY <1>2
       DEF Cache!AllocStep, Cache!DeallocStep, Cache!AllocReadNext,
           Cache!AllocSucceed, Cache!DeallocLink, Cache!DeallocSucceed,
           Cache!DeallocRetry
  <2>. QED
    BY <1>2, <2>1, SharedSteps, CoreStep DEF Inv, Cache!AllocStep, Cache!DeallocStep
<1>3. ASSUME NEW t \in Threads, Cache!ConstructStep(t) \/ Cache!DestructStep(t)
      PROVE  Inv'
  <2>1. CASE Cache!ReturnNull(t) /\ heap' = heap
    BY <2>1, SharedSteps, CoreStep DEF Inv, Cache!ReturnNull
  <2>2. CASE (Cache!Construct(t) \/ Cache!DeallocLoad(t)) /\ heap' = heap
    BY <2>2, ClientSteps, CoreStep DEF Inv
  <2>. QED
    BY <1>3, <2>1, <2>2 DEF Cache!ConstructStep, Cache!DestructStep
<1>4. CASE (\E t \in Threads : Cache!Reserve(t)) \/ Cache!ReserveUnsafe
  BY <1>4, ReserveSteps, CoreStep DEF Inv
<1>5. CASE Cache!CacheDeallocUnsafe \/ Cache!ClientStep
  BY <1>5, ClientSteps, CoreStep DEF Inv, Cache!CacheDeallocUnsafe, Cache!ClientStep
<1>6. CASE Cache!Destroy
  BY <1>6, DestroyStep
<1>7. CASE UNCHANGED Cache!varsCache
  <2>1. UNCHANGED Core!vars
    BY <1>7 DEF Cache!varsCache, Cache!vars, Core!vars
  <2>. QED
    BY <1>7, <2>1, CoreStep DEF Inv, Cache!varsCache, Cache!vars
<1>. QED
  BY <1>1, <1>2, <1>3, <1>4, <1>5, <1>6, <1>7
     DEF Cache!NextCache, Cache!AnyStep, Cache!ThreadStep

(* The list links exactly the nodes that neither the allocator nor a       *)
(* thread nor the client has, however many were added or given back.       *)
THEOREM CacheInvariant == Cache!SpecCache => []Inv
<1>1. Cache!InitCache => Inv
  BY InitInv
<1>2. Inv /\ [Cache!NextCache]_(Cache!varsCache) => Inv'
  BY NextInv
<1>. QED
  BY <1>1, <1>2, PTL DEF Cache!SpecCache

LEMMA InvGivesSound == Inv => Cache!CacheSound
<1> SUFFICES ASSUME Inv PROVE Cache!CacheSound
  OBVIOUS
<1>1. Cache!TypeOK
  BY CoreConstants
     DEF Inv, Core!IInv, Core!TypeOK, Core!Owning, Core!Allocating, Cache!TypeOK,
         Cache!Owning, Cache!Allocating
<1>2. Cache!Exclusive /\ heap \cap (clive \cup Cache!Owned) = {}
  BY DEF Inv, Core!IInv, Core!Exclusive, Core!Owning, Cache!Exclusive, Cache!Owning,
         Cache!Owned
<1>3. Cache!NoABA
  <2>1. ASSUME NEW t \in Threads, cpc[t] = "a_cas", cpool = cold[t]
        PROVE  cnxt[t] = cnext[cpool.index]
    <3>1. Core!Allocating(t) /\ covertaken[t] = 0
      BY <2>1, Core!MatchMeansFresh, CoreConstants, SizeAssumption,
         OvertakeAssumption, ClientAssumption
         DEF Inv, Core!Allocating
    <3>. QED
      BY <2>1, <3>1 DEF Inv, Core!IInv, Core!StalledAttempts
  <2>. QED
    BY <2>1 DEF Cache!NoABA
<1>4. Cache!Chained(cpool.index, cnext, Cache!Free \ heap)
  <2>1. Cache!Free \ heap = Core!Free
    BY CoreFreeMember DEF Cache!Free, Cache!Owned
  <2>. QED
    BY <2>1, SameChains DEF Inv, Core!IInv, Core!FreeListIntact
<1>. QED
  BY <1>1, <1>2, <1>3, <1>4 DEF Cache!CacheSound

(* cache_freelist never has a node in two places and never loses one, and  *)
(* its compare_exchange never installs a stale link.                       *)
THEOREM KeepsEveryNode == Cache!SpecCache => []Cache!CacheSound
BY CacheInvariant, InvGivesSound, PTL

(* The same beside fixed_size_freelist, for those of the threads that use  *)
(* cache_freelist.                                                         *)
THEOREM NoNodeLost == SpecMC => []CacheSound
<1>1. InitMC => Cache!InitCache
  BY DEF InitMC
<1>2. [NextMC]_<<world, vars, cached, blocks>> => [Cache!NextCache]_(Cache!varsCache)
  BY CacheThreadsAssumption
     DEF NextMC, cached, Cache!NextCache, Cache!varsCache, Cache!vars
<1>3. SpecMC => Cache!SpecCache
  BY <1>1, <1>2, PTL DEF SpecMC, Cache!SpecCache
<1>. QED
  BY <1>3, KeepsEveryNode, PTL DEF CacheSound

-----------------------------------------------------------------------------
(* The block pool.                                                         *)

LEMMA SameBlocks ==
    /\ Blocks!Init <=> Counting!Init
    /\ Blocks!Next <=> Counting!Next
    /\ Blocks!PoolSound <=> Counting!PoolSound
<1>1. Blocks!Init <=> Counting!Init
  BY DEF Blocks!Init, Blocks!Null, Counting!Init, Counting!Null
<1>2. Blocks!Listed = Counting!Listed
  BY DEF Blocks!Listed, Blocks!Null, Blocks!Cardinality, Counting!Listed, Counting!Null,
         Counting!Cardinality
<1>3. Blocks!Next <=> Counting!Next
  BY <1>2
     DEF Blocks!Next, Counting!Next, Blocks!Requisition, Counting!Requisition,
         Blocks!TakeInitial, Counting!TakeInitial, Blocks!ReadHead, Counting!ReadHead,
         Blocks!ReadRefs, Counting!ReadRefs, Blocks!AddRef, Counting!AddRef, Blocks!ReadNext,
         Counting!ReadNext, Blocks!Pop, Counting!Pop, Blocks!Taken, Counting!Taken, Blocks!Unref,
         Counting!Unref, Blocks!Add, Counting!Add, Blocks!ReadListHead, Counting!ReadListHead,
         Blocks!StoreNext, Counting!StoreNext, Blocks!StoreRefs, Counting!StoreRefs, Blocks!Push,
         Counting!Push, Blocks!Retry, Counting!Retry, Blocks!Destroy, Counting!Destroy,
         Blocks!WithoutList, Counting!WithoutList, Blocks!LookAt, Counting!LookAt,
         Blocks!EndLink, Counting!EndLink, Blocks!Goto, Counting!Goto, Blocks!Return,
         Counting!Return, Blocks!Step, Counting!Step, Blocks!Null, Counting!Null, Blocks!AtRest,
         Counting!AtRest, Blocks!pool, Counting!pool, Blocks!list, Counting!list, Blocks!threads,
         Counting!threads
<1>4. Blocks!PoolSound <=> Counting!PoolSound
  BY <1>2
     DEF Blocks!PoolSound, Counting!PoolSound, Blocks!PoppedExclusively,
         Counting!PoppedExclusively, Blocks!LinkedByOne, Counting!LinkedByOne,
         Blocks!EveryBlockOnce, Counting!EveryBlockOnce, Blocks!FreedOnce, Counting!FreedOnce,
         Blocks!AtRest, Counting!AtRest
<1>. QED
  BY <1>1, <1>3, <1>4

(* The block pool of a ConcurrentQueue hands out no block twice and loses  *)
(* none, whatever the threads and however many blocks.                     *)
THEOREM NoBlockLost == SpecMC => []BlocksSound
<1>1. InitMC => Counting!IInv
  <2>1. Counting!Sizes
    BY BlocksAssumption DEF Counting!Sizes, Counting!IsFiniteSet, IsFiniteSet
  <2>2. InitMC => Blocks!Init
    BY DEF InitMC
  <2>. QED
    BY <2>1, <2>2, Counting!InitHolds, SameBlocks
<1>2. Counting!IInv /\ [NextMC]_<<world, vars, cached, blocks>> => Counting!IInv'
  <2>1. [NextMC]_<<world, vars, cached, blocks>> => [Counting!Next]_(Counting!vars)
    BY SameBlocks
       DEF NextMC, blocks, Counting!vars, Counting!pool, Counting!list, Counting!threads
  <2>. QED
    BY <2>1, Counting!StepKeeps
<1>3. Counting!IInv => BlocksSound
  BY Counting!SoundThen, SameBlocks DEF BlocksSound
<1>. QED
  BY <1>1, <1>2, <1>3, PTL DEF SpecMC
=============================================================================
