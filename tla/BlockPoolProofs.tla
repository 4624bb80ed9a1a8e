-------------------------- MODULE BlockPoolProofs --------------------------
(***************************************************************************)
(* The pool of blocks hands no block out twice and loses none, for every   *)
(* number of threads and blocks: counting references makes up for the tag  *)
(* that the list has not.                                                  *)
(***************************************************************************)
EXTENDS BlockPool, FiniteSetTheorems, WellFoundedInduction, TLAPS

(***************************************************************************)
(* The inductive invariant.                                                *)
(***************************************************************************)
Linkers == {"link", "store next", "store refs", "push", "retry"}
Steps == {"idle", "initial", "head", "refs", "ref", "next", "pop", "taken", "unref"}
            \cup Linkers

(* t has counted itself in refs[b].                                        *)
Holds(t, b) == \/ cpc[t] \in {"next", "pop", "taken"} /\ cr[t].head = b
               \/ cpc[t] = "unref" /\ cr[t].block = b

(* t is putting b on the list, or has just taken it from there.            *)
Links(t, b) == cpc[t] \in Linkers /\ cr[t].block = b
Pops(t, b) == cpc[t] = "taken" /\ cr[t].head = b

(* t's block is not on the list, but has the list's reference.             *)
Keeps(t, b) == Pops(t, b) \/ (Links(t, b) /\ cpc[t] \in {"push", "retry"})

(* The blocks that have been handed out at some time.                      *)
Out == {b \in created : b <= initialBlockPoolIndex \/ b > InitialBlocks}

OnList == {b \in Out : /\ b \notin held /\ ~wanted[b]
                       /\ \A t \in Threads : ~Links(t, b) /\ ~Pops(t, b)}

Holders(b) == {t \in Threads : Holds(t, b)}
ListsOwn(b) == IF b \in OnList \/ \E t \in Threads : Keeps(t, b) THEN 1 ELSE 0

(* The count is exact, and b is in one place: whoever puts it on the list  *)
(* does so while nobody has a reference, and while it should be there but  *)
(* is not, somebody has one or is at it.                                   *)
Counted(b) == refs[b] = Cardinality(Holders(b)) + ListsOwn(b)

Placed(b) ==
    /\ wanted[b] => /\ b \in Out /\ b \notin held
                    /\ refs[b] # 0 \/ \E t \in Threads : Links(t, b)
    /\ \A t \in Threads : Links(t, b) \/ Pops(t, b) =>
          /\ b \in Out /\ b \notin held
          /\ \A u \in Threads \ {t} : ~Links(u, b) /\ ~Pops(u, b)
          /\ Keeps(t, b) => ~wanted[b]
          /\ ~Keeps(t, b) => wanted[b] /\ refs[b] = 0
    /\ b \notin Out => b \notin held

(* What a thread's registers are good for.                                 *)
Seen == Out \cup {Null}
Knows(t) ==
    /\ cpc[t] \in {"refs", "ref", "next", "pop", "taken"} => cr[t].head \in Out
    /\ cpc[t] = "ref" => cr[t].refs # 0
    /\ cpc[t] = "pop" => cr[t].next = freeListNext[cr[t].head]
    /\ cpc[t] \in Linkers \cup {"unref"} => "block" \in DOMAIN cr[t] /\ cr[t].block \in Out
    /\ cpc[t] \in Linkers /\ "head" \in DOMAIN cr[t] => cr[t].head \in Seen
    /\ cpc[t] = "unref" => "head" \in DOMAIN cr[t] /\ cr[t].head \in Seen
    /\ cpc[t] \in Linkers \ {"link"} => "old" \in DOMAIN cr[t]
    /\ cpc[t] \in {"store refs", "push"} => cr[t].old = freeListNext[cr[t].block]

(* The blocks of the initial array come first; null is none of them.       *)
Sizes == /\ IsFiniteSet(Threads) /\ IsFiniteSet(AllBlocks)
         /\ AllBlocks \subseteq Nat \ {0}
         /\ InitialBlocks \in Nat /\ 1 .. InitialBlocks \subseteq AllBlocks

Typed ==
    /\ initialBlockPoolIndex \in Nat
    /\ created \subseteq AllBlocks /\ 1 .. InitialBlocks \subseteq created
    /\ held \subseteq created
    /\ refs \in [AllBlocks -> Nat] /\ wanted \in [AllBlocks -> BOOLEAN]
    /\ freeListNext = [b \in AllBlocks |-> freeListNext[b]]
    /\ cpc \in [Threads -> Steps]
    /\ cr = [t \in Threads |-> cr[t]]

(* The links lead from the head through S, each block of it once.          *)
IsChain(c, k, top, link, S) ==
    /\ S = {c[i] : i \in 1 .. k}
    /\ \A i, j \in 1 .. k : c[i] = c[j] => i = j
    /\ top = IF k = 0 THEN Null ELSE c[1]
    /\ \A i \in 1 .. k : link[c[i]] = IF i = k THEN Null ELSE c[i + 1]
Chained(top, link, S) ==
    \E k \in 0 .. Cardinality(AllBlocks) :
       \E c \in [1 .. k -> AllBlocks] : IsChain(c, k, top, link, S)

Ended == destroyed # <<>> => AtRest /\ held = {} /\ \A b \in created : destroyed[b] = 1

IInv ==
    /\ Sizes /\ Typed
    /\ \A t \in Threads : Knows(t)
    /\ \A b \in AllBlocks : Counted(b) /\ Placed(b)
    /\ Chained(freeListHead, freeListNext, OnList)
    /\ Ended

-----------------------------------------------------------------------------
(* Lists.                                                                  *)

(* A set with 0 in it that holds k + 1 whenever it holds k holds 0 .. n.   *)
LEMMA SetInduction ==
    ASSUME NEW n \in Nat, NEW T, 0 \in T, \A k \in 0 .. n - 1 : k \in T => k + 1 \in T
    PROVE  0 .. n \subseteq T
<1> DEFINE U == (0 .. n) \ T
<1>1. U \in SUBSET Nat /\ 0 \notin U /\ \A k \in U : k \in 1 .. n
  OBVIOUS
<1>2. \A k \in 0 .. n : k \in T \/ k \in U
  OBVIOUS
<1>. HIDE DEF U
<1>3. SUFFICES ASSUME U # {} PROVE FALSE
  BY <1>2
<1>4. PICK m \in U : \A k \in U : ~ (<<k, m>> \in OpToRel(<, Nat))
  BY <1>1, <1>3, NatLessThanWellFounded, WFMin
<1>5. m \in 1 .. n /\ m - 1 \in 0 .. n - 1 /\ m - 1 < m /\ m - 1 + 1 = m
  BY <1>1
<1>6. \A k \in U : ~ (k < m)
  BY <1>1, <1>4 DEF OpToRel
<1>7. m - 1 \in T
  BY <1>2, <1>5, <1>6
<1>8. m \in T
  BY <1>5, <1>7
<1>. QED
  BY <1>8 DEF U

LEMMA BlockCount == Sizes => Cardinality(AllBlocks) \in Nat
BY FS_CardinalityType DEF Sizes

(* A list without repetitions is no longer than there are blocks.          *)
LEMMA ChainLength ==
    ASSUME Sizes, NEW k \in Nat, NEW c \in [1 .. k -> AllBlocks],
           \A i, j \in 1 .. k : c[i] = c[j] => i = j
    PROVE  k \in 0 .. Cardinality(AllBlocks)
<1>1. c \in Injection(1 .. k, AllBlocks)
  BY DEF Injection, IsInjective
<1>2. Cardinality(1 .. k) = k
  BY FS_Interval
<1>3. Cardinality(1 .. k) <= Cardinality(AllBlocks)
  BY <1>1, FS_Injection DEF Sizes
<1>. QED
  BY <1>2, <1>3, BlockCount

LEMMA ChainTop ==
    ASSUME Sizes, NEW top, NEW link, NEW S, Chained(top, link, S)
    PROVE  /\ top = Null <=> S = {}
           /\ top # Null => top \in S
           /\ \A b \in S : link[b] \in S \cup {Null}
<1>1. PICK k \in 0 .. Cardinality(AllBlocks) :
              \E c \in [1 .. k -> AllBlocks] : IsChain(c, k, top, link, S)
  BY DEF Chained
<1>2. PICK c \in [1 .. k -> AllBlocks] : IsChain(c, k, top, link, S)
  BY <1>1
<1>3. k \in Nat /\ Null \notin AllBlocks
  BY BlockCount DEF Sizes, Null
<1>4. \A b \in S : link[b] \in S \cup {Null}
  BY <1>2, <1>3 DEF IsChain
<1>5. CASE k = 0
  BY <1>2, <1>4, <1>5 DEF IsChain
<1>6. CASE k # 0
  <2>1. 1 \in 1 .. k /\ c[1] \in AllBlocks
    BY <1>3, <1>6
  <2>. QED
    BY <1>2, <1>3, <1>4, <1>6, <2>1 DEF IsChain
<1>. QED
  BY <1>5, <1>6

LEMMA ChainSame ==
    ASSUME NEW top, NEW link, NEW S, Chained(top, link, S),
           NEW link2, \A b \in S : link2[b] = link[b]
    PROVE  Chained(top, link2, S)
<1>1. PICK k \in 0 .. Cardinality(AllBlocks) :
              \E c \in [1 .. k -> AllBlocks] : IsChain(c, k, top, link, S)
  BY DEF Chained
<1>2. PICK c \in [1 .. k -> AllBlocks] : IsChain(c, k, top, link, S)
  BY <1>1
<1>3. \A i \in 1 .. k : c[i] \in S
  BY <1>2 DEF IsChain
<1>4. IsChain(c, k, top, link2, S)
  BY <1>2, <1>3 DEF IsChain
<1>. QED
  BY <1>4 DEF Chained

LEMMA ChainPop ==
    ASSUME Sizes, NEW top, NEW link, NEW S, Chained(top, link, S), top # Null
    PROVE  Chained(link[top], link, S \ {top})
<1>1. PICK k \in 0 .. Cardinality(AllBlocks) :
              \E c \in [1 .. k -> AllBlocks] : IsChain(c, k, top, link, S)
  BY DEF Chained
<1>2. PICK c \in [1 .. k -> AllBlocks] : IsChain(c, k, top, link, S)
  BY <1>1
<1>3. k \in Nat \ {0} /\ k - 1 \in 0 .. Cardinality(AllBlocks)
  BY <1>2, BlockCount DEF IsChain
<1> DEFINE d == [i \in 1 .. k - 1 |-> c[i + 1]]
<1>4. \A i \in 1 .. k - 1 : i + 1 \in 1 .. k /\ i \in 1 .. k /\ d[i] = c[i + 1]
  BY <1>3
<1>5. d \in [1 .. k - 1 -> AllBlocks]
  BY <1>4
<1>6. top = c[1] /\ 1 \in 1 .. k /\ link[c[1]] = IF 1 = k THEN Null ELSE c[2]
  BY <1>2, <1>3 DEF IsChain
<1>. HIDE DEF d
<1>7. \A i, j \in 1 .. k - 1 : d[i] = d[j] => i = j
  BY <1>2, <1>4 DEF IsChain
<1>8. S \ {top} = {d[i] : i \in 1 .. k - 1}
  <2>1. \A i \in 1 .. k : i = 1 \/ (i - 1 \in 1 .. k - 1 /\ i - 1 + 1 = i)
    BY <1>3
  <2>2. ASSUME NEW b \in S \ {top} PROVE b \in {d[i] : i \in 1 .. k - 1}
    <3>1. PICK i \in 1 .. k : b = c[i]
      BY <1>2 DEF IsChain
    <3>2. i - 1 \in 1 .. k - 1 /\ i - 1 + 1 = i
      BY <1>6, <2>1, <3>1
    <3>3. d[i - 1] = b
      BY <1>4, <3>1, <3>2
    <3>. QED
      BY <3>2, <3>3
  <2>3. ASSUME NEW i \in 1 .. k - 1 PROVE d[i] \in S \ {top}
    <3>1. i + 1 \in 1 .. k /\ i + 1 # 1
      BY <1>3
    <3>. QED
      BY <1>2, <1>4, <1>6, <3>1 DEF IsChain
  <2>. QED
    BY <2>2, <2>3
<1>9. link[top] = IF k - 1 = 0 THEN Null ELSE d[1]
  <2>1. k - 1 # 0 => 1 \in 1 .. k - 1 /\ 1 + 1 = 2
    BY <1>3
  <2>. QED
    BY <1>3, <1>4, <1>6, <2>1
<1>10. \A i \in 1 .. k - 1 : link[d[i]] = IF i = k - 1 THEN Null ELSE d[i + 1]
  <2>1. \A i \in 1 .. k - 1 : /\ i = k - 1 <=> i + 1 = k
                              /\ i # k - 1 => i + 1 \in 1 .. k - 1
    BY <1>3
  <2>. QED
    BY <1>2, <1>4, <2>1 DEF IsChain
<1>11. IsChain(d, k - 1, link[top], link, S \ {top})
  BY <1>7, <1>8, <1>9, <1>10 DEF IsChain
<1>. QED
  BY <1>3, <1>5, <1>11 DEF Chained

LEMMA ChainPush ==
    ASSUME Sizes, NEW top, NEW link, NEW S, Chained(top, link, S),
           NEW b \in AllBlocks, b \notin S, link[b] = top
    PROVE  Chained(b, link, S \cup {b})
<1>1. PICK k \in 0 .. Cardinality(AllBlocks) :
              \E c \in [1 .. k -> AllBlocks] : IsChain(c, k, top, link, S)
  BY DEF Chained
<1>2. PICK c \in [1 .. k -> AllBlocks] : IsChain(c, k, top, link, S)
  BY <1>1
<1>3. k \in Nat /\ k + 1 \in Nat
  BY BlockCount
<1> DEFINE d == [i \in 1 .. k + 1 |-> IF i = 1 THEN b ELSE c[i - 1]]
<1>4. /\ 1 \in 1 .. k + 1 /\ d[1] = b
      /\ \A i \in 1 .. k + 1 : i # 1 => i - 1 \in 1 .. k /\ d[i] = c[i - 1]
      /\ \A i \in 1 .. k : i + 1 \in 1 .. k + 1 /\ i + 1 # 1 /\ d[i + 1] = c[i]
  BY <1>3
<1>5. d \in [1 .. k + 1 -> AllBlocks]
  BY <1>3
<1>. HIDE DEF d
<1>6. \A i \in 1 .. k : c[i] \in S
  BY <1>2 DEF IsChain
<1>7. \A i, j \in 1 .. k + 1 : d[i] = d[j] => i = j
  <2>. SUFFICES ASSUME NEW i \in 1 .. k + 1, NEW j \in 1 .. k + 1, d[i] = d[j]
                PROVE  i = j
    OBVIOUS
  <2>1. CASE i = 1 \/ j = 1
    BY <1>4, <1>6, <2>1
  <2>2. CASE i # 1 /\ j # 1
    <3>1. i - 1 = j - 1
      BY <1>2, <1>4, <2>2 DEF IsChain
    <3>. QED
      BY <1>3, <3>1
  <2>. QED
    BY <2>1, <2>2
<1>8. S \cup {b} = {d[i] : i \in 1 .. k + 1}
  <2>1. ASSUME NEW x \in S PROVE \E i \in 1 .. k + 1 : x = d[i]
    <3>1. PICK i \in 1 .. k : x = c[i]
      BY <1>2 DEF IsChain
    <3>. QED
      BY <1>4, <3>1
  <2>. QED
    BY <1>4, <1>6, <2>1
<1>9. \A i \in 1 .. k + 1 : link[d[i]] = IF i = k + 1 THEN Null ELSE d[i + 1]
  <2>. SUFFICES ASSUME NEW i \in 1 .. k + 1
                PROVE  link[d[i]] = IF i = k + 1 THEN Null ELSE d[i + 1]
    OBVIOUS
  <2>1. CASE i = 1
    <3>1. top = IF k = 0 THEN Null ELSE c[1]
      BY <1>2 DEF IsChain
    <3>2. k # 0 => 1 \in 1 .. k
      BY <1>3
    <3>. QED
      BY <1>3, <1>4, <2>1, <3>1, <3>2
  <2>2. CASE i # 1
    <3>1. link[c[i - 1]] = IF i - 1 = k THEN Null ELSE c[i - 1 + 1]
      BY <1>2, <1>4, <2>2 DEF IsChain
    <3>2. i - 1 = k <=> i = k + 1
      BY <1>3
    <3>3. i - 1 + 1 = i /\ (i # k + 1 => i \in 1 .. k)
      BY <1>3, <2>2
    <3>. QED
      BY <1>4, <2>2, <3>1, <3>2, <3>3
  <2>. QED
    BY <2>1, <2>2
<1>10. k + 1 # 0
  BY <1>3
<1>11. IsChain(d, k + 1, b, link, S \cup {b})
  BY <1>4, <1>7, <1>8, <1>9, <1>10 DEF IsChain
<1>12. k + 1 \in 0 .. Cardinality(AllBlocks)
  BY <1>3, <1>5, <1>7, ChainLength
<1>. QED
  BY <1>5, <1>11, <1>12 DEF Chained

-----------------------------------------------------------------------------
(* What a step leaves alone.                                               *)

LEMMA OtherThread ==
    ASSUME NEW u \in Threads, NEW b, cpc'[u] = cpc[u], cr'[u] = cr[u]
    PROVE  /\ Holds(u, b)' <=> Holds(u, b)
           /\ Links(u, b)' <=> Links(u, b)
           /\ Pops(u, b)' <=> Pops(u, b)
           /\ Keeps(u, b)' <=> Keeps(u, b)
BY DEF Holds, Links, Pops, Keeps

LEMMA OtherKnows ==
    ASSUME NEW u \in Threads, Knows(u), cpc'[u] = cpc[u], cr'[u] = cr[u], Out \subseteq Out',
           cpc[u] = "pop" => freeListNext'[cr[u].head] = freeListNext[cr[u].head],
           cpc[u] \in {"store refs", "push"} =>
              freeListNext'[cr[u].block] = freeListNext[cr[u].block]
    PROVE  Knows(u)'
<1>1. Seen \subseteq Seen'
  BY DEF Seen, Null
<1>. QED
  BY <1>1 DEF Knows

(* A block that the step is not about: it is where it was, or it is one    *)
(* that has just been created.                                             *)
LEMMA OtherBlock ==
    ASSUME IInv, NEW t \in Threads, NEW b \in AllBlocks,
           NEW N \in SUBSET (AllBlocks \ created),
           created' = created \cup N, b \in held' <=> b \in held \cup N,
           b <= initialBlockPoolIndex' \/ b > InitialBlocks
              <=> b <= initialBlockPoolIndex \/ b > InitialBlocks,
           refs'[b] = refs[b], wanted'[b] = wanted[b],
           \A u \in Threads \ {t} : cpc'[u] = cpc[u] /\ cr'[u] = cr[u],
           Holds(t, b)' <=> Holds(t, b), Links(t, b)' <=> Links(t, b),
           Pops(t, b)' <=> Pops(t, b), Keeps(t, b)' <=> Keeps(t, b)
    PROVE  Counted(b)' /\ Placed(b)' /\ (b \in OnList' <=> b \in OnList)
<1>1. \A u \in Threads : /\ Holds(u, b)' <=> Holds(u, b)
                         /\ Links(u, b)' <=> Links(u, b)
                         /\ Pops(u, b)' <=> Pops(u, b)
                         /\ Keeps(u, b)' <=> Keeps(u, b)
  BY OtherThread
<1>2. Holders(b)' = Holders(b)
  BY <1>1 DEF Holders
<1>3. Counted(b) /\ Placed(b)
  BY DEF IInv
<1>4. CASE b \in N
  <2>1. b \notin created /\ b > InitialBlocks
    BY <1>4 DEF IInv, Typed, Sizes
  <2>2. b \notin Out /\ b \in Out' /\ b \in held'
    BY <1>4, <2>1 DEF Out
  <2>3. ~wanted[b] /\ \A u \in Threads : ~Links(u, b) /\ ~Pops(u, b)
    BY <1>3, <2>2 DEF Placed
  <2>4. b \notin OnList /\ b \notin OnList'
    BY <2>2 DEF OnList
  <2>5. ListsOwn(b)' = ListsOwn(b)
    BY <1>1, <2>4 DEF ListsOwn
  <2>6. Placed(b)'
    BY <1>1, <2>2, <2>3 DEF Placed
  <2>. QED
    BY <1>2, <1>3, <2>4, <2>5, <2>6 DEF Counted
<1>5. CASE b \notin N
  <2>1. (b \in Out' <=> b \in Out) /\ (b \in held' <=> b \in held)
    BY <1>5 DEF Out
  <2>2. b \in OnList' <=> b \in OnList
    BY <1>1, <2>1 DEF OnList
  <2>3. ListsOwn(b)' = ListsOwn(b)
    BY <1>1, <2>2 DEF ListsOwn
  <2>4. Placed(b)'
    BY <1>1, <1>3, <2>1 DEF Placed
  <2>. QED
    BY <1>2, <1>3, <2>2, <2>3, <2>4 DEF Counted
<1>. QED
  BY <1>4, <1>5

LEMMA SameList ==
    ASSUME Typed, Typed', \A b \in AllBlocks : b \in OnList' <=> b \in OnList
    PROVE  OnList' = OnList
<1>1. OnList \subseteq AllBlocks /\ OnList' \subseteq AllBlocks
  BY DEF Typed, OnList, Out
<1>. QED
  BY <1>1

(* A call goes on with the head it has seen, or ends.                      *)
LEMMA Looks ==
    ASSUME IInv, NEW t \in Threads, NEW head \in Seen, LookAt(t, head)
    PROVE  /\ \E N \in SUBSET (AllBlocks \ created) :
                 created' = created \cup N /\ held' = held \cup N
           /\ cpc' \in [Threads -> Steps]
           /\ cr' = [u \in Threads |-> cr'[u]]
           /\ \A u \in Threads \ {t} : cpc'[u] = cpc[u] /\ cr'[u] = cr[u]
           /\ cpc'[t] = "idle" \/ (cpc'[t] = "refs" /\ cr'[t].head \in Out)
<1>1. /\ cpc \in [Threads -> Steps]
      /\ cr = [u \in Threads |-> cr[u]]
  BY DEF IInv, Typed
<1>2. CASE head # Null
  <2>1. head \in Out
    BY <1>2 DEF Seen
  <2>2. /\ Goto(t, "refs", [canAlloc |-> cr[t].canAlloc, head |-> head])
        /\ created' = created /\ held' = held
    BY <1>2 DEF LookAt
  <2>3. {} \in SUBSET (AllBlocks \ created) /\ created' = created \cup {} /\ held' = held \cup {}
    BY <2>2
  <2>4. cpc'[t] = "refs" /\ cr'[t].head = head
    BY <1>1, <2>2 DEF Goto, Steps
  <2>5. /\ cpc' \in [Threads -> Steps]
        /\ cr' = [u \in Threads |-> cr'[u]]
        /\ \A u \in Threads \ {t} : cpc'[u] = cpc[u] /\ cr'[u] = cr[u]
    BY <1>1, <2>2 DEF Goto, Steps
  <2>. QED
    BY <2>1, <2>3, <2>4, <2>5
<1>3. CASE head = Null
  <2>1. Return(t) /\ \E N \in SUBSET (AllBlocks \ created) :
                        created' = created \cup N /\ held' = held \cup N
    <3>1. CASE Return(t) /\ UNCHANGED <<created, held>>
      <4>1. {} \in SUBSET (AllBlocks \ created) /\ created' = created \cup {}
            /\ held' = held \cup {}
        BY <3>1
      <4>. QED
        BY <3>1, <4>1
    <3>2. CASE Return(t) /\ \E b \in AllBlocks \ created :
                               created' = created \cup {b} /\ held' = held \cup {b}
      BY <3>2
    <3>. QED
      BY <1>3, <3>1, <3>2 DEF LookAt, WithoutList
  <2>2. cpc'[t] = "idle"
    BY <1>1, <2>1 DEF Return, Goto, Steps
  <2>3. /\ cpc' \in [Threads -> Steps]
        /\ cr' = [u \in Threads |-> cr'[u]]
        /\ \A u \in Threads \ {t} : cpc'[u] = cpc[u] /\ cr'[u] = cr[u]
    BY <1>1, <2>1 DEF Return, Goto, Steps
  <2>. QED
    BY <2>1, <2>2, <2>3
<1>. QED
  BY <1>2, <1>3

LEMMA Goes ==
    ASSUME IInv, NEW t \in Threads, NEW step \in Steps, NEW registers, Goto(t, step, registers)
    PROVE  /\ cpc' \in [Threads -> Steps]
           /\ cr' = [u \in Threads |-> cr'[u]]
           /\ \A u \in Threads \ {t} : cpc'[u] = cpc[u] /\ cr'[u] = cr[u]
           /\ cpc'[t] = step /\ cr'[t] = registers
<1>1. cpc \in [Threads -> Steps] /\ cr = [u \in Threads |-> cr[u]]
  BY DEF IInv, Typed
<1>2. cpc' = [cpc EXCEPT ![t] = step] /\ cr' = [cr EXCEPT ![t] = registers]
  BY DEF Goto
<1>. HIDE DEF Steps
<1>. QED
  BY <1>1, <1>2

LEMMA Alive ==
    ASSUME IInv, NEW t \in Threads, cpc[t] # "idle"
    PROVE  destroyed = <<>>
BY DEF IInv, Ended, AtRest

LEMMA ChainThen ==
    Chained(freeListHead', freeListNext', OnList')
      <=> Chained(freeListHead, freeListNext, OnList)'
BY DEF Chained, IsChain, Null

(* What a step has to keep, once the threads that do not take it and the   *)
(* blocks that it is not about are dealt with.                             *)
LEMMA Kept ==
    ASSUME IInv, NEW t \in Threads, destroyed = <<>>, destroyed' = destroyed, Typed',
           Out \subseteq Out',
           \A u \in Threads \ {t} :
              /\ cpc'[u] = cpc[u] /\ cr'[u] = cr[u]
              /\ cpc[u] = "pop" => freeListNext'[cr[u].head] = freeListNext[cr[u].head]
              /\ cpc[u] \in {"store refs", "push"} =>
                    freeListNext'[cr[u].block] = freeListNext[cr[u].block],
           Knows(t)',
           \A b \in AllBlocks : Counted(b)' /\ Placed(b)',
           Chained(freeListHead', freeListNext', OnList')
    PROVE  IInv'
<1>1. \A u \in Threads : Knows(u)'
  <2>. SUFFICES ASSUME NEW u \in Threads \ {t} PROVE Knows(u)'
    OBVIOUS
  <2>1. Knows(u)
    BY DEF IInv
  <2>. QED
    BY <2>1, OtherKnows
<1>2. Sizes'
  BY DEF IInv, Sizes
<1>3. Ended'
  BY DEF Ended
<1>4. Chained(freeListHead, freeListNext, OnList)'
  BY ChainThen
<1>. QED
  BY <1>1, <1>2, <1>3, <1>4 DEF IInv

-----------------------------------------------------------------------------
(* References.                                                             *)

LEMMA HoldersCount ==
    ASSUME IInv, NEW b
    PROVE  /\ IsFiniteSet(Holders(b)) /\ Cardinality(Holders(b)) \in Nat
           /\ Cardinality(Holders(b)) = 0 => \A u \in Threads : ~Holds(u, b)
<1>1. Holders(b) \subseteq Threads /\ IsFiniteSet(Threads)
  BY DEF Holders, IInv, Sizes
<1>2. IsFiniteSet(Holders(b))
  BY <1>1, FS_Subset
<1>. QED
  BY <1>2, FS_CardinalityType, FS_EmptySet DEF Holders

LEMMA OwnCount == \A b : ListsOwn(b) \in {0, 1}
BY DEF ListsOwn

LEMMA SameHolders ==
    ASSUME NEW t \in Threads, NEW b,
           \A u \in Threads \ {t} : cpc'[u] = cpc[u] /\ cr'[u] = cr[u],
           Holds(t, b)' <=> Holds(t, b)
    PROVE  Holders(b)' = Holders(b)
BY OtherThread DEF Holders

LEMMA OneMore ==
    ASSUME IInv, NEW t \in Threads, NEW b,
           \A u \in Threads \ {t} : cpc'[u] = cpc[u] /\ cr'[u] = cr[u],
           ~Holds(t, b), Holds(t, b)'
    PROVE  Cardinality(Holders(b)') = Cardinality(Holders(b)) + 1
<1>1. Holders(b)' = Holders(b) \cup {t} /\ t \notin Holders(b)
  BY OtherThread DEF Holders
<1>. QED
  BY <1>1, HoldersCount, FS_AddElement

LEMMA OneLess ==
    ASSUME IInv, NEW t \in Threads, NEW b,
           \A u \in Threads \ {t} : cpc'[u] = cpc[u] /\ cr'[u] = cr[u],
           Holds(t, b), ~Holds(t, b)'
    PROVE  Cardinality(Holders(b)') = Cardinality(Holders(b)) - 1
<1>1. Holders(b)' = Holders(b) \ {t} /\ t \in Holders(b)
  BY OtherThread DEF Holders
<1>. QED
  BY <1>1, HoldersCount, FS_RemoveElement

LEMMA NoReference ==
    ASSUME IInv, NEW b \in AllBlocks, refs[b] = 0
    PROVE  /\ \A u \in Threads : ~Holds(u, b) /\ ~Keeps(u, b)
           /\ b \notin OnList
<1>1. Counted(b)
  BY DEF IInv
<1>2. Cardinality(Holders(b)) = 0 /\ ListsOwn(b) = 0
  BY <1>1, HoldersCount, OwnCount DEF Counted
<1>. QED
  BY <1>2, HoldersCount DEF ListsOwn

LEMMA Referenced ==
    ASSUME IInv, NEW b \in AllBlocks, NEW t \in Threads, Holds(t, b)
    PROVE  /\ refs[b] \in Nat /\ refs[b] >= 1
           /\ b \in OnList \/ (\E u \in Threads : Keeps(u, b)) => refs[b] >= 2
<1>1. Counted(b)
  BY DEF IInv
<1>2. Cardinality(Holders(b)) \in Nat \ {0}
  BY HoldersCount
<1>. QED
  BY <1>1, <1>2, OwnCount DEF Counted, ListsOwn

-----------------------------------------------------------------------------
(* The steps.                                                              *)

(* One that changes no block, but may create one.                          *)
LEMMA Quiet ==
    ASSUME IInv, NEW t \in Threads, destroyed = <<>>, destroyed' = destroyed,
           NEW N \in SUBSET (AllBlocks \ created),
           created' = created \cup N, held' = held \cup N,
           initialBlockPoolIndex' \in Nat,
           \A b \in AllBlocks : b <= initialBlockPoolIndex' \/ b > InitialBlocks
              <=> b <= initialBlockPoolIndex \/ b > InitialBlocks,
           UNCHANGED list,
           cpc' \in [Threads -> Steps], cr' = [u \in Threads |-> cr'[u]],
           \A u \in Threads \ {t} : cpc'[u] = cpc[u] /\ cr'[u] = cr[u],
           \A b : /\ Holds(t, b)' <=> Holds(t, b)
                  /\ Links(t, b)' <=> Links(t, b)
                  /\ Pops(t, b)' <=> Pops(t, b)
                  /\ Keeps(t, b)' <=> Keeps(t, b),
           Knows(t)'
    PROVE  IInv'
<1>1. Typed'
  BY DEF IInv, Typed, list
<1>2. \A b \in AllBlocks : Counted(b)' /\ Placed(b)' /\ (b \in OnList' <=> b \in OnList)
  <2>. TAKE b \in AllBlocks
  <2>. QED
    BY OtherBlock DEF list
<1>3. OnList' = OnList
  BY <1>1, <1>2, SameList DEF IInv
<1>4. Chained(freeListHead', freeListNext', OnList')
  BY <1>3 DEF IInv, list
<1>5. Out \subseteq Out'
  BY DEF Out, IInv, Typed
<1>. QED
  BY <1>1, <1>2, <1>4, <1>5, Kept DEF list

LEMMA Quietly ==
    ASSUME IInv, NEW t \in Threads, destroyed = <<>>, destroyed' = destroyed,
           UNCHANGED <<pool, list>>,
           cpc' \in [Threads -> Steps], cr' = [u \in Threads |-> cr'[u]],
           \A u \in Threads \ {t} : cpc'[u] = cpc[u] /\ cr'[u] = cr[u],
           \A b : /\ Holds(t, b)' <=> Holds(t, b)
                  /\ Links(t, b)' <=> Links(t, b)
                  /\ Pops(t, b)' <=> Pops(t, b)
                  /\ Keeps(t, b)' <=> Keeps(t, b),
           Knows(t)'
    PROVE  IInv'
<1>1. /\ {} \in SUBSET (AllBlocks \ created)
      /\ created' = created \cup {} /\ held' = held \cup {}
      /\ initialBlockPoolIndex' = initialBlockPoolIndex /\ initialBlockPoolIndex \in Nat
  BY DEF pool, IInv, Typed
<1>. HIDE DEF Holds, Links, Pops, Keeps
<1>. QED
  BY <1>1, Quiet

LEMMA RequisitionKeeps ==
    ASSUME IInv, NEW t \in Threads, NEW canAlloc, Requisition(t, canAlloc)
    PROVE  IInv'
<1>1. PICK step \in {"head", "initial"} : Goto(t, step, [canAlloc |-> canAlloc])
  BY DEF Requisition
<1>2. step \in Steps
  BY DEF Steps
<1>3. /\ cpc' \in [Threads -> Steps]
      /\ cr' = [u \in Threads |-> cr'[u]]
      /\ \A u \in Threads \ {t} : cpc'[u] = cpc[u] /\ cr'[u] = cr[u]
      /\ cpc'[t] = step
  BY <1>1, <1>2, Goes
<1>4. Knows(t)'
  BY <1>3 DEF Knows, Linkers
<1>5. \A b : /\ Holds(t, b)' <=> Holds(t, b)
             /\ Links(t, b)' <=> Links(t, b)
             /\ Pops(t, b)' <=> Pops(t, b)
             /\ Keeps(t, b)' <=> Keeps(t, b)
  BY <1>3 DEF Requisition, Holds, Links, Pops, Keeps, Linkers
<1>. QED
  BY <1>3, <1>4, <1>5, Quietly DEF Requisition

LEMMA ReadHeadKeeps ==
    ASSUME IInv, NEW t \in Threads, ReadHead(t)
    PROVE  IInv'
<1>1. cpc[t] = "head" /\ LookAt(t, freeListHead)
      /\ UNCHANGED <<initialBlockPoolIndex, list, destroyed>>
  BY DEF ReadHead
<1>2. freeListHead \in Seen
  BY ChainTop DEF IInv, Seen, OnList
<1>3. PICK N \in SUBSET (AllBlocks \ created) : created' = created \cup N /\ held' = held \cup N
  BY <1>1, <1>2, Looks
<1>4. /\ cpc' \in [Threads -> Steps]
      /\ cr' = [u \in Threads |-> cr'[u]]
      /\ \A u \in Threads \ {t} : cpc'[u] = cpc[u] /\ cr'[u] = cr[u]
      /\ cpc'[t] = "idle" \/ (cpc'[t] = "refs" /\ cr'[t].head \in Out)
  BY <1>1, <1>2, Looks
<1>5. Out \subseteq Out'
  BY <1>1, <1>3 DEF Out
<1>6. Knows(t)'
  BY <1>4, <1>5 DEF Knows, Linkers
<1>7. \A b : /\ Holds(t, b)' <=> Holds(t, b)
             /\ Links(t, b)' <=> Links(t, b)
             /\ Pops(t, b)' <=> Pops(t, b)
             /\ Keeps(t, b)' <=> Keeps(t, b)
  BY <1>1, <1>4 DEF Holds, Links, Pops, Keeps, Linkers
<1>8. initialBlockPoolIndex' \in Nat /\ initialBlockPoolIndex' = initialBlockPoolIndex
  BY <1>1 DEF IInv, Typed
<1>9. destroyed = <<>>
  BY <1>1, Alive
<1>. QED
  BY <1>1, <1>3, <1>4, <1>6, <1>7, <1>8, <1>9, Quiet

LEMMA ReadRefsKeeps ==
    ASSUME IInv, NEW t \in Threads, ReadRefs(t)
    PROVE  IInv'
<1> DEFINE b0 == cr[t].head
           seen == [canAlloc |-> cr[t].canAlloc, head |-> b0, refs |-> refs[b0],
                    wanted |-> wanted[b0]]
<1>1. cpc[t] = "refs" /\ UNCHANGED <<pool, list, destroyed>>
  BY DEF ReadRefs
<1>2. b0 \in Out
  BY <1>1 DEF IInv, Knows
<1>3. \/ Goto(t, "head", cr[t])
      \/ refs[b0] # 0 /\ Goto(t, "ref", seen)
  BY DEF ReadRefs, Step
<1>4. seen.head = b0 /\ seen.refs = refs[b0]
  OBVIOUS
<1>. HIDE DEF seen
<1>5. "head" \in Steps /\ "ref" \in Steps
  BY DEF Steps
<1>6. /\ cpc' \in [Threads -> Steps]
      /\ cr' = [u \in Threads |-> cr'[u]]
      /\ \A u \in Threads \ {t} : cpc'[u] = cpc[u] /\ cr'[u] = cr[u]
      /\ \/ cpc'[t] = "head"
         \/ cpc'[t] = "ref" /\ refs[b0] # 0 /\ cr'[t] = seen
  BY <1>3, <1>5, Goes
<1>7. Out' = Out
  BY <1>1 DEF Out, pool
<1>8. Knows(t)'
  BY <1>2, <1>4, <1>6, <1>7 DEF Knows, Linkers
<1>9. \A b : /\ Holds(t, b)' <=> Holds(t, b)
             /\ Links(t, b)' <=> Links(t, b)
             /\ Pops(t, b)' <=> Pops(t, b)
             /\ Keeps(t, b)' <=> Keeps(t, b)
  BY <1>1, <1>6 DEF Holds, Links, Pops, Keeps, Linkers
<1>10. destroyed = <<>>
  BY <1>1, Alive
<1>. QED
  BY <1>1, <1>6, <1>8, <1>9, <1>10, Quietly

LEMMA ReadNextKeeps ==
    ASSUME IInv, NEW t \in Threads, ReadNext(t)
    PROVE  IInv'
<1> DEFINE seen == [canAlloc |-> cr[t].canAlloc, head |-> cr[t].head,
                    next |-> freeListNext[cr[t].head]]
<1>1. cpc[t] = "next" /\ UNCHANGED <<pool, list, destroyed>> /\ Goto(t, "pop", seen)
  BY DEF ReadNext
<1>2. cr[t].head \in Out
  BY <1>1 DEF IInv, Knows
<1>3. seen.head = cr[t].head /\ seen.next = freeListNext[cr[t].head]
  OBVIOUS
<1>. HIDE DEF seen
<1>4. "pop" \in Steps
  BY DEF Steps
<1>5. /\ cpc' \in [Threads -> Steps]
      /\ cr' = [u \in Threads |-> cr'[u]]
      /\ \A u \in Threads \ {t} : cpc'[u] = cpc[u] /\ cr'[u] = cr[u]
      /\ cpc'[t] = "pop" /\ cr'[t] = seen
  BY <1>1, <1>4, Goes
<1>6. Out' = Out /\ freeListNext' = freeListNext
  BY <1>1 DEF Out, pool, list
<1>7. Knows(t)'
  BY <1>2, <1>3, <1>5, <1>6 DEF Knows, Linkers
<1>8. \A b : /\ Holds(t, b)' <=> Holds(t, b)
             /\ Links(t, b)' <=> Links(t, b)
             /\ Pops(t, b)' <=> Pops(t, b)
             /\ Keeps(t, b)' <=> Keeps(t, b)
  BY <1>1, <1>3, <1>5 DEF Holds, Links, Pops, Keeps, Linkers
<1>9. destroyed = <<>>
  BY <1>1, Alive
<1>. QED
  BY <1>1, <1>5, <1>7, <1>8, <1>9, Quietly

LEMMA ReadListHeadKeeps ==
    ASSUME IInv, NEW t \in Threads, ReadListHead(t)
    PROVE  IInv'
<1> DEFINE seen == [x \in DOMAIN cr[t] \cup {"old"} |->
                      IF x = "old" THEN freeListHead ELSE cr[t][x]]
<1>1. cpc[t] = "link" /\ UNCHANGED <<pool, list, destroyed>> /\ Goto(t, "store next", seen)
  <2>1. cr = [u \in Threads |-> cr[u]]
    BY DEF IInv, Typed
  <2>. QED
    BY <2>1 DEF ReadListHead, Goto
<1>2. Knows(t)
  BY DEF IInv
<1>3. "block" \in DOMAIN cr[t] /\ cr[t].block \in Out
      /\ ("head" \in DOMAIN cr[t] => cr[t].head \in Seen)
  BY <1>1, <1>2 DEF Knows, Linkers
<1>4. /\ DOMAIN seen = DOMAIN cr[t] \cup {"old"}
      /\ seen.block = cr[t].block
      /\ "head" \in DOMAIN cr[t] => seen.head = cr[t].head
  BY <1>3
<1>. HIDE DEF seen
<1>5. "store next" \in Steps
  BY DEF Steps, Linkers
<1>6. /\ cpc' \in [Threads -> Steps]
      /\ cr' = [u \in Threads |-> cr'[u]]
      /\ \A u \in Threads \ {t} : cpc'[u] = cpc[u] /\ cr'[u] = cr[u]
      /\ cpc'[t] = "store next" /\ cr'[t] = seen
  BY <1>1, <1>5, Goes
<1>7. Out' = Out /\ Seen' = Seen
  BY <1>1 DEF Out, pool, Seen, Null
<1>8. Knows(t)'
  <2>1. DOMAIN cr'[t] = DOMAIN cr[t] \cup {"old"}
    BY <1>4, <1>6
  <2>2. cr'[t].block \in Out' /\ ("head" \in DOMAIN cr[t] => cr'[t].head \in Seen')
    BY <1>3, <1>4, <1>6, <1>7
  <2>3. "block" \in DOMAIN cr'[t] /\ "old" \in DOMAIN cr'[t]
        /\ ("head" \in DOMAIN cr'[t] => "head" \in DOMAIN cr[t])
    BY <1>3, <2>1
  <2>. QED
    BY <1>6, <2>2, <2>3 DEF Knows
<1>9. \A b : /\ Holds(t, b)' <=> Holds(t, b)
             /\ Links(t, b)' <=> Links(t, b)
             /\ Pops(t, b)' <=> Pops(t, b)
             /\ Keeps(t, b)' <=> Keeps(t, b)
  BY <1>1, <1>4, <1>6 DEF Holds, Links, Pops, Keeps, Linkers
<1>10. destroyed = <<>>
  BY <1>1, Alive
<1>. QED
  BY <1>1, <1>6, <1>8, <1>9, <1>10, Quietly

LEMMA AddRefKeeps ==
    ASSUME IInv, NEW t \in Threads, AddRef(t)
    PROVE  IInv'
<1>. PICK b0 : b0 = cr[t].head
  OBVIOUS
<1>1. /\ cpc[t] = "ref" /\ destroyed = <<>>
      /\ UNCHANGED <<pool, freeListHead, freeListNext, wanted, destroyed>>
  BY Alive DEF AddRef
<1>2. b0 \in Out /\ cr[t].refs # 0
  BY <1>1 DEF IInv, Knows
<1>3. b0 \in AllBlocks /\ refs \in [AllBlocks -> Nat]
  BY <1>2 DEF Out, IInv, Typed
<1>4. Out' = Out /\ held' = held /\ created' = created
      /\ initialBlockPoolIndex' = initialBlockPoolIndex
  BY <1>1 DEF Out, pool
<1>5. "head" \in Steps /\ "next" \in Steps
  BY DEF Steps
<1>6. CASE UNCHANGED refs /\ Step(t, "head")
  <2>1. /\ cpc' \in [Threads -> Steps]
        /\ cr' = [u \in Threads |-> cr'[u]]
        /\ \A u \in Threads \ {t} : cpc'[u] = cpc[u] /\ cr'[u] = cr[u]
        /\ cpc'[t] = "head"
    BY <1>5, <1>6, Goes DEF Step
  <2>2. Knows(t)'
    BY <2>1 DEF Knows, Linkers
  <2>3. \A b : /\ Holds(t, b)' <=> Holds(t, b)
               /\ Links(t, b)' <=> Links(t, b)
               /\ Pops(t, b)' <=> Pops(t, b)
               /\ Keeps(t, b)' <=> Keeps(t, b)
    BY <1>1, <2>1 DEF Holds, Links, Pops, Keeps, Linkers
  <2>4. UNCHANGED list
    BY <1>1, <1>6 DEF list
  <2>. QED
    BY <1>1, <2>1, <2>2, <2>3, <2>4, Quietly
<1>7. CASE refs[b0] = cr[t].refs /\ refs' = [refs EXCEPT ![b0] = @ + 1] /\ Step(t, "next")
  <2>1. /\ cpc' \in [Threads -> Steps]
        /\ cr' = [u \in Threads |-> cr'[u]]
        /\ \A u \in Threads \ {t} : cpc'[u] = cpc[u] /\ cr'[u] = cr[u]
        /\ cpc'[t] = "next" /\ cr'[t] = cr[t]
    BY <1>5, <1>7, Goes DEF Step
  <2>2. Knows(t)'
    BY <1>2, <1>4, <2>1 DEF Knows, Linkers
  <2>3. \A b : /\ Holds(t, b)' <=> b = b0
               /\ ~Holds(t, b)
               /\ Links(t, b)' <=> Links(t, b)
               /\ Pops(t, b)' <=> Pops(t, b)
               /\ Keeps(t, b)' <=> Keeps(t, b)
    BY <1>1, <2>1 DEF Holds, Links, Pops, Keeps, Linkers
  <2>4. /\ refs' \in [AllBlocks -> Nat]
        /\ refs'[b0] = refs[b0] + 1
        /\ \A b \in AllBlocks : b # b0 => refs'[b] = refs[b]
    BY <1>3, <1>7
  <2>5. Typed'
    BY <1>1, <1>4, <2>1, <2>4 DEF IInv, Typed
  <2>6. \A b \in AllBlocks : b # b0 => Counted(b)' /\ Placed(b)'
    <3>. SUFFICES ASSUME NEW b \in AllBlocks, b # b0 PROVE Counted(b)' /\ Placed(b)'
      OBVIOUS
    <3>1. {} \in SUBSET (AllBlocks \ created) /\ created' = created \cup {}
          /\ held' = held \cup {}
      BY <1>4
    <3>. QED
      BY <1>1, <1>4, <2>1, <2>3, <2>4, <3>1, OtherBlock
  <2>7. \A u \in Threads : \A b : /\ Links(u, b)' <=> Links(u, b)
                                  /\ Pops(u, b)' <=> Pops(u, b)
                                  /\ Keeps(u, b)' <=> Keeps(u, b)
    BY <2>1, <2>3, OtherThread
  <2>8. OnList' = OnList
    BY <1>1, <1>4, <2>7 DEF OnList
  <2>9. Counted(b0)'
    <3>1. Cardinality(Holders(b0)') = Cardinality(Holders(b0)) + 1
      BY <2>1, <2>3, OneMore
    <3>2. ListsOwn(b0)' = ListsOwn(b0)
      BY <2>7, <2>8 DEF ListsOwn
    <3>3. Counted(b0)
      BY <1>3 DEF IInv
    <3>. QED
      BY <2>4, <3>1, <3>2, <3>3, HoldersCount, OwnCount DEF Counted
  <2>10. Placed(b0)'
    <3>1. Placed(b0)
      BY <1>3 DEF IInv
    <3>2. wanted' = wanted /\ refs'[b0] # 0 /\ refs[b0] # 0
      BY <1>1, <1>2, <1>3, <1>7, <2>4
    <3>. QED
      BY <1>4, <2>7, <3>1, <3>2 DEF Placed
  <2>11. Chained(freeListHead', freeListNext', OnList')
    BY <1>1, <2>8 DEF IInv
  <2>. QED
    BY <1>1, <1>4, <2>1, <2>2, <2>5, <2>6, <2>9, <2>10, <2>11, Kept
<1>. QED
  BY <1>6, <1>7 DEF AddRef

LEMMA PopKeeps ==
    ASSUME IInv, NEW t \in Threads, Pop(t)
    PROVE  IInv'
<1>. PICK b0 : b0 = cr[t].head
  OBVIOUS
<1> DEFINE seen == [canAlloc |-> cr[t].canAlloc, head |-> freeListHead, block |-> b0]
<1>1. /\ cpc[t] = "pop" /\ destroyed = <<>>
      /\ UNCHANGED <<pool, freeListNext, refs, wanted, destroyed>>
  BY Alive DEF Pop
<1>2. b0 \in Out /\ cr[t].next = freeListNext[b0]
  BY <1>1 DEF IInv, Knows
<1>3. b0 \in AllBlocks /\ Null \notin AllBlocks
  BY <1>2 DEF Out, IInv, Typed, Sizes, Null
<1>4. Out' = Out /\ held' = held /\ created' = created
      /\ initialBlockPoolIndex' = initialBlockPoolIndex
  BY <1>1 DEF Out, pool
<1>5. "unref" \in Steps /\ "taken" \in Steps
  BY DEF Steps
<1>6. Chained(freeListHead, freeListNext, OnList) /\ Sizes
  BY DEF IInv
<1>7. CASE Goto(t, "unref", seen) /\ UNCHANGED freeListHead
  <2>1. seen.block = b0 /\ seen.head = freeListHead /\ DOMAIN seen = {"canAlloc", "head", "block"}
    OBVIOUS
  <2>. HIDE DEF seen
  <2>2. /\ cpc' \in [Threads -> Steps]
        /\ cr' = [u \in Threads |-> cr'[u]]
        /\ \A u \in Threads \ {t} : cpc'[u] = cpc[u] /\ cr'[u] = cr[u]
        /\ cpc'[t] = "unref" /\ cr'[t] = seen
    BY <1>5, <1>7, Goes
  <2>3. freeListHead \in Seen
    BY <1>6, ChainTop DEF Seen, OnList
  <2>4. Seen' = Seen
    BY <1>4 DEF Seen, Null
  <2>5. Knows(t)'
    BY <1>2, <1>4, <2>1, <2>2, <2>3, <2>4 DEF Knows, Linkers
  <2>6. \A b : /\ Holds(t, b)' <=> Holds(t, b)
               /\ Links(t, b)' <=> Links(t, b)
               /\ Pops(t, b)' <=> Pops(t, b)
               /\ Keeps(t, b)' <=> Keeps(t, b)
    BY <1>1, <2>1, <2>2 DEF Holds, Links, Pops, Keeps, Linkers
  <2>7. UNCHANGED list
    BY <1>1, <1>7 DEF list
  <2>. QED
    BY <1>1, <2>2, <2>5, <2>6, <2>7, Quietly
<1>8. CASE freeListHead = b0 /\ freeListHead' = cr[t].next /\ Step(t, "taken")
  <2>1. /\ cpc' \in [Threads -> Steps]
        /\ cr' = [u \in Threads |-> cr'[u]]
        /\ \A u \in Threads \ {t} : cpc'[u] = cpc[u] /\ cr'[u] = cr[u]
        /\ cpc'[t] = "taken" /\ cr'[t] = cr[t]
    BY <1>5, <1>8, Goes DEF Step
  <2>2. b0 \in OnList
    BY <1>3, <1>6, <1>8, ChainTop
  <2>3. Knows(t)'
    BY <1>2, <1>4, <2>1 DEF Knows, Linkers
  <2>4. \A b : /\ Holds(t, b)' <=> Holds(t, b)
               /\ ~Links(t, b)' /\ ~Links(t, b)
               /\ Pops(t, b)' <=> b = b0
               /\ ~Pops(t, b)
               /\ Keeps(t, b)' <=> b = b0
               /\ ~Keeps(t, b)
    BY <1>1, <2>1 DEF Holds, Links, Pops, Keeps, Linkers
  <2>5. Typed'
    BY <1>1, <1>4, <2>1 DEF IInv, Typed
  <2>6. \A b \in AllBlocks : b # b0 => Counted(b)' /\ Placed(b)' /\ (b \in OnList' <=> b \in OnList)
    <3>. SUFFICES ASSUME NEW b \in AllBlocks, b # b0
                  PROVE  Counted(b)' /\ Placed(b)' /\ (b \in OnList' <=> b \in OnList)
      OBVIOUS
    <3>1. {} \in SUBSET (AllBlocks \ created) /\ created' = created \cup {}
          /\ held' = held \cup {}
      BY <1>4
    <3>. QED
      BY <1>1, <1>4, <2>1, <2>4, <3>1, OtherBlock
  <2>7. OnList' = OnList \ {b0}
    <3>1. b0 \notin OnList'
      BY <2>4 DEF OnList
    <3>2. OnList \subseteq AllBlocks /\ OnList' \subseteq AllBlocks
      BY <2>5 DEF OnList, Out, IInv, Typed
    <3>. QED
      BY <2>6, <3>1, <3>2
  <2>8. Counted(b0)'
    <3>1. Holders(b0)' = Holders(b0)
      BY <2>1, <2>4, SameHolders
    <3>2. ListsOwn(b0)' = 1 /\ ListsOwn(b0) = 1
      BY <2>2, <2>4 DEF ListsOwn
    <3>3. Counted(b0)
      BY <1>3 DEF IInv
    <3>. QED
      BY <1>1, <3>1, <3>2, <3>3 DEF Counted
  <2>9. Placed(b0)'
    <3>1. \A u \in Threads \ {t} : ~Links(u, b0)' /\ ~Pops(u, b0)'
      BY <2>1, <2>2, OtherThread DEF OnList
    <3>2. ~wanted'[b0] /\ b0 \notin held' /\ b0 \in Out'
      BY <1>1, <1>4, <2>2 DEF OnList
    <3>. QED
      BY <2>4, <3>1, <3>2 DEF Placed
  <2>10. Chained(freeListHead', freeListNext', OnList')
    <3>1. Chained(freeListNext[b0], freeListNext, OnList \ {b0})
      BY <1>3, <1>6, <1>8, ChainPop
    <3>. QED
      BY <1>1, <1>2, <1>8, <2>7, <3>1
  <2>. QED
    BY <1>1, <1>4, <2>1, <2>3, <2>5, <2>6, <2>8, <2>9, <2>10, Kept
<1>. QED
  BY <1>7, <1>8 DEF Pop

LEMMA TakenKeeps ==
    ASSUME IInv, NEW t \in Threads, Taken(t)
    PROVE  IInv'
<1>. PICK b0 : b0 = cr[t].head
  OBVIOUS
<1>1. /\ cpc[t] = "taken" /\ destroyed = <<>>
      /\ refs' = [refs EXCEPT ![b0] = @ - 2] /\ held' = held \cup {b0}
      /\ Return(t)
      /\ UNCHANGED <<initialBlockPoolIndex, created, freeListHead, freeListNext, wanted, destroyed>>
  BY Alive DEF Taken
<1>2. b0 \in Out
  BY <1>1 DEF IInv, Knows
<1>3. b0 \in AllBlocks /\ b0 \in created /\ refs \in [AllBlocks -> Nat]
  BY <1>2 DEF Out, IInv, Typed
<1>4. Out' = Out
  BY <1>1 DEF Out
<1>5. /\ cpc' \in [Threads -> Steps]
      /\ cr' = [u \in Threads |-> cr'[u]]
      /\ \A u \in Threads \ {t} : cpc'[u] = cpc[u] /\ cr'[u] = cr[u]
      /\ cpc'[t] = "idle"
  <2>1. "idle" \in Steps
    BY DEF Steps
  <2>. QED
    BY <1>1, <2>1, Goes DEF Return
<1>6. Knows(t)'
  BY <1>5 DEF Knows, Linkers
<1>7. \A b : /\ Holds(t, b) <=> b = b0
             /\ Pops(t, b) <=> b = b0
             /\ Keeps(t, b) <=> b = b0
             /\ ~Links(t, b)
             /\ ~Holds(t, b)' /\ ~Links(t, b)' /\ ~Pops(t, b)' /\ ~Keeps(t, b)'
  BY <1>1, <1>5 DEF Holds, Links, Pops, Keeps, Linkers
<1>8. refs[b0] >= 2
  BY <1>3, <1>7, Referenced
<1>9. /\ refs' \in [AllBlocks -> Nat]
      /\ refs'[b0] = refs[b0] - 2
      /\ \A b \in AllBlocks : b # b0 => refs'[b] = refs[b]
  BY <1>1, <1>3, <1>8
<1>10. Typed'
  BY <1>1, <1>3, <1>5, <1>9 DEF IInv, Typed
<1>11. \A b \in AllBlocks : b # b0 => Counted(b)' /\ Placed(b)' /\ (b \in OnList' <=> b \in OnList)
  <2>. SUFFICES ASSUME NEW b \in AllBlocks, b # b0
                PROVE  Counted(b)' /\ Placed(b)' /\ (b \in OnList' <=> b \in OnList)
    OBVIOUS
  <2>1. {} \in SUBSET (AllBlocks \ created) /\ created' = created \cup {}
        /\ (b \in held' <=> b \in held \cup {})
    BY <1>1
  <2>. QED
    BY <1>1, <1>5, <1>7, <1>9, <2>1, OtherBlock
<1>12. Placed(b0) /\ Counted(b0)
  BY <1>3 DEF IInv
<1>13. ~wanted[b0] /\ \A u \in Threads \ {t} : ~Links(u, b0) /\ ~Pops(u, b0)
  BY <1>7, <1>12 DEF Placed
<1>14. \A u \in Threads : ~Links(u, b0)' /\ ~Pops(u, b0)' /\ ~Keeps(u, b0)'
  BY <1>5, <1>7, <1>13, OtherThread DEF Keeps
<1>15. b0 \notin OnList /\ b0 \notin OnList'
  BY <1>1, <1>7 DEF OnList
<1>16. OnList' = OnList
  BY <1>10, <1>11, <1>15, SameList DEF IInv
<1>17. Counted(b0)'
  <2>1. Cardinality(Holders(b0)') = Cardinality(Holders(b0)) - 1
    BY <1>5, <1>7, OneLess
  <2>2. ListsOwn(b0)' = 0 /\ ListsOwn(b0) = 1
    BY <1>7, <1>14, <1>15 DEF ListsOwn
  <2>. QED
    BY <1>3, <1>9, <1>12, <2>1, <2>2, HoldersCount DEF Counted
<1>18. Placed(b0)'
  BY <1>1, <1>2, <1>4, <1>13, <1>14 DEF Placed
<1>19. Chained(freeListHead', freeListNext', OnList')
  BY <1>1, <1>16 DEF IInv
<1>. QED
  BY <1>1, <1>4, <1>5, <1>6, <1>10, <1>11, <1>17, <1>18, <1>19, Kept

LEMMA UnrefKeeps ==
    ASSUME IInv, NEW t \in Threads, Unref(t)
    PROVE  IInv'
<1>. PICK b0 : b0 = cr[t].block
  OBVIOUS
<1>1. /\ cpc[t] = "unref" /\ destroyed = <<>>
      /\ refs' = [refs EXCEPT ![b0] = @ - 1]
      /\ UNCHANGED <<initialBlockPoolIndex, freeListHead, freeListNext, wanted, destroyed>>
  BY Alive DEF Unref
<1>2. Knows(t)
  BY DEF IInv
<1>3. b0 \in Out /\ cr[t].head \in Seen /\ {"block", "head"} \subseteq DOMAIN cr[t]
  BY <1>1, <1>2 DEF Knows
<1>4. b0 \in AllBlocks /\ b0 \in created /\ refs \in [AllBlocks -> Nat]
  BY <1>3 DEF Out, IInv, Typed
<1>5. \/ wanted[b0] /\ refs[b0] = 1 /\ Step(t, "link") /\ UNCHANGED <<created, held>>
      \/ ~(wanted[b0] /\ refs[b0] = 1) /\ LookAt(t, cr[t].head)
  BY DEF Unref
<1>6. PICK N \in SUBSET (AllBlocks \ created) : created' = created \cup N /\ held' = held \cup N
  <2>1. CASE UNCHANGED <<created, held>>
    <3>1. {} \in SUBSET (AllBlocks \ created) /\ created' = created \cup {} /\ held' = held \cup {}
      BY <2>1
    <3>. QED
      BY <3>1
  <2>. QED
    BY <1>3, <1>5, <2>1, Looks
<1>7. /\ cpc' \in [Threads -> Steps]
      /\ cr' = [u \in Threads |-> cr'[u]]
      /\ \A u \in Threads \ {t} : cpc'[u] = cpc[u] /\ cr'[u] = cr[u]
      /\ \/ cpc'[t] = "link" /\ cr'[t] = cr[t] /\ wanted[b0] /\ refs[b0] = 1
         \/ /\ ~(wanted[b0] /\ refs[b0] = 1)
            /\ cpc'[t] = "idle" \/ (cpc'[t] = "refs" /\ cr'[t].head \in Out)
  <2>1. "link" \in Steps
    BY DEF Steps, Linkers
  <2>2. CASE wanted[b0] /\ refs[b0] = 1 /\ Step(t, "link")
    BY <2>1, <2>2, Goes DEF Step
  <2>. QED
    BY <1>3, <1>5, <2>2, Looks
<1>8. b0 \notin N /\ Out \subseteq Out'
  BY <1>1, <1>4, <1>6 DEF Out
<1>9. Knows(t)'
  <2>1. Seen \subseteq Seen'
    BY <1>8 DEF Seen, Null
  <2>. QED
    BY <1>3, <1>7, <1>8, <2>1 DEF Knows, Linkers
<1>10. \A b : /\ Holds(t, b) <=> b = b0
              /\ ~Links(t, b) /\ ~Pops(t, b) /\ ~Keeps(t, b)
              /\ ~Holds(t, b)' /\ ~Pops(t, b)' /\ ~Keeps(t, b)'
              /\ Links(t, b)' <=> b = b0 /\ cpc'[t] = "link"
  BY <1>1, <1>7 DEF Holds, Links, Pops, Keeps, Linkers
<1>11. Placed(b0) /\ Counted(b0)
  BY <1>4 DEF IInv
<1>12. refs[b0] >= 1 /\ (b0 \in OnList \/ (\E u \in Threads : Keeps(u, b0)) => refs[b0] >= 2)
  BY <1>4, <1>10, Referenced
<1>13. /\ refs' \in [AllBlocks -> Nat]
       /\ refs'[b0] = refs[b0] - 1
       /\ \A b \in AllBlocks : b # b0 => refs'[b] = refs[b]
  BY <1>1, <1>4, <1>12
<1>14. Typed'
  BY <1>1, <1>6, <1>7, <1>13 DEF IInv, Typed
<1>15. \A b \in AllBlocks : b # b0 => Counted(b)' /\ Placed(b)' /\ (b \in OnList' <=> b \in OnList)
  <2>. SUFFICES ASSUME NEW b \in AllBlocks, b # b0
                PROVE  Counted(b)' /\ Placed(b)' /\ (b \in OnList' <=> b \in OnList)
    OBVIOUS
  <2>. QED
    BY <1>1, <1>6, <1>7, <1>10, <1>13, OtherBlock
<1>16. b0 \in held' <=> b0 \in held
  BY <1>6, <1>8
<1>17. \A u \in Threads \ {t} : /\ Links(u, b0)' <=> Links(u, b0)
                                /\ Pops(u, b0)' <=> Pops(u, b0)
                                /\ Keeps(u, b0)' <=> Keeps(u, b0)
  BY <1>7, OtherThread
<1>18. b0 \in OnList' <=> b0 \in OnList
  BY <1>1, <1>3, <1>7, <1>8, <1>10, <1>16, <1>17 DEF OnList
<1>19. OnList' = OnList
  BY <1>14, <1>15, <1>18, SameList DEF IInv
<1>20. Counted(b0)'
  <2>1. Cardinality(Holders(b0)') = Cardinality(Holders(b0)) - 1
    BY <1>7, <1>10, OneLess
  <2>2. ListsOwn(b0)' = ListsOwn(b0)
    BY <1>10, <1>17, <1>18 DEF ListsOwn
  <2>. QED
    BY <1>11, <1>13, <2>1, <2>2, HoldersCount, OwnCount DEF Counted
<1>21. Placed(b0)'
  <2>1. wanted[b0] => \A u \in Threads : ~Links(u, b0) /\ ~Pops(u, b0)
    BY <1>11, <1>12 DEF Placed
  <2>2. CASE cpc'[t] = "link"
    <3>1. wanted'[b0] /\ refs'[b0] = 0 /\ b0 \in Out' /\ b0 \notin held'
      BY <1>1, <1>3, <1>7, <1>8, <1>11, <1>13, <1>16, <2>2 DEF Placed
    <3>2. \A u \in Threads \ {t} : ~Links(u, b0)' /\ ~Pops(u, b0)'
      BY <1>1, <1>17, <2>1, <3>1
    <3>. QED
      BY <1>10, <2>2, <3>1, <3>2 DEF Placed
  <2>3. CASE cpc'[t] # "link"
    <3>1. wanted' = wanted /\ (wanted[b0] => refs'[b0] # 0)
      BY <1>1, <1>4, <1>7, <1>12, <1>13, <2>3
    <3>2. \A u \in Threads : Links(u, b0) \/ Pops(u, b0) => Keeps(u, b0)
      BY <1>11, <1>12 DEF Placed
    <3>3. \A u \in Threads : /\ Links(u, b0)' <=> Links(u, b0)
                             /\ Pops(u, b0)' <=> Pops(u, b0)
                             /\ Keeps(u, b0)' <=> Keeps(u, b0)
      BY <1>10, <1>17, <2>3
    <3>. QED
      BY <1>3, <1>8, <1>11, <1>16, <3>1, <3>2, <3>3 DEF Placed
  <2>. QED
    BY <2>2, <2>3
<1>22. Chained(freeListHead', freeListNext', OnList')
  BY <1>1, <1>19 DEF IInv
<1>. QED
  BY <1>1, <1>7, <1>8, <1>9, <1>14, <1>15, <1>20, <1>21, <1>22, Kept

LEMMA AddKeeps ==
    ASSUME IInv, NEW t \in Threads, NEW b0 \in AllBlocks, Add(t, b0)
    PROVE  IInv'
<1>1. /\ cpc[t] = "idle" /\ destroyed = <<>> /\ b0 \in held
      /\ held' = held \ {b0} /\ wanted' = [wanted EXCEPT ![b0] = TRUE]
      /\ UNCHANGED <<initialBlockPoolIndex, created, freeListHead, freeListNext, refs, destroyed>>
  BY DEF Add
<1>2. Placed(b0) /\ Counted(b0)
  BY DEF IInv
<1>3. /\ b0 \in Out /\ b0 \notin OnList
      /\ \A u \in Threads : ~Links(u, b0) /\ ~Pops(u, b0) /\ ~Keeps(u, b0)
  BY <1>1, <1>2 DEF Placed, OnList, Keeps
<1>4. Out' = Out /\ b0 \notin held'
  BY <1>1 DEF Out
<1>5. /\ wanted' \in [AllBlocks -> BOOLEAN]
      /\ wanted'[b0] = TRUE
      /\ \A b \in AllBlocks : b # b0 => wanted'[b] = wanted[b]
  BY <1>1 DEF IInv, Typed
<1> DEFINE seen == [block |-> b0]
<1>6. \/ refs[b0] = 0 /\ Goto(t, "link", seen)
      \/ refs[b0] # 0 /\ Goto(t, "idle", <<>>)
  BY DEF Add, Return
<1>7. seen.block = b0 /\ "block" \in DOMAIN seen /\ "head" \notin DOMAIN seen
  OBVIOUS
<1>. HIDE DEF seen
<1>8. "idle" \in Steps /\ "link" \in Steps
  BY DEF Steps, Linkers
<1>9. /\ cpc' \in [Threads -> Steps]
      /\ cr' = [u \in Threads |-> cr'[u]]
      /\ \A u \in Threads \ {t} : cpc'[u] = cpc[u] /\ cr'[u] = cr[u]
      /\ \/ cpc'[t] = "link" /\ cr'[t] = seen /\ refs[b0] = 0
         \/ cpc'[t] = "idle" /\ refs[b0] # 0
  BY <1>6, <1>8, Goes
<1>10. Knows(t)'
  BY <1>3, <1>4, <1>7, <1>9 DEF Knows, Linkers
<1>11. \A b : /\ ~Holds(t, b) /\ ~Links(t, b) /\ ~Pops(t, b) /\ ~Keeps(t, b)
              /\ ~Holds(t, b)' /\ ~Pops(t, b)' /\ ~Keeps(t, b)'
              /\ Links(t, b)' <=> b = b0 /\ cpc'[t] = "link"
  BY <1>1, <1>7, <1>9 DEF Holds, Links, Pops, Keeps, Linkers
<1>12. Typed'
  BY <1>1, <1>5, <1>9 DEF IInv, Typed
<1>13. \A b \in AllBlocks : b # b0 => Counted(b)' /\ Placed(b)' /\ (b \in OnList' <=> b \in OnList)
  <2>. SUFFICES ASSUME NEW b \in AllBlocks, b # b0
                PROVE  Counted(b)' /\ Placed(b)' /\ (b \in OnList' <=> b \in OnList)
    OBVIOUS
  <2>1. {} \in SUBSET (AllBlocks \ created) /\ created' = created \cup {}
        /\ (b \in held' <=> b \in held \cup {})
    BY <1>1
  <2>. QED
    BY <1>1, <1>5, <1>9, <1>11, <2>1, OtherBlock
<1>14. \A u \in Threads \ {t} : ~Links(u, b0)' /\ ~Pops(u, b0)' /\ ~Keeps(u, b0)'
  BY <1>3, <1>9, OtherThread
<1>15. b0 \notin OnList'
  BY <1>5 DEF OnList
<1>16. OnList' = OnList
  BY <1>3, <1>12, <1>13, <1>15, SameList DEF IInv
<1>17. Counted(b0)'
  <2>1. Holders(b0)' = Holders(b0)
    BY <1>9, <1>11, SameHolders
  <2>2. ListsOwn(b0)' = 0 /\ ListsOwn(b0) = 0
    BY <1>3, <1>11, <1>14, <1>15 DEF ListsOwn
  <2>. QED
    BY <1>1, <1>2, <2>1, <2>2 DEF Counted
<1>18. Placed(b0)'
  <2>1. refs'[b0] # 0 \/ Links(t, b0)'
    BY <1>1, <1>9, <1>11
  <2>2. cpc'[t] = "link" => refs'[b0] = 0
    BY <1>1, <1>9
  <2>. QED
    BY <1>3, <1>4, <1>5, <1>11, <1>14, <2>1, <2>2 DEF Placed
<1>19. Chained(freeListHead', freeListNext', OnList')
  BY <1>1, <1>16 DEF IInv
<1>. QED
  BY <1>1, <1>4, <1>9, <1>10, <1>12, <1>13, <1>17, <1>18, <1>19, Kept

LEMMA StoreNextKeeps ==
    ASSUME IInv, NEW t \in Threads, StoreNext(t)
    PROVE  IInv'
<1>. PICK b0 : b0 = cr[t].block
  OBVIOUS
<1>1. /\ cpc[t] = "store next" /\ destroyed = <<>>
      /\ freeListNext' = [freeListNext EXCEPT ![b0] = cr[t].old]
      /\ Goto(t, "store refs", cr[t])
      /\ UNCHANGED <<pool, freeListHead, refs, wanted, destroyed>>
  BY Alive DEF StoreNext, Step
<1>2. Knows(t)
  BY DEF IInv
<1>3. b0 \in Out /\ {"block", "old"} \subseteq DOMAIN cr[t]
      /\ ("head" \in DOMAIN cr[t] => cr[t].head \in Seen)
  BY <1>1, <1>2 DEF Knows, Linkers
<1>4. b0 \in AllBlocks
  BY <1>3 DEF Out, IInv, Typed
<1>5. "store refs" \in Steps
  BY DEF Steps, Linkers
<1>6. /\ cpc' \in [Threads -> Steps]
      /\ cr' = [u \in Threads |-> cr'[u]]
      /\ \A u \in Threads \ {t} : cpc'[u] = cpc[u] /\ cr'[u] = cr[u]
      /\ cpc'[t] = "store refs" /\ cr'[t] = cr[t]
  BY <1>1, <1>5, Goes
<1>7. Out' = Out /\ Seen' = Seen /\ created' = created /\ held' = held
      /\ initialBlockPoolIndex' = initialBlockPoolIndex
  BY <1>1 DEF pool, Out, Seen, Null
<1>8. /\ freeListNext' = [b \in AllBlocks |-> freeListNext'[b]]
      /\ freeListNext'[b0] = cr[t].old
      /\ \A b \in AllBlocks : b # b0 => freeListNext'[b] = freeListNext[b]
  <2>1. freeListNext = [b \in AllBlocks |-> freeListNext[b]]
    BY DEF IInv, Typed
  <2>. QED
    BY <1>1, <1>4, <2>1
<1>9. Knows(t)'
  BY <1>3, <1>6, <1>7, <1>8 DEF Knows, Linkers
<1>10. \A b : /\ Holds(t, b)' <=> Holds(t, b)
              /\ Links(t, b)' <=> Links(t, b)
              /\ Pops(t, b)' <=> Pops(t, b)
              /\ Keeps(t, b)' <=> Keeps(t, b)
              /\ b = b0 <=> Links(t, b)
              /\ ~Keeps(t, b)
  BY <1>1, <1>6 DEF Holds, Links, Pops, Keeps, Linkers
<1>11. Typed'
  BY <1>1, <1>6, <1>7, <1>8 DEF IInv, Typed
<1>12. \A b \in AllBlocks : Counted(b)' /\ Placed(b)' /\ (b \in OnList' <=> b \in OnList)
  <2>. TAKE b \in AllBlocks
  <2>1. {} \in SUBSET (AllBlocks \ created) /\ created' = created \cup {}
        /\ held' = held \cup {}
    BY <1>7
  <2>. QED
    BY <1>1, <1>6, <1>7, <1>10, <2>1, OtherBlock
<1>13. OnList' = OnList
  BY <1>11, <1>12, SameList DEF IInv
<1>14. Placed(b0) /\ refs[b0] = 0
  BY <1>4, <1>10 DEF IInv, Placed
<1>15. \A u \in Threads \ {t} : ~Holds(u, b0) /\ ~Links(u, b0)
  BY <1>4, <1>10, <1>14, NoReference DEF Placed
<1>16. ASSUME NEW u \in Threads \ {t}
       PROVE  /\ cpc[u] = "pop" => freeListNext'[cr[u].head] = freeListNext[cr[u].head]
              /\ cpc[u] \in {"store refs", "push"} =>
                    freeListNext'[cr[u].block] = freeListNext[cr[u].block]
  <2>1. Knows(u)
    BY DEF IInv
  <2>2. Out \subseteq AllBlocks
    BY DEF Out, IInv, Typed
  <2>3. CASE cpc[u] = "pop"
    <3>1. cr[u].head \in AllBlocks /\ cr[u].head # b0
      BY <1>15, <2>1, <2>2, <2>3 DEF Knows, Holds
    <3>. QED
      BY <1>8, <2>3, <3>1
  <2>4. CASE cpc[u] \in {"store refs", "push"}
    <3>1. cr[u].block \in AllBlocks /\ cr[u].block # b0
      BY <1>15, <2>1, <2>2, <2>4 DEF Knows, Links, Linkers
    <3>. QED
      BY <1>8, <2>4, <3>1
  <2>. QED
    BY <2>3, <2>4
<1>17. Chained(freeListHead', freeListNext', OnList')
  <2>1. OnList \subseteq AllBlocks /\ b0 \notin OnList
    BY <1>4, <1>14, NoReference DEF OnList, Out, IInv, Typed
  <2>2. Chained(freeListHead, freeListNext', OnList)
    BY <1>8, <2>1, ChainSame DEF IInv
  <2>. QED
    BY <1>1, <1>13, <2>2
<1>. QED
  BY <1>1, <1>6, <1>7, <1>9, <1>11, <1>12, <1>16, <1>17, Kept

LEMMA StoreRefsKeeps ==
    ASSUME IInv, NEW t \in Threads, StoreRefs(t)
    PROVE  IInv'
<1>. PICK b0 : b0 = cr[t].block
  OBVIOUS
<1>1. /\ cpc[t] = "store refs" /\ destroyed = <<>>
      /\ refs' = [refs EXCEPT ![b0] = 1]
      /\ wanted' = [wanted EXCEPT ![b0] = FALSE]
      /\ Goto(t, "push", cr[t])
      /\ UNCHANGED <<pool, freeListHead, freeListNext, destroyed>>
  BY Alive DEF StoreRefs, Step
<1>2. Knows(t)
  BY DEF IInv
<1>3. b0 \in Out /\ {"block", "old"} \subseteq DOMAIN cr[t]
      /\ ("head" \in DOMAIN cr[t] => cr[t].head \in Seen)
      /\ cr[t].old = freeListNext[b0]
  BY <1>1, <1>2 DEF Knows, Linkers
<1>4. b0 \in AllBlocks
  BY <1>3 DEF Out, IInv, Typed
<1>5. "push" \in Steps
  BY DEF Steps, Linkers
<1>6. /\ cpc' \in [Threads -> Steps]
      /\ cr' = [u \in Threads |-> cr'[u]]
      /\ \A u \in Threads \ {t} : cpc'[u] = cpc[u] /\ cr'[u] = cr[u]
      /\ cpc'[t] = "push" /\ cr'[t] = cr[t]
  BY <1>1, <1>5, Goes
<1>7. Out' = Out /\ Seen' = Seen /\ created' = created /\ held' = held
      /\ initialBlockPoolIndex' = initialBlockPoolIndex /\ freeListNext' = freeListNext
  BY <1>1 DEF pool, Out, Seen, Null
<1>8. /\ refs' \in [AllBlocks -> Nat] /\ wanted' \in [AllBlocks -> BOOLEAN]
      /\ refs'[b0] = 1 /\ wanted'[b0] = FALSE
      /\ \A b \in AllBlocks : b # b0 => refs'[b] = refs[b] /\ wanted'[b] = wanted[b]
  BY <1>1, <1>4 DEF IInv, Typed
<1>9. Knows(t)'
  BY <1>3, <1>6, <1>7 DEF Knows, Linkers
<1>10. \A b : /\ ~Holds(t, b)' /\ ~Holds(t, b)
              /\ Links(t, b)' <=> Links(t, b)
              /\ ~Pops(t, b)' /\ ~Pops(t, b)
              /\ Keeps(t, b)' <=> b = b0
              /\ b = b0 <=> Links(t, b)
              /\ ~Keeps(t, b)
  BY <1>1, <1>6 DEF Holds, Links, Pops, Keeps, Linkers
<1>11. Typed'
  <2>1. Typed
    BY DEF IInv
  <2>. QED
    BY <1>6, <1>7, <1>8, <2>1 DEF Typed
<1>12. \A b \in AllBlocks : b # b0 => Counted(b)' /\ Placed(b)' /\ (b \in OnList' <=> b \in OnList)
  <2>. SUFFICES ASSUME NEW b \in AllBlocks, b # b0
                PROVE  Counted(b)' /\ Placed(b)' /\ (b \in OnList' <=> b \in OnList)
    OBVIOUS
  <2>1. {} \in SUBSET (AllBlocks \ created) /\ created' = created \cup {}
        /\ held' = held \cup {}
    BY <1>7
  <2>. QED
    BY <1>6, <1>7, <1>8, <1>10, <2>1, OtherBlock
<1>13. Placed(b0) /\ refs[b0] = 0 /\ Counted(b0)
  BY <1>4, <1>10 DEF IInv, Placed
<1>14. \A u \in Threads \ {t} : ~Links(u, b0)' /\ ~Pops(u, b0)'
  BY <1>6, <1>10, <1>13, OtherThread DEF Placed
<1>15. b0 \notin OnList /\ b0 \notin OnList'
  BY <1>10 DEF OnList
<1>16. OnList' = OnList
  BY <1>11, <1>12, <1>15, SameList DEF IInv
<1>17. Counted(b0)'
  <2>1. Holders(b0)' = Holders(b0)
    BY <1>6, <1>10, SameHolders
  <2>2. ListsOwn(b0)' = 1 /\ ListsOwn(b0) = 0
    BY <1>4, <1>10, <1>13, NoReference DEF ListsOwn
  <2>. QED
    BY <1>8, <1>13, <2>1, <2>2, HoldersCount DEF Counted
<1>18. Placed(b0)'
  <2>1. b0 \notin held'
    BY <1>7, <1>10, <1>13 DEF Placed
  <2>. QED
    BY <1>3, <1>7, <1>8, <1>10, <1>14, <2>1 DEF Placed
<1>19. Chained(freeListHead', freeListNext', OnList')
  BY <1>1, <1>16 DEF IInv
<1>. QED
  BY <1>1, <1>6, <1>7, <1>9, <1>11, <1>12, <1>17, <1>18, <1>19, Kept

(* add_knowing_refcount_is_zero() ends: back to try_get() or to the caller. *)
LEMMA Ends ==
    ASSUME IInv, NEW t \in Threads, cpc[t] \in Linkers, EndLink(t)
    PROVE  /\ \E N \in SUBSET (AllBlocks \ created) :
                 created' = created \cup N /\ held' = held \cup N
           /\ cpc' \in [Threads -> Steps]
           /\ cr' = [u \in Threads |-> cr'[u]]
           /\ \A u \in Threads \ {t} : cpc'[u] = cpc[u] /\ cr'[u] = cr[u]
           /\ cpc'[t] = "idle" \/ (cpc'[t] = "refs" /\ cr'[t].head \in Out)
<1>1. CASE "head" \in DOMAIN cr[t]
  <2>1. cr[t].head \in Seen
    BY <1>1 DEF IInv, Knows
  <2>2. LookAt(t, cr[t].head)
    BY <1>1 DEF EndLink
  <2>. QED
    BY <2>1, <2>2, Looks
<1>2. CASE "head" \notin DOMAIN cr[t]
  <2>1. Goto(t, "idle", <<>>) /\ UNCHANGED <<created, held>>
    BY <1>2 DEF EndLink, Return
  <2>2. {} \in SUBSET (AllBlocks \ created) /\ created' = created \cup {}
        /\ held' = held \cup {}
    BY <2>1
  <2>3. "idle" \in Steps
    BY DEF Steps
  <2>4. /\ cpc' \in [Threads -> Steps]
        /\ cr' = [u \in Threads |-> cr'[u]]
        /\ \A u \in Threads \ {t} : cpc'[u] = cpc[u] /\ cr'[u] = cr[u]
        /\ cpc'[t] = "idle"
    BY <2>1, <2>3, Goes
  <2>. QED
    BY <2>2, <2>4
<1>. QED
  BY <1>1, <1>2

LEMMA PushKeeps ==
    ASSUME IInv, NEW t \in Threads, Push(t)
    PROVE  IInv'
<1>. PICK b0 : b0 = cr[t].block
  OBVIOUS
<1>1. /\ cpc[t] = "push" /\ cpc[t] \in Linkers /\ destroyed = <<>>
      /\ UNCHANGED <<initialBlockPoolIndex, freeListNext, refs, wanted, destroyed>>
  BY Alive DEF Push, Linkers
<1>2. Knows(t)
  BY DEF IInv
<1>3. b0 \in Out /\ {"block", "old"} \subseteq DOMAIN cr[t]
      /\ ("head" \in DOMAIN cr[t] => cr[t].head \in Seen)
      /\ cr[t].old = freeListNext[b0]
  BY <1>1, <1>2 DEF Knows, Linkers
<1>4. b0 \in AllBlocks /\ b0 \in created
  BY <1>3 DEF Out, IInv, Typed
<1>5. Chained(freeListHead, freeListNext, OnList) /\ Sizes
  BY DEF IInv
<1> DEFINE seen == [cr[t] EXCEPT !.old = freeListHead]
<1>6. CASE Goto(t, "retry", seen) /\ UNCHANGED <<freeListHead, created, held>>
  <2>1. /\ DOMAIN seen = DOMAIN cr[t]
        /\ seen.block = b0
        /\ "head" \in DOMAIN cr[t] => seen.head = cr[t].head
    BY <1>3
  <2>. HIDE DEF seen
  <2>2. "retry" \in Steps
    BY DEF Steps, Linkers
  <2>3. /\ cpc' \in [Threads -> Steps]
        /\ cr' = [u \in Threads |-> cr'[u]]
        /\ \A u \in Threads \ {t} : cpc'[u] = cpc[u] /\ cr'[u] = cr[u]
        /\ cpc'[t] = "retry" /\ cr'[t] = seen
    BY <1>6, <2>2, Goes
  <2>4. UNCHANGED <<pool, list>>
    BY <1>1, <1>6 DEF pool, list
  <2>5. Out' = Out /\ Seen' = Seen
    BY <1>1, <1>6 DEF Out, Seen, Null
  <2>6. Knows(t)'
    BY <1>3, <2>1, <2>3, <2>5 DEF Knows, Linkers
  <2>7. \A b : /\ Holds(t, b)' <=> Holds(t, b)
               /\ Links(t, b)' <=> Links(t, b)
               /\ Pops(t, b)' <=> Pops(t, b)
               /\ Keeps(t, b)' <=> Keeps(t, b)
    BY <1>1, <2>1, <2>3 DEF Holds, Links, Pops, Keeps, Linkers
  <2>. QED
    BY <1>1, <2>3, <2>4, <2>6, <2>7, Quietly
<1>7. CASE freeListHead = cr[t].old /\ freeListHead' = b0 /\ EndLink(t)
  <2>1. PICK N \in SUBSET (AllBlocks \ created) :
              created' = created \cup N /\ held' = held \cup N
    BY <1>1, <1>7, Ends
  <2>2. /\ cpc' \in [Threads -> Steps]
        /\ cr' = [u \in Threads |-> cr'[u]]
        /\ \A u \in Threads \ {t} : cpc'[u] = cpc[u] /\ cr'[u] = cr[u]
        /\ cpc'[t] = "idle" \/ (cpc'[t] = "refs" /\ cr'[t].head \in Out)
    BY <1>1, <1>7, Ends
  <2>3. b0 \notin N /\ Out \subseteq Out' /\ (b0 \in held' <=> b0 \in held)
    BY <1>1, <1>4, <2>1 DEF Out
  <2>4. Knows(t)'
    BY <2>2, <2>3 DEF Knows, Linkers
  <2>5. \A b : /\ ~Holds(t, b)' /\ ~Links(t, b)' /\ ~Pops(t, b)' /\ ~Keeps(t, b)'
               /\ ~Holds(t, b) /\ ~Pops(t, b)
               /\ Links(t, b) <=> b = b0
               /\ Keeps(t, b) <=> b = b0
    BY <1>1, <2>2 DEF Holds, Links, Pops, Keeps, Linkers
  <2>6. Typed'
    <3>1. Typed
      BY DEF IInv
    <3>2. created' \subseteq AllBlocks /\ created \subseteq created' /\ held' \subseteq created'
      BY <2>1, <3>1 DEF Typed
    <3>. QED
      BY <1>1, <2>2, <3>1, <3>2 DEF Typed
  <2>7. \A b \in AllBlocks : b # b0 => Counted(b)' /\ Placed(b)' /\ (b \in OnList' <=> b \in OnList)
    <3>. SUFFICES ASSUME NEW b \in AllBlocks, b # b0
                  PROVE  Counted(b)' /\ Placed(b)' /\ (b \in OnList' <=> b \in OnList)
      OBVIOUS
    <3>. QED
      BY <1>1, <2>1, <2>2, <2>5, OtherBlock
  <2>8. Placed(b0) /\ Counted(b0)
    BY <1>4 DEF IInv
  <2>9. /\ b0 \notin held /\ ~wanted[b0]
        /\ \A u \in Threads \ {t} : ~Links(u, b0) /\ ~Pops(u, b0)
    BY <2>5, <2>8 DEF Placed
  <2>10. \A u \in Threads : ~Links(u, b0)' /\ ~Pops(u, b0)'
    BY <2>2, <2>5, <2>9, OtherThread
  <2>11. b0 \in OnList' /\ b0 \notin OnList
    BY <1>1, <1>3, <2>3, <2>5, <2>9, <2>10 DEF OnList
  <2>12. OnList' = OnList \cup {b0}
    <3>1. OnList \subseteq AllBlocks /\ OnList' \subseteq AllBlocks
      BY <2>6 DEF OnList, Out, IInv, Typed
    <3>. QED
      BY <2>7, <2>11, <3>1
  <2>13. Counted(b0)'
    <3>1. Holders(b0)' = Holders(b0)
      BY <2>2, <2>5, SameHolders
    <3>2. ListsOwn(b0)' = 1 /\ ListsOwn(b0) = 1
      BY <2>5, <2>11 DEF ListsOwn
    <3>. QED
      BY <1>1, <2>8, <3>1, <3>2 DEF Counted
  <2>14. Placed(b0)'
    BY <1>1, <1>3, <2>3, <2>9, <2>10 DEF Placed
  <2>15. Chained(freeListHead', freeListNext', OnList')
    <3>1. Chained(b0, freeListNext, OnList \cup {b0})
      BY <1>3, <1>4, <1>5, <1>7, <2>11, ChainPush
    <3>. QED
      BY <1>1, <1>7, <2>12, <3>1
  <2>. QED
    BY <1>1, <2>2, <2>3, <2>4, <2>6, <2>7, <2>13, <2>14, <2>15, Kept
<1>. QED
  BY <1>6, <1>7 DEF Push

LEMMA RetryKeeps ==
    ASSUME IInv, NEW t \in Threads, Retry(t)
    PROVE  IInv'
<1>. PICK b0 : b0 = cr[t].block
  OBVIOUS
<1>1. /\ cpc[t] = "retry" /\ cpc[t] \in Linkers /\ destroyed = <<>>
      /\ wanted' = [wanted EXCEPT ![b0] = TRUE] /\ refs' = [refs EXCEPT ![b0] = @ - 1]
      /\ UNCHANGED <<initialBlockPoolIndex, freeListHead, freeListNext, destroyed>>
  BY Alive DEF Retry, Linkers
<1>2. Knows(t)
  BY DEF IInv
<1>3. b0 \in Out /\ {"block", "old"} \subseteq DOMAIN cr[t]
      /\ ("head" \in DOMAIN cr[t] => cr[t].head \in Seen)
  BY <1>1, <1>2 DEF Knows, Linkers
<1>4. b0 \in AllBlocks /\ b0 \in created
  BY <1>3 DEF Out, IInv, Typed
<1>5. Placed(b0) /\ Counted(b0) /\ Links(t, b0) /\ Keeps(t, b0)
  BY <1>1, <1>4 DEF IInv, Links, Keeps
<1>6. /\ b0 \notin held /\ ~wanted[b0]
      /\ \A u \in Threads \ {t} : ~Links(u, b0) /\ ~Pops(u, b0)
  BY <1>5 DEF Placed
<1>7. refs[b0] \in Nat /\ refs[b0] >= 1 /\ ListsOwn(b0) = 1
  BY <1>5, HoldersCount DEF Counted, ListsOwn
<1>8. \/ refs[b0] = 1 /\ Goto(t, "store next", cr[t]) /\ UNCHANGED <<created, held>>
      \/ refs[b0] # 1 /\ EndLink(t)
  BY <1>6 DEF Retry, Step
<1>9. PICK N \in SUBSET (AllBlocks \ created) : created' = created \cup N /\ held' = held \cup N
  <2>1. CASE UNCHANGED <<created, held>>
    <3>1. {} \in SUBSET (AllBlocks \ created) /\ created' = created \cup {} /\ held' = held \cup {}
      BY <2>1
    <3>. QED
      BY <3>1
  <2>. QED
    BY <1>1, <1>8, <2>1, Ends
<1>10. /\ cpc' \in [Threads -> Steps]
       /\ cr' = [u \in Threads |-> cr'[u]]
       /\ \A u \in Threads \ {t} : cpc'[u] = cpc[u] /\ cr'[u] = cr[u]
       /\ \/ cpc'[t] = "store next" /\ cr'[t] = cr[t] /\ refs[b0] = 1
          \/ /\ refs[b0] # 1
             /\ cpc'[t] = "idle" \/ (cpc'[t] = "refs" /\ cr'[t].head \in Out)
  <2>1. "store next" \in Steps
    BY DEF Steps, Linkers
  <2>2. CASE refs[b0] = 1 /\ Goto(t, "store next", cr[t])
    BY <2>1, <2>2, Goes
  <2>. QED
    BY <1>1, <1>8, <2>2, Ends
<1>11. b0 \notin N /\ Out \subseteq Out' /\ Seen \subseteq Seen' /\ b0 \notin held'
  BY <1>1, <1>4, <1>6, <1>9 DEF Out, Seen, Null
<1>12. Knows(t)'
  BY <1>3, <1>10, <1>11 DEF Knows, Linkers
<1>13. \A b : /\ ~Holds(t, b)' /\ ~Pops(t, b)' /\ ~Keeps(t, b)'
              /\ ~Holds(t, b) /\ ~Pops(t, b)
              /\ Links(t, b) <=> b = b0
              /\ Keeps(t, b) <=> b = b0
              /\ Links(t, b)' <=> b = b0 /\ cpc'[t] = "store next"
  BY <1>1, <1>10 DEF Holds, Links, Pops, Keeps, Linkers
<1>14. /\ refs' \in [AllBlocks -> Nat] /\ wanted' \in [AllBlocks -> BOOLEAN]
       /\ refs'[b0] = refs[b0] - 1 /\ wanted'[b0] = TRUE
       /\ \A b \in AllBlocks : b # b0 => refs'[b] = refs[b] /\ wanted'[b] = wanted[b]
  BY <1>1, <1>4, <1>7 DEF IInv, Typed
<1>15. Typed'
  <2>1. Typed
    BY DEF IInv
  <2>2. created' \subseteq AllBlocks /\ created \subseteq created' /\ held' \subseteq created'
    BY <1>9, <2>1 DEF Typed
  <2>. QED
    BY <1>1, <1>10, <1>14, <2>1, <2>2 DEF Typed
<1>16. \A b \in AllBlocks : b # b0 => Counted(b)' /\ Placed(b)' /\ (b \in OnList' <=> b \in OnList)
  <2>. SUFFICES ASSUME NEW b \in AllBlocks, b # b0
                PROVE  Counted(b)' /\ Placed(b)' /\ (b \in OnList' <=> b \in OnList)
    OBVIOUS
  <2>. QED
    BY <1>1, <1>9, <1>10, <1>13, <1>14, OtherBlock
<1>17. \A u \in Threads \ {t} : ~Links(u, b0)' /\ ~Pops(u, b0)' /\ ~Keeps(u, b0)'
  BY <1>6, <1>10, OtherThread DEF Keeps
<1>18. b0 \notin OnList' /\ b0 \notin OnList
  BY <1>5, <1>14 DEF OnList
<1>19. OnList' = OnList
  BY <1>15, <1>16, <1>18, SameList DEF IInv
<1>20. Counted(b0)'
  <2>1. Holders(b0)' = Holders(b0)
    BY <1>10, <1>13, SameHolders
  <2>2. ListsOwn(b0)' = 0
    BY <1>13, <1>17, <1>18 DEF ListsOwn
  <2>. QED
    BY <1>5, <1>7, <1>14, <2>1, <2>2, HoldersCount DEF Counted
<1>21. Placed(b0)'
  <2>1. CASE cpc'[t] = "store next"
    <3>0. refs[b0] = 1
      BY <1>10, <2>1
    <3>1. refs'[b0] = 0
      BY <1>14, <3>0
    <3>. QED
      BY <1>3, <1>11, <1>13, <1>14, <1>17, <2>1, <3>1 DEF Placed
  <2>2. CASE cpc'[t] # "store next"
    <3>0. refs[b0] # 1
      BY <1>10, <2>2
    <3>1. refs'[b0] # 0
      BY <1>7, <1>14, <3>0
    <3>. QED
      BY <1>3, <1>11, <1>13, <1>17, <2>2, <3>1 DEF Placed
  <2>. QED
    BY <2>1, <2>2
<1>22. Chained(freeListHead', freeListNext', OnList')
  BY <1>1, <1>19 DEF IInv
<1>. QED
  BY <1>1, <1>10, <1>11, <1>12, <1>15, <1>16, <1>20, <1>21, <1>22, Kept

(* Two threads may pass the test of the index: the loser goes to the list. *)
LEMMA TakeInitialKeeps ==
    ASSUME IInv, NEW t \in Threads, TakeInitial(t)
    PROVE  IInv'
<1>. PICK b0 : b0 = initialBlockPoolIndex + 1
  OBVIOUS
<1>1. /\ cpc[t] = "initial" /\ destroyed = <<>>
      /\ initialBlockPoolIndex \in Nat /\ initialBlockPoolIndex' = b0
      /\ UNCHANGED <<created, list, destroyed>>
  BY Alive DEF TakeInitial, IInv, Typed
<1>2. Sizes /\ Typed
  BY DEF IInv
<1>3. "idle" \in Steps /\ "head" \in Steps
  BY DEF Steps
<1>4. CASE ~(initialBlockPoolIndex < InitialBlocks) /\ Goto(t, "head", cr[t]) /\ UNCHANGED held
  <2>1. /\ cpc' \in [Threads -> Steps]
        /\ cr' = [u \in Threads |-> cr'[u]]
        /\ \A u \in Threads \ {t} : cpc'[u] = cpc[u] /\ cr'[u] = cr[u]
        /\ cpc'[t] = "head"
    BY <1>3, <1>4, Goes
  <2>2. Knows(t)'
    BY <2>1 DEF Knows, Linkers
  <2>3. \A b : /\ Holds(t, b)' <=> Holds(t, b)
               /\ Links(t, b)' <=> Links(t, b)
               /\ Pops(t, b)' <=> Pops(t, b)
               /\ Keeps(t, b)' <=> Keeps(t, b)
    BY <1>1, <2>1 DEF Holds, Links, Pops, Keeps, Linkers
  <2>4. {} \in SUBSET (AllBlocks \ created) /\ created' = created \cup {}
        /\ held' = held \cup {} /\ initialBlockPoolIndex' \in Nat
    BY <1>1, <1>4
  <2>5. \A b \in AllBlocks : b <= initialBlockPoolIndex' \/ b > InitialBlocks
                         <=> b <= initialBlockPoolIndex \/ b > InitialBlocks
    BY <1>1, <1>2, <1>4 DEF Sizes
  <2>. QED
    BY <1>1, <2>1, <2>2, <2>3, <2>4, <2>5, Quiet
<1>5. CASE initialBlockPoolIndex < InitialBlocks /\ held' = held \cup {b0} /\ Goto(t, "idle", <<>>)
  <2>1. /\ cpc' \in [Threads -> Steps]
        /\ cr' = [u \in Threads |-> cr'[u]]
        /\ \A u \in Threads \ {t} : cpc'[u] = cpc[u] /\ cr'[u] = cr[u]
        /\ cpc'[t] = "idle"
    BY <1>3, <1>5, Goes
  <2>2. Knows(t)'
    BY <2>1 DEF Knows, Linkers
  <2>3. \A b : /\ Holds(t, b)' <=> Holds(t, b)
               /\ Links(t, b)' <=> Links(t, b)
               /\ Pops(t, b)' <=> Pops(t, b)
               /\ Keeps(t, b)' <=> Keeps(t, b)
    BY <1>1, <2>1 DEF Holds, Links, Pops, Keeps, Linkers
  <2>4. b0 \in 1 .. InitialBlocks
    BY <1>1, <1>2, <1>5 DEF Sizes
  <2>5. b0 \in created /\ b0 \in AllBlocks /\ b0 \notin Out
    BY <1>1, <1>2, <2>4 DEF Sizes, Typed, Out
  <2>6. b0 \in Out' /\ Out \subseteq Out' /\ b0 \in held'
    BY <1>1, <1>2, <1>5, <2>5 DEF Sizes, Typed, Out
  <2>7. Typed'
    BY <1>1, <1>2, <1>5, <2>1, <2>5 DEF Typed, list
  <2>8. \A b \in AllBlocks : b # b0 => Counted(b)' /\ Placed(b)' /\ (b \in OnList' <=> b \in OnList)
    <3>. SUFFICES ASSUME NEW b \in AllBlocks, b # b0
                  PROVE  Counted(b)' /\ Placed(b)' /\ (b \in OnList' <=> b \in OnList)
      OBVIOUS
    <3>1. {} \in SUBSET (AllBlocks \ created) /\ created' = created \cup {}
          /\ (b \in held' <=> b \in held \cup {})
      BY <1>1, <1>5
    <3>2. b <= initialBlockPoolIndex' \/ b > InitialBlocks
            <=> b <= initialBlockPoolIndex \/ b > InitialBlocks
      BY <1>1, <1>2 DEF Sizes
    <3>3. refs' = refs /\ wanted' = wanted
      BY <1>1 DEF list
    <3>. QED
      BY <2>1, <2>3, <3>1, <3>2, <3>3, OtherBlock
  <2>9. Placed(b0) /\ Counted(b0)
    BY <2>5 DEF IInv
  <2>10. ~wanted[b0] /\ \A u \in Threads : ~Links(u, b0) /\ ~Pops(u, b0)
    BY <2>5, <2>9 DEF Placed
  <2>11. \A u \in Threads : ~Links(u, b0)' /\ ~Pops(u, b0)'
    BY <2>1, <2>3, <2>10, OtherThread
  <2>12. b0 \notin OnList /\ b0 \notin OnList'
    BY <2>5, <2>6 DEF OnList
  <2>13. OnList' = OnList
    BY <1>2, <2>7, <2>8, <2>12, SameList
  <2>14. Counted(b0)'
    <3>1. Holders(b0)' = Holders(b0)
      BY <2>1, <2>3, SameHolders
    <3>2. ListsOwn(b0)' = 0 /\ ListsOwn(b0) = 0
      BY <2>10, <2>11, <2>12 DEF ListsOwn, Keeps
    <3>. QED
      BY <1>1, <2>9, <3>1, <3>2 DEF Counted, list
  <2>15. Placed(b0)'
    BY <1>1, <2>6, <2>10, <2>11 DEF Placed, list
  <2>16. Chained(freeListHead', freeListNext', OnList')
    BY <1>1, <2>13 DEF IInv, list
  <2>. QED
    BY <1>1, <2>1, <2>2, <2>6, <2>7, <2>8, <2>14, <2>15, <2>16, Kept DEF list
<1>. QED
  BY <1>4, <1>5 DEF TakeInitial, Return, Step

-----------------------------------------------------------------------------
(* Following the list from its head.                                       *)

Descends(f) ==
    f = [n \in 0 .. Cardinality(AllBlocks) |->
           IF n = 0 THEN <<freeListHead>>
           ELSE LET s == f[n - 1] IN
                IF s[n] = Null THEN Append(s, Null) ELSE Append(s, freeListNext[s[n]])]

(* It meets each block of the list once, and no other.                     *)
LEMMA ListedOnce ==
    ASSUME Sizes, NEW S, Chained(freeListHead, freeListNext, S)
    PROVE  \A b \in AllBlocks : Listed[b] = IF b \in S THEN 1 ELSE 0
<1>1. PICK K \in Nat : K = Cardinality(AllBlocks)
  BY BlockCount
<1>2. PICK k \in 0 .. K : \E c \in [1 .. k -> AllBlocks] :
                              IsChain(c, k, freeListHead, freeListNext, S)
  BY <1>1 DEF Chained
<1>3. PICK c \in [1 .. k -> AllBlocks] : IsChain(c, k, freeListHead, freeListNext, S)
  BY <1>2
<1>4. /\ freeListHead = IF k = 0 THEN Null ELSE c[1]
      /\ \A i \in 1 .. k : /\ freeListNext[c[i]] = IF i = k THEN Null ELSE c[i + 1]
                           /\ c[i] # Null
      /\ S = {c[i] : i \in 1 .. k}
      /\ \A i, j \in 1 .. k : c[i] = c[j] => i = j
  BY <1>3 DEF IsChain, Sizes, Null
<1>5. k \in Nat /\ k <= K
  BY <1>2
<1> DEFINE X(n) == [i \in 1 .. n + 1 |-> IF i <= k THEN c[i] ELSE Null]
           Down == CHOOSE f : Descends(f)
<1>6. X(0) = <<freeListHead>>
  <2>1. X(0) = [i \in 1 .. 1 |-> freeListHead]
    BY <1>4, <1>5
  <2>. QED
    BY <2>1
<1>7. ASSUME NEW n \in 1 .. K
      PROVE  X(n) = IF X(n - 1)[n] = Null THEN Append(X(n - 1), Null)
                    ELSE Append(X(n - 1), freeListNext[X(n - 1)[n]])
  <2>1. n \in Nat /\ n - 1 \in Nat /\ n - 1 + 1 = n /\ n \in 1 .. n
    OBVIOUS
  <2>2. X(n - 1) = [i \in 1 .. n |-> IF i <= k THEN c[i] ELSE Null]
    BY <2>1
  <2>3. X(n - 1) \in Seq(AllBlocks \cup {Null}) /\ Len(X(n - 1)) = n
    BY <1>5, <2>1, <2>2
  <2>4. X(n - 1)[n] = IF n <= k THEN c[n] ELSE Null
    BY <2>1, <2>2
  <2>. HIDE DEF X
  <2>5. ASSUME NEW v, v = IF n + 1 <= k THEN c[n + 1] ELSE Null
        PROVE  Append(X(n - 1), v) = X(n)
    <3>1. Append(X(n - 1), v) = [i \in 1 .. n + 1 |-> IF i = n + 1 THEN v ELSE X(n - 1)[i]]
      BY <2>1, <2>3, <2>5
    <3>2. \A i \in 1 .. n + 1 : i # n + 1 => i \in 1 .. n
      BY <2>1
    <3>. QED
      BY <1>5, <2>1, <2>2, <2>5, <3>1, <3>2 DEF X
  <2>6. CASE n <= k
    <3>1. n \in 1 .. k /\ (n = k <=> ~(n + 1 <= k))
      BY <1>5, <2>1, <2>6
    <3>2. freeListNext[c[n]] = IF n + 1 <= k THEN c[n + 1] ELSE Null
      BY <1>4, <3>1
    <3>. QED
      BY <1>4, <2>4, <2>5, <2>6, <3>1, <3>2
  <2>7. CASE ~(n <= k)
    <3>1. Null = IF n + 1 <= k THEN c[n + 1] ELSE Null
      BY <1>5, <2>1, <2>7
    <3>. QED
      BY <2>4, <2>5, <2>7, <3>1
  <2>. QED
    BY <2>6, <2>7
<1>8. Listed = [b \in AllBlocks |->
                  Cardinality({n \in 1 .. Cardinality(AllBlocks) + 1 :
                                 Down[Cardinality(AllBlocks)][n] = b})]
  BY DEF Listed, Descends
<1>9. Descends([n \in 0 .. K |-> X(n)])
  <2>. HIDE DEF X
  <2> DEFINE f == [n \in 0 .. K |-> X(n)]
  <2>1. \A n \in 0 .. K : f[n] = X(n) /\ (n # 0 => n \in 1 .. K /\ n - 1 \in 0 .. K)
    OBVIOUS
  <2>2. \A n \in 0 .. K : n # 0 => f[n - 1] = X(n - 1)
    BY <2>1
  <2>. HIDE DEF f
  <2>3. \A n \in 0 .. K :
          f[n] = IF n = 0 THEN <<freeListHead>>
                 ELSE IF f[n - 1][n] = Null THEN Append(f[n - 1], Null)
                      ELSE Append(f[n - 1], freeListNext[f[n - 1][n]])
    BY <1>6, <1>7, <2>1, <2>2
  <2>4. f = [n \in 0 .. K |-> f[n]]
    BY DEF f
  <2>5. Descends(f)
    BY <1>1, <2>3, <2>4 DEF Descends
  <2>. QED
    BY <2>5 DEF f
<1>10. Descends(Down)
  BY <1>9
<1>. HIDE DEF Down, X
<1>11. /\ Down[0] = <<freeListHead>>
       /\ \A n \in 1 .. K :
            Down[n] = IF Down[n - 1][n] = Null THEN Append(Down[n - 1], Null)
                      ELSE Append(Down[n - 1], freeListNext[Down[n - 1][n]])
  <2>1. Down = [n \in 0 .. K |->
           IF n = 0 THEN <<freeListHead>>
           ELSE IF Down[n - 1][n] = Null THEN Append(Down[n - 1], Null)
                ELSE Append(Down[n - 1], freeListNext[Down[n - 1][n]])]
    BY <1>1, <1>10 DEF Descends
  <2>2. 0 \in 0 .. K /\ \A n \in 1 .. K : n \in 0 .. K /\ n # 0
    OBVIOUS
  <2>. QED
    BY <2>1, <2>2
<1>12. Down[K] = X(K)
  <2> DEFINE T == {n \in 0 .. K : Down[n] = X(n)}
  <2>1. 0 \in T
    BY <1>6, <1>11
  <2>2. ASSUME NEW n \in 0 .. K - 1, n \in T PROVE n + 1 \in T
    <3>1. PICK m \in 1 .. K : m = n + 1 /\ m - 1 = n /\ m \in 0 .. K
      OBVIOUS
    <3>2. Down[m - 1] = X(m - 1)
      BY <2>2, <3>1
    <3>3. Down[m] = X(m)
      BY <1>7, <1>11, <3>2
    <3>. QED
      BY <3>1, <3>3
  <2>3. T \subseteq 0 .. K
    OBVIOUS
  <2>4. \A n \in T : Down[n] = X(n)
    OBVIOUS
  <2>. HIDE DEF T
  <2>5. 0 .. K \subseteq T
    BY <2>1, <2>2, SetInduction
  <2>. QED
    BY <2>4, <2>5
<1>13. ASSUME NEW b \in AllBlocks PROVE Listed[b] = IF b \in S THEN 1 ELSE 0
  <2> DEFINE At == {n \in 1 .. K + 1 : Down[K][n] = b}
  <2>1. Listed[b] = Cardinality(At)
    BY <1>1, <1>8
  <2>2. b # Null
    BY DEF Sizes, Null
  <2>3. \A n \in 1 .. K + 1 : Down[K][n] = IF n <= k THEN c[n] ELSE Null
    BY <1>12 DEF X
  <2>4. CASE b \in S
    <3>1. PICK j \in 1 .. k : b = c[j]
      BY <1>4, <2>4
    <3>2. j \in 1 .. K + 1 /\ j <= k
      BY <1>5
    <3>3. \A n \in 1 .. K + 1 : n <= k => n \in 1 .. k
      BY <1>5
    <3>4. At = {j}
      BY <1>4, <2>2, <2>3, <3>1, <3>2, <3>3
    <3>. HIDE DEF At
    <3>. QED
      BY <2>1, <2>4, <3>4, FS_Singleton
  <2>5. CASE b \notin S
    <3>1. \A n \in 1 .. K + 1 : n <= k => n \in 1 .. k
      BY <1>5
    <3>2. At = {}
      BY <1>4, <2>2, <2>3, <2>5, <3>1
    <3>. HIDE DEF At
    <3>. QED
      BY <2>1, <2>5, <3>2, FS_EmptySet
  <2>. QED
    BY <2>4, <2>5
<1>. QED
  BY <1>13

(* At rest no count stands for a thread, and no block waits to be linked.  *)
LEMMA AtRestListed ==
    ASSUME IInv, AtRest
    PROVE  /\ OnList = Out \ held
           /\ \A b \in AllBlocks : Listed[b] = IF b \in Out /\ b \notin held THEN 1 ELSE 0
<1>1. \A u \in Threads : \A b : ~Holds(u, b) /\ ~Links(u, b) /\ ~Pops(u, b) /\ ~Keeps(u, b)
  BY DEF AtRest, Holds, Links, Pops, Keeps, Linkers
<1>2. ASSUME NEW b \in AllBlocks, wanted[b] PROVE FALSE
  <2>1. Counted(b) /\ Placed(b)
    BY DEF IInv
  <2>2. Holders(b) = {} /\ ListsOwn(b) = 0
    BY <1>1, <1>2 DEF Holders, ListsOwn, OnList
  <2>3. refs[b] = 0
    BY <2>1, <2>2, FS_EmptySet DEF Counted
  <2>. QED
    BY <1>1, <1>2, <2>1, <2>3 DEF Placed
<1>3. Out \subseteq AllBlocks
  BY DEF Out, IInv, Typed
<1>4. OnList = Out \ held
  BY <1>1, <1>2, <1>3 DEF OnList
<1>. QED
  BY <1>4, ListedOnce DEF IInv

LEMMA NothingMoves ==
    ASSUME IInv, UNCHANGED <<pool, list, threads>>, Ended'
    PROVE  IInv'
<1>1. /\ created' = created /\ held' = held /\ initialBlockPoolIndex' = initialBlockPoolIndex
      /\ freeListHead' = freeListHead /\ freeListNext' = freeListNext
      /\ refs' = refs /\ wanted' = wanted /\ cpc' = cpc /\ cr' = cr
  BY DEF pool, list, threads
<1>2. Sizes' /\ Typed'
  BY <1>1 DEF IInv, Sizes, Typed
<1>3. Out' = Out /\ OnList' = OnList
  BY <1>1 DEF Out, OnList, Links, Pops
<1>4. \A u \in Threads : Knows(u)'
  BY <1>1, <1>3 DEF IInv, Knows, Seen, Null
<1>5. \A b \in AllBlocks : Counted(b)' /\ Placed(b)'
  <2>. SUFFICES ASSUME NEW b \in AllBlocks PROVE Counted(b)' /\ Placed(b)'
    OBVIOUS
  <2>1. Counted(b) /\ Placed(b)
    BY DEF IInv
  <2>2. \A u \in Threads : /\ Holds(u, b)' <=> Holds(u, b)
                           /\ Links(u, b)' <=> Links(u, b)
                           /\ Pops(u, b)' <=> Pops(u, b)
                           /\ Keeps(u, b)' <=> Keeps(u, b)
    BY <1>1, OtherThread
  <2>3. Holders(b)' = Holders(b) /\ ListsOwn(b)' = ListsOwn(b)
    BY <1>3, <2>2 DEF Holders, ListsOwn
  <2>4. Counted(b)'
    BY <1>1, <2>1, <2>3 DEF Counted
  <2>5. Placed(b)'
    BY <1>1, <1>3, <2>1, <2>2 DEF Placed
  <2>. QED
    BY <2>4, <2>5
<1>6. Chained(freeListHead', freeListNext', OnList')
  BY <1>1, <1>3 DEF IInv
<1>. QED
  BY <1>2, <1>4, <1>5, <1>6, ChainThen DEF IInv

LEMMA DestroyKeeps ==
    ASSUME IInv, Destroy
    PROVE  IInv'
<1>1. AtRest /\ held = {} /\ UNCHANGED <<pool, list, threads>>
      /\ destroyed' = [b \in AllBlocks |-> IF b <= InitialBlocks THEN 1 ELSE Listed[b]]
  BY DEF Destroy
<1>2. created' = created /\ held' = held /\ cpc' = cpc
  BY <1>1 DEF pool, threads
<1>3. ASSUME NEW b \in created PROVE destroyed'[b] = 1
  <2>1. b \in AllBlocks /\ b \in Nat
    BY DEF IInv, Typed, Sizes
  <2>2. CASE b <= InitialBlocks
    BY <1>1, <2>1, <2>2
  <2>3. CASE ~(b <= InitialBlocks)
    <3>1. b > InitialBlocks
      BY <2>1, <2>3 DEF IInv, Sizes
    <3>2. b \in Out /\ b \notin held
      BY <1>1, <3>1 DEF Out
    <3>3. Listed[b] = 1
      BY <1>1, <2>1, <3>2, AtRestListed
    <3>. QED
      BY <1>1, <2>1, <2>3, <3>3
  <2>. QED
    BY <2>2, <2>3
<1>4. Ended'
  BY <1>1, <1>2, <1>3 DEF Ended, AtRest
<1>. QED
  BY <1>1, <1>4, NothingMoves

LEMMA InitHolds == Sizes /\ Init => IInv
<1>. SUFFICES ASSUME Sizes, Init PROVE IInv
  OBVIOUS
<1>1. Typed
  BY DEF Init, Typed, Sizes, Steps
<1>2. Out = {} /\ OnList = {}
  BY DEF Init, Out, OnList, Sizes
<1>3. \A u \in Threads : \A b : ~Holds(u, b) /\ ~Links(u, b) /\ ~Pops(u, b) /\ ~Keeps(u, b)
  BY DEF Init, Holds, Links, Pops, Keeps, Linkers
<1>4. \A u \in Threads : Knows(u)
  BY DEF Init, Knows, Linkers
<1>5. ASSUME NEW b \in AllBlocks PROVE Counted(b) /\ Placed(b)
  <2>1. Holders(b) = {} /\ ListsOwn(b) = 0
    BY <1>2, <1>3 DEF Holders, ListsOwn
  <2>2. Counted(b)
    BY <2>1, FS_EmptySet DEF Counted, Init
  <2>3. Placed(b)
    BY <1>2, <1>3 DEF Placed, Init
  <2>. QED
    BY <2>2, <2>3
<1>6. Chained(freeListHead, freeListNext, OnList)
  <2> DEFINE c == [i \in 1 .. 0 |-> i]
  <2>1. c \in [1 .. 0 -> AllBlocks] /\ 1 .. 0 = {}
    OBVIOUS
  <2>. HIDE DEF c
  <2>2. IsChain(c, 0, freeListHead, freeListNext, OnList)
    BY <1>2, <2>1 DEF IsChain, Init
  <2>3. 0 \in 0 .. Cardinality(AllBlocks)
    BY BlockCount
  <2>. QED
    BY <2>1, <2>2, <2>3 DEF Chained
<1>7. Ended
  BY DEF Init, Ended
<1>. QED
  BY <1>1, <1>4, <1>5, <1>6, <1>7 DEF IInv

LEMMA StepKeeps == IInv /\ [Next]_vars => IInv'
<1>. SUFFICES ASSUME IInv, [Next]_vars PROVE IInv'
  OBVIOUS
<1>1. ASSUME NEW t \in Threads, NEW canAlloc \in BOOLEAN, Requisition(t, canAlloc) PROVE IInv'
  BY <1>1, RequisitionKeeps
<1>2. ASSUME NEW t \in Threads, NEW b \in AllBlocks, Add(t, b) PROVE IInv'
  BY <1>2, AddKeeps
<1>3. ASSUME NEW t \in Threads,
             \/ TakeInitial(t) \/ ReadHead(t) \/ ReadRefs(t) \/ AddRef(t)
             \/ ReadNext(t) \/ Pop(t) \/ Taken(t) \/ Unref(t)
      PROVE  IInv'
  BY <1>3, TakeInitialKeeps, ReadHeadKeeps, ReadRefsKeeps, AddRefKeeps, ReadNextKeeps, PopKeeps,
     TakenKeeps, UnrefKeeps
<1>4. ASSUME NEW t \in Threads,
             \/ ReadListHead(t) \/ StoreNext(t) \/ StoreRefs(t) \/ Push(t) \/ Retry(t)
      PROVE  IInv'
  BY <1>4, ReadListHeadKeeps, StoreNextKeeps, StoreRefsKeeps, PushKeeps, RetryKeeps
<1>5. CASE Destroy
  BY <1>5, DestroyKeeps
<1>6. CASE UNCHANGED vars
  <2>1. UNCHANGED <<pool, list, threads>> /\ destroyed' = destroyed
    BY <1>6 DEF vars
  <2>2. Ended'
    BY <2>1 DEF IInv, Ended, AtRest, pool, threads
  <2>. QED
    BY <2>1, <2>2, NothingMoves
<1>. QED
  BY <1>1, <1>2, <1>3, <1>4, <1>5, <1>6 DEF Next

LEMMA SoundThen == IInv => PoolSound
<1>. SUFFICES ASSUME IInv PROVE PoolSound
  OBVIOUS
<1>1. refs \in [AllBlocks -> Nat] /\ held \subseteq created /\ Out \subseteq AllBlocks
  BY DEF IInv, Typed, Out
<1>2. \A t \in Threads : Knows(t)
  BY DEF IInv
<1>3. \A b \in AllBlocks : Placed(b)
  BY DEF IInv
<1>4. \A t \in Threads : /\ cpc[t] = "taken" => Pops(t, cr[t].head) /\ Keeps(t, cr[t].head)
                                               /\ cr[t].head \in AllBlocks
                         /\ cpc[t] \in Linkers => Links(t, cr[t].block) /\ cr[t].block \in AllBlocks
                         /\ cpc[t] \in {"link", "store next", "store refs"} =>
                               ~Keeps(t, cr[t].block)
  BY <1>1, <1>2 DEF Knows, Pops, Links, Keeps, Linkers
<1>5. PoppedExclusively
  <2>. SUFFICES ASSUME NEW t \in Threads, cpc[t] = "taken"
                PROVE  /\ ~wanted[cr[t].head] /\ cr[t].head \notin held
                       /\ \A u \in Threads \ {t} :
                            /\ cpc[u] = "taken" => cr[u].head # cr[t].head
                            /\ cpc[u] \in Linkers => cr[u].block # cr[t].head
    BY DEF PoppedExclusively, Linkers
  <2>1. PICK b \in AllBlocks : b = cr[t].head
    BY <1>4
  <2>2. Pops(t, b) /\ Keeps(t, b) /\ Placed(b)
    BY <1>3, <1>4, <2>1
  <2>3. /\ ~wanted[b] /\ b \notin held
        /\ \A u \in Threads \ {t} : ~Links(u, b) /\ ~Pops(u, b)
    BY <2>2 DEF Placed
  <2>. QED
    BY <2>1, <2>3 DEF Links, Pops
<1>6. LinkedByOne
  <2>1. ASSUME NEW t \in Threads, NEW u \in Threads, t # u,
               {cpc[t], cpc[u]} \subseteq {"link", "store next", "store refs"}
        PROVE  cr[t].block # cr[u].block
    <3>1. cpc[t] \in Linkers /\ cpc[u] \in Linkers
      BY <2>1 DEF Linkers
    <3>2. PICK b \in AllBlocks : b = cr[t].block
      BY <1>4, <3>1
    <3>3. Links(t, b) /\ Placed(b)
      BY <1>3, <1>4, <3>1, <3>2
    <3>4. ~Links(u, b)
      BY <2>1, <3>3 DEF Placed
    <3>. QED
      BY <3>1, <3>2, <3>4 DEF Links
  <2>2. ASSUME NEW t \in Threads, cpc[t] \in {"store next", "store refs"}
        PROVE  refs[cr[t].block] = 0
    <3>1. cpc[t] \in Linkers /\ cpc[t] \in {"link", "store next", "store refs"}
      BY <2>2 DEF Linkers
    <3>2. PICK b \in AllBlocks : b = cr[t].block
      BY <1>4, <3>1
    <3>3. Links(t, b) /\ ~Keeps(t, b) /\ Placed(b)
      BY <1>3, <1>4, <3>1, <3>2
    <3>. QED
      BY <3>2, <3>3 DEF Placed
  <2>. QED
    BY <2>1, <2>2 DEF LinkedByOne
<1>7. EveryBlockOnce
  <2>. SUFFICES ASSUME AtRest, NEW b \in created
                PROVE  Listed[b] =
                         IF b \in held \/ (b <= InitialBlocks /\ b > initialBlockPoolIndex)
                         THEN 0 ELSE 1
    BY DEF EveryBlockOnce
  <2>1. /\ b \in AllBlocks /\ b \in Nat /\ InitialBlocks \in Nat
        /\ initialBlockPoolIndex \in Nat
    BY DEF IInv, Typed, Sizes
  <2>2. b \in Out <=> ~(b <= InitialBlocks /\ b > initialBlockPoolIndex)
    BY <2>1 DEF Out
  <2>3. Listed[b] = IF b \in Out /\ b \notin held THEN 1 ELSE 0
    BY <2>1, AtRestListed
  <2>. QED
    BY <2>2, <2>3
<1>8. FreedOnce
  BY DEF IInv, Ended, FreedOnce
<1>. QED
  BY <1>1, <1>5, <1>6, <1>7, <1>8 DEF PoolSound

(***************************************************************************)
(* try_get() and add() run by any number of threads: a block that has been *)
(* popped is in nobody else's hands, a block is linked by one thread at a  *)
(* time and while nobody has a reference to it, nothing is lost or doubled *)
(* once everybody is at rest, and the destructor frees every block once.   *)
(***************************************************************************)
THEOREM BlocksSound == ASSUME Sizes PROVE Spec => []PoolSound
<1>1. Init => IInv
  BY InitHolds
<1>2. IInv /\ [Next]_vars => IInv'
  BY StepKeeps
<1>3. IInv => PoolSound
  BY SoundThen
<1>. QED
  BY <1>1, <1>2, <1>3, PTL DEF Spec
=============================================================================
