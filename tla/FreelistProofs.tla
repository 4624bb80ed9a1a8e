--------------------------- MODULE FreelistProofs ---------------------------
(***************************************************************************)
(* Freelist keeps its list intact and hands no slot out twice, and so      *)
(* implements NodePool, for every number of threads and slots and every    *)
(* width of index and tag, as long as fewer than TagMod allocations        *)
(* overtake one attempt of another.                                        *)
(***************************************************************************)
EXTENDS Freelist, TLAPS, FiniteSetTheorems

(* Arithmetic of the truncated index and of the wrapping tag. *)
LEMMA ModRange ==
    ASSUME NEW a \in Nat, NEW m \in Nat \ {0}
    PROVE  a % m \in 0 .. m - 1
BY SMT

LEMMA ModSmall ==
    ASSUME NEW m \in Nat \ {0}, NEW a \in 0 .. m - 1
    PROVE  a % m = a
BY SMT

LEMMA ModSucc ==
    ASSUME NEW a \in Nat, NEW m \in Nat \ {0}
    PROVE  (a + 1) % m = IF a % m = m - 1 THEN 0 ELSE (a % m) + 1
<1> DEFINE q == a \div m
           r == a % m
           q1 == (a+1) \div m
           r1 == (a+1) % m
<1>1. q \in Int /\ r \in 0..m-1 /\ a = m*q + r
  OBVIOUS
<1>2. q1 \in Int /\ r1 \in 0..m-1 /\ a+1 = m*q1 + r1
  OBVIOUS
<1>3. r1 \in 0 .. m-1 /\ r \in 0..m-1 /\ q \in Int /\ q1 \in Int /\ m \in Nat \ {0} BY <1>1, <1>2
<1>4. m*(q1-q) = 1 + r - r1
  BY <1>1, <1>2, <1>3
<1> HIDE DEF q, r, q1, r1
<1> DEFINE d == q1 - q
<1>5. d \in Int /\ m*d = 1 + r - r1 BY <1>4, <1>3
<1> HIDE DEF d
<1>6. d >= 2 => m*d >= 2*m BY <1>5, <1>3
<1>7. d <= -1 => m*d <= -m BY <1>5, <1>3
<1>8. d = 0 \/ d = 1 BY <1>5, <1>6, <1>7, <1>3
<1>9. r1 = IF r = m-1 THEN 0 ELSE r+1 BY <1>8, <1>5, <1>3
<1>. QED BY <1>9 DEF r, r1

LEMMA NextTag ==
    ASSUME NEW g \in Tag
    PROVE  /\ GetNextTag(g) \in Tag
           /\ GetNextTag(g) = g + 1 \/ GetNextTag(g) = g + 1 - TagMod
<1>1. TagMod \in Nat \ {0}
  BY SizeAssumption
<1>2. g \in Nat /\ g % TagMod = g
  BY <1>1, ModSmall DEF Tag
<1>3. (g + 1) % TagMod = IF g = TagMod - 1 THEN 0 ELSE g + 1
  BY <1>1, <1>2, ModSucc
<1>. QED
  BY <1>1, <1>2, <1>3 DEF Tag, GetNextTag

LEMMA NullInIndex == Null \in Index
BY SizeAssumption, ModRange DEF Null, Index

-----------------------------------------------------------------------------
(* Chains: what pushing and popping a slot does to the list in memory. *)

(* A list without repetitions has at most Count slots. *)
LEMMA ChainLength ==
    ASSUME NEW k \in Nat, NEW c \in [1 .. k -> Nodes],
           \A i, j \in 1 .. k : c[i] = c[j] => i = j
    PROVE  k <= Count
<1>1. c \in Injection(1 .. k, Nodes)
  BY DEF Injection, IsInjective
<1>2. /\ IsFiniteSet(0 .. Count - 1)
      /\ Cardinality(0 .. Count - 1) = Count
  BY SizeAssumption, FS_Interval
<1>3. Nodes \in SUBSET (0 .. Count - 1)
  BY SizeAssumption DEF Nodes, Slots, Index
<1>4. IsFiniteSet(Nodes) /\ Cardinality(Nodes) <= Count
  <2>1. IsFiniteSet(Nodes) /\ Cardinality(Nodes) <= Cardinality(0 .. Count - 1)
    BY <1>2, <1>3, FS_Subset
  <2>. QED
    BY <2>1, <1>2
<1>5. Cardinality(1 .. k) = k
  BY FS_Interval
<1>6. Cardinality(1 .. k) <= Cardinality(Nodes)
  BY <1>1, <1>4, FS_Injection
<1>7. Cardinality(Nodes) \in Nat
  BY <1>4, FS_CardinalityType
<1>. QED
  BY <1>4, <1>5, <1>6, <1>7, SizeAssumption

LEMMA ChainTop ==
    ASSUME NEW top, NEW link, NEW S, Chained(top, link, S)
    PROVE  /\ top = Null <=> S = {}
           /\ top # Null => top \in S
           /\ top \in Index
           /\ S \subseteq Nodes
<1>1. PICK k \in 0 .. Count : \E c \in [1 .. k -> Nodes] : IsChain(c, k, top, link, S)
  BY DEF Chained
<1>2. PICK c \in [1 .. k -> Nodes] : IsChain(c, k, top, link, S)
  BY <1>1
<1>3. \A n \in Nodes : n # Null /\ n \in Index
  BY DEF Nodes, Slots
<1>4. k \in Nat
  BY SizeAssumption
<1>5. CASE k = 0
  BY <1>2, <1>5, NullInIndex DEF IsChain
<1>6. CASE k # 0
  <2>1. 1 \in 1 .. k /\ c[1] \in Nodes
    BY <1>4, <1>6
  <2>2. top = c[1] /\ S = {c[i] : i \in 1 .. k}
    BY <1>2, <1>6 DEF IsChain
  <2>. QED
    BY <2>1, <2>2, <1>3
<1>. QED
  BY <1>5, <1>6

LEMMA ChainSame ==
    ASSUME NEW top, NEW link, NEW S, Chained(top, link, S),
           NEW link2, \A n \in S : link2[n] = link[n]
    PROVE  Chained(top, link2, S)
<1>1. PICK k \in 0 .. Count : \E c \in [1 .. k -> Nodes] : IsChain(c, k, top, link, S)
  BY DEF Chained
<1>2. PICK c \in [1 .. k -> Nodes] : IsChain(c, k, top, link, S)
  BY <1>1
<1>3. \A i \in 1 .. k : c[i] \in S
  BY <1>2 DEF IsChain
<1>4. IsChain(c, k, top, link2, S)
  BY <1>2, <1>3 DEF IsChain
<1>. QED
  BY <1>4 DEF Chained

LEMMA ChainPop ==
    ASSUME NEW top, NEW link, NEW S, Chained(top, link, S), top # Null
    PROVE  Chained(link[top], link, S \ {top})
<1>1. PICK k \in 0 .. Count : \E c \in [1 .. k -> Nodes] : IsChain(c, k, top, link, S)
  BY DEF Chained
<1>2. PICK c \in [1 .. k -> Nodes] : IsChain(c, k, top, link, S)
  BY <1>1
<1>3. k \in 1 .. Count /\ k - 1 \in 0 .. Count
  BY <1>2, SizeAssumption DEF IsChain
<1> DEFINE d == [i \in 1 .. k - 1 |-> c[i + 1]]
<1>4. /\ d \in [1 .. k - 1 -> Nodes]
      /\ \A i \in 1 .. k - 1 : d[i] = c[i + 1]
  BY <1>3
<1>5. /\ top = c[1]
      /\ \A i \in 1 .. k : link[c[i]] = IF i = k THEN Null ELSE c[i + 1]
      /\ \A i, j \in 1 .. k : c[i] = c[j] => i = j
      /\ S = {c[i] : i \in 1 .. k}
  BY <1>2, <1>3 DEF IsChain
<1> HIDE DEF d
<1>6. link[top] = IF k - 1 = 0 THEN Null ELSE d[1]
  BY <1>3, <1>4, <1>5
<1>7. \A i \in 1 .. k - 1 : link[d[i]] = IF i = k - 1 THEN Null ELSE d[i + 1]
  BY <1>3, <1>4, <1>5
<1>8. \A i, j \in 1 .. k - 1 : d[i] = d[j] => i = j
  BY <1>3, <1>4, <1>5
<1>9. S \ {top} = {d[i] : i \in 1 .. k - 1}
  <2>1. \A i \in 1 .. k : c[i] # top => i - 1 \in 1 .. k - 1 /\ c[i] = d[i - 1]
    BY <1>3, <1>4, <1>5
  <2>2. \A i \in 1 .. k - 1 : i + 1 \in 1 .. k /\ d[i] = c[i + 1] /\ d[i] # top
    BY <1>3, <1>4, <1>5
  <2>. QED
    BY <2>1, <2>2, <1>5
<1>10. IsChain(d, k - 1, link[top], link, S \ {top})
  BY <1>6, <1>7, <1>8, <1>9 DEF IsChain
<1>. QED
  BY <1>3, <1>4, <1>10 DEF Chained

LEMMA ChainPush ==
    ASSUME NEW top, NEW link, NEW S, Chained(top, link, S),
           NEW n \in Nodes \ S,
           NEW link2, link2[n] = top, \A m \in S : link2[m] = link[m]
    PROVE  Chained(n, link2, S \cup {n})
<1>1. PICK k \in 0 .. Count : \E c \in [1 .. k -> Nodes] : IsChain(c, k, top, link, S)
  BY DEF Chained
<1>2. PICK c \in [1 .. k -> Nodes] : IsChain(c, k, top, link, S)
  BY <1>1
<1>3. k \in Nat
  BY SizeAssumption
<1> DEFINE d == [i \in 1 .. k + 1 |-> IF i = 1 THEN n ELSE c[i - 1]]
<1>4. /\ d \in [1 .. k + 1 -> Nodes]
      /\ d[1] = n
      /\ \A i \in 1 .. k : d[i + 1] = c[i]
  BY <1>3
<1>5. /\ top = IF k = 0 THEN Null ELSE c[1]
      /\ \A i \in 1 .. k : link[c[i]] = IF i = k THEN Null ELSE c[i + 1]
      /\ \A i, j \in 1 .. k : c[i] = c[j] => i = j
      /\ S = {c[i] : i \in 1 .. k}
  BY <1>2 DEF IsChain
<1> HIDE DEF d
<1>6. \A i \in 2 .. k + 1 : i - 1 \in 1 .. k /\ d[i] = c[i - 1] /\ d[i] \in S
  BY <1>3, <1>4, <1>5
<1>7. \A i, j \in 1 .. k + 1 : d[i] = d[j] => i = j
  <2> SUFFICES ASSUME NEW i \in 1 .. k + 1, NEW j \in 1 .. k + 1, d[i] = d[j]
               PROVE  i = j
    OBVIOUS
  <2>1. CASE i = 1 /\ j = 1
    BY <2>1
  <2>2. CASE i = 1 /\ j \in 2 .. k + 1
    BY <2>2, <1>4, <1>6
  <2>3. CASE i \in 2 .. k + 1 /\ j = 1
    BY <2>3, <1>4, <1>6
  <2>4. CASE i \in 2 .. k + 1 /\ j \in 2 .. k + 1
    BY <2>4, <1>3, <1>5, <1>6
  <2>. QED
    BY <1>3, <2>1, <2>2, <2>3, <2>4
<1>8. \A i \in 1 .. k + 1 : link2[d[i]] = IF i = k + 1 THEN Null ELSE d[i + 1]
  <2> SUFFICES ASSUME NEW i \in 1 .. k + 1
               PROVE  link2[d[i]] = IF i = k + 1 THEN Null ELSE d[i + 1]
    OBVIOUS
  <2>1. CASE i = 1
    BY <2>1, <1>3, <1>4, <1>5
  <2>2. CASE i \in 2 .. k + 1
    <3>1. link2[d[i]] = link[c[i - 1]]
      BY <2>2, <1>6
    <3>. QED
      BY <3>1, <2>2, <1>3, <1>4, <1>5, <1>6
  <2>. QED
    BY <1>3, <2>1, <2>2
<1>9. S \cup {n} = {d[i] : i \in 1 .. k + 1}
  <2>1. \A i \in 1 .. k : i + 1 \in 1 .. k + 1 /\ c[i] = d[i + 1]
    BY <1>3, <1>4
  <2>2. 1 \in 1 .. k + 1 /\ d[1] = n
    BY <1>3, <1>4
  <2>3. \A i \in 1 .. k + 1 : i = 1 \/ i \in 2 .. k + 1
    BY <1>3
  <2>4. \A s \in S : \E i \in 1 .. k + 1 : s = d[i]
    BY <2>1, <1>5
  <2>5. \A i \in 1 .. k + 1 : d[i] \in S \cup {n}
    BY <2>2, <2>3, <1>6
  <2>. QED
    BY <2>2, <2>4, <2>5
<1>10. k + 1 \in 0 .. Count
  BY <1>3, <1>4, <1>7, ChainLength, SizeAssumption
<1>11. IsChain(d, k + 1, n, link2, S \cup {n})
  BY <1>3, <1>4, <1>7, <1>8, <1>9 DEF IsChain
<1>. QED
  BY <1>4, <1>10, <1>11 DEF Chained

-----------------------------------------------------------------------------
(* The initial list, and what each step does to the invariant. *)

LEMMA InitChain == Init => FreeListIntact
<1> SUFFICES ASSUME Init PROVE FreeListIntact
  OBVIOUS
<1> DEFINE top == (Count - 1) % IndexMod
           k == IF Count < IndexMod THEN Count ELSE IndexMod - 1
           c == [i \in 1 .. k |-> IF i <= top + 1 THEN top + 1 - i
                                 ELSE top + 1 - i + IndexMod]
<1>1. top \in 0 .. IndexMod - 1 /\ Count \in Nat \ {0} /\ IndexMod \in Nat \ {0}
  BY SizeAssumption, ModRange
<1>2. Null = IF top = IndexMod - 1 THEN 0 ELSE top + 1
  <2>1. Null = (Count - 1 + 1) % IndexMod
    BY <1>1 DEF Null
  <2>2. Count - 1 \in Nat
    BY <1>1
  <2>3. (Count - 1 + 1) % IndexMod = IF top = IndexMod - 1 THEN 0 ELSE top + 1
    BY <2>2, <1>1, ModSucc
  <2>. QED
    BY <2>1, <2>3
<1>3. Count <= IndexMod => top = Count - 1
  BY <1>1, ModSmall
<1>4. k \in 0 .. Count
  BY <1>1
<1>5. Nodes = {i \in Int : 0 <= i /\ i < IndexMod /\ i < Count /\ i # Null}
  BY <1>1 DEF Nodes, Slots, Index
<1> HIDE DEF top
<1>6. c \in [1 .. k -> Nodes]
  <2>1. CASE Count < IndexMod
    BY <2>1, <1>1, <1>2, <1>3, <1>5
  <2>2. CASE Count >= IndexMod
    BY <2>2, <1>1, <1>2, <1>3, <1>5
  <2>. QED
    BY <1>1, <2>1, <2>2
<1>7. pool.index = top /\ \A i \in Nodes : next[i] = InitialNext(i)
  BY DEF Init, top, Nodes
<1>8. \A i, j \in 1 .. k : c[i] = c[j] => i = j
  BY <1>1
<1>9. pool.index = IF k = 0 THEN Null ELSE c[1]
  BY <1>1, <1>2, <1>3, <1>7
<1>10. \A i \in 1 .. k : next[c[i]] = IF i = k THEN Null ELSE c[i + 1]
  <2> SUFFICES ASSUME NEW i \in 1 .. k
               PROVE  InitialNext(c[i]) = IF i = k THEN Null ELSE c[i + 1]
    BY <1>6, <1>7
  <2>1. CASE Count < IndexMod
    BY <2>1, <1>1, <1>2, <1>3 DEF InitialNext
  <2>2. CASE Count = IndexMod
    BY <2>2, <1>1, <1>2, <1>3 DEF InitialNext
  <2>3. CASE Count > IndexMod
    BY <2>3, <1>1, <1>2 DEF InitialNext
  <2>. QED
    BY <1>1, <2>1, <2>2, <2>3
<1>11. Free = Nodes
  BY DEF Init, Free, Owned, Owning
<1>12. \A n \in Nodes : \E i \in 1 .. k : n = c[i]
  <2> SUFFICES ASSUME NEW n \in Nodes
               PROVE  \E i \in 1 .. k : n = c[i]
    OBVIOUS
  <2>1. CASE n <= top
    <3>1. top + 1 - n \in 1 .. k /\ c[top + 1 - n] = n
      BY <2>1, <1>1, <1>2, <1>3, <1>5
    <3>. QED
      BY <3>1
  <2>2. CASE n > top
    <3>1. top + 1 - n + IndexMod \in 1 .. k /\ c[top + 1 - n + IndexMod] = n
      BY <2>2, <1>1, <1>2, <1>3, <1>5
    <3>. QED
      BY <3>1
  <2>3. n \in Int /\ top \in Int
    BY <1>1, <1>5
  <2>4. n <= top \/ n > top
    BY <2>3
  <2>. QED
    BY <2>1, <2>2, <2>4
<1>13. Free = {c[i] : i \in 1 .. k}
  BY <1>6, <1>11, <1>12
<1>14. IsChain(c, k, pool.index, next, Free)
  BY <1>8, <1>9, <1>10, <1>13 DEF IsChain
<1> HIDE DEF k, c
<1>. QED
  BY <1>4, <1>6, <1>14 DEF FreeListIntact, Chained

LEMMA InitInvariant == Init => IInv
<1> SUFFICES ASSUME Init PROVE IInv
  OBVIOUS
<1>1. TypeOK
  <2>1. (Count - 1) % IndexMod \in Index
    BY SizeAssumption, ModRange DEF Index
  <2>2. next \in [Slots -> Index]
    BY SizeAssumption, NullInIndex DEF Init, InitialNext, Slots, Index
  <2>3. 0 \in Tag /\ 0 \in 0 .. MaxOvertake
    BY SizeAssumption, OvertakeAssumption DEF Tag
  <2>. QED
    BY <2>1, <2>2, <2>3, NullInIndex
       DEF Init, TypeOK, TaggedIndex, NoPool, Owning, Allocating
<1>2. Exclusive /\ StalledAttempts /\ PushesLinked
  BY DEF Init, Exclusive, StalledAttempts, PushesLinked, Owning, Allocating
<1>. QED
  BY <1>1, <1>2, InitChain DEF IInv

LEMMA FreeMember ==
    ASSUME NEW n
    PROVE  n \in Free <=> /\ n \in Nodes
                          /\ n \notin live
                          /\ \A u \in Threads : Owning(u) => node[u] # n
BY DEF Free, Owned

LEMMA FreeMemberPrime ==
    ASSUME NEW n
    PROVE  n \in Free' <=> /\ n \in Nodes
                           /\ n \notin live'
                           /\ \A u \in Threads : Owning(u)' => node'[u] # n
BY DEF Free, Owned

(* Loading pool_ into old_pool disturbs nothing but the thread's own       *)
(* attempt, which starts over.                                             *)
LEMMA ExamineStep ==
    ASSUME IInv, NEW t \in Threads, pc[t] \in {"idle", "a_cas"}, Examine(t),
           UNCHANGED <<pool, next, live, node>>
    PROVE  IInv'
<1>1. pool.index # Null => pool.index \in Free /\ pool.index \in Nodes
  BY ChainTop DEF IInv, FreeListIntact
<1>2. \A u \in Threads : /\ Owning(u)' <=> Owning(u)
                         /\ u # t => /\ Allocating(u)' <=> Allocating(u)
                                     /\ old'[u] = old[u] /\ nxt'[u] = nxt[u]
                                     /\ overtaken'[u] = overtaken[u]
                                     /\ pc'[u] = pc[u]
  BY DEF IInv, TypeOK, Examine, Goto, Forget, Owning, Allocating
<1>3. Free' = Free
  <2>1. live' = live /\ node' = node
    OBVIOUS
  <2>2. \A u \in Threads : Owning(u)' <=> Owning(u)
    BY <1>2
  <2>. QED
    BY <2>1, <2>2, FreeMember, FreeMemberPrime
<1>4. TypeOK'
  <2>1. 0 \in 0 .. MaxOvertake /\ NoPool \in TaggedIndex /\ pool \in TaggedIndex
    BY SizeAssumption, OvertakeAssumption, NullInIndex
       DEF Tag, NoPool, TaggedIndex, IInv, TypeOK
  <2>2. /\ old' \in [Threads -> TaggedIndex]
        /\ nxt' \in [Threads -> Index]
        /\ overtaken' \in [Threads -> 0 .. MaxOvertake]
        /\ pc' \in [Threads -> {"idle", "a_next", "a_cas", "construct", "null",
                              "d_link", "d_cas"}]
    BY <2>1, NullInIndex DEF IInv, TypeOK, Examine, Goto, Forget
  <2>3. \A u \in Threads : Allocating(u)' => old'[u].index \in Nodes
    <3>1. Allocating(t)' => old'[t] = pool /\ pool.index # Null
      BY DEF IInv, TypeOK, Examine, Goto, Forget, Allocating
    <3>. QED
      BY <3>1, <1>1, <1>2 DEF IInv, TypeOK
  <2>4. \A u \in Threads : Owning(u)' => node'[u] \in Nodes
    BY <1>2 DEF IInv, TypeOK
  <2>. QED
    BY <2>2, <2>3, <2>4 DEF IInv, TypeOK
<1>5. Exclusive'
  BY <1>2 DEF IInv, Exclusive
<1>6. FreeListIntact'
  BY <1>3 DEF IInv, FreeListIntact
<1>7. StalledAttempts'
  <2> SUFFICES ASSUME NEW u \in Threads, Allocating(u)'
               PROVE  /\ \/ pool.tag = old'[u].tag + overtaken'[u]
                         \/ pool.tag = old'[u].tag + overtaken'[u] - TagMod
                      /\ overtaken'[u] = 0 =>
                           /\ old'[u].index \in Free
                           /\ pc'[u] = "a_cas" => nxt'[u] = next[old'[u].index]
    BY <1>3 DEF StalledAttempts
  <2>1. CASE u = t
    <3>1. pool.index # Null /\ old'[t] = pool /\ overtaken'[t] = 0 /\ pc'[t] = "a_next"
      BY <2>1 DEF IInv, TypeOK, Examine, Goto, Forget, Allocating
    <3>2. pool.tag \in Int
      BY DEF IInv, TypeOK, TaggedIndex, Tag
    <3>. QED
      BY <2>1, <3>1, <3>2, <1>1
  <2>2. CASE u # t
    BY <2>2, <1>2 DEF IInv, StalledAttempts
  <2>. QED
    BY <2>1, <2>2
<1>8. PushesLinked'
  BY <1>2 DEF IInv, TypeOK, PushesLinked, Examine, Goto
<1>. QED
  BY <1>4, <1>5, <1>6, <1>7, <1>8 DEF IInv

LEMMA ReadNextStep ==
    ASSUME IInv, NEW t \in Threads, AllocReadNext(t)
    PROVE  IInv'
<1>1. \A u \in Threads : /\ Owning(u)' <=> Owning(u)
                         /\ Allocating(u)' <=> Allocating(u)
                         /\ u # t => nxt'[u] = nxt[u] /\ pc'[u] = pc[u]
  BY DEF IInv, TypeOK, AllocReadNext, Goto, Owning, Allocating
<1>2. Free' = Free
  BY <1>1, FreeMember, FreeMemberPrime DEF AllocReadNext
<1>3. TypeOK'
  <2>1. old[t].index \in Nodes /\ Nodes \subseteq Slots
    BY DEF IInv, TypeOK, AllocReadNext, Allocating, Nodes
  <2>. QED
    BY <1>1, <2>1 DEF IInv, TypeOK, AllocReadNext, Goto
<1>4. Exclusive'
  BY <1>1 DEF IInv, Exclusive, AllocReadNext
<1>5. FreeListIntact'
  BY <1>2 DEF IInv, FreeListIntact, AllocReadNext
<1>6. StalledAttempts'
  BY <1>1, <1>2 DEF IInv, TypeOK, StalledAttempts, AllocReadNext, Goto
<1>7. PushesLinked'
  BY <1>1 DEF IInv, TypeOK, PushesLinked, AllocReadNext, Goto
<1>. QED
  BY <1>3, <1>4, <1>5, <1>6, <1>7 DEF IInv

(* A matching pool_ means that nothing overtook the attempt. *)
LEMMA MatchMeansFresh ==
    ASSUME IInv, NEW t \in Threads, Allocating(t), pool = old[t]
    PROVE  overtaken[t] = 0
<1>1. pool.tag = pool.tag + overtaken[t] \/ pool.tag = pool.tag + overtaken[t] - TagMod
  BY DEF IInv, StalledAttempts
<1>2. pool.tag \in Int /\ overtaken[t] \in 0 .. MaxOvertake
  BY DEF IInv, TypeOK, TaggedIndex, Tag
<1>. QED
  BY <1>1, <1>2, SizeAssumption, OvertakeAssumption

(* The first slot leaves the list for the hands of t. *)
LEMMA AllocSucceedStep ==
    ASSUME IInv, NEW t \in Threads, AllocSucceed(t)
    PROVE  IInv'
<1> DEFINE n == pool.index
<1>1. /\ pool = old[t] /\ Allocating(t) /\ pc[t] = "a_cas" /\ overtaken[t] = 0
      /\ n \in Nodes
  BY MatchMeansFresh DEF AllocSucceed, Allocating, IInv, TypeOK
<1>2. nxt[t] = next[n] /\ n \in Free /\ n # Null
  BY <1>1 DEF IInv, StalledAttempts, Nodes
<1>3. /\ node'[t] = n /\ Owning(t)' /\ ~Owning(t) /\ ~Allocating(t)'
      /\ pool'.index = next[n] /\ pool'.tag = GetNextTag(pool.tag)
      /\ pool' \in TaggedIndex
  <2>1. GetNextTag(pool.tag) \in Tag
    BY NextTag DEF IInv, TypeOK, TaggedIndex
  <2>. QED
    BY <1>1, <1>2, <2>1 DEF AllocSucceed, Goto, IInv, TypeOK, Owning, Allocating, TaggedIndex
<1>4. \A u \in Threads : u # t => /\ Owning(u)' <=> Owning(u)
                                  /\ Allocating(u)' <=> Allocating(u)
                                  /\ node'[u] = node[u] /\ pc'[u] = pc[u]
                                  /\ old'[u] = old[u] /\ nxt'[u] = nxt[u]
  BY DEF AllocSucceed, Goto, Forget, IInv, TypeOK, Owning, Allocating
<1>5. Free' = Free \ {n}
  BY <1>2, <1>3, <1>4, FreeMember, FreeMemberPrime DEF AllocSucceed
<1>6. \A u \in Threads : overtaken'[u] =
                            IF u # t /\ Allocating(u) THEN overtaken[u] + 1 ELSE 0
  BY DEF AllocSucceed
<1>7. TypeOK'
  <2>1. overtaken' \in [Threads -> 0 .. MaxOvertake]
    <3>1. \A u \in Threads : overtaken[u] \in 0 .. MaxOvertake
      BY DEF IInv, TypeOK
    <3>2. \A u \in Threads : u # t /\ Allocating(u) => overtaken[u] < MaxOvertake
      BY DEF AllocSucceed, MayOvertake
    <3>3. \A u \in Threads : overtaken'[u] \in 0 .. MaxOvertake
      BY <1>6, <3>1, <3>2, OvertakeAssumption
    <3>. QED
      BY <3>3 DEF AllocSucceed
  <2>2. 0 \in Tag /\ n \in Index
    BY <1>1, SizeAssumption DEF Tag, Nodes, Slots
  <2>3. old' \in [Threads -> TaggedIndex] /\ nxt' \in [Threads -> Index]
    BY <2>2, NullInIndex DEF AllocSucceed, Forget, IInv, TypeOK, NoPool, TaggedIndex
  <2>4. node' \in [Threads -> Index]
    BY <2>2, <1>1 DEF AllocSucceed, IInv, TypeOK
  <2>. QED
    BY <1>1, <1>3, <1>4, <2>1, <2>3, <2>4 DEF AllocSucceed, Goto, IInv, TypeOK
<1>8. Exclusive'
  <2>1. \A u \in Threads : Owning(u) => node[u] # n
    BY <1>2, FreeMember
  <2>2. n \notin live
    BY <1>2, FreeMember
  <2>. QED
    BY <1>3, <1>4, <2>1, <2>2 DEF IInv, Exclusive, AllocSucceed
<1>9. FreeListIntact'
  BY <1>2, <1>3, <1>5, ChainPop DEF IInv, FreeListIntact, AllocSucceed
<1>10. StalledAttempts'
  <2> SUFFICES ASSUME NEW u \in Threads, Allocating(u)'
               PROVE  /\ \/ pool'.tag = old[u].tag + overtaken'[u]
                         \/ pool'.tag = old[u].tag + overtaken'[u] - TagMod
                      /\ overtaken'[u] # 0
    BY <1>3, <1>4 DEF StalledAttempts
  <2>1. u # t /\ Allocating(u) /\ overtaken'[u] = overtaken[u] + 1
    BY <1>3, <1>4, <1>6
  <2>2. /\ overtaken[u] \in 0 .. MaxOvertake /\ overtaken[u] < MaxOvertake
        /\ pool.tag \in Tag /\ old[u].tag \in Tag
    BY <2>1 DEF IInv, TypeOK, AllocSucceed, MayOvertake, TaggedIndex
  <2>3. \/ pool.tag = old[u].tag + overtaken[u]
        \/ pool.tag = old[u].tag + overtaken[u] - TagMod
    BY <2>1 DEF IInv, StalledAttempts
  <2>4. /\ pool'.tag \in Tag
        /\ pool'.tag = pool.tag + 1 \/ pool'.tag = pool.tag + 1 - TagMod
    BY <1>3, <2>2, NextTag
  <2>. QED
    BY <2>1, <2>2, <2>3, <2>4, SizeAssumption, OvertakeAssumption DEF Tag
<1>11. PushesLinked'
  BY <1>3, <1>4 DEF IInv, PushesLinked, AllocSucceed, Goto, TypeOK
<1>. QED
  BY <1>7, <1>8, <1>9, <1>10, <1>11 DEF IInv

(* Stores into slots that clients or operations own are invisible to the   *)
(* list and to the attempts that can still succeed.                        *)
LEMMA StoreStep ==
    ASSUME IInv, NEW n \in Nodes, n \notin Free, NEW d \in Index,
           next' = [next EXCEPT ![n] = d],
           pool' = pool, Free' = Free, overtaken' = overtaken, old' = old, nxt' = nxt,
           \A t \in Threads : /\ Allocating(t)' <=> Allocating(t)
                              /\ pc'[t] = "a_cas" <=> pc[t] = "a_cas"
    PROVE  next' \in [Slots -> Index] /\ FreeListIntact' /\ StalledAttempts'
<1>1. next' \in [Slots -> Index] /\ \A m \in Free : next'[m] = next[m]
  BY DEF IInv, TypeOK, Free, Nodes
<1>2. FreeListIntact'
  BY <1>1, ChainSame DEF IInv, FreeListIntact
<1>3. StalledAttempts'
  BY <1>1 DEF IInv, StalledAttempts
<1>. QED
  BY <1>1, <1>2, <1>3

LEMMA ConstructStep ==
    ASSUME IInv, NEW t \in Threads, Construct(t)
    PROVE  IInv'
<1>1. PICK d \in ClientData : next' = [next EXCEPT ![node[t]] = d]
  BY DEF Construct
<1>2. Owning(t) /\ ~Owning(t)' /\ node[t] \in Nodes /\ node[t] \notin live /\ d \in Index
  BY ClientAssumption DEF Construct, Goto, Owning, IInv, TypeOK, Exclusive
<1>3. \A u \in Threads : /\ Allocating(u)' <=> Allocating(u)
                         /\ u # t => /\ Owning(u)' <=> Owning(u)
                                     /\ node'[u] = node[u]
                         /\ u # t => pc'[u] = pc[u]
  BY DEF Construct, Goto, IInv, TypeOK, Owning, Allocating
<1>4. Free' = Free /\ node[t] \notin Free
  <2>1. live' = live \cup {node[t]}
    BY DEF Construct
  <2>2. \A n : n \in Free' <=> n \in Free
    BY <1>2, <1>3, <2>1, FreeMember, FreeMemberPrime
  <2>3. node[t] \notin Free
    BY <1>2, FreeMember
  <2>. QED
    BY <2>2, <2>3
<1>5. next' \in [Slots -> Index] /\ FreeListIntact' /\ StalledAttempts'
  <2>1. pc[t] = "construct" /\ pc'[t] = "idle"
    BY DEF Construct, Goto, IInv, TypeOK
  <2>. QED
    BY <1>1, <1>2, <1>3, <1>4, <2>1, StoreStep DEF Construct
<1>6. TypeOK'
  BY <1>2, <1>3, <1>5, NullInIndex DEF Construct, Goto, IInv, TypeOK
<1>7. Exclusive'
  BY <1>2, <1>3 DEF Construct, IInv, Exclusive
<1>8. PushesLinked'
  <2> SUFFICES ASSUME NEW u \in Threads, pc'[u] = "d_cas"
               PROVE  next'[node'[u]] = old'[u].index
    BY DEF PushesLinked
  <2>1. u # t /\ pc[u] = "d_cas" /\ node'[u] = node[u] /\ Owning(u)
    BY <1>3 DEF Construct, Goto, IInv, TypeOK, Owning
  <2>2. node[u] # node[t]
    BY <2>1, <1>2 DEF IInv, Exclusive
  <2>. QED
    BY <1>1, <2>1, <2>2 DEF Construct, IInv, TypeOK, PushesLinked, Nodes
<1>. QED
  BY <1>5, <1>6, <1>7, <1>8 DEF IInv

LEMMA ReturnNullStep ==
    ASSUME IInv, NEW t \in Threads, ReturnNull(t)
    PROVE  IInv'
<1>1. \A u \in Threads : /\ Owning(u)' <=> Owning(u)
                         /\ Allocating(u)' <=> Allocating(u)
                         /\ u # t => pc'[u] = pc[u]
  BY DEF IInv, TypeOK, ReturnNull, Goto, Owning, Allocating
<1>2. Free' = Free
  BY <1>1, FreeMember, FreeMemberPrime DEF ReturnNull
<1>3. TypeOK'
  BY <1>1 DEF IInv, TypeOK, ReturnNull, Goto
<1>4. Exclusive' /\ FreeListIntact'
  BY <1>1, <1>2 DEF IInv, Exclusive, FreeListIntact, ReturnNull
<1>5. StalledAttempts' /\ PushesLinked'
  BY <1>1, <1>2 DEF IInv, TypeOK, StalledAttempts, PushesLinked, ReturnNull, Goto
<1>. QED
  BY <1>3, <1>4, <1>5 DEF IInv

LEMMA ClientWriteStep ==
    ASSUME IInv, ClientWrite
    PROVE  IInv'
<1>1. PICK n \in live, d \in ClientData : next' = [next EXCEPT ![n] = d]
  BY DEF ClientWrite
<1>2. n \in Nodes /\ n \notin Free /\ d \in Index
  BY ClientAssumption, FreeMember DEF IInv, TypeOK
<1>3. \A u \in Threads : /\ Owning(u)' <=> Owning(u)
                         /\ Allocating(u)' <=> Allocating(u)
  BY DEF ClientWrite, Owning, Allocating
<1>4. Free' = Free
  BY <1>3, FreeMember, FreeMemberPrime DEF ClientWrite
<1>5. next' \in [Slots -> Index] /\ FreeListIntact' /\ StalledAttempts'
  BY <1>1, <1>2, <1>3, <1>4, StoreStep DEF ClientWrite
<1>6. TypeOK'
  BY <1>3, <1>5 DEF ClientWrite, IInv, TypeOK
<1>7. Exclusive'
  BY <1>3 DEF ClientWrite, IInv, Exclusive
<1>8. PushesLinked'
  BY <1>1 DEF ClientWrite, IInv, TypeOK, Exclusive, PushesLinked, Owning, Nodes
<1>. QED
  BY <1>5, <1>6, <1>7, <1>8 DEF IInv

(* destruct() moves a slot from the client to the hands of t. *)
LEMMA DeallocLoadStep ==
    ASSUME IInv, NEW t \in Threads, DeallocLoad(t)
    PROVE  IInv'
<1>1. PICK n \in live : live' = live \ {n} /\ node' = [node EXCEPT ![t] = n]
  BY DEF DeallocLoad
<1>2. n \in Nodes /\ n \in Index /\ node'[t] = n /\ ~Owning(t) /\ Owning(t)'
  BY <1>1 DEF DeallocLoad, Goto, IInv, TypeOK, Owning, Nodes, Slots
<1>3. \A u \in Threads : /\ Allocating(u)' <=> Allocating(u)
                         /\ u # t => /\ Owning(u)' <=> Owning(u)
                                     /\ node'[u] = node[u] /\ old'[u] = old[u]
                                     /\ pc'[u] = pc[u]
  BY <1>1 DEF DeallocLoad, Goto, IInv, TypeOK, Owning, Allocating
<1>4. Free' = Free
  BY <1>1, <1>2, <1>3, FreeMember, FreeMemberPrime
<1>5. TypeOK'
  BY <1>1, <1>2, <1>3 DEF DeallocLoad, Goto, IInv, TypeOK, Allocating
<1>6. Exclusive'
  BY <1>1, <1>2, <1>3 DEF IInv, Exclusive
<1>7. FreeListIntact'
  BY <1>4 DEF DeallocLoad, IInv, FreeListIntact
<1>8. StalledAttempts'
  <2>1. ~Allocating(t)
    BY DEF DeallocLoad, Allocating
  <2>. QED
    BY <2>1, <1>3, <1>4 DEF DeallocLoad, IInv, StalledAttempts
<1>9. PushesLinked'
  BY <1>3 DEF DeallocLoad, Goto, IInv, TypeOK, PushesLinked
<1>. QED
  BY <1>5, <1>6, <1>7, <1>8, <1>9 DEF IInv

LEMMA DeallocLinkStep ==
    ASSUME IInv, NEW t \in Threads, DeallocLink(t)
    PROVE  IInv'
<1>1. Owning(t) /\ node[t] \in Nodes /\ old[t].index \in Index /\ pc'[t] = "d_cas"
  BY DEF DeallocLink, Goto, Owning, IInv, TypeOK, TaggedIndex
<1>2. \A u \in Threads : /\ Owning(u)' <=> Owning(u)
                         /\ Allocating(u)' <=> Allocating(u)
                         /\ u # t => pc'[u] = pc[u]
                         /\ pc'[u] = "a_cas" <=> pc[u] = "a_cas"
  BY DEF DeallocLink, Goto, IInv, TypeOK, Owning, Allocating
<1>3. Free' = Free /\ node[t] \notin Free
  BY <1>1, <1>2, FreeMember, FreeMemberPrime DEF DeallocLink
<1>4. next' \in [Slots -> Index] /\ FreeListIntact' /\ StalledAttempts'
  BY <1>1, <1>2, <1>3, StoreStep DEF DeallocLink
<1>5. TypeOK'
  BY <1>2, <1>4 DEF DeallocLink, Goto, IInv, TypeOK
<1>6. Exclusive'
  BY <1>2 DEF DeallocLink, IInv, Exclusive
<1>7. PushesLinked'
  <2>1. \A u \in Threads : u # t /\ pc[u] = "d_cas" => node[u] # node[t]
    BY <1>1 DEF IInv, Exclusive, Owning
  <2>. QED
    BY <1>1, <1>2, <2>1 DEF DeallocLink, IInv, TypeOK, PushesLinked, Nodes
<1>. QED
  BY <1>4, <1>5, <1>6, <1>7 DEF IInv

(* The slot goes from the hands of t to the top of the list. *)
LEMMA DeallocSucceedStep ==
    ASSUME IInv, NEW t \in Threads, DeallocSucceed(t)
    PROVE  IInv'
<1> DEFINE n == node[t]
<1>1. /\ Owning(t) /\ ~Owning(t)' /\ n \in Nodes /\ n \in Index /\ n \notin live
      /\ next[n] = pool.index /\ pool' \in TaggedIndex
      /\ pool'.index = n /\ pool'.tag = pool.tag
  BY DEF DeallocSucceed, Goto, Owning, IInv, TypeOK, Exclusive, PushesLinked,
         Nodes, Slots, TaggedIndex
<1>2. \A u \in Threads : /\ Allocating(u)' <=> Allocating(u)
                         /\ u # t => /\ Owning(u)' <=> Owning(u)
                                     /\ node'[u] = node[u] /\ old'[u] = old[u]
                                     /\ nxt'[u] = nxt[u] /\ pc'[u] = pc[u]
  BY DEF DeallocSucceed, Goto, Forget, IInv, TypeOK, Owning, Allocating
<1>3. n \notin Free /\ Free' = Free \cup {n}
  <2>1. \A u \in Threads : u # t /\ Owning(u) => node[u] # n
    BY <1>1 DEF IInv, Exclusive
  <2>. QED
    BY <1>1, <1>2, <2>1, FreeMember, FreeMemberPrime DEF DeallocSucceed
<1>4. TypeOK'
  <2>1. NoPool \in TaggedIndex
    BY SizeAssumption, NullInIndex DEF NoPool, TaggedIndex, Tag
  <2>2. /\ old' \in [Threads -> TaggedIndex] /\ nxt' \in [Threads -> Index]
        /\ node' \in [Threads -> Index]
    BY <2>1, NullInIndex DEF DeallocSucceed, Forget, IInv, TypeOK
  <2>3. ~Allocating(t)
    BY DEF DeallocSucceed, Allocating
  <2>. QED
    BY <1>1, <1>2, <2>2, <2>3 DEF DeallocSucceed, Goto, IInv, TypeOK
<1>5. Exclusive'
  BY <1>1, <1>2 DEF DeallocSucceed, IInv, Exclusive
<1>6. FreeListIntact'
  BY <1>1, <1>3, ChainPush DEF DeallocSucceed, IInv, FreeListIntact
<1>7. StalledAttempts'
  <2>1. ~Allocating(t)
    BY DEF DeallocSucceed, Allocating
  <2>. QED
    BY <1>1, <1>2, <1>3, <2>1 DEF DeallocSucceed, IInv, StalledAttempts
<1>8. PushesLinked'
  BY <1>2 DEF DeallocSucceed, Goto, IInv, TypeOK, PushesLinked
<1>. QED
  BY <1>4, <1>5, <1>6, <1>7, <1>8 DEF IInv

LEMMA DeallocRetryStep ==
    ASSUME IInv, NEW t \in Threads, DeallocRetry(t)
    PROVE  IInv'
<1>1. \A u \in Threads : /\ Owning(u)' <=> Owning(u)
                         /\ Allocating(u)' <=> Allocating(u)
                         /\ u # t => pc'[u] = pc[u] /\ old'[u] = old[u]
  BY DEF DeallocRetry, Goto, IInv, TypeOK, Owning, Allocating
<1>2. Free' = Free
  BY <1>1, FreeMember, FreeMemberPrime DEF DeallocRetry
<1>3. ~Allocating(t)
  BY DEF DeallocRetry, Allocating
<1>4. TypeOK'
  BY <1>1, <1>3 DEF DeallocRetry, Goto, IInv, TypeOK
<1>5. Exclusive' /\ FreeListIntact'
  BY <1>1, <1>2 DEF DeallocRetry, IInv, Exclusive, FreeListIntact
<1>6. StalledAttempts'
  BY <1>1, <1>2, <1>3 DEF DeallocRetry, IInv, StalledAttempts
<1>7. PushesLinked'
  BY <1>1 DEF DeallocRetry, Goto, IInv, TypeOK, PushesLinked
<1>. QED
  BY <1>4, <1>5, <1>6, <1>7 DEF IInv

LEMMA AllocUnsafeStep ==
    ASSUME IInv, NEW t \in Threads, AllocUnsafe(t)
    PROVE  IInv'
<1>1. \A u \in Threads : pc[u] = "idle" /\ ~Owning(u) /\ ~Allocating(u)
  BY DEF AllocUnsafe, Quiet, Owning, Allocating
<1>2. CASE pool.index = Null
  <2>1. \A u \in Threads : ~Owning(u)' /\ ~Allocating(u)' /\ pc'[u] # "d_cas"
    BY <1>1, <1>2 DEF AllocUnsafe, Goto, IInv, TypeOK, Owning, Allocating
  <2>2. Free' = Free
    BY <1>1, <2>1, FreeMember, FreeMemberPrime DEF AllocUnsafe
  <2>3. TypeOK'
    BY <1>2, <2>1 DEF AllocUnsafe, Goto, IInv, TypeOK
  <2>4. Exclusive' /\ FreeListIntact' /\ StalledAttempts' /\ PushesLinked'
    BY <1>2, <2>1, <2>2
       DEF AllocUnsafe, IInv, Exclusive, FreeListIntact, StalledAttempts, PushesLinked
  <2>. QED
    BY <2>3, <2>4 DEF IInv
<1>3. CASE pool.index # Null
  <2> DEFINE n == pool.index
  <2>1. /\ n \in Free /\ n \in Nodes /\ n \in Index /\ n \in Slots /\ n \notin live
    BY <1>3, ChainTop, FreeMember DEF IInv, FreeListIntact, Nodes, Slots
  <2>2. GetNextTag(pool.tag) \in Tag /\ next[n] \in Index
    BY <2>1, NextTag DEF IInv, TypeOK, TaggedIndex
  <2>3. /\ Owning(t)' /\ node'[t] = n
        /\ \A u \in Threads : u # t => ~Owning(u)'
        /\ \A u \in Threads : ~Allocating(u)' /\ pc'[u] # "d_cas"
    BY <1>1, <1>3 DEF AllocUnsafe, Goto, IInv, TypeOK, Owning, Allocating
  <2>4. Free' = Free \ {n}
    BY <1>1, <2>1, <2>3, FreeMember, FreeMemberPrime DEF AllocUnsafe
  <2>5. TypeOK'
    <3>1. pool' \in TaggedIndex /\ node' \in [Threads -> Index]
      BY <1>3, <2>1, <2>2 DEF AllocUnsafe, IInv, TypeOK, TaggedIndex
    <3>. QED
      BY <1>3, <2>1, <2>3, <3>1 DEF AllocUnsafe, Goto, IInv, TypeOK
  <2>6. Exclusive'
    BY <2>1, <2>3 DEF AllocUnsafe, Exclusive
  <2>7. FreeListIntact'
    BY <1>3, <2>4, ChainPop DEF AllocUnsafe, IInv, FreeListIntact
  <2>8. StalledAttempts' /\ PushesLinked'
    BY <2>3 DEF StalledAttempts, PushesLinked
  <2>. QED
    BY <2>5, <2>6, <2>7, <2>8 DEF IInv
<1>. QED
  BY <1>2, <1>3

LEMMA DeallocUnsafeStep ==
    ASSUME IInv, DeallocUnsafe
    PROVE  IInv'
<1>1. PICK n \in live : /\ pool' = [pool EXCEPT !.index = n]
                        /\ next' = [next EXCEPT ![n] = pool.index]
                        /\ live' = live \ {n}
  BY DEF DeallocUnsafe
<1>2. \A u \in Threads : /\ pc[u] = "idle" /\ ~Owning(u) /\ ~Allocating(u)
                         /\ ~Owning(u)' /\ ~Allocating(u)'
  BY DEF DeallocUnsafe, Quiet, Owning, Allocating
<1>3. n \in Nodes /\ n \in Index /\ n \in Slots /\ n \notin Free
  BY FreeMember DEF IInv, TypeOK, Nodes, Slots
<1>4. /\ pool'.index = n /\ pool' \in TaggedIndex /\ next'[n] = pool.index
      /\ next' \in [Slots -> Index] /\ \A m \in Free : next'[m] = next[m]
  BY <1>1, <1>3 DEF IInv, TypeOK, TaggedIndex, Free, Nodes
<1>5. Free' = Free \cup {n}
  BY <1>1, <1>2, <1>3, FreeMember, FreeMemberPrime
<1>6. TypeOK'
  BY <1>1, <1>2, <1>4 DEF DeallocUnsafe, IInv, TypeOK
<1>7. FreeListIntact'
  BY <1>3, <1>4, <1>5, ChainPush DEF IInv, FreeListIntact
<1>8. Exclusive' /\ StalledAttempts' /\ PushesLinked'
  BY <1>2 DEF DeallocUnsafe, Exclusive, StalledAttempts, PushesLinked
<1>. QED
  BY <1>6, <1>7, <1>8 DEF IInv

LEMMA NextInvariant ==
    ASSUME IInv, [Next]_vars
    PROVE  IInv'
<1>1. ASSUME NEW t \in Threads, AllocLoad(t) PROVE IInv'
  BY <1>1, ExamineStep DEF AllocLoad
<1>2. ASSUME NEW t \in Threads, AllocRetry(t) PROVE IInv'
  BY <1>2, ExamineStep DEF AllocRetry
<1>3. ASSUME NEW t \in Threads,
             \/ AllocReadNext(t) \/ AllocSucceed(t) \/ Construct(t)
             \/ ReturnNull(t) \/ AllocUnsafe(t)
      PROVE  IInv'
  BY <1>3, ReadNextStep, AllocSucceedStep, ConstructStep, ReturnNullStep, AllocUnsafeStep
<1>4. ASSUME NEW t \in Threads,
             \/ DeallocLoad(t) \/ DeallocLink(t)
             \/ DeallocSucceed(t) \/ DeallocRetry(t)
      PROVE  IInv'
  BY <1>4, DeallocLoadStep, DeallocLinkStep, DeallocSucceedStep, DeallocRetryStep
<1>5. CASE DeallocUnsafe \/ ClientWrite
  BY <1>5, DeallocUnsafeStep, ClientWriteStep
<1>6. CASE UNCHANGED vars
  <2>1. \A u \in Threads : /\ Owning(u)' <=> Owning(u)
                           /\ Allocating(u)' <=> Allocating(u)
    BY <1>6 DEF vars, Owning, Allocating
  <2>2. Free' = Free
    BY <1>6, <2>1, FreeMember, FreeMemberPrime DEF vars
  <2>. QED
    BY <1>6, <2>1, <2>2 DEF vars, IInv, TypeOK, Exclusive, FreeListIntact,
                            StalledAttempts, PushesLinked
<1>. QED
  BY <1>1, <1>2, <1>3, <1>4, <1>5, <1>6 DEF Next, Step

(* The inductive invariant of the free list. *)
THEOREM Invariance == Spec => []IInv
BY InitInvariant, NextInvariant, PTL DEF Spec

(* Variables keep their types: in particular a slot in a thread's hands is *)
(* never null_handle().                                                    *)
THEOREM TypeCorrect == Spec => []TypeOK
<1>1. IInv => TypeOK
  BY DEF IInv
<1>. QED
  BY <1>1, Invariance, PTL

(* No slot is handed out twice. *)
THEOREM NoDoubleAllocation == Spec => []Exclusive
<1>1. IInv => Exclusive
  BY DEF IInv
<1>. QED
  BY <1>1, Invariance, PTL

(* The list in memory always consists of exactly the slots nobody has. *)
THEOREM NoSlotLost == Spec => []FreeListIntact
<1>1. IInv => FreeListIntact
  BY DEF IInv
<1>. QED
  BY <1>1, Invariance, PTL

(* compare_exchange never installs a stale link. *)
THEOREM TagPreventsABA == Spec => []NoABA
<1>1. ASSUME IInv, NEW t \in Threads, pc[t] = "a_cas", pool = old[t]
      PROVE  nxt[t] = next[pool.index]
  <2>1. Allocating(t) /\ overtaken[t] = 0
    BY <1>1, MatchMeansFresh DEF Allocating
  <2>. QED
    BY <1>1, <2>1 DEF IInv, StalledAttempts
<1>2. IInv => NoABA
  BY <1>1 DEF NoABA
<1>. QED
  BY <1>2, Invariance, PTL

-----------------------------------------------------------------------------
(* The refinement: each step of the list is one step of NodePool, or none. *)

LEMMA NullNotANode == Null \notin Nodes
BY DEF Nodes

LEMMA RefinesInit == Init => Pool!Init
<1> SUFFICES ASSUME Init PROVE Pool!Init
  OBVIOUS
<1>1. Free = Nodes
  BY DEF Init, Free, Owned, Owning
<1>2. [t \in Threads |-> HeldBy(t)] = [t \in Threads |-> Null]
  BY DEF Init, HeldBy, Owning
<1>3. live = {} /\ {t \in Threads : pc[t] = "null"} = {}
  BY DEF Init
<1>. QED
  BY <1>1, <1>2, <1>3 DEF Pool!Init

(* Steps that move no slot and return nothing. *)
LEMMA Invisible ==
    ASSUME live' = live,
           \A u \in Threads : /\ Owning(u)' <=> Owning(u)
                              /\ Owning(u) => node'[u] = node[u]
                              /\ pc'[u] = "null" <=> pc[u] = "null"
    PROVE  UNCHANGED Pool!vars
<1>1. Free' = Free
  BY FreeMember, FreeMemberPrime
<1>2. \A u \in Threads : HeldBy(u)' = HeldBy(u)
  BY DEF HeldBy
<1>. QED
  BY <1>1, <1>2 DEF Pool!vars

LEMMA ExamineRefines ==
    ASSUME IInv, NEW t \in Threads, pc[t] \in {"idle", "a_cas"}, Examine(t),
           UNCHANGED <<pool, next, live, node>>
    PROVE  Pool!Refuse(t) \/ UNCHANGED Pool!vars
<1>1. \A u \in Threads : (Owning(u)' <=> Owning(u)) /\ (u # t => pc'[u] = pc[u])
  BY DEF IInv, TypeOK, Examine, Goto, Owning
<1>2. CASE pool.index = Null
  <2>1. pc'[t] = "null" /\ pc[t] # "null" /\ ~Owning(t)
    BY <1>2 DEF IInv, TypeOK, Examine, Goto, Owning
  <2>2. Free = {}
    BY <1>2, ChainTop DEF IInv, FreeListIntact
  <2>3. live' = live /\ node' = node
    OBVIOUS
  <2>4. Free' = Free
    BY <1>1, <2>3, FreeMember, FreeMemberPrime
  <2>5. \A u \in Threads : HeldBy(u)' = HeldBy(u)
    BY <1>1, <2>3 DEF HeldBy
  <2>6. [u \in Threads |-> HeldBy(u)]' = [u \in Threads |-> HeldBy(u)]
    BY <2>5
  <2>7. {u \in Threads : pc[u] = "null"}' = {u \in Threads : pc[u] = "null"} \cup {t}
    BY <1>1, <2>1
  <2>8. Pool!Idle(t)
    BY <2>1 DEF Pool!Idle, HeldBy
  <2>. QED
    BY <2>2, <2>3, <2>4, <2>6, <2>7, <2>8 DEF Pool!Refuse
<1>3. CASE pool.index # Null
  <2>1. pc'[t] # "null" /\ pc[t] # "null" /\ live' = live /\ node' = node
    BY <1>3 DEF IInv, TypeOK, Examine, Goto
  <2>. QED
    BY <1>1, <2>1, Invisible
<1>. QED
  BY <1>2, <1>3

(* The compare_exchange of allocate_impl() is the moment of Take. *)
LEMMA TakeRefines ==
    ASSUME IInv, NEW t \in Threads, NEW n \in Free,
           pc[t] \in {"idle", "a_cas"}, Goto(t, "construct"),
           node' = [node EXCEPT ![t] = n], live' = live
    PROVE  Pool!Take(t)
<1>1. \A u \in Threads : u # t => /\ Owning(u)' <=> Owning(u)
                                  /\ node'[u] = node[u] /\ pc'[u] = pc[u]
  BY DEF IInv, TypeOK, Goto, Owning
<1>2. ~Owning(t) /\ Owning(t)' /\ node'[t] = n /\ pc[t] # "null" /\ pc'[t] # "null"
  BY DEF IInv, TypeOK, Goto, Owning
<1>3. Free' = Free \ {n}
  BY <1>1, <1>2, FreeMember, FreeMemberPrime
<1>4. [u \in Threads |-> HeldBy(u)]' = [[u \in Threads |-> HeldBy(u)] EXCEPT ![t] = n]
  BY <1>1, <1>2 DEF HeldBy
<1>5. {u \in Threads : pc[u] = "null"}' = {u \in Threads : pc[u] = "null"}
  BY <1>1, <1>2
<1>6. Pool!Idle(t)
  BY <1>2 DEF Pool!Idle, HeldBy
<1>. QED
  BY <1>3, <1>4, <1>5, <1>6 DEF Pool!Take

LEMMA AllocSucceedRefines ==
    ASSUME IInv, NEW t \in Threads, AllocSucceed(t)
    PROVE  Pool!Take(t)
<1>1. pool = old[t] /\ Allocating(t)
  BY DEF AllocSucceed, Allocating
<1>2. old[t].index \in Free
  BY <1>1, MatchMeansFresh DEF IInv, StalledAttempts
<1>. QED
  BY <1>2, TakeRefines DEF AllocSucceed

LEMMA ConstructRefines ==
    ASSUME IInv, NEW t \in Threads, Construct(t)
    PROVE  Pool!Publish(t)
<1>1. /\ Owning(t) /\ ~Owning(t)' /\ node[t] \in Nodes
      /\ pc[t] # "null" /\ pc'[t] # "null"
  BY DEF Construct, Goto, Owning, IInv, TypeOK
<1>2. \A u \in Threads : u # t => /\ Owning(u)' <=> Owning(u)
                                  /\ node'[u] = node[u] /\ pc'[u] = pc[u]
  BY DEF Construct, Goto, IInv, TypeOK, Owning
<1>3. Free' = Free
  BY <1>1, <1>2, FreeMember, FreeMemberPrime DEF Construct
<1>4. [u \in Threads |-> HeldBy(u)]' = [[u \in Threads |-> HeldBy(u)] EXCEPT ![t] = Null]
  BY <1>1, <1>2 DEF HeldBy
<1>5. {u \in Threads : pc[u] = "null"}' = {u \in Threads : pc[u] = "null"}
  BY <1>1, <1>2
<1>6. [u \in Threads |-> HeldBy(u)][t] = node[t] /\ node[t] # Null
  BY <1>1, NullNotANode DEF HeldBy
<1>7. live' = live \cup {node[t]}
  BY DEF Construct
<1>. QED
  BY <1>3, <1>4, <1>5, <1>6, <1>7 DEF Pool!Publish

LEMMA ReturnNullRefines ==
    ASSUME IInv, NEW t \in Threads, ReturnNull(t)
    PROVE  Pool!Forget(t)
<1>1. \A u \in Threads : (Owning(u)' <=> Owning(u)) /\ (u # t => pc'[u] = pc[u])
  BY DEF IInv, TypeOK, ReturnNull, Goto, Owning
<1>2. pc[t] = "null" /\ pc'[t] = "idle"
  BY DEF IInv, TypeOK, ReturnNull, Goto
<1>3. Free' = Free
  BY <1>1, FreeMember, FreeMemberPrime DEF ReturnNull
<1>4. [u \in Threads |-> HeldBy(u)]' = [u \in Threads |-> HeldBy(u)]
  BY <1>1 DEF HeldBy, ReturnNull
<1>5. {u \in Threads : pc[u] = "null"}' = {u \in Threads : pc[u] = "null"} \ {t}
  BY <1>1, <1>2
<1>. QED
  BY <1>2, <1>3, <1>4, <1>5 DEF Pool!Forget, ReturnNull

LEMMA DeallocLoadRefines ==
    ASSUME IInv, NEW t \in Threads, DeallocLoad(t)
    PROVE  Pool!Retire(t)
<1>1. PICK n \in live : live' = live \ {n} /\ node' = [node EXCEPT ![t] = n]
  BY DEF DeallocLoad
<1>2. /\ n \in Nodes /\ node'[t] = n /\ ~Owning(t) /\ Owning(t)'
      /\ pc[t] # "null" /\ pc'[t] # "null"
  BY <1>1 DEF DeallocLoad, Goto, IInv, TypeOK, Owning
<1>3. \A u \in Threads : u # t => /\ Owning(u)' <=> Owning(u)
                                  /\ node'[u] = node[u] /\ pc'[u] = pc[u]
  BY <1>1 DEF DeallocLoad, Goto, IInv, TypeOK, Owning
<1>4. Free' = Free
  BY <1>1, <1>2, <1>3, FreeMember, FreeMemberPrime
<1>5. [u \in Threads |-> HeldBy(u)]' = [[u \in Threads |-> HeldBy(u)] EXCEPT ![t] = n]
  BY <1>2, <1>3 DEF HeldBy
<1>6. {u \in Threads : pc[u] = "null"}' = {u \in Threads : pc[u] = "null"}
  BY <1>2, <1>3
<1>7. Pool!Idle(t)
  BY <1>2 DEF Pool!Idle, HeldBy
<1>. QED
  BY <1>1, <1>4, <1>5, <1>6, <1>7 DEF Pool!Retire

LEMMA DeallocSucceedRefines ==
    ASSUME IInv, NEW t \in Threads, DeallocSucceed(t)
    PROVE  Pool!Release(t)
<1>1. /\ Owning(t) /\ ~Owning(t)' /\ node[t] \in Nodes /\ node[t] \notin live
      /\ pc[t] # "null" /\ pc'[t] # "null"
  BY DEF DeallocSucceed, Goto, Owning, IInv, TypeOK, Exclusive
<1>2. \A u \in Threads : u # t => /\ Owning(u)' <=> Owning(u)
                                  /\ node'[u] = node[u] /\ pc'[u] = pc[u]
  BY DEF DeallocSucceed, Goto, IInv, TypeOK, Owning
<1>3. Free' = Free \cup {node[t]}
  <2>1. \A u \in Threads : u # t /\ Owning(u) => node[u] # node[t]
    BY <1>1 DEF IInv, Exclusive
  <2>. QED
    BY <1>1, <1>2, <2>1, FreeMember, FreeMemberPrime DEF DeallocSucceed
<1>4. [u \in Threads |-> HeldBy(u)]' = [[u \in Threads |-> HeldBy(u)] EXCEPT ![t] = Null]
  BY <1>1, <1>2 DEF HeldBy
<1>5. {u \in Threads : pc[u] = "null"}' = {u \in Threads : pc[u] = "null"}
  BY <1>1, <1>2
<1>6. [u \in Threads |-> HeldBy(u)][t] = node[t] /\ node[t] # Null
  BY <1>1, NullNotANode DEF HeldBy
<1>7. live' = live
  BY DEF DeallocSucceed
<1>. QED
  BY <1>3, <1>4, <1>5, <1>6, <1>7 DEF Pool!Release

LEMMA AllocUnsafeRefines ==
    ASSUME IInv, NEW t \in Threads, AllocUnsafe(t)
    PROVE  Pool!Take(t) \/ Pool!Refuse(t)
<1>1. \A u \in Threads : pc[u] = "idle" /\ ~Owning(u)
  BY DEF AllocUnsafe, Quiet, Owning
<1>2. CASE pool.index # Null
  <2>1. pool.index \in Free
    BY <1>2, ChainTop DEF IInv, FreeListIntact
  <2>. QED
    BY <1>1, <1>2, <2>1, TakeRefines DEF AllocUnsafe
<1>3. CASE pool.index = Null
  <2>1. /\ pc'[t] = "null" /\ live' = live
        /\ \A u \in Threads : ~Owning(u)' /\ (u # t => pc'[u] = "idle")
    BY <1>1, <1>3 DEF AllocUnsafe, Goto, IInv, TypeOK, Owning
  <2>2. Free = {}
    BY <1>3, ChainTop DEF IInv, FreeListIntact
  <2>3. Free' = Free
    BY <1>1, <2>1, FreeMember, FreeMemberPrime
  <2>4. [u \in Threads |-> HeldBy(u)]' = [u \in Threads |-> HeldBy(u)]
    BY <1>1, <2>1 DEF HeldBy
  <2>5. {u \in Threads : pc[u] = "null"}' = {u \in Threads : pc[u] = "null"} \cup {t}
    BY <1>1, <2>1
  <2>6. Pool!Idle(t)
    BY <1>1 DEF Pool!Idle, HeldBy
  <2>. QED
    BY <2>1, <2>2, <2>3, <2>4, <2>5, <2>6 DEF Pool!Refuse
<1>. QED
  BY <1>2, <1>3

LEMMA DeallocUnsafeRefines ==
    ASSUME IInv, DeallocUnsafe
    PROVE  \E n \in Nodes : Pool!Discard(n)
<1>1. PICK n \in live : live' = live \ {n}
  BY DEF DeallocUnsafe
<1>2. /\ n \in Nodes /\ pc' = pc
      /\ \A u \in Threads : ~Owning(u) /\ ~Owning(u)'
  BY DEF DeallocUnsafe, Quiet, Owning, IInv, TypeOK
<1>3. Free' = Free \cup {n}
  BY <1>1, <1>2, FreeMember, FreeMemberPrime
<1>4. [u \in Threads |-> HeldBy(u)]' = [u \in Threads |-> HeldBy(u)]
  BY <1>2 DEF HeldBy
<1>5. {u \in Threads : pc[u] = "null"}' = {u \in Threads : pc[u] = "null"}
  BY <1>2
<1>6. Pool!Discard(n)
  BY <1>1, <1>3, <1>4, <1>5 DEF Pool!Discard
<1>. QED
  BY <1>2, <1>6

LEMMA RefinesNext ==
    ASSUME IInv, [Next]_vars
    PROVE  [Pool!Next]_(Pool!vars)
<1>1. ASSUME NEW t \in Threads, AllocLoad(t) \/ AllocRetry(t)
      PROVE  [Pool!Next]_(Pool!vars)
  <2>1. Pool!Refuse(t) \/ UNCHANGED Pool!vars
    BY <1>1, ExamineRefines DEF AllocLoad, AllocRetry
  <2>. QED
    BY <2>1 DEF Pool!Next
<1>2. ASSUME NEW t \in Threads,
             \/ AllocSucceed(t) \/ Construct(t) \/ ReturnNull(t)
             \/ DeallocLoad(t) \/ DeallocSucceed(t) \/ AllocUnsafe(t)
      PROVE  Pool!Next
  BY <1>2, AllocSucceedRefines, ConstructRefines, ReturnNullRefines, DeallocLoadRefines,
     DeallocSucceedRefines, AllocUnsafeRefines DEF Pool!Next
<1>3. ASSUME NEW t \in Threads,
             AllocReadNext(t) \/ DeallocLink(t) \/ DeallocRetry(t)
      PROVE  UNCHANGED Pool!vars
  <2>1. /\ live' = live /\ node' = node
        /\ \A u \in Threads : /\ Owning(u)' <=> Owning(u)
                              /\ pc'[u] = "null" <=> pc[u] = "null"
    BY <1>3 DEF AllocReadNext, DeallocLink, DeallocRetry, Goto, Owning, IInv, TypeOK
  <2>. QED
    BY <2>1, Invisible
<1>4. CASE DeallocUnsafe
  BY <1>4, DeallocUnsafeRefines DEF Pool!Next
<1>5. CASE ClientWrite \/ UNCHANGED vars
  <2>1. live' = live /\ node' = node /\ pc' = pc
    BY <1>5 DEF ClientWrite, vars
  <2>. QED
    BY <2>1, Invisible DEF Owning
<1>. QED
  BY <1>1, <1>2, <1>3, <1>4, <1>5 DEF Next, Step

(* The lock-free list implements the abstract pool: allocate() returns     *)
(* free slots only, and null only if there is none.                        *)
THEOREM Refinement == Spec => ImplementsPool
<1>1. Init => Pool!Init
  BY RefinesInit
<1>2. IInv /\ [Next]_vars => [Pool!Next]_(Pool!vars)
  BY RefinesNext
<1>. QED
  BY <1>1, <1>2, Invariance, PTL DEF Spec, ImplementsPool, Pool!Spec
=============================================================================
