-------------------------- MODULE ThreadPoolProofs --------------------------
(***************************************************************************)
(* The thread pools and the blocking queue under them, for any number of   *)
(* workers, clients and tasks: tokens and elements agree, nobody sleeps    *)
(* who was signalled for, and terminal() lets the tasks of its caller run. *)
(***************************************************************************)
EXTENDS ThreadPoolMC, WellFoundedInduction, FiniteSetTheorems, SequenceTheorems, TLAPS

(* A set with 0 in it that holds k + 1 whenever it holds k holds 0 .. n.   *)
LEMMA SetInduction ==
    ASSUME NEW n \in Nat, NEW T, 0 \in T, \A k \in 0 .. n - 1 : k \in T => k + 1 \in T
    PROVE  0 .. n \subseteq T
<1> DEFINE U == (0 .. n) \ T
<1>1. U \in SUBSET Nat /\ 0 \notin U /\ \A k \in U : k \in 1 .. n
  OBVIOUS
<1>2. \A k \in 0 .. n : k \in T \/ k \in U
  OBVIOUS
<1>. HIDE DEF U
<1>3. SUFFICES ASSUME U # {} PROVE FALSE
  BY <1>2
<1>4. PICK m \in U : \A k \in U : ~ (<<k, m>> \in OpToRel(<, Nat))
  BY <1>1, <1>3, NatLessThanWellFounded, WFMin
<1>5. m \in 1 .. n /\ m - 1 \in 0 .. n - 1 /\ m - 1 < m /\ m - 1 + 1 = m
  BY <1>1
<1>6. \A k \in U : ~ (k < m)
  BY <1>1, <1>4 DEF OpToRel
<1>7. m - 1 \in T
  BY <1>2, <1>5, <1>6
<1>8. m \in T
  BY <1>5, <1>7
<1>. QED
  BY <1>8 DEF U

-----------------------------------------------------------------------------
(* Sums.  g holds the partial sums of f, each taken apart at the element   *)
(* that CHOOSE picks.                                                      *)
Picked(s) == CHOOSE x \in s : TRUE

Sums(f, g) ==
    g = [s \in SUBSET DOMAIN f |-> IF s = {} THEN 0 ELSE f[Picked(s)] + g[s \ {Picked(s)}]]

LEMMA SumIsLast ==
    ASSUME NEW f, NEW g0, Sums(f, g0)
    PROVE  \E g : Sums(f, g) /\ task_queue!SumFunction(f) = g[DOMAIN f]
<1> DEFINE h == CHOOSE h : Sums(f, h)
<1>1. Sums(f, h)
  OBVIOUS
<1>2. task_queue!SumFunction(f) = h[DOMAIN f]
  BY DEF task_queue!SumFunction, task_queue!SumFunctionOnSet, task_queue!FoldFunctionOnSet,
         task_queue!MapThenFoldSet, Sums, Picked
<1>. QED
  BY <1>1, <1>2

(* The sets of at most n elements have partial sums.                       *)
Small(D, n) == {s \in SUBSET D : Cardinality(s) <= n}

SumsTo(f, n, g) ==
    /\ g \in [Small(DOMAIN f, n) -> Int]
    /\ \A s \in Small(DOMAIN f, n) :
          g[s] = IF s = {} THEN 0 ELSE f[Picked(s)] + g[s \ {Picked(s)}]

LEMMA Pick ==
    ASSUME NEW s, IsFiniteSet(s), s # {}
    PROVE  /\ Picked(s) \in s
           /\ IsFiniteSet(s \ {Picked(s)})
           /\ Cardinality(s) \in Nat \ {0}
           /\ Cardinality(s \ {Picked(s)}) = Cardinality(s) - 1
<1>1. Picked(s) \in s
  BY DEF Picked
<1>2. Cardinality(s) \in Nat /\ Cardinality(s) # 0
  BY FS_CardinalityType, FS_EmptySet
<1>. QED
  BY <1>1, <1>2, FS_RemoveElement

LEMMA SumsExist ==
    ASSUME NEW f, IsFiniteSet(DOMAIN f), \A x \in DOMAIN f : f[x] \in Int
    PROVE  \E g : Sums(f, g) /\ g \in [SUBSET DOMAIN f -> Int]
<1> DEFINE D == DOMAIN f
           T == {n \in Nat : \E g : SumsTo(f, n, g)}
<1>1. \A s \in SUBSET D : IsFiniteSet(s) /\ Cardinality(s) \in Nat /\ Cardinality(s) <= Cardinality(D)
  BY FS_Subset, FS_CardinalityType
<1>2. Cardinality(D) \in Nat
  BY FS_CardinalityType
<1>3. 0 \in T
  <2>1. SumsTo(f, 0, [s \in Small(D, 0) |-> 0])
    <3>1. \A s \in Small(D, 0) : s = {}
      BY <1>1, FS_EmptySet DEF Small
    <3>. QED
      BY <3>1 DEF SumsTo
  <2>. QED
    BY <2>1
<1>4. ASSUME NEW n \in Nat, n \in T PROVE n + 1 \in T
  <2>1. PICK g : SumsTo(f, n, g)
    BY <1>4
  <2> DEFINE h == [s \in Small(D, n + 1) |->
                     IF s = {} THEN 0 ELSE f[Picked(s)] + g[s \ {Picked(s)}]]
  <2>2. ASSUME NEW s \in Small(D, n + 1), s # {}
        PROVE  Picked(s) \in D /\ s \ {Picked(s)} \in Small(D, n)
    BY <1>1, <2>2, Pick DEF Small
  <2>3. h \in [Small(D, n + 1) -> Int]
    BY <2>1, <2>2 DEF SumsTo
  <2>4. ASSUME NEW s \in Small(D, n) PROVE s \in Small(D, n + 1) /\ h[s] = g[s]
    BY <2>1, <2>4, <1>1 DEF SumsTo, Small
  <2>5. ASSUME NEW s \in Small(D, n + 1)
        PROVE  h[s] = IF s = {} THEN 0 ELSE f[Picked(s)] + h[s \ {Picked(s)}]
    BY <2>2, <2>4
  <2>6. SumsTo(f, n + 1, h)
    <3> HIDE DEF h
    <3>. QED
      BY <2>3, <2>5 DEF SumsTo
  <2>. QED
    BY <2>6
<1>5. Cardinality(D) \in T
  <2> HIDE DEF T
  <2>. QED
    BY <1>2, <1>3, <1>4, SetInduction
<1>6. PICK g : SumsTo(f, Cardinality(D), g)
  BY <1>5
<1>7. Small(D, Cardinality(D)) = SUBSET D
  BY <1>1 DEF Small
<1>. QED
  BY <1>6, <1>7 DEF SumsTo, Sums

(* f sums up: its values are integers, and it has finitely many.           *)
Summable(f) == IsFiniteSet(DOMAIN f) /\ \A x \in DOMAIN f : f[x] \in Int

LEMMA SumsType ==
    ASSUME NEW f, Summable(f), NEW g, Sums(f, g)
    PROVE  g \in [SUBSET DOMAIN f -> Int]
<1> DEFINE D == DOMAIN f
           T == {n \in Nat : \A u \in SUBSET D : Cardinality(u) <= n => g[u] \in Int}
<1>1. \A u \in SUBSET D : IsFiniteSet(u) /\ Cardinality(u) \in Nat
  BY FS_Subset, FS_CardinalityType DEF Summable
<1>2. 0 \in T
  BY <1>1, FS_EmptySet DEF Sums
<1>3. ASSUME NEW n \in Nat, n \in T PROVE n + 1 \in T
  <2> SUFFICES ASSUME NEW u \in SUBSET D, Cardinality(u) <= n + 1
               PROVE  g[u] \in Int
    OBVIOUS
  <2>1. CASE u = {}
    BY <2>1 DEF Sums
  <2>2. CASE u # {}
    <3>1. Picked(u) \in u /\ Cardinality(u \ {Picked(u)}) = Cardinality(u) - 1
      BY <1>1, <2>2, Pick
    <3>2. g[u \ {Picked(u)}] \in Int
      BY <3>1, <1>1, <1>3
    <3>3. g[u] = f[Picked(u)] + g[u \ {Picked(u)}]
      BY <2>2 DEF Sums
    <3>. QED
      BY <3>1, <3>2, <3>3 DEF Summable
  <2>. QED
    BY <2>1, <2>2
<1>4. ASSUME NEW u \in SUBSET D PROVE g[u] \in Int
  <2>1. Cardinality(u) \in T
    <3> HIDE DEF T
    <3>. QED
      BY <1>1, <1>2, <1>3, SetInduction
  <2>. QED
    BY <2>1, <1>1
<1>. QED
  BY <1>4 DEF Sums

(* The order in which elements are picked does not matter.                 *)
TakesOut(f, g, s, x) == g[s] = f[x] + g[s \ {x}]

LEMMA TakeAny ==
    ASSUME NEW f, Summable(f), NEW g, g \in [SUBSET DOMAIN f -> Int], Sums(f, g),
           NEW s, s \in SUBSET DOMAIN f, NEW x, x \in s
    PROVE  TakesOut(f, g, s, x)
<1> DEFINE D == DOMAIN f
           T == {n \in Nat : \A u \in SUBSET D : \A y \in u :
                                Cardinality(u) <= n => g[u] = f[y] + g[u \ {y}]}
<1>1. \A u \in SUBSET D : IsFiniteSet(u) /\ Cardinality(u) \in Nat
  BY FS_Subset, FS_CardinalityType DEF Summable
<1>2. 0 \in T
  BY <1>1, FS_EmptySet
<1>3. ASSUME NEW n \in Nat, n \in T PROVE n + 1 \in T
  <2> SUFFICES ASSUME NEW u \in SUBSET D, NEW y \in u, Cardinality(u) <= n + 1
               PROVE  g[u] = f[y] + g[u \ {y}]
    OBVIOUS
  <2>1. PICK z : z = Picked(u)
    OBVIOUS
  <2>2. /\ z \in u /\ IsFiniteSet(u) /\ Cardinality(u) \in Nat
        /\ Cardinality(u \ {z}) = Cardinality(u) - 1
        /\ Cardinality(u \ {y}) = Cardinality(u) - 1
    BY <1>1, <2>1, Pick, FS_RemoveElement
  <2>3. g[u] = f[z] + g[u \ {z}]
    BY <2>1, <2>2 DEF Sums
  <2>4. CASE z # y
    <3>1. g[u \ {z}] = f[y] + g[(u \ {z}) \ {y}]
      <4>1. u \ {z} \in SUBSET D /\ y \in u \ {z} /\ Cardinality(u \ {z}) <= n
        BY <2>2, <2>4
      <4>. QED
        BY <4>1, <1>3
    <3>2. g[u \ {y}] = f[z] + g[(u \ {y}) \ {z}]
      <4>1. u \ {y} \in SUBSET D /\ z \in u \ {y} /\ Cardinality(u \ {y}) <= n
        BY <2>2, <2>4
      <4>. QED
        BY <4>1, <1>3
    <3>3. PICK v \in SUBSET D : v = (u \ {z}) \ {y} /\ v = (u \ {y}) \ {z}
      OBVIOUS
    <3>4. f[y] \in Int /\ f[z] \in Int /\ g[v] \in Int
      BY <2>2 DEF Summable
    <3>5. g[u \ {z}] = f[y] + g[v] /\ g[u \ {y}] = f[z] + g[v]
      BY <3>1, <3>2, <3>3
    <3>. QED
      BY <2>3, <3>4, <3>5
  <2>. QED
    BY <2>3, <2>4
<1>4. Cardinality(s) \in T
  <2> HIDE DEF T
  <2>. QED
    BY <1>1, <1>2, <1>3, SetInduction
<1>. QED
  BY <1>4, <1>1 DEF TakesOut

(* Two functions that agree outside x have the same sums outside x.        *)
LEMMA SumsAgree ==
    ASSUME NEW f, NEW h, Summable(f), Summable(h), DOMAIN h = DOMAIN f,
           NEW g \in [SUBSET DOMAIN f -> Int], Sums(f, g),
           NEW e \in [SUBSET DOMAIN f -> Int], Sums(h, e),
           NEW s \in SUBSET DOMAIN f, \A y \in s : h[y] = f[y]
    PROVE  e[s] = g[s]
<1> DEFINE D == DOMAIN f
           T == {n \in Nat : \A u \in SUBSET s : Cardinality(u) <= n => e[u] = g[u]}
<1>1. \A u \in SUBSET s : IsFiniteSet(u) /\ Cardinality(u) \in Nat
  BY FS_Subset, FS_CardinalityType DEF Summable
<1>2. 0 \in T
  BY <1>1, FS_EmptySet DEF Sums
<1>3. ASSUME NEW n \in Nat, n \in T PROVE n + 1 \in T
  <2> SUFFICES ASSUME NEW u \in SUBSET s, Cardinality(u) <= n + 1
               PROVE  e[u] = g[u]
    OBVIOUS
  <2>1. CASE u = {}
    BY <2>1 DEF Sums
  <2>2. CASE u # {}
    <3>1. Picked(u) \in u /\ Cardinality(u \ {Picked(u)}) = Cardinality(u) - 1
      BY <1>1, <2>2, Pick
    <3>2. e[u \ {Picked(u)}] = g[u \ {Picked(u)}]
      BY <3>1, <1>1, <1>3
    <3>3. g[u] = f[Picked(u)] + g[u \ {Picked(u)}] /\ e[u] = h[Picked(u)] + e[u \ {Picked(u)}]
      BY <2>2 DEF Sums
    <3>. QED
      BY <3>1, <3>2, <3>3
  <2>. QED
    BY <2>1, <2>2
<1>4. Cardinality(s) \in T
  <2> HIDE DEF T
  <2>. QED
    BY <1>1, <1>2, <1>3, SetInduction
<1>. QED
  BY <1>4, <1>1

LEMMA SumExists ==
    ASSUME NEW f, Summable(f)
    PROVE  \E g \in [SUBSET DOMAIN f -> Int] : Sums(f, g) /\ task_queue!SumFunction(f) = g[DOMAIN f]
<1>1. PICK g0 : Sums(f, g0)
  BY SumsExist DEF Summable
<1>2. PICK g : Sums(f, g) /\ task_queue!SumFunction(f) = g[DOMAIN f]
  BY <1>1, SumIsLast
<1>3. g \in [SUBSET DOMAIN f -> Int]
  BY <1>2, SumsType
<1>. QED
  BY <1>2, <1>3

LEMMA SumType ==
    ASSUME NEW f, Summable(f) PROVE task_queue!SumFunction(f) \in Int
<1>1. PICK g \in [SUBSET DOMAIN f -> Int] : Sums(f, g) /\ task_queue!SumFunction(f) = g[DOMAIN f]
  BY SumExists
<1>2. DOMAIN f \in SUBSET DOMAIN f
  OBVIOUS
<1>. QED
  BY <1>1, <1>2

(* Changing one value changes the sum by as much.                          *)
LEMMA SumChange ==
    ASSUME NEW f, NEW h, Summable(f), Summable(h), DOMAIN h = DOMAIN f,
           NEW x \in DOMAIN f, \A y \in DOMAIN f \ {x} : h[y] = f[y]
    PROVE  task_queue!SumFunction(h) = task_queue!SumFunction(f) + h[x] - f[x]
<1>1. PICK g \in [SUBSET DOMAIN f -> Int] : Sums(f, g) /\ task_queue!SumFunction(f) = g[DOMAIN f]
  BY SumExists
<1>2. PICK e \in [SUBSET DOMAIN f -> Int] : Sums(h, e) /\ task_queue!SumFunction(h) = e[DOMAIN f]
  BY SumExists
<1> DEFINE D == DOMAIN f
<1>0. D \in SUBSET DOMAIN f /\ x \in D /\ D \ {x} \in SUBSET DOMAIN f
  OBVIOUS
<1> HIDE DEF D
<1>3. TakesOut(f, g, D, x)
  BY <1>0, <1>1, TakeAny
<1>4. TakesOut(h, e, D, x)
  BY <1>0, <1>2, TakeAny
<1>5. e[D \ {x}] = g[D \ {x}]
  <2>1. \A y \in D \ {x} : h[y] = f[y]
    BY DEF D
  <2>. QED
    BY <1>0, <1>1, <1>2, <2>1, SumsAgree
<1>6. f[x] \in Int /\ h[x] \in Int /\ g[D \ {x}] \in Int
  BY <1>0 DEF Summable
<1>. QED
  BY <1>1, <1>2, <1>3, <1>4, <1>5, <1>6 DEF D, TakesOut

LEMMA SumSame ==
    ASSUME NEW f, NEW h, Summable(f), Summable(h), DOMAIN h = DOMAIN f,
           \A y \in DOMAIN f : h[y] = f[y]
    PROVE  task_queue!SumFunction(h) = task_queue!SumFunction(f)
<1>1. PICK g \in [SUBSET DOMAIN f -> Int] : Sums(f, g) /\ task_queue!SumFunction(f) = g[DOMAIN f]
  BY SumExists
<1>2. PICK e \in [SUBSET DOMAIN f -> Int] : Sums(h, e) /\ task_queue!SumFunction(h) = e[DOMAIN f]
  BY SumExists
<1> DEFINE D == DOMAIN f
<1>3. D \in SUBSET DOMAIN f /\ \A y \in D : h[y] = f[y]
  OBVIOUS
<1> HIDE DEF D
<1>4. e[D] = g[D]
  <2>1. Sums(f, g) /\ Sums(h, e)
    BY <1>1, <1>2
  <2>. QED
    BY <1>3, <2>1, SumsAgree
<1>. QED
  BY <1>1, <1>2, <1>4 DEF D

LEMMA SumOfZeros ==
    ASSUME NEW f, Summable(f), \A y \in DOMAIN f : f[y] = 0
    PROVE  task_queue!SumFunction(f) = 0
<1> DEFINE z == [s \in SUBSET DOMAIN f |-> 0]
<1>1. PICK g \in [SUBSET DOMAIN f -> Int] : Sums(f, g) /\ task_queue!SumFunction(f) = g[DOMAIN f]
  BY SumExists
<1>2. Sums(f, z)
  <2>1. ASSUME NEW s \in SUBSET DOMAIN f, s # {} PROVE Picked(s) \in s
    BY <2>1 DEF Picked
  <2>. QED
    BY <2>1 DEF Sums
<1>3. z \in [SUBSET DOMAIN f -> Int]
  OBVIOUS
<1>4. z[DOMAIN f] = g[DOMAIN f]
  <2> HIDE DEF z
  <2>. QED
    BY <1>1, <1>2, <1>3, SumsAgree
<1>. QED
  BY <1>1, <1>4
-----------------------------------------------------------------------------
(* The queue.  The shape of a thread's registers follows from its place.   *)
Items == Tasks \cup {Exit}
Places == {"idle", "signal", "post", "spin", "asleep", "restore", "trywait", "more", "take"}
Sleeping == {"asleep", "restore", "trywait"}

Registers == [kind : {"none", "try", "wait", "timed"}, max : Nat, owed : Nat,
              got : Seq(Items), count : Nat]

Fits(place, q) ==
    /\ q.owed + Len(q.got) <= q.max
    /\ place \in {"signal", "post"} => q.kind = "none" /\ q.max = 0 /\ q.count > 0
    /\ place \notin {"signal", "post"} => q.count = 0
    /\ place \in Sleeping \cup {"idle", "spin"} => q.owed = 0
    /\ place \in Sleeping \cup {"spin", "more"} => q.max > 0 /\ q.got = <<>>
    /\ place = "more" => q.owed = 1
    /\ place = "take" => q.owed > 0

QueueInv ==
    /\ inner \in [Producers -> Seq(Items)]
    /\ m_count \in Int /\ m_sema \in Nat
    /\ at \in [Threads -> Places]
    /\ r \in [Threads -> Registers]
    /\ \A t \in Threads : Fits(at[t], r[t])

Covered == task_queue!TokensCovered /\ task_queue!PostsCovered

LEMMA Finiteness == IsFiniteSet(Threads) /\ IsFiniteSet(Producers)
BY ThreadPoolAssumption, FS_Union DEF Threads, Producers

LEMMA MinOfTwo ==
    ASSUME NEW x \in Int, NEW y \in Int
    PROVE  task_queue!Min({x, y}) = IF x <= y THEN x ELSE y
BY DEF task_queue!Min

LEMMA NoCallTyped ==
    /\ task_queue!NoCall \in Registers
    /\ task_queue!NoCall.kind = "none" /\ task_queue!NoCall.max = 0
    /\ task_queue!NoCall.owed = 0 /\ task_queue!NoCall.got = <<>> /\ task_queue!NoCall.count = 0
BY DEF task_queue!NoCall, Registers

(* What is summed up.                                                      *)
Lengths == [p \in Producers |-> Len(inner[p])]
Debts == [t \in Threads |-> r[t].owed]
Counts(step) == [t \in Threads |-> IF at[t] = step THEN r[t].count ELSE 0]

SumsGood ==
    /\ Summable(Lengths) /\ Summable(Debts)
    /\ \A step : Summable(Counts(step))
    /\ task_queue!Elements = task_queue!SumFunction(Lengths)
    /\ task_queue!Owed = task_queue!SumFunction(Debts)
    /\ \A step : task_queue!CountsAt(step) = task_queue!SumFunction(Counts(step))

LEMMA SumsTyped == QueueInv => SumsGood
<1> SUFFICES ASSUME QueueInv PROVE SumsGood
  OBVIOUS
<1>1. \A p \in Producers : Len(inner[p]) \in Int
  BY DEF QueueInv
<1>2. \A t \in Threads : r[t].owed \in Int /\ r[t].count \in Int
  BY DEF QueueInv, Registers
<1>. QED
  BY <1>1, <1>2, Finiteness
     DEF SumsGood, Summable, Lengths, Debts, Counts, task_queue!Elements, task_queue!Owed,
         task_queue!CountsAt

NumbersGood ==
    /\ task_queue!Elements \in Int /\ task_queue!Owed \in Int
    /\ \A step : task_queue!CountsAt(step) \in Int
    /\ task_queue!Sleepers \in Nat

LEMMA NumbersTyped == QueueInv => NumbersGood
<1> SUFFICES ASSUME QueueInv PROVE NumbersGood
  OBVIOUS
<1>1. SumsGood
  BY SumsTyped
<1>2. task_queue!Elements \in Int /\ task_queue!Owed \in Int
  BY <1>1, SumType DEF SumsGood
<1>3. ASSUME NEW step PROVE task_queue!CountsAt(step) \in Int
  BY <1>1, SumType DEF SumsGood
<1>4. task_queue!Sleepers \in Nat
  <2>1. task_queue!Sleepers = Cardinality({t \in Threads : at[t] \in Sleeping})
    BY DEF task_queue!Sleepers, task_queue!In, Sleeping, task_queue!Cardinality, Cardinality
  <2>2. IsFiniteSet({t \in Threads : at[t] \in Sleeping})
    BY Finiteness, FS_Subset
  <2>. QED
    BY <2>1, <2>2, FS_CardinalityType
<1>. QED
  BY <1>2, <1>3, <1>4 DEF NumbersGood

(* What a step of one thread does to the sums.                             *)
CountIn(step, place, q) == IF place = step THEN q.count ELSE 0
Asleep(place) == IF place \in Sleeping THEN 1 ELSE 0

LEMMA SumsMove ==
    ASSUME QueueInv, QueueInv', NEW t \in Threads, NEW place \in Places, NEW q \in Registers,
           task_queue!Goto(t, place, q)
    PROVE  /\ task_queue!Owed' = task_queue!Owed + q.owed - r[t].owed
           /\ \A step : task_queue!CountsAt(step)' =
                   task_queue!CountsAt(step) + CountIn(step, place, q) - CountIn(step, at[t], r[t])
           /\ task_queue!Sleepers' = task_queue!Sleepers + Asleep(place) - Asleep(at[t])
<1>1. at' = [at EXCEPT ![t] = place] /\ r' = [r EXCEPT ![t] = q]
  BY DEF task_queue!Goto
<1>2. at \in [Threads -> Places] /\ r \in [Threads -> Registers]
  BY DEF QueueInv
<1>3. SumsGood /\ SumsGood'
  BY SumsTyped, PTL
<1>4. task_queue!Owed' = task_queue!Owed + q.owed - r[t].owed
  <2>1. /\ Summable(Debts) /\ Summable(Debts')
        /\ task_queue!Owed = task_queue!SumFunction(Debts)
        /\ task_queue!Owed' = task_queue!SumFunction(Debts')
    BY <1>3 DEF SumsGood
  <2>2. /\ DOMAIN (Debts') = DOMAIN Debts
        /\ t \in DOMAIN Debts /\ Debts'[t] = q.owed /\ Debts[t] = r[t].owed
        /\ \A u \in DOMAIN Debts \ {t} : Debts'[u] = Debts[u]
    BY <1>1, <1>2 DEF Debts
  <2>3. task_queue!SumFunction(Debts') = task_queue!SumFunction(Debts) + Debts'[t] - Debts[t]
    BY <2>1, <2>2, SumChange
  <2>. QED
    BY <2>1, <2>2, <2>3
<1>5. ASSUME NEW step
      PROVE  task_queue!CountsAt(step)' =
                 task_queue!CountsAt(step) + CountIn(step, place, q) - CountIn(step, at[t], r[t])
  <2>1. /\ Summable(Counts(step)) /\ Summable(Counts(step)')
        /\ task_queue!CountsAt(step) = task_queue!SumFunction(Counts(step))
        /\ task_queue!CountsAt(step)' = task_queue!SumFunction(Counts(step)')
    BY <1>3 DEF SumsGood
  <2>2. /\ DOMAIN (Counts(step)') = DOMAIN Counts(step)
        /\ t \in DOMAIN Counts(step)
        /\ Counts(step)'[t] = CountIn(step, place, q) /\ Counts(step)[t] = CountIn(step, at[t], r[t])
        /\ \A u \in DOMAIN Counts(step) \ {t} : Counts(step)'[u] = Counts(step)[u]
    BY <1>1, <1>2 DEF Counts, CountIn
  <2>3. task_queue!SumFunction(Counts(step)') =
            task_queue!SumFunction(Counts(step)) + Counts(step)'[t] - Counts(step)[t]
    BY <2>1, <2>2, SumChange
  <2>. QED
    BY <2>1, <2>2, <2>3
<1>6. task_queue!Sleepers' = task_queue!Sleepers + Asleep(place) - Asleep(at[t])
  <2> DEFINE S == {u \in Threads : at[u] \in Sleeping}
             S1 == {u \in Threads : at'[u] \in Sleeping}
  <2>1. task_queue!Sleepers = Cardinality(S) /\ task_queue!Sleepers' = Cardinality(S1)
    BY DEF task_queue!Sleepers, task_queue!In, Sleeping, task_queue!Cardinality, Cardinality
  <2>2. IsFiniteSet(S)
    BY Finiteness, FS_Subset
  <2>3. S1 = IF place \in Sleeping THEN S \cup {t} ELSE S \ {t}
    BY <1>1, <1>2
  <2>4. t \in S <=> at[t] \in Sleeping
    OBVIOUS
  <2> HIDE DEF S, S1
  <2>5. Cardinality(S) \in Nat
    BY <2>2, FS_CardinalityType
  <2>6. /\ Cardinality(S \cup {t}) = IF t \in S THEN Cardinality(S) ELSE Cardinality(S) + 1
        /\ Cardinality(S \ {t}) = IF t \in S THEN Cardinality(S) - 1 ELSE Cardinality(S)
    BY <2>2, FS_AddElement, FS_RemoveElement
  <2>7. Cardinality(S1) = Cardinality(S) + Asleep(place) - Asleep(at[t])
    BY <2>3, <2>4, <2>5, <2>6 DEF Asleep
  <2>. QED
    BY <2>1, <2>7
<1>. QED
  BY <1>4, <1>5, <1>6

LEMMA ElementsMove ==
    ASSUME QueueInv, QueueInv', NEW p \in Producers, NEW q \in Seq(Items),
           inner' = [inner EXCEPT ![p] = q]
    PROVE  task_queue!Elements' = task_queue!Elements + Len(q) - Len(inner[p])
<1>1. SumsGood /\ SumsGood'
  BY SumsTyped, PTL
<1>2. inner \in [Producers -> Seq(Items)]
  BY DEF QueueInv
<1>3. /\ Summable(Lengths) /\ Summable(Lengths')
      /\ task_queue!Elements = task_queue!SumFunction(Lengths)
      /\ task_queue!Elements' = task_queue!SumFunction(Lengths')
  BY <1>1 DEF SumsGood
<1>4. /\ DOMAIN (Lengths') = DOMAIN Lengths
      /\ p \in DOMAIN Lengths
      /\ Lengths'[p] = Len(q) /\ Lengths[p] = Len(inner[p])
      /\ \A u \in DOMAIN Lengths \ {p} : Lengths'[u] = Lengths[u]
  BY <1>2 DEF Lengths
<1>5. task_queue!SumFunction(Lengths') = task_queue!SumFunction(Lengths) + Lengths'[p] - Lengths[p]
  BY <1>3, <1>4, SumChange
<1>. QED
  BY <1>3, <1>4, <1>5

(* What thread t owes: a step balances the token counter against it, and   *)
(* the posts against the sleepers.                                         *)
Weight(place, q) == Asleep(place) + q.owed + CountIn("signal", place, q)
Missing(n) == IF n < 0 THEN -n ELSE 0
Posts(place, q) == CountIn("post", place, q) - Asleep(place)

LEMMA Move ==
    ASSUME QueueInv, NEW t \in Threads, NEW place \in Places, NEW q \in Registers,
           Fits(place, q), task_queue!Goto(t, place, q),
           inner' \in [Producers -> Seq(Items)], m_count' \in Int, m_sema' \in Nat
    PROVE  QueueInv'
BY DEF QueueInv, task_queue!Goto

LEMMA PostsMove ==
    ASSUME NEW m \in Int, NEW n \in Int, NEW u \in Int, NEW v \in Int, NEW short \in Int,
           NEW shorter \in Int, NEW p \in Int, NEW s \in Int, NEW b \in Int, NEW z \in Int,
           n + u + shorter = m + v + short,
           b - z = p - s + u - v,
           p - s = - m - short
    PROVE  n + b = z - shorter
OBVIOUS

LEMMA Balance ==
    ASSUME QueueInv, QueueInv', Covered, NEW t \in Threads, NEW place \in Places, NEW q \in Registers,
           task_queue!Goto(t, place, q),
           task_queue!Elements' - m_count' - Weight(place, q)
               = task_queue!Elements - m_count - Weight(at[t], r[t]),
           m_sema' + Posts(place, q) + Missing(m_count')
               = m_sema + Posts(at[t], r[t]) + Missing(m_count)
    PROVE  Covered'
<1>1. NumbersGood /\ NumbersGood'
  BY NumbersTyped, PTL
<1>2. /\ task_queue!Elements \in Int /\ task_queue!Owed \in Int /\ task_queue!Sleepers \in Int
      /\ task_queue!CountsAt("signal") \in Int /\ task_queue!CountsAt("post") \in Int
      /\ task_queue!Elements' \in Int
  BY <1>1 DEF NumbersGood
<1>3. /\ m_count \in Int /\ m_sema \in Int /\ m_count' \in Int /\ m_sema' \in Int
      /\ r[t] \in Registers
  BY DEF QueueInv
<1>4. /\ r[t].owed \in Int /\ r[t].count \in Int /\ q.owed \in Int /\ q.count \in Int
  BY <1>3 DEF Registers
<1>5. /\ CountIn("signal", place, q) \in Int /\ CountIn("signal", at[t], r[t]) \in Int
      /\ CountIn("post", place, q) \in Int /\ CountIn("post", at[t], r[t]) \in Int
      /\ Asleep(place) \in Int /\ Asleep(at[t]) \in Int
      /\ Missing(m_count) \in Int /\ Missing(m_count') \in Int
  BY <1>3, <1>4 DEF CountIn, Asleep, Missing
<1>6. /\ task_queue!Owed' = task_queue!Owed + q.owed - r[t].owed
      /\ task_queue!CountsAt("signal")' = task_queue!CountsAt("signal")
              + CountIn("signal", place, q) - CountIn("signal", at[t], r[t])
      /\ task_queue!CountsAt("post")' = task_queue!CountsAt("post")
              + CountIn("post", place, q) - CountIn("post", at[t], r[t])
      /\ task_queue!Sleepers' = task_queue!Sleepers + Asleep(place) - Asleep(at[t])
  BY SumsMove
<1>7. /\ task_queue!Elements = m_count + task_queue!Sleepers + task_queue!Owed + task_queue!CountsAt("signal")
      /\ m_sema + task_queue!CountsAt("post") = task_queue!Sleepers - Missing(m_count)
  BY DEF Covered, task_queue!TokensCovered, task_queue!PostsCovered, Missing
<1>8. task_queue!Elements' = m_count' + task_queue!Sleepers' + task_queue!Owed' + task_queue!CountsAt("signal")'
  <2>1. task_queue!Elements' - m_count' - (Asleep(place) + q.owed + CountIn("signal", place, q))
          = task_queue!Elements - m_count
                - (Asleep(at[t]) + r[t].owed + CountIn("signal", at[t], r[t]))
    BY DEF Weight
  <2>. QED
    BY <2>1, <1>2, <1>3, <1>4, <1>5, <1>6, <1>7
<1>9. m_sema' + task_queue!CountsAt("post")' = task_queue!Sleepers' - Missing(m_count')
  <2>1. m_sema' + (CountIn("post", place, q) - Asleep(place)) + Missing(m_count')
          = m_sema + (CountIn("post", at[t], r[t]) - Asleep(at[t])) + Missing(m_count)
    BY DEF Posts
  <2>2. task_queue!CountsAt("post")' - task_queue!Sleepers' =
            task_queue!CountsAt("post") - task_queue!Sleepers
            + (CountIn("post", place, q) - Asleep(place)) - (CountIn("post", at[t], r[t]) - Asleep(at[t]))
    BY <1>2, <1>5, <1>6
  <2>3. task_queue!CountsAt("post") - task_queue!Sleepers = - m_sema - Missing(m_count)
    <3>1. m_sema + task_queue!CountsAt("post") = task_queue!Sleepers - Missing(m_count)
      BY <1>7
    <3>2. /\ m_sema \in Int /\ task_queue!CountsAt("post") \in Int
          /\ task_queue!Sleepers \in Int /\ Missing(m_count) \in Int
      BY <1>2, <1>3, <1>5
    <3>. QED
      BY <3>1, <3>2
  <2>4. task_queue!CountsAt("post")' \in Int /\ task_queue!Sleepers' \in Int
    BY <1>1 DEF NumbersGood
  <2>5. /\ CountIn("post", place, q) - Asleep(place) \in Int
        /\ CountIn("post", at[t], r[t]) - Asleep(at[t]) \in Int
        /\ Missing(m_count) \in Int /\ Missing(m_count') \in Int
    BY <1>5
  <2>6. task_queue!CountsAt("post") \in Int /\ task_queue!Sleepers \in Int
    BY <1>2
  <2>. QED
    BY <2>1, <2>2, <2>3, <2>4, <2>5, <2>6, <1>3, PostsMove
<1>. QED
  BY <1>8, <1>9 DEF Covered, task_queue!TokensCovered, task_queue!PostsCovered, Missing

LEMMA SameElements ==
    inner' = inner => task_queue!Elements' = task_queue!Elements
BY DEF task_queue!Elements

LEMMA Awake ==
    ASSUME NEW q, q.owed \in Nat, q.count \in Nat
    PROVE  /\ Posts("idle", q) = 0 /\ Posts("signal", q) = 0 /\ Posts("spin", q) = 0
           /\ Posts("more", q) = 0 /\ Posts("take", q) = 0 /\ Posts("post", q) = q.count
           /\ Posts("asleep", q) = -1 /\ Posts("restore", q) = -1 /\ Posts("trywait", q) = -1
           /\ Weight("idle", q) = q.owed /\ Weight("spin", q) = q.owed /\ Weight("more", q) = q.owed
           /\ Weight("take", q) = q.owed /\ Weight("post", q) = q.owed
           /\ Weight("signal", q) = q.owed + q.count
           /\ Weight("asleep", q) = q.owed + 1 /\ Weight("restore", q) = q.owed + 1
           /\ Weight("trywait", q) = q.owed + 1
<1>1. /\ Asleep("idle") = 0 /\ Asleep("signal") = 0 /\ Asleep("spin") = 0 /\ Asleep("more") = 0
      /\ Asleep("take") = 0 /\ Asleep("post") = 0
      /\ Asleep("asleep") = 1 /\ Asleep("restore") = 1 /\ Asleep("trywait") = 1
  BY DEF Asleep, Sleeping
<1>2. \A place : CountIn("post", place, q) = IF place = "post" THEN q.count ELSE 0
  BY DEF CountIn
<1>3. \A place : CountIn("signal", place, q) = IF place = "signal" THEN q.count ELSE 0
  BY DEF CountIn
<1>4. /\ Posts("idle", q) = 0 /\ Posts("signal", q) = 0 /\ Posts("spin", q) = 0
      /\ Posts("more", q) = 0 /\ Posts("take", q) = 0 /\ Posts("post", q) = q.count
      /\ Posts("asleep", q) = -1 /\ Posts("restore", q) = -1 /\ Posts("trywait", q) = -1
  BY <1>1, <1>2 DEF Posts
<1>5. /\ Weight("idle", q) = q.owed /\ Weight("spin", q) = q.owed /\ Weight("more", q) = q.owed
      /\ Weight("take", q) = q.owed /\ Weight("post", q) = q.owed
      /\ Weight("signal", q) = q.owed + q.count
      /\ Weight("asleep", q) = q.owed + 1 /\ Weight("restore", q) = q.owed + 1
      /\ Weight("trywait", q) = q.owed + 1
  BY <1>1, <1>3 DEF Weight
<1>. QED
  BY <1>4, <1>5

(* The steps that move no elements.                                        *)
LEMMA Steady ==
    ASSUME QueueInv, Covered, NEW t \in Threads, NEW place \in Places, NEW q \in Registers,
           Fits(place, q), task_queue!Goto(t, place, q), inner' = inner,
           m_count' \in Int, m_sema' \in Nat,
           m_count' + Weight(place, q) = m_count + Weight(at[t], r[t]),
           m_sema' + Posts(place, q) + Missing(m_count')
               = m_sema + Posts(at[t], r[t]) + Missing(m_count)
    PROVE  QueueInv' /\ Covered'
<1>1. QueueInv'
  BY Move DEF QueueInv
<1>2. task_queue!Elements' = task_queue!Elements /\ task_queue!Elements \in Int
  BY SameElements, NumbersTyped DEF NumbersGood
<1>3. /\ m_count \in Int /\ Weight(place, q) \in Int /\ Weight(at[t], r[t]) \in Int
  <2>1. m_count \in Int /\ r[t] \in Registers
    BY DEF QueueInv
  <2>2. r[t].owed \in Int /\ r[t].count \in Int /\ q.owed \in Int /\ q.count \in Int
    BY <2>1 DEF Registers
  <2>. QED
    BY <2>1, <2>2 DEF Weight, Asleep, CountIn
<1>4. task_queue!Elements' - m_count' - Weight(place, q)
          = task_queue!Elements - m_count - Weight(at[t], r[t])
  BY <1>2, <1>3
<1>. QED
  BY <1>1, <1>4, Balance

LEMMA SignalKeeps ==
    ASSUME QueueInv, Covered, NEW t \in Threads, task_queue!Signal(t)
    PROVE  QueueInv' /\ Covered'
<1>1. /\ r[t] \in Registers /\ Fits("signal", r[t]) /\ at[t] = "signal"
      /\ m_count \in Int /\ m_sema \in Nat
  BY DEF QueueInv, task_queue!Signal
<1>2. r[t].count \in Nat /\ r[t].count > 0 /\ r[t].owed = 0
  BY <1>1 DEF Fits, Registers
<1>3. PICK n \in Int : n = task_queue!Min({-m_count, r[t].count})
                       /\ n = IF -m_count <= r[t].count THEN -m_count ELSE r[t].count
  BY <1>1, <1>2, MinOfTwo
<1>4. m_count' = m_count + r[t].count /\ inner' = inner /\ m_sema' = m_sema
  BY DEF task_queue!Signal
<1>5. CASE n > 0
  <2>1. task_queue!Goto(t, "post", [task_queue!NoCall EXCEPT !.count = n])
    BY <1>3, <1>5 DEF task_queue!Signal
  <2> DEFINE q == [task_queue!NoCall EXCEPT !.count = n]
  <2>2. q \in Registers /\ Fits("post", q) /\ q.owed = 0 /\ q.count = n
    <3>1. q = [kind |-> "none", max |-> 0, owed |-> 0, got |-> <<>>, count |-> n]
      BY DEF task_queue!NoCall
    <3>2. n \in Nat
      BY <1>3, <1>5
    <3> HIDE DEF q
    <3>. QED
      BY <3>1, <3>2, <1>5 DEF Registers, Fits, Sleeping
  <2>3. "post" \in Places
    BY DEF Places
  <2> HIDE DEF q
  <2>4. m_count' + Weight("post", q) = m_count + Weight(at[t], r[t])
    BY <1>1, <1>2, <1>4, <2>2 DEF Weight, Asleep, Sleeping, CountIn
  <2>5. m_sema' + Posts("post", q) + Missing(m_count')
               = m_sema + Posts(at[t], r[t]) + Missing(m_count)
    BY <1>1, <1>2, <1>3, <1>4, <1>5, <2>2 DEF Posts, Asleep, Sleeping, CountIn, Missing
  <2>. QED
    BY <1>1, <1>2, <1>4, <2>1, <2>2, <2>3, <2>4, <2>5, Steady DEF q
<1>6. CASE ~(n > 0)
  <2>1. task_queue!Goto(t, "idle", task_queue!NoCall)
    BY <1>3, <1>6 DEF task_queue!Signal
  <2>2. Fits("idle", task_queue!NoCall)
    BY NoCallTyped DEF Fits, Sleeping
  <2>3. "idle" \in Places
    BY DEF Places
  <2>4. m_count' + Weight("idle", task_queue!NoCall) = m_count + Weight(at[t], r[t])
    BY <1>1, <1>2, <1>4, NoCallTyped DEF Weight, Asleep, Sleeping, CountIn
  <2>5. m_sema' + Posts("idle", task_queue!NoCall) + Missing(m_count')
               = m_sema + Posts(at[t], r[t]) + Missing(m_count)
    <3>1. Missing(m_count') = 0 /\ Missing(m_count) = 0
      BY <1>1, <1>2, <1>3, <1>4, <1>6 DEF Missing
    <3>2. Posts("idle", task_queue!NoCall) = 0 /\ Posts(at[t], r[t]) = 0
      <4>1. task_queue!NoCall.owed \in Nat /\ task_queue!NoCall.count \in Nat
        BY NoCallTyped
      <4>2. r[t].owed \in Nat
        BY <1>2
      <4>. QED
        BY <1>1, <1>2, <4>1, <4>2, Awake
    <3>. QED
      BY <1>4, <3>1, <3>2
  <2>. QED
    BY <1>1, <1>2, <1>4, <2>1, <2>2, <2>3, <2>4, <2>5, NoCallTyped, Steady
<1>. QED
  BY <1>5, <1>6
(* What the places of a thread say about its registers.                    *)
LEMMA Facts ==
    ASSUME QueueInv, NEW t \in Threads
    PROVE  /\ at[t] \in Places /\ r[t] \in Registers /\ Fits(at[t], r[t])
           /\ r[t].kind \in {"none", "try", "wait", "timed"}
           /\ r[t].max \in Nat /\ r[t].owed \in Nat /\ r[t].count \in Nat
           /\ r[t].got \in Seq(Items) /\ Len(r[t].got) \in Nat
           /\ m_count \in Int /\ m_sema \in Nat
<1>1. /\ at[t] \in Places /\ r[t] \in Registers /\ Fits(at[t], r[t])
      /\ m_count \in Int /\ m_sema \in Nat
  BY DEF QueueInv
<1>2. /\ r[t].kind \in {"none", "try", "wait", "timed"}
      /\ r[t].max \in Nat /\ r[t].owed \in Nat /\ r[t].count \in Nat
      /\ r[t].got \in Seq(Items)
  BY <1>1 DEF Registers
<1>. QED
  BY <1>1, <1>2

LEMMA PlacesKnown ==
    /\ "idle" \in Places /\ "signal" \in Places /\ "post" \in Places /\ "spin" \in Places
    /\ "asleep" \in Places /\ "restore" \in Places /\ "trywait" \in Places
    /\ "more" \in Places /\ "take" \in Places
BY DEF Places

LEMMA IdleFits == Fits("idle", task_queue!NoCall)
BY NoCallTyped DEF Fits, Sleeping

LEMMA OwedChanged ==
    ASSUME NEW q \in Registers, NEW n \in Nat
    PROVE  /\ [q EXCEPT !.owed = n] \in Registers
           /\ [q EXCEPT !.owed = n].owed = n
           /\ [q EXCEPT !.owed = n].kind = q.kind
           /\ [q EXCEPT !.owed = n].max = q.max
           /\ [q EXCEPT !.owed = n].got = q.got
           /\ [q EXCEPT !.owed = n].count = q.count
BY DEF Registers

LEMMA CallIs ==
    ASSUME NEW kind, NEW max
    PROVE  [task_queue!NoCall EXCEPT !.kind = kind, !.max = max]
              = [kind |-> kind, max |-> max, owed |-> 0, got |-> <<>>, count |-> 0]
<1> DEFINE k == [task_queue!NoCall EXCEPT !.kind = kind]
<1>1. k = [kind |-> kind, max |-> 0, owed |-> 0, got |-> <<>>, count |-> 0]
  BY DEF task_queue!NoCall
<1> HIDE DEF k
<1>2. [k EXCEPT !.max = max] = [kind |-> kind, max |-> max, owed |-> 0, got |-> <<>>, count |-> 0]
  BY <1>1
<1>. QED
  BY <1>2 DEF k

LEMMA CallFields ==
    ASSUME NEW kind \in {"none", "try", "wait", "timed"}, NEW max \in Nat, NEW call,
           call = [kind |-> kind, max |-> max, owed |-> 0, got |-> <<>>, count |-> 0]
    PROVE  /\ call \in Registers /\ call.kind = kind /\ call.max = max
           /\ call.owed = 0 /\ call.got = <<>> /\ call.count = 0
BY DEF Registers

(* As many elements as there are and are asked for.                        *)
LEMMA Fewest ==
    ASSUME NEW x \in Int, NEW y \in Int
    PROVE  /\ task_queue!Min({x, y}) \in Int
           /\ task_queue!Min({x, y}) <= x /\ task_queue!Min({x, y}) <= y
           /\ task_queue!Min({x, y}) > 0 <=> x > 0 /\ y > 0
           /\ task_queue!Min({x, y}) >= 0 <=> x >= 0 /\ y >= 0
BY MinOfTwo

LEMMA CountChanged ==
    ASSUME NEW q \in Registers, NEW n \in Nat
    PROVE  /\ [q EXCEPT !.count = n] \in Registers
           /\ [q EXCEPT !.count = n].count = n
           /\ [q EXCEPT !.count = n].kind = q.kind
           /\ [q EXCEPT !.count = n].max = q.max
           /\ [q EXCEPT !.count = n].got = q.got
           /\ [q EXCEPT !.count = n].owed = q.owed
BY DEF Registers

LEMMA PostKeeps ==
    ASSUME QueueInv, Covered, NEW t \in Threads, task_queue!Post(t)
    PROVE  QueueInv' /\ Covered'
<1>1. at[t] = "post" /\ m_sema' = m_sema + 1 /\ m_count' = m_count /\ inner' = inner
  BY DEF task_queue!Post
<1>2. /\ r[t].kind = "none" /\ r[t].max = 0 /\ r[t].count > 0
      /\ r[t].owed + Len(r[t].got) <= r[t].max
  BY <1>1, Facts DEF Fits
<1>3. r[t].owed = 0
  BY <1>2, Facts
<1>4. Weight(at[t], r[t]) = 0 /\ Posts(at[t], r[t]) = r[t].count
  BY <1>1, <1>3, Facts, Awake
<1>5. CASE r[t].count > 1
  <2>1. PICK n \in Nat : n = r[t].count - 1 /\ n > 0
    BY <1>5, Facts
  <2> DEFINE q == [r[t] EXCEPT !.count = n]
  <2>2. task_queue!Goto(t, "post", q)
    BY <1>5, <2>1 DEF task_queue!Post
  <2>3. /\ q \in Registers /\ q.count = n /\ q.owed = 0
        /\ q.kind = "none" /\ q.max = 0 /\ q.got = r[t].got
    BY <1>2, <1>3, CountChanged, Facts
  <2> HIDE DEF q
  <2>4. Fits("post", q)
    BY <1>2, <1>3, <2>1, <2>3 DEF Fits, Sleeping
  <2>5. Weight("post", q) = 0 /\ Posts("post", q) = n
    BY <2>3, Awake
  <2>6. m_count' + Weight("post", q) = m_count + Weight(at[t], r[t])
    BY <1>1, <1>4, <2>5, Facts
  <2>7. m_sema' + Posts("post", q) + Missing(m_count')
           = m_sema + Posts(at[t], r[t]) + Missing(m_count)
    BY <1>1, <1>4, <2>1, <2>5, Facts
  <2>. QED
    BY <1>1, <2>2, <2>3, <2>4, <2>6, <2>7, Facts, PlacesKnown, Steady
<1>6. CASE ~(r[t].count > 1)
  <2>1. r[t].count = 1
    BY <1>2, <1>6, Facts
  <2>2. task_queue!Goto(t, "idle", task_queue!NoCall)
    BY <1>6 DEF task_queue!Post
  <2>3. Weight("idle", task_queue!NoCall) = 0 /\ Posts("idle", task_queue!NoCall) = 0
    BY NoCallTyped, Awake
  <2>4. m_count' + Weight("idle", task_queue!NoCall) = m_count + Weight(at[t], r[t])
    BY <1>1, <1>4, <2>3, Facts
  <2>5. m_sema' + Posts("idle", task_queue!NoCall) + Missing(m_count')
           = m_sema + Posts(at[t], r[t]) + Missing(m_count)
    BY <1>1, <1>4, <2>1, <2>3, Facts
  <2>. QED
    BY <1>1, <2>2, <2>4, <2>5, Facts, PlacesKnown, IdleFits, NoCallTyped, Steady
<1>. QED
  BY <1>5, <1>6

(* Claiming tokens that are there changes nobody's sleep.                  *)
LEMMA ClaimKeeps ==
    ASSUME QueueInv, Covered, NEW t \in Threads, NEW q \in Registers, NEW n \in Nat,
           NEW step \in {"more", "take"},
           task_queue!Claim(t, q, n, step), inner' = inner, m_sema' = m_sema,
           Fits(step, [q EXCEPT !.owed = q.owed + n]),
           n = 0 \/ n <= m_count,
           Weight(at[t], r[t]) = q.owed, Posts(at[t], r[t]) = 0
    PROVE  QueueInv' /\ Covered'
<1>1. PICK k \in Nat : k = q.owed + n
  BY DEF Registers
<1> DEFINE q1 == [q EXCEPT !.owed = k]
<1>2. m_count' = m_count - n /\ task_queue!Goto(t, step, q1)
  BY <1>1 DEF task_queue!Claim
<1>3. q1 \in Registers /\ q1.owed = k /\ q1.count \in Nat
  BY OwedChanged DEF Registers
<1>4. Fits(step, q1)
  BY <1>1
<1> HIDE DEF q1
<1>5. Weight(step, q1) = k /\ Posts(step, q1) = 0
  BY <1>3, Awake
<1>6. m_count' \in Int /\ Missing(m_count') = Missing(m_count)
  BY <1>2, Facts DEF Missing
<1>7. m_count' + Weight(step, q1) = m_count + Weight(at[t], r[t])
  <2>1. q.owed \in Nat
    BY DEF Registers
  <2>. QED
    BY <1>1, <1>2, <1>5, <2>1, Facts
<1>8. m_sema' + Posts(step, q1) + Missing(m_count')
           = m_sema + Posts(at[t], r[t]) + Missing(m_count)
  BY <1>5, <1>6
<1>. QED
  BY <1>2, <1>3, <1>4, <1>6, <1>7, <1>8, Facts, PlacesKnown, Steady

LEMMA SpinKeeps ==
    ASSUME QueueInv, Covered, NEW t \in Threads, task_queue!Spin(t)
    PROVE  QueueInv' /\ Covered'
<1>1. /\ at[t] = "spin" /\ m_count > 0 /\ inner' = inner /\ m_sema' = m_sema
  BY DEF task_queue!Spin
<1>2. /\ r[t].owed = 0 /\ r[t].count = 0 /\ r[t].max > 0 /\ r[t].got = <<>>
  BY <1>1, Facts DEF Fits, Sleeping
<1>3. PICK n \in Nat : /\ n = task_queue!Min({m_count, r[t].max})
                       /\ n > 0 /\ n <= m_count /\ n <= r[t].max
  BY <1>1, <1>2, Facts, MinOfTwo
<1>4. task_queue!Claim(t, r[t], n, "take")
  BY <1>3 DEF task_queue!Spin
<1>5. Fits("take", [r[t] EXCEPT !.owed = r[t].owed + n])
  <2>1. r[t].owed + n = n
    BY <1>2
  <2> DEFINE q == [r[t] EXCEPT !.owed = n]
  <2>2. q.owed = n /\ q.max = r[t].max /\ q.got = <<>> /\ q.count = 0
    BY <1>2, OwedChanged, Facts
  <2> HIDE DEF q
  <2>3. Fits("take", q)
    BY <1>3, <2>2, Facts DEF Fits, Sleeping
  <2>. QED
    BY <2>1, <2>3 DEF q
<1>6. Weight(at[t], r[t]) = r[t].owed /\ Posts(at[t], r[t]) = 0
  BY <1>1, Facts, Awake
<1>. QED
  BY <1>1, <1>3, <1>4, <1>5, <1>6, Facts, ClaimKeeps

LEMMA JoinKeeps ==
    ASSUME QueueInv, Covered, NEW t \in Threads, task_queue!Join(t)
    PROVE  QueueInv' /\ Covered'
<1>1. at[t] = "spin" /\ inner' = inner /\ m_sema' = m_sema
  BY DEF task_queue!Join
<1>2. /\ r[t].owed = 0 /\ r[t].count = 0 /\ r[t].max > 0 /\ r[t].got = <<>>
  BY <1>1, Facts DEF Fits, Sleeping
<1>3. Weight(at[t], r[t]) = 0 /\ Posts(at[t], r[t]) = 0
  BY <1>1, <1>2, Facts, Awake
<1>4. CASE m_count > 0
  <2>1. task_queue!Claim(t, r[t], 1, "more")
    BY <1>4 DEF task_queue!Join
  <2>2. Fits("more", [r[t] EXCEPT !.owed = r[t].owed + 1])
    <3>1. r[t].owed + 1 = 1
      BY <1>2
    <3> DEFINE q == [r[t] EXCEPT !.owed = 1]
    <3>2. q.owed = 1 /\ q.max = r[t].max /\ q.got = <<>> /\ q.count = 0
      BY <1>2, OwedChanged, Facts
    <3> HIDE DEF q
    <3>3. Fits("more", q)
      BY <1>2, <3>2, Facts DEF Fits, Sleeping
    <3>. QED
      BY <3>1, <3>3 DEF q
  <2>3. 1 <= m_count /\ Weight(at[t], r[t]) = r[t].owed
    BY <1>2, <1>3, <1>4, Facts
  <2>4. r[t] \in Registers
    BY Facts
  <2>. QED
    BY <1>1, <1>3, <2>1, <2>2, <2>3, <2>4, ClaimKeeps
<1>5. CASE ~(m_count > 0)
  <2>1. m_count' = m_count - 1 /\ task_queue!Goto(t, "asleep", r[t])
    BY <1>5 DEF task_queue!Join
  <2>2. Fits("asleep", r[t])
    BY <1>2, Facts DEF Fits, Sleeping
  <2>3. Weight("asleep", r[t]) = 1 /\ Posts("asleep", r[t]) = -1
    BY <1>2, Facts, Awake
  <2>4. Missing(m_count') = Missing(m_count) + 1 /\ Missing(m_count) \in Int /\ m_count' \in Int
    BY <1>5, <2>1, Facts DEF Missing
  <2>5. m_count' + Weight("asleep", r[t]) = m_count + Weight(at[t], r[t])
    BY <1>3, <2>1, <2>3, Facts
  <2>6. m_sema' + Posts("asleep", r[t]) + Missing(m_count')
           = m_sema + Posts(at[t], r[t]) + Missing(m_count)
    BY <1>1, <1>3, <2>3, <2>4, Facts
  <2>. QED
    BY <1>1, <2>1, <2>2, <2>4, <2>5, <2>6, Facts, PlacesKnown, Steady
<1>. QED
  BY <1>4, <1>5

(* A thread that sleeps, or is about to go, takes a post.                  *)
LEMMA AwakeKeeps ==
    ASSUME QueueInv, Covered, NEW t \in Threads, at[t] \in {"asleep", "trywait"}, m_sema > 0,
           task_queue!Awake(t)
    PROVE  QueueInv' /\ Covered'
<1>1. m_sema' = m_sema - 1 /\ inner' = inner /\ m_count' = m_count
  BY DEF task_queue!Awake
<1>2. r[t].owed = 0 /\ r[t].count = 0 /\ r[t].max > 0 /\ r[t].got = <<>>
  BY Facts DEF Fits, Sleeping
<1> DEFINE q == [r[t] EXCEPT !.owed = 1]
<1>3. task_queue!Goto(t, "more", q)
  BY DEF task_queue!Awake
<1>4. q \in Registers /\ q.owed = 1 /\ q.max = r[t].max /\ q.got = <<>> /\ q.count = 0
  <2>1. r[t] \in Registers
    BY Facts
  <2>2. /\ q \in Registers /\ q.owed = 1 /\ q.max = r[t].max
        /\ q.got = r[t].got /\ q.count = r[t].count
    BY <2>1, OwedChanged
  <2> HIDE DEF q
  <2>. QED
    BY <1>2, <2>2
<1> HIDE DEF q
<1>5. Fits("more", q)
  BY <1>2, <1>4, Facts DEF Fits, Sleeping
<1>6. Weight(at[t], r[t]) = 1 /\ Posts(at[t], r[t]) = -1
  BY <1>2, Facts, Awake
<1>7. Weight("more", q) = 1 /\ Posts("more", q) = 0
  BY <1>4, Awake
<1>8. m_count' + Weight("more", q) = m_count + Weight(at[t], r[t])
  BY <1>1, <1>6, <1>7
<1>9. m_sema' + Posts("more", q) + Missing(m_count')
         = m_sema + Posts(at[t], r[t]) + Missing(m_count)
  BY <1>1, <1>6, <1>7, Facts
<1>10. m_sema' \in Nat
  BY <1>1, Facts
<1>. QED
  BY <1>1, <1>3, <1>4, <1>5, <1>8, <1>9, <1>10, Facts, PlacesKnown, Steady

(* Steps of a thread whose time is up that change nothing but its place.   *)
LEMMA TurnKeeps ==
    ASSUME QueueInv, Covered, NEW t \in Threads, at[t] \in Sleeping, NEW place \in Sleeping,
           task_queue!Goto(t, place, r[t]), UNCHANGED <<inner, m_count, m_sema>>
    PROVE  QueueInv' /\ Covered'
<1>1. r[t].owed = 0 /\ r[t].count = 0 /\ r[t].max > 0 /\ r[t].got = <<>>
  BY Facts DEF Fits, Sleeping
<1>2. Fits(place, r[t])
  BY <1>1, Facts DEF Fits, Sleeping
<1>3. Weight(at[t], r[t]) = 1 /\ Posts(at[t], r[t]) = -1
  BY <1>1, Facts, Awake DEF Sleeping
<1>4. Weight(place, r[t]) = 1 /\ Posts(place, r[t]) = -1
  BY <1>1, Facts, Awake DEF Sleeping
<1>5. place \in Places
  BY DEF Places, Sleeping
<1>6. /\ m_count' + Weight(place, r[t]) = m_count + Weight(at[t], r[t])
      /\ m_sema' + Posts(place, r[t]) + Missing(m_count')
           = m_sema + Posts(at[t], r[t]) + Missing(m_count)
  BY <1>3, <1>4
<1>. QED
  BY <1>2, <1>5, <1>6, Facts, Steady

LEMMA RestoreKeeps ==
    ASSUME QueueInv, Covered, NEW t \in Threads, task_queue!Restore(t)
    PROVE  QueueInv' /\ Covered'
<1>1. at[t] = "restore" /\ inner' = inner /\ m_sema' = m_sema
  BY DEF task_queue!Restore
<1>2. CASE m_count < 0
  <2>1. m_count' = m_count + 1 /\ task_queue!Goto(t, "idle", r[t])
    BY <1>2 DEF task_queue!Restore
  <2>2. r[t].owed = 0 /\ r[t].count = 0 /\ r[t].got = <<>>
    BY <1>1, Facts DEF Fits, Sleeping
  <2>3. Fits("idle", r[t])
    BY <2>2, Facts DEF Fits, Sleeping
  <2>4. /\ Weight(at[t], r[t]) = 1 /\ Posts(at[t], r[t]) = -1
        /\ Weight("idle", r[t]) = 0 /\ Posts("idle", r[t]) = 0
    BY <1>1, <2>2, Facts, Awake
  <2>5. Missing(m_count') = Missing(m_count) - 1 /\ Missing(m_count) \in Int /\ m_count' \in Int
    BY <1>2, <2>1, Facts DEF Missing
  <2>6. m_count' + Weight("idle", r[t]) = m_count + Weight(at[t], r[t])
    BY <2>1, <2>4, Facts
  <2>7. m_sema' + Posts("idle", r[t]) + Missing(m_count')
           = m_sema + Posts(at[t], r[t]) + Missing(m_count)
    BY <1>1, <2>4, <2>5, Facts
  <2>. QED
    BY <1>1, <2>1, <2>3, <2>5, <2>6, <2>7, Facts, PlacesKnown, Steady
<1>3. CASE ~(m_count < 0)
  <2>1. m_count' = m_count /\ task_queue!Goto(t, "trywait", r[t])
    BY <1>3 DEF task_queue!Restore
  <2>2. at[t] \in Sleeping /\ "trywait" \in Sleeping
    BY <1>1 DEF Sleeping
  <2>. QED
    BY <1>1, <2>1, <2>2, TurnKeeps
<1>. QED
  BY <1>2, <1>3

LEMMA TryWaitMoreKeeps ==
    ASSUME QueueInv, Covered, NEW t \in Threads, task_queue!TryWaitMore(t)
    PROVE  QueueInv' /\ Covered'
<1>1. at[t] = "more" /\ inner' = inner /\ m_sema' = m_sema
  BY DEF task_queue!TryWaitMore
<1>2. r[t].owed = 1 /\ r[t].count = 0 /\ r[t].max > 0 /\ r[t].got = <<>>
  BY <1>1, Facts DEF Fits, Sleeping
<1>3. PICK n \in Nat : /\ n = IF m_count > 0 THEN task_queue!Min({m_count, r[t].max - 1}) ELSE 0
                       /\ n = 0 \/ n <= m_count
                       /\ n <= r[t].max - 1
  BY <1>2, Facts, MinOfTwo
<1>4. task_queue!Claim(t, r[t], n, "take")
  BY <1>3 DEF task_queue!TryWaitMore
<1>5. Fits("take", [r[t] EXCEPT !.owed = r[t].owed + n])
  <2>1. r[t].owed + n = n + 1 /\ n + 1 \in Nat
    BY <1>2
  <2> DEFINE q == [r[t] EXCEPT !.owed = n + 1]
  <2>2. q.owed = n + 1 /\ q.max = r[t].max /\ q.got = <<>> /\ q.count = 0
    BY <1>2, <2>1, OwedChanged, Facts
  <2> HIDE DEF q
  <2>3. Fits("take", q)
    BY <1>3, <2>2, Facts DEF Fits, Sleeping
  <2>. QED
    BY <2>1, <2>3 DEF q
<1>6. Weight(at[t], r[t]) = r[t].owed /\ Posts(at[t], r[t]) = 0
  BY <1>1, Facts, Awake
<1>. QED
  BY <1>1, <1>3, <1>4, <1>5, <1>6, Facts, ClaimKeeps

(* Taking the first n elements of a sequence.                              *)
LEMMA Cut ==
    ASSUME NEW S, NEW s \in Seq(S), NEW n \in Nat, n <= Len(s)
    PROVE  /\ SubSeq(s, n + 1, Len(s)) \in Seq(S) /\ Len(SubSeq(s, n + 1, Len(s))) = Len(s) - n
           /\ SubSeq(s, 1, n) \in Seq(S) /\ Len(SubSeq(s, 1, n)) = n
<1>1. Len(s) \in Nat
  OBVIOUS
<1>2. SubSeq(s, 1, n) \in Seq(S) /\ Len(SubSeq(s, 1, n)) = n
  BY <1>1
<1>3. SubSeq(s, n + 1, Len(s)) \in Seq(S) /\ Len(SubSeq(s, n + 1, Len(s))) = Len(s) - n
  BY <1>1
<1>. QED
  BY <1>2, <1>3

LEMMA TakeKeeps ==
    ASSUME QueueInv, Covered, NEW t \in Threads, task_queue!Take(t)
    PROVE  QueueInv' /\ Covered'
<1>1. at[t] = "take" /\ m_count' = m_count /\ m_sema' = m_sema
  BY DEF task_queue!Take
<1>2. r[t].owed > 0 /\ r[t].count = 0 /\ r[t].owed + Len(r[t].got) <= r[t].max
  BY <1>1, Facts DEF Fits
<1>3. PICK p \in Producers :
         LET n == task_queue!Min({r[t].owed, Len(inner[p])}) IN
         /\ n > 0
         /\ inner' = [inner EXCEPT ![p] = SubSeq(@, n + 1, Len(@))]
         /\ task_queue!Goto(t, IF n = r[t].owed THEN "idle" ELSE "take",
                 [r[t] EXCEPT !.owed = @ - n, !.got = @ \o SubSeq(inner[p], 1, n)])
  BY DEF task_queue!Take
<1>4. inner[p] \in Seq(Items) /\ Len(inner[p]) \in Nat
  BY DEF QueueInv
<1>5. PICK n \in Nat : /\ n = task_queue!Min({r[t].owed, Len(inner[p])})
                       /\ n > 0 /\ n <= r[t].owed /\ n <= Len(inner[p])
  <2> DEFINE k == task_queue!Min({r[t].owed, Len(inner[p])})
  <2>1. r[t].owed \in Int /\ Len(inner[p]) \in Int
    BY <1>4, Facts
  <2>2. k \in Int /\ k <= r[t].owed /\ k <= Len(inner[p])
    BY <2>1, Fewest
  <2>3. k > 0
    BY <1>3
  <2> HIDE DEF k
  <2>4. k \in Nat
    BY <2>2, <2>3
  <2>. QED
    BY <2>2, <2>3, <2>4 DEF k
<1> DEFINE rest == SubSeq(inner[p], n + 1, Len(inner[p]))
           got == r[t].got \o SubSeq(inner[p], 1, n)
           place == IF n = r[t].owed THEN "idle" ELSE "take"
           q == [r[t] EXCEPT !.owed = r[t].owed - n, !.got = got]
<1>6. inner' = [inner EXCEPT ![p] = rest] /\ task_queue!Goto(t, place, q)
  BY <1>3, <1>5
<1>7. rest \in Seq(Items) /\ Len(rest) = Len(inner[p]) - n
  BY <1>4, <1>5, Cut
<1>8. got \in Seq(Items) /\ Len(got) = Len(r[t].got) + n
  <2>1. SubSeq(inner[p], 1, n) \in Seq(Items) /\ Len(SubSeq(inner[p], 1, n)) = n
    BY <1>4, <1>5, Cut
  <2>2. r[t].got \in Seq(Items)
    BY Facts
  <2> DEFINE v == SubSeq(inner[p], 1, n)
  <2>3. v \in Seq(Items) /\ Len(v) = n
    BY <2>1
  <2> HIDE DEF v
  <2>4. r[t].got \o v \in Seq(Items) /\ Len(r[t].got \o v) = Len(r[t].got) + n
    BY <2>2, <2>3, ConcatProperties
  <2>. QED
    BY <2>4 DEF v
<1>9. r[t].owed - n \in Nat
  BY <1>5, Facts
<1>10. /\ q \in Registers /\ q.owed = r[t].owed - n /\ q.got = got
       /\ q.max = r[t].max /\ q.count = 0
  <2> DEFINE m == r[t].owed - n
  <2> HIDE DEF got, m
  <2>1. r[t] \in Registers /\ m \in Nat
    BY <1>9, Facts DEF m
  <2>2. q = [r[t] EXCEPT !.owed = m, !.got = got]
    BY DEF m
  <2> HIDE DEF q
  <2>3. /\ q \in Registers /\ q.owed = m /\ q.got = got
        /\ q.max = r[t].max /\ q.count = r[t].count
    BY <1>8, <2>1, <2>2 DEF Registers
  <2>. QED
    BY <1>2, <2>3 DEF m
<1>11. place \in Places /\ place \in {"idle", "take"} /\ (place = "idle" <=> n = r[t].owed)
  BY PlacesKnown
<1> HIDE DEF rest, got, place, q
<1>12. Fits(place, q)
  <2>1. q.owed + Len(q.got) <= q.max
    BY <1>2, <1>5, <1>8, <1>10, Facts
  <2>2. place = "idle" => q.owed = 0
    BY <1>10, <1>11, Facts
  <2>3. place = "take" => q.owed > 0
    BY <1>5, <1>10, <1>11, Facts
  <2>. QED
    BY <1>10, <1>11, <2>1, <2>2, <2>3 DEF Fits, Sleeping
<1>13. inner' \in [Producers -> Seq(Items)]
  BY <1>6, <1>7 DEF QueueInv
<1>14. QueueInv'
  BY <1>1, <1>6, <1>10, <1>11, <1>12, <1>13, Facts, Move
<1>15. task_queue!Elements' = task_queue!Elements - n
  <2>1. task_queue!Elements' = task_queue!Elements + Len(rest) - Len(inner[p])
    BY <1>6, <1>7, <1>14, ElementsMove
  <2>2. task_queue!Elements \in Int
    BY NumbersTyped DEF NumbersGood
  <2>. QED
    BY <1>4, <1>7, <2>1, <2>2
<1>16. /\ Weight(at[t], r[t]) = r[t].owed /\ Posts(at[t], r[t]) = 0
       /\ Weight(place, q) = r[t].owed - n /\ Posts(place, q) = 0
  <2>1. /\ r[t].owed \in Nat /\ r[t].count \in Nat /\ q.owed \in Nat /\ q.count \in Nat
        /\ q.owed = r[t].owed - n
    BY <1>9, <1>10, Facts
  <2>2. Weight(at[t], r[t]) = r[t].owed /\ Posts(at[t], r[t]) = 0
    BY <1>1, <2>1, Awake
  <2>3. Weight(place, q) = q.owed /\ Posts(place, q) = 0
    BY <1>11, <2>1, Awake
  <2>. QED
    BY <2>1, <2>2, <2>3
<1>17. task_queue!Elements' - m_count' - Weight(place, q)
           = task_queue!Elements - m_count - Weight(at[t], r[t])
  <2>1. task_queue!Elements \in Int
    BY NumbersTyped DEF NumbersGood
  <2>. QED
    BY <1>1, <1>15, <1>16, <2>1, Facts
<1>18. m_sema' + Posts(place, q) + Missing(m_count')
           = m_sema + Posts(at[t], r[t]) + Missing(m_count)
  BY <1>1, <1>16
<1>. QED
  BY <1>6, <1>10, <1>11, <1>14, <1>17, <1>18, Balance

LEMMA StepKeeps ==
    ASSUME QueueInv, Covered, NEW t \in Threads, task_queue!Step(t)
    PROVE  QueueInv' /\ Covered'
<1>1. CASE task_queue!Signal(t)
  BY <1>1, SignalKeeps
<1>2. CASE task_queue!Post(t)
  BY <1>2, PostKeeps
<1>3. CASE task_queue!Spin(t)
  BY <1>3, SpinKeeps
<1>4. CASE task_queue!Join(t)
  BY <1>4, JoinKeeps
<1>5. CASE task_queue!Wake(t)
  BY <1>5, AwakeKeeps DEF task_queue!Wake
<1>6. CASE task_queue!TimeOut(t)
  <2>1. /\ at[t] \in Sleeping /\ "restore" \in Sleeping
        /\ task_queue!Goto(t, "restore", r[t]) /\ UNCHANGED <<inner, m_count, m_sema>>
    BY <1>6 DEF task_queue!TimeOut, Sleeping
  <2>. QED
    BY <2>1, TurnKeeps
<1>7. CASE task_queue!Restore(t)
  BY <1>7, RestoreKeeps
<1>8. CASE task_queue!TryWait(t)
  <2>1. CASE m_sema > 0 /\ task_queue!Awake(t)
    <3>1. at[t] \in {"asleep", "trywait"}
      BY <1>8 DEF task_queue!TryWait
    <3>. QED
      BY <2>1, <3>1, AwakeKeeps
  <2>2. CASE task_queue!Goto(t, "restore", r[t]) /\ UNCHANGED <<inner, m_count, m_sema>>
    <3>1. at[t] \in Sleeping /\ "restore" \in Sleeping
      BY <1>8 DEF task_queue!TryWait, Sleeping
    <3>. QED
      BY <2>2, <3>1, TurnKeeps
  <2>. QED
    BY <1>8, <2>1, <2>2 DEF task_queue!TryWait
<1>9. CASE task_queue!TryWaitMore(t)
  BY <1>9, TryWaitMoreKeeps
<1>10. CASE task_queue!Take(t)
  BY <1>10, TakeKeeps
<1>. QED
  BY <1>1, <1>2, <1>3, <1>4, <1>5, <1>6, <1>7, <1>8, <1>9, <1>10 DEF task_queue!Step

LEMMA TryWaitManyKeeps ==
    ASSUME QueueInv, Covered, NEW t \in Threads,
           NEW kind \in {"try", "wait", "timed"}, NEW max \in Nat \ {0},
           task_queue!TryWaitMany(t, kind, max)
    PROVE  QueueInv' /\ Covered'
<1> DEFINE call == [task_queue!NoCall EXCEPT !.kind = kind, !.max = max]
<1>2. /\ call \in Registers /\ call.kind = kind /\ call.max = max /\ call.owed = 0
      /\ call.got = <<>> /\ call.count = 0
  <2>1. call = [kind |-> kind, max |-> max, owed |-> 0, got |-> <<>>, count |-> 0]
    BY CallIs
  <2> HIDE DEF call
  <2>. QED
    BY <2>1, CallFields
<1>3. /\ at[t] = "idle" /\ r[t] = task_queue!NoCall /\ inner' = inner /\ m_sema' = m_sema
      /\ IF m_count > 0
         THEN task_queue!Claim(t, call, task_queue!Min({m_count, max}), "take")
         ELSE /\ task_queue!Goto(t, IF kind = "try" THEN "idle" ELSE "spin", call)
              /\ UNCHANGED m_count
  BY DEF task_queue!TryWaitMany
<1> HIDE DEF call
<1>4. Weight(at[t], r[t]) = 0 /\ Posts(at[t], r[t]) = 0
  BY <1>3, NoCallTyped, Awake
<1>5. CASE m_count > 0
  <2>1. PICK n \in Nat : n = task_queue!Min({m_count, max}) /\ n > 0 /\ n <= m_count /\ n <= max
    BY <1>5, Facts, MinOfTwo
  <2>2. Fits("take", [call EXCEPT !.owed = call.owed + n])
    <3>1. call.owed + n = n
      BY <1>2
    <3> DEFINE q == [call EXCEPT !.owed = n]
    <3>2. q.owed = n /\ q.max = max /\ q.got = <<>> /\ q.count = 0
      BY <1>2, OwedChanged
    <3> HIDE DEF q
    <3>3. Fits("take", q)
      BY <2>1, <3>2 DEF Fits, Sleeping
    <3>. QED
      BY <3>1, <3>3 DEF q
  <2>3. task_queue!Claim(t, call, n, "take")
    BY <1>3, <1>5, <2>1
  <2>. QED
    BY <1>2, <1>3, <1>4, <2>1, <2>2, <2>3, ClaimKeeps
<1>6. CASE ~(m_count > 0)
  <2>1. PICK place \in {"idle", "spin"} : task_queue!Goto(t, place, call) /\ m_count' = m_count
    BY <1>3, <1>6
  <2>2. Fits(place, call)
    BY <1>2 DEF Fits, Sleeping
  <2>3. Weight(place, call) = 0 /\ Posts(place, call) = 0
    BY <1>2, Awake
  <2>4. /\ m_count' + Weight(place, call) = m_count + Weight(at[t], r[t])
        /\ m_sema' + Posts(place, call) + Missing(m_count')
             = m_sema + Posts(at[t], r[t]) + Missing(m_count)
    BY <1>3, <1>4, <2>1, <2>3
  <2>. QED
    BY <1>2, <1>3, <2>1, <2>2, <2>4, Facts, PlacesKnown, Steady
<1>. QED
  BY <1>5, <1>6

LEMMA EnqueueKeeps ==
    ASSUME QueueInv, Covered, NEW t \in Threads, NEW p \in Producers,
           NEW items \in Seq(Items), Len(items) > 0, task_queue!Enqueue(t, p, items)
    PROVE  QueueInv' /\ Covered'
<1>1. PICK n \in Nat : n = Len(items) /\ n > 0
  OBVIOUS
<1> DEFINE q == [task_queue!NoCall EXCEPT !.count = n]
           s == inner[p] \o items
<1>2. /\ at[t] = "idle" /\ r[t] = task_queue!NoCall
      /\ inner' = [inner EXCEPT ![p] = s] /\ task_queue!Goto(t, "signal", q)
      /\ m_count' = m_count /\ m_sema' = m_sema
  BY <1>1 DEF task_queue!Enqueue, task_queue!Put
<1>3. q \in Registers /\ q.count = n /\ q.kind = "none" /\ q.max = 0 /\ q.got = <<>> /\ q.owed = 0
  BY CountChanged, NoCallTyped
<1>4. inner[p] \in Seq(Items) /\ Len(inner[p]) \in Nat
  BY DEF QueueInv
<1>5. s \in Seq(Items) /\ Len(s) = Len(inner[p]) + n
  BY <1>1, <1>4
<1> HIDE DEF q, s
<1>6. Fits("signal", q)
  BY <1>1, <1>3 DEF Fits, Sleeping
<1>7. inner' \in [Producers -> Seq(Items)]
  BY <1>2, <1>5 DEF QueueInv
<1>8. QueueInv'
  BY <1>2, <1>3, <1>6, <1>7, Facts, PlacesKnown, Move
<1>9. task_queue!Elements' = task_queue!Elements + n /\ task_queue!Elements \in Int
  <2>1. task_queue!Elements' = task_queue!Elements + Len(s) - Len(inner[p])
    BY <1>2, <1>5, <1>8, ElementsMove
  <2>2. task_queue!Elements \in Int
    BY NumbersTyped DEF NumbersGood
  <2>. QED
    BY <1>4, <1>5, <2>1, <2>2
<1>10. /\ Weight(at[t], r[t]) = 0 /\ Posts(at[t], r[t]) = 0
       /\ Weight("signal", q) = n /\ Posts("signal", q) = 0
  BY <1>2, <1>3, NoCallTyped, Awake
<1>11. task_queue!Elements' - m_count' - Weight("signal", q)
           = task_queue!Elements - m_count - Weight(at[t], r[t])
  BY <1>2, <1>9, <1>10, Facts
<1>12. m_sema' + Posts("signal", q) + Missing(m_count')
           = m_sema + Posts(at[t], r[t]) + Missing(m_count)
  BY <1>2, <1>10
<1>. QED
  BY <1>2, <1>3, <1>8, <1>11, <1>12, PlacesKnown, Balance

LEMMA CollectKeeps ==
    ASSUME QueueInv, Covered, NEW t \in Threads, task_queue!Collect(t),
           UNCHANGED <<inner, m_count, m_sema, at>>
    PROVE  QueueInv' /\ Covered'
<1>1. at[t] = "idle" /\ r' = [r EXCEPT ![t] = task_queue!NoCall]
  BY DEF task_queue!Collect
<1>2. task_queue!Goto(t, "idle", task_queue!NoCall)
  BY <1>1 DEF task_queue!Goto, QueueInv
<1>3. r[t].owed = 0
  BY <1>1, Facts DEF Fits
<1>4. /\ Weight(at[t], r[t]) = 0 /\ Posts(at[t], r[t]) = 0
      /\ Weight("idle", task_queue!NoCall) = 0 /\ Posts("idle", task_queue!NoCall) = 0
  BY <1>1, <1>3, Facts, NoCallTyped, Awake
<1>. QED
  BY <1>2, <1>4, Facts, PlacesKnown, IdleFits, NoCallTyped, Steady
-----------------------------------------------------------------------------
(* What QueueSound says follows.                                           *)
LEMMA ExactAtRest ==
    ASSUME QueueInv, Covered
    PROVE  task_queue!ApproxExact
<1> SUFFICES ASSUME \A t \in Threads : at[t] \in {"idle", "asleep"}, m_sema = 0
             PROVE  task_queue!availableApprox = task_queue!Elements
  BY DEF task_queue!ApproxExact
<1>1. SumsGood /\ NumbersGood
  BY SumsTyped, NumbersTyped
<1>2. \A t \in Threads : r[t].owed = 0
  <2>1. TAKE t \in Threads
  <2>2. Fits(at[t], r[t]) /\ at[t] \in Sleeping \cup {"idle", "spin"}
    BY Facts DEF Sleeping
  <2>. QED
    BY <2>2 DEF Fits
<1>3. task_queue!Owed = 0
  <2>1. Summable(Debts) /\ task_queue!Owed = task_queue!SumFunction(Debts)
    BY <1>1 DEF SumsGood
  <2>2. \A t \in DOMAIN Debts : Debts[t] = 0
    BY <1>2 DEF Debts
  <2>. QED
    BY <2>1, <2>2, SumOfZeros
<1>4. ASSUME NEW step \in {"signal", "post"} PROVE task_queue!CountsAt(step) = 0
  <2>1. Summable(Counts(step)) /\ task_queue!CountsAt(step) = task_queue!SumFunction(Counts(step))
    BY <1>1 DEF SumsGood
  <2>2. \A t \in DOMAIN Counts(step) : Counts(step)[t] = 0
    BY DEF Counts
  <2>. QED
    BY <2>1, <2>2, SumOfZeros
<1>5. /\ task_queue!Elements = m_count + task_queue!Sleepers + task_queue!Owed + task_queue!CountsAt("signal")
      /\ m_sema + task_queue!CountsAt("post") = task_queue!Sleepers - Missing(m_count)
  BY DEF Covered, task_queue!TokensCovered, task_queue!PostsCovered, Missing
<1>6. m_count \in Int /\ Missing(m_count) \in Int /\ task_queue!Sleepers \in Int
  BY <1>1 DEF QueueInv, Missing, NumbersGood
<1>7. task_queue!CountsAt("signal") = 0 /\ task_queue!CountsAt("post") = 0
  BY <1>4
<1>8. task_queue!Sleepers = Missing(m_count)
  BY <1>5, <1>6, <1>7
<1>9. task_queue!Elements = m_count + Missing(m_count)
  BY <1>3, <1>5, <1>6, <1>7, <1>8
<1>. QED
  BY <1>6, <1>9 DEF Missing, task_queue!availableApprox

LEMMA SoundQueue ==
    ASSUME QueueInv, Covered
    PROVE  task_queue!QueueSound
<1>1. task_queue!TypeOK
  BY Facts DEF task_queue!TypeOK, Fits, Places, QueueInv
<1>. QED
  BY <1>1, ExactAtRest DEF task_queue!QueueSound, Covered

-----------------------------------------------------------------------------
(* What the calls do with the elements.                                    *)
LEMMA NoCallOnly ==
    ASSUME QueueInv, NEW t \in Threads, at[t] = "idle", r[t].kind = "none", r[t].max = 0
    PROVE  r[t] = task_queue!NoCall
<1>1. r[t].owed = 0 /\ r[t].count = 0 /\ Len(r[t].got) = 0
  <2>1. /\ Fits(at[t], r[t]) /\ at[t] \in Sleeping \cup {"idle", "spin"}
        /\ at[t] \notin {"signal", "post"}
    BY Facts
  <2>2. r[t].owed = 0 /\ r[t].count = 0 /\ r[t].owed + Len(r[t].got) <= r[t].max
    BY <2>1 DEF Fits
  <2>. QED
    BY <2>2, Facts
<1>2. r[t].got = <<>>
  BY <1>1, Facts
<1>3. r[t] = [kind |-> r[t].kind, max |-> r[t].max, owed |-> r[t].owed, got |-> r[t].got,
              count |-> r[t].count]
  BY Facts DEF Registers
<1>. QED
  BY <1>1, <1>2, <1>3 DEF task_queue!NoCall

(* A step of thread t leaves what others have; t may take from one         *)
(* producer.                                                               *)
Taken(t, p, n) ==
    /\ n > 0 /\ n <= r[t].owed /\ n <= Len(inner[p])
    /\ inner' = [inner EXCEPT ![p] = SubSeq(inner[p], n + 1, Len(inner[p]))]
    /\ r'[t].got = r[t].got \o SubSeq(inner[p], 1, n)

SameCall(t) == r'[t].kind = r[t].kind /\ r'[t].max = r[t].max

LEMMA StepEffect ==
    ASSUME QueueInv, NEW t \in Threads, task_queue!Step(t)
    PROVE  /\ \A u \in Threads : SameCall(u)
           /\ \A u \in Threads \ {t} : r'[u].got = r[u].got
           /\ \/ inner' = inner /\ r'[t].got = r[t].got
              \/ \E p \in Producers, n \in Nat : Taken(t, p, n)
<1>0. r \in [Threads -> Registers]
  BY DEF QueueInv
<1>1. ASSUME NEW q, NEW place, task_queue!Goto(t, place, q), q.kind = r[t].kind, q.max = r[t].max
      PROVE  /\ \A u \in Threads : SameCall(u)
             /\ \A u \in Threads \ {t} : r'[u].got = r[u].got
             /\ r'[t] = q
  BY <1>0, <1>1 DEF task_queue!Goto, SameCall
<1>2. CASE task_queue!Signal(t) \/ task_queue!Post(t)
  <2>1. /\ r[t].kind = "none" /\ r[t].max = 0 /\ r[t].got = <<>>
    <3>1. at[t] \in {"signal", "post"}
      BY <1>2 DEF task_queue!Signal, task_queue!Post
    <3>2. r[t].kind = "none" /\ r[t].max = 0 /\ r[t].owed + Len(r[t].got) <= 0
      BY <3>1, Facts DEF Fits
    <3>3. Len(r[t].got) = 0
      BY <3>2, Facts
    <3>. QED
      BY <3>2, <3>3, Facts
  <2>2. PICK q \in Registers, place \in Places : /\ task_queue!Goto(t, place, q) /\ inner' = inner
                                      /\ q.kind = "none" /\ q.max = 0 /\ q.got = <<>>
    <3>1. CASE task_queue!Signal(t)
      <4>1. CASE task_queue!Min({-m_count, r[t].count}) > 0
        <5>1. PICK n \in Nat : n = task_queue!Min({-m_count, r[t].count})
          <6>1. task_queue!Min({-m_count, r[t].count}) \in Int
            <7>1. -m_count \in Int /\ r[t].count \in Int
              BY Facts
            <7>. QED
              BY <7>1, Fewest
          <6>. QED
            BY <4>1, <6>1
        <5> DEFINE q == [task_queue!NoCall EXCEPT !.count = n]
        <5>2. task_queue!Goto(t, "post", q) /\ inner' = inner
          BY <3>1, <4>1, <5>1 DEF task_queue!Signal
        <5>3. q \in Registers /\ q.kind = "none" /\ q.max = 0 /\ q.got = <<>>
          BY CountChanged, NoCallTyped
        <5>. HIDE DEF q
        <5>. QED
          BY <5>2, <5>3, PlacesKnown
      <4>2. CASE ~(task_queue!Min({-m_count, r[t].count}) > 0)
        <5>1. task_queue!Goto(t, "idle", task_queue!NoCall) /\ inner' = inner
          BY <3>1, <4>2 DEF task_queue!Signal
        <5>. QED
          BY <5>1, NoCallTyped, PlacesKnown
      <4>. QED
        BY <4>1, <4>2
    <3>2. CASE task_queue!Post(t)
      <4>1. CASE r[t].count > 1
        <5>1. PICK n \in Nat : n = r[t].count - 1
          BY <4>1, Facts
        <5>2. task_queue!Goto(t, "post", [r[t] EXCEPT !.count = n]) /\ inner' = inner
          BY <3>2, <4>1, <5>1 DEF task_queue!Post
        <5> DEFINE q == [r[t] EXCEPT !.count = n]
        <5>3. r[t] \in Registers
          BY Facts
        <5>4. /\ q \in Registers /\ q.kind = r[t].kind /\ q.max = r[t].max
              /\ q.got = r[t].got
          BY <5>3, CountChanged
        <5>5. task_queue!Goto(t, "post", q) /\ inner' = inner
          BY <5>2
        <5> HIDE DEF q
        <5>. QED
          BY <2>1, <5>4, <5>5, PlacesKnown
      <4>2. CASE ~(r[t].count > 1)
        <5>1. task_queue!Goto(t, "idle", task_queue!NoCall) /\ inner' = inner
          BY <3>2, <4>2 DEF task_queue!Post
        <5>. QED
          BY <5>1, NoCallTyped, PlacesKnown
      <4>. QED
        BY <4>1, <4>2
    <3>. QED
      BY <1>2, <3>1, <3>2
  <2>. QED
    BY <1>1, <2>1, <2>2
<1>3. CASE task_queue!Wake(t) \/ (task_queue!TryWait(t) /\ task_queue!Awake(t))
  <2> DEFINE q == [r[t] EXCEPT !.owed = 1]
  <2>1. task_queue!Goto(t, "more", q) /\ inner' = inner
    BY <1>3 DEF task_queue!Wake, task_queue!Awake
  <2>2. q.kind = r[t].kind /\ q.max = r[t].max /\ q.got = r[t].got
    BY OwedChanged, Facts
  <2>. HIDE DEF q
  <2>. QED
    BY <1>1, <2>1, <2>2
<1>4. CASE \E n \in Nat, place \in Places : task_queue!Claim(t, r[t], n, place) /\ inner' = inner
  <2>1. PICK n \in Nat, place \in Places : task_queue!Claim(t, r[t], n, place) /\ inner' = inner
    BY <1>4
  <2>2. PICK m \in Nat : m = r[t].owed + n
    BY Facts
  <2> DEFINE q == [r[t] EXCEPT !.owed = m]
  <2>3. task_queue!Goto(t, place, q)
    BY <2>1, <2>2 DEF task_queue!Claim
  <2>4. q.kind = r[t].kind /\ q.max = r[t].max /\ q.got = r[t].got
    BY OwedChanged, Facts
  <2>. HIDE DEF q
  <2>. QED
    BY <1>1, <2>1, <2>3, <2>4
<1>5. CASE \E place : task_queue!Goto(t, place, r[t]) /\ inner' = inner
  BY <1>1, <1>5
<1>6. CASE task_queue!Spin(t)
  <2>1. at[t] = "spin" /\ m_count > 0
    BY <1>6 DEF task_queue!Spin
  <2>2. r[t].max > 0
    BY <2>1, Facts DEF Fits
  <2>3. task_queue!Min({m_count, r[t].max}) \in Nat
    <3>1. m_count \in Int /\ r[t].max \in Int
      BY Facts
    <3>2. /\ task_queue!Min({m_count, r[t].max}) \in Int
          /\ task_queue!Min({m_count, r[t].max}) > 0
      BY <2>1, <2>2, <3>1, Fewest
    <3>. QED
      BY <3>2
  <2>4. /\ task_queue!Claim(t, r[t], task_queue!Min({m_count, r[t].max}), "take")
        /\ inner' = inner
    BY <1>6 DEF task_queue!Spin
  <2>. QED
    BY <1>4, <2>3, <2>4, PlacesKnown
<1>7. CASE task_queue!Join(t)
  <2>1. \/ task_queue!Claim(t, r[t], 1, "more") /\ inner' = inner
        \/ task_queue!Goto(t, "asleep", r[t]) /\ inner' = inner
    BY <1>7 DEF task_queue!Join
  <2>. QED
    BY <1>4, <1>5, <2>1, PlacesKnown
<1>8. CASE task_queue!TimeOut(t) \/ task_queue!Restore(t)
  BY <1>5, <1>8 DEF task_queue!TimeOut, task_queue!Restore
<1>9. CASE task_queue!TryWait(t)
  BY <1>3, <1>5, <1>9 DEF task_queue!TryWait
<1>10. CASE task_queue!TryWaitMore(t)
  <2> DEFINE n == IF m_count > 0 THEN task_queue!Min({m_count, r[t].max - 1}) ELSE 0
  <2>1. at[t] = "more"
    BY <1>10 DEF task_queue!TryWaitMore
  <2>2. r[t].max > 0
    BY <2>1, Facts DEF Fits
  <2>3. n \in Nat
    <3>1. m_count \in Int /\ r[t].max - 1 \in Int /\ r[t].max - 1 >= 0
      BY <2>2, Facts
    <3>2. CASE m_count > 0
      <4>1. /\ task_queue!Min({m_count, r[t].max - 1}) \in Int
            /\ task_queue!Min({m_count, r[t].max - 1}) >= 0
        <5>1. m_count >= 0 /\ m_count \in Int /\ r[t].max - 1 \in Int /\ r[t].max - 1 >= 0
          BY <3>1, <3>2
        <5> HIDE DEF n
        <5>. QED
          BY <5>1, Fewest
      <4>. QED
        BY <3>2, <4>1
    <3>3. CASE ~(m_count > 0)
      BY <3>3
    <3>. QED
      BY <3>2, <3>3
  <2>4. task_queue!Claim(t, r[t], n, "take") /\ inner' = inner
    BY <1>10 DEF task_queue!TryWaitMore
  <2> HIDE DEF n
  <2>. QED
    BY <1>4, <2>3, <2>4, PlacesKnown
<1>11. CASE task_queue!Take(t)
  <2>1. PICK p \in Producers :
           LET n == task_queue!Min({r[t].owed, Len(inner[p])}) IN
           /\ n > 0
           /\ inner' = [inner EXCEPT ![p] = SubSeq(@, n + 1, Len(@))]
           /\ task_queue!Goto(t, IF n = r[t].owed THEN "idle" ELSE "take",
                   [r[t] EXCEPT !.owed = @ - n, !.got = @ \o SubSeq(inner[p], 1, n)])
    BY <1>11 DEF task_queue!Take
  <2>2. inner \in [Producers -> Seq(Items)] /\ inner[p] \in Seq(Items) /\ Len(inner[p]) \in Nat
    BY DEF QueueInv
  <2>3. PICK n \in Nat : /\ n = task_queue!Min({r[t].owed, Len(inner[p])})
                         /\ n > 0 /\ n <= r[t].owed /\ n <= Len(inner[p])
    <3> DEFINE k == task_queue!Min({r[t].owed, Len(inner[p])})
    <3>1. r[t].owed \in Int /\ Len(inner[p]) \in Int
      BY <2>2, Facts
    <3>2. k \in Int /\ k <= r[t].owed /\ k <= Len(inner[p])
      BY <3>1, Fewest
    <3>3. k > 0
      BY <2>1
    <3> HIDE DEF k
    <3>4. k \in Nat
      BY <3>2, <3>3
    <3>. QED
      BY <3>2, <3>3, <3>4 DEF k
  <2> DEFINE got == r[t].got \o SubSeq(inner[p], 1, n)
             q == [r[t] EXCEPT !.owed = r[t].owed - n, !.got = got]
  <2>4. PICK place \in Places : task_queue!Goto(t, place, q)
    BY <2>1, <2>3, PlacesKnown
  <2>5. r[t].owed - n \in Nat
    BY <2>3, Facts
  <2>6. got \in Seq(Items)
    <3>1. SubSeq(inner[p], 1, n) \in Seq(Items)
      BY <2>2, <2>3, Cut
    <3>2. r[t].got \in Seq(Items)
      BY Facts
    <3>. QED
      BY <3>1, <3>2
  <2>7. q.kind = r[t].kind /\ q.max = r[t].max /\ q.got = got
    <3> DEFINE m == r[t].owed - n
    <3> HIDE DEF got, m
    <3>1. r[t] \in Registers /\ m \in Nat
      BY <2>5, Facts DEF m
    <3>2. q = [r[t] EXCEPT !.owed = m, !.got = got]
      BY DEF m
    <3> HIDE DEF q
    <3>3. q.kind = r[t].kind /\ q.max = r[t].max /\ q.got = got
      BY <2>6, <3>1, <3>2 DEF Registers
    <3>. QED
      BY <3>3
  <2>8. r'[t].got = got
    <3> HIDE DEF q, got
    <3>. QED
      BY <1>1, <2>4, <2>7
  <2>9. inner' = [inner EXCEPT ![p] = SubSeq(inner[p], n + 1, Len(inner[p]))]
    BY <2>1, <2>3
  <2>10. Taken(t, p, n)
    BY <2>3, <2>8, <2>9 DEF Taken
  <2>11. /\ \A u \in Threads : SameCall(u)
         /\ \A u \in Threads \ {t} : r'[u].got = r[u].got
    <3> HIDE DEF q
    <3>. QED
      BY <1>1, <2>4, <2>7
  <2>. QED
    BY <2>10, <2>11
<1>. QED
  BY <1>2, <1>3, <1>6, <1>7, <1>8, <1>9, <1>10, <1>11 DEF task_queue!Step
-----------------------------------------------------------------------------
(* The pool.                                                               *)
Known == submitted \cup {Exit}

Stores(S) ==
    /\ \A p \in Producers : inner[p] \in Seq(S)
    /\ \A t \in Threads : r[t].got \in Seq(S)

Stored ==
    /\ Stores(Known)
    /\ \A w \in Workers : task[w] \in Known

Counted ==
    /\ phase = "open" => exits = 0
    /\ phase = "terminal" => exits < Cardinality(Workers)

Waits ==
    /\ blocking => Covered /\ ~flag
    /\ ~blocking => \A t \in Threads : at[t] = "idle" /\ r[t] = task_queue!NoCall

Base == TypeOK /\ QueueInv /\ Stored /\ Counted /\ Waits

LEMMA BaseSound == Base => PoolSound
BY SoundQueue DEF Base, Waits, PoolSound

LEMMA WorkersCounted == Cardinality(Workers) \in Nat \ {0}
<1>1. Cardinality(Workers) \in Nat /\ Cardinality(Workers) # 0
  BY ThreadPoolAssumption, FS_CardinalityType, FS_EmptySet
<1>. QED
  BY <1>1

LEMMA WiderSeq ==
    ASSUME NEW S, NEW T, S \subseteq T, NEW s \in Seq(S)
    PROVE  s \in Seq(T)
OBVIOUS

LEMMA KnownItems == TypeOK => Known \subseteq Items
BY DEF TypeOK, Known, Items

LEMMA InitBase == Init => Base
<1> SUFFICES ASSUME Init PROVE Base
  OBVIOUS
<1>1. /\ inner = [p \in Producers |-> <<>>] /\ m_count = 0 /\ m_sema = 0
      /\ at = [t \in Threads |-> "idle"] /\ r = [t \in Threads |-> task_queue!NoCall]
  BY DEF Init, task_queue!Init
<1>2. QueueInv
  <2>1. \A t \in Threads : Fits(at[t], r[t])
    BY <1>1, IdleFits
  <2>2. inner \in [Producers -> Seq(Items)]
    BY <1>1
  <2>3. r \in [Threads -> Registers] /\ at \in [Threads -> Places]
    BY <1>1, NoCallTyped, PlacesKnown
  <2>. QED
    BY <1>1, <2>1, <2>2, <2>3 DEF QueueInv
<1>3. TypeOK
  <2>1. 0 \in 0 .. Cardinality(Workers)
    BY WorkersCounted
  <2>2. /\ pc = [w \in Workers |-> "check"] /\ task = [w \in Workers |-> Exit]
        /\ blocking \in BOOLEAN /\ flag = FALSE /\ phase = "open" /\ exits = 0
        /\ submitted = {} /\ done = {}
    BY DEF Init
  <2>3. /\ pc \in [Workers -> {"check", "token", "plain", "wait", "run", "exited"}]
        /\ task \in [Workers -> Tasks \cup {Exit}]
    BY <2>2
  <2>. QED
    BY <2>1, <2>2, <2>3 DEF TypeOK
<1>4. Stored
  <2>1. \A p \in Producers : inner[p] \in Seq(Known)
    BY <1>1
  <2>2. \A t \in Threads : r[t].got \in Seq(Known)
    <3>1. \A t \in Threads : r[t].got = <<>>
      BY <1>1, NoCallTyped
    <3>2. <<>> \in Seq(Known)
      OBVIOUS
    <3>. QED
      BY <3>1, <3>2
  <2>3. \A w \in Workers : task[w] \in Known
    BY DEF Init, Known
  <2>. QED
    BY <2>1, <2>2, <2>3 DEF Stored, Stores
<1>5. Counted
  BY DEF Init, Counted
<1>6. Covered
  <2>1. SumsGood
    BY <1>2, SumsTyped
  <2>2. task_queue!Elements = 0
    <3>1. Summable(Lengths) /\ task_queue!Elements = task_queue!SumFunction(Lengths)
      BY <2>1 DEF SumsGood
    <3>2. \A p \in DOMAIN Lengths : Lengths[p] = 0
      BY <1>1 DEF Lengths
    <3>. QED
      BY <3>1, <3>2, SumOfZeros
  <2>3. task_queue!Owed = 0
    <3>1. Summable(Debts) /\ task_queue!Owed = task_queue!SumFunction(Debts)
      BY <2>1 DEF SumsGood
    <3>2. \A t \in DOMAIN Debts : Debts[t] = 0
      BY <1>1, NoCallTyped DEF Debts
    <3>. QED
      BY <3>1, <3>2, SumOfZeros
  <2>4. ASSUME NEW step PROVE task_queue!CountsAt(step) = 0
    <3>1. Summable(Counts(step)) /\ task_queue!CountsAt(step) = task_queue!SumFunction(Counts(step))
      BY <2>1 DEF SumsGood
    <3>2. \A t \in DOMAIN Counts(step) : Counts(step)[t] = 0
      BY <1>1, NoCallTyped DEF Counts
    <3>. QED
      BY <3>1, <3>2, SumOfZeros
  <2>5. task_queue!Sleepers = 0
    <3>1. {t \in Threads : at[t] \in Sleeping} = {}
      BY <1>1 DEF Sleeping
    <3>2. task_queue!Sleepers = Cardinality({t \in Threads : at[t] \in Sleeping})
      BY DEF task_queue!Sleepers, task_queue!In, Sleeping, task_queue!Cardinality, Cardinality
    <3>. QED
      BY <3>1, <3>2, FS_EmptySet
  <2>6. task_queue!CountsAt("signal") = 0 /\ task_queue!CountsAt("post") = 0
    BY <2>4
  <2>. QED
    BY <1>1, <2>2, <2>3, <2>5, <2>6 DEF Covered, task_queue!TokensCovered, task_queue!PostsCovered
<1>7. Waits
  BY <1>1, <1>6 DEF Init, Waits
<1>. QED
  BY <1>2, <1>3, <1>4, <1>5, <1>7 DEF Base

(* The queue's own steps.                                                  *)
LEMMA StepStores ==
    ASSUME QueueInv, NEW S, Stores(S), NEW t \in Threads, task_queue!Step(t)
    PROVE  Stores(S)'
<1>1. inner \in [Producers -> Seq(Items)]
  BY DEF QueueInv
<1>2. \A u \in Threads \ {t} : r'[u].got \in Seq(S)
  BY StepEffect DEF Stores
<1>3. CASE inner' = inner /\ r'[t].got = r[t].got
  BY <1>2, <1>3 DEF Stores
<1>4. CASE \E p \in Producers, n \in Nat : Taken(t, p, n)
  <2>1. PICK p \in Producers, n \in Nat : Taken(t, p, n)
    BY <1>4
  <2>2. inner[p] \in Seq(S) /\ r[t].got \in Seq(S)
    BY DEF Stores
  <2>3. SubSeq(inner[p], n + 1, Len(inner[p])) \in Seq(S) /\ SubSeq(inner[p], 1, n) \in Seq(S)
    BY <2>1, <2>2, Cut DEF Taken
  <2>4. r'[t].got \in Seq(S)
    <3> DEFINE s == SubSeq(inner[p], 1, n)
    <3>1. s \in Seq(S) /\ r'[t].got = r[t].got \o s
      BY <2>1, <2>3 DEF Taken
    <3> HIDE DEF s
    <3>. QED
      BY <2>2, <3>1
  <2>5. \A o \in Producers : inner'[o] \in Seq(S)
    <3> DEFINE s == SubSeq(inner[p], n + 1, Len(inner[p]))
    <3>1. s \in Seq(S) /\ inner' = [inner EXCEPT ![p] = s]
      BY <2>1, <2>3 DEF Taken
    <3> HIDE DEF s
    <3>. QED
      BY <1>1, <3>1 DEF Stores
  <2>. QED
    BY <1>2, <2>4, <2>5 DEF Stores
<1>. QED
  BY <1>3, <1>4, StepEffect

LEMMA IdleStays ==
    ASSUME NEW t, at[t] = "idle" PROVE ~task_queue!Step(t)
BY DEF task_queue!Step, task_queue!Signal, task_queue!Post, task_queue!Spin, task_queue!Join,
       task_queue!Wake, task_queue!TimeOut, task_queue!Restore, task_queue!TryWait,
       task_queue!TryWaitMore, task_queue!Take

LEMMA StepBase ==
    ASSUME Base, NEW t \in Threads, task_queue!Step(t),
           UNCHANGED <<pool, worker, client, submitted, done>>
    PROVE  Base'
<1>1. QueueInv /\ TypeOK /\ Stored /\ Counted /\ Waits
  BY DEF Base
<1>2. blocking
  BY <1>1, IdleStays DEF Waits
<1>3. QueueInv' /\ Covered'
  BY <1>1, <1>2, StepKeeps DEF Waits
<1>4. TypeOK' /\ Counted'
  BY <1>1 DEF TypeOK, Counted, pool, worker, client
<1>5. Known' = Known
  BY DEF Known
<1>6. Stores(Known)'
  <2>1. PICK S : S = Known
    OBVIOUS
  <2>2. Stores(S)
    BY <1>1, <2>1 DEF Stored, Stores
  <2>3. Stores(S)'
    BY <1>1, <2>2, StepStores
  <2>. QED
    BY <1>5, <2>1, <2>3 DEF Stores
<1>7. Stored'
  BY <1>1, <1>5, <1>6 DEF Stored, worker
<1>8. Waits'
  BY <1>1, <1>2, <1>3 DEF Waits, pool
<1>. QED
  BY <1>3, <1>4, <1>7, <1>8 DEF Base

(* Handing an item to the queue, in either pool.                           *)
LEMMA EnqueueEffect ==
    ASSUME QueueInv, Waits, NEW t \in Threads, NEW p \in Producers, NEW item \in Items,
           Enqueue(t, p, item), UNCHANGED pool
    PROVE  /\ QueueInv' /\ Waits'
           /\ inner' = [inner EXCEPT ![p] = inner[p] \o <<item>>]
           /\ \A u \in Threads : SameCall(u) /\ r'[u].got = r[u].got
<1>1. CASE blocking
  <2>1. task_queue!Enqueue(t, p, <<item>>) /\ Covered /\ ~flag /\ blocking' /\ ~flag'
    BY <1>1 DEF Enqueue, Waits, pool
  <2>2. <<item>> \in Seq(Items) /\ Len(<<item>>) > 0
    OBVIOUS
  <2>3. QueueInv' /\ Covered'
    BY <2>1, <2>2, EnqueueKeeps
  <2>4. /\ inner' = [inner EXCEPT ![p] = inner[p] \o <<item>>]
        /\ r[t] = task_queue!NoCall
        /\ r' = [r EXCEPT ![t] = [task_queue!NoCall EXCEPT !.count = Len(<<item>>)]]
    BY <2>1 DEF task_queue!Enqueue, task_queue!Put, task_queue!Goto
  <2>5. \A u \in Threads : SameCall(u) /\ r'[u].got = r[u].got
    <3>1. r \in [Threads -> Registers]
      BY DEF QueueInv
    <3> DEFINE q == [task_queue!NoCall EXCEPT !.count = Len(<<item>>)]
    <3>2. q.kind = "none" /\ q.max = 0 /\ q.got = <<>>
      <4>1. Len(<<item>>) \in Nat
        OBVIOUS
      <4>. QED
        BY <4>1, CountChanged, NoCallTyped
    <3> HIDE DEF q
    <3>3. r' = [r EXCEPT ![t] = q]
      BY <2>4 DEF q
    <3>. QED
      BY <2>4, <3>1, <3>2, <3>3, NoCallTyped DEF SameCall
  <2>. QED
    BY <2>1, <2>3, <2>4, <2>5 DEF Waits
<1>2. CASE ~blocking
  <2>1. inner' = [inner EXCEPT ![p] = inner[p] \o <<item>>] /\ UNCHANGED <<m_count, m_sema, at, r>>
    BY <1>2 DEF Enqueue, task_queue!Put
  <2>2. inner[p] \o <<item>> \in Seq(Items)
    BY DEF QueueInv
  <2>3. QueueInv'
    <3> DEFINE s == inner[p] \o <<item>>
    <3>1. inner' = [inner EXCEPT ![p] = s] /\ s \in Seq(Items)
      BY <2>1, <2>2
    <3> HIDE DEF s
    <3>. QED
      BY <2>1, <3>1 DEF QueueInv
  <2>4. Waits'
    BY <1>2, <2>1 DEF Waits, pool
  <2>. QED
    BY <2>1, <2>3, <2>4 DEF SameCall
<1>. QED
  BY <1>1, <1>2

LEMMA EnqueueBase ==
    ASSUME Base, NEW t \in Threads, NEW p \in Producers, NEW item \in Items,
           Enqueue(t, p, item), UNCHANGED <<pool, worker, done>>,
           submitted \subseteq submitted', item \in Known',
           submitted' \subseteq Tasks, Counted', 
           phase' \in {"open", "terminal", "terminated", "destroying", "destroyed"},
           exits' \in 0 .. Cardinality(Workers)
    PROVE  Base'
<1>1. QueueInv /\ TypeOK /\ Stored /\ Waits
  BY DEF Base
<1>2. /\ QueueInv' /\ Waits'
      /\ inner' = [inner EXCEPT ![p] = inner[p] \o <<item>>]
      /\ \A u \in Threads : r'[u].got = r[u].got
  BY <1>1, EnqueueEffect
<1>3. TypeOK'
  BY <1>1 DEF TypeOK, pool, worker
<1>4. Known \subseteq Known'
  BY DEF Known
<1>5. Stored'
  <2> DEFINE K == Known'
  <2>1. /\ \A o \in Producers : inner[o] \in Seq(K)
        /\ \A u \in Threads : r[u].got \in Seq(K)
        /\ \A w \in Workers : task[w] \in K
    BY <1>1, <1>4, WiderSeq DEF Stored, Stores
  <2>2. item \in K
    OBVIOUS
  <2> HIDE DEF K
  <2>3. \A o \in Producers : inner'[o] \in Seq(K)
    <3> DEFINE s == inner[p] \o <<item>>
    <3>1. s \in Seq(K) /\ inner' = [inner EXCEPT ![p] = s]
      BY <1>2, <2>1, <2>2
    <3>2. inner \in [Producers -> Seq(Items)]
      BY <1>1 DEF QueueInv
    <3> HIDE DEF s
    <3>. QED
      BY <2>1, <3>1, <3>2
  <2>. QED
    BY <1>2, <2>1, <2>3 DEF Stored, Stores, K, worker
<1>. QED
  BY <1>2, <1>3, <1>5 DEF Base

(* Starting a call; looking at what it brought.                            *)
LEMMA CallEffect ==
    ASSUME QueueInv, NEW t \in Threads, NEW kind, NEW max,
           task_queue!TryWaitMany(t, kind, max)
    PROVE  /\ inner' = inner
           /\ \A u \in Threads : r'[u].got = r[u].got
           /\ \A u \in Threads \ {t} : SameCall(u)
           /\ r'[t].kind = kind /\ r'[t].max = max
<1> DEFINE call == [task_queue!NoCall EXCEPT !.kind = kind, !.max = max]
           n == task_queue!Min({m_count, max})
           claim == [call EXCEPT !.owed = call.owed + n]
<1>1. inner' = inner /\ r[t] = task_queue!NoCall
  BY DEF task_queue!TryWaitMany
<1>2. r' = [r EXCEPT ![t] = call] \/ r' = [r EXCEPT ![t] = claim]
  BY DEF task_queue!TryWaitMany, task_queue!Claim, task_queue!Goto
<1>3. /\ call.kind = kind /\ call.max = max /\ call.got = <<>>
      /\ claim.kind = kind /\ claim.max = max /\ claim.got = <<>>
  <2> HIDE DEF n
  <2>. QED
    BY DEF task_queue!NoCall
<1> HIDE DEF call, n, claim
<1>4. r \in [Threads -> Registers]
  BY DEF QueueInv
<1>. QED
  BY <1>1, <1>2, <1>3, <1>4, NoCallTyped DEF SameCall

LEMMA CallBase ==
    ASSUME Base, blocking, NEW t \in Threads,
           NEW kind \in {"try", "wait", "timed"}, NEW max \in Nat \ {0},
           task_queue!TryWaitMany(t, kind, max),
           UNCHANGED <<pool, worker, client, submitted, done>>
    PROVE  Base'
<1>1. QueueInv /\ TypeOK /\ Stored /\ Counted /\ Waits
  BY DEF Base
<1>2. QueueInv' /\ Covered'
  BY <1>1, TryWaitManyKeeps DEF Waits
<1>3. inner' = inner /\ \A u \in Threads : r'[u].got = r[u].got
  BY <1>1, CallEffect
<1>4. TypeOK' /\ Counted'
  BY <1>1 DEF TypeOK, Counted, pool, worker, client
<1>5. Stored'
  BY <1>1, <1>3 DEF Stored, Stores, Known, worker
<1>6. Waits'
  BY <1>1, <1>2 DEF Waits, pool
<1>. QED
  BY <1>2, <1>4, <1>5, <1>6 DEF Base

LEMMA CollectEffect ==
    ASSUME QueueInv, NEW t \in Threads, task_queue!Collect(t)
    PROVE  /\ r'[t] = task_queue!NoCall
           /\ \A u \in Threads \ {t} : r'[u] = r[u]
BY DEF task_queue!Collect, QueueInv

LEMMA CollectBase ==
    ASSUME Base, NEW t \in Threads, task_queue!Collect(t),
           UNCHANGED <<inner, m_count, m_sema, at>>,
           UNCHANGED <<pool, client, submitted, done>>,
           pc' \in [Workers -> {"check", "token", "plain", "wait", "run", "exited"}],
           task' \in [Workers -> Tasks \cup {Exit}],
           \A w \in Workers : task'[w] \in Known
    PROVE  Base'
<1>1. QueueInv /\ TypeOK /\ Stored /\ Counted /\ Waits
  BY DEF Base
<1>2. blocking
  BY <1>1 DEF Waits, task_queue!Collect
<1>3. QueueInv' /\ Covered'
  BY <1>1, <1>2, CollectKeeps DEF Waits
<1>4. TypeOK' /\ Counted'
  BY <1>1 DEF TypeOK, Counted, pool, client
<1>5. Stored'
  <2>1. \A u \in Threads : r'[u].got \in Seq(Known)
    <3>1. r'[t].got = <<>> /\ \A u \in Threads \ {t} : r'[u].got = r[u].got
      BY <1>1, CollectEffect, NoCallTyped
    <3>2. <<>> \in Seq(Known)
      OBVIOUS
    <3>3. \A u \in Threads : r[u].got \in Seq(Known)
      BY <1>1 DEF Stored, Stores
    <3>. QED
      BY <3>1, <3>2, <3>3
  <2>. QED
    BY <1>1, <2>1 DEF Stored, Stores, Known
<1>6. Waits'
  BY <1>1, <1>2, <1>3 DEF Waits, pool
<1>. QED
  BY <1>3, <1>4, <1>5, <1>6 DEF Base

(* Steps that leave the queue alone.                                       *)
LEMMA QuietBase ==
    ASSUME Base, UNCHANGED <<queue, submitted, blocking, task>>, TypeOK', Counted',
           blocking => ~flag'
    PROVE  Base'
<1>1. QueueInv /\ Stored /\ Waits
  BY DEF Base
<1>2. QueueInv'
  BY <1>1 DEF QueueInv, queue
<1>3. Stored'
  BY <1>1 DEF Stored, Stores, Known, queue
<1>4. Covered => Covered'
  BY DEF Covered, queue, task_queue!TokensCovered, task_queue!PostsCovered, task_queue!Elements,
         task_queue!Owed, task_queue!CountsAt, task_queue!Sleepers, task_queue!In
<1>5. Waits'
  BY <1>1, <1>4 DEF Waits, queue
<1>. QED
  BY <1>2, <1>3, <1>5 DEF Base

LEMMA PhaseBase ==
    ASSUME Base, destroy \/ join
    PROVE  Base'
<1>1. TypeOK
  BY DEF Base
<1>2. UNCHANGED <<queue, submitted, blocking, task>> /\ (blocking => ~flag')
  <2>1. UNCHANGED <<queue, submitted, blocking, task>>
    BY DEF destroy, join, worker, pool
  <2>2. CASE destroy
    BY <2>1, <2>2 DEF destroy
  <2>3. CASE join
    <3>1. flag' = flag /\ (blocking => ~flag)
      BY <2>3 DEF join, pool, Base, Waits
    <3>. QED
      BY <2>1, <3>1
  <2>. QED
    BY <2>1, <2>2, <2>3
<1>3. TypeOK'
  BY <1>1 DEF TypeOK, destroy, join, worker, pool
<1>4. Counted'
  BY DEF destroy, join, Counted
<1>. QED
  BY <1>2, <1>3, <1>4, QuietBase

LEMMA ClientBase ==
    ASSUME Base, \/ \E c1 \in Clients, k \in Tasks : submit(c1, k)
                 \/ terminal
    PROVE  Base'
<1>0. TypeOK /\ Counted
  BY DEF Base
<1>1. ASSUME NEW c1 \in Clients, NEW k \in Tasks, submit(c1, k) PROVE Base'
  <2>1. /\ submitted' = submitted \cup {k} /\ Enqueue(c1, c1, k)
        /\ UNCHANGED <<pool, worker, client, done>>
    BY <1>1 DEF submit
  <2>2. c1 \in Threads /\ c1 \in Producers /\ k \in Items /\ k \in Known'
    BY <2>1 DEF Threads, Producers, Items, Known
  <2>3. Counted' /\ phase' = phase /\ exits' = exits
    BY <1>0, <2>1 DEF Counted, client
  <2>4. submitted \subseteq submitted' /\ submitted' \subseteq Tasks
    BY <1>0, <2>1 DEF TypeOK
  <2>. QED
    BY <1>0, <2>1, <2>2, <2>3, <2>4, EnqueueBase DEF TypeOK
<1>2. CASE terminal
  <2>1. /\ exits' = exits + 1 /\ Enqueue(Owner, Owner, Exit)
        /\ phase' = IF exits' = Cardinality(Workers) THEN "terminated" ELSE "terminal"
        /\ UNCHANGED <<pool, worker, submitted, done>>
    BY <1>2 DEF terminal
  <2>2. Owner \in Threads /\ Owner \in Producers /\ Exit \in Items /\ Exit \in Known'
    BY ThreadPoolAssumption DEF Threads, Producers, Items, Known
  <2>3. exits < Cardinality(Workers) /\ exits \in Nat
    <3>1. phase \in {"open", "terminal"}
      BY <1>2 DEF terminal
    <3>. QED
      BY <1>0, <3>1, WorkersCounted DEF Counted, TypeOK
  <2>4. exits' \in 0 .. Cardinality(Workers) /\ Counted'
    BY <2>1, <2>3, WorkersCounted DEF Counted
  <2>5. phase' \in {"open", "terminal", "terminated", "destroying", "destroyed"}
    BY <2>1
  <2>6. submitted \subseteq submitted' /\ submitted' \subseteq Tasks
    BY <1>0, <2>1 DEF TypeOK
  <2>. QED
    BY <2>1, <2>2, <2>4, <2>5, <2>6, EnqueueBase
<1>. QED
  BY <1>1, <1>2

LEMMA WorkerBase ==
    ASSUME Base, NEW w \in Workers, WorkerStep(w)
    PROVE  Base'
<1>0. TypeOK /\ Counted /\ Stored /\ QueueInv /\ Waits /\ w \in Threads
  BY DEF Base, Threads
<1>1. CASE work_thread(w)
  <2>1. /\ UNCHANGED <<queue, submitted, blocking, task>> /\ (blocking => ~flag')
        /\ UNCHANGED <<pool, client, done>>
        /\ pc' = [pc EXCEPT ![w] = IF flag THEN "exited" ELSE "token"]
    BY <1>0, <1>1 DEF work_thread, Goto, pool, Waits
  <2>2. TypeOK' /\ Counted'
    BY <1>0, <2>1 DEF TypeOK, Counted, pool, client
  <2>. QED
    BY <2>1, <2>2, QuietBase
<1>2. CASE try_dequeue(w)
  BY <1>0, <1>2, CallBase DEF try_dequeue, task_queue!TryDequeue
<1>3. CASE wait_dequeue(w)
  BY <1>0, <1>3, CallBase DEF wait_dequeue, task_queue!WaitDequeue
<1>4. CASE Dequeued(w)
  <2>1. /\ task_queue!Collect(w) /\ UNCHANGED <<inner, m_count, m_sema, at>>
        /\ UNCHANGED <<pool, client, submitted, done>>
    BY <1>4 DEF Dequeued
  <2>2. r[w].got \in Seq(Known) /\ \A v \in Workers : task[v] \in Known
    BY <1>0 DEF Stored, Stores
  <2>3. pc' \in [Workers -> {"check", "token", "plain", "wait", "run", "exited"}]
    BY <1>0, <1>4 DEF TypeOK, Dequeued, Goto, AfterTry
  <2>4. /\ task' \in [Workers -> Tasks \cup {Exit}]
        /\ \A v \in Workers : task'[v] \in Known
    <3>1. CASE r[w].got = <<>>
      BY <1>0, <1>4, <2>2, <3>1 DEF Dequeued, TypeOK
    <3>2. CASE r[w].got # <<>>
      <4>1. PICK k \in Known : k = Head(r[w].got)
        BY <2>2, <3>2
      <4>2. task' = [task EXCEPT ![w] = k]
        BY <1>4, <3>2, <4>1 DEF Dequeued
      <4>3. k \in Tasks \cup {Exit}
        BY <1>0 DEF TypeOK, Known
      <4>. QED
        BY <1>0, <2>2, <4>2, <4>3 DEF TypeOK
    <3>. QED
      BY <3>1, <3>2
  <2>. QED
    BY <1>0, <2>1, <2>3, <2>4, CollectBase
<1>5. CASE try_dequeueAtOnce(w)
  <2>1. /\ ~blocking /\ UNCHANGED <<pool, m_count, m_sema, at, r, client, submitted, done>>
    BY <1>5 DEF try_dequeueAtOnce
  <2>2. pc' \in [Workers -> {"check", "token", "plain", "wait", "run", "exited"}]
    BY <1>0, <1>5 DEF TypeOK, try_dequeueAtOnce, Goto, AfterTry
  <2>3. /\ inner' \in [Producers -> Seq(Items)] /\ \A p \in Producers : inner'[p] \in Seq(Known)
        /\ task' \in [Workers -> Tasks \cup {Exit}] /\ \A v \in Workers : task'[v] \in Known
    <3>1. /\ inner \in [Producers -> Seq(Items)] /\ \A p \in Producers : inner[p] \in Seq(Known)
          /\ task \in [Workers -> Tasks \cup {Exit}] /\ \A v \in Workers : task[v] \in Known
      BY <1>0 DEF QueueInv, Stored, Stores, TypeOK
    <3>2. CASE inner' = inner /\ task' = task
      BY <3>1, <3>2
    <3>3. CASE \E p \in Producers : /\ inner[p] # <<>>
                                    /\ task' = [task EXCEPT ![w] = Head(inner[p])]
                                    /\ inner' = [inner EXCEPT ![p] = Tail(@)]
      <4>1. PICK p \in Producers : /\ inner[p] # <<>>
                                   /\ task' = [task EXCEPT ![w] = Head(inner[p])]
                                   /\ inner' = [inner EXCEPT ![p] = Tail(@)]
        BY <3>3
      <4>2. PICK k \in Known : k = Head(inner[p])
        BY <3>1, <4>1
      <4>3. PICK s \in Seq(Known) : s = Tail(inner[p])
        BY <3>1, <4>1, HeadTailProperties
      <4>4. k \in Tasks \cup {Exit} /\ s \in Seq(Items)
        BY <1>0, KnownItems, WiderSeq DEF Items
      <4>5. task' = [task EXCEPT ![w] = k] /\ inner' = [inner EXCEPT ![p] = s]
        BY <4>1, <4>2, <4>3
      <4>. QED
        BY <3>1, <4>4, <4>5
    <3>. QED
      BY <1>5, <3>2, <3>3 DEF try_dequeueAtOnce
  <2>4. TypeOK' /\ Counted'
    BY <1>0, <2>1, <2>2, <2>3 DEF TypeOK, Counted, pool, client
  <2>5. QueueInv'
    BY <1>0, <2>1, <2>3 DEF QueueInv
  <2>6. Stored'
    BY <1>0, <2>1, <2>3 DEF Stored, Stores, Known
  <2>7. Waits'
    BY <1>0, <2>1 DEF Waits, pool
  <2>. QED
    BY <2>4, <2>5, <2>6, <2>7 DEF Base
<1>6. CASE submitFromTask(w)
  <2>1. PICK k \in SubmittedBy(task[w]) \ submitted :
           submitted' = submitted \cup {k} /\ Enqueue(w, task[w], k)
    BY <1>6 DEF submitFromTask
  <2>2. UNCHANGED <<pool, worker, client, done>>
    BY <1>6 DEF submitFromTask
  <2>3. k \in Tasks /\ task[w] \in Producers
    BY <2>1, ThreadPoolAssumption DEF SubmittedBy, Producers
  <2>4. k \in Items /\ k \in Known'
    BY <2>1, <2>3 DEF Items, Known
  <2>5. Counted' /\ phase' = phase /\ exits' = exits
    BY <1>0, <2>2 DEF Counted, client
  <2>6. submitted \subseteq submitted' /\ submitted' \subseteq Tasks
    BY <1>0, <2>1, <2>3 DEF TypeOK
  <2>. QED
    BY <1>0, <2>1, <2>2, <2>3, <2>4, <2>5, <2>6, EnqueueBase DEF TypeOK
<1>7. CASE run_pending_task(w)
  <2>1. /\ UNCHANGED <<queue, submitted, blocking, task>> /\ (blocking => ~flag')
        /\ UNCHANGED <<pool, client>>
        /\ pc' = [pc EXCEPT ![w] = IF task[w] = Exit THEN "exited" ELSE "check"]
        /\ done' = done \cup ({task[w]} \ {Exit})
    BY <1>0, <1>7 DEF run_pending_task, Goto, pool, Waits
  <2>2. {task[w]} \ {Exit} \subseteq submitted
    BY <1>0 DEF Stored, Known
  <2>3. TypeOK' /\ Counted'
    BY <1>0, <2>1, <2>2 DEF TypeOK, Counted, pool, client
  <2>. QED
    BY <2>1, <2>3, QuietBase
<1>. QED
  BY <1>1, <1>2, <1>3, <1>4, <1>5, <1>6, <1>7 DEF WorkerStep

LEMMA StutterBase ==
    ASSUME Base, UNCHANGED vars PROVE Base'
<1>1. TypeOK /\ Counted /\ Waits
  BY DEF Base
<1>2. UNCHANGED <<queue, submitted, blocking, task>> /\ (blocking => ~flag')
  BY <1>1 DEF vars, pool, queue, worker, Waits
<1>3. TypeOK' /\ Counted'
  BY <1>1 DEF vars, pool, queue, worker, client, TypeOK, Counted
<1>. QED
  BY <1>2, <1>3, QuietBase

LEMMA NextBase ==
    ASSUME Base, [Next]_vars PROVE Base'
<1>1. CASE \E w \in Workers : WorkerStep(w)
  BY <1>1, WorkerBase
<1>2. CASE \E t \in Threads : QueueStep(t)
  BY <1>2, StepBase DEF QueueStep
<1>3. CASE UNCHANGED vars
  BY <1>3, StutterBase
<1>. QED
  BY <1>1, <1>2, <1>3, ClientBase, PhaseBase DEF Next

-----------------------------------------------------------------------------
(* The threads that call the blocking queue directly.                      *)
LEMMA DirectBase ==
    ASSUME Base, blocking, Direct,
           \/ \E t \in Clients, n \in 1 .. 2 : EnqueueDirectly(t, n)
           \/ \E t \in Workers : CallDirectly(t)
           \/ \E t \in Threads : StepDirectly(t)
    PROVE  Base'
<1>0. /\ TypeOK /\ Counted /\ Stored /\ QueueInv /\ Waits /\ Covered
      /\ UNCHANGED <<pool, worker, client, submitted, done>>
  BY DEF Base, Direct, Waits
<1>1. ASSUME NEW t \in Clients, NEW n \in 1 .. 2, EnqueueDirectly(t, n) PROVE Base'
  <2> DEFINE items == [i \in 1 .. n |-> Exit]
  <2>1. t \in Threads /\ t \in Producers
    BY DEF Threads, Producers
  <2>2. items \in Seq(Known) /\ items \in Seq(Items) /\ Len(items) = n
    BY DEF Known, Items
  <2>3. task_queue!Enqueue(t, t, items)
    BY <1>1 DEF EnqueueDirectly
  <2> HIDE DEF items
  <2>4. QueueInv' /\ Covered'
    BY <1>0, <2>1, <2>2, <2>3, EnqueueKeeps
  <2>5. /\ inner' = [inner EXCEPT ![t] = inner[t] \o items] /\ r[t] = task_queue!NoCall
        /\ r' = [r EXCEPT ![t] = [task_queue!NoCall EXCEPT !.count = Len(items)]]
    BY <2>3 DEF task_queue!Enqueue, task_queue!Put, task_queue!Goto
  <2>6. Stores(Known)'
    <3> DEFINE s == inner[t] \o items
               q == [task_queue!NoCall EXCEPT !.count = Len(items)]
    <3>1. s \in Seq(Known)
      BY <1>0, <2>1, <2>2 DEF Stored, Stores
    <3>2. q.got = <<>>
      BY NoCallTyped, CountChanged, <2>2
    <3>3. inner \in [Producers -> Seq(Items)] /\ r \in [Threads -> Registers]
      BY <1>0 DEF QueueInv
    <3>4. Known' = Known
      BY <1>0 DEF Known
    <3>5. inner' = [inner EXCEPT ![t] = s] /\ r' = [r EXCEPT ![t] = q]
      BY <2>5
    <3>6. <<>> \in Seq(Known)
      OBVIOUS
    <3> HIDE DEF s, q
    <3>. QED
      BY <1>0, <2>1, <3>1, <3>2, <3>3, <3>4, <3>5, <3>6 DEF Stored, Stores
  <2>7. Stored'
    BY <1>0, <2>6 DEF Stored, Known, worker
  <2>8. TypeOK' /\ Counted' /\ Waits'
    BY <1>0, <2>4 DEF TypeOK, Counted, Waits, pool, worker, client
  <2>. QED
    BY <2>4, <2>7, <2>8 DEF Base
<1>2. ASSUME NEW t \in Workers, CallDirectly(t) PROVE Base'
  <2>1. t \in Threads
    BY DEF Threads
  <2>2. PICK kind \in {"try", "wait", "timed"}, max \in Nat \ {0} : task_queue!TryWaitMany(t, kind, max)
    <3>1. \/ task_queue!TryWaitMany(t, "try", 2) \/ task_queue!TryWaitMany(t, "timed", 1)
          \/ task_queue!TryWaitMany(t, "wait", 2) \/ task_queue!TryWaitMany(t, "timed", 2)
      BY <1>2 DEF CallDirectly, task_queue!TryDequeueBulk, task_queue!WaitDequeueTimed,
                  task_queue!WaitDequeueBulk, task_queue!WaitDequeueBulkTimed
    <3>. QED
      BY <3>1
  <2>. QED
    BY <1>0, <2>1, <2>2, CallBase
<1>3. ASSUME NEW t \in Threads, StepDirectly(t) PROVE Base'
  <2>1. CASE task_queue!Step(t)
    BY <1>0, <2>1, StepBase
  <2>2. CASE CollectDirectly(t)
    BY <1>0, <2>2, CollectBase DEF CollectDirectly, TypeOK, Stored, worker
  <2>. QED
    BY <1>3, <2>1, <2>2 DEF StepDirectly
<1>. QED
  BY <1>1, <1>2, <1>3

(* Nobody owns a pool in the direct world.                                 *)
BaseMC == /\ Base
          /\ world \in {"pool", "direct"}
          /\ world = "direct" => blocking /\ phase = "open"

LEMMA NextBaseMC ==
    ASSUME BaseMC, [NextMC]_varsMC PROVE BaseMC'
<1>1. CASE world = "pool" /\ Next /\ world' = world
  BY <1>1, NextBase DEF BaseMC
<1>2. CASE /\ world = "direct" /\ Direct /\ world' = world
           /\ \/ \E t \in Clients, n \in 1 .. 2 : EnqueueDirectly(t, n)
              \/ \E t \in Workers : CallDirectly(t)
              \/ \E t \in Threads : StepDirectly(t)
  BY <1>2, DirectBase DEF BaseMC, Direct, pool, client
<1>3. CASE UNCHANGED varsMC
  <2>1. Base'
    BY <1>3, StutterBase DEF BaseMC, varsMC
  <2>. QED
    BY <1>3, <2>1 DEF BaseMC, varsMC, vars, pool, client
<1>. QED
  BY <1>1, <1>2, <1>3 DEF NextMC

LEMMA InitBaseMC == InitMC => BaseMC
BY InitBase DEF InitMC, BaseMC, Init

-----------------------------------------------------------------------------
(* What terminal() relies on: the owner's queue.                           *)
ItemsOf(s) == {s[i] : i \in 1 .. Len(s)}

\* What worker w has taken out of the queue and not run to its end.
Held(w) == ItemsOf(r[w].got) \cup (IF pc[w] \in {"run", "exited"} THEN {task[w]} ELSE {})
Waiting == ItemsOf(inner[Owner])

Dequeuing(t) == t \in Workers /\ pc[t] \in {"token", "plain", "wait"}

\* Only a worker that dequeues has a call, and that for one element.
Callers ==
    \A t \in Threads :
       /\ r[t].max <= 1
       /\ ~Dequeuing(t) => r[t].kind = "none" /\ r[t].max = 0

\* Exit tasks come from the owner alone, after its other tasks and after its last.
ExitsLast ==
    /\ \A p \in Producers \ {Owner} : Exit \notin ItemsOf(inner[p])
    /\ \A i, j \in 1 .. Len(inner[Owner]) :
          i < j /\ inner[Owner][i] = Exit => inner[Owner][j] = Exit
    /\ phase = "open" => Exit \notin Waiting /\ \A w \in Workers : Exit \notin Held(w)

\* Once an exit task is out of the queue all that the owner submitted is.
Overtaken ==
    (\E w \in Workers : Exit \in Held(w)) => Waiting \subseteq {Exit}

Leaving ==
    /\ \A w \in Workers : pc[w] = "exited" => task[w] = Exit
    /\ phase = "destroyed" => \A w \in Workers : pc[w] = "exited"

Accounted ==
    \A k \in SubmittedBy(Owner) \cap submitted :
       k \in done \/ k \in Waiting \/ \E w \in Workers : k \in Held(w)

Order == blocking => Callers /\ ExitsLast /\ Overtaken /\ Leaving /\ Accounted

LEMMA ItemsEmpty == ItemsOf(<<>>) = {}
BY DEF ItemsOf

LEMMA ItemsAppend ==
    ASSUME NEW S, NEW s \in Seq(S), NEW x
    PROVE  ItemsOf(s \o <<x>>) = ItemsOf(s) \cup {x}
<1>1. Len(s \o <<x>>) = Len(s) + 1 /\ Len(s) \in Nat
  OBVIOUS
<1>2. \A i \in 1 .. Len(s) + 1 : (s \o <<x>>)[i] = IF i <= Len(s) THEN s[i] ELSE x
  OBVIOUS
<1>. QED
  BY <1>1, <1>2 DEF ItemsOf

LEMMA ItemsFirst ==
    ASSUME NEW S, NEW s \in Seq(S), Len(s) >= 1
    PROVE  /\ ItemsOf(SubSeq(s, 1, 1)) = {s[1]}
           /\ ItemsOf(s) = {s[1]} \cup ItemsOf(SubSeq(s, 2, Len(s)))
           /\ Len(SubSeq(s, 2, Len(s))) = Len(s) - 1
           /\ \A i \in 1 .. Len(s) - 1 : SubSeq(s, 2, Len(s))[i] = s[i + 1]
<1>1. Len(s) \in Nat
  OBVIOUS
<1>2. Len(SubSeq(s, 1, 1)) = 1 /\ SubSeq(s, 1, 1)[1] = s[1]
  BY <1>1
<1>3. /\ Len(SubSeq(s, 2, Len(s))) = Len(s) - 1
      /\ \A i \in 1 .. Len(s) - 1 : SubSeq(s, 2, Len(s))[i] = s[i + 1]
  BY <1>1
<1>4. ItemsOf(SubSeq(s, 1, 1)) = {s[1]}
  BY <1>2 DEF ItemsOf
<1>5. ItemsOf(s) = {s[1]} \cup ItemsOf(SubSeq(s, 2, Len(s)))
  <2> DEFINE v == SubSeq(s, 2, Len(s))
  <2>1. /\ Len(v) = Len(s) - 1
        /\ \A i \in 1 .. Len(s) - 1 : v[i] = s[i + 1]
    BY <1>3
  <2> HIDE DEF v
  <2>2. ASSUME NEW i \in 1 .. Len(s) PROVE s[i] \in {s[1]} \cup ItemsOf(v)
    <3>1. CASE i = 1
      BY <3>1
    <3>2. CASE i # 1
      <4>1. i - 1 \in 1 .. Len(v) /\ v[i - 1] = s[i]
        BY <1>1, <2>1, <3>2
      <4>. QED
        BY <4>1 DEF ItemsOf
    <3>. QED
      BY <3>1, <3>2
  <2>3. ASSUME NEW i \in 1 .. Len(v) PROVE v[i] \in ItemsOf(s)
    <3>1. i + 1 \in 1 .. Len(s) /\ v[i] = s[i + 1]
      BY <1>1, <2>1
    <3>. QED
      BY <3>1 DEF ItemsOf
  <2>4. s[1] \in ItemsOf(s)
    <3>1. 1 \in 1 .. Len(s)
      BY <1>1
    <3>. QED
      BY <3>1 DEF ItemsOf
  <2>5. ItemsOf(s) \subseteq {s[1]} \cup ItemsOf(v)
    BY <2>2 DEF ItemsOf
  <2>6. ItemsOf(v) \subseteq ItemsOf(s)
    BY <2>3 DEF ItemsOf
  <2>. QED
    BY <2>4, <2>5, <2>6 DEF v
<1>. QED
  BY <1>3, <1>4, <1>5

LEMMA CallersSame ==
    ASSUME Callers, \A u \in Threads : SameCall(u), pc' = pc
    PROVE  Callers'
BY DEF Callers, SameCall, Dequeuing

LEMMA HeldSame ==
    ASSUME \A u \in Threads : r'[u].got = r[u].got, pc' = pc, task' = task
    PROVE  \A w \in Workers : Held(w)' = Held(w)
BY DEF Held, ItemsOf, Threads

(* The owner's queue stays as it is; who drops an item has run it.         *)
LEMMA OrderKept ==
    ASSUME ExitsLast, Overtaken, Accounted, inner' = inner, submitted' = submitted,
           \A w \in Workers : Held(w)' \subseteq Held(w) /\ Held(w) \ Held(w)' \subseteq done',
           done \subseteq done', phase' = "open" => phase = "open"
    PROVE  ExitsLast' /\ Overtaken' /\ Accounted'
<1>1. Waiting' = Waiting
  BY DEF Waiting, ItemsOf
<1>2. ExitsLast'
  BY <1>1 DEF ExitsLast, ItemsOf
<1>3. Overtaken'
  BY <1>1 DEF Overtaken
<1>4. Accounted'
  BY <1>1 DEF Accounted, SubmittedBy
<1>. QED
  BY <1>2, <1>3, <1>4

(* A producer submits a task of its own, the owner only to an open pool.   *)
LEMMA TaskAdded ==
    ASSUME ExitsLast, Overtaken, Accounted, inner \in [Producers -> Seq(Items)],
           NEW p \in Producers, NEW x \in Tasks, By[x] = p, p = Owner => phase = "open",
           inner' = [inner EXCEPT ![p] = inner[p] \o <<x>>],
           submitted' = submitted \cup {x}, done' = done, phase' = phase,
           \A w \in Workers : Held(w)' = Held(w)
    PROVE  ExitsLast' /\ Overtaken' /\ Accounted'
<1>1. x # Exit /\ Owner \in Producers
  BY ThreadPoolAssumption DEF Producers
<1>2. ItemsOf(inner'[p]) = ItemsOf(inner[p]) \cup {x}
  <2>1. inner'[p] = inner[p] \o <<x>> /\ inner[p] \in Seq(Items)
    OBVIOUS
  <2>. QED
    BY <2>1, ItemsAppend
<1>3. \A o \in Producers \ {p} : inner'[o] = inner[o]
  OBVIOUS
<1>4. Waiting' = IF p = Owner THEN Waiting \cup {x} ELSE Waiting
  BY <1>1, <1>2, <1>3 DEF Waiting, ItemsOf
<1>5. \A o \in Producers \ {Owner} : Exit \notin ItemsOf(inner'[o])
  BY <1>1, <1>2, <1>3 DEF ExitsLast
<1>6. \A i, j \in 1 .. Len(inner'[Owner]) : 
          i < j /\ inner'[Owner][i] = Exit => inner'[Owner][j] = Exit
  <2>1. CASE p # Owner
    BY <1>1, <1>3, <2>1 DEF ExitsLast
  <2>2. CASE p = Owner
    <3>1. Exit \notin ItemsOf(inner'[Owner])
      BY <1>1, <1>2, <2>2 DEF ExitsLast, Waiting
    <3>. QED
      BY <3>1 DEF ItemsOf
  <2>. QED
    BY <2>1, <2>2
<1>7. ExitsLast'
  <2>1. phase' = "open" => Exit \notin Waiting' /\ \A w \in Workers : Exit \notin Held(w)'
    BY <1>1, <1>4 DEF ExitsLast
  <2>2. \A o \in Producers \ {Owner} : Exit \notin ItemsOf(inner[o])'
    BY <1>5 DEF ItemsOf
  <2>. QED
    BY <1>6, <2>1, <2>2 DEF ExitsLast
<1>8. Overtaken'
  <2> SUFFICES ASSUME NEW w \in Workers, Exit \in Held(w)' PROVE Waiting' \subseteq {Exit}
    BY DEF Overtaken
  <2>1. Exit \in Held(w)
    OBVIOUS
  <2>2. p # Owner
    BY <2>1 DEF ExitsLast
  <2>. QED
    BY <1>4, <2>1, <2>2 DEF Overtaken
<1>9. Accounted'
  <2> SUFFICES ASSUME NEW k \in SubmittedBy(Owner) \cap submitted'
               PROVE  k \in done' \/ k \in Waiting' \/ \E w \in Workers : k \in Held(w)'
    BY DEF Accounted, SubmittedBy
  <2>1. CASE k = x
    BY <1>4, <2>1 DEF SubmittedBy
  <2>2. CASE k # x
    BY <1>4, <2>2 DEF Accounted
  <2>. QED
    BY <2>1, <2>2
<1>. QED
  BY <1>7, <1>8, <1>9

(* terminal() appends an exit task.                                        *)
LEMMA ExitAdded ==
    ASSUME ExitsLast, Overtaken, Accounted, inner \in [Producers -> Seq(Items)],
           inner' = [inner EXCEPT ![Owner] = inner[Owner] \o <<Exit>>],
           submitted' = submitted, done' = done, phase' # "open",
           \A w \in Workers : Held(w)' = Held(w)
    PROVE  ExitsLast' /\ Overtaken' /\ Accounted'
<1>1. Owner \in Producers /\ inner[Owner] \in Seq(Items)
  BY ThreadPoolAssumption DEF Producers
<1>2. inner'[Owner] = inner[Owner] \o <<Exit>>
  BY <1>1
<1>3. Waiting' = Waiting \cup {Exit}
  <2>1. ItemsOf(inner'[Owner]) = ItemsOf(inner[Owner]) \cup {Exit}
    BY <1>1, <1>2, ItemsAppend
  <2>. QED
    BY <2>1 DEF Waiting, ItemsOf
<1>4. \A o \in Producers \ {Owner} : inner'[o] = inner[o]
  OBVIOUS
<1>5. ASSUME NEW i \in 1 .. Len(inner'[Owner]), NEW j \in 1 .. Len(inner'[Owner]), 
             i < j, inner'[Owner][i] = Exit
      PROVE  inner'[Owner][j] = Exit
  <2> DEFINE s == inner[Owner]
             u == inner'[Owner]
  <2>1. Len(u) = Len(s) + 1 /\ Len(s) \in Nat
    BY <1>1, <1>2
  <2>2. \A n \in 1 .. Len(s) + 1 : u[n] = IF n <= Len(s) THEN s[n] ELSE Exit
    BY <1>1, <1>2
  <2>3. \A m, n \in 1 .. Len(s) : m < n /\ s[m] = Exit => s[n] = Exit
    BY DEF ExitsLast
  <2>4. i \in 1 .. Len(u) /\ j \in 1 .. Len(u) /\ u[i] = Exit
    BY <1>5
  <2> HIDE DEF s, u
  <2>5. CASE j <= Len(s)
    BY <1>5, <2>1, <2>2, <2>3, <2>4, <2>5 DEF u
  <2>6. CASE ~(j <= Len(s))
    BY <2>1, <2>2, <2>4, <2>6 DEF u
  <2>. QED
    BY <2>5, <2>6
<1>6. ExitsLast'
  <2>1. \A o \in Producers \ {Owner} : Exit \notin ItemsOf(inner[o])'
    BY <1>4 DEF ExitsLast, ItemsOf
  <2>. QED
    BY <1>5, <2>1 DEF ExitsLast
<1>7. Overtaken'
  BY <1>3 DEF Overtaken
<1>8. Accounted'
  BY <1>3 DEF Accounted, SubmittedBy
<1>. QED
  BY <1>6, <1>7, <1>8

(* A worker takes the first item of some producer.                         *)
LEMMA FirstTaken ==
    ASSUME ExitsLast, Overtaken, Accounted, inner \in [Producers -> Seq(Items)],
           NEW p \in Producers, Len(inner[p]) >= 1,
           inner' = [inner EXCEPT ![p] = SubSeq(inner[p], 2, Len(inner[p]))],
           submitted' = submitted, done' = done, phase' = phase,
           NEW t \in Workers, Held(t) = {}, Held(t)' = {inner[p][1]},
           \A w \in Workers \ {t} : Held(w)' = Held(w)
    PROVE  ExitsLast' /\ Overtaken' /\ Accounted'
<1>1. Owner \in Producers /\ inner[p] \in Seq(Items)
  BY ThreadPoolAssumption DEF Producers
<1> DEFINE x == inner[p][1]
           rest == SubSeq(inner[p], 2, Len(inner[p]))
<1>2. /\ inner'[p] = rest /\ \A o \in Producers \ {p} : inner'[o] = inner[o]
  OBVIOUS
<1>3. /\ ItemsOf(inner[p]) = {x} \cup ItemsOf(rest)
      /\ Len(rest) = Len(inner[p]) - 1 /\ Len(inner[p]) \in Nat
      /\ \A i \in 1 .. Len(inner[p]) - 1 : rest[i] = inner[p][i + 1]
  BY <1>1, ItemsFirst
<1> HIDE DEF x, rest
<1>4. ItemsOf(inner'[p]) = ItemsOf(rest)
  BY <1>2
<1>5. x = Exit => p = Owner /\ ItemsOf(rest) \subseteq {Exit}
  <2> SUFFICES ASSUME x = Exit PROVE p = Owner /\ ItemsOf(rest) \subseteq {Exit}
    OBVIOUS
  <2>1. p = Owner
    BY <1>3 DEF ExitsLast
  <2>2. ASSUME NEW i \in 1 .. Len(rest) PROVE rest[i] = Exit
    <3>1. /\ rest[i] = inner[Owner][i + 1] /\ i + 1 \in 1 .. Len(inner[Owner])
          /\ 1 \in 1 .. Len(inner[Owner]) /\ 1 < i + 1
      BY <1>3, <2>1
    <3>2. inner[Owner][1] = Exit
      BY <2>1 DEF x
    <3>. QED
      BY <3>1, <3>2 DEF ExitsLast
  <2>. QED
    BY <2>1, <2>2 DEF ItemsOf
<1>6. /\ p = Owner => Waiting = {x} \cup ItemsOf(rest) /\ Waiting' = ItemsOf(rest)
      /\ p # Owner => Waiting' = Waiting
  <2>1. CASE p = Owner
    <3>1. Waiting = ItemsOf(inner[p]) /\ Waiting' = ItemsOf(inner'[p])
      BY <2>1 DEF Waiting, ItemsOf
    <3>. QED
      BY <1>3, <1>4, <2>1, <3>1
  <2>2. CASE p # Owner
    <3>1. inner'[Owner] = inner[Owner]
      BY <1>1, <1>2, <2>2
    <3>. QED
      BY <2>2, <3>1 DEF Waiting, ItemsOf
  <2>. QED
    BY <2>1, <2>2
<1>7. Held(t)' = {x}
  BY DEF x
<1>8. \A o \in Producers \ {Owner} : Exit \notin ItemsOf(inner[o])'
  BY <1>2, <1>3 DEF ExitsLast, ItemsOf
<1>9. ASSUME NEW i \in 1 .. Len(inner'[Owner]), NEW j \in 1 .. Len(inner'[Owner]), 
             i < j, inner'[Owner][i] = Exit
      PROVE  inner'[Owner][j] = Exit
  <2>1. CASE p # Owner
    BY <1>1, <1>2, <1>9, <2>1 DEF ExitsLast
  <2>2. CASE p = Owner
    <3>1. inner'[Owner] = rest
      BY <1>2, <2>2
    <3>2. /\ i + 1 \in 1 .. Len(inner[Owner]) /\ j + 1 \in 1 .. Len(inner[Owner])
          /\ i + 1 < j + 1 
          /\ rest[i] = inner[Owner][i + 1] /\ rest[j] = inner[Owner][j + 1]
      BY <1>3, <1>9, <2>2, <3>1
    <3>3. inner[Owner][i + 1] = Exit
      BY <1>9, <3>1, <3>2
    <3>4. inner[Owner][j + 1] = Exit
      BY <3>2, <3>3 DEF ExitsLast
    <3>. QED
      BY <3>1, <3>2, <3>4
  <2>. QED
    BY <2>1, <2>2
<1>10. phase' = "open" => Exit \notin Waiting' /\ \A w \in Workers : Exit \notin Held(w)'
  <2> SUFFICES ASSUME phase = "open"
               PROVE  Exit \notin Waiting' /\ \A w \in Workers : Exit \notin Held(w)'
    OBVIOUS
  <2>1. Exit \notin Waiting /\ \A w \in Workers : Exit \notin Held(w)
    BY DEF ExitsLast
  <2>2. x # Exit
    BY <1>5, <1>6, <2>1
  <2>. QED
    BY <1>6, <1>7, <2>1, <2>2
<1>11. ExitsLast'
  BY <1>8, <1>9, <1>10 DEF ExitsLast
<1>12. Overtaken'
  <2> SUFFICES ASSUME NEW w \in Workers, Exit \in Held(w)' PROVE Waiting' \subseteq {Exit}
    BY DEF Overtaken
  <2>1. CASE w = t
    BY <1>5, <1>6, <1>7, <2>1
  <2>2. CASE w # t
    BY <1>6, <2>2 DEF Overtaken
  <2>. QED
    BY <2>1, <2>2
<1>13. Accounted'
  <2> SUFFICES ASSUME NEW k \in SubmittedBy(Owner) \cap submitted
               PROVE  k \in done' \/ k \in Waiting' \/ \E w \in Workers : k \in Held(w)'
    BY DEF Accounted, SubmittedBy
  <2>1. CASE k \in Waiting
    <3>1. k = x \/ k \in Waiting'
      BY <1>6, <2>1
    <3>. QED
      BY <1>7, <3>1
  <2>2. CASE \E w \in Workers : k \in Held(w)
    <3>1. PICK w \in Workers : k \in Held(w)
      BY <2>2
    <3>2. k \in Held(w)'
      BY <3>1
    <3>. QED
      BY <3>2
  <2>3. k \in done \/ k \in Waiting \/ \E w \in Workers : k \in Held(w)
    BY DEF Accounted
  <2>. QED
    BY <2>1, <2>2, <2>3
<1>. QED
  BY <1>11, <1>12, <1>13

-----------------------------------------------------------------------------
OrderParts == Callers /\ ExitsLast /\ Overtaken /\ Leaving /\ Accounted

(* A call for one element takes one.                                       *)
LEMMA OneAtMost ==
    ASSUME NEW n \in Nat, NEW owed \in Nat, NEW got \in Nat, NEW max \in Nat,
           n > 0, n <= owed, owed + got <= max, max <= 1
    PROVE  n = 1 /\ got = 0 /\ max = 1
OBVIOUS

LEMMA OneLeft ==
    ASSUME NEW owed \in Nat, NEW got \in Nat, NEW max \in Nat,
           owed + got <= max, max <= 1, got # 0
    PROVE  got = 1
OBVIOUS

LEMMA QueueStepOrder ==
    ASSUME Base, OrderParts, NEW t \in Threads, QueueStep(t)
    PROVE  OrderParts'
<1>1. /\ QueueInv /\ task_queue!Step(t) /\ UNCHANGED <<worker, client, submitted, done>>
      /\ inner \in [Producers -> Seq(Items)]
  BY DEF Base, QueueStep, QueueInv
<1>2. pc' = pc /\ task' = task /\ phase' = phase
  BY <1>1 DEF worker, client
<1>3. /\ \A u \in Threads : SameCall(u)
      /\ \A u \in Threads \ {t} : r'[u].got = r[u].got
  BY <1>1, StepEffect
<1>4. Callers'
  BY <1>2, <1>3, CallersSame DEF OrderParts
<1>5. Leaving'
  BY <1>2 DEF OrderParts, Leaving
<1>6. CASE inner' = inner /\ r'[t].got = r[t].got
  <2>1. \A w \in Workers : Held(w)' = Held(w)
    BY <1>2, <1>3, <1>6, HeldSame
  <2>. QED
    BY <1>1, <1>2, <1>4, <1>5, <1>6, <2>1, OrderKept DEF OrderParts
<1>7. CASE \E p \in Producers, n \in Nat : Taken(t, p, n)
  <2>1. PICK p \in Producers, n \in Nat : Taken(t, p, n)
    BY <1>7
  <2>2. /\ n > 0 /\ n <= r[t].owed /\ n <= Len(inner[p]) /\ r[t].owed + Len(r[t].got) <= r[t].max
        /\ r[t].max <= 1
    <3>1. n > 0 /\ n <= r[t].owed /\ n <= Len(inner[p])
      BY <2>1 DEF Taken
    <3>2. r[t].owed + Len(r[t].got) <= r[t].max
      BY <1>1, Facts DEF Fits
    <3>3. r[t].max <= 1
      BY DEF OrderParts, Callers
    <3>. QED
      BY <3>1, <3>2, <3>3
  <2>3. n = 1 /\ Len(r[t].got) = 0 /\ r[t].max = 1
    <3>1. r[t].owed \in Nat /\ Len(r[t].got) \in Nat /\ r[t].max \in Nat
      BY <1>1, Facts
    <3>. QED
      BY <2>2, <3>1, OneAtMost
  <2>4. r[t].got = <<>>
    BY <1>1, <2>3, Facts
  <2>5. t \in Workers /\ pc[t] \notin {"run", "exited"}
    BY <2>3 DEF OrderParts, Callers, Dequeuing
  <2>6. inner[p] \in Seq(Items) /\ Len(inner[p]) >= 1
    BY <1>1, <2>2, <2>3
  <2>7. /\ inner' = [inner EXCEPT ![p] = SubSeq(inner[p], 2, Len(inner[p]))]
        /\ r'[t].got = <<>> \o SubSeq(inner[p], 1, 1)
    BY <2>1, <2>3, <2>4 DEF Taken
  <2>8. r'[t].got = SubSeq(inner[p], 1, 1)
    <3>1. SubSeq(inner[p], 1, 1) \in Seq(Items)
      BY <2>6, Cut
    <3>. QED
      BY <2>7, <3>1
  <2>9. Held(t) = {}
    BY <2>4, <2>5, ItemsEmpty DEF Held
  <2>10. Held(t)' = {inner[p][1]}
    <3>1. ItemsOf(r'[t].got) = {inner[p][1]}
      BY <2>6, <2>8, ItemsFirst
    <3>. QED
      BY <1>2, <2>5, <3>1 DEF Held, ItemsOf
  <2>11. \A w \in Workers \ {t} : Held(w)' = Held(w)
    BY <1>2, <1>3 DEF Held, ItemsOf, Threads
  <2>. QED
    BY <1>1, <1>2, <1>4, <1>5, <2>5, <2>6, <2>7, <2>9, <2>10, <2>11, FirstTaken DEF OrderParts
<1>. QED
  BY <1>1, <1>6, <1>7, StepEffect

LEMMA ClientOrder ==
    ASSUME Base, blocking, OrderParts,
           \/ \E c1 \in Clients, k \in Tasks : submit(c1, k)
           \/ terminal
    PROVE  OrderParts'
<1>0. /\ QueueInv /\ Waits /\ TypeOK /\ Callers /\ ExitsLast /\ Overtaken /\ Leaving /\ Accounted
      /\ inner \in [Producers -> Seq(Items)]
  BY DEF Base, OrderParts, QueueInv
<1>1. ASSUME NEW c1 \in Clients, NEW k \in Tasks, submit(c1, k) PROVE OrderParts'
  <2>1. /\ By[k] = c1 /\ submitted' = submitted \cup {k} /\ Enqueue(c1, c1, k)
        /\ UNCHANGED <<pool, worker, client, done>> /\ (c1 = Owner => phase = "open")
    BY <1>1 DEF submit
  <2>2. c1 \in Threads /\ c1 \in Producers /\ k \in Items
    BY DEF Threads, Producers, Items
  <2>3. /\ inner' = [inner EXCEPT ![c1] = inner[c1] \o <<k>>]
        /\ \A u \in Threads : SameCall(u) /\ r'[u].got = r[u].got
    BY <1>0, <2>1, <2>2, EnqueueEffect
  <2>4. pc' = pc /\ task' = task /\ phase' = phase
    BY <2>1 DEF worker, client
  <2>5. \A w \in Workers : Held(w)' = Held(w)
    BY <2>3, <2>4, HeldSame
  <2>6. ExitsLast' /\ Overtaken' /\ Accounted'
    BY <1>0, <2>1, <2>2, <2>3, <2>4, <2>5, TaskAdded
  <2>7. Callers' /\ Leaving'
    BY <1>0, <2>3, <2>4, CallersSame DEF Leaving
  <2>. QED
    BY <2>6, <2>7 DEF OrderParts
<1>2. CASE terminal
  <2>1. /\ Enqueue(Owner, Owner, Exit) /\ phase' \in {"terminal", "terminated"}
        /\ UNCHANGED <<pool, worker, submitted, done>>
    BY <1>2 DEF terminal
  <2>2. Owner \in Threads /\ Owner \in Producers /\ Exit \in Items
    BY ThreadPoolAssumption DEF Threads, Producers, Items
  <2>3. /\ inner' = [inner EXCEPT ![Owner] = inner[Owner] \o <<Exit>>]
        /\ \A u \in Threads : SameCall(u) /\ r'[u].got = r[u].got
    BY <1>0, <2>1, <2>2, EnqueueEffect
  <2>4. pc' = pc /\ task' = task
    BY <2>1 DEF worker
  <2>5. \A w \in Workers : Held(w)' = Held(w)
    BY <2>3, <2>4, HeldSame
  <2>6. ExitsLast' /\ Overtaken' /\ Accounted'
    BY <1>0, <2>1, <2>3, <2>5, ExitAdded
  <2>7. Callers'
    BY <1>0, <2>3, <2>4, CallersSame
  <2>8. Leaving'
    BY <1>0, <2>1, <2>4 DEF Leaving
  <2>. QED
    BY <2>6, <2>7, <2>8 DEF OrderParts
<1>. QED
  BY <1>1, <1>2

LEMMA PhaseOrder ==
    ASSUME Base, OrderParts, destroy \/ join
    PROVE  OrderParts'
<1>1. /\ UNCHANGED <<queue, worker, submitted, done>>
      /\ phase' \in {"destroying", "destroyed"}
      /\ phase' = "destroyed" => \A w \in Workers : pc[w] = "exited"
  BY DEF destroy, join
<1>2. inner' = inner /\ r' = r /\ pc' = pc /\ task' = task
  BY <1>1 DEF queue, worker
<1>3. \A w \in Workers : Held(w)' = Held(w)
  BY <1>2, HeldSame
<1>4. Callers' /\ Leaving'
  BY <1>1, <1>2 DEF OrderParts, Callers, Dequeuing, Leaving
<1>5. ExitsLast' /\ Overtaken' /\ Accounted'
  BY <1>1, <1>2, <1>3, OrderKept DEF OrderParts
<1>. QED
  BY <1>4, <1>5 DEF OrderParts

LEMMA WorkerOrder ==
    ASSUME Base, blocking, OrderParts, NEW w \in Workers, WorkerStep(w)
    PROVE  OrderParts'
<1>0. /\ QueueInv /\ Waits /\ TypeOK /\ Stored
      /\ Callers /\ ExitsLast /\ Overtaken /\ Leaving /\ Accounted
      /\ inner \in [Producers -> Seq(Items)] /\ r \in [Threads -> Registers]
      /\ pc \in [Workers -> {"check", "token", "plain", "wait", "run", "exited"}]
      /\ task \in [Workers -> Tasks \cup {Exit}]
      /\ w \in Threads
  BY DEF Base, OrderParts, QueueInv, TypeOK, Threads
<1>1. CASE work_thread(w)
  <2>1. /\ pc[w] = "check" /\ pc' = [pc EXCEPT ![w] = "token"]
        /\ inner' = inner /\ r' = r /\ task' = task /\ phase' = phase
        /\ submitted' = submitted /\ done' = done
    BY <1>0, <1>1 DEF work_thread, Goto, Waits, queue, client
  <2>2. \A v \in Workers : Held(v)' = Held(v)
    BY <1>0, <2>1 DEF Held, ItemsOf
  <2>3. Callers'
    BY <1>0, <2>1 DEF Callers, Dequeuing
  <2>4. Leaving'
    BY <1>0, <2>1 DEF Leaving
  <2>. QED
    BY <1>0, <2>1, <2>2, <2>3, <2>4, OrderKept DEF OrderParts
<1>2. CASE try_dequeue(w) \/ wait_dequeue(w)
  <2>1. PICK kind \in {"try", "wait"} : task_queue!TryWaitMany(w, kind, 1)
    BY <1>2 DEF try_dequeue, wait_dequeue, task_queue!TryDequeue, task_queue!WaitDequeue
  <2>2. /\ inner' = inner /\ \A u \in Threads : r'[u].got = r[u].got
        /\ \A u \in Threads \ {w} : SameCall(u)
        /\ r'[w].max = 1
    BY <1>0, <2>1, CallEffect
  <2>3. /\ pc' = pc /\ task' = task /\ phase' = phase /\ submitted' = submitted /\ done' = done
        /\ Dequeuing(w)
    BY <1>2 DEF try_dequeue, wait_dequeue, worker, client, Dequeuing
  <2>4. \A v \in Workers : Held(v)' = Held(v)
    BY <2>2, <2>3, HeldSame
  <2>5. Callers'
    BY <1>0, <2>2, <2>3 DEF Callers, Dequeuing, SameCall
  <2>6. Leaving'
    BY <1>0, <2>3 DEF Leaving
  <2>. QED
    BY <1>0, <2>2, <2>3, <2>4, <2>5, <2>6, OrderKept DEF OrderParts
<1>3. CASE Dequeued(w)
  <2>1. /\ task_queue!Collect(w) /\ UNCHANGED <<inner, m_count, m_sema, at>>
        /\ inner' = inner /\ phase' = phase /\ submitted' = submitted /\ done' = done
    BY <1>3 DEF Dequeued, client
  <2>2. r'[w] = task_queue!NoCall /\ \A u \in Threads \ {w} : r'[u] = r[u]
    BY <1>0, <2>1, CollectEffect
  <2>3. Dequeuing(w)
    <3>1. at[w] = "idle" /\ r[w] # task_queue!NoCall
      BY <2>1 DEF task_queue!Collect
    <3>. QED
      BY <1>0, <3>1, NoCallOnly DEF Callers
  <2>4. pc[w] \notin {"run", "exited"}
    BY <2>3 DEF Dequeuing
  <2>5. Held(w) = ItemsOf(r[w].got)
    BY <2>4 DEF Held
  <2>6. ASSUME NEW v \in Workers, v # w, pc'[v] = pc[v], task'[v] = task[v]
        PROVE  Held(v)' = Held(v)
    BY <2>2, <2>6 DEF Held, ItemsOf, Threads
  <2>7. CASE r[w].got = <<>>
    <3>1. task' = task /\ pc' = [pc EXCEPT ![w] = AfterTry(w)]
      BY <1>3, <2>7 DEF Dequeued, Goto
    <3>2. AfterTry(w) \notin {"run", "exited"}
      BY DEF AfterTry
    <3>3. Held(w)' = {} /\ Held(w) = {}
      BY <1>0, <2>2, <2>5, <2>7, <3>1, <3>2, NoCallTyped, ItemsEmpty DEF Held, ItemsOf
    <3>4. \A v \in Workers : Held(v)' = Held(v)
      BY <1>0, <2>6, <3>1, <3>3
    <3>5. Callers'
      <4>1. \A v \in Workers \ {w} : Dequeuing(v)' = Dequeuing(v)
        BY <1>0, <3>1 DEF Dequeuing
      <4>. QED
        BY <1>0, <2>2, <4>1, NoCallTyped DEF Callers, Dequeuing
    <3>6. Leaving'
      BY <1>0, <2>1, <2>4, <3>1, <3>2 DEF Leaving
    <3>. QED
      BY <1>0, <2>1, <3>4, <3>5, <3>6, OrderKept DEF OrderParts
  <2>8. CASE r[w].got # <<>>
    <3>1. task' = [task EXCEPT ![w] = Head(r[w].got)] /\ pc' = [pc EXCEPT ![w] = "run"]
      BY <1>3, <2>8 DEF Dequeued, Goto
    <3>2. Len(r[w].got) = 1
      <4>1. /\ r[w].owed + Len(r[w].got) <= r[w].max
            /\ r[w].got \in Seq(Items) /\ Len(r[w].got) \in Nat
            /\ r[w].owed \in Nat /\ r[w].max \in Nat
        BY <1>0, Facts DEF Fits
      <4>2. r[w].max <= 1
        BY <1>0 DEF Callers
      <4>3. Len(r[w].got) # 0
        BY <2>8, <4>1
      <4>. QED
        BY <4>1, <4>2, <4>3, OneLeft
    <3>3. Held(w) = {r[w].got[1]} /\ Head(r[w].got) = r[w].got[1]
      BY <2>5, <3>2 DEF ItemsOf
    <3>4. Held(w)' = {r[w].got[1]}
      <4>1. task'[w] = r[w].got[1] /\ pc'[w] = "run"
        BY <1>0, <3>1, <3>3
      <4>. QED
        BY <2>2, <4>1, NoCallTyped, ItemsEmpty DEF Held, ItemsOf
    <3>5. \A v \in Workers : Held(v)' = Held(v)
      BY <1>0, <2>6, <3>1, <3>3, <3>4
    <3>6. Callers'
      <4>1. \A v \in Workers \ {w} : Dequeuing(v)' = Dequeuing(v)
        BY <1>0, <3>1 DEF Dequeuing
      <4>. QED
        BY <1>0, <2>2, <4>1, NoCallTyped DEF Callers, Dequeuing
    <3>7. Leaving'
      BY <1>0, <2>1, <2>4, <3>1 DEF Leaving
    <3>. QED
      BY <1>0, <2>1, <3>5, <3>6, <3>7, OrderKept DEF OrderParts
  <2>. QED
    BY <2>7, <2>8
<1>4. CASE try_dequeueAtOnce(w)
  BY <1>4 DEF try_dequeueAtOnce
<1>5. CASE submitFromTask(w)
  <2>1. PICK k \in SubmittedBy(task[w]) \ submitted :
           submitted' = submitted \cup {k} /\ Enqueue(w, task[w], k)
    BY <1>5 DEF submitFromTask
  <2>2. UNCHANGED <<pool, worker, client, done>>
    BY <1>5 DEF submitFromTask
  <2>3. k \in Tasks /\ By[k] = task[w] /\ task[w] \in Producers /\ task[w] # Owner /\ k \in Items
    BY <1>0, <2>1, ThreadPoolAssumption DEF SubmittedBy, Producers, Items
  <2>4. /\ inner' = [inner EXCEPT ![task[w]] = inner[task[w]] \o <<k>>]
        /\ \A u \in Threads : SameCall(u) /\ r'[u].got = r[u].got
    BY <1>0, <2>1, <2>2, <2>3, EnqueueEffect
  <2>5. pc' = pc /\ task' = task /\ phase' = phase
    BY <2>2 DEF worker, client
  <2>6. \A v \in Workers : Held(v)' = Held(v)
    BY <2>4, <2>5, HeldSame
  <2>7. ExitsLast' /\ Overtaken' /\ Accounted'
    BY <1>0, <2>1, <2>2, <2>3, <2>4, <2>5, <2>6, TaskAdded
  <2>8. Callers' /\ Leaving'
    BY <1>0, <2>4, <2>5, CallersSame DEF Leaving
  <2>. QED
    BY <2>7, <2>8 DEF OrderParts
<1>6. CASE run_pending_task(w)
  <2>1. /\ pc[w] = "run" /\ pc' = [pc EXCEPT ![w] = IF task[w] = Exit THEN "exited" ELSE "check"]
        /\ inner' = inner /\ r' = r /\ task' = task /\ phase' = phase
        /\ submitted' = submitted /\ done' = done \cup ({task[w]} \ {Exit})
    BY <1>6 DEF run_pending_task, Goto, queue, client
  <2>2. \A v \in Workers \ {w} : Held(v)' = Held(v)
    BY <1>0, <2>1 DEF Held, ItemsOf
  <2>3. Held(w)' \subseteq Held(w) /\ Held(w) \ Held(w)' \subseteq done'
    <3>1. CASE task[w] = Exit
      BY <1>0, <2>1, <3>1 DEF Held, ItemsOf
    <3>2. CASE task[w] # Exit
      <4>1. Held(w)' = ItemsOf(r[w].got) /\ Held(w) = ItemsOf(r[w].got) \cup {task[w]}
        BY <1>0, <2>1, <3>2 DEF Held, ItemsOf
      <4>. QED
        BY <2>1, <3>2, <4>1
    <3>. QED
      BY <3>1, <3>2
  <2>4. Callers'
    BY <1>0, <2>1 DEF Callers, Dequeuing
  <2>5. Leaving'
    BY <1>0, <2>1 DEF Leaving
  <2>. QED
    BY <1>0, <2>1, <2>2, <2>3, <2>4, <2>5, OrderKept DEF OrderParts
<1>. QED
  BY <1>1, <1>2, <1>3, <1>4, <1>5, <1>6 DEF WorkerStep

LEMMA StutterOrder ==
    ASSUME OrderParts, UNCHANGED vars PROVE OrderParts'
<1>1. /\ inner' = inner /\ r' = r /\ pc' = pc /\ task' = task /\ phase' = phase
      /\ submitted' = submitted /\ done' = done
  BY DEF vars, queue, worker, client
<1>2. \A v \in Workers : Held(v)' = Held(v)
  BY <1>1, HeldSame
<1>3. Callers' /\ Leaving'
  BY <1>1 DEF OrderParts, Callers, Dequeuing, Leaving
<1>. QED
  BY <1>1, <1>2, <1>3, OrderKept DEF OrderParts

LEMMA BlockingKept == [Next]_vars => blocking' = blocking
BY DEF Next, vars, pool, submit, terminal, destroy, join, WorkerStep, work_thread, try_dequeue,
       wait_dequeue, Dequeued, try_dequeueAtOnce, submitFromTask, run_pending_task, QueueStep

LEMMA NextOrder ==
    ASSUME Base, Order, [Next]_vars PROVE Order'
<1> SUFFICES ASSUME blocking, OrderParts PROVE OrderParts'
  BY BlockingKept DEF Order, OrderParts
<1>1. CASE \E w \in Workers : WorkerStep(w)
  BY <1>1, WorkerOrder
<1>2. CASE \E t \in Threads : QueueStep(t)
  BY <1>2, QueueStepOrder
<1>3. CASE UNCHANGED vars
  BY <1>3, StutterOrder
<1>. QED
  BY <1>1, <1>2, <1>3, ClientOrder, PhaseOrder DEF Next

LEMMA InitOrder == Init => Order
<1> SUFFICES ASSUME Init PROVE OrderParts
  BY DEF Order, OrderParts
<1>1. /\ inner = [p \in Producers |-> <<>>] /\ r = [t \in Threads |-> task_queue!NoCall]
      /\ pc = [w \in Workers |-> "check"] /\ phase = "open" /\ submitted = {}
  BY DEF Init, task_queue!Init
<1>2. \A p \in Producers : ItemsOf(inner[p]) = {} /\ inner[p] = <<>>
  BY <1>1, ItemsEmpty
<1>3. \A w \in Workers : Held(w) = {}
  BY <1>1, NoCallTyped, ItemsEmpty DEF Held, Threads
<1>4. Owner \in Producers
  BY ThreadPoolAssumption DEF Producers
<1>5. Callers
  BY <1>1, NoCallTyped DEF Callers
<1>6. ExitsLast
  <2>1. Len(inner[Owner]) = 0
    BY <1>2, <1>4
  <2>2. \A i \in 1 .. Len(inner[Owner]) : FALSE
    BY <2>1
  <2>. QED
    BY <1>2, <1>3, <1>4, <2>2 DEF ExitsLast, Waiting
<1>7. Overtaken /\ Leaving /\ Accounted
  BY <1>1, <1>3 DEF Overtaken, Leaving, Accounted
<1>. QED
  BY <1>5, <1>6, <1>7 DEF OrderParts

LEMMA OrderDrains ==
    ASSUME Base, Order PROVE OwnersTasksRun
<1> SUFFICES ASSUME phase = "destroyed", blocking, NEW k \in SubmittedBy(Owner) \cap submitted
             PROVE  k \in done
  BY DEF OwnersTasksRun
<1>0. QueueInv /\ Callers /\ ExitsLast /\ Overtaken /\ Leaving /\ Accounted
  BY DEF Base, Order
<1>1. \A w \in Workers : pc[w] = "exited" /\ task[w] = Exit
  BY <1>0 DEF Leaving
<1>2. \A w \in Workers : Held(w) = {Exit}
  <2> SUFFICES ASSUME NEW w \in Workers PROVE Held(w) = {Exit}
    OBVIOUS
  <2>1. w \in Threads /\ r[w].max = 0
    BY <1>0, <1>1 DEF Callers, Dequeuing, Threads
  <2>2. r[w].owed + Len(r[w].got) <= r[w].max
    BY <1>0, <2>1, Facts DEF Fits
  <2>3. r[w].got = <<>>
    <3>1. Len(r[w].got) = 0
      BY <1>0, <2>1, <2>2, Facts
    <3>. QED
      BY <1>0, <2>1, <3>1, Facts
  <2>. QED
    BY <1>1, <2>3, ItemsEmpty DEF Held
<1>3. Waiting \subseteq {Exit}
  BY <1>0, <1>2, ThreadPoolAssumption DEF Overtaken
<1>4. k # Exit
  BY ThreadPoolAssumption DEF SubmittedBy
<1>. QED
  BY <1>0, <1>2, <1>3, <1>4 DEF Accounted

-----------------------------------------------------------------------------
IInv == Base /\ Order

THEOREM PoolInvariant == Spec => []IInv
<1>1. Init => IInv
  BY InitBase, InitOrder DEF IInv
<1>2. IInv /\ [Next]_vars => IInv'
  BY NextBase, NextOrder DEF IInv
<1>. QED
  BY <1>1, <1>2, PTL DEF Spec

(* work_thread() and terminal() of the blocking pool, whose destructor     *)
(* only joins: every task that the owner submitted before terminal() has   *)
(* run when the destructor returns.                                        *)
THEOREM TerminalDrains == Spec => []OwnersTasksRun
<1>1. IInv => OwnersTasksRun
  BY OrderDrains DEF IInv
<1>. QED
  BY <1>1, PoolInvariant, PTL

(* The semaphore beside the queue, under the calls of the pool and under   *)
(* direct ones, in bulk and with a time limit: tokens and elements agree,  *)
(* and nobody sleeps who was signalled for without a post on its way.      *)
THEOREM TokensAgree == SpecMC => []PoolSound
<1>1. InitMC => BaseMC
  BY InitBaseMC
<1>2. BaseMC /\ [NextMC]_varsMC => BaseMC'
  BY NextBaseMC
<1>3. BaseMC => PoolSound
  BY BaseSound DEF BaseMC
<1>. QED
  BY <1>1, <1>2, <1>3, PTL DEF SpecMC
=============================================================================
