------------------------- MODULE GenericIndexProofs -------------------------
EXTENDS GenericIndex, WellFoundedInduction, SequenceTheorems, FiniteSetTheorems, TLAPS

(* A set with 0 in it that holds k + 1 whenever it holds k holds 0 .. n.   *)
LEMMA SetInduction ==
    ASSUME NEW n \in Nat, NEW T, 0 \in T, \A k \in 0 .. n - 1 : k \in T => k + 1 \in T
    PROVE  0 .. n \subseteq T
<1> DEFINE U == (0 .. n) \ T
<1>1. U \in SUBSET Nat /\ 0 \notin U /\ \A k \in U : k \in 1 .. n
  OBVIOUS
<1>2. \A k \in 0 .. n : k \in T \/ k \in U
  OBVIOUS
<1>. HIDE DEF U
<1>3. SUFFICES ASSUME U # {} PROVE FALSE
  BY <1>2
<1>4. PICK m \in U : \A k \in U : ~ (<<k, m>> \in OpToRel(<, Nat))
  BY <1>1, <1>3, NatLessThanWellFounded, WFMin
<1>5. m \in 1 .. n /\ m - 1 \in 0 .. n - 1 /\ m - 1 < m /\ m - 1 + 1 = m
  BY <1>1
<1>6. \A k \in U : ~ (k < m)
  BY <1>1, <1>4 DEF OpToRel
<1>7. m - 1 \in T
  BY <1>2, <1>5, <1>6
<1>8. m \in T
  BY <1>5, <1>7
<1>. QED
  BY <1>8 DEF U

(***************************************************************************)
(* The fields of indices, contents and undo states, as operators: each is  *)
(* one term to the provers.                                                *)
(***************************************************************************)
ObjectsOf(x) == x.objects
FaultOf(x) == x.fault
NextOf(u) == u.next_id
OldOf(s) == s.old_values
GoneOf(s) == s.removed_values
NewOf(s) == s.new_ids
FirstOf(s) == s.old_next_id
StackOf(st) == st.stack
StoppedOf(st) == st.stopped
RevisionOf(x) == x.revision

(***************************************************************************)
(* What the undo states are worth.  Undoing from the top down leads from   *)
(* the present content to older ones; u is the content on top of the undo  *)
(* state s.                                                                *)
(***************************************************************************)
Contents == [objects : Partial(Ids, Values), next_id : 0 .. MaxId]

Distinct(f) == Unique => \A i, j \in DOMAIN f : f[i] = f[j] => i = j

Sane(u) == /\ u \in Contents
           /\ \A i \in DOMAIN ObjectsOf(u) : i < NextOf(u)
           /\ Distinct(ObjectsOf(u))

(* What s records agrees with u.                                           *)
Fits(u, s) ==
    /\ \A i \in NewOf(s) : FirstOf(s) <= i /\ i < NextOf(u)
    /\ \A i \in DOMAIN OldOf(s) : i < FirstOf(s) /\ i \notin DOMAIN GoneOf(s)
    /\ \A i \in DOMAIN GoneOf(s) : i < FirstOf(s) /\ i \notin DOMAIN ObjectsOf(u)
    /\ \A i \in DOMAIN ObjectsOf(u) : i < FirstOf(s) \/ i \in NewOf(s)

(* The objects to be reverted or erased are there.                         *)
Kept(u, s) == NewOf(s) \cup DOMAIN OldOf(s) \subseteq DOMAIN ObjectsOf(u)

LEMMA PartialType ==
    ASSUME NEW S, NEW T, NEW f
    PROVE  f \in Partial(S, T) <=> /\ f = [i \in DOMAIN f |-> f[i]]
                                   /\ DOMAIN f \subseteq S
                                   /\ \A i \in DOMAIN f : f[i] \in T
<1>1. ASSUME f \in Partial(S, T)
      PROVE  /\ f = [i \in DOMAIN f |-> f[i]] /\ DOMAIN f \subseteq S
             /\ \A i \in DOMAIN f : f[i] \in T
  BY <1>1 DEF Partial
<1>2. ASSUME f = [i \in DOMAIN f |-> f[i]], DOMAIN f \subseteq S,
             \A i \in DOMAIN f : f[i] \in T
      PROVE  f \in Partial(S, T)
  <2>1. f \in [DOMAIN f -> T] /\ DOMAIN f \in SUBSET S
    BY <1>2
  <2>. QED
    BY <2>1 DEF Partial
<1>. QED
  BY <1>1, <1>2

LEMMA EmptyPartial == \A S, T : <<>> \in Partial(S, T) /\ DOMAIN <<>> = {}
<1>1. DOMAIN <<>> = {} /\ \A T : <<>> \in [{} -> T]
  OBVIOUS
<1>. QED
  BY <1>1 DEF Partial

LEMMA WithDomain ==
    ASSUME NEW f, NEW i, NEW v
    PROVE  /\ DOMAIN With(f, i, v) = DOMAIN f \cup {i}
           /\ With(f, i, v)[i] = v
           /\ \A j \in DOMAIN f \ {i} : With(f, i, v)[j] = f[j]
BY DEF With

LEMMA WithPartial ==
    ASSUME NEW f \in Partial(Ids, Values), NEW i \in Ids, NEW v \in Values
    PROVE  With(f, i, v) \in Partial(Ids, Values)
<1> DEFINE g == With(f, i, v)
<1>1. /\ DOMAIN g = DOMAIN f \cup {i} /\ g = [j \in DOMAIN g |-> g[j]]
      /\ g[i] = v /\ \A j \in DOMAIN f \ {i} : g[j] = f[j]
  BY DEF With
<1>2. DOMAIN f \subseteq Ids /\ \A j \in DOMAIN f : f[j] \in Values
  BY PartialType
<1> HIDE DEF g
<1>3. g \in Partial(Ids, Values)
  BY <1>1, <1>2, PartialType
<1>. QED
  BY <1>3 DEF g

LEMMA WithoutDomain ==
    \A f, A : /\ DOMAIN Without(f, A) = DOMAIN f \ A
              /\ \A j \in DOMAIN f \ A : Without(f, A)[j] = f[j]
BY DEF Without

LEMMA WithoutPartial ==
    ASSUME NEW f \in Partial(Ids, Values), NEW A
    PROVE  Without(f, A) \in Partial(Ids, Values)
<1> DEFINE g == Without(f, A)
<1>1. /\ DOMAIN g = DOMAIN f \ A /\ g = [j \in DOMAIN g |-> g[j]]
      /\ \A j \in DOMAIN f \ A : g[j] = f[j]
  BY DEF Without
<1>2. DOMAIN f \subseteq Ids /\ \A j \in DOMAIN f : f[j] \in Values
  BY PartialType
<1> HIDE DEF g
<1>3. g \in Partial(Ids, Values)
  BY <1>1, <1>2, PartialType
<1>. QED
  BY <1>3 DEF g

LEMMA SameFunction ==
    ASSUME NEW f \in Partial(Ids, Values), NEW g \in Partial(Ids, Values),
           DOMAIN f = DOMAIN g, \A i \in DOMAIN f : f[i] = g[i]
    PROVE  f = g
BY PartialType

-----------------------------------------------------------------------------
(* The loops of undo().                                                    *)

Rounds(g, container, idx, s, m) ==
    /\ g = [n \in 0 .. m |-> g[n]]
    /\ g[0] = idx
    /\ \A n \in 1 .. m : g[n] = Visit(container, g[n - 1], s, n - 1)

LEMMA RoundsDefine ==
    ASSUME NEW m \in Nat, NEW container, NEW idx, NEW s, NEW g
    PROVE  Rounds(g, container, idx, s, m)
             <=> g = [n \in 0 .. m |-> IF n = 0 THEN idx
                                       ELSE Visit(container, g[n - 1], s, n - 1)]
<1> DEFINE V(n) == IF n = 0 THEN idx ELSE Visit(container, g[n - 1], s, n - 1)
<1>1. V(0) = idx /\ \A n \in 1 .. m : V(n) = Visit(container, g[n - 1], s, n - 1)
  OBVIOUS
<1>2. /\ \A n \in 0 .. m : n = 0 \/ n \in 1 .. m
      /\ 0 \in 0 .. m /\ \A n \in 1 .. m : n \in 0 .. m
  OBVIOUS
<1> HIDE DEF V
<1>3. g = [n \in 0 .. m |-> V(n)] <=> g = [n \in 0 .. m |-> g[n]] /\ \A n \in 0 .. m : g[n] = V(n)
  BY Zenon
<1>4. Rounds(g, container, idx, s, m) <=> g = [n \in 0 .. m |-> V(n)]
  BY <1>1, <1>2, <1>3, Zenon DEF Rounds
<1>. QED
  BY <1>4 DEF V

LEMMA RoundsExist ==
    ASSUME NEW m \in Nat, NEW container, NEW idx, NEW s
    PROVE  \E g : Rounds(g, container, idx, s, m)
<1> DEFINE T == {n \in Nat : \E g : Rounds(g, container, idx, s, n)}
<1>1. 0 \in T
  <2>1. Rounds([n \in 0 .. 0 |-> idx], container, idx, s, 0)
    BY DEF Rounds
  <2>. QED
    BY <2>1
<1>2. ASSUME NEW k \in Nat, k \in T PROVE k + 1 \in T
  <2>1. PICK g : Rounds(g, container, idx, s, k)
    BY <1>2
  <2> DEFINE last == Visit(container, g[k], s, k)
             h == [n \in 0 .. k + 1 |-> IF n = k + 1 THEN last ELSE g[n]]
  <2> HIDE DEF last
  <2>2. h = [n \in 0 .. k + 1 |-> h[n]]
    OBVIOUS
  <2>3. h[k + 1] = last /\ \A n \in 0 .. k : h[n] = g[n]
    OBVIOUS
  <2> HIDE DEF h
  <2>4. \A n \in 1 .. k + 1 : h[n] = Visit(container, h[n - 1], s, n - 1)
    <3>1. \A n \in 1 .. k + 1 : /\ n = k + 1 \/ n \in 1 .. k
                                /\ n - 1 \in 0 .. k
                                /\ n = k + 1 => n - 1 = k
      OBVIOUS
    <3>2. \A n \in 1 .. k : n \in 0 .. k
      OBVIOUS
    <3>. QED
      BY <2>1, <2>3, <3>1, <3>2, Zenon DEF Rounds, last
  <2>5. h[0] = idx
    BY <2>1, <2>3 DEF Rounds
  <2>6. Rounds(h, container, idx, s, k + 1)
    BY <2>2, <2>4, <2>5 DEF Rounds
  <2>. QED
    BY <2>6
<1>. HIDE DEF T
<1>3. 0 .. m \subseteq T
  BY <1>1, <1>2, SetInduction
<1>. QED
  BY <1>3 DEF T

LEMMA ForEachRounds ==
    ASSUME NEW container, NEW idx, NEW s
    PROVE  \E g : /\ Rounds(g, container, idx, s, MaxId)
                  /\ ForEach(container, idx, s) = g[MaxId]
<1> DEFINE P(f) == f = [n \in 0 .. MaxId |-> IF n = 0 THEN idx
                                            ELSE Visit(container, f[n - 1], s, n - 1)]
           g == CHOOSE f : P(f)
<1>1. MaxId \in Nat
  BY IndexAssumption
<1>2. \A f : Rounds(f, container, idx, s, MaxId) <=> P(f)
  BY <1>1, RoundsDefine
<1>3. \E f : P(f)
  BY <1>1, <1>2, RoundsExist
<1>4. P(g)
  BY <1>3
<1>5. ForEach(container, idx, s) = g[MaxId]
  BY DEF ForEach
<1>. HIDE DEF g, P
<1>. QED
  BY <1>2, <1>4, <1>5

LEMMA DistinctWith ==
    ASSUME NEW f \in Partial(Ids, Values), NEW i \in Ids, NEW v \in Values,
           Distinct(f), ~Taken(f, i, v)
    PROVE  Distinct(With(f, i, v))
<1> DEFINE g == With(f, i, v)
<1>1. /\ DOMAIN g = DOMAIN f \cup {i} /\ g[i] = v
      /\ \A j \in DOMAIN f \ {i} : g[j] = f[j]
  BY DEF With
<1> HIDE DEF g
<1>2. SUFFICES ASSUME Unique, NEW j \in DOMAIN g, NEW k \in DOMAIN g, g[j] = g[k]
               PROVE  j = k
  BY DEF Distinct, g
<1>. QED
  BY <1>1, <1>2 DEF Distinct, Taken

LEMMA DistinctWithout ==
    ASSUME NEW f \in Partial(Ids, Values), NEW A, Distinct(f)
    PROVE  Distinct(Without(f, A))
<1> DEFINE g == Without(f, A)
<1>1. DOMAIN g = DOMAIN f \ A /\ \A j \in DOMAIN f \ A : g[j] = f[j]
  BY WithoutDomain
<1> HIDE DEF g
<1>2. SUFFICES ASSUME Unique, NEW j \in DOMAIN g, NEW k \in DOMAIN g, g[j] = g[k]
               PROVE  j = k
  BY DEF Distinct, g
<1>. QED
  BY <1>1, <1>2 DEF Distinct

Drop(f, i) == Without(f, {i})

LEMMA DropFacts ==
    ASSUME NEW f \in Partial(Ids, Values), NEW i
    PROVE  /\ Drop(f, i) \in Partial(Ids, Values)
           /\ DOMAIN Drop(f, i) = DOMAIN f \ {i}
           /\ \A j \in DOMAIN f \ {i} : Drop(f, i)[j] = f[j]
           /\ Distinct(f) => Distinct(Drop(f, i))
<1> DEFINE A == {i}
<1> HIDE DEF A
<1>1. /\ Without(f, A) \in Partial(Ids, Values)
      /\ DOMAIN Without(f, A) = DOMAIN f \ A
      /\ \A j \in DOMAIN f \ A : Without(f, A)[j] = f[j]
      /\ Distinct(f) => Distinct(Without(f, A))
  BY WithoutPartial, WithoutDomain, DistinctWithout
<1>. QED
  BY <1>1, Zenon DEF A, Drop

(* The same facts about a function known to be equal to one of these.      *)
LEMMA IsDrop ==
    ASSUME NEW f \in Partial(Ids, Values), NEW i, NEW d, d = Drop(f, i)
    PROVE  /\ d \in Partial(Ids, Values)
           /\ \A j : j \in DOMAIN d <=> j \in DOMAIN f /\ j # i
           /\ \A j \in DOMAIN d : d[j] = f[j]
           /\ Distinct(f) => Distinct(d)
<1>1. /\ d \in Partial(Ids, Values)
      /\ Distinct(f) => Distinct(d)
  BY DropFacts, Zenon
<1>2. /\ DOMAIN d = DOMAIN f \ {i}
      /\ \A j \in DOMAIN f \ {i} : d[j] = f[j]
  BY DEF Drop, Without
<1>. QED
  BY <1>1, <1>2

LEMMA IsWith ==
    ASSUME NEW f, NEW i, NEW v, NEW w, w = With(f, i, v)
    PROVE  /\ \A j : j \in DOMAIN w <=> j \in DOMAIN f \/ j = i
           /\ w[i] = v
           /\ \A j \in DOMAIN f : j # i => w[j] = f[j]
BY DEF With

LEMMA RecordFields ==
    ASSUME NEW s \in UndoState
    PROVE  /\ OldOf(s) \in Partial(Ids, Values)
           /\ GoneOf(s) \in Partial(Ids, Values)
           /\ NewOf(s) \subseteq Ids
           /\ FirstOf(s) \in 0 .. MaxId
           /\ s.revision \in Int
           /\ DOMAIN OldOf(s) \subseteq Ids
           /\ DOMAIN GoneOf(s) \subseteq Ids
           /\ \A i \in DOMAIN OldOf(s) : OldOf(s)[i] \in Values
           /\ \A i \in DOMAIN GoneOf(s) : GoneOf(s)[i] \in Values
<1>1. OldOf(s) \in Partial(Ids, Values) /\ GoneOf(s) \in Partial(Ids, Values)
  BY DEF UndoState, OldOf, GoneOf
<1>. QED
  BY <1>1, PartialType DEF UndoState, NewOf, FirstOf

(***************************************************************************)
(* The rounds of the three loops, by what each does to the index.          *)
(***************************************************************************)
Building == [objects : Partial(Ids, Values), fault : {"none", "threw", "undefined"}]

RevertRounds(g, x, s, y) ==
    /\ g[0] = x
    /\ y = g[MaxId]
    /\ \A n \in 1 .. MaxId :
          /\ n - 1 \in DOMAIN OldOf(s) => g[n] = Revert(g[n - 1], n - 1, OldOf(s)[n - 1])
          /\ n - 1 \notin DOMAIN OldOf(s) => g[n] = g[n - 1]

LEMMA RevertRoundsExist ==
    ASSUME NEW x, NEW s
    PROVE  \E g : RevertRounds(g, x, s, ForEach("old_values", x, s))
<1>1. PICK g : /\ Rounds(g, "old_values", x, s, MaxId)
               /\ ForEach("old_values", x, s) = g[MaxId]
  BY ForEachRounds, Zenon
<1>2. /\ g[0] = x
      /\ \A n \in 1 .. MaxId : g[n] = Visit("old_values", g[n - 1], s, n - 1)
  BY <1>1, Zenon DEF Rounds
<1>3. \A i, n : /\ n \in DOMAIN OldOf(s) => Visit("old_values", i, s, n) = Revert(i, n, OldOf(s)[n])
                /\ n \notin DOMAIN OldOf(s) => Visit("old_values", i, s, n) = i
  BY DEF Visit, OldOf, GoneOf, NewOf
<1>4. \A n \in 1 .. MaxId :
         /\ n - 1 \in DOMAIN OldOf(s) => g[n] = Revert(g[n - 1], n - 1, OldOf(s)[n - 1])
         /\ n - 1 \notin DOMAIN OldOf(s) => g[n] = g[n - 1]
  BY <1>2, <1>3, Zenon
<1>. QED
  BY <1>1, <1>2, <1>4, Zenon DEF RevertRounds

EraseRounds(g, x, s, y) ==
    /\ g[0] = x
    /\ y = g[MaxId]
    /\ \A n \in 1 .. MaxId :
          /\ n - 1 \in NewOf(s) => g[n] = EraseNew(g[n - 1], n - 1)
          /\ n - 1 \notin NewOf(s) => g[n] = g[n - 1]

LEMMA EraseRoundsExist ==
    ASSUME NEW x, NEW s
    PROVE  \E g : EraseRounds(g, x, s, ForEach("new_ids", x, s))
<1>1. PICK g : /\ Rounds(g, "new_ids", x, s, MaxId)
               /\ ForEach("new_ids", x, s) = g[MaxId]
  BY ForEachRounds, Zenon
<1>2. /\ g[0] = x
      /\ \A n \in 1 .. MaxId : g[n] = Visit("new_ids", g[n - 1], s, n - 1)
  BY <1>1, Zenon DEF Rounds
<1>3. \A i, n : /\ n \in NewOf(s) => Visit("new_ids", i, s, n) = EraseNew(i, n)
                /\ n \notin NewOf(s) => Visit("new_ids", i, s, n) = i
  BY DEF Visit, OldOf, GoneOf, NewOf
<1>4. \A n \in 1 .. MaxId :
         /\ n - 1 \in NewOf(s) => g[n] = EraseNew(g[n - 1], n - 1)
         /\ n - 1 \notin NewOf(s) => g[n] = g[n - 1]
  BY <1>2, <1>3, Zenon
<1>. QED
  BY <1>1, <1>2, <1>4, Zenon DEF EraseRounds

ReinsertRounds(g, x, s, y) ==
    /\ g[0] = x
    /\ y = g[MaxId]
    /\ \A n \in 1 .. MaxId :
          /\ n - 1 \in DOMAIN GoneOf(s) => g[n] = Reinsert(g[n - 1], n - 1, GoneOf(s)[n - 1])
          /\ n - 1 \notin DOMAIN GoneOf(s) => g[n] = g[n - 1]

LEMMA ReinsertRoundsExist ==
    ASSUME NEW x, NEW s
    PROVE  \E g : ReinsertRounds(g, x, s, ForEach("removed_values", x, s))
<1>1. PICK g : /\ Rounds(g, "removed_values", x, s, MaxId)
               /\ ForEach("removed_values", x, s) = g[MaxId]
  BY ForEachRounds, Zenon
<1>2. /\ g[0] = x
      /\ \A n \in 1 .. MaxId : g[n] = Visit("removed_values", g[n - 1], s, n - 1)
  BY <1>1, Zenon DEF Rounds
<1>3. \A i, n :
         /\ n \in DOMAIN GoneOf(s) =>
               Visit("removed_values", i, s, n) = Reinsert(i, n, GoneOf(s)[n])
         /\ n \notin DOMAIN GoneOf(s) => Visit("removed_values", i, s, n) = i
  BY DEF Visit, OldOf, GoneOf, NewOf
<1>4. \A n \in 1 .. MaxId :
         /\ n - 1 \in DOMAIN GoneOf(s) => g[n] = Reinsert(g[n - 1], n - 1, GoneOf(s)[n - 1])
         /\ n - 1 \notin DOMAIN GoneOf(s) => g[n] = g[n - 1]
  BY <1>2, <1>3, Zenon
<1>. QED
  BY <1>1, <1>2, <1>4, Zenon DEF ReinsertRounds

LEMMA BuildingFields ==
    ASSUME NEW x \in Building
    PROVE  /\ ObjectsOf(x) \in Partial(Ids, Values)
           /\ FaultOf(x) \in {"none", "threw", "undefined"}
           /\ DOMAIN ObjectsOf(x) \subseteq Ids
<1>1. ObjectsOf(x) \in Partial(Ids, Values)
  BY DEF Building, ObjectsOf
<1>. QED
  BY <1>1, PartialType DEF Building, FaultOf

LEMMA RevertCases ==
    ASSUME NEW x \in Building, NEW n \in Ids, NEW v \in Values
    PROVE  /\ Revert(x, n, v) \in Building
           /\ FaultOf(x) # "none" => Revert(x, n, v) = x
           /\ FaultOf(x) = "none" /\ n \notin DOMAIN ObjectsOf(x) =>
                 /\ FaultOf(Revert(x, n, v)) = "undefined"
                 /\ ObjectsOf(Revert(x, n, v)) = ObjectsOf(x)
           /\ FaultOf(x) = "none" /\ n \in DOMAIN ObjectsOf(x) /\ Taken(ObjectsOf(x), n, v) =>
                 /\ FaultOf(Revert(x, n, v)) = "threw"
                 /\ ObjectsOf(Revert(x, n, v)) = Drop(ObjectsOf(x), n)
           /\ FaultOf(x) = "none" /\ n \in DOMAIN ObjectsOf(x) /\ ~Taken(ObjectsOf(x), n, v) =>
                 /\ FaultOf(Revert(x, n, v)) = "none"
                 /\ ObjectsOf(Revert(x, n, v)) = With(ObjectsOf(x), n, v)
<1>1. /\ Drop(ObjectsOf(x), n) \in Partial(Ids, Values)
      /\ With(ObjectsOf(x), n, v) \in Partial(Ids, Values)
  BY BuildingFields, WithPartial, DropFacts
<1>. QED
  BY <1>1 DEF Revert, Building, Drop, ObjectsOf, FaultOf

LEMMA EraseCases ==
    ASSUME NEW x \in Building, NEW n \in Ids
    PROVE  /\ EraseNew(x, n) \in Building
           /\ FaultOf(x) # "none" => EraseNew(x, n) = x
           /\ FaultOf(x) = "none" /\ n \notin DOMAIN ObjectsOf(x) =>
                 /\ FaultOf(EraseNew(x, n)) = "undefined"
                 /\ ObjectsOf(EraseNew(x, n)) = ObjectsOf(x)
           /\ FaultOf(x) = "none" /\ n \in DOMAIN ObjectsOf(x) =>
                 /\ FaultOf(EraseNew(x, n)) = "none"
                 /\ ObjectsOf(EraseNew(x, n)) = Drop(ObjectsOf(x), n)
<1>1. Drop(ObjectsOf(x), n) \in Partial(Ids, Values)
  BY BuildingFields, DropFacts
<1>. QED
  BY <1>1 DEF EraseNew, Building, Drop, ObjectsOf, FaultOf

LEMMA ReinsertCases ==
    ASSUME NEW x \in Building, NEW n \in Ids, NEW v \in Values
    PROVE  /\ Reinsert(x, n, v) \in Building
           /\ FaultOf(x) # "none" => Reinsert(x, n, v) = x
           /\ FaultOf(x) = "none" /\ n \notin DOMAIN ObjectsOf(x) /\ ~Taken(ObjectsOf(x), n, v) =>
                 /\ FaultOf(Reinsert(x, n, v)) = "none"
                 /\ ObjectsOf(Reinsert(x, n, v)) = With(ObjectsOf(x), n, v)
<1>1. With(ObjectsOf(x), n, v) \in Partial(Ids, Values)
  BY BuildingFields, WithPartial
<1>. QED
  BY <1>1 DEF Reinsert, Building, ObjectsOf, FaultOf

(* The index before the loop over old_values comes to n: o was its content.  *)
Reverting(x, o, s, n) ==
    /\ x \in Building
    /\ DOMAIN ObjectsOf(x) \subseteq DOMAIN o
    /\ \A i \in DOMAIN o \ DOMAIN OldOf(s) :
          i \in DOMAIN ObjectsOf(x) /\ ObjectsOf(x)[i] = o[i]
    /\ Distinct(ObjectsOf(x))
    /\ FaultOf(x) = "none" =>
          /\ DOMAIN ObjectsOf(x) = DOMAIN o
          /\ \A i \in DOMAIN OldOf(s) : i < n =>
                i \in DOMAIN o /\ ObjectsOf(x)[i] = OldOf(s)[i]
    /\ DOMAIN OldOf(s) \subseteq DOMAIN o => FaultOf(x) # "undefined"

LEMMA RevertRound ==
    ASSUME NEW s \in UndoState, NEW o \in Partial(Ids, Values), NEW n \in Ids,
           NEW x, NEW y, NEW v,
           Reverting(x, o, s, n),
           n \in DOMAIN OldOf(s) => v = OldOf(s)[n] /\ y = Revert(x, n, v),
           n \notin DOMAIN OldOf(s) => y = x
    PROVE  Reverting(y, o, s, n + 1)
<1>1. \A i \in Ids : i \in Int /\ (i < n + 1 <=> i < n \/ i = n)
  BY IndexAssumption DEF Ids
<1>2. /\ x \in Building /\ ObjectsOf(x) \in Partial(Ids, Values)
      /\ DOMAIN ObjectsOf(x) \subseteq Ids /\ Distinct(ObjectsOf(x))
  BY BuildingFields DEF Reverting
<1>3. /\ DOMAIN OldOf(s) \subseteq Ids /\ DOMAIN o \subseteq Ids
      /\ n \in DOMAIN OldOf(s) => v \in Values
  BY RecordFields, PartialType
<1>4. CASE FaultOf(x) # "none" \/ n \notin DOMAIN OldOf(s)
  <2>1. y = x
    BY <1>2, <1>3, <1>4, RevertCases
  <2>2. \A i \in DOMAIN OldOf(s) : FaultOf(x) = "none" => (i < n + 1 <=> i < n)
    BY <1>1, <1>3, <1>4
  <2>. QED
    BY <2>1, <2>2 DEF Reverting
<1>5. CASE FaultOf(x) = "none" /\ n \in DOMAIN OldOf(s) /\ n \notin DOMAIN ObjectsOf(x)
  <2>1. y \in Building /\ FaultOf(y) = "undefined" /\ ObjectsOf(y) = ObjectsOf(x)
    BY <1>2, <1>3, <1>5, RevertCases
  <2>2. n \notin DOMAIN o
    BY <1>5 DEF Reverting
  <2>. QED
    BY <1>5, <2>1, <2>2 DEF Reverting
<1>6. CASE /\ FaultOf(x) = "none" /\ n \in DOMAIN OldOf(s) /\ n \in DOMAIN ObjectsOf(x)
           /\ Taken(ObjectsOf(x), n, v)
  <2>1. y \in Building /\ FaultOf(y) = "threw" /\ ObjectsOf(y) = Drop(ObjectsOf(x), n)
    BY <1>2, <1>3, <1>6, RevertCases
  <2>2. /\ DOMAIN ObjectsOf(y) = DOMAIN ObjectsOf(x) \ {n}
        /\ \A i \in DOMAIN ObjectsOf(x) \ {n} : ObjectsOf(y)[i] = ObjectsOf(x)[i]
        /\ Distinct(ObjectsOf(y))
    <3> DEFINE f == ObjectsOf(x)  d == ObjectsOf(y)
    <3>1. f \in Partial(Ids, Values) /\ d = Drop(f, n) /\ Distinct(f)
      BY <1>2, <2>1
    <3> HIDE DEF f, d
    <3>2. /\ \A j : j \in DOMAIN d <=> j \in DOMAIN f /\ j # n
          /\ \A j \in DOMAIN d : d[j] = f[j]
          /\ Distinct(d)
      BY <3>1, IsDrop
    <3>3. DOMAIN d = DOMAIN f \ {n}
      BY <3>2
    <3>. QED
      BY <3>2, <3>3 DEF d, f
  <2>. QED
    BY <1>6, <2>1, <2>2 DEF Reverting
<1>7. CASE /\ FaultOf(x) = "none" /\ n \in DOMAIN OldOf(s) /\ n \in DOMAIN ObjectsOf(x)
           /\ ~Taken(ObjectsOf(x), n, v)
  <2>1. y \in Building /\ FaultOf(y) = "none" /\ ObjectsOf(y) = With(ObjectsOf(x), n, v)
    BY <1>2, <1>3, <1>7, RevertCases
  <2>2. /\ DOMAIN ObjectsOf(y) = DOMAIN ObjectsOf(x)
        /\ ObjectsOf(y)[n] = v
        /\ \A i \in DOMAIN ObjectsOf(x) \ {n} : ObjectsOf(y)[i] = ObjectsOf(x)[i]
    BY <1>7, <2>1, IsWith
  <2>3. Distinct(ObjectsOf(y))
    BY <1>2, <1>3, <1>7, <2>1, DistinctWith DEF Reverting
  <2>4. \A i \in DOMAIN OldOf(s) : i < n + 1 =>
           i \in DOMAIN o /\ ObjectsOf(y)[i] = OldOf(s)[i]
    BY <1>1, <1>3, <1>7, <2>2 DEF Reverting
  <2>5. \A i \in DOMAIN o \ DOMAIN OldOf(s) :
           i \in DOMAIN ObjectsOf(y) /\ ObjectsOf(y)[i] = o[i]
    BY <1>7, <2>2 DEF Reverting
  <2>. QED
    BY <1>7, <2>1, <2>2, <2>3, <2>4, <2>5 DEF Reverting
<1>. QED
  BY <1>4, <1>5, <1>6, <1>7

LEMMA Reverts ==
    ASSUME NEW s \in UndoState, NEW x \in Building, FaultOf(x) = "none",
           Distinct(ObjectsOf(x))
    PROVE  Reverting(ForEach("old_values", x, s), ObjectsOf(x), s, MaxId)
<1> DEFINE y == ForEach("old_values", x, s)
           o == ObjectsOf(x)
<1>1. PICK g : RevertRounds(g, x, s, y)
  BY RevertRoundsExist, Zenon
<1> HIDE DEF y
<1> DEFINE T == {n \in Nat : Reverting(g[n], o, s, n)}
<1>2. /\ MaxId \in Nat /\ DOMAIN o \subseteq Ids /\ DOMAIN OldOf(s) \subseteq Ids
      /\ o \in Partial(Ids, Values)
  BY IndexAssumption, BuildingFields, RecordFields
<1>3. 0 \in T
  <2>1. g[0] = x
    BY <1>1 DEF RevertRounds
  <2>2. \A i \in DOMAIN OldOf(s) : ~ (i < 0)
    BY <1>2 DEF Ids
  <2>. QED
    BY <2>1, <2>2 DEF Reverting
<1>4. ASSUME NEW n \in 0 .. MaxId - 1, n \in T PROVE n + 1 \in T
  <2>1. n \in Ids /\ n + 1 \in 1 .. MaxId /\ n + 1 \in Nat /\ n + 1 - 1 = n
    BY <1>2 DEF Ids
  <2>2. /\ n \in DOMAIN OldOf(s) => g[n + 1] = Revert(g[n], n, OldOf(s)[n])
        /\ n \notin DOMAIN OldOf(s) => g[n + 1] = g[n]
    BY <1>1, <2>1 DEF RevertRounds
  <2>3. Reverting(g[n + 1], o, s, n + 1)
    BY <1>2, <1>4, <2>1, <2>2, RevertRound
  <2>. QED
    BY <2>1, <2>3
<1>. HIDE DEF T
<1>5. 0 .. MaxId \subseteq T
  BY <1>2, <1>3, <1>4, SetInduction
<1>6. Reverting(y, o, s, MaxId)
  BY <1>1, <1>2, <1>5 DEF T, RevertRounds
<1>. QED
  BY <1>6 DEF y

(* The index before the loop over new_ids comes to n: o was its content.    *)
Erasing(x, o, s, n) ==
    /\ x \in Building
    /\ DOMAIN ObjectsOf(x) \subseteq DOMAIN o
    /\ \A i \in DOMAIN ObjectsOf(x) : ObjectsOf(x)[i] = o[i]
    /\ DOMAIN o \ NewOf(s) \subseteq DOMAIN ObjectsOf(x)
    /\ Distinct(ObjectsOf(x))
    /\ FaultOf(x) = "none" =>
          \A i \in DOMAIN ObjectsOf(x) \cap NewOf(s) : ~ (i < n)
    /\ \A i \in DOMAIN o : ~ (i < n) => i \in DOMAIN ObjectsOf(x)
    /\ FaultOf(x) = "none" => \A i \in NewOf(s) : i < n => i \in DOMAIN o
    /\ FaultOf(x) # "threw"
    /\ NewOf(s) \subseteq DOMAIN o => FaultOf(x) # "undefined"

LEMMA EraseRound ==
    ASSUME NEW s \in UndoState, NEW o \in Partial(Ids, Values), NEW n \in Ids, NEW x, NEW y,
           Erasing(x, o, s, n),
           n \in NewOf(s) => y = EraseNew(x, n),
           n \notin NewOf(s) => y = x
    PROVE  Erasing(y, o, s, n + 1)
<1>1. \A i \in Ids : i \in Int /\ (i < n + 1 <=> i < n \/ i = n) /\ ~ (n < n)
  BY IndexAssumption DEF Ids
<1>2. /\ x \in Building /\ ObjectsOf(x) \in Partial(Ids, Values)
      /\ DOMAIN ObjectsOf(x) \subseteq Ids /\ Distinct(ObjectsOf(x))
  BY BuildingFields DEF Erasing
<1>3. NewOf(s) \subseteq Ids /\ DOMAIN o \subseteq Ids
  BY RecordFields, PartialType
<1>4. CASE FaultOf(x) # "none" \/ n \notin NewOf(s)
  <2>1. y = x
    BY <1>2, <1>3, <1>4, EraseCases
  <2>2. \A i \in NewOf(s) : FaultOf(x) = "none" => (i < n + 1 <=> i < n)
    BY <1>1, <1>3, <1>4
  <2>3. \A i \in DOMAIN o : ~ (i < n + 1) => ~ (i < n)
    BY <1>1, <1>3
  <2>. QED
    BY <2>1, <2>2, <2>3 DEF Erasing
<1>5. CASE FaultOf(x) = "none" /\ n \in NewOf(s) /\ n \notin DOMAIN ObjectsOf(x)
  <2>1. y \in Building /\ FaultOf(y) = "undefined" /\ ObjectsOf(y) = ObjectsOf(x)
    BY <1>2, <1>3, <1>5, EraseCases
  <2>2. n \notin DOMAIN o
    BY <1>1, <1>5 DEF Erasing
  <2>3. \A i \in DOMAIN o : ~ (i < n + 1) => ~ (i < n)
    BY <1>1, <1>3
  <2>. QED
    BY <1>5, <2>1, <2>2, <2>3 DEF Erasing
<1>6. CASE FaultOf(x) = "none" /\ n \in NewOf(s) /\ n \in DOMAIN ObjectsOf(x)
  <2>1. y \in Building /\ FaultOf(y) = "none" /\ ObjectsOf(y) = Drop(ObjectsOf(x), n)
    BY <1>2, <1>3, <1>6, EraseCases
  <2>2. /\ \A i : i \in DOMAIN ObjectsOf(y) <=> i \in DOMAIN ObjectsOf(x) /\ i # n
        /\ \A i \in DOMAIN ObjectsOf(y) : ObjectsOf(y)[i] = ObjectsOf(x)[i]
        /\ Distinct(ObjectsOf(y))
    BY <1>2, <2>1, IsDrop
  <2>3. \A i \in DOMAIN o : ~ (i < n + 1) => ~ (i < n) /\ i # n
    BY <1>1, <1>3
  <2>4. \A i \in DOMAIN ObjectsOf(y) \cap NewOf(s) : ~ (i < n + 1)
    BY <1>1, <1>2, <1>3, <1>6, <2>2 DEF Erasing
  <2>5. \A i \in NewOf(s) : i < n + 1 => i \in DOMAIN o
    BY <1>1, <1>3, <1>6 DEF Erasing
  <2>. QED
    BY <1>6, <2>1, <2>2, <2>3, <2>4, <2>5 DEF Erasing
<1>. QED
  BY <1>4, <1>5, <1>6

LEMMA Erases ==
    ASSUME NEW s \in UndoState, NEW x \in Building, FaultOf(x) = "none",
           Distinct(ObjectsOf(x))
    PROVE  Erasing(ForEach("new_ids", x, s), ObjectsOf(x), s, MaxId)
<1> DEFINE y == ForEach("new_ids", x, s)
           o == ObjectsOf(x)
<1>1. PICK g : EraseRounds(g, x, s, y)
  BY EraseRoundsExist, Zenon
<1> HIDE DEF y
<1> DEFINE T == {n \in Nat : Erasing(g[n], o, s, n)}
<1>2. /\ MaxId \in Nat /\ DOMAIN o \subseteq Ids /\ NewOf(s) \subseteq Ids
      /\ o \in Partial(Ids, Values)
  BY IndexAssumption, BuildingFields, RecordFields
<1>3. 0 \in T
  <2>1. g[0] = x
    BY <1>1 DEF EraseRounds
  <2>2. \A i \in Ids : ~ (i < 0)
    BY <1>2 DEF Ids
  <2>. QED
    BY <1>2, <2>1, <2>2 DEF Erasing
<1>4. ASSUME NEW n \in 0 .. MaxId - 1, n \in T PROVE n + 1 \in T
  <2>1. n \in Ids /\ n + 1 \in 1 .. MaxId /\ n + 1 \in Nat /\ n + 1 - 1 = n
    BY <1>2 DEF Ids
  <2>2. /\ n \in NewOf(s) => g[n + 1] = EraseNew(g[n], n)
        /\ n \notin NewOf(s) => g[n + 1] = g[n]
    BY <1>1, <2>1 DEF EraseRounds
  <2>3. Erasing(g[n + 1], o, s, n + 1)
    BY <1>2, <1>4, <2>1, <2>2, EraseRound
  <2>. QED
    BY <2>1, <2>3
<1>. HIDE DEF T
<1>5. 0 .. MaxId \subseteq T
  BY <1>2, <1>3, <1>4, SetInduction
<1>6. Erasing(y, o, s, MaxId)
  BY <1>1, <1>2, <1>5 DEF T, EraseRounds
<1>. QED
  BY <1>6 DEF y

(***************************************************************************)
(* The index before the loop over removed_values comes to n.  The loop     *)
(* cannot fail where no removed object has its id or its value in use.     *)
(***************************************************************************)
Reinserting(x, o, s, n) ==
    /\ x \in Building
    /\ FaultOf(x) = "none"
    /\ \A i : i \in DOMAIN ObjectsOf(x) <=>
               i \in DOMAIN o \/ (i \in DOMAIN GoneOf(s) /\ i < n)
    /\ \A i \in DOMAIN o : ObjectsOf(x)[i] = o[i]
    /\ \A i \in DOMAIN GoneOf(s) : i < n => ObjectsOf(x)[i] = GoneOf(s)[i]

(* No removed object has its id or its value in use.                       *)
Free(o, s) ==
    /\ DOMAIN o \cap DOMAIN GoneOf(s) = {}
    /\ Unique => \A i \in DOMAIN GoneOf(s) :
                    /\ \A j \in DOMAIN o : o[j] # GoneOf(s)[i]
                    /\ \A j \in DOMAIN GoneOf(s) : GoneOf(s)[j] = GoneOf(s)[i] => i = j

LEMMA ReinsertRound ==
    ASSUME NEW s \in UndoState, NEW o \in Partial(Ids, Values), NEW n \in Ids,
           NEW x, NEW y, NEW v,
           Free(o, s), Reinserting(x, o, s, n),
           n \in DOMAIN GoneOf(s) => v = GoneOf(s)[n] /\ y = Reinsert(x, n, v),
           n \notin DOMAIN GoneOf(s) => y = x
    PROVE  Reinserting(y, o, s, n + 1)
<1>1. \A i \in Ids : i \in Int /\ (i < n + 1 <=> i < n \/ i = n) /\ ~ (n < n)
  BY IndexAssumption DEF Ids
<1>2. x \in Building /\ ObjectsOf(x) \in Partial(Ids, Values)
  BY BuildingFields DEF Reinserting
<1>3. /\ DOMAIN GoneOf(s) \subseteq Ids /\ DOMAIN o \subseteq Ids
      /\ n \in DOMAIN GoneOf(s) => v \in Values
  BY RecordFields, PartialType
<1>4. CASE n \notin DOMAIN GoneOf(s)
  <2>1. y = x
    BY <1>4
  <2>2. \A i \in DOMAIN GoneOf(s) : i < n + 1 <=> i < n
    BY <1>1, <1>3, <1>4
  <2>. QED
    BY <2>1, <2>2 DEF Reinserting
<1>5. CASE n \in DOMAIN GoneOf(s)
  <2>1. n \notin DOMAIN ObjectsOf(x)
    BY <1>1, <1>3, <1>5 DEF Reinserting, Free
  <2>2. ~ Taken(ObjectsOf(x), n, v)
    <3>1. SUFFICES ASSUME Unique, NEW j \in DOMAIN ObjectsOf(x), ObjectsOf(x)[j] = v
                   PROVE  FALSE
      BY DEF Taken
    <3>2. CASE j \in DOMAIN o
      BY <1>5, <3>1, <3>2 DEF Reinserting, Free
    <3>3. CASE j \in DOMAIN GoneOf(s) /\ j < n
      <4>1. GoneOf(s)[j] = v /\ v = GoneOf(s)[n] /\ j # n
        BY <1>1, <1>3, <1>5, <3>1, <3>3 DEF Reinserting
      <4>. QED
        BY <1>5, <3>1, <3>3, <4>1 DEF Free
    <3>. QED
      BY <3>2, <3>3 DEF Reinserting
  <2>3. y \in Building /\ FaultOf(y) = "none" /\ ObjectsOf(y) = With(ObjectsOf(x), n, v)
    BY <1>2, <1>3, <1>5, <2>1, <2>2, ReinsertCases DEF Reinserting
  <2>4. /\ \A j : j \in DOMAIN ObjectsOf(y) <=> j \in DOMAIN ObjectsOf(x) \/ j = n
        /\ ObjectsOf(y)[n] = v
        /\ \A j \in DOMAIN ObjectsOf(x) : j # n => ObjectsOf(y)[j] = ObjectsOf(x)[j]
    BY <2>3, IsWith
  <2>5. \A i : i \in DOMAIN ObjectsOf(y) <=>
               i \in DOMAIN o \/ (i \in DOMAIN GoneOf(s) /\ i < n + 1)
    BY <1>1, <1>3, <1>5, <2>4 DEF Reinserting
  <2>6. \A i \in DOMAIN o : ObjectsOf(y)[i] = o[i]
    BY <1>5, <2>4 DEF Reinserting, Free
  <2>7. \A i \in DOMAIN GoneOf(s) : i < n + 1 => ObjectsOf(y)[i] = GoneOf(s)[i]
    BY <1>1, <1>3, <1>5, <2>1, <2>4 DEF Reinserting
  <2>. QED
    BY <2>3, <2>5, <2>6, <2>7 DEF Reinserting
<1>. QED
  BY <1>4, <1>5

LEMMA Reinserts ==
    ASSUME NEW s \in UndoState, NEW x \in Building, FaultOf(x) = "none", Free(ObjectsOf(x), s)
    PROVE  Reinserting(ForEach("removed_values", x, s), ObjectsOf(x), s, MaxId)
<1> DEFINE y == ForEach("removed_values", x, s)
           o == ObjectsOf(x)
<1>1. PICK g : ReinsertRounds(g, x, s, y)
  BY ReinsertRoundsExist, Zenon
<1> HIDE DEF y
<1> DEFINE T == {n \in Nat : Reinserting(g[n], o, s, n)}
<1>2. /\ MaxId \in Nat /\ DOMAIN o \subseteq Ids /\ DOMAIN GoneOf(s) \subseteq Ids
      /\ o \in Partial(Ids, Values)
  BY IndexAssumption, BuildingFields, RecordFields
<1>3. 0 \in T
  <2>1. g[0] = x
    BY <1>1 DEF ReinsertRounds
  <2>2. \A i \in Ids : ~ (i < 0)
    BY <1>2 DEF Ids
  <2>. QED
    BY <1>2, <2>1, <2>2 DEF Reinserting
<1>4. ASSUME NEW n \in 0 .. MaxId - 1, n \in T PROVE n + 1 \in T
  <2>1. n \in Ids /\ n + 1 \in 1 .. MaxId /\ n + 1 \in Nat /\ n + 1 - 1 = n
    BY <1>2 DEF Ids
  <2>2. /\ n \in DOMAIN GoneOf(s) => g[n + 1] = Reinsert(g[n], n, GoneOf(s)[n])
        /\ n \notin DOMAIN GoneOf(s) => g[n + 1] = g[n]
    BY <1>1, <2>1 DEF ReinsertRounds
  <2>3. Reinserting(g[n + 1], o, s, n + 1)
    BY <1>2, <1>4, <2>1, <2>2, ReinsertRound
  <2>. QED
    BY <2>1, <2>3
<1>. HIDE DEF T
<1>5. 0 .. MaxId \subseteq T
  BY <1>2, <1>3, <1>4, SetInduction
<1>6. Reinserting(y, o, s, MaxId)
  BY <1>1, <1>2, <1>5 DEF T, ReinsertRounds
<1>. QED
  BY <1>6 DEF y

-----------------------------------------------------------------------------
(* What undoing one state makes of a content.                              *)

LEMMA SameContent ==
    ASSUME NEW a \in Contents, NEW b \in Contents, NextOf(a) = NextOf(b),
           \A i : i \in DOMAIN ObjectsOf(a) <=> i \in DOMAIN ObjectsOf(b),
           \A i \in DOMAIN ObjectsOf(a) : ObjectsOf(a)[i] = ObjectsOf(b)[i]
    PROVE  a = b
<1>1. ObjectsOf(a) \in Partial(Ids, Values) /\ ObjectsOf(b) \in Partial(Ids, Values)
  BY DEF Contents, ObjectsOf
<1>2. ObjectsOf(a) = ObjectsOf(b)
  BY <1>1, SameFunction
<1>. QED
  BY <1>2 DEF Contents, ObjectsOf, NextOf

LEMMA RestoredFields ==
    ASSUME NEW u \in Contents, NEW s \in UndoState, NEW r, r = Restored(u, s)
    PROVE  /\ r \in Contents
           /\ NextOf(r) = FirstOf(s)
           /\ \A i : i \in DOMAIN ObjectsOf(r) <=>
                 \/ i \in DOMAIN OldOf(s)
                 \/ i \in DOMAIN GoneOf(s)
                 \/ i \in DOMAIN ObjectsOf(u) /\ i \notin NewOf(s)
           /\ \A i \in DOMAIN OldOf(s) : ObjectsOf(r)[i] = OldOf(s)[i]
           /\ \A i \in DOMAIN GoneOf(s) :
                 i \notin DOMAIN OldOf(s) => ObjectsOf(r)[i] = GoneOf(s)[i]
           /\ \A i \in DOMAIN ObjectsOf(u) :
                 i \notin NewOf(s) \cup DOMAIN OldOf(s) \cup DOMAIN GoneOf(s) =>
                    ObjectsOf(r)[i] = ObjectsOf(u)[i]
<1> DEFINE o == ObjectsOf(u)  old == OldOf(s)  gone == GoneOf(s)  new == NewOf(s)
           kept == Without(o, new \cup DOMAIN old \cup DOMAIN gone)
           All == DOMAIN kept \cup DOMAIN old \cup DOMAIN gone
           f == [i \in All |-> IF i \in DOMAIN old THEN old[i]
                               ELSE IF i \in DOMAIN gone THEN gone[i] ELSE kept[i]]
<1>1. r = [objects |-> f, next_id |-> FirstOf(s)]
  BY DEF Restored, ObjectsOf, OldOf, GoneOf, NewOf, FirstOf
<1>2. /\ o \in Partial(Ids, Values) /\ old \in Partial(Ids, Values)
      /\ gone \in Partial(Ids, Values) /\ FirstOf(s) \in 0 .. MaxId
  BY RecordFields DEF Contents, ObjectsOf
<1> HIDE DEF o, old, gone, new
<1>3. /\ DOMAIN kept = DOMAIN o \ (new \cup DOMAIN old \cup DOMAIN gone)
      /\ \A i \in DOMAIN kept : kept[i] = o[i]
  BY DEF Without
<1> HIDE DEF kept
<1>4. /\ DOMAIN f = All
      /\ f = [i \in DOMAIN f |-> f[i]]
      /\ \A i \in DOMAIN old : f[i] = old[i]
      /\ \A i \in DOMAIN gone : i \notin DOMAIN old => f[i] = gone[i]
      /\ \A i \in DOMAIN kept : f[i] = kept[i]
  BY <1>3
<1> HIDE DEF f
<1>5. /\ DOMAIN o \subseteq Ids /\ DOMAIN old \subseteq Ids /\ DOMAIN gone \subseteq Ids
      /\ \A i \in DOMAIN o : o[i] \in Values
      /\ \A i \in DOMAIN old : old[i] \in Values
      /\ \A i \in DOMAIN gone : gone[i] \in Values
  BY <1>2, PartialType
<1>6. DOMAIN f \subseteq Ids
  BY <1>3, <1>4, <1>5
<1>7. \A i \in DOMAIN f : f[i] \in Values
  BY <1>3, <1>4, <1>5
<1>8. f \in Partial(Ids, Values)
  BY <1>4, <1>6, <1>7, PartialType
<1>9. ObjectsOf(r) = f /\ NextOf(r) = FirstOf(s) /\ r \in Contents
  BY <1>1, <1>2, <1>8 DEF Contents, ObjectsOf, NextOf
<1>10. \A i : i \in DOMAIN f <=>
          \/ i \in DOMAIN old
          \/ i \in DOMAIN gone
          \/ i \in DOMAIN o /\ i \notin new
  BY <1>3, <1>4
<1>11. \A i \in DOMAIN o : i \notin new \cup DOMAIN old \cup DOMAIN gone => f[i] = o[i]
  BY <1>3, <1>4
<1>. QED
  BY <1>4, <1>9, <1>10, <1>11 DEF o, old, gone, new

(* A loop does nothing once a fault has stopped it.                        *)
LEMMA Stopped ==
    ASSUME NEW s \in UndoState, NEW x \in Building, FaultOf(x) # "none"
    PROVE  /\ ForEach("new_ids", x, s) = x
           /\ ForEach("removed_values", x, s) = x
<1>1. MaxId \in Nat /\ \A n \in 0 .. MaxId - 1 :
                           n \in Ids /\ n + 1 \in 1 .. MaxId /\ n + 1 - 1 = n
  BY IndexAssumption DEF Ids
<1>2. ForEach("new_ids", x, s) = x
  <2> DEFINE y == ForEach("new_ids", x, s)
  <2>1. PICK g : EraseRounds(g, x, s, y)
    BY EraseRoundsExist, Zenon
  <2> HIDE DEF y
  <2> DEFINE T == {n \in Nat : g[n] = x}
  <2>2. 0 \in T
    BY <2>1 DEF EraseRounds
  <2>3. ASSUME NEW n \in 0 .. MaxId - 1, n \in T PROVE n + 1 \in T
    <3>1. g[n] = x /\ n \in Ids
      BY <1>1, <2>3
    <3>2. g[n + 1] = x
      BY <1>1, <2>1, <2>3, <3>1, EraseCases DEF EraseRounds
    <3>. QED
      BY <3>2
  <2>. HIDE DEF T
  <2>4. 0 .. MaxId \subseteq T
    BY <1>1, <2>2, <2>3, SetInduction
  <2>5. y = x
    BY <1>1, <2>1, <2>4 DEF EraseRounds, T
  <2>. QED
    BY <2>5 DEF y
<1>3. ForEach("removed_values", x, s) = x
  <2> DEFINE y == ForEach("removed_values", x, s)
  <2>1. PICK g : ReinsertRounds(g, x, s, y)
    BY ReinsertRoundsExist, Zenon
  <2> HIDE DEF y
  <2> DEFINE T == {n \in Nat : g[n] = x}
  <2>2. 0 \in T
    BY <2>1 DEF ReinsertRounds
  <2>3. ASSUME NEW n \in 0 .. MaxId - 1, n \in T PROVE n + 1 \in T
    <3>1. g[n] = x /\ n \in Ids
      BY <1>1, <2>3
    <3>2. n \in DOMAIN GoneOf(s) => GoneOf(s)[n] \in Values
      BY RecordFields
    <3>3. g[n + 1] = x
      BY <1>1, <2>1, <2>3, <3>1, <3>2, ReinsertCases DEF ReinsertRounds
    <3>. QED
      BY <3>3
  <2>. HIDE DEF T
  <2>4. 0 .. MaxId \subseteq T
    BY <1>1, <2>2, <2>3, SetInduction
  <2>5. y = x
    BY <1>1, <2>1, <2>4 DEF ReinsertRounds, T
  <2>. QED
    BY <2>5 DEF y
<1>. QED
  BY <1>2, <1>3

(* What undo() has not touched yet when an exception stops it.             *)
Partway(p, o, s) ==
    /\ DOMAIN p \subseteq DOMAIN o
    /\ \A i \in DOMAIN o :
          i \notin NewOf(s) \cup DOMAIN OldOf(s) => i \in DOMAIN p /\ p[i] = o[i]

LEMMA Rebuilds ==
    ASSUME NEW s \in UndoState, NEW u, Sane(u), Fits(u, s), Sane(Restored(u, s)),
           NEW st, st.objects = ObjectsOf(u)
    PROVE  /\ Erased(st, s) \in Building
           /\ Rebuilt(st, s) \in Building
           /\ FaultOf(Erased(st, s)) = "none" <=> FaultOf(Rebuilt(st, s)) = "none"
           /\ FaultOf(Rebuilt(st, s)) = "none" =>
                 ObjectsOf(Rebuilt(st, s)) = ObjectsOf(Restored(u, s))
           /\ FaultOf(Rebuilt(st, s)) # "none" =>
                 /\ Partway(ObjectsOf(Rebuilt(st, s)), ObjectsOf(u), s)
                 /\ Distinct(ObjectsOf(Rebuilt(st, s)))
           /\ Kept(u, s) => FaultOf(Rebuilt(st, s)) # "undefined"
<1> DEFINE o == ObjectsOf(u)
           x0 == [objects |-> st.objects, fault |-> "none"]
           x1 == ForEach("old_values", x0, s)
           x2 == ForEach("new_ids", x1, s)
           x3 == ForEach("removed_values", x2, s)
           r == Restored(u, s)
<1>1. /\ u \in Contents /\ o \in Partial(Ids, Values) /\ Distinct(o)
      /\ DOMAIN o \subseteq Ids
  BY PartialType DEF Sane, Contents, ObjectsOf
<1>2. x0 \in Building /\ FaultOf(x0) = "none" /\ ObjectsOf(x0) = o
  BY <1>1 DEF Building, ObjectsOf, FaultOf
<1>3. Erased(st, s) = x2 /\ Rebuilt(st, s) = x3
  BY DEF Erased, Rebuilt
<1> HIDE DEF x0
<1>4. Reverting(x1, o, s, MaxId)
  BY <1>1, <1>2, Reverts
<1> HIDE DEF x1
<1>5. CASE FaultOf(x1) # "none"
  <2>1. x1 \in Building
    BY <1>4 DEF Reverting
  <2>2. x2 = x1 /\ x3 = x1
    BY <1>5, <2>1, Stopped
  <2>3. Partway(ObjectsOf(x1), o, s) /\ Distinct(ObjectsOf(x1))
    BY <1>4 DEF Reverting, Partway
  <2>4. Kept(u, s) => FaultOf(x1) # "undefined"
    BY <1>4 DEF Reverting, Kept
  <2>. QED
    BY <1>3, <1>5, <2>1, <2>2, <2>3, <2>4
<1>6. CASE FaultOf(x1) = "none"
  <2>1. /\ x1 \in Building /\ Distinct(ObjectsOf(x1))
    BY <1>4 DEF Reverting
  <2>2. Erasing(x2, ObjectsOf(x1), s, MaxId)
    BY <1>6, <2>1, Erases
  <2> HIDE DEF x2
  <2>3. x2 \in Building /\ Distinct(ObjectsOf(x2))
    BY <2>2 DEF Erasing
  <2>4. \A i \in Ids : i < MaxId
    BY IndexAssumption DEF Ids
  <2>5. /\ DOMAIN OldOf(s) \subseteq Ids /\ DOMAIN GoneOf(s) \subseteq Ids
        /\ NewOf(s) \subseteq Ids
    BY RecordFields
  <2>6. /\ DOMAIN ObjectsOf(x1) = DOMAIN o
        /\ \A i \in DOMAIN OldOf(s) : i \in DOMAIN o /\ ObjectsOf(x1)[i] = OldOf(s)[i]
        /\ \A i \in DOMAIN o \ DOMAIN OldOf(s) : ObjectsOf(x1)[i] = o[i]
    BY <1>4, <1>6, <2>4, <2>5 DEF Reverting
  <2>7. Kept(u, s) => FaultOf(x2) # "undefined"
    BY <2>2, <2>6 DEF Erasing, Kept
  <2>8. CASE FaultOf(x2) # "none"
    <3>1. x3 = x2
      BY <2>3, <2>8, Stopped
    <3>2. Partway(ObjectsOf(x2), o, s)
      BY <2>2, <2>6 DEF Erasing, Partway
    <3>. QED
      BY <1>3, <2>3, <2>7, <2>8, <3>1, <3>2
  <2>9. CASE FaultOf(x2) = "none"
    <3>1. /\ \A i : i \in DOMAIN ObjectsOf(x2) <=> i \in DOMAIN o /\ i \notin NewOf(s)
          /\ \A i \in DOMAIN ObjectsOf(x2) : ObjectsOf(x2)[i] = ObjectsOf(x1)[i]
      BY <1>1, <2>2, <2>4, <2>5, <2>6, <2>9 DEF Erasing
    <3> HIDE DEF r
    <3>2. /\ r \in Contents
          /\ \A i : i \in DOMAIN ObjectsOf(r) <=>
                \/ i \in DOMAIN OldOf(s)
                \/ i \in DOMAIN GoneOf(s)
                \/ i \in DOMAIN o /\ i \notin NewOf(s)
          /\ \A i \in DOMAIN OldOf(s) : ObjectsOf(r)[i] = OldOf(s)[i]
          /\ \A i \in DOMAIN GoneOf(s) :
                i \notin DOMAIN OldOf(s) => ObjectsOf(r)[i] = GoneOf(s)[i]
          /\ \A i \in DOMAIN o :
                i \notin NewOf(s) \cup DOMAIN OldOf(s) \cup DOMAIN GoneOf(s) =>
                   ObjectsOf(r)[i] = o[i]
      BY <1>1, RestoredFields DEF r
    <3>3. Distinct(ObjectsOf(r))
      BY DEF Sane, r
    <3>4. /\ \A i \in DOMAIN OldOf(s) : i \notin DOMAIN GoneOf(s) /\ i \notin NewOf(s)
          /\ \A i \in DOMAIN GoneOf(s) : i \notin DOMAIN o
      <4>1. \A i \in DOMAIN OldOf(s) : i < FirstOf(s) /\ i \in Int
        BY <2>5 DEF Fits, Ids
      <4>2. \A i \in NewOf(s) : ~ (i < FirstOf(s))
        <5>1. FirstOf(s) \in Int
          BY RecordFields
        <5>. QED
          BY <2>5, <5>1 DEF Fits, Ids
      <4>. QED
        BY <4>1, <4>2 DEF Fits
    <3>5. \A i \in DOMAIN ObjectsOf(x2) :
             i \in DOMAIN ObjectsOf(r) /\ ObjectsOf(r)[i] = ObjectsOf(x2)[i]
      BY <2>6, <3>1, <3>2, <3>4
    <3>6. Free(ObjectsOf(x2), s)
      BY <3>1, <3>2, <3>3, <3>4, <3>5 DEF Free, Distinct
    <3>7. Reinserting(x3, ObjectsOf(x2), s, MaxId)
      BY <2>3, <2>9, <3>6, Reinserts
    <3> HIDE DEF x3
    <3>8. x3 \in Building /\ FaultOf(x3) = "none"
      BY <3>7 DEF Reinserting
    <3>9. /\ \A i : i \in DOMAIN ObjectsOf(x3) <=> i \in DOMAIN ObjectsOf(r)
          /\ \A i \in DOMAIN ObjectsOf(x3) : ObjectsOf(x3)[i] = ObjectsOf(r)[i]
      BY <2>4, <2>5, <2>6, <3>1, <3>2, <3>4, <3>5, <3>7 DEF Reinserting
    <3>10. ObjectsOf(r) \in Partial(Ids, Values) /\ ObjectsOf(x3) \in Partial(Ids, Values)
      BY <3>2, <3>8 DEF Contents, Building, ObjectsOf
    <3>11. ObjectsOf(x3) = ObjectsOf(r)
      BY <3>9, <3>10, SameFunction
    <3>. QED
      BY <1>3, <2>3, <2>9, <3>8, <3>11 DEF r
  <2>. QED
    BY <2>8, <2>9
<1>. QED
  BY <1>5, <1>6

-----------------------------------------------------------------------------
(***************************************************************************)
(* The inductive invariant: c holds the contents that undoing the stack q  *)
(* leads through, oldest first, and the present one last.                  *)
(***************************************************************************)
Faults == {"none", "threw", "undefined"}

Chain(c, q, r, f) ==
    /\ q \in Seq(UndoState) /\ r \in Int /\ f \in Faults
    /\ \A i \in 1 .. Len(q) + 1 : Sane(c[i])
    /\ \A i \in 1 .. Len(q) : c[i] = Restored(c[i + 1], q[i]) /\ Fits(c[i + 1], q[i])
    /\ \A i, j \in 1 .. Len(q) + 1 : i <= j => NextOf(c[i]) <= NextOf(c[j])
    /\ \A i \in 1 .. Len(q) : RevisionOf(q[i]) = r - Len(q) + i
    /\ f = "none" => \A i \in 1 .. Len(q) : Kept(c[i + 1], q[i])

LEMMA FrontFacts ==
    ASSUME NEW S, NEW q \in Seq(S), Len(q) > 0
    PROVE  /\ Front(q) \in Seq(S) /\ Len(Front(q)) = Len(q) - 1
           /\ \A i \in 1 .. Len(q) - 1 : Front(q)[i] = q[i]
           /\ Last(q) = q[Len(q)] /\ Last(q) \in S
           /\ \A s \in S : Front(q) \o <<s>> = Append(Front(q), s)
<1>1. /\ Front(q) \in Seq(S) /\ Len(Front(q)) = Len(q) - 1
      /\ \A i \in 1 .. Len(q) - 1 : Front(q)[i] = q[i]
  <2> DEFINE k == Len(q) - 1
  <2>1. k \in Nat /\ \A i \in 1 .. k : q[i] \in S
    OBVIOUS
  <2> HIDE DEF k
  <2>2. /\ SubSeq(q, 1, k) \in Seq(S)
        /\ Len(SubSeq(q, 1, k)) = IF 1 <= k THEN k - 1 + 1 ELSE 0
        /\ \A i \in 1 .. k - 1 + 1 : SubSeq(q, 1, k)[i] = q[1 + i - 1]
    BY <2>1, SubSeqProperties
  <2>3. /\ (IF 1 <= k THEN k - 1 + 1 ELSE 0) = k
        /\ \A i \in 1 .. k : i \in 1 .. k - 1 + 1 /\ 1 + i - 1 = i
    BY <2>1
  <2>4. /\ SubSeq(q, 1, k) \in Seq(S) /\ Len(SubSeq(q, 1, k)) = k
        /\ \A i \in 1 .. k : SubSeq(q, 1, k)[i] = q[i]
    <3> DEFINE p == SubSeq(q, 1, k)
    <3>1. /\ p \in Seq(S) /\ Len(p) = IF 1 <= k THEN k - 1 + 1 ELSE 0
          /\ \A i \in 1 .. k - 1 + 1 : p[i] = q[1 + i - 1]
      BY <2>2, Zenon
    <3> HIDE DEF p
    <3>2. /\ Len(p) = k
          /\ \A i \in 1 .. k : p[i] = q[i]
      BY <2>1, <2>3, <3>1
    <3>. QED
      BY <3>1, <3>2, Zenon DEF p
  <2>. QED
    BY <2>4, Zenon DEF Front, k
<1>2. Last(q) = q[Len(q)] /\ Last(q) \in S
  BY DEF Last
<1>3. \A s \in S : Front(q) \o <<s>> = Append(Front(q), s)
  <2> DEFINE p == Front(q)
  <2>1. p \in Seq(S)
    BY <1>1
  <2> HIDE DEF p
  <2>2. \A s \in S : p \o <<s>> = Append(p, s)
    BY <2>1
  <2>. QED
    BY <2>2 DEF p
<1>. QED
  BY <1>1, <1>2, <1>3

LEMMA ChainPop ==
    ASSUME NEW c, NEW q, NEW r, NEW f, Chain(c, q, r, f), Len(q) > 0
    PROVE  Chain(c, Front(q), r - 1, f)
<1>1. /\ Front(q) \in Seq(UndoState) /\ Len(Front(q)) = Len(q) - 1
      /\ \A i \in 1 .. Len(q) - 1 : Front(q)[i] = q[i]
  BY FrontFacts DEF Chain
<1> DEFINE p == Front(q)
<1> HIDE DEF p
<1>2. p \in Seq(UndoState) /\ Len(p) = Len(q) - 1 /\ \A i \in 1 .. Len(p) : p[i] = q[i]
  BY <1>1 DEF p
<1>3. /\ Len(q) \in Nat /\ r \in Int
      /\ \A i \in 1 .. Len(p) + 1 : i \in 1 .. Len(q) + 1
      /\ \A i \in 1 .. Len(p) : i \in 1 .. Len(q)
      /\ \A i \in 1 .. Len(p) : r - 1 - Len(p) + i = r - Len(q) + i
  BY <1>2 DEF Chain
<1>4. \A i \in 1 .. Len(p) : RevisionOf(p[i]) = r - 1 - Len(p) + i
  BY <1>2, <1>3 DEF Chain
<1>5. \A i \in 1 .. Len(p) : c[i] = Restored(c[i + 1], p[i]) /\ Fits(c[i + 1], p[i])
  BY <1>2, <1>3 DEF Chain
<1>6. f = "none" => \A i \in 1 .. Len(p) : Kept(c[i + 1], p[i])
  BY <1>2, <1>3 DEF Chain
<1>7. /\ \A i \in 1 .. Len(p) + 1 : Sane(c[i])
      /\ \A i, j \in 1 .. Len(p) + 1 : i <= j => NextOf(c[i]) <= NextOf(c[j])
      /\ f \in Faults /\ r - 1 \in Int
  BY <1>3 DEF Chain
<1>8. Chain(c, p, r - 1, f)
  BY <1>2, <1>4, <1>5, <1>6, <1>7 DEF Chain
<1>. QED
  BY <1>8 DEF p

LEMMA ChainPush ==
    ASSUME NEW c, NEW q, NEW r, NEW f, Chain(c, q, r, f),
           NEW s \in UndoState, RevisionOf(s) = r + 1, NEW g \in Faults,
           NEW u, Sane(u), c[Len(q) + 1] = Restored(u, s), Fits(u, s),
           NextOf(c[Len(q) + 1]) <= NextOf(u),
           g = "none" => f = "none" /\ Kept(u, s)
    PROVE  \E d : /\ Chain(d, Append(q, s), r + 1, g)
                  /\ d[Len(q) + 2] = u
                  /\ \A i \in 1 .. Len(q) + 1 : d[i] = c[i]
<1> DEFINE n == Len(q)  p == Append(q, s)
           d == [i \in 1 .. n + 2 |-> IF i = n + 2 THEN u ELSE c[i]]
<1>1. n \in Nat /\ q \in Seq(UndoState) /\ r \in Int
  BY DEF Chain
<1>2. /\ p \in Seq(UndoState) /\ Len(p) = n + 1 /\ p[n + 1] = s
      /\ \A i \in 1 .. n : p[i] = q[i]
  BY <1>1
<1>3. d[n + 2] = u /\ \A i \in 1 .. n + 1 : d[i] = c[i]
  BY <1>1
<1> HIDE DEF d, p
<1>4. \A i \in 1 .. n + 2 : i = n + 2 \/ i \in 1 .. n + 1
  BY <1>1
<1>5. \A i \in 1 .. n + 1 : /\ i = n + 1 \/ i \in 1 .. n
                            /\ i \in 1 .. n => i + 1 \in 1 .. n + 1
                            /\ i = n + 1 => i + 1 = n + 2
  BY <1>1
<1>6. \A i \in 1 .. n : i \in 1 .. n + 1 /\ n + 1 \in 1 .. n + 1
  BY <1>1
<1>7. \A i \in 1 .. n + 2 : Sane(d[i])
  BY <1>3, <1>4 DEF Chain
<1>8. \A i \in 1 .. n + 1 : d[i] = Restored(d[i + 1], p[i]) /\ Fits(d[i + 1], p[i])
  <2>1. ASSUME NEW i \in 1 .. n
        PROVE  d[i] = Restored(d[i + 1], p[i]) /\ Fits(d[i + 1], p[i])
    <3>1. d[i] = c[i] /\ d[i + 1] = c[i + 1] /\ p[i] = q[i]
      BY <1>2, <1>3, <1>5, <1>6
    <3>. QED
      BY <3>1 DEF Chain
  <2>2. d[n + 1] = Restored(d[n + 2], p[n + 1]) /\ Fits(d[n + 2], p[n + 1])
    <3>1. d[n + 1] = c[n + 1] /\ d[n + 2] = u /\ p[n + 1] = s
      BY <1>1, <1>2, <1>3
    <3>. QED
      BY <3>1
  <2>. QED
    BY <1>5, <2>1, <2>2
<1>9. \A i, j \in 1 .. n + 2 : i <= j => NextOf(d[i]) <= NextOf(d[j])
  <2>1. \A i \in 1 .. n + 2 : NextOf(d[i]) \in Int
    BY <1>7 DEF Sane, Contents, NextOf
  <2>2. \A i \in 1 .. n + 1 : NextOf(c[i]) <= NextOf(c[n + 1])
    BY <1>1 DEF Chain
  <2>3. \A i, j \in 1 .. n + 1 : i <= j => NextOf(c[i]) <= NextOf(c[j])
    BY DEF Chain
  <2>4. NextOf(c[n + 1]) <= NextOf(u) /\ n + 1 \in 1 .. n + 2 /\ d[n + 1] = c[n + 1]
    BY <1>1, <1>3
  <2>5. NextOf(u) \in Int /\ NextOf(c[n + 1]) \in Int
    BY <1>1, <1>3, <2>1, <2>4
  <2>6. ASSUME NEW i \in 1 .. n + 2 PROVE NextOf(d[i]) <= NextOf(u)
    <3>1. CASE i = n + 2
      BY <1>3, <2>5, <3>1
    <3>2. CASE i \in 1 .. n + 1
      <4>1. NextOf(d[i]) = NextOf(c[i]) /\ NextOf(d[i]) \in Int
        BY <1>3, <2>1, <3>2
      <4>. QED
        BY <2>2, <2>4, <2>5, <3>2, <4>1
    <3>. QED
      BY <1>4, <3>1, <3>2
  <2>7. \A i, j \in 1 .. n + 2 : i <= j /\ i = n + 2 => j = n + 2
    BY <1>1
  <2>. QED
    BY <1>3, <1>4, <2>3, <2>6, <2>7
<1>10. \A i \in 1 .. n + 1 : RevisionOf(p[i]) = r + 1 - (n + 1) + i
  <2>1. ASSUME NEW i \in 1 .. n PROVE RevisionOf(p[i]) = r + 1 - (n + 1) + i
    <3>1. p[i] = q[i] /\ RevisionOf(q[i]) = r - n + i
      BY <1>2 DEF Chain
    <3>. QED
      BY <1>1, <3>1
  <2>2. RevisionOf(p[n + 1]) = r + 1 - (n + 1) + (n + 1)
    BY <1>1, <1>2
  <2>. QED
    BY <1>5, <2>1, <2>2
<1>11. g = "none" => \A i \in 1 .. n + 1 : Kept(d[i + 1], p[i])
  <2>1. ASSUME g = "none", NEW i \in 1 .. n PROVE Kept(d[i + 1], p[i])
    <3>1. d[i + 1] = c[i + 1] /\ p[i] = q[i]
      BY <1>2, <1>3, <1>5, <1>6
    <3>. QED
      BY <2>1, <3>1 DEF Chain
  <2>2. g = "none" => Kept(d[n + 2], p[n + 1])
    BY <1>2, <1>3
  <2>. QED
    BY <1>5, <2>1, <2>2
<1>12. Chain(d, p, r + 1, g)
  <2>1. Len(p) = n + 1 /\ Len(p) + 1 = n + 2 /\ p \in Seq(UndoState) /\ r + 1 \in Int
    BY <1>1, <1>2
  <2> HIDE DEF n
  <2>. QED
    <3>1. g = "none" => \A i \in 1 .. Len(p) : Kept(d[i + 1], p[i])
      BY <1>11, <2>1
    <3>2. /\ \A i \in 1 .. Len(p) + 1 : Sane(d[i])
          /\ \A i \in 1 .. Len(p) : d[i] = Restored(d[i + 1], p[i]) /\ Fits(d[i + 1], p[i])
          /\ \A i \in 1 .. Len(p) : RevisionOf(p[i]) = r + 1 - Len(p) + i
      BY <1>7, <1>8, <1>10, <2>1
    <3>3. \A i, j \in 1 .. Len(p) + 1 : i <= j => NextOf(d[i]) <= NextOf(d[j])
      BY <1>9, <2>1
    <3>. QED
      BY <2>1, <3>1, <3>2, <3>3 DEF Chain
<1>. QED
  BY <1>3, <1>12 DEF p

LEMMA ChainShift ==
    ASSUME NEW c, NEW q, NEW r, NEW f, Chain(c, q, r, f), NEW k \in 0 .. Len(q)
    PROVE  \E d : /\ Chain(d, SubSeq(q, k + 1, Len(q)), r, f)
                  /\ \A i \in 1 .. Len(q) - k + 1 : d[i] = c[i + k]
<1> DEFINE n == Len(q)  p == SubSeq(q, k + 1, n)
           d == [i \in 1 .. n - k + 1 |-> c[i + k]]
<1>1. n \in Nat /\ q \in Seq(UndoState) /\ r \in Int /\ k \in Nat /\ k <= n
  BY DEF Chain
<1>2. /\ p \in Seq(UndoState) /\ Len(p) = n - k
      /\ \A i \in 1 .. n - k : p[i] = q[i + k]
  BY <1>1
<1>3. \A i \in 1 .. n - k + 1 : d[i] = c[i + k]
  BY <1>1
<1> HIDE DEF d, p
<1>4. \A i \in 1 .. n - k + 1 : i + k \in 1 .. n + 1
  BY <1>1
<1>5. \A i \in 1 .. n - k : /\ i \in 1 .. n - k + 1 /\ i + 1 \in 1 .. n - k + 1
                            /\ i + k \in 1 .. n /\ i + 1 + k = i + k + 1
                            /\ r - n + (i + k) = r - (n - k) + i
  BY <1>1
<1>6. \A i \in 1 .. n - k : d[i] = c[i + k] /\ d[i + 1] = c[i + k + 1] /\ p[i] = q[i + k]
  BY <1>2, <1>3, <1>5
<1>7. \A i \in 1 .. n - k + 1 : Sane(d[i])
  BY <1>3, <1>4 DEF Chain
<1>8. \A i \in 1 .. n - k : d[i] = Restored(d[i + 1], p[i]) /\ Fits(d[i + 1], p[i])
  BY <1>5, <1>6 DEF Chain
<1>9. \A i, j \in 1 .. n - k + 1 : i <= j => NextOf(d[i]) <= NextOf(d[j])
  <2>1. \A i, j \in 1 .. n - k + 1 : i <= j => i + k <= j + k
    BY <1>1
  <2>2. \A i, j \in 1 .. n + 1 : i <= j => NextOf(c[i]) <= NextOf(c[j])
    BY DEF Chain
  <2>. QED
    BY <1>3, <1>4, <2>1, <2>2
<1>10. \A i \in 1 .. n - k : RevisionOf(p[i]) = r - (n - k) + i
  BY <1>5, <1>6 DEF Chain
<1>11. f = "none" => \A i \in 1 .. n - k : Kept(d[i + 1], p[i])
  BY <1>5, <1>6 DEF Chain
<1>12. Chain(d, p, r, f)
  BY <1>1, <1>2, <1>7, <1>8, <1>9, <1>10, <1>11 DEF Chain
<1>. QED
  BY <1>3, <1>12 DEF p

-----------------------------------------------------------------------------
(* Which objects, with which values, undoing s brings back.                *)
Back(u, s, i) == \/ i \in DOMAIN OldOf(s)
                 \/ i \in DOMAIN GoneOf(s)
                 \/ i \in DOMAIN ObjectsOf(u) /\ i \notin NewOf(s)

BackAs(u, s, i) == IF i \in DOMAIN OldOf(s) THEN OldOf(s)[i]
                   ELSE IF i \in DOMAIN GoneOf(s) THEN GoneOf(s)[i]
                   ELSE ObjectsOf(u)[i]

LEMMA RestoredBack ==
    ASSUME NEW u \in Contents, NEW s \in UndoState, NEW r, r = Restored(u, s)
    PROVE  /\ r \in Contents
           /\ NextOf(r) = FirstOf(s)
           /\ \A i : i \in DOMAIN ObjectsOf(r) <=> Back(u, s, i)
           /\ \A i \in DOMAIN ObjectsOf(r) : ObjectsOf(r)[i] = BackAs(u, s, i)
<1>1. /\ r \in Contents
      /\ NextOf(r) = FirstOf(s)
      /\ \A i : i \in DOMAIN ObjectsOf(r) <=>
            \/ i \in DOMAIN OldOf(s)
            \/ i \in DOMAIN GoneOf(s)
            \/ i \in DOMAIN ObjectsOf(u) /\ i \notin NewOf(s)
      /\ \A i \in DOMAIN OldOf(s) : ObjectsOf(r)[i] = OldOf(s)[i]
      /\ \A i \in DOMAIN GoneOf(s) :
            i \notin DOMAIN OldOf(s) => ObjectsOf(r)[i] = GoneOf(s)[i]
      /\ \A i \in DOMAIN ObjectsOf(u) :
            i \notin NewOf(s) \cup DOMAIN OldOf(s) \cup DOMAIN GoneOf(s) =>
               ObjectsOf(r)[i] = ObjectsOf(u)[i]
  BY RestoredFields
<1>. QED
  BY <1>1 DEF Back, BackAs

LEMMA RestoredSame ==
    ASSUME NEW u \in Contents, NEW w \in Contents, NEW s \in UndoState, NEW t \in UndoState,
           FirstOf(s) = FirstOf(t),
           \A i : Back(u, s, i) <=> Back(w, t, i),
           \A i : Back(u, s, i) => BackAs(u, s, i) = BackAs(w, t, i)
    PROVE  Restored(u, s) = Restored(w, t)
<1> DEFINE a == Restored(u, s)  b == Restored(w, t)
<1> HIDE DEF a, b
<1>1. /\ a \in Contents /\ NextOf(a) = FirstOf(s)
      /\ \A i : i \in DOMAIN ObjectsOf(a) <=> Back(u, s, i)
      /\ \A i \in DOMAIN ObjectsOf(a) : ObjectsOf(a)[i] = BackAs(u, s, i)
  BY RestoredBack DEF a
<1>2. /\ b \in Contents /\ NextOf(b) = FirstOf(t)
      /\ \A i : i \in DOMAIN ObjectsOf(b) <=> Back(w, t, i)
      /\ \A i \in DOMAIN ObjectsOf(b) : ObjectsOf(b)[i] = BackAs(w, t, i)
  BY RestoredBack DEF b
<1>3. a = b
  BY <1>1, <1>2, SameContent
<1>. QED
  BY <1>3 DEF a, b

(* An undo() that stops part way leaves what s records as it is.           *)
LEMMA PartwayFits ==
    ASSUME NEW u, Sane(u), NEW s \in UndoState, Fits(u, s),
           NEW w \in Contents, NextOf(w) = NextOf(u), Distinct(ObjectsOf(w)),
           Partway(ObjectsOf(w), ObjectsOf(u), s)
    PROVE  Sane(w) /\ Fits(w, s) /\ Restored(w, s) = Restored(u, s)
<1>1. u \in Contents
  BY DEF Sane
<1>2. Sane(w)
  BY DEF Sane, Partway
<1>3. Fits(w, s)
  BY DEF Fits, Partway
<1>4. \A i : Back(w, s, i) <=> Back(u, s, i)
  BY DEF Back, Partway
<1>5. \A i : Back(w, s, i) => BackAs(w, s, i) = BackAs(u, s, i)
  BY DEF Back, BackAs, Partway
<1>6. Restored(w, s) = Restored(u, s)
  BY <1>1, <1>4, <1>5, RestoredSame
<1>. QED
  BY <1>2, <1>3, <1>6

LEMMA MergeFields ==
    ASSUME NEW p \in UndoState, NEW s \in UndoState, NEW m, m = Merge(p, s)
    PROVE  /\ m \in UndoState
           /\ FirstOf(m) = FirstOf(p) /\ RevisionOf(m) = RevisionOf(p)
           /\ \A i : i \in NewOf(m) <=>
                 (i \in NewOf(p) \/ i \in NewOf(s)) /\ i \notin DOMAIN GoneOf(s)
           /\ \A i : i \in DOMAIN OldOf(m) <=>
                 /\ i \in DOMAIN OldOf(p) \/ (i \in DOMAIN OldOf(s) /\ i \notin NewOf(p))
                 /\ i \in DOMAIN GoneOf(s) => i \in NewOf(p) \/ i \in NewOf(s)
           /\ \A i \in DOMAIN OldOf(m) :
                 OldOf(m)[i] = IF i \in DOMAIN OldOf(p) THEN OldOf(p)[i] ELSE OldOf(s)[i]
           /\ \A i : i \in DOMAIN GoneOf(m) <=>
                 \/ i \in DOMAIN GoneOf(p)
                 \/ i \in DOMAIN GoneOf(s) /\ i \notin NewOf(p) /\ i \notin NewOf(s)
           /\ \A i \in DOMAIN GoneOf(m) :
                 GoneOf(m)[i] = IF i \in DOMAIN GoneOf(p) THEN GoneOf(p)[i]
                                ELSE IF i \in DOMAIN OldOf(p) THEN OldOf(p)[i]
                                ELSE IF i \in DOMAIN OldOf(s) THEN OldOf(s)[i]
                                ELSE GoneOf(s)[i]
<1> DEFINE po == OldOf(p)  pg == GoneOf(p)  pn == NewOf(p)
           so == OldOf(s)  sg == GoneOf(s)  sn == NewOf(s)
           merged == {i \in DOMAIN so : i \notin pn /\ i \notin DOMAIN po}
           old == [i \in DOMAIN po \cup merged |-> IF i \in merged THEN so[i] ELSE po[i]]
           new == pn \cup sn
           gone == DOMAIN sg \ new
           mo == Without(old, gone)
           mn == new \ DOMAIN sg
           mg == [i \in DOMAIN pg \cup gone |->
                    IF i \in DOMAIN pg THEN pg[i]
                    ELSE IF i \in DOMAIN old THEN old[i] ELSE sg[i]]
<1>1. m = [p EXCEPT !.old_values = mo, !.new_ids = mn, !.removed_values = mg]
  BY DEF Merge, OldOf, GoneOf, NewOf
<1>2. /\ po \in Partial(Ids, Values) /\ pg \in Partial(Ids, Values) /\ pn \subseteq Ids
      /\ so \in Partial(Ids, Values) /\ sg \in Partial(Ids, Values) /\ sn \subseteq Ids
  BY RecordFields
<1> HIDE DEF po, pg, pn, so, sg, sn
<1>3. /\ DOMAIN po \subseteq Ids /\ DOMAIN pg \subseteq Ids
      /\ DOMAIN so \subseteq Ids /\ DOMAIN sg \subseteq Ids
      /\ \A i \in DOMAIN po : po[i] \in Values
      /\ \A i \in DOMAIN pg : pg[i] \in Values
      /\ \A i \in DOMAIN so : so[i] \in Values
      /\ \A i \in DOMAIN sg : sg[i] \in Values
  BY <1>2, PartialType
<1>4. /\ DOMAIN old = DOMAIN po \cup merged
      /\ \A i \in DOMAIN po : i \notin merged
      /\ \A i \in DOMAIN po : old[i] = po[i]
      /\ \A i \in merged : old[i] = so[i]
      /\ old = [i \in DOMAIN old |-> old[i]]
  OBVIOUS
<1> HIDE DEF old
<1>5. /\ DOMAIN old \subseteq Ids
      /\ \A i \in DOMAIN old : old[i] \in Values
  BY <1>3, <1>4
<1>6. /\ \A i : i \in DOMAIN old <=> i \in DOMAIN po \/ (i \in DOMAIN so /\ i \notin pn)
      /\ \A i \in DOMAIN old : old[i] = IF i \in DOMAIN po THEN po[i] ELSE so[i]
  BY <1>4
<1> HIDE DEF merged
<1>7. old \in Partial(Ids, Values)
  BY <1>4, <1>5, PartialType
<1>8. /\ \A i : i \in gone <=> i \in DOMAIN sg /\ i \notin pn /\ i \notin sn
      /\ \A i : i \in mn <=> (i \in pn \/ i \in sn) /\ i \notin DOMAIN sg
      /\ mn \subseteq Ids
  BY <1>2
<1> HIDE DEF gone, mn
<1>9. /\ mo \in Partial(Ids, Values)
      /\ \A i : i \in DOMAIN mo <=> i \in DOMAIN old /\ i \notin gone
      /\ \A i \in DOMAIN mo : mo[i] = old[i]
  <2>1. mo \in Partial(Ids, Values)
    BY <1>7, WithoutPartial
  <2>. QED
    BY <2>1 DEF Without
<1>10. /\ DOMAIN mg = DOMAIN pg \cup gone
       /\ mg = [i \in DOMAIN mg |-> mg[i]]
       /\ \A i \in DOMAIN mg : mg[i] = IF i \in DOMAIN pg THEN pg[i]
                                         ELSE IF i \in DOMAIN old THEN old[i] ELSE sg[i]
  OBVIOUS
<1> HIDE DEF mo, mg
<1>11. DOMAIN mg \subseteq Ids /\ \A i \in DOMAIN mg : mg[i] \in Values
  BY <1>3, <1>5, <1>8, <1>10
<1>12. mg \in Partial(Ids, Values)
  BY <1>10, <1>11, PartialType
<1>13. /\ m \in UndoState /\ OldOf(m) = mo /\ GoneOf(m) = mg /\ NewOf(m) = mn
       /\ FirstOf(m) = FirstOf(p) /\ RevisionOf(m) = RevisionOf(p)
  BY <1>1, <1>8, <1>9, <1>12 DEF UndoState, OldOf, GoneOf, NewOf, FirstOf, RevisionOf
<1>14. \A i : i \in DOMAIN mg <=>
               \/ i \in DOMAIN pg \/ (i \in DOMAIN sg /\ i \notin pn /\ i \notin sn)
  BY <1>8, <1>10
<1>15. \A i \in DOMAIN mg :
          mg[i] = IF i \in DOMAIN pg THEN pg[i]
                  ELSE IF i \in DOMAIN po THEN po[i]
                  ELSE IF i \in DOMAIN so THEN so[i] ELSE sg[i]
  BY <1>6, <1>8, <1>10
<1>16. \A i : i \in DOMAIN mo <=>
               /\ i \in DOMAIN po \/ (i \in DOMAIN so /\ i \notin pn)
               /\ i \in DOMAIN sg => i \in pn \/ i \in sn
  BY <1>6, <1>8, <1>9
<1>17. \A i \in DOMAIN mo : mo[i] = IF i \in DOMAIN po THEN po[i] ELSE so[i]
  BY <1>6, <1>9
<1>. QED
  BY <1>8, <1>13, <1>14, <1>15, <1>16, <1>17 DEF po, pg, pn, so, sg, sn

(***************************************************************************)
(* Undoing the merged state is undoing the two, one after the other.       *)
(***************************************************************************)
LEMMA Merges ==
    ASSUME NEW u, Sane(u), NEW s \in UndoState, Fits(u, s), Sane(Restored(u, s)),
           NEW p \in UndoState, Fits(Restored(u, s), p),
           FirstOf(p) <= FirstOf(s), FirstOf(s) <= NextOf(u),
           NEW m, m = Merge(p, s)
    PROVE  /\ m \in UndoState
           /\ Fits(u, m)
           /\ Restored(u, m) = Restored(Restored(u, s), p)
           /\ Kept(u, s) /\ Kept(Restored(u, s), p) => Kept(u, m)
<1> DEFINE r == Restored(u, s)
<1>1. r \in Contents /\ u \in Contents /\ Fits(r, p)
  BY DEF Sane
<1>2. /\ NextOf(r) = FirstOf(s)
      /\ \A i : i \in DOMAIN ObjectsOf(r) <=> Back(u, s, i)
      /\ \A i \in DOMAIN ObjectsOf(r) : ObjectsOf(r)[i] = BackAs(u, s, i)
  BY <1>1, RestoredBack
<1> HIDE DEF r
<1>3. /\ m \in UndoState
      /\ FirstOf(m) = FirstOf(p)
      /\ \A i : i \in NewOf(m) <=>
            (i \in NewOf(p) \/ i \in NewOf(s)) /\ i \notin DOMAIN GoneOf(s)
      /\ \A i : i \in DOMAIN OldOf(m) <=>
            /\ i \in DOMAIN OldOf(p) \/ (i \in DOMAIN OldOf(s) /\ i \notin NewOf(p))
            /\ i \in DOMAIN GoneOf(s) => i \in NewOf(p) \/ i \in NewOf(s)
      /\ \A i \in DOMAIN OldOf(m) :
            OldOf(m)[i] = IF i \in DOMAIN OldOf(p) THEN OldOf(p)[i] ELSE OldOf(s)[i]
      /\ \A i : i \in DOMAIN GoneOf(m) <=>
            \/ i \in DOMAIN GoneOf(p)
            \/ i \in DOMAIN GoneOf(s) /\ i \notin NewOf(p) /\ i \notin NewOf(s)
      /\ \A i \in DOMAIN GoneOf(m) :
            GoneOf(m)[i] = IF i \in DOMAIN GoneOf(p) THEN GoneOf(p)[i]
                           ELSE IF i \in DOMAIN OldOf(p) THEN OldOf(p)[i]
                           ELSE IF i \in DOMAIN OldOf(s) THEN OldOf(s)[i]
                           ELSE GoneOf(s)[i]
  BY MergeFields
<1>4. /\ FirstOf(p) \in Int /\ FirstOf(s) \in Int /\ NextOf(u) \in Int
      /\ \A i : i \in NewOf(p) \/ i \in NewOf(s) => i \in Int
      /\ \A i : i \in DOMAIN OldOf(p) \/ i \in DOMAIN GoneOf(p) \/ i \in DOMAIN OldOf(s)
                  \/ i \in DOMAIN GoneOf(s) \/ i \in DOMAIN ObjectsOf(u) => i \in Int
  <2>1. /\ DOMAIN OldOf(p) \subseteq Ids /\ DOMAIN GoneOf(p) \subseteq Ids /\ NewOf(p) \subseteq Ids
        /\ DOMAIN OldOf(s) \subseteq Ids /\ DOMAIN GoneOf(s) \subseteq Ids /\ NewOf(s) \subseteq Ids
        /\ FirstOf(p) \in Int /\ FirstOf(s) \in Int
    BY RecordFields
  <2>2. ObjectsOf(u) \in Partial(Ids, Values) /\ NextOf(u) \in Int
    BY <1>1 DEF Contents, ObjectsOf, NextOf
  <2>3. DOMAIN ObjectsOf(u) \subseteq Ids
    BY <2>2, PartialType
  <2>4. \A i \in Ids : i \in Int
    BY DEF Ids
  <2>. QED
    BY <2>1, <2>2, <2>3, <2>4
<1>5. /\ \A i \in NewOf(p) : FirstOf(p) <= i /\ i < FirstOf(s)
      /\ \A i \in NewOf(s) : FirstOf(s) <= i /\ i < NextOf(u)
      /\ \A i \in DOMAIN OldOf(p) : i < FirstOf(p) /\ i \notin DOMAIN GoneOf(p)
      /\ \A i \in DOMAIN OldOf(s) : i < FirstOf(s) /\ i \notin DOMAIN GoneOf(s)
      /\ \A i \in DOMAIN GoneOf(p) : i < FirstOf(p) /\ ~ Back(u, s, i)
      /\ \A i \in DOMAIN GoneOf(s) : i < FirstOf(s) /\ i \notin DOMAIN ObjectsOf(u)
      /\ \A i : Back(u, s, i) => i < FirstOf(p) \/ i \in NewOf(p)
      /\ \A i \in DOMAIN ObjectsOf(u) : i < FirstOf(s) \/ i \in NewOf(s)
  BY <1>1, <1>2 DEF Fits
<1>6. Fits(u, m)
  <2>1. \A i \in NewOf(m) : FirstOf(m) <= i /\ i < NextOf(u)
    BY <1>3, <1>4, <1>5
  <2>2. \A i \in DOMAIN OldOf(m) : i < FirstOf(m) /\ i \notin DOMAIN GoneOf(m)
    BY <1>3, <1>4, <1>5 DEF Back
  <2>3. \A i \in DOMAIN GoneOf(m) : i < FirstOf(m) /\ i \notin DOMAIN ObjectsOf(u)
    BY <1>3, <1>4, <1>5 DEF Back
  <2>4. \A i \in DOMAIN ObjectsOf(u) : i < FirstOf(m) \/ i \in NewOf(m)
    BY <1>3, <1>4, <1>5 DEF Back
  <2>. QED
    BY <2>1, <2>2, <2>3, <2>4 DEF Fits
<1>7. \A i : Back(u, m, i) <=> Back(r, p, i)
  BY <1>2, <1>3, <1>4, <1>5 DEF Back
<1>8. \A i : Back(u, m, i) => BackAs(u, m, i) = BackAs(r, p, i)
  BY <1>2, <1>3, <1>4, <1>5 DEF Back, BackAs
<1>9. Restored(u, m) = Restored(r, p)
  BY <1>1, <1>3, <1>7, <1>8, RestoredSame
<1>10. Kept(u, s) /\ Kept(r, p) => Kept(u, m)
  BY <1>2, <1>3, <1>4, <1>5 DEF Kept, Back
<1>. QED
  BY <1>3, <1>6, <1>9, <1>10 DEF r

-----------------------------------------------------------------------------
(* What the three hooks add to the undo state on top.                      *)

LEMMA CreateRecord ==
    ASSUME NEW s \in UndoState, s = head, NEW id \in Ids, NEW t, t = on_create(id)
    PROVE  /\ t \in UndoState
           /\ FirstOf(t) = FirstOf(s) /\ RevisionOf(t) = RevisionOf(s)
           /\ OldOf(t) = OldOf(s) /\ GoneOf(t) = GoneOf(s)
           /\ \A i : i \in NewOf(t) <=> i \in NewOf(s) \/ i = id
<1> DEFINE n == NewOf(s) \cup {id}
<1>1. t = [s EXCEPT !.new_ids = n]
  BY DEF on_create, NewOf
<1>2. n \subseteq Ids /\ \A i : i \in n <=> i \in NewOf(s) \/ i = id
  BY RecordFields
<1> HIDE DEF n
<1>3. /\ t \in UndoState
      /\ FirstOf(t) = FirstOf(s) /\ RevisionOf(t) = RevisionOf(s)
      /\ OldOf(t) = OldOf(s) /\ GoneOf(t) = GoneOf(s) /\ NewOf(t) = n
  BY <1>1, <1>2 DEF UndoState, OldOf, GoneOf, NewOf, FirstOf, RevisionOf
<1>. QED
  BY <1>2, <1>3

LEMMA ModifyRecord ==
    ASSUME NEW s \in UndoState, s = head, NEW o \in Partial(Ids, Values), o = objects,
           NEW id \in DOMAIN o, NEW t, t = on_modify(id)
    PROVE  /\ t \in UndoState
           /\ FirstOf(t) = FirstOf(s) /\ RevisionOf(t) = RevisionOf(s)
           /\ NewOf(t) = NewOf(s) /\ GoneOf(t) = GoneOf(s)
           /\ \A i : i \in DOMAIN OldOf(t) <=>
                 i \in DOMAIN OldOf(s) \/ (i = id /\ id \notin NewOf(s))
           /\ \A i \in DOMAIN OldOf(t) :
                 OldOf(t)[i] = IF i \in DOMAIN OldOf(s) THEN OldOf(s)[i] ELSE o[i]
<1>1. id \in Ids /\ o[id] \in Values /\ OldOf(s) \in Partial(Ids, Values)
  BY RecordFields, PartialType
<1>2. CASE id \in NewOf(s) \/ id \in DOMAIN OldOf(s)
  <2>1. t = s
    BY <1>2 DEF on_modify, NewOf, OldOf
  <2>. QED
    BY <1>2, <2>1
<1>3. CASE id \notin NewOf(s) /\ id \notin DOMAIN OldOf(s)
  <2> DEFINE v == o[id]  w == With(OldOf(s), id, v)
  <2>1. t = [s EXCEPT !.old_values = w]
    BY <1>3 DEF on_modify, NewOf, OldOf
  <2> HIDE DEF v
  <2>2. w \in Partial(Ids, Values)
    BY <1>1, WithPartial DEF v
  <2>3. /\ \A j : j \in DOMAIN w <=> j \in DOMAIN OldOf(s) \/ j = id
        /\ w[id] = v
        /\ \A j \in DOMAIN OldOf(s) : j # id => w[j] = OldOf(s)[j]
    BY IsWith
  <2> HIDE DEF w
  <2>4. /\ t \in UndoState
        /\ FirstOf(t) = FirstOf(s) /\ RevisionOf(t) = RevisionOf(s)
        /\ OldOf(t) = w /\ GoneOf(t) = GoneOf(s) /\ NewOf(t) = NewOf(s)
    BY <2>1, <2>2 DEF UndoState, OldOf, GoneOf, NewOf, FirstOf, RevisionOf
  <2>. QED
    BY <1>3, <2>3, <2>4 DEF v
<1>. QED
  BY <1>2, <1>3

LEMMA RemoveRecord ==
    ASSUME NEW s \in UndoState, s = head, NEW o \in Partial(Ids, Values), o = objects,
           NEW id \in DOMAIN o, id \notin DOMAIN GoneOf(s), NEW t, t = on_remove(id)
    PROVE  /\ t \in UndoState
           /\ FirstOf(t) = FirstOf(s) /\ RevisionOf(t) = RevisionOf(s)
           /\ \A i : i \in NewOf(t) <=> i \in NewOf(s) /\ i # id
           /\ \A i : i \in DOMAIN OldOf(t) <=>
                 i \in DOMAIN OldOf(s) /\ (i = id => id \in NewOf(s))
           /\ \A i \in DOMAIN OldOf(t) : OldOf(t)[i] = OldOf(s)[i]
           /\ \A i : i \in DOMAIN GoneOf(t) <=>
                 i \in DOMAIN GoneOf(s) \/ (i = id /\ id \notin NewOf(s))
           /\ \A i \in DOMAIN GoneOf(t) :
                 GoneOf(t)[i] = IF i \in DOMAIN GoneOf(s) THEN GoneOf(s)[i]
                                ELSE IF i \in DOMAIN OldOf(s) THEN OldOf(s)[i] ELSE o[i]
<1>1. /\ id \in Ids /\ o[id] \in Values /\ OldOf(s) \in Partial(Ids, Values)
      /\ GoneOf(s) \in Partial(Ids, Values) /\ NewOf(s) \subseteq Ids
      /\ \A i \in DOMAIN OldOf(s) : OldOf(s)[i] \in Values
  BY RecordFields, PartialType
<1>2. CASE id \in NewOf(s)
  <2> DEFINE n == NewOf(s) \ {id}
  <2>1. t = [s EXCEPT !.new_ids = n]
    BY <1>2 DEF on_remove, NewOf
  <2>2. n \subseteq Ids /\ \A i : i \in n <=> i \in NewOf(s) /\ i # id
    BY <1>1
  <2> HIDE DEF n
  <2>3. /\ t \in UndoState
        /\ FirstOf(t) = FirstOf(s) /\ RevisionOf(t) = RevisionOf(s)
        /\ OldOf(t) = OldOf(s) /\ GoneOf(t) = GoneOf(s) /\ NewOf(t) = n
    BY <2>1, <2>2 DEF UndoState, OldOf, GoneOf, NewOf, FirstOf, RevisionOf
  <2>. QED
    BY <1>2, <2>2, <2>3
<1>3. CASE id \notin NewOf(s) /\ id \in DOMAIN OldOf(s)
  <2> DEFINE v == OldOf(s)[id]  g == With(GoneOf(s), id, v)  d == Drop(OldOf(s), id)
  <2>1. t = [s EXCEPT !.removed_values = g, !.old_values = d]
    BY <1>3 DEF on_remove, NewOf, OldOf, GoneOf, Drop
  <2> HIDE DEF v
  <2>2. g \in Partial(Ids, Values)
    BY <1>1, <1>3, WithPartial DEF v
  <2>3. /\ \A j : j \in DOMAIN g <=> j \in DOMAIN GoneOf(s) \/ j = id
        /\ g[id] = v
        /\ \A j \in DOMAIN GoneOf(s) : j # id => g[j] = GoneOf(s)[j]
    BY IsWith
  <2>4. /\ d \in Partial(Ids, Values)
        /\ \A j : j \in DOMAIN d <=> j \in DOMAIN OldOf(s) /\ j # id
        /\ \A j \in DOMAIN d : d[j] = OldOf(s)[j]
    BY <1>1, IsDrop
  <2> HIDE DEF g, d
  <2>5. /\ t \in UndoState
        /\ FirstOf(t) = FirstOf(s) /\ RevisionOf(t) = RevisionOf(s)
        /\ OldOf(t) = d /\ GoneOf(t) = g /\ NewOf(t) = NewOf(s)
    BY <2>1, <2>2, <2>4 DEF UndoState, OldOf, GoneOf, NewOf, FirstOf, RevisionOf
  <2>. QED
    BY <1>3, <2>3, <2>4, <2>5 DEF v
<1>4. CASE id \notin NewOf(s) /\ id \notin DOMAIN OldOf(s)
  <2> DEFINE v == o[id]  g == With(GoneOf(s), id, v)
  <2>1. t = [s EXCEPT !.removed_values = g]
    BY <1>4 DEF on_remove, NewOf, OldOf, GoneOf
  <2> HIDE DEF v
  <2>2. g \in Partial(Ids, Values)
    BY <1>1, WithPartial DEF v
  <2>3. /\ \A j : j \in DOMAIN g <=> j \in DOMAIN GoneOf(s) \/ j = id
        /\ g[id] = v
        /\ \A j \in DOMAIN GoneOf(s) : j # id => g[j] = GoneOf(s)[j]
    BY IsWith
  <2> HIDE DEF g
  <2>4. /\ t \in UndoState
        /\ FirstOf(t) = FirstOf(s) /\ RevisionOf(t) = RevisionOf(s)
        /\ OldOf(t) = OldOf(s) /\ GoneOf(t) = g /\ NewOf(t) = NewOf(s)
    BY <2>1, <2>2 DEF UndoState, OldOf, GoneOf, NewOf, FirstOf, RevisionOf
  <2>. QED
    BY <1>4, <2>3, <2>4 DEF v
<1>. QED
  BY <1>2, <1>3, <1>4

LEMMA CreateFits ==
    ASSUME NEW u, Sane(u), NEW s \in UndoState, s = head, Fits(u, s),
           FirstOf(s) <= NextOf(u), NextOf(u) \in Ids,
           NEW w, Sane(w), NextOf(w) = NextOf(u) + 1,
           \A i : i \in DOMAIN ObjectsOf(w) <=> i \in DOMAIN ObjectsOf(u) \/ i = NextOf(u),
           \A i \in DOMAIN ObjectsOf(u) : ObjectsOf(w)[i] = ObjectsOf(u)[i],
           NEW t, t = on_create(NextOf(u))
    PROVE  /\ t \in UndoState /\ RevisionOf(t) = RevisionOf(s)
           /\ Fits(w, t)
           /\ Restored(w, t) = Restored(u, s)
           /\ Kept(u, s) => Kept(w, t)
<1> DEFINE id == NextOf(u)
<1>1. /\ t \in UndoState
      /\ FirstOf(t) = FirstOf(s) /\ RevisionOf(t) = RevisionOf(s)
      /\ OldOf(t) = OldOf(s) /\ GoneOf(t) = GoneOf(s)
      /\ \A i : i \in NewOf(t) <=> i \in NewOf(s) \/ i = id
  BY CreateRecord
<1>2. u \in Contents /\ w \in Contents /\ id \in Int /\ FirstOf(s) \in Int
  BY RecordFields DEF Sane, Ids
<1>3. /\ NewOf(s) \subseteq Ids /\ DOMAIN OldOf(s) \subseteq Ids /\ DOMAIN GoneOf(s) \subseteq Ids
      /\ \A i \in Ids : i \in Int
  BY RecordFields DEF Ids
<1>4. id \notin DOMAIN ObjectsOf(u)
  BY <1>2 DEF Sane
<1>5. id \notin DOMAIN GoneOf(s) /\ id \notin DOMAIN OldOf(s)
  BY <1>2 DEF Fits
<1> HIDE DEF id
<1>6. Fits(w, t)
  <2>1. \A i \in NewOf(t) : FirstOf(t) <= i /\ i < NextOf(w)
    BY <1>1, <1>2, <1>3 DEF Fits, id
  <2>2. \A i \in DOMAIN OldOf(t) : i < FirstOf(t) /\ i \notin DOMAIN GoneOf(t)
    BY <1>1 DEF Fits
  <2>3. \A i \in DOMAIN GoneOf(t) : i < FirstOf(t) /\ i \notin DOMAIN ObjectsOf(w)
    BY <1>1, <1>5 DEF Fits, id
  <2>4. \A i \in DOMAIN ObjectsOf(w) : i < FirstOf(t) \/ i \in NewOf(t)
    BY <1>1 DEF Fits, id
  <2>. QED
    BY <2>1, <2>2, <2>3, <2>4 DEF Fits
<1>7. \A i : Back(w, t, i) <=> Back(u, s, i)
  BY <1>1, <1>4 DEF Back, id
<1>8. \A i : Back(w, t, i) => BackAs(w, t, i) = BackAs(u, s, i)
  BY <1>1 DEF Back, BackAs, id
<1>9. Restored(w, t) = Restored(u, s)
  BY <1>1, <1>2, <1>7, <1>8, RestoredSame
<1>10. Kept(u, s) => Kept(w, t)
  BY <1>1 DEF Kept, id
<1>. QED
  BY <1>1, <1>6, <1>9, <1>10

LEMMA ModifyFits ==
    ASSUME NEW u, Sane(u), NEW s \in UndoState, s = head, Fits(u, s), ObjectsOf(u) = objects,
           NEW id \in DOMAIN ObjectsOf(u),
           NEW w, Sane(w), NextOf(w) = NextOf(u),
           \A i \in DOMAIN ObjectsOf(w) : i \in DOMAIN ObjectsOf(u),
           \A i \in DOMAIN ObjectsOf(u) : i # id =>
              i \in DOMAIN ObjectsOf(w) /\ ObjectsOf(w)[i] = ObjectsOf(u)[i],
           NEW t, t = on_modify(id)
    PROVE  /\ t \in UndoState /\ RevisionOf(t) = RevisionOf(s)
           /\ Fits(w, t)
           /\ Restored(w, t) = Restored(u, s)
           /\ Kept(u, s) /\ id \in DOMAIN ObjectsOf(w) => Kept(w, t)
<1>1. u \in Contents /\ w \in Contents /\ ObjectsOf(u) \in Partial(Ids, Values)
  BY DEF Sane, Contents, ObjectsOf
<1>2. /\ t \in UndoState
      /\ FirstOf(t) = FirstOf(s) /\ RevisionOf(t) = RevisionOf(s)
      /\ NewOf(t) = NewOf(s) /\ GoneOf(t) = GoneOf(s)
      /\ \A i : i \in DOMAIN OldOf(t) <=>
            i \in DOMAIN OldOf(s) \/ (i = id /\ id \notin NewOf(s))
      /\ \A i \in DOMAIN OldOf(t) :
            OldOf(t)[i] = IF i \in DOMAIN OldOf(s) THEN OldOf(s)[i] ELSE ObjectsOf(u)[i]
  BY <1>1, ModifyRecord
<1>3. Fits(w, t)
  BY <1>2 DEF Fits
<1>4. id \notin DOMAIN GoneOf(s)
  BY DEF Fits
<1>5. \A i : Back(w, t, i) <=> Back(u, s, i)
  BY <1>2 DEF Back
<1>6. \A i : Back(w, t, i) => BackAs(w, t, i) = BackAs(u, s, i)
  <2>1. \A i \in DOMAIN OldOf(s) : i \notin DOMAIN GoneOf(s)
    BY DEF Fits
  <2>. QED
    BY <1>2, <1>4, <2>1 DEF Back, BackAs
<1>7. Restored(w, t) = Restored(u, s)
  BY <1>1, <1>2, <1>5, <1>6, RestoredSame
<1>8. Kept(u, s) /\ id \in DOMAIN ObjectsOf(w) => Kept(w, t)
  BY <1>2 DEF Kept
<1>. QED
  BY <1>2, <1>3, <1>7, <1>8

LEMMA RemoveFits ==
    ASSUME NEW u, Sane(u), NEW s \in UndoState, s = head, Fits(u, s), ObjectsOf(u) = objects,
           NEW id \in DOMAIN ObjectsOf(u),
           NEW w, Sane(w), NextOf(w) = NextOf(u),
           \A i : i \in DOMAIN ObjectsOf(w) <=> i \in DOMAIN ObjectsOf(u) /\ i # id,
           \A i \in DOMAIN ObjectsOf(w) : ObjectsOf(w)[i] = ObjectsOf(u)[i],
           NEW t, t = on_remove(id)
    PROVE  /\ t \in UndoState /\ RevisionOf(t) = RevisionOf(s)
           /\ Fits(w, t)
           /\ Restored(w, t) = Restored(u, s)
           /\ Kept(u, s) => Kept(w, t)
<1>1. u \in Contents /\ w \in Contents /\ ObjectsOf(u) \in Partial(Ids, Values)
  BY DEF Sane, Contents, ObjectsOf
<1>2. id \notin DOMAIN GoneOf(s) /\ (id < FirstOf(s) \/ id \in NewOf(s))
  BY DEF Fits
<1>3. /\ t \in UndoState
      /\ FirstOf(t) = FirstOf(s) /\ RevisionOf(t) = RevisionOf(s)
      /\ \A i : i \in NewOf(t) <=> i \in NewOf(s) /\ i # id
      /\ \A i : i \in DOMAIN OldOf(t) <=>
            i \in DOMAIN OldOf(s) /\ (i = id => id \in NewOf(s))
      /\ \A i \in DOMAIN OldOf(t) : OldOf(t)[i] = OldOf(s)[i]
      /\ \A i : i \in DOMAIN GoneOf(t) <=>
            i \in DOMAIN GoneOf(s) \/ (i = id /\ id \notin NewOf(s))
      /\ \A i \in DOMAIN GoneOf(t) :
            GoneOf(t)[i] = IF i \in DOMAIN GoneOf(s) THEN GoneOf(s)[i]
                           ELSE IF i \in DOMAIN OldOf(s) THEN OldOf(s)[i]
                           ELSE ObjectsOf(u)[i]
  BY <1>1, <1>2, RemoveRecord
<1>4. \A i \in DOMAIN OldOf(s) : i \notin NewOf(s)
  <2>1. \A i \in Ids : i \in Int
    BY DEF Ids
  <2>2. DOMAIN OldOf(s) \subseteq Ids /\ FirstOf(s) \in Int
    BY RecordFields
  <2>. QED
    BY <2>1, <2>2 DEF Fits
<1>5. Fits(w, t)
  BY <1>2, <1>3, <1>4 DEF Fits
<1>6. \A i : Back(w, t, i) <=> Back(u, s, i)
  BY <1>3, <1>4 DEF Back
<1>7. \A i : Back(w, t, i) => BackAs(w, t, i) = BackAs(u, s, i)
  <2>1. \A i \in DOMAIN OldOf(s) : i \notin DOMAIN GoneOf(s)
    BY DEF Fits
  <2>. QED
    BY <1>2, <1>3, <1>4, <2>1 DEF Back, BackAs
<1>8. Restored(w, t) = Restored(u, s)
  BY <1>1, <1>3, <1>6, <1>7, RestoredSame
<1>9. Kept(u, s) => Kept(w, t)
  BY <1>3, <1>4 DEF Kept
<1>. QED
  BY <1>3, <1>5, <1>8, <1>9

-----------------------------------------------------------------------------
(* One call of undo(), and undo_all().                                     *)

(* c holds the contents that undoing the state st leads through.           *)
Holds(st, c) ==
    /\ Chain(c, StackOf(st), RevisionOf(st), FaultOf(st))
    /\ ObjectsOf(c[Len(StackOf(st)) + 1]) = ObjectsOf(st)
    /\ NextOf(c[Len(StackOf(st)) + 1]) = NextOf(st)

LEMMA UndoTopFields ==
    ASSUME NEW st, NEW s, s = Last(StackOf(st)), NEW t, t = UndoTop(st),
           NEW e, e = Erased(st, s), NEW x, x = Rebuilt(st, s)
    PROVE  /\ ObjectsOf(t) = ObjectsOf(x)
           /\ FaultOf(e) = "none" => NextOf(t) = FirstOf(s)
           /\ FaultOf(e) # "none" => NextOf(t) = NextOf(st)
           /\ FaultOf(x) = "none" => /\ StackOf(t) = Front(StackOf(st))
                                     /\ RevisionOf(t) = RevisionOf(st) - 1
                                     /\ FaultOf(t) = FaultOf(st)
           /\ FaultOf(x) # "none" => /\ StackOf(t) = StackOf(st)
                                     /\ RevisionOf(t) = RevisionOf(st)
                                     /\ FaultOf(t) = FaultOf(x)
           /\ StoppedOf(t) <=> FaultOf(x) # "none"
BY DEF UndoTop, ObjectsOf, FaultOf, NextOf, FirstOf, StackOf, RevisionOf, StoppedOf

LEMMA ChainTop ==
    ASSUME NEW c, NEW q, NEW r, NEW f, Chain(c, q, r, f), Len(q) > 0
    PROVE  /\ q \in Seq(UndoState) /\ Len(q) \in Nat
           /\ Last(q) \in UndoState /\ RevisionOf(Last(q)) = r
           /\ Sane(c[Len(q)]) /\ Sane(c[Len(q) + 1])
           /\ c[Len(q)] = Restored(c[Len(q) + 1], Last(q))
           /\ Fits(c[Len(q) + 1], Last(q))
           /\ NextOf(c[Len(q)]) = FirstOf(Last(q))
           /\ NextOf(c[Len(q)]) <= NextOf(c[Len(q) + 1])
           /\ f = "none" => Kept(c[Len(q) + 1], Last(q))
<1>1. q \in Seq(UndoState) /\ Last(q) = q[Len(q)] /\ Last(q) \in UndoState
  BY FrontFacts DEF Chain
<1>2. /\ Len(q) \in Nat /\ Len(q) \in 1 .. Len(q) /\ Len(q) \in 1 .. Len(q) + 1
      /\ Len(q) + 1 \in 1 .. Len(q) + 1 /\ Len(q) <= Len(q) + 1
  BY <1>1
<1>3. /\ Sane(c[Len(q)]) /\ Sane(c[Len(q) + 1])
      /\ c[Len(q)] = Restored(c[Len(q) + 1], Last(q))
      /\ Fits(c[Len(q) + 1], Last(q))
      /\ f = "none" => Kept(c[Len(q) + 1], Last(q))
  BY <1>1, <1>2 DEF Chain
<1>4. NextOf(c[Len(q)]) <= NextOf(c[Len(q) + 1])
  BY <1>2 DEF Chain
<1>5. RevisionOf(Last(q)) = r
  <2>1. RevisionOf(Last(q)) = r - Len(q) + Len(q) /\ r \in Int
    BY <1>1, <1>2 DEF Chain
  <2>. QED
    BY <1>2, <2>1
<1>6. NextOf(c[Len(q)]) = FirstOf(Last(q))
  BY <1>1, <1>3, RestoredBack DEF Sane
<1>. QED
  BY <1>1, <1>2, <1>3, <1>4, <1>5, <1>6

(* The record on top is replaced, and the present content with it.         *)
LEMMA TopReplaced ==
    ASSUME NEW c, NEW q, NEW r, NEW f, Chain(c, q, r, f), Len(q) > 0,
           NEW s \in UndoState, RevisionOf(s) = r, NEW g \in Faults,
           NEW u, Sane(u), c[Len(q)] = Restored(u, s), Fits(u, s),
           NextOf(c[Len(q)]) <= NextOf(u),
           g = "none" => f = "none" /\ Kept(u, s)
    PROVE  \E d : /\ Chain(d, Front(q) \o <<s>>, r, g)
                  /\ Len(Front(q) \o <<s>>) = Len(q)
                  /\ d[Len(q) + 1] = u
                  /\ \A i \in 1 .. Len(q) : d[i] = c[i]
<1> DEFINE p == Front(q)
<1>1. /\ q \in Seq(UndoState) /\ p \in Seq(UndoState) /\ Len(p) = Len(q) - 1
      /\ p \o <<s>> = Append(p, s)
  BY FrontFacts DEF Chain
<1>2. Chain(c, p, r - 1, f)
  BY ChainPop
<1> HIDE DEF p
<1>3. Len(p) + 1 = Len(q) /\ Len(p) + 2 = Len(q) + 1 /\ r - 1 + 1 = r /\ Len(q) \in Nat
  BY <1>1 DEF Chain
<1>4. PICK d : /\ Chain(d, Append(p, s), r - 1 + 1, g)
               /\ d[Len(p) + 2] = u
               /\ \A i \in 1 .. Len(p) + 1 : d[i] = c[i]
  BY <1>2, <1>3, ChainPush
<1>5. Len(p \o <<s>>) = Len(q)
  BY <1>1, <1>3
<1>6. /\ Chain(d, p \o <<s>>, r, g) /\ d[Len(q) + 1] = u
      /\ \A i \in 1 .. Len(q) : d[i] = c[i]
  BY <1>1, <1>3, <1>4
<1>. QED
  BY <1>5, <1>6 DEF p

LEMMA UndoStep ==
    ASSUME NEW st, NEW c, Holds(st, c), Len(StackOf(st)) > 0, NEW t, t = UndoTop(st)
    PROVE  /\ ~ StoppedOf(t) =>
                 /\ Holds(t, c)
                 /\ Len(StackOf(t)) = Len(StackOf(st)) - 1
                 /\ FaultOf(t) = FaultOf(st)
           /\ StoppedOf(t) =>
                 /\ FaultOf(t) # "none"
                 /\ FaultOf(st) = "none" => FaultOf(t) # "undefined"
                 /\ Len(StackOf(t)) = Len(StackOf(st))
                 /\ \E d : Holds(t, d) /\ \A i \in 1 .. Len(StackOf(st)) : d[i] = c[i]
<1> DEFINE q == StackOf(st)  n == Len(q)  s == Last(q)  u == c[n + 1]  v == c[n]
           e == Erased(st, s)  x == Rebuilt(st, s)
<1>1. /\ Chain(c, q, RevisionOf(st), FaultOf(st))
      /\ ObjectsOf(u) = ObjectsOf(st) /\ NextOf(u) = NextOf(st)
  BY DEF Holds
<1>2. /\ q \in Seq(UndoState) /\ n \in Nat
      /\ s \in UndoState /\ RevisionOf(s) = RevisionOf(st)
      /\ Sane(v) /\ Sane(u) /\ v = Restored(u, s) /\ Fits(u, s)
      /\ NextOf(v) = FirstOf(s) /\ NextOf(v) <= NextOf(u)
      /\ FaultOf(st) = "none" => Kept(u, s)
  BY <1>1, ChainTop
<1>3. st.objects = ObjectsOf(u)
  BY <1>1 DEF ObjectsOf
<1>4. /\ ObjectsOf(t) = ObjectsOf(x)
      /\ FaultOf(e) = "none" => NextOf(t) = FirstOf(s)
      /\ FaultOf(e) # "none" => NextOf(t) = NextOf(st)
      /\ FaultOf(x) = "none" => /\ StackOf(t) = Front(q)
                                /\ RevisionOf(t) = RevisionOf(st) - 1
                                /\ FaultOf(t) = FaultOf(st)
      /\ FaultOf(x) # "none" => /\ StackOf(t) = q
                                /\ RevisionOf(t) = RevisionOf(st)
                                /\ FaultOf(t) = FaultOf(x)
      /\ StoppedOf(t) <=> FaultOf(x) # "none"
  BY UndoTopFields
<1> HIDE DEF u, v, s, e, x
<1>5. /\ x \in Building
      /\ FaultOf(e) = "none" <=> FaultOf(x) = "none"
      /\ FaultOf(x) = "none" => ObjectsOf(x) = ObjectsOf(v)
      /\ FaultOf(x) # "none" => Partway(ObjectsOf(x), ObjectsOf(u), s) /\ Distinct(ObjectsOf(x))
      /\ Kept(u, s) => FaultOf(x) # "undefined"
  BY <1>2, <1>3, Rebuilds DEF e, x
<1>6. ASSUME ~ StoppedOf(t)
      PROVE  /\ Holds(t, c)
             /\ Len(StackOf(t)) = n - 1
             /\ FaultOf(t) = FaultOf(st)
  <2>1. /\ StackOf(t) = Front(q) /\ RevisionOf(t) = RevisionOf(st) - 1
        /\ FaultOf(t) = FaultOf(st)
        /\ ObjectsOf(t) = ObjectsOf(v) /\ NextOf(t) = NextOf(v)
    BY <1>2, <1>4, <1>5, <1>6
  <2>2. Len(Front(q)) = n - 1 /\ Len(Front(q)) + 1 = n
    BY <1>2, FrontFacts
  <2>3. Chain(c, Front(q), RevisionOf(st) - 1, FaultOf(st))
    BY <1>1, ChainPop
  <2>. QED
    BY <2>1, <2>2, <2>3 DEF Holds, v
<1>7. ASSUME StoppedOf(t)
      PROVE  /\ FaultOf(t) # "none"
             /\ FaultOf(st) = "none" => FaultOf(t) # "undefined"
             /\ Len(StackOf(t)) = n
             /\ \E d : Holds(t, d) /\ \A i \in 1 .. n : d[i] = c[i]
  <2>1. /\ FaultOf(x) # "none" /\ StackOf(t) = q /\ RevisionOf(t) = RevisionOf(st)
        /\ FaultOf(t) = FaultOf(x)
        /\ ObjectsOf(t) = ObjectsOf(x) /\ NextOf(t) = NextOf(u)
    BY <1>1, <1>4, <1>5, <1>7
  <2> DEFINE w == [objects |-> ObjectsOf(x), next_id |-> NextOf(u)]
  <2>2. w \in Contents /\ ObjectsOf(w) = ObjectsOf(x) /\ NextOf(w) = NextOf(u)
    <3>1. ObjectsOf(x) \in Partial(Ids, Values)
      BY <1>5, BuildingFields
    <3>2. NextOf(u) \in 0 .. MaxId
      BY <1>2 DEF Sane, Contents, NextOf
    <3>. QED
      BY <3>1, <3>2 DEF Contents, ObjectsOf, NextOf
  <2> HIDE DEF w
  <2>3. Sane(w) /\ Fits(w, s) /\ Restored(w, s) = v
    BY <1>2, <1>5, <2>1, <2>2, PartwayFits
  <2>4. FaultOf(t) \in Faults
    BY <1>5, <2>1, BuildingFields DEF Faults
  <2>5. PICK d : /\ Chain(d, Front(q) \o <<s>>, RevisionOf(st), FaultOf(t))
                 /\ d[n + 1] = w
                 /\ \A i \in 1 .. n : d[i] = c[i]
    BY <1>1, <1>2, <2>1, <2>2, <2>3, <2>4, TopReplaced DEF v
  <2>6. Front(q) \o <<s>> = q
    <3>1. /\ Front(q) \in Seq(UndoState) /\ Len(Front(q)) = n - 1
          /\ \A i \in 1 .. n - 1 : Front(q)[i] = q[i]
          /\ Last(q) = q[n]
          /\ Front(q) \o <<s>> = Append(Front(q), s)
      BY <1>2, FrontFacts
    <3> DEFINE p == Front(q)
    <3> HIDE DEF p
    <3>2. Append(p, s) \in Seq(UndoState) /\ Len(Append(p, s)) = n
      BY <1>2, <3>1 DEF p
    <3>3. \A i \in 1 .. n : Append(p, s)[i] = q[i]
      BY <1>2, <3>1 DEF p, s
    <3>4. Append(p, s) = q
      BY <1>2, <3>2, <3>3, SeqEqual
    <3>. QED
      BY <3>1, <3>4 DEF p
  <2>7. Holds(t, d)
    BY <2>1, <2>2, <2>5, <2>6 DEF Holds
  <2>. QED
    BY <1>2, <1>5, <2>1, <2>5, <2>7
<1>. QED
  BY <1>6, <1>7

Passes(g, m) ==
    /\ g = [n \in 0 .. m |-> g[n]]
    /\ g[0] = Now
    /\ \A n \in 1 .. m : g[n] = Again(g[n - 1])

LEMMA PassesDefine ==
    ASSUME NEW m \in Nat, NEW g
    PROVE  Passes(g, m) <=> g = [n \in 0 .. m |-> IF n = 0 THEN Now ELSE Again(g[n - 1])]
<1> DEFINE V(n) == IF n = 0 THEN Now ELSE Again(g[n - 1])
<1>1. V(0) = Now /\ \A n \in 1 .. m : V(n) = Again(g[n - 1])
  OBVIOUS
<1>2. /\ \A n \in 0 .. m : n = 0 \/ n \in 1 .. m
      /\ 0 \in 0 .. m /\ \A n \in 1 .. m : n \in 0 .. m
  OBVIOUS
<1> HIDE DEF V
<1>3. g = [n \in 0 .. m |-> V(n)]
        <=> g = [n \in 0 .. m |-> g[n]] /\ \A n \in 0 .. m : g[n] = V(n)
  BY Zenon
<1>4. Passes(g, m) <=> g = [n \in 0 .. m |-> V(n)]
  BY <1>1, <1>2, <1>3, Zenon DEF Passes
<1>. QED
  BY <1>4 DEF V

LEMMA PassesExist ==
    ASSUME NEW m \in Nat
    PROVE  \E g : Passes(g, m)
<1> DEFINE T == {n \in Nat : \E g : Passes(g, n)}
<1>1. 0 \in T
  <2> DEFINE now == Now
  <2>1. now = Now
    OBVIOUS
  <2> HIDE DEF now
  <2>2. Passes([n \in 0 .. 0 |-> now], 0)
    BY <2>1 DEF Passes
  <2>. QED
    BY <2>2
<1>2. ASSUME NEW k \in Nat, k \in T PROVE k + 1 \in T
  <2>1. PICK g : Passes(g, k)
    BY <1>2
  <2> DEFINE last == Again(g[k])
             h == [n \in 0 .. k + 1 |-> IF n = k + 1 THEN last ELSE g[n]]
  <2> HIDE DEF last
  <2>2. h = [n \in 0 .. k + 1 |-> h[n]]
    OBVIOUS
  <2>3. h[k + 1] = last /\ \A n \in 0 .. k : h[n] = g[n]
    OBVIOUS
  <2> HIDE DEF h
  <2>4. \A n \in 1 .. k + 1 : h[n] = Again(h[n - 1])
    <3>1. \A n \in 1 .. k + 1 : /\ n = k + 1 \/ n \in 1 .. k
                                /\ n - 1 \in 0 .. k
                                /\ n = k + 1 => n - 1 = k
      OBVIOUS
    <3>2. \A n \in 1 .. k : n \in 0 .. k
      OBVIOUS
    <3>. QED
      BY <2>1, <2>3, <3>1, <3>2, Zenon DEF Passes, last
  <2>5. h[0] = Now
    BY <2>1, <2>3 DEF Passes
  <2>6. Passes(h, k + 1)
    BY <2>2, <2>4, <2>5 DEF Passes
  <2>. QED
    BY <2>6
<1>. HIDE DEF T
<1>3. 0 .. m \subseteq T
  BY <1>1, <1>2, SetInduction
<1>. QED
  BY <1>3 DEF T

LEMMA UndonePasses ==
    ASSUME Len(stack) \in Nat
    PROVE  \E g : /\ g[0] = Now
                  /\ Undone = g[Len(stack)]
                  /\ \A n \in 1 .. Len(stack) : g[n] = Again(g[n - 1])
<1> DEFINE P(f) == f = [n \in 0 .. Len(stack) |-> IF n = 0 THEN Now ELSE Again(f[n - 1])]
           g == CHOOSE f : P(f)
<1>1. \A f : Passes(f, Len(stack)) <=> P(f)
  BY PassesDefine
<1>2. \E f : P(f)
  BY <1>1, PassesExist
<1>3. P(g)
  BY <1>2
<1>4. Undone = g[Len(stack)]
  BY DEF Undone
<1>. HIDE DEF g, P
<1>5. Passes(g, Len(stack))
  BY <1>1, <1>3
<1>. QED
  BY <1>4, <1>5, Zenon DEF Passes

(* After k rounds of undo_all(): each has undone one state, or one threw.  *)
Undoing(t, c, k) ==
    /\ ~ StoppedOf(t) =>
          /\ Holds(t, c)
          /\ Len(StackOf(t)) = Len(stack) - k
          /\ FaultOf(t) = fault
    /\ StoppedOf(t) =>
          /\ FaultOf(t) # "none"
          /\ fault = "none" => FaultOf(t) # "undefined"
          /\ Len(StackOf(t)) \in 1 .. Len(stack)
          /\ \E d : Holds(t, d) /\ \A i \in 1 .. Len(StackOf(t)) : d[i] = c[i]

LEMMA UndoneHolds ==
    ASSUME NEW c, Holds(Now, c)
    PROVE  Undoing(Undone, c, Len(stack))
<1>1. /\ StackOf(Now) = stack /\ RevisionOf(Now) = revision /\ FaultOf(Now) = fault
      /\ ~ StoppedOf(Now)
  BY DEF Now, StackOf, RevisionOf, FaultOf, StoppedOf
<1>2. Len(stack) \in Nat
  BY <1>1 DEF Holds, Chain
<1> DEFINE n == Len(stack)  u == Undone  now == Now
<1>3. PICK g : /\ g[0] = now /\ u = g[n]
               /\ \A k \in 1 .. n : g[k] = Again(g[k - 1])
  BY <1>2, UndonePasses, Zenon
<1> HIDE DEF u, now
<1> DEFINE T == {k \in Nat : Undoing(g[k], c, k)}
<1>4. 0 \in T
  <2>1. Holds(now, c) /\ ~ StoppedOf(now) /\ Len(StackOf(now)) = n - 0 /\ FaultOf(now) = fault
    BY <1>1, <1>2 DEF now
  <2>. QED
    BY <1>3, <2>1 DEF Undoing
<1>5. ASSUME NEW k \in 0 .. n - 1, k \in T PROVE k + 1 \in T
  <2>1. k \in Nat /\ k + 1 \in Nat /\ k + 1 \in 1 .. n /\ k + 1 - 1 = k /\ n - k > 0
        /\ n - k \in 1 .. n /\ n - k - 1 = n - (k + 1)
    BY <1>2
  <2> DEFINE s == g[k]  t == g[k + 1]
  <2>2. Undoing(s, c, k) /\ t = Again(s)
    BY <1>3, <1>5, <2>1
  <2> HIDE DEF s, t
  <2>3. CASE StoppedOf(s)
    <3>1. t = s
      BY <2>2, <2>3 DEF Again, StoppedOf
    <3>. QED
      BY <2>1, <2>2, <2>3, <3>1 DEF Undoing, T, t
  <2>4. CASE ~ StoppedOf(s)
    <3>1. t = UndoTop(s)
      BY <2>2, <2>4 DEF Again, StoppedOf
    <3>2. Holds(s, c) /\ Len(StackOf(s)) = n - k /\ FaultOf(s) = fault
      BY <2>2, <2>4 DEF Undoing
    <3>3. /\ ~ StoppedOf(t) =>
                /\ Holds(t, c)
                /\ Len(StackOf(t)) = Len(StackOf(s)) - 1
                /\ FaultOf(t) = FaultOf(s)
          /\ StoppedOf(t) =>
                /\ FaultOf(t) # "none"
                /\ FaultOf(s) = "none" => FaultOf(t) # "undefined"
                /\ Len(StackOf(t)) = Len(StackOf(s))
                /\ \E d : Holds(t, d) /\ \A i \in 1 .. Len(StackOf(s)) : d[i] = c[i]
      <4>1. Len(StackOf(s)) > 0
        BY <2>1, <3>2
      <4>2. Holds(s, c)
        BY <3>2
      <4> HIDE DEF n
      <4>. QED
        BY <3>1, <4>1, <4>2, UndoStep
    <3>4. Undoing(t, c, k + 1)
      BY <2>1, <3>2, <3>3 DEF Undoing
    <3>. QED
      BY <2>1, <3>4 DEF T, t
  <2>. QED
    BY <2>3, <2>4
<1>. HIDE DEF T
<1>6. 0 .. n \subseteq T
  BY <1>2, <1>4, <1>5, SetInduction
<1>7. Undoing(u, c, n)
  BY <1>2, <1>3, <1>6 DEF T
<1>. QED
  BY <1>7 DEF u

-----------------------------------------------------------------------------
(* Every action keeps the chain of contents, and how it changes the chain. *)

Represents(c) ==
    /\ Chain(c, stack, revision, fault)
    /\ ObjectsOf(c[Len(stack) + 1]) = objects
    /\ NextOf(c[Len(stack) + 1]) = next_id

IInv == \E c : Represents(c)

Agree(c, d, n) == \A i \in 1 .. n : d[i] = c[i]

LEMMA RepresentsFacts ==
    ASSUME NEW c, Represents(c)
    PROVE  /\ stack \in Seq(UndoState) /\ Len(stack) \in Nat /\ revision \in Int
           /\ fault \in Faults
           /\ Sane(c[Len(stack) + 1])
           /\ objects \in Partial(Ids, Values) /\ next_id \in 0 .. MaxId
           /\ DOMAIN objects \subseteq Ids /\ Distinct(objects)
           /\ \A i \in DOMAIN objects : i < next_id
           /\ Content = c[Len(stack) + 1]
<1>1. /\ stack \in Seq(UndoState) /\ Len(stack) \in Nat /\ revision \in Int
      /\ fault \in Faults
  BY DEF Represents, Chain
<1> DEFINE u == c[Len(stack) + 1]
<1>2. Sane(u) /\ ObjectsOf(u) = objects /\ NextOf(u) = next_id
  BY <1>1 DEF Represents, Chain
<1> HIDE DEF u
<1>3. u \in Contents /\ Distinct(objects) /\ \A i \in DOMAIN objects : i < next_id
  BY <1>2 DEF Sane
<1>4. objects \in Partial(Ids, Values) /\ next_id \in 0 .. MaxId /\ u = Content
  BY <1>2, <1>3 DEF Contents, ObjectsOf, NextOf, Content
<1>5. DOMAIN objects \subseteq Ids
  BY <1>4, PartialType
<1>. QED
  BY <1>1, <1>2, <1>3, <1>4, <1>5 DEF u

(* A content with the given fields.                                        *)
LEMMA ContentExists ==
    ASSUME NEW o \in Partial(Ids, Values), NEW k \in 0 .. MaxId
    PROVE  \E u \in Contents : ObjectsOf(u) = o /\ NextOf(u) = k
<1>1. [objects |-> o, next_id |-> k] \in Contents
  BY DEF Contents
<1>2. ObjectsOf([objects |-> o, next_id |-> k]) = o /\ NextOf([objects |-> o, next_id |-> k]) = k
  BY DEF ObjectsOf, NextOf
<1>. QED
  BY <1>1, <1>2

(* The record of a change goes to the undo state on top, if there is one.  *)
Recording(q, t) == q = IF enabled THEN Front(stack) \o <<t>> ELSE stack

(* The record t, for the content u, leads where head led, for w.           *)
Follows(u, t, w, g) ==
    enabled => /\ t \in UndoState /\ RevisionOf(t) = RevisionOf(head)
               /\ Fits(u, t)
               /\ Restored(u, t) = Restored(w, head)
               /\ g = "none" /\ Kept(w, head) => Kept(u, t)

LEMMA Recorded ==
    ASSUME NEW c, Represents(c), NEW u, Sane(u), next_id <= NextOf(u),
           NEW t, NEW g \in Faults, g = "none" => fault = "none",
           Follows(u, t, c[Len(stack) + 1], g),
           NEW q, Recording(q, t)
    PROVE  /\ Len(q) = Len(stack)
           /\ \E d : /\ Chain(d, q, revision, g)
                     /\ d[Len(stack) + 1] = u
                     /\ Agree(c, d, Len(stack))
<1>1. Chain(c, stack, revision, fault) /\ stack \in Seq(UndoState) /\ Len(stack) \in Nat
      /\ revision \in Int
  BY RepresentsFacts DEF Represents
<1>2. CASE enabled
  <2>1. Len(stack) > 0
    BY <1>1, <1>2, EmptySeq DEF enabled
  <2>2. /\ Last(stack) \in UndoState /\ RevisionOf(Last(stack)) = revision
        /\ c[Len(stack)] = Restored(c[Len(stack) + 1], Last(stack))
        /\ NextOf(c[Len(stack)]) <= NextOf(c[Len(stack) + 1])
        /\ fault = "none" => Kept(c[Len(stack) + 1], Last(stack))
        /\ Sane(c[Len(stack)]) /\ Sane(c[Len(stack) + 1])
    BY <1>1, <2>1, ChainTop
  <2>3. NextOf(c[Len(stack)]) <= NextOf(u)
    <3>1. /\ NextOf(c[Len(stack)]) \in Int /\ NextOf(u) \in Int /\ next_id \in Int
          /\ NextOf(c[Len(stack) + 1]) = next_id
      BY <2>2, RepresentsFacts DEF Sane, Contents, NextOf, Represents
    <3>. QED
      BY <2>2, <3>1
  <2>4. /\ t \in UndoState /\ RevisionOf(t) = revision
        /\ Fits(u, t) /\ c[Len(stack)] = Restored(u, t)
        /\ g = "none" => fault = "none" /\ Kept(u, t)
    BY <1>2, <2>2 DEF head, Follows
  <2>5. \E d : /\ Chain(d, Front(stack) \o <<t>>, revision, g)
               /\ Len(Front(stack) \o <<t>>) = Len(stack)
               /\ d[Len(stack) + 1] = u
               /\ \A i \in 1 .. Len(stack) : d[i] = c[i]
    BY <1>1, <2>1, <2>3, <2>4, TopReplaced
  <2>6. q = Front(stack) \o <<t>>
    BY <1>2 DEF Recording
  <2>. QED
    BY <2>5, <2>6 DEF Agree
<1>3. CASE ~ enabled
  <2>1. q = <<>> /\ stack = <<>> /\ Len(stack) = 0
    BY <1>3 DEF enabled, Recording
  <2> DEFINE d == [i \in {1} |-> u]
  <2>2. d[1] = u
    OBVIOUS
  <2> HIDE DEF d
  <2>3. Chain(d, q, revision, g)
    <3>1. q \in Seq(UndoState) /\ Len(q) = 0 /\ 1 .. 0 = {} /\ 1 .. 0 + 1 = {1}
      BY <2>1
    <3>2. NextOf(u) <= NextOf(u)
      <4>1. NextOf(u) \in Int
        BY DEF Sane, Contents, NextOf
      <4>. QED
        BY <4>1
    <3>. QED
      BY <1>1, <2>2, <3>1, <3>2 DEF Chain
  <2>4. Len(q) = 0 /\ Len(stack) + 1 = 1 /\ Agree(c, d, Len(stack))
    BY <2>1 DEF Agree
  <2>. QED
    BY <2>1, <2>2, <2>3, <2>4
<1>. QED
  BY <1>2, <1>3

LEMMA TopFits ==
    ASSUME NEW c, Represents(c), enabled
    PROVE  /\ head \in UndoState /\ Len(stack) > 0
           /\ Fits(c[Len(stack) + 1], head)
           /\ FirstOf(head) <= NextOf(c[Len(stack) + 1])
           /\ c[Len(stack)] = Restored(c[Len(stack) + 1], head)
           /\ Sane(c[Len(stack)])
<1>1. Len(stack) > 0 /\ Chain(c, stack, revision, fault)
  BY RepresentsFacts, EmptySeq DEF Represents, enabled
<1>. QED
  BY <1>1, ChainTop DEF head

(* Changes keep every older content: emplace(), modify() and remove().     *)
Changed(c, d) == Len(stack') = Len(stack) /\ Agree(c, d, Len(stack))

LEMMA EmplaceStep ==
    ASSUME NEW c, Represents(c), NEW v \in Values, emplace(v)
    PROVE  \E d : Represents(d)' /\ Changed(c, d)
<1> DEFINE n == Len(stack)  w == c[n + 1]  id == next_id  t == on_create(id)
           o == With(objects, id, v)
<1>1. /\ Sane(w) /\ ObjectsOf(w) = objects /\ NextOf(w) = id
      /\ objects \in Partial(Ids, Values) /\ Distinct(objects) /\ id \in 0 .. MaxId
      /\ DOMAIN objects \subseteq Ids /\ \A i \in DOMAIN objects : i < id
      /\ fault \in Faults
  BY RepresentsFacts DEF Represents
<1>2. /\ id < MaxId /\ ~ Taken(objects, id, v)
      /\ objects' = o /\ next_id' = id + 1 /\ Record(t)
      /\ revision' = revision /\ fault' = fault
  BY DEF emplace
<1>3. id \in Ids /\ id + 1 \in 0 .. MaxId /\ id \in Int
      /\ \A i \in Ids : i \in Int /\ (i < id => i < id + 1) /\ (i = id => i < id + 1)
      /\ id <= id + 1
  BY <1>1, <1>2, IndexAssumption DEF Ids
<1>4. o \in Partial(Ids, Values) /\ Distinct(o)
  BY <1>1, <1>2, <1>3, WithPartial, DistinctWith
<1>5. /\ \A i : i \in DOMAIN o <=> i \in DOMAIN objects \/ i = id
      /\ \A i \in DOMAIN objects : o[i] = objects[i]
  <2>1. /\ \A j : j \in DOMAIN o <=> j \in DOMAIN objects \/ j = id
        /\ \A j \in DOMAIN objects : j # id => o[j] = objects[j]
    BY IsWith
  <2>2. id \notin DOMAIN objects
    BY DEF emplace
  <2> HIDE DEF o
  <2>. QED
    BY <2>1, <2>2
<1> HIDE DEF w, o, t
<1>6. PICK u \in Contents : ObjectsOf(u) = o /\ NextOf(u) = id + 1
  BY <1>3, <1>4, ContentExists
<1>7. Sane(u)
  BY <1>1, <1>3, <1>4, <1>5, <1>6 DEF Sane
<1>8. ASSUME enabled
      PROVE  /\ t \in UndoState /\ RevisionOf(t) = RevisionOf(head)
             /\ Fits(u, t)
             /\ Restored(u, t) = Restored(w, head)
             /\ Kept(w, head) => Kept(u, t)
  <2>1. /\ head \in UndoState /\ Fits(w, head) /\ FirstOf(head) <= NextOf(w)
    BY <1>8, TopFits DEF w
  <2> DEFINE s == head
  <2>2. /\ s \in UndoState /\ s = head /\ Fits(w, s) /\ FirstOf(s) <= NextOf(w)
        /\ t = on_create(NextOf(w))
    BY <1>1, <2>1 DEF t
  <2>3. /\ NextOf(w) \in Ids /\ NextOf(u) = NextOf(w) + 1
        /\ \A i : i \in DOMAIN ObjectsOf(u) <=> i \in DOMAIN ObjectsOf(w) \/ i = NextOf(w)
        /\ \A i \in DOMAIN ObjectsOf(w) : ObjectsOf(u)[i] = ObjectsOf(w)[i]
    BY <1>1, <1>3, <1>5, <1>6
  <2> HIDE DEF s
  <2>4. /\ t \in UndoState /\ RevisionOf(t) = RevisionOf(s)
        /\ Fits(u, t)
        /\ Restored(u, t) = Restored(w, s)
        /\ Kept(w, s) => Kept(u, t)
    BY <1>1, <1>7, <2>2, <2>3, CreateFits
  <2>. QED
    BY <2>4 DEF s
<1>9. /\ Recording(stack', t) /\ Follows(u, t, c[Len(stack) + 1], fault)
      /\ next_id <= NextOf(u)
  BY <1>2, <1>3, <1>6, <1>8 DEF Record, SetHead, Recording, Follows, w
<1>10. /\ Len(stack') = n
       /\ \E d : Chain(d, stack', revision, fault) /\ d[n + 1] = u /\ Agree(c, d, n)
  BY <1>1, <1>7, <1>9, Recorded
<1>11. PICK d : Chain(d, stack', revision, fault) /\ d[n + 1] = u /\ Agree(c, d, n)
  BY <1>10
<1>12. Represents(d)'
  BY <1>2, <1>6, <1>10, <1>11 DEF Represents
<1>. QED
  BY <1>10, <1>11, <1>12 DEF Changed

LEMMA ModifyStep ==
    ASSUME NEW c, Represents(c), NEW id \in Ids, NEW v \in Values, modify(id, v)
    PROVE  /\ fault' # "undefined"
           /\ \E d : Represents(d)' /\ Changed(c, d)
<1> DEFINE n == Len(stack)  w == c[n + 1]  t == on_modify(id)
<1>1. /\ Sane(w) /\ ObjectsOf(w) = objects /\ NextOf(w) = next_id
      /\ objects \in Partial(Ids, Values) /\ Distinct(objects) /\ next_id \in 0 .. MaxId
      /\ DOMAIN objects \subseteq Ids /\ \A i \in DOMAIN objects : i < next_id
      /\ fault \in Faults
  BY RepresentsFacts DEF Represents
<1>2. /\ id \in DOMAIN objects /\ Record(t)
      /\ next_id' = next_id /\ revision' = revision /\ fault # "undefined"
  BY DEF modify, Defined
<1>3. \/ Taken(objects, id, v) /\ objects' = Drop(objects, id) /\ fault' = "threw"
      \/ ~ Taken(objects, id, v) /\ objects' = With(objects, id, v) /\ fault' = fault
  BY DEF modify, Drop
<1> DEFINE o == objects'
<1>4. /\ o \in Partial(Ids, Values) /\ Distinct(o)
      /\ \A i \in DOMAIN o : i \in DOMAIN objects
      /\ \A i \in DOMAIN objects : i # id => i \in DOMAIN o /\ o[i] = objects[i]
      /\ fault' = "none" => fault = "none" /\ id \in DOMAIN o
  <2>1. CASE Taken(objects, id, v) /\ o = Drop(objects, id) /\ fault' = "threw"
    <3> HIDE DEF o
    <3>1. /\ o \in Partial(Ids, Values)
          /\ \A j : j \in DOMAIN o <=> j \in DOMAIN objects /\ j # id
          /\ \A j \in DOMAIN o : o[j] = objects[j]
          /\ Distinct(objects) => Distinct(o)
      BY <1>1, <2>1, IsDrop
    <3>. QED
      BY <1>1, <2>1, <3>1
  <2>2. CASE ~ Taken(objects, id, v) /\ o = With(objects, id, v) /\ fault' = fault
    <3> HIDE DEF o
    <3>1. /\ \A j : j \in DOMAIN o <=> j \in DOMAIN objects \/ j = id
          /\ \A j \in DOMAIN objects : j # id => o[j] = objects[j]
      BY <2>2, IsWith
    <3>2. o \in Partial(Ids, Values) /\ Distinct(o)
      BY <1>1, <2>2, WithPartial, DistinctWith
    <3>. QED
      BY <1>2, <2>2, <3>1, <3>2
  <2>. QED
    BY <1>3, <2>1, <2>2
<1>5. fault' \in Faults /\ fault' # "undefined"
  BY <1>1, <1>2, <1>3 DEF Faults
<1> HIDE DEF w, o, t
<1>6. PICK u \in Contents : ObjectsOf(u) = o /\ NextOf(u) = next_id
  BY <1>1, <1>4, ContentExists
<1>7. Sane(u)
  BY <1>1, <1>4, <1>6 DEF Sane
<1>8. ASSUME enabled
      PROVE  /\ t \in UndoState /\ RevisionOf(t) = RevisionOf(head)
             /\ Fits(u, t)
             /\ Restored(u, t) = Restored(w, head)
             /\ fault' = "none" /\ Kept(w, head) => Kept(u, t)
  <2>1. head \in UndoState /\ Fits(w, head)
    BY <1>8, TopFits DEF w
  <2> DEFINE s == head
  <2>2. s \in UndoState /\ s = head /\ Fits(w, s) /\ t = on_modify(id)
    BY <2>1 DEF t
  <2>3. /\ NextOf(u) = NextOf(w) /\ id \in DOMAIN ObjectsOf(w)
        /\ \A i \in DOMAIN ObjectsOf(u) : i \in DOMAIN ObjectsOf(w)
        /\ \A i \in DOMAIN ObjectsOf(w) : i # id =>
              i \in DOMAIN ObjectsOf(u) /\ ObjectsOf(u)[i] = ObjectsOf(w)[i]
        /\ fault' = "none" => id \in DOMAIN ObjectsOf(u)
    BY <1>1, <1>2, <1>4, <1>6
  <2> HIDE DEF s
  <2>4. /\ t \in UndoState /\ RevisionOf(t) = RevisionOf(s)
        /\ Fits(u, t)
        /\ Restored(u, t) = Restored(w, s)
        /\ Kept(w, s) /\ id \in DOMAIN ObjectsOf(u) => Kept(u, t)
    BY <1>1, <1>7, <2>2, <2>3, ModifyFits
  <2>. QED
    BY <2>3, <2>4 DEF s
<1>9. Recording(stack', t) /\ Follows(u, t, c[Len(stack) + 1], fault')
  BY <1>2, <1>8 DEF Record, SetHead, Recording, Follows, w
<1>10. next_id <= NextOf(u)
  BY <1>1, <1>6
<1>11. /\ Len(stack') = n
       /\ \E d : Chain(d, stack', revision, fault') /\ d[n + 1] = u /\ Agree(c, d, n)
  BY <1>4, <1>5, <1>7, <1>9, <1>10, Recorded
<1>12. PICK d : Chain(d, stack', revision, fault') /\ d[n + 1] = u /\ Agree(c, d, n)
  BY <1>11
<1>13. Represents(d)'
  BY <1>2, <1>6, <1>11, <1>12 DEF Represents, o
<1>. QED
  BY <1>5, <1>11, <1>12, <1>13 DEF Changed

LEMMA RemoveStep ==
    ASSUME NEW c, Represents(c), NEW id \in Ids, remove(id)
    PROVE  \E d : Represents(d)' /\ Changed(c, d)
<1> DEFINE n == Len(stack)  w == c[n + 1]  t == on_remove(id)
<1>1. /\ Sane(w) /\ ObjectsOf(w) = objects /\ NextOf(w) = next_id
      /\ objects \in Partial(Ids, Values) /\ Distinct(objects) /\ next_id \in 0 .. MaxId
      /\ DOMAIN objects \subseteq Ids /\ \A i \in DOMAIN objects : i < next_id
      /\ fault \in Faults
  BY RepresentsFacts DEF Represents
<1>2. /\ id \in DOMAIN objects /\ Record(t) /\ objects' = Drop(objects, id)
      /\ next_id' = next_id /\ revision' = revision /\ fault' = fault
  BY DEF remove, Drop
<1> DEFINE o == objects'
<1>3. o = Drop(objects, id)
  BY <1>2
<1> HIDE DEF w, o, t
<1>4. /\ o \in Partial(Ids, Values) /\ Distinct(o)
      /\ \A i : i \in DOMAIN o <=> i \in DOMAIN objects /\ i # id
      /\ \A i \in DOMAIN o : o[i] = objects[i]
  BY <1>1, <1>3, IsDrop
<1>5. PICK u \in Contents : ObjectsOf(u) = o /\ NextOf(u) = next_id
  BY <1>1, <1>4, ContentExists
<1>6. Sane(u)
  BY <1>1, <1>4, <1>5 DEF Sane
<1>7. ASSUME enabled
      PROVE  /\ t \in UndoState /\ RevisionOf(t) = RevisionOf(head)
             /\ Fits(u, t)
             /\ Restored(u, t) = Restored(w, head)
             /\ Kept(w, head) => Kept(u, t)
  <2>1. head \in UndoState /\ Fits(w, head)
    BY <1>7, TopFits DEF w
  <2> DEFINE s == head
  <2>2. s \in UndoState /\ s = head /\ Fits(w, s) /\ t = on_remove(id)
    BY <2>1 DEF t
  <2>3. /\ NextOf(u) = NextOf(w) /\ id \in DOMAIN ObjectsOf(w)
        /\ \A i : i \in DOMAIN ObjectsOf(u) <=> i \in DOMAIN ObjectsOf(w) /\ i # id
        /\ \A i \in DOMAIN ObjectsOf(u) : ObjectsOf(u)[i] = ObjectsOf(w)[i]
    BY <1>1, <1>2, <1>4, <1>5
  <2> HIDE DEF s
  <2>4. /\ t \in UndoState /\ RevisionOf(t) = RevisionOf(s)
        /\ Fits(u, t)
        /\ Restored(u, t) = Restored(w, s)
        /\ Kept(w, s) => Kept(u, t)
    BY <1>1, <1>6, <2>2, <2>3, RemoveFits
  <2>. QED
    BY <2>4 DEF s
<1>8. Recording(stack', t) /\ Follows(u, t, c[Len(stack) + 1], fault)
  BY <1>2, <1>7 DEF Record, SetHead, Recording, Follows, w
<1>9. next_id <= NextOf(u)
  BY <1>1, <1>5
<1>10. /\ Len(stack') = n
       /\ \E d : Chain(d, stack', revision, fault) /\ d[n + 1] = u /\ Agree(c, d, n)
  BY <1>1, <1>6, <1>8, <1>9, Recorded
<1>11. PICK d : Chain(d, stack', revision, fault) /\ d[n + 1] = u /\ Agree(c, d, n)
  BY <1>10
<1>12. Represents(d)'
  BY <1>2, <1>5, <1>10, <1>11 DEF Represents, o
<1>. QED
  BY <1>10, <1>11, <1>12 DEF Changed

(* Undoing an empty record changes nothing.                                *)
LEMMA BlankRestored ==
    ASSUME NEW w \in Contents, NEW s \in UndoState, FirstOf(s) = NextOf(w),
           \A i : i \notin DOMAIN OldOf(s) /\ i \notin DOMAIN GoneOf(s) /\ i \notin NewOf(s)
    PROVE  Restored(w, s) = w
<1> DEFINE x == Restored(w, s)
<1>1. x = Restored(w, s)
  OBVIOUS
<1> HIDE DEF x
<1>2. /\ x \in Contents /\ NextOf(x) = FirstOf(s)
      /\ \A i : i \in DOMAIN ObjectsOf(x) <=> Back(w, s, i)
      /\ \A i \in DOMAIN ObjectsOf(x) : ObjectsOf(x)[i] = BackAs(w, s, i)
  BY <1>1, RestoredBack
<1>3. \A i : Back(w, s, i) <=> i \in DOMAIN ObjectsOf(w)
  BY DEF Back
<1>4. \A i : BackAs(w, s, i) = ObjectsOf(w)[i]
  BY DEF BackAs
<1>5. x = w
  BY <1>2, <1>3, <1>4, SameContent
<1>. QED
  BY <1>1, <1>5

(* A session starts with a record that leads to the present content.       *)
LEMMA EmptyRecord ==
    ASSUME NEW w, Sane(w), NEW r \in Int,
           NEW s, s = [old_values |-> <<>>, removed_values |-> <<>>, new_ids |-> {},
                       old_next_id |-> NextOf(w), revision |-> r]
    PROVE  /\ s \in UndoState /\ RevisionOf(s) = r
           /\ Restored(w, s) = w /\ Fits(w, s) /\ Kept(w, s)
<1>1. /\ OldOf(s) = <<>> /\ GoneOf(s) = <<>> /\ NewOf(s) = {}
      /\ FirstOf(s) = NextOf(w) /\ RevisionOf(s) = r
  BY DEF OldOf, GoneOf, NewOf, FirstOf, RevisionOf
<1>2. <<>> \in Partial(Ids, Values) /\ DOMAIN <<>> = {}
  BY EmptyPartial
<1>3. w \in Contents /\ NextOf(w) \in 0 .. MaxId
      /\ \A i \in DOMAIN ObjectsOf(w) : i < NextOf(w)
  BY DEF Sane, Contents, NextOf
<1>4. s \in UndoState
  BY <1>2, <1>3 DEF UndoState
<1>5. /\ \A i : i \notin DOMAIN OldOf(s) /\ i \notin DOMAIN GoneOf(s) /\ i \notin NewOf(s)
      /\ NewOf(s) \cup DOMAIN OldOf(s) = {}
  BY <1>1, <1>2
<1>6. Fits(w, s) /\ Kept(w, s)
  BY <1>1, <1>3, <1>5 DEF Fits, Kept
<1>7. Restored(w, s) = w
  BY <1>1, <1>3, <1>4, <1>5, BlankRestored
<1>. QED
  BY <1>1, <1>4, <1>6, <1>7

LEMMA StartStep ==
    ASSUME NEW c, Represents(c), start_undo_session
    PROVE  /\ Len(stack') = Len(stack) + 1
           /\ \E d : Represents(d)' /\ Agree(c, d, Len(stack) + 1)
<1> DEFINE n == Len(stack)  w == c[n + 1]
           s == [old_values |-> <<>>, removed_values |-> <<>>, new_ids |-> {},
                 old_next_id |-> NextOf(w), revision |-> revision + 1]
<1>1. /\ n \in Nat /\ revision \in Int /\ revision + 1 \in Int /\ fault \in Faults
      /\ stack \in Seq(UndoState) /\ Sane(w)
      /\ Chain(c, stack, revision, fault) /\ ObjectsOf(w) = objects /\ NextOf(w) = next_id
  BY RepresentsFacts DEF Represents
<1>2. /\ stack' = Append(stack, s) /\ revision' = revision + 1
      /\ objects' = objects /\ next_id' = next_id /\ fault' = fault
  BY <1>1 DEF start_undo_session
<1> HIDE DEF w
<1>3. /\ s \in UndoState /\ RevisionOf(s) = revision + 1
      /\ Restored(w, s) = w /\ Fits(w, s) /\ Kept(w, s)
  BY <1>1, EmptyRecord
<1> HIDE DEF s
<1>4. NextOf(w) <= NextOf(w)
  BY <1>1, RepresentsFacts
<1>5. PICK d : /\ Chain(d, Append(stack, s), revision + 1, fault)
               /\ d[n + 2] = w
               /\ \A i \in 1 .. n + 1 : d[i] = c[i]
  BY <1>1, <1>3, <1>4, ChainPush DEF w
<1>6. Len(Append(stack, s)) = n + 1
  BY <1>1, <1>3
<1>7. n + 1 + 1 = n + 2
  BY <1>1
<1>8. Represents(d)'
  BY <1>1, <1>2, <1>5, <1>6, <1>7 DEF Represents
<1>. QED
  BY <1>2, <1>5, <1>6, <1>8 DEF Agree

LEMMA Becomes ==
    ASSUME NEW t, NEW d, Holds(t, d), Become(t)
    PROVE  Represents(d)' /\ Len(stack') = Len(StackOf(t)) /\ fault' = FaultOf(t)
<1>1. /\ objects' = ObjectsOf(t) /\ next_id' = NextOf(t) /\ stack' = StackOf(t)
      /\ revision' = RevisionOf(t) /\ fault' = FaultOf(t)
  BY DEF Become, ObjectsOf, NextOf, StackOf, RevisionOf, FaultOf
<1>. QED
  BY <1>1 DEF Represents, Holds

LEMMA NowHolds ==
    ASSUME NEW c, Represents(c)
    PROVE  /\ Holds(Now, c)
           /\ StackOf(Now) = stack /\ FaultOf(Now) = fault
<1>1. /\ StackOf(Now) = stack /\ FaultOf(Now) = fault /\ RevisionOf(Now) = revision
      /\ ObjectsOf(Now) = objects /\ NextOf(Now) = next_id
  BY DEF Now, StackOf, FaultOf, RevisionOf, ObjectsOf, NextOf
<1>. QED
  BY <1>1 DEF Represents, Holds

(* Undoing runs to its end, down to the state k, or throws before that.    *)
Undid(c, k) ==
    \/ /\ Represents(c)' /\ Len(stack') = k /\ fault' = fault
    \/ /\ fault' # "none" /\ (fault = "none" => fault' # "undefined")
       /\ Len(stack') \in 1 .. Len(stack)
       /\ \E d : Represents(d)' /\ Agree(c, d, Len(stack'))

LEMMA UndoTopStep ==
    ASSUME NEW c, Represents(c), undo
    PROVE  Undid(c, Len(stack) - 1)
<1> DEFINE t == UndoTop(Now)
<1>1. Become(t) /\ enabled
  BY DEF undo
<1> HIDE DEF t
<1>2. Len(stack) \in Nat /\ Len(stack) > 0 /\ Len(stack) \in 1 .. Len(stack)
  BY <1>1, RepresentsFacts, EmptySeq DEF enabled
<1>3. /\ ~ StoppedOf(t) =>
            Holds(t, c) /\ Len(StackOf(t)) = Len(stack) - 1 /\ FaultOf(t) = fault
      /\ StoppedOf(t) =>
            /\ FaultOf(t) # "none"
            /\ fault = "none" => FaultOf(t) # "undefined"
            /\ Len(StackOf(t)) = Len(stack)
            /\ \E d : Holds(t, d) /\ \A i \in 1 .. Len(stack) : d[i] = c[i]
  <2> DEFINE st == Now
  <2>1. Holds(st, c) /\ StackOf(st) = stack /\ FaultOf(st) = fault /\ t = UndoTop(st)
    BY NowHolds DEF t
  <2> HIDE DEF st
  <2>. QED
    BY <1>2, <2>1, UndoStep
<1>4. CASE StoppedOf(t)
  <2>1. PICK d : Holds(t, d) /\ \A i \in 1 .. Len(stack) : d[i] = c[i]
    BY <1>3, <1>4
  <2>2. Represents(d)' /\ Len(stack') = Len(stack) /\ fault' = FaultOf(t)
    BY <1>1, <1>3, <1>4, <2>1, Becomes
  <2>. QED
    BY <1>2, <1>3, <1>4, <2>1, <2>2 DEF Undid, Agree
<1>5. CASE ~ StoppedOf(t)
  BY <1>1, <1>3, <1>5, Becomes DEF Undid
<1>. QED
  BY <1>4, <1>5

LEMMA UndoAllStep ==
    ASSUME NEW c, Represents(c), undo_all
    PROVE  Undid(c, 0)
<1> DEFINE t == Undone
<1>1. Become(t)
  BY DEF undo_all
<1>2. Undoing(t, c, Len(stack))
  BY NowHolds, UndoneHolds
<1> HIDE DEF t
<1>3. Len(stack) \in Nat /\ Len(stack) - Len(stack) = 0
  BY RepresentsFacts
<1>4. CASE StoppedOf(t)
  <2>1. /\ FaultOf(t) # "none" /\ (fault = "none" => FaultOf(t) # "undefined")
        /\ Len(StackOf(t)) \in 1 .. Len(stack)
        /\ \E d : Holds(t, d) /\ \A i \in 1 .. Len(StackOf(t)) : d[i] = c[i]
    BY <1>2, <1>4 DEF Undoing
  <2>2. PICK d : Holds(t, d) /\ \A i \in 1 .. Len(StackOf(t)) : d[i] = c[i]
    BY <2>1
  <2>3. Represents(d)' /\ Len(stack') = Len(StackOf(t)) /\ fault' = FaultOf(t)
    BY <1>1, <2>2, Becomes
  <2>. QED
    BY <2>1, <2>2, <2>3 DEF Undid, Agree
<1>5. CASE ~ StoppedOf(t)
  <2>1. Holds(t, c) /\ Len(StackOf(t)) = 0 /\ FaultOf(t) = fault
    BY <1>2, <1>3, <1>5 DEF Undoing
  <2>. QED
    BY <1>1, <2>1, Becomes DEF Undid
<1>. QED
  BY <1>4, <1>5

LEMMA RevisionStep ==
    ASSUME NEW c, Represents(c), NEW r \in Revisions, set_revision(r)
    PROVE  Represents(c)' /\ UNCHANGED <<objects, next_id, stack, fault>>
<1>1. /\ stack = <<>> /\ stack' = stack /\ revision' = r /\ r \in Int
      /\ objects' = objects /\ next_id' = next_id /\ fault' = fault
  BY IndexAssumption DEF set_revision, enabled
<1>2. Len(stack) = 0 /\ 1 .. Len(stack) = {}
  BY <1>1
<1>. QED
  BY <1>1, <1>2 DEF Represents, Chain

(* squash() drops the content between the last two sessions.               *)
LEMMA SquashStep ==
    ASSUME NEW c, Represents(c), squash
    PROVE  /\ Len(stack) > 0 /\ Len(stack') = Len(stack) - 1 /\ fault' = fault
           /\ Content' = Content
           /\ \E d : Represents(d)' /\ Agree(c, d, Len(stack) - 1)
<1> DEFINE n == Len(stack)  u == c[n + 1]
<1>1. /\ n \in Nat /\ stack \in Seq(UndoState) /\ Chain(c, stack, revision, fault)
      /\ ObjectsOf(u) = objects /\ NextOf(u) = next_id /\ Sane(u)
      /\ revision \in Int /\ fault \in Faults
  BY RepresentsFacts DEF Represents
<1>2. /\ n > 0 /\ objects' = objects /\ next_id' = next_id /\ fault' = fault
      /\ Content' = Content
  BY RepresentsFacts, EmptySeq DEF squash, enabled, Content
<1> HIDE DEF u
<1>3. CASE n = 1
  <2>1. stack' = <<>> /\ revision' = revision
    BY <1>3 DEF squash
  <2>2. PICK d : d[1] = u
    <3>1. [i \in {1} |-> u][1] = u
      OBVIOUS
    <3>. QED
      BY <3>1
  <2>3. Chain(d, <<>>, revision, fault)
    <3>1. <<>> \in Seq(UndoState) /\ Len(<<>>) = 0 /\ 1 .. 0 = {} /\ 1 .. 0 + 1 = {1}
      OBVIOUS
    <3>2. NextOf(u) <= NextOf(u)
      <4>1. NextOf(u) \in Int
        BY <1>1 DEF Sane, Contents, NextOf
      <4>. QED
        BY <4>1
    <3>. QED
      BY <1>1, <2>2, <3>1, <3>2 DEF Chain
  <2>4. Len(stack') = 0 /\ n - 1 = 0 /\ 0 + 1 = 1 /\ Agree(c, d, 0)
    BY <1>3, <2>1 DEF Agree
  <2>5. Represents(d)'
    BY <1>1, <1>2, <2>1, <2>2, <2>3, <2>4 DEF Represents
  <2>. QED
    BY <1>2, <2>4, <2>5
<1>4. CASE n # 1
  <2> DEFINE q == Front(stack)  p == Last(q)  s == head  m == Merge(p, s)  v == c[n]
  <2>1. /\ Chain(c, q, revision - 1, fault) /\ Len(q) = n - 1 /\ n - 1 \in Nat /\ n - 1 > 0
        /\ q \in Seq(UndoState) /\ p = stack[n - 1]
    <3>1. n - 1 \in Nat /\ n - 1 > 0
      BY <1>1, <1>2, <1>4
    <3>2. /\ q \in Seq(UndoState) /\ Len(q) = n - 1
          /\ \A i \in 1 .. n - 1 : q[i] = stack[i]
      BY <1>1, <1>2, FrontFacts
    <3>3. Chain(c, q, revision - 1, fault)
      BY <1>1, <1>2, ChainPop
    <3> HIDE DEF q
    <3>4. Last(q) = q[n - 1]
      BY <3>1, <3>2, FrontFacts
    <3>. QED
      BY <3>1, <3>2, <3>3, <3>4
  <2>2. /\ stack' = SubSeq(stack, 1, n - 2) \o <<m>> /\ revision' = revision - 1
    BY <1>4, <2>1 DEF squash
  <2>3. SubSeq(stack, 1, n - 2) = Front(q)
    <3> DEFINE a == SubSeq(stack, 1, n - 2)  b == Front(q)
    <3>1. a \in Seq(UndoState) /\ Len(a) = n - 2 /\ \A i \in 1 .. n - 2 : a[i] = stack[i]
      <4> DEFINE k == n - 2
      <4>1. k \in 0 .. n
        <5>1. \A i \in Nat : i - 1 \in Nat /\ i - 1 > 0 => i - 2 \in 0 .. i
          OBVIOUS
        <5>. QED
          BY <1>1, <2>1, <5>1
      <4> HIDE DEF k
      <4>2. /\ SubSeq(stack, 1, k) \in Seq(UndoState) /\ Len(SubSeq(stack, 1, k)) = k
            /\ \A i \in 1 .. k : SubSeq(stack, 1, k)[i] = stack[i]
        BY <1>1, <4>1
      <4>. QED
        BY <4>2 DEF k
    <3>2. b \in Seq(UndoState) /\ Len(b) = n - 1 - 1 /\ \A i \in 1 .. n - 1 - 1 : b[i] = q[i]
      <4> HIDE DEF q
      <4>. QED
        BY <2>1, FrontFacts
    <3>3. \A i \in 1 .. n - 1 : q[i] = stack[i]
      BY <1>1, <1>2, FrontFacts
    <3> HIDE DEF a, b, q
    <3>4. n - 1 - 1 = n - 2 /\ \A i \in 1 .. n - 2 : i \in 1 .. n - 1
      BY <1>1
    <3>5. a = b
      BY <3>1, <3>2, <3>3, <3>4, SeqEqual
    <3>. QED
      BY <3>5 DEF a, b
  <2> HIDE DEF q
  <2>4. /\ s \in UndoState /\ v = Restored(u, s) /\ Fits(u, s)
        /\ Sane(v) /\ NextOf(v) = FirstOf(s) /\ NextOf(v) <= NextOf(u)
        /\ fault = "none" => Kept(u, s)
    BY <1>1, <1>2, ChainTop DEF u, head
  <2>5. /\ p \in UndoState /\ RevisionOf(p) = revision - 1
        /\ c[n - 1] = Restored(v, p) /\ Fits(v, p)
        /\ NextOf(c[n - 1]) = FirstOf(p) /\ NextOf(c[n - 1]) <= NextOf(v)
        /\ fault = "none" => Kept(v, p)
        /\ Sane(c[n - 1])
    <3>1. n - 1 + 1 = n
      BY <1>1
    <3>. QED
      BY <2>1, <3>1, ChainTop
  <2>6. m = Merge(p, s)
    OBVIOUS
  <2> HIDE DEF p, s, m, v
  <2>7. /\ m \in UndoState /\ Fits(u, m)
        /\ Restored(u, m) = Restored(Restored(u, s), p)
        /\ Kept(u, s) /\ Kept(Restored(u, s), p) => Kept(u, m)
    <3>1. FirstOf(p) <= FirstOf(s) /\ FirstOf(s) <= NextOf(u)
      BY <2>4, <2>5
    <3>2. Sane(Restored(u, s)) /\ Fits(Restored(u, s), p)
      BY <2>4, <2>5
    <3>. QED
      BY <1>1, <2>4, <2>5, <2>6, <3>1, <3>2, Merges
  <2>8. RevisionOf(m) = revision - 1
    BY <2>4, <2>5, <2>6, MergeFields
  <2>9. /\ c[n - 1] = Restored(u, m)
        /\ fault = "none" => fault = "none" /\ Kept(u, m)
    BY <2>4, <2>5, <2>7
  <2>10. NextOf(c[n - 1]) <= NextOf(u)
    <3>1. NextOf(c[n - 1]) \in Int /\ NextOf(u) \in Int /\ NextOf(v) \in Int
      BY <1>1, <2>4, <2>5 DEF Sane, Contents, NextOf
    <3>. QED
      BY <2>4, <2>5, <3>1
  <2>11. PICK d : /\ Chain(d, Front(q) \o <<m>>, revision - 1, fault)
                  /\ Len(Front(q) \o <<m>>) = Len(q)
                  /\ d[Len(q) + 1] = u
                  /\ \A i \in 1 .. Len(q) : d[i] = c[i]
    BY <1>1, <2>1, <2>7, <2>8, <2>9, <2>10, TopReplaced
  <2>12. stack' = Front(q) \o <<m>> /\ Len(stack') = n - 1 /\ Len(q) = n - 1
    BY <2>1, <2>2, <2>3, <2>11 DEF m
  <2>13. Represents(d)'
    BY <1>1, <1>2, <2>2, <2>11, <2>12 DEF Represents
  <2>. QED
    BY <1>2, <2>11, <2>12, <2>13 DEF Agree
<1>. QED
  BY <1>3, <1>4

(* The revisions on the stack are consecutive: what commit() drops is an   *)
(* initial segment of it.                                                  *)
LEMMA CommitStep ==
    ASSUME NEW c, Represents(c), NEW r \in Int, commit(r)
    PROVE  \E k \in 1 .. Len(stack) :
              /\ Len(stack') = Len(stack) - k /\ fault' = fault /\ Content' = Content
              /\ \E d : /\ Represents(d)'
                        /\ \A i \in 1 .. Len(stack') : d[i] = c[i + k]
<1> DEFINE n == Len(stack)
           dropped == {i \in 1 .. n : \A j \in 1 .. i : stack[j].revision <= r}
           k == IF r >= revision THEN n ELSE r - revision + n
<1>1. /\ n \in Nat /\ stack \in Seq(UndoState) /\ Chain(c, stack, revision, fault)
      /\ revision \in Int
  BY RepresentsFacts DEF Represents
<1>2. /\ dropped # {} /\ stack' = SubSeq(stack, Cardinality(dropped) + 1, n)
      /\ objects' = objects /\ next_id' = next_id /\ fault' = fault /\ revision' = revision
      /\ Content' = Content
  BY DEF commit, Content
<1>3. \A j \in 1 .. n : stack[j].revision = revision - n + j
  BY DEF Represents, Chain, RevisionOf
<1>4. dropped = {i \in 1 .. n : revision - n + i <= r}
  <2>1. ASSUME NEW i \in 1 .. n
        PROVE  (\A j \in 1 .. i : stack[j].revision <= r) <=> revision - n + i <= r
    <3>1. i \in 1 .. i /\ \A j \in 1 .. i : j \in 1 .. n /\ j <= i
      BY <1>1
    <3>2. \A j \in 1 .. i : stack[j].revision = revision - n + j
      BY <1>3, <3>1
    <3> DEFINE h(j) == stack[j].revision
    <3>3. \A j \in 1 .. i : h(j) = revision - n + j
      BY <3>2
    <3> HIDE DEF h
    <3>4. (\A j \in 1 .. i : h(j) <= r) <=> revision - n + i <= r
      BY <1>1, <3>1, <3>3
    <3>. QED
      BY <3>4 DEF h
  <2>. QED
    BY <2>1
<1> HIDE DEF dropped
<1>5. k \in 1 .. n /\ dropped = 1 .. k
  <2>1. PICK i \in 1 .. n : revision - n + i <= r
    BY <1>2, <1>4
  <2>2. k \in 1 .. n
    BY <1>1, <2>1
  <2>3. \A j \in 1 .. n : revision - n + j <= r <=> j <= k
    BY <1>1
  <2> HIDE DEF k
  <2>. QED
    BY <1>1, <1>4, <2>2, <2>3
<1> HIDE DEF k
<1>6. Cardinality(dropped) = k
  <2>1. k \in Int /\ 1 \in Int /\ ~ (1 > k) /\ k - 1 + 1 = k
    BY <1>1, <1>5
  <2>. QED
    BY <1>5, <2>1, FS_Interval
<1>7. k \in 0 .. n
  BY <1>1, <1>5
<1>8. PICK d : /\ Chain(d, SubSeq(stack, k + 1, n), revision, fault)
               /\ \A i \in 1 .. n - k + 1 : d[i] = c[i + k]
  BY <1>1, <1>7, ChainShift
<1>9. stack' = SubSeq(stack, k + 1, n) /\ Len(stack') = n - k
  <2>1. stack' = SubSeq(stack, k + 1, n)
    BY <1>2, <1>6
  <2>2. Len(SubSeq(stack, k + 1, n)) = n - k
    BY <1>1, <1>7
  <2>. QED
    BY <2>1, <2>2
<1>10. /\ n - k + 1 \in 1 .. n - k + 1 /\ n - k + 1 + k = n + 1
       /\ \A i \in 1 .. n - k : i \in 1 .. n - k + 1
  BY <1>1, <1>5
<1>11. d[n - k + 1] = c[n + 1]
  BY <1>8, <1>10
<1>12. Represents(d)'
  BY <1>2, <1>8, <1>9, <1>11 DEF Represents
<1>. QED
  BY <1>2, <1>5, <1>8, <1>9, <1>10, <1>12

(***************************************************************************)
(* The steps of Next, by what they do to the contents.                     *)
(***************************************************************************)
LEMMA InitRepresents == Init => IInv
<1> SUFFICES ASSUME Init PROVE IInv
  OBVIOUS
<1>1. objects = <<>> /\ next_id = 0 /\ stack = <<>> /\ revision = 0 /\ fault = "none"
  BY DEF Init
<1>2. <<>> \in Partial(Ids, Values) /\ DOMAIN <<>> = {}
  BY EmptyPartial
<1>3. objects \in Partial(Ids, Values) /\ next_id \in 0 .. MaxId
  BY <1>1, <1>2, IndexAssumption
<1>4. PICK u \in Contents : ObjectsOf(u) = objects /\ NextOf(u) = next_id
  BY <1>3, ContentExists
<1>5. Sane(u)
  BY <1>1, <1>2, <1>4 DEF Sane, Distinct
<1>6. PICK c : c[1] = u
  <2>1. [i \in {1} |-> u][1] = u
    OBVIOUS
  <2>. QED
    BY <2>1
<1>7. stack \in Seq(UndoState) /\ Len(stack) = 0 /\ 1 .. 0 = {} /\ 1 .. 0 + 1 = {1} /\ 0 + 1 = 1
  BY <1>1
<1>8. NextOf(c[1]) <= NextOf(c[1])
  BY <1>3, <1>4, <1>6
<1>9. Chain(c, stack, revision, fault)
  BY <1>1, <1>5, <1>6, <1>7, <1>8 DEF Chain, Faults
<1>10. Represents(c)
  BY <1>4, <1>6, <1>7, <1>9 DEF Represents
<1>. QED
  BY <1>10 DEF IInv

(* An exception is thrown before anything undefined is done.               *)
Ordered == fault # "undefined" /\ (fault' = "undefined" => fault = "threw")

LEMMA StepRepresents ==
    ASSUME IInv, Next
    PROVE  IInv' /\ Ordered
<1>1. PICK c : Represents(c)
  BY DEF IInv
<1>2. fault \in Faults
  BY <1>1, RepresentsFacts
<1>3. ASSUME NEW v \in Values, emplace(v) PROVE IInv' /\ Ordered
  <2>1. fault' = fault /\ fault # "undefined"
    BY <1>3 DEF emplace, Defined
  <2>. QED
    BY <1>1, <1>3, <2>1, EmplaceStep DEF IInv, Ordered
<1>4. ASSUME NEW id \in Ids, NEW v \in Values, modify(id, v) PROVE IInv' /\ Ordered
  <2>1. fault # "undefined"
    BY <1>4 DEF modify, Defined
  <2>. QED
    BY <1>1, <1>4, <2>1, ModifyStep DEF IInv, Ordered
<1>5. ASSUME NEW id \in Ids, remove(id) PROVE IInv' /\ Ordered
  <2>1. fault' = fault /\ fault # "undefined"
    BY <1>5 DEF remove, Defined
  <2>. QED
    BY <1>1, <1>5, <2>1, RemoveStep DEF IInv, Ordered
<1>6. CASE start_undo_session
  <2>1. fault' = fault /\ fault # "undefined"
    BY <1>6 DEF start_undo_session, Defined
  <2>. QED
    BY <1>1, <1>6, <2>1, StartStep DEF IInv, Ordered
<1>7. CASE undo
  <2>1. Undid(c, Len(stack) - 1) /\ fault # "undefined"
    BY <1>1, <1>7, UndoTopStep DEF undo, Defined
  <2>. QED
    BY <1>2, <2>1 DEF Undid, IInv, Ordered, Faults
<1>8. CASE undo_all
  <2>1. Undid(c, 0) /\ fault # "undefined"
    BY <1>1, <1>8, UndoAllStep DEF undo_all, Defined
  <2>. QED
    BY <1>2, <2>1 DEF Undid, IInv, Ordered, Faults
<1>9. CASE squash
  <2>1. fault # "undefined"
    BY <1>9 DEF squash, Defined
  <2>. QED
    BY <1>1, <1>9, <2>1, SquashStep DEF IInv, Ordered
<1>10. ASSUME NEW r \in -MaxRevision .. MaxRevision, commit(r) PROVE IInv' /\ Ordered
  <2>1. fault # "undefined" /\ r \in Int
    BY <1>10 DEF commit, Defined
  <2>. QED
    BY <1>1, <1>10, <2>1, CommitStep DEF IInv, Ordered
<1>11. ASSUME NEW r \in Revisions, set_revision(r) PROVE IInv' /\ Ordered
  <2>1. fault # "undefined" /\ fault' = fault
    BY <1>11 DEF set_revision, Defined
  <2>. QED
    BY <1>1, <1>11, <2>1, RevisionStep DEF IInv, Ordered
<1>. QED
  BY <1>3, <1>4, <1>5, <1>6, <1>7, <1>8, <1>9, <1>10, <1>11 DEF Next

(* The undo states on the stack always lead back through sane contents,    *)
(* the present one on top; before any exception, every object they revert  *)
(* or erase is there.                                                      *)
THEOREM StackInvariant == Spec => []IInv
<1>1. IInv /\ [Next]_vars => IInv'
  <2> SUFFICES ASSUME IInv, [Next]_vars PROVE IInv'
    OBVIOUS
  <2>1. CASE Next
    BY <2>1, StepRepresents
  <2>2. CASE UNCHANGED vars
    BY <2>2 DEF IInv, Represents, vars
  <2>. QED
    BY <2>1, <2>2
<1>. QED
  BY <1>1, InitRepresents, PTL DEF Spec

LEMMA IInvLogSound == IInv => LogSound
<1> SUFFICES ASSUME IInv PROVE LogSound
  OBVIOUS
<1>1. PICK c : Represents(c)
  BY DEF IInv
<1> DEFINE n == Len(stack)
<1>2. /\ stack \in Seq(UndoState) /\ n \in Nat /\ revision \in Int
      /\ fault \in Faults /\ Chain(c, stack, revision, fault)
      /\ objects \in Partial(Ids, Values) /\ next_id \in 0 .. MaxId
      /\ NextOf(c[n + 1]) = next_id
  BY <1>1, RepresentsFacts DEF Represents
<1>3. TypeOK
  BY <1>2 DEF TypeOK, Faults
<1>4. RevisionsContiguous
  BY <1>2 DEF RevisionsContiguous, Chain, RevisionOf
<1>5. RecordsPartition
  <2> SUFFICES ASSUME NEW i \in 1 .. n
               PROVE  /\ stack[i].new_ids \subseteq stack[i].old_next_id .. next_id - 1
                      /\ DOMAIN stack[i].old_values \cup DOMAIN stack[i].removed_values
                            \subseteq 0 .. stack[i].old_next_id - 1
                      /\ DOMAIN stack[i].old_values \cap DOMAIN stack[i].removed_values = {}
    BY DEF RecordsPartition
  <2> DEFINE s == stack[i]  u == c[i + 1]
  <2>1. /\ s \in UndoState /\ Fits(u, s) /\ NextOf(u) <= next_id /\ Sane(u)
    <3>1. i + 1 \in 1 .. n + 1 /\ n + 1 \in 1 .. n + 1 /\ i + 1 <= n + 1
      BY <1>2
    <3>. QED
      BY <1>2, <3>1 DEF Chain
  <2> HIDE DEF s, u
  <2>2. /\ NewOf(s) \subseteq Ids /\ DOMAIN OldOf(s) \subseteq Ids
        /\ DOMAIN GoneOf(s) \subseteq Ids /\ FirstOf(s) \in 0 .. MaxId
    <3>1. /\ OldOf(s) \in Partial(Ids, Values) /\ GoneOf(s) \in Partial(Ids, Values)
          /\ NewOf(s) \subseteq Ids /\ FirstOf(s) \in 0 .. MaxId
      BY <2>1 DEF UndoState, OldOf, GoneOf, NewOf, FirstOf
    <3>. QED
      BY <3>1, PartialType
  <2>3. NextOf(u) \in Int /\ next_id \in Int /\ FirstOf(s) \in Int /\ Ids \subseteq Nat
    BY <1>2, <2>1, <2>2 DEF Sane, Contents, NextOf, Ids
  <2>4. \A j \in NewOf(s) : FirstOf(s) <= j /\ j < NextOf(u) /\ j \in Nat
    BY <2>1, <2>2, <2>3 DEF Fits
  <2>5. \A j \in DOMAIN OldOf(s) : j < FirstOf(s) /\ j \in Nat /\ j \notin DOMAIN GoneOf(s)
    BY <2>1, <2>2, <2>3 DEF Fits
  <2>6. \A j \in DOMAIN GoneOf(s) : j < FirstOf(s) /\ j \in Nat
    BY <2>1, <2>2, <2>3 DEF Fits
  <2>7. /\ NewOf(s) \subseteq FirstOf(s) .. next_id - 1
        /\ DOMAIN OldOf(s) \cup DOMAIN GoneOf(s) \subseteq 0 .. FirstOf(s) - 1
        /\ DOMAIN OldOf(s) \cap DOMAIN GoneOf(s) = {}
    BY <2>1, <2>3, <2>4, <2>5, <2>6
  <2>. QED
    BY <2>7 DEF s, NewOf, OldOf, GoneOf, FirstOf
<1>. QED
  BY <1>3, <1>4, <1>5 DEF LogSound

(* The undo states carry consecutive revisions up to the current one, and  *)
(* record each object in one way only, by whether it existed when the      *)
(* session began: what commit(), squash() and the database rely on.        *)
THEOREM RecordsSound == Spec => []LogSound
BY StackInvariant, IInvLogSound, PTL

LEMMA IInvSquash == IInv => SquashAssertions
<1> SUFFICES ASSUME IInv, Len(stack) > 1
             PROVE  (DOMAIN head.old_values \cup DOMAIN head.removed_values)
                       \cap DOMAIN stack[Len(stack) - 1].removed_values = {}
  BY DEF SquashAssertions
<1>1. PICK c : Represents(c)
  BY DEF IInv
<1> DEFINE n == Len(stack)  s == head  p == stack[n - 1]  u == c[n + 1]  v == c[n]
<1>2. n \in Nat /\ Chain(c, stack, revision, fault) /\ n > 0
  BY <1>1, RepresentsFacts DEF Represents
<1>3. s \in UndoState /\ v = Restored(u, s) /\ Sane(u)
  BY <1>2, ChainTop DEF head
<1>4. Fits(v, p)
  <2>1. n - 1 \in 1 .. n /\ n - 1 + 1 = n
    BY <1>2
  <2>. QED
    BY <1>2, <2>1 DEF Chain
<1> HIDE DEF s, p, u, v
<1>5. \A i : i \in DOMAIN ObjectsOf(v) <=> Back(u, s, i)
  BY <1>3, RestoredBack DEF Sane
<1>6. (DOMAIN OldOf(s) \cup DOMAIN GoneOf(s)) \cap DOMAIN GoneOf(p) = {}
  BY <1>4, <1>5 DEF Back, Fits
<1>. QED
  BY <1>6 DEF s, p, OldOf, GoneOf

(* The assertions in squash() never fail: an object removed in one session *)
(* is neither modified nor removed again in the next.                      *)
THEOREM SquashAsserts == Spec => []SquashAssertions
BY StackInvariant, IInvSquash, PTL

(* No step dereferences end() unless an exception has been thrown before.  *)
THEOREM ThrowsFirst == Spec => UndefinedOnlyAfterThrow
<1>1. IInv /\ [Next]_vars => [fault' = "undefined" => fault = "threw"]_vars
  BY StepRepresents DEF Ordered
<1>. QED
  BY <1>1, StackInvariant, PTL DEF Spec, UndefinedOnlyAfterThrow

-----------------------------------------------------------------------------
(***************************************************************************)
(* The stack of differences implements a stack of snapshots.               *)
(***************************************************************************)
SnapshotsOf(q, u) ==
    LET below[i \in 1 .. Len(q)] ==
            Restored(IF i = Len(q) THEN u ELSE below[i + 1], q[i])
    IN [i \in 1 .. Len(q) |-> below[i]]

LEMMA SnapshotsBelow ==
    ASSUME NEW q \in Seq(UndoState), NEW u, NEW c, c[Len(q) + 1] = u,
           \A i \in 1 .. Len(q) : c[i] = Restored(c[i + 1], q[i])
    PROVE  SnapshotsOf(q, u) = [i \in 1 .. Len(q) |-> c[i]]
<1> DEFINE n == Len(q)
           V(f, i) == Restored(IF i = n THEN u ELSE f[i + 1], q[i])
           P(f) == f = [i \in 1 .. n |-> V(f, i)]
           h == [i \in 1 .. n |-> c[i]]
           g == CHOOSE f : P(f)
<1>1. n \in Nat
  OBVIOUS
<1>2. \A i \in 1 .. n : c[i] = V(h, i)
  <2> SUFFICES ASSUME NEW i \in 1 .. n PROVE c[i] = V(h, i)
    OBVIOUS
  <2>1. CASE i = n
    BY <2>1
  <2>2. CASE i # n
    <3>1. i + 1 \in 1 .. n
      BY <1>1, <2>2
    <3>2. h[i + 1] = c[i + 1]
      BY <3>1
    <3>. QED
      BY <2>2, <3>2
  <2>. QED
    BY <2>1, <2>2
<1>3. P(h)
  <2> DEFINE W(i) == V(h, i)
  <2>1. \A i \in 1 .. n : c[i] = W(i)
    BY <1>2
  <2> HIDE DEF W
  <2>2. [i \in 1 .. n |-> c[i]] = [i \in 1 .. n |-> W(i)]
    BY <2>1
  <2>. QED
    BY <2>2 DEF W
<1>4. P(g)
  BY <1>3
<1>5. \A i \in 1 .. n : g[i] = V(g, i)
  <2> DEFINE W(i) == V(g, i)
  <2>1. g = [i \in 1 .. n |-> W(i)]
    BY <1>4
  <2> HIDE DEF W, g
  <2>2. \A i \in 1 .. n : g[i] = W(i)
    BY <2>1
  <2>. QED
    BY <2>2 DEF W
<1>6. SnapshotsOf(q, u) = [i \in 1 .. n |-> g[i]]
  BY DEF SnapshotsOf
<1> HIDE DEF g, h, P
<1>7. \A i \in 1 .. n : g[i] = c[i]
  <2> DEFINE T == {k \in 0 .. n : k = n \/ g[n - k] = c[n - k]}
  <2>1. 0 \in T
    <3>1. n # 0 => n \in 1 .. n /\ n - 0 = n
      BY <1>1
    <3>. QED
      BY <1>1, <1>5, <3>1
  <2>2. ASSUME NEW k \in 0 .. n - 1, k \in T PROVE k + 1 \in T
    <3>1. /\ k \in Nat /\ k + 1 \in 0 .. n /\ n - k \in 1 .. n /\ k # n
      BY <1>1
    <3>2. CASE k + 1 = n
      BY <3>1, <3>2
    <3>3. CASE k + 1 # n
      <4>1. /\ n - (k + 1) \in 1 .. n /\ n - (k + 1) # n /\ n - (k + 1) + 1 = n - k
        BY <1>1, <3>1, <3>3
      <4>2. g[n - k] = c[n - k]
        BY <2>2, <3>1
      <4>3. g[n - (k + 1)] = Restored(g[n - k], q[n - (k + 1)])
        BY <1>5, <4>1
      <4>4. c[n - (k + 1)] = Restored(c[n - k], q[n - (k + 1)])
        BY <4>1
      <4>. QED
        BY <3>1, <4>2, <4>3, <4>4
    <3>. QED
      BY <3>2, <3>3
  <2> HIDE DEF T
  <2>3. 0 .. n \subseteq T
    BY <1>1, <2>1, <2>2, SetInduction
  <2>4. \A i \in 1 .. n : n - i \in 0 .. n /\ n - i # n /\ n - (n - i) = i
    BY <1>1
  <2>. QED
    BY <2>3, <2>4 DEF T
<1>. QED
  BY <1>6, <1>7

LEMMA SnapshotsFacts ==
    ASSUME NEW c, NEW q, NEW r, NEW f, Chain(c, q, r, f), NEW u, c[Len(q) + 1] = u
    PROVE  /\ SnapshotsOf(q, u) \in Seq(Contents)
           /\ Len(SnapshotsOf(q, u)) = Len(q) /\ Len(q) \in Nat
           /\ \A i \in 1 .. Len(q) : SnapshotsOf(q, u)[i] = c[i]
<1> DEFINE n == Len(q)  x == [i \in 1 .. n |-> c[i]]
<1>1. /\ q \in Seq(UndoState) /\ n \in Nat
      /\ \A i \in 1 .. n : c[i] = Restored(c[i + 1], q[i])
      /\ \A i \in 1 .. n : i \in 1 .. n + 1 /\ Sane(c[i])
  BY DEF Chain
<1>2. SnapshotsOf(q, u) = x
  BY <1>1, SnapshotsBelow
<1>3. \A i \in 1 .. n : c[i] \in Contents
  BY <1>1 DEF Sane
<1>4. x \in Seq(Contents) /\ Len(x) = n /\ \A i \in 1 .. n : x[i] = c[i]
  BY <1>1, <1>3
<1>. QED
  BY <1>1, <1>2, <1>4

(* c holds the snapshots sn and, on top of them, the content u.            *)
Holding(c, sn, u) ==
    /\ sn \in Seq(Contents) /\ Len(sn) \in Nat
    /\ \A i \in 1 .. Len(sn) : sn[i] = c[i]
    /\ c[Len(sn) + 1] = u

LEMMA RepresentsHolding ==
    ASSUME NEW c
    PROVE  /\ Represents(c) => Holding(c, Snapshots, Content) /\ Len(Snapshots) = Len(stack)
           /\ Represents(c)' =>
                 Holding(c, Snapshots', Content') /\ Len(Snapshots') = Len(stack')
<1>1. Snapshots = SnapshotsOf(stack, Content) /\ Snapshots' = SnapshotsOf(stack', Content')
  BY DEF Snapshots, SnapshotsOf
<1>2. ASSUME NEW q, NEW r, NEW f, Chain(c, q, r, f), NEW o, NEW k,
             ObjectsOf(c[Len(q) + 1]) = o, NextOf(c[Len(q) + 1]) = k
      PROVE  c[Len(q) + 1] = [objects |-> o, next_id |-> k]
  <2>1. Sane(c[Len(q) + 1])
    <3>1. Len(q) + 1 \in 1 .. Len(q) + 1
      BY <1>2 DEF Chain
    <3>. QED
      BY <1>2, <3>1 DEF Chain
  <2>. QED
    BY <1>2, <2>1 DEF Sane, Contents, ObjectsOf, NextOf
<1>3. ASSUME Represents(c)
      PROVE  Holding(c, Snapshots, Content) /\ Len(Snapshots) = Len(stack)
  <2>1. Chain(c, stack, revision, fault) /\ c[Len(stack) + 1] = Content
    BY <1>2, <1>3 DEF Represents, Content
  <2>2. /\ SnapshotsOf(stack, Content) \in Seq(Contents)
        /\ Len(SnapshotsOf(stack, Content)) = Len(stack) /\ Len(stack) \in Nat
        /\ \A i \in 1 .. Len(stack) : SnapshotsOf(stack, Content)[i] = c[i]
    BY <2>1, SnapshotsFacts
  <2>. QED
    BY <1>1, <2>1, <2>2 DEF Holding
<1>4. ASSUME Represents(c)'
      PROVE  Holding(c, Snapshots', Content') /\ Len(Snapshots') = Len(stack')
  <2>1. Chain(c, stack', revision', fault') /\ c[Len(stack') + 1] = Content'
    BY <1>2, <1>4 DEF Represents, Content
  <2>2. /\ SnapshotsOf(stack', Content') \in Seq(Contents)
        /\ Len(SnapshotsOf(stack', Content')) = Len(stack') /\ Len(stack') \in Nat
        /\ \A i \in 1 .. Len(stack') : SnapshotsOf(stack', Content')[i] = c[i]
    BY <2>1, SnapshotsFacts
  <2>. QED
    BY <1>1, <2>1, <2>2 DEF Holding
<1>. QED
  BY <1>3, <1>4

(* What is kept of the snapshots when c becomes d.                         *)
LEMMA SnapshotsKept ==
    ASSUME NEW c, NEW a, NEW u, Holding(c, a, u), NEW d, NEW b, NEW v, Holding(d, b, v),
           NEW k \in 0 .. Len(a), Len(b) = k, \A i \in 1 .. k : d[i] = c[i]
    PROVE  /\ b = SubSeq(a, 1, k)
           /\ k = Len(a) => b = a
<1>1. /\ a \in Seq(Contents) /\ Len(a) \in Nat /\ b \in Seq(Contents)
      /\ \A i \in 1 .. k : i \in 1 .. Len(a) /\ a[i] = b[i]
  BY DEF Holding
<1>2. b = SubSeq(a, 1, k)
  <2> DEFINE e == SubSeq(a, 1, k)
  <2>1. e \in Seq(Contents) /\ Len(e) = k /\ \A i \in 1 .. k : e[i] = a[i]
    BY <1>1
  <2> HIDE DEF e
  <2>2. b = e
    BY <1>1, <2>1, SeqEqual
  <2>. QED
    BY <2>2 DEF e
<1>3. k = Len(a) => b = a
  BY <1>1, SeqEqual
<1>. QED
  BY <1>2, <1>3

(* A step of the log that changes no snapshot, or that is undefined.       *)
LEMMA LogChange ==
    ASSUME fault # "undefined", Snapshots' = Snapshots
    PROVE  Log!Next
BY DEF Log!Next, Log!Change, Log!Spoil

LEMMA LogSpoil ==
    ASSUME fault' = "undefined"
    PROVE  Log!Next
BY DEF Log!Next, Log!Spoil

LEMMA LogChanged ==
    ASSUME NEW c, Represents(c), fault # "undefined",
           \E d : Represents(d)' /\ Changed(c, d)
    PROVE  Log!Next
<1>1. PICK d : Represents(d)' /\ Changed(c, d)
  OBVIOUS
<1>2. /\ Holding(c, Snapshots, Content) /\ Len(Snapshots) = Len(stack)
      /\ Holding(d, Snapshots', Content') /\ Len(Snapshots') = Len(stack')
  BY <1>1, RepresentsHolding
<1>3. /\ Len(Snapshots') = Len(Snapshots) /\ Len(Snapshots) \in 0 .. Len(Snapshots)
      /\ \A i \in 1 .. Len(Snapshots) : d[i] = c[i]
  BY <1>1, <1>2 DEF Changed, Agree, Holding
<1>4. Snapshots' = Snapshots
  BY <1>2, <1>3, SnapshotsKept
<1>. QED
  BY <1>4, LogChange

LEMMA LogStart ==
    ASSUME NEW c, Represents(c), start_undo_session
    PROVE  Log!Next
<1>1. fault # "undefined" /\ fault' = fault /\ Content' = Content
  BY DEF start_undo_session, Defined, Content
<1>2. Len(stack') = Len(stack) + 1
  BY StartStep
<1>3. PICK d : Represents(d)' /\ Agree(c, d, Len(stack) + 1)
  BY StartStep
<1> DEFINE a == Snapshots  b == Snapshots'  u == Content  n == Len(stack)
<1>4. /\ Holding(c, a, u) /\ Len(a) = n
      /\ Holding(d, b, u) /\ Len(b) = n + 1 /\ \A i \in 1 .. n + 1 : d[i] = c[i]
  BY <1>1, <1>2, <1>3, RepresentsHolding DEF Agree
<1>5. u \in Contents
  BY <1>4, RepresentsFacts DEF Sane
<1> HIDE DEF a, b, u
<1>6. b = Append(a, u)
  <2>1. /\ n \in Nat /\ a \in Seq(Contents) /\ b \in Seq(Contents) /\ c[n + 1] = u
        /\ \A i \in 1 .. n : a[i] = c[i]
        /\ \A i \in 1 .. n + 1 : b[i] = d[i]
    BY <1>4 DEF Holding
  <2> DEFINE e == Append(a, u)
  <2>2. /\ e \in Seq(Contents) /\ Len(e) = n + 1 /\ e[n + 1] = u
        /\ \A i \in 1 .. n : e[i] = a[i]
    BY <1>4, <1>5, <2>1
  <2> HIDE DEF e
  <2>3. \A i \in 1 .. n + 1 : b[i] = e[i]
    <3>1. \A i \in 1 .. n + 1 : i = n + 1 \/ i \in 1 .. n
      BY <2>1
    <3>2. b[n + 1] = e[n + 1]
      <4>1. n + 1 \in 1 .. n + 1
        BY <2>1
      <4>. QED
        BY <1>4, <2>1, <2>2, <4>1
    <3>3. \A i \in 1 .. n : b[i] = e[i]
      <4>1. \A i \in 1 .. n : i \in 1 .. n + 1
        BY <2>1
      <4>. QED
        BY <1>4, <2>1, <2>2, <4>1
    <3>. QED
      BY <3>1, <3>2, <3>3
  <2>4. b = e
    BY <1>4, <2>1, <2>2, <2>3, SeqEqual
  <2>. QED
    BY <2>4 DEF e
<1>7. Log!Start
  BY <1>1, <1>6 DEF Log!Start, a, b, u
<1>. QED
  BY <1>1, <1>7 DEF Log!Next

LEMMA LogInterrupt ==
    ASSUME NEW c, Represents(c), fault # "undefined", fault' # "none",
           Len(stack') \in 1 .. Len(stack),
           \E d : Represents(d)' /\ Agree(c, d, Len(stack'))
    PROVE  Log!Next
<1>1. PICK d : Represents(d)' /\ Agree(c, d, Len(stack'))
  OBVIOUS
<1>2. /\ Holding(c, Snapshots, Content) /\ Len(Snapshots) = Len(stack)
      /\ Holding(d, Snapshots', Content') /\ Len(Snapshots') = Len(stack')
  BY <1>1, RepresentsHolding
<1> DEFINE k == Len(stack')
<1>3. k \in 1 .. Len(Snapshots) /\ Len(Snapshots) \in Nat /\ Len(Snapshots') = k
      /\ \A i \in 1 .. k : d[i] = c[i]
  BY <1>1, <1>2 DEF Agree, Holding
<1> HIDE DEF k
<1>4. k \in 0 .. Len(Snapshots)
  BY <1>3
<1>5. Snapshots' = SubSeq(Snapshots, 1, k)
  BY <1>2, <1>3, <1>4, SnapshotsKept
<1>6. Log!Interrupt
  BY <1>3, <1>5 DEF Log!Interrupt
<1>. QED
  BY <1>6, LogSpoil DEF Log!Next

LEMMA LogUndo ==
    ASSUME NEW c, Represents(c), undo
    PROVE  Log!Next
<1>1. fault # "undefined" /\ Undid(c, Len(stack) - 1)
  BY UndoTopStep DEF undo, Defined
<1>2. CASE fault' # "none" /\ Len(stack') \in 1 .. Len(stack)
           /\ \E d : Represents(d)' /\ Agree(c, d, Len(stack'))
  BY <1>1, <1>2, LogInterrupt
<1>3. CASE Represents(c)' /\ Len(stack') = Len(stack) - 1 /\ fault' = fault
  <2>1. Len(stack) \in Nat /\ Len(stack) > 0
    BY RepresentsFacts, EmptySeq DEF undo, enabled
  <2> DEFINE a == Snapshots  b == Snapshots'  u == Content  v == Content'  k == Len(stack) - 1
  <2>2. /\ Holding(c, a, u) /\ Len(a) = Len(stack) /\ Holding(c, b, v) /\ Len(b) = k
    BY <1>3, RepresentsHolding
  <2>3. k \in Nat /\ k \in 0 .. Len(a) /\ k + 1 = Len(a) /\ Len(a) \in 1 .. Len(a) /\ k = Len(a) - 1
    BY <2>1, <2>2
  <2> HIDE DEF a, b, u, v, k
  <2>4. b = SubSeq(a, 1, k)
    BY <2>2, <2>3, SnapshotsKept
  <2>5. v = a[Len(a)] /\ a # <<>>
    <3>1. a # <<>>
      BY <2>3
    <3>2. v = c[k + 1] /\ a[Len(a)] = c[Len(a)]
      BY <2>2, <2>3 DEF Holding
    <3>. QED
      BY <2>3, <3>1, <3>2
  <2>6. b = SubSeq(a, 1, Len(a) - 1)
    BY <2>3, <2>4
  <2>7. Log!Undo
    BY <2>5, <2>6 DEF Log!Undo, Log!Last, Log!Front, a, b, v
  <2>. QED
    BY <1>1, <1>3, <2>7 DEF Log!Next
<1>. QED
  BY <1>1, <1>2, <1>3 DEF Undid

LEMMA LogUndoAll ==
    ASSUME NEW c, Represents(c), undo_all
    PROVE  Log!Next
<1>1. fault # "undefined" /\ Undid(c, 0)
  BY UndoAllStep DEF undo_all, Defined
<1>2. CASE fault' # "none" /\ Len(stack') \in 1 .. Len(stack)
           /\ \E d : Represents(d)' /\ Agree(c, d, Len(stack'))
  BY <1>1, <1>2, LogInterrupt
<1>3. CASE Represents(c)' /\ Len(stack') = 0 /\ fault' = fault
  <2>1. Len(stack) \in Nat /\ Len(stack) > 0
    BY RepresentsFacts, EmptySeq DEF undo_all, enabled
  <2> DEFINE a == Snapshots  b == Snapshots'  u == Content  v == Content'
  <2>2. /\ Holding(c, a, u) /\ Len(a) = Len(stack) /\ Holding(c, b, v) /\ Len(b) = 0
    BY <1>3, RepresentsHolding
  <2>3. 1 \in 1 .. Len(a)
    BY <2>1, <2>2
  <2> HIDE DEF a, b, u, v
  <2>4. b = <<>> /\ a # <<>> /\ a \in Seq(Contents)
    BY <2>2, <2>3, EmptySeq DEF Holding
  <2>5. v = a[1]
    <3>1. v = c[0 + 1] /\ a[1] = c[1] /\ 0 + 1 = 1
      BY <2>2, <2>3 DEF Holding
    <3>. QED
      BY <3>1
  <2>6. v = Head(a)
    BY <2>4, <2>5
  <2>7. Log!UndoAll
    BY <2>4, <2>6 DEF Log!UndoAll, a, b, v
  <2>. QED
    BY <1>1, <1>3, <2>7 DEF Log!Next
<1>. QED
  BY <1>1, <1>2, <1>3 DEF Undid

LEMMA LogSquash ==
    ASSUME NEW c, Represents(c), squash
    PROVE  Log!Next
<1>1. /\ fault # "undefined" /\ fault' = fault /\ Content' = Content
      /\ Len(stack) > 0 /\ Len(stack') = Len(stack) - 1
  BY SquashStep DEF squash, Defined
<1>2. PICK d : Represents(d)' /\ Agree(c, d, Len(stack) - 1)
  BY SquashStep
<1> DEFINE a == Snapshots  b == Snapshots'  k == Len(stack) - 1
<1>3. /\ Holding(c, a, Content) /\ Len(a) = Len(stack)
      /\ Holding(d, b, Content') /\ Len(b) = k /\ \A i \in 1 .. k : d[i] = c[i]
  BY <1>1, <1>2, RepresentsHolding DEF Agree
<1>4. k \in 0 .. Len(a) /\ k = Len(a) - 1 /\ Len(a) > 0
  BY <1>1, <1>3, RepresentsFacts
<1> HIDE DEF a, b, k
<1>5. b = SubSeq(a, 1, k)
  BY <1>3, <1>4, SnapshotsKept
<1>6. b = SubSeq(a, 1, Len(a) - 1) /\ a # <<>>
  BY <1>4, <1>5
<1>7. Log!Squash
  BY <1>1, <1>6 DEF Log!Squash, Log!Front, a, b
<1>. QED
  BY <1>1, <1>7 DEF Log!Next

LEMMA LogCommit ==
    ASSUME NEW c, Represents(c), NEW r \in Int, commit(r)
    PROVE  Log!Next
<1>1. fault # "undefined"
  BY DEF commit, Defined
<1>2. PICK k \in 1 .. Len(stack) :
              /\ Len(stack') = Len(stack) - k /\ fault' = fault /\ Content' = Content
              /\ \E d : /\ Represents(d)'
                        /\ \A i \in 1 .. Len(stack') : d[i] = c[i + k]
  BY CommitStep
<1>3. PICK d : Represents(d)' /\ \A i \in 1 .. Len(stack') : d[i] = c[i + k]
  BY <1>2
<1> DEFINE a == Snapshots  b == Snapshots'  n == Len(stack)
<1>4. /\ Holding(c, a, Content) /\ Len(a) = n
      /\ Holding(d, b, Content') /\ Len(b) = n - k
  BY <1>2, <1>3, RepresentsHolding
<1>5. \A i \in 1 .. n - k : d[i] = c[i + k]
  BY <1>2, <1>3
<1>6. n \in Nat /\ k \in 1 .. n
  BY <1>2, RepresentsFacts
<1> HIDE DEF a, b, n
<1>7. b = SubSeq(a, k + 1, n)
  <2> DEFINE e == SubSeq(a, k + 1, n)
  <2>1. /\ a \in Seq(Contents) /\ b \in Seq(Contents)
        /\ \A i \in 1 .. n : a[i] = c[i]
        /\ \A i \in 1 .. n - k : b[i] = d[i]
    BY <1>4 DEF Holding
  <2>2. /\ e \in Seq(Contents) /\ Len(e) = n - k
        /\ \A i \in 1 .. n - k : e[i] = a[i + k]
    BY <1>4, <1>6, <2>1
  <2> HIDE DEF e
  <2>3. \A i \in 1 .. n - k : i + k \in 1 .. n
    BY <1>6
  <2>4. \A i \in 1 .. n - k : b[i] = e[i]
    BY <1>5, <2>1, <2>2, <2>3
  <2>5. b = e
    BY <1>4, <2>1, <2>2, <2>4, SeqEqual
  <2>. QED
    BY <2>5 DEF e
<1>8. Log!Commit
  BY <1>2, <1>4, <1>6, <1>7 DEF Log!Commit, a, b
<1>. QED
  BY <1>1, <1>2, <1>8 DEF Log!Next

LEMMA LogStep ==
    ASSUME IInv, Next
    PROVE  Log!Next
<1>1. PICK c : Represents(c)
  BY DEF IInv
<1>2. fault # "undefined"
  BY StepRepresents DEF Ordered
<1>3. ASSUME NEW v \in Values, emplace(v) PROVE Log!Next
  BY <1>1, <1>2, <1>3, EmplaceStep, LogChanged
<1>4. ASSUME NEW id \in Ids, NEW v \in Values, modify(id, v) PROVE Log!Next
  BY <1>1, <1>2, <1>4, ModifyStep, LogChanged
<1>5. ASSUME NEW id \in Ids, remove(id) PROVE Log!Next
  BY <1>1, <1>2, <1>5, RemoveStep, LogChanged
<1>6. ASSUME NEW r \in -MaxRevision .. MaxRevision, commit(r) PROVE Log!Next
  BY <1>1, <1>6, LogCommit
<1>7. ASSUME NEW r \in Revisions, set_revision(r) PROVE Log!Next
  <2>1. Represents(c)' /\ Changed(c, c)
    BY <1>1, <1>7, RevisionStep DEF Changed, Agree
  <2>. QED
    BY <1>1, <1>2, <2>1, LogChanged
<1>. QED
  BY <1>1, <1>3, <1>4, <1>5, <1>6, <1>7, LogStart, LogUndo, LogUndoAll, LogSquash DEF Next

LEMMA LogStutter ==
    ASSUME UNCHANGED vars
    PROVE  Log!Next
<1>1. Snapshots' = Snapshots
  <2>1. stack' = stack /\ Content' = Content
    BY DEF vars, Content
  <2>2. Snapshots = SnapshotsOf(stack, Content) /\ Snapshots' = SnapshotsOf(stack', Content')
    BY DEF Snapshots, SnapshotsOf
  <2>. QED
    BY <2>1, <2>2
<1>. QED
  BY <1>1, LogChange, LogSpoil DEF vars

(* The stack of differences keeps the promise of a stack of snapshots: no  *)
(* emplace(), modify() or remove() disturbs what any session would         *)
(* restore, undo() and undo_all() restore it, squash() and commit() drop   *)
(* exactly the states they name, and an exception in the middle of them    *)
(* spares what the remaining sessions restore.                             *)
THEOREM Refinement == Spec => ImplementsUndoLog
<1>1. Init => Log!Init
  <2> SUFFICES ASSUME Init PROVE Log!Init
    OBVIOUS
  <2>1. stack = <<>> /\ fault = "none"
    BY DEF Init
  <2>2. Snapshots = <<>>
    <3>1. PICK c : Represents(c)
      BY InitRepresents DEF IInv
    <3>2. Snapshots \in Seq(Contents) /\ Len(Snapshots) = Len(stack)
      BY <3>1, RepresentsHolding DEF Holding
    <3>. QED
      BY <2>1, <3>2, EmptySeq
  <2>. QED
    BY <2>1, <2>2 DEF Log!Init
<1>2. IInv /\ [Next]_vars => [Log!Next]_Log!vars
  <2> SUFFICES ASSUME IInv, [Next]_vars PROVE Log!Next
    OBVIOUS
  <2>. QED
    BY LogStep, LogStutter
<1>. QED
  BY <1>1, <1>2, StackInvariant, PTL DEF Spec, ImplementsUndoLog, Log!Spec
=============================================================================
