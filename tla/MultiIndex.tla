----------------------------- MODULE MultiIndex -----------------------------
(***************************************************************************)
(* A multi_index_container (multi_index/multi_index_container.hpp,         *)
(* detail/index_base.hpp): one set of nodes, linked into every index of    *)
(* the container. An operation goes through the indices in turn and must   *)
(* leave all of them with the same elements, whichever index refuses it    *)
(* and whichever comparison, hash, copy or functor of the user throws.     *)
(*                                                                         *)
(* The list of indices is chosen at Init. A value has one key per index;   *)
(* comparisons are <, hash(k) is k. The container is used by one thread.   *)
(***************************************************************************)
EXTENDS Integers, SequencesExt, TLC

CONSTANTS
    Nodes,        \* the nodes the allocator can hand out
    Header,       \* the header node
    Null,         \* the null pointer
    CopyEnd,      \* the end node of the copy a rehash builds
    BucketSizes,  \* the sizes of a bucket array, increasing
    MaxFill,      \* how many counters the sort of a sequenced index may fill
    Layouts       \* the containers: the indices, the keys and a bound on the elements

Tree == INSTANCE OrderedIndex
Hash == INSTANCE HashedIndex
List == INSTANCE SequencedIndex
Array == INSTANCE RandomIndex
Archive == INSTANCE Archive

VARIABLES
    layout,  \* the indices, [kind, unique], the keys and how many elements at most
    ix,      \* for each index, its links
    val,     \* the value of each node in use
    count,   \* node_count
    order,   \* for each index, the elements as its iterators enumerate them
    report   \* what the last operation did

vars == <<layout, ix, val, count, order, report>>

N == Len(layout.indices)
Indices == 1 .. N
Kind(j) == layout.indices[j].kind
Unique(j) == layout.indices[j].unique
Keys == layout.keys
Values == [Indices -> Keys]
Lists == {j \in Indices : Kind(j) \in {"sequenced", "random"}}
NoHint == Null
Never == 0   \* no index at which the user's code throws

\* The container as a record, so that a handler can go through several of them.
Now == [ix |-> ix, val |-> val, count |-> count]
KeyIn(c, j) == [x \in DOMAIN c.val |-> c.val[x][j]]
Key(j) == KeyIn(Now, j)

-----------------------------------------------------------------------------
(* One index: what each kind does for the container.                         *)
EmptyIndex(index) ==
    CASE index.kind = "ordered" -> Tree!EmptyTree
      [] index.kind = "hashed" -> Hash!EmptyHash(0)
      [] index.kind = "sequenced" -> List!EmptyList
      [] index.kind = "random" -> Array!EmptyArray

OrderIn(j, s) ==
    CASE Kind(j) = "ordered" -> Tree!InOrder(s)
      [] Kind(j) = "hashed" -> Hash!HashOrder(s, Unique(j))
      [] Kind(j) = "sequenced" -> List!ListOrder(s, s.next[Header])
      [] Kind(j) = "random" -> Array!ArrayOrder(s)

PlaceOf(seq, x) == CHOOSE i \in 1 .. Len(seq) : seq[i] = x

\* What insert_() does before the other indices are asked. The hash function
\* may throw after moved groups.
MakeRoom(j, s, key, n, moved) ==
    CASE Kind(j) = "hashed" -> Hash!ReserveForInsert(s, key, n, Unique(j), moved)
      [] Kind(j) = "random" -> IF moved = Hash!NeverFails THEN Array!RoomForOne(s) ELSE s
      [] OTHER -> s

\* link_point(), or hinted_link_point(); a list takes everything.
LinkPoint(j, s, key, k, hint) ==
    CASE Kind(j) = "ordered" /\ hint = NoHint -> Tree!LinkPoint(s, key, k, Unique(j))
      [] Kind(j) = "ordered" /\ hint # NoHint -> Tree!HintedLinkPoint(s, key, k, hint, Unique(j))
      [] Kind(j) = "hashed" -> Hash!HashLinkPoint(s, key, k, Unique(j))
      [] j \in Lists -> [ok |-> TRUE]

LinkAt(j, s, x, at) ==
    CASE Kind(j) = "ordered" -> Tree!Link(s, x, at.side, at.pos)
      [] Kind(j) = "hashed" -> Hash!HashLink(s, x, at)
      [] Kind(j) = "sequenced" -> List!LinkBack(s, x)
      [] Kind(j) = "random" -> Array!PushBack(s, x)

Drop(j, s, x) ==
    CASE Kind(j) = "ordered" -> Tree!RebalanceForErase(s, x)
      [] Kind(j) = "hashed" -> Hash!Erase(s, x, Unique(j))
      [] Kind(j) = "sequenced" -> List!RemoveNode(s, x)
      [] Kind(j) = "random" -> Array!EraseAt(s, x)

\* in_place(): whether x may stay where it is with the key k.
InPlace(j, s, key, k, x) ==
    CASE Kind(j) = "ordered" -> Tree!StaysInPlace(s, key, k, x, Unique(j))
      [] Kind(j) = "hashed" -> Hash!HashInPlace(s, key, k, x, Unique(j))
      [] j \in Lists -> TRUE

\* The index with x taken out, x back where it was, and x where k belongs.
TakeOut(j, s, x) ==
    IF Kind(j) = "ordered" THEN Tree!RebalanceForErase(s, x) ELSE Hash!Unlink(s, x, Unique(j))
PutBack(j, s, x) ==
    IF Kind(j) = "ordered" THEN Tree!Restore(TakeOut(j, s, x), x, Tree!Increment(s, x))
                           ELSE Hash!UndoLog(TakeOut(j, s, x))
Relinked(j, s, key, k, x) ==
    LET out == Drop(j, s, x) IN LinkAt(j, out, x, LinkPoint(j, out, key, k, NoHint))

Cleared(j, s) ==
    CASE Kind(j) = "hashed" -> Hash!Cleared(s)
      [] Kind(j) = "random" -> [Array!EmptyArray EXCEPT !.capacity = s.capacity]
      [] OTHER -> EmptyIndex(layout.indices[j])

\* relocate() of one element of a list, in front of position.
MoveBefore(j, s, position, x) ==
    IF position = x THEN s
    ELSE IF Kind(j) = "sequenced" THEN List!Relink(s, position, x)
    ELSE Array!Relocate(s, s.up[position], s.up[x])

-----------------------------------------------------------------------------
\* What an operation on a container that is still in a defined state leads to:
\* restored is FALSE when a rollback left its element with another value.
Yield(c, o, restored) ==
    /\ report.outcome # "erased twice"
    /\ ix' = c.ix
    /\ order' = [j \in Indices |-> OrderIn(j, c.ix[j])]
    /\ val' = c.val
    /\ count' = c.count
    /\ report' = [outcome |-> o, restored |-> restored]
    /\ UNCHANGED layout

Become(c, o) == Yield(c, o, TRUE)

Init ==
    /\ layout \in Layouts
    /\ ix = [j \in Indices |-> EmptyIndex(layout.indices[j])]
    /\ val = <<>>
    /\ count = 0
    /\ order = [j \in Indices |-> <<>>]
    /\ report = [outcome |-> "moved", restored |-> TRUE]

\* insert_(): the indices are asked in turn, and what that changes in them
\* stays. throwAt is the index whose code throws, or, as N + 1, the copy of v.
Answer(o, at) == IF at.ok THEN [o EXCEPT !.at = Append(@, at)] ELSE [o EXCEPT !.answer = "refused"]

AskWithRoom(o, j, v, hint) == Answer(o, LinkPoint(j, o.c.ix[j], KeyIn(o.c, j), v[j], hint))

Ask(o, j, v, hint, throwAt, moved) ==
    LET Room(left) == [o EXCEPT !.c.ix[j] = MakeRoom(j, @, KeyIn(o.c, j), o.c.count + 1, left)]
    IN IF o.answer # "inserted" THEN o
       ELSE IF j = throwAt THEN [Room(moved) EXCEPT !.answer = "threw"]
       ELSE AskWithRoom(Room(Hash!NeverFails), j, v, hint)

Offer(c, v, hint, throwAt, moved) ==
    FoldLeft(LAMBDA o, j : Ask(o, j, v, hint, throwAt, moved),
             [c |-> c, answer |-> "inserted", at |-> <<>>], [j \in Indices |-> j])

LinkEverywhere(o, x, v) ==
    [o EXCEPT !.c = [ix |-> [j \in Indices |-> LinkAt(j, o.c.ix[j], x, o.at[j])],
                     val |-> o.c.val @@ (x :> v), count |-> o.c.count + 1]]

Conclude(o, x, v, throwAt) ==
    IF o.answer # "inserted" THEN o
    ELSE IF throwAt = N + 1 THEN [o EXCEPT !.answer = "threw"]
    ELSE LinkEverywhere(o, x, v)

Inserted(c, x, v, hint, throwAt, moved) == Conclude(Offer(c, v, hint, throwAt, moved), x, v, throwAt)

Free(c) == CHOOSE x \in Nodes : x \notin DOMAIN c.val

Report(o) == Become(o.c, o.answer)

Insert(v, hint, throwAt, moved) ==
    count < layout.limit /\ Report(Inserted(Now, Free(Now), v, hint, throwAt, moved))

\* insert() of a list: the new element is then put in front of position.
PutAt(o, l, position, x) ==
    IF position = Header \/ o.answer # "inserted" THEN o
    ELSE [o EXCEPT !.c.ix[l] = MoveBefore(l, @, position, x)]

Add(c, l, position, v, throwAt) ==
    PutAt(Inserted(c, Free(c), v, NoHint, throwAt, 0), l, position, Free(c))

InsertBefore(l, position, v) ==
    /\ count < layout.limit
    /\ Report(Add(Now, l, position, v, Never))

\* insert() of two copies of v; the second may throw. An array appends them and
\* moves what it has appended in front of position, also when one has thrown.
AddTwo(l, position, v, throwAt) == Add(Add(Now, l, position, v, Never).c, l, position, v, throwAt)

Gathered(o, l, position) ==
    LET end == o.c.count + 1
        p == o.c.ix[l].up[position]
    IN IF Kind(l) = "sequenced" \/ p = end THEN o
       ELSE [o EXCEPT !.c.ix[l] = Array!RelocateRange(@, p, end - (o.c.count - count), end)]

Summed(o) == [o EXCEPT !.answer = IF o.c.count > count THEN "inserted" ELSE @]

InsertTwice(l, position, v, throwAt) ==
    /\ count + 1 < layout.limit
    /\ Report(Summed(Gathered(
           AddTwo(l, IF Kind(l) = "random" THEN Header ELSE position, v, throwAt), l, position)))

\* merge() with another container of two elements, in order: those that are
\* taken leave it. A list splices each where it belongs; an array appends them
\* and then merges its two parts.
MergeStep(o, l, v, throwAt) ==
    LET first == List!MergePoint(o.c.ix[l], KeyIn(o.c, l), v[l], o.first)
        Spliced(put) == [c |-> put.c, answer |-> put.answer, first |-> first]
    IN Spliced(Add(o.c, l, first, v, throwAt))

MergeList(l, v1, v2, throwAt) ==
    MergeStep(MergeStep([c |-> Now, first |-> ix[l].next[Header]], l, v1, Never), l, v2, throwAt)

MergeArray(l, v1, v2, throwAt) ==
    LET Parts(o) == IF o.answer = "threw" THEN o
                    ELSE [o EXCEPT !.c.ix[l] = Array!InplaceMerge(@, KeyIn(o.c, l), count + 1)]
    IN Parts(Add(Add(Now, l, Header, v1, Never).c, l, Header, v2, throwAt))

Merge(l, v1, v2, throwAt) ==
    LET Told(o) == [o EXCEPT !.answer = IF @ # "threw" THEN "merged"
                                        ELSE IF o.c.count > count THEN "inserted" ELSE @]
    IN /\ count + 1 < layout.limit
       /\ v1[l] <= v2[l]
       /\ Report(Told(IF Kind(l) = "sequenced" THEN MergeList(l, v1, v2, throwAt)
                                               ELSE MergeArray(l, v1, v2, throwAt)))

DropFrom(c, x) ==
    [ix |-> [j \in Indices |-> Drop(j, c.ix[j], x)], count |-> c.count - 1,
     val |-> [y \in DOMAIN c.val \ {x} |-> c.val[y]]]
DropAll(c, seq) == FoldLeft(DropFrom, c, seq)

Erase(x) == Become(DropFrom(Now, x), "erased")

Clear == Become([ix |-> [j \in Indices |-> Cleared(j, ix[j])], val |-> <<>>, count |-> 0], "erased")

-----------------------------------------------------------------------------
(* replace and modify. The first index that refuses x or throws decides.     *)
FirstFailure(throwAt, refuses) ==
    Min({j \in Indices : j = throwAt \/ j \in refuses} \cup {N + 1})

\* Whether index j takes x with key k, asked with x out of the index.
Accepts(j, key, k, x) == LinkPoint(j, TakeOut(j, ix[j], x), key, k, NoHint).ok

\* replace_(): a hashed index asks whether the key is the same, not the place.
KeepsPlace(j, v, x) ==
    IF Kind(j) = "hashed" THEN v[j] = val[x][j] ELSE InPlace(j, ix[j], Key(j), v[j], x)

ReplaceWith(x, v, throwAt, moves, fail) ==
    IF fail = N + 1 /\ throwAt # N + 1
    THEN Become([ix |-> [j \in Indices |-> IF j \in moves THEN Relinked(j, ix[j], Key(j), v[j], x) ELSE ix[j]],
                 val |-> [val EXCEPT ![x] = v], count |-> count], "replaced")
    ELSE Become([Now EXCEPT !.ix = [j \in Indices |-> IF j \in moves /\ j <= fail THEN PutBack(j, ix[j], x)
                                                                                 ELSE ix[j]]],
                IF throwAt = fail THEN "threw" ELSE "refused")

Replace(x, v, throwAt) ==
    LET moves == {j \in Indices : ~KeepsPlace(j, v, x)}
        refuses == {j \in moves : ~Accepts(j, Key(j), v[j], x)}
    IN ReplaceWith(x, v, throwAt, moves, FirstFailure(throwAt, refuses))

\* modify_(): the functor has changed x to v in place. The keys it then has,
\* the indices in which it has to move, and those that refuse it.
NewKey(j, x, v) == [Key(j) EXCEPT ![x] = v[j]]
MovedBy(x, v) == {j \in Indices : ~InPlace(j, ix[j], NewKey(j, x, v), v[j], x)}
RefusedBy(x, v) == {j \in MovedBy(x, v) : ~Accepts(j, NewKey(j, x, v), v[j], x)}

\* If an index does not take x then it, and all the others, drop it.
ModifyWith(x, v, moves, fail) ==
    LET placed == [ix |-> [j \in Indices |-> IF j \in moves /\ j < fail
                                             THEN Relinked(j, ix[j], NewKey(j, x, v), v[j], x) ELSE ix[j]],
                   val |-> [val EXCEPT ![x] = v], count |-> count]
    IN IF fail = N + 1 THEN Become(placed, "replaced") ELSE Become(DropFrom(placed, x), "dropped")

Modify(x, v, throwAt) == ModifyWith(x, v, MovedBy(x, v), FirstFailure(throwAt, RefusedBy(x, v)))

\* The functor of modify() throws.
ModifierThrows(x) == Become(DropFrom(Now, x), "dropped")

\* modify_() with a rollback: x is put back, and back is the value the rollback
\* gives it, or Null if it throws. When an index threw, the rethrow of the inner
\* handler is caught next to it: x is erased, again if it has been already.
CheckRollback(s, x, back) ==
    \A j \in Indices : InPlace(j, s[j], [Key(j) EXCEPT ![x] = back[j]], back[j], x)

RollBack(x, back, threw, keeps, kept) ==
    IF keeps /\ ~threw THEN Yield(kept, "refused", back = val[x])
    ELSE IF ~threw \/ keeps \/ back = Null THEN Become(DropFrom(kept, x), "dropped")
    ELSE /\ report.outcome # "erased twice"
         /\ report' = [outcome |-> "erased twice", restored |-> back = val[x]]
         /\ UNCHANGED <<layout, ix, val, count, order>>

RollBackFrom(x, back, threw, restored) ==
    RollBack(x, back, threw, back # Null /\ CheckRollback(restored, x, back),
             [Now EXCEPT !.ix = restored, !.val[x] = IF back = Null THEN @ ELSE back])

\* A modification that no index stops succeeds, as in Modify.
ModifyRollback(x, v, back, throwAt) ==
    LET fail == FirstFailure(throwAt, RefusedBy(x, v))
    IN /\ fail <= N
       /\ RollBackFrom(x, back, fail = throwAt,
                       [j \in Indices |-> IF j \in MovedBy(x, v) /\ j <= fail THEN PutBack(j, ix[j], x)
                                                                             ELSE ix[j]])

-----------------------------------------------------------------------------
(* The hash policy, the list operations and serialization.                   *)
Reorder(j, s, outcome) == Become([Now EXCEPT !.ix[j] = s], outcome)

Rehash(j, n) ==
    /\ Kind(j) = "hashed"
    /\ Reorder(j, Hash!RehashTo(ix[j], Key(j), n, count, Unique(j)), "moved")

SetMaxLoadFactor(j, z) ==
    /\ Kind(j) = "hashed"
    /\ Reorder(j, Hash!MaxLoadFactor(ix[j], z), "moved")

Relocate(j, position, x) == j \in Lists /\ Reorder(j, MoveBefore(j, ix[j], position, x), "moved")

\* The range of places from a up to b moves in front of the place p.
RelocateRange(j, p, a, b) ==
    LET At(i) == IF i > count THEN Header ELSE order[j][i]
    IN /\ j \in Lists
       /\ a < b /\ p \notin a .. b
       /\ Reorder(j, IF Kind(j) = "random" THEN Array!RelocateRange(ix[j], p, a, b)
                     ELSE List!RelinkRange(ix[j], At(p), At(a), At(b)), "moved")

ReverseOrder(j) ==
    /\ j \in Lists
    /\ Reorder(j, IF Kind(j) = "random" THEN Array!ReverseArray(ix[j]) ELSE List!ReverseLinks(ix[j]), "moved")

\* sort(), with a comparison that throws after so many calls in a list.
Sort(j, comparisons) ==
    LET Sorted(r) == Reorder(j, r.s, IF r.threw THEN "scrambled" ELSE "sorted")
    IN \/ Kind(j) = "sequenced" /\ Sorted(List!SortList(ix[j], Key(j), comparisons))
       \/ Kind(j) = "random" /\ Reorder(j, Array!SortArray(ix[j], Key(j)), "sorted")

\* remove_if() and unique(): an array first moves the elements to erase behind
\* the others, from the place swept.res on, and then pops them.
EraseFound(j, gone, swept) ==
    IF Kind(j) = "sequenced"
    THEN Become(DropAll(Now, SelectSeq(order[j], LAMBDA x : x \in gone)), "erased")
    ELSE Become(DropAll([Now EXCEPT !.ix[j] = swept.r],
                        Reverse(SubSeq(swept.r.ptrs, swept.res, count))), "erased")

RemoveIf(j, k) ==
    LET gone == {x \in DOMAIN val : val[x][j] = k}
    IN j \in Lists /\ EraseFound(j, gone, Array!KeepFrom(ix[j], gone, 1, 1))

UniqueOnly(j) ==
    LET first == ix[j].next[Header]
    IN /\ j \in Lists
       /\ EraseFound(j, List!Repeated(ix[j], Key(j), first, ix[j].next[first]),
                     Array!UniqueFrom(ix[j], Key(j), 2, 1))

Rearrange(j, seq) ==
    /\ j \in Lists
    /\ Reorder(j, IF Kind(j) = "random" THEN Array!SwapAll(ix[j], seq, 1) ELSE List!RelinkAll(ix[j], seq), "moved")

\* erase() of a range of an array: it is moved to the end and popped.
EraseRange(j, a, b) ==
    LET s == Array!RelocateRange(ix[j], count + 1, a, b)
    IN /\ Kind(j) = "random"
       /\ a < b /\ b <= count + 1
       /\ Become(DropAll([Now EXCEPT !.ix[j] = IF b = count + 1 THEN @ ELSE s],
                         Reverse(SubSeq(order[j], a, b - 1))), "erased")

ShrinkToFit(j) == Kind(j) = "random" /\ Reorder(j, Array!ShrinkToFit(ix[j]), "moved")

\* save() and load(): the values are inserted again, in the order of the first
\* index and at its end, and then the other indices rearrange themselves.
LoadOrder(j, s, calls) ==
    CASE Kind(j) = "ordered" -> FoldLeft(LAMBDA t, m : Tree!Rearrange(t, Key(j), m.after, m.node), s, calls)
      [] Kind(j) = "sequenced" -> FoldLeft(LAMBDA t, m : List!RearrangeLink(t, m.after, m.node), s, calls)
      [] Kind(j) = "random" ->
           IF calls = <<>> THEN s
           ELSE Array!FinishLoad(s, FoldLeft(LAMBDA l, m : Array!LoaderMove(l, m.after, m.node),
                                             Array!Preprocess(s), calls))

Reload ==
    LET base == order[1]
        empty == [ix |-> [j \in Indices |-> Cleared(j, ix[j])], val |-> <<>>, count |-> 0]
        filled == FoldLeft(LAMBDA c, x : Inserted(c, x, val[x], Header, Never, 0).c, empty, base)
        Saved(j) == Archive!Save(base, IF Kind(j) = "ordered" THEN Archive!Duplicates(order[j], Key(j))
                                                             ELSE order[j])
    IN Become([filled EXCEPT !.ix = [j \in Indices |->
                 IF Kind(j) = "hashed" \/ (Kind(j) = "ordered" /\ Unique(j)) THEN @[j]
                 ELSE LoadOrder(j, @[j], Archive!Load(Saved(j)))]], "reloaded")

-----------------------------------------------------------------------------
Positions == DOMAIN val \cup {Header}
Throws == {Never} \cup {j \in Indices : Kind(j) # "sequenced"} \cup {N + 1}
ModifyThrows == Throws \ {N + 1}
MovedGroups(throwAt) ==
    IF throwAt \in Indices /\ Kind(throwAt) = "hashed" THEN 0 .. count ELSE {0}

Next ==
    \/ \E v \in Values, hint \in Positions \cup {NoHint}, throwAt \in Throws :
         \E moved \in MovedGroups(throwAt) : Insert(v, hint, throwAt, moved)
    \/ \E l \in Lists, position \in Positions, v \in Values : InsertBefore(l, position, v)
    \/ \E l \in Lists, position \in Positions, v \in Values, throwAt \in Throws :
         InsertTwice(l, position, v, throwAt)
    \/ \E l \in Lists, v1, v2 \in Values, throwAt \in Throws : Merge(l, v1, v2, throwAt)
    \/ \E x \in DOMAIN val : Erase(x) \/ ModifierThrows(x)
    \/ Clear
    \/ \E x \in DOMAIN val, v \in Values, throwAt \in Throws : Replace(x, v, throwAt)
    \/ \E x \in DOMAIN val, v \in Values, throwAt \in ModifyThrows : Modify(x, v, throwAt)
    \/ \E x \in DOMAIN val, v \in Values, back \in Values \cup {Null}, throwAt \in ModifyThrows :
         ModifyRollback(x, v, back, throwAt)
    \/ \E j \in Indices, n \in ToSet(BucketSizes) : Rehash(j, n)
    \/ \E j \in Indices, z \in 1 .. 2 : SetMaxLoadFactor(j, z)
    \/ \E j \in Lists, position \in Positions, x \in DOMAIN val : Relocate(j, position, x)
    \/ \E j \in Lists, p, a, b \in 1 .. count + 1 : RelocateRange(j, p, a, b)
    \/ \E j \in Lists : ReverseOrder(j) \/ UniqueOnly(j) \/ ShrinkToFit(j)
    \/ \E j \in Lists, comparisons \in 0 .. 3 * count : Sort(j, comparisons)
    \/ \E j \in Lists, k \in Keys : RemoveIf(j, k)
    \/ \E j \in Lists, p \in Permutations(DOMAIN val) :
         Rearrange(j, [i \in 1 .. count |-> p[order[j][i]]])
    \/ \E j \in Lists, a, b \in 1 .. count + 1 : EraseRange(j, a, b)
    \/ Reload

Spec == Init /\ [][Next]_vars

-----------------------------------------------------------------------------
\* Type invariant.
TypeOK ==
    /\ layout \in Layouts
    /\ DOMAIN ix = Indices
    /\ DOMAIN val \subseteq Nodes /\ \A x \in DOMAIN val : val[x] \in Values
    /\ count \in 0 .. layout.limit
    /\ report.restored \in BOOLEAN

\* Every index enumerates the elements of the container, each once, and
\* node_count counts them (invariant_() of every index compares with size()).
SameElements ==
    /\ count = Cardinality(DOMAIN val)
    /\ \A j \in Indices : Len(order[j]) = count /\ ToSet(order[j]) = DOMAIN val

\* The links of every index are what its algorithms rely on: a red-black tree
\* with right subtree sizes, buckets of adjacent groups with their bent links,
\* a closed list, an array whose elements know their place.
WellFormed ==
    \A j \in Indices :
        CASE Kind(j) = "ordered" -> Tree!TreeInvariant(ix[j])
          [] Kind(j) = "hashed" -> Hash!HashInvariant(ix[j], Key(j), Unique(j))
          [] Kind(j) = "sequenced" -> List!LinksInvariant(ix[j])
          [] Kind(j) = "random" -> Array!ArrayInvariant(ix[j])

\* An ordered index enumerates its keys in order, and a unique one has no two
\* elements with the same key.
KeysInOrder ==
    \A j \in Indices :
        /\ Kind(j) = "ordered" =>
             \A i \in 1 .. count - 1 : val[order[j][i]][j] <= val[order[j][i + 1]][j]
        /\ Unique(j) => \A x, y \in DOMAIN val : x # y => val[x][j] # val[y][j]

\* The indices of a container are sound, and agree on what it holds.
Consistent == TypeOK /\ SameElements /\ WellFormed /\ KeysInOrder

\* The lookups of a tree, by node and by rank, answer what the enumeration says.
TreeLookups(j) ==
    LET t == ix[j]
        key == Key(j)
        At(i) == IF i >= count THEN Header ELSE order[j][i + 1]
        Below(k) == Cardinality({x \in DOMAIN val : key[x] < k})
        UpTo(k) == Cardinality({x \in DOMAIN val : key[x] <= k})
    IN /\ \A k \in Keys \cup {-1} :
            /\ Tree!LowerBound(t, key, k) = At(Below(k)) /\ Tree!LowerBoundRank(t, key, k) = Below(k)
            /\ Tree!UpperBound(t, key, k) = At(UpTo(k)) /\ Tree!UpperBoundRank(t, key, k) = UpTo(k)
            /\ Tree!EqualRange(t, key, k) = <<At(Below(k)), At(UpTo(k))>>
            /\ Tree!EqualRangeRank(t, key, k) = <<Below(k), UpTo(k)>>
            /\ Tree!Find(t, key, k) = IF Below(k) = UpTo(k) THEN Header ELSE At(Below(k))
            /\ Tree!FindRank(t, key, k) = IF Below(k) = UpTo(k) THEN count ELSE Below(k)
            /\ \A hi \in Keys : k <= hi =>
                 /\ Tree!KeyRange(t, key, k, hi) = <<At(Below(k)), At(UpTo(hi))>>
                 /\ Tree!RangeRank(t, key, k, hi) = <<Below(k), UpTo(hi)>>
       /\ \A i \in 0 .. count : Tree!Nth(t, i) = At(i) /\ Tree!Rank(t, At(i)) = i

\* A lookup of a hashed index finds the first of the equal elements, and
\* equal_range() ends behind the last.
HashLookups(j) ==
    LET seq == order[j]
        At(i) == IF i > count THEN Header ELSE seq[i]
    IN \A k \in Keys :
         LET found == Hash!FindKey(ix[j], Key(j), k, Unique(j))
             places == {i \in 1 .. count : val[seq[i]][j] = k}
         IN IF places = {} THEN found = Null
            ELSE /\ found = seq[Min(places)]
                 /\ Hash!EndOfRange(ix[j], Key(j), found, Unique(j)) = At(Max(places) + 1)

LookupsAgree ==
    \A j \in Indices : /\ Kind(j) = "ordered" => TreeLookups(j)
                       /\ Kind(j) = "hashed" => HashLookups(j)

\* A hint of an ordered index is honoured where it can be: the element comes
\* right in front of it. Where it cannot, the place is still one for the key.
HintsHonoured ==
    \A j \in Indices : Kind(j) = "ordered" /\ count < layout.limit =>
        \A k \in Keys, hint \in Positions :
            LET at == Tree!HintedLinkPoint(ix[j], Key(j), k, hint, Unique(j))
                x == Free(Now)
                seq == OrderIn(j, LinkAt(j, ix[j], x, at))
                key == Key(j) @@ (x :> k)
                hinted == IF hint = Header THEN count + 1 ELSE PlaceOf(order[j], hint)
                fits == /\ hinted > 1 => key[order[j][hinted - 1]] <= k
                        /\ hinted <= count => k <= key[order[j][hinted]]
            IN IF Unique(j) /\ k \in Range(Key(j)) THEN ~at.ok
               ELSE /\ at.ok
                    /\ \A i \in 1 .. count : key[seq[i]] <= key[seq[i + 1]]
                    /\ fits => seq[hinted] = x

\* copy_() of every index gives links between the copies like those between the
\* originals.
CopiesAgree ==
    \A j \in Indices :
        CASE Kind(j) = "ordered" -> Tree!CopyTree(ix[j]) = ix[j]
          [] Kind(j) = "hashed" -> Hash!CopyHash(ix[j], Unique(j)) = ix[j]
          [] Kind(j) = "sequenced" -> List!CopyLinks(List!EmptyList, ix[j], Header) = ix[j]
          [] Kind(j) = "random" -> TRUE

\* Whatever an index is asked, the answer is that of the plain sequence.
AnswersAgree == LookupsAgree /\ HintsHonoured /\ CopiesAgree

\* unlink() of any element logs no more assignments than the undo object has
\* room for, three and two pointers, and undoing them restores the links.
UndoFits ==
    \A j \in Indices : Kind(j) = "hashed" =>
        \A x \in DOMAIN val :
            LET out == Hash!Unlink(ix[j], x, Unique(j))
                Logged(field) == Len(SelectSeq(out.log, LAMBDA entry : entry.field = field))
            IN Logged("prior") <= 3 /\ Logged("next") <= 2 /\ Hash!UndoLog(out) = ix[j]

\* Only a rollback that does not give the element its value back erases it twice.
ErasedTwiceOnlyUnrestored == report.outcome = "erased twice" => ~report.restored

\* What undoes a change has all it needs.
RollbacksSound == UndoFits /\ ErasedTwiceOnlyUnrestored

-----------------------------------------------------------------------------
SameBuckets(j) == Kind(j) = "hashed" => ix'[j].buckets = ix[j].buckets
Surviving(seq) == SelectSeq(seq, LAMBDA x : x \in DOMAIN val')

\* An operation that is refused or that throws keeps every element and every
\* order, also when a rehash or a replacement was under way; only a rehash made
\* ahead of an insertion that is then refused stays. It keeps every value too,
\* except that a modification rolled back leaves its element, and no other, with
\* what the rollback of the user wrote.
FailuresChangeNothing ==
    [][report'.outcome \in {"refused", "threw"} =>
         /\ count' = count
         /\ IF report'.restored THEN val' = val
            ELSE \E x \in DOMAIN val : val' = [val EXCEPT ![x] = val'[x]]
         /\ \A j \in Indices : SameBuckets(j) => order'[j] = order[j]]_vars

\* A failed modification takes one element out of every index and moves no other.
FailuresDropOne ==
    [][report'.outcome = "dropped" =>
         /\ count' = count - 1
         /\ \A j \in Indices : order'[j] = Surviving(order[j])]_vars

\* A failure costs nothing, or the one element it is about.
FailuresContained == FailuresChangeNothing /\ FailuresDropOne

\* Insertion and erasure leave the other elements in their order, and so does a
\* modification or replacement that succeeds, which moves one element.
OthersKeepTheirOrder ==
    [][/\ report'.outcome \in {"inserted", "erased"} =>
            \A j \in Indices : SameBuckets(j) =>
                SelectSeq(order'[j], LAMBDA x : x \in DOMAIN val) = Surviving(order[j])
       /\ report'.outcome = "replaced" =>
            \E x \in DOMAIN val : \A j \in Indices :
                SelectSeq(order'[j], LAMBDA y : y # x) = SelectSeq(order[j], LAMBDA y : y # x)]_vars

\* sort() leaves the keys in order, and so does merge() where they were, taking
\* in the keys of the other container in their order.
InKeyOrder(j, seq, value) == \A i \in 1 .. Len(seq) - 1 : value[seq[i]][j] <= value[seq[i + 1]][j]
SortSorts ==
    [][report'.outcome \in {"sorted", "merged"} =>
         \E j \in Lists : (report'.outcome = "merged" => InKeyOrder(j, order[j], val)) =>
                              InKeyOrder(j, order'[j], val')]_vars

\* What is loaded enumerates as what was saved, in every index but the hashed.
ReloadKeepsOrder ==
    [][report'.outcome = "reloaded" =>
         \A j \in Indices : Kind(j) # "hashed" => order'[j] = order[j]]_vars

\* The orders that the user sees change only where an operation says so.
OrdersKept == OthersKeepTheirOrder /\ SortSorts /\ ReloadKeepsOrder
=============================================================================
