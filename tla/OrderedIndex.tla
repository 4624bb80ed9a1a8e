---------------------------- MODULE OrderedIndex ----------------------------
(* An ordered or ranked index of multi_index (detail/ord_index_impl.hpp,     *)
(* ord_index_ops.hpp, rnk_index_ops.hpp) over the tree t: where a key is     *)
(* linked, with and without a hint, and every lookup. key gives each node's  *)
(* key in this index, compared with <; unique tells the two categories apart.*)
(* A comparison of the source is the set of the nodes for which it sends a   *)
(* descent to the left.                                                      *)
EXTENDS OrderedTree

NotBelow(key, k) == {x \in DOMAIN key : ~(key[x] < k)}
Above(key, k) == {x \in DOMAIN key : k < key[x]}

\* The last node a descent visits from x, entered from y, and the side it leaves by.
RECURSIVE Descend(_, _, _, _, _)
Descend(t, goLeft, x, y, side) ==
    IF x = Null THEN [side |-> side, pos |-> y]
    ELSE LET s == IF x \in goLeft THEN "left" ELSE "right"
         IN Descend(t, goLeft, t.child[s][x], x, s)

\* link_point() of the two categories, and lower_link_point().
LinkPoint(t, key, k, unique) ==
    LET d == Descend(t, Above(key, k), Root(t), Header, "left")
        first == d.side = "left" /\ d.pos = t.child["left"][Header]
        yy == IF d.side = "left" THEN Decrement(t, d.pos) ELSE d.pos
    IN IF ~unique \/ first \/ key[yy] < k
       THEN [ok |-> TRUE, side |-> d.side, pos |-> d.pos]
       ELSE [ok |-> FALSE, side |-> d.side, pos |-> yy]

LowerLinkPoint(t, key, k) ==
    LET d == Descend(t, NotBelow(key, k), Root(t), Header, "left")
    IN [ok |-> TRUE, side |-> d.side, pos |-> d.pos]

\* Mutant: the node is always linked to the hint itself.
HintedLinkPointLeft(t, key, k, position, unique) ==
    LET before == Decrement(t, position)
    IN IF position \notin {Header, t.child["left"][Header]} /\ key[before] < k /\ k < key[position]
       THEN [ok |-> TRUE, side |-> "left", pos |-> position] ELSE LinkPoint(t, key, k, unique)

\* hinted_link_point(): position is the node the caller expects to follow.
HintedLinkPoint(t, key, k, position, unique) ==
    LET At(side, pos) == [ok |-> TRUE, side |-> side, pos |-> pos]
        Before(x, j) == IF unique THEN key[x] < j ELSE ~(j < key[x])
        After(x, j) == IF unique THEN j < key[x] ELSE ~(key[x] < j)
        before == Decrement(t, position)
        Search == LinkPoint(t, key, k, unique)
        LowerSearch == IF unique THEN Search ELSE LowerLinkPoint(t, key, k)
    IN IF position = t.child["left"][Header]
       THEN IF Root(t) # Null /\ After(position, k) THEN At("left", position) ELSE LowerSearch
       ELSE IF position = Header
       THEN IF Before(t.child["right"][Header], k) THEN At("right", t.child["right"][Header]) ELSE Search
       ELSE IF ~Before(before, k) THEN Search
       ELSE IF ~After(position, k) THEN LowerSearch
       ELSE IF t.child["right"][before] = Null THEN At("right", before)
       ELSE At("left", position)

\* in_place(): whether x keeps its place with key k.
StaysInPlace(t, key, k, x, unique) ==
    LET Ordered(j1, j2) == IF unique THEN j1 < j2 ELSE ~(j2 < j1)
    IN /\ x # t.child["left"][Header] => Ordered(key[Decrement(t, x)], k)
       /\ Increment(t, x) # Header => Ordered(k, key[Increment(t, x)])

-----------------------------------------------------------------------------
\* The bounds: the last node at which the descent from top went left, or y.
RECURSIVE Bound(_, _, _, _)
Bound(t, goLeft, top, y) ==
    IF top = Null THEN y
    ELSE IF top \in goLeft THEN Bound(t, goLeft, t.child["left"][top], top)
    ELSE Bound(t, goLeft, t.child["right"][top], y)

LowerBound(t, key, k) == Bound(t, NotBelow(key, k), Root(t), Header)
UpperBound(t, key, k) == Bound(t, Above(key, k), Root(t), Header)
Find(t, key, k) ==
    LET y == LowerBound(t, key, k)
    IN IF y = Header \/ k < key[y] THEN Header ELSE y

\* range() and equal_range(): from is the set that is not below the range, to
\* the set that is beyond it.
RECURSIVE RangeFrom(_, _, _, _, _)
RangeFrom(t, from, to, z, y) ==
    IF z = Null THEN <<y, y>>
    ELSE IF z \notin from THEN RangeFrom(t, from, to, t.child["right"][z], y)
    ELSE IF z \in to THEN RangeFrom(t, from, to, t.child["left"][z], z)
    ELSE <<Bound(t, from, t.child["left"][z], z), Bound(t, to, t.child["right"][z], y)>>

EqualRange(t, key, k) == RangeFrom(t, NotBelow(key, k), Above(key, k), Root(t), Header)
KeyRange(t, key, lo, hi) == RangeFrom(t, NotBelow(key, lo), Above(key, hi), Root(t), Header)

\* The same searches counting: s is the number of nodes before the bound so far.
RECURSIVE BoundRank(_, _, _, _)
BoundRank(t, goLeft, top, s) ==
    IF top = Null THEN s
    ELSE IF top \in goLeft
    THEN BoundRank(t, goLeft, t.child["left"][top], s - (RankedSize(t, t.child["right"][top]) + 1))
    ELSE BoundRank(t, goLeft, t.child["right"][top], s)

LowerBoundRank(t, key, k) == BoundRank(t, NotBelow(key, k), Root(t), RankedSize(t, Root(t)))
UpperBoundRank(t, key, k) == BoundRank(t, Above(key, k), Root(t), RankedSize(t, Root(t)))
FindRank(t, key, k) ==
    IF Find(t, key, k) = Header THEN RankedSize(t, Root(t)) ELSE LowerBoundRank(t, key, k)

RECURSIVE RangeRankFrom(_, _, _, _, _)
RangeRankFrom(t, from, to, z, s) ==
    IF z = Null THEN <<s, s>>
    ELSE LET l == t.child["left"][z]
             r == t.child["right"][z]
         IN IF z \notin from THEN RangeRankFrom(t, from, to, r, s)
            ELSE IF z \in to THEN RangeRankFrom(t, from, to, l, s - (RankedSize(t, r) + 1))
            ELSE <<s - t.size[z] + BoundRank(t, from, l, RankedSize(t, l)),
                   s - RankedSize(t, r) + BoundRank(t, to, r, RankedSize(t, r))>>

EqualRangeRank(t, key, k) ==
    RangeRankFrom(t, NotBelow(key, k), Above(key, k), Root(t), RankedSize(t, Root(t)))
RangeRank(t, key, lo, hi) ==
    RangeRankFrom(t, NotBelow(key, lo), Above(key, hi), Root(t), RankedSize(t, Root(t)))

\* nth() and rank(): from a position to a node and back.
RECURSIVE NthFrom(_, _, _)
NthFrom(t, n, top) ==
    LET s == RankedSize(t, t.child["left"][top])
    IN IF n = s THEN top
       ELSE IF n < s THEN NthFrom(t, n, t.child["left"][top])
       ELSE NthFrom(t, n - (s + 1), t.child["right"][top])

Nth(t, n) == IF n >= RankedSize(t, Root(t)) THEN Header ELSE NthFrom(t, n, Root(t))

RECURSIVE RankFrom(_, _, _)
RankFrom(t, x, s) ==
    LET z == t.parent[x]
    IN IF x = Root(t) THEN s
       ELSE RankFrom(t, z, s + IF x = t.child["right"][z]
                               THEN RankedSize(t, t.child["left"][z]) + 1 ELSE 0)

Rank(t, x) ==
    IF Root(t) = Null THEN 0
    ELSE IF x = Header THEN t.size[Root(t)]
    ELSE RankFrom(t, x, RankedSize(t, t.child["left"][x]))

\* rearranger(): moves x behind the node restored just before it, or, with none
\* of its key restored yet, to the front of its group. It throws on disorder.
Rearrange(t, key, position, x) ==
    LET place == IF position = Null \/ key[position] < key[x] THEN LowerBound(t, key, key[x])
                 ELSE Increment(t, position)
    IN IF place = x THEN t ELSE Restore(RebalanceForErase(t, x), x, place)
=============================================================================
