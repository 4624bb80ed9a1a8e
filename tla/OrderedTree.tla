---------------------------- MODULE OrderedTree ----------------------------
(* The red-black tree under an ordered index of multi_index (multi_index/    *)
(* detail/ord_index_node.hpp) with the subtree sizes of a ranked index       *)
(* (ranked_index.hpp, rank_policy). A tree is a record of the links of every *)
(* node and of the header node, whose parent is the root and whose children  *)
(* are the leftmost and rightmost nodes. The mirror images of the source are *)
(* one operator with a side. The fields of a node outside the tree are Null: *)
(* link() overwrites every one of them.                                      *)
EXTENDS Integers, Sequences

CONSTANTS
    Nodes,   \* the nodes an allocator can hand out
    Header,  \* the header node of the container
    Null     \* the null pointer

Sides == {"left", "right"}
Opposite(side) == IF side = "left" THEN "right" ELSE "left"

\* The tree of an empty index: the header is red, its own leftmost and rightmost.
EmptyTree ==
    LET Fields(header, node) == [x \in Nodes \cup {Header} |-> IF x = Header THEN header ELSE node]
    IN [parent |-> Fields(Null, Null), red |-> Fields(TRUE, FALSE), size |-> Fields(0, 0),
        child |-> [side \in Sides |-> Fields(Header, Null)]]

Root(t) == t.parent[Header]
IsRed(t, x) == x # Null /\ t.red[x]
RankedSize(t, x) == IF x = Null THEN 0 ELSE t.size[x]
SetParent(t, x, y) == IF x = Null THEN t ELSE [t EXCEPT !.parent[x] = y]
Blacken(t, x) == IF x = Null THEN t ELSE [t EXCEPT !.red[x] = FALSE]
SideOf(t, x) == IF x = t.child["left"][t.parent[x]] THEN "left" ELSE "right"

\* minimum() and maximum() of the subtree of x.
RECURSIVE Outermost(_, _, _)
Outermost(t, side, x) == IF t.child[side][x] = Null THEN x ELSE Outermost(t, side, t.child[side][x])

\* The ancestor reached by climbing from x while it is the child on that side.
RECURSIVE Climb(_, _, _, _)
Climb(t, side, x, y) == IF x = t.child[side][y] THEN Climb(t, side, y, t.parent[y]) ELSE <<x, y>>

Increment(t, x) ==
    IF t.child["right"][x] # Null
    THEN Outermost(t, "left", t.child["right"][x])
    ELSE LET top == Climb(t, "right", x, t.parent[x])
         IN IF t.child["right"][top[1]] # top[2] THEN top[2] ELSE top[1]

Decrement(t, x) ==
    IF IsRed(t, x) /\ t.parent[t.parent[x]] = x THEN t.child["right"][x]
    ELSE IF t.child["left"][x] # Null THEN Outermost(t, "right", t.child["left"][x])
    ELSE Climb(t, "left", x, t.parent[x])[2]

\* Puts y where the parent of x, or the header for the root, points to x.
Supplant(t, x, y) ==
    IF x = Root(t) THEN [t EXCEPT !.parent[Header] = y]
                   ELSE [t EXCEPT !.child[SideOf(t, x)][t.parent[x]] = y]

\* rotate_left() when side is "left", rotate_right() when it is "right".
Rotate(t, side, x) ==
    LET y == t.child[Opposite(side)][x]
        z == t.child[side][y]
        u == Supplant(SetParent([t EXCEPT !.child[Opposite(side)][x] = z], z, x), x, y)
    IN [u EXCEPT !.parent[y] = t.parent[x], !.child[side][y] = x, !.parent[x] = y,
                 !.size[y] = t.size[x],
                 !.size[x] = RankedSize(t, t.child[side][x]) + RankedSize(t, z) + 1]

\* The loop of rebalance(), which removes a red node with a red parent.
RECURSIVE Rebalance(_, _)
Rebalance(t, x) ==
    LET p == t.parent[x]
        g == t.parent[p]
        side == SideOf(t, p)
        uncle == t.child[Opposite(side)][g]
        inner == x = t.child[Opposite(side)][p]
        x1 == IF inner THEN p ELSE x
        t1 == IF inner THEN Rotate(t, side, p) ELSE t
        p1 == t1.parent[x1]
    IN IF x = Root(t) \/ ~IsRed(t, p) THEN Blacken(t, Root(t))
       ELSE IF IsRed(t, uncle)
       THEN Rebalance([t EXCEPT !.red[p] = FALSE, !.red[uncle] = FALSE, !.red[g] = TRUE], g)
       ELSE Rebalance(Rotate([t1 EXCEPT !.red[p1] = FALSE, !.red[g] = TRUE], Opposite(side), g), x1)

\* rank_policy::add() and remove(): the sizes of the ancestors of x.
RECURSIVE AddToAncestors(_, _, _)
AddToAncestors(t, x, d) ==
    IF x = Root(t) THEN t
    ELSE AddToAncestors([t EXCEPT !.size[t.parent[x]] = @ + d], t.parent[x], d)

Link(t, x, side, position) ==
    LET t1 == [t EXCEPT !.child[side][position] = x]
        t2 == IF position = Header
              THEN [t1 EXCEPT !.parent[Header] = x, !.child["right"][Header] = x]
              ELSE IF position = t.child[side][Header] THEN [t1 EXCEPT !.child[side][Header] = x]
              ELSE t1
        t3 == [t2 EXCEPT !.parent[x] = position, !.child["left"][x] = Null,
                         !.child["right"][x] = Null, !.size[x] = 1, !.red[x] = TRUE]
    IN Rebalance(AddToAncestors(t3, x, 1), x)

\* The loop of rebalance_for_erase(): x, maybe null, is one black node short.
\* Its sibling w is made black, then the far child of the sibling red, and a
\* last rotation brings the missing black node.
BlackSibling(t, side, xp, w) ==
    IF IsRed(t, w) THEN Rotate([t EXCEPT !.red[w] = FALSE, !.red[xp] = TRUE], side, xp) ELSE t

RedFarChild(t, side, w) ==
    IF IsRed(t, t.child[Opposite(side)][w]) THEN t
    ELSE Rotate([Blacken(t, t.child[side][w]) EXCEPT !.red[w] = TRUE], Opposite(side), w)

LastRotation(t, side, xp, w) ==
    Rotate(Blacken([t EXCEPT !.red[w] = t.red[xp], !.red[xp] = FALSE], t.child[Opposite(side)][w]), side, xp)

RECURSIVE Refill(_, _, _), RefillFrom(_, _, _, _, _)
Refill(t, x, xp) ==
    LET side == IF x = t.child["left"][xp] THEN "left" ELSE "right"
        t1 == BlackSibling(t, side, xp, t.child[Opposite(side)][xp])
    IN IF x = Root(t) \/ IsRed(t, x) THEN Blacken(t, x)
       ELSE RefillFrom(t1, side, x, xp, t1.child[Opposite(side)][xp])

RefillFrom(t, side, x, xp, w) ==
    LET t1 == RedFarChild(t, side, w)
    IN IF \A s \in Sides : ~IsRed(t, t.child[s][w])
       THEN Refill([t EXCEPT !.red[w] = TRUE], xp, t.parent[xp])
       ELSE Blacken(LastRotation(t1, side, xp, t1.child[Opposite(side)][xp]), x)

\* Mutant: the successor keeps its own colour in its new place.
PutSuccessorUncoloured(t, z, y, x) ==
    LET t1 == [t EXCEPT !.size[y] = t.size[z], !.parent[t.child["left"][z]] = y,
                        !.child["left"][y] = t.child["left"][z]]
        t2 == IF y = t.child["right"][z] THEN t1
              ELSE [SetParent(t1, x, t.parent[y]) EXCEPT
                        !.child["left"][t.parent[y]] = x, !.child["right"][y] = t.child["right"][z],
                        !.parent[t.child["right"][z]] = y]
    IN [Supplant(t2, z, y) EXCEPT !.parent[y] = t.parent[z]]

\* The two ways rebalance_for_erase() takes z out: z has two children, and its
\* successor y takes its place, or z has one child at most, which does.
PutSuccessor(t, z, y, x) ==
    LET t1 == [t EXCEPT !.size[y] = t.size[z], !.parent[t.child["left"][z]] = y,
                        !.child["left"][y] = t.child["left"][z]]
        t2 == IF y = t.child["right"][z] THEN t1
              ELSE [SetParent(t1, x, t.parent[y]) EXCEPT
                        !.child["left"][t.parent[y]] = x, !.child["right"][y] = t.child["right"][z],
                        !.parent[t.child["right"][z]] = y]
    IN [Supplant(t2, z, y) EXCEPT !.parent[y] = t.parent[z], !.red[y] = t.red[z]]

PutChild(t, z, x) ==
    LET t1 == Supplant(SetParent(t, x, t.parent[z]), z, x)
        Outer(side) == IF t.child[side][Header] # z THEN t.child[side][Header]
                       ELSE IF t.child[Opposite(side)][z] = Null THEN t.parent[z]
                       ELSE Outermost(t1, side, x)
    IN [t1 EXCEPT !.child["left"][Header] = Outer("left"), !.child["right"][Header] = Outer("right")]

RebalanceForErase(t, z) ==
    LET two == \A side \in Sides : t.child[side][z] # Null
        y == IF two THEN Outermost(t, "left", t.child["right"][z]) ELSE z
        x == IF t.child["left"][y] = Null THEN t.child["right"][y] ELSE t.child["left"][y]
        xp == IF two /\ y = t.child["right"][z] THEN y ELSE t.parent[y]
        t0 == AddToAncestors(t, y, -1)
        t1 == IF two THEN PutSuccessor(t0, z, y, x) ELSE PutChild(t0, z, x)
        t2 == IF t.red[y] THEN t1 ELSE Refill(t1, x, xp)
    IN [t2 EXCEPT !.parent[z] = Null, !.child["left"][z] = Null, !.child["right"][z] = Null,
                  !.size[z] = 0, !.red[z] = FALSE]

\* restore(): x goes back in front of the node that followed it.
Restore(t, x, position) ==
    IF t.child["left"][position] \in {Null, Header}
    THEN Link(t, x, "left", position)
    ELSE Link(t, x, "right", Decrement(t, position))

\* copy_(): the links of the copies are set from the parents of the originals.
CopyTree(t) ==
    LET IsChild(x, side) == t.parent[x] # Null /\ t.child[side][t.parent[x]] = x
        Child(y, side) ==
            IF y = Header THEN t.child[side][Header]
            ELSE IF \E x \in Nodes : IsChild(x, side) /\ t.parent[x] = y
            THEN CHOOSE x \in Nodes : IsChild(x, side) /\ t.parent[x] = y
            ELSE Null
    IN IF Root(t) = Null THEN EmptyTree
       ELSE [t EXCEPT !.child = [side \in Sides |-> [y \in Nodes \cup {Header} |-> Child(y, side)]]]

-----------------------------------------------------------------------------
\* The nodes in iteration order, and what ordered_index_impl::invariant_() checks.
RECURSIVE TreeOrder(_, _)
TreeOrder(t, x) ==
    IF x = Header THEN <<>> ELSE <<x>> \o TreeOrder(t, Increment(t, x))

InOrder(t) == TreeOrder(t, t.child["left"][Header])

RECURSIVE BlackCount(_, _)
BlackCount(t, x) ==
    IF x = Null THEN 0
    ELSE (IF IsRed(t, x) THEN 0 ELSE 1) + IF x = Root(t) THEN 0 ELSE BlackCount(t, t.parent[x])

TreeInvariant(t) ==
    LET members == {x \in Nodes : t.parent[x] # Null}
    IN IF members = {} THEN t = EmptyTree
       ELSE /\ t.red[Header] /\ ~IsRed(t, Root(t)) /\ t.parent[Root(t)] = Header
            /\ \A side \in Sides : t.child[side][Header] = Outermost(t, side, Root(t))
            /\ \A x \in members :
                 /\ t.size[x] = 1 + RankedSize(t, t.child["left"][x]) + RankedSize(t, t.child["right"][x])
                 /\ \A side \in Sides : LET c == t.child[side][x] IN
                      c # Null => t.parent[c] = x /\ ~(IsRed(t, x) /\ IsRed(t, c))
                 /\ (\E side \in Sides : t.child[side][x] = Null) =>
                      BlackCount(t, x) = BlackCount(t, t.child["left"][Header])
=============================================================================
