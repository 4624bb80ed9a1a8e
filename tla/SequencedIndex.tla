--------------------------- MODULE SequencedIndex ---------------------------
(* A sequenced index of multi_index (sequenced_index.hpp, detail/            *)
(* seq_index_node.hpp, detail/seq_index_ops.hpp): a circular list of the     *)
(* elements and the header. s is a record of the two links of every node;    *)
(* key gives what a comparison of two elements reads.                        *)
EXTENDS Integers, Sequences

CONSTANTS
    Nodes,   \* the nodes an allocator can hand out
    Header,  \* the header node of the container
    Null,    \* the null pointer
    MaxFill  \* the counters sort() may fill, enough for the nodes there are

Carry == -1                      \* the local headers of sort()
Counters == 0 .. MaxFill
SortHeads == {Carry} \cup Counters

EmptyList ==
    LET Links == [x \in Nodes \cup {Header} |-> IF x = Header THEN Header ELSE Null]
    IN [prior |-> Links, next |-> Links]

Append2(s, p, x, n) == [s EXCEPT !.prior[x] = p, !.next[x] = n, !.next[p] = x, !.prior[n] = x]
LinkBack(s, x) == Append2(s, s.prior[Header], x, Header)
Unchain(s, x) == [s EXCEPT !.next[s.prior[x]] = s.next[x], !.prior[s.next[x]] = s.prior[x]]

\* relink() of one node in front of position, and of the range from x up to y.
Relink(s, position, x) ==
    LET s1 == Unchain(s, x) IN Append2(s1, s1.prior[position], x, position)

RelinkRange(s, position, x, y) ==
    LET z == s.prior[y]
        s1 == [s EXCEPT !.next[s.prior[x]] = y, !.prior[y] = s.prior[x]]
        s2 == [s1 EXCEPT !.prior[x] = s1.prior[position], !.next[z] = position]
    IN IF x = y THEN s ELSE [s2 EXCEPT !.next[s2.prior[x]] = x, !.prior[position] = z]

ReverseLinks(s) == [prior |-> s.next, next |-> s.prior]

\* unlink() of an erased node, whose own links are dead.
RemoveNode(s, x) == [Unchain(s, x) EXCEPT !.prior[x] = Null, !.next[x] = Null]

-----------------------------------------------------------------------------
(* sort(). The comparisons of the caller may throw: left is how many more    *)
(* succeed, and -1 once one has thrown.                                      *)
Isolate(s, h) == [s EXCEPT !.prior[h] = h, !.next[h] = h]

\* swap() of the lists of two headers.
SwapLists(s, x, y) ==
    LET Ends(h, own) == IF s.next[h] = h THEN <<own, own>> ELSE <<s.prior[h], s.next[h]>>
        Give(t, h, ends) == [t EXCEPT !.prior[h] = ends[1], !.next[h] = ends[2],
                                      !.next[ends[1]] = h, !.prior[ends[2]] = h]
    IN Give(Give(s, x, Ends(y, x)), y, Ends(x, y))

\* sequenced_index_collate(): the list of y is merged into that of x.
RECURSIVE CollateFrom(_, _, _, _, _, _)
CollateFrom(c, key, x, y, first0, first1) ==
    IF c.left < 0 THEN c
    ELSE IF first0 = x \/ first1 = y THEN [c EXCEPT !.s = RelinkRange(c.s, x, first1, y)]
    ELSE IF c.left = 0 THEN [c EXCEPT !.left = -1]
    ELSE LET d == [c EXCEPT !.left = @ - 1]
         IN IF key[first1] < key[first0]
            THEN CollateFrom([d EXCEPT !.s = Relink(@, first0, first1)], key, x, y, first0, c.s.next[first1])
            ELSE CollateFrom(d, key, x, y, c.s.next[first0], first1)

Collate(c, key, x, y) == CollateFrom(c, key, x, y, c.s.next[x], c.s.next[y])

\* The carry is merged with the full counters from i on and put into the next.
RECURSIVE CarryUp(_, _, _)
CarryUp(c, key, i) ==
    LET s == SwapLists(c.s, Carry, i)
    IN IF c.left < 0 THEN c
       ELSE IF i < c.fill /\ c.s.next[i] # i THEN CarryUp(Collate(c, key, Carry, i), key, i + 1)
       ELSE IF i = c.fill THEN [c EXCEPT !.s = Isolate(s, i + 1), !.fill = i + 1]
       ELSE [c EXCEPT !.s = s]

RECURSIVE Distribute(_, _)
Distribute(c, key) ==
    IF c.left < 0 \/ c.s.next[Header] = Header THEN c
    ELSE Distribute(CarryUp([c EXCEPT !.s = Relink(c.s, c.s.next[Carry], c.s.next[Header])], key, 0), key)

RECURSIVE Collect(_, _, _)
Collect(c, key, i) ==
    IF i >= c.fill THEN c ELSE Collect(Collate(c, key, i, i - 1), key, i + 1)

\* The handler of an exception: what the local headers hold goes back.
RECURSIVE GiveBack(_, _, _)
GiveBack(s, fill, i) ==
    IF i > fill THEN s ELSE GiveBack(RelinkRange(s, Header, s.next[i], i), fill, i + 1)

SortList(s, key, comparisons) ==
    LET Extend(links) == [x \in Nodes \cup {Header} \cup SortHeads |-> IF x \in SortHeads THEN x ELSE links[x]]
        c == Collect(Distribute([s |-> [prior |-> Extend(s.prior), next |-> Extend(s.next)],
                                 fill |-> 0, left |-> comparisons], key), key, 1)
        done == IF c.left < 0
                THEN GiveBack(RelinkRange(c.s, Header, c.s.next[Carry], Carry), c.fill, 0)
                ELSE SwapLists(c.s, Header, c.fill - 1)
        Keep(links) == [x \in Nodes \cup {Header} |-> links[x]]
    IN IF s.next[Header] = Header \/ s.next[s.next[Header]] = Header THEN [s |-> s, threw |-> FALSE]
       ELSE [s |-> [prior |-> Keep(done.prior), next |-> Keep(done.next)], threw |-> c.left < 0]

-----------------------------------------------------------------------------
\* merge(): the element in front of which one with the key k goes, from x on.
RECURSIVE MergePoint(_, _, _, _)
MergePoint(s, key, k, x) ==
    IF x = Header \/ k < key[x] THEN x ELSE MergePoint(s, key, k, s.next[x])

\* The elements unique() erases: those equal to the last one it kept.
RECURSIVE Repeated(_, _, _, _)
Repeated(s, key, first, middle) ==
    IF middle = Header THEN {}
    ELSE IF key[middle] = key[first] THEN {middle} \cup Repeated(s, key, first, s.next[middle])
    ELSE Repeated(s, key, middle, s.next[middle])

\* rearrange(): the elements are relinked to the end in the order given.
RECURSIVE RelinkAll(_, _)
RelinkAll(s, seq) ==
    IF seq = <<>> THEN s ELSE RelinkAll(Relink(s, Header, Head(seq)), Tail(seq))

\* rearranger(): x goes behind position, or to the front.
RearrangeLink(s, position, x) ==
    LET next == s.next[IF position = Null THEN Header ELSE position]
    IN IF next = x THEN s ELSE Relink(s, next, x)

\* copy_(): each link is set from the original's next pointer.
RECURSIVE CopyLinks(_, _, _)
CopyLinks(c, s, org) ==
    LET next == s.next[org]
        c1 == [c EXCEPT !.next[org] = next, !.prior[next] = org]
    IN IF next = Header THEN c1 ELSE CopyLinks(c1, s, next)

RECURSIVE ListOrder(_, _)
ListOrder(s, x) == IF x = Header THEN <<>> ELSE <<x>> \o ListOrder(s, s.next[x])

LinksInvariant(s) ==
    \A x \in Nodes \cup {Header} : s.next[x] # Null => s.prior[s.next[x]] = x /\ s.next[s.prior[x]] = x
=============================================================================
