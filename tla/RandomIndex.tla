----------------------------- MODULE RandomIndex -----------------------------
(* A random access index of multi_index (random_access_index.hpp, detail/    *)
(* rnd_index_node.hpp, rnd_index_ptr_array.hpp, rnd_index_ops.hpp,           *)
(* rnd_index_loader.hpp): an array of pointers to the nodes, the header      *)
(* last, and in every node the place (up) that points to it. r is a record   *)
(* of the array in use, the places and the capacity. Places count from 1.    *)
EXTENDS Integers, SequencesExt, TLC

CONSTANTS
    Nodes,   \* the nodes an allocator can hand out
    Header,  \* the header node of the container
    Null     \* the null pointer

EmptyArray ==
    [ptrs |-> <<Header>>, up |-> [x \in Nodes \cup {Header} |-> IF x = Header THEN 1 ELSE Null], capacity |-> 0]

End(r) == Len(r.ptrs)

\* *i=x and x->up()=i for the places of a range that a loop has rewritten.
Rewrite(r, places, at) ==
    LET ptrs == [i \in 1 .. Len(r.ptrs) |-> IF i \in places THEN at[i] ELSE r.ptrs[i]]
    IN [r EXCEPT !.ptrs = ptrs,
                 !.up = [x \in DOMAIN @ |-> IF \E i \in places : ptrs[i] = x
                                            THEN CHOOSE i \in places : ptrs[i] = x ELSE @[x]]]

RoomForOne(r) ==
    IF End(r) - 1 < r.capacity THEN r
    ELSE [r EXCEPT !.capacity = IF @ <= 10 THEN 15 ELSE @ + @ \div 2]
ShrinkToFit(r) == [r EXCEPT !.capacity = End(r) - 1]

PushBack(r, x) ==
    LET e == End(r)
    IN [r EXCEPT !.ptrs = [i \in 1 .. e + 1 |-> IF i = e THEN x ELSE IF i = e + 1 THEN Header ELSE @[i]],
                 !.up[Header] = e + 1, !.up[x] = e]

\* extract() of the place i, up to the end.
EraseAt(r, x) ==
    LET i == r.up[x]
        moved == Rewrite(r, i .. End(r) - 1, [j \in i .. End(r) - 1 |-> r.ptrs[j + 1]])
    IN [moved EXCEPT !.ptrs = SubSeq(@, 1, Len(@) - 1), !.up[x] = Null]

\* relocate() of the place i in front of the place pos.
Relocate(r, pos, i) ==
    IF i < pos
    THEN Rewrite(r, i .. pos - 1, [j \in i .. pos - 1 |-> IF j = pos - 1 THEN r.ptrs[i] ELSE r.ptrs[j + 1]])
    ELSE Rewrite(r, pos .. i, [j \in pos .. i |-> IF j = pos THEN r.ptrs[i] ELSE r.ptrs[j - 1]])

\* relocate() of a range: a rotation by m of the n places from begin, done as
\* gcd(n, m) cycles. Cycle is the places one of them reaches.
RECURSIVE Gcd(_, _)
Gcd(n, m) == IF m = 0 THEN n ELSE Gcd(m, n % m)

RECURSIVE Cycle(_, _, _, _)
Cycle(n, m, i, j) ==
    LET k == IF j < n - m THEN j + m ELSE j - (n - m)
    IN {j} \cup IF k = i THEN {} ELSE Cycle(n, m, i, k)

RelocateRange(r, pos, first, last) ==
    LET begin == IF pos < first THEN pos ELSE first
        middle == IF pos < first THEN first ELSE last
        end == IF pos < first THEN last ELSE pos
        n == end - begin
        m == middle - begin
        places == {begin + j : j \in UNION {Cycle(n, m, i, i) : i \in 0 .. Gcd(n, m) - 1}}
    IN Rewrite(r, places, [i \in places |-> IF i - begin < n - m THEN r.ptrs[i + m] ELSE r.ptrs[i - (n - m)]])

ReverseArray(r) ==
    LET d == (End(r) - 1) \div 2
        places == 1 .. d \cup End(r) - d .. End(r) - 1
    IN Rewrite(r, places, [i \in places |-> r.ptrs[End(r) - i]])

-----------------------------------------------------------------------------
Swap(r, i, j) == IF i = j THEN r ELSE Rewrite(r, {i, j}, (i :> r.ptrs[j]) @@ (j :> r.ptrs[i]))

\* remove_if() and unique(): the elements to keep are swapped to the front; the
\* others, from the place res on, are then popped.
RECURSIVE KeepFrom(_, _, _, _)
KeepFrom(r, gone, first, res) ==
    IF first = End(r) THEN [r |-> r, res |-> res]
    ELSE IF r.ptrs[first] \in gone THEN KeepFrom(r, gone, first + 1, res)
    ELSE KeepFrom(Swap(r, first, res), gone, first + 1, res + 1)

RECURSIVE UniqueFrom(_, _, _, _)
UniqueFrom(r, key, first, res) ==
    IF first >= End(r) THEN [r |-> r, res |-> IF End(r) = 1 THEN 1 ELSE res + 1]
    ELSE IF key[r.ptrs[res]] = key[r.ptrs[first]] THEN UniqueFrom(r, key, first + 1, res)
    ELSE UniqueFrom(Swap(r, first, res + 1), key, first + 1, res + 1)

\* sort(): a copy is sorted, stably, and put back; a comparison may throw
\* before anything is put back.
SortArray(r, key) ==
    LET Before(x, y) == key[x] < key[y] \/ (key[x] = key[y] /\ r.up[x] < r.up[y])
    IN IF End(r) <= 2 THEN r
       ELSE Rewrite(r, 1 .. End(r) - 1, SetToSortSeq(ToSet(SubSeq(r.ptrs, 1, End(r) - 1)), Before))

\* inplace_merge() of the places before first1 with those from it on.
RECURSIVE MergeInto(_, _, _, _, _, _)
MergeInto(ptrs, key, first0, last0, first1, last1) ==
    IF first0 = last0 THEN SubSeq(ptrs, first1, last1 - 1)
    ELSE IF first1 = last1 THEN SubSeq(ptrs, first0, last0 - 1)
    ELSE IF key[ptrs[first1]] < key[ptrs[first0]]
    THEN <<ptrs[first1]>> \o MergeInto(ptrs, key, first0, last0, first1 + 1, last1)
    ELSE <<ptrs[first0]>> \o MergeInto(ptrs, key, first0 + 1, last0, first1, last1)

InplaceMerge(r, key, first1) ==
    Rewrite(r, 1 .. End(r) - 1, MergeInto(r.ptrs, key, 1, first1, first1, End(r)))

\* rearrange(): each place in turn receives the element asked for.
RECURSIVE SwapAll(_, _, _)
SwapAll(r, seq, i) == IF i > Len(seq) THEN r ELSE SwapAll(Swap(r, i, r.up[seq[i]]), seq, i + 1)

-----------------------------------------------------------------------------
(* The loader keeps the elements in a list while it rearranges them: the     *)
(* array holds the next pointers, an array of its own the prev pointers.     *)
Preprocess(r) ==
    [next |-> Append(Tail(r.ptrs), Head(r.ptrs)), prev |-> <<Last(r.ptrs)>> \o Front(r.ptrs), up |-> r.up]

NextOf(l, x) == l.next[l.up[x]]
PrevOf(l, x) == l.prev[l.up[x]]

LoaderMove(l, position, x) ==
    LET p == IF position = Null THEN Header ELSE position
        l1 == [l EXCEPT !.next[l.up[PrevOf(l, x)]] = NextOf(l, x), !.prev[l.up[NextOf(l, x)]] = PrevOf(l, x)]
        n == NextOf(l1, p)
    IN [l1 EXCEPT !.prev[l.up[x]] = p, !.next[l.up[x]] = n, !.next[l.up[p]] = x, !.prev[l.up[n]] = x]

\* The destructor: from the last place down, the node that belongs there gets it.
RECURSIVE Settle(_, _, _)
Settle(l, after, i) ==
    LET n == PrevOf(l, after)
        d == l.up[n]
        m == l.prev[l.up[l.next[i]]]
        l1 == IF d = i THEN l
              ELSE [l EXCEPT !.up[m] = d, !.up[n] = l.up[m], !.next[d] = l.next[i],
                             !.prev[d] = l.prev[i], !.prev[i] = l.prev[d]]
    IN IF i = 0 THEN l ELSE Settle([l1 EXCEPT !.next[l1.up[n]] = n], n, i - 1)

FinishLoad(r, l) ==
    LET s == Settle([l EXCEPT !.next[l.up[Header]] = Header], Header, End(r) - 1)
    IN [r EXCEPT !.ptrs = s.next, !.up = s.up]

ArrayOrder(r) == SubSeq(r.ptrs, 1, End(r) - 1)

ArrayInvariant(r) ==
    /\ End(r) - 1 <= r.capacity
    /\ \A i \in 1 .. End(r) : r.up[r.ptrs[i]] = i
    /\ \A x \in Nodes : r.up[x] # Null => r.ptrs[r.up[x]] = x
=============================================================================
