----------------------------- MODULE HashedIndex -----------------------------
(* A hashed index of multi_index (hashed_index.hpp, detail/                  *)
(* hash_index_node.hpp, detail/bucket_array.hpp). The elements are one list, *)
(* closed by the header; each bucket points back to its first node, and the  *)
(* link that would enter a bucket goes through the bucket instead. With      *)
(* non-unique keys, a group of three or more equal elements has its second   *)
(* and last-but-one links bent so that a lookup can jump over the group. h   *)
(* is a record of the links and the hash policy; addresses of buckets are    *)
(* integers, those of nodes model values. hash(k) is k, as for an integer.   *)
EXTENDS Integers, SequencesExt

CONSTANTS
    Nodes,        \* the nodes an allocator can hand out
    Header,       \* the header node of the container
    Null,         \* the null pointer
    CopyEnd,      \* the end node of the copy that a rehash builds
    BucketSizes   \* the increasing sequence of bucket counts to choose from

Stride == 100   \* addresses from Stride on are those of the array a rehash builds
MaxSize == BucketSizes[Len(BucketSizes)]
Buckets == 0 .. MaxSize \cup Stride .. Stride + MaxSize
Ends == {Header, CopyEnd}

\* bucket_array: the smallest size that is large enough, and the empty array,
\* whose extra last bucket belongs to the end node.
SizeFor(n) ==
    IF n > MaxSize THEN MaxSize ELSE Min({BucketSizes[i] : i \in 1 .. Len(BucketSizes)} \cap n .. MaxSize)
Position(size, k) == k % size

ClearBuckets(h, base, size, end) ==
    [h EXCEPT !.prior = [a \in DOMAIN @ |-> IF a \in {base + size, end} THEN end
                                            ELSE IF a \in base .. base + size - 1 THEN Null ELSE @[a]],
              !.next[end] = base + size]

EmptyHash(n) ==
    LET h == [prior |-> [a \in Nodes \cup Ends \cup Buckets |-> Null],
              next |-> [a \in Nodes \cup Ends |-> Null],
              buckets |-> SizeFor(n), mlf |-> 1, maxLoad |-> SizeFor(n), log |-> <<>>]
    IN ClearBuckets(h, 0, SizeFor(n), Header)

Cleared(h) ==
    LET Wipe(links) == [a \in DOMAIN links |-> IF a \in Nodes THEN Null ELSE links[a]]
    IN ClearBuckets([h EXCEPT !.prior = Wipe(@), !.next = Wipe(@)], 0, h.buckets, Header)

-----------------------------------------------------------------------------
(* hashed_index_node_alg. unique selects the category.                       *)
IsFirstOfBucket(h, x, unique) ==
    IF unique THEN h.next[h.prior[x]] # x ELSE h.prior[h.next[h.prior[x]]] = x
IsLastOfBucket(h, x, unique) ==
    IF unique THEN h.prior[h.next[x]] # x ELSE h.prior[h.prior[h.next[x]]] = x
IsFirstOfGroup(h, x) ==
    h.prior[h.next[x]] # x /\ h.next[h.prior[h.prior[h.next[x]]]] = x

\* The node after x in the list; after_local() stops at the end of the bucket,
\* and next_to_inspect() also goes on to the next group.
After(h, x, unique) ==
    LET n == h.next[x]
    IN IF h.prior[n] = x THEN n
       ELSE IF unique \/ h.prior[h.prior[n]] = x THEN h.prior[n]
       ELSE IF h.next[h.prior[h.prior[n]]] = x THEN n
       ELSE h.prior[h.next[n]]

AfterLocal(h, x, unique) == IF IsLastOfBucket(h, x, unique) THEN Null ELSE After(h, x, unique)

NextToInspect(h, x, unique) ==
    LET n == h.next[x]
    IN IF h.prior[n] = x THEN n
       ELSE IF unique \/ h.prior[h.prior[n]] = x \/ h.prior[h.next[h.prior[n]]] # h.prior[n] THEN Null
       ELSE h.next[h.prior[n]]

\* link() into a bucket, and link_range() of the nodes from first to last.
LinkRange(h, first, last, bucket, end) ==
    IF h.prior[bucket] = Null
    THEN [h EXCEPT !.prior[first] = h.prior[end], !.next[last] = h.next[h.prior[end]],
                   !.next[h.prior[end]] = bucket, !.prior[bucket] = first, !.prior[end] = last]
    ELSE [h EXCEPT !.prior[first] = h.prior[h.prior[bucket]], !.next[last] = h.prior[bucket],
                   !.prior[bucket] = first, !.prior[h.prior[bucket]] = last]

\* link() of x in front of the group from first to last.
LinkGroup(h, x, first, last) ==
    LET p == h.prior[first]
        h1 == IF IsFirstOfBucket(h, first, FALSE)
              THEN [h EXCEPT !.prior[x] = p, !.next[x] = first, !.prior[h.next[p]] = x]
              ELSE [h EXCEPT !.prior[x] = p, !.next[x] = first, !.next[p] = x]
    IN IF first = last THEN [h1 EXCEPT !.prior[last] = x]
       ELSE IF h1.next[first] = last THEN [h1 EXCEPT !.prior[first] = last, !.next[first] = x]
       ELSE [h1 EXCEPT !.prior[h1.next[first]] = first, !.prior[first] = last,
                       !.next[h1.prior[last]] = x]

\* unlink_undo_assigner: each assignment of unlink() is logged with the old value.
SetPrior(h, a, v) ==
    [h EXCEPT !.prior[a] = v, !.log = Append(@, [field |-> "prior", at |-> a, old |-> h.prior[a]])]
SetNext(h, a, v) ==
    [h EXCEPT !.next[a] = v, !.log = Append(@, [field |-> "next", at |-> a, old |-> h.next[a]])]

RECURSIVE UndoLog(_)
\* Mutant: the assignments to next() are not undone.
UndoLogPriors(h) ==
    [h EXCEPT !.log = <<>>,
              !.prior = FoldLeft(LAMBDA links, e : IF e.field = "prior" THEN [links EXCEPT ![e.at] = e.old] ELSE links,
                                 @, Reverse(h.log))]

UndoLog(h) ==
    IF h.log = <<>> THEN h
    ELSE LET entry == h.log[Len(h.log)]
             rest == [h EXCEPT !.log = SubSeq(@, 1, Len(@) - 1)]
         IN UndoLog(IF entry.field = "prior" THEN [rest EXCEPT !.prior[entry.at] = entry.old]
                                             ELSE [rest EXCEPT !.next[entry.at] = entry.old])

\* The parts of unlink(), named as in the source.
LeftUnlink(h, x) == SetNext(h, h.prior[x], h.next[x])
RightUnlink(h, x) == SetPrior(h, h.next[x], h.prior[x])
LeftUnlinkFirstOfBucket(h, x) == SetPrior(h, h.next[h.prior[x]], h.next[x])
RightUnlinkLastOfBucket(h, x) == SetPrior(h, h.prior[h.next[x]], h.prior[x])

RightUnlinkFirstOfGroup(h, x) ==
    LET second == h.next[x]
        last == h.prior[second]
        lastButOne == h.prior[last]
        h1 == IF second = lastButOne THEN SetNext(h, second, last)
              ELSE LET h0 == SetNext(h, lastButOne, second) IN SetPrior(h0, h0.next[second], last)
    IN SetPrior(h1, second, h1.prior[x])

LeftUnlinkLastOfGroup(h, x) ==
    LET lastButOne == h.prior[x]
        first == h.next[lastButOne]
        second == h.next[first]
        h1 == IF lastButOne = second THEN SetPrior(h, lastButOne, first)
              ELSE LET h0 == SetPrior(h, second, lastButOne) IN SetNext(h0, h0.prior[lastButOne], first)
    IN SetNext(h1, lastButOne, h1.next[x])

UnlinkLastButOneOfGroup(h, x) ==
    LET first == h.next[x]
        second == h.next[first]
        last == h.prior[second]
    IN IF second = x THEN SetNext(SetPrior(h, last, first), first, last)
       ELSE LET h1 == SetPrior(h, last, h.prior[x]) IN SetNext(h1, h1.prior[x], first)

UnlinkSecondOfGroup(h, x) ==
    LET last == h.prior[x]
        lastButOne == h.prior[last]
        first == h.next[lastButOne]
    IN IF lastButOne = x THEN SetPrior(SetNext(h, first, last), last, first)
       ELSE LET h1 == SetNext(h, first, h.next[x]) IN SetPrior(h1, h1.next[x], last)

UnlinkOnlyOfBucket(h, x) ==
    LET h1 == SetPrior(h, h.next[h.prior[x]], Null)
        h2 == SetNext(h1, h1.prior[x], h1.next[x])
    IN SetPrior(h2, h2.prior[h2.next[x]], h2.prior[x])

\* unlink(): the cases of the source, the non-unique ones first.
Unlink(h, x, unique) ==
    LET p == h.prior[x]
        n == h.next[x]
        lastOfBucket == IsLastOfBucket(h, x, unique)
        linkedLeft == h.next[p] = x
        linkedRight == h.prior[n] = x
    IN IF linkedLeft
       THEN IF linkedRight THEN RightUnlink(LeftUnlink(h, x), x)
            ELSE IF lastOfBucket THEN RightUnlinkLastOfBucket(LeftUnlink(h, x), x)
            ELSE IF h.next[h.prior[h.prior[n]]] = x THEN RightUnlinkFirstOfGroup(LeftUnlink(h, x), x)
            ELSE UnlinkLastButOneOfGroup(h, x)
       ELSE IF IsFirstOfBucket(h, x, unique)
       THEN IF linkedRight THEN RightUnlink(LeftUnlinkFirstOfBucket(h, x), x)
            ELSE IF lastOfBucket THEN UnlinkOnlyOfBucket(h, x)
            ELSE RightUnlinkFirstOfGroup(LeftUnlinkFirstOfBucket(h, x), x)
       ELSE IF lastOfBucket THEN RightUnlinkLastOfBucket(LeftUnlinkLastOfGroup(h, x), x)
       ELSE IF h.next[h.next[h.prior[p]]] = x THEN UnlinkSecondOfGroup(h, x)
       ELSE RightUnlink(LeftUnlinkLastOfGroup(h, x), x)

\* erase_(): unlink() with plain assignments; the links of x itself are dead.
Erase(h, x, unique) ==
    [Unlink(h, x, unique) EXCEPT !.log = <<>>, !.prior[x] = Null, !.next[x] = Null]

-----------------------------------------------------------------------------
(* hashed_index: lookups, link points and the place test.                    *)
RECURSIVE FindFrom(_, _, _, _, _)
FindFrom(h, key, k, x, unique) ==
    IF x = Null \/ key[x] = k THEN x
    ELSE FindFrom(h, key, k, NextToInspect(h, x, unique), unique)

FindKey(h, key, k, unique) == FindFrom(h, key, k, h.prior[Position(h.buckets, k)], unique)

LastOfRange(h, key, x, unique) ==
    LET y == h.next[x]
        z == h.prior[y]
    IN IF unique \/ (z # x /\ h.prior[z] = x) THEN x
       ELSE IF z # x THEN z
       ELSE IF key[y] = key[x] THEN y ELSE x

EndOfRange(h, key, x, unique) ==
    LET last == LastOfRange(h, key, x, unique)
        y == h.next[last]
    IN IF unique THEN After(h, last, TRUE) ELSE IF h.prior[y] = last THEN y ELSE h.prior[y]

\* link_point(): a unique key that is found is refused.
HashLinkPoint(h, key, k, unique) ==
    LET x == FindKey(h, key, k, unique)
    IN IF x = Null THEN [ok |-> TRUE, first |-> Position(h.buckets, k), last |-> Null]
       ELSE [ok |-> ~unique, first |-> x, last |-> LastOfRange(h, key, x, unique)]

HashLink(h, x, at) ==
    IF at.last = Null THEN LinkRange(h, x, x, at.first, Header) ELSE LinkGroup(h, x, at.first, at.last)

RECURSIVE LocalNodes(_, _, _)
LocalNodes(h, x, unique) ==
    IF x = Null THEN <<>> ELSE <<x>> \o LocalNodes(h, AfterLocal(h, x, unique), unique)

RECURSIVE InPlaceFrom(_, _, _, _, _, _, _)
InPlaceFrom(h, key, k, x, y, found, range) ==
    LET z == AfterLocal(h, h.prior[h.next[y]], FALSE)
        Rest(f, r) == InPlaceFrom(h, key, k, x, AfterLocal(h, y, FALSE), f, r)
    IN IF y = Null THEN found
       ELSE IF IsFirstOfGroup(h, y)
       THEN IF y = x THEN key[h.next[y]] = k
            ELSE IF key[y] = k
            THEN ~found /\ x \in ToSet(LocalNodes(h, y, FALSE)) \ ToSet(LocalNodes(h, z, FALSE))
            ELSE IF range = 1 /\ ~found THEN FALSE
            ELSE IF range = 2 THEN found
            ELSE InPlaceFrom(h, key, k, x, z, found, 0)
       ELSE IF y = x THEN range = 1 \/ Rest(TRUE, 1)
       ELSE IF key[y] = k
       THEN ~(range = 0 /\ found) /\ ~(range = 1 /\ ~found) /\ range # 2 /\ Rest(found, range + 1)
       ELSE IF range = 1 /\ ~found THEN FALSE
       ELSE IF range = 2 THEN found
       ELSE Rest(found, 0)

HashInPlace(h, key, k, x, unique) ==
    LET first == h.prior[Position(h.buckets, k)]
        nodes == ToSet(LocalNodes(h, first, TRUE))
    IN IF unique THEN x \in nodes /\ \A y \in nodes \ {x} : key[y] # k
       ELSE InPlaceFrom(h, key, k, x, first, FALSE, 0)

-----------------------------------------------------------------------------
(* Rehashing: the groups move, last first, into the array of a copy.         *)
\* unlink_last() and unlink_last_group(): the first node of the last group,
\* and whether its bucket is left empty.
UnlinkLastGroup(h, unique) ==
    LET x == h.prior[Header]
        p == h.prior[x]
        single == unique \/ h.next[p] = x \/ h.prior[h.next[p]] = x
        y == IF single THEN x ELSE h.next[p]
        q == h.prior[y]
        within == h.next[q] = y
        h1 == IF within THEN h ELSE [h EXCEPT !.prior[h.next[q]] = Null]
    IN [h |-> [h1 EXCEPT !.next[q] = h.next[x], !.prior[Header] = q], first |-> y, within |-> within]

UnlinkRange(h, first, last) ==
    LET p == h.prior[first]
        n == h.next[last]
        lastOfBucket == IsLastOfBucket(h, last, FALSE)
    IN IF IsFirstOfBucket(h, first, FALSE)
       THEN IF lastOfBucket
            THEN [h EXCEPT !.prior[h.next[p]] = Null, !.next[p] = n, !.prior[h.prior[n]] = p]
            ELSE [h EXCEPT !.prior[h.next[p]] = n, !.prior[n] = p]
       ELSE IF lastOfBucket THEN [h EXCEPT !.next[p] = n, !.prior[h.prior[n]] = p]
       ELSE [h EXCEPT !.next[p] = n, !.prior[n] = p]

AppendRange(h, first, last, end) ==
    [h EXCEPT !.prior[first] = h.prior[end], !.next[last] = h.next[h.prior[end]],
              !.next[h.prior[end]] = first, !.prior[end] = last]

\* The loop of unchecked_rehash(); hash_() throws once fail groups have moved.
RECURSIVE MoveGroups(_, _, _, _, _, _, _)
MoveGroups(h, key, size, unique, fail, moved, within) ==
    LET x == h.prior[Header]
        u == UnlinkLastGroup(h, unique)
        h1 == LinkRange(u.h, u.first, x, Stride + Position(size, key[x]), CopyEnd)
    IN IF x = Header \/ Len(moved) = fail THEN [h |-> h, moved |-> moved, within |-> within]
       ELSE MoveGroups(h1, key, size, unique, fail, Append(moved, x), u.within)

\* The handler of an exception: the groups move back, last one first. previous
\* is the bucket of the group restored before.
RECURSIVE RestoreGroups(_, _, _, _, _)
\* Mutant: every group is linked to its bucket, as in the forward loop.
RestoreGroupsLinked(h, key, unique, moved, previous) ==
    LET x == moved[Len(moved)]
    IN IF moved = <<>> THEN h
       ELSE RestoreGroups(LinkRange(IF unique THEN h ELSE UnlinkRange(h, x, x), x, x, Position(h.buckets, key[x]), Header),
                          key, unique, SubSeq(moved, 1, Len(moved) - 1), -1)

RestoreGroups(h, key, unique, moved, previous) ==
    LET x == moved[Len(moved)]
        p == h.prior[x]
        y == IF unique \/ h.next[p] = x \/ h.prior[h.next[p]] = x THEN x ELSE h.next[p]
        h1 == IF unique THEN h ELSE UnlinkRange(h, y, x)
        bucket == Position(h.buckets, key[x])
        h2 == IF bucket = previous THEN AppendRange(h1, y, x, Header)
                                   ELSE LinkRange(h1, y, x, bucket, Header)
    IN IF moved = <<>> THEN h
       ELSE RestoreGroups(h2, key, unique, SubSeq(moved, 1, Len(moved) - 1), bucket)

\* The array of the copy is freed, or takes the place of the old one.
FreeCopy(h) ==
    [h EXCEPT !.prior = [a \in DOMAIN @ |-> IF a \in Nodes \cup {Header} \cup 0 .. Stride - 1 THEN @[a] ELSE Null],
              !.next[CopyEnd] = Null]

AdoptCopy(h, size) ==
    LET last == IF h.prior[CopyEnd] = CopyEnd THEN Header ELSE h.prior[CopyEnd]
        h1 == [h EXCEPT !.prior[Header] = last, !.next[Header] = h.next[CopyEnd]]
        h2 == [h1 EXCEPT !.prior[h1.prior[h1.next[Header]]] = Header]
        h3 == [h2 EXCEPT !.prior[h2.next[last]] = Header]
        Moved(a) == IF a \in Stride .. Stride + MaxSize THEN a - Stride
                    ELSE IF a \in 0 .. MaxSize THEN Null ELSE a
    IN FreeCopy([h3 EXCEPT
           !.prior = [a \in DOMAIN @ |-> Moved(IF a \in 0 .. MaxSize THEN @[a + Stride] ELSE @[a])],
           !.next = [a \in DOMAIN @ |-> Moved(@[a])],
           !.buckets = size, !.maxLoad = h.mlf * size])

NeverFails == Cardinality(Nodes) + 1

UncheckedRehash(h, key, n, unique, fail) ==
    LET size == SizeFor(n)
        m == MoveGroups(ClearBuckets(h, Stride, size, CopyEnd), key, size, unique, fail, <<>>, FALSE)
        previous == IF m.within THEN Position(h.buckets, key[m.moved[Len(m.moved)]]) ELSE Null
    IN IF m.h.prior[Header] = Header THEN AdoptCopy(m.h, size)
       ELSE FreeCopy(RestoreGroups(m.h, key, unique, m.moved, previous))

\* reserve_for_insert() and rehash(); n elements are to be held.
ReserveForInsert(h, key, n, unique, fail) ==
    IF n > h.maxLoad THEN UncheckedRehash(h, key, 1 + n \div h.mlf, unique, fail) ELSE h

RehashTo(h, key, n, size, unique) ==
    IF size <= h.maxLoad /\ n <= h.buckets THEN h
    ELSE UncheckedRehash(h, key, Max({1 + size \div h.mlf, n}), unique, NeverFails)

MaxLoadFactor(h, z) == [h EXCEPT !.mlf = z, !.maxLoad = z * h.buckets]

-----------------------------------------------------------------------------
\* copy_(): the links are rebuilt node by node, walking the original backwards
\* for unique keys and forwards otherwise. A node's copy bears its name here.
RECURSIVE CopyFrom(_, _, _, _)
CopyFrom(c, h, org, unique) ==
    LET next == After(h, org, FALSE)
        prev == h.prior[org]
        first == IsFirstOfBucket(h, IF unique THEN org ELSE next, unique)
        link == IF unique THEN h.next[prev] ELSE h.next[org]
        c1 == IF unique
              THEN IF first
                   THEN [c EXCEPT !.prior[org] = prev, !.next[prev] = link, !.prior[link] = org]
                   ELSE [c EXCEPT !.prior[org] = prev, !.next[prev] = org]
              ELSE IF first
                   THEN [c EXCEPT !.next[org] = link, !.prior[link] = next, !.prior[next] = org]
                   ELSE [c EXCEPT !.next[org] = link, !.prior[next] = h.prior[next]]
        rest == IF unique THEN prev ELSE next
    IN IF rest = Header THEN c1 ELSE CopyFrom(c1, h, rest, unique)

CopyHash(h, unique) ==
    LET c == [EmptyHash(h.buckets) EXCEPT !.mlf = h.mlf, !.maxLoad = h.maxLoad]
    IN IF h.prior[Header] = Header THEN c ELSE CopyFrom(c, h, Header, unique)

-----------------------------------------------------------------------------
\* The list in iteration order, and what the structure must look like: each
\* bucket holds its own keys, equal keys are adjacent, groups of three and more
\* have the bent links and no other node has.
RECURSIVE ListFrom(_, _, _)
ListFrom(h, x, unique) ==
    IF x = Header THEN <<>> ELSE <<x>> \o ListFrom(h, After(h, x, unique), unique)

HashOrder(h, unique) == ListFrom(h, h.prior[h.next[Header]], unique)

GroupLinks(h, seq, key, unique) ==
    \A i \in 1 .. Len(seq) :
        LET prior == IF i = 1 THEN Header ELSE seq[i - 1]
            group == {j \in 1 .. Len(seq) : key[seq[j]] = key[seq[i]]}
            long == Cardinality(group) >= 3
        IN /\ \A j \in group, l \in group : \A m \in j .. l : m \in group
           /\ unique => group = {i}
           /\ h.prior[seq[i]] = IF long /\ i = Min(group) + 1 THEN seq[Max(group)]
                                ELSE prior
           /\ long /\ i = Max(group) - 1 => h.next[seq[i]] = seq[Min(group)]
           /\ ~(long /\ i = Max(group) - 1) =>
                 h.next[seq[i]] = IF i = Len(seq) THEN h.buckets
                                  ELSE IF Position(h.buckets, key[seq[i + 1]]) # Position(h.buckets, key[seq[i]])
                                       THEN Position(h.buckets, key[seq[i + 1]]) ELSE seq[i + 1]

HashInvariant(h, key, unique) ==
    LET seq == HashOrder(h, unique)
        Of(b) == {i \in 1 .. Len(seq) : Position(h.buckets, key[seq[i]]) = b}
    IN /\ GroupLinks(h, seq, key, unique)
       /\ \A b \in 0 .. h.buckets - 1 :
            /\ \A i \in Of(b), j \in Of(b) : \A m \in i .. j : m \in Of(b)
            /\ h.prior[b] = IF Of(b) = {} THEN Null ELSE seq[Min(Of(b))]
       /\ h.prior[h.buckets] = Header
       /\ h.prior[Header] = IF seq = <<>> THEN Header ELSE seq[Len(seq)]
=============================================================================
