------------------------------- MODULE Archive -------------------------------
(* What serialization does to the order of an index (multi_index/detail/     *)
(* index_matcher.hpp, index_saver.hpp, index_loader.hpp,                     *)
(* duplicates_iterator.hpp). The elements are saved in the order of the      *)
(* first index; another index saves a stream of pointers, which says where   *)
(* the elements go that are not on a longest run in the base order.          *)
EXTENDS Integers, SequencesExt

CONSTANT Null   \* the null pointer, which ends a run of the stream

\* Patience sorting: the tops of the piles, and for each node the top of the
\* pile before its own when it was stacked.
PileFor(pos, tops, x) == Cardinality({i \in 1 .. Len(tops) : pos[tops[i]] < pos[x]}) + 1

RECURSIVE Stack(_, _, _, _)
Stack(pos, tops, previous, seq) ==
    LET x == Head(seq)
        i == PileFor(pos, tops, x)
    IN IF seq = <<>> THEN [tops |-> tops, previous |-> previous]
       ELSE Stack(pos, SubSeq(tops, 1, i - 1) \o <<x>> \o SubSeq(tops, i + 1, Len(tops)),
                  [y \in DOMAIN previous \cup {x} |-> IF y # x THEN previous[y]
                                                      ELSE IF i > 1 THEN tops[i - 1] ELSE Null],
                  Tail(seq))

RECURSIVE Chain(_, _)
Chain(previous, x) == {x} \cup IF previous[x] = Null THEN {} ELSE Chain(previous, previous[x])

\* is_ordered() after execute().
InOrderNodes(base, seq) ==
    LET pos == [x \in ToSet(base) |-> CHOOSE i \in 1 .. Len(base) : base[i] = x]
        piles == Stack(pos, <<>>, <<>>, seq)
    IN IF seq = <<>> THEN {} ELSE Chain(piles.previous, piles.tops[Len(piles.tops)])

\* save(): each run is a predecessor, the displaced nodes and a null pointer.
RECURSIVE SaveFrom(_, _, _, _)
\* Mutant: a node displaced right after another run gets no predecessor.
SaveFromOneOff(seq, ordered, i, lastSaved) ==
    IF i > Len(seq) THEN IF lastSaved <= 2 THEN <<Null, Null>> ELSE <<Null>>
    ELSE IF seq[i] \notin ordered
    THEN (IF lastSaved > 2 THEN <<seq[IF i = 1 THEN 1 ELSE i - 1]>> ELSE <<>>)
           \o <<seq[i]>> \o SaveFrom(seq, ordered, i + 1, 1)
    ELSE (IF lastSaved = 2 THEN <<Null>> ELSE <<>>) \o SaveFrom(seq, ordered, i + 1, lastSaved + 1)

SaveFrom(seq, ordered, i, lastSaved) ==
    IF i > Len(seq) THEN IF lastSaved <= 2 THEN <<Null, Null>> ELSE <<Null>>
    ELSE IF seq[i] \notin ordered
    THEN (IF lastSaved > 1 THEN <<seq[IF i = 1 THEN 1 ELSE i - 1]>> ELSE <<>>)
           \o <<seq[i]>> \o SaveFrom(seq, ordered, i + 1, 1)
    ELSE (IF lastSaved = 2 THEN <<Null>> ELSE <<>>) \o SaveFrom(seq, ordered, i + 1, lastSaved + 1)

Save(base, seq) == SaveFrom(seq, InOrderNodes(base, seq), 1, 3)

\* The forward iterator over the elements whose key is not the only one.
Duplicates(seq, key) ==
    SelectSeq(seq, LAMBDA x : \E y \in ToSet(seq) \ {x} : key[y] = key[x])

\* load(): the calls of the rearranger, each a predecessor (null for the front)
\* and the node that goes behind it.
RECURSIVE CallsFrom(_, _, _)
CallsFrom(stream, i, prev) ==
    LET x == stream[i]
    IN IF x # Null
       THEN <<[after |-> IF x = prev THEN Null ELSE prev, node |-> x]>> \o CallsFrom(stream, i + 1, x)
       ELSE IF stream[i + 1] = Null THEN <<>> ELSE CallsFrom(stream, i + 2, stream[i + 1])

Load(stream) == IF stream[1] = Null THEN <<>> ELSE CallsFrom(stream, 2, stream[1])
=============================================================================
