---------------------------- MODULE MultiIndexMC ----------------------------
(* Instances of MultiIndex. Nodes differ in nothing but their names, so two  *)
(* states are one if they differ only by a renaming: View names each node by *)
(* its place in the first index.                                             *)
EXTENDS MultiIndex

OU == [kind |-> "ordered", unique |-> TRUE]
ON == [kind |-> "ordered", unique |-> FALSE]
HU == [kind |-> "hashed", unique |-> TRUE]
HN == [kind |-> "hashed", unique |-> FALSE]
SQ == [kind |-> "sequenced", unique |-> FALSE]
RA == [kind |-> "random", unique |-> FALSE]

Sizes == <<2, 4, 8>>
Of(indices, keys, limit) == [indices |-> indices, keys |-> keys, limit |-> limit]
\* Every kind alone, then pairs, in which one index takes what the other refuses.
Containers ==
    {Of(<<OU>>, 0 .. 3, 4), Of(<<ON>>, {0, 1}, 6), Of(<<HU>>, 0 .. 2, 4), Of(<<HN>>, {0, 2}, 5),
     Of(<<SQ>>, 0 .. 2, 4), Of(<<RA>>, {0, 1}, 5),
     Of(<<OU, RA>>, {0, 1}, 3), Of(<<SQ, OU>>, {0, 1}, 3), Of(<<HU, ON>>, {0, 2}, 3), Of(<<HN, OU>>, {0, 1}, 3),
     Of(<<SQ, RA>>, {0}, 4), Of(<<RA, ON>>, {0}, 4)}

View ==
    LET seq == order[1]
        Name(x) == IF x \in DOMAIN val THEN PlaceOf(seq, x) ELSE IF x = Header THEN 0 ELSE x
        Named(links) == [i \in 0 .. count |-> Name(links[IF i = 0 THEN Header ELSE seq[i]])]
        Shape(j) ==
            CASE Kind(j) = "ordered" ->
                   <<Named(ix[j].parent), Named(ix[j].red), Named(ix[j].size),
                     Named(ix[j].child["left"]), Named(ix[j].child["right"])>>
              [] Kind(j) = "hashed" ->
                   <<Named(ix[j].prior), Named(ix[j].next), ix[j].maxLoad, ix[j].buckets,
                     [b \in 0 .. ix[j].buckets |-> Name(ix[j].prior[b])]>>
              [] Kind(j) = "sequenced" -> <<Named(ix[j].prior), Named(ix[j].next)>>
              [] Kind(j) = "random" -> <<[i \in 1 .. Len(ix[j].ptrs) |-> Name(ix[j].ptrs[i])],
                                         Named(ix[j].up), ix[j].capacity>>
    IN <<layout, [j \in Indices |-> Shape(j)], [i \in 1 .. count |-> val[seq[i]]], count, report>>
=============================================================================
