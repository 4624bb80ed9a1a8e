\* Two threads and three nodes, each allocated once; or two nodes, one of which comes
\* back from the pool.
CONSTANTS
    Threads = {t1, t2}
    First = t1
    Second = t2
    Nodes = {n1, n2, n3}
    Recycled = n1
    Unused = n3
    TagMod = 65536
    MaxUses = 2
    None = None
    Wild = Wild
SPECIFICATION FreshSpec
CHECK_DEADLOCK FALSE
INVARIANTS DequeSound
PROPERTIES NoABA ImplementsDeque LockFree
