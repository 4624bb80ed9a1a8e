\* The calls of Program: nodes return to the pool and come back while a
\* stalled push still holds what it read from them.
CONSTANTS
    Threads = {t1, t2}
    First = t1
    Second = t2
    Nodes = {n1, n2, n3}
    Recycled = n1
    Unused = n3
    TagMod = 65536
    MaxUses = 2
    None = None
    Wild = Wild
SPECIFICATION ProgramSpec
CHECK_DEADLOCK FALSE
INVARIANTS OnePlace
