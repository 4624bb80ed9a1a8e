\* Three threads over two slots, or two threads over two nodes of an allocator, or two
\* over a pool of one block and one to allocate; a stalled allocation may be
\* overtaken by two others before the tag would wrap.
CONSTANTS
    Threads = {t1, t2, t3}
    Count = 2
    IndexMod = 4
    TagMod = 3
    CacheThreads = {t1, t2}
    PoolThreads = {t1, t2}
    InitialBlocks = 1
    AllBlocks = {1, 2}
    MaxOvertake = 2
    ClientData = {0, 3}
SPECIFICATION SpecMC
INVARIANTS TypeOK Exclusive FreeListIntact NoABA CacheSound BlocksSound
PROPERTIES ImplementsPool LockFree
