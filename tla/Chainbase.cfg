\* Two indices, two session objects, undo stacks of two, and a process that dies twice;
\* or one reading process, two writing threads and two mutexes, where processes die twice
\* and the count of locks wraps.
\* Calls without a timeout may wait for a dead process for ever.
CONSTANTS
    N = 2
    Values = {a, b}
    Handles = {h1, h2}
    Revisions = {0, 1}
    MaxDepth = 2
    MaxRevision = 2
    MaxCrashes = 2
    Readers = {r1}
    Writers = {w1, w2}
    NumLocks = 2
    CounterMod = 3
    SharedMod = 3
    MaxDeaths = 2
SPECIFICATION SpecMC
CHECK_DEADLOCK FALSE
INVARIANTS InStep UndoAllRecovers LocksSound
PROPERTIES ImplementsUndoLog DeadHoldersPassed
