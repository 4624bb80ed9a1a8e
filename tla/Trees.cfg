\* Two threads, two operations each, down to the reserved key Inf1, which bstree does not
\* have; no call is under way at the end.
CONSTANTS
    Threads = {t1, t2}
    Keys = {1, 2, 8}
    Inf1 = 8
    Inf2 = 9
    MaxOps = 2
    None = None
SPECIFICATION SpecMC
CHECK_DEADLOCK FALSE
INVARIANTS TreesSound
PROPERTIES ImplementsSet FlagProtectsChild CallsAnswered
