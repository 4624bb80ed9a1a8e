\* Two workers, two clients, three tasks, in either kind of pool; or three elements sent
\* by the clients to the workers directly.
CONSTANTS
    Workers = {w1, w2}
    Owner = owner
    Other = other
    Clients = {owner, other}
    a = a
    c = c
    d = d
    Tasks = {a, c, d}
    By <- Submitters
    Exit = Exit
    MaxElements = 3
SPECIFICATION SpecMC
CHECK_DEADLOCK FALSE
INVARIANTS PoolSound OwnersTasksRun
PROPERTIES EverybodyServed DestructorReturns
