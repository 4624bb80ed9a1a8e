\* One consumer, three blocks of two and an index that starts with two entries, so that it
\* has to grow; the producer goes on after a bulk that failed and was undone.  Small
\* enough for TLC to show the shortest history that ends in a misplaced element.
\* The run ends when every element has been sent and taken.
SPECIFICATION Spec
CONSTANTS
    Consumers = {c1}
    Blocks = {1, 2, 3}
    BlockSize = 2
    IndexMod = 8
    InitialIndex = 2
    MaxSubqueue = 100
    MaxCount = 3
    BulkCounts = {3}
    MaxElements = 6
    Obstinate = TRUE
CHECK_DEADLOCK FALSE
INVARIANTS ExplicitInOrder
