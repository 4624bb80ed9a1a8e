\* Three ids under two sessions, values unique: exceptions may leave modify(),
\* emplace() and undo().
CONSTANTS
    Values = {1, 2, 3}
    Unique = TRUE
    Revisions <- NegativeToo
    MaxId = 3
    MaxDepth = 2
    MaxRevision = 3
SPECIFICATION Spec
CHECK_DEADLOCK FALSE
INVARIANTS LogSound SquashAssertions
PROPERTIES ImplementsUndoLog UndefinedOnlyAfterThrow
