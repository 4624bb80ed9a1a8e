\* undo() under a uniqueness constraint.
CONSTANTS
    Values = {1, 2}
    Unique = TRUE
    Revisions = {0}
    MaxId = 2
    MaxDepth = 1
    MaxRevision = 1
SPECIFICATION Spec
CHECK_DEADLOCK FALSE
PROPERTIES UndoRestores
