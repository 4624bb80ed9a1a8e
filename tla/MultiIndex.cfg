SPECIFICATION Spec
VIEW View
CHECK_DEADLOCK FALSE
CONSTANTS
    Nodes = {n1, n2, n3, n4, n5, n6}
    Header = Header
    Null = Null
    CopyEnd = CopyEnd
    BucketSizes <- Sizes
    MaxFill = 4
    Layouts <- Containers
INVARIANTS Consistent AnswersAgree RollbacksSound
PROPERTIES FailuresContained OrdersKept
