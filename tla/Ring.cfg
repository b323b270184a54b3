SPECIFICATION Spec
CONSTANTS
    Value = {v1, v2}
    Empty = Empty
    InitCapacity = 2
    MaxCapacity = 4
CHECK_DEADLOCK FALSE
INVARIANT ElementLifetime
INVARIANT StorageOwned
INVARIANT WindowsExact
PROPERTY KeepsElements
PROPERTY ImplementsDeque
