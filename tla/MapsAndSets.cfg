SPECIFICATION Spec
CONSTANTS
    Key = {0, 1, 2, 3, 4}
    Value = {v1, v2}
    Default = v1
    Rewritten = {2}
    NoItem = NoItem
    Damaged = Damaged
    Capacity = 4
    MaxId = 3
    MaxLost = 1
INVARIANTS MemoryAccounted SearchFindsAll
PROPERTY ImplementsMap
