CONSTANTS
    Kinds = {"objpool", "handle"}
    Word = 32
    Regions <- MCRegions
    Requests <- MCRequests
    MaxOther = 1
    Capacity = 2
    ElemBytes = 4
    StackBytes = 4
    GenBytes = 2
    MaxGen = 3
    MaxUses = 5
SPECIFICATION Spec
INVARIANT ArenaSound
INVARIANT FreeStackSound
INVARIANT StaleRefused
INVARIANT ObjectsAccounted
