SPECIFICATION FairSpec
CONSTANTS
    Node = {n1, n2, n3}
    NumSlots = 2
    Word = 8
    MaxDelay = 5
INVARIANT ListsSound
PROPERTY FiresOnTime
PROPERTY TickEnds
