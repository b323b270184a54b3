CONSTANTS
    Value = {v1, v2}
    Empty = Empty
    Capacity = 2
    Word = 4
    Policies = {FALSE, TRUE}
SPECIFICATION FairSpec
INVARIANT NoDataRace
INVARIANT ElementLifetime
PROPERTY RoomIsStable
PROPERTY ImplementsFifo
PROPERTY EveryElementLeaves
