CONSTANTS
    Producer = {p1, p2, p3}
    Capacity = 2
    MaxSpins = 1
    MaxClaims = 4
    None = None
SPECIFICATION FairSpec
INVARIANT CellExclusive
INVARIANT DeliversInClaimOrder
INVARIANT NoLeak
PROPERTY AnswersTruthful
PROPERTY DeliveredUnlessAbandoned
