SPECIFICATION MapSpec
CONSTANTS
    Key = {0, 1, 2}
    HashRange = 2
    Value = {v1, v2}
    NoItem = NoItem
    Buckets = {2, 3}
    MaxBuckets = 6
INVARIANTS ActsAsMap RehashKeepsEntries GrowthKeepsRoom TablesReleased
CHECK_DEADLOCK FALSE
