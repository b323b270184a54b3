SPECIFICATION LruSpec
CONSTANTS
    Key = {0, 1, 2, 3}
    HashRange = 3
    CacheValue = {v1, v2}
    NoObject = NoObject
    Capacity = 3
    Buckets = 2
INVARIANTS EntriesAccounted ActsAsLru
