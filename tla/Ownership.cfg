CONSTANTS
    Kinds = {"vector", "pqueue", "list", "btree", "hashmap", "lru", "objpool", "handle_pool"}
SPECIFICATION Spec
INVARIANT NothingLost
INVARIANT FreesOnlyItsOwn
CHECK_DEADLOCK FALSE
