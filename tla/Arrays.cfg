SPECIFICATION ArraySpec
CONSTANTS
    Element = {1, 2, 3}
    Dead = Dead
    Garbage = Garbage
    Capacities = {1, 3}
    MaxCapacity = 6
    Copies = 11
INVARIANTS BlocksOwned ActsAsSequence ActsAsPriorityQueue
