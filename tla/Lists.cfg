SPECIFICATION Spec
CONSTANTS
    Value = {v1, v2}
    NoItem = NoItem
    NodeCapacity = 4
    HeapNodes = 5
INVARIANTS NodesAccounted LinksAgree CallsByPosition
