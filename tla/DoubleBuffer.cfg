CONSTANTS
    BlockSize = 3
    MaxBlocks = 4
SPECIFICATION BufferSpec
INVARIANT WholeUnlessOverrun
