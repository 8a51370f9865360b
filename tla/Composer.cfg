\* Chains of up to three composers with payload ids of 2 or 3 bytes,
\* buffers of 0 to 12 bytes, the alignments 1 and 4, and repair packets of
\* short blocks and of blocks whose esi range ends just below 0xFFFF.
CONSTANTS
    Sizes = {2, 3}
    MaxDepth = 3
    Capacities = {0, 1, 2, 3, 4, 5, 6, 7, 8, 9, 10, 11, 12}
    Alignments = {1, 4}
    PayloadSizes = {0, 2}
    TruncSizes = {1, 3}
    BlockLengths = {1, 65532}
    RepairCounts = {1, 3}
SPECIFICATION Spec
INVARIANTS
    LayoutMatchesReference
    RepairIdsOnWire
