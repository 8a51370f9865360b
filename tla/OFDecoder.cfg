\* Reed-Solomon and LDPC-Staircase blocks of 3 source and 3 repair symbols
\* (LDPC may need up to two symbols beyond sblen), three blocks, a buffer
\* pool that may run dry, a caller that sets every received symbol before
\* repairing (batch) and may end a block early, and a decoder that may be
\* destroyed mid-block.
CONSTANTS
    SBLEN = 3
    RBLEN = 3
    Codecs = {"RS", "LDPC"}
    MaxOverhead = 2
    PoolCanFail = TRUE
    Batch = TRUE
    MaxBlocks = 3
SPECIFICATION Spec
INVARIANTS
    TypeOK
    NoPanic
    NoLeakReedSolomon
    RepairSucceedsWhenDecodable
