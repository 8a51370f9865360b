\* Reed-Solomon blocks of 2 source and 2 repair symbols, buffer pool that may
\* run dry, caller that sets and repairs symbols in any interleaving
\* (incremental reader).
CONSTANTS
    SBLEN = 2
    RBLEN = 2
    Codecs = {"RS"}
    MaxOverhead = 0
    PoolCanFail = TRUE
    Batch = FALSE
    MaxBlocks = 2
SPECIFICATION Spec
INVARIANT NoPanic
