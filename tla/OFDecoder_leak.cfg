\* Reed-Solomon and LDPC-Staircase blocks of 2 source and 2 repair symbols,
\* a buffer pool that may run dry, a caller that sets and repairs symbols in
\* any interleaving and may end a block early, and a decoder that may be
\* destroyed mid-block.
CONSTANTS
    SBLEN = 2
    RBLEN = 2
    Codecs = {"RS", "LDPC"}
    MaxOverhead = 1
    PoolCanFail = TRUE
    Batch = FALSE
    MaxBlocks = 2
SPECIFICATION Spec
INVARIANT NoLeak
