\* Blocks of 2 source packets (resize to 1 or 3 at any time), 2 repair
\* packets so that their order shows, 2-bit block numbers and seqnums so
\* that both wrap, pools that may run dry and an encoder whose begin() may
\* fail to allocate.
CONSTANTS
    NSource = 2
    NRepair = 2
    SblenChoices = {1, 3}
    BlkMod = 4
    SnMod = 4
    MaxWrites = 6
    AllocCanFail = TRUE
    BeginCanFail = TRUE
SPECIFICATION Spec
INVARIANTS
    TypeOK
    BlockShape
    RepairAfterSources
PROPERTY ImplementsFecStream
