\* Blocks of 2 source packets (resize to 1 or 3 at any time), 1 repair packet,
\* 2-bit block numbers and seqnums so both wrap, pools that may run dry.
CONSTANTS
    NSource = 2
    NRepair = 1
    SblenChoices = {1, 3}
    BlkMod = 4
    SnMod = 4
    MaxWrites = 7
    AllocCanFail = TRUE
    BeginCanFail = TRUE
SPECIFICATION Spec
INVARIANTS
    RepairFromFullBlock
