SPECIFICATION Spec
CONSTANTS
    N = 12
    Tags = 2
    Byte <- MCByte
    WriteLens = {0, 7}
    ReadLens = {}
    AppWrites = TRUE
    HostSends = FALSE
INVARIANTS TypeOK InTransferMatchesRing DmaRegionsReserved NoTxStall
PROPERTY TxStreamSpec
