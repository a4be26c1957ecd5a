SPECIFICATION FairSpec
CONSTANTS
    N = 12
    Tags = 3
    Byte <- MCByte
    WriteLens = {}
    ReadLens = {0, 5, 12}
    AppWrites = FALSE
    HostSends = TRUE
INVARIANTS OutTransferMatchesRing DmaRegionsReserved NoRxStall
PROPERTIES RxStreamSpec RxReopens
