SPECIFICATION CallsFairSpec
CONSTANTS
    N = 8
    Tags = 1
    Byte <- MCByte
    WriteLens = {}
    ReadLens = {}
    AppWrites = TRUE
    HostSends = TRUE
INVARIANTS MaskRestored PollsHold
PROPERTIES CallsAtomic TxProgress
