SPECIFICATION Spec
CONSTANTS
    N = 8
    Tags = 3
    Byte <- MCByte
    WriteLens = {}
    ReadLens = {}
    AppWrites = TRUE
    HostSends = FALSE
PROPERTY OnlyWrittenBytesSent
