SPECIFICATION Spec
CONSTANTS
    N = 6
    Tags = 3
    Byte <- MCByte
    Owners <- MCCpuOwners
    StoreLens = {3, 5}
    ReadLens = {6}
PROPERTY BulkCallsCount
