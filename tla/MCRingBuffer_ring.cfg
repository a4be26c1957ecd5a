SPECIFICATION Spec
CONSTANTS
    N = 10
    Tags = 2
    Byte <- MCByte
    Owners <- MCOwners
    StoreLens = {4, 10}
    ReadLens = {4, 10}
INVARIANTS TypeOK RingHoldsStream DmaRegionReserved
PROPERTY StreamSpec
