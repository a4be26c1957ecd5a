SPECIFICATION FairSpec
CONSTANTS
    Modulus = 16
    MaxLag = 1
INVARIANTS TypeOK NeverLate
PROPERTIES NeverEarly Returns
