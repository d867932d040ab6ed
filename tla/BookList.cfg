CONSTANTS
    Blank = blank
    SeedData = seed
    Data = {blank, seed, other}
    MaxId = 4
SPECIFICATION Spec
INVARIANTS TypeOK IdsIncreasing
PROPERTY IsCatalog
