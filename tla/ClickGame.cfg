CONSTANTS
    ExplTime = 3
    ButtonTime = 6
    Lifetimes = {2, 5, 7}
    MaxDelta = 8
    MaxClicks = 4
SPECIFICATION FairSpec
INVARIANTS TypeOK OneLoop HitsCounted
PROPERTY ButtonComesBack
