CONSTANTS
    Browsers = {b1, b2}
    Slots = {x1, x2}
    MaxClicks = 3
    Null = null
SPECIFICATION Spec
SYMMETRY Symmetry
INVARIANT TypeOK
PROPERTIES RequestsHitTheirBook GoneStaysGone
CHECK_DEADLOCK FALSE
