CONSTANTS
    Browsers = {b1}
    Slots = {x1, x2, x3}
    MaxClicks = 3
    Data = {data}
    FirstIds = {1, 999}
    Group = 1000
    Texts <- MCTexts
    Null = null
SPECIFICATION Spec
SYMMETRY Symmetry
INVARIANTS TypeOK RequestsAsChosen TableNeverOlder PageForward
PROPERTY ShownIsOwn
CHECK_DEADLOCK FALSE
