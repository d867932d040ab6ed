CONSTANTS
    Clients = {c1, c2}
    Numbers = {1, 2}
    NaN = nan
    Quit = quit
    Bad = bad
    MaxLength = 2
    MaxLines = 2
SPECIFICATION FairSpec
INVARIANTS TypeOK AnswersMatch QuitIsEchoed
PROPERTIES ServedIsAnswered EndFreesAll
CHECK_DEADLOCK FALSE
