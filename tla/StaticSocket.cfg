CONSTANT N = 2
SPECIFICATION FairSpec
INVARIANTS TypeOK AnswersForward
PROPERTY ReadAnswered
CHECK_DEADLOCK FALSE
