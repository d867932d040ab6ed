CONSTANTS
    Conns = {c1, c2}
    HeadLines = 2
    BodyParts = 2
SPECIFICATION FairSpec
INVARIANTS TypeOK OutcomeKnown PromptPostsApplied
 
CHECK_DEADLOCK FALSE
