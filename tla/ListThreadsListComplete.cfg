\* One POST and one reader at a time: is the list that is sent complete?
CONSTANTS
    Threads = {t1, t2, t3}
    Seed = seed
    Null = null
    Ops = {"add", "change", "remove", "list"}
    InFlight = 2
    Posters = 1
SPECIFICATION Spec
INVARIANT ListComplete
CHECK_DEADLOCK FALSE
