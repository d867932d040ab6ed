\* Two POSTs at a time: does an acknowledged book stay listed?
CONSTANTS
    Threads = {t1, t2, t3}
    Seed = seed
    Null = null
    Ops = {"add", "change", "remove", "list"}
    InFlight = 2
    Posters = 2
SPECIFICATION Spec
INVARIANT BooksKept
CHECK_DEADLOCK FALSE
