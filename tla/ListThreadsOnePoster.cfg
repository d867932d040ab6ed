\* POSTs one after the other, each with one reader at its side.
CONSTANTS
    Threads = {t1, t2, t3}
    Seed = seed
    Null = null
    Ops = {"add", "change", "remove", "list"}
    InFlight = 2
    Posters = 1
SPECIFICATION FairSpec
INVARIANTS TypeOK BooksKept PostsAnswered ListedInOrder
PROPERTIES IsCatalog Terminates
CHECK_DEADLOCK FALSE
