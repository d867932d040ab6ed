CONSTANTS
    Threads = {t1, t2, t3}
    Earlier = earlier
    MaxId = 4
    Named = {1, 2}
    DbMax = 2
    MaxRestarts = 1
SPECIFICATION FairSpec
INVARIANTS TypeOK DoneIsDurable LeaksOnlyForNoBook
PROPERTIES NeverReborn RefusedOnlyInCompany IsCatalog Terminates
CHECK_DEADLOCK FALSE
