CONSTANTS
    Threads = {t1, t2}
    Places <- MCPlaces
    PageSize = 4
    Size = 2
    Delay = 1
    Windows <- MCWindows
    MaxPages = 2
    MaxTime = 5
SPECIFICATION Spec
INVARIANTS OneOwner NeverAborts
PROPERTY PoolSpec
SYMMETRY ThreadSymmetry
