CONSTANTS
    Threads = {t1, t2}
    Signums <- SectionSignums
    N = 1
    MaxSections = 2
    MaxTotal = 3
    MaxDepth = 2
SPECIFICATION FairSpec
INVARIANTS FaultsAreCaught JumpsAreSound PreviousIsTheirs
PROPERTY ProtectEnds
CHECK_DEADLOCK FALSE
