CONSTANTS
    fa = fa
    fb = fb
    Callers = {c1}
    Enters = {100, 164}
    EnterLen = 64
    New <- MCNew
    Foreign = 500
    Worlds <- MCWorlds
    PageSize = 16
    RangeLow = 22
    RangeHigh = 26
    GapsCap = 2
    OutPlaces = {16}
SPECIFICATION FairSpec
INVARIANTS PatchesAreSound CallersStayOnCode
PROPERTIES KeepsOriginal HookReturns
CHECK_DEADLOCK FALSE
