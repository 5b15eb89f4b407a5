CONSTANTS
    m = m
    u = u
    v = v
    f = f
    Threads = {m, u, v}
    Main = m
    Funcs = {f}
    Stubs = {1, 2}
    Budgets <- MCBudgets
    StrSize <- MCStrSize
    StringsStep = 3
    StringsMax = 6
    HookSize = 2
    UnhookSize = 1
    RecordsStep = 3
    RecordsMax = 6
    LineSize = 2
    OutputStep = 3
    OutputMax = 6
    IdxMax = 9
SPECIFICATION FairSpec
INVARIANTS RecordsResolve OutputIsWhole LogReplays ListMatchesHooks OneHookPerFunction
PROPERTIES InitIsOnce CallsReturn
CHECK_DEADLOCK FALSE
