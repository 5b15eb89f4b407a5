CONSTANTS
    Hookers = {t1, t2}
    Callers = {}
    Funcs = {p, q}
    Hubs = {1, 2, 3}
    TrampoDelay = 0
    EnterDelay = 1
    HubDelay = 1
    TrampoPatience = 0
    ProxyPatience = 1
    Faults = {}
    MaxTime = 1
    MaxOps = 4
SPECIFICATION Spec
INVARIANT SwitchReadIsSafe
CHECK_DEADLOCK FALSE
