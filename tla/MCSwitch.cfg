CONSTANTS
    Hookers = {t1, t2}
    Callers = {c1}
    Funcs = {p, q}
    Hubs = {1, 2, 3}
    TrampoDelay = 0
    EnterDelay = 1
    HubDelay = 1
    TrampoPatience = 0
    ProxyPatience = 1
    Faults = {"inst"}
    MaxTime = 3
    MaxOps = 4
SPECIFICATION Spec
SYMMETRY SwitchSymmetry
INVARIANTS CallersAreSafe
CHECK_DEADLOCK FALSE
