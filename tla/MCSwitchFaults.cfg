CONSTANTS
    Hookers = {t1, t2}
    Callers = {}
    Funcs = {p, q}
    Hubs = {1, 2, 3}
    TrampoDelay = 0
    EnterDelay = 0
    HubDelay = 0
    TrampoPatience = 0
    ProxyPatience = 0
    Faults = {"inst", "create", "proxy", "mismatch"}
    MaxTime = 1
    MaxOps = 3
SPECIFICATION FairSpec
INVARIANTS PatchedIffHooked NoHubIsLost
PROPERTIES RegistrySpec OpsReturn
CHECK_DEADLOCK FALSE
