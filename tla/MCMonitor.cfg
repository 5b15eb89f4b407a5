CONSTANTS
    Threads = {t1, t2, t3}
    InCtor = {t3}
    Modes = {"SHARED", "UNIQUE"}
    Faults = {"init", "arch", "patch", "eventfd", "thread"}
    MaxOps = 4
SPECIFICATION FairSpec
INVARIANTS OneMonitor AcceptedIsMonitored
PROPERTY OpsReturn
CHECK_DEADLOCK FALSE
