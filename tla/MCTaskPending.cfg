CONSTANTS
    Users = {u1}
    Loaders = {l1}
    Libs = {a}
    MaxTasks = 1
    Faults = {}
SPECIFICATION FairSpec
PROPERTY PendingIsHandled
CHECK_DEADLOCK FALSE
