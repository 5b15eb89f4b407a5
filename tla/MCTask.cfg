CONSTANTS
    Users = {u1, u2}
    Loaders = {l1}
    Libs = {a, b}
    MaxTasks = 2
    Faults = {"symbol", "monitor", "switch"}
SPECIFICATION FairSpec
INVARIANTS CountIsRight TasksAreSound
PROPERTY QueuedIsServed
CHECK_DEADLOCK FALSE
