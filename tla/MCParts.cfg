CONSTANTS
    Threads = {t1, t2}
    CacheSize = 2
    MaxMaps = 1
    Libs = {x, y}
    Hooks = {"do_dlopen", "dlopen", "openat"}
    LoaderLoads = 2
    MaxAdds = 2
    Soinfos = {a, b, c}
    Libdl = Libdl
    Null = Null
    Removers = {"r", "s"}
    ListLoads = 4
    MaxRemovals = 2
    TracedLibs = {x}
    Hooker = stringHooker
    Tracers = {jnitrace, stringHooker}
    MaxOps = 3
    MaxCalls = 2
    Ranges = {1, 2, 3}
    Perm <- MCPerm
    MaxHides = 2
    MaxWrites = 2
SPECIFICATION PartsSpec
SYMMETRY ThreadSymmetry
INVARIANTS
    StacksArePrivate FramesAreMine
    EveryLoadIsTold
    ListIsWhole
    
    HidingIsClean
PROPERTIES CallsAreSafe
CHECK_DEADLOCK FALSE
