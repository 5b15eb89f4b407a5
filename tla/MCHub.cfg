CONSTANTS
    Threads = {t1}
    Hubs = {h1, h2}
    Funcs = {p,q,r}
    MaxFrames = 3
    MaxDepth = 5
    MaxEdits = 4
SPECIFICATION Spec
SYMMETRY HubSymmetry
INVARIANTS ChainsAreSound EveryHookRuns FramesMatchCalls NoUnwantedReentry
