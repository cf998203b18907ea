CONSTANTS
    Fn <- MCFn
    Main = "main"
    Parent <- MCParent
    Scope <- MCScope
    Level <- MCLevel
    OuterRefs = TRUE
    Wild = Wild
    MaxFrames = 4
SPECIFICATION Spec
INVARIANT ReferencesAlive
