CONSTANTS
    Fn <- MCFn
    Main = "main"
    Parent <- MCParent
    Scope <- MCScope
    Level <- MCLevel
    OuterRefs = FALSE
    Wild = Wild
    MaxFrames = 5
SPECIFICATION Spec
INVARIANTS TypeOK DisplayRight ReferencesAlive
PROPERTY ImplementsStaticLinks
