CONSTANTS
    Id = {x, y, z}
    MaxNest = 2
    MaxParams = 1
    MaxDecls = 6
SYMMETRY Identifiers
SPECIFICATION Spec
INVARIANTS InStep ReadsLastDeclared AssignsLastDeclared CallsLastDeclared LocatesDeclared DeclaredOnce
