CONSTANTS
    x = x
    y = y
    t1 = t1
    t2 = t2
    t3 = t3
    t4 = t4
    Imm = Imm
    Junk = Junk
    Free = Free
    Var <- MCVar
    Temp <- MCTemp
    Locals = 2
    Place <- MCPlace
    SelfAssign = FALSE
    ComputedBounds = FALSE
    MaxArgs = 2
    MaxSpills = 2
SPECIFICATION Spec
SYMMETRY MCSymmetry
INVARIANTS TypeOK OneRegisterPerName Coherent VariablesInMemory TemporariesApart EspMatchesDist OperandsRight
