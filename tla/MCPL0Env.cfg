CONSTANTS
    Name <- MCName
    Last <- MCLast
    Data <- MCData
    MaxEntries = 4
    MaxDepth = 2
SPECIFICATION Spec
INVARIANTS TypeOK TagsCutTable LexicalScoping
PROPERTY ImplementsScopeStack
