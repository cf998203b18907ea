CONSTANTS
    x = x
    y = y
    z = z
    Name <- MCThree
    Array = {"A"}
    Zero = Zero
    Op = {"+"}
    Shapes <- MCShapes
SPECIFICATION Spec
SYMMETRY MCSymmetry
INVARIANTS OneNodePerName CreationOrder ReleaseLeafIdle InOutInOrder SameUnlessBoth
