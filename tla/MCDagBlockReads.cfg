CONSTANTS
    x = x
    y = y
    z = z
    Name <- MCTwo
    Array = {"A"}
    Zero = Zero
    Op = {"+"}
    Shapes <- ReadShapes
SPECIFICATION Spec
INVARIANT SameBehaviour
