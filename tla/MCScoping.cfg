SPECIFICATION Spec
CONSTANTS
    a = a
    b = b
    Names <- MCNames
    Functions = {"f"}
    Arities = {0, 1}
    MaxAt = 5
SYMMETRY Symmetry
INVARIANTS
    LocalToOne
    CallsAgree
PROPERTIES
    ImplementsEnvironment
