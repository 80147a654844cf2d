SPECIFICATION Spec
CONSTANTS
    Nodes = {n1, n2, n3}
    Virtual = {v1, v2}
    MaxHash = 5
    NoNode = NoNode
    KeyError = KeyError
    MaxPlaces = 2
SYMMETRY Symmetric
PROPERTY MovesLittle
CHECK_DEADLOCK FALSE
