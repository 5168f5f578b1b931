SPECIFICATION Spec
CONSTANTS
    Node = {n1, n2}
    Caller = {}
    NoNode = NoNode
    NoSession = NoSession
    MaxRows = 6
    MaxReplicas = 2
    MaxTx = 3
    MaxScales = 1
    MaxLate = 0
SYMMETRY NodeSymmetry
PROPERTIES
    TrimKeeps
