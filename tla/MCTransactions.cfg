SPECIFICATION Spec
CONSTANTS
    Node = {n1, n2}
    Caller = {c1}
    NoNode = NoNode
    NoSession = NoSession
    MaxRows = 4
    MaxReplicas = 1
    MaxTx = 4
    MaxScales = 1
    MaxLate = 1
SYMMETRY NodeSymmetry
CONSTRAINT OneDisturbance
INVARIANTS
    TypeOK
    AloneExact
PROPERTIES
    KeptAlone
    HeardStaysUp
