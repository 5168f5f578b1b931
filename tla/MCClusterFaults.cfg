SPECIFICATION Spec
CONSTANTS
    Node = {n1, n2}
    App = {a1, a2}
    NoNode = NoNode
    NoApp = NoApp
    MaxRows = 4
    MaxReplicas = 2
    MaxOps = 2
    MaxFaults = 1
    Faults = {"lose", "late", "abort", "abandon", "stop", "crash", "docker"}
SYMMETRY NodeAppSymmetry
INVARIANTS
    Inv
    CondemnedOnly
    NoPhantom
    ReconcilePromise
PROPERTIES
    RemovalSafe
    DeadStayDead
