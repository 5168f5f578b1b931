SPECIFICATION FairSpec
CONSTANTS
    Node = {n1, n2}
    App = {a1}
    NoNode = NoNode
    NoApp = NoApp
    MaxRows = 4
    MaxReplicas = 1
    MaxOps = 2
    MaxFaults = 2
    Faults = {"lose", "stop", "abort", "abandon"}
INVARIANTS
    OneHome
PROPERTIES
    Served
    Emptied
    PendingEnds
