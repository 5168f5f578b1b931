SPECIFICATION UsersSpec
CONSTANTS
    User = {u, v}
    Name = {x}
    Image = {i1, i2}
    Id = {a, b}
    None = None
    MaxReplicas = 1
    MaxCommands = 3
    MaxFaults = 1
    Text <- MCText
    AgentTail = 2
    DefaultTail = 2
    MaxTail = 3
    MaxBody = 6
    MaxWrites = 3
INVARIANTS
    TypeOK
    NamesUnique
    ApplyMeansIt
    Shown
    DecodeExact
    LogsTail
CHECK_DEADLOCK FALSE
