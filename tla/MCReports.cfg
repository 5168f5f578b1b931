SPECIFICATION ReportSpec
CONSTANTS
    Text <- MCText
    AgentTail = 2
    DefaultTail = 2
    MaxTail = 3
    MaxBody = 4
    MaxWrites = 2
INVARIANTS
    TextOnly
CHECK_DEADLOCK FALSE
