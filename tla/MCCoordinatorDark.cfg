SPECIFICATION Safe
CONSTANTS
    Byte = {0, 1, 2}
    AddrBytes = 2
    CodeBytes = 2
    NoCode = none
    DevAddr <- MCDevAddr
    DevCode <- MCDevCode
    Pairs <- MCPairs
    Development = FALSE
    Commands = {"ic_add"}
    Patient = TRUE
    QueueSize = 2
    AlarmPool = 3
    MaxCommands = 2
    MaxPresses = 0
    MaxHolds = 0
    MaxSignals = 0
    MaxPower = 0
INVARIANTS
    LedFollowsPeriod
\* The coordinator stops when the bounded operator and network have nothing left to do.
CHECK_DEADLOCK FALSE
