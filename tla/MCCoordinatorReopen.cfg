SPECIFICATION Safe
CONSTANTS
    Byte = {0, 1, 2}
    AddrBytes = 2
    CodeBytes = 2
    NoCode = none
    DevAddr <- MCDevAddr
    DevCode <- MCDevCode
    Pairs <- MCPairs
    Development = TRUE
    Commands = {"bad", "factory_reset", "reopen"}
    Patient = FALSE
    QueueSize = 2
    AlarmPool = 2
    MaxCommands = 4
    MaxPresses = 0
    MaxHolds = 1
    MaxSignals = 3
    MaxPower = 1
INVARIANTS
    OneAlarm
    LedFollowsPeriod
    NoAbort
    DevKeyWhenOpen
\* The coordinator stops when the bounded operator and network have nothing left to do.
CHECK_DEADLOCK FALSE
