SPECIFICATION Spec
CONSTANTS
    Byte = {0, 1, 2}
    AddrBytes = 2
    CodeBytes = 1
    NoCode = none
    DevAddr <- MCDevAddr
    DevCode <- MCDevCode
    Pairs <- MCPairs
    Development = FALSE
    Commands = {"ic_add", "factory_reset", "reopen"}
    Patient = TRUE
    QueueSize = 2
    AlarmPool = 2
    MaxCommands = 3
    MaxPresses = 1
    MaxHolds = 1
    MaxSignals = 1
    MaxPower = 0
INVARIANTS
    TypeOK
    LedBacked
    KeysAsAsked
PROPERTIES
    ImplementsKeyRegistry
    CommandAnswered
    LedGoesOff
    NetworkOpens
\* The coordinator stops when the bounded operator and network have nothing left to do.
CHECK_DEADLOCK FALSE
