SPECIFICATION Spec
CONSTANTS
    Byte = {0, 1, 2, 3}
    CodeBytes = 2
    ValidCodes <- MCValidCodes
    Lines <- MCLines
    NoCode = none
    DevCode <- MCDevCode
    Development = FALSE
    ResetPersistent = FALSE
    Commands = {"ic_set", "join", "factory_reset", "reboot", "ieee", "bad"}
    Patient = TRUE
    NBuffers = 2
    WantSlots = 1
    QueueSize = 3
    MaxBacklog = 1
    MaxCommands = 3
    MaxHolds = 1
    MaxLeaves = 1
INVARIANTS
    TypeOK
    BuffersConserved
    FlagExact
    NoReportBeforeJoin
    JoinsWhenTold
    IcAsTyped
PROPERTIES
    KeepsReporting
    CommandAnswered
