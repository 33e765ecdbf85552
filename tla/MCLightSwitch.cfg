SPECIFICATION Spec
CONSTANTS
    NBuffers = 1
    WantSlots = 2
    QueueSize = 1
    MaxPresses = 3
    MaxLeaves = 1
INVARIANTS
    TypeOK
    ShortPressSends
    BuffersConserved
    LongPollBacked
PROPERTIES
    DimmingEnds
