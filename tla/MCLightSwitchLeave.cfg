SPECIFICATION Safe
CONSTANTS
    NBuffers = 1
    WantSlots = 2
    QueueSize = 1
    MaxPresses = 0
    MaxLeaves = 1
INVARIANTS
    LedMeansBulb
