SPECIFICATION Spec
CONSTANTS
    SharedLed = TRUE
    QueueSize = 3
    AlarmPool = 2
    MaxReleases = 2
    MaxTime = 3
INVARIANTS
    BlinkingStops
    LedRestored
PROPERTIES
    KeepsBlinking
