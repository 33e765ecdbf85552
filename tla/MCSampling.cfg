SPECIFICATION SamplingSpec
CONSTANTS
    CounterSize = 8
    Period = 4
    MaxLate = 1
    Calib <- MCCalib
    Readings <- MCReadings
    ConvTime = 2
    SleepTime = 2
    QueueSize = 2
INVARIANTS
    NeverSilent
    CalibrationComplete
    FreshReading
PROPERTIES
    NeverEarly
    KeepsMeasuring
