SPECIFICATION UnitySpec
CONSTANTS
    IntBytes = 2
    WideBytes = 3
    MaxTests = 2
    Tests <- MCTests
    Payloads <- MCPayloads
INVARIANTS
    VerdictExact
    MessageTellsApart
    PayloadComesBack
CHECK_DEADLOCK FALSE
