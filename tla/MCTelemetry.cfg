SPECIFICATION TelSpec
CONSTANTS
    Calib <- MCCalib
    Raws <- MCRaws
    Lengths = {0, 32, 33, 255}
    MaxAir = 2
INVARIANTS
    ReportsAccepted
    OneScale
    LoggedIsMeasured
