SPECIFICATION FairSpec
CONSTANTS
    Width = 10
    CheckInterval = 1
    ConfigTimeout = 5
    ScanTimeout = 3
    KeepAlive = 2
    MaxGap = 2
INVARIANT TypeOK
PROPERTIES
    AttendedIsKept
    ExpiryIsExact
    UnattendedEnds
