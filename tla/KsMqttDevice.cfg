SPECIFICATION DeviceSpec
CONSTANTS
    IpCheckInterval = 1
    ReconnectTime = 2
    WifiTimeout = 4
    MaxGap = 1
    ReportInterval = 2
INVARIANTS
    DeviceTypeOK
    BrokerKnowsDevice
PROPERTIES
    CachedCheckSuffices
    ReportsAreSpaced
    OfflineOrConfigured
    StatusSettles
