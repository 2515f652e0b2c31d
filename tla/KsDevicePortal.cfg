SPECIFICATION FairSpec
CONSTANTS
    MaxResets = 1
    Provider = {{"broker", "port", "SSLFingerprint"}, {"custom"}}
    Text = {"a", "b", "f", "1883"}
    PortText = {"1883"}
    FingerprintText = {"f"}
    Request <- MCRequest
INVARIANTS
    TypeOK
    ReportIsTrue
    CopiesMatchStored
PROPERTIES
    OnlySentValuesAreStored
    SaveTakesEffect
