SPECIFICATION MqttFairSpec
CONSTANTS
    IdMod = 3
    QueryInterval = 1
    Domains = {"name", "malformed", "literal", "empty"}
    ReconnectDelay = 3
    ConnectTimeout = 2
INVARIANTS
    MqttTypeOK
    AttemptsAreSpaced
    AddressesAreFresh
PROPERTIES
    ImplementsSession
    ConnectsInTheEnd
