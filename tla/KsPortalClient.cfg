SPECIFICATION Spec
CONSTANTS
    Tab = {t1, t2}
    MaxFirmware = 2
    Value = {"a", "b"}
    Usable = {"a"}
    None = None
    NotConfigMode = NotConfigMode
    IdWidth = 2
    MaxUnhandled = 1
    MaxDisturbances = 3
INVARIANTS
    ClientTypeOK
    ReplyAnswersRequest
    PageIsCurrent
    ShownIsStored
PROPERTY TabsSettle
CHECK_DEADLOCK FALSE
