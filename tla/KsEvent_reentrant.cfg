\* A callback may destroy its own handle, or another one of the same event.
SPECIFICATION EventSpec
CONSTANTS
    Event = {e1}
    Slot = {s1, s2}
    MaxUID = 3
    MaxDepth = 1
PROPERTY AllBoundAreCalled
CHECK_DEADLOCK FALSE
