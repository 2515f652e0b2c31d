\* The application may start while the button is held down.
SPECIFICATION ButtonSpec
CONSTANTS
    ShortTrigger = 1
    LongTrigger = 3
    Width = 8
    Intervals = {0}
    MaxGap = 7
    MaxTime = 20
    PressedAtInit = TRUE
PROPERTY EraseNeedsLongPress
CHECK_DEADLOCK FALSE
