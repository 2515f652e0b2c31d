\* millis() wraps twice within the bound; applications start on a free button.
\* The intervals of the timer are disabled, short and the widest that a uint32_t
\* can hold.
SPECIFICATION PanelSpec
CONSTANTS
    ShortTrigger = 1
    LongTrigger = 3
    Width = 8
    Intervals = {0, 3, 7}
    MaxGap = 7
    MaxTime = 20
    PressedAtInit = FALSE
    BlinkIntervals = {1, 3}
    BlinkLoops = {0, 1, 2}
    LoopGap = 3
INVARIANTS
    PanelTypeOK
    ClockIsExact
    BlinksAsAsked
PROPERTY PressActsByLength
CHECK_DEADLOCK FALSE
