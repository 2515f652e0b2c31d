SPECIFICATION FrameworkFairSpec
CONSTANTS
    Component = {c1, c2, c3}
    AppCount = 3
    IndexMod = 3
INVARIANTS
    FrameworkTypeOK
    InitialisedInOrder
    PassCoversList
PROPERTIES
    MarkRemoves
    BecomesActive
    ImplementsRotator
