\* Callbacks may do anything, up to the point where C++ gives it no meaning: a
\* state with undefined has no successors.
SPECIFICATION EventSpec
CONSTANTS
    Event = {e1, e2}
    Slot = {s1, s2, s3}
    MaxUID = 3
    MaxDepth = 2
INVARIANT HandlesAreTrue
PROPERTY ReachesAllBound
CHECK_DEADLOCK FALSE
