\* Three loads of a file whose lines are shifted stay within the bounds.
SPECIFICATION FormSpec
CONSTANTS
    BufferSize = 6
    Names <- MCNames
    Values <- MCValues
    MaxEntries = 3
    MaxLength = 32
INVARIANTS
    ConfigTypeOK
    FormIsKept
PROPERTY SavedIsReadBack
