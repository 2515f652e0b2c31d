SPECIFICATION Spec
CONSTANTS
    IdMod = 4
    QueryInterval = 2
    Domains = {"name"}
INVARIANT AnswerIsFresh
