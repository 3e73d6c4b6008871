SPECIFICATION FairSpec
CONSTANTS
    r0 = r0
    r1 = r1
    Ranks = {r0, r1}
    Tokens = {1, 2}
    Rows = {0, 1, 2, 3}
    NoSize = NoSize
    NoRow = NoRow
    Nothing = Nothing
    Programs <- MCPrograms
    Builds <- MCBuilds
INVARIANTS
    CollectivesPair
    RaisesTogether
    ResultIsReference
    GradIsReference
PROPERTIES
    CallsEnd
CHECK_DEADLOCK FALSE
