SPECIFICATION FairSpec
CONSTANTS
    TicksPerMs = 2
    DefaultPage = 2
    MaxPage = 3
    Undefined = Undefined
    Null = Null
    Malformed = Malformed
    Ids = {1, 2, 3, 4}
    Instants = {1, 2, 3}
    Plans <- MCPlans
INVARIANTS
    IInv
    PagesAreOrdered
    NothingSkipped
    CursorsLast
PROPERTIES
    EveryPageIsNews
    TraversalEnds
CHECK_DEADLOCK FALSE
