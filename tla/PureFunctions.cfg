SPECIFICATION Spec
CONSTANTS
    TicksPerMs = 2
    DefaultPage = 2
    MaxPage = 3
    Undefined = Undefined
    Null = Null
    Malformed = Malformed
    OrderIds = {1, 2, 3}
    Instants = {1, 2, 3}
    Sizes = {Undefined, Null, 0, 1, 2, 4}
    Filters <- MCFilters
    ProductIds = {1, 2, 3}
    Quantities = {0, 1, 2}
    Price <- MCPrice
    MaxItems = 4
INVARIANTS
    BasketIsSumOfLines
    TotalIsThatOfLines
    ForwardPageIsRelay
    BackwardPageIsAdjacent
    PageInfoIsTrue
    RefusalsAreDeserved
CHECK_DEADLOCK FALSE
