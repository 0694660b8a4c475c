SPECIFICATION Spec
CONSTANTS
    TicksPerMs = 2
    DefaultPage = 2
    MaxPage = 3
    Undefined = Undefined
    Null = Null
    Malformed = Malformed
    OrderIds = {1, 2, 3}
    Instants = {1, 2, 3}
    Sizes = {Undefined, Null, 1, 2, 3}
    Filters <- MCFilters
    ProductIds = {1}
    Quantities = {1}
    Price <- MCPrice
    MaxItems = 1
INVARIANT BackwardPageIsFull
CHECK_DEADLOCK FALSE
