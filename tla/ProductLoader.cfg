SPECIFICATION FairSpec
CONSTANTS
    r1 = r1
    r2 = r2
    l1 = l1
    l2 = l2
    l3 = l3
    l4 = l4
    a = a
    b = b
    Requests = {r1, r2}
    Loads = {l1, l2, l3, l4}
    Ids = {a, b}
    RequestOf <- MCRequestOf
    IdOf <- MCIdOf
    MaxContent = 2
    Waiting = Waiting
    Failed = Failed
    Null = Null
    None = None
INVARIANTS
    NoFieldIsStranded
    OwnProduct
    OneStatePerResponse
    OneFetchPerProduct
    IInv
PROPERTIES
    ReadsSpec
    EveryFieldEnds
CHECK_DEADLOCK FALSE
