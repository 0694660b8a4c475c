SPECIFICATION Spec
CONSTANTS
    r1 = r1
    r2 = r2
    r3 = r3
    k1 = k1
    k2 = k2
    bad = bad
    a = a
    A = A
    b = b
    ghost = ghost
    None = None
    Requests = {r1, r2, r3}
    Keys = {k1, k2}
    ProductIds <- MCProductIds
    Catalog <- MCCatalog
    RowOf <- MCRowOf
    Price <- MCPrice
    Currency <- MCCurrency
    InitialStock <- MCAmpleStock
    Payloads <- CrossingPayloads
    PoolSize = 2
    MaxInt = 20
INVARIANT NoRetryNeeded
