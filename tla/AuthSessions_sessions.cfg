SPECIFICATION Spec
CONSTANTS
    r1 = r1
    r2 = r2
    r3 = r3
    ann = ann
    old = old
    new = new
    p = p
    q = q
    None = None
    Requests = {r1, r2, r3}
    Emails = {old, new}
    Passwords = {p, q}
    SeedUsers <- MCSeedUsers
    AccessTtl = 1
    RefreshTtl = 2
    MaxTime = 2
    Outages = TRUE
SYMMETRY Symmetry
INVARIANTS
    OneAccountPerEmail
    TokensAreEarned
    RefreshHadSession
    GuardsAdmitTheEarned
    IInv
PROPERTY SessionsEndByTheirOwner
CHECK_DEADLOCK FALSE
