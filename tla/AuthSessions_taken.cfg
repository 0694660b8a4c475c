SPECIFICATION Spec
CONSTANTS
    r1 = r1
    r2 = r2
    r3 = r3
    ann = ann
    old = old
    new = new
    p = p
    q = q
    None = None
    Requests = {r1, r2}
    Emails = {old, new}
    Passwords = {p, q}
    SeedUsers <- MCSeedUsers
    AccessTtl = 1
    RefreshTtl = 2
    MaxTime = 0
    Outages = FALSE
INVARIANT TakenEmailIsConflict
CHECK_DEADLOCK FALSE
