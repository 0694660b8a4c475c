SPECIFICATION Spec
CONSTANTS
    s1 = s1
    s2 = s2
    s3 = s3
    admin = admin
    customer = customer
    documented = documented
    other = other
    espresso = espresso
    latte = latte
    mocha = mocha
    None = None
    Seeds = {s1, s2, s3}
    Titles = {espresso, latte, mocha}
    SeedStock <- MCSeedStock
    HandMade <- MCHandMade
    Accounts <- MCAccounts
    Emails = {admin, customer}
    Passwords = {documented, other}
    MaxSales = 2
SYMMETRY Symmetry
INVARIANTS
    DuplicatesNeedOverlap
    CatalogueIsWhole
    SeedRestocks
    AccountsAreDocumented
    IInv
CHECK_DEADLOCK FALSE
