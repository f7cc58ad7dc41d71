SPECIFICATION Spec
CONSTANTS
    alice = alice
    bob = bob
    o1 = o1
    o2 = o2
    o3 = o3
    r1 = r1
    r2 = r2
    r3 = r3
    r4 = r4
    k1 = k1
    k2 = k2
    Users = {alice, bob}
    Orders = {o1, o2, o3}
    Requests = {r1, r2, r3, r4}
    Keys = {k1, k2}
    Amounts = {2}
    Fees = {1}
    MaxRetries = 3
    Null = Null
    System = System
    Opening <- MCOpening
    Buyer <- MCBuyer
    Seller <- MCSeller
    KeyOf <- MCKeyOf
    Serialised = FALSE
INVARIANTS TypeOK NoOverdraft LedgerAgrees BooksBalance
PROPERTIES HoldTermsNeverChange SettledHoldsAreFinal OnlyLateBreaks
CHECK_DEADLOCK FALSE
SYMMETRY Alike
