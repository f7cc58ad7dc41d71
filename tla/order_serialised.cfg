SPECIFICATION Spec
CONSTANTS
    alice = alice
    bob = bob
    carol = carol
    o1 = o1
    o2 = o2
    h1 = h1
    h2 = h2
    Users = {alice, bob, carol}
    Orders = {o1, o2}
    Handlers = {h1, h2}
    MaxCalls = 8
    Initiator <- MCInitiator
    Role <- MCRole
    FeePayer <- MCFeePayer
    Terms <- Priced
    Routes = {"transactions", "orders", "deliveries", "disputes", "admin"}
    Opening <- MCOpening
    Rupiah = 2
    Null = Null
    Serialised = TRUE
    Reliable = TRUE
INVARIANTS BooksBalance
CHECK_DEADLOCK FALSE
SYMMETRY Alike
