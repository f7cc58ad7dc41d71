SPECIFICATION Spec
CONSTANTS
    alice = alice
    bob = bob
    carol = carol
    o1 = o1
    o2 = o2
    h1 = h1
    h2 = h2
    Users = {alice, bob, carol}
    Orders = {o1}
    Handlers = {h1, h2}
    MaxCalls = 5
    Initiator <- MCInitiator
    Role <- MCRole
    FeePayer <- Split
    Terms <- Priced
    Routes = {"transactions", "orders", "disputes", "admin"}
    Opening <- MCOpening
    Rupiah = 2
    Null = Null
    Serialised = FALSE
    Reliable = FALSE
INVARIANTS PaidMeansHeld NoMoneyMade CompletedMeansReleased AgreementHolds
PROPERTIES HoldWrittenOnce
CHECK_DEADLOCK FALSE
SYMMETRY Alike
