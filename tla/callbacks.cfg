SPECIFICATION Spec
CONSTANTS
    topUp = topUp
    invoice = invoice
    payout = payout
    p1 = p1
    p2 = p2
    h1 = h1
    h2 = h2
    Payments = {topUp, invoice, payout}
    Kind <- MCKind
    Reports <- MCReports
    Handlers = {h1, h2}
    Processes = {p1, p2}
    Redis = Redis
    MaxCalls = 3
    MaxLosses = 2
    Null = Null
INVARIANTS MovedOncePerMiss KeyMeansTaken
PROPERTY OutcomeFixed
CHECK_DEADLOCK FALSE
SYMMETRY Alike
