SPECIFICATION Spec
CONSTANTS
    p1 = p1
    p2 = p2
    Processes = {p1, p2}
    Handlers = {p1, p2}
    ProcessOf <- MCProcessOf
    MaxCalls = 4
    MaxSecond = 2
    Null = Null
INVARIANTS ExchangedOnce OldPasswordGone StoresAgree
CHECK_DEADLOCK FALSE
SYMMETRY Alike
