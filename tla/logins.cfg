SPECIFICATION LoginsSpec
CONSTANTS
    p1 = p1
    p2 = p2
    h1 = h1
    h2 = h2
    h3 = h3
    Processes = {p1, p2}
    Handlers = {h1, h2, h3}
    ProcessOf <- MCProcessOf
    Redis = Redis
    MaxFailed = 2
    Window = 1
    Lockout = 3
    MaxTime = 4
    MaxCalls = 4
INVARIANT AttemptsBounded
PROPERTY LockRunsItsTime
CHECK_DEADLOCK FALSE
SYMMETRY Alike
