SPECIFICATION Spec
CONSTANTS
    r1 = r1
    r2 = r2
    r3 = r3
    r4 = r4
    r5 = r5
    Requests = {r1, r2, r3, r4}
    Keys = {r1, r2, r3, r4}
    KeyOf <- MCOwnKeys
    Amounts = {1, 2}
    Opening = 6
    Routes = {"wallet", "withdrawals"}
    Outcomes = {"COMPLETED", "FAILED"}
    MaxRetries = 3
    Day = 3
    Month = 6
    MaxTime = 6
    Cooling = 1
    MaxDailyCount = 2
    DailyLimit = 3
    MonthlyLimit = 5
    Null = Null
    Serialised = TRUE
INVARIANTS WalletAgrees LimitsHold
CHECK_DEADLOCK FALSE
SYMMETRY Alike
