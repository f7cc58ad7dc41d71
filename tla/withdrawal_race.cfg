SPECIFICATION Spec
CONSTANTS
    r1 = r1
    r2 = r2
    r3 = r3
    r4 = r4
    r5 = r5
    Requests = {r1, r2, r3, r4, r5}
    Keys = {r1, r2, r3, r4, r5}
    KeyOf <- MCRetry
    Amounts = {2, 3}
    Opening = 5
    Routes = {"withdrawals"}
    Outcomes = {"COMPLETED", "FAILED"}
    MaxRetries = 3
    Day = 1
    Month = 1
    MaxTime = 0
    Cooling = 0
    MaxDailyCount = 9
    DailyLimit = 99
    MonthlyLimit = 99
    Null = Null
    Serialised = FALSE
INVARIANTS NoOverdraft OwnerNeverLoses GainsOnlyByOverlap OneWithdrawalPerKey
CHECK_DEADLOCK FALSE
SYMMETRY AlikeButRetry
