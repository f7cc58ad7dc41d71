SPECIFICATION Spec
CONSTANTS
    hold1 = hold1
    retry1 = retry1
    hold2 = hold2
    release1 = release1
    Owners <- MCOwners
    Journals = {hold1, retry1, hold2, release1}
    Lines <- MCLines
    KeyOf <- MCKeyOf
    Null = Null
INVARIANTS PostedOnce RunningBalancesRight
CHECK_DEADLOCK FALSE
SYMMETRY Alike
