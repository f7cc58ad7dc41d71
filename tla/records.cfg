SPECIFICATION Spec
CONSTANTS
    h1 = h1
    h2 = h2
    ann = ann
    bob = bob
    cid = cid
    n1 = n1
    n2 = n2
    n3 = n3
    Handlers = {h1, h2}
    Users = {ann, bob, cid}
    Names = {n1, n2, n3}
    Orders = {"order1", "order2", "order3"}
    Files = {"file1", "file2", "file3"}
    Link = "link"
    Scores = {1, 5}
    MaxUsages = 1
    MaxAccounts = 2
    MaxCalls = 5
    Null = Null
INVARIANTS UsageBounded RewardPaidOnce
INVARIANTS AccountsInOrder FactorConfirmed ReputationRight
INVARIANTS ProofKept DisputeInOrder
PROPERTY DecisionStands
CHECK_DEADLOCK FALSE
SYMMETRY Alike
