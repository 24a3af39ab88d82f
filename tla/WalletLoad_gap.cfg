CONSTANTS
    l1 = l1  l2 = l2
    paid = paid  spent = spent  further = further  beyond = beyond
    Load = {l1}
    Tx = {paid, spent, further, beyond}
    Amount <- MCAmount
    Gap = 2
    MaxRetries = 2
    MaxFailures = 1
    MaxTimeouts = 1
SPECIFICATION Spec
INVARIANTS
    GapIsKept
    RetryCanSucceed
    AllSeeTheWallet
CHECK_DEADLOCK FALSE
