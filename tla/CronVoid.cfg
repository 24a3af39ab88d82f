CONSTANTS
    f = f  t = t  u = u  v = v
    A = A  B = B  C = C
    f1 = f1  f2 = f2  t1 = t1  t2 = t2  u1 = u1  v1 = v1
    Tx = {f, t, u, v}
    Output = {f1, f2, t1, t2, u1, v1}
    Address = {A, B, C}
    TxOf <- MCTxOf
    Inputs <- MCInputs
    AddressOf <- MCAddressOf
    Value <- MCValue
    Locked = {t2}
    Confirmed = {f, v}
    NoTx = NoTx
    MaxReturns = 1
    MaxStops = 1
SPECIFICATION FairSpec
INVARIANTS
    TypeOK
    OnlyDoubtfulBalances
    OnlyDoubtfulRows
    CountIsAtMostHistory
PROPERTIES
    VoidsAreHandled
CHECK_DEADLOCK FALSE
