CONSTANTS
    b1 = b1  b2 = b2  c2 = c2
    t1 = t1  t2 = t2  t3 = t3
    r1 = r1  r2 = r2  q2 = q2  p1 = p1  p2 = p2  p3 = p3  p4 = p4
    alice = alice  bob = bob  w1 = w1
    NoTx = NoTx  NoWallet = NoWallet
    Tx = {t1, t2}
    Block = {b1, b2, c2}
    Output = {r1, r2, q2, p1, p2}
    Address = {alice, bob}
    Wallet = {w1}
    TxOf <- MCTxOf
    Inputs <- MCInputs
    AddressOf <- MCAddressOf
    WalletOf <- AliceOnly
    Rank <- AliceFirst
    Timelock <- NoTimelocks
    Height <- MCHeight
    RewardLock = 1
    ValueOf <- MCValueOf
    TokenTx = {}
    DoubleSpends = FALSE
    MaxBalance = 10
    MaxTime = 0
SPECIFICATION Spec
INVARIANTS
    SpentByValidTx
CHECK_DEADLOCK FALSE
