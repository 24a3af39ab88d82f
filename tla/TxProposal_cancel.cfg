CONSTANTS
    u1 = u1  u2 = u2
    Utxo = {u1, u2}
    Proposal = {p1}
    Request = {r1}
    Free = Free  NoProposal = NoProposal
    TxIdOf <- OwnTx
    MaxInputs = 2
    Faults = FALSE
SPECIFICATION FairSpec
PROPERTIES
    StaleIsCancelled
CHECK_DEADLOCK FALSE
