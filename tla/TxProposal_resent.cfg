CONSTANTS
    u1 = u1  u2 = u2
    Utxo = {u1, u2}
    Proposal = {p1}
    Request = {r1, r2}
    Free = Free  NoProposal = NoProposal
    TxIdOf <- OwnTx
    MaxInputs = 1
    Faults = FALSE
SPECIFICATION Spec
PROPERTIES
    SentIsFinal
SYMMETRY Symmetry
CHECK_DEADLOCK FALSE
