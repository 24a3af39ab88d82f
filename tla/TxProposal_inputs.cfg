CONSTANTS
    u1 = u1  u2 = u2
    Utxo = {u1, u2}
    Proposal = {p1}
    Request = {r1}
    Free = Free  NoProposal = NoProposal
    TxIdOf <- SameTx
    MaxInputs = 1
    Faults = FALSE
SPECIFICATION Spec
INVARIANTS
    PushedAsProposed
SYMMETRY Symmetry
CHECK_DEADLOCK FALSE
