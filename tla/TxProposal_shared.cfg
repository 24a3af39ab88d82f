CONSTANTS
    u1 = u1  u2 = u2
    Utxo = {u1, u2}
    Proposal = {p1, p2}
    Request = {r1, r2}
    Free = Free  NoProposal = NoProposal
    TxIdOf <- OwnTx
    MaxInputs = 2
    Faults = FALSE
SPECIFICATION Spec
INVARIANTS
    OpenProposalsAreDisjoint
SYMMETRY Symmetry
CHECK_DEADLOCK FALSE
