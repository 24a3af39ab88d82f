CONSTANTS
    u1 = u1  u2 = u2
    Utxo = {u1}
    Proposal = {p1, p2}
    Request = {r1, r2}
    Free = Free  NoProposal = NoProposal
    TxIdOf <- OwnTx
    MaxInputs = 1
    Faults = TRUE
SPECIFICATION FairSpec
INVARIANTS
    DestroyReleasesAll
    SentOnce
PROPERTIES
    NoMarkIsStolen
    CancelledIsReleased
CHECK_DEADLOCK FALSE
