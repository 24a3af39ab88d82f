CONSTANTS
    c1 = c1  c2 = c2  w1 = w1  w2 = w2  m1 = m1  m2 = m2
    Conn = {c1}
    Joinable = {w1, w2}
    Msg = {m1}
    Affected <- MCAffected
    MaxErrors = 1
    MaxTimeouts = 1
SPECIFICATION FairWsSpec
INVARIANTS
    ListenersStay
PROPERTIES
    ListenersAreNotified
    DeadAreForgotten
CHECK_DEADLOCK FALSE
