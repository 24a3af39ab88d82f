CONSTANTS
    c1 = c1  c2 = c2  w1 = w1  w2 = w2  m1 = m1  m2 = m2
    Conn = {c1}
    Joinable = {w1}
    Msg = {m1}
    Affected <- MCAffected
    MaxErrors = 0
    MaxTimeouts = 1
SPECIFICATION FairWsSpec
PROPERTIES
    DeadAreAlwaysForgotten
CHECK_DEADLOCK FALSE
