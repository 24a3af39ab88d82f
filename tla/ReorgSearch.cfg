CONSTANTS
    BestHeight = 10
SPECIFICATION FairSearchSpec
INVARIANTS
    FindsTheFork
PROPERTIES
    SearchEnds
CHECK_DEADLOCK FALSE
