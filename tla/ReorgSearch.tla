---------------------------- MODULE ReorgSearch -----------------------------
(***************************************************************************)
(* searchForLatestValidBlock (src/commons.ts): a binary search over the    *)
(* heights in our database for the last block the full node does not hold  *)
(* voided.  Every probe is a request to the full node, whose best chain    *)
(* may change again between two probes.                                    *)
(***************************************************************************)
EXTENDS Integers

CONSTANT BestHeight   \* latest height in our database

ASSUME BestHeightAssumption == BestHeight \in Nat

VARIABLES
    fork,              \* the full node holds our blocks from this height on voided
    lowestFork,        \* the lowest and the highest fork since the search began
    highestFork,       \* (history variables)
    start, end,
    latestValidBlock,  \* height of the block
    searching

searchVars == <<fork, lowestFork, highestFork, start, end, latestValidBlock, searching>>

\* The genesis block is never voided.
Fork == 1..(BestHeight + 1)

SearchTypeOK ==
    /\ fork \in Fork /\ lowestFork \in Fork /\ highestFork \in Fork
    /\ start \in 0..(BestHeight + 1)
    /\ end \in -1..BestHeight
    /\ latestValidBlock \in 0..BestHeight
    /\ searching \in BOOLEAN

SearchInit ==
    /\ fork \in Fork
    /\ lowestFork = fork
    /\ highestFork = fork
    /\ start = 0
    /\ end = BestHeight
    /\ latestValidBlock = BestHeight
    /\ searching = TRUE

-----------------------------------------------------------------------------

\* Mutant: halving the width instead of the sum.
HalfWidth == (end - start) \div 2

midHeight == (start + end) \div 2

\* Mutant: the block at the fork counts as valid.
IsVoidedAfter(height) == height > fork

isVoided(height) == height >= fork

Probe ==
    /\ searching
    /\ start <= end
    /\ \/ /\ ~isVoided(midHeight)
          /\ latestValidBlock' = midHeight
          /\ start' = midHeight + 1
          /\ UNCHANGED end
       \/ /\ isVoided(midHeight)
          /\ end' = midHeight - 1
          /\ UNCHANGED <<start, latestValidBlock>>
    /\ UNCHANGED <<fork, lowestFork, highestFork, searching>>

Return ==
    /\ searching
    /\ start > end
    /\ searching' = FALSE
    /\ UNCHANGED <<fork, lowestFork, highestFork, start, end, latestValidBlock>>

\* Another reorganisation at the full node, deeper or back.
Reorganise(height) ==
    /\ searching
    /\ fork' = height
    /\ lowestFork' = IF height < lowestFork THEN height ELSE lowestFork
    /\ highestFork' = IF height > highestFork THEN height ELSE highestFork
    /\ UNCHANGED <<start, end, latestValidBlock, searching>>

Search == Probe \/ Return
SearchNext == Search \/ \E height \in Fork : Reorganise(height)

SearchSpec == SearchInit /\ [][SearchNext]_searchVars
FairSearchSpec == SearchSpec /\ WF_searchVars(Search)

-----------------------------------------------------------------------------

\* searchForLatestValidBlock finds "the last block that is not voided": the
\* block before the fork when the chain stays, and one between the deepest and
\* the shallowest fork when it changes while the search runs.
FindsTheFork ==
    ~searching => latestValidBlock \in (lowestFork - 1)..(highestFork - 1)

\* The search ends however often the full node reorganises.
SearchEnds == <>(~searching)
=============================================================================
