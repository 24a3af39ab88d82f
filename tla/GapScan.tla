------------------------------ MODULE GapScan -------------------------------
(***************************************************************************)
(* The loop of generateAddresses (src/db/index.ts).  Each block is one     *)
(* SELECT; outside a database transaction, which is how loadWallet runs    *)
(* it, transactions that use further addresses commit between two blocks.  *)
(***************************************************************************)
EXTENDS AddressGap

CONSTANT MaxIndex   \* bound: indexes used by transactions are 0..MaxIndex

ASSUME MaxIndexAssumption == MaxIndex \in Nat

VARIABLES
    used,                  \* indexes whose address row has transactions > 0
    usedAtStart,           \* the same when the loop began (history variable)
    highestCheckedIndex,
    lastUsedAddressIndex,
    results,               \* used indexes of the block, not yet looked at
    pc

scanVars == <<used, usedAtStart, highestCheckedIndex, lastUsedAddressIndex, results, pc>>

Index == 0..MaxIndex

ScanTypeOK ==
    /\ used \in SUBSET Index
    /\ usedAtStart \in SUBSET used
    /\ highestCheckedIndex \in Nat \cup {-1}
    /\ lastUsedAddressIndex \in Nat \cup {-1}
    /\ results \in SUBSET Index
    /\ pc \in {"select", "entries", "done"}

ScanInit ==
    /\ used \in SUBSET Index
    /\ usedAtStart = used
    /\ highestCheckedIndex = -1
    /\ lastUsedAddressIndex = -1
    /\ results = {}
    /\ pc = "select"

-----------------------------------------------------------------------------

\* The SELECT of one block of Gap addresses.
SelectBlock ==
    /\ pc = "select"
    /\ results' = used \cap ((highestCheckedIndex + 1)..(highestCheckedIndex + Gap))
    /\ pc' = "entries"
    /\ UNCHANGED <<used, usedAtStart, highestCheckedIndex, lastUsedAddressIndex>>

\* Mutant: the rows are taken to come in order.
TakeLast(index) ==
    /\ pc = "entries"
    /\ index \in results
    /\ results' = results \ {index}
    /\ lastUsedAddressIndex' = index
    /\ UNCHANGED <<used, usedAtStart, highestCheckedIndex, pc>>

\* One entry of the result: "if address is used, check if its index is higher
\* than the current highest used index".  The rows come in any order.
LookAt(index) ==
    /\ pc = "entries"
    /\ index \in results
    /\ results' = results \ {index}
    /\ lastUsedAddressIndex' =
          IF index > lastUsedAddressIndex THEN index ELSE lastUsedAddressIndex
    /\ UNCHANGED <<used, usedAtStart, highestCheckedIndex, pc>>

\* Mutant: >= for > in the condition of the loop.
OneBlockMore ==
    /\ pc = "entries"
    /\ results = {}
    /\ highestCheckedIndex' = highestCheckedIndex + Gap
    /\ pc' = IF lastUsedAddressIndex + Gap >= highestCheckedIndex'
             THEN "select" ELSE "done"
    /\ UNCHANGED <<used, usedAtStart, lastUsedAddressIndex, results>>

\* Mutant: highestCheckedIndex follows the last used index, not the blocks.
FollowLastUsed ==
    /\ pc = "entries"
    /\ results = {}
    /\ highestCheckedIndex' = lastUsedAddressIndex
    /\ pc' = IF lastUsedAddressIndex + Gap > highestCheckedIndex'
             THEN "select" ELSE "done"
    /\ UNCHANGED <<used, usedAtStart, lastUsedAddressIndex, results>>

\* The end of the block and the condition of the loop.
EndBlock ==
    /\ pc = "entries"
    /\ results = {}
    /\ highestCheckedIndex' = highestCheckedIndex + Gap
    /\ pc' = IF lastUsedAddressIndex + Gap > highestCheckedIndex'
             THEN "select" ELSE "done"
    /\ UNCHANGED <<used, usedAtStart, lastUsedAddressIndex, results>>

\* A transaction uses an address meanwhile.
Use(index) ==
    /\ index \notin used
    /\ used' = used \cup {index}
    /\ UNCHANGED <<usedAtStart, highestCheckedIndex, lastUsedAddressIndex, results, pc>>

Scan == SelectBlock \/ EndBlock \/ \E index \in results : LookAt(index)
ScanNext == Scan \/ \E index \in Index : Use(index)

ScanSpec == ScanInit /\ [][ScanNext]_scanVars
FairScanSpec == ScanSpec /\ WF_scanVars(Scan)

-----------------------------------------------------------------------------

\* generateAddresses "take[s] into account the maximum gap of unused addresses":
\* the index it returns was used, and none of the Gap indexes after it was used
\* when the loop began - however the commits and the blocks interleave.
NoUsedAddressIsMissed ==
    pc = "done" =>
        /\ lastUsedAddressIndex \in used \cup {-1}
        /\ \A i \in usedAtStart :
              i <= lastUsedAddressIndex \/ i > lastUsedAddressIndex + Gap

\* With no commit meanwhile the loop returns what module AddressGap says.
AloneItIsLastUsedIndex ==
    pc = "done" /\ used = usedAtStart =>
        /\ lastUsedAddressIndex = LastUsedIndex(used)
        /\ highestCheckedIndex = Checked(used)

\* Whatever is used meanwhile, the loop of generateAddresses ends.
ScanEnds == <>(pc = "done")
=============================================================================
