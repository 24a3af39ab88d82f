---------------------------- MODULE LedgerProofs ----------------------------
(***************************************************************************)
(* Theorems about Ledger, for every set of transactions, blocks, outputs   *)
(* and addresses, and about ReorgSearch, for every height of the chain.    *)
(***************************************************************************)
EXTENDS Ledger, ReorgSearch, FiniteSums, FiniteSetTheorems, TLAPS

LEMMA TopOfChain ==
    ASSUME NEW n \in Nat
    PROVE  Max({0} \cup 1 .. n) = n
<1>1. {0} \cup 1 .. n = 0 .. n
  OBVIOUS
<1>2. n \in 0 .. n /\ \A y \in 0 .. n : n >= y
  OBVIOUS
<1> QED
  BY <1>1, <1>2 DEF Max

\* The chain without gaps gives the maximum that getLatestHeight returns.
LEMMA LatestHeightType ==
    ASSUME ChainHasNoGaps
    PROVE  LatestHeight \in Nat /\ StoredHeights = 1 .. LatestHeight
<1>1. PICK n \in {0} \cup {Height[b] : b \in Block} : StoredHeights = 1 .. n
  BY DEF ChainHasNoGaps
<1>2. n \in Nat
  BY <1>1, DagAssumption
<1>3. LatestHeight = n
  BY <1>1, <1>2, TopOfChain DEF LatestHeight
<1> QED
  BY <1>1, <1>2, <1>3

LEMMA ValueType ==
    ASSUME NEW S \in SUBSET Output
    PROVE  ValueOf[S] \in Nat
BY ValueAssumption

LEMMA ValueOfDisjointUnion ==
    ASSUME NEW S \in SUBSET Output, NEW T \in SUBSET Output, S \cap T = {}
    PROVE  ValueOf[S \cup T] = ValueOf[S] + ValueOf[T]
BY ValueAssumption

-----------------------------------------------------------------------------
(* The breadth-first search of handleVoided and handleReorg *)

\* What the cron has read stays known: no handler deletes the row of a
\* transaction that is not a block.
WorklistIsKnown == \A t \in worklist : txRow[t] # "none"

\* The inductive invariant of the rows.
RowsInv == TypeOK /\ RowsAgree /\ ChainHasNoGaps /\ WorklistIsKnown

\* The search ends with a set that holds what it started from and, with an
\* output, its valid spender; all it adds are valid transactions.
LEMMA VoidedByFacts ==
    ASSUME TypeOK, NEW first \in SUBSET AllTx
    PROVE  /\ VoidedBy(first) \in SUBSET AllTx
           /\ first \subseteq VoidedBy(first)
           /\ ClosedUnderSpenders(VoidedBy(first))
           /\ VoidedBy(first) \subseteq first \cup {t \in Tx : txRow[t] = "valid"}
<1>1. VoidedBy(first) \in SUBSET AllTx /\ first \subseteq VoidedBy(first)
  BY DEF VoidedBy
<1>2. ClosedUnderSpenders(VoidedBy(first))
  <2> SUFFICES ASSUME NEW o \in Output, TxOf[o] \in VoidedBy(first),
                      utxo[o] # "none", spentBy[o] # NoTx, txRow[spentBy[o]] = "valid",
                      NEW S \in SUBSET Tx, ClosedUnderSpenders(first \cup S)
               PROVE  spentBy[o] \in first \cup S
    BY DEF ClosedUnderSpenders, VoidedBy, TypeOK, AllTx
  <2>1. TxOf[o] \in first \cup S
    BY DEF VoidedBy
  <2> QED
    BY <2>1 DEF ClosedUnderSpenders
<1>3. VoidedBy(first) \subseteq first \cup {t \in Tx : txRow[t] = "valid"}
  <2> DEFINE V == {t \in Tx : txRow[t] = "valid"}
  <2>1. ClosedUnderSpenders(first \cup V)
    BY DEF ClosedUnderSpenders, TypeOK
  <2>2. V \in SUBSET Tx
    OBVIOUS
  <2> QED
    BY <2>1, <2>2 DEF VoidedBy
<1>4. QED
  BY <1>1, <1>2, <1>3

\* The number of transactions subtracted from a count is a number.
LEMMA AffectedTxCountType ==
    ASSUME NEW S, NEW a
    PROVE  AffectedTxCount(S, a) \in Nat
<1> DEFINE T == {t \in {TxOf[o] : o \in Affected(S)} :
                    /\ a \in AddressesOf(t)
                    /\ history[t] = "voided" \/ (t \in S /\ history[t] = "valid")}
<1>1. T \subseteq AllTx
  BY DagAssumption DEF Affected, RowsOf, SpentOutputs
<1>2. IsFiniteSet(T)
  BY <1>1, DagAssumption, FS_Subset
<1>3. Cardinality(T) \in Nat
  BY <1>2, FS_CardinalityType
<1> QED
  BY <1>3 DEF AffectedTxCount

-----------------------------------------------------------------------------
(* What the two families of handlers do to the rows *)

\* addNewTx writes one valid transaction over the rows of a past life.
LEMMA AddNewTxRows ==
    ASSUME RowsInv, NEW t \in AllTx, NEW unlocks \in SUBSET Output,
           NEW newLocked \in SUBSET Output, AddNewTx(t, unlocks, newLocked)
    PROVE  /\ txRow' \in [AllTx -> Status] /\ history' \in [AllTx -> Status]
           /\ utxo' \in [Output -> {"none", "live", "voided"}]
           /\ spentBy' \in [Output -> Tx \cup {NoTx}]
           /\ locked' \in SUBSET Output
           /\ unlockedBal' \in [Address -> Nat] /\ lockedBal' \in [Address -> Nat]
           /\ txCount' \in [Address -> Nat]
           /\ wUnlocked' \in [Wallet -> Nat] /\ wLocked' \in [Wallet -> Nat]
           /\ worklist' = worklist /\ now' = now
           /\ RowsAgree' /\ WorklistIsKnown'
<1> USE DEF RowsInv
<1>1. txRow' = [txRow EXCEPT ![t] = "valid"] /\ history' = [history EXCEPT ![t] = "valid"]
  BY DEF AddNewTx, UtxosWith
<1>2. /\ txRow' \in [AllTx -> Status] /\ history' \in [AllTx -> Status]
      /\ utxo' \in [Output -> {"none", "live", "voided"}]
  BY DEF AddNewTx, UtxosWith, TypeOK, Status
<1>3. spentBy' \in [Output -> Tx \cup {NoTx}]
  BY DagAssumption DEF AddNewTx, UtxosWith, TypeOK, AllTx
<1>4. locked' \in SUBSET Output
  BY DEF AddNewTx, UtxosWith, TypeOK
<1>5. ASSUME NEW a \in Address
      PROVE  /\ ValueOf[At(unlocks, a)] \in Nat /\ ValueOf[At(newLocked, a)] \in Nat
             /\ ValueOf[At(Inputs[t], a)] \in Nat
             /\ ValueOf[At(unlocks \cup (OutputsOf(t) \ newLocked), a)] \in Nat
  BY ValueType, DagAssumption DEF At, OutputsOf
<1>6. unlockedBal' \in [Address -> Nat] /\ lockedBal' \in [Address -> Nat]
  <2>1. UpdateAddressTables(t, unlocks, newLocked)
    BY DEF AddNewTx, UtxosWith
  <2>2. ASSUME NEW a \in Address
        PROVE  /\ unlockedBal[a] + ValueOf[At(unlocks \cup (OutputsOf(t) \ newLocked), a)]
                     - ValueOf[At(Inputs[t], a)] \in Nat
               /\ lockedBal[a] - ValueOf[At(unlocks, a)] + ValueOf[At(newLocked, a)] \in Nat
    <3>1. /\ unlockedBal[a] + ValueOf[At(unlocks \cup (OutputsOf(t) \ newLocked), a)]
                - ValueOf[At(Inputs[t], a)] \in 0 .. MaxBalance
          /\ lockedBal[a] >= ValueOf[At(unlocks, a)]
      BY <2>1 DEF UpdateAddressTables
    <3>2. lockedBal[a] \in Nat
      BY DEF TypeOK
    <3> QED
      BY <1>5, <3>1, <3>2, DagAssumption
  <2> QED
    BY <2>1, <2>2 DEF UpdateAddressTables
<1>7. txCount' \in [Address -> Nat]
  BY DEF AddNewTx, UtxosWith, UpdateAddressTables, TypeOK
<1>8. ASSUME NEW w \in Wallet
      PROVE  /\ ValueOf[OwnedBy(unlocks, w)] \in Nat /\ ValueOf[OwnedBy(newLocked, w)] \in Nat
             /\ ValueOf[OwnedBy(Inputs[t], w)] \in Nat
             /\ ValueOf[OwnedBy(unlocks \cup (OutputsOf(t) \ newLocked), w)] \in Nat
  BY ValueType, DagAssumption DEF OwnedBy, OutputsOf
<1>9. wUnlocked' \in [Wallet -> Nat] /\ wLocked' \in [Wallet -> Nat]
  <2>1. UpdateWalletTables(t, unlocks, newLocked)
    BY DEF AddNewTx, UtxosWith
  <2>2. ASSUME NEW w \in Wallet
        PROVE  /\ wUnlocked[w] + ValueOf[OwnedBy(unlocks \cup (OutputsOf(t) \ newLocked), w)]
                     - ValueOf[OwnedBy(Inputs[t], w)] \in Nat
               /\ wLocked[w] - ValueOf[OwnedBy(unlocks, w)] + ValueOf[OwnedBy(newLocked, w)] \in Nat
    <3>1. /\ wUnlocked[w] + ValueOf[OwnedBy(unlocks \cup (OutputsOf(t) \ newLocked), w)]
                - ValueOf[OwnedBy(Inputs[t], w)] \in 0 .. MaxBalance
          /\ wLocked[w] >= ValueOf[OwnedBy(unlocks, w)]
      BY <2>1 DEF UpdateWalletTables
    <3>2. wLocked[w] \in Nat
      BY DEF TypeOK
    <3> QED
      BY <1>8, <3>1, <3>2, DagAssumption
  <2> QED
    BY <2>1, <2>2 DEF UpdateWalletTables
<1>10. worklist' = worklist /\ now' = now
  BY DEF AddNewTx, UtxosWith
<1>11. RowsAgree'
  <2>1. \A u \in Tx : txRow'[u] = history'[u]
    BY <1>1 DEF RowsAgree, TypeOK, AllTx
  <2>2. \A b \in Block : txRow'[b] = IF history'[b] = "valid" THEN "valid" ELSE "none"
    BY <1>1 DEF RowsAgree, TypeOK, AllTx
  <2>3. \A o \in Output : utxo'[o] = IF TxOf[o] = t THEN "live" ELSE utxo[o]
    BY DEF AddNewTx, UtxosWith
  <2>4. \A o \in Output : TxOf[o] \in AllTx
    BY DagAssumption
  <2>5. ASSUME NEW o \in Output
        PROVE  /\ utxo'[o] = "live" <=> history'[TxOf[o]] = "valid"
               /\ utxo'[o] = "voided" <=> history'[TxOf[o]] = "voided"
    <3>1. CASE TxOf[o] = t
      BY <1>1, <2>3, <2>4, <3>1 DEF TypeOK
    <3>2. CASE TxOf[o] # t
      BY <1>1, <2>3, <2>4, <3>2 DEF RowsAgree, TypeOK
    <3> QED
      BY <3>1, <3>2
  <2> QED
    BY <2>1, <2>2, <2>5 DEF RowsAgree
<1>12. WorklistIsKnown'
  BY <1>1, <1>10 DEF WorklistIsKnown, TypeOK, AllTx
<1> QED
  BY <1>2, <1>3, <1>4, <1>6, <1>7, <1>9, <1>10, <1>11, <1>12

\* Voiding a set of known transactions voids their history and their outputs.
LEMMA VoidRowsFacts ==
    ASSUME RowsInv, NEW S \in SUBSET AllTx, \A t \in S : history[t] # "none", VoidRows(S)
    PROVE  /\ \A t \in AllTx : history'[t] = IF t \in S THEN "voided" ELSE history[t]
           /\ \A o \in Output : utxo'[o] = IF TxOf[o] \in S THEN "voided" ELSE utxo[o]
           /\ history' \in [AllTx -> Status]
           /\ utxo' \in [Output -> {"none", "live", "voided"}]
           /\ spentBy' \in [Output -> Tx \cup {NoTx}]
           /\ locked' = locked /\ tokenRow' = tokenRow
           /\ \A o \in Output :
                 /\ utxo'[o] = "live" <=> history'[TxOf[o]] = "valid"
                 /\ utxo'[o] = "voided" <=> history'[TxOf[o]] = "voided"
<1> USE DEF RowsInv
<1>1. \A t \in AllTx : history'[t] = IF t \in S THEN "voided" ELSE history[t]
  BY DEF VoidRows, HistoryWithout
<1>2. \A o \in Output : TxOf[o] \in AllTx
  BY DagAssumption
<1>3. \A o \in Output : o \in RowsOf(S) <=> TxOf[o] \in S
  BY <1>2 DEF RowsOf, RowsAgree, TypeOK, Status
<1>4. /\ DOMAIN utxo' = Output
      /\ \A o \in Output : utxo'[o] = IF TxOf[o] \in S THEN "voided" ELSE utxo[o]
  BY <1>3 DEF VoidRows, HistoryWithout
<1>5. history' \in [AllTx -> Status] /\ utxo' \in [Output -> {"none", "live", "voided"}]
  BY DEF TypeOK, Status, VoidRows, HistoryWithout
<1>6. spentBy' \in [Output -> Tx \cup {NoTx}]
  BY DEF VoidRows, HistoryWithout, TypeOK
<1>7. locked' = locked /\ tokenRow' = tokenRow
  BY DEF VoidRows, HistoryWithout
<1>8. ASSUME NEW o \in Output
      PROVE  /\ utxo'[o] = "live" <=> history'[TxOf[o]] = "valid"
             /\ utxo'[o] = "voided" <=> history'[TxOf[o]] = "voided"
  <2>1. CASE TxOf[o] \in S
    BY <1>1, <1>2, <1>4, <2>1
  <2>2. CASE TxOf[o] \notin S
    BY <1>1, <1>2, <1>4, <2>2 DEF RowsAgree
  <2> QED
    BY <2>1, <2>2
<1> QED
  BY <1>1, <1>4, <1>5, <1>6, <1>7, <1>8

\* rebuildAddressBalancesFromUtxos writes balances and counts that are numbers.
LEMMA RebuildType ==
    ASSUME TypeOK, NEW S, NEW counted, RebuildAddressBalances(S, counted),
           \A a \in counted : a \notin Underflows(S)
    PROVE  /\ unlockedBal' \in [Address -> Nat]
           /\ lockedBal' \in [Address -> Nat]
           /\ txCount' \in [Address -> Nat]
<1>1. ASSUME NEW a \in Address
      PROVE  /\ ValueOf[At(Unspent' \ LockedUnspent', a)] \in Nat
             /\ ValueOf[At(LockedUnspent', a)] \in Nat
  BY ValueType DEF At, Unspent, LockedUnspent
<1>2. unlockedBal' \in [Address -> Nat] /\ lockedBal' \in [Address -> Nat]
  BY <1>1 DEF RebuildAddressBalances, TypeOK
<1>3. ASSUME NEW a \in Address
      PROVE  txCount'[a] \in Nat
  <2>1. CASE a \in AffectedAddresses(S) /\ a \in counted
    <3>1. txCount[a] >= AffectedTxCount(S, a)
      BY <2>1, AffectedTxCountType DEF Underflows, TypeOK
    <3> QED
      BY <2>1, <3>1, AffectedTxCountType DEF RebuildAddressBalances, TypeOK
  <2>2. CASE a \in AffectedAddresses(S) \ counted
    BY <2>2 DEF RebuildAddressBalances
  <2>3. CASE a \notin AffectedAddresses(S)
    BY <2>3 DEF RebuildAddressBalances, TypeOK
  <2> QED
    BY <2>1, <2>2, <2>3
<1>4. txCount' \in [Address -> Nat]
  BY <1>3 DEF RebuildAddressBalances
<1> QED
  BY <1>2, <1>4

-----------------------------------------------------------------------------
(* The rows, the balances and the counts stay well formed *)

LEMMA RowsInvInit == Init => RowsInv
<1> SUFFICES ASSUME Init PROVE RowsInv
  OBVIOUS
<1>1. TypeOK
  BY DagAssumption DEF Init, TypeOK, Status, NoHeight
<1>2. RowsAgree
  BY DagAssumption DEF Init, RowsAgree, AllTx
<1>3. StoredHeights = 1 .. 0
  BY DEF Init, StoredHeights, AllTx
<1>4. ChainHasNoGaps
  BY <1>3 DEF ChainHasNoGaps
<1>5. WorklistIsKnown
  BY DEF Init, WorklistIsKnown
<1> QED
  BY <1>1, <1>2, <1>4, <1>5 DEF RowsInv

LEMMA RowsInvNewTx ==
    ASSUME RowsInv, NEW t \in Tx, NEW h \in Nat, NewTx(t, h)
    PROVE  RowsInv'
<1> DEFINE unlocks == LockedUtxoFromInputs(t)
           newLocked == {o \in OutputsOf(t) : Timelock[o] > now}
<1>1. AddNewTx(t, unlocks, newLocked)
  BY DEF NewTx, MarkLockedOutputs
<1>2. unlocks \in SUBSET Output /\ newLocked \in SUBSET Output /\ t \in AllTx
  BY DEF LockedUtxoFromInputs, LockedUnspent, Unspent, OutputsOf, AllTx
<1> HIDE DEF unlocks, newLocked
<1>3. height' \in [Tx -> Nat] /\ tokenRow' \subseteq TokenTx
  BY DEF NewTx, MarkLockedOutputs, RowsInv, TypeOK
<1>4. TypeOK' /\ RowsAgree' /\ WorklistIsKnown'
  BY <1>1, <1>2, <1>3, AddNewTxRows DEF RowsInv, TypeOK
<1>5. StoredHeights' = StoredHeights
  BY <1>1, DagAssumption DEF AddNewTx, UtxosWith, StoredHeights, RowsInv, TypeOK, AllTx
<1> QED
  BY <1>4, <1>5 DEF RowsInv, ChainHasNoGaps

LEMMA RowsInvNewBlock ==
    ASSUME RowsInv, NEW b \in Block, NewBlock(b)
    PROVE  RowsInv'
<1> DEFINE unlocks == UtxosLockedAtHeight(Height[b]) \cup (ExpiredTimelocksUtxos \ OutputsOf(b))
<1>1. AddNewTx(b, unlocks, OutputsOf(b))
  BY DEF NewBlock
<1>2. unlocks \in SUBSET Output /\ OutputsOf(b) \in SUBSET Output /\ b \in AllTx
  BY DEF UtxosLockedAtHeight, LockedUnspent, Unspent, ExpiredTimelocksUtxos,
         OutputsOf, AllTx, RowsInv, TypeOK
<1> HIDE DEF unlocks
<1>3. height' = height /\ tokenRow' = tokenRow
  BY DEF NewBlock
<1>4. TypeOK' /\ RowsAgree' /\ WorklistIsKnown'
  BY <1>1, <1>2, <1>3, AddNewTxRows DEF RowsInv, TypeOK
<1>5. LatestHeight \in Nat /\ StoredHeights = 1 .. LatestHeight
  BY LatestHeightType DEF RowsInv
<1>6. StoredHeights' = StoredHeights \cup {Height[b]}
  <2>1. \A c \in Block : txRow'[c] # "none" <=> txRow[c] # "none" \/ c = b
    BY <1>1 DEF AddNewTx, UtxosWith, RowsInv, TypeOK, AllTx
  <2> QED
    BY <2>1 DEF StoredHeights
<1>7. StoredHeights' = 1 .. LatestHeight + 1
  BY <1>5, <1>6 DEF NewBlock
<1>8. ChainHasNoGaps'
  BY <1>5, <1>7 DEF NewBlock, ChainHasNoGaps
<1> QED
  BY <1>4, <1>8 DEF RowsInv

LEMMA RowsInvReorg ==
    ASSUME RowsInv, NEW r \in Nat, r < LatestHeight, ReorgTables(r)
    PROVE  RowsInv'
<1> DEFINE removed == {b \in Block : txRow[b] = "valid" /\ Height[b] > r}
           S == VoidedBy(removed)
<1>1. removed \in SUBSET AllTx
  BY DEF AllTx
<1>2. /\ S \in SUBSET AllTx
      /\ removed \subseteq S
      /\ S \subseteq removed \cup {t \in Tx : txRow[t] = "valid"}
  BY <1>1, VoidedByFacts DEF RowsInv
<1>3. /\ txRow' = [t \in AllTx |-> IF t \in removed THEN "none"
                                   ELSE IF t \in S THEN "voided" ELSE txRow[t]]
      /\ VoidRows(S)
      /\ RebuildAddressBalances(S, Address)
      /\ Underflows(S) = {}
      /\ UNCHANGED <<wUnlocked, wLocked, worklist, now>>
  BY DEF ReorgTables, RemoveTxsHeight, BlocksAfterHeight, walletVars
<1>4. height' \in [Tx -> Nat]
  BY DEF ReorgTables, RemoveTxsHeight, BlocksAfterHeight, RowsInv, TypeOK, NoHeight
<1>5. \A t \in S : history[t] # "none"
  BY <1>2 DEF RowsInv, RowsAgree
<1> HIDE DEF S
<1>6. /\ \A t \in AllTx : history'[t] = IF t \in S THEN "voided" ELSE history[t]
      /\ history' \in [AllTx -> Status]
      /\ utxo' \in [Output -> {"none", "live", "voided"}]
      /\ spentBy' \in [Output -> Tx \cup {NoTx}]
      /\ locked' = locked /\ tokenRow' = tokenRow
      /\ \A o \in Output : /\ utxo'[o] = "live" <=> history'[TxOf[o]] = "valid"
                           /\ utxo'[o] = "voided" <=> history'[TxOf[o]] = "voided"
  BY <1>2, <1>3, <1>5, VoidRowsFacts
<1>7. /\ unlockedBal' \in [Address -> Nat]
      /\ lockedBal' \in [Address -> Nat]
      /\ txCount' \in [Address -> Nat]
  BY <1>3, RebuildType DEF RowsInv
<1>8. txRow' \in [AllTx -> Status]
  BY <1>3 DEF RowsInv, TypeOK, Status
<1>9. TypeOK'
  BY <1>3, <1>4, <1>6, <1>7, <1>8 DEF RowsInv, TypeOK
<1>10. RowsAgree'
  <2>1. \A t \in Tx : txRow'[t] = history'[t]
    BY <1>2, <1>3, <1>6, DagAssumption DEF RowsInv, RowsAgree, AllTx
  <2>2. \A b \in Block : txRow'[b] = IF history'[b] = "valid" THEN "valid" ELSE "none"
    BY <1>2, <1>3, <1>6, DagAssumption DEF RowsInv, RowsAgree, AllTx
  <2> QED
    BY <1>6, <2>1, <2>2 DEF RowsAgree
<1>11. ChainHasNoGaps'
  <2>1. LatestHeight \in Nat /\ StoredHeights = 1 .. LatestHeight
    BY LatestHeightType DEF RowsInv
  <2>2. \A b \in Block : txRow'[b] # "none" <=> txRow[b] # "none" /\ Height[b] <= r
    BY <1>2, <1>3, DagAssumption DEF RowsInv, RowsAgree, AllTx
  <2>3. StoredHeights' = {h \in StoredHeights : h <= r}
    BY <2>2 DEF StoredHeights
  <2>4. StoredHeights' = 1 .. r
    BY <2>1, <2>3
  <2>5. r \in {0} \cup {Height[b] : b \in Block}
    BY <2>1 DEF StoredHeights
  <2> QED
    BY <2>4, <2>5 DEF ChainHasNoGaps
<1>12. WorklistIsKnown'
  BY <1>2, <1>3, DagAssumption DEF RowsInv, WorklistIsKnown, TypeOK, AllTx
<1> QED
  BY <1>9, <1>10, <1>11, <1>12 DEF RowsInv

LEMMA RowsInvCronVoid ==
    ASSUME RowsInv, NEW t \in Tx, CronVoid(t)
    PROVE  RowsInv'
<1> DEFINE S == VoidedBy({t})
<1>1. t \in worklist /\ history[t] # "none"
  BY DEF CronVoid, RowsInv, RowsAgree, WorklistIsKnown
<1>2. S \in SUBSET AllTx /\ S \subseteq {t} \cup {u \in Tx : txRow[u] = "valid"}
  BY VoidedByFacts DEF RowsInv, AllTx
<1>3. PICK counted \in SUBSET (AffectedAddresses(S) \ Underflows(S)) :
         /\ txRow' = [u \in AllTx |->
               IF u \in S /\ txRow[u] # "none" THEN "voided" ELSE txRow[u]]
         /\ VoidRows(S)
         /\ RebuildAddressBalances(S, counted)
  BY DEF CronVoid
<1>4. worklist' \subseteq worklist /\ UNCHANGED <<height, wUnlocked, wLocked, now>>
  BY DEF CronVoid, walletVars
<1>5. \A u \in S : history[u] # "none"
  BY <1>1, <1>2 DEF RowsInv, RowsAgree
<1> HIDE DEF S
<1>6. /\ \A u \in AllTx : history'[u] = IF u \in S THEN "voided" ELSE history[u]
      /\ history' \in [AllTx -> Status]
      /\ utxo' \in [Output -> {"none", "live", "voided"}]
      /\ spentBy' \in [Output -> Tx \cup {NoTx}]
      /\ locked' = locked /\ tokenRow' = tokenRow
      /\ \A o \in Output : /\ utxo'[o] = "live" <=> history'[TxOf[o]] = "valid"
                           /\ utxo'[o] = "voided" <=> history'[TxOf[o]] = "voided"
  BY <1>2, <1>3, <1>5, VoidRowsFacts
<1>7. /\ unlockedBal' \in [Address -> Nat]
      /\ lockedBal' \in [Address -> Nat]
      /\ txCount' \in [Address -> Nat]
  BY <1>3, RebuildType DEF RowsInv
<1>8. TypeOK'
  BY <1>3, <1>4, <1>6, <1>7 DEF RowsInv, TypeOK, Status
<1>9. RowsAgree'
  <2>1. \A u \in Tx : txRow'[u] = history'[u]
    BY <1>3, <1>5, <1>6 DEF RowsInv, RowsAgree, AllTx
  <2>2. \A b \in Block : txRow'[b] = IF history'[b] = "valid" THEN "valid" ELSE "none"
    BY <1>2, <1>3, <1>6, DagAssumption DEF RowsInv, RowsAgree, AllTx
  <2> QED
    BY <1>6, <2>1, <2>2 DEF RowsAgree
<1>10. StoredHeights' = StoredHeights
  BY <1>2, <1>3, DagAssumption DEF StoredHeights, AllTx
<1>11. WorklistIsKnown'
  BY <1>3, <1>4 DEF RowsInv, WorklistIsKnown, TypeOK, AllTx
<1> QED
  BY <1>8, <1>9, <1>10, <1>11 DEF RowsInv, ChainHasNoGaps

LEMMA RowsInvUnlockWallet ==
    ASSUME RowsInv, NEW w \in Wallet, UnlockWallet(w)
    PROVE  RowsInv'
<1> DEFINE U == WalletUnlockedUtxos(w)
<1>1. U \in SUBSET Output
  BY DEF WalletUnlockedUtxos, OwnedBy, LockedUnspent, Unspent
<1>2. /\ \A a \in Address : lockedBal[a] >= ValueOf[At(U, a)]
      /\ wLocked[w] >= ValueOf[U]
      /\ locked' = locked \ U
      /\ unlockedBal' = [a \in Address |-> unlockedBal[a] + ValueOf[At(U, a)]]
      /\ lockedBal' = [a \in Address |-> lockedBal[a] - ValueOf[At(U, a)]]
      /\ wUnlocked' = [wUnlocked EXCEPT ![w] = @ + ValueOf[U]]
      /\ wLocked' = [wLocked EXCEPT ![w] = @ - ValueOf[U]]
      /\ UNCHANGED <<txRow, height, history, utxo, spentBy, tokenRow, txCount, worklist, now>>
  BY DEF UnlockWallet, rowVars
<1> HIDE DEF U
<1>3. ValueOf[U] \in Nat /\ \A a \in Address : ValueOf[At(U, a)] \in Nat
  BY <1>1, ValueType DEF At
<1>4. unlockedBal' \in [Address -> Nat] /\ lockedBal' \in [Address -> Nat]
  BY <1>2, <1>3 DEF RowsInv, TypeOK
<1>5. wUnlocked' \in [Wallet -> Nat] /\ wLocked' \in [Wallet -> Nat]
  BY <1>2, <1>3 DEF RowsInv, TypeOK
<1> QED
  BY <1>2, <1>4, <1>5 DEF RowsInv, TypeOK, RowsAgree, ChainHasNoGaps, StoredHeights,
                          WorklistIsKnown

\* The other actions write no balance and no more than a height, the clock or
\* the list of the cron.
LEMMA RowsInvOther ==
    ASSUME RowsInv,
           \/ \E t \in Tx, h \in Nat : ConfirmTx(t, h) \/ CronConfirm(t, h)
           \/ \E t \in Tx : CronSkip(t)
           \/ \E S \in SUBSET Tx : FetchOldMempool(S)
           \/ Tick
           \/ UNCHANGED vars
    PROVE  RowsInv' /\ UNCHANGED <<txRow, history, utxo, spentBy, locked, balanceVars>>
<1> DEFINE Rows == <<txRow, history, utxo, spentBy, locked, balanceVars>>
<1>1. ASSUME UNCHANGED <<Rows, walletVars>>, height' \in [Tx -> Nat],
             tokenRow' = tokenRow, now' \in 0 .. MaxTime,
             worklist' \subseteq worklist \cup {t \in Tx : txRow[t] # "none"}
      PROVE  RowsInv'
  <2>1. TypeOK'
    BY <1>1 DEF RowsInv, TypeOK, balanceVars, walletVars
  <2>2. WorklistIsKnown'
    BY <1>1 DEF RowsInv, WorklistIsKnown
  <2>3. RowsAgree'
    BY <1>1 DEF RowsInv, RowsAgree
  <2>4. StoredHeights' = StoredHeights
    BY <1>1 DEF StoredHeights
  <2> QED
    BY <2>1, <2>2, <2>3, <2>4 DEF RowsInv, ChainHasNoGaps
<1> USE DEF RowsInv, TypeOK, rowVars
<1>2. ASSUME NEW t \in Tx, NEW h \in Nat, ConfirmTx(t, h)
      PROVE  RowsInv' /\ UNCHANGED Rows
  BY <1>1, <1>2 DEF ConfirmTx
<1>3. ASSUME NEW t \in Tx, NEW h \in Nat, CronConfirm(t, h)
      PROVE  RowsInv' /\ UNCHANGED Rows
  <2>1. txRow[t] # "none" /\ txRow \in [AllTx -> Status]
    BY <1>3 DEF CronConfirm, WorklistIsKnown
  <2>2. txRow' = [txRow EXCEPT ![t] = txRow[t]]
    BY <1>3, <2>1 DEF CronConfirm
  <2>3. txRow' = txRow
    BY <2>1, <2>2 DEF AllTx
  <2> QED
    BY <1>1, <1>3, <2>3 DEF CronConfirm
<1>4. ASSUME NEW t \in Tx, CronSkip(t)
      PROVE  RowsInv' /\ UNCHANGED Rows
  BY <1>1, <1>4 DEF CronSkip
<1>5. ASSUME NEW S \in SUBSET Tx, FetchOldMempool(S)
      PROVE  RowsInv' /\ UNCHANGED Rows
  BY <1>1, <1>5 DEF FetchOldMempool
<1>6. ASSUME Tick
      PROVE  RowsInv' /\ UNCHANGED Rows
  BY <1>1, <1>6, DagAssumption DEF Tick
<1>7. ASSUME UNCHANGED vars
      PROVE  RowsInv' /\ UNCHANGED Rows
  BY <1>1, <1>7 DEF vars
<1> QED
  BY <1>2, <1>3, <1>4, <1>5, <1>6, <1>7

\* The shapes a step can have, with what the invariant says of its parameters.
LEMMA StepCases ==
    ASSUME RowsInv, [Next]_vars
    PROVE  \/ \E t \in Tx, h \in Nat : NewTx(t, h)
           \/ \E b \in Block : NewBlock(b)
           \/ \E r \in Nat : r < LatestHeight /\ ReorgTables(r)
           \/ \E t \in Tx : CronVoid(t)
           \/ \E w \in Wallet : UnlockWallet(w)
           \/ \E t \in Tx, h \in Nat : ConfirmTx(t, h) \/ CronConfirm(t, h)
           \/ \E t \in Tx : CronSkip(t)
           \/ \E S \in SUBSET Tx : FetchOldMempool(S)
           \/ Tick
           \/ UNCHANGED vars
<1>1. LatestHeight \in Nat /\ NoHeight \in Nat
  BY LatestHeightType DEF RowsInv, NoHeight
<1>2. ASSUME NEW r, HandleReorg(r)
      PROVE  r \in Nat /\ r < LatestHeight /\ ReorgTables(r)
  BY <1>1, <1>2 DEF HandleReorg
<1>3. CASE Daemon
  BY <1>1, <1>2, <1>3 DEF Daemon
<1>4. CASE Cron
  BY <1>1, <1>4 DEF Cron
<1> QED
  BY <1>3, <1>4 DEF Next

LEMMA RowsInvStep == RowsInv /\ [Next]_vars => RowsInv'
<1> SUFFICES ASSUME RowsInv, [Next]_vars PROVE RowsInv'
  OBVIOUS
<1> QED
  BY StepCases, RowsInvNewTx, RowsInvNewBlock, RowsInvReorg, RowsInvCronVoid,
     RowsInvUnlockWallet, RowsInvOther

THEOREM RowsInvariant == Spec => []RowsInv
BY RowsInvInit, RowsInvStep, PTL DEF Spec

\* Every column keeps its type: no balance, count or locked sum goes below zero
\* in any sequence of blocks, transactions, reorgs, voids and unlocks.
THEOREM TypeCorrect == Spec => []TypeOK
<1>1. RowsInv => TypeOK
  BY DEF RowsInv
<1> QED
  BY <1>1, RowsInvariant, PTL

\* The three tables agree on the status of every transaction.
THEOREM TablesAgree == Spec => []RowsAgree
<1>1. RowsInv => RowsAgree
  BY DEF RowsInv
<1> QED
  BY <1>1, RowsInvariant, PTL

\* No reorg leaves a hole in the stored chain.
THEOREM NoGapInChain == Spec => []ChainHasNoGaps
<1>1. RowsInv => ChainHasNoGaps
  BY DEF RowsInv
<1> QED
  BY <1>1, RowsInvariant, PTL

-----------------------------------------------------------------------------
(* What is spent, by whom, and what a balance says of it.  Two facts about *)
(* the inputs of the program are hypotheses where they are needed:         *)
(*   EveryTxHasOutputs   no transaction is without a tx_output row (one    *)
(*                       that only destroys authorities keeps its inputs   *)
(*                       spent when it is voided);                         *)
(*   ~DoubleSpends       the full node tells of a conflict by voiding the  *)
(*                       loser before it sends the winner.                 *)

EveryTxHasOutputs == \A t \in Tx : OutputsOf(t) # {}

-----------------------------------------------------------------------------
(* What voiding a set closed under spenders preserves *)

LEMMA VoidKeepsSpentBy ==
    ASSUME EveryTxHasOutputs, RowsInv, SpentByValidTx,
           NEW S \in SUBSET AllTx, \A t \in S : history[t] # "none",
           ClosedUnderSpenders(S), VoidRows(S)
    PROVE  SpentByValidTx'
<1> SUFFICES ASSUME NEW o \in Output, spentBy'[o] # NoTx
             PROVE  /\ o \in Inputs[spentBy'[o]]
                    /\ history'[spentBy'[o]] = "valid"
                    /\ utxo'[o] = "live"
  BY DEF SpentByValidTx
<1>1. o \notin SpentOutputs(S) /\ spentBy'[o] = spentBy[o] /\ spentBy[o] # NoTx
  BY DEF VoidRows, HistoryWithout
<1>2. /\ o \in Inputs[spentBy[o]] /\ history[spentBy[o]] = "valid" /\ utxo[o] = "live"
      /\ spentBy[o] \in Tx /\ txRow[spentBy[o]] = "valid" /\ TxOf[o] \in AllTx
  BY <1>1, DagAssumption DEF SpentByValidTx, RowsInv, RowsAgree, TypeOK
<1>3. spentBy[o] \notin S
  <2> SUFFICES ASSUME spentBy[o] \in S PROVE FALSE
    OBVIOUS
  <2>1. PICK q \in Output : TxOf[q] = spentBy[o]
    BY <1>2 DEF EveryTxHasOutputs, OutputsOf
  <2>2. q \in RowsOf(S)
    BY <1>2, <2>1 DEF RowsOf, RowsInv, RowsAgree
  <2> QED
    BY <1>1, <2>1, <2>2 DEF SpentOutputs
<1>4. TxOf[o] \notin S
  BY <1>1, <1>2, <1>3 DEF ClosedUnderSpenders
<1> QED
  BY <1>1, <1>2, <1>3, <1>4, VoidRowsFacts DEF AllTx

LEMMA VoidKeepsSpends ==
    ASSUME RowsInv, NothingSpendsAVoid,
           NEW S \in SUBSET AllTx, \A t \in S : history[t] # "none",
           ClosedUnderSpenders(S), VoidRows(S)
    PROVE  NothingSpendsAVoid'
<1> SUFFICES ASSUME NEW t \in AllTx, history'[t] = "valid", NEW o \in Inputs[t]
             PROVE  utxo'[o] = "live" /\ spentBy'[o] = t
  BY DEF NothingSpendsAVoid
<1>1. t \notin S /\ history[t] = "valid"
  BY VoidRowsFacts
<1>2. o \in Output /\ utxo[o] = "live" /\ spentBy[o] = t
  BY <1>1, DagAssumption DEF NothingSpendsAVoid
<1>3. t # NoTx /\ txRow[t] = "valid"
  BY <1>1, DagAssumption DEF RowsInv, RowsAgree, AllTx
<1>4. TxOf[o] \notin S
  BY <1>1, <1>2, <1>3 DEF ClosedUnderSpenders
<1>5. o \notin SpentOutputs(S)
  BY <1>1, <1>2 DEF SpentOutputs, RowsOf
<1> QED
  BY <1>2, <1>4, <1>5, VoidRowsFacts DEF VoidRows, HistoryWithout

\* Only the addresses of the affected outputs see their unspent outputs change,
\* and the rebuild writes the balances of exactly those.
LEMMA VoidKeepsBalances ==
    ASSUME BalanceIsUnspent, NEW S, NEW counted,
           VoidRows(S), RebuildAddressBalances(S, counted)
    PROVE  BalanceIsUnspent'
<1> SUFFICES ASSUME NEW a \in Address
             PROVE  unlockedBal'[a] + lockedBal'[a] = ValueOf[At(Unspent', a)]
  BY DEF BalanceIsUnspent, At, Unspent
<1>1. CASE a \in AffectedAddresses(S)
  <2> DEFINE free == At(Unspent' \ LockedUnspent', a)
             held == At(LockedUnspent', a)
  <2>1. /\ free \in SUBSET Output /\ held \in SUBSET Output /\ free \cap held = {}
        /\ free \cup held = At(Unspent', a)
    BY DEF At, Unspent, LockedUnspent
  <2>2. unlockedBal'[a] = ValueOf[free] /\ lockedBal'[a] = ValueOf[held]
    BY <1>1 DEF RebuildAddressBalances
  <2> QED
    BY <2>1, <2>2, ValueOfDisjointUnion
<1>2. CASE a \notin AffectedAddresses(S)
  <2>1. \A o \in Output : AddressOf[o] = a => utxo'[o] = utxo[o] /\ spentBy'[o] = spentBy[o]
    BY <1>2 DEF AffectedAddresses, Affected, VoidRows, HistoryWithout
  <2>2. At(Unspent', a) = At(Unspent, a)
    BY <2>1 DEF At, Unspent
  <2>3. unlockedBal'[a] = unlockedBal[a] /\ lockedBal'[a] = lockedBal[a]
    BY <1>2 DEF RebuildAddressBalances
  <2> QED
    BY <2>2, <2>3 DEF BalanceIsUnspent
<1> QED
  BY <1>1, <1>2

-----------------------------------------------------------------------------
(* What adding a transaction preserves *)

LEMMA AddKeepsSpentBy ==
    ASSUME RowsInv, SpentByValidTx, NEW t \in AllTx, NEW unlocks, NEW newLocked,
           \A o \in Inputs[t] : history[TxOf[o]] = "valid",
           AddNewTx(t, unlocks, newLocked)
    PROVE  SpentByValidTx'
<1> SUFFICES ASSUME NEW o \in Output, spentBy'[o] # NoTx
             PROVE  /\ o \in Inputs[spentBy'[o]]
                    /\ history'[spentBy'[o]] = "valid"
                    /\ utxo'[o] = "live"
  BY DEF SpentByValidTx
<1>1. /\ TxOf[o] # t
      /\ spentBy'[o] = IF o \in Inputs[t] THEN t ELSE spentBy[o]
      /\ utxo'[o] = utxo[o]
      /\ history' = [history EXCEPT ![t] = "valid"]
  BY DEF AddNewTx, UtxosWith
<1>2. CASE o \in Inputs[t]
  BY <1>1, <1>2 DEF RowsInv, RowsAgree, TypeOK
<1>3. CASE o \notin Inputs[t]
  <2>1. spentBy'[o] = spentBy[o] /\ spentBy[o] \in AllTx
    BY <1>1, <1>3 DEF RowsInv, TypeOK, AllTx
  <2> QED
    BY <1>1, <2>1 DEF SpentByValidTx, RowsInv, TypeOK
<1> QED
  BY <1>2, <1>3

LEMMA AddKeepsSpends ==
    ASSUME RowsInv, NothingSpendsAVoid, NEW t \in AllTx, NEW unlocks, NEW newLocked,
           \A o \in Inputs[t] : /\ history[TxOf[o]] = "valid"
                                /\ \A u \in AllTx : history[u] = "valid" => o \notin Inputs[u],
           AddNewTx(t, unlocks, newLocked)
    PROVE  NothingSpendsAVoid'
<1> SUFFICES ASSUME NEW u \in AllTx, history'[u] = "valid", NEW o \in Inputs[u]
             PROVE  utxo'[o] = "live" /\ spentBy'[o] = u
  BY DEF NothingSpendsAVoid
<1>1. o \in Output /\ TxOf[o] \in AllTx
  BY DagAssumption
<1>2. /\ history[t] # "valid"
      /\ history' = [history EXCEPT ![t] = "valid"]
      /\ utxo'[o] = IF TxOf[o] = t THEN "live" ELSE utxo[o]
      /\ spentBy'[o] = IF TxOf[o] = t THEN NoTx
                       ELSE IF o \in Inputs[t] THEN t ELSE spentBy[o]
  BY <1>1 DEF AddNewTx, UtxosWith
<1>3. CASE u = t
  BY <1>1, <1>2, <1>3 DEF RowsInv, RowsAgree
<1>4. CASE u # t
  <2>1. history[u] = "valid" /\ utxo[o] = "live" /\ spentBy[o] = u
    BY <1>2, <1>4 DEF RowsInv, TypeOK, NothingSpendsAVoid
  <2>2. history[TxOf[o]] = "valid"
    BY <1>1, <2>1 DEF RowsInv, RowsAgree
  <2>3. o \notin Inputs[t]
    BY <2>1
  <2> QED
    BY <1>2, <2>1, <2>2, <2>3
<1> QED
  BY <1>3, <1>4

\* The balances lose the inputs and gain the outputs; what is unlocked on the
\* way only moves from one column to the other.
LEMMA AddKeepsBalances ==
    ASSUME RowsInv, BalanceIsUnspent, NEW t \in AllTx,
           NEW unlocks \in SUBSET Output, NEW newLocked \in SUBSET OutputsOf(t),
           unlocks \cap OutputsOf(t) = {}, Inputs[t] \subseteq Unspent,
           AddNewTx(t, unlocks, newLocked)
    PROVE  BalanceIsUnspent'
<1> SUFFICES ASSUME NEW a \in Address
             PROVE  unlockedBal'[a] + lockedBal'[a] = ValueOf[At(Unspent', a)]
  BY DEF BalanceIsUnspent, At, Unspent
<1> DEFINE free == OutputsOf(t) \ newLocked
           kept == Unspent \ Inputs[t]
<1>1. /\ Unspent' = kept \cup OutputsOf(t)
      /\ kept \cap OutputsOf(t) = {}
  <2>1. \A o \in Output :
           /\ utxo'[o] = IF TxOf[o] = t THEN "live" ELSE utxo[o]
           /\ spentBy'[o] = IF TxOf[o] = t THEN NoTx
                            ELSE IF o \in Inputs[t] THEN t ELSE spentBy[o]
           /\ TxOf[o] = t => utxo[o] # "live"
    BY DEF AddNewTx, UtxosWith, RowsInv, RowsAgree
  <2>2. t # NoTx
    BY DagAssumption
  <2> QED
    BY <2>1, <2>2 DEF Unspent, OutputsOf
<1>2. /\ At(Unspent', a) = At(kept, a) \cup At(OutputsOf(t), a)
      /\ At(kept, a) \cap At(OutputsOf(t), a) = {}
      /\ At(Unspent, a) = At(kept, a) \cup At(Inputs[t], a)
      /\ At(kept, a) \cap At(Inputs[t], a) = {}
      /\ At(OutputsOf(t), a) = At(free, a) \cup At(newLocked, a)
      /\ At(free, a) \cap At(newLocked, a) = {}
      /\ At(unlocks \cup free, a) = At(unlocks, a) \cup At(free, a)
      /\ At(unlocks, a) \cap At(free, a) = {}
  BY <1>1 DEF At
<1>3. /\ At(kept, a) \in SUBSET Output /\ At(OutputsOf(t), a) \in SUBSET Output
      /\ At(Inputs[t], a) \in SUBSET Output /\ At(free, a) \in SUBSET Output
      /\ At(newLocked, a) \in SUBSET Output /\ At(unlocks, a) \in SUBSET Output
  BY DEF At, Unspent, OutputsOf
<1>4. /\ unlockedBal'[a] = unlockedBal[a] + ValueOf[At(unlocks \cup free, a)]
                           - ValueOf[At(Inputs[t], a)]
      /\ lockedBal'[a] = lockedBal[a] - ValueOf[At(unlocks, a)] + ValueOf[At(newLocked, a)]
  BY DEF AddNewTx, UtxosWith, UpdateAddressTables
<1> HIDE DEF free, kept
<1>5. /\ ValueOf[At(Unspent', a)] = ValueOf[At(kept, a)] + ValueOf[At(OutputsOf(t), a)]
      /\ ValueOf[At(Unspent, a)] = ValueOf[At(kept, a)] + ValueOf[At(Inputs[t], a)]
      /\ ValueOf[At(OutputsOf(t), a)] = ValueOf[At(free, a)] + ValueOf[At(newLocked, a)]
      /\ ValueOf[At(unlocks \cup free, a)] = ValueOf[At(unlocks, a)] + ValueOf[At(free, a)]
  BY <1>2, <1>3, ValueOfDisjointUnion
<1>6. /\ ValueOf[At(kept, a)] \in Nat /\ ValueOf[At(Inputs[t], a)] \in Nat
      /\ ValueOf[At(free, a)] \in Nat /\ ValueOf[At(newLocked, a)] \in Nat
      /\ ValueOf[At(unlocks, a)] \in Nat
      /\ unlockedBal[a] \in Nat /\ lockedBal[a] \in Nat
  BY <1>3, ValueType DEF RowsInv, TypeOK
<1>7. unlockedBal[a] + lockedBal[a] = ValueOf[At(Unspent, a)]
  BY DEF BalanceIsUnspent
<1> QED
  BY <1>4, <1>5, <1>6, <1>7

-----------------------------------------------------------------------------
(* Every step adds one transaction, voids a closed set or keeps the rows *)

AddStep ==
    \E t \in AllTx, unlocks \in SUBSET Output : \E newLocked \in SUBSET OutputsOf(t) :
        /\ unlocks \cap OutputsOf(t) = {}
        /\ \A o \in Inputs[t] :
              /\ history[TxOf[o]] = "valid"
              /\ DoubleSpends \/ \A u \in AllTx : history[u] = "valid" => o \notin Inputs[u]
        /\ AddNewTx(t, unlocks, newLocked)

VoidStep ==
    \E S \in SUBSET AllTx :
        /\ \A t \in S : history[t] # "none"
        /\ ClosedUnderSpenders(S)
        /\ VoidRows(S)
        /\ \E counted : RebuildAddressBalances(S, counted)

QuietStep ==
    /\ UNCHANGED <<history, utxo, spentBy>>
    /\ BalanceIsUnspent => BalanceIsUnspent'

LEMMA AddSteps ==
    ASSUME RowsInv, \/ \E t \in Tx, h \in Nat : NewTx(t, h)
                    \/ \E b \in Block : NewBlock(b)
    PROVE  AddStep
<1>1. ASSUME NEW t \in Tx, NEW h \in Nat, NewTx(t, h)
      PROVE  AddStep
  <2> DEFINE unlocks == LockedUtxoFromInputs(t)
             newLocked == {o \in OutputsOf(t) : Timelock[o] > now}
  <2>1. /\ AddNewTx(t, unlocks, newLocked)
        /\ \A o \in Inputs[t] :
              /\ history[TxOf[o]] = "valid"
              /\ DoubleSpends \/ \A u \in AllTx : history[u] = "valid" => o \notin Inputs[u]
    BY <1>1 DEF NewTx, MarkLockedOutputs, FullNodeAccepts
  <2>2. /\ unlocks \in SUBSET Output /\ newLocked \in SUBSET OutputsOf(t)
        /\ unlocks \cap OutputsOf(t) = {} /\ t \in AllTx
    BY DagAssumption DEF LockedUtxoFromInputs, LockedUnspent, Unspent, OutputsOf, AllTx
  <2> HIDE DEF unlocks, newLocked
  <2> QED
    BY <2>1, <2>2 DEF AddStep
<1>2. ASSUME NEW b \in Block, NewBlock(b)
      PROVE  AddStep
  <2> DEFINE unlocks == UtxosLockedAtHeight(Height[b])
                           \cup (ExpiredTimelocksUtxos \ OutputsOf(b))
  <2>1. AddNewTx(b, unlocks, OutputsOf(b)) /\ history[b] # "valid"
    BY <1>2 DEF NewBlock, AddNewTx, UtxosWith
  <2>2. /\ unlocks \in SUBSET Output /\ b \in AllTx /\ Inputs[b] = {}
        /\ unlocks \cap OutputsOf(b) = {}
    BY <2>1, DagAssumption DEF UtxosLockedAtHeight, LockedUnspent, Unspent,
       ExpiredTimelocksUtxos, OutputsOf, AllTx, RowsInv, RowsAgree, TypeOK
  <2> HIDE DEF unlocks
  <2> QED
    BY <2>1, <2>2 DEF AddStep
<1> QED
  BY <1>1, <1>2

LEMMA VoidSteps ==
    ASSUME RowsInv, \/ \E r \in Nat : ReorgTables(r)
                    \/ \E t \in Tx : CronVoid(t)
    PROVE  VoidStep
<1>1. ASSUME NEW r \in Nat, ReorgTables(r)
      PROVE  VoidStep
  <2> DEFINE removed == {b \in Block : txRow[b] = "valid" /\ Height[b] > r}
             S == VoidedBy(removed)
  <2>1. removed \in SUBSET AllTx
    BY DEF AllTx
  <2>2. /\ S \in SUBSET AllTx /\ ClosedUnderSpenders(S)
        /\ S \subseteq removed \cup {t \in Tx : txRow[t] = "valid"}
    BY <2>1, VoidedByFacts DEF RowsInv
  <2>3. VoidRows(S) /\ RebuildAddressBalances(S, Address)
    BY <1>1 DEF ReorgTables, RemoveTxsHeight, BlocksAfterHeight
  <2>4. \A t \in S : history[t] # "none"
    BY <2>2 DEF RowsInv, RowsAgree
  <2> HIDE DEF S
  <2> QED
    BY <2>2, <2>3, <2>4 DEF VoidStep
<1>2. ASSUME NEW t \in Tx, CronVoid(t)
      PROVE  VoidStep
  <2> DEFINE S == VoidedBy({t})
  <2>1. /\ S \in SUBSET AllTx /\ ClosedUnderSpenders(S)
        /\ S \subseteq {t} \cup {u \in Tx : txRow[u] = "valid"}
    BY VoidedByFacts DEF RowsInv, AllTx
  <2>2. VoidRows(S) /\ \E counted : RebuildAddressBalances(S, counted)
    BY <1>2 DEF CronVoid
  <2>3. history[t] # "none"
    BY <1>2 DEF CronVoid, RowsInv, RowsAgree, WorklistIsKnown
  <2>4. \A u \in S : history[u] # "none"
    BY <2>1, <2>3 DEF RowsInv, RowsAgree
  <2> HIDE DEF S
  <2> QED
    BY <2>1, <2>2, <2>4 DEF VoidStep
<1> QED
  BY <1>1, <1>2

LEMMA QuietSteps ==
    ASSUME RowsInv,
           \/ \E w \in Wallet : UnlockWallet(w)
           \/ \E t \in Tx, h \in Nat : ConfirmTx(t, h) \/ CronConfirm(t, h)
           \/ \E t \in Tx : CronSkip(t)
           \/ \E S \in SUBSET Tx : FetchOldMempool(S)
           \/ Tick
           \/ UNCHANGED vars
    PROVE  QuietStep
<1>1. ASSUME NEW w \in Wallet, UnlockWallet(w)
      PROVE  QuietStep
  <2> DEFINE U == WalletUnlockedUtxos(w)
  <2>1. U \in SUBSET Output
    BY DEF WalletUnlockedUtxos, OwnedBy, LockedUnspent, Unspent
  <2>2. /\ unlockedBal' = [a \in Address |-> unlockedBal[a] + ValueOf[At(U, a)]]
        /\ lockedBal' = [a \in Address |-> lockedBal[a] - ValueOf[At(U, a)]]
        /\ UNCHANGED <<history, utxo, spentBy>>
    BY <1>1 DEF UnlockWallet, rowVars
  <2> HIDE DEF U
  <2>3. \A a \in Address : ValueOf[At(U, a)] \in Nat
    BY <2>1, ValueType DEF At
  <2>4. \A a \in Address : unlockedBal'[a] + lockedBal'[a] = unlockedBal[a] + lockedBal[a]
    BY <2>2, <2>3 DEF RowsInv, TypeOK
  <2>5. Unspent' = Unspent
    BY <2>2 DEF Unspent
  <2> QED
    BY <2>2, <2>4, <2>5 DEF QuietStep, BalanceIsUnspent, At
<1>2. ASSUME UNCHANGED <<txRow, history, utxo, spentBy, locked, balanceVars>>
      PROVE  QuietStep
  BY <1>2 DEF QuietStep, BalanceIsUnspent, At, Unspent, balanceVars
<1> QED
  BY <1>1, <1>2, RowsInvOther

LEMMA StepShape ==
    ASSUME RowsInv, [Next]_vars
    PROVE  AddStep \/ VoidStep \/ QuietStep
BY StepCases, AddSteps, VoidSteps, QuietSteps

-----------------------------------------------------------------------------
(* Theorems *)

\* spent_by is set by, and only by, a valid transaction that spends the output,
\* whatever is voided, reorganised and added again in whatever order.
THEOREM SpentBySound ==
    ASSUME EveryTxHasOutputs
    PROVE  Spec => []SpentByValidTx
<1>1. Init => SpentByValidTx
  BY DEF Init, SpentByValidTx
<1>2. RowsInv /\ SpentByValidTx /\ [Next]_vars => SpentByValidTx'
  <2> SUFFICES ASSUME RowsInv, SpentByValidTx, [Next]_vars PROVE SpentByValidTx'
    OBVIOUS
  <2>1. CASE AddStep
    BY <2>1, AddKeepsSpentBy DEF AddStep
  <2>2. CASE VoidStep
    BY <2>2, VoidKeepsSpentBy DEF VoidStep
  <2>3. CASE QuietStep
    BY <2>3 DEF QuietStep, SpentByValidTx
  <2> QED
    BY <2>1, <2>2, <2>3, StepShape
<1> QED
  BY <1>1, <1>2, RowsInvariant, PTL DEF Spec

\* Whatever is removed takes everything that spends it along: a transaction
\* still valid spends live outputs, each marked with it.
THEOREM VoidingIsComplete ==
    ASSUME ~DoubleSpends
    PROVE  Spec => []NothingSpendsAVoid
<1>1. Init => NothingSpendsAVoid
  BY DEF Init, NothingSpendsAVoid
<1>2. RowsInv /\ NothingSpendsAVoid /\ [Next]_vars => NothingSpendsAVoid'
  <2> SUFFICES ASSUME RowsInv, NothingSpendsAVoid, [Next]_vars PROVE NothingSpendsAVoid'
    OBVIOUS
  <2>1. CASE AddStep
    BY <2>1, AddKeepsSpends DEF AddStep
  <2>2. CASE VoidStep
    BY <2>2, VoidKeepsSpends DEF VoidStep
  <2>3. CASE QuietStep
    BY <2>3 DEF QuietStep, NothingSpendsAVoid
  <2> QED
    BY <2>1, <2>2, <2>3, StepShape
<1> QED
  BY <1>1, <1>2, RowsInvariant, PTL DEF Spec

\* Two transactions of the history never spend the same output: the promise
\* of ValidTransactions, kept by addNewTx and by every reorg and void.
THEOREM NothingIsSpentTwice ==
    ASSUME ~DoubleSpends
    PROVE  Spec => []Promise!NoDoubleSpend
<1>1. RowsInv /\ NothingSpendsAVoid => Promise!NoDoubleSpend
  <2> SUFFICES ASSUME NothingSpendsAVoid, NEW t \in Accepted, NEW u \in Accepted,
                      NEW o \in Inputs[t] \cap Inputs[u]
               PROVE  t = u
    BY DEF Promise!NoDoubleSpend
  <2>1. spentBy[o] = t /\ spentBy[o] = u
    BY DEF NothingSpendsAVoid, Accepted
  <2> QED
    BY <2>1
<1> QED
  BY <1>1, RowsInvariant, VoidingIsComplete, PTL

\* No handler creates or loses an amount: the two columns of an address always
\* add up to the value of its unspent outputs.
THEOREM BalancesAreConserved ==
    ASSUME EveryTxHasOutputs, ~DoubleSpends
    PROVE  Spec => []BalanceIsUnspent
<1>1. Init => BalanceIsUnspent
  <2> SUFFICES ASSUME Init, NEW a \in Address
               PROVE  unlockedBal[a] + lockedBal[a] = ValueOf[At(Unspent, a)]
    BY DEF BalanceIsUnspent
  <2>1. At(Unspent, a) = {}
    BY DEF Init, At, Unspent
  <2> DEFINE none == {o \in Output : FALSE}
  <2>2. none \in SUBSET Output /\ none \cap none = {} /\ none \cup none = none /\ none = {}
    OBVIOUS
  <2> HIDE DEF none
  <2>3. ValueOf[{}] = 0
    BY <2>2, ValueAssumption
  <2> QED
    BY <2>1, <2>3 DEF Init
<1>2. RowsInv /\ SpentByValidTx /\ BalanceIsUnspent /\ [Next]_vars => BalanceIsUnspent'
  <2> SUFFICES ASSUME RowsInv, SpentByValidTx, BalanceIsUnspent, [Next]_vars
               PROVE  BalanceIsUnspent'
    OBVIOUS
  <2>1. CASE AddStep
    <3>1. PICK t \in AllTx, unlocks \in SUBSET Output : \E newLocked \in SUBSET OutputsOf(t) :
             /\ unlocks \cap OutputsOf(t) = {}
             /\ \A o \in Inputs[t] :
                   /\ history[TxOf[o]] = "valid"
                   /\ \A u \in AllTx : history[u] = "valid" => o \notin Inputs[u]
             /\ AddNewTx(t, unlocks, newLocked)
      BY <2>1 DEF AddStep
    <3>2. ASSUME NEW o \in Inputs[t]
          PROVE  o \in Unspent
      <4>1. o \in Output /\ utxo[o] = "live"
        BY <3>1, DagAssumption DEF RowsInv, RowsAgree
      <4>2. spentBy[o] = NoTx
        BY <3>1, <4>1 DEF SpentByValidTx, RowsInv, TypeOK, AllTx
      <4> QED
        BY <4>1, <4>2 DEF Unspent
    <3> QED
      BY <3>1, <3>2, AddKeepsBalances
  <2>2. CASE VoidStep
    BY <2>2, VoidKeepsBalances DEF VoidStep
  <2>3. CASE QuietStep
    BY <2>3 DEF QuietStep
  <2> QED
    BY <2>1, <2>2, <2>3, StepShape
<1> QED
  BY <1>1, <1>2, RowsInvariant, SpentBySound, PTL DEF Spec

\* The tables, with every handler that writes them, implement the growing and
\* shrinking set of accepted transactions.
THEOREM KeepsThePromise ==
    ASSUME ~DoubleSpends
    PROVE  Spec => ImplementsPromise
<1>1. Init => Promise!Init
  BY DEF Init, Promise!Init, Accepted
<1>2. RowsInv /\ NothingSpendsAVoid /\ RowsInv' /\ NothingSpendsAVoid' /\ [Next]_vars
        => [Promise!Next]_Accepted
  <2> SUFFICES ASSUME RowsInv, NothingSpendsAVoid, RowsInv', NothingSpendsAVoid', [Next]_vars
               PROVE  [Promise!Next]_Accepted
    OBVIOUS
  <2>1. CASE AddStep
    <3>1. PICK t \in AllTx :
             /\ history[t] # "valid"
             /\ history' = [history EXCEPT ![t] = "valid"]
             /\ \A o \in Inputs[t] :
                   /\ history[TxOf[o]] = "valid"
                   /\ \A u \in AllTx : history[u] = "valid" => o \notin Inputs[u]
      BY <2>1 DEF AddStep, AddNewTx, UtxosWith
    <3>2. \A o \in Inputs[t] : TxOf[o] \in AllTx
      BY DagAssumption
    <3>3. Accepted' = Accepted \cup {t}
      BY <3>1 DEF Accepted, RowsInv, TypeOK
    <3>4. Promise!Accept(t)
      BY <3>1, <3>2, <3>3 DEF Promise!Accept, Accepted
    <3> QED
      BY <3>4 DEF Promise!Next
  <2>2. CASE VoidStep
    <3>1. PICK S \in SUBSET AllTx : /\ \A t \in S : history[t] # "none"
                                    /\ VoidRows(S)
      BY <2>2 DEF VoidStep
    <3>2. Accepted' = Accepted \ S
      BY <3>1, VoidRowsFacts DEF Accepted
    <3>3. Promise!SpendsWithin(Accepted')
      <4>1. ASSUME NEW t \in Accepted', NEW o \in Inputs[t]
            PROVE  TxOf[o] \in Accepted'
        <5>1. t \in AllTx /\ history'[t] = "valid" /\ o \in Output /\ TxOf[o] \in AllTx
          BY DagAssumption DEF Accepted
        <5>2. utxo'[o] = "live"
          BY <5>1 DEF NothingSpendsAVoid
        <5>3. history'[TxOf[o]] = "valid"
          BY <5>1, <5>2 DEF RowsInv, RowsAgree
        <5> QED
          BY <5>1, <5>3 DEF Accepted
      <4> QED
        BY <4>1 DEF Promise!SpendsWithin
    <3>4. Promise!Remove(S)
      BY <3>2, <3>3 DEF Promise!Remove
    <3> QED
      BY <3>4 DEF Promise!Next
  <2>3. CASE QuietStep
    BY <2>3 DEF QuietStep, Accepted
  <2> QED
    BY <2>1, <2>2, <2>3, StepShape
<1> QED
  BY <1>1, <1>2, RowsInvariant, VoidingIsComplete, PTL DEF Spec, ImplementsPromise, Promise!Spec

-----------------------------------------------------------------------------
(* The lock of the rewards *)

\* addNewTx unlocks what it spends, so that an output that a void gives back is
\* never a reward whose height has gone by while it was spent.
SpentIsUnlocked == \A o \in locked : spentBy[o] = NoTx

RewardInv == RowsInv /\ SpentIsUnlocked /\ NoRewardLeftLocked

\* What is locked, live and of a block is above the chain.
LEMMA LockedRewards ==
    ASSUME RewardInv, NEW o \in locked, TxOf[o] \in Block, utxo[o] = "live"
    PROVE  HeightLock(o) > LatestHeight /\ HeightLock(o) \in Nat
<1>1. o \in LockedUnspent
  BY DEF RewardInv, SpentIsUnlocked, RowsInv, TypeOK, LockedUnspent, Unspent
<1>2. HeightLock(o) \in Nat
  BY DagAssumption DEF HeightLock
<1> QED
  BY <1>1, <1>2 DEF RewardInv, NoRewardLeftLocked

LEMMA RewardsNewTx ==
    ASSUME RewardInv, NEW t \in Tx, NEW h \in Nat, NewTx(t, h)
    PROVE  SpentIsUnlocked' /\ NoRewardLeftLocked'
<1> DEFINE unlocks == LockedUtxoFromInputs(t)
           newLocked == MarkLockedOutputs(t)
<1>1. /\ txRow' = [txRow EXCEPT ![t] = "valid"]
      /\ utxo' = UtxosWith(t)
      /\ spentBy' = [o \in Output |-> IF TxOf[o] = t THEN NoTx
                                       ELSE IF o \in Inputs[t] THEN t ELSE spentBy[o]]
      /\ locked' = (locked \ (OutputsOf(t) \cup unlocks)) \cup newLocked
  BY DEF NewTx, AddNewTx
<1>2. locked \subseteq Output /\ newLocked \subseteq OutputsOf(t) /\ t \in AllTx
  BY DEF RewardInv, RowsInv, TypeOK, MarkLockedOutputs, AllTx
<1>3. ASSUME NEW o \in Inputs[t] \cap locked PROVE o \in unlocks
  <2>1. o \in Output /\ utxo[o] = "live" /\ spentBy[o] = NoTx
    BY <1>2, DagAssumption DEF NewTx, FullNodeAccepts, RewardInv, RowsInv, RowsAgree, SpentIsUnlocked
  <2> QED
    BY <2>1 DEF LockedUtxoFromInputs, LockedUnspent, Unspent
<1>4. StoredHeights' = StoredHeights
  BY <1>1, <1>2, DagAssumption DEF StoredHeights, RewardInv, RowsInv, TypeOK, AllTx
<1> HIDE DEF unlocks, newLocked
<1>5. ASSUME NEW o \in locked'
      PROVE  /\ o \in Output
             /\ TxOf[o] = t \/ (o \in locked /\ o \notin Inputs[t])
  BY <1>1, <1>2, <1>3, <1>5 DEF OutputsOf
<1>6. SpentIsUnlocked'
  BY <1>1, <1>5 DEF RewardInv, SpentIsUnlocked
<1>7. ASSUME NEW o \in LockedUnspent', TxOf[o] \in Block
      PROVE  HeightLock(o) > LatestHeight'
  <2>1. o \in Output /\ o \in locked' /\ utxo'[o] = "live"
    BY DEF LockedUnspent, Unspent
  <2>2. TxOf[o] # t
    BY <1>7, DagAssumption
  <2>3. o \in locked /\ utxo[o] = "live"
    BY <1>1, <1>5, <2>1, <2>2 DEF UtxosWith
  <2> QED
    BY <1>4, <1>7, <2>3, LockedRewards DEF LatestHeight
<1> QED
  BY <1>6, <1>7 DEF NoRewardLeftLocked, HeightLock

LEMMA RewardsNewBlock ==
    ASSUME RewardInv, NEW b \in Block, NewBlock(b)
    PROVE  SpentIsUnlocked' /\ NoRewardLeftLocked'
<1> DEFINE unlocks == UtxosLockedAtHeight(Height[b]) \cup (ExpiredTimelocksUtxos \ OutputsOf(b))
<1>1. /\ utxo' = UtxosWith(b)
      /\ spentBy' = [o \in Output |-> IF TxOf[o] = b THEN NoTx
                                       ELSE IF o \in Inputs[b] THEN b ELSE spentBy[o]]
      /\ locked' = (locked \ (OutputsOf(b) \cup unlocks)) \cup OutputsOf(b)
  BY DEF NewBlock, AddNewTx
<1>2. locked \subseteq Output /\ now \in Nat
  BY DagAssumption DEF RewardInv, RowsInv, TypeOK
<1>3. LatestHeight \in Nat /\ LatestHeight' = LatestHeight + 1 /\ Height[b] = LatestHeight + 1
  <2>1. LatestHeight \in Nat /\ StoredHeights = 1 .. LatestHeight /\ Height[b] = LatestHeight + 1
    BY LatestHeightType DEF RewardInv, RowsInv, NewBlock
  <2>2. \A c \in Block : txRow'[c] # "none" <=> txRow[c] # "none" \/ c = b
    BY DEF NewBlock, AddNewTx, RewardInv, RowsInv, TypeOK, AllTx
  <2>3. StoredHeights' = StoredHeights \cup {Height[b]}
    BY <2>2 DEF StoredHeights
  <2>4. StoredHeights' = 1 .. LatestHeight + 1
    BY <2>1, <2>3
  <2>5. LatestHeight' = LatestHeight + 1
    BY <2>1, <2>4, TopOfChain DEF LatestHeight
  <2> QED
    BY <2>1, <2>5
<1>4. ASSUME NEW o \in locked', TxOf[o] # b PROVE o \in locked /\ o \in Output /\ o \notin unlocks
  BY <1>1, <1>2, <1>4 DEF OutputsOf
<1>5. SpentIsUnlocked'
  <2> SUFFICES ASSUME NEW o \in locked' PROVE spentBy'[o] = NoTx
    BY DEF SpentIsUnlocked
  <2>1. o \in Output
    BY <1>1, <1>2 DEF OutputsOf
  <2>2. Inputs[b] = {}
    BY DagAssumption
  <2> QED
    BY <1>1, <1>4, <2>1, <2>2 DEF RewardInv, SpentIsUnlocked
<1>6. ASSUME NEW o \in LockedUnspent', TxOf[o] \in Block
      PROVE  HeightLock(o) > LatestHeight'
  <2>1. o \in Output /\ o \in locked' /\ utxo'[o] = "live"
    BY DEF LockedUnspent, Unspent
  <2>2. CASE TxOf[o] = b
    <3>1. HeightLock(o) = Height[b] + RewardLock /\ RewardLock \in Nat \ {0}
      BY <2>2, DagAssumption DEF HeightLock
    <3> QED
      BY <1>3, <3>1
  <2>3. CASE TxOf[o] # b
    <3>1. o \in locked /\ o \notin UtxosLockedAtHeight(Height[b]) /\ utxo[o] = "live"
      BY <1>1, <1>4, <2>1, <2>3 DEF UtxosWith
    <3>2. HeightLock(o) > LatestHeight /\ HeightLock(o) \in Nat
      BY <1>6, <3>1, LockedRewards
    <3>3. o \in LockedUnspent /\ Timelock[o] <= now
      BY <1>2, <1>6, <2>1, <3>1, DagAssumption DEF LockedUnspent, Unspent, RewardInv, SpentIsUnlocked
    <3>4. HeightLock(o) # Height[b]
      BY <3>1, <3>3 DEF UtxosLockedAtHeight, LockedUnspent, Unspent
    <3> QED
      BY <1>3, <3>2, <3>4
  <2> QED
    BY <2>2, <2>3
<1> QED
  BY <1>5, <1>6 DEF NoRewardLeftLocked, HeightLock

\* A void locks nothing and revives nothing, and lowers the chain if anything.
LEMMA RewardsVoid ==
    ASSUME RewardInv, RowsInv',
           \/ \E r \in Nat : r < LatestHeight /\ ReorgTables(r)
           \/ \E t \in Tx : CronVoid(t)
    PROVE  SpentIsUnlocked' /\ NoRewardLeftLocked'
<1>1. PICK S \in SUBSET AllTx : VoidRows(S) /\ \A t \in S : history[t] # "none"
  BY VoidSteps DEF VoidStep, RewardInv
<1>2. /\ locked' = locked /\ locked \subseteq Output
      /\ \A o \in Output : /\ spentBy[o] = NoTx => spentBy'[o] = NoTx
                           /\ utxo'[o] = "live" => utxo[o] = "live"
  BY <1>1 DEF VoidRows, RewardInv, RowsInv, TypeOK
<1>3. LatestHeight' <= LatestHeight /\ LatestHeight \in Nat /\ LatestHeight' \in Nat
  <2>1. StoredHeights' \subseteq StoredHeights
    <3>1. ASSUME NEW r \in Nat, ReorgTables(r), NEW b \in Block, txRow[b] = "none"
          PROVE  txRow'[b] = "none"
      <4> DEFINE removed == BlocksAfterHeight(r)
                 V == VoidedBy(removed)
      <4>1. txRow' = [t \in AllTx |-> IF t \in removed THEN "none"
                                      ELSE IF t \in V THEN "voided" ELSE txRow[t]]
        BY <3>1 DEF ReorgTables
      <4>2. removed \in SUBSET AllTx
        BY DEF BlocksAfterHeight, AllTx
      <4>3. V \subseteq removed \cup {t \in Tx : txRow[t] = "valid"}
        BY <4>2, VoidedByFacts DEF RewardInv, RowsInv
      <4> HIDE DEF V, removed
      <4> QED
        BY <3>1, <4>1, <4>3 DEF AllTx
    <3>2. ASSUME NEW t \in Tx, CronVoid(t), NEW b \in Block, txRow[b] = "none"
          PROVE  txRow'[b] = "none"
      BY <3>2 DEF CronVoid, AllTx
    <3> QED
      BY <3>1, <3>2 DEF StoredHeights
  <2>2. LatestHeight \in Nat /\ StoredHeights = 1 .. LatestHeight
    BY LatestHeightType DEF RewardInv, RowsInv
  <2>3. PICK n \in Nat : StoredHeights' = 1 .. n
    BY DagAssumption DEF RowsInv, ChainHasNoGaps
  <2>4. LatestHeight' = n
    BY <2>3, TopOfChain DEF LatestHeight
  <2>5. n <= LatestHeight
    <3>1. CASE n = 0
      BY <2>2, <3>1
    <3>2. CASE n # 0
      <4>1. n \in StoredHeights
        BY <2>1, <2>3, <3>2
      <4> QED
        BY <2>2, <4>1
    <3> QED
      BY <3>1, <3>2
  <2> QED
    BY <2>2, <2>4, <2>5
<1>4. SpentIsUnlocked'
  BY <1>2 DEF RewardInv, SpentIsUnlocked
<1>5. ASSUME NEW o \in LockedUnspent', TxOf[o] \in Block
      PROVE  HeightLock(o) > LatestHeight'
  <2>1. o \in locked /\ utxo[o] = "live"
    BY <1>2 DEF LockedUnspent, Unspent
  <2> QED
    BY <1>3, <1>5, <2>1, LockedRewards
<1> QED
  BY <1>4, <1>5 DEF NoRewardLeftLocked, HeightLock

LEMMA RewardsQuiet ==
    ASSUME RewardInv, locked' \subseteq locked, UNCHANGED <<txRow, utxo, spentBy>>
    PROVE  SpentIsUnlocked' /\ NoRewardLeftLocked'
<1>1. LatestHeight' = LatestHeight
  BY DEF LatestHeight, StoredHeights
<1>2. LockedUnspent' \subseteq LockedUnspent
  BY DEF LockedUnspent, Unspent
<1> QED
  BY <1>1, <1>2 DEF RewardInv, SpentIsUnlocked, NoRewardLeftLocked, HeightLock

LEMMA RewardInvStep == RewardInv /\ [Next]_vars => RewardInv'
<1> SUFFICES ASSUME RewardInv, [Next]_vars PROVE RewardInv'
  OBVIOUS
<1>1. RowsInv /\ RowsInv'
  BY RowsInvStep DEF RewardInv
<1>2. ASSUME NEW w \in Wallet, UnlockWallet(w)
      PROVE  SpentIsUnlocked' /\ NoRewardLeftLocked'
  <2>1. locked' \subseteq locked /\ UNCHANGED <<txRow, utxo, spentBy>>
    BY <1>2 DEF UnlockWallet, rowVars
  <2> QED
    BY <2>1, RewardsQuiet
<1>3. ASSUME \/ \E t \in Tx, h \in Nat : ConfirmTx(t, h) \/ CronConfirm(t, h)
             \/ \E t \in Tx : CronSkip(t)
             \/ \E S \in SUBSET Tx : FetchOldMempool(S)
             \/ Tick
             \/ UNCHANGED vars
      PROVE  SpentIsUnlocked' /\ NoRewardLeftLocked'
  <2>1. locked' \subseteq locked /\ UNCHANGED <<txRow, utxo, spentBy>>
    BY <1>1, <1>3, RowsInvOther
  <2> QED
    BY <2>1, RewardsQuiet
<1> QED
  BY <1>1, <1>2, <1>3, StepCases, RewardsNewTx, RewardsNewBlock, RewardsVoid DEF RewardInv

\* getUtxosLockedAtHeight asks for one exact height, and yet no reward stays
\* locked once the chain has reached its height: the chain grows one block at a
\* time, and what is spent, voided or deleted in between comes back unlocked or
\* with a lock still ahead.  For every chain, reward lock and sequence of reorgs.
THEOREM RewardsAreUnlocked == Spec => []NoRewardLeftLocked
<1>1. Init => RewardInv
  BY RowsInvInit DEF Init, RewardInv, SpentIsUnlocked, NoRewardLeftLocked, LockedUnspent
<1>2. RewardInv => NoRewardLeftLocked
  BY DEF RewardInv
<1> QED
  BY <1>1, <1>2, RewardInvStep, PTL DEF Spec

-----------------------------------------------------------------------------
(* wallet_balance and the address_balance rows of the wallet *)

\* What WalletFollowsAddresses asks of a step.
Follows ==
    \A w \in Wallet :
        /\ wUnlocked'[w] - wUnlocked[w] = AddressSum(unlockedBal', w) - AddressSum(unlockedBal, w)
        /\ wLocked'[w] - wLocked[w] = AddressSum(lockedBal', w) - AddressSum(lockedBal, w)

AddressesOfWallet(w) == {a \in Address : WalletOf[a] = w}
ValueAt(S) == [a \in Address |-> ValueOf[At(S, a)]]

LEMMA AddressesAreFinite == IsFiniteSet(Address)
BY DagAssumption

LEMMA ValueOfNone == ValueOf[{}] = 0
<1> DEFINE none == {o \in Output : FALSE}
<1>1. none \in SUBSET Output /\ none \cap none = {} /\ none \cup none = none /\ none = {}
  OBVIOUS
<1> HIDE DEF none
<1> QED
  BY <1>1, ValueAssumption

LEMMA AddressSumIsSum ==
    ASSUME NEW f \in [Address -> Int], NEW w
    PROVE  /\ AddressSum(f, w) = SumOver(f, AddressesOfWallet(w))
           /\ AddressSum(f, w) \in Int
<1>1. AddressSum(f, w) = SumOver(f, AddressesOfWallet(w))
  BY DEF AddressSum, SumOver, AddressesOfWallet
<1>2. AddressesOfWallet(w) \in SUBSET Address
  BY DEF AddressesOfWallet
<1> QED
  BY <1>1, <1>2, SumUnfolds, AddressesAreFinite

\* The outputs of a wallet are worth what those of its addresses are worth.
LEMMA ValueOfWallet ==
    ASSUME NEW S \in SUBSET Output, NEW w
    PROVE  /\ ValueAt(S) \in [Address -> Nat]
           /\ AddressSum(ValueAt(S), w) = ValueOf[OwnedBy(S, w)]
<1> DEFINE g == ValueAt(S)
           From(T) == {o \in S : AddressOf[o] \in T}
           P == {T \in SUBSET Address : SumOver(g, T) = ValueOf[From(T)]}
<1>1. g \in [Address -> Nat] /\ g \in [Address -> Int] /\ \A a \in Address : g[a] = ValueOf[At(S, a)]
  BY ValueType DEF At, ValueAt
<1> HIDE DEF g
<1>2. {} \in P
  <2>1. SumOver(g, {}) = 0
    BY <1>1, SumUnfolds, AddressesAreFinite
  <2>2. From({}) = {}
    OBVIOUS
  <2>3. ValueOf[{}] = 0
    BY ValueOfNone
  <2> QED
    BY <2>1, <2>2, <2>3
<1>3. ASSUME NEW T \in SUBSET Address, NEW x \in Address \ T, T \in P
      PROVE  T \cup {x} \in P
  <2>1. SumOver(g, T \cup {x}) = g[x] + SumOver(g, (T \cup {x}) \ {x})
    BY <1>1, SumWithout, AddressesAreFinite
  <2>2. (T \cup {x}) \ {x} = T
    OBVIOUS
  <2>3. /\ From(T \cup {x}) = From(T) \cup At(S, x) /\ From(T) \cap At(S, x) = {}
        /\ From(T) \in SUBSET Output /\ At(S, x) \in SUBSET Output
    BY DEF At
  <2>4. ValueOf[From(T \cup {x})] = ValueOf[From(T)] + ValueOf[At(S, x)]
    BY <2>3, ValueOfDisjointUnion
  <2>5. ValueOf[From(T)] \in Nat /\ ValueOf[At(S, x)] \in Nat
    BY <2>3, ValueType
  <2>6. SumOver(g, T) = ValueOf[From(T)]
    BY <1>3
  <2>7. g[x] = ValueOf[At(S, x)]
    BY <1>1
  <2>8. SumOver(g, T \cup {x}) = g[x] + SumOver(g, T)
    BY <2>1, <2>2, Zenon
  <2>9. g[x] + SumOver(g, T) = ValueOf[From(T)] + ValueOf[At(S, x)]
    BY <2>5, <2>6, <2>7
  <2>10. SumOver(g, T \cup {x}) = ValueOf[From(T \cup {x})]
    BY <2>4, <2>8, <2>9, Zenon
  <2> QED
    BY <2>10
<1>4. SUBSET Address \subseteq P
  <2> HIDE DEF P
  <2> QED
    BY <1>2, <1>3, InductionOnSets, AddressesAreFinite
<1>5. SumOver(g, AddressesOfWallet(w)) = ValueOf[From(AddressesOfWallet(w))]
  BY <1>4 DEF AddressesOfWallet
<1>6. From(AddressesOfWallet(w)) = OwnedBy(S, w)
  BY DagAssumption DEF OwnedBy, AddressesOfWallet
<1> QED
  BY <1>1, <1>5, <1>6, AddressSumIsSum DEF g

\* Two updates of the same columns, by what comes in and what goes out.
LEMMA SumOfUpdate ==
    ASSUME NEW f \in [Address -> Int], NEW h \in [Address -> Int],
           NEW S \in SUBSET Output, NEW T \in SUBSET Output, NEW w,
           \A a \in Address : h[a] = f[a] + ValueOf[At(S, a)] - ValueOf[At(T, a)]
    PROVE  AddressSum(h, w) - AddressSum(f, w) = ValueOf[OwnedBy(S, w)] - ValueOf[OwnedBy(T, w)]
<1> DEFINE m == [a \in Address |-> f[a] + ValueOf[At(S, a)]]
           A == AddressesOfWallet(w)
<1>1. /\ ValueAt(S) \in [Address -> Int] /\ ValueAt(T) \in [Address -> Int]
      /\ \A a \in Address : /\ ValueAt(S)[a] = ValueOf[At(S, a)] /\ ValueAt(T)[a] = ValueOf[At(T, a)]
                            /\ ValueAt(S)[a] \in Nat /\ ValueAt(T)[a] \in Nat
  <2>1. ValueAt(S) \in [Address -> Nat] /\ ValueAt(T) \in [Address -> Nat]
    BY ValueOfWallet
  <2> QED
    BY <2>1 DEF ValueAt
<1>2. A \in SUBSET Address
  BY DEF AddressesOfWallet
<1>3. m \in [Address -> Int] /\ \A a \in Address : m[a] = f[a] + ValueAt(S)[a]
  BY <1>1
<1>4. \A a \in Address : m[a] = h[a] + ValueAt(T)[a]
  BY <1>1, <1>3
<1> HIDE DEF m, A
<1>5. SumOver(m, A) = SumOver(f, A) + SumOver(ValueAt(S), A)
  BY <1>1, <1>2, <1>3, SumOfPlus, AddressesAreFinite
<1>6. SumOver(m, A) = SumOver(h, A) + SumOver(ValueAt(T), A)
  BY <1>1, <1>2, <1>3, <1>4, SumOfPlus, AddressesAreFinite
<1>7. /\ AddressSum(f, w) = SumOver(f, A) /\ AddressSum(h, w) = SumOver(h, A)
      /\ AddressSum(ValueAt(S), w) = SumOver(ValueAt(S), A)
      /\ AddressSum(ValueAt(T), w) = SumOver(ValueAt(T), A)
      /\ AddressSum(f, w) \in Int /\ AddressSum(h, w) \in Int
      /\ AddressSum(ValueAt(S), w) \in Int /\ AddressSum(ValueAt(T), w) \in Int
  BY <1>1, AddressSumIsSum DEF A
<1>8. /\ AddressSum(ValueAt(S), w) = ValueOf[OwnedBy(S, w)]
      /\ AddressSum(ValueAt(T), w) = ValueOf[OwnedBy(T, w)]
  BY ValueOfWallet
<1> QED
  BY <1>5, <1>6, <1>7, <1>8

\* addNewTx adds to the wallet what it adds to the addresses of the wallet.
LEMMA AddFollows ==
    ASSUME RowsInv, RowsInv', NEW t \in AllTx, NEW unlocks \in SUBSET Output,
           NEW newLocked \in SUBSET OutputsOf(t), AddNewTx(t, unlocks, newLocked)
    PROVE  Follows
<1> DEFINE freed == unlocks \cup (OutputsOf(t) \ newLocked)
<1>1. /\ \A a \in Address :
            /\ unlockedBal'[a] = unlockedBal[a] + ValueOf[At(freed, a)] - ValueOf[At(Inputs[t], a)]
            /\ lockedBal'[a] = lockedBal[a] - ValueOf[At(unlocks, a)] + ValueOf[At(newLocked, a)]
      /\ \A w \in Wallet :
            /\ wUnlocked'[w] = wUnlocked[w] + ValueOf[OwnedBy(freed, w)] - ValueOf[OwnedBy(Inputs[t], w)]
            /\ wLocked'[w] = wLocked[w] - ValueOf[OwnedBy(unlocks, w)] + ValueOf[OwnedBy(newLocked, w)]
  BY DEF AddNewTx, UpdateAddressTables, UpdateWalletTables
<1>2. /\ freed \in SUBSET Output /\ Inputs[t] \in SUBSET Output
      /\ newLocked \in SUBSET Output
  BY DagAssumption DEF OutputsOf
<1>3. /\ unlockedBal \in [Address -> Int] /\ unlockedBal' \in [Address -> Int]
      /\ lockedBal \in [Address -> Int] /\ lockedBal' \in [Address -> Int]
      /\ wUnlocked \in [Wallet -> Int] /\ wLocked \in [Wallet -> Int]
  BY DEF RowsInv, TypeOK
<1> HIDE DEF freed
<1> SUFFICES ASSUME NEW w \in Wallet
             PROVE  /\ wUnlocked'[w] - wUnlocked[w] = AddressSum(unlockedBal', w) - AddressSum(unlockedBal, w)
                    /\ wLocked'[w] - wLocked[w] = AddressSum(lockedBal', w) - AddressSum(lockedBal, w)
  BY DEF Follows
<1>4. AddressSum(unlockedBal', w) - AddressSum(unlockedBal, w)
         = ValueOf[OwnedBy(freed, w)] - ValueOf[OwnedBy(Inputs[t], w)]
  <2>1. \A a \in Address : unlockedBal'[a] =
           unlockedBal[a] + ValueOf[At(freed, a)] - ValueOf[At(Inputs[t], a)]
    BY <1>1
  <2> QED
    BY <1>2, <1>3, <2>1, SumOfUpdate
<1>5. \A a \in Address :
         lockedBal'[a] = lockedBal[a] + ValueOf[At(newLocked, a)] - ValueOf[At(unlocks, a)]
  <2> SUFFICES ASSUME NEW a \in Address
               PROVE  lockedBal'[a] = lockedBal[a] + ValueOf[At(newLocked, a)] - ValueOf[At(unlocks, a)]
    OBVIOUS
  <2>1. ValueOf[At(newLocked, a)] \in Nat /\ ValueOf[At(unlocks, a)] \in Nat
    BY <1>2, ValueType DEF At
  <2>2. lockedBal[a] \in Int
    BY <1>3
  <2> QED
    BY <1>1, <2>1, <2>2
<1>6. AddressSum(lockedBal', w) - AddressSum(lockedBal, w)
         = ValueOf[OwnedBy(newLocked, w)] - ValueOf[OwnedBy(unlocks, w)]
  BY <1>2, <1>3, <1>5, SumOfUpdate
<1>7. /\ ValueOf[OwnedBy(freed, w)] \in Nat /\ ValueOf[OwnedBy(Inputs[t], w)] \in Nat
      /\ ValueOf[OwnedBy(newLocked, w)] \in Nat /\ ValueOf[OwnedBy(unlocks, w)] \in Nat
      /\ wUnlocked[w] \in Int /\ wLocked[w] \in Int
  BY <1>2, <1>3, ValueType DEF OwnedBy
<1>8. wUnlocked'[w] - wUnlocked[w]
         = ValueOf[OwnedBy(freed, w)] - ValueOf[OwnedBy(Inputs[t], w)]
  <2>1. wUnlocked'[w] = wUnlocked[w] + ValueOf[OwnedBy(freed, w)] - ValueOf[OwnedBy(Inputs[t], w)]
    BY <1>1
  <2> QED
    BY <1>7, <2>1
<1>9. wLocked'[w] - wLocked[w] = ValueOf[OwnedBy(newLocked, w)] - ValueOf[OwnedBy(unlocks, w)]
  BY <1>1, <1>7
<1> QED
  BY <1>4, <1>6, <1>8, <1>9

\* So does the unlock of the balances API, which touches one wallet.
LEMMA UnlockFollows ==
    ASSUME RowsInv, RowsInv', NEW v \in Wallet, UnlockWallet(v)
    PROVE  Follows
<1> DEFINE U == WalletUnlockedUtxos(v)
<1>1. /\ \A a \in Address :
            /\ unlockedBal'[a] = unlockedBal[a] + ValueOf[At(U, a)]
            /\ lockedBal'[a] = lockedBal[a] - ValueOf[At(U, a)]
      /\ wUnlocked' = [wUnlocked EXCEPT ![v] = @ + ValueOf[U]]
      /\ wLocked' = [wLocked EXCEPT ![v] = @ - ValueOf[U]]
  BY DEF UnlockWallet
<1>2. U \in SUBSET Output /\ \A o \in U : WalletOf[AddressOf[o]] = v
  BY DEF WalletUnlockedUtxos, OwnedBy, LockedUnspent, Unspent
<1>3. /\ unlockedBal \in [Address -> Int] /\ unlockedBal' \in [Address -> Int]
      /\ lockedBal \in [Address -> Int] /\ lockedBal' \in [Address -> Int]
      /\ wUnlocked \in [Wallet -> Int] /\ wLocked \in [Wallet -> Int]
  BY DEF RowsInv, TypeOK
<1> HIDE DEF U
<1> SUFFICES ASSUME NEW w \in Wallet
             PROVE  /\ wUnlocked'[w] - wUnlocked[w] = AddressSum(unlockedBal', w) - AddressSum(unlockedBal, w)
                    /\ wLocked'[w] - wLocked[w] = AddressSum(lockedBal', w) - AddressSum(lockedBal, w)
  BY DEF Follows
<1>4. \A a \in Address : At({}, a) = {} /\ ValueOf[At({}, a)] = 0
  BY ValueOfNone DEF At
<1>5. OwnedBy({}, w) = {} /\ ValueOf[OwnedBy({}, w)] = 0
  BY ValueOfNone DEF OwnedBy
<1>6. \A a \in Address :
         /\ unlockedBal[a] \in Int /\ lockedBal[a] \in Int /\ ValueOf[At(U, a)] \in Nat
  BY <1>2, <1>3, ValueType DEF At
<1>7. \A a \in Address :
         /\ unlockedBal'[a] = unlockedBal[a] + ValueOf[At(U, a)] - ValueOf[At({}, a)]
         /\ lockedBal'[a] = lockedBal[a] + ValueOf[At({}, a)] - ValueOf[At(U, a)]
  BY <1>1, <1>4, <1>6
<1>8. AddressSum(unlockedBal', w) - AddressSum(unlockedBal, w)
         = ValueOf[OwnedBy(U, w)] - ValueOf[OwnedBy({}, w)]
  BY <1>2, <1>3, <1>7, SumOfUpdate
<1>9. AddressSum(lockedBal', w) - AddressSum(lockedBal, w)
         = ValueOf[OwnedBy({}, w)] - ValueOf[OwnedBy(U, w)]
  BY <1>2, <1>3, <1>7, SumOfUpdate
<1>10. ValueOf[OwnedBy(U, w)] \in Nat /\ ValueOf[U] \in Nat
  BY <1>2, ValueType DEF OwnedBy
<1>11. ValueOf[OwnedBy(U, w)] = IF w = v THEN ValueOf[U] ELSE 0
  <2>1. CASE w = v
    <3>1. OwnedBy(U, w) = U
      BY <1>2, <2>1 DEF OwnedBy
    <3> QED
      BY <2>1, <3>1
  <2>2. CASE w # v
    <3>1. OwnedBy(U, w) = {}
      BY <1>2, <2>2 DEF OwnedBy
    <3> QED
      BY <2>2, <3>1, ValueOfNone
  <2> QED
    BY <2>1, <2>2
<1>12. /\ wUnlocked'[w] - wUnlocked[w] = ValueOf[OwnedBy(U, w)]
       /\ wLocked'[w] - wLocked[w] = 0 - ValueOf[OwnedBy(U, w)]
  BY <1>1, <1>3, <1>10, <1>11
<1> QED
  BY <1>5, <1>8, <1>9, <1>10, <1>12

\* What leaves the balance columns alone.
LEMMA NothingFollows ==
    ASSUME RowsInv, UNCHANGED <<unlockedBal, lockedBal, wUnlocked, wLocked>>
    PROVE  Follows
<1>1. /\ unlockedBal \in [Address -> Int] /\ lockedBal \in [Address -> Int]
      /\ wUnlocked \in [Wallet -> Int] /\ wLocked \in [Wallet -> Int]
  BY DEF RowsInv, TypeOK
<1>2. \A w : AddressSum(unlockedBal, w) \in Int /\ AddressSum(lockedBal, w) \in Int
  BY <1>1, AddressSumIsSum
<1> QED
  BY <1>1, <1>2 DEF Follows

\* A reorg deletes at least the highest block.
LEMMA ReorgVoids ==
    ASSUME RowsInv, NEW r \in Nat, r < LatestHeight, ReorgTables(r)
    PROVE  Voids
<1>1. LatestHeight \in Nat /\ StoredHeights = 1 .. LatestHeight
  BY LatestHeightType DEF RowsInv
<1>2. PICK b \in Block : txRow[b] # "none" /\ Height[b] = LatestHeight
  BY <1>1 DEF StoredHeights
<1>3. history[b] = "valid" /\ txRow[b] = "valid" /\ b \in AllTx
  BY <1>2 DEF RowsInv, RowsAgree, AllTx
<1> DEFINE removed == BlocksAfterHeight(r)
           S == VoidedBy(removed)
<1>4. b \in removed /\ removed \in SUBSET AllTx
  BY <1>2, <1>3 DEF BlocksAfterHeight, AllTx
<1>5. b \in S
  BY <1>4, VoidedByFacts DEF RowsInv
<1>6. VoidRows(S)
  BY DEF ReorgTables
<1> HIDE DEF S
<1>7. history'[b] = "voided"
  BY <1>3, <1>5, <1>6 DEF VoidRows, HistoryWithout
<1> QED
  BY <1>3, <1>7 DEF Voids

LEMMA EitherFollowsOrVoids ==
    ASSUME RowsInv, [Next]_vars
    PROVE  Follows \/ Voids \/ \E t \in Tx : CronVoid(t)
<1>1. RowsInv'
  BY RowsInvStep
<1>2. CASE \/ \E t \in Tx, h \in Nat : NewTx(t, h)
           \/ \E b \in Block : NewBlock(b)
  <2>1. AddStep
    BY <1>2, AddSteps
  <2>2. PICK t \in AllTx, unlocks \in SUBSET Output :
           \E newLocked \in SUBSET OutputsOf(t) : AddNewTx(t, unlocks, newLocked)
    BY <2>1 DEF AddStep
  <2> QED
    BY <1>1, <2>2, AddFollows
<1>3. ASSUME NEW r \in Nat, r < LatestHeight, ReorgTables(r)
      PROVE  Voids
  BY <1>3, ReorgVoids
<1>4. ASSUME NEW w \in Wallet, UnlockWallet(w)
      PROVE  Follows
  BY <1>1, <1>4, UnlockFollows
<1>5. CASE \/ \E t \in Tx, h \in Nat : ConfirmTx(t, h) \/ CronConfirm(t, h)
           \/ \E t \in Tx : CronSkip(t)
           \/ \E S \in SUBSET Tx : FetchOldMempool(S)
           \/ Tick
           \/ UNCHANGED vars
  <2>1. UNCHANGED balanceVars
    BY <1>5, RowsInvOther
  <2>2. UNCHANGED walletVars
    BY <1>5 DEF ConfirmTx, CronConfirm, CronSkip, FetchOldMempool, Tick, vars
  <2> QED
    BY <2>1, <2>2, NothingFollows DEF balanceVars, walletVars
<1> QED
  BY <1>2, <1>3, <1>4, <1>5, StepCases

\* The wallets are updated with the addresses by every handler but those that
\* rebuild address_balance: for every chain, timelock and conflict, and whatever
\* the columns have come to say.
THEOREM WalletsFollowUnlessRebuilt ==
    Spec => [][Voids \/ (\E t \in Tx : CronVoid(t)) \/ Follows]_vars
<1>1. RowsInv /\ [Next]_vars => [Voids \/ (\E t \in Tx : CronVoid(t)) \/ Follows]_vars
  BY EitherFollowsOrVoids
<1> QED
  BY <1>1, RowsInvariant, PTL DEF Spec

\* The cron may void once more what a reorg voided while it was at work.  That
\* rebuilds address_balance and leaves wallet_balance alone, so that the wallet
\* follows only if the rebuild changes nothing: the locked column must be right.
LockedIsExact == \A a \in Address : lockedBal[a] = ValueOf[At(LockedUnspent, a)]

\* It is not right any more when a row that was voided with its timelock is
\* unlocked (the run Ledger_void_timelock).
NoTimelockIsVoided == \A o \in locked : Timelock[o] # 0 => utxo[o] # "voided"

LEMMA AddKeepsLocked ==
    ASSUME RowsInv, LockedIsExact, NEW t \in AllTx,
           NEW unlocks \in SUBSET LockedUnspent, NEW newLocked \in SUBSET OutputsOf(t),
           Inputs[t] \cap LockedUnspent \subseteq unlocks,
           AddNewTx(t, unlocks, newLocked)
    PROVE  LockedIsExact'
<1> SUFFICES ASSUME NEW a \in Address
             PROVE  lockedBal'[a] = ValueOf[At(LockedUnspent', a)]
  BY DEF LockedIsExact, At, LockedUnspent, Unspent
<1> DEFINE kept == LockedUnspent \ unlocks
<1>1. LockedUnspent' = kept \cup newLocked /\ kept \cap newLocked = {}
  <2>1. \A o \in Output :
           /\ utxo'[o] = IF TxOf[o] = t THEN "live" ELSE utxo[o]
           /\ spentBy'[o] = IF TxOf[o] = t THEN NoTx
                            ELSE IF o \in Inputs[t] THEN t ELSE spentBy[o]
           /\ TxOf[o] = t => utxo[o] # "live"
    BY DEF AddNewTx, UtxosWith, RowsInv, RowsAgree
  <2>2. t # NoTx
    BY DagAssumption
  <2>3. locked' = (locked \ (OutputsOf(t) \cup unlocks)) \cup newLocked
    BY DEF AddNewTx
  <2> QED
    BY <2>1, <2>2, <2>3 DEF LockedUnspent, Unspent, OutputsOf
<1>2. /\ At(LockedUnspent', a) = At(kept, a) \cup At(newLocked, a)
      /\ At(kept, a) \cap At(newLocked, a) = {}
      /\ At(LockedUnspent, a) = At(kept, a) \cup At(unlocks, a)
      /\ At(kept, a) \cap At(unlocks, a) = {}
  BY <1>1 DEF At
<1>3. /\ At(kept, a) \in SUBSET Output /\ At(newLocked, a) \in SUBSET Output
      /\ At(unlocks, a) \in SUBSET Output
  BY DEF At, LockedUnspent, Unspent, OutputsOf
<1>4. lockedBal'[a] = lockedBal[a] - ValueOf[At(unlocks, a)] + ValueOf[At(newLocked, a)]
  BY DEF AddNewTx, UpdateAddressTables
<1> HIDE DEF kept
<1>5. /\ ValueOf[At(LockedUnspent', a)] = ValueOf[At(kept, a)] + ValueOf[At(newLocked, a)]
      /\ ValueOf[At(LockedUnspent, a)] = ValueOf[At(kept, a)] + ValueOf[At(unlocks, a)]
  BY <1>2, <1>3, ValueOfDisjointUnion
<1>6. /\ ValueOf[At(kept, a)] \in Nat /\ ValueOf[At(newLocked, a)] \in Nat
      /\ ValueOf[At(unlocks, a)] \in Nat
  BY <1>3, ValueType
<1>7. lockedBal[a] = ValueOf[At(LockedUnspent, a)]
  BY DEF LockedIsExact
<1> QED
  BY <1>4, <1>5, <1>6, <1>7

LEMMA UnlockKeepsLocked ==
    ASSUME RowsInv, LockedIsExact, NEW w \in Wallet, UnlockWallet(w)
    PROVE  LockedIsExact'
<1> SUFFICES ASSUME NEW a \in Address
             PROVE  lockedBal'[a] = ValueOf[At(LockedUnspent', a)]
  BY DEF LockedIsExact, At, LockedUnspent, Unspent
<1> DEFINE U == WalletUnlockedUtxos(w)
           kept == LockedUnspent \ U
<1>1. LockedUnspent' = kept /\ U \subseteq LockedUnspent
  BY DEF UnlockWallet, rowVars, LockedUnspent, Unspent, WalletUnlockedUtxos, OwnedBy
<1>2. lockedBal'[a] = lockedBal[a] - ValueOf[At(U, a)]
  BY DEF UnlockWallet
<1>3. /\ At(LockedUnspent, a) = At(kept, a) \cup At(U, a) /\ At(kept, a) \cap At(U, a) = {}
      /\ At(kept, a) \in SUBSET Output /\ At(U, a) \in SUBSET Output
  BY <1>1 DEF At, LockedUnspent, Unspent
<1> HIDE DEF U, kept
<1>4. ValueOf[At(LockedUnspent, a)] = ValueOf[At(kept, a)] + ValueOf[At(U, a)]
  BY <1>3, ValueOfDisjointUnion
<1>5. ValueOf[At(kept, a)] \in Nat /\ ValueOf[At(U, a)] \in Nat
  BY <1>3, ValueType
<1>6. lockedBal[a] = ValueOf[At(LockedUnspent, a)]
  BY DEF LockedIsExact
<1> QED
  BY <1>1, <1>2, <1>4, <1>5, <1>6

LEMMA VoidKeepsLocked ==
    ASSUME LockedIsExact, NEW S, NEW counted,
           VoidRows(S), RebuildAddressBalances(S, counted)
    PROVE  LockedIsExact'
<1> SUFFICES ASSUME NEW a \in Address
             PROVE  lockedBal'[a] = ValueOf[At(LockedUnspent', a)]
  BY DEF LockedIsExact, At, LockedUnspent, Unspent
<1>1. CASE a \in AffectedAddresses(S)
  BY <1>1 DEF RebuildAddressBalances
<1>2. CASE a \notin AffectedAddresses(S)
  <2>1. \A o \in Output : AddressOf[o] = a => utxo'[o] = utxo[o] /\ spentBy'[o] = spentBy[o]
    BY <1>2 DEF AffectedAddresses, Affected, VoidRows, HistoryWithout
  <2>2. locked' = locked
    BY DEF VoidRows
  <2>3. At(LockedUnspent', a) = At(LockedUnspent, a)
    BY <2>1, <2>2 DEF At, LockedUnspent, Unspent
  <2>4. lockedBal'[a] = lockedBal[a]
    BY <1>2 DEF RebuildAddressBalances
  <2> QED
    BY <2>3, <2>4 DEF LockedIsExact
<1> QED
  BY <1>1, <1>2

LEMMA LockedStaysExact ==
    ASSUME RewardInv, NoTimelockIsVoided, LockedIsExact, [Next]_vars
    PROVE  LockedIsExact'
<1>1. RowsInv /\ SpentIsUnlocked
  BY DEF RewardInv
<1>2. ASSUME NEW t \in Tx, NEW h \in Nat, NewTx(t, h)
      PROVE  LockedIsExact'
  <2> DEFINE unlocks == LockedUtxoFromInputs(t)
             newLocked == MarkLockedOutputs(t)
  <2>1. /\ AddNewTx(t, unlocks, newLocked) /\ t \in AllTx
        /\ unlocks \in SUBSET LockedUnspent /\ Inputs[t] \cap LockedUnspent \subseteq unlocks
        /\ newLocked \in SUBSET OutputsOf(t)
    BY <1>2 DEF NewTx, LockedUtxoFromInputs, MarkLockedOutputs, AllTx
  <2> HIDE DEF unlocks, newLocked
  <2> QED
    BY <1>1, <2>1, AddKeepsLocked
<1>3. ASSUME NEW b \in Block, NewBlock(b)
      PROVE  LockedIsExact'
  <2> DEFINE unlocks == UtxosLockedAtHeight(Height[b]) \cup (ExpiredTimelocksUtxos \ OutputsOf(b))
  <2>1. AddNewTx(b, unlocks, OutputsOf(b)) /\ b \in AllTx /\ Inputs[b] = {}
    BY <1>3, DagAssumption DEF NewBlock, AllTx
  <2>2. ASSUME NEW o \in ExpiredTimelocksUtxos
        PROVE  o \in LockedUnspent
    <3>1. o \in locked /\ o \in Output /\ Timelock[o] # 0 /\ utxo[o] # "none"
      BY <1>1 DEF ExpiredTimelocksUtxos, RowsInv, TypeOK
    <3>2. utxo[o] = "live"
      BY <1>1, <3>1 DEF NoTimelockIsVoided, RowsInv, TypeOK
    <3>3. spentBy[o] = NoTx
      BY <1>1, <3>1 DEF SpentIsUnlocked
    <3> QED
      BY <3>1, <3>2, <3>3 DEF LockedUnspent, Unspent
  <2>3. unlocks \in SUBSET LockedUnspent
    BY <2>2 DEF UtxosLockedAtHeight
  <2> HIDE DEF unlocks
  <2> QED
    BY <1>1, <2>1, <2>3, AddKeepsLocked
<1>4. ASSUME NEW w \in Wallet, UnlockWallet(w)
      PROVE  LockedIsExact'
  BY <1>1, <1>4, UnlockKeepsLocked
<1>5. CASE \/ \E r \in Nat : ReorgTables(r)
           \/ \E t \in Tx : CronVoid(t)
  <2>1. VoidStep
    BY <1>1, <1>5, VoidSteps
  <2> QED
    BY <2>1, VoidKeepsLocked DEF VoidStep
<1>6. CASE \/ \E t \in Tx, h \in Nat : ConfirmTx(t, h) \/ CronConfirm(t, h)
           \/ \E t \in Tx : CronSkip(t)
           \/ \E S \in SUBSET Tx : FetchOldMempool(S)
           \/ Tick
           \/ UNCHANGED vars
  <2>1. UNCHANGED <<txRow, history, utxo, spentBy, locked, balanceVars>>
    BY <1>1, <1>6, RowsInvOther
  <2> QED
    BY <2>1 DEF LockedIsExact, At, LockedUnspent, Unspent, balanceVars
<1> QED
  BY <1>1, <1>2, <1>3, <1>4, <1>5, <1>6, StepCases

\* With exact columns a void of what is void already rebuilds what was there.
LEMMA VoidAgainFollows ==
    ASSUME RowsInv, RowsInv', SpentByValidTx, BalanceIsUnspent, LockedIsExact,
           NEW t \in Tx, CronVoid(t), ~Voids
    PROVE  Follows
<1> DEFINE S == VoidedBy({t})
<1>2. PICK counted : VoidRows(S) /\ RebuildAddressBalances(S, counted)
  BY DEF CronVoid
<1>3. S \in SUBSET AllTx /\ S \subseteq {t} \cup {u \in Tx : txRow[u] = "valid"}
  BY VoidedByFacts DEF RowsInv, AllTx
<1>4. \A u \in S : history[u] # "none"
  BY <1>3 DEF CronVoid, RowsInv, RowsAgree, WorklistIsKnown
<1> HIDE DEF S
<1>5. ASSUME NEW u \in S
      PROVE  history[u] = "voided"
  <2>1. u \in AllTx /\ history'[u] = "voided"
    BY <1>2, <1>3, <1>4, VoidRowsFacts
  <2>2. history[u] # "valid"
    BY <2>1 DEF Voids
  <2> QED
    BY <1>4, <2>1, <2>2 DEF RowsInv, TypeOK, Status
<1>6. \A o \in Output : spentBy[o] # NoTx => spentBy[o] \notin S
  BY <1>5 DEF SpentByValidTx
<1>7. SpentOutputs(S) \subseteq {o \in Output : spentBy[o] \in S}
  BY DEF SpentOutputs, RowsOf
<1>8. \A o \in Output : spentBy'[o] = spentBy[o]
  <2> SUFFICES ASSUME NEW o \in Output, o \in SpentOutputs(S)
               PROVE  spentBy[o] = NoTx
    BY <1>2 DEF VoidRows
  <2> QED
    BY <1>6, <1>7
<1>9. \A o \in Output : utxo'[o] = "live" <=> utxo[o] = "live"
  <2> SUFFICES ASSUME NEW o \in Output, TxOf[o] \in S
               PROVE  utxo[o] = "voided"
    BY <1>2, <1>3, <1>4, VoidRowsFacts
  <2> QED
    BY <1>5 DEF RowsInv, RowsAgree
<1>10. Unspent' = Unspent /\ LockedUnspent' = LockedUnspent
  BY <1>2, <1>8, <1>9 DEF Unspent, LockedUnspent, VoidRows
<1>11. ASSUME NEW a \in Address
       PROVE  unlockedBal'[a] = unlockedBal[a] /\ lockedBal'[a] = lockedBal[a]
  <2> DEFINE free == At(Unspent \ LockedUnspent, a)
             held == At(LockedUnspent, a)
  <2>1. /\ free \in SUBSET Output /\ held \in SUBSET Output /\ free \cap held = {}
        /\ free \cup held = At(Unspent, a)
    BY DEF At, Unspent, LockedUnspent
  <2>2. ValueOf[At(Unspent, a)] = ValueOf[free] + ValueOf[held]
    BY <2>1, ValueOfDisjointUnion
  <2>3. ValueOf[free] \in Nat /\ ValueOf[held] \in Nat
    BY <2>1, ValueType
  <2>4. unlockedBal[a] + lockedBal[a] = ValueOf[At(Unspent, a)] /\ lockedBal[a] = ValueOf[held]
    BY DEF BalanceIsUnspent, LockedIsExact
  <2>5. unlockedBal[a] = ValueOf[free]
    <3>1. unlockedBal[a] \in Nat
      BY DEF RowsInv, TypeOK
    <3> QED
      BY <2>2, <2>3, <2>4, <3>1
  <2>6. CASE a \in AffectedAddresses(S)
    <3>1. unlockedBal'[a] = ValueOf[free] /\ lockedBal'[a] = ValueOf[held]
      BY <1>2, <1>10, <2>6 DEF RebuildAddressBalances
    <3> QED
      BY <2>4, <2>5, <3>1
  <2>7. CASE a \notin AffectedAddresses(S)
    BY <1>2, <2>7 DEF RebuildAddressBalances
  <2> QED
    BY <2>6, <2>7
<1>12. unlockedBal' = unlockedBal /\ lockedBal' = lockedBal
  BY <1>11 DEF RowsInv, TypeOK
<1>13. wUnlocked' = wUnlocked /\ wLocked' = wLocked
  BY DEF CronVoid, walletVars
<1> QED
  BY <1>12, <1>13, NothingFollows

\* wallet_balance moves in step with the rows of its addresses in every call that
\* voids nothing, for every chain, wallet, number of addresses and order of blocks,
\* transactions, reorgs and unlocks, as long as no row is voided while a timelock
\* holds it (the run Ledger_void_timelock shows what that leads to).
THEOREM WalletsFollow ==
    ASSUME EveryTxHasOutputs, ~DoubleSpends
    PROVE  Spec /\ []NoTimelockIsVoided => WalletFollowsAddresses
<1>1. Init => LockedIsExact
  <2> SUFFICES ASSUME Init, NEW a \in Address
               PROVE  lockedBal[a] = ValueOf[At(LockedUnspent, a)]
    BY DEF LockedIsExact
  <2>1. At(LockedUnspent, a) = {}
    BY DEF Init, At, LockedUnspent, Unspent
  <2> QED
    BY <2>1, ValueOfNone DEF Init
<1>2. RewardInv /\ NoTimelockIsVoided /\ LockedIsExact /\ [Next]_vars => LockedIsExact'
  BY LockedStaysExact
<1>3. RowsInv /\ SpentByValidTx /\ BalanceIsUnspent /\ LockedIsExact /\ [Next]_vars
         => [~Voids => Follows]_vars
  BY EitherFollowsOrVoids, VoidAgainFollows, RowsInvStep
<1>4. [~Voids => Follows]_vars
         => [~Voids => \A w \in Wallet :
                /\ wUnlocked'[w] - wUnlocked[w] =
                      AddressSum(unlockedBal', w) - AddressSum(unlockedBal, w)
                /\ wLocked'[w] - wLocked[w] =
                      AddressSum(lockedBal', w) - AddressSum(lockedBal, w)]_vars
  BY DEF Follows
<1>5. Spec => []RewardInv
  <2>1. Init => RewardInv
    BY RowsInvInit DEF Init, RewardInv, SpentIsUnlocked, NoRewardLeftLocked, LockedUnspent
  <2> QED
    BY <2>1, RewardInvStep, PTL DEF Spec
<1>6. Spec /\ []NoTimelockIsVoided => []LockedIsExact
  BY <1>1, <1>2, <1>5, PTL DEF Spec
<1> QED
  BY <1>3, <1>4, <1>6, RowsInvariant, SpentBySound, BalancesAreConserved, PTL
     DEF Spec, WalletFollowsAddresses

-----------------------------------------------------------------------------
(* ReorgSearch: the search for the last valid block *)

USE BestHeightAssumption

\* The search closes in: what is below start was valid when probed, what is
\* above end was voided when probed.
SearchInv ==
    /\ SearchTypeOK
    /\ lowestFork <= fork /\ fork <= highestFork
    /\ start <= end + 1
    /\ lowestFork - 1 <= end
    /\ start <= highestFork
    /\ IF start > 0 THEN latestValidBlock = start - 1
                    ELSE latestValidBlock = BestHeight
    /\ searching \/ start > end

LEMMA InitSearchInv == SearchInit => SearchInv
BY DEF SearchInit, SearchInv, SearchTypeOK, Fork

LEMMA MidIsBetween ==
    ASSUME SearchInv, start <= end
    PROVE  midHeight \in start..end
BY DEF SearchInv, SearchTypeOK, midHeight

LEMMA NextSearchInv == SearchInv /\ [SearchNext]_searchVars => SearchInv'
<1> SUFFICES ASSUME SearchInv, [SearchNext]_searchVars PROVE SearchInv'
    OBVIOUS
<1>1. CASE Probe
    <2>1. midHeight \in start..end /\ midHeight \in 0..BestHeight
        BY <1>1, MidIsBetween DEF Probe, SearchInv, SearchTypeOK
    <2> DEFINE m == midHeight
    <2>2. CASE ~isVoided(m)
        <3>1. /\ latestValidBlock' = m /\ start' = m + 1 /\ end' = end
              /\ UNCHANGED <<fork, lowestFork, highestFork, searching>>
            BY <1>1, <2>2 DEF Probe
        <3>2. m < fork
            BY <2>1, <2>2 DEF isVoided, SearchInv, SearchTypeOK, Fork
        <3> HIDE DEF m
        <3> QED
            BY <1>1, <2>1, <3>1, <3>2 DEF Probe, SearchInv, SearchTypeOK, Fork, m
    <2>3. CASE isVoided(m)
        <3>1. /\ end' = m - 1
              /\ UNCHANGED <<fork, lowestFork, highestFork, searching, start, latestValidBlock>>
            BY <1>1, <2>3 DEF Probe
        <3>2. m >= fork
            BY <2>3 DEF isVoided
        <3> QED
            BY <1>1, <2>1, <3>1, <3>2 DEF Probe, SearchInv, SearchTypeOK, Fork
    <2> QED
        BY <2>2, <2>3
<1>2. CASE Return
    BY <1>2 DEF Return, SearchInv, SearchTypeOK
<1>3. ASSUME NEW h \in Fork, Reorganise(h) PROVE SearchInv'
    BY <1>3 DEF Reorganise, SearchInv, SearchTypeOK, Fork
<1>4. CASE UNCHANGED searchVars
    BY <1>4 DEF searchVars, SearchInv, SearchTypeOK
<1> QED
    BY <1>1, <1>2, <1>3, <1>4 DEF SearchNext, Search

\* searchForLatestValidBlock returns the block before the fork, for every chain
\* length, or one between the forks seen while it runs.
THEOREM SearchFindsTheFork == SearchSpec => []FindsTheFork
<1>1. SearchInv => FindsTheFork
    BY DEF SearchInv, SearchTypeOK, Fork, FindsTheFork
<1> QED
    BY <1>1, InitSearchInv, NextSearchInv, PTL DEF SearchSpec
=============================================================================
