------------------------------- MODULE Ledger -------------------------------
(***************************************************************************)
(* The tables the transaction processor keeps in MySQL, and the handlers   *)
(* that write them: addNewTx (src/txProcessor.ts), handleReorg and         *)
(* handleVoided (src/commons.ts), the old-mempool cron (src/mempool.ts)    *)
(* and the lazy unlock behind the balances API.                            *)
(*                                                                         *)
(* A handler that runs inside transactionDecorator is one action: it       *)
(* commits as a whole or, when an assertion or an UNSIGNED column stops    *)
(* it, leaves every table as it was, so a rolled-back call is a stutter.   *)
(* One token is modelled: the code repeats the same statements per token.  *)
(***************************************************************************)
EXTENDS Integers, FiniteSets, FiniteSetsExt

CONSTANTS
    Tx,             \* transactions that are not blocks
    Block,          \* blocks
    Output,         \* (tx_id, index) of every decodable output
    Address, Wallet,
    TxOf,           \* the transaction or block an output belongs to
    Inputs,         \* the outputs a transaction spends
    AddressOf,      \* decoded address of an output
    WalletOf,       \* the started wallet an address belongs to, or NoWallet
    Rank,           \* position of an address in ORDER BY address
    Timelock,       \* timelock of an output, 0 standing for NULL
    Height,         \* height of a block
    RewardLock,     \* BLOCK_REWARD_LOCK
    ValueOf,        \* SUM(value) of a set of outputs
    TokenTx,        \* the transactions of version CREATE_TOKEN_TX_VERSION
    DoubleSpends,   \* may a mempool transaction conflict with a known one?
    MaxBalance,     \* the largest value of a balance column
    MaxTime,        \* bound on the clock
    NoTx, NoWallet

AllTx == Tx \cup Block
NoHeight == 0       \* transaction.height IS NULL (genesis is rejected by addNewTx)

ASSUME DagAssumption ==
    /\ Tx \cap Block = {}
    /\ IsFiniteSet(AllTx)
    /\ IsFiniteSet(Address)
    /\ NoTx \notin AllTx
    /\ NoWallet \notin Wallet
    /\ TokenTx \subseteq Tx
    /\ TxOf \in [Output -> AllTx]
    /\ Inputs \in [AllTx -> SUBSET Output]
    /\ \A b \in Block : Inputs[b] = {}
    /\ \A t \in AllTx : \A o \in Inputs[t] : TxOf[o] # t
    /\ AddressOf \in [Output -> Address]
    /\ WalletOf \in [Address -> Wallet \cup {NoWallet}]
    /\ Timelock \in [Output -> Nat]
    /\ \A o \in Output : TxOf[o] \in Block => Timelock[o] = 0
    /\ Height \in [Block -> Nat \ {0}]
    /\ RewardLock \in Nat \ {0}
    /\ MaxTime \in Nat
    /\ MaxBalance \in Nat
    /\ DoubleSpends \in BOOLEAN

\* SQL's SUM and the loops over outputs add up values: all the ledger needs
\* of them is that the value of two disjoint sets is the sum of their values.
ASSUME ValueAssumption ==
    /\ ValueOf \in [SUBSET Output -> Nat]
    /\ \A S, T \in SUBSET Output :
          S \cap T = {} => ValueOf[S \cup T] = ValueOf[S] + ValueOf[T]

VARIABLES
    txRow,          \* transaction: no row, a valid row or one marked voided
    height,         \* transaction.height of the transactions
    history,        \* address_tx_history rows of a transaction
    utxo,           \* tx_output row: none, live or voided
    spentBy,        \* tx_output.spent_by
    locked,         \* tx_output.locked
    unlockedBal, lockedBal, txCount,    \* address_balance
    wUnlocked, wLocked,                 \* wallet_balance
    tokenRow,       \* token: the creating transactions of the stored tokens
    worklist,       \* onHandleOldVoidedTxs: the rows read and still to handle
    now             \* getUnixTimestamp()

rowVars == <<txRow, height, history, utxo, spentBy, tokenRow>>
balanceVars == <<unlockedBal, lockedBal, txCount>>
walletVars == <<wUnlocked, wLocked>>
vars == <<rowVars, locked, balanceVars, walletVars, worklist, now>>

Status == {"none", "valid", "voided"}

TypeOK ==
    /\ txRow \in [AllTx -> Status]
    /\ height \in [Tx -> Nat]
    /\ history \in [AllTx -> Status]
    /\ utxo \in [Output -> {"none", "live", "voided"}]
    /\ spentBy \in [Output -> Tx \cup {NoTx}]
    /\ locked \subseteq Output
    /\ unlockedBal \in [Address -> Nat]
    /\ lockedBal \in [Address -> Nat]
    /\ txCount \in [Address -> Nat]
    /\ wUnlocked \in [Wallet -> Nat]
    /\ wLocked \in [Wallet -> Nat]
    /\ tokenRow \subseteq TokenTx
    /\ worklist \subseteq Tx
    /\ now \in 0 .. MaxTime

-----------------------------------------------------------------------------
(* Queries *)

OutputsOf(t) == {o \in Output : TxOf[o] = t}
HeightLock(o) == IF TxOf[o] \in Block THEN Height[TxOf[o]] + RewardLock ELSE 0
At(S, a) == {o \in S : AddressOf[o] = a}
OwnedBy(S, w) == {o \in S : WalletOf[AddressOf[o]] = w}

\* The addresses getAddressBalanceMap has an entry for.
AddressesOf(t) == {AddressOf[o] : o \in OutputsOf(t) \cup Inputs[t]}

StoredHeights == {Height[b] : b \in {c \in Block : txRow[c] # "none"}}
LatestHeight == Max({0} \cup StoredHeights)

Unspent == {o \in Output : utxo[o] = "live" /\ spentBy[o] = NoTx}
LockedUnspent == Unspent \cap locked

\* Mutant: the rewards of the height before.
UtxosLockedBelowHeight(h) ==
    {o \in LockedUnspent : HeightLock(o) + 1 = h /\ Timelock[o] <= now}

UtxosLockedAtHeight(h) ==
    {o \in LockedUnspent : HeightLock(o) = h /\ Timelock[o] <= now}

\* The query asks for locked rows only: spent and voided ones are included.
ExpiredTimelocksUtxos ==
    {o \in locked : utxo[o] # "none" /\ Timelock[o] # 0 /\ Timelock[o] < now}

LockedUtxoFromInputs(t) == Inputs[t] \cap LockedUnspent

WalletUnlockedUtxos(w) ==
    {o \in OwnedBy(LockedUnspent, w) :
        HeightLock(o) <= LatestHeight /\ Timelock[o] <= now}

-----------------------------------------------------------------------------
(* addNewTx *)

\* UNSIGNED columns: an UPDATE that would go below zero, or past the largest
\* value of the column, is an error and rolls the call back.
UpdateAddressTables(t, unlocks, newLocked) ==
    LET gained(a) == ValueOf[At(unlocks \cup (OutputsOf(t) \ newLocked), a)]
        paid(a) == ValueOf[At(Inputs[t], a)]
        released(a) == ValueOf[At(unlocks, a)]
        added(a) == ValueOf[At(newLocked, a)]
    IN  /\ \A a \in Address :
              /\ lockedBal[a] >= released(a)
              /\ lockedBal[a] - released(a) + added(a) <= MaxBalance
              /\ unlockedBal[a] + gained(a) - paid(a) \in 0 .. MaxBalance
        /\ unlockedBal' = [a \in Address |-> unlockedBal[a] + gained(a) - paid(a)]
        /\ lockedBal' = [a \in Address |-> lockedBal[a] - released(a) + added(a)]
        /\ txCount' = [a \in Address |->
              IF a \in AddressesOf(t) THEN txCount[a] + 1 ELSE txCount[a]]

\* Mutant: the wallet does not gain what the call unlocks.
ForgetUnlocksOfWallet(t, unlocks, newLocked) ==
    /\ wUnlocked' = [w \in Wallet |-> wUnlocked[w]
          + ValueOf[OwnedBy(OutputsOf(t) \ newLocked, w)] - ValueOf[OwnedBy(Inputs[t], w)]]
    /\ wLocked' = [w \in Wallet |-> wLocked[w]
          - ValueOf[OwnedBy(unlocks, w)] + ValueOf[OwnedBy(newLocked, w)]]

UpdateWalletTables(t, unlocks, newLocked) ==
    LET gained(w) == ValueOf[OwnedBy(unlocks \cup (OutputsOf(t) \ newLocked), w)]
        paid(w) == ValueOf[OwnedBy(Inputs[t], w)]
        released(w) == ValueOf[OwnedBy(unlocks, w)]
        added(w) == ValueOf[OwnedBy(newLocked, w)]
    IN  /\ \A w \in Wallet :
              /\ wLocked[w] >= released(w)
              /\ wLocked[w] - released(w) + added(w) <= MaxBalance
              /\ wUnlocked[w] + gained(w) - paid(w) \in 0 .. MaxBalance
        /\ wUnlocked' = [w \in Wallet |-> wUnlocked[w] + gained(w) - paid(w)]
        /\ wLocked' = [w \in Wallet |-> wLocked[w] - released(w) + added(w)]

\* tx_output once the outputs of t are written, over the rows of a past life.
UtxosWith(t) == [o \in Output |-> IF TxOf[o] = t THEN "live" ELSE utxo[o]]

\* fetchTx found no valid row. The rows of a voided past life are deleted
\* and written again; an input without a tx_output row stops the call.
AddNewTx(t, unlocks, newLocked) ==
    /\ txRow[t] # "valid"
    /\ history[t] # "valid"
    /\ \A o \in Inputs[t] : utxo[o] # "none"
    /\ txRow' = [txRow EXCEPT ![t] = "valid"]
    /\ history' = [history EXCEPT ![t] = "valid"]
    /\ utxo' = UtxosWith(t)
    /\ spentBy' = [o \in Output |-> IF TxOf[o] = t THEN NoTx
                                    ELSE IF o \in Inputs[t] THEN t ELSE spentBy[o]]
    /\ locked' = (locked \ (OutputsOf(t) \cup unlocks)) \cup newLocked
    /\ UpdateAddressTables(t, unlocks, newLocked)
    /\ UpdateWalletTables(t, unlocks, newLocked)
    /\ UNCHANGED <<worklist, now>>

\* The full node sends a transaction after the ones it spends, when the locks
\* of its inputs have expired, and never one that conflicts with another valid
\* transaction; but it may have voided the other one without our knowing yet.
FullNodeAccepts(t) ==
    \A o \in Inputs[t] :
        /\ history[TxOf[o]] = "valid"
        /\ Timelock[o] <= now
        /\ HeightLock(o) <= LatestHeight
        /\ DoubleSpends \/ \A u \in AllTx : history[u] = "valid" => o \notin Inputs[u]

\* The outputs of a transaction that its timelocks lock.
MarkLockedOutputs(t) == {o \in OutputsOf(t) : Timelock[o] > now}

NewTx(t, h) ==
    /\ FullNodeAccepts(t)
    /\ t \notin tokenRow
    /\ AddNewTx(t, LockedUtxoFromInputs(t), MarkLockedOutputs(t))
    /\ height' = [height EXCEPT ![t] = h]
    /\ tokenRow' = tokenRow \cup ({t} \cap TokenTx)

\* A block unlocks the rewards whose height it reaches and every expired
\* timelock; its own outputs are locked by height.
NewBlock(b) ==
    /\ Height[b] = LatestHeight + 1
    /\ LET expired == ExpiredTimelocksUtxos \ OutputsOf(b)
       IN  AddNewTx(b, UtxosLockedAtHeight(Height[b]) \cup expired, OutputsOf(b))
    /\ UNCHANGED <<height, tokenRow>>

\* fetchTx found a valid row without height: it only gets its height.
ConfirmTx(t, h) ==
    /\ txRow[t] = "valid"
    /\ height[t] = NoHeight
    /\ height' = [height EXCEPT ![t] = h]
    /\ UNCHANGED <<txRow, history, utxo, spentBy, tokenRow, locked>>
    /\ UNCHANGED <<balanceVars, walletVars, worklist, now>>

-----------------------------------------------------------------------------
(* handleVoidedTxList, handleVoided and handleReorg *)

\* What one iteration of the search adds: the valid transactions that spend
\* an output of S.
ClosedUnderSpenders(S) ==
    \A o \in Output :
        (/\ TxOf[o] \in S
         /\ utxo[o] # "none"
         /\ spentBy[o] # NoTx
         /\ txRow[spentBy[o]] = "valid") => spentBy[o] \in S

\* Mutant: the search does not follow the spenders.
VoidOnly(first) == first

\* The transactions the breadth-first loop has voided when it ends.
VoidedBy(first) ==
    {t \in AllTx : \A S \in SUBSET Tx :
        ClosedUnderSpenders(first \cup S) => t \in first \cup S}

RowsOf(S) == {o \in Output : TxOf[o] \in S /\ utxo[o] # "none"}

\* Mutant: an input of a voided transaction stays spent.
NothingIsUnspent(S) == {}

\* getTxOutputsBySpent is asked for the txIds of the rows found, so a voided
\* transaction without a tx_output row keeps what it spent.
SpentOutputs(S) == {o \in Output : spentBy[o] \in {TxOf[r] : r \in RowsOf(S)}}

\* Mutant: markAddressTxHistoryAsVoided is not called.
VoidRowsButHistory(S) ==
    /\ utxo' = [o \in Output |-> IF o \in RowsOf(S) THEN "voided" ELSE utxo[o]]
    /\ spentBy' = [o \in Output |-> IF o \in SpentOutputs(S) THEN NoTx ELSE spentBy[o]]
    /\ UNCHANGED <<history, locked, tokenRow>>

HistoryWithout(S) ==
    [t \in AllTx |-> IF t \in S /\ history[t] # "none" THEN "voided" ELSE history[t]]

VoidRows(S) ==
    /\ history' = HistoryWithout(S)
    /\ utxo' = [o \in Output |-> IF o \in RowsOf(S) THEN "voided" ELSE utxo[o]]
    /\ spentBy' = [o \in Output |-> IF o \in SpentOutputs(S) THEN NoTx ELSE spentBy[o]]
    /\ UNCHANGED <<locked, tokenRow>>

\* Mutant: only the addresses the transactions pay to are rebuilt.
AffectedRows(S) == RowsOf(S)

Affected(S) == RowsOf(S) \cup SpentOutputs(S)
AffectedAddresses(S) == {AddressOf[o] : o \in Affected(S)}

\* COUNT(DISTINCT(tx_id)) of voided history rows of the affected transactions,
\* whether this call or an earlier one voided them.
AffectedTxCount(S, a) ==
    Cardinality({t \in {TxOf[o] : o \in Affected(S)} :
        /\ a \in AddressesOf(t)
        /\ history[t] = "voided" \/ (t \in S /\ history[t] = "valid")})

\* Mutant: the transactions column is not UNSIGNED.
NeverUnderflows(S) == {}

Underflows(S) == {a \in AffectedAddresses(S) : txCount[a] < AffectedTxCount(S, a)}

\* rebuildAddressBalancesFromUtxos once the rows of S are voided; counted are
\* the addresses whose transactions column is written back after the reset.
RebuildAddressBalances(S, counted) ==
    LET A == AffectedAddresses(S)
    IN  /\ unlockedBal' = [a \in Address |-> IF a \in A
              THEN ValueOf[At(Unspent' \ LockedUnspent', a)] ELSE unlockedBal[a]]
        /\ lockedBal' = [a \in Address |-> IF a \in A
              THEN ValueOf[At(LockedUnspent', a)] ELSE lockedBal[a]]
        /\ txCount' = [a \in Address |->
              IF a \notin A THEN txCount[a]
              ELSE IF a \in counted THEN txCount[a] - AffectedTxCount(S, a) ELSE 0]

HistoryBalance(a) ==
    MapThenSumSet(LAMBDA t : ValueOf[At(OutputsOf(t), a)] - ValueOf[At(Inputs[t], a)],
                  {t \in AllTx : history[t] = "valid"})

\* Both lists are ordered by address and compared index by index: the sums have
\* no row for an address without valid history, the balances keep a zeroed one.
ValidateAddressBalances(A) ==
    LET sums == {a \in A : \E t \in AllTx :
                    history[t] = "valid" /\ a \in AddressesOf(t)}
        rows == {a \in A : \E t \in AllTx : history[t] # "none" /\ a \in AddressesOf(t)}
        index(S, a) == Cardinality({b \in S : Rank[b] < Rank[a]})
    IN  \A a \in sums, b \in rows : index(sums, a) = index(rows, b) =>
            unlockedBal[b] + lockedBal[b] = HistoryBalance(a)

\* deleteBlocksAfterHeight; only valid blocks have a row.
BlocksAfterHeight(r) == {b \in Block : txRow[b] = "valid" /\ Height[b] > r}

\* The transactions confirmed above height r go back to the mempool.
RemoveTxsHeight(r, S) ==
    [t \in Tx |-> IF t \notin S /\ txRow[t] = "valid" /\ height[t] > r
                  THEN NoHeight ELSE height[t]]

\* searchForLatestValidBlock found height r. Blocks above it are deleted, what
\* spends them is voided and the other transactions go back to the mempool.
ReorgTables(r) ==
    LET removed == BlocksAfterHeight(r)
        S == VoidedBy(removed)
    IN  /\ txRow' = [t \in AllTx |-> IF t \in removed THEN "none"
                                     ELSE IF t \in S THEN "voided" ELSE txRow[t]]
        /\ height' = RemoveTxsHeight(r, S)
        /\ VoidRows(S)
        /\ Underflows(S) = {}
        /\ RebuildAddressBalances(S, Address)
        /\ UNCHANGED <<walletVars, worklist, now>>

HandleReorg(r) ==
    /\ r \in 0 .. LatestHeight - 1
    /\ \E A \in {AffectedAddresses(VoidedBy(BlocksAfterHeight(r)))} :
          ReorgTables(r) /\ ValidateAddressBalances(A)'

-----------------------------------------------------------------------------
(* onHandleOldVoidedTxs: statements commit one by one; what the cron read at *)
(* the start of the run may be stale when its turn comes.                    *)

FetchOldMempool(S) ==
    /\ worklist = {}
    /\ S # {}
    /\ \A t \in S : txRow[t] = "valid" /\ height[t] = NoHeight
    /\ worklist' = S
    /\ UNCHANGED <<rowVars, locked, balanceVars, walletVars, now>>

\* Not voided on the full node: its height is written if a block confirms it.
\* addOrUpdateTx inserts the row or changes the height of the one there is.
CronConfirm(t, h) ==
    /\ t \in worklist
    /\ worklist' = worklist \ {t}
    /\ txRow' = [txRow EXCEPT ![t] = IF @ = "none" THEN "valid" ELSE @]
    /\ height' = [height EXCEPT ![t] = h]
    /\ UNCHANGED <<history, utxo, spentBy, tokenRow, locked, balanceVars, walletVars, now>>

CronSkip(t) ==
    /\ t \in worklist
    /\ worklist' = worklist \ {t}
    /\ UNCHANGED <<rowVars, locked, balanceVars, walletVars, now>>

\* Voided on the full node: handleVoided, whatever our own row says by now.
\* A count below zero or a failed validation throws out of the whole loop.
CronVoid(t) ==
    /\ t \in worklist
    /\ \E S \in {VoidedBy({t})}, A \in {AffectedAddresses(VoidedBy({t}))},
         counted \in SUBSET (AffectedAddresses(VoidedBy({t})) \ Underflows(VoidedBy({t}))) :
          /\ Underflows(S) = {} => counted = A
          /\ txRow' = [u \in AllTx |->
                IF u \in S /\ txRow[u] # "none" THEN "voided" ELSE txRow[u]]
          /\ VoidRows(S)
          /\ RebuildAddressBalances(S, counted)
          /\ worklist' = IF Underflows(S) = {} /\ ValidateAddressBalances(A)'
                         THEN worklist \ {t} ELSE {}
    /\ UNCHANGED <<height, walletVars, now>>

-----------------------------------------------------------------------------
(* getWalletBalances: once a timelock of the wallet has expired, everything  *)
(* of the wallet whose locks have expired is unlocked.                       *)
UnlockWallet(w) ==
    LET U == WalletUnlockedUtxos(w)
        released(a) == ValueOf[At(U, a)]
    IN  /\ \E o \in U : Timelock[o] # 0
        /\ \A a \in Address : lockedBal[a] >= released(a)
        /\ wLocked[w] >= ValueOf[U]
        /\ locked' = locked \ U
        /\ unlockedBal' = [a \in Address |-> unlockedBal[a] + released(a)]
        /\ lockedBal' = [a \in Address |-> lockedBal[a] - released(a)]
        /\ wUnlocked' = [wUnlocked EXCEPT ![w] = @ + ValueOf[U]]
        /\ wLocked' = [wLocked EXCEPT ![w] = @ - ValueOf[U]]
        /\ UNCHANGED <<rowVars, txCount, worklist, now>>

Tick ==
    /\ now < MaxTime
    /\ now' = now + 1
    /\ UNCHANGED <<rowVars, locked, balanceVars, walletVars, worklist>>

-----------------------------------------------------------------------------
Init ==
    /\ txRow = [t \in AllTx |-> "none"]
    /\ height = [t \in Tx |-> NoHeight]
    /\ history = [t \in AllTx |-> "none"]
    /\ utxo = [o \in Output |-> "none"]
    /\ spentBy = [o \in Output |-> NoTx]
    /\ locked = {}
    /\ unlockedBal = [a \in Address |-> 0]
    /\ lockedBal = [a \in Address |-> 0]
    /\ txCount = [a \in Address |-> 0]
    /\ wUnlocked = [w \in Wallet |-> 0]
    /\ wLocked = [w \in Wallet |-> 0]
    /\ tokenRow = {}
    /\ worklist = {}
    /\ now = 0

Daemon ==
    \/ \E t \in Tx, h \in {NoHeight, LatestHeight} : NewTx(t, h) \/ ConfirmTx(t, h)
    \/ \E b \in Block : NewBlock(b)
    \/ \E r \in 0 .. LatestHeight : HandleReorg(r)

Cron ==
    \/ \E S \in SUBSET Tx : FetchOldMempool(S)
    \/ \E t \in Tx : CronVoid(t) \/ CronSkip(t) \/ CronConfirm(t, LatestHeight)

Next ==
    \/ Daemon
    \/ Cron
    \/ \E w \in Wallet : UnlockWallet(w)
    \/ Tick

Spec == Init /\ [][Next]_vars

-----------------------------------------------------------------------------
(* Properties *)

\* An output is marked spent only by a valid transaction that really spends
\* it, and only while the output itself is live: no sequence of reorgs, voids
\* and re-additions (handleVoidedTxList, cleanupVoidedTx) leaves a link behind.
SpentByValidTx ==
    \A o \in Output : spentBy[o] # NoTx =>
        /\ o \in Inputs[spentBy[o]]
        /\ history[spentBy[o]] = "valid"
        /\ utxo[o] = "live"

\* A transaction that is still valid spends live outputs only, each of them
\* marked with it: whatever handleReorg or handleVoided removed, they also
\* removed everything that spends it.
NothingSpendsAVoid ==
    \A t \in AllTx : history[t] = "valid" =>
        \A o \in Inputs[t] : utxo[o] = "live" /\ spentBy[o] = t

\* What an address owns, locked or not, is the value of its unspent outputs
\* (address_balance against tx_output), through every handler.
BalanceIsUnspent ==
    \A a \in Address : unlockedBal[a] + lockedBal[a] = ValueOf[At(Unspent, a)]

\* The transactions column counts the valid history rows of the address, reorg
\* after reorg: none is subtracted twice or left behind.
TxCountIsHistory ==
    \A a \in Address : txCount[a] =
        Cardinality({t \in AllTx : history[t] = "valid" /\ a \in AddressesOf(t)})

\* getUtxosLockedAtHeight asks for one exact height; even so no reward stays
\* locked once the chain, with all its reorgs, is at or past its height.
NoRewardLeftLocked ==
    \A o \in LockedUnspent : TxOf[o] \in Block => HeightLock(o) > LatestHeight

AddressSum(f, w) == MapThenSumSet(LAMBDA a : f[a], {a \in Address : WalletOf[a] = w})

\* wallet_balance moves in step with the address_balance rows of the wallet, in
\* both columns, in every call that voids nothing: new blocks and transactions,
\* the unlocks they trigger and the unlock of the balances API.
Voids == \E t \in AllTx : history[t] = "valid" /\ history'[t] = "voided"
WalletFollowsAddresses ==
    [][~Voids => \A w \in Wallet :
          /\ wUnlocked'[w] - wUnlocked[w] =
                AddressSum(unlockedBal', w) - AddressSum(unlockedBal, w)
          /\ wLocked'[w] - wLocked[w] =
                AddressSum(lockedBal', w) - AddressSum(lockedBal, w)]_vars

\* The tables tell one story of a transaction: its row in transaction, its
\* address_tx_history and its tx_output rows are all there and valid, or all
\* voided, or all absent; the row of a voided block is deleted.
RowsAgree ==
    /\ \A t \in Tx : txRow[t] = history[t]
    /\ \A b \in Block : txRow[b] = IF history[b] = "valid" THEN "valid" ELSE "none"
    /\ \A o \in Output : /\ utxo[o] = "live" <=> history[TxOf[o]] = "valid"
                         /\ utxo[o] = "voided" <=> history[TxOf[o]] = "voided"

\* The stored blocks are a chain without gaps whatever a reorg deletes, so the
\* highest of them is what getLatestHeight and searchForLatestValidBlock rely on.
ChainHasNoGaps ==
    \E n \in {0} \cup {Height[b] : b \in Block} : StoredHeights = 1 .. n

\* The tables implement the set of accepted transactions they stand for, as
\* long as the full node announces no conflict before it voids the loser.
Accepted == {t \in AllTx : history[t] = "valid"}
Promise == INSTANCE ValidTransactions WITH accepted <- Accepted
ImplementsPromise == Promise!Spec
=============================================================================
