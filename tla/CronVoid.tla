------------------------------ MODULE CronVoid ------------------------------
(***************************************************************************)
(* handleVoided as the old-mempool cron calls it (src/mempool.ts,          *)
(* src/commons.ts): a series of statements outside any database            *)
(* transaction.  One action is one statement; addNewTx, which is a         *)
(* transaction, commits between any two of them, and Lambda may stop the   *)
(* cron anywhere.  One token; Ledger has the same void as one step.        *)
(***************************************************************************)
EXTENDS Integers, FiniteSets, FiniteSetsExt

CONSTANTS
    Tx, Output, Address,
    TxOf,           \* the transaction of an output
    Inputs,         \* the outputs a transaction spends
    AddressOf,
    Value,
    Locked,         \* outputs that stay locked
    Confirmed,      \* transactions that arrive with a height
    NoTx,
    MaxReturns,     \* bound: transactions the full node takes back
    MaxStops        \* bound: executions of the cron that are stopped

ASSUME CronAssumption ==
    /\ IsFiniteSet(Tx) /\ IsFiniteSet(Output)
    /\ TxOf \in [Output -> Tx]
    /\ Inputs \in [Tx -> SUBSET Output]
    /\ \A t \in Tx, o \in Output : o \in Inputs[t] => TxOf[o] # t
    /\ AddressOf \in [Output -> Address]
    /\ Value \in [Output -> Nat]
    /\ Locked \subseteq Output
    /\ \A t \in Tx : Inputs[t] \cap Locked = {}
    /\ Confirmed \subseteq Tx
    /\ NoTx \notin Tx
    /\ MaxReturns \in Nat
    /\ MaxStops \in Nat

VARIABLES
    txRow, history,         \* transaction and address_tx_history
    utxo, spentBy,          \* tx_output
    unlockedBal, lockedBal, \* address_balance ...
    txCount, received,      \* ... its transactions and total_received
    tokenTxs,               \* token.transactions
    nodeVoided,     \* transactions that are voided on the full node
    inbox,          \* transactions the daemon still has to bring
    cron,           \* the execution of onHandleOldVoidedTxs
    crossed,        \* history variable: voids cut short or met by their return
    returns, stops

rowVars == <<txRow, history, utxo, spentBy>>
balanceVars == <<unlockedBal, lockedBal>>
countVars == <<txCount, received, tokenTxs>>
outside == <<nodeVoided, inbox, returns>>
vars == <<rowVars, balanceVars, countVars, outside, cron, crossed, stops>>

Idle == [pc |-> "idle", todo |-> {}, txs |-> {}, rows |-> {}, spenders |-> {},
         spent |-> {}, affected |-> {}, visited |-> {}, counts |-> <<>>, left |-> {}, tokenDiff |-> 0]

-----------------------------------------------------------------------------
(* Queries *)

OutputsOf(t) == {o \in Output : TxOf[o] = t}
AddressesOf(t) == {AddressOf[o] : o \in OutputsOf(t) \cup Inputs[t]}
SumOf(S, a) == MapThenSumSet(LAMBDA o : Value[o], {o \in S : AddressOf[o] = a})
Unspent == {o \in Output : utxo[o] = "live" /\ spentBy[o] = NoTx}

\* t and what depends on it, the least set that spenders do not leave.
Spenders(S) == {u \in Tx : \E o \in Inputs[u] : TxOf[o] \in S}
Descendants(t) ==
    {u \in Tx : \A S \in SUBSET Tx : t \in S /\ Spenders(S) \subseteq S => u \in S}

AffectedAddresses == {AddressOf[o] : o \in cron.affected}
AffectedTxs == {TxOf[o] : o \in cron.affected}

-----------------------------------------------------------------------------
(* The full node and addNewTx *)

\* What the full node voids it voids with all that depends on it.
NodeVoids(t) ==
    /\ t \notin nodeVoided \cup Confirmed
    /\ txRow[t] # "none"
    /\ nodeVoided' = nodeVoided \cup Descendants(t)
    /\ UNCHANGED <<rowVars, balanceVars, countVars, inbox, returns, cron, crossed, stops>>

\* The conflict is resolved the other way: the daemon brings it once more.
NodeTakesBack(t) ==
    /\ t \in nodeVoided
    /\ \A o \in Inputs[t] : TxOf[o] \notin nodeVoided
    /\ returns < MaxReturns
    /\ returns' = returns + 1
    /\ nodeVoided' = nodeVoided \ {t}
    /\ inbox' = inbox \cup {t}
    /\ UNCHANGED <<rowVars, balanceVars, countVars, cron, crossed, stops>>

\* fetchTx finds a valid row and addNewTx returns.
AlreadyKnown(t) ==
    /\ t \in inbox
    /\ txRow[t] = "valid"
    /\ inbox' = inbox \ {t}
    /\ UNCHANGED <<rowVars, balanceVars, countVars, nodeVoided, returns, cron, crossed, stops>>

\* Only rows marked voided are cleaned up; addUtxos keeps a row that is there.
AddNewTx(t) ==
    LET gained(a) == SumOf(OutputsOf(t) \ Locked, a)
        paid(a) == SumOf(Inputs[t], a)
    IN  /\ t \in inbox \ nodeVoided
        /\ \A o \in Inputs[t] : utxo[o] # "none" /\ TxOf[o] \notin inbox
        /\ txRow[t] # "valid"
        /\ history[t] # "valid"
        /\ \A a \in Address : unlockedBal[a] + gained(a) - paid(a) >= 0
        /\ txRow' = [txRow EXCEPT ![t] = "valid"]
        /\ history' = [history EXCEPT ![t] = "valid"]
        /\ utxo' = [o \in Output |-> IF TxOf[o] = t THEN "live" ELSE utxo[o]]
        /\ spentBy' = [o \in Output |->
              IF o \in Inputs[t] THEN t
              ELSE IF TxOf[o] = t /\ utxo[o] # "live" THEN NoTx ELSE spentBy[o]]
        /\ unlockedBal' = [a \in Address |-> unlockedBal[a] + gained(a) - paid(a)]
        /\ lockedBal' = [a \in Address |-> lockedBal[a] + SumOf(OutputsOf(t) \cap Locked, a)]
        /\ txCount' = [a \in Address |-> txCount[a] + IF a \in AddressesOf(t) THEN 1 ELSE 0]
        /\ received' = [a \in Address |-> received[a] + SumOf(OutputsOf(t), a)]
        /\ tokenTxs' = tokenTxs + 1
        /\ inbox' = inbox \ {t}
        /\ crossed' = crossed \cup ({t} \cap cron.visited)
        /\ UNCHANGED <<nodeVoided, returns, cron, stops>>

-----------------------------------------------------------------------------
(* onHandleOldVoidedTxs *)

\* Mutant: the query asks for confirmed transactions.
ConfirmedCandidates == {t \in Tx : txRow[t] = "valid" /\ t \in Confirmed}

Candidates == {t \in Tx : txRow[t] = "valid" /\ t \notin Confirmed}

\* getMempoolTransactionsBeforeDate: which of them are old enough is free.
Fetch(S) ==
    /\ cron.pc = "idle"
    /\ S # {}
    /\ S \subseteq Candidates
    /\ cron' = [Idle EXCEPT !.pc = "next", !.todo = S]
    /\ UNCHANGED <<rowVars, balanceVars, countVars, outside, crossed, stops>>

\* isTxVoided asks the full node; what it has not voided is left alone.
Handle(t) ==
    /\ cron.pc = "next"
    /\ t \in cron.todo
    /\ cron' = IF t \in nodeVoided
               THEN [Idle EXCEPT !.pc = "markTxs", !.todo = cron.todo \ {t}, !.txs = {t}]
               ELSE [cron EXCEPT !.todo = @ \ {t}]
    /\ UNCHANGED <<rowVars, balanceVars, countVars, outside, crossed, stops>>

Finish ==
    /\ cron.pc = "next"
    /\ cron.todo = {}
    /\ cron' = Idle
    /\ UNCHANGED <<rowVars, balanceVars, countVars, outside, crossed, stops>>

-----------------------------------------------------------------------------
(* handleVoidedTxList, once per generation *)

\* What the full node has taken back since isTxVoided asked is voided all the same.
MarkTxsAsVoided ==
    /\ cron.pc = "markTxs"
    /\ txRow' = [t \in Tx |-> IF t \in cron.txs /\ txRow[t] # "none" THEN "voided" ELSE txRow[t]]
    /\ cron' = [cron EXCEPT !.pc = "markHistory", !.visited = @ \cup cron.txs]
    /\ crossed' = crossed \cup (cron.txs \ nodeVoided)
    /\ UNCHANGED <<history, utxo, spentBy, balanceVars, countVars, outside, stops>>

MarkAddressTxHistoryAsVoided ==
    /\ cron.pc = "markHistory"
    /\ history' = [t \in Tx |->
          IF t \in cron.txs /\ history[t] # "none" THEN "voided" ELSE history[t]]
    /\ cron' = [cron EXCEPT !.pc = "getOutputs"]
    /\ UNCHANGED <<txRow, utxo, spentBy, balanceVars, countVars, outside, crossed, stops>>

\* The spenders are those of this moment, used after the outputs are unspent.
GetTxOutputs ==
    LET rows == {o \in Output : TxOf[o] \in cron.txs /\ utxo[o] # "none"}
    IN  /\ cron.pc = "getOutputs"
        /\ cron' = [cron EXCEPT !.pc = "getSpent", !.rows = rows,
                                !.spenders = {spentBy[o] : o \in rows} \ {NoTx}]
        /\ UNCHANGED <<rowVars, balanceVars, countVars, outside, crossed, stops>>

GetTxOutputsBySpent ==
    /\ cron.pc = "getSpent"
    /\ cron' = [cron EXCEPT !.pc = "unspend",
                    !.spent = {o \in Output : spentBy[o] \in {TxOf[r] : r \in cron.rows}}]
    /\ UNCHANGED <<rowVars, balanceVars, countVars, outside, crossed, stops>>

UnspendUtxos ==
    /\ cron.pc = "unspend"
    /\ spentBy' = [o \in Output |-> IF o \in cron.spent THEN NoTx ELSE spentBy[o]]
    /\ cron' = [cron EXCEPT !.pc = "markOutputs"]
    /\ UNCHANGED <<txRow, history, utxo, balanceVars, countVars, outside, crossed, stops>>

\* Mutant: the list of the last generation replaces those before it.
LastAffected == cron.rows \cup cron.spent

\* affectedUtxoList
AllAffected == cron.affected \cup cron.rows \cup cron.spent

MarkUtxosAsVoided ==
    /\ cron.pc = "markOutputs"
    /\ utxo' = [o \in Output |->
          IF utxo[o] # "none" /\ TxOf[o] \in {TxOf[r] : r \in cron.rows}
          THEN "voided" ELSE utxo[o]]
    /\ cron' = [cron EXCEPT !.pc = "getSpenders", !.affected = AllAffected]
    /\ UNCHANGED <<txRow, history, spentBy, balanceVars, countVars, outside, crossed, stops>>

\* Mutant: the loop ends with the first generation.
NoTransactions == {}

\* getTransactionsById
NewTxs == {t \in cron.spenders : txRow[t] = "valid"}

\* Another generation, the rebuild, or nothing to rebuild.
GetSpenders ==
    /\ cron.pc = "getSpenders"
    /\ cron' =
          IF NewTxs # {} THEN [cron EXCEPT !.pc = "markTxs", !.txs = NewTxs]
          ELSE IF cron.affected = {} THEN [Idle EXCEPT !.pc = "next", !.todo = cron.todo]
          ELSE [Idle EXCEPT !.pc = "readCounts", !.todo = cron.todo,
                            !.affected = cron.affected, !.visited = cron.visited]
    /\ UNCHANGED <<rowVars, balanceVars, countVars, outside, crossed, stops>>

-----------------------------------------------------------------------------
(* rebuildAddressBalancesFromUtxos *)

ReadCounts ==
    /\ cron.pc = "readCounts"
    /\ cron' = [cron EXCEPT !.pc = "reset",
                   !.counts = [a \in AffectedAddresses |-> [txs |-> txCount[a], received |-> received[a]]]]
    /\ UNCHANGED <<rowVars, balanceVars, countVars, outside, crossed, stops>>

\* total_received is the one column that keeps its value.
ResetBalances ==
    /\ cron.pc = "reset"
    /\ unlockedBal' = [a \in Address |-> IF a \in AffectedAddresses THEN 0 ELSE unlockedBal[a]]
    /\ lockedBal' = [a \in Address |-> IF a \in AffectedAddresses THEN 0 ELSE lockedBal[a]]
    /\ txCount' = [a \in Address |-> IF a \in AffectedAddresses THEN 0 ELSE txCount[a]]
    /\ cron' = [cron EXCEPT !.pc = "sumUnlocked"]
    /\ UNCHANGED <<rowVars, received, tokenTxs, outside, crossed, stops>>

\* INSERT ... SELECT: an address without such outputs gets no row and keeps its value.
WithSums(balance, S) ==
    [a \in Address |->
        IF a \in AffectedAddresses /\ \E o \in S : AddressOf[o] = a THEN SumOf(S, a) ELSE balance[a]]

SumUnlocked ==
    /\ cron.pc = "sumUnlocked"
    /\ unlockedBal' = WithSums(unlockedBal, Unspent \ Locked)
    /\ cron' = [cron EXCEPT !.pc = "sumLocked"]
    /\ UNCHANGED <<rowVars, lockedBal, countVars, outside, crossed, stops>>

SumLocked ==
    /\ cron.pc = "sumLocked"
    /\ lockedBal' = WithSums(lockedBal, Unspent \cap Locked)
    /\ cron' = [cron EXCEPT !.pc = "readDiffs", !.visited = {}]
    /\ UNCHANGED <<rowVars, unlockedBal, countVars, outside, crossed, stops>>

\* Mutant: the query counts the rows that are still valid.
ValidTxCount(a) ==
    Cardinality({t \in AffectedTxs : a \in AddressesOf(t) /\ history[t] = "valid"})

\* Rows an earlier void has marked are counted as well.
AffectedAddressTxCount(a) ==
    Cardinality({t \in AffectedTxs : a \in AddressesOf(t) /\ history[t] = "voided"})
AffectedAddressTotalReceived(a) ==
    SumOf({o \in Output : utxo[o] = "voided" /\ TxOf[o] \in AffectedTxs}, a)
AffectedTokenTxCount == Cardinality({t \in AffectedTxs : history[t] = "voided"})

\* Three SELECTs in a row; no property relates what they answer to each other.
ReadDiffs ==
    /\ cron.pc = "readDiffs"
    /\ cron' = [cron EXCEPT !.pc = "writeCounts", !.left = AffectedAddresses,
                   !.counts = [a \in AffectedAddresses |->
                       [txs |-> @[a].txs - AffectedAddressTxCount(a),
                        received |-> @[a].received - AffectedAddressTotalReceived(a)]],
                   !.tokenDiff = AffectedTokenTxCount]
    /\ UNCHANGED <<rowVars, balanceVars, countVars, outside, crossed, stops>>

\* Mutant: the column is signed.
WriteUnchecked(a) ==
    /\ cron.pc = "writeCounts"
    /\ a \in cron.left
    /\ txCount' = [txCount EXCEPT ![a] = cron.counts[a].txs]
    /\ received' = [received EXCEPT ![a] = cron.counts[a].received]
    /\ cron' = [cron EXCEPT !.left = @ \ {a}]
    /\ UNCHANGED <<rowVars, balanceVars, tokenTxs, outside, crossed, stops>>

\* One UPDATE per address; below zero it throws out of the whole loop.
WriteCounts(a) ==
    /\ cron.pc = "writeCounts"
    /\ a \in cron.left
    /\ IF cron.counts[a].txs >= 0 /\ cron.counts[a].received >= 0
       THEN /\ txCount' = [txCount EXCEPT ![a] = cron.counts[a].txs]
            /\ received' = [received EXCEPT ![a] = cron.counts[a].received]
            /\ cron' = [cron EXCEPT !.left = @ \ {a}]
       ELSE /\ cron' = Idle
            /\ UNCHANGED <<txCount, received>>
    /\ UNCHANGED <<rowVars, balanceVars, tokenTxs, outside, crossed, stops>>

\* validateAddressBalances compares by position and may throw even if all is well
\* (Ledger has the comparison): the rest of the list is then left to the next run.
WriteTokenCount ==
    /\ cron.pc = "writeCounts"
    /\ cron.left = {}
    /\ IF tokenTxs >= cron.tokenDiff
       THEN /\ tokenTxs' = tokenTxs - cron.tokenDiff
            /\ cron' \in {[Idle EXCEPT !.pc = "next", !.todo = cron.todo], Idle}
       ELSE /\ cron' = Idle
            /\ UNCHANGED tokenTxs
    /\ UNCHANGED <<rowVars, balanceVars, txCount, received, outside, crossed, stops>>

\* Lambda's timeout: what was done is committed, the list is lost.
CronStops ==
    /\ cron.pc # "idle"
    /\ stops < MaxStops
    /\ stops' = stops + 1
    /\ cron' = Idle
    /\ crossed' = crossed \cup cron.visited
    /\ UNCHANGED <<rowVars, balanceVars, countVars, outside>>

-----------------------------------------------------------------------------
Init ==
    /\ txRow = [t \in Tx |-> "none"]
    /\ history = [t \in Tx |-> "none"]
    /\ utxo = [o \in Output |-> "none"]
    /\ spentBy = [o \in Output |-> NoTx]
    /\ unlockedBal = [a \in Address |-> 0]
    /\ lockedBal = [a \in Address |-> 0]
    /\ txCount = [a \in Address |-> 0]
    /\ received = [a \in Address |-> 0]
    /\ tokenTxs = 0
    /\ nodeVoided = {}
    /\ inbox = Tx
    /\ cron = Idle
    /\ crossed = {}
    /\ returns = 0
    /\ stops = 0

HandleVoidedTxList ==
    \/ MarkTxsAsVoided \/ MarkAddressTxHistoryAsVoided
    \/ GetTxOutputs \/ GetTxOutputsBySpent \/ UnspendUtxos
    \/ MarkUtxosAsVoided \/ GetSpenders

RebuildAddressBalancesFromUtxos ==
    \/ ReadCounts \/ ResetBalances \/ SumUnlocked \/ SumLocked
    \/ ReadDiffs \/ (\E a \in Address : WriteCounts(a)) \/ WriteTokenCount

Cron ==
    \/ \E t \in Tx : Handle(t)
    \/ Finish
    \/ HandleVoidedTxList
    \/ RebuildAddressBalancesFromUtxos

Next ==
    \/ \E t \in Tx : NodeVoids(t) \/ NodeTakesBack(t) \/ AlreadyKnown(t) \/ AddNewTx(t)
    \/ \E S \in SUBSET Tx : Fetch(S)
    \/ Cron
    \/ CronStops

Spec == Init /\ [][Next]_vars

\* The cron is scheduled every twenty minutes, a transaction grows old enough
\* for it, and an execution that is not stopped goes on.
FairSpec == Spec /\ WF_vars(Cron) /\ \A t \in Tx : SF_vars(\E S \in SUBSET Tx : t \in S /\ Fetch(S))

-----------------------------------------------------------------------------
(* Properties *)

TypeOK ==
    /\ txRow \in [Tx -> {"none", "valid", "voided"}]
    /\ history \in [Tx -> {"none", "valid", "voided"}]
    /\ utxo \in [Output -> {"none", "live", "voided"}]
    /\ spentBy \in [Output -> Tx \cup {NoTx}]
    /\ unlockedBal \in [Address -> Nat]
    /\ lockedBal \in [Address -> Nat]
    /\ txCount \in [Address -> Nat]
    /\ received \in [Address -> Nat]
    /\ tokenTxs \in Nat
    /\ nodeVoided \subseteq Tx /\ inbox \subseteq Tx /\ crossed \subseteq Tx

\* The transactions whose void is under way, was cut short, or met the same
\* transaction coming back.
Doubtful == cron.visited \cup crossed

\* However the statements of a void interleave with new transactions, and
\* wherever the cron is stopped, the balance of an address is the value of its
\* unspent outputs unless a doubtful transaction touches it: the rebuild and the
\* relative updates of addNewTx lose nothing to each other.
OnlyDoubtfulBalances ==
    \A a \in Address : (\A t \in Doubtful : a \notin AddressesOf(t)) =>
        unlockedBal[a] + lockedBal[a] = SumOf(Unspent, a)

\* Apart from the doubtful ones and what spends them the tables agree, and a
\* valid transaction spends live outputs marked with it: a void that has ended
\* has ended in every table and for every generation.
OnlyDoubtfulRows ==
    \A t \in Tx \ Doubtful :
        /\ txRow[t] = history[t]
        /\ \A o \in OutputsOf(t) : utxo[o] = IF txRow[t] = "valid" THEN "live" ELSE txRow[t]
        /\ txRow[t] = "valid" => \A o \in Inputs[t] :
              TxOf[o] \in Doubtful \/ (utxo[o] = "live" /\ spentBy[o] = t)

\* A void may lose the count of a transaction that arrives while it rebuilds, but
\* never the other way: an address untouched by doubtful transactions counts no
\* transaction that its history does not hold as valid.
CountIsAtMostHistory ==
    \A a \in Address : (\A t \in Doubtful : a \notin AddressesOf(t)) =>
        txCount[a] <= Cardinality({t \in Tx : history[t] = "valid" /\ a \in AddressesOf(t)})

\* What stays voided on the full node is voided here in the end, whatever throws
\* or stops on the way: a later run of the cron takes up what an earlier dropped.
VoidsAreHandled ==
    \A t \in Tx : (t \in nodeVoided /\ txRow[t] = "valid")
                    ~> (txRow[t] = "voided" \/ t \notin nodeVoided)
=============================================================================
