----------------------------- MODULE WalletLoad -----------------------------
(***************************************************************************)
(* Loading one wallet (src/api/wallet.ts: load, loadWallet) while new      *)
(* transactions arrive (src/txProcessor.ts: addNewTx).  A load is a series *)
(* of statements that commit one by one; addNewTx is one database          *)
(* transaction that reads the snapshot it began with, except for the rows  *)
(* it has written itself.  An address is its index in the wallet; one      *)
(* token.                                                                  *)
(* address_balance and address_tx_history are functions of the accepted    *)
(* transactions; wallet_balance and wallet_tx_history are state.           *)
(***************************************************************************)
EXTENDS AddressGap, Functions

CONSTANTS
    Load,           \* executions of POST /wallet, each with its loadWallet
    Tx,
    Amount,         \* Amount[t]: address the transaction touches -> net value
    MaxRetries,     \* MAX_LOAD_WALLET_RETRIES
    MaxFailures,    \* bound: invocations of loadWallet that are refused
    MaxTimeouts     \* bound: executions the platform ends early

ASSUME LoadAssumption ==
    /\ IsFiniteSet(Tx)
    /\ \A t \in Tx : /\ IsFiniteSet(DOMAIN Amount[t])
                    /\ DOMAIN Amount[t] \subseteq Nat
                    /\ Amount[t] \in [DOMAIN Amount[t] -> Int]
    /\ MaxRetries \in Nat
    /\ MaxFailures \in Nat
    /\ MaxTimeouts \in Nat

VARIABLES
    status,       \* wallet.status, "none" before createWallet
    retryCount,   \* wallet.retry_count
    owned,        \* address rows whose wallet_id is this wallet
    accepted,     \* transactions in address_tx_history
    wHistory,     \* transactions in wallet_tx_history
    wBalance,     \* wallet_balance.unlocked_balance, NoRow without a row
    lastUsed,     \* wallet.last_used_address_index
    snapshot,     \* what the transaction under way reads
    unseen,       \* history variable: transactions that did not see the wallet
    load,         \* local state of each execution
    failures,     \* refused invocations so far
    timeouts      \* executions ended early so far

tables == <<owned, accepted, wHistory, wBalance, lastUsed>>
txVars == <<snapshot, unseen>>
vars == <<status, retryCount, tables, txVars, load, failures, timeouts>>

NoRow == -1
NoSnapshot == [tx |-> {}, wallet |-> FALSE, owned |-> {}]
Address == UNION {DOMAIN Amount[t] : t \in Tx}

-----------------------------------------------------------------------------
(* The address tables *)

Touching(txs, A) == {t \in txs : DOMAIN Amount[t] \cap A # {}}

AmountIn(t, A) == SumFunctionOnSet(Amount[t], A \cap DOMAIN Amount[t])
BalanceOf(txs, A) == SumFunction([t \in txs |-> AmountIn(t, A)])

UsedBy(txs) == UNION {DOMAIN Amount[t] : t \in txs}
Used == UsedBy(accepted)
Rows == owned \cup Used

-----------------------------------------------------------------------------

Steps == {"idle", "requested", "generate", "addNew", "storeLastUsed", "adopt", "readHistory",
          "insertHistory", "sumBalances", "sumHistory", "insertBalance",
          "setReady", "readRetries", "setError"}

Idle == [pc |-> "idle", retries |-> 0, new |-> {}, todo |-> {}, addresses |-> {},
         history |-> {}, balance |-> NoRow]

TypeOK ==
    /\ status \in {"none", "creating", "error", "ready"}
    /\ retryCount \in 0..(MaxRetries + Cardinality(Load))
    /\ owned \subseteq Nat
    /\ accepted \in SUBSET Tx
    /\ wHistory \in SUBSET accepted
    /\ wBalance \in Nat \cup {NoRow}
    /\ lastUsed \in -1 .. Max(Address \cup {0})
    /\ snapshot.tx \subseteq Tx /\ unseen \subseteq accepted
    /\ \A l \in Load : /\ DOMAIN load[l] = DOMAIN Idle
                       /\ load[l].pc \in Steps
                       /\ load[l].history \in SUBSET accepted
                       /\ load[l].balance \in Nat \cup {NoRow}
    /\ failures \in 0..MaxFailures
    /\ timeouts \in 0..MaxTimeouts

Init ==
    /\ status = "none"
    /\ retryCount = 0
    /\ owned = {}
    /\ accepted = {}
    /\ wHistory = {}
    /\ wBalance = NoRow
    /\ lastUsed = -1
    /\ snapshot = NoSnapshot
    /\ unseen = {}
    /\ load = [l \in Load |-> Idle]
    /\ failures = 0
    /\ timeouts = 0

Goto(l, pc) == load' = [load EXCEPT ![l].pc = pc]

-----------------------------------------------------------------------------
(* POST /wallet *)

\* Mutant: the state of an existing wallet is not looked at.
RequestAlways(l) ==
    /\ load[l].pc = "idle"
    /\ status' = IF status = "none" THEN "creating" ELSE status
    /\ load' = [load EXCEPT ![l] = [Idle EXCEPT !.pc = "requested", !.retries = retryCount]]
    /\ UNCHANGED <<retryCount, tables, txVars, failures, timeouts>>

\* A plain INSERT: of two requests that found no wallet only one gets through.
CreateWallet ==
    /\ status = "none"
    /\ status' = "creating"

\* Refused when ready, creating or out of retries.
Request(l) ==
    /\ load[l].pc = "idle"
    /\ \/ CreateWallet
       \/ /\ status = "error"
          /\ retryCount < MaxRetries
          /\ UNCHANGED status
    /\ load' = [load EXCEPT ![l] = [Idle EXCEPT !.pc = "requested", !.retries = retryCount]]
    /\ UNCHANGED <<retryCount, tables, txVars, failures, timeouts>>

Invoke(l) ==
    /\ load[l].pc = "requested"
    /\ Goto(l, "generate")
    /\ UNCHANGED <<status, retryCount, tables, txVars, failures, timeouts>>

\* The count written back is the one read with the request.
InvokeFails(l) ==
    /\ load[l].pc = "requested"
    /\ failures < MaxFailures
    /\ failures' = failures + 1
    /\ Goto(l, "setError")
    /\ UNCHANGED <<status, retryCount, tables, txVars, timeouts>>

-----------------------------------------------------------------------------
(* loadWallet, one action per statement *)

\* The SELECTs of the loop as one: module GapScan has them one by one.
GenerateAddresses(l) ==
    /\ load[l].pc = "generate"
    /\ load' = [load EXCEPT ![l] = [@ EXCEPT
                    !.pc = "addNew",
                    !.addresses = Addresses(Used),
                    !.new = NewAddresses(Used, Rows),
                    !.todo = ExistingAddresses(Used, Rows)]]
    /\ UNCHANGED <<status, retryCount, tables, txVars, failures, timeouts>>

\* A plain INSERT: a row that came in between makes all of it fail.
AddNewAddresses(l) ==
    /\ load[l].pc = "addNew"
    /\ load[l].new \cap Rows = {}
    /\ owned' = owned \cup load[l].new
    /\ Goto(l, IF load[l].new = {} THEN "adopt" ELSE "storeLastUsed")
    /\ UNCHANGED <<status, retryCount, accepted, wHistory, wBalance, lastUsed, txVars, failures, timeouts>>

\* Mutant: the highest index generated instead of the last used one.
StoreHighest(l) ==
    /\ load[l].pc = "storeLastUsed"
    /\ lastUsed' = Max(load[l].addresses)
    /\ Goto(l, "adopt")
    /\ UNCHANGED <<status, retryCount, owned, accepted, wHistory, wBalance, txVars, failures, timeouts>>

\* The second statement of addNewAddresses; Gap addresses follow the last used.
StoreLastUsed(l) ==
    /\ load[l].pc = "storeLastUsed"
    /\ lastUsed' = Max(load[l].addresses) - Gap
    /\ Goto(l, "adopt")
    /\ UNCHANGED <<status, retryCount, owned, accepted, wHistory, wBalance, txVars, failures, timeouts>>

\* updateExistingAddresses: one UPDATE per address.
Adopt(l, a) ==
    /\ load[l].pc = "adopt"
    /\ a \in load[l].todo
    /\ owned' = owned \cup {a}
    /\ load' = [load EXCEPT ![l].todo = @ \ {a}]
    /\ UNCHANGED <<status, retryCount, accepted, wHistory, wBalance, lastUsed, txVars, failures, timeouts>>

\* initWalletTxHistory: SELECT ...
ReadHistory(l) ==
    /\ load[l].pc = "adopt"
    /\ load[l].todo = {}
    /\ LET found == Touching(accepted, load[l].addresses) IN
       load' = [load EXCEPT ![l] = [@ EXCEPT
                    !.history = found,
                    !.pc = IF found = {} THEN "sumBalances" ELSE "insertHistory"]]
    /\ UNCHANGED <<status, retryCount, tables, txVars, failures, timeouts>>

\* ... then a plain INSERT of what was read.
InsertHistory(l) ==
    /\ load[l].pc = "insertHistory"
    /\ load[l].history \cap wHistory = {}
    /\ wHistory' = wHistory \cup load[l].history
    /\ Goto(l, "sumBalances")
    /\ UNCHANGED <<status, retryCount, owned, accepted, wBalance, lastUsed, txVars, failures, timeouts>>

\* initWalletBalance: SELECT from address_balance ...
SumBalances(l) ==
    /\ load[l].pc = "sumBalances"
    /\ LET A == load[l].addresses IN
       load' = [load EXCEPT ![l] = [@ EXCEPT
                    !.pc = "sumHistory",
                    !.balance = IF Touching(accepted, A) = {} THEN NoRow
                                ELSE BalanceOf(accepted, A)]]
    /\ UNCHANGED <<status, retryCount, tables, txVars, failures, timeouts>>

\* ... SELECT from address_tx_history, compared by the asserts ...
HistoryAgrees(l) ==
    LET found == Touching(accepted, load[l].addresses) IN
    IF found = {} THEN load[l].balance = NoRow
                  ELSE load[l].balance = BalanceOf(accepted, load[l].addresses)

SumHistory(l) ==
    /\ load[l].pc = "sumHistory"
    /\ HistoryAgrees(l)
    /\ Goto(l, IF load[l].balance = NoRow THEN "setReady" ELSE "insertBalance")
    /\ UNCHANGED <<status, retryCount, tables, txVars, failures, timeouts>>

\* Mutant: ON DUPLICATE KEY UPDATE with the sums read before.
ReplaceBalance(l) ==
    /\ load[l].pc = "insertBalance"
    /\ wBalance' = load[l].balance
    /\ Goto(l, "setReady")
    /\ UNCHANGED <<status, retryCount, owned, accepted, wHistory, lastUsed, txVars, failures, timeouts>>

\* ... then a plain INSERT of the sums.
InsertBalance(l) ==
    /\ load[l].pc = "insertBalance"
    /\ wBalance = NoRow
    /\ wBalance' = load[l].balance
    /\ Goto(l, "setReady")
    /\ UNCHANGED <<status, retryCount, owned, accepted, wHistory, lastUsed, txVars, failures, timeouts>>

SetReady(l) ==
    /\ load[l].pc = "setReady"
    /\ status' = "ready"
    /\ retryCount' = 0
    /\ load' = [load EXCEPT ![l] = Idle]
    /\ UNCHANGED <<tables, txVars, failures, timeouts>>

\* A duplicate key or a failed assert: the catch reads the wallet again, ...
Throws(l) ==
    /\ \/ load[l].pc = "addNew" /\ load[l].new \cap Rows # {}
       \/ load[l].pc = "insertHistory" /\ load[l].history \cap wHistory # {}
       \/ load[l].pc = "sumHistory" /\ ~HistoryAgrees(l)
       \/ load[l].pc = "insertBalance" /\ wBalance # NoRow
    /\ Goto(l, "readRetries")
    /\ UNCHANGED <<status, retryCount, tables, txVars, failures, timeouts>>

ReadRetries(l) ==
    /\ load[l].pc = "readRetries"
    /\ load' = [load EXCEPT ![l].pc = "setError", ![l].retries = retryCount]
    /\ UNCHANGED <<status, retryCount, tables, txVars, failures, timeouts>>

\* ... and the wallet is marked with an error, one retry more.
SetError(l) ==
    /\ load[l].pc = "setError"
    /\ status' = "error"
    /\ retryCount' = load[l].retries + 1
    /\ load' = [load EXCEPT ![l] = Idle]
    /\ UNCHANGED <<tables, txVars, failures, timeouts>>

\* The platform ends the execution at its timeout; what it did is committed.
\* loadWallet is invoked as an "Event": it may be delivered once more.
Timeout(l) ==
    /\ load[l].pc # "idle"
    /\ timeouts < MaxTimeouts
    /\ timeouts' = timeouts + 1
    /\ \/ load' = [load EXCEPT ![l] = Idle]
       \/ load[l].pc # "requested" /\ load' = [load EXCEPT ![l] = [Idle EXCEPT !.pc = "generate"]]
    /\ UNCHANGED <<status, retryCount, tables, txVars, failures>>

-----------------------------------------------------------------------------
(* The API of a wallet *)

\* getNewAddresses: the first Gap of them.
Offered ==
    LET empty == {a \in owned \ Used : a > lastUsed}
    IN  {a \in empty : Cardinality({b \in empty : b < a}) < Gap}

-----------------------------------------------------------------------------
(* addNewTx, as far as this wallet is concerned *)

\* The full node sends a transaction after the ones that fund it.
Funded(t) == \A a \in DOMAIN Amount[t] : BalanceOf(accepted, {a}) + Amount[t][a] >= 0

\* "balance = balance + x" on an unsigned column fails below zero.
WalletCovers(t, mine) ==
    mine # {} /\ wBalance # NoRow => wBalance + AmountIn(t, mine) >= 0

\* The daemon brings one transaction at a time.
BeginTx(t) ==
    /\ snapshot = NoSnapshot
    /\ t \notin accepted
    /\ snapshot' = [tx |-> {t}, wallet |-> status # "none", owned |-> owned]
    /\ UNCHANGED <<status, retryCount, tables, unseen, load, failures, timeouts>>

RollBack ==
    /\ snapshot # NoSnapshot
    /\ snapshot' = NoSnapshot
    /\ UNCHANGED <<status, retryCount, tables, unseen, load, failures, timeouts>>

\* getAddressWalletInfo: the addresses are rows of its own, the wallet's is not.
MineOf(t) == IF snapshot.wallet THEN DOMAIN Amount[t] \cap owned ELSE {}

\* generateAddresses reads the snapshot too; a row it did not see stops its INSERT.
CommitTx(t) ==
    LET mine == MineOf(t)
        used == UsedBy(accepted \cup {t})
        new == NewAddresses(used, snapshot.owned \cup used)
    IN
    /\ t \in snapshot.tx
    /\ Funded(t)
    /\ WalletCovers(t, mine)
    /\ accepted' = accepted \cup {t}
    /\ \/ /\ mine = {}
          /\ UNCHANGED <<owned, wHistory, wBalance, lastUsed>>
       \/ /\ mine # {}
          /\ new \cap Rows = {}
          /\ owned' = owned \cup new
          /\ lastUsed' = IF new = {} THEN lastUsed ELSE LastUsedIndex(used)
          /\ wHistory' = wHistory \cup {t}
          /\ wBalance' = IF wBalance = NoRow THEN Max({0, AmountIn(t, mine)})
                         ELSE wBalance + AmountIn(t, mine)
    /\ unseen' = IF status # "none" /\ ~snapshot.wallet THEN unseen \cup {t} ELSE unseen
    /\ snapshot' = NoSnapshot
    /\ UNCHANGED <<status, retryCount, load, failures, timeouts>>

-----------------------------------------------------------------------------

LoadWallet(l) ==
    \/ GenerateAddresses(l)
    \/ AddNewAddresses(l)
    \/ StoreLastUsed(l)
    \/ \E a \in load[l].todo : Adopt(l, a)
    \/ ReadHistory(l)
    \/ InsertHistory(l)
    \/ SumBalances(l)
    \/ SumHistory(l)
    \/ InsertBalance(l)
    \/ SetReady(l)
    \/ Throws(l)
    \/ ReadRetries(l)
    \/ SetError(l)

Next ==
    \/ \E l \in Load : \/ Request(l)
                       \/ Invoke(l)
                       \/ InvokeFails(l)
                       \/ LoadWallet(l)
                       \/ Timeout(l)
    \/ \E t \in Tx : BeginTx(t) \/ CommitTx(t)
    \/ RollBack

Spec == Init /\ [][Next]_vars

-----------------------------------------------------------------------------
(* Properties *)

IsComplete ==
    /\ wHistory = Touching(accepted, owned)
    /\ wBalance = IF wHistory = {} THEN NoRow ELSE BalanceOf(accepted, owned)

\* A wallet that is "ready" (wallet.ts: loadWallet) has the whole history of its
\* addresses in wallet_tx_history and their whole balance in wallet_balance,
\* whatever transactions arrived between the statements of the load: one that
\* would be lost or counted twice makes an INSERT of the load fail instead.  The
\* exception is a transaction whose snapshot is older than the wallet.
ReadyIsComplete == status = "ready" /\ unseen = {} => IsComplete

\* generateAddresses hands a wallet no address further than max_gap from the
\* last used one: neither a load with a stale view nor addNewTx runs ahead.
NoAddressBeyondGap == owned \subseteq Addresses(Used)

\* GET /addresses/new of a ready wallet always has max_gap addresses to offer that
\* no transaction has used (db/index.ts: getNewAddresses), although loads and
\* transactions write wallet.last_used_address_index from views of their own.
FreshAddresses ==
    status = "ready" /\ unseen = {} => Cardinality(Offered) = Gap

\* Whatever a load left behind, each transaction the address tables can take
\* is taken: wallet_balance has what the transaction spends from the wallet.
NoTxIsRefused ==
    \A t \in Tx \ accepted : Funded(t) => WalletCovers(t, DOMAIN Amount[t] \cap owned)
=============================================================================
