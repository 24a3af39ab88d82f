# Wallet service: TLA+ models, checks and proofs

This directory verifies the core of the Hathor wallet service: the service that
keeps, for every wallet a client has started, its addresses, outputs, balances
and history in MySQL, and pushes new transactions to WebSocket connections and
phones. It holds TLA+ modules translated from the TypeScript source, TLC
configurations that check them on small instances, and TLAPS proofs that hold
for every value of the constants. `PROJECT.json` lists components, runs, mutants,
hazards, theorems, and for every definition the source lines it models.

Paths below are relative to the root of the repository (`src/` is the code).

1. [The system](#1-the-system)
2. [What is hard about it](#2-what-is-hard-about-it)
3. [The modules and the code](#3-the-modules-and-the-code)
4. [The runs](#4-the-runs)
5. [Where the code and its own words differ](#5-where-the-code-and-its-own-words-differ)
6. [What is proved](#6-what-is-proved)
7. [What is not modelled](#7-what-is-not-modelled)
8. [Plan](#8-plan)

To check a module: `tlc -config Ledger.cfg MCLedger.tla`; to check a proof:
`tlapm LedgerProofs.tla`.

## 1. The system

The service is a set of AWS lambdas (`serverless.yml`) around one MySQL database
and one Redis. Lambdas share no memory: everything they tell each other goes
through a table, a Redis key, an SQS message or another invocation, and any
number of them run at once.

```
 full node --> daemon --> onNewTxRequest (txProcessor) ---SQS---> onNewTx --> Redis, WebSocket
                             |   handleReorg, handleVoided    \--invoke--> push lambdas --> FCM
                             v
   crons ----------------> MySQL <------------- API lambdas <----- clients
 (mempool, proposals,        ^
  push devices)              '---- loadWallet (invoked by POST /wallet)
```

| Component | State it keeps | Operations | What makes it correct |
|---|---|---|---|
| Transaction processor: `txProcessor.ts`, `commons.ts`, `db/index.ts` | `transaction`, `tx_output`, `address_tx_history`, `address_balance`, `wallet_balance`, `wallet_tx_history`, `token` | `addNewTx` (in a database transaction), `handleReorg`, `handleVoided` | the derived tables agree with the rows they summarise after any sequence of blocks, transactions, reorgs and voids |
| Old-mempool cron: `mempool.ts`, `commons.ts` | what each statement of the void has read so far | `onHandleOldVoidedTxs`, `handleVoided` outside a transaction | it voids what the full node has voided, and what spends it, and damages nothing else |
| Reorg detection: `commons.ts` | local | `searchForLatestValidBlock` | it finds the last block both sides agree on |
| Balances API: `api/balances.ts`, `commons.ts` | the `locked` flags and the locked/unlocked columns | `getWalletBalances`, `unlockUtxos` | an amount moves from locked to unlocked once |
| Authority columns: `types.ts`, `db/index.ts` | `*_authorities` of the balance tables | merge, OR, recompute | a column is the OR of the unspent authority outputs |
| Transaction proposals: `api/txProposal*.ts`, `db/cronRoutines.ts` | `tx_proposal`, `tx_output.tx_proposal` | create, send, destroy, `cleanUnsentTxProposalsUtxos` | outputs are reserved by one proposal, and freed when it ends |
| Wallet loading: `api/wallet.ts`, `db/index.ts` | `wallet`, `address`, `wallet_tx_history`, `wallet_balance` | `load`, `loadWallet` | a ready wallet has all of its history and balance |
| Address generation: `db/index.ts`, `api/newAddresses.ts` | `address`, `wallet.last_used_address_index` | `generateAddresses`, `getNewAddresses` | no used address within the gap is missed, and unused ones are offered |
| WebSocket connections: `redis.ts`, `ws/*.ts` | the connection store in Redis | connect, join, disconnect, `onNewTx` | who listens is told, who left is forgotten |
| Push notifications: `api/push*.ts`, `utils/pushnotification.utils.ts` | `push_devices` | register, update, unregister, cron, the chain of lambdas to FCM | a row says what its wallet asked for |

How they interact: `addNewTx` reads the addresses a load writes and writes the
balances the load has copied; the proposals mark and the balances API unlocks
rows that `addNewTx` spends; `onNewTxRequest` sends the SQS message and invokes
the push lambdas; `addNewTx` runs `generateAddresses` inside its transaction and
`loadWallet` runs it outside one.

Only `addNewTx` and `handleReorg` run inside a database transaction
(`transactionDecorator`). Every other handler is a series of statements that
commit one by one, so that its interleavings and its failures half way are visible.

## 2. What is hard about it

`hazards` in `PROJECT.json` names each one at its line, with the properties that
watch it or the reason why none does. In short:

- **Undoing.** A reorg undoes in six tables what a chain of `addNewTx` calls did,
  by rules of its own (rows are re-summed rather than subtracted), and the same
  transaction may then come back. (`Ledger`, `CronVoid`, `Authorities`)
- **Derived columns.** Each balance exists three times (outputs, address rows,
  wallet rows), each with a locked half that time or a block moves.
  (`Ledger`, `LazyUnlock`)
- **Reads that grow stale.** Proposals, the lazy unlock, the load, pushes and the
  gap scan read in one statement and write in a later one. (`TxProposal`,
  `LazyUnlock`, `CronVoid`, `WalletLoad`, `GapScan`, `PushDevices`)
- **Failures half way.** A lambda stops at its timeout, an UNSIGNED column refuses
  an UPDATE, a plain INSERT meets its own row of an earlier try. (all of these)
- **Redelivery and retries.** SQS delivers again, clients retry a send, AWS retries
  an asynchronous invocation, the daemon brings again a transaction that was rolled
  back after it was announced. (`WsConnections`, `TxProposal`, `WalletLoad`)

## 3. The modules and the code

Conventions: a definition keeps the name the source gives it; a *history variable*
is one the code does not have and no guard reads; *Mutant* in a comment marks a
definition nothing uses, the form a bug would give the next one: `mutants` in
`PROJECT.json` says which property refutes it.

| Module | What it is | Instance |
|---|---|---|
| `ValidTransactions` | abstract: the set of transactions that count | - |
| `Ledger` | the tables of the transaction processor | `MCLedger` |
| `CronVoid` | `handleVoided` as the cron runs it, statement by statement | `MCCronVoid` |
| `ReorgSearch` | `searchForLatestValidBlock`, probe by probe | itself |
| `LazyUnlock` | `GET /balances`, statement by statement | `MCLazyUnlock` |
| `Authorities` | the authority columns | `MCAuthorities` |
| `TxProposal` | proposals, query by query | `MCTxProposal` |
| `AddressGap` | what `generateAddresses` computes | through the next two |
| `GapScan` | its loop | itself |
| `WalletLoad` | `load` and `loadWallet`, statement by statement | `MCWalletLoad` |
| `WsConnections` | Redis store, API Gateway, SQS, `onNewTx` | `MCWsConnections` |
| `PushDevices` | `push_devices` and the push lambdas | `MCPushDevices` |
| `LedgerProofs` | theorems about `Ledger` and `ReorgSearch` | - |
| `WalletLoadProofs` | theorems about `AddressGap`, `GapScan` and `WalletLoad` | - |
| `NotificationProofs` | theorems about `PushDevices` and `WsConnections` | - |
| `CronVoidProofs`, `LazyUnlockProofs`, `AuthoritiesProofs`, `TxProposalProofs` | theorems about the module they are named after | - |
| `FiniteSums` | what a fold or a sum over a finite set is, for the theorems about counts, balances and merged authorities | - |

Modules whose theorems share a module have disjoint names: hence `ScanInit`, `SearchNext`,
`WsSpec` and the like for what other modules call `Init`, `Next` and `Spec`.

### Ledger and ValidTransactions

One token (the code repeats its statements per token) and amounts without their
unit: `ValueOf[S]` is SQL's SUM over a set of outputs.

| Variable | In the code |
|---|---|
| `txRow`, `height` | rows of `transaction`, their `voided` and `height` |
| `history` | rows of `address_tx_history`, their `voided` |
| `utxo`, `spentBy`, `locked` | rows of `tx_output`: `voided`, `spent_by`, `locked` |
| `unlockedBal`, `lockedBal`, `txCount` | `address_balance` |
| `wUnlocked`, `wLocked` | `wallet_balance` |
| `tokenRow` | rows of `token` |
| `worklist` | the rows `onHandleOldVoidedTxs` has read and not handled yet |
| `now` | `getUnixTimestamp()` |

`NewTx`, `NewBlock` and `ConfirmTx` are the three ways through `addNewTx`;
`HandleReorg` is `handleReorg` for the height the search returned; `FetchOldMempool`,
`CronVoid`, `CronConfirm` and `CronSkip` are the cron; `UnlockWallet` is the lazy
unlock as one step (its statements are `LazyUnlock`). A call that throws inside a
transaction leaves no trace, so it is not a step; `handleVoided` in the cron is not
in a transaction, so the action `CronVoid` includes the ways its last statements
fail, and the module `CronVoid` takes it apart.

`VoidedBy` is the result of the breadth-first loop of `handleVoidedTxList` (the
least set closed under valid spenders), not the loop; `AffectedTxCount`,
`RebuildAddressBalances` and `ValidateAddressBalances` keep what the queries really
count and compare, the comparison by list position included.

Inputs come from the full node. `FullNodeAccepts` says what it may send: a transaction
after those it spends, once its inputs are unlocked; `DoubleSpends` says whether
it may also send a transaction that conflicts with one we still hold valid. The daemon
sends blocks in order, hence `Height[b] = LatestHeight + 1`. Both are external:
they are assumptions about the full node and the daemon, not code of this repository.

`ValidTransactions` is what a reader of the tables may rely on: transactions are
accepted one at a time, never spend an output twice, and leave together with all
that depends on them. `ImplementsPromise` is that `Ledger` implements it with
`accepted <- {t : history[t] = "valid"}`.

### CronVoid

The same void without the database transaction that `handleReorg` has. `cron.pc` is the
next statement of `onHandleOldVoidedTxs`, `handleVoided`, `handleVoidedTxList` or
`rebuildAddressBalancesFromUtxos`, and the other fields are the local variables that
outlive a statement: `rows` is `txOutputs` with the `spentBy` it was read with
(`spenders`), `spent` is `spentOutputs`, `affected` is `affectedUtxoList`, `counts` and
`tokenDiff` are the values written at the end. `addNewTx` commits between any two
statements (`AddNewTx`), `CronStops` is Lambda's timeout at any of them, and the full
node may void a transaction and take it back (`NodeVoids`, `NodeTakesBack`).

| Variable | In the code |
|---|---|
| `txRow`, `history`, `utxo`, `spentBy` | rows of `transaction`, `address_tx_history`, `tx_output` |
| `unlockedBal`, `lockedBal`, `txCount`, `received` | `address_balance`, with `transactions` and `total_received` |
| `tokenTxs` | `token.transactions` |
| `inbox` | transactions the daemon has still to bring |
| `crossed` | history: transactions whose void was cut short or met their own return |

What holds is relative to `Doubtful`: the transactions whose void is under way or
in `crossed`. A void that is cut short does leave wrong rows behind, and the code does
not repair them; the properties say that the damage ends there: an address that
no doubtful transaction touches has the balance of its unspent outputs
(`OnlyDoubtfulBalances`), rows of other transactions agree (`OnlyDoubtfulRows`), the
count of an address may lose a transaction that arrives during the rebuild but
never gains one (`CountIsAtMostHistory`), and a later execution takes up what
an earlier one dropped (`VoidsAreHandled`). Nothing is claimed of `total_received`: the
reset leaves it alone, and a void that stops after it leaves it too high.

### LazyUnlock

One wallet, one token, outputs with a timelock only. `call[c].at` is the statement
a balances lambda runs next and `todo` the UPDATE statements it has left: two for each
address it touches and two for the wallet. `addNewTx` is two actions, its snapshot
reads (`BlockReads`, `SpendReads`) and its commit: InnoDB answers its queries from
the snapshot of the first one and applies its relative updates to the current rows. An
update that an UNSIGNED column refuses ends a call (`UpdateIsAnError`) or rolls the
transaction back (`RollBack`).

`overlap`, here and in `TxProposal` and `PushDevices`, is chosen in `Init` and never
changes: FALSE are the behaviours in which the executions in question come one
after another, which some properties need; TRUE are all of them.

### Authorities

The columns are bits, not sums, so the code cannot subtract: it ORs what a
transaction brings and re-computes a column when the merged array has a negative
entry. The module keeps the array arithmetic of `types.ts` (a saturating merge which
is not associative, and the conversion to an unsigned integer) and takes every order in
which the addresses of a wallet can be merged.
`spent` are the rows with a `spent_by`, which is what the code reads (`Unspent`);
`Spendable` is what the full node lets a transaction spend. The two are the same until a
transaction without rows in `tx_output` is voided: `handleVoidedTxList` looks for what it
spent through its rows (`SpentOutputs`), so it gives nothing back and no address is
summed up again (`AffectedAddresses`).

### TxProposal

An action is what a lambda does between two queries. `create[p]` is the progress
of the create lambda of `p`, `step[r]` that of an invocation of send or destroy,
`cron` and `unsent` that of `cleanUnsentTxProposalsUtxos`. `markUtxosWithProposalId` is
not awaited: `MarkUtxos` may fail without the lambda noticing. `spent` and
`nodeSpent` differ while a pushed transaction has not come back through the daemon.
`Faults` lets a query fail and a lambda stop at any point (`CreateStops`,
`RequestStops`, `CronStops`). `OutputReturns` is what the ledger does to a proposal: a
transaction that was voided and comes back has its `tx_output` rows deleted and inserted
again (`cleanupVoidedTx`, `addUtxos`), and the new rows carry no mark.

### AddressGap, GapScan, WalletLoad

`AddressGap` says what `generateAddresses` returns for a set of used indexes;
`GapScan` is the loop, with addresses that become used between two of its SELECTs,
and shows that alone the loop returns just that (`AloneItIsLastUsedIndex`).
`WalletLoad` uses `AddressGap` and takes `loadWallet` statement by statement:
`load[l].pc` names the next statement, and the other fields hold what an execution
read (`new`, `todo`, `addresses`, `history`, `balance`). Its `GenerateAddresses` is one read of
the used indexes; what can happen between the SELECTs of the loop is in `GapScan`. `addNewTx` is two actions:
`BeginTx` takes the snapshot its plain SELECTs read (does the wallet exist, which
addresses does it own), `CommitTx` writes by it, and `RollBack` drops it. Of its tables
only those of the wallet are state, the rest are functions of `accepted`. `lastUsed`
is `wallet.last_used_address_index`, which loads and transactions overwrite, each from what
it has read; `Offered` is what `GET /addresses/new` answers from it. `unseen` is a
history variable: the transactions whose snapshot is older than the wallet.

### WsConnections

`conns` and `chans` are the Redis keys; every command is a step except those of one
`multi` (`endWsConnection` reads the keys, queues deletions, and executes them
later: `multis`). `joining`, `leaving` and `posting` are executions under way,
`queue` is SQS, which delivers a message again when `onNewTx` failed. `addNewTx` sends the
message before its COMMIT: `NewTx` sends and commits, `RollBack` sends and does not, and
the daemon brings the transaction again. `joined`, `added` (what was committed) and
`delivered` are history variables. A post of a notification is answered,
fails with 410, or fails otherwise or is cut short and is tried again (`Fails`). An error other
than 410 of the reply of a join has the effect of a `Timeout` and is not an action of its own. The SCAN with which `endWsConnection` finds the keys is one step, and a SET of `connect`
that fails, which the code only logs, is left out.

### PushDevices

`pending` are the register and update lambdas that have checked and not yet
written; `tx`, `outbox` and `sending` follow a transaction through the three lambdas;
`alive` are the tokens FCM knows; that a device registers with one of them (the guard of
`Register`) is what FCM is assumed to give to a device. `updated_at` is the boolean `old`, and moves only
when MySQL moves it (`ON UPDATE CURRENT_TIMESTAMP` does not when an UPDATE changes nothing).

### ReorgSearch

`fork` is the height from which the full node holds our blocks voided; it may move
between two probes, and `lowestFork` and `highestFork` remember where it has been.

## 4. The runs

Every run is `tlc -config <run>.cfg <module>`; the properties are in its `.cfg`
and are stated in natural language where they are defined.

| Run | Question | Instance and bounds | Distinct states |
|---|---|---|---|
| `Ledger` | do the tables agree with each other through blocks, reorgs, voids, cron and unlocks, and implement `ValidTransactions`? | blocks `b1`, then `b2` or `c2`; `t1` spends the reward of `b1`, `t2` its change; one timelock; two addresses of one wallet; `MaxTime` 2; no double spends | 11,673 |
| `Ledger_void_timelock` | can every next block be added? (no: section 5) | the same | violation |
| `CronVoid` | what does a void that runs outside a transaction damage, and is every void handled in the end? | `t` spends an output of a confirmed transaction, `u` the change of `t`, and `v` another output; the full node takes one transaction back, one execution is stopped | 106,532 |
| `TxProposal` | do marks, statuses and pushes stay consistent in every interleaving, with faults? | one output, two proposals, two invocations, the cron | 237,560 |
| `WalletLoad` | is what becomes ready complete, and has it addresses to offer? | one execution, gap 2, four transactions, one refused invocation, one timeout, two retries | 1,450,395 |
| `WalletLoad_answers` | has a wallet that the APIs answer for all it should have? (no: section 5) | the same | violation |
| `GapScan` | does the scan miss an address, and does it end? | gap 2, indexes 0 to 5, any of them used before or during the scan | 13,105 |
| `ReorgSearch` | does the search find the fork, and end? | every height up to 10, every fork, every later reorganisation | 5,635 |
| `WsConnections` | is a listener told, and a closed connection forgotten? | one connection, two wallets, one message, one error (a failed post or a rollback), one timeout | 436,335 |
| `Authorities` | are the authority columns the OR of the unspent outputs? | six transactions over nine authority outputs, an amount and three addresses; seven of the outputs may be locked; the transactions that trade and that melt an authority can be voided | 104 |
| `LazyUnlock` | are amounts moved once by calls that race each other and `addNewTx`? | three outputs, two addresses, two calls, `MaxTime` 3 | 271,924 |
| `PushDevices` | does a row say what its wallet asked for, and why does it go? | one phone, two started wallets and one that is not, two lambdas at once, one transaction | 22,604 |

### Why the bounds are enough

- *Ledger.* Two branches give reorgs of one and of two blocks and the return to a
  branch left before; `t1` and `t2` form the chain of spenders that voiding has to
  follow, from a block and from a mempool transaction; each of them can be confirmed,
  sent back to the mempool, voided and added again, without a limit on how often. One
  wallet with two addresses makes an address column differ from a wallet column.
  `MaxBalance` 10 is never reached: the sum of all outputs is below it.
- *CronVoid.* Two generations of spenders and a bystander at the address they
  share, so that a rebuild meets an unrelated `addNewTx`; one unlocked and one locked
  output to re-sum. `MaxReturns` 1 brings a voided transaction back before, during or
  after its void (with `MaxReturns` 2 the invariants were checked on their own: 1,982,222
  states, no error; the liveness property makes that run too long), `MaxStops` 1 cuts one execution short at any statement and lets
  the next ones clean up after it. No two of the transactions conflict.
- *TxProposal.* All hazards are about two claims on one output: two creates, two
  sends, or one of each with the cron. `TxProposal_shared` and the other
  configurations have two outputs, which the matching of inputs needs.
- *WalletLoad.* `MAX_LOAD_WALLET_RETRIES` is 5 in the code; two are enough for a
  try after a retry, and the count is compared and incremented, nothing else. The four
  transactions pay, spend, extend the gap and jump beyond it.
- *GapScan, ReorgSearch.* Three scan blocks, and three or four halvings: the proofs
  cover every gap and every height.
- *WsConnections.* One connection because nothing in the store relates two (their keys
  are disjoint); two wallets because a connection may join several and a
  message may name several.
- *LazyUnlock.* Two outputs at one address and one at another, two timelocks: a
  call that unlocks some of an address, and two calls with different sets.

### Fairness

Safety runs assume none. Where a run checks that something eventually happens:

- `CronVoid`: weak fairness of the statements of an execution under way, which is a
  sequential program that Lambda either runs or stops (`CronStops`, finitely often);
  strong fairness of a fetch that includes a given transaction, because the cron is
  scheduled every twenty minutes and a transaction only gets older. Neither the full
  node nor the daemon owes anything.
- `TxProposal`: weak fairness of each invocation already begun, of time
  (`GetsStale`), of the first statement of the cron and of the daemon (`TxArrives`);
  strong fairness of the two later statements of the cron. A lambda is stopped at
  its timeout, so a begun invocation ends; the cron is scheduled every five
  minutes (`serverless.yml`), and strong fairness says that it is not stopped
  before the same statement on each of its infinitely many executions.
- `WsConnections`: weak fairness of invoked lambdas, of the `exec` of a `multi` and of
  the delivery of a queued message, which SQS repeats until `onNewTx` succeeds.
  Clients owe nothing: they need not connect, join or close.
- `GapScan`, `ReorgSearch`: weak fairness of the loop, which is sequential code. The
  full node and other lambdas owe nothing and may interfere at every step.

### Deadlock

`PushDevices` is checked for deadlock. The other configurations say
`CHECK_DEADLOCK FALSE` because their system does stop: the finite instance runs out
of transactions, calls or time, the sequential algorithms end, and in `Ledger` a
call that is refused (a block that section 5 shows to be rejected) leaves nothing to do.

### Mutants

`PROJECT.json` pairs each property of each passing run with a mutated definition:
a guard dropped, a statement omitted, an index off by one, an order swapped. TLC
refutes the property under the very configuration of the run.

## 5. Where the code and its own words differ

Two disagreements are runs of the project:

1. **A voided timelock stops the chain** (`Ledger_void_timelock`).
   `getExpiredTimelocksUtxos` (`src/db/index.ts:2606`) selects locked rows without
   asking whether they are voided or spent. A transaction with a timelocked output
   is voided: its value leaves `locked_balance`, the row stays locked.
   When the timelock expires, the next block subtracts it again, the UNSIGNED column
   refuses and the block is rolled back, as is every later try.
2. **A wallet that is not ready answers** (`WalletLoad_answers`). `updateWalletStatus`
   (`src/db/index.ts:321`) sets `ready_at` whatever the status it stores, and `ready_at`
   is all that the APIs of a wallet look at. A load whose invocation is refused leaves the
   wallet in `error` with a `ready_at`. A retry keeps that status until it ends: while it runs,
   the wallet has addresses that transactions have used and no history or balance of theirs,
   and `GET /txhistory`, `GET /balances` or `POST /txproposals` answer with what is
   there, where a test says that they fail with `WALLET_NOT_READY`.

Further configurations, to be run by hand (with `-continue` where there are several
properties), show counterexamples to sentences
of the source, quoted above each property in its `MC` module:

| Configuration | Property | What happens |
|---|---|---|
| `Ledger_void` | `TxCountIsHistory` | a transaction voided before is counted, and subtracted, again by the next void that touches it |
| | `VoidedTxCanReturn` | the `token` row of a voided creation is not removed, and its INSERT fails when the transaction is back |
| | `VoidPassesValidation` | the two lists `validateAddressBalances` compares by position have different addresses |
| | `WalletIsSumOfAddresses` | `wallet_balance` is not rebuilt with the addresses |
| `Ledger_void_again` | `WalletFollowsAddresses` | where the locked column covers the voided timelock of finding 1, the next block moves its value to unlocked instead of failing; when the cron then comes to a transaction that the void of another one took along, the rebuild corrects the address and not the wallet |
| `Ledger_void_outputless` | `SpentByValidTx` | a voided transaction without decodable outputs keeps what it spent: the search asks by the rows found |
| `Authorities_load` | `WalletHasItsAuthorities` | a wallet loaded after its authorities were received is created without them |
| `Authorities_voided` | `AuthoritiesAreUnspent` | unlocking the voided outputs of finding 1 sets authority bits |
| `Authorities` with `rest :> trade` in `MCTxOf`, so that `destroy` has no outputs | `AuthoritiesAreUnspent` | the void of `destroy` leaves the authority it spent marked as spent, and the columns without it (as `Ledger_void_outputless` for amounts) |
| `LazyUnlock_counted`, `LazyUnlock_refreshed` | `TimelocksAlwaysCount`, `AnswerIsAlwaysRefreshed` | a balances call racing another one answers with amounts moved in part |
| `TxProposal_cancel` | `StaleIsCancelled` | `releaseTxProposalUtxos` asserts one row per proposal; with another number of inputs the cron releases and never cancels |
| `TxProposal_inputs` | `PushedAsProposed` | inputs are matched by `tx_id` only, not by index |
| `TxProposal_shared` | `OpenProposalsAreDisjoint` | `create` checks that no input belongs to another proposal and marks the inputs in a later query, outside any transaction: two concurrent creates both pass and both become open |
| `TxProposal_resent` | `SentIsFinal` | of two sends under way, the one the node refuses sets the proposal the other has sent to `send_error` |
| `WalletLoad_gap` | `GapIsKept` | `addNewTx` adds the addresses that have no row yet but never adopts, as its comment says, the ones that have a row without a wallet |
| | `RetryCanSucceed` | the INSERTs of `wallet_tx_history` and `wallet_balance` are plain. A refused invocation is retried, the retry is ended after it added the addresses, and `addNewTx` writes the rows of the wallet for a transaction that uses one: every later retry fails on them. (The test quoted retries only after a refused invocation.) |
| | `AllSeeTheWallet` | a transaction whose snapshot is older than `createWallet` misses the wallet, which becomes ready without it |
| `WalletLoad_spend` | `NoTxIsRefused` | a wallet balance inserted from a stale sum can be too small for the next spend |
| `WalletLoad_twice` | `ReadyIsComplete` | the status stays `error` during a retry, so a second one is accepted meanwhile; it runs after the first has made the wallet ready, adopts an address that a transaction used since, and the wallet is ready without the balance of that address (904,943 states) |
| `WsConnections_timeout` | `DeadAreAlwaysForgotten` | a lambda stopped between reading and deleting the keys leaves them in the store |
| `PushDevices_moved` | `PushedToItsWallet` | a device that changed wallets between two lambdas gets the message of the first |
| `PushDevices_overlap` | `RegisterAlwaysTakesEffect` | of two registrations of one device the later INSERT keeps the row of the earlier |

`Ledger_conflicts` passes: with double spends from the full node, 45,072 states,
`SpentByValidTx` still holds.

Outside any model: `README.md:184-188` says an `update-tx` message is sent to
clients, but `onUpdateTx` has no event in `serverless.yml:499`.

## 6. What is proved

All theorems hold for every value of the constants that satisfies the `ASSUME`s of
the module; TLC evaluates those on the instances.

| Module | Theorems | Inductive invariant and why it is needed |
|---|---|---|
| `LedgerProofs` | `RowsInvariant`, `TypeCorrect`, `TablesAgree`, `NoGapInChain` | `RowsInv`: `TypeOK`, `RowsAgree` (the three row tables agree on what exists and what is void), `ChainHasNoGaps`, `WorklistIsKnown`. Type correctness alone is not inductive: a voided transaction gets a `history` value only if it had one, which the row tables' agreement gives; the cron's worklist must name known rows for the same reason |
| | `SpentBySound`, `VoidingIsComplete`, `NothingIsSpentTwice`, `BalancesAreConserved`, `KeepsThePromise` | `RowsInv` and the property. Every step is an `AddStep`, a `VoidStep` or a `QuietStep`, so that each property is proved for three shapes of step |
| | `RewardsAreUnlocked` | `RewardInv`: with the property, that what is spent is unlocked (`SpentIsUnlocked`): only then can the void of a spender not bring back a reward that is locked and overdue |
| | `WalletsFollowUnlessRebuilt`, `WalletsFollow` | `LockedIsExact` (the locked column is the value of the locked unspent outputs), with `RewardInv`, `SpentByValidTx` and `BalanceIsUnspent`: a second void of the same transaction changes the columns by a rebuild, so the wallet follows only because the rebuild finds what was there |
| | `SearchFindsTheFork` | `SearchInv`: the fork met lies between the two ends of the interval |
| `CronVoidProofs` | `VoidTypes` | `TypeOK` and the types of the local variables of the void, with what its counts are bounded by |
| | `VoidsAreComplete` | `Facts` and `RowInv`: at each statement, which rows are already void and which are still to be (`Voiding`), so that a void that ends leaves no generation behind |
| | `BalancesSurviveVoids` | `MarkInv` (a mark is that of a valid or a doubtful transaction, and the void still has to take away those of what it has voided) and `BalanceInv` (between two statements a column is as before, zero, or half rebuilt, plus what `addNewTx` has added since) |
| | `CountsSurviveVoids` | `CountFacts` and `CountInv`: what a count, the count read and the count to be written are each at most the transactions that the history still holds or that this void has taken out of it |
| `LazyUnlockProofs` | `NoAmountIsLost` | `LockInv`: types of calls and amounts, `SpendsAreUnspent` (what a transaction is about to spend stays unspent), `TotalIsKept` |
| | `RowsMatchAtRest`, `AnswersAreRefreshed`, `TimelocksCount` | `BalancesInv`: how far each statement of the call under way has brought each column from the one sum to the other, and that `timelock_expires` is the next timelock of the rows not touched |
| `WalletLoadProofs` | `AddressInvariant`, `NoneBeyondGap` | `AddressInv`: what a load has computed, and the snapshot of `addNewTx`, stay within `Addresses(Used)`, which only grows (`AddressesGrow`, from what `AddressGap` computes). |
| | `LoadTypeCorrect` | `LoadTypes`: `ReadyInv` (with one execution at a time none is under way on a ready wallet) and the types of columns and local variables. The two numbers that are not bounded by an assignment need more: `retry_count` grows only in a load that was asked for below the limit, and `last_used_address_index` comes from a load whose addresses end a gap after an index that was once the last used |
| | `ReadyMeansComplete` | `CompleteInv`: before each statement of the load, either what it has read is still all there is (`Clean`, `Untouched`, `Sums`) or it is `Doomed`: a transaction that came in between has written the row that its own INSERT is going to meet. So no stale sum is ever made ready |
| | `ReadyHasFreshAddresses` | `FreshInv`: there are `Gap` addresses in a row, owned and unused, from `lastUsed` on, and from the index that the load is about to store as well, because `addNewTx` adds a gap after each address used meanwhile. It needs `CompleteInv` for the case in which the load has computed its addresses and not inserted them |
| | `ScanInvariant`, `NoneIsMissed`, `ScanIsLastUsedIndex` | `ScanInv`: where the loop is in its block (`Behind`, `AtHand`, `Ended`), besides types; `AloneInv`: the blocks behind are not covered, so that the block it ends at is the first that is |
| `NotificationProofs` | `PushInvariant`, `PushTypes`, `RegistrationsTakeEffect`, `RowsLeaveForAReason`, `SettingsAreAskedFor` | `PushInv`: the send lambda is about to unregister dead tokens only, and a registration about to insert is the only one of its device and finds no row |
| | `NoListenerIsLost` | `StoreInv`: only closed connections are being ended, a known connection is not new, an answered one is stored |
| `TxProposalProofs` | `ProposalInvariant`, `DestroyIsComplete`, `MarksAreChecked`, `SerialCreatesDoNotSteal`, `PushedOnce` | `TypeOK`, `RowsFollowMarks` (a row exists only once the marks are written), `MarksWereChosen`, `DestroyReleasesAll`; for serial creates also `CheckedStaysFree` (what a lambda has checked is free until it marks it) |
| `AuthoritiesProofs` | `AuthorityInvariant`, `AuthoritiesOfAddress`, `LockedIsSpendable` | `AuthorityInv`: `TypeOK`, `Unspent = Spendable`, what is locked is a timelocked unspent output, a valid transaction spends outputs of valid ones, no two of them spend one output, and the columns are the OR of the unspent outputs. Without the second part a sum would miss what a void gave back; without the third an unlock could add an authority that is spent; without the fifth a void could give back what another transaction spends |
| | `WalletFollows` | the same invariant, and what a merge of the arrays of a wallet's addresses can come to (`WalletBalanceSigns`), by induction on the addresses merged |
| `FiniteSums` | `FoldExists`, `SumUnfolds`, `SumWithout`, `SumOfUnion`, `SumOfChange`, `SumOfSame`, `SumOfAlike`, `SumOfPlus` (lemmas) | by induction on a finite set (`InductionOnSets`), for sums of any length |

Assumptions beyond the modules':

- `BalancesAreConserved` and `SpentBySound` assume `EveryTxHasOutputs` (each transaction
  has a decodable output; without it `Ledger_void_outputless` is a counterexample), and
  `VoidingIsComplete`, `NothingIsSpentTwice`, `BalancesAreConserved` and `KeepsThePromise`
  assume `~DoubleSpends`.
- `VoidsAreComplete`, `BalancesSurviveVoids` and `CountsSurviveVoids` assume `NoConflicts`
  (no two transactions spend one output: `AddNewTx` of a double spend would take over the
  mark of the other one), the last two also `EveryTxHasOutputs`. `VoidTypes` assumes neither.
- `WalletsFollow` assumes the same two, and that no row is voided while a timelock holds it
  (`[]NoTimelockIsVoided`, about the behaviour); `Ledger_void_again` is the counterexample
  without. `WalletsFollowUnlessRebuilt` assumes nothing: it is about every call but the voids
  of the cron.
- `LoadTypeCorrect`, `ReadyMeansComplete` and `ReadyHasFreshAddresses` assume that
  there is one execution of the load at a time (the platform may end it anywhere and deliver
  its event again); `WalletLoad_twice` has the counterexample for two.
  `ReadyMeansComplete` and `ReadyHasFreshAddresses` are, as their properties say, about the
  behaviours in which no transaction missed the wallet (`WalletLoad_gap`, `AllSeeTheWallet`).
- `SerialCreatesDoNotSteal`, `RegistrationsTakeEffect`, `RowsMatchAtRest`,
  `AnswersAreRefreshed` and `TimelocksCount` are about the behaviours with
  `overlap = FALSE`, as their properties say: `TxProposal_shared`, `PushDevices_overlap`,
  `LazyUnlock_refreshed` and `LazyUnlock_counted` are the counterexamples for the others.
- The theorems of `AuthoritiesProofs` assume `NoTimelockIsVoided` (no transaction that can be
  voided has a timelocked output) and `VoidsHaveOutputs` (each of them has a row in
  `tx_output`). A void keeps the locked flag, and `Authorities_voided` is the
  counterexample; without outputs nothing is given back (section 5). `WalletFollows` needs the
  first too: with `Voidable = {merge, trade, split}` in `Authorities.cfg` TLC refutes
  `WalletFollowsAuthorities`, by an output that is unlocked while its transaction is
  voided.

`TypeOK` of `Ledger`, `TxProposal`, `GapScan`, `ReorgSearch`, `WsConnections`, `LazyUnlock` and
`Authorities` is a conjunct of a proved invariant and not repeated in the runs.

The central argument is that of `BalancesAreConserved`. An `AddStep` changes each
address column by `ValueOf` of the outputs that enter and leave `Unspent` (the additivity
of `ValueOf` on disjoint sets is the only arithmetic); a `VoidStep` re-sums the
addresses in `AffectedAddresses`, so it remains to show that the unspent outputs of
every other address do not change, which is that `Affected(S)` holds every row whose
`utxo` or `spentBy` the step writes.

`AuthoritiesOfAddress` turns on two facts about the code's numbers. An array without a
negative entry, read as an integer and cast to unsigned, is the mask of its ones
(`MaskOfOnes`). And `addNewTx` adds that mask with an OR unless an entry is negative, when
it reads the unspent outputs instead: so a bit that the transaction spends is either given
out again by it or re-read (`BalanceWithoutNegative`).

`WalletFollows` is about the sum of those arrays over the addresses of a wallet. The merge
saturates and is not associative (1, 1, -1 gives 0 or 1), so the sum depends on the order in
which `getWalletBalanceMap` meets the addresses. What does not depend on it
(`SignOfEntries`) is enough: a 1 comes from an address with a 1, entries of one sign
never cancel, so an authority that the wallet only receives is 1 and one that it only
spends is -1 and has the row read again. One that it both spends and receives is in the
row whatever the sum is, before and after. The fold is a recursive function: `FoldExists`
shows that there is one, and the lemma then follows by induction on the number of addresses
merged, up to `MaxIn`, the element `FoldLeft` takes last.

The proofs of `CronVoidProofs` follow the void statement by statement. `cron.visited` is what the
void has reached so far, generation by generation, and `Voiding` is that without what came
back meanwhile; each invariant says of each table, at each statement, to which of these
transactions it has already been applied. `addNewTx` may commit anywhere in between:
what it brings either has nothing to do with them, or is itself one of them and
`crossed` from then on. The balance columns need the additivity of sums, for any number
of outputs: that is `FiniteSums`, which `WalletLoadProofs` uses for the wallet balance
a load sums, and `LedgerProofs` for the rows that a wallet's columns sum up.

Induction. The library's induction theorems take an operator as a parameter, which none of
the provers can instantiate. `FiniteSums` states the same induction with a *set* of
numbers (`InductionOnNat`) or of subsets (`InductionOnSets`) that have the property, from the
well-foundedness of `<`; a lemma is then proved by naming that set. The folds of the
community modules are recursive functions, so their values are reached the same way.

### Only model-checked

- Liveness (`ScanEnds`, `SearchEnds`, `CancelledIsReleased`, `ListenersAreNotified`,
  `DeadAreForgotten`, `VoidsAreHandled`): the proof system has no fairness rules here.

Every invariant and every action property of the passing runs is stated by a theorem.

## 7. What is not modelled

- Authentication (`api/auth.ts`, `changeAuthXpub`): cryptography without shared state.
- The read-only API (`addresses`, `txhistory`, `tokens`, `txOutputs`, `txById`,
  `miners`, `totalSupply`, `version`): queries over tables the modules write. The
  exceptions are the ready-wallet guard these handlers share and `newAddresses`,
  which are in `WalletLoad`.
- `fullnodeProxy`, alerts, logs, metrics, the NFT hook: nothing reads their outcome.
- The migrations: the columns' keys, UNSIGNED types and `ON UPDATE` clauses appear
  in the actions they constrain.
- Of the transaction processor: `miner`, and tokens other than one. `total_received` and
  `token.transactions` are only followed through a void, in `CronVoid`.
- The cached version constants (`maybeRefreshWalletConstants`): the full node's limits,
  which no modelled table depends on.

Simplifications: in `Ledger` the lazy unlock is one
step (`LazyUnlock` splits it) and a void by the cron is one step (`CronVoid` splits it);
in `LazyUnlock` there are no heightlocks; in `Authorities`
a transaction is voided only after its spenders; in `PushDevices` FCM gives a
token out once, and a month passes only while no lambda runs. The daemon, the full
node, SQS, Lambda, Redis' `multi` and FCM are external: they are modelled by what the
code in `src/` relies on. An out-of-range UNSIGNED value is an error, as in MySQL's
strict mode, which is its default.

## 8. Plan

What is left, in order of importance:

1. The refinement of `Ledger`'s `UnlockWallet` by a serial `LazyUnlock`.
2. `SpentBySound` for transactions without outputs, weakened to what the code keeps:
   their inputs stay marked after a void.
3. `WsConnections` with two connections, where a connection id is reused by API Gateway.
