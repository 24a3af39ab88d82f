----------------------------- MODULE LazyUnlock -----------------------------
(***************************************************************************)
(* The lazy unlock behind GET /balances, statement by statement:           *)
(* getWalletBalances (src/commons.ts) refreshes the rows of a wallet       *)
(* outside any transaction, so several calls, and the transactions of      *)
(* addNewTx, may run between two of its statements.                        *)
(*                                                                         *)
(* One started wallet and one token; none of its outputs has a heightlock. *)
(* addNewTx does run in a transaction.  Its queries answer from the        *)
(* snapshot taken at its first read, and its updates apply to the rows as  *)
(* they are, under locks held to the end: two actions, the reads and the   *)
(* commit.                                                                 *)
(***************************************************************************)
EXTENDS Integers, FiniteSets, FiniteSetsExt, Functions, Sequences

CONSTANTS
    Output,         \* the tx_output rows of the wallet
    AddressOf,
    Timelock,
    ValueOf,        \* SUM(value) of a set of outputs
    Wallet,         \* the key of the wallet_balance row
    Call,           \* executions of the balances lambda
    MaxTime         \* bound on the clock

Address == {AddressOf[o] : o \in Output}
Row == Address \cup {Wallet}

ASSUME LockAssumption ==
    /\ IsFiniteSet(Output)
    /\ Wallet \notin Address
    /\ Timelock \in [Output -> Nat \ {0}]
    /\ MaxTime \in Nat

ASSUME SumAssumption ==
    /\ ValueOf \in [SUBSET Output -> Nat]
    /\ \A S, T \in SUBSET Output :
          S \cap T = {} => ValueOf[S \cup T] = ValueOf[S] + ValueOf[T]

VARIABLES
    locked,             \* tx_output.locked
    spent,              \* tx_output.spent_by IS NOT NULL
    unlockedBal, lockedBal, timelockExpires,    \* the balance rows
    call,               \* the executions of the balances lambda
    tx,                 \* the transaction the processor is running
    now,                \* getUnixTimestamp()
    overlap             \* may executions overlap? (never changes)

rowVars == <<unlockedBal, lockedBal, timelockExpires>>
vars == <<locked, spent, rowVars, call, tx, now, overlap>>

Null == 0
Of(S, r) == {o \in S : r \in {AddressOf[o], Wallet}}
Unspent == Output \ spent
LockedUnspent == locked \ spent
Least(S) == IF S = {} THEN Null ELSE Min(S)

IdleCall == [at |-> "idle", now |-> 0, found |-> {}, todo |-> <<>>, answer |-> 0]
NoTx == [kind |-> "none", found |-> {}, spends |-> {}]

TypeOK ==
    /\ locked \subseteq Output
    /\ spent \subseteq Output
    /\ unlockedBal \in [Row -> Nat]
    /\ lockedBal \in [Row -> Nat]
    /\ timelockExpires \in [Row -> Nat]
    /\ call \in [Call -> [at : {"idle", "find", "mark", "update", "answered", "failed"},
                          now : 0 .. MaxTime,
                          found : SUBSET Output,
                          todo : Seq({"amounts", "expires"} \X Row),
                          answer : Nat]]
    /\ tx \in [kind : {"none", "block", "spend"},
               found : SUBSET Output,
               spends : SUBSET Output]
    /\ now \in 0 .. MaxTime
    /\ overlap \in BOOLEAN

Init ==
    /\ locked = Output
    /\ spent = {}
    /\ unlockedBal = [r \in Row |-> 0]
    /\ lockedBal = [r \in Row |-> ValueOf[Of(Output, r)]]
    /\ timelockExpires = [r \in Row |-> Least({Timelock[o] : o \in Of(Output, r)})]
    /\ call = [c \in Call |-> IdleCall]
    /\ tx = NoTx
    /\ now = 0
    /\ overlap \in BOOLEAN

AtRest == tx = NoTx /\ \A c \in Call : call[c].at \in {"idle", "answered", "failed"}
MayStart == overlap \/ AtRest

-----------------------------------------------------------------------------
(* The statements of unlockUtxos *)

\* Statements run for each row: the amounts, then timelock_expires.
Statements(rows) ==
    [i \in 1 .. 2 * Len(rows) |->
        <<IF i % 2 = 1 THEN "amounts" ELSE "expires", rows[(i + 1) \div 2]>>]

\* Mutant: the wallet's row is left for later.
AddressPlans(found) ==
    LET touched == {AddressOf[o] : o \in found}
    IN  {Statements(p) : p \in Bijection(1 .. Cardinality(touched), touched)}

\* The addresses in the order of the utxos read, then the wallet.
Plans(found) ==
    LET touched == {AddressOf[o] : o \in found}
    IN  {Statements(Append(p, Wallet)) : p \in Bijection(1 .. Cardinality(touched), touched)}

HasLocked(r, found) == lockedBal[r] >= ValueOf[Of(found, r)]

\* Mutant: locked_balance is summed up again, unlocked_balance is not.
SumUpLocked(r, found) ==
    /\ unlockedBal' = [unlockedBal EXCEPT ![r] = @ + ValueOf[Of(found, r)]]
    /\ lockedBal' = [lockedBal EXCEPT ![r] = ValueOf[Of(LockedUnspent, r)]]

MoveToUnlocked(r, found) ==
    /\ unlockedBal' = [unlockedBal EXCEPT ![r] = @ + ValueOf[Of(found, r)]]
    /\ lockedBal' = [lockedBal EXCEPT ![r] = @ - ValueOf[Of(found, r)]]

\* SELECT MIN(timelock) of the outputs still locked, and for the wallet the
\* MIN(timelock_expires) of its addresses.
NextExpiry(r) ==
    IF r = Wallet
    THEN Least({timelockExpires[a] : a \in Address} \ {Null})
    ELSE Least({Timelock[o] : o \in Of(LockedUnspent, r)})

-----------------------------------------------------------------------------
(* getWalletBalances *)

Expired(r) == timelockExpires[r] # Null /\ timelockExpires[r] <= now

\* Mutant: the outputs whose timelock ends now are left locked.
UtxosPastTimelock(t) == {o \in LockedUnspent : Timelock[o] < t}

\* Mutant: the timelocks are not looked at.
LockedUtxos(t) == {o \in LockedUnspent : t >= 0}

WalletUnlockedUtxos(t) == {o \in LockedUnspent : Timelock[o] <= t}

\* The wallet's row is read: an expired timelock makes the call refresh the
\* tables, otherwise the row it read is the answer.
AskBalances(c) ==
    /\ call[c].at = "idle"
    /\ MayStart
    /\ call' = [call EXCEPT ![c].at = IF Expired(Wallet) THEN "find" ELSE "answered",
                            ![c].now = now,
                            ![c].answer = IF Expired(Wallet) THEN 0 ELSE unlockedBal[Wallet]]
    /\ UNCHANGED <<locked, spent, rowVars, tx, now, overlap>>

\* With nothing to unlock, unlockUtxos returns at once.
FindUtxos(c) ==
    /\ call[c].at = "find"
    /\ LET found == WalletUnlockedUtxos(call[c].now)
       IN  call' = [call EXCEPT ![c].found = found,
                                ![c].at = IF found = {} THEN "update" ELSE "mark"]
    /\ UNCHANGED <<locked, spent, rowVars, tx, now, overlap>>

MarkUnlocked(c) ==
    /\ call[c].at = "mark"
    /\ locked' = locked \ call[c].found
    /\ \E plan \in Plans(call[c].found) :
          call' = [call EXCEPT ![c].at = "update", ![c].todo = plan]
    /\ UNCHANGED <<spent, rowVars, tx, now, overlap>>

UpdateAmounts(c) ==
    /\ call[c].at = "update"
    /\ call[c].todo # <<>>
    /\ LET r == Head(call[c].todo)[2]
       IN  /\ Head(call[c].todo)[1] = "amounts"
           /\ HasLocked(r, call[c].found)
           /\ MoveToUnlocked(r, call[c].found)
    /\ call' = [call EXCEPT ![c].todo = Tail(@)]
    /\ UNCHANGED <<locked, spent, timelockExpires, tx, now, overlap>>

\* An UNSIGNED column cannot go below zero: the statement is an error, the
\* lambda fails, and what it has written stays.
UpdateIsAnError(c) ==
    /\ call[c].at = "update"
    /\ call[c].todo # <<>>
    /\ Head(call[c].todo)[1] = "amounts"
    /\ ~HasLocked(Head(call[c].todo)[2], call[c].found)
    /\ call' = [call EXCEPT ![c] = [IdleCall EXCEPT !.at = "failed"]]
    /\ UNCHANGED <<locked, spent, rowVars, tx, now, overlap>>

UpdateTimelock(c) ==
    /\ call[c].at = "update"
    /\ call[c].todo # <<>>
    /\ LET r == Head(call[c].todo)[2]
       IN  /\ Head(call[c].todo)[1] = "expires"
           /\ timelockExpires' = [timelockExpires EXCEPT ![r] = NextExpiry(r)]
    /\ call' = [call EXCEPT ![c].todo = Tail(@)]
    /\ UNCHANGED <<locked, spent, unlockedBal, lockedBal, tx, now, overlap>>

ReadBalances(c) ==
    /\ call[c].at = "update"
    /\ call[c].todo = <<>>
    /\ call' = [call EXCEPT ![c].at = "answered", ![c].found = {},
                            ![c].answer = unlockedBal[Wallet]]
    /\ UNCHANGED <<locked, spent, rowVars, tx, now, overlap>>

-----------------------------------------------------------------------------
(* addNewTx: a block unlocks what expired, a transaction spends an output *)

BlockReads ==
    /\ tx = NoTx
    /\ MayStart
    /\ tx' = [kind |-> "block", spends |-> {},
              found |-> {o \in locked : Timelock[o] < now}]
    /\ UNCHANGED <<locked, spent, rowVars, call, now, overlap>>

\* The full node accepts an input once its timelock has passed.
SpendReads(o) ==
    /\ tx = NoTx
    /\ MayStart
    /\ o \in Unspent
    /\ Timelock[o] < now
    /\ tx' = [kind |-> "spend", spends |-> {o}, found |-> {o} \cap LockedUnspent]
    /\ UNCHANGED <<locked, spent, rowVars, call, now, overlap>>

RowsOf(S) == {AddressOf[o] : o \in S} \cup (IF S = {} THEN {} ELSE {Wallet})

\* No column goes below zero, or the transaction rolls back.
CanCommit ==
    \A r \in Row :
        /\ HasLocked(r, tx.found)
        /\ unlockedBal[r] + ValueOf[Of(tx.found, r)] >= ValueOf[Of(tx.spends, r)]

Commit ==
    /\ tx # NoTx
    /\ CanCommit
    /\ locked' = locked \ tx.found
    /\ spent' = spent \cup tx.spends
    /\ unlockedBal' = [r \in Row |-> unlockedBal[r] + ValueOf[Of(tx.found, r)]
                                                    - ValueOf[Of(tx.spends, r)]]
    /\ lockedBal' = [r \in Row |-> lockedBal[r] - ValueOf[Of(tx.found, r)]]
    /\ LET expires(a) == IF a \in RowsOf(tx.found)
                         THEN Least({Timelock[o] : o \in Of(locked' \ spent, a)})
                         ELSE timelockExpires[a]
       IN  timelockExpires' =
               [r \in Row |->
                   IF r # Wallet THEN expires(r)
                   ELSE IF tx.found = {} THEN timelockExpires[Wallet]
                   ELSE Least({expires(a) : a \in Address} \ {Null})]
    /\ tx' = NoTx
    /\ UNCHANGED <<call, now, overlap>>

RollBack ==
    /\ tx # NoTx
    /\ ~CanCommit
    /\ tx' = NoTx
    /\ UNCHANGED <<locked, spent, rowVars, call, now, overlap>>

Tick ==
    /\ now < MaxTime
    /\ now' = now + 1
    /\ UNCHANGED <<locked, spent, rowVars, call, tx, overlap>>

Next ==
    \/ \E c \in Call :
          \/ AskBalances(c) \/ FindUtxos(c) \/ MarkUnlocked(c)
          \/ UpdateAmounts(c) \/ UpdateIsAnError(c) \/ UpdateTimelock(c)
          \/ ReadBalances(c)
    \/ BlockReads
    \/ \E o \in Output : SpendReads(o)
    \/ Commit
    \/ RollBack
    \/ Tick

Spec == Init /\ [][Next]_vars

-----------------------------------------------------------------------------
(* Properties *)

\* Whatever runs between two statements, and whatever fails half way, the two
\* columns of every row add up to the value of its unspent outputs: a racing
\* unlock may put an amount on the wrong side, never create or lose one.
TotalIsKept ==
    \A r \in Row : unlockedBal[r] + lockedBal[r] = ValueOf[Of(Unspent, r)]

\* Executions one after another: whenever nothing runs, the locked balance of
\* every row is the value of its outputs still flagged locked, and the row knows
\* the next timelock to end.
RowsMatchOutputs ==
    ~overlap /\ AtRest => \A r \in Row :
        /\ lockedBal[r] = ValueOf[Of(LockedUnspent, r)]
        /\ timelockExpires[r] = Least({Timelock[o] : o \in Of(LockedUnspent, r)})

Answers(c) == call[c].at # "answered" /\ call'[c].at = "answered"
Spendable(t) == {o \in Unspent : Timelock[o] <= t}
CountsSpendable(c) == call'[c].answer >= ValueOf[Spendable(call'[c].now)]
CountsNoTimelocked(c) == call'[c].answer <= ValueOf[Spendable(now)]

\* GET /balances: "if any timelock has expired, database tables will be
\* refreshed", so the answer counts every unspent output whose timelock had
\* ended when the call began - for executions one after another.
AnswerIsRefreshed ==
    [][~overlap => \A c \in Call : Answers(c) => CountsSpendable(c)]_vars

\* GET /balances takes the timelocks into account: an amount whose timelock
\* has not ended is never answered as unlocked - for executions one after another.
TimelocksAreCounted ==
    [][~overlap => \A c \in Call : Answers(c) => CountsNoTimelocked(c)]_vars

=============================================================================
