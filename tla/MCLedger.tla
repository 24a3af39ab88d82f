------------------------------ MODULE MCLedger ------------------------------
(***************************************************************************)
(* Instance for TLC: two branches of the chain (b1 then b2 or c2), a       *)
(* transaction spending a reward, one spending its change, one that        *)
(* conflicts with the first.                                               *)
(***************************************************************************)
EXTENDS Ledger, TLC

CONSTANTS b1, b2, c2, t1, t2, t3,
          r1, r2, q2, p1, p2, p3, p4,
          alice, bob, w1

TxOfOutput == r1 :> b1 @@ r2 :> b2 @@ q2 :> c2
              @@ p1 :> t1 @@ p2 :> t1 @@ p3 :> t2 @@ p4 :> t3
MCTxOf == [o \in Output |-> TxOfOutput[o]]
MCInputs == [t \in AllTx |-> CASE t \in {t1, t3} -> {r1}
                               [] t = t2 -> {p1}
                               [] OTHER -> {}]
MCAddressOf == [o \in Output |-> IF o \in {r1, q2, p2, p3} THEN alice ELSE bob]
AliceOnly == [a \in Address |-> IF a = alice THEN w1 ELSE NoWallet]
NoWallets == [a \in Address |-> NoWallet]
AliceAndBob == [a \in Address |-> w1]
AliceFirst == alice :> 1 @@ bob :> 2
BobFirst == bob :> 1 @@ alice :> 2
MCHeight == [b \in Block |-> IF b = b1 THEN 1 ELSE 2]
MCValue == r1 :> 5 @@ r2 :> 5 @@ q2 :> 5 @@ p1 :> 3 @@ p2 :> 2 @@ p3 :> 3 @@ p4 :> 5
MCValueOf == [S \in SUBSET Output |-> MapThenSumSet(LAMBDA o : MCValue[o], S)]
NoTimelocks == [o \in Output |-> 0]

\* Three blocks in a row, t2 spending the change of t1 and t3 that of t2 with a
\* timelock; another output of its address stays locked.
OneBranch == b1 :> 1 @@ b2 :> 2 @@ c2 :> 3
ChainOfSpends == [t \in AllTx |-> CASE t = t1 -> {r1}
                                  [] t = t2 -> {p2}
                                  [] t = t3 -> {p3}
                                  [] OTHER -> {}]
SmallChange == [MCValue EXCEPT ![p3] = 2, ![p4] = 2]
ChainValueOf == [S \in SUBSET Output |-> MapThenSumSet(LAMBDA o : SmallChange[o], S)]
LateTimelocks == [o \in Output |-> CASE o = p4 -> 1 [] o = p1 -> 3 [] OTHER -> 0]

SomeTimelocks == [o \in Output |-> IF o = p1 THEN 1 ELSE 0]

-----------------------------------------------------------------------------
(* What the repository says of the program and its code does not do *)

\* commons.ts: "balances must match" - the assertion of validateAddressBalances
\* never fails on the tables handleVoided has just written.
VoidPassesValidation ==
    [][\A t \in worklist : CronVoid(t) =>
          \A A \in {AffectedAddresses(VoidedBy({t}))} : ValidateAddressBalances(A)']_vars

\* db/index.ts: getExpiredTimelocksUtxos gets the "utxos that must be unlocked" -
\* the locked balances cover what the next block is going to unlock.
NextBlockCanUnlock ==
    \A b \in Block : Height[b] = LatestHeight + 1 =>
        \A a \in Address : lockedBal[a] >=
            ValueOf[At(UtxosLockedAtHeight(Height[b]) \cup ExpiredTimelocksUtxos, a)]

\* txProcessor.ts: "Balances were already re-calculated on the handleReorg
\* method" - also the balance of the wallet.
WalletIsSumOfAddresses ==
    \A w \in Wallet :
        wUnlocked[w] + wLocked[w] =
            AddressSum(unlockedBal, w) + AddressSum(lockedBal, w)

\* txProcessor.ts: a voided transaction that is valid again is cleaned up "so we
\* can safely add it again" - nothing it stored stands in the way.
VoidedTxCanReturn ==
    \A t \in Tx : history[t] = "voided" => t \notin tokenRow
=============================================================================
