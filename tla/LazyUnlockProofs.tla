-------------------------- MODULE LazyUnlockProofs --------------------------
(***************************************************************************)
(* No interleaving of balances calls and transactions, and no statement    *)
(* failing half way, creates or loses a part of a balance: for any number  *)
(* of calls, outputs and addresses, the two columns of each row add up to  *)
(* its unspent outputs.                                                    *)
(***************************************************************************)
EXTENDS LazyUnlock, FiniteSetTheorems, TLAPS

\* The columns are numbers, and what is read from tx_output are outputs.
AmountsTyped ==
    /\ unlockedBal \in [Row -> Nat]
    /\ lockedBal \in [Row -> Nat]

CallsTyped ==
    /\ DOMAIN call = Call
    /\ \A c \in Call : call[c].found \in SUBSET Output

TxTyped ==
    /\ tx.found \subseteq Output
    /\ tx.spends \subseteq Output

\* The one transaction under way spends outputs that nothing else can spend.
SpendsAreUnspent == tx.spends \cap spent = {}

LockInv ==
    /\ spent \subseteq Output
    /\ locked \subseteq Output
    /\ CallsTyped
    /\ AmountsTyped
    /\ TxTyped
    /\ SpendsAreUnspent
    /\ TotalIsKept

USE LockAssumption, SumAssumption

LEMMA ValueIsNat == ASSUME NEW S, NEW r, S \subseteq Output
                    PROVE  ValueOf[Of(S, r)] \in Nat
BY DEF Of

\* Moving found from locked to unlocked keeps the total of each row.
LEMMA MoveKeepsTotal ==
    ASSUME AmountsTyped, TotalIsKept, UNCHANGED spent,
           NEW r \in Row, NEW found, found \subseteq Output,
           HasLocked(r, found), MoveToUnlocked(r, found)
    PROVE  AmountsTyped' /\ TotalIsKept'
<1> DEFINE v == ValueOf[Of(found, r)]
<1>1. v \in Nat /\ lockedBal[r] >= v
    BY ValueIsNat DEF HasLocked
<1>2. /\ unlockedBal' = [unlockedBal EXCEPT ![r] = @ + v]
      /\ lockedBal' = [lockedBal EXCEPT ![r] = @ - v]
    BY DEF MoveToUnlocked
<1> HIDE DEF v
<1>3. AmountsTyped'
    BY <1>1, <1>2 DEF AmountsTyped
<1>4. ASSUME NEW s \in Row
      PROVE  unlockedBal'[s] + lockedBal'[s] = unlockedBal[s] + lockedBal[s]
    BY <1>1, <1>2, <1>4 DEF AmountsTyped
<1>5. ASSUME NEW s \in Row PROVE ValueOf[Of(Unspent, s)]' = ValueOf[Of(Unspent, s)]
    BY DEF Unspent, Of
<1> QED
    BY <1>3, <1>4, <1>5 DEF TotalIsKept

LEMMA Subtract ==
    ASSUME NEW u \in Nat, NEW l \in Nat, NEW x, NEW y,
           NEW total \in Nat, NEW rest \in Nat, NEW w \in Nat,
           total = rest + w, u + l = total, x + y = u + l - w
    PROVE  x + y = rest
OBVIOUS

\* A commit takes what it spends from the total of each row.
LEMMA CommitKeepsTotal ==
    ASSUME LockInv, Commit PROVE AmountsTyped' /\ TotalIsKept'
<1> DEFINE v(r) == ValueOf[Of(tx.found, r)]
           w(r) == ValueOf[Of(tx.spends, r)]
<1>1. ASSUME NEW r \in Row PROVE v(r) \in Nat /\ w(r) \in Nat
    BY ValueIsNat DEF LockInv, TxTyped
<1>2. ASSUME NEW r \in Row
      PROVE  lockedBal[r] >= v(r) /\ unlockedBal[r] + v(r) >= w(r)
    BY DEF Commit, CanCommit, HasLocked
<1>3. /\ unlockedBal' = [r \in Row |-> unlockedBal[r] + v(r) - w(r)]
      /\ lockedBal' = [r \in Row |-> lockedBal[r] - v(r)]
      /\ spent' = spent \cup tx.spends
    BY DEF Commit
<1>4. ASSUME NEW r \in Row
      PROVE  ValueOf[Of(Unspent, r)] = ValueOf[Of(Unspent, r)]' + w(r)
  <2> DEFINE A == Of(Unspent, r)'
             B == Of(tx.spends, r)
  <2>1. A \in SUBSET Output /\ B \in SUBSET Output /\ A \cap B = {}
      BY <1>3 DEF LockInv, TxTyped, Of, Unspent
  <2>2. Of(Unspent, r) = A \cup B
      BY <1>3 DEF LockInv, TxTyped, SpendsAreUnspent, Of, Unspent
  <2> QED
      BY <2>1, <2>2
<1>5. ASSUME NEW r \in Row PROVE ValueOf[Of(Unspent, r)]' \in Nat
    BY DEF Of, Unspent
<1> HIDE DEF v, w
<1>6. AmountsTyped'
    BY <1>1, <1>2, <1>3 DEF LockInv, AmountsTyped
<1>7. ASSUME NEW r \in Row
      PROVE  unlockedBal'[r] + lockedBal'[r] = unlockedBal[r] + lockedBal[r] - w(r)
    BY <1>1, <1>3, <1>7 DEF LockInv, AmountsTyped
<1>8. ASSUME NEW r \in Row
      PROVE  unlockedBal[r] + lockedBal[r] = ValueOf[Of(Unspent, r)]
    BY DEF LockInv, TotalIsKept
<1>9. ASSUME NEW r \in Row
      PROVE  (unlockedBal[r] + lockedBal[r] = ValueOf[Of(Unspent, r)])'
  <2>1. /\ ValueOf[Of(Unspent, r)] \in Nat
        /\ unlockedBal[r] \in Nat /\ lockedBal[r] \in Nat
      BY ValueIsNat DEF Unspent, LockInv, AmountsTyped
  <2>2. unlockedBal'[r] + lockedBal'[r] = ValueOf[Of(Unspent, r)]'
      BY <1>1, <1>4, <1>5, <1>7, <1>8, <2>1, Subtract
  <2> QED
      BY <2>2
<1> QED
    BY <1>6, <1>9 DEF TotalIsKept

\* The tables a read leaves alone keep their totals.
LEMMA ReadsKeepTotal ==
    ASSUME AmountsTyped, TotalIsKept, UNCHANGED <<spent, unlockedBal, lockedBal>>
    PROVE  AmountsTyped' /\ TotalIsKept'
BY DEF AmountsTyped, TotalIsKept, Unspent, Of

LEMMA InitLockInv == Init => LockInv
<1> SUFFICES ASSUME Init PROVE LockInv
    OBVIOUS
<1>1. ASSUME NEW r \in Row PROVE ValueOf[Of(Output, r)] \in Nat
    BY ValueIsNat
<1>2. AmountsTyped
    BY <1>1 DEF Init, AmountsTyped
<1>3. Unspent = Output
    BY DEF Init, Unspent
<1>4. TotalIsKept
    BY <1>1, <1>3 DEF Init, TotalIsKept
<1>5. CallsTyped
    BY DEF Init, IdleCall, CallsTyped
<1>6. TxTyped /\ SpendsAreUnspent
    BY DEF Init, NoTx, TxTyped, SpendsAreUnspent
<1> QED
    BY <1>2, <1>4, <1>5, <1>6 DEF Init, LockInv

LEMMA NextKeepsLockInv == LockInv /\ [Next]_vars => LockInv'
<1> SUFFICES ASSUME LockInv, [Next]_vars PROVE LockInv'
    OBVIOUS
<1> USE DEF LockInv
<1>1. ASSUME NEW c \in Call, AskBalances(c) PROVE LockInv'
  <2>1. CallsTyped'
      BY <1>1 DEF AskBalances, CallsTyped
  <2> QED
      BY <1>1, <2>1, ReadsKeepTotal DEF AskBalances, rowVars, TxTyped, SpendsAreUnspent
<1>2. ASSUME NEW c \in Call, FindUtxos(c) PROVE LockInv'
  <2>1. CallsTyped'
      BY <1>2 DEF FindUtxos, CallsTyped, WalletUnlockedUtxos, LockedUnspent
  <2> QED
      BY <1>2, <2>1, ReadsKeepTotal DEF FindUtxos, rowVars, TxTyped, SpendsAreUnspent
<1>3. ASSUME NEW c \in Call, MarkUnlocked(c) PROVE LockInv'
  <2>1. CallsTyped'
      BY <1>3 DEF MarkUnlocked, CallsTyped
  <2> QED
      BY <1>3, <2>1, ReadsKeepTotal DEF MarkUnlocked, rowVars, TxTyped, SpendsAreUnspent
<1>4. ASSUME NEW c \in Call, UpdateAmounts(c) PROVE LockInv'
  <2>1. CallsTyped'
      BY <1>4 DEF UpdateAmounts, CallsTyped
  <2>2. AmountsTyped' /\ TotalIsKept'
    <3> DEFINE r == Head(call[c].todo)[2]
    <3>1. CASE r \in Row
        BY <1>4, <3>1, MoveKeepsTotal DEF UpdateAmounts, CallsTyped
    <3>2. CASE r \notin Row
        BY <1>4, <3>2, ReadsKeepTotal DEF UpdateAmounts, MoveToUnlocked, AmountsTyped
    <3> QED
        BY <3>1, <3>2
  <2> QED
      BY <1>4, <2>1, <2>2 DEF UpdateAmounts, TxTyped, SpendsAreUnspent
<1>5. ASSUME NEW c \in Call, UpdateIsAnError(c) PROVE LockInv'
  <2>1. CallsTyped'
      BY <1>5 DEF UpdateIsAnError, CallsTyped, IdleCall
  <2> QED
      BY <1>5, <2>1, ReadsKeepTotal DEF UpdateIsAnError, rowVars, TxTyped, SpendsAreUnspent
<1>6. ASSUME NEW c \in Call, UpdateTimelock(c) PROVE LockInv'
  <2>1. CallsTyped'
      BY <1>6 DEF UpdateTimelock, CallsTyped
  <2> QED
      BY <1>6, <2>1, ReadsKeepTotal DEF UpdateTimelock, TxTyped, SpendsAreUnspent
<1>7. ASSUME NEW c \in Call, ReadBalances(c) PROVE LockInv'
  <2>1. CallsTyped'
      BY <1>7 DEF ReadBalances, CallsTyped
  <2> QED
      BY <1>7, <2>1, ReadsKeepTotal DEF ReadBalances, rowVars, TxTyped, SpendsAreUnspent
<1>8. ASSUME BlockReads PROVE LockInv'
    BY <1>8, ReadsKeepTotal DEF BlockReads, rowVars, TxTyped, SpendsAreUnspent, CallsTyped
<1>9. ASSUME NEW o \in Output, SpendReads(o) PROVE LockInv'
    BY <1>9, ReadsKeepTotal DEF SpendReads, rowVars, TxTyped, SpendsAreUnspent, CallsTyped,
                                LockedUnspent, Unspent
<1>10. ASSUME Commit PROVE LockInv'
    BY <1>10, CommitKeepsTotal DEF Commit, NoTx, TxTyped, SpendsAreUnspent, CallsTyped
<1>11. ASSUME RollBack PROVE LockInv'
    BY <1>11, ReadsKeepTotal DEF RollBack, rowVars, NoTx, TxTyped, SpendsAreUnspent, CallsTyped
<1>12. ASSUME Tick PROVE LockInv'
    BY <1>12, ReadsKeepTotal DEF Tick, rowVars, TxTyped, SpendsAreUnspent, CallsTyped
<1>13. ASSUME UNCHANGED vars PROVE LockInv'
    BY <1>13, ReadsKeepTotal DEF vars, rowVars, TxTyped, SpendsAreUnspent, CallsTyped
<1> QED
    BY <1>1, <1>2, <1>3, <1>4, <1>5, <1>6, <1>7, <1>8, <1>9, <1>10, <1>11, <1>12, <1>13
       DEF Next

\* For every number of concurrent balances calls, whatever they interleave
\* with and wherever they fail, no amount is created or lost: unlocked and
\* locked balance of each row add up to its unspent outputs.
THEOREM NoAmountIsLost == Spec => []TotalIsKept
<1>1. LockInv => TotalIsKept
    BY DEF LockInv
<1> QED
    BY <1>1, InitLockInv, NextKeepsLockInv, PTL DEF Spec
-----------------------------------------------------------------------------
(* Executions one after another *)

\* What ends is over: nothing is unlocked before its timelock.
TimelocksPassed ==
    /\ \A o \in Output \ locked : Timelock[o] <= now
    /\ \A o \in tx.found : Timelock[o] <= now
    /\ \A c \in Call : /\ call[c].now <= now
                       /\ \A o \in call[c].found : Timelock[o] <= now

Active(c) == call[c].at \in {"find", "mark", "update"}

OneAtATime ==
    /\ \A c, d \in Call : Active(c) /\ Active(d) => c = d
    /\ tx # NoTx => \A c \in Call : ~Active(c)

\* A transaction unlocks what is locked, and all of that which it spends.
TxUnlocks ==
    /\ locked \cap spent = {}
    /\ tx.found \subseteq LockedUnspent
    /\ tx.spends \cap locked \subseteq tx.found

\* The locked balance of a row is that of its outputs still locked, and of those
\* in pending, which are unlocked and not yet subtracted.
LockedIs(r, pending) == lockedBal[r] = ValueOf[Of(LockedUnspent \cup pending, r)]
ExpiresIs(r) == timelockExpires[r] = Least({Timelock[o] : o \in Of(LockedUnspent, r)})

RowsMatch == \A r \in Row : LockedIs(r, {}) /\ ExpiresIs(r)

Pending(c) == {call[c].todo[i] : i \in 1 .. Len(call[c].todo)}

\* The statements left are the rows left: each once, the wallet's expiry last.
OnPlan(c) ==
    /\ call[c].found \cap locked = {}
    /\ \A o \in LockedUnspent : Timelock[o] > call[c].now
    /\ \A i, j \in 1 .. Len(call[c].todo) : call[c].todo[i] = call[c].todo[j] => i = j
    /\ call[c].todo # <<>> => call[c].todo[Len(call[c].todo)] = <<"expires", Wallet>>
    /\ \A r \in Row :
          /\ LockedIs(r, IF <<"amounts", r>> \in Pending(c) THEN call[c].found ELSE {})
          /\ <<"expires", r>> \notin Pending(c) => ExpiresIs(r)

\* Where an execution is, and what it has still to do.
InStep(c) ==
    /\ call[c].at # "update" => call[c].todo = <<>>
    /\ call[c].at = "mark" => call[c].found = WalletUnlockedUtxos(call[c].now)
    /\ call[c].at = "update" => OnPlan(c)

Serial ==
    /\ OneAtATime
    /\ TxUnlocks
    /\ \A c \in Call : InStep(c)
    /\ (\A c \in Call : call[c].at # "update") => RowsMatch

SerialInv == TimelocksPassed /\ (~overlap => Serial)

-----------------------------------------------------------------------------
(* Sums and minima *)

LEMMA ValueOfPart ==
    ASSUME NEW S, NEW T, S \subseteq T, T \subseteq Output
    PROVE  /\ ValueOf[S] \in Nat /\ ValueOf[T] \in Nat
           /\ ValueOf[T \ S] = ValueOf[T] - ValueOf[S]
           /\ ValueOf[S] <= ValueOf[T]
<1>1. S \in SUBSET Output /\ (T \ S) \in SUBSET Output /\ S \cap (T \ S) = {} /\ S \cup (T \ S) = T
    OBVIOUS
<1>2. ValueOf[T] = ValueOf[S] + ValueOf[T \ S]
    BY <1>1, SumAssumption
<1>3. ValueOf[S] \in Nat /\ ValueOf[T] \in Nat /\ ValueOf[T \ S] \in Nat
    BY <1>1, SumAssumption
<1> QED
    BY <1>2, <1>3

LEMMA NatHasLeast ==
    ASSUME NEW T \in SUBSET Nat, T # {}
    PROVE  \E m \in T : \A n \in T : m <= n
<1> DEFINE R == {ss \in Nat \X Nat : ss[1] < ss[2]}
<1>1. IsWellFoundedOn(R, Nat)
    BY NatLessThanWellFounded DEF OpToRel
<1>2. \A m, n \in T : <<n, m>> \in R <=> n < m
    OBVIOUS
<1> HIDE DEF R
<1>3. \E m \in T : \A n \in T : ~(<<n, m>> \in R)
    BY <1>1, WFMin, Zenon
<1>4. PICK m \in T : \A n \in T : ~(<<n, m>> \in R)
    BY <1>3
<1>5. ASSUME NEW n \in T PROVE m <= n
  <2>1. ~(n < m)
      BY <1>2, <1>4
  <2> QED
      BY <2>1
<1> QED
    BY <1>5

\* The earliest of the timelocks of a set of outputs.
LEMMA LeastTimelock ==
    ASSUME NEW S, S \subseteq Output
    PROVE  LET t == Least({Timelock[o] : o \in S})
           IN  /\ t \in Nat
               /\ t = Null <=> S = {}
               /\ S # {} => \E o \in S : t = Timelock[o]
               /\ \A o \in S : t <= Timelock[o]
<1> DEFINE M == {Timelock[o] : o \in S}
<1>1. M \in SUBSET Nat /\ \A m \in M : m # 0
    BY LockAssumption
<1>2. M = {} <=> S = {}
    OBVIOUS
<1>3. CASE S = {}
    BY <1>2, <1>3 DEF Least, Null
<1>4. ASSUME S # {} PROVE Least(M) \in M /\ \A m \in M : Least(M) <= m
  <2>1. Min(M) \in M /\ \A m \in M : Min(M) <= m
    <3> HIDE DEF M
    <3> QED
        BY <1>1, <1>2, <1>4, NatHasLeast DEF Min
  <2>2. Least(M) = Min(M)
      BY <1>2, <1>4 DEF Least
  <2> QED
      BY <2>1, <2>2
<1>5. CASE S # {}
  <2>1. PICK o \in S : Least(M) = Timelock[o]
      BY <1>4, <1>5
  <2>2. Least(M) \in Nat /\ Least(M) # 0
      BY <1>1, <1>4, <1>5
  <2>3. \A q \in S : Least(M) <= Timelock[q]
      BY <1>4, <1>5
  <2> HIDE DEF M
  <2> QED
      BY <1>5, <2>1, <2>2, <2>3 DEF Null, M
<1> QED
    BY <1>3, <1>5

FirstTimelock(L, r) == Least({Timelock[o] : o \in Of(L, r)})
FirstExpiry(f) == Least({f[a] : a \in Address} \ {Null})

\* The earliest expiry of the addresses is the earliest timelock of the wallet.
LEMMA WalletExpiry ==
    ASSUME NEW L, L \subseteq Output, NEW f, \A a \in Address : f[a] = FirstTimelock(L, a)
    PROVE  FirstExpiry(f) = FirstTimelock(L, Wallet)
<1> USE DEF FirstTimelock, FirstExpiry
<1> DEFINE M == {f[a] : a \in Address} \ {Null}
           least == Least({Timelock[o] : o \in L})
<1>1. Of(L, Wallet) = L
    BY DEF Of
<1>2. ASSUME NEW a \in Address
      PROVE  /\ f[a] \in Nat
             /\ f[a] # Null => \E o \in L : f[a] = Timelock[o]
             /\ \A o \in L : AddressOf[o] = a => f[a] <= Timelock[o] /\ f[a] # Null
  <2> DEFINE S == Of(L, a)
  <2>1. S \subseteq Output /\ S \subseteq L /\ \A o \in L : AddressOf[o] = a => o \in S
      BY DEF Of
  <2>2. f[a] = Least({Timelock[o] : o \in S})
      OBVIOUS
  <2> HIDE DEF S
  <2> QED
      BY <2>1, <2>2, LeastTimelock
<1>3. /\ least \in Nat /\ (least = Null <=> L = {})
      /\ L # {} => \E o \in L : least = Timelock[o]
      /\ \A o \in L : least <= Timelock[o]
    BY LeastTimelock
<1>4. CASE L = {}
  <2>1. M = {}
      BY <1>2, <1>4
  <2> QED
      BY <1>1, <1>3, <1>4, <2>1 DEF Least
<1>5. CASE L # {}
  <2>1. PICK o \in L : least = Timelock[o]
      BY <1>3, <1>5
  <2>2. AddressOf[o] \in Address /\ f[AddressOf[o]] <= least /\ f[AddressOf[o]] # Null
      BY <1>2, <2>1 DEF Address
  <2>3. \A m \in M : m \in Nat /\ least <= m
    <3> SUFFICES ASSUME NEW a \in Address, f[a] # Null PROVE f[a] \in Nat /\ least <= f[a]
        OBVIOUS
    <3> QED
        BY <1>2, <1>3
  <2>4. least \in M
    <3>1. f[AddressOf[o]] \in M
        BY <2>2
    <3>2. f[AddressOf[o]] = least
      <4>1. least <= f[AddressOf[o]]
          BY <2>3, <3>1
      <4> QED
          BY <1>2, <1>3, <2>2, <4>1
    <3> QED
        BY <3>1, <3>2
  <2> HIDE DEF M, least
  <2>5. Min(M) = least
      BY <2>3, <2>4 DEF Min
  <2>6. Least(M) = least
      BY <2>4, <2>5 DEF Least
  <2> QED
      BY <1>1, <2>6 DEF M, least
<1> QED
    BY <1>4, <1>5

-----------------------------------------------------------------------------
(* The plans of unlockUtxos *)

\* The two statements of each of n + 1 rows, each once, the last row's last.
IsPlanFor(plan, R, rows, n) ==
    /\ plan \in Seq({"amounts", "expires"} \X R)
    /\ Len(plan) = 2 * (n + 1)
    /\ \A i, j \in 1 .. Len(plan) : plan[i] = plan[j] => i = j
    /\ plan[Len(plan)] = <<"expires", rows[n + 1]>>
    /\ \A k \in 1 .. n + 1 : /\ \E i \in 1 .. Len(plan) : plan[i] = <<"amounts", rows[k]>>
                             /\ \E i \in 1 .. Len(plan) : plan[i] = <<"expires", rows[k]>>

LEMMA StatementsFacts ==
    ASSUME NEW R, NEW n \in Nat, NEW rows \in Seq(R), Len(rows) = n + 1,
           \A i, j \in 1 .. n + 1 : rows[i] = rows[j] => i = j,
           NEW plan, plan = Statements(rows)
    PROVE  IsPlanFor(plan, R, rows, n)
<1> DEFINE m == 2 * (n + 1)
<1>1. plan = [i \in 1 .. m |-> <<IF i % 2 = 1 THEN "amounts" ELSE "expires", rows[(i + 1) \div 2]>>]
    BY DEF Statements
<1>2. ASSUME NEW i \in 1 .. m
      PROVE  /\ (i + 1) \div 2 \in 1 .. n + 1
             /\ i % 2 = 1 => i = 2 * ((i + 1) \div 2) - 1
             /\ i % 2 # 1 => i = 2 * ((i + 1) \div 2)
    OBVIOUS
<1>3. ASSUME NEW k \in 1 .. n + 1
      PROVE  /\ 2 * k - 1 \in 1 .. m /\ (2 * k - 1) % 2 = 1 /\ ((2 * k - 1) + 1) \div 2 = k
             /\ 2 * k \in 1 .. m /\ (2 * k) % 2 # 1 /\ (2 * k + 1) \div 2 = k
    OBVIOUS
<1>4. \A k \in 1 .. n + 1 : rows[k] \in R
    OBVIOUS
<1>5. ASSUME NEW i \in 1 .. m
      PROVE  /\ plan[i] = <<IF i % 2 = 1 THEN "amounts" ELSE "expires", rows[(i + 1) \div 2]>>
             /\ plan[i] \in {"amounts", "expires"} \X R
    BY <1>1, <1>2, <1>4
<1>6. plan \in Seq({"amounts", "expires"} \X R) /\ Len(plan) = m
  <2>1. plan \in [1 .. m -> {"amounts", "expires"} \X R] /\ m \in Nat
      BY <1>1, <1>5
  <2> HIDE DEF m
  <2> QED
      BY <2>1
<1>7. ASSUME NEW k \in 1 .. n + 1
      PROVE  plan[2 * k - 1] = <<"amounts", rows[k]>> /\ plan[2 * k] = <<"expires", rows[k]>>
    BY <1>3, <1>5
<1>8. ASSUME NEW i \in 1 .. m, NEW j \in 1 .. m, plan[i] = plan[j] PROVE i = j
  <2>1. i % 2 = 1 <=> j % 2 = 1
      BY <1>5, <1>8
  <2>2. rows[(i + 1) \div 2] = rows[(j + 1) \div 2]
      BY <1>5, <1>8
  <2>3. (i + 1) \div 2 = (j + 1) \div 2
      BY <1>2, <2>2
  <2> QED
      BY <1>2, <2>1, <2>3
<1>9. plan[m] = <<"expires", rows[n + 1]>>
  <2>1. n + 1 \in 1 .. n + 1
      OBVIOUS
  <2> QED
      BY <1>7, <2>1
<1>10. \A k \in 1 .. n + 1 : /\ \E i \in 1 .. m : plan[i] = <<"amounts", rows[k]>>
                             /\ \E i \in 1 .. m : plan[i] = <<"expires", rows[k]>>
    BY <1>3, <1>7
<1>11. Len(plan) = 2 * (n + 1)
    BY <1>6
<1> HIDE DEF m
<1> QED
    BY <1>5, <1>6, <1>8, <1>9, <1>10, <1>11 DEF IsPlanFor

\* A plan has the two statements of each row that has a part of found, each once,
\* and ends with the expiry of the wallet.
IsPlanOf(plan, found) ==
    /\ plan \in Seq({"amounts", "expires"} \X Row)
    /\ plan # <<>>
    /\ \A i, j \in 1 .. Len(plan) : plan[i] = plan[j] => i = j
    /\ plan[Len(plan)] = <<"expires", Wallet>>
    /\ \A r \in Row :
          r = Wallet \/ (\E o \in found : AddressOf[o] = r) =>
              /\ \E i \in 1 .. Len(plan) : plan[i] = <<"amounts", r>>
              /\ \E i \in 1 .. Len(plan) : plan[i] = <<"expires", r>>

LEMMA PlanFacts ==
    ASSUME NEW found, found \subseteq Output, NEW plan \in Plans(found)
    PROVE  IsPlanOf(plan, found)
<1> DEFINE touched == {AddressOf[o] : o \in found}
           n == Cardinality(touched)
<1>1. n \in Nat
  <2> DEFINE f == [o \in found |-> AddressOf[o]]
  <2>1. f \in Surjection(found, touched)
      BY DEF Surjection
  <2>2. IsFiniteSet(found)
      BY LockAssumption, FS_Subset
  <2>3. IsFiniteSet(touched)
      BY <2>1, <2>2, FS_Surjection
  <2> QED
      BY <2>3, FS_CardinalityType
<1>2. touched \subseteq Address /\ Wallet \notin touched
    BY LockAssumption DEF Address
<1>3. PICK p \in Bijection(1 .. n, touched) : plan = Statements(Append(p, Wallet))
    BY DEF Plans
<1> HIDE DEF n, touched
<1>4. /\ p \in [1 .. n -> touched]
      /\ \A i, j \in 1 .. n : p[i] = p[j] => i = j
      /\ \A a \in touched : \E i \in 1 .. n : p[i] = a
    BY DEF Bijection, Injection, Surjection, IsInjective
<1> DEFINE rows == Append(p, Wallet)
<1>5. /\ rows \in Seq(Row) /\ Len(rows) = n + 1
      /\ \A i \in 1 .. n : rows[i] = p[i]
      /\ rows[n + 1] = Wallet
  <2>1. p \in Seq(Row) /\ Len(p) = n
      BY <1>1, <1>2, <1>4 DEF Row
  <2> QED
      BY <1>1, <2>1 DEF Row
<1> HIDE DEF rows
<1>6. ASSUME NEW i \in 1 .. n + 1, NEW j \in 1 .. n + 1, rows[i] = rows[j] PROVE i = j
  <2>1. CASE i \in 1 .. n /\ j \in 1 .. n
      BY <1>4, <1>5, <1>6, <2>1
  <2>2. CASE i \in 1 .. n /\ j = n + 1
      BY <1>2, <1>4, <1>5, <1>6, <2>2
  <2>3. CASE i = n + 1 /\ j \in 1 .. n
      BY <1>2, <1>4, <1>5, <1>6, <2>3
  <2> QED
      BY <1>1, <2>1, <2>2, <2>3
<1>7. plan = Statements(rows)
    BY <1>3 DEF rows
<1>8. /\ plan \in Seq({"amounts", "expires"} \X Row)
      /\ Len(plan) = 2 * (n + 1)
      /\ \A i, j \in 1 .. Len(plan) : plan[i] = plan[j] => i = j
      /\ plan[Len(plan)] = <<"expires", rows[n + 1]>>
        /\ \A k \in 1 .. n + 1 : /\ \E i \in 1 .. Len(plan) : plan[i] = <<"amounts", rows[k]>>
                               /\ \E i \in 1 .. Len(plan) : plan[i] = <<"expires", rows[k]>>
  <2>1. /\ n \in Nat /\ rows \in Seq(Row) /\ Len(rows) = n + 1 /\ plan = Statements(rows)
        /\ \A i, j \in 1 .. n + 1 : rows[i] = rows[j] => i = j
      BY <1>1, <1>5, <1>6, <1>7
  <2>2. IsPlanFor(plan, Row, rows, n)
      BY <2>1, StatementsFacts
  <2> QED
      BY <2>2 DEF IsPlanFor
<1>9. plan # <<>>
    BY <1>1, <1>8
<1>10. ASSUME NEW r \in Row, r = Wallet \/ (\E o \in found : AddressOf[o] = r)
       PROVE  \E k \in 1 .. n + 1 : rows[k] = r
  <2>1. CASE r = Wallet
      BY <1>1, <1>5, <2>1
  <2>2. CASE r # Wallet
    <3>1. r \in touched
        BY <1>10, <2>2 DEF touched
    <3>2. PICK i \in 1 .. n : p[i] = r
        BY <1>4, <3>1
    <3> QED
        BY <1>1, <1>5, <3>2
  <2> QED
      BY <2>1, <2>2
<1>11. ASSUME NEW r \in Row, r = Wallet \/ (\E o \in found : AddressOf[o] = r)
       PROVE  /\ \E i \in 1 .. Len(plan) : plan[i] = <<"amounts", r>>
              /\ \E i \in 1 .. Len(plan) : plan[i] = <<"expires", r>>
  <2>1. PICK k \in 1 .. n + 1 : rows[k] = r
      BY <1>10, <1>11
  <2> QED
      BY <1>8, <2>1
<1> QED
    BY <1>5, <1>8, <1>9, <1>11 DEF IsPlanOf

-----------------------------------------------------------------------------
(* Types *)

LEMMA LeastType ==
    ASSUME NEW S, S \subseteq Nat
    PROVE  Least(S) \in Nat
<1>1. CASE S = {}
    BY <1>1 DEF Least, Null
<1>2. CASE S # {}
    BY <1>2, NatHasLeast DEF Least, Min
<1> QED
    BY <1>1, <1>2

CallType == [at : {"idle", "find", "mark", "update", "answered", "failed"},
             now : 0 .. MaxTime,
             found : SUBSET Output,
             todo : Seq({"amounts", "expires"} \X Row),
             answer : Nat]

LEMMA InitTypes == Init => TypeOK
<1> SUFFICES ASSUME Init PROVE TypeOK
    OBVIOUS
<1>1. ASSUME NEW r \in Row
      PROVE  Least({Timelock[o] : o \in Of(Output, r)}) \in Nat /\ ValueOf[Of(Output, r)] \in Nat
    BY LeastTimelock, ValueIsNat DEF Of
<1>2. IdleCall \in CallType
  <2>1. <<>> \in Seq({"amounts", "expires"} \X Row)
      OBVIOUS
  <2> HIDE LockAssumption, SumAssumption
  <2> QED
      BY <2>1, LockAssumption DEF IdleCall, CallType
<1>3. call \in [Call -> CallType]
    BY <1>2 DEF Init
<1>4. NoTx \in [kind : {"none", "block", "spend"}, found : SUBSET Output, spends : SUBSET Output]
    BY DEF NoTx
<1>5. now \in 0 .. MaxTime
    BY DEF Init
<1> QED
    BY <1>1, <1>3, <1>4, <1>5 DEF Init, TypeOK, CallType

\* One execution takes a step, the others wait.
LEMMA OneCallSteps ==
    ASSUME call \in [Call -> CallType], NEW c \in Call,
           DOMAIN call' = Call, call' = [d \in Call |-> call'[d]],
           call'[c] \in CallType, \A d \in Call \ {c} : call'[d] = call[d]
    PROVE  call' \in [Call -> CallType]
OBVIOUS

LEMMA NextTypesCall ==
    ASSUME LockInv, TypeOK, [Next]_vars PROVE call' \in [Call -> CallType]
<1>0. /\ call \in [Call -> CallType]
      /\ now \in 0 .. MaxTime /\ 0 \in Nat /\ unlockedBal[Wallet] \in Nat
    BY DEF TypeOK, Row, CallType
<1> HIDE LockAssumption, SumAssumption
<1>1. ASSUME NEW c \in Call, AskBalances(c) PROVE call' \in [Call -> CallType]
  <2> DEFINE x == IF Expired(Wallet) THEN "find" ELSE "answered"
             z == IF Expired(Wallet) THEN 0 ELSE unlockedBal[Wallet]
  <2>1. call' = [call EXCEPT ![c].at = x, ![c].now = now, ![c].answer = z]
      BY <1>1 DEF AskBalances
  <2>2. x \in {"find", "answered"} /\ z \in Nat
      BY <1>0
  <2> HIDE DEF x, z
  <2>3. call'[c] = [at |-> x, now |-> now, found |-> call[c].found, todo |-> call[c].todo, answer |-> z]
      BY <1>0, <2>1 DEF CallType
  <2>4. call'[c] \in CallType
      BY <1>0, <2>2, <2>3 DEF CallType
  <2> QED
      BY <1>0, <2>1, <2>4, OneCallSteps
<1>2. ASSUME NEW c \in Call, FindUtxos(c) PROVE call' \in [Call -> CallType]
  <2> DEFINE found == WalletUnlockedUtxos(call[c].now)
             x == IF found = {} THEN "update" ELSE "mark"
  <2>1. call' = [call EXCEPT ![c].found = found, ![c].at = x]
      BY <1>2 DEF FindUtxos
  <2>2. x \in {"update", "mark"} /\ found \in SUBSET Output
      BY DEF WalletUnlockedUtxos, LockedUnspent, TypeOK
  <2> HIDE DEF x, found
  <2>3. call'[c] = [at |-> x, now |-> call[c].now, found |-> found, todo |-> call[c].todo,
                    answer |-> call[c].answer]
      BY <1>0, <2>1 DEF CallType
  <2>4. call'[c] \in CallType
      BY <1>0, <2>2, <2>3 DEF CallType
  <2> QED
      BY <1>0, <2>1, <2>4, OneCallSteps
<1>3. ASSUME NEW c \in Call, NEW x \in {"update"}, NEW todo \in Seq({"amounts", "expires"} \X Row),
             call' = [call EXCEPT ![c].at = x, ![c].todo = todo]
      PROVE  call' \in [Call -> CallType]
  <2>1. call'[c] = [at |-> x, now |-> call[c].now, found |-> call[c].found, todo |-> todo,
                    answer |-> call[c].answer]
      BY <1>0, <1>3 DEF CallType
  <2>2. call'[c] \in CallType
      BY <1>0, <2>1 DEF CallType
  <2> QED
      BY <1>0, <1>3, <2>2, OneCallSteps
<1>4. ASSUME NEW c \in Call, MarkUnlocked(c) PROVE call' \in [Call -> CallType]
  <2>1. PICK plan \in Plans(call[c].found) : call' = [call EXCEPT ![c].at = "update", ![c].todo = plan]
      BY <1>4 DEF MarkUnlocked
  <2>2. call[c].found \subseteq Output
      BY <1>0 DEF CallType
  <2>3. plan \in Seq({"amounts", "expires"} \X Row)
      BY <2>2, PlanFacts, LockAssumption, SumAssumption DEF IsPlanOf
  <2> QED
      BY <1>3, <2>1, <2>3
<1>5. ASSUME NEW c \in Call, UpdateAmounts(c) \/ UpdateTimelock(c) PROVE call' \in [Call -> CallType]
  <2>1. call[c].todo \in Seq({"amounts", "expires"} \X Row) /\ call[c].todo # <<>> /\ call[c].at = "update"
      BY <1>0, <1>5 DEF UpdateAmounts, UpdateTimelock, CallType
  <2> DEFINE todo == Tail(call[c].todo)
  <2>2. todo \in Seq({"amounts", "expires"} \X Row)
      BY <2>1
  <2>3. call' = [call EXCEPT ![c].todo = todo]
      BY <1>5 DEF UpdateAmounts, UpdateTimelock
  <2> HIDE DEF todo
  <2>4. call'[c] = [at |-> call[c].at, now |-> call[c].now, found |-> call[c].found, todo |-> todo,
                    answer |-> call[c].answer]
      BY <1>0, <2>3 DEF CallType
  <2>5. call'[c] \in CallType
      BY <1>0, <2>2, <2>4 DEF CallType
  <2> QED
      BY <1>0, <2>3, <2>5, OneCallSteps
<1>6. ASSUME NEW c \in Call, UpdateIsAnError(c) PROVE call' \in [Call -> CallType]
  <2>1. <<>> \in Seq({"amounts", "expires"} \X Row) /\ 0 \in 0 .. MaxTime
      BY LockAssumption
  <2>2. [IdleCall EXCEPT !.at = "failed"] \in CallType
      BY <2>1 DEF IdleCall, CallType
  <2> QED
      BY <1>0, <1>6, <2>2 DEF UpdateIsAnError
<1>7. ASSUME NEW c \in Call, ReadBalances(c) PROVE call' \in [Call -> CallType]
  <2>1. call' = [call EXCEPT ![c].at = "answered", ![c].found = {}, ![c].answer = unlockedBal[Wallet]]
      BY <1>7 DEF ReadBalances
  <2>2. call'[c] = [at |-> "answered", now |-> call[c].now, found |-> {}, todo |-> call[c].todo,
                    answer |-> unlockedBal[Wallet]]
      BY <1>0, <2>1 DEF CallType
  <2>3. call'[c] \in CallType
      BY <1>0, <2>2 DEF CallType
  <2> QED
      BY <1>0, <2>1, <2>3, OneCallSteps
<1>8. CASE UNCHANGED call
    BY <1>0, <1>8
<1> QED
    BY <1>1, <1>2, <1>4, <1>5, <1>6, <1>7, <1>8 DEF Next, BlockReads, SpendReads, Commit,
       RollBack, Tick, vars

LEMMA NextTypes == LockInv /\ TypeOK /\ [Next]_vars => TypeOK'
<1> SUFFICES ASSUME LockInv, TypeOK, [Next]_vars PROVE TypeOK'
    OBVIOUS
<1>1. /\ locked' \subseteq Output /\ spent' \subseteq Output
      /\ unlockedBal' \in [Row -> Nat] /\ lockedBal' \in [Row -> Nat]
    BY NextKeepsLockInv DEF LockInv, AmountsTyped
<1>2. now' \in 0 .. MaxTime /\ overlap' \in BOOLEAN
  <2>1. CASE Tick
      BY <2>1 DEF Tick, TypeOK
  <2>2. CASE ~Tick
      BY <2>2 DEF Next, AskBalances, FindUtxos, MarkUnlocked, UpdateAmounts, UpdateIsAnError,
         UpdateTimelock, ReadBalances, BlockReads, SpendReads, Commit, RollBack, TypeOK, vars
  <2> QED
      BY <2>1, <2>2
<1>3. tx' \in [kind : {"none", "block", "spend"}, found : SUBSET Output, spends : SUBSET Output]
  <2> DEFINE TxType == [kind : {"none", "block", "spend"}, found : SUBSET Output, spends : SUBSET Output]
  <2>1. CASE BlockReads
    <3>1. {o \in locked : Timelock[o] < now} \in SUBSET Output
        BY DEF TypeOK
    <3> QED
        BY <2>1, <3>1 DEF BlockReads
  <2>2. ASSUME NEW o \in Output, SpendReads(o) PROVE tx' \in TxType
    <3>1. {o} \in SUBSET Output /\ {o} \cap LockedUnspent \in SUBSET Output
        OBVIOUS
    <3> QED
        BY <2>2, <3>1 DEF SpendReads
  <2>3. CASE Commit \/ RollBack
      BY <2>3 DEF Commit, RollBack, NoTx
  <2>4. CASE UNCHANGED tx
      BY <2>4 DEF TypeOK
  <2> QED
      BY <2>1, <2>2, <2>3, <2>4 DEF Next, AskBalances, FindUtxos, MarkUnlocked, UpdateAmounts,
         UpdateIsAnError, UpdateTimelock, ReadBalances, Tick, vars
<1>4. timelockExpires' \in [Row -> Nat]
  <2>1. ASSUME NEW c \in Call, UpdateTimelock(c) PROVE timelockExpires' \in [Row -> Nat]
    <3>1. \A r : NextExpiry(r) \in Nat
      <4>1. Least({timelockExpires[a] : a \in Address} \ {Null}) \in Nat
          BY LeastType DEF TypeOK, Row
      <4>2. \A r : Least({Timelock[o] : o \in Of(LockedUnspent, r)}) \in Nat
          BY LeastTimelock DEF Of, LockedUnspent, TypeOK
      <4> QED
          BY <4>1, <4>2 DEF NextExpiry
    <3> QED
        BY <2>1, <3>1 DEF UpdateTimelock, TypeOK
  <2>2. CASE Commit
    <3> DEFINE expires(a) == IF a \in RowsOf(tx.found)
                             THEN Least({Timelock[o] : o \in Of(locked' \ spent, a)})
                             ELSE timelockExpires[a]
    <3>1. ASSUME NEW a \in Address PROVE expires(a) \in Nat
      <4>1. Least({Timelock[o] : o \in Of(locked' \ spent, a)}) \in Nat
        <5>1. Of(locked' \ spent, a) \subseteq Output
            BY <1>1 DEF Of
        <5> QED
            BY <5>1, LeastTimelock
      <4> QED
          BY <4>1 DEF TypeOK, Row
    <3>2. Least({expires(a) : a \in Address} \ {Null}) \in Nat
        BY <3>1, LeastType
    <3> HIDE DEF expires
    <3>3. timelockExpires' =
             [r \in Row |->
                 IF r # Wallet THEN expires(r)
                 ELSE IF tx.found = {} THEN timelockExpires[Wallet]
                 ELSE Least({expires(a) : a \in Address} \ {Null})]
        BY <2>2 DEF Commit, expires
    <3> QED
        BY <3>1, <3>2, <3>3 DEF TypeOK, Row
  <2>3. CASE UNCHANGED timelockExpires
      BY <2>3 DEF TypeOK
  <2> QED
      BY <2>1, <2>2, <2>3 DEF Next, AskBalances, FindUtxos, MarkUnlocked, UpdateAmounts,
         UpdateIsAnError, ReadBalances, BlockReads, SpendReads, RollBack, Tick, vars, rowVars
<1>5. call' \in [Call -> CallType]
    BY NextTypesCall
<1> QED
    BY <1>1, <1>2, <1>3, <1>4, <1>5 DEF TypeOK, CallType
-----------------------------------------------------------------------------
(* What a step does to the serial invariant *)

\* What has been run leaves the list of statements, and its end stays.
LEMMA TailFacts ==
    ASSUME NEW T, NEW s \in Seq(T), s # <<>>,
           \A i, j \in 1 .. Len(s) : s[i] = s[j] => i = j
    PROVE  /\ Tail(s) \in Seq(T)
           /\ \A i, j \in 1 .. Len(Tail(s)) : Tail(s)[i] = Tail(s)[j] => i = j
           /\ Tail(s) # <<>> => Tail(s)[Len(Tail(s))] = s[Len(s)]
           /\ {Tail(s)[i] : i \in 1 .. Len(Tail(s))} = {s[i] : i \in 1 .. Len(s)} \ {Head(s)}
<1>1. /\ Len(s) \in Nat \ {0} /\ Len(Tail(s)) = Len(s) - 1 /\ Tail(s) \in Seq(T)
      /\ Head(s) = s[1]
    OBVIOUS
<1>2. \A i \in 1 .. Len(Tail(s)) : Tail(s)[i] = s[i + 1] /\ i + 1 \in 1 .. Len(s)
    BY <1>1
<1>3. \A i \in 1 .. Len(s) : i # 1 => i - 1 \in 1 .. Len(Tail(s)) /\ s[i] = Tail(s)[i - 1]
    BY <1>1, <1>2
<1>4. \A i, j \in 1 .. Len(Tail(s)) : Tail(s)[i] = Tail(s)[j] => i = j
    BY <1>2
<1>5. Tail(s) # <<>> => Tail(s)[Len(Tail(s))] = s[Len(s)]
    BY <1>1, <1>2
<1>6. {Tail(s)[i] : i \in 1 .. Len(Tail(s))} \subseteq {s[i] : i \in 1 .. Len(s)} \ {Head(s)}
  <2> SUFFICES ASSUME NEW i \in 1 .. Len(Tail(s))
               PROVE  (\E j \in 1 .. Len(s) : Tail(s)[i] = s[j]) /\ Tail(s)[i] # s[1]
      BY <1>1
  <2> QED
      BY <1>1, <1>2
<1>7. {s[i] : i \in 1 .. Len(s)} \ {Head(s)} \subseteq {Tail(s)[i] : i \in 1 .. Len(Tail(s))}
  <2> SUFFICES ASSUME NEW i \in 1 .. Len(s), s[i] # s[1]
               PROVE  \E j \in 1 .. Len(Tail(s)) : s[i] = Tail(s)[j]
      BY <1>1
  <2> QED
      BY <1>3
<1> QED
    BY <1>1, <1>4, <1>5, <1>6, <1>7

\* The execution after each of its statements; the others wait.
Asked(c) ==
    /\ call'[c].at = IF Expired(Wallet) THEN "find" ELSE "answered"
    /\ call'[c].now = now
    /\ call'[c].answer = IF Expired(Wallet) THEN 0 ELSE unlockedBal[Wallet]
    /\ call'[c].found = call[c].found /\ call'[c].todo = call[c].todo

Found(c) ==
    /\ call'[c].found = WalletUnlockedUtxos(call[c].now)
    /\ call'[c].at = IF call'[c].found = {} THEN "update" ELSE "mark"
    /\ call'[c].now = call[c].now /\ call'[c].todo = call[c].todo

Marked(c) ==
    /\ call'[c].at = "update" /\ call'[c].todo \in Plans(call[c].found)
    /\ call'[c].now = call[c].now /\ call'[c].found = call[c].found

Updated(c) ==
    /\ call'[c].todo = Tail(call[c].todo) /\ call'[c].at = call[c].at
    /\ call'[c].now = call[c].now /\ call'[c].found = call[c].found

FailedCall(c) ==
    /\ call'[c].at = "failed" /\ call'[c].now = 0
    /\ call'[c].found = {} /\ call'[c].todo = <<>>

Answered(c) ==
    /\ call'[c].at = "answered" /\ call'[c].found = {}
    /\ call'[c].answer = unlockedBal[Wallet]
    /\ call'[c].now = call[c].now /\ call'[c].todo = call[c].todo

OthersWait(c) == \A d \in Call \ {c} : call'[d] = call[d]

LEMMA CallSteps ==
    ASSUME TypeOK, NEW c \in Call
    PROVE  /\ AskBalances(c) => Asked(c) /\ OthersWait(c)
           /\ FindUtxos(c) => Found(c) /\ OthersWait(c)
           /\ MarkUnlocked(c) => Marked(c) /\ OthersWait(c)
           /\ UpdateAmounts(c) \/ UpdateTimelock(c) => Updated(c) /\ OthersWait(c)
           /\ UpdateIsAnError(c) => FailedCall(c) /\ OthersWait(c)
           /\ ReadBalances(c) => Answered(c) /\ OthersWait(c)
<1>1. call \in [Call -> CallType] /\ call[c] \in CallType
    BY DEF TypeOK, CallType
<1>2. DOMAIN call[c] = {"at", "now", "found", "todo", "answer"} /\ DOMAIN call = Call
    BY <1>1 DEF CallType
<1> HIDE LockAssumption, SumAssumption
<1>3. AskBalances(c) => Asked(c)
    BY <1>2 DEF AskBalances, Asked
<1>4. FindUtxos(c) => Found(c)
  <2> SUFFICES ASSUME FindUtxos(c) PROVE Found(c)
      OBVIOUS
  <2> DEFINE found == WalletUnlockedUtxos(call[c].now)
             at == IF found = {} THEN "update" ELSE "mark"
  <2>1. call' = [call EXCEPT ![c].found = found, ![c].at = at]
      BY DEF FindUtxos
  <2> HIDE DEF found, at
  <2>2. /\ call'[c].found = found /\ call'[c].at = at
        /\ call'[c].now = call[c].now /\ call'[c].todo = call[c].todo
      BY <1>2, <2>1
  <2> QED
      BY <2>2 DEF Found, found, at
<1>5. MarkUnlocked(c) => Marked(c)
    BY <1>2 DEF MarkUnlocked, Marked
<1>6. UpdateAmounts(c) \/ UpdateTimelock(c) => Updated(c)
    BY <1>2 DEF UpdateAmounts, UpdateTimelock, Updated
<1>7. UpdateIsAnError(c) => FailedCall(c)
    BY <1>2 DEF UpdateIsAnError, IdleCall, FailedCall
<1>8. ReadBalances(c) => Answered(c)
    BY <1>2 DEF ReadBalances, Answered
<1>9. /\ AskBalances(c) => OthersWait(c)
      /\ FindUtxos(c) => OthersWait(c)
      /\ MarkUnlocked(c) => OthersWait(c)
      /\ UpdateAmounts(c) \/ UpdateTimelock(c) => OthersWait(c)
      /\ UpdateIsAnError(c) => OthersWait(c)
      /\ ReadBalances(c) => OthersWait(c)
    BY <1>2 DEF AskBalances, FindUtxos, MarkUnlocked, UpdateAmounts, UpdateIsAnError,
       UpdateTimelock, ReadBalances, OthersWait
<1>10. UpdateAmounts(c) \/ UpdateTimelock(c) => Updated(c) /\ OthersWait(c)
    BY <1>6, <1>9
<1>11. /\ AskBalances(c) => Asked(c) /\ OthersWait(c)
       /\ FindUtxos(c) => Found(c) /\ OthersWait(c)
       /\ MarkUnlocked(c) => Marked(c) /\ OthersWait(c)
    BY <1>3, <1>4, <1>5, <1>9
<1>12. /\ UpdateIsAnError(c) => FailedCall(c) /\ OthersWait(c)
       /\ ReadBalances(c) => Answered(c) /\ OthersWait(c)
    BY <1>7, <1>8, <1>9
<1> QED
    BY <1>10, <1>11, <1>12

\* What has been unlocked, or is about to be, had passed its timelock.
LEMMA NextTimelocksPassed ==
    ASSUME LockInv, TypeOK, TimelocksPassed, [Next]_vars PROVE TimelocksPassed'
<1> USE DEF TimelocksPassed
<1>0. /\ now \in Nat /\ \A o \in Output : Timelock[o] \in Nat
      /\ \A c \in Call : call[c].now \in Nat /\ call[c].found \subseteq Output
      /\ locked \subseteq Output /\ tx.found \subseteq Output
  <2>1. now \in Nat /\ \A o \in Output : Timelock[o] \in Nat
      BY DEF TypeOK
  <2>2. \A c \in Call : call[c].now \in 0 .. MaxTime /\ call[c].found \subseteq Output
      BY DEF TypeOK
  <2> QED
      BY <2>1, <2>2 DEF LockInv, TxTyped
<1>1. ASSUME NEW c \in Call, AskBalances(c) PROVE TimelocksPassed'
  <2>1. UNCHANGED <<locked, tx, now>>
      BY <1>1 DEF AskBalances
  <2> QED
      BY <1>0, <1>1, <2>1, CallSteps DEF Asked, OthersWait
<1>2. ASSUME NEW c \in Call, FindUtxos(c) PROVE TimelocksPassed'
  <2>1. UNCHANGED <<locked, tx, now>>
      BY <1>2 DEF FindUtxos
  <2>2. \A o \in WalletUnlockedUtxos(call[c].now) : Timelock[o] <= now
      BY <1>0 DEF WalletUnlockedUtxos, LockedUnspent
  <2> QED
      BY <1>0, <1>2, <2>1, <2>2, CallSteps DEF Found, OthersWait
<1>3. ASSUME NEW c \in Call, MarkUnlocked(c) PROVE TimelocksPassed'
  <2>1. UNCHANGED <<tx, now>> /\ locked' = locked \ call[c].found
      BY <1>3 DEF MarkUnlocked
  <2> QED
      BY <1>0, <1>3, <2>1, CallSteps DEF Marked, OthersWait
<1>4. ASSUME NEW c \in Call,
             UpdateAmounts(c) \/ UpdateIsAnError(c) \/ UpdateTimelock(c) \/ ReadBalances(c)
      PROVE  TimelocksPassed'
  <2>1. UNCHANGED <<locked, tx, now>>
      BY <1>4 DEF UpdateAmounts, UpdateIsAnError, UpdateTimelock, ReadBalances
  <2>2. /\ call'[c].now \in {call[c].now, 0} /\ call'[c].found \in {call[c].found, {}}
        /\ \A d \in Call \ {c} : call'[d] = call[d]
      BY <1>4, CallSteps DEF Updated, FailedCall, Answered, OthersWait
  <2> QED
      BY <1>0, <2>1, <2>2
<1>5. CASE BlockReads
    BY <1>0, <1>5 DEF BlockReads
<1>6. ASSUME NEW o \in Output, SpendReads(o) PROVE TimelocksPassed'
    BY <1>0, <1>6 DEF SpendReads
<1>7. CASE Commit
    BY <1>0, <1>7 DEF Commit, NoTx
<1>8. CASE RollBack
    BY <1>0, <1>8 DEF RollBack, NoTx
<1>9. CASE Tick
    BY <1>0, <1>9 DEF Tick
<1>10. CASE UNCHANGED vars
    BY <1>0, <1>10 DEF vars
<1> QED
    BY <1>1, <1>2, <1>3, <1>4, <1>5, <1>6, <1>7, <1>8, <1>9, <1>10 DEF Next

\* The one execution that runs takes a step.
LEMMA AloneInStep ==
    ASSUME Serial, NEW c \in Call, OthersWait(c), \A d \in Call \ {c} : ~Active(d),
           tx = NoTx, tx' = NoTx, locked' \cap spent' = {},
           InStep(c)', call'[c].at # "update" => RowsMatch'
    PROVE  Serial'
<1>1. ASSUME NEW d \in Call \ {c} PROVE ~Active(d)' /\ InStep(d)'
  <2>1. call'[d] = call[d] /\ ~Active(d) /\ InStep(d)
      BY DEF OthersWait, Serial
  <2> QED
      BY <2>1 DEF Active, InStep
<1>2. OneAtATime'
    BY <1>1 DEF OneAtATime
<1>3. TxUnlocks'
    BY DEF TxUnlocks, NoTx
<1>4. \A d \in Call : InStep(d)'
    BY <1>1
<1>5. (\A d \in Call : call'[d].at # "update") => RowsMatch'
    OBVIOUS
<1> QED
    BY <1>2, <1>3, <1>4, <1>5 DEF Serial

LEMMA ActiveIsAlone ==
    ASSUME Serial, NEW c \in Call, Active(c)
    PROVE  /\ tx = NoTx
           /\ \A d \in Call \ {c} : ~Active(d)
           /\ locked \cap spent = {}
           /\ InStep(c)
           /\ call[c].at # "update" => RowsMatch
BY DEF Serial, OneAtATime, Active, TxUnlocks

LEMMA RestIsIdle ==
    ASSUME Serial, TypeOK, AtRest
    PROVE  /\ tx = NoTx /\ RowsMatch /\ locked \cap spent = {}
           /\ \A c \in Call : ~Active(c) /\ call[c].todo = <<>>
<1>1. \A c \in Call : ~Active(c) /\ call[c].at # "update"
    BY DEF AtRest, Active
<1> QED
    BY <1>1 DEF AtRest, Serial, InStep, TxUnlocks

LEMMA AskIsSerial ==
    ASSUME TypeOK, Serial, ~overlap, NEW c \in Call, AskBalances(c)
    PROVE  Serial'
<1>1. AtRest /\ UNCHANGED <<locked, spent, lockedBal, timelockExpires, tx>>
    BY DEF AskBalances, MayStart, rowVars
<1>2. Asked(c) /\ OthersWait(c)
    BY CallSteps
<1>3. /\ tx = NoTx /\ RowsMatch /\ locked \cap spent = {}
      /\ \A d \in Call : ~Active(d) /\ call[d].todo = <<>>
    BY <1>1, RestIsIdle
<1>4. RowsMatch'
    BY <1>1, <1>3 DEF RowsMatch, LockedIs, ExpiresIs, LockedUnspent, Of
<1>5. InStep(c)'
    BY <1>2, <1>3 DEF Asked, InStep
<1> QED
    BY <1>1, <1>2, <1>3, <1>4, <1>5, AloneInStep

LEMMA FindIsSerial ==
    ASSUME TypeOK, Serial, NEW c \in Call, FindUtxos(c)
    PROVE  Serial'
<1>1. call[c].at = "find" /\ UNCHANGED <<locked, spent, lockedBal, timelockExpires, tx>>
    BY DEF FindUtxos, rowVars
<1>2. Found(c) /\ OthersWait(c)
    BY CallSteps
<1>3. /\ tx = NoTx /\ RowsMatch /\ locked \cap spent = {}
      /\ \A d \in Call \ {c} : ~Active(d)
      /\ call[c].todo = <<>>
    BY <1>1, ActiveIsAlone DEF Active, InStep
<1>4. RowsMatch'
    BY <1>1, <1>3 DEF RowsMatch, LockedIs, ExpiresIs, LockedUnspent, Of
<1>5. WalletUnlockedUtxos(call[c].now)' = WalletUnlockedUtxos(call[c].now)
    BY <1>1, <1>2 DEF WalletUnlockedUtxos, LockedUnspent, Found
<1>6. ASSUME call'[c].at = "update" PROVE OnPlan(c)'
  <2>1. WalletUnlockedUtxos(call[c].now) = {} /\ call'[c].found = {} /\ call'[c].todo = <<>>
      BY <1>2, <1>3, <1>6 DEF Found
  <2>2. Pending(c)' = {}
      BY <2>1 DEF Pending
  <2>3. \A o \in LockedUnspent' : Timelock[o] > call'[c].now
    <3>1. call[c].now \in Nat /\ call'[c].now = call[c].now
        BY <1>2 DEF TypeOK, Found
    <3>2. \A o \in LockedUnspent : ~(Timelock[o] <= call[c].now) /\ Timelock[o] \in Nat
        BY <2>1 DEF WalletUnlockedUtxos, LockedUnspent, TypeOK
    <3> QED
        BY <1>1, <3>1, <3>2 DEF LockedUnspent
  <2>4. \A r \in Row : LockedIs(r, {})' /\ ExpiresIs(r)'
      BY <1>4 DEF RowsMatch
  <2> QED
      BY <2>1, <2>2, <2>3, <2>4 DEF OnPlan
<1>7. InStep(c)'
    BY <1>2, <1>3, <1>5, <1>6 DEF Found, InStep
<1> QED
    BY <1>1, <1>2, <1>3, <1>4, <1>7, AloneInStep

LEMMA MarkIsSerial ==
    ASSUME LockInv, TypeOK, Serial, NEW c \in Call, MarkUnlocked(c)
    PROVE  Serial'
<1>1. /\ call[c].at = "mark" /\ locked' = locked \ call[c].found
      /\ UNCHANGED <<spent, lockedBal, timelockExpires, tx>>
    BY DEF MarkUnlocked, rowVars
<1>2. Marked(c) /\ OthersWait(c)
    BY CallSteps
<1>3. /\ tx = NoTx /\ RowsMatch /\ locked \cap spent = {}
      /\ \A d \in Call \ {c} : ~Active(d)
      /\ call[c].found = WalletUnlockedUtxos(call[c].now)
    BY <1>1, ActiveIsAlone DEF Active, InStep
<1> DEFINE found == call[c].found
           plan == call'[c].todo
<1>4. found \subseteq LockedUnspent /\ found \subseteq Output /\ LockedUnspent' = LockedUnspent \ found
    BY <1>1, <1>3 DEF WalletUnlockedUtxos, LockedUnspent, TypeOK
<1>5. plan \in Plans(found) /\ call'[c].found = found /\ call'[c].at = "update"
      /\ call'[c].now = call[c].now
    BY <1>2 DEF Marked
<1>6. IsPlanOf(plan, found)
    BY <1>4, <1>5, PlanFacts
<1>7. ASSUME NEW r \in Row
      PROVE  \/ <<"amounts", r>> \in Pending(c)' /\ <<"expires", r>> \in Pending(c)'
             \/ Of(LockedUnspent', r) = Of(LockedUnspent, r)
  <2>1. CASE r = Wallet \/ (\E o \in found : AddressOf[o] = r)
      BY <1>6, <2>1 DEF Pending, IsPlanOf
  <2>2. CASE ~(r = Wallet \/ (\E o \in found : AddressOf[o] = r))
      BY <1>4, <2>2 DEF Of
  <2> QED
      BY <2>1, <2>2
<1>8. ASSUME NEW r \in Row
      PROVE  /\ LockedIs(r, IF <<"amounts", r>> \in Pending(c) THEN found ELSE {})'
             /\ (<<"expires", r>> \notin Pending(c) => ExpiresIs(r))'
  <2>1. lockedBal[r] = ValueOf[Of(LockedUnspent, r)] /\ ExpiresIs(r)
    <3>1. LockedUnspent \cup {} = LockedUnspent
        OBVIOUS
    <3> QED
        BY <1>3, <3>1 DEF RowsMatch, LockedIs
  <2>2. found' = found
      BY <1>5
  <2> HIDE DEF found
  <2>3. LockedUnspent' \cup found = LockedUnspent
      BY <1>4
  <2>4. CASE <<"amounts", r>> \in Pending(c)' /\ <<"expires", r>> \in Pending(c)'
      BY <1>1, <2>1, <2>2, <2>3, <2>4 DEF LockedIs
  <2>5. CASE Of(LockedUnspent', r) = Of(LockedUnspent, r)
    <3>1. (LockedUnspent \cup {})' = LockedUnspent'
        OBVIOUS
    <3>2. lockedBal'[r] = ValueOf[Of(LockedUnspent', r)]
        BY <1>1, <2>1, <2>5
    <3>3. ExpiresIs(r)'
        BY <1>1, <2>1, <2>5 DEF ExpiresIs
    <3>4. CASE <<"amounts", r>> \in Pending(c)'
        BY <1>1, <2>1, <2>2, <2>3, <3>3, <3>4 DEF LockedIs
    <3>5. CASE <<"amounts", r>> \notin Pending(c)'
        BY <3>1, <3>2, <3>3, <3>5 DEF LockedIs
    <3> QED
        BY <3>4, <3>5
  <2> QED
      BY <1>7, <2>4, <2>5
<1>9. \A o \in LockedUnspent' : Timelock[o] > call'[c].now
  <2>1. call[c].now \in Nat
      BY DEF TypeOK
  <2>2. \A o \in LockedUnspent : o \in Output /\ Timelock[o] \in Nat
      BY DEF TypeOK, LockedUnspent
  <2>3. \A o \in LockedUnspent' : o \in LockedUnspent /\ ~(Timelock[o] <= call[c].now)
      BY <1>3, <1>4 DEF WalletUnlockedUtxos
  <2> QED
      BY <1>5, <2>1, <2>2, <2>3
<1>10. OnPlan(c)'
  <2>1. found \cap locked' = {} /\ call'[c].found = found
      BY <1>1, <1>5
  <2>2. \A r \in Row :
            /\ LockedIs(r, IF <<"amounts", r>> \in Pending(c) THEN call[c].found ELSE {})'
            /\ (<<"expires", r>> \notin Pending(c) => ExpiresIs(r))'
      BY <1>8
  <2> QED
      BY <1>6, <1>9, <2>1, <2>2 DEF OnPlan, IsPlanOf
<1>11. InStep(c)'
    BY <1>5, <1>10 DEF InStep
<1>12. tx' = NoTx /\ locked' \cap spent' = {} /\ call'[c].at = "update"
    BY <1>1, <1>3, <1>5
<1> QED
    BY <1>2, <1>3, <1>11, <1>12, AloneInStep

\* The first statement left is one of a row, and comes off the list.
LEMMA FirstStatement ==
    ASSUME TypeOK, Serial, NEW c \in Call, call[c].at = "update", call[c].todo # <<>>
    PROVE  /\ Head(call[c].todo) \in {"amounts", "expires"} \X Row
           /\ Head(call[c].todo) \in Pending(c)
           /\ call[c].found \subseteq Output
           /\ tx = NoTx /\ locked \cap spent = {} /\ OnPlan(c)
           /\ \A d \in Call \ {c} : ~Active(d)
<1>1. call[c].todo \in Seq({"amounts", "expires"} \X Row) /\ call[c].found \subseteq Output
    BY DEF TypeOK
<1>2. /\ tx = NoTx /\ locked \cap spent = {} /\ OnPlan(c)
      /\ \A d \in Call \ {c} : ~Active(d)
    BY ActiveIsAlone DEF Active, InStep
<1>3. 1 \in 1 .. Len(call[c].todo) /\ Head(call[c].todo) = call[c].todo[1]
    BY <1>1
<1> HIDE LockAssumption, SumAssumption
<1>4. Head(call[c].todo) \in {"amounts", "expires"} \X Row
    BY <1>1
<1>5. Head(call[c].todo) \in Pending(c)
    BY <1>3 DEF Pending
<1> QED
    BY <1>1, <1>2, <1>4, <1>5

\* What the first statement leaves to the others, and what the rows hold then.
Left(c) == Pending(c) \ {Head(call[c].todo)}

AmountsLeft(c) ==
    \A r \in Row :
        lockedBal'[r] =
            ValueOf[Of(LockedUnspent \cup (IF <<"amounts", r>> \in Left(c) THEN call[c].found ELSE {}), r)]

ExpiriesLeft(c) ==
    \A r \in Row : <<"expires", r>> \notin Left(c) =>
        timelockExpires'[r] = Least({Timelock[o] : o \in Of(LockedUnspent, r)})

\* With the first statement run, the rest of the plan is a plan.
LEMMA AfterStatement ==
    ASSUME TypeOK, Serial, NEW c \in Call, call[c].at = "update", call[c].todo # <<>>,
           Updated(c), OthersWait(c), UNCHANGED <<locked, spent, tx>>,
           AmountsLeft(c), ExpiriesLeft(c)
    PROVE  Serial'
<1> DEFINE left == Left(c)
           T == {"amounts", "expires"} \X Row
           todo == call[c].todo
           found == call[c].found
<1>1. /\ tx = NoTx /\ locked \cap spent = {} /\ OnPlan(c)
      /\ \A d \in Call \ {c} : ~Active(d)
    BY FirstStatement
<1>2. /\ call'[c].todo = Tail(todo) /\ call'[c].at = "update"
      /\ call'[c].now = call[c].now /\ call'[c].found = found
    BY DEF Updated
<1>3. todo \in Seq(T) /\ todo # <<>> /\ \A i, j \in 1 .. Len(todo) : todo[i] = todo[j] => i = j
    BY <1>1 DEF TypeOK, OnPlan
<1>4. /\ \A i, j \in 1 .. Len(Tail(todo)) : Tail(todo)[i] = Tail(todo)[j] => i = j
      /\ Tail(todo) # <<>> => Tail(todo)[Len(Tail(todo))] = todo[Len(todo)]
      /\ {Tail(todo)[i] : i \in 1 .. Len(Tail(todo))} = {todo[i] : i \in 1 .. Len(todo)} \ {Head(todo)}
  <2> HIDE DEF T, todo
  <2> QED
      BY <1>3, TailFacts
<1>5. Pending(c)' = left
  <2>1. Pending(c)' = {Tail(todo)[i] : i \in 1 .. Len(Tail(todo))}
      BY <1>2 DEF Pending
  <2>2. Pending(c) = {todo[i] : i \in 1 .. Len(todo)}
      BY DEF Pending
  <2> QED
      BY <1>4, <2>1, <2>2 DEF Left
<1>6. LockedUnspent' = LockedUnspent
    BY DEF LockedUnspent
<1>7. ASSUME NEW r \in Row
      PROVE  /\ LockedIs(r, IF <<"amounts", r>> \in Pending(c) THEN call[c].found ELSE {})'
             /\ (<<"expires", r>> \notin Pending(c) => ExpiresIs(r))'
  <2>1. CASE <<"amounts", r>> \in left
      BY <1>2, <1>5, <1>6, <2>1 DEF LockedIs, ExpiresIs, AmountsLeft, ExpiriesLeft
  <2>2. CASE <<"amounts", r>> \notin left
      BY <1>2, <1>5, <1>6, <2>2 DEF LockedIs, ExpiresIs, AmountsLeft, ExpiriesLeft
  <2> QED
      BY <2>1, <2>2
<1>8. /\ (found \cap locked = {})'
      /\ \A o \in LockedUnspent' : Timelock[o] > call'[c].now
    BY <1>1, <1>2, <1>6 DEF OnPlan
<1>9. todo[Len(todo)] = <<"expires", Wallet>>
    BY <1>1 DEF OnPlan
<1> HIDE DEF T
<1>10. OnPlan(c)'
    BY <1>2, <1>4, <1>7, <1>8, <1>9 DEF OnPlan
<1>11. InStep(c)'
    BY <1>2, <1>10 DEF InStep
<1> QED
    BY <1>1, <1>2, <1>11, AloneInStep

LEMMA AmountsIsSerial ==
    ASSUME LockInv, TypeOK, Serial, NEW c \in Call, UpdateAmounts(c)
    PROVE  Serial'
<1> DEFINE head == Head(call[c].todo)
           found == call[c].found
           s == head[2]
           left == Pending(c) \ {head}
<1>1. /\ call[c].at = "update" /\ call[c].todo # <<>> /\ head[1] = "amounts"
      /\ lockedBal' = [lockedBal EXCEPT ![s] = @ - ValueOf[Of(found, s)]]
      /\ UNCHANGED <<locked, spent, timelockExpires, tx>>
    BY DEF UpdateAmounts, MoveToUnlocked
<1>2. Updated(c) /\ OthersWait(c)
    BY CallSteps
<1>3. head \in {"amounts", "expires"} \X Row /\ head \in Pending(c) /\ found \subseteq Output
      /\ OnPlan(c)
    BY <1>1, FirstStatement
<1>4. s \in Row /\ head = <<"amounts", s>>
    BY <1>1, <1>3
<1>5. \A r \in Row :
         /\ LockedIs(r, IF <<"amounts", r>> \in Pending(c) THEN found ELSE {})
         /\ <<"expires", r>> \notin Pending(c) => ExpiresIs(r)
    BY <1>3 DEF OnPlan
<1>6. ASSUME NEW r \in Row
      PROVE  lockedBal'[r] =
                ValueOf[Of(LockedUnspent \cup (IF <<"amounts", r>> \in left THEN found ELSE {}), r)]
  <2>1. CASE r = s
    <3>1. lockedBal[r] = ValueOf[Of(LockedUnspent \cup found, r)]
        BY <1>3, <1>4, <1>5, <2>1 DEF LockedIs
    <3>2. lockedBal'[r] = lockedBal[r] - ValueOf[Of(found, r)]
        BY <1>1, <1>4, <2>1 DEF LockInv, AmountsTyped
    <3>3. /\ Of(found, r) \subseteq Of(LockedUnspent \cup found, r)
          /\ Of(LockedUnspent \cup found, r) \subseteq Output
          /\ Of(LockedUnspent \cup found, r) \ Of(found, r) = Of(LockedUnspent, r)
        BY <1>3 DEF OnPlan, Of, LockedUnspent, TypeOK
    <3>4. lockedBal'[r] = ValueOf[Of(LockedUnspent, r)]
        BY <3>1, <3>2, <3>3, ValueOfPart
    <3>5. <<"amounts", r>> \notin left /\ LockedUnspent \cup {} = LockedUnspent
        BY <1>4, <2>1
    <3> QED
        BY <3>4, <3>5
  <2>2. CASE r # s
    <3>1. <<"amounts", r>> \in left <=> <<"amounts", r>> \in Pending(c)
        BY <1>4, <2>2
    <3>2. lockedBal'[r] = lockedBal[r]
        BY <1>1, <2>2 DEF LockInv, AmountsTyped
    <3> HIDE DEF left
    <3> QED
        BY <1>5, <3>1, <3>2 DEF LockedIs
  <2> QED
      BY <2>1, <2>2
<1>7. ASSUME NEW r \in Row, <<"expires", r>> \notin left
      PROVE  timelockExpires'[r] = Least({Timelock[o] : o \in Of(LockedUnspent, r)})
  <2>1. <<"expires", r>> \notin Pending(c)
      BY <1>4, <1>7
  <2> QED
      BY <1>1, <1>5, <2>1 DEF ExpiresIs
<1>8. AmountsLeft(c)
    BY <1>6 DEF AmountsLeft, Left
<1>9. ExpiriesLeft(c)
    BY <1>7 DEF ExpiriesLeft, Left
<1> QED
    BY <1>1, <1>2, <1>8, <1>9, AfterStatement

\* No statement of executions one after another goes below zero.
LEMMA NoErrorIsSerial ==
    ASSUME LockInv, TypeOK, Serial, NEW c \in Call
    PROVE  ~UpdateIsAnError(c)
<1> SUFFICES ASSUME UpdateIsAnError(c) PROVE FALSE
    OBVIOUS
<1> DEFINE head == Head(call[c].todo)
           found == call[c].found
           s == head[2]
<1>1. /\ call[c].at = "update" /\ call[c].todo # <<>> /\ head[1] = "amounts"
      /\ ~(lockedBal[s] >= ValueOf[Of(found, s)])
    BY DEF UpdateIsAnError, HasLocked
<1>2. head \in {"amounts", "expires"} \X Row /\ head \in Pending(c) /\ found \subseteq Output
      /\ OnPlan(c)
    BY <1>1, FirstStatement
<1>3. s \in Row /\ <<"amounts", s>> \in Pending(c)
    BY <1>1, <1>2
<1>4. lockedBal[s] = ValueOf[Of(LockedUnspent \cup found, s)]
    BY <1>2, <1>3 DEF OnPlan, LockedIs
<1>5. /\ Of(found, s) \subseteq Of(LockedUnspent \cup found, s)
      /\ Of(LockedUnspent \cup found, s) \subseteq Output
    BY <1>2 DEF Of, LockedUnspent, TypeOK
<1> HIDE DEF s, found
<1>6. /\ ValueOf[Of(found, s)] <= ValueOf[Of(LockedUnspent \cup found, s)]
      /\ ValueOf[Of(found, s)] \in Nat /\ ValueOf[Of(LockedUnspent \cup found, s)] \in Nat
    BY <1>5, ValueOfPart
<1> QED
    BY <1>1, <1>4, <1>6

LEMMA TimelockIsSerial ==
    ASSUME LockInv, TypeOK, Serial, NEW c \in Call, UpdateTimelock(c)
    PROVE  Serial'
<1> DEFINE head == Head(call[c].todo)
           s == head[2]
           left == Pending(c) \ {head}
<1>1. /\ call[c].at = "update" /\ call[c].todo # <<>> /\ head[1] = "expires"
      /\ timelockExpires' = [timelockExpires EXCEPT ![s] = NextExpiry(s)]
      /\ UNCHANGED <<locked, spent, lockedBal, tx>>
    BY DEF UpdateTimelock
<1>2. Updated(c) /\ OthersWait(c)
    BY CallSteps
<1>3. head \in {"amounts", "expires"} \X Row /\ head \in Pending(c) /\ OnPlan(c)
    BY <1>1, FirstStatement
<1>4. s \in Row /\ head = <<"expires", s>>
    BY <1>1, <1>3
<1>5. \A r \in Row :
         /\ LockedIs(r, IF <<"amounts", r>> \in Pending(c) THEN call[c].found ELSE {})
         /\ <<"expires", r>> \notin Pending(c) => ExpiresIs(r)
    BY <1>3 DEF OnPlan
<1>6. ASSUME NEW r \in Row
      PROVE  lockedBal'[r] =
                ValueOf[Of(LockedUnspent \cup (IF <<"amounts", r>> \in left THEN call[c].found ELSE {}), r)]
  <2>1. <<"amounts", r>> \in left <=> <<"amounts", r>> \in Pending(c)
      BY <1>4
  <2> HIDE DEF left
  <2> QED
      BY <1>1, <1>5, <2>1 DEF LockedIs
<1>7. NextExpiry(s) = Least({Timelock[o] : o \in Of(LockedUnspent, s)})
  <2>1. CASE s = Wallet
    <3>1. Pending(c) = {head}
      <4> DEFINE todo == call[c].todo
      <4>1. /\ todo \in Seq({"amounts", "expires"} \X Row) /\ todo # <<>>
            /\ \A i, j \in 1 .. Len(todo) : todo[i] = todo[j] => i = j
            /\ todo[Len(todo)] = <<"expires", Wallet>>
          BY <1>1, <1>3 DEF TypeOK, OnPlan
      <4>2. todo[Len(todo)] = head
          BY <1>4, <2>1, <4>1
      <4> HIDE DEF head
      <4>3. todo[1] = head
          BY <4>1 DEF head
      <4>4. Len(todo) \in Nat \ {0} /\ 1 \in 1 .. Len(todo) /\ Len(todo) \in 1 .. Len(todo)
          BY <4>1
      <4>5. Len(todo) = 1
          BY <4>1, <4>2, <4>3, <4>4
      <4> QED
          BY <4>3, <4>5 DEF Pending
    <3>2. \A a \in Address : a \in Row /\ a # Wallet
        BY DEF Row
    <3>3. \A a \in Address : <<"expires", a>> \notin Pending(c)
        BY <1>4, <2>1, <3>1, <3>2
    <3>4. \A a \in Address : timelockExpires[a] = FirstTimelock(LockedUnspent, a)
        BY <1>5, <3>2, <3>3 DEF ExpiresIs, FirstTimelock
    <3>5. LockedUnspent \subseteq Output
        BY DEF LockedUnspent, TypeOK
    <3>6. FirstExpiry(timelockExpires) = FirstTimelock(LockedUnspent, Wallet)
        BY <3>4, <3>5, WalletExpiry
    <3> QED
        BY <2>1, <3>6 DEF NextExpiry, FirstExpiry, FirstTimelock
  <2>2. CASE s # Wallet
      BY <2>2 DEF NextExpiry
  <2> QED
      BY <2>1, <2>2
<1>8. ASSUME NEW r \in Row, <<"expires", r>> \notin left
      PROVE  timelockExpires'[r] = Least({Timelock[o] : o \in Of(LockedUnspent, r)})
  <2>1. CASE r = s
    <3>1. timelockExpires'[s] = NextExpiry(s)
        BY <1>1, <1>4 DEF TypeOK
    <3> QED
        BY <1>7, <2>1, <3>1
  <2>2. CASE r # s
    <3>1. <<"expires", r>> \notin Pending(c)
        BY <1>4, <1>8, <2>2
    <3>2. timelockExpires'[r] = timelockExpires[r]
        BY <1>1, <2>2 DEF TypeOK
    <3> QED
        BY <1>5, <3>1, <3>2 DEF ExpiresIs
  <2> QED
      BY <2>1, <2>2
<1>9. AmountsLeft(c)
    BY <1>6 DEF AmountsLeft, Left
<1>10. ExpiriesLeft(c)
    BY <1>8 DEF ExpiriesLeft, Left
<1> QED
    BY <1>1, <1>2, <1>9, <1>10, AfterStatement

LEMMA ReadIsSerial ==
    ASSUME TypeOK, Serial, NEW c \in Call, ReadBalances(c)
    PROVE  Serial'
<1>1. /\ call[c].at = "update" /\ call[c].todo = <<>>
      /\ UNCHANGED <<locked, spent, lockedBal, timelockExpires, tx>>
    BY DEF ReadBalances, rowVars
<1>2. Answered(c) /\ OthersWait(c)
    BY CallSteps
<1>3. /\ tx = NoTx /\ locked \cap spent = {} /\ OnPlan(c)
      /\ \A d \in Call \ {c} : ~Active(d)
    BY <1>1, ActiveIsAlone DEF Active, InStep
<1>4. Pending(c) = {}
    BY <1>1 DEF Pending
<1>5. RowsMatch'
    BY <1>1, <1>3, <1>4 DEF OnPlan, RowsMatch, LockedIs, ExpiresIs, LockedUnspent, Of
<1>6. InStep(c)'
    BY <1>1, <1>2 DEF Answered, InStep
<1> QED
    BY <1>1, <1>2, <1>3, <1>5, <1>6, AloneInStep

\* A transaction reads, or rolls back: the rows stay as they are.
LEMMA TxReadsSerial ==
    ASSUME LockInv, TypeOK, Serial, ~overlap,
           BlockReads \/ (\E o \in Output : SpendReads(o))
    PROVE  Serial'
<1>1. AtRest /\ UNCHANGED <<locked, spent, lockedBal, timelockExpires, call>>
    BY DEF BlockReads, SpendReads, MayStart, rowVars
<1>2. /\ RowsMatch /\ locked \cap spent = {}
      /\ \A c \in Call : ~Active(c)
    BY <1>1, RestIsIdle
<1>3. RowsMatch'
    BY <1>1, <1>2 DEF RowsMatch, LockedIs, ExpiresIs, LockedUnspent, Of
<1>4. OneAtATime'
    BY <1>1, <1>2 DEF OneAtATime, Active
<1>5. TxUnlocks'
  <2>1. CASE BlockReads
      BY <1>1, <1>2, <2>1 DEF BlockReads, TxUnlocks, LockedUnspent
  <2>2. ASSUME NEW o \in Output, SpendReads(o) PROVE TxUnlocks'
      BY <1>1, <1>2, <2>2 DEF SpendReads, TxUnlocks, LockedUnspent, Unspent
  <2> QED
      BY <2>1, <2>2
<1>6. \A c \in Call : InStep(c)'
    BY <1>1, <1>2 DEF Serial, InStep, Active
<1> QED
    BY <1>3, <1>4, <1>5, <1>6 DEF Serial

LEMMA CommitIsSerial ==
    ASSUME LockInv, TypeOK, Serial, Commit
    PROVE  Serial'
<1> DEFINE L == LockedUnspent \ tx.found
           expires(a) == IF a \in RowsOf(tx.found)
                         THEN Least({Timelock[o] : o \in Of(locked' \ spent, a)})
                         ELSE timelockExpires[a]
<1>1. /\ tx # NoTx /\ locked' = locked \ tx.found /\ spent' = spent \cup tx.spends
      /\ lockedBal' = [r \in Row |-> lockedBal[r] - ValueOf[Of(tx.found, r)]]
      /\ tx' = NoTx /\ UNCHANGED call
    BY DEF Commit
<1>2. timelockExpires' =
         [r \in Row |->
             IF r # Wallet THEN expires(r)
             ELSE IF tx.found = {} THEN timelockExpires[Wallet]
             ELSE Least({expires(a) : a \in Address} \ {Null})]
    BY DEF Commit
<1>3. /\ TxUnlocks /\ tx.found \subseteq LockedUnspent
      /\ RowsMatch /\ \A c \in Call : ~Active(c) /\ InStep(c)
    BY <1>1 DEF Serial, OneAtATime, TxUnlocks, Active
<1>4. LockedUnspent' = L /\ locked' \ spent = L /\ L \subseteq Output /\ LockedUnspent \subseteq Output
    BY <1>1, <1>3 DEF TxUnlocks, LockedUnspent, TypeOK
<1>5. ASSUME NEW r \in Row
      PROVE  lockedBal[r] = ValueOf[Of(LockedUnspent, r)] /\ timelockExpires[r] = FirstTimelock(LockedUnspent, r)
  <2>1. LockedUnspent \cup {} = LockedUnspent
      OBVIOUS
  <2> QED
      BY <1>3, <2>1 DEF RowsMatch, LockedIs, ExpiresIs, FirstTimelock
<1>6. ASSUME NEW r \in Row PROVE LockedIs(r, {})'
  <2>1. /\ Of(tx.found, r) \subseteq Of(LockedUnspent, r) /\ Of(LockedUnspent, r) \subseteq Output
        /\ Of(LockedUnspent, r) \ Of(tx.found, r) = Of(L, r)
      BY <1>3, <1>4 DEF Of
  <2>2. lockedBal'[r] = ValueOf[Of(LockedUnspent, r)] - ValueOf[Of(tx.found, r)]
      BY <1>1, <1>5
  <2>3. lockedBal'[r] = ValueOf[Of(L, r)]
      BY <2>1, <2>2, ValueOfPart
  <2>4. LockedUnspent' \cup {} = L
      BY <1>4
  <2> QED
      BY <2>3, <2>4 DEF LockedIs
<1>7. ASSUME NEW a \in Address PROVE expires(a) = FirstTimelock(L, a)
  <2>1. CASE a \in RowsOf(tx.found)
      BY <1>4, <2>1 DEF FirstTimelock
  <2>2. CASE a \notin RowsOf(tx.found)
    <3>1. Of(L, a) = Of(LockedUnspent, a)
      <4>1. \A o \in tx.found : AddressOf[o] # a
          BY <2>2 DEF RowsOf
      <4> QED
          BY <1>3, <4>1, LockAssumption DEF Of
    <3>2. timelockExpires[a] = FirstTimelock(LockedUnspent, a)
        BY <1>5 DEF Row
    <3> QED
        BY <2>2, <3>1, <3>2 DEF FirstTimelock
  <2> QED
      BY <2>1, <2>2
<1>8. ASSUME NEW r \in Row PROVE timelockExpires'[r] = FirstTimelock(L, r)
  <2>1. CASE r # Wallet
      BY <1>2, <1>7, <2>1 DEF Row
  <2>2. CASE r = Wallet /\ tx.found = {}
    <3>1. L = LockedUnspent
        BY <2>2
    <3>2. timelockExpires'[r] = timelockExpires[r]
        BY <1>2, <2>2
    <3> QED
        BY <1>5, <3>1, <3>2
  <2>3. CASE r = Wallet /\ tx.found # {}
    <3> DEFINE f == [a \in Address |-> expires(a)]
    <3>1. timelockExpires'[r] = Least({expires(a) : a \in Address} \ {Null})
        BY <1>2, <2>3
    <3>2. \A a \in Address : f[a] = FirstTimelock(L, a)
        BY <1>7
    <3>3. {expires(a) : a \in Address} = {f[a] : a \in Address}
      <4> HIDE DEF expires
      <4> QED
          OBVIOUS
    <3>4. FirstExpiry(f) = FirstTimelock(L, Wallet)
      <4> HIDE DEF f, L
      <4> QED
          BY <1>4, <3>2, WalletExpiry
    <3>5. timelockExpires'[r] = FirstExpiry(f)
      <4> HIDE DEF f, expires
      <4> QED
          BY <3>1, <3>3 DEF FirstExpiry
    <3> QED
        BY <2>3, <3>4, <3>5
  <2> QED
      BY <2>1, <2>2, <2>3
<1>9. RowsMatch'
    BY <1>4, <1>6, <1>8 DEF RowsMatch, ExpiresIs, FirstTimelock
<1>10. OneAtATime' /\ TxUnlocks'
  <2>1. locked' \cap spent' = {}
      BY <1>1, <1>3 DEF TxUnlocks
  <2> QED
      BY <1>1, <1>3, <2>1 DEF OneAtATime, Active, TxUnlocks, NoTx
<1>11. \A c \in Call : InStep(c)'
    BY <1>1, <1>3 DEF InStep, Active
<1> QED
    BY <1>9, <1>10, <1>11 DEF Serial

\* Nothing the invariant looks at has changed.
LEMMA WaitIsSerial ==
    ASSUME Serial, UNCHANGED <<locked, spent, lockedBal, timelockExpires, call>>,
           tx' \in {tx, NoTx}
    PROVE  Serial'
<1>1. OneAtATime'
    BY DEF Serial, OneAtATime, Active
<1>2. TxUnlocks'
    BY DEF Serial, TxUnlocks, NoTx, LockedUnspent
<1>3. LockedUnspent' = LockedUnspent
    BY DEF LockedUnspent
<1>4. ASSUME NEW c \in Call, OnPlan(c) PROVE OnPlan(c)'
  <2>1. Pending(c)' = Pending(c) /\ call'[c] = call[c]
      BY DEF Pending
  <2>2. ASSUME NEW r \in Row
        PROVE  /\ LockedIs(r, IF <<"amounts", r>> \in Pending(c) THEN call[c].found ELSE {})'
               /\ (<<"expires", r>> \notin Pending(c) => ExpiresIs(r))'
    <3>1. /\ LockedIs(r, IF <<"amounts", r>> \in Pending(c) THEN call[c].found ELSE {})
          /\ <<"expires", r>> \notin Pending(c) => ExpiresIs(r)
        BY <1>4 DEF OnPlan
    <3>2. ExpiresIs(r)' <=> ExpiresIs(r)
        BY <1>3 DEF ExpiresIs
    <3>3. CASE <<"amounts", r>> \in Pending(c)
        BY <1>3, <2>1, <3>1, <3>2, <3>3 DEF LockedIs
    <3>4. CASE <<"amounts", r>> \notin Pending(c)
        BY <1>3, <2>1, <3>1, <3>2, <3>4 DEF LockedIs
    <3> QED
        BY <3>3, <3>4
  <2> QED
      BY <1>3, <1>4, <2>1, <2>2 DEF OnPlan
<1>5. \A c \in Call : InStep(c) => InStep(c)'
    BY <1>3, <1>4 DEF InStep, WalletUnlockedUtxos
<1>6. RowsMatch => RowsMatch'
    BY <1>3 DEF RowsMatch, LockedIs, ExpiresIs
<1> QED
    BY <1>1, <1>2, <1>5, <1>6 DEF Serial

LEMMA InitSerialInv == Init => SerialInv
<1> SUFFICES ASSUME Init PROVE SerialInv
    OBVIOUS
<1>1. \A c \in Call : call[c] = IdleCall
    BY DEF Init
<1>2. TimelocksPassed
    BY <1>1 DEF Init, TimelocksPassed, NoTx, IdleCall
<1>3. OneAtATime /\ TxUnlocks /\ \A c \in Call : InStep(c)
    BY <1>1 DEF Init, OneAtATime, Active, TxUnlocks, InStep, NoTx, IdleCall
<1>4. LockedUnspent = Output
    BY DEF Init, LockedUnspent
<1>5. ASSUME NEW r \in Row PROVE LockedIs(r, {}) /\ ExpiresIs(r)
  <2>1. LockedUnspent \cup {} = Output
      BY <1>4
  <2> QED
      BY <1>4, <2>1 DEF Init, LockedIs, ExpiresIs
<1> QED
    BY <1>2, <1>3, <1>5 DEF SerialInv, Serial, RowsMatch

LEMMA NextSerialInv == LockInv /\ TypeOK /\ SerialInv /\ [Next]_vars => SerialInv'
<1> SUFFICES ASSUME LockInv, TypeOK, SerialInv, [Next]_vars PROVE SerialInv'
    OBVIOUS
<1>1. TimelocksPassed'
    BY NextTimelocksPassed DEF SerialInv
<1>2. overlap' = overlap
    BY DEF Next, AskBalances, FindUtxos, MarkUnlocked, UpdateAmounts, UpdateIsAnError,
       UpdateTimelock, ReadBalances, BlockReads, SpendReads, Commit, RollBack, Tick, vars
<1>3. ASSUME ~overlap PROVE Serial'
  <2>1. Serial
      BY <1>3 DEF SerialInv
  <2>2. ASSUME NEW c \in Call,
               \/ AskBalances(c) \/ FindUtxos(c) \/ MarkUnlocked(c) \/ UpdateAmounts(c)
               \/ UpdateIsAnError(c) \/ UpdateTimelock(c) \/ ReadBalances(c)
        PROVE  Serial'
      BY <1>3, <2>1, <2>2, AskIsSerial, FindIsSerial, MarkIsSerial, AmountsIsSerial,
         NoErrorIsSerial, TimelockIsSerial, ReadIsSerial
  <2>3. CASE BlockReads \/ (\E o \in Output : SpendReads(o))
      BY <1>3, <2>1, <2>3, TxReadsSerial
  <2>4. CASE Commit
      BY <2>1, <2>4, CommitIsSerial
  <2>5. CASE RollBack \/ Tick \/ UNCHANGED vars
    <3>1. UNCHANGED <<locked, spent, lockedBal, timelockExpires, call>> /\ tx' \in {tx, NoTx}
        BY <2>5 DEF RollBack, Tick, vars, rowVars
    <3> QED
        BY <2>1, <3>1, WaitIsSerial
  <2> QED
      BY <2>2, <2>3, <2>4, <2>5 DEF Next
<1> QED
    BY <1>1, <1>2, <1>3 DEF SerialInv

\* The invariants together: the totals, the types, and the serial executions.
BalancesInv == LockInv /\ TypeOK /\ SerialInv

LEMMA BalancesInvariant == Spec => []BalancesInv
<1>1. Init => BalancesInv
    BY InitLockInv, InitTypes, InitSerialInv DEF BalancesInv
<1>2. BalancesInv /\ [Next]_vars => BalancesInv'
    BY NextKeepsLockInv, NextTypes, NextSerialInv DEF BalancesInv
<1> QED
    BY <1>1, <1>2, PTL DEF Spec

\* Executions one after another, however many: whenever nothing runs, the locked
\* balance of every row is the value of its outputs still flagged locked, and its
\* timelock_expires the next timelock to end.
THEOREM RowsMatchAtRest == Spec => []RowsMatchOutputs
<1>1. BalancesInv => RowsMatchOutputs
  <2> SUFFICES ASSUME BalancesInv, ~overlap, AtRest, NEW r \in Row
               PROVE  /\ lockedBal[r] = ValueOf[Of(LockedUnspent, r)]
                      /\ timelockExpires[r] = Least({Timelock[o] : o \in Of(LockedUnspent, r)})
      BY DEF RowsMatchOutputs
  <2>1. RowsMatch
      BY RestIsIdle DEF BalancesInv, SerialInv
  <2>2. LockedUnspent \cup {} = LockedUnspent
      OBVIOUS
  <2> QED
      BY <2>1, <2>2 DEF RowsMatch, LockedIs, ExpiresIs
<1> QED
    BY <1>1, BalancesInvariant, PTL

\* What an execution answers is the unlocked part of the unspent outputs, and
\* what it leaves out had not passed its timelock when it began.
LEMMA AnswerIsUnlocked ==
    ASSUME BalancesInv, ~overlap, [Next]_vars, NEW c \in Call, Answers(c)
    PROVE  /\ call'[c].answer = ValueOf[Unspent \ LockedUnspent]
           /\ call'[c].now \in Nat
           /\ \A o \in LockedUnspent : Timelock[o] > call'[c].now
<1>1. LockInv /\ TypeOK /\ TimelocksPassed /\ Serial
    BY DEF BalancesInv, SerialInv
<1>2. call[c].at # "answered" /\ call'[c].at = "answered"
    BY DEF Answers
<1>3. (AskBalances(c) /\ ~Expired(Wallet)) \/ ReadBalances(c)
  <2>1. ASSUME NEW d \in Call, d # c, OthersWait(d) PROVE FALSE
      BY <1>2, <2>1 DEF OthersWait
  <2>2. ASSUME NEW d \in Call,
               \/ AskBalances(d) \/ FindUtxos(d) \/ MarkUnlocked(d) \/ UpdateAmounts(d)
               \/ UpdateIsAnError(d) \/ UpdateTimelock(d) \/ ReadBalances(d)
        PROVE  d = c
    <3>1. OthersWait(d)
        BY <1>1, <2>2, CallSteps
    <3> QED
        BY <2>1, <3>1
  <2>3. FindUtxos(c) \/ MarkUnlocked(c) \/ UpdateAmounts(c) \/ UpdateIsAnError(c)
           \/ UpdateTimelock(c) => FALSE
    <3>1. FindUtxos(c) => Found(c)
        BY <1>1, CallSteps
    <3>2. MarkUnlocked(c) => Marked(c)
        BY <1>1, CallSteps
    <3>3. UpdateAmounts(c) \/ UpdateTimelock(c) => Updated(c)
        BY <1>1, CallSteps
    <3>4. UpdateIsAnError(c) => FailedCall(c)
        BY <1>1, CallSteps
    <3> QED
        BY <1>2, <3>1, <3>2, <3>3, <3>4 DEF Found, Marked, Updated, FailedCall
  <2>4. AskBalances(c) => ~Expired(Wallet)
    <3>1. AskBalances(c) => Asked(c)
        BY <1>1, CallSteps
    <3> QED
        BY <1>2, <3>1 DEF Asked
  <2>5. call' # call
      BY <1>2
  <2> QED
      BY <2>2, <2>3, <2>4, <2>5 DEF Next, BlockReads, SpendReads, Commit, RollBack, Tick, vars
<1>4. \A o \in LockedUnspent : o \in Output /\ Timelock[o] \in Nat
    BY <1>1 DEF LockInv, LockedUnspent
<1>5. /\ call'[c].answer = unlockedBal[Wallet] /\ call'[c].now \in Nat
      /\ lockedBal[Wallet] = ValueOf[Of(LockedUnspent, Wallet)]
      /\ \A o \in LockedUnspent : Timelock[o] > call'[c].now
  <2>0. Wallet \in Row /\ LockedUnspent \cup {} = LockedUnspent
      BY DEF Row
  <2>1. CASE AskBalances(c) /\ ~Expired(Wallet)
    <3>1. Asked(c) /\ now \in Nat
        BY <1>1, <2>1, CallSteps DEF TypeOK
    <3>2. RowsMatch
        BY <1>1, <2>1, RestIsIdle DEF AskBalances, MayStart
    <3>3. lockedBal[Wallet] = ValueOf[Of(LockedUnspent, Wallet)]
        BY <2>0, <3>2 DEF RowsMatch, LockedIs
    <3>4. timelockExpires[Wallet] = FirstTimelock(LockedUnspent, Wallet)
        BY <2>0, <3>2 DEF RowsMatch, ExpiresIs, FirstTimelock
    <3>5. Of(LockedUnspent, Wallet) = LockedUnspent /\ LockedUnspent \subseteq Output
        BY <1>4 DEF Of
    <3>6. /\ timelockExpires[Wallet] \in Nat
          /\ timelockExpires[Wallet] = Null <=> LockedUnspent = {}
          /\ \A o \in LockedUnspent : timelockExpires[Wallet] <= Timelock[o]
      <4> DEFINE first == Least({Timelock[o] : o \in LockedUnspent})
      <4>1. /\ first \in Nat /\ (first = Null <=> LockedUnspent = {})
            /\ \A o \in LockedUnspent : first <= Timelock[o]
          BY <3>5, LeastTimelock
      <4>2. timelockExpires[Wallet] = first
          BY <3>4, <3>5 DEF FirstTimelock
      <4> HIDE DEF first
      <4> QED
          BY <4>1, <4>2
    <3>7. \A o \in LockedUnspent : Timelock[o] > now
        BY <1>4, <2>1, <3>1, <3>6 DEF Expired
    <3> QED
        BY <2>1, <3>1, <3>3, <3>7 DEF Asked
  <2>2. CASE ReadBalances(c)
    <3>1. call[c].at = "update" /\ call[c].todo = <<>>
        BY <2>2 DEF ReadBalances
    <3>2. Answered(c) /\ OnPlan(c) /\ call[c].now \in 0 .. MaxTime
        BY <1>1, <2>2, <3>1, CallSteps DEF Serial, InStep, TypeOK
    <3>3. Pending(c) = {}
        BY <3>1 DEF Pending
    <3>4. lockedBal[Wallet] = ValueOf[Of(LockedUnspent, Wallet)]
        BY <2>0, <3>2, <3>3 DEF OnPlan, LockedIs
    <3> QED
        BY <3>2, <3>4 DEF Answered, OnPlan
  <2> QED
      BY <1>3, <2>1, <2>2
<1>6. call'[c].answer = ValueOf[Unspent \ LockedUnspent]
  <2>1. Of(Unspent, Wallet) = Unspent /\ Of(LockedUnspent, Wallet) = LockedUnspent
      BY DEF Of
  <2>2. unlockedBal[Wallet] + lockedBal[Wallet] = ValueOf[Unspent] /\ unlockedBal[Wallet] \in Nat
      BY <1>1, <2>1 DEF LockInv, TotalIsKept, AmountsTyped, Row
  <2>3. LockedUnspent \subseteq Unspent /\ Unspent \subseteq Output
      BY <1>4 DEF LockedUnspent, Unspent
  <2>4. /\ ValueOf[LockedUnspent] \in Nat /\ ValueOf[Unspent] \in Nat
        /\ ValueOf[Unspent \ LockedUnspent] = ValueOf[Unspent] - ValueOf[LockedUnspent]
      BY <2>3, ValueOfPart
  <2> QED
      BY <1>5, <2>1, <2>2, <2>4
<1> QED
    BY <1>5, <1>6

\* GET /balances: "if any timelock has expired, database tables will be
\* refreshed".  For any number of executions, one after another, the answer counts
\* every unspent output whose timelock had ended when the call began.
THEOREM AnswersAreRefreshed == Spec => AnswerIsRefreshed
<1>1. BalancesInv /\ [Next]_vars
        => [~overlap => \A c \in Call : Answers(c) => CountsSpendable(c)]_vars
  <2> SUFFICES ASSUME BalancesInv, [Next]_vars, ~overlap, NEW c \in Call, Answers(c)
               PROVE  CountsSpendable(c)
      OBVIOUS
  <2> DEFINE t == call'[c].now
  <2>1. /\ call'[c].answer = ValueOf[Unspent \ LockedUnspent] /\ t \in Nat
        /\ \A o \in LockedUnspent : Timelock[o] > t
      BY AnswerIsUnlocked
  <2>2. \A o \in Output : Timelock[o] \in Nat
      OBVIOUS
  <2>3. /\ Spendable(t) \subseteq Unspent \ LockedUnspent
        /\ Unspent \ LockedUnspent \subseteq Output
      BY <2>1, <2>2 DEF Spendable, Unspent
  <2> HIDE DEF t
  <2>4. /\ ValueOf[Spendable(t)] \in Nat /\ ValueOf[Unspent \ LockedUnspent] \in Nat
        /\ ValueOf[Spendable(t)] <= ValueOf[Unspent \ LockedUnspent]
      BY <2>3, ValueOfPart
  <2> QED
      BY <2>1, <2>4 DEF CountsSpendable, t
<1> QED
    BY <1>1, BalancesInvariant, PTL DEF Spec, AnswerIsRefreshed

\* An amount whose timelock has not ended is never answered as unlocked, for any
\* number of executions one after another.
THEOREM TimelocksCount == Spec => TimelocksAreCounted
<1>1. BalancesInv /\ [Next]_vars
        => [~overlap => \A c \in Call : Answers(c) => CountsNoTimelocked(c)]_vars
  <2> SUFFICES ASSUME BalancesInv, [Next]_vars, ~overlap, NEW c \in Call, Answers(c)
               PROVE  CountsNoTimelocked(c)
      OBVIOUS
  <2>1. call'[c].answer = ValueOf[Unspent \ LockedUnspent]
      BY AnswerIsUnlocked
  <2>2. /\ Unspent \ LockedUnspent \subseteq Spendable(now) /\ Spendable(now) \subseteq Output
    <3>1. \A o \in Output \ locked : Timelock[o] <= now
        BY DEF BalancesInv, SerialInv, TimelocksPassed
    <3> QED
        BY <3>1 DEF Spendable, Unspent, LockedUnspent
  <2>3. /\ ValueOf[Spendable(now)] \in Nat /\ ValueOf[Unspent \ LockedUnspent] \in Nat
        /\ ValueOf[Unspent \ LockedUnspent] <= ValueOf[Spendable(now)]
      BY <2>2, ValueOfPart
  <2> QED
      BY <2>1, <2>3 DEF CountsNoTimelocked
<1> QED
    BY <1>1, BalancesInvariant, PTL DEF Spec, TimelocksAreCounted
=============================================================================
