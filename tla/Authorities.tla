---------------------------- MODULE Authorities -----------------------------
(***************************************************************************)
(* The authority columns of address_balance and wallet_balance for one     *)
(* token.  Amounts are added and subtracted; authorities are had or not,   *)
(* so a transaction's effect is an array of -1, 0 and 1 (src/types.ts:     *)
(* Authorities), merged with a saturating sum that is not associative,     *)
(* written as an unsigned integer and ORed into the column, which is then  *)
(* recomputed when the array has a negative entry (src/db/index.ts).       *)
(***************************************************************************)
EXTENDS Integers, FiniteSets, SequencesExt

CONSTANTS
    Tx, Output, Address,
    Mine,          \* the addresses of the wallet
    TxOf,          \* the transaction an output belongs to
    Inputs,        \* the outputs a transaction spends
    AddressOf,
    AuthorityOf,   \* AuthorityOf[o]: the authorities output o carries, none for an amount
    Timelocked,    \* outputs with a timelock
    Voidable       \* transactions the full node may void

Bit == {"mint", "melt"}

ASSUME AuthorityAssumption ==
    /\ IsFiniteSet(Output)
    /\ Mine \subseteq Address
    /\ TxOf \in [Output -> Tx]
    /\ Inputs \in [Tx -> SUBSET Output]
    /\ \A t \in Tx : \A o \in Inputs[t] : TxOf[o] # t
    /\ AddressOf \in [Output -> Address]
    /\ AuthorityOf \in [Output -> SUBSET Bit]
    /\ Timelocked \subseteq Output
    /\ Voidable \subseteq Tx

VARIABLES
    added,       \* the valid transactions; the rows of the others are voided
    spent,       \* the rows of tx_output with a spent_by
    locked,      \* tx_output.locked
    unlockedAuth, lockedAuth,     \* address_balance
    started,                      \* the wallet is loaded
    wUnlockedAuth, wLockedAuth    \* wallet_balance

addressVars == <<unlockedAuth, lockedAuth>>
walletVars == <<wUnlockedAuth, wLockedAuth>>
vars == <<added, spent, locked, addressVars, started, walletVars>>

-----------------------------------------------------------------------------
(* Authorities: arrays of -1, 0, 1, one entry per authority *)

Sign(n) == IF n > 0 THEN 1 ELSE IF n < 0 THEN -1 ELSE 0

MergeAuthorities(x, y) == [b \in Bit |-> Sign(x[b] + y[b])]
None == [b \in Bit |-> 0]
\* Mutant: a spent authority never has the column recomputed.
neverNegative(x) == FALSE
hasNegativeValue(x) == \E b \in Bit : x[b] < 0

\* "mint" is the low bit; entries of both signs cancel within the integer.
toInteger(x) == x["mint"] + 2 * x["melt"]
Magnitude(n) == IF n < 0 THEN -n ELSE n
BitsOf(n) == {b \in Bit : (IF b = "mint" THEN n % 2 ELSE (n \div 2) % 2) = 1}
toUnsignedInteger(x) == BitsOf(Magnitude(toInteger(x)))

-----------------------------------------------------------------------------
(* tx_output *)

OutputsOf(t) == {o \in Output : TxOf[o] = t}
Unspent == {o \in Output : TxOf[o] \in added /\ o \notin spent}

\* BIT_OR(authorities) of the outputs of S at an address.
BitOr(S, a) == UNION {AuthorityOf[o] : o \in {x \in S : AddressOf[x] = a}}
BitOrAll(f) == UNION {f[a] : a \in Mine}

TypeOK ==
    /\ added \subseteq Tx
    /\ spent \subseteq Output
    /\ locked \subseteq Output
    /\ unlockedAuth \in [Address -> SUBSET Bit]
    /\ lockedAuth \in [Address -> SUBSET Bit]
    /\ started \in BOOLEAN
    /\ wUnlockedAuth \subseteq Bit
    /\ wLockedAuth \subseteq Bit

Init ==
    /\ added = {}
    /\ spent = {}
    /\ locked = {}
    /\ unlockedAuth = [a \in Address |-> {}]
    /\ lockedAuth = [a \in Address |-> {}]
    /\ started \in BOOLEAN
    /\ wUnlockedAuth = {}
    /\ wLockedAuth = {}

-----------------------------------------------------------------------------
(* getAddressBalanceMap: the inputs are merged first, as -1, then the outputs *)

Times(S, a, b) == Cardinality({o \in S : AddressOf[o] = a /\ b \in AuthorityOf[o]})

AddressBalance(t, new, a) ==
    [b \in Bit |->
        LET paid == IF Times(Inputs[t], a, b) > 0 THEN -1 ELSE 0
            sum == paid + Times(new, a, b)
        IN IF sum > 1 THEN 1 ELSE sum]

TouchedBy(t) == {AddressOf[o] : o \in Inputs[t] \cup OutputsOf(t)}

\* getWalletBalanceMap merges the addresses of the wallet one after the other.
WalletBalance(balance, order) ==
    FoldLeft(LAMBDA x, a : MergeAuthorities(x, balance[a]), None, order)

-----------------------------------------------------------------------------
(* unlockUtxos: the unlocked column gains, the locked one is recomputed *)

UnlockedBy(S) == [a \in Address |-> unlockedAuth[a] \cup BitOr(S, a)]
LockedAfter(S) ==
    [a \in Address |-> IF BitOr(S, a) = {} THEN lockedAuth[a]
                       ELSE BitOr((locked \ S) \cap Unspent, a)]
BitsOfMine(S) == UNION {BitOr(S, a) : a \in Mine}
\* Mutant: updateWalletLockedBalance is not called.
WUnlockedByNothing(S) == wUnlockedAuth
WUnlockedBy(S) == IF started THEN wUnlockedAuth \cup BitsOfMine(S) ELSE wUnlockedAuth
WLockedAfter(S) ==
    IF ~started \/ BitsOfMine(S) = {} THEN wLockedAuth ELSE BitOrAll(LockedAfter(S))

\* getExpiredTimelocksUtxos with a block, getWalletUnlockedUtxos with a call of
\* the balances API: of voided rows, only the first one asks for them too.
Unlock(S) ==
    /\ S # {}
    /\ S \subseteq locked
    /\ locked' = locked \ S
    /\ unlockedAuth' = UnlockedBy(S)
    /\ lockedAuth' = LockedAfter(S)
    /\ wUnlockedAuth' = WUnlockedBy(S)
    /\ wLockedAuth' = WLockedAfter(S)
    /\ UNCHANGED <<added, spent, started>>

-----------------------------------------------------------------------------
(* addNewTx *)

UpdateAddressTables(t, S, newLocked, balance) ==
    /\ unlockedAuth' = [a \in Address |->
          IF hasNegativeValue(balance[a]) THEN BitOr(Unspent' \ locked', a)
          ELSE UnlockedBy(S)[a] \cup toUnsignedInteger(balance[a])]
    /\ lockedAuth' = [a \in Address |-> LockedAfter(S)[a] \cup BitOr(newLocked, a)]

UpdateWalletTables(S, newLocked, sum) ==
    /\ wUnlockedAuth' =
          IF ~started THEN wUnlockedAuth
          ELSE IF hasNegativeValue(sum) THEN BitOrAll(unlockedAuth')
          ELSE WUnlockedBy(S) \cup toUnsignedInteger(sum)
    /\ wLockedAuth' =
          IF ~started THEN wLockedAuth ELSE WLockedAfter(S) \cup BitsOfMine(newLocked)

\* What the full node lets a transaction spend.
Spendable == {o \in Output : TxOf[o] \in added /\ \A t \in added : o \notin Inputs[t]}

\* Inputs still marked locked are unlocked first; the voided rows of the
\* transaction are deleted before it is written again.
AddNewTx(t, newLocked) ==
    /\ t \notin added
    /\ Inputs[t] \subseteq Spendable
    /\ newLocked \subseteq OutputsOf(t) \cap Timelocked
    /\ added' = added \cup {t}
    /\ spent' = (spent \ OutputsOf(t)) \cup Inputs[t]
    /\ locked' = (locked \ (Inputs[t] \cup OutputsOf(t))) \cup newLocked
    /\ LET S == Inputs[t] \cap locked
           balance == [a \in Address |-> AddressBalance(t, OutputsOf(t) \ newLocked, a)]
       IN  /\ UpdateAddressTables(t, S, newLocked, balance)
           /\ \E order \in SetToSeqs(TouchedBy(t) \cap Mine) :
                 UpdateWalletTables(S, newLocked, WalletBalance(balance, order))
    /\ UNCHANGED started

-----------------------------------------------------------------------------

(* handleVoided *)

\* handleVoidedTxList looks for what a transaction spent by the tx_ids of its
\* rows: one without rows gives nothing back, and no address is affected.
SpentOutputs(t) == IF OutputsOf(t) = {} THEN {} ELSE Inputs[t]
AffectedAddresses(t) == {AddressOf[o] : o \in OutputsOf(t) \cup SpentOutputs(t)}

\* rebuildAddressBalancesFromUtxos: both columns from tx_output; wallet_balance
\* is left alone.
RebuildAddressBalances(A) ==
    /\ unlockedAuth' = [a \in Address |-> IF a \in A THEN BitOr(Unspent' \ locked, a)
                                          ELSE unlockedAuth[a]]
    /\ lockedAuth' = [a \in Address |-> IF a \in A THEN BitOr(Unspent' \cap locked, a)
                                        ELSE lockedAuth[a]]

\* A transaction that nothing valid spends from: its spenders go first (module
\* Ledger has them voided together).
VoidTx(t) ==
    /\ t \in added \cap Voidable
    /\ OutputsOf(t) \subseteq Spendable
    /\ added' = added \ {t}
    /\ spent' = spent \ SpentOutputs(t)
    /\ RebuildAddressBalances(AffectedAddresses(t))
    /\ UNCHANGED <<locked, started, walletVars>>

\* initWalletBalance: an INSERT that names no authority column.
InitWalletBalance ==
    /\ ~started
    /\ started' = TRUE
    /\ wUnlockedAuth' = {}
    /\ wLockedAuth' = {}
    /\ UNCHANGED <<added, spent, locked, addressVars>>

Next ==
    \/ \E t \in Tx : \/ \E newLocked \in SUBSET (OutputsOf(t) \cap Timelocked) :
                           AddNewTx(t, newLocked)
                     \/ VoidTx(t)
    \/ \E S \in SUBSET locked : Unlock(S)
    \/ InitWalletBalance

Spec == Init /\ [][Next]_vars

-----------------------------------------------------------------------------
(* Properties *)

\* The authority columns of an address are "always up to date with the
\* authorities in every UTXO for this address" (DATABASE.md), in the unlocked
\* and in the locked column, however inputs, outputs, locks and voids combine.  A
\* UTXO is an output that no valid transaction spends, whatever its row says.
AuthoritiesAreUnspent ==
    \A a \in Address :
        /\ unlockedAuth[a] = BitOr(Spendable \ locked, a)
        /\ lockedAuth[a] = BitOr(Spendable \cap locked, a)

\* updateWalletTablesWithTx and updateWalletLockedBalance keep a wallet row that
\* has the authorities of its addresses so, in whatever order their arrays merge.
WalletAgrees == wUnlockedAuth = BitOrAll(unlockedAuth) /\ wLockedAuth = BitOrAll(lockedAuth)
WalletFollowsAuthorities ==
    [][started /\ WalletAgrees /\ (added \subseteq added') => WalletAgrees']_vars
=============================================================================
