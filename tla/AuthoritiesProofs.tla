------------------------- MODULE AuthoritiesProofs -------------------------
(***************************************************************************)
(* The authority columns of an address are the OR of its unspent authority *)
(* outputs, for every history of mints, melts, delegations and unlocks, as *)
(* long as what is voided has outputs and none with a timelock: a void     *)
(* keeps the locked flag of its outputs and they are unlocked again later  *)
(* (Authorities_voided.cfg), and without outputs it gives nothing back.    *)
(* Then the row of a wallet follows the columns of its addresses too, in   *)
(* whatever order their arrays are merged.                                 *)
(***************************************************************************)
EXTENDS Authorities, FiniteSums

NoTimelockIsVoided == \A t \in Voidable : OutputsOf(t) \cap Timelocked = {}
VoidsHaveOutputs == \A t \in Voidable : OutputsOf(t) # {}

\* The column spent_by tells what can be spent; what is locked is such an output;
\* what is valid spends what is valid, and nothing else does.
AuthorityInv ==
    /\ TypeOK
    /\ Unspent = Spendable
    /\ locked \subseteq Timelocked \cap Unspent
    /\ \A t \in added : \A o \in Inputs[t] : TxOf[o] \in added
    /\ \A t, u \in added : t # u => Inputs[t] \cap Inputs[u] = {}
    /\ AuthoritiesAreUnspent

-----------------------------------------------------------------------------
(* The operators the columns are built from *)

LEMMA TimesIsPositive ==
    ASSUME NEW S \in SUBSET Output, NEW a \in Address, NEW b \in Bit
    PROVE  /\ Times(S, a, b) \in Nat
           /\ Times(S, a, b) > 0 <=> b \in BitOr(S, a)
<1> DEFINE T == {o \in S : AddressOf[o] = a /\ b \in AuthorityOf[o]}
<1>1. IsFiniteSet(T)
  BY FS_Subset, AuthorityAssumption
<1>2. Cardinality(T) \in Nat /\ (Cardinality(T) = 0 <=> T = {})
  BY <1>1, FS_CardinalityType, FS_EmptySet
<1>3. T # {} <=> b \in BitOr(S, a)
  BY DEF BitOr
<1> QED
  BY <1>2, <1>3 DEF Times

\* An array without a negative entry is written as the mask of its ones.
LEMMA MaskOfOnes ==
    ASSUME NEW x \in [Bit -> {0, 1}]
    PROVE  toUnsignedInteger(x) = {b \in Bit : x[b] = 1}
<1>1. x["mint"] \in {0, 1} /\ x["melt"] \in {0, 1}
  BY DEF Bit
<1>2. toInteger(x) \in 0 .. 3 /\ Magnitude(toInteger(x)) = toInteger(x)
  BY <1>1 DEF toInteger, Magnitude
<1>3. toInteger(x) % 2 = x["mint"] /\ (toInteger(x) \div 2) % 2 = x["melt"]
  BY <1>1, SMT DEF toInteger
<1>4. \A b \in Bit : (IF b = "mint" THEN toInteger(x) % 2 ELSE (toInteger(x) \div 2) % 2) = x[b]
  BY <1>3 DEF Bit
<1> QED
  BY <1>2, <1>4 DEF toUnsignedInteger, BitsOf

\* What getAddressBalanceMap makes of an address when no entry is negative: an
\* authority that is spent comes back in a new output, and the mask holds the
\* new ones that replace nothing.
LEMMA BalanceWithoutNegative ==
    ASSUME NEW t \in Tx, NEW new \in SUBSET Output, NEW a \in Address,
           ~hasNegativeValue(AddressBalance(t, new, a))
    PROVE  /\ BitOr(Inputs[t], a) \subseteq BitOr(new, a)
           /\ BitOr(new, a) \ BitOr(Inputs[t], a)
                 \subseteq toUnsignedInteger(AddressBalance(t, new, a))
           /\ toUnsignedInteger(AddressBalance(t, new, a)) \subseteq BitOr(new, a)
<1> DEFINE x == AddressBalance(t, new, a)
<1>1. Inputs[t] \in SUBSET Output /\ BitOr(new, a) \subseteq Bit
      /\ BitOr(Inputs[t], a) \subseteq Bit
  BY AuthorityAssumption DEF BitOr
<1>2. \A b \in Bit :
         /\ x[b] \in {0, 1}
         /\ b \in BitOr(Inputs[t], a) => b \in BitOr(new, a)
         /\ b \in BitOr(new, a) /\ b \notin BitOr(Inputs[t], a) => x[b] = 1
         /\ x[b] = 1 => b \in BitOr(new, a)
  <2> TAKE b \in Bit
  <2>1. x[b] = LET paid == IF Times(Inputs[t], a, b) > 0 THEN -1 ELSE 0
                   sum == paid + Times(new, a, b)
               IN IF sum > 1 THEN 1 ELSE sum
    BY DEF AddressBalance
  <2>2. ~(x[b] < 0)
    BY DEF hasNegativeValue
  <2> HIDE DEF x
  <2>3. /\ Times(Inputs[t], a, b) \in Nat /\ Times(new, a, b) \in Nat
        /\ Times(Inputs[t], a, b) > 0 <=> b \in BitOr(Inputs[t], a)
        /\ Times(new, a, b) > 0 <=> b \in BitOr(new, a)
    BY <1>1, TimesIsPositive
  <2> QED
    BY <2>1, <2>2, <2>3
<1>3. x \in [Bit -> {0, 1}]
  <2>1. x = [b \in Bit |-> x[b]]
    BY DEF AddressBalance
  <2> QED
    BY <1>2, <2>1
<1> HIDE DEF x
<1>4. toUnsignedInteger(x) = {b \in Bit : x[b] = 1}
  BY <1>3, MaskOfOnes
<1> QED
  BY <1>1, <1>2, <1>4 DEF x

LEMMA BitOrIsBits ==
    ASSUME NEW S \in SUBSET Output, NEW a
    PROVE  BitOr(S, a) \subseteq Bit
BY AuthorityAssumption DEF BitOr

-----------------------------------------------------------------------------
(* getWalletBalanceMap: one array after the other, whatever the order *)

Arrays == [Bit -> {-1, 0, 1}]

\* The table FoldLeft makes of the arrays of the addresses in order.
MergeStep(balance, order, h, s) ==
    IF s = {} THEN None
    ELSE MergeAuthorities(h[s \ {Max(s)}], balance[order[Max(s)]])
MergeTable(balance, order) ==
    CHOOSE h : h = [s \in SUBSET (DOMAIN order) |-> MergeStep(balance, order, h, s)]

LEMMA WalletBalanceIsTable ==
    ASSUME NEW balance, NEW order
    PROVE  WalletBalance(balance, order) = MergeTable(balance, order)[DOMAIN order]
BY DEF WalletBalance, FoldLeft, MapThenFoldSet, MergeTable, MergeStep

\* The sum is not associative, but a 1 comes from a 1 and a -1 from a -1, and
\* entries of one sign do not cancel.
SignOfEntries(e, v, s) ==
    /\ v = 1 => \E x \in s : e[x] = 1
    /\ v = -1 => \E x \in s : e[x] = -1
    /\ (\E x \in s : e[x] = 1) /\ (\A x \in s : e[x] # -1) => v = 1
    /\ (\E x \in s : e[x] = -1) /\ (\A x \in s : e[x] # 1) => v = -1

\* Init and step of the induction over the entries that are merged.
LEMMA SignOfNone == ASSUME NEW e PROVE SignOfEntries(e, 0, {})
BY DEF SignOfEntries

LEMMA SignOfOneMore ==
    ASSUME NEW e, NEW s, NEW x \in s, e[x] \in {-1, 0, 1},
           NEW v \in {-1, 0, 1}, SignOfEntries(e, v, s \ {x})
    PROVE  SignOfEntries(e, Sign(v + e[x]), s)
<1> DEFINE w == Sign(v + e[x])
<1>1. /\ w = 1 => v = 1 \/ e[x] = 1
      /\ w = -1 => v = -1 \/ e[x] = -1
      /\ v = 1 /\ e[x] # -1 => w = 1
      /\ v # -1 /\ e[x] = 1 => w = 1
      /\ v = -1 /\ e[x] # 1 => w = -1
      /\ v # 1 /\ e[x] = -1 => w = -1
    BY DEF Sign
<1> HIDE DEF w
<1>2. w = 1 => \E y \in s : e[y] = 1
    BY <1>1 DEF SignOfEntries
<1>3. w = -1 => \E y \in s : e[y] = -1
    BY <1>1 DEF SignOfEntries
<1>4. (\E y \in s : e[y] = 1) /\ (\A y \in s : e[y] # -1) => w = 1
    BY <1>1 DEF SignOfEntries
<1>5. (\E y \in s : e[y] = -1) /\ (\A y \in s : e[y] # 1) => w = -1
    BY <1>1 DEF SignOfEntries
<1> QED
    BY <1>2, <1>3, <1>4, <1>5 DEF SignOfEntries, w

LEMMA MaxIn ==
    ASSUME NEW U \in SUBSET Int, IsFiniteSet(U), U # {}
    PROVE  Max(U) \in U
<1> DEFINE P == {s \in SUBSET U : s # {} => \E x \in s : \A y \in s : x >= y}
<1>1. {} \in P
    OBVIOUS
<1>2. ASSUME NEW s \in SUBSET U, NEW z \in U \ s, s \in P PROVE s \cup {z} \in P
  <2>1. CASE s = {}
      BY <2>1
  <2>2. CASE s # {}
    <3>1. PICK x \in s : \A y \in s : x >= y
        BY <1>2, <2>2
    <3>2. CASE x >= z
        BY <3>1, <3>2
    <3>3. CASE ~(x >= z)
      <4>1. \A y \in s \cup {z} : z >= y
          BY <3>1, <3>3
      <4> QED
          BY <4>1
    <3> QED
        BY <3>2, <3>3
  <2> QED
      BY <2>1, <2>2
<1> HIDE DEF P
<1>3. SUBSET U \subseteq P
    BY <1>1, <1>2, InductionOnSets
<1>4. \E x \in U : \A y \in U : x >= y
    BY <1>3 DEF P
<1> QED
    BY <1>4 DEF Max

IsMergeTable(balance, order, h) ==
    h = [s \in SUBSET (DOMAIN order) |-> MergeStep(balance, order, h, s)]

\* The recursive function of FoldLeft exists.
LEMMA MergeTableExists ==
    ASSUME NEW n \in Nat, NEW balance \in [Address -> Arrays], NEW order \in [1 .. n -> Address]
    PROVE  \E h \in [SUBSET (1 .. n) -> Arrays] : IsMergeTable(balance, order, h)
<1> DEFINE U == 1 .. n
           D == Arrays
           none == None
           G == [p \in U \X D |-> MergeAuthorities(p[2], balance[order[p[1]]])]
           c == [s \in SUBSET U |-> Max(s)]
<1>1. IsFiniteSet(U) /\ U \in SUBSET Int /\ DOMAIN order = U
    BY FS_Interval
<1>2. none \in D /\ none = None
    BY DEF Arrays, None
<1>3. \A x, y \in Arrays : MergeAuthorities(x, y) \in Arrays
    BY DEF Arrays, MergeAuthorities, Sign
<1>4. /\ G \in [U \X D -> D]
      /\ \A i \in U : \A x \in D : G[<<i, x>>] = MergeAuthorities(x, balance[order[i]])
    BY <1>3
<1>5. \A s \in SUBSET U : c[s] = Max(s) /\ (s # {} => c[s] \in s)
  <2> HIDE DEF U
  <2>1. \A s \in SUBSET U : IsFiniteSet(s) /\ s \in SUBSET Int
      BY <1>1, FS_Subset
  <2> QED
      BY <2>1, MaxIn
<1> HIDE DEF U, D, none, G, c
<1>6. HasFold(U, D, none, G, c)
  <2>1. IsFoldOf(U, D, none, G, c)
      BY <1>1, <1>2, <1>4, <1>5 DEF IsFoldOf
  <2> QED
      BY <2>1, FoldExists
<1>7. PICK h \in [SUBSET U -> D] : \A s \in SUBSET U : h[s] = FoldStep(none, G, c, h, s)
    BY <1>6 DEF HasFold
<1>8. ASSUME NEW s \in SUBSET U PROVE h[s] = MergeStep(balance, order, h, s)
  <2>1. CASE s = {}
      BY <1>2, <1>7, <2>1 DEF FoldStep, MergeStep
  <2>2. CASE s # {}
    <3>1. c[s] \in U /\ c[s] = Max(s) /\ s \ {c[s]} \in SUBSET U
        BY <1>5, <2>2
    <3>2. h[s] = G[<<c[s], h[s \ {c[s]}]>>] /\ h[s \ {c[s]}] \in D
        BY <1>7, <2>2, <3>1 DEF FoldStep
    <3> QED
        BY <1>4, <2>2, <3>1, <3>2 DEF MergeStep
  <2> QED
      BY <2>1, <2>2
<1>9. h = [s \in SUBSET U |-> MergeStep(balance, order, h, s)]
    BY <1>8
<1> QED
    BY <1>1, <1>7, <1>9 DEF IsMergeTable, U, D

\* The entry of an authority at the i-th address of order.
Entries(balance, order, b) == [i \in DOMAIN order |-> balance[order[i]][b]]

LEMMA SignsOfTable ==
    ASSUME NEW n \in Nat, NEW balance \in [Address -> Arrays], NEW order \in [1 .. n -> Address],
           NEW h, IsMergeTable(balance, order, h)
    PROVE  \A s \in SUBSET (1 .. n) :
              /\ h[s] \in Arrays
              /\ \A b \in Bit : SignOfEntries(Entries(balance, order, b), h[s][b], s)
<1> DEFINE U == 1 .. n
           Good(s) == /\ h[s] \in Arrays
                      /\ \A b \in Bit : SignOfEntries(Entries(balance, order, b), h[s][b], s)
           N == {k \in Nat : \A s \in SUBSET U : Cardinality(s) = k => Good(s)}
<1>0. IsFiniteSet(U) /\ U \in SUBSET Int /\ DOMAIN order = U
    BY FS_Interval
<1>1. \A s \in SUBSET U : h[s] = MergeStep(balance, order, h, s)
    BY <1>0 DEF IsMergeTable
<1>2. ASSUME NEW b \in Bit, NEW i \in U
      PROVE  /\ Entries(balance, order, b)[i] = balance[order[i]][b]
             /\ balance[order[i]][b] \in {-1, 0, 1}
  <2>1. order[i] \in Address
      OBVIOUS
  <2>2. balance[order[i]] \in Arrays
      BY <2>1
  <2> QED
      BY <1>0, <2>2 DEF Entries, Arrays
<1> HIDE DEF U
<1>3. \A s \in SUBSET U : IsFiniteSet(s) /\ Cardinality(s) \in Nat /\ s \in SUBSET Int
                          /\ (Cardinality(s) = 0 <=> s = {})
    BY <1>0, FS_Subset, FS_CardinalityType, FS_EmptySet
<1>4. 0 \in N
  <2>1. h[{}] = None
      BY <1>1 DEF MergeStep
  <2>2. Good({})
      BY <2>1, SignOfNone DEF None, Arrays
  <2> QED
      BY <1>3, <2>2
<1>5. ASSUME NEW k \in N PROVE k + 1 \in N
  <2> SUFFICES ASSUME NEW s \in SUBSET U, Cardinality(s) = k + 1 PROVE Good(s)
      BY <1>5
  <2> DEFINE m == Max(s)
             r == s \ {m}
  <2>1. s # {}
      BY <1>3, <1>5
  <2>2. m \in s
      BY <1>3, <2>1, MaxIn
  <2> HIDE DEF m
  <2>3. r \in SUBSET U /\ Cardinality(r) = k
    <3>1. Cardinality(r) = Cardinality(s) - 1
        BY <1>3, <2>2, FS_RemoveElement
    <3> QED
        BY <1>5, <3>1
  <2>4. Good(r)
      BY <1>5, <2>3
  <2>5. h[s] = MergeAuthorities(h[r], balance[order[m]])
      BY <1>1, <2>1 DEF MergeStep, m
  <2>6. h[s] = [b \in Bit |-> Sign(h[r][b] + balance[order[m]][b])]
      BY <2>5 DEF MergeAuthorities
  <2> HIDE DEF r
  <2>7. ASSUME NEW b \in Bit
        PROVE  /\ h[s][b] \in {-1, 0, 1}
               /\ SignOfEntries(Entries(balance, order, b), h[s][b], s)
    <3> DEFINE e == Entries(balance, order, b)
    <3>1. /\ e[m] = balance[order[m]][b] /\ e[m] \in {-1, 0, 1}
        BY <1>2, <2>2
    <3>2. h[r][b] \in {-1, 0, 1} /\ SignOfEntries(e, h[r][b], r)
        BY <2>4 DEF Arrays
    <3>3. h[s][b] = Sign(h[r][b] + e[m])
        BY <2>6, <3>1
    <3> HIDE DEF e
    <3>4. SignOfEntries(e, Sign(h[r][b] + e[m]), s)
        BY <2>2, <3>1, <3>2, SignOfOneMore DEF r
    <3> QED
        BY <3>3, <3>4 DEF e, Sign
  <2> QED
      BY <2>6, <2>7 DEF Arrays
<1> HIDE DEF N
<1>6. Nat \subseteq N
    BY <1>4, <1>5, InductionOnNat
<1> QED
    BY <1>3, <1>6 DEF N, U

LEMMA WalletBalanceSigns ==
    ASSUME NEW n \in Nat, NEW balance \in [Address -> Arrays], NEW order \in [1 .. n -> Address]
    PROVE  /\ WalletBalance(balance, order) \in Arrays
           /\ \A b \in Bit : SignOfEntries(Entries(balance, order, b),
                                           WalletBalance(balance, order)[b], 1 .. n)
<1> DEFINE h == MergeTable(balance, order)
<1>1. IsMergeTable(balance, order, h)
  <2>1. PICK k \in [SUBSET (1 .. n) -> Arrays] : IsMergeTable(balance, order, k)
      BY MergeTableExists
  <2>2. \E g : g = [s \in SUBSET (DOMAIN order) |-> MergeStep(balance, order, g, s)]
      BY <2>1 DEF IsMergeTable
  <2> QED
      BY <2>2 DEF IsMergeTable, MergeTable
<1>2. WalletBalance(balance, order) = h[1 .. n]
    BY WalletBalanceIsTable
<1> HIDE DEF h
<1> QED
    BY <1>1, <1>2, SignsOfTable

\* The addresses a transaction touches are finitely many, and an order of those
\* of the wallet names each of them.
LEMMA OrderNamesAll ==
    ASSUME NEW t \in Tx, NEW order \in SetToSeqs(TouchedBy(t) \cap Mine)
    PROVE  \E n \in Nat :
              /\ order \in [1 .. n -> TouchedBy(t) \cap Mine]
              /\ \A a \in TouchedBy(t) \cap Mine : \E i \in 1 .. n : order[i] = a
<1> DEFINE T == TouchedBy(t)
           M == T \cap Mine
           X == Inputs[t] \cup OutputsOf(t)
           n == Cardinality(M)
           f == [o \in X |-> AddressOf[o]]
<1>1. IsFiniteSet(X)
    BY FS_Subset, AuthorityAssumption DEF OutputsOf
<1>2. f \in Surjection(X, T)
    BY DEF Surjection, TouchedBy
<1>3. IsFiniteSet(T)
  <2> HIDE DEF T, X, f
  <2> QED
      BY <1>1, <1>2, FS_Surjection
<1>4. IsFiniteSet(M)
    BY <1>3, FS_Subset
<1>5. n \in Nat /\ IsFiniteSet(1 .. n) /\ Cardinality(1 .. n) = n
    BY <1>4, FS_CardinalityType, FS_Interval
<1>6. order \in Injection(1 .. n, M)
    BY DEF SetToSeqs, Injection, IsInjective
<1> HIDE DEF M
<1>7. order \in Surjection(1 .. n, M)
    BY <1>4, <1>5, <1>6, FS_Injection
<1> QED
    BY <1>5, <1>7 DEF Surjection, M

\* The entries of an address: -1 where only inputs carry the authority, 1 where
\* only new outputs do.
LEMMA EntriesOfAddress ==
    ASSUME NEW t \in Tx, NEW new \in SUBSET Output, NEW a \in Address
    PROVE  /\ AddressBalance(t, new, a) \in Arrays
           /\ \A b \in Bit : LET e == AddressBalance(t, new, a)[b] IN
                 /\ e = 1 => b \in BitOr(new, a)
                 /\ e = -1 => b \in BitOr(Inputs[t], a)
                 /\ b \in BitOr(new, a) \ BitOr(Inputs[t], a) => e = 1
                 /\ b \in BitOr(Inputs[t], a) \ BitOr(new, a) => e = -1
<1> DEFINE x == AddressBalance(t, new, a)
<1>1. Inputs[t] \in SUBSET Output
    BY AuthorityAssumption
<1>2. ASSUME NEW b \in Bit
      PROVE  /\ x[b] \in {-1, 0, 1}
             /\ x[b] = 1 => b \in BitOr(new, a)
             /\ x[b] = -1 => b \in BitOr(Inputs[t], a)
             /\ b \in BitOr(new, a) \ BitOr(Inputs[t], a) => x[b] = 1
             /\ b \in BitOr(Inputs[t], a) \ BitOr(new, a) => x[b] = -1
  <2>1. x[b] = LET paid == IF Times(Inputs[t], a, b) > 0 THEN -1 ELSE 0
                   sum == paid + Times(new, a, b)
               IN IF sum > 1 THEN 1 ELSE sum
      BY DEF AddressBalance
  <2> HIDE DEF x
  <2>2. /\ Times(Inputs[t], a, b) \in Nat /\ Times(new, a, b) \in Nat
        /\ Times(Inputs[t], a, b) > 0 <=> b \in BitOr(Inputs[t], a)
        /\ Times(new, a, b) > 0 <=> b \in BitOr(new, a)
      BY <1>1, TimesIsPositive
  <2> QED
      BY <2>1, <2>2
<1>3. x = [b \in Bit |-> x[b]]
    BY DEF AddressBalance
<1> HIDE DEF x
<1>4. x \in Arrays
    BY <1>2, <1>3 DEF Arrays
<1> QED
    BY <1>2, <1>4 DEF x

\* What getWalletBalanceMap makes of a transaction: an authority the wallet only
\* spends is -1, one it only receives is 1, and a 1 is one it receives.
LEMMA WalletBalanceOfTx ==
    ASSUME NEW t \in Tx, NEW new \in SUBSET OutputsOf(t),
           NEW balance, balance = [a \in Address |-> AddressBalance(t, new, a)],
           NEW order \in SetToSeqs(TouchedBy(t) \cap Mine)
    PROVE  /\ WalletBalance(balance, order) \in Arrays
           /\ \A b \in Bit : LET v == WalletBalance(balance, order)[b] IN
                 /\ v = 1 => b \in BitsOfMine(new)
                 /\ b \in BitsOfMine(new) \ BitsOfMine(Inputs[t]) => v = 1
                 /\ b \in BitsOfMine(Inputs[t]) \ BitsOfMine(new) => v = -1
<1> DEFINE v == WalletBalance(balance, order)
           M == TouchedBy(t) \cap Mine
<1>0. new \in SUBSET Output /\ M \subseteq Address /\ M \subseteq Mine
    BY AuthorityAssumption DEF OutputsOf
<1>1. \A a \in Address : balance[a] = AddressBalance(t, new, a)
    OBVIOUS
<1>2. \A a \in Address :
         /\ balance[a] \in Arrays
         /\ \A b \in Bit :
               /\ balance[a][b] = 1 => b \in BitOr(new, a)
               /\ balance[a][b] = -1 => b \in BitOr(Inputs[t], a)
               /\ b \in BitOr(new, a) \ BitOr(Inputs[t], a) => balance[a][b] = 1
               /\ b \in BitOr(Inputs[t], a) \ BitOr(new, a) => balance[a][b] = -1
    BY <1>0, <1>1, EntriesOfAddress
<1>3. balance \in [Address -> Arrays]
    BY <1>2
<1>4. \A a \in Mine : a \notin M => BitOr(new, a) = {} /\ BitOr(Inputs[t], a) = {}
    BY <1>0 DEF BitOr, TouchedBy, OutputsOf
<1>5. PICK n \in Nat : /\ order \in [1 .. n -> M]
                       /\ \A a \in M : \E i \in 1 .. n : order[i] = a
    BY OrderNamesAll
<1> HIDE DEF M
<1>6. order \in [1 .. n -> Address] /\ DOMAIN order = 1 .. n
    BY <1>0, <1>5
<1>7. v \in Arrays /\ \A b \in Bit : SignOfEntries(Entries(balance, order, b), v[b], 1 .. n)
    BY <1>3, <1>6, WalletBalanceSigns
<1> HIDE DEF v
<1>8. ASSUME NEW b \in Bit
      PROVE  /\ v[b] = 1 => b \in BitsOfMine(new)
             /\ b \in BitsOfMine(new) \ BitsOfMine(Inputs[t]) => v[b] = 1
             /\ b \in BitsOfMine(Inputs[t]) \ BitsOfMine(new) => v[b] = -1
  <2> DEFINE e == Entries(balance, order, b)
  <2>1. \A i \in 1 .. n : e[i] = balance[order[i]][b] /\ order[i] \in M
      BY <1>5, <1>6 DEF Entries
  <2> HIDE DEF e
  <2>2. /\ v[b] = 1 => \E i \in 1 .. n : e[i] = 1
        /\ (\E i \in 1 .. n : e[i] = 1) /\ (\A i \in 1 .. n : e[i] # -1) => v[b] = 1
        /\ (\E i \in 1 .. n : e[i] = -1) /\ (\A i \in 1 .. n : e[i] # 1) => v[b] = -1
      BY <1>7 DEF SignOfEntries, e
  <2>3. \A S : b \in BitsOfMine(S) <=> \E a \in Mine : b \in BitOr(S, a)
      BY DEF BitsOfMine
  <2>4. ASSUME v[b] = 1 PROVE b \in BitsOfMine(new)
    <3>1. PICK i \in 1 .. n : e[i] = 1
        BY <2>2, <2>4
    <3>2. order[i] \in Mine /\ order[i] \in Address /\ balance[order[i]][b] = 1
        BY <1>0, <2>1, <3>1
    <3> QED
        BY <1>2, <2>3, <3>2
  <2>5. ASSUME b \in BitsOfMine(new), b \notin BitsOfMine(Inputs[t]) PROVE v[b] = 1
    <3>1. PICK a \in Mine : b \in BitOr(new, a) /\ b \notin BitOr(Inputs[t], a)
        BY <2>3, <2>5
    <3>2. a \in M /\ a \in Address
        BY <1>0, <1>4, <3>1
    <3>3. PICK i \in 1 .. n : order[i] = a
        BY <1>5, <3>2
    <3>4. e[i] = 1
        BY <1>2, <2>1, <3>1, <3>2, <3>3
    <3>5. ASSUME NEW j \in 1 .. n PROVE e[j] # -1
      <4>1. order[j] \in Mine /\ order[j] \in Address
          BY <1>0, <2>1
      <4>2. b \notin BitOr(Inputs[t], order[j])
          BY <2>3, <2>5, <4>1
      <4> QED
          BY <1>2, <2>1, <4>1, <4>2
    <3> QED
        BY <2>2, <3>4, <3>5
  <2>6. ASSUME b \in BitsOfMine(Inputs[t]), b \notin BitsOfMine(new) PROVE v[b] = -1
    <3>1. PICK a \in Mine : b \in BitOr(Inputs[t], a) /\ b \notin BitOr(new, a)
        BY <2>3, <2>6
    <3>2. a \in M /\ a \in Address
        BY <1>0, <1>4, <3>1
    <3>3. PICK i \in 1 .. n : order[i] = a
        BY <1>5, <3>2
    <3>4. e[i] = -1
        BY <1>2, <2>1, <3>1, <3>2, <3>3
    <3>5. ASSUME NEW j \in 1 .. n PROVE e[j] # 1
      <4>1. order[j] \in Mine /\ order[j] \in Address
          BY <1>0, <2>1
      <4>2. b \notin BitOr(new, order[j])
          BY <2>3, <2>6, <4>1
      <4> QED
          BY <1>2, <2>1, <4>1, <4>2
    <3> QED
        BY <2>2, <3>4, <3>5
  <2> QED
      BY <2>4, <2>5, <2>6
<1> QED
    BY <1>7, <1>8 DEF v

-----------------------------------------------------------------------------
(* The actions *)

LEMMA InitHolds == Init => AuthorityInv
<1> SUFFICES ASSUME Init PROVE AuthorityInv
  OBVIOUS
<1>1. Unspent = {} /\ Spendable = {} /\ TypeOK
  BY DEF Init, Unspent, Spendable, TypeOK
<1> QED
  BY <1>1 DEF Init, AuthorityInv, AuthoritiesAreUnspent, BitOr

\* unlockUtxos moves the outputs it flags from one column to the other.
LEMMA UnlockKeeps ==
    ASSUME AuthorityInv, NEW S \in SUBSET locked, Unlock(S)
    PROVE  AuthorityInv'
<1>1. /\ S \subseteq Unspent /\ Unspent' = Unspent /\ locked' = locked \ S
      /\ Unspent = Spendable /\ Spendable' = Spendable
      /\ UNCHANGED <<added, spent, started>>
  BY DEF Unlock, AuthorityInv, Unspent, Spendable
<1>2. AuthoritiesAreUnspent'
  <2> SUFFICES ASSUME NEW a \in Address
               PROVE  /\ unlockedAuth'[a] = BitOr(Unspent' \ locked', a)
                      /\ lockedAuth'[a] = BitOr(Unspent' \cap locked', a)
    BY <1>1 DEF AuthoritiesAreUnspent
  <2>1. /\ unlockedAuth'[a] = unlockedAuth[a] \cup BitOr(S, a)
        /\ lockedAuth'[a] = IF BitOr(S, a) = {} THEN lockedAuth[a]
                            ELSE BitOr((locked \ S) \cap Unspent, a)
    BY DEF Unlock, UnlockedBy, LockedAfter
  <2>2. BitOr(Unspent' \ locked', a) = BitOr(Unspent \ locked, a) \cup BitOr(S, a)
    BY <1>1 DEF BitOr
  <2>3. ASSUME BitOr(S, a) = {}
        PROVE  BitOr(Unspent' \cap locked', a) = BitOr(Unspent \cap locked, a)
    BY <1>1, <2>3, AuthorityAssumption DEF BitOr
  <2>4. Unspent' \cap locked' = (locked \ S) \cap Unspent
    BY <1>1
  <2> QED
    BY <1>1, <2>1, <2>2, <2>3, <2>4 DEF AuthorityInv, AuthoritiesAreUnspent
<1>3. TypeOK'
  <2>1. /\ BitsOfMine(S) \subseteq Bit
        /\ \A a \in Address : BitOr(S, a) \subseteq Bit
                              /\ BitOr((locked \ S) \cap Unspent, a) \subseteq Bit
    BY <1>1, AuthorityAssumption DEF AuthorityInv, TypeOK, BitsOfMine, BitOr
  <2>2. LockedAfter(S) \in [Address -> SUBSET Bit]
    BY <2>1 DEF LockedAfter, AuthorityInv, TypeOK
  <2>3. BitOrAll(LockedAfter(S)) \subseteq Bit
    BY <2>2, AuthorityAssumption DEF BitOrAll
  <2>4. unlockedAuth' \in [Address -> SUBSET Bit] /\ lockedAuth' \in [Address -> SUBSET Bit]
    BY <2>1, <2>2 DEF Unlock, UnlockedBy, AuthorityInv, TypeOK
  <2>5. wUnlockedAuth' \subseteq Bit /\ wLockedAuth' \subseteq Bit
    BY <2>1, <2>3 DEF Unlock, WUnlockedBy, WLockedAfter, AuthorityInv, TypeOK
  <2> QED
    BY <1>1, <2>4, <2>5 DEF AuthorityInv, TypeOK
<1> QED
  BY <1>1, <1>2, <1>3 DEF AuthorityInv

\* addNewTx: a column that is not summed up again already holds what the inputs
\* leave and what the outputs bring.
LEMMA AddKeeps ==
    ASSUME AuthorityInv, NEW t \in Tx,
           NEW newLocked \in SUBSET (OutputsOf(t) \cap Timelocked), AddNewTx(t, newLocked)
    PROVE  AuthorityInv'
<1> DEFINE S == Inputs[t] \cap locked
           new == OutputsOf(t) \ newLocked
           balance == [a \in Address |-> AddressBalance(t, new, a)]
           kept == (Unspent \ locked) \ Inputs[t]
<1>1. /\ t \notin added /\ added' = added \cup {t} /\ started' = started
      /\ Inputs[t] \subseteq Unspent /\ Unspent = Spendable
      /\ spent' = (spent \ OutputsOf(t)) \cup Inputs[t]
      /\ locked' = (locked \ (Inputs[t] \cup OutputsOf(t))) \cup newLocked
      /\ UpdateAddressTables(t, S, newLocked, balance)
  BY DEF AddNewTx, AuthorityInv
<1>2. PICK sum : UpdateWalletTables(S, newLocked, sum)
  BY DEF AddNewTx
<1>3. Unspent' = (Unspent \ Inputs[t]) \cup OutputsOf(t) /\ OutputsOf(t) \cap Unspent = {}
  BY <1>1, AuthorityAssumption DEF Unspent, OutputsOf, AuthorityInv
<1>4. Spendable' = Unspent' /\ \A u, v \in added' : u # v => Inputs[u] \cap Inputs[v] = {}
  <2>1. \A u \in added : Inputs[u] \cap OutputsOf(t) = {} /\ Inputs[u] \cap Inputs[t] = {}
    BY <1>1, AuthorityAssumption DEF AuthorityInv, Spendable, OutputsOf
  <2>2. Inputs[t] \cap OutputsOf(t) = {}
    BY AuthorityAssumption DEF OutputsOf
  <2>3. Spendable' = (Spendable \ Inputs[t]) \cup OutputsOf(t)
    BY <1>1, <2>1, <2>2 DEF Spendable, OutputsOf
  <2> QED
    BY <1>1, <1>3, <2>1, <2>3 DEF AuthorityInv
<1>5. locked' = (locked \ Inputs[t]) \cup newLocked
  BY <1>1, <1>3 DEF AuthorityInv
<1>6. /\ Unspent' \ locked' = kept \cup new
      /\ Unspent' \cap locked' = (locked \ S) \cup newLocked
      /\ locked \ S = (locked \ S) \cap Unspent
      /\ locked' \subseteq Timelocked \cap Unspent'
  BY <1>3, <1>5 DEF AuthorityInv
<1>7. \A u \in added' : \A o \in Inputs[u] : TxOf[o] \in added'
  BY <1>1 DEF AuthorityInv, Spendable
<1>8. /\ S \in SUBSET Output /\ new \in SUBSET Output /\ kept \in SUBSET Output
      /\ newLocked \in SUBSET Output /\ locked \in SUBSET Output
      /\ Inputs[t] \in SUBSET Output /\ Unspent' \in SUBSET Output
  BY AuthorityAssumption DEF OutputsOf, Unspent, AuthorityInv, TypeOK
<1>9. AuthoritiesAreUnspent'
  <2> SUFFICES ASSUME NEW a \in Address
               PROVE  /\ unlockedAuth'[a] = BitOr(Unspent' \ locked', a)
                      /\ lockedAuth'[a] = BitOr(Unspent' \cap locked', a)
    BY <1>4 DEF AuthoritiesAreUnspent
  <2>1. /\ unlockedAuth[a] = BitOr(Unspent \ locked, a)
        /\ lockedAuth[a] = BitOr(Unspent \cap locked, a)
    BY <1>1 DEF AuthorityInv, AuthoritiesAreUnspent
  <2>2. unlockedAuth'[a] = BitOr(Unspent' \ locked', a)
    <3>1. unlockedAuth'[a] =
             IF hasNegativeValue(AddressBalance(t, new, a)) THEN BitOr(Unspent' \ locked', a)
             ELSE UnlockedBy(S)[a] \cup toUnsignedInteger(AddressBalance(t, new, a))
      BY <1>1 DEF UpdateAddressTables
    <3>2. SUFFICES ASSUME ~hasNegativeValue(AddressBalance(t, new, a))
                   PROVE  UnlockedBy(S)[a] \cup toUnsignedInteger(AddressBalance(t, new, a))
                             = BitOr(Unspent' \ locked', a)
      BY <3>1
    <3>3. /\ BitOr(Inputs[t], a) \subseteq BitOr(new, a)
          /\ BitOr(new, a) \ BitOr(Inputs[t], a)
                \subseteq toUnsignedInteger(AddressBalance(t, new, a))
          /\ toUnsignedInteger(AddressBalance(t, new, a)) \subseteq BitOr(new, a)
      BY <1>8, <3>2, BalanceWithoutNegative
    <3>4. UnlockedBy(S)[a] = BitOr(kept, a) \cup BitOr(Inputs[t], a)
      BY <1>1, <2>1 DEF UnlockedBy, BitOr
    <3>5. BitOr(Unspent' \ locked', a) = BitOr(kept, a) \cup BitOr(new, a)
      BY <1>6 DEF BitOr
    <3> QED
      BY <3>3, <3>4, <3>5
  <2>3. lockedAuth'[a] = BitOr(Unspent' \cap locked', a)
    <3>1. lockedAuth'[a] = (IF BitOr(S, a) = {} THEN lockedAuth[a]
                            ELSE BitOr((locked \ S) \cap Unspent, a)) \cup BitOr(newLocked, a)
      BY <1>1 DEF UpdateAddressTables, LockedAfter
    <3>2. BitOr(Unspent' \cap locked', a) = BitOr(locked \ S, a) \cup BitOr(newLocked, a)
      BY <1>6 DEF BitOr
    <3>3. ASSUME BitOr(S, a) = {}
          PROVE  BitOr(Unspent \cap locked, a) = BitOr(locked \ S, a)
      BY <1>8, <3>3, AuthorityAssumption DEF BitOr, AuthorityInv
    <3> QED
      BY <1>6, <2>1, <3>1, <3>2, <3>3
  <2> QED
    BY <2>2, <2>3
<1>10. TypeOK'
  <2>1. /\ BitsOfMine(S) \subseteq Bit /\ BitsOfMine(newLocked) \subseteq Bit
        /\ \A a \in Address :
              /\ BitOr(S, a) \subseteq Bit /\ BitOr(newLocked, a) \subseteq Bit
              /\ BitOr(Unspent' \ locked', a) \subseteq Bit
              /\ BitOr((locked \ S) \cap Unspent, a) \subseteq Bit
    BY <1>8, BitOrIsBits DEF BitsOfMine
  <2>2. \A x : toUnsignedInteger(x) \subseteq Bit
    BY DEF toUnsignedInteger, BitsOf
  <2>3. UnlockedBy(S) \in [Address -> SUBSET Bit] /\ LockedAfter(S) \in [Address -> SUBSET Bit]
    BY <2>1 DEF UnlockedBy, LockedAfter, AuthorityInv, TypeOK
  <2>4. unlockedAuth' \in [Address -> SUBSET Bit] /\ lockedAuth' \in [Address -> SUBSET Bit]
    BY <1>1, <2>1, <2>2, <2>3 DEF UpdateAddressTables
  <2>5. BitOrAll(LockedAfter(S)) \subseteq Bit /\ BitOrAll(unlockedAuth') \subseteq Bit
    BY <2>3, <2>4, AuthorityAssumption DEF BitOrAll
  <2>6. wUnlockedAuth' \subseteq Bit /\ wLockedAuth' \subseteq Bit
    BY <1>2, <2>1, <2>2, <2>5
       DEF UpdateWalletTables, WUnlockedBy, WLockedAfter, AuthorityInv, TypeOK
  <2> QED
    BY <1>1, <1>5, <1>8, <2>4, <2>6 DEF AuthorityInv, TypeOK
<1> QED
  BY <1>6, <1>7, <1>9, <1>10, <1>4 DEF AuthorityInv

\* A void changes the unspent outputs of the addresses it rebuilds only.
LEMMA VoidKeeps ==
    ASSUME NoTimelockIsVoided, VoidsHaveOutputs, AuthorityInv, NEW t \in Tx, VoidTx(t)
    PROVE  AuthorityInv'
<1>1. /\ t \in added /\ t \in Voidable /\ OutputsOf(t) \subseteq Unspent
      /\ Unspent = Spendable /\ UNCHANGED <<locked, started, walletVars>>
      /\ added' = added \ {t} /\ spent' = spent \ Inputs[t]
      /\ \A o \in OutputsOf(t) \cup Inputs[t] : AddressOf[o] \in AffectedAddresses(t)
  BY DEF VoidTx, AuthorityInv, VoidsHaveOutputs, SpentOutputs, AffectedAddresses
<1>2. \A o \in Output :
         /\ TxOf[o] # t /\ o \notin Inputs[t] => (o \in Unspent' <=> o \in Unspent)
         /\ TxOf[o] # t /\ o \in Unspent => o \in Unspent'
  BY <1>1 DEF Unspent
<1>3. locked' \subseteq Timelocked \cap Unspent'
  BY <1>1, <1>2 DEF AuthorityInv, NoTimelockIsVoided, OutputsOf, Unspent
<1>4. /\ \A u \in added' : \A o \in Inputs[u] : TxOf[o] \in added'
      /\ \A u, v \in added' : u # v => Inputs[u] \cap Inputs[v] = {}
  BY <1>1, AuthorityAssumption DEF AuthorityInv, TypeOK, OutputsOf, Spendable
<1>5. Unspent' = Spendable'
  <2> SUFFICES ASSUME NEW o \in Output, TxOf[o] \in added'
               PROVE  o \in spent' <=> \E u \in added' : o \in Inputs[u]
    BY DEF Unspent, Spendable
  <2>1. o \in spent <=> \E u \in added : o \in Inputs[u]
    BY <1>1 DEF Unspent, Spendable
  <2>2. CASE o \in Inputs[t]
    BY <1>1, <2>2 DEF AuthorityInv
  <2>3. CASE o \notin Inputs[t]
    BY <1>1, <2>1, <2>3
  <2> QED
    BY <2>2, <2>3
<1>6. AuthoritiesAreUnspent'
  <2> SUFFICES ASSUME NEW a \in Address
               PROVE  /\ unlockedAuth'[a] = BitOr(Unspent' \ locked', a)
                      /\ lockedAuth'[a] = BitOr(Unspent' \cap locked', a)
    BY <1>5 DEF AuthoritiesAreUnspent
  <2> DEFINE A == AffectedAddresses(t)
  <2>1. /\ unlockedAuth'[a] = IF a \in A THEN BitOr(Unspent' \ locked, a) ELSE unlockedAuth[a]
        /\ lockedAuth'[a] = IF a \in A THEN BitOr(Unspent' \cap locked, a) ELSE lockedAuth[a]
    BY DEF VoidTx, RebuildAddressBalances
  <2> HIDE DEF A
  <2>2. ASSUME a \notin A
        PROVE  /\ BitOr(Unspent' \ locked, a) = BitOr(Unspent \ locked, a)
               /\ BitOr(Unspent' \cap locked, a) = BitOr(Unspent \cap locked, a)
    <3>1. \A o \in Output : AddressOf[o] = a => (o \in Unspent' <=> o \in Unspent)
      BY <1>1, <1>2, <2>2 DEF OutputsOf, A
    <3> QED
      BY <3>1 DEF BitOr, Unspent
  <2> QED
    BY <1>1, <2>1, <2>2 DEF AuthorityInv, AuthoritiesAreUnspent
<1>7. TypeOK'
  <2>1. \A a \in Address : /\ BitOr(Unspent' \ locked, a) \subseteq Bit
                           /\ BitOr(Unspent' \cap locked, a) \subseteq Bit
    BY BitOrIsBits DEF Unspent
  <2> QED
    BY <1>1, <2>1 DEF VoidTx, RebuildAddressBalances, walletVars, AuthorityInv, TypeOK
<1> QED
  BY <1>3, <1>4, <1>5, <1>6, <1>7 DEF AuthorityInv

-----------------------------------------------------------------------------
(* The row of the wallet *)

\* The locked column of the wallet follows those of its addresses, whatever is
\* unlocked.
LEMMA LockedFollows ==
    ASSUME started, WalletAgrees, NEW S
    PROVE  WLockedAfter(S) = BitOrAll(LockedAfter(S))
<1>1. CASE BitsOfMine(S) = {}
  <2>1. \A a \in Mine : a \in Address /\ BitOr(S, a) = {}
    BY <1>1, AuthorityAssumption DEF BitsOfMine
  <2>2. \A a \in Mine : LockedAfter(S)[a] = lockedAuth[a]
    BY <2>1 DEF LockedAfter
  <2>3. BitOrAll(LockedAfter(S)) = BitOrAll(lockedAuth)
    BY <2>2 DEF BitOrAll
  <2> QED
    BY <1>1, <2>3 DEF WLockedAfter, WalletAgrees
<1>2. CASE BitsOfMine(S) # {}
  BY <1>2 DEF WLockedAfter
<1> QED
  BY <1>1, <1>2

LEMMA UnlockedFollows ==
    ASSUME started, WalletAgrees, NEW S
    PROVE  WUnlockedBy(S) = BitOrAll(UnlockedBy(S))
<1>1. \A a \in Mine : UnlockedBy(S)[a] = unlockedAuth[a] \cup BitOr(S, a)
  BY AuthorityAssumption DEF UnlockedBy
<1>2. BitOrAll(UnlockedBy(S)) = BitOrAll(unlockedAuth) \cup BitsOfMine(S)
  BY <1>1 DEF BitOrAll, BitsOfMine
<1> QED
  BY <1>2 DEF WUnlockedBy, WalletAgrees

LEMMA UnlockFollows ==
    ASSUME started, WalletAgrees, NEW S, Unlock(S)
    PROVE  WalletAgrees'
<1>1. /\ unlockedAuth' = UnlockedBy(S) /\ wUnlockedAuth' = WUnlockedBy(S)
      /\ lockedAuth' = LockedAfter(S) /\ wLockedAuth' = WLockedAfter(S)
  BY DEF Unlock
<1>2. /\ BitOrAll(unlockedAuth') = BitOrAll(UnlockedBy(S))
      /\ BitOrAll(lockedAuth') = BitOrAll(LockedAfter(S))
  BY <1>1
<1>3. /\ WUnlockedBy(S) = BitOrAll(UnlockedBy(S))
      /\ WLockedAfter(S) = BitOrAll(LockedAfter(S))
  BY LockedFollows, UnlockedFollows
<1> QED
  BY <1>1, <1>2, <1>3 DEF WalletAgrees

\* addNewTx: without a negative entry in the merged array, what the wallet
\* spends it also receives or still has at another address, so the mask brings
\* its row to what its addresses hold.
LEMMA AddFollows ==
    ASSUME AuthorityInv, started, WalletAgrees, NEW t \in Tx,
           NEW newLocked \in SUBSET (OutputsOf(t) \cap Timelocked), AddNewTx(t, newLocked)
    PROVE  WalletAgrees'
<1> DEFINE S == Inputs[t] \cap locked
           new == OutputsOf(t) \ newLocked
           balance == [a \in Address |-> AddressBalance(t, new, a)]
           kept == (Unspent \ locked) \ Inputs[t]
<1>1. /\ t \notin added /\ added' = added \cup {t}
      /\ Inputs[t] \subseteq Unspent /\ Unspent = Spendable
      /\ spent' = (spent \ OutputsOf(t)) \cup Inputs[t]
      /\ locked' = (locked \ (Inputs[t] \cup OutputsOf(t))) \cup newLocked
      /\ UpdateAddressTables(t, S, newLocked, balance)
  BY DEF AddNewTx, AuthorityInv
<1>2. PICK order \in SetToSeqs(TouchedBy(t) \cap Mine) :
         UpdateWalletTables(S, newLocked, WalletBalance(balance, order))
  BY DEF AddNewTx
<1> DEFINE sum == WalletBalance(balance, order)
<1>3. Unspent' = (Unspent \ Inputs[t]) \cup OutputsOf(t) /\ OutputsOf(t) \cap Unspent = {}
  BY <1>1, AuthorityAssumption DEF Unspent, OutputsOf, AuthorityInv
<1>4. Unspent' \ locked' = kept \cup new
  BY <1>1, <1>3 DEF AuthorityInv
<1>5. \A a \in Mine :
         /\ unlockedAuth[a] \cup BitOr(S, a) = BitOr(kept, a) \cup BitOr(Inputs[t], a)
         /\ unlockedAuth'[a] = BitOr(kept, a) \cup BitOr(new, a)
  <2> TAKE a \in Mine
  <2>1. a \in Address
    BY AuthorityAssumption
  <2>2. unlockedAuth[a] = BitOr(Unspent \ locked, a)
    BY <1>1, <2>1 DEF AuthorityInv, AuthoritiesAreUnspent
  <2>3. unlockedAuth[a] \cup BitOr(S, a) = BitOr(kept, a) \cup BitOr(Inputs[t], a)
    BY <1>1, <2>2 DEF BitOr
  <2>4. AuthoritiesAreUnspent' /\ Unspent' = Spendable'
    BY AddKeeps DEF AuthorityInv
  <2>5. unlockedAuth'[a] = BitOr(Unspent' \ locked', a)
    BY <2>1, <2>4 DEF AuthoritiesAreUnspent
  <2>6. BitOr(kept \cup new, a) = BitOr(kept, a) \cup BitOr(new, a)
    BY DEF BitOr
  <2> QED
    BY <1>4, <2>3, <2>5, <2>6
<1>6. /\ sum \in Arrays
      /\ \A b \in Bit : /\ sum[b] = 1 => b \in BitsOfMine(new)
                        /\ b \in BitsOfMine(new) \ BitsOfMine(Inputs[t]) => sum[b] = 1
                        /\ b \in BitsOfMine(Inputs[t]) \ BitsOfMine(new) => sum[b] = -1
  <2> HIDE DEF new
  <2>1. new \in SUBSET OutputsOf(t)
    BY DEF new
  <2>2. balance = [a \in Address |-> AddressBalance(t, new, a)]
    OBVIOUS
  <2> HIDE DEF balance
  <2> QED
    BY <2>1, <2>2, WalletBalanceOfTx
<1> HIDE DEF balance, sum, kept, new, S
<1>7. wUnlockedAuth' = BitOrAll(unlockedAuth')
  <2>1. CASE hasNegativeValue(sum)
    BY <1>2, <2>1 DEF UpdateWalletTables, sum
  <2>2. CASE ~hasNegativeValue(sum)
    <3>1. wUnlockedAuth' = WUnlockedBy(S) \cup toUnsignedInteger(sum)
      BY <1>2, <2>2 DEF UpdateWalletTables, sum
    <3>2. \A b \in Bit : sum[b] # -1
      BY <2>2 DEF hasNegativeValue
    <3>3. sum \in [Bit -> {0, 1}]
      BY <1>6, <3>2 DEF Arrays
    <3>4. toUnsignedInteger(sum) = {b \in Bit : sum[b] = 1}
      BY <3>3, MaskOfOnes
    <3>5. WUnlockedBy(S) = BitsOfMine(kept) \cup BitsOfMine(Inputs[t])
      <4>1. WUnlockedBy(S) = BitOrAll(UnlockedBy(S))
        BY UnlockedFollows
      <4>2. \A a \in Mine : UnlockedBy(S)[a] = BitOr(kept, a) \cup BitOr(Inputs[t], a)
        BY <1>5, AuthorityAssumption DEF UnlockedBy
      <4> QED
        BY <4>1, <4>2 DEF BitOrAll, BitsOfMine
    <3>6. BitOrAll(unlockedAuth') = BitsOfMine(kept) \cup BitsOfMine(new)
      BY <1>5 DEF BitOrAll, BitsOfMine
    <3>7. BitsOfMine(new) \subseteq Bit /\ BitsOfMine(Inputs[t]) \subseteq Bit
      <4>1. new \in SUBSET Output /\ Inputs[t] \in SUBSET Output
        BY AuthorityAssumption DEF new, OutputsOf
      <4>2. \A a \in Mine : BitOr(new, a) \subseteq Bit /\ BitOr(Inputs[t], a) \subseteq Bit
        BY <4>1, BitOrIsBits
      <4> QED
        BY <4>2 DEF BitsOfMine
    <3>8. /\ toUnsignedInteger(sum) \subseteq BitsOfMine(new)
          /\ BitsOfMine(new) \ BitsOfMine(Inputs[t]) \subseteq toUnsignedInteger(sum)
          /\ BitsOfMine(Inputs[t]) \subseteq BitsOfMine(new)
      BY <1>6, <3>2, <3>4, <3>7
    <3> QED
      BY <3>1, <3>5, <3>6, <3>8
  <2> QED
    BY <2>1, <2>2
<1>8. wLockedAuth' = BitOrAll(lockedAuth')
  <2>1. wLockedAuth' = WLockedAfter(S) \cup BitsOfMine(newLocked)
    BY <1>2 DEF UpdateWalletTables
  <2>2. \A a \in Mine : lockedAuth'[a] = LockedAfter(S)[a] \cup BitOr(newLocked, a)
    BY <1>1, AuthorityAssumption DEF UpdateAddressTables
  <2>3. BitOrAll(lockedAuth') = BitOrAll(LockedAfter(S)) \cup BitsOfMine(newLocked)
    BY <2>2 DEF BitOrAll, BitsOfMine
  <2> QED
    BY <2>1, <2>3, LockedFollows
<1> QED
  BY <1>7, <1>8 DEF WalletAgrees

-----------------------------------------------------------------------------
(* The theorems *)

\* Every step of addNewTx, handleReorg, handleVoided, unlockUtxos and
\* initWalletBalance keeps the invariant.
THEOREM AuthorityInvariant ==
    ASSUME NoTimelockIsVoided, VoidsHaveOutputs
    PROVE  Spec => []AuthorityInv
<1>1. AuthorityInv /\ [Next]_vars => AuthorityInv'
  <2> SUFFICES ASSUME AuthorityInv, [Next]_vars PROVE AuthorityInv'
    OBVIOUS
  <2>1. CASE \E t \in Tx : \E newLocked \in SUBSET (OutputsOf(t) \cap Timelocked) :
                AddNewTx(t, newLocked)
    BY <2>1, AddKeeps
  <2>2. CASE \E t \in Tx : VoidTx(t)
    BY <2>2, VoidKeeps
  <2>3. CASE \E S \in SUBSET locked : Unlock(S)
    BY <2>3, UnlockKeeps
  <2>4. CASE InitWalletBalance
    BY <2>4 DEF InitWalletBalance, addressVars, AuthorityInv, TypeOK, AuthoritiesAreUnspent,
       Unspent, Spendable, BitOr
  <2>5. CASE UNCHANGED vars
    BY <2>5 DEF vars, addressVars, walletVars, AuthorityInv, TypeOK, AuthoritiesAreUnspent,
       Unspent, Spendable, BitOr
  <2> QED
    BY <2>1, <2>2, <2>3, <2>4, <2>5 DEF Next
<1> QED
  BY <1>1, InitHolds, PTL DEF Spec

\* The columns of address_balance hold the authorities of the unspent outputs
\* (updateAddressTablesWithTx, updateAddressLockedBalance, rebuildAddressBalancesFromUtxos).
THEOREM AuthoritiesOfAddress ==
    ASSUME NoTimelockIsVoided, VoidsHaveOutputs
    PROVE  Spec => []AuthoritiesAreUnspent
<1>1. AuthorityInv => AuthoritiesAreUnspent
  BY DEF AuthorityInv
<1> QED
  BY <1>1, AuthorityInvariant, PTL

\* Nothing is locked that a valid transaction already spent or that was voided:
\* what unlockUtxos flags is always spendable, as its row says.
THEOREM LockedIsSpendable ==
    ASSUME NoTimelockIsVoided, VoidsHaveOutputs
    PROVE  Spec => [](locked \subseteq Spendable /\ Unspent = Spendable)
<1>1. AuthorityInv => locked \subseteq Spendable /\ Unspent = Spendable
  BY DEF AuthorityInv
<1> QED
  BY <1>1, AuthorityInvariant, PTL

\* A wallet row that has the authorities of its addresses keeps them through
\* every transaction and every unlock (updateWalletTablesWithTx,
\* updateWalletLockedBalance), for any number of addresses and any order in
\* which getWalletBalanceMap merges their arrays.
THEOREM WalletFollows ==
    ASSUME NoTimelockIsVoided, VoidsHaveOutputs
    PROVE  Spec => WalletFollowsAuthorities
<1>1. AuthorityInv /\ [Next]_vars
         => [started /\ WalletAgrees /\ (added \subseteq added') => WalletAgrees']_vars
  <2> SUFFICES ASSUME AuthorityInv, [Next]_vars, ~(vars' = vars),
                      started, WalletAgrees, added \subseteq added'
               PROVE  WalletAgrees'
    OBVIOUS
  <2>1. CASE \E t \in Tx : \E newLocked \in SUBSET (OutputsOf(t) \cap Timelocked) :
                AddNewTx(t, newLocked)
    BY <2>1, AddFollows
  <2>2. CASE \E t \in Tx : VoidTx(t)
    BY <2>2 DEF VoidTx
  <2>3. CASE \E S \in SUBSET locked : Unlock(S)
    BY <2>3, UnlockFollows
  <2>4. CASE InitWalletBalance
    BY <2>4 DEF InitWalletBalance
  <2> QED
    BY <2>1, <2>2, <2>3, <2>4 DEF Next
<1> QED
  BY <1>1, AuthorityInvariant, PTL DEF Spec, WalletFollowsAuthorities
=============================================================================
