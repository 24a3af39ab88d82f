------------------------- MODULE WalletLoadProofs -------------------------
(***************************************************************************)
(* The addresses of a wallet, for every max_gap: what generateAddresses    *)
(* computes (AddressGap), the loop that computes it (GapScan), and the     *)
(* rows a load and the transactions that arrive meanwhile give the wallet  *)
(* (WalletLoad).  Then what a wallet has once it is ready: all of its      *)
(* history and balance, and max_gap unused addresses.                      *)
(***************************************************************************)
EXTENDS WalletLoad, GapScan, FiniteSums, FiniteSetTheorems, TLAPS

-----------------------------------------------------------------------------
(* Largest and smallest elements *)

LEMMA NatHasLeast ==
    ASSUME NEW T \in SUBSET Nat, T # {}
    PROVE  \E m \in T : \A n \in T : m <= n
<1> DEFINE R == {ss \in Nat \X Nat : ss[1] < ss[2]}
<1>1. IsWellFoundedOn(R, Nat)
    BY NatLessThanWellFounded DEF OpToRel
<1>2. \A m, n \in T : <<n, m>> \in R <=> n < m
    OBVIOUS
<1> HIDE DEF R
<1>3. \E m \in T : \A n \in T : ~(<<n, m>> \in R)
    BY <1>1, WFMin, Zenon
<1>4. PICK m \in T : \A n \in T : ~(<<n, m>> \in R)
    BY <1>3
<1>5. ASSUME NEW n \in T PROVE m <= n
  <2>1. ~(n < m)
      BY <1>2, <1>4
  <2> QED
      BY <2>1
<1> QED
    BY <1>5

LEMMA MaxOfBounded ==
    ASSUME NEW S \in SUBSET Int, S # {}, NEW b \in Int, \A x \in S : x <= b
    PROVE  Max(S) \in S /\ \A x \in S : x <= Max(S)
<1> DEFINE T == {n \in Nat : b - n \in S}
<1>1. \A x \in S : b - x \in T
    OBVIOUS
<1>2. PICK m \in T : \A n \in T : m <= n
    BY <1>1, NatHasLeast
<1>3. b - m \in S /\ \A x \in S : b - m >= x
    BY <1>1, <1>2
<1> QED
    BY <1>3 DEF Max

LEMMA MinOfNaturals ==
    ASSUME NEW S \in SUBSET Nat, S # {}
    PROVE  Min(S) \in S /\ \A x \in S : Min(S) <= x
BY NatHasLeast DEF Min

-----------------------------------------------------------------------------
(* AddressGap *)

USE GapAssumption

Blocks == Nat \ {0}
BlockEnd(k) == k * Gap - 1

LEMMA BlockEnds ==
    ASSUME NEW j \in Blocks, NEW k \in Blocks
    PROVE  /\ BlockEnd(k) \in Nat
           /\ j <= k => BlockEnd(j) <= BlockEnd(k)
           /\ j < k => BlockEnd(j) + Gap <= BlockEnd(k)
<1>1. k * Gap >= Gap /\ k * Gap \in Nat /\ j * Gap \in Nat
    BY DEF Blocks
<1>2. ASSUME j < k PROVE j * Gap + Gap <= k * Gap
  <2>1. PICK d \in Nat : k = (j + 1) + d
      BY <1>2 DEF Blocks
  <2>2. k * Gap = (j * Gap + Gap) + d * Gap /\ d * Gap \in Nat
      BY <2>1 DEF Blocks
  <2> QED
      BY <1>1, <2>2
<1> QED
    BY <1>1, <1>2 DEF BlockEnd, Blocks

LEMMA LastUsedFacts ==
    ASSUME NEW U \in SUBSET Nat, NEW h \in Nat \cup {-1}
    PROVE  /\ LastUsedUpTo(U, h) \in U \cup {-1}
           /\ LastUsedUpTo(U, h) \in Nat \cup {-1}
           /\ LastUsedUpTo(U, h) <= h
           /\ \A i \in U : i <= h => i <= LastUsedUpTo(U, h)
<1> DEFINE S == {i \in U : i <= h} \cup {-1}
<1>1. ASSUME NEW x \in S PROVE x \in Int /\ x <= h
  <2>1. CASE x = -1
      BY <2>1
  <2>2. CASE x # -1
      BY <2>2
  <2> QED
      BY <2>1, <2>2
<1>2. -1 \in S
    OBVIOUS
<1> HIDE DEF S
<1>3. S \in SUBSET Int /\ S # {} /\ \A x \in S : x <= h
    BY <1>1, <1>2
<1>4. Max(S) \in S /\ \A x \in S : x <= Max(S)
    BY <1>3, MaxOfBounded
<1>5. Max(S) <= h
    BY <1>1, <1>4
<1>6. LastUsedUpTo(U, h) = Max(S)
    BY DEF LastUsedUpTo, S
<1> QED
    BY <1>4, <1>5, <1>6 DEF S

\* FS_PigeonHole for an interval.
LEMMA SameImage ==
    ASSUME NEW n \in Nat, NEW U, IsFiniteSet(U), Cardinality(U) < n, NEW f \in [1 .. n -> U]
    PROVE  \E j, k \in 1 .. n : j # k /\ f[j] = f[k]
<1> DEFINE S == 1 .. n
<1>1. IsFiniteSet(S) /\ Cardinality(U) < Cardinality(S)
    BY FS_Interval
<1>2. f \in [S -> U]
    OBVIOUS
<1> HIDE DEF S
<1>3. \E j, k \in S : j # k /\ f[j] = f[k]
    BY <1>1, <1>2, FS_PigeonHole
<1> QED
    BY <1>3 DEF S

\* A block that does not end the loop has a used index of its own, so that one
\* of the blocks one more than the used indexes does.
LEMMA SomeBlockEnds ==
    ASSUME NEW U \in SUBSET Nat, IsFiniteSet(U)
    PROVE  \E k \in 1 .. (Cardinality(U) + 2) : Covered(U, BlockEnd(k))
<1> DEFINE n == Cardinality(U) + 2
           f == [k \in 1 .. n |-> LastUsedUpTo(U, BlockEnd(k))]
<1>1. Cardinality(U) \in Nat
    BY FS_CardinalityType
<1> SUFFICES ASSUME \A k \in 1 .. n : ~Covered(U, BlockEnd(k)) PROVE FALSE
    OBVIOUS
<1>2. ASSUME NEW k \in 1 .. n
      PROVE  /\ f[k] \in U /\ f[k] \in Int /\ f[k] > BlockEnd(k) - Gap /\ f[k] <= BlockEnd(k)
             /\ BlockEnd(k) \in Nat /\ k \in Blocks
  <2>1. k \in Blocks /\ BlockEnd(k) \in Nat
      BY <1>1, BlockEnds DEF Blocks
  <2>2. /\ f[k] = LastUsedUpTo(U, BlockEnd(k))
        /\ f[k] \in U \cup {-1} /\ f[k] \in Int /\ f[k] <= BlockEnd(k)
      BY <2>1, LastUsedFacts
  <2>3. ~(f[k] + Gap <= BlockEnd(k))
      BY <2>2 DEF Covered
  <2>4. BlockEnd(k) - Gap >= -1
    <3>1. 1 \in Blocks /\ (1 = k \/ 1 < k) /\ BlockEnd(1) = Gap - 1
        BY <1>1, <2>1 DEF BlockEnd, Blocks
    <3> QED
        BY <2>1, <3>1, BlockEnds
  <2>5. f[k] > BlockEnd(k) - Gap
      BY <2>1, <2>2, <2>3
  <2>6. f[k] # -1
      BY <2>1, <2>4, <2>5
  <2> QED
      BY <2>1, <2>2, <2>5, <2>6
<1>3. f \in [1 .. n -> U]
    BY <1>2
<1> HIDE DEF f
<1>4. n \in Nat /\ Cardinality(U) < n
    BY <1>1
<1>5. PICK j \in 1 .. n, k \in 1 .. n : j # k /\ f[j] = f[k]
    BY <1>3, <1>4, SameImage
<1>6. ASSUME NEW i \in 1 .. n, NEW l \in 1 .. n, i < l PROVE f[i] < f[l]
  <2>1. BlockEnd(i) + Gap <= BlockEnd(l) /\ BlockEnd(i) \in Nat /\ BlockEnd(l) \in Nat
      BY <1>2, <1>6, BlockEnds
  <2>2. f[i] \in Int /\ f[i] <= BlockEnd(i) /\ f[l] \in Int /\ f[l] > BlockEnd(l) - Gap
      BY <1>2
  <2> QED
      BY <2>1, <2>2
<1>7. j < k \/ k < j
    BY <1>1, <1>5
<1>8. f[j] < f[k] \/ f[k] < f[j]
    BY <1>6, <1>7
<1>9. f[j] \in Int
    BY <1>2
<1> QED
    BY <1>5, <1>8, <1>9

LEMMA CheckedFacts ==
    ASSUME NEW U \in SUBSET Nat, IsFiniteSet(U)
    PROVE  /\ \E k \in Blocks : Checked(U) = BlockEnd(k)
           /\ Covered(U, Checked(U))
           /\ \A k \in Blocks : Covered(U, BlockEnd(k)) => Checked(U) <= BlockEnd(k)
<1> DEFINE n == Cardinality(U) + 2
           bounds == {k * Gap - 1 : k \in 1 .. n}
           ends == {h \in bounds : Covered(U, h)}
<1>1. n \in Nat /\ n >= 2
    BY FS_CardinalityType
<1>2. \A k \in 1 .. n : k \in Blocks /\ BlockEnd(k) \in bounds
    BY <1>1 DEF Blocks, BlockEnd
<1>3. \A h \in bounds : h \in Nat /\ \E k \in 1 .. n : h = BlockEnd(k)
    BY <1>2, BlockEnds DEF BlockEnd
<1>4. PICK e \in 1 .. n : Covered(U, BlockEnd(e))
    BY SomeBlockEnds
<1>5. BlockEnd(e) \in ends
    BY <1>2, <1>4
<1>6. Checked(U) \in ends /\ \A h \in ends : Checked(U) <= h
    BY <1>3, <1>5, MinOfNaturals DEF Checked
<1>7. \E k \in Blocks : Checked(U) = BlockEnd(k)
    BY <1>2, <1>3, <1>6
<1>8. ASSUME NEW k \in Blocks, Covered(U, BlockEnd(k)) PROVE Checked(U) <= BlockEnd(k)
  <2>1. CASE k <= n
    <3>1. k \in 1 .. n
        BY <1>1, <2>1 DEF Blocks
    <3> QED
        BY <1>2, <1>6, <1>8, <3>1
  <2>2. CASE k > n
    <3>1. BlockEnd(e) <= BlockEnd(k) /\ BlockEnd(e) \in Nat /\ BlockEnd(k) \in Nat
        BY <1>1, <1>2, <2>2, BlockEnds DEF Blocks
    <3>2. Checked(U) <= BlockEnd(e) /\ Checked(U) \in Nat
        BY <1>3, <1>5, <1>6
    <3> QED
        BY <3>1, <3>2
  <2> QED
      BY <1>1, <2>1, <2>2 DEF Blocks
<1> QED
    BY <1>6, <1>7, <1>8

\* The more indexes are used, the further the addresses reach.
LEMMA AddressesGrow ==
    ASSUME NEW U \in SUBSET Nat, NEW V \in SUBSET Nat, U \subseteq V, IsFiniteSet(V)
    PROVE  Addresses(U) \subseteq Addresses(V)
<1>1. IsFiniteSet(U)
    BY FS_Subset
<1>2. PICK k \in Blocks : Checked(V) = BlockEnd(k)
    BY CheckedFacts
<1>3. PICK j \in Blocks : Checked(U) = BlockEnd(j)
    BY <1>1, CheckedFacts
<1> DEFINE h == BlockEnd(k)
           g == BlockEnd(j)
<1>4. h \in Nat /\ g \in Nat
    BY BlockEnds
<1> HIDE DEF h, g
<1>5. ASSUME NEW e \in Nat, e <= h PROVE LastUsedUpTo(U, e) <= LastUsedUpTo(V, h)
  <2>1. /\ LastUsedUpTo(U, e) \in U \cup {-1} /\ LastUsedUpTo(U, e) \in Nat \cup {-1}
        /\ LastUsedUpTo(U, e) <= e
      BY LastUsedFacts
  <2>2. /\ LastUsedUpTo(V, h) \in Nat \cup {-1}
        /\ \A i \in V : i <= h => i <= LastUsedUpTo(V, h)
      BY <1>4, LastUsedFacts
  <2>3. CASE LastUsedUpTo(U, e) = -1
      BY <2>2, <2>3
  <2>4. CASE LastUsedUpTo(U, e) \in U
    <3>1. LastUsedUpTo(U, e) \in V /\ LastUsedUpTo(U, e) <= h
        BY <1>4, <1>5, <2>1, <2>4
    <3> QED
        BY <2>2, <3>1
  <2> QED
      BY <2>1, <2>3, <2>4
<1>6. Covered(U, h)
  <2>1. LastUsedUpTo(V, h) + Gap <= h
      BY <1>2, CheckedFacts DEF Covered, h
  <2>2. LastUsedUpTo(U, h) <= LastUsedUpTo(V, h)
      BY <1>4, <1>5
  <2>3. LastUsedUpTo(U, h) \in Int /\ LastUsedUpTo(V, h) \in Int
      BY <1>4, LastUsedFacts
  <2> QED
      BY <1>4, <2>1, <2>2, <2>3 DEF Covered
<1>7. g <= h
    BY <1>1, <1>3, <1>6, CheckedFacts DEF g, h
<1>8. LastUsedIndex(U) = LastUsedUpTo(U, g) /\ LastUsedIndex(V) = LastUsedUpTo(V, h)
    BY <1>2, <1>3 DEF LastUsedIndex, g, h
<1>9. LastUsedIndex(U) \in Int /\ LastUsedIndex(V) \in Int
    BY <1>4, <1>8, LastUsedFacts
<1>10. LastUsedIndex(U) <= LastUsedIndex(V)
    BY <1>4, <1>5, <1>7, <1>8
<1> QED
    BY <1>9, <1>10 DEF Addresses

\* A used index met in the blocks looked up is one of the addresses.
LEMMA UsedAreNeeded ==
    ASSUME NEW U \in SUBSET Nat, IsFiniteSet(U)
    PROVE  U \cap (0 .. Checked(U)) \subseteq Addresses(U) /\ Addresses(U) \in SUBSET Nat
<1>1. Checked(U) \in Nat
    BY CheckedFacts, BlockEnds
<1>2. /\ LastUsedIndex(U) \in Nat \cup {-1}
      /\ \A i \in U : i <= Checked(U) => i <= LastUsedIndex(U)
    BY <1>1, LastUsedFacts DEF LastUsedIndex
<1> QED
    BY <1>1, <1>2 DEF Addresses

-----------------------------------------------------------------------------
(* WalletLoad *)

LEMMA UsedByFacts ==
    ASSUME NEW A \in SUBSET Tx
    PROVE  UsedBy(A) \in SUBSET Nat /\ IsFiniteSet(UsedBy(A))
<1> DEFINE T == {DOMAIN Amount[t] : t \in A}
           f == [t \in A |-> DOMAIN Amount[t]]
<1>1. f \in Surjection(A, T)
    BY DEF Surjection
<1>2. IsFiniteSet(A)
    BY FS_Subset, LoadAssumption
<1>3. IsFiniteSet(T)
    BY <1>1, <1>2, FS_Surjection
<1>4. \A D \in T : IsFiniteSet(D) /\ D \subseteq Nat
    BY LoadAssumption
<1> HIDE DEF T
<1>5. IsFiniteSet(UNION T) /\ UNION T \subseteq Nat
    BY <1>3, <1>4, FS_UNION
<1> QED
    BY <1>5 DEF T, UsedBy

\* What an execution of the load knows of addresses is among A.
Within(r, A) ==
    /\ DOMAIN r = DOMAIN Idle
    /\ r.new \subseteq A
    /\ r.todo \subseteq A

\* The rows of the wallet, and those a load still has to insert or to adopt, are
\* addresses the transactions accepted so far call for.
AddressInv ==
    /\ accepted \in SUBSET Tx
    /\ owned \subseteq Addresses(Used)
    /\ DOMAIN load = Load
    /\ \A l \in Load : Within(load[l], Addresses(Used))

LEMMA InitAddressInv == Init => AddressInv
BY DEF Init, AddressInv, Within, Idle

\* A step of one execution that keeps the transactions.
LEMMA LoadKeepsAddressInv ==
    ASSUME AddressInv, NEW l \in Load, NEW r, load' = [load EXCEPT ![l] = r],
           Within(r, Addresses(Used)), accepted' = accepted, owned' \subseteq Addresses(Used)
    PROVE  AddressInv'
<1>1. Addresses(Used)' = Addresses(Used)
    BY DEF Used, UsedBy, Addresses, LastUsedIndex, Checked, Covered, LastUsedUpTo
<1> QED
    BY <1>1 DEF AddressInv

LEMMA NextAddressInv == AddressInv /\ [Next]_vars => AddressInv'
<1> SUFFICES ASSUME AddressInv, [Next]_vars PROVE AddressInv'
    OBVIOUS
<1>1. Used \in SUBSET Nat /\ IsFiniteSet(Used)
    BY UsedByFacts DEF AddressInv, Used
<1> DEFINE A == Addresses(Used)
<1>2. owned \subseteq A /\ DOMAIN load = Load /\ \A l \in Load : Within(load[l], A)
    BY DEF AddressInv
<1>3. Within(Idle, A) /\ \A p : Within([Idle EXCEPT !.pc = p], A)
    BY DEF Within, Idle
<1>4. ASSUME NEW l \in Load,
             \/ Request(l) \/ Invoke(l) \/ InvokeFails(l) \/ StoreLastUsed(l)
             \/ ReadHistory(l) \/ InsertHistory(l) \/ SumBalances(l) \/ SumHistory(l)
             \/ InsertBalance(l) \/ SetReady(l) \/ Throws(l) \/ ReadRetries(l)
             \/ SetError(l) \/ Timeout(l)
      PROVE  /\ load' = [load EXCEPT ![l] = load'[l]]
             /\ Within(load'[l], A)
             /\ accepted' = accepted /\ owned' = owned
  <2> HIDE DEF A
  <2>1. CASE Request(l)
      BY <1>2, <2>1 DEF Request, Within, Idle, tables
  <2>2. CASE Invoke(l) \/ InvokeFails(l) \/ StoreLastUsed(l)
      BY <1>2, <2>2 DEF Invoke, InvokeFails, StoreLastUsed, Goto, Within, Idle, tables
  <2>3. CASE ReadHistory(l) \/ SumBalances(l)
    <3>1. \A p, h : Within([load[l] EXCEPT !.history = h, !.pc = p], A)
        BY <1>2 DEF Within, Idle
    <3>2. \A p, b : Within([load[l] EXCEPT !.pc = p, !.balance = b], A)
        BY <1>2 DEF Within, Idle
    <3>3. CASE ReadHistory(l)
        BY <1>2, <3>1, <3>3 DEF ReadHistory, tables
    <3>4. CASE SumBalances(l)
        BY <1>2, <3>2, <3>4 DEF SumBalances, tables
    <3> QED
        BY <2>3, <3>3, <3>4
  <2>4. CASE InsertHistory(l) \/ SumHistory(l) \/ InsertBalance(l) \/ Throws(l)
      BY <1>2, <2>4 DEF InsertHistory, SumHistory, InsertBalance, Throws, Goto, Within, Idle, tables
  <2>5. CASE SetReady(l) \/ SetError(l)
      BY <1>2, <1>3, <2>5 DEF SetReady, SetError, tables
  <2>6. CASE ReadRetries(l)
      BY <1>2, <2>6 DEF ReadRetries, Within, Idle, tables
  <2>7. CASE Timeout(l)
      BY <1>2, <1>3, <2>7 DEF Timeout, tables
  <2> QED
      BY <1>4, <2>1, <2>2, <2>3, <2>4, <2>5, <2>6, <2>7
<1>5. ASSUME NEW l \in Load, GenerateAddresses(l) PROVE AddressInv'
  <2>1. NewAddresses(Used, Rows) \subseteq A
      BY DEF NewAddresses
  <2>2. ExistingAddresses(Used, Rows) \subseteq A
      BY <1>1, <1>2, UsedAreNeeded DEF ExistingAddresses, Rows
  <2> DEFINE r == [load[l] EXCEPT !.pc = "addNew", !.addresses = Addresses(Used),
                                  !.new = NewAddresses(Used, Rows),
                                  !.todo = ExistingAddresses(Used, Rows)]
  <2>3. load' = [load EXCEPT ![l] = r] /\ accepted' = accepted /\ owned' = owned
      BY <1>5 DEF GenerateAddresses, tables
  <2>4. Within(r, A)
      BY <1>2, <2>1, <2>2 DEF Within, Idle
  <2> HIDE DEF r
  <2> QED
      BY <1>2, <2>3, <2>4, LoadKeepsAddressInv
<1>6. ASSUME NEW l \in Load, AddNewAddresses(l) PROVE AddressInv'
  <2> DEFINE r == [load[l] EXCEPT !.pc = IF load[l].new = {} THEN "adopt" ELSE "storeLastUsed"]
  <2>1. load' = [load EXCEPT ![l] = r] /\ accepted' = accepted /\ owned' = owned \cup load[l].new
      BY <1>6 DEF AddNewAddresses, Goto
  <2>2. Within(r, A)
      BY <1>2 DEF Within, Idle
  <2>3. owned' \subseteq A
      BY <1>2, <2>1 DEF Within
  <2> HIDE DEF r
  <2> QED
      BY <2>1, <2>2, <2>3, LoadKeepsAddressInv
<1>7. ASSUME NEW l \in Load, NEW a \in load[l].todo, Adopt(l, a) PROVE AddressInv'
  <2> DEFINE r == [load[l] EXCEPT !.todo = load[l].todo \ {a}]
  <2>1. load' = [load EXCEPT ![l] = r] /\ accepted' = accepted /\ owned' = owned \cup {a}
      BY <1>7 DEF Adopt
  <2>2. Within(r, A)
      BY <1>2 DEF Within, Idle
  <2>3. owned' \subseteq A
      BY <1>2, <2>1 DEF Within
  <2> HIDE DEF r
  <2> QED
      BY <2>1, <2>2, <2>3, LoadKeepsAddressInv
<1>8. ASSUME NEW t \in Tx, CommitTx(t) PROVE AddressInv'
  <2> DEFINE B == UsedBy(accepted \cup {t})
             new == NewAddresses(B, snapshot.owned \cup B)
  <2>1. accepted \cup {t} \in SUBSET Tx
      BY DEF AddressInv
  <2>2. B \in SUBSET Nat /\ IsFiniteSet(B) /\ Used \subseteq B
      BY <2>1, UsedByFacts DEF Used, UsedBy
  <2> DEFINE AB == Addresses(B)
  <2>3. A \subseteq AB
      BY <1>1, <2>2, AddressesGrow
  <2>4. accepted' = accepted \cup {t} /\ load' = load /\ (owned' = owned \/ owned' = owned \cup new)
      BY <1>8 DEF CommitTx
  <2>5. new \subseteq AB
      BY DEF NewAddresses
  <2>6. Addresses(Used)' = AB
      BY <2>4 DEF Used, UsedBy, Addresses, LastUsedIndex, Checked, Covered, LastUsedUpTo
  <2> HIDE DEF A, AB, new, B
  <2>7. \A l \in Load : Within(load[l], AB)
      BY <1>2, <2>3 DEF Within
  <2> QED
      BY <1>2, <2>1, <2>3, <2>4, <2>5, <2>6, <2>7 DEF AddressInv
<1>9. CASE (\E t \in Tx : BeginTx(t)) \/ RollBack \/ UNCHANGED vars
  <2>1. accepted' = accepted /\ owned' = owned /\ load' = load
      BY <1>9 DEF BeginTx, RollBack, vars, tables
  <2>2. Addresses(Used)' = A
      BY <2>1 DEF Used, UsedBy, Addresses, LastUsedIndex, Checked, Covered, LastUsedUpTo
  <2> QED
      BY <2>1, <2>2 DEF AddressInv
<1>10. ASSUME NEW l \in Load, Request(l) \/ Invoke(l) \/ InvokeFails(l) \/ LoadWallet(l) \/ Timeout(l)
       PROVE  AddressInv'
  <2>1. CASE \/ Request(l) \/ Invoke(l) \/ InvokeFails(l) \/ StoreLastUsed(l)
             \/ ReadHistory(l) \/ InsertHistory(l) \/ SumBalances(l) \/ SumHistory(l)
             \/ InsertBalance(l) \/ SetReady(l) \/ Throws(l) \/ ReadRetries(l)
             \/ SetError(l) \/ Timeout(l)
    <3>1. /\ load' = [load EXCEPT ![l] = load'[l]] /\ Within(load'[l], A)
          /\ accepted' = accepted /\ owned' \subseteq A
        BY <1>2, <1>4, <2>1
    <3> QED
        BY <3>1, LoadKeepsAddressInv
  <2> QED
      BY <1>5, <1>6, <1>7, <1>10, <2>1 DEF LoadWallet
<1> QED
    BY <1>8, <1>9, <1>10 DEF Next

\* The inductive invariant behind NoAddressBeyondGap (wallet.ts: loadWallet,
\* txProcessor.ts: addNewTx).
THEOREM AddressInvariant == Spec => []AddressInv
BY InitAddressInv, NextAddressInv, PTL DEF Spec

\* Neither a load that acts on an old view nor addNewTx gives the wallet an
\* address further than max_gap from the last used one, whatever max_gap, the
\* transactions, the number of loads and the executions that are cut short.
THEOREM NoneBeyondGap == Spec => []NoAddressBeyondGap
<1>1. AddressInv => NoAddressBeyondGap
    BY DEF AddressInv, NoAddressBeyondGap
<1> QED
    BY <1>1, AddressInvariant, PTL

\* Of one execution at a time (the platform may still end it and deliver its event
\* again), none is under way when the wallet is ready.
ReadyInv ==
    /\ AddressInv
    /\ status = "ready" => \A l \in Load : load[l].pc = "idle"

LEMMA NextReadyInv ==
    ASSUME \A l, m \in Load : l = m
    PROVE  ReadyInv /\ [Next]_vars => ReadyInv'
<1> SUFFICES ASSUME ReadyInv, [Next]_vars PROVE ReadyInv'
    OBVIOUS
<1>1. AddressInv'
    BY NextAddressInv DEF ReadyInv
<1>2. /\ DOMAIN load = Load
      /\ \A l \in Load : DOMAIN load[l] = DOMAIN Idle
    BY DEF ReadyInv, AddressInv, Within
<1> DEFINE Idling == status = "ready" => \A l \in Load : load[l].pc = "idle"
<1>3. ASSUME NEW l \in Load, Request(l) \/ Invoke(l) \/ InvokeFails(l) \/ LoadWallet(l)
      PROVE  Idling'
  <2>1. CASE load[l].pc = "idle"
    <3>1. Request(l)
        BY <1>3, <2>1 DEF Invoke, InvokeFails, LoadWallet, GenerateAddresses, AddNewAddresses,
           StoreLastUsed, Adopt, ReadHistory, InsertHistory, SumBalances, SumHistory,
           InsertBalance, SetReady, Throws, ReadRetries, SetError
    <3> QED
        BY <3>1 DEF Request, CreateWallet
  <2>2. CASE load[l].pc # "idle"
    <3>1. status # "ready"
        BY <2>2 DEF ReadyInv
    <3>2. CASE SetReady(l)
      <4>1. load' = [load EXCEPT ![l] = Idle] /\ \A m \in Load : m = l
          BY <3>2 DEF SetReady
      <4> QED
          BY <1>2, <3>1, <4>1 DEF Idle
    <3>3. CASE ~SetReady(l)
      <4>1. status' # "ready"
          BY <1>3, <2>2, <3>1, <3>3 DEF Request, Invoke, InvokeFails, LoadWallet, GenerateAddresses,
             AddNewAddresses, StoreLastUsed, Adopt, ReadHistory, InsertHistory, SumBalances,
             SumHistory, InsertBalance, Throws, ReadRetries, SetError
      <4> QED
          BY <3>1, <4>1
    <3> QED
        BY <3>2, <3>3
  <2> QED
      BY <2>1, <2>2
<1>4. ASSUME NEW l \in Load, Timeout(l) PROVE Idling'
  <2>1. load[l].pc # "idle" /\ status' = status
      BY <1>4 DEF Timeout
  <2> QED
      BY <2>1 DEF ReadyInv
<1>5. CASE (\E t \in Tx : BeginTx(t) \/ CommitTx(t)) \/ RollBack \/ UNCHANGED vars
  <2>1. load' = load /\ status' = status
      BY <1>5 DEF BeginTx, CommitTx, RollBack, vars
  <2> QED
      BY <1>1, <2>1 DEF ReadyInv
<1> QED
    BY <1>1, <1>3, <1>4, <1>5 DEF Next, ReadyInv

-----------------------------------------------------------------------------
(* WalletLoad: balances *)

\* The sums of the model, as sums over the elements of a set.
LEMMA AmountIsSum ==
    ASSUME NEW t \in Tx, NEW A
    PROVE  AmountIn(t, A) = SumOver(Amount[t], A \cap DOMAIN Amount[t])
BY DEF AmountIn, SumFunctionOnSet, FoldFunctionOnSet, SumOver, MapThenSumSet

LEMMA AmountFacts ==
    ASSUME NEW t \in Tx, NEW A
    PROVE  /\ AmountIn(t, A) \in Int
           /\ A \cap DOMAIN Amount[t] = {} => AmountIn(t, A) = 0
           /\ \A a \in DOMAIN Amount[t] : AmountIn(t, {a}) = Amount[t][a]
           /\ \A a : a \notin A => AmountIn(t, A \cup {a}) = AmountIn(t, A) + AmountIn(t, {a})
<1> DEFINE D == DOMAIN Amount[t]
<1>1. IsFiniteSet(D) /\ Amount[t] \in [D -> Int]
    BY LoadAssumption
<1> HIDE DEF D
<1>2. \A B : AmountIn(t, B) = SumOver(Amount[t], B \cap D)
    BY AmountIsSum DEF D
<1>3. \A B \in SUBSET D : SumOver(Amount[t], B) \in Int
    BY <1>1, SumUnfolds
<1>4. SumOver(Amount[t], {}) = 0
    BY <1>1, SumUnfolds
<1>5. \A B : B \cap D \in SUBSET D
    OBVIOUS
<1>6. ASSUME NEW a \in D PROVE AmountIn(t, {a}) = Amount[t][a]
  <2>1. {a} \cap D = {a} /\ {a} \in SUBSET D /\ a \in {a} /\ {a} \ {a} = {}
      BY <1>6
  <2>2. SumOver(Amount[t], {a}) = Amount[t][a] + SumOver(Amount[t], {})
      BY <1>1, <2>1, SumWithout
  <2>3. AmountIn(t, {a}) = SumOver(Amount[t], {a})
      BY <1>2, <2>1
  <2>4. Amount[t][a] \in Int
      BY <1>1
  <2> QED
      BY <1>4, <2>2, <2>3, <2>4
<1>7. ASSUME NEW a, a \notin A PROVE AmountIn(t, A \cup {a}) = AmountIn(t, A) + AmountIn(t, {a})
  <2>1. /\ (A \cup {a}) \cap D = (A \cap D) \cup ({a} \cap D)
        /\ (A \cap D) \cap ({a} \cap D) = {}
      BY <1>7
  <2>2. SumOver(Amount[t], (A \cap D) \cup ({a} \cap D))
          = SumOver(Amount[t], A \cap D) + SumOver(Amount[t], {a} \cap D)
      BY <1>1, <1>5, <2>1, SumOfUnion
  <2> QED
      BY <1>2, <2>1, <2>2
<1> QED
    BY <1>2, <1>3, <1>4, <1>5, <1>6, <1>7 DEF D

LEMMA SameAmount ==
    ASSUME NEW t \in Tx, NEW A, NEW B, A \cap DOMAIN Amount[t] = B \cap DOMAIN Amount[t]
    PROVE  AmountIn(t, A) = AmountIn(t, B)
BY DEF AmountIn

LEMMA BalanceIsSum ==
    ASSUME NEW txs \in SUBSET Tx, NEW A
    PROVE  BalanceOf(txs, A) = SumOver([t \in Tx |-> AmountIn(t, A)], txs)
<1> DEFINE f == [t \in txs |-> AmountIn(t, A)]
           g == [t \in Tx |-> AmountIn(t, A)]
<1>1. f \in [txs -> Int] /\ g \in [Tx -> Int] /\ DOMAIN f = txs /\ \A t \in txs : f[t] = g[t]
    BY AmountFacts
<1>2. IsFiniteSet(Tx) /\ IsFiniteSet(txs) /\ txs \in SUBSET txs
    BY LoadAssumption, FS_Subset
<1>3. BalanceOf(txs, A) = SumOver(f, DOMAIN f)
    BY DEF BalanceOf, SumFunction, SumFunctionOnSet, FoldFunctionOnSet, SumOver, MapThenSumSet
<1> HIDE DEF f, g
<1>4. SumOver(f, txs) = SumOver(g, txs)
    BY <1>1, <1>2, SumOfAlike
<1> QED
    BY <1>1, <1>3, <1>4 DEF g

LEMMA BalanceFacts ==
    ASSUME NEW txs \in SUBSET Tx, NEW A
    PROVE  /\ BalanceOf(txs, A) \in Int
           /\ Touching(txs, A) = {} => BalanceOf(txs, A) = 0
           /\ \A t \in Tx \ txs : BalanceOf(txs \cup {t}, A) = BalanceOf(txs, A) + AmountIn(t, A)
           /\ \A a : a \notin A => BalanceOf(txs, A \cup {a}) = BalanceOf(txs, A) + BalanceOf(txs, {a})
<1> DEFINE f(B) == [t \in Tx |-> AmountIn(t, B)]
<1>1. IsFiniteSet(Tx) /\ \A B : f(B) \in [Tx -> Int] /\ \A t \in Tx : f(B)[t] = AmountIn(t, B)
    BY LoadAssumption, AmountFacts
<1>2. \A T \in SUBSET Tx : \A B : BalanceOf(T, B) = SumOver(f(B), T)
    BY BalanceIsSum
<1> HIDE DEF f
<1>3. BalanceOf(txs, A) \in Int
  <2>1. f(A) \in [Tx -> Int] /\ IsFiniteSet(Tx)
      BY <1>1
  <2>2. SumOver(f(A), txs) \in Int
      BY <2>1, SumUnfolds
  <2> QED
      BY <1>2, <2>2
<1>4. ASSUME Touching(txs, A) = {} PROVE BalanceOf(txs, A) = 0
  <2>1. \A t \in txs : f(A)[t] = 0
      BY <1>1, <1>4, AmountFacts DEF Touching
  <2>2. SumOver(f(A), txs) = 0
      BY <1>1, <2>1, SumOfZeros
  <2> QED
      BY <1>2, <2>2
<1>5. ASSUME NEW t \in Tx \ txs PROVE BalanceOf(txs \cup {t}, A) = BalanceOf(txs, A) + AmountIn(t, A)
  <2>1. txs \cup {t} \in SUBSET Tx /\ t \in txs \cup {t} /\ (txs \cup {t}) \ {t} = txs
      BY <1>5
  <2>2. SumOver(f(A), txs \cup {t}) = f(A)[t] + SumOver(f(A), txs)
      BY <1>1, <2>1, SumWithout
  <2>3. AmountIn(t, A) \in Int
      BY AmountFacts
  <2> QED
      BY <1>1, <1>2, <1>3, <2>1, <2>2, <2>3
<1>6. ASSUME NEW a, a \notin A PROVE BalanceOf(txs, A \cup {a}) = BalanceOf(txs, A) + BalanceOf(txs, {a})
  <2> DEFINE whole == f(A \cup {a})
             part == f(A)
             rest == f({a})
  <2>1. \A t \in txs : whole[t] = part[t] + rest[t]
      BY <1>1, <1>6, AmountFacts
  <2>2. whole \in [Tx -> Int] /\ part \in [Tx -> Int] /\ rest \in [Tx -> Int] /\ IsFiniteSet(Tx)
      BY <1>1
  <2>3. /\ BalanceOf(txs, A \cup {a}) = SumOver(whole, txs)
        /\ BalanceOf(txs, A) = SumOver(part, txs)
        /\ BalanceOf(txs, {a}) = SumOver(rest, txs)
      BY <1>2
  <2> HIDE DEF whole, part, rest
  <2>4. SumOver(whole, txs) = SumOver(part, txs) + SumOver(rest, txs)
      BY <2>1, <2>2, SumOfPlus
  <2> QED
      BY <2>3, <2>4
<1> QED
    BY <1>3, <1>4, <1>5, <1>6

\* A balance looks at no address that the transactions do not touch.
LEMMA SameBalance ==
    ASSUME NEW txs \in SUBSET Tx, NEW A, NEW B,
           \A t \in txs : A \cap DOMAIN Amount[t] = B \cap DOMAIN Amount[t]
    PROVE  BalanceOf(txs, A) = BalanceOf(txs, B) /\ Touching(txs, A) = Touching(txs, B)
<1> DEFINE f == [t \in txs |-> AmountIn(t, A)]
           g == [t \in txs |-> AmountIn(t, B)]
<1>1. f = g
    BY SameAmount
<1>2. BalanceOf(txs, A) = BalanceOf(txs, B)
    BY <1>1 DEF BalanceOf
<1> QED
    BY <1>2 DEF Touching

LEMMA AddressIsFinite == Address \in SUBSET Nat /\ IsFiniteSet(Address)
BY UsedByFacts DEF UsedBy, Address

\* When no address is below zero, no set of addresses is.
LEMMA BalanceIsNat ==
    ASSUME NEW txs \in SUBSET Tx, \A a \in Address : BalanceOf(txs, {a}) >= 0, NEW A
    PROVE  BalanceOf(txs, A) \in Nat
<1> DEFINE P == {B \in SUBSET Address : BalanceOf(txs, B) \in Nat}
<1>1. {} \in P
  <2>1. Touching(txs, {}) = {}
      BY DEF Touching
  <2>2. BalanceOf(txs, {}) = 0
      BY <2>1, BalanceFacts
  <2> QED
      BY <2>2
<1>2. ASSUME NEW B \in SUBSET Address, NEW a \in Address \ B, B \in P PROVE B \cup {a} \in P
  <2>1. BalanceOf(txs, B \cup {a}) = BalanceOf(txs, B) + BalanceOf(txs, {a})
      BY BalanceFacts
  <2>2. BalanceOf(txs, {a}) \in Int /\ BalanceOf(txs, B) \in Nat /\ BalanceOf(txs, {a}) >= 0
      BY <1>2, BalanceFacts
  <2> QED
      BY <2>1, <2>2
<1> HIDE DEF P
<1>3. SUBSET Address \subseteq P
    BY <1>1, <1>2, AddressIsFinite, InductionOnSets
<1>4. \A t \in txs : A \cap DOMAIN Amount[t] = (A \cap Address) \cap DOMAIN Amount[t]
    BY DEF Address
<1>5. BalanceOf(txs, A) = BalanceOf(txs, A \cap Address)
    BY <1>4, SameBalance
<1> QED
    BY <1>3, <1>5 DEF P

-----------------------------------------------------------------------------
(* WalletLoad: indexes *)

\* Gap unused indexes follow the last used one, and the addresses end with them.
LEMMA LastUsedIndexFacts ==
    ASSUME NEW U \in SUBSET Nat, IsFiniteSet(U)
    PROVE  /\ LastUsedIndex(U) \in U \cup {-1}
           /\ LastUsedIndex(U) \in Nat \cup {-1}
           /\ ((LastUsedIndex(U) + 1) .. (LastUsedIndex(U) + Gap)) \cap U = {}
           /\ Addresses(U) = 0 .. (LastUsedIndex(U) + Gap)
           /\ Addresses(U) \in SUBSET Nat
           /\ Addresses(U) \subseteq 0 .. Checked(U)
<1> DEFINE h == Checked(U)
<1>1. h \in Nat /\ LastUsedUpTo(U, h) + Gap <= h
    BY CheckedFacts, BlockEnds DEF Covered
<1> HIDE DEF h
<1>2. LastUsedIndex(U) = LastUsedUpTo(U, h)
    BY DEF LastUsedIndex, h
<1>3. /\ LastUsedIndex(U) \in U \cup {-1} /\ LastUsedIndex(U) \in Nat \cup {-1}
      /\ \A i \in U : i <= h => i <= LastUsedIndex(U)
    BY <1>1, <1>2, LastUsedFacts
<1>4. LastUsedIndex(U) + Gap <= h
    BY <1>1, <1>2
<1> DEFINE n == LastUsedIndex(U)
<1>5. n \in Nat \cup {-1} /\ n + Gap \in Nat
    BY <1>3
<1>6. Addresses(U) = 0 .. (n + Gap)
    BY DEF Addresses
<1>7. ((n + 1) .. (n + Gap)) \cap U = {}
  <2> HIDE DEF n
  <2>1. ASSUME NEW i \in (n + 1) .. (n + Gap), i \in U PROVE FALSE
    <3>1. n + Gap <= h /\ \A j \in U : j <= h => j <= n
        BY <1>3, <1>4 DEF n
    <3>2. i <= h
        BY <1>1, <1>5, <2>1, <3>1
    <3> QED
        BY <1>5, <2>1, <3>1, <3>2
  <2> QED
      BY <2>1
<1>8. 0 .. (n + Gap) \subseteq 0 .. h
    BY <1>1, <1>4, <1>5
<1>9. 0 .. (n + Gap) \in SUBSET Nat
    BY <1>5
<1> QED
    BY <1>3, <1>6, <1>7, <1>8, <1>9 DEF h

LEMMA LastUsedGrows ==
    ASSUME NEW U \in SUBSET Nat, NEW V \in SUBSET Nat, U \subseteq V, IsFiniteSet(V)
    PROVE  LastUsedIndex(U) <= LastUsedIndex(V)
<1>1. IsFiniteSet(U)
    BY FS_Subset
<1> DEFINE m == LastUsedIndex(U)
           n == LastUsedIndex(V)
<1>2. m \in Nat \cup {-1} /\ Addresses(U) = 0 .. (m + Gap)
    BY <1>1, LastUsedIndexFacts
<1>3. n \in Nat \cup {-1} /\ Addresses(V) = 0 .. (n + Gap)
    BY LastUsedIndexFacts
<1> HIDE DEF m, n
<1>4. Addresses(U) \subseteq Addresses(V)
    BY AddressesGrow
<1>5. m + Gap \in 0 .. (m + Gap)
    BY <1>2
<1>6. m + Gap \in 0 .. (n + Gap)
    BY <1>2, <1>3, <1>4, <1>5
<1>7. m <= n
    BY <1>2, <1>3, <1>6
<1> QED
    BY <1>7 DEF m, n

LEMMA MaxOfInterval == ASSUME NEW n \in Nat PROVE Max(0 .. n) = n
<1>1. (0 .. n) \in SUBSET Int /\ (0 .. n) # {} /\ n \in 0 .. n /\ \A x \in 0 .. n : x <= n
    OBVIOUS
<1>2. Max(0 .. n) \in 0 .. n /\ \A x \in 0 .. n : x <= Max(0 .. n)
    BY <1>1, MaxOfBounded
<1> QED
    BY <1>1, <1>2

LEMMA MaxWithZero ==
    ASSUME NEW n \in Int
    PROVE  Max({0, n}) \in Nat /\ (n >= 0 => Max({0, n}) = n)
<1>1. CASE n >= 0
  <2>1. {0, n} \in SUBSET Int /\ {0, n} # {} /\ \A x \in {0, n} : x <= n
      BY <1>1
  <2>2. Max({0, n}) \in {0, n} /\ \A x \in {0, n} : x <= Max({0, n})
      BY <2>1, MaxOfBounded
  <2> QED
      BY <1>1, <2>2
<1>2. CASE n < 0
  <2>1. {0, n} \in SUBSET Int /\ {0, n} # {} /\ \A x \in {0, n} : x <= 0
      BY <1>2
  <2>2. Max({0, n}) \in {0, n} /\ \A x \in {0, n} : x <= Max({0, n})
      BY <2>1, MaxOfBounded
  <2> QED
      BY <1>2, <2>2
<1> QED
    BY <1>1, <1>2

LEMMA FiniteIsBounded ==
    ASSUME NEW U \in SUBSET Nat, IsFiniteSet(U)
    PROVE  \E b \in Nat : \A x \in U : x <= b
<1> DEFINE P == {S \in SUBSET U : \E b \in Nat : \A x \in S : x <= b}
<1>1. {} \in P
    OBVIOUS
<1>2. ASSUME NEW S \in SUBSET U, NEW x \in U \ S, S \in P PROVE S \cup {x} \in P
  <2>1. PICK b \in Nat : \A y \in S : y <= b
      BY <1>2
  <2>2. b + x \in Nat /\ \A y \in S \cup {x} : y <= b + x
      BY <2>1
  <2> QED
      BY <2>2
<1> HIDE DEF P
<1>3. SUBSET U \subseteq P
    BY <1>1, <1>2, InductionOnSets
<1> QED
    BY <1>3 DEF P

LEMMA LastUsedRange == \A i \in Address \cup {-1} : i \in -1 .. Max(Address \cup {0})
<1>1. PICK b \in Nat : \A x \in Address : x <= b
    BY AddressIsFinite, FiniteIsBounded
<1> DEFINE S == Address \cup {0}
<1>2. S \in SUBSET Int /\ S # {} /\ \A x \in S : x <= b
    BY <1>1, AddressIsFinite
<1> HIDE DEF S
<1>3. Max(S) \in S /\ \A x \in S : x <= Max(S)
    BY <1>1, <1>2, MaxOfBounded
<1> DEFINE top == Max(S)
<1>4. top \in S /\ \A x \in S : x <= top
    BY <1>3
<1> HIDE DEF top
<1>5. \A x \in S : x \in Nat
    BY AddressIsFinite DEF S
<1>6. \A x \in Address : x \in S
    BY DEF S
<1>7. \A i \in Address \cup {-1} : i \in -1 .. top
    BY <1>4, <1>5, <1>6
<1>8. top = Max(Address \cup {0})
    BY DEF S, top
<1> QED
    BY <1>7, <1>8

LEMMA OneLoad ==
    ASSUME \A l, m \in Load : l = m, NEW l \in Load
    PROVE  Cardinality(Load) = 1
<1>1. Load = {l}
    OBVIOUS
<1>2. Cardinality({l}) = 1
    BY FS_Singleton
<1> QED
    BY <1>1, <1>2

LEMMA LoadIsFinite ==
    ASSUME \A l, m \in Load : l = m
    PROVE  Cardinality(Load) \in Nat
<1>1. CASE Load = {}
    BY <1>1, FS_EmptySet
<1>2. CASE Load # {}
    BY <1>2, OneLoad
<1> QED
    BY <1>1, <1>2

-----------------------------------------------------------------------------
(* WalletLoad: types *)

\* The local state of an execution.
Executions ==
    [pc : Steps, retries : Nat, new : SUBSET Nat, todo : SUBSET Nat, addresses : SUBSET Nat,
     history : SUBSET Tx, balance : Nat \cup {NoRow}]

\* The addresses of an execution end Gap after an index that was the last used one.
Reaches(r) ==
    \E k \in Used \cup {-1} : k <= LastUsedIndex(Used) /\ r.addresses = 0 .. (k + Gap)

Sane(r) ==
    /\ r \in Executions
    /\ r.history \subseteq accepted
    /\ r.pc # "idle" => retryCount < MaxRetries \/ retryCount = 0
    /\ r.pc \in {"requested", "setError"} => r.retries = retryCount
    /\ r.pc \in {"addNew", "storeLastUsed"} => Reaches(r)

\* The columns of the wallet and what the transactions carry.
ColumnTypes ==
    /\ status \in {"none", "creating", "error", "ready"}
    /\ retryCount \in 0 .. (MaxRetries + Cardinality(Load))
    /\ status = "none" => retryCount = 0
    /\ wHistory \in SUBSET accepted
    /\ wBalance \in Nat \cup {NoRow}
    /\ lastUsed \in Used \cup {-1}
    /\ lastUsed <= LastUsedIndex(Used)

HistoryTypes ==
    /\ snapshot.tx \subseteq Tx \ accepted
    /\ unseen \subseteq accepted
    /\ failures \in 0 .. MaxFailures
    /\ timeouts \in 0 .. MaxTimeouts
    /\ \A a \in Address : BalanceOf(accepted, {a}) >= 0

LoadTypes ==
    /\ ReadyInv
    /\ ColumnTypes
    /\ HistoryTypes
    /\ \A l \in Load : Sane(load[l])

LEMMA LoadTypesAreTypeOK == LoadTypes => TypeOK
<1> SUFFICES ASSUME LoadTypes PROVE TypeOK
    OBVIOUS
<1>1. accepted \in SUBSET Tx
    BY DEF LoadTypes, ReadyInv, AddressInv
<1>2. Used \in SUBSET Nat /\ IsFiniteSet(Used) /\ Used \subseteq Address
    BY <1>1, UsedByFacts DEF Used, UsedBy, Address
<1>3. owned \subseteq Nat
    BY <1>2, LastUsedIndexFacts DEF LoadTypes, ReadyInv, AddressInv
<1>4. lastUsed \in -1 .. Max(Address \cup {0})
  <2>1. lastUsed \in Address \cup {-1}
      BY <1>2 DEF LoadTypes, ColumnTypes
  <2> QED
      BY <2>1, LastUsedRange
<1>5. \A l \in Load : /\ DOMAIN load[l] = DOMAIN Idle
                      /\ load[l].pc \in Steps
                      /\ load[l].history \in SUBSET accepted
                      /\ load[l].balance \in Nat \cup {NoRow}
    BY DEF LoadTypes, ReadyInv, AddressInv, Within, Sane, Executions
<1> QED
    BY <1>1, <1>3, <1>4, <1>5 DEF TypeOK, LoadTypes, ColumnTypes, HistoryTypes

LEMMA InitLoadTypes ==
    ASSUME \A l, m \in Load : l = m
    PROVE  Init => LoadTypes
<1> SUFFICES ASSUME Init PROVE LoadTypes
    OBVIOUS
<1>1. ReadyInv
    BY InitAddressInv DEF Init, ReadyInv
<1>2. accepted = {} /\ Used = {} /\ LastUsedIndex(Used) = -1
  <2>1. accepted = {} /\ Used = {}
      BY DEF Init, Used, UsedBy
  <2>2. LastUsedIndex({}) \in {} \cup {-1}
      BY FS_EmptySet, LastUsedIndexFacts
  <2> QED
      BY <2>1, <2>2
<1>3. ColumnTypes
    BY <1>2, LoadIsFinite, LoadAssumption DEF Init, ColumnTypes
<1>4. HistoryTypes
  <2>1. \A a \in Address : Touching(accepted, {a}) = {}
      BY <1>2 DEF Touching
  <2>2. \A a \in Address : BalanceOf(accepted, {a}) = 0
      BY <1>2, <2>1, BalanceFacts
  <2> QED
      BY <2>2, LoadAssumption DEF Init, HistoryTypes, NoSnapshot
<1>5. \A l \in Load : Sane(load[l])
    BY DEF Init, Sane, Executions, Idle, Steps, NoRow
<1> QED
    BY <1>1, <1>3, <1>4, <1>5 DEF LoadTypes

\* What a step of an execution does to the columns and to its local state.
LEMMA SameUsed ==
    ASSUME accepted' = accepted
    PROVE  Used' = Used /\ LastUsedIndex(Used)' = LastUsedIndex(Used)
BY DEF Used, UsedBy, LastUsedIndex, Checked, Covered, LastUsedUpTo

LEMMA LoadKeepsTypes ==
    ASSUME \A l, m \in Load : l = m, LoadTypes, NEW l \in Load,
           load'[l] \in Executions, load'[l].history \subseteq accepted,
           load'[l].pc # "idle" => retryCount' < MaxRetries \/ retryCount' = 0,
           load'[l].pc \in {"requested", "setError"} => load'[l].retries = retryCount',
           load'[l].pc \in {"addNew", "storeLastUsed"} => Reaches(load'[l]),
           accepted' = accepted
    PROVE  \A m \in Load : Sane(load[m])'
<1>1. \A m \in Load : m = l
    OBVIOUS
<1>2. Used' = Used /\ LastUsedIndex(Used)' = LastUsedIndex(Used)
    BY SameUsed
<1>3. Sane(load[l])'
  <2>1. Reaches(load'[l]) => Reaches(load[l])'
      BY <1>2 DEF Reaches
  <2> QED
      BY <2>1 DEF Sane
<1> QED
    BY <1>1, <1>3

\* A step of the load l
Moves(l) == Request(l) \/ Invoke(l) \/ InvokeFails(l) \/ LoadWallet(l) \/ Timeout(l)

LEMMA StepKeepsTypes ==
    ASSUME \A l, m \in Load : l = m, LoadTypes, NEW l \in Load, Moves(l)
    PROVE  ColumnTypes' /\ HistoryTypes' /\ \A m \in Load : Sane(load[m])'
<1>1. /\ accepted \in SUBSET Tx /\ Used \in SUBSET Nat /\ IsFiniteSet(Used)
      /\ owned \subseteq Addresses(Used) /\ DOMAIN load = Load
    BY UsedByFacts DEF LoadTypes, ReadyInv, AddressInv, Used
<1>2. /\ load[l] \in Executions /\ load[l].history \subseteq accepted
      /\ load[l].pc # "idle" => retryCount < MaxRetries \/ retryCount = 0
      /\ load[l].pc \in {"requested", "setError"} => load[l].retries = retryCount
      /\ load[l].pc \in {"addNew", "storeLastUsed"} => Reaches(load[l])
    BY DEF LoadTypes, Sane
<1>3. /\ LastUsedIndex(Used) \in Used \cup {-1} /\ LastUsedIndex(Used) \in Nat \cup {-1}
      /\ Addresses(Used) = 0 .. (LastUsedIndex(Used) + Gap) /\ Addresses(Used) \in SUBSET Nat
    BY <1>1, LastUsedIndexFacts
<1>4. Cardinality(Load) = 1 /\ MaxRetries \in Nat /\ retryCount \in Nat
    BY OneLoad, LoadAssumption DEF LoadTypes, ColumnTypes
<1>5. Idle \in Executions /\ \A p \in Steps : [Idle EXCEPT !.pc = p] \in Executions
    BY DEF Idle, Executions, Steps, NoRow
<1> DEFINE r == load[l]
           rr == load'[l]
           Local == /\ rr \in Executions /\ rr.history \subseteq accepted
                    /\ rr.pc # "idle" => retryCount' < MaxRetries \/ retryCount' = 0
                    /\ rr.pc \in {"requested", "setError"} => rr.retries = retryCount'
                    /\ rr.pc \in {"addNew", "storeLastUsed"} => Reaches(rr)
           Columns == /\ status' \in {"none", "creating", "error", "ready"}
                      /\ retryCount' \in 0 .. (MaxRetries + Cardinality(Load))
                      /\ status' = "none" => retryCount' = 0
                      /\ wHistory' \in SUBSET accepted
                      /\ wBalance' \in Nat \cup {NoRow}
                      /\ lastUsed' \in Used \cup {-1}
                      /\ lastUsed' <= LastUsedIndex(Used)
           Counts == failures' \in 0 .. MaxFailures /\ timeouts' \in 0 .. MaxTimeouts
           Rest == accepted' = accepted /\ snapshot' = snapshot /\ unseen' = unseen
<1>6. SUFFICES Local /\ Columns /\ Counts /\ Rest
  <2>1. Used' = Used /\ LastUsedIndex(Used)' = LastUsedIndex(Used)
      BY SameUsed
  <2>2. ColumnTypes'
      BY <2>1 DEF ColumnTypes
  <2>3. \A a \in Address : BalanceOf(accepted, {a}) >= 0
      BY DEF LoadTypes, HistoryTypes
  <2>4. \A a \in Address : BalanceOf(accepted', {a}) >= 0
      BY <2>3
  <2>5. HistoryTypes'
      BY <2>4 DEF LoadTypes, HistoryTypes
  <2>6. \A m \in Load : Sane(load[m])'
      BY LoadKeepsTypes
  <2> QED
      BY <2>2, <2>5, <2>6
<1>7. /\ r.pc \in Steps /\ r.retries \in Nat
      /\ r.new \in SUBSET Nat /\ r.todo \in SUBSET Nat /\ r.addresses \in SUBSET Nat
      /\ r.history \in SUBSET Tx /\ r.balance \in Nat \cup {NoRow}
    BY <1>2 DEF Executions
<1>9. CASE Request(l)
  <2>1. rr = [Idle EXCEPT !.pc = "requested", !.retries = retryCount]
      BY <1>1, <1>9 DEF Request
  <2>2. rr \in Executions /\ rr.history = {} /\ rr.pc = "requested" /\ rr.retries = retryCount
      BY <1>4, <2>1 DEF Idle, Executions, Steps, NoRow
  <2>3. retryCount' = retryCount /\ (retryCount < MaxRetries \/ retryCount = 0)
      BY <1>9 DEF Request, CreateWallet, LoadTypes, ColumnTypes
  <2>4. Columns /\ Counts /\ Rest
      BY <1>9 DEF Request, CreateWallet, LoadTypes, ColumnTypes, HistoryTypes, tables, txVars
  <2> QED
      BY <2>2, <2>3, <2>4
<1>10. CASE Invoke(l) \/ InvokeFails(l)
  <2>1. /\ r.pc = "requested"
        /\ \/ rr = [r EXCEPT !.pc = "generate"]
           \/ rr = [r EXCEPT !.pc = "setError"]
      BY <1>1, <1>10 DEF Invoke, InvokeFails, Goto
  <2>2. Local
      BY <1>2, <1>10, <2>1 DEF Invoke, InvokeFails, Executions, Steps
  <2>3. Columns /\ Counts /\ Rest
      BY <1>10, LoadAssumption DEF Invoke, InvokeFails, LoadTypes, ColumnTypes, HistoryTypes, tables, txVars
  <2> QED
      BY <2>2, <2>3
<1>11. CASE GenerateAddresses(l)
  <2>1. rr = [r EXCEPT !.pc = "addNew", !.addresses = Addresses(Used),
                       !.new = NewAddresses(Used, Rows), !.todo = ExistingAddresses(Used, Rows)]
      BY <1>1, <1>11 DEF GenerateAddresses
  <2>2. NewAddresses(Used, Rows) \in SUBSET Nat /\ ExistingAddresses(Used, Rows) \in SUBSET Nat
      BY <1>1, <1>3 DEF NewAddresses, ExistingAddresses, Rows
  <2>3. rr \in Executions /\ rr.history = r.history /\ rr.pc = "addNew" /\ rr.addresses = Addresses(Used)
    <3> HIDE DEF rr
    <3> QED
        BY <1>2, <1>3, <2>1, <2>2 DEF Executions, Steps
  <2>4. Reaches(rr)
      BY <1>3, <2>3 DEF Reaches
  <2>5. r.pc = "generate"
      BY <1>11 DEF GenerateAddresses
  <2>6. Columns /\ Counts /\ Rest /\ retryCount' = retryCount
      BY <1>11 DEF GenerateAddresses, LoadTypes, ColumnTypes, HistoryTypes, tables, txVars
  <2> QED
      BY <1>2, <2>3, <2>4, <2>5, <2>6
<1>12. CASE AddNewAddresses(l)
  <2>1. r.pc = "addNew" /\ rr = [r EXCEPT !.pc = IF r.new = {} THEN "adopt" ELSE "storeLastUsed"]
      BY <1>1, <1>12 DEF AddNewAddresses, Goto
  <2>2. Local
    <3>1. /\ rr \in Executions /\ rr.history = r.history /\ rr.addresses = r.addresses
          /\ rr.pc \in {"adopt", "storeLastUsed"}
        BY <1>2, <2>1 DEF Executions, Steps
    <3>2. Reaches(rr)
        BY <1>2, <2>1, <3>1 DEF Reaches
    <3> QED
        BY <1>2, <1>12, <2>1, <3>1, <3>2 DEF AddNewAddresses
  <2>3. Columns /\ Counts /\ Rest
      BY <1>12 DEF AddNewAddresses, LoadTypes, ColumnTypes, HistoryTypes, txVars
  <2> QED
      BY <2>2, <2>3
<1>13. CASE StoreLastUsed(l)
  <2>1. r.pc = "storeLastUsed" /\ rr = [r EXCEPT !.pc = "adopt"]
      BY <1>1, <1>13 DEF StoreLastUsed, Goto
  <2>2. Local
      BY <1>2, <1>13, <2>1 DEF StoreLastUsed, Executions, Steps
  <2>3. PICK k \in Used \cup {-1} : k <= LastUsedIndex(Used) /\ r.addresses = 0 .. (k + Gap)
      BY <1>2, <2>1 DEF Reaches
  <2>4. k \in Int /\ k + Gap \in Nat
      BY <1>1, <2>3
  <2>5. Max(r.addresses) = k + Gap
      BY <2>3, <2>4, MaxOfInterval
  <2>6. lastUsed' = k
      BY <1>13, <2>4, <2>5 DEF StoreLastUsed
  <2>7. Columns /\ Counts /\ Rest
      BY <1>13, <2>3, <2>6 DEF StoreLastUsed, LoadTypes, ColumnTypes, HistoryTypes, txVars
  <2> QED
      BY <2>2, <2>7
<1>14. ASSUME NEW a \in r.todo, Adopt(l, a) PROVE Local /\ Columns /\ Counts /\ Rest
  <2>1. r.pc = "adopt" /\ rr = [r EXCEPT !.todo = r.todo \ {a}]
      BY <1>1, <1>14 DEF Adopt
  <2>2. Local
      BY <1>2, <1>7, <1>14, <2>1 DEF Adopt, Executions, Steps
  <2>3. Columns /\ Counts /\ Rest
      BY <1>14 DEF Adopt, LoadTypes, ColumnTypes, HistoryTypes, txVars
  <2> QED
      BY <2>2, <2>3
<1>15. CASE ReadHistory(l)
  <2> DEFINE found == Touching(accepted, r.addresses)
  <2>1. rr = [r EXCEPT !.history = found, !.pc = IF found = {} THEN "sumBalances" ELSE "insertHistory"]
      BY <1>1, <1>15 DEF ReadHistory
  <2>2. found \in SUBSET accepted /\ found \in SUBSET Tx
      BY <1>1 DEF Touching
  <2>3. Local
    <3>1. r.pc = "adopt" /\ retryCount' = retryCount
        BY <1>15 DEF ReadHistory
    <3> HIDE DEF found, rr
    <3>2. rr \in Executions /\ rr.history = found /\ rr.pc \in {"sumBalances", "insertHistory"}
        BY <1>2, <2>1, <2>2 DEF Executions, Steps
    <3> QED
        BY <1>2, <2>2, <3>1, <3>2
  <2>4. Columns /\ Counts /\ Rest
      BY <1>15 DEF ReadHistory, LoadTypes, ColumnTypes, HistoryTypes, tables, txVars
  <2> QED
      BY <2>3, <2>4
<1>16. CASE SumBalances(l)
  <2> DEFINE sum == IF Touching(accepted, r.addresses) = {} THEN NoRow ELSE BalanceOf(accepted, r.addresses)
  <2>1. rr = [r EXCEPT !.pc = "sumHistory", !.balance = sum]
      BY <1>1, <1>16 DEF SumBalances
  <2>2. sum \in Nat \cup {NoRow}
    <3>1. BalanceOf(accepted, r.addresses) \in Nat
        BY <1>1, BalanceIsNat DEF LoadTypes, HistoryTypes
    <3> QED
        BY <3>1
  <2>3. Local
    <3>1. r.pc = "sumBalances" /\ retryCount' = retryCount
        BY <1>16 DEF SumBalances
    <3> HIDE DEF sum, rr
    <3>2. rr \in Executions /\ rr.history = r.history /\ rr.pc = "sumHistory"
        BY <1>2, <2>1, <2>2 DEF Executions, Steps
    <3> QED
        BY <1>2, <3>1, <3>2
  <2>4. Columns /\ Counts /\ Rest
      BY <1>16 DEF SumBalances, LoadTypes, ColumnTypes, HistoryTypes, tables, txVars
  <2> QED
      BY <2>3, <2>4
<1>17. CASE InsertHistory(l) \/ SumHistory(l) \/ Throws(l)
  <2>1. /\ r.pc \notin {"idle", "requested", "setError"}
        /\ \/ rr = [r EXCEPT !.pc = "sumBalances"]
           \/ rr = [r EXCEPT !.pc = "setReady"]
           \/ rr = [r EXCEPT !.pc = "insertBalance"]
           \/ rr = [r EXCEPT !.pc = "readRetries"]
      BY <1>1, <1>17 DEF InsertHistory, SumHistory, Throws, Goto
  <2>2. Local
      BY <1>2, <1>17, <2>1 DEF InsertHistory, SumHistory, Throws, Executions, Steps
  <2>3. Columns /\ Counts /\ Rest
      BY <1>2, <1>17 DEF InsertHistory, SumHistory, Throws, LoadTypes, ColumnTypes, HistoryTypes, tables, txVars
  <2> QED
      BY <2>2, <2>3
<1>18. CASE InsertBalance(l)
  <2>1. r.pc = "insertBalance" /\ rr = [r EXCEPT !.pc = "setReady"]
      BY <1>1, <1>18 DEF InsertBalance, Goto
  <2>2. Local
      BY <1>2, <1>18, <2>1 DEF InsertBalance, Executions, Steps
  <2>3. Columns /\ Counts /\ Rest
      BY <1>7, <1>18 DEF InsertBalance, LoadTypes, ColumnTypes, HistoryTypes, txVars
  <2> QED
      BY <2>2, <2>3
<1>19. CASE SetReady(l)
  <2>1. rr = Idle /\ retryCount' = 0 /\ status' = "ready"
      BY <1>1, <1>19 DEF SetReady
  <2>2. Local
      BY <1>5, <2>1 DEF Idle
  <2>3. Columns /\ Counts /\ Rest
      BY <1>4, <1>19, <2>1 DEF SetReady, LoadTypes, ColumnTypes, HistoryTypes, tables, txVars
  <2> QED
      BY <2>2, <2>3
<1>20. CASE ReadRetries(l)
  <2>1. r.pc = "readRetries" /\ rr = [r EXCEPT !.pc = "setError", !.retries = retryCount]
      BY <1>1, <1>20 DEF ReadRetries
  <2>2. Local
    <3>1. retryCount' = retryCount
        BY <1>20 DEF ReadRetries
    <3> HIDE DEF rr
    <3>2. rr \in Executions /\ rr.history = r.history /\ rr.pc = "setError" /\ rr.retries = retryCount
        BY <1>2, <1>4, <2>1 DEF Executions, Steps
    <3> QED
        BY <1>2, <2>1, <3>1, <3>2
  <2>3. Columns /\ Counts /\ Rest
      BY <1>20 DEF ReadRetries, LoadTypes, ColumnTypes, HistoryTypes, tables, txVars
  <2> QED
      BY <2>2, <2>3
<1>21. CASE SetError(l)
  <2>1. /\ r.pc = "setError" /\ rr = Idle /\ retryCount' = retryCount + 1 /\ status' = "error"
        /\ retryCount < MaxRetries \/ retryCount = 0
      BY <1>1, <1>2, <1>21 DEF SetError
  <2>2. Local
      BY <1>5, <2>1 DEF Idle
  <2>3. Columns /\ Counts /\ Rest
      BY <1>4, <1>21, <2>1 DEF SetError, LoadTypes, ColumnTypes, HistoryTypes, tables, txVars
  <2> QED
      BY <2>2, <2>3
<1>22. CASE Timeout(l)
  <2>1. r.pc # "idle" /\ (rr = Idle \/ rr = [Idle EXCEPT !.pc = "generate"])
      BY <1>1, <1>22 DEF Timeout
  <2>2. Local
      BY <1>2, <1>5, <1>22, <2>1 DEF Timeout, Idle, Steps
  <2>3. Columns /\ Counts /\ Rest
      BY <1>22, LoadAssumption DEF Timeout, LoadTypes, ColumnTypes, HistoryTypes, tables, txVars
  <2> QED
      BY <2>2, <2>3
<1> QED
    BY <1>9, <1>10, <1>11, <1>12, <1>13, <1>14, <1>15, <1>16, <1>17, <1>18, <1>19, <1>20,
       <1>21, <1>22 DEF Moves, LoadWallet

\* The indexes that are used once addNewTx has stored t.
UsedWith(t) == UsedBy(accepted \cup {t})

LEMMA CommitFacts ==
    ASSUME LoadTypes, NEW t \in Tx, CommitTx(t)
    PROVE  /\ accepted \in SUBSET Tx /\ t \in Tx \ accepted /\ accepted' = accepted \cup {t}
           /\ UsedWith(t) \in SUBSET Nat /\ IsFiniteSet(UsedWith(t))
           /\ Used \in SUBSET Nat /\ IsFiniteSet(Used)
           /\ UsedWith(t) = Used \cup DOMAIN Amount[t]
           /\ Used' = UsedWith(t)
           /\ LastUsedIndex(Used)' = LastUsedIndex(UsedWith(t))
           /\ LastUsedIndex(Used) \in Int /\ LastUsedIndex(UsedWith(t)) \in Int
           /\ LastUsedIndex(Used) <= LastUsedIndex(UsedWith(t))
           /\ LastUsedIndex(UsedWith(t)) \in UsedWith(t) \cup {-1}
<1> DEFINE B == UsedWith(t)
<1>1. accepted \in SUBSET Tx /\ accepted' = accepted \cup {t} /\ t \in Tx \ accepted
    BY DEF CommitTx, LoadTypes, HistoryTypes, ReadyInv, AddressInv
<1>2. /\ Used \in SUBSET Nat /\ IsFiniteSet(Used)
      /\ B \in SUBSET Nat /\ IsFiniteSet(B)
      /\ B = Used \cup DOMAIN Amount[t]
  <2>1. accepted \cup {t} \in SUBSET Tx
      BY <1>1
  <2>2. B \in SUBSET Nat /\ IsFiniteSet(B)
      BY <2>1, UsedByFacts DEF UsedWith
  <2>3. Used \in SUBSET Nat /\ IsFiniteSet(Used)
      BY <1>1, UsedByFacts DEF Used
  <2>4. B = Used \cup DOMAIN Amount[t]
      BY DEF Used, UsedBy, UsedWith
  <2> QED
      BY <2>2, <2>3, <2>4
<1>3. Used' = B
    BY <1>1 DEF Used, UsedBy, UsedWith
<1>4. LastUsedIndex(Used)' = LastUsedIndex(B)
    BY <1>3 DEF LastUsedIndex, Checked, Covered, LastUsedUpTo
<1> HIDE DEF B
<1>5. LastUsedIndex(Used) <= LastUsedIndex(B)
    BY <1>2, LastUsedGrows
<1>6. LastUsedIndex(B) \in Int /\ LastUsedIndex(B) \in B \cup {-1}
    BY <1>2, LastUsedIndexFacts
<1>7. LastUsedIndex(Used) \in Int
    BY <1>2, LastUsedIndexFacts
<1> QED
    BY <1>1, <1>2, <1>3, <1>4, <1>5, <1>6, <1>7 DEF B

LEMMA CommitKeepsTypes ==
    ASSUME LoadTypes, NEW t \in Tx, CommitTx(t)
    PROVE  ColumnTypes' /\ HistoryTypes' /\ \A m \in Load : Sane(load[m])'
<1> DEFINE B == UsedWith(t)
           mine == MineOf(t)
           new == NewAddresses(B, snapshot.owned \cup B)
<1>0. accepted \in SUBSET Tx /\ t \in Tx \ accepted
    BY CommitFacts
<1>1. /\ Used \in SUBSET Nat /\ B \in SUBSET Nat /\ IsFiniteSet(B) /\ Used \subseteq B
      /\ Used' = B
      /\ LastUsedIndex(Used)' = LastUsedIndex(B)
      /\ LastUsedIndex(Used) <= LastUsedIndex(B)
    BY CommitFacts
<1>2. LastUsedIndex(B) \in B \cup {-1} /\ LastUsedIndex(B) \in Int /\ LastUsedIndex(Used) \in Int
    BY CommitFacts
<1>3. /\ accepted' = accepted \cup {t}
      /\ \/ UNCHANGED <<owned, wHistory, wBalance, lastUsed>>
         \/ /\ mine # {}
            /\ lastUsed' = IF new = {} THEN lastUsed ELSE LastUsedIndex(B)
            /\ wHistory' = wHistory \cup {t}
            /\ wBalance' = IF wBalance = NoRow THEN Max({0, AmountIn(t, mine)})
                           ELSE wBalance + AmountIn(t, mine)
      /\ mine # {} /\ wBalance # NoRow => wBalance + AmountIn(t, mine) >= 0
      /\ status' = status /\ retryCount' = retryCount /\ load' = load
      /\ failures' = failures /\ timeouts' = timeouts
      /\ unseen' \subseteq unseen \cup {t}
      /\ snapshot' = NoSnapshot
      /\ Funded(t)
    BY DEF CommitTx, WalletCovers, UsedWith
<1>4. AmountIn(t, mine) \in Int /\ Max({0, AmountIn(t, mine)}) \in Nat
    BY AmountFacts, MaxWithZero
<1> HIDE DEF B, mine, new
<1>5. ColumnTypes'
  <2>1. lastUsed \in Used \cup {-1} /\ lastUsed <= LastUsedIndex(Used) /\ wBalance \in Nat \cup {NoRow}
      BY DEF LoadTypes, ColumnTypes
  <2>2. lastUsed' \in B \cup {-1} /\ lastUsed' <= LastUsedIndex(B)
    <3>1. lastUsed \in Int
        BY <1>1, <2>1
    <3>2. lastUsed <= LastUsedIndex(B)
        BY <1>1, <1>2, <2>1, <3>1
    <3>3. lastUsed' = lastUsed \/ lastUsed' = LastUsedIndex(B)
        BY <1>3
    <3> QED
        BY <1>1, <1>2, <2>1, <3>2, <3>3
  <2>3. wBalance' \in Nat \cup {NoRow}
      BY <1>3, <1>4, <2>1 DEF NoRow
  <2>4. wHistory' \in SUBSET accepted'
      BY <1>3 DEF LoadTypes, ColumnTypes
  <2> QED
      BY <1>1, <1>3, <2>2, <2>3, <2>4 DEF LoadTypes, ColumnTypes
<1>6. \A a \in Address : BalanceOf(accepted', {a}) >= 0
  <2> SUFFICES ASSUME NEW a \in Address PROVE BalanceOf(accepted', {a}) >= 0
      OBVIOUS
  <2>1. BalanceOf(accepted, {a}) >= 0 /\ BalanceOf(accepted, {a}) \in Int
      BY <1>0, BalanceFacts DEF LoadTypes, HistoryTypes
  <2>2. BalanceOf(accepted \cup {t}, {a}) = BalanceOf(accepted, {a}) + AmountIn(t, {a})
      BY <1>0, BalanceFacts
  <2>3. BalanceOf(accepted', {a}) = BalanceOf(accepted, {a}) + AmountIn(t, {a})
      BY <1>3, <2>2
  <2>4. CASE a \in DOMAIN Amount[t]
    <3>1. AmountIn(t, {a}) = Amount[t][a] /\ BalanceOf(accepted, {a}) + Amount[t][a] >= 0
        BY <1>3, <2>4, AmountFacts DEF Funded
    <3> QED
        BY <2>3, <3>1
  <2>5. CASE a \notin DOMAIN Amount[t]
    <3>1. AmountIn(t, {a}) = 0
        BY <2>5, AmountFacts
    <3> QED
        BY <2>1, <2>3, <3>1
  <2> QED
      BY <2>4, <2>5
<1>7. HistoryTypes'
  <2>1. unseen' \subseteq accepted' /\ snapshot'.tx \subseteq Tx \ accepted'
      BY <1>3 DEF LoadTypes, HistoryTypes, NoSnapshot
  <2> QED
      BY <1>3, <1>6, <2>1 DEF LoadTypes, HistoryTypes
<1>8. \A m \in Load : Sane(load[m])'
  <2> SUFFICES ASSUME NEW m \in Load PROVE Sane(load[m])'
      OBVIOUS
  <2>1. Sane(load[m])
      BY DEF LoadTypes
  <2>2. Reaches(load[m]) => Reaches(load[m])'
    <3> SUFFICES ASSUME Reaches(load[m]) PROVE Reaches(load[m])'
        OBVIOUS
    <3>1. PICK k \in Used \cup {-1} : k <= LastUsedIndex(Used) /\ load[m].addresses = 0 .. (k + Gap)
        BY DEF Reaches
    <3>2. k \in B \cup {-1} /\ k <= LastUsedIndex(B)
        BY <1>1, <1>2, <3>1
    <3> QED
        BY <1>1, <1>3, <3>1, <3>2 DEF Reaches
  <2> QED
      BY <1>3, <2>1, <2>2 DEF Sane
<1> QED
    BY <1>5, <1>7, <1>8

LEMMA NextLoadTypes ==
    ASSUME \A l, m \in Load : l = m
    PROVE  LoadTypes /\ [Next]_vars => LoadTypes'
<1> SUFFICES ASSUME LoadTypes, [Next]_vars PROVE LoadTypes'
    OBVIOUS
<1>1. ReadyInv'
    BY NextReadyInv DEF LoadTypes
<1>2. ASSUME NEW l \in Load, Moves(l) PROVE LoadTypes'
    BY <1>1, <1>2, StepKeepsTypes DEF LoadTypes
<1>3. ASSUME NEW t \in Tx, CommitTx(t) PROVE LoadTypes'
    BY <1>1, <1>3, CommitKeepsTypes DEF LoadTypes
<1>4. CASE (\E t \in Tx : BeginTx(t)) \/ RollBack \/ UNCHANGED vars
  <2>1. /\ accepted' = accepted /\ unseen' = unseen /\ snapshot'.tx \subseteq Tx \ accepted
        /\ UNCHANGED <<status, retryCount, wHistory, wBalance, lastUsed, failures, timeouts, load>>
      BY <1>4 DEF BeginTx, RollBack, vars, tables, txVars, NoSnapshot, LoadTypes, HistoryTypes
  <2>2. Used' = Used /\ LastUsedIndex(Used)' = LastUsedIndex(Used)
      BY <2>1, SameUsed
  <2>3. ColumnTypes'
      BY <2>1, <2>2 DEF LoadTypes, ColumnTypes
  <2>4. \A a \in Address : BalanceOf(accepted', {a}) >= 0
      BY <2>1 DEF LoadTypes, HistoryTypes
  <2>5. HistoryTypes'
      BY <2>1, <2>4 DEF LoadTypes, HistoryTypes
  <2>6. \A m \in Load : Sane(load[m])'
      BY <2>1, <2>2 DEF LoadTypes, Sane, Reaches
  <2> QED
      BY <1>1, <2>3, <2>5, <2>6 DEF LoadTypes
<1> QED
    BY <1>2, <1>3, <1>4 DEF Next, Moves

\* With one execution at a time, the columns of the wallet and the local state of the
\* load keep their types: no balance goes below zero, retry_count stays within the
\* limit the API checks, and last_used_address_index is an index of the wallet.
THEOREM LoadTypeCorrect ==
    ASSUME \A l, m \in Load : l = m
    PROVE  Spec => []TypeOK
<1>1. Init => LoadTypes
    BY InitLoadTypes
<1>2. LoadTypes /\ [Next]_vars => LoadTypes'
    BY NextLoadTypes
<1> QED
    BY <1>1, <1>2, LoadTypesAreTypeOK, PTL DEF Spec

-----------------------------------------------------------------------------
(* WalletLoad: the history and the balance of a ready wallet *)

\* wallet_balance has a row although the load found transactions: its INSERT fails.
Doomed(r) == wBalance # NoRow /\ Touching(accepted, r.addresses) # {}

\* The load owns the addresses it knows, and none of their balance is stored.
Clean(r) ==
    /\ owned \subseteq r.addresses
    /\ wHistory = Touching(accepted, r.addresses)
    /\ wBalance = NoRow

\* ... and none of their history either.
Untouched(r) ==
    /\ owned \subseteq r.addresses
    /\ wHistory = {}
    /\ wBalance = NoRow
    /\ r.history = Touching(accepted, r.addresses)

Sums(r) ==
    r.balance = IF Touching(accepted, r.addresses) = {} THEN NoRow
                ELSE BalanceOf(accepted, r.addresses)

\* What an execution can rely on before each of its statements.
AdoptStage(r) ==
    /\ r.pc = "addNew" =>
          r.addresses \subseteq r.new \cup owned \cup r.todo /\ r.new \subseteq r.addresses
    /\ r.pc \in {"storeLastUsed", "adopt"} => r.addresses \subseteq owned \cup r.todo
    /\ r.pc \in {"addNew", "storeLastUsed", "adopt"} =>
          r.todo \subseteq r.addresses /\ (owned \subseteq r.addresses \/ Doomed(r))

InsertStage(r) ==
    /\ r.pc \in {"insertHistory", "sumBalances", "sumHistory", "insertBalance"} =>
          r.addresses \subseteq owned
    /\ r.pc = "insertHistory" =>
          /\ r.history \subseteq Touching(accepted, r.addresses)
          /\ Doomed(r) \/ r.history \cap wHistory # {} \/ Untouched(r)
    /\ r.pc = "sumBalances" => Doomed(r) \/ Clean(r)
    /\ r.pc = "sumHistory" => Doomed(r) \/ (Clean(r) /\ Sums(r))
    /\ r.pc = "insertBalance" =>
          /\ r.balance # NoRow
          /\ Touching(accepted, r.addresses) # {}
          /\ Doomed(r) \/ (Clean(r) /\ Sums(r))
    /\ r.pc = "setReady" => IsComplete

\* Before POST /wallet there is nothing of the wallet.
Unloaded ==
    status = "none" =>
        /\ owned = {} /\ wHistory = {} /\ wBalance = NoRow
        /\ ~snapshot.wallet
        /\ \A l \in Load : load[l].pc = "idle"

\* What the wallet tables have comes from addresses of the wallet.
Stored ==
    /\ wHistory \subseteq Touching(accepted, owned)
    /\ wBalance # NoRow => Touching(accepted, owned) # {}
    /\ status = "ready" => IsComplete

Tracked ==
    /\ Stored
    /\ \A l \in Load : AdoptStage(load[l]) /\ InsertStage(load[l])

CompleteInv == LoadTypes /\ Unloaded /\ (unseen = {} => Tracked)

LEMMA InitCompleteInv ==
    ASSUME \A l, m \in Load : l = m
    PROVE  Init => CompleteInv
<1> SUFFICES ASSUME Init PROVE CompleteInv
    OBVIOUS
<1>1. LoadTypes
    BY InitLoadTypes
<1>2. Unloaded
    BY DEF Init, Unloaded, NoSnapshot, Idle
<1>3. Tracked
    BY DEF Init, Tracked, Stored, AdoptStage, InsertStage, Idle
<1> QED
    BY <1>1, <1>2, <1>3 DEF CompleteInv

LEMMA StepKeepsUnloaded ==
    ASSUME \A l, m \in Load : l = m, LoadTypes, Unloaded, NEW l \in Load, Moves(l)
    PROVE  Unloaded'
<1>1. CASE status # "none"
  <2>1. status' # "none"
      BY <1>1 DEF Moves, Request, CreateWallet, Invoke, InvokeFails, Timeout, LoadWallet, GenerateAddresses,
         AddNewAddresses, StoreLastUsed, Adopt, ReadHistory, InsertHistory, SumBalances,
         SumHistory, InsertBalance, SetReady, Throws, ReadRetries, SetError
  <2> QED
      BY <2>1 DEF Unloaded
<1>2. CASE status = "none"
  <2>1. load[l].pc = "idle"
      BY <1>2 DEF Unloaded
  <2>2. Request(l)
      BY <2>1 DEF Moves, Invoke, InvokeFails, Timeout, LoadWallet, GenerateAddresses, AddNewAddresses,
         StoreLastUsed, Adopt, ReadHistory, InsertHistory, SumBalances, SumHistory,
         InsertBalance, SetReady, Throws, ReadRetries, SetError
  <2>3. status' # "none"
      BY <2>2 DEF Request, CreateWallet
  <2> QED
      BY <2>3 DEF Unloaded
<1> QED
    BY <1>1, <1>2

LEMMA TouchingGrows ==
    \A A, B : A \subseteq B => Touching(accepted, A) \subseteq Touching(accepted, B)
BY DEF Touching

\* A step of the load that leaves the wallet and its address rows alone.
LEMMA StepKeepsTracked ==
    ASSUME \A l, m \in Load : l = m, LoadTypes, Tracked, NEW l \in Load, Moves(l)
    PROVE  Tracked'
<1> DEFINE r == load[l]
           rr == load'[l]
           A == r.addresses
           T(B) == Touching(accepted, B)
<1>1. DOMAIN load = Load /\ r \in Executions /\ owned \subseteq Addresses(Used)
      /\ accepted \in SUBSET Tx
    BY DEF LoadTypes, Sane, ReadyInv, AddressInv
<1>2. Stored /\ AdoptStage(r) /\ InsertStage(r)
    BY DEF Tracked
<1>3. SUFFICES Stored' /\ AdoptStage(load[l])' /\ InsertStage(load[l])'
    BY DEF Tracked
<1>4. CASE Request(l) \/ Invoke(l) \/ InvokeFails(l) \/ Throws(l) \/ ReadRetries(l) \/ SetError(l) \/ Timeout(l)
  <2>1. /\ rr.pc \in {"idle", "requested", "generate", "setError", "readRetries"}
        /\ status' = "ready" => status = "ready"
        /\ UNCHANGED <<owned, accepted, wHistory, wBalance>>
    <3>1. CASE Request(l)
        BY <1>1, <3>1 DEF Request, CreateWallet, Idle, tables
    <3>2. CASE SetError(l) \/ Timeout(l)
        BY <1>1, <3>2 DEF SetError, Timeout, Idle, tables
    <3>3. CASE Invoke(l) \/ InvokeFails(l) \/ Throws(l) \/ ReadRetries(l)
        BY <1>1, <3>3 DEF Invoke, InvokeFails, Throws, ReadRetries, Goto, tables, Executions
    <3> QED
        BY <1>4, <3>1, <3>2, <3>3
  <2>2. Stored'
      BY <1>2, <2>1 DEF Stored, IsComplete
  <2> HIDE DEF rr
  <2> QED
      BY <2>1, <2>2 DEF AdoptStage, InsertStage, rr
<1>5. CASE GenerateAddresses(l)
  <2>1. /\ rr.pc = "addNew" /\ rr.addresses = Addresses(Used)
        /\ rr.new = Addresses(Used) \ Rows
        /\ rr.todo = Rows \cap (0 .. Checked(Used))
        /\ UNCHANGED <<status, owned, accepted, wHistory, wBalance>>
      BY <1>1, <1>5 DEF GenerateAddresses, NewAddresses, ExistingAddresses, Executions, tables
  <2>2. Used \in SUBSET Nat /\ IsFiniteSet(Used)
      BY <1>1, UsedByFacts DEF Used
  <2>3. Addresses(Used) \subseteq 0 .. Checked(Used)
      BY <2>2, LastUsedIndexFacts
  <2>4. Used \cap (0 .. Checked(Used)) \subseteq Addresses(Used)
      BY <2>2, UsedAreNeeded
  <2>5. rr.todo \subseteq rr.addresses /\ rr.addresses \subseteq rr.new \cup rr.todo
        /\ rr.new \subseteq rr.addresses /\ owned' \subseteq rr.addresses
    <3> HIDE DEF rr
    <3> QED
        BY <1>1, <2>1, <2>3, <2>4 DEF Rows
  <2>6. Stored'
      BY <1>2, <2>1 DEF Stored, IsComplete
  <2> HIDE DEF rr
  <2> QED
      BY <2>1, <2>5, <2>6 DEF AdoptStage, InsertStage, rr
<1>6. CASE AddNewAddresses(l)
  <2>1. /\ r.pc = "addNew" /\ rr.pc \in {"storeLastUsed", "adopt"}
        /\ rr.addresses = A /\ rr.new = r.new /\ rr.todo = r.todo
        /\ owned' = owned \cup r.new /\ status' = status
        /\ UNCHANGED <<accepted, wHistory, wBalance>>
      BY <1>1, <1>6 DEF AddNewAddresses, Goto, Executions
  <2>2. AdoptStage(load[l])'
    <3>1. /\ A \subseteq r.new \cup owned \cup r.todo /\ r.new \subseteq A
          /\ r.todo \subseteq A /\ (owned \subseteq A \/ Doomed(r))
        BY <1>2, <2>1 DEF AdoptStage
    <3>2. Doomed(r) => Doomed(load[l])'
        BY <2>1 DEF Doomed
    <3> HIDE DEF rr
    <3> QED
        BY <2>1, <3>1, <3>2 DEF AdoptStage, rr
  <2>3. Stored'
    <3>1. status # "ready"
        BY <2>1 DEF LoadTypes, ReadyInv
    <3>2. T(owned) \subseteq T(owned')
        BY <2>1, TouchingGrows
    <3> QED
        BY <1>2, <2>1, <3>1, <3>2 DEF Stored
  <2> HIDE DEF rr
  <2> QED
      BY <2>1, <2>2, <2>3 DEF InsertStage, rr
<1>7. CASE StoreLastUsed(l)
  <2>1. /\ r.pc = "storeLastUsed" /\ rr.pc = "adopt"
        /\ rr.addresses = A /\ rr.todo = r.todo
        /\ UNCHANGED <<status, owned, accepted, wHistory, wBalance>>
      BY <1>1, <1>7 DEF StoreLastUsed, Goto, Executions
  <2>2. Stored'
      BY <1>2, <2>1 DEF Stored, IsComplete
  <2> HIDE DEF rr
  <2> QED
      BY <1>2, <2>1, <2>2 DEF AdoptStage, InsertStage, Doomed, rr
<1>8. ASSUME NEW a \in r.todo, Adopt(l, a) PROVE Stored' /\ AdoptStage(load[l])' /\ InsertStage(load[l])'
  <2>1. /\ r.pc = "adopt" /\ rr.pc = "adopt"
        /\ rr.addresses = A /\ rr.todo = r.todo \ {a}
        /\ owned' = owned \cup {a} /\ status' = status
        /\ UNCHANGED <<accepted, wHistory, wBalance>>
      BY <1>1, <1>8 DEF Adopt, Executions
  <2>2. AdoptStage(load[l])'
    <3>1. /\ A \subseteq owned \cup r.todo
          /\ r.todo \subseteq A /\ (owned \subseteq A \/ Doomed(r))
        BY <1>2, <2>1 DEF AdoptStage
    <3>2. Doomed(r) => Doomed(load[l])'
        BY <2>1 DEF Doomed
    <3> HIDE DEF rr
    <3> QED
        BY <1>8, <2>1, <3>1, <3>2 DEF AdoptStage, rr
  <2>3. Stored'
    <3>1. status # "ready"
        BY <2>1 DEF LoadTypes, ReadyInv
    <3>2. T(owned) \subseteq T(owned')
        BY <2>1, TouchingGrows
    <3> QED
        BY <1>2, <2>1, <3>1, <3>2 DEF Stored
  <2> HIDE DEF rr
  <2> QED
      BY <2>1, <2>2, <2>3 DEF InsertStage, rr
<1>9. CASE ReadHistory(l)
  <2>1. /\ r.pc = "adopt" /\ r.todo = {} /\ rr.history = T(A) /\ rr.addresses = A
        /\ rr.pc = IF T(A) = {} THEN "sumBalances" ELSE "insertHistory"
        /\ UNCHANGED <<status, owned, accepted, wHistory, wBalance>>
      BY <1>1, <1>9 DEF ReadHistory, Executions, tables
  <2>2. A \subseteq owned /\ (owned \subseteq A \/ Doomed(r))
      BY <1>2, <2>1 DEF AdoptStage
  <2>3. Stored'
      BY <1>2, <2>1 DEF Stored, IsComplete
  <2>4. wHistory \subseteq T(owned) /\ (wBalance # NoRow => T(owned) # {})
      BY <1>2 DEF Stored
  <2>5. CASE T(A) = {}
    <3>0. ~Doomed(r)
        BY <2>5 DEF Doomed
    <3>1. owned = A /\ T(owned) = {}
      <4>1. owned = A
          BY <2>2, <3>0
      <4> QED
          BY <2>5, <4>1
    <3>2. wHistory = {} /\ wBalance = NoRow
      <4> HIDE DEF T
      <4> QED
          BY <2>4, <3>1
    <3>3. Clean(load[l])'
        BY <2>1, <2>5, <3>1, <3>2 DEF Clean
    <3> HIDE DEF rr
    <3> QED
        BY <2>1, <2>2, <2>3, <2>5, <3>3 DEF AdoptStage, InsertStage, rr
  <2>6. CASE T(A) # {}
    <3>1. Doomed(r) => Doomed(load[l])'
        BY <2>1 DEF Doomed
    <3>2. CASE Doomed(r)
      <4> HIDE DEF rr
      <4> QED
          BY <2>1, <2>2, <2>3, <2>6, <3>1, <3>2 DEF AdoptStage, InsertStage, rr
    <3>3. CASE ~Doomed(r)
      <4>1. owned = A /\ wBalance = NoRow
          BY <2>2, <2>6, <3>3 DEF Doomed
      <4>2. wHistory = {} => Untouched(load[l])'
          BY <2>1, <4>1 DEF Untouched
      <4>3. wHistory # {} => (load[l].history \cap wHistory # {})'
          BY <2>1, <2>4, <4>1
      <4> HIDE DEF rr
      <4> QED
          BY <2>1, <2>2, <2>3, <2>6, <4>2, <4>3 DEF AdoptStage, InsertStage, rr
    <3> QED
        BY <3>2, <3>3
  <2> QED
      BY <2>5, <2>6
<1>10. CASE InsertHistory(l)
  <2>1. /\ r.pc = "insertHistory" /\ rr.pc = "sumBalances" /\ rr.addresses = A
        /\ r.history \cap wHistory = {} /\ wHistory' = wHistory \cup r.history
        /\ UNCHANGED <<status, owned, accepted, wBalance>>
      BY <1>1, <1>10 DEF InsertHistory, Goto, Executions
  <2>2. A \subseteq owned /\ r.history \subseteq T(A) /\ (Doomed(r) \/ Untouched(r))
      BY <1>2, <2>1 DEF InsertStage
  <2>3. Stored'
    <3>1. status # "ready"
        BY <2>1 DEF LoadTypes, ReadyInv
    <3>2. T(A) \subseteq T(owned)
        BY <2>2, TouchingGrows
    <3> QED
        BY <1>2, <2>1, <2>2, <3>1, <3>2 DEF Stored
  <2>4. Doomed(r) => Doomed(load[l])'
      BY <2>1 DEF Doomed
  <2>5. Untouched(r) => Clean(load[l])'
      BY <2>1 DEF Untouched, Clean
  <2> HIDE DEF rr
  <2> QED
      BY <2>1, <2>2, <2>3, <2>4, <2>5 DEF AdoptStage, InsertStage, rr
<1>11. CASE SumBalances(l)
  <2>1. /\ r.pc = "sumBalances" /\ rr.pc = "sumHistory" /\ rr.addresses = A
        /\ rr.balance = IF T(A) = {} THEN NoRow ELSE BalanceOf(accepted, A)
        /\ UNCHANGED <<status, owned, accepted, wHistory, wBalance>>
      BY <1>1, <1>11 DEF SumBalances, Executions, tables
  <2>2. A \subseteq owned /\ (Doomed(r) \/ Clean(r))
      BY <1>2, <2>1 DEF InsertStage
  <2>3. Stored'
      BY <1>2, <2>1 DEF Stored, IsComplete
  <2>4. /\ Doomed(r) => Doomed(load[l])'
        /\ Clean(r) => Clean(load[l])'
      BY <2>1 DEF Doomed, Clean
  <2>5. Sums(load[l])'
      BY <2>1 DEF Sums
  <2> HIDE DEF rr
  <2> QED
      BY <2>1, <2>2, <2>3, <2>4, <2>5 DEF AdoptStage, InsertStage, rr
<1>12. CASE SumHistory(l)
  <2>1. /\ r.pc = "sumHistory" /\ rr.addresses = A /\ rr.balance = r.balance
        /\ rr.pc = IF r.balance = NoRow THEN "setReady" ELSE "insertBalance"
        /\ UNCHANGED <<status, owned, accepted, wHistory, wBalance>>
      BY <1>1, <1>12 DEF SumHistory, Goto, Executions, tables
  <2>2. IF T(A) = {} THEN r.balance = NoRow ELSE r.balance = BalanceOf(accepted, A)
      BY <1>12 DEF SumHistory, HistoryAgrees
  <2>3. A \subseteq owned /\ (Doomed(r) \/ (Clean(r) /\ Sums(r)))
      BY <1>2, <2>1 DEF InsertStage
  <2>4. Stored'
      BY <1>2, <2>1 DEF Stored, IsComplete
  <2>5. BalanceOf(accepted, A) \in Nat
      BY <1>1, BalanceIsNat DEF LoadTypes, HistoryTypes
  <2>6. CASE T(A) = {}
    <3>1. Clean(r) /\ r.balance = NoRow
        BY <2>2, <2>3, <2>6 DEF Doomed
    <3>2. owned = A /\ wHistory = {} /\ wBalance = NoRow
        BY <2>3, <2>6, <3>1 DEF Clean
    <3>3. IsComplete'
        BY <2>1, <2>6, <3>2 DEF IsComplete
    <3> HIDE DEF rr
    <3> QED
        BY <2>1, <2>4, <3>1, <3>3 DEF AdoptStage, InsertStage, rr
  <2>7. CASE T(A) # {}
    <3>1. r.balance # NoRow
        BY <2>2, <2>5, <2>7 DEF NoRow
    <3>2. /\ Doomed(r) => Doomed(load[l])'
          /\ Clean(r) => Clean(load[l])'
          /\ Sums(r) => Sums(load[l])'
        BY <2>1 DEF Doomed, Clean, Sums
    <3> HIDE DEF rr
    <3> QED
        BY <2>1, <2>3, <2>4, <2>7, <3>1, <3>2 DEF AdoptStage, InsertStage, rr
  <2> QED
      BY <2>6, <2>7
<1>13. CASE InsertBalance(l)
  <2>1. /\ r.pc = "insertBalance" /\ rr.pc = "setReady" /\ wBalance = NoRow /\ wBalance' = r.balance
        /\ UNCHANGED <<status, owned, accepted, wHistory>>
      BY <1>1, <1>13 DEF InsertBalance, Goto, Executions
  <2>2. /\ A \subseteq owned /\ T(A) # {} /\ Clean(r) /\ Sums(r)
      BY <1>2, <2>1 DEF InsertStage, Doomed
  <2>3. owned = A /\ wHistory = T(A) /\ r.balance = BalanceOf(accepted, A)
      BY <2>2 DEF Clean, Sums
  <2>4. IsComplete'
      BY <2>1, <2>2, <2>3 DEF IsComplete
  <2>5. Stored'
      BY <1>2, <2>1, <2>2, <2>3, <2>4 DEF Stored
  <2> HIDE DEF rr
  <2> QED
      BY <2>1, <2>4, <2>5 DEF AdoptStage, InsertStage, rr
<1>14. CASE SetReady(l)
  <2>1. r.pc = "setReady" /\ rr.pc = "idle" /\ UNCHANGED <<owned, accepted, wHistory, wBalance>>
      BY <1>1, <1>14 DEF SetReady, Idle, tables
  <2>2. IsComplete
      BY <1>2, <2>1 DEF InsertStage
  <2>3. Stored'
      BY <1>2, <2>1, <2>2 DEF Stored, IsComplete
  <2> HIDE DEF rr
  <2> QED
      BY <2>1, <2>3 DEF AdoptStage, InsertStage, rr
<1> QED
    BY <1>4, <1>5, <1>6, <1>7, <1>8, <1>9, <1>10, <1>11, <1>12, <1>13, <1>14 DEF Moves, LoadWallet

\* What t adds to a set of addresses.
LEMMA TouchingWith ==
    ASSUME NEW txs \in SUBSET Tx, NEW t \in Tx \ txs, NEW A
    PROVE  /\ Touching(txs, A) \subseteq Touching(txs \cup {t}, A)
           /\ A \cap DOMAIN Amount[t] = {} =>
                  /\ Touching(txs \cup {t}, A) = Touching(txs, A)
                  /\ BalanceOf(txs \cup {t}, A) = BalanceOf(txs, A)
           /\ A \cap DOMAIN Amount[t] # {} => Touching(txs \cup {t}, A) = Touching(txs, A) \cup {t}
<1>1. A \cap DOMAIN Amount[t] = {} => BalanceOf(txs \cup {t}, A) = BalanceOf(txs, A)
  <2> SUFFICES ASSUME A \cap DOMAIN Amount[t] = {} PROVE BalanceOf(txs \cup {t}, A) = BalanceOf(txs, A)
      OBVIOUS
  <2>1. AmountIn(t, A) = 0
      BY AmountFacts
  <2>2. BalanceOf(txs, A) \in Int /\ BalanceOf(txs \cup {t}, A) = BalanceOf(txs, A) + AmountIn(t, A)
      BY BalanceFacts
  <2> QED
      BY <2>1, <2>2
<1> QED
    BY <1>1 DEF Touching

\* When addNewTx did see the wallet it handles all its addresses.
LEMMA MineIsAll ==
    ASSUME Unloaded, NEW t \in Tx, CommitTx(t), unseen' = {}
    PROVE  unseen = {} /\ MineOf(t) = DOMAIN Amount[t] \cap owned
<1>1. unseen = {} /\ (status = "none" \/ snapshot.wallet)
    BY DEF CommitTx
<1>2. CASE status = "none"
    BY <1>1, <1>2 DEF Unloaded, MineOf
<1>3. CASE status # "none"
    BY <1>1, <1>3 DEF MineOf
<1> QED
    BY <1>1, <1>2, <1>3

LEMMA CommitKeepsTracked ==
    ASSUME LoadTypes, Unloaded, Tracked, NEW t \in Tx, CommitTx(t), unseen' = {}
    PROVE  Tracked'
<1> DEFINE D == DOMAIN Amount[t]
           new == NewAddresses(UsedWith(t), snapshot.owned \cup UsedWith(t))
           mine == D \cap owned
           T(S) == Touching(accepted, S)
           TT(S) == Touching(accepted', S)
<1>1. accepted \in SUBSET Tx /\ t \in Tx \ accepted /\ accepted' = accepted \cup {t}
    BY CommitFacts
<1>2. /\ status' = status /\ load' = load
      /\ \/ mine = {} /\ UNCHANGED <<owned, wHistory, wBalance>>
         \/ /\ mine # {} /\ owned' = owned \cup new /\ wHistory' = wHistory \cup {t}
            /\ wBalance' = IF wBalance = NoRow THEN Max({0, AmountIn(t, mine)})
                           ELSE wBalance + AmountIn(t, mine)
            /\ wBalance # NoRow => wBalance + AmountIn(t, mine) >= 0
    BY MineIsAll DEF CommitTx, WalletCovers, UsedWith
<1>3. \A S : /\ T(S) \subseteq TT(S)
             /\ S \cap D = {} => TT(S) = T(S) /\ BalanceOf(accepted', S) = BalanceOf(accepted, S)
             /\ S \cap D # {} => TT(S) = T(S) \cup {t}
    BY <1>1, TouchingWith
<1>4. \A S : TT(S \cup new) = TT(S) /\ BalanceOf(accepted', S \cup new) = BalanceOf(accepted', S)
  <2> SUFFICES ASSUME NEW S
               PROVE  TT(S \cup new) = TT(S) /\ BalanceOf(accepted', S \cup new) = BalanceOf(accepted', S)
      OBVIOUS
  <2>1. new \cap UsedWith(t) = {}
      BY DEF NewAddresses
  <2>2. \A u \in accepted' : DOMAIN Amount[u] \subseteq UsedWith(t)
      BY <1>1 DEF UsedWith, UsedBy
  <2> HIDE DEF new
  <2>3. \A u \in accepted' : (S \cup new) \cap DOMAIN Amount[u] = S \cap DOMAIN Amount[u]
      BY <2>1, <2>2
  <2>4. accepted' \in SUBSET Tx
      BY <1>1
  <2> QED
      BY <2>3, <2>4, SameBalance
<1>5. AmountIn(t, mine) \in Int /\ AmountIn(t, mine) = AmountIn(t, owned)
      /\ Max({0, AmountIn(t, mine)}) \in Nat
      /\ (AmountIn(t, mine) >= 0 => Max({0, AmountIn(t, mine)}) = AmountIn(t, mine))
  <2>1. AmountIn(t, mine) \in Int
      BY AmountFacts
  <2>2. mine \cap DOMAIN Amount[t] = owned \cap DOMAIN Amount[t]
      OBVIOUS
  <2>3. AmountIn(t, mine) = AmountIn(t, owned)
      BY <2>2, SameAmount
  <2> QED
      BY <2>1, <2>3, MaxWithZero
<1> HIDE DEF new
<1>6. wBalance \in Nat \cup {NoRow} /\ (wBalance # NoRow \/ mine # {} => wBalance' # NoRow)
    BY <1>2, <1>5 DEF LoadTypes, ColumnTypes, NoRow
<1>7. IsComplete => IsComplete'
  <2> SUFFICES ASSUME IsComplete PROVE IsComplete'
      OBVIOUS
  <2>1. wHistory = T(owned) /\ wBalance = IF wHistory = {} THEN NoRow ELSE BalanceOf(accepted, owned)
      BY DEF IsComplete
  <2>2. CASE mine = {}
    <3>1. UNCHANGED <<owned, wHistory, wBalance>>
        BY <1>2, <2>2
    <3>2. owned \cap D = {}
        BY <2>2
    <3>3. TT(owned) = T(owned) /\ BalanceOf(accepted', owned) = BalanceOf(accepted, owned)
        BY <1>3, <3>2
    <3> QED
        BY <2>1, <3>1, <3>3 DEF IsComplete
  <2>3. CASE mine # {}
    <3>1. owned \cap D # {}
        BY <2>3
    <3>2. /\ owned' = owned \cup new /\ wHistory' = wHistory \cup {t}
          /\ wBalance' = IF wBalance = NoRow THEN Max({0, AmountIn(t, mine)})
                         ELSE wBalance + AmountIn(t, mine)
        BY <1>2, <2>3
    <3>3. TT(owned') = T(owned) \cup {t} /\ BalanceOf(accepted', owned') = BalanceOf(accepted', owned)
      <4>1. TT(owned) = T(owned) \cup {t}
          BY <1>3, <3>1
      <4>2. TT(owned \cup new) = TT(owned) /\ BalanceOf(accepted', owned \cup new) = BalanceOf(accepted', owned)
          BY <1>4
      <4> HIDE DEF T, TT
      <4> QED
          BY <3>2, <4>1, <4>2
    <3>4. wHistory' = TT(owned') /\ wHistory' # {}
        BY <2>1, <3>2, <3>3
    <3>5. BalanceOf(accepted', owned) = BalanceOf(accepted, owned) + AmountIn(t, mine)
      <4>1. BalanceOf(accepted \cup {t}, owned) = BalanceOf(accepted, owned) + AmountIn(t, owned)
          BY <1>1, BalanceFacts
      <4>2. accepted' = accepted \cup {t} /\ AmountIn(t, mine) = AmountIn(t, owned)
          BY <1>1, <1>5
      <4> QED
          BY <4>1, <4>2
    <3>6. BalanceOf(accepted, owned) \in Nat /\ BalanceOf(accepted', owned) \in Nat
      <4>1. \A a \in Address : BalanceOf(accepted, {a}) >= 0
          BY DEF LoadTypes, HistoryTypes
      <4>2. HistoryTypes'
          BY CommitKeepsTypes
      <4>3. \A a \in Address : BalanceOf(accepted', {a}) >= 0
          BY <4>2 DEF HistoryTypes
      <4>4. accepted' \in SUBSET Tx
          BY <1>1
      <4> QED
          BY <1>1, <4>1, <4>3, <4>4, BalanceIsNat
    <3>7. wBalance' = BalanceOf(accepted', owned)
      <4>1. CASE wHistory = {}
        <5>1. wBalance = NoRow /\ T(owned) = {}
            BY <2>1, <4>1
        <5>2. BalanceOf(accepted, owned) = 0
            BY <1>1, <5>1, BalanceFacts
        <5> QED
            BY <1>5, <3>2, <3>5, <3>6, <5>1, <5>2
      <4>2. CASE wHistory # {}
        <5>1. wBalance = BalanceOf(accepted, owned) /\ wBalance # NoRow
            BY <2>1, <3>6, <4>2 DEF NoRow
        <5> QED
            BY <3>2, <3>5, <5>1
      <4> QED
          BY <4>1, <4>2
    <3> QED
        BY <3>3, <3>4, <3>7 DEF IsComplete
  <2> QED
      BY <2>2, <2>3
<1>8. Stored'
  <2>1. Stored
      BY DEF Tracked
  <2>2. CASE mine = {}
    <3>1. UNCHANGED <<owned, wHistory, wBalance>> /\ T(owned) \subseteq TT(owned)
        BY <1>2, <1>3, <2>2
    <3> QED
        BY <1>2, <1>7, <2>1, <3>1 DEF Stored
  <2>3. CASE mine # {}
    <3>1. /\ owned' = owned \cup new /\ wHistory' = wHistory \cup {t}
        BY <1>2, <2>3
    <3>2. TT(owned') = T(owned) \cup {t}
      <4>1. owned \cap D # {}
          BY <2>3
      <4> QED
          BY <1>3, <1>4, <3>1, <4>1
    <3> QED
        BY <1>2, <1>7, <2>1, <3>1, <3>2 DEF Stored
  <2> QED
      BY <2>2, <2>3
<1>9. ASSUME NEW l \in Load PROVE AdoptStage(load[l])' /\ InsertStage(load[l])'
  <2> DEFINE r == load[l]
             A == r.addresses
  <2>1. AdoptStage(r) /\ InsertStage(r)
      BY DEF Tracked
  <2>2. Doomed(r) => Doomed(load[l])'
    <3>1. T(A) \subseteq TT(A)
        BY <1>3
    <3> QED
        BY <1>2, <1>6, <3>1 DEF Doomed
  <2>3. mine # {} /\ owned \subseteq A => Doomed(load[l])'
    <3> SUFFICES ASSUME mine # {}, owned \subseteq A PROVE Doomed(load[l])'
        OBVIOUS
    <3>1. A \cap D # {}
        OBVIOUS
    <3>2. TT(A) # {}
        BY <1>3, <3>1
    <3> QED
        BY <1>2, <1>6, <3>2 DEF Doomed
  <2>4. mine = {} /\ owned = A => TT(A) = T(A) /\ BalanceOf(accepted', A) = BalanceOf(accepted, A)
      BY <1>3
  <2>5. AdoptStage(load[l])'
    <3>1. owned \subseteq owned' /\ (mine = {} => owned' = owned)
        BY <1>2
    <3>2. owned \subseteq A \/ Doomed(r) => owned' \subseteq A \/ Doomed(load[l])'
        BY <2>2, <2>3, <3>1
    <3> QED
        BY <1>2, <2>1, <3>1, <3>2 DEF AdoptStage
  <2>6. InsertStage(load[l])'
    <3>1. owned \subseteq owned' /\ wHistory \subseteq wHistory' /\ T(A) \subseteq TT(A)
          /\ (mine = {} => UNCHANGED <<owned, wHistory, wBalance>>)
        BY <1>2, <1>3
    <3>2. A \subseteq owned => /\ Clean(r) => Doomed(load[l])' \/ Clean(load[l])'
                               /\ Clean(r) /\ Sums(r) => Doomed(load[l])' \/ (Clean(load[l])' /\ Sums(load[l])')
                               /\ Untouched(r) => Doomed(load[l])' \/ Untouched(load[l])'
      <4> SUFFICES ASSUME A \subseteq owned
                   PROVE  /\ Clean(r) => Doomed(load[l])' \/ Clean(load[l])'
                          /\ Clean(r) /\ Sums(r) => Doomed(load[l])' \/ (Clean(load[l])' /\ Sums(load[l])')
                          /\ Untouched(r) => Doomed(load[l])' \/ Untouched(load[l])'
          OBVIOUS
      <4>1. CASE mine # {}
          BY <2>3, <4>1 DEF Clean, Untouched
      <4>2. CASE mine = {}
        <5>1. owned \subseteq A => TT(A) = T(A) /\ BalanceOf(accepted', A) = BalanceOf(accepted, A)
            BY <2>4, <4>2
        <5>2. Clean(r) => Clean(load[l])'
            BY <1>2, <3>1, <4>2, <5>1 DEF Clean
        <5>3. Clean(r) /\ Sums(r) => Sums(load[l])'
            BY <1>2, <3>1, <4>2, <5>1 DEF Clean, Sums
        <5>4. Untouched(r) => Untouched(load[l])'
            BY <1>2, <3>1, <4>2, <5>1 DEF Untouched
        <5> QED
            BY <5>2, <5>3, <5>4
      <4> QED
          BY <4>1, <4>2
    <3> QED
        BY <1>2, <1>7, <2>1, <2>2, <3>1, <3>2 DEF InsertStage
  <2> QED
      BY <2>5, <2>6
<1> QED
    BY <1>8, <1>9 DEF Tracked

LEMMA NextCompleteInv ==
    ASSUME \A l, m \in Load : l = m
    PROVE  CompleteInv /\ [Next]_vars => CompleteInv'
<1> SUFFICES ASSUME CompleteInv, [Next]_vars PROVE CompleteInv'
    OBVIOUS
<1>1. LoadTypes /\ Unloaded /\ (unseen = {} => Tracked) /\ LoadTypes'
    BY NextLoadTypes DEF CompleteInv
<1>2. ASSUME NEW l \in Load, Moves(l) PROVE CompleteInv'
  <2>1. Unloaded'
      BY <1>1, <1>2, StepKeepsUnloaded
  <2>2. unseen' = unseen
      BY <1>2 DEF Moves, Request, CreateWallet, Invoke, InvokeFails, Timeout, LoadWallet,
         GenerateAddresses, AddNewAddresses, StoreLastUsed, Adopt, ReadHistory, InsertHistory,
         SumBalances, SumHistory, InsertBalance, SetReady, Throws, ReadRetries, SetError, txVars
  <2>3. unseen = {} => Tracked'
      BY <1>1, <1>2, StepKeepsTracked
  <2> QED
      BY <1>1, <2>1, <2>2, <2>3 DEF CompleteInv
<1>3. ASSUME NEW t \in Tx, CommitTx(t) PROVE CompleteInv'
  <2>1. Unloaded'
    <3>1. status' = status /\ load' = load /\ snapshot' = NoSnapshot
        BY <1>3 DEF CommitTx
    <3>2. status = "none" => MineOf(t) = {}
        BY <1>1 DEF Unloaded, MineOf
    <3>3. status = "none" => UNCHANGED <<owned, wHistory, wBalance>>
        BY <1>3, <3>2 DEF CommitTx
    <3> QED
        BY <1>1, <3>1, <3>3 DEF Unloaded, NoSnapshot
  <2>2. unseen' = {} => Tracked'
    <3> SUFFICES ASSUME unseen' = {} PROVE Tracked'
        OBVIOUS
    <3>1. unseen = {}
        BY <1>1, <1>3, MineIsAll
    <3> QED
        BY <1>1, <1>3, <3>1, CommitKeepsTracked
  <2> QED
      BY <1>1, <2>1, <2>2 DEF CompleteInv
<1>4. CASE (\E t \in Tx : BeginTx(t)) \/ RollBack \/ UNCHANGED vars
  <2>1. /\ UNCHANGED <<status, owned, accepted, wHistory, wBalance, unseen, load>>
        /\ snapshot'.wallet = snapshot.wallet \/ ~snapshot'.wallet \/ status # "none"
    <3>1. CASE \E t \in Tx : BeginTx(t)
      <4>1. PICK t \in Tx : BeginTx(t)
          BY <3>1
      <4>2. /\ UNCHANGED <<status, owned, accepted, wHistory, wBalance, unseen, load>>
            /\ snapshot' = [tx |-> {t}, wallet |-> status # "none", owned |-> owned]
          BY <4>1 DEF BeginTx, tables
      <4>3. snapshot'.wallet = (status # "none")
          BY <4>2
      <4> QED
          BY <4>2, <4>3
    <3>2. CASE RollBack
        BY <3>2 DEF RollBack, NoSnapshot, tables
    <3>3. CASE UNCHANGED vars
        BY <3>3 DEF vars, tables, txVars
    <3> QED
        BY <1>4, <3>1, <3>2, <3>3
  <2>2. Unloaded'
      BY <1>1, <2>1 DEF Unloaded
  <2>3. Tracked => Tracked'
      BY <2>1 DEF Tracked, Stored, AdoptStage, InsertStage, Doomed, Clean, Untouched, Sums, IsComplete
  <2> QED
      BY <1>1, <2>1, <2>2, <2>3 DEF CompleteInv
<1> QED
    BY <1>2, <1>3, <1>4 DEF Next, Moves

\* The whole history and balance of its addresses are in the tables of a wallet that
\* is ready, whatever commits between the statements of the load, whatever earlier
\* executions left behind, and wherever the platform ended them.
THEOREM ReadyMeansComplete ==
    ASSUME \A l, m \in Load : l = m
    PROVE  Spec => []ReadyIsComplete
<1>1. Init => CompleteInv
    BY InitCompleteInv
<1>2. CompleteInv /\ [Next]_vars => CompleteInv'
    BY NextCompleteInv
<1>3. CompleteInv => ReadyIsComplete
    BY DEF CompleteInv, Tracked, Stored, ReadyIsComplete
<1> QED
    BY <1>1, <1>2, <1>3, PTL DEF Spec

-----------------------------------------------------------------------------
(* WalletLoad: the addresses a ready wallet can offer *)

Below(S, a) == {b \in S : b < a}
FirstOf(S, g) == {a \in S : Cardinality(Below(S, a)) < g}

\* The first g elements of a set of numbers are g many.
LEMMA FirstOnes ==
    ASSUME NEW S \in SUBSET Nat, IsFiniteSet(S)
    PROVE  \A g \in Nat : g <= Cardinality(S) => Cardinality(FirstOf(S, g)) = g
<1> DEFINE P == {g \in Nat : g <= Cardinality(S) => Cardinality(FirstOf(S, g)) = g}
<1>1. /\ \A a : IsFiniteSet(Below(S, a)) /\ Cardinality(Below(S, a)) \in Nat
      /\ \A g : FirstOf(S, g) \in SUBSET S /\ IsFiniteSet(FirstOf(S, g)) 
      /\ Cardinality(S) \in Nat
    BY FS_Subset, FS_CardinalityType DEF Below, FirstOf
<1>2. ASSUME NEW a \in S, NEW b \in S, a < b
      PROVE  Cardinality(Below(S, a)) < Cardinality(Below(S, b))
  <2>1. Below(S, a) \in SUBSET Below(S, b) /\ a \in Below(S, b) /\ a \notin Below(S, a)
    <3>1. \A c \in S : c < a => c < b
        BY <1>2
    <3>2. a \in Nat /\ ~(a < a)
        OBVIOUS
    <3> QED
        BY <1>2, <3>1, <3>2 DEF Below
  <2>2. Below(S, a) # Below(S, b) /\ IsFiniteSet(Below(S, b))
      BY <1>1, <2>1
  <2>3. /\ Cardinality(Below(S, a)) <= Cardinality(Below(S, b))
        /\ Cardinality(Below(S, b)) = Cardinality(Below(S, a)) => Below(S, b) = Below(S, a)
      BY <2>1, <2>2, FS_Subset
  <2> QED
      BY <1>1, <2>2, <2>3
<1>3. 0 \in P
  <2>1. FirstOf(S, 0) = {}
      BY <1>1 DEF FirstOf
  <2> QED
      BY <2>1, FS_EmptySet
<1>4. ASSUME NEW g \in Nat, g \in P PROVE g + 1 \in P
  <2> SUFFICES ASSUME g + 1 <= Cardinality(S) PROVE Cardinality(FirstOf(S, g + 1)) = g + 1
      BY <1>4
  <2> DEFINE F == FirstOf(S, g)
  <2>1. Cardinality(F) = g /\ F \in SUBSET S /\ IsFiniteSet(F)
      BY <1>1, <1>4
  <2>2. S \ F # {}
    <3>1. F # S
        BY <1>1, <2>1
    <3> QED
        BY <2>1, <3>1
  <2>3. PICK m \in S \ F : \A n \in S \ F : m <= n
      BY <2>2, NatHasLeast
  <2>4. Below(S, m) = F
    <3>1. ASSUME NEW a \in F PROVE a < m
      <4>1. a \in S /\ Cardinality(Below(S, a)) < g /\ ~(Cardinality(Below(S, m)) < g)
          BY <2>3 DEF FirstOf
      <4>2. ~(m < a) /\ a # m
          BY <1>1, <1>2, <2>3, <4>1
      <4> QED
          BY <2>3, <4>1, <4>2
    <3>2. ASSUME NEW a \in S, a < m PROVE a \in F
        BY <2>3, <3>2
    <3> QED
        BY <2>1, <3>1, <3>2 DEF Below
  <2>5. FirstOf(S, g + 1) = F \cup {m}
    <3>1. ASSUME NEW a \in S, Cardinality(Below(S, a)) < g + 1 PROVE a \in F \cup {m}
      <4>1. CASE a > m
        <5>1. Cardinality(Below(S, m)) < Cardinality(Below(S, a)) /\ Cardinality(Below(S, m)) = g
            BY <1>2, <2>1, <2>3, <2>4, <4>1
        <5> QED
            BY <1>1, <3>1, <5>1
      <4>2. CASE a < m
          BY <2>4, <4>2 DEF Below
      <4> QED
          BY <2>3, <4>1, <4>2
    <3>2. ASSUME NEW a \in F \cup {m} PROVE a \in FirstOf(S, g + 1)
      <4>1. CASE a = m
          BY <2>1, <2>3, <2>4, <4>1 DEF FirstOf
      <4>2. CASE a \in F
          BY <1>1, <4>2 DEF FirstOf
      <4> QED
          BY <3>2, <4>1, <4>2
    <3> QED
        BY <3>1, <3>2 DEF FirstOf
  <2>6. m \notin F
      BY <2>3
  <2> HIDE DEF F
  <2>7. Cardinality(F \cup {m}) = Cardinality(F) + 1
      BY <2>1, <2>6, FS_AddElement
  <2> QED
      BY <2>1, <2>5, <2>7
<1> HIDE DEF P
<1>5. Nat \subseteq P
    BY <1>3, <1>4, InductionOnNat
<1> QED
    BY <1>5 DEF P

-----------------------------------------------------------------------------

\* Gap addresses of the wallet in a row, unused, from m on.
FreshFrom(m) == \E n \in Int : n >= m /\ ((n + 1) .. (n + Gap)) \subseteq owned \ Used

\* While the load has computed them, but before it has inserted them.
FreshAfter(r, k) ==
    /\ lastUsed <= k
    /\ ((k + 1) .. (k + Gap)) \subseteq owned \cup r.new
    /\ ((k + 1) .. (k + Gap)) \cap Used \subseteq r.new

FreshStage(r) ==
    /\ r.pc \in {"addNew", "storeLastUsed"} =>
          \E k \in Int : /\ k <= LastUsedIndex(Used) /\ k + Gap \in Nat /\ r.addresses = 0 .. (k + Gap)
                         /\ \/ FreshFrom(lastUsed) /\ FreshFrom(k)
                            \/ r.pc = "addNew" /\ FreshAfter(r, k)
    /\ r.pc \in {"adopt", "insertHistory", "sumBalances", "sumHistory", "insertBalance", "setReady"} =>
          FreshFrom(lastUsed)

Fresh ==
    /\ status = "ready" => FreshFrom(lastUsed)
    /\ \A l \in Load : FreshStage(load[l])

FreshInv == CompleteInv /\ snapshot.owned \subseteq owned /\ (unseen = {} => Fresh)

LEMMA FreshIsOffered ==
    ASSUME LoadTypes, FreshFrom(lastUsed)
    PROVE  Cardinality(Offered) = Gap
<1> DEFINE empty == {a \in owned \ Used : a > lastUsed}
<1>1. accepted \in SUBSET Tx /\ owned \subseteq Addresses(Used) /\ lastUsed \in Used \cup {-1}
    BY DEF LoadTypes, ColumnTypes, ReadyInv, AddressInv
<1>2. Used \in SUBSET Nat /\ IsFiniteSet(Used)
    BY <1>1, UsedByFacts DEF Used
<1>3. /\ LastUsedIndex(Used) \in Nat \cup {-1} /\ Addresses(Used) \in SUBSET Nat
      /\ Addresses(Used) = 0 .. (LastUsedIndex(Used) + Gap)
    BY <1>2, LastUsedIndexFacts
<1>4. IsFiniteSet(Addresses(Used))
  <2>1. LastUsedIndex(Used) + Gap \in Int
      BY <1>3
  <2> QED
      BY <1>3, <2>1, FS_Interval
<1>5. empty \in SUBSET Nat /\ IsFiniteSet(empty)
  <2>1. empty \in SUBSET Addresses(Used)
      BY <1>1
  <2> QED
      BY <1>3, <1>4, <2>1, FS_Subset
<1>6. PICK n \in Int : n >= lastUsed /\ ((n + 1) .. (n + Gap)) \subseteq owned \ Used
    BY DEF FreshFrom
<1>7. (n + 1) .. (n + Gap) \in SUBSET empty /\ n + 1 \in Int /\ n + Gap \in Int
    BY <1>1, <1>2, <1>6
<1>8. Cardinality((n + 1) .. (n + Gap)) = Gap
  <2>1. Cardinality((n + 1) .. (n + Gap)) = IF n + 1 > n + Gap THEN 0 ELSE (n + Gap) - (n + 1) + 1
      BY <1>7, FS_Interval
  <2> QED
      BY <2>1
<1> HIDE DEF empty
<1>9. Gap <= Cardinality(empty)
    BY <1>5, <1>7, <1>8, FS_Subset
<1>10. Cardinality(FirstOf(empty, Gap)) = Gap
    BY <1>5, <1>9, FirstOnes
<1> QED
    BY <1>10 DEF Offered, FirstOf, Below, empty

LEMMA InitFreshInv ==
    ASSUME \A l, m \in Load : l = m
    PROVE  Init => FreshInv
<1> SUFFICES ASSUME Init PROVE FreshInv
    OBVIOUS
<1>1. CompleteInv
    BY InitCompleteInv
<1>2. Fresh /\ snapshot.owned \subseteq owned
    BY DEF Init, Fresh, FreshStage, Idle, NoSnapshot
<1> QED
    BY <1>1, <1>2 DEF FreshInv

LEMMA StepKeepsFresh ==
    ASSUME \A l, m \in Load : l = m, LoadTypes, Fresh, NEW l \in Load, Moves(l)
    PROVE  Fresh'
<1> DEFINE r == load[l]
           rr == load'[l]
           After(k) == (k + 1) .. (k + Gap)
<1>1. /\ DOMAIN load = Load /\ r \in Executions /\ owned \subseteq Addresses(Used)
      /\ accepted \in SUBSET Tx /\ lastUsed \in Used \cup {-1} /\ lastUsed <= LastUsedIndex(Used)
    BY DEF LoadTypes, ColumnTypes, Sane, ReadyInv, AddressInv
<1>2. FreshStage(r) /\ (status = "ready" => FreshFrom(lastUsed))
    BY DEF Fresh
<1>3. SUFFICES (status' = "ready" => FreshFrom(lastUsed)') /\ FreshStage(load[l])'
    BY DEF Fresh
<1>4. accepted' = accepted /\ owned \subseteq owned'
    BY DEF Moves, Request, CreateWallet, Invoke, InvokeFails, Timeout, LoadWallet, GenerateAddresses,
       AddNewAddresses, StoreLastUsed, Adopt, ReadHistory, InsertHistory, SumBalances,
       SumHistory, InsertBalance, SetReady, Throws, ReadRetries, SetError, tables
<1>5. Used' = Used /\ LastUsedIndex(Used)' = LastUsedIndex(Used)
    BY <1>4, SameUsed
<1>6. lastUsed' = lastUsed /\ FreshFrom(lastUsed) => FreshFrom(lastUsed)'
    BY <1>4, <1>5 DEF FreshFrom
<1>7. Used \in SUBSET Nat /\ IsFiniteSet(Used)
    BY <1>1, UsedByFacts DEF Used
<1>8. CASE Request(l) \/ Invoke(l) \/ InvokeFails(l) \/ Throws(l) \/ ReadRetries(l) \/ SetError(l) \/ Timeout(l)
  <2>1. /\ rr.pc \in {"idle", "requested", "generate", "setError", "readRetries"}
        /\ status' = "ready" => status = "ready"
        /\ lastUsed' = lastUsed
    <3>1. CASE Request(l)
        BY <1>1, <3>1 DEF Request, CreateWallet, Idle, tables
    <3>2. CASE SetError(l) \/ Timeout(l)
        BY <1>1, <3>2 DEF SetError, Timeout, Idle, tables
    <3>3. CASE Invoke(l) \/ InvokeFails(l) \/ Throws(l) \/ ReadRetries(l)
        BY <1>1, <3>3 DEF Invoke, InvokeFails, Throws, ReadRetries, Goto, tables, Executions
    <3> QED
        BY <1>8, <3>1, <3>2, <3>3
  <2> HIDE DEF rr
  <2> QED
      BY <1>2, <1>6, <2>1 DEF FreshStage, rr
<1>9. CASE GenerateAddresses(l)
  <2>1. /\ rr.pc = "addNew" /\ rr.addresses = Addresses(Used) /\ rr.new = Addresses(Used) \ Rows
        /\ UNCHANGED <<status, owned, lastUsed>>
      BY <1>1, <1>9 DEF GenerateAddresses, NewAddresses, Executions, tables
  <2> DEFINE k == LastUsedIndex(Used)
  <2>2. k \in Nat \cup {-1} /\ After(k) \cap Used = {} /\ Addresses(Used) = 0 .. (k + Gap)
      BY <1>7, LastUsedIndexFacts
  <2> HIDE DEF k
  <2>3. k \in Int /\ k + Gap \in Nat /\ After(k) \subseteq 0 .. (k + Gap)
      BY <2>2
  <2>4. FreshAfter(load[l], k)'
    <3>1. k' = k
        BY <1>5 DEF k
    <3>2. After(k) \subseteq owned \cup rr.new
      <4> HIDE DEF rr
      <4> QED
          BY <2>1, <2>2, <2>3 DEF Rows
    <3> HIDE DEF rr
    <3> QED
        BY <1>1, <1>5, <2>1, <2>2, <3>1, <3>2 DEF FreshAfter, k, rr
  <2>5. status # "ready"
      BY <1>9 DEF GenerateAddresses, LoadTypes, ReadyInv
  <2>6. k <= LastUsedIndex(Used)' /\ k' = k
      BY <1>5, <2>3 DEF k
  <2> HIDE DEF rr
  <2> QED
      BY <2>1, <2>2, <2>3, <2>4, <2>5, <2>6 DEF FreshStage, rr
<1>10. CASE AddNewAddresses(l)
  <2>1. /\ r.pc = "addNew" /\ rr.pc = (IF r.new = {} THEN "adopt" ELSE "storeLastUsed")
        /\ rr.addresses = r.addresses /\ rr.new = r.new
        /\ r.new \cap Rows = {} /\ owned' = owned \cup r.new
        /\ UNCHANGED <<status, lastUsed>>
      BY <1>1, <1>10 DEF AddNewAddresses, Goto, Executions
  <2>2. PICK k \in Int : /\ k <= LastUsedIndex(Used) /\ k + Gap \in Nat /\ r.addresses = 0 .. (k + Gap)
                         /\ \/ FreshFrom(lastUsed) /\ FreshFrom(k)
                            \/ FreshAfter(r, k)
      BY <1>2, <2>1 DEF FreshStage
  <2>3. (FreshFrom(lastUsed) /\ FreshFrom(k))'
    <3>1. CASE FreshFrom(lastUsed) /\ FreshFrom(k)
        BY <1>4, <1>5, <2>1, <3>1 DEF FreshFrom
    <3>2. CASE FreshAfter(r, k)
      <4>1. lastUsed <= k /\ After(k) \subseteq owned \cup r.new /\ After(k) \cap Used \subseteq r.new
          BY <3>2 DEF FreshAfter
      <4>2. After(k) \subseteq owned' \ Used
          BY <2>1, <4>1 DEF Rows
      <4> HIDE DEF rr
      <4> QED
          BY <1>5, <2>1, <4>1, <4>2 DEF FreshFrom
    <3> QED
        BY <2>2, <3>1, <3>2
  <2>4. status # "ready"
      BY <2>1 DEF LoadTypes, ReadyInv
  <2> HIDE DEF rr
  <2> QED
      BY <1>5, <2>1, <2>2, <2>3, <2>4 DEF FreshStage, rr
<1>11. CASE StoreLastUsed(l)
  <2>1. /\ r.pc = "storeLastUsed" /\ rr.pc = "adopt" /\ lastUsed' = Max(r.addresses) - Gap
        /\ UNCHANGED <<status, owned>>
      BY <1>1, <1>11 DEF StoreLastUsed, Goto, Executions
  <2>2. PICK k \in Int : k + Gap \in Nat /\ r.addresses = 0 .. (k + Gap) /\ FreshFrom(k)
      BY <1>2, <2>1 DEF FreshStage
  <2>3. lastUsed' = k
    <3>1. Max(r.addresses) = k + Gap
        BY <2>2, MaxOfInterval
    <3> QED
        BY <2>1, <2>2, <3>1
  <2>4. FreshFrom(lastUsed)'
      BY <1>5, <2>1, <2>2, <2>3 DEF FreshFrom
  <2>5. status # "ready"
      BY <2>1 DEF LoadTypes, ReadyInv
  <2> HIDE DEF rr
  <2> QED
      BY <2>1, <2>4, <2>5 DEF FreshStage, rr
<1>12. ASSUME NEW a \in r.todo, Adopt(l, a) PROVE (status' = "ready" => FreshFrom(lastUsed)') /\ FreshStage(load[l])'
  <2>1. r.pc = "adopt" /\ rr.pc = "adopt" /\ UNCHANGED <<status, lastUsed>>
      BY <1>1, <1>12 DEF Adopt, Executions
  <2> HIDE DEF rr
  <2> QED
      BY <1>2, <1>6, <2>1 DEF FreshStage, rr
<1>13. CASE ReadHistory(l) \/ InsertHistory(l) \/ SumBalances(l) \/ SumHistory(l) \/ InsertBalance(l)
  <2>1. /\ r.pc \in {"adopt", "insertHistory", "sumBalances", "sumHistory", "insertBalance"}
        /\ rr.pc \notin {"addNew", "storeLastUsed"}
        /\ UNCHANGED <<status, lastUsed>>
    <3>1. CASE ReadHistory(l)
        BY <1>1, <3>1 DEF ReadHistory, Executions, tables
    <3>2. CASE SumBalances(l)
        BY <1>1, <3>2 DEF SumBalances, Executions, tables
    <3>3. CASE InsertHistory(l) \/ SumHistory(l) \/ InsertBalance(l)
        BY <1>1, <3>3 DEF InsertHistory, SumHistory, InsertBalance, Goto, Executions, tables
    <3> QED
        BY <1>13, <3>1, <3>2, <3>3
  <2> HIDE DEF rr
  <2> QED
      BY <1>2, <1>6, <2>1 DEF FreshStage, rr
<1>14. CASE SetReady(l)
  <2>1. r.pc = "setReady" /\ rr.pc = "idle" /\ lastUsed' = lastUsed
      BY <1>1, <1>14 DEF SetReady, Idle, tables
  <2> HIDE DEF rr
  <2> QED
      BY <1>2, <1>6, <2>1 DEF FreshStage, rr
<1> QED
    BY <1>8, <1>9, <1>10, <1>11, <1>12, <1>13, <1>14 DEF Moves, LoadWallet

LEMMA CommitKeepsFresh ==
    ASSUME LoadTypes, Unloaded, Fresh, snapshot.owned \subseteq owned,
           NEW t \in Tx, CommitTx(t), unseen' = {}
    PROVE  Fresh'
<1> DEFINE D == DOMAIN Amount[t]
           B == UsedWith(t)
           L == LastUsedIndex(B)
           new == NewAddresses(B, snapshot.owned \cup B)
           mine == D \cap owned
           After(k) == (k + 1) .. (k + Gap)
<1>1. /\ B \in SUBSET Nat /\ IsFiniteSet(B) /\ B = Used \cup D
      /\ Used' = B /\ LastUsedIndex(Used)' = L
      /\ LastUsedIndex(Used) \in Int /\ L \in Int /\ LastUsedIndex(Used) <= L
      /\ Used \in SUBSET Nat
    BY CommitFacts
<1>2. /\ status' = status /\ load' = load
      /\ \/ mine = {} /\ UNCHANGED <<owned, lastUsed>>
         \/ /\ mine # {} /\ owned' = owned \cup new
            /\ lastUsed' = IF new = {} THEN lastUsed ELSE L
    BY MineIsAll DEF CommitTx, UsedWith
<1>3. lastUsed \in Used \cup {-1} /\ lastUsed <= LastUsedIndex(Used)
    BY DEF LoadTypes, ColumnTypes
<1>4. L \in Nat \cup {-1} /\ After(L) \cap B = {} /\ Addresses(B) = 0 .. (L + Gap)
    BY <1>1, LastUsedIndexFacts
<1>5. mine # {} => After(L) \subseteq owned' \ B
  <2> SUFFICES ASSUME mine # {} PROVE After(L) \subseteq owned' \ B
      OBVIOUS
  <2>1. owned' = owned \cup (Addresses(B) \ (snapshot.owned \cup B))
      BY <1>2 DEF NewAddresses
  <2> HIDE DEF B, L
  <2>2. After(L) \subseteq 0 .. (L + Gap)
      BY <1>4
  <2> QED
      BY <1>4, <2>1, <2>2
<1> HIDE DEF B, L, new
<1>6. ASSUME NEW m \in Int, m <= L, mine # {} PROVE \E n \in Int : n >= m /\ After(n) \subseteq owned' \ B
    BY <1>1, <1>5, <1>6
<1>7. ASSUME NEW m, FreshFrom(m), mine = {} PROVE \E n \in Int : n >= m /\ After(n) \subseteq owned' \ B
  <2>1. PICK n \in Int : n >= m /\ After(n) \subseteq owned \ Used
      BY <1>7 DEF FreshFrom
  <2>2. After(n) \subseteq owned' \ B
      BY <1>1, <1>2, <1>7, <2>1
  <2> QED
      BY <2>1, <2>2
<1>8. lastUsed \in Int /\ lastUsed' \in Int /\ lastUsed' <= L
  <2>1. lastUsed \in Int /\ lastUsed <= L
      BY <1>1, <1>3
  <2> QED
      BY <1>1, <1>2, <2>1
<1>9. FreshFrom(lastUsed) \/ mine # {} => FreshFrom(lastUsed)'
  <2> SUFFICES ASSUME FreshFrom(lastUsed) \/ mine # {}
               PROVE  \E n \in Int : n >= lastUsed' /\ After(n) \subseteq owned' \ B
      BY <1>1 DEF FreshFrom
  <2>1. CASE mine # {}
      BY <1>6, <1>8, <2>1
  <2>2. CASE mine = {}
    <3>1. lastUsed' = lastUsed
        BY <1>2, <2>2
    <3> QED
        BY <1>7, <2>2, <3>1
  <2> QED
      BY <2>1, <2>2
<1>10. ASSUME NEW k \in Int, k <= LastUsedIndex(Used), FreshFrom(k) \/ mine # {} PROVE FreshFrom(k)'
  <2> SUFFICES \E n \in Int : n >= k /\ After(n) \subseteq owned' \ B
      BY <1>1 DEF FreshFrom
  <2>1. k <= L
      BY <1>1, <1>10
  <2> QED
      BY <1>6, <1>7, <1>10, <2>1
<1>11. ASSUME NEW l \in Load PROVE FreshStage(load[l])'
  <2> DEFINE r == load[l]
  <2>1. FreshStage(r)
      BY DEF Fresh
  <2>2. CASE r.pc \in {"addNew", "storeLastUsed"}
    <3>1. PICK k \in Int : /\ k <= LastUsedIndex(Used) /\ k + Gap \in Nat /\ r.addresses = 0 .. (k + Gap)
                           /\ \/ FreshFrom(lastUsed) /\ FreshFrom(k)
                              \/ r.pc = "addNew" /\ FreshAfter(r, k)
        BY <2>1, <2>2 DEF FreshStage
    <3>2. k <= L
        BY <1>1, <3>1
    <3>3. \/ (FreshFrom(lastUsed) /\ FreshFrom(k))'
          \/ r.pc = "addNew" /\ FreshAfter(load[l], k)'
      <4>1. CASE mine # {} \/ (FreshFrom(lastUsed) /\ FreshFrom(k))
          BY <1>9, <1>10, <3>1, <4>1
      <4>2. CASE mine = {} /\ r.pc = "addNew" /\ FreshAfter(r, k)
        <5>1. /\ lastUsed <= k /\ After(k) \subseteq owned \cup r.new /\ After(k) \cap Used \subseteq r.new
              /\ owned' = owned /\ lastUsed' = lastUsed
            BY <1>2, <4>2 DEF FreshAfter
        <5>2. After(k) \cap B \subseteq r.new
            BY <1>1, <4>2, <5>1
        <5> QED
            BY <1>1, <1>2, <4>2, <5>1, <5>2 DEF FreshAfter
      <4> QED
          BY <3>1, <4>1, <4>2
    <3>4. r' = r /\ load[l]' = r
        BY <1>2
    <3> QED
        BY <1>1, <2>2, <3>1, <3>2, <3>3, <3>4 DEF FreshStage
  <2>3. CASE r.pc \notin {"addNew", "storeLastUsed"}
      BY <1>2, <1>9, <2>1, <2>3 DEF FreshStage
  <2> QED
      BY <2>2, <2>3
<1>12. status' = "ready" => FreshFrom(lastUsed)'
    BY <1>2, <1>9 DEF Fresh
<1> QED
    BY <1>11, <1>12 DEF Fresh

LEMMA NextFreshInv ==
    ASSUME \A l, m \in Load : l = m
    PROVE  FreshInv /\ [Next]_vars => FreshInv'
<1> SUFFICES ASSUME FreshInv, [Next]_vars PROVE FreshInv'
    OBVIOUS
<1>1. /\ CompleteInv' /\ LoadTypes /\ Unloaded
      /\ snapshot.owned \subseteq owned /\ (unseen = {} => Fresh)
    BY NextCompleteInv DEF FreshInv, CompleteInv
<1>2. ASSUME NEW l \in Load, Moves(l) PROVE FreshInv'
  <2>1. snapshot' = snapshot /\ unseen' = unseen /\ owned \subseteq owned'
      BY <1>2 DEF Moves, Request, CreateWallet, Invoke, InvokeFails, Timeout, LoadWallet,
         GenerateAddresses, AddNewAddresses, StoreLastUsed, Adopt, ReadHistory, InsertHistory,
         SumBalances, SumHistory, InsertBalance, SetReady, Throws, ReadRetries, SetError,
         txVars, tables
  <2>2. unseen = {} => Fresh'
      BY <1>1, <1>2, StepKeepsFresh
  <2> QED
      BY <1>1, <2>1, <2>2 DEF FreshInv
<1>3. ASSUME NEW t \in Tx, CommitTx(t) PROVE FreshInv'
  <2>1. snapshot'.owned = {}
      BY <1>3 DEF CommitTx, NoSnapshot
  <2>2. unseen' = {} => Fresh'
    <3> SUFFICES ASSUME unseen' = {} PROVE Fresh'
        OBVIOUS
    <3>1. unseen = {}
        BY <1>1, <1>3, MineIsAll
    <3> QED
        BY <1>1, <1>3, <3>1, CommitKeepsFresh
  <2> QED
      BY <1>1, <2>1, <2>2 DEF FreshInv
<1>4. CASE (\E t \in Tx : BeginTx(t)) \/ RollBack \/ UNCHANGED vars
  <2>1. /\ UNCHANGED <<status, owned, accepted, lastUsed, unseen, load>>
        /\ snapshot'.owned \subseteq owned
    <3>1. CASE \E t \in Tx : BeginTx(t)
        BY <3>1 DEF BeginTx, tables
    <3>2. CASE RollBack
        BY <3>2 DEF RollBack, NoSnapshot, tables
    <3>3. CASE UNCHANGED vars
        BY <1>1, <3>3 DEF vars, tables, txVars
    <3> QED
        BY <1>4, <3>1, <3>2, <3>3
  <2>2. Used' = Used /\ LastUsedIndex(Used)' = LastUsedIndex(Used)
      BY <2>1, SameUsed
  <2>3. Fresh => Fresh'
      BY <2>1, <2>2 DEF Fresh, FreshStage, FreshFrom, FreshAfter
  <2> QED
      BY <1>1, <2>1, <2>3 DEF FreshInv
<1> QED
    BY <1>2, <1>3, <1>4 DEF Next, Moves

\* A ready wallet has max_gap addresses to offer that no transaction has used,
\* whatever max_gap: a load that acts on an old view, and transactions that use
\* addresses between its statements, leave max_gap of them after
\* last_used_address_index.
THEOREM ReadyHasFreshAddresses ==
    ASSUME \A l, m \in Load : l = m
    PROVE  Spec => []FreshAddresses
<1>1. Init => FreshInv
    BY InitFreshInv
<1>2. FreshInv /\ [Next]_vars => FreshInv'
    BY NextFreshInv
<1>3. FreshInv => FreshAddresses
    BY FreshIsOffered DEF FreshInv, CompleteInv, Fresh, FreshAddresses
<1> QED
    BY <1>1, <1>2, <1>3, PTL DEF Spec

-----------------------------------------------------------------------------
(* GapScan: the loop of generateAddresses *)

\* What is known of the used indexes: those of the blocks behind are not above
\* lastUsedAddressIndex, those of the block at hand may still be in results.
Behind ==
    \A i \in usedAtStart : i <= highestCheckedIndex => i <= lastUsedAddressIndex

AtHand ==
    pc = "entries" =>
        \A i \in usedAtStart :
            i <= highestCheckedIndex + Gap =>
                i <= lastUsedAddressIndex \/ i \in results

\* The test that ended the loop.
Ended == pc = "done" => lastUsedAddressIndex + Gap <= highestCheckedIndex

ScanInv ==
    /\ ScanTypeOK
    /\ results \subseteq used
    /\ lastUsedAddressIndex \in used \cup {-1}
    /\ Behind
    /\ AtHand
    /\ Ended

LEMMA InitScanInv == ScanInit => ScanInv
BY DEF ScanInit, ScanInv, ScanTypeOK, Behind, AtHand, Ended, Index

LEMMA NextScanInv == ScanInv /\ [ScanNext]_scanVars => ScanInv'
<1> SUFFICES ASSUME ScanInv, [ScanNext]_scanVars PROVE ScanInv'
    OBVIOUS
<1>0. Index \subseteq Nat
    BY DEF Index
<1>1. CASE SelectBlock
    <2>1. ScanTypeOK'
        BY <1>1 DEF SelectBlock, ScanInv, ScanTypeOK
    <2>2. AtHand'
        BY <1>0, <1>1 DEF SelectBlock, ScanInv, ScanTypeOK, Behind, AtHand
    <2> QED
        BY <1>1, <2>1, <2>2 DEF SelectBlock, ScanInv, Behind, Ended
<1>2. ASSUME NEW index \in results, LookAt(index) PROVE ScanInv'
    <2>1. /\ index \in Nat /\ index \in used /\ lastUsedAddressIndex \in Int
          /\ highestCheckedIndex \in Int
          /\ \A i \in usedAtStart : i \in Nat
        BY <1>0, <1>2 DEF ScanInv, ScanTypeOK
    <2>2. ScanTypeOK'
        BY <1>2, <2>1 DEF LookAt, ScanInv, ScanTypeOK
    <2>3. Behind' /\ AtHand'
        BY <1>2, <2>1 DEF LookAt, ScanInv, Behind, AtHand
    <2> QED
        BY <1>2, <2>1, <2>2, <2>3 DEF LookAt, ScanInv, Ended
<1>3. CASE EndBlock
    <2>1. ScanTypeOK'
        BY <1>3 DEF EndBlock, ScanInv, ScanTypeOK
    <2>2. Behind'
        BY <1>3 DEF EndBlock, ScanInv, AtHand, Behind
    <2>3. AtHand'
        BY <1>3 DEF EndBlock, AtHand
    <2>4. Ended'
        BY <1>3 DEF EndBlock, ScanInv, ScanTypeOK, Ended
    <2> QED
        BY <1>3, <2>1, <2>2, <2>3, <2>4 DEF EndBlock, ScanInv
<1>4. ASSUME NEW index \in Index, Use(index) PROVE ScanInv'
    BY <1>4 DEF Use, ScanInv, ScanTypeOK, Behind, AtHand, Ended
<1>5. CASE UNCHANGED scanVars
    BY <1>5 DEF scanVars, ScanInv, ScanTypeOK, Behind, AtHand, Ended
<1> QED
    BY <1>1, <1>2, <1>3, <1>4, <1>5 DEF ScanNext, Scan

\* The inductive invariant of the scan (db/index.ts: generateAddresses).
THEOREM ScanInvariant == ScanSpec => []ScanInv
BY InitScanInv, NextScanInv, PTL DEF ScanSpec

\* generateAddresses returns a used index with none of the Gap indexes after it
\* used when it began, for every max_gap and number of addresses, however the
\* blocks and the transactions that use further addresses interleave.
THEOREM NoneIsMissed == ScanSpec => []NoUsedAddressIsMissed
<1>1. ScanInv => NoUsedAddressIsMissed
    <2> SUFFICES ASSUME ScanInv, pc = "done", NEW i \in usedAtStart
                 PROVE i <= lastUsedAddressIndex \/ i > lastUsedAddressIndex + Gap
        BY DEF NoUsedAddressIsMissed, ScanInv
    <2>1. i \in Nat /\ lastUsedAddressIndex \in Int /\ highestCheckedIndex \in Int
        BY DEF ScanInv, ScanTypeOK, Index
    <2> QED
        BY <2>1 DEF ScanInv, Behind, Ended
<1> QED
    BY <1>1, ScanInvariant, PTL

-----------------------------------------------------------------------------
(* The scan alone *)

\* What has been looked at reaches no further than the blocks.
Reach ==
    /\ lastUsedAddressIndex <= highestCheckedIndex + (IF pc = "entries" THEN Gap ELSE 0)
    /\ \A i \in results : i <= highestCheckedIndex + Gap

\* Whole blocks are behind and, as long as nothing was used meanwhile, none of
\* them ended the loop before it ended.
Blockwise ==
    /\ \/ highestCheckedIndex = -1 /\ pc # "done"
       \/ \E k \in Blocks : highestCheckedIndex = BlockEnd(k)
    /\ used = usedAtStart =>
          \A k \in Blocks :
              /\ BlockEnd(k) < highestCheckedIndex \/ (BlockEnd(k) = highestCheckedIndex /\ pc # "done")
              => ~Covered(used, BlockEnd(k))

AloneInv == ScanInv /\ Reach /\ Blockwise

\* Of all used indexes up to h the largest is the last used one.
LEMMA LastUsedIs ==
    ASSUME NEW U \in SUBSET Nat, NEW h \in Nat \cup {-1}, NEW last \in U \cup {-1},
           last <= h, \A i \in U : i <= h => i <= last
    PROVE  LastUsedUpTo(U, h) = last
<1>1. /\ LastUsedUpTo(U, h) \in U \cup {-1} /\ LastUsedUpTo(U, h) \in Nat \cup {-1}
      /\ LastUsedUpTo(U, h) <= h
      /\ \A i \in U : i <= h => i <= LastUsedUpTo(U, h)
    BY LastUsedFacts
<1>2. last \in Nat \cup {-1}
    OBVIOUS
<1> DEFINE x == LastUsedUpTo(U, h)
<1> HIDE DEF x
<1>3. x <= last
  <2>1. CASE x \in U
      BY <1>1, <2>1 DEF x
  <2>2. CASE x = -1
      BY <1>2, <2>2
  <2> QED
      BY <1>1, <2>1, <2>2 DEF x
<1>4. last <= x
  <2>1. CASE last \in U
      BY <1>1, <2>1 DEF x
  <2>2. CASE last = -1
      BY <1>1, <2>2 DEF x
  <2> QED
      BY <2>1, <2>2
<1>5. x \in Int /\ last \in Int
    BY <1>1, <1>2 DEF x
<1> QED
    BY <1>3, <1>4, <1>5 DEF x

LEMMA InitAloneInv == ScanInit => AloneInv
<1> SUFFICES ASSUME ScanInit PROVE AloneInv
    OBVIOUS
<1>1. ScanInv
    BY InitScanInv
<1>2. \A k \in Blocks : BlockEnd(k) \in Nat
    BY BlockEnds
<1> QED
    BY <1>1, <1>2 DEF ScanInit, AloneInv, Reach, Blockwise

LEMMA NextAloneInv == AloneInv /\ [ScanNext]_scanVars => AloneInv'
<1> SUFFICES ASSUME AloneInv, [ScanNext]_scanVars PROVE AloneInv'
    OBVIOUS
<1>1. ScanInv'
    BY NextScanInv DEF AloneInv
<1>2. /\ used \in SUBSET Nat /\ usedAtStart \subseteq used
      /\ highestCheckedIndex \in Nat \cup {-1} /\ highestCheckedIndex \in Int
      /\ lastUsedAddressIndex \in used \cup {-1} /\ lastUsedAddressIndex \in Int
      /\ results \in SUBSET Nat
    BY DEF AloneInv, ScanInv, ScanTypeOK, Index
<1>3. CASE SelectBlock
  <2>1. Reach'
      BY <1>2, <1>3 DEF SelectBlock, AloneInv, Reach
  <2>2. Blockwise'
      BY <1>2, <1>3 DEF SelectBlock, AloneInv, Blockwise
  <2> QED
      BY <1>1, <2>1, <2>2 DEF AloneInv
<1>4. ASSUME NEW index \in results, LookAt(index) PROVE AloneInv'
  <2>1. Reach'
      BY <1>2, <1>4 DEF LookAt, AloneInv, Reach
  <2>2. Blockwise'
      BY <1>2, <1>4 DEF LookAt, AloneInv, Blockwise
  <2> QED
      BY <1>1, <2>1, <2>2 DEF AloneInv
<1>5. CASE EndBlock
  <2> DEFINE h == highestCheckedIndex + Gap
  <2>1. /\ pc = "entries" /\ results = {} /\ results' = results
        /\ highestCheckedIndex' = h
        /\ lastUsedAddressIndex' = lastUsedAddressIndex
        /\ used' = used /\ usedAtStart' = usedAtStart
        /\ IF lastUsedAddressIndex + Gap > h THEN pc' = "select" ELSE pc' = "done"
      BY <1>5 DEF EndBlock
  <2>2. h \in Nat /\ h > highestCheckedIndex
      BY <1>2
  <2>3. PICK k \in Blocks : h = BlockEnd(k) /\ \A j \in Blocks : BlockEnd(j) < h => BlockEnd(j) <= highestCheckedIndex
    <3>1. CASE highestCheckedIndex = -1
      <4>1. 1 \in Blocks /\ h = BlockEnd(1)
          BY <3>1 DEF Blocks, BlockEnd
      <4>2. \A j \in Blocks : ~(BlockEnd(j) < BlockEnd(1))
        <5> TAKE j \in Blocks
        <5>1. 1 <= j
            BY DEF Blocks
        <5> QED
            BY <4>1, <5>1, BlockEnds
      <4> QED
          BY <4>1, <4>2
    <3>2. ASSUME NEW i \in Blocks, highestCheckedIndex = BlockEnd(i)
          PROVE  \E m \in Blocks : h = BlockEnd(m) /\ \A j \in Blocks : BlockEnd(j) < h => BlockEnd(j) <= highestCheckedIndex
      <4>1. i + 1 \in Blocks /\ i \in Nat
          BY DEF Blocks
      <4>2. (i + 1) * Gap = i * Gap + Gap /\ i * Gap \in Nat
          BY <4>1
      <4>3. h = BlockEnd(i + 1)
          BY <3>2, <4>2 DEF BlockEnd
      <4>4. ASSUME NEW j \in Blocks, BlockEnd(j) < BlockEnd(i + 1) PROVE BlockEnd(j) <= BlockEnd(i)
        <5>1. BlockEnd(j) \in Nat /\ BlockEnd(i + 1) \in Nat
            BY <4>1, BlockEnds
        <5>2. ~(i + 1 <= j)
            BY <4>1, <4>4, <5>1, BlockEnds
        <5>3. j <= i
            BY <4>1, <5>2 DEF Blocks
        <5> QED
            BY <5>3, BlockEnds
      <4> QED
          BY <3>2, <4>1, <4>3, <4>4
    <3> QED
        BY <2>1, <3>1, <3>2 DEF AloneInv, Blockwise
  <2> HIDE DEF h
  <2>4. lastUsedAddressIndex <= h
      BY <2>1 DEF AloneInv, Reach, h
  <2>5. Reach'
      BY <1>2, <2>1, <2>2, <2>4 DEF Reach
  <2>6. ASSUME used = usedAtStart PROVE LastUsedUpTo(used, h) = lastUsedAddressIndex
    <3>1. \A i \in used : i <= h => i <= lastUsedAddressIndex
        BY <2>1, <2>6 DEF AloneInv, ScanInv, AtHand, h
    <3> QED
        BY <1>2, <2>2, <2>4, <3>1, LastUsedIs
  <2>7. ASSUME used = usedAtStart, NEW j \in Blocks,
               BlockEnd(j) < h \/ (BlockEnd(j) = h /\ pc' # "done")
        PROVE  ~Covered(used, BlockEnd(j))
    <3>1. CASE BlockEnd(j) < h
      <4>1. BlockEnd(j) \in Nat /\ BlockEnd(j) <= highestCheckedIndex
          BY <2>3, <3>1, BlockEnds
      <4>2. BlockEnd(j) < highestCheckedIndex \/ (BlockEnd(j) = highestCheckedIndex /\ pc # "done")
          BY <1>2, <2>1, <4>1
      <4> QED
          BY <2>7, <4>2 DEF AloneInv, Blockwise
    <3>2. CASE BlockEnd(j) = h /\ pc' # "done"
        BY <1>2, <2>1, <2>2, <2>6, <2>7, <3>2 DEF Covered
    <3> QED
        BY <2>7, <3>1, <3>2
  <2>8. Blockwise'
    <3>1. (highestCheckedIndex' = -1 /\ pc' # "done") \/ \E i \in Blocks : highestCheckedIndex' = BlockEnd(i)
        BY <2>1, <2>3
    <3> QED
        BY <2>1, <2>7, <3>1 DEF Blockwise
  <2> QED
      BY <1>1, <2>5, <2>8 DEF AloneInv
<1>6. ASSUME NEW index \in Index, Use(index) PROVE AloneInv'
  <2>1. used' # usedAtStart' /\ Reach'
      BY <1>2, <1>6 DEF Use, AloneInv, Reach
  <2>2. Blockwise'
      BY <1>6, <2>1 DEF Use, AloneInv, Blockwise
  <2> QED
      BY <1>1, <2>1, <2>2 DEF AloneInv
<1>7. CASE UNCHANGED scanVars
    BY <1>1, <1>7 DEF scanVars, AloneInv, Reach, Blockwise
<1> QED
    BY <1>3, <1>4, <1>5, <1>6, <1>7 DEF ScanNext, Scan

\* With no transaction meanwhile, the index generateAddresses returns is the last
\* used one of the first block that leaves Gap indexes after it, and it looks at
\* no further block: GapScan computes what AddressGap defines.
THEOREM ScanIsLastUsedIndex == ScanSpec => []AloneItIsLastUsedIndex
<1>1. AloneInv => AloneItIsLastUsedIndex
  <2> SUFFICES ASSUME AloneInv, pc = "done", used = usedAtStart
               PROVE  lastUsedAddressIndex = LastUsedIndex(used) /\ highestCheckedIndex = Checked(used)
      BY DEF AloneItIsLastUsedIndex
  <2>1. /\ used \in SUBSET (0 .. MaxIndex) /\ used \in SUBSET Nat
        /\ lastUsedAddressIndex \in used \cup {-1} /\ lastUsedAddressIndex \in Int
        /\ highestCheckedIndex \in Int
      BY DEF AloneInv, ScanInv, ScanTypeOK, Index
  <2>2. IsFiniteSet(used)
    <3>1. IsFiniteSet(0 .. MaxIndex)
        BY FS_Interval, MaxIndexAssumption
    <3> QED
        BY <2>1, <3>1, FS_Subset
  <2>3. PICK k \in Blocks : highestCheckedIndex = BlockEnd(k) /\ BlockEnd(k) \in Nat
      BY BlockEnds DEF AloneInv, Blockwise
  <2>4. LastUsedUpTo(used, highestCheckedIndex) = lastUsedAddressIndex
    <3>1. lastUsedAddressIndex <= highestCheckedIndex
        BY <2>1 DEF AloneInv, Reach
    <3>2. \A i \in used : i <= highestCheckedIndex => i <= lastUsedAddressIndex
        BY DEF AloneInv, ScanInv, Behind
    <3> QED
        BY <2>1, <2>3, <3>1, <3>2, LastUsedIs
  <2>5. Covered(used, highestCheckedIndex)
      BY <2>4 DEF Covered, AloneInv, ScanInv, Ended
  <2>6. highestCheckedIndex = Checked(used)
    <3>1. PICK c \in Blocks : Checked(used) = BlockEnd(c)
        BY <2>1, <2>2, CheckedFacts
    <3>2. Covered(used, BlockEnd(c)) /\ BlockEnd(c) <= BlockEnd(k) /\ BlockEnd(c) \in Nat
        BY <2>1, <2>2, <2>3, <2>5, <3>1, CheckedFacts, BlockEnds
    <3>3. ~(BlockEnd(c) < highestCheckedIndex)
        BY <3>2 DEF AloneInv, Blockwise
    <3> QED
        BY <2>3, <3>1, <3>2, <3>3
  <2> QED
      BY <2>4, <2>6 DEF LastUsedIndex
<1> QED
    BY <1>1, InitAloneInv, NextAloneInv, PTL DEF ScanSpec
=============================================================================
