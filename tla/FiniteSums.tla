----------------------------- MODULE FiniteSums -----------------------------
(***************************************************************************)
(* Sums over finite sets: what MapThenSumSet returns, for every finite set *)
(* of any size.  The fold is a recursive function; its table of sums is    *)
(* built up by induction on the number of elements.                        *)
(***************************************************************************)
EXTENDS Integers, FiniteSets, FiniteSetsExt, FiniteSetTheorems, TLAPS

\* Induction, with the set of the numbers that have the property.
LEMMA InductionOnNat ==
    ASSUME NEW P, 0 \in P, \A n \in Nat : n \in P => n + 1 \in P
    PROVE  Nat \subseteq P
<1> DEFINE R == {ss \in Nat \X Nat : ss[1] < ss[2]}
           Bad == Nat \ P
<1>1. IsWellFoundedOn(R, Nat)
    BY NatLessThanWellFounded DEF OpToRel
<1>2. \A m, n \in Nat : <<n, m>> \in R <=> n < m
    OBVIOUS
<1> HIDE DEF R
<1>3. SUFFICES ASSUME Bad # {} PROVE FALSE
    OBVIOUS
<1>4. Bad \in SUBSET Nat
    OBVIOUS
<1>5. \E m \in Bad : \A n \in Bad : ~(<<n, m>> \in R)
  <2> HIDE DEF Bad
  <2> QED
      BY <1>1, <1>3, <1>4, WFMin, Zenon
<1>6. PICK m \in Bad : \A n \in Bad : ~(n < m)
    BY <1>2, <1>4, <1>5
<1>7. m # 0 /\ m - 1 \in Nat /\ m - 1 < m
    BY <1>4, <1>6
<1>8. m - 1 \in P
    BY <1>6, <1>7
<1>9. (m - 1) + 1 \in P
    BY <1>7, <1>8
<1> QED
    BY <1>6, <1>7, <1>9

\* Induction on the elements of a finite set.
LEMMA InductionOnSets ==
    ASSUME NEW U, IsFiniteSet(U), NEW P, {} \in P,
           \A S \in SUBSET U : \A x \in U \ S : S \in P => S \cup {x} \in P
    PROVE  SUBSET U \subseteq P
<1> DEFINE N == {n \in Nat : \A S \in SUBSET U : Cardinality(S) = n => S \in P}
<1>1. \A S \in SUBSET U : IsFiniteSet(S) /\ Cardinality(S) \in Nat
    BY FS_Subset, FS_CardinalityType
<1>2. 0 \in N
    BY <1>1, FS_EmptySet
<1>3. ASSUME NEW n \in N PROVE n + 1 \in N
  <2> SUFFICES ASSUME NEW S \in SUBSET U, Cardinality(S) = n + 1 PROVE S \in P
      BY <1>3
  <2>1. S # {}
      BY <1>1, <1>3, FS_EmptySet
  <2>2. PICK x \in S : TRUE
      BY <2>1
  <2>3. S \ {x} \in SUBSET U /\ Cardinality(S \ {x}) = n /\ x \in U \ (S \ {x})
    <3>1. Cardinality(S \ {x}) = Cardinality(S) - 1
        BY <1>1, FS_RemoveElement
    <3> QED
        BY <1>3, <3>1
  <2>4. S \ {x} \in P
      BY <1>3, <2>3
  <2>5. (S \ {x}) \cup {x} = S
      OBVIOUS
  <2> QED
      BY <2>3, <2>4, <2>5
<1> HIDE DEF N
<1>4. Nat \subseteq N
    BY <1>2, <1>3, InductionOnNat
<1> QED
    BY <1>1, <1>4 DEF N

-----------------------------------------------------------------------------
(* Folds.  G[<<x, v>>] adds the element x to the value v, and c[s] is the element *)
(* of s that is added last.                                                    *)

FoldStep(base, G, c, h, s) == IF s = {} THEN base ELSE G[<<c[s], h[s \ {c[s]}]>>]

\* A table of the values of the subsets of U that is right up to n elements.
IsFoldUpTo(U, base, G, c, h, n) ==
    \A s \in SUBSET U : Cardinality(s) <= n => h[s] = FoldStep(base, G, c, h, s)

LEMMA FoldUpTo ==
    ASSUME NEW U, IsFiniteSet(U), NEW D, NEW base \in D, NEW G \in [U \X D -> D],
           NEW c, \A s \in SUBSET U : s # {} => c[s] \in s
    PROVE  \A n \in Nat : \E h \in [SUBSET U -> D] : IsFoldUpTo(U, base, G, c, h, n)
<1> DEFINE Step(h, s) == FoldStep(base, G, c, h, s)
           Good(h, n) == \A s \in SUBSET U : Cardinality(s) <= n => h[s] = Step(h, s)
           N == {n \in Nat : \E h \in [SUBSET U -> D] : Good(h, n)}
<1>1. \A s \in SUBSET U : IsFiniteSet(s) /\ Cardinality(s) \in Nat /\ (Cardinality(s) = 0 <=> s = {})
    BY FS_Subset, FS_CardinalityType, FS_EmptySet
<1>2. 0 \in N
  <2> DEFINE h == [s \in SUBSET U |-> base]
  <2>1. h \in [SUBSET U -> D] /\ Good(h, 0)
      BY <1>1 DEF FoldStep
  <2> QED
      BY <2>1
<1>3. ASSUME NEW n \in N PROVE n + 1 \in N
  <2>1. PICK h \in [SUBSET U -> D] : Good(h, n)
      BY <1>3
  <2> DEFINE g == [s \in SUBSET U |-> Step(h, s)]
  <2>2. ASSUME NEW s \in SUBSET U, s # {} PROVE c[s] \in U /\ s \ {c[s]} \in SUBSET U
                /\ Cardinality(s \ {c[s]}) = Cardinality(s) - 1
    <3>1. c[s] \in s
        BY <2>2
    <3> QED
        BY <1>1, <3>1, FS_RemoveElement
  <2>3. ASSUME NEW s \in SUBSET U PROVE Step(h, s) \in D
    <3>1. CASE s = {}
        BY <3>1 DEF FoldStep
    <3>2. CASE s # {}
      <4>1. c[s] \in U /\ s \ {c[s]} \in SUBSET U
          BY <2>2, <3>2
      <4>2. h[s \ {c[s]}] \in D
          BY <4>1
      <4> QED
          BY <3>2, <4>1, <4>2 DEF FoldStep
    <3> QED
        BY <3>1, <3>2
  <2>4. g \in [SUBSET U -> D]
      BY <2>3
  <2>5. ASSUME NEW s \in SUBSET U, Cardinality(s) <= n PROVE g[s] = h[s]
    <3>1. h[s] = Step(h, s)
        BY <2>1, <2>5
    <3>2. g[s] = Step(h, s)
        OBVIOUS
    <3> HIDE DEF g
    <3> QED
        BY <3>1, <3>2
  <2>6. ASSUME NEW s \in SUBSET U, Cardinality(s) <= n + 1 PROVE g[s] = Step(g, s)
    <3>1. CASE s = {}
        BY <3>1 DEF FoldStep
    <3>2. CASE s # {}
      <4>1. g[s \ {c[s]}] = h[s \ {c[s]}]
        <5> HIDE DEF g
        <5>1. s \ {c[s]} \in SUBSET U /\ Cardinality(s \ {c[s]}) = Cardinality(s) - 1
            BY <2>2, <3>2
        <5>2. Cardinality(s) \in Nat /\ n \in Nat
            BY <1>1, <1>3
        <5>3. Cardinality(s \ {c[s]}) <= n
            BY <2>6, <5>1, <5>2
        <5> QED
            BY <2>5, <5>1, <5>3
      <4>2. g[s] = Step(h, s)
          OBVIOUS
      <4> HIDE DEF g
      <4> QED
          BY <3>2, <4>1, <4>2 DEF FoldStep
    <3> QED
        BY <3>1, <3>2
  <2> HIDE DEF g
  <2>7. Good(g, n + 1)
      BY <2>6
  <2> HIDE DEF Good
  <2> QED
      BY <1>3, <2>4, <2>7
<1> HIDE DEF N
<1>4. Nat \subseteq N
    BY <1>2, <1>3, InductionOnNat
<1> QED
    BY <1>4 DEF N, IsFoldUpTo

\* A step c of base and G goes through the subsets of U and stays in D.
IsFoldOf(U, D, base, G, c) ==
    /\ IsFiniteSet(U)
    /\ base \in D
    /\ G \in [U \X D -> D]
    /\ \A s \in SUBSET U : s # {} => c[s] \in s

HasFold(U, D, base, G, c) ==
    \E h \in [SUBSET U -> D] : \A s \in SUBSET U : h[s] = FoldStep(base, G, c, h, s)

\* One function has the value of every subset: the recursive function of
\* MapThenFoldSet exists.
LEMMA FoldExists ==
    ASSUME NEW U, NEW D, NEW base, NEW G, NEW c, IsFoldOf(U, D, base, G, c)
    PROVE  HasFold(U, D, base, G, c)
<1>0. /\ IsFiniteSet(U) /\ base \in D /\ G \in [U \X D -> D]
      /\ \A s \in SUBSET U : s # {} => c[s] \in s
    BY DEF IsFoldOf
<1>1. Cardinality(U) \in Nat /\ \A s \in SUBSET U : Cardinality(s) \in Nat /\ Cardinality(s) <= Cardinality(U)
    BY <1>0, FS_Subset, FS_CardinalityType
<1>2. PICK h \in [SUBSET U -> D] : IsFoldUpTo(U, base, G, c, h, Cardinality(U))
    BY <1>0, <1>1, FoldUpTo
<1> QED
    BY <1>1, <1>2 DEF IsFoldUpTo, HasFold

-----------------------------------------------------------------------------
(* The table of sums *)

Pick(S) == CHOOSE x \in S : TRUE
SumStep(f, h, S) == IF S = {} THEN 0 ELSE f[Pick(S)] + h[S \ {Pick(S)}]
SumTable(f, S) == CHOOSE h : h = [s \in SUBSET S |-> SumStep(f, h, s)]

\* The sum of f over S.
SumOver(f, S) == MapThenSumSet(LAMBDA o : f[o], S)

\* A table of the sums of the subsets of U.
IsTable(f, U, h) == h = [s \in SUBSET U |-> SumStep(f, h, s)]

LEMMA SumIsTable == ASSUME NEW f, NEW S PROVE SumOver(f, S) = SumTable(f, S)[S]
BY DEF SumOver, MapThenSumSet, MapThenFoldSet, SumTable, SumStep, Pick

LEMMA PickIn == ASSUME NEW S, S # {} PROVE Pick(S) \in S
BY DEF Pick

\* One function sums every subset, and MapThenSumSet is that function.
LEMMA TableExists ==
    ASSUME NEW U, IsFiniteSet(U), NEW f \in [U -> Int]
    PROVE  \E h \in [SUBSET U -> Int] : IsTable(f, U, h)
<1> DEFINE G == [p \in U \X Int |-> f[p[1]] + p[2]]
           c == [s \in SUBSET U |-> Pick(s)]
           zero == 0
<1>0. zero \in Int /\ zero = 0
    OBVIOUS
<1>1. G \in [U \X Int -> Int] /\ \A x \in U : \A v \in Int : G[<<x, v>>] = f[x] + v
    OBVIOUS
<1>2. \A s \in SUBSET U : c[s] = Pick(s) /\ (s # {} => c[s] \in s)
    BY PickIn
<1> HIDE DEF G, c, zero
<1>3. PICK h \in [SUBSET U -> Int] : \A s \in SUBSET U : h[s] = FoldStep(zero, G, c, h, s)
  <2>1. IsFoldOf(U, Int, zero, G, c)
      BY <1>0, <1>1, <1>2 DEF IsFoldOf
  <2>2. HasFold(U, Int, zero, G, c)
      BY <2>1, FoldExists
  <2> QED
      BY <2>2 DEF HasFold
<1>4. ASSUME NEW s \in SUBSET U PROVE h[s] = SumStep(f, h, s)
  <2>1. CASE s = {}
      BY <1>0, <1>3, <2>1 DEF FoldStep, SumStep
  <2>2. CASE s # {}
    <3>1. c[s] \in U /\ c[s] = Pick(s) /\ s \ {c[s]} \in SUBSET U
        BY <1>2, <2>2
    <3>2. h[s] = G[<<c[s], h[s \ {c[s]}]>>] /\ h[s \ {c[s]}] \in Int
        BY <1>3, <2>2, <3>1 DEF FoldStep
    <3> QED
        BY <1>1, <2>2, <3>1, <3>2 DEF SumStep
  <2> QED
      BY <2>1, <2>2
<1> QED
    BY <1>4 DEF IsTable

LEMMA TableIsUnique ==
    ASSUME NEW S, IsFiniteSet(S), NEW f, NEW g, NEW h, IsTable(f, S, g), IsTable(f, S, h)
    PROVE  g[S] = h[S]
<1>0. \A s \in SUBSET S : g[s] = SumStep(f, g, s) /\ h[s] = SumStep(f, h, s)
    BY DEF IsTable
<1> DEFINE N == {n \in Nat : \A s \in SUBSET S : Cardinality(s) = n => g[s] = h[s]}
<1>1. \A s \in SUBSET S : IsFiniteSet(s) /\ Cardinality(s) \in Nat /\ (Cardinality(s) = 0 <=> s = {})
    BY FS_Subset, FS_CardinalityType, FS_EmptySet
<1>2. g[{}] = h[{}]
    BY <1>0 DEF SumStep
<1>3. 0 \in N
    BY <1>1, <1>2
<1>4. ASSUME NEW n \in N PROVE n + 1 \in N
  <2> SUFFICES ASSUME NEW s \in SUBSET S, Cardinality(s) = n + 1 PROVE g[s] = h[s]
      BY <1>4
  <2>1. s # {} /\ n \in Nat
      BY <1>1, <1>4
  <2>2. Pick(s) \in s /\ s \ {Pick(s)} \in SUBSET S /\ Cardinality(s \ {Pick(s)}) = Cardinality(s) - 1
      BY <1>1, <2>1, PickIn, FS_RemoveElement
  <2>3. g[s \ {Pick(s)}] = h[s \ {Pick(s)}]
      BY <1>4, <2>1, <2>2
  <2> QED
      BY <1>0, <2>1, <2>3 DEF SumStep
<1> HIDE DEF N
<1>5. Nat \subseteq N
    BY <1>3, <1>4, InductionOnNat
<1> QED
    BY <1>1, <1>5 DEF N

LEMMA SumUnfolds ==
    ASSUME NEW U, IsFiniteSet(U), NEW f \in [U -> Int], NEW S \in SUBSET U
    PROVE  /\ SumOver(f, S) \in Int
           /\ SumOver(f, {}) = 0
           /\ S # {} => SumOver(f, S) = f[Pick(S)] + SumOver(f, S \ {Pick(S)})
<1>0. PICK G \in [SUBSET U -> Int] : IsTable(f, U, G)
    BY TableExists
<1>1. \A s \in SUBSET U : G[s] = SumStep(f, G, s)
    BY <1>0 DEF IsTable
<1>2. ASSUME NEW T \in SUBSET U PROVE SumOver(f, T) = G[T]
  <2> DEFINE g == [s \in SUBSET T |-> G[s]]
             h == SumTable(f, T)
  <2>1. ASSUME NEW s \in SUBSET T PROVE SumStep(f, g, s) = SumStep(f, G, s)
    <3>1. CASE s = {}
        BY <3>1 DEF SumStep
    <3>2. CASE s # {}
      <4>1. s \ {Pick(s)} \in SUBSET T
          OBVIOUS
      <4>2. g[s \ {Pick(s)}] = G[s \ {Pick(s)}]
          BY <4>1
      <4> QED
          BY <3>2, <4>2 DEF SumStep
    <3> QED
        BY <3>1, <3>2
  <2>2. \A s \in SUBSET T : s \in SUBSET U
      OBVIOUS
  <2>3. \A s \in SUBSET T : G[s] = SumStep(f, G, s)
      BY <1>1, <2>2
  <2>4. g = [s \in SUBSET T |-> SumStep(f, g, s)]
    <3>1. \A s \in SUBSET T : G[s] = SumStep(f, g, s)
        BY <2>1, <2>3
    <3> QED
        BY <3>1
  <2>5. IsTable(f, T, h)
    <3> HIDE DEF g
    <3>1. \E k : k = [s \in SUBSET T |-> SumStep(f, k, s)]
        BY <2>4
    <3> QED
        BY <3>1 DEF SumTable, IsTable
  <2>6. IsFiniteSet(T) /\ g[T] = G[T]
      BY FS_Subset
  <2> HIDE DEF g, h
  <2>7. IsTable(f, T, g)
      BY <2>4 DEF IsTable
  <2>8. h[T] = g[T]
      BY <2>5, <2>6, <2>7, TableIsUnique
  <2> QED
      BY <2>6, <2>8, SumIsTable DEF h
<1>3. SumOver(f, {}) = 0
  <2>1. {} \in SUBSET U
      OBVIOUS
  <2>2. G[{}] = SumStep(f, G, {})
      BY <1>1, <2>1
  <2> QED
      BY <1>2, <2>1, <2>2 DEF SumStep
<1>4. ASSUME S # {} PROVE SumOver(f, S) = f[Pick(S)] + SumOver(f, S \ {Pick(S)})
  <2>1. S \ {Pick(S)} \in SUBSET U
      OBVIOUS
  <2>2. G[S] = SumStep(f, G, S)
      BY <1>1
  <2>3. G[S] = f[Pick(S)] + G[S \ {Pick(S)}]
      BY <1>4, <2>2 DEF SumStep
  <2> QED
      BY <1>2, <2>1, <2>3
<1> QED
    BY <1>2, <1>3, <1>4

\* Whatever the order, an element adds its own value.
LEMMA SumWithout ==
    ASSUME NEW U, IsFiniteSet(U), NEW f \in [U -> Int], NEW S \in SUBSET U, NEW x \in S
    PROVE  SumOver(f, S) = f[x] + SumOver(f, S \ {x})
<1> DEFINE N == {n \in Nat : \A T \in SUBSET U : Cardinality(T) = n =>
                     \A y \in T : SumOver(f, T) = f[y] + SumOver(f, T \ {y})}
<1>1. \A T \in SUBSET U : IsFiniteSet(T) /\ Cardinality(T) \in Nat /\ (Cardinality(T) = 0 <=> T = {})
    BY FS_Subset, FS_CardinalityType, FS_EmptySet
<1>2. 0 \in N
    BY <1>1
<1>3. ASSUME NEW n \in N PROVE n + 1 \in N
  <2> SUFFICES ASSUME NEW T \in SUBSET U, Cardinality(T) = n + 1, NEW y \in T
               PROVE  SumOver(f, T) = f[y] + SumOver(f, T \ {y})
      BY <1>3
  <2> DEFINE p == Pick(T)
  <2>1. p \in T
      BY PickIn
  <2> HIDE DEF p
  <2>2. SumOver(f, T) = f[p] + SumOver(f, T \ {p})
      BY SumUnfolds DEF p
  <2>3. CASE p = y
      BY <2>2, <2>3
  <2>4. CASE p # y
    <3>1. /\ T \ {p} \in SUBSET U /\ Cardinality(T \ {p}) = n
          /\ T \ {y} \in SUBSET U /\ Cardinality(T \ {y}) = n
      <4>1. Cardinality(T \ {p}) = Cardinality(T) - 1 /\ Cardinality(T \ {y}) = Cardinality(T) - 1
          BY <1>1, <2>1, FS_RemoveElement
      <4> QED
          BY <1>3, <4>1
    <3>2. y \in T \ {p} /\ p \in T \ {y} /\ (T \ {p}) \ {y} = (T \ {y}) \ {p}
        BY <2>1, <2>4
    <3>3. /\ SumOver(f, T \ {p}) = f[y] + SumOver(f, (T \ {p}) \ {y})
          /\ SumOver(f, T \ {y}) = f[p] + SumOver(f, (T \ {p}) \ {y})
        BY <1>3, <3>1, <3>2
    <3>4. f[y] \in Int /\ f[p] \in Int /\ SumOver(f, (T \ {p}) \ {y}) \in Int
      <4>1. (T \ {p}) \ {y} \in SUBSET U
          OBVIOUS
      <4> QED
          BY <2>1, <4>1, SumUnfolds
    <3> QED
        BY <2>2, <3>3, <3>4
  <2> QED
      BY <2>3, <2>4
<1> HIDE DEF N
<1>4. Nat \subseteq N
    BY <1>2, <1>3, InductionOnNat
<1> QED
    BY <1>1, <1>4 DEF N

-----------------------------------------------------------------------------
(* What the sums are *)

LEMMA SumOfEmpty == ASSUME NEW f \in [{} -> Int] PROVE SumOver(f, {}) = 0
BY SumUnfolds, FS_EmptySet

LEMMA SumIsNat ==
    ASSUME NEW U, IsFiniteSet(U), NEW f \in [U -> Nat], NEW S \in SUBSET U
    PROVE  SumOver(f, S) \in Nat
<1> DEFINE P == {T \in SUBSET U : SumOver(f, T) \in Nat}
<1>1. f \in [U -> Int]
    OBVIOUS
<1>2. {} \in P
  <2>1. SumOver(f, {}) = 0
      BY <1>1, SumUnfolds
  <2> QED
      BY <2>1
<1>3. ASSUME NEW T \in SUBSET U, NEW x \in U \ T, T \in P PROVE T \cup {x} \in P
  <2>1. T \cup {x} \in SUBSET U /\ (T \cup {x}) \ {x} = T /\ x \in T \cup {x}
      BY <1>3
  <2>2. SumOver(f, T \cup {x}) = f[x] + SumOver(f, (T \cup {x}) \ {x})
      BY <1>1, <2>1, SumWithout
  <2>3. f[x] \in Nat /\ SumOver(f, T) \in Nat
      BY <1>3
  <2> QED
      BY <2>1, <2>2, <2>3
<1> HIDE DEF P
<1>4. SUBSET U \subseteq P
    BY <1>2, <1>3, InductionOnSets
<1> QED
    BY <1>4 DEF P

\* Two sets that have nothing in common.
LEMMA SumOfUnion ==
    ASSUME NEW U, IsFiniteSet(U), NEW f \in [U -> Int],
           NEW S \in SUBSET U, NEW T \in SUBSET U, S \cap T = {}
    PROVE  SumOver(f, S \cup T) = SumOver(f, S) + SumOver(f, T)
<1> DEFINE P == {R \in SUBSET U : S \cap R = {} => SumOver(f, S \cup R) = SumOver(f, S) + SumOver(f, R)}
<1>1. SumOver(f, S) \in Int /\ SumOver(f, {}) = 0
    BY SumUnfolds
<1>2. {} \in P
  <2>1. S \cup {} = S
      OBVIOUS
  <2> QED
      BY <1>1, <2>1
<1>3. ASSUME NEW R \in SUBSET U, NEW x \in U \ R, R \in P PROVE R \cup {x} \in P
  <2> SUFFICES ASSUME S \cap (R \cup {x}) = {}
               PROVE  SumOver(f, S \cup (R \cup {x})) = SumOver(f, S) + SumOver(f, R \cup {x})
      OBVIOUS
  <2>1. /\ S \cup (R \cup {x}) \in SUBSET U /\ x \in S \cup (R \cup {x})
        /\ (S \cup (R \cup {x})) \ {x} = S \cup R
        /\ R \cup {x} \in SUBSET U /\ x \in R \cup {x} /\ (R \cup {x}) \ {x} = R
      OBVIOUS
  <2>2. SumOver(f, S \cup (R \cup {x})) = f[x] + SumOver(f, S \cup R)
      BY <2>1, SumWithout
  <2>3. SumOver(f, R \cup {x}) = f[x] + SumOver(f, R)
      BY <2>1, SumWithout
  <2>4. SumOver(f, S \cup R) = SumOver(f, S) + SumOver(f, R)
      BY <1>3
  <2>5. f[x] \in Int /\ SumOver(f, R) \in Int
      BY SumUnfolds
  <2> QED
      BY <1>1, <2>2, <2>3, <2>4, <2>5
<1> HIDE DEF P
<1>4. SUBSET U \subseteq P
    BY <1>2, <1>3, InductionOnSets
<1> QED
    BY <1>4 DEF P

\* What is added to a set and what is taken from it.
LEMMA SumOfChange ==
    ASSUME NEW U, IsFiniteSet(U), NEW f \in [U -> Int],
           NEW S \in SUBSET U, NEW X \in SUBSET U, NEW I \in SUBSET S, X \cap S = {}
    PROVE  SumOver(f, (S \cup X) \ I) = SumOver(f, S) + SumOver(f, X) - SumOver(f, I)
<1> DEFINE R == (S \cup X) \ I
<1>1. R \in SUBSET U /\ I \in SUBSET U /\ R \cap I = {} /\ R \cup I = S \cup X
    OBVIOUS
<1> HIDE DEF R
<1>2. SumOver(f, S \cup X) = SumOver(f, R) + SumOver(f, I)
    BY <1>1, SumOfUnion
<1>3. SumOver(f, S \cup X) = SumOver(f, S) + SumOver(f, X)
    BY SumOfUnion
<1>4. SumOver(f, R) \in Int /\ SumOver(f, I) \in Int /\ SumOver(f, S) \in Int /\ SumOver(f, X) \in Int
    BY <1>1, SumUnfolds
<1> QED
    BY <1>2, <1>3, <1>4 DEF R

\* A sum looks at nothing outside its set.
LEMMA SumOfAlike ==
    ASSUME NEW U, IsFiniteSet(U), NEW f \in [U -> Int],
           NEW V, IsFiniteSet(V), NEW g \in [V -> Int],
           NEW S \in SUBSET U, S \in SUBSET V, \A x \in S : f[x] = g[x]
    PROVE  SumOver(f, S) = SumOver(g, S)
<1> DEFINE P == {T \in SUBSET S : SumOver(f, T) = SumOver(g, T)}
<1>1. {} \in P
  <2>1. SumOver(f, {}) = 0 /\ SumOver(g, {}) = 0
      BY SumUnfolds
  <2> QED
      BY <2>1
<1>2. ASSUME NEW T \in SUBSET S, NEW x \in S \ T, T \in P PROVE T \cup {x} \in P
  <2>1. /\ T \cup {x} \in SUBSET S /\ T \cup {x} \in SUBSET U /\ T \cup {x} \in SUBSET V
        /\ (T \cup {x}) \ {x} = T /\ x \in T \cup {x}
      OBVIOUS
  <2>2. SumOver(f, T \cup {x}) = f[x] + SumOver(f, T)
      BY <2>1, SumWithout
  <2>3. SumOver(g, T \cup {x}) = g[x] + SumOver(g, T)
      BY <2>1, SumWithout
  <2> QED
      BY <1>2, <2>1, <2>2, <2>3
<1> HIDE DEF P
<1>3. SUBSET S \subseteq P
  <2>1. IsFiniteSet(S)
      BY FS_Subset
  <2> QED
      BY <1>1, <1>2, <2>1, InductionOnSets
<1> QED
    BY <1>3 DEF P

LEMMA SumOfSame ==
    ASSUME NEW U, IsFiniteSet(U), NEW f \in [U -> Int], NEW g \in [U -> Int],
           NEW S \in SUBSET U, \A x \in S : f[x] = g[x]
    PROVE  SumOver(f, S) = SumOver(g, S)
BY SumOfAlike

\* The sum of sums.
LEMMA SumOfPlus ==
    ASSUME NEW U, IsFiniteSet(U), NEW f \in [U -> Int], NEW g \in [U -> Int],
           NEW h \in [U -> Int], NEW S \in SUBSET U, \A x \in S : h[x] = f[x] + g[x]
    PROVE  SumOver(h, S) = SumOver(f, S) + SumOver(g, S)
<1> DEFINE P == {T \in SUBSET U : T \subseteq S => SumOver(h, T) = SumOver(f, T) + SumOver(g, T)}
<1>1. {} \in P
  <2>1. SumOver(f, {}) = 0 /\ SumOver(g, {}) = 0 /\ SumOver(h, {}) = 0
      BY SumUnfolds
  <2> QED
      BY <2>1
<1>2. ASSUME NEW T \in SUBSET U, NEW x \in U \ T, T \in P PROVE T \cup {x} \in P
  <2> SUFFICES ASSUME T \cup {x} \subseteq S
               PROVE  SumOver(h, T \cup {x}) = SumOver(f, T \cup {x}) + SumOver(g, T \cup {x})
      OBVIOUS
  <2>1. T \cup {x} \in SUBSET U /\ (T \cup {x}) \ {x} = T /\ x \in T \cup {x}
      OBVIOUS
  <2>2. /\ SumOver(f, T \cup {x}) = f[x] + SumOver(f, T)
        /\ SumOver(g, T \cup {x}) = g[x] + SumOver(g, T)
        /\ SumOver(h, T \cup {x}) = h[x] + SumOver(h, T)
      BY <2>1, SumWithout
  <2>3. SumOver(f, T) \in Int /\ SumOver(g, T) \in Int /\ f[x] \in Int /\ g[x] \in Int
      BY SumUnfolds
  <2>4. SumOver(h, T) = SumOver(f, T) + SumOver(g, T) /\ h[x] = f[x] + g[x]
      BY <1>2
  <2> QED
      BY <2>2, <2>3, <2>4
<1> HIDE DEF P
<1>3. SUBSET U \subseteq P
    BY <1>1, <1>2, InductionOnSets
<1> QED
    BY <1>3 DEF P

LEMMA SumOfZeros ==
    ASSUME NEW U, IsFiniteSet(U), NEW f \in [U -> Int], NEW S \in SUBSET U, \A x \in S : f[x] = 0
    PROVE  SumOver(f, S) = 0
<1>1. \A x \in S : f[x] = f[x] + f[x]
    OBVIOUS
<1>2. SumOver(f, S) = SumOver(f, S) + SumOver(f, S)
    BY <1>1, SumOfPlus
<1>3. SumOver(f, S) \in Int
    BY SumUnfolds
<1>4. \A i \in Int : i = i + i => i = 0
    OBVIOUS
<1> QED
    BY <1>2, <1>3, <1>4
=============================================================================
