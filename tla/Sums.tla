-------------------------------- MODULE Sums --------------------------------
(***************************************************************************)
(* Facts about sums over finite sets, as FoldFunction of the community       *)
(* modules computes them: by taking one element after the other, in an     *)
(* order that CHOOSE settles.                                              *)
(***************************************************************************)
EXTENDS Integers, Functions, FiniteSets, FiniteSetTheorems, TLAPS

Pick(T) == CHOOSE x \in T : TRUE

(* The function from subsets to sums that the fold defines recursively.    *)
Folds(it, f, S) ==
  it = [T \in SUBSET S |-> IF T = {} THEN 0 ELSE f[Pick(T)] + it[T \ {Pick(T)}]]

Sum(f, S) == (CHOOSE it : Folds(it, f, S))[S]

-----------------------------------------------------------------------------
(* Induction over a finite set and over the naturals: Good is the set of   *)
(* the subsets, or numbers, for which something holds.                     *)

LEMMA SubsetInduction ==
  ASSUME NEW S, IsFiniteSet(S), NEW Good,
         \A T \in SUBSET S : (\A x \in T : T \ {x} \in Good) => T \in Good
  PROVE  SUBSET S \subseteq Good
<1>. DEFINE Bad == {T \in SUBSET S : T \notin Good}
<1>. SUFFICES ASSUME Bad # {} PROVE FALSE
  OBVIOUS
<1>1. IsWellFoundedOn(StrictSubsetOrdering(S), FiniteSubsetsOf(S))
  BY FS_StrictSubsetOrderingWellFounded
<1>2. Bad \subseteq FiniteSubsetsOf(S)
  BY FS_FiniteSubsetsOfFinite
<1>. HIDE DEF Bad
<1>3. PICK T \in Bad : \A U \in Bad : <<U, T>> \notin StrictSubsetOrdering(S)
  BY <1>1, <1>2, WFMin
<1>. USE DEF Bad
<1>4. ASSUME NEW x \in T
      PROVE  T \ {x} \notin Bad
  <2>1. /\ <<T \ {x}, T>> \in (SUBSET S) \X (SUBSET S)
        /\ T \ {x} \subseteq T /\ T \ {x} # T
    BY <1>3
  <2>2. <<T \ {x}, T>> \in StrictSubsetOrdering(S)
    BY <2>1 DEF StrictSubsetOrdering
  <2>. QED
    BY <1>3, <2>2
<1>. QED
  BY <1>3, <1>4

LEMMA NaturalInduction ==
  ASSUME NEW Good, 0 \in Good, \A n \in Nat : n \in Good => n + 1 \in Good
  PROVE  Nat \subseteq Good
<1>. DEFINE Bad == {n \in Nat : n \notin Good}
            R == {ss \in Nat \X Nat : ss[1] < ss[2]}
<1>. SUFFICES ASSUME Bad # {} PROVE FALSE
  OBVIOUS
<1>1. IsWellFoundedOn(R, Nat)
  BY NatLessThanWellFounded DEF OpToRel
<1>2. \A m, n \in Nat : m < n => <<m, n>> \in R
  OBVIOUS
<1>. HIDE DEF Bad, R
<1>3. PICK n \in Bad : \A m \in Bad : <<m, n>> \notin R
  BY <1>1, WFMin DEF Bad
<1>. USE DEF Bad
<1>4. n \in Nat \ {0} /\ n - 1 \in Nat /\ (n - 1) + 1 = n
  BY <1>3
<1>5. n - 1 \notin Good
  BY <1>4
<1>6. <<n - 1, n>> \in R
  BY <1>2, <1>4
<1>. QED
  BY <1>3, <1>4, <1>5, <1>6

-----------------------------------------------------------------------------
(* The recursive definition has a solution                                 *)

LEMMA PickIn == \A T : T # {} => Pick(T) \in T
BY DEF Pick

(* The subsets of S that have at most n elements.                          *)
Small(S, n) == {T \in SUBSET S : Cardinality(T) <= n}

PartFolds(it, f, S, n) ==
  \A T \in Small(S, n) : it[T] = IF T = {} THEN 0 ELSE f[Pick(T)] + it[T \ {Pick(T)}]

LEMMA SmallFacts ==
  ASSUME NEW S, IsFiniteSet(S), NEW n \in Nat
  PROVE  /\ \A T \in SUBSET S : Cardinality(T) \in Nat
         /\ \A T \in Small(S, 0) : T = {}
         /\ \A T \in Small(S, n) : T # {} => T \ {Pick(T)} \in Small(S, n)
         /\ \A T \in Small(S, n + 1) : T # {} => T \ {Pick(T)} \in Small(S, n)
         /\ Small(S, Cardinality(S)) = SUBSET S
<1>1. \A T \in SUBSET S : /\ IsFiniteSet(T) /\ Cardinality(T) \in Nat
                          /\ Cardinality(T) <= Cardinality(S)
                          /\ Cardinality(T) = 0 <=> T = {}
  BY FS_Subset, FS_CardinalityType, FS_EmptySet
<1>2. \A T \in SUBSET S : T # {} => Cardinality(T \ {Pick(T)}) = Cardinality(T) - 1
  BY <1>1, FS_RemoveElement, PickIn
<1>. QED
  BY <1>1, <1>2 DEF Small

LEMMA FoldExists ==
  ASSUME NEW S, IsFiniteSet(S), NEW f \in [S -> Int]
  PROVE  \E it \in [SUBSET S -> Int] : Folds(it, f, S)
<1>. DEFINE Good == {n \in Nat : \E it \in [Small(S, n) -> Int] : PartFolds(it, f, S, n)}
<1>1. 0 \in Good
  <2>1. PartFolds([T \in Small(S, 0) |-> 0], f, S, 0)
    BY SmallFacts DEF PartFolds
  <2>. QED
    BY <2>1
<1>2. ASSUME NEW n \in Nat, n \in Good
      PROVE  n + 1 \in Good
  <2>1. PICK it \in [Small(S, n) -> Int] : PartFolds(it, f, S, n)
    BY <1>2
  <2>. DEFINE next == [T \in Small(S, n + 1) |-> IF T = {} THEN 0 ELSE f[Pick(T)] + it[T \ {Pick(T)}]]
  <2>2. \A T \in Small(S, n + 1) : T # {} => T \ {Pick(T)} \in Small(S, n) /\ Pick(T) \in S
    BY SmallFacts, PickIn DEF Small
  <2>3. next \in [Small(S, n + 1) -> Int]
    BY <2>2
  <2>4. Small(S, n) \subseteq Small(S, n + 1)
    BY SmallFacts DEF Small
  <2>5. \A T \in Small(S, n) : next[T] = it[T]
    BY <2>1, <2>4 DEF PartFolds
  <2>6. PartFolds(next, f, S, n + 1)
    BY <2>2, <2>4, <2>5 DEF PartFolds
  <2>. HIDE DEF next
  <2>. QED
    BY <2>3, <2>6
<1>. HIDE DEF Good
<1>3. Nat \subseteq Good
  BY <1>1, <1>2, NaturalInduction
<1>. USE DEF Good
<1>4. Cardinality(S) \in Nat /\ Small(S, Cardinality(S)) = SUBSET S
  BY FS_CardinalityType, SmallFacts
<1>5. PICK it \in [Small(S, Cardinality(S)) -> Int] : PartFolds(it, f, S, Cardinality(S))
  BY <1>3, <1>4
<1>. QED
  BY <1>4, <1>5 DEF PartFolds, Folds

-----------------------------------------------------------------------------
(* Sums do not depend on the order                                         *)

LEMMA FoldsStep ==
  ASSUME NEW S, NEW f, NEW it, Folds(it, f, S), NEW T \in SUBSET S
  PROVE  /\ T = {} => it[T] = 0
         /\ T # {} => /\ Pick(T) \in T /\ T \ {Pick(T)} \in SUBSET S
                      /\ it[T] = f[Pick(T)] + it[T \ {Pick(T)}]
<1>1. T # {} => Pick(T) \in T
  BY PickIn
<1>2. it[T] = IF T = {} THEN 0 ELSE f[Pick(T)] + it[T \ {Pick(T)}]
  BY DEF Folds
<1>. QED
  BY <1>1, <1>2

LEMMA FoldsType ==
  ASSUME NEW S, IsFiniteSet(S), NEW f \in [S -> Int], NEW it, Folds(it, f, S)
  PROVE  \A T \in SUBSET S : it[T] \in Int
<1>. DEFINE Good == {T \in SUBSET S : it[T] \in Int}
<1>1. ASSUME NEW T \in SUBSET S, \A x \in T : T \ {x} \in Good
      PROVE  T \in Good
  <2>1. CASE T = {}
    <3>1. it[T] = 0
      BY <2>1, FoldsStep
    <3>. QED
      BY <3>1
  <2>2. CASE T # {}
    <3>1. /\ Pick(T) \in T /\ T \ {Pick(T)} \in SUBSET S
          /\ it[T] = f[Pick(T)] + it[T \ {Pick(T)}]
      BY <2>2, FoldsStep
    <3>2. it[T \ {Pick(T)}] \in Int /\ f[Pick(T)] \in Int
      BY <1>1, <3>1
    <3>. HIDE DEF Good
    <3>3. it[T] \in Int
      BY <3>1, <3>2
    <3>. QED
      BY <3>3 DEF Good
  <2>. QED
    BY <2>1, <2>2
<1>. HIDE DEF Good
<1>2. SUBSET S \subseteq Good
  BY <1>1, SubsetInduction
<1>. QED
  BY <1>2 DEF Good

(* Any element may be the first to be taken.                               *)
LEMMA FoldsSplit ==
  ASSUME NEW S, IsFiniteSet(S), NEW f \in [S -> Int], NEW it, Folds(it, f, S)
  PROVE  \A T \in SUBSET S : \A x \in T : it[T] = f[x] + it[T \ {x}]
<1>. DEFINE Good == {T \in SUBSET S : \A x \in T : it[T] = f[x] + it[T \ {x}]}
<1>0. \A T \in SUBSET S : it[T] \in Int
  BY FoldsType
<1>1. ASSUME NEW T \in SUBSET S, \A x \in T : T \ {x} \in Good
      PROVE  T \in Good
  <2>. SUFFICES ASSUME NEW x \in T PROVE it[T] = f[x] + it[T \ {x}]
    OBVIOUS
  <2>. DEFINE c == Pick(T)
  <2>1. c \in T /\ it[T] = f[c] + it[T \ {c}]
    BY FoldsStep
  <2>. HIDE DEF c
  <2>2. CASE x # c
    <3>1. it[T \ {c}] = f[x] + it[(T \ {c}) \ {x}]
      BY <1>1, <2>1, <2>2
    <3>2. it[T \ {x}] = f[c] + it[(T \ {x}) \ {c}]
      BY <1>1, <2>1, <2>2
    <3>3. (T \ {c}) \ {x} = (T \ {x}) \ {c}
      OBVIOUS
    <3>4. f[x] \in Int /\ f[c] \in Int /\ it[(T \ {c}) \ {x}] \in Int
      BY <1>0, <2>1
    <3>. DEFINE rest == it[(T \ {c}) \ {x}]
    <3>5. it[T] = f[c] + (f[x] + rest)
      BY <2>1, <3>1
    <3>6. it[T \ {x}] = f[c] + rest
      BY <3>2, <3>3
    <3>7. rest \in Int
      BY <3>4
    <3>. HIDE DEF rest, Good
    <3>. QED
      BY <3>4, <3>5, <3>6, <3>7
  <2>. QED
    BY <2>1, <2>2
<1>. HIDE DEF Good
<1>2. SUBSET S \subseteq Good
  BY <1>1, SubsetInduction
<1>. QED
  BY <1>2 DEF Good

(* What the values are outside of T makes no difference to its sum.        *)
LEMMA FoldsAgree ==
  ASSUME NEW S, IsFiniteSet(S), NEW f \in [S -> Int], NEW g \in [S -> Int],
         NEW it, Folds(it, f, S), NEW iu, Folds(iu, g, S)
  PROVE  \A T \in SUBSET S : (\A x \in T : f[x] = g[x]) => it[T] = iu[T]
<1>. DEFINE Good == {T \in SUBSET S : (\A x \in T : f[x] = g[x]) => it[T] = iu[T]}
<1>1. ASSUME NEW T \in SUBSET S, \A x \in T : T \ {x} \in Good
      PROVE  T \in Good
  <2>1. CASE T = {}
    BY <2>1, FoldsStep
  <2>2. CASE T # {}
    <3>1. /\ Pick(T) \in T
          /\ it[T] = f[Pick(T)] + it[T \ {Pick(T)}]
          /\ iu[T] = g[Pick(T)] + iu[T \ {Pick(T)}]
      BY <2>2, FoldsStep
    <3>2. SUFFICES ASSUME \A x \in T : f[x] = g[x] PROVE it[T] = iu[T]
      OBVIOUS
    <3>3. it[T \ {Pick(T)}] = iu[T \ {Pick(T)}]
      BY <1>1, <3>1, <3>2
    <3>. QED
      BY <3>1, <3>2, <3>3
  <2>. QED
    BY <2>1, <2>2
<1>. HIDE DEF Good
<1>2. SUBSET S \subseteq Good
  BY <1>1, SubsetInduction
<1>. QED
  BY <1>2 DEF Good

-----------------------------------------------------------------------------
(* Sums                                                                    *)

LEMMA SumFolds ==
  ASSUME NEW S, IsFiniteSet(S), NEW f \in [S -> Int]
  PROVE  \E it : Folds(it, f, S) /\ Sum(f, S) = it[S]
<1>1. \E it : Folds(it, f, S)
  BY FoldExists
<1>. QED
  BY <1>1 DEF Sum

(* A sum of integers is one.                                               *)
LEMMA SumType ==
  ASSUME NEW S, IsFiniteSet(S), NEW f \in [S -> Int]
  PROVE  Sum(f, S) \in Int
BY SumFolds, FoldsType

(* The sum changes with one of its terms by as much as the term does.      *)
LEMMA SumUpdate ==
  ASSUME NEW S, IsFiniteSet(S), NEW f \in [S -> Int], NEW g \in [S -> Int],
         NEW x \in S, \A y \in S \ {x} : g[y] = f[y]
  PROVE  Sum(g, S) = Sum(f, S) - f[x] + g[x]
<1>1. PICK it : Folds(it, f, S) /\ Sum(f, S) = it[S]
  BY SumFolds
<1>2. PICK iu : Folds(iu, g, S) /\ Sum(g, S) = iu[S]
  BY SumFolds
<1>. S \in SUBSET S
  OBVIOUS
<1>3a. it[S] = f[x] + it[S \ {x}]
  BY <1>1, FoldsSplit
<1>3b. iu[S] = g[x] + iu[S \ {x}]
  BY <1>2, FoldsSplit
<1>3. it[S] = f[x] + it[S \ {x}] /\ iu[S] = g[x] + iu[S \ {x}]
  BY <1>3a, <1>3b
<1>4. it[S \ {x}] = iu[S \ {x}]
  BY <1>1, <1>2, FoldsAgree
<1>5. it[S \ {x}] \in Int
  BY <1>1, FoldsType
<1>. QED
  BY <1>1, <1>2, <1>3, <1>4, <1>5

LEMMA SumZero ==
  ASSUME NEW S, IsFiniteSet(S), NEW f \in [S -> Int], \A y \in S : f[y] = 0
  PROVE  Sum(f, S) = 0
<1>1. PICK it : Folds(it, f, S) /\ Sum(f, S) = it[S]
  BY SumFolds
<1>. DEFINE zero == [T \in SUBSET S |-> 0]
<1>2. Folds(zero, [x \in S |-> 0], S)
  BY PickIn DEF Folds
<1>3. it[S] = zero[S]
  BY <1>1, <1>2, FoldsAgree
<1>. QED
  BY <1>1, <1>3

(* FoldFunction of a function of integers is its sum.                      *)
LEMMA FoldIsSum ==
  ASSUME NEW S, NEW f, DOMAIN f = S
  PROVE  FoldFunction(+, 0, f) = Sum(f, S)
BY DEF FoldFunction, FoldFunctionOnSet, MapThenFoldSet, Sum, Folds, Pick

-----------------------------------------------------------------------------
(* Sums over parts of a set                                                *)

SumIn(f, T) == Sum([x \in T |-> f[x]], T)

(* What is nothing for the empty set and grows by the value of every       *)
(* element that is added.                                                  *)
Adds(m, f, S) ==
  m[{}] = 0 /\ \A T \in SUBSET S : \A x \in T : m[T] = f[x] + m[T \ {x}]

LEMMA FoldsAdd ==
  ASSUME NEW S, IsFiniteSet(S), NEW f \in [S -> Int], NEW it, Folds(it, f, S)
  PROVE  Adds(it, f, S)
<1>1. it[{}] = 0
  BY FoldsStep
<1>2. ASSUME NEW T \in SUBSET S, NEW x \in T
      PROVE  it[T] = f[x] + it[T \ {x}]
  BY FoldsSplit
<1>. QED
  BY <1>1, <1>2 DEF Adds

(* It is the sum.                                                          *)
LEMMA SumUnique ==
  ASSUME NEW S, IsFiniteSet(S), NEW f \in [S -> Int], NEW m, Adds(m, f, S)
  PROVE  Sum(f, S) = m[S]
<1>1. PICK it : Folds(it, f, S) /\ Sum(f, S) = it[S]
  BY SumFolds
<1>2. Adds(it, f, S)
  BY <1>1, FoldsAdd
<1>. DEFINE Good == {T \in SUBSET S : it[T] = m[T]}
<1>3. ASSUME NEW T \in SUBSET S, \A x \in T : T \ {x} \in Good
      PROVE  T \in Good
  <2>1. CASE T = {}
    BY <1>2, <2>1 DEF Adds
  <2>2. CASE T # {}
    <3>1. PICK x \in T : TRUE
      BY <2>2
    <3>2. it[T] = f[x] + it[T \ {x}] /\ m[T] = f[x] + m[T \ {x}]
      BY <1>2 DEF Adds
    <3>3. it[T \ {x}] = m[T \ {x}]
      BY <1>3
    <3>. QED
      BY <3>2, <3>3
  <2>. QED
    BY <2>1, <2>2
<1>. HIDE DEF Good
<1>4. SUBSET S \subseteq Good
  BY <1>3, SubsetInduction
<1>5. S \in Good
  BY <1>4
<1>. QED
  BY <1>1, <1>5 DEF Good

LEMMA SumInAll ==
  ASSUME NEW S, NEW f, f = [x \in S |-> f[x]]
  PROVE  SumIn(f, S) = Sum(f, S)
BY DEF SumIn

LEMMA SumInSplit ==
  ASSUME NEW S, IsFiniteSet(S), NEW f, \A y \in S : f[y] \in Int, NEW x \in S
  PROVE  /\ SumIn(f, S) = f[x] + SumIn(f, S \ {x})
         /\ SumIn(f, S) \in Int /\ SumIn(f, S \ {x}) \in Int
<1>. PICK g, h, R : g = [y \in S |-> f[y]] /\ R = S \ {x} /\ h = [y \in R |-> f[y]]
  OBVIOUS
<1>1. h \in [R -> Int] /\ R \in SUBSET S
  OBVIOUS
<1>1a. g \in [S -> Int]
  OBVIOUS
<1>2. IsFiniteSet(R)
  BY <1>1, FS_Subset
<1>3. PICK it : Folds(it, g, S) /\ Sum(g, S) = it[S]
  BY <1>1a, SumFolds
<1>3a. Folds(it, g, S)
  BY <1>3
<1>4. Adds(it, g, S)
  BY <1>1a, <1>3a, FoldsAdd
<1>5. Adds(it, h, R)
  BY <1>1, <1>4 DEF Adds
<1>6. it[S] = g[x] + it[R]
  BY <1>4 DEF Adds
<1>7. Sum(h, R) = it[R]
  BY <1>1, <1>2, <1>5, SumUnique
<1>8. Sum(g, S) = g[x] + Sum(h, R)
  BY <1>3, <1>6, <1>7
<1>9. Sum(g, S) \in Int /\ Sum(h, R) \in Int
  BY <1>1, <1>1a, <1>2, SumType
<1>. QED
  BY <1>8, <1>9 DEF SumIn

LEMMA SumInEmpty == \A f : SumIn(f, {}) = 0
<1>. SUFFICES ASSUME NEW f PROVE SumIn(f, {}) = 0
  OBVIOUS
<1>. PICK g : g = [x \in {} |-> f[x]]
  OBVIOUS
<1>1. IsFiniteSet({}) /\ g \in [{} -> Int] /\ \A y \in {} : g[y] = 0
  BY FS_EmptySet
<1>2. Sum(g, {}) = 0
  BY <1>1, SumZero
<1>. QED
  BY <1>2 DEF SumIn

(* A sum over two sets that have nothing in common.                        *)
LEMMA SumInUnion ==
  ASSUME NEW S, NEW T, IsFiniteSet(S), IsFiniteSet(T), S \cap T = {},
         NEW f, \A x \in S \cup T : f[x] \in Int
  PROVE  SumIn(f, S \cup T) = SumIn(f, S) + SumIn(f, T)
<1>. PICK s : s = SumIn(f, S)
  OBVIOUS
<1>. DEFINE m == [U \in SUBSET T |-> SumIn(f, S \cup U) - s]
<1>. PICK g : g = [x \in T |-> f[x]]
  OBVIOUS
<1>1. \A U \in SUBSET T : IsFiniteSet(S \cup U)
  BY FS_Subset, FS_Union
<1>2. s \in Int
  <2>1. CASE S = {}
    BY <2>1, SumInEmpty
  <2>2. CASE S # {}
    BY <2>2, SumInSplit
  <2>. QED
    BY <2>1, <2>2
<1>3. m[{}] = 0
  <2>1. S \cup {} = S
    OBVIOUS
  <2>. QED
    BY <1>2, <2>1
<1>4. ASSUME NEW U \in SUBSET T, NEW x \in U
      PROVE  m[U] = g[x] + m[U \ {x}]
  <2>1. (S \cup U) \ {x} = S \cup (U \ {x})
    OBVIOUS
  <2>2. /\ SumIn(f, S \cup U) = f[x] + SumIn(f, S \cup (U \ {x}))
        /\ SumIn(f, S \cup U) \in Int /\ SumIn(f, S \cup (U \ {x})) \in Int
    <3>. PICK V : V = S \cup U
      OBVIOUS
    <3>1. IsFiniteSet(V) /\ (\A y \in V : f[y] \in Int) /\ x \in V
      BY <1>1
    <3>2. /\ SumIn(f, V) = f[x] + SumIn(f, V \ {x})
          /\ SumIn(f, V) \in Int /\ SumIn(f, V \ {x}) \in Int
      BY <3>1, SumInSplit, SMTT(30)
    <3>. QED
      BY <2>1, <3>2
  <2>3. f[x] \in Int /\ g[x] = f[x]
    OBVIOUS
  <2>4. m[U] = SumIn(f, S \cup U) - s /\ m[U \ {x}] = SumIn(f, S \cup (U \ {x})) - s
    OBVIOUS
  <2>. HIDE DEF m
  <2>. QED
    BY <1>2, <2>2, <2>3, <2>4
<1>5. g \in [T -> Int]
  OBVIOUS
<1>. HIDE DEF m
<1>5a. Adds(m, g, T)
  BY <1>3, <1>4 DEF Adds
<1>6. Sum(g, T) = m[T]
  BY <1>5, <1>5a, SumUnique
<1>7. Sum(g, T) = SumIn(f, T)
  BY DEF SumIn
<1>8. SumIn(f, S \cup T) \in Int
  <2>1. CASE S \cup T = {}
    BY <2>1, SumInEmpty
  <2>2. CASE S \cup T # {}
    BY <1>1, <2>2, SumInSplit
  <2>. QED
    BY <2>1, <2>2
<1>9. m[T] = SumIn(f, S \cup T) - s
  BY DEF m
<1>10. SumIn(f, T) = SumIn(f, S \cup T) - s
  BY <1>6, <1>7, <1>9
<1>. QED
  BY <1>2, <1>8, <1>10

(* A set that is sorted into groups: the sums of the groups make the sum   *)
(* of the whole.                                                           *)
LEMMA SumOfGroups ==
  ASSUME NEW S, NEW B, IsFiniteSet(S), IsFiniteSet(B), NEW f, \A x \in S : f[x] \in Int,
         NEW g, \A x \in S : g[x] \in B
  PROVE  Sum([b \in B |-> SumIn(f, {x \in S : g[x] = b})], B) = SumIn(f, S)
<1>. DEFINE m == [U \in SUBSET B |-> SumIn(f, {x \in S : g[x] \in U})]
            h == [b \in B |-> SumIn(f, {x \in S : g[x] = b})]
<1>1. \A T \in SUBSET S : IsFiniteSet(T) /\ SumIn(f, T) \in Int
  <2>1. ASSUME NEW T \in SUBSET S
        PROVE  IsFiniteSet(T) /\ SumIn(f, T) \in Int
    <3>1. IsFiniteSet(T)
      BY FS_Subset
    <3>2. CASE T = {}
      BY <3>1, <3>2, SumInEmpty
    <3>3. CASE T # {}
      BY <3>1, <3>3, SumInSplit
    <3>. QED
      BY <3>2, <3>3
  <2>. QED
    BY <2>1
<1>2. h \in [B -> Int]
  <2>1. \A b \in B : SumIn(f, {x \in S : g[x] = b}) \in Int
    BY <1>1
  <2>. QED
    BY <2>1
<1>3. m[{}] = 0
  <2>1. {x \in S : g[x] \in {}} = {}
    OBVIOUS
  <2>. QED
    BY <2>1, SumInEmpty
<1>4. ASSUME NEW U \in SUBSET B, NEW b \in U
      PROVE  m[U] = h[b] + m[U \ {b}]
  <2>. PICK V, W : V = {x \in S : g[x] = b} /\ W = {x \in S : g[x] \in U \ {b}}
    OBVIOUS
  <2>1. {x \in S : g[x] \in U} = V \cup W /\ V \cap W = {}
    OBVIOUS
  <2>2. V \in SUBSET S /\ W \in SUBSET S
    OBVIOUS
  <2>3. SumIn(f, V \cup W) = SumIn(f, V) + SumIn(f, W)
    BY <1>1, <2>1, <2>2, SumInUnion
  <2>. QED
    BY <2>1, <2>3
<1>. HIDE DEF h, m
<1>4a. Adds(m, h, B)
  BY <1>3, <1>4 DEF Adds
<1>5. Sum(h, B) = m[B]
  BY <1>2, <1>4a, SumUnique
<1>6. m[B] = SumIn(f, S)
  <2>1. {x \in S : g[x] \in B} = S
    OBVIOUS
  <2>. QED
    BY <2>1 DEF m
<1>. QED
  BY <1>5, <1>6 DEF h

(* Counting is summing ones.                                               *)
LEMMA CardinalityIsSum ==
  ASSUME NEW S, IsFiniteSet(S), NEW f, \A x \in S : f[x] = 1
  PROVE  Cardinality(S) = SumIn(f, S)
<1>. DEFINE m == [T \in SUBSET S |-> Cardinality(T)]
            g == [x \in S |-> f[x]]
<1>1. g \in [S -> Int]
  OBVIOUS
<1>2. m[{}] = 0
  BY FS_EmptySet
<1>3. ASSUME NEW T \in SUBSET S, NEW x \in T
      PROVE  m[T] = g[x] + m[T \ {x}]
  <2>1. IsFiniteSet(T)
    BY FS_Subset
  <2>2. Cardinality(T \ {x}) = Cardinality(T) - 1 /\ Cardinality(T) \in Nat
    BY <2>1, FS_RemoveElement, FS_CardinalityType
  <2>. QED
    BY <2>2
<1>4. m[S] = Cardinality(S)
  OBVIOUS
<1>. HIDE DEF m, g
<1>4a. Adds(m, g, S)
  BY <1>2, <1>3 DEF Adds
<1>5. Sum(g, S) = m[S]
  BY <1>1, <1>4a, SumUnique
<1>. QED
  BY <1>4, <1>5 DEF SumIn, g

(* The groups of a set have as many elements as the set.                   *)
LEMMA CountOfGroups ==
  ASSUME NEW S, NEW B, IsFiniteSet(S), IsFiniteSet(B), NEW g, \A x \in S : g[x] \in B
  PROVE  Sum([b \in B |-> Cardinality({x \in S : g[x] = b})], B) = Cardinality(S)
<1>. PICK f : f = [x \in S |-> 1]
  OBVIOUS
<1>1. ASSUME NEW T \in SUBSET S
      PROVE  Cardinality(T) = SumIn(f, T)
  <2>1. IsFiniteSet(T) /\ \A x \in T : f[x] = 1
    BY FS_Subset
  <2>. QED
    BY <2>1, CardinalityIsSum
<1>2. \A x \in S : f[x] \in Int
  OBVIOUS
<1>3. [b \in B |-> Cardinality({x \in S : g[x] = b})] = [b \in B |-> SumIn(f, {x \in S : g[x] = b})]
  <2>1. ASSUME NEW b \in B
        PROVE  Cardinality({x \in S : g[x] = b}) = SumIn(f, {x \in S : g[x] = b})
    <3>1. {x \in S : g[x] = b} \in SUBSET S
      OBVIOUS
    <3>. QED
      BY <1>1, <3>1
  <2>. QED
    BY <2>1
<1>4. Cardinality(S) = SumIn(f, S)
  BY <1>1
<1>. QED
  BY <1>2, <1>3, <1>4, SumOfGroups

(* A sum of naturals is one.                                               *)
LEMMA SumNat ==
  ASSUME NEW S, IsFiniteSet(S), NEW f \in [S -> Nat]
  PROVE  Sum(f, S) \in Nat
<1>1. f \in [S -> Int]
  OBVIOUS
<1>2. PICK it : Folds(it, f, S) /\ Sum(f, S) = it[S]
  BY <1>1, SumFolds
<1>2a. Folds(it, f, S)
  BY <1>2
<1>. DEFINE Good == {T \in SUBSET S : it[T] \in Nat}
<1>3. ASSUME NEW T \in SUBSET S, \A x \in T : T \ {x} \in Good
      PROVE  T \in Good
  <2>1. CASE T = {}
    <3>1. it[T] = 0
      BY <1>2a, <2>1, FoldsStep
    <3>. QED
      BY <3>1
  <2>2. CASE T # {}
    <3>1. /\ Pick(T) \in T /\ it[T] = f[Pick(T)] + it[T \ {Pick(T)}]
      BY <1>2a, <2>2, FoldsStep
    <3>2. it[T \ {Pick(T)}] \in Nat /\ f[Pick(T)] \in Nat
      BY <1>3, <3>1
    <3>. HIDE DEF Good
    <3>3. it[T] \in Nat
      BY <3>1, <3>2
    <3>. QED
      BY <3>3 DEF Good
  <2>. QED
    BY <2>1, <2>2
<1>. HIDE DEF Good
<1>4. SUBSET S \subseteq Good
  BY <1>3, SubsetInduction
<1>5. S \in Good
  BY <1>4
<1>. QED
  BY <1>2, <1>5 DEF Good

(* The sum over a set that a function is defined on, and beyond.           *)
LEMMA SumOnSet ==
  ASSUME NEW S, IsFiniteSet(S), NEW f, \A x \in S : f[x] \in Nat
  PROVE  SumFunctionOnSet(f, S) \in Nat
<1>. DEFINE g == [x \in S |-> f[x]]
<1>1. g \in [S -> Nat] /\ g \in [S -> Int]
  OBVIOUS
<1>2. ASSUME NEW it
      PROVE  Folds(it, f, S) <=> Folds(it, g, S)
  <2>1. \A T \in SUBSET S : T # {} => g[Pick(T)] = f[Pick(T)]
    BY PickIn
  <2>2. [T \in SUBSET S |-> IF T = {} THEN 0 ELSE f[Pick(T)] + it[T \ {Pick(T)}]]
          = [T \in SUBSET S |-> IF T = {} THEN 0 ELSE g[Pick(T)] + it[T \ {Pick(T)}]]
    BY <2>1
  <2>. QED
    BY <2>2 DEF Folds
<1>. HIDE DEF g
<1>3. \E it : Folds(it, f, S)
  BY <1>1, <1>2, FoldExists
<1>4. PICK it : Folds(it, f, S) /\ Sum(f, S) = it[S]
  BY <1>3 DEF Sum
<1>5. Folds(it, g, S)
  BY <1>2, <1>4
<1>6. Adds(it, g, S)
  BY <1>1, <1>5, FoldsAdd
<1>7. Sum(g, S) = it[S]
  BY <1>1, <1>6, SumUnique
<1>8. Sum(g, S) \in Nat
  BY <1>1, SumNat
<1>9. SumFunctionOnSet(f, S) = Sum(f, S)
  BY DEF SumFunctionOnSet, FoldFunctionOnSet, MapThenFoldSet, Sum, Folds, Pick
<1>. QED
  BY <1>4, <1>7, <1>8, <1>9

=============================================================================
