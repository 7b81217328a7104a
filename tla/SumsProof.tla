----------------------------- MODULE SumsProof -----------------------------
(***************************************************************************)
(* What SumOn returns for every finite set and every function to the       *)
(* integers, whatever the order it folds them in.  The fold unfolds one    *)
(* picked element at a time; what holds of all subsets of a finite set is  *)
(* shown by a least counterexample, since induction with an operator for   *)
(* the hypothesis is not available.                                        *)
(***************************************************************************)
EXTENDS Sums, FiniteSets, FiniteSetTheorems, WellFoundedInduction, TLAPS

\* A set of naturals has a least element.
LEMMA LeastNumber ==
    ASSUME NEW T \in SUBSET Nat, T # {}
    PROVE  \E n \in T : \A m \in T : n <= m
<1>1. IsWellFoundedOn(OpToRel(<, Nat), Nat)
  BY NatLessThanWellFounded
<1>2. PICK n \in T : \A m \in T : ~(<<m, n>> \in OpToRel(<, Nat))
  BY <1>1, WFMin, Zenon
<1>3. ASSUME NEW m \in T PROVE n <= m
  <2>1. <<m, n>> \in Nat \X Nat /\ <<m, n>>[1] = m /\ <<m, n>>[2] = n
    OBVIOUS
  <2>2. ~(m < n)
    BY <2>1, <1>2, SMT DEF OpToRel
  <2> QED BY <2>2
<1> QED BY <1>3

\* A set of numbers up to n has a greatest one.
LEMMA GreatestNumber ==
    ASSUME NEW n \in Nat, NEW A \in SUBSET (1..n), A # {}
    PROVE  \E x \in A : \A y \in A : x >= y
<1> DEFINE T == {n - x : x \in A}
<1>1. T \in SUBSET Nat /\ T # {}
  <2>1. \A x \in A : n - x \in Nat
    OBVIOUS
  <2>2. PICK x \in A : TRUE
    OBVIOUS
  <2> QED BY <2>1, <2>2
<1>2. PICK t \in T : \A m \in T : t <= m
  <2> HIDE DEF T
  <2> QED BY <1>1, LeastNumber
<1>3. PICK x \in A : t = n - x
  OBVIOUS
<1>4. ASSUME NEW y \in A PROVE x >= y
  <2>1. n - y \in T
    OBVIOUS
  <2>2. n - x <= n - y
    BY <1>2, <1>3, <2>1
  <2> QED BY <2>2
<1> QED BY <1>4

\* The element the fold takes first.
Pick(s) == CHOOSE x \in s : TRUE

\* The subsets of S with at most n elements.
Level(S, n) == {s \in SUBSET S : Cardinality(s) <= n}

\* g adds up f over every set of D, element by element.
Unfolds(g, f, D) ==
    g = [s \in D |-> IF s = {} THEN 0 ELSE f[Pick(s)] + g[s \ {Pick(s)}]]

\* Without its picked element a set has one element less.
LEMMA Smaller ==
    ASSUME NEW S, IsFiniteSet(S), NEW s \in SUBSET S, s # {}
    PROVE  /\ Pick(s) \in s
           /\ s \ {Pick(s)} \in SUBSET S
           /\ Cardinality(s) \in Nat
           /\ Cardinality(s \ {Pick(s)}) = Cardinality(s) - 1
<1>1. Pick(s) \in s
  BY DEF Pick
<1>2. IsFiniteSet(s)
  BY FS_Subset
<1>3. Cardinality(s) \in Nat
  BY <1>2, FS_CardinalityType
<1>4. Cardinality(s \ {Pick(s)}) = Cardinality(s) - 1
  BY <1>1, <1>2, FS_RemoveElement
<1> QED BY <1>1, <1>3, <1>4

\* A collection of subsets of S that has the empty one, and each set it has
\* without its picked element, has them all.
LEMMA SubsetInduction ==
    ASSUME NEW S, IsFiniteSet(S), NEW Good \in SUBSET (SUBSET S),
           {} \in Good,
           \A s \in SUBSET S : s # {} /\ s \ {Pick(s)} \in Good => s \in Good
    PROVE  Good = SUBSET S
<1> DEFINE T == {k \in Nat : \E s \in SUBSET S : s \notin Good /\ Cardinality(s) = k}
<1>1. SUFFICES ASSUME NEW s \in SUBSET S, s \notin Good PROVE FALSE
  OBVIOUS
<1>2. Cardinality(s) \in T
  BY <1>1, FS_Subset, FS_CardinalityType
<1>3. PICK k \in T : \A m \in T : k <= m
  BY <1>2, LeastNumber, Zenon
<1>4. PICK u \in SUBSET S : u \notin Good /\ Cardinality(u) = k
  OBVIOUS
<1>5. /\ u \ {Pick(u)} \in SUBSET S /\ Cardinality(u) \in Nat
      /\ Cardinality(u \ {Pick(u)}) = Cardinality(u) - 1
  BY <1>4, Smaller
<1>6. Cardinality(u \ {Pick(u)}) \in Nat
  BY <1>5, FS_Subset, FS_CardinalityType
<1>7. u \ {Pick(u)} \notin Good
  BY <1>4
<1>8. Cardinality(u \ {Pick(u)}) \in T
  BY <1>5, <1>6, <1>7
<1>9. k <= k - 1
  BY <1>3, <1>4, <1>5, <1>8
<1> HIDE DEF T
<1> QED BY <1>4, <1>5, <1>9

\* What adds up over the smaller sets extends to those with one element more.
LEMMA LevelStep ==
    ASSUME NEW S, IsFiniteSet(S), NEW f, \A x \in S : f[x] \in Int, NEW n \in Nat,
           n = 0 \/ \E g \in [Level(S, n - 1) -> Int] : Unfolds(g, f, Level(S, n - 1))
    PROVE  \E h \in [Level(S, n) -> Int] : Unfolds(h, f, Level(S, n))
<1>1. CASE n = 0
  <2> DEFINE h == [s \in Level(S, 0) |-> 0]
  <2>1. ASSUME NEW s \in Level(S, 0) PROVE s = {}
    <3>1. s \in SUBSET S /\ Cardinality(s) <= 0
      BY <2>1 DEF Level
    <3>2. SUFFICES ASSUME s # {} PROVE FALSE
      OBVIOUS
    <3>3. Cardinality(s \ {Pick(s)}) = Cardinality(s) - 1 /\ s \ {Pick(s)} \in SUBSET S
      BY <3>1, <3>2, Smaller
    <3>4. Cardinality(s \ {Pick(s)}) \in Nat
      BY <3>3, FS_Subset, FS_CardinalityType
    <3>5. Cardinality(s) \in Nat
      BY <3>1, <3>2, Smaller
    <3> QED BY <3>1, <3>3, <3>4, <3>5
  <2>2. h \in [Level(S, 0) -> Int] /\ Unfolds(h, f, Level(S, 0))
    BY <2>1 DEF Unfolds
  <2> QED BY <1>1, <2>2
<1>2. CASE n # 0
  <2>1. PICK g \in [Level(S, n - 1) -> Int] : Unfolds(g, f, Level(S, n - 1))
    BY <1>2
  <2> DEFINE V(s) == IF s = {} THEN 0 ELSE f[Pick(s)] + g[s \ {Pick(s)}]
             h == [s \in Level(S, n) |-> V(s)]
  <2>2. ASSUME NEW s \in Level(S, n), s # {}
        PROVE  s \ {Pick(s)} \in Level(S, n - 1) /\ f[Pick(s)] \in Int
    <3>1. s \in SUBSET S /\ Cardinality(s) <= n
      BY <2>2 DEF Level
    <3>2. Pick(s) \in s /\ s \ {Pick(s)} \in SUBSET S /\ Cardinality(s) \in Nat
              /\ Cardinality(s \ {Pick(s)}) = Cardinality(s) - 1
      BY <2>2, <3>1, Smaller
    <3>3. Cardinality(s \ {Pick(s)}) <= n - 1
      BY <3>1, <3>2
    <3> QED BY <3>1, <3>2, <3>3 DEF Level
  <2>3. Level(S, n - 1) \subseteq Level(S, n)
    <3>1. ASSUME NEW s \in Level(S, n - 1) PROVE s \in Level(S, n)
      <4>1. s \in SUBSET S /\ Cardinality(s) <= n - 1
        BY <3>1 DEF Level
      <4>2. Cardinality(s) \in Nat
        BY <4>1, FS_Subset, FS_CardinalityType
      <4> QED BY <4>1, <4>2 DEF Level
    <3> QED BY <3>1
  <2>4. ASSUME NEW s \in Level(S, n) PROVE V(s) \in Int
    BY <2>2
  <2>5. ASSUME NEW s \in Level(S, n - 1) PROVE h[s] = g[s]
    <3>1. h[s] = V(s)
      BY <2>3
    <3>2. g[s] = V(s)
      BY <2>1 DEF Unfolds
    <3> QED BY <3>1, <3>2
  <2>6. h \in [Level(S, n) -> Int]
    BY <2>4
  <2>7. ASSUME NEW s \in Level(S, n)
        PROVE  h[s] = IF s = {} THEN 0 ELSE f[Pick(s)] + h[s \ {Pick(s)}]
    <3>1. h[s] = V(s)
      OBVIOUS
    <3>2. s # {} => h[s \ {Pick(s)}] = g[s \ {Pick(s)}]
      BY <2>2, <2>5
    <3> HIDE DEF h
    <3> QED BY <3>1, <3>2
  <2> HIDE DEF h, V
  <2>8. Unfolds(h, f, Level(S, n))
    BY <2>6, <2>7 DEF Unfolds
  <2> QED BY <2>6, <2>8
<1> QED BY <1>1, <1>2

\* So there is one for every size.
LEMMA Levels ==
    ASSUME NEW S, IsFiniteSet(S), NEW f, \A x \in S : f[x] \in Int, NEW n \in Nat
    PROVE  \E h \in [Level(S, n) -> Int] : Unfolds(h, f, Level(S, n))
<1> DEFINE T == {k \in Nat : ~ \E h \in [Level(S, k) -> Int] : Unfolds(h, f, Level(S, k))}
<1>1. SUFFICES ASSUME n \in T PROVE FALSE
  OBVIOUS
<1>2. PICK k \in T : \A m \in T : k <= m
  BY <1>1, LeastNumber, Zenon
<1>3. k \in Nat
  OBVIOUS
<1>4. k = 0 \/ \E g \in [Level(S, k - 1) -> Int] : Unfolds(g, f, Level(S, k - 1))
  <2>1. k # 0 => k - 1 \in Nat /\ ~(k <= k - 1)
    BY <1>3
  <2>2. k # 0 => k - 1 \notin T
    BY <1>2, <2>1
  <2> QED BY <2>1, <2>2
<1>5. \E h \in [Level(S, k) -> Int] : Unfolds(h, f, Level(S, k))
  BY <1>3, <1>4, LevelStep
<1> QED BY <1>5

\* The function that unfolds the sum exists, and its value at S is the sum.
LEMMA SumUnfolds ==
    ASSUME NEW S, IsFiniteSet(S), NEW f, \A x \in S : f[x] \in Int
    PROVE  \E g \in [SUBSET S -> Int] : Unfolds(g, f, SUBSET S) /\ SumOn(f, S) = g[S]
<1> DEFINE it[s \in SUBSET S] == IF s = {} THEN 0 ELSE f[Pick(s)] + it[s \ {Pick(s)}]
<1>1. SumOn(f, S) = it[S]
  BY DEF SumOn, FoldFunctionOnSet, MapThenFoldSet, Pick
<1>2. Cardinality(S) \in Nat
  BY FS_CardinalityType
<1>3. Level(S, Cardinality(S)) = SUBSET S
  <2>1. ASSUME NEW s \in SUBSET S PROVE Cardinality(s) <= Cardinality(S)
    BY FS_Subset
  <2> QED BY <2>1 DEF Level
<1>4. PICK h \in [SUBSET S -> Int] : Unfolds(h, f, SUBSET S)
  <2> HIDE DEF it
  <2>1. \E h \in [Level(S, Cardinality(S)) -> Int] : Unfolds(h, f, Level(S, Cardinality(S)))
    BY <1>2, Levels
  <2> QED BY <1>3, <2>1
<1>5. h = [s \in SUBSET S |-> IF s = {} THEN 0 ELSE f[Pick(s)] + h[s \ {Pick(s)}]]
  BY <1>4 DEF Unfolds
<1> HIDE DEF it
<1>6. it = [s \in SUBSET S |-> IF s = {} THEN 0 ELSE f[Pick(s)] + it[s \ {Pick(s)}]]
  BY <1>5 DEF it
<1>7. Unfolds(it, f, SUBSET S)
  BY <1>6 DEF Unfolds
<1> DEFINE Good == {s \in SUBSET S : it[s] \in Int}
<1>8. ASSUME NEW s \in SUBSET S
      PROVE  it[s] = IF s = {} THEN 0 ELSE f[Pick(s)] + it[s \ {Pick(s)}]
  BY <1>6
<1>9. {} \in Good
  <2>1. it[{}] = 0
    BY <1>8
  <2> QED BY <2>1
<1>10. ASSUME NEW s \in SUBSET S, s # {}, s \ {Pick(s)} \in Good PROVE s \in Good
  <2>1. Pick(s) \in S
    BY <1>10, Smaller
  <2>2. f[Pick(s)] \in Int
    BY <2>1
  <2>3. it[s \ {Pick(s)}] \in Int
    BY <1>10
  <2>4. it[s] = f[Pick(s)] + it[s \ {Pick(s)}]
    BY <1>8, <1>10
  <2>5. it[s] \in Int
    BY <2>2, <2>3, <2>4
  <2> QED BY <2>5
<1>11. Good = SUBSET S
  <2> HIDE DEF Good
  <2>1. Good \in SUBSET (SUBSET S)
    BY DEF Good
  <2> QED BY <1>9, <1>10, <2>1, SubsetInduction
<1>12. it \in [SUBSET S -> Int]
  <2>1. \A s \in SUBSET S : it[s] \in Int
    BY <1>11
  <2> QED BY <2>1, <1>6
<1> QED BY <1>1, <1>7, <1>12

\* The sum of integers is an integer.
LEMMA SumIsInteger ==
    ASSUME NEW S, IsFiniteSet(S), NEW f \in [S -> Int]
    PROVE  SumOn(f, S) \in Int
<1>1. PICK g \in [SUBSET S -> Int] : Unfolds(g, f, SUBSET S) /\ SumOn(f, S) = g[S]
  BY SumUnfolds
<1> QED BY <1>1

\* A sum of values that are not positive is not positive, and one of values
\* that are not negative is not negative.
LEMMA SumSign ==
    ASSUME NEW S, IsFiniteSet(S), NEW f \in [S -> Int]
    PROVE  /\ (\A x \in S : f[x] <= 0) => SumOn(f, S) <= 0
           /\ (\A x \in S : f[x] >= 0) => SumOn(f, S) >= 0
<1>1. PICK g \in [SUBSET S -> Int] : Unfolds(g, f, SUBSET S) /\ SumOn(f, S) = g[S]
  BY SumUnfolds
<1>2. ASSUME NEW s \in SUBSET S
      PROVE  g[s] = IF s = {} THEN 0 ELSE f[Pick(s)] + g[s \ {Pick(s)}]
  BY <1>1 DEF Unfolds
<1>3. ASSUME \A x \in S : f[x] <= 0 PROVE g[S] <= 0
  <2> DEFINE Good == {s \in SUBSET S : g[s] <= 0}
  <2>1. {} \in Good
    <3>1. g[{}] = 0
      BY <1>2
    <3> QED BY <3>1
  <2>2. ASSUME NEW s \in SUBSET S, s # {}, s \ {Pick(s)} \in Good PROVE s \in Good
    <3>1. f[Pick(s)] \in Int /\ f[Pick(s)] <= 0
      BY <1>3, <2>2, Smaller
    <3> QED BY <1>2, <2>2, <3>1
  <2>3. Good \in SUBSET (SUBSET S)
    OBVIOUS
  <2> HIDE DEF Good
  <2>4. Good = SUBSET S
    BY <2>1, <2>2, <2>3, SubsetInduction
  <2> QED BY <2>4 DEF Good
<1>4. ASSUME \A x \in S : f[x] >= 0 PROVE g[S] >= 0
  <2> DEFINE Good == {s \in SUBSET S : g[s] >= 0}
  <2>1. {} \in Good
    <3>1. g[{}] = 0
      BY <1>2
    <3> QED BY <3>1
  <2>2. ASSUME NEW s \in SUBSET S, s # {}, s \ {Pick(s)} \in Good PROVE s \in Good
    <3>1. f[Pick(s)] \in Int /\ f[Pick(s)] >= 0
      BY <1>4, <2>2, Smaller
    <3> QED BY <1>2, <2>2, <3>1
  <2>3. Good \in SUBSET (SUBSET S)
    OBVIOUS
  <2> HIDE DEF Good
  <2>4. Good = SUBSET S
    BY <2>1, <2>2, <2>3, SubsetInduction
  <2> QED BY <2>4 DEF Good
<1> QED BY <1>1, <1>3, <1>4

\* Changing the value at one argument changes the sum by the difference.
LEMMA SumChange ==
    ASSUME NEW S, IsFiniteSet(S), NEW f \in [S -> Int], NEW h \in [S -> Int], NEW y \in S,
           \A x \in S \ {y} : h[x] = f[x]
    PROVE  SumOn(h, S) = SumOn(f, S) + h[y] - f[y]
<1>1. PICK g \in [SUBSET S -> Int] : Unfolds(g, f, SUBSET S) /\ SumOn(f, S) = g[S]
  BY SumUnfolds
<1>2. PICK k \in [SUBSET S -> Int] : Unfolds(k, h, SUBSET S) /\ SumOn(h, S) = k[S]
  BY SumUnfolds
<1>3. ASSUME NEW s \in SUBSET S
      PROVE  /\ g[s] = IF s = {} THEN 0 ELSE f[Pick(s)] + g[s \ {Pick(s)}]
             /\ k[s] = IF s = {} THEN 0 ELSE h[Pick(s)] + k[s \ {Pick(s)}]
  BY <1>1, <1>2 DEF Unfolds
<1> DEFINE Good == {s \in SUBSET S : k[s] = g[s] + (IF y \in s THEN h[y] - f[y] ELSE 0)}
<1>4. {} \in Good
  <2>1. g[{}] = 0 /\ k[{}] = 0
    BY <1>3
  <2> QED BY <2>1
<1>5. ASSUME NEW s \in SUBSET S, s # {}, s \ {Pick(s)} \in Good PROVE s \in Good
  <2> DEFINE p == Pick(s)
             r == s \ {p}
  <2>1. p \in s /\ p \in S /\ r \in SUBSET S
    BY <1>5, Smaller
  <2>2. k[r] = g[r] + (IF y \in r THEN h[y] - f[y] ELSE 0)
    BY <1>5
  <2>3. g[s] = f[p] + g[r] /\ k[s] = h[p] + k[r]
    BY <1>3, <1>5
  <2>4. (y \in r <=> y \in s /\ y # p)
    OBVIOUS
  <2>5. g[s] \in Int /\ k[s] \in Int /\ g[r] \in Int /\ k[r] \in Int
          /\ f[p] \in Int /\ h[p] \in Int /\ f[y] \in Int /\ h[y] \in Int
    BY <2>1
  <2>6. p # y => h[p] = f[p]
    BY <2>1
  <2> HIDE DEF p, r
  <2>7. k[s] = g[s] + (IF y \in s THEN h[y] - f[y] ELSE 0)
    BY <2>1, <2>2, <2>3, <2>4, <2>5, <2>6
  <2> QED BY <2>7
<1>6. Good \in SUBSET (SUBSET S)
  OBVIOUS
<1> HIDE DEF Good
<1>7. Good = SUBSET S
  BY <1>4, <1>5, <1>6, SubsetInduction
<1>8. k[S] = g[S] + (IF y \in S THEN h[y] - f[y] ELSE 0)
  BY <1>7 DEF Good
<1> QED BY <1>1, <1>2, <1>8

\* What holds of a set whenever it holds of all smaller ones holds of all.
LEMMA SizeInduction ==
    ASSUME NEW S, IsFiniteSet(S), NEW Good \in SUBSET (SUBSET S),
           \A u \in SUBSET S :
              (\A v \in SUBSET S : Cardinality(v) < Cardinality(u) => v \in Good) => u \in Good
    PROVE  Good = SUBSET S
<1> DEFINE T == {k \in Nat : \E s \in SUBSET S : s \notin Good /\ Cardinality(s) = k}
<1>1. SUFFICES ASSUME NEW s \in SUBSET S, s \notin Good PROVE FALSE
  OBVIOUS
<1>2. \A v \in SUBSET S : Cardinality(v) \in Nat
  BY FS_Subset, FS_CardinalityType
<1>3. Cardinality(s) \in T
  BY <1>1, <1>2
<1>4. PICK k \in T : \A m \in T : k <= m
  BY <1>3, LeastNumber, Zenon
<1>5. PICK u \in SUBSET S : u \notin Good /\ Cardinality(u) = k
  OBVIOUS
<1>6. ASSUME NEW v \in SUBSET S, Cardinality(v) < Cardinality(u) PROVE v \in Good
  <2>1. v \notin Good => Cardinality(v) \in T
    BY <1>2
  <2>2. Cardinality(v) \in Nat /\ k \in Nat
    BY <1>2
  <2>3. ~(k <= Cardinality(v))
    BY <1>5, <1>6, <2>2
  <2> QED BY <1>4, <2>1, <2>3
<1> QED BY <1>5, <1>6

\* g gives the sum over every subset, whatever element is added last.
Adds(g, f, S) ==
    /\ g[{}] = 0
    /\ \A u \in SUBSET S, y \in S : y \in u => g[u] = f[y] + g[u \ {y}]
    /\ \A u \in SUBSET S : SumOn(f, u) = g[u]

\* The sum over a subset is one function of the subset, and it does not matter
\* which element is added last.
LEMMA SumIsFree ==
    ASSUME NEW S, IsFiniteSet(S), NEW f, \A x \in S : f[x] \in Int
    PROVE  \E g \in [SUBSET S -> Int] : Adds(g, f, S)
<1>1. PICK g \in [SUBSET S -> Int] : Unfolds(g, f, SUBSET S)
  BY SumUnfolds
<1>2. ASSUME NEW s \in SUBSET S
      PROVE  g[s] = IF s = {} THEN 0 ELSE f[Pick(s)] + g[s \ {Pick(s)}]
  BY <1>1 DEF Unfolds
<1>3. g[{}] = 0
  BY <1>2
<1> DEFINE Good == {u \in SUBSET S : \A y \in u : g[u] = f[y] + g[u \ {y}]}
<1>4. ASSUME NEW u \in SUBSET S,
             \A v \in SUBSET S : Cardinality(v) < Cardinality(u) => v \in Good,
             NEW y \in u
      PROVE  g[u] = f[y] + g[u \ {y}]
  <2>0. u # {}
    BY <1>4
  <2> DEFINE p == Pick(u)
  <2>1. /\ p \in u /\ u \ {p} \in SUBSET S /\ Cardinality(u) \in Nat
        /\ Cardinality(u \ {p}) = Cardinality(u) - 1
    BY <1>4, <2>0, Smaller
  <2>2. g[u] = f[p] + g[u \ {p}]
    BY <1>2, <2>0
  <2>3. CASE y = p
    BY <2>2, <2>3
  <2>4. CASE y # p
    <3> HIDE DEF p
    <3>1. u \ {p} \in Good
      BY <1>4, <2>1
    <3>2. g[u \ {p}] = f[y] + g[(u \ {p}) \ {y}]
      BY <2>4, <3>1
    <3>3. Cardinality(u \ {y}) = Cardinality(u) - 1 /\ u \ {y} \in SUBSET S
      BY <1>4, FS_Subset, FS_RemoveElement
    <3>4. u \ {y} \in Good
      BY <1>4, <2>1, <3>3
    <3>5. g[u \ {y}] = f[p] + g[(u \ {y}) \ {p}]
      BY <2>1, <2>4, <3>4
    <3>6. (u \ {p}) \ {y} = (u \ {y}) \ {p} /\ (u \ {p}) \ {y} \in SUBSET S
      OBVIOUS
    <3>7. PICK rest \in Int : rest = g[(u \ {p}) \ {y}] /\ rest = g[(u \ {y}) \ {p}]
      BY <3>6
    <3>8. f[p] \in Int /\ f[y] \in Int
      BY <1>4, <2>1
    <3>9. g[u] = f[p] + (f[y] + rest) /\ g[u \ {y}] = f[p] + rest
      BY <2>2, <3>2, <3>5, <3>7
    <3> QED BY <3>7, <3>8, <3>9
  <2> QED BY <2>3, <2>4
<1>5. Good = SUBSET S
  <2>1. Good \in SUBSET (SUBSET S)
    OBVIOUS
  <2>2. \A u \in SUBSET S :
           (\A v \in SUBSET S : Cardinality(v) < Cardinality(u) => v \in Good) => u \in Good
    BY <1>4
  <2> HIDE DEF Good
  <2> QED BY <2>1, <2>2, SizeInduction
<1>6. \A u \in SUBSET S, y \in S : y \in u => g[u] = f[y] + g[u \ {y}]
  BY <1>5
<1>7. ASSUME NEW u \in SUBSET S PROVE SumOn(f, u) = g[u]
  <2>0. IsFiniteSet(u) /\ \A x \in u : f[x] \in Int
    BY <1>7, FS_Subset
  <2>1. PICK k \in [SUBSET u -> Int] : Unfolds(k, f, SUBSET u) /\ SumOn(f, u) = k[u]
    BY <2>0, SumUnfolds
  <2>2. ASSUME NEW s \in SUBSET u
        PROVE  k[s] = IF s = {} THEN 0 ELSE f[Pick(s)] + k[s \ {Pick(s)}]
    BY <2>1 DEF Unfolds
  <2> DEFINE Same == {s \in SUBSET u : k[s] = g[s]}
  <2>3. {} \in Same
    <3>1. k[{}] = 0
      BY <2>2
    <3> QED BY <1>3, <3>1
  <2>4. ASSUME NEW s \in SUBSET u, s # {}, s \ {Pick(s)} \in Same PROVE s \in Same
    <3>1. k[s] = f[Pick(s)] + k[s \ {Pick(s)}]
      BY <2>2, <2>4
    <3>2. g[s] = f[Pick(s)] + g[s \ {Pick(s)}]
      BY <1>2, <2>4
    <3> QED BY <2>4, <3>1, <3>2
  <2>5. Same \in SUBSET (SUBSET u)
    OBVIOUS
  <2> HIDE DEF Same
  <2>6. Same = SUBSET u
    BY <2>0, <2>3, <2>4, <2>5, SubsetInduction
  <2> QED BY <2>1, <2>6 DEF Same
<1>8. Adds(g, f, S)
  BY <1>3, <1>6, <1>7 DEF Adds
<1> QED BY <1>8

\* One more argument adds its value to the sum.
LEMMA SumInsert ==
    ASSUME NEW S, IsFiniteSet(S), NEW f, \A x \in S : f[x] \in Int, NEW y, y \notin S,
           f[y] \in Int
    PROVE  SumOn(f, S \cup {y}) = SumOn(f, S) + f[y]
<1>1. PICK T : T = S \cup {y}
  OBVIOUS
<1>2. IsFiniteSet(T) /\ \A x \in T : f[x] \in Int
  BY <1>1, FS_AddElement
<1>3. PICK g \in [SUBSET T -> Int] : Adds(g, f, T)
  BY <1>2, SumIsFree
<1>4. T \ {y} = S /\ S \in SUBSET T /\ T \in SUBSET T /\ y \in T
  BY <1>1
<1>5. g[T] = f[y] + g[S] /\ g[S] \in Int
  BY <1>3, <1>4 DEF Adds
<1>6. SumOn(f, T) = g[T] /\ SumOn(f, S) = g[S]
  BY <1>3, <1>4, Zenon DEF Adds
<1>7. SumOn(f, T) = SumOn(f, S) + f[y]
  BY <1>5, <1>6
<1> QED BY <1>1, <1>7

\* The sum over no argument is 0.
LEMMA SumOfNone == ASSUME NEW f PROVE SumOn(f, {}) = 0
<1>1. IsFiniteSet({}) /\ \A x \in {} : f[x] \in Int
  BY FS_EmptySet
<1>2. PICK S : S = {}
  OBVIOUS
<1>3. PICK g \in [SUBSET S -> Int] : Adds(g, f, S)
  BY <1>1, <1>2, SumIsFree
<1>4. {} \in SUBSET S
  OBVIOUS
<1> QED BY <1>3, <1>4, Zenon DEF Adds

\* Where no value is negative, fewer arguments have no greater sum.
LEMMA SumGrows ==
    ASSUME NEW T, IsFiniteSet(T), NEW f, \A x \in T : f[x] \in Nat, NEW S \in SUBSET T
    PROVE  SumOn(f, S) <= SumOn(f, T) /\ SumOn(f, S) \in Nat
<1>1. PICK g \in [SUBSET T -> Int] : Adds(g, f, T)
  <2>1. \A x \in T : f[x] \in Int
    OBVIOUS
  <2> QED BY <2>1, SumIsFree
<1> DEFINE Good == {s \in SUBSET T : 0 <= g[S \cap s] /\ g[S \cap s] <= g[s]}
<1>2. {} \in Good
  <2>1. S \cap {} = {}
    OBVIOUS
  <2> QED BY <1>1, <2>1 DEF Adds
<1>3. ASSUME NEW s \in SUBSET T, s # {}, s \ {Pick(s)} \in Good PROVE s \in Good
  <2>1. PICK p : p = Pick(s)
    OBVIOUS
  <2>2. p \in s /\ p \in T /\ f[p] \in Nat
    BY <1>3, <2>1, Smaller
  <2>3. g[s] = f[p] + g[s \ {p}]
    BY <1>1, <2>2 DEF Adds
  <2>4. 0 <= g[S \cap (s \ {p})] /\ g[S \cap (s \ {p})] <= g[s \ {p}]
    BY <1>3, <2>1
  <2>5. S \cap s \in SUBSET T /\ S \cap (s \ {p}) \in SUBSET T /\ s \ {p} \in SUBSET T
    OBVIOUS
  <2>6. g[S \cap s] \in Int /\ g[S \cap (s \ {p})] \in Int /\ g[s \ {p}] \in Int /\ g[s] \in Int
    BY <2>5
  <2>7. CASE p \in S
    <3>1. (S \cap s) \ {p} = S \cap (s \ {p}) /\ p \in S \cap s
      BY <2>2, <2>7
    <3>2. g[S \cap s] = f[p] + g[S \cap (s \ {p})]
      BY <1>1, <2>2, <2>5, <3>1 DEF Adds
    <3> QED BY <2>2, <2>3, <2>4, <2>6, <3>2
  <2>8. CASE p \notin S
    <3>1. S \cap s = S \cap (s \ {p})
      BY <2>8
    <3>2. g[S \cap s] = g[S \cap (s \ {p})]
      BY <3>1
    <3>3. 0 <= g[S \cap s] /\ g[S \cap s] <= g[s]
      BY <2>2, <2>3, <2>4, <2>6, <3>2
    <3> QED BY <3>3
  <2> QED BY <2>7, <2>8
<1>4. Good \in SUBSET (SUBSET T)
  OBVIOUS
<1> HIDE DEF Good
<1>5. Good = SUBSET T
  BY <1>2, <1>3, <1>4, SubsetInduction
<1>6. S \cap T = S /\ T \in Good
  BY <1>5
<1>7. 0 <= g[S \cap T] /\ g[S \cap T] <= g[T]
  BY <1>6 DEF Good
<1>8. SumOn(f, S) = g[S] /\ SumOn(f, T) = g[T] /\ g[S] \in Int
  BY <1>1 DEF Adds
<1>9. 0 <= g[S] /\ g[S] <= g[T]
  BY <1>6, <1>7
<1>10. PICK n \in Int : n = g[S]
  BY <1>8
<1>11. 0 <= n /\ n <= g[T] /\ SumOn(f, S) = n
  BY <1>8, <1>9, <1>10
<1> QED BY <1>8, <1>11

\* Functions with the same values on S have the same sum over it.
LEMMA SumSame ==
    ASSUME NEW S, IsFiniteSet(S), NEW f, NEW h, \A x \in S : f[x] \in Int /\ h[x] = f[x]
    PROVE  SumOn(h, S) = SumOn(f, S)
<1>1. PICK g \in [SUBSET S -> Int] : Unfolds(g, f, SUBSET S) /\ SumOn(f, S) = g[S]
  BY SumUnfolds
<1>2. PICK k \in [SUBSET S -> Int] : Unfolds(k, h, SUBSET S) /\ SumOn(h, S) = k[S]
  BY SumUnfolds
<1>3. ASSUME NEW s \in SUBSET S
      PROVE  /\ g[s] = IF s = {} THEN 0 ELSE f[Pick(s)] + g[s \ {Pick(s)}]
             /\ k[s] = IF s = {} THEN 0 ELSE h[Pick(s)] + k[s \ {Pick(s)}]
  BY <1>1, <1>2 DEF Unfolds
<1> DEFINE Good == {s \in SUBSET S : k[s] = g[s]}
<1>4. {} \in Good
  BY <1>3
<1>5. ASSUME NEW s \in SUBSET S, s # {}, s \ {Pick(s)} \in Good PROVE s \in Good
  <2>1. Pick(s) \in S
    BY <1>5, Smaller
  <2> QED BY <1>3, <1>5, <2>1
<1>6. Good \in SUBSET (SUBSET S)
  OBVIOUS
<1> HIDE DEF Good
<1>7. Good = SUBSET S
  BY <1>4, <1>5, <1>6, SubsetInduction
<1> QED BY <1>1, <1>2, <1>7 DEF Good
=============================================================================
