------------------------------- MODULE SetFolds -------------------------------
(***************************************************************************)
(* Induction over finite sets, and the recursive functions that FoldSet    *)
(* and its kin define, stated with sets and functions for parameters: a    *)
(* property of sets is the set of the sets that have it, and a step of a   *)
(* fold is a function.                                                     *)
(***************************************************************************)
EXTENDS Integers, FiniteSetsExt, FiniteSetTheorems, WellFoundedInduction, TLAPS

\* The element that a fold takes first.
AnyOf(T) == CHOOSE x \in T : TRUE

\* Every nonempty set of naturals has a least element.
LEMMA LeastNatural ==
  ASSUME NEW S \in SUBSET Nat, S # {}
  PROVE  \E x \in S : \A y \in S : x <= y
<1>1. PICK x \in S : \A y \in S : <<y, x>> \notin OpToRel(<, Nat)
  BY NatLessThanWellFounded, WFMin
<1>2. \A y \in S : ~(y < x)
  BY <1>1 DEF OpToRel
<1> QED
  BY <1>2

\* A set of numbers that holds each of whose predecessors it holds.
LEMMA NaturalInduction ==
  ASSUME NEW Q \in SUBSET Nat, 0 \in Q, \A n \in Q : n + 1 \in Q
  PROVE  Q = Nat
<1> SUFFICES ASSUME Nat \ Q # {} PROVE FALSE
  OBVIOUS
<1>1. PICK n \in Nat \ Q : \A m \in Nat \ Q : n <= m
  BY LeastNatural
<1>2. n # 0 /\ n - 1 \in Nat
  BY <1>1
<1>3. n - 1 \in Q
  BY <1>1, <1>2
<1> QED
  BY <1>1, <1>2, <1>3

\* A set of subsets of E that holds a subset when it holds that less any one element.
Inductive(Q, E) ==
  /\ Q \subseteq SUBSET E /\ {} \in Q
  /\ \A T \in SUBSET E : T # {} /\ (\A x \in T : T \ {x} \in Q) => T \in Q

LEMMA SubsetInduction ==
  ASSUME NEW E, IsFiniteSet(E), NEW Q, Inductive(Q, E)
  PROVE  E \in Q
<1> USE DEF Inductive
<1> DEFINE N == {n \in Nat : \A T \in SUBSET E : Cardinality(T) = n => T \in Q}
<1>0. \A T \in SUBSET E : IsFiniteSet(T) /\ Cardinality(T) \in Nat
  BY FS_Subset, FS_CardinalityType
<1>1. 0 \in N
  BY <1>0, FS_EmptySet
<1>2. ASSUME NEW n \in N
      PROVE  n + 1 \in N
  <2>1. ASSUME NEW T \in SUBSET E, Cardinality(T) = n + 1
        PROVE  T \in Q
    <3>1. T # {}
      BY <2>1, FS_EmptySet
    <3>2. ASSUME NEW x \in T
          PROVE  T \ {x} \in Q
      <4>1. n \in Nat /\ IsFiniteSet(T)
        BY <1>0
      <4>2. Cardinality(T \ {x}) = n
        <5>1. Cardinality(T \ {x}) = Cardinality(T) - 1
          BY <4>1, FS_RemoveElement
        <5> QED
          BY <2>1, <4>1, <5>1
      <4> QED
        BY <4>2
    <3> QED
      BY <3>1, <3>2
  <2> QED
    BY <2>1
<1> HIDE DEF N
<1>3. N = Nat
  <2>1. N \in SUBSET Nat
    BY DEF N
  <2> QED
    BY <1>1, <1>2, <2>1, NaturalInduction
<1> QED
  BY <1>0, <1>3 DEF N

\* pick says which element is taken first.
Picks(pick, E) == \A T \in SUBSET E : T # {} => pick[T] \in T

\* What a fold over E computes of each subset of E, if it takes pick of it first.
IsPicked(g, base, F, E, pick) ==
  /\ g[{}] = base
  /\ \A T \in SUBSET E : T # {} => g[T] = F[pick[T]][g[T \ {pick[T]}]]

LEMMA PickedExists ==
  ASSUME NEW E, IsFiniteSet(E), NEW V, NEW base \in V, NEW F \in [E -> [V -> V]],
         NEW pick, Picks(pick, E)
  PROVE  \E g \in [SUBSET E -> V] : IsPicked(g, base, F, E, pick)
<1> DEFINE UpTo(n) == {T \in SUBSET E : Cardinality(T) <= n}
           Solves(g, n) == \A T \in UpTo(n) :
             g[T] = IF T = {} THEN base ELSE F[pick[T]][g[T \ {pick[T]}]]
           N == {n \in Nat : \E g \in [UpTo(n) -> V] : Solves(g, n)}
<1>0. /\ \A T \in SUBSET E : IsFiniteSet(T) /\ Cardinality(T) \in Nat
      /\ \A T \in SUBSET E : T # {} =>
           /\ pick[T] \in T /\ T \ {pick[T]} \in SUBSET E
           /\ Cardinality(T \ {pick[T]}) = Cardinality(T) - 1
  <2>1. \A T \in SUBSET E : IsFiniteSet(T) /\ Cardinality(T) \in Nat
    BY FS_Subset, FS_CardinalityType
  <2>2. \A T \in SUBSET E : T # {} => pick[T] \in T
    BY DEF Picks
  <2> QED
    BY <2>1, <2>2, FS_RemoveElement
<1>1. 0 \in N
  <2> DEFINE g == [T \in UpTo(0) |-> base]
  <2>1. \A T \in UpTo(0) : T = {}
    BY <1>0, FS_EmptySet
  <2>2. g \in [UpTo(0) -> V] /\ Solves(g, 0)
    BY <2>1
  <2> QED
    BY <2>2
<1>2. ASSUME NEW n \in N
      PROVE  n + 1 \in N
  <2>0. n \in Nat
    OBVIOUS
  <2>1. PICK g \in [UpTo(n) -> V] : Solves(g, n)
    OBVIOUS
  <2> DEFINE h == [T \in UpTo(n + 1) |->
                     IF T \in UpTo(n) THEN g[T] ELSE F[pick[T]][g[T \ {pick[T]}]]]
  <2>2. ASSUME NEW T \in UpTo(n + 1)
        PROVE  /\ T \in UpTo(n) => h[T] = g[T]
               /\ T \notin UpTo(n) => h[T] = F[pick[T]][g[T \ {pick[T]}]]
               /\ T # {} => T \ {pick[T]} \in UpTo(n)
               /\ T = {} => T \in UpTo(n)
               /\ T # {} => pick[T] \in E
    <3>1. T # {} => T \ {pick[T]} \in UpTo(n)
      BY <1>0, <2>0
    <3>2. {} \in UpTo(n)
      BY <2>0, FS_EmptySet
    <3> QED
      BY <1>0, <3>1, <3>2
  <2>3. \A T \in UpTo(n) : T \in UpTo(n + 1)
    BY <1>0, <2>0
  <2> HIDE DEF h
  <2>4. ASSUME NEW T \in UpTo(n + 1)
        PROVE  h[T] \in V
    <3> HIDE DEF UpTo
    <3>1. CASE T \in UpTo(n)
      BY <2>1, <2>2, <3>1
    <3>2. CASE T \notin UpTo(n)
      <4>1. pick[T] \in E /\ T \ {pick[T]} \in UpTo(n)
        BY <2>2, <3>2
      <4>a. PICK v, G : v = g[T \ {pick[T]}] /\ G = F[pick[T]]
        OBVIOUS
      <4>2. v \in V /\ G \in [V -> V]
        BY <2>1, <4>1, <4>a
      <4>3. h[T] = G[v]
        BY <2>2, <3>2, <4>a
      <4> QED
        BY <4>2, <4>3
    <3> QED
      BY <3>1, <3>2
  <2>5. h \in [UpTo(n + 1) -> V]
    BY <2>4 DEF h
  <2>6. \A T \in UpTo(n + 1) : T # {} => h[T \ {pick[T]}] = g[T \ {pick[T]}]
    <3> HIDE DEF UpTo
    <3> QED
      BY <2>2, <2>3
  <2>7. Solves(h, n + 1)
    <3>1. ASSUME NEW T \in UpTo(n + 1)
          PROVE  h[T] = IF T = {} THEN base ELSE F[pick[T]][h[T \ {pick[T]}]]
      <4>1. CASE T \in UpTo(n)
        <5>1. h[T] = g[T]
          BY <2>2, <4>1
        <5>2. g[T] = IF T = {} THEN base ELSE F[pick[T]][g[T \ {pick[T]}]]
          BY <2>1, <4>1
        <5> QED
          BY <2>6, <5>1, <5>2
      <4>2. CASE T \notin UpTo(n)
        BY <2>2, <2>6, <4>2
      <4> QED
        BY <4>1, <4>2
    <3> QED
      BY <3>1
  <2>8. n + 1 \in Nat
    BY <2>0
  <2> HIDE DEF UpTo, Solves
  <2> QED
    BY <2>5, <2>7, <2>8
<1>3. N = Nat
  <2>1. N \in SUBSET Nat
    OBVIOUS
  <2> HIDE DEF N
  <2> QED
    BY <1>1, <1>2, <2>1, NaturalInduction
<1>4. PICK g \in [UpTo(Cardinality(E)) -> V] : Solves(g, Cardinality(E))
  <2>1. Cardinality(E) \in N
    BY <1>0, <1>3
  <2> QED
    BY <2>1
<1>5. UpTo(Cardinality(E)) = SUBSET E
  BY FS_Subset
<1>6. g \in [SUBSET E -> V] /\ \A T \in SUBSET E :
        g[T] = IF T = {} THEN base ELSE F[pick[T]][g[T \ {pick[T]}]]
  BY <1>4, <1>5
<1>7. IsPicked(g, base, F, E, pick)
  BY <1>6 DEF IsPicked
<1> QED
  BY <1>6, <1>7

\* A fold that takes any element first.
IsFold(g, base, F, E) ==
  /\ g[{}] = base
  /\ \A T \in SUBSET E : T # {} => g[T] = F[AnyOf(T)][g[T \ {AnyOf(T)}]]

LEMMA FoldExists ==
  ASSUME NEW E, IsFiniteSet(E), NEW V, NEW base \in V, NEW F \in [E -> [V -> V]]
  PROVE  \E g \in [SUBSET E -> V] : IsFold(g, base, F, E)
<1>a. PICK pick : pick = [T \in SUBSET E |-> AnyOf(T)]
  OBVIOUS
<1>1. Picks(pick, E)
  BY <1>a DEF AnyOf, Picks
<1>2. PICK g \in [SUBSET E -> V] : IsPicked(g, base, F, E, pick)
  BY <1>1, PickedExists
<1>3. IsFold(g, base, F, E)
  BY <1>2, <1>a DEF IsPicked, IsFold
<1> QED
  BY <1>3

-------------------------------------------------------------------------------
(* Sums. *)

\* f is what MapThenSumSet computes of each subset of S, for numbers h.
IsSum(f, h, S) ==
  f = [T \in SUBSET S |-> IF T = {} THEN 0 ELSE h[AnyOf(T)] + f[T \ {AnyOf(T)}]]

LEMMA SumExists ==
  ASSUME NEW S, IsFiniteSet(S), NEW h \in [S -> Int]
  PROVE  \E f \in [SUBSET S -> Int] : IsSum(f, h, S)
<1> DEFINE F == [x \in S |-> [v \in Int |-> h[x] + v]]
<1>1. F \in [S -> [Int -> Int]]
  OBVIOUS
<1>2. PICK f \in [SUBSET S -> Int] : IsFold(f, 0, F, S)
  <2> HIDE DEF F
  <2>1. 0 \in Int
    OBVIOUS
  <2> QED
    BY <1>1, <2>1, FoldExists
<1>3. ASSUME NEW T \in SUBSET S, T # {}
      PROVE  f[T] = h[AnyOf(T)] + f[T \ {AnyOf(T)}]
  <2>1. AnyOf(T) \in S /\ f[T \ {AnyOf(T)}] \in Int
    BY <1>3 DEF AnyOf
  <2>2. f[T] = F[AnyOf(T)][f[T \ {AnyOf(T)}]]
    <3> HIDE DEF F
    <3> QED
      BY <1>2, <1>3 DEF IsFold
  <2> QED
    BY <2>1, <2>2
<1> HIDE DEF F
<1>4. f[{}] = 0
  BY <1>2 DEF IsFold
<1>5. \A T \in SUBSET S : f[T] = IF T = {} THEN 0 ELSE h[AnyOf(T)] + f[T \ {AnyOf(T)}]
  BY <1>3, <1>4
<1> QED
  BY <1>5 DEF IsSum

\* A sum does not depend on the order in which the fold takes the elements.
SumsUp(f, h, S) ==
  /\ f[{}] = 0
  /\ \A T \in SUBSET S : f[T] \in Int
  /\ \A T \in SUBSET S : \A x \in T : f[T] = h[x] + f[T \ {x}]

LEMMA SumAnyOrder ==
  ASSUME NEW S, IsFiniteSet(S), NEW h \in [S -> Int], NEW f, IsSum(f, h, S)
  PROVE  SumsUp(f, h, S)
<1>1. f[{}] = 0
  BY DEF IsSum
<1>2. \A T \in SUBSET S : T # {} =>
        AnyOf(T) \in T /\ h[AnyOf(T)] \in Int /\ f[T] = h[AnyOf(T)] + f[T \ {AnyOf(T)}]
  BY DEF IsSum, AnyOf
<1>3. \A T \in SUBSET S : f[T] \in Int
  <2> SUFFICES ASSUME NEW R \in SUBSET S PROVE f[R] \in Int
    OBVIOUS
  <2> DEFINE Q == {T \in SUBSET R : f[T] \in Int}
  <2>1. {} \in Q
    BY <1>1
  <2>2. ASSUME NEW T \in SUBSET R, T # {}, \A x \in T : T \ {x} \in Q
        PROVE  T \in Q
    <3> PICK a : a = AnyOf(T)
      OBVIOUS
    <3>1. a \in T /\ h[a] \in Int /\ f[T] = h[a] + f[T \ {a}]
      BY <1>2, <2>2
    <3>2. f[T \ {a}] \in Int
      BY <2>2, <3>1
    <3> QED
      BY <3>1, <3>2
  <2>3. Inductive(Q, R)
    BY <2>1, <2>2 DEF Inductive
  <2>4. IsFiniteSet(R)
    BY FS_Subset
  <2> HIDE DEF Q
  <2>5. R \in Q
    BY <2>3, <2>4, SubsetInduction
  <2> QED
    BY <2>5 DEF Q
<1>4. \A T \in SUBSET S : \A x \in T : f[T] = h[x] + f[T \ {x}]
  <2> SUFFICES ASSUME NEW R \in SUBSET S PROVE \A x \in R : f[R] = h[x] + f[R \ {x}]
    OBVIOUS
  <2> DEFINE Q == {T \in SUBSET R : \A x \in T : f[T] = h[x] + f[T \ {x}]}
  <2>2. ASSUME NEW T \in SUBSET R, T # {}, \A x \in T : T \ {x} \in Q
        PROVE  T \in Q
    <3> PICK a : a = AnyOf(T)
      OBVIOUS
    <3>1. a \in T /\ h[a] \in Int /\ f[T] = h[a] + f[T \ {a}]
      BY <1>2, <2>2
    <3>2. ASSUME NEW x \in T, x # a
          PROVE  f[T] = h[x] + f[T \ {x}]
      <4>1. (T \ {x}) \ {a} = (T \ {a}) \ {x} /\ x \in T \ {a} /\ a \in T \ {x}
        BY <3>1, <3>2
      <4>2. f[T \ {a}] = h[x] + f[(T \ {a}) \ {x}]
        BY <2>2, <3>1, <4>1
      <4>3. f[T \ {x}] = h[a] + f[(T \ {a}) \ {x}]
        BY <2>2, <4>1
      <4>4. f[(T \ {a}) \ {x}] \in Int /\ h[x] \in Int
        BY <1>3
      <4> QED
        BY <3>1, <4>2, <4>3, <4>4
    <3> QED
      BY <3>1, <3>2
  <2>3. Inductive(Q, R)
    BY <2>2 DEF Inductive
  <2>4. IsFiniteSet(R)
    BY FS_Subset
  <2> HIDE DEF Q
  <2>5. R \in Q
    BY <2>3, <2>4, SubsetInduction
  <2> QED
    BY <2>5 DEF Q
<1> QED
  BY <1>1, <1>3, <1>4 DEF SumsUp

\* The members of disjoint parts, counted part by part.
LEMMA SumOfParts ==
  ASSUME NEW S, IsFiniteSet(S), NEW C, IsFiniteSet(C), NEW part \in [S -> SUBSET C],
         \A x, y \in S : x # y => part[x] \cap part[y] = {},
         NEW h, h = [x \in S |-> Cardinality(part[x])], NEW f, IsSum(f, h, S)
  PROVE  f[S] = Cardinality(UNION {part[x] : x \in S})
<1> DEFINE All(T) == UNION {part[x] : x \in T}
           Q == {T \in SUBSET S : f[T] = Cardinality(All(T))}
<1>1. \A T \in SUBSET S : All(T) \subseteq C
  OBVIOUS
<1>2. h \in [S -> Int]
  <2>1. \A x \in S : Cardinality(part[x]) \in Int
    BY FS_Subset, FS_CardinalityType
  <2> QED
    BY <2>1
<1>3. SumsUp(f, h, S)
  BY <1>2, SumAnyOrder
<1>4. {} \in Q
  <2>1. All({}) = {}
    OBVIOUS
  <2> QED
    BY <1>3, <2>1, FS_EmptySet DEF SumsUp
<1>5. ASSUME NEW T \in SUBSET S, T # {}, \A x \in T : T \ {x} \in Q
      PROVE  T \in Q
  <2> PICK a \in T : TRUE
    BY <1>5
  <2> PICK P, R : P = part[a] /\ R = All(T \ {a})
    OBVIOUS
  <2>1. P \cap R = {} /\ P \cup R = All(T)
    OBVIOUS
  <2>2. IsFiniteSet(P) /\ IsFiniteSet(R)
    BY <1>1, FS_Subset
  <2>3. Cardinality(P \cup R) = Cardinality(P) + Cardinality(R)
    <3>1. Cardinality(P \cap R) = 0 /\ Cardinality(P) \in Nat /\ Cardinality(R) \in Nat
      BY <2>1, <2>2, FS_EmptySet, FS_CardinalityType
    <3>2. Cardinality(P \cup R) = Cardinality(P) + Cardinality(R) - Cardinality(P \cap R)
      BY <2>2, FS_Union
    <3> QED
      BY <3>1, <3>2
  <2>4. f[T] = h[a] + f[T \ {a}]
    BY <1>3 DEF SumsUp
  <2>5. f[T \ {a}] = Cardinality(R)
    BY <1>5
  <2> QED
    BY <2>1, <2>3, <2>4, <2>5
<1>6. Inductive(Q, S)
  BY <1>4, <1>5 DEF Inductive
<1>7. S \in Q
  <2> HIDE DEF Q
  <2> QED
    BY <1>6, SubsetInduction
<1> QED
  BY <1>7

-------------------------------------------------------------------------------
(* Least and greatest numbers. *)

\* The numbers in S have a least one.
LEMMA MinIs ==
  ASSUME NEW S \in SUBSET Nat, S # {}
  PROVE  Min(S) \in S /\ \A x \in S : Min(S) <= x
<1>1. \E x \in S : \A y \in S : x <= y
  BY LeastNatural
<1> QED
  BY <1>1 DEF Min

LEMMA LesserOfTwo ==
  ASSUME NEW a \in Nat, NEW b \in Nat
  PROVE  Min({a, b}) = IF a <= b THEN a ELSE b
<1>1. {a, b} \in SUBSET Nat /\ {a, b} # {}
  OBVIOUS
<1>a. PICK m : m = Min({a, b})
  OBVIOUS
<1>2. m \in {a, b} /\ m <= a /\ m <= b
  BY <1>1, <1>a, MinIs
<1> QED
  BY <1>2, <1>a

-------------------------------------------------------------------------------
(* Loops. *)

\* A set of numbers up to n that holds each whose predecessor it holds.
LEMMA InductionUpTo ==
  ASSUME NEW n \in Nat, NEW Q \in SUBSET (0..n), 0 \in Q, \A k \in 1..n : k - 1 \in Q => k \in Q
  PROVE  Q = 0..n
<1>a. PICK R : R = {k \in Nat : k <= n => k \in Q}
  OBVIOUS
<1>1. 0 \in R
  BY <1>a
<1>2. ASSUME NEW k \in R
      PROVE  k + 1 \in R
  <2>1. k \in Nat /\ (k <= n => k \in Q)
    BY <1>a
  <2>2. CASE k + 1 <= n
    <3>1. k + 1 \in 1..n /\ (k + 1) - 1 = k /\ k <= n
      BY <2>1, <2>2
    <3>2. k + 1 \in Q
      BY <2>1, <3>1
    <3> QED
      BY <1>a, <2>1, <3>2
  <2>3. CASE ~(k + 1 <= n)
    BY <1>a, <2>1, <2>3
  <2> QED
    BY <2>2, <2>3
<1>3. R \in SUBSET Nat
  BY <1>a
<1>4. R = Nat
  BY <1>1, <1>2, <1>3, NaturalInduction
<1>5. ASSUME NEW k \in 0..n PROVE k \in Q
  <2>1. k \in Nat /\ k <= n
    OBVIOUS
  <2> QED
    BY <1>4, <1>a, <2>1
<1> QED
  BY <1>5

LEMMA MaxIs ==
  ASSUME NEW n \in Nat, NEW T \in SUBSET (0..n), T # {}
  PROVE  Max(T) \in T /\ \A x \in T : x <= Max(T)
<1>a. PICK S : S = {n - x : x \in T}
  OBVIOUS
<1>0. \A x \in T : n - x \in Nat
  OBVIOUS
<1>1. S \in SUBSET Nat /\ S # {}
  BY <1>0, <1>a
<1>2. PICK m \in S : \A y \in S : m <= y
  BY <1>1, LeastNatural
<1>3. PICK x \in T : m = n - x
  BY <1>a, <1>2
<1>4. \A y \in T : x >= y
  <2> SUFFICES ASSUME NEW y \in T PROVE x >= y
    OBVIOUS
  <2>1. m <= n - y
    BY <1>a, <1>2
  <2> QED
    BY <1>3, <2>1
<1>5. \E z \in T : \A y \in T : z >= y
  BY <1>4
<1>6. Max(T) \in T /\ \A y \in T : Max(T) >= y
  BY <1>5 DEF Max
<1>7. \A y \in T : Max(T) >= y => y <= Max(T)
  BY <1>6
<1> QED
  BY <1>6, <1>7

LEMMA LastOfUpTo ==
  ASSUME NEW n \in Nat, NEW k \in 1..n
  PROVE  /\ (1..k) \in SUBSET (1..n) /\ (1..k) # {} /\ Max(1..k) = k
         /\ (1..k) \ {k} = 1..(k - 1) /\ 1..(k - 1) \in SUBSET (1..n)
<1>1. /\ (1..k) \in SUBSET (1..n) /\ (1..k) # {} /\ (1..k) \in SUBSET (0..n)
      /\ k \in (1..k)
  OBVIOUS
<1>2. Max(1..k) \in 1..k /\ \A x \in 1..k : x <= Max(1..k)
  BY <1>1, MaxIs
<1>3. Max(1..k) = k
  <2>a. PICK m : m = Max(1..k)
    OBVIOUS
  <2>1. m \in 1..k /\ k <= m
    BY <1>1, <1>2, <2>a
  <2> QED
    BY <2>1, <2>a
<1>4. (1..k) \ {k} = 1..(k - 1) /\ 1..(k - 1) \in SUBSET (1..n)
  OBVIOUS
<1> QED
  BY <1>1, <1>3, <1>4

\* g is what the loop has after each set of its steps: after the last of them, F of that
\* step makes it of what the loop had before.
IsLoop(g, base, F, n) ==
  \A T \in SUBSET (1..n) : g[T] = IF T = {} THEN base ELSE F[Max(T)][g[T \ {Max(T)}]]

\* The same of the first steps only, as long as values stay in V.
Unfolds(c, base, F, n, V) ==
  /\ c[{}] = base
  /\ \A k \in 1..n : c[1..(k - 1)] \in V => c[1..k] = F[k][c[1..(k - 1)]]

\* acc[k] is what the loop has after k steps.
Steps(acc, base, F, n) == acc[0] = base /\ \A k \in 1..n : acc[k] = F[k][acc[k - 1]]

\* What a loop over n elements, of which the i-th makes F[i][v] of v, has after some of them.
LEMMA LoopExists ==
  ASSUME NEW n \in Nat, NEW V, NEW base \in V, NEW F \in [1..n -> [V -> V]]
  PROVE  \E g \in [SUBSET (1..n) -> V] : IsLoop(g, base, F, n)
<1>a. PICK pick : pick = [T \in SUBSET (1..n) |-> Max(T)]
  OBVIOUS
<1>1. ASSUME NEW T \in SUBSET (1..n), T # {} PROVE pick[T] \in T
  <2>1. T \in SUBSET (0..n)
    OBVIOUS
  <2> QED
    BY <1>1, <1>a, <2>1, MaxIs
<1>2. Picks(pick, 1..n)
  BY <1>1 DEF Picks
<1>3. IsFiniteSet(1..n)
  BY FS_Interval
<1>4. PICK g \in [SUBSET (1..n) -> V] : IsPicked(g, base, F, 1..n, pick)
  BY <1>2, <1>3, PickedExists
<1>5. \A T \in SUBSET (1..n) : g[T] = IF T = {} THEN base ELSE F[Max(T)][g[T \ {Max(T)}]]
  BY <1>4, <1>a DEF IsPicked
<1> QED
  BY <1>5 DEF IsLoop

\* What a loop has after each of its steps, of what it has of each set of its steps.
LEMMA LoopUnfolds ==
  ASSUME NEW n \in Nat, NEW V, NEW base \in V, NEW F \in [1..n -> [V -> V]], NEW c,
         Unfolds(c, base, F, n, V)
  PROVE  \E acc \in [0..n -> V] : Steps(acc, base, F, n) /\ acc[n] = c[1..n]
<1>a. PICK acc : acc = [k \in 0..n |-> c[1..k]]
  OBVIOUS
<1>0. 1..0 = {}
  OBVIOUS
<1>1. acc[0] = base /\ acc[n] = c[1..n]
  BY <1>0, <1>a DEF Unfolds
<1>2. ASSUME NEW k \in 1..n, acc[k - 1] \in V
      PROVE  acc[k] = F[k][acc[k - 1]] /\ acc[k] \in V
  <2>1. k \in 0..n /\ k - 1 \in 0..n
    OBVIOUS
  <2>2. acc[k] = c[1..k] /\ acc[k - 1] = c[1..(k - 1)]
    BY <1>a, <2>1
  <2>a. PICK G : G = F[k]
    OBVIOUS
  <2>3. acc[k] = G[acc[k - 1]] /\ G \in [V -> V]
    BY <1>2, <2>2, <2>a DEF Unfolds
  <2> QED
    BY <1>2, <2>3, <2>a
<1>b. PICK Q : Q = {k \in 0..n : acc[k] \in V}
  OBVIOUS
<1>3. Q = 0..n
  <2>1. 0 \in Q
    BY <1>1, <1>b
  <2>2. \A k \in 1..n : k - 1 \in Q => k \in Q
    BY <1>2, <1>b
  <2>3. Q \in SUBSET (0..n)
    BY <1>b
  <2> QED
    BY <2>1, <2>2, <2>3, InductionUpTo
<1>4. acc \in [0..n -> V]
  BY <1>3, <1>a, <1>b
<1>5. \A k \in 1..n : acc[k] = F[k][acc[k - 1]]
  <2>1. \A k \in 1..n : k - 1 \in 0..n
    OBVIOUS
  <2> QED
    BY <1>2, <1>4, <2>1
<1> QED
  BY <1>1, <1>4, <1>5 DEF Steps
===============================================================================
