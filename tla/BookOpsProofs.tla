--------------------------- MODULE BookOpsProofs ---------------------------
(***************************************************************************)
(* Lemmas about the level lists of one side of the book.                   *)
(***************************************************************************)
EXTENDS BookOps, SequenceTheorems, FiniteSetTheorems, WellFoundedInduction, TLAPS

(***************************************************************************)
(* Sums over finite sets.  The folds that the modules add with are         *)
(* recursions; Total stands for the sum whatever the order of the summands,*)
(* and the lemmas below say how it changes when a summand comes, goes or   *)
(* changes.                                                                *)
(***************************************************************************)

\* A set of numbers has a least one.
LEMMA LeastNumber ==
  ASSUME NEW I, I \subseteq Nat, I # {}
  PROVE  \E i \in I : \A j \in I : i <= j
<1>1. PICK i \in I : \A j \in I : ~ (<<j, i>> \in OpToRel(<, Nat))
  BY NatLessThanWellFounded, WFMin
<1>2. ASSUME NEW j \in I PROVE i <= j
  <2>1. <<j, i>> \in Nat \X Nat /\ <<j, i>>[1] = j /\ <<j, i>>[2] = i
    OBVIOUS
  <2>2. ~ (<<j, i>> \in {ss \in Nat \X Nat : ss[1] < ss[2]})
    BY <1>1, Zenon DEF OpToRel
  <2>3. ~ (j < i)
    BY <2>1, <2>2
  <2> QED
    BY <2>3
<1> QED
  BY <1>2

\* Induction over the numbers, for a set of them.
LEMMA NumberInduction ==
  ASSUME NEW N, 0 \in N, \A n \in Nat : n \in N => n + 1 \in N
  PROVE  Nat \subseteq N
<1> SUFFICES ASSUME Nat \ N # {} PROVE FALSE
  OBVIOUS
<1>1. PICK n \in Nat \ N : \A m \in Nat \ N : n <= m
  <2> DEFINE T == Nat \ N
  <2>1. T \subseteq Nat /\ T # {}
    OBVIOUS
  <2> HIDE DEF T
  <2>2. \E i \in T : \A j \in T : i <= j
    BY <2>1, LeastNumber
  <2> QED
    BY <2>2 DEF T
<1>2. n - 1 \in Nat /\ n - 1 \in N
  BY <1>1
<1> QED
  BY <1>1, <1>2

\* Induction over the subsets of a finite set.
LEMMA SubsetInduction ==
  ASSUME NEW S, IsFiniteSet(S), NEW G, {} \in G,
         \A T \in SUBSET S : \A x \in S \ T : T \in G => T \union {x} \in G
  PROVE  S \in G
<1> DEFINE N == {n \in Nat : \A T \in SUBSET S : Cardinality(T) = n => T \in G}
<1>1. 0 \in N
  BY FS_EmptySet, FS_Subset
<1>2. \A n \in Nat : n \in N => n + 1 \in N
  <2> SUFFICES ASSUME NEW n \in N, NEW T \in SUBSET S, Cardinality(T) = n + 1
               PROVE  T \in G
    OBVIOUS
  <2>1. IsFiniteSet(T) /\ T # {}
    BY FS_Subset, FS_EmptySet
  <2>2. PICK x \in T : TRUE
    BY <2>1
  <2>3. Cardinality(T \ {x}) = n /\ T \ {x} \in SUBSET S
    <3>1. Cardinality(T \ {x}) = Cardinality(T) - 1
      BY <2>1, FS_RemoveElement, Zenon
    <3> QED
      BY <3>1
  <2>4. T \ {x} \in G /\ x \in S \ (T \ {x})
    BY <2>3
  <2>5. (T \ {x}) \union {x} \in G
    BY <2>3, <2>4
  <2>6. (T \ {x}) \union {x} = T
    OBVIOUS
  <2> QED
    BY <2>5, <2>6
<1> HIDE DEF N
<1>3. Cardinality(S) \in N
  BY <1>1, <1>2, NumberInduction, FS_CardinalityType
<1> QED
  BY <1>3 DEF N

\* g sums f over every subset of S.
Sums(g, f, S) ==
  /\ g \in [SUBSET S -> Int]
  /\ g[{}] = 0
  /\ \A T \in SUBSET S : \A x \in T : g[T] = f[x] + g[T \ {x}]

Total(f, S) == (CHOOSE g : Sums(g, f, S))[S]

LEMMA SumsUnique ==
  ASSUME NEW S, IsFiniteSet(S), NEW f, NEW g, Sums(g, f, S), NEW h, Sums(h, f, S)
  PROVE  g = h
<1> DEFINE G == {T \in SUBSET S : g[T] = h[T]}
<1>1. ASSUME NEW U \in SUBSET S PROVE U \in G
  <2>1. IsFiniteSet(U) /\ {} \in G
    BY FS_Subset DEF Sums
  <2>2. \A T \in SUBSET U : \A x \in U \ T : T \in G => T \union {x} \in G
    <3> SUFFICES ASSUME NEW T \in SUBSET U, NEW x \in U \ T, T \in G
                 PROVE  T \union {x} \in G
      OBVIOUS
    <3>1. T \union {x} \in SUBSET S /\ (T \union {x}) \ {x} = T
      OBVIOUS
    <3>2. g[T \union {x}] = f[x] + g[T] /\ h[T \union {x}] = f[x] + h[T]
      BY <3>1 DEF Sums
    <3> QED
      BY <3>1, <3>2
  <2> HIDE DEF G
  <2> QED
    BY <2>1, <2>2, SubsetInduction
<1>2. \A U \in SUBSET S : g[U] = h[U]
  BY <1>1
<1> QED
  BY <1>2 DEF Sums

\* The existence of the sums of f over the subsets of S: the set grows by one.
LEMMA SumsExist ==
  ASSUME NEW S, IsFiniteSet(S), NEW f, \A x \in S : f[x] \in Int
  PROVE  \E g : Sums(g, f, S)
<1> DEFINE G == {T \in SUBSET S : \E g : Sums(g, f, T)}
<1>1. {} \in G
  <2> DEFINE g == [T \in SUBSET {} |-> 0]
  <2>1. Sums(g, f, {})
    BY DEF Sums
  <2> QED
    BY <2>1
<1>2. \A T \in SUBSET S : \A x \in S \ T : T \in G => T \union {x} \in G
  <2> SUFFICES ASSUME NEW T \in SUBSET S, NEW x \in S \ T, NEW g, Sums(g, f, T)
               PROVE  \E h : Sums(h, f, T \union {x})
    OBVIOUS
  <2> DEFINE h == [U \in SUBSET (T \union {x}) |->
                     IF x \in U THEN f[x] + g[U \ {x}] ELSE g[U]]
  <2>1. g \in [SUBSET T -> Int] /\ g[{}] = 0 /\ f[x] \in Int
        /\ \A U \in SUBSET T : \A y \in U : g[U] = f[y] + g[U \ {y}]
    BY DEF Sums
  <2>2. h \in [SUBSET (T \union {x}) -> Int]
    <3> SUFFICES ASSUME NEW U \in SUBSET (T \union {x})
                 PROVE  (IF x \in U THEN f[x] + g[U \ {x}] ELSE g[U]) \in Int
      OBVIOUS
    <3>1. CASE x \in U
      <4>1. U \ {x} \in SUBSET T
        OBVIOUS
      <4> QED
        BY <2>1, <3>1, <4>1
    <3>2. CASE x \notin U
      <4>1. U \in SUBSET T
        BY <3>2
      <4> QED
        BY <2>1, <3>2, <4>1
    <3> QED
      BY <3>1, <3>2
  <2>3. h[{}] = 0
    BY <2>1
  <2>4. ASSUME NEW U \in SUBSET (T \union {x}), NEW y \in U
        PROVE  h[U] = f[y] + h[U \ {y}]
    <3>1. CASE y = x
      <4>1. U \ {x} \in SUBSET T /\ U \ {x} \in SUBSET (T \union {x}) /\ x \notin U \ {x}
        OBVIOUS
      <4>2. h[U] = f[x] + g[U \ {x}] /\ h[U \ {x}] = g[U \ {x}]
        BY <3>1, <4>1
      <4> QED
        BY <3>1, <4>2
    <3>2. CASE y # x /\ x \in U
      <4> DEFINE V == U \ {x}
                 W == U \ {y}
      <4>1. /\ V \in SUBSET T /\ y \in V /\ W \in SUBSET (T \union {x}) /\ x \in W
            /\ W \ {x} = V \ {y} /\ V \ {y} \in SUBSET T /\ y \in S
        BY <3>2
      <4>2. h[U] = f[x] + g[V] /\ h[W] = f[x] + g[V \ {y}]
        BY <3>2, <4>1
      <4>3. g[V] = f[y] + g[V \ {y}] /\ g[V \ {y}] \in Int /\ f[y] \in Int
        BY <2>1, <4>1
      <4> HIDE DEF V, h
      <4> QED
        BY <2>1, <4>2, <4>3
    <3>3. CASE x \notin U
      <4>1. U \in SUBSET T /\ U \ {y} \in SUBSET T /\ x \notin U \ {y}
        BY <3>3
      <4>2. h[U] = g[U] /\ h[U \ {y}] = g[U \ {y}]
        BY <3>3, <4>1
      <4> QED
        BY <2>1, <4>1, <4>2
    <3> QED
      BY <3>1, <3>2, <3>3
  <2> HIDE DEF h
  <2>5. Sums(h, f, T \union {x})
    BY <2>2, <2>3, <2>4 DEF Sums
  <2> QED
    BY <2>5
<1> HIDE DEF G
<1>3. S \in G
  BY <1>1, <1>2, SubsetInduction
<1> QED
  BY <1>3 DEF G

\* The sums over a set agree with those over a larger one.
LEMMA SumsRestricted ==
  ASSUME NEW S, NEW T \in SUBSET S, NEW f, NEW g, Sums(g, f, S)
  PROVE  Sums([U \in SUBSET T |-> g[U]], f, T)
<1> DEFINE h == [U \in SUBSET T |-> g[U]]
<1>1. /\ g \in [SUBSET S -> Int] /\ g[{}] = 0
      /\ \A U \in SUBSET S : \A x \in U : g[U] = f[x] + g[U \ {x}]
  BY DEF Sums
<1>2. \A U \in SUBSET T : U \in SUBSET S
  OBVIOUS
<1>3. h \in [SUBSET T -> Int] /\ h[{}] = 0
  BY <1>1, <1>2
<1>4. \A U \in SUBSET T : \A x \in U : h[U] = f[x] + h[U \ {x}]
  <2> SUFFICES ASSUME NEW U \in SUBSET T, NEW x \in U
               PROVE  h[U] = f[x] + h[U \ {x}]
    OBVIOUS
  <2>1. U \ {x} \in SUBSET T
    OBVIOUS
  <2> QED
    BY <1>1, <1>2, <2>1
<1> HIDE DEF h
<1>5. Sums(h, f, T)
  BY <1>3, <1>4 DEF Sums
<1> QED
  BY <1>5 DEF h

LEMMA TotalIsSum ==
  ASSUME NEW S, IsFiniteSet(S), NEW f, NEW g, Sums(g, f, S), NEW T \in SUBSET S
  PROVE  Total(f, T) = g[T]
<1> DEFINE h == [U \in SUBSET T |-> g[U]]
<1>1. Sums(h, f, T)
  BY SumsRestricted
<1> HIDE DEF h
<1>2. Sums(CHOOSE k : Sums(k, f, T), f, T)
  BY <1>1
<1>3. (CHOOSE k : Sums(k, f, T)) = h
  <2> DEFINE c == CHOOSE k : Sums(k, f, T)
  <2>1. Sums(c, f, T) /\ IsFiniteSet(T)
    BY <1>2, FS_Subset
  <2> HIDE DEF c
  <2>2. c = h
    BY <1>1, <2>1, SumsUnique
  <2> QED
    BY <2>2 DEF c
<1> QED
  BY <1>3 DEF Total, h

LEMMA TotalEmpty ==
  ASSUME NEW f
  PROVE  Total(f, {}) = 0
<1>1. PICK g : Sums(g, f, {})
  BY SumsExist, FS_EmptySet
<1>2. {} \in SUBSET {} /\ IsFiniteSet({})
  BY FS_EmptySet
<1>3. Total(f, {}) = g[{}]
  BY <1>1, <1>2, TotalIsSum
<1> QED
  BY <1>1, <1>3 DEF Sums

LEMMA TotalSplit ==
  ASSUME NEW S, IsFiniteSet(S), NEW f, \A x \in S : f[x] \in Int, NEW x \in S
  PROVE  /\ Total(f, S) \in Int /\ Total(f, S \ {x}) \in Int
         /\ Total(f, S) = f[x] + Total(f, S \ {x})
<1>1. PICK g : Sums(g, f, S)
  BY SumsExist
<1>2. Total(f, S) = g[S] /\ Total(f, S \ {x}) = g[S \ {x}]
  <2>1. S \in SUBSET S /\ S \ {x} \in SUBSET S
    OBVIOUS
  <2> QED
    BY <1>1, <2>1, TotalIsSum
<1> QED
  BY <1>1, <1>2 DEF Sums

LEMMA TotalType ==
  ASSUME NEW S, IsFiniteSet(S), NEW f, \A x \in S : f[x] \in Int
  PROVE  Total(f, S) \in Int
<1>1. CASE S = {}
  BY <1>1, TotalEmpty
<1>2. CASE S # {}
  BY <1>2, TotalSplit
<1> QED
  BY <1>1, <1>2

LEMMA TotalAdd ==
  ASSUME NEW S, IsFiniteSet(S), NEW f, NEW x, x \notin S,
         \A y \in S \union {x} : f[y] \in Int
  PROVE  Total(f, S \union {x}) = f[x] + Total(f, S)
<1>1. IsFiniteSet(S \union {x}) /\ (S \union {x}) \ {x} = S /\ x \in S \union {x}
  BY FS_AddElement
<1>2. Total(f, S \union {x}) = f[x] + Total(f, (S \union {x}) \ {x})
  BY <1>1, TotalSplit
<1> QED
  BY <1>1, <1>2

\* The sums of two sets that have nothing in common.
LEMMA TotalUnion ==
  ASSUME NEW S, IsFiniteSet(S), NEW T, IsFiniteSet(T), S \cap T = {},
         NEW f, \A x \in S \union T : f[x] \in Int
  PROVE  Total(f, S \union T) = Total(f, S) + Total(f, T)
<1> DEFINE G == {U \in SUBSET T : Total(f, S \union U) = Total(f, S) + Total(f, U)}
<1>1. {} \in G
  <2>1. S \union {} = S /\ Total(f, S) \in Int
    BY TotalType
  <2> QED
    BY <2>1, TotalEmpty
<1>2. \A U \in SUBSET T : \A x \in T \ U : U \in G => U \union {x} \in G
  <2> SUFFICES ASSUME NEW U \in SUBSET T, NEW x \in T \ U,
                      Total(f, S \union U) = Total(f, S) + Total(f, U)
               PROVE  Total(f, S \union (U \union {x}))
                        = Total(f, S) + Total(f, U \union {x})
    OBVIOUS
  <2> DEFINE V == S \union U
  <2>1. IsFiniteSet(U) /\ IsFiniteSet(V) /\ x \notin V /\ x \notin U
        /\ S \union (U \union {x}) = V \union {x}
        /\ (\A y \in V \union {x} : f[y] \in Int)
        /\ (\A y \in U \union {x} : f[y] \in Int) /\ (\A y \in S : f[y] \in Int)
        /\ f[x] \in Int
    <3>1. IsFiniteSet(U)
      BY FS_Subset
    <3> QED
      BY <3>1, FS_Union
  <2> HIDE DEF V
  <2>2. Total(f, V \union {x}) = f[x] + Total(f, V)
    BY <2>1, TotalAdd
  <2>3. Total(f, U \union {x}) = f[x] + Total(f, U)
    BY <2>1, TotalAdd
  <2>4. Total(f, S) \in Int /\ Total(f, U) \in Int
    BY <2>1, TotalType
  <2>5. Total(f, V) = Total(f, S) + Total(f, U)
    BY DEF V
  <2> DEFINE a == Total(f, S)
             b == Total(f, U)
             w == f[x]
  <2>6. Total(f, V \union {x}) = w + (a + b) /\ a \in Int /\ b \in Int /\ w \in Int
    BY <2>1, <2>2, <2>4, <2>5
  <2>7. Total(f, S \union (U \union {x})) = Total(f, V \union {x})
    BY <2>1
  <2>8. Total(f, U \union {x}) = w + b
    BY <2>3
  <2> HIDE DEF a, b, w
  <2>9. w + (a + b) = a + (w + b)
    BY <2>6
  <2> QED
    BY <2>6, <2>7, <2>8, <2>9 DEF a
<1> HIDE DEF G
<1>3. T \in G
  BY <1>1, <1>2, SubsetInduction
<1> QED
  BY <1>3 DEF G

LEMMA TotalSame ==
  ASSUME NEW S, IsFiniteSet(S), NEW f, NEW g, \A x \in S : f[x] \in Int,
         \A x \in S : f[x] = g[x]
  PROVE  Total(f, S) = Total(g, S)
<1>1. PICK h : Sums(h, f, S)
  BY SumsExist
<1>2. Sums(h, g, S)
  BY <1>1 DEF Sums
<1> QED
  BY <1>1, <1>2, TotalIsSum

\* h sums f by taking one element, whichever, from a set.
AddsUp(h, f, S) ==
  /\ h[{}] = 0
  /\ \A T \in SUBSET S : T # {} =>
       \E x \in T : h[T \ {x}] \in Int => h[T] = f[x] + h[T \ {x}]

\* Any function that sums its subsets one element at a time gives the total.
LEMMA TotalByRecursion ==
  ASSUME NEW S, IsFiniteSet(S), NEW f, \A x \in S : f[x] \in Int, NEW h,
         AddsUp(h, f, S)
  PROVE  \A T \in SUBSET S : h[T] = Total(f, T)
<1>1. PICK g : Sums(g, f, S)
  BY SumsExist
<1> DEFINE N == {n \in Nat : \A T \in SUBSET S : Cardinality(T) = n => h[T] = g[T]}
<1>2. 0 \in N
  BY <1>1, FS_EmptySet, FS_Subset DEF Sums, AddsUp
<1>3. \A n \in Nat : n \in N => n + 1 \in N
  <2> SUFFICES ASSUME NEW n \in N, NEW T \in SUBSET S, Cardinality(T) = n + 1
               PROVE  h[T] = g[T]
    OBVIOUS
  <2>1. IsFiniteSet(T) /\ T # {}
    BY FS_Subset, FS_EmptySet
  <2>2. PICK x \in T : h[T \ {x}] \in Int => h[T] = f[x] + h[T \ {x}]
    BY <2>1 DEF AddsUp
  <2>3. Cardinality(T \ {x}) = n /\ T \ {x} \in SUBSET S
    <3>1. Cardinality(T \ {x}) = Cardinality(T) - 1
      BY <2>1, FS_RemoveElement, Zenon
    <3> QED
      BY <3>1
  <2>4. h[T \ {x}] = g[T \ {x}] /\ g[T \ {x}] \in Int /\ g[T] = f[x] + g[T \ {x}]
    BY <1>1, <2>3 DEF Sums
  <2> QED
    BY <2>2, <2>4
<1> HIDE DEF N
<1>4. \A T \in SUBSET S : h[T] = g[T]
  <2> SUFFICES ASSUME NEW T \in SUBSET S PROVE h[T] = g[T]
    OBVIOUS
  <2>1. Cardinality(T) \in N
    BY <1>2, <1>3, NumberInduction, FS_CardinalityType, FS_Subset
  <2> QED
    BY <2>1 DEF N
<1> QED
  BY <1>1, <1>4, TotalIsSum

\* h sums f as FoldSet does, by the element CHOOSE takes.
SumsByChoice(h, f, S) ==
  h = [T \in SUBSET S |->
         IF T = {} THEN 0
         ELSE h[T \ {CHOOSE x \in T : TRUE}] + f[CHOOSE x \in T : TRUE]]

LEMMA SumByChoice ==
  ASSUME NEW S, IsFiniteSet(S), NEW f, \A x \in S : f[x] \in Int
  PROVE  /\ \E h : SumsByChoice(h, f, S)
         /\ \A h : SumsByChoice(h, f, S) => h[S] = Total(f, S)
<1>1. ASSUME NEW T \in SUBSET S, T # {}
      PROVE  (CHOOSE x \in T : TRUE) \in T
  BY <1>1
<1>2. \E h : SumsByChoice(h, f, S)
  <2> DEFINE g == [T \in SUBSET S |-> Total(f, T)]
             e(T) == CHOOSE x \in T : TRUE
  <2>1. ASSUME NEW T \in SUBSET S, T # {}
        PROVE  g[T] = g[T \ {e(T)}] + f[e(T)]
    <3>1. e(T) \in T /\ IsFiniteSet(T) /\ \A y \in T : f[y] \in Int
      BY <1>1, <2>1, FS_Subset
    <3> DEFINE x == e(T)
    <3>2. x \in T /\ T \ {x} \in SUBSET S
      BY <3>1
    <3> HIDE DEF e, x
    <3>3. /\ Total(f, T \ {x}) \in Int /\ f[x] \in Int
          /\ Total(f, T) = f[x] + Total(f, T \ {x})
      BY <3>1, <3>2, TotalSplit
    <3>4. g[T] = g[T \ {x}] + f[x]
      BY <3>2, <3>3
    <3> HIDE DEF g
    <3> QED
      BY <3>4 DEF x
  <2>2. g[{}] = 0 /\ g = [T \in SUBSET S |-> g[T]]
    BY TotalEmpty
  <2> HIDE DEF g
  <2>3. g = [T \in SUBSET S |-> IF T = {} THEN 0 ELSE g[T \ {e(T)}] + f[e(T)]]
    <3> HIDE DEF e
    <3> QED
      BY <2>1, <2>2
  <2> QED
    BY <2>3 DEF SumsByChoice
<1>3. ASSUME NEW h, SumsByChoice(h, f, S)
      PROVE  h[S] = Total(f, S)
  <2>1. h[{}] = 0
    BY <1>3 DEF SumsByChoice
  <2>2. ASSUME NEW T \in SUBSET S, T # {}
        PROVE  \E x \in T : h[T \ {x}] \in Int => h[T] = f[x] + h[T \ {x}]
    <3> DEFINE e == CHOOSE x \in T : TRUE
    <3>1. e \in T
      BY <2>2
    <3>2. h[T] = h[T \ {e}] + f[e]
      BY <1>3, <2>2 DEF SumsByChoice
    <3> HIDE DEF e
    <3>3. f[e] \in Int
      BY <3>1
    <3>4. h[T \ {e}] \in Int => h[T] = f[e] + h[T \ {e}]
      BY <3>2, <3>3
    <3> QED
      BY <3>1, <3>4
  <2>3. AddsUp(h, f, S) /\ S \in SUBSET S
    BY <2>1, <2>2 DEF AddsUp
  <2> QED
    BY <2>3, TotalByRecursion
<1> QED
  BY <1>2, <1>3

\* One summand changes.
LEMMA TotalChange ==
  ASSUME NEW S, IsFiniteSet(S), NEW f, NEW g, NEW x \in S,
         \A y \in S : f[y] \in Int /\ g[y] \in Int,
         \A y \in S \ {x} : g[y] = f[y]
  PROVE  Total(g, S) = Total(f, S) + g[x] - f[x]
<1>1. /\ Total(f, S \ {x}) \in Int
      /\ Total(f, S) = f[x] + Total(f, S \ {x})
  BY TotalSplit
<1>2. Total(g, S) = g[x] + Total(g, S \ {x})
  BY TotalSplit
<1>3. Total(f, S \ {x}) = Total(g, S \ {x})
  <2>1. IsFiniteSet(S \ {x})
    BY FS_Subset
  <2> QED
    BY <2>1, TotalSame
<1> QED
  BY <1>1, <1>2, <1>3

LEMMA TotalNonNegative ==
  ASSUME NEW S, IsFiniteSet(S), NEW f, \A x \in S : f[x] \in Nat
  PROVE  Total(f, S) \in Nat
<1> DEFINE G == {T \in SUBSET S : Total(f, T) \in Nat}
<1>1. {} \in G
  BY TotalEmpty
<1>2. \A T \in SUBSET S : \A x \in S \ T : T \in G => T \union {x} \in G
  <2> SUFFICES ASSUME NEW T \in SUBSET S, NEW x \in S \ T, Total(f, T) \in Nat
               PROVE  Total(f, T \union {x}) \in Nat
    OBVIOUS
  <2>1. IsFiniteSet(T) /\ \A y \in T \union {x} : f[y] \in Int
    BY FS_Subset
  <2>2. Total(f, T \union {x}) = f[x] + Total(f, T)
    BY <2>1, TotalAdd
  <2> QED
    BY <2>2
<1> HIDE DEF G
<1>3. S \in G
  BY <1>1, <1>2, SubsetInduction
<1> QED
  BY <1>3 DEF G

\* The same summands under other names.
LEMMA TotalRenamed ==
  ASSUME NEW S, IsFiniteSet(S), NEW f, NEW q, \A i \in S : f[q[i]] \in Int,
         \A i, j \in S : i # j => q[i] # q[j]
  PROVE  Total([i \in S |-> f[q[i]]], S) = Total(f, {q[i] : i \in S})
<1> DEFINE g == [i \in S |-> f[q[i]]]
           h == [T \in SUBSET S |-> Total(f, {q[i] : i \in T})]
<1>1. h[{}] = 0
  <2>1. {q[i] : i \in {}} = {} /\ {} \in SUBSET S
    OBVIOUS
  <2> QED
    BY <2>1, TotalEmpty
<1>2. \A T \in SUBSET S : T # {} =>
        \E x \in T : h[T \ {x}] \in Int => h[T] = g[x] + h[T \ {x}]
  <2> SUFFICES ASSUME NEW T \in SUBSET S, NEW x \in T
               PROVE  h[T] = g[x] + h[T \ {x}]
    OBVIOUS
  <2> DEFINE I == {q[i] : i \in T}
  <2>1. {q[i] : i \in T \ {x}} = I \ {q[x]} /\ q[x] \in I
        /\ \A y \in I : f[y] \in Int
    OBVIOUS
  <2>2. IsFiniteSet(I)
    <3> DEFINE p == [i \in T |-> q[i]]
    <3>1. p \in Surjection(T, I)
      BY DEF Surjection
    <3> HIDE DEF p, I
    <3> QED
      BY <3>1, FS_Subset, FS_Surjection
  <2>3. h[T] = Total(f, I) /\ h[T \ {x}] = Total(f, I \ {q[x]}) /\ g[x] = f[q[x]]
    <3>1. T \ {x} \in SUBSET S
      OBVIOUS
    <3> QED
      BY <2>1, <3>1
  <2> HIDE DEF I, h, g
  <2>4. Total(f, I) = f[q[x]] + Total(f, I \ {q[x]})
    BY <2>1, <2>2, TotalSplit
  <2> QED
    BY <2>3, <2>4
<1>3. \A i \in S : g[i] \in Int
  OBVIOUS
<1> HIDE DEF h, g
<1>4. AddsUp(h, g, S)
  BY <1>1, <1>2 DEF AddsUp
<1>6. \A T \in SUBSET S : h[T] = Total(g, T)
  BY <1>3, <1>4, TotalByRecursion
<1>5. h[S] = Total(f, {q[i] : i \in S})
  BY DEF h
<1> QED
  BY <1>5, <1>6 DEF g

LEMMA MaxProperties ==
  ASSUME NEW n \in Nat, NEW T \in SUBSET (1..n), T # {}
  PROVE  Max(T) \in T /\ \A i \in T : Max(T) >= i
<1> DEFINE I == {n - i : i \in T}
<1>0. \A i \in T : i \in Nat /\ i <= n
  OBVIOUS
<1>1. I \subseteq Nat /\ I # {}
  <2>1. \A i \in T : n - i \in Nat
    BY <1>0
  <2>2. PICK i \in T : TRUE
    OBVIOUS
  <2> QED
    BY <2>1, <2>2
<1>2. PICK k \in I : \A j \in I : k <= j
  <2> HIDE DEF I
  <2> QED
    BY <1>1, LeastNumber
<1>3. PICK m \in T : k = n - m
  OBVIOUS
<1>4. ASSUME NEW i \in T PROVE m >= i
  <2>1. k <= n - i
    BY <1>2
  <2> QED
    BY <1>0, <1>3, <2>1
<1> QED
  BY <1>4 DEF Max

\* The recursion that FoldLeft runs through: the last element first.
SumsFromTheLast(c, f, n) ==
  c = [T \in SUBSET (1..n) |->
         IF T = {} THEN 0 ELSE c[T \ {Max(T)}] + f[Max(T)]]

LEMMA SumsFromTheLastExist ==
  ASSUME NEW n \in Nat, NEW f, \A i \in 1..n : f[i] \in Int
  PROVE  \E c : SumsFromTheLast(c, f, n)
<1>0. IsFiniteSet(1..n)
  BY FS_Interval
<1>1. PICK g : Sums(g, f, 1..n)
  BY <1>0, SumsExist
<1>2. \A T \in SUBSET (1..n) : T # {} =>
        g[T] = g[T \ {Max(T)}] + f[Max(T)]
  <2> SUFFICES ASSUME NEW T \in SUBSET (1..n), T # {}
               PROVE  g[T] = g[T \ {Max(T)}] + f[Max(T)]
    OBVIOUS
  <2>1. Max(T) \in T
    BY MaxProperties
  <2>2. g[T] = f[Max(T)] + g[T \ {Max(T)}] /\ g[T \ {Max(T)}] \in Int
        /\ f[Max(T)] \in Int
    BY <1>1, <2>1 DEF Sums
  <2> QED
    BY <2>2
<1>3. g = [T \in SUBSET (1..n) |->
             IF T = {} THEN 0 ELSE g[T \ {Max(T)}] + f[Max(T)]]
  BY <1>1, <1>2 DEF Sums
<1> QED
  BY <1>3 DEF SumsFromTheLast

LEMMA SumFromTheLast ==
  ASSUME NEW n \in Nat, NEW f, \A i \in 1..n : f[i] \in Int,
         NEW c, SumsFromTheLast(c, f, n)
  PROVE  c[1..n] = Total(f, 1..n)
<1>1. c[{}] = 0
  BY DEF SumsFromTheLast
<1>2. \A T \in SUBSET (1..n) : T # {} =>
        \E x \in T : c[T \ {x}] \in Int => c[T] = f[x] + c[T \ {x}]
  <2> SUFFICES ASSUME NEW T \in SUBSET (1..n), T # {}
               PROVE  \E x \in T : c[T \ {x}] \in Int => c[T] = f[x] + c[T \ {x}]
    OBVIOUS
  <2>1. Max(T) \in T /\ f[Max(T)] \in Int
    BY MaxProperties
  <2>2. c[T] = c[T \ {Max(T)}] + f[Max(T)]
    BY DEF SumsFromTheLast
  <2> DEFINE m == Max(T)
  <2>3. c[T \ {m}] \in Int => c[T] = f[m] + c[T \ {m}]
    BY <2>1, <2>2
  <2> QED
    BY <2>1, <2>3
<1>3. AddsUp(c, f, 1..n)
  BY <1>1, <1>2 DEF AddsUp
<1>4. \A T \in SUBSET (1..n) : c[T] = Total(f, T)
  <2> DEFINE S == 1..n
  <2>1. IsFiniteSet(S) /\ AddsUp(c, f, S) /\ \A i \in S : f[i] \in Int
    BY <1>3, FS_Interval
  <2> HIDE DEF S
  <2>2. \A T \in SUBSET S : c[T] = Total(f, T)
    BY <2>1, TotalByRecursion
  <2> QED
    BY <2>2 DEF S
<1> QED
  BY <1>4

\* What the orders of a queue have left, added up along the queue.
QueueSum(orders, queue) ==
  FoldLeft(LAMBDA sum, id : sum + Remaining(orders[id]), 0, queue)

LEMMA QueueSumIsTotal ==
  ASSUME NEW S, NEW seq \in Seq(S), NEW orders,
         \A i \in 1..Len(seq) : Remaining(orders[seq[i]]) \in Int
  PROVE  QueueSum(orders, seq)
           = Total([i \in 1..Len(seq) |-> Remaining(orders[seq[i]])], 1..Len(seq))
<1> DEFINE n == Len(seq)
           f == [i \in 1..n |-> Remaining(orders[seq[i]])]
           P(c) == c = [T \in SUBSET (1..n) |->
                          IF T = {} THEN 0
                          ELSE c[T \ {Max(T)}] + Remaining(orders[seq[Max(T)]])]
<1>1. n \in Nat /\ DOMAIN seq = 1..n /\ \A i \in 1..n : f[i] \in Int
  OBVIOUS
<1>2. ASSUME NEW c PROVE P(c) <=> SumsFromTheLast(c, f, n)
  <2>1. \A T \in SUBSET (1..n) :
          T # {} => f[Max(T)] = Remaining(orders[seq[Max(T)]])
    BY <1>1, MaxProperties
  <2> HIDE DEF f, n
  <2> QED
    BY <2>1 DEF SumsFromTheLast
<1>3. QueueSum(orders, seq) = (CHOOSE c : P(c))[1..n]
  BY <1>1 DEF QueueSum, FoldLeft, MapThenFoldSet
<1> HIDE DEF P, f, n
<1>4. SumsFromTheLast(CHOOSE c : P(c), f, n)
  BY <1>1, <1>2, SumsFromTheLastExist
<1>5. (CHOOSE c : P(c))[1..n] = Total(f, 1..n)
  BY <1>1, <1>4, SumFromTheLast
<1> QED
  BY <1>3, <1>5 DEF f, n

(***************************************************************************)
(* Sequences.                                                              *)
(***************************************************************************)

\* A set of positions has a least one.
LEMMA MinProperties ==
  ASSUME NEW I, I \subseteq Nat, I # {}
  PROVE  Min(I) \in I /\ \A i \in I : Min(I) <= i
<1>1. \E i \in I : \A j \in I : i <= j
  BY LeastNumber
<1> QED
  BY <1>1 DEF Min

LEMMA InsertAtProperties ==
  ASSUME NEW S, NEW s \in Seq(S), NEW i \in 1..Len(s) + 1, NEW e \in S
  PROVE  /\ InsertAt(s, i, e) \in Seq(S)
         /\ Len(InsertAt(s, i, e)) = Len(s) + 1
         /\ \A j \in 1..Len(s) + 1 :
              InsertAt(s, i, e)[j] =
                IF j < i THEN s[j] ELSE IF j = i THEN e ELSE s[j - 1]
<1> DEFINE front == SubSeq(s, 1, i - 1)
           middle == front \o <<e>>
           back == SubSeq(s, i, Len(s))
<1>1. Len(s) \in Nat /\ i \in Int
  OBVIOUS
<1>2. /\ front \in Seq(S) /\ Len(front) = i - 1
      /\ \A j \in 1..i - 1 : front[j] = s[j]
  BY <1>1, SubSeqProperties, ElementOfSeq
<1>3. /\ back \in Seq(S) /\ Len(back) = Len(s) - i + 1
      /\ \A j \in 1..Len(s) - i + 1 : back[j] = s[i + j - 1]
  BY <1>1, SubSeqProperties, ElementOfSeq
<1> HIDE DEF front, back
<1>4. /\ middle \in Seq(S) /\ Len(middle) = i
      /\ \A j \in 1..i : middle[j] = IF j < i THEN s[j] ELSE e
  BY <1>1, <1>2, ConcatProperties
<1> HIDE DEF middle
<1>5. /\ middle \o back \in Seq(S)
      /\ Len(middle \o back) = Len(s) + 1
      /\ \A j \in 1..Len(s) + 1 :
           (middle \o back)[j] = IF j <= i THEN middle[j] ELSE back[j - i]
  <2>1. /\ middle \o back \in Seq(S)
        /\ Len(middle \o back) = Len(middle) + Len(back)
        /\ \A j \in 1..Len(middle) + Len(back) :
             (middle \o back)[j] = IF j <= Len(middle) THEN middle[j]
                                   ELSE back[j - Len(middle)]
    BY <1>3, <1>4, ConcatProperties
  <2>2. Len(middle) = i /\ Len(middle) + Len(back) = Len(s) + 1
    BY <1>1, <1>3, <1>4
  <2> QED
    BY <2>1, <2>2
<1>6. \A j \in 1..Len(s) + 1 : j > i => back[j - i] = s[j - 1]
  BY <1>1, <1>3
<1>7. InsertAt(s, i, e) = middle \o back
  BY DEF InsertAt, front, middle, back
<1> QED
  BY <1>1, <1>4, <1>5, <1>6, <1>7

LEMMA RemoveAtProperties ==
  ASSUME NEW S, NEW s \in Seq(S), NEW i \in 1..Len(s)
  PROVE  /\ RemoveAt(s, i) \in Seq(S)
         /\ Len(RemoveAt(s, i)) = Len(s) - 1
         /\ \A j \in 1..Len(s) - 1 :
              RemoveAt(s, i)[j] = IF j < i THEN s[j] ELSE s[j + 1]
<1> DEFINE front == SubSeq(s, 1, i - 1)
           back == SubSeq(s, i + 1, Len(s))
<1>1. Len(s) \in Nat /\ i \in Int
  OBVIOUS
<1>2. /\ front \in Seq(S) /\ Len(front) = i - 1
      /\ \A j \in 1..i - 1 : front[j] = s[j]
  BY <1>1, SubSeqProperties, ElementOfSeq
<1>3. /\ back \in Seq(S) /\ Len(back) = Len(s) - i
      /\ \A j \in 1..Len(s) - i : back[j] = s[i + j]
  BY <1>1, SubSeqProperties, ElementOfSeq
<1> HIDE DEF front, back
<1>4. /\ front \o back \in Seq(S)
      /\ Len(front \o back) = Len(s) - 1
      /\ \A j \in 1..Len(s) - 1 :
           (front \o back)[j] = IF j < i THEN front[j] ELSE back[j - (i - 1)]
  <2>1. /\ front \o back \in Seq(S)
        /\ Len(front \o back) = Len(front) + Len(back)
        /\ \A j \in 1..Len(front) + Len(back) :
             (front \o back)[j] = IF j <= Len(front) THEN front[j]
                                  ELSE back[j - Len(front)]
    BY <1>2, <1>3, ConcatProperties
  <2>2. Len(front) = i - 1 /\ Len(front) + Len(back) = Len(s) - 1
    BY <1>1, <1>2, <1>3
  <2>3. \A j \in Int : j < i <=> j <= i - 1
    BY <1>1
  <2> QED
    BY <2>1, <2>2, <2>3
<1>5. \A j \in 1..Len(s) - 1 : j >= i => back[j - (i - 1)] = s[j + 1]
  BY <1>1, <1>3
<1>6. RemoveAt(s, i) = front \o back
  BY DEF RemoveAt, front, back
<1> QED
  BY <1>1, <1>2, <1>4, <1>5, <1>6
(***************************************************************************)
(* One side of the book.                                                   *)
(***************************************************************************)
Ascending(queue) ==
  \A i, j \in 1..Len(queue) : i < j => queue[i] < queue[j]

Sorted(side, list) ==
  \A i, j \in 1..Len(list) : i < j => Behind(side, list[j].price, list[i].price)

\* A level list as it is between two calls.
GoodSide(side, list) ==
  /\ list \in Seq(PriceLevel)
  /\ Sorted(side, list)
  /\ \A l \in 1..Len(list) : list[l].orders # << >> /\ Ascending(list[l].orders)

InQueue(queue, id) == \E i \in 1..Len(queue) : queue[i] = id

\* The order is queued at this price.
Holds(list, price, id) ==
  \E l \in 1..Len(list) : list[l].price = price /\ InQueue(list[l].orders, id)

\* The list has a level at this price, which says it holds this much.
Shows(list, p, total) ==
  \E l \in 1..Len(list) : list[l].price = p /\ list[l].totalQuantity = total

LEMMA LevelType ==
  ASSUME NEW list \in Seq(PriceLevel), NEW l \in 1..Len(list)
  PROVE  /\ list[l] \in PriceLevel
         /\ list[l].price \in Nat
         /\ list[l].orders \in Seq(Nat \ {0})
         /\ list[l].totalQuantity \in Int
<1>1. list[l] \in PriceLevel
  BY ElementOfSeq
<1> QED
  BY <1>1 DEF PriceLevel

\* What the levels of a list show, added up along the list.
LevelsSum(list) == FoldLeft(LAMBDA sum, l : sum + l.totalQuantity, 0, list)

LEMMA LevelsSumIsTotal ==
  ASSUME NEW list \in Seq(PriceLevel)
  PROVE  LevelsSum(list)
           = Total([i \in 1..Len(list) |-> list[i].totalQuantity], 1..Len(list))
<1> DEFINE n == Len(list)
           f == [i \in 1..n |-> list[i].totalQuantity]
           P(c) == c = [T \in SUBSET (1..n) |->
                          IF T = {} THEN 0
                          ELSE c[T \ {Max(T)}] + list[Max(T)].totalQuantity]
<1>1. n \in Nat /\ DOMAIN list = 1..n /\ \A i \in 1..n : f[i] \in Int
  BY LevelType, LenProperties
<1>2. ASSUME NEW c PROVE P(c) <=> SumsFromTheLast(c, f, n)
  <2>1. \A T \in SUBSET (1..n) :
          T # {} => f[Max(T)] = list[Max(T)].totalQuantity
    BY <1>1, MaxProperties
  <2> HIDE DEF f, n
  <2> QED
    BY <2>1 DEF SumsFromTheLast
<1>3. LevelsSum(list) = (CHOOSE c : P(c))[1..n]
  BY <1>1 DEF LevelsSum, FoldLeft, MapThenFoldSet
<1> HIDE DEF P, f, n
<1>4. SumsFromTheLast(CHOOSE c : P(c), f, n)
  BY <1>1, <1>2, SumsFromTheLastExist
<1>5. (CHOOSE c : P(c))[1..n] = Total(f, 1..n)
  BY <1>1, <1>4, SumFromTheLast
<1> QED
  BY <1>3, <1>5 DEF f, n

\* The same of the first n levels, as the walk of canFillEntirely adds them.
LEMMA LevelsSumOfFirst ==
  ASSUME NEW list \in Seq(PriceLevel), NEW n \in 1..Len(list)
  PROVE  LevelsSum(SubSeq(list, 1, n))
           = Total([i \in 1..Len(list) |-> list[i].totalQuantity], 1..n)
<1> DEFINE first == SubSeq(list, 1, n)
           f == [i \in 1..Len(list) |-> list[i].totalQuantity]
           g == [i \in 1..Len(first) |-> first[i].totalQuantity]
<1>0. Len(list) \in Nat /\ n \in Nat /\ n <= Len(list)
  BY LenProperties
<1>1. first \in Seq(PriceLevel) /\ Len(first) = n
      /\ \A i \in 1..n : first[i] = list[i]
  <2>1. 1 \in 1..Len(list) + 1 /\ n \in 0..Len(list)
    BY <1>0
  <2>2. \A i \in 1..n : list[i] \in PriceLevel
    BY <1>0, ElementOfSeq
  <2> QED
    BY <1>0, <2>1, <2>2, SubSeqProperties
<1> HIDE DEF first
<1>2. LevelsSum(first) = Total(g, 1..n)
  BY <1>1, LevelsSumIsTotal
<1>3. \A i \in 1..n : g[i] \in Int /\ g[i] = f[i]
  <2>1. \A i \in 1..n : first[i].totalQuantity \in Int
    BY <1>1, LevelType
  <2> QED
    BY <1>0, <1>1, <2>1
<1>4. IsFiniteSet(1..n)
  BY <1>0, FS_Interval
<1> HIDE DEF f, g
<1>5. Total(g, 1..n) = Total(f, 1..n)
  <2> DEFINE I == 1..n
  <2>1. IsFiniteSet(I) /\ \A i \in I : g[i] \in Int /\ g[i] = f[i]
    BY <1>3, <1>4
  <2> HIDE DEF I
  <2>2. Total(g, I) = Total(f, I)
    BY <2>1, TotalSame
  <2> QED
    BY <2>2 DEF I
<1> QED
  BY <1>2, <1>5 DEF first, f

\* Behind is a strict total order on prices.
LEMMA BehindIsTotal ==
  ASSUME NEW side \in Side, NEW p \in Nat, NEW q \in Nat, NEW r \in Nat
  PROVE  /\ ~ Behind(side, p, p)
         /\ p # q => Behind(side, p, q) \/ Behind(side, q, p)
         /\ Behind(side, p, q) => ~ Behind(side, q, p)
         /\ Behind(side, p, q) /\ Behind(side, q, r) => Behind(side, p, r)
  BY DEF Behind, Side

\* No price has two levels.
LEMMA OneLevelPerPrice ==
  ASSUME NEW side \in Side, NEW list \in Seq(PriceLevel), Sorted(side, list),
         NEW l \in 1..Len(list), NEW m \in 1..Len(list),
         list[l].price = list[m].price
  PROVE  l = m
<1>1. ~ (l < m) /\ ~ (m < l)
  BY LevelType, BehindIsTotal DEF Sorted
<1> QED
  BY <1>1

\* The early exit of findLevelIndex never hides a level.
LEMMA FindLevelIndexProperties ==
  ASSUME NEW side \in Side, NEW list \in Seq(PriceLevel), Sorted(side, list),
         NEW price \in Nat
  PROVE  LET i == FindLevelIndex(list, price, side)
         IN  /\ i \in 0..Len(list)
             /\ i # 0 => list[i].price = price
             /\ i = 0 => \A l \in 1..Len(list) : list[l].price # price
<1> DEFINE I == {i \in 1..Len(list) : list[i].price = price
                                      \/ Behind(side, list[i].price, price)}
<1>1. I # {} => /\ Min(I) \in I /\ Min(I) \in 1..Len(list)
                /\ \A i \in I : Min(I) <= i
  <2>1. I \subseteq Nat /\ I \subseteq 1..Len(list)
    OBVIOUS
  <2> HIDE DEF I
  <2> QED
    BY <2>1, MinProperties
<1>2. FindLevelIndex(list, price, side) =
        IF I # {} /\ list[Min(I)].price = price THEN Min(I) ELSE 0
  <2> HIDE DEF I
  <2>1. SelectInSeq(list, LAMBDA l : l.price = price \/ Behind(side, l.price, price))
          = IF I # {} THEN Min(I) ELSE 0
    BY DEF SelectInSeq, I
  <2> QED
    BY <2>1 DEF FindLevelIndex
<1>3. ASSUME NEW l \in 1..Len(list), list[l].price = price
      PROVE  I # {} /\ list[Min(I)].price = price
  <2>1. l \in I /\ Min(I) <= l /\ Min(I) \in 1..Len(list)
    BY <1>1, <1>3
  <2>2. ~ Behind(side, list[Min(I)].price, price)
    BY <1>3, <2>1, LevelType, BehindIsTotal DEF Sorted
  <2> QED
    BY <1>1, <2>1, <2>2
<1> HIDE DEF I
<1> QED
  BY <1>1, <1>2, <1>3

\* Where findInsertIndex puts a new level, everything before it is better and
\* everything from there on is worse.
LEMMA FindInsertIndexProperties ==
  ASSUME NEW side \in Side, NEW list \in Seq(PriceLevel), Sorted(side, list),
         NEW price \in Nat, \A l \in 1..Len(list) : list[l].price # price
  PROVE  LET k == FindInsertIndex(list, price, side)
         IN  /\ k \in 1..Len(list) + 1
             /\ \A l \in 1..Len(list) :
                  IF l < k THEN Behind(side, price, list[l].price)
                  ELSE Behind(side, list[l].price, price)
<1> DEFINE I == {i \in 1..Len(list) : Behind(side, list[i].price, price)}
           k == FindInsertIndex(list, price, side)
<1>1. I # {} => /\ Min(I) \in I /\ Min(I) \in 1..Len(list)
                /\ \A i \in I : Min(I) <= i
  <2>1. I \subseteq Nat /\ I \subseteq 1..Len(list)
    OBVIOUS
  <2> HIDE DEF I
  <2> QED
    BY <2>1, MinProperties
<1>2. k = IF I # {} THEN Min(I) ELSE Len(list) + 1
  <2> HIDE DEF I
  <2>1. SelectInSeq(list, LAMBDA l : Behind(side, l.price, price))
          = IF I # {} THEN Min(I) ELSE 0
    BY DEF SelectInSeq, I
  <2> QED
    BY <1>1, <2>1 DEF FindInsertIndex
<1>3. k \in 1..Len(list) + 1
  BY <1>1, <1>2
<1>4. ASSUME NEW l \in 1..Len(list), l < k
      PROVE  Behind(side, price, list[l].price)
  <2>1. l \notin I
    BY <1>1, <1>2, <1>4
  <2> QED
    BY <2>1, LevelType, BehindIsTotal
<1>5. ASSUME NEW l \in 1..Len(list), ~ (l < k)
      PROVE  Behind(side, list[l].price, price)
  <2>1. I # {} /\ k \in I /\ k <= l
    BY <1>1, <1>2, <1>5
  <2>2. k = l \/ Behind(side, list[l].price, list[k].price)
    BY <2>1 DEF Sorted
  <2> QED
    BY <2>1, <2>2, LevelType, BehindIsTotal
<1> QED
  BY <1>3, <1>4, <1>5
(***************************************************************************)
(* The three ways in which a level list changes.                           *)
(***************************************************************************)

\* The list in which level l has another queue and another total.
WithQueue(list, l, queue, total) ==
  [list EXCEPT ![l] = [price |-> list[l].price, orders |-> queue,
                       totalQuantity |-> total]]

LEMMA QueueReplaced ==
  ASSUME NEW side \in Side, NEW list, GoodSide(side, list),
         NEW l \in 1..Len(list), NEW queue \in Seq(Nat \ {0}), queue # << >>,
         Ascending(queue), NEW total \in Int
  PROVE  /\ GoodSide(side, WithQueue(list, l, queue, total))
         /\ \A p, id : Holds(WithQueue(list, l, queue, total), p, id) <=>
              IF p = list[l].price THEN InQueue(queue, id) ELSE Holds(list, p, id)
         /\ \A p, t : Shows(WithQueue(list, l, queue, total), p, t) =>
              IF p = list[l].price THEN t = total ELSE Shows(list, p, t)
<1> DEFINE new == WithQueue(list, l, queue, total)
           level == [price |-> list[l].price, orders |-> queue,
                     totalQuantity |-> total]
<1>1. list \in Seq(PriceLevel) /\ level \in PriceLevel
  BY LevelType DEF GoodSide, PriceLevel
<1>2. /\ new \in Seq(PriceLevel)
      /\ Len(new) = Len(list)
      /\ \A m \in 1..Len(list) : new[m] = IF m = l THEN level ELSE list[m]
  BY <1>1, ExceptSeq DEF WithQueue
<1> HIDE DEF new
<1>3. \A m \in 1..Len(list) : new[m].price = list[m].price
  BY <1>2
<1>4. GoodSide(side, new)
  BY <1>2, <1>3, SMTT(30) DEF GoodSide, Sorted
<1>5. ASSUME NEW p, NEW id
      PROVE  Holds(new, p, id) <=>
               IF p = list[l].price THEN InQueue(queue, id) ELSE Holds(list, p, id)
  <2>1. CASE p = list[l].price
    <3>1. \A m \in 1..Len(list) : list[m].price = p => m = l
      BY <1>1, <2>1, OneLevelPerPrice DEF GoodSide
    <3> QED
      BY <1>2, <1>3, <2>1, <3>1 DEF Holds
  <2>2. CASE p # list[l].price
    BY <1>2, <1>3, <2>2 DEF Holds
  <2> QED
    BY <2>1, <2>2
<1>6. ASSUME NEW p, NEW t, Shows(new, p, t)
      PROVE  IF p = list[l].price THEN t = total ELSE Shows(list, p, t)
  <2>1. PICK m \in 1..Len(list) : new[m].price = p /\ new[m].totalQuantity = t
    BY <1>2, <1>6 DEF Shows
  <2>2. m # l => p # list[l].price
    BY <1>1, <1>3, <2>1, OneLevelPerPrice DEF GoodSide
  <2> QED
    BY <1>2, <2>1, <2>2 DEF Shows
<1> QED
  BY <1>4, <1>5, <1>6 DEF new

\* A level leaves the list.
LEMMA LevelRemoved ==
  ASSUME NEW side \in Side, NEW list, GoodSide(side, list), NEW l \in 1..Len(list)
  PROVE  /\ GoodSide(side, RemoveAt(list, l))
         /\ \A p, id : Holds(RemoveAt(list, l), p, id) <=>
                         p # list[l].price /\ Holds(list, p, id)
         /\ \A p, t : Shows(RemoveAt(list, l), p, t) =>
                         p # list[l].price /\ Shows(list, p, t)
<1> DEFINE new == RemoveAt(list, l)
<1>1. list \in Seq(PriceLevel)
  BY DEF GoodSide
<1>2. /\ new \in Seq(PriceLevel)
      /\ Len(new) = Len(list) - 1
      /\ \A m \in 1..Len(list) - 1 :
           new[m] = IF m < l THEN list[m] ELSE list[m + 1]
  BY <1>1, RemoveAtProperties
<1> HIDE DEF new
<1>3. Len(list) \in Nat /\ l \in Nat
  BY <1>1
<1> DEFINE Old(m) == IF m < l THEN m ELSE m + 1
<1>4. \A m \in 1..Len(new) : /\ Old(m) \in 1..Len(list)
                              /\ Old(m) # l
                              /\ new[m] = list[Old(m)]
  BY <1>2, <1>3
<1>5. \A m, n \in 1..Len(new) : m < n => Old(m) < Old(n)
  BY <1>2, <1>3
<1>6. \A n \in 1..Len(list) : n # l => \E m \in 1..Len(new) : Old(m) = n
  <2> SUFFICES ASSUME NEW n \in 1..Len(list), n # l
               PROVE  \E m \in 1..Len(new) : Old(m) = n
    OBVIOUS
  <2>1. CASE n < l
    <3>1. n \in 1..Len(new) /\ Old(n) = n
      BY <1>2, <1>3, <2>1
    <3> QED
      BY <3>1
  <2>2. CASE n > l
    <3>1. n - 1 \in 1..Len(new) /\ Old(n - 1) = n
      BY <1>2, <1>3, <2>2
    <3> QED
      BY <3>1
  <2> QED
    BY <1>3, <2>1, <2>2
<1> HIDE DEF Old
<1>7. GoodSide(side, new)
  <2>1. Sorted(side, new)
    BY <1>4, <1>5 DEF GoodSide, Sorted
  <2> QED
    BY <1>2, <1>4, <2>1 DEF GoodSide
<1>8. ASSUME NEW p, NEW id
      PROVE  Holds(new, p, id) <=> p # list[l].price /\ Holds(list, p, id)
  <2>1. ASSUME Holds(new, p, id)
        PROVE  p # list[l].price /\ Holds(list, p, id)
    BY <1>1, <1>4, <2>1, OneLevelPerPrice DEF Holds, GoodSide
  <2>2. ASSUME p # list[l].price, Holds(list, p, id)
        PROVE  Holds(new, p, id)
    BY <1>4, <1>6, <2>2 DEF Holds
  <2> QED
    BY <2>1, <2>2
<1>9. ASSUME NEW p, NEW t, Shows(new, p, t)
      PROVE  p # list[l].price /\ Shows(list, p, t)
  BY <1>1, <1>4, <1>9, OneLevelPerPrice DEF Shows, GoodSide
<1> QED
  BY <1>7, <1>8, <1>9 DEF new

\* A level of a new price opens where findInsertIndex says.
LEMMA LevelOpened ==
  ASSUME NEW side \in Side, NEW list, GoodSide(side, list),
         NEW level \in PriceLevel, level.orders # << >>, Ascending(level.orders),
         \A l \in 1..Len(list) : list[l].price # level.price
  PROVE  LET new == InsertAt(list, FindInsertIndex(list, level.price, side), level)
         IN  /\ GoodSide(side, new)
             /\ \A p, id : Holds(new, p, id) <=>
                  \/ Holds(list, p, id)
                  \/ p = level.price /\ InQueue(level.orders, id)
             /\ \A p, t : Shows(new, p, t) =>
                  \/ Shows(list, p, t)
                  \/ p = level.price /\ t = level.totalQuantity
<1> DEFINE k == FindInsertIndex(list, level.price, side)
           new == InsertAt(list, k, level)
<1>1. list \in Seq(PriceLevel) /\ level.price \in Nat /\ Len(list) \in Nat
  BY DEF GoodSide, PriceLevel
<1>2. /\ k \in 1..Len(list) + 1
      /\ \A l \in 1..Len(list) :
           IF l < k THEN Behind(side, level.price, list[l].price)
           ELSE Behind(side, list[l].price, level.price)
  BY <1>1, FindInsertIndexProperties DEF GoodSide
<1> HIDE DEF k
<1>3. /\ new \in Seq(PriceLevel)
      /\ Len(new) = Len(list) + 1
      /\ \A m \in 1..Len(list) + 1 :
           new[m] = IF m < k THEN list[m] ELSE IF m = k THEN level ELSE list[m - 1]
  <2>1. k \in 1..Len(list) + 1
    BY <1>2
  <2> QED
    BY <1>1, <2>1, InsertAtProperties
<1> HIDE DEF new
<1>4. Sorted(side, new)
  <2> SUFFICES ASSUME NEW i \in 1..Len(list) + 1, NEW j \in 1..Len(list) + 1, i < j
               PROVE  Behind(side, new[j].price, new[i].price)
    BY <1>3 DEF Sorted
  <2>1. CASE j < k
    <3>1. /\ i \in 1..Len(list) /\ j \in 1..Len(list) /\ i < k
          /\ new[i] = list[i] /\ new[j] = list[j]
      BY <1>1, <1>2, <1>3, <2>1
    <3> QED
      BY <3>1 DEF GoodSide, Sorted
  <2>2. CASE j = k
    BY <1>1, <1>2, <1>3, <2>2
  <2>3. CASE k < j /\ i < k
    <3>1. /\ i \in 1..Len(list) /\ j - 1 \in 1..Len(list) /\ i < k /\ ~ (j - 1 < k)
          /\ new[i] = list[i] /\ new[j] = list[j - 1]
      BY <1>1, <1>2, <1>3, <2>3
    <3>2. /\ Behind(side, level.price, list[i].price)
          /\ Behind(side, list[j - 1].price, level.price)
      BY <1>2, <3>1
    <3> QED
      BY <1>1, <3>1, <3>2, LevelType, BehindIsTotal
  <2>4. CASE k < j /\ i = k
    <3>1. j - 1 \in 1..Len(list) /\ ~ (j - 1 < k)
      BY <1>1, <1>2, <2>4
    <3> QED
      BY <1>2, <1>3, <2>4, <3>1
  <2>5. CASE k < j /\ k < i
    <3>1. /\ i - 1 \in 1..Len(list) /\ j - 1 \in 1..Len(list) /\ i - 1 < j - 1
          /\ new[i] = list[i - 1] /\ new[j] = list[j - 1]
      BY <1>1, <1>2, <1>3, <2>5
    <3> QED
      BY <3>1 DEF GoodSide, Sorted
  <2> QED
    BY <1>1, <1>2, <2>1, <2>2, <2>3, <2>4, <2>5
<1>5. \A m \in 1..Len(list) + 1 :
        \/ new[m] = level
        \/ \E l \in 1..Len(list) : new[m] = list[l]
  <2> TAKE m \in 1..Len(list) + 1
  <2>1. CASE m < k
    BY <1>1, <1>2, <1>3, <2>1
  <2>2. CASE m = k
    BY <1>3, <2>2
  <2>3. CASE m > k
    BY <1>1, <1>2, <1>3, <2>3
  <2> QED
    BY <1>1, <1>2, <2>1, <2>2, <2>3
<1>6. GoodSide(side, new)
  BY <1>3, <1>4, <1>5 DEF GoodSide
<1>7. /\ new[k] = level /\ k \in 1..Len(new)
      /\ \A l \in 1..Len(list) : \E m \in 1..Len(new) : new[m] = list[l]
  <2>1. ASSUME NEW l \in 1..Len(list)
        PROVE  \E m \in 1..Len(new) : new[m] = list[l]
    <3>1. CASE l < k
      BY <1>1, <1>2, <1>3, <3>1
    <3>2. CASE ~ (l < k)
      <4>1. l + 1 \in 1..Len(new) /\ new[l + 1] = list[l]
        BY <1>1, <1>2, <1>3, <3>2
      <4> QED
        BY <4>1
    <3> QED
      BY <3>1, <3>2
  <2> QED
    BY <1>1, <1>2, <1>3, <2>1
<1>8. ASSUME NEW p, NEW id
      PROVE  Holds(new, p, id) <=> \/ Holds(list, p, id)
                                   \/ p = level.price /\ InQueue(level.orders, id)
  <2>1. ASSUME Holds(new, p, id)
        PROVE  \/ Holds(list, p, id)
               \/ p = level.price /\ InQueue(level.orders, id)
    BY <1>3, <1>5, <2>1 DEF Holds
  <2>2. ASSUME Holds(list, p, id) PROVE Holds(new, p, id)
    BY <1>7, <2>2 DEF Holds
  <2>3. ASSUME p = level.price, InQueue(level.orders, id) PROVE Holds(new, p, id)
    BY <1>7, <2>3 DEF Holds
  <2> QED
    BY <2>1, <2>2, <2>3
<1>9. new = InsertAt(list, FindInsertIndex(list, level.price, side), level)
  BY DEF new, k
<1>10. ASSUME NEW p, NEW t, Shows(new, p, t)
       PROVE  Shows(list, p, t) \/ (p = level.price /\ t = level.totalQuantity)
  BY <1>3, <1>5, <1>10 DEF Shows
<1> QED
  BY <1>6, <1>8, <1>9, <1>10, Zenon

(***************************************************************************)
(* Queues.                                                                 *)
(***************************************************************************)

\* A newer order joins the tail.
LEMMA QueueAppended ==
  ASSUME NEW queue \in Seq(Nat \ {0}), Ascending(queue), NEW id \in Nat \ {0},
         \A x : InQueue(queue, x) => x < id
  PROVE  /\ Append(queue, id) \in Seq(Nat \ {0})
         /\ Append(queue, id) # << >>
         /\ Ascending(Append(queue, id))
         /\ \A x : InQueue(Append(queue, id), x) <=> InQueue(queue, x) \/ x = id
<1> DEFINE new == Append(queue, id)
<1>1. /\ new \in Seq(Nat \ {0})
      /\ new # << >>
      /\ Len(new) = Len(queue) + 1
      /\ \A i \in 1..Len(queue) : new[i] = queue[i]
      /\ new[Len(queue) + 1] = id
  BY AppendProperties
<1>2. Len(queue) \in Nat
  OBVIOUS
<1> HIDE DEF new
<1>3. Ascending(new)
  <2> SUFFICES ASSUME NEW i \in 1..Len(queue) + 1, NEW j \in 1..Len(queue) + 1, i < j
               PROVE  new[i] < new[j]
    BY <1>1 DEF Ascending
  <2>1. i \in 1..Len(queue) /\ new[i] = queue[i]
    BY <1>1, <1>2, SMTT(30)
  <2>2. CASE j \in 1..Len(queue)
    BY <1>1, <2>1, <2>2 DEF Ascending
  <2>3. CASE j = Len(queue) + 1
    BY <1>1, <2>1, <2>3 DEF InQueue
  <2> QED
    BY <1>2, <2>2, <2>3
<1>4. ASSUME NEW x PROVE InQueue(new, x) <=> InQueue(queue, x) \/ x = id
  <2>1. \A i \in 1..Len(new) : i \in 1..Len(queue) \/ i = Len(queue) + 1
    BY <1>1, <1>2
  <2>2. /\ Len(queue) + 1 \in 1..Len(new)
        /\ \A i \in 1..Len(queue) : i \in 1..Len(new)
    BY <1>1, <1>2
  <2>3. ASSUME InQueue(new, x) PROVE InQueue(queue, x) \/ x = id
    BY <1>1, <2>1, <2>3 DEF InQueue
  <2>4. ASSUME InQueue(queue, x) PROVE InQueue(new, x)
    BY <1>1, <2>2, <2>4 DEF InQueue
  <2>5. ASSUME x = id PROVE InQueue(new, x)
    BY <1>1, <2>2, <2>5 DEF InQueue
  <2> QED
    BY <2>3, <2>4, <2>5
<1> QED
  BY <1>1, <1>3, <1>4 DEF new

\* The head, the oldest, leaves.
LEMMA HeadTaken ==
  ASSUME NEW queue \in Seq(Nat \ {0}), Ascending(queue), queue # << >>
  PROVE  /\ Tail(queue) \in Seq(Nat \ {0})
         /\ Ascending(Tail(queue))
         /\ Head(queue) \in Nat \ {0}
         /\ InQueue(queue, Head(queue))
         /\ \A x : InQueue(queue, x) => Head(queue) <= x
         /\ \A x : InQueue(Tail(queue), x) <=> InQueue(queue, x) /\ x # Head(queue)
<1> DEFINE new == Tail(queue)
<1>1. /\ Len(queue) \in Nat /\ Len(queue) >= 1
      /\ Head(queue) = queue[1]
      /\ \A i \in 1..Len(queue) : queue[i] \in Nat \ {0}
  BY ElementOfSeq, EmptySeq
<1>2. /\ new \in Seq(Nat \ {0})
      /\ Len(new) = Len(queue) - 1
      /\ \A i \in 1..Len(new) : new[i] = queue[i + 1]
  BY HeadTailProperties
<1> HIDE DEF new
<1>3. Ascending(new)
  <2> SUFFICES ASSUME NEW i \in 1..Len(new), NEW j \in 1..Len(new), i < j
               PROVE  new[i] < new[j]
    BY DEF Ascending
  <2>1. /\ i + 1 \in 1..Len(queue) /\ j + 1 \in 1..Len(queue) /\ i + 1 < j + 1
        /\ new[i] = queue[i + 1] /\ new[j] = queue[j + 1]
    BY <1>1, <1>2, SMTT(30)
  <2> QED
    BY <2>1 DEF Ascending
<1>4. \A x : InQueue(queue, x) => Head(queue) <= x
  BY <1>1 DEF Ascending, InQueue
<1>5. ASSUME NEW x, InQueue(new, x) PROVE InQueue(queue, x) /\ x # Head(queue)
  BY <1>1, <1>2, <1>5, SMTT(30) DEF Ascending, InQueue
<1>6. ASSUME NEW x, InQueue(queue, x), x # Head(queue) PROVE InQueue(new, x)
  <2>1. PICK i \in 1..Len(queue) : queue[i] = x /\ i # 1
    BY <1>1, <1>6 DEF InQueue
  <2>2. i - 1 \in 1..Len(new) /\ new[i - 1] = x
    BY <1>1, <1>2, <2>1, SMTT(30)
  <2> QED
    BY <2>2 DEF InQueue
<1>7. InQueue(queue, Head(queue))
  BY <1>1 DEF InQueue
<1> QED
  BY <1>1, <1>2, <1>3, <1>4, <1>5, <1>6, <1>7 DEF new

\* An order leaves from wherever it stands.
LEMMA QueueLeft ==
  ASSUME NEW queue \in Seq(Nat \ {0}), Ascending(queue), NEW id, InQueue(queue, id)
  PROVE  /\ RemoveFirst(queue, id) \in Seq(Nat \ {0})
         /\ Ascending(RemoveFirst(queue, id))
         /\ \A x : InQueue(RemoveFirst(queue, id), x) <=> InQueue(queue, x) /\ x # id
<1> DEFINE I == {i \in 1..Len(queue) : queue[i] = id}
           l == SelectInSeq(queue, LAMBDA v : v = id)
           new == RemoveAt(queue, l)
<1>1. l \in 1..Len(queue) /\ queue[l] = id
  <2>1. I # {} /\ I \subseteq Nat
    BY DEF InQueue
  <2>2. Min(I) \in I
    <3> HIDE DEF I
    <3> QED
      BY <2>1, MinProperties
  <2>3. l = Min(I)
    <3> HIDE DEF I
    <3>1. SelectInSeq(queue, LAMBDA v : v = id) = IF I # {} THEN Min(I) ELSE 0
      BY DEF SelectInSeq, I
    <3> QED
      BY <2>1, <3>1
  <2> HIDE DEF l
  <2> QED
    BY <2>2, <2>3
<1>2. RemoveFirst(queue, id) = new
  BY <1>1 DEF RemoveFirst
<1> HIDE DEF l
<1>3. /\ Len(queue) \in Nat /\ l \in Nat
      /\ \A i \in 1..Len(queue) : queue[i] \in Nat \ {0}
  BY <1>1, ElementOfSeq
<1>4. /\ new \in Seq(Nat \ {0})
      /\ Len(new) = Len(queue) - 1
      /\ \A i \in 1..Len(queue) - 1 :
           new[i] = IF i < l THEN queue[i] ELSE queue[i + 1]
  BY <1>1, RemoveAtProperties
<1> HIDE DEF new
<1> DEFINE Old(i) == IF i < l THEN i ELSE i + 1
<1>5. Ascending(new)
  <2> SUFFICES ASSUME NEW i \in 1..Len(new), NEW j \in 1..Len(new), i < j
               PROVE  new[i] < new[j]
    BY DEF Ascending
  <2>1. \A m \in 1..Len(new) : Old(m) \in 1..Len(queue) /\ new[m] = queue[Old(m)]
    <3> TAKE m \in 1..Len(new)
    <3> HIDE DEF I
    <3>1. m \in 1..Len(queue) - 1
      BY <1>4
    <3>2. CASE m < l
      BY <1>3, <1>4, <3>1, <3>2, SMTT(30)
    <3>3. CASE ~ (m < l)
      BY <1>3, <1>4, <3>1, <3>3, SMTT(30)
    <3> QED
      BY <3>2, <3>3
  <2>2. Old(i) < Old(j)
    <3> HIDE DEF I
    <3> QED
      BY <1>3, <1>4, SMTT(30)
  <2> HIDE DEF Old
  <2> QED
    BY <2>1, <2>2 DEF Ascending
<1>6. ASSUME NEW x, InQueue(new, x) PROVE InQueue(queue, x) /\ x # id
  <2>1. PICK i \in 1..Len(queue) - 1 : new[i] = x
    BY <1>4, <1>6 DEF InQueue
  <2>2. CASE i < l
    <3>1. i \in 1..Len(queue) /\ queue[i] = x /\ queue[i] < queue[l]
      BY <1>1, <1>3, <1>4, <2>1, <2>2, SMTT(30) DEF Ascending
    <3> QED
      BY <1>1, <1>3, <3>1 DEF InQueue
  <2>3. CASE ~ (i < l)
    <3>1. i + 1 \in 1..Len(queue) /\ queue[i + 1] = x /\ l < i + 1
      BY <1>1, <1>3, <1>4, <2>1, <2>3, SMTT(30)
    <3>2. queue[l] < queue[i + 1]
      BY <1>1, <3>1 DEF Ascending
    <3> QED
      BY <1>1, <1>3, <3>1, <3>2 DEF InQueue
  <2> QED
    BY <2>2, <2>3
<1>7. ASSUME NEW x, InQueue(queue, x), x # id PROVE InQueue(new, x)
  <2>1. PICK i \in 1..Len(queue) : queue[i] = x /\ i # l
    BY <1>1, <1>7 DEF InQueue
  <2>2. CASE i < l
    <3>1. i \in 1..Len(new) /\ new[i] = x
      BY <1>1, <1>3, <1>4, <2>1, <2>2, SMTT(30)
    <3> QED
      BY <3>1 DEF InQueue
  <2>3. CASE i > l
    <3>1. i - 1 \in 1..Len(new) /\ new[i - 1] = x
      BY <1>1, <1>3, <1>4, <2>1, <2>3, SMTT(30)
    <3> QED
      BY <3>1 DEF InQueue
  <2> QED
    BY <1>3, <2>1, <2>2, <2>3
<1> QED
  BY <1>2, <1>4, <1>5, <1>6, <1>7

(***************************************************************************)
(* The operations of the book.                                             *)
(***************************************************************************)

\* insertOrder keeps the side in order and adds exactly the one order.
LEMMA InsertOrderEffect ==
  ASSUME NEW side \in Side, NEW list, GoodSide(side, list),
         NEW o \in Order, o.side = side, NEW id \in Nat \ {0},
         \A p, x : Holds(list, p, x) => x < id
  PROVE  LET new == InsertOrder(list, id, o)
         IN  /\ GoodSide(side, new)
             /\ \A p, x : Holds(new, p, x) <=>
                  \/ Holds(list, p, x)
                  \/ p = o.price /\ x = id
             /\ \A p, t : Shows(new, p, t) =>
                  IF p = o.price
                  THEN \/ Shows(list, p, t - Remaining(o))
                       \/ t = Remaining(o) /\ \A x : ~ Holds(list, p, x)
                  ELSE Shows(list, p, t)
<1> DEFINE k == FindLevelIndex(list, o.price, o.side)
           new == InsertOrder(list, id, o)
<1>1. list \in Seq(PriceLevel) /\ o.price \in Nat /\ Remaining(o) \in Int
  BY DEF GoodSide, Order, Remaining
<1>2. /\ k \in 0..Len(list)
      /\ k # 0 => list[k].price = o.price
      /\ k = 0 => \A l \in 1..Len(list) : list[l].price # o.price
  BY <1>1, FindLevelIndexProperties, ZenonT(40) DEF GoodSide
<1> HIDE DEF k
<1>3. CASE k # 0
  <2> DEFINE queue == list[k].orders
             total == list[k].totalQuantity + Remaining(o)
  <2>1. k \in 1..Len(list)
    BY <1>1, <1>2, <1>3
  <2>2. /\ list[k] \in PriceLevel /\ queue \in Seq(Nat \ {0}) /\ total \in Int
        /\ Ascending(queue)
    BY <1>1, <2>1, LevelType DEF GoodSide
  <2>3. \A x : InQueue(queue, x) => Holds(list, o.price, x)
    BY <1>2, <1>3, <2>1 DEF Holds
  <2>4. /\ Append(queue, id) \in Seq(Nat \ {0})
        /\ Append(queue, id) # << >>
        /\ Ascending(Append(queue, id))
        /\ \A x : InQueue(Append(queue, id), x) <=> InQueue(queue, x) \/ x = id
    <3>1. \A x : InQueue(queue, x) => x < id
      BY <2>3
    <3> HIDE DEF queue
    <3> QED
      BY <2>2, <3>1, QueueAppended
  <2>5. new = WithQueue(list, k, Append(queue, id), total)
    <3>1. new = [list EXCEPT ![k].orders = Append(@, id),
                             ![k].totalQuantity = @ + Remaining(o)]
      BY <1>3 DEF InsertOrder, k
    <3> QED
      BY <1>1, <2>1, <2>2, <3>1 DEF PriceLevel, WithQueue
  <2> HIDE DEF new, total
  <2>6. /\ GoodSide(side, new)
        /\ \A p, x : Holds(new, p, x) <=>
             IF p = list[k].price THEN InQueue(Append(queue, id), x)
             ELSE Holds(list, p, x)
        /\ \A p, t : Shows(new, p, t) =>
             IF p = list[k].price THEN t = total ELSE Shows(list, p, t)
    <3> DEFINE longer == Append(queue, id)
    <3>1. longer \in Seq(Nat \ {0}) /\ longer # << >> /\ Ascending(longer)
          /\ total \in Int /\ new = WithQueue(list, k, longer, total)
      BY <2>2, <2>4, <2>5
    <3> HIDE DEF longer
    <3> QED
      BY <2>1, <3>1, QueueReplaced, ZenonT(40) DEF longer
  <2>7. \A x : Holds(list, o.price, x) => InQueue(queue, x)
    BY <1>1, <1>2, <1>3, <2>1, OneLevelPerPrice DEF Holds, GoodSide
  <2> HIDE DEF queue
  <2>8. \A p, x : Holds(new, p, x) <=>
          \/ Holds(list, p, x)
          \/ p = o.price /\ x = id
    BY <1>2, <1>3, <2>3, <2>4, <2>6, <2>7
  <2>9. Shows(list, o.price, total - Remaining(o))
    <3>1. list[k].totalQuantity \in Int
      BY <1>1, <2>1, LevelType
    <3>2. total - Remaining(o) = list[k].totalQuantity
      BY <1>1, <3>1 DEF total
    <3> QED
      BY <1>2, <1>3, <2>1, <3>2 DEF Shows
  <2> QED
    BY <1>2, <1>3, <2>6, <2>8, <2>9 DEF new
<1>4. CASE k = 0
  <2> DEFINE level == [price |-> o.price, orders |-> <<id>>,
                       totalQuantity |-> Remaining(o)]
  <2>1. /\ level \in PriceLevel /\ level.orders # << >>
        /\ level.price = o.price /\ level.orders = <<id>>
    BY <1>1 DEF PriceLevel
  <2>2. Ascending(level.orders) /\ \A x : InQueue(level.orders, x) <=> x = id
    BY DEF Ascending, InQueue
  <2>3. new = InsertAt(list, FindInsertIndex(list, level.price, side), level)
    BY <1>4 DEF InsertOrder, k
  <2> HIDE DEF level, new
  <2>4. /\ GoodSide(side, new)
        /\ \A p, x : Holds(new, p, x) <=>
             \/ Holds(list, p, x)
             \/ p = level.price /\ InQueue(level.orders, x)
        /\ \A p, t : Shows(new, p, t) =>
             \/ Shows(list, p, t)
             \/ p = level.price /\ t = level.totalQuantity
    <3>1. \A l \in 1..Len(list) : list[l].price # level.price
      BY <1>2, <1>4, <2>1
    <3> DEFINE opened == InsertAt(list, FindInsertIndex(list, level.price, side), level)
    <3>2. /\ GoodSide(side, opened)
          /\ \A p, x : Holds(opened, p, x) <=>
               \/ Holds(list, p, x)
               \/ p = level.price /\ InQueue(level.orders, x)
          /\ \A p, t : Shows(opened, p, t) =>
               \/ Shows(list, p, t)
               \/ p = level.price /\ t = level.totalQuantity
      BY <2>1, <2>2, <3>1, LevelOpened
    <3> HIDE DEF opened
    <3>3. new = opened
      BY <2>3 DEF opened
    <3> QED
      BY <3>2, <3>3
  <2>5. /\ \A t : ~ Shows(list, o.price, t)
        /\ \A x : ~ Holds(list, o.price, x)
    BY <1>2, <1>4 DEF Shows, Holds
  <2>6. level.totalQuantity = Remaining(o)
    BY DEF level
  <2> QED
    BY <2>1, <2>2, <2>4, <2>5, <2>6 DEF new
<1> QED
  BY <1>3, <1>4
\* A cancelled order, and nothing else, leaves the side; an emptied level too.
LEMMA RemoveOrderEffect ==
  ASSUME NEW side \in Side, NEW list, GoodSide(side, list),
         NEW o \in Order, NEW id, NEW l \in 1..Len(list),
         InQueue(list[l].orders, id)
  PROVE  LET new == RemoveOrder(list, l, id, o)
         IN  /\ GoodSide(side, new)
             /\ \A p, x : Holds(new, p, x) <=>
                  /\ Holds(list, p, x)
                  /\ ~ (p = list[l].price /\ x = id)
             /\ \A p, t : Shows(new, p, t) =>
                  IF p = list[l].price
                  THEN t = list[l].totalQuantity - Remaining(o)
                  ELSE Shows(list, p, t)
<1> DEFINE new == RemoveOrder(list, l, id, o)
           queue == list[l].orders
           left == RemoveFirst(queue, id)
           total == list[l].totalQuantity - Remaining(o)
<1>1. /\ list \in Seq(PriceLevel) /\ list[l] \in PriceLevel
      /\ queue \in Seq(Nat \ {0}) /\ Ascending(queue)
      /\ total \in Int
  BY LevelType DEF GoodSide, Order, Remaining
<1>2. /\ left \in Seq(Nat \ {0}) /\ Ascending(left)
      /\ \A x : InQueue(left, x) <=> InQueue(queue, x) /\ x # id
  <2> HIDE DEF queue
  <2> QED
    BY <1>1, QueueLeft DEF queue
<1>3. \A p, x : p = list[l].price =>
        (Holds(list, p, x) <=> InQueue(queue, x))
  BY <1>1, OneLevelPerPrice DEF Holds, GoodSide
<1> HIDE DEF left
<1>4. CASE left = << >>
  <2>1. new = RemoveAt(list, l)
    BY <1>4 DEF RemoveOrder, left
  <2>2. \A x : ~ InQueue(left, x)
    BY <1>4 DEF InQueue
  <2> HIDE DEF new, queue
  <2>3. /\ GoodSide(side, new)
        /\ \A p, x : Holds(new, p, x) <=> p # list[l].price /\ Holds(list, p, x)
        /\ \A p, t : Shows(new, p, t) => p # list[l].price /\ Shows(list, p, t)
    BY <2>1, LevelRemoved
  <2> QED
    BY <1>2, <1>3, <2>2, <2>3 DEF new
<1>5. CASE left # << >>
  <2>1. new = WithQueue(list, l, left, total)
    <3>1. new = [list EXCEPT ![l].orders = left,
                             ![l].totalQuantity = @ - Remaining(o)]
      BY <1>5 DEF RemoveOrder, left
    <3> QED
      BY <1>1, <3>1 DEF PriceLevel, WithQueue
  <2> HIDE DEF new, queue, total
  <2>2. /\ GoodSide(side, new)
        /\ \A p, x : Holds(new, p, x) <=>
             IF p = list[l].price THEN InQueue(left, x) ELSE Holds(list, p, x)
        /\ \A p, t : Shows(new, p, t) =>
             IF p = list[l].price THEN t = total ELSE Shows(list, p, t)
    BY <1>1, <1>2, <1>5, <2>1, QueueReplaced
  <2> QED
    BY <1>2, <1>3, <2>2 DEF new, total
<1> QED
  BY <1>4, <1>5

\* The list after a fill took `size` off the best level and left it `queue`.
Served(list, queue, size) ==
  [list EXCEPT ![1].totalQuantity = @ - size, ![1].orders = queue]

LevelWith(l, total, queue) == [l EXCEPT !.totalQuantity = total, !.orders = queue]

LEMMA LevelWithFields ==
  ASSUME NEW P, NEW O, NEW T, NEW l \in [price : P, orders : O, totalQuantity : T],
         NEW total, NEW queue
  PROVE  LevelWith(l, total, queue) =
           [price |-> l.price, orders |-> queue, totalQuantity |-> total]
<1> DEFINE m == [l EXCEPT !.totalQuantity = total]
<1>1. m = [price |-> l.price, orders |-> l.orders, totalQuantity |-> total]
  OBVIOUS
<1> HIDE DEF m
<1>2. [m EXCEPT !.orders = queue] =
        [price |-> l.price, orders |-> queue, totalQuantity |-> total]
  BY <1>1
<1> QED
  BY <1>2 DEF m, LevelWith

LEMMA ServedIsWithQueue ==
  ASSUME NEW list \in Seq(PriceLevel), list # << >>,
         NEW queue \in Seq(Nat \ {0}), NEW size \in Int
  PROVE  Served(list, queue, size) =
           WithQueue(list, 1, queue, list[1].totalQuantity - size)
<1>1. 1 \in 1..Len(list) /\ DOMAIN list = 1..Len(list)
  BY EmptySeq
<1>2. list[1] \in PriceLevel
  BY <1>1, LevelType
<1> DEFINE total == list[1].totalQuantity - size
<1>3. total \in Int
  BY <1>2 DEF PriceLevel
<1>4. Served(list, queue, size) =
        [list EXCEPT ![1] = LevelWith(list[1], total, queue)]
  BY <1>1 DEF Served, LevelWith
<1> HIDE DEF total
<1>5. LevelWith(list[1], total, queue)
        = [price |-> list[1].price, orders |-> queue, totalQuantity |-> total]
  BY <1>2, LevelWithFields DEF PriceLevel
<1> QED
  BY <1>4, <1>5 DEF WithQueue, total

\* Only the total of the best level changes: a partial fill.
LEMMA PartialFillEffect ==
  ASSUME NEW side \in Side, NEW list, GoodSide(side, list), list # << >>,
         NEW size \in Int
  PROVE  LET new == Served(list, list[1].orders, size)
         IN  /\ GoodSide(side, new)
             /\ \A p, x : Holds(new, p, x) <=> Holds(list, p, x)
             /\ \A p, t : Shows(new, p, t) =>
                  IF p = list[1].price THEN t = list[1].totalQuantity - size
                  ELSE Shows(list, p, t)
<1> DEFINE new == Served(list, list[1].orders, size)
           total == list[1].totalQuantity - size
           queue == list[1].orders
<1>1. /\ list \in Seq(PriceLevel) /\ 1 \in 1..Len(list)
      /\ queue \in Seq(Nat \ {0}) /\ queue # << >> /\ Ascending(queue)
      /\ total \in Int
  BY EmptySeq, LevelType DEF GoodSide
<1>2. new = WithQueue(list, 1, queue, total)
  BY <1>1, ServedIsWithQueue
<1>3. \A p, x : p = list[1].price => (Holds(list, p, x) <=> InQueue(queue, x))
  BY <1>1, OneLevelPerPrice DEF Holds, GoodSide
<1> HIDE DEF new, queue, total
<1>4. /\ GoodSide(side, new)
      /\ \A p, x : Holds(new, p, x) <=>
           IF p = list[1].price THEN InQueue(queue, x) ELSE Holds(list, p, x)
      /\ \A p, t : Shows(new, p, t) =>
           IF p = list[1].price THEN t = total ELSE Shows(list, p, t)
  BY <1>1, <1>2, QueueReplaced
<1> QED
  BY <1>3, <1>4 DEF new, queue, total

\* The head of the best level is used up and leaves, with its level if it was
\* the last of it.
LEMMA FullFillEffect ==
  ASSUME NEW side \in Side, NEW list, GoodSide(side, list), list # << >>,
         NEW size \in Int
  PROVE  LET new == DropDepleted(Served(list, Tail(list[1].orders), size))
         IN  /\ GoodSide(side, new)
             /\ \A p, x : Holds(new, p, x) <=>
                  /\ Holds(list, p, x)
                  /\ ~ (p = list[1].price /\ x = Head(list[1].orders))
             /\ \A p, t : Shows(new, p, t) =>
                  IF p = list[1].price THEN t = list[1].totalQuantity - size
                  ELSE Shows(list, p, t)
<1> DEFINE queue == list[1].orders
           left == Tail(queue)
           total == list[1].totalQuantity - size
           served == Served(list, left, size)
           new == DropDepleted(served)
<1>1. /\ list \in Seq(PriceLevel) /\ 1 \in 1..Len(list)
      /\ queue \in Seq(Nat \ {0}) /\ queue # << >> /\ Ascending(queue)
      /\ total \in Int
  BY EmptySeq, LevelType DEF GoodSide
<1>2. /\ left \in Seq(Nat \ {0}) /\ Ascending(left)
      /\ \A x : InQueue(left, x) <=> InQueue(queue, x) /\ x # Head(queue)
  <2> HIDE DEF queue
  <2> QED
    BY <1>1, HeadTaken
<1>3. \A p, x : p = list[1].price => (Holds(list, p, x) <=> InQueue(queue, x))
  BY <1>1, OneLevelPerPrice DEF Holds, GoodSide
<1>4. served = WithQueue(list, 1, left, total)
  BY <1>1, <1>2, ServedIsWithQueue
<1>5. served[1].orders = left
  <2> HIDE DEF served, left, total
  <2> QED
    BY <1>1, <1>4 DEF WithQueue
<1> HIDE DEF left, total
<1>6. CASE left # << >>
  <2>1. new = WithQueue(list, 1, left, total)
    BY <1>4, <1>5, <1>6 DEF DropDepleted
  <2> HIDE DEF new, queue
  <2>2. /\ GoodSide(side, new)
        /\ \A p, x : Holds(new, p, x) <=>
             IF p = list[1].price THEN InQueue(left, x) ELSE Holds(list, p, x)
        /\ \A p, t : Shows(new, p, t) =>
             IF p = list[1].price THEN t = total ELSE Shows(list, p, t)
    BY <1>1, <1>2, <1>6, <2>1, QueueReplaced
  <2> QED
    BY <1>2, <1>3, <2>2 DEF new, served, left, queue, total
<1>7. CASE left = << >>
  <2>1. new = RemoveAt(list, 1)
    <3>1. new = Tail(served)
      BY <1>5, <1>7 DEF DropDepleted
    <3>2. /\ served \in Seq(PriceLevel) /\ Len(served) = Len(list)
          /\ \A m \in 2..Len(list) : served[m] = list[m]
      <4>1. [price |-> list[1].price, orders |-> left, totalQuantity |-> total]
              \in PriceLevel
        BY <1>1, <1>2, LevelType DEF PriceLevel
      <4> HIDE DEF served
      <4> QED
        BY <1>1, <1>4, <4>1, ExceptSeq DEF WithQueue
    <3> HIDE DEF served
    <3>3. /\ Tail(served) \in Seq(PriceLevel)
          /\ Len(Tail(served)) = Len(list) - 1
          /\ \A m \in 1..Len(list) - 1 : Tail(served)[m] = list[m + 1]
      <4>1. served # << >>
        BY <1>1, <3>2
      <4>2. /\ Tail(served) \in Seq(PriceLevel)
            /\ Len(Tail(served)) = Len(served) - 1
            /\ \A m \in 1..Len(Tail(served)) : Tail(served)[m] = served[m + 1]
        BY <3>2, <4>1, HeadTailProperties
      <4> QED
        BY <1>1, <3>2, <4>2
    <3>4. /\ RemoveAt(list, 1) \in Seq(PriceLevel)
          /\ Len(RemoveAt(list, 1)) = Len(list) - 1
          /\ \A m \in 1..Len(list) - 1 : RemoveAt(list, 1)[m] = list[m + 1]
      BY <1>1, RemoveAtProperties
    <3>5. Tail(served) = RemoveAt(list, 1)
      BY <3>3, <3>4, SeqEqual
    <3> QED
      BY <3>1, <3>5
  <2>2. \A x : ~ InQueue(left, x)
    BY <1>7 DEF InQueue
  <2> HIDE DEF new, queue
  <2>3. /\ GoodSide(side, new)
        /\ \A p, x : Holds(new, p, x) <=> p # list[1].price /\ Holds(list, p, x)
        /\ \A p, t : Shows(new, p, t) => p # list[1].price /\ Shows(list, p, t)
    BY <1>1, <2>1, LevelRemoved
  <2> QED
    BY <1>2, <1>3, <2>2, <2>3 DEF new, served, left, queue
<1> QED
  BY <1>6, <1>7

\* insertOrder's edit of a level that exists.
Joined(list, k, id, size) ==
  [list EXCEPT ![k].orders = Append(@, id), ![k].totalQuantity = @ + size]

LevelJoined(l, queue, total) == [l EXCEPT !.orders = queue, !.totalQuantity = total]

LEMMA LevelJoinedFields ==
  ASSUME NEW P, NEW O, NEW T, NEW l \in [price : P, orders : O, totalQuantity : T],
         NEW total, NEW queue
  PROVE  LevelJoined(l, queue, total) =
           [price |-> l.price, orders |-> queue, totalQuantity |-> total]
<1> DEFINE m == [l EXCEPT !.orders = queue]
<1>1. m = [price |-> l.price, orders |-> queue, totalQuantity |-> l.totalQuantity]
  OBVIOUS
<1> HIDE DEF m
<1>2. [m EXCEPT !.totalQuantity = total] =
        [price |-> l.price, orders |-> queue, totalQuantity |-> total]
  BY <1>1
<1> QED
  BY <1>2 DEF m, LevelJoined

LEMMA JoinedIsWithQueue ==
  ASSUME NEW list \in Seq(PriceLevel), NEW k \in 1..Len(list),
         NEW id \in Nat \ {0}, NEW size \in Int
  PROVE  Joined(list, k, id, size) =
           WithQueue(list, k, Append(list[k].orders, id),
                     list[k].totalQuantity + size)
<1> DEFINE total == list[k].totalQuantity + size
           queue == Append(list[k].orders, id)
<1>1. list[k] \in PriceLevel /\ DOMAIN list = 1..Len(list)
  BY LevelType
<1>2. Joined(list, k, id, size) =
        [list EXCEPT ![k] = LevelJoined(list[k], queue, total)]
  BY <1>1 DEF Joined, LevelJoined, PriceLevel
<1> HIDE DEF total, queue
<1>3. LevelJoined(list[k], queue, total)
        = [price |-> list[k].price, orders |-> queue, totalQuantity |-> total]
  BY <1>1, LevelJoinedFields DEF PriceLevel
<1> QED
  BY <1>2, <1>3 DEF WithQueue, total, queue

\* The list after a fill used up a slice and the next, o, was put back.
Replenished(list, size, id, o) ==
  DropDepleted(InsertOrder(Served(list, Tail(list[1].orders), size), id, o))

\* The head of the best level is used up and the next slice of its iceberg joins
\* the tail of the same level, which therefore stays.
SliceFits(side, list, o, id) ==
  /\ o \in Order /\ o.side = side /\ o.price = list[1].price
  /\ id \in Nat \ {0}
  /\ \A p, x : Holds(list, p, x) => x < id

LEMMA ReplenishEffect ==
  ASSUME NEW side \in Side, NEW list, GoodSide(side, list), list # << >>,
         NEW size \in Int, NEW o, NEW id,
         SliceFits(side, list, o, id)
  PROVE  LET new == Replenished(list, size, id, o)
         IN  /\ GoodSide(side, new)
             /\ \A p, x : Holds(new, p, x) <=>
                  \/ /\ Holds(list, p, x)
                     /\ ~ (p = list[1].price /\ x = Head(list[1].orders))
                  \/ p = list[1].price /\ x = id
             /\ \A p, t : Shows(new, p, t) =>
                  IF p = list[1].price
                  THEN t = list[1].totalQuantity - size + Remaining(o)
                  ELSE Shows(list, p, t)
<1> DEFINE queue == list[1].orders
           left == Tail(queue)
           total == list[1].totalQuantity - size
           served == Served(list, left, size)
           longer == Append(left, id)
           inserted == InsertOrder(served, id, o)
           new == DropDepleted(inserted)
<1>0. /\ o \in Order /\ o.side = side /\ o.price = list[1].price
      /\ id \in Nat \ {0} /\ \A p, x : Holds(list, p, x) => x < id
  BY DEF SliceFits
<1>1. /\ list \in Seq(PriceLevel) /\ 1 \in 1..Len(list)
      /\ queue \in Seq(Nat \ {0}) /\ queue # << >> /\ Ascending(queue)
      /\ total \in Int /\ Remaining(o) \in Int
  BY <1>0, EmptySeq, LevelType, SMTT(30) DEF GoodSide, Order, Remaining
<1>2. /\ left \in Seq(Nat \ {0}) /\ Ascending(left)
      /\ \A x : InQueue(left, x) <=> InQueue(queue, x) /\ x # Head(queue)
  <2> HIDE DEF queue
  <2> QED
    BY <1>1, HeadTaken
<1>3. \A p, x : p = list[1].price => (Holds(list, p, x) <=> InQueue(queue, x))
  BY <1>1, OneLevelPerPrice DEF Holds, GoodSide
<1>4. /\ longer \in Seq(Nat \ {0}) /\ longer # << >> /\ Ascending(longer)
      /\ \A x : InQueue(longer, x) <=> InQueue(left, x) \/ x = id
  <2>1. \A x : InQueue(left, x) => x < id
    BY <1>0, <1>2, <1>3
  <2> HIDE DEF left
  <2> QED
    BY <1>0, <1>2, <2>1, QueueAppended
<1>5. served = WithQueue(list, 1, left, total)
  BY <1>1, <1>2, ServedIsWithQueue
<1> HIDE DEF left, total, served, longer
<1>6. /\ served \in Seq(PriceLevel) /\ Len(served) = Len(list)
      /\ served[1] = [price |-> list[1].price, orders |-> left,
                      totalQuantity |-> total]
      /\ \A m \in 1..Len(list) : served[m].price = list[m].price
  <2>1. [price |-> list[1].price, orders |-> left, totalQuantity |-> total]
          \in PriceLevel
    BY <1>1, <1>2, LevelType DEF PriceLevel
  <2>2. /\ served \in Seq(PriceLevel) /\ Len(served) = Len(list)
        /\ \A m \in 1..Len(list) :
             served[m] = IF m = 1
                         THEN [price |-> list[1].price, orders |-> left,
                               totalQuantity |-> total]
                         ELSE list[m]
    BY <1>1, <1>5, <2>1, ExceptSeq DEF WithQueue
  <2> QED
    BY <1>1, <2>2
<1>7. Sorted(side, served)
  BY <1>6 DEF Sorted, GoodSide
<1>8. FindLevelIndex(served, o.price, side) = 1
  <2> DEFINE k == FindLevelIndex(served, o.price, side)
  <2>1. /\ k \in 0..Len(served)
        /\ k # 0 => served[k].price = o.price
        /\ k = 0 => \A l \in 1..Len(served) : served[l].price # o.price
    BY <1>0, <1>6, <1>7, FindLevelIndexProperties, ZenonT(40) DEF Order
  <2> HIDE DEF k
  <2>2. 1 \in 1..Len(served) /\ served[1].price = o.price
    BY <1>0, <1>1, <1>6
  <2>3. k \in 1..Len(served) /\ served[k].price = served[1].price
    BY <2>1, <2>2
  <2>4. k = 1
    BY <1>6, <1>7, <2>2, <2>3, OneLevelPerPrice
  <2> QED
    BY <2>4 DEF k
<1>9. inserted = WithQueue(list, 1, longer, total + Remaining(o))
  <2>1. inserted = Joined(served, 1, id, Remaining(o))
    BY <1>0, <1>8 DEF InsertOrder, Joined
  <2>2. /\ 1 \in 1..Len(served) /\ served[1] \in PriceLevel
        /\ served[1].orders \in Seq(Nat \ {0})
        /\ served[1].totalQuantity + Remaining(o) \in Int
    BY <1>1, <1>6, LevelType
  <2>3. inserted = WithQueue(served, 1, Append(served[1].orders, id),
                             served[1].totalQuantity + Remaining(o))
    BY <1>0, <1>1, <1>6, <2>1, <2>2, JoinedIsWithQueue
  <2>4. /\ Append(served[1].orders, id) = longer
        /\ served[1].totalQuantity = total
        /\ served[1].price = list[1].price
    BY <1>6 DEF longer
  <2>5. inserted = WithQueue(served, 1, longer, total + Remaining(o))
    BY <2>3, <2>4
  <2> QED
    BY <1>1, <1>5, <2>4, <2>5 DEF WithQueue
<1> HIDE DEF inserted
<1>10. new = inserted
  <2>1. inserted[1].orders = longer
    BY <1>1, <1>9 DEF WithQueue
  <2> QED
    BY <1>4, <2>1 DEF DropDepleted
<1> HIDE DEF new, queue
<1>11. /\ GoodSide(side, inserted)
       /\ \A p, x : Holds(inserted, p, x) <=>
            IF p = list[1].price THEN InQueue(longer, x) ELSE Holds(list, p, x)
       /\ \A p, t : Shows(inserted, p, t) =>
            IF p = list[1].price THEN t = total + Remaining(o)
            ELSE Shows(list, p, t)
  <2> DEFINE sum == total + Remaining(o)
  <2>1. sum \in Int
    BY <1>1
  <2>2. inserted = WithQueue(list, 1, longer, sum)
    BY <1>9
  <2> HIDE DEF sum
  <2>3. \A p, t : Shows(inserted, p, t) =>
          IF p = list[1].price THEN t = sum ELSE Shows(list, p, t)
    BY <1>1, <1>4, <2>1, <2>2, QueueReplaced
  <2>4. /\ GoodSide(side, inserted)
        /\ \A p, x : Holds(inserted, p, x) <=>
             IF p = list[1].price THEN InQueue(longer, x) ELSE Holds(list, p, x)
    BY <1>1, <1>4, <2>1, <2>2, QueueReplaced
  <2> QED
    BY <2>3, <2>4 DEF sum
<1>12. \A p, x : Holds(new, p, x) <=>
         \/ /\ Holds(list, p, x)
            /\ ~ (p = list[1].price /\ x = Head(queue))
         \/ p = list[1].price /\ x = id
  BY <1>2, <1>3, <1>4, <1>10, <1>11
<1>13. \A p, t : Shows(new, p, t) =>
         IF p = list[1].price
         THEN t = list[1].totalQuantity - size + Remaining(o)
         ELSE Shows(list, p, t)
  BY <1>10, <1>11 DEF total
<1> QED
  BY <1>10, <1>11, <1>12, <1>13 DEF new, inserted, served, left, queue, Replenished
=============================================================================
