--------------------------- MODULE ClusterProofs ---------------------------
(***************************************************************************)
(* What MarketMakerBot's specification promises, for every set of orders   *)
(* and every number of ticks, faults and clients.                          *)
(***************************************************************************)
EXTENDS MarketMakerBot, ProtocolSerializerProofs, BookOpsProofs

-----------------------------------------------------------------------------
(* Sums and lists.                                                         *)

LEMMA SumFunctionIsTotal ==
  ASSUME NEW f, IsFiniteSet(DOMAIN f), \A x \in DOMAIN f : f[x] \in Int
  PROVE  SumFunction(f) = Total(f, DOMAIN f)
<1> DEFINE S == DOMAIN f
           P(h) == h = [T \in SUBSET S |->
                          IF T = {} THEN 0
                          ELSE f[CHOOSE x \in T : TRUE] + h[T \ {CHOOSE x \in T : TRUE}]]
<1>1. SumFunction(f) = (CHOOSE h : P(h))[S]
  BY DEF SumFunction, SumFunctionOnSet, FoldFunctionOnSet, MapThenFoldSet
<1>2. \E h : P(h)
  <2> DEFINE g == [T \in SUBSET S |-> Total(f, T)]
             e(T) == CHOOSE x \in T : TRUE
  <2>1. ASSUME NEW T \in SUBSET S, T # {}
        PROVE  g[T] = f[e(T)] + g[T \ {e(T)}]
    <3>1. e(T) \in T /\ IsFiniteSet(T) /\ \A y \in T : f[y] \in Int
      BY <2>1, FS_Subset
    <3> DEFINE x == e(T)
    <3>2. x \in T /\ T \ {x} \in SUBSET S
      BY <3>1
    <3> HIDE DEF e, x, S
    <3>3. Total(f, T) = f[x] + Total(f, T \ {x})
      BY <3>1, <3>2, TotalSplit
    <3>4. g[T] = f[x] + g[T \ {x}]
      BY <3>2, <3>3
    <3> HIDE DEF g
    <3> QED
      BY <3>4 DEF x
  <2>2. g[{}] = 0 /\ g = [T \in SUBSET S |-> g[T]]
    BY TotalEmpty
  <2> HIDE DEF g, S
  <2>3. g = [T \in SUBSET S |-> IF T = {} THEN 0 ELSE f[e(T)] + g[T \ {e(T)}]]
    <3> HIDE DEF e
    <3> QED
      BY <2>1, <2>2
  <2> QED
    BY <2>3
<1>3. ASSUME NEW h, P(h) PROVE h[S] = Total(f, S)
  <2>1. h[{}] = 0
    BY <1>3
  <2>2. ASSUME NEW T \in SUBSET S, T # {}
        PROVE  \E x \in T : h[T \ {x}] \in Int => h[T] = f[x] + h[T \ {x}]
    <3> DEFINE e == CHOOSE x \in T : TRUE
    <3>1. e \in T
      BY <2>2
    <3>2. h[T] = f[e] + h[T \ {e}]
      BY <1>3, <2>2
    <3> HIDE DEF e, P, S
    <3> QED
      BY <3>1, <3>2
  <2> HIDE DEF S, P
  <2>3. AddsUp(h, f, S) /\ S \in SUBSET S
    BY <2>1, <2>2 DEF AddsUp
  <2>4. IsFiniteSet(S) /\ \A x \in S : f[x] \in Int
    BY DEF S
  <2> QED
    BY <2>3, <2>4, TotalByRecursion
<1> HIDE DEF P, S
<1>4. P(CHOOSE h : P(h))
  BY <1>2
<1> QED
  BY <1>1, <1>3, <1>4 DEF S

LEMMA TotalAtMost ==
  ASSUME NEW S, IsFiniteSet(S), NEW f, NEW g,
         \A x \in S : f[x] \in Int /\ g[x] \in Int /\ f[x] <= g[x]
  PROVE  Total(f, S) <= Total(g, S)
<1> DEFINE G == {T \in SUBSET S : Total(f, T) <= Total(g, T)}
<1>1. {} \in G
  BY TotalEmpty
<1>2. \A T \in SUBSET S : \A x \in S \ T : T \in G => T \union {x} \in G
  <2> SUFFICES ASSUME NEW T \in SUBSET S, NEW x \in S \ T, Total(f, T) <= Total(g, T)
               PROVE  Total(f, T \union {x}) <= Total(g, T \union {x})
    OBVIOUS
  <2>1. /\ IsFiniteSet(T) /\ \A y \in T \union {x} : f[y] \in Int
        /\ \A y \in T \union {x} : g[y] \in Int
    BY FS_Subset
  <2>2. Total(f, T \union {x}) = f[x] + Total(f, T)
    BY <2>1, TotalAdd
  <2>3. Total(g, T \union {x}) = g[x] + Total(g, T)
    BY <2>1, TotalAdd
  <2>4. Total(f, T) \in Int /\ Total(g, T) \in Int
    BY <2>1, TotalType
  <2> QED
    BY <2>2, <2>3, <2>4
<1> HIDE DEF G
<1>3. S \in G
  BY <1>1, <1>2, SubsetInduction
<1> QED
  BY <1>3 DEF G

LEMMA TotalOfPart ==
  ASSUME NEW S, IsFiniteSet(S), NEW f, \A x \in S : f[x] \in Nat, NEW T \in SUBSET S
  PROVE  Total(f, T) \in Nat /\ Total(f, T) <= Total(f, S)
<1> DEFINE U == S \ T
<1>1. /\ IsFiniteSet(T) /\ IsFiniteSet(U) /\ T \cap U = {} /\ T \union U = S
      /\ \A x \in T \union U : f[x] \in Int
      /\ \A x \in T : f[x] \in Nat
      /\ \A x \in U : f[x] \in Nat
  BY FS_Subset
<1> HIDE DEF U
<1>2. Total(f, S) = Total(f, T) + Total(f, U)
  BY <1>1, TotalUnion
<1>3. Total(f, T) \in Nat
  BY <1>1, TotalNonNegative
<1>4. Total(f, U) \in Nat
  BY <1>1, TotalNonNegative
<1> QED
  BY <1>2, <1>3, <1>4

LEMMA TotalZero ==
  ASSUME NEW S, IsFiniteSet(S), NEW f, \A x \in S : f[x] = 0
  PROVE  Total(f, S) = 0
<1> DEFINE G == {T \in SUBSET S : Total(f, T) = 0}
<1>1. {} \in G
  BY TotalEmpty
<1>2. \A T \in SUBSET S : \A y \in S \ T : T \in G => T \union {y} \in G
  <2> SUFFICES ASSUME NEW T \in SUBSET S, NEW y \in S \ T, Total(f, T) = 0
               PROVE  Total(f, T \union {y}) = 0
    OBVIOUS
  <2>1. IsFiniteSet(T) /\ y \notin T /\ (\A w \in T \union {y} : f[w] \in Int) /\ f[y] = 0
    BY FS_Subset
  <2>2. Total(f, T \union {y}) = f[y] + Total(f, T)
    BY <2>1, TotalAdd
  <2> QED
    BY <2>1, <2>2
<1> HIDE DEF G
<1>3. S \in G
  BY <1>1, <1>2, SubsetInduction
<1> QED
  BY <1>3 DEF G

\* At most one summand is not zero.
LEMMA TotalOfOne ==
  ASSUME NEW S, IsFiniteSet(S), NEW f, NEW x \in S, f[x] \in Int,
         \A y \in S \ {x} : f[y] = 0
  PROVE  Total(f, S) = f[x]
<1>1. IsFiniteSet(S \ {x}) /\ \A y \in S : f[y] \in Int
  BY FS_Subset
<1>2. Total(f, S \ {x}) = 0
  BY <1>1, TotalZero
<1>3. Total(f, S) = f[x] + Total(f, S \ {x})
  BY <1>1, TotalSplit
<1> QED
  BY <1>2, <1>3

\* R is a strict order of S in which any two elements can be compared.
Ranks(R, S) ==
  /\ \A x, y \in S : x # y => <<x, y>> \in R \/ <<y, x>> \in R
  /\ \A x, y, z \in S : <<x, y>> \in R /\ <<y, z>> \in R => <<x, z>> \in R

LEMMA LastInRank ==
  ASSUME NEW S, IsFiniteSet(S), NEW R, Ranks(R, S), S # {}
  PROVE  \E w \in S : \A y \in S \ {w} : <<y, w>> \in R
<1> DEFINE G == {T \in SUBSET S : T = {} \/ \E w \in T : \A y \in T \ {w} : <<y, w>> \in R}
<1>1. {} \in G
  OBVIOUS
<1>2. \A T \in SUBSET S : \A x \in S \ T : T \in G => T \union {x} \in G
  <2> SUFFICES ASSUME NEW T \in SUBSET S, NEW x \in S \ T,
                      T = {} \/ \E w \in T : \A y \in T \ {w} : <<y, w>> \in R
               PROVE  \E w \in T \union {x} : \A y \in (T \union {x}) \ {w} : <<y, w>> \in R
    OBVIOUS
  <2>1. CASE T = {}
    BY <2>1
  <2>2. ASSUME NEW w \in T, \A y \in T \ {w} : <<y, w>> \in R
        PROVE  \E v \in T \union {x} : \A y \in (T \union {x}) \ {v} : <<y, v>> \in R
    <3>1. w \in S /\ x \in S /\ x # w
      OBVIOUS
    <3>2. CASE <<x, w>> \in R
      BY <2>2, <3>2
    <3>3. CASE <<w, x>> \in R
      <4>1. \A y \in T : <<y, x>> \in R
        BY <2>2, <3>1, <3>3 DEF Ranks
      <4> QED
        BY <4>1
    <3> QED
      BY <3>1, <3>2, <3>3 DEF Ranks
  <2> QED
    BY <2>1, <2>2
<1> HIDE DEF G
<1>3. S \in G
  BY <1>1, <1>2, SubsetInduction
<1> QED
  BY <1>3 DEF G

\* A finite set can be listed in the order of the ranks.
LEMMA SortedList ==
  ASSUME NEW S, IsFiniteSet(S), NEW R, Ranks(R, S)
  PROVE  \E f \in [1..Cardinality(S) -> S] :
           \A j, k \in DOMAIN f : j < k => <<f[j], f[k]>> \in R
<1> DEFINE Lists(T) == {f \in [1..Cardinality(T) -> T] :
                          \A j, k \in 1..Cardinality(T) : j < k => <<f[j], f[k]>> \in R}
           N == {n \in Nat : \A T \in SUBSET S : Cardinality(T) = n => Lists(T) # {}}
<1>1. 0 \in N
  <2> SUFFICES ASSUME NEW T \in SUBSET S, Cardinality(T) = 0
               PROVE  Lists(T) # {}
    OBVIOUS
  <2>1. 1..Cardinality(T) = {}
    OBVIOUS
  <2>2. [i \in {} |-> i] \in Lists(T)
    BY <2>1
  <2> QED
    BY <2>2
<1>2. \A n \in Nat : n \in N => n + 1 \in N
  <2> SUFFICES ASSUME NEW n \in N, NEW T \in SUBSET S, Cardinality(T) = n + 1
               PROVE  Lists(T) # {}
    OBVIOUS
  <2>1. IsFiniteSet(T) /\ T # {} /\ n \in Nat /\ Ranks(R, T)
    <3>1. IsFiniteSet(T) /\ T # {} /\ n \in Nat
      BY FS_Subset, FS_EmptySet
    <3>2. Ranks(R, T)
      BY DEF Ranks
    <3> QED
      BY <3>1, <3>2
  <2>2. PICK w \in T : \A y \in T \ {w} : <<y, w>> \in R
    BY <2>1, LastInRank
  <2> DEFINE U == T \ {w}
  <2>3. Cardinality(U) = n /\ U \in SUBSET S /\ \A y \in U : <<y, w>> \in R
    <3>1. Cardinality(U) = Cardinality(T) - 1
      BY <2>1, FS_RemoveElement, Zenon
    <3> QED
      BY <2>1, <2>2, <3>1
  <2> HIDE DEF Lists
  <2>4. PICK f \in Lists(U) : TRUE
    BY <2>3
  <2>5. /\ f \in [1..n -> U]
        /\ \A j, k \in 1..n : j < k => <<f[j], f[k]>> \in R
    BY <2>3, <2>4 DEF Lists
  <2> DEFINE g == [i \in 1..(n + 1) |-> IF i <= n THEN f[i] ELSE w]
  <2>6. g \in [1..Cardinality(T) -> T]
    <3>1. U \subseteq T
      OBVIOUS
    <3> HIDE DEF U
    <3> QED
      BY <2>1, <2>5, <3>1
  <2>7. \A j, k \in 1..(n + 1) : j < k => <<g[j], g[k]>> \in R
    <3> SUFFICES ASSUME NEW j \in 1..(n + 1), NEW k \in 1..(n + 1), j < k
                 PROVE  <<g[j], g[k]>> \in R
      OBVIOUS
    <3>1. j \in 1..n /\ g[j] = f[j] /\ f[j] \in U
      BY <2>1, <2>5
    <3>2. CASE k <= n
      BY <2>1, <2>5, <3>1, <3>2
    <3>3. CASE k = n + 1
      BY <2>1, <2>3, <3>1, <3>3
    <3> QED
      BY <2>1, <3>2, <3>3
  <2> HIDE DEF g
  <2>8. g \in Lists(T)
    BY <2>6, <2>7 DEF Lists
  <2> QED
    BY <2>8
<1> HIDE DEF N
<1>3. Cardinality(S) \in N
  BY <1>1, <1>2, NumberInduction, FS_CardinalityType
<1>4. Lists(S) # {}
  BY <1>3 DEF N
<1> QED
  BY <1>4

\* A list, whatever its elements.
IsSeq(s) == Len(s) \in Nat /\ s = [i \in 1..Len(s) |-> s[i]]
Elements(s) == {s[i] : i \in DOMAIN s}

LEMMA SeqFacts ==
  ASSUME NEW s, IsSeq(s)
  PROVE  /\ Len(s) \in Nat /\ DOMAIN s = 1..Len(s) /\ s \in Seq(Elements(s))
         /\ s = << >> <=> Len(s) = 0
<1>1. DOMAIN s = 1..Len(s) /\ Len(s) \in Nat
  <2>1. DOMAIN s = DOMAIN [i \in 1..Len(s) |-> s[i]]
    BY DEF IsSeq
  <2> QED
    BY <2>1 DEF IsSeq
<1>2. s \in [1..Len(s) -> Elements(s)]
  BY <1>1 DEF IsSeq, Elements
<1>3. s \in Seq(Elements(s))
  BY <1>1, <1>2, SeqDef
<1> QED
  BY <1>1, <1>3, EmptySeq

LEMMA IsSeqOf ==
  ASSUME NEW S, NEW s \in Seq(S)
  PROVE  IsSeq(s)
BY LenProperties DEF IsSeq

LEMMA EmptyIsSeq == IsSeq(<< >>) /\ Elements(<< >>) = {} /\ Len(<< >>) = 0
<1>1. << >> \in Seq({})
  OBVIOUS
<1>2. Len(<< >>) = 0 /\ DOMAIN << >> = {}
  OBVIOUS
<1>3. Elements(<< >>) = {}
  BY <1>2 DEF Elements
<1> QED
  BY <1>1, <1>2, <1>3, IsSeqOf

LEMMA AppendFacts ==
  ASSUME NEW s, IsSeq(s), NEW x
  PROVE  /\ IsSeq(Append(s, x)) /\ Len(Append(s, x)) = Len(s) + 1
         /\ DOMAIN Append(s, x) = 1..(Len(s) + 1)
         /\ \A i \in 1..Len(s) : Append(s, x)[i] = s[i]
         /\ Append(s, x)[Len(s) + 1] = x
         /\ Elements(Append(s, x)) = Elements(s) \union {x}
<1> DEFINE S == Elements(s) \union {x}
           t == Append(s, x)
<1>1. s \in Seq(S) /\ x \in S /\ DOMAIN s = 1..Len(s) /\ Len(s) \in Nat
  <2>1. s \in Seq(Elements(s)) /\ Elements(s) \subseteq S
    BY SeqFacts
  <2> QED
    BY <2>1, SeqFacts
<1> HIDE DEF S
<1>2. /\ t \in Seq(S) /\ Len(t) = Len(s) + 1
      /\ \A i \in 1..Len(s) : t[i] = s[i]
      /\ t[Len(s) + 1] = x
  BY <1>1, AppendProperties
<1> HIDE DEF t
<1>3. IsSeq(t) /\ DOMAIN t = 1..(Len(s) + 1)
  BY <1>1, <1>2, IsSeqOf, LenProperties
<1>4. Elements(t) = Elements(s) \union {x}
  BY <1>1, <1>2, <1>3 DEF Elements
<1> QED
  BY <1>2, <1>3, <1>4 DEF t

LEMMA TailFacts ==
  ASSUME NEW s, IsSeq(s), s # << >>
  PROVE  /\ IsSeq(Tail(s)) /\ Len(Tail(s)) = Len(s) - 1
         /\ DOMAIN Tail(s) = 1..(Len(s) - 1)
         /\ \A i \in 1..(Len(s) - 1) : Tail(s)[i] = s[i + 1]
         /\ Head(s) = s[1] /\ 1 \in DOMAIN s /\ Head(s) \in Elements(s)
         /\ Elements(Tail(s)) \subseteq Elements(s)
<1> DEFINE S == Elements(s)
           t == Tail(s)
<1>1. s \in Seq(S) /\ DOMAIN s = 1..Len(s) /\ Len(s) \in Nat /\ Len(s) # 0
  BY SeqFacts
<1> HIDE DEF S
<1>2. /\ t \in Seq(S) /\ Len(t) = Len(s) - 1
      /\ \A i \in 1..(Len(s) - 1) : t[i] = s[i + 1]
      /\ Head(s) = s[1]
  BY <1>1, HeadTailProperties
<1> HIDE DEF t
<1>3. IsSeq(t) /\ DOMAIN t = 1..(Len(s) - 1)
  BY <1>1, <1>2, IsSeqOf, LenProperties
<1>4. Elements(t) \subseteq Elements(s) /\ 1 \in DOMAIN s /\ Head(s) \in Elements(s)
  BY <1>1, <1>2, <1>3 DEF Elements
<1> QED
  BY <1>2, <1>3, <1>4 DEF t

LEMMA FrontFacts ==
  ASSUME NEW s, IsSeq(s), NEW n \in 0..Len(s)
  PROVE  /\ IsSeq(SubSeq(s, 1, n)) /\ Elements(SubSeq(s, 1, n)) \subseteq Elements(s)
<1> DEFINE S == Elements(s)
           t == SubSeq(s, 1, n)
<1>1. s \in Seq(S) /\ DOMAIN s = 1..Len(s) /\ Len(s) \in Nat
  BY SeqFacts
<1> HIDE DEF S
<1>2. t \in Seq(S) /\ Len(t) = n /\ \A i \in 1..n : t[i] = s[i]
  BY <1>1, SubSeqProperties
<1> HIDE DEF t
<1>3. IsSeq(t) /\ DOMAIN t = 1..n
  BY <1>2, IsSeqOf, LenProperties
<1>4. Elements(t) \subseteq Elements(s)
  BY <1>1, <1>2, <1>3 DEF Elements
<1> QED
  BY <1>3, <1>4 DEF t

-----------------------------------------------------------------------------
(* One call of the worker's engine.                                        *)

\* What a list of trades looks like, and what each gives to an order.
GoodTrades(trades) ==
  /\ IsSeq(trades)
  /\ \A k \in 1..Len(trades) : IsTrade(trades[k]) /\ trades[k].quantity \in Nat

Parts(trades, id) ==
  [k \in DOMAIN trades |->
     IF id \in {trades[k].buyOrderId, trades[k].sellOrderId} THEN trades[k].quantity ELSE 0]

LEMMA QuantityIsTotal ==
  ASSUME NEW trades, GoodTrades(trades), NEW id
  PROVE  /\ IsFiniteSet(DOMAIN trades)
         /\ \A k \in DOMAIN trades : Parts(trades, id)[k] \in Nat
         /\ QuantityOf(trades, id) = Total(Parts(trades, id), DOMAIN trades)
         /\ QuantityOf(trades, id) \in Nat
<1> DEFINE f == Parts(trades, id)
<1>1. PICK n \in Nat : /\ trades = [k \in 1..n |-> trades[k]]
                       /\ \A k \in 1..n : trades[k].quantity \in Nat
  BY DEF GoodTrades, IsSeq
<1>2. DOMAIN trades = 1..n /\ IsFiniteSet(1..n)
  <2>1. DOMAIN trades = DOMAIN [k \in 1..n |-> trades[k]]
    BY <1>1
  <2> QED
    BY <2>1, FS_Interval
<1>3. DOMAIN f = DOMAIN trades /\ \A k \in DOMAIN trades : f[k] \in Nat
  BY <1>1, <1>2 DEF Parts
<1>4. QuantityOf(trades, id) = SumFunction(f)
  BY DEF QuantityOf, Parts
<1> HIDE DEF f
<1>5. SumFunction(f) = Total(f, DOMAIN f)
  BY <1>2, <1>3, SumFunctionIsTotal
<1>6. Total(f, DOMAIN f) \in Nat
  BY <1>2, <1>3, TotalNonNegative
<1> QED
  BY <1>2, <1>3, <1>4, <1>5, <1>6 DEF f

LEMMA NoTrades ==
  GoodTrades(<< >>) /\ \A id : QuantityOf(<< >>, id) = 0
<1>1. GoodTrades(<< >>)
  <2>1. << >> = [k \in 1..0 |-> << >>[k]] /\ Len(<< >>) = 0 /\ 1..0 = {}
    OBVIOUS
  <2> QED
    BY <2>1 DEF GoodTrades, IsSeq
<1>2. ASSUME NEW id PROVE QuantityOf(<< >>, id) = 0
  <2>1. DOMAIN << >> = {}
    OBVIOUS
  <2>2. QuantityOf(<< >>, id) = Total(Parts(<< >>, id), DOMAIN << >>)
    BY <1>1, QuantityIsTotal
  <2> QED
    BY <2>1, <2>2, TotalEmpty
<1> QED
  BY <1>1, <1>2

\* The state of the engine that a submitted order meets.
EngineReady ==
  /\ IsFiniteSet(resting) /\ resting \subseteq Nat
  /\ \A id \in resting :
       /\ live[id].id = id /\ live[id].side \in Side /\ live[id].price \in Nat
       /\ live[id].quantity \in Nat /\ live[id].filledQuantity \in Nat
       /\ Remaining(live[id]) \in Nat

NewOrder(o) == o.side \in Side /\ o.quantity \in Nat /\ o.id \notin resting

LEMMA MakersAreListed ==
  ASSUME EngineReady, NEW o, NewOrder(o)
  PROVE  \E m \in Nat :
           /\ Makers(o) \in [1..m -> resting]
           /\ \A j, k \in 1..m : j # k => Makers(o)[j] # Makers(o)[k]
<1> DEFINE C == Crossing(o)
           R == {p \in C \X C : Better(p[1], p[2])}
           m == Cardinality(C)
<1>1. C \subseteq resting /\ IsFiniteSet(C) /\ m \in Nat
        /\ \A id \in C : live[id].side = Opposite(o.side)
  BY FS_Subset, FS_CardinalityType DEF EngineReady, Crossing
<1>2. \A x, y \in C : <<x, y>> \in R <=> Better(x, y)
  OBVIOUS
<1>3. Opposite(o.side) \in Side /\ \A id \in C : id \in Nat /\ live[id].price \in Nat
  BY <1>1 DEF NewOrder, EngineReady, Side, Opposite
<1> DEFINE side == Opposite(o.side)
<1>4. \A x, y \in C : Better(x, y) <=>
        \/ Behind(side, live[y].price, live[x].price)
        \/ live[x].price = live[y].price /\ x < y
  BY <1>1 DEF Better
<1> HIDE DEF R, C, side
<1>5. Ranks(R, C)
  <2>1. ASSUME NEW x \in C, NEW y \in C, x # y
        PROVE  <<x, y>> \in R \/ <<y, x>> \in R
    <3>1. Better(x, y) \/ Better(y, x)
      BY <1>3, <1>4, <2>1 DEF Behind, Side, side
    <3> QED
      BY <1>2, <3>1
  <2>2. ASSUME NEW x \in C, NEW y \in C, NEW z \in C, <<x, y>> \in R, <<y, z>> \in R
        PROVE  <<x, z>> \in R
    <3>1. Better(x, y) /\ Better(y, z)
      BY <1>2, <2>2
    <3>2. Better(x, z)
      BY <1>3, <1>4, <3>1 DEF Behind, Side, side
    <3> QED
      BY <1>2, <3>2
  <2> QED
    BY <2>1, <2>2 DEF Ranks
<1>6. \E f \in [1..m -> C] : \A j, k \in DOMAIN f : j < k => <<f[j], f[k]>> \in R
  BY <1>1, <1>5, SortedList
<1>7. \E f \in [1..m -> C] : \A j, k \in DOMAIN f : j < k => Better(f[j], f[k])
  BY <1>2, <1>6
<1> DEFINE ms == Makers(o)
<1>8. /\ ms \in [1..m -> C]
      /\ \A j, k \in DOMAIN ms : j < k => Better(ms[j], ms[k])
  BY <1>7 DEF Makers, C
<1> HIDE DEF ms, m
<1>9. ASSUME NEW j \in 1..m, NEW k \in 1..m, j < k PROVE ms[j] # ms[k]
  <2>1. ms[j] \in C /\ ms[k] \in C /\ Better(ms[j], ms[k])
    BY <1>8, <1>9
  <2>2. ~ Better(ms[j], ms[j])
    BY <1>3, <1>4, <2>1 DEF Behind, Side, side
  <2> QED
    BY <2>1, <2>2
<1>10. \A j, k \in 1..m : j # k => ms[j] # ms[k]
  BY <1>1, <1>9
<1>11. ms \in [1..m -> resting]
  BY <1>1, <1>8
<1> QED
  BY <1>1, <1>10, <1>11 DEF ms

LEMMA FirstOnes ==
  ASSUME NEW m \in Nat, NEW D \in SUBSET (1..m), \A k \in D : \A j \in 1..m : j < k => j \in D
  PROVE  \E n \in Nat : n <= m /\ D = 1..n
<1> DEFINE I == (1..(m + 1)) \ D
<1>1. I \subseteq Nat /\ m + 1 \in I
  OBVIOUS
<1> HIDE DEF I
<1>2. PICK i \in I : \A j \in I : i <= j
  BY <1>1, LeastNumber
<1>3. i \in 1..(m + 1) /\ i \notin D /\ \A j \in 1..(m + 1) : j \notin D => i <= j
  BY <1>2 DEF I
<1>4. i - 1 \in Nat /\ i - 1 <= m
  BY <1>3
<1>5. \A j \in 1..(i - 1) : j \in D
  BY <1>3
<1>6. ASSUME NEW k \in D PROVE k \in 1..(i - 1)
  <2>1. k \in 1..m
    OBVIOUS
  <2>2. ~ (i < k)
    BY <1>3, <2>1
  <2>3. i # k
    BY <1>3
  <2> QED
    BY <1>3, <2>1, <2>2, <2>3
<1>7. D = 1..(i - 1)
  BY <1>5, <1>6
<1> QED
  BY <1>4, <1>7

\* What is left of each of the makers.
LeftOf(makers, m) == [j \in 1..m |-> Remaining(live[makers[j]])]

LEMMA BeforeIsTotal ==
  ASSUME NEW m \in Nat, NEW makers, \A j \in 1..m : Remaining(live[makers[j]]) \in Nat,
         NEW k \in 1..m
  PROVE  /\ Before(makers, k) = Total(LeftOf(makers, m), 1..(k - 1))
         /\ Before(makers, k) \in Nat
<1> DEFINE f == [j \in 1..(k - 1) |-> Remaining(live[makers[j]])]
           g == LeftOf(makers, m)
           S == 1..(k - 1)
<1>1. IsFiniteSet(S) /\ DOMAIN f = S /\ S \subseteq 1..m
  BY FS_Interval
<1>2. \A j \in S : f[j] \in Nat /\ f[j] = g[j]
  BY <1>1 DEF LeftOf
<1>3. Before(makers, k) = SumFunction(f)
  BY DEF Before
<1> HIDE DEF f, g, S
<1>4. SumFunction(f) = Total(f, S)
  BY <1>1, <1>2, SumFunctionIsTotal
<1>5. Total(f, S) = Total(g, S)
  <2>1. (\A j \in S : f[j] \in Int) /\ (\A j \in S : f[j] = g[j]) /\ IsFiniteSet(S)
    BY <1>1, <1>2
  <2> QED
    BY <2>1, TotalSame
<1>6. Total(f, S) \in Nat
  BY <1>1, <1>2, TotalNonNegative
<1> QED
  BY <1>3, <1>4, <1>5, <1>6 DEF g, S

\* The makers before an earlier one have less.
LEMMA BeforeGrows ==
  ASSUME NEW m \in Nat, NEW makers, \A j \in 1..m : Remaining(live[makers[j]]) \in Nat,
         NEW k \in 1..m, NEW i \in 1..m, i < k
  PROVE  Before(makers, i) <= Before(makers, k)
<1> DEFINE g == LeftOf(makers, m)
<1>1. IsFiniteSet(1..(k - 1)) /\ 1..(i - 1) \in SUBSET (1..(k - 1))
  BY FS_Interval
<1>2. \A j \in 1..(k - 1) : g[j] \in Nat
  BY DEF LeftOf
<1> HIDE DEF g
<1>3. Total(g, 1..(i - 1)) <= Total(g, 1..(k - 1))
  BY <1>1, <1>2, TotalOfPart
<1>4. Before(makers, i) = Total(g, 1..(i - 1)) /\ Before(makers, k) = Total(g, 1..(k - 1))
  BY BeforeIsTotal DEF g
<1> QED
  BY <1>3, <1>4

LEMMA TradeFields ==
  ASSUME NEW o, NEW id, NEW quantity, live[id].id = id
  PROVE  /\ IsTrade(Trade(o, id, quantity))
         /\ Trade(o, id, quantity).quantity = quantity
         /\ {Trade(o, id, quantity).buyOrderId, Trade(o, id, quantity).sellOrderId}
              = {o.id, id}
<1>1. IsTrade(Trade(o, id, quantity))
  BY DEF Trade, IsTrade, TradePlain, TradeDecimals
<1> QED
  BY <1>1 DEF Trade

\* What matching a new order makes of the resting orders.
MatchedBy(o, trades) ==
  /\ GoodTrades(trades)
  /\ QuantityOf(trades, o.id) <= o.quantity
  /\ \A id \in resting : QuantityOf(trades, id) <= Remaining(live[id])
  /\ \A id : id \notin resting /\ id # o.id => QuantityOf(trades, id) = 0

LEMMA OrderIsMatched ==
  ASSUME EngineReady, NEW o, NewOrder(o)
  PROVE  MatchedBy(o, TradesWith(o, Makers(o)))
<1> DEFINE ms == Makers(o)
           ts == TradesWith(o, ms)
<1>1. PICK m \in Nat : /\ ms \in [1..m -> resting]
                       /\ \A j, k \in 1..m : j # k => ms[j] # ms[k]
  BY MakersAreListed
<1> HIDE DEF ms
<1>2. ASSUME NEW j \in 1..m
      PROVE  /\ ms[j] \in resting /\ ms[j] # o.id /\ live[ms[j]].id = ms[j]
             /\ Remaining(live[ms[j]]) \in Nat
  BY <1>1 DEF EngineReady, NewOrder
<1> DEFINE D == {j \in DOMAIN ms : Before(ms, j) < o.quantity}
<1>3. D \in SUBSET (1..m) /\ \A j \in 1..m : j \in D <=> Before(ms, j) < o.quantity
  BY <1>1
<1>4. PICK n \in Nat : n <= m /\ D = 1..n
  <2>1. ASSUME NEW k \in D, NEW j \in 1..m, j < k PROVE j \in D
    <3>1. k \in 1..m /\ Before(ms, k) < o.quantity
      BY <1>3
    <3>2. \A i \in 1..m : Remaining(live[ms[i]]) \in Nat
      BY <1>2
    <3>3. Before(ms, j) <= Before(ms, k) /\ Before(ms, j) \in Nat /\ Before(ms, k) \in Nat
      BY <2>1, <3>1, <3>2, BeforeGrows, BeforeIsTotal
    <3> QED
      BY <1>3, <3>1, <3>3 DEF NewOrder
  <2> HIDE DEF D
  <2> QED
    BY <1>3, <2>1, FirstOnes
<1>5. ts = [k \in 1..n |-> Trade(o, ms[k], Taken(o, ms, k))]
  BY <1>4 DEF TradesWith
<1> HIDE DEF ts
<1>6. ASSUME NEW k \in 1..n
      PROVE  /\ k \in 1..m /\ ms[k] \in resting
             /\ IsTrade(ts[k]) /\ ts[k].quantity = Taken(o, ms, k)
             /\ {ts[k].buyOrderId, ts[k].sellOrderId} = {o.id, ms[k]}
             /\ Before(ms, k) \in Nat
             /\ Taken(o, ms, k) \in Nat
             /\ Taken(o, ms, k) <= Remaining(live[ms[k]])
             /\ Taken(o, ms, k) <= o.quantity - Before(ms, k)
  <2>1. k \in 1..m /\ Before(ms, k) < o.quantity
    BY <1>3, <1>4
  <2>2. ts[k] = Trade(o, ms[k], Taken(o, ms, k))
    BY <1>5
  <2>3. /\ IsTrade(ts[k]) /\ ts[k].quantity = Taken(o, ms, k)
        /\ {ts[k].buyOrderId, ts[k].sellOrderId} = {o.id, ms[k]}
    BY <1>2, <2>1, <2>2, TradeFields
  <2>4. \A i \in 1..m : Remaining(live[ms[i]]) \in Nat
    BY <1>2
  <2>5. Before(ms, k) \in Nat
    BY <2>1, <2>4, BeforeIsTotal
  <2>6. /\ Taken(o, ms, k) \in Nat /\ Taken(o, ms, k) <= Remaining(live[ms[k]])
        /\ Taken(o, ms, k) <= o.quantity - Before(ms, k)
    BY <2>1, <2>4, <2>5 DEF Taken, Smaller, NewOrder
  <2> QED
    BY <1>2, <2>1, <2>3, <2>5, <2>6
<1>7. DOMAIN ts = 1..n /\ ts = [k \in 1..n |-> ts[k]]
  BY <1>5
<1>8. GoodTrades(ts)
  <2>1. Len(ts) = n
    BY <1>7, LenProperties
  <2> QED
    BY <1>6, <1>7, <2>1 DEF GoodTrades, IsSeq
<1>9. ASSUME NEW id
      PROVE  /\ QuantityOf(ts, id) = Total(Parts(ts, id), 1..n)
             /\ IsFiniteSet(1..n)
             /\ \A k \in 1..n : Parts(ts, id)[k] = IF id \in {o.id, ms[k]}
                                                  THEN Taken(o, ms, k) ELSE 0
  <2>1. QuantityOf(ts, id) = Total(Parts(ts, id), 1..n) /\ IsFiniteSet(1..n)
    BY <1>7, <1>8, QuantityIsTotal
  <2>2. ASSUME NEW k \in 1..n
        PROVE  Parts(ts, id)[k] = IF id \in {o.id, ms[k]} THEN Taken(o, ms, k) ELSE 0
    BY <1>6, <1>7 DEF Parts
  <2> QED
    BY <2>1, <2>2
<1>10. QuantityOf(ts, o.id) <= o.quantity
  <2> DEFINE f == Parts(ts, o.id)
             g == LeftOf(ms, m)
  <2>1. \A k \in 1..n : f[k] = Taken(o, ms, k) /\ f[k] \in Nat /\ f[k] <= g[k] /\ g[k] \in Nat
    <3>1. ASSUME NEW k \in 1..n
          PROVE  f[k] = Taken(o, ms, k) /\ f[k] \in Nat /\ f[k] <= g[k] /\ g[k] \in Nat
      <4>1. f[k] = Taken(o, ms, k)
        BY <1>9
      <4>2. k \in 1..m /\ Taken(o, ms, k) \in Nat /\ Taken(o, ms, k) <= Remaining(live[ms[k]])
        BY <1>6
      <4>3. g[k] = Remaining(live[ms[k]]) /\ Remaining(live[ms[k]]) \in Nat
        BY <1>2, <4>2 DEF LeftOf
      <4> HIDE DEF f, g
      <4> QED
        BY <4>1, <4>2, <4>3
    <3> HIDE DEF f, g
    <3> QED
      BY <3>1
  <2>2. QuantityOf(ts, o.id) = Total(f, 1..n) /\ IsFiniteSet(1..n)
    BY <1>9
  <2> HIDE DEF f
  <2>3. CASE n = 0
    <3>1. 1..n = {}
      BY <2>3
    <3>2. Total(f, 1..n) = 0
      BY <3>1, TotalEmpty
    <3> QED
      BY <2>2, <3>2 DEF NewOrder
  <2>4. CASE n # 0
    <3>1. n \in 1..n /\ (1..n) \ {n} = 1..(n - 1) /\ IsFiniteSet(1..(n - 1))
      BY <2>4, FS_Interval
    <3>2. Total(f, 1..n) = f[n] + Total(f, 1..(n - 1)) /\ Total(f, 1..(n - 1)) \in Int
      <4>1. \A k \in 1..n : f[k] \in Int
        BY <2>1
      <4> QED
        BY <2>2, <3>1, <4>1, TotalSplit
    <3>3. Total(f, 1..(n - 1)) <= Total(g, 1..(n - 1))
      <4>1. \A k \in 1..(n - 1) : f[k] \in Int /\ g[k] \in Int /\ f[k] <= g[k]
        BY <2>1
      <4> HIDE DEF g
      <4> QED
        BY <3>1, <4>1, TotalAtMost
    <3>4. Before(ms, n) = Total(g, 1..(n - 1))
      <4>1. \A i \in 1..m : Remaining(live[ms[i]]) \in Nat
        BY <1>2
      <4> QED
        BY <1>6, <3>1, <4>1, BeforeIsTotal
    <3>5. f[n] <= o.quantity - Before(ms, n) /\ Before(ms, n) \in Nat /\ f[n] \in Nat
      BY <1>6, <2>1, <3>1
    <3> HIDE DEF g
    <3> QED
      BY <2>2, <3>2, <3>3, <3>4, <3>5 DEF NewOrder
  <2> QED
    BY <2>3, <2>4
<1>11. ASSUME NEW id \in resting
       PROVE  QuantityOf(ts, id) <= Remaining(live[id])
  <2> DEFINE f == Parts(ts, id)
  <2>1. id # o.id /\ Remaining(live[id]) \in Nat
    BY DEF NewOrder, EngineReady
  <2>2. /\ QuantityOf(ts, id) = Total(f, 1..n) /\ IsFiniteSet(1..n)
        /\ \A k \in 1..n : f[k] = IF id = ms[k] THEN Taken(o, ms, k) ELSE 0
    BY <1>9, <2>1
  <2> HIDE DEF f
  <2>3. ASSUME NEW k \in 1..n, id = ms[k]
        PROVE  Total(f, 1..n) <= Remaining(live[id])
    <3>1. f[k] = Taken(o, ms, k) /\ f[k] \in Int /\ f[k] <= Remaining(live[id])
      BY <1>6, <2>2, <2>3
    <3>2. \A j \in (1..n) \ {k} : f[j] = 0
      BY <1>1, <1>6, <2>2, <2>3
    <3>3. Total(f, 1..n) = f[k]
      BY <2>2, <3>1, <3>2, TotalOfOne
    <3> QED
      BY <3>1, <3>3
  <2>4. CASE \A k \in 1..n : id # ms[k]
    <3>1. Total(f, 1..n) = 0
      BY <2>2, <2>4, TotalZero
    <3> QED
      BY <2>1, <2>2, <3>1
  <2> QED
    BY <2>2, <2>3, <2>4
<1>12. ASSUME NEW id, id \notin resting, id # o.id
       PROVE  QuantityOf(ts, id) = 0
  <2>1. ASSUME NEW k \in 1..n PROVE Parts(ts, id)[k] = 0
    <3>1. id \notin {o.id, ms[k]}
      BY <1>6, <1>12
    <3> QED
      BY <1>9, <3>1
  <2> QED
    BY <1>9, <2>1, TotalZero
<1> QED
  BY <1>8, <1>10, <1>11, <1>12 DEF MatchedBy, ts, ms

-----------------------------------------------------------------------------
(* The inductive invariant of the cluster.                                 *)

\* An order as it was sent, and what a call asked for.
Original(o) == [o EXCEPT !.status = "PENDING", !.filledQuantity = 0]
Asked(call) == IF IsSubmit(call) THEN <<Original(call.order[1])>> ELSE Absent
Request(c, call) ==
  [correlationId |-> c, action |-> call.action, symbol |-> "BTC-USD",
   order |-> Asked(call), orderId |-> call.orderId, depth |-> Absent]

GoodOrder(o) ==
  /\ IsOrder(o) /\ o.side \in Side /\ o.type \in {"LIMIT", "MARKET"}
  /\ o.type = "LIMIT" => o.price \in Nat
  /\ o.quantity \in Nat \ {0} /\ o.filledQuantity \in 0..o.quantity

\* The order was run and is not on the book; it will not be on it again.
Gone(id) == id \in DOMAIN ran /\ id \notin resting

\* What is said of order c is true of the worker's present or earlier run.
Truthful(c, o) ==
  /\ GoodOrder(o) /\ <<Original(o)>> = ran[c].order
  /\ QuantityOf(ran[c].trades, c) <= o.filledQuantity
  /\ ~ Rests(o) => Gone(c)
  /\ c \in DOMAIN live => o.filledQuantity <= live[c].filledQuantity

\* A reply to call c; one that says the command failed may come although it was run,
\* if a publish was refused.
TrueResult(c, r) ==
  /\ c \in DOMAIN calls /\ calls[c].answer # "refused"
  /\ \/ /\ IsSubmit(calls[c]) /\ r.success = TRUE /\ c \in DOMAIN ran
        /\ r.trades = <<ran[c].trades>>
        /\ r.order = <<r.order[1]>> /\ Truthful(c, r.order[1])
     \/ IsSubmit(calls[c]) /\ r.success = FALSE
     \/ ~ IsSubmit(calls[c]) /\ r.success = TRUE /\ c \in DOMAIN ran /\ ran[c].found
     \/ /\ ~ IsSubmit(calls[c]) /\ r.success = FALSE /\ c \in DOMAIN ran
        /\ ran[c].found => lost

IsCall(c, call) ==
  /\ call = [action |-> call.action, order |-> call.order, orderId |-> call.orderId,
             pc |-> call.pc, reply |-> call.reply, answer |-> call.answer,
             trades |-> call.trades]
  /\ call.pc \in {"publishing", "waiting", "done"}
  /\ call.answer \in {"none", "done", "failed", "not found", "timeout", "refused"}
  /\ call.pc = "done" <=> call.answer # "none"
  /\ IF IsSubmit(call)
     THEN /\ call.order = <<call.order[1]>> /\ GoodOrder(call.order[1])
          /\ call.order[1].id = c
     ELSE /\ call.action = "CANCEL_ORDER" /\ call.order = Absent
          /\ call.orderId = <<call.orderId[1]>> /\ call.orderId[1] \in DOMAIN ran

AnswerIsTrue(c, call) ==
  /\ call.answer = "done" =>
       /\ c \in DOMAIN ran
       /\ IsSubmit(call) => call.trades = ran[c].trades /\ Truthful(c, call.order[1])
       /\ ~ IsSubmit(call) => ran[c].found
  /\ call.answer # "done" => call.trades = << >>
  /\ call.answer = "not found" => c \in DOMAIN ran /\ (ran[c].found => lost)
  /\ IF IsSubmit(call) THEN call.answer # "not found" ELSE call.answer # "failed"

ReplyIsTrue(c, call) ==
  call.reply # Absent =>
    /\ call.pc = "publishing" /\ call.reply = <<call.reply[1]>>
    /\ TrueResult(c, call.reply[1])

CallsGood ==
  /\ IsSeq(calls)
  /\ \A c \in DOMAIN calls : /\ IsCall(c, calls[c])
                             /\ AnswerIsTrue(c, calls[c])
                             /\ ReplyIsTrue(c, calls[c])

PendingGood ==
  /\ pendingRequests \subseteq DOMAIN calls
  /\ gateway # "crashed" =>
       pendingRequests = {c \in DOMAIN calls : AwaitsReply(calls[c])}

\* The message of call c, as the router or as its catch block sends it.
IsCommandOf(m, c, call) ==
  \/ m = EncodeCommand(Request(c, call))
  \/ m = EncodeCommand(AsJson(Request(c, call)))

CommandsGood ==
  /\ IsSeq(toWorker)
  /\ \A i \in DOMAIN toWorker :
       LET c == toWorker[i].correlationId
       IN  /\ c \in DOMAIN calls /\ c \notin DOMAIN ran /\ calls[c].answer # "refused"
           /\ IsCommandOf(toWorker[i], c, calls[c])
  /\ \A i, j \in DOMAIN toWorker :
       i # j => toWorker[i].correlationId # toWorker[j].correlationId

MessageGood(m) ==
  \/ m.kind = "reply" /\ TrueResult(m.correlationId, DecodeResult(m.body))
  \/ m.kind = "snapshot" /\ m.body.from \in 0..incarnation

MessagesGood == IsSeq(toGateway) /\ \A m \in Elements(toGateway) : MessageGood(m)

\* The orders of the engine and its book.
EngineGood ==
  /\ DOMAIN live \subseteq DOMAIN ran
  /\ \A id \in DOMAIN live :
       /\ GoodOrder(live[id]) /\ live[id].id = id /\ ran[id].order = <<Original(live[id])>>
       /\ live[id].type = "MARKET" => ~ Rests(live[id])
       /\ QuantityOf(ran[id].trades, id) <= live[id].filledQuantity
  /\ resting = {id \in DOMAIN live : Rests(live[id])}

\* What the worker did.
RanGood ==
  /\ DOMAIN ran \subseteq DOMAIN calls
  /\ \A c \in DOMAIN ran :
       /\ GoodTrades(ran[c].trades) /\ ran[c].order = Asked(calls[c])
       /\ calls[c].answer # "refused"
       /\ ~ IsSubmit(calls[c]) => Gone(calls[c].orderId[1]) /\ ran[c].found \in BOOLEAN

HandlerGood(h) ==
  /\ h = [call |-> h.call, left |-> h.left, trades |-> h.trades, order |-> h.order,
          ok |-> h.ok]
  /\ h.call \in DOMAIN ran /\ h.left \in 1..(Len(h.trades) + 1)
  /\ h.ok = TRUE \/ (h.ok = FALSE /\ h.left = 1 /\ lost)
  /\ IF IsSubmit(calls[h.call])
     THEN h.order = h.call /\ h.call \in DOMAIN live /\ h.trades = ran[h.call].trades
     ELSE h.order = 0 /\ ran[h.call].found /\ h.trades = << >>

HandlersGood == (worker = "down" => handlers = {}) /\ \A h \in handlers : HandlerGood(h)

\* The newest snapshot, in the cache or on its way, follows the book.
Follows(body) ==
  body.from = incarnation /\ worker # "down" /\ ~ lost =>
    body.depth = DepthOf(live, resting) \/ \E h \in handlers : h.left > 1

IsSnapshotAt(i) == i \in DOMAIN toGateway /\ toGateway[i].kind = "snapshot"

CacheGood ==
  /\ incarnation \in Nat /\ lost \in BOOLEAN
  /\ snapshotCache # Absent => snapshotCache = <<snapshotCache[1]>>
                               /\ snapshotCache[1].from \in 0..incarnation
  /\ \A i \in DOMAIN toGateway :
       IsSnapshotAt(i) /\ (\A j \in DOMAIN toGateway : j > i => ~ IsSnapshotAt(j))
         => Follows(toGateway[i].body)
  /\ snapshotCache # Absent /\ (\A i \in DOMAIN toGateway : ~ IsSnapshotAt(i))
       => Follows(snapshotCache[1])

ClusterInv ==
  /\ CallsGood /\ PendingGood /\ CommandsGood /\ MessagesGood /\ EngineGood /\ RanGood
  /\ HandlersGood /\ CacheGood

-----------------------------------------------------------------------------
(* What no step takes back.                                                *)

Grows ==
  /\ \A c \in DOMAIN calls :
       /\ c \in DOMAIN calls' /\ calls'[c].action = calls[c].action
       /\ calls'[c].orderId = calls[c].orderId /\ Asked(calls'[c]) = Asked(calls[c])
       /\ calls[c].pc = "done" => calls'[c] = calls[c]
       /\ calls[c].answer # "refused" => calls'[c].answer # "refused"
  /\ lost => lost'
  /\ \A c \in DOMAIN ran :
       c \in DOMAIN ran' /\ ran'[c] = ran[c] /\ (c \in resting' => c \in resting)
  /\ \A id \in DOMAIN ran \cap DOMAIN live' :
       /\ id \in DOMAIN live
       /\ live[id].filledQuantity \in Nat /\ live'[id].filledQuantity \in Nat
       /\ live[id].filledQuantity <= live'[id].filledQuantity

LEMMA GoneKept ==
  ASSUME Grows
  PROVE  \A id : Gone(id) => Gone(id)'
BY DEF Grows, Gone

LEMMA TruthKept ==
  ASSUME Grows, NEW c \in DOMAIN ran
  PROVE  \A o : Truthful(c, o) => Truthful(c, o)'
<1> SUFFICES ASSUME NEW o, Truthful(c, o) PROVE Truthful(c, o)'
  OBVIOUS
<1>1. Gone(c) => Gone(c)'
  BY GoneKept
<1>2. ran'[c] = ran[c]
  BY DEF Grows
<1>3. c \in DOMAIN live' => o.filledQuantity <= live'[c].filledQuantity
  <2>1. o.filledQuantity \in Nat /\ o.quantity \in Nat
    BY DEF Truthful, GoodOrder
  <2> QED
    BY <2>1 DEF Truthful, Grows
<1>4. ~ Rests(o) => Gone(c)'
  BY <1>1 DEF Truthful
<1> QED
  BY <1>2, <1>3, <1>4 DEF Truthful

LEMMA ResultKept ==
  ASSUME Grows
  PROVE  \A c, r : TrueResult(c, r) => TrueResult(c, r)'
<1> SUFFICES ASSUME NEW c, NEW r, TrueResult(c, r) PROVE TrueResult(c, r)'
  OBVIOUS
<1>1. /\ c \in DOMAIN calls' /\ calls'[c].answer # "refused" /\ (lost => lost')
      /\ (IsSubmit(calls'[c]) <=> IsSubmit(calls[c]))
      /\ c \in DOMAIN ran => c \in DOMAIN ran' /\ ran'[c] = ran[c]
  BY DEF Grows, IsSubmit, TrueResult
<1>2. CASE /\ IsSubmit(calls[c]) /\ r.success = TRUE /\ c \in DOMAIN ran
           /\ r.trades = <<ran[c].trades>>
           /\ r.order = <<r.order[1]>> /\ Truthful(c, r.order[1])
  <2>1. PICK o : o = r.order[1]
    OBVIOUS
  <2>2. Truthful(c, o)'
    BY <1>2, <2>1, TruthKept
  <2> QED
    BY <1>1, <1>2, <2>1, <2>2 DEF TrueResult
<1>3. CASE IsSubmit(calls[c]) /\ r.success = FALSE
  BY <1>1, <1>3 DEF TrueResult
<1>4. CASE ~ IsSubmit(calls[c]) /\ r.success = TRUE /\ c \in DOMAIN ran /\ ran[c].found
  BY <1>1, <1>4 DEF TrueResult
<1>5. CASE /\ ~ IsSubmit(calls[c]) /\ r.success = FALSE /\ c \in DOMAIN ran
           /\ ran[c].found => lost
  BY <1>1, <1>5 DEF TrueResult
<1> QED
  BY <1>2, <1>3, <1>4, <1>5 DEF TrueResult

LEMMA CallKept ==
  ASSUME Grows
  PROVE  \A c, call : /\ IsCall(c, call) => IsCall(c, call)'
                      /\ AnswerIsTrue(c, call) => AnswerIsTrue(c, call)'
                      /\ ReplyIsTrue(c, call) => ReplyIsTrue(c, call)'
<1> SUFFICES ASSUME NEW c, NEW call
             PROVE  /\ IsCall(c, call) => IsCall(c, call)'
                    /\ AnswerIsTrue(c, call) => AnswerIsTrue(c, call)'
                    /\ ReplyIsTrue(c, call) => ReplyIsTrue(c, call)'
  OBVIOUS
<1>1. (lost => lost') /\ \A d \in DOMAIN ran : d \in DOMAIN ran' /\ ran'[d] = ran[d]
  BY DEF Grows
<1>2. IsCall(c, call) => IsCall(c, call)'
  BY <1>1 DEF IsCall
<1>3. AnswerIsTrue(c, call) => AnswerIsTrue(c, call)'
  <2>1. PICK o : o = call.order[1]
    OBVIOUS
  <2>2. c \in DOMAIN ran => (Truthful(c, o) => Truthful(c, o)')
    BY TruthKept
  <2> QED
    BY <1>1, <2>1, <2>2 DEF AnswerIsTrue
<1>4. ReplyIsTrue(c, call) => ReplyIsTrue(c, call)'
  <2>1. PICK r : r = call.reply[1]
    OBVIOUS
  <2>2. TrueResult(c, r) => TrueResult(c, r)'
    BY ResultKept
  <2> QED
    BY <2>1, <2>2 DEF ReplyIsTrue
<1> QED
  BY <1>2, <1>3, <1>4

-----------------------------------------------------------------------------
(* What a step that leaves a part of the state alone leaves true.          *)

LEMMA SameOrdersGrow ==
  ASSUME EngineGood, UNCHANGED <<calls, ran, live, resting>>, lost => lost'
  PROVE  Grows
BY DEF EngineGood, GoodOrder, Grows

LEMMA CallsKept ==
  ASSUME CallsGood, Grows, calls' = calls
  PROVE  CallsGood'
<1>1. \A c \in DOMAIN calls : /\ IsCall(c, calls[c])
                              /\ AnswerIsTrue(c, calls[c])
                              /\ ReplyIsTrue(c, calls[c])
  BY DEF CallsGood
<1>2. ASSUME NEW c \in DOMAIN calls
      PROVE  /\ IsCall(c, calls[c])'
             /\ AnswerIsTrue(c, calls[c])'
             /\ ReplyIsTrue(c, calls[c])'
  <2>1. PICK call : call = calls[c]
    OBVIOUS
  <2>2. IsCall(c, call) /\ AnswerIsTrue(c, call) /\ ReplyIsTrue(c, call)
    BY <1>1, <2>1
  <2>3. IsCall(c, call)' /\ AnswerIsTrue(c, call)' /\ ReplyIsTrue(c, call)'
    BY <2>2, CallKept
  <2> QED
    BY <2>1, <2>3
<1>3. IsSeq(calls)'
  BY DEF CallsGood
<1> QED
  BY <1>2, <1>3 DEF CallsGood

LEMMA CallsUpdated ==
  ASSUME CallsGood, Grows, NEW c \in DOMAIN calls, NEW x, calls' = [calls EXCEPT ![c] = x],
         IsCall(c, x)', AnswerIsTrue(c, x)', ReplyIsTrue(c, x)'
  PROVE  CallsGood'
<1>1. \A d \in DOMAIN calls : /\ IsCall(d, calls[d])
                              /\ AnswerIsTrue(d, calls[d])
                              /\ ReplyIsTrue(d, calls[d])
  BY DEF CallsGood
<1>2. DOMAIN calls' = DOMAIN calls
  OBVIOUS
<1>3. ASSUME NEW d \in DOMAIN calls
      PROVE  /\ IsCall(d, calls[d])'
             /\ AnswerIsTrue(d, calls[d])'
             /\ ReplyIsTrue(d, calls[d])'
  <2>1. PICK call : call = calls'[d]
    OBVIOUS
  <2>2. CASE d = c
    BY <2>2
  <2>3. CASE d # c
    <3>1. call = calls[d]
      BY <2>1, <2>3
    <3>2. IsCall(d, call) /\ AnswerIsTrue(d, call) /\ ReplyIsTrue(d, call)
      BY <1>1, <3>1
    <3>3. IsCall(d, call)' /\ AnswerIsTrue(d, call)' /\ ReplyIsTrue(d, call)'
      BY <3>2, CallKept
    <3> QED
      BY <2>1, <3>3
  <2> QED
    BY <2>2, <2>3
<1>4. IsSeq(calls)'
  <2>1. IsSeq(calls) /\ DOMAIN calls = 1..Len(calls) /\ Len(calls) \in Nat
    BY SeqFacts DEF CallsGood
  <2>2. calls \in Seq(Elements(calls) \cup {x})
    <3>1. \A i \in 1..Len(calls) : calls[i] \in Elements(calls)
      BY <2>1 DEF Elements
    <3> QED
      BY <2>1, <3>1, SeqDef DEF IsSeq
  <2>3. calls' \in Seq(Elements(calls) \cup {x})
    BY <2>2
  <2>4. PICK s : s = calls'
    OBVIOUS
  <2>5. IsSeq(s)
    BY <2>3, <2>4, IsSeqOf
  <2> QED
    BY <2>4, <2>5 DEF IsSeq
<1> QED
  BY <1>2, <1>3, <1>4 DEF CallsGood

LEMMA PendingKept ==
  ASSUME PendingGood, UNCHANGED <<calls, pendingRequests, gateway>>
  PROVE  PendingGood'
BY DEF PendingGood

LEMMA RequestKept ==
  ASSUME Grows, NEW c \in DOMAIN calls, NEW m, IsCommandOf(m, c, calls[c]),
         calls[c].answer # "refused"
  PROVE  /\ c \in DOMAIN calls' /\ calls'[c].answer # "refused"
         /\ IsCommandOf(m, c, calls'[c])
<1>1. c \in DOMAIN calls' /\ Request(c, calls'[c]) = Request(c, calls[c])
  BY DEF Grows, Request
<1> QED
  BY <1>1 DEF IsCommandOf, Grows

LEMMA CommandsKept ==
  ASSUME CommandsGood, Grows, DOMAIN ran' = DOMAIN ran, toWorker' = toWorker
  PROVE  CommandsGood'
BY RequestKept DEF CommandsGood

LEMMA CommandsShortened ==
  ASSUME CommandsGood, Grows, toWorker # << >>, toWorker' = Tail(toWorker),
         DOMAIN ran' \subseteq DOMAIN ran \cup {toWorker[1].correlationId}
  PROVE  CommandsGood'
<1>1. /\ IsSeq(Tail(toWorker)) /\ DOMAIN Tail(toWorker) = 1..(Len(toWorker) - 1)
      /\ \A i \in 1..(Len(toWorker) - 1) : Tail(toWorker)[i] = toWorker[i + 1]
      /\ 1 \in DOMAIN toWorker
  BY TailFacts DEF CommandsGood
<1>2. DOMAIN toWorker = 1..Len(toWorker) /\ Len(toWorker) \in Nat
  BY SeqFacts DEF CommandsGood
<1>3. IsSeq(toWorker)'
  BY <1>1 DEF IsSeq
<1>4. \A i \in DOMAIN toWorker' :
        i + 1 \in DOMAIN toWorker /\ i + 1 # 1 /\ toWorker'[i] = toWorker[i + 1]
  BY <1>1, <1>2
<1>5. ASSUME NEW i \in DOMAIN toWorker'
      PROVE  LET c == toWorker'[i].correlationId
             IN  /\ c \in DOMAIN calls' /\ c \notin DOMAIN ran'
                 /\ calls'[c].answer # "refused"
                 /\ IsCommandOf(toWorker'[i], c, calls'[c])
  <2>1. toWorker[i + 1].correlationId # toWorker[1].correlationId
    BY <1>1, <1>4 DEF CommandsGood
  <2> QED
    BY <1>4, <2>1, RequestKept DEF CommandsGood
<1>6. ASSUME NEW i \in DOMAIN toWorker', NEW j \in DOMAIN toWorker', i # j
      PROVE  toWorker'[i].correlationId # toWorker'[j].correlationId
  <2>1. i + 1 # j + 1
    BY <1>1, <1>2, <1>6
  <2> QED
    BY <1>4, <2>1 DEF CommandsGood
<1> QED
  BY <1>3, <1>5, <1>6 DEF CommandsGood

Ages == incarnation \in Nat /\ incarnation' \in Nat /\ incarnation <= incarnation'

LEMMA MessageKept ==
  ASSUME Grows, Ages
  PROVE  \A m : MessageGood(m) => MessageGood(m)'
<1> SUFFICES ASSUME NEW m, MessageGood(m) PROVE MessageGood(m)'
  OBVIOUS
<1>1. CASE m.kind = "reply" /\ TrueResult(m.correlationId, DecodeResult(m.body))
  BY <1>1, ResultKept DEF MessageGood
<1>2. CASE m.kind = "snapshot" /\ m.body.from \in 0..incarnation
  BY <1>2 DEF MessageGood, Ages
<1> QED
  BY <1>1, <1>2 DEF MessageGood

LEMMA MessagesKept ==
  ASSUME MessagesGood, Grows, Ages, IsSeq(toGateway'),
         Elements(toGateway') \subseteq Elements(toGateway)
  PROVE  MessagesGood'
<1>1. \A m \in Elements(toGateway') : MessageGood(m)'
  BY MessageKept DEF MessagesGood
<1>2. IsSeq(toGateway)' /\ Elements(toGateway') = Elements(toGateway)'
  BY DEF IsSeq, Elements
<1> QED
  BY <1>1, <1>2 DEF MessagesGood

LEMMA MessagesAdded ==
  ASSUME MessagesGood, Grows, Ages, NEW m, MessageGood(m)', toGateway' = Append(toGateway, m)
  PROVE  MessagesGood'
<1>1. /\ IsSeq(toGateway')
      /\ Elements(toGateway') = Elements(toGateway) \cup {m}
  BY AppendFacts DEF MessagesGood
<1>2. \A n \in Elements(toGateway) : MessageGood(n)'
  BY MessageKept DEF MessagesGood
<1>3. IsSeq(toGateway)' /\ Elements(toGateway') = Elements(toGateway)'
  BY <1>1 DEF IsSeq, Elements
<1> QED
  BY <1>1, <1>2, <1>3 DEF MessagesGood

LEMMA EngineKept ==
  ASSUME EngineGood, Grows, UNCHANGED <<live, resting>>
  PROVE  EngineGood'
BY DEF EngineGood, Grows

LEMMA RanKept ==
  ASSUME RanGood, Grows
  PROVE  \A c \in DOMAIN ran :
           /\ c \in DOMAIN calls /\ c \in DOMAIN calls' /\ GoodTrades(ran[c].trades)
           /\ ran[c].order = Asked(calls'[c]) /\ calls'[c].answer # "refused"
           /\ ~ IsSubmit(calls'[c]) =>
                Gone(calls[c].orderId[1])' /\ ran[c].found \in BOOLEAN
<1> SUFFICES ASSUME NEW c \in DOMAIN ran
             PROVE  /\ c \in DOMAIN calls /\ c \in DOMAIN calls' /\ GoodTrades(ran[c].trades)
                    /\ ran[c].order = Asked(calls'[c]) /\ calls'[c].answer # "refused"
                    /\ ~ IsSubmit(calls'[c]) =>
                         Gone(calls[c].orderId[1])' /\ ran[c].found \in BOOLEAN
  OBVIOUS
<1>1. /\ c \in DOMAIN calls /\ c \in DOMAIN calls'
      /\ IsSubmit(calls'[c]) <=> IsSubmit(calls[c])
      /\ calls'[c].orderId = calls[c].orderId /\ Asked(calls'[c]) = Asked(calls[c])
      /\ calls'[c].answer # "refused"
  BY DEF RanGood, Grows, IsSubmit
<1>2. ASSUME ~ IsSubmit(calls'[c])
      PROVE  Gone(calls[c].orderId[1])' /\ ran[c].found \in BOOLEAN
  <2>1. PICK id : id = calls[c].orderId[1]
    OBVIOUS
  <2>2. Gone(id) /\ ran[c].found \in BOOLEAN
    BY <1>1, <1>2, <2>1 DEF RanGood
  <2>3. id = calls'[c].orderId[1]
    BY <1>1, <2>1
  <2> QED
    BY <2>2, <2>3, GoneKept
<1> QED
  BY <1>1, <1>2 DEF RanGood

LEMMA RanUnchanged ==
  ASSUME RanGood, Grows, ran' = ran
  PROVE  RanGood'
BY RanKept DEF RanGood

LEMMA HandlerKept ==
  ASSUME RanGood, Grows, DOMAIN live \subseteq DOMAIN live'
  PROVE  \A h : HandlerGood(h) => HandlerGood(h)'
BY DEF HandlerGood, RanGood, Grows, IsSubmit

LEMMA HandlersKept ==
  ASSUME HandlersGood, RanGood, Grows, handlers' \subseteq handlers,
         worker' = "down" => worker = "down",
         DOMAIN live \subseteq DOMAIN live'
  PROVE  HandlersGood'
BY HandlerKept DEF HandlersGood

LEMMA CacheKept ==
  ASSUME CacheGood, UNCHANGED <<incarnation, snapshotCache, toGateway, worker, lost, live,
                                resting, handlers>>
  PROVE  CacheGood'
<1>1. \A body : Follows(body) => Follows(body)'
  BY DEF Follows
<1> QED
  BY <1>1 DEF CacheGood, IsSnapshotAt

-----------------------------------------------------------------------------
(* The steps that run nothing: messages move, the worker stops.            *)

LEMMA OldestSnapshotTaken ==
  ASSUME CacheGood, MessagesGood, toGateway # << >>, toGateway' = Tail(toGateway),
         UNCHANGED <<incarnation, worker, live, resting, handlers>>,
         \/ /\ Head(toGateway).kind # "snapshot" /\ UNCHANGED <<lost, snapshotCache>>
         \/ /\ Head(toGateway).kind = "snapshot" /\ UNCHANGED lost
            /\ snapshotCache' = <<Head(toGateway).body>>
         \/ lost' = TRUE /\ UNCHANGED snapshotCache
  PROVE  CacheGood'
<1>1. /\ DOMAIN toGateway' = 1..(Len(toGateway) - 1)
      /\ \A i \in 1..(Len(toGateway) - 1) : toGateway'[i] = toGateway[i + 1]
      /\ Head(toGateway) = toGateway[1] /\ 1 \in DOMAIN toGateway
      /\ Head(toGateway) \in Elements(toGateway)
  BY TailFacts DEF MessagesGood
<1>2. DOMAIN toGateway = 1..Len(toGateway) /\ Len(toGateway) \in Nat
  BY SeqFacts DEF MessagesGood
<1>3. \A i : i \in DOMAIN toGateway' =>
               /\ i \in Nat /\ i + 1 \in DOMAIN toGateway /\ toGateway'[i] = toGateway[i + 1]
               /\ IsSnapshotAt(i)' <=> IsSnapshotAt(i + 1)
  BY <1>1, <1>2 DEF IsSnapshotAt
<1>4. \A i \in DOMAIN toGateway : i # 1 => i - 1 \in DOMAIN toGateway' /\ (i - 1) + 1 = i
  BY <1>1, <1>2
<1>5. \A body : Follows(body) => Follows(body)'
  BY DEF Follows
<1>6. ASSUME snapshotCache' # Absent
      PROVE  snapshotCache' = <<snapshotCache'[1]>> /\ snapshotCache'[1].from \in 0..incarnation'
  <2>1. CASE snapshotCache' = snapshotCache
    BY <1>6, <2>1 DEF CacheGood
  <2>2. CASE Head(toGateway).kind = "snapshot" /\ snapshotCache' = <<Head(toGateway).body>>
    BY <1>1, <2>2 DEF MessagesGood, MessageGood
  <2> QED
    BY <2>1, <2>2
<1>7. ASSUME NEW i \in DOMAIN toGateway', IsSnapshotAt(i)',
             \A j \in DOMAIN toGateway' : j > i => ~ IsSnapshotAt(j)'
      PROVE  Follows(toGateway[i].body)'
  <2>1. IsSnapshotAt(i + 1) /\ i + 1 \in DOMAIN toGateway /\ i \in Nat
    BY <1>3, <1>7
  <2>2. ASSUME NEW j \in DOMAIN toGateway, j > i + 1 PROVE ~ IsSnapshotAt(j)
    <3>1. j \in Nat /\ j # 1 /\ j - 1 > i
      BY <1>2, <2>1, <2>2
    <3>2. j - 1 \in DOMAIN toGateway' /\ (j - 1) + 1 = j
      BY <1>4, <3>1
    <3> QED
      BY <1>3, <1>7, <3>1, <3>2
  <2>3. Follows(toGateway[i + 1].body)
    BY <2>1, <2>2 DEF CacheGood
  <2>4. PICK body : body = toGateway'[i].body
    OBVIOUS
  <2>5. body = toGateway[i + 1].body
    BY <1>3, <2>4
  <2> QED
    BY <1>5, <2>3, <2>4, <2>5 DEF Follows
<1>8. ASSUME snapshotCache' # Absent, \A i \in DOMAIN toGateway' : ~ IsSnapshotAt(i)'
      PROVE  Follows(snapshotCache[1])'
  <2>1. \A j \in DOMAIN toGateway : j # 1 => ~ IsSnapshotAt(j)
    BY <1>3, <1>4, <1>8
  <2>2. CASE Head(toGateway).kind # "snapshot" /\ UNCHANGED <<lost, snapshotCache>>
    <3>1. \A j \in DOMAIN toGateway : ~ IsSnapshotAt(j)
      BY <1>1, <2>1, <2>2 DEF IsSnapshotAt
    <3>2. Follows(snapshotCache[1])
      BY <1>8, <2>2, <3>1 DEF CacheGood
    <3> QED
      BY <2>2, <3>2 DEF Follows
  <2>3. CASE /\ Head(toGateway).kind = "snapshot" /\ UNCHANGED lost
             /\ snapshotCache' = <<Head(toGateway).body>>
    <3>1. Follows(toGateway[1].body)
      <4>1. \A j \in DOMAIN toGateway : j > 1 => ~ IsSnapshotAt(j)
        BY <1>2, <2>1
      <4>2. IsSnapshotAt(1)
        BY <1>1, <2>3 DEF IsSnapshotAt
      <4> QED
        BY <1>1, <4>1, <4>2 DEF CacheGood
    <3>2. snapshotCache'[1] = toGateway[1].body
      BY <1>1, <2>3
    <3> QED
      BY <2>3, <3>1, <3>2 DEF Follows
  <2>4. CASE lost' = TRUE
    BY <2>4 DEF Follows
  <2> QED
    BY <2>2, <2>3, <2>4
<1>9. incarnation' \in Nat /\ lost' \in BOOLEAN
  BY DEF CacheGood
<1> QED
  BY <1>6, <1>7, <1>8, <1>9 DEF CacheGood

LEMMA SnapshotReceived ==
  ASSUME ClusterInv, ReceiveSnapshot
  PROVE  ClusterInv' /\ Grows
<1> USE DEF ClusterInv
<1>1. /\ toGateway # << >> /\ Head(toGateway).kind = "snapshot"
      /\ toGateway' = Tail(toGateway) /\ snapshotCache' = <<Head(toGateway).body>>
      /\ UNCHANGED <<calls, pendingRequests, gateway, toWorker, worker, incarnation, live,
                     resting, handlers, ran, faults, lost>>
  BY DEF ReceiveSnapshot, Received, workerVars, faultVars
<1>2. Grows
  BY <1>1, SameOrdersGrow
<1>3. CallsGood'
  BY <1>1, <1>2, CallsKept
<1>4. PendingGood'
  BY <1>1, PendingKept
<1>5. CommandsGood'
  BY <1>1, <1>2, CommandsKept
<1>6. MessagesGood'
  <2>1. Ages
    BY <1>1 DEF Ages, CacheGood
  <2>2. IsSeq(toGateway') /\ Elements(toGateway') \subseteq Elements(toGateway)
    BY <1>1, TailFacts DEF MessagesGood
  <2> QED
    BY <1>2, <2>1, <2>2, MessagesKept
<1>7. EngineGood'
  BY <1>1, <1>2, EngineKept
<1>8. RanGood'
  BY <1>1, <1>2, RanUnchanged
<1>9. HandlersGood'
  BY <1>1, <1>2, HandlersKept
<1>10. CacheGood'
  BY <1>1, OldestSnapshotTaken
<1> QED
  BY <1>2, <1>3, <1>4, <1>5, <1>6, <1>7, <1>8, <1>9, <1>10

LEMMA MessageLost ==
  ASSUME ClusterInv, LoseMessage
  PROVE  ClusterInv' /\ Grows
<1> USE DEF ClusterInv
<1>1. UNCHANGED <<calls, pendingRequests, gateway, snapshotCache, worker, incarnation, live,
                  resting, handlers, ran>>
  BY DEF LoseMessage, routerVars, workerVars
<1>2. \/ /\ toWorker # << >> /\ toWorker' = Tail(toWorker) /\ UNCHANGED <<toGateway, lost>>
      \/ /\ toGateway # << >> /\ toGateway' = Tail(toGateway) /\ UNCHANGED toWorker
         /\ lost' = (lost \/ Head(toGateway).kind = "snapshot")
  BY DEF LoseMessage
<1>3. Grows
  <2>1. lost => lost'
    BY <1>2
  <2> QED
    BY <1>1, <2>1, SameOrdersGrow
<1>4. CallsGood' /\ PendingGood' /\ EngineGood' /\ RanGood' /\ HandlersGood'
  BY <1>1, <1>3, CallsKept, PendingKept, EngineKept, RanUnchanged, HandlersKept
<1>5. CASE toWorker # << >> /\ toWorker' = Tail(toWorker) /\ UNCHANGED <<toGateway, lost>>
  <2>1. CommandsGood'
    BY <1>1, <1>3, <1>5, CommandsShortened
  <2>2. MessagesGood'
    BY <1>1, <1>3, <1>5, MessagesKept DEF Ages, CacheGood, MessagesGood
  <2>3. CacheGood'
    BY <1>1, <1>5, CacheKept
  <2> QED
    BY <1>3, <1>4, <2>1, <2>2, <2>3
<1>6. CASE /\ toGateway # << >> /\ toGateway' = Tail(toGateway) /\ UNCHANGED toWorker
           /\ lost' = (lost \/ Head(toGateway).kind = "snapshot")
  <2>1. CommandsGood'
    BY <1>1, <1>3, <1>6, CommandsKept
  <2>2. MessagesGood'
    <3>1. IsSeq(toGateway') /\ Elements(toGateway') \subseteq Elements(toGateway)
      BY <1>6, TailFacts DEF MessagesGood
    <3> QED
      BY <1>1, <1>3, <3>1, MessagesKept DEF Ages, CacheGood
  <2>3. CacheGood'
    <3>1. CASE Head(toGateway).kind = "snapshot"
      BY <1>1, <1>6, <3>1, OldestSnapshotTaken
    <3>2. CASE Head(toGateway).kind # "snapshot"
      <4>1. lost' = lost
        BY <1>6, <3>2 DEF CacheGood
      <4> QED
        BY <1>1, <1>6, <3>2, <4>1, OldestSnapshotTaken
    <3> QED
      BY <3>1, <3>2
  <2> QED
    BY <1>3, <1>4, <2>1, <2>2, <2>3
<1> QED
  BY <1>2, <1>5, <1>6

LEMMA CommandDropped ==
  ASSUME ClusterInv, DropCommand
  PROVE  ClusterInv' /\ Grows
<1> USE DEF ClusterInv
<1>1. /\ toWorker # << >> /\ toWorker' = Tail(toWorker)
      /\ UNCHANGED <<calls, pendingRequests, gateway, snapshotCache, worker, incarnation,
                     live, resting, handlers, ran, toGateway, lost>>
  BY DEF DropCommand, routerVars, workerVars, faultVars
<1>2. Grows
  BY <1>1, SameOrdersGrow
<1>3. CallsGood' /\ PendingGood' /\ EngineGood' /\ RanGood' /\ HandlersGood' /\ CacheGood'
  BY <1>1, <1>2, CallsKept, PendingKept, EngineKept, RanUnchanged, HandlersKept, CacheKept
<1>4. CommandsGood'
  BY <1>1, <1>2, CommandsShortened
<1>5. MessagesGood'
  BY <1>1, <1>2, MessagesKept DEF Ages, CacheGood, MessagesGood
<1> QED
  BY <1>2, <1>3, <1>4, <1>5

LEMMA WorkerStopped ==
  ASSUME ClusterInv, StopWorker
  PROVE  ClusterInv' /\ Grows
<1> USE DEF ClusterInv
<1>1. /\ worker = "listening" /\ worker' = "stopping"
      /\ UNCHANGED <<calls, pendingRequests, gateway, snapshotCache, incarnation, live,
                     resting, handlers, ran, toWorker, toGateway, lost>>
  BY DEF StopWorker, routerVars
<1>2. Grows
  BY <1>1, SameOrdersGrow
<1>3. CallsGood' /\ PendingGood' /\ EngineGood' /\ RanGood' /\ CommandsGood'
  BY <1>1, <1>2, CallsKept, PendingKept, EngineKept, RanUnchanged, CommandsKept
<1>4. MessagesGood'
  BY <1>1, <1>2, MessagesKept DEF Ages, CacheGood, MessagesGood
<1>5. HandlersGood'
  BY <1>1, <1>2, HandlersKept
<1>6. CacheGood'
  <2>1. \A body : Follows(body) => Follows(body)'
    BY <1>1 DEF Follows
  <2> QED
    BY <1>1, <2>1 DEF CacheGood, IsSnapshotAt
<1> QED
  BY <1>2, <1>3, <1>4, <1>5, <1>6

LEMMA WorkerExited ==
  ASSUME ClusterInv, ExitWorker
  PROVE  ClusterInv' /\ Grows
<1> USE DEF ClusterInv
<1>1. /\ worker' = "down" /\ handlers' = {}
      /\ UNCHANGED <<calls, pendingRequests, gateway, snapshotCache, incarnation, live,
                     resting, ran, toWorker, lost>>
  BY DEF ExitWorker, routerVars
<1>2. PICK n \in 0..Len(toGateway) : toGateway' = SubSeq(toGateway, 1, n)
  BY DEF ExitWorker
<1>3. Grows
  BY <1>1, SameOrdersGrow
<1>4. CallsGood' /\ PendingGood' /\ EngineGood' /\ RanGood' /\ CommandsGood'
  BY <1>1, <1>3, CallsKept, PendingKept, EngineKept, RanUnchanged, CommandsKept
<1>5. MessagesGood'
  <2>1. IsSeq(toGateway') /\ Elements(toGateway') \subseteq Elements(toGateway)
    BY <1>2, FrontFacts DEF MessagesGood
  <2> QED
    BY <1>1, <1>3, <2>1, MessagesKept DEF Ages, CacheGood
<1>6. HandlersGood'
  BY <1>1 DEF HandlersGood
<1>7. CacheGood'
  <2>1. \A body : Follows(body)'
    BY <1>1 DEF Follows
  <2> QED
    BY <1>1, <2>1 DEF CacheGood
<1> QED
  BY <1>3, <1>4, <1>5, <1>6, <1>7

LEMMA WorkerStarted ==
  ASSUME ClusterInv, StartWorker
  PROVE  ClusterInv' /\ Grows
<1> USE DEF ClusterInv
<1>1. /\ worker = "down" /\ worker' = "listening" /\ incarnation' = incarnation + 1
      /\ live' = << >> /\ resting' = {}
      /\ UNCHANGED <<calls, pendingRequests, gateway, snapshotCache, ran, toWorker, toGateway,
                     handlers, lost>>
  BY DEF StartWorker, routerVars, faultVars
<1>2. DOMAIN live' = {} /\ handlers = {}
  BY <1>1 DEF HandlersGood
<1>3. Grows
  BY <1>1, <1>2 DEF Grows
<1>4. CallsGood' /\ PendingGood' /\ RanGood' /\ CommandsGood'
  BY <1>1, <1>3, CallsKept, PendingKept, RanUnchanged, CommandsKept
<1>5. EngineGood'
  BY <1>1, <1>2 DEF EngineGood
<1>6. MessagesGood'
  BY <1>1, <1>3, MessagesKept DEF Ages, CacheGood, MessagesGood
<1>7. HandlersGood'
  BY <1>1, <1>2 DEF HandlersGood
<1>8. CacheGood'
  <2>1. incarnation \in Nat /\ incarnation' \in Nat
    BY <1>1 DEF CacheGood
  <2>2. \A body : body.from \in 0..incarnation => body.from \in 0..incarnation' /\ Follows(body)'
    BY <1>1, <2>1 DEF Follows
  <2>3. \A i \in DOMAIN toGateway : IsSnapshotAt(i) => toGateway[i].body.from \in 0..incarnation
    BY DEF MessagesGood, MessageGood, IsSnapshotAt, Elements
  <2> QED
    BY <1>1, <2>1, <2>2, <2>3 DEF CacheGood, IsSnapshotAt
<1> QED
  BY <1>3, <1>4, <1>5, <1>6, <1>7, <1>8

-----------------------------------------------------------------------------
(* The steps that change a call: acknowledgements, timers, replies.        *)

LEMMA SameButForFills ==
  ASSUME NEW a, NEW b, IsOrder(a), IsOrder(b), Original(a) = Original(b)
  PROVE  [a EXCEPT !.status = b.status, !.filledQuantity = b.filledQuantity] = b
<1> DEFINE x == [a EXCEPT !.status = b.status, !.filledQuantity = b.filledQuantity]
<1>1. DOMAIN a = OrderFields /\ DOMAIN b = OrderFields
  BY DEF IsOrder
<1>2. \A f \in OrderFields : f \notin {"status", "filledQuantity"} => a[f] = b[f]
  <2>1. SUFFICES ASSUME NEW f \in OrderFields, f \notin {"status", "filledQuantity"}
                 PROVE  a[f] = b[f]
    OBVIOUS
  <2>2. Original(a)[f] = a[f] /\ Original(b)[f] = b[f]
    BY <1>1, <2>1 DEF Original
  <2> QED
    BY <2>2
<1>3. "status" \in OrderFields /\ "filledQuantity" \in OrderFields
  BY DEF OrderFields, OrderPlain, OrderDecimals
<1>4. \A f \in OrderFields : x[f] = b[f]
  BY <1>1, <1>2, <1>3
<1>5. x = [f \in OrderFields |-> x[f]] /\ b = [f \in OrderFields |-> b[f]]
  BY <1>1 DEF IsOrder
<1> QED
  BY <1>4, <1>5

LEMMA AnsweredGood ==
  ASSUME CallsGood, RanGood, NEW c \in DOMAIN calls, calls[c].pc # "done",
         NEW res, TrueResult(c, res), NEW x, x = Answered(calls[c], res)
  PROVE  /\ IsCall(c, x) /\ AnswerIsTrue(c, x) /\ ReplyIsTrue(c, x)
         /\ x.action = calls[c].action /\ x.orderId = calls[c].orderId
         /\ Asked(x) = Asked(calls[c]) /\ x.pc = "done" /\ x.answer # "refused"
<1>1. PICK call : call = calls[c]
  OBVIOUS
<1>2. /\ IsCall(c, call) /\ AnswerIsTrue(c, call) /\ call.pc # "done"
      /\ call.answer = "none" /\ call.trades = << >>
  BY <1>1 DEF CallsGood, IsCall, AnswerIsTrue
<1>3. call = [action |-> call.action, order |-> call.order, orderId |-> call.orderId,
              pc |-> call.pc, reply |-> call.reply, answer |-> call.answer,
              trades |-> call.trades]
  BY <1>2 DEF IsCall
<1>4. CASE /\ IsSubmit(call) /\ res.success = TRUE /\ c \in DOMAIN ran
           /\ res.trades = <<ran[c].trades>>
           /\ res.order = <<res.order[1]>> /\ Truthful(c, res.order[1])
  <2>1. /\ res.success = TRUE /\ res.trades = <<ran[c].trades>>
        /\ Truthful(c, res.order[1]) /\ c \in DOMAIN ran
    BY <1>4
  <2>2. PICK o : o = res.order[1]
    OBVIOUS
  <2>3. PICK a : a = call.order[1]
    OBVIOUS
  <2>4. GoodOrder(o) /\ <<Original(o)>> = ran[c].order /\ Truthful(c, o)
    BY <2>1, <2>2 DEF Truthful
  <2>5. ran[c].order = <<Original(a)>>
    BY <1>1, <1>4, <2>1, <2>3 DEF RanGood, Asked
  <2>6. Original(o) = Original(a)
    BY <2>4, <2>5
  <2>7. GoodOrder(a) /\ a.id = c
    BY <1>2, <1>4, <2>3 DEF IsCall
  <2>8. [a EXCEPT !.status = o.status, !.filledQuantity = o.filledQuantity] = o
    BY <2>4, <2>6, <2>7, SameButForFills DEF GoodOrder
  <2>9. o.id = c
    <3>1. "id" \in OrderFields
      BY DEF OrderFields, OrderPlain
    <3>2. Original(o).id = o.id /\ Original(a).id = a.id
      BY <3>1, <2>4, <2>7 DEF Original, GoodOrder, IsOrder
    <3> QED
      BY <2>6, <2>7, <3>2
  <2>10. x = [call EXCEPT !.pc = "done", !.reply = Absent, !.answer = "done",
                          !.order = <<o>>, !.trades = res.trades[1]]
    BY <1>1, <1>4, <2>1, <2>2, <2>3, <2>8 DEF Answered
  <2>11. x = [action |-> call.action, order |-> <<o>>, orderId |-> call.orderId,
              pc |-> "done", reply |-> Absent, answer |-> "done",
              trades |-> res.trades[1]]
    BY <1>3, <2>10
  <2>12. x.order[1] = o /\ x.trades = ran[c].trades /\ IsSubmit(x) /\ x.reply = Absent
         /\ x.answer = "done"
    BY <1>4, <2>1, <2>11 DEF IsSubmit
  <2>13. IsCall(c, x)
    BY <2>4, <2>9, <2>11, <2>12 DEF IsCall
  <2>14. AnswerIsTrue(c, x)
    BY <2>1, <2>4, <2>12 DEF AnswerIsTrue
  <2>15. ReplyIsTrue(c, x)
    BY <2>12 DEF ReplyIsTrue
  <2>16. Asked(x) = Asked(call)
    BY <1>4, <2>3, <2>6, <2>12 DEF Asked
  <2> QED
    BY <1>1, <2>11, <2>12, <2>13, <2>14, <2>15, <2>16
<1>5. ASSUME NEW answer,
             \/ IsSubmit(call) /\ res.success = FALSE /\ answer = "failed"
             \/ /\ ~ IsSubmit(call) /\ c \in DOMAIN ran
                /\ \/ res.success = TRUE /\ answer = "done" /\ ran[c].found
                   \/ res.success = FALSE /\ answer = "not found" /\ (ran[c].found => lost)
      PROVE  /\ IsCall(c, x) /\ AnswerIsTrue(c, x) /\ ReplyIsTrue(c, x)
             /\ x.action = calls[c].action /\ x.orderId = calls[c].orderId
             /\ Asked(x) = Asked(calls[c]) /\ x.pc = "done" /\ x.answer # "refused"
  <2>1. x = [call EXCEPT !.pc = "done", !.reply = Absent, !.answer = answer]
    BY <1>1, <1>5 DEF Answered
  <2>2. x = [action |-> call.action, order |-> call.order, orderId |-> call.orderId,
             pc |-> "done", reply |-> Absent, answer |-> answer, trades |-> << >>]
    BY <1>2, <1>3, <2>1
  <2>3. /\ IsSubmit(x) <=> IsSubmit(call)
        /\ x.answer = answer /\ x.trades = << >> /\ x.reply = Absent
        /\ x.pc = "done" /\ x.order = call.order /\ x.orderId = call.orderId
        /\ x.action = call.action
    BY <2>2 DEF IsSubmit
  <2>4. IsCall(c, x)
    BY <1>2, <1>5, <2>2, <2>3 DEF IsCall
  <2>5. AnswerIsTrue(c, x)
    BY <1>5, <2>3 DEF AnswerIsTrue
  <2>6. ReplyIsTrue(c, x) /\ Asked(x) = Asked(call)
    BY <2>3 DEF ReplyIsTrue, Asked
  <2> QED
    BY <1>1, <1>5, <2>3, <2>4, <2>5, <2>6
<1>6. CASE IsSubmit(call) /\ res.success = FALSE
  BY <1>5, <1>6
<1>7. CASE ~ IsSubmit(call) /\ res.success = TRUE /\ c \in DOMAIN ran /\ ran[c].found
  BY <1>5, <1>7
<1>8. CASE ~ IsSubmit(call) /\ res.success = FALSE /\ c \in DOMAIN ran /\ (ran[c].found => lost)
  BY <1>5, <1>8
<1> QED
  BY <1>1, <1>4, <1>6, <1>7, <1>8 DEF TrueResult

LEMMA OneCallChanges ==
  ASSUME CallsGood, EngineGood, UNCHANGED <<ran, live, resting, lost>>,
         NEW c \in DOMAIN calls, calls[c].pc # "done", NEW x, x.answer # "refused",
         calls' = [calls EXCEPT ![c] = x],
         IsCall(c, x), AnswerIsTrue(c, x), ReplyIsTrue(c, x),
         x.action = calls[c].action, x.orderId = calls[c].orderId, Asked(x) = Asked(calls[c])
  PROVE  Grows /\ CallsGood'
<1>1. \A id \in DOMAIN live : live[id].filledQuantity \in Nat
  BY DEF EngineGood, GoodOrder
<1>2. \A d \in DOMAIN calls :
        /\ d \in DOMAIN calls' /\ calls'[d].action = calls[d].action
        /\ calls'[d].orderId = calls[d].orderId /\ Asked(calls'[d]) = Asked(calls[d])
        /\ calls[d].pc = "done" => calls'[d] = calls[d]
        /\ calls[d].answer # "refused" => calls'[d].answer # "refused"
  OBVIOUS
<1>3. Grows
  BY <1>1, <1>2 DEF Grows
<1>4. IsCall(c, x)' /\ AnswerIsTrue(c, x)' /\ ReplyIsTrue(c, x)'
  BY <1>3, CallKept
<1> QED
  BY <1>3, <1>4, CallsUpdated

LEMMA PublishAcknowledged ==
  ASSUME ClusterInv, NEW c \in DOMAIN calls, PublishAcked(c)
  PROVE  ClusterInv' /\ Grows
<1> USE DEF ClusterInv
<1>1. /\ gateway = "up" /\ calls[c].pc = "publishing"
      /\ UNCHANGED <<pendingRequests, gateway, snapshotCache, toWorker, toGateway, worker,
                     incarnation, live, resting, handlers, ran, lost>>
  BY DEF PublishAcked, workerVars, faultVars
<1>2. PICK call : call = calls[c]
  OBVIOUS
<1>3. PICK x : x = IF call.reply = Absent THEN [call EXCEPT !.pc = "waiting"]
                   ELSE Answered(call, call.reply[1])
  OBVIOUS
<1>4. calls' = [calls EXCEPT ![c] = x]
  BY <1>2, <1>3 DEF PublishAcked
<1>5. IsCall(c, call) /\ AnswerIsTrue(c, call) /\ ReplyIsTrue(c, call)
  BY <1>2 DEF CallsGood
<1>6. /\ IsCall(c, x) /\ AnswerIsTrue(c, x) /\ ReplyIsTrue(c, x)
      /\ x.action = call.action /\ x.orderId = call.orderId
      /\ Asked(x) = Asked(call) /\ x.answer # "refused"
      /\ (x.pc # "done" /\ x.reply = Absent) <=> call.reply = Absent
  <2>1. CASE call.reply = Absent
    <3>1. x = [action |-> call.action, order |-> call.order, orderId |-> call.orderId,
               pc |-> "waiting", reply |-> Absent, answer |-> call.answer,
               trades |-> call.trades]
      BY <1>3, <1>5, <2>1 DEF IsCall
    <3>2. /\ x.action = call.action /\ x.order = call.order /\ x.orderId = call.orderId
          /\ x.pc = "waiting" /\ x.reply = Absent /\ x.answer = call.answer
          /\ x.trades = call.trades /\ (IsSubmit(x) <=> IsSubmit(call))
      BY <3>1 DEF IsSubmit
    <3>3. IsCall(c, x) /\ x.answer # "refused"
      BY <1>1, <1>2, <1>5, <3>1, <3>2 DEF IsCall
    <3>4. AnswerIsTrue(c, x)
      BY <1>5, <3>2 DEF AnswerIsTrue
    <3>5. ReplyIsTrue(c, x) /\ Asked(x) = Asked(call)
      BY <3>2 DEF ReplyIsTrue, Asked
    <3> QED
      BY <2>1, <3>2, <3>3, <3>4, <3>5
  <2>2. CASE call.reply # Absent
    <3>1. TrueResult(c, call.reply[1])
      BY <1>5, <2>2 DEF ReplyIsTrue
    <3>2. PICK res : res = call.reply[1]
      OBVIOUS
    <3>3. x = Answered(calls[c], res) /\ calls[c].pc # "done" /\ TrueResult(c, res)
      BY <1>1, <1>2, <1>3, <2>2, <3>1, <3>2
    <3> QED
      BY <1>2, <2>2, <3>3, AnsweredGood
  <2> QED
    BY <2>1, <2>2
<1>7. Grows /\ CallsGood'
  <2>1. x.action = calls[c].action /\ x.orderId = calls[c].orderId /\ Asked(x) = Asked(calls[c])
    BY <1>2, <1>6
  <2> QED
    BY <1>1, <1>4, <1>6, <2>1, OneCallChanges
<1>8. PendingGood'
  <2>1. \A d \in DOMAIN calls :
          AwaitsReply(calls'[d]) <=> AwaitsReply(calls[d])
    <3>1. calls[c].answer # "refused"
      BY <1>1, <1>2, <1>5 DEF IsCall
    <3> QED
      BY <1>1, <1>2, <1>4, <1>6, <3>1 DEF AwaitsReply
  <2>2. DOMAIN calls' = DOMAIN calls
    BY <1>4
  <2> QED
    BY <1>1, <2>1, <2>2 DEF PendingGood
<1>9. EngineGood' /\ RanGood' /\ CommandsGood'
  BY <1>1, <1>7, EngineKept, RanUnchanged, CommandsKept
<1>10. MessagesGood'
  BY <1>1, <1>7, MessagesKept DEF Ages, CacheGood, MessagesGood
<1>11. HandlersGood'
  BY <1>1, <1>7, HandlersKept
<1>12. CacheGood'
  BY <1>1, CacheKept
<1> QED
  BY <1>7, <1>8, <1>9, <1>10, <1>11, <1>12

LEMMA TimerFired ==
  ASSUME ClusterInv, NEW c \in pendingRequests, TimerFires(c)
  PROVE  ClusterInv' /\ Grows
<1> USE DEF ClusterInv
<1>1. /\ gateway = "up" /\ pendingRequests' = pendingRequests \ {c} /\ c \in DOMAIN calls
      /\ AwaitsReply(calls[c])
      /\ UNCHANGED <<snapshotCache, toWorker, toGateway, worker, incarnation, live, resting,
                     handlers, ran, lost>>
  BY DEF TimerFires, workerVars, PendingGood
<1>2. PICK call : call = calls[c]
  OBVIOUS
<1>3. IsCall(c, call) /\ AnswerIsTrue(c, call) /\ ReplyIsTrue(c, call)
  BY <1>1, <1>2 DEF CallsGood
<1>4. CallsGood' /\ PendingGood' /\ Grows
  <2>1. CASE call.pc # "waiting"
    <3>1. gateway' = "crashed" /\ calls' = calls
      BY <1>2, <2>1 DEF TimerFires
    <3>2. Grows
      BY <1>1, <3>1, SameOrdersGrow
    <3>3. PendingGood'
      BY <1>1, <3>1 DEF PendingGood
    <3> QED
      BY <3>1, <3>2, <3>3, CallsKept
  <2>2. CASE call.pc = "waiting"
    <3>1. /\ gateway' = gateway
          /\ calls' = [calls EXCEPT ![c].pc = "done", ![c].answer = "timeout"]
          /\ call.answer = "none" /\ call.reply = Absent
      BY <1>1, <1>2, <1>3, <2>2 DEF TimerFires, AwaitsReply, IsCall
    <3>2. PICK x : x = [call EXCEPT !.pc = "done", !.answer = "timeout"]
      OBVIOUS
    <3>3. calls' = [calls EXCEPT ![c] = x]
      BY <1>1, <1>2, <3>1, <3>2
    <3>4. x = [action |-> call.action, order |-> call.order, orderId |-> call.orderId,
               pc |-> "done", reply |-> Absent, answer |-> "timeout", trades |-> call.trades]
      BY <1>3, <3>1, <3>2 DEF IsCall
    <3>5. /\ x.action = call.action /\ x.order = call.order /\ x.orderId = call.orderId
          /\ x.pc = "done" /\ x.reply = Absent /\ x.answer = "timeout"
          /\ x.trades = call.trades /\ (IsSubmit(x) <=> IsSubmit(call))
      BY <3>4 DEF IsSubmit
    <3>6. IsCall(c, x)
      BY <1>3, <3>4, <3>5 DEF IsCall
    <3>7. AnswerIsTrue(c, x)
      BY <1>3, <3>1, <3>5 DEF AnswerIsTrue
    <3>8. ReplyIsTrue(c, x) /\ Asked(x) = Asked(call)
      BY <3>5 DEF ReplyIsTrue, Asked
    <3>9. Grows /\ CallsGood'
      <4>1. x.action = calls[c].action /\ x.orderId = calls[c].orderId
            /\ Asked(x) = Asked(calls[c])
        BY <1>2, <3>5, <3>8
      <4>2. calls[c].pc # "done" /\ x.answer # "refused"
        BY <1>2, <2>2, <3>5
      <4> QED
        BY <1>1, <3>3, <3>6, <3>7, <3>8, <4>1, <4>2, OneCallChanges
    <3>10. PendingGood'
      <4>1. \A d \in DOMAIN calls :
              AwaitsReply(calls'[d]) <=> (AwaitsReply(calls[d]) /\ d # c)
        BY <1>1, <3>3, <3>5 DEF AwaitsReply
      <4>2. DOMAIN calls' = DOMAIN calls
        BY <3>3
      <4> QED
        BY <1>1, <3>1, <4>1, <4>2 DEF PendingGood
    <3> QED
      BY <3>9, <3>10
  <2> QED
    BY <2>1, <2>2
<1>5. EngineGood' /\ RanGood' /\ CommandsGood'
  BY <1>1, <1>4, EngineKept, RanUnchanged, CommandsKept
<1>6. MessagesGood'
  BY <1>1, <1>4, MessagesKept DEF Ages, CacheGood, MessagesGood
<1>7. HandlersGood'
  BY <1>1, <1>4, HandlersKept
<1>8. CacheGood'
  BY <1>1, CacheKept
<1> QED
  BY <1>4, <1>5, <1>6, <1>7, <1>8

LEMMA ReplyReceived ==
  ASSUME ClusterInv, ReceiveReply
  PROVE  ClusterInv' /\ Grows
<1> USE DEF ClusterInv
<1>1. /\ gateway = "up" /\ toGateway # << >> /\ Head(toGateway).kind = "reply"
      /\ toGateway' = Tail(toGateway)
      /\ HandleReply(Head(toGateway).correlationId, Head(toGateway).body)
      /\ UNCHANGED <<gateway, snapshotCache, toWorker, worker, incarnation, live, resting,
                     handlers, ran, lost>>
  BY DEF ReceiveReply, Received, workerVars, faultVars
<1>2. PICK c : c = Head(toGateway).correlationId
  OBVIOUS
<1>3. PICK res : res = DecodeResult(Head(toGateway).body)
  OBVIOUS
<1>4. TrueResult(c, res)
  <2>1. Head(toGateway) \in Elements(toGateway)
    BY <1>1, TailFacts DEF MessagesGood
  <2> QED
    BY <1>1, <1>2, <1>3, <2>1 DEF MessagesGood, MessageGood
<1>5. CallsGood' /\ PendingGood' /\ Grows
  <2>1. CASE c \notin pendingRequests
    <3>1. UNCHANGED <<calls, pendingRequests>>
      BY <1>1, <1>2, <2>1 DEF HandleReply
    <3> QED
      BY <1>1, <3>1, SameOrdersGrow, CallsKept, PendingKept
  <2>2. CASE c \in pendingRequests
    <3>1. PICK call : call = calls[c]
      OBVIOUS
    <3>2. PICK x : x = IF call.pc = "waiting" THEN Answered(call, res)
                       ELSE [call EXCEPT !.reply = <<res>>]
      OBVIOUS
    <3>3. pendingRequests' = pendingRequests \ {c} /\ calls' = [calls EXCEPT ![c] = x]
      BY <1>1, <1>2, <1>3, <2>2, <3>1, <3>2 DEF HandleReply
    <3>4. /\ c \in DOMAIN calls /\ call.pc # "done" /\ call.reply = Absent
          /\ call.answer # "refused"
      BY <1>1, <1>4, <2>2, <3>1 DEF PendingGood, AwaitsReply, TrueResult
    <3>5. IsCall(c, call) /\ AnswerIsTrue(c, call)
      BY <3>1, <3>4 DEF CallsGood
    <3>6. /\ IsCall(c, x) /\ AnswerIsTrue(c, x) /\ ReplyIsTrue(c, x)
          /\ x.action = calls[c].action /\ x.orderId = calls[c].orderId
          /\ Asked(x) = Asked(calls[c]) /\ (x.pc = "done" \/ x.reply # Absent)
          /\ x.answer # "refused"
      <4>1. CASE call.pc = "waiting"
        <5>1. x = Answered(calls[c], res) /\ calls[c].pc # "done"
          BY <3>1, <3>2, <4>1
        <5> QED
          BY <1>4, <3>4, <5>1, AnsweredGood
      <4>2. CASE call.pc # "waiting"
        <5>1. x = [action |-> call.action, order |-> call.order, orderId |-> call.orderId,
                   pc |-> call.pc, reply |-> <<res>>, answer |-> call.answer,
                   trades |-> call.trades]
          BY <3>2, <3>5, <4>2 DEF IsCall
        <5>2. /\ x.action = call.action /\ x.order = call.order /\ x.orderId = call.orderId
              /\ x.pc = "publishing" /\ x.reply = <<res>> /\ x.answer = call.answer
              /\ x.trades = call.trades /\ (IsSubmit(x) <=> IsSubmit(call))
          BY <3>4, <3>5, <4>2, <5>1 DEF IsSubmit, IsCall
        <5>3. IsCall(c, x)
          BY <3>4, <3>5, <5>1, <5>2 DEF IsCall
        <5>4. AnswerIsTrue(c, x)
          BY <3>5, <5>2 DEF AnswerIsTrue
        <5>5. ReplyIsTrue(c, x) /\ Asked(x) = Asked(call) /\ x.reply # Absent
          BY <1>4, <5>2 DEF ReplyIsTrue, Asked, Absent
        <5> QED
          BY <3>1, <3>4, <5>2, <5>3, <5>4, <5>5
      <4> QED
        BY <4>1, <4>2
    <3>7. Grows /\ CallsGood'
      <4>1. calls[c].pc # "done"
        BY <3>1, <3>4
      <4> QED
        BY <1>1, <3>3, <3>4, <3>6, <4>1, OneCallChanges
    <3>8. PendingGood'
      <4>1. \A d \in DOMAIN calls :
              AwaitsReply(calls'[d]) <=> (AwaitsReply(calls[d]) /\ d # c)
        BY <3>3, <3>4, <3>6 DEF AwaitsReply
      <4>2. DOMAIN calls' = DOMAIN calls
        BY <3>3
      <4> QED
        BY <1>1, <3>3, <4>1, <4>2 DEF PendingGood
    <3> QED
      BY <3>7, <3>8
  <2> QED
    BY <2>1, <2>2
<1>6. EngineGood' /\ RanGood' /\ CommandsGood'
  BY <1>1, <1>5, EngineKept, RanUnchanged, CommandsKept
<1>7. MessagesGood'
  <2>1. Ages
    BY <1>1 DEF Ages, CacheGood
  <2>2. IsSeq(toGateway') /\ Elements(toGateway') \subseteq Elements(toGateway)
    BY <1>1, TailFacts DEF MessagesGood
  <2> QED
    BY <1>5, <2>1, <2>2, MessagesKept
<1>8. HandlersGood'
  BY <1>1, <1>5, HandlersKept
<1>9. CacheGood'
  <2>1. Head(toGateway).kind # "snapshot"
    BY <1>1
  <2> QED
    BY <1>1, <2>1, OldestSnapshotTaken
<1> QED
  BY <1>5, <1>6, <1>7, <1>8, <1>9

-----------------------------------------------------------------------------
(* A call is made.                                                         *)

LEMMA CommandKeyed ==
  ASSUME NEW cmd
  PROVE  EncodeCommand(cmd).correlationId = cmd.correlationId
BY DEF EncodeCommand, Fields, CommandMessage

\* A call that has only been made.
Fresh(c, call) ==
  /\ IsCall(c, call) /\ call.answer \in {"none", "refused"}
  /\ call.reply = Absent /\ call.trades = << >> /\ call.order = Asked(call)

LEMMA CommandAdded ==
  ASSUME CommandsGood, Grows, UNCHANGED ran, NEW c, c \notin DOMAIN calls, c \notin DOMAIN ran,
         c \in DOMAIN calls', NEW call, calls'[c] = call, call.answer # "refused",
         NEW m, IsCommandOf(m, c, call), m.correlationId = c, toWorker' = Append(toWorker, m)
  PROVE  CommandsGood'
<1>1. IsSeq(toWorker) /\ DOMAIN toWorker = 1..Len(toWorker) /\ Len(toWorker) \in Nat
  BY SeqFacts DEF CommandsGood
<1>2. /\ IsSeq(toWorker') /\ DOMAIN toWorker' = 1..(Len(toWorker) + 1)
      /\ \A i \in 1..Len(toWorker) : toWorker'[i] = toWorker[i]
      /\ toWorker'[Len(toWorker) + 1] = m
  BY <1>1, AppendFacts
<1>3. \A i \in DOMAIN toWorker' :
        \/ i \in DOMAIN toWorker /\ toWorker'[i] = toWorker[i]
        \/ i = Len(toWorker) + 1 /\ toWorker'[i] = m
  BY <1>1, <1>2
<1>4. ASSUME NEW i \in DOMAIN toWorker'
      PROVE  LET d == toWorker'[i].correlationId
             IN  /\ d \in DOMAIN calls' /\ d \notin DOMAIN ran'
                 /\ calls'[d].answer # "refused"
                 /\ IsCommandOf(toWorker'[i], d, calls'[d])
  <2>1. CASE i \in DOMAIN toWorker /\ toWorker'[i] = toWorker[i]
    BY <2>1, RequestKept DEF CommandsGood
  <2>2. CASE toWorker'[i] = m
    BY <2>2
  <2> QED
    BY <1>3, <2>1, <2>2
<1>5. ASSUME NEW i \in DOMAIN toWorker', NEW j \in DOMAIN toWorker', i # j
      PROVE  toWorker'[i].correlationId # toWorker'[j].correlationId
  <2>1. \A k \in DOMAIN toWorker : toWorker[k].correlationId # c
    BY DEF CommandsGood
  <2> QED
    BY <1>3, <1>5, <2>1 DEF CommandsGood
<1>6. IsSeq(toWorker)'
  BY <1>2 DEF IsSeq
<1> QED
  BY <1>4, <1>5, <1>6 DEF CommandsGood

LEMMA CallMade ==
  ASSUME ClusterInv, NEW call, NEW c, c = NextCall, Fresh(c, call), Send(call)
  PROVE  /\ ClusterInv' /\ Grows
         /\ c \notin DOMAIN calls /\ DOMAIN calls' = DOMAIN calls \cup {c} /\ calls'[c] = call
         /\ \A d \in DOMAIN calls : calls'[d] = calls[d]
         /\ UNCHANGED <<ran, live, resting>>
<1> USE DEF ClusterInv
<1>1. /\ gateway = "up" /\ calls' = Append(calls, call)
      /\ pendingRequests' = pendingRequests \cup {c}
      /\ UNCHANGED <<gateway, snapshotCache, toGateway, worker, incarnation, live, resting,
                     handlers, ran, lost>>
  BY DEF Send, workerVars
<1>2. DOMAIN calls = 1..Len(calls) /\ Len(calls) \in Nat /\ IsSeq(calls) /\ c = Len(calls) + 1
  BY SeqFacts DEF CallsGood, NextCall
<1>3. /\ IsSeq(calls') /\ DOMAIN calls' = 1..(Len(calls) + 1)
      /\ \A i \in 1..Len(calls) : calls'[i] = calls[i]
      /\ calls'[Len(calls) + 1] = call
  BY <1>1, <1>2, AppendFacts
<1>4. c \notin DOMAIN calls /\ DOMAIN calls' = DOMAIN calls \cup {c} /\ calls'[c] = call
  BY <1>2, <1>3
<1>5. \A d \in DOMAIN calls : calls'[d] = calls[d]
  BY <1>2, <1>3
<1>6. Grows
  BY <1>1, <1>4, <1>5 DEF Grows, EngineGood, GoodOrder
<1>7. CallsGood'
  <2>1. IsSeq(calls)'
    BY <1>3 DEF IsSeq
  <2>2. /\ IsCall(c, call)' /\ AnswerIsTrue(c, call)' /\ ReplyIsTrue(c, call)'
    <3>1. IsCall(c, call) /\ AnswerIsTrue(c, call) /\ ReplyIsTrue(c, call)
      BY DEF Fresh, AnswerIsTrue, ReplyIsTrue
    <3> QED
      BY <1>6, <3>1, CallKept
  <2>3. ASSUME NEW d \in DOMAIN calls'
        PROVE  /\ IsCall(d, calls[d])'
               /\ AnswerIsTrue(d, calls[d])'
               /\ ReplyIsTrue(d, calls[d])'
    <3>1. PICK x : x = calls'[d]
      OBVIOUS
    <3>2. CASE d = c
      BY <1>4, <2>2, <3>2
    <3>3. CASE d # c
      <4>1. d \in DOMAIN calls /\ x = calls[d]
        BY <1>4, <1>5, <3>1, <3>3
      <4>2. IsCall(d, x) /\ AnswerIsTrue(d, x) /\ ReplyIsTrue(d, x)
        BY <4>1 DEF CallsGood
      <4>3. IsCall(d, x)' /\ AnswerIsTrue(d, x)' /\ ReplyIsTrue(d, x)'
        BY <1>6, <4>2, CallKept
      <4> QED
        BY <3>1, <4>3
    <3> QED
      BY <3>2, <3>3
  <2> QED
    BY <2>1, <2>3 DEF CallsGood
<1>8. PendingGood'
  <2>1. pendingRequests = {d \in DOMAIN calls : AwaitsReply(calls[d])}
    BY <1>1 DEF PendingGood
  <2>2. AwaitsReply(calls'[c])
    BY <1>4 DEF Fresh, AwaitsReply, IsCall
  <2>3. \A d \in DOMAIN calls : AwaitsReply(calls'[d]) <=> AwaitsReply(calls[d])
    BY <1>5
  <2> QED
    BY <1>1, <1>4, <2>1, <2>2, <2>3 DEF PendingGood
<1>9. CommandsGood'
  <2>1. CASE UNCHANGED toWorker
    BY <1>1, <1>6, <2>1, CommandsKept
  <2>2. ASSUME NEW m, IsCommandOf(m, c, call), m.correlationId = c, call.answer # "refused",
               toWorker' = Append(toWorker, m)
        PROVE  CommandsGood'
    BY <1>1, <1>4, <1>5, <1>6, <2>2, CommandAdded DEF RanGood
  <2>3. CASE /\ call.pc # "done"
             /\ toWorker' = Append(toWorker, EncodeCommand(Command(c, call)))
    <3>1. PICK m : m = EncodeCommand(Command(c, call))
      OBVIOUS
    <3>2. Command(c, call) = Request(c, call) /\ Request(c, call).correlationId = c
      BY DEF Command, Request, Fresh
    <3>3. m = EncodeCommand(Request(c, call)) /\ m.correlationId = c /\ call.answer # "refused"
      BY <2>3, <3>1, <3>2, CommandKeyed DEF Fresh, IsCall
    <3> QED
      BY <2>2, <2>3, <3>1, <3>3 DEF IsCommandOf
  <2>4. CASE /\ call.pc = "waiting"
             /\ toWorker' = Append(toWorker, EncodeCommand(AsJson(Command(c, call))))
    <3>1. PICK m : m = EncodeCommand(AsJson(Command(c, call)))
      OBVIOUS
    <3>2. /\ Command(c, call) = Request(c, call)
          /\ AsJson(Request(c, call)).correlationId = c
      BY DEF Command, Request, Fresh, AsJson
    <3>3. /\ m = EncodeCommand(AsJson(Request(c, call))) /\ m.correlationId = c
          /\ call.answer # "refused"
      BY <2>4, <3>1, <3>2, CommandKeyed DEF Fresh, IsCall
    <3> QED
      BY <2>2, <2>4, <3>1, <3>3 DEF IsCommandOf
  <2> QED
    BY <2>1, <2>3, <2>4 DEF Send
<1>10. EngineGood' /\ RanGood'
  BY <1>1, <1>6, EngineKept, RanUnchanged
<1>11. MessagesGood'
  BY <1>1, <1>6, MessagesKept DEF Ages, CacheGood, MessagesGood
<1>12. HandlersGood'
  BY <1>1, <1>6, HandlersKept
<1>13. CacheGood'
  BY <1>1, CacheKept
<1> QED
  BY <1>1, <1>4, <1>5, <1>6, <1>7, <1>8, <1>9, <1>10, <1>11, <1>12, <1>13

LEMMA PublishSends ==
  ASSUME NEW call, Publish(call), call.pc = "publishing", call.answer = "none"
  PROVE  \E pc, answer :
           /\ \/ pc \in {"publishing", "waiting"} /\ answer = "none"
              \/ pc = "done" /\ answer = "refused"
           /\ Send([call EXCEPT !.pc = pc, !.answer = answer])
<1>1. CASE Send([call EXCEPT !.pc = "done", !.answer = "refused"])
  BY <1>1
<1>2. ASSUME NEW pc \in {"publishing", "waiting"}, Send([call EXCEPT !.pc = pc])
      PROVE  Send([call EXCEPT !.pc = pc, !.answer = "none"])
  <2>1. [call EXCEPT !.pc = pc, !.answer = "none"] = [call EXCEPT !.pc = pc]
    OBVIOUS
  <2> QED
    BY <1>2, <2>1
<1> QED
  BY <1>1, <1>2 DEF Publish

\* An order somebody may ask for.
GoodRequest(r) ==
  /\ r.side \in Side /\ r.type \in {"LIMIT", "MARKET"}
  /\ r.type = "LIMIT" => r.price \in Nat
  /\ r.quantity \in Nat \ {0}

LEMMA OrderSubmitted ==
  ASSUME ClusterInv, NEW r, GoodRequest(r), NEW c, c = NextCall, SubmitOrder(r)
  PROVE  /\ ClusterInv' /\ Grows
         /\ c \notin DOMAIN calls /\ DOMAIN calls' = DOMAIN calls \cup {c}
         /\ IsSubmit(calls'[c]) /\ calls'[c].order[1] = CreateOrder(c, r)
         /\ calls'[c].answer \in {"none", "refused"}
         /\ \A d \in DOMAIN calls : calls'[d] = calls[d]
         /\ UNCHANGED <<ran, live, resting>>
<1>1. PICK pc, answer :
        /\ \/ pc \in {"publishing", "waiting"} /\ answer = "none"
           \/ pc = "done" /\ answer = "refused"
        /\ Send([Call("SUBMIT_ORDER", <<CreateOrder(c, r)>>, Absent)
                   EXCEPT !.pc = pc, !.answer = answer])
  BY PublishSends DEF SubmitOrder, Call
<1>2. PICK call : call = [Call("SUBMIT_ORDER", <<CreateOrder(c, r)>>, Absent)
                            EXCEPT !.pc = pc, !.answer = answer]
  OBVIOUS
<1>3. PICK o : o = CreateOrder(c, r)
  OBVIOUS
<1>4. GoodOrder(o) /\ o.id = c /\ Original(o) = o
  <2>1. IsOrder(o) /\ o.id = c
    BY <1>3 DEF CreateOrder, IsOrder, OrderFields, OrderPlain, OrderDecimals, OrderOptional
  <2>2. Original(o) = o
    <3>1. o.status = "PENDING" /\ o.filledQuantity = 0 /\ DOMAIN o = OrderFields
      BY <1>3, <2>1 DEF CreateOrder, IsOrder
    <3>2. \A f \in OrderFields : Original(o)[f] = o[f]
      BY <3>1 DEF Original
    <3>3. Original(o) = [f \in OrderFields |-> Original(o)[f]]
      BY <3>1 DEF Original
    <3> QED
      BY <2>1, <3>2, <3>3 DEF IsOrder
  <2> QED
    BY <1>3, <2>1, <2>2 DEF GoodOrder, GoodRequest, CreateOrder
<1>5. call = [action |-> "SUBMIT_ORDER", order |-> <<o>>, orderId |-> Absent, pc |-> pc,
              reply |-> Absent, answer |-> answer, trades |-> << >>]
  BY <1>2, <1>3 DEF Call
<1>6. /\ call.action = "SUBMIT_ORDER" /\ call.order = <<o>> /\ call.orderId = Absent
      /\ call.pc = pc /\ call.reply = Absent /\ call.answer = answer /\ call.trades = << >>
      /\ IsSubmit(call) /\ call.order[1] = o
  BY <1>5 DEF IsSubmit
<1>7. Fresh(c, call)
  BY <1>1, <1>4, <1>5, <1>6 DEF Fresh, IsCall, Asked
<1>8. Send(call)
  BY <1>1, <1>2
<1> QED
  BY <1>1, <1>3, <1>6, <1>7, <1>8, CallMade

LEMMA OrderCancelled ==
  ASSUME ClusterInv, NEW id \in DOMAIN ran, NEW c, c = NextCall, CancelOrder(id)
  PROVE  /\ ClusterInv' /\ Grows
         /\ c \notin DOMAIN calls /\ DOMAIN calls' = DOMAIN calls \cup {c}
         /\ ~ IsSubmit(calls'[c]) /\ calls'[c].orderId = <<id>>
         /\ calls'[c].answer \in {"none", "refused"}
         /\ \A d \in DOMAIN calls : calls'[d] = calls[d]
         /\ UNCHANGED <<ran, live, resting>>
<1>1. PICK pc, answer :
        /\ \/ pc \in {"publishing", "waiting"} /\ answer = "none"
           \/ pc = "done" /\ answer = "refused"
        /\ Send([Call("CANCEL_ORDER", Absent, <<id>>) EXCEPT !.pc = pc, !.answer = answer])
  BY PublishSends DEF CancelOrder, Call
<1>2. PICK call : call = [Call("CANCEL_ORDER", Absent, <<id>>)
                            EXCEPT !.pc = pc, !.answer = answer]
  OBVIOUS
<1>3. call = [action |-> "CANCEL_ORDER", order |-> Absent, orderId |-> <<id>>, pc |-> pc,
              reply |-> Absent, answer |-> answer, trades |-> << >>]
  BY <1>2 DEF Call
<1>4. /\ call.action = "CANCEL_ORDER" /\ call.order = Absent /\ call.orderId = <<id>>
      /\ call.pc = pc /\ call.reply = Absent /\ call.answer = answer /\ call.trades = << >>
      /\ ~ IsSubmit(call)
  BY <1>3 DEF IsSubmit
<1>5. Fresh(c, call)
  BY <1>1, <1>3, <1>4 DEF Fresh, IsCall, Asked
<1>6. Send(call)
  BY <1>1, <1>2
<1> QED
  BY <1>1, <1>4, <1>5, <1>6, CallMade

-----------------------------------------------------------------------------
(* The worker runs a command.                                              *)

LEMMA RestingFinite ==
  ASSUME CallsGood, EngineGood, RanGood
  PROVE  IsFiniteSet(resting) /\ resting \subseteq Nat /\ IsFiniteSet(DOMAIN live)
<1>1. DOMAIN calls = 1..Len(calls) /\ Len(calls) \in Nat
  BY SeqFacts DEF CallsGood
<1>2. IsFiniteSet(DOMAIN calls) /\ DOMAIN calls \subseteq Nat
  BY <1>1, FS_Interval
<1>3. resting \subseteq DOMAIN live /\ DOMAIN live \subseteq DOMAIN calls
  BY DEF EngineGood, RanGood
<1> QED
  BY <1>2, <1>3, FS_Subset

LEMMA CommandRead ==
  ASSUME ClusterInv, toWorker # << >>
  PROVE  \E c \in DOMAIN calls : \E cmd :
           /\ c \notin DOMAIN ran /\ toWorker[1].correlationId = c
           /\ calls[c].answer # "refused" /\ DecodeCommand(Head(toWorker)) = cmd
           /\ cmd.correlationId = c /\ cmd.action = calls[c].action
           /\ cmd.orderId = calls[c].orderId
           /\ cmd.order = Asked(calls[c]) \/ cmd.order = Absent
<1> USE DEF ClusterInv
<1>1. 1 \in DOMAIN toWorker /\ Head(toWorker) = toWorker[1]
  BY TailFacts DEF CommandsGood
<1>2. PICK c : c = toWorker[1].correlationId
  OBVIOUS
<1>3. /\ c \in DOMAIN calls /\ c \notin DOMAIN ran /\ calls[c].answer # "refused"
      /\ IsCommandOf(toWorker[1], c, calls[c])
  BY <1>1, <1>2 DEF CommandsGood
<1>4. PICK cmd : /\ cmd = Request(c, calls[c]) \/ cmd = AsJson(Request(c, calls[c]))
                 /\ toWorker[1] = EncodeCommand(cmd)
  BY <1>3 DEF IsCommandOf
<1>5. /\ cmd = [correlationId |-> c, action |-> calls[c].action, symbol |-> "BTC-USD",
                order |-> cmd.order, orderId |-> calls[c].orderId, depth |-> Absent]
      /\ cmd.order = Asked(calls[c]) \/ cmd.order = Absent
  BY <1>4 DEF Request, AsJson
<1>6. cmd.order = Absent \/ \E o : IsOrder(o) /\ cmd.order = <<o>>
  <2>1. CASE IsSubmit(calls[c])
    <3>1. PICK a : a = calls[c].order[1]
      OBVIOUS
    <3>2. IsOrder(a)
      BY <1>3, <2>1, <3>1 DEF CallsGood, IsCall, GoodOrder
    <3>3. IsOrder(Original(a))
      <4>1. Original(a) = [f \in OrderFields |-> Original(a)[f]]
        BY <3>2 DEF IsOrder, Original
      <4> QED
        BY <4>1 DEF IsOrder
    <3> QED
      BY <1>5, <2>1, <3>1, <3>3 DEF Asked
  <2>2. CASE ~ IsSubmit(calls[c])
    BY <1>5, <2>2 DEF Asked
  <2> QED
    BY <2>1, <2>2
<1>7. IsCommand(cmd)
  BY <1>5, <1>6 DEF IsCommand, Optional
<1>8. DecodeCommand(EncodeCommand(cmd)) = cmd
  BY <1>7, CommandRoundTrip
<1>9. /\ cmd.correlationId = c /\ cmd.action = calls[c].action
      /\ cmd.orderId = calls[c].orderId
  BY <1>5
<1> QED
  BY <1>1, <1>2, <1>3, <1>4, <1>5, <1>8, <1>9

LEMMA FilledFacts ==
  ASSUME NEW o, GoodOrder(o), NEW q \in Nat, o.filledQuantity + q <= o.quantity
  PROVE  /\ GoodOrder(Filled(o, q)) /\ Original(Filled(o, q)) = Original(o)
         /\ Filled(o, q).id = o.id /\ Filled(o, q).filledQuantity = o.filledQuantity + q
         /\ Filled(o, q).quantity = o.quantity /\ Filled(o, q).userId = o.userId
         /\ Filled(o, q).type = o.type
         /\ o.type = "MARKET" => ~ Rests(Filled(o, q))
<1> DEFINE s == IF o.filledQuantity + q = o.quantity THEN "FILLED"
                ELSE IF o.type = "MARKET" THEN "CANCELLED"
                ELSE IF o.filledQuantity + q > 0 THEN "PARTIALLY_FILLED"
                ELSE "OPEN"
           x == Filled(o, q)
<1>1. DOMAIN o = OrderFields /\ o.filledQuantity \in Nat /\ o.quantity \in Nat \ {0}
  BY DEF GoodOrder, IsOrder
<1>2. {"id", "userId", "side", "type", "status", "price", "quantity", "filledQuantity"}
        \subseteq OrderFields
  BY DEF OrderFields, OrderPlain, OrderDecimals
<1>3. x = [[o EXCEPT !.filledQuantity = o.filledQuantity + q] EXCEPT !.status = s]
  BY DEF Filled
<1> HIDE DEF x, s
<1>4. /\ x.filledQuantity = o.filledQuantity + q /\ x.status = s /\ DOMAIN x = OrderFields
      /\ \A f \in OrderFields : f \notin {"status", "filledQuantity"} => x[f] = o[f]
  BY <1>1, <1>2, <1>3
<1>5. x = [f \in OrderFields |-> x[f]]
  BY <1>1, <1>3
<1>6. /\ x.id = o.id /\ x.userId = o.userId /\ x.side = o.side /\ x.type = o.type
      /\ x.price = o.price /\ x.quantity = o.quantity
  BY <1>2, <1>4
<1>7. GoodOrder(x)
  BY <1>1, <1>4, <1>5, <1>6 DEF GoodOrder, IsOrder
<1>8. Original(x) = Original(o)
  <2>1. Original(x) = [f \in OrderFields |-> Original(x)[f]]
        /\ Original(o) = [f \in OrderFields |-> Original(o)[f]]
    BY <1>1, <1>4 DEF Original
  <2>2. \A f \in OrderFields : Original(x)[f] = Original(o)[f]
    BY <1>1, <1>4 DEF Original
  <2> QED
    BY <2>1, <2>2
<1>9. o.type = "MARKET" => ~ Rests(x)
  BY <1>4 DEF s, Rests
<1> QED
  BY <1>4, <1>6, <1>7, <1>8, <1>9 DEF x

LEMMA CancelledFacts ==
  ASSUME NEW o, GoodOrder(o), NEW x, x = [o EXCEPT !.status = "CANCELLED"]
  PROVE  /\ GoodOrder(x) /\ Original(x) = Original(o) /\ x.id = o.id /\ x.userId = o.userId
         /\ x.filledQuantity = o.filledQuantity /\ ~ Rests(x) /\ x.type = o.type
<1>1. DOMAIN o = OrderFields
  BY DEF GoodOrder, IsOrder
<1>2. {"id", "userId", "side", "type", "status", "price", "quantity", "filledQuantity"}
        \subseteq OrderFields
  BY DEF OrderFields, OrderPlain, OrderDecimals
<1>3. /\ x.status = "CANCELLED" /\ DOMAIN x = OrderFields
      /\ \A f \in OrderFields : f # "status" => x[f] = o[f]
  BY <1>1, <1>2
<1>4. x = [f \in OrderFields |-> x[f]]
  BY <1>1
<1>5. /\ x.id = o.id /\ x.side = o.side /\ x.type = o.type /\ x.userId = o.userId
      /\ x.price = o.price /\ x.quantity = o.quantity /\ x.filledQuantity = o.filledQuantity
  BY <1>2, <1>3
<1>6. GoodOrder(x)
  BY <1>4, <1>5 DEF GoodOrder, IsOrder
<1>7. Original(x) = Original(o)
  <2>1. Original(x) = [f \in OrderFields |-> Original(x)[f]]
        /\ Original(o) = [f \in OrderFields |-> Original(o)[f]]
    BY <1>1, <1>3 DEF Original
  <2>2. \A f \in OrderFields : Original(x)[f] = Original(o)[f]
    BY <1>1, <1>3 DEF Original
  <2> QED
    BY <2>1, <2>2
<1> QED
  BY <1>3, <1>5, <1>6, <1>7 DEF Rests

LEMMA OriginalFacts ==
  ASSUME NEW a, GoodOrder(a), NEW o, o = Original(a)
  PROVE  /\ GoodOrder(o) /\ Original(o) = o /\ o.id = a.id /\ o.quantity = a.quantity
         /\ o.filledQuantity = 0 /\ o.type = a.type /\ o.userId = a.userId
<1>1. DOMAIN a = OrderFields
  BY DEF GoodOrder, IsOrder
<1>2. {"id", "userId", "side", "type", "status", "price", "quantity", "filledQuantity"}
        \subseteq OrderFields
  BY DEF OrderFields, OrderPlain, OrderDecimals
<1>3. /\ o.status = "PENDING" /\ o.filledQuantity = 0 /\ DOMAIN o = OrderFields
      /\ \A f \in OrderFields : f \notin {"status", "filledQuantity"} => o[f] = a[f]
  BY <1>1, <1>2 DEF Original
<1>4. o = [f \in OrderFields |-> o[f]]
  BY <1>1 DEF Original
<1>5. /\ o.id = a.id /\ o.side = a.side /\ o.type = a.type /\ o.userId = a.userId
      /\ o.price = a.price /\ o.quantity = a.quantity
  BY <1>2, <1>3
<1>6. GoodOrder(o)
  BY <1>3, <1>4, <1>5 DEF GoodOrder, IsOrder
<1>7. Original(o) = o
  <2>1. \A f \in OrderFields : Original(o)[f] = o[f]
    BY <1>3 DEF Original
  <2>2. Original(o) = [f \in OrderFields |-> Original(o)[f]]
    BY <1>3 DEF Original
  <2> QED
    BY <1>4, <2>1, <2>2
<1> QED
  BY <1>3, <1>5, <1>6, <1>7

\* The worker's engine runs order o of call c, which trades with what rests.
OrderRuns(c, o, trades) ==
  /\ c \in DOMAIN calls /\ c \notin DOMAIN ran /\ IsSubmit(calls[c])
  /\ <<o>> = Asked(calls[c]) /\ GoodOrder(o) /\ Original(o) = o /\ o.id = c
  /\ o.filledQuantity = 0 /\ MatchedBy(o, trades) /\ calls' = calls /\ (lost => lost')
  /\ calls[c].answer # "refused"
  /\ live' = AfterTrades(o, trades)
  /\ resting' = {id \in resting \cup {o.id} : Rests(live'[id])}
  /\ ran' = Put(ran, c, [order |-> <<o>>, trades |-> trades, found |-> TRUE])

LEMMA OrdersAfterTrades ==
  ASSUME EngineGood, NEW c, NEW o, NEW trades, OrderRuns(c, o, trades)
  PROVE  /\ DOMAIN live' = DOMAIN live \cup {c} /\ c \notin DOMAIN live
         /\ live'[c] = Filled(o, QuantityOf(trades, c))
         /\ QuantityOf(trades, c) \in 0..o.quantity
         /\ \A id \in DOMAIN live :
              /\ GoodOrder(live'[id]) /\ Original(live'[id]) = Original(live[id])
              /\ live'[id].id = live[id].id /\ live'[id].quantity = live[id].quantity
              /\ QuantityOf(trades, id) \in Nat
              /\ live'[id].filledQuantity = live[id].filledQuantity + QuantityOf(trades, id)
              /\ live'[id].type = live[id].type
              /\ live[id].type = "MARKET" => ~ Rests(live'[id])
              /\ id \notin resting => live'[id] = live[id]
<1>1. /\ GoodOrder(o) /\ o.id = c /\ MatchedBy(o, trades) /\ live' = AfterTrades(o, trades)
      /\ c \notin DOMAIN ran /\ GoodTrades(trades)
  BY DEF OrderRuns, MatchedBy
<1>2. DOMAIN live' = DOMAIN live \cup {c} /\ c \notin DOMAIN live
  BY <1>1 DEF AfterTrades, EngineGood
<1>3. \A id : QuantityOf(trades, id) \in Nat
  BY <1>1, QuantityIsTotal
<1>4. live'[c] = Filled(o, QuantityOf(trades, c))
  BY <1>1 DEF AfterTrades
<1>5. \A id \in DOMAIN live :
        live'[id] = IF QuantityOf(trades, id) > 0 THEN Filled(live[id], QuantityOf(trades, id))
                    ELSE live[id]
  BY <1>1, <1>2 DEF AfterTrades
<1>6. QuantityOf(trades, c) \in 0..o.quantity
  BY <1>1, <1>3 DEF MatchedBy, GoodOrder
<1>7. ASSUME NEW id \in DOMAIN live
      PROVE  /\ GoodOrder(live'[id]) /\ Original(live'[id]) = Original(live[id])
             /\ live'[id].id = live[id].id /\ live'[id].quantity = live[id].quantity
             /\ QuantityOf(trades, id) \in Nat
             /\ live'[id].filledQuantity = live[id].filledQuantity + QuantityOf(trades, id)
             /\ live'[id].type = live[id].type
             /\ live[id].type = "MARKET" => ~ Rests(live'[id])
             /\ id \notin resting => live'[id] = live[id]
  <2>1. PICK old : old = live[id]
    OBVIOUS
  <2>2. PICK new : new = live'[id]
    OBVIOUS
  <2>3. PICK q \in Nat : q = QuantityOf(trades, id)
    BY <1>3
  <2>4. /\ GoodOrder(old) /\ old.filledQuantity \in Nat /\ old.quantity \in Nat
        /\ old.type = "MARKET" => ~ Rests(old)
        /\ id \in resting <=> Rests(old)
    BY <2>1 DEF EngineGood, GoodOrder
  <2>5. new = IF q > 0 THEN Filled(old, q) ELSE old
    BY <1>5, <2>1, <2>2, <2>3
  <2>6. CASE id \in resting
    <3>1. old.filledQuantity + q <= old.quantity
      BY <1>1, <2>1, <2>3, <2>4, <2>6 DEF MatchedBy, Remaining
    <3>2. CASE q > 0
      BY <2>1, <2>2, <2>3, <2>4, <2>5, <2>6, <3>1, <3>2, FilledFacts
    <3>3. CASE ~ (q > 0)
      BY <2>1, <2>2, <2>3, <2>4, <2>5, <3>3
    <3> QED
      BY <3>2, <3>3
  <2>7. CASE id \notin resting
    <3>1. q = 0
      BY <1>1, <1>2, <2>3, <2>7 DEF MatchedBy
    <3> QED
      BY <2>1, <2>2, <2>3, <2>4, <2>5, <2>7, <3>1
  <2> QED
    BY <2>6, <2>7
<1> QED
  BY <1>2, <1>4, <1>6, <1>7

LEMMA EngineAfterOrder ==
  ASSUME CallsGood, EngineGood, RanGood, NEW c, NEW o, NEW trades, OrderRuns(c, o, trades)
  PROVE  Grows /\ EngineGood' /\ RanGood' /\ c \in DOMAIN live'
<1>1. /\ c \in DOMAIN calls /\ c \notin DOMAIN ran /\ IsSubmit(calls[c])
      /\ <<o>> = Asked(calls[c]) /\ GoodOrder(o) /\ Original(o) = o /\ o.id = c
      /\ o.filledQuantity = 0 /\ calls' = calls /\ GoodTrades(trades)
      /\ (lost => lost') /\ calls[c].answer # "refused"
      /\ resting' = {id \in resting \cup {c} : Rests(live'[id])}
      /\ ran' = Put(ran, c, [order |-> <<o>>, trades |-> trades, found |-> TRUE])
  BY DEF OrderRuns, MatchedBy
<1>2. /\ DOMAIN live' = DOMAIN live \cup {c} /\ c \notin DOMAIN live
      /\ live'[c] = Filled(o, QuantityOf(trades, c))
      /\ QuantityOf(trades, c) \in 0..o.quantity
  BY OrdersAfterTrades
<1>3. \A id \in DOMAIN live :
        /\ GoodOrder(live'[id]) /\ Original(live'[id]) = Original(live[id])
        /\ live'[id].id = live[id].id
        /\ QuantityOf(trades, id) \in Nat
        /\ live'[id].filledQuantity = live[id].filledQuantity + QuantityOf(trades, id)
        /\ live'[id].type = live[id].type
        /\ live[id].type = "MARKET" => ~ Rests(live'[id])
        /\ id \notin resting => live'[id] = live[id]
  BY OrdersAfterTrades
<1>4. /\ DOMAIN ran' = DOMAIN ran \cup {c}
      /\ \A d \in DOMAIN ran : ran'[d] = ran[d]
      /\ ran'[c].order = <<o>> /\ ran'[c].trades = trades /\ ran'[c].found = TRUE
  BY <1>1 DEF Put
<1>5. /\ DOMAIN live \subseteq DOMAIN ran
      /\ resting = {id \in DOMAIN live : Rests(live[id])}
      /\ \A id \in DOMAIN live :
           /\ live[id].filledQuantity \in Nat /\ live[id].id = id
           /\ ran[id].order = <<Original(live[id])>>
           /\ QuantityOf(ran[id].trades, id) <= live[id].filledQuantity
  BY DEF EngineGood, GoodOrder
<1>6. Grows
  <2>1. \A d \in DOMAIN ran : d \in resting' => d \in resting
    BY <1>1
  <2>2. \A id \in DOMAIN ran \cap DOMAIN live' :
          /\ id \in DOMAIN live
          /\ live[id].filledQuantity \in Nat /\ live'[id].filledQuantity \in Nat
          /\ live[id].filledQuantity <= live'[id].filledQuantity
    BY <1>1, <1>2, <1>3, <1>5
  <2> QED
    BY <1>1, <1>4, <2>1, <2>2 DEF Grows
<1>7. /\ GoodOrder(live'[c]) /\ live'[c].id = c /\ Original(live'[c]) = o
      /\ live'[c].filledQuantity = QuantityOf(trades, c)
      /\ live'[c].type = "MARKET" => ~ Rests(live'[c])
  <2>1. PICK q \in Nat : q = QuantityOf(trades, c) /\ q <= o.quantity
    BY <1>2
  <2>2. o.filledQuantity + q <= o.quantity /\ o.filledQuantity + q = q
    BY <1>1, <2>1
  <2>3. PICK x : x = Filled(o, q)
    OBVIOUS
  <2>4. /\ GoodOrder(x) /\ x.id = c /\ Original(x) = o /\ x.filledQuantity = q
        /\ x.type = "MARKET" => ~ Rests(x)
    BY <1>1, <2>2, <2>3, FilledFacts
  <2> QED
    BY <1>2, <2>1, <2>3, <2>4
<1>8. EngineGood'
  <2>1. DOMAIN live' \subseteq DOMAIN ran'
    BY <1>2, <1>4, <1>5
  <2>2. ASSUME NEW id \in DOMAIN live'
        PROVE  /\ GoodOrder(live'[id]) /\ live'[id].id = id
               /\ ran'[id].order = <<Original(live'[id])>>
               /\ live'[id].type = "MARKET" => ~ Rests(live'[id])
               /\ QuantityOf(ran'[id].trades, id) <= live'[id].filledQuantity
    <3>1. CASE id = c
      <4>1. QuantityOf(trades, c) \in Int
        BY <1>2
      <4> QED
        BY <1>4, <1>7, <3>1, <4>1
    <3>2. CASE id # c
      <4>1. id \in DOMAIN live /\ id \in DOMAIN ran
        BY <1>2, <1>5, <3>2
      <4>2. GoodTrades(ran[id].trades)
        BY <4>1 DEF RanGood
      <4>3. QuantityOf(ran[id].trades, id) \in Nat
        BY <4>2, QuantityIsTotal
      <4> QED
        BY <1>3, <1>4, <1>5, <4>1, <4>3
    <3> QED
      BY <3>1, <3>2
  <2>3. resting' = {id \in DOMAIN live' : Rests(live'[id])}
    <3>1. \A id \in DOMAIN live : Rests(live'[id]) => id \in resting
      BY <1>3, <1>5
    <3> QED
      BY <1>1, <1>2, <1>5, <3>1
  <2> QED
    BY <2>1, <2>2, <2>3 DEF EngineGood
<1>9. RanGood'
  <2>1. \A d \in DOMAIN ran :
          /\ d \in DOMAIN calls /\ GoodTrades(ran[d].trades)
          /\ ran[d].order = Asked(calls'[d]) /\ calls'[d].answer # "refused"
          /\ ~ IsSubmit(calls'[d]) =>
               Gone(calls[d].orderId[1])' /\ ran[d].found \in BOOLEAN
    BY <1>6, RanKept
  <2>2. ASSUME NEW d \in DOMAIN ran'
        PROVE  /\ d \in DOMAIN calls' /\ GoodTrades(ran'[d].trades)
               /\ ran'[d].order = Asked(calls'[d]) /\ calls'[d].answer # "refused"
               /\ ~ IsSubmit(calls'[d]) =>
                    Gone(calls[d].orderId[1])' /\ ran'[d].found \in BOOLEAN
    <3>1. CASE d = c
      BY <1>1, <1>4, <3>1
    <3>2. CASE d # c
      BY <1>1, <1>4, <2>1, <3>2
    <3> QED
      BY <3>1, <3>2
  <2> QED
    BY <2>2 DEF RanGood
<1> QED
  BY <1>2, <1>6, <1>8, <1>9

\* A message joins the queue, or none does, and what was true of a snapshot
\* still is.
LEMMA CacheFollowed ==
  ASSUME CacheGood, UNCHANGED <<incarnation, snapshotCache, lost>>,
         \A body : Follows(body) => Follows(body)', toGateway' = toGateway
  PROVE  CacheGood'
BY DEF CacheGood, IsSnapshotAt

LEMMA MessageAppended ==
  ASSUME CacheGood, MessagesGood, UNCHANGED <<incarnation, snapshotCache, lost>>,
         NEW m, toGateway' = Append(toGateway, m),
         \/ m.kind = "snapshot" /\ Follows(m.body)'
         \/ m.kind # "snapshot" /\ \A body : Follows(body) => Follows(body)'
  PROVE  CacheGood'
<1>1. DOMAIN toGateway = 1..Len(toGateway) /\ Len(toGateway) \in Nat /\ IsSeq(toGateway)
  BY SeqFacts DEF MessagesGood
<1>2. /\ DOMAIN toGateway' = 1..(Len(toGateway) + 1)
      /\ \A i \in 1..Len(toGateway) : toGateway'[i] = toGateway[i]
      /\ toGateway'[Len(toGateway) + 1] = m
  BY <1>1, AppendFacts
<1>3. \A i \in DOMAIN toGateway' :
        /\ i \in Nat
        /\ \/ i \in DOMAIN toGateway /\ toGateway'[i] = toGateway[i]
              /\ (IsSnapshotAt(i)' <=> IsSnapshotAt(i))
           \/ i = Len(toGateway) + 1 /\ toGateway'[i] = m
              /\ (IsSnapshotAt(i)' <=> m.kind = "snapshot")
  BY <1>1, <1>2 DEF IsSnapshotAt
<1>4. DOMAIN toGateway \subseteq DOMAIN toGateway' /\ Len(toGateway) + 1 \in DOMAIN toGateway'
      /\ \A i \in DOMAIN toGateway : Len(toGateway) + 1 > i
  BY <1>1, <1>2
<1>5. ASSUME NEW i \in DOMAIN toGateway', IsSnapshotAt(i)',
             \A j \in DOMAIN toGateway' : j > i => ~ IsSnapshotAt(j)'
      PROVE  Follows(toGateway[i].body)'
  <2>1. PICK body : body = toGateway'[i].body
    OBVIOUS
  <2>2. CASE m.kind = "snapshot" /\ Follows(m.body)'
    <3>1. i = Len(toGateway) + 1
      <4>1. PICK k : k = Len(toGateway) + 1
        OBVIOUS
      <4>2. IsSnapshotAt(k)' /\ k \in DOMAIN toGateway'
        BY <1>2, <1>4, <2>2, <4>1 DEF IsSnapshotAt
      <4>3. ~ (k > i)
        BY <1>5, <4>2
      <4> QED
        BY <1>3, <1>4, <4>1, <4>3
    <3>2. body = m.body
      BY <1>2, <2>1, <3>1
    <3>3. Follows(body)'
      BY <2>2, <3>2 DEF Follows
    <3> QED
      BY <2>1, <3>3
  <2>3. CASE m.kind # "snapshot" /\ \A b : Follows(b) => Follows(b)'
    <3>1. i \in DOMAIN toGateway /\ toGateway'[i] = toGateway[i] /\ IsSnapshotAt(i)
      BY <1>3, <1>5, <2>3
    <3>2. \A j \in DOMAIN toGateway : j > i => ~ IsSnapshotAt(j)
      BY <1>3, <1>4, <1>5, <1>1
    <3>3. Follows(body)
      BY <2>1, <3>1, <3>2 DEF CacheGood
    <3>4. Follows(body)'
      BY <2>3, <3>3
    <3> QED
      BY <2>1, <3>4
  <2> QED
    BY <2>2, <2>3
<1>6. ASSUME snapshotCache' # Absent, \A i \in DOMAIN toGateway' : ~ IsSnapshotAt(i)'
      PROVE  Follows(snapshotCache[1])'
  <2>1. PICK k : k = Len(toGateway) + 1
    OBVIOUS
  <2>2. m.kind # "snapshot"
    BY <1>2, <1>4, <1>6, <2>1 DEF IsSnapshotAt
  <2>3. \A i \in DOMAIN toGateway : ~ IsSnapshotAt(i)
    BY <1>1, <1>3, <1>4, <1>6
  <2>4. PICK body : body = snapshotCache[1]
    OBVIOUS
  <2>5. Follows(body)
    BY <1>6, <2>3, <2>4 DEF CacheGood
  <2>6. Follows(body)'
    BY <2>2, <2>5
  <2> QED
    BY <2>4, <2>6
<1> QED
  BY <1>5, <1>6 DEF CacheGood

LEMMA SnapshotMessageGood ==
  ASSUME CacheGood, UNCHANGED incarnation, NEW d, NEW m, m = Snapshot(d)
  PROVE  /\ MessageGood(m)' /\ m.kind = "snapshot"
         /\ d = DepthOf(live', resting') => Follows(m.body)'
<1>1. m.kind = "snapshot" /\ m.body.depth = d /\ m.body.from = incarnation
  BY DEF Snapshot
<1>2. MessageGood(m)'
  BY <1>1 DEF MessageGood, CacheGood
<1> QED
  BY <1>1, <1>2 DEF Follows

LEMMA LossFollowed ==
  ASSUME CacheGood, UNCHANGED <<incarnation, snapshotCache, toGateway>>, lost' = TRUE
  PROVE  CacheGood'
<1>1. \A body : Follows(body)'
  BY DEF Follows
<1> QED
  BY <1>1 DEF CacheGood

LEMMA BookPublished ==
  ASSUME CacheGood, MessagesGood, Grows, UNCHANGED <<incarnation, snapshotCache>>,
         worker' # "down", NEW others, NEW h, NEW d, d = DepthOf(live', resting'),
         PublishOrderBook(others, h, d), \A g \in others : HandlerGood(g)',
         HandlerGood(h)', h.left = 1
  PROVE  MessagesGood' /\ CacheGood' /\ HandlersGood'
<1>1. Ages /\ IsSeq(toGateway)
  BY DEF Ages, CacheGood, MessagesGood
<1>2. CASE /\ toGateway' = Append(toGateway, Snapshot(d))
           /\ handlers' = others \cup {h}
           /\ UNCHANGED faultVars
  <2>1. PICK m : m = Snapshot(d)
    OBVIOUS
  <2>2. MessageGood(m)' /\ m.kind = "snapshot" /\ Follows(m.body)'
    BY <2>1, SnapshotMessageGood
  <2>3. toGateway' = Append(toGateway, m) /\ lost' = lost
    BY <1>2, <2>1 DEF faultVars
  <2>4. MessagesGood' /\ CacheGood'
    BY <1>1, <2>2, <2>3, MessagesAdded, MessageAppended
  <2>5. HandlersGood'
    BY <1>2 DEF HandlersGood
  <2> QED
    BY <2>4, <2>5
<1>3. CASE /\ lost' = TRUE
           /\ handlers' = others \cup {[h EXCEPT !.ok = FALSE]}
           /\ UNCHANGED toGateway
  <2>1. PICK g : g = [h EXCEPT !.ok = FALSE]
    OBVIOUS
  <2>2. h = [call |-> h.call, left |-> h.left, trades |-> h.trades, order |-> h.order,
             ok |-> h.ok]
    BY DEF HandlerGood
  <2>3. g = [call |-> h.call, left |-> h.left, trades |-> h.trades, order |-> h.order,
             ok |-> FALSE]
    BY <2>1, <2>2
  <2>4. /\ g.call = h.call /\ g.left = h.left /\ g.trades = h.trades /\ g.order = h.order
        /\ g.ok = FALSE
    BY <2>3
  <2>5. HandlerGood(g)'
    BY <1>3, <2>3, <2>4 DEF HandlerGood
  <2>6. HandlersGood'
    BY <1>3, <2>1, <2>5 DEF HandlersGood
  <2>7. MessagesGood'
    BY <1>1, <1>3, MessagesKept
  <2>8. CacheGood'
    BY <1>3, LossFollowed
  <2> QED
    BY <2>6, <2>7, <2>8
<1> QED
  BY <1>2, <1>3 DEF PublishOrderBook

LEMMA OrderCommandRun ==
  ASSUME ClusterInv, NEW cmd, NEW c \in DOMAIN calls, c \notin DOMAIN ran, toWorker # << >>,
         toWorker[1].correlationId = c, calls[c].answer # "refused", cmd.correlationId = c,
         cmd.order = Asked(calls[c]), IsSubmit(calls[c]),
         worker = "listening", toWorker' = Tail(toWorker), HandleSubmit(cmd),
         UNCHANGED <<calls, pendingRequests, gateway, snapshotCache, worker, incarnation>>
  PROVE  /\ ClusterInv' /\ Grows
         /\ \E o, trades : OrderRuns(c, o, trades)
<1> USE DEF ClusterInv
<1>1. PICK a : a = calls[c].order[1]
  OBVIOUS
<1>2. GoodOrder(a) /\ a.id = c
  BY <1>1 DEF CallsGood, IsCall
<1>3. PICK o : o = Original(a)
  OBVIOUS
<1>4. cmd.correlationId = c /\ cmd.order = <<o>> /\ cmd.order[1] = o /\ Asked(calls[c]) = <<o>>
  BY <1>1, <1>3 DEF Asked
<1>5. GoodOrder(o) /\ Original(o) = o /\ o.id = c /\ o.filledQuantity = 0
  BY <1>2, <1>3, OriginalFacts
<1>6. PICK trades : trades = TradesWith(o, Makers(o))
  OBVIOUS
<1>7. /\ live' = AfterTrades(o, trades)
      /\ resting' = {id \in resting \cup {o.id} : Rests(live'[id])}
      /\ ran' = Put(ran, c, [order |-> <<o>>, trades |-> trades, found |-> TRUE])
      /\ \E h \in {Handler(c, Len(trades) + 1, trades, c)} :
           IF trades = << >> THEN PublishOrderBook(handlers, h, DepthOf(live', resting'))
           ELSE handlers' = handlers \cup {h} /\ UNCHANGED <<toGateway, faultVars>>
  BY <1>4, <1>5, <1>6 DEF HandleSubmit
<1>8. MatchedBy(o, trades)
  <2>1. EngineReady
    <3>1. IsFiniteSet(resting) /\ resting \subseteq Nat
      BY RestingFinite
    <3>2. ASSUME NEW id \in resting
          PROVE  /\ live[id].id = id /\ live[id].side \in Side /\ live[id].price \in Nat
                 /\ live[id].quantity \in Nat /\ live[id].filledQuantity \in Nat
                 /\ Remaining(live[id]) \in Nat
      <4>1. /\ id \in DOMAIN live /\ GoodOrder(live[id]) /\ live[id].id = id
            /\ live[id].type # "MARKET"
        BY DEF EngineGood
      <4> QED
        BY <4>1 DEF GoodOrder, Remaining
    <3> QED
      BY <3>1, <3>2 DEF EngineReady
  <2>2. NewOrder(o)
    BY <1>5 DEF NewOrder, GoodOrder, EngineGood
  <2> QED
    BY <1>6, <2>1, <2>2, OrderIsMatched
<1>9. PICK h : /\ h = Handler(c, Len(trades) + 1, trades, c)
               /\ IF trades = << >> THEN PublishOrderBook(handlers, h, DepthOf(live', resting'))
                  ELSE handlers' = handlers \cup {h} /\ UNCHANGED <<toGateway, faultVars>>
  BY <1>7
<1>10. lost => lost'
  BY <1>9 DEF PublishOrderBook, faultVars
<1>11. OrderRuns(c, o, trades)
  BY <1>4, <1>5, <1>7, <1>8, <1>10 DEF OrderRuns
<1>12. Grows /\ EngineGood' /\ RanGood' /\ c \in DOMAIN live'
  BY <1>11, EngineAfterOrder
<1>13. CallsGood' /\ PendingGood'
  BY <1>12, CallsKept, PendingKept
<1>14. CommandsGood'
  <2>1. DOMAIN ran' \subseteq DOMAIN ran \cup {toWorker[1].correlationId}
    BY <1>7 DEF Put
  <2> QED
    BY <1>12, <2>1, CommandsShortened
<1>15. Len(trades) \in Nat /\ (trades = << >> <=> Len(trades) = 0)
  <2>1. IsSeq(trades)
    BY <1>8 DEF MatchedBy, GoodTrades
  <2> QED
    BY <2>1, SeqFacts
<1>16. h = [call |-> c, left |-> Len(trades) + 1, trades |-> trades, order |-> c, ok |-> TRUE]
  BY <1>9 DEF Handler
<1>17. HandlerGood(h)'
  BY <1>7, <1>12, <1>15, <1>16 DEF HandlerGood, Put, IsSubmit
<1>18. \A g \in handlers : HandlerGood(g)'
  <2>1. DOMAIN live \subseteq DOMAIN live'
    BY <1>7 DEF AfterTrades
  <2> QED
    BY <1>12, <2>1, HandlerKept DEF HandlersGood
<1>19. MessagesGood' /\ CacheGood' /\ HandlersGood'
  <2>1. CASE trades = << >>
    <3>1. PICK d : d = DepthOf(live', resting')
      OBVIOUS
    <3>2. PublishOrderBook(handlers, h, d)
      BY <1>9, <2>1, <3>1
    <3>3. h.left = 1 /\ worker' # "down"
      BY <1>15, <1>16, <2>1
    <3> QED
      BY <1>12, <1>17, <1>18, <3>1, <3>2, <3>3, BookPublished
  <2>2. CASE trades # << >>
    <3>1. handlers' = handlers \cup {h} /\ UNCHANGED <<toGateway, lost>>
      BY <1>9, <2>2 DEF faultVars
    <3>2. h.left > 1 /\ h \in handlers'
      BY <1>15, <1>16, <2>2, <3>1
    <3>3. \A body : Follows(body)'
      BY <3>2 DEF Follows
    <3>4. CacheGood'
      BY <3>1, <3>3, CacheFollowed
    <3>5. MessagesGood'
      BY <1>12, <3>1, MessagesKept DEF Ages, CacheGood, MessagesGood
    <3>6. HandlersGood'
      BY <1>17, <1>18, <3>1 DEF HandlersGood
    <3> QED
      BY <3>4, <3>5, <3>6
  <2> QED
    BY <2>1, <2>2
<1> QED
  BY <1>11, <1>12, <1>13, <1>14, <1>19

LEMMA RefusalRead ==
  ASSUME NEW c, NEW found \in BOOLEAN, NEW res, res = Result(c, found, Absent, Absent)
  PROVE  DecodeResult(EncodeResult(res)).success = found
<1>1. IsResult(res)
  BY DEF IsResult, Result
<1>2. DecodeResult(EncodeResult(res)) = AsReceived(res)
  BY <1>1, ResultRoundTrip
<1>3. AsReceived(res).success = res.success
  BY DEF AsReceived, Result
<1> QED
  BY <1>2, <1>3 DEF Result

LEMMA ReplyIsNoSnapshot ==
  ASSUME NEW c, NEW res, NEW m, m = Reply(c, res)
  PROVE  m.kind = "reply" /\ m.kind # "snapshot" /\ m.correlationId = c
         /\ m.body = EncodeResult(res)
BY DEF Reply

\* The worker's engine runs the cancellation of order id, call c.
CancelRuns(c, id) ==
  /\ c \in DOMAIN calls /\ c \notin DOMAIN ran /\ ~ IsSubmit(calls[c]) /\ id \in DOMAIN ran
  /\ calls[c].orderId[1] = id /\ calls' = calls /\ (lost => lost')
  /\ calls[c].answer # "refused"
  /\ live' = IF id \in resting THEN [live EXCEPT ![id].status = "CANCELLED"] ELSE live
  /\ resting' = resting \ {id}
  /\ ran' = Put(ran, c, [order |-> Absent, trades |-> << >>, found |-> id \in resting])

LEMMA CancelRecord ==
  ASSUME NEW c, NEW id, CancelRuns(c, id)
  PROVE  /\ DOMAIN ran' = DOMAIN ran \cup {c} /\ \A d \in DOMAIN ran : ran'[d] = ran[d]
         /\ ran'[c].trades = << >> /\ ran'[c].order = Absent
         /\ ran'[c].found = IF id \in resting THEN TRUE ELSE FALSE
<1>1. PICK r : r = [order |-> Absent, trades |-> << >>, found |-> id \in resting]
  OBVIOUS
<1>2. ran' = Put(ran, c, r) /\ c \notin DOMAIN ran
  BY <1>1 DEF CancelRuns
<1>3. r.trades = << >> /\ r.order = Absent
  BY <1>1
<1>4. r.found = (id \in resting)
  BY <1>1
<1>5. r.found = IF id \in resting THEN TRUE ELSE FALSE
  <2>1. CASE id \in resting
    BY <1>4, <2>1
  <2>2. CASE id \notin resting
    <3>1. (id \in resting) = FALSE
      BY <2>2
    <3> QED
      BY <1>4, <2>2, <3>1
  <2> QED
    BY <2>1, <2>2
<1> QED
  BY <1>2, <1>3, <1>5 DEF Put

LEMMA EngineAfterCancel ==
  ASSUME CallsGood, EngineGood, RanGood, NEW c, NEW id, CancelRuns(c, id)
  PROVE  /\ Grows /\ EngineGood' /\ RanGood' /\ DOMAIN live' = DOMAIN live
         /\ \A x \in DOMAIN live :
              /\ live'[x].filledQuantity = live[x].filledQuantity /\ live'[x].userId = live[x].userId
              /\ live'[x].quantity = live[x].quantity
<1>1. /\ c \in DOMAIN calls /\ c \notin DOMAIN ran /\ ~ IsSubmit(calls[c]) /\ id \in DOMAIN ran
      /\ calls[c].orderId[1] = id /\ calls' = calls
      /\ (lost => lost') /\ calls[c].answer # "refused"
      /\ live' = IF id \in resting THEN [live EXCEPT ![id].status = "CANCELLED"] ELSE live
      /\ resting' = resting \ {id}
      /\ ran' = Put(ran, c, [order |-> Absent, trades |-> << >>, found |-> id \in resting])
  BY DEF CancelRuns
<1>2. /\ DOMAIN ran' = DOMAIN ran \cup {c} /\ \A d \in DOMAIN ran : ran'[d] = ran[d]
      /\ ran'[c].trades = << >> /\ ran'[c].found \in BOOLEAN /\ ran'[c].order = Absent
  BY CancelRecord
<1>3. /\ DOMAIN live \subseteq DOMAIN ran
      /\ resting = {x \in DOMAIN live : Rests(live[x])}
      /\ \A x \in DOMAIN live :
           /\ GoodOrder(live[x]) /\ live[x].id = x /\ live[x].filledQuantity \in Nat
           /\ ran[x].order = <<Original(live[x])>>
           /\ live[x].type = "MARKET" => ~ Rests(live[x])
           /\ QuantityOf(ran[x].trades, x) <= live[x].filledQuantity
  BY DEF EngineGood, GoodOrder
<1>4. DOMAIN live' = DOMAIN live
  BY <1>1
<1>5. ASSUME NEW x \in DOMAIN live
      PROVE  /\ GoodOrder(live'[x]) /\ live'[x].id = x /\ live'[x].userId = live[x].userId
             /\ Original(live'[x]) = Original(live[x])
             /\ live'[x].filledQuantity = live[x].filledQuantity
             /\ live'[x].quantity = live[x].quantity
             /\ live'[x].type = "MARKET" => ~ Rests(live'[x])
             /\ Rests(live'[x]) <=> x \in resting'
  <2>1. CASE x = id /\ id \in resting
    <3>1. PICK o : o = live[x]
      OBVIOUS
    <3>2. PICK n : n = live'[x]
      OBVIOUS
    <3>3. n = [o EXCEPT !.status = "CANCELLED"] /\ GoodOrder(o) /\ o.id = x
      BY <1>1, <1>3, <2>1, <3>1, <3>2
    <3>4. /\ GoodOrder(n) /\ Original(n) = Original(o) /\ n.id = o.id /\ n.userId = o.userId
          /\ n.filledQuantity = o.filledQuantity /\ ~ Rests(n)
      BY <3>3, CancelledFacts
    <3>5. n.quantity = o.quantity
      BY <3>3
    <3> QED
      BY <1>1, <2>1, <3>1, <3>2, <3>3, <3>4, <3>5
  <2>2. CASE ~ (x = id /\ id \in resting)
    <3>1. live'[x] = live[x]
      BY <1>1, <2>2
    <3> QED
      BY <1>1, <1>3, <2>2, <3>1
  <2> QED
    BY <2>1, <2>2
<1>6. Grows
  BY <1>1, <1>2, <1>3, <1>4, <1>5 DEF Grows
<1>7. EngineGood'
  <2>1. \A x \in DOMAIN live' : /\ ran'[x].order = <<Original(live'[x])>>
                                /\ QuantityOf(ran'[x].trades, x) <= live'[x].filledQuantity
    BY <1>2, <1>3, <1>4, <1>5
  <2>2. resting' = {x \in DOMAIN live' : Rests(live'[x])}
    BY <1>1, <1>3, <1>4, <1>5
  <2> QED
    BY <1>2, <1>3, <1>4, <1>5, <2>1, <2>2 DEF EngineGood
<1>8. RanGood'
  <2>1. \A d \in DOMAIN ran :
          /\ d \in DOMAIN calls /\ GoodTrades(ran[d].trades)
          /\ ran[d].order = Asked(calls'[d]) /\ calls'[d].answer # "refused"
          /\ ~ IsSubmit(calls'[d]) =>
               Gone(calls[d].orderId[1])' /\ ran[d].found \in BOOLEAN
    BY <1>6, RanKept
  <2>2. Gone(calls[c].orderId[1])'
    BY <1>1, <1>2 DEF Gone
  <2>3. ASSUME NEW d \in DOMAIN ran'
        PROVE  /\ d \in DOMAIN calls' /\ GoodTrades(ran'[d].trades)
               /\ ran'[d].order = Asked(calls'[d]) /\ calls'[d].answer # "refused"
               /\ ~ IsSubmit(calls'[d]) =>
                    Gone(calls[d].orderId[1])' /\ ran'[d].found \in BOOLEAN
    <3>1. CASE d = c
      BY <1>1, <1>2, <2>2, <3>1, NoTrades DEF Asked
    <3>2. CASE d # c
      BY <1>1, <1>2, <2>1, <3>2
    <3> QED
      BY <3>1, <3>2
  <2> QED
    BY <2>3 DEF RanGood
<1> QED
  BY <1>4, <1>5, <1>6, <1>7, <1>8

LEMMA CancelOfUnknown ==
  ASSUME NEW cmd, NEW c, NEW id, cmd.correlationId = c, cmd.orderId[1] = id,
         id \notin resting, HandleCancel(cmd)
  PROVE  /\ toGateway' = Append(toGateway, Reply(c, Result(c, FALSE, Absent, Absent)))
         /\ UNCHANGED <<handlers, live, lost>>
         /\ resting' = resting \ {id}
<1>1. (id \in resting) = FALSE
  OBVIOUS
<1> QED
  BY <1>1 DEF HandleCancel, faultVars

LEMMA CancelCommandRun ==
  ASSUME ClusterInv, NEW cmd, NEW c \in DOMAIN calls, c \notin DOMAIN ran, toWorker # << >>,
         toWorker[1].correlationId = c, calls[c].answer # "refused", cmd.correlationId = c,
         cmd.orderId = calls[c].orderId, ~ IsSubmit(calls[c]),
         worker = "listening", toWorker' = Tail(toWorker), HandleCancel(cmd),
         UNCHANGED <<calls, pendingRequests, gateway, snapshotCache, worker, incarnation>>
  PROVE  /\ ClusterInv' /\ Grows
         /\ \E id : CancelRuns(c, id)
<1> USE DEF ClusterInv
<1>1. PICK id : id = calls[c].orderId[1]
  OBVIOUS
<1>2. id \in DOMAIN ran
  BY <1>1 DEF CallsGood, IsCall
<1>3. cmd.correlationId = c /\ cmd.orderId[1] = id
  BY <1>1
<1>4. CancelRuns(c, id)
  <2>1. lost => lost'
    BY DEF HandleCancel, PublishOrderBook, faultVars
  <2> QED
    BY <1>1, <1>2, <1>3, <2>1 DEF HandleCancel, CancelRuns
<1>5. Grows /\ EngineGood' /\ RanGood' /\ DOMAIN live' = DOMAIN live
  BY <1>4, EngineAfterCancel
<1>6. CallsGood' /\ PendingGood'
  BY <1>5, CallsKept, PendingKept
<1>7. /\ DOMAIN ran' = DOMAIN ran \cup {c} /\ ran'[c].trades = << >>
      /\ ran'[c].found = IF id \in resting THEN TRUE ELSE FALSE
      /\ resting' = resting \ {id}
  BY <1>4, CancelRecord DEF CancelRuns
<1>8. CommandsGood'
  BY <1>5, <1>7, CommandsShortened
<1>9. Ages /\ IsSeq(toGateway)
  BY DEF Ages, CacheGood, MessagesGood
<1>10. \A g \in handlers : HandlerGood(g)'
  BY <1>5, HandlerKept DEF HandlersGood
<1>11. CASE id \in resting
  <2>1. PICK d : d = DepthOf(live', resting')
    OBVIOUS
  <2>2. PICK h : h = Handler(c, 1, << >>, 0)
    OBVIOUS
  <2>3. PublishOrderBook(handlers, h, d)
    BY <1>3, <1>7, <1>11, <2>1, <2>2 DEF HandleCancel
  <2>4. h = [call |-> c, left |-> 1, trades |-> << >>, order |-> 0, ok |-> TRUE]
    BY <2>2 DEF Handler
  <2>5. /\ h.call = c /\ h.left = 1 /\ h.trades = << >> /\ h.order = 0 /\ h.ok = TRUE
        /\ Len(h.trades) = 0
    BY <2>4, EmptyIsSeq
  <2>6. HandlerGood(h)'
    <3>1. ran'[h.call].found = TRUE /\ h.call \in DOMAIN ran' /\ ~ IsSubmit(calls'[h.call])
      BY <1>7, <1>11, <2>5 DEF IsSubmit
    <3>2. h.left \in 1..(Len(h.trades) + 1)
      BY <2>5
    <3> QED
      BY <2>4, <2>5, <3>1, <3>2 DEF HandlerGood, IsSubmit
  <2>7. MessagesGood' /\ CacheGood' /\ HandlersGood'
    BY <1>5, <1>10, <2>1, <2>3, <2>5, <2>6, BookPublished
  <2> QED
    BY <1>4, <1>5, <1>6, <1>8, <2>7
<1>12. CASE id \notin resting
  <2>1. /\ toGateway' = Append(toGateway, Reply(c, Result(c, FALSE, Absent, Absent)))
        /\ UNCHANGED <<handlers, live, resting, lost>>
    <3>1. resting \ {id} = resting
      BY <1>12
    <3> QED
      BY <1>3, <1>12, <3>1, CancelOfUnknown
  <2>2. PICK res : res = Result(c, FALSE, Absent, Absent)
    OBVIOUS
  <2>3. PICK m : m = Reply(c, res)
    OBVIOUS
  <2>4. m.kind = "reply" /\ m.kind # "snapshot" /\ m.correlationId = c
        /\ m.body = EncodeResult(res)
    BY <2>3, ReplyIsNoSnapshot
  <2>5. DecodeResult(m.body).success = FALSE
    BY <2>2, <2>4, RefusalRead
  <2>6. PICK r : r = DecodeResult(m.body)
    OBVIOUS
  <2>7. TrueResult(c, r)'
    <3>1. ran'[c].found = FALSE
      BY <1>7, <1>12
    <3> QED
      BY <1>7, <2>5, <2>6, <3>1 DEF TrueResult, IsSubmit
  <2>8. MessageGood(m)'
    BY <2>4, <2>6, <2>7 DEF MessageGood
  <2>9. toGateway' = Append(toGateway, m)
    BY <2>1, <2>2, <2>3
  <2>10. MessagesGood'
    BY <1>5, <1>9, <2>8, <2>9, MessagesAdded
  <2>11. CacheGood'
    <3>1. \A body : Follows(body) => Follows(body)'
      BY <2>1 DEF Follows
    <3> QED
      BY <2>1, <2>4, <2>9, <3>1, MessageAppended
  <2>12. HandlersGood'
    BY <1>10, <2>1 DEF HandlersGood
  <2> QED
    BY <1>4, <1>5, <1>6, <1>8, <2>10, <2>11, <2>12
<1> QED
  BY <1>11, <1>12

LEMMA SubmitRefused ==
  ASSUME ClusterInv, NEW cmd, NEW c \in DOMAIN calls, toWorker # << >>,
         toWorker[1].correlationId = c, calls[c].answer # "refused", cmd.correlationId = c,
         IsSubmit(calls[c]), toWorker' = Tail(toWorker), RefuseSubmit(cmd),
         UNCHANGED <<calls, pendingRequests, gateway, snapshotCache, worker, incarnation>>
  PROVE  ClusterInv' /\ Grows /\ UNCHANGED <<live, resting, ran>>
<1> USE DEF ClusterInv
<1>1. /\ toGateway' = Append(toGateway, Reply(c, Result(c, FALSE, Absent, Absent)))
      /\ UNCHANGED <<live, resting, handlers, ran, lost>>
  BY DEF RefuseSubmit, faultVars
<1>2. Grows
  BY <1>1, SameOrdersGrow
<1>3. CallsGood' /\ PendingGood' /\ EngineGood' /\ RanGood' /\ CommandsGood' /\ HandlersGood'
  BY <1>1, <1>2, CallsKept, PendingKept, EngineKept, RanUnchanged, CommandsShortened,
     HandlersKept
<1>4. Ages /\ IsSeq(toGateway)
  BY DEF Ages, CacheGood, MessagesGood
<1>5. PICK res : res = Result(c, FALSE, Absent, Absent)
  OBVIOUS
<1>6. PICK m : m = Reply(c, res)
  OBVIOUS
<1>7. m.kind = "reply" /\ m.kind # "snapshot" /\ m.correlationId = c
      /\ m.body = EncodeResult(res)
  BY <1>6, ReplyIsNoSnapshot
<1>8. DecodeResult(m.body).success = FALSE
  BY <1>5, <1>7, RefusalRead
<1>9. PICK r : r = DecodeResult(m.body)
  OBVIOUS
<1>10. TrueResult(c, r)'
  BY <1>8, <1>9 DEF TrueResult, IsSubmit
<1>11. MessageGood(m)'
  BY <1>7, <1>9, <1>10 DEF MessageGood
<1>12. toGateway' = Append(toGateway, m)
  BY <1>1, <1>5, <1>6
<1>13. MessagesGood'
  BY <1>2, <1>4, <1>11, <1>12, MessagesAdded
<1>14. CacheGood'
  <2>1. \A body : Follows(body) => Follows(body)'
    BY <1>1 DEF Follows
  <2> QED
    BY <1>1, <1>7, <1>12, <2>1, MessageAppended
<1> QED
  BY <1>1, <1>2, <1>3, <1>13, <1>14

LEMMA CommandReceived ==
  ASSUME ClusterInv, ReceiveCommand
  PROVE  /\ ClusterInv' /\ Grows
         /\ \/ \E c, o, trades : OrderRuns(c, o, trades)
            \/ \E c, id : CancelRuns(c, id)
            \/ UNCHANGED <<calls, live, resting, ran>>
<1>1. /\ worker = "listening" /\ toWorker # << >> /\ toWorker' = Tail(toWorker)
      /\ UNCHANGED <<calls, pendingRequests, gateway, snapshotCache, worker, incarnation>>
  BY DEF ReceiveCommand, routerVars
<1>2. PICK c, cmd :
           /\ c \in DOMAIN calls
           /\ c \notin DOMAIN ran /\ toWorker[1].correlationId = c
           /\ calls[c].answer # "refused" /\ DecodeCommand(Head(toWorker)) = cmd
           /\ cmd.correlationId = c /\ cmd.action = calls[c].action
           /\ cmd.orderId = calls[c].orderId
           /\ cmd.order = Asked(calls[c]) \/ cmd.order = Absent
  BY <1>1, CommandRead
<1>3. IF cmd.action # "SUBMIT_ORDER" THEN HandleCancel(cmd)
      ELSE IF cmd.order # Absent THEN HandleSubmit(cmd) ELSE RefuseSubmit(cmd)
  BY <1>2 DEF ReceiveCommand
<1>4. cmd.action = "SUBMIT_ORDER" <=> IsSubmit(calls[c])
  BY <1>2 DEF IsSubmit
<1>5. CASE IsSubmit(calls[c]) /\ cmd.order # Absent
  <2>1. HandleSubmit(cmd) /\ cmd.order = Asked(calls[c])
    BY <1>2, <1>3, <1>4, <1>5
  <2>2. ClusterInv' /\ Grows /\ \E o, trades : OrderRuns(c, o, trades)
    BY <1>1, <1>2, <1>5, <2>1, OrderCommandRun
  <2> QED
    BY <2>2
<1>6. CASE IsSubmit(calls[c]) /\ cmd.order = Absent
  <2>1. RefuseSubmit(cmd)
    BY <1>3, <1>4, <1>6
  <2>2. ClusterInv' /\ Grows /\ UNCHANGED <<live, resting, ran>>
    BY <1>1, <1>2, <1>6, <2>1, SubmitRefused
  <2> QED
    BY <1>1, <2>2
<1>7. CASE ~ IsSubmit(calls[c])
  <2>1. HandleCancel(cmd)
    BY <1>3, <1>4, <1>7
  <2>2. ClusterInv' /\ Grows /\ \E id : CancelRuns(c, id)
    BY <1>1, <1>2, <1>7, <2>1, CancelCommandRun
  <2> QED
    BY <2>2
<1> QED
  BY <1>5, <1>6, <1>7

\* A handler that got an acknowledgement, or a refusal, is one still.
LEMMA HandlerMoves ==
  ASSUME HandlersGood, RanGood, NEW h \in handlers, h.left > 1
  PROVE  /\ h = [call |-> h.call, left |-> h.left, trades |-> h.trades, order |-> h.order,
                 ok |-> TRUE]
         /\ HandlerGood(h) /\ h.left \in Nat /\ Len(h.trades) \in Nat
         /\ h.left <= Len(h.trades) + 1
<1>1. HandlerGood(h)
  BY DEF HandlersGood
<1>2. h.left \in 1..(Len(h.trades) + 1) /\ h.ok = TRUE
  BY <1>1 DEF HandlerGood
<1>3. IsSeq(h.trades)
  <2>1. CASE IsSubmit(calls[h.call])
    BY <1>1, <2>1 DEF HandlerGood, RanGood, GoodTrades
  <2>2. CASE ~ IsSubmit(calls[h.call])
    BY <1>1, <2>2, EmptyIsSeq DEF HandlerGood
  <2> QED
    BY <2>1, <2>2
<1>4. Len(h.trades) \in Nat
  BY <1>3 DEF IsSeq
<1> QED
  BY <1>1, <1>2, <1>4 DEF HandlerGood

LEMMA TradeAcknowledged ==
  ASSUME ClusterInv, NEW h \in handlers, TradePublished(h)
  PROVE  ClusterInv' /\ Grows
<1> USE DEF ClusterInv
<1>1. PICK g : /\ g = [h EXCEPT !.left = @ - 1]
               /\ IF g.left = 1
                  THEN PublishOrderBook(handlers \ {h}, g, DepthOf(live, resting))
                  ELSE handlers' = (handlers \ {h}) \cup {g} /\ UNCHANGED <<toGateway, faultVars>>
  BY DEF TradePublished
<1>2. /\ worker # "down" /\ h.left > 1
      /\ UNCHANGED <<calls, pendingRequests, gateway, snapshotCache, toWorker, worker,
                     incarnation, live, resting, ran>>
  BY DEF TradePublished, routerVars
<1>3. Grows
  <2>1. lost => lost'
    BY <1>1 DEF PublishOrderBook, faultVars
  <2> QED
    BY <1>2, <2>1, SameOrdersGrow
<1>4. CallsGood' /\ PendingGood' /\ EngineGood' /\ RanGood' /\ CommandsGood'
  BY <1>2, <1>3, CallsKept, PendingKept, EngineKept, RanUnchanged, CommandsKept
<1>5. /\ h = [call |-> h.call, left |-> h.left, trades |-> h.trades, order |-> h.order,
              ok |-> TRUE]
      /\ HandlerGood(h) /\ h.left \in Nat /\ Len(h.trades) \in Nat
      /\ h.left <= Len(h.trades) + 1
  BY <1>2, HandlerMoves
<1>6. g = [call |-> h.call, left |-> h.left - 1, trades |-> h.trades, order |-> h.order,
           ok |-> TRUE]
  <2>1. PICK n : n = h.left - 1
    OBVIOUS
  <2>2. PICK c, l, ts, o : c = h.call /\ l = h.left /\ ts = h.trades /\ o = h.order
    OBVIOUS
  <2>3. h = [call |-> c, left |-> l, trades |-> ts, order |-> o, ok |-> TRUE]
    BY <1>5, <2>2
  <2>4. g = [h EXCEPT !.left = n]
    BY <1>1, <2>1
  <2>5. g = [call |-> c, left |-> n, trades |-> ts, order |-> o, ok |-> TRUE]
    BY <2>3, <2>4
  <2> QED
    BY <2>1, <2>2, <2>5
<1>7. HandlerGood(g)'
  <2>1. /\ g.call = h.call /\ g.left = h.left - 1 /\ g.trades = h.trades /\ g.order = h.order
        /\ g.ok = TRUE /\ g.left \in 1..(Len(g.trades) + 1)
    BY <1>2, <1>5, <1>6
  <2>2. HandlerGood(g)
    BY <1>5, <1>6, <2>1 DEF HandlerGood
  <2> QED
    BY <1>2, <1>3, <2>2, HandlerKept
<1>8. \A x \in handlers \ {h} : HandlerGood(x)'
  BY <1>2, <1>3, HandlerKept DEF HandlersGood
<1>9. MessagesGood' /\ CacheGood' /\ HandlersGood'
  <2>1. CASE g.left = 1
    <3>1. PICK d : d = DepthOf(live, resting)
      OBVIOUS
    <3>2. d = DepthOf(live', resting') /\ worker' # "down"
      BY <1>2, <3>1
    <3>3. PICK others : others = handlers \ {h}
      OBVIOUS
    <3>4. PublishOrderBook(others, g, d) /\ \A x \in others : HandlerGood(x)'
      BY <1>1, <1>8, <2>1, <3>1, <3>3
    <3> QED
      BY <1>2, <1>3, <1>7, <2>1, <3>2, <3>4, BookPublished
  <2>2. CASE g.left # 1
    <3>1. handlers' = (handlers \ {h}) \cup {g} /\ UNCHANGED <<toGateway, lost>>
      BY <1>1, <2>2 DEF faultVars
    <3>2. g.left > 1 /\ g \in handlers'
      BY <1>2, <1>5, <1>6, <2>2, <3>1
    <3>3. \A body : Follows(body)'
      BY <3>2 DEF Follows
    <3>4. CacheGood'
      BY <1>2, <3>1, <3>3, CacheFollowed
    <3>5. MessagesGood'
      BY <1>2, <1>3, <3>1, MessagesKept DEF Ages, CacheGood, MessagesGood
    <3>6. HandlersGood'
      BY <1>2, <1>7, <1>8, <3>1 DEF HandlersGood
    <3> QED
      BY <3>4, <3>5, <3>6
  <2> QED
    BY <2>1, <2>2
<1> QED
  BY <1>3, <1>4, <1>9

LEMMA TradeNotPublished ==
  ASSUME ClusterInv, NEW h \in handlers, TradeRefused(h)
  PROVE  ClusterInv' /\ Grows
<1> USE DEF ClusterInv
<1>1. PICK g : g = [h EXCEPT !.left = 1, !.ok = FALSE]
  OBVIOUS
<1>2. /\ worker # "down" /\ h.left > 1 /\ handlers' = (handlers \ {h}) \cup {g}
      /\ lost' = TRUE
      /\ UNCHANGED <<calls, pendingRequests, gateway, snapshotCache, toWorker, toGateway,
                     worker, incarnation, live, resting, ran>>
  BY <1>1 DEF TradeRefused, routerVars
<1>3. Grows
  BY <1>2, SameOrdersGrow
<1>4. CallsGood' /\ PendingGood' /\ EngineGood' /\ RanGood' /\ CommandsGood'
  BY <1>2, <1>3, CallsKept, PendingKept, EngineKept, RanUnchanged, CommandsKept
<1>5. /\ h = [call |-> h.call, left |-> h.left, trades |-> h.trades, order |-> h.order,
              ok |-> TRUE]
      /\ HandlerGood(h) /\ Len(h.trades) \in Nat
  BY <1>2, HandlerMoves
<1>6. g = [call |-> h.call, left |-> 1, trades |-> h.trades, order |-> h.order, ok |-> FALSE]
  BY <1>1, <1>5
<1>7. HandlerGood(g)'
  <2>1. /\ g.call = h.call /\ g.left = 1 /\ g.trades = h.trades /\ g.order = h.order
        /\ g.ok = FALSE /\ g.left \in 1..(Len(g.trades) + 1)
    BY <1>5, <1>6
  <2> QED
    BY <1>2, <1>5, <1>6, <2>1 DEF HandlerGood
<1>8. HandlersGood'
  <2>1. \A x \in handlers : HandlerGood(x)'
    BY <1>2, <1>3, HandlerKept DEF HandlersGood
  <2> QED
    BY <1>2, <1>7, <2>1 DEF HandlersGood
<1>9. MessagesGood'
  BY <1>2, <1>3, MessagesKept DEF Ages, CacheGood, MessagesGood
<1>10. CacheGood'
  BY <1>2, LossFollowed
<1> QED
  BY <1>3, <1>4, <1>8, <1>9, <1>10

LEMMA ResultSent ==
  ASSUME ClusterInv, NEW h \in handlers, SendResult(h)
  PROVE  ClusterInv' /\ Grows
<1> USE DEF ClusterInv
<1>1. PICK c : c = h.call
  OBVIOUS
<1>2. PICK res : res = IF h.order = 0 \/ ~ h.ok THEN Result(c, h.ok, Absent, Absent)
                       ELSE Result(c, TRUE, <<h.trades>>, <<live[h.order]>>)
  OBVIOUS
<1>3. PICK m : m = Reply(c, res)
  OBVIOUS
<1>4. /\ worker # "down" /\ h.left = 1 /\ handlers' = handlers \ {h}
      /\ toGateway' = Append(toGateway, m)
      /\ UNCHANGED <<calls, pendingRequests, gateway, snapshotCache, toWorker, worker,
                     incarnation, live, resting, ran, lost>>
  BY <1>1, <1>2, <1>3 DEF SendResult, routerVars, faultVars
<1>5. Grows
  BY <1>4, SameOrdersGrow
<1>6. CallsGood' /\ PendingGood' /\ EngineGood' /\ RanGood' /\ CommandsGood' /\ HandlersGood'
  BY <1>4, <1>5, CallsKept, PendingKept, EngineKept, RanUnchanged, CommandsKept, HandlersKept
<1>7. Ages /\ IsSeq(toGateway)
  BY <1>4 DEF Ages, CacheGood, MessagesGood
<1>8. HandlerGood(h) /\ c \in DOMAIN ran /\ c \in DOMAIN calls
  BY <1>1 DEF HandlersGood, HandlerGood, RanGood
<1>9. /\ m.kind = "reply" /\ m.kind # "snapshot" /\ m.correlationId = c
      /\ m.body = EncodeResult(res)
  BY <1>3, ReplyIsNoSnapshot
<1>10. TrueResult(c, DecodeResult(m.body))
  <2>0. calls[c].answer # "refused" /\ (h.ok = TRUE \/ (h.ok = FALSE /\ lost))
    BY <1>8 DEF RanGood, HandlerGood
  <2>3. CASE h.ok = FALSE
    <3>1. res = Result(c, FALSE, Absent, Absent) /\ lost
      BY <1>2, <2>0, <2>3
    <3>2. DecodeResult(m.body).success = FALSE
      BY <1>9, <3>1, RefusalRead
    <3> QED
      BY <1>8, <2>0, <3>1, <3>2 DEF TrueResult
  <2>1. CASE IsSubmit(calls[c]) /\ h.ok = TRUE
    <3>1. h.order = c /\ c \in DOMAIN live /\ h.trades = ran[c].trades
      BY <1>1, <1>8, <2>1 DEF HandlerGood
    <3>2. c # 0
      <4>1. DOMAIN calls = 1..Len(calls) /\ Len(calls) \in Nat
        BY SeqFacts DEF CallsGood
      <4> QED
        BY <1>8, <4>1
    <3>3. PICK o : o = live[c]
      OBVIOUS
    <3>4. PICK trades : trades = ran[c].trades
      OBVIOUS
    <3>5. res = Result(c, TRUE, <<trades>>, <<o>>)
      BY <1>2, <2>1, <3>1, <3>2, <3>3, <3>4
    <3>6. GoodOrder(o) /\ Truthful(c, o)
      <4>1. GoodOrder(o)
        BY <3>1, <3>3 DEF EngineGood
      <4>2. <<Original(o)>> = ran[c].order /\ QuantityOf(ran[c].trades, c) <= o.filledQuantity
        BY <3>1, <3>3 DEF EngineGood
      <4>3. ~ Rests(o) => Gone(c)
        BY <1>8, <3>3 DEF EngineGood, Gone
      <4>4. o.filledQuantity <= live[c].filledQuantity
        BY <3>3, <4>1 DEF GoodOrder
      <4> QED
        BY <4>1, <4>2, <4>3, <4>4 DEF Truthful
    <3>7. IsResult(res)
      <4>1. IsTradeList(trades)
        <5>1. GoodTrades(trades)
          BY <1>8, <3>4 DEF RanGood
        <5>2. IsSeq(trades) /\ DOMAIN trades = 1..Len(trades)
          BY <5>1, SeqFacts DEF GoodTrades
        <5> QED
          BY <5>1, <5>2 DEF GoodTrades, IsSeq, IsTradeList
      <4>2. IsOrder(o)
        BY <3>6 DEF GoodOrder
      <4> QED
        BY <3>5, <4>1, <4>2 DEF IsResult, Result
    <3>8. DecodeResult(EncodeResult(res)) = AsReceived(res)
      BY <3>7, ResultRoundTrip
    <3>9. AsReceived(res) = res
      BY <3>5 DEF AsReceived, Result, Absent
    <3>10. /\ DecodeResult(m.body).success = TRUE
           /\ DecodeResult(m.body).trades = <<trades>>
           /\ DecodeResult(m.body).order = <<o>>
      <4>1. DecodeResult(m.body) = res
        BY <1>9, <3>8, <3>9
      <4>2. res.success = TRUE /\ res.trades = <<trades>> /\ res.order = <<o>>
        BY <3>5 DEF Result
      <4> QED
        BY <4>1, <4>2
    <3> QED
      BY <1>8, <2>0, <2>1, <3>4, <3>6, <3>10 DEF TrueResult
  <2>2. CASE ~ IsSubmit(calls[c]) /\ h.ok = TRUE
    <3>1. h.order = 0 /\ ran[c].found
      BY <1>1, <1>8, <2>2 DEF HandlerGood
    <3>2. ran[c].found = TRUE
      BY <1>8, <2>2, <3>1 DEF RanGood
    <3>3. res = Result(c, TRUE, Absent, Absent)
      BY <1>2, <2>2, <3>1
    <3>4. DecodeResult(m.body).success = TRUE
      BY <1>9, <3>3, RefusalRead
    <3> QED
      BY <1>8, <2>0, <2>2, <3>2, <3>4 DEF TrueResult
  <2> QED
    BY <2>0, <2>1, <2>2, <2>3
<1>11. MessageGood(m)'
  <2>1. MessageGood(m)
    BY <1>9, <1>10 DEF MessageGood
  <2> QED
    BY <1>5, <1>7, <2>1, MessageKept
<1>12. MessagesGood'
  BY <1>4, <1>5, <1>7, <1>11, MessagesAdded
<1>13. CacheGood'
  <2>1. \A body : Follows(body) => Follows(body)'
    BY <1>4 DEF Follows
  <2> QED
    BY <1>4, <1>9, <2>1, MessageAppended
<1> QED
  BY <1>5, <1>6, <1>12, <1>13

-----------------------------------------------------------------------------
(* The cluster starts in its invariant, which says what it promises.       *)

LEMMA ClusterStarts ==
  ASSUME ClusterInit
  PROVE  ClusterInv
<1> USE DEF ClusterInit
<1>1. IsSeq(<< >>) /\ Elements(<< >>) = {} /\ DOMAIN << >> = {}
  BY EmptyIsSeq
<1>2. CallsGood /\ PendingGood /\ CommandsGood /\ MessagesGood
  BY <1>1 DEF CallsGood, PendingGood, CommandsGood, MessagesGood
<1>3. EngineGood /\ RanGood /\ HandlersGood
  BY <1>1 DEF EngineGood, RanGood, HandlersGood
<1>4. CacheGood
  BY <1>1 DEF CacheGood
<1> QED
  BY <1>2, <1>3, <1>4 DEF ClusterInv

LEMMA TypesFollow ==
  ASSUME ClusterInv
  PROVE  ClusterTypeOK
<1> USE DEF ClusterInv
<1>1. pendingRequests = {c \in DOMAIN calls : AwaitsReply(calls[c])}
      \/ gateway = "crashed"
  BY DEF PendingGood
<1>2. \A c \in DOMAIN calls :
        /\ calls[c].pc \in {"publishing", "waiting", "done"}
        /\ calls[c].answer \in
             {"none", "done", "failed", "not found", "timeout", "refused"}
        /\ calls[c].pc = "done" <=> calls[c].answer # "none"
  BY DEF CallsGood, IsCall
<1>3. \A id \in DOMAIN live : live[id].id = id /\ live[id].filledQuantity <= live[id].quantity
  BY DEF EngineGood, GoodOrder
<1>4. resting = {id \in DOMAIN live : Rests(live[id])}
  BY DEF EngineGood
<1>5. \A h \in handlers : h.call \in DOMAIN ran /\ h.left \in 1..(Len(h.trades) + 1)
  BY DEF HandlersGood, HandlerGood
<1> QED
  BY <1>1, <1>2, <1>3, <1>4, <1>5 DEF ClusterTypeOK

LEMMA AnswersFollow ==
  ASSUME ClusterInv
  PROVE  AnswersAreTrue
<1> USE DEF ClusterInv
<1> SUFFICES ASSUME NEW c \in DOMAIN calls, NEW call, call = calls[c]
             PROVE  /\ call.answer = "done" /\ IsSubmit(call) =>
                         /\ c \in DOMAIN ran /\ call.trades = ran[c].trades
                         /\ ran[c].order[1] = Original(call.order[1])
                         /\ QuantityOf(call.trades, c) <= call.order[1].filledQuantity
                         /\ call.order[1].filledQuantity <= call.order[1].quantity
                    /\ call.answer = "done" /\ ~IsSubmit(call) =>
                         /\ c \in DOMAIN ran /\ ran[c].found
                         /\ call.orderId[1] \notin resting
                    /\ call.answer = "not found" =>
                         c \in DOMAIN ran /\ (ran[c].found => lost)
  BY DEF AnswersAreTrue, Original
<1>1. AnswerIsTrue(c, call)
  BY DEF CallsGood
<1>2. CASE call.answer = "done" /\ IsSubmit(call)
  <2>1. PICK o : o = call.order[1]
    OBVIOUS
  <2>2. c \in DOMAIN ran /\ call.trades = ran[c].trades /\ Truthful(c, o)
    BY <1>1, <1>2, <2>1 DEF AnswerIsTrue
  <2>3. /\ <<Original(o)>> = ran[c].order /\ QuantityOf(ran[c].trades, c) <= o.filledQuantity
        /\ o.filledQuantity <= o.quantity
    BY <2>2 DEF Truthful, GoodOrder
  <2>4. ran[c].order[1] = Original(o)
    BY <2>3
  <2> QED
    BY <1>2, <2>1, <2>2, <2>3, <2>4
<1>3. CASE call.answer = "done" /\ ~ IsSubmit(call)
  BY <1>1, <1>3 DEF AnswerIsTrue, RanGood, Gone
<1>4. CASE call.answer # "done"
  BY <1>1, <1>4 DEF AnswerIsTrue
<1> QED
  BY <1>2, <1>3, <1>4

LEMMA CacheFollows ==
  ASSUME ClusterInv
  PROVE  CacheFollowsBook
<1> USE DEF ClusterInv
<1> DEFINE sent == {i \in DOMAIN toGateway : toGateway[i].kind = "snapshot"}
           newest == IF sent # {} THEN <<toGateway[Max(sent)].body>> ELSE snapshotCache
<1>1. newest # Absent => Follows(newest[1])
  <2>1. CASE sent = {}
    BY <2>1 DEF CacheGood, IsSnapshotAt
  <2>2. CASE sent # {}
    <3>1. PICK n \in Nat : DOMAIN toGateway = 1..n
      BY SeqFacts DEF MessagesGood
    <3>2. sent \in SUBSET (1..n)
      BY <3>1
    <3>3. \A i : i \in sent <=> IsSnapshotAt(i)
      BY DEF IsSnapshotAt
    <3>4. PICK k : k = Max(sent)
      OBVIOUS
    <3>5. IsSnapshotAt(k) /\ \A j \in DOMAIN toGateway : j > k => ~ IsSnapshotAt(j)
      <4> HIDE DEF sent
      <4>1. k \in sent /\ \A j \in sent : k >= j
        BY <2>2, <3>2, <3>4, MaxProperties
      <4> QED
        BY <3>1, <3>2, <3>3, <4>1
    <3>6. Follows(toGateway[k].body)
      BY <3>5 DEF CacheGood, IsSnapshotAt
    <3> QED
      BY <2>2, <3>4, <3>6
  <2> QED
    BY <2>1, <2>2
<1> QED
  BY <1>1 DEF CacheFollowsBook, Follows

\* The steps of the router, the worker and the network that nobody calls.
ClusterEvent ==
  \/ \E c \in DOMAIN calls : PublishAcked(c)
  \/ ReceiveReply \/ ReceiveSnapshot
  \/ \E c \in pendingRequests : TimerFires(c)
  \/ \E h \in handlers : TradePublished(h) \/ TradeRefused(h) \/ SendResult(h)
  \/ ReceiveCommand \/ StopWorker \/ ExitWorker \/ StartWorker \/ DropCommand \/ LoseMessage

LEMMA EventKeepsCluster ==
  ASSUME ClusterInv, ClusterEvent
  PROVE  ClusterInv' /\ Grows /\ DOMAIN calls' = DOMAIN calls
<1>1. CASE \E c \in DOMAIN calls : PublishAcked(c)
  <2>1. PICK c \in DOMAIN calls : PublishAcked(c)
    BY <1>1
  <2>2. DOMAIN calls' = DOMAIN calls
    BY <2>1 DEF PublishAcked
  <2> QED
    BY <2>1, <2>2, PublishAcknowledged
<1>2. CASE ReceiveReply
  <2>1. DOMAIN calls' = DOMAIN calls
    BY <1>2 DEF ReceiveReply, HandleReply
  <2> QED
    BY <1>2, <2>1, ReplyReceived
<1>3. CASE ReceiveSnapshot
  BY <1>3, SnapshotReceived DEF ReceiveSnapshot
<1>4. CASE \E c \in pendingRequests : TimerFires(c)
  <2>1. PICK c \in pendingRequests : TimerFires(c)
    BY <1>4
  <2>2. DOMAIN calls' = DOMAIN calls
    BY <2>1 DEF TimerFires
  <2> QED
    BY <2>1, <2>2, TimerFired
<1>5. CASE \E h \in handlers : TradePublished(h) \/ TradeRefused(h) \/ SendResult(h)
  <2>1. PICK h \in handlers : TradePublished(h) \/ TradeRefused(h) \/ SendResult(h)
    BY <1>5
  <2>2. ClusterInv' /\ Grows
    BY <2>1, TradeAcknowledged, TradeNotPublished, ResultSent
  <2>3. calls' = calls
    BY <2>1 DEF TradePublished, TradeRefused, SendResult, routerVars
  <2> QED
    BY <2>2, <2>3
<1>6. CASE ReceiveCommand
  <2>1. calls' = calls
    BY <1>6 DEF ReceiveCommand, routerVars
  <2> QED
    BY <1>6, <2>1, CommandReceived
<1>7. CASE StopWorker
  BY <1>7, WorkerStopped DEF StopWorker, routerVars
<1>8. CASE ExitWorker
  BY <1>8, WorkerExited DEF ExitWorker, routerVars
<1>9. CASE StartWorker
  BY <1>9, WorkerStarted DEF StartWorker, routerVars
<1>10. CASE DropCommand
  BY <1>10, CommandDropped DEF DropCommand, routerVars
<1>11. CASE LoseMessage
  BY <1>11, MessageLost DEF LoseMessage, routerVars
<1> QED
  BY <1>1, <1>2, <1>3, <1>4, <1>5, <1>6, <1>7, <1>8, <1>9, <1>10, <1>11 DEF ClusterEvent

-----------------------------------------------------------------------------
(* The inductive invariant of the bot.                                     *)

BotCalls == {c \in DOMAIN calls : IsSubmit(calls[c]) /\ calls[c].order[1].userId = Bot}

ThreadGood(x) ==
  /\ x = [pc |-> x.pc, orders |-> x.orders, cancels |-> x.cancels, places |-> x.places,
          cross |-> x.cross, request |-> x.request, call |-> x.call, id |-> x.id,
          quantity |-> x.quantity, settled |-> x.settled]
  /\ x.pc = "locking" => GoodRequest(x.request[1]) /\ x.request[1].userId = Bot
  /\ x.pc = "submitting" => x.call \in BotCalls
  /\ x.pc = "cancelling" => /\ x.call \in DOMAIN calls /\ ~ IsSubmit(calls[x.call])
                            /\ calls[x.call].orderId = <<x.id>>
  /\ x.pc = "unlocking" => Gone(x.id)

ThreadsGood ==
  /\ threads = [t \in Thread |-> threads[t]]
  /\ \A t \in Thread : ThreadGood(threads[t])

Recorded(c) ==
  c \in resting => /\ c \in DOMAIN activeOrderIds /\ activeOrderIds[c] \in Nat
                   /\ Remaining(live[c]) <= activeOrderIds[c]

\* The caller was told that the submit failed, whether it did or not.
Abandoned(c) == calls[c].answer \in {"timeout", "failed", "refused"}

\* Where a submit of the bot stands.
Tracked(c) ==
  \/ Abandoned(c)
  \/ \E t \in Thread : Awaits(t, "submitting") /\ threads[t].call = c
  \/ c \in DOMAIN ran /\ Recorded(c)

RecordsGood ==
  /\ \A c \in BotCalls : Tracked(c)
  /\ DOMAIN activeOrderIds \subseteq DOMAIN ran

BotInv == ThreadsGood /\ RecordsGood

-----------------------------------------------------------------------------
(* What a step of the cluster leaves true of the bot.                      *)

LEMMA CallsKeepOrders ==
  ASSUME CallsGood, CallsGood', Grows
  PROVE  \A c \in DOMAIN calls :
           /\ c \in DOMAIN calls' /\ (IsSubmit(calls'[c]) <=> IsSubmit(calls[c]))
           /\ c \in BotCalls' <=> c \in BotCalls
<1> SUFFICES ASSUME NEW c \in DOMAIN calls
             PROVE  /\ c \in DOMAIN calls' /\ (IsSubmit(calls'[c]) <=> IsSubmit(calls[c]))
                    /\ c \in BotCalls' <=> c \in BotCalls
  OBVIOUS
<1>1. c \in DOMAIN calls' /\ (IsSubmit(calls'[c]) <=> IsSubmit(calls[c]))
  BY DEF Grows, IsSubmit
<1>2. ASSUME IsSubmit(calls[c])
      PROVE  calls'[c].order[1].userId = calls[c].order[1].userId
  <2>1. PICK a : a = calls[c].order[1]
    OBVIOUS
  <2>2. PICK b : b = calls'[c].order[1]
    OBVIOUS
  <2>3. GoodOrder(a)
    BY <1>2, <2>1 DEF CallsGood, IsCall
  <2>4. GoodOrder(b)
    BY <1>1, <1>2, <2>2 DEF CallsGood, IsCall
  <2>5. <<Original(a)>> = <<Original(b)>>
    BY <1>1, <1>2, <2>1, <2>2 DEF Grows, Asked
  <2>6. PICK o : o = Original(a)
    OBVIOUS
  <2>7. o = Original(b)
    BY <2>5, <2>6
  <2>8. o.userId = a.userId
    BY <2>3, <2>6, OriginalFacts
  <2>9. o.userId = b.userId
    BY <2>4, <2>7, OriginalFacts
  <2> QED
    BY <2>1, <2>2, <2>8, <2>9
<1>3. c \in BotCalls' <=> c \in BotCalls
  BY <1>1, <1>2 DEF BotCalls
<1> QED
  BY <1>1, <1>3

LEMMA ThreadKept ==
  ASSUME CallsGood, CallsGood', Grows
  PROVE  \A x : ThreadGood(x) => ThreadGood(x)'
<1> SUFFICES ASSUME NEW x, ThreadGood(x) PROVE ThreadGood(x)'
  OBVIOUS
<1>1. x.pc = "submitting" => x.call \in BotCalls'
  BY CallsKeepOrders DEF ThreadGood, BotCalls
<1>2. x.pc = "cancelling" => /\ x.call \in DOMAIN calls' /\ ~ IsSubmit(calls'[x.call])
                             /\ calls'[x.call].orderId = <<x.id>>
  BY CallsKeepOrders DEF ThreadGood, Grows
<1>3. x.pc = "unlocking" => Gone(x.id)'
  <2>1. PICK id : id = x.id
    OBVIOUS
  <2> QED
    BY <2>1, GoneKept DEF ThreadGood
<1> QED
  BY <1>1, <1>2, <1>3 DEF ThreadGood

LEMMA LeftKept ==
  ASSUME EngineGood, EngineGood', Grows
  PROVE  \A c \in DOMAIN ran :
           c \in resting' => /\ c \in resting
                             /\ Remaining(live[c]) \in Nat /\ Remaining(live'[c]) \in Nat
                             /\ Remaining(live'[c]) <= Remaining(live[c])
<1> SUFFICES ASSUME NEW c \in DOMAIN ran, c \in resting'
             PROVE  /\ c \in resting
                    /\ Remaining(live[c]) \in Nat /\ Remaining(live'[c]) \in Nat
                    /\ Remaining(live'[c]) <= Remaining(live[c])
  OBVIOUS
<1>1. c \in resting /\ c \in DOMAIN live' /\ c \in DOMAIN live
  BY DEF Grows, EngineGood
<1>2. PICK a : a = live[c]
  OBVIOUS
<1>3. PICK b : b = live'[c]
  OBVIOUS
<1>4. GoodOrder(a) /\ GoodOrder(b) /\ a.filledQuantity <= b.filledQuantity
  BY <1>1, <1>2, <1>3 DEF EngineGood, Grows
<1>5. <<Original(a)>> = <<Original(b)>>
  BY <1>1, <1>2, <1>3 DEF EngineGood, Grows
<1>6. PICK o : o = Original(a)
  OBVIOUS
<1>7. o = Original(b)
  BY <1>5, <1>6
<1>8. o.quantity = a.quantity
  BY <1>4, <1>6, OriginalFacts
<1>9. o.quantity = b.quantity
  BY <1>4, <1>7, OriginalFacts
<1> QED
  BY <1>1, <1>2, <1>3, <1>4, <1>8, <1>9 DEF GoodOrder, Remaining

LEMMA RecordKept ==
  ASSUME EngineGood, EngineGood', Grows, activeOrderIds' = activeOrderIds
  PROVE  \A c \in DOMAIN ran : Recorded(c) => Recorded(c)'
<1> SUFFICES ASSUME NEW c \in DOMAIN ran, Recorded(c), c \in resting'
             PROVE  /\ c \in DOMAIN activeOrderIds /\ activeOrderIds[c] \in Nat
                    /\ Remaining(live'[c]) <= activeOrderIds[c]
  BY DEF Recorded
<1>1. /\ c \in resting /\ Remaining(live[c]) \in Nat /\ Remaining(live'[c]) \in Nat
      /\ Remaining(live'[c]) <= Remaining(live[c])
  BY LeftKept
<1> QED
  BY <1>1 DEF Recorded

LEMMA AbandonedStays ==
  ASSUME CallsGood, Grows
  PROVE  \A c \in BotCalls : Abandoned(c) => Abandoned(c)'
<1> SUFFICES ASSUME NEW c \in BotCalls, Abandoned(c) PROVE Abandoned(c)'
  OBVIOUS
<1>1. c \in DOMAIN calls /\ calls[c].answer # "none"
  BY DEF BotCalls, Abandoned
<1>2. calls[c].pc = "done"
  BY <1>1 DEF CallsGood, IsCall
<1> QED
  BY <1>1, <1>2 DEF Grows, Abandoned

LEMMA TrackStays ==
  ASSUME CallsGood, EngineGood, EngineGood', Grows,
         \A t \in Thread : Awaits(t, "submitting") => threads'[t] = threads[t],
         activeOrderIds' = activeOrderIds
  PROVE  \A c \in BotCalls : Tracked(c) => Tracked(c)'
<1> SUFFICES ASSUME NEW c \in BotCalls, Tracked(c) PROVE Tracked(c)'
  OBVIOUS
<1>1. CASE Abandoned(c)
  BY <1>1, AbandonedStays DEF Tracked
<1>2. CASE \E t \in Thread : Awaits(t, "submitting") /\ threads[t].call = c
  BY <1>2 DEF Tracked, Awaits
<1>3. CASE c \in DOMAIN ran /\ Recorded(c)
  BY <1>3, RecordKept DEF Tracked, Grows
<1> QED
  BY <1>1, <1>2, <1>3 DEF Tracked

\* A step that leaves the bot's submits and its record alone.
Quiet ==
  /\ activeOrderIds' = activeOrderIds /\ BotCalls' = BotCalls
  /\ \A t \in Thread : Awaits(t, "submitting") => threads'[t] = threads[t]

LEMMA QuietKeeps ==
  ASSUME ClusterInv, ClusterInv', Grows, BotInv, Quiet, ThreadsGood'
  PROVE  BotInv'
<1> USE DEF ClusterInv, BotInv
<1>1. \A c \in BotCalls : Tracked(c)'
  BY TrackStays DEF Quiet, RecordsGood
<1>2. DOMAIN activeOrderIds \subseteq DOMAIN ran'
  BY DEF RecordsGood, Grows
<1> QED
  BY <1>1, <1>2 DEF RecordsGood, Quiet

LEMMA ThreadsStay ==
  ASSUME CallsGood, CallsGood', Grows, ThreadsGood, threads' = threads
  PROVE  ThreadsGood'
<1>1. \A t \in Thread : ThreadGood(threads[t])'
  <2> SUFFICES ASSUME NEW t \in Thread PROVE ThreadGood(threads[t])'
    OBVIOUS
  <2>1. PICK x : x = threads[t]
    OBVIOUS
  <2>2. ThreadGood(x)'
    BY <2>1, ThreadKept DEF ThreadsGood
  <2> QED
    BY <2>1, <2>2
<1> QED
  BY <1>1 DEF ThreadsGood

\* One thread goes on.
LEMMA ThreadSet ==
  ASSUME CallsGood, CallsGood', Grows, ThreadsGood, NEW t \in Thread, NEW x,
         threads' = [threads EXCEPT ![t] = x], ThreadGood(x)'
  PROVE  ThreadsGood'
<1>1. /\ threads' = [u \in Thread |-> threads'[u]] /\ threads'[t] = x
      /\ \A u \in Thread \ {t} : threads'[u] = threads[u]
  BY DEF ThreadsGood
<1>2. \A u \in Thread : ThreadGood(threads[u])'
  <2> SUFFICES ASSUME NEW u \in Thread PROVE ThreadGood(threads[u])'
    OBVIOUS
  <2>1. PICK y : y = threads'[u]
    OBVIOUS
  <2>2. ThreadGood(y)'
    <3>1. CASE u = t
      BY <1>1, <2>1, <3>1
    <3>2. CASE u # t
      BY <1>1, <2>1, <3>2, ThreadKept DEF ThreadsGood
    <3> QED
      BY <3>1, <3>2
  <2> QED
    BY <2>1, <2>2
<1> QED
  BY <1>1, <1>2 DEF ThreadsGood

LEMMA EventKeepsBot ==
  ASSUME ClusterInv, ClusterInv', Grows, DOMAIN calls' = DOMAIN calls, BotInv,
         UNCHANGED <<threads, activeOrderIds>>
  PROVE  BotInv'
<1> USE DEF ClusterInv, BotInv
<1>1. ThreadsGood'
  BY ThreadsStay
<1>2. BotCalls' = BotCalls
  BY CallsKeepOrders DEF BotCalls
<1>3. Quiet
  BY <1>2 DEF Quiet
<1> QED
  BY <1>1, <1>3, QuietKeeps

-----------------------------------------------------------------------------
(* The steps of the bot that call nothing of the router's.                 *)

\* Only the count of faults may change.
ClusterStill ==
  UNCHANGED <<calls, pendingRequests, gateway, snapshotCache, toWorker, toGateway,
              worker, incarnation, live, resting, handlers, ran, lost>>

LEMMA StillKeeps ==
  ASSUME ClusterInv, ClusterStill
  PROVE  ClusterInv' /\ Grows
<1> USE DEF ClusterInv, ClusterStill
<1>1. Grows
  BY SameOrdersGrow
<1>2. CallsGood'
  BY <1>1, CallsKept
<1>3. EngineGood' /\ RanGood' /\ CommandsGood'
  BY <1>1, EngineKept, RanUnchanged, CommandsKept
<1>4. MessagesGood'
  BY <1>1, MessagesKept DEF Ages, CacheGood, MessagesGood
<1>5. HandlersGood'
  BY <1>1, HandlersKept
<1>6. CacheGood'
  BY CacheKept
<1>7. PendingGood'
  BY DEF PendingGood
<1> QED
  BY <1>1, <1>2, <1>3, <1>4, <1>5, <1>6, <1>7

\* One thread goes on that awaits no submit.
LEMMA ThreadMoves ==
  ASSUME ClusterInv, BotInv, ClusterStill, activeOrderIds' = activeOrderIds,
         NEW t \in Thread, NEW x, threads' = [threads EXCEPT ![t] = x], ThreadGood(x),
         ~ Awaits(t, "submitting")
  PROVE  ClusterInv' /\ BotInv'
<1> USE DEF BotInv
<1>1. ClusterInv' /\ Grows
  BY StillKeeps
<1>2. CallsGood /\ CallsGood'
  BY <1>1 DEF ClusterInv
<1>3. ThreadGood(x)'
  BY <1>1, <1>2, ThreadKept
<1>4. ThreadsGood'
  BY <1>1, <1>2, <1>3, ThreadSet
<1>5. Quiet
  <2>1. BotCalls' = BotCalls
    BY DEF BotCalls, ClusterStill
  <2>2. threads'[t] = x /\ \A u \in Thread \ {t} : threads'[u] = threads[u]
    BY DEF ThreadsGood
  <2> QED
    BY <2>1, <2>2 DEF Quiet
<1> QED
  BY <1>1, <1>4, <1>5, QuietKeeps

\* A thread that is somewhere else, where nothing is asked of it.
LEMMA MovedFacts ==
  ASSUME NEW x, ThreadGood(x), NEW pc, NEW y, y = [x EXCEPT !.pc = pc]
  PROVE  /\ y = [pc |-> pc, orders |-> x.orders, cancels |-> x.cancels, places |-> x.places,
                 cross |-> x.cross, request |-> x.request, call |-> x.call, id |-> x.id,
                 quantity |-> x.quantity, settled |-> x.settled]
         /\ y.pc = pc /\ y.id = x.id
         /\ pc \in {"ended", "next", "settling", "releasing"} => ThreadGood(y)
<1>1. y = [pc |-> pc, orders |-> x.orders, cancels |-> x.cancels, places |-> x.places,
           cross |-> x.cross, request |-> x.request, call |-> x.call, id |-> x.id,
           quantity |-> x.quantity, settled |-> x.settled]
  BY DEF ThreadGood
<1>2. /\ y.pc = pc /\ y.orders = x.orders /\ y.cancels = x.cancels /\ y.places = x.places
      /\ y.cross = x.cross /\ y.request = x.request /\ y.call = x.call /\ y.id = x.id
      /\ y.quantity = x.quantity /\ y.settled = x.settled
  BY <1>1
<1> QED
  BY <1>1, <1>2 DEF ThreadGood

LEMMA ContinueFacts ==
  ASSUME NEW x, ThreadGood(x), NEW y, y = Continue(x)
  PROVE  ThreadGood(y) /\ y.pc \in {"ended", "next"}
<1>1. PICK pc : pc \in {"ended", "next"} /\ y = [x EXCEPT !.pc = pc]
  BY DEF Continue
<1> QED
  BY <1>1, MovedFacts

\* Where the settlements of an answered call lead.
LEMMA SettlingFacts ==
  ASSUME NEW x, ThreadGood(x), NEW call, NEW y, y = Settling(x, call)
  PROVE  ThreadGood(y) /\ y.pc \in {"ended", "next", "settling", "releasing"}
<1>1. CASE y = Continue(x)
  BY <1>1, ContinueFacts
<1>2. CASE \E pc \in {"settling", "releasing"} : y = [x EXCEPT !.pc = pc]
  BY <1>2, MovedFacts
<1> QED
  BY <1>1, <1>2 DEF Settling

\* A thread that has come to trade k of its call.
LEMMA CountedFacts ==
  ASSUME NEW x, ThreadGood(x), NEW k, NEW y, y = [x EXCEPT !.settled = k]
  PROVE  ThreadGood(y)
<1>1. y = [pc |-> x.pc, orders |-> x.orders, cancels |-> x.cancels, places |-> x.places,
           cross |-> x.cross, request |-> x.request, call |-> x.call, id |-> x.id,
           quantity |-> x.quantity, settled |-> k]
  BY DEF ThreadGood
<1>2. /\ y.pc = x.pc /\ y.orders = x.orders /\ y.cancels = x.cancels /\ y.places = x.places
      /\ y.cross = x.cross /\ y.request = x.request /\ y.call = x.call /\ y.id = x.id
      /\ y.quantity = x.quantity /\ y.settled = k
  BY <1>1
<1> QED
  BY <1>1, <1>2 DEF ThreadGood

LEMMA EndedFacts ==
  ASSUME NEW y, y = [Idle EXCEPT !.pc = "ended"]
  PROVE  ThreadGood(y)
<1>1. y = [pc |-> "ended", orders |-> {}, cancels |-> 0, places |-> 0, cross |-> FALSE,
           request |-> Absent, call |-> 0, id |-> 0, quantity |-> 0, settled |-> 0]
  BY DEF Idle
<1> QED
  BY <1>1 DEF ThreadGood

LEMMA TickStarts ==
  ASSUME ClusterInv, BotInv, NEW t \in Thread, StartTick(t)
  PROVE  ClusterInv' /\ BotInv'
<1>1. PICK orders, count, cross :
        Set(t, Continue([Idle EXCEPT !.orders = orders, !.cancels = count, !.places = count,
                                     !.cross = cross]))
  BY DEF StartTick
<1>2. PICK x : x = [Idle EXCEPT !.orders = orders, !.cancels = count, !.places = count,
                                !.cross = cross]
  OBVIOUS
<1>3. x = [pc |-> "idle", orders |-> orders, cancels |-> count, places |-> count,
           cross |-> cross, request |-> Absent, call |-> 0, id |-> 0, quantity |-> 0,
           settled |-> 0]
  BY <1>2 DEF Idle
<1>4. ThreadGood(x)
  BY <1>3 DEF ThreadGood
<1>5. PICK y : y = Continue(x)
  OBVIOUS
<1>6. ThreadGood(y)
  BY <1>4, <1>5, ContinueFacts
<1>7. threads' = [threads EXCEPT ![t] = y] /\ ~ Awaits(t, "submitting")
  BY <1>1, <1>2, <1>5 DEF Set, StartTick, Awaits
<1>8. ClusterStill /\ activeOrderIds' = activeOrderIds
  BY DEF StartTick, ClusterStill, routerVars, workerVars
<1> QED
  BY <1>6, <1>7, <1>8, ThreadMoves

LEMMA LockIsRefused ==
  ASSUME ClusterInv, BotInv, NEW t \in Thread, LockRefused(t)
  PROVE  ClusterInv' /\ BotInv'
<1>1. PICK x : x = threads[t]
  OBVIOUS
<1>2. ThreadGood(x)
  BY <1>1 DEF BotInv, ThreadsGood
<1>3. PICK y : y = Continue(x)
  OBVIOUS
<1>4. ThreadGood(y)
  BY <1>2, <1>3, ContinueFacts
<1>5. threads' = [threads EXCEPT ![t] = y] /\ ~ Awaits(t, "submitting")
  BY <1>1, <1>3 DEF Set, LockRefused, Awaits
<1>6. ClusterStill /\ activeOrderIds' = activeOrderIds
  BY DEF LockRefused, ClusterStill, routerVars, workerVars
<1> QED
  BY <1>4, <1>5, <1>6, ThreadMoves

LEMMA RestIsReleased ==
  ASSUME ClusterInv, BotInv, NEW t \in Thread, ReleaseRest(t)
  PROVE  ClusterInv' /\ BotInv'
<1>1. PICK x : x = threads[t]
  OBVIOUS
<1>2. ThreadGood(x)
  BY <1>1 DEF BotInv, ThreadsGood
<1>3. PICK y : y = Continue(x)
  OBVIOUS
<1>4. ThreadGood(y)
  BY <1>2, <1>3, ContinueFacts
<1>5. threads' = [threads EXCEPT ![t] = y] /\ ~ Awaits(t, "submitting")
  BY <1>1, <1>3 DEF Set, ReleaseRest, Awaits
<1>6. ClusterStill /\ activeOrderIds' = activeOrderIds
  BY DEF ReleaseRest, ClusterStill, routerVars, workerVars
<1> QED
  BY <1>4, <1>5, <1>6, ThreadMoves

LEMMA TradeIsSettled ==
  ASSUME ClusterInv, BotInv, NEW t \in Thread, SettleTrade(t)
  PROVE  ClusterInv' /\ BotInv'
<1>1. PICK x : x = threads[t]
  OBVIOUS
<1>2. ThreadGood(x)
  BY <1>1 DEF BotInv, ThreadsGood
<1>3. PICK k, call : Set(t, Settling([x EXCEPT !.settled = k], call))
  BY <1>1 DEF SettleTrade
<1>4. PICK z : z = [x EXCEPT !.settled = k]
  OBVIOUS
<1>5. PICK y : y = Settling(z, call)
  OBVIOUS
<1>6. ThreadGood(z)
  BY <1>2, <1>4, CountedFacts
<1>7. ThreadGood(y)
  BY <1>5, <1>6, SettlingFacts
<1>8. threads' = [threads EXCEPT ![t] = y] /\ ~ Awaits(t, "submitting")
  BY <1>3, <1>4, <1>5 DEF Set, SettleTrade, Awaits
<1>9. ClusterStill /\ activeOrderIds' = activeOrderIds
  BY DEF SettleTrade, ClusterStill, routerVars, workerVars
<1> QED
  BY <1>7, <1>8, <1>9, ThreadMoves

LEMMA CancelIsOver ==
  ASSUME ClusterInv, BotInv, NEW t \in Thread, CancelReturns(t)
  PROVE  ClusterInv' /\ BotInv'
<1>1. PICK x : x = threads[t]
  OBVIOUS
<1>2. ThreadGood(x) /\ x.pc = "cancelling"
  BY <1>1 DEF BotInv, ThreadsGood, CancelReturns, Awaits
<1>3. PICK c : c = x.call
  OBVIOUS
<1>4. c \in DOMAIN calls /\ ~ IsSubmit(calls[c]) /\ calls[c].orderId = <<x.id>>
  BY <1>2, <1>3 DEF ThreadGood
<1>5. calls[c].pc = "done"
  BY <1>1, <1>3 DEF CancelReturns, AnswerOf
<1>6. ClusterStill /\ activeOrderIds' = activeOrderIds /\ ~ Awaits(t, "submitting")
  BY <1>1, <1>2 DEF CancelReturns, ClusterStill, clusterVars, Awaits
<1>7. CASE calls[c].answer \in {"timeout", "refused"}
  <2>1. PICK y : y = [Idle EXCEPT !.pc = "ended"]
    OBVIOUS
  <2>2. threads' = [threads EXCEPT ![t] = y]
    BY <1>1, <1>3, <1>7, <2>1 DEF CancelReturns, AnswerOf, Set
  <2>3. ThreadGood(y)
    BY <2>1, EndedFacts
  <2> QED
    BY <1>6, <2>2, <2>3, ThreadMoves
<1>8. CASE calls[c].answer \notin {"timeout", "refused"}
  <2>1. PICK y : y = [x EXCEPT !.pc = "unlocking"]
    OBVIOUS
  <2>2. threads' = [threads EXCEPT ![t] = y]
    BY <1>1, <1>3, <1>8, <2>1 DEF CancelReturns, AnswerOf, Set
  <2>3. c \in DOMAIN ran
    <3>1. IsCall(c, calls[c]) /\ AnswerIsTrue(c, calls[c])
      BY <1>4 DEF ClusterInv, CallsGood
    <3>2. calls[c].answer \in {"done", "not found"}
      BY <1>4, <1>5, <1>8, <3>1 DEF IsCall, AnswerIsTrue
    <3> QED
      BY <3>1, <3>2 DEF AnswerIsTrue
  <2>4. Gone(x.id)
    <3>1. Gone(calls[c].orderId[1])
      BY <1>4, <2>3 DEF ClusterInv, RanGood
    <3>2. calls[c].orderId[1] = x.id
      BY <1>4
    <3> QED
      BY <3>1, <3>2
  <2>5. /\ y = [pc |-> "unlocking", orders |-> x.orders, cancels |-> x.cancels,
                places |-> x.places, cross |-> x.cross, request |-> x.request,
                call |-> x.call, id |-> x.id, quantity |-> x.quantity,
                settled |-> x.settled]
        /\ y.pc = "unlocking" /\ y.id = x.id
    BY <1>2, <2>1, MovedFacts
  <2>6. ThreadGood(y)
    BY <2>4, <2>5 DEF ThreadGood
  <2> QED
    BY <1>6, <2>2, <2>6, ThreadMoves
<1> QED
  BY <1>7, <1>8

LEMMA OrderPlanned ==
  ASSUME ClusterInv, BotInv, NEW t \in Thread, NextPlace(t)
  PROVE  ClusterInv' /\ BotInv'
<1>1. PICK x : x = threads[t]
  OBVIOUS
<1>2. ThreadGood(x) /\ x.pc = "next"
  BY <1>1 DEF BotInv, ThreadsGood, NextPlace, Awaits
<1>3. ClusterStill /\ activeOrderIds' = activeOrderIds /\ ~ Awaits(t, "submitting")
  BY <1>1, <1>2 DEF NextPlace, ClusterStill, clusterVars, Awaits
<1>4. ASSUME NEW r, GoodRequest(r), r.userId = Bot, NEW places, NEW cross,
             NEW y, threads' = [threads EXCEPT ![t] = y],
             y = [x EXCEPT !.pc = "locking", !.places = places, !.cross = cross,
                           !.request = <<r>>]
      PROVE  ClusterInv' /\ BotInv'
  <2>1. y = [pc |-> "locking", orders |-> x.orders, cancels |-> x.cancels,
             places |-> places, cross |-> cross, request |-> <<r>>,
             call |-> x.call, id |-> x.id, quantity |-> x.quantity, settled |-> x.settled]
    BY <1>2, <1>4 DEF ThreadGood
  <2>2. y.pc = "locking" /\ y.request[1] = r
    BY <2>1
  <2>3. ThreadGood(y)
    BY <1>4, <2>1, <2>2 DEF ThreadGood
  <2> QED
    BY <1>3, <1>4, <2>3, ThreadMoves
<1>5. CASE x.places > 0
  <2>1. PICK q \in Quotes : Set(t, [x EXCEPT !.pc = "locking", !.places = @ - 1,
                                             !.request = <<q>>])
    BY <1>1, <1>5 DEF NextPlace
  <2>2. GoodRequest(q) /\ q.userId = Bot
    BY BotAssumption DEF GoodRequest
  <2>3. PICK y : y = [x EXCEPT !.pc = "locking", !.places = @ - 1, !.request = <<q>>]
    OBVIOUS
  <2>4. y = [x EXCEPT !.pc = "locking", !.places = x.places - 1, !.cross = x.cross,
                      !.request = <<q>>]
    BY <1>2, <2>3 DEF ThreadGood
  <2>5. threads' = [threads EXCEPT ![t] = y]
    BY <2>1, <2>3 DEF Set
  <2>6. PICK places : places = x.places - 1
    OBVIOUS
  <2>7. PICK cross : cross = x.cross
    OBVIOUS
  <2> QED
    BY <1>4, <2>2, <2>4, <2>5, <2>6, <2>7
<1>6. CASE ~ (x.places > 0)
  <2>1. PICK side, best :
          /\ side \in Side
          /\ best = BestOpposite(side)
          /\ Set(t, IF best = Absent THEN [Idle EXCEPT !.pc = "ended"]
                    ELSE [x EXCEPT !.pc = "locking", !.cross = FALSE, !.request =
                            <<[side |-> side, type |-> "MARKET", price |-> best[1],
                               quantity |-> CrossQuantity, userId |-> Bot]>>])
    BY <1>1, <1>6 DEF NextPlace
  <2>2. CASE best = Absent
    <3>1. PICK y : y = [Idle EXCEPT !.pc = "ended"]
      OBVIOUS
    <3>2. threads' = [threads EXCEPT ![t] = y]
      BY <2>1, <2>2, <3>1 DEF Set
    <3>3. ThreadGood(y)
      BY <3>1, EndedFacts
    <3> QED
      BY <1>3, <3>2, <3>3, ThreadMoves
  <2>3. CASE best # Absent
    <3>1. PICK r : r = [side |-> side, type |-> "MARKET", price |-> best[1],
                        quantity |-> CrossQuantity, userId |-> Bot]
      OBVIOUS
    <3>2. GoodRequest(r) /\ r.userId = Bot
      BY <2>1, <3>1, BotAssumption DEF GoodRequest
    <3>3. PICK y : y = [x EXCEPT !.pc = "locking", !.cross = FALSE, !.request = <<r>>]
      OBVIOUS
    <3>4. threads' = [threads EXCEPT ![t] = y]
      BY <2>1, <2>3, <3>1, <3>3 DEF Set
    <3>5. y = [x EXCEPT !.pc = "locking", !.places = x.places, !.cross = FALSE,
                        !.request = <<r>>]
      BY <1>2, <3>3 DEF ThreadGood
    <3>6. PICK places : places = x.places
      OBVIOUS
    <3> QED
      BY <1>4, <3>2, <3>4, <3>5, <3>6
  <2> QED
    BY <2>2, <2>3
<1> QED
  BY <1>5, <1>6

LEMMA FundsUnlocked ==
  ASSUME ClusterInv, BotInv, NEW t \in Thread, Unlocked(t)
  PROVE  ClusterInv' /\ BotInv'
<1> USE DEF BotInv
<1>1. PICK x : x = threads[t]
  OBVIOUS
<1>2. ThreadGood(x) /\ x.pc = "unlocking"
  BY <1>1 DEF ThreadsGood, Unlocked, Awaits
<1>3. PICK id : id = x.id
  OBVIOUS
<1>4. Gone(id)
  BY <1>2, <1>3 DEF ThreadGood
<1>5. ClusterStill
  BY DEF Unlocked, ClusterStill, routerVars, workerVars
<1>6. PICK z : z = [x EXCEPT !.cancels = @ - 1, !.orders = @ \ {id}]
  OBVIOUS
<1>7. PICK y : y = Continue(z)
  OBVIOUS
<1>8. threads' = [threads EXCEPT ![t] = y]
  BY <1>1, <1>3, <1>6, <1>7 DEF Unlocked, Set
<1>9. ThreadGood(y)
  <2>1. z = [pc |-> x.pc, orders |-> x.orders \ {id}, cancels |-> x.cancels - 1,
             places |-> x.places, cross |-> x.cross, request |-> x.request,
             call |-> x.call, id |-> x.id, quantity |-> x.quantity, settled |-> x.settled]
    BY <1>2, <1>6 DEF ThreadGood
  <2>2. z.pc = "unlocking" /\ z.id = id
    BY <1>2, <1>3, <2>1
  <2>3. ThreadGood(z)
    BY <1>4, <2>1, <2>2 DEF ThreadGood
  <2> QED
    BY <1>7, <2>3, ContinueFacts
<1>10. ClusterInv' /\ Grows
  BY <1>5, StillKeeps
<1>11. CallsGood /\ CallsGood'
  BY <1>10 DEF ClusterInv
<1>12. ThreadsGood'
  <2>1. ThreadGood(y)'
    BY <1>9, <1>10, <1>11, ThreadKept
  <2> QED
    BY <1>8, <1>10, <1>11, <2>1, ThreadSet
<1>13. /\ DOMAIN activeOrderIds' = DOMAIN activeOrderIds \ {id}
       /\ \A d \in DOMAIN activeOrderIds \ {id} : activeOrderIds'[d] = activeOrderIds[d]
  <2>1. activeOrderIds' = [d \in DOMAIN activeOrderIds \ {id} |-> activeOrderIds[d]]
    BY <1>1, <1>3 DEF Unlocked, Restrict
  <2> QED
    BY <2>1
<1>14. \A d \in BotCalls : Tracked(d)'
  <2> SUFFICES ASSUME NEW d \in BotCalls PROVE Tracked(d)'
    OBVIOUS
  <2>1. Tracked(d)
    BY DEF RecordsGood
  <2>2. CASE Abandoned(d)
    BY <1>5, <2>2 DEF Tracked, Abandoned, ClusterStill
  <2>3. CASE \E u \in Thread : Awaits(u, "submitting") /\ threads[u].call = d
    <3>1. PICK u \in Thread : Awaits(u, "submitting") /\ threads[u].call = d
      BY <2>3
    <3>2. u # t
      BY <1>1, <1>2, <3>1 DEF Awaits
    <3>3. threads'[u] = threads[u]
      BY <1>8, <3>2 DEF ThreadsGood
    <3> QED
      BY <3>1, <3>3 DEF Tracked, Awaits
  <2>4. CASE d \in DOMAIN ran /\ Recorded(d)
    <3>1. d \in resting => d # id
      BY <1>4 DEF Gone
    <3> QED
      BY <1>5, <1>13, <2>4, <3>1 DEF Tracked, Recorded, ClusterStill
  <2> QED
    BY <2>1, <2>2, <2>3, <2>4 DEF Tracked
<1>15. RecordsGood'
  <2>1. BotCalls' = BotCalls /\ ran' = ran
    BY <1>5 DEF BotCalls, ClusterStill
  <2> QED
    BY <1>13, <1>14, <2>1 DEF RecordsGood
<1> QED
  BY <1>10, <1>12, <1>15

\* What the bot records of an order that is on the book is at least what is left.
LEMMA AnsweredIsRecorded ==
  ASSUME ClusterInv, NEW c \in DOMAIN calls, IsSubmit(calls[c]), calls[c].answer = "done",
         NEW order, order = calls[c].order[1]
  PROVE  /\ c \in DOMAIN ran /\ order.id = c
         /\ c \in resting => /\ order.type = "LIMIT" /\ order.status # "FILLED"
                             /\ Remaining(order) \in Nat
                             /\ Remaining(live[c]) <= Remaining(order)
<1>1. IsCall(c, calls[c]) /\ AnswerIsTrue(c, calls[c])
  BY DEF ClusterInv, CallsGood
<1>2. c \in DOMAIN ran /\ Truthful(c, order) /\ order.id = c
  BY <1>1 DEF AnswerIsTrue, IsCall
<1>3. GoodOrder(order) /\ <<Original(order)>> = ran[c].order
  BY <1>2 DEF Truthful
<1>4. ASSUME c \in resting
      PROVE  /\ order.type = "LIMIT" /\ order.status # "FILLED"
             /\ Remaining(order) \in Nat
             /\ Remaining(live[c]) <= Remaining(order)
  <2>1. PICK a : a = live[c]
    OBVIOUS
  <2>2. /\ GoodOrder(a) /\ ran[c].order = <<Original(a)>> /\ c \in DOMAIN live
        /\ Rests(a) /\ a.type # "MARKET"
    BY <1>4, <2>1 DEF ClusterInv, EngineGood
  <2>3. PICK o : o = Original(a)
    OBVIOUS
  <2>4. <<Original(order)>> = <<o>>
    BY <1>3, <2>2, <2>3
  <2>5. o = Original(order)
    BY <2>4
  <2>6. o.quantity = a.quantity /\ o.type = a.type
    BY <2>2, <2>3, OriginalFacts
  <2>7. o.quantity = order.quantity /\ o.type = order.type
    BY <1>3, <2>5, OriginalFacts
  <2>8. order.type = "LIMIT"
    BY <1>3, <2>2, <2>6, <2>7 DEF GoodOrder
  <2>9. Rests(order)
    BY <1>2, <1>4 DEF Truthful, Gone
  <2>10. order.filledQuantity <= a.filledQuantity
    BY <1>2, <2>1, <2>2 DEF Truthful
  <2> QED
    BY <1>3, <2>1, <2>2, <2>6, <2>7, <2>8, <2>9, <2>10 DEF GoodOrder, Remaining, Rests
<1> QED
  BY <1>2, <1>4

LEMMA SubmitIsOver ==
  ASSUME ClusterInv, BotInv, NEW t \in Thread, SubmitReturns(t)
  PROVE  ClusterInv' /\ BotInv'
<1> USE DEF BotInv
<1>1. PICK x : x = threads[t]
  OBVIOUS
<1>2. ThreadGood(x) /\ x.pc = "submitting"
  BY <1>1 DEF ThreadsGood, SubmitReturns, Awaits
<1>3. PICK c : c = x.call
  OBVIOUS
<1>4. c \in BotCalls /\ c \in DOMAIN calls /\ IsSubmit(calls[c])
  BY <1>2, <1>3 DEF ThreadGood, BotCalls
<1>5. PICK order : order = calls[c].order[1]
  OBVIOUS
<1>6. calls[c].pc = "done"
  BY <1>1, <1>3 DEF SubmitReturns, AnswerOf
<1>7. ClusterStill
  BY DEF SubmitReturns, ClusterStill, clusterVars
<1>8. \/ Abandoned(c) /\ activeOrderIds' = activeOrderIds
      \/ /\ calls[c].answer = "done"
         /\ activeOrderIds' = IF order.type = "LIMIT" /\ order.status # "FILLED"
                              THEN Put(activeOrderIds, order.id, Remaining(order))
                              ELSE activeOrderIds
  <2>1. IsCall(c, calls[c]) /\ AnswerIsTrue(c, calls[c])
    BY <1>4 DEF ClusterInv, CallsGood
  <2>2. calls[c].answer = "done" \/ (calls[c].answer # "done" /\ Abandoned(c))
    BY <1>4, <1>6, <2>1 DEF IsCall, AnswerIsTrue, Abandoned
  <2> QED
    BY <1>1, <1>3, <1>5, <2>2 DEF SubmitReturns, AnswerOf
<1>9. PICK y : threads' = [threads EXCEPT ![t] = y] /\ ThreadGood(y)
  <2>1. CASE calls[c].answer # "done"
    <3>1. PICK y : y = Continue(x)
      OBVIOUS
    <3>2. ThreadGood(y)
      BY <1>2, <3>1, ContinueFacts
    <3>3. threads' = [threads EXCEPT ![t] = y]
      BY <1>1, <1>3, <2>1, <3>1 DEF SubmitReturns, AnswerOf, Set
    <3> QED
      BY <3>2, <3>3
  <2>2. CASE calls[c].answer = "done"
    <3>1. PICK call : call = calls[c]
      OBVIOUS
    <3>2. PICK z : z = [x EXCEPT !.settled = 0]
      OBVIOUS
    <3>3. PICK y : y = Settling(z, call)
      OBVIOUS
    <3>4. ThreadGood(z)
      BY <1>2, <3>2, CountedFacts
    <3>5. ThreadGood(y)
      BY <3>3, <3>4, SettlingFacts
    <3>6. threads' = [threads EXCEPT ![t] = y]
      BY <1>1, <1>3, <2>2, <3>1, <3>2, <3>3 DEF SubmitReturns, AnswerOf, Set
    <3> QED
      BY <3>5, <3>6
  <2> QED
    BY <2>1, <2>2
<1>10. ClusterInv' /\ Grows
  BY <1>7, StillKeeps
<1>11. CallsGood /\ CallsGood'
  BY <1>10 DEF ClusterInv
<1>12. ThreadsGood'
  <2>1. ThreadGood(y)'
    BY <1>9, <1>10, <1>11, ThreadKept
  <2> QED
    BY <1>9, <1>10, <1>11, <2>1, ThreadSet
<1>13. calls[c].answer = "done" =>
         /\ c \in DOMAIN ran /\ order.id = c
         /\ c \in resting => /\ order.type = "LIMIT" /\ order.status # "FILLED"
                             /\ Remaining(order) \in Nat
                             /\ Remaining(live[c]) <= Remaining(order)
  BY <1>4, <1>5, AnsweredIsRecorded
<1>14. PICK q : q = Remaining(order)
  OBVIOUS
<1>15. \/ activeOrderIds' = activeOrderIds
       \/ calls[c].answer = "done" /\ c \in DOMAIN ran /\ activeOrderIds' = Put(activeOrderIds, c, q)
  BY <1>8, <1>13, <1>14
<1>16. DOMAIN activeOrderIds' \subseteq DOMAIN ran
  BY <1>15 DEF RecordsGood, Put
<1>17. \A d \in BotCalls : Tracked(d)'
  <2> SUFFICES ASSUME NEW d \in BotCalls PROVE Tracked(d)'
    OBVIOUS
  <2>1. Tracked(d)
    BY DEF RecordsGood
  <2>2. CASE Abandoned(d)
    BY <1>7, <2>2 DEF Tracked, Abandoned, ClusterStill
  <2>3. CASE d # c /\ \E u \in Thread : Awaits(u, "submitting") /\ threads[u].call = d
    <3>1. PICK u \in Thread : Awaits(u, "submitting") /\ threads[u].call = d
      BY <2>3
    <3>2. threads'[u] = threads[u]
      BY <1>1, <1>3, <1>9, <2>3, <3>1 DEF ThreadsGood
    <3> QED
      BY <3>1, <3>2 DEF Tracked, Awaits
  <2>4. CASE d # c /\ d \in DOMAIN ran /\ Recorded(d)
    <3>1. d \in DOMAIN activeOrderIds =>
            d \in DOMAIN activeOrderIds' /\ activeOrderIds'[d] = activeOrderIds[d]
      BY <1>15, <2>4 DEF Put
    <3> QED
      BY <1>7, <2>4, <3>1 DEF Tracked, Recorded, ClusterStill
  <2>5. CASE d = c /\ calls[c].answer = "done"
    <3>1. ASSUME c \in resting
          PROVE  /\ c \in DOMAIN activeOrderIds' /\ activeOrderIds'[c] = q /\ q \in Nat
                 /\ Remaining(live[c]) <= q
      <4>1. activeOrderIds' = Put(activeOrderIds, c, q)
        BY <1>8, <1>13, <1>14, <2>5, <3>1 DEF Abandoned
      <4> QED
        BY <1>13, <1>14, <2>5, <3>1, <4>1 DEF Put
    <3> QED
      BY <1>7, <1>13, <2>5, <3>1 DEF Tracked, Recorded, ClusterStill
  <2> QED
    BY <1>8, <2>1, <2>2, <2>3, <2>4, <2>5 DEF Tracked
<1>18. RecordsGood'
  <2>1. BotCalls' = BotCalls /\ ran' = ran
    BY <1>7 DEF BotCalls, ClusterStill
  <2> QED
    BY <1>16, <1>17, <2>1 DEF RecordsGood
<1> QED
  BY <1>10, <1>12, <1>18

\* A transaction of another client.
LEMMA UserSettled ==
  ASSUME ClusterInv, BotInv, NEW c \in DOMAIN userOrders, UserSettles(c) \/ UserIsAnswered(c)
  PROVE  ClusterInv' /\ BotInv'
<1>1. ClusterStill /\ UNCHANGED <<threads, activeOrderIds>>
  BY DEF UserSettles, UserIsAnswered, ClusterStill, clusterVars, routerVars, workerVars
<1>2. ClusterInv' /\ Grows
  BY <1>1, StillKeeps
<1>3. DOMAIN calls' = DOMAIN calls
  BY <1>1 DEF ClusterStill
<1> QED
  BY <1>1, <1>2, <1>3, EventKeepsBot

-----------------------------------------------------------------------------
(* The steps of the bot and of its clients that make a call.               *)

\* Call c is new, and it alone is.
Made(c) ==
  /\ c \notin DOMAIN calls /\ DOMAIN calls' = DOMAIN calls \cup {c}
  /\ \A d \in DOMAIN calls : calls'[d] = calls[d]
  /\ UNCHANGED <<ran, live, resting>>

LEMMA OldBotCalls ==
  ASSUME NEW c, Made(c)
  PROVE  BotCalls' = BotCalls \cup IF IsSubmit(calls'[c]) /\ calls'[c].order[1].userId = Bot
                                   THEN {c} ELSE {}
BY DEF Made, BotCalls

LEMMA SubmitMade ==
  ASSUME ClusterInv, ClusterInv', Grows, BotInv, NEW c, Made(c), ThreadsGood',
         IsSubmit(calls'[c]), activeOrderIds' = activeOrderIds,
         \A t \in Thread : Awaits(t, "submitting") => threads'[t] = threads[t],
         c \in BotCalls' => Tracked(c)'
  PROVE  BotInv'
<1> USE DEF ClusterInv, BotInv
<1>1. BotCalls' \subseteq BotCalls \cup {c}
  BY OldBotCalls
<1>2. \A d \in BotCalls : Tracked(d)'
  BY TrackStays DEF RecordsGood
<1>3. \A d \in BotCalls' : Tracked(d)'
  BY <1>1, <1>2
<1>4. DOMAIN activeOrderIds' \subseteq DOMAIN ran'
  BY DEF RecordsGood, Made
<1> QED
  BY <1>3, <1>4 DEF RecordsGood

LEMMA OrderPlaced ==
  ASSUME ClusterInv, BotInv, NEW t \in Thread, Lock(t)
  PROVE  ClusterInv' /\ BotInv'
<1> USE DEF BotInv
<1>1. PICK x : x = threads[t]
  OBVIOUS
<1>2. ThreadGood(x) /\ x.pc = "locking"
  BY <1>1 DEF ThreadsGood, Lock, Awaits
<1>3. PICK r : r = x.request[1]
  OBVIOUS
<1>4. GoodRequest(r) /\ r.userId = Bot
  BY <1>2, <1>3 DEF ThreadGood
<1>5. PICK c : c = NextCall
  OBVIOUS
<1>6. PICK y : y = [x EXCEPT !.pc = "submitting", !.call = c]
  OBVIOUS
<1>7. /\ SubmitOrder(r) /\ threads' = [threads EXCEPT ![t] = y]
      /\ activeOrderIds' = activeOrderIds
  BY <1>1, <1>3, <1>5, <1>6 DEF Lock, Set
<1>8. /\ ClusterInv' /\ Grows /\ Made(c) /\ IsSubmit(calls'[c])
      /\ calls'[c].order[1] = CreateOrder(c, r)
  BY <1>4, <1>5, <1>7, OrderSubmitted DEF Made
<1>9. calls'[c].order[1].userId = Bot
  BY <1>4, <1>8 DEF CreateOrder
<1>10. c \in BotCalls'
  BY <1>8, <1>9, OldBotCalls
<1>11. y = [pc |-> "submitting", orders |-> x.orders, cancels |-> x.cancels,
            places |-> x.places, cross |-> x.cross, request |-> x.request,
            call |-> c, id |-> x.id, quantity |-> x.quantity, settled |-> x.settled]
  BY <1>2, <1>6 DEF ThreadGood
<1>12. y.pc = "submitting" /\ y.call = c
  BY <1>11
<1>13. ThreadGood(y)'
  BY <1>10, <1>11, <1>12 DEF ThreadGood
<1>14. CallsGood /\ CallsGood'
  BY <1>8 DEF ClusterInv
<1>15. ThreadsGood'
  BY <1>7, <1>8, <1>13, <1>14, ThreadSet
<1>16. threads'[t] = y /\ \A u \in Thread \ {t} : threads'[u] = threads[u]
  BY <1>7 DEF ThreadsGood
<1>17. \A u \in Thread : Awaits(u, "submitting") => threads'[u] = threads[u]
  BY <1>1, <1>2, <1>16 DEF Awaits
<1>18. Tracked(c)'
  BY <1>12, <1>16 DEF Tracked, Awaits
<1> QED
  BY <1>7, <1>8, <1>15, <1>17, <1>18, SubmitMade

LEMMA UserOrdered ==
  ASSUME ClusterInv, BotInv, NEW r \in UserRequests, UserSubmits(r)
  PROVE  ClusterInv' /\ BotInv'
<1> USE DEF BotInv
<1>1. GoodRequest(r) /\ r.userId # Bot
  BY BotAssumption DEF GoodRequest
<1>2. PICK c : c = NextCall
  OBVIOUS
<1>3. SubmitOrder(r) /\ UNCHANGED <<threads, activeOrderIds>>
  BY DEF UserSubmits
<1>4. /\ ClusterInv' /\ Grows /\ Made(c) /\ IsSubmit(calls'[c])
      /\ calls'[c].order[1] = CreateOrder(c, r)
  BY <1>1, <1>2, <1>3, OrderSubmitted DEF Made
<1>5. calls'[c].order[1].userId # Bot
  BY <1>1, <1>4 DEF CreateOrder
<1>6. c \notin BotCalls'
  BY <1>5 DEF BotCalls
<1>7. CallsGood /\ CallsGood'
  BY <1>4 DEF ClusterInv
<1>8. ThreadsGood'
  BY <1>3, <1>4, <1>7, ThreadsStay
<1>9. \A u \in Thread : Awaits(u, "submitting") => threads'[u] = threads[u]
  BY <1>3
<1>10. BotInv'
  BY <1>3, <1>4, <1>6, <1>8, <1>9, SubmitMade
<1> QED
  BY <1>4, <1>10

LEMMA CancelPlanned ==
  ASSUME ClusterInv, BotInv, NEW t \in Thread, NextCancel(t)
  PROVE  ClusterInv' /\ BotInv'
<1> USE DEF BotInv
<1>1. PICK x : x = threads[t]
  OBVIOUS
<1>2. ThreadGood(x) /\ x.pc = "next" /\ ~ Awaits(t, "submitting")
  BY <1>1 DEF ThreadsGood, NextCancel, Awaits
<1>3. activeOrderIds' = activeOrderIds
  BY DEF NextCancel
<1>4. PICK c : c = NextCall
  OBVIOUS
<1>5. PICK id :
        IF id \in DOMAIN activeOrderIds
        THEN /\ CancelOrder(id)
             /\ Set(t, [x EXCEPT !.pc = "cancelling", !.call = c, !.id = id,
                                 !.quantity = activeOrderIds[id]])
        ELSE /\ Set(t, Continue([x EXCEPT !.cancels = @ - 1]))
             /\ UNCHANGED clusterVars
  BY <1>1, <1>4 DEF NextCancel
<1>6. CASE id \in DOMAIN activeOrderIds
  <2>1. PICK q : q = activeOrderIds[id]
    OBVIOUS
  <2>2. PICK y : y = [x EXCEPT !.pc = "cancelling", !.call = c, !.id = id, !.quantity = q]
    OBVIOUS
  <2>3. CancelOrder(id) /\ threads' = [threads EXCEPT ![t] = y]
    BY <1>5, <1>6, <2>1, <2>2 DEF Set
  <2>4. id \in DOMAIN ran
    BY <1>6 DEF RecordsGood
  <2>5. /\ ClusterInv' /\ Grows /\ Made(c) /\ ~ IsSubmit(calls'[c])
        /\ calls'[c].orderId = <<id>>
    BY <1>4, <2>3, <2>4, OrderCancelled DEF Made
  <2>6. y = [pc |-> "cancelling", orders |-> x.orders, cancels |-> x.cancels,
             places |-> x.places, cross |-> x.cross, request |-> x.request,
             call |-> c, id |-> id, quantity |-> q, settled |-> x.settled]
    BY <1>2, <2>2 DEF ThreadGood
  <2>7. y.pc = "cancelling" /\ y.call = c /\ y.id = id
    BY <2>6
  <2>8. ThreadGood(y)'
    BY <2>5, <2>6, <2>7 DEF ThreadGood, Made
  <2>9. CallsGood /\ CallsGood'
    BY <2>5 DEF ClusterInv
  <2>10. ThreadsGood'
    BY <2>3, <2>5, <2>8, <2>9, ThreadSet
  <2>11. BotCalls' = BotCalls
    BY <2>5, OldBotCalls
  <2>12. threads'[t] = y /\ \A u \in Thread \ {t} : threads'[u] = threads[u]
    BY <2>3 DEF ThreadsGood
  <2>13. Quiet
    BY <1>2, <1>3, <2>11, <2>12 DEF Quiet
  <2> QED
    BY <2>5, <2>10, <2>13, QuietKeeps
<1>7. CASE id \notin DOMAIN activeOrderIds
  <2>1. PICK z : z = [x EXCEPT !.cancels = @ - 1]
    OBVIOUS
  <2>2. PICK y : y = Continue(z)
    OBVIOUS
  <2>3. threads' = [threads EXCEPT ![t] = y] /\ ClusterStill
    BY <1>5, <1>7, <2>1, <2>2 DEF Set, ClusterStill, clusterVars
  <2>4. z = [pc |-> "next", orders |-> x.orders, cancels |-> x.cancels - 1,
             places |-> x.places, cross |-> x.cross, request |-> x.request,
             call |-> x.call, id |-> x.id, quantity |-> x.quantity, settled |-> x.settled]
    BY <1>2, <2>1 DEF ThreadGood
  <2>5. ThreadGood(z)
    BY <2>4 DEF ThreadGood
  <2>6. ThreadGood(y)
    BY <2>2, <2>5, ContinueFacts
  <2> QED
    BY <1>2, <1>3, <2>3, <2>6, ThreadMoves
<1> QED
  BY <1>6, <1>7

-----------------------------------------------------------------------------
(* Every step keeps the invariant, which says what the bot relies on.      *)

LEMMA BotStarts ==
  ASSUME BotInit
  PROVE  ClusterInv /\ BotInv
<1> USE DEF BotInit
<1>1. ClusterInv
  BY ClusterStarts
<1>2. DOMAIN << >> = {}
  BY EmptyIsSeq
<1>3. BotCalls = {}
  BY <1>2 DEF ClusterInit, BotCalls
<1>4. ThreadsGood
  <2>1. ASSUME NEW t \in Thread
        PROVE  ThreadGood(threads[t])
    <3>1. PICK x : x = threads[t]
      OBVIOUS
    <3>2. x = IF t = 0 THEN [Idle EXCEPT !.pc = "next", !.places = SeedSize] ELSE Idle
      BY <3>1
    <3>3. PICK pc : pc = IF t = 0 THEN "next" ELSE "idle"
      OBVIOUS
    <3>4. PICK places : places = IF t = 0 THEN SeedSize ELSE 0
      OBVIOUS
    <3>5. x = [pc |-> pc, orders |-> {}, cancels |-> 0, places |-> places, cross |-> FALSE,
               request |-> Absent, call |-> 0, id |-> 0, quantity |-> 0, settled |-> 0]
      BY <3>2, <3>3, <3>4 DEF Idle
    <3>6. x.pc = pc /\ pc \in {"idle", "next"}
      BY <3>3, <3>5
    <3> QED
      BY <3>1, <3>5, <3>6 DEF ThreadGood
  <2>2. threads = [t \in Thread |-> threads[t]]
    OBVIOUS
  <2> HIDE DEF BotInit
  <2> QED
    BY <2>1, <2>2 DEF ThreadsGood
<1>5. RecordsGood
  BY <1>2, <1>3 DEF RecordsGood
<1> QED
  BY <1>1, <1>4, <1>5 DEF BotInv

\* What rests under the bot's name is what one of its submits asked for.
LEMMA RestingIsAsked ==
  ASSUME ClusterInv, NEW id \in resting, BotOrder(id)
  PROVE  id \in BotCalls /\ calls[id].answer # "refused"
<1> USE DEF ClusterInv
<1>1. PICK a : a = live[id]
  OBVIOUS
<1>2. /\ id \in DOMAIN live /\ id \in DOMAIN ran /\ id \in DOMAIN calls
      /\ GoodOrder(a) /\ ran[id].order = <<Original(a)>> /\ a.userId = Bot
      /\ calls[id].answer # "refused"
  BY <1>1 DEF EngineGood, RanGood, BotOrder
<1>3. IsSubmit(calls[id])
  <2>1. <<Original(a)>> # Absent
    BY DEF Absent
  <2> QED
    BY <1>2, <2>1 DEF RanGood, Asked
<1>4. PICK b : b = calls[id].order[1]
  OBVIOUS
<1>5. GoodOrder(b) /\ <<Original(b)>> = <<Original(a)>>
  BY <1>2, <1>3, <1>4 DEF CallsGood, IsCall, RanGood, Asked
<1>6. PICK o : o = Original(a)
  OBVIOUS
<1>7. o = Original(b)
  BY <1>5, <1>6
<1>8. o.userId = a.userId
  BY <1>2, <1>6, OriginalFacts
<1>9. o.userId = b.userId
  BY <1>5, <1>7, OriginalFacts
<1> QED
  BY <1>2, <1>3, <1>4, <1>8, <1>9 DEF BotCalls

LEMMA RecordsFollow ==
  ASSUME ClusterInv, BotInv
  PROVE  RestingIsRecorded
<1> SUFFICES ASSUME NEW id \in resting, BotOrder(id)
             PROVE  \/ /\ id \in DOMAIN activeOrderIds
                       /\ Remaining(live[id]) <= activeOrderIds[id]
                    \/ \E t \in Thread : Awaits(t, "submitting") /\ threads[t].call = id
                    \/ calls[id].answer \in {"timeout", "failed"}
  BY DEF RestingIsRecorded
<1>1. Tracked(id) /\ calls[id].answer # "refused"
  BY RestingIsAsked DEF BotInv, RecordsGood
<1> QED
  BY <1>1 DEF Tracked, Abandoned, Recorded

LEMMA ReleasesFollow ==
  ASSUME BotInv
  PROVE  ReleasedIsOffBook
<1> SUFFICES ASSUME NEW t \in Thread, Awaits(t, "unlocking")
             PROVE  threads[t].id \notin resting
  BY DEF ReleasedIsOffBook
<1>1. ThreadGood(threads[t])
  BY DEF BotInv, ThreadsGood
<1> QED
  BY <1>1 DEF ThreadGood, Awaits, Gone

LEMMA StepKeeps ==
  ASSUME ClusterInv, BotInv, [Next]_vars
  PROVE  ClusterInv' /\ BotInv'
<1>1. ASSUME ClusterEvent, UNCHANGED botVars
      PROVE  ClusterInv' /\ BotInv'
  BY <1>1, EventKeepsCluster, EventKeepsBot DEF botVars
<1>2. CASE RouterEvent
  BY <1>1, <1>2 DEF RouterEvent, ClusterEvent
<1>3. CASE Timeout
  BY <1>1, <1>3 DEF Timeout, ClusterEvent
<1>4. CASE WorkerRuns
  BY <1>1, <1>4 DEF WorkerRuns, ClusterEvent
<1>5. CASE WorkerFails
  BY <1>1, <1>5 DEF WorkerFails, ClusterEvent
<1>6. ASSUME NEW t \in Thread, BotRuns(t)
      PROVE  ClusterInv' /\ BotInv'
  <2>1. CASE NextCancel(t)
    BY <2>1, CancelPlanned
  <2>2. CASE CancelReturns(t)
    BY <2>2, CancelIsOver
  <2>3. CASE Unlocked(t)
    BY <2>3, FundsUnlocked
  <2>4. CASE NextPlace(t)
    BY <2>4, OrderPlanned
  <2>5. CASE Lock(t)
    BY <2>5, OrderPlaced
  <2>6. CASE LockRefused(t)
    BY <2>6, LockIsRefused
  <2>7. CASE SubmitReturns(t)
    BY <2>7, SubmitIsOver
  <2>8. CASE SettleTrade(t)
    BY <2>8, TradeIsSettled
  <2>9. CASE ReleaseRest(t)
    BY <2>9, RestIsReleased
  <2> QED
    BY <1>6, <2>1, <2>2, <2>3, <2>4, <2>5, <2>6, <2>7, <2>8, <2>9 DEF BotRuns
<1>7. ASSUME NEW t \in Thread, StartTick(t)
      PROVE  ClusterInv' /\ BotInv'
  BY <1>7, TickStarts
<1>8. ASSUME NEW r \in UserRequests, UserSubmits(r)
      PROVE  ClusterInv' /\ BotInv'
  BY <1>8, UserOrdered
<1>9. ASSUME NEW c \in DOMAIN userOrders, UserSettles(c) \/ UserIsAnswered(c)
      PROVE  ClusterInv' /\ BotInv'
  BY <1>9, UserSettled
<1>10. CASE UNCHANGED vars
  <2>1. ClusterStill /\ UNCHANGED <<threads, activeOrderIds>>
    BY <1>10 DEF vars, botVars, clusterVars, ClusterStill
  <2>2. ClusterInv' /\ Grows
    BY <2>1, StillKeeps
  <2>3. DOMAIN calls' = DOMAIN calls
    BY <2>1 DEF ClusterStill
  <2> QED
    BY <2>1, <2>2, <2>3, EventKeepsBot
<1> QED
  BY <1>2, <1>3, <1>4, <1>5, <1>6, <1>7, <1>8, <1>9, <1>10 DEF Next

\* MarketMakerBot.ts over EngineClusterRouter.ts and EngineWorker.ts: the
\* inductive invariant of the gateway's calls, the messages between the two
\* processes, the worker's orders and the bot's runs and record.
THEOREM ClusterIsGood == Spec => [](ClusterInv /\ BotInv)
<1>1. BotInit => ClusterInv /\ BotInv
  BY BotStarts
<1>2. (ClusterInv /\ BotInv) /\ [Next]_vars => (ClusterInv /\ BotInv)'
  BY StepKeeps
<1> QED
  BY <1>1, <1>2, PTL DEF Spec

\* EngineClusterRouter.ts, pendingRequests: while the gateway runs, the requests
\* that have a timer are the calls nobody has answered and those whose publish
\* was refused; EngineWorker.ts: the book holds the orders that are open.
THEOREM ClusterTypesHold == Spec => []ClusterTypeOK
<1>1. ClusterInv /\ BotInv => ClusterTypeOK
  BY TypesFollow
<1> QED
  BY <1>1, ClusterIsGood, PTL

\* EngineClusterRouter.ts, submitOrder and cancelOrder: whatever is lost, delayed
\* or restarted, an answer tells the caller what the worker did for that very call.
THEOREM AnswersStayTrue == Spec => []AnswersAreTrue
<1>1. ClusterInv /\ BotInv => AnswersAreTrue
  BY AnswersFollow
<1> QED
  BY <1>1, ClusterIsGood, PTL

\* EngineClusterRouter.ts, handleSnapshot: the cached snapshot, or one on its way
\* or about to be taken, shows the worker's book, unless it is of an earlier run
\* of the worker or a snapshot was lost.
THEOREM CacheStaysTrue == Spec => []CacheFollowsBook
<1>1. ClusterInv /\ BotInv => CacheFollowsBook
  BY CacheFollows
<1> QED
  BY <1>1, ClusterIsGood, PTL

\* MarketMakerBot.ts, activeOrderIds: the bot knows of each order it has on the
\* worker's book, and of at least what is left of it, unless the submit is not
\* answered yet, timed out or was answered with a failure.
THEOREM RestingStaysRecorded == Spec => []RestingIsRecorded
<1>1. ClusterInv /\ BotInv => RestingIsRecorded
  BY RecordsFollow
<1> QED
  BY <1>1, ClusterIsGood, PTL

\* MarketMakerBot.ts, tick: what is released for a cancellation, whoever ran or
\* lost it and however late the answer came, is released for an order that is off
\* the worker's book and stays off it.
THEOREM ReleasedStaysOffBook == Spec => []ReleasedIsOffBook
<1>1. ClusterInv /\ BotInv => ReleasedIsOffBook
  BY ReleasesFollow
<1> QED
  BY <1>1, ClusterIsGood, PTL

=============================================================================
