------------------------ MODULE MatchingEngineProofs ------------------------
(***************************************************************************)
(* Theorems about the matching engine, for every set of requests, stop     *)
(* prices and deltas that validateOrder lets through.                      *)
(*                                                                         *)
(* The properties of MatchingEngine speak of the book, the registry and    *)
(* the sweep at once, so the invariant does: where the running call is     *)
(* (Stages), what the registry holds (StopsKept), what the sweep still has *)
(* to do (SweepSound), and what every order object is (ObjectsGood).       *)
(***************************************************************************)
EXTENDS MatchingEngine, OrderBookProofs

Rests(o) == o.type \in {"LIMIT", "ICEBERG"}

\* An order object at any moment.  A stop order has no fill and is never sent to
\* the book before it is promoted.
ObjectGood(o) ==
  /\ o.status = "FILLED" => o.filledQuantity = o.quantity
  /\ o.status = "CANCELLED" => o.filledQuantity # o.quantity
  /\ IsStop(o) => o.filledQuantity = 0 /\ o.status \in {"PENDING", "CANCELLED"}
  /\ Rests(o) => o.price > 0

ObjectsGood == \A id \in 1..Len(orders) : ObjectGood(orders[id])

IndexedRest == \A x \in orderIndex : Rests(orders[x])

\* The order at work in the book is not done with, and is not a stop order.
TakerGood == ~ Idle => ~ IsStop(In) /\ In.status \in {"PENDING", "OPEN"}

PricesPositive == \A i \in 1..Len(trades) : trades[i].price > 0

Stages ==
  /\ stage = "idle" => Idle
  /\ stage # "sweeping" => sweptOrder = NoOrder /\ activated = {}
  /\ stage = "sweeping" /\ sweptOrder = NoOrder => Idle
  /\ stage = "sweeping" /\ ~ Idle =>
       incoming = sweptOrder /\ call = "matchMarketOrder"

Waits(id) == IsStop(orders[id]) /\ orders[id].status = "PENDING"

\* The registry holds the stop orders that wait, each once.
StopsKept ==
  /\ \A o \in pending[Symbol] : o.id \in 1..Len(orders) /\ Waits(o.id)
  /\ \A id \in 1..Len(orders) :
       Waits(id) => \E o \in pending[Symbol] : o.id = id
  /\ \A o, p \in pending[Symbol] : o.id = p.id => o = p

\* What was activated is promoted and untouched until its own sweep.
SweepSound ==
  /\ \A o \in activated :
       /\ o.id \in 1..Len(orders)
       /\ orders[o.id].type = "MARKET"
       /\ orders[o.id].status = "OPEN"
       /\ o.id # sweptOrder
  /\ \A o, p \in activated : o.id = p.id => o = p
  /\ sweptOrder # NoOrder =>
       /\ orders[sweptOrder].type = "MARKET"
       /\ orders[sweptOrder].status \in {"OPEN", "FILLED"}

LastPriceSeen ==
  lastTradePrice # 0 =>
    \A o \in pending[Symbol] : ~ TR!ShouldTrigger(o, lastTradePrice)

EngineInv ==
  /\ Inv
  /\ EngineTypeOK
  /\ ObjectsGood
  /\ IndexedRest
  /\ TakerGood
  /\ PricesPositive
  /\ Stages
  /\ StopsKept
  /\ SweepSound
  /\ LastPriceSeen

LEMMA EngineFacts ==
  ASSUME EngineInv
  PROVE  /\ orders \in Seq(Order) /\ Len(orders) \in Nat
         /\ orderIndex \subseteq 1..Len(orders) /\ incoming \in 0..Len(orders)
         /\ trades \in Seq(Trade) /\ executed \in Seq(Trade)
         /\ sweptOrder \in 0..Len(orders) /\ lastTradePrice \in Nat
         /\ pending \in [{Symbol} -> SUBSET TR!StopOrder]
         /\ highWaterBuy \in [{Symbol} -> Nat]
         /\ highWaterSell \in [{Symbol} -> Nat]
         /\ activated \subseteq TR!StopOrder
         /\ \A x \in 1..Len(orders) : orders[x] \in Order
  BY OrderAt, LenProperties DEF EngineInv, EngineTypeOK, TypeOK, TR!TypeOK

LEMMA TypesKept ==
  ASSUME EngineInv, Inv', Len(orders) <= Len(orders'),
         UNCHANGED registryVars, stage' \in {"idle", "adding", "sweeping"},
         executed' \in Seq(Trade), lastTradePrice' \in Nat,
         sweptOrder' \in 0..Len(orders')
  PROVE  EngineTypeOK'
<1>1. TypeOK' /\ Len(orders') \in Nat
  BY LenProperties DEF Inv, TypeOK
<1>2. TR!TypeOK'
  BY <1>1 DEF TR!TypeOK, EngineInv, EngineTypeOK, registryVars
<1> QED
  BY <1>1, <1>2 DEF EngineTypeOK

-----------------------------------------------------------------------------
(***************************************************************************)
(* The book at work.                                                       *)
(***************************************************************************)

\* The book changes no order that is not on it, but for the one it works on:
\* what waits in the registry or for its sweep stays as it is.
LEMMA RegistryFramed ==
  ASSUME EngineInv,
         UNCHANGED <<pending, activated, sweptOrder>>,
         Len(orders') \in Nat, Len(orders) <= Len(orders'),
         \A x \in 1..Len(orders) :
           /\ orders'[x].type = orders[x].type
           /\ x \notin orderIndex \union {incoming} => orders'[x] = orders[x],
         \A x \in 1..Len(orders') : x > Len(orders) => ~ IsStop(orders'[x]),
         sweptOrder # NoOrder => orders'[sweptOrder].status \in {"OPEN", "FILLED"}
  PROVE  StopsKept' /\ SweepSound'
<1>1. /\ Len(orders) \in Nat /\ orderIndex \subseteq 1..Len(orders)
      /\ StopsKept /\ SweepSound /\ Stages /\ IndexedRest /\ TakerGood
      /\ sweptOrder \in 0..Len(orders)
  BY EngineFacts DEF EngineInv
<1>2. \A x \in orderIndex : ~ IsStop(orders[x]) /\ orders[x].type # "MARKET"
  BY <1>1 DEF IndexedRest, Rests, IsStop
<1>3. \A x \in 1..Len(orders) : IsStop(orders[x]) => orders'[x] = orders[x]
  <2>1. incoming # 0 => ~ IsStop(orders[incoming])
    BY <1>1 DEF TakerGood, Idle, NoOrder, In
  <2> QED
    BY <1>1, <1>2, <2>1
<1>4. \A x \in 1..Len(orders) : orders[x].type # orders'[x].type => FALSE
  OBVIOUS
<1>5. StopsKept'
  <2>1. \A x \in 1..Len(orders') : Waits(x)' <=> x \in 1..Len(orders) /\ Waits(x)
    <3> SUFFICES ASSUME NEW x \in 1..Len(orders')
                 PROVE  Waits(x)' <=> x \in 1..Len(orders) /\ Waits(x)
      OBVIOUS
    <3>1. CASE x \in 1..Len(orders)
      BY <1>3, <3>1 DEF Waits, IsStop
    <3>2. CASE x \notin 1..Len(orders)
      BY <1>1, <3>2 DEF Waits, IsStop
    <3> QED
      BY <3>1, <3>2
  <2>2. 1..Len(orders) \subseteq 1..Len(orders')
    BY <1>1
  <2> QED
    BY <1>1, <2>1, <2>2 DEF StopsKept, Waits
<1>6. SweepSound'
  <2>1. \A o \in activated : o.id # incoming
    <3>1. CASE activated = {}
      BY <3>1
    <3>2. CASE activated # {}
      <4>1. stage = "sweeping"
        BY <1>1, <3>2 DEF Stages
      <4>2. \A o \in activated : o.id \in 1..Len(orders) /\ o.id # sweptOrder
        BY <1>1 DEF SweepSound
      <4>3. incoming = 0 \/ incoming = sweptOrder
        BY <1>1, <4>1 DEF Stages, Idle, NoOrder
      <4> QED
        BY <1>1, <4>2, <4>3
    <3> QED
      BY <3>1, <3>2
  <2>2. \A o \in activated : o.id \in 1..Len(orders) /\ orders'[o.id] = orders[o.id]
    BY <1>1, <1>2, <2>1 DEF SweepSound
  <2>3. 1..Len(orders) \subseteq 1..Len(orders')
    BY <1>1
  <2>4. sweptOrder # NoOrder => orders'[sweptOrder].type = "MARKET"
    BY <1>1 DEF SweepSound, NoOrder
  <2> QED
    BY <1>1, <2>2, <2>3, <2>4 DEF SweepSound
<1> QED
  BY <1>5, <1>6

\* What a step of the loop does to the order objects: the taker and the head of
\* the opposite side get a fill, and an iceberg's next slice may be created.
LEMMA MatchObjects ==
  ASSUME EngineInv, MatchStep
  PROVE  /\ MoreToMatch /\ incoming' = incoming /\ call' = call
         /\ Len(orders') \in Nat /\ Len(orders) <= Len(orders')
         /\ \A x \in 1..Len(orders) :
              /\ SameTerms(orders'[x], orders[x])
              /\ x \notin {incoming, RestingId} => orders'[x] = orders[x]
         /\ orders'[incoming] = WithFill(In, FillQty)
         /\ \E status \in {"FILLED", "PARTIALLY_FILLED"} :
              /\ orders'[RestingId] = WithStatus(WithFill(Resting, FillQty), status)
              /\ status = "FILLED" => RestingIsFilled
         /\ \A x \in 1..Len(orders') : x > Len(orders) =>
              /\ orders'[x].type = "ICEBERG" /\ orders'[x].status = "OPEN"
              /\ orders'[x].price = Best.price
         /\ orderIndex' \subseteq orderIndex \union ((1..Len(orders')) \ (1..Len(orders)))
         /\ trades' = Append(trades, FillTrade)
<1>1. Inv /\ MoreToMatch /\ incoming' = incoming /\ call' = call
      /\ trades' = Append(trades, FillTrade)
  BY DEF EngineInv, MatchStep, FillResting, CompleteResting, ReplenishResting
<1>2. /\ orders \in Seq(Order) /\ Len(orders) \in Nat /\ Resting \in Order
      /\ OrderSound(Resting) /\ Resting.price = Best.price
      /\ RestingId \in 1..Len(orders) /\ incoming \in 1..Len(orders)
  BY <1>1, MatchFacts
<1>3. ASSUME NEW status \in OrderStatus
      PROVE  /\ OrdersAfterFill(status) \in Seq(Order)
             /\ Len(OrdersAfterFill(status)) = Len(orders)
             /\ \A x \in 1..Len(orders) :
                  /\ SameTerms(OrdersAfterFill(status)[x], orders[x])
                  /\ x \notin {incoming, RestingId} =>
                       OrdersAfterFill(status)[x] = orders[x]
             /\ OrdersAfterFill(status)[incoming] = WithFill(In, FillQty)
             /\ OrdersAfterFill(status)[RestingId] =
                  WithStatus(WithFill(Resting, FillQty), status)
  <2>1. /\ OrdersAfterFill(status) \in Seq(Order)
        /\ Len(OrdersAfterFill(status)) = Len(orders)
        /\ OrdersAfterFill(status)[incoming] = WithFill(In, FillQty)
        /\ OrdersAfterFill(status)[RestingId] =
             WithStatus(WithFill(Resting, FillQty), status)
    BY <1>1, ObjectsFilled
  <2>2. \A x \in 1..Len(orders) :
          /\ SameTerms(OrdersAfterFill(status)[x], orders[x])
          /\ x \notin {incoming, RestingId} =>
               OrdersAfterFill(status)[x] = orders[x]
    BY <1>1, OrdersFilled
  <2> QED
    BY <2>1, <2>2
<1>4. "FILLED" \in OrderStatus /\ "PARTIALLY_FILLED" \in OrderStatus
  BY DEF OrderStatus
<1>5. CASE FillResting
  <2>1. orders' = OrdersAfterFill("PARTIALLY_FILLED") /\ orderIndex' = orderIndex
    BY <1>5 DEF FillResting
  <2> QED
    BY <1>1, <1>2, <1>3, <1>4, <2>1
<1>6. CASE CompleteResting
  <2>1. /\ orders' = OrdersAfterFill("FILLED") /\ RestingIsFilled
        /\ orderIndex' = orderIndex \ {RestingId}
    BY <1>6 DEF CompleteResting
  <2> QED
    BY <1>1, <1>2, <1>3, <1>4, <2>1
<1>7. CASE ReplenishResting
  <2> DEFINE filled == OrdersAfterFill("FILLED")
             slice == NextSlice(Resting)
  <2>1. /\ orders' = Append(filled, slice) /\ RestingIsFilled
        /\ orderIndex' = (orderIndex \ {RestingId}) \union {Len(orders) + 1}
        /\ Resting.type = "ICEBERG" /\ Resting.hiddenQty > 0
    BY <1>7 DEF ReplenishResting, HasHidden, NewId
  <2>2. /\ slice \in Order /\ slice.type = "ICEBERG" /\ slice.price = Best.price
        /\ slice.status = "OPEN"
    BY <1>2, <2>1, SliceFields DEF OrderSound
  <2>3. filled \in Seq(Order) /\ Len(filled) = Len(orders)
    BY <1>3, <1>4
  <2>4. /\ Len(orders') = Len(orders) + 1
        /\ \A x \in 1..Len(orders) : orders'[x] = filled[x]
        /\ orders'[Len(orders) + 1] = slice
    <3> HIDE DEF filled, slice
    <3> QED
      BY <2>1, <2>2, <2>3, OrderAppended
  <2>5. \A x \in 1..Len(orders') : x > Len(orders) => x = Len(orders) + 1
    BY <1>2, <2>4
  <2>6. /\ \A x \in 1..Len(orders) :
             /\ SameTerms(orders'[x], orders[x])
             /\ x \notin {incoming, RestingId} => orders'[x] = orders[x]
        /\ orders'[incoming] = WithFill(In, FillQty)
        /\ orders'[RestingId] = WithStatus(WithFill(Resting, FillQty), "FILLED")
    BY <1>2, <1>3, <1>4, <2>4
  <2>7. Len(orders) + 1 \in (1..Len(orders')) \ (1..Len(orders))
    BY <1>2, <2>4
  <2> HIDE DEF filled, slice
  <2>8. /\ Len(orders') \in Nat /\ Len(orders) <= Len(orders')
        /\ orderIndex' \subseteq orderIndex
             \union ((1..Len(orders')) \ (1..Len(orders)))
        /\ \A x \in 1..Len(orders') : x > Len(orders) =>
              /\ orders'[x].type = "ICEBERG" /\ orders'[x].status = "OPEN"
              /\ orders'[x].price = Best.price
    BY <1>2, <2>1, <2>2, <2>4, <2>5, <2>7
  <2> QED
    BY <1>1, <2>1, <2>6, <2>8
<1> QED
  BY <1>5, <1>6, <1>7 DEF MatchStep

LEMMA MatchEngineStep ==
  ASSUME EngineInv, MatchStep, UNCHANGED <<registryVars, engineVars>>
  PROVE  EngineInv'
<1>1. /\ MoreToMatch /\ incoming' = incoming /\ call' = call
      /\ Len(orders') \in Nat /\ Len(orders) <= Len(orders')
      /\ \A x \in 1..Len(orders) :
           /\ SameTerms(orders'[x], orders[x])
           /\ x \notin {incoming, RestingId} => orders'[x] = orders[x]
      /\ orders'[incoming] = WithFill(In, FillQty)
      /\ \A x \in 1..Len(orders') : x > Len(orders) =>
           /\ orders'[x].type = "ICEBERG" /\ orders'[x].status = "OPEN"
           /\ orders'[x].price = Best.price
      /\ orderIndex' \subseteq orderIndex \union ((1..Len(orders')) \ (1..Len(orders)))
      /\ trades' = Append(trades, FillTrade)
  BY MatchObjects
<1>2. PICK status \in {"FILLED", "PARTIALLY_FILLED"} :
        /\ orders'[RestingId] = WithStatus(WithFill(Resting, FillQty), status)
        /\ status = "FILLED" => RestingIsFilled
  BY MatchObjects
<1>3. Inv /\ Inv'
  BY FillRestingStep, CompleteRestingStep, ReplenishRestingStep
     DEF EngineInv, MatchStep
<1>4. /\ In \in Order /\ Resting \in Order /\ FillQty \in Nat \ {0}
      /\ incoming \in 1..Len(orders) /\ incoming # RestingId
      /\ RestingId \in 1..Len(orders) /\ RestingId \in orderIndex
      /\ OrderSound(Resting) /\ Resting.price = Best.price
      /\ FillQty <= Remaining(Resting)
  BY <1>1, <1>3, MatchFacts
<1>5. /\ WithFill(In, FillQty).status = In.status
      /\ SameTerms(WithFill(In, FillQty), In)
      /\ WithFill(In, FillQty).type = In.type
  BY <1>4, FillAdded DEF SameTerms
<1>6. ~ Idle /\ ~ Idle' /\ TakerGood /\ IndexedRest /\ ObjectsGood
  BY <1>1 DEF MoreToMatch, EngineInv, Idle
<1>7. Rests(Resting) /\ Best.price \in Nat /\ Best.price > 0
  <2>1. Rests(Resting) /\ ObjectGood(Resting)
    BY <1>4, <1>6 DEF IndexedRest, ObjectsGood, Resting
  <2> QED
    BY <1>4, <2>1, OrderFields DEF ObjectGood
<1>8. EngineTypeOK'
  <2>1. sweptOrder \in 0..Len(orders')
    BY <1>1, EngineFacts
  <2> QED
    BY <1>1, <1>3, <2>1, TypesKept
       DEF EngineInv, EngineTypeOK, registryVars, engineVars
<1>9. ObjectsGood'
  <2> SUFFICES ASSUME NEW x \in 1..Len(orders')
               PROVE  ObjectGood(orders'[x])
    BY DEF ObjectsGood, ObjectGood, IsStop, Rests
  <2>1. CASE x \notin 1..Len(orders)
    <3>1. x > Len(orders)
      BY <2>1, EngineFacts
    <3>2. /\ orders'[x].type = "ICEBERG" /\ orders'[x].status = "OPEN"
          /\ orders'[x].price > 0
      BY <1>1, <1>7, <3>1
    <3> QED
      BY <3>2 DEF ObjectGood, IsStop, Rests
  <2>2. CASE x = incoming
    <3>1. orders'[x].status \in {"PENDING", "OPEN"} /\ ~ IsStop(orders'[x])
      BY <1>1, <1>5, <1>6, <2>2 DEF TakerGood, IsStop
    <3>2. Rests(orders'[x]) => orders'[x].price > 0
      BY <1>1, <1>4, <1>5, <1>6, <2>2
         DEF SameTerms, ObjectsGood, ObjectGood, Rests, In
    <3> QED
      BY <3>1, <3>2 DEF ObjectGood
  <2>3. CASE x = RestingId
    <3>1. /\ orders'[x].status = status
          /\ orders'[x].filledQuantity = Resting.filledQuantity + FillQty
          /\ SameTerms(orders'[x], Resting)
      <4> DEFINE filled == WithFill(Resting, FillQty)
      <4>1. /\ filled \in Order /\ SameTerms(filled, Resting)
            /\ filled.filledQuantity = Resting.filledQuantity + FillQty
        BY <1>4, FillAdded
      <4> HIDE DEF filled
      <4>2. status \in OrderStatus
        BY DEF OrderStatus
      <4> QED
        BY <1>2, <2>3, <4>1, <4>2, StatusSet DEF filled, SameTerms
    <3>2. status = "FILLED" => orders'[x].filledQuantity = orders'[x].quantity
      <4>1. /\ Resting.filledQuantity \in Nat /\ Resting.quantity \in Nat
            /\ orders'[x].quantity = Resting.quantity
        BY <1>4, <3>1, OrderFields DEF SameTerms
      <4> QED
        <5>1. FillQty \in Nat /\ FillQty <= Resting.quantity - Resting.filledQuantity
          BY <1>4 DEF Remaining
        <5>2. status = "FILLED" =>
                Resting.filledQuantity + FillQty >= Resting.quantity
          BY <1>2 DEF RestingIsFilled
        <5>3. status = "FILLED" =>
                Resting.filledQuantity + FillQty = Resting.quantity
          BY <4>1, <5>1, <5>2
        <5> QED
          BY <3>1, <4>1, <5>3
    <3>3. Rests(orders'[x]) /\ orders'[x].price > 0
      BY <1>4, <1>7, <3>1 DEF SameTerms, Rests
    <3> QED
      BY <3>1, <3>2, <3>3 DEF ObjectGood, Rests, IsStop
  <2>4. CASE x \in 1..Len(orders) /\ x \notin {incoming, RestingId}
    BY <1>1, <1>6, <2>4 DEF ObjectsGood
  <2> QED
    BY <2>1, <2>2, <2>3, <2>4
<1>10. IndexedRest'
  <2> SUFFICES ASSUME NEW x \in orderIndex'
               PROVE  Rests(orders'[x])
    BY DEF IndexedRest, Rests
  <2>1. CASE x \in orderIndex
    <3>1. x \in 1..Len(orders)
      BY <2>1, EngineFacts
    <3> QED
      BY <1>1, <1>6, <2>1, <3>1 DEF IndexedRest, Rests, SameTerms
  <2>2. CASE x \notin orderIndex
    BY <1>1, <2>2, EngineFacts DEF Rests
  <2> QED
    BY <2>1, <2>2
<1>11. TakerGood'
  BY <1>1, <1>5, <1>6 DEF TakerGood, In, IsStop
<1>12. PricesPositive'
  <2>1. /\ trades \in Seq(Trade) /\ Len(trades) \in Nat /\ Append(trades, FillTrade) \in Seq(Trade)
        /\ \A i \in 1..Len(trades) : trades[i].price > 0
    BY <1>1, <1>3, EngineFacts, FillTradeType, LenProperties
       DEF EngineInv, PricesPositive
  <2>2. FillTrade.price = Best.price
    BY DEF FillTrade
  <2> HIDE DEF FillTrade
  <2>3. /\ Len(trades') = Len(trades) + 1
        /\ \A i \in 1..Len(trades) : trades'[i] = trades[i]
        /\ trades'[Len(trades) + 1] = FillTrade
    BY <1>1, <2>1
  <2> QED
    BY <1>7, <2>1, <2>2, <2>3 DEF PricesPositive
<1>13. Stages'
  BY <1>1, <1>6 DEF EngineInv, Stages, engineVars, registryVars, Idle
<1>14. StopsKept' /\ SweepSound'
  <2>1. UNCHANGED <<pending, activated, sweptOrder>>
    BY DEF registryVars, engineVars
  <2>2. \A x \in 1..Len(orders) :
          /\ orders'[x].type = orders[x].type
          /\ x \notin orderIndex \union {incoming} => orders'[x] = orders[x]
    BY <1>1, <1>4 DEF SameTerms
  <2>3. \A x \in 1..Len(orders') : x > Len(orders) => ~ IsStop(orders'[x])
    BY <1>1 DEF IsStop
  <2>4. sweptOrder # NoOrder => orders'[sweptOrder].status \in {"OPEN", "FILLED"}
    <3>1. ASSUME sweptOrder # NoOrder
          PROVE  sweptOrder = incoming /\ In.status \in {"OPEN", "FILLED"}
      BY <1>6, <3>1 DEF EngineInv, Stages, SweepSound, In, EngineTypeOK
    <3> QED
      BY <1>1, <1>5, <3>1
  <2> QED
    BY <1>1, <2>1, <2>2, <2>3, <2>4, RegistryFramed
<1>15. LastPriceSeen'
  BY DEF EngineInv, LastPriceSeen, registryVars, engineVars, TR!ShouldTrigger
<1> QED
  BY <1>3, <1>8, <1>9, <1>10, <1>11, <1>12, <1>13, <1>14, <1>15 DEF EngineInv

\* How a call of the book ends: its order has a new status and may rest.
LEMMA FinishObjects ==
  ASSUME EngineInv, Finish
  PROVE  /\ ~ Idle /\ Idle' /\ trades' = trades /\ Len(orders') = Len(orders)
         /\ \E n \in Order :
              /\ \A x \in 1..Len(orders) :
                   orders'[x] = IF x = incoming THEN n ELSE orders[x]
              /\ SameTerms(n, In) /\ n.filledQuantity = In.filledQuantity
              /\ n.status = "FILLED" => Remaining(In) = 0
              /\ n.status = "CANCELLED" => Remaining(In) > 0
              /\ call # "addOrder" => n.status \in {"FILLED", In.status}
              /\ \/ orderIndex' = orderIndex
                 \/ n.type = "LIMIT" /\ orderIndex' = orderIndex \union {incoming}
<1>1. Inv /\ ~ Idle /\ Idle' /\ trades' = trades /\ Remaining(In) \in Int
  BY IncomingFacts, OrderFields
     DEF EngineInv, Finish, FinishFilled, RestLimit, CancelRemainder,
         ReturnUnfilled, Finished, Return, Idle
<1>2. /\ orders \in Seq(Order) /\ incoming \in 1..Len(orders) /\ In \in Order
      /\ In.status \in {"PENDING", "OPEN"} /\ SameTerms(In, In)
  BY <1>1, IncomingFacts DEF EngineInv, TakerGood, SameTerms
<1>3. ASSUME NEW status \in OrderStatus,
             orders' = [orders EXCEPT ![incoming].status = status],
             status = "FILLED" => Remaining(In) = 0,
             status = "CANCELLED" => Remaining(In) > 0,
             call # "addOrder" => status = "FILLED",
             \/ orderIndex' = orderIndex
             \/ In.type = "LIMIT" /\ orderIndex' = orderIndex \union {incoming}
      PROVE  /\ Len(orders') = Len(orders)
             /\ \E n \in Order :
                  /\ \A x \in 1..Len(orders) :
                       orders'[x] = IF x = incoming THEN n ELSE orders[x]
                  /\ SameTerms(n, In) /\ n.filledQuantity = In.filledQuantity
                  /\ n.status = "FILLED" => Remaining(In) = 0
                  /\ n.status = "CANCELLED" => Remaining(In) > 0
                  /\ call # "addOrder" => n.status \in {"FILLED", In.status}
                  /\ \/ orderIndex' = orderIndex
                     \/ n.type = "LIMIT" /\ orderIndex' = orderIndex \union {incoming}
  <2> DEFINE n == WithStatus(In, status)
  <2>1. /\ n \in Order /\ SameTerms(n, In) /\ n.status = status
        /\ n.filledQuantity = In.filledQuantity
    BY <1>2, StatusSet
  <2>2. orders' = [orders EXCEPT ![incoming] = n]
    BY <1>2, <1>3 DEF WithStatus, In
  <2> HIDE DEF n
  <2>3. /\ Len(orders') = Len(orders)
        /\ \A x \in 1..Len(orders) :
             orders'[x] = IF x = incoming THEN n ELSE orders[x]
    BY <1>2, <2>1, <2>2, OrderReplaced
  <2>4. n.type = In.type
    BY <2>1 DEF SameTerms
  <2> QED
    BY <1>3, <2>1, <2>3, <2>4
<1>4. CASE FinishFilled
  <2>1. /\ orders' = [orders EXCEPT ![incoming].status = "FILLED"]
        /\ Remaining(In) = 0 /\ orderIndex' = orderIndex
    BY <1>4 DEF FinishFilled
  <2>2. "FILLED" \in OrderStatus
    BY DEF OrderStatus
  <2> QED
    BY <1>1, <1>3, <2>1, <2>2
<1>5. CASE RestLimit
  <2> DEFINE status == IF In.filledQuantity > 0 THEN "PARTIALLY_FILLED" ELSE "OPEN"
  <2>1. /\ orders' = [orders EXCEPT ![incoming].status = status]
        /\ In.type = "LIMIT" /\ orderIndex' = orderIndex \union {incoming}
        /\ call = "addOrder"
    BY <1>5 DEF RestLimit
  <2>2. status \in OrderStatus /\ status # "FILLED" /\ status # "CANCELLED"
    BY DEF OrderStatus
  <2> HIDE DEF status
  <2> QED
    BY <1>1, <1>3, <2>1, <2>2
<1>6. CASE CancelRemainder
  <2>1. /\ orders' = [orders EXCEPT ![incoming].status = "CANCELLED"]
        /\ Remaining(In) > 0 /\ orderIndex' = orderIndex /\ call = "addOrder"
    BY <1>6 DEF CancelRemainder
  <2>2. "CANCELLED" \in OrderStatus
    BY DEF OrderStatus
  <2> QED
    BY <1>1, <1>3, <2>1, <2>2
<1>7. CASE ReturnUnfilled
  <2>1. orders' = orders /\ orderIndex' = orderIndex
    BY <1>7 DEF ReturnUnfilled
  <2>2. \A x \in 1..Len(orders) :
          orders'[x] = IF x = incoming THEN In ELSE orders[x]
    BY <2>1 DEF In
  <2> QED
    BY <1>1, <1>2, <2>1, <2>2
<1> QED
  BY <1>1, <1>4, <1>5, <1>6, <1>7 DEF Finish

LEMMA FinishEngineStep ==
  ASSUME EngineInv, Finish, UNCHANGED <<registryVars, engineVars>>
  PROVE  EngineInv'
<1>1. ~ Idle /\ Idle' /\ trades' = trades /\ Len(orders') = Len(orders)
  BY FinishObjects
<1>2. PICK n \in Order :
        /\ \A x \in 1..Len(orders) :
             orders'[x] = IF x = incoming THEN n ELSE orders[x]
        /\ SameTerms(n, In) /\ n.filledQuantity = In.filledQuantity
        /\ n.status = "FILLED" => Remaining(In) = 0
        /\ n.status = "CANCELLED" => Remaining(In) > 0
        /\ call # "addOrder" => n.status \in {"FILLED", In.status}
        /\ \/ orderIndex' = orderIndex
           \/ n.type = "LIMIT" /\ orderIndex' = orderIndex \union {incoming}
  BY FinishObjects
<1>3. Inv /\ Inv'
  BY FinishFilledStep, RestLimitStep, CancelRemainderStep, ReturnUnfilledStep
     DEF EngineInv, Finish
<1>4. /\ incoming \in 1..Len(orders) /\ In \in Order /\ Len(orders) \in Nat
      /\ orderIndex \subseteq 1..Len(orders)
      /\ ObjectsGood /\ IndexedRest /\ TakerGood /\ ~ IsStop(In)
      /\ In.status \in {"PENDING", "OPEN"}
  BY <1>1, <1>3, IncomingFacts, EngineFacts DEF EngineInv, TakerGood
<1>5. EngineTypeOK'
  <2>1. sweptOrder \in 0..Len(orders')
    BY <1>1, EngineFacts
  <2> QED
    BY <1>1, <1>3, <1>4, <2>1, TypesKept
       DEF EngineInv, EngineTypeOK, registryVars, engineVars
<1>6. ObjectGood(n) /\ ~ IsStop(n)
  <2>1. n.quantity = In.quantity /\ n.type = In.type /\ n.price = In.price
    BY <1>2 DEF SameTerms
  <2>2. In.quantity \in Nat /\ In.filledQuantity \in Nat /\ ObjectGood(In)
    BY <1>4, OrderFields DEF ObjectsGood, In
  <2>3. n.status = "FILLED" => n.filledQuantity = n.quantity
    BY <1>2, <2>1, <2>2 DEF Remaining
  <2>4. n.status = "CANCELLED" => n.filledQuantity # n.quantity
    BY <1>2, <2>1, <2>2 DEF Remaining
  <2> QED
    BY <1>4, <2>1, <2>2, <2>3, <2>4 DEF ObjectGood, IsStop, Rests
<1>7. ObjectsGood'
  <2> SUFFICES ASSUME NEW x \in 1..Len(orders)
               PROVE  ObjectGood(orders'[x])
    BY <1>1 DEF ObjectsGood, ObjectGood, IsStop, Rests
  <2> QED
    BY <1>2, <1>4, <1>6 DEF ObjectsGood
<1>8. IndexedRest'
  <2> SUFFICES ASSUME NEW x \in orderIndex'
               PROVE  Rests(orders'[x])
    BY DEF IndexedRest, Rests
  <2>1. incoming \notin orderIndex
    BY <1>3 DEF Inv, IncomingApart
  <2> QED
    <3>1. CASE x = incoming
      BY <1>2, <1>4, <2>1, <3>1 DEF Rests
    <3>2. CASE x # incoming
      <4>1. x \in orderIndex /\ x \in 1..Len(orders) /\ orders'[x] = orders[x]
        BY <1>2, <1>4, <3>2
      <4> QED
        BY <1>4, <4>1 DEF IndexedRest
    <3> QED
      BY <3>1, <3>2
<1>9. TakerGood' /\ PricesPositive' /\ Stages'
  BY <1>1 DEF EngineInv, TakerGood, PricesPositive, Stages, engineVars, registryVars
<1>10. StopsKept' /\ SweepSound'
  <2>1. UNCHANGED <<pending, activated, sweptOrder>>
    BY DEF registryVars, engineVars
  <2>2. \A x \in 1..Len(orders) :
          /\ orders'[x].type = orders[x].type
          /\ x \notin orderIndex \union {incoming} => orders'[x] = orders[x]
    BY <1>2 DEF SameTerms, In
  <2>3. \A x \in 1..Len(orders') : x > Len(orders) => ~ IsStop(orders'[x])
    BY <1>1, <1>4
  <2>4. sweptOrder # NoOrder => orders'[sweptOrder].status \in {"OPEN", "FILLED"}
    <3>1. ASSUME sweptOrder # NoOrder
          PROVE  /\ sweptOrder = incoming /\ call = "matchMarketOrder"
                 /\ In.status \in {"OPEN", "FILLED"}
      BY <1>1, <3>1 DEF EngineInv, Stages, SweepSound, In, EngineTypeOK
    <3>2. ASSUME sweptOrder # NoOrder
          PROVE  orders'[sweptOrder] = n /\ n.status \in {"OPEN", "FILLED"}
      BY <1>2, <1>4, <3>1, <3>2
    <3> QED
      BY <3>2
  <2> QED
    BY <1>1, <1>4, <2>1, <2>2, <2>3, <2>4, RegistryFramed
<1>11. LastPriceSeen'
  BY DEF EngineInv, LastPriceSeen, registryVars, engineVars, TR!ShouldTrigger
<1> QED
  BY <1>3, <1>5, <1>7, <1>8, <1>9, <1>10, <1>11 DEF EngineInv

-----------------------------------------------------------------------------
(***************************************************************************)
(* Calls that start.                                                       *)
(***************************************************************************)

\* What addOrder does before its loop, if it does not start one: the order is
\* rejected, or an iceberg's first slice rests.
LEMMA AddObjects ==
  ASSUME EngineInv, NEW o \in Order, o.filledQuantity = 0, o.status = "PENDING",
         ~ IsStop(o), Rests(o) => o.price > 0, AddOrder(o)
  PROVE  /\ Inv' /\ Idle /\ trades' = << >> /\ Len(orders') = Len(orders) + 1
         /\ \A x \in 1..Len(orders) : orders'[x] = orders[x]
         /\ ObjectGood(orders'[NewId]) /\ ~ IsStop(orders'[NewId])
         /\ \/ incoming' = NoOrder /\ call' = "none"
            \/ /\ incoming' = NewId /\ call' = "addOrder"
               /\ orders'[NewId].status = "PENDING"
         /\ \/ orderIndex' = orderIndex
            \/ orderIndex' = orderIndex \union {NewId} /\ Rests(orders'[NewId])
<1>1. Inv /\ Idle /\ orders \in Seq(Order) /\ incoming = NoOrder /\ call = "none"
  BY EngineFacts DEF EngineInv, AddOrder, Idle, Inv, TypeOK
<1>2. o.quantity \in Nat \ {0}
  BY OrderFields
<1>3. CASE o.type # "ICEBERG" /\ StartMatching(o)
  <2>1. Inv' /\ orders' = Append(orders, o)
    BY <1>1, <1>3, StartMatchingStep DEF StartMatching
  <2>2. ObjectGood(o)
    BY <1>2 DEF ObjectGood
  <2> QED
    BY <1>1, <1>3, <2>1, <2>2, OrderAppended DEF StartMatching, NewId
<1>4. CASE RejectFillOrKill(o)
  <2> DEFINE n == WithStatus(o, "CANCELLED")
  <2>1. Inv' /\ orders' = Append(orders, n)
    BY <1>1, <1>4, RejectFillOrKillStep DEF RejectFillOrKill, WithStatus
  <2>2. /\ n \in Order /\ SameTerms(n, o) /\ n.status = "CANCELLED"
        /\ n.filledQuantity = 0
    BY StatusSet DEF OrderStatus
  <2> HIDE DEF n
  <2>3. ObjectGood(n) /\ ~ IsStop(n)
    BY <1>2, <2>2 DEF ObjectGood, IsStop, SameTerms, Rests
  <2> QED
    BY <1>1, <1>4, <2>1, <2>2, <2>3, OrderAppended DEF RejectFillOrKill, NewId
<1>5. CASE AddIceberg(o)
  <2> DEFINE display == DefaultDisplay(o.displayQty, o.quantity, One)
             whole == [o EXCEPT !.displayQty = display, !.hiddenQty = o.quantity]
             n == NextSlice(whole)
  <2>1. Inv' /\ orders' = Append(orders, n)
    BY <1>1, <1>5, AddIcebergStep DEF AddIceberg
  <2>2. display \in Nat \ {0}
    BY DisplayIsPositive
  <2> HIDE DEF display
  <2>3. /\ whole \in Order /\ whole.displayQty > 0 /\ whole.hiddenQty > 0
        /\ whole.side = o.side /\ whole.price = o.price /\ whole.type = o.type
    BY <2>2, IcebergPrepared
  <2> HIDE DEF whole
  <2>4. /\ n \in Order /\ n.type = o.type /\ n.price = o.price
        /\ n.status = "OPEN" /\ n.filledQuantity = 0
    BY <2>3, SliceFields
  <2> HIDE DEF n
  <2>5. o.type = "ICEBERG" /\ orderIndex' = orderIndex \union {NewId}
        /\ trades' = << >> /\ incoming' = incoming /\ call' = call
    BY <1>5 DEF AddIceberg
  <2>6. ObjectGood(n) /\ ~ IsStop(n) /\ Rests(n)
    BY <2>4, <2>5 DEF ObjectGood, IsStop, Rests
  <2> QED
    BY <1>1, <2>1, <2>4, <2>5, <2>6, OrderAppended DEF NewId
<1> QED
  BY <1>3, <1>4, <1>5 DEF AddOrder

LEMMA AddEngineStep ==
  ASSUME EngineInv, EngineIdle, NEW o \in Order, o.filledQuantity = 0,
         o.status = "PENDING", ~ IsStop(o), Rests(o) => o.price > 0,
         AddOrder(o), stage' = "adding", executed' = << >>, lastTradePrice' = 0,
         UNCHANGED <<registryVars, sweptOrder>>
  PROVE  EngineInv'
<1>1. /\ Inv' /\ Idle /\ trades' = << >> /\ Len(orders') = Len(orders) + 1
      /\ \A x \in 1..Len(orders) : orders'[x] = orders[x]
      /\ ObjectGood(orders'[NewId]) /\ ~ IsStop(orders'[NewId])
      /\ \/ incoming' = NoOrder /\ call' = "none"
         \/ /\ incoming' = NewId /\ call' = "addOrder"
            /\ orders'[NewId].status = "PENDING"
      /\ \/ orderIndex' = orderIndex
         \/ orderIndex' = orderIndex \union {NewId} /\ Rests(orders'[NewId])
  BY AddObjects
<1>2. /\ Len(orders) \in Nat /\ orderIndex \subseteq 1..Len(orders)
      /\ sweptOrder = NoOrder /\ activated = {} /\ ObjectsGood /\ IndexedRest
  BY EngineFacts DEF EngineInv, Stages, EngineIdle
<1>3. \A x \in 1..Len(orders') : x \in 1..Len(orders) \/ x = NewId
  BY <1>1, <1>2 DEF NewId
<1>4. EngineTypeOK'
  <2>1. sweptOrder' \in 0..Len(orders') /\ Len(orders) <= Len(orders')
    BY <1>1, <1>2 DEF NoOrder
  <2> QED
    BY <1>1, <2>1, TypesKept
<1>5. ObjectsGood'
  <2> SUFFICES ASSUME NEW x \in 1..Len(orders')
               PROVE  ObjectGood(orders'[x])
    BY DEF ObjectsGood, ObjectGood, IsStop, Rests
  <2> QED
    BY <1>1, <1>2, <1>3 DEF ObjectsGood
<1>6. IndexedRest'
  <2> SUFFICES ASSUME NEW x \in orderIndex'
               PROVE  Rests(orders'[x])
    BY DEF IndexedRest, Rests
  <2> QED
    BY <1>1, <1>2 DEF IndexedRest
<1>7. TakerGood' /\ PricesPositive' /\ Stages'
  BY <1>1, <1>2 DEF TakerGood, PricesPositive, Stages, In, IsStop, Idle, registryVars
<1>8. StopsKept' /\ SweepSound'
  <2>1. UNCHANGED <<pending, activated, sweptOrder>>
    BY DEF registryVars
  <2>2. \A x \in 1..Len(orders') : x > Len(orders) => ~ IsStop(orders'[x])
    BY <1>1, <1>2, <1>3
  <2>3. Len(orders') \in Nat /\ Len(orders) <= Len(orders')
    BY <1>1, <1>2
  <2> QED
    BY <1>1, <1>2, <2>1, <2>2, <2>3, RegistryFramed
<1>9. LastPriceSeen'
  BY DEF LastPriceSeen
<1> QED
  BY <1>1, <1>4, <1>5, <1>6, <1>7, <1>8, <1>9 DEF EngineInv

\* A stop order is created and registered.
LEMMA SubmitStopStep ==
  ASSUME EngineInv, NEW r \in Request, NEW stop \in Nat \ {0},
         NEW delta \in Int \union {NoDelta}, SubmitStop(r, stop, delta)
  PROVE  EngineInv'
<1> DEFINE o == CreateOrder(r)
           entry == [id |-> NewId, side |-> r.side, type |-> r.type,
                     stopPrice |-> stop, trailingDelta |-> delta]
<1>1. /\ o \in Order /\ o.filledQuantity = 0 /\ o.type = r.type
      /\ o.status = "PENDING"
  BY CreatedOrder DEF CreateOrder
<1>2. /\ HoldStop(o) /\ pending' = [pending EXCEPT ![Symbol] = @ \union {entry}]
      /\ UNCHANGED <<highWaterBuy, highWaterSell>>
      /\ executed' = << >> /\ lastTradePrice' = 0
      /\ UNCHANGED <<activated, stage, sweptOrder>> /\ EngineIdle
  BY DEF SubmitStop, TR!Register
<1> HIDE DEF o
<1>3. /\ Inv /\ Inv' /\ IsStop(o) /\ orders' = Append(orders, o)
      /\ levels' = levels /\ orderIndex' = orderIndex /\ incoming' = incoming
      /\ call' = call /\ trades' = trades /\ Idle
  BY <1>1, <1>2, HoldStopStep DEF EngineInv, HoldStop
<1>4. /\ Len(orders) \in Nat /\ orders \in Seq(Order) /\ trades \in Seq(Trade)
      /\ orderIndex \subseteq 1..Len(orders)
      /\ pending \in [{Symbol} -> SUBSET TR!StopOrder]
      /\ highWaterBuy \in [{Symbol} -> Nat] /\ highWaterSell \in [{Symbol} -> Nat]
      /\ activated \subseteq TR!StopOrder
      /\ sweptOrder = NoOrder /\ activated = {}
      /\ ObjectsGood /\ IndexedRest /\ StopsKept /\ stage = "idle"
  BY <1>2, EngineFacts DEF EngineInv, Stages, EngineIdle
<1>5. /\ Len(orders') = Len(orders) + 1
      /\ \A x \in 1..Len(orders) : orders'[x] = orders[x]
      /\ orders'[NewId] = o
      /\ \A x \in 1..Len(orders') : x \in 1..Len(orders) \/ x = NewId
  BY <1>1, <1>3, <1>4, OrderAppended DEF NewId
<1>6. entry \in TR!StopOrder /\ entry.id = NewId
  <2>1. r.side \in {"BUY", "SELL"} /\ r.type \in {"STOP_LOSS", "TRAILING_STOP"}
    BY <1>1, <1>3 DEF Request, Side, IsStop
  <2>2. NewId \in Nat \ {0}
    BY <1>4 DEF NewId
  <2> QED
    BY <2>1, <2>2 DEF TR!StopOrder, TR!Side
<1> HIDE DEF entry
<1>7. EngineTypeOK'
  <2>1. pending' \in [{Symbol} -> SUBSET TR!StopOrder]
    BY <1>2, <1>4, <1>6
  <2>2. TR!TypeOK'
    BY <1>2, <1>4, <1>5, <2>1 DEF TR!TypeOK
  <2>3. TypeOK'
    BY <1>3 DEF Inv
  <2> QED
    BY <1>2, <1>4, <1>5, <2>2, <2>3 DEF EngineTypeOK, NoOrder
<1>8. ObjectsGood'
  <2> SUFFICES ASSUME NEW x \in 1..Len(orders')
               PROVE  ObjectGood(orders'[x])
    BY DEF ObjectsGood, ObjectGood, IsStop, Rests
  <2>1. ObjectGood(o)
    BY <1>1, <1>3, OrderFields DEF ObjectGood, IsStop, Rests
  <2> QED
    BY <1>4, <1>5, <2>1 DEF ObjectsGood
<1>9. IndexedRest'
  BY <1>3, <1>4, <1>5 DEF IndexedRest, Rests
<1>10. TakerGood' /\ PricesPositive' /\ Stages'
  BY <1>2, <1>3, <1>4 DEF EngineInv, TakerGood, PricesPositive, Stages, Idle
<1>11. StopsKept'
  <2>1. pending'[Symbol] = pending[Symbol] \union {entry}
    BY <1>2, <1>4
  <2>2. \A x \in 1..Len(orders) : Waits(x)' <=> Waits(x)
    BY <1>5 DEF Waits, IsStop
  <2>3. /\ \A x : x = NewId => Waits(x)'
        /\ NewId \in 1..Len(orders') /\ NewId \notin 1..Len(orders)
    <3>1. \A x : x = NewId => Waits(x)'
      BY <1>1, <1>3, <1>5 DEF Waits, IsStop
    <3> QED
      BY <1>4, <1>5, <3>1 DEF NewId
  <2>4. 1..Len(orders) \subseteq 1..Len(orders')
    BY <1>4, <1>5
  <2>5. \A e \in pending'[Symbol] : e.id \in 1..Len(orders') /\ Waits(e.id)'
    BY <1>4, <1>6, <2>1, <2>2, <2>3, <2>4 DEF StopsKept
  <2>6. \A x \in 1..Len(orders') : Waits(x)' => \E e \in pending'[Symbol] : e.id = x
    BY <1>4, <1>5, <1>6, <2>1, <2>2 DEF StopsKept
  <2>7. \A e, p \in pending'[Symbol] : e.id = p.id => e = p
    BY <1>4, <1>6, <2>1, <2>3 DEF StopsKept
  <2> QED
    BY <2>5, <2>6, <2>7 DEF StopsKept, Waits
<1>12. SweepSound' /\ LastPriceSeen'
  BY <1>2, <1>4 DEF SweepSound, LastPriceSeen
<1> QED
  BY <1>3, <1>7, <1>8, <1>9, <1>10, <1>11, <1>12 DEF EngineInv

\* A cancellation: the order leaves the book, or the registry.
LEMMA CancelStopStep ==
  ASSUME EngineInv, EngineIdle, NEW id \in 1..Len(orders), TR!CancelStop(id),
         orders' = [orders EXCEPT ![id].status = "CANCELLED"],
         UNCHANGED <<levels, orderIndex, incoming, call, trades, activated>>,
         UNCHANGED <<stage, sweptOrder>>, executed' = << >>, lastTradePrice' = 0
  PROVE  EngineInv'
<1> DEFINE n == WithStatus(orders[id], "CANCELLED")
<1>1. /\ Inv /\ Idle /\ Len(orders) \in Nat /\ orders \in Seq(Order)
      /\ orderIndex \subseteq 1..Len(orders)
      /\ pending \in [{Symbol} -> SUBSET TR!StopOrder]
      /\ highWaterBuy \in [{Symbol} -> Nat] /\ highWaterSell \in [{Symbol} -> Nat]
      /\ activated \subseteq TR!StopOrder
      /\ sweptOrder = NoOrder /\ activated = {} /\ stage = "idle"
      /\ ObjectsGood /\ IndexedRest /\ StopsKept
  BY EngineFacts DEF EngineInv, Stages, EngineIdle
<1>2. PICK e \in pending[Symbol] :
        e.id = id /\ pending' = [pending EXCEPT ![Symbol] = @ \ {e}]
  BY DEF TR!CancelStop
<1>3. UNCHANGED <<highWaterBuy, highWaterSell>>
  BY DEF TR!CancelStop
<1>4. /\ IsStop(orders[id]) /\ orders[id].status = "PENDING"
      /\ orders[id] \in Order /\ ObjectGood(orders[id])
  BY <1>1, <1>2, OrderAt DEF StopsKept, Waits, ObjectsGood
<1>5. /\ n \in Order /\ SameTerms(n, orders[id]) /\ n.status = "CANCELLED"
      /\ n.filledQuantity = orders[id].filledQuantity
  BY <1>4, StatusSet DEF OrderStatus
<1>6. orders' = [orders EXCEPT ![id] = n]
  BY <1>1 DEF WithStatus
<1> HIDE DEF n
<1>7. id \notin orderIndex
  BY <1>1, <1>4 DEF IndexedRest, Rests, IsStop
<1>8. /\ orders[id].filledQuantity = 0 /\ n.quantity \in Nat \ {0}
      /\ n.filledQuantity = 0 /\ IsStop(n)
  BY <1>4, <1>5, OrderFields DEF ObjectGood, SameTerms, IsStop
<1>9. OrderSound(n) /\ ObjectGood(n)
  BY <1>5, <1>8 DEF OrderSound, ObjectGood, IsStop, Rests
<1>10. /\ Sound' /\ Len(orders') = Len(orders)
       /\ \A x \in 1..Len(orders) :
            orders'[x] = IF x = id THEN n ELSE orders[x]
  BY <1>1, <1>5, <1>6, <1>7, <1>9, OrderChanged
<1>11. Inv'
  <2>1. TypeOK'
    BY <1>1, <1>10 DEF Inv, TypeOK, Sound
  <2>2. IncomingApart'
    BY <1>1 DEF Inv, TypeOK, IncomingApart, Idle, NoOrder
  <2> QED
    BY <1>10, <2>1, <2>2 DEF Inv, Sound
<1>12. EngineTypeOK'
  <2>1. pending' \in [{Symbol} -> SUBSET TR!StopOrder]
    BY <1>1, <1>2
  <2>2. TR!TypeOK'
    BY <1>1, <1>3, <1>10, <2>1 DEF TR!TypeOK
  <2>3. TypeOK'
    BY <1>11 DEF Inv
  <2> QED
    BY <1>1, <1>10, <2>2, <2>3 DEF EngineTypeOK, NoOrder
<1>13. ObjectsGood'
  <2> SUFFICES ASSUME NEW x \in 1..Len(orders)
               PROVE  ObjectGood(orders'[x])
    BY <1>10 DEF ObjectsGood, ObjectGood, IsStop, Rests
  <2> QED
    BY <1>1, <1>9, <1>10 DEF ObjectsGood
<1>14. IndexedRest'
  BY <1>1, <1>7, <1>10 DEF IndexedRest, Rests
<1>15. TakerGood' /\ PricesPositive' /\ Stages'
  BY <1>1 DEF EngineInv, TakerGood, PricesPositive, Stages, Idle
<1>16. StopsKept'
  <2>1. pending'[Symbol] = pending[Symbol] \ {e}
    BY <1>1, <1>2
  <2>2. \A x \in 1..Len(orders) : Waits(x)' <=> Waits(x) /\ x # id
    BY <1>5, <1>10 DEF Waits, IsStop
  <2>3. \A p \in pending[Symbol] : p # e <=> p.id # id
    BY <1>1, <1>2 DEF StopsKept
  <2>4. \A p \in pending'[Symbol] : p.id \in 1..Len(orders') /\ Waits(p.id)'
    BY <1>1, <1>10, <2>1, <2>2, <2>3 DEF StopsKept
  <2>5. \A x \in 1..Len(orders') : Waits(x)' => \E p \in pending'[Symbol] : p.id = x
    BY <1>1, <1>10, <2>1, <2>2, <2>3 DEF StopsKept
  <2>6. \A p, q \in pending'[Symbol] : p.id = q.id => p = q
    BY <1>1, <2>1 DEF StopsKept
  <2> QED
    BY <2>4, <2>5, <2>6 DEF StopsKept, Waits
<1>17. SweepSound' /\ LastPriceSeen'
  BY <1>1 DEF SweepSound, LastPriceSeen
<1> QED
  BY <1>11, <1>12, <1>13, <1>14, <1>15, <1>16, <1>17 DEF EngineInv

LEMMA CancelBookStep ==
  ASSUME EngineInv, EngineIdle, NEW id, CancelOrder(id),
         UNCHANGED <<registryVars, stage, sweptOrder>>,
         executed' = << >>, lastTradePrice' = 0
  PROVE  EngineInv'
<1> DEFINE n == WithStatus(orders[id], "CANCELLED")
<1>1. /\ Inv /\ Inv' /\ Idle /\ Len(orders) \in Nat /\ orders \in Seq(Order)
      /\ orderIndex \subseteq 1..Len(orders)
      /\ sweptOrder = NoOrder /\ activated = {} /\ stage = "idle"
      /\ ObjectsGood /\ IndexedRest /\ IndexedOpen
  BY CancelOrderStep, EngineFacts DEF EngineInv, Stages, EngineIdle, Inv
<1>2. /\ id \in orderIndex /\ orderIndex' = orderIndex \ {id}
      /\ orders' = [orders EXCEPT ![id].status = "CANCELLED"]
      /\ incoming' = incoming /\ call' = call /\ trades' = trades
  BY DEF CancelOrder
<1>3. id \in 1..Len(orders) /\ orders[id] \in Order /\ Rests(orders[id])
      /\ Remaining(orders[id]) > 0 /\ ObjectGood(orders[id])
  BY <1>1, <1>2, OrderAt DEF IndexedRest, IndexedOpen, ObjectsGood
<1>4. /\ n \in Order /\ SameTerms(n, orders[id]) /\ n.status = "CANCELLED"
      /\ n.filledQuantity = orders[id].filledQuantity
  BY <1>3, StatusSet DEF OrderStatus
<1>5. orders' = [orders EXCEPT ![id] = n]
  BY <1>1, <1>2, <1>3 DEF WithStatus
<1> HIDE DEF n
<1>6. /\ Len(orders') = Len(orders)
      /\ \A x \in 1..Len(orders) :
           orders'[x] = IF x = id THEN n ELSE orders[x]
  BY <1>1, <1>3, <1>4, <1>5, OrderReplaced
<1>7. ObjectGood(n) /\ ~ IsStop(n) /\ Rests(n)
  <2>1. n.filledQuantity # n.quantity
    BY <1>3, <1>4, OrderFields DEF SameTerms, Remaining
  <2> QED
    BY <1>3, <1>4, <2>1 DEF ObjectGood, SameTerms, Rests, IsStop
<1>8. EngineTypeOK'
  BY <1>1, <1>6, TypesKept DEF registryVars, NoOrder
<1>9. ObjectsGood'
  <2> SUFFICES ASSUME NEW x \in 1..Len(orders)
               PROVE  ObjectGood(orders'[x])
    BY <1>6 DEF ObjectsGood, ObjectGood, IsStop, Rests
  <2> QED
    BY <1>1, <1>6, <1>7 DEF ObjectsGood
<1>10. IndexedRest'
  BY <1>1, <1>2, <1>6 DEF IndexedRest, Rests
<1>11. TakerGood' /\ PricesPositive' /\ Stages'
  BY <1>1, <1>2 DEF EngineInv, TakerGood, PricesPositive, Stages, Idle, registryVars
<1>12. StopsKept' /\ SweepSound'
  <2>1. UNCHANGED <<pending, activated, sweptOrder>>
    BY DEF registryVars
  <2>2. \A x \in 1..Len(orders) :
          /\ orders'[x].type = orders[x].type
          /\ x \notin orderIndex \union {incoming} => orders'[x] = orders[x]
    BY <1>2, <1>4, <1>6 DEF SameTerms
  <2>3. \A x \in 1..Len(orders') : x > Len(orders) => ~ IsStop(orders'[x])
    BY <1>1, <1>6
  <2> QED
    BY <1>1, <1>6, <2>1, <2>2, <2>3, RegistryFramed
<1>13. LastPriceSeen'
  BY DEF LastPriceSeen
<1> QED
  BY <1>1, <1>8, <1>9, <1>10, <1>11, <1>12, <1>13 DEF EngineInv

LEMMA CancelEngineStep ==
  ASSUME EngineInv, NEW id \in 1..Len(orders), EngineCancel(id)
  PROVE  EngineInv'
<1>1. CASE CancelOrder(id) /\ UNCHANGED registryVars
  BY <1>1, CancelBookStep DEF EngineCancel
<1>2. CASE /\ TR!CancelStop(id)
           /\ orders' = [orders EXCEPT ![id].status = "CANCELLED"]
           /\ UNCHANGED <<levels, orderIndex, incoming, call, trades, activated>>
  BY <1>2, CancelStopStep DEF EngineCancel
<1> QED
  BY <1>1, <1>2 DEF EngineCancel

-----------------------------------------------------------------------------
(***************************************************************************)
(* The triggers.                                                           *)
(***************************************************************************)
Trailed(o, high, low) == [o EXCEPT !.stopPrice = TR!TrailedStop(o, high, low)]

LEMMA TrailedOrder ==
  ASSUME NEW o \in TR!StopOrder, NEW high \in Nat \ {0}, NEW low \in Nat \ {0}
  PROVE  Trailed(o, high, low) \in TR!StopOrder /\ Trailed(o, high, low).id = o.id
<1>1. TR!TrailedStop(o, high, low) \in Int
  <2>1. /\ o.stopPrice \in Int
        /\ o.trailingDelta # NoDelta => o.trailingDelta \in Int
    BY DEF TR!StopOrder
  <2> QED
    BY <2>1 DEF TR!TrailedStop
<1>2. o.side = "SELL" => TR!TrailedStop(o, high, low) > 0
  <2>1. /\ o.stopPrice \in Int
        /\ o.side = "SELL" => o.stopPrice > 0
        /\ o.trailingDelta # NoDelta => o.trailingDelta \in Int
    BY DEF TR!StopOrder
  <2> QED
    BY <2>1 DEF TR!TrailedStop
<1> QED
  BY <1>1, <1>2 DEF Trailed, TR!StopOrder

\* What onTradeTick does to the orders that wait: each of them still waits or is
\* handed over, under its id, and none that waits should have fired.
LEMMA TickFacts ==
  ASSUME TR!TypeOK, StopsKept, NEW price \in Nat \ {0},
         TR!OnTradeTick(Symbol, price)
  PROVE  /\ pending' \in [{Symbol} -> SUBSET TR!StopOrder]
         /\ activated' \subseteq TR!StopOrder
         /\ highWaterBuy' \in [{Symbol} -> Nat] /\ highWaterSell' \in [{Symbol} -> Nat]
         /\ \A e \in pending'[Symbol] \union activated' :
              \E p \in pending[Symbol] : p.id = e.id
         /\ \A p \in pending[Symbol] :
              \E e \in pending'[Symbol] \union activated' : e.id = p.id
         /\ \A e, f \in pending'[Symbol] \union activated' : e.id = f.id => e = f
         /\ pending'[Symbol] \intersect activated' = {}
         /\ \A e \in pending'[Symbol] : ~ TR!ShouldTrigger(e, price)
<1>1. /\ pending \in [{Symbol} -> SUBSET TR!StopOrder]
      /\ highWaterBuy \in [{Symbol} -> Nat] /\ highWaterSell \in [{Symbol} -> Nat]
      /\ \A o, p \in pending[Symbol] : o.id = p.id => o = p
  BY DEF TR!TypeOK, StopsKept
<1>2. CASE pending[Symbol] = {}
  BY <1>1, <1>2 DEF TR!OnTradeTick
<1>3. CASE pending[Symbol] # {}
  <2> DEFINE high == TR!HigherMark(highWaterSell[Symbol], price)
             low == TR!LowerMark(highWaterBuy[Symbol], price)
             trailed == {Trailed(p, high, low) : p \in pending[Symbol]}
  <2>1. high \in Nat \ {0} /\ low \in Nat \ {0}
    <3>1. highWaterSell[Symbol] \in Nat /\ highWaterBuy[Symbol] \in Nat
      BY <1>1
    <3> QED
      BY <3>1 DEF TR!HigherMark, TR!LowerMark, TR!NoMark
  <2>2. /\ highWaterSell' = [highWaterSell EXCEPT ![Symbol] = high]
        /\ highWaterBuy' = [highWaterBuy EXCEPT ![Symbol] = low]
        /\ activated' = {o \in trailed : TR!ShouldTrigger(o, price)}
        /\ pending' = [pending EXCEPT ![Symbol] = trailed \ activated']
    BY <1>3, Zenon DEF TR!OnTradeTick, Trailed
  <2> HIDE DEF high, low
  <2>3. \A p \in pending[Symbol] :
          Trailed(p, high, low) \in TR!StopOrder /\ Trailed(p, high, low).id = p.id
    BY <1>1, <2>1, TrailedOrder
  <2>4. /\ trailed \subseteq TR!StopOrder
        /\ \A e \in trailed : \E p \in pending[Symbol] : p.id = e.id
        /\ \A p \in pending[Symbol] : \E e \in trailed : e.id = p.id
        /\ \A e, f \in trailed : e.id = f.id => e = f
    BY <1>1, <2>3
  <2> HIDE DEF trailed
  <2>5. pending'[Symbol] = trailed \ activated' /\ activated' \subseteq trailed
    BY <1>1, <2>2
  <2>6. \A e \in trailed \ activated' : ~ TR!ShouldTrigger(e, price)
    BY <2>2
  <2>7. /\ pending' \in [{Symbol} -> SUBSET TR!StopOrder]
        /\ highWaterBuy' \in [{Symbol} -> Nat] /\ highWaterSell' \in [{Symbol} -> Nat]
    BY <1>1, <2>1, <2>2, <2>4
  <2>8. pending'[Symbol] \union activated' = trailed
    BY <2>5
  <2> QED
    BY <2>4, <2>5, <2>6, <2>7, <2>8
<1> QED
  BY <1>2, <1>3

\* The activated orders are promoted, and no other object changes.
LEMMA EvaluateTriggersStep ==
  ASSUME EngineInv, EvaluateTriggers
  PROVE  EngineInv'
<1> DEFINE price == trades[Len(trades)].price
           Fired(id) == \E o \in activated' : o.id = id
<1>1. /\ stage = "adding" /\ Idle /\ trades # << >> /\ lastTradePrice' = price
      /\ TR!OnTradeTick(Symbol, price)
      /\ orders' = [id \in 1..Len(orders) |->
                      IF Fired(id) THEN Promoted(orders[id]) ELSE orders[id]]
      /\ executed' = trades /\ stage' = "sweeping"
      /\ UNCHANGED <<levels, orderIndex, incoming, call, trades, sweptOrder>>
  BY DEF EvaluateTriggers
<1>2. /\ Inv /\ Len(orders) \in Nat /\ orders \in Seq(Order) /\ trades \in Seq(Trade)
      /\ orderIndex \subseteq 1..Len(orders)
      /\ sweptOrder = NoOrder /\ TR!TypeOK
      /\ ObjectsGood /\ IndexedRest /\ IndexedOpen /\ StopsKept
      /\ \A x \in 1..Len(orders) : orders[x] \in Order
  BY <1>1, EngineFacts DEF EngineInv, EngineTypeOK, Stages, Inv
<1>3. price \in Nat \ {0}
  <2>1. Len(trades) \in 1..Len(trades)
    BY <1>1, <1>2, EmptySeq, LenProperties
  <2>2. trades[Len(trades)] \in Trade /\ trades[Len(trades)].price > 0
    BY <1>2, <2>1, ElementOfSeq DEF EngineInv, PricesPositive
  <2> QED
    BY <2>2 DEF Trade
<1> HIDE DEF price
<1>4. /\ pending' \in [{Symbol} -> SUBSET TR!StopOrder]
      /\ activated' \subseteq TR!StopOrder
      /\ highWaterBuy' \in [{Symbol} -> Nat] /\ highWaterSell' \in [{Symbol} -> Nat]
      /\ \A e \in pending'[Symbol] \union activated' :
           \E p \in pending[Symbol] : p.id = e.id
      /\ \A p \in pending[Symbol] :
           \E e \in pending'[Symbol] \union activated' : e.id = p.id
      /\ \A e, f \in pending'[Symbol] \union activated' : e.id = f.id => e = f
      /\ pending'[Symbol] \intersect activated' = {}
      /\ \A e \in pending'[Symbol] : ~ TR!ShouldTrigger(e, price)
  BY <1>1, <1>2, <1>3, TickFacts
<1>5. /\ orders' \in Seq(Order) /\ Len(orders') = Len(orders)
      /\ \A x \in 1..Len(orders) :
           orders'[x] = IF Fired(x) THEN Promoted(orders[x]) ELSE orders[x]
  <2>1. \A x \in 1..Len(orders) :
          (IF Fired(x) THEN Promoted(orders[x]) ELSE orders[x]) \in Order
    BY <1>2, PromotedFields
  <2> HIDE DEF Fired
  <2> QED
    BY <1>1, <1>2, <2>1, LenProperties
<1>6. \A e \in pending'[Symbol] \union activated' :
        e.id \in 1..Len(orders) /\ Waits(e.id)
  BY <1>2, <1>4 DEF StopsKept
<1>7. \A x \in 1..Len(orders) : Fired(x) =>
        /\ Waits(x) /\ orders'[x] = Promoted(orders[x])
        /\ orders'[x].type = "MARKET" /\ orders'[x].status = "OPEN"
        /\ orders'[x].filledQuantity = orders[x].filledQuantity
        /\ orders'[x].quantity = orders[x].quantity
  <2> SUFFICES ASSUME NEW x \in 1..Len(orders), Fired(x)
               PROVE  /\ Waits(x) /\ orders'[x] = Promoted(orders[x])
                      /\ orders'[x].type = "MARKET" /\ orders'[x].status = "OPEN"
                      /\ orders'[x].filledQuantity = orders[x].filledQuantity
                      /\ orders'[x].quantity = orders[x].quantity
    OBVIOUS
  <2>1. Waits(x) /\ orders'[x] = Promoted(orders[x]) /\ orders[x] \in Order
    BY <1>2, <1>5, <1>6
  <2>2. Promoted(orders[x]).status = "OPEN"
    BY <2>1 DEF Promoted, Order
  <2> QED
    BY <2>1, <2>2, PromotedFields
<1>8. \A x \in orderIndex : x \in 1..Len(orders) /\ orders'[x] = orders[x]
  BY <1>2, <1>5, <1>7 DEF Waits, IndexedRest, Rests, IsStop
<1> HIDE DEF Fired
<1>9. Inv'
  <2>1. SidesGood' /\ BookMatchesIndex' /\ IndexedOpen'
    BY <1>1, <1>2, <1>8, BookUntouched DEF Inv
  <2>2. TypeOK'
    BY <1>1, <1>2, <1>5 DEF Inv, TypeOK
  <2>3. OrdersSound'
    <3> SUFFICES ASSUME NEW x \in 1..Len(orders)
                 PROVE  OrderSound(orders'[x])
      BY <1>5 DEF OrdersSound, OrderSound
    <3>1. OrderSound(orders[x])
      BY <1>2 DEF Inv, OrdersSound
    <3> QED
      BY <1>5, <1>7, <3>1 DEF OrderSound
  <2>4. IncomingApart'
    BY <1>1, <1>2 DEF Inv, TypeOK, IncomingApart, Idle, NoOrder
  <2> QED
    BY <2>1, <2>2, <2>3, <2>4 DEF Inv
<1>10. EngineTypeOK'
  <2>1. TR!TypeOK'
    BY <1>2, <1>4, <1>5 DEF TR!TypeOK
  <2> QED
    BY <1>1, <1>2, <1>3, <1>5, <1>9, <2>1 DEF EngineTypeOK, Inv, NoOrder
<1>11. ObjectsGood'
  <2> SUFFICES ASSUME NEW x \in 1..Len(orders)
               PROVE  ObjectGood(orders'[x])
    BY <1>5 DEF ObjectsGood, ObjectGood, IsStop, Rests
  <2>1. ObjectGood(orders[x])
    BY <1>2 DEF ObjectsGood
  <2>2. CASE Fired(x)
    BY <1>7, <2>2 DEF ObjectGood, IsStop, Rests
  <2>3. CASE ~ Fired(x)
    BY <1>5, <2>1, <2>3
  <2> QED
    BY <2>2, <2>3
<1>12. IndexedRest'
  BY <1>1, <1>2, <1>8 DEF IndexedRest, Rests
<1>13. TakerGood' /\ PricesPositive' /\ Stages'
  BY <1>1, <1>2 DEF EngineInv, TakerGood, PricesPositive, Stages, Idle
<1>14. StopsKept'
  <2>1. \A x \in 1..Len(orders) : Waits(x)' <=> Waits(x) /\ ~ Fired(x)
    BY <1>5, <1>7 DEF Waits, IsStop
  <2>2. \A e \in pending'[Symbol] : ~ Fired(e.id)
    BY <1>4 DEF Fired
  <2>3. \A e \in pending'[Symbol] : e.id \in 1..Len(orders') /\ Waits(e.id)'
    BY <1>5, <1>6, <2>1, <2>2
  <2>4. \A x \in 1..Len(orders') : Waits(x)' => \E e \in pending'[Symbol] : e.id = x
    BY <1>2, <1>4, <1>5, <2>1 DEF StopsKept, Fired
  <2> QED
    BY <1>4, <2>3, <2>4 DEF StopsKept, Waits
<1>15. SweepSound'
  <2>1. \A o \in activated' : Fired(o.id) /\ o.id \in 1..Len(orders)
    BY <1>6 DEF Fired
  <2>2. \A o \in activated' :
          /\ o.id \in 1..Len(orders')
          /\ orders'[o.id].type = "MARKET"
          /\ orders'[o.id].status = "OPEN"
          /\ o.id # sweptOrder'
    BY <1>1, <1>2, <1>5, <1>7, <2>1 DEF NoOrder
  <2> QED
    BY <1>1, <1>2, <1>4, <2>2 DEF SweepSound
<1>16. LastPriceSeen'
  BY <1>1, <1>4 DEF LastPriceSeen, TR!ShouldTrigger
<1> QED
  BY <1>9, <1>10, <1>11, <1>12, <1>13, <1>14, <1>15, <1>16 DEF EngineInv

LEMMA SweepNextStep ==
  ASSUME EngineInv, SweepNext
  PROVE  EngineInv'
<1>1. PICK o \in activated :
        /\ stage = "sweeping" /\ sweptOrder = NoOrder
        /\ MatchMarketOrder(o.id)
        /\ activated' = activated \ {o}
        /\ sweptOrder' = o.id
        /\ UNCHANGED <<orders, pending, highWaterBuy, highWaterSell>>
        /\ UNCHANGED <<stage, executed, lastTradePrice>>
  BY DEF SweepNext
<1>2. /\ Inv /\ Len(orders) \in Nat /\ orderIndex \subseteq 1..Len(orders)
      /\ EngineTypeOK /\ ObjectsGood /\ IndexedRest /\ StopsKept /\ SweepSound
  BY EngineFacts DEF EngineInv
<1>3. /\ Idle /\ incoming' = o.id /\ call' = "matchMarketOrder" /\ trades' = << >>
      /\ levels' = levels /\ orderIndex' = orderIndex
  BY <1>1 DEF MatchMarketOrder
<1>4. /\ o.id \in 1..Len(orders) /\ orders[o.id].type = "MARKET"
      /\ orders[o.id].status = "OPEN" /\ o.id \notin orderIndex
  BY <1>2 DEF SweepSound, IndexedRest, Rests
<1>5. Inv'
  <2>1. SidesGood' /\ BookMatchesIndex' /\ IndexedOpen'
    BY <1>1, <1>2, <1>3, BookUntouched DEF Inv
  <2>2. TypeOK'
    BY <1>1, <1>2, <1>3, <1>4 DEF Inv, TypeOK, Call, NoOrder
  <2>3. OrdersSound'
    BY <1>1, <1>2 DEF Inv, OrdersSound
  <2>4. IncomingApart'
    BY <1>3, <1>4 DEF IncomingApart
  <2> QED
    BY <2>1, <2>2, <2>3, <2>4 DEF Inv
<1>6. EngineTypeOK'
  <2>1. TR!TypeOK'
    BY <1>1, <1>2 DEF EngineTypeOK, TR!TypeOK
  <2> QED
    BY <1>1, <1>2, <1>4, <1>5, <2>1 DEF EngineTypeOK, Inv
<1>7. ObjectsGood' /\ IndexedRest' /\ StopsKept'
  BY <1>1, <1>2, <1>3 DEF ObjectsGood, IndexedRest, StopsKept, Waits, IsStop
<1>8. TakerGood' /\ PricesPositive' /\ Stages'
  BY <1>1, <1>3, <1>4
     DEF TakerGood, PricesPositive, Stages, Idle, NoOrder, In, IsStop
<1>9. SweepSound'
  BY <1>1, <1>2, <1>4 DEF SweepSound
<1>10. LastPriceSeen'
  BY <1>1 DEF EngineInv, LastPriceSeen, TR!ShouldTrigger
<1> QED
  BY <1>5, <1>6, <1>7, <1>8, <1>9, <1>10 DEF EngineInv

\* The status the engine gives a swept order: it says no more than the book did.
LEMMA SweptStatusFacts ==
  ASSUME NEW o \in Order, OrderSound(o), ObjectGood(o),
         o.type = "MARKET", o.status \in {"OPEN", "FILLED"}
  PROVE  LET n == WithStatus(o, SweptStatus(o))
         IN  /\ n \in Order /\ OrderSound(n) /\ ObjectGood(n) /\ n.type = "MARKET"
             /\ SameTerms(n, o) /\ n.filledQuantity = o.filledQuantity
             /\ o.status = "FILLED" => n = o
<1> DEFINE status == SweptStatus(o)
           n == WithStatus(o, status)
<1>1. /\ o.quantity \in Nat \ {0} /\ o.filledQuantity \in Nat
      /\ o.filledQuantity <= o.quantity
  BY OrderFields DEF OrderSound
<1>2. /\ status \in OrderStatus
      /\ status = "FILLED" => o.filledQuantity = o.quantity
      /\ status = "CANCELLED" => o.filledQuantity # o.quantity
      /\ o.filledQuantity = o.quantity => status = "FILLED"
  BY <1>1 DEF SweptStatus, OrderStatus
<1> HIDE DEF status
<1>3. /\ n \in Order /\ SameTerms(n, o) /\ n.status = status
      /\ n.filledQuantity = o.filledQuantity
  BY <1>2, StatusSet
<1>4. o.status = "FILLED" => n = o
  <2>1. o.status = "FILLED" => status = o.status
    BY <1>2 DEF ObjectGood
  <2> QED
    BY <2>1 DEF WithStatus, Order
<1> HIDE DEF n
<1>5. OrderSound(n) /\ ObjectGood(n) /\ n.type = "MARKET"
  BY <1>1, <1>2, <1>3 DEF OrderSound, ObjectGood, SameTerms, IsStop, Rests
<1> QED
  BY <1>3, <1>4, <1>5 DEF n, status

LEMMA EndSweepStep ==
  ASSUME EngineInv, EndSweep
  PROVE  EngineInv'
<1> DEFINE o == orders[sweptOrder]
           n == WithStatus(o, SweptStatus(o))
<1>1. /\ sweptOrder # NoOrder /\ Idle
      /\ executed' = executed \o trades /\ sweptOrder' = NoOrder
      /\ UNCHANGED <<levels, orderIndex, incoming, call, trades, registryVars>>
      /\ UNCHANGED <<stage, lastTradePrice>>
  BY DEF EndSweep
<1>2. /\ Inv /\ Len(orders) \in Nat /\ orders \in Seq(Order)
      /\ orderIndex \subseteq 1..Len(orders)
      /\ executed \in Seq(Trade) /\ trades \in Seq(Trade)
      /\ sweptOrder \in 1..Len(orders) /\ o \in Order
      /\ o.type = "MARKET" /\ o.status \in {"OPEN", "FILLED"}
      /\ OrderSound(o) /\ ObjectGood(o)
      /\ EngineTypeOK /\ ObjectsGood /\ IndexedRest /\ StopsKept /\ SweepSound
      /\ stage = "sweeping"
  <2>1. /\ Inv /\ Len(orders) \in Nat /\ orders \in Seq(Order)
        /\ orderIndex \subseteq 1..Len(orders)
        /\ executed \in Seq(Trade) /\ trades \in Seq(Trade)
        /\ EngineTypeOK /\ ObjectsGood /\ IndexedRest /\ StopsKept /\ SweepSound
        /\ sweptOrder \in 1..Len(orders) /\ stage = "sweeping"
    BY <1>1, EngineFacts DEF EngineInv, Stages, NoOrder
  <2>2. /\ o \in Order /\ OrderSound(o) /\ ObjectGood(o)
        /\ o.type = "MARKET" /\ o.status \in {"OPEN", "FILLED"}
    BY <1>1, <2>1, OrderAt DEF Inv, OrdersSound, ObjectsGood, SweepSound
  <2> QED
    BY <2>1, <2>2
<1>3. /\ n \in Order /\ OrderSound(n) /\ ObjectGood(n) /\ n.type = "MARKET"
      /\ SameTerms(n, o) /\ n.filledQuantity = o.filledQuantity
  <2> HIDE DEF o
  <2> QED
    BY <1>2, SweptStatusFacts
<1>4. orders' = [orders EXCEPT ![sweptOrder] = n]
  BY <1>2 DEF EndSweep, WithStatus
<1> HIDE DEF n
<1>5. sweptOrder \notin orderIndex
  BY <1>2 DEF IndexedRest, Rests
<1>6. /\ Sound' /\ Len(orders') = Len(orders)
      /\ \A x \in 1..Len(orders) :
           orders'[x] = IF x = sweptOrder THEN n ELSE orders[x]
  BY <1>1, <1>2, <1>3, <1>4, <1>5, OrderChanged
<1>7. Inv'
  <2>1. TypeOK'
    BY <1>1, <1>2, <1>6 DEF Inv, TypeOK, Sound
  <2>2. IncomingApart'
    BY <1>1, <1>2 DEF Inv, TypeOK, IncomingApart, Idle, NoOrder
  <2> QED
    BY <1>6, <2>1, <2>2 DEF Inv, Sound
<1>8. EngineTypeOK'
  <2>1. executed' \in Seq(Trade)
    BY <1>1, <1>2, ConcatProperties
  <2>2. stage' \in {"idle", "adding", "sweeping"} /\ lastTradePrice' \in Nat
    BY <1>1, <1>2 DEF EngineTypeOK
  <2> QED
    BY <1>1, <1>2, <1>6, <1>7, <2>1, <2>2, TypesKept DEF NoOrder, registryVars
<1>9. ObjectsGood'
  <2> SUFFICES ASSUME NEW x \in 1..Len(orders)
               PROVE  ObjectGood(orders'[x])
    BY <1>6 DEF ObjectsGood, ObjectGood, IsStop, Rests
  <2> QED
    BY <1>2, <1>3, <1>6 DEF ObjectsGood
<1>10. IndexedRest'
  BY <1>1, <1>2, <1>5, <1>6 DEF IndexedRest, Rests
<1>11. TakerGood' /\ PricesPositive' /\ Stages'
  BY <1>1, <1>2 DEF EngineInv, TakerGood, PricesPositive, Stages, Idle, registryVars
<1>12. StopsKept'
  <2>1. \A x \in 1..Len(orders) : Waits(x)' <=> Waits(x)
    BY <1>2, <1>3, <1>6 DEF Waits, IsStop
  <2>2. pending' = pending
    BY <1>1 DEF registryVars
  <2> QED
    BY <1>2, <1>6, <2>1, <2>2 DEF StopsKept, Waits
<1>13. SweepSound'
  <2>1. activated' = activated
    BY <1>1 DEF registryVars
  <2>2. \A p \in activated :
          /\ p.id \in 1..Len(orders) /\ p.id # NoOrder
          /\ orders'[p.id] = orders[p.id]
    BY <1>2, <1>6 DEF SweepSound, NoOrder
  <2> QED
    BY <1>1, <1>2, <1>6, <2>1, <2>2 DEF SweepSound
<1>14. LastPriceSeen'
  BY <1>1 DEF EngineInv, LastPriceSeen, registryVars, TR!ShouldTrigger
<1> QED
  BY <1>7, <1>8, <1>9, <1>10, <1>11, <1>12, <1>13, <1>14 DEF EngineInv

-----------------------------------------------------------------------------
(***************************************************************************)
(* The invariant.                                                          *)
(***************************************************************************)

\* A step that at most ends the running call.
LEMMA CallReturnsStep ==
  ASSUME EngineInv, UNCHANGED <<bookVars, registryVars, executed, lastTradePrice,
                                sweptOrder>>,
         \/ stage' = stage
         \/ Idle /\ sweptOrder = NoOrder /\ activated = {} /\ stage' = "idle"
  PROVE  EngineInv'
<1>1. /\ orders' = orders /\ levels' = levels /\ orderIndex' = orderIndex
      /\ incoming' = incoming /\ call' = call /\ trades' = trades
      /\ pending' = pending /\ highWaterBuy' = highWaterBuy
      /\ highWaterSell' = highWaterSell /\ activated' = activated
      /\ executed' = executed /\ lastTradePrice' = lastTradePrice
      /\ sweptOrder' = sweptOrder
  BY DEF bookVars, registryVars
<1>2. Inv'
  <2>1. SidesGood' /\ BookMatchesIndex' /\ IndexedOpen'
    BY <1>1, BookUntouched DEF EngineInv, Inv
  <2> QED
    BY <1>1, <2>1 DEF EngineInv, Inv, TypeOK, OrdersSound, IncomingApart, In
<1>3. EngineTypeOK'
  <2>1. TR!TypeOK'
    BY <1>1 DEF EngineInv, EngineTypeOK, TR!TypeOK
  <2> QED
    BY <1>1, <1>2, <2>1 DEF EngineInv, EngineTypeOK, Inv
<1>4. ObjectsGood' /\ IndexedRest' /\ StopsKept' /\ SweepSound'
  BY <1>1 DEF EngineInv, ObjectsGood, IndexedRest, StopsKept, Waits, IsStop, SweepSound
<1>5. TakerGood' /\ PricesPositive' /\ Stages'
  BY <1>1 DEF EngineInv, TakerGood, PricesPositive, Stages, Idle, In, IsStop
<1>6. LastPriceSeen'
  BY <1>1 DEF EngineInv, LastPriceSeen, TR!ShouldTrigger
<1> QED
  BY <1>2, <1>3, <1>4, <1>5, <1>6 DEF EngineInv

LEMMA WorkStep ==
  ASSUME EngineInv, Work
  PROVE  EngineInv'
<1>1. CASE BookStep
  BY <1>1, MatchEngineStep, FinishEngineStep DEF BookStep
<1>2. CASE ReturnNoTrades
  <2>1. sweptOrder = NoOrder /\ activated = {}
    BY <1>2 DEF EngineInv, Stages, ReturnNoTrades
  <2> QED
    BY <1>2, <2>1, CallReturnsStep DEF ReturnNoTrades
<1>3. CASE ReturnTrades
  <2>1. Idle
    BY <1>3 DEF EngineInv, Stages, ReturnTrades
  <2> QED
    BY <1>3, <2>1, CallReturnsStep DEF ReturnTrades
<1> QED
  BY <1>1, <1>2, <1>3, EvaluateTriggersStep, SweepNextStep, EndSweepStep DEF Work

\* A request that validateOrder lets through, on its way to the book.
LEMMA SubmitToBookStep ==
  ASSUME EngineInv, NEW r \in Request, Rests(r) => r.price > 0, SubmitToBook(r)
  PROVE  EngineInv'
<1> DEFINE o == CreateOrder(r)
<1>1. /\ o \in Order /\ o.filledQuantity = 0 /\ o.status = "PENDING"
      /\ o.type = r.type /\ o.price = r.price
  BY CreatedOrder DEF CreateOrder
<1>2. /\ EngineIdle /\ ~ IsStop(r) /\ AddOrder(o) /\ stage' = "adding"
      /\ executed' = << >> /\ lastTradePrice' = 0
      /\ UNCHANGED <<registryVars, sweptOrder>>
  BY DEF SubmitToBook
<1> HIDE DEF o
<1>3. ~ IsStop(o) /\ (Rests(o) => o.price > 0)
  BY <1>1, <1>2 DEF IsStop, Rests
<1> QED
  BY <1>1, <1>2, <1>3, AddEngineStep

LEMMA EngineInvInit == EngineInit => EngineInv
<1> SUFFICES ASSUME EngineInit PROVE EngineInv
  OBVIOUS
<1>1. /\ Inv /\ orders = << >> /\ orderIndex = {} /\ incoming = NoOrder
      /\ trades = << >>
  BY InvInit DEF EngineInit, Init
<1>2. /\ pending = [s \in {Symbol} |-> {}] /\ activated = {}
      /\ highWaterBuy = [s \in {Symbol} |-> 0] /\ highWaterSell = [s \in {Symbol} |-> 0]
      /\ stage = "idle" /\ executed = << >> /\ lastTradePrice = 0
      /\ sweptOrder = NoOrder
  BY DEF EngineInit, TR!Init, TR!NoMark
<1>3. EngineTypeOK
  BY <1>1, <1>2 DEF EngineTypeOK, TR!TypeOK, Inv, NoOrder
<1>4. ObjectsGood /\ IndexedRest /\ StopsKept /\ SweepSound
  BY <1>1, <1>2 DEF ObjectsGood, IndexedRest, StopsKept, SweepSound
<1>5. TakerGood /\ PricesPositive /\ Stages /\ LastPriceSeen
  BY <1>1, <1>2 DEF TakerGood, PricesPositive, Stages, LastPriceSeen, Idle
<1> QED
  BY <1>1, <1>3, <1>4, <1>5 DEF EngineInv

LEMMA EngineInvStep == EngineInv /\ [EngineNext]_allVars => EngineInv'
<1> SUFFICES ASSUME EngineInv, [EngineNext]_allVars PROVE EngineInv'
  OBVIOUS
<1>1. CASE EngineSubmit
  <2>1. PICK r \in Requests :
          \/ SubmitToBook(r)
          \/ \E stop \in StopPrices, delta \in Deltas : SubmitStop(r, stop, delta)
    BY <1>1 DEF EngineSubmit
  <2>2. r \in Request /\ (Rests(r) => r.price > 0)
    BY BookAssumption, EngineAssumption DEF Rests
  <2>3. /\ StopPrices \subseteq Nat \ {0}
        /\ Deltas \subseteq Int \union {NoDelta}
    BY EngineAssumption
  <2> QED
    BY <2>1, <2>2, <2>3, SubmitToBookStep, SubmitStopStep
<1>2. CASE Work
  BY <1>2, WorkStep
<1>3. CASE \E id \in 1..Len(orders) : EngineCancel(id)
  BY <1>3, CancelEngineStep
<1>4. CASE UNCHANGED allVars
  BY <1>4, CallReturnsStep DEF allVars, engineVars
<1> QED
  BY <1>1, <1>2, <1>3, <1>4 DEF EngineNext

\* Book, registry and sweep agree in every reachable state of the engine.
THEOREM EngineInvariance == EngineSpec => []EngineInv
  BY EngineInvInit, EngineInvStep, PTL DEF EngineSpec

-----------------------------------------------------------------------------
(***************************************************************************)
(* The properties of the engine.                                           *)
(***************************************************************************)

\* The engine's state stays well formed: a trailing stop keeps a positive stop
\* price, and the order being swept is one that exists.
THEOREM EngineTypeCorrect == EngineSpec => []EngineTypeOK
<1>1. EngineInv => EngineTypeOK
  BY DEF EngineInv
<1> QED
  BY <1>1, EngineInvariance, PTL

\* No stop order is lost, registered twice, or in two places at once.
THEOREM StopsAreAccountedFor == EngineSpec => []StopsAccountedFor
<1>1. ASSUME EngineInv PROVE StopsAccountedFor
  <2>1. /\ StopsKept /\ SweepSound /\ IndexedRest /\ Len(orders) \in Nat
        /\ orderIndex \subseteq 1..Len(orders) /\ sweptOrder \in 0..Len(orders)
    BY <1>1, EngineFacts DEF EngineInv
  <2>2. WaitingIds = {id \in 1..Len(orders) :
                        IsStop(orders[id]) /\ orders[id].status = "PENDING"}
    BY <2>1 DEF WaitingIds, StopsKept, Waits
  <2>3. \A id \in RunningIds : id \in 1..Len(orders) /\ orders[id].type = "MARKET"
    BY <2>1 DEF RunningIds, SweepSound, NoOrder
  <2>4. \A id \in WaitingIds : IsStop(orders[id])
    BY <2>2
  <2> QED
    BY <2>1, <2>2, <2>3, <2>4 DEF StopsAccountedFor, IndexedRest, Rests, IsStop
<1>2. EngineInv => StopsAccountedFor
  BY <1>1
<1> QED
  BY <1>2, EngineInvariance, PTL

\* When submitOrder returns nothing waits that its last price should have fired.
THEOREM LastPriceIsEvaluated == EngineSpec => []LastPriceEvaluated
<1>1. EngineInv => LastPriceEvaluated
  BY DEF EngineInv, LastPriceSeen, LastPriceEvaluated, TR!ShouldTrigger
<1> QED
  BY <1>1, EngineInvariance, PTL

\* The book the engine drives keeps the invariants of the book on its own.
THEOREM EngineBookIsSound ==
  EngineSpec => [](LevelsSorted /\ QueuesInArrivalOrder /\ IndexAgrees)
<1>1. EngineInv => LevelsSorted
  BY DEF EngineInv, Inv, SidesGood, GoodSide, Sorted, LevelsSorted
<1>2. EngineInv => QueuesInArrivalOrder
  BY DEF EngineInv, Inv, SidesGood, GoodSide, Ascending, QueuesInArrivalOrder
<1>3. EngineInv => IndexAgrees
  BY IndexAgreesInvariant DEF EngineInv
<1> QED
  BY <1>1, <1>2, <1>3, EngineInvariance, PTL

\* What a step of the engine leaves alone.
LEMMA DoneUntouched ==
  ASSUME EngineInv, [EngineNext]_allVars, NEW id \in 1..Len(orders),
         orders[id].status \in {"FILLED", "CANCELLED"}
  PROVE  orders'[id] = orders[id]
<1>1. /\ Inv /\ orders \in Seq(Order) /\ Len(orders) \in Nat
      /\ id \notin orderIndex /\ orders[id] \in Order
      /\ ~ Waits(id) /\ StopsKept /\ OrderSound(orders[id]) /\ ObjectGood(orders[id])
      /\ ~ Idle => id # incoming
  BY EngineFacts
     DEF EngineInv, Inv, IndexedOpen, Waits, TakerGood, In, OrdersSound, ObjectsGood
<1>2. ASSUME NEW r, SubmitToBook(r)
      PROVE  orders'[id] = orders[id]
  <2>1. \E o : orders' = Append(orders, o)
    BY <1>2, Zenon
       DEF SubmitToBook, AddOrder, StartMatching, RejectFillOrKill, AddIceberg
  <2> QED
    BY <1>1, <2>1, AppendProperties
<1>3. ASSUME NEW r, NEW stop, NEW delta, SubmitStop(r, stop, delta)
      PROVE  orders'[id] = orders[id]
  BY <1>1, <1>3, AppendProperties DEF SubmitStop, HoldStop
<1>4. CASE BookStep
  <2>1. CASE MatchStep
    <3>1. id # incoming /\ id # RestingId
      <4>1. MoreToMatch
        BY <2>1, MatchObjects
      <4> QED
        BY <1>1, <4>1, MatchFacts DEF MoreToMatch
    <3> QED
      BY <2>1, <3>1, MatchObjects
  <2>2. CASE Finish
    BY <1>1, <2>2, FinishObjects
  <2> QED
    BY <1>4, <2>1, <2>2 DEF BookStep
<1>5. CASE EvaluateTriggers
  <2>1. /\ TR!OnTradeTick(Symbol, trades[Len(trades)].price) /\ trades # << >>
        /\ orders' = [x \in 1..Len(orders) |->
                        IF \E o \in activated' : o.id = x
                        THEN Promoted(orders[x]) ELSE orders[x]]
    BY <1>5 DEF EvaluateTriggers
  <2>2. trades[Len(trades)].price \in Nat \ {0}
    <3>1. trades \in Seq(Trade) /\ Len(trades) \in 1..Len(trades)
      BY <2>1, EmptySeq, LenProperties, EngineFacts
    <3>2. trades[Len(trades)] \in Trade /\ trades[Len(trades)].price > 0
      BY <3>1, ElementOfSeq DEF EngineInv, PricesPositive
    <3> QED
      BY <3>2 DEF Trade
  <2>3. \A e \in activated' : \E p \in pending[Symbol] : p.id = e.id
    BY <1>1, <2>1, <2>2, TickFacts DEF EngineInv, EngineTypeOK
  <2>4. ~ \E o \in activated' : o.id = id
    BY <1>1, <2>3 DEF StopsKept
  <2> QED
    BY <2>1, <2>4
<1>6. CASE EndSweep
  <2>1. orders' = [orders EXCEPT ![sweptOrder] =
                     WithStatus(@, SweptStatus(orders[sweptOrder]))]
    BY <1>6 DEF EndSweep, WithStatus
  <2>2. CASE id = sweptOrder
    <3>1. orders[id].type = "MARKET" /\ orders[id].status \in {"OPEN", "FILLED"}
      BY <1>6, <2>2 DEF EngineInv, SweepSound, EndSweep
    <3>2. WithStatus(orders[id], SweptStatus(orders[id])) = orders[id]
      BY <1>1, <3>1, SweptStatusFacts
    <3> QED
      BY <1>1, <2>1, <2>2, <3>2
  <2>3. CASE id # sweptOrder
    BY <1>1, <2>1, <2>3
  <2> QED
    BY <2>2, <2>3
<1>7. CASE SweepNext \/ ReturnNoTrades \/ ReturnTrades \/ UNCHANGED allVars
  BY <1>7 DEF SweepNext, ReturnNoTrades, ReturnTrades, allVars, bookVars
<1>8. ASSUME NEW x \in 1..Len(orders), EngineCancel(x)
      PROVE  orders'[id] = orders[id]
  <2>1. x \in orderIndex \/ \E o \in pending[Symbol] : o.id = x
    BY <1>8 DEF EngineCancel, CancelOrder, TR!CancelStop
  <2>2. x # id
    BY <1>1, <2>1 DEF StopsKept
  <2>3. orders' = [orders EXCEPT ![x].status = "CANCELLED"]
    BY <1>8 DEF EngineCancel, CancelOrder
  <2> QED
    BY <1>1, <2>2, <2>3
<1> QED
  BY <1>2, <1>3, <1>4, <1>5, <1>6, <1>7, <1>8 DEF EngineNext, EngineSubmit, Work

\* FILLED and CANCELLED are the end of an order: no later match, trigger, sweep
\* or cancellation touches it, and FILLED means filled whole.
THEOREM DoneOrdersAreFinal == EngineSpec => DoneIsFinal
<1>1. ASSUME EngineInv, [EngineNext]_allVars, NEW id \in 1..Len(orders),
             orders[id].status \in {"FILLED", "CANCELLED"}
      PROVE  /\ orders'[id] = orders[id]
             /\ orders[id].status = "FILLED" <=>
                  orders[id].filledQuantity = orders[id].quantity
  <2>1. ObjectGood(orders[id])
    BY <1>1 DEF EngineInv, ObjectsGood
  <2> QED
    BY <1>1, <2>1, DoneUntouched DEF ObjectGood
<1>2. EngineInv /\ [EngineNext]_allVars =>
        [\A id \in 1..Len(orders) :
           orders[id].status \in {"FILLED", "CANCELLED"} =>
             /\ orders'[id] = orders[id]
             /\ orders[id].status = "FILLED" <=>
                  orders[id].filledQuantity = orders[id].quantity]_allVars
  BY <1>1
<1> QED
  BY <1>2, EngineInvariance, PTL DEF EngineSpec, DoneIsFinal

-----------------------------------------------------------------------------
(***************************************************************************)
(* What is traded of an order in a list of trades.                         *)
(***************************************************************************)
Share(id, t) == IF id \in {t.buyOrderId, t.sellOrderId} THEN t.quantity ELSE 0

Shares(id, list) == [i \in 1..Len(list) |-> Share(id, list[i])]

LEMMA ShareType ==
  ASSUME NEW id, NEW t \in Trade
  PROVE  Share(id, t) \in Nat
  BY DEF Share, Trade

LEMMA SharesType ==
  ASSUME NEW id, NEW list \in Seq(Trade)
  PROVE  /\ Len(list) \in Nat /\ IsFiniteSet(1..Len(list))
         /\ \A i \in 1..Len(list) : Shares(id, list)[i] = Share(id, list[i])
                                    /\ Share(id, list[i]) \in Nat
<1>1. Len(list) \in Nat
  BY LenProperties
<1>2. \A i \in 1..Len(list) : Share(id, list[i]) \in Nat
  BY ElementOfSeq, ShareType
<1> QED
  BY <1>1, <1>2, FS_Interval DEF Shares

LEMMA TradedIsTotal ==
  ASSUME NEW id, NEW list \in Seq(Trade)
  PROVE  /\ TradedQuantity(id, list) = Total(Shares(id, list), 1..Len(list))
         /\ TradedQuantity(id, list) \in Nat
<1> DEFINE n == Len(list)
           f == Shares(id, list)
           P(c) == c = [T \in SUBSET (1..n) |->
                          IF T = {} THEN 0
                          ELSE c[T \ {Max(T)}]
                                 + (IF id \in {list[Max(T)].buyOrderId,
                                               list[Max(T)].sellOrderId}
                                    THEN list[Max(T)].quantity ELSE 0)]
<1>1. n \in Nat /\ DOMAIN list = 1..n /\ IsFiniteSet(1..n)
  BY LenProperties, SharesType
<1>2. \A i \in 1..n : f[i] = Share(id, list[i]) /\ f[i] \in Nat
  BY SharesType
<1>3. ASSUME NEW c PROVE P(c) <=> SumsFromTheLast(c, f, n)
  <2>1. \A T \in SUBSET (1..n) :
          T # {} => f[Max(T)] = IF id \in {list[Max(T)].buyOrderId,
                                           list[Max(T)].sellOrderId}
                                THEN list[Max(T)].quantity ELSE 0
    BY <1>1, <1>2, MaxProperties DEF Share
  <2> HIDE DEF f, n
  <2> QED
    BY <2>1 DEF SumsFromTheLast
<1>4. TradedQuantity(id, list) = (CHOOSE c : P(c))[1..n]
  BY <1>1 DEF TradedQuantity, FoldLeft, MapThenFoldSet
<1> HIDE DEF P, f, n
<1>5. \A i \in 1..n : f[i] \in Int
  BY <1>2
<1>6. SumsFromTheLast(CHOOSE c : P(c), f, n)
  BY <1>1, <1>3, <1>5, SumsFromTheLastExist
<1>7. (CHOOSE c : P(c))[1..n] = Total(f, 1..n)
  BY <1>1, <1>5, <1>6, SumFromTheLast
<1>8. Total(f, 1..n) \in Nat
  <2> DEFINE I == 1..n
  <2>1. IsFiniteSet(I) /\ \A i \in I : f[i] \in Nat
    BY <1>1, <1>2
  <2> HIDE DEF I
  <2>2. Total(f, I) \in Nat
    BY <2>1, TotalNonNegative
  <2> QED
    BY <2>2 DEF I
<1> QED
  BY <1>4, <1>7, <1>8 DEF f, n

LEMMA TradedOfNone ==
  ASSUME NEW id
  PROVE  TradedQuantity(id, << >>) = 0
<1>1. << >> \in Seq(Trade) /\ Len(<< >>) = 0 /\ 1..0 = {}
  BY EmptySeq
<1>2. TradedQuantity(id, << >>) = Total(Shares(id, << >>), {})
  BY <1>1, TradedIsTotal
<1> QED
  BY <1>2, TotalEmpty

LEMMA TradedOfBoth ==
  ASSUME NEW id, NEW a \in Seq(Trade), NEW b \in Seq(Trade)
  PROVE  TradedQuantity(id, a \o b) = TradedQuantity(id, a) + TradedQuantity(id, b)
<1> DEFINE s == a \o b
           f == Shares(id, s)
           g == Shares(id, a)
           h == Shares(id, b)
           m == Len(a)
           n == Len(b)
           A == 1..m
           I == 1..n
           q == [i \in I |-> m + i]
           B == {q[i] : i \in I}
<1>1. /\ s \in Seq(Trade) /\ Len(s) = m + n /\ m \in Nat /\ n \in Nat
      /\ \A i \in A : s[i] = a[i]
      /\ \A i \in I : s[m + i] = b[i]
  <2>1. /\ s \in Seq(Trade) /\ Len(s) = m + n /\ m \in Nat /\ n \in Nat
        /\ \A i \in 1..m + n : s[i] = IF i <= m THEN a[i] ELSE b[i - m]
    BY ConcatProperties, LenProperties
  <2>2. \A i \in I : m + i \in 1..m + n /\ ~ (m + i <= m) /\ (m + i) - m = i
    BY <2>1
  <2>3. \A i \in A : i \in 1..m + n /\ i <= m
    BY <2>1
  <2> HIDE DEF s
  <2> QED
    BY <2>1, <2>2, <2>3
<1> HIDE DEF s
<1>2. A \union B = 1..Len(s) /\ A \cap B = {}
  <2>1. \A i \in I : q[i] = m + i
    OBVIOUS
  <2>2. \A j \in 1..m + n : j \in 1..m \/ (j - m \in 1..n /\ j = m + (j - m))
    BY <1>1
  <2>3. \A i \in I : m + i \in 1..m + n /\ m + i \notin 1..m
    BY <1>1
  <2>4. A \subseteq 1..m + n
    BY <1>1
  <2>5. B \subseteq 1..m + n /\ A \cap B = {}
    BY <2>1, <2>3
  <2>6. 1..m + n \subseteq A \union B
    BY <2>1, <2>2
  <2> QED
    BY <1>1, <2>4, <2>5, <2>6
<1>3. \A i \in 1..Len(s) : f[i] = Share(id, s[i]) /\ f[i] \in Int
  BY <1>1, SharesType
<1>4. \A i \in A : g[i] = Share(id, a[i]) /\ g[i] = f[i] /\ f[i] \in Int
  <2>1. \A i \in A : g[i] = Share(id, a[i])
    BY SharesType
  <2>2. \A i \in A : i \in 1..Len(s)
    BY <1>1
  <2> QED
    BY <1>1, <1>3, <2>1, <2>2
<1>5. \A i \in I : h[i] = Share(id, b[i]) /\ h[i] = f[q[i]] /\ f[q[i]] \in Int
  <2>1. \A i \in I : h[i] = Share(id, b[i])
    BY SharesType
  <2>2. \A i \in I : q[i] = m + i /\ m + i \in 1..Len(s)
    BY <1>1
  <2> QED
    BY <1>1, <1>3, <2>1, <2>2
<1>6. IsFiniteSet(A) /\ IsFiniteSet(I) /\ IsFiniteSet(B)
  <2>1. IsFiniteSet(A) /\ IsFiniteSet(I) /\ IsFiniteSet(1..Len(s))
    BY <1>1, FS_Interval
  <2>2. B \subseteq 1..Len(s)
    BY <1>2
  <2> HIDE DEF A, B, I
  <2> QED
    BY <2>1, <2>2, FS_Subset
<1>7. \A i, j \in I : i # j => q[i] # q[j]
  <2>1. \A i, j \in I : i # j => m + i # m + j
    BY <1>1
  <2> QED
    BY <2>1
<1>8. TradedQuantity(id, s) = Total(f, A \union B)
  BY <1>1, <1>2, TradedIsTotal
<1>9. TradedQuantity(id, a) = Total(g, A) /\ TradedQuantity(id, b) = Total(h, I)
  BY TradedIsTotal
<1>10. \A x \in A \union B : f[x] \in Int
  BY <1>2, <1>3
<1> HIDE DEF f, g, A, B, I
<1>11. Total(f, A \union B) = Total(f, A) + Total(f, B)
  BY <1>2, <1>6, <1>10, TotalUnion
<1>12. Total(f, A) = Total(g, A)
  <2>1. \A i \in A : f[i] \in Int /\ f[i] = g[i]
    BY <1>4
  <2> QED
    BY <1>6, <2>1, TotalSame
<1>13. Total(f, B) = Total(h, I)
  <2> DEFINE k == [i \in I |-> f[q[i]]]
  <2>1. /\ \A i \in I : f[q[i]] \in Int
        /\ \A i, j \in I : i # j => q[i] # q[j]
    BY <1>5, <1>7
  <2>4. IsFiniteSet(I)
    BY <1>6
  <2> HIDE DEF q, h
  <2>2. Total(k, I) = Total(f, {q[i] : i \in I})
    BY <2>1, <2>4, TotalRenamed
  <2>3. Total(k, I) = Total(h, I)
    <3>1. \A i \in I : k[i] \in Int /\ k[i] = h[i]
      BY <1>5
    <3> HIDE DEF k
    <3> QED
      BY <1>6, <3>1, TotalSame
  <2> QED
    BY <2>2, <2>3 DEF B
<1> QED
  BY <1>8, <1>9, <1>11, <1>12, <1>13 DEF s

LEMMA TradedOfOne ==
  ASSUME NEW id, NEW t \in Trade
  PROVE  TradedQuantity(id, <<t>>) = Share(id, t)
<1> DEFINE list == <<t>>
           f == Shares(id, list)
<1>1. list \in Seq(Trade) /\ Len(list) = 1 /\ list[1] = t
  OBVIOUS
<1> HIDE DEF list
<1>2. 1..Len(list) = {1} /\ f[1] = Share(id, t) /\ f[1] \in Nat
  <2>1. 1 \in 1..Len(list) /\ 1..Len(list) = {1}
    BY <1>1
  <2> QED
    BY <1>1, <2>1, SharesType
<1>3. TradedQuantity(id, list) = Total(f, {1})
  BY <1>1, <1>2, TradedIsTotal
<1>4. Total(f, {1}) = f[1]
  <2>1. {} \union {1} = {1} /\ IsFiniteSet({}) /\ 1 \notin {}
        /\ \A y \in {} \union {1} : f[y] \in Int
    BY <1>2, FS_EmptySet
  <2> HIDE DEF f
  <2>2. Total(f, {} \union {1}) = f[1] + Total(f, {})
    BY <2>1, TotalAdd
  <2> QED
    BY <1>2, <2>1, <2>2, TotalEmpty
<1> QED
  BY <1>2, <1>3, <1>4 DEF list

LEMMA TradedOfOneMore ==
  ASSUME NEW id, NEW list \in Seq(Trade), NEW t \in Trade
  PROVE  TradedQuantity(id, Append(list, t)) = TradedQuantity(id, list) + Share(id, t)
<1>1. Append(list, t) = list \o <<t>> /\ <<t>> \in Seq(Trade)
  BY AppendIsConcat
<1> QED
  BY <1>1, TradedOfBoth, TradedOfOne, ZenonT(40)

\* Every trade of the list is between two of the first n orders.
Named(list, n) ==
  \A i \in 1..Len(list) :
    list[i].buyOrderId \in 1..n /\ list[i].sellOrderId \in 1..n

\* Nothing is traded of an order that does not exist yet.
LEMMA TradedOfNobody ==
  ASSUME NEW n \in Nat, NEW list \in Seq(Trade), Named(list, n), NEW id, id \notin 1..n
  PROVE  TradedQuantity(id, list) = 0
<1> DEFINE f == Shares(id, list)
           I == 1..Len(list)
           h == [T \in SUBSET I |-> 0]
<1>1. \A i \in I : f[i] = 0
  BY SharesType DEF Named, Share
<1>2. IsFiniteSet(I) /\ TradedQuantity(id, list) = Total(f, I)
  BY SharesType, TradedIsTotal
<1>3. Sums(h, f, I)
  <2> HIDE DEF f, I
  <2> QED
    BY <1>1 DEF Sums
<1>4. Total(f, I) = h[I]
  <2>1. I \in SUBSET I
    OBVIOUS
  <2> HIDE DEF f, I, h
  <2> QED
    BY <1>2, <1>3, <2>1, TotalIsSum
<1> QED
  BY <1>2, <1>4

LEMMA NamedAmongMore ==
  ASSUME NEW m \in Nat, NEW n \in Nat, m <= n, NEW list, Named(list, m)
  PROVE  Named(list, n)
  BY DEF Named

LEMMA NamedAppended ==
  ASSUME NEW n \in Nat, NEW list \in Seq(Trade), Named(list, n), NEW t \in Trade,
         t.buyOrderId \in 1..n, t.sellOrderId \in 1..n
  PROVE  Named(Append(list, t), n)
<1> DEFINE more == Append(list, t)
<1>1. /\ Len(more) = Len(list) + 1 /\ Len(list) \in Nat
      /\ \A i \in 1..Len(list) : more[i] = list[i]
      /\ more[Len(list) + 1] = t
  BY AppendProperties, LenProperties
<1> HIDE DEF more
<1>2. \A i \in 1..Len(more) : i \in 1..Len(list) \/ i = Len(list) + 1
  BY <1>1
<1>3. Named(more, n)
  BY <1>1, <1>2 DEF Named
<1> QED
  BY <1>3 DEF more

LEMMA NamedBoth ==
  ASSUME NEW n \in Nat, NEW a \in Seq(Trade), NEW b \in Seq(Trade),
         Named(a, n), Named(b, n)
  PROVE  Named(a \o b, n)
<1> DEFINE both == a \o b
<1>1. /\ Len(both) = Len(a) + Len(b) /\ Len(a) \in Nat /\ Len(b) \in Nat
      /\ \A i \in 1..Len(a) + Len(b) :
           both[i] = IF i <= Len(a) THEN a[i] ELSE b[i - Len(a)]
  BY ConcatProperties, LenProperties
<1> HIDE DEF both
<1>2. \A i \in 1..Len(both) :
        \/ i \in 1..Len(a) /\ both[i] = a[i]
        \/ i - Len(a) \in 1..Len(b) /\ both[i] = b[i - Len(a)]
  BY <1>1
<1>3. Named(both, n)
  BY <1>2 DEF Named
<1> QED
  BY <1>3 DEF both

-----------------------------------------------------------------------------
(***************************************************************************)
(* What a call returns is what it fills.                                   *)
(***************************************************************************)

\* The lists of the running call speak of orders that exist, and it has returned
\* nothing before its book is done.
ReportInv ==
  /\ Named(trades, Len(orders))
  /\ Named(executed, Len(orders))
  /\ stage = "adding" => executed = << >>

\* A step of the running call adds to its report what it fills, and an order it
\* creates is not filled yet.
FillsReported ==
  /\ Len(orders') \in Nat /\ Len(orders) <= Len(orders')
  /\ Reported' \in Seq(Trade) /\ Named(Reported', Len(orders))
  /\ \A id \in 1..Len(orders) :
       orders'[id].filledQuantity - orders[id].filledQuantity =
         TradedQuantity(id, Reported') - TradedQuantity(id, Reported)
  /\ \A id \in 1..Len(orders') :
       id > Len(orders) => orders'[id].filledQuantity = 0

LEMMA ReportedFacts ==
  ASSUME EngineInv, ReportInv
  PROVE  Reported \in Seq(Trade) /\ Named(Reported, Len(orders))
<1>1. trades \in Seq(Trade) /\ executed \in Seq(Trade) /\ Len(orders) \in Nat
  BY EngineFacts
<1>2. executed \o trades \in Seq(Trade) /\ Named(executed \o trades, Len(orders))
  BY <1>1, NamedBoth, ConcatProperties DEF ReportInv
<1> QED
  BY <1>1, <1>2 DEF Reported, ReportInv

\* An order a matching step creates is not filled yet.
LEMMA SliceIsUnfilled ==
  ASSUME EngineInv, MatchStep, NEW id \in 1..Len(orders'), id > Len(orders)
  PROVE  orders'[id].filledQuantity = 0
<1> DEFINE slice == NextSlice(Resting)
<1>1. /\ Inv /\ MoreToMatch /\ Len(orders) \in Nat
      /\ "FILLED" \in OrderStatus /\ "PARTIALLY_FILLED" \in OrderStatus
  BY EngineFacts
     DEF EngineInv, MatchStep, FillResting, CompleteResting, ReplenishResting,
         OrderStatus
<1>2. ASSUME NEW status \in OrderStatus
      PROVE  /\ OrdersAfterFill(status) \in Seq(Order)
             /\ Len(OrdersAfterFill(status)) = Len(orders)
  BY <1>1, ObjectsFilled
<1>3. CASE FillResting \/ CompleteResting
  <2>1. Len(orders') = Len(orders)
    BY <1>1, <1>2, <1>3 DEF FillResting, CompleteResting
  <2> QED
    BY <1>1, <2>1
<1>4. CASE ReplenishResting
  <2>1. /\ orders' = Append(OrdersAfterFill("FILLED"), slice)
        /\ Resting.type = "ICEBERG" /\ Resting.hiddenQty > 0
    BY <1>4 DEF ReplenishResting, HasHidden
  <2>2. Resting \in Order /\ OrderSound(Resting)
    BY <1>1, MatchFacts
  <2>3. slice \in Order /\ slice.filledQuantity = 0
    BY <2>1, <2>2, SliceFields DEF OrderSound
  <2> HIDE DEF slice
  <2>4. Len(orders') = Len(orders) + 1 /\ orders'[Len(orders) + 1] = slice
    BY <1>1, <1>2, <2>1, <2>3, OrderAppended
  <2> QED
    BY <1>1, <2>3, <2>4
<1> QED
  BY <1>3, <1>4 DEF MatchStep

LEMMA MatchReports ==
  ASSUME EngineInv, ReportInv, MatchStep, UNCHANGED <<registryVars, engineVars>>
  PROVE  FillsReported /\ ReportInv'
<1>1. /\ MoreToMatch /\ trades' = Append(trades, FillTrade) /\ Inv
      /\ \A id \in 1..Len(orders) : id \notin {incoming, RestingId} =>
           orders'[id].filledQuantity = orders[id].filledQuantity
      /\ orders'[incoming].filledQuantity = In.filledQuantity + FillQty
      /\ orders'[RestingId].filledQuantity = Resting.filledQuantity + FillQty
  BY MatchStepFills DEF EngineInv
<1>2. /\ Len(orders') \in Nat /\ Len(orders) <= Len(orders') /\ Len(orders) \in Nat
      /\ trades \in Seq(Trade) /\ executed \in Seq(Trade)
      /\ \A id \in 1..Len(orders) : orders[id] \in Order
  BY MatchObjects, EngineFacts
<1>3. /\ incoming \in 1..Len(orders) /\ RestingId \in 1..Len(orders)
      /\ FillQty \in Nat
  BY <1>1, MatchFacts
<1>4. /\ FillTrade \in Trade /\ FillTrade.quantity = FillQty
      /\ {FillTrade.buyOrderId, FillTrade.sellOrderId} = {incoming, RestingId}
  <2>1. Best.price \in Nat
    BY <1>1, MatchFacts, OrderFields
  <2> QED
    BY <1>3, <2>1 DEF FillTrade, Trade, OrderId
<1>5. /\ stage' = stage /\ executed' = executed /\ sweptOrder' = sweptOrder
      /\ stage = "adding" \/ sweptOrder # NoOrder
  BY <1>1 DEF engineVars, EngineInv, Stages, EngineTypeOK, MoreToMatch
<1>6. /\ Reported' = Append(Reported, FillTrade) /\ Reported \in Seq(Trade)
      /\ Named(Reported, Len(orders))
  <2>1. executed \o Append(trades, FillTrade) = Append(executed \o trades, FillTrade)
    BY <1>2, <1>4
  <2> QED
    BY <1>1, <1>5, <2>1, ReportedFacts DEF Reported
<1>7. /\ Reported' \in Seq(Trade) /\ Named(Reported', Len(orders))
      /\ Named(trades', Len(orders))
  <2>1. FillTrade.buyOrderId \in 1..Len(orders) /\ FillTrade.sellOrderId \in 1..Len(orders)
    BY <1>3, <1>4
  <2> QED
    BY <1>1, <1>2, <1>4, <1>6, <2>1, NamedAppended, AppendProperties DEF ReportInv
<1>8. \A id \in 1..Len(orders) :
        orders'[id].filledQuantity - orders[id].filledQuantity =
          TradedQuantity(id, Reported') - TradedQuantity(id, Reported)
  <2> SUFFICES ASSUME NEW id \in 1..Len(orders)
               PROVE  orders'[id].filledQuantity - orders[id].filledQuantity =
                        TradedQuantity(id, Reported') - TradedQuantity(id, Reported)
    OBVIOUS
  <2>1. /\ TradedQuantity(id, Reported') =
             TradedQuantity(id, Reported) + Share(id, FillTrade)
        /\ TradedQuantity(id, Reported) \in Nat
    BY <1>4, <1>6, TradedOfOneMore, TradedIsTotal
  <2>2. orders'[id].filledQuantity = orders[id].filledQuantity + Share(id, FillTrade)
    <3>1. orders[id].filledQuantity \in Nat
      BY <1>2, OrderFields
    <3>2. Share(id, FillTrade) = IF id \in {incoming, RestingId} THEN FillQty ELSE 0
      BY <1>4 DEF Share
    <3> QED
      BY <1>1, <3>1, <3>2 DEF In, Resting
  <2>3. orders[id].filledQuantity \in Nat /\ Share(id, FillTrade) \in Nat
    BY <1>2, <1>4, OrderFields, ShareType
  <2> QED
    BY <2>1, <2>2, <2>3
<1>9. FillsReported
  BY <1>2, <1>7, <1>8, SliceIsUnfilled DEF FillsReported
<1>10. ReportInv'
  BY <1>2, <1>5, <1>7, NamedAmongMore DEF ReportInv
<1> QED
  BY <1>9, <1>10

\* A step of the call that fills nothing.
LEMMA QuietStep ==
  ASSUME EngineInv, ReportInv, Len(orders') = Len(orders),
         \A id \in 1..Len(orders) :
           orders'[id].filledQuantity = orders[id].filledQuantity,
         \A id \in 1..Len(orders) :
           TradedQuantity(id, Reported') = TradedQuantity(id, Reported),
         Reported' \in Seq(Trade), Named(Reported', Len(orders)),
         Named(trades', Len(orders)), Named(executed', Len(orders)),
         stage' = "adding" => executed' = << >>
  PROVE  FillsReported /\ ReportInv'
<1>1. /\ Len(orders) \in Nat /\ Reported \in Seq(Trade)
      /\ \A id \in 1..Len(orders) : orders[id].filledQuantity \in Nat
  BY EngineFacts, ReportedFacts, OrderFields
<1>2. \A id \in 1..Len(orders) :
        orders'[id].filledQuantity - orders[id].filledQuantity =
          TradedQuantity(id, Reported') - TradedQuantity(id, Reported)
  BY <1>1, TradedIsTotal
<1> QED
  BY <1>1, <1>2 DEF FillsReported, ReportInv

LEMMA WorkReports ==
  ASSUME EngineInv, ReportInv, Work
  PROVE  FillsReported /\ ReportInv'
<1>1. /\ Len(orders) \in Nat /\ trades \in Seq(Trade) /\ executed \in Seq(Trade)
      /\ Reported \in Seq(Trade) /\ Named(Reported, Len(orders))
      /\ Stages /\ \A id \in 1..Len(orders) : orders[id] \in Order
      /\ Named(trades, Len(orders)) /\ Named(executed, Len(orders))
  BY EngineFacts, ReportedFacts DEF EngineInv, ReportInv
<1>2. CASE BookStep /\ MatchStep
  BY <1>2, MatchReports DEF BookStep
<1>3. CASE BookStep /\ Finish
  <2>1. /\ trades' = trades /\ Len(orders') = Len(orders)
        /\ stage' = stage /\ executed' = executed /\ sweptOrder' = sweptOrder
    BY <1>3, FinishObjects DEF BookStep, engineVars
  <2>2. \A id \in 1..Len(orders) :
          orders'[id].filledQuantity = orders[id].filledQuantity
    BY <1>3, FinishObjects DEF In
  <2>3. Reported' = Reported
    BY <2>1 DEF Reported
  <2> QED
    BY <1>1, <2>1, <2>2, <2>3, QuietStep DEF ReportInv
<1>4. CASE ReturnNoTrades
  <2>1. /\ orders' = orders /\ trades' = trades /\ executed' = executed
        /\ stage = "adding" /\ stage' = "idle" /\ sweptOrder' = sweptOrder
        /\ trades = << >> /\ executed = << >>
    BY <1>4 DEF ReturnNoTrades, bookVars, ReportInv
  <2>2. Reported' = Reported
    BY <1>1, <2>1 DEF Reported, Stages
  <2> QED
    BY <1>1, <2>1, <2>2, QuietStep
<1>5. CASE EvaluateTriggers
  <2>1. /\ trades' = trades /\ executed' = trades /\ stage = "adding"
        /\ stage' = "sweeping" /\ sweptOrder' = sweptOrder
        /\ orders' = [id \in 1..Len(orders) |->
                        IF \E o \in activated' : o.id = id
                        THEN Promoted(orders[id]) ELSE orders[id]]
    BY <1>5 DEF EvaluateTriggers
  <2>2. Reported' = Reported
    BY <1>1, <2>1 DEF Reported, Stages
  <2>3. \A id \in 1..Len(orders) :
          orders'[id].filledQuantity = orders[id].filledQuantity
    BY <1>1, <2>1, PromotedFields
  <2>4. Len(orders') = Len(orders)
    BY <1>1, <2>1
  <2> QED
    BY <1>1, <2>1, <2>2, <2>3, <2>4, QuietStep
<1>6. CASE SweepNext
  <2>1. /\ orders' = orders /\ trades' = << >> /\ executed' = executed
        /\ stage = "sweeping" /\ stage' = stage /\ sweptOrder = NoOrder
    BY <1>6 DEF SweepNext, MatchMarketOrder
  <2>2. executed \o << >> = executed
    BY <1>1
  <2>3. Reported' = Reported
    BY <2>1, <2>2 DEF Reported
  <2>4. Named(<< >>, Len(orders))
    BY DEF Named
  <2> QED
    BY <1>1, <2>1, <2>3, <2>4, QuietStep
<1>7. CASE EndSweep
  <2>1. /\ trades' = trades /\ executed' = executed \o trades
        /\ stage = "sweeping" /\ stage' = stage
        /\ sweptOrder # NoOrder /\ sweptOrder' = NoOrder
        /\ orders' = [orders EXCEPT ![sweptOrder].status =
                                       SweptStatus(orders[sweptOrder])]
    BY <1>1, <1>7 DEF EndSweep, Stages
  <2>2. Reported' = Reported /\ executed' = Reported
    BY <2>1 DEF Reported
  <2>3. /\ orders \in Seq(Order) /\ sweptOrder \in 1..Len(orders)
        /\ DOMAIN orders = 1..Len(orders)
    BY <2>1, EngineFacts, LenProperties DEF NoOrder
  <2>4. \A id \in 1..Len(orders) :
          orders'[id].filledQuantity = orders[id].filledQuantity
    BY <1>1, <2>1, <2>3 DEF Order
  <2>5. Len(orders') = Len(orders)
    <3>1. DOMAIN orders' = 1..Len(orders)
      BY <2>1, <2>3
    <3>2. Len(orders') \in Nat /\ DOMAIN orders' = 1..Len(orders')
      <4>1. EngineInv'
        BY <1>7, EndSweepStep
      <4> QED
        BY <4>1, LenProperties DEF EngineInv, EngineTypeOK, TypeOK
    <3> QED
      BY <1>1, <3>1, <3>2
  <2> QED
    BY <1>1, <2>1, <2>2, <2>4, <2>5, QuietStep
<1>8. CASE ReturnTrades
  <2>1. /\ orders' = orders /\ trades' = trades /\ executed' = executed
        /\ stage = "sweeping" /\ stage' = "idle"
        /\ sweptOrder = NoOrder /\ sweptOrder' = NoOrder
    BY <1>8 DEF ReturnTrades, bookVars
  <2>2. Reported' = Reported
    BY <2>1 DEF Reported
  <2> QED
    BY <1>1, <2>1, <2>2, QuietStep
<1> QED
  BY <1>2, <1>3, <1>4, <1>5, <1>6, <1>7, <1>8 DEF Work, BookStep

\* A call that starts reports nothing yet, and what it creates is not filled.
StartsEmpty ==
  /\ Len(orders') = Len(orders) + 1
  /\ \A id \in 1..Len(orders) : orders'[id] = orders[id]
  /\ orders'[NewId].filledQuantity = 0
  /\ Reported' = << >>

LEMMA SubmitToBookReports ==
  ASSUME EngineInv, ReportInv, NEW r \in Request, Rests(r) => r.price > 0,
         SubmitToBook(r)
  PROVE  StartsEmpty /\ ReportInv'
<1> DEFINE o == CreateOrder(r)
<1>1. /\ o \in Order /\ o.filledQuantity = 0 /\ o.status = "PENDING"
      /\ o.type = r.type /\ o.price = r.price
  BY CreatedOrder DEF CreateOrder
<1>2. /\ EngineIdle /\ ~ IsStop(r) /\ AddOrder(o) /\ stage' = "adding"
      /\ executed' = << >>
  BY DEF SubmitToBook
<1>3. /\ trades' = << >> /\ Len(orders') = Len(orders) + 1
      /\ \A x \in 1..Len(orders) : orders'[x] = orders[x]
  <2> HIDE DEF o
  <2>1. ~ IsStop(o) /\ (Rests(o) => o.price > 0)
    BY <1>1, <1>2 DEF IsStop, Rests
  <2> QED
    BY <1>1, <1>2, <2>1, AddObjects
<1>4. orders'[NewId].filledQuantity = 0
  <2> DEFINE display == DefaultDisplay(o.displayQty, o.quantity, One)
             whole == [o EXCEPT !.displayQty = display, !.hiddenQty = o.quantity]
             slice == NextSlice(whole)
  <2>1. orders \in Seq(Order) /\ Len(orders) \in Nat
    BY EngineFacts
  <2>2. CASE StartMatching(o)
    <3>1. orders' = Append(orders, o)
      BY <2>2 DEF StartMatching
    <3> HIDE DEF o
    <3> QED
      BY <1>1, <2>1, <3>1, OrderAppended DEF NewId
  <2>3. CASE RejectFillOrKill(o)
    <3>1. orders' = Append(orders, WithStatus(o, "CANCELLED"))
      BY <2>3 DEF RejectFillOrKill, WithStatus
    <3>2. "CANCELLED" \in OrderStatus
      BY DEF OrderStatus
    <3> HIDE DEF o
    <3> QED
      BY <1>1, <2>1, <3>1, <3>2, StatusSet, OrderAppended DEF NewId
  <2>4. CASE AddIceberg(o)
    <3>1. orders' = Append(orders, slice)
      BY <2>4 DEF AddIceberg
    <3>2. display \in Nat \ {0}
      BY <1>1, DisplayIsPositive
    <3> HIDE DEF display, o
    <3>3. whole \in Order /\ whole.displayQty > 0 /\ whole.hiddenQty > 0
      BY <1>1, <3>2, IcebergPrepared
    <3> HIDE DEF whole
    <3>4. slice \in Order /\ slice.filledQuantity = 0
      BY <3>3, SliceFields
    <3> HIDE DEF slice
    <3> QED
      BY <2>1, <3>1, <3>4, OrderAppended DEF NewId
  <2> QED
    BY <1>2, <2>2, <2>3, <2>4 DEF AddOrder
<1>5. ReportInv' /\ Reported' = << >>
  BY <1>2, <1>3 DEF ReportInv, Reported, Named
<1> QED
  BY <1>3, <1>4, <1>5 DEF StartsEmpty

LEMMA SubmitStopReports ==
  ASSUME EngineInv, ReportInv, NEW r \in Request, NEW stop, NEW delta,
         SubmitStop(r, stop, delta)
  PROVE  StartsEmpty /\ ReportInv'
<1> DEFINE o == CreateOrder(r)
<1>1. o \in Order /\ o.filledQuantity = 0
  BY CreatedOrder
<1>2. /\ orders' = Append(orders, o) /\ executed' = << >> /\ trades' = trades
      /\ stage = "idle" /\ stage' = "idle" /\ sweptOrder' = sweptOrder
  BY DEF SubmitStop, HoldStop, EngineIdle
<1> HIDE DEF o
<1>3. /\ Len(orders') = Len(orders) + 1
      /\ \A id \in 1..Len(orders) : orders'[id] = orders[id]
      /\ orders'[NewId] = o /\ Len(orders) \in Nat
  BY <1>1, <1>2, OrderAppended, EngineFacts DEF NewId
<1>4. sweptOrder = NoOrder
  BY <1>2 DEF EngineInv, Stages
<1>5. Named(trades', Len(orders')) /\ Named(<< >>, Len(orders'))
  BY <1>2, <1>3 DEF ReportInv, Named
<1> QED
  BY <1>1, <1>2, <1>3, <1>4, <1>5 DEF StartsEmpty, ReportInv, Reported

LEMMA CancelReports ==
  ASSUME EngineInv, ReportInv, NEW id \in 1..Len(orders), EngineCancel(id)
  PROVE  /\ ReportInv' /\ Len(orders') = Len(orders) /\ EngineIdle /\ EngineIdle'
         /\ \A x \in 1..Len(orders) :
              orders'[x].filledQuantity = orders[x].filledQuantity
<1>1. /\ orders' = [orders EXCEPT ![id].status = "CANCELLED"] /\ trades' = trades
      /\ executed' = << >> /\ EngineIdle /\ stage' = stage
  BY DEF EngineCancel, CancelOrder
<1>2. /\ orders \in Seq(Order) /\ DOMAIN orders = 1..Len(orders)
      /\ \A x \in 1..Len(orders) : orders[x] \in Order
      /\ Len(orders) \in Nat
  BY EngineFacts, LenProperties
<1>3. \A x \in 1..Len(orders) :
        orders'[x].filledQuantity = orders[x].filledQuantity
  BY <1>1, <1>2 DEF Order
<1>4. Len(orders') = Len(orders)
  <2>1. EngineInv'
    BY CancelEngineStep
  <2>2. orders' \in Seq(Order)
    BY <2>1 DEF EngineInv, EngineTypeOK, TypeOK
  <2>3. DOMAIN orders' = 1..Len(orders') /\ Len(orders') \in Nat
    BY <2>2, LenProperties
  <2> QED
    BY <1>1, <1>2, <2>3
<1> QED
  BY <1>1, <1>3, <1>4 DEF ReportInv, Named, EngineIdle

LEMMA ReportInvStep ==
  EngineInv /\ ReportInv /\ [EngineNext]_allVars => ReportInv'
<1> SUFFICES ASSUME EngineInv, ReportInv, [EngineNext]_allVars PROVE ReportInv'
  OBVIOUS
<1>1. CASE EngineSubmit
  <2>1. PICK r \in Requests :
          \/ SubmitToBook(r)
          \/ \E stop \in StopPrices, delta \in Deltas : SubmitStop(r, stop, delta)
    BY <1>1 DEF EngineSubmit
  <2>2. r \in Request /\ (Rests(r) => r.price > 0)
    BY BookAssumption, EngineAssumption DEF Rests
  <2> QED
    BY <2>1, <2>2, SubmitToBookReports, SubmitStopReports
<1>2. CASE UNCHANGED allVars
  BY <1>2 DEF allVars, bookVars, engineVars, ReportInv, Named
<1> QED
  BY <1>1, <1>2, WorkReports, CancelReports DEF EngineNext

\* What submitOrder returns is what it has filled: while a call runs, every fill
\* of every order is one more entry of the list it will return.
THEOREM CallsReportEveryFill == EngineSpec => CallReportsEveryFill
<1>1. EngineInit => ReportInv
  BY DEF EngineInit, Init, ReportInv, Named
<1>2. ASSUME EngineInv, ReportInv, [EngineNext]_allVars, ~ EngineIdle,
             NEW id \in 1..Len(orders)
      PROVE  orders'[id].filledQuantity - orders[id].filledQuantity =
               TradedQuantity(id, Reported') - TradedQuantity(id, Reported)
  <2>1. CASE Work
    BY <1>2, <2>1, WorkReports DEF FillsReported
  <2>2. CASE UNCHANGED allVars
    <3>1. orders' = orders /\ Reported' = Reported
      BY <2>2 DEF allVars, bookVars, engineVars, Reported
    <3>2. orders[id].filledQuantity \in Nat /\ TradedQuantity(id, Reported) \in Nat
      BY <1>2, EngineFacts, OrderFields, ReportedFacts, TradedIsTotal
    <3> QED
      BY <3>1, <3>2
  <2>3. ~ EngineSubmit /\ ~ \E x \in 1..Len(orders) : EngineCancel(x)
    BY <1>2 DEF EngineSubmit, SubmitToBook, SubmitStop, EngineCancel
  <2> QED
    BY <1>2, <2>1, <2>2, <2>3 DEF EngineNext
<1>3. EngineInv /\ ReportInv /\ [EngineNext]_allVars =>
        [~ EngineIdle =>
           \A id \in 1..Len(orders) :
             orders'[id].filledQuantity - orders[id].filledQuantity =
               TradedQuantity(id, Reported') - TradedQuantity(id, Reported)]_allVars
  BY <1>2
<1> QED
  BY <1>1, <1>3, ReportInvStep, EngineInvariance, PTL
     DEF EngineSpec, CallReportsEveryFill
=============================================================================
