----------------------- MODULE TriggerRegistryProofs -----------------------
(***************************************************************************)
(* Proofs about the trigger registry, for any symbols, prices and deltas.  *)
(***************************************************************************)
EXTENDS TriggerRegistry, TLAPS

(***************************************************************************)
(* What the registry computes for one order.                               *)
(***************************************************************************)

\* A mark that has seen a price is a price.
LEMMA MarksArePrices ==
  ASSUME NEW mark \in Nat, NEW price \in Nat \ {0}
  PROVE  /\ HigherMark(mark, price) \in Nat \ {0}
         /\ LowerMark(mark, price) \in Nat \ {0}
         /\ price <= HigherMark(mark, price)
         /\ LowerMark(mark, price) <= price
  BY DEF HigherMark, LowerMark, NoMark

\* The trailed stop has moved the way it may, and it is no further from the mark
\* than the delta.
LEMMA TrailedStopProperties ==
  ASSUME NEW o \in StopOrder, NEW high \in Nat \ {0}, NEW low \in Nat \ {0}
  PROVE  /\ TrailedStop(o, high, low) \in Int
         /\ o.side = "SELL" => TrailedStop(o, high, low) >= o.stopPrice
         /\ o.side = "BUY" => TrailedStop(o, high, low) <= o.stopPrice
         /\ o.type = "STOP_LOSS" => TrailedStop(o, high, low) = o.stopPrice
         /\ o.type = "TRAILING_STOP" /\ o.trailingDelta # NoDelta =>
              IF o.side = "SELL"
              THEN high - TrailedStop(o, high, low) <= o.trailingDelta
              ELSE TrailedStop(o, high, low) - low <= o.trailingDelta
<1>1. /\ o.stopPrice \in Int
      /\ o.trailingDelta # NoDelta => o.trailingDelta \in Int
      /\ o.side \in {"BUY", "SELL"}
      /\ o.type \in {"STOP_LOSS", "TRAILING_STOP"}
  BY DEF StopOrder, Side
<1>2. CASE o.type = "TRAILING_STOP" /\ o.trailingDelta # NoDelta
  BY <1>1, <1>2 DEF TrailedStop
<1>3. CASE ~ (o.type = "TRAILING_STOP" /\ o.trailingDelta # NoDelta)
  <2>1. TrailedStop(o, high, low) = o.stopPrice
    BY <1>3 DEF TrailedStop
  <2> QED
    BY <1>1, <1>3, <2>1
<1> QED
  BY <1>2, <1>3

\* The order with its stop trailed, as onTradeTick stores it.
Trailed(o, high, low) == [o EXCEPT !.stopPrice = TrailedStop(o, high, low)]

LEMMA TrailedProperties ==
  ASSUME NEW o \in StopOrder, NEW high \in Nat \ {0}, NEW low \in Nat \ {0}
  PROVE  /\ Trailed(o, high, low) \in StopOrder
         /\ Trailed(o, high, low).id = o.id
         /\ Trailed(o, high, low).side = o.side
         /\ Trailed(o, high, low).type = o.type
         /\ Trailed(o, high, low).trailingDelta = o.trailingDelta
         /\ Trailed(o, high, low).stopPrice = TrailedStop(o, high, low)
<1>1. /\ TrailedStop(o, high, low) \in Int
      /\ o.side = "SELL" => TrailedStop(o, high, low) >= o.stopPrice
  BY TrailedStopProperties
<1>2. o.side = "SELL" => TrailedStop(o, high, low) > 0
  BY <1>1 DEF StopOrder
<1> QED
  BY <1>1, <1>2 DEF Trailed, StopOrder

\* onTradeTick on a symbol with something registered, with names for its marks.
LEMMA TickEffect ==
  ASSUME TypeOK, NEW symbol \in Symbols, NEW price \in Nat \ {0},
         OnTradeTick(symbol, price), pending[symbol] # {}
  PROVE  \E high, low \in Nat \ {0} :
           /\ price <= high /\ low <= price
           /\ high = HigherMark(highWaterSell[symbol], price)
           /\ low = LowerMark(highWaterBuy[symbol], price)
           /\ highWaterSell' = [highWaterSell EXCEPT ![symbol] = high]
           /\ highWaterBuy' = [highWaterBuy EXCEPT ![symbol] = low]
           /\ activated' = {o \in {Trailed(p, high, low) : p \in pending[symbol]} :
                              ShouldTrigger(o, price)}
           /\ pending' = [pending EXCEPT ![symbol] =
                            {Trailed(p, high, low) : p \in pending[symbol]}
                              \ activated']
<1> DEFINE high == HigherMark(highWaterSell[symbol], price)
           low == LowerMark(highWaterBuy[symbol], price)
<1>1. highWaterSell[symbol] \in Nat /\ highWaterBuy[symbol] \in Nat
  BY DEF TypeOK
<1>2. /\ high \in Nat \ {0} /\ low \in Nat \ {0}
      /\ price <= high /\ low <= price
  BY <1>1, MarksArePrices
<1>3. /\ highWaterSell' = [highWaterSell EXCEPT ![symbol] = high]
      /\ highWaterBuy' = [highWaterBuy EXCEPT ![symbol] = low]
      /\ activated' = {o \in {Trailed(p, high, low) : p \in pending[symbol]} :
                         ShouldTrigger(o, price)}
      /\ pending' = [pending EXCEPT ![symbol] =
                       {Trailed(p, high, low) : p \in pending[symbol]}
                         \ activated']
  BY Zenon DEF OnTradeTick, Trailed
<1> QED
  BY <1>2, <1>3

(***************************************************************************)
(* Type correctness.                                                       *)
(***************************************************************************)
LEMMA TypeStep == TypeOK /\ [Next]_vars => TypeOK'
<1> SUFFICES ASSUME TypeOK, [Next]_vars PROVE TypeOK'
  OBVIOUS
<1> USE RegistryAssumption
<1>1. CASE RegisterNew
  <2>1. PICK symbol \in Symbols, side \in Side, stop \in StopPrices, d \in Deltas,
             type \in {"STOP_LOSS", "TRAILING_STOP"} :
          Register(symbol, [id |-> lastId + 1, side |-> side, type |-> type,
                            stopPrice |-> stop, trailingDelta |-> d])
    BY <1>1 DEF RegisterNew
  <2>2. [id |-> lastId + 1, side |-> side, type |-> type, stopPrice |-> stop,
         trailingDelta |-> d] \in StopOrder
    BY DEF StopOrder, TypeOK
  <2> QED
    BY <1>1, <2>1, <2>2 DEF TypeOK, RegisterNew, Register
<1>2. CASE CancelAny
  BY <1>2 DEF TypeOK, CancelAny, CancelStop
<1>3. CASE Tick
  <2>1. PICK symbol \in Symbols, price \in Nat \ {0} :
          /\ OnTradeTick(symbol, price)
          /\ seen' = IF pending[symbol] = {} THEN seen
                     ELSE [seen EXCEPT ![symbol] = @ \union {price}]
    BY <1>3 DEF Tick
  <2>2. lastId' = lastId /\ seen' \in [Symbols -> SUBSET (Nat \ {0})]
    BY <1>3, <2>1 DEF Tick, TypeOK
  <2>3. CASE pending[symbol] = {}
    BY <2>1, <2>2, <2>3 DEF OnTradeTick, TypeOK
  <2>4. CASE pending[symbol] # {}
    <3>1. PICK high \in Nat \ {0}, low \in Nat \ {0} :
             /\ highWaterSell' = [highWaterSell EXCEPT ![symbol] = high]
             /\ highWaterBuy' = [highWaterBuy EXCEPT ![symbol] = low]
             /\ activated' = {o \in {Trailed(p, high, low) : p \in pending[symbol]} :
                                ShouldTrigger(o, price)}
             /\ pending' = [pending EXCEPT ![symbol] =
                              {Trailed(p, high, low) : p \in pending[symbol]}
                                \ activated']
      BY <2>1, <2>4, TickEffect
    <3>2. \A p \in pending[symbol] : Trailed(p, high, low) \in StopOrder
      BY TrailedProperties DEF TypeOK
    <3> QED
      BY <2>2, <3>1, <3>2 DEF TypeOK
  <2> QED
    BY <2>3, <2>4
<1>4. CASE UNCHANGED vars
  BY <1>4 DEF TypeOK, vars
<1> QED
  BY <1>1, <1>2, <1>3, <1>4 DEF Next

\* The registry holds only well-formed orders, whatever their deltas, and the marks
\* of a symbol are prices or not set.
THEOREM TypeCorrect == Spec => []TypeOK
<1>1. Init => TypeOK
  BY DEF Init, TypeOK, NoMark
<1> QED
  BY <1>1, TypeStep, PTL DEF Spec

(***************************************************************************)
(* The inductive invariant.  RegisteredOnce needs the order of the ids to  *)
(* know that a new order is new, and both need the types.                  *)
(***************************************************************************)
Inv == TypeOK /\ RegisteredOnce /\ MarksEnclose

Waiting == UNION {pending[symbol] : symbol \in Symbols}

LEMMA RegisteredOnceStep == Inv /\ [Next]_vars => RegisteredOnce'
<1> SUFFICES ASSUME Inv, [Next]_vars PROVE RegisteredOnce'
  OBVIOUS
<1> USE RegistryAssumption
<1>1. CASE RegisterNew
  <2>1. PICK symbol \in Symbols, o \in StopOrder :
          /\ o.id = lastId + 1
          /\ pending' = [pending EXCEPT ![symbol] = @ \union {o}]
    <3>1. PICK symbol \in Symbols, side \in Side, stop \in StopPrices,
               d \in Deltas, type \in {"STOP_LOSS", "TRAILING_STOP"} :
            Register(symbol, [id |-> lastId + 1, side |-> side, type |-> type,
                              stopPrice |-> stop, trailingDelta |-> d])
      BY <1>1 DEF RegisterNew
    <3>2. [id |-> lastId + 1, side |-> side, type |-> type, stopPrice |-> stop,
           trailingDelta |-> d] \in StopOrder
      BY DEF StopOrder, Inv, TypeOK
    <3> QED
      BY <3>1, <3>2 DEF Register
  <2>2. lastId' = lastId + 1 /\ activated' = activated
    BY <1>1 DEF RegisterNew
  <2>3. \A p \in Waiting \union activated : p.id \in Nat /\ p.id <= lastId
    BY DEF Inv, RegisteredOnce, Waiting, TypeOK, StopOrder
  <2>4. Waiting' = Waiting \union {o}
    BY <2>1 DEF Waiting, Inv, TypeOK
  <2>5. \A p, q \in Waiting \union activated : p.id = q.id => p = q
    BY DEF Inv, RegisteredOnce, Waiting
  <2>6. o \notin Waiting \union activated /\ lastId \in Nat
    BY <2>1, <2>3 DEF Inv, TypeOK
  <2>7. \A p, q \in Waiting' \union activated' : p.id = q.id => p = q
    BY <2>1, <2>2, <2>3, <2>4, <2>5, <2>6
  <2>8. \A s, t \in Symbols : s # t => pending'[s] \intersect pending'[t] = {}
    BY <2>1, <2>6 DEF Inv, RegisteredOnce, TypeOK, Waiting
  <2>9. Waiting' \intersect activated' = {}
    BY <2>2, <2>4, <2>6 DEF Inv, RegisteredOnce, Waiting
  <2>10. \A p \in Waiting' \union activated' : p.id <= lastId'
    BY <2>1, <2>2, <2>3, <2>4, <2>6
  <2> QED
    BY <2>7, <2>8, <2>9, <2>10 DEF RegisteredOnce, Waiting
<1>2. CASE CancelAny
  <2>1. activated' = activated /\ lastId' = lastId
    BY <1>2 DEF CancelAny
  <2>2. \A symbol \in Symbols : pending'[symbol] \subseteq pending[symbol]
    BY <1>2 DEF CancelAny, CancelStop, Inv, TypeOK
  <2> QED
    BY <2>1, <2>2 DEF Inv, RegisteredOnce
<1>3. CASE Tick
  <2>1. PICK symbol \in Symbols, price \in Nat \ {0} : OnTradeTick(symbol, price)
    BY <1>3 DEF Tick
  <2>2. lastId' = lastId
    BY <1>3 DEF Tick
  <2>3. CASE pending[symbol] = {}
    BY <2>1, <2>2, <2>3 DEF OnTradeTick, Inv, RegisteredOnce
  <2>4. CASE pending[symbol] # {}
    <3>1. PICK high \in Nat \ {0}, low \in Nat \ {0} :
             /\ activated' = {o \in {Trailed(p, high, low) : p \in pending[symbol]} :
                                ShouldTrigger(o, price)}
             /\ pending' = [pending EXCEPT ![symbol] =
                              {Trailed(p, high, low) : p \in pending[symbol]}
                                \ activated']
      BY <2>1, <2>4, TickEffect DEF Inv
    <3> DEFINE image == {Trailed(p, high, low) : p \in pending[symbol]}
    <3>2. \A p \in pending[symbol] : Trailed(p, high, low).id = p.id
      BY TrailedProperties DEF Inv, TypeOK
    <3>3. /\ pending'[symbol] \subseteq image
          /\ pending'[symbol] \intersect activated' = {}
          /\ activated' \subseteq image
          /\ \A other \in Symbols \ {symbol} : pending'[other] = pending[other]
      BY <3>1 DEF Inv, TypeOK
    <3>4. /\ \A p, q \in Waiting : p.id = q.id => p = q
          /\ \A p \in Waiting : p.id <= lastId
          /\ \A s, t \in Symbols : s # t => pending[s] \intersect pending[t] = {}
          /\ \A s \in Symbols : pending[s] \subseteq Waiting
      BY DEF Inv, RegisteredOnce, Waiting
    <3>5. \A p, q \in image : p.id = q.id => p = q
      BY <3>2, <3>4
    <3>6. \A p \in image : \A other \in Symbols \ {symbol} :
            \A q \in pending[other] : p.id # q.id
      BY <3>2, <3>4
    <3>7. \A p \in image : p.id <= lastId
      BY <3>2, <3>4
    <3> HIDE DEF image
    <3>8. \A p \in Waiting' \union activated' :
            \/ p \in image
            \/ \E other \in Symbols \ {symbol} : p \in pending[other]
      BY <3>3 DEF Waiting
    <3>9. \A p, q \in Waiting' \union activated' : p.id = q.id => p = q
      BY <3>4, <3>5, <3>6, <3>8
    <3>10. \A s, t \in Symbols : s # t => pending'[s] \intersect pending'[t] = {}
      BY <3>3, <3>4, <3>6
    <3>11. Waiting' \intersect activated' = {}
      BY <3>3, <3>6 DEF Waiting
    <3>12. \A p \in Waiting' \union activated' : p.id <= lastId'
      BY <2>2, <3>4, <3>7, <3>8
    <3> QED
      BY <3>9, <3>10, <3>11, <3>12 DEF RegisteredOnce, Waiting
  <2> QED
    BY <2>3, <2>4
<1>4. CASE UNCHANGED vars
  BY <1>4 DEF Inv, RegisteredOnce, vars
<1> QED
  BY <1>1, <1>2, <1>3, <1>4 DEF Next

\* One mark that is among the prices seen and bounds them, after one price more.
LEMMA MarksFollow ==
  ASSUME NEW prices \in SUBSET (Nat \ {0}), NEW price \in Nat \ {0},
         NEW low \in Nat, NEW high \in Nat,
         IF prices = {} THEN low = NoMark /\ high = NoMark
         ELSE /\ low \in prices /\ high \in prices
              /\ \A p \in prices : low <= p /\ p <= high
  PROVE  /\ LowerMark(low, price) \in prices \union {price}
         /\ HigherMark(high, price) \in prices \union {price}
         /\ \A p \in prices \union {price} :
              LowerMark(low, price) <= p /\ p <= HigherMark(high, price)
<1>1. CASE prices = {}
  BY <1>1 DEF LowerMark, HigherMark, NoMark
<1>2. CASE prices # {}
  <2>1. low # NoMark /\ high # NoMark /\ low <= high
    BY <1>2 DEF NoMark
  <2> QED
    BY <1>2, <2>1 DEF LowerMark, HigherMark
<1> QED
  BY <1>1, <1>2

LEMMA MarksEncloseStep == Inv /\ [Next]_vars => MarksEnclose'
<1> SUFFICES ASSUME Inv, [Next]_vars PROVE MarksEnclose'
  OBVIOUS
<1>1. CASE Tick
  <2>1. PICK symbol \in Symbols, price \in Nat \ {0} :
          /\ OnTradeTick(symbol, price)
          /\ seen' = IF pending[symbol] = {} THEN seen
                     ELSE [seen EXCEPT ![symbol] = @ \union {price}]
    BY <1>1, RegistryAssumption DEF Tick
  <2>2. CASE pending[symbol] = {}
    BY <2>1, <2>2 DEF OnTradeTick, Inv, MarksEnclose
  <2>3. CASE pending[symbol] # {}
    <3>1. PICK high \in Nat \ {0}, low \in Nat \ {0} :
             /\ high = HigherMark(highWaterSell[symbol], price)
             /\ low = LowerMark(highWaterBuy[symbol], price)
             /\ highWaterSell' = [highWaterSell EXCEPT ![symbol] = high]
             /\ highWaterBuy' = [highWaterBuy EXCEPT ![symbol] = low]
      BY <2>1, <2>3, TickEffect DEF Inv
    <3>2. /\ seen[symbol] \in SUBSET (Nat \ {0})
          /\ highWaterBuy[symbol] \in Nat /\ highWaterSell[symbol] \in Nat
      BY DEF Inv, TypeOK
    <3>3. IF seen[symbol] = {}
          THEN highWaterBuy[symbol] = NoMark /\ highWaterSell[symbol] = NoMark
          ELSE /\ highWaterBuy[symbol] \in seen[symbol]
               /\ highWaterSell[symbol] \in seen[symbol]
               /\ \A p \in seen[symbol] :
                    highWaterBuy[symbol] <= p /\ p <= highWaterSell[symbol]
      BY DEF Inv, MarksEnclose
    <3>4. /\ low \in seen[symbol] \union {price}
          /\ high \in seen[symbol] \union {price}
          /\ \A p \in seen[symbol] \union {price} : low <= p /\ p <= high
      <4>1. PICK prices, l, h : /\ prices = seen[symbol]
                                /\ l = highWaterBuy[symbol]
                                /\ h = highWaterSell[symbol]
        OBVIOUS
      <4>2. /\ prices \in SUBSET (Nat \ {0}) /\ l \in Nat /\ h \in Nat
            /\ IF prices = {} THEN l = NoMark /\ h = NoMark
               ELSE /\ l \in prices /\ h \in prices
                    /\ \A p \in prices : l <= p /\ p <= h
        BY <3>2, <3>3, <4>1
      <4>3. /\ LowerMark(l, price) \in prices \union {price}
            /\ HigherMark(h, price) \in prices \union {price}
            /\ \A p \in prices \union {price} :
                 LowerMark(l, price) <= p /\ p <= HigherMark(h, price)
        BY <4>2, MarksFollow
      <4> QED
        BY <3>1, <4>1, <4>3
    <3>5. /\ seen'[symbol] = seen[symbol] \union {price}
          /\ highWaterBuy'[symbol] = low
          /\ highWaterSell'[symbol] = high
          /\ \A other \in Symbols \ {symbol} :
               /\ seen'[other] = seen[other]
               /\ highWaterBuy'[other] = highWaterBuy[other]
               /\ highWaterSell'[other] = highWaterSell[other]
      BY <2>1, <2>3, <3>1 DEF Inv, TypeOK
    <3> QED
      BY <3>4, <3>5 DEF Inv, MarksEnclose
  <2> QED
    BY <2>2, <2>3
<1>2. CASE UNCHANGED <<highWaterBuy, highWaterSell, seen>>
  BY <1>2 DEF Inv, MarksEnclose
<1>3. ~ Tick => UNCHANGED <<highWaterBuy, highWaterSell, seen>>
  BY DEF Next, RegisterNew, Register, CancelAny, CancelStop, vars
<1> QED
  BY <1>1, <1>2, <1>3

LEMMA Invariance == Spec => []Inv
<1>1. Init => Inv
  BY DEF Init, Inv, TypeOK, RegisteredOnce, MarksEnclose, NoMark
<1>2. Inv /\ [Next]_vars => Inv'
  BY TypeStep, RegisteredOnceStep, MarksEncloseStep DEF Inv
<1> QED
  BY <1>1, <1>2, PTL DEF Spec

\* No stop order ever waits twice, under two symbols, or after it was handed to
\* the engine to run.
THEOREM RegisteredOnceCorrect == Spec => []RegisteredOnce
  BY Invariance, PTL DEF Inv

\* At every moment the marks of a symbol are the lowest and the highest of all the
\* prices its ticks have ever been evaluated at, and unset when there were none.
THEOREM MarksEncloseCorrect == Spec => []MarksEnclose
  BY Invariance, PTL DEF Inv

(***************************************************************************)
(* What a tick may and may not do.                                         *)
(***************************************************************************)
LEMMA NothingDueStep ==
  ASSUME TypeOK, NEW symbol \in Symbols, NEW price \in TickPrices,
         OnTradeTick(symbol, price), NEW o \in pending'[symbol]
  PROVE  /\ ~ ShouldTrigger(o, price)
         /\ o.type = "TRAILING_STOP" /\ o.trailingDelta # NoDelta =>
              IF o.side = "SELL"
              THEN highWaterSell'[symbol] - o.stopPrice <= o.trailingDelta
              ELSE o.stopPrice - highWaterBuy'[symbol] <= o.trailingDelta
<1>1. price \in Nat \ {0}
  BY RegistryAssumption
<1>2. pending[symbol] # {}
  BY DEF OnTradeTick
<1>3. PICK high \in Nat \ {0}, low \in Nat \ {0} :
         /\ highWaterSell' = [highWaterSell EXCEPT ![symbol] = high]
         /\ highWaterBuy' = [highWaterBuy EXCEPT ![symbol] = low]
         /\ activated' = {q \in {Trailed(p, high, low) : p \in pending[symbol]} :
                            ShouldTrigger(q, price)}
         /\ pending' = [pending EXCEPT ![symbol] =
                          {Trailed(p, high, low) : p \in pending[symbol]}
                            \ activated']
  BY <1>1, <1>2, TickEffect
<1>4. /\ highWaterSell'[symbol] = high
      /\ highWaterBuy'[symbol] = low
      /\ pending'[symbol] = {Trailed(p, high, low) : p \in pending[symbol]}
                              \ activated'
  BY <1>3 DEF TypeOK
<1>5. ~ ShouldTrigger(o, price)
  BY <1>3, <1>4
<1>6. PICK p \in pending[symbol] : o = Trailed(p, high, low)
  BY <1>4
<1>7. p \in StopOrder
  BY DEF TypeOK
<1>8. /\ o.side = p.side
      /\ o.type = p.type
      /\ o.trailingDelta = p.trailingDelta
      /\ o.stopPrice = TrailedStop(p, high, low)
  BY <1>6, <1>7, TrailedProperties
<1> QED
  BY <1>4, <1>5, <1>7, <1>8, TrailedStopProperties

\* After a tick nothing waits that the tick should have fired, and every trailing
\* stop is within its delta of the mark it trails.
THEOREM NothingDueCorrect == Spec => TickLeavesNothingDue
<1>1. TypeOK /\ [Next]_vars =>
        [\A symbol \in Symbols, price \in TickPrices :
           OnTradeTick(symbol, price) =>
             \A o \in pending'[symbol] :
               /\ ~ ShouldTrigger(o, price)
               /\ o.type = "TRAILING_STOP" /\ o.trailingDelta # NoDelta =>
                    IF o.side = "SELL"
                    THEN highWaterSell'[symbol] - o.stopPrice <= o.trailingDelta
                    ELSE o.stopPrice - highWaterBuy'[symbol] <= o.trailingDelta]_vars
  BY NothingDueStep
<1> QED
  BY <1>1, TypeCorrect, PTL DEF Spec, TickLeavesNothingDue

LEMMA LosesNoOrderStep ==
  ASSUME Inv, NEW symbol \in Symbols, NEW price \in TickPrices,
         OnTradeTick(symbol, price)
  PROVE  /\ Ids(pending[symbol]) = Ids(pending'[symbol] \union activated')
         /\ Ids(pending'[symbol]) \intersect Ids(activated') = {}
         /\ \A other \in Symbols \ {symbol} : pending'[other] = pending[other]
<1>1. price \in Nat \ {0} /\ TypeOK
  BY RegistryAssumption DEF Inv
<1>2. CASE pending[symbol] = {}
  BY <1>2 DEF OnTradeTick, Ids
<1>3. CASE pending[symbol] # {}
  <2>1. PICK high \in Nat \ {0}, low \in Nat \ {0} :
           /\ activated' = {q \in {Trailed(p, high, low) : p \in pending[symbol]} :
                              ShouldTrigger(q, price)}
           /\ pending' = [pending EXCEPT ![symbol] =
                            {Trailed(p, high, low) : p \in pending[symbol]}
                              \ activated']
    BY <1>1, <1>3, TickEffect
  <2>2. \A p \in pending[symbol] : Trailed(p, high, low).id = p.id
    BY <1>1, TrailedProperties DEF TypeOK
  <2>3. \A p, q \in pending[symbol] : p.id = q.id => p = q
    BY DEF Inv, RegisteredOnce
  <2>4. /\ pending'[symbol] = {Trailed(p, high, low) : p \in pending[symbol]}
                                \ activated'
        /\ \A other \in Symbols \ {symbol} : pending'[other] = pending[other]
    BY <1>1, <2>1 DEF TypeOK
  <2>5. pending'[symbol] \union activated' =
          {Trailed(p, high, low) : p \in pending[symbol]}
    BY <2>1, <2>4
  <2>6. Ids({Trailed(p, high, low) : p \in pending[symbol]}) = Ids(pending[symbol])
    BY <2>2 DEF Ids
  <2>7. \A o \in pending'[symbol], q \in activated' : o.id # q.id
    <3> SUFFICES ASSUME NEW o \in pending'[symbol], NEW q \in activated',
                        o.id = q.id
                 PROVE  FALSE
      OBVIOUS
    <3>1. PICK p \in pending[symbol] : o = Trailed(p, high, low)
      BY <2>4
    <3>2. PICK r \in pending[symbol] : q = Trailed(r, high, low)
      BY <2>1
    <3>3. p = r
      BY <2>2, <2>3, <3>1, <3>2
    <3> QED
      BY <2>4, <3>1, <3>2, <3>3
  <2>8. Ids(pending'[symbol]) \intersect Ids(activated') = {}
    BY <2>7 DEF Ids
  <2> QED
    BY <2>4, <2>5, <2>6, <2>8
<1> QED
  BY <1>2, <1>3

\* A tick neither loses nor duplicates a registered order, and leaves the other
\* symbols alone.
THEOREM LosesNoOrderCorrect == Spec => TickLosesNoOrder
<1>1. Inv /\ [Next]_vars =>
        [\A symbol \in Symbols :
           (\E price \in TickPrices : OnTradeTick(symbol, price)) =>
             /\ Ids(pending[symbol]) = Ids(pending'[symbol] \union activated')
             /\ Ids(pending'[symbol]) \intersect Ids(activated') = {}
             /\ \A other \in Symbols \ {symbol} : pending'[other] = pending[other]]_vars
  BY LosesNoOrderStep
<1> QED
  BY <1>1, Invariance, PTL DEF Spec, TickLosesNoOrder

Ratchets(o, n) ==
  /\ n.side = "SELL" => n.stopPrice >= o.stopPrice
  /\ n.side = "BUY" => n.stopPrice <= o.stopPrice
  /\ n.type = "STOP_LOSS" => n.stopPrice = o.stopPrice

LEMMA RatchetStep ==
  ASSUME Inv, [Next]_vars, NEW s \in Symbols, NEW o \in pending[s],
         NEW n \in pending'[s] \union activated', n.id = o.id
  PROVE  Ratchets(o, n)
<1> USE RegistryAssumption
<1>1. TypeOK /\ o \in StopOrder /\ o \in Waiting
  BY DEF Inv, TypeOK, Waiting
<1>2. /\ \A p, q \in Waiting \union activated : p.id = q.id => p = q
      /\ \A p \in Waiting \union activated : p.id <= lastId
      /\ pending[s] \subseteq Waiting
  BY DEF Inv, RegisteredOnce, Waiting
<1>3. CASE n \in Waiting \union activated
  <2>1. n = o
    BY <1>1, <1>2, <1>3
  <2> QED
    BY <1>1, <2>1 DEF Ratchets, StopOrder
<1>4. CASE RegisterNew
  <2>1. activated' = activated /\ \A p \in pending'[s] :
          p \in pending[s] \/ p.id = lastId + 1
    BY <1>1, <1>4 DEF RegisterNew, Register, TypeOK
  <2>2. o.id # lastId + 1
    BY <1>1, <1>2 DEF StopOrder, TypeOK
  <2> QED
    BY <1>2, <1>3, <2>1, <2>2
<1>5. CASE CancelAny
  <2>1. activated' = activated /\ pending'[s] \subseteq pending[s]
    BY <1>1, <1>5 DEF CancelAny, CancelStop, TypeOK
  <2> QED
    BY <1>2, <1>3, <2>1
<1>6. CASE Tick
  <2>1. PICK symbol \in Symbols, price \in Nat \ {0} : OnTradeTick(symbol, price)
    BY <1>6 DEF Tick
  <2>2. CASE pending[symbol] = {}
    BY <1>2, <1>3, <2>1, <2>2 DEF OnTradeTick
  <2>3. CASE pending[symbol] # {}
    <3>1. PICK high \in Nat \ {0}, low \in Nat \ {0} :
             /\ activated' = {q \in {Trailed(p, high, low) : p \in pending[symbol]} :
                                ShouldTrigger(q, price)}
             /\ pending' = [pending EXCEPT ![symbol] =
                              {Trailed(p, high, low) : p \in pending[symbol]}
                                \ activated']
      BY <1>1, <2>1, <2>3, TickEffect
    <3>2. CASE n \in {Trailed(p, high, low) : p \in pending[symbol]}
      <4>1. PICK p \in pending[symbol] : n = Trailed(p, high, low)
        BY <3>2
      <4>2. p \in StopOrder /\ p \in Waiting
        BY <1>1 DEF TypeOK, Waiting
      <4>3. n.id = p.id
        BY <4>1, <4>2, TrailedProperties
      <4>4. p = o
        BY <1>1, <1>2, <4>2, <4>3
      <4>5. /\ n.side = o.side
            /\ n.type = o.type
            /\ n.stopPrice = TrailedStop(o, high, low)
        BY <4>1, <4>2, <4>4, TrailedProperties
      <4> QED
        BY <1>1, <4>5, TrailedStopProperties DEF Ratchets
    <3>3. CASE n \notin {Trailed(p, high, low) : p \in pending[symbol]}
      <4>1. n \in pending[s]
        BY <1>1, <3>1, <3>3 DEF TypeOK
      <4> QED
        BY <1>2, <1>3, <4>1
    <3> QED
      BY <3>2, <3>3
  <2> QED
    BY <2>2, <2>3
<1>7. CASE UNCHANGED vars
  BY <1>2, <1>3, <1>7 DEF vars
<1> QED
  BY <1>4, <1>5, <1>6, <1>7 DEF Next

\* A SELL stop never moves down, a BUY stop never up, a plain stop-loss not at
\* all, for as long as the order waits and up to the tick that fires it.
THEOREM RatchetCorrect == Spec => StopsRatchet
<1>1. Inv /\ [Next]_vars =>
        [\A symbol \in Symbols : \A o \in pending[symbol] :
           \A n \in pending'[symbol] \union activated' :
             n.id = o.id =>
               /\ n.side = "SELL" => n.stopPrice >= o.stopPrice
               /\ n.side = "BUY" => n.stopPrice <= o.stopPrice
               /\ n.type = "STOP_LOSS" => n.stopPrice = o.stopPrice]_vars
  BY RatchetStep DEF Ratchets
<1> QED
  BY <1>1, Invariance, PTL DEF Spec, StopsRatchet
=============================================================================
