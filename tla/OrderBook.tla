----------------------------- MODULE OrderBook -----------------------------
(***************************************************************************)
(* The in-memory order book of one symbol,                                 *)
(* packages/engine/src/OrderBook.ts.                                       *)
(*                                                                         *)
(* Node runs a call of the book to its end before it starts another, so a  *)
(* call is a run of steps that nothing else enters: `incoming` is the      *)
(* order whose call is running, and every operation waits for it to be     *)
(* NoOrder.  One iteration of the loop of matchAtLevel is one step.        *)
(***************************************************************************)
EXTENDS BookOps

CONSTANTS
  Requests,    \* the orders clients and the engine hand to the book
  One,         \* one whole unit of the instrument, in smallest units
  MaxOrders    \* bound on the orders created, iceberg slices included

\* What validateOrder lets through: see MatchingEngine.
Request == [side: Side, type: OrderType, price: Nat, quantity: Nat \ {0},
            displayQty: Nat]

ASSUME BookAssumption ==
  /\ Requests \subseteq Request
  /\ One \in Nat \ {0}
  /\ MaxOrders \in Nat

VARIABLES
  orders,      \* every order object created so far, by id
  levels,      \* levels["BUY"] is `bids`, levels["SELL"] is `asks`
  orderIndex,  \* the keys of the orderIndex Map
  incoming,    \* the order being matched, or NoOrder
  call,        \* the method that is matching it
  trades       \* the TradeExecutions of the call

vars == <<orders, levels, orderIndex, incoming, call, trades>>

NoOrder == 0
OrderId == Nat \ {0}
Call == {"none", "addOrder", "matchMarketOrder"}

Trade == [buyOrderId: OrderId, sellOrderId: OrderId, price: Nat,
          quantity: Nat]

TypeOK ==
  /\ orders \in Seq(Order)
  /\ levels \in [Side -> Seq(PriceLevel)]
  /\ orderIndex \subseteq 1..Len(orders)
  /\ incoming \in 0..Len(orders)
  /\ call \in Call
  /\ trades \in Seq(Trade)
  /\ incoming = NoOrder <=> call = "none"

Init ==
  /\ orders = << >>
  /\ levels = [side \in Side |-> << >>]
  /\ orderIndex = {}
  /\ incoming = NoOrder
  /\ call = "none"
  /\ trades = << >>

Idle == incoming = NoOrder
NewId == Len(orders) + 1

\* createOrder: what the callers of the engine build.
CreateOrder(r) ==
  [side |-> r.side, type |-> r.type, price |-> r.price,
   quantity |-> r.quantity, filledQuantity |-> 0, status |-> "PENDING",
   displayQty |-> r.displayQty, hiddenQty |-> 0]

IsStop(o) == o.type \in {"STOP_LOSS", "TRAILING_STOP"}

-----------------------------------------------------------------------------
(***************************************************************************)
(* addOrder, up to the first iteration of the matching loop.               *)
(***************************************************************************)

\* LIMIT, MARKET, and a FILL_OR_KILL whose pre-walk found the quantity.
StartMatching(o) ==
  /\ o.type = "FILL_OR_KILL"
       => CanFillEntirely(levels[Opposite(o.side)], o.quantity)
  /\ orders' = Append(orders, o)
  /\ incoming' = NewId
  /\ call' = "addOrder"
  /\ trades' = << >>
  /\ UNCHANGED <<levels, orderIndex>>

\* A FILL_OR_KILL the book cannot fill: cancelled before anything is touched.
RejectFillOrKill(o) ==
  /\ o.type = "FILL_OR_KILL"
  /\ ~ CanFillEntirely(levels[Opposite(o.side)], o.quantity)
  /\ orders' = Append(orders, [o EXCEPT !.status = "CANCELLED"])
  /\ trades' = << >>
  /\ UNCHANGED <<levels, orderIndex, incoming, call>>

\* An ICEBERG is split and its first slice inserted; it is never matched
\* against the opposite side on the way in.
AddIceberg(o) ==
  LET display == DefaultDisplay(o.displayQty, o.quantity, One)
      slice == NextSlice([o EXCEPT !.displayQty = display,
                                   !.hiddenQty = o.quantity])
  IN  /\ o.type = "ICEBERG"
      /\ orders' = Append(orders, slice)
      /\ levels' = [levels EXCEPT ![o.side] = InsertOrder(@, NewId, slice)]
      /\ orderIndex' = orderIndex \union {NewId}
      /\ trades' = << >>
      /\ UNCHANGED <<incoming, call>>

AddOrder(o) ==
  /\ Idle
  /\ Len(orders) < MaxOrders
  /\ \/ o.type # "ICEBERG" /\ StartMatching(o)
     \/ RejectFillOrKill(o)
     \/ AddIceberg(o)

\* A stop order waits in the TriggerRegistry: it exists, and is not on the book.
HoldStop(o) ==
  /\ Idle
  /\ Len(orders) < MaxOrders
  /\ IsStop(o)
  /\ orders' = Append(orders, o)
  /\ UNCHANGED <<levels, orderIndex, incoming, call, trades>>

\* matchMarketOrder as a public method: the engine hands it an order that
\* addOrder has never seen, a stop order whose trigger has fired.
MatchMarketOrder(id) ==
  /\ Idle
  /\ incoming' = id
  /\ call' = "matchMarketOrder"
  /\ trades' = << >>
  /\ UNCHANGED <<levels, orderIndex>>

\* onTradeTick promotes the stop order to MARKET before it is handed over.
Promoted(o) == [o EXCEPT !.type = "MARKET", !.status = "OPEN"]

TriggerStop(id) ==
  /\ IsStop(orders[id])
  /\ orders[id].status = "PENDING"
  /\ orders' = [orders EXCEPT ![id] = Promoted(@)]
  /\ MatchMarketOrder(id)

-----------------------------------------------------------------------------
(***************************************************************************)
(* matchLimitOrder, matchMarketOrder and matchAtLevel.                     *)
(***************************************************************************)
In == orders[incoming]
Opp == Opposite(In.side)
Best == levels[Opp][1]
RestingId == Head(Best.orders)
Resting == orders[RestingId]
FillQty == Smaller(Remaining(In), Remaining(Resting))

\* Mutant: a LIMIT order does not meet orders at its own price.
CrossesStrictly(o, price) ==
  o.type = "LIMIT" => Behind(o.side, price, o.price)

\* A LIMIT order stops at the first level that is worse than its price.
Crosses(o, price) ==
  o.type = "LIMIT" => ~ Behind(o.side, o.price, price)

\* The conditions of the two nested loops.
MoreToMatch ==
  /\ ~ Idle
  /\ levels[Opp] # << >>
  /\ Remaining(In) > 0
  /\ Crosses(In, Best.price)

RestingIsFilled == Resting.filledQuantity + FillQty >= Resting.quantity

\* Mutant: the trade names the taker as the buyer, whatever its side.
FillTradeTakerBuys ==
  [buyOrderId |-> incoming, sellOrderId |-> RestingId,
   price |-> Best.price, quantity |-> FillQty]

\* createTrade: always at the price of the level.
FillTrade ==
  [buyOrderId  |-> IF In.side = "BUY" THEN incoming ELSE RestingId,
   sellOrderId |-> IF In.side = "BUY" THEN RestingId ELSE incoming,
   price |-> Best.price, quantity |-> FillQty]

OrdersAfterFill(restingStatus) ==
  [orders EXCEPT ![incoming].filledQuantity = @ + FillQty,
                 ![RestingId].filledQuantity = @ + FillQty,
                 ![RestingId].status = restingStatus]

\* The opposite side with the fill taken out of the best level, before a
\* depleted level is dropped.
LevelsAfterFill(queue) ==
  [levels[Opp] EXCEPT ![1].totalQuantity = @ - FillQty, ![1].orders = queue]

\* The resting order keeps its place at the head of the queue.
FillResting ==
  /\ MoreToMatch
  /\ ~ RestingIsFilled
  /\ orders' = OrdersAfterFill("PARTIALLY_FILLED")
  /\ levels' = [levels EXCEPT ![Opp] = LevelsAfterFill(Best.orders)]
  /\ trades' = Append(trades, FillTrade)
  /\ UNCHANGED <<orderIndex, incoming, call>>

HasHidden == Resting.type = "ICEBERG" /\ Resting.hiddenQty > 0

CompleteResting ==
  /\ MoreToMatch
  /\ RestingIsFilled
  /\ ~ HasHidden
  /\ orders' = OrdersAfterFill("FILLED")
  /\ levels' = [levels EXCEPT
                  ![Opp] = DropDepleted(LevelsAfterFill(Tail(Best.orders)))]
  /\ orderIndex' = orderIndex \ {RestingId}
  /\ trades' = Append(trades, FillTrade)
  /\ UNCHANGED <<incoming, call>>

\* An iceberg slice is used up: the next one is a new order with a new id, at
\* the tail of the level.
ReplenishResting ==
  LET slice == NextSlice(Resting)
  IN  /\ MoreToMatch
      /\ RestingIsFilled
      /\ HasHidden
      /\ orders' = Append(OrdersAfterFill("FILLED"), slice)
      /\ levels' = [levels EXCEPT
                      ![Opp] = DropDepleted(
                                 InsertOrder(LevelsAfterFill(Tail(Best.orders)),
                                             NewId, slice))]
      /\ orderIndex' = (orderIndex \ {RestingId}) \union {NewId}
      /\ trades' = Append(trades, FillTrade)
      /\ UNCHANGED <<incoming, call>>

MatchStep == FillResting \/ CompleteResting \/ ReplenishResting

-----------------------------------------------------------------------------
(***************************************************************************)
(* What follows the loops.                                                 *)
(***************************************************************************)
Finished == ~ Idle /\ ~ MoreToMatch

Return == incoming' = NoOrder /\ call' = "none"

\* The order is filled, or the caller looks after what is left of it.
FinishFilled ==
  /\ Finished
  /\ Remaining(In) = 0
  /\ orders' = [orders EXCEPT ![incoming].status = "FILLED"]
  /\ Return
  /\ UNCHANGED <<levels, orderIndex, trades>>

\* addOrder rests what is left of a LIMIT order.
RestLimit ==
  /\ Finished
  /\ call = "addOrder"
  /\ In.type = "LIMIT"
  /\ Remaining(In) > 0
  /\ levels' = [levels EXCEPT ![In.side] = InsertOrder(@, incoming, In)]
  /\ orderIndex' = orderIndex \union {incoming}
  /\ orders' = [orders EXCEPT ![incoming].status =
                  IF In.filledQuantity > 0 THEN "PARTIALLY_FILLED" ELSE "OPEN"]
  /\ Return
  /\ UNCHANGED trades

\* addOrder cancels what is left of a MARKET or FILL_OR_KILL order.
CancelRemainder ==
  /\ Finished
  /\ call = "addOrder"
  /\ In.type # "LIMIT"
  /\ Remaining(In) > 0
  /\ orders' = [orders EXCEPT ![incoming].status = "CANCELLED"]
  /\ Return
  /\ UNCHANGED <<levels, orderIndex, trades>>

\* matchMarketOrder leaves the status of an order it could not fill as it is.
ReturnUnfilled ==
  /\ Finished
  /\ call = "matchMarketOrder"
  /\ Remaining(In) > 0
  /\ Return
  /\ UNCHANGED <<orders, levels, orderIndex, trades>>

Finish == FinishFilled \/ RestLimit \/ CancelRemainder \/ ReturnUnfilled

-----------------------------------------------------------------------------
\* Mutant: the order is forgotten but stays in its queue.
CancelOrderIndexOnly(id) ==
  /\ Idle
  /\ id \in orderIndex
  /\ orderIndex' = orderIndex \ {id}
  /\ orders' = [orders EXCEPT ![id].status = "CANCELLED"]
  /\ UNCHANGED <<levels, incoming, call, trades>>

\* cancelOrder: where the code returns null nothing changes.
CancelOrder(id) ==
  LET o == orders[id]
      i == FindLevelIndex(levels[o.side], o.price, o.side)
  IN  /\ Idle
      /\ id \in orderIndex
      /\ i # 0
      /\ Contains(levels[o.side][i].orders, id)
      /\ levels' = [levels EXCEPT ![o.side] = RemoveOrder(@, i, id, o)]
      /\ orderIndex' = orderIndex \ {id}
      /\ orders' = [orders EXCEPT ![id].status = "CANCELLED"]
      /\ UNCHANGED <<incoming, call, trades>>

Submit ==
  \/ \E r \in Requests :
       \/ ~ IsStop(r) /\ AddOrder(CreateOrder(r))
       \/ HoldStop(CreateOrder(r))
  \/ \E id \in 1..Len(orders) : TriggerStop(id)

Cancel == \E id \in orderIndex : CancelOrder(id)

Next == Submit \/ MatchStep \/ Finish \/ Cancel

Spec == Init /\ [][Next]_vars

-----------------------------------------------------------------------------
(***************************************************************************)
(* Properties.                                                             *)
(***************************************************************************)
Price(id) == orders[id].price
BookSide(id) == orders[id].side

\* `a` is served before `b`: better price, or the same price and earlier.
Precedes(a, b) ==
  \/ Behind(BookSide(a), Price(b), Price(a))
  \/ Price(a) = Price(b) /\ a < b

\* Levels stand best price first, no price twice, and no level is empty: what
\* the early exits of findLevelIndex and levels[0] as best price rely on.
LevelsSorted ==
  \A side \in Side : \A i \in 1..Len(levels[side]) :
    /\ levels[side][i].orders # << >>
    /\ \A j \in 1..Len(levels[side]) :
         i < j => Behind(side, levels[side][j].price, levels[side][i].price)

\* A level's queue is in order of arrival, through partial fills, cancellations
\* from the middle and the slices that iceberg orders put back.
QueuesInArrivalOrder ==
  \A side \in Side : \A l \in 1..Len(levels[side]) :
    LET queue == levels[side][l].orders
    IN  \A i, j \in 1..Len(queue) : i < j => queue[i] < queue[j]

Queued(side) ==
  UNION {ToSet(levels[side][l].orders) : l \in 1..Len(levels[side])}

\* orderIndex and the queues hold the same orders, each under its own side and
\* price, each open and with something left: an order that is in one and not
\* in the other can be matched but not cancelled, or the other way round.
IndexAgrees ==
  /\ orderIndex = UNION {Queued(side) : side \in Side}
  /\ \A side \in Side : \A l \in 1..Len(levels[side]) :
       \A i \in 1..Len(levels[side][l].orders) :
         LET id == levels[side][l].orders[i]
         IN  /\ BookSide(id) = side
             /\ Price(id) = levels[side][l].price
             /\ Remaining(orders[id]) > 0
             /\ orders[id].status \in {"OPEN", "PARTIALLY_FILLED"}

\* totalQuantity, kept by additions and subtractions, is what the queue sums
\* to.  canFillEntirely and every depth snapshot trust it.
DepthAgrees ==
  \A side \in Side : \A l \in 1..Len(levels[side]) :
    levels[side][l].totalQuantity =
      FoldLeft(LAMBDA sum, id : sum + Remaining(orders[id]), 0,
               levels[side][l].orders)

\* A FILL_OR_KILL order that has returned was filled whole or not at all.
FillOrKillIsAllOrNothing ==
  \A id \in 1..Len(orders) :
    orders[id].type = "FILL_OR_KILL" /\ id # incoming =>
      \/ orders[id].status = "FILLED" /\ Remaining(orders[id]) = 0
      \/ orders[id].status = "CANCELLED" /\ orders[id].filledQuantity = 0

\* If two resting orders cross, the later of them is an iceberg slice: a LIMIT
\* order only rests once nothing on the other side can fill it.
OnlyIcebergsCross ==
  Idle =>
    \A buy, sell \in orderIndex :
      /\ BookSide(buy) = "BUY"
      /\ BookSide(sell) = "SELL"
      /\ Price(buy) >= Price(sell)
      => orders[IF buy < sell THEN sell ELSE buy].type = "ICEBERG"

\* Price-time priority: the resting order that a step fills is the first of its
\* side, and a LIMIT order pays no more (gets no less) than its price.
PriceTimePriority ==
  [][\A id \in orderIndex :
       orders'[id].filledQuantity > orders[id].filledQuantity =>
         /\ \A other \in orderIndex \ {id} :
              BookSide(other) = BookSide(id) => Precedes(id, other)
         /\ In.type = "LIMIT" => ~ Behind(In.side, In.price, Price(id))]_vars

\* Every fill is reported: the two orders whose filledQuantity moves are the
\* buyer and the seller of the one trade the step adds, for that quantity.
EveryFillIsATrade ==
  [][\A id \in 1..Len(orders) :
       LET fill == orders'[id].filledQuantity - orders[id].filledQuantity
       IN  fill # 0 =>
             /\ Len(trades') = Len(trades) + 1
             /\ LET t == trades'[Len(trades')]
                IN  /\ t.quantity = fill
                    /\ id = IF BookSide(id) = "BUY"
                            THEN t.buyOrderId ELSE t.sellOrderId]_vars

\* What a resting order can still give, hidden quantity included.
Gives(o) == Remaining(o) + (IF o.type = "ICEBERG" THEN o.hiddenQty ELSE 0)

Liquidity(side) ==
  FoldSet(LAMBDA id, sum : sum + Gives(orders[id]), 0,
          {id \in orderIndex : BookSide(id) = side})

\* A matching step takes from the opposite side exactly what it gives to the
\* incoming order: replenishing an iceberg neither makes nor loses quantity.
MatchingConservesQuantity ==
  [][~ Idle /\ incoming' = incoming =>
       Liquidity(Opp) - Liquidity(Opp)' =
         In'.filledQuantity - In.filledQuantity]_vars

-----------------------------------------------------------------------------
(***************************************************************************)
(* The book implements PriceTimeBook: an order rests when it is in the     *)
(* index, and what its queue and its level say about it is left out.       *)
(***************************************************************************)
OfferOf(o) ==
  [side |-> o.side, price |-> o.price, left |-> Remaining(o),
   hidden |-> IF o.type = "ICEBERG" THEN o.hiddenQty ELSE 0]

TakerOf(id, o) ==
  [id |-> id, side |-> o.side, price |-> o.price, limited |-> o.type = "LIMIT",
   left |-> Remaining(o)]

Offers == [id \in orderIndex |-> OfferOf(orders[id])]

\* `id |-> 0` is PriceTimeBook's Nobody.
Matching ==
  IF Idle
  THEN [id |-> 0, side |-> "BUY", price |-> 0, limited |-> FALSE, left |-> 0]
  ELSE TakerOf(incoming, In)

Abstract == INSTANCE PriceTimeBook
  WITH resting <- Offers, taker <- Matching, last <- Len(orders)

\* Levels, queues, index and loops, with their early exits, come to this: the
\* taker takes from the first offer by price and time as long as it accepts one,
\* only then rests, and nothing else moves an offer but its own cancellation.
ImplementsPriceTime == Abstract!PriceTimeSpec

=============================================================================
