--------------------------- MODULE MatchingEngine ---------------------------
(***************************************************************************)
(* The matching engine of one symbol, packages/engine/src/MatchingEngine.ts:*)
(* an order book and the trigger registry over the same order objects.     *)
(*                                                                         *)
(* submitOrder is one synchronous call.  `stage` says how far it has got:  *)
(* the book is adding the order, or the activated stops are being swept.   *)
(* No other call starts before the stage is back to "idle".                *)
(***************************************************************************)
EXTENDS OrderBook

CONSTANTS
  StopPrices,  \* stopPrice a client may give
  Deltas,      \* trailingDelta a client may give
  NoDelta      \* no trailingDelta was given

VARIABLES
  pending, highWaterBuy, highWaterSell, activated,  \* the TriggerRegistry
  stage,           \* how far the running submitOrder is
  executed,        \* `trades`: what submitOrder returns
  lastTradePrice,  \* the price it has shown to the registry, or 0
  sweptOrder       \* the activated stop being swept, or NoOrder

Symbol == "BTC-USD"

TR == INSTANCE TriggerRegistry
        WITH Symbols <- {Symbol}, TickPrices <- Nat \ {0},
             MaxStops <- MaxOrders, lastId <- Len(orders),
             seen <- [s \in {Symbol} |-> {}]

\* What validateOrder lets through: a price that is not positive is refused where
\* the type needs one, and so is a stop price.
ASSUME EngineAssumption ==
  /\ \A r \in Requests : r.type \in {"LIMIT", "ICEBERG"} => r.price > 0
  /\ StopPrices \subseteq Nat \ {0}
  /\ NoDelta \notin Int
  /\ Deltas \subseteq Int \union {NoDelta}

bookVars == <<orders, levels, orderIndex, incoming, call, trades>>
registryVars == <<pending, highWaterBuy, highWaterSell, activated>>
engineVars == <<stage, executed, lastTradePrice, sweptOrder>>
allVars == <<bookVars, registryVars, engineVars>>

EngineTypeOK ==
  /\ TypeOK
  /\ TR!TypeOK
  /\ stage \in {"idle", "adding", "sweeping"}
  /\ executed \in Seq(Trade)
  /\ lastTradePrice \in Nat
  /\ sweptOrder \in 0..Len(orders)

EngineInit ==
  /\ Init
  /\ TR!Init
  /\ stage = "idle"
  /\ executed = << >>
  /\ lastTradePrice = 0
  /\ sweptOrder = NoOrder

EngineIdle == stage = "idle"

-----------------------------------------------------------------------------
(***************************************************************************)
(* submitOrder.                                                            *)
(***************************************************************************)

\* A stop order is registered, and submitOrder returns no trades.
SubmitStop(r, stop, delta) ==
  /\ EngineIdle
  /\ HoldStop(CreateOrder(r))
  /\ TR!Register(Symbol, [id |-> NewId, side |-> r.side, type |-> r.type,
                          stopPrice |-> stop, trailingDelta |-> delta])
  /\ executed' = << >>
  /\ lastTradePrice' = 0
  /\ UNCHANGED <<activated, stage, sweptOrder>>

\* Any other order goes to the book.
SubmitToBook(r) ==
  /\ EngineIdle
  /\ ~ IsStop(r)
  /\ AddOrder(CreateOrder(r))
  /\ stage' = "adding"
  /\ executed' = << >>
  /\ lastTradePrice' = 0
  /\ UNCHANGED <<registryVars, sweptOrder>>

\* The book at work, inside addOrder or inside matchMarketOrder.
BookStep ==
  /\ MatchStep \/ Finish
  /\ UNCHANGED <<registryVars, engineVars>>

\* addOrder has returned without a trade: so does submitOrder.
ReturnNoTrades ==
  /\ stage = "adding"
  /\ Idle
  /\ trades = << >>
  /\ stage' = "idle"
  /\ UNCHANGED <<bookVars, registryVars, executed, lastTradePrice, sweptOrder>>

\* Mutant: the registry is shown the price of the first trade.
EvaluateFirstPrice ==
  /\ stage = "adding"
  /\ Idle
  /\ trades # << >>
  /\ lastTradePrice' = trades[Len(trades)].price
  /\ TR!OnTradeTick(Symbol, trades[1].price)
  /\ orders' = [id \in 1..Len(orders) |->
                  IF \E o \in activated' : o.id = id
                  THEN Promoted(orders[id]) ELSE orders[id]]
  /\ executed' = trades
  /\ stage' = "sweeping"
  /\ UNCHANGED <<levels, orderIndex, incoming, call, trades, sweptOrder>>

\* After trades the registry sees one price, that of the last trade, and every
\* order it activates is promoted to MARKET at once.
EvaluateTriggers ==
  LET price == trades[Len(trades)].price
  IN  /\ stage = "adding"
      /\ Idle
      /\ trades # << >>
      /\ lastTradePrice' = price
      /\ TR!OnTradeTick(Symbol, price)
      /\ orders' = [id \in 1..Len(orders) |->
                      IF \E o \in activated' : o.id = id
                      THEN Promoted(orders[id]) ELSE orders[id]]
      /\ executed' = trades
      /\ stage' = "sweeping"
      /\ UNCHANGED <<levels, orderIndex, incoming, call, trades, sweptOrder>>

\* The activated orders are swept one by one in the order of their registration.
SweepNext ==
  \E o \in activated :
    /\ stage = "sweeping"
    /\ sweptOrder = NoOrder
    /\ \A p \in activated : o.id <= p.id
    /\ MatchMarketOrder(o.id)
    /\ activated' = activated \ {o}
    /\ sweptOrder' = o.id
    /\ UNCHANGED <<orders, pending, highWaterBuy, highWaterSell>>
    /\ UNCHANGED <<stage, executed, lastTradePrice>>

SweptStatus(o) ==
  IF o.filledQuantity >= o.quantity THEN "FILLED"
  ELSE IF o.filledQuantity > 0 THEN "PARTIALLY_FILLED" ELSE "CANCELLED"

\* Mutant: the trades of a sweep replace those of the call.
EndSweepReplacesTrades ==
  /\ sweptOrder # NoOrder
  /\ Idle
  /\ orders' = [orders EXCEPT ![sweptOrder].status =
                                 SweptStatus(orders[sweptOrder])]
  /\ executed' = trades
  /\ sweptOrder' = NoOrder
  /\ UNCHANGED <<levels, orderIndex, incoming, call, trades, registryVars>>
  /\ UNCHANGED <<stage, lastTradePrice>>

\* Mutant: the loop over the activated stops waits for a full fill.
EndSweepOnlyIfFilled ==
  /\ sweptOrder # NoOrder
  /\ Idle
  /\ Remaining(orders[sweptOrder]) = 0
  /\ orders' = [orders EXCEPT ![sweptOrder].status = "FILLED"]
  /\ executed' = executed \o trades
  /\ sweptOrder' = NoOrder
  /\ UNCHANGED <<levels, orderIndex, incoming, call, trades, registryVars>>
  /\ UNCHANGED <<stage, lastTradePrice>>

\* The sweep has returned: the engine sets the status and takes the trades.  The
\* registry is not shown the prices of these trades.
EndSweep ==
  /\ sweptOrder # NoOrder
  /\ Idle
  /\ orders' = [orders EXCEPT ![sweptOrder].status =
                                 SweptStatus(orders[sweptOrder])]
  /\ executed' = executed \o trades
  /\ sweptOrder' = NoOrder
  /\ UNCHANGED <<levels, orderIndex, incoming, call, trades, registryVars>>
  /\ UNCHANGED <<stage, lastTradePrice>>

ReturnTrades ==
  /\ stage = "sweeping"
  /\ sweptOrder = NoOrder
  /\ activated = {}
  /\ stage' = "idle"
  /\ UNCHANGED <<bookVars, registryVars, executed, lastTradePrice, sweptOrder>>

-----------------------------------------------------------------------------
\* Mutant: an order taken out of the registry is not marked CANCELLED.
EngineCancelKeepsStatus(id) ==
  /\ EngineIdle
  /\ \/ /\ CancelOrder(id)
        /\ UNCHANGED registryVars
     \/ /\ id \notin orderIndex
        /\ TR!CancelStop(id)
        /\ UNCHANGED <<bookVars, activated>>
  /\ executed' = << >>
  /\ lastTradePrice' = 0
  /\ UNCHANGED <<stage, sweptOrder>>

\* cancelOrder: the book first, the registry if the book does not know the id.
EngineCancel(id) ==
  /\ EngineIdle
  /\ \/ /\ CancelOrder(id)
        /\ UNCHANGED registryVars
     \/ /\ id \notin orderIndex
        /\ TR!CancelStop(id)
        /\ orders' = [orders EXCEPT ![id].status = "CANCELLED"]
        /\ UNCHANGED <<levels, orderIndex, incoming, call, trades, activated>>
  /\ executed' = << >>
  /\ lastTradePrice' = 0
  /\ UNCHANGED <<stage, sweptOrder>>

EngineSubmit ==
  \E r \in Requests :
    \/ SubmitToBook(r)
    \/ \E stop \in StopPrices, delta \in Deltas : SubmitStop(r, stop, delta)

Work ==
  \/ BookStep
  \/ ReturnNoTrades
  \/ EvaluateTriggers
  \/ SweepNext
  \/ EndSweep
  \/ ReturnTrades

EngineNext == EngineSubmit \/ Work \/ \E id \in 1..Len(orders) : EngineCancel(id)

\* submitOrder is synchronous: once it runs, it runs to its end.
EngineSpec == EngineInit /\ [][EngineNext]_allVars /\ WF_allVars(Work)

-----------------------------------------------------------------------------
(***************************************************************************)
(* Properties.                                                             *)
(***************************************************************************)
WaitingIds == {o.id : o \in pending[Symbol]}
RunningIds == {o.id : o \in activated} \union ({sweptOrder} \ {NoOrder})

\* A stop order is in exactly one place: waiting in the registry, about to be
\* swept, or done with.  None waits without being PENDING, none that is PENDING
\* has dropped out of the registry, and none is on the book.
StopsAccountedFor ==
  /\ WaitingIds = {id \in 1..Len(orders) :
                     IsStop(orders[id]) /\ orders[id].status = "PENDING"}
  /\ WaitingIds \intersect RunningIds = {}
  /\ (WaitingIds \union RunningIds) \intersect orderIndex = {}
  /\ \A id \in RunningIds : orders[id].type = "MARKET"

\* Whatever the order of matches, triggers and cancellations, an order that is
\* FILLED or CANCELLED is never touched again, and FILLED means filled whole.
DoneIsFinal ==
  [][\A id \in 1..Len(orders) :
       orders[id].status \in {"FILLED", "CANCELLED"} =>
         /\ orders'[id] = orders[id]
         /\ orders[id].status = "FILLED" <=>
              orders[id].filledQuantity = orders[id].quantity]_allVars

\* When submitOrder returns, no stop is left waiting that the price of the last
\* trade of the book, the one the registry saw, should have fired.
LastPriceEvaluated ==
  EngineIdle /\ lastTradePrice # 0 =>
    \A o \in pending[Symbol] : ~ TR!ShouldTrigger(o, lastTradePrice)

TradedQuantity(id, list) ==
  FoldLeft(LAMBDA sum, t : sum + (IF id \in {t.buyOrderId, t.sellOrderId}
                                  THEN t.quantity ELSE 0), 0, list)

\* What the running call will return, as far as it has got: the list of the book,
\* then that list with those of the sweeps behind it.
Reported ==
  IF stage = "adding" THEN trades
  ELSE IF sweptOrder # NoOrder THEN executed \o trades ELSE executed

\* A call returns exactly what it fills: no trade is dropped or returned twice
\* between the book's list, the lists of the sweeps and the caller's.
CallReportsEveryFill ==
  [][~ EngineIdle =>
       \A id \in 1..Len(orders) :
         orders'[id].filledQuantity - orders[id].filledQuantity =
           TradedQuantity(id, Reported') - TradedQuantity(id, Reported)]_allVars

\* "On each trade: evaluate trigger registry for stop activations": when
\* submitOrder returns, no stop-loss waits that the price of one of its trades
\* should have fired.
EveryTradeEvaluated ==
  EngineIdle =>
    \A o \in pending[Symbol] : \A i \in 1..Len(executed) :
      o.type = "STOP_LOSS" => ~ TR!ShouldTrigger(o, executed[i].price)

\* Every call of submitOrder returns.
SubmitReturns == stage # "idle" ~> stage = "idle"
=============================================================================
