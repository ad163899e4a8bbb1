-------------------------- MODULE TriggerRegistry --------------------------
(***************************************************************************)
(* The registry of stop-loss and trailing-stop orders that wait off the    *)
(* book, packages/engine/src/TriggerRegistry.ts.                           *)
(*                                                                         *)
(* The list of a symbol is kept as a set: orders are registered in the     *)
(* order of their ids and nothing reorders a list, so the order of the     *)
(* list is the order of the ids.                                           *)
(***************************************************************************)
EXTENDS Integers

CONSTANTS
  Symbols,     \* trading pairs
  StopPrices,  \* stopPrice a client may give
  Deltas,      \* trailingDelta a client may give: nothing checks its sign
  NoDelta,     \* no trailingDelta was given
  TickPrices,  \* prices trades execute at
  MaxStops     \* bound on the orders registered

Side == {"BUY", "SELL"}
NoMark == 0

ASSUME RegistryAssumption ==
  /\ StopPrices \subseteq Nat \ {0}
  /\ NoDelta \notin Int
  /\ Deltas \subseteq Int \union {NoDelta}
  /\ TickPrices \subseteq Nat \ {0}
  /\ MaxStops \in Nat

\* stopPrice is positive when the order is registered.  That of a SELL only rises;
\* that of a BUY only falls, and a negative trailingDelta takes it anywhere.
StopOrder ==
  {o \in [id: Nat \ {0}, side: Side, type: {"STOP_LOSS", "TRAILING_STOP"},
          stopPrice: Int, trailingDelta: Int \union {NoDelta}] :
     o.side = "SELL" => o.stopPrice > 0}

VARIABLES
  pending,        \* the Map `orders`: what waits, per symbol
  highWaterBuy,   \* lowest price seen, per symbol, or NoMark
  highWaterSell,  \* highest price seen, per symbol, or NoMark
  activated,      \* what the last onTradeTick returned
  lastId,         \* id of the order created last
  seen            \* history: the prices ticks were evaluated at, per symbol

vars == <<pending, highWaterBuy, highWaterSell, activated, lastId, seen>>

TypeOK ==
  /\ pending \in [Symbols -> SUBSET StopOrder]
  /\ highWaterBuy \in [Symbols -> Nat]
  /\ highWaterSell \in [Symbols -> Nat]
  /\ activated \subseteq StopOrder
  /\ lastId \in Nat
  /\ seen \in [Symbols -> SUBSET (Nat \ {0})]

Init ==
  /\ pending = [s \in Symbols |-> {}]
  /\ highWaterBuy = [s \in Symbols |-> NoMark]
  /\ highWaterSell = [s \in Symbols |-> NoMark]
  /\ activated = {}
  /\ lastId = 0
  /\ seen = [s \in Symbols |-> {}]

-----------------------------------------------------------------------------
Register(symbol, o) ==
  /\ pending' = [pending EXCEPT ![symbol] = @ \union {o}]
  /\ UNCHANGED <<highWaterBuy, highWaterSell>>

\* cancel looks through the lists of all symbols for the id.
CancelStop(id) ==
  /\ \E symbol \in Symbols : \E o \in pending[symbol] :
       /\ o.id = id
       /\ pending' = [pending EXCEPT ![symbol] = @ \ {o}]
  /\ UNCHANGED <<highWaterBuy, highWaterSell>>

\* updateHighWaterMarks.
\* Mutant: the high mark stays at the first price it sees.
HigherMarkStays(mark, price) == IF mark = NoMark THEN price ELSE mark

HigherMark(mark, price) == IF mark = NoMark \/ price > mark THEN price ELSE mark
LowerMark(mark, price) == IF mark = NoMark \/ price < mark THEN price ELSE mark

\* Mutant: the stop follows the marks both ways.
TrailedStopBothWays(o, high, low) ==
  IF o.type = "TRAILING_STOP" /\ o.trailingDelta # NoDelta
  THEN IF o.side = "SELL" THEN high - o.trailingDelta ELSE low + o.trailingDelta
  ELSE o.stopPrice

\* updateTrailingStops, one order: the stop follows the marks, one way only.
\* An order of type TRAILING_STOP without a delta stays where it is.
TrailedStop(o, high, low) ==
  IF o.type = "TRAILING_STOP" /\ o.trailingDelta # NoDelta
  THEN IF o.side = "SELL"
       THEN IF high - o.trailingDelta > o.stopPrice
            THEN high - o.trailingDelta ELSE o.stopPrice
       ELSE IF low + o.trailingDelta < o.stopPrice
            THEN low + o.trailingDelta ELSE o.stopPrice
  ELSE o.stopPrice

ShouldTrigger(o, price) ==
  IF o.side = "SELL" THEN price <= o.stopPrice ELSE price >= o.stopPrice

\* Mutant: the triggers are evaluated before the trailing stops move.
OnTradeTickTriggersFirst(symbol, price) ==
  LET high == HigherMark(highWaterSell[symbol], price)
      low == LowerMark(highWaterBuy[symbol], price)
      fires == {o \in pending[symbol] : ShouldTrigger(o, price)}
  IN  /\ pending[symbol] # {}
      /\ highWaterSell' = [highWaterSell EXCEPT ![symbol] = high]
      /\ highWaterBuy' = [highWaterBuy EXCEPT ![symbol] = low]
      /\ activated' = fires
      /\ pending' = [pending EXCEPT ![symbol] =
                       {[o EXCEPT !.stopPrice = TrailedStop(o, high, low)] :
                          o \in pending[symbol] \ fires}]

\* Mutant: the orders that fire stay in the list.
OnTradeTickKeepsFired(symbol, price) ==
  LET high == HigherMark(highWaterSell[symbol], price)
      low == LowerMark(highWaterBuy[symbol], price)
      trailed == {[o EXCEPT !.stopPrice = TrailedStop(o, high, low)] :
                    o \in pending[symbol]}
  IN  /\ pending[symbol] # {}
      /\ highWaterSell' = [highWaterSell EXCEPT ![symbol] = high]
      /\ highWaterBuy' = [highWaterBuy EXCEPT ![symbol] = low]
      /\ activated' = {o \in trailed : ShouldTrigger(o, price)}
      /\ pending' = [pending EXCEPT ![symbol] = trailed]

\* onTradeTick: with nothing registered for the symbol it returns before the
\* marks are touched.
OnTradeTick(symbol, price) ==
  IF pending[symbol] = {}
  THEN /\ activated' = {}
       /\ UNCHANGED <<pending, highWaterBuy, highWaterSell>>
  ELSE LET high == HigherMark(highWaterSell[symbol], price)
           low == LowerMark(highWaterBuy[symbol], price)
           trailed == {[o EXCEPT !.stopPrice = TrailedStop(o, high, low)] :
                         o \in pending[symbol]}
           fires == {o \in trailed : ShouldTrigger(o, price)}
       IN  /\ highWaterSell' = [highWaterSell EXCEPT ![symbol] = high]
           /\ highWaterBuy' = [highWaterBuy EXCEPT ![symbol] = low]
           /\ activated' = fires
           /\ pending' = [pending EXCEPT ![symbol] = trailed \ fires]

-----------------------------------------------------------------------------
(***************************************************************************)
(* The registry on its own: any order, any tick, at any time.              *)
(***************************************************************************)
RegisterNew ==
  /\ lastId < MaxStops
  /\ lastId' = lastId + 1
  /\ \E symbol \in Symbols, side \in Side, stop \in StopPrices, d \in Deltas,
        type \in {"STOP_LOSS", "TRAILING_STOP"} :
       Register(symbol, [id |-> lastId + 1, side |-> side, type |-> type,
                         stopPrice |-> stop, trailingDelta |-> d])
  /\ UNCHANGED <<activated, seen>>

CancelAny ==
  /\ \E id \in 1..lastId : CancelStop(id)
  /\ UNCHANGED <<activated, lastId, seen>>

Tick ==
  /\ \E symbol \in Symbols, price \in TickPrices :
       /\ OnTradeTick(symbol, price)
       /\ seen' = IF pending[symbol] = {} THEN seen
                  ELSE [seen EXCEPT ![symbol] = @ \union {price}]
  /\ UNCHANGED lastId

Next == RegisterNew \/ CancelAny \/ Tick

Spec == Init /\ [][Next]_vars

-----------------------------------------------------------------------------
(***************************************************************************)
(* Properties.                                                             *)
(***************************************************************************)

\* An id is registered once: no order waits under two symbols or twice with
\* two stop prices, and none both waits and has been handed over to run.
RegisteredOnce ==
  LET waiting == UNION {pending[symbol] : symbol \in Symbols}
  IN  /\ \A o, p \in waiting \union activated : o.id = p.id => o = p
      /\ \A s, t \in Symbols : s # t => pending[s] \intersect pending[t] = {}
      /\ waiting \intersect activated = {}
      /\ \A o \in waiting \union activated : o.id <= lastId

\* The marks of a symbol are the lowest and the highest of all the prices its
\* ticks were evaluated at since the start, however many stops have come and gone
\* in between: they belong to the symbol, so a stop registered late is trailed
\* against prices older than itself, and a price that came while nothing was
\* registered has left no trace in them.
MarksEnclose ==
  \A symbol \in Symbols :
    LET low == highWaterBuy[symbol]
        high == highWaterSell[symbol]
    IN  IF seen[symbol] = {}
        THEN low = NoMark /\ high = NoMark
        ELSE /\ low \in seen[symbol] /\ high \in seen[symbol]
             /\ \A p \in seen[symbol] : low <= p /\ p <= high

\* "It never moves down" (SELL), "It never moves up" (BUY), and the stop price
\* of a plain stop-loss never moves, whatever the ticks do.
StopsRatchet ==
  [][\A symbol \in Symbols : \A o \in pending[symbol] :
       \A n \in pending'[symbol] \union activated' :
         n.id = o.id =>
           /\ n.side = "SELL" => n.stopPrice >= o.stopPrice
           /\ n.side = "BUY" => n.stopPrice <= o.stopPrice
           /\ n.type = "STOP_LOSS" => n.stopPrice = o.stopPrice]_vars

\* A tick leaves no order behind that its price should have fired, after the
\* trailing stops have moved, and no trailing stop further than its delta from
\* the mark.
TickLeavesNothingDue ==
  [][\A symbol \in Symbols, price \in TickPrices :
       OnTradeTick(symbol, price) =>
         \A o \in pending'[symbol] :
           /\ ~ ShouldTrigger(o, price)
           /\ o.type = "TRAILING_STOP" /\ o.trailingDelta # NoDelta =>
                IF o.side = "SELL"
                THEN highWaterSell'[symbol] - o.stopPrice <= o.trailingDelta
                ELSE o.stopPrice - highWaterBuy'[symbol] <= o.trailingDelta]_vars

Ids(stops) == {o.id : o \in stops}

\* A tick neither loses nor copies an order: what waited still waits or is
\* handed over, and the other symbols keep theirs as they are.
TickLosesNoOrder ==
  [][\A symbol \in Symbols :
       (\E price \in TickPrices : OnTradeTick(symbol, price)) =>
         /\ Ids(pending[symbol]) = Ids(pending'[symbol] \union activated')
         /\ Ids(pending'[symbol]) \intersect Ids(activated') = {}
         /\ \A other \in Symbols \ {symbol} : pending'[other] = pending[other]]_vars

=============================================================================
