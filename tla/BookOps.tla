------------------------------ MODULE BookOps ------------------------------
(***************************************************************************)
(* The types of packages/engine/src/types.ts and the pure helpers of       *)
(* packages/engine/src/OrderBook.ts.                                       *)
(*                                                                         *)
(* An order is referred to by its id, and an id is the position at which   *)
(* the order object was created: `orders[id]` is the object itself.        *)
(* A smaller id is an earlier arrival.  One side of the book is a sequence *)
(* of price levels, best price first, and a level holds the ids of its     *)
(* FIFO queue.  Prices and quantities are whole numbers of the smallest    *)
(* unit the Decimals carry.                                                *)
(***************************************************************************)
EXTENDS Integers, Sequences, SequencesExt

Side == {"BUY", "SELL"}
Opposite(side) == IF side = "BUY" THEN "SELL" ELSE "BUY"

OrderType == {"LIMIT", "MARKET", "STOP_LOSS", "ICEBERG", "TRAILING_STOP",
              "FILL_OR_KILL"}

OrderStatus == {"PENDING", "OPEN", "PARTIALLY_FILLED", "FILLED", "CANCELLED"}

\* displayQty = 0 stands for a displayQty that is undefined (or not positive,
\* which initIcebergDefaults treats alike).
Order == [side: Side, type: OrderType, price: Nat, quantity: Nat \ {0},
          filledQuantity: Nat, status: OrderStatus,
          displayQty: Nat, hiddenQty: Nat]

PriceLevel == [price: Nat, orders: Seq(Nat \ {0}), totalQuantity: Int]

Smaller(a, b) == IF a <= b THEN a ELSE b

Remaining(o) == o.quantity - o.filledQuantity

\* Price p stands after price q in the sort order of this side of the book.
Behind(side, p, q) == IF side = "BUY" THEN p < q ELSE p > q

\* findLevelIndex: 0 where the code returns -1.  The scan stops at the first
\* level that has the price or stands behind it.
FindLevelIndex(levels, price, side) ==
  LET i == SelectInSeq(levels, LAMBDA l : l.price = price
                                          \/ Behind(side, l.price, price))
  IN  IF i # 0 /\ levels[i].price = price THEN i ELSE 0

\* Mutant: a new level always goes to the end.
FindInsertIndexAtEnd(levels, price, side) == Len(levels) + 1

FindInsertIndex(levels, price, side) ==
  LET i == SelectInSeq(levels, LAMBDA l : Behind(side, l.price, price))
  IN  IF i = 0 THEN Len(levels) + 1 ELSE i

\* Mutant: an order that joins a level goes to the head of its queue.
InsertOrderAtHead(levels, id, o) ==
  LET i == FindLevelIndex(levels, o.price, o.side)
  IN  IF i # 0
      THEN [levels EXCEPT ![i].orders = <<id>> \o @,
                          ![i].totalQuantity = @ + Remaining(o)]
      ELSE InsertAt(levels, FindInsertIndex(levels, o.price, o.side),
                    [price |-> o.price, orders |-> <<id>>,
                     totalQuantity |-> Remaining(o)])

\* insertOrder: join the tail of the level's queue, or open a new level.
InsertOrder(levels, id, o) ==
  LET i == FindLevelIndex(levels, o.price, o.side)
  IN  IF i # 0
      THEN [levels EXCEPT ![i].orders = Append(@, id),
                          ![i].totalQuantity = @ + Remaining(o)]
      ELSE InsertAt(levels, FindInsertIndex(levels, o.price, o.side),
                    [price |-> o.price, orders |-> <<id>>,
                     totalQuantity |-> Remaining(o)])

\* Mutant: the cancelled order's whole quantity leaves the level total.
RemoveOrderWholeQuantity(levels, i, id, o) ==
  LET left == RemoveFirst(levels[i].orders, id)
  IN  IF left = << >>
      THEN RemoveAt(levels, i)
      ELSE [levels EXCEPT ![i].orders = left,
                          ![i].totalQuantity = @ - o.quantity]

\* Mutant: the head of the queue leaves, whichever order was asked for.
RemoveOrderHead(levels, i, id, o) ==
  LET left == Tail(levels[i].orders)
  IN  IF left = << >>
      THEN RemoveAt(levels, i)
      ELSE [levels EXCEPT ![i].orders = left,
                          ![i].totalQuantity = @ - Remaining(o)]

\* cancelOrder's edit of the level list: the order leaves level i, and the
\* level leaves the book when nothing is left in it.
RemoveOrder(levels, i, id, o) ==
  LET left == RemoveFirst(levels[i].orders, id)
  IN  IF left = << >>
      THEN RemoveAt(levels, i)
      ELSE [levels EXCEPT ![i].orders = left,
                          ![i].totalQuantity = @ - Remaining(o)]

\* The end of matchAtLevel: a depleted best level is shifted off.
DropDepleted(levels) ==
  IF levels[1].orders = << >> THEN Tail(levels) ELSE levels

\* Mutant: any liquidity at all lets a FILL_OR_KILL order through.
CanFillSome(opposite, quantity) == opposite # << >>

\* canFillEntirely: some prefix of the opposite levels shows enough quantity.
CanFillEntirely(opposite, quantity) ==
  \E n \in DOMAIN opposite :
    FoldLeft(LAMBDA sum, l : sum + l.totalQuantity, 0, SubSeq(opposite, 1, n))
      >= quantity

\* Mutant: no minimum of one unit.
DefaultDisplayNoMinimum(displayQty, quantity, One) ==
  IF displayQty # 0 THEN displayQty ELSE quantity \div 10

\* initIcebergDefaults, displayQty.  One is one whole unit of the instrument.
DefaultDisplay(displayQty, quantity, One) ==
  IF displayQty # 0 THEN displayQty
  ELSE IF quantity \div 10 >= One THEN quantity \div 10 ELSE One

\* Mutant: a slice has the full display size, whatever is left hidden.
NextSliceUnbounded(o) ==
  [o EXCEPT !.quantity = o.displayQty, !.filledQuantity = 0, !.status = "OPEN",
            !.hiddenQty = @ - o.displayQty]

\* Mutant: the slice does not come out of the hidden quantity.
NextSliceFree(o) ==
  LET size == Smaller(o.displayQty, o.hiddenQty)
  IN  [o EXCEPT !.quantity = size, !.filledQuantity = 0, !.status = "OPEN",
                !.hiddenQty = IF @ = size THEN 0 ELSE @]

\* The order a full fill of an iceberg slice puts back: type, side, price and
\* displayQty are the slice's own, its quantity comes out of hiddenQty.
NextSlice(o) ==
  LET size == Smaller(o.displayQty, o.hiddenQty)
  IN  [o EXCEPT !.quantity = size, !.filledQuantity = 0, !.status = "OPEN",
                !.hiddenQty = @ - size]
=============================================================================
