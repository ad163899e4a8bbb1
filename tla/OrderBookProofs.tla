-------------------------- MODULE OrderBookProofs --------------------------
(***************************************************************************)
(* Theorems about the order book, for every set of requests and every      *)
(* bound on the number of orders.                                          *)
(*                                                                         *)
(* The properties of OrderBook are not inductive one by one: that the head *)
(* of the first level is the order to fill rests on the level list being   *)
(* sorted, that cancelOrder finds what it looks for on the index agreeing  *)
(* with the queues, and that a queue stays in order of arrival on the order*)
(* being matched having a larger id than its own side.  Inv says all of it *)
(* at once.                                                                *)
(***************************************************************************)
EXTENDS OrderBook, BookOpsProofs

OrderSound(o) ==
  /\ o.filledQuantity <= o.quantity
  /\ o.type = "ICEBERG" => o.displayQty > 0

OrdersSound == \A id \in 1..Len(orders) : OrderSound(orders[id])

SidesGood == \A side \in Side : GoodSide(side, levels[side])

\* What side, price and id mean: an order is queued on one side at one price
\* exactly when it is indexed and has that side and price.
BookMatchesIndex ==
  \A side \in Side : \A p, x :
    Holds(levels[side], p, x) <=>
      x \in orderIndex /\ orders[x].side = side /\ orders[x].price = p

IndexedOpen ==
  \A x \in orderIndex :
    /\ Remaining(orders[x]) > 0
    /\ orders[x].status \in {"OPEN", "PARTIALLY_FILLED"}

\* The order being matched is not on the book, and an order that may come to
\* rest is younger than its side of the book.
IncomingApart ==
  /\ incoming \notin orderIndex
  /\ call = "addOrder" =>
       \A x \in orderIndex : orders[x].side = In.side => x < incoming

Inv ==
  /\ TypeOK
  /\ OrdersSound
  /\ SidesGood
  /\ BookMatchesIndex
  /\ IndexedOpen
  /\ IncomingApart

-----------------------------------------------------------------------------
(***************************************************************************)
(* Order objects.                                                          *)
(***************************************************************************)
WithStatus(o, status) == [o EXCEPT !.status = status]
WithFill(o, size) == [o EXCEPT !.filledQuantity = @ + size]

SameTerms(n, o) ==
  /\ n.side = o.side
  /\ n.type = o.type
  /\ n.price = o.price
  /\ n.quantity = o.quantity
  /\ n.displayQty = o.displayQty
  /\ n.hiddenQty = o.hiddenQty

LEMMA OrderFields ==
  ASSUME NEW o \in Order
  PROVE  /\ o.side \in Side /\ o.type \in OrderType /\ o.status \in OrderStatus
         /\ o.price \in Nat /\ o.quantity \in Nat \ {0}
         /\ o.filledQuantity \in Nat /\ o.displayQty \in Nat /\ o.hiddenQty \in Nat
         /\ Opposite(o.side) \in Side /\ Opposite(o.side) # o.side
         /\ Remaining(o) \in Int
  BY DEF Order, Side, Opposite, Remaining

LEMMA StatusSet ==
  ASSUME NEW o \in Order, NEW status \in OrderStatus
  PROVE  /\ WithStatus(o, status) \in Order
         /\ SameTerms(WithStatus(o, status), o)
         /\ WithStatus(o, status).filledQuantity = o.filledQuantity
         /\ WithStatus(o, status).status = status
  BY DEF Order, WithStatus, SameTerms

LEMMA FillAdded ==
  ASSUME NEW o \in Order, NEW size \in Nat
  PROVE  /\ WithFill(o, size) \in Order
         /\ SameTerms(WithFill(o, size), o)
         /\ WithFill(o, size).filledQuantity = o.filledQuantity + size
         /\ WithFill(o, size).status = o.status
  BY DEF Order, WithFill, SameTerms

LEMMA PromotedFields ==
  ASSUME NEW o \in Order
  PROVE  /\ Promoted(o) \in Order
         /\ Promoted(o).side = o.side
         /\ Promoted(o).type = "MARKET"
         /\ Promoted(o).quantity = o.quantity
         /\ Promoted(o).filledQuantity = o.filledQuantity
  BY DEF Order, Promoted, OrderType, OrderStatus

LEMMA CreatedOrder ==
  ASSUME NEW r \in Request
  PROVE  /\ CreateOrder(r) \in Order
         /\ CreateOrder(r).filledQuantity = 0
         /\ CreateOrder(r).type = r.type
  BY DEF Request, Order, CreateOrder, OrderStatus

\* The next slice of an iceberg that has something hidden, wherever its hidden
\* quantity comes from.
LEMMA SliceFields ==
  ASSUME NEW o \in Order, o.displayQty > 0, o.hiddenQty > 0
  PROVE  /\ NextSlice(o) \in Order
         /\ NextSlice(o).side = o.side
         /\ NextSlice(o).type = o.type
         /\ NextSlice(o).price = o.price
         /\ NextSlice(o).displayQty = o.displayQty
         /\ NextSlice(o).filledQuantity = 0
         /\ NextSlice(o).status = "OPEN"
         /\ Remaining(NextSlice(o)) > 0
         /\ Remaining(NextSlice(o)) + NextSlice(o).hiddenQty = o.hiddenQty
<1> DEFINE size == Smaller(o.displayQty, o.hiddenQty)
<1>1. size \in Nat \ {0} /\ size <= o.hiddenQty
  BY OrderFields DEF Smaller
<1> HIDE DEF size
<1>2. "OPEN" \in OrderStatus /\ o.hiddenQty - size \in Nat
  BY <1>1, OrderFields DEF OrderStatus
<1> DEFINE sized == [o EXCEPT !.quantity = size]
           fresh == [sized EXCEPT !.filledQuantity = 0]
           open == [fresh EXCEPT !.status = "OPEN"]
           slice == [open EXCEPT !.hiddenQty = o.hiddenQty - size]
<1>3. /\ sized \in Order /\ sized.quantity = size
      /\ sized.side = o.side /\ sized.type = o.type /\ sized.price = o.price
      /\ sized.displayQty = o.displayQty
  BY <1>1 DEF Order
<1>4. /\ fresh \in Order /\ fresh.quantity = size /\ fresh.filledQuantity = 0
      /\ fresh.side = o.side /\ fresh.type = o.type /\ fresh.price = o.price
      /\ fresh.displayQty = o.displayQty
  <2> HIDE DEF sized
  <2> QED
    BY <1>3 DEF Order
<1>5. /\ open \in Order /\ open.quantity = size /\ open.filledQuantity = 0
      /\ open.side = o.side /\ open.type = o.type /\ open.price = o.price
      /\ open.displayQty = o.displayQty /\ open.status = "OPEN"
  <2> HIDE DEF fresh
  <2> QED
    BY <1>2, <1>4 DEF Order
<1>6. /\ slice \in Order /\ slice.quantity = size /\ slice.filledQuantity = 0
      /\ slice.side = o.side /\ slice.type = o.type /\ slice.price = o.price
      /\ slice.displayQty = o.displayQty /\ slice.status = "OPEN"
      /\ slice.hiddenQty = o.hiddenQty - size
  <2> HIDE DEF open
  <2> QED
    BY <1>2, <1>5 DEF Order
<1>7. NextSlice(o) = slice
  BY DEF NextSlice, size
<1> HIDE DEF slice
<1> QED
  BY <1>1, <1>6, <1>7, OrderFields DEF Remaining

\* How initIcebergDefaults prepares the order that is split.
LEMMA IcebergPrepared ==
  ASSUME NEW o \in Order, NEW display \in Nat \ {0}
  PROVE  LET whole == [o EXCEPT !.displayQty = display, !.hiddenQty = o.quantity]
         IN  /\ whole \in Order
             /\ whole.displayQty > 0 /\ whole.hiddenQty > 0
             /\ whole.side = o.side /\ whole.price = o.price /\ whole.type = o.type
<1> DEFINE shown == [o EXCEPT !.displayQty = display]
           whole == [shown EXCEPT !.hiddenQty = o.quantity]
<1>1. /\ shown \in Order /\ shown.displayQty = display
      /\ shown.side = o.side /\ shown.type = o.type /\ shown.price = o.price
  BY DEF Order
<1>2. o.quantity \in Nat /\ o.quantity > 0
  BY OrderFields
<1>3. /\ whole \in Order /\ whole.displayQty = display
      /\ whole.hiddenQty = o.quantity
      /\ whole.side = o.side /\ whole.type = o.type /\ whole.price = o.price
  <2> HIDE DEF shown
  <2> QED
    BY <1>1, <1>2 DEF Order
<1>4. whole = [o EXCEPT !.displayQty = display, !.hiddenQty = o.quantity]
  OBVIOUS
<1> HIDE DEF whole
<1> QED
  BY <1>2, <1>3, <1>4

LEMMA DisplayIsPositive ==
  ASSUME NEW o \in Order
  PROVE  DefaultDisplay(o.displayQty, o.quantity, One) \in Nat \ {0}
  BY BookAssumption, OrderFields DEF DefaultDisplay
-----------------------------------------------------------------------------
(***************************************************************************)
(* The sequence of order objects.                                          *)
(***************************************************************************)
LEMMA OrderAt ==
  ASSUME NEW s \in Seq(Order), NEW id \in 1..Len(s)
  PROVE  s[id] \in Order
  BY ElementOfSeq

\* An order is created: the others stay what they are.
LEMMA OrderAppended ==
  ASSUME NEW s \in Seq(Order), NEW o \in Order
  PROVE  /\ Append(s, o) \in Seq(Order)
         /\ Len(Append(s, o)) = Len(s) + 1
         /\ \A id \in 1..Len(s) : Append(s, o)[id] = s[id]
         /\ Append(s, o)[Len(s) + 1] = o
         /\ Len(s) \in Nat
  BY LenProperties, AppendProperties

\* An order object is replaced by a changed one.
LEMMA OrderReplaced ==
  ASSUME NEW s \in Seq(Order), NEW id \in 1..Len(s), NEW o \in Order
  PROVE  LET new == [s EXCEPT ![id] = o]
         IN  /\ new \in Seq(Order)
             /\ Len(new) = Len(s)
             /\ \A x \in 1..Len(s) : new[x] = IF x = id THEN o ELSE s[x]
  BY ExceptSeq

\* The two objects a fill changes.
AfterFill(s, taker, maker, size, status) ==
  [s EXCEPT ![taker].filledQuantity = @ + size,
            ![maker].filledQuantity = @ + size,
            ![maker].status = status]

LEMMA AfterFillProperties ==
  ASSUME NEW s \in Seq(Order), NEW taker \in 1..Len(s), NEW maker \in 1..Len(s),
         taker # maker, NEW size \in Nat, NEW status \in OrderStatus
  PROVE  LET new == AfterFill(s, taker, maker, size, status)
         IN  /\ new \in Seq(Order)
             /\ Len(new) = Len(s)
             /\ \A x \in 1..Len(s) :
                  new[x] = IF x = taker THEN WithFill(s[x], size)
                           ELSE IF x = maker
                                THEN WithStatus(WithFill(s[x], size), status)
                                ELSE s[x]
<1> DEFINE taken == [s EXCEPT ![taker] = WithFill(s[taker], size)]
           filled == WithFill(s[maker], size)
           made == [taken EXCEPT ![maker] = WithStatus(filled, status)]
<1>1. s[taker] \in Order /\ s[maker] \in Order
  BY OrderAt
<1>2. /\ WithFill(s[taker], size) \in Order /\ filled \in Order
      /\ WithStatus(filled, status) \in Order
  BY <1>1, FillAdded, StatusSet
<1>3. /\ taken \in Seq(Order) /\ Len(taken) = Len(s)
      /\ \A x \in 1..Len(s) :
           taken[x] = IF x = taker THEN WithFill(s[x], size) ELSE s[x]
  BY <1>2, OrderReplaced
<1>4. /\ made \in Seq(Order) /\ Len(made) = Len(s)
      /\ \A x \in 1..Len(s) :
           made[x] = IF x = maker THEN WithStatus(filled, status) ELSE taken[x]
  <2> HIDE DEF taken, filled
  <2> QED
    BY <1>2, <1>3, OrderReplaced
<1>5. AfterFill(s, taker, maker, size, status) = made
  <2>1. DOMAIN s = 1..Len(s)
    BY LenProperties
  <2> QED
    BY <2>1 DEF AfterFill, WithFill, WithStatus
<1> QED
  BY <1>3, <1>4, <1>5
-----------------------------------------------------------------------------
(***************************************************************************)
(* Steps that leave the book itself alone.                                 *)
(***************************************************************************)
Sound ==
  /\ orders \in Seq(Order)
  /\ orderIndex \subseteq 1..Len(orders)
  /\ OrdersSound
  /\ SidesGood
  /\ BookMatchesIndex
  /\ IndexedOpen

LEMMA BookUntouched ==
  ASSUME SidesGood, BookMatchesIndex, IndexedOpen,
         levels' = levels, orderIndex' = orderIndex,
         \A x \in orderIndex : orders'[x] = orders[x]
  PROVE  SidesGood' /\ BookMatchesIndex' /\ IndexedOpen'
<1>1. SidesGood'
  BY DEF SidesGood
<1>2. BookMatchesIndex'
  BY DEF BookMatchesIndex
<1>3. IndexedOpen'
  BY DEF IndexedOpen
<1> QED
  BY <1>1, <1>2, <1>3

LEMMA OrderCreated ==
  ASSUME Inv, NEW o \in Order, OrderSound(o),
         orders' = Append(orders, o), levels' = levels, orderIndex' = orderIndex
  PROVE  /\ Sound'
         /\ Len(orders') = NewId
         /\ \A id \in 1..Len(orders) : orders'[id] = orders[id]
         /\ orders'[NewId] = o
<1>1. /\ orders \in Seq(Order) /\ orderIndex \subseteq 1..Len(orders)
      /\ OrdersSound /\ SidesGood /\ BookMatchesIndex /\ IndexedOpen
  BY DEF Inv, TypeOK
<1>2. /\ orders' \in Seq(Order) /\ Len(orders') = Len(orders) + 1
      /\ \A id \in 1..Len(orders) : orders'[id] = orders[id]
      /\ orders'[Len(orders) + 1] = o /\ Len(orders) \in Nat
  BY <1>1, OrderAppended
<1>3. orderIndex' \subseteq 1..Len(orders')
  BY <1>1, <1>2
<1>4. OrdersSound'
  <2> SUFFICES ASSUME NEW id \in 1..Len(orders')
               PROVE  OrderSound(orders'[id])
    BY DEF OrdersSound, OrderSound
  <2>1. id \in 1..Len(orders) \/ id = Len(orders) + 1
    BY <1>2
  <2> QED
    BY <1>1, <1>2, <2>1 DEF OrdersSound
<1>5. SidesGood' /\ BookMatchesIndex' /\ IndexedOpen'
  BY <1>1, <1>2, BookUntouched
<1> QED
  BY <1>2, <1>3, <1>4, <1>5 DEF Sound, NewId

LEMMA OrderChanged ==
  ASSUME Inv, NEW id \in 1..Len(orders), id \notin orderIndex,
         NEW o \in Order, OrderSound(o),
         orders' = [orders EXCEPT ![id] = o],
         levels' = levels, orderIndex' = orderIndex
  PROVE  /\ Sound'
         /\ Len(orders') = Len(orders)
         /\ \A x \in 1..Len(orders) :
              orders'[x] = IF x = id THEN o ELSE orders[x]
<1>1. /\ orders \in Seq(Order) /\ orderIndex \subseteq 1..Len(orders)
      /\ OrdersSound /\ SidesGood /\ BookMatchesIndex /\ IndexedOpen
  BY DEF Inv, TypeOK
<1>2. /\ orders' \in Seq(Order) /\ Len(orders') = Len(orders)
      /\ \A x \in 1..Len(orders) :
           orders'[x] = IF x = id THEN o ELSE orders[x]
  BY <1>1, OrderReplaced
<1>3. OrdersSound'
  BY <1>1, <1>2 DEF OrdersSound, OrderSound
<1>4. SidesGood' /\ BookMatchesIndex' /\ IndexedOpen'
  BY <1>1, <1>2, BookUntouched
<1> QED
  BY <1>1, <1>2, <1>3, <1>4 DEF Sound

LEMMA StartMatchingStep ==
  ASSUME Inv, Idle, NEW o \in Order, o.filledQuantity = 0, o.type # "ICEBERG",
         StartMatching(o)
  PROVE  Inv'
<1>1. o.quantity \in Nat
  BY OrderFields
<1>2. OrderSound(o)
  BY <1>1 DEF OrderSound
<1>3. /\ orders' = Append(orders, o) /\ levels' = levels
      /\ orderIndex' = orderIndex
      /\ incoming' = NewId /\ call' = "addOrder" /\ trades' = << >>
  BY DEF StartMatching
<1>4. /\ Sound' /\ Len(orders') = NewId
  BY <1>2, <1>3, OrderCreated
<1>5. /\ orders \in Seq(Order) /\ orderIndex \subseteq 1..Len(orders)
      /\ levels \in [Side -> Seq(PriceLevel)] /\ Len(orders) \in Nat
  BY LenProperties DEF Inv, TypeOK
<1>6. TypeOK'
  BY <1>3, <1>4, <1>5 DEF TypeOK, Sound, Call, NoOrder, NewId
<1>7. IncomingApart'
  <2>1. \A x \in orderIndex' : x < incoming'
    BY <1>3, <1>5 DEF NewId
  <2>2. incoming' \notin orderIndex'
    BY <1>3, <1>5 DEF NewId
  <2> QED
    BY <2>1, <2>2 DEF IncomingApart
<1> QED
  BY <1>4, <1>6, <1>7 DEF Inv, Sound

LEMMA RejectFillOrKillStep ==
  ASSUME Inv, Idle, NEW o \in Order, o.filledQuantity = 0, RejectFillOrKill(o)
  PROVE  Inv'
<1> DEFINE rejected == WithStatus(o, "CANCELLED")
<1>1. /\ rejected \in Order /\ OrderSound(rejected)
  <2>1. /\ rejected \in Order /\ SameTerms(rejected, o)
        /\ rejected.filledQuantity = o.filledQuantity
    BY StatusSet DEF OrderStatus
  <2>2. o.quantity \in Nat /\ o.type # "ICEBERG"
    BY OrderFields DEF RejectFillOrKill
  <2> QED
    BY <2>1, <2>2 DEF OrderSound, SameTerms
<1>2. /\ orders' = Append(orders, rejected) /\ levels' = levels
      /\ orderIndex' = orderIndex
      /\ incoming' = incoming /\ call' = call /\ trades' = << >>
  BY DEF RejectFillOrKill, WithStatus
<1> HIDE DEF rejected
<1>3. /\ Sound' /\ Len(orders') = NewId
  BY <1>1, <1>2, OrderCreated
<1>4. /\ TypeOK /\ IncomingApart /\ incoming = NoOrder /\ call = "none"
      /\ Len(orders) \in Nat
  BY LenProperties DEF Inv, TypeOK, Idle
<1>5. TypeOK'
  BY <1>2, <1>3, <1>4 DEF TypeOK, Sound, NoOrder, NewId
<1>6. IncomingApart'
  BY <1>2, <1>4 DEF IncomingApart
<1> QED
  BY <1>3, <1>5, <1>6 DEF Inv, Sound

LEMMA HoldStopStep ==
  ASSUME Inv, NEW o \in Order, o.filledQuantity = 0, HoldStop(o)
  PROVE  Inv'
<1>1. o.quantity \in Nat /\ o.type # "ICEBERG"
  BY OrderFields DEF HoldStop, IsStop
<1>2. OrderSound(o)
  BY <1>1 DEF OrderSound
<1>3. /\ orders' = Append(orders, o) /\ levels' = levels
      /\ orderIndex' = orderIndex
      /\ incoming' = incoming /\ call' = call /\ trades' = trades
  BY DEF HoldStop
<1>4. /\ Sound' /\ Len(orders') = NewId
  BY <1>2, <1>3, OrderCreated
<1>5. /\ TypeOK /\ IncomingApart /\ incoming = NoOrder /\ call = "none"
      /\ Len(orders) \in Nat
  BY LenProperties DEF Inv, TypeOK, Idle, HoldStop
<1>6. TypeOK'
  BY <1>3, <1>4, <1>5 DEF TypeOK, Sound, NoOrder, NewId
<1>7. IncomingApart'
  BY <1>3, <1>5 DEF IncomingApart
<1> QED
  BY <1>4, <1>6, <1>7 DEF Inv, Sound

LEMMA TriggerStopStep ==
  ASSUME Inv, NEW id \in 1..Len(orders), TriggerStop(id)
  PROVE  Inv'
<1>1. /\ orders \in Seq(Order) /\ Len(orders) \in Nat /\ orders[id] \in Order
      /\ levels \in [Side -> Seq(PriceLevel)] /\ OrderSound(orders[id])
  BY OrderAt, LenProperties DEF Inv, TypeOK, OrdersSound
<1>2. id \notin orderIndex
  BY DEF Inv, IndexedOpen, TriggerStop
<1> DEFINE o == Promoted(orders[id])
<1>3. o \in Order /\ OrderSound(o)
  BY <1>1, PromotedFields DEF OrderSound
<1>4. /\ orders' = [orders EXCEPT ![id] = o] /\ levels' = levels
      /\ orderIndex' = orderIndex
      /\ incoming' = id /\ call' = "matchMarketOrder" /\ trades' = << >>
  BY DEF TriggerStop, MatchMarketOrder
<1> HIDE DEF o
<1>5. Sound' /\ Len(orders') = Len(orders)
  BY <1>2, <1>3, <1>4, OrderChanged
<1>6. TypeOK'
  BY <1>1, <1>4, <1>5 DEF TypeOK, Sound, NoOrder, Call
<1>7. IncomingApart'
  BY <1>2, <1>4 DEF IncomingApart
<1> QED
  BY <1>5, <1>6, <1>7 DEF Inv, Sound
-----------------------------------------------------------------------------
(***************************************************************************)
(* Steps that put an order on the book.                                    *)
(***************************************************************************)

\* The order joins its level behind everything that is there already.
LEMMA OrderInserted ==
  ASSUME Inv, NEW id \in Nat \ {0}, NEW o \in Order, id \notin orderIndex,
         \A x \in orderIndex : orders[x].side = o.side => x < id,
         levels' = [levels EXCEPT ![o.side] = InsertOrder(@, id, o)],
         orderIndex' = orderIndex \union {id},
         \A x \in orderIndex : orders'[x] = orders[x],
         SameTerms(orders'[id], o), Remaining(orders'[id]) > 0,
         orders'[id].status \in {"OPEN", "PARTIALLY_FILLED"}
  PROVE  SidesGood' /\ BookMatchesIndex' /\ IndexedOpen'
         /\ levels' \in [Side -> Seq(PriceLevel)]
<1> DEFINE side == o.side
           list == levels[side]
           new == InsertOrder(list, id, o)
<1>1. /\ side \in Side /\ levels \in [Side -> Seq(PriceLevel)]
      /\ GoodSide(side, list)
      /\ BookMatchesIndex /\ IndexedOpen /\ SidesGood
  BY OrderFields DEF Inv, TypeOK, SidesGood
<1>2. \A p, x : Holds(list, p, x) =>
        x \in orderIndex /\ orders[x].side = side /\ orders[x].price = p
  BY <1>1 DEF BookMatchesIndex
<1>3. \A p, x : Holds(list, p, x) => x < id
  BY <1>2
<1>4. /\ GoodSide(side, new)
      /\ \A p, x : Holds(new, p, x) <=>
           \/ Holds(list, p, x)
           \/ p = o.price /\ x = id
  <2> HIDE DEF list
  <2> QED
    BY <1>1, <1>3, InsertOrderEffect
<1> HIDE DEF new
<1>5. \A s \in Side : levels'[s] = IF s = side THEN new ELSE levels[s]
  BY <1>1 DEF new
<1>6. SidesGood'
  BY <1>1, <1>4, <1>5 DEF SidesGood
<1>7. BookMatchesIndex'
  <2> SUFFICES ASSUME NEW s \in Side, NEW p, NEW x
               PROVE  Holds(levels'[s], p, x) <=>
                        /\ x \in orderIndex'
                        /\ orders'[x].side = s
                        /\ orders'[x].price = p
    BY DEF BookMatchesIndex
  <2>1. Holds(levels[s], p, x) <=>
          x \in orderIndex /\ orders[x].side = s /\ orders[x].price = p
    BY <1>1 DEF BookMatchesIndex
  <2>2. Holds(levels'[s], p, x) <=>
          \/ Holds(levels[s], p, x)
          \/ s = side /\ p = o.price /\ x = id
    <3>1. CASE s = side
      BY <1>4, <1>5, <3>1
    <3>2. CASE s # side
      BY <1>5, <3>2
    <3> QED
      BY <3>1, <3>2
  <2>3. CASE x = id
    BY <2>1, <2>2, <2>3 DEF SameTerms
  <2>4. CASE x # id
    BY <2>1, <2>2, <2>4
  <2> QED
    BY <2>3, <2>4
<1>8. IndexedOpen'
  BY <1>1 DEF IndexedOpen
<1>9. levels' \in [Side -> Seq(PriceLevel)]
  BY <1>1, <1>4 DEF new, GoodSide
<1> QED
  BY <1>6, <1>7, <1>8, <1>9

LEMMA AddIcebergStep ==
  ASSUME Inv, Idle, NEW o \in Order, AddIceberg(o)
  PROVE  Inv'
<1> DEFINE display == DefaultDisplay(o.displayQty, o.quantity, One)
           whole == [o EXCEPT !.displayQty = display, !.hiddenQty = o.quantity]
           slice == NextSlice(whole)
<1>1. display \in Nat \ {0}
  BY DisplayIsPositive
<1> HIDE DEF display
<1>2. /\ whole \in Order /\ whole.displayQty > 0 /\ whole.hiddenQty > 0
      /\ whole.side = o.side /\ whole.price = o.price /\ whole.type = o.type
  BY <1>1, IcebergPrepared
<1> HIDE DEF whole
<1>3. /\ slice \in Order /\ slice.side = o.side
      /\ slice.displayQty > 0 /\ slice.filledQuantity = 0
      /\ slice.status = "OPEN" /\ Remaining(slice) > 0
  BY <1>2, SliceFields
<1>4. /\ orders' = Append(orders, slice)
      /\ levels' = [levels EXCEPT ![o.side] = InsertOrder(@, NewId, slice)]
      /\ orderIndex' = orderIndex \union {NewId}
      /\ trades' = << >> /\ incoming' = incoming /\ call' = call
  BY DEF AddIceberg, display, whole
<1> HIDE DEF slice
<1>5. /\ orders \in Seq(Order) /\ Len(orders) \in Nat
      /\ orderIndex \subseteq 1..Len(orders) /\ OrdersSound
      /\ incoming = NoOrder /\ call = "none"
  BY LenProperties DEF Inv, TypeOK, OrdersSound, Idle
<1>6. /\ orders' \in Seq(Order) /\ Len(orders') = Len(orders) + 1
      /\ \A id \in 1..Len(orders) : orders'[id] = orders[id]
      /\ orders'[Len(orders) + 1] = slice
  BY <1>3, <1>4, <1>5, OrderAppended
<1>7. /\ NewId \in Nat \ {0} /\ NewId \notin orderIndex
      /\ \A x \in orderIndex : x < NewId
      /\ \A x \in orderIndex : orders'[x] = orders[x]
      /\ orders'[NewId] = slice
  BY <1>5, <1>6 DEF NewId
<1>8. /\ SidesGood' /\ BookMatchesIndex' /\ IndexedOpen'
      /\ levels' \in [Side -> Seq(PriceLevel)]
  <2>1. SameTerms(slice, slice)
    BY DEF SameTerms
  <2>2. levels' = [levels EXCEPT ![slice.side] = InsertOrder(@, NewId, slice)]
    BY <1>3, <1>4
  <2> QED
    BY <1>3, <1>4, <1>7, <2>1, <2>2, OrderInserted
<1>9. orderIndex' \subseteq 1..Len(orders')
  <2>1. /\ 1..Len(orders) \subseteq 1..Len(orders')
        /\ NewId \in 1..Len(orders')
    BY <1>5, <1>6 DEF NewId
  <2> QED
    BY <1>4, <1>5, <2>1
<1>10. TypeOK'
  BY <1>4, <1>5, <1>6, <1>8, <1>9 DEF TypeOK, NoOrder, Call
<1>11. OrdersSound'
  <2> SUFFICES ASSUME NEW id \in 1..Len(orders')
               PROVE  OrderSound(orders'[id])
    BY DEF OrdersSound, OrderSound
  <2>1. id \in 1..Len(orders) \/ id = Len(orders) + 1
    BY <1>5, <1>6
  <2>2. slice.quantity \in Nat
    BY <1>3, OrderFields
  <2> QED
    BY <1>3, <1>5, <1>6, <2>1, <2>2 DEF OrdersSound, OrderSound
<1>12. IncomingApart'
  BY <1>4, <1>5, <1>7 DEF IncomingApart, NoOrder
<1> QED
  BY <1>8, <1>10, <1>11, <1>12 DEF Inv

-----------------------------------------------------------------------------
(***************************************************************************)
(* The end of a call.                                                      *)
(***************************************************************************)
LEMMA IncomingFacts ==
  ASSUME Inv, ~ Idle
  PROVE  /\ orders \in Seq(Order) /\ Len(orders) \in Nat
         /\ incoming \in 1..Len(orders) /\ incoming \notin orderIndex
         /\ In \in Order /\ OrderSound(In)
<1>1. /\ orders \in Seq(Order) /\ incoming \in 0..Len(orders)
      /\ incoming # 0 /\ incoming \notin orderIndex
  BY DEF Inv, TypeOK, IncomingApart, Idle, NoOrder
<1>2. Len(orders) \in Nat
  BY <1>1, LenProperties
<1>3. incoming \in 1..Len(orders)
  BY <1>1, <1>2
<1>4. In \in Order /\ OrderSound(In)
  BY <1>1, <1>3, OrderAt DEF In, Inv, OrdersSound
<1> QED
  BY <1>1, <1>2, <1>3, <1>4

\* The call ends with a new status and nothing else.
LEMMA CallEndsOffTheBook ==
  ASSUME Inv, ~ Idle, NEW status \in OrderStatus,
         orders' = [orders EXCEPT ![incoming].status = status], Return,
         levels' = levels, orderIndex' = orderIndex, trades' = trades
  PROVE  Inv'
<1> DEFINE o == WithStatus(In, status)
<1>1. /\ orders \in Seq(Order) /\ incoming \in 1..Len(orders)
      /\ incoming \notin orderIndex /\ In \in Order /\ OrderSound(In)
  BY IncomingFacts
<1>2. o \in Order /\ OrderSound(o)
  BY <1>1, StatusSet DEF OrderSound, SameTerms
<1>3. orders' = [orders EXCEPT ![incoming] = o]
  BY <1>1 DEF WithStatus, In
<1> HIDE DEF o
<1>4. Sound' /\ Len(orders') = Len(orders)
  BY <1>1, <1>2, <1>3, OrderChanged
<1>5. Len(orders) \in Nat /\ TypeOK
  BY <1>1, LenProperties DEF Inv
<1>6. TypeOK'
  BY <1>4, <1>5 DEF TypeOK, Sound, Return, NoOrder, Call
<1>7. IncomingApart'
  <2>1. 0 \notin orderIndex
    BY <1>5 DEF TypeOK
  <2> QED
    BY <2>1 DEF IncomingApart, Return, NoOrder
<1> QED
  BY <1>4, <1>6, <1>7 DEF Inv, Sound

LEMMA FinishFilledStep ==
  ASSUME Inv, FinishFilled
  PROVE  Inv'
  BY CallEndsOffTheBook DEF FinishFilled, Finished, OrderStatus

LEMMA CancelRemainderStep ==
  ASSUME Inv, CancelRemainder
  PROVE  Inv'
  BY CallEndsOffTheBook DEF CancelRemainder, Finished, OrderStatus

LEMMA ReturnUnfilledStep ==
  ASSUME Inv, ReturnUnfilled
  PROVE  Inv'
<1>1. /\ orders' = orders /\ levels' = levels /\ orderIndex' = orderIndex
      /\ trades' = trades /\ incoming' = NoOrder /\ call' = "none"
  BY DEF ReturnUnfilled, Return
<1>2. TypeOK /\ OrdersSound /\ SidesGood /\ BookMatchesIndex /\ IndexedOpen
  BY DEF Inv
<1>3. SidesGood' /\ BookMatchesIndex' /\ IndexedOpen'
  BY <1>1, <1>2, BookUntouched
<1>4. TypeOK' /\ OrdersSound'
  <2>1. Len(orders) \in Nat
    BY <1>2, LenProperties DEF TypeOK
  <2>2. TypeOK'
    BY <1>1, <1>2, <2>1 DEF TypeOK, NoOrder, Call
  <2>3. OrdersSound'
    BY <1>1, <1>2 DEF OrdersSound
  <2> QED
    BY <2>2, <2>3
<1>5. IncomingApart'
  BY <1>1, <1>2 DEF TypeOK, IncomingApart, NoOrder
<1> QED
  BY <1>3, <1>4, <1>5 DEF Inv

LEMMA RestLimitStep ==
  ASSUME Inv, RestLimit
  PROVE  Inv'
<1> DEFINE status == IF In.filledQuantity > 0 THEN "PARTIALLY_FILLED" ELSE "OPEN"
           o == WithStatus(In, status)
<1>1. /\ orders \in Seq(Order) /\ incoming \in 1..Len(orders)
      /\ incoming \notin orderIndex /\ In \in Order /\ OrderSound(In)
      /\ Len(orders) \in Nat
      /\ call = "addOrder" /\ Remaining(In) > 0
  BY IncomingFacts DEF RestLimit, Finished
<1>2. /\ orders' = [orders EXCEPT ![incoming] = o]
      /\ levels' = [levels EXCEPT ![In.side] = InsertOrder(@, incoming, In)]
      /\ orderIndex' = orderIndex \union {incoming}
      /\ trades' = trades /\ incoming' = NoOrder /\ call' = "none"
  <2>1. orders' = [orders EXCEPT ![incoming].status = status]
    BY DEF RestLimit
  <2>2. orders' = [orders EXCEPT ![incoming] = o]
    BY <1>1, <2>1 DEF WithStatus, In
  <2> QED
    BY <2>2 DEF RestLimit, Return
<1>3. /\ status \in OrderStatus /\ status \in {"OPEN", "PARTIALLY_FILLED"}
  BY DEF OrderStatus
<1> HIDE DEF status
<1>4. /\ o \in Order /\ SameTerms(o, In) /\ o.status = status
      /\ o.filledQuantity = In.filledQuantity
  BY <1>1, <1>3, StatusSet
<1> HIDE DEF o
<1>5. /\ orders' \in Seq(Order) /\ Len(orders') = Len(orders)
      /\ \A x \in 1..Len(orders) :
           orders'[x] = IF x = incoming THEN o ELSE orders[x]
  BY <1>1, <1>2, <1>4, OrderReplaced
<1>6. /\ TypeOK /\ OrdersSound /\ orderIndex \subseteq 1..Len(orders)
      /\ \A x \in orderIndex : orders[x].side = In.side => x < incoming
  BY <1>1 DEF Inv, TypeOK, IncomingApart
<1>7. /\ SidesGood' /\ BookMatchesIndex' /\ IndexedOpen'
      /\ levels' \in [Side -> Seq(PriceLevel)]
  <2>1. \A x \in orderIndex : orders'[x] = orders[x]
    BY <1>1, <1>5, <1>6
  <2>2. orders'[incoming] = o
    BY <1>1, <1>5
  <2>3. Remaining(o) > 0
    BY <1>1, <1>4 DEF Remaining, SameTerms
  <2>4. incoming \in Nat \ {0}
    BY <1>1
  <2> QED
    BY <1>1, <1>2, <1>3, <1>4, <1>6, <2>1, <2>2, <2>3, <2>4, OrderInserted
<1>8. TypeOK'
  <2>1. orderIndex' \subseteq 1..Len(orders')
    BY <1>1, <1>2, <1>5, <1>6
  <2>2. 0 \in 0..Len(orders')
    BY <1>1, <1>5
  <2> QED
    BY <1>2, <1>5, <1>6, <1>7, <2>1, <2>2 DEF TypeOK, NoOrder, Call
<1>9. OrdersSound'
  BY <1>1, <1>4, <1>5, <1>6 DEF OrdersSound, OrderSound, SameTerms
<1>10. IncomingApart'
  <2>1. 0 \notin orderIndex'
    BY <1>1, <1>2, <1>6
  <2> QED
    BY <1>2, <2>1 DEF IncomingApart, NoOrder
<1> QED
  BY <1>7, <1>8, <1>9, <1>10 DEF Inv
-----------------------------------------------------------------------------
(***************************************************************************)
(* Fills.                                                                  *)
(***************************************************************************)

\* One side of the book is replaced, and its new queues hold what the index
\* says they should; the index says nothing new of the other side.
LEMMA SideReplaced ==
  ASSUME Inv, NEW side \in Side, NEW new, GoodSide(side, new),
         levels' = [levels EXCEPT ![side] = new],
         \A p, x : Holds(new, p, x) <=>
           x \in orderIndex' /\ orders'[x].side = side /\ orders'[x].price = p,
         \A s \in Side : \A p, x : s # side =>
           (/\ x \in orderIndex' /\ orders'[x].side = s /\ orders'[x].price = p)
             <=> (/\ x \in orderIndex /\ orders[x].side = s /\ orders[x].price = p)
  PROVE  /\ SidesGood' /\ BookMatchesIndex'
         /\ levels' \in [Side -> Seq(PriceLevel)]
<1>1. /\ levels \in [Side -> Seq(PriceLevel)] /\ SidesGood /\ BookMatchesIndex
  BY DEF Inv, TypeOK
<1>2. \A s \in Side : levels'[s] = IF s = side THEN new ELSE levels[s]
  BY <1>1
<1>3. SidesGood'
  BY <1>1, <1>2 DEF SidesGood
<1>4. BookMatchesIndex'
  <2> SUFFICES ASSUME NEW s \in Side, NEW p, NEW x
               PROVE  Holds(levels'[s], p, x) <=>
                        /\ x \in orderIndex'
                        /\ orders'[x].side = s
                        /\ orders'[x].price = p
    BY DEF BookMatchesIndex
  <2>1. CASE s = side
    BY <1>2, <2>1
  <2>2. CASE s # side
    <3>1. levels'[s] = levels[s]
      BY <1>2, <2>2
    <3>2. Holds(levels[s], p, x) <=>
            /\ x \in orderIndex
            /\ orders[x].side = s
            /\ orders[x].price = p
      BY <1>1 DEF BookMatchesIndex
    <3> QED
      BY <2>2, <3>1, <3>2
  <2> QED
    BY <2>1, <2>2
<1>5. levels' \in [Side -> Seq(PriceLevel)]
  BY <1>1 DEF GoodSide
<1> QED
  BY <1>3, <1>4, <1>5

\* What a step of the loop finds: the head of the first level is a resting
\* order of the opposite side, and both orders have something left.
LEMMA MatchFacts ==
  ASSUME Inv, MoreToMatch
  PROVE  /\ orders \in Seq(Order) /\ Len(orders) \in Nat
         /\ incoming \in 1..Len(orders) /\ incoming \notin orderIndex
         /\ In \in Order /\ Remaining(In) > 0 /\ OrderSound(In)
         /\ Opp \in Side /\ Opp # In.side
         /\ GoodSide(Opp, levels[Opp]) /\ levels[Opp] # << >>
         /\ RestingId \in 1..Len(orders) /\ RestingId \in orderIndex
         /\ RestingId # incoming
         /\ Resting \in Order /\ OrderSound(Resting)
         /\ Resting.side = Opp /\ Resting.price = Best.price
         /\ Remaining(Resting) > 0
         /\ FillQty \in Nat \ {0}
         /\ FillQty <= Remaining(In) /\ FillQty <= Remaining(Resting)
         /\ Holds(levels[Opp], Best.price, RestingId)
<1>1. /\ orders \in Seq(Order) /\ Len(orders) \in Nat
      /\ incoming \in 1..Len(orders) /\ incoming \notin orderIndex
      /\ In \in Order /\ Remaining(In) > 0 /\ OrderSound(In)
      /\ levels[Opp] # << >>
  BY IncomingFacts DEF MoreToMatch
<1>2. /\ Opp \in Side /\ Opp # In.side
  BY <1>1, OrderFields DEF Opp
<1>3. GoodSide(Opp, levels[Opp])
  BY <1>2 DEF Inv, SidesGood
<1>4. Holds(levels[Opp], Best.price, RestingId)
  <2> DEFINE list == levels[Opp]
             queue == list[1].orders
  <2>1. 1 \in 1..Len(list) /\ queue \in Seq(Nat \ {0}) /\ queue # << >>
    BY <1>1, <1>3, EmptySeq, LevelType DEF GoodSide
  <2>2. 1 \in 1..Len(queue) /\ Head(queue) = queue[1]
    <3> HIDE DEF queue
    <3> QED
      BY <2>1, EmptySeq
  <2> QED
    BY <2>1, <2>2 DEF Holds, InQueue, Best, RestingId
<1>5. /\ RestingId \in orderIndex /\ Resting.side = Opp
      /\ Resting.price = Best.price
  BY <1>2, <1>4 DEF Inv, BookMatchesIndex, Resting
<1>6. /\ RestingId \in 1..Len(orders) /\ Remaining(Resting) > 0
      /\ RestingId # incoming
  BY <1>1, <1>5 DEF Inv, TypeOK, IndexedOpen, Resting
<1>7. Resting \in Order /\ OrderSound(Resting)
  BY <1>1, <1>6, OrderAt DEF Inv, OrdersSound, Resting
<1>8. Remaining(In) \in Int /\ Remaining(Resting) \in Int
  BY <1>1, <1>7, OrderFields
<1>9. /\ FillQty \in Nat \ {0}
      /\ FillQty <= Remaining(In) /\ FillQty <= Remaining(Resting)
  BY <1>1, <1>6, <1>8 DEF FillQty, Smaller
<1> QED
  BY <1>1, <1>2, <1>3, <1>4, <1>5, <1>6, <1>7, <1>9

\* The two objects a fill changes, and that neither is overfilled.
LEMMA OrdersFilled ==
  ASSUME Inv, MoreToMatch, NEW status \in OrderStatus
  PROVE  LET new == OrdersAfterFill(status)
         IN  /\ new \in Seq(Order) /\ Len(new) = Len(orders)
             /\ \A x \in 1..Len(orders) :
                  /\ SameTerms(new[x], orders[x]) /\ OrderSound(new[x])
                  /\ x \notin {incoming, RestingId} => new[x] = orders[x]
             /\ new[incoming].filledQuantity = In.filledQuantity + FillQty
             /\ new[RestingId].filledQuantity = Resting.filledQuantity + FillQty
             /\ new[RestingId].status = status
<1> DEFINE new == OrdersAfterFill(status)
           taker == WithFill(In, FillQty)
           filled == WithFill(Resting, FillQty)
           maker == WithStatus(filled, status)
<1>1. /\ orders \in Seq(Order) /\ incoming \in 1..Len(orders)
      /\ RestingId \in 1..Len(orders) /\ RestingId # incoming
      /\ In \in Order /\ Resting \in Order
      /\ FillQty \in Nat /\ OrderSound(In) /\ OrderSound(Resting)
      /\ FillQty <= Remaining(In) /\ FillQty <= Remaining(Resting)
  BY MatchFacts
<1>2. /\ new \in Seq(Order) /\ Len(new) = Len(orders)
      /\ \A x \in 1..Len(orders) :
           new[x] = IF x = incoming THEN taker
                    ELSE IF x = RestingId THEN maker ELSE orders[x]
  <2>1. new = AfterFill(orders, incoming, RestingId, FillQty, status)
    BY DEF OrdersAfterFill, AfterFill
  <2> HIDE DEF new
  <2> QED
    BY <1>1, <2>1, AfterFillProperties DEF In, Resting
<1>3. /\ taker \in Order /\ SameTerms(taker, In)
      /\ taker.filledQuantity = In.filledQuantity + FillQty
      /\ filled \in Order /\ SameTerms(filled, Resting)
      /\ filled.filledQuantity = Resting.filledQuantity + FillQty
  BY <1>1, FillAdded
<1> HIDE DEF taker, filled, new
<1>4. /\ maker \in Order /\ SameTerms(maker, filled) /\ maker.status = status
      /\ maker.filledQuantity = filled.filledQuantity
  BY <1>3, StatusSet
<1> HIDE DEF maker
<1>5. OrderSound(taker) /\ OrderSound(maker)
  <2>1. /\ In.quantity \in Nat /\ In.filledQuantity \in Nat
        /\ Resting.quantity \in Nat /\ Resting.filledQuantity \in Nat
    BY <1>1, OrderFields
  <2> QED
    BY <1>1, <1>3, <1>4, <2>1, SMTT(30) DEF OrderSound, SameTerms, Remaining
<1>6. \A x \in 1..Len(orders) :
        /\ SameTerms(new[x], orders[x]) /\ OrderSound(new[x])
        /\ x \notin {incoming, RestingId} => new[x] = orders[x]
  BY <1>2, <1>3, <1>4, <1>5 DEF SameTerms, In, Resting, Inv, OrdersSound
<1>7. /\ new[incoming].filledQuantity = In.filledQuantity + FillQty
      /\ new[RestingId].filledQuantity = Resting.filledQuantity + FillQty
      /\ new[RestingId].status = status
  BY <1>1, <1>2, <1>3, <1>4
<1> QED
  BY <1>2, <1>6, <1>7 DEF new

LEMMA FillTradeType ==
  ASSUME Inv, MoreToMatch
  PROVE  Append(trades, FillTrade) \in Seq(Trade)
<1>1. /\ incoming \in OrderId /\ RestingId \in OrderId /\ FillQty \in Nat
  BY MatchFacts DEF OrderId
<1>2. Best.price \in Nat
  BY MatchFacts, OrderFields
<1>3. FillTrade \in Trade
  BY <1>1, <1>2 DEF FillTrade, Trade
<1> QED
  BY <1>3, AppendProperties DEF Inv, TypeOK
\* A fill that leaves the resting order at the head of its queue.
LEMMA FillRestingStep ==
  ASSUME Inv, FillResting
  PROVE  Inv'
<1> DEFINE list == levels[Opp]
           new == Served(list, list[1].orders, FillQty)
<1>1. /\ MoreToMatch
      /\ orders' = OrdersAfterFill("PARTIALLY_FILLED")
      /\ levels' = [levels EXCEPT ![Opp] = new]
      /\ trades' = Append(trades, FillTrade)
      /\ orderIndex' = orderIndex /\ incoming' = incoming /\ call' = call
  BY DEF FillResting, LevelsAfterFill, Served, Best
<1>2. /\ orders' \in Seq(Order) /\ Len(orders') = Len(orders)
      /\ \A x \in 1..Len(orders) :
           /\ SameTerms(orders'[x], orders[x]) /\ OrderSound(orders'[x])
           /\ x \notin {incoming, RestingId} => orders'[x] = orders[x]
      /\ orders'[RestingId].filledQuantity = Resting.filledQuantity + FillQty
      /\ orders'[RestingId].status = "PARTIALLY_FILLED"
  <2>1. "PARTIALLY_FILLED" \in OrderStatus
    BY DEF OrderStatus
  <2> QED
    BY <1>1, <2>1, OrdersFilled
<1>3. /\ Opp \in Side /\ GoodSide(Opp, list) /\ list # << >>
      /\ FillQty \in Int
      /\ RestingId \in 1..Len(orders) /\ Resting \in Order
      /\ incoming \in 1..Len(orders) /\ incoming \notin orderIndex
      /\ orderIndex \subseteq 1..Len(orders)
      /\ Inv /\ IndexedOpen /\ BookMatchesIndex /\ TypeOK /\ IncomingApart
  BY <1>1, MatchFacts DEF Inv, TypeOK
<1>4. GoodSide(Opp, new) /\ \A p, x : Holds(new, p, x) <=> Holds(list, p, x)
  <2> HIDE DEF list
  <2> QED
    BY <1>3, PartialFillEffect
<1>5. \A p, x : Holds(list, p, x) <=>
        x \in orderIndex /\ orders[x].side = Opp /\ orders[x].price = p
  BY <1>3 DEF BookMatchesIndex
<1> HIDE DEF new, list
<1>6. \A x \in orderIndex : orders'[x].side = orders[x].side
                            /\ orders'[x].price = orders[x].price
  BY <1>2, <1>3 DEF SameTerms
<1>7. SidesGood' /\ BookMatchesIndex' /\ levels' \in [Side -> Seq(PriceLevel)]
  <2>1. \A p, x : Holds(new, p, x) <=>
          x \in orderIndex' /\ orders'[x].side = Opp /\ orders'[x].price = p
    BY <1>1, <1>4, <1>5, <1>6
  <2>2. \A s \in Side : \A p, x : s # Opp =>
          (/\ x \in orderIndex' /\ orders'[x].side = s /\ orders'[x].price = p)
            <=> (/\ x \in orderIndex /\ orders[x].side = s /\ orders[x].price = p)
    BY <1>1, <1>6
  <2> QED
    BY <1>1, <1>3, <1>4, <2>1, <2>2, SideReplaced
<1>8. IndexedOpen'
  <2> SUFFICES ASSUME NEW x \in orderIndex
               PROVE  /\ Remaining(orders'[x]) > 0
                      /\ orders'[x].status \in {"OPEN", "PARTIALLY_FILLED"}
    BY <1>1 DEF IndexedOpen
  <2>1. CASE x = RestingId
    <3>1. Resting.filledQuantity + FillQty < Resting.quantity
      <4>1. Resting.filledQuantity \in Nat /\ Resting.quantity \in Nat
        BY <1>3, OrderFields
      <4>2. ~ (Resting.filledQuantity + FillQty >= Resting.quantity)
        BY DEF FillResting, RestingIsFilled
      <4> QED
        BY <1>3, <4>1, <4>2
    <3>2. orders'[x].quantity = Resting.quantity
      BY <1>2, <1>3, <2>1 DEF SameTerms, Resting
    <3>3. Resting.filledQuantity \in Nat /\ Resting.quantity \in Nat
      BY <1>3, OrderFields
    <3> QED
      BY <1>2, <1>3, <2>1, <3>1, <3>2, <3>3 DEF Remaining
  <2>2. CASE x # RestingId
    BY <1>2, <1>3, <2>2 DEF IndexedOpen
  <2> QED
    BY <2>1, <2>2
<1>9. TypeOK'
  BY <1>1, <1>2, <1>3, <1>7, FillTradeType DEF TypeOK
<1>10. OrdersSound'
  BY <1>2 DEF OrdersSound, OrderSound
<1>11. IncomingApart'
  BY <1>1, <1>2, <1>3, <1>6 DEF IncomingApart, In, SameTerms
<1> QED
  BY <1>7, <1>8, <1>9, <1>10, <1>11 DEF Inv

\* A fill that takes the resting order off the book.
LEMMA CompleteRestingStep ==
  ASSUME Inv, CompleteResting
  PROVE  Inv'
<1> DEFINE list == levels[Opp]
           new == DropDepleted(Served(list, Tail(list[1].orders), FillQty))
<1>1. /\ MoreToMatch
      /\ orders' = OrdersAfterFill("FILLED")
      /\ levels' = [levels EXCEPT ![Opp] = new]
      /\ trades' = Append(trades, FillTrade)
      /\ orderIndex' = orderIndex \ {RestingId}
      /\ incoming' = incoming /\ call' = call
  BY DEF CompleteResting, LevelsAfterFill, Served, Best
<1>2. /\ orders' \in Seq(Order) /\ Len(orders') = Len(orders)
      /\ \A x \in 1..Len(orders) :
           /\ SameTerms(orders'[x], orders[x]) /\ OrderSound(orders'[x])
           /\ x \notin {incoming, RestingId} => orders'[x] = orders[x]
  <2>1. "FILLED" \in OrderStatus
    BY DEF OrderStatus
  <2> QED
    BY <1>1, <2>1, OrdersFilled
<1>3. /\ Opp \in Side /\ GoodSide(Opp, list) /\ list # << >>
      /\ FillQty \in Int
      /\ incoming \in 1..Len(orders) /\ incoming \notin orderIndex
      /\ orderIndex \subseteq 1..Len(orders)
      /\ Resting.side = Opp /\ Resting.price = Best.price
      /\ Inv /\ IndexedOpen /\ BookMatchesIndex /\ TypeOK /\ IncomingApart
  BY <1>1, MatchFacts DEF Inv, TypeOK
<1>4. /\ GoodSide(Opp, new)
      /\ \A p, x : Holds(new, p, x) <=>
           Holds(list, p, x) /\ ~ (p = Best.price /\ x = RestingId)
  <2>1. /\ GoodSide(Opp, new)
        /\ \A p, x : Holds(new, p, x) <=>
             /\ Holds(list, p, x)
             /\ ~ (p = list[1].price /\ x = Head(list[1].orders))
    <3> HIDE DEF list
    <3> QED
      BY <1>3, FullFillEffect
  <2> HIDE DEF new
  <2> QED
    BY <2>1 DEF Best, RestingId
<1>5. \A p, x : Holds(list, p, x) <=>
        x \in orderIndex /\ orders[x].side = Opp /\ orders[x].price = p
  BY <1>3 DEF BookMatchesIndex
<1> HIDE DEF new, list
<1>6. \A x \in orderIndex : orders'[x].side = orders[x].side
                            /\ orders'[x].price = orders[x].price
  BY <1>2, <1>3 DEF SameTerms
<1>7. SidesGood' /\ BookMatchesIndex' /\ levels' \in [Side -> Seq(PriceLevel)]
  <2>1. \A p, x : Holds(new, p, x) <=>
          x \in orderIndex' /\ orders'[x].side = Opp /\ orders'[x].price = p
    BY <1>1, <1>3, <1>4, <1>5, <1>6 DEF Resting
  <2>2. \A s \in Side : \A p, x : s # Opp =>
          (/\ x \in orderIndex' /\ orders'[x].side = s /\ orders'[x].price = p)
            <=> (/\ x \in orderIndex /\ orders[x].side = s /\ orders[x].price = p)
    BY <1>1, <1>3, <1>6 DEF Resting
  <2> QED
    BY <1>1, <1>3, <1>4, <2>1, <2>2, SideReplaced
<1>8. IndexedOpen'
  <2> SUFFICES ASSUME NEW x \in orderIndex \ {RestingId}
               PROVE  /\ Remaining(orders'[x]) > 0
                      /\ orders'[x].status \in {"OPEN", "PARTIALLY_FILLED"}
    BY <1>1 DEF IndexedOpen
  <2> QED
    BY <1>2, <1>3 DEF IndexedOpen
<1>9. TypeOK'
  BY <1>1, <1>2, <1>3, <1>7, FillTradeType DEF TypeOK
<1>10. OrdersSound'
  BY <1>2 DEF OrdersSound, OrderSound
<1>11. IncomingApart'
  BY <1>1, <1>2, <1>3, <1>6 DEF IncomingApart, In, SameTerms
<1> QED
  BY <1>7, <1>8, <1>9, <1>10, <1>11 DEF Inv
\* A fill that uses up an iceberg's slice: the next slice is a new order on the
\* same level.
LEMMA ReplenishRestingStep ==
  ASSUME Inv, ReplenishResting
  PROVE  Inv'
<1> DEFINE list == levels[Opp]
           slice == NextSlice(Resting)
           filled == OrdersAfterFill("FILLED")
           new == Replenished(list, FillQty, NewId, slice)
<1>1. /\ MoreToMatch
      /\ orders' = Append(filled, slice)
      /\ levels' = [levels EXCEPT ![Opp] = new]
      /\ trades' = Append(trades, FillTrade)
      /\ orderIndex' = (orderIndex \ {RestingId}) \union {NewId}
      /\ incoming' = incoming /\ call' = call
  BY DEF ReplenishResting, LevelsAfterFill, Served, Best, Replenished
<1>2. /\ filled \in Seq(Order) /\ Len(filled) = Len(orders)
      /\ \A x \in 1..Len(orders) :
           /\ SameTerms(filled[x], orders[x]) /\ OrderSound(filled[x])
           /\ x \notin {incoming, RestingId} => filled[x] = orders[x]
  <2>1. "FILLED" \in OrderStatus
    BY DEF OrderStatus
  <2> HIDE DEF filled
  <2> QED
    BY <1>1, <2>1, OrdersFilled DEF filled
<1>3. /\ Opp \in Side /\ GoodSide(Opp, list) /\ list # << >>
      /\ Opp # In.side
      /\ FillQty \in Int /\ Len(orders) \in Nat
      /\ incoming \in 1..Len(orders) /\ incoming \notin orderIndex
      /\ orderIndex \subseteq 1..Len(orders)
      /\ Resting \in Order /\ OrderSound(Resting)
      /\ Resting.side = Opp /\ Resting.price = Best.price
      /\ Inv /\ IndexedOpen /\ BookMatchesIndex /\ TypeOK /\ IncomingApart
  BY <1>1, MatchFacts DEF Inv, TypeOK
<1>4. /\ slice \in Order /\ slice.side = Opp /\ slice.price = Best.price
      /\ OrderSound(slice) /\ Remaining(slice) > 0 /\ slice.status = "OPEN"
  <2>1. Resting.displayQty > 0 /\ Resting.hiddenQty > 0
    BY <1>3 DEF ReplenishResting, HasHidden, OrderSound
  <2>2. /\ slice \in Order /\ slice.side = Opp /\ slice.price = Best.price
        /\ slice.displayQty > 0 /\ slice.filledQuantity = 0
        /\ Remaining(slice) > 0 /\ slice.status = "OPEN"
    BY <1>3, <2>1, SliceFields
  <2> HIDE DEF slice
  <2>3. slice.quantity \in Nat
    BY <2>2, OrderFields
  <2> QED
    BY <2>2, <2>3 DEF OrderSound
<1> HIDE DEF slice, filled
<1>5. /\ orders' \in Seq(Order) /\ Len(orders') = Len(orders) + 1
      /\ \A x \in 1..Len(orders) : orders'[x] = filled[x]
      /\ orders'[NewId] = slice
  BY <1>1, <1>2, <1>4, OrderAppended DEF NewId
<1>6. NewId \in Nat \ {0} /\ NewId \notin orderIndex
      /\ \A x \in orderIndex : x < NewId
  BY <1>3 DEF NewId
<1>7. \A p, x : Holds(list, p, x) <=>
        x \in orderIndex /\ orders[x].side = Opp /\ orders[x].price = p
  BY <1>3 DEF BookMatchesIndex
<1>8. /\ GoodSide(Opp, new)
      /\ \A p, x : Holds(new, p, x) <=>
           \/ Holds(list, p, x) /\ ~ (p = Best.price /\ x = RestingId)
           \/ p = Best.price /\ x = NewId
  <2>1. \A p, x : Holds(list, p, x) => x < NewId
    BY <1>6, <1>7
  <2>2. slice.price = list[1].price
    BY <1>4 DEF Best
  <2>3. /\ GoodSide(Opp, new)
        /\ \A p, x : Holds(new, p, x) <=>
             \/ /\ Holds(list, p, x)
                /\ ~ (p = list[1].price /\ x = Head(list[1].orders))
             \/ p = list[1].price /\ x = NewId
    <3> HIDE DEF list
    <3> QED
      <4>1. SliceFits(Opp, list, slice, NewId)
        BY <1>4, <1>6, <2>1, <2>2 DEF SliceFits
      <4> QED
        BY <1>3, <4>1, ReplenishEffect
  <2> HIDE DEF new
  <2> QED
    BY <2>3 DEF Best, RestingId
<1> HIDE DEF new, list
<1>9. \A x \in orderIndex : orders'[x].side = orders[x].side
                            /\ orders'[x].price = orders[x].price
  BY <1>2, <1>3, <1>5 DEF SameTerms
<1>10. SidesGood' /\ BookMatchesIndex' /\ levels' \in [Side -> Seq(PriceLevel)]
  <2>1. \A p, x : Holds(new, p, x) <=>
          x \in orderIndex' /\ orders'[x].side = Opp /\ orders'[x].price = p
    <3> SUFFICES ASSUME NEW p, NEW x
                 PROVE  Holds(new, p, x) <=>
                          /\ x \in orderIndex'
                          /\ orders'[x].side = Opp
                          /\ orders'[x].price = p
      OBVIOUS
    <3>1. CASE x = NewId
      BY <1>1, <1>4, <1>5, <1>6, <1>7, <1>8, <3>1
    <3>2. CASE x # NewId
      <4>1. x \in orderIndex' <=> x \in orderIndex /\ x # RestingId
        BY <1>1, <3>2
      <4>2. Holds(new, p, x) <=>
              Holds(list, p, x) /\ ~ (p = Best.price /\ x = RestingId)
        BY <1>8, <3>2
      <4>3. Holds(list, p, x) <=>
              x \in orderIndex /\ orders[x].side = Opp /\ orders[x].price = p
        BY <1>7
      <4>4. CASE x = RestingId
        BY <1>3, <4>1, <4>2, <4>3, <4>4 DEF Resting
      <4>5. CASE x # RestingId
        BY <1>9, <4>1, <4>2, <4>3, <4>5
      <4> QED
        BY <4>4, <4>5
    <3> QED
      BY <3>1, <3>2
  <2>2. \A s \in Side : \A p, x : s # Opp =>
          (/\ x \in orderIndex' /\ orders'[x].side = s /\ orders'[x].price = p)
            <=> (/\ x \in orderIndex /\ orders[x].side = s /\ orders[x].price = p)
    <3> SUFFICES ASSUME NEW s \in Side, NEW p, NEW x, s # Opp
                 PROVE  (/\ x \in orderIndex' /\ orders'[x].side = s
                         /\ orders'[x].price = p)
                          <=> (/\ x \in orderIndex /\ orders[x].side = s
                               /\ orders[x].price = p)
      OBVIOUS
    <3>1. CASE x = NewId
      BY <1>4, <1>5, <1>6, <3>1
    <3>2. CASE x # NewId
      BY <1>1, <1>3, <1>9, <3>2 DEF Resting
    <3> QED
      BY <3>1, <3>2
  <2> QED
    BY <1>1, <1>3, <1>8, <2>1, <2>2, SideReplaced
<1>11. IndexedOpen'
  <2> SUFFICES ASSUME NEW x \in orderIndex'
               PROVE  /\ Remaining(orders'[x]) > 0
                      /\ orders'[x].status \in {"OPEN", "PARTIALLY_FILLED"}
    BY DEF IndexedOpen
  <2>1. CASE x = NewId
    BY <1>4, <1>5, <2>1
  <2>2. CASE x # NewId
    <3>1. x \in orderIndex /\ x # RestingId /\ x # incoming /\ x \in 1..Len(orders)
      BY <1>1, <1>3, <2>2
    <3>2. orders'[x] = orders[x]
      BY <1>2, <1>5, <3>1
    <3> QED
      BY <1>3, <3>1, <3>2 DEF IndexedOpen
  <2> QED
    BY <2>1, <2>2
<1>12. orderIndex' \subseteq 1..Len(orders')
  <2>1. /\ 1..Len(orders) \subseteq 1..Len(orders')
        /\ NewId \in 1..Len(orders')
    BY <1>3, <1>5 DEF NewId
  <2> QED
    BY <1>1, <1>3, <2>1
<1>13. TypeOK'
  <2>1. incoming \in 0..Len(orders')
    BY <1>3, <1>5
  <2> QED
    BY <1>1, <1>3, <1>5, <1>10, <1>12, <2>1, FillTradeType DEF TypeOK
<1>14. OrdersSound'
  <2> SUFFICES ASSUME NEW x \in 1..Len(orders')
               PROVE  OrderSound(orders'[x])
    BY DEF OrdersSound, OrderSound
  <2>1. x \in 1..Len(orders) \/ x = NewId
    BY <1>3, <1>5 DEF NewId
  <2> QED
    BY <1>2, <1>4, <1>5, <2>1
<1>15. IncomingApart'
  <2>1. /\ incoming' \notin orderIndex'
    BY <1>1, <1>3 DEF NewId
  <2>2. orders'[incoming'].side = In.side
    BY <1>1, <1>2, <1>3, <1>5 DEF SameTerms, In
  <2>3. ASSUME call' = "addOrder", NEW x \in orderIndex', orders'[x].side = In.side
        PROVE  x < incoming'
    <3>1. x # NewId
      BY <1>3, <1>4, <1>5, <2>3
    <3>2. x \in orderIndex /\ orders[x].side = In.side
      BY <1>1, <1>9, <2>3, <3>1
    <3> QED
      BY <1>1, <1>3, <2>3, <3>2 DEF IncomingApart
  <2> QED
    BY <2>1, <2>2, <2>3 DEF IncomingApart, In
<1> QED
  BY <1>10, <1>11, <1>13, <1>14, <1>15 DEF Inv

\* A cancellation takes one order out of the middle of a queue, or not at all.
LEMMA CancelOrderStep ==
  ASSUME Inv, NEW id, CancelOrder(id)
  PROVE  Inv'
<1> DEFINE o == orders[id]
           list == levels[o.side]
           i == FindLevelIndex(list, o.price, o.side)
           new == RemoveOrder(list, i, id, o)
           cancelled == WithStatus(o, "CANCELLED")
<1>1. /\ id \in orderIndex /\ id \in 1..Len(orders) /\ o \in Order
      /\ orders \in Seq(Order) /\ Len(orders) \in Nat /\ OrderSound(o)
      /\ o.side \in Side /\ GoodSide(o.side, list)
      /\ orderIndex \subseteq 1..Len(orders)
      /\ incoming = NoOrder /\ call = "none"
      /\ IndexedOpen /\ BookMatchesIndex /\ TypeOK /\ OrdersSound
  <2>1. id \in orderIndex /\ id \in 1..Len(orders) /\ orders \in Seq(Order)
    BY DEF CancelOrder, Inv, TypeOK
  <2>2. o \in Order /\ OrderSound(o) /\ Len(orders) \in Nat
    BY <2>1, OrderAt, LenProperties DEF Inv, OrdersSound
  <2> QED
    BY <2>1, <2>2, OrderFields DEF CancelOrder, Inv, TypeOK, SidesGood, Idle
<1>2. /\ orders' = [orders EXCEPT ![id] = cancelled]
      /\ levels' = [levels EXCEPT ![o.side] = new]
      /\ orderIndex' = orderIndex \ {id}
      /\ incoming' = incoming /\ call' = call /\ trades' = trades
      /\ i # 0 /\ Contains(list[i].orders, id)
  BY <1>1 DEF CancelOrder, WithStatus
<1>3. /\ cancelled \in Order /\ OrderSound(cancelled)
      /\ SameTerms(cancelled, o)
  BY <1>1, StatusSet DEF OrderSound, SameTerms, OrderStatus
<1> HIDE DEF cancelled
<1>4. i \in 1..Len(list) /\ list[i].price = o.price
  <2> HIDE DEF list
  <2>1. list \in Seq(PriceLevel) /\ Sorted(o.side, list) /\ o.price \in Nat
    BY <1>1, OrderFields DEF GoodSide
  <2>2. i \in 0..Len(list) /\ (i # 0 => list[i].price = o.price)
    BY <1>1, <2>1, FindLevelIndexProperties
  <2> QED
    BY <1>2, <2>2
<1> HIDE DEF i
<1>5. InQueue(list[i].orders, id)
  <2>1. list[i].orders \in Seq(Nat \ {0})
    BY <1>1, <1>4, LevelType DEF GoodSide
  <2>2. DOMAIN list[i].orders = 1..Len(list[i].orders)
    BY <2>1, LenProperties
  <2> QED
    BY <1>2, <2>2 DEF Contains, InQueue
<1>6. /\ GoodSide(o.side, new)
      /\ \A p, x : Holds(new, p, x) <=>
           Holds(list, p, x) /\ ~ (p = o.price /\ x = id)
  <2> HIDE DEF list, o
  <2> QED
    BY <1>1, <1>4, <1>5, RemoveOrderEffect
<1>7. \A p, x : Holds(list, p, x) <=>
        x \in orderIndex /\ orders[x].side = o.side /\ orders[x].price = p
  BY <1>1 DEF BookMatchesIndex
<1> HIDE DEF new, list
<1>8. /\ orders' \in Seq(Order) /\ Len(orders') = Len(orders)
      /\ \A x \in 1..Len(orders) :
           orders'[x] = IF x = id THEN cancelled ELSE orders[x]
  BY <1>1, <1>2, <1>3, OrderReplaced
<1>9. SidesGood' /\ BookMatchesIndex' /\ levels' \in [Side -> Seq(PriceLevel)]
  <2>1. \A x \in orderIndex' : orders'[x] = orders[x]
    BY <1>1, <1>2, <1>8
  <2>2. \A p, x : Holds(new, p, x) <=>
          x \in orderIndex' /\ orders'[x].side = o.side /\ orders'[x].price = p
    BY <1>2, <1>6, <1>7, <2>1
  <2>3. \A s \in Side : \A p, x : s # o.side =>
          (/\ x \in orderIndex' /\ orders'[x].side = s /\ orders'[x].price = p)
            <=> (/\ x \in orderIndex /\ orders[x].side = s /\ orders[x].price = p)
    BY <1>2, <2>1
  <2> HIDE DEF o
  <2> QED
    BY <1>1, <1>2, <1>6, <2>2, <2>3, SideReplaced
<1>10. IndexedOpen'
  BY <1>1, <1>2, <1>8 DEF IndexedOpen
<1>11. TypeOK'
  BY <1>1, <1>2, <1>8, <1>9 DEF TypeOK
<1>12. OrdersSound'
  BY <1>1, <1>3, <1>8 DEF OrdersSound, OrderSound
<1>13. IncomingApart'
  <2>1. 0 \notin orderIndex
    BY <1>1
  <2> QED
    BY <1>1, <1>2, <2>1 DEF IncomingApart, NoOrder
<1> QED
  BY <1>9, <1>10, <1>11, <1>12, <1>13 DEF Inv
-----------------------------------------------------------------------------
(***************************************************************************)
(* The invariant.                                                          *)
(***************************************************************************)
LEMMA InvInit == Init => Inv
<1> SUFFICES ASSUME Init PROVE Inv
  OBVIOUS
<1>1. /\ orders = << >> /\ levels = [side \in Side |-> << >>]
      /\ orderIndex = {} /\ incoming = NoOrder /\ call = "none"
      /\ trades = << >>
  BY DEF Init
<1>2. TypeOK
  BY <1>1 DEF TypeOK, NoOrder, Call
<1>3. OrdersSound
  BY <1>1 DEF OrdersSound
<1>4. SidesGood
  BY <1>1 DEF SidesGood, GoodSide, Sorted
<1>5. BookMatchesIndex
  BY <1>1 DEF BookMatchesIndex, Holds
<1>6. IndexedOpen /\ IncomingApart
  BY <1>1 DEF IndexedOpen, IncomingApart
<1> QED
  BY <1>2, <1>3, <1>4, <1>5, <1>6 DEF Inv

LEMMA InvStep == Inv /\ [Next]_vars => Inv'
<1> SUFFICES ASSUME Inv, [Next]_vars PROVE Inv'
  OBVIOUS
<1>1. CASE Submit
  <2>1. CASE \E r \in Requests : ~ IsStop(r) /\ AddOrder(CreateOrder(r))
    <3>1. PICK r \in Requests : AddOrder(CreateOrder(r))
      BY <2>1
    <3> DEFINE o == CreateOrder(r)
    <3>2. o \in Order /\ o.filledQuantity = 0
      BY BookAssumption, CreatedOrder
    <3> HIDE DEF o
    <3>3. Idle
      BY <3>1 DEF AddOrder
    <3>4. CASE o.type # "ICEBERG" /\ StartMatching(o)
      BY <3>2, <3>3, <3>4, StartMatchingStep
    <3>5. CASE RejectFillOrKill(o)
      BY <3>2, <3>3, <3>5, RejectFillOrKillStep
    <3>6. CASE AddIceberg(o)
      BY <3>2, <3>3, <3>6, AddIcebergStep
    <3> QED
      BY <3>1, <3>4, <3>5, <3>6 DEF AddOrder, o
  <2>2. CASE \E r \in Requests : HoldStop(CreateOrder(r))
    BY <2>2, BookAssumption, CreatedOrder, HoldStopStep
  <2>3. CASE \E id \in 1..Len(orders) : TriggerStop(id)
    BY <2>3, TriggerStopStep
  <2> QED
    BY <1>1, <2>1, <2>2, <2>3 DEF Submit
<1>2. CASE MatchStep
  BY <1>2, FillRestingStep, CompleteRestingStep, ReplenishRestingStep
     DEF MatchStep
<1>3. CASE Finish
  BY <1>3, FinishFilledStep, RestLimitStep, CancelRemainderStep,
     ReturnUnfilledStep DEF Finish
<1>4. CASE Cancel
  BY <1>4, CancelOrderStep DEF Cancel
<1>5. CASE UNCHANGED vars
  <2>1. /\ orders' = orders /\ levels' = levels /\ orderIndex' = orderIndex
        /\ incoming' = incoming /\ call' = call /\ trades' = trades
    BY <1>5 DEF vars
  <2>2. SidesGood' /\ BookMatchesIndex' /\ IndexedOpen'
    BY <2>1, BookUntouched DEF Inv
  <2> QED
    BY <2>1, <2>2 DEF Inv, TypeOK, OrdersSound, IncomingApart, In
<1> QED
  BY <1>1, <1>2, <1>3, <1>4, <1>5 DEF Next

\* The book, its index and the order objects agree in every reachable state.
THEOREM Invariance == Spec => []Inv
  BY InvInit, InvStep, PTL DEF Spec

\* Order objects stay well formed: a slice of an iceberg is never empty and what
\* is hidden is never negative, whatever is filled, put back and cancelled.
THEOREM TypeCorrect == Spec => []TypeOK
<1>1. Inv => TypeOK
  BY DEF Inv
<1> QED
  BY <1>1, Invariance, PTL

-----------------------------------------------------------------------------
(***************************************************************************)
(* The properties of the book.                                             *)
(***************************************************************************)

\* The first level of a side is its best price and no level is empty, whatever
\* orders are added, matched, replenished and cancelled.
THEOREM LevelsAreSorted == Spec => []LevelsSorted
<1>1. Inv => LevelsSorted
  BY DEF Inv, SidesGood, GoodSide, Sorted, LevelsSorted
<1> QED
  BY <1>1, Invariance, PTL

\* First come, first served at every price.
THEOREM QueuesAreInArrivalOrder == Spec => []QueuesInArrivalOrder
<1>1. Inv => QueuesInArrivalOrder
  BY DEF Inv, SidesGood, GoodSide, Ascending, QueuesInArrivalOrder
<1> QED
  BY <1>1, Invariance, PTL

\* What the queues of a side hold, in the terms of the invariant.
LEMMA QueuedIsHeld ==
  ASSUME Inv, NEW side \in Side, NEW x
  PROVE  x \in Queued(side) <=> \E p : Holds(levels[side], p, x)
<1>1. levels[side] \in Seq(PriceLevel)
  BY DEF Inv, SidesGood, GoodSide
<1>2. ASSUME NEW l \in 1..Len(levels[side])
      PROVE  x \in ToSet(levels[side][l].orders)
               <=> InQueue(levels[side][l].orders, x)
  <2>1. levels[side][l].orders \in Seq(Nat \ {0})
    BY <1>1, LevelType
  <2>2. DOMAIN levels[side][l].orders = 1..Len(levels[side][l].orders)
    BY <2>1, LenProperties
  <2> QED
    BY <2>2 DEF ToSet, InQueue
<1> QED
  BY <1>2 DEF Queued, Holds

LEMMA IndexAgreesInvariant == Inv => IndexAgrees
<1> SUFFICES ASSUME Inv PROVE IndexAgrees
  OBVIOUS
<1>1. /\ BookMatchesIndex /\ IndexedOpen /\ orders \in Seq(Order)
      /\ orderIndex \subseteq 1..Len(orders)
  BY DEF Inv, TypeOK
<1>2. ASSUME NEW x
      PROVE  x \in orderIndex <=> \E side \in Side : x \in Queued(side)
  <2>1. ASSUME x \in orderIndex PROVE \E side \in Side : x \in Queued(side)
    <3>1. orders[x].side \in Side
      BY <1>1, <2>1, OrderAt, OrderFields
    <3>2. Holds(levels[orders[x].side], orders[x].price, x)
      BY <1>1, <2>1, <3>1 DEF BookMatchesIndex
    <3> QED
      BY <3>1, <3>2, QueuedIsHeld
  <2>2. ASSUME NEW side \in Side, x \in Queued(side) PROVE x \in orderIndex
    BY <1>1, <2>2, QueuedIsHeld DEF BookMatchesIndex
  <2> QED
    BY <2>1, <2>2
<1>3. orderIndex = UNION {Queued(side) : side \in Side}
  BY <1>2
<1>4. ASSUME NEW side \in Side, NEW l \in 1..Len(levels[side]),
             NEW i \in 1..Len(levels[side][l].orders)
      PROVE  LET id == levels[side][l].orders[i]
             IN  /\ BookSide(id) = side
                 /\ Price(id) = levels[side][l].price
                 /\ Remaining(orders[id]) > 0
                 /\ orders[id].status \in {"OPEN", "PARTIALLY_FILLED"}
  <2> DEFINE id == levels[side][l].orders[i]
             price == levels[side][l].price
  <2>1. Holds(levels[side], price, id)
    BY DEF Holds, InQueue
  <2> HIDE DEF id, price
  <2>2. id \in orderIndex /\ orders[id].side = side /\ orders[id].price = price
    <3>1. \A p, x : Holds(levels[side], p, x) <=>
            x \in orderIndex /\ orders[x].side = side /\ orders[x].price = p
      BY <1>1 DEF BookMatchesIndex
    <3> QED
      BY <2>1, <3>1
  <2>3. /\ Remaining(orders[id]) > 0
        /\ orders[id].status \in {"OPEN", "PARTIALLY_FILLED"}
    BY <1>1, <2>2 DEF IndexedOpen
  <2> QED
    BY <2>2, <2>3 DEF BookSide, Price, id, price
<1> QED
  BY <1>3, <1>4 DEF IndexAgrees

\* An order can be matched exactly when it can be cancelled, and only while it
\* is open and has something left.
THEOREM IndexAndQueuesAgree == Spec => []IndexAgrees
  BY Invariance, IndexAgreesInvariant, PTL
-----------------------------------------------------------------------------
(***************************************************************************)
(* What a step may do.                                                     *)
(***************************************************************************)

\* The head of the first level precedes every other order of its side.
LEMMA HeadPrecedes ==
  ASSUME Inv, MoreToMatch, NEW other \in orderIndex, other # RestingId,
         BookSide(other) = BookSide(RestingId)
  PROVE  Precedes(RestingId, other)
<1> DEFINE list == levels[Opp]
<1>1. /\ Opp \in Side /\ GoodSide(Opp, list) /\ list # << >>
      /\ orders[RestingId].side = Opp /\ orders[RestingId].price = list[1].price
      /\ BookMatchesIndex
  BY MatchFacts DEF Inv, Resting, Best
<1>2. orders[other].side = Opp
  BY <1>1 DEF BookSide
<1>3. Holds(list, orders[other].price, other)
  BY <1>1, <1>2 DEF BookMatchesIndex
<1>4. PICK l \in 1..Len(list) :
        /\ list[l].price = orders[other].price
        /\ InQueue(list[l].orders, other)
  BY <1>3 DEF Holds
<1>5. /\ 1 \in 1..Len(list) /\ list \in Seq(PriceLevel) /\ Sorted(Opp, list)
      /\ list[1].orders \in Seq(Nat \ {0}) /\ list[1].orders # << >>
      /\ Ascending(list[1].orders)
  BY <1>1, EmptySeq, LevelType DEF GoodSide
<1> HIDE DEF list
<1>6. CASE l = 1
  <2> DEFINE queue == list[1].orders
  <2>1. PICK i \in 1..Len(queue) : queue[i] = other
    BY <1>4, <1>6 DEF InQueue
  <2>2. queue[1] = RestingId
    BY <1>5 DEF RestingId, Best, list
  <2>3. i # 1 /\ 1 \in 1..Len(queue) /\ 1 < i
    BY <2>1, <2>2
  <2>4. queue[1] < queue[i]
    BY <1>5, <2>3 DEF Ascending
  <2>5. RestingId < other
    BY <2>1, <2>2, <2>4
  <2> QED
    BY <1>1, <1>4, <1>6, <2>5 DEF Precedes, Price
<1>7. CASE l # 1
  <2>1. Behind(Opp, list[l].price, list[1].price)
    BY <1>5, <1>7 DEF Sorted
  <2> QED
    BY <1>1, <1>4, <2>1 DEF Precedes, Price, BookSide
<1> QED
  BY <1>6, <1>7

\* Outside the loop of matchAtLevel no order is filled.
LEMMA OnlyMatchingFills ==
  ASSUME Inv, [Next]_vars, ~ MatchStep, NEW id \in 1..Len(orders)
  PROVE  orders'[id].filledQuantity = orders[id].filledQuantity
<1>1. orders \in Seq(Order) /\ orders[id] \in Order /\ Len(orders) \in Nat
  BY OrderAt, LenProperties DEF Inv, TypeOK
<1>2. ASSUME NEW o, orders' = Append(orders, o)
      PROVE  orders'[id] = orders[id]
  BY <1>1, <1>2, AppendProperties
<1>3. ASSUME NEW x, NEW status, orders' = [orders EXCEPT ![x].status = status]
      PROVE  orders'[id].filledQuantity = orders[id].filledQuantity
  <2>1. id \in DOMAIN orders
    BY <1>1, LenProperties
  <2>2. CASE x = id
    BY <1>1, <1>3, <2>1, <2>2 DEF Order
  <2>3. CASE x # id
    BY <1>3, <2>1, <2>3
  <2> QED
    BY <2>2, <2>3
<1>4. CASE Submit
  <2>1. CASE \E r \in Requests : ~ IsStop(r) /\ AddOrder(CreateOrder(r))
    <3>1. PICK r \in Requests : AddOrder(CreateOrder(r))
      BY <2>1
    <3>2. \E o : orders' = Append(orders, o)
      BY <3>1, Zenon DEF AddOrder, StartMatching, RejectFillOrKill, AddIceberg
    <3> QED
      BY <1>2, <3>2
  <2>2. CASE \E r \in Requests : HoldStop(CreateOrder(r))
    BY <1>2, <2>2 DEF HoldStop
  <2>3. CASE \E x \in 1..Len(orders) : TriggerStop(x)
    <3>1. PICK x \in 1..Len(orders) : TriggerStop(x)
      BY <2>3
    <3>2. orders' = [orders EXCEPT ![x] = Promoted(orders[x])]
      BY <3>1 DEF TriggerStop
    <3>3. Promoted(orders[x]).filledQuantity = orders[x].filledQuantity
      BY <1>1, OrderAt, PromotedFields
    <3>4. Promoted(orders[x]) \in Order
      BY <1>1, OrderAt, PromotedFields
    <3> QED
      BY <1>1, <3>2, <3>3, <3>4, OrderReplaced
  <2> QED
    BY <1>4, <2>1, <2>2, <2>3 DEF Submit
<1>5. CASE Finish
  <2>1. CASE FinishFilled
    BY <1>3, <2>1 DEF FinishFilled
  <2>2. CASE RestLimit
    BY <1>3, <2>2 DEF RestLimit
  <2>3. CASE CancelRemainder
    BY <1>3, <2>3 DEF CancelRemainder
  <2>4. CASE ReturnUnfilled
    BY <2>4 DEF ReturnUnfilled
  <2> QED
    BY <1>5, <2>1, <2>2, <2>3, <2>4 DEF Finish
<1>6. CASE Cancel
  BY <1>3, <1>6 DEF Cancel, CancelOrder
<1>7. CASE UNCHANGED vars
  BY <1>7 DEF vars
<1> QED
  BY <1>4, <1>5, <1>6, <1>7 DEF Next

\* The two orders a matching step fills, by how much, and what it reports.
LEMMA MatchStepFills ==
  ASSUME Inv, MatchStep
  PROVE  /\ MoreToMatch
         /\ \A id \in 1..Len(orders) : id \notin {incoming, RestingId} =>
              orders'[id].filledQuantity = orders[id].filledQuantity
         /\ orders'[incoming].filledQuantity = In.filledQuantity + FillQty
         /\ orders'[RestingId].filledQuantity = Resting.filledQuantity + FillQty
         /\ trades' = Append(trades, FillTrade)
<1>1. PICK status \in OrderStatus :
        /\ MoreToMatch
        /\ \/ orders' = OrdersAfterFill(status)
           \/ orders' = Append(OrdersAfterFill(status), NextSlice(Resting))
        /\ trades' = Append(trades, FillTrade)
  <2>1. "FILLED" \in OrderStatus /\ "PARTIALLY_FILLED" \in OrderStatus
    BY DEF OrderStatus
  <2>2. CASE FillResting
    BY <2>1, <2>2 DEF FillResting
  <2>3. CASE CompleteResting
    BY <2>1, <2>3 DEF CompleteResting
  <2>4. CASE ReplenishResting
    BY <2>1, <2>4 DEF ReplenishResting
  <2> QED
    BY <2>2, <2>3, <2>4 DEF MatchStep
<1> DEFINE filled == OrdersAfterFill(status)
<1>2. /\ filled \in Seq(Order) /\ Len(filled) = Len(orders)
      /\ \A x \in 1..Len(orders) :
           x \notin {incoming, RestingId} => filled[x] = orders[x]
      /\ filled[incoming].filledQuantity = In.filledQuantity + FillQty
      /\ filled[RestingId].filledQuantity = Resting.filledQuantity + FillQty
  <2>1. status \in OrderStatus /\ MoreToMatch
    BY <1>1
  <2> HIDE DEF filled
  <2> QED
    BY <2>1, OrdersFilled DEF filled
<1> HIDE DEF filled
<1>3. \A x \in 1..Len(orders) : orders'[x] = filled[x]
  BY <1>1, <1>2, AppendProperties DEF filled
<1>4. incoming \in 1..Len(orders) /\ RestingId \in 1..Len(orders)
  BY <1>1, MatchFacts
<1> QED
  BY <1>1, <1>2, <1>3, <1>4
\* No order is served out of turn: the resting order a step fills is ahead of
\* every other order of its side, and within the price of a LIMIT order.
THEOREM PriceTimePriorityHolds == Spec => PriceTimePriority
<1>1. ASSUME Inv, [Next]_vars, NEW id \in orderIndex,
             orders'[id].filledQuantity > orders[id].filledQuantity
      PROVE  /\ \A other \in orderIndex \ {id} :
                  BookSide(other) = BookSide(id) => Precedes(id, other)
             /\ In.type = "LIMIT" => ~ Behind(In.side, In.price, Price(id))
  <2>1. id \in 1..Len(orders) /\ orders \in Seq(Order)
    BY <1>1 DEF Inv, TypeOK
  <2>2. orders[id].filledQuantity \in Nat
    BY <2>1, OrderAt, OrderFields
  <2>3. MatchStep
    <3>1. orders'[id].filledQuantity # orders[id].filledQuantity
      BY <1>1, <2>2
    <3> QED
      BY <1>1, <2>1, <3>1, OnlyMatchingFills
  <2>4. MoreToMatch /\ id \in {incoming, RestingId}
    <3>1. orders'[id].filledQuantity # orders[id].filledQuantity
      BY <1>1, <2>2
    <3> QED
      BY <1>1, <2>1, <2>3, <3>1, MatchStepFills
  <2>5. id = RestingId /\ Price(id) = Best.price
    BY <1>1, <2>4, MatchFacts DEF Price, Resting
  <2>6. \A other \in orderIndex \ {id} :
          BookSide(other) = BookSide(id) => Precedes(id, other)
    BY <1>1, <2>4, <2>5, HeadPrecedes
  <2>7. In.type = "LIMIT" => ~ Behind(In.side, In.price, Price(id))
    BY <2>4, <2>5 DEF MoreToMatch, Crosses
  <2> QED
    BY <2>6, <2>7
<1>2. Inv /\ [Next]_vars =>
        [\A id \in orderIndex :
           orders'[id].filledQuantity > orders[id].filledQuantity =>
             /\ \A other \in orderIndex \ {id} :
                  BookSide(other) = BookSide(id) => Precedes(id, other)
             /\ In.type = "LIMIT" => ~ Behind(In.side, In.price, Price(id))]_vars
  BY <1>1
<1> QED
  BY <1>2, Invariance, PTL DEF Spec, PriceTimePriority

\* What a step fills it reports, once, to the right buyer and seller.
LEMMA FillIsReported ==
  ASSUME Inv, [Next]_vars, NEW id \in 1..Len(orders),
         orders'[id].filledQuantity - orders[id].filledQuantity # 0
  PROVE  /\ Len(trades') = Len(trades) + 1
         /\ LET t == trades'[Len(trades')]
            IN  /\ t.quantity = orders'[id].filledQuantity
                                  - orders[id].filledQuantity
                /\ id = IF BookSide(id) = "BUY"
                        THEN t.buyOrderId ELSE t.sellOrderId
<1>1. orders \in Seq(Order) /\ trades \in Seq(Trade)
  BY DEF Inv, TypeOK
<1>2. orders[id].filledQuantity \in Nat
  BY <1>1, OrderAt, OrderFields
<1>3. orders'[id].filledQuantity # orders[id].filledQuantity
  BY <1>2
<1>4. MatchStep
  BY <1>3, OnlyMatchingFills
<1>5. /\ MoreToMatch /\ id \in {incoming, RestingId}
      /\ orders'[id].filledQuantity = orders[id].filledQuantity + FillQty
      /\ trades' = Append(trades, FillTrade)
  BY <1>3, <1>4, MatchStepFills DEF In, Resting
<1>6. FillQty \in Nat /\ RestingId # incoming
  BY <1>5, MatchFacts
<1>7. orders'[id].filledQuantity - orders[id].filledQuantity = FillQty
  BY <1>2, <1>5, <1>6
<1>8. Len(trades') = Len(trades) + 1 /\ trades'[Len(trades')] = FillTrade
  BY <1>1, <1>5, LenProperties
<1>9. id = IF BookSide(id) = "BUY"
           THEN FillTrade.buyOrderId ELSE FillTrade.sellOrderId
  <2>1. CASE id = incoming
    BY <2>1 DEF FillTrade, BookSide, In
  <2>2. CASE id = RestingId
    <3>1. BookSide(id) = Opposite(In.side) /\ In.side \in Side
      BY <1>5, <2>2, MatchFacts, OrderFields DEF BookSide, Resting, Opp
    <3> QED
      BY <2>2, <3>1 DEF FillTrade, Opposite, Side
  <2> QED
    BY <1>5, <2>1, <2>2
<1>10. FillTrade.quantity = FillQty
  BY DEF FillTrade
<1> QED
  BY <1>7, <1>8, <1>9, <1>10

\* No fill goes unreported and no trade names anyone else.
THEOREM EveryFillIsReported == Spec => EveryFillIsATrade
<1>1. Inv /\ [Next]_vars =>
        [\A id \in 1..Len(orders) :
           LET fill == orders'[id].filledQuantity - orders[id].filledQuantity
           IN  fill # 0 =>
                 /\ Len(trades') = Len(trades) + 1
                 /\ LET t == trades'[Len(trades')]
                    IN  /\ t.quantity = fill
                        /\ id = IF BookSide(id) = "BUY"
                                THEN t.buyOrderId ELSE t.sellOrderId]_vars
  BY FillIsReported
<1> QED
  BY <1>1, Invariance, PTL DEF Spec, EveryFillIsATrade
-----------------------------------------------------------------------------
(***************************************************************************)
(* Crossed orders.                                                         *)
(***************************************************************************)

\* OnlyIcebergsCross, in the middle of a call too.
NoLimitCross ==
  \A buy, sell \in orderIndex :
    /\ BookSide(buy) = "BUY"
    /\ BookSide(sell) = "SELL"
    /\ Price(buy) >= Price(sell)
    => orders[IF buy < sell THEN sell ELSE buy].type = "ICEBERG"

\* An order on the book keeps its side, its type and its price.
LEMMA TermsAreKept ==
  ASSUME Inv, [Next]_vars, NEW x \in orderIndex
  PROVE  SameTerms(orders'[x], orders[x])
<1>1. /\ orders \in Seq(Order) /\ x \in 1..Len(orders) /\ orders[x] \in Order
      /\ Len(orders) \in Nat /\ SameTerms(orders[x], orders[x])
  BY OrderAt, LenProperties DEF Inv, TypeOK, SameTerms
<1>2. ASSUME NEW o, orders' = Append(orders, o)
      PROVE  orders'[x] = orders[x]
  BY <1>1, <1>2, AppendProperties
<1>3. ASSUME NEW id, NEW status, orders' = [orders EXCEPT ![id].status = status]
      PROVE  SameTerms(orders'[x], orders[x])
  <2>1. x \in DOMAIN orders
    BY <1>1, LenProperties
  <2>2. CASE x = id
    BY <1>1, <1>3, <2>1, <2>2 DEF Order, SameTerms
  <2>3. CASE x # id
    BY <1>1, <1>3, <2>1, <2>3
  <2> QED
    BY <2>2, <2>3
<1>4. CASE Submit
  <2>1. CASE \E r \in Requests : ~ IsStop(r) /\ AddOrder(CreateOrder(r))
    <3>1. PICK r \in Requests : AddOrder(CreateOrder(r))
      BY <2>1
    <3>2. \E o : orders' = Append(orders, o)
      BY <3>1, Zenon DEF AddOrder, StartMatching, RejectFillOrKill, AddIceberg
    <3> QED
      BY <1>1, <1>2, <3>2
  <2>2. CASE \E r \in Requests : HoldStop(CreateOrder(r))
    BY <1>1, <1>2, <2>2 DEF HoldStop
  <2>3. CASE \E id \in 1..Len(orders) : TriggerStop(id)
    <3>1. PICK id \in 1..Len(orders) : TriggerStop(id)
      BY <2>3
    <3>2. id # x
      BY <3>1 DEF TriggerStop, Inv, IndexedOpen
    <3>3. orders' = [orders EXCEPT ![id] = Promoted(orders[id])]
      BY <3>1 DEF TriggerStop
    <3>4. Promoted(orders[id]) \in Order
      BY <1>1, OrderAt, PromotedFields
    <3>5. orders'[x] = orders[x]
      BY <1>1, <3>2, <3>3, <3>4, OrderReplaced
    <3> QED
      BY <1>1, <3>5
  <2> QED
    BY <1>4, <2>1, <2>2, <2>3 DEF Submit
<1>5. CASE MatchStep
  <2>1. PICK status \in OrderStatus :
          /\ MoreToMatch
          /\ \/ orders' = OrdersAfterFill(status)
             \/ orders' = Append(OrdersAfterFill(status), NextSlice(Resting))
    <3>1. "FILLED" \in OrderStatus /\ "PARTIALLY_FILLED" \in OrderStatus
      BY DEF OrderStatus
    <3> QED
      BY <1>5, <3>1
         DEF MatchStep, FillResting, CompleteResting, ReplenishResting
  <2> DEFINE filled == OrdersAfterFill(status)
  <2>2. /\ filled \in Seq(Order) /\ Len(filled) = Len(orders)
        /\ SameTerms(filled[x], orders[x])
    <3>1. status \in OrderStatus /\ MoreToMatch
      BY <2>1
    <3> HIDE DEF filled
    <3> QED
      BY <1>1, <3>1, OrdersFilled DEF filled
  <2> HIDE DEF filled
  <2>3. orders'[x] = filled[x]
    BY <1>1, <2>1, <2>2, AppendProperties DEF filled
  <2> QED
    BY <2>2, <2>3
<1>6. CASE Finish
  <2>1. CASE FinishFilled
    BY <1>3, <2>1 DEF FinishFilled
  <2>2. CASE RestLimit
    BY <1>3, <2>2 DEF RestLimit
  <2>3. CASE CancelRemainder
    BY <1>3, <2>3 DEF CancelRemainder
  <2>4. CASE ReturnUnfilled
    BY <1>1, <2>4 DEF ReturnUnfilled
  <2> QED
    BY <1>6, <2>1, <2>2, <2>3, <2>4 DEF Finish
<1>7. CASE Cancel
  BY <1>3, <1>7 DEF Cancel, CancelOrder
<1>8. CASE UNCHANGED vars
  BY <1>1, <1>8 DEF vars
<1> QED
  BY <1>4, <1>5, <1>6, <1>7, <1>8 DEF Next

\* When a LIMIT order has done matching, nothing on the other side is within
\* its price.
LEMMA NothingLeftToCross ==
  ASSUME Inv, Finished, Remaining(In) > 0, In.type = "LIMIT",
         NEW x \in orderIndex, orders[x].side = Opp
  PROVE  Behind(In.side, In.price, orders[x].price)
<1> DEFINE list == levels[Opp]
<1>1. /\ In \in Order /\ In.side \in Side /\ Opp \in Side /\ GoodSide(Opp, list)
      /\ In.price \in Nat
  BY IncomingFacts, OrderFields DEF Finished, Opp, Inv, SidesGood
<1>2. Holds(list, orders[x].price, x)
  BY <1>1 DEF Inv, BookMatchesIndex
<1>3. PICK l \in 1..Len(list) : list[l].price = orders[x].price
  BY <1>2 DEF Holds
<1>4. /\ list \in Seq(PriceLevel) /\ Sorted(Opp, list)
  BY <1>1 DEF GoodSide
<1>5. list # << >>
  BY <1>3
<1>6. Behind(In.side, In.price, list[1].price)
  BY <1>5 DEF Finished, MoreToMatch, Crosses, Best
<1> HIDE DEF list
<1>7. list[1].price \in Nat /\ list[l].price \in Nat /\ 1 \in 1..Len(list)
  BY <1>3, <1>4, <1>5, EmptySeq, LevelType
<1>8. l = 1 \/ Behind(Opp, list[l].price, list[1].price)
  BY <1>4, <1>7 DEF Sorted
<1> QED
  BY <1>1, <1>3, <1>6, <1>7, <1>8 DEF Behind, Opp, Opposite, Side

LEMMA CrossingKept ==
  ASSUME Inv, NoLimitCross, [Next]_vars, orderIndex' \subseteq orderIndex
  PROVE  NoLimitCross'
<1>1. \A x \in orderIndex : SameTerms(orders'[x], orders[x])
  BY TermsAreKept
<1> SUFFICES ASSUME NEW buy \in orderIndex', NEW sell \in orderIndex',
                    orders'[buy].side = "BUY", orders'[sell].side = "SELL",
                    orders'[buy].price >= orders'[sell].price
             PROVE  orders'[IF buy < sell THEN sell ELSE buy].type = "ICEBERG"
  BY DEF NoLimitCross, BookSide, Price
<1> DEFINE later == IF buy < sell THEN sell ELSE buy
<1>2. buy \in orderIndex /\ sell \in orderIndex /\ later \in orderIndex
  OBVIOUS
<1>3. orders[later].type = "ICEBERG"
  BY <1>1, <1>2 DEF NoLimitCross, BookSide, Price, SameTerms
<1> HIDE DEF later
<1>4. orders'[later].type = "ICEBERG"
  BY <1>1, <1>2, <1>3 DEF SameTerms
<1> QED
  BY <1>4 DEF later

\* A new order on the book that is younger than the rest may cross only as an
\* iceberg slice; one that is not younger than an order must not cross it.
LEMMA CrossingWithOneMore ==
  ASSUME Inv, NoLimitCross, [Next]_vars, NEW id \in Nat,
         orderIndex' \subseteq orderIndex \union {id},
         \/ orders'[id].type = "ICEBERG" /\ (\A x \in orderIndex : x < id)
         \/ \A x \in orderIndex : orders[x].side # orders'[id].side =>
              Behind(orders'[id].side, orders'[id].price, orders[x].price)
  PROVE  NoLimitCross'
<1>1. \A x \in orderIndex : SameTerms(orders'[x], orders[x])
  BY TermsAreKept
<1>2. \A x \in orderIndex : x \in Nat /\ orders[x].price \in Nat
  BY OrderAt, OrderFields DEF Inv, TypeOK
<1> SUFFICES ASSUME NEW buy \in orderIndex', NEW sell \in orderIndex',
                    orders'[buy].side = "BUY", orders'[sell].side = "SELL",
                    orders'[buy].price >= orders'[sell].price
             PROVE  orders'[IF buy < sell THEN sell ELSE buy].type = "ICEBERG"
  BY DEF NoLimitCross, BookSide, Price
<1> DEFINE later == IF buy < sell THEN sell ELSE buy
<1>3. CASE buy \in orderIndex /\ sell \in orderIndex
  <2>1. later \in orderIndex
    BY <1>3
  <2>2. orders[later].type = "ICEBERG"
    BY <1>1, <1>3 DEF NoLimitCross, BookSide, Price, SameTerms
  <2> HIDE DEF later
  <2>3. orders'[later].type = "ICEBERG"
    BY <1>1, <2>1, <2>2 DEF SameTerms
  <2> QED
    BY <2>3 DEF later
<1>prices. \A x \in orderIndex' : orders'[x].price \in Nat
  <2>1. orders' \in Seq(Order) /\ orderIndex' \subseteq 1..Len(orders')
    BY InvStep DEF Inv, TypeOK
  <2> QED
    BY <2>1, OrderAt, OrderFields
<1>4. CASE buy = id /\ sell \in orderIndex
  <2>1. /\ orders[sell].side = "SELL" /\ orders[sell].price = orders'[sell].price
        /\ orders'[id].side = "BUY"
    BY <1>1, <1>4 DEF SameTerms
  <2>2. orders[sell].price \in Int /\ orders'[id].price \in Int
    BY <1>2, <1>prices, <1>4
  <2>3. ~ Behind(orders'[id].side, orders'[id].price, orders[sell].price)
    BY <1>4, <2>1, <2>2 DEF Behind
  <2>4. orders[sell].side # orders'[id].side
    BY <2>1
  <2>5. orders'[id].type = "ICEBERG" /\ sell < id
    BY <1>4, <2>3, <2>4
  <2>6. sell \in Nat
    BY <1>2, <1>4
  <2> QED
    BY <1>4, <2>5, <2>6
<1>5. CASE sell = id /\ buy \in orderIndex
  <2>1. /\ orders[buy].side = "BUY" /\ orders[buy].price = orders'[buy].price
        /\ orders'[id].side = "SELL"
    BY <1>1, <1>5 DEF SameTerms
  <2>2. orders[buy].price \in Int /\ orders'[id].price \in Int
    BY <1>2, <1>prices, <1>5
  <2>3. ~ Behind(orders'[id].side, orders'[id].price, orders[buy].price)
    BY <1>5, <2>1, <2>2 DEF Behind
  <2>4. orders[buy].side # orders'[id].side
    BY <2>1
  <2>5. orders'[id].type = "ICEBERG" /\ buy < id
    BY <1>5, <2>3, <2>4
  <2>6. buy \in Nat
    BY <1>2, <1>5
  <2> QED
    BY <1>5, <2>5, <2>6
<1>6. ~ (buy = id /\ sell = id)
  OBVIOUS
<1> QED
  BY <1>3, <1>4, <1>5, <1>6
LEMMA CrossStep ==
  ASSUME Inv, NoLimitCross, [Next]_vars
  PROVE  NoLimitCross'
<1>1. CASE orderIndex' \subseteq orderIndex
  BY <1>1, CrossingKept
<1>2. CASE \E r \in Requests : AddOrder(CreateOrder(r))
  <2>1. PICK r \in Requests : AddOrder(CreateOrder(r))
    BY <1>2
  <2> DEFINE o == CreateOrder(r)
  <2>2. o \in Order
    BY BookAssumption, CreatedOrder
  <2> HIDE DEF o
  <2>3. CASE AddIceberg(o)
    <3> DEFINE display == DefaultDisplay(o.displayQty, o.quantity, One)
               whole == [o EXCEPT !.displayQty = display, !.hiddenQty = o.quantity]
    <3>1. display \in Nat \ {0}
      BY <2>2, DisplayIsPositive
    <3> HIDE DEF display
    <3>2. /\ whole \in Order /\ whole.displayQty > 0 /\ whole.hiddenQty > 0
          /\ whole.type = o.type
      BY <2>2, <3>1, IcebergPrepared
    <3> HIDE DEF whole
    <3>3. NextSlice(whole) \in Order /\ NextSlice(whole).type = "ICEBERG"
      BY <2>3, <3>2, SliceFields DEF AddIceberg
    <3>4. /\ orders' = Append(orders, NextSlice(whole))
          /\ orderIndex' = orderIndex \union {NewId}
      BY <2>3 DEF AddIceberg, display, whole
    <3>5. /\ orders \in Seq(Order) /\ Len(orders) \in Nat
          /\ orderIndex \subseteq 1..Len(orders)
      BY LenProperties DEF Inv, TypeOK
    <3>6. orders'[NewId].type = "ICEBERG"
      BY <3>3, <3>4, <3>5, OrderAppended DEF NewId
    <3>7. NewId \in Nat /\ \A x \in orderIndex : x < NewId
      BY <3>5 DEF NewId
    <3> QED
      BY <3>4, <3>6, <3>7, CrossingWithOneMore
  <2>4. CASE ~ AddIceberg(o)
    BY <1>1, <2>1, <2>4 DEF AddOrder, StartMatching, RejectFillOrKill, o
  <2> QED
    BY <2>3, <2>4
<1>3. CASE ReplenishResting
  <2> DEFINE filled == OrdersAfterFill("FILLED")
  <2>1. MoreToMatch /\ "FILLED" \in OrderStatus
    BY <1>3 DEF ReplenishResting, OrderStatus
  <2>2. /\ orders' = Append(filled, NextSlice(Resting))
        /\ orderIndex' \subseteq orderIndex \union {NewId}
    BY <1>3 DEF ReplenishResting
  <2>3. filled \in Seq(Order) /\ Len(filled) = Len(orders)
    <3> HIDE DEF filled
    <3> QED
      BY <2>1, OrdersFilled DEF filled
  <2> HIDE DEF filled
  <2>4. /\ Resting \in Order /\ OrderSound(Resting) /\ Len(orders) \in Nat
        /\ orderIndex \subseteq 1..Len(orders)
        /\ Resting.type = "ICEBERG" /\ Resting.hiddenQty > 0
    BY <1>3, <2>1, MatchFacts DEF ReplenishResting, HasHidden, Inv, TypeOK
  <2>5. NextSlice(Resting) \in Order /\ NextSlice(Resting).type = "ICEBERG"
    BY <2>4, SliceFields DEF OrderSound
  <2>6. orders'[NewId].type = "ICEBERG"
    BY <2>2, <2>3, <2>5, OrderAppended DEF NewId
  <2>7. NewId \in Nat /\ \A x \in orderIndex : x < NewId
    BY <2>4 DEF NewId
  <2> QED
    BY <2>2, <2>6, <2>7, CrossingWithOneMore
<1>4. CASE RestLimit
  <2>1. /\ Finished /\ Remaining(In) > 0 /\ In.type = "LIMIT"
        /\ orderIndex' = orderIndex \union {incoming}
    BY <1>4 DEF RestLimit
  <2>2. /\ orders \in Seq(Order) /\ incoming \in 1..Len(orders)
        /\ In \in Order /\ incoming \in Nat
    BY <2>1, IncomingFacts DEF Finished
  <2>3. SameTerms(orders'[incoming], In)
    <3>1. PICK status : orders' = [orders EXCEPT ![incoming].status = status]
      BY <1>4 DEF RestLimit
    <3>2. incoming \in DOMAIN orders
      BY <2>2, LenProperties
    <3> QED
      BY <2>2, <3>1, <3>2 DEF SameTerms, In, Order
  <2>4. \A x \in orderIndex : orders[x].side # In.side =>
          Behind(In.side, In.price, orders[x].price)
    <3> SUFFICES ASSUME NEW x \in orderIndex, orders[x].side # In.side
                 PROVE  Behind(In.side, In.price, orders[x].price)
      OBVIOUS
    <3>1. orders[x].side \in Side /\ In.side \in Side
      BY <2>2, OrderAt, OrderFields DEF Inv, TypeOK
    <3>2. orders[x].side = Opp
      BY <3>1 DEF Opp, Opposite, Side
    <3> QED
      BY <2>1, <3>2, NothingLeftToCross
  <2>5. \A x \in orderIndex : orders[x].side # orders'[incoming].side =>
          Behind(orders'[incoming].side, orders'[incoming].price, orders[x].price)
    BY <2>3, <2>4 DEF SameTerms
  <2> QED
    BY <2>1, <2>2, <2>5, CrossingWithOneMore
<1>5. CASE \E r \in Requests : HoldStop(CreateOrder(r))
  BY <1>1, <1>5 DEF HoldStop
<1>6. CASE \E id \in 1..Len(orders) : TriggerStop(id)
  BY <1>1, <1>6 DEF TriggerStop, MatchMarketOrder
<1>7. CASE FillResting \/ CompleteResting
  BY <1>1, <1>7 DEF FillResting, CompleteResting
<1>8. CASE FinishFilled \/ CancelRemainder \/ ReturnUnfilled
  BY <1>1, <1>8 DEF FinishFilled, CancelRemainder, ReturnUnfilled
<1>9. CASE Cancel
  BY <1>1, <1>9 DEF Cancel, CancelOrder
<1>10. CASE UNCHANGED vars
  BY <1>1, <1>10 DEF vars
<1> QED
  BY <1>2, <1>3, <1>4, <1>5, <1>6, <1>7, <1>8, <1>9, <1>10
     DEF Next, Submit, MatchStep, Finish

\* The book is crossed only by iceberg slices, which rest unmatched: a LIMIT
\* order never comes to rest within the price of an order that was there.
THEOREM CrossedOnlyByIcebergs == Spec => []OnlyIcebergsCross
<1>1. Init => NoLimitCross
  BY DEF Init, NoLimitCross
<1>2. Inv /\ NoLimitCross /\ [Next]_vars => NoLimitCross'
  BY CrossStep
<1>3. NoLimitCross => OnlyIcebergsCross
  BY DEF NoLimitCross, OnlyIcebergsCross
<1> QED
  BY <1>1, <1>2, <1>3, Invariance, PTL DEF Spec
-----------------------------------------------------------------------------
(***************************************************************************)
(* The totals of the levels.                                               *)
(***************************************************************************)

\* What each order of s has left.
LeftOf(s) == [x \in 1..Len(s) |-> Remaining(s[x])]

\* The indexed orders of one side at one price.
RestingAt(s, index, side, p) ==
  {x \in index : s[x].side = side /\ s[x].price = p}

\* What a level shows is what the indexed orders of its side and price have
\* left: DepthAgrees without the queues, which Inv knows to hold these orders.
DepthSound ==
  \A side \in Side : \A p, t :
    Shows(levels[side], p, t) =>
      t = Total(LeftOf(orders), RestingAt(orders, orderIndex, side, p))

LEMMA LeftOfFacts ==
  ASSUME NEW s \in Seq(Order), NEW index \in SUBSET (1..Len(s)), NEW S \in SUBSET index
  PROVE  /\ IsFiniteSet(S)
         /\ \A x \in S : LeftOf(s)[x] = Remaining(s[x]) /\ LeftOf(s)[x] \in Int
         /\ Total(LeftOf(s), S) \in Int
<1> DEFINE f == LeftOf(s)
<1>1. S \subseteq 1..Len(s) /\ Len(s) \in Nat
  BY LenProperties
<1>2. IsFiniteSet(S)
  <2>1. IsFiniteSet(1..Len(s))
    BY <1>1, FS_Interval
  <2> QED
    BY <1>1, <2>1, FS_Subset
<1>3. ASSUME NEW x \in S PROVE f[x] = Remaining(s[x]) /\ f[x] \in Int
  <2>1. x \in 1..Len(s)
    BY <1>1
  <2>2. Remaining(s[x]) \in Int
    BY <2>1, OrderAt, OrderFields
  <2> QED
    BY <2>1, <2>2 DEF LeftOf
<1> HIDE DEF f
<1>4. Total(f, S) \in Int
  BY <1>2, <1>3, TotalType
<1> QED
  BY <1>2, <1>3, <1>4 DEF f

LEMMA RestingAtFacts ==
  ASSUME NEW s \in Seq(Order), NEW index \in SUBSET (1..Len(s)), NEW side, NEW p
  PROVE  LET S == RestingAt(s, index, side, p)
         IN  /\ IsFiniteSet(S)
             /\ \A x \in S : LeftOf(s)[x] = Remaining(s[x]) /\ LeftOf(s)[x] \in Int
             /\ Total(LeftOf(s), S) \in Int
<1> DEFINE S == RestingAt(s, index, side, p)
<1>1. S \in SUBSET index
  BY DEF RestingAt
<1> HIDE DEF S
<1> QED
  BY <1>1, LeftOfFacts DEF S

\* The orders s, indexed by index, and the orders n, indexed by index2, are the
\* same at this price.
SameAt(s, index, n, index2, side, p) ==
  /\ s \in Seq(Order) /\ index \subseteq 1..Len(s)
  /\ n \in Seq(Order) /\ index2 \subseteq 1..Len(n)
  /\ \A x \in index : s[x].side = side /\ s[x].price = p =>
       x \in index2 /\ n[x] = s[x]
  /\ \A x \in index2 : n[x].side = side /\ n[x].price = p =>
       x \in index /\ n[x] = s[x]

\* Where no order comes, goes or changes, the sum stays.
LEMMA SumKept ==
  ASSUME NEW s, NEW index, NEW n, NEW index2, NEW side, NEW p,
         SameAt(s, index, n, index2, side, p)
  PROVE  Total(LeftOf(n), RestingAt(n, index2, side, p)) =
           Total(LeftOf(s), RestingAt(s, index, side, p))
<1> DEFINE S == RestingAt(s, index, side, p)
           f == LeftOf(s)
           g == LeftOf(n)
<1>1. RestingAt(n, index2, side, p) = S
  BY DEF RestingAt, SameAt
<1>0. /\ s \in Seq(Order) /\ index \in SUBSET (1..Len(s))
      /\ n \in Seq(Order) /\ index2 \in SUBSET (1..Len(n))
  BY DEF SameAt
<1>2. IsFiniteSet(S) /\ \A x \in S : f[x] = Remaining(s[x]) /\ f[x] \in Int
  BY <1>0, RestingAtFacts
<1>3. \A x \in S : g[x] = Remaining(n[x])
  BY <1>0, <1>1, RestingAtFacts
<1>4. \A x \in S : n[x] = s[x]
  BY DEF RestingAt, SameAt
<1> HIDE DEF S, f, g
<1>5. Total(f, S) = Total(g, S)
  BY <1>2, <1>3, <1>4, TotalSame
<1> QED
  BY <1>1, <1>5 DEF S, f, g

LEMMA DepthUntouched ==
  ASSUME Inv, Inv', DepthSound, levels' = levels, orderIndex' = orderIndex,
         \A x \in orderIndex : orders'[x] = orders[x]
  PROVE  DepthSound'
<1>1. /\ orders \in Seq(Order) /\ orderIndex \in SUBSET (1..Len(orders))
      /\ orders' \in Seq(Order) /\ orderIndex' \in SUBSET (1..Len(orders'))
  BY DEF Inv, TypeOK
<1> SUFFICES ASSUME NEW side \in Side, NEW p, NEW t, Shows(levels'[side], p, t)
             PROVE  t = Total(LeftOf(orders'), RestingAt(orders', orderIndex', side, p))
  BY DEF DepthSound
<1>2. t = Total(LeftOf(orders), RestingAt(orders, orderIndex, side, p))
  BY DEF DepthSound
<1>3. Total(LeftOf(orders'), RestingAt(orders', orderIndex', side, p)) =
        Total(LeftOf(orders), RestingAt(orders, orderIndex, side, p))
  <2>1. SameAt(orders, orderIndex, orders', orderIndex', side, p)
    BY <1>1 DEF SameAt
  <2> QED
    BY <2>1, SumKept
<1> QED
  BY <1>2, <1>3

\* A step that moves orders of one side and price only, and gets the total of
\* their level right.
MovesOnePrice(side, price, new) ==
  /\ levels' = [levels EXCEPT ![side] = new]
  /\ \A x \in orderIndex :
       \/ orders[x].side = side /\ orders[x].price = price
       \/ x \in orderIndex' /\ orders'[x] = orders[x]
  /\ \A x \in orderIndex' :
       \/ orders'[x].side = side /\ orders'[x].price = price
       \/ x \in orderIndex /\ orders'[x] = orders[x]
  /\ \A p, t : Shows(new, p, t) =>
       IF p = price
       THEN t = Total(LeftOf(orders'),
                      RestingAt(orders', orderIndex', side, price))
       ELSE Shows(levels[side], p, t)

LEMMA DepthAtOnePrice ==
  ASSUME Inv, Inv', DepthSound, NEW side \in Side, NEW price, NEW new,
         MovesOnePrice(side, price, new)
  PROVE  DepthSound'
<1>1. /\ orders \in Seq(Order) /\ orderIndex \in SUBSET (1..Len(orders))
      /\ orders' \in Seq(Order) /\ orderIndex' \in SUBSET (1..Len(orders'))
      /\ levels \in [Side -> Seq(PriceLevel)]
  BY DEF Inv, TypeOK
<1> SUFFICES ASSUME NEW s \in Side, NEW p, NEW t, Shows(levels'[s], p, t)
             PROVE  t = Total(LeftOf(orders'), RestingAt(orders', orderIndex', s, p))
  BY DEF DepthSound
<1>2. levels'[s] = IF s = side THEN new ELSE levels[s]
  BY <1>1 DEF MovesOnePrice
<1>3. CASE s = side /\ p = price
  BY <1>2, <1>3 DEF MovesOnePrice
<1>4. CASE ~ (s = side /\ p = price)
  <2>1. Shows(levels[s], p, t)
    BY <1>2, <1>4 DEF MovesOnePrice
  <2>2. t = Total(LeftOf(orders), RestingAt(orders, orderIndex, s, p))
    BY <2>1 DEF DepthSound
  <2>3. /\ \A x \in orderIndex : orders[x].side = s /\ orders[x].price = p =>
             x \in orderIndex' /\ orders'[x] = orders[x]
        /\ \A x \in orderIndex' : orders'[x].side = s /\ orders'[x].price = p =>
             x \in orderIndex /\ orders'[x] = orders[x]
    BY <1>4 DEF MovesOnePrice
  <2>4. Total(LeftOf(orders'), RestingAt(orders', orderIndex', s, p)) =
          Total(LeftOf(orders), RestingAt(orders, orderIndex, s, p))
    <3>1. SameAt(orders, orderIndex, orders', orderIndex', s, p)
      BY <1>1, <2>3 DEF SameAt
    <3> QED
      BY <3>1, SumKept
  <2> QED
    BY <2>2, <2>4
<1> QED
  BY <1>3, <1>4

\* The orders n, indexed by index2, are the orders s, indexed by index, and id.
OneMore(s, index, n, index2, id, side, p) ==
  /\ s \in Seq(Order) /\ index \subseteq 1..Len(s)
  /\ n \in Seq(Order) /\ index2 \subseteq 1..Len(n)
  /\ id \notin index /\ index2 = index \union {id}
  /\ \A x \in index : n[x] = s[x]
  /\ n[id].side = side /\ n[id].price = p

\* An order joins the others of its price.
LEMMA SumWithOneMore ==
  ASSUME NEW s, NEW index, NEW n, NEW index2, NEW id, NEW side, NEW p,
         OneMore(s, index, n, index2, id, side, p)
  PROVE  Total(LeftOf(n), RestingAt(n, index2, side, p)) =
           Remaining(n[id]) + Total(LeftOf(s), RestingAt(s, index, side, p))
<1> DEFINE S == RestingAt(s, index, side, p)
           T == RestingAt(n, index2, side, p)
           U == RestingAt(n, index, side, p)
           f == LeftOf(n)
<1>0. /\ s \in Seq(Order) /\ index \in SUBSET (1..Len(s))
      /\ n \in Seq(Order) /\ index2 \in SUBSET (1..Len(n))
      /\ id \notin index /\ index2 = index \union {id}
      /\ \A x \in index : n[x] = s[x]
      /\ n[id].side = side /\ n[id].price = p
      /\ index \in SUBSET (1..Len(n))
  BY DEF OneMore
<1>1. T = U \union {id} /\ id \notin U
  BY <1>0 DEF RestingAt
<1>2. /\ IsFiniteSet(U)
      /\ \A x \in T : f[x] = Remaining(n[x]) /\ f[x] \in Int
  BY <1>0, RestingAtFacts
<1>3. Total(f, U) = Total(LeftOf(s), S)
  <2>1. SameAt(s, index, n, index, side, p)
    BY <1>0 DEF SameAt
  <2> QED
    BY <2>1, SumKept
<1> HIDE DEF S, T, U, f
<1>4. Total(f, T) = f[id] + Total(f, U)
  BY <1>1, <1>2, TotalAdd
<1>5. f[id] = Remaining(n[id])
  BY <1>1, <1>2
<1> QED
  BY <1>3, <1>4, <1>5 DEF S, T, f

\* insertOrder, as AddIceberg and RestLimit use it.
JoinsBook(id, o) ==
  /\ id \in Nat \ {0} /\ id \notin orderIndex /\ o \in Order
  /\ \A x \in orderIndex : orders[x].side = o.side => x < id
  /\ levels' = [levels EXCEPT ![o.side] = InsertOrder(@, id, o)]
  /\ orderIndex' = orderIndex \union {id}
  /\ \A x \in orderIndex : orders'[x] = orders[x]
  /\ SameTerms(orders'[id], o) /\ Remaining(orders'[id]) = Remaining(o)

LEMMA DepthWithOneMore ==
  ASSUME Inv, Inv', DepthSound, NEW id, NEW o, JoinsBook(id, o)
  PROVE  DepthSound'
<1> DEFINE side == o.side
           list == levels[side]
           new == InsertOrder(list, id, o)
           price == o.price
           sum == Total(LeftOf(orders), RestingAt(orders, orderIndex, side, price))
           sum2 == Total(LeftOf(orders'), RestingAt(orders', orderIndex', side, price))
<1> USE DEF JoinsBook
<1>1. /\ side \in Side /\ levels \in [Side -> Seq(PriceLevel)]
      /\ GoodSide(side, list) /\ BookMatchesIndex
      /\ orders \in Seq(Order) /\ orderIndex \in SUBSET (1..Len(orders))
      /\ orders' \in Seq(Order) /\ orderIndex' \in SUBSET (1..Len(orders'))
      /\ Remaining(o) \in Int
  BY OrderFields DEF Inv, TypeOK, SidesGood
<1>2. \A p, x : Holds(list, p, x) <=>
        x \in orderIndex /\ orders[x].side = side /\ orders[x].price = p
  BY <1>1 DEF BookMatchesIndex
<1>3. \A p, t : Shows(new, p, t) =>
        IF p = price
        THEN \/ Shows(list, p, t - Remaining(o))
             \/ t = Remaining(o) /\ \A x : ~ Holds(list, p, x)
        ELSE Shows(list, p, t)
  <2>1. \A p, x : Holds(list, p, x) => x < id
    BY <1>2
  <2> HIDE DEF list
  <2> QED
    BY <1>1, <2>1, InsertOrderEffect
<1>4. sum2 = Remaining(o) + sum /\ sum \in Int
  <2>1. orders'[id].side = side /\ orders'[id].price = price
    BY DEF SameTerms
  <2>2. id \in 1..Len(orders') /\ orderIndex \union {id} \in SUBSET (1..Len(orders'))
    BY <1>1
  <2>3. sum2 = Remaining(orders'[id]) + sum
    <3>1. OneMore(orders, orderIndex, orders', orderIndex', id, side, price)
      BY <1>1, <2>1, <2>2 DEF OneMore
    <3> QED
      BY <3>1, SumWithOneMore
  <2>4. sum \in Int
    BY <1>1, RestingAtFacts
  <2> QED
    BY <2>3, <2>4
<1>5. ASSUME NEW t, Shows(new, price, t) PROVE t = sum2
  <2>1. CASE Shows(list, price, t - Remaining(o))
    <3>1. t - Remaining(o) = sum
      BY <1>1, <2>1 DEF DepthSound
    <3>2. t \in Int
      <4>1. new \in Seq(PriceLevel)
        <5>1. levels'[side] \in Seq(PriceLevel) /\ levels'[side] = new
          BY <1>1 DEF Inv, TypeOK
        <5> QED
          BY <5>1
      <4> HIDE DEF new
      <4> QED
        BY <1>5, <4>1, LevelType DEF Shows
    <3> HIDE DEF sum, sum2
    <3> QED
      BY <1>1, <1>4, <3>1, <3>2
  <2>2. CASE t = Remaining(o) /\ \A x : ~ Holds(list, price, x)
    <3>1. RestingAt(orders, orderIndex, side, price) = {}
      BY <1>2, <2>2 DEF RestingAt
    <3>2. sum = 0
      BY <3>1, TotalEmpty
    <3> HIDE DEF sum, sum2
    <3> QED
      BY <1>1, <1>4, <2>2, <3>2
  <2> QED
    BY <1>3, <1>5, <2>1, <2>2
<1>6. /\ \A x \in orderIndex : x \in orderIndex' /\ orders'[x] = orders[x]
      /\ \A x \in orderIndex' :
           \/ orders'[x].side = side /\ orders'[x].price = price
           \/ x \in orderIndex /\ orders'[x] = orders[x]
  BY DEF SameTerms
<1>7. \A p, t : Shows(new, p, t) =>
        IF p = price THEN t = sum2 ELSE Shows(levels[side], p, t)
  BY <1>3, <1>5
<1>8. levels' = [levels EXCEPT ![side] = new]
  OBVIOUS
<1>9. MovesOnePrice(side, price, new)
  BY <1>6, <1>7, <1>8 DEF MovesOnePrice
<1> HIDE DEF new, list, price, side
<1> QED
  BY <1>1, <1>9, DepthAtOnePrice
\* What a level shows, an order of it taken apart from the rest.
LEMMA LevelWithoutOne ==
  ASSUME Inv, DepthSound, NEW id \in orderIndex, NEW l,
         l \in 1..Len(levels[orders[id].side]),
         levels[orders[id].side][l].price = orders[id].price
  PROVE  LET rest == Total(LeftOf(orders),
                           RestingAt(orders, orderIndex \ {id},
                                     orders[id].side, orders[id].price))
         IN  /\ rest \in Int
             /\ Remaining(orders[id]) \in Int
             /\ levels[orders[id].side][l].totalQuantity =
                  Remaining(orders[id]) + rest
<1> DEFINE side == orders[id].side
           price == orders[id].price
           total == levels[side][l].totalQuantity
           apart == orderIndex \ {id}
           rest == Total(LeftOf(orders), RestingAt(orders, apart, side, price))
<1>1. /\ orders \in Seq(Order) /\ orderIndex \subseteq 1..Len(orders)
      /\ id \in 1..Len(orders) /\ orders[id] \in Order
  BY OrderAt DEF Inv, TypeOK
<1>2. side \in Side /\ Remaining(orders[id]) \in Int
  BY <1>1, OrderFields
<1>3. rest \in Int
  BY <1>1, RestingAtFacts
<1>4. total = Total(LeftOf(orders), RestingAt(orders, orderIndex, side, price))
  <2>1. Shows(levels[side], price, total)
    BY DEF Shows
  <2> HIDE DEF total
  <2> QED
    BY <1>2, <2>1 DEF DepthSound
<1>5. Total(LeftOf(orders), RestingAt(orders, orderIndex, side, price)) =
        Remaining(orders[id]) + rest
  <2>1. OneMore(orders, apart, orders, orderIndex, id, side, price)
    BY <1>1 DEF OneMore
  <2> HIDE DEF apart, side, price
  <2> QED
    BY <2>1, SumWithOneMore
<1> QED
  BY <1>2, <1>3, <1>4, <1>5

\* cancelOrder takes what the order has left out of its level.
LEMMA DepthAfterCancel ==
  ASSUME Inv, Inv', DepthSound, NEW id, CancelOrder(id)
  PROVE  DepthSound'
<1> DEFINE o == orders[id]
           side == o.side
           price == o.price
           list == levels[side]
           i == FindLevelIndex(list, price, side)
           new == RemoveOrder(list, i, id, o)
           apart == orderIndex \ {id}
           rest == Total(LeftOf(orders), RestingAt(orders, apart, side, price))
           sum2 == Total(LeftOf(orders'), RestingAt(orders', orderIndex', side, price))
<1>1. /\ id \in orderIndex /\ id \in 1..Len(orders) /\ o \in Order
      /\ orders \in Seq(Order) /\ orderIndex \subseteq 1..Len(orders)
      /\ orders' \in Seq(Order) /\ orderIndex' \subseteq 1..Len(orders')
      /\ orders' = [orders EXCEPT ![id].status = "CANCELLED"]
      /\ orderIndex' = apart
      /\ levels' = [levels EXCEPT ![side] = new]
      /\ i # 0 /\ Contains(list[i].orders, id)
  BY OrderAt DEF CancelOrder, Inv, TypeOK
<1>2. side \in Side /\ price \in Nat /\ GoodSide(side, list)
  BY <1>1, OrderFields DEF Inv, SidesGood
<1>3. \A x \in orderIndex' : x \in orderIndex /\ x # id /\ orders'[x] = orders[x]
  BY <1>1
<1>4. i \in 1..Len(list) /\ list[i].price = price
  <2> HIDE DEF list, side, price
  <2>1. list \in Seq(PriceLevel) /\ Sorted(side, list)
    BY <1>2 DEF GoodSide
  <2>2. i \in 0..Len(list) /\ (i # 0 => list[i].price = price)
    BY <1>2, <2>1, FindLevelIndexProperties
  <2> QED
    BY <1>1, <2>2
<1> HIDE DEF i
<1>5. InQueue(list[i].orders, id)
  <2>1. list[i].orders \in Seq(Nat \ {0})
    BY <1>2, <1>4, LevelType DEF GoodSide
  <2>2. DOMAIN list[i].orders = 1..Len(list[i].orders)
    BY <2>1, LenProperties
  <2> QED
    BY <1>1, <2>2 DEF Contains, InQueue
<1>6. \A p, t : Shows(new, p, t) =>
        IF p = price THEN t = list[i].totalQuantity - Remaining(o)
        ELSE Shows(list, p, t)
  <2> HIDE DEF list, o, side
  <2>1. \A p, t : Shows(new, p, t) =>
          IF p = list[i].price THEN t = list[i].totalQuantity - Remaining(o)
          ELSE Shows(list, p, t)
    BY <1>1, <1>2, <1>4, <1>5, RemoveOrderEffect
  <2> HIDE DEF new, price
  <2> QED
    BY <1>4, <2>1
<1>7. /\ rest \in Int /\ Remaining(o) \in Int
      /\ list[i].totalQuantity = Remaining(o) + rest
  BY <1>1, <1>4, LevelWithoutOne
<1>8. sum2 = rest
  <2>1. SameAt(orders, apart, orders', orderIndex', side, price)
    BY <1>1, <1>3 DEF SameAt
  <2> HIDE DEF apart, side, price
  <2> QED
    BY <2>1, SumKept
<1>9. \A p, t : Shows(new, p, t) =>
        IF p = price THEN t = sum2 ELSE Shows(levels[side], p, t)
  <2> HIDE DEF new, rest, sum2
  <2> QED
    BY <1>6, <1>7, <1>8
<1>10. \A x \in orderIndex :
         \/ orders[x].side = side /\ orders[x].price = price
         \/ x \in orderIndex' /\ orders'[x] = orders[x]
  BY <1>1, <1>3
<1>11. \A x \in orderIndex' :
         \/ orders'[x].side = side /\ orders'[x].price = price
         \/ x \in orderIndex /\ orders'[x] = orders[x]
  BY <1>3
<1>12. levels' = [levels EXCEPT ![side] = new]
  BY <1>1
<1>13. MovesOnePrice(side, price, new)
  BY <1>9, <1>10, <1>11, <1>12 DEF MovesOnePrice
<1> HIDE DEF new, side, price
<1> QED
  BY <1>2, <1>13, DepthAtOnePrice

\* A step of the loop: the level it works on shows what it did, less the fill,
\* and more what a slice put back.
FillMoves(new, more) ==
  /\ levels' = [levels EXCEPT ![Opp] = new]
  /\ orderIndex \ {RestingId} \subseteq orderIndex'
  /\ \A x \in orderIndex \ {RestingId} : orders'[x] = orders[x]
  /\ \A x \in orderIndex' :
       \/ x \in orderIndex \ {RestingId}
       \/ orders'[x].side = Opp /\ orders'[x].price = Best.price
  /\ \A p, t : Shows(new, p, t) =>
       IF p = Best.price THEN t = Best.totalQuantity - FillQty + more
       ELSE Shows(levels[Opp], p, t)
  /\ Total(LeftOf(orders'), RestingAt(orders', orderIndex', Opp, Best.price)) =
       Total(LeftOf(orders),
             RestingAt(orders, orderIndex \ {RestingId}, Opp, Best.price))
         + Remaining(Resting) - FillQty + more

LEMMA DepthAfterFill ==
  ASSUME Inv, Inv', DepthSound, MoreToMatch, NEW new, NEW more \in Int,
         FillMoves(new, more)
  PROVE  DepthSound'
<1> DEFINE price == Best.price
           rest == Total(LeftOf(orders), RestingAt(orders, orderIndex \ {RestingId},
                                                   Opp, price))
           sum2 == Total(LeftOf(orders'), RestingAt(orders', orderIndex', Opp, price))
<1>1. /\ Opp \in Side /\ RestingId \in orderIndex
      /\ Resting.side = Opp /\ Resting.price = price
      /\ FillQty \in Nat /\ levels[Opp] # << >>
      /\ levels[Opp] \in Seq(PriceLevel)
  BY MatchFacts DEF GoodSide
<1>2. 1 \in 1..Len(levels[Opp])
  BY <1>1, EmptySeq
<1>3. /\ rest \in Int /\ Remaining(Resting) \in Int
      /\ Best.totalQuantity = Remaining(Resting) + rest
  <2>1. orders[RestingId].side = Opp /\ orders[RestingId].price = price
    BY <1>1 DEF Resting
  <2>2. /\ 1 \in 1..Len(levels[orders[RestingId].side])
        /\ levels[orders[RestingId].side][1].price = orders[RestingId].price
    BY <1>2, <2>1 DEF Best
  <2>3. LET r == Total(LeftOf(orders),
                       RestingAt(orders, orderIndex \ {RestingId},
                                 orders[RestingId].side, orders[RestingId].price))
        IN  /\ r \in Int
            /\ Remaining(orders[RestingId]) \in Int
            /\ levels[orders[RestingId].side][1].totalQuantity =
                 Remaining(orders[RestingId]) + r
    BY <1>1, <2>2, LevelWithoutOne
  <2> QED
    BY <2>1, <2>3 DEF Best, Resting
<1>4. \A p, t : Shows(new, p, t) =>
        IF p = price THEN t = sum2 ELSE Shows(levels[Opp], p, t)
  <2> HIDE DEF rest, sum2, price
  <2>1. Best.totalQuantity - FillQty + more = sum2
    BY <1>1, <1>3 DEF rest, sum2, price, FillMoves
  <2> QED
    BY <2>1 DEF price, FillMoves
<1>5. \A x \in orderIndex :
        \/ orders[x].side = Opp /\ orders[x].price = price
        \/ x \in orderIndex' /\ orders'[x] = orders[x]
  BY <1>1 DEF Resting, FillMoves
<1>6. \A x \in orderIndex' :
        \/ orders'[x].side = Opp /\ orders'[x].price = price
        \/ x \in orderIndex /\ orders'[x] = orders[x]
  BY DEF FillMoves
<1>7. MovesOnePrice(Opp, price, new)
  BY <1>4, <1>5, <1>6 DEF MovesOnePrice, FillMoves
<1> HIDE DEF price
<1> QED
  BY <1>1, <1>7, DepthAtOnePrice

\* What a step of the loop does to the level it works on.
LEMMA MatchMoves ==
  ASSUME Inv, Inv', MatchStep
  PROVE  \E new : \E more \in Nat : FillMoves(new, more)
<1> DEFINE list == levels[Opp]
           price == Best.price
           apart == orderIndex \ {RestingId}
           rest == Total(LeftOf(orders), RestingAt(orders, apart, Opp, price))
           sum2 == Total(LeftOf(orders'), RestingAt(orders', orderIndex', Opp, price))
<1>1. MoreToMatch
  BY DEF MatchStep, FillResting, CompleteResting, ReplenishResting
<1>2. /\ orders \in Seq(Order) /\ Len(orders) \in Nat
      /\ orderIndex \subseteq 1..Len(orders)
      /\ orders' \in Seq(Order) /\ orderIndex' \subseteq 1..Len(orders')
      /\ incoming \in 1..Len(orders) /\ incoming \notin orderIndex
      /\ RestingId \in orderIndex /\ RestingId \in 1..Len(orders)
      /\ Resting \in Order /\ OrderSound(Resting)
      /\ Resting.side = Opp /\ Resting.price = price
      /\ Opp \in Side /\ GoodSide(Opp, list) /\ list # << >>
      /\ FillQty \in Nat /\ FillQty <= Remaining(Resting)
      /\ "FILLED" \in OrderStatus /\ "PARTIALLY_FILLED" \in OrderStatus
  BY <1>1, MatchFacts DEF Inv, TypeOK, OrderStatus
<1>3. /\ rest \in Int /\ Remaining(Resting) \in Int
      /\ Resting.quantity \in Nat /\ Resting.filledQuantity \in Nat
      /\ Best.totalQuantity \in Int /\ FillQty \in Int
      /\ RestingIsFilled => FillQty = Remaining(Resting)
  <2>1. rest \in Int
    BY <1>2, RestingAtFacts
  <2>2. /\ Remaining(Resting) \in Int
        /\ Resting.quantity \in Nat /\ Resting.filledQuantity \in Nat
    BY <1>2, OrderFields
  <2>3. Best.totalQuantity \in Int
    <3>1. list \in Seq(PriceLevel) /\ 1 \in 1..Len(list)
      BY <1>2, EmptySeq DEF GoodSide
    <3> HIDE DEF list
    <3>2. list[1].totalQuantity \in Int
      BY <3>1, LevelType
    <3> QED
      BY <3>2 DEF list, Best
  <2>4. ASSUME RestingIsFilled PROVE FillQty = Remaining(Resting)
    <3>1. Resting.filledQuantity + FillQty >= Resting.quantity
      BY <2>4 DEF RestingIsFilled
    <3>2. FillQty \in Nat /\ FillQty <= Resting.quantity - Resting.filledQuantity
      BY <1>2 DEF Remaining
    <3>3. FillQty = Resting.quantity - Resting.filledQuantity
      BY <2>2, <3>1, <3>2
    <3> QED
      BY <3>3 DEF Remaining
  <2> QED
    BY <1>2, <2>1, <2>2, <2>3, <2>4
<1>4. CASE FillResting
  <2> DEFINE new == Served(list, list[1].orders, FillQty)
  <2>1. /\ orders' = OrdersAfterFill("PARTIALLY_FILLED")
        /\ levels' = [levels EXCEPT ![Opp] = new]
        /\ orderIndex' = orderIndex
    BY <1>4 DEF FillResting, LevelsAfterFill, Served, Best
  <2>2. /\ \A x \in 1..Len(orders) :
             /\ SameTerms(orders'[x], orders[x])
             /\ x \notin {incoming, RestingId} => orders'[x] = orders[x]
        /\ orders'[RestingId].filledQuantity = Resting.filledQuantity + FillQty
    BY <1>1, <1>2, <2>1, OrdersFilled
  <2>3. /\ \A x \in apart : orders'[x] = orders[x]
        /\ orders'[RestingId].side = Opp /\ orders'[RestingId].price = price
        /\ Remaining(orders'[RestingId]) = Remaining(Resting) - FillQty
    BY <1>2, <1>3, <2>2, SMTT(30) DEF SameTerms, Resting, Remaining
  <2>4. \A p, t : Shows(new, p, t) =>
          IF p = price THEN t = Best.totalQuantity - FillQty ELSE Shows(list, p, t)
    <3>1. \A p, t : Shows(new, p, t) =>
            IF p = list[1].price THEN t = list[1].totalQuantity - FillQty
            ELSE Shows(list, p, t)
      <4> HIDE DEF list
      <4> QED
        BY <1>2, PartialFillEffect
    <3> HIDE DEF new
    <3> QED
      BY <3>1 DEF Best
  <2>5. sum2 = Remaining(orders'[RestingId]) + rest
    <3>1. OneMore(orders, apart, orders', orderIndex', RestingId, Opp, price)
      BY <1>2, <2>1, <2>3 DEF OneMore
    <3> HIDE DEF apart, price
    <3> QED
      BY <3>1, SumWithOneMore
  <2>6. FillMoves(new, 0)
    <3>1. sum2 = rest + Remaining(Resting) - FillQty + 0
      BY <1>2, <1>3, <2>3, <2>5
    <3>2. Best.totalQuantity - FillQty + 0 = Best.totalQuantity - FillQty
      BY <1>3
    <3> HIDE DEF new
    <3> QED
      BY <1>2, <2>1, <2>3, <2>4, <3>1, <3>2 DEF FillMoves
  <2> HIDE DEF new
  <2> QED
    BY <2>6
<1>5. CASE CompleteResting
  <2> DEFINE new == DropDepleted(Served(list, Tail(list[1].orders), FillQty))
  <2>1. /\ orders' = OrdersAfterFill("FILLED")
        /\ levels' = [levels EXCEPT ![Opp] = new]
        /\ orderIndex' = apart /\ RestingIsFilled
    BY <1>5 DEF CompleteResting, LevelsAfterFill, Served, Best
  <2>2. \A x \in 1..Len(orders) :
          x \notin {incoming, RestingId} => orders'[x] = orders[x]
    BY <1>1, <1>2, <2>1, OrdersFilled
  <2>3. \A x \in apart : orders'[x] = orders[x]
    BY <1>2, <2>2
  <2>4. \A p, t : Shows(new, p, t) =>
          IF p = price THEN t = Best.totalQuantity - FillQty ELSE Shows(list, p, t)
    <3>1. \A p, t : Shows(new, p, t) =>
            IF p = list[1].price THEN t = list[1].totalQuantity - FillQty
            ELSE Shows(list, p, t)
      <4> HIDE DEF list
      <4> QED
        BY <1>2, <1>3, FullFillEffect, Zenon
    <3> HIDE DEF new
    <3> QED
      BY <3>1 DEF Best
  <2>5. sum2 = rest
    <3>1. SameAt(orders, apart, orders', orderIndex', Opp, price)
      BY <1>2, <2>1, <2>3 DEF SameAt
    <3> HIDE DEF apart, price
    <3> QED
      BY <3>1, SumKept
  <2>6. FillMoves(new, 0)
    <3>1. FillQty = Remaining(Resting)
      BY <1>3, <2>1
    <3>2. sum2 = rest + Remaining(Resting) - FillQty + 0
      BY <1>2, <1>3, <2>5, <3>1
    <3>3. Best.totalQuantity - FillQty + 0 = Best.totalQuantity - FillQty
      BY <1>3
    <3> HIDE DEF new
    <3> QED
      BY <1>2, <2>1, <2>3, <2>4, <3>2, <3>3 DEF FillMoves
  <2> HIDE DEF new
  <2> QED
    BY <2>6
<1>6. CASE ReplenishResting
  <2> DEFINE slice == NextSlice(Resting)
             filled == OrdersAfterFill("FILLED")
             new == Replenished(list, FillQty, NewId, slice)
  <2>1. /\ orders' = Append(filled, slice)
        /\ levels' = [levels EXCEPT ![Opp] = new]
        /\ orderIndex' = apart \union {NewId} /\ RestingIsFilled
    BY <1>6 DEF ReplenishResting, LevelsAfterFill, Served, Best, Replenished
  <2>2. /\ filled \in Seq(Order) /\ Len(filled) = Len(orders)
        /\ \A x \in 1..Len(orders) :
             x \notin {incoming, RestingId} => filled[x] = orders[x]
    <3> HIDE DEF filled
    <3> QED
      BY <1>1, <1>2, OrdersFilled DEF filled
  <2>3. /\ slice \in Order /\ slice.side = Opp /\ slice.price = price
        /\ Remaining(slice) \in Int /\ Remaining(slice) > 0
    <3>1. Resting.displayQty > 0 /\ Resting.hiddenQty > 0
      BY <1>2, <1>6 DEF ReplenishResting, HasHidden, OrderSound
    <3>2. /\ slice \in Order /\ slice.side = Opp /\ slice.price = price
          /\ Remaining(slice) > 0
      BY <1>2, <3>1, SliceFields
    <3> HIDE DEF slice
    <3> QED
      BY <3>2, OrderFields
  <2> HIDE DEF slice, filled
  <2>4. /\ orders'[NewId] = slice /\ NewId \in 1..Len(orders') /\ NewId \notin apart
        /\ NewId \in Nat \ {0} /\ \A x \in orderIndex : x < NewId
        /\ \A x \in 1..Len(orders) : orders'[x] = filled[x]
    <3>1. /\ Len(orders') = Len(orders) + 1
          /\ \A x \in 1..Len(orders) : orders'[x] = filled[x]
          /\ orders'[Len(orders) + 1] = slice
      BY <2>1, <2>2, <2>3, OrderAppended
    <3> QED
      BY <1>2, <3>1 DEF NewId
  <2>5. \A x \in apart : orders'[x] = orders[x]
    BY <1>2, <2>2, <2>4
  <2>6. \A p, t : Shows(new, p, t) =>
          IF p = price THEN t = Best.totalQuantity - FillQty + Remaining(slice)
          ELSE Shows(list, p, t)
    <3>1. \A p, x : Holds(list, p, x) => x < NewId
      BY <1>2, <2>4 DEF Inv, BookMatchesIndex
    <3>2. slice.price = list[1].price
      BY <2>3 DEF Best
    <3>3. \A p, t : Shows(new, p, t) =>
            IF p = list[1].price
            THEN t = list[1].totalQuantity - FillQty + Remaining(slice)
            ELSE Shows(list, p, t)
      <4> HIDE DEF list
      <4> QED
        <5>1. SliceFits(Opp, list, slice, NewId)
          BY <2>3, <2>4, <3>1, <3>2 DEF SliceFits
        <5> QED
          BY <1>2, <1>3, <5>1, ReplenishEffect
    <3> HIDE DEF new
    <3> QED
      BY <3>3 DEF Best
  <2>7. sum2 = Remaining(slice) + rest
    <3>1. OneMore(orders, apart, orders', orderIndex', NewId, Opp, price)
      BY <1>2, <2>1, <2>3, <2>4, <2>5 DEF OneMore
    <3> HIDE DEF apart, price
    <3> QED
      BY <2>4, <3>1, SumWithOneMore
  <2>8. FillMoves(new, Remaining(slice))
    <3>1. FillQty = Remaining(Resting)
      BY <1>3, <2>1
    <3>2. sum2 = rest + Remaining(Resting) - FillQty + Remaining(slice)
      BY <1>2, <1>3, <2>3, <2>7, <3>1
    <3> HIDE DEF new
    <3> QED
      BY <1>2, <2>1, <2>3, <2>4, <2>5, <2>6, <3>2 DEF FillMoves
  <2> HIDE DEF new
  <2> QED
    <3>1. Remaining(slice) \in Nat
      BY <2>3
    <3> QED
      BY <2>8, <3>1
<1> QED
  BY <1>4, <1>5, <1>6 DEF MatchStep

LEMMA DepthAfterMatch ==
  ASSUME Inv, Inv', DepthSound, MatchStep
  PROVE  DepthSound'
<1>1. MoreToMatch
  BY DEF MatchStep, FillResting, CompleteResting, ReplenishResting
<1>2. PICK new, more : more \in Nat /\ FillMoves(new, more)
  BY MatchMoves
<1> QED
  BY <1>1, <1>2, DepthAfterFill

LEMMA DepthInit == Init => DepthSound
<1> SUFFICES ASSUME Init PROVE DepthSound
  OBVIOUS
<1>1. \A side \in Side : levels[side] = << >>
  BY DEF Init
<1> QED
  BY <1>1 DEF DepthSound, Shows

\* The first slice of an iceberg goes straight to the book.
LEMMA IcebergAdded ==
  ASSUME NEW o \in Order, AddIceberg(o)
  PROVE  \E slice \in Order :
           /\ slice.side = o.side /\ slice.type = "ICEBERG"
           /\ orders' = Append(orders, slice)
           /\ levels' = [levels EXCEPT ![o.side] = InsertOrder(@, NewId, slice)]
           /\ orderIndex' = orderIndex \union {NewId}
<1> DEFINE display == DefaultDisplay(o.displayQty, o.quantity, One)
           whole == [o EXCEPT !.displayQty = display, !.hiddenQty = o.quantity]
<1>1. display \in Nat \ {0}
  BY DisplayIsPositive
<1> HIDE DEF display
<1>2. /\ whole \in Order /\ whole.displayQty > 0 /\ whole.hiddenQty > 0
      /\ whole.side = o.side /\ whole.price = o.price /\ whole.type = o.type
  BY <1>1, IcebergPrepared
<1> HIDE DEF whole
<1>3. /\ NextSlice(whole) \in Order /\ NextSlice(whole).side = o.side
      /\ NextSlice(whole).type = "ICEBERG"
  BY <1>2, SliceFields DEF AddIceberg
<1>4. /\ orders' = Append(orders, NextSlice(whole))
      /\ levels' = [levels EXCEPT ![o.side] = InsertOrder(@, NewId, NextSlice(whole))]
      /\ orderIndex' = orderIndex \union {NewId}
  BY DEF AddIceberg, display, whole
<1> QED
  BY <1>3, <1>4

LEMMA DepthStep ==
  ASSUME Inv, Inv', DepthSound, [Next]_vars
  PROVE  DepthSound'
<1>1. /\ orders \in Seq(Order) /\ Len(orders) \in Nat
      /\ orderIndex \subseteq 1..Len(orders)
  BY LenProperties DEF Inv, TypeOK
<1>2. CASE \E r \in Requests : AddOrder(CreateOrder(r))
  <2>1. PICK r \in Requests : AddOrder(CreateOrder(r))
    BY <1>2
  <2> DEFINE o == CreateOrder(r)
  <2>2. o \in Order
    BY BookAssumption, CreatedOrder
  <2> HIDE DEF o
  <2>3. CASE AddIceberg(o)
    <3>1. PICK slice \in Order :
            /\ slice.side = o.side /\ slice.type = "ICEBERG"
            /\ orders' = Append(orders, slice)
            /\ levels' = [levels EXCEPT ![o.side] = InsertOrder(@, NewId, slice)]
            /\ orderIndex' = orderIndex \union {NewId}
      BY <2>2, <2>3, IcebergAdded
    <3>3. slice \in Order /\ slice.side = o.side
      BY <3>1
    <3>4. /\ orders' = Append(orders, slice)
          /\ levels' = [levels EXCEPT ![o.side] = InsertOrder(@, NewId, slice)]
          /\ orderIndex' = orderIndex \union {NewId}
      BY <3>1
    <3>5. /\ NewId \in Nat \ {0} /\ NewId \notin orderIndex
          /\ \A x \in orderIndex : x < NewId
          /\ \A x \in orderIndex : orders'[x] = orders[x]
          /\ orders'[NewId] = slice
      BY <1>1, <3>3, <3>4, OrderAppended DEF NewId
    <3>6. JoinsBook(NewId, slice)
      BY <3>3, <3>4, <3>5 DEF JoinsBook, SameTerms
    <3> QED
      BY <3>6, DepthWithOneMore
  <2>4. CASE ~ AddIceberg(o)
    <3>1. /\ \E n \in Order : orders' = Append(orders, n)
          /\ levels' = levels /\ orderIndex' = orderIndex
      <4>1. CASE StartMatching(o)
        BY <2>2, <4>1 DEF StartMatching
      <4>2. CASE RejectFillOrKill(o)
        <5>1. [o EXCEPT !.status = "CANCELLED"] \in Order
          BY <2>2, StatusSet DEF WithStatus, OrderStatus
        <5> QED
          BY <4>2, <5>1 DEF RejectFillOrKill
      <4> QED
        BY <2>1, <2>4, <4>1, <4>2 DEF AddOrder, o
    <3>2. \A x \in orderIndex : orders'[x] = orders[x]
      BY <1>1, <3>1, OrderAppended
    <3> QED
      BY <3>1, <3>2, DepthUntouched
  <2> QED
    BY <2>3, <2>4
<1>3. CASE \E r \in Requests : HoldStop(CreateOrder(r))
  <2>1. PICK r \in Requests : HoldStop(CreateOrder(r))
    BY <1>3
  <2>2. CreateOrder(r) \in Order
    BY BookAssumption, CreatedOrder
  <2>3. /\ orders' = Append(orders, CreateOrder(r))
        /\ levels' = levels /\ orderIndex' = orderIndex
    BY <2>1 DEF HoldStop
  <2>4. \A x \in orderIndex : orders'[x] = orders[x]
    BY <1>1, <2>2, <2>3, OrderAppended
  <2> QED
    BY <2>3, <2>4, DepthUntouched
<1>4. CASE \E id \in 1..Len(orders) : TriggerStop(id)
  <2>1. PICK id \in 1..Len(orders) : TriggerStop(id)
    BY <1>4
  <2>2. /\ orders' = [orders EXCEPT ![id] = Promoted(@)]
        /\ levels' = levels /\ orderIndex' = orderIndex
        /\ orders[id].status = "PENDING"
    BY <2>1 DEF TriggerStop, MatchMarketOrder
  <2>3. id \notin orderIndex
    BY <2>2 DEF Inv, IndexedOpen
  <2>4. \A x \in orderIndex : orders'[x] = orders[x]
    BY <1>1, <2>2, <2>3
  <2> QED
    BY <2>2, <2>4, DepthUntouched
<1>5. CASE MatchStep
  BY <1>5, DepthAfterMatch
<1>6. CASE RestLimit
  <2>1. /\ ~ Idle /\ Remaining(In) > 0 /\ call = "addOrder"
        /\ levels' = [levels EXCEPT ![In.side] = InsertOrder(@, incoming, In)]
        /\ orderIndex' = orderIndex \union {incoming}
    BY <1>6 DEF RestLimit, Finished
  <2>2. /\ incoming \in 1..Len(orders) /\ In \in Order /\ incoming \in Nat \ {0}
        /\ incoming \notin orderIndex
        /\ \A x \in orderIndex : orders[x].side = In.side => x < incoming
    BY <2>1, IncomingFacts DEF Inv, IncomingApart
  <2>3. PICK status : orders' = [orders EXCEPT ![incoming].status = status]
    BY <1>6 DEF RestLimit
  <2>4. \A x \in orderIndex : orders'[x] = orders[x]
    BY <1>1, <2>2, <2>3
  <2>5. SameTerms(orders'[incoming], In) /\ Remaining(orders'[incoming]) = Remaining(In)
    <3>1. incoming \in DOMAIN orders
      BY <1>1, <2>2, LenProperties
    <3> QED
      BY <2>2, <2>3, <3>1 DEF SameTerms, In, Order, Remaining
  <2>6. JoinsBook(incoming, In)
    BY <2>1, <2>2, <2>4, <2>5 DEF JoinsBook
  <2> QED
    BY <2>6, DepthWithOneMore
<1>7. CASE FinishFilled \/ CancelRemainder
  <2>1. /\ ~ Idle /\ levels' = levels /\ orderIndex' = orderIndex
        /\ \E status : orders' = [orders EXCEPT ![incoming].status = status]
    BY <1>7 DEF FinishFilled, CancelRemainder, Finished
  <2>2. \A x \in orderIndex : orders'[x] = orders[x]
    BY <1>1, <2>1, IncomingFacts
  <2> QED
    BY <2>1, <2>2, DepthUntouched
<1>8. CASE ReturnUnfilled
  BY <1>8, DepthUntouched DEF ReturnUnfilled
<1>9. CASE Cancel
  BY <1>9, DepthAfterCancel DEF Cancel
<1>10. CASE UNCHANGED vars
  BY <1>10, DepthUntouched DEF vars
<1> QED
  BY <1>2, <1>3, <1>4, <1>5, <1>6, <1>7, <1>8, <1>9, <1>10
     DEF Next, Submit, Finish

\* The queue of a level, added up in its order, is the sum over the orders that
\* the index has at the level's price.
LEMMA QueueAddsUp ==
  ASSUME Inv, NEW side \in Side, NEW l \in 1..Len(levels[side])
  PROVE  QueueSum(orders, levels[side][l].orders)
           = Total(LeftOf(orders),
                   RestingAt(orders, orderIndex, side, levels[side][l].price))
<1> DEFINE queue == levels[side][l].orders
           n == Len(queue)
           price == levels[side][l].price
           f == LeftOf(orders)
           S == RestingAt(orders, orderIndex, side, price)
           g == [i \in 1..n |-> Remaining(orders[queue[i]])]
<1>1. /\ queue \in Seq(Nat \ {0}) /\ Ascending(queue) /\ n \in Nat
      /\ orders \in Seq(Order) /\ orderIndex \subseteq 1..Len(orders)
  <2>1. /\ GoodSide(side, levels[side]) /\ orders \in Seq(Order)
        /\ orderIndex \subseteq 1..Len(orders)
    BY DEF Inv, SidesGood, TypeOK
  <2>2. queue \in Seq(Nat \ {0}) /\ Ascending(queue)
    BY <2>1, LevelType DEF GoodSide
  <2> HIDE DEF queue
  <2> QED
    BY <2>1, <2>2, LenProperties
<1>2. S = {queue[i] : i \in 1..n}
  <2>1. \A x : x \in S <=> Holds(levels[side], price, x)
    BY DEF RestingAt, Inv, BookMatchesIndex
  <2>2. \A x : Holds(levels[side], price, x) <=> InQueue(queue, x)
    <3>1. levels[side] \in Seq(PriceLevel) /\ Sorted(side, levels[side])
      BY DEF Inv, SidesGood, GoodSide
    <3>2. \A m \in 1..Len(levels[side]) : levels[side][m].price = price => m = l
      BY <3>1, OneLevelPerPrice
    <3> QED
      BY <3>2 DEF Holds
  <2> HIDE DEF S, queue
  <2> QED
    BY <2>1, <2>2 DEF InQueue
<1>3. \A i \in 1..n : f[queue[i]] = Remaining(orders[queue[i]]) /\ f[queue[i]] \in Int
  <2>1. \A x \in S : f[x] = Remaining(orders[x]) /\ f[x] \in Int
    BY <1>1, RestingAtFacts
  <2> HIDE DEF S, f, queue
  <2> QED
    BY <1>2, <2>1
<1>4. \A i, j \in 1..n : i # j => queue[i] # queue[j]
  <2> SUFFICES ASSUME NEW i \in 1..n, NEW j \in 1..n, i < j
               PROVE  queue[i] # queue[j]
    BY <1>1
  <2>1. queue[i] < queue[j] /\ queue[i] \in Nat
    BY <1>1, ElementOfSeq DEF Ascending
  <2> QED
    BY <2>1
<1>5. QueueSum(orders, queue) = Total(g, 1..n)
  <2>1. \A i \in 1..Len(queue) : Remaining(orders[queue[i]]) \in Int
    BY <1>3
  <2> HIDE DEF queue
  <2> QED
    BY <1>1, <2>1, QueueSumIsTotal
<1>6. Total(g, 1..n) = Total(f, S)
  <2> DEFINE I == 1..n
             h == [i \in I |-> f[queue[i]]]
  <2>1. g = h
    BY <1>3
  <2>2. IsFiniteSet(I)
    <3>1. 1 \in Int /\ n \in Int
      BY <1>1
    <3> HIDE DEF queue, n
    <3> QED
      BY <3>1, FS_Interval
  <2>3. /\ \A i \in I : f[queue[i]] \in Int
        /\ \A i, j \in I : i # j => queue[i] # queue[j]
    BY <1>3, <1>4
  <2> HIDE DEF I, f, queue, g
  <2>4. Total(h, I) = Total(f, {queue[i] : i \in I})
    BY <2>2, <2>3, TotalRenamed
  <2> QED
    BY <1>2, <2>1, <2>4 DEF I
<1> QED
  BY <1>5, <1>6

\* The depth that snapshots and the FILL_OR_KILL walk read, kept by additions
\* and subtractions, is what the orders of the level have left.
THEOREM DepthAgreesAlways == Spec => []DepthAgrees
<1>1. Inv /\ DepthSound => DepthAgrees
  <2> SUFFICES ASSUME Inv, DepthSound, NEW side \in Side,
                      NEW l \in 1..Len(levels[side])
               PROVE  levels[side][l].totalQuantity =
                        QueueSum(orders, levels[side][l].orders)
    BY DEF DepthAgrees, QueueSum, FoldLeft, MapThenFoldSet
  <2>1. Shows(levels[side], levels[side][l].price, levels[side][l].totalQuantity)
    BY DEF Shows
  <2>2. levels[side][l].totalQuantity =
          Total(LeftOf(orders),
                RestingAt(orders, orderIndex, side, levels[side][l].price))
    BY <2>1 DEF DepthSound
  <2> QED
    BY <2>2, QueueAddsUp, SMTT(30)
<1>2. Inv /\ Inv' /\ DepthSound /\ [Next]_vars => DepthSound'
  BY DepthStep
<1> QED
  BY <1>1, <1>2, DepthInit, Invariance, PTL DEF Spec

-----------------------------------------------------------------------------
(***************************************************************************)
(* FILL_OR_KILL.                                                           *)
(***************************************************************************)

\* The indexed orders of one side, and those at other prices than p.
OnSide(s, index, side) == {x \in index : s[x].side = side}
Elsewhere(s, index, side, p) == {x \in index : s[x].side = side /\ s[x].price # p}

\* What one side has left in all.
SideTotal(s, index, side) == Total(LeftOf(s), OnSide(s, index, side))

\* A side is the orders at one price and the others.
LEMMA SideAtOnePrice ==
  ASSUME NEW s \in Seq(Order), NEW index \in SUBSET (1..Len(s)), NEW side, NEW p
  PROVE  /\ SideTotal(s, index, side) \in Int
         /\ Total(LeftOf(s), RestingAt(s, index, side, p)) \in Int
         /\ Total(LeftOf(s), Elsewhere(s, index, side, p)) \in Int
         /\ SideTotal(s, index, side) =
              Total(LeftOf(s), RestingAt(s, index, side, p))
                + Total(LeftOf(s), Elsewhere(s, index, side, p))
<1> DEFINE A == RestingAt(s, index, side, p)
           B == Elsewhere(s, index, side, p)
           C == OnSide(s, index, side)
           f == LeftOf(s)
<1>1. /\ A \in SUBSET index /\ B \in SUBSET index /\ C \in SUBSET index
      /\ C = A \union B /\ A \cap B = {}
  BY DEF RestingAt, Elsewhere, OnSide
<1> HIDE DEF A, B, C
<1>2. /\ IsFiniteSet(A) /\ IsFiniteSet(B)
      /\ \A x \in C : f[x] \in Int
      /\ Total(f, A) \in Int /\ Total(f, B) \in Int /\ Total(f, C) \in Int
  BY <1>1, LeftOfFacts
<1> HIDE DEF f
<1>3. Total(f, C) = Total(f, A) + Total(f, B)
  BY <1>1, <1>2, TotalUnion
<1> QED
  BY <1>2, <1>3 DEF f, A, B, C, SideTotal

\* A fill takes what it fills out of the side, and a slice adds to it.
LEMMA SideAfterFill ==
  ASSUME Inv, Inv', MoreToMatch, NEW new, NEW more \in Int, FillMoves(new, more)
  PROVE  SideTotal(orders', orderIndex', Opp) =
           SideTotal(orders, orderIndex, Opp) - FillQty + more
<1> DEFINE p == Best.price
           A == Total(LeftOf(orders), RestingAt(orders, orderIndex, Opp, p))
           A2 == Total(LeftOf(orders'), RestingAt(orders', orderIndex', Opp, p))
           B == Total(LeftOf(orders), Elsewhere(orders, orderIndex, Opp, p))
           B2 == Total(LeftOf(orders'), Elsewhere(orders', orderIndex', Opp, p))
           rest == Total(LeftOf(orders), RestingAt(orders, orderIndex \ {RestingId}, Opp, p))
<1>1. /\ orders \in Seq(Order) /\ orderIndex \in SUBSET (1..Len(orders))
      /\ orders' \in Seq(Order) /\ orderIndex' \in SUBSET (1..Len(orders'))
      /\ RestingId \in orderIndex /\ RestingId \in 1..Len(orders)
      /\ Resting.side = Opp /\ Resting.price = p
      /\ Resting \in Order /\ FillQty \in Nat
  BY MatchFacts DEF Inv, TypeOK
<1>2. /\ A \in Int /\ B \in Int /\ SideTotal(orders, orderIndex, Opp) = A + B
  BY <1>1, SideAtOnePrice
<1>3. /\ A2 \in Int /\ B2 \in Int /\ SideTotal(orders', orderIndex', Opp) = A2 + B2
  BY <1>1, SideAtOnePrice
<1>4. A = Remaining(Resting) + rest /\ rest \in Int /\ Remaining(Resting) \in Int
  <2>1. OneMore(orders, orderIndex \ {RestingId}, orders, orderIndex, RestingId, Opp, p)
    BY <1>1 DEF OneMore, Resting
  <2>2. rest \in Int
    BY <1>1, RestingAtFacts
  <2>3. Remaining(Resting) \in Int
    BY <1>1, OrderFields
  <2> HIDE DEF p
  <2> QED
    BY <2>1, <2>2, <2>3, SumWithOneMore DEF Resting
<1>5. A2 = rest + Remaining(Resting) - FillQty + more
  BY DEF FillMoves
<1>6. B2 = B
  <2> DEFINE S == Elsewhere(orders, orderIndex, Opp, p)
             f == LeftOf(orders)
             g == LeftOf(orders')
  <2>1. /\ \A x \in orderIndex \ {RestingId} : x \in orderIndex' /\ orders'[x] = orders[x]
        /\ \A x \in orderIndex' :
             \/ x \in orderIndex \ {RestingId}
             \/ orders'[x].side = Opp /\ orders'[x].price = p
    BY DEF FillMoves
  <2> HIDE DEF p
  <2>2. \A x \in S : x \in orderIndex \ {RestingId}
    BY <1>1 DEF Elsewhere, Resting
  <2>3. Elsewhere(orders', orderIndex', Opp, p) = S
    BY <2>1, <2>2 DEF Elsewhere
  <2>4. S \in SUBSET orderIndex /\ S \in SUBSET orderIndex'
    BY <2>1, <2>2
  <2>5. IsFiniteSet(S) /\ \A x \in S : f[x] = Remaining(orders[x]) /\ f[x] \in Int
    <3> HIDE DEF S
    <3> QED
      BY <1>1, <2>4, LeftOfFacts
  <2>6. \A x \in S : g[x] = Remaining(orders'[x])
    <3> HIDE DEF S
    <3> QED
      BY <1>1, <2>4, LeftOfFacts
  <2>7. \A x \in S : orders'[x] = orders[x]
    BY <2>1, <2>2
  <2> HIDE DEF S, f, g
  <2>8. Total(f, S) = Total(g, S)
    BY <2>5, <2>6, <2>7, TotalSame
  <2> QED
    BY <2>3, <2>8 DEF S, f, g
<1> DEFINE r == Remaining(Resting)
           q == FillQty
<1>7. /\ q \in Int /\ r \in Int /\ rest \in Int /\ B \in Int
      /\ A = r + rest /\ A2 = rest + r - q + more
  BY <1>1, <1>2, <1>4, <1>5
<1> HIDE DEF A, A2, B, B2, rest, r, q
<1>8. A2 + B = A + B - q + more
  BY <1>7
<1>9. SideTotal(orders', orderIndex', Opp) = SideTotal(orders, orderIndex, Opp) - q + more
  BY <1>2, <1>3, <1>6, <1>7, <1>8
<1> QED
  BY <1>9 DEF q

\* The indexed orders at the prices of the first k levels.
UpTo(s, index, list, side, k) ==
  {x \in index : s[x].side = side /\ \E l \in 1..k : s[x].price = list[l].price}

\* What the first levels show is there to be taken.
LEMMA LevelsShowOrders ==
  ASSUME Inv, DepthSound, NEW side \in Side, NEW k \in 0..Len(levels[side])
  PROVE  LET list == levels[side]
         IN  Total([i \in 1..Len(list) |-> list[i].totalQuantity], 1..k)
               = Total(LeftOf(orders), UpTo(orders, orderIndex, list, side, k))
<1> DEFINE list == levels[side]
           shown == [i \in 1..Len(list) |-> list[i].totalQuantity]
           f == LeftOf(orders)
           upTo(n) == UpTo(orders, orderIndex, list, side, n)
           N == {n \in Nat : n <= Len(list) => Total(shown, 1..n) = Total(f, upTo(n))}
<1>1. /\ list \in Seq(PriceLevel) /\ Sorted(side, list) /\ Len(list) \in Nat
      /\ orders \in Seq(Order) /\ orderIndex \in SUBSET (1..Len(orders))
  BY LenProperties DEF Inv, SidesGood, GoodSide, TypeOK
<1>2. 0 \in N
  <2>1. 1..0 = {} /\ upTo(0) = {}
    BY DEF UpTo
  <2> QED
    BY <2>1, TotalEmpty
<1>3. \A n \in Nat : n \in N => n + 1 \in N
  <2> SUFFICES ASSUME NEW n \in Nat, n + 1 <= Len(list),
                      Total(shown, 1..n) = Total(f, upTo(n))
               PROVE  Total(shown, 1..(n + 1)) = Total(f, upTo(n + 1))
    BY <1>1
  <2> DEFINE m == n + 1
             price == list[m].price
             R == RestingAt(orders, orderIndex, side, price)
             I == 1..n
             U == upTo(n)
  <2>1. m \in 1..Len(list) /\ m \notin I /\ 1..m = I \union {m} /\ IsFiniteSet(I)
    <3>1. 1 \in Int /\ n \in Int
      OBVIOUS
    <3>2. IsFiniteSet(1..n)
      BY <3>1, FS_Interval
    <3> HIDE DEF list
    <3> QED
      BY <1>1, <3>2
  <2>2. \A i \in I \union {m} : shown[i] \in Int
    BY <1>1, <2>1, LevelType
  <2>3. shown[m] = Total(f, R)
    <3>1. Shows(list, price, list[m].totalQuantity)
      BY <2>1 DEF Shows
    <3> HIDE DEF price, m
    <3>2. list[m].totalQuantity = Total(f, R)
      BY <3>1 DEF DepthSound
    <3> QED
      BY <2>1, <3>2
  <2>4. upTo(m) = U \union R /\ U \cap R = {}
    <3>1. \A l \in 1..n : list[l].price # price
      <4> SUFFICES ASSUME NEW l \in 1..n, list[l].price = price
                   PROVE  FALSE
        OBVIOUS
      <4>1. l \in 1..Len(list) /\ l # m
        BY <1>1
      <4> HIDE DEF m
      <4> QED
        BY <1>1, <2>1, <4>1, OneLevelPerPrice
    <3>2. \A l : l \in 1..m <=> l \in 1..n \/ l = m
      OBVIOUS
    <3> HIDE DEF m
    <3> QED
      BY <3>1, <3>2 DEF UpTo, RestingAt
  <2>5. U \in SUBSET orderIndex /\ R \in SUBSET orderIndex
    BY DEF UpTo, RestingAt
  <2> HIDE DEF U, R, I, m, shown
  <2>6. /\ IsFiniteSet(U) /\ IsFiniteSet(R)
        /\ \A x \in U \union R : f[x] \in Int
        /\ Total(f, U) \in Int /\ Total(f, R) \in Int
    BY <1>1, <2>5, LeftOfFacts
  <2>7. Total(shown, I \union {m}) = shown[m] + Total(shown, I)
    BY <2>1, <2>2, TotalAdd
  <2> HIDE DEF f
  <2>8. Total(f, U \union R) = Total(f, U) + Total(f, R)
    BY <2>4, <2>6, TotalUnion
  <2>9. Total(shown, I) = Total(f, U)
    BY DEF I, U
  <2>10. Total(shown, 1..m) = Total(f, upTo(m))
    <3>1. Total(shown, 1..m) = Total(f, R) + Total(f, U)
      BY <2>1, <2>3, <2>7, <2>9
    <3>2. Total(f, upTo(m)) = Total(f, U) + Total(f, R)
      BY <2>4, <2>8
    <3> HIDE DEF upTo
    <3> QED
      BY <2>6, <3>1, <3>2
  <2> QED
    BY <2>10 DEF m
<1>4. k \in Nat /\ k <= Len(list)
  BY <1>1
<1> HIDE DEF N
<1>5. k \in N
  BY <1>2, <1>3, <1>4, NumberInduction
<1> QED
  BY <1>4, <1>5 DEF N

\* What canFillEntirely finds on the opposite side, the side has.
LEMMA WalkIsCovered ==
  ASSUME Inv, DepthSound, NEW side \in Side, NEW quantity \in Nat,
         CanFillEntirely(levels[side], quantity)
  PROVE  quantity <= SideTotal(orders, orderIndex, side)
<1> DEFINE list == levels[side]
           f == LeftOf(orders)
           shown == [i \in 1..Len(list) |-> list[i].totalQuantity]
<1>1. /\ list \in Seq(PriceLevel) /\ Len(list) \in Nat
      /\ orders \in Seq(Order) /\ orderIndex \in SUBSET (1..Len(orders))
      /\ DOMAIN list = 1..Len(list)
  BY LenProperties DEF Inv, SidesGood, GoodSide, TypeOK
<1>2. PICK k \in 1..Len(list) : LevelsSum(SubSeq(list, 1, k)) >= quantity
  BY <1>1 DEF CanFillEntirely, LevelsSum, FoldLeft, MapThenFoldSet
<1> DEFINE U == UpTo(orders, orderIndex, list, side, k)
           C == OnSide(orders, orderIndex, side)
           D == C \ U
<1>3. LevelsSum(SubSeq(list, 1, k)) = Total(f, U)
  <2>1. k \in 0..Len(list)
    BY <1>1
  <2>2. Total(shown, 1..k) = Total(f, U)
    BY <2>1, LevelsShowOrders
  <2>3. LevelsSum(SubSeq(list, 1, k)) = Total(shown, 1..k)
    <3> HIDE DEF list
    <3> QED
      BY <1>1, LevelsSumOfFirst DEF list
  <2> QED
    BY <2>2, <2>3
<1>4. /\ U \in SUBSET orderIndex /\ D \in SUBSET orderIndex /\ C \in SUBSET orderIndex
      /\ C = U \union D /\ U \cap D = {}
  BY DEF UpTo, OnSide
<1> HIDE DEF U, C, D
<1>5. /\ IsFiniteSet(U) /\ IsFiniteSet(D)
      /\ (\A x \in U \union D : f[x] \in Int)
      /\ Total(f, U) \in Int /\ Total(f, D) \in Int /\ Total(f, C) \in Int
  BY <1>1, <1>4, LeftOfFacts
<1>6. Total(f, D) \in Nat
  <2>1. \A x \in D : f[x] = Remaining(orders[x]) /\ f[x] \in Int
    BY <1>1, <1>4, LeftOfFacts
  <2>2. \A x \in D : Remaining(orders[x]) > 0
    BY <1>4 DEF Inv, IndexedOpen
  <2>3. \A x \in D : f[x] \in Nat
    BY <2>1, <2>2
  <2> HIDE DEF f
  <2> QED
    BY <1>5, <2>3, TotalNonNegative
<1> HIDE DEF f
<1>7. Total(f, C) = Total(f, U) + Total(f, D)
  BY <1>4, <1>5, TotalUnion
<1>8. quantity <= Total(f, C)
  BY <1>2, <1>3, <1>5, <1>6, <1>7
<1> QED
  BY <1>8 DEF f, C, SideTotal

\* Only promoted stop orders, which are MARKET orders, are handed to
\* matchMarketOrder without addOrder.
MarketCall == call = "matchMarketOrder" => In.type = "MARKET"

AllOrNothing(o) ==
  o.type = "FILL_OR_KILL" =>
    \/ o.status = "FILLED" /\ Remaining(o) = 0
    \/ o.status = "CANCELLED" /\ o.filledQuantity = 0

\* FillOrKillIsAllOrNothing with what it needs in the middle of a call: what
\* the opposite side has left covers what the order still wants, as the walk of
\* canFillEntirely found it.
WalkHolds ==
  /\ MarketCall
  /\ \A x \in orderIndex : orders[x].type # "FILL_OR_KILL"
  /\ \A x \in 1..Len(orders) : x # incoming => AllOrNothing(orders[x])
  /\ call = "addOrder" /\ In.type = "FILL_OR_KILL" =>
       Remaining(In) <= SideTotal(orders, orderIndex, Opp)

\* A step between two calls, or out of one: the order it adds or changes is
\* all or nothing, and no FILL_OR_KILL comes to rest.
LEMMA WalkOver ==
  ASSUME WalkHolds, call' # "addOrder", call' = "matchMarketOrder" => In'.type = "MARKET",
         \A x \in 1..Len(orders') : x # incoming' =>
           \/ AllOrNothing(orders'[x])
           \/ x \in 1..Len(orders) /\ x # incoming /\ orders'[x] = orders[x],
         \A x \in orderIndex' :
           \/ orders'[x].type # "FILL_OR_KILL"
           \/ x \in orderIndex /\ orders'[x] = orders[x]
  PROVE  WalkHolds'
  BY DEF WalkHolds, MarketCall

\* A new object, outside a call.
LEMMA WalkWithNewOrder ==
  ASSUME Inv, WalkHolds, Idle, NEW o \in Order, orders' = Append(orders, o),
         incoming' = incoming, call' = call, AllOrNothing(o),
         orderIndex' \subseteq orderIndex \union {NewId},
         NewId \in orderIndex' => o.type # "FILL_OR_KILL"
  PROVE  WalkHolds'
<1>1. /\ orders \in Seq(Order) /\ Len(orders) \in Nat
      /\ orderIndex \subseteq 1..Len(orders) /\ call = "none"
  BY LenProperties DEF Inv, TypeOK, Idle
<1>2. /\ Len(orders') = Len(orders) + 1 /\ orders'[NewId] = o
      /\ \A x \in 1..Len(orders) : orders'[x] = orders[x]
  BY <1>1, OrderAppended DEF NewId
<1>3. \A x \in 1..Len(orders') : x \in 1..Len(orders) \/ x = NewId
  BY <1>1, <1>2 DEF NewId
<1>4. NewId \notin 1..Len(orders) /\ incoming \notin 1..Len(orders)
  BY <1>1 DEF NewId, Idle, NoOrder
<1> QED
  BY <1>1, <1>2, <1>3, <1>4, WalkOver

\* One object changes outside the loop, and nothing joins the book but perhaps it.
LEMMA WalkWithChange ==
  ASSUME Inv, WalkHolds, NEW id \in 1..Len(orders),
         orders' \in Seq(Order), Len(orders') = Len(orders),
         \A x \in 1..Len(orders) : x # id => orders'[x] = orders[x],
         AllOrNothing(orders'[id]), incoming \in {NoOrder, id}, call' # "addOrder",
         call' = "matchMarketOrder" => In'.type = "MARKET",
         orderIndex' \subseteq orderIndex \union {id},
         id \in orderIndex' => orders'[id].type # "FILL_OR_KILL"
  PROVE  WalkHolds'
<1>1. Len(orders) \in Nat /\ orderIndex \subseteq 1..Len(orders)
  BY LenProperties DEF Inv, TypeOK
<1>2. \A x \in 1..Len(orders) : x # id => x # incoming
  BY <1>1 DEF NoOrder
<1> QED
  BY <1>1, <1>2, WalkOver

LEMMA WalkInit == Init => WalkHolds
<1> SUFFICES ASSUME Init PROVE WalkHolds
  OBVIOUS
<1>1. orders = << >> /\ orderIndex = {} /\ call = "none" /\ Len(orders) = 0
  BY DEF Init
<1> QED
  BY <1>1 DEF WalkHolds, MarketCall

\* The loop takes from both what the order wants and what the side has, and a
\* slice only adds to the side.
LEMMA WalkAfterMatch ==
  ASSUME Inv, Inv', WalkHolds, MatchStep
  PROVE  WalkHolds'
<1>1. MoreToMatch /\ call' = call /\ incoming' = incoming
  BY DEF MatchStep, FillResting, CompleteResting, ReplenishResting
<1>2. /\ orders \in Seq(Order) /\ Len(orders) \in Nat /\ incoming \in 1..Len(orders)
      /\ In \in Order /\ RestingId \in 1..Len(orders) /\ RestingId \in orderIndex
      /\ RestingId # incoming /\ incoming \notin orderIndex /\ FillQty \in Nat
      /\ Resting \in Order /\ OrderSound(Resting)
      /\ orderIndex \subseteq 1..Len(orders)
  BY <1>1, MatchFacts DEF Inv, TypeOK
<1>3. PICK status \in OrderStatus :
        \/ orders' = OrdersAfterFill(status) /\ orderIndex' \subseteq orderIndex
        \/ /\ orders' = Append(OrdersAfterFill(status), NextSlice(Resting))
           /\ orderIndex' \subseteq orderIndex \union {NewId}
           /\ NextSlice(Resting) \in Order /\ NextSlice(Resting).type = "ICEBERG"
  <2>1. "FILLED" \in OrderStatus /\ "PARTIALLY_FILLED" \in OrderStatus
    BY DEF OrderStatus
  <2>2. CASE FillResting
    BY <2>1, <2>2 DEF FillResting
  <2>3. CASE CompleteResting
    BY <2>1, <2>3 DEF CompleteResting
  <2>4. CASE ReplenishResting
    <3>1. NextSlice(Resting) \in Order /\ NextSlice(Resting).type = "ICEBERG"
      BY <1>2, <2>4, SliceFields DEF ReplenishResting, HasHidden, OrderSound
    <3> QED
      BY <2>1, <2>4, <3>1 DEF ReplenishResting
  <2> QED
    BY <2>2, <2>3, <2>4 DEF MatchStep
<1> DEFINE filled == OrdersAfterFill(status)
<1>4. /\ filled \in Seq(Order) /\ Len(filled) = Len(orders)
      /\ \A x \in 1..Len(orders) :
           /\ SameTerms(filled[x], orders[x])
           /\ x \notin {incoming, RestingId} => filled[x] = orders[x]
      /\ filled[incoming].filledQuantity = In.filledQuantity + FillQty
  <2> HIDE DEF filled
  <2> QED
    BY <1>1, OrdersFilled DEF filled
<1> HIDE DEF filled
<1>5. /\ \A x \in 1..Len(orders) : orders'[x] = filled[x]
      /\ \A x \in 1..Len(orders') : x \in 1..Len(orders) \/ orders'[x].type = "ICEBERG"
      /\ \A x \in orderIndex' : x \in orderIndex \/ orders'[x].type = "ICEBERG"
  <2>1. CASE orders' = filled /\ orderIndex' \subseteq orderIndex
    BY <1>4, <2>1
  <2>2. CASE /\ orders' = Append(filled, NextSlice(Resting))
             /\ orderIndex' \subseteq orderIndex \union {NewId}
             /\ NextSlice(Resting) \in Order /\ NextSlice(Resting).type = "ICEBERG"
    <3> DEFINE slice == NextSlice(Resting)
    <3>1. slice \in Order /\ orders' = Append(filled, slice) /\ slice.type = "ICEBERG"
      BY <2>2
    <3> HIDE DEF slice
    <3>2. /\ Len(orders') = Len(orders) + 1 /\ orders'[NewId] = slice
          /\ \A x \in 1..Len(orders) : orders'[x] = filled[x]
      BY <1>4, <3>1, OrderAppended DEF NewId
    <3>3. \A x \in 1..Len(orders') : x \in 1..Len(orders) \/ x = NewId
      BY <1>2, <3>2 DEF NewId
    <3> QED
      BY <2>2, <3>1, <3>2, <3>3
  <2> QED
    BY <1>3, <2>1, <2>2 DEF filled
<1>6. In'.type = In.type /\ In'.side = In.side /\ In'.quantity = In.quantity
      /\ In'.filledQuantity = In.filledQuantity + FillQty
  BY <1>1, <1>2, <1>4, <1>5 DEF In, SameTerms
<1>7. \A x \in orderIndex' : orders'[x].type # "FILL_OR_KILL"
  <2> SUFFICES ASSUME NEW x \in orderIndex', x \in orderIndex
               PROVE  orders'[x].type # "FILL_OR_KILL"
    BY <1>5
  <2>1. x \in 1..Len(orders) /\ orders'[x].type = orders[x].type
    BY <1>2, <1>4, <1>5 DEF SameTerms
  <2> QED
    BY <2>1 DEF WalkHolds
<1>8. \A x \in 1..Len(orders') : x # incoming' => AllOrNothing(orders'[x])
  <2> SUFFICES ASSUME NEW x \in 1..Len(orders'), x # incoming,
                      orders'[x].type = "FILL_OR_KILL"
               PROVE  AllOrNothing(orders'[x])
    BY <1>1 DEF AllOrNothing
  <2>1. x \in 1..Len(orders) /\ orders'[x] = filled[x]
    BY <1>5
  <2>2. x # RestingId
    BY <1>2, <1>4, <2>1 DEF WalkHolds, SameTerms
  <2> QED
    BY <1>4, <2>1, <2>2 DEF WalkHolds
<1>9. MarketCall'
  BY <1>1, <1>6 DEF WalkHolds, MarketCall
<1>10. ASSUME call = "addOrder", In.type = "FILL_OR_KILL"
       PROVE  Remaining(In') <= SideTotal(orders', orderIndex', Opp')
  <2>1. PICK new, more : more \in Nat /\ FillMoves(new, more)
    BY MatchMoves
  <2>2. SideTotal(orders', orderIndex', Opp) =
          SideTotal(orders, orderIndex, Opp) - FillQty + more
    BY <1>1, <2>1, SideAfterFill
  <2>3. Opp' = Opp
    BY <1>6 DEF Opp
  <2>4. Remaining(In) <= SideTotal(orders, orderIndex, Opp)
    BY <1>10 DEF WalkHolds
  <2>5. Remaining(In') = Remaining(In) - FillQty /\ Remaining(In) \in Int
    BY <1>2, <1>6, OrderFields, SMTT(30) DEF Remaining
  <2>6. SideTotal(orders, orderIndex, Opp) \in Int
    BY <1>2, SideAtOnePrice
  <2> DEFINE a == Remaining(In)
             b == SideTotal(orders, orderIndex, Opp)
             q == FillQty
  <2>7. a \in Int /\ b \in Int /\ q \in Int /\ more \in Nat /\ a <= b
    BY <1>2, <2>1, <2>4, <2>5, <2>6
  <2>8. Remaining(In') = a - q /\ SideTotal(orders', orderIndex', Opp) = b - q + more
    BY <2>2, <2>5
  <2> HIDE DEF a, b, q
  <2>9. a - q <= b - q + more
    BY <2>7
  <2> QED
    BY <2>3, <2>8, <2>9
<1> QED
  BY <1>1, <1>6, <1>7, <1>8, <1>9, <1>10 DEF WalkHolds

\* The loop is over and the order wants more: nothing is left on the other
\* side, so it was not a FILL_OR_KILL that the walk let through.
LEMMA WalkLeavesNothing ==
  ASSUME Inv, WalkHolds, Finished, call = "addOrder", Remaining(In) > 0
  PROVE  In.type # "FILL_OR_KILL"
<1> SUFFICES ASSUME In.type = "FILL_OR_KILL" PROVE FALSE
  OBVIOUS
<1>1. ~ Idle /\ levels[Opp] = << >>
  BY DEF Finished, MoreToMatch, Crosses
<1>2. In \in Order /\ Opp \in Side /\ Remaining(In) \in Int
  BY <1>1, IncomingFacts, OrderFields DEF Opp
<1>3. \A p, x : ~ Holds(levels[Opp], p, x)
  BY <1>1 DEF Holds
<1>4. OnSide(orders, orderIndex, Opp) = {}
  BY <1>2, <1>3 DEF OnSide, Inv, BookMatchesIndex
<1>5. SideTotal(orders, orderIndex, Opp) = 0
  BY <1>4, TotalEmpty DEF SideTotal
<1>6. Remaining(In) <= SideTotal(orders, orderIndex, Opp)
  BY DEF WalkHolds
<1> QED
  BY <1>2, <1>5, <1>6

LEMMA WalkStep ==
  ASSUME Inv, Inv', DepthSound, WalkHolds, [Next]_vars
  PROVE  WalkHolds'
<1>1. /\ orders \in Seq(Order) /\ Len(orders) \in Nat
      /\ orderIndex \subseteq 1..Len(orders)
      /\ Idle <=> call = "none"
  BY LenProperties DEF Inv, TypeOK, Idle
<1>2. ASSUME NEW r \in Requests, AddOrder(CreateOrder(r))
      PROVE  WalkHolds'
  <2> DEFINE o == CreateOrder(r)
  <2>1. o \in Order /\ o.filledQuantity = 0 /\ Idle
    BY <1>2, BookAssumption, CreatedOrder DEF AddOrder
  <2>2. AddOrder(o)
    BY <1>2
  <2> HIDE DEF o
  <2>3. CASE StartMatching(o)
    <3>1. /\ orders' = Append(orders, o) /\ incoming' = NewId /\ call' = "addOrder"
          /\ orderIndex' = orderIndex /\ levels' = levels
      BY <2>3 DEF StartMatching
    <3>2. /\ Len(orders') = Len(orders) + 1 /\ orders'[NewId] = o
          /\ \A x \in 1..Len(orders) : orders'[x] = orders[x]
      BY <1>1, <2>1, <3>1, OrderAppended DEF NewId
    <3>3. /\ In' = o
          /\ \A x \in 1..Len(orders') : x # incoming' => x \in 1..Len(orders)
      BY <1>1, <3>1, <3>2 DEF In, NewId
    <3>4. \A x \in 1..Len(orders) : x # incoming
      BY <2>1 DEF Idle, NoOrder
    <3>5. ASSUME o.type = "FILL_OR_KILL"
          PROVE  Remaining(o) <= SideTotal(orders', orderIndex', Opposite(o.side))
      <4>1. Opposite(o.side) \in Side /\ o.quantity \in Nat /\ Remaining(o) = o.quantity
        BY <2>1, OrderFields DEF Remaining, Opposite, Side
      <4>2. o.quantity <= SideTotal(orders, orderIndex, Opposite(o.side))
        BY <2>3, <3>5, <4>1, WalkIsCovered DEF StartMatching
      <4> DEFINE side == Opposite(o.side)
                 S == OnSide(orders, orderIndex, side)
      <4>3. SideTotal(orders', orderIndex', side) = SideTotal(orders, orderIndex, side)
        <5>1. OnSide(orders', orderIndex', side) = S
          BY <1>1, <3>1, <3>2 DEF OnSide
        <5>2. S \in SUBSET orderIndex /\ orderIndex \in SUBSET (1..Len(orders))
              /\ orders' \in Seq(Order) /\ orderIndex \in SUBSET (1..Len(orders'))
          BY <1>1, <3>1 DEF OnSide, Inv, TypeOK
        <5> HIDE DEF S, side
        <5>3. /\ IsFiniteSet(S)
              /\ \A x \in S : LeftOf(orders)[x] = Remaining(orders[x])
                              /\ LeftOf(orders)[x] \in Int
          BY <1>1, <5>2, LeftOfFacts
        <5>4. \A x \in S : LeftOf(orders')[x] = Remaining(orders'[x])
          BY <5>2, LeftOfFacts
        <5>5. \A x \in S : LeftOf(orders')[x] = LeftOf(orders)[x]
          BY <3>2, <5>2, <5>3, <5>4
        <5>6. Total(LeftOf(orders), S) = Total(LeftOf(orders'), S)
          BY <5>3, <5>5, TotalSame
        <5> QED
          BY <5>1, <5>6 DEF SideTotal, S
      <4> QED
        BY <4>1, <4>2, <4>3
    <3>6. Opp' = Opposite(o.side)
      BY <3>3 DEF Opp
    <3>7. \A x \in orderIndex' : orders'[x].type # "FILL_OR_KILL"
      BY <1>1, <3>1, <3>2 DEF WalkHolds
    <3>8. \A x \in 1..Len(orders') : x # incoming' => AllOrNothing(orders'[x])
      BY <3>2, <3>3, <3>4 DEF WalkHolds
    <3> QED
      BY <3>1, <3>3, <3>5, <3>6, <3>7, <3>8 DEF WalkHolds, MarketCall
  <2>4. CASE RejectFillOrKill(o)
    <3> DEFINE n == WithStatus(o, "CANCELLED")
    <3>1. n \in Order /\ n.status = "CANCELLED" /\ n.filledQuantity = 0
      BY <2>1, StatusSet DEF OrderStatus
    <3>2. /\ orders' = Append(orders, n) /\ orderIndex' = orderIndex
          /\ incoming' = incoming /\ call' = call
      BY <2>4 DEF RejectFillOrKill, WithStatus
    <3> HIDE DEF n
    <3>3. AllOrNothing(n)
      BY <3>1 DEF AllOrNothing
    <3>4. NewId \notin orderIndex
      BY <1>1 DEF NewId
    <3> QED
      BY <2>1, <3>1, <3>2, <3>3, <3>4, WalkWithNewOrder
  <2>5. CASE AddIceberg(o)
    <3>1. PICK slice \in Order :
            /\ slice.side = o.side /\ slice.type = "ICEBERG"
            /\ orders' = Append(orders, slice)
            /\ levels' = [levels EXCEPT ![o.side] = InsertOrder(@, NewId, slice)]
            /\ orderIndex' = orderIndex \union {NewId}
      BY <2>1, <2>5, IcebergAdded
    <3>2. incoming' = incoming /\ call' = call
      BY <2>5 DEF AddIceberg
    <3>3. AllOrNothing(slice) /\ slice \in Order /\ slice.type = "ICEBERG"
          /\ orders' = Append(orders, slice) /\ orderIndex' = orderIndex \union {NewId}
      BY <3>1 DEF AllOrNothing
    <3> QED
      BY <2>1, <3>2, <3>3, WalkWithNewOrder
  <2> QED
    BY <2>2, <2>3, <2>4, <2>5 DEF AddOrder
<1>3. ASSUME NEW r \in Requests, HoldStop(CreateOrder(r))
      PROVE  WalkHolds'
  <2> DEFINE o == CreateOrder(r)
  <2>1. o \in Order
    BY BookAssumption, CreatedOrder
  <2>2. /\ Idle /\ IsStop(o) /\ orders' = Append(orders, o)
        /\ orderIndex' = orderIndex /\ incoming' = incoming /\ call' = call
    BY <1>3 DEF HoldStop
  <2> HIDE DEF o
  <2>3. AllOrNothing(o)
    BY <2>2 DEF AllOrNothing, IsStop
  <2>4. NewId \notin orderIndex
    BY <1>1 DEF NewId
  <2> QED
    BY <2>1, <2>2, <2>3, <2>4, WalkWithNewOrder
<1>4. ASSUME NEW id \in 1..Len(orders), TriggerStop(id)
      PROVE  WalkHolds'
  <2> DEFINE n == Promoted(orders[id])
  <2>1. n \in Order /\ n.type = "MARKET"
    BY <1>1, OrderAt, PromotedFields
  <2>2. /\ orders' = [orders EXCEPT ![id] = n] /\ incoming' = id
        /\ call' = "matchMarketOrder" /\ orderIndex' = orderIndex /\ incoming = NoOrder
    BY <1>4 DEF TriggerStop, MatchMarketOrder, Idle
  <2> HIDE DEF n
  <2>3. /\ orders' \in Seq(Order) /\ Len(orders') = Len(orders) /\ orders'[id] = n
        /\ \A x \in 1..Len(orders) : x # id => orders'[x] = orders[x]
    BY <1>1, <2>1, <2>2, OrderReplaced
  <2>4. AllOrNothing(orders'[id]) /\ In'.type = "MARKET"
    BY <2>1, <2>2, <2>3 DEF AllOrNothing, In
  <2> QED
    BY <2>1, <2>2, <2>3, <2>4, WalkWithChange
<1>5. CASE MatchStep
  BY <1>5, WalkAfterMatch
<1>6. CASE Finish
  <2>1. /\ ~ Idle /\ Finished /\ incoming' = NoOrder /\ call' = "none"
    BY <1>6 DEF Finish, FinishFilled, RestLimit, CancelRemainder, ReturnUnfilled,
                Finished, Return
  <2>2. incoming \in 1..Len(orders) /\ In \in Order /\ incoming \notin orderIndex
        /\ OrderSound(In)
    BY <2>1, IncomingFacts
  <2>3. ASSUME NEW status \in OrderStatus, orders' = [orders EXCEPT ![incoming].status = status],
               AllOrNothing(WithStatus(In, status)),
               orderIndex' \subseteq orderIndex \union {incoming},
               incoming \in orderIndex' => In.type # "FILL_OR_KILL"
        PROVE  WalkHolds'
    <3> DEFINE n == WithStatus(In, status)
    <3>1. n \in Order /\ n.type = In.type
      BY <2>2, StatusSet DEF SameTerms
    <3>2. orders' = [orders EXCEPT ![incoming] = n] /\ AllOrNothing(n)
      BY <2>2, <2>3 DEF WithStatus, In
    <3> HIDE DEF n
    <3>3. /\ orders' \in Seq(Order) /\ Len(orders') = Len(orders) /\ orders'[incoming] = n
          /\ \A x \in 1..Len(orders) : x # incoming => orders'[x] = orders[x]
      BY <1>1, <2>2, <3>1, <3>2, OrderReplaced
    <3> QED
      BY <2>1, <2>2, <2>3, <3>1, <3>2, <3>3, WalkWithChange
  <2>4. CASE FinishFilled
    <3>1. /\ orders' = [orders EXCEPT ![incoming].status = "FILLED"]
          /\ orderIndex' = orderIndex /\ Remaining(In) = 0 /\ "FILLED" \in OrderStatus
      BY <2>4 DEF FinishFilled, OrderStatus
    <3>2. AllOrNothing(WithStatus(In, "FILLED"))
      BY <2>2, <3>1, StatusSet DEF AllOrNothing, SameTerms, Remaining, OrderStatus
    <3> QED
      BY <2>2, <2>3, <3>1, <3>2
  <2>5. CASE RestLimit
    <3>1. PICK status \in OrderStatus : orders' = [orders EXCEPT ![incoming].status = status]
      BY <2>5 DEF RestLimit, OrderStatus
    <3>2. orderIndex' = orderIndex \union {incoming} /\ In.type = "LIMIT"
      BY <2>5 DEF RestLimit
    <3>3. AllOrNothing(WithStatus(In, status))
      BY <2>2, <3>2, StatusSet DEF AllOrNothing, SameTerms
    <3> QED
      BY <2>3, <3>1, <3>2, <3>3
  <2>6. CASE CancelRemainder
    <3>1. /\ orders' = [orders EXCEPT ![incoming].status = "CANCELLED"]
          /\ orderIndex' = orderIndex /\ "CANCELLED" \in OrderStatus
      BY <2>6 DEF CancelRemainder, OrderStatus
    <3>2. In.type # "FILL_OR_KILL"
      BY <2>1, <2>6, WalkLeavesNothing DEF CancelRemainder
    <3>3. AllOrNothing(WithStatus(In, "CANCELLED"))
      BY <2>2, <3>1, <3>2, StatusSet DEF AllOrNothing, SameTerms
    <3> QED
      BY <2>3, <3>1, <3>2, <3>3
  <2>7. CASE ReturnUnfilled
    <3>1. orders' = orders /\ orderIndex' = orderIndex /\ In.type = "MARKET"
      BY <2>7 DEF ReturnUnfilled, WalkHolds, MarketCall
    <3>2. AllOrNothing(In)
      BY <3>1 DEF AllOrNothing
    <3> QED
      BY <2>1, <2>2, <3>1, <3>2, WalkOver DEF In
  <2> QED
    BY <1>6, <2>4, <2>5, <2>6, <2>7 DEF Finish
<1>7. ASSUME NEW id, CancelOrder(id)
      PROVE  WalkHolds'
  <2>1. /\ Idle /\ id \in orderIndex /\ orders' = [orders EXCEPT ![id].status = "CANCELLED"]
        /\ orderIndex' = orderIndex \ {id} /\ incoming' = incoming /\ call' = call
    BY <1>7 DEF CancelOrder
  <2> DEFINE n == WithStatus(orders[id], "CANCELLED")
  <2>2. n \in Order /\ n.type = orders[id].type
    BY <1>1, <2>1, OrderAt, StatusSet DEF SameTerms, OrderStatus
  <2>3. id \in 1..Len(orders) /\ orders' = [orders EXCEPT ![id] = n]
    BY <1>1, <2>1 DEF WithStatus
  <2> HIDE DEF n
  <2>4. /\ orders' \in Seq(Order) /\ Len(orders') = Len(orders) /\ orders'[id] = n
        /\ \A x \in 1..Len(orders) : x # id => orders'[x] = orders[x]
    BY <1>1, <2>2, <2>3, OrderReplaced
  <2>5. AllOrNothing(orders'[id]) /\ incoming = NoOrder /\ call' = "none"
    BY <1>1, <2>1, <2>2, <2>4 DEF AllOrNothing, WalkHolds, Idle
  <2> QED
    BY <2>1, <2>3, <2>4, <2>5, WalkWithChange
<1>8. CASE UNCHANGED vars
  BY <1>8 DEF vars, WalkHolds, MarketCall, In, Opp, SideTotal, OnSide
<1> QED
  BY <1>2, <1>3, <1>4, <1>5, <1>6, <1>7, <1>8 DEF Next, Submit, Cancel

\* A FILL_OR_KILL is filled whole or not at all: what its walk over the level
\* totals found is still there when the loop comes to take it.
THEOREM FillOrKillsAreAllOrNothing == Spec => []FillOrKillIsAllOrNothing
<1>1. WalkHolds => FillOrKillIsAllOrNothing
  BY DEF WalkHolds, FillOrKillIsAllOrNothing, AllOrNothing
<1>2. Inv /\ Inv' /\ DepthSound /\ WalkHolds /\ [Next]_vars => WalkHolds'
  BY WalkStep
<1>3. Inv /\ Inv' /\ DepthSound /\ [Next]_vars => DepthSound'
  BY DepthStep
<1> QED
  BY <1>1, <1>2, <1>3, DepthInit, WalkInit, Invariance, PTL DEF Spec

-----------------------------------------------------------------------------
(***************************************************************************)
(* Liquidity.                                                              *)
(***************************************************************************)

\* What each order of s can give.
GivesOf(s) == [x \in 1..Len(s) |-> Gives(s[x])]

\* The liquidity of one side of a book.
LiquidityOf(s, index, side) ==
  FoldSet(LAMBDA id, sum : sum + Gives(s[id]), 0, {id \in index : s[id].side = side})

LEMMA GivesFacts ==
  ASSUME NEW s \in Seq(Order), NEW index \in SUBSET (1..Len(s)), NEW side
  PROVE  LET S == OnSide(s, index, side)
         IN  /\ IsFiniteSet(S)
             /\ \A x \in S : GivesOf(s)[x] = Gives(s[x]) /\ GivesOf(s)[x] \in Int
<1> DEFINE S == OnSide(s, index, side)
<1>1. S \subseteq 1..Len(s) /\ Len(s) \in Nat
  BY LenProperties DEF OnSide
<1>2. IsFiniteSet(S)
  <2>1. IsFiniteSet(1..Len(s))
    BY <1>1, FS_Interval
  <2> HIDE DEF S
  <2> QED
    BY <1>1, <2>1, FS_Subset
<1> HIDE DEF S
<1>3. ASSUME NEW x \in S PROVE GivesOf(s)[x] = Gives(s[x]) /\ GivesOf(s)[x] \in Int
  <2>1. x \in 1..Len(s)
    BY <1>1
  <2>2. s[x] \in Order
    BY <2>1, OrderAt
  <2>3. Remaining(s[x]) \in Int /\ s[x].hiddenQty \in Nat
    BY <2>2, OrderFields
  <2>4. Gives(s[x]) \in Int
    BY <2>3 DEF Gives
  <2> QED
    BY <2>1, <2>4 DEF GivesOf
<1> QED
  BY <1>2, <1>3 DEF S

LEMMA LiquidityIsTotal ==
  ASSUME NEW s \in Seq(Order), NEW index \in SUBSET (1..Len(s)), NEW side
  PROVE  LiquidityOf(s, index, side) = Total(GivesOf(s), OnSide(s, index, side))
<1> DEFINE S == OnSide(s, index, side)
           f == GivesOf(s)
           P(h) == h = [T \in SUBSET S |->
                          IF T = {} THEN 0
                          ELSE h[T \ {CHOOSE x \in T : TRUE}]
                                 + Gives(s[CHOOSE x \in T : TRUE])]
<1>1. IsFiniteSet(S) /\ \A x \in S : f[x] = Gives(s[x]) /\ f[x] \in Int
  BY GivesFacts
<1>2. LiquidityOf(s, index, side) = (CHOOSE h : P(h))[S]
  BY DEF LiquidityOf, OnSide, FoldSet, MapThenFoldSet
<1> HIDE DEF S, f
<1>3. ASSUME NEW h PROVE P(h) <=> SumsByChoice(h, f, S)
  <2>1. \A T \in SUBSET S :
          T # {} => f[CHOOSE x \in T : TRUE] = Gives(s[CHOOSE x \in T : TRUE])
    BY <1>1
  <2> QED
    BY <2>1 DEF SumsByChoice
<1>4. IsFiniteSet(S) /\ \A x \in S : f[x] \in Int
  BY <1>1
<1> HIDE DEF P
<1>5. SumsByChoice(CHOOSE h : P(h), f, S)
  BY <1>3, <1>4, SumByChoice
<1> QED
  BY <1>2, <1>4, <1>5, SumByChoice DEF f, S

\* Two books that agree but for the orders a and b of one side: a is in the
\* first, b in the second.
Swaps(s, index, a, n, index2, b, side) ==
  /\ s \in Seq(Order) /\ index \in SUBSET (1..Len(s))
  /\ n \in Seq(Order) /\ index2 \in SUBSET (1..Len(n))
  /\ OnSide(s, index, side) \ {a} = OnSide(n, index2, side) \ {b}
  /\ \A x \in OnSide(s, index, side) \ {a} : n[x] = s[x]

\* What a can give and b cannot is what the side has less.
LEMMA LiquidityOfSwap ==
  ASSUME NEW s, NEW index, NEW a, NEW n, NEW index2, NEW b, NEW side,
         Swaps(s, index, a, n, index2, b, side), a \in OnSide(s, index, side)
  PROVE  /\ LiquidityOf(s, index, side) \in Int
         /\ b \in OnSide(n, index2, side) =>
              LiquidityOf(s, index, side) - LiquidityOf(n, index2, side) =
                Gives(s[a]) - Gives(n[b])
         /\ b \notin OnSide(n, index2, side) =>
              LiquidityOf(s, index, side) - LiquidityOf(n, index2, side) = Gives(s[a])
<1> DEFINE S == OnSide(s, index, side)
           N == OnSide(n, index2, side)
           f == GivesOf(s)
           g == GivesOf(n)
<1>1. /\ s \in Seq(Order) /\ index \in SUBSET (1..Len(s))
      /\ n \in Seq(Order) /\ index2 \in SUBSET (1..Len(n))
      /\ S \ {a} = N \ {b} /\ \A x \in S \ {a} : n[x] = s[x]
  BY DEF Swaps
<1>2. IsFiniteSet(S) /\ \A x \in S : f[x] = Gives(s[x]) /\ f[x] \in Int
  BY <1>1, GivesFacts
<1>3. IsFiniteSet(N) /\ \A x \in N : g[x] = Gives(n[x]) /\ g[x] \in Int
  BY <1>1, GivesFacts
<1>4. LiquidityOf(s, index, side) = Total(f, S)
  BY <1>1, LiquidityIsTotal
<1>5. LiquidityOf(n, index2, side) = Total(g, N)
  BY <1>1, LiquidityIsTotal
<1>6. a \in S
  OBVIOUS
<1> HIDE DEF S, N, f, g
<1>7. /\ Total(f, S) \in Int /\ Total(f, S \ {a}) \in Int
      /\ Total(f, S) = f[a] + Total(f, S \ {a})
  BY <1>2, <1>6, TotalSplit
<1>8. Total(f, S \ {a}) = Total(g, S \ {a})
  <2>1. IsFiniteSet(S \ {a}) /\ \A x \in S \ {a} : f[x] \in Int
    BY <1>2, FS_Subset
  <2>2. \A x \in S \ {a} : f[x] = g[x]
    BY <1>1, <1>2, <1>3
  <2> QED
    BY <2>1, <2>2, TotalSame
<1>9. ASSUME b \in N PROVE Total(g, N) = g[b] + Total(g, S \ {a}) /\ g[b] = Gives(n[b])
  BY <1>1, <1>3, <1>9, TotalSplit
<1>10. ASSUME b \notin N PROVE Total(g, N) = Total(g, S \ {a})
  <2>1. N \ {b} = N
    BY <1>10
  <2> QED
    BY <1>1, <2>1
<1>11. f[a] = Gives(s[a]) /\ f[a] \in Int
  BY <1>2, <1>6
<1>12. ASSUME b \in N
       PROVE  Total(f, S) - Total(g, N) = Gives(s[a]) - Gives(n[b])
  <2>1. g[b] \in Int
    BY <1>3, <1>12
  <2> QED
    BY <1>7, <1>8, <1>9, <1>11, <1>12, <2>1
<1>13. ASSUME b \notin N PROVE Total(f, S) - Total(g, N) = Gives(s[a])
  BY <1>7, <1>8, <1>10, <1>11, <1>13
<1> QED
  BY <1>4, <1>5, <1>7, <1>12, <1>13 DEF S, N


\* A matching step: what the order gains is what the other side can give less.
LEMMA MatchConserves ==
  ASSUME Inv, Inv', MatchStep
  PROVE  /\ Opp' = Opp /\ incoming' = incoming
         /\ LiquidityOf(orders, orderIndex, Opp) - LiquidityOf(orders', orderIndex', Opp) =
              In'.filledQuantity - In.filledQuantity
<1> DEFINE side == Opp
           S == OnSide(orders, orderIndex, side)
           N == OnSide(orders', orderIndex', side)
<1>1. MoreToMatch /\ incoming' = incoming
  BY DEF MatchStep, FillResting, CompleteResting, ReplenishResting
<1>2. /\ orders \in Seq(Order) /\ Len(orders) \in Nat
      /\ orderIndex \in SUBSET (1..Len(orders))
      /\ orders' \in Seq(Order) /\ orderIndex' \in SUBSET (1..Len(orders'))
      /\ incoming \in 1..Len(orders) /\ incoming \notin orderIndex
      /\ In \in Order /\ RestingId \in orderIndex /\ RestingId \in 1..Len(orders)
      /\ RestingId # incoming
      /\ Resting = orders[RestingId] /\ Resting \in Order /\ OrderSound(Resting)
      /\ Resting.side = side /\ FillQty \in Nat /\ FillQty <= Remaining(Resting)
      /\ "FILLED" \in OrderStatus /\ "PARTIALLY_FILLED" \in OrderStatus
  BY <1>1, MatchFacts DEF Inv, TypeOK, OrderStatus, Resting
<1>3. RestingId \in S
  BY <1>2 DEF OnSide
<1>4. /\ Remaining(Resting) \in Int /\ Resting.hiddenQty \in Nat
      /\ Resting.quantity \in Nat /\ Resting.filledQuantity \in Nat
      /\ In.filledQuantity \in Nat
  BY <1>2, OrderFields
<1>5. ASSUME RestingIsFilled PROVE FillQty = Remaining(Resting)
  <2>1. Resting.filledQuantity + FillQty >= Resting.quantity
    BY <1>5 DEF RestingIsFilled
  <2> QED
    BY <1>2, <1>4, <2>1 DEF Remaining
<1>6. ASSUME NEW status \in OrderStatus
      PROVE  LET new == OrdersAfterFill(status)
             IN  /\ new \in Seq(Order) /\ Len(new) = Len(orders)
                 /\ \A x \in 1..Len(orders) :
                      /\ SameTerms(new[x], orders[x])
                      /\ x \notin {incoming, RestingId} => new[x] = orders[x]
                 /\ new[incoming].filledQuantity = In.filledQuantity + FillQty
                 /\ new[RestingId].filledQuantity = Resting.filledQuantity + FillQty
  BY <1>1, OrdersFilled
<1>7. ASSUME NEW b,
             Swaps(orders, orderIndex, RestingId, orders', orderIndex', b, side),
             \/ b \in N /\ Gives(Resting) - Gives(orders'[b]) = FillQty
             \/ b \notin N /\ Gives(Resting) = FillQty
      PROVE  LiquidityOf(orders, orderIndex, side)
               - LiquidityOf(orders', orderIndex', side) = FillQty
  <2> HIDE DEF side
  <2> QED
    BY <1>2, <1>3, <1>7, LiquidityOfSwap
<1>8. ASSUME NEW status \in OrderStatus, NEW new, new = OrdersAfterFill(status),
             Len(orders') \in Nat, \A x \in 1..Len(orders) : orders'[x] = new[x]
      PROVE  /\ Opp' = side
             /\ In'.filledQuantity - In.filledQuantity = FillQty
             /\ \A x \in orderIndex \ {RestingId} : orders'[x] = orders[x]
             /\ SameTerms(orders'[RestingId], Resting)
             /\ orders'[RestingId].filledQuantity = Resting.filledQuantity + FillQty
  <2>1. /\ \A x \in 1..Len(orders) :
             /\ SameTerms(new[x], orders[x])
             /\ x \notin {incoming, RestingId} => new[x] = orders[x]
        /\ new[incoming].filledQuantity = In.filledQuantity + FillQty
        /\ new[RestingId].filledQuantity = Resting.filledQuantity + FillQty
    BY <1>6, <1>8
  <2>2. In' = new[incoming] /\ In'.side = In.side
    BY <1>1, <1>2, <1>8, <2>1 DEF In, SameTerms
  <2>3. Opp' = side
    BY <2>2 DEF Opp
  <2>4. In'.filledQuantity - In.filledQuantity = FillQty
    BY <1>2, <1>4, <2>1, <2>2
  <2> QED
    BY <1>2, <1>8, <2>1, <2>3, <2>4
<1>9. CASE FillResting
  <2> DEFINE new == OrdersAfterFill("PARTIALLY_FILLED")
  <2>1. orders' = new /\ orderIndex' = orderIndex
    BY <1>9 DEF FillResting
  <2>2. Len(orders') \in Nat
    BY <1>2, LenProperties
  <2>3. /\ Opp' = side
        /\ In'.filledQuantity - In.filledQuantity = FillQty
        /\ \A x \in orderIndex \ {RestingId} : orders'[x] = orders[x]
        /\ SameTerms(orders'[RestingId], Resting)
        /\ orders'[RestingId].filledQuantity = Resting.filledQuantity + FillQty
    BY <1>2, <1>8, <2>1, <2>2
  <2>4. RestingId \in N /\ S \ {RestingId} = N \ {RestingId}
    BY <1>2, <2>1, <2>3 DEF OnSide, SameTerms
  <2>5. Swaps(orders, orderIndex, RestingId, orders', orderIndex', RestingId, side)
    BY <1>2, <2>3, <2>4 DEF Swaps, OnSide
  <2>6. Gives(Resting) - Gives(orders'[RestingId]) = FillQty
    <3> DEFINE o == orders'[RestingId]
               hidden == IF Resting.type = "ICEBERG" THEN Resting.hiddenQty ELSE 0
    <3>1. /\ o.type = Resting.type /\ o.hiddenQty = Resting.hiddenQty
          /\ o.quantity = Resting.quantity
          /\ o.filledQuantity = Resting.filledQuantity + FillQty
      BY <2>3 DEF SameTerms
    <3> HIDE DEF o
    <3>2. Gives(o) = Resting.quantity - (Resting.filledQuantity + FillQty) + hidden
      BY <3>1 DEF Gives, Remaining
    <3>3. Gives(Resting) = Resting.quantity - Resting.filledQuantity + hidden
      BY DEF Gives, Remaining
    <3>4. hidden \in Int
      BY <1>4
    <3> HIDE DEF hidden
    <3> QED
      BY <1>2, <1>4, <3>2, <3>3, <3>4, SMTT(30) DEF o
  <2> QED
    BY <1>1, <1>7, <2>3, <2>4, <2>5, <2>6
<1>10. CASE CompleteResting
  <2> DEFINE new == OrdersAfterFill("FILLED")
  <2>1. /\ orders' = new /\ orderIndex' = orderIndex \ {RestingId}
        /\ RestingIsFilled /\ ~ HasHidden
    BY <1>10 DEF CompleteResting
  <2>2. Len(orders') \in Nat
    BY <1>2, LenProperties
  <2>3. /\ Opp' = side
        /\ In'.filledQuantity - In.filledQuantity = FillQty
        /\ \A x \in orderIndex \ {RestingId} : orders'[x] = orders[x]
    BY <1>2, <1>8, <2>1, <2>2
  <2>4. RestingId \notin N /\ S \ {RestingId} = N \ {RestingId}
    BY <1>2, <2>1, <2>3 DEF OnSide
  <2>5. Swaps(orders, orderIndex, RestingId, orders', orderIndex', RestingId, side)
    BY <1>2, <2>3, <2>4 DEF Swaps, OnSide
  <2>6. Gives(Resting) = FillQty
    BY <1>4, <1>5, <2>1 DEF Gives, HasHidden
  <2> QED
    BY <1>1, <1>7, <2>3, <2>4, <2>5, <2>6
<1>11. CASE ReplenishResting
  <2> DEFINE new == OrdersAfterFill("FILLED")
             slice == NextSlice(Resting)
  <2>1. /\ orders' = Append(new, slice)
        /\ orderIndex' = (orderIndex \ {RestingId}) \union {NewId}
        /\ RestingIsFilled /\ HasHidden
    BY <1>11 DEF ReplenishResting
  <2>2. /\ slice \in Order /\ slice.side = side /\ slice.type = "ICEBERG"
        /\ Remaining(slice) + slice.hiddenQty = Resting.hiddenQty
    BY <1>2, <2>1, SliceFields DEF HasHidden, OrderSound
  <2>3. new \in Seq(Order) /\ Len(new) = Len(orders)
    BY <1>2, <1>6
  <2> HIDE DEF new, slice
  <2>4. /\ Len(orders') = Len(orders) + 1 /\ orders'[NewId] = slice
        /\ \A x \in 1..Len(orders) : orders'[x] = new[x]
    BY <2>1, <2>2, <2>3, OrderAppended DEF NewId
  <2>5. /\ Opp' = side
        /\ In'.filledQuantity - In.filledQuantity = FillQty
        /\ \A x \in orderIndex \ {RestingId} : orders'[x] = orders[x]
    BY <1>2, <1>8, <2>4 DEF new
  <2>6. NewId \notin orderIndex /\ NewId \in orderIndex'
    BY <1>2, <2>1 DEF NewId
  <2>7. NewId \in N /\ S \ {RestingId} = N \ {NewId}
    BY <1>2, <2>1, <2>2, <2>4, <2>5, <2>6 DEF OnSide
  <2>8. Swaps(orders, orderIndex, RestingId, orders', orderIndex', NewId, side)
    BY <1>2, <2>5, <2>7 DEF Swaps, OnSide
  <2>9. Gives(Resting) - Gives(orders'[NewId]) = FillQty
    <3>1. Gives(Resting) = FillQty + Resting.hiddenQty
      BY <1>5, <2>1 DEF Gives, HasHidden
    <3>2. Gives(slice) = Resting.hiddenQty
      BY <2>2 DEF Gives
    <3> QED
      BY <1>2, <1>4, <2>4, <3>1, <3>2
  <2> QED
    BY <1>1, <1>7, <2>5, <2>7, <2>8, <2>9
<1> QED
  BY <1>9, <1>10, <1>11 DEF MatchStep

\* A fill takes from the resting side exactly what it gives to the incoming
\* order, and replenishing an iceberg neither makes nor loses quantity.
THEOREM MatchingConserves == Spec => MatchingConservesQuantity
<1>1. ASSUME Inv, Inv', [Next]_vars, ~ Idle, incoming' = incoming
      PROVE  Liquidity(Opp) - Liquidity(Opp)' = In'.filledQuantity - In.filledQuantity
  <2>1. /\ Liquidity(Opp) = LiquidityOf(orders, orderIndex, Opp)
        /\ Liquidity(Opp)' = LiquidityOf(orders', orderIndex', Opp')
    BY DEF Liquidity, LiquidityOf, BookSide, FoldSet, MapThenFoldSet
  <2>2. CASE MatchStep
    BY <1>1, <2>1, <2>2, MatchConserves
  <2>3. CASE UNCHANGED vars
    <3>1. In' = In /\ Opp' = Opp /\ orders' = orders /\ orderIndex' = orderIndex
      BY <2>3 DEF vars, In, Opp
    <3>2. incoming \in 1..Len(orders) /\ In \in Order /\ Opp \in Side
      BY <1>1, IncomingFacts, OrderFields DEF Opp
    <3>3. In.filledQuantity \in Int
      BY <3>2, OrderFields
    <3>4. LiquidityOf(orders, orderIndex, Opp) \in Int
      <4>1. orders \in Seq(Order) /\ orderIndex \in SUBSET (1..Len(orders))
        BY <1>1 DEF Inv, TypeOK
      <4>2. /\ IsFiniteSet(OnSide(orders, orderIndex, Opp))
            /\ \A x \in OnSide(orders, orderIndex, Opp) : GivesOf(orders)[x] \in Int
        BY <4>1, GivesFacts
      <4> QED
        BY <4>1, <4>2, LiquidityIsTotal, TotalType
    <3> QED
      BY <2>1, <3>1, <3>3, <3>4
  <2>4. ~ Submit /\ ~ Finish /\ ~ Cancel
    <3>1. incoming' # NoOrder
      BY <1>1 DEF Idle
    <3>2. ~ Finish
      BY <3>1 DEF Finish, FinishFilled, RestLimit, CancelRemainder, ReturnUnfilled, Return
    <3>3. ~ Cancel
      BY <1>1 DEF Cancel, CancelOrder
    <3>4. ~ Submit
      BY <1>1 DEF Submit, AddOrder, HoldStop, TriggerStop, MatchMarketOrder
    <3> QED
      BY <3>2, <3>3, <3>4
  <2> QED
    BY <1>1, <2>2, <2>3, <2>4 DEF Next
<1> QED
  BY <1>1, Invariance, PTL DEF Spec, MatchingConservesQuantity


-----------------------------------------------------------------------------
(* OrderBook implements PriceTimeBook: each step of the loops is a Take of *)
(* the first offer, each return a Rest or a Leave of a taker that is done, *)
(* and so on.  All that Inv lacks for it is that only promoted stop orders *)
(* are matched by matchMarketOrder.                                        *)

LEMMA IdleTaker ==
  ASSUME Idle
  PROVE  Matching = Abstract!Nobody
BY DEF Matching, Abstract!Nobody

LEMMA BusyTaker ==
  ASSUME ~ Idle
  PROVE  /\ Matching = TakerOf(incoming, In)
         /\ Matching # Abstract!Nobody
         /\ Matching.id = incoming /\ Matching.side = In.side /\ Matching.price = In.price
         /\ Matching.limited = (In.type = "LIMIT") /\ Matching.left = Remaining(In)
<1>1. Matching = TakerOf(incoming, In)
  BY DEF Matching
<1>2. Matching.id = incoming /\ Abstract!Nobody.id = 0
  BY <1>1 DEF TakerOf, Abstract!Nobody
<1>3. incoming # 0
  BY DEF Idle, NoOrder
<1>4. /\ Matching.side = In.side /\ Matching.price = In.price
      /\ Matching.limited = (In.type = "LIMIT") /\ Matching.left = Remaining(In)
  BY <1>1 DEF TakerOf
<1> QED BY <1>1, <1>2, <1>3, <1>4

LEMMA OfferFields ==
  ASSUME NEW id \in orderIndex
  PROVE  /\ Offers[id] = OfferOf(orders[id])
         /\ Offers[id].side = orders[id].side
         /\ Offers[id].price = orders[id].price
         /\ Offers[id].left = Remaining(orders[id])
         /\ Offers[id].hidden = IF orders[id].type = "ICEBERG" THEN orders[id].hiddenQty ELSE 0
BY DEF Offers, OfferOf

LEMMA OffersDomain == DOMAIN Offers = orderIndex
BY DEF Offers

LEMMA SameOffers ==
  ASSUME orderIndex' = orderIndex,
         \A x \in orderIndex : OfferOf(orders'[x]) = OfferOf(orders[x])
  PROVE  Offers' = Offers
BY DEF Offers

LEMMA OfferWritten ==
  ASSUME NEW id, orderIndex' = orderIndex \cup {id},
         \A x \in orderIndex \ {id} : OfferOf(orders'[x]) = OfferOf(orders[x])
  PROVE  Offers' = Abstract!With(Offers, id, OfferOf(orders'[id]))
BY DEF Offers, Abstract!With

LEMMA OfferRemoved ==
  ASSUME NEW id, orderIndex' = orderIndex \ {id},
         \A x \in orderIndex \ {id} : OfferOf(orders'[x]) = OfferOf(orders[x])
  PROVE  Offers' = Abstract!Without(Offers, id)
BY DEF Offers, Abstract!Without

LEMMA OfferType ==
  ASSUME NEW o \in Order, Remaining(o) > 0
  PROVE  OfferOf(o) \in Abstract!Offer
BY OrderFields DEF OfferOf, Abstract!Offer, Abstract!Side, Side, Remaining

LEMMA TakerType ==
  ASSUME NEW o \in Order, NEW id \in Nat, OrderSound(o)
  PROVE  TakerOf(id, o) \in Abstract!Taker /\ TakerOf(id, o).id = id
BY OrderFields DEF TakerOf, Abstract!Taker, Abstract!Side, Side, Remaining, OrderSound

\* A fill takes from what is left, of the offer and of the taker, and nothing else.
LEMMA OfferFilled ==
  ASSUME NEW o \in Order, NEW size \in Nat, NEW status \in OrderStatus
  PROVE  OfferOf(WithStatus(WithFill(o, size), status))
           = [OfferOf(o) EXCEPT !.left = Remaining(o) - size]
<1> DEFINE filled == WithFill(o, size)
           made == WithStatus(filled, status)
<1>1. /\ filled \in Order /\ filled.side = o.side /\ filled.price = o.price
      /\ filled.type = o.type /\ filled.hiddenQty = o.hiddenQty
      /\ filled.quantity = o.quantity /\ filled.filledQuantity = o.filledQuantity + size
  BY DEF WithFill, Order
<1> HIDE DEF filled
<1>2. /\ made.side = o.side /\ made.price = o.price
      /\ made.type = o.type /\ made.hiddenQty = o.hiddenQty
      /\ made.quantity = o.quantity /\ made.filledQuantity = o.filledQuantity + size
  BY <1>1 DEF WithStatus, Order
<1> HIDE DEF made
<1>3. o.quantity \in Nat /\ o.filledQuantity \in Nat
  BY OrderFields
<1>4. Remaining(made) = Remaining(o) - size
  BY <1>2, <1>3 DEF Remaining
<1>5. OfferOf(made) = [OfferOf(o) EXCEPT !.left = Remaining(o) - size]
  BY <1>2, <1>4 DEF OfferOf
<1> QED BY <1>5 DEF made, filled

LEMMA TakerFilled ==
  ASSUME NEW o \in Order, NEW size \in Nat, NEW id
  PROVE  TakerOf(id, WithFill(o, size)) = [TakerOf(id, o) EXCEPT !.left = Remaining(o) - size]
<1> DEFINE filled == WithFill(o, size)
<1>1. /\ filled.side = o.side /\ filled.price = o.price /\ filled.type = o.type
      /\ filled.quantity = o.quantity /\ filled.filledQuantity = o.filledQuantity + size
  BY DEF WithFill, Order
<1> HIDE DEF filled
<1>2. o.quantity \in Nat /\ o.filledQuantity \in Nat
  BY OrderFields
<1>3. Remaining(filled) = Remaining(o) - size
  BY <1>1, <1>2 DEF Remaining
<1>4. TakerOf(id, filled) = [TakerOf(id, o) EXCEPT !.left = Remaining(o) - size]
  BY <1>1, <1>3 DEF TakerOf
<1> QED BY <1>4 DEF filled

LEMMA OfferStatus ==
  ASSUME NEW o \in Order, NEW status \in OrderStatus
  PROVE  OfferOf(WithStatus(o, status)) = OfferOf(o)
BY DEF OfferOf, WithStatus, Order, Remaining

LEMMA OfferRefilled ==
  ASSUME NEW o \in Order, o.type = "ICEBERG", o.displayQty > 0, o.hiddenQty > 0
  PROVE  \E size \in 1..o.hiddenQty :
           OfferOf(NextSlice(o))
             = [side |-> o.side, price |-> o.price, left |-> size,
                hidden |-> o.hiddenQty - size]
<1> DEFINE size == Smaller(o.displayQty, o.hiddenQty)
           slice == NextSlice(o)
<1>1. size \in 1..o.hiddenQty
  BY OrderFields DEF Smaller
<1>2. o.hiddenQty \in Nat
  BY OrderFields
<1> DEFINE sized == [o EXCEPT !.quantity = size]
           fresh == [sized EXCEPT !.filledQuantity = 0]
           open == [fresh EXCEPT !.status = "OPEN"]
           last == [open EXCEPT !.hiddenQty = o.hiddenQty - size]
<1>3. slice = last
  BY DEF NextSlice, Order
<1> HIDE DEF size, slice
<1>4. /\ last.side = o.side /\ last.price = o.price /\ last.type = o.type
      /\ last.quantity = size /\ last.filledQuantity = 0
      /\ last.hiddenQty = o.hiddenQty - size
  BY DEF Order
<1> HIDE DEF last
<1>5. Remaining(slice) = size
  BY <1>1, <1>3, <1>4 DEF Remaining
<1>6. OfferOf(slice) = [side |-> o.side, price |-> o.price, left |-> size,
                        hidden |-> o.hiddenQty - size]
  BY <1>3, <1>4, <1>5 DEF OfferOf
<1> QED BY <1>1, <1>6 DEF slice

-----------------------------------------------------------------------------
(* Steps outside the matching loops.                                       *)

LEMMA ArrivalRefined ==
  ASSUME Inv, Idle, NEW id, NEW o \in Order, OrderSound(o),
         id \in Nat \ {0}, id \notin orderIndex, id <= Len(orders) + 1,
         Len(orders') = (IF id > Len(orders) THEN Len(orders) + 1 ELSE Len(orders)),
         incoming' = id, orders'[id] = o, orderIndex' = orderIndex,
         \A x \in orderIndex : orders'[x] = orders[x]
  PROVE  Abstract!Arrive
<1>1. Offers' = Offers
  BY SameOffers
<1>2. Matching = Abstract!Nobody
  BY IdleTaker
<1>3. Matching' = TakerOf(id, o)
  BY DEF Matching, Idle, NoOrder, In
<1>4. TakerOf(id, o) \in Abstract!Taker /\ TakerOf(id, o).id = id
  BY TakerType
<1>5. Len(orders) \in Nat
  BY LenProperties DEF Inv, TypeOK
<1>6. id \in 1..Len(orders')
  BY <1>5
<1> QED
  BY <1>1, <1>2, <1>3, <1>4, <1>5, <1>6, OffersDomain DEF Abstract!Arrive

LEMMA SubmitRefined ==
  ASSUME Inv, NEW r \in Requests, ~ IsStop(r), AddOrder(CreateOrder(r)), Inv'
  PROVE  Abstract!Trading
<1> DEFINE o == CreateOrder(r)
<1>1. o \in Order /\ o.filledQuantity = 0 /\ Idle
  BY BookAssumption, CreatedOrder DEF AddOrder
<1>3. orders \in Seq(Order) /\ Len(orders) \in Nat /\ orderIndex \subseteq 1..Len(orders)
  BY LenProperties DEF Inv, TypeOK
<1> HIDE DEF o
<1>4. CASE o.type # "ICEBERG" /\ StartMatching(o)
  <2>0. OrderSound(o)
    BY <1>1, <1>4, OrderFields DEF OrderSound
  <2>1. /\ orders' = Append(orders, o) /\ incoming' = NewId /\ orderIndex' = orderIndex
    BY <1>4 DEF StartMatching
  <2>2. /\ Len(orders') = Len(orders) + 1 /\ orders'[NewId] = o
        /\ \A x \in 1..Len(orders) : orders'[x] = orders[x]
    BY <1>1, <1>3, <2>1, OrderAppended DEF NewId
  <2>3. Abstract!Arrive
    BY <1>1, <1>3, <2>0, <2>1, <2>2, ArrivalRefined DEF NewId
  <2> QED BY <2>3 DEF Abstract!Trading
<1>5. CASE RejectFillOrKill(o)
  <2> DEFINE refused == [o EXCEPT !.status = "CANCELLED"]
  <2>1. refused \in Order
    BY <1>1 DEF Order, OrderStatus
  <2>2. orders' = Append(orders, refused) /\ UNCHANGED <<orderIndex, incoming>>
    BY <1>5 DEF RejectFillOrKill
  <2> HIDE DEF refused
  <2>3. /\ Len(orders') = Len(orders) + 1
        /\ \A x \in 1..Len(orders) : orders'[x] = orders[x]
    BY <1>3, <2>1, <2>2, OrderAppended
  <2>4. Offers' = Offers
    BY <1>3, <2>2, <2>3, SameOffers
  <2>5. Matching' = Matching
    BY <1>1, <2>2 DEF Matching, Idle
  <2> QED BY <2>3, <2>4, <2>5 DEF Abstract!Trading, Abstract!Register
<1>6. CASE AddIceberg(o)
  <2>1. PICK slice : orders' = Append(orders, slice)
    BY <1>6, Zenon DEF AddIceberg
  <2>2. orderIndex' = orderIndex \cup {NewId} /\ incoming' = incoming
    BY <1>6 DEF AddIceberg
  <2>3. /\ Len(orders') = Len(orders) + 1
        /\ \A x \in 1..Len(orders) : orders'[x] = orders[x]
    BY <1>3, <2>1, AppendProperties
  <2>4. orders'[NewId] \in Order /\ Remaining(orders'[NewId]) > 0
    <3>1. orders' \in Seq(Order) /\ NewId \in 1..Len(orders')
      BY <1>3, <2>3 DEF Inv, TypeOK, NewId
    <3>2. Remaining(orders'[NewId]) > 0
      BY <2>2 DEF Inv, IndexedOpen, Remaining
    <3> QED BY <3>1, <3>2, OrderAt
  <2>5. NewId \notin orderIndex /\ NewId = Len(orders')
    BY <1>3, <2>3 DEF NewId
  <2>6. Offers' = Abstract!With(Offers, NewId, OfferOf(orders'[NewId]))
    BY <1>3, <2>2, <2>3, OfferWritten
  <2>7. OfferOf(orders'[NewId]) \in Abstract!Offer
    BY <2>4, OfferType
  <2>8. DOMAIN Offers' = DOMAIN Offers \cup {NewId} /\ Offers'[NewId] = OfferOf(orders'[NewId])
    BY <2>6 DEF Abstract!With
  <2>9. Matching = Abstract!Nobody /\ Matching' = Matching
    BY <1>1, <2>2, IdleTaker DEF Matching, Idle
  <2> QED
    BY <2>3, <2>5, <2>6, <2>7, <2>8, <2>9 DEF Abstract!Trading, Abstract!Admit
<1> QED BY <1>4, <1>5, <1>6 DEF AddOrder, o

LEMMA HoldStopRefined ==
  ASSUME Inv, NEW r \in Requests, HoldStop(CreateOrder(r))
  PROVE  Abstract!Trading
<1>1. CreateOrder(r) \in Order /\ Idle
  BY BookAssumption, CreatedOrder DEF HoldStop
<1>2. orders \in Seq(Order) /\ orderIndex \subseteq 1..Len(orders)
  BY DEF Inv, TypeOK
<1>3. orders' = Append(orders, CreateOrder(r)) /\ UNCHANGED <<orderIndex, incoming>>
  BY DEF HoldStop
<1>4. /\ Len(orders') = Len(orders) + 1
      /\ \A x \in 1..Len(orders) : orders'[x] = orders[x]
  BY <1>1, <1>2, <1>3, OrderAppended
<1>5. Offers' = Offers
  BY <1>2, <1>3, <1>4, SameOffers
<1>6. Matching' = Matching
  BY <1>1, <1>3 DEF Matching, Idle
<1> QED BY <1>4, <1>5, <1>6 DEF Abstract!Trading, Abstract!Register

LEMMA TriggerStopRefined ==
  ASSUME Inv, NEW id \in 1..Len(orders), TriggerStop(id), Inv'
  PROVE  Abstract!Trading
<1>1. /\ Idle /\ incoming' = id /\ orderIndex' = orderIndex
      /\ orders' = [orders EXCEPT ![id] = Promoted(orders[id])]
      /\ orders[id].status = "PENDING"
  BY DEF TriggerStop, MatchMarketOrder
<1>2. orders \in Seq(Order) /\ Len(orders) \in Nat /\ orders[id] \in Order
  BY OrderAt, LenProperties DEF Inv, TypeOK
<1>3. id \notin orderIndex
  BY <1>1 DEF Inv, IndexedOpen
<1>4. Promoted(orders[id]) \in Order /\ OrderSound(Promoted(orders[id]))
  BY <1>2, PromotedFields DEF Inv, OrdersSound, OrderSound
<1>5. /\ Len(orders') = Len(orders) /\ orders'[id] = Promoted(orders[id])
      /\ \A x \in 1..Len(orders) : x # id => orders'[x] = orders[x]
  BY <1>1, <1>2, <1>4, OrderReplaced
<1>6. \A x \in orderIndex : orders'[x] = orders[x]
  BY <1>3, <1>5, SMTT(30) DEF Inv, TypeOK
<1>7. id \in Nat \ {0} /\ id <= Len(orders) + 1 /\ ~ (id > Len(orders))
  BY <1>2
<1>8. Abstract!Arrive
  BY <1>1, <1>3, <1>4, <1>5, <1>6, <1>7, ArrivalRefined
<1> QED BY <1>8 DEF Abstract!Trading

-----------------------------------------------------------------------------
(* The matching loops.                                                     *)

LEMMA ObjectsFilled ==
  ASSUME Inv, MoreToMatch, NEW status \in OrderStatus
  PROVE  LET new == OrdersAfterFill(status)
         IN  /\ new \in Seq(Order) /\ Len(new) = Len(orders)
             /\ new[incoming] = WithFill(In, FillQty)
             /\ new[RestingId] = WithStatus(WithFill(Resting, FillQty), status)
             /\ \A x \in orderIndex \ {RestingId} : new[x] = orders[x]
<1> DEFINE new == OrdersAfterFill(status)
<1>1. /\ orders \in Seq(Order) /\ incoming \in 1..Len(orders) /\ incoming \notin orderIndex
      /\ RestingId \in 1..Len(orders) /\ RestingId # incoming /\ FillQty \in Nat
  BY MatchFacts
<1>2. orderIndex \subseteq 1..Len(orders)
  BY DEF Inv, TypeOK
<1>3. new = AfterFill(orders, incoming, RestingId, FillQty, status)
  BY DEF OrdersAfterFill, AfterFill
<1> DEFINE after == AfterFill(orders, incoming, RestingId, FillQty, status)
<1>4. /\ after \in Seq(Order) /\ Len(after) = Len(orders)
      /\ \A x \in 1..Len(orders) :
           after[x] = IF x = incoming THEN WithFill(orders[x], FillQty)
                      ELSE IF x = RestingId
                           THEN WithStatus(WithFill(orders[x], FillQty), status)
                           ELSE orders[x]
  <2>1. incoming # RestingId
    BY <1>1
  <2> QED BY <1>1, <2>1, AfterFillProperties
<1> HIDE DEF new
<1> HIDE DEF after
<1>5. /\ after[incoming] = WithFill(In, FillQty)
      /\ after[RestingId] = WithStatus(WithFill(Resting, FillQty), status)
  BY <1>1, <1>4 DEF In, Resting
<1>6. \A x \in orderIndex \ {RestingId} : after[x] = orders[x]
  BY <1>1, <1>2, <1>4
<1>7. new = after
  BY <1>3 DEF after
<1> QED BY <1>4, <1>5, <1>6, <1>7 DEF new

\* The head of the best level is the first offer, and the taker accepts it.
LEMMA HeadIsTaken ==
  ASSUME Inv, MoreToMatch, incoming' = incoming, orders'[incoming] = WithFill(In, FillQty)
  PROVE  /\ Matching # Abstract!Nobody /\ Matching.left > 0
         /\ RestingId \in DOMAIN Offers
         /\ Abstract!IsFirst(RestingId) /\ Abstract!Acceptable(RestingId)
         /\ FillQty = Abstract!Smaller(Matching.left, Offers[RestingId].left)
         /\ Matching' = [Matching EXCEPT !.left = @ - FillQty]
<1>1. /\ In \in Order /\ Remaining(In) > 0 /\ RestingId \in orderIndex
      /\ Resting.side = Opp /\ Resting.price = Best.price /\ FillQty \in Nat
  BY MatchFacts
<1>2. ~ Idle
  BY DEF MoreToMatch
<1>3. /\ Matching = TakerOf(incoming, In) /\ Matching # Abstract!Nobody
      /\ Matching.side = In.side /\ Matching.price = In.price
      /\ Matching.limited = (In.type = "LIMIT") /\ Matching.left = Remaining(In)
  BY <1>2, BusyTaker
<1>4. /\ Offers[RestingId].side = Resting.side /\ Offers[RestingId].price = Resting.price
      /\ Offers[RestingId].left = Remaining(Resting)
  BY <1>1, OfferFields DEF Resting
<1>5. Abstract!IsFirst(RestingId)
  <2> SUFFICES ASSUME NEW other \in orderIndex, other # RestingId,
                      Offers[other].side = Offers[RestingId].side
               PROVE  \/ Abstract!Behind(Offers[RestingId].side, Offers[other].price,
                                         Offers[RestingId].price)
                      \/ /\ Offers[other].price = Offers[RestingId].price
                         /\ RestingId < other
    BY OffersDomain DEF Abstract!IsFirst
  <2>1. Offers[other].side = BookSide(other) /\ Offers[other].price = Price(other)
    BY OfferFields DEF BookSide, Price
  <2>2. Resting.side = BookSide(RestingId) /\ Resting.price = Price(RestingId)
    BY DEF BookSide, Price, Resting
  <2>3. Precedes(RestingId, other)
    BY <1>4, <2>1, <2>2, HeadPrecedes
  <2> QED BY <1>4, <2>1, <2>2, <2>3 DEF Precedes, Behind, Abstract!Behind
<1>6. Abstract!Acceptable(RestingId)
  <2>1. In.type = "LIMIT" => ~ Behind(In.side, In.price, Best.price)
    BY DEF MoreToMatch, Crosses
  <2> QED
    BY <1>1, <1>3, <1>4, <2>1
    DEF Abstract!Acceptable, Abstract!Opposite, Abstract!Behind, Opposite, Behind, Opp
<1>7. FillQty = Abstract!Smaller(Matching.left, Offers[RestingId].left)
  BY <1>3, <1>4 DEF FillQty, Smaller, Abstract!Smaller
<1>8. Matching' = TakerOf(incoming, WithFill(In, FillQty))
  BY <1>2 DEF Matching, Idle, In
<1>9. TakerOf(incoming, WithFill(In, FillQty))
        = [TakerOf(incoming, In) EXCEPT !.left = Remaining(In) - FillQty]
  BY <1>1, TakerFilled
<1>10. Matching' = [Matching EXCEPT !.left = @ - FillQty]
  BY <1>3, <1>8, <1>9
<1> QED BY <1>1, <1>3, <1>5, <1>6, <1>7, <1>10, OffersDomain

LEMMA OfferReplaced ==
  ASSUME NEW old, NEW id, orderIndex' = (orderIndex \ {old}) \cup {id},
         \A x \in orderIndex \ {old, id} : OfferOf(orders'[x]) = OfferOf(orders[x])
  PROVE  Offers' = Abstract!With(Abstract!Without(Offers, old), id, OfferOf(orders'[id]))
BY DEF Offers, Abstract!With, Abstract!Without

LEMMA FillRestingRefined ==
  ASSUME Inv, FillResting
  PROVE  Abstract!Trading
<1> DEFINE offer == Offers[RestingId]
<1>1. /\ MoreToMatch /\ ~ RestingIsFilled /\ orders' = OrdersAfterFill("PARTIALLY_FILLED")
      /\ orderIndex' = orderIndex /\ incoming' = incoming
  BY DEF FillResting
<1>2. /\ Len(orders') = Len(orders) /\ orders'[incoming] = WithFill(In, FillQty)
      /\ orders'[RestingId] = WithStatus(WithFill(Resting, FillQty), "PARTIALLY_FILLED")
      /\ \A x \in orderIndex \ {RestingId} : orders'[x] = orders[x]
  BY <1>1, ObjectsFilled DEF OrderStatus
<1>3. /\ Resting \in Order /\ RestingId \in orderIndex /\ FillQty \in Nat
  BY <1>1, MatchFacts
<1>4. offer = OfferOf(Resting) /\ offer.left = Remaining(Resting)
  BY <1>3, OfferFields DEF Resting
<1>5. OfferOf(orders'[RestingId]) = [OfferOf(Resting) EXCEPT !.left = Remaining(Resting) - FillQty]
  BY <1>2, <1>3, OfferFilled DEF OrderStatus
<1>6. Offers' = Abstract!With(Offers, RestingId, OfferOf(orders'[RestingId]))
  BY <1>1, <1>2, <1>3, OfferWritten
<1>7. FillQty < offer.left
  BY <1>1, <1>3, <1>4, OrderFields DEF RestingIsFilled, Remaining
<1>8. [OfferOf(Resting) EXCEPT !.left = Remaining(Resting) - FillQty]
        = [offer EXCEPT !.left = @ - FillQty]
  BY <1>4
<1>9. /\ Matching # Abstract!Nobody /\ Matching.left > 0
      /\ RestingId \in DOMAIN Offers
      /\ Abstract!IsFirst(RestingId) /\ Abstract!Acceptable(RestingId)
      /\ FillQty = Abstract!Smaller(Matching.left, offer.left)
      /\ Matching' = [Matching EXCEPT !.left = @ - FillQty]
  BY <1>1, <1>2, HeadIsTaken
<1> HIDE DEF offer
<1>10. Abstract!Take(RestingId)
  BY <1>2, <1>5, <1>6, <1>7, <1>8, <1>9 DEF Abstract!Take, offer
<1> QED BY <1>9, <1>10 DEF Abstract!Trading

LEMMA CompleteRestingRefined ==
  ASSUME Inv, CompleteResting
  PROVE  Abstract!Trading
<1> DEFINE offer == Offers[RestingId]
<1>1. /\ MoreToMatch /\ RestingIsFilled /\ ~ HasHidden /\ orders' = OrdersAfterFill("FILLED")
      /\ orderIndex' = orderIndex \ {RestingId} /\ incoming' = incoming
  BY DEF CompleteResting
<1>2. /\ Len(orders') = Len(orders) /\ orders'[incoming] = WithFill(In, FillQty)
      /\ \A x \in orderIndex \ {RestingId} : orders'[x] = orders[x]
  BY <1>1, ObjectsFilled DEF OrderStatus
<1>3. /\ Resting \in Order /\ RestingId \in orderIndex /\ FillQty \in Nat
      /\ FillQty <= Remaining(Resting)
  BY <1>1, MatchFacts
<1>4. /\ offer.left = Remaining(Resting)
      /\ offer.hidden = IF Resting.type = "ICEBERG" THEN Resting.hiddenQty ELSE 0
  BY <1>3, OfferFields DEF Resting
<1>5. Offers' = Abstract!Without(Offers, RestingId)
  BY <1>1, <1>2, OfferRemoved
<1>6. FillQty = offer.left /\ offer.hidden = 0
  BY <1>1, <1>3, <1>4, OrderFields DEF RestingIsFilled, Remaining, HasHidden
<1>7. /\ Matching # Abstract!Nobody /\ Matching.left > 0
      /\ RestingId \in DOMAIN Offers
      /\ Abstract!IsFirst(RestingId) /\ Abstract!Acceptable(RestingId)
      /\ FillQty = Abstract!Smaller(Matching.left, offer.left)
      /\ Matching' = [Matching EXCEPT !.left = @ - FillQty]
  BY <1>1, <1>2, HeadIsTaken
<1> HIDE DEF offer
<1>8. Abstract!Take(RestingId)
  BY <1>2, <1>5, <1>6, <1>7 DEF Abstract!Take, offer
<1> QED BY <1>7, <1>8 DEF Abstract!Trading

LEMMA ReplenishRestingRefined ==
  ASSUME Inv, ReplenishResting
  PROVE  Abstract!Trading
<1> DEFINE offer == Offers[RestingId]
           filled == OrdersAfterFill("FILLED")
           slice == NextSlice(Resting)
<1>1. /\ MoreToMatch /\ RestingIsFilled /\ HasHidden /\ orders' = Append(filled, slice)
      /\ orderIndex' = (orderIndex \ {RestingId}) \cup {NewId} /\ incoming' = incoming
  BY DEF ReplenishResting
<1>2. /\ filled \in Seq(Order) /\ Len(filled) = Len(orders)
      /\ filled[incoming] = WithFill(In, FillQty)
      /\ \A x \in orderIndex \ {RestingId} : filled[x] = orders[x]
  BY <1>1, ObjectsFilled DEF OrderStatus
<1>3. /\ Resting \in Order /\ OrderSound(Resting) /\ RestingId \in orderIndex
      /\ FillQty \in Nat /\ FillQty <= Remaining(Resting)
      /\ incoming \in 1..Len(orders) /\ Len(orders) \in Nat
  BY <1>1, MatchFacts
<1>4. /\ Resting.type = "ICEBERG" /\ Resting.displayQty > 0 /\ Resting.hiddenQty > 0
  BY <1>1, <1>3 DEF HasHidden, OrderSound
<1>5. slice \in Order
  BY <1>3, <1>4, SliceFields
<1> HIDE DEF filled, slice
<1>6. /\ Len(orders') = Len(orders) + 1 /\ orders'[NewId] = slice
      /\ \A x \in 1..Len(orders) : orders'[x] = filled[x]
  BY <1>1, <1>2, <1>5, OrderAppended DEF NewId
<1>7. orders'[incoming] = WithFill(In, FillQty)
  BY <1>2, <1>3, <1>6
<1>8. \A x \in orderIndex \ {RestingId, NewId} : orders'[x] = orders[x]
  BY <1>2, <1>6 DEF Inv, TypeOK
<1>9. Offers' = Abstract!With(Abstract!Without(Offers, RestingId), NewId, OfferOf(slice))
  BY <1>1, <1>6, <1>8, OfferReplaced
<1>10. /\ offer.left = Remaining(Resting) /\ offer.hidden = Resting.hiddenQty
       /\ offer.side = Resting.side /\ offer.price = Resting.price
  BY <1>3, <1>4, OfferFields DEF Resting
<1>11. FillQty = offer.left
  BY <1>1, <1>3, <1>10, OrderFields DEF RestingIsFilled, Remaining
<1>12. PICK size \in 1..Resting.hiddenQty :
         OfferOf(slice) = [side |-> Resting.side, price |-> Resting.price, left |-> size,
                           hidden |-> Resting.hiddenQty - size]
  BY <1>3, <1>4, OfferRefilled DEF slice
<1>13. /\ Matching # Abstract!Nobody /\ Matching.left > 0
       /\ RestingId \in DOMAIN Offers
       /\ Abstract!IsFirst(RestingId) /\ Abstract!Acceptable(RestingId)
       /\ FillQty = Abstract!Smaller(Matching.left, offer.left)
       /\ Matching' = [Matching EXCEPT !.left = @ - FillQty]
  BY <1>1, <1>7, HeadIsTaken
<1> HIDE DEF offer
<1>14. \E k \in 1..offer.hidden :
         Offers' = Abstract!With(Abstract!Without(Offers, RestingId), NewId,
                     [side |-> offer.side, price |-> offer.price, left |-> k,
                      hidden |-> offer.hidden - k])
  <2>1. size \in 1..offer.hidden
    BY <1>10
  <2> QED BY <1>9, <1>10, <1>12, <2>1
<1>15. Abstract!Take(RestingId)
  BY <1>6, <1>11, <1>13, <1>14 DEF Abstract!Take, offer, NewId
<1> QED BY <1>13, <1>15 DEF Abstract!Trading

-----------------------------------------------------------------------------
(* The end of a call, and cancellations.                                   *)

\* When the loops end, the taker is filled or accepts nothing that rests.
LEMMA TakerIsDone ==
  ASSUME Inv, Finished
  PROVE  Abstract!Done
<1>1. ~ Idle /\ ~ MoreToMatch
  BY DEF Finished
<1>2. In \in Order /\ OrderSound(In)
  BY <1>1, IncomingFacts
<1>3. /\ Matching # Abstract!Nobody
      /\ Matching.side = In.side /\ Matching.price = In.price
      /\ Matching.limited = (In.type = "LIMIT") /\ Matching.left = Remaining(In)
  BY <1>1, BusyTaker
<1>4. Remaining(In) \in Nat
  BY <1>2, OrderFields DEF OrderSound, Remaining
<1>5. CASE Remaining(In) = 0
  BY <1>3, <1>5 DEF Abstract!Done
<1>6. CASE Remaining(In) > 0
  <2> SUFFICES ASSUME NEW id \in orderIndex, Abstract!Acceptable(id)
               PROVE  FALSE
    BY <1>3, OffersDomain DEF Abstract!Done
  <2>1. Offers[id].side = orders[id].side /\ Offers[id].price = orders[id].price
    BY OfferFields
  <2>2. /\ orders[id].side = Opp
        /\ In.type = "LIMIT" => ~ Behind(In.side, In.price, orders[id].price)
    BY <1>3, <2>1
    DEF Abstract!Acceptable, Abstract!Opposite, Abstract!Behind, Opposite, Behind, Opp
  <2>3. CASE In.type = "LIMIT"
    BY <1>6, <2>2, <2>3, NothingLeftToCross
  <2>4. CASE In.type # "LIMIT"
    <3>1. levels[Opp] = << >>
      BY <1>1, <1>6, <2>4 DEF MoreToMatch, Crosses
    <3>2. Opp \in Side
      BY <1>2, OrderFields DEF Opp
    <3>3. Holds(levels[Opp], orders[id].price, id)
      BY <2>2, <3>2 DEF Inv, BookMatchesIndex
    <3> QED BY <3>1, <3>3 DEF Holds
  <2> QED BY <2>3, <2>4
<1> QED BY <1>4, <1>5, <1>6

\* A call that changes no more than a status, and returns.
LEMMA LeaveRefined ==
  ASSUME Inv, Finished, Return, orderIndex' = orderIndex,
         NEW status \in OrderStatus,
         orders' = orders \/ orders' = [orders EXCEPT ![incoming].status = status],
         In.type = "LIMIT" => Remaining(In) = 0
  PROVE  Abstract!Trading
<1>1. /\ ~ Idle /\ orders \in Seq(Order) /\ incoming \in 1..Len(orders)
      /\ incoming \notin orderIndex /\ In \in Order /\ Len(orders) \in Nat
  BY IncomingFacts DEF Finished
<1>2. orderIndex \subseteq 1..Len(orders)
  BY DEF Inv, TypeOK
<1>3. Len(orders') = Len(orders) /\ \A x \in orderIndex : orders'[x] = orders[x]
  <2>1. CASE orders' = orders
    BY <2>1
  <2>2. CASE orders' = [orders EXCEPT ![incoming].status = status]
    <3>1. orders' = [orders EXCEPT ![incoming] = WithStatus(In, status)]
      BY <2>2 DEF WithStatus, In
    <3>2. WithStatus(In, status) \in Order
      BY <1>1, StatusSet
    <3> QED BY <1>1, <1>2, <3>1, <3>2, OrderReplaced
  <2> QED BY <2>1, <2>2
<1>4. Offers' = Offers
  BY <1>3, SameOffers
<1>5. Matching' = Abstract!Nobody
  BY DEF Return, Matching, Idle, Abstract!Nobody
<1>6. Matching.limited = (In.type = "LIMIT") /\ Matching.left = Remaining(In)
  BY <1>1, BusyTaker
<1>7. Abstract!Done
  BY TakerIsDone
<1> QED
  BY <1>3, <1>4, <1>5, <1>6, <1>7 DEF Abstract!Trading, Abstract!Leave

LEMMA RestLimitRefined ==
  ASSUME Inv, RestLimit, Inv'
  PROVE  Abstract!Trading
<1> DEFINE status == IF In.filledQuantity > 0 THEN "PARTIALLY_FILLED" ELSE "OPEN"
<1>1. /\ Finished /\ Return /\ In.type = "LIMIT" /\ Remaining(In) > 0
      /\ orderIndex' = orderIndex \cup {incoming}
      /\ orders' = [orders EXCEPT ![incoming].status = status]
  BY DEF RestLimit
<1>2. /\ ~ Idle /\ orders \in Seq(Order) /\ incoming \in 1..Len(orders)
      /\ incoming \notin orderIndex /\ In \in Order /\ Len(orders) \in Nat
  BY <1>1, IncomingFacts DEF Finished
<1>3. status \in OrderStatus
  BY DEF OrderStatus
<1> HIDE DEF status
<1>4. /\ Len(orders') = Len(orders) /\ orders'[incoming] = WithStatus(In, status)
      /\ \A x \in orderIndex \ {incoming} : orders'[x] = orders[x]
  <2>1. orders' = [orders EXCEPT ![incoming] = WithStatus(In, status)]
    BY <1>1 DEF WithStatus, In
  <2>2. WithStatus(In, status) \in Order
    BY <1>2, <1>3, StatusSet
  <2> QED BY <1>2, <2>1, <2>2, OrderReplaced DEF Inv, TypeOK
<1>5. OfferOf(orders'[incoming]) = OfferOf(In)
  BY <1>2, <1>3, <1>4, OfferStatus
<1>6. Offers' = Abstract!With(Offers, incoming, OfferOf(In))
  BY <1>1, <1>4, <1>5, OfferWritten
<1>7. /\ Matching.id = incoming /\ Matching.side = In.side /\ Matching.price = In.price
      /\ Matching.limited /\ Matching.left = Remaining(In)
  BY <1>1, <1>2, BusyTaker
<1>8. OfferOf(In) = [side |-> Matching.side, price |-> Matching.price,
                     left |-> Matching.left, hidden |-> 0]
  BY <1>1, <1>7 DEF OfferOf
<1>9. Matching' = Abstract!Nobody
  BY <1>1 DEF Return, Matching, Idle, Abstract!Nobody
<1>10. Abstract!Done
  BY <1>1, TakerIsDone
<1> QED
  BY <1>1, <1>4, <1>6, <1>7, <1>8, <1>9, <1>10 DEF Abstract!Trading, Abstract!Rest

LEMMA CancelRefined ==
  ASSUME Inv, NEW id, CancelOrder(id)
  PROVE  Abstract!Trading
<1>1. /\ Idle /\ id \in orderIndex /\ orderIndex' = orderIndex \ {id}
      /\ orders' = [orders EXCEPT ![id].status = "CANCELLED"] /\ incoming' = incoming
  BY DEF CancelOrder
<1>2. orders \in Seq(Order) /\ orderIndex \subseteq 1..Len(orders) /\ orders[id] \in Order
  BY <1>1, OrderAt DEF Inv, TypeOK
<1>3. /\ Len(orders') = Len(orders)
      /\ \A x \in orderIndex \ {id} : orders'[x] = orders[x]
  <2>1. orders' = [orders EXCEPT ![id] = WithStatus(orders[id], "CANCELLED")]
    BY <1>1 DEF WithStatus
  <2>2. WithStatus(orders[id], "CANCELLED") \in Order
    BY <1>2, StatusSet DEF OrderStatus
  <2> QED BY <1>1, <1>2, <2>1, <2>2, OrderReplaced
<1>4. Offers' = Abstract!Without(Offers, id)
  BY <1>1, <1>3, OfferRemoved
<1>5. Matching = Abstract!Nobody /\ Matching' = Matching
  BY <1>1, IdleTaker DEF Matching, Idle
<1>6. Abstract!Withdraw(id)
  BY <1>3, <1>4, <1>5 DEF Abstract!Withdraw
<1> QED BY <1>1, <1>6, OffersDomain DEF Abstract!Trading

-----------------------------------------------------------------------------
(* The theorem.                                                            *)

\* Only promoted stop orders, which are MARKET orders, are handed to
\* matchMarketOrder: what it leaves unfilled would not rest anyway.
LEMMA MarketCallInit == Init => MarketCall
BY DEF Init, MarketCall

LEMMA MarketCallStep ==
  ASSUME Inv, MarketCall, [Next]_vars
  PROVE  MarketCall'
<1> SUFFICES ASSUME call' = "matchMarketOrder"
             PROVE  In'.type = "MARKET"
  BY DEF MarketCall
<1>1. ASSUME NEW r \in Requests, AddOrder(CreateOrder(r))
      PROVE  FALSE
  BY <1>1 DEF AddOrder, StartMatching, RejectFillOrKill, AddIceberg, Inv, TypeOK, Idle
<1>2. ASSUME NEW r \in Requests, HoldStop(CreateOrder(r))
      PROVE  FALSE
  BY <1>2 DEF HoldStop, Inv, TypeOK, Idle
<1>3. ASSUME NEW id \in 1..Len(orders), TriggerStop(id)
      PROVE  In'.type = "MARKET"
  <2>1. incoming' = id /\ orders' = [orders EXCEPT ![id] = Promoted(orders[id])]
    BY <1>3 DEF TriggerStop, MatchMarketOrder
  <2>2. orders \in Seq(Order) /\ orders[id] \in Order
    BY OrderAt DEF Inv, TypeOK
  <2>3. orders'[id] = Promoted(orders[id]) /\ Promoted(orders[id]).type = "MARKET"
    BY <2>1, <2>2, PromotedFields, OrderReplaced
  <2> QED BY <2>1, <2>3 DEF In
<1>4. ASSUME MatchStep
      PROVE  In'.type = "MARKET"
  <2>1. MoreToMatch /\ call' = call /\ incoming' = incoming
    BY <1>4 DEF MatchStep, FillResting, CompleteResting, ReplenishResting
  <2>2. /\ orders \in Seq(Order) /\ incoming \in 1..Len(orders) /\ In \in Order
        /\ FillQty \in Nat /\ Resting \in Order /\ OrderSound(Resting)
    BY <2>1, MatchFacts
  <2>3. ASSUME NEW status \in OrderStatus
        PROVE  /\ OrdersAfterFill(status) \in Seq(Order)
               /\ Len(OrdersAfterFill(status)) = Len(orders)
               /\ OrdersAfterFill(status)[incoming] = WithFill(In, FillQty)
    BY <2>1, ObjectsFilled
  <2>4. CASE orders' \in {OrdersAfterFill("FILLED"), OrdersAfterFill("PARTIALLY_FILLED")}
    <3>1. In' = WithFill(In, FillQty)
      BY <2>1, <2>3, <2>4 DEF In, OrderStatus
    <3> QED BY <2>1, <2>2, <3>1, FillAdded DEF SameTerms, MarketCall
  <2>5. CASE ReplenishResting
    <3>1. NextSlice(Resting) \in Order
      BY <2>2, <2>5, SliceFields DEF ReplenishResting, HasHidden, OrderSound
    <3>2. orders' = Append(OrdersAfterFill("FILLED"), NextSlice(Resting))
      BY <2>5 DEF ReplenishResting
    <3>3. orders'[incoming] = OrdersAfterFill("FILLED")[incoming]
      BY <2>2, <2>3, <3>1, <3>2, OrderAppended DEF OrderStatus
    <3>4. In' = WithFill(In, FillQty)
      BY <2>1, <2>3, <3>3 DEF In, OrderStatus
    <3> QED BY <2>1, <2>2, <3>4, FillAdded DEF SameTerms, MarketCall
  <2> QED BY <1>4, <2>4, <2>5 DEF MatchStep, FillResting, CompleteResting
<1>5. ASSUME Finish
      PROVE  FALSE
  BY <1>5 DEF Finish, FinishFilled, RestLimit, CancelRemainder, ReturnUnfilled, Return
<1>6. ASSUME NEW id, CancelOrder(id)
      PROVE  FALSE
  BY <1>6 DEF CancelOrder, Inv, TypeOK, Idle
<1>7. CASE UNCHANGED vars
  BY <1>7 DEF vars, MarketCall, In
<1> QED BY <1>1, <1>2, <1>3, <1>4, <1>5, <1>6, <1>7 DEF Next, Submit, Cancel

LEMMA FinishRefined ==
  ASSUME Inv, MarketCall, Finish, Inv'
  PROVE  Abstract!Trading
<1>1. CASE FinishFilled
  BY <1>1, LeaveRefined DEF FinishFilled, OrderStatus
<1>2. CASE RestLimit
  BY <1>2, RestLimitRefined
<1>3. CASE CancelRemainder
  BY <1>3, LeaveRefined DEF CancelRemainder, OrderStatus
<1>4. CASE ReturnUnfilled
  <2>1. In.type # "LIMIT"
    BY <1>4 DEF ReturnUnfilled, MarketCall
  <2> QED BY <1>4, <2>1, LeaveRefined DEF ReturnUnfilled, OrderStatus
<1> QED BY <1>1, <1>2, <1>3, <1>4 DEF Finish

LEMMA StepRefined ==
  ASSUME Inv, MarketCall, [Next]_vars
  PROVE  [Abstract!Trading]_Abstract!book
<1>0. Inv'
  BY InvStep
<1>1. ASSUME NEW r \in Requests, ~ IsStop(r), AddOrder(CreateOrder(r))
      PROVE  Abstract!Trading
  BY <1>0, <1>1, SubmitRefined
<1>2. ASSUME NEW r \in Requests, HoldStop(CreateOrder(r))
      PROVE  Abstract!Trading
  BY <1>2, HoldStopRefined
<1>3. ASSUME NEW id \in 1..Len(orders), TriggerStop(id)
      PROVE  Abstract!Trading
  BY <1>0, <1>3, TriggerStopRefined
<1>4. CASE MatchStep
  BY <1>4, FillRestingRefined, CompleteRestingRefined, ReplenishRestingRefined DEF MatchStep
<1>5. CASE Finish
  BY <1>0, <1>5, FinishRefined
<1>6. ASSUME NEW id, CancelOrder(id)
      PROVE  Abstract!Trading
  BY <1>6, CancelRefined
<1>7. CASE UNCHANGED vars
  <2>1. orders' = orders /\ orderIndex' = orderIndex /\ incoming' = incoming
    BY <1>7 DEF vars
  <2>2. Offers' = Offers
    BY <2>1, SameOffers
  <2>3. Matching' = Matching
    BY <2>1 DEF Matching, Idle, In
  <2> QED BY <2>1, <2>2, <2>3 DEF Abstract!book
<1> QED BY <1>1, <1>2, <1>3, <1>4, <1>5, <1>6, <1>7 DEF Next, Submit, Cancel

LEMMA EmptyAtFirst == Init => Abstract!Empty
<1> SUFFICES ASSUME Init PROVE Abstract!Empty
  OBVIOUS
<1>1. orders = << >> /\ orderIndex = {} /\ Idle
  BY DEF Init, Idle
<1>2. Matching = Abstract!Nobody
  BY <1>1, IdleTaker
<1>3. Offers = << >>
  BY <1>1 DEF Offers
<1>4. Len(orders) = 0
  BY <1>1
<1> QED BY <1>2, <1>3, <1>4 DEF Abstract!Empty

\* For every set of requests and any number of orders: whatever the levels, the
\* queues, the index and the early exits of the loops do, each step of the book is a
\* step of the abstract price-time book, or leaves it as it is.
THEOREM PriceTimeRefinement == Spec => ImplementsPriceTime
<1>1. Spec => []MarketCall
  <2>1. Inv /\ MarketCall /\ [Next]_vars => MarketCall'
    BY MarketCallStep
  <2> QED BY <2>1, MarketCallInit, Invariance, PTL DEF Spec
<1>2. Inv /\ MarketCall /\ [Next]_vars => [Abstract!Trading]_Abstract!book
  BY StepRefined
<1> QED
  BY <1>1, <1>2, EmptyAtFirst, Invariance, PTL
  DEF Spec, ImplementsPriceTime, Abstract!PriceTimeSpec

=============================================================================
