--------------------------- MODULE PriceTimeBook ---------------------------
(***************************************************************************)
(* What an order book promises, without levels, queues or an index: a set  *)
(* of resting offers, each with its side and price, known by an id that    *)
(* grows with arrival.  The one taker at a time takes from the first offer *)
(* of the other side, by price and then by arrival, for as long as there   *)
(* is one it accepts.  OrderBook is shown to implement this.               *)
(***************************************************************************)
EXTENDS BookOps

VARIABLES resting,   \* id -> offer
          taker,     \* the order that is being matched, or Nobody
          last       \* the id of the last order that arrived

book == <<resting, taker, last>>

Offer == [side: Side, price: Nat, left: Nat \ {0}, hidden: Nat]
Taker == [id: Nat, side: Side, price: Nat, limited: BOOLEAN, left: Nat]
Nobody == [id |-> 0, side |-> "BUY", price |-> 0, limited |-> FALSE, left |-> 0]

Empty ==
  /\ resting = << >>
  /\ taker = Nobody
  /\ last = 0

IsFirst(id) ==
  \A other \in DOMAIN resting \ {id} :
    resting[other].side = resting[id].side =>
      \/ Behind(resting[id].side, resting[other].price, resting[id].price)
      \/ resting[other].price = resting[id].price /\ id < other

Acceptable(id) ==
  /\ resting[id].side = Opposite(taker.side)
  /\ taker.limited => ~ Behind(taker.side, taker.price, resting[id].price)

Done == taker # Nobody /\ (taker.left = 0 \/ \A id \in DOMAIN resting : ~ Acceptable(id))

With(f, id, offer) == [i \in DOMAIN f \cup {id} |-> IF i = id THEN offer ELSE f[i]]
Without(f, id) == [i \in DOMAIN f \ {id} |-> f[i]]

-----------------------------------------------------------------------------

\* An order that never rests and is not matched now: refused, or held back.
Register == last' = last + 1 /\ UNCHANGED <<resting, taker>>

\* A new order, or one that was held back, begins to take.
Arrive ==
  /\ taker = Nobody
  /\ taker' \in Taker
  /\ taker'.id \in 1..last' /\ taker'.id \notin DOMAIN resting
  /\ last' = IF taker'.id > last THEN last + 1 ELSE last
  /\ UNCHANGED resting

\* An order that rests at once, whatever the other side is.
Admit ==
  /\ taker = Nobody
  /\ last' = last + 1
  /\ DOMAIN resting' = DOMAIN resting \cup {last'}
  /\ resting'[last'] \in Offer
  /\ resting' = With(resting, last', resting'[last'])
  /\ UNCHANGED taker

\* The offer keeps its place, is used up, or comes back behind all others of its
\* price with a part of what it hid.
Take(id) ==
  LET offer == resting[id]
      q == Smaller(taker.left, offer.left)
  IN  /\ taker # Nobody /\ taker.left > 0
      /\ IsFirst(id) /\ Acceptable(id)
      /\ taker' = [taker EXCEPT !.left = @ - q]
      /\ \/ /\ q < offer.left
            /\ resting' = With(resting, id, [offer EXCEPT !.left = @ - q])
            /\ UNCHANGED last
         \/ /\ q = offer.left /\ offer.hidden = 0
            /\ resting' = Without(resting, id)
            /\ UNCHANGED last
         \/ /\ q = offer.left
            /\ last' = last + 1
            /\ \E size \in 1..offer.hidden :
                 resting' = With(Without(resting, id), last',
                                 [side |-> offer.side, price |-> offer.price,
                                  left |-> size, hidden |-> offer.hidden - size])

\* A limited taker that is done with something left rests with that.
Rest ==
  /\ Done /\ taker.limited /\ taker.left > 0
  /\ resting' = With(resting, taker.id, [side |-> taker.side, price |-> taker.price,
                                         left |-> taker.left, hidden |-> 0])
  /\ taker' = Nobody
  /\ UNCHANGED last

Leave ==
  /\ Done /\ (taker.limited => taker.left = 0)
  /\ taker' = Nobody
  /\ UNCHANGED <<resting, last>>

Withdraw(id) ==
  /\ taker = Nobody
  /\ resting' = Without(resting, id)
  /\ UNCHANGED <<taker, last>>

Trading ==
  \/ Register \/ Arrive \/ Admit \/ Rest \/ Leave
  \/ \E id \in DOMAIN resting : Take(id) \/ Withdraw(id)

PriceTimeSpec == Empty /\ [][Trading]_book

=============================================================================
