---------------------------- MODULE MCOrderBook ----------------------------
(***************************************************************************)
(* A book small enough for TLC.  Three limit prices let a level open       *)
(* between two others; the quantities leave partial fills on both sides;   *)
(* one iceberg is refilled twice, the last slice of the other is smaller.  *)
(***************************************************************************)
EXTENDS OrderBook

Req(side, type, price, quantity) ==
  [side |-> side, type |-> type, price |-> price, quantity |-> quantity,
   displayQty |-> 0]

MCRequests ==
  {Req(side, "LIMIT", price, 1) : side \in Side, price \in 1..3}
  \union {Req("BUY", "LIMIT", price, 2) : price \in 1..2}
  \union {Req("SELL", "LIMIT", 2, 2)}
  \union {[Req("BUY", "ICEBERG", 2, 3) EXCEPT !.displayQty = 2],
          Req("SELL", "ICEBERG", 1, 3)}
  \union {Req(side, "MARKET", 0, 2) : side \in Side}
  \union {Req(side, "FILL_OR_KILL", 0, 2) : side \in Side}
  \union {Req("SELL", "STOP_LOSS", 0, 2)}
=============================================================================
