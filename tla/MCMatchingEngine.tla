-------------------------- MODULE MCMatchingEngine --------------------------
(***************************************************************************)
(* An iceberg on one side, orders at two prices on the other, takers that   *)
(* sweep more than one of them, and stops on both sides that may fire on   *)
(* the same tick.                                                          *)
(***************************************************************************)
EXTENDS MatchingEngine

Req(side, type, price, quantity) ==
  [side |-> side, type |-> type, price |-> price, quantity |-> quantity,
   displayQty |-> 0]

MCRequests ==
  {Req("SELL", "LIMIT", 2, 1), Req("SELL", "LIMIT", 4, 1),
   Req("BUY", "ICEBERG", 1, 2),
   Req("BUY", "MARKET", 0, 2), Req("SELL", "MARKET", 0, 2),
   Req("SELL", "STOP_LOSS", 0, 1), Req("BUY", "TRAILING_STOP", 0, 2)}

MCStopPrices == {3}
MCDeltas == {1}
=============================================================================
