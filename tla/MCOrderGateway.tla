--------------------------- MODULE MCOrderGateway ---------------------------
(***************************************************************************)
(* Two clients, prices that leave something of a limit unspent, a taker    *)
(* larger than a maker, a stop that a trade of somebody else fires.        *)
(***************************************************************************)
EXTENDS OrderGateway

CONSTANTS alice, bob

Req(side, type, price, quantity, displayQty) ==
  [side |-> side, type |-> type, price |-> price, quantity |-> quantity,
   displayQty |-> displayQty]

MCUsers == {alice, bob}
ClientSymmetry == Permutations(MCUsers)

\* What the clients start with: not enough for every order they may place.
MCInitial == [quote |-> 50, base |-> 2]

MixedRequests ==
  {Req("BUY", "LIMIT", 20, 2, 0), Req("SELL", "MARKET", 0, 1, 0),
   Req("SELL", "STOP_LOSS", 0, 2, 0)}

LimitRequests ==
  {Req("SELL", "LIMIT", 10, 1, 0), Req("SELL", "LIMIT", 20, 2, 0),
   Req("BUY", "LIMIT", 20, 1, 0), Req("BUY", "LIMIT", 20, 2, 0)}

\* LIMIT orders beside an iceberg, whose later slices do not settle.
SettledRequests ==
  {Req("SELL", "LIMIT", 10, 1, 0), Req("SELL", "ICEBERG", 10, 2, 0),
   Req("BUY", "LIMIT", 20, 2, 0)}

CancelRequests ==
  {Req("SELL", "LIMIT", 10, 1, 0), Req("BUY", "LIMIT", 10, 1, 0)}

IcebergRequests ==
  {Req("SELL", "ICEBERG", 10, 2, 1), Req("BUY", "LIMIT", 10, 2, 0)}

MCStopPrices == {20}
MCDeltas == {NoDelta}
MCDisplays == {0, -1}
NoDeletes == {}
=============================================================================
