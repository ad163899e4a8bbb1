-------------------------- MODULE MCMarketMakerBot --------------------------
(* Values for the constants of MarketMakerBot.                             *)
EXTENDS MarketMakerBot

Limit(user, side, price, quantity) ==
  [side |-> side, type |-> "LIMIT", price |-> price, quantity |-> quantity,
   userId |-> user]

MCPrices == {1, 2}
MCQuotes == {Limit("market maker", "SELL", 2, 2)}
MCUserRequests == {Limit("user", "BUY", 2, 1)}
Replace == [replace |-> 1, cross |-> FALSE]
Cross == [replace |-> 0, cross |-> TRUE]
MCPlans == <<{Replace}, {Replace, Cross}>>
MCOnePlan == <<{Replace}>>
=============================================================================
