------------------------- MODULE MCTriggerRegistry -------------------------
(* Two symbols, so that one must not disturb the other; prices wide enough   *)
(* for a trailing stop to move twice before it fires.                        *)
EXTENDS TriggerRegistry

MCSymbols == {"BTC-USD", "ETH-USD"}
MCStopPrices == {1, 3}
MCDeltas == {NoDelta, -1, 1}
MCTickPrices == 1..4
=============================================================================
