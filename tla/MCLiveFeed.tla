----------------------------- MODULE MCLiveFeed -----------------------------
(* Two symbols, one account, sessions of two trades, a tape of two.        *)
EXTENDS LiveFeed

MCSymbols == {"BTC-INR", "ETH-INR"}
MCUsers == {"", "alice"}
MCSpeeds == {1000}
MCLimits == {2}

MCBudgets ==
  {[calls |-> 3, trades |-> 0, changes |-> 0, cuts |-> 0],
   [calls |-> 1, trades |-> 0, changes |-> 0, cuts |-> 1],
   [calls |-> 1, trades |-> 0, changes |-> 1, cuts |-> 0],
   [calls |-> 0, trades |-> 1, changes |-> 1, cuts |-> 1],
   [calls |-> 0, trades |-> 1, changes |-> 2, cuts |-> 0],
   [calls |-> 0, trades |-> 1, changes |-> 0, cuts |-> 2]}
=============================================================================
