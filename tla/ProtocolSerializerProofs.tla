---------------------- MODULE ProtocolSerializerProofs ----------------------
(***************************************************************************)
(* What the codecs of ProtocolSerializer give back, for every value: each  *)
(* decoder undoes its encoder, and the fixed-layout codec does so exactly  *)
(* for the orders whose Decimals a double can carry.                       *)
(***************************************************************************)
EXTENDS ProtocolSerializer, TLAPS

\* An order, a trade, a list of trades: which fields they have, whatever the values.
IsOrder(o) == o = [f \in OrderFields |-> o[f]]
IsTrade(t) == t = [f \in TradePlain \cup TradeDecimals |-> t[f]]
IsTradeList(list) ==
  list = [i \in DOMAIN list |-> list[i]] /\ \A i \in DOMAIN list : IsTrade(list[i])

LEMMA DecimalText == \A d : ToDecimal(Text(d)) = d
BY DEF ToDecimal, Text, Absent

\* An order comes out of decodeOrder as it went into encodeOrder: no field is
\* missing from the schema, and no optional field appears or disappears.
THEOREM OrderRoundTrip ==
  ASSUME NEW o, IsOrder(o)
  PROVE  DecodeOrder(EncodeOrder(o)) = o
<1> DEFINE m == EncodeOrder(o)
<1>1. DOMAIN m = OrderFields \ {g \in OrderOptional : o[g] = Absent}
  BY DEF EncodeOrder, Fields, OrderMessage, OrderFields
<1>2. \A f \in DOMAIN m : m[f] = IF f \in OrderDecimals THEN Text(o[f]) ELSE o[f]
  BY DEF EncodeOrder, Fields, OrderMessage, OrderFields
<1> HIDE DEF m
<1>3. ASSUME NEW f \in OrderFields
      PROVE  DecodeOrder(m)[f] = o[f]
  <2>1. CASE f \in OrderDecimals
    <3>1. f \in DOMAIN m /\ m[f] = Text(o[f])
      BY <1>1, <1>2, <2>1 DEF OrderFields, OrderDecimals, OrderOptional
    <3>2. DecodeOrder(m)[f] = ToDecimal(m[f])
      BY <2>1, <3>1 DEF DecodeOrder, Field
    <3> QED BY <3>1, <3>2, DecimalText
  <2>2. CASE f \in OrderOptional
    BY <1>1, <1>2, <2>2
    DEF DecodeOrder, Field, OrderFields, OrderDecimals, OrderOptional, OrderPlain
  <2>3. CASE f \in OrderPlain
    BY <1>1, <1>2, <2>3
    DEF DecodeOrder, Field, OrderFields, OrderDecimals, OrderOptional, OrderPlain
  <2> QED BY <2>1, <2>2, <2>3 DEF OrderFields
<1>4. o = [f \in OrderFields |-> o[f]]
  BY DEF IsOrder
<1>5. DecodeOrder(m) = [f \in OrderFields |-> DecodeOrder(m)[f]]
  BY DEF DecodeOrder
<1> QED BY <1>3, <1>4, <1>5 DEF m

\* The same for trades, one and many, and for snapshots.
THEOREM TradeRoundTrip ==
  ASSUME NEW t, IsTrade(t)
  PROVE  DecodeTrade(EncodeTrade(t)) = t
<1> DEFINE m == EncodeTrade(t)
<1>1. DOMAIN m = TradePlain \cup TradeDecimals
  BY DEF EncodeTrade, Fields, TradeExecutionMessage
<1>2. \A f \in DOMAIN m : m[f] = IF f \in TradeDecimals THEN Text(t[f]) ELSE t[f]
  BY DEF EncodeTrade, Fields, TradeExecutionMessage
<1> HIDE DEF m
<1>3. ASSUME NEW f \in TradePlain \cup TradeDecimals
      PROVE  DecodeTrade(m)[f] = t[f]
  <2>1. DecodeTrade(m)[f] = IF f \in TradeDecimals THEN ToDecimal(m[f]) ELSE m[f]
    BY <1>1 DEF DecodeTrade, Field
  <2> QED BY <1>1, <1>2, <2>1, DecimalText
<1>4. t = [f \in TradePlain \cup TradeDecimals |-> t[f]]
  BY DEF IsTrade
<1>5. DecodeTrade(m) = [f \in TradePlain \cup TradeDecimals |-> DecodeTrade(m)[f]]
  BY DEF DecodeTrade
<1> QED BY <1>3, <1>4, <1>5 DEF m

LEMMA TradesRoundTrip ==
  ASSUME NEW trades, IsTradeList(trades)
  PROVE  DecodeTrades(EncodeTrades(trades)) = trades
<1>1. EncodeTrades(trades) = [i \in DOMAIN trades |-> EncodeTrade(trades[i])]
  BY DEF EncodeTrades
<1>2. DecodeTrades(EncodeTrades(trades)) = [i \in DOMAIN trades |-> DecodeTrade(EncodeTrade(trades[i]))]
  BY <1>1 DEF DecodeTrades
<1>3. \A i \in DOMAIN trades : DecodeTrade(EncodeTrade(trades[i])) = trades[i]
  BY TradeRoundTrip DEF IsTradeList
<1>4. trades = [i \in DOMAIN trades |-> trades[i]]
  BY DEF IsTradeList
<1> QED BY <1>2, <1>3, <1>4

IsSnapshot(s) == s = [f \in SnapshotMessage |-> s[f]]

LEMMA SnapshotRoundTrip ==
  ASSUME NEW s, IsSnapshot(s)
  PROVE  DecodeSnapshot(EncodeSnapshot(s)) = s
<1>1. DOMAIN s = SnapshotMessage
  BY DEF IsSnapshot
<1>2. EncodeSnapshot(s) = [f \in SnapshotMessage |-> s[f]]
  BY <1>1 DEF EncodeSnapshot, Fields
<1>3. DecodeSnapshot(EncodeSnapshot(s)) = [f \in SnapshotMessage |-> s[f]]
  BY <1>2 DEF DecodeSnapshot, Field
<1>4. s = [f \in SnapshotMessage |-> s[f]]
  BY DEF IsSnapshot
<1> QED BY <1>3, <1>4

-----------------------------------------------------------------------------
(* Commands and results.                                                   *)

IsCommand(cmd) ==
  /\ cmd = [correlationId |-> cmd.correlationId, action |-> cmd.action,
            symbol |-> cmd.symbol, order |-> cmd.order, orderId |-> cmd.orderId,
            depth |-> cmd.depth]
  /\ cmd.order = Absent \/ \E o : IsOrder(o) /\ cmd.order = <<o>>
  /\ cmd.depth \in Optional(Nat \ {0})

IsResult(res) ==
  /\ res = [correlationId |-> res.correlationId, success |-> res.success,
            error |-> res.error, trades |-> res.trades, order |-> res.order,
            snapshot |-> res.snapshot]
  /\ res.trades = Absent \/ \E list : IsTradeList(list) /\ res.trades = <<list>>
  /\ res.order = Absent \/ \E o : IsOrder(o) /\ res.order = <<o>>
  /\ res.snapshot = Absent \/ \E s : IsSnapshot(s) /\ res.snapshot = <<s>>

\* The worker reads the command that the router wrote; the only value the wire
\* cannot carry is a depth of 0.
THEOREM CommandRoundTrip ==
  ASSUME NEW cmd, IsCommand(cmd)
  PROVE  DecodeCommand(EncodeCommand(cmd)) = cmd
<1> DEFINE m == EncodeCommand(cmd)
<1>1. DOMAIN m = CommandMessage \ {g \in {"order"} : cmd.order = Absent}
  BY DEF EncodeCommand, Fields, CommandMessage
<1>2. "order" \in DOMAIN m => m.order = EncodeOrder(cmd.order[1])
  BY DEF EncodeCommand, Fields, CommandMessage
<1>3. m.depth = ToDecimal(cmd.depth)
  BY DEF EncodeCommand, Fields, CommandMessage
<1>4. /\ m.correlationId = cmd.correlationId /\ m.action = cmd.action
      /\ m.symbol = cmd.symbol /\ m.orderId = cmd.orderId
  BY DEF EncodeCommand, Fields, CommandMessage
<1>5. {"correlationId", "action", "symbol", "orderId", "depth"} \subseteq DOMAIN m
  BY <1>1 DEF CommandMessage
<1>6. "order" \in DOMAIN m <=> cmd.order # Absent
  BY <1>1 DEF CommandMessage
<1> HIDE DEF m
<1> DEFINE r == DecodeCommand(m)
<1>7. /\ r.correlationId = cmd.correlationId /\ r.action = cmd.action
      /\ r.symbol = cmd.symbol /\ r.orderId = cmd.orderId
  BY <1>4, <1>5 DEF DecodeCommand, Field
<1>8. r.depth = cmd.depth
  <2>1. r.depth = IF m.depth = 0 THEN Absent ELSE <<m.depth>>
    BY <1>5 DEF DecodeCommand, Field
  <2>2. cmd.depth \in Optional(Nat \ {0})
    BY DEF IsCommand
  <2>3. CASE cmd.depth = Absent
    BY <1>3, <2>1, <2>3 DEF ToDecimal
  <2>4. CASE \E d \in Nat \ {0} : cmd.depth = <<d>>
    BY <1>3, <2>1, <2>4 DEF ToDecimal, Absent
  <2> QED BY <2>2, <2>3, <2>4 DEF Optional
<1>9. r.order = cmd.order
  <2>1. cmd.order = Absent \/ \E o : IsOrder(o) /\ cmd.order = <<o>>
    BY DEF IsCommand
  <2>2. CASE cmd.order = Absent
    BY <1>6, <2>2 DEF DecodeCommand
  <2>3. ASSUME NEW o, IsOrder(o), cmd.order = <<o>>
        PROVE  r.order = cmd.order
    <3>1. "order" \in DOMAIN m /\ m.order = EncodeOrder(o)
      BY <1>2, <1>6, <2>3 DEF Absent
    <3>2. r.order = <<DecodeOrder(m.order)>>
      BY <3>1 DEF DecodeCommand
    <3> QED BY <2>3, <3>1, <3>2, OrderRoundTrip
  <2> QED BY <2>1, <2>2, <2>3
<1>10. /\ r = [correlationId |-> r.correlationId, action |-> r.action, symbol |-> r.symbol,
               orderId |-> r.orderId, depth |-> r.depth, order |-> r.order]
  BY DEF DecodeCommand
<1> HIDE DEF r
<1>11. cmd = [correlationId |-> cmd.correlationId, action |-> cmd.action, symbol |-> cmd.symbol,
              orderId |-> cmd.orderId, depth |-> cmd.depth, order |-> cmd.order]
  BY DEF IsCommand
<1> QED BY <1>7, <1>8, <1>9, <1>10, <1>11 DEF r, m

\* The result as the router sees it: a result without trades has no trades.
AsReceived(res) == IF res.trades = Absent THEN [res EXCEPT !.trades = << << >> >>] ELSE res

\* The router reads the result that the worker wrote, with the fills of every
\* trade, and an empty list where the worker had none.
THEOREM ResultRoundTrip ==
  ASSUME NEW res, IsResult(res)
  PROVE  DecodeResult(EncodeResult(res)) = AsReceived(res)
<1> DEFINE m == EncodeResult(res)
<1>1. DOMAIN m = ResultMessage \ {g \in {"order", "snapshot"} : res[g] = Absent}
  BY DEF EncodeResult, Fields, ResultMessage
<1>2. "order" \in DOMAIN m => m.order = EncodeOrder(res.order[1])
  BY DEF EncodeResult, Fields, ResultMessage
<1>3. "snapshot" \in DOMAIN m => m.snapshot = EncodeSnapshot(res.snapshot[1])
  BY DEF EncodeResult, Fields, ResultMessage
<1>4. m.trades = IF res.trades = Absent THEN << >> ELSE EncodeTrades(res.trades[1])
  BY DEF EncodeResult, Fields, ResultMessage
<1>5. /\ m.correlationId = res.correlationId
      /\ m.success = res.success /\ m.error = res.error
  BY DEF EncodeResult, Fields, ResultMessage
<1>6. {"correlationId", "success", "trades", "error"} \subseteq DOMAIN m
  BY <1>1 DEF ResultMessage
<1>7. /\ "order" \in DOMAIN m <=> res.order # Absent
      /\ "snapshot" \in DOMAIN m <=> res.snapshot # Absent
  BY <1>1 DEF ResultMessage
<1> HIDE DEF m
<1> DEFINE r == DecodeResult(m)
<1>8. /\ r.correlationId = res.correlationId
      /\ r.success = res.success /\ r.error = res.error
  BY <1>5, <1>6 DEF DecodeResult, Field
<1>9. r.order = res.order
  <2>1. res.order = Absent \/ \E o : IsOrder(o) /\ res.order = <<o>>
    BY DEF IsResult
  <2>2. CASE res.order = Absent
    BY <1>7, <2>2 DEF DecodeResult
  <2>3. ASSUME NEW o, IsOrder(o), res.order = <<o>>
        PROVE  r.order = res.order
    <3>1. "order" \in DOMAIN m /\ m.order = EncodeOrder(o)
      BY <1>2, <1>7, <2>3 DEF Absent
    <3>2. r.order = <<DecodeOrder(m.order)>>
      BY <3>1 DEF DecodeResult
    <3> QED BY <2>3, <3>1, <3>2, OrderRoundTrip
  <2> QED BY <2>1, <2>2, <2>3
<1>10. r.snapshot = res.snapshot
  <2>1. res.snapshot = Absent \/ \E s : IsSnapshot(s) /\ res.snapshot = <<s>>
    BY DEF IsResult
  <2>2. CASE res.snapshot = Absent
    BY <1>7, <2>2 DEF DecodeResult
  <2>3. ASSUME NEW s, IsSnapshot(s), res.snapshot = <<s>>
        PROVE  r.snapshot = res.snapshot
    <3>1. "snapshot" \in DOMAIN m /\ m.snapshot = EncodeSnapshot(s)
      BY <1>3, <1>7, <2>3 DEF Absent
    <3>2. r.snapshot = <<DecodeSnapshot(m.snapshot)>>
      BY <3>1 DEF DecodeResult
    <3> QED BY <2>3, <3>1, <3>2, SnapshotRoundTrip
  <2> QED BY <2>1, <2>2, <2>3
<1>11. r.trades = IF res.trades = Absent THEN << << >> >> ELSE res.trades
  <2>1. r.trades = <<DecodeTrades(m.trades)>>
    BY <1>6 DEF DecodeResult, Field
  <2>2. res.trades = Absent \/ \E list : IsTradeList(list) /\ res.trades = <<list>>
    BY DEF IsResult
  <2>3. CASE res.trades = Absent
    BY <1>4, <2>1, <2>3 DEF DecodeTrades
  <2>4. ASSUME NEW ts, IsTradeList(ts), res.trades = <<ts>>
        PROVE  r.trades = res.trades /\ res.trades # Absent
    <3>1. res.trades # Absent
      BY <2>4 DEF Absent
    <3>2. m.trades = EncodeTrades(ts)
      BY <1>4, <2>4, <3>1
    <3> QED BY <2>1, <2>4, <3>1, <3>2, TradesRoundTrip
  <2> QED BY <2>2, <2>3, <2>4
<1>12. r = [correlationId |-> r.correlationId, success |-> r.success, error |-> r.error,
            trades |-> r.trades, order |-> r.order, snapshot |-> r.snapshot]
  BY DEF DecodeResult
<1> HIDE DEF r
<1>13. res = [correlationId |-> res.correlationId, success |-> res.success,
              error |-> res.error, trades |-> res.trades, order |-> res.order,
              snapshot |-> res.snapshot]
  BY DEF IsResult
<1> QED BY <1>8, <1>9, <1>10, <1>11, <1>12, <1>13 DEF r, m, AsReceived

-----------------------------------------------------------------------------
(* The fixed-layout codec.                                                 *)

\* The values that types.ts gives to the fields that are not names.
IsTyped(o) ==
  /\ o.side \in Side /\ o.type \in OrderType /\ o.status \in OrderStatus
  /\ \A f \in OrderDecimals : o[f] \in Nat
  /\ \A f \in OrderOptional : o[f] \in Optional(Nat)

Exact(d) == d <= MaxExact \/ d % 2 = 0

LEMMA ExactKept ==
  ASSUME NEW d \in Nat, Exact(d)
  PROVE  ToNumber(d) = d
BY MaxExactAssumption DEF Exact, ToNumber

LEMMA TypeRoundTrip == \A t \in OrderType : TypeEnum[TypeMap[t] + 1] = t
BY DEF OrderType, TypeEnum, TypeMap

LEMMA StatusRoundTrip == \A s \in OrderStatus : StatusEnum[StatusMap[s] + 1] = s
BY DEF OrderStatus, StatusEnum, StatusMap

\* The four flags share one byte and each keeps its own bit.
LEMMA FlagsKept ==
  ASSUME NEW o, NEW f \in OrderOptional
  PROVE  (Flags(o) \div FlagBit[f]) % 2 = IF o[f] = Absent THEN 0 ELSE 1
<1> DEFINE a == IF o.stopPrice = Absent THEN 0 ELSE 1
           b == IF o.displayQty = Absent THEN 0 ELSE 1
           c == IF o.hiddenQty = Absent THEN 0 ELSE 1
           d == IF o.trailingDelta = Absent THEN 0 ELSE 1
<1>1. Flags(o) = a + 2 * b + 4 * c + 8 * d
  BY DEF Flags, FlagBit
<1>2. a \in {0, 1} /\ b \in {0, 1} /\ c \in {0, 1} /\ d \in {0, 1}
  OBVIOUS
<1> HIDE DEF a, b, c, d
<1> DEFINE n == a + 2 * b + 4 * c + 8 * d
<1>3. /\ (n \div 1) % 2 = a /\ (n \div 2) % 2 = b
      /\ (n \div 4) % 2 = c /\ (n \div 8) % 2 = d
  BY <1>2
<1> HIDE DEF n
<1>4. Flags(o) = n
  BY <1>1 DEF n
<1>5. CASE f = "stopPrice"
  BY <1>3, <1>4, <1>5 DEF FlagBit, a
<1>6. CASE f = "displayQty"
  BY <1>3, <1>4, <1>6 DEF FlagBit, b
<1>7. CASE f = "hiddenQty"
  BY <1>3, <1>4, <1>7 DEF FlagBit, c
<1>8. CASE f = "trailingDelta"
  BY <1>3, <1>4, <1>8 DEF FlagBit, d
<1> QED BY <1>5, <1>6, <1>7, <1>8 DEF OrderOptional

\* An order packed into a buffer is read back unchanged as long as a double
\* can carry its price and quantities: the one way pack() loses something.
THEOREM ZeroCopyRoundTrip ==
  ASSUME NEW o, IsOrder(o), IsTyped(o),
         \A f \in OrderDecimals : Exact(o[f]),
         \A f \in OrderOptional : Exact(ToDecimal(o[f]))
  PROVE  Unpack(Pack(o)) = o
<1> DEFINE b == Pack(o)
<1>1. /\ b.side = IF o.side = "BUY" THEN 0 ELSE 1
      /\ b.type = TypeMap[o.type]
      /\ b.status = StatusMap[o.status]
      /\ b.flags = Flags(o)
  <2> HIDE DEF Flags
  <2> QED BY DEF Pack, OrderFields, OrderPlain, OrderDecimals, OrderOptional
<1>2. /\ \A f \in OrderDecimals : b[f] = ToNumber(o[f])
      /\ \A f \in OrderOptional : b[f] = ToNumber(ToDecimal(o[f]))
      /\ \A f \in OrderPlain \ {"side", "type", "status"} : b[f] = o[f]
  BY DEF Pack, OrderFields, OrderPlain, OrderDecimals, OrderOptional
<1> HIDE DEF b
<1> DEFINE r == Unpack(b)
<1>u. /\ r.side = IF b.side = 0 THEN "BUY" ELSE "SELL"
      /\ r.type = TypeEnum[b.type + 1]
      /\ r.status = StatusEnum[b.status + 1]
      /\ \A f \in OrderOptional :
           r[f] = IF (b.flags \div FlagBit[f]) % 2 = 1 THEN Text(b[f]) ELSE Absent
      /\ \A f \in OrderDecimals \cup (OrderPlain \ {"side", "type", "status"}) : r[f] = b[f]
  BY DEF Unpack, OrderFields, OrderPlain, OrderDecimals, OrderOptional
<1>r. r = [f \in OrderFields |-> r[f]]
  BY DEF Unpack
<1> HIDE DEF r
<1>3. ASSUME NEW f \in OrderFields
      PROVE  r[f] = o[f]
  <2>1. CASE f = "side"
    <3>1. o.side \in {"BUY", "SELL"}
      BY DEF IsTyped, Side
    <3> QED BY <1>1, <1>u, <2>1, <3>1
  <2>2. CASE f = "type"
    <3>1. o.type \in OrderType
      BY DEF IsTyped
    <3> QED BY <1>1, <1>u, <2>2, <3>1, TypeRoundTrip
  <2>3. CASE f = "status"
    <3>1. o.status \in OrderStatus
      BY DEF IsTyped
    <3> QED BY <1>1, <1>u, <2>3, <3>1, StatusRoundTrip
  <2>4. CASE f \in OrderDecimals
    <3>1. o[f] \in Nat
      BY <2>4 DEF IsTyped
    <3>2. b[f] = o[f]
      BY <1>2, <2>4, <3>1, ExactKept
    <3> QED BY <1>u, <2>4, <3>2
  <2>5. CASE f \in OrderOptional
    <3>1. b[f] = ToNumber(ToDecimal(o[f]))
      BY <1>2, <2>5
    <3>2. o[f] \in Optional(Nat)
      BY <2>5 DEF IsTyped
    <3>3. r[f] = IF (b.flags \div FlagBit[f]) % 2 = 1 THEN Text(b[f]) ELSE Absent
      BY <1>u, <2>5
    <3>4. r[f] = IF o[f] = Absent THEN Absent ELSE Text(b[f])
      BY <1>1, <2>5, <3>3, FlagsKept
    <3>5. ASSUME NEW d \in Nat, o[f] = <<d>>
          PROVE  r[f] = o[f]
      <4>1. ToDecimal(o[f]) = d /\ o[f] # Absent
        BY <3>5 DEF ToDecimal, Absent
      <4>2. Exact(d)
        BY <2>5, <4>1
      <4>3. b[f] = d
        BY <3>1, <4>1, <4>2, ExactKept
      <4> QED BY <3>4, <3>5, <4>1, <4>3 DEF Text
    <3> QED BY <3>2, <3>4, <3>5 DEF Optional
  <2>6. CASE f \in OrderPlain \ {"side", "type", "status"}
    BY <1>2, <1>u, <2>6
  <2> QED BY <2>1, <2>2, <2>3, <2>4, <2>5, <2>6 DEF OrderFields
<1>4. o = [f \in OrderFields |-> o[f]]
  BY DEF IsOrder
<1> QED BY <1>3, <1>4, <1>r DEF r, b

=============================================================================
