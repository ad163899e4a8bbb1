------------------------- MODULE ProtocolSerializer -------------------------
(***************************************************************************)
(* packages/engine/src/serialization/ProtocolSerializer.ts: the messages   *)
(* between the gateway and an engine worker, and the fixed-layout codec.   *)
(*                                                                         *)
(* A protobuf message is the function of the fields that were written: a   *)
(* field the schema does not declare is not sent, and a field that was not *)
(* written is read as the default of its type.  A Decimal travels as text; *)
(* Text(d) is its text and Absent is '', which is also how a value that is *)
(* optional in types.ts is written here: Absent, or a sequence of one.     *)
(***************************************************************************)
EXTENDS BookOps

CONSTANT MaxExact    \* up to here toNumber() keeps every digit of a Decimal

ASSUME MaxExactAssumption == MaxExact \in Nat

Absent == << >>
Text(d) == <<d>>
Optional(S) == {Absent} \cup {<<v>> : v \in S}

\* new Decimal(text || '0')
ToDecimal(text) == IF text = Absent THEN 0 ELSE text[1]

Fields(m, names) == [f \in names \cap DOMAIN m |-> m[f]]
Field(m, f, default) == IF f \in DOMAIN m THEN m[f] ELSE default

-----------------------------------------------------------------------------
(* Orders.                                                                 *)

OrderPlain == {"id", "userId", "symbol", "side", "type", "status", "timestamp"}
OrderDecimals == {"price", "quantity", "filledQuantity"}
OrderOptional == {"stopPrice", "trailingDelta", "displayQty", "hiddenQty"}
OrderFields == OrderPlain \cup OrderDecimals \cup OrderOptional

OrderMessage == OrderFields

EncodeOrder(o) ==
  Fields([f \in OrderFields \ {g \in OrderOptional : o[g] = Absent} |->
            IF f \in OrderDecimals THEN Text(o[f]) ELSE o[f]], OrderMessage)

DecodeOrder(m) ==
  [f \in OrderFields |->
     IF f \in OrderDecimals THEN ToDecimal(Field(m, f, Absent))
     ELSE IF f \in OrderOptional THEN Field(m, f, Absent)
     ELSE Field(m, f, IF f = "timestamp" THEN 0 ELSE "")]

-----------------------------------------------------------------------------
(* Trades, one at a time and in lists.                                     *)

TradePlain == {"tradeId", "symbol", "buyOrderId", "sellOrderId", "buyerId",
               "sellerId", "timestamp"}
TradeDecimals == {"price", "quantity"}
TradeExecutionMessage == TradePlain \cup TradeDecimals

EncodeTrade(t) ==
  Fields([f \in TradePlain \cup TradeDecimals |->
            IF f \in TradeDecimals THEN Text(t[f]) ELSE t[f]], TradeExecutionMessage)

DecodeTrade(m) ==
  [f \in TradePlain \cup TradeDecimals |->
     IF f \in TradeDecimals THEN ToDecimal(Field(m, f, Absent))
     ELSE Field(m, f, IF f = "timestamp" THEN 0 ELSE "")]

EncodeTrades(trades) == [i \in DOMAIN trades |-> EncodeTrade(trades[i])]
DecodeTrades(list) == [i \in DOMAIN list |-> DecodeTrade(list[i])]

-----------------------------------------------------------------------------
(* Snapshots.  The levels are strings on both sides and pass as they are.  *)

SnapshotMessage == {"symbol", "bids", "asks", "spread", "midPrice", "timestamp"}

EncodeSnapshot(s) == Fields(s, SnapshotMessage)

DecodeSnapshot(m) ==
  [f \in SnapshotMessage |->
     Field(m, f, CASE f = "symbol" -> ""
                   [] f = "timestamp" -> 0
                   [] OTHER -> << >>)]

-----------------------------------------------------------------------------
(* Commands and results.  An order, a snapshot, an orderId, an error or a  *)
(* depth is optional; `trades` is read back as a list even when there was  *)
(* none, and a depth of 0 is read back as no depth.                        *)

CommandMessage == {"correlationId", "action", "symbol", "order", "orderId", "depth"}

EncodeCommand(cmd) ==
  Fields([f \in CommandMessage \ {g \in {"order"} : cmd.order = Absent} |->
            CASE f = "order" -> EncodeOrder(cmd.order[1])
              [] f = "depth" -> ToDecimal(cmd.depth)
              [] OTHER -> cmd[f]], CommandMessage)

DecodeCommand(m) ==
  [correlationId |-> Field(m, "correlationId", ""),
   action  |-> Field(m, "action", ""),
   symbol  |-> Field(m, "symbol", ""),
   orderId |-> Field(m, "orderId", Absent),
   depth   |-> IF Field(m, "depth", 0) = 0 THEN Absent ELSE <<m.depth>>,
   order   |-> IF "order" \in DOMAIN m THEN <<DecodeOrder(m.order)>> ELSE Absent]

ResultMessage == {"correlationId", "success", "trades", "order", "snapshot", "error"}

EncodeResult(res) ==
  Fields([f \in ResultMessage \ {g \in {"order", "snapshot"} : res[g] = Absent} |->
            CASE f = "order" -> EncodeOrder(res.order[1])
              [] f = "snapshot" -> EncodeSnapshot(res.snapshot[1])
              [] f = "trades" -> IF res.trades = Absent THEN << >>
                                 ELSE EncodeTrades(res.trades[1])
              [] OTHER -> res[f]], ResultMessage)

DecodeResult(m) ==
  [correlationId |-> Field(m, "correlationId", ""),
   success  |-> Field(m, "success", FALSE),
   error    |-> Field(m, "error", Absent),
   trades   |-> <<DecodeTrades(Field(m, "trades", << >>))>>,
   order    |-> IF "order" \in DOMAIN m THEN <<DecodeOrder(m.order)>> ELSE Absent,
   snapshot |-> IF "snapshot" \in DOMAIN m THEN <<DecodeSnapshot(m.snapshot)>>
                ELSE Absent]

-----------------------------------------------------------------------------
(* ZeroCopyOrderCodec: one byte for the side, the type, the status and the *)
(* flags of the optional fields, a double for every Decimal.  Ids are the  *)
(* 36 characters of a uuid and symbols shorter than 15, so nothing is cut. *)

TypeMap == [LIMIT |-> 0, MARKET |-> 1, STOP_LOSS |-> 2, ICEBERG |-> 3,
            TRAILING_STOP |-> 4, FILL_OR_KILL |-> 5]
TypeEnum == <<"LIMIT", "MARKET", "STOP_LOSS", "ICEBERG", "TRAILING_STOP", "FILL_OR_KILL">>
StatusMap == [PENDING |-> 0, OPEN |-> 1, PARTIALLY_FILLED |-> 2, FILLED |-> 3,
              CANCELLED |-> 4]
StatusEnum == <<"PENDING", "OPEN", "PARTIALLY_FILLED", "FILLED", "CANCELLED">>
FlagBit == [stopPrice |-> 1, displayQty |-> 2, hiddenQty |-> 4, trailingDelta |-> 8]

\* The double next to d: above MaxExact every second value is lost.
ToNumber(d) == IF d <= MaxExact THEN d ELSE 2 * (d \div 2)

Flags(o) ==
  LET Bit(f) == IF o[f] = Absent THEN 0 ELSE FlagBit[f]
  IN  Bit("stopPrice") + Bit("displayQty") + Bit("hiddenQty") + Bit("trailingDelta")

Pack(o) ==
  [f \in OrderFields \cup {"flags"} |->
     CASE f = "side" -> IF o.side = "BUY" THEN 0 ELSE 1
       [] f = "type" -> TypeMap[o.type]
       [] f = "status" -> StatusMap[o.status]
       [] f \in OrderDecimals -> ToNumber(o[f])
       [] f \in OrderOptional -> ToNumber(ToDecimal(o[f]))
       [] f = "flags" -> Flags(o)
       [] OTHER -> o[f]]

Unpack(b) ==
  [f \in OrderFields |->
     CASE f = "side" -> IF b.side = 0 THEN "BUY" ELSE "SELL"
       [] f = "type" -> TypeEnum[b.type + 1]
       [] f = "status" -> StatusEnum[b.status + 1]
       [] f \in OrderOptional -> IF (b.flags \div FlagBit[f]) % 2 = 1 THEN Text(b[f])
                                 ELSE Absent
       [] OTHER -> b[f]]

=============================================================================
