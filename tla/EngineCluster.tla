--------------------------- MODULE EngineCluster ---------------------------
(***************************************************************************)
(* The clustered mode: packages/backend/src/services/EngineClusterRouter.ts *)
(* in the gateway process, packages/backend/src/workers/EngineWorker.ts in *)
(* the worker's, and the Redis pub/sub between them, for one symbol.       *)
(*                                                                         *)
(* Call c is the c-th submitOrder or cancelOrder of the router; c is its   *)
(* correlationId, and the id of the order it submits.  Redis keeps the     *)
(* messages of a connection in order and drops what nobody is subscribed   *)
(* to.  The worker's engine runs a command in one synchronous call, which  *)
(* OrderBook.tla takes apart; here it is price-time matching of LIMIT and  *)
(* MARKET orders as one function.                                          *)
(***************************************************************************)
EXTENDS ProtocolSerializer

CONSTANTS MaxFaults,   \* bound: lost messages, worker stops, failed publishes
          Prices       \* the prices orders are made at

ASSUME ClusterAssumption == MaxFaults \in Nat /\ Prices \subseteq Nat

\* f with x mapped to v.
Put(f, x, v) == [y \in DOMAIN f \cup {x} |-> IF y = x THEN v ELSE f[y]]

VARIABLES calls,            \* the router's calls, in the order they were made
          pendingRequests,  \* the calls that have a timer and can be answered
          gateway,          \* the gateway process is "up" or "crashed"
          snapshotCache,    \* the last snapshot received, if any
          toWorker,         \* engine:commands, published and not yet received
          toGateway,        \* snapshots and replies on their way back
          worker,           \* "listening", "stopping" or "down"
          incarnation,      \* how often the worker was started
          live,             \* every order the worker's engine was given
          resting,          \* the ids on its book; a smaller id arrived earlier
          handlers,         \* the worker's handlers that await a publish
          ran,              \* history: what the worker did for a call
          faults,           \* history: the faults so far
          lost              \* history: a snapshot was lost or never published

routerVars == <<calls, pendingRequests, gateway, snapshotCache>>
workerVars == <<worker, incarnation, live, resting, handlers, ran>>
clusterVars == <<calls, pendingRequests, gateway, snapshotCache, toWorker, toGateway,
                 worker, incarnation, live, resting, handlers, ran, faults, lost>>
faultVars == <<faults, lost>>

-----------------------------------------------------------------------------
(* Orders and calls.                                                       *)

CreateOrder(c, r) ==
  [id |-> c, userId |-> r.userId, symbol |-> "BTC-USD", side |-> r.side,
   type |-> r.type, status |-> "PENDING", timestamp |-> c, price |-> r.price,
   quantity |-> r.quantity, filledQuantity |-> 0, stopPrice |-> Absent,
   trailingDelta |-> Absent, displayQty |-> Absent, hiddenQty |-> Absent]

\* A call as its caller sees it: `order` is the caller's own object, `answer`
\* what the promise gave once the call is "done".
Call(action, order, orderId) ==
  [action |-> action, order |-> order, orderId |-> orderId, pc |-> "publishing",
   reply |-> Absent, answer |-> "none", trades |-> << >>]

Command(c, call) ==
  [correlationId |-> c, action |-> call.action, symbol |-> "BTC-USD",
   order |-> call.order, orderId |-> call.orderId, depth |-> Absent]

IsSubmit(call) == call.action = "SUBMIT_ORDER"

ClusterInit ==
  /\ calls = << >> /\ pendingRequests = {} /\ gateway = "up"
  /\ snapshotCache = Absent
  /\ toWorker = << >> /\ toGateway = << >>
  /\ worker = "listening" /\ incarnation = 1
  /\ live = << >> /\ resting = {} /\ handlers = {}
  /\ ran = << >> /\ faults = 0 /\ lost = FALSE

-----------------------------------------------------------------------------
(* The router.  A call arms its timer, publishes the command and awaits    *)
(* first the publish and then the answer.  An acknowledgement that is not  *)
(* there before anything else happens counts as a fault: Redis is slow or  *)
(* is being reconnected to.  So does a publish that Redis refuses.         *)

NextCall == Len(calls) + 1
Fault == faults < MaxFaults /\ faults' = faults + 1

\* The command as the catch block sends it, as JSON: JSON.parse leaves strings
\* where an order has Decimals, and the engine refuses it like one that is missing.
AsJson(cmd) == [cmd EXCEPT !.order = Absent]

\* Mutant: the timer is armed once the publish has been acknowledged.
SendUntimed(call) ==
  /\ gateway = "up"
  /\ calls' = Append(calls, call)
  /\ UNCHANGED pendingRequests
  /\ \/ /\ call.pc # "done"
        /\ toWorker' = Append(toWorker, EncodeCommand(Command(NextCall, call)))
        /\ IF call.pc = "publishing" THEN Fault ELSE UNCHANGED faults
     \/ /\ Fault /\ call.pc = "waiting"
        /\ toWorker' = Append(toWorker, EncodeCommand(AsJson(Command(NextCall, call))))
     \/ Fault /\ call.pc = "done" /\ UNCHANGED toWorker
  /\ UNCHANGED <<gateway, snapshotCache, toGateway, workerVars, lost>>

\* The publish succeeds, at once or later, or is refused and the catch block's
\* succeeds, or both are refused and the call throws, its timer still armed.
Send(call) ==
  /\ gateway = "up"
  /\ calls' = Append(calls, call)
  /\ pendingRequests' = pendingRequests \cup {NextCall}
  /\ \/ /\ call.pc # "done"
        /\ toWorker' = Append(toWorker, EncodeCommand(Command(NextCall, call)))
        /\ IF call.pc = "publishing" THEN Fault ELSE UNCHANGED faults
     \/ /\ Fault /\ call.pc = "waiting"
        /\ toWorker' = Append(toWorker, EncodeCommand(AsJson(Command(NextCall, call))))
     \/ Fault /\ call.pc = "done" /\ UNCHANGED toWorker
  /\ UNCHANGED <<gateway, snapshotCache, toGateway, workerVars, lost>>

Publish(call) ==
  \/ \E pc \in {"publishing", "waiting"} : Send([call EXCEPT !.pc = pc])
  \/ Send([call EXCEPT !.pc = "done", !.answer = "refused"])

SubmitOrder(r) == Publish(Call("SUBMIT_ORDER", <<CreateOrder(NextCall, r)>>, Absent))

CancelOrder(id) == Publish(Call("CANCEL_ORDER", Absent, <<id>>))

\* What follows `await replyPromise`: a failed submit throws, a successful one
\* updates the caller's order object and returns the trades.
Answered(call, res) ==
  IF IsSubmit(call) /\ res.success
  THEN [call EXCEPT !.pc = "done", !.reply = Absent, !.answer = "done",
                    !.order = <<[call.order[1] EXCEPT
                                   !.status = res.order[1].status,
                                   !.filledQuantity = res.order[1].filledQuantity]>>,
                    !.trades = res.trades[1]]
  ELSE [call EXCEPT !.pc = "done", !.reply = Absent,
                    !.answer = IF res.success THEN "done"
                               ELSE IF IsSubmit(call) THEN "failed" ELSE "not found"]

\* The publish is acknowledged; the answer may have come before it.
PublishAcked(c) ==
  /\ gateway = "up" /\ calls[c].pc = "publishing"
  /\ calls' = [calls EXCEPT ![c] = IF @.reply = Absent THEN [@ EXCEPT !.pc = "waiting"]
                                   ELSE Answered(@, @.reply[1])]
  /\ UNCHANGED <<pendingRequests, gateway, snapshotCache, toWorker, toGateway,
                 workerVars, faultVars>>

\* The answer to call c may still come.
OnItsWay(c) ==
  \/ \E i \in DOMAIN toGateway : toGateway[i].correlationId = c
  \/ worker = "listening" /\ \E i \in DOMAIN toWorker : toWorker[i].correlationId = c
  \/ worker # "down" /\ \E h \in handlers : h.call = c

\* Mutant: the timer leaves its request among the pending ones.
TimerFiresKeeping(c) ==
  /\ gateway = "up" /\ c \in pendingRequests
  /\ UNCHANGED pendingRequests
  /\ IF calls[c].pc # "waiting"
     THEN gateway' = "crashed" /\ UNCHANGED calls
     ELSE /\ calls' = [calls EXCEPT ![c].pc = "done", ![c].answer = "timeout"]
          /\ UNCHANGED gateway
  /\ IF calls[c].pc = "waiting" /\ OnItsWay(c) THEN Fault ELSE UNCHANGED faults
  /\ UNCHANGED <<snapshotCache, toWorker, toGateway, workerVars, lost>>

\* The timer rejects the promise: for want of an answer, or, which counts as a
\* fault, while the answer is on its way but takes seconds.  A call that still
\* awaits its publish, or threw because it was refused, has no handler on that
\* promise, and an unhandled rejection ends the process.
TimerFires(c) ==
  /\ gateway = "up" /\ c \in pendingRequests
  /\ pendingRequests' = pendingRequests \ {c}
  /\ IF calls[c].pc # "waiting"
     THEN gateway' = "crashed" /\ UNCHANGED calls
     ELSE /\ calls' = [calls EXCEPT ![c].pc = "done", ![c].answer = "timeout"]
          /\ UNCHANGED gateway
  /\ IF calls[c].pc = "waiting" /\ OnItsWay(c) THEN Fault ELSE UNCHANGED faults
  /\ UNCHANGED <<snapshotCache, toWorker, toGateway, workerVars, lost>>

Received(kind) == /\ gateway = "up" /\ toGateway # << >>
                  /\ Head(toGateway).kind = kind
                  /\ toGateway' = Tail(toGateway)

\* Mutant: the reply settles the oldest pending call, not its own.
HandleReplyOldest(correlationId, message) ==
  LET c == CHOOSE d \in pendingRequests : \A e \in pendingRequests : d <= e
      res == DecodeResult(message)
  IN  IF pendingRequests = {} THEN UNCHANGED <<calls, pendingRequests>>
      ELSE /\ pendingRequests' = pendingRequests \ {c}
           /\ calls' = [calls EXCEPT ![c] = IF @.pc = "waiting" THEN Answered(@, res)
                                            ELSE [@ EXCEPT !.reply = <<res>>]]

\* A reply that comes after the timer finds no pending request.
HandleReply(correlationId, message) ==
  LET c == correlationId
      res == DecodeResult(message)
  IN  IF c \notin pendingRequests THEN UNCHANGED <<calls, pendingRequests>>
      ELSE /\ pendingRequests' = pendingRequests \ {c}
           /\ calls' = [calls EXCEPT ![c] = IF @.pc = "waiting" THEN Answered(@, res)
                                            ELSE [@ EXCEPT !.reply = <<res>>]]

ReceiveReply ==
  /\ Received("reply")
  /\ HandleReply(Head(toGateway).correlationId, Head(toGateway).body)
  /\ UNCHANGED <<gateway, snapshotCache, toWorker, workerVars, faultVars>>

ReceiveSnapshot ==
  /\ Received("snapshot")
  /\ snapshotCache' = <<Head(toGateway).body>>
  /\ UNCHANGED <<calls, pendingRequests, gateway, toWorker, workerVars, faultVars>>

\* getBestAsk for a BUY, getBestBid for a SELL: from the cache only.
BestOpposite(side) ==
  IF snapshotCache = Absent THEN Absent
  ELSE LET book == snapshotCache[1].depth[Opposite(side)]
           offered == {p \in Prices : book[p] > 0}
       IN  IF offered = {} THEN Absent
           ELSE <<CHOOSE p \in offered : \A q \in offered : ~Behind(Opposite(side), p, q)>>

-----------------------------------------------------------------------------
(* The worker's engine.                                                    *)

Better(id, other) ==
  LET side == live[id].side
  IN  \/ Behind(side, live[other].price, live[id].price)
      \/ live[id].price = live[other].price /\ id < other

\* The resting orders that order o can trade with.
Crossing(o) ==
  {id \in resting : /\ live[id].side = Opposite(o.side)
                    /\ \/ o.type = "MARKET"
                       \/ ~Behind(Opposite(o.side), live[id].price, o.price)}

\* The same, best price and earliest first.
Makers(o) ==
  CHOOSE f \in [1..Cardinality(Crossing(o)) -> Crossing(o)] :
    \A j, k \in DOMAIN f : j < k => Better(f[j], f[k])

\* What the makers before the k-th have, and what the k-th gives: what it has,
\* up to what they left.
Before(makers, k) == SumFunction([j \in 1..(k - 1) |-> Remaining(live[makers[j]])])
Taken(o, makers, k) ==
  Smaller(o.quantity - Before(makers, k), Remaining(live[makers[k]]))

Trade(o, id, quantity) ==
  LET buy == IF o.side = "BUY" THEN o ELSE live[id]
      sell == IF o.side = "BUY" THEN live[id] ELSE o
  IN  [tradeId |-> <<buy.id, sell.id>>, symbol |-> o.symbol, timestamp |-> o.id,
       buyOrderId |-> buy.id, sellOrderId |-> sell.id, buyerId |-> buy.userId,
       sellerId |-> sell.userId, price |-> live[id].price, quantity |-> quantity]

Filled(o, quantity) ==
  [o EXCEPT !.filledQuantity = @ + quantity,
            !.status = IF o.filledQuantity + quantity = o.quantity THEN "FILLED"
                       ELSE IF o.type = "MARKET" THEN "CANCELLED"
                       ELSE IF o.filledQuantity + quantity > 0 THEN "PARTIALLY_FILLED"
                       ELSE "OPEN"]

\* The trades of an order: matching goes on while something is left of it.
TradesWith(o, makers) ==
  [k \in {j \in DOMAIN makers : Before(makers, j) < o.quantity} |->
     Trade(o, makers[k], Taken(o, makers, k))]

QuantityOf(trades, id) ==
  SumFunction([k \in DOMAIN trades |->
                 IF id \in {trades[k].buyOrderId, trades[k].sellOrderId}
                 THEN trades[k].quantity ELSE 0])

AfterTrades(o, trades) ==
  [id \in DOMAIN live \cup {o.id} |->
     LET traded == QuantityOf(trades, id)
     IN  IF id = o.id THEN Filled(o, traded)
         ELSE IF traded > 0 THEN Filled(live[id], traded) ELSE live[id]]

Rests(o) == o.status \in {"OPEN", "PARTIALLY_FILLED"}

\* getOrderBookSnapshot: what rests at each price.
DepthOf(objects, ids) ==
  [s \in Side |-> [p \in Prices |->
     MapThenSumSet(LAMBDA id : Remaining(objects[id]),
                   {id \in ids : objects[id].side = s /\ objects[id].price = p})]]

Snapshot(depth) == [kind |-> "snapshot", correlationId |-> 0,
                    body |-> [depth |-> depth, from |-> incarnation]]

Reply(c, res) == [kind |-> "reply", correlationId |-> c, body |-> EncodeResult(res)]

Result(c, success, trades, order) ==
  [correlationId |-> c, success |-> success, trades |-> trades, order |-> order,
   snapshot |-> Absent, error |-> Absent]

-----------------------------------------------------------------------------
(* handleCommandMessage.  A handler awaits the publish of each trade, then *)
(* of the snapshot, which it takes after the last trade, and replies with  *)
(* the order as it is by then.  `left` counts the awaits before the reply. *)
(* A publish that is refused ends in the catch block: the reply says that  *)
(* the command failed, whatever the engine did.                            *)

Handler(c, left, trades, order) ==
  [call |-> c, left |-> left, trades |-> trades, order |-> order, ok |-> TRUE]

\* The handler publishes its snapshot and is `h`, or fails.
PublishOrderBook(others, h, depth) ==
  \/ /\ toGateway' = Append(toGateway, Snapshot(depth))
     /\ handlers' = others \cup {h}
     /\ UNCHANGED faultVars
  \/ /\ Fault /\ lost' = TRUE
     /\ handlers' = others \cup {[h EXCEPT !.ok = FALSE]}
     /\ UNCHANGED toGateway

HandleSubmit(cmd) ==
  \E o \in {cmd.order[1]} : \E trades \in {TradesWith(o, Makers(o))} :
    /\ live' = AfterTrades(o, trades)
    /\ resting' = {id \in resting \cup {o.id} : Rests(live'[id])}
    /\ ran' = Put(ran, cmd.correlationId,
                  [order |-> cmd.order, trades |-> trades, found |-> TRUE])
    /\ \E h \in {Handler(cmd.correlationId, Len(trades) + 1, trades, o.id)} :
         IF trades = << >> THEN PublishOrderBook(handlers, h, DepthOf(live', resting'))
         ELSE handlers' = handlers \cup {h} /\ UNCHANGED <<toGateway, faultVars>>

\* No order, or none the engine can read: it throws before it changes anything.
RefuseSubmit(cmd) ==
  /\ toGateway' = Append(toGateway, Reply(cmd.correlationId,
                    Result(cmd.correlationId, FALSE, Absent, Absent)))
  /\ UNCHANGED <<live, resting, handlers, ran, faultVars>>

\* Mutant: no snapshot is published after a cancellation.
HandleCancelSilently(cmd) ==
  LET c == cmd.correlationId
      id == cmd.orderId[1]
      found == id \in resting
      rest == resting \ {id}
  IN  /\ live' = IF found THEN [live EXCEPT ![id].status = "CANCELLED"] ELSE live
      /\ resting' = rest
      /\ ran' = Put(ran, c, [order |-> Absent, trades |-> << >>, found |-> found])
      /\ toGateway' = Append(toGateway, Reply(c, Result(c, found, Absent, Absent)))
      /\ UNCHANGED <<handlers, faultVars>>

HandleCancel(cmd) ==
  LET c == cmd.correlationId
      id == cmd.orderId[1]
      found == id \in resting
      rest == resting \ {id}
  IN  /\ live' = IF found THEN [live EXCEPT ![id].status = "CANCELLED"] ELSE live
      /\ resting' = rest
      /\ ran' = Put(ran, c, [order |-> Absent, trades |-> << >>, found |-> found])
      /\ IF found
         THEN PublishOrderBook(handlers, Handler(c, 1, << >>, 0), DepthOf(live', rest))
         ELSE /\ toGateway' = Append(toGateway, Reply(c, Result(c, FALSE, Absent, Absent)))
              /\ UNCHANGED <<handlers, faultVars>>

ReceiveCommand ==
  /\ worker = "listening" /\ toWorker # << >>
  /\ toWorker' = Tail(toWorker)
  /\ \E cmd \in {DecodeCommand(Head(toWorker))} :
       IF cmd.action # "SUBMIT_ORDER" THEN HandleCancel(cmd)
       ELSE IF cmd.order # Absent THEN HandleSubmit(cmd) ELSE RefuseSubmit(cmd)
  /\ UNCHANGED <<routerVars, worker, incarnation>>

\* The publish of a trade is acknowledged; after the last one the snapshot is
\* taken and published.
TradePublished(h) ==
  /\ worker # "down" /\ h \in handlers /\ h.left > 1
  /\ \E next \in {[h EXCEPT !.left = @ - 1]} :
       IF next.left = 1 THEN PublishOrderBook(handlers \ {h}, next, DepthOf(live, resting))
       ELSE handlers' = (handlers \ {h}) \cup {next} /\ UNCHANGED <<toGateway, faultVars>>
  /\ UNCHANGED <<routerVars, toWorker, worker, incarnation, live, resting, ran>>

\* The publish of a trade is refused: what was still to be published is not.
TradeRefused(h) ==
  /\ Fault /\ worker # "down" /\ h \in handlers /\ h.left > 1
  /\ handlers' = (handlers \ {h}) \cup {[h EXCEPT !.left = 1, !.ok = FALSE]}
  /\ lost' = TRUE
  /\ UNCHANGED <<routerVars, toWorker, toGateway, worker, incarnation, live, resting, ran>>

\* The handler has nothing left to await and the result is sent.
SendResult(h) ==
  /\ worker # "down" /\ h \in handlers /\ h.left = 1
  /\ handlers' = handlers \ {h}
  /\ toGateway' = Append(toGateway, Reply(h.call,
                    IF h.order = 0 \/ ~h.ok THEN Result(h.call, h.ok, Absent, Absent)
                    ELSE Result(h.call, TRUE, <<h.trades>>, <<live[h.order]>>)))
  /\ UNCHANGED <<routerVars, toWorker, worker, incarnation, live, resting, ran, faultVars>>

-----------------------------------------------------------------------------
(* Faults: the worker stops or dies and is started again with an empty     *)
(* engine, a subscriber reconnects and misses messages.                    *)

\* stop(): the subscriptions end, the handlers go on until the process exits.
StopWorker ==
  /\ Fault /\ worker = "listening" /\ worker' = "stopping"
  /\ UNCHANGED <<routerVars, toWorker, toGateway, incarnation, live, resting, handlers, ran, lost>>

\* The process ends, and what it had published but not yet sent ends with it.
ExitWorker ==
  /\ worker # "down"
  /\ IF worker = "stopping" THEN UNCHANGED faults ELSE Fault
  /\ worker' = "down" /\ handlers' = {}
  /\ \E n \in 0..Len(toGateway) : toGateway' = SubSeq(toGateway, 1, n)
  /\ UNCHANGED <<routerVars, toWorker, incarnation, live, resting, ran, lost>>

StartWorker ==
  /\ worker = "down" /\ worker' = "listening"
  /\ incarnation' = incarnation + 1
  /\ live' = << >> /\ resting' = {}
  /\ UNCHANGED <<routerVars, toWorker, toGateway, handlers, ran, faultVars>>

\* A command nobody is subscribed to.
DropCommand ==
  /\ worker # "listening" /\ toWorker # << >> /\ toWorker' = Tail(toWorker)
  /\ UNCHANGED <<routerVars, toGateway, workerVars, faultVars>>

LoseMessage ==
  /\ Fault
  /\ \/ /\ toWorker # << >> /\ toWorker' = Tail(toWorker)
        /\ UNCHANGED <<toGateway, lost>>
     \/ /\ toGateway # << >> /\ toGateway' = Tail(toGateway)
        /\ lost' = (lost \/ Head(toGateway).kind = "snapshot")
        /\ UNCHANGED toWorker
  /\ UNCHANGED <<routerVars, workerVars>>

-----------------------------------------------------------------------------
(* What the cluster promises.                                              *)

\* A call whose timer is armed; one that was refused leaves its own behind.
AwaitsReply(call) ==
  call.answer = "refused" \/ (call.pc # "done" /\ call.reply = Absent)

ClusterTypeOK ==
  /\ \/ gateway = "crashed"
     \/ pendingRequests = {c \in DOMAIN calls : AwaitsReply(calls[c])}
  /\ \A c \in DOMAIN calls :
       /\ calls[c].pc \in {"publishing", "waiting", "done"}
       /\ calls[c].answer \in
            {"none", "done", "failed", "not found", "timeout", "refused"}
       /\ calls[c].pc = "done" <=> calls[c].answer # "none"
  /\ \A id \in DOMAIN live : live[id].id = id /\ live[id].filledQuantity <= live[id].quantity
  /\ resting = {id \in DOMAIN live : Rests(live[id])}
  /\ \A h \in handlers : h.call \in DOMAIN ran /\ h.left \in 1..(Len(h.trades) + 1)

\* What the caller is told is what the worker did for that very call: the trades
\* are its trades, the order came through both messages unchanged but for its
\* fills, and an order reported as cancelled is off the book for good.  A
\* cancellation reported as failed was one, unless a publish of the worker's was
\* refused.
AnswersAreTrue ==
  \A c \in DOMAIN calls :
    LET call == calls[c]
    IN  /\ call.answer = "done" /\ IsSubmit(call) =>
             /\ c \in DOMAIN ran /\ call.trades = ran[c].trades
             /\ ran[c].order[1] = [call.order[1] EXCEPT !.status = "PENDING",
                                                        !.filledQuantity = 0]
             /\ QuantityOf(call.trades, c) <= call.order[1].filledQuantity
             /\ call.order[1].filledQuantity <= call.order[1].quantity
        /\ call.answer = "done" /\ ~IsSubmit(call) =>
             /\ c \in DOMAIN ran /\ ran[c].found
             /\ call.orderId[1] \notin resting
        /\ call.answer = "not found" => c \in DOMAIN ran /\ (ran[c].found => lost)

\* Unless a snapshot was lost, the newest snapshot that is cached or on its way
\* from the worker's present run shows the book as it is, or one that will is
\* still to be taken: prices are locked against this cache.
CacheFollowsBook ==
  LET sent == {i \in DOMAIN toGateway : toGateway[i].kind = "snapshot"}
      newest == IF sent # {} THEN <<toGateway[Max(sent)].body>> ELSE snapshotCache
  IN  newest # Absent /\ newest[1].from = incarnation /\ worker # "down" /\ ~lost
        => \/ newest[1].depth = DepthOf(live, resting)
           \/ \E h \in handlers : h.left > 1

=============================================================================
