--------------------------- MODULE MarketMakerBot ---------------------------
(***************************************************************************)
(* packages/backend/src/services/MarketMakerBot.ts as a client of the      *)
(* router in clustered mode, beside the POST handlers of other clients.    *)
(*                                                                         *)
(* Thread 0 is start(), which seeds the book; thread t is the t-th run of  *)
(* the interval's callback, which does not wait for the one before it.     *)
(* What a thread does between two awaits is one segment: while a thread is *)
(* Ready the gateway's event loop handles nothing else.  The random choices *)
(* of the bot are choices among Quotes, Plans and the two sides.           *)
(***************************************************************************)
EXTENDS EngineCluster

CONSTANTS Quotes,         \* the LIMIT orders the bot may make
          CrossQuantity,  \* the quantity of its MARKET orders
          SeedSize,       \* bound: orders of the seed
          MaxTicks,       \* bound: ticks of the interval
          Plans,          \* bound: what tick t may draw, Plans[t] being a set of
                          \* [replace: how many orders, cross: BOOLEAN]
          UserRequests,   \* the orders other clients may send
          MaxUserOrders   \* bound: orders of other clients

Bot == "market maker"

ASSUME BotAssumption ==
  /\ {SeedSize, MaxTicks, MaxUserOrders} \subseteq Nat
  /\ \A t \in 1..MaxTicks : Plans[t] \subseteq [replace: Nat, cross: BOOLEAN]
  /\ CrossQuantity \in Nat \ {0}
  /\ \A r \in Quotes \cup UserRequests :
       /\ r.side \in Side /\ r.type \in {"LIMIT", "MARKET"}
       /\ r.price \in Nat /\ r.quantity \in Nat \ {0}
  /\ \A q \in Quotes : q.userId = Bot
  /\ \A r \in UserRequests : r.userId # Bot

VARIABLES threads,         \* the runs of start() and of the interval's callback
          activeOrderIds,  \* the bot's record: order id -> what it thinks is left
          userOrders,      \* the POST handlers of other clients that are not over,
                           \* and how many trades each has been through
          locked           \* locked_balance of the bot's two accounts: what its
                           \* BUY orders lock, and what its SELL orders lock

botVars == <<threads, activeOrderIds, userOrders, locked>>
vars == <<clusterVars, botVars>>

Thread == 0..MaxTicks

\* `orders` is the tick's symbolOrders; `call` is the call it awaits, `id` and
\* `quantity` the order it is cancelling and the record it read of it, and
\* `settled` counts the trades of its order that it has been through.
Idle == [pc |-> "idle", orders |-> {}, cancels |-> 0, places |-> 0, cross |-> FALSE,
         request |-> Absent, call |-> 0, id |-> 0, quantity |-> 0, settled |-> 0]

BotInit ==
  /\ ClusterInit
  /\ threads = [t \in Thread |-> IF t = 0 THEN [Idle EXCEPT !.pc = "next", !.places = SeedSize]
                                 ELSE Idle]
  /\ activeOrderIds = << >> /\ userOrders = << >> /\ locked = [side \in Side |-> 0]

Awaits(t, pc) == threads[t].pc = pc
AnswerOf(t) == calls[threads[t].call]

\* The thread has something to do without waiting for an event.
Ready(t) == \/ Awaits(t, "next")
            \/ /\ Awaits(t, "cancelling") \/ Awaits(t, "submitting")
               /\ AnswerOf(t).pc = "done"

EventLoop == gateway = "up" /\ \A t \in Thread : ~Ready(t)

\* The end of an iteration: the next one, or the end of the run.
Continue(thread) ==
  [thread EXCEPT !.pc = IF thread.cancels = 0 /\ thread.places = 0 /\ ~thread.cross
                        THEN "ended" ELSE "next"]
Set(t, thread) == threads' = [threads EXCEPT ![t] = thread]

-----------------------------------------------------------------------------
(* The transactions.  All the orders of a side share one locked_balance,   *)
(* and a CHECK refuses to take more from it than there is.                 *)

FundsFor(side, price, quantity) ==
  [s \in Side |-> IF s # side THEN 0 ELSE IF s = "BUY" THEN price * quantity ELSE quantity]

\* What settleTrade takes from the bot: nothing, for a side that is not its own.
OfBot(trade) ==
  [s \in Side |-> IF (IF s = "BUY" THEN trade.buyerId ELSE trade.sellerId) # Bot THEN 0
                  ELSE FundsFor(s, trade.price, trade.quantity)[s]]

\* A transaction that takes these funds, or is refused: by the CHECK, or, which
\* counts as a fault, by another account's or by the database.
Take(funds) ==
  \/ /\ locked' = IF \A s \in Side : funds[s] <= locked[s]
                  THEN [s \in Side |-> locked[s] - funds[s]] ELSE locked
     /\ UNCHANGED faults
  \/ Fault /\ UNCHANGED locked

-----------------------------------------------------------------------------
(* tick().                                                                 *)

\* The interval fires.  While an earlier run has not ended, that run is late,
\* which counts as a fault.
StartTick(t) ==
  /\ EventLoop /\ Awaits(t, "idle")
  /\ Awaits(0, "ended") /\ (t > 1 => ~Awaits(t - 1, "idle"))
  /\ \E plan \in Plans[t] :
       LET count == Smaller(plan.replace, Cardinality(DOMAIN activeOrderIds))
       IN  Set(t, Continue([Idle EXCEPT !.orders = DOMAIN activeOrderIds, !.cancels = count,
                                        !.places = count, !.cross = plan.cross]))
  /\ IF \A s \in 1..(t - 1) : Awaits(s, "ended") THEN UNCHANGED faults ELSE Fault
  /\ UNCHANGED <<routerVars, toWorker, toGateway, workerVars, lost,
                 activeOrderIds, userOrders, locked>>

\* An order of the list that another tick has deleted is skipped.
NextCancel(t) ==
  /\ gateway = "up" /\ Awaits(t, "next") /\ threads[t].cancels > 0
  /\ \E id \in threads[t].orders :
       IF id \in DOMAIN activeOrderIds
       THEN /\ CancelOrder(id)
            /\ Set(t, [threads[t] EXCEPT !.pc = "cancelling", !.call = NextCall, !.id = id,
                                         !.quantity = activeOrderIds[id]])
       ELSE /\ Set(t, Continue([threads[t] EXCEPT !.cancels = @ - 1]))
            /\ UNCHANGED clusterVars
  /\ UNCHANGED <<activeOrderIds, userOrders, locked>>

\* Mutant: a cancellation that throws is treated like one that returned.
CancelReturnsAlways(t) ==
  /\ gateway = "up" /\ Awaits(t, "cancelling") /\ AnswerOf(t).pc = "done"
  /\ Set(t, [threads[t] EXCEPT !.pc = "unlocking"])
  /\ UNCHANGED <<clusterVars, activeOrderIds, userOrders, locked>>

\* What cancelOrder returns is ignored; what it throws ends the callback.
CancelReturns(t) ==
  /\ gateway = "up" /\ Awaits(t, "cancelling") /\ AnswerOf(t).pc = "done"
  /\ Set(t, IF AnswerOf(t).answer \in {"timeout", "refused"} THEN [Idle EXCEPT !.pc = "ended"]
            ELSE [threads[t] EXCEPT !.pc = "unlocking"])
  /\ UNCHANGED <<clusterVars, activeOrderIds, userOrders, locked>>

\* unlockFundsForCancel of what the record said: a refusal is ignored, and the
\* order is no longer in the record either way.
Unlocked(t) ==
  /\ EventLoop /\ Awaits(t, "unlocking")
  /\ LET order == calls[threads[t].id].order[1]
     IN  Take(FundsFor(order.side, order.price, threads[t].quantity))
  /\ activeOrderIds' = Restrict(activeOrderIds, DOMAIN activeOrderIds \ {threads[t].id})
  /\ Set(t, Continue([threads[t] EXCEPT !.cancels = @ - 1, !.orders = @ \ {threads[t].id}]))
  /\ UNCHANGED <<routerVars, toWorker, toGateway, workerVars, lost, userOrders>>

\* A replacement, or the MARKET order at the best price the cache shows.
NextPlace(t) ==
  /\ gateway = "up" /\ Awaits(t, "next") /\ threads[t].cancels = 0
  /\ IF threads[t].places > 0
     THEN \E q \in Quotes :
            Set(t, [threads[t] EXCEPT !.pc = "locking", !.places = @ - 1, !.request = <<q>>])
     ELSE \E side \in Side :
            LET best == BestOpposite(side)
            IN  Set(t, IF best = Absent THEN [Idle EXCEPT !.pc = "ended"]
                       ELSE [threads[t] EXCEPT !.pc = "locking", !.cross = FALSE, !.request =
                               <<[side |-> side, type |-> "MARKET", price |-> best[1],
                                  quantity |-> CrossQuantity, userId |-> Bot]>>])
  /\ UNCHANGED <<clusterVars, activeOrderIds, userOrders, locked>>

-----------------------------------------------------------------------------
(* placeMMOrder().                                                         *)

\* The transaction that locks the funds and inserts the row is over.
Lock(t) ==
  /\ EventLoop /\ Awaits(t, "locking")
  /\ LET request == threads[t].request[1]
         funds == FundsFor(request.side, request.price, request.quantity)
     IN  /\ locked' = [s \in Side |-> locked[s] + funds[s]]
         /\ SubmitOrder(request)
         /\ Set(t, [threads[t] EXCEPT !.pc = "submitting", !.call = NextCall])
  /\ UNCHANGED <<activeOrderIds, userOrders>>

\* Insufficient balance, counted as a fault: the error is swallowed.
LockRefused(t) ==
  /\ EventLoop /\ Awaits(t, "locking") /\ Fault
  /\ Set(t, Continue(threads[t]))
  /\ UNCHANGED <<routerVars, toWorker, toGateway, workerVars, lost,
                 activeOrderIds, userOrders, locked>>

\* The next trade of the answered call is to be settled, or what is left of a
\* cancelled MARKET order is to be unlocked, or the order is done with.
Settling(thread, call) ==
  IF thread.settled < Len(call.trades) THEN [thread EXCEPT !.pc = "settling"]
  ELSE IF call.order[1].status = "CANCELLED" THEN [thread EXCEPT !.pc = "releasing"]
  ELSE Continue(thread)

\* Mutant: a LIMIT order that was filled in part is not recorded.
SubmitReturnsIfOpen(t) ==
  LET order == AnswerOf(t).order[1]
  IN  /\ gateway = "up" /\ Awaits(t, "submitting") /\ AnswerOf(t).pc = "done"
      /\ IF AnswerOf(t).answer # "done"
         THEN Set(t, Continue(threads[t])) /\ UNCHANGED activeOrderIds
         ELSE /\ activeOrderIds' = IF order.type = "LIMIT" /\ order.status = "OPEN"
                                   THEN Put(activeOrderIds, order.id, Remaining(order))
                                   ELSE activeOrderIds
              /\ Set(t, Settling([threads[t] EXCEPT !.settled = 0], AnswerOf(t)))
      /\ UNCHANGED <<clusterVars, userOrders, locked>>

\* submitOrder returned or threw; what it throws is swallowed, and the order is
\* recorded nowhere.
SubmitReturns(t) ==
  LET order == AnswerOf(t).order[1]
  IN  /\ gateway = "up" /\ Awaits(t, "submitting") /\ AnswerOf(t).pc = "done"
      /\ IF AnswerOf(t).answer # "done"
         THEN Set(t, Continue(threads[t])) /\ UNCHANGED activeOrderIds
         ELSE /\ activeOrderIds' = IF order.type = "LIMIT" /\ order.status # "FILLED"
                                   THEN Put(activeOrderIds, order.id, Remaining(order))
                                   ELSE activeOrderIds
              /\ Set(t, Settling([threads[t] EXCEPT !.settled = 0], AnswerOf(t)))
      /\ UNCHANGED <<clusterVars, userOrders, locked>>

\* settleTrade of the next trade; a refusal is logged and the next one follows.
SettleTrade(t) ==
  LET k == threads[t].settled + 1
  IN  /\ EventLoop /\ Awaits(t, "settling")
      /\ Take(OfBot(AnswerOf(t).trades[k]))
      /\ Set(t, Settling([threads[t] EXCEPT !.settled = k], AnswerOf(t)))
      /\ UNCHANGED <<routerVars, toWorker, toGateway, workerVars, lost,
                     activeOrderIds, userOrders>>

\* unlockFundsForCancel of what a MARKET order did not fill.
ReleaseRest(t) ==
  LET request == threads[t].request[1]
  IN  /\ EventLoop /\ Awaits(t, "releasing")
      /\ Take(FundsFor(request.side, request.price, Remaining(AnswerOf(t).order[1])))
      /\ Set(t, Continue(threads[t]))
      /\ UNCHANGED <<routerVars, toWorker, toGateway, workerVars, lost,
                     activeOrderIds, userOrders>>

-----------------------------------------------------------------------------
(* POST /api/orders of other clients: submit, then settle the trades.      *)

UserSubmits(r) ==
  /\ EventLoop
  /\ Cardinality({c \in DOMAIN calls : IsSubmit(calls[c]) /\ calls[c].order[1].userId # Bot})
       < MaxUserOrders
  /\ SubmitOrder(r)
  /\ userOrders' = Put(userOrders, NextCall, 0)
  /\ UNCHANGED <<threads, activeOrderIds, locked>>

UserSettles(c) ==
  LET k == userOrders[c] + 1
  IN  /\ EventLoop /\ calls[c].pc = "done" /\ k <= Len(calls[c].trades)
      /\ Take(OfBot(calls[c].trades[k]))
      /\ userOrders' = [userOrders EXCEPT ![c] = k]
      /\ UNCHANGED <<routerVars, toWorker, toGateway, workerVars, lost,
                     threads, activeOrderIds>>

UserIsAnswered(c) ==
  /\ EventLoop /\ calls[c].pc = "done" /\ userOrders[c] = Len(calls[c].trades)
  /\ userOrders' = Restrict(userOrders, DOMAIN userOrders \ {c})
  /\ UNCHANGED <<clusterVars, threads, activeOrderIds, locked>>

-----------------------------------------------------------------------------

RouterEvent ==
  /\ EventLoop
  /\ \/ \E c \in DOMAIN calls : PublishAcked(c)
     \/ ReceiveReply
     \/ ReceiveSnapshot
  /\ UNCHANGED botVars

Timeout == EventLoop /\ (\E c \in pendingRequests : TimerFires(c)) /\ UNCHANGED botVars

WorkerRuns ==
  /\ \/ \E h \in handlers : TradePublished(h) \/ TradeRefused(h) \/ SendResult(h)
     \/ ReceiveCommand
  /\ UNCHANGED botVars

WorkerFails ==
  /\ \/ StopWorker
     \/ ExitWorker
     \/ StartWorker
     \/ DropCommand
     \/ LoseMessage
  /\ UNCHANGED botVars

BotRuns(t) ==
  \/ NextCancel(t) \/ CancelReturns(t) \/ Unlocked(t) \/ NextPlace(t)
  \/ Lock(t) \/ LockRefused(t) \/ SubmitReturns(t) \/ SettleTrade(t) \/ ReleaseRest(t)

Next ==
  \/ RouterEvent \/ Timeout \/ WorkerRuns \/ WorkerFails
  \/ \E t \in Thread : BotRuns(t)
  \/ \E t \in Thread : StartTick(t)
  \/ \E r \in UserRequests : UserSubmits(r)
  \/ \E c \in DOMAIN userOrders : UserSettles(c) \/ UserIsAnswered(c)

Spec == BotInit /\ [][Next]_vars

\* A timer whose answer is not on its way fires, the database answers, a thread
\* that can run does, and while Redis and the worker are up they deliver and
\* work: as long as one of these is possible, one of them happens.  Nothing
\* obliges a worker to stay up or to be started again.
Progress == RouterEvent \/ (\E t \in Thread : BotRuns(t)) \/ Timeout \/ WorkerRuns
Fairness == WF_vars(Progress)
FairSpec == Spec /\ Fairness

-----------------------------------------------------------------------------

BotOrder(id) == live[id].userId = Bot

\* Every order the bot has on the worker's book is in its record, with at least
\* what is left of it, unless its submit is not answered yet, timed out or was
\* answered with a failure to publish what it did: the bot cancels and replaces
\* from this record only.
RestingIsRecorded ==
  \A id \in resting : BotOrder(id) =>
    \/ id \in DOMAIN activeOrderIds /\ Remaining(live[id]) <= activeOrderIds[id]
    \/ \E t \in Thread : Awaits(t, "submitting") /\ threads[t].call = id
    \/ calls[id].answer \in {"timeout", "failed"}

\* Funds are released only for an order that the worker no longer has, for good:
\* the record outlives it, its cancellation may have come too late or to a worker
\* that never had it, but never is a cancellation that was not run taken for one.
ReleasedIsOffBook ==
  \A t \in Thread : Awaits(t, "unlocking") => threads[t].id \notin resting

\* Every run of the callback ends, unless the process did: no loss, restart or
\* delay of the worker leaves the bot waiting for an answer.
EveryTickEnds ==
  (\E t \in Thread : threads[t].pc \notin {"idle", "ended"})
  ~> (gateway = "crashed" \/ \A t \in Thread : threads[t].pc \in {"idle", "ended"})

\* When nothing is under way, what is locked for the bot is what is left of its
\* orders on the book (docs/ARCHITECTURE.md, "No Orphaned Locks").
NoOrphanedLocks ==
  (/\ toWorker = << >> /\ toGateway = << >> /\ handlers = {} /\ DOMAIN userOrders = {}
   /\ \A t \in Thread : threads[t].pc \in {"idle", "ended"})
  => \A s \in Side :
       locked[s] = MapThenSumSet(LAMBDA id :
                     FundsFor(s, live[id].price, Remaining(live[id]))[s],
                     {id \in resting : BotOrder(id) /\ live[id].side = s})

=============================================================================
