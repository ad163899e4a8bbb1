---------------------------- MODULE OrderGateway ----------------------------
(***************************************************************************)
(* The life of an order between the client and the engine:                 *)
(* POST and DELETE /api/orders (packages/backend/src/routes/orders.ts),    *)
(* the transactions of RiskService, SettlementService and LedgerService,   *)
(* and the matching engine in the same process.                            *)
(*                                                                         *)
(* A handler runs from one `await` to the next without interruption, so    *)
(* one action is what a handler does between two of them.  A transaction   *)
(* is one action: it commits whole or is rolled back whole, and its        *)
(* UPDATEs are relative, so that the row locks of PostgreSQL make any two  *)
(* of them one after the other.  A call of the engine is synchronous:      *)
(* while it runs no handler moves.                                         *)
(***************************************************************************)
EXTENDS MatchingEngine

CONSTANTS
  Users,         \* everyone with an account
  Deletes,       \* the DELETE requests that may be made
  Initial,       \* what every account starts with, per currency
  Displays,      \* displayQty a client may give that the engine has to replace
  NoDisplay,     \* no displayQty was given
  Acceptances,   \* whether the engine accepts the order of a POST, {TRUE} or both
  MaxPosts       \* bound on the POST requests

Currency == {"quote", "base"}

\* The estimates 1.1 * bestAsk and 0.9 * bestBid are whole numbers.
ASSUME GatewayAssumption ==
  /\ IsFiniteSet(Users)
  /\ Initial \in [Currency -> Nat]
  /\ MaxPosts \in Nat
  /\ Acceptances \subseteq BOOLEAN
  /\ NoDisplay \notin Int
  /\ \A d \in Displays : d # NoDisplay => d \in Int /\ d <= 0
  /\ \A r \in Requests : r.price % 10 = 0

VARIABLES
  accounts,   \* table accounts: available and locked balance per currency
  rows,       \* table orders, by the number of the POST that inserted the row
  tradeRows,  \* table trades
  ledger,     \* table ledger_entries: credits less debits per account
  posts,      \* the POST handlers, in order of arrival
  deletes,    \* the DELETE handlers
  lost        \* the trades whose settlement threw: they are logged, no more

gatewayVars == <<accounts, rows, tradeRows, ledger, posts, deletes, lost>>
systemVars == <<allVars, gatewayVars>>

Account == [available: Nat, locked: Nat]

\* price = 0 stands for NULL.
Row == [user: Users, side: Side, type: OrderType, price: Nat,
        quantity: Nat \ {0}, filled: Nat, status: OrderStatus]

PostPc == {"locking", "submitting", "matching", "settling", "unlocking", "done"}

\* `display` is the displayQty as the client gave it; in the request it is what the
\* engine makes of it, with 0 for what it replaces by its default.  `accepted` says
\* that there is a book for the symbol, and that a stop has a positive stopPrice.
Post == [user: Users, request: Requests, stopPrice: StopPrices, delta: Deltas,
         display: Int \union {NoDisplay}, accepted: BOOLEAN,
         orderPrice: Nat, pc: PostPc, order: Nat, unsettled: Seq(Trade)]

DeletePc == {"idle", "cancelling", "unlocking", "marking", "done"}

\* What a DELETE handler keeps of the row it has read.
Delete == [pc: DeletePc, row: Nat, remaining: Nat]

GatewayTypeOK ==
  /\ EngineTypeOK
  /\ accounts \in [Users -> [Currency -> Account]]
  /\ DOMAIN rows \subseteq 1..Len(posts)
  /\ \A i \in DOMAIN rows : rows[i] \in Row
  /\ tradeRows \in Seq(Trade)
  /\ ledger \in [Users -> [Currency -> Int]]
  /\ posts \in Seq(Post)
  /\ deletes \in [Deletes -> Delete]
  /\ lost \in Seq(Trade)

GatewayInit ==
  /\ EngineInit
  /\ accounts = [u \in Users |-> [c \in Currency |->
                   [available |-> Initial[c], locked |-> 0]]]
  /\ rows = << >>
  /\ tradeRows = << >>
  /\ ledger = [u \in Users |-> [c \in Currency |-> 0]]
  /\ posts = << >>
  /\ deletes = [d \in Deletes |-> [pc |-> "idle", row |-> 0, remaining |-> 0]]
  /\ lost = << >>

\* No handler is inside a call of the engine.
EngineFree == EngineIdle /\ \A i \in 1..Len(posts) : posts[i].pc # "matching"

-----------------------------------------------------------------------------
(***************************************************************************)
(* RiskService.                                                            *)
(***************************************************************************)
PaysWith(side) == IF side = "BUY" THEN "quote" ELSE "base"

\* Mutant: the cost of one unit.
CostOfOne(side, price, quantity) == IF side = "BUY" THEN price ELSE quantity

Cost(side, price, quantity) == IF side = "BUY" THEN price * quantity ELSE quantity

\* An ICEBERG locks the displayQty that was given, whatever it is, and not the
\* slice that the engine puts on the book.
EffectiveQty(p) ==
  IF p.request.type = "ICEBERG" /\ p.display # NoDisplay
  THEN p.display ELSE p.request.quantity

\* Move n from available to locked; a negative n moves it back.
Lock(user, currency, n) ==
  [accounts EXCEPT ![user][currency] =
     [available |-> @.available - n, locked |-> @.locked + n]]

\* Mutant: the table has no CHECK.
CanAlwaysUnlock(user, currency, n) == TRUE

\* unlockFundsForCancel: refused only by the CHECK constraint of the table.
CanUnlock(user, currency, n) == accounts[user][currency].locked >= n

-----------------------------------------------------------------------------
(***************************************************************************)
(* SettlementService.settleTrade.                                          *)
(***************************************************************************)

\* Only ids that a POST gave out have a row: the id of a later iceberg slice
\* has none.
HasRow(id) == \E i \in DOMAIN rows : posts[i].order = id
RowOf(id) == CHOOSE i \in DOMAIN rows : posts[i].order = id

Buyer(t) == rows[RowOf(t.buyOrderId)].user
Seller(t) == rows[RowOf(t.sellOrderId)].user

\* The foreign keys of table trades and the CHECKs of table accounts.
CanSettle(t) ==
  /\ HasRow(t.buyOrderId)
  /\ HasRow(t.sellOrderId)
  /\ accounts[Buyer(t)]["quote"].locked >= t.price * t.quantity
  /\ accounts[Seller(t)]["base"].locked >= t.quantity

\* Mutant: the seller is paid out of nothing it was credited for.
PaySellerUnpaid(t) ==
  [accounts EXCEPT ![Buyer(t)]["quote"].locked = @ - t.price * t.quantity,
                   ![Seller(t)]["base"].locked = @ - t.quantity,
                   ![Buyer(t)]["base"].available = @ + t.quantity]

Pay(t) ==
  [accounts EXCEPT ![Buyer(t)]["quote"].locked = @ - t.price * t.quantity,
                   ![Seller(t)]["quote"].available = @ + t.price * t.quantity,
                   ![Seller(t)]["base"].locked = @ - t.quantity,
                   ![Buyer(t)]["base"].available = @ + t.quantity]

\* One entry: a credit of n, or a debit where n is negative.
Entry(book, user, currency, n) == [book EXCEPT ![user][currency] = @ + n]

\* The four entries of recordTradeSettlement, one after the other: buyer and
\* seller may be the same user.
RecordTradeSettlement(t) ==
  LET paid == t.price * t.quantity
      buyerPays == Entry(ledger, Buyer(t), "quote", -paid)
      sellerIsPaid == Entry(buyerPays, Seller(t), "quote", paid)
      sellerGives == Entry(sellerIsPaid, Seller(t), "base", -t.quantity)
  IN  Entry(sellerGives, Buyer(t), "base", t.quantity)

\* filled_quantity grows and the status follows it, whatever it was.
RowFilled(row, quantity) ==
  [row EXCEPT !.filled = @ + quantity,
              !.status = IF row.filled + quantity >= row.quantity
                         THEN "FILLED" ELSE "PARTIALLY_FILLED"]

FillRows(t) ==
  [i \in DOMAIN rows |->
     IF i \in {RowOf(t.buyOrderId), RowOf(t.sellOrderId)}
     THEN RowFilled(rows[i], t.quantity) ELSE rows[i]]

-----------------------------------------------------------------------------
(***************************************************************************)
(* POST /api/orders.                                                       *)
(***************************************************************************)

\* What a MARKET or FILL_OR_KILL order is taken to cost, from the best price
\* of the moment.
EstimatedPrice(side, accepted) ==
  IF ~ accepted \/ levels[Opposite(side)] = << >>
  THEN IF side = "BUY" THEN 100000 ELSE 1
  ELSE LET best == levels[Opposite(side)][1].price
       IN  IF side = "BUY" THEN (best * 11) \div 10 ELSE (best * 9) \div 10

OrderPrice(r, accepted) ==
  IF r.type \in {"LIMIT", "ICEBERG"} THEN r.price
  ELSE IF IsStop(r) THEN 0 ELSE EstimatedPrice(r.side, accepted)

\* The displayQty a client may have given for what the engine reads as r.
GivenDisplays(r) ==
  IF r.type # "ICEBERG" THEN {NoDisplay}
  ELSE IF r.displayQty > 0 THEN {r.displayQty} ELSE Displays

\* The request has been validated and priced; its transaction has begun.  The
\* handler looks neither at the symbol nor at the signs of stopPrice and displayQty.
ReceivePost(user, r, stop, delta) ==
  /\ EngineFree
  /\ Len(posts) < MaxPosts
  /\ \E display \in GivenDisplays(r), accepted \in Acceptances :
       posts' = Append(posts,
         [user |-> user, request |-> r, stopPrice |-> stop, delta |-> delta,
          display |-> display, accepted |-> accepted,
          orderPrice |-> OrderPrice(r, accepted), pc |-> "locking",
          order |-> NoOrder, unsettled |-> << >>])
  /\ UNCHANGED <<allVars, accounts, rows, tradeRows, ledger, deletes, lost>>

At(i, pc) == EngineFree /\ posts[i].pc = pc
Goto(i, pc) == posts' = [posts EXCEPT ![i].pc = pc]

LockAmount(p) ==
  Cost(p.request.side, p.orderPrice, EffectiveQty(p))

\* The balance lockFundsForOrder looks at, and the CHECKs of table accounts, which
\* a negative amount may run into.
CanLock(p) ==
  LET account == accounts[p.user][PaysWith(p.request.side)]
  IN  account.available >= LockAmount(p) /\ account.locked + LockAmount(p) >= 0

InsertRow(i, status) ==
  LET p == posts[i]
      r == p.request
      row == [user |-> p.user, side |-> r.side, type |-> r.type,
              price |-> IF r.type \in {"LIMIT", "ICEBERG"} THEN p.orderPrice ELSE 0,
              quantity |-> r.quantity, filled |-> 0, status |-> status]
  IN  rows' = [j \in DOMAIN rows \union {i} |-> IF j = i THEN row ELSE rows[j]]

\* lockFundsForOrder throws, the transaction is rolled back: 400.
RefuseForFunds(i) ==
  /\ At(i, "locking")
  /\ ~ IsStop(posts[i].request)
  /\ ~ CanLock(posts[i])
  /\ Goto(i, "done")
  /\ UNCHANGED <<allVars, accounts, rows, tradeRows, ledger, deletes, lost>>

LockAndInsert(i) ==
  LET p == posts[i]
      currency == PaysWith(p.request.side)
  IN  /\ At(i, "locking")
      /\ ~ IsStop(p.request)
      /\ CanLock(p)
      /\ accounts' = Lock(p.user, currency, LockAmount(p))
      /\ InsertRow(i, "OPEN")
      /\ Goto(i, "submitting")
      /\ UNCHANGED <<allVars, tradeRows, ledger, deletes, lost>>

\* A stop order locks nothing.
InsertStop(i) ==
  /\ At(i, "locking")
  /\ IsStop(posts[i].request)
  /\ InsertRow(i, "PENDING")
  /\ Goto(i, "submitting")
  /\ UNCHANGED <<allVars, accounts, tradeRows, ledger, deletes, lost>>

\* validateOrder throws: 400, but the row and the lock have been committed.
SubmitThrows(i) ==
  /\ At(i, "submitting")
  /\ ~ posts[i].accepted
  /\ Goto(i, "done")
  /\ UNCHANGED <<allVars, accounts, rows, tradeRows, ledger, deletes, lost>>

\* submitOrder begins; the engine works on until it is idle again.
SubmitPost(i) ==
  LET p == posts[i]
      r == [p.request EXCEPT !.price = p.orderPrice]
  IN  /\ At(i, "submitting")
      /\ p.accepted
      /\ \/ SubmitToBook(r)
         \/ SubmitStop(r, p.stopPrice, p.delta)
      /\ posts' = [posts EXCEPT ![i].pc = "matching", ![i].order = NewId]
      /\ UNCHANGED <<accounts, rows, tradeRows, ledger, deletes, lost>>

\* Mutant: a call that makes no trade is never resolved.
TakeTradesIfAny(i) ==
  /\ EngineIdle
  /\ posts[i].pc = "matching"
  /\ executed # << >>
  /\ posts' = [posts EXCEPT ![i].pc = "settling", ![i].unsettled = executed]
  /\ UNCHANGED <<allVars, accounts, rows, tradeRows, ledger, deletes, lost>>

\* submitOrder has returned its trades.
TakeTrades(i) ==
  /\ EngineIdle
  /\ posts[i].pc = "matching"
  /\ posts' = [posts EXCEPT ![i].pc = "settling", ![i].unsettled = executed]
  /\ UNCHANGED <<allVars, accounts, rows, tradeRows, ledger, deletes, lost>>

Settle(i) ==
  LET t == Head(posts[i].unsettled)
  IN  /\ At(i, "settling")
      /\ posts[i].unsettled # << >>
      /\ CanSettle(t)
      /\ accounts' = Pay(t)
      /\ ledger' = RecordTradeSettlement(t)
      /\ tradeRows' = Append(tradeRows, t)
      /\ rows' = FillRows(t)
      /\ posts' = [posts EXCEPT ![i].unsettled = Tail(@)]
      /\ UNCHANGED <<allVars, deletes, lost>>

\* Mutant: the error ends the loop.
SettleFailsAndStops(i) ==
  LET t == Head(posts[i].unsettled)
  IN  /\ At(i, "settling")
      /\ posts[i].unsettled # << >>
      /\ ~ CanSettle(t)
      /\ lost' = Append(lost, t)
      /\ posts' = [posts EXCEPT ![i].unsettled = << >>]
      /\ UNCHANGED <<allVars, accounts, rows, tradeRows, ledger, deletes>>

\* settleTrade throws and is rolled back: the error is logged, the loop goes on.
SettleFails(i) ==
  LET t == Head(posts[i].unsettled)
  IN  /\ At(i, "settling")
      /\ posts[i].unsettled # << >>
      /\ ~ CanSettle(t)
      /\ lost' = Append(lost, t)
      /\ posts' = [posts EXCEPT ![i].unsettled = Tail(@)]
      /\ UNCHANGED <<allVars, accounts, rows, tradeRows, ledger, deletes>>

\* The order object is the engine's own: its status is the one of this moment.
LiveOrder(i) == orders[posts[i].order]

Answer(i) ==
  /\ At(i, "settling")
  /\ posts[i].unsettled = << >>
  /\ LiveOrder(i).status # "CANCELLED"
  /\ Goto(i, "done")
  /\ UNCHANGED <<allVars, accounts, rows, tradeRows, ledger, deletes, lost>>

MarkCancelled(i) ==
  /\ At(i, "settling")
  /\ posts[i].unsettled = << >>
  /\ LiveOrder(i).status = "CANCELLED"
  /\ rows' = [rows EXCEPT ![i].status = "CANCELLED"]
  /\ Goto(i, "unlocking")
  /\ UNCHANGED <<allVars, accounts, tradeRows, ledger, deletes, lost>>

\* Funds for what the engine has left unfilled are unlocked; where the CHECK
\* refuses, the handler answers 400 and changes nothing.
UnlockRemainder(i) ==
  LET p == posts[i]
      currency == PaysWith(p.request.side)
      n == Cost(p.request.side, p.orderPrice, Remaining(LiveOrder(i)))
  IN  /\ At(i, "unlocking")
      /\ accounts' = IF CanUnlock(p.user, currency, n)
                     THEN Lock(p.user, currency, -n) ELSE accounts
      /\ Goto(i, "done")
      /\ UNCHANGED <<allVars, rows, tradeRows, ledger, deletes, lost>>

PostStep(i) ==
  \/ RefuseForFunds(i)
  \/ LockAndInsert(i)
  \/ InsertStop(i)
  \/ SubmitThrows(i)
  \/ SubmitPost(i)
  \/ TakeTrades(i)
  \/ Settle(i)
  \/ SettleFails(i)
  \/ Answer(i)
  \/ MarkCancelled(i)
  \/ UnlockRemainder(i)

-----------------------------------------------------------------------------
(***************************************************************************)
(* DELETE /api/orders/:id.                                                 *)
(***************************************************************************)

\* The row is read outside of any transaction, and never again.
ReadRow(d, i) ==
  /\ EngineFree
  /\ deletes[d].pc = "idle"
  /\ rows[i].status \notin {"FILLED", "CANCELLED"}
  /\ deletes' = [deletes EXCEPT ![d] =
       [pc |-> "cancelling", row |-> i,
        remaining |-> rows[i].quantity - rows[i].filled]]
  /\ UNCHANGED <<allVars, accounts, rows, tradeRows, ledger, posts, lost>>

DeleteAt(d, pc) == EngineFree /\ deletes[d].pc = pc
DeleteGoto(d, pc) == deletes' = [deletes EXCEPT ![d].pc = pc]

Known(id) == id \in orderIndex \union WaitingIds

\* cancelOrder of the engine throws where the symbol has no book: 500.
CancelThrows(d) ==
  /\ DeleteAt(d, "cancelling")
  /\ ~ posts[deletes[d].row].accepted
  /\ DeleteGoto(d, "done")
  /\ UNCHANGED <<allVars, accounts, rows, tradeRows, ledger, posts, lost>>

\* cancelOrder of the engine; that it may not know the id is not looked at.  Of
\* the orders the engine does not accept, only a stop has a symbol with a book.
CancelInEngine(d) ==
  LET p == posts[deletes[d].row]
      id == p.order
  IN  /\ DeleteAt(d, "cancelling")
      /\ p.accepted \/ IsStop(p.request)
      /\ \/ Known(id) /\ EngineCancel(id)
         \/ ~ Known(id) /\ UNCHANGED allVars
      /\ DeleteGoto(d, "unlocking")
      /\ UNCHANGED <<accounts, rows, tradeRows, ledger, posts, lost>>

DeleteAmount(d) ==
  LET row == rows[deletes[d].row]
  IN  Cost(row.side, row.price, deletes[d].remaining)

\* Funds for what the row said was unfilled are unlocked.
UnlockDeleted(d) ==
  LET row == rows[deletes[d].row]
      currency == PaysWith(row.side)
  IN  /\ DeleteAt(d, "unlocking")
      /\ CanUnlock(row.user, currency, DeleteAmount(d))
      /\ accounts' = Lock(row.user, currency, - DeleteAmount(d))
      /\ DeleteGoto(d, "marking")
      /\ UNCHANGED <<allVars, rows, tradeRows, ledger, posts, lost>>

\* The CHECK refuses: 500, and the row keeps the status it has.
UnlockDeletedFails(d) ==
  LET row == rows[deletes[d].row]
  IN  /\ DeleteAt(d, "unlocking")
      /\ ~ CanUnlock(row.user, PaysWith(row.side), DeleteAmount(d))
      /\ DeleteGoto(d, "done")
      /\ UNCHANGED <<allVars, accounts, rows, tradeRows, ledger, posts, lost>>

MarkDeleted(d) ==
  /\ DeleteAt(d, "marking")
  /\ rows' = [rows EXCEPT ![deletes[d].row].status = "CANCELLED"]
  /\ DeleteGoto(d, "done")
  /\ UNCHANGED <<allVars, accounts, tradeRows, ledger, posts, lost>>

DeleteStep(d) ==
  \/ CancelThrows(d)
  \/ CancelInEngine(d)
  \/ UnlockDeleted(d)
  \/ UnlockDeletedFails(d)
  \/ MarkDeleted(d)

-----------------------------------------------------------------------------
EngineWork == Work /\ UNCHANGED gatewayVars

Arrive ==
  \/ \E u \in Users, r \in Requests, stop \in StopPrices, delta \in Deltas :
       ReceivePost(u, r, stop, delta)
  \/ \E d \in Deletes : \E i \in DOMAIN rows : ReadRow(d, i)

GatewayNext ==
  \/ Arrive
  \/ EngineWork
  \/ \E i \in 1..Len(posts) : PostStep(i)
  \/ \E d \in Deletes : DeleteStep(d)

\* A call of the engine runs to its end, and the database answers every handler.
\* Requests need not arrive.
GatewaySpec ==
  /\ GatewayInit
  /\ [][GatewayNext]_systemVars
  /\ WF_systemVars(EngineWork)
  /\ \A i \in 1..MaxPosts : WF_systemVars(i \in 1..Len(posts) /\ PostStep(i))
-----------------------------------------------------------------------------
(***************************************************************************)
(* Properties.                                                             *)
(***************************************************************************)
SumOf(Amount(_), set) ==
  FoldSet(LAMBDA x, sum : sum + Amount(x), 0, set)

\* Whatever handlers run into one another, fail or are rolled back: every
\* balance is what the account began with plus the ledger's entries for it, and
\* over all accounts of a currency the credits equal the debits.
BalancesFollowLedger ==
  \A c \in Currency :
    /\ \A u \in Users :
         accounts[u][c].available + accounts[u][c].locked =
           Initial[c] + ledger[u][c]
    /\ SumOf(LAMBDA u : ledger[u][c], Users) = 0

\* What is traded of an order and still to be settled by some POST.
UnsettledQuantity(id) ==
  SumOf(LAMBDA i : TradedQuantity(id, posts[i].unsettled), 1..Len(posts))

\* What the engine has filled of an order is in the trades table, still to be
\* settled by some POST (of another client, when a stop fired), or logged as
\* lost: no fill is forgotten and none is settled twice.  The table of orders
\* agrees with the table of trades.
EveryFillAccountedFor ==
  EngineFree =>
    /\ \A id \in 1..Len(orders) :
         orders[id].filledQuantity =
           TradedQuantity(id, tradeRows) + UnsettledQuantity(id)
             + TradedQuantity(id, lost)
    /\ \A i \in DOMAIN rows :
         posts[i].order # NoOrder =>
           rows[i].filled = TradedQuantity(posts[i].order, tradeRows)

RowsOf(u, side) == {i \in DOMAIN rows : rows[i].user = u /\ rows[i].side = side}
Unfilled(i) == rows[i].quantity - rows[i].filled

\* "automatically refunded from `locked` to `available`", and "strictly matches the
\* sum of resting order commitments": with LIMIT orders and no cancellation, once
\* every POST is answered, an account has locked what its orders may still cost and
\* nothing for a purchase that was cheaper than its limit.
LocksMatchCommitments ==
  (\A i \in 1..Len(posts) : posts[i].pc = "done") =>
    \A u \in Users :
      /\ accounts[u]["base"].locked = SumOf(Unfilled, RowsOf(u, "SELL"))
      /\ accounts[u]["quote"].locked =
           SumOf(LAMBDA i : rows[i].price * Unfilled(i), RowsOf(u, "BUY"))

\* "Every match atomically generates 4 balanced ledger entries": no settlement
\* of a trade the engine has made is refused by the database.
EveryMatchSettles == lost = << >>

\* Nobody has asked for anything but a LIMIT order or for a cancellation so far.
OnlyLimits ==
  /\ \A i \in 1..Len(posts) : posts[i].request.type = "LIMIT"
  /\ \A d \in Deletes : deletes[d].pc = "idle"

\* For as long as there are only LIMIT orders, the locks of buyer and seller cover
\* every trade the engine makes, in whatever order the handlers lock and settle:
\* no settlement is refused.
LimitMatchesSettle == OnlyLimits => lost = << >>

\* "Guarantees commitments cannot be double-spent": the base currency a user has
\* locked covers every SELL order of the user that rests on the book.
CommitmentsCovered ==
  EngineFree =>
    \A u \in Users :
      accounts[u]["base"].locked >=
        SumOf(LAMBDA i : Remaining(LiveOrder(i)),
              {i \in 1..Len(posts) : /\ posts[i].user = u
                                     /\ posts[i].order \in orderIndex
                                     /\ posts[i].request.side = "SELL"})

\* Every POST is answered, with as many trades to settle as it may have made
\* and other handlers at work in between.
EveryPostIsAnswered ==
  \A i \in 1..MaxPosts :
    (i \in 1..Len(posts) ~> i \in 1..Len(posts) /\ posts[i].pc = "done")
=============================================================================
