# VelocityBook: TLA+ models and proofs

VelocityBook is an exchange simulator: a matching engine in memory
(`packages/engine`), a backend that locks funds, settles trades in PostgreSQL and
talks to the engine in process or over Redis (`packages/backend`), and a trading
terminal in the browser (`packages/frontend`).  This directory holds TLA+ modules
of its stateful parts, the TLC runs that check them on small instances, and
proofs that TLAPS checks for every value of the constants.

## 1. Inventory

| Component | Code | State | Operations | What makes it correct |
|---|---|---|---|---|
| Order book | `engine/src/OrderBook.ts` | `bids`, `asks` (price levels with FIFO queues and a running total), `orderIndex` | `addOrder`, `matchMarketOrder`, `cancelOrder` | price-time priority; index, queues and totals agree; fill-or-kill is all or nothing; no quantity made or lost |
| Trigger registry | `engine/src/TriggerRegistry.ts` | waiting stops per symbol, low and high marks per symbol | `register`, `cancel`, `onTradeTick` | no stop lost or run twice; nothing due is left waiting; stops move one way |
| Matching engine | `engine/src/MatchingEngine.ts` | the books, the registry | `submitOrder`, `cancelOrder` | a stop is in one place; all trades are returned; a finished order stays finished; calls return |
| Order gateway | `backend/src/routes/orders.ts` | the `orders` table | `POST`, `DELETE /api/orders` | funds locked for an order are released or spent exactly once, whatever handlers interleave |
| Risk, settlement, ledger | `RiskService.ts`, `SettlementService.ts`, `LedgerService.ts`, `db/` | `accounts`, `ledger_entries`, `trades` | lock, unlock, deposit, settle | no money made or lost; no negative balance; a failed settlement leaves nothing behind |
| Cluster router and worker | `EngineClusterRouter.ts`, `EngineWorker.ts` | pending requests with timers, cached snapshots, heartbeats | submit, cancel, reply, time-out, health check | each request is answered once, with what the worker did for it; the cached book follows the worker's |
| Market maker bot | `MarketMakerBot.ts` | `activeOrderIds`: its orders and what it thinks is left of them | `start`, `tick`, `placeMMOrder` | what rests on the book is recorded, and its funds are not given back before it is off it; a tick ends |
| Replay service | `ReplayService.ts`, `routes/replay.ts` | the session, position, speed, timer | start, pause, resume, stop, setSpeed | one timer chain; every trade once and in order; a running replay ends |
| WebSocket server, Redis publisher, browser client | `websocket/`, `stores/useWebSocket.ts`, `stores/useTradeStore.ts`, `components/RecentTrades.tsx` | sockets, subscriptions, reconnect timer, the tape | connect, close, subscribe, broadcast, fetch | the page gets back to a socket subscribed to what it shows; nothing is shown twice |
| Serializer | `engine/src/serialization/ProtocolSerializer.ts` | none | encode, decode | round trip |
| Auth, reports, metrics, read-only routes, UI, scripts | the rest | none that others rely on | | |

How they interact: `POST /api/orders` locks funds in one transaction, hands the
order to the engine (a synchronous call in local mode, a request over Redis in
cluster mode), settles each returned trade in a transaction of its own, and
unlocks what a cancelled order did not use.  `DELETE` reads the row, cancels in
the engine, unlocks and updates the row, each in a step of its own.  The bot does
the same from a timer.  The engine and the registry share the order *objects*:
the registry promotes a stop to MARKET by assignment, and the handler that
submitted an order sees its status change while it awaits.

What is hard here: refilling an iceberg inside the loop that is matching it;
running totals and early-exit searches that trust every earlier update; a call
that trades, triggers stops and trades again; handlers that read, await and then
act; answers that arrive after their time-out; messages that nobody was subscribed to;
timers whose handle was overwritten; ticks of an interval that overlap.  `PROJECT.json` lists each of these
hazards at its line, with the properties that would catch it.

## 2. Plan

Done:

1. `BookOps`, `OrderBook`: the matching core, with proofs.
2. `TriggerRegistry`, with proofs.
3. `MatchingEngine`: book and registry composed, with liveness.
4. `OrderGateway`: POST and DELETE, accounts, settlement, ledger, over the engine.
5. `PriceTimeBook`: the abstract book that `OrderBook` implements.
6. `ProtocolSerializer`, with proofs; `EngineCluster` over it: the router, the worker
   and the pub/sub between them; `MarketMakerBot` as their client.
7. `ReplayService`, `WebSocketServer` and `LiveFeed`, which composes both with the
   browser's hook.
8. `MatchingEngineProofs`, `OrderGatewayProofs`, `LiveFeedProofs`, the sums over
   queues and lists in `BookOpsProofs` and `OrderBookProofs`, and the refinement of
   `PriceTimeBook` by `OrderBook`.
9. `ClusterProofs`: the router, the worker and the bot, for any number of calls,
   ticks, clients and faults.

To do:

10. The four row locks of `settleTrade` taken one by one (two settlements with the
    roles swapped), and the faucet.

## 3. The modules and the code

Names follow the source where TLA+ allows it.  `PROJECT.json` maps every
definition to its lines.

| Module | Models | State | One action is |
|---|---|---|---|
| `BookOps` | helpers of `OrderBook.ts`: searching, inserting into and removing from a level list, the fill-or-kill pre-walk, iceberg slices | none (operators) | |
| `OrderBook` | `OrderBook.ts` for one symbol | `orders` (the order objects, numbered in order of creation), `levels` (`bids`, `asks`), `orderIndex`, `incoming` and `call` (the running call), `trades` | a call up to its matching loop, one iteration of the loop of `matchAtLevel`, or what follows the loops |
| `TriggerRegistry` | `TriggerRegistry.ts` | `pending`, `highWaterBuy`, `highWaterSell`, `activated` (what the last tick returned) | a call: `register`, `cancel`, `onTradeTick` |
| `MatchingEngine` | `submitOrder`, `cancelOrder` of `MatchingEngine.ts` | the two above, `stage`, `executed`, `lastTradePrice`, `sweptOrder` | a step of the book, the one tick of the registry, the start or the end of the sweep of one activated stop |
| `OrderGateway` | `orders.ts` POST and DELETE, `RiskService`, `SettlementService`, `LedgerService`, `pool.ts`, the constraints of `schema.sql` | the tables `accounts`, `rows` (of `orders`), `tradeRows`, `ledger` (net entries per account), the handlers `posts` and `deletes`, `lost` (settlements that threw) | what a handler does between two `await`s; a transaction is one action |
| `PriceTimeBook` | nothing of its own: what an order book promises | a set of `resting` offers, one `taker`, the `last` id | `Take`, `Rest`, `Withdraw`, ... |
| `ProtocolSerializer` | `ProtocolSerializer.ts` | none (functions between records) | |
| `EngineCluster` | `EngineClusterRouter.ts`, `EngineWorker.ts`, Redis between them, for one symbol | `calls` and `pendingRequests` of the router, `snapshotCache`, the two channels, the worker's orders and its `handlers` that await a publish | a publish, an acknowledgement, a time-out, a message received, the part of a worker's handler between two awaits, a fault |
| `MarketMakerBot` | `MarketMakerBot.ts` over `EngineCluster`, and the POST handlers of other clients | `threads` (`start()` and each run of the interval's callback), `activeOrderIds`, `userOrders` (the POST handlers and how many trades each has settled), `locked` (the `locked_balance` of the bot's two accounts, each one pool for all orders of a side) | what a run does between two awaits |
| `ReplayService` | `ReplayService.ts`, `routes/replay.ts` | `active`, `paused`, `trades`, `currentIndex`, `timer`, `strays` (timeouts nothing refers to any more), `starting` (calls that await their rows), the histories `replayed`, `session` and `overtaken` | a call up to its await, what follows it, a timeout |
| `WebSocketServer` | `WebSocketServer.ts` | `clients` | a connection, a message, a close |
| `LiveFeed` | `useWebSocket.ts`, `useTradeStore.ts`, the fetch of `RecentTrades.tsx`, over the two above | `sockets` (with a queue each way), `wsRef`, the reconnect timeouts, the page's user and symbol, `recentTrades`, `fetching`, the trades `stored` by the engine, the history `chain` | an event of the hook, of the server or of the replay |
| `*Proofs` | | | lemmas and theorems |
| `MC*` | | | constants for TLC |

Choices that matter:

- *Order ids are creation order.*  The code's ids are UUIDs and its time priority
  is the position in a queue.  Numbering the objects lets a property compare
  positions with arrival.  An iceberg slice that replaces a filled one is a new
  object with a new number, as it is in the code (`${id}-ice-...`).
- *Calls are split into steps although nothing interrupts them*, so that action
  properties can speak of a single fill.  `incoming` and `stage` make every other
  operation wait; in `OrderGateway` the handlers wait too (`EngineFree`), because
  Node runs the synchronous part of `submitOrder` to its end.
- *Decimals are natural numbers.*  The code uses exact decimals and none of the
  modelled operations divides, except the default iceberg display and the two
  estimates 1.1 and 0.9 of the best price.  The module takes prices that are
  multiples of ten, so that the estimates are whole (`GatewayAssumption`).
- *A transaction is one step.*  It commits whole or not at all, and its UPDATEs are
  relative (`balance - $1`), so that row locks put any two on the same rows one
  after the other.  Its only refusals are those of the code (too little available)
  and of the schema (CHECK on the balances, foreign keys of `trades`).  Failures of
  the connection, and deadlocks between the row locks of one settlement and
  another, are not modelled.
- *The order object is shared.*  `LiveOrder(i)` reads the engine's object at the
  moment the handler looks, as `order.status` does after the awaits in `orders.ts`.

- *Messages are functions of the fields that were written.*  A field the schema does
  not declare is not sent, one that was not written reads as its default, a Decimal
  travels as text.  Bytes and field numbers are left out.
- *A handler of the worker is what it awaits.*  The worker executes a command in one
  synchronous call and then awaits one publish after another, while the next command
  may run: `left` counts the publishes before the reply.  The engine inside is one
  function in `EngineCluster` (price-time matching of LIMIT and MARKET orders, the only
  ones the bot makes); `OrderBook` takes it apart.
- *What is late counts as a fault.*  A time-out while the answer is on its way, a
  publish not acknowledged at once, a tick that starts before the one before has ended:
  each of them takes one of the `MaxFaults`, as a lost message or a crash does.
- *A failed publish has its catch block.*  Where Redis refuses the binary command, the
  router sends it as JSON (`AsJson`), from which the worker reads an order whose quantities
  are strings and refuses it; where that is refused too, the call throws while its timer
  stays armed.  Where a publish of the worker is refused, its handler goes on in the catch
  block and answers that the command failed.  A reply is sent again as JSON with the same
  content, so that resend is the same message here.
- *A pool, not a ledger.*  PostgreSQL has one `locked_balance` for each account, so an
  unlocking for one order may take what another has locked, as long as the CHECK allows
  it.  The model has no more than that (`locked`, `Take`), in `OrderGateway` as in
  `MarketMakerBot`.
- *Histories that tell copies apart.*  A trade of a replay carries the number of its
  `session`, and a trade on the tape the `chain` of sockets it came over (or that it was
  fetched).  `ReplayedOnce` and `TicksOnce` then hold without exception and say what is
  true: two chains of timers never emit the same trade twice, and of two open sockets
  each shows a broadcast once, so that the page shows it twice.  `ReplayedInOrder` is a
  promise to callers that wait, and says so by the flag `overtaken` (a start resumed after
  a later start or stop), which comes true in the run: then two chains of timers emit, and
  order is lost.

## 4. What the runs check

All runs are finite because the orders, stops, POSTs and DELETEs are bounded
(`MaxOrders`, `MaxStops`, `MaxPosts`, `Deletes`, `MaxTicks`, `MaxUserOrders`, `MaxFaults`,
`Budgets`).  At the bounds, when all have
been used, nothing is left to do, and the cfgs turn the deadlock check off for
that reason only.

| Run | Question | Properties |
|---|---|---|
| `orderbook` | Does the book stay sound under any four orders and cancellations? | `LevelsSorted`, `QueuesInArrivalOrder`, `IndexAgrees`, `DepthAgrees`, `FillOrKillIsAllOrNothing`, `OnlyIcebergsCross`, `PriceTimePriority`, `EveryFillIsATrade`, `MatchingConservesQuantity`, `ImplementsPriceTime` |
| `triggers` | Are stops fired when due, once, and moved one way? | `RegisteredOnce`, `MarksEnclose`, `StopsRatchet`, `TickLeavesNothingDue`, `TickLosesNoOrder` |
| `engine` | Do book and registry agree on where an order is, and does each call return all its fills? | `StopsAccountedFor`, `LastPriceEvaluated`, `DoneIsFinal`, `CallReportsEveryFill`, `SubmitReturns` |
| `gateway` | With three POSTs (LIMIT, MARKET, STOP_LOSS) and a DELETE interleaved in any way, does money move only with the ledger, and is each fill accounted for? | `BalancesFollowLedger`, `EveryFillAccountedFor` |
| `gateway_limits` | With LIMIT and ICEBERG orders, is every POST answered although settlements fail, and does none fail as long as there are LIMIT orders only? | `LimitMatchesSettle`, `EveryPostIsAnswered` |
| `cluster` | With the bot, another client and one fault anywhere, are answers true and about the right call, is the cache right, is what rests recorded, is nothing released that still rests, does every tick end? | `AnswersAreTrue`, `CacheFollowsBook`, `RestingIsRecorded`, `ReleasedIsOffBook`, `EveryTickEnds` |
| `feed` | Does a replay play each trade once, in order where no start was overtaken, and to the end; does the page get back to the stream of what it shows, and how often may it show a tick? | `ReplayedOnce`, `ReplayedInOrder`, `ReplayFinishes`, `TicksOnce`, `FeedRecovers` |

Each passing run of a module also checks its type invariant, and each property has
a mutant in `PROJECT.json`: a definition changed the way a bug would change it
(commented `Mutant:`, above the original), under which the run
must fail.

Bounds.  Four orders are enough for a queue of three with a cancellation from the
middle, a level opened between two others, an iceberg refilled twice by one
taker, and a fill-or-kill that spans two levels.  Five in `engine` let one tick
fire two stops whose sweeps compete for what is left.  Two symbols and two stops
show that marks and orders of one symbol do not disturb another's, and that one
tick may fire one stop and move the next.  Three
POSTs of two clients let a stop of one client be fired by another's POST, which then
fails to settle its trade (a stop has locked nothing), and a settlement fail because a
DELETE has unlocked its funds; `Acceptances` lets the engine refuse an order after its
funds were locked, and `Displays` lets an ICEBERG be given a display quantity of zero or
below, which is what is locked for it.  A trailing delta in `triggers` may be negative,
for nothing checks its sign.  The balances
are such that a third order may be refused for funds.  `gateway` uses the symmetry
of the two clients: it checks invariants only, and no definition tells clients
apart.

In `cluster` one quote of two units, one order of another client that takes half of it
and two ticks, of which the second may start before the first has ended, let a fill, a
cancellation, an unlocking and a replacement of the same order come in every order, with
one fault at any point.  The refusal of an unlocking by the CHECK on the locked balance
that all the bot's orders of a side share, two workers' runs and a late reply all
happen, and so does the crash of the gateway, which takes one fault: a publish that
stalls until its timer fires.  What needs two faults does not: a late answer after a
lost message, or a refused publish and then a restart, are covered only by the proofs
of section 5, which are for any `MaxFaults`.  In `feed` a tape and sessions of two trades let a session end
while another starts, and a fetch return while a tick is on its way; the budgets are mixes of replay calls, engine trades, page changes
and lost connections, each small, such as three overlapping calls, or two page changes
around a trade.

Fairness.  `EngineSpec` has weak fairness of `Work`, the rest of a call that has
begun: the code is a loop, and nothing else runs.  `GatewaySpec` has that, and weak
fairness of each POST handler: PostgreSQL answers, and the event loop resumes a
handler whose promise is settled.  No request need ever arrive, and nothing is
assumed of DELETE.  `MarketMakerBot` has weak fairness of `Progress` as a whole, timers,
database and the delivery by a worker and a Redis that are up: nothing obliges a
worker to stay up or to be started again.  `LiveFeed` has weak fairness of its
`Progress`: timeouts fire and messages, connection attempts and rows arrive; no caller,
user or trader need ever act.

### Disagreements between the code and its documents

Each is a run that TLC must find violated.

| Run | What the code does | What is said |
|---|---|---|
| `engine_ticks` | Only the last price of a call is shown to the registry. | "On each trade: evaluate trigger registry" (`MatchingEngine.ts:54`) |
| `gateway_refund` | `settleTrade` debits the price of the trade where the limit was locked, and the difference is never unlocked. | "price improvement difference is automatically refunded from `locked` to `available`" (`docs/TRADE_LIFECYCLE.md:111`, and its diagram at line 59) |
| `gateway_cancel` | A DELETE between the insertion of the row and `submitOrder` unlocks the funds of an order that then rests. | "commitments cannot be double-spent" (`README.md:36`) |
| `gateway_iceberg` | The second slice of an iceberg has no row in `orders`: its trades cannot be settled, and the error is only logged. | "Every match atomically generates 4 balanced ledger entries" (`README.md:30`) |
| `bot_locks` | The bot releases what it recorded at the submit of an order, whatever has been filled since. | "**No Orphaned Locks**" (`docs/ARCHITECTURE.md:97`) |

`SurplusIsTheImprovement` proves of `gateway_refund` how much it is: with LIMIT orders and
nothing cancelled, what is locked beyond the commitments is exactly what the purchases
saved.  A neighbour of these, without a run of its own: a fired stop that fills in part stays
PARTIALLY_FILLED (`MatchingEngine.ts:97`) although it rests nowhere, where a MARKET order that was
submitted as one is cancelled (`OrderBook.ts:116`).

## 5. What is proved

TLAPS proves the following for every set of requests, users, symbols and prices, any
number of calls and every value of the bounds.  The assumptions on the constants are
the named ones, which TLC evaluates:

| Assumption | Says | Because |
|---|---|---|
| `BookAssumption` | requests have positive quantities and known sides and types | `orders.ts` rejects the others |
| `EngineAssumption`, `RegistryAssumption` | orders that can rest have a positive price, and so have stop prices; a trailing delta is any number, or absent (`NoDelta`) | 0 is the price of an order without one; nothing checks the sign of a delta |
| `GatewayAssumption` | finitely many users; every account begins with as much; prices are multiples of ten; a display quantity that the engine replaces by its default is absent (`NoDisplay`) or not positive; the engine may accept a POST's order or refuse it (`Acceptances`) | a sum over accounts needs the first; the third makes the 0.9 and 1.1 of an estimate whole; `orders.ts` checks neither the symbol nor the signs |
| `BotAssumption` | quotes and the orders of others have a side, a price and a positive quantity, and are LIMIT or MARKET; quotes carry the bot's user id and the others' orders another; the order across the spread has a positive quantity | `placeMMOrder` fills in all of it, and the quantity across the spread is at least 0.001 (`MarketMakerBot.ts:170`); `orders.ts` validates the others and takes their user id from the session |
| `FeedAssumption`, `ReplayAssumption` | the empty user id is one of the users; bounds are numbers | a page nobody has logged into |

*`OrderBookProofs`*: `TypeCorrect`, `LevelsAreSorted`, `QueuesAreInArrivalOrder`,
`IndexAndQueuesAgree`, `CrossedOnlyByIcebergs`, `PriceTimePriorityHolds`,
`EveryFillIsReported`, `DepthAgreesAlways`, `FillOrKillsAreAllOrNothing`,
`MatchingConserves`.

No one of these is inductive.  `levels[1]` is the best price only if the list is
sorted; an insertion keeps it sorted only if the two early-exit searches meet a
sorted list without empty levels; a level is removed when its queue empties, and
what is in a queue is known only through the index; and a fill leaves a resting
order open only if its remaining quantity was positive.  So the invariant is

    Inv == TypeOK /\ OrdersSound /\ SidesGood /\ BookMatchesIndex
             /\ IndexedOpen /\ IncomingApart

`OrdersSound` keeps fills within quantities and iceberg displays positive,
`SidesGood` is sortedness, non-empty levels and strictly increasing queues of one
side, `BookMatchesIndex` says which orders the queues hold, `IndexedOpen` that they
have something left, and `IncomingApart` that the order being matched is not
itself on the book.  `BookOpsProofs` has the lemmas on one level list: what
`InsertOrder`, `RemoveOrder` and `DropDepleted` do to a good side and to the orders
it holds.  `OrderBookProofs` has one lemma per action of `Next`, `InvInit`,
`InvStep` and the theorems.  That LIMIT orders do not cross needs a second
invariant, `NoLimitCross`, proved from the first: when a call ends with nothing
more to match, no level on the other side is within the price of the order that is
about to rest.

*Sums.*  `DepthAgrees` and every property about money or fills is a fold, and a fold
of the community modules is a recursion over a set or a sequence.  `BookOpsProofs`
begins with what is needed to reason about one: induction over numbers and over the
subsets of a finite set for a *set* of them (`NumberInduction`, `SubsetInduction`, from
the well-foundedness of `<`), and `Total(f, S)`, the sum of `f` over `S` in any order,
with lemmas on what it becomes when a summand comes, goes, changes or is renamed
(`TotalAdd`, `TotalChange`, `TotalUnion`, `TotalRenamed`).  `QueueSumIsTotal`,
`TradedIsTotal`, `LedgerSumIsTotal` and `UnsettledIsTotal` reduce the folds that the
models use to it, each by unfolding the community module's definition.

*The totals of the levels.*  `DepthSound` says what a level publishes without speaking of
its queue: the total of what the indexed orders of that side and price have left.
An action then changes one summand and one level (`DepthAtOnePrice`), and
`QueueAddsUp` goes back to the queues.  For FILL_OR_KILL, `WalkHolds` carries the
result of `canFillEntirely` through the matching loop: what the order still wants is at
most what the opposite side has left (`SideTotal`).  `WalkIsCovered` shows that the walk
of the levels establishes it, although it adds up the published totals and never looks
at an order; `WalkAfterMatch` that each fill, and each slice that replaces one, keeps it;
and `WalkLeavesNothing` that the loops cannot end with something left.
`MatchingConserves` adds up what the resting orders can give, hidden quantity included:
a step exchanges one order of the side for none, itself or the next slice
(`LiquidityOfSwap`), and the difference is the fill.

*The refinement.*  `PriceTimeRefinement`, at the end of the module, says that
`OrderBook` implements `PriceTimeBook`.  The mapping (`Offers`, `Matching` in `OrderBook`) forgets levels,
queues, the index and the loop the call is in: a resting offer is an indexed order
with its side, price and quantities, the taker is the order a call is matching.  The
invariant above carries the proof.  `HeadPrecedes` makes the head
of the best level the abstract book's first offer (`HeadIsTaken`), and
`NothingLeftToCross` makes a taker that leaves or rests one that is done.  One fact is
missing from it: that only promoted stops, which are MARKET orders, are handed to
`matchMarketOrder` directly (`MarketCall`), for otherwise that loop would carry a
LIMIT order past its price.  There is one lemma per action, and each says which step
of the abstract book it is.

*`MatchingEngineProofs`*: `EngineTypeCorrect`, `StopsAreAccountedFor`,
`LastPriceIsEvaluated`, `EngineBookIsSound`, `DoneOrdersAreFinal`,
`CallsReportEveryFill`.  The book's steps are here steps of a larger system, in which
orders that were never submitted to the book enter it from a sweep, so the book's
invariant is proved again under `EngineNext` from the lemmas of `OrderBookProofs`.
The invariant is `EngineInv`: the book's `Inv`, what each stage means (`Stages`), that
the registry holds exactly the stop orders that wait (`StopsKept`), that what was
activated is promoted and nobody has touched it (`SweepSound`), that no stop waits that
the last price should have fired (`LastPriceSeen`), and what an order object can be
(`ObjectsGood`).  The last one is what makes `DoneIsFinal` hold in a sweep: the
promoted stop is the same object, and it must not be done.  `CallReportsEveryFill`
adds `ReportInv`, that the lists of the running call name only orders that exist;
`TradedOfBoth` splits the sum over a concatenation.

*`OrderGatewayProofs`*: `HandlersInvariance`, `GatewayTypeCorrect`,
`BalancesAlwaysFollowLedger`, `EveryFillIsAccountedFor`, and, for as long as `OnlyLimits`
holds, `EveryLimitMatchSettles` and `SurplusIsTheImprovement`, for any number of handlers
that interleave at their awaits.  `HandlersGood` is the invariant of the engine with
what every POST and DELETE holds at each of its program counters, that a row that
can be deleted is not overfilled (else DELETE would unlock a negative amount), and that
the engine works for one POST at most (`OneCall`).  On top of it are three books:

- *Money.*  Every action satisfies `MoneyMoves`: what a balance moves by is what the
  ledger moves by, and the ledger's entries for a currency keep their total.  `Paid`
  and `Recorded` show it for a settlement, whose four updates and four entries may fall
  on the same account: nothing forbids buyer and seller to be one user, and the model
  therefore applies them one after the other, as the transaction does.
- *Fills.*  `FillsGood` states `EveryFillAccountedFor` at every moment, with what the
  running call has traded so far (`Running`) as a fourth place where a fill can be.
  `CallReportsEveryFill` says what a step of the engine adds to it; when the call
  returns, it becomes what the POST has to settle; and each settlement moves one
  trade into the table or, when it throws, into `lost`.  That no two POSTs hold
  the same order (`OrdersApart`) makes the row a settlement updates the right one.
- *Locks.*  `EveryLimitMatchSettles` and `SurplusIsTheImprovement` speak of the states in
  which `OnlyLimits` holds: nobody has asked for anything but a LIMIT order, or for a
  cancellation, so far.  Neither holds beyond it, and that is where the code stops
  being exact: a slice of an iceberg is settled against no row, a MARKET order locks
  an estimate, and a DELETE unlocks an order that may yet rest (`gateway_iceberg` and
  `gateway_cancel` show two of these).  The invariant is `LimitsGood`: every
  order of the engine is a LIMIT order, none is cancelled, and each trade is within its
  buyer's limit (`LimitBook`); each row says what its request and its order say, and
  each order has one (`RowsMatch`); nothing was lost and nothing is unlocked
  (`SettleGood`); and the locked amounts are, user by user, what the rows may
  still cost and what the purchases saved (`LocksGood`).  The two properties need each
  other: `FillsGood` leaves room in both rows for a trade still to be settled
  (`RowHasRoom`), so the locks cover it (`FundsCover`), so it is settled and not lost, so
  the next sum is exact.

*`LiveFeedProofs`*: `EachTradeReplayedOnce`, `ReplayIsInOrder`, `TicksAreShownOnce`,
`FeedTypeCorrect`, from `FeedInvariance`.
`Unrepeated` says that what was emitted since the last reset and what the pending timeouts
have captured are different trades, and that what the session has still to schedule is
among neither; a trade of an earlier session has another session number.  It holds for any
number of chains of timers, because each `scheduleNextTick` captures the trade at
`currentIndex`, which the tick before it has moved on.
`ReplayInv` says that of the starts that await their rows only the last to arrive is not
overtaken and that, while none has been resumed after a later one, the session is
reset as long as one waits, the emitted trades are the first `currentIndex` of the session,
and the one pending timeout is for the next.  `FeedInv` says that of the sockets of one
chain the page reads one at most (`Readers`), and that what is queued there is neither twice
in the queue nor on the tape from the same chain; a fetch replaces the whole tape by trades of the chain `Fetched`,
which are different because the stored trades are.

*`TriggerRegistryProofs`*: `TypeCorrect`, `RegisteredOnceCorrect`,
`MarksEncloseCorrect`, `NothingDueCorrect`, `LosesNoOrderCorrect`,
`RatchetCorrect`, from the conjunction of the first three.  `MarksEnclose` uses a history of
the prices each symbol was evaluated at (`seen`): the marks are its lowest and its highest.

*`ProtocolSerializerProofs`*: `OrderRoundTrip`, `TradeRoundTrip`, `CommandRoundTrip`,
`ResultRoundTrip` and `ZeroCopyRoundTrip`, for all values of the fields.  They say
exactly what the wire loses: absent trades read as an empty list, a depth of zero as
none, and in the fixed layout the digits that a double does not hold (`Exact`).  The
proofs compare the two records field by field; the fields are in one function of
the set of field names, so that no case of the proof depends on the number of fields.

*`ClusterProofs`*: `ClusterTypesHold`, `AnswersStayTrue`, `CacheStaysTrue`,
`RestingStaysRecorded`, `ReleasedStaysOffBook`, for every number of calls, ticks, clients
and faults.  They are one induction, `ClusterIsGood`, over two invariants:

- *The cluster.*  `ClusterInv` has a part for each place where a call can be.  A command
  in the channel is the encoding of a call that the worker has not run, and no two are
  of the same call (`CommandsGood`); a handler that awaits a publish, a reply in the
  channel, a reply the router has taken and an answer all say what `ran`, the
  record of the worker's work, says (`HandlersGood`, `MessagesGood`, `CallsGood`), and
  the decoding of what was encoded is where `CommandRoundTrip` and `ResultRoundTrip` are
  used; the pending requests are exactly the calls without an answer
  (`PendingGood`); and the newest snapshot, in the cache or still on its way, is the
  book of the worker unless a handler has another publish to make (`CacheGood`).
  `RanGood` and `EngineGood` tie the record to the engine: an order that was
  cancelled is off the book for good, and what its own trades gave it is part of its fills.
  What no step takes back is `Grows`: a call keeps its order and its final answer, `ran`
  its entries, the fills of an order do not shrink, and an order that has left the book does
  not come back.  The bot's proof needs nothing else of a step of the cluster.
- *The bot.*  `RecordsGood` says that each order of the bot is still awaited, was
  answered with a failure or a time-out or, if it rests, is recorded with at least what it
  has left; `ThreadsGood` that a thread in the middle of a tick holds the answer to its own
  call, and that the order whose funds it is about to release was run and is off the book
  for good (`Gone`).  How much it releases is not part of it: the record is stale and the
  pool is shared, and `bot_locks` shows that the sum is wrong.

The matching inside the worker is a nest of folds over sets, so the first part of the
module proves of it what the rest needs: `MakersAreListed` (the makers are resting orders,
each once), `OrderIsMatched` (nobody gets more than is left of him) and
`EngineAfterOrder`.

Only model-checked:

- liveness (`SubmitReturns`, `EveryPostIsAnswered`, `EveryTickEnds`, `FeedRecovers`,
  `ReplayFinishes`), which rests on fairness and ENABLED, out of the prover's reach.

## 6. What is not modelled

- The queries and snapshots of the book (they only read); validation of requests,
  broadcasts and metrics in the gateway; failures of the database other than
  refusals; the faucet.
- In the cluster: heartbeats and the shard map they overwrite (one worker owns the
  symbol throughout), GET_SNAPSHOT and GET_STATS, which nobody sends, a command or reply
  that ioredis sends a second time after its connection broke (it would be executed
  twice), the router's shutdown, which nobody calls,
  and the `trades:` channel, which the gateway does not subscribe to.  POST and DELETE
  are composed with the engine in the same process (`OrderGateway`), and with the
  cluster only as far as the bot and `UserSubmits` go.
- In the browser: order book messages and the stores they overwrite, the connected
  indicator, which a replaced socket's `onclose` sets to false beside an open one, the
  forms and charts.
- Authentication, reports, metrics, the scripts: no state that others rely on.
