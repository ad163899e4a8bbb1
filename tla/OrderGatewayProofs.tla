------------------------- MODULE OrderGatewayProofs -------------------------
(***************************************************************************)
(* Theorems about the life of an order between the client and the engine,  *)
(* for every set of users, requests and deletions, and whatever handlers   *)
(* run into one another.                                                   *)
(*                                                                         *)
(* The invariant says where every handler is and what it holds             *)
(* (PostsGood, DeletesGood, OneCall), on top of the invariant of the       *)
(* engine; the two books, of money and of fills, are kept on top of that.  *)
(***************************************************************************)
EXTENDS OrderGateway, MatchingEngineProofs

\* A POST handler p, the i-th to arrive, when the engine has created n orders and
\* D are the POSTs with a row: it has an order from its call of the engine on, a
\* row from its first transaction on, and trades to settle only while it settles.
PostGood(p, i, n, D) ==
  /\ p.order \in 0..n
  /\ p.pc \in {"matching", "settling", "unlocking"} => p.order # NoOrder
  /\ p.pc \in {"locking", "submitting"} => p.order = NoOrder
  /\ p.pc # "settling" => p.unsettled = << >>
  /\ Named(p.unsettled, n)
  /\ p.request.type \in {"LIMIT", "ICEBERG"} => p.orderPrice = p.request.price
  /\ p.pc = "submitting" \/ p.order # NoOrder => i \in D

PostsGood ==
  \A i \in 1..Len(posts) : PostGood(posts[i], i, Len(orders), DOMAIN rows)

\* A row that can still be deleted is not overfilled: DELETE unlocks the cost of
\* what is left of it.
RowsGood ==
  \A i \in DOMAIN rows :
    rows[i].status \notin {"FILLED", "CANCELLED"} =>
      rows[i].filled <= rows[i].quantity

DeletesGood ==
  \A d \in Deletes : deletes[d].pc # "idle" => deletes[d].row \in DOMAIN rows

InCall == \E i \in 1..Len(posts) : posts[i].pc = "matching"

\* The engine works for one POST at most, and for no one else.
OneCall ==
  /\ ~ EngineIdle => InCall
  /\ \A i, j \in 1..Len(posts) :
       posts[i].pc = "matching" /\ posts[j].pc = "matching" => i = j

HandlersGood ==
  /\ EngineInv
  /\ ReportInv
  /\ GatewayTypeOK
  /\ PostsGood
  /\ RowsGood
  /\ DeletesGood
  /\ OneCall

-----------------------------------------------------------------------------
(***************************************************************************)
(* What the types give.                                                    *)
(***************************************************************************)
LEMMA RequestFacts ==
  ASSUME NEW r \in Requests
  PROVE  /\ r \in Request /\ r.side \in Side /\ r.type \in OrderType
         /\ r.price \in Nat /\ r.quantity \in Nat \ {0} /\ r.displayQty \in Nat
         /\ r.type \in {"LIMIT", "ICEBERG"} => r.price > 0
<1>1. r \in Request
  BY BookAssumption
<1> QED
  BY <1>1, EngineAssumption DEF Request

LEMMA PostFields ==
  ASSUME NEW p \in Post
  PROVE  /\ p.user \in Users /\ p.request \in Requests
         /\ p.stopPrice \in Nat \ {0} /\ p.delta \in Int \union {NoDelta}
         /\ p.display \in Int \union {NoDisplay} /\ p.accepted \in BOOLEAN
         /\ p.orderPrice \in Nat /\ p.pc \in PostPc /\ p.order \in Nat
         /\ p.unsettled \in Seq(Trade)
<1>1. p.stopPrice \in StopPrices /\ p.delta \in Deltas
  BY DEF Post
<1> QED
  BY <1>1, EngineAssumption DEF Post

LEMMA HandlerFacts ==
  ASSUME HandlersGood
  PROVE  /\ EngineInv /\ ReportInv /\ Len(orders) \in Nat
         /\ posts \in Seq(Post) /\ Len(posts) \in Nat
         /\ \A i \in 1..Len(posts) :
              posts[i] \in Post /\ PostGood(posts[i], i, Len(orders), DOMAIN rows)
         /\ DOMAIN rows \subseteq 1..Len(posts)
         /\ \A i \in DOMAIN rows : rows[i] \in Row
         /\ accounts \in [Users -> [Currency -> Account]]
         /\ ledger \in [Users -> [Currency -> Int]]
         /\ deletes \in [Deletes -> Delete]
         /\ tradeRows \in Seq(Trade) /\ lost \in Seq(Trade)
<1>1. /\ EngineInv /\ ReportInv /\ posts \in Seq(Post) /\ PostsGood
      /\ DOMAIN rows \subseteq 1..Len(posts)
      /\ \A i \in DOMAIN rows : rows[i] \in Row
      /\ accounts \in [Users -> [Currency -> Account]]
      /\ ledger \in [Users -> [Currency -> Int]]
      /\ deletes \in [Deletes -> Delete]
      /\ tradeRows \in Seq(Trade) /\ lost \in Seq(Trade)
  BY DEF HandlersGood, GatewayTypeOK
<1>2. Len(orders) \in Nat /\ Len(posts) \in Nat
  BY <1>1, EngineFacts, LenProperties
<1>3. \A i \in 1..Len(posts) : posts[i] \in Post
  BY <1>1, ElementOfSeq
<1> QED
  BY <1>1, <1>2, <1>3 DEF PostsGood

\* The rest of a handler's view when only its own table entry moves.
LEMMA PostReplaced ==
  ASSUME NEW s \in Seq(Post), NEW i \in 1..Len(s), NEW q \in Post
  PROVE  LET new == [s EXCEPT ![i] = q]
         IN  /\ new \in Seq(Post) /\ Len(new) = Len(s)
             /\ \A j \in 1..Len(s) : new[j] = IF j = i THEN q ELSE s[j]
  BY ExceptSeq

LEMMA PostGoodKept ==
  ASSUME NEW p, NEW i, NEW m \in Nat, NEW n \in Nat, m <= n, NEW D, NEW E,
         D \subseteq E, PostGood(p, i, m, D)
  PROVE  PostGood(p, i, n, E)
<1>1. p.order \in 0..n /\ Named(p.unsettled, n)
  BY NamedAmongMore DEF PostGood
<1> QED
  BY <1>1 DEF PostGood

\* What a currency amount comes to.
LEMMA CostType ==
  ASSUME NEW side, NEW price \in Nat, NEW quantity \in Nat
  PROVE  Cost(side, price, quantity) \in Nat
<1>1. price * quantity \in Nat
  OBVIOUS
<1> QED
  BY <1>1 DEF Cost

LEMMA OrderPriceType ==
  ASSUME EngineInv, NEW r \in Requests, NEW accepted \in BOOLEAN
  PROVE  /\ OrderPrice(r, accepted) \in Nat
         /\ r.type \in {"LIMIT", "ICEBERG"} => OrderPrice(r, accepted) = r.price
<1>1. r.price \in Nat /\ Opposite(r.side) \in Side
  BY RequestFacts DEF Side, Opposite
<1>2. EstimatedPrice(r.side, accepted) \in Nat
  <2> DEFINE list == levels[Opposite(r.side)]
  <2>1. list \in Seq(PriceLevel)
    BY <1>1 DEF EngineInv, EngineTypeOK, TypeOK
  <2>2. CASE ~ accepted \/ list = << >>
    BY <2>2 DEF EstimatedPrice
  <2>3. CASE accepted /\ list # << >>
    <3>1. 1 \in 1..Len(list)
      BY <2>1, <2>3, EmptySeq, LenProperties
    <3>2. list[1] \in PriceLevel
      BY <2>1, <3>1, ElementOfSeq
    <3>3. list[1].price \in Nat
      BY <3>2 DEF PriceLevel
    <3> DEFINE best == list[1].price
    <3>4. (best * 11) \div 10 \in Nat /\ (best * 9) \div 10 \in Nat
      <4> HIDE DEF best
      <4>1. best \in Nat
        BY <3>3 DEF best
      <4> QED
        BY <4>1
    <3>5. EstimatedPrice(r.side, accepted) \in {(best * 11) \div 10, (best * 9) \div 10}
      BY <2>3 DEF EstimatedPrice
    <3> QED
      BY <3>4, <3>5
  <2> QED
    BY <2>2, <2>3
<1> QED
  BY <1>1, <1>2 DEF OrderPrice

-----------------------------------------------------------------------------
(***************************************************************************)
(* Where the handlers are.                                                 *)
(***************************************************************************)
TablesGood ==
  /\ accounts \in [Users -> [Currency -> Account]]
  /\ ledger \in [Users -> [Currency -> Int]]
  /\ tradeRows \in Seq(Trade)
  /\ lost \in Seq(Trade)
  /\ DOMAIN rows \subseteq 1..Len(posts)
  /\ \A i \in DOMAIN rows : rows[i] \in Row
  /\ RowsGood

LEMMA TablesKept ==
  ASSUME HandlersGood
  PROVE  TablesGood
  BY DEF HandlersGood, GatewayTypeOK, TablesGood

LEMMA EngineUntouched ==
  ASSUME EngineInv, ReportInv, UNCHANGED allVars
  PROVE  /\ EngineInv' /\ ReportInv' /\ orders' = orders /\ stage' = stage
         /\ executed' = executed /\ Reported' = Reported /\ levels' = levels
<1>1. EngineInv' /\ ReportInv'
  BY EngineInvStep, ReportInvStep
<1> QED
  BY <1>1 DEF allVars, bookVars, engineVars, Reported

\* A POST handler moves.
LEMMA HandlerMoves ==
  ASSUME HandlersGood, EngineInv', ReportInv', Len(orders) <= Len(orders'),
         NEW i \in 1..Len(posts), NEW q \in Post,
         posts' = [posts EXCEPT ![i] = q], deletes' = deletes,
         PostGood(q, i, Len(orders'), DOMAIN rows'),
         DOMAIN rows \subseteq DOMAIN rows', TablesGood',
         q.pc = "matching" => ~ InCall,
         EngineIdle' \/ q.pc = "matching"
  PROVE  HandlersGood'
<1>1. /\ posts \in Seq(Post) /\ Len(posts) \in Nat /\ Len(orders) \in Nat
      /\ \A j \in 1..Len(posts) : PostGood(posts[j], j, Len(orders), DOMAIN rows)
      /\ deletes \in [Deletes -> Delete] /\ OneCall /\ DeletesGood
  BY HandlerFacts DEF HandlersGood
<1>2. /\ posts' \in Seq(Post) /\ Len(posts') = Len(posts)
      /\ \A j \in 1..Len(posts) : posts'[j] = IF j = i THEN q ELSE posts[j]
  BY <1>1, PostReplaced
<1>3. Len(orders') \in Nat
  BY LenProperties DEF EngineInv, EngineTypeOK, TypeOK
<1>4. PostsGood'
  <2>1. \A j \in 1..Len(posts) :
          PostGood(posts[j], j, Len(orders'), DOMAIN rows')
    BY <1>1, <1>3, PostGoodKept
  <2> QED
    BY <1>2, <2>1 DEF PostsGood, PostGood, Named
<1>5. GatewayTypeOK' /\ RowsGood'
  BY <1>1, <1>2 DEF GatewayTypeOK, TablesGood, EngineInv
<1>6. DeletesGood'
  BY <1>1 DEF DeletesGood
<1>7. OneCall'
  <2>1. ~ EngineIdle' => InCall'
    BY <1>2 DEF InCall
  <2>2. \A j, k \in 1..Len(posts) :
          posts'[j].pc = "matching" /\ posts'[k].pc = "matching" => j = k
    BY <1>1, <1>2 DEF OneCall, InCall
  <2> QED
    BY <1>2, <2>1, <2>2 DEF OneCall
<1> QED
  BY <1>4, <1>5, <1>6, <1>7 DEF HandlersGood

\* A DELETE handler moves.
LEMMA DeleteMoves ==
  ASSUME HandlersGood, EngineInv', ReportInv', Len(orders') = Len(orders),
         EngineIdle', NEW d \in Deletes, NEW e \in Delete, e.row \in DOMAIN rows,
         deletes' = [deletes EXCEPT ![d] = e], posts' = posts,
         DOMAIN rows' = DOMAIN rows, TablesGood'
  PROVE  HandlersGood'
<1>1. /\ posts \in Seq(Post) /\ deletes \in [Deletes -> Delete]
      /\ OneCall /\ DeletesGood /\ PostsGood
  BY HandlerFacts DEF HandlersGood
<1>2. GatewayTypeOK' /\ RowsGood'
  BY <1>1 DEF GatewayTypeOK, TablesGood, EngineInv
<1>3. DeletesGood'
  BY <1>1 DEF DeletesGood
<1>4. PostsGood'
  BY <1>1 DEF PostsGood, PostGood, Named
<1>5. OneCall'
  BY <1>1 DEF OneCall, InCall
<1> QED
  BY <1>2, <1>3, <1>4, <1>5 DEF HandlersGood

\* The engine works only inside of a call, and a call is some POST's.
LEMMA WorkIsInCall ==
  ASSUME HandlersGood, Work
  PROVE  ~ EngineIdle /\ InCall
<1>1. EngineInv /\ OneCall
  BY DEF HandlersGood
<1>2. ~ EngineIdle
  <2>1. CASE BookStep
    <3>1. ~ Idle
      BY <1>1, <2>1, MatchObjects, FinishObjects DEF BookStep, MoreToMatch
    <3> QED
      BY <1>1, <3>1 DEF EngineInv, Stages, EngineIdle
  <2>2. CASE EndSweep
    BY <1>1, <2>2 DEF EndSweep, EngineInv, Stages, EngineIdle
  <2> QED
    BY <2>1, <2>2
       DEF Work, ReturnNoTrades, EvaluateTriggers, SweepNext, ReturnTrades, EngineIdle
<1> QED
  BY <1>1, <1>2 DEF OneCall

LEMMA WorkKeepsHandlers ==
  ASSUME HandlersGood, EngineWork
  PROVE  HandlersGood'
<1>1. Work /\ UNCHANGED gatewayVars /\ EngineInv /\ ReportInv
  BY DEF EngineWork, HandlersGood
<1>2. EngineInv' /\ ReportInv' /\ InCall
  BY <1>1, WorkStep, WorkReports, WorkIsInCall
<1>3. /\ accounts' = accounts /\ rows' = rows /\ tradeRows' = tradeRows
      /\ ledger' = ledger /\ posts' = posts /\ deletes' = deletes /\ lost' = lost
  BY <1>1 DEF gatewayVars
<1>4. /\ Len(orders') \in Nat /\ Len(orders) <= Len(orders') /\ Len(orders) \in Nat
      /\ \A j \in 1..Len(posts) : PostGood(posts[j], j, Len(orders), DOMAIN rows)
  BY <1>1, WorkReports, HandlerFacts DEF FillsReported
<1>5. PostsGood'
  <2>1. \A j \in 1..Len(posts) : PostGood(posts[j], j, Len(orders'), DOMAIN rows)
    BY <1>4, PostGoodKept
  <2> QED
    BY <1>3, <2>1 DEF PostsGood, PostGood, Named
<1>6. GatewayTypeOK' /\ RowsGood' /\ DeletesGood'
  BY <1>2, <1>3
     DEF HandlersGood, GatewayTypeOK, RowsGood, DeletesGood, EngineInv
<1>7. OneCall'
  BY <1>2, <1>3 DEF HandlersGood, OneCall, InCall
<1> QED
  BY <1>2, <1>5, <1>6, <1>7 DEF HandlersGood

\* The handler that ReceivePost adds.
Received(p, r) ==
  /\ p \in Post /\ p.request = r /\ p.pc = "locking" /\ p.order = NoOrder
  /\ p.unsettled = << >>
  /\ r.type \in {"LIMIT", "ICEBERG"} => p.orderPrice = r.price

LEMMA ReceivedPost ==
  ASSUME EngineInv, NEW user \in Users, NEW r \in Requests,
         NEW stop \in StopPrices, NEW delta \in Deltas,
         ReceivePost(user, r, stop, delta)
  PROVE  \E p \in Post : Received(p, r) /\ posts' = Append(posts, p)
<1>1. PICK display \in GivenDisplays(r), accepted \in Acceptances :
        posts' = Append(posts,
          [user |-> user, request |-> r, stopPrice |-> stop, delta |-> delta,
           display |-> display, accepted |-> accepted,
           orderPrice |-> OrderPrice(r, accepted), pc |-> "locking",
           order |-> NoOrder, unsettled |-> << >>])
  BY DEF ReceivePost
<1> DEFINE p == [user |-> user, request |-> r, stopPrice |-> stop, delta |-> delta,
                 display |-> display, accepted |-> accepted,
                 orderPrice |-> OrderPrice(r, accepted), pc |-> "locking",
                 order |-> NoOrder, unsettled |-> << >>]
<1>2. accepted \in BOOLEAN
  BY <1>1, GatewayAssumption
<1>3. display \in Int \union {NoDisplay}
  BY <1>1, GatewayAssumption, RequestFacts DEF GivenDisplays
<1>4. /\ << >> \in Seq(Trade) /\ OrderPrice(r, accepted) \in Nat
      /\ r.type \in {"LIMIT", "ICEBERG"} => OrderPrice(r, accepted) = r.price
  BY <1>2, OrderPriceType, EmptySeq
<1>5. p \in Post
  BY <1>2, <1>3, <1>4 DEF Post, PostPc, NoOrder
<1>6. Received(p, r)
  BY <1>4, <1>5 DEF Received
<1> QED
  BY <1>1, <1>5, <1>6

LEMMA ReceiveKeepsHandlers ==
  ASSUME HandlersGood, NEW user \in Users, NEW r \in Requests,
         NEW stop \in StopPrices, NEW delta \in Deltas,
         ReceivePost(user, r, stop, delta)
  PROVE  HandlersGood'
<1>0. PICK p \in Post : Received(p, r) /\ posts' = Append(posts, p)
  BY ReceivedPost DEF HandlersGood
<1>1. /\ posts' = Append(posts, p) /\ UNCHANGED allVars
      /\ accounts' = accounts /\ rows' = rows /\ tradeRows' = tradeRows
      /\ ledger' = ledger /\ deletes' = deletes /\ lost' = lost
  BY <1>0 DEF ReceivePost
<1>2. /\ posts \in Seq(Post) /\ Len(posts) \in Nat /\ Len(orders) \in Nat
      /\ EngineInv /\ ReportInv
      /\ \A j \in 1..Len(posts) : PostGood(posts[j], j, Len(orders), DOMAIN rows)
      /\ DOMAIN rows \subseteq 1..Len(posts)
  BY HandlerFacts
<1>3. /\ EngineInv' /\ ReportInv' /\ orders' = orders /\ stage' = stage
  BY <1>1, <1>2, EngineUntouched
<1>4. /\ p \in Post /\ p.pc = "locking" /\ p.order = NoOrder
      /\ p.unsettled = << >> /\ p.request = r
      /\ r.type \in {"LIMIT", "ICEBERG"} => p.orderPrice = r.price
  BY <1>0 DEF Received
<1>5. /\ posts' \in Seq(Post) /\ Len(posts') = Len(posts) + 1
      /\ \A j \in 1..Len(posts) : posts'[j] = posts[j]
      /\ posts'[Len(posts) + 1] = p
  BY <1>1, <1>2, <1>4, AppendProperties
<1>6. \A j \in 1..Len(posts') : j \in 1..Len(posts) \/ j = Len(posts) + 1
  BY <1>2, <1>5
<1>7. PostGood(p, Len(posts) + 1, Len(orders), DOMAIN rows)
  <2>1. Named(<< >>, Len(orders)) /\ NoOrder \in 0..Len(orders)
    BY <1>2 DEF Named, NoOrder
  <2> QED
    BY <1>4, <2>1 DEF PostGood
<1>8. PostsGood'
  <2>1. \A j \in 1..Len(posts') : PostGood(posts'[j], j, Len(orders), DOMAIN rows)
    BY <1>2, <1>5, <1>6, <1>7
  <2> QED
    BY <1>1, <1>3, <2>1 DEF PostsGood, PostGood, Named
<1>9. GatewayTypeOK' /\ RowsGood' /\ DeletesGood'
  <2>1. DOMAIN rows' \subseteq 1..Len(posts')
    BY <1>1, <1>2, <1>5
  <2> QED
    BY <1>1, <1>3, <1>5, <2>1
       DEF HandlersGood, GatewayTypeOK, RowsGood, DeletesGood, EngineInv
<1>10. OneCall'
  <2>1. OneCall
    BY DEF HandlersGood
  <2>2. \A j \in 1..Len(posts') :
          posts'[j].pc = "matching" => j \in 1..Len(posts) /\ posts'[j] = posts[j]
    BY <1>4, <1>5, <1>6
  <2>3. InCall => InCall'
    <3>1. \A j \in 1..Len(posts) : j \in 1..Len(posts')
      BY <1>2, <1>5
    <3> QED
      BY <1>5, <3>1 DEF InCall
  <2> QED
    BY <1>3, <2>1, <2>2, <2>3 DEF OneCall, EngineIdle
<1> QED
  BY <1>3, <1>8, <1>9, <1>10 DEF HandlersGood

-----------------------------------------------------------------------------
(***************************************************************************)
(* The tables.                                                             *)
(***************************************************************************)
AccountTable == [Users -> [Currency -> Account]]

\* What moves between available and locked leaves the balance alone.
LEMMA Locked ==
  ASSUME accounts \in AccountTable, NEW u \in Users, NEW c \in Currency, NEW n \in Int,
         accounts[u][c].available - n \in Nat, accounts[u][c].locked + n \in Nat
  PROVE  /\ Lock(u, c, n) \in AccountTable
         /\ \A v \in Users : \A k \in Currency :
              Lock(u, c, n)[v][k].available + Lock(u, c, n)[v][k].locked =
                accounts[v][k].available + accounts[v][k].locked
<1> DEFINE old == accounts[u][c]
           entry == [available |-> old.available - n, locked |-> old.locked + n]
           row == [accounts[u] EXCEPT ![c] = entry]
           new == [accounts EXCEPT ![u] = row]
<1>1. /\ accounts \in [Users -> [Currency -> Account]]
      /\ accounts[u] \in [Currency -> Account] /\ old \in Account
      /\ old.available \in Nat /\ old.locked \in Nat
  BY DEF AccountTable, Account
<1>2. entry \in Account /\ entry.available + entry.locked = old.available + old.locked
  BY <1>1 DEF Account
<1>3. Lock(u, c, n) = new
  BY <1>1 DEF Lock
<1> HIDE DEF entry
<1>4. /\ row \in [Currency -> Account] /\ row[c] = entry
      /\ \A k \in Currency : k # c => row[k] = accounts[u][k]
  BY <1>1, <1>2
<1> HIDE DEF row
<1>5. /\ new \in AccountTable /\ new[u] = row
      /\ \A v \in Users : v # u => new[v] = accounts[v]
  BY <1>1, <1>4 DEF AccountTable
<1> HIDE DEF new
<1>6. \A v \in Users : \A k \in Currency :
        new[v][k].available + new[v][k].locked =
          accounts[v][k].available + accounts[v][k].locked
  <2> SUFFICES ASSUME NEW v \in Users, NEW k \in Currency
               PROVE  new[v][k].available + new[v][k].locked =
                        accounts[v][k].available + accounts[v][k].locked
    OBVIOUS
  <2>1. CASE v # u
    BY <1>5, <2>1
  <2>2. CASE v = u /\ k # c
    BY <1>4, <1>5, <2>2
  <2>3. CASE v = u /\ k = c
    BY <1>2, <1>4, <1>5, <2>3
  <2> QED
    BY <2>1, <2>2, <2>3
<1> QED
  BY <1>3, <1>5, <1>6

LEMMA RowFilledFacts ==
  ASSUME NEW row \in Row, NEW n \in Nat
  PROVE  LET new == RowFilled(row, n)
         IN  /\ new \in Row /\ new.filled = row.filled + n
             /\ new.status \notin {"FILLED", "CANCELLED"} => new.filled <= new.quantity
             /\ new.user = row.user /\ new.side = row.side
             /\ new.price = row.price /\ new.quantity = row.quantity
<1>1. row.filled \in Nat /\ row.quantity \in Nat
  BY DEF Row
<1> DEFINE status == IF row.filled + n >= row.quantity
                     THEN "FILLED" ELSE "PARTIALLY_FILLED"
           one == [row EXCEPT !.filled = row.filled + n]
           new == [one EXCEPT !.status = status]
<1>2. status \in OrderStatus /\ (status # "FILLED" => row.filled + n <= row.quantity)
  BY <1>1 DEF OrderStatus
<1>3. RowFilled(row, n) = new
  BY DEF RowFilled, Row
<1> HIDE DEF status
<1>4. /\ one \in Row /\ one.filled = row.filled + n /\ one.quantity = row.quantity
      /\ one.user = row.user /\ one.side = row.side /\ one.price = row.price
  BY <1>1 DEF Row
<1> HIDE DEF one
<1>5. /\ new \in Row /\ new.filled = one.filled /\ new.quantity = one.quantity
      /\ new.status = status
      /\ new.user = one.user /\ new.side = one.side /\ new.price = one.price
  BY <1>2, <1>4 DEF Row
<1> HIDE DEF new
<1> QED
  BY <1>2, <1>3, <1>4, <1>5

LEMMA RowMarked ==
  ASSUME NEW row \in Row
  PROVE  LET new == [row EXCEPT !.status = "CANCELLED"]
         IN  new \in Row /\ new.status = "CANCELLED" /\ new.filled = row.filled
  BY DEF Row, OrderStatus

\* The row of a POST that is marked CANCELLED.
LEMMA MarkKeepsRows ==
  ASSUME HandlersGood, NEW i \in DOMAIN rows,
         rows' = [rows EXCEPT ![i].status = "CANCELLED"], posts' \in Seq(Post),
         Len(posts') = Len(posts)
  PROVE  /\ DOMAIN rows' = DOMAIN rows /\ DOMAIN rows' \subseteq 1..Len(posts')
         /\ \A j \in DOMAIN rows' : rows'[j] \in Row
         /\ RowsGood'
         /\ \A j \in DOMAIN rows : rows'[j].filled = rows[j].filled
<1>1. /\ DOMAIN rows \subseteq 1..Len(posts) /\ \A j \in DOMAIN rows : rows[j] \in Row
      /\ RowsGood
  BY HandlerFacts DEF HandlersGood
<1> DEFINE new == [rows[i] EXCEPT !.status = "CANCELLED"]
<1>2. /\ DOMAIN rows' = DOMAIN rows
      /\ \A j \in DOMAIN rows : rows'[j] = IF j = i THEN new ELSE rows[j]
  OBVIOUS
<1>3. new \in Row /\ new.status = "CANCELLED" /\ new.filled = rows[i].filled
  BY <1>1, RowMarked
<1> HIDE DEF new
<1>4. RowsGood'
  BY <1>1, <1>2, <1>3 DEF RowsGood
<1> QED
  BY <1>1, <1>2, <1>3, <1>4

\* A new row is not filled; the others are what they were.
LEMMA InsertedRow ==
  ASSUME HandlersGood, NEW i \in 1..Len(posts),
         NEW status \in {"OPEN", "PENDING"}, InsertRow(i, status),
         posts' \in Seq(Post), Len(posts') = Len(posts)
  PROVE  /\ DOMAIN rows' = DOMAIN rows \union {i}
         /\ DOMAIN rows' \subseteq 1..Len(posts')
         /\ \A j \in DOMAIN rows' : rows'[j] \in Row
         /\ RowsGood'
         /\ rows'[i].filled = 0
         /\ \A j \in DOMAIN rows : j # i => rows'[j] = rows[j]
<1> DEFINE p == posts[i]
           r == p.request
           row == [user |-> p.user, side |-> r.side, type |-> r.type,
                   price |-> IF r.type \in {"LIMIT", "ICEBERG"}
                             THEN p.orderPrice ELSE 0,
                   quantity |-> r.quantity, filled |-> 0, status |-> status]
<1>1. /\ DOMAIN rows \subseteq 1..Len(posts) /\ \A j \in DOMAIN rows : rows[j] \in Row
      /\ RowsGood /\ p \in Post /\ Len(posts) \in Nat
  BY HandlerFacts DEF HandlersGood
<1>2. /\ p.user \in Users /\ p.orderPrice \in Nat /\ r \in Requests
  BY <1>1, PostFields
<1>3. r.side \in Side /\ r.type \in OrderType /\ r.quantity \in Nat \ {0}
  BY <1>2, RequestFacts
<1>4. rows' = [j \in DOMAIN rows \union {i} |-> IF j = i THEN row ELSE rows[j]]
  BY DEF InsertRow
<1>5. row \in Row /\ row.filled = 0 /\ row.quantity = r.quantity
  <2>1. status \in OrderStatus
    BY DEF OrderStatus
  <2>2. (IF r.type \in {"LIMIT", "ICEBERG"} THEN p.orderPrice ELSE 0) \in Nat
    BY <1>2
  <2> HIDE DEF p, r
  <2> QED
    BY <1>2, <1>3, <2>1, <2>2 DEF Row
<1> HIDE DEF row, p, r
<1>6. RowsGood'
  BY <1>1, <1>3, <1>4, <1>5 DEF RowsGood
<1> QED
  BY <1>1, <1>4, <1>5, <1>6

-----------------------------------------------------------------------------
(***************************************************************************)
(* A settlement.                                                           *)
(***************************************************************************)

\* The handler's next trade, and the rows and accounts it moves.
LEMMA SettlementFacts ==
  ASSUME HandlersGood, NEW i \in 1..Len(posts), posts[i].unsettled # << >>
  PROVE  LET t == Head(posts[i].unsettled)
         IN  /\ posts[i].unsettled \in Seq(Trade) /\ t \in Trade
             /\ Tail(posts[i].unsettled) \in Seq(Trade)
             /\ Named(Tail(posts[i].unsettled), Len(orders))
             /\ t.buyOrderId \in 1..Len(orders) /\ t.sellOrderId \in 1..Len(orders)
             /\ CanSettle(t) =>
                  /\ RowOf(t.buyOrderId) \in DOMAIN rows
                  /\ posts[RowOf(t.buyOrderId)].order = t.buyOrderId
                  /\ RowOf(t.sellOrderId) \in DOMAIN rows
                  /\ posts[RowOf(t.sellOrderId)].order = t.sellOrderId
                  /\ Buyer(t) \in Users /\ Seller(t) \in Users
<1> DEFINE list == posts[i].unsettled
           t == Head(list)
<1>1. /\ list \in Seq(Trade) /\ list # << >> /\ Named(list, Len(orders))
      /\ \A j \in DOMAIN rows : rows[j] \in Row
      /\ Len(orders) \in Nat
  BY HandlerFacts, PostFields, SMTT(30) DEF PostGood
<1>2. CanSettle(t) =>
        /\ RowOf(t.buyOrderId) \in DOMAIN rows
        /\ posts[RowOf(t.buyOrderId)].order = t.buyOrderId
        /\ RowOf(t.sellOrderId) \in DOMAIN rows
        /\ posts[RowOf(t.sellOrderId)].order = t.sellOrderId
  BY DEF CanSettle, HasRow, RowOf
<1>3. CanSettle(t) => Buyer(t) \in Users /\ Seller(t) \in Users
  BY <1>1, <1>2 DEF Buyer, Seller, Row
<1> HIDE DEF list
<1>4. /\ Head(list) = list[1] /\ Tail(list) \in Seq(Trade)
      /\ Len(list) \in Nat /\ 1 \in 1..Len(list)
      /\ Len(Tail(list)) = Len(list) - 1
      /\ \A j \in 1..Len(Tail(list)) : Tail(list)[j] = list[j + 1]
  BY <1>1, EmptySeq, LenProperties, HeadTailProperties
<1>5. t \in Trade
  BY <1>1, <1>4, ElementOfSeq
<1>6. Named(Tail(list), Len(orders))
  <2>1. \A j \in 1..Len(Tail(list)) : j + 1 \in 1..Len(list)
    BY <1>4
  <2> QED
    BY <1>1, <1>4, <2>1 DEF Named
<1>7. t.buyOrderId \in 1..Len(orders) /\ t.sellOrderId \in 1..Len(orders)
  BY <1>1, <1>4 DEF Named
<1> QED
  BY <1>1, <1>2, <1>3, <1>4, <1>5, <1>6, <1>7 DEF list

\* The four updates of a settlement, one at a time.
Released(table, u, c, n) == [table EXCEPT ![u][c].locked = @ - n]
Credited(table, u, c, n) == [table EXCEPT ![u][c].available = @ + n]
Balance(table, u, c) == table[u][c].available + table[u][c].locked

LEMMA ReleasedFacts ==
  ASSUME NEW table \in AccountTable, NEW u \in Users, NEW c \in Currency,
         NEW n \in Nat, table[u][c].locked >= n
  PROVE  LET new == Released(table, u, c, n)
         IN  /\ new \in AccountTable
             /\ \A v \in Users : \A k \in Currency :
                  /\ v # u \/ k # c => new[v][k] = table[v][k]
                  /\ new[v][k].available = table[v][k].available
                  /\ Balance(new, v, k) =
                       Balance(table, v, k) - (IF v = u /\ k = c THEN n ELSE 0)
<1> DEFINE old == table[u][c]
           entry == [old EXCEPT !.locked = @ - n]
           row == [table[u] EXCEPT ![c] = entry]
           new == [table EXCEPT ![u] = row]
<1>1. /\ table \in [Users -> [Currency -> Account]]
      /\ table[u] \in [Currency -> Account] /\ old \in Account
      /\ old.available \in Nat /\ old.locked \in Nat
      /\ \A v \in Users : \A k \in Currency :
           table[v][k].available \in Nat /\ table[v][k].locked \in Nat
  BY DEF AccountTable, Account
<1>2. /\ entry \in Account /\ entry.available = old.available
      /\ entry.locked = old.locked - n
  BY <1>1 DEF Account
<1>3. Released(table, u, c, n) = new
  BY <1>1 DEF Released
<1> HIDE DEF entry
<1>4. /\ row \in [Currency -> Account] /\ row[c] = entry
      /\ \A k \in Currency : k # c => row[k] = table[u][k]
  BY <1>1, <1>2
<1> HIDE DEF row
<1>5. /\ new \in AccountTable /\ new[u] = row
      /\ \A v \in Users : v # u => new[v] = table[v]
  BY <1>1, <1>4 DEF AccountTable
<1> HIDE DEF new
<1>6. \A v \in Users : \A k \in Currency : v # u \/ k # c => new[v][k] = table[v][k]
  BY <1>4, <1>5
<1>7. ASSUME NEW v \in Users, NEW k \in Currency
      PROVE  /\ new[v][k].available = table[v][k].available
             /\ Balance(new, v, k) =
                  Balance(table, v, k) - (IF v = u /\ k = c THEN n ELSE 0)
  <2>1. CASE v # u \/ k # c
    BY <1>1, <1>6, <2>1 DEF Balance
  <2>2. CASE v = u /\ k = c
    BY <1>1, <1>2, <1>4, <1>5, <2>2 DEF Balance
  <2> QED
    BY <2>1, <2>2
<1> QED
  BY <1>3, <1>5, <1>6, <1>7

LEMMA CreditedFacts ==
  ASSUME NEW table \in AccountTable, NEW u \in Users, NEW c \in Currency, NEW n \in Nat
  PROVE  LET new == Credited(table, u, c, n)
         IN  /\ new \in AccountTable
             /\ \A v \in Users : \A k \in Currency :
                  /\ v # u \/ k # c => new[v][k] = table[v][k]
                  /\ new[v][k].locked = table[v][k].locked
                  /\ Balance(new, v, k) =
                       Balance(table, v, k) + (IF v = u /\ k = c THEN n ELSE 0)
<1> DEFINE old == table[u][c]
           entry == [old EXCEPT !.available = @ + n]
           row == [table[u] EXCEPT ![c] = entry]
           new == [table EXCEPT ![u] = row]
<1>1. /\ table \in [Users -> [Currency -> Account]]
      /\ table[u] \in [Currency -> Account] /\ old \in Account
      /\ old.available \in Nat /\ old.locked \in Nat
      /\ \A v \in Users : \A k \in Currency :
           table[v][k].available \in Nat /\ table[v][k].locked \in Nat
  BY DEF AccountTable, Account
<1>2. /\ entry \in Account /\ entry.available = old.available + n
      /\ entry.locked = old.locked
  BY <1>1 DEF Account
<1>3. Credited(table, u, c, n) = new
  BY <1>1 DEF Credited
<1> HIDE DEF entry
<1>4. /\ row \in [Currency -> Account] /\ row[c] = entry
      /\ \A k \in Currency : k # c => row[k] = table[u][k]
  BY <1>1, <1>2
<1> HIDE DEF row
<1>5. /\ new \in AccountTable /\ new[u] = row
      /\ \A v \in Users : v # u => new[v] = table[v]
  BY <1>1, <1>4 DEF AccountTable
<1> HIDE DEF new
<1>6. \A v \in Users : \A k \in Currency : v # u \/ k # c => new[v][k] = table[v][k]
  BY <1>4, <1>5
<1>7. ASSUME NEW v \in Users, NEW k \in Currency
      PROVE  /\ new[v][k].locked = table[v][k].locked
             /\ Balance(new, v, k) =
                  Balance(table, v, k) + (IF v = u /\ k = c THEN n ELSE 0)
  <2>1. CASE v # u \/ k # c
    BY <1>1, <1>6, <2>1 DEF Balance
  <2>2. CASE v = u /\ k = c
    BY <1>1, <1>2, <1>4, <1>5, <2>2 DEF Balance
  <2> QED
    BY <2>1, <2>2
<1> QED
  BY <1>3, <1>5, <1>6, <1>7

\* What a settlement of q units for v does to the balance of u.
Change(b, s, v, q, u, c) ==
  IF c = "quote" THEN (IF u = s THEN v ELSE 0) - (IF u = b THEN v ELSE 0)
  ELSE (IF u = b THEN q ELSE 0) - (IF u = s THEN q ELSE 0)

\* What it takes of what u has locked.
Taken(b, s, v, q, u, c) ==
  IF c = "quote" THEN (IF u = b THEN v ELSE 0) ELSE (IF u = s THEN q ELSE 0)

Exchanged(table, b, s, v, q) ==
  [table EXCEPT ![b]["quote"].locked = @ - v, ![s]["quote"].available = @ + v,
                ![s]["base"].locked = @ - q, ![b]["base"].available = @ + q]

\* The quantities of a trade.
LEMMA TradeFields ==
  ASSUME NEW t \in Trade
  PROVE  t.price \in Nat /\ t.quantity \in Nat
BY SMTT(30) DEF Trade

\* The buyer gives up what it locked of one currency, the seller of the other.
LEMMA TakenCases ==
  ASSUME NEW b, NEW s, NEW v, NEW q, NEW u
  PROVE  /\ Taken(b, s, v, q, u, "quote") = IF u = b THEN v ELSE 0
         /\ Taken(b, s, v, q, u, "base") = IF u = s THEN q ELSE 0
BY DEF Taken

\* Nobody's balance goes below zero, and buyer and seller, who may be the same
\* user, exchange what they owe each other.
LEMMA Paid ==
  ASSUME NEW table \in AccountTable, NEW b \in Users, NEW s \in Users,
         NEW v \in Nat, NEW q \in Nat,
         table[b]["quote"].locked >= v, table[s]["base"].locked >= q
  PROVE  LET new == Exchanged(table, b, s, v, q)
         IN  /\ new \in AccountTable
             /\ \A u \in Users : \A c \in Currency :
                  /\ Balance(new, u, c) =
                       Balance(table, u, c) + Change(b, s, v, q, u, c)
                  /\ new[u][c].locked = table[u][c].locked - Taken(b, s, v, q, u, c)
<1> DEFINE one == Released(table, b, "quote", v)
           two == Credited(one, s, "quote", v)
           three == Released(two, s, "base", q)
           four == Credited(three, b, "base", q)
<1>1. "quote" \in Currency /\ "base" \in Currency /\ "quote" # "base"
  BY DEF Currency
<1>2. /\ one = [table EXCEPT ![b]["quote"].locked = @ - v]
      /\ two = [one EXCEPT ![s]["quote"].available = @ + v]
      /\ three = [two EXCEPT ![s]["base"].locked = @ - q]
      /\ four = [three EXCEPT ![b]["base"].available = @ + q]
  BY DEF Released, Credited
<1>3. /\ one \in AccountTable
      /\ \A u \in Users : \A c \in Currency :
           /\ u # b \/ c # "quote" => one[u][c] = table[u][c]
           /\ one[u][c].available = table[u][c].available
           /\ Balance(one, u, c) =
                Balance(table, u, c) - (IF u = b /\ c = "quote" THEN v ELSE 0)
  BY <1>1, ReleasedFacts
<1> HIDE DEF one
<1>4. /\ two \in AccountTable
      /\ \A u \in Users : \A c \in Currency :
           /\ u # s \/ c # "quote" => two[u][c] = one[u][c]
           /\ two[u][c].locked = one[u][c].locked
           /\ Balance(two, u, c) =
                Balance(one, u, c) + (IF u = s /\ c = "quote" THEN v ELSE 0)
  <2>1. one \in AccountTable
    BY <1>3
  <2>2. Credited(one, s, "quote", v) \in AccountTable
    BY <1>1, <2>1, CreditedFacts
  <2>3. ASSUME NEW u \in Users, NEW c \in Currency
        PROVE  LET new == Credited(one, s, "quote", v)
               IN  /\ u # s \/ c # "quote" => new[u][c] = one[u][c]
                   /\ new[u][c].locked = one[u][c].locked
                   /\ Balance(new, u, c) =
                        Balance(one, u, c) + (IF u = s /\ c = "quote" THEN v ELSE 0)
    BY <1>1, <2>1, CreditedFacts, SMTT(30)
  <2> QED
    BY <2>2, <2>3
<1> HIDE DEF two
<1>5. two \in AccountTable /\ two[s]["base"].locked >= q
  BY <1>1, <1>3, <1>4
<1>6. /\ three \in AccountTable
      /\ \A u \in Users : \A c \in Currency :
           /\ three[u][c].available = two[u][c].available
           /\ Balance(three, u, c) =
                Balance(two, u, c) - (IF u = s /\ c = "base" THEN q ELSE 0)
  BY <1>1, <1>5, ReleasedFacts
<1> HIDE DEF three
<1>7. /\ four \in AccountTable
      /\ \A u \in Users : \A c \in Currency :
           /\ four[u][c].locked = three[u][c].locked
           /\ Balance(four, u, c) =
                Balance(three, u, c) + (IF u = b /\ c = "base" THEN q ELSE 0)
  <2>1. three \in AccountTable
    BY <1>6
  <2>2. Credited(three, b, "base", q) \in AccountTable
    BY <1>1, <2>1, CreditedFacts
  <2>3. ASSUME NEW u \in Users, NEW c \in Currency
        PROVE  LET new == Credited(three, b, "base", q)
               IN  /\ new[u][c].locked = three[u][c].locked
                   /\ Balance(new, u, c) =
                        Balance(three, u, c) + (IF u = b /\ c = "base" THEN q ELSE 0)
    BY <1>1, <2>1, CreditedFacts
  <2> QED
    BY <2>2, <2>3
<1> HIDE DEF four
<1>8. ASSUME NEW u \in Users, NEW c \in Currency
      PROVE  Balance(four, u, c) = Balance(table, u, c) + Change(b, s, v, q, u, c)
  <2>1. Balance(table, u, c) \in Nat
    BY DEF Balance, AccountTable, Account
  <2>2. c = "quote" \/ c = "base"
    BY SMTT(30) DEF Currency
  <2>3. /\ Balance(one, u, c) =
             Balance(table, u, c) - (IF u = b /\ c = "quote" THEN v ELSE 0)
        /\ Balance(two, u, c) =
             Balance(one, u, c) + (IF u = s /\ c = "quote" THEN v ELSE 0)
    BY <1>3, <1>4
  <2>4. /\ Balance(three, u, c) =
             Balance(two, u, c) - (IF u = s /\ c = "base" THEN q ELSE 0)
        /\ Balance(four, u, c) =
             Balance(three, u, c) + (IF u = b /\ c = "base" THEN q ELSE 0)
    BY <1>6, <1>7
  <2> QED
    BY <1>1, <2>1, <2>2, <2>3, <2>4 DEF Change
<1>9. ASSUME NEW u \in Users, NEW c \in Currency
      PROVE  four[u][c].locked = table[u][c].locked - Taken(b, s, v, q, u, c)
  <2>1. ASSUME NEW x \in AccountTable
        PROVE  x[u][c].locked \in Nat /\ x[u][c].available \in Nat
    BY DEF AccountTable, Account
  <2>2. /\ table[u][c].locked \in Nat /\ table[u][c].available \in Nat
        /\ one[u][c].locked \in Nat /\ one[u][c].available \in Nat
        /\ two[u][c].locked \in Nat /\ two[u][c].available \in Nat
        /\ three[u][c].locked \in Nat /\ three[u][c].available \in Nat
    BY <1>3, <1>4, <1>6, <2>1
  <2>3. one[u][c].locked =
          table[u][c].locked - (IF u = b /\ c = "quote" THEN v ELSE 0)
    <3>1. one[u][c].available = table[u][c].available
      BY <1>3
    <3>2. Balance(one, u, c) =
            Balance(table, u, c) - (IF u = b /\ c = "quote" THEN v ELSE 0)
      BY <1>3
    <3> QED
      BY <2>2, <3>1, <3>2 DEF Balance
  <2>4. two[u][c].locked = one[u][c].locked
    BY <1>4
  <2>5. three[u][c].locked =
          two[u][c].locked - (IF u = s /\ c = "base" THEN q ELSE 0)
    <3>1. three[u][c].available = two[u][c].available
      BY <1>6
    <3>2. Balance(three, u, c) =
            Balance(two, u, c) - (IF u = s /\ c = "base" THEN q ELSE 0)
      BY <1>6
    <3> QED
      BY <2>2, <3>1, <3>2 DEF Balance
  <2>6. four[u][c].locked = three[u][c].locked
    BY <1>7
  <2>7. c = "quote" \/ c = "base"
    BY SMTT(30) DEF Currency
  <2>8. CASE c = "quote"
    <3>1. /\ one[u][c].locked = table[u][c].locked - (IF u = b THEN v ELSE 0)
          /\ three[u][c].locked = two[u][c].locked - 0
      BY <1>1, <2>3, <2>5, <2>8
    <3>2. Taken(b, s, v, q, u, c) = IF u = b THEN v ELSE 0
      <4>1. Taken(b, s, v, q, u, "quote") = IF u = b THEN v ELSE 0
        BY TakenCases, SMTT(30)
      <4> QED
        BY <2>8, <4>1
    <3> QED
      BY <2>2, <2>4, <2>6, <3>1, <3>2
  <2>9. CASE c = "base"
    <3>1. /\ one[u][c].locked = table[u][c].locked - 0
          /\ three[u][c].locked = two[u][c].locked - (IF u = s THEN q ELSE 0)
      BY <1>1, <2>3, <2>5, <2>9
    <3>2. Taken(b, s, v, q, u, c) = IF u = s THEN q ELSE 0
      <4>1. Taken(b, s, v, q, u, "base") = IF u = s THEN q ELSE 0
        BY TakenCases, SMTT(30)
      <4> QED
        BY <2>9, <4>1
    <3> QED
      BY <2>2, <2>4, <2>6, <3>1, <3>2
  <2> QED
    BY <2>7, <2>8, <2>9
<1>10. Exchanged(table, b, s, v, q) = four
  <2>1. /\ one[s]["quote"].available = table[s]["quote"].available
        /\ two[s]["base"].locked = table[s]["base"].locked
        /\ three[b]["base"].available = table[b]["base"].available
    BY <1>1, <1>3, <1>4, <1>6
  <2> QED
    BY <1>2, <2>1 DEF Exchanged
<1> QED
  BY <1>7, <1>8, <1>9, <1>10

-----------------------------------------------------------------------------
(***************************************************************************)
(* The ledger.                                                             *)
(***************************************************************************)
LedgerTable == [Users -> [Currency -> Int]]

EntriesOf(book, c) == [u \in Users |-> book[u][c]]

LEMMA EntryFacts ==
  ASSUME NEW book \in LedgerTable, NEW u \in Users, NEW c \in Currency, NEW n \in Int
  PROVE  LET new == Entry(book, u, c, n)
         IN  /\ new \in LedgerTable
             /\ \A v \in Users : \A k \in Currency :
                  new[v][k] = book[v][k] + (IF v = u /\ k = c THEN n ELSE 0)
             /\ \A k \in Currency :
                  Total(EntriesOf(new, k), Users) =
                    Total(EntriesOf(book, k), Users) + (IF k = c THEN n ELSE 0)
<1> DEFINE row == [book[u] EXCEPT ![c] = book[u][c] + n]
           new == Entry(book, u, c, n)
<1>1. /\ book \in [Users -> [Currency -> Int]]
      /\ \A v \in Users : \A k \in Currency : book[v][k] \in Int
  BY DEF LedgerTable
<1>2. new = [book EXCEPT ![u] = row]
  BY <1>1 DEF Entry
<1> HIDE DEF new
<1>3. row \in [Currency -> Int] /\ \A k \in Currency :
        row[k] = book[u][k] + (IF k = c THEN n ELSE 0)
  BY <1>1
<1> HIDE DEF row
<1>4. new \in LedgerTable
  BY <1>1, <1>2, <1>3 DEF LedgerTable
<1>5. \A v \in Users : \A k \in Currency :
        new[v][k] = book[v][k] + (IF v = u /\ k = c THEN n ELSE 0)
  BY <1>1, <1>2, <1>3
<1>6. ASSUME NEW k \in Currency
      PROVE  Total(EntriesOf(new, k), Users) =
               Total(EntriesOf(book, k), Users) + (IF k = c THEN n ELSE 0)
  <2> DEFINE f == EntriesOf(book, k)
             g == EntriesOf(new, k)
  <2>1. IsFiniteSet(Users)
    BY GatewayAssumption
  <2>2. \A y \in Users : f[y] \in Int /\ g[y] \in Int
    BY <1>1, <1>5 DEF EntriesOf
  <2>3. \A y \in Users \ {u} : g[y] = f[y]
    BY <1>1, <1>5 DEF EntriesOf
  <2>4. g[u] = f[u] + (IF k = c THEN n ELSE 0)
    BY <1>5 DEF EntriesOf
  <2> HIDE DEF f, g
  <2>5. Total(g, Users) = Total(f, Users) + g[u] - f[u]
    BY <2>1, <2>2, <2>3, TotalChange
  <2>6. Total(f, Users) \in Int /\ f[u] \in Int
    BY <2>1, <2>2, TotalType
  <2>7. Total(g, Users) = Total(f, Users) + (IF k = c THEN n ELSE 0)
    BY <2>4, <2>5, <2>6
  <2> QED
    BY <2>7 DEF f, g
<1> QED
  BY <1>4, <1>5, <1>6 DEF new

\* The four entries of a settlement move what Change says, and cancel out.
LEMMA Recorded ==
  ASSUME NEW book \in LedgerTable, NEW b \in Users, NEW s \in Users,
         NEW v \in Nat, NEW q \in Nat
  PROVE  LET new == Entry(Entry(Entry(Entry(book, b, "quote", -v), s, "quote", v),
                                s, "base", -q), b, "base", q)
         IN  /\ new \in LedgerTable
             /\ \A u \in Users : \A c \in Currency :
                  new[u][c] = book[u][c] + Change(b, s, v, q, u, c)
             /\ \A c \in Currency :
                  Total(EntriesOf(new, c), Users) = Total(EntriesOf(book, c), Users)
<1> DEFINE one == Entry(book, b, "quote", -v)
           two == Entry(one, s, "quote", v)
           three == Entry(two, s, "base", -q)
           four == Entry(three, b, "base", q)
           T(x, c) == Total(EntriesOf(x, c), Users)
<1>1. /\ "quote" \in Currency /\ "base" \in Currency /\ "quote" # "base"
      /\ -v \in Int /\ -q \in Int
      /\ \A c \in Currency : c = "quote" \/ c = "base"
  BY DEF Currency
<1>2. /\ one \in LedgerTable
      /\ \A u \in Users : \A c \in Currency :
           one[u][c] = book[u][c] + (IF u = b /\ c = "quote" THEN -v ELSE 0)
      /\ \A c \in Currency : T(one, c) = T(book, c) + (IF c = "quote" THEN -v ELSE 0)
  BY <1>1, EntryFacts
<1> HIDE DEF one
<1>3. /\ two \in LedgerTable
      /\ \A u \in Users : \A c \in Currency :
           two[u][c] = one[u][c] + (IF u = s /\ c = "quote" THEN v ELSE 0)
      /\ \A c \in Currency : T(two, c) = T(one, c) + (IF c = "quote" THEN v ELSE 0)
  <2>1. one \in LedgerTable
    BY <1>2
  <2>2. Entry(one, s, "quote", v) \in LedgerTable
    BY <1>1, <2>1, EntryFacts
  <2>3. \A w \in Users : \A k \in Currency :
          Entry(one, s, "quote", v)[w][k] =
            one[w][k] + (IF w = s /\ k = "quote" THEN v ELSE 0)
    BY <1>1, <2>1, EntryFacts
  <2>4. \A k \in Currency :
          T(Entry(one, s, "quote", v), k) =
            T(one, k) + (IF k = "quote" THEN v ELSE 0)
    BY <1>1, <2>1, EntryFacts
  <2> QED
    BY <2>2, <2>3, <2>4
<1> HIDE DEF two
<1>4. /\ three \in LedgerTable
      /\ \A u \in Users : \A c \in Currency :
           three[u][c] = two[u][c] + (IF u = s /\ c = "base" THEN -q ELSE 0)
      /\ \A c \in Currency : T(three, c) = T(two, c) + (IF c = "base" THEN -q ELSE 0)
  <2>1. two \in LedgerTable
    BY <1>3
  <2>2. Entry(two, s, "base", -q) \in LedgerTable
    BY <1>1, <2>1, EntryFacts
  <2>3. \A w \in Users : \A k \in Currency :
          Entry(two, s, "base", -q)[w][k] =
            two[w][k] + (IF w = s /\ k = "base" THEN -q ELSE 0)
    BY <1>1, <2>1, EntryFacts
  <2>4. \A k \in Currency :
          T(Entry(two, s, "base", -q), k) =
            T(two, k) + (IF k = "base" THEN -q ELSE 0)
    BY <1>1, <2>1, EntryFacts
  <2> QED
    BY <2>2, <2>3, <2>4
<1> HIDE DEF three
<1>5. /\ four \in LedgerTable
      /\ \A u \in Users : \A c \in Currency :
           four[u][c] = three[u][c] + (IF u = b /\ c = "base" THEN q ELSE 0)
      /\ \A c \in Currency : T(four, c) = T(three, c) + (IF c = "base" THEN q ELSE 0)
  <2>1. three \in LedgerTable
    BY <1>4
  <2>2. Entry(three, b, "base", q) \in LedgerTable
    BY <1>1, <2>1, EntryFacts
  <2>3. \A w \in Users : \A k \in Currency :
          Entry(three, b, "base", q)[w][k] =
            three[w][k] + (IF w = b /\ k = "base" THEN q ELSE 0)
    BY <1>1, <2>1, EntryFacts
  <2>4. \A k \in Currency :
          T(Entry(three, b, "base", q), k) =
            T(three, k) + (IF k = "base" THEN q ELSE 0)
    BY <1>1, <2>1, EntryFacts
  <2> QED
    BY <2>2, <2>3, <2>4
<1> HIDE DEF four
<1>6. ASSUME NEW u \in Users, NEW c \in Currency
      PROVE  four[u][c] = book[u][c] + Change(b, s, v, q, u, c)
  <2>1. book[u][c] \in Int
    BY DEF LedgerTable
  <2>2. CASE c = "quote"
    BY <1>1, <1>2, <1>3, <1>4, <1>5, <2>1, <2>2 DEF Change
  <2>3. CASE c = "base"
    BY <1>1, <1>2, <1>3, <1>4, <1>5, <2>1, <2>3 DEF Change
  <2> QED
    BY <1>1, <2>2, <2>3
<1>7. ASSUME NEW c \in Currency
      PROVE  T(four, c) = T(book, c)
  <2> DEFINE f == EntriesOf(book, c)
  <2>1. \A u \in Users : f[u] \in Int
    BY DEF EntriesOf, LedgerTable
  <2>2. T(book, c) \in Int
    <3> HIDE DEF f
    <3>1. Total(f, Users) \in Int
      BY <2>1, GatewayAssumption, TotalType
    <3> QED
      BY <3>1 DEF f
  <2> HIDE DEF T
  <2>3. CASE c = "quote"
    BY <1>1, <1>2, <1>3, <1>4, <1>5, <2>2, <2>3
  <2>4. CASE c = "base"
    BY <1>1, <1>2, <1>3, <1>4, <1>5, <2>2, <2>4
  <2> QED
    BY <1>1, <2>3, <2>4
<1> QED
  BY <1>5, <1>6, <1>7 DEF four, three, two, one

-----------------------------------------------------------------------------
(***************************************************************************)
(* SumOf is the sum.                                                       *)
(***************************************************************************)

LedgerSum(book, c) == SumOf(LAMBDA u : book[u][c], Users)

LEMMA LedgerSumIsTotal ==
  ASSUME NEW book \in LedgerTable, NEW c \in Currency
  PROVE  LedgerSum(book, c) = Total(EntriesOf(book, c), Users)
<1> DEFINE f == EntriesOf(book, c)
           P(h) == h = [T \in SUBSET Users |->
                          IF T = {} THEN 0
                          ELSE h[T \ {CHOOSE x \in T : TRUE}]
                                 + book[CHOOSE x \in T : TRUE][c]]
<1>1. IsFiniteSet(Users) /\ \A u \in Users : f[u] = book[u][c] /\ f[u] \in Int
  BY GatewayAssumption DEF EntriesOf, LedgerTable
<1>2. LedgerSum(book, c) = (CHOOSE h : P(h))[Users]
  BY DEF LedgerSum, SumOf, FoldSet, MapThenFoldSet
<1>3. ASSUME NEW h PROVE P(h) <=> SumsByChoice(h, f, Users)
  <2>1. \A T \in SUBSET Users :
          T # {} => f[CHOOSE x \in T : TRUE] = book[CHOOSE x \in T : TRUE][c]
    BY <1>1
  <2> HIDE DEF f
  <2> QED
    BY <2>1 DEF SumsByChoice
<1>4. IsFiniteSet(Users) /\ \A u \in Users : f[u] \in Int
  BY <1>1
<1> HIDE DEF P, f
<1>5. SumsByChoice(CHOOSE h : P(h), f, Users)
  BY <1>3, <1>4, SumByChoice
<1> QED
  BY <1>2, <1>4, <1>5, SumByChoice DEF f

-----------------------------------------------------------------------------
(***************************************************************************)
(* The steps of a POST handler.                                            *)
(***************************************************************************)
WithPc(p, pc) == [p EXCEPT !.pc = pc]

LEMMA PcSet ==
  ASSUME NEW p \in Post, NEW pc \in PostPc
  PROVE  /\ WithPc(p, pc) \in Post /\ WithPc(p, pc).pc = pc
         /\ WithPc(p, pc).order = p.order /\ WithPc(p, pc).unsettled = p.unsettled
         /\ WithPc(p, pc).request = p.request
         /\ WithPc(p, pc).orderPrice = p.orderPrice
         /\ WithPc(p, pc).user = p.user
  BY DEF WithPc, Post

\* A handler that goes on, with nothing of its own to settle.
LEMMA GotoStep ==
  ASSUME HandlersGood, NEW i \in 1..Len(posts), NEW pc \in {"submitting", "unlocking", "done"},
         EngineFree, Goto(i, pc), posts[i].unsettled = << >>,
         pc = "unlocking" => posts[i].order # NoOrder,
         pc = "submitting" => posts[i].order = NoOrder /\ i \in DOMAIN rows',
         UNCHANGED allVars, deletes' = deletes,
         DOMAIN rows \subseteq DOMAIN rows', TablesGood'
  PROVE  HandlersGood'
<1> DEFINE q == WithPc(posts[i], pc)
<1>1. /\ EngineInv /\ ReportInv /\ Len(orders) \in Nat /\ posts[i] \in Post
      /\ PostGood(posts[i], i, Len(orders), DOMAIN rows)
  BY HandlerFacts
<1>2. EngineInv' /\ ReportInv' /\ orders' = orders /\ EngineIdle'
  BY <1>1, EngineUntouched DEF EngineFree, EngineIdle
<1>3. /\ q \in Post /\ q.pc = pc /\ q.order = posts[i].order
      /\ q.unsettled = posts[i].unsettled /\ q.request = posts[i].request
      /\ q.orderPrice = posts[i].orderPrice
  BY <1>1, PcSet DEF PostPc
<1>4. posts' = [posts EXCEPT ![i] = q]
  BY DEF Goto, WithPc
<1> HIDE DEF q
<1>5. PostGood(q, i, Len(orders'), DOMAIN rows')
  BY <1>1, <1>2, <1>3 DEF PostGood
<1>6. Len(orders) <= Len(orders')
  BY <1>1, <1>2
<1> QED
  BY <1>2, <1>3, <1>4, <1>5, <1>6, HandlerMoves

LEMMA GotoKeepsLength ==
  ASSUME HandlersGood, NEW i \in 1..Len(posts), NEW pc \in PostPc, Goto(i, pc)
  PROVE  posts' \in Seq(Post) /\ Len(posts') = Len(posts)
<1>1. posts \in Seq(Post) /\ posts[i] \in Post
  BY HandlerFacts
<1>2. posts' = [posts EXCEPT ![i] = WithPc(posts[i], pc)]
  BY DEF Goto, WithPc
<1> QED
  BY <1>1, <1>2, PcSet, PostReplaced

LEMMA RefuseKeepsHandlers ==
  ASSUME HandlersGood, NEW i \in 1..Len(posts), RefuseForFunds(i)
  PROVE  HandlersGood'
<1>1. /\ EngineFree /\ posts[i].pc = "locking" /\ Goto(i, "done")
      /\ UNCHANGED <<allVars, accounts, rows, tradeRows, ledger, deletes, lost>>
  BY DEF RefuseForFunds, At
<1>2. posts[i].unsettled = << >>
  BY <1>1, HandlerFacts DEF PostGood
<1>3. TablesGood'
  <2>1. Len(posts') = Len(posts)
    BY <1>1, GotoKeepsLength DEF PostPc
  <2> QED
    BY <1>1, <2>1, TablesKept DEF TablesGood, RowsGood
<1> QED
  BY <1>1, <1>2, <1>3, GotoStep

LEMMA SubmitThrowsKeepsHandlers ==
  ASSUME HandlersGood, NEW i \in 1..Len(posts), SubmitThrows(i)
  PROVE  HandlersGood'
<1>1. /\ EngineFree /\ posts[i].pc = "submitting" /\ Goto(i, "done")
      /\ UNCHANGED <<allVars, accounts, rows, tradeRows, ledger, deletes, lost>>
  BY DEF SubmitThrows, At
<1>2. posts[i].unsettled = << >>
  BY <1>1, HandlerFacts DEF PostGood
<1>3. TablesGood'
  <2>1. Len(posts') = Len(posts)
    BY <1>1, GotoKeepsLength DEF PostPc
  <2> QED
    BY <1>1, <2>1, TablesKept DEF TablesGood, RowsGood
<1> QED
  BY <1>1, <1>2, <1>3, GotoStep

LEMMA LockKeepsHandlers ==
  ASSUME HandlersGood, NEW i \in 1..Len(posts), LockAndInsert(i)
  PROVE  /\ HandlersGood'
         /\ accounts' \in AccountTable
         /\ \A u \in Users : \A c \in Currency :
              Balance(accounts', u, c) = Balance(accounts, u, c)
<1> DEFINE p == posts[i]
           c == PaysWith(p.request.side)
           n == LockAmount(p)
<1>1. /\ EngineFree /\ posts[i].pc = "locking" /\ Goto(i, "submitting")
      /\ accounts[p.user][c].available >= n /\ accounts[p.user][c].locked + n >= 0
      /\ accounts' = Lock(p.user, c, n) /\ InsertRow(i, "OPEN")
      /\ UNCHANGED <<allVars, tradeRows, ledger, deletes, lost>>
  BY DEF LockAndInsert, At, CanLock
<1>2. /\ p \in Post /\ PostGood(p, i, Len(orders), DOMAIN rows)
      /\ accounts \in AccountTable /\ ledger \in LedgerTable
  BY HandlerFacts DEF AccountTable, LedgerTable
<1>3. /\ p.user \in Users /\ p.request \in Requests /\ p.orderPrice \in Nat
      /\ c \in Currency
  BY <1>2, PostFields DEF PaysWith, Currency
<1>4. n \in Int
  <2>1. p.request.quantity \in Nat /\ p.display \in Int \union {NoDisplay}
    BY <1>2, <1>3, PostFields, RequestFacts
  <2>2. EffectiveQty(p) \in Int
    BY <2>1 DEF EffectiveQty
  <2> DEFINE q == EffectiveQty(p)
  <2> HIDE DEF p, q
  <2>3. q \in Int
    BY <2>2 DEF q
  <2>4. p.orderPrice * q \in Int
    BY <1>3, <2>3
  <2>5. Cost(p.request.side, p.orderPrice, q) \in Int
    BY <2>3, <2>4 DEF Cost
  <2> QED
    BY <2>5 DEF LockAmount, q
<1>5. accounts[p.user][c].available \in Nat /\ accounts[p.user][c].locked \in Nat
  BY <1>2, <1>3 DEF AccountTable, Account
<1> HIDE DEF p, c, n
<1>6. /\ Lock(p.user, c, n) \in AccountTable
      /\ \A u \in Users : \A k \in Currency :
           Lock(p.user, c, n)[u][k].available + Lock(p.user, c, n)[u][k].locked =
             accounts[u][k].available + accounts[u][k].locked
  <2>1. n \in Int /\ accounts[p.user][c].available - n \in Nat
    BY <1>1, <1>4, <1>5
  <2>2. accounts[p.user][c].locked + n \in Nat
    BY <1>1, <1>4, <1>5
  <2> QED
    BY <1>2, <1>3, <2>1, <2>2, Locked
<1>7. posts' \in Seq(Post) /\ Len(posts') = Len(posts)
  BY <1>1, GotoKeepsLength DEF PostPc
<1>8. /\ DOMAIN rows' = DOMAIN rows \union {i}
      /\ DOMAIN rows' \subseteq 1..Len(posts')
      /\ \A j \in DOMAIN rows' : rows'[j] \in Row
      /\ RowsGood'
  BY <1>1, <1>7, InsertedRow
<1>9. TablesGood'
  BY <1>1, <1>6, <1>8, TablesKept DEF TablesGood, AccountTable
<1>10. HandlersGood'
  <2>1. posts[i].unsettled = << >> /\ posts[i].order = NoOrder
    BY <1>1, <1>2 DEF PostGood, p
  <2> QED
    BY <1>1, <1>8, <1>9, <2>1, GotoStep
<1> QED
  BY <1>1, <1>6, <1>10 DEF Balance

LEMMA InsertStopKeepsHandlers ==
  ASSUME HandlersGood, NEW i \in 1..Len(posts), InsertStop(i)
  PROVE  HandlersGood'
<1>1. /\ EngineFree /\ posts[i].pc = "locking" /\ Goto(i, "submitting")
      /\ InsertRow(i, "PENDING")
      /\ UNCHANGED <<allVars, accounts, tradeRows, ledger, deletes, lost>>
  BY DEF InsertStop, At
<1>2. posts' \in Seq(Post) /\ Len(posts') = Len(posts)
  BY <1>1, GotoKeepsLength DEF PostPc
<1>3. /\ DOMAIN rows' = DOMAIN rows \union {i}
      /\ DOMAIN rows' \subseteq 1..Len(posts')
      /\ \A j \in DOMAIN rows' : rows'[j] \in Row
      /\ RowsGood'
  BY <1>1, <1>2, InsertedRow
<1>4. TablesGood'
  BY <1>1, <1>3, TablesKept DEF TablesGood
<1>5. posts[i].unsettled = << >> /\ posts[i].order = NoOrder
  BY <1>1, HandlerFacts DEF PostGood
<1> QED
  BY <1>1, <1>3, <1>4, <1>5, GotoStep

\* The call of the engine begins: the order exists, and nothing is filled.
LEMMA SubmitKeepsHandlers ==
  ASSUME HandlersGood, NEW i \in 1..Len(posts), SubmitPost(i)
  PROVE  HandlersGood' /\ StartsEmpty
<1> DEFINE p == posts[i]
           r == [p.request EXCEPT !.price = p.orderPrice]
           q == [p EXCEPT !.pc = "matching", !.order = NewId]
<1>1. /\ EngineFree /\ p.pc = "submitting"
      /\ SubmitToBook(r) \/ SubmitStop(r, p.stopPrice, p.delta)
      /\ posts' = [posts EXCEPT ![i] = q]
      /\ UNCHANGED <<accounts, rows, tradeRows, ledger, deletes, lost>>
  BY DEF SubmitPost, At
<1>2. /\ EngineInv /\ ReportInv /\ Len(orders) \in Nat /\ p \in Post
      /\ PostGood(p, i, Len(orders), DOMAIN rows)
      /\ posts \in Seq(Post)
  BY HandlerFacts
<1>3. /\ p.request \in Requests /\ p.orderPrice \in Nat
      /\ p.stopPrice \in Nat \ {0} /\ p.delta \in Int \union {NoDelta}
  BY <1>2, PostFields
<1>4. r \in Request /\ (Rests(r) => r.price > 0)
  <2>1. /\ p.request \in Request
        /\ p.request.type \in {"LIMIT", "ICEBERG"} => p.request.price > 0
    BY <1>3, RequestFacts
  <2>2. p.request.type \in {"LIMIT", "ICEBERG"} => p.orderPrice = p.request.price
    BY <1>2 DEF PostGood
  <2> HIDE DEF p
  <2>3. r \in Request /\ r.price = p.orderPrice /\ r.type = p.request.type
    BY <1>3, <2>1 DEF Request
  <2> QED
    BY <2>1, <2>2, <2>3 DEF Rests
<1>5. /\ q \in Post /\ q.pc = "matching" /\ q.order = NewId
      /\ q.unsettled = p.unsettled /\ q.request = p.request
      /\ q.orderPrice = p.orderPrice
  <2>1. NewId \in Nat
    BY <1>2 DEF NewId
  <2> HIDE DEF p
  <2> QED
    BY <1>2, <2>1 DEF Post, PostPc
<1> HIDE DEF r, q
<1>6. EngineInv' /\ ReportInv' /\ StartsEmpty
  BY <1>1, <1>2, <1>3, <1>4, SubmitToBookStep, SubmitStopStep,
     SubmitToBookReports, SubmitStopReports
<1>7. Len(orders) <= Len(orders') /\ NewId \in 0..Len(orders') /\ NewId # NoOrder
  BY <1>2, <1>6 DEF StartsEmpty, NewId, NoOrder
<1>8. PostGood(q, i, Len(orders'), DOMAIN rows')
  <2>1. p.unsettled = << >> /\ i \in DOMAIN rows /\ rows' = rows
    BY <1>1, <1>2 DEF PostGood
  <2>2. Named(<< >>, Len(orders'))
    BY DEF Named
  <2> QED
    BY <1>2, <1>5, <1>7, <2>1, <2>2 DEF PostGood
<1>9. TablesGood'
  <2>1. Len(posts') = Len(posts)
    BY <1>1, <1>2, <1>5, PostReplaced
  <2> QED
    BY <1>1, <2>1, TablesKept DEF TablesGood, RowsGood
<1>10. ~ InCall
  BY <1>1 DEF EngineFree, InCall
<1>11. HandlersGood'
  BY <1>1, <1>5, <1>6, <1>7, <1>8, <1>9, <1>10, HandlerMoves
<1> QED
  BY <1>6, <1>11

\* The call returns, and its trades are the handler's to settle.
LEMMA TakeKeepsHandlers ==
  ASSUME HandlersGood, NEW i \in 1..Len(posts), TakeTrades(i)
  PROVE  HandlersGood'
<1> DEFINE p == posts[i]
           q == [p EXCEPT !.pc = "settling", !.unsettled = executed]
<1>1. /\ EngineIdle /\ p.pc = "matching" /\ posts' = [posts EXCEPT ![i] = q]
      /\ UNCHANGED <<allVars, accounts, rows, tradeRows, ledger, deletes, lost>>
  BY DEF TakeTrades
<1>2. /\ EngineInv /\ ReportInv /\ Len(orders) \in Nat /\ p \in Post
      /\ PostGood(p, i, Len(orders), DOMAIN rows) /\ posts \in Seq(Post)
  BY HandlerFacts
<1>3. /\ EngineInv' /\ ReportInv' /\ orders' = orders /\ EngineIdle'
  BY <1>1, <1>2, EngineUntouched DEF EngineIdle
<1>4. /\ q \in Post /\ q.pc = "settling" /\ q.order = p.order
      /\ q.unsettled = executed /\ q.request = p.request
      /\ q.orderPrice = p.orderPrice
  <2>1. executed \in Seq(Trade)
    BY <1>2, EngineFacts
  <2> HIDE DEF p
  <2> QED
    BY <1>2, <2>1 DEF Post, PostPc
<1> HIDE DEF q
<1>5. PostGood(q, i, Len(orders'), DOMAIN rows')
  <2>1. Named(executed, Len(orders))
    BY <1>2 DEF ReportInv
  <2> QED
    BY <1>1, <1>2, <1>3, <1>4, <2>1 DEF PostGood
<1>6. TablesGood'
  <2>1. Len(posts') = Len(posts)
    BY <1>1, <1>2, <1>4, PostReplaced
  <2> QED
    BY <1>1, <2>1, TablesKept DEF TablesGood, RowsGood
<1>7. Len(orders) <= Len(orders')
  BY <1>2, <1>3
<1>8. q.pc # "matching"
  BY <1>4
<1>9. DOMAIN rows \subseteq DOMAIN rows' /\ deletes' = deletes
  BY <1>1
<1> QED
  BY <1>1, <1>3, <1>4, <1>5, <1>6, <1>7, <1>8, <1>9, HandlerMoves

\* What moves on the accounts is what is entered in the ledger, and the entries
\* of a step cancel out.
MoneyMoves ==
  /\ \A u \in Users : \A c \in Currency :
       Balance(accounts', u, c) - Balance(accounts, u, c) =
         ledger'[u][c] - ledger[u][c]
  /\ \A c \in Currency :
       Total(EntriesOf(ledger', c), Users) = Total(EntriesOf(ledger, c), Users)

LEMMA MoneyStays ==
  ASSUME HandlersGood, ledger' = ledger,
         \A u \in Users : \A c \in Currency :
           Balance(accounts', u, c) = Balance(accounts, u, c)
  PROVE  MoneyMoves
<1>1. \A u \in Users : \A c \in Currency :
        ledger[u][c] \in Int /\ Balance(accounts, u, c) \in Nat
  BY HandlerFacts DEF Balance, Account
<1> QED
  BY <1>1 DEF MoneyMoves

\* The handler's list is one trade shorter; nothing else of it moves.
LEMMA NextTrade ==
  ASSUME HandlersGood, NEW i \in 1..Len(posts), posts[i].unsettled # << >>,
         EngineFree, posts[i].pc = "settling", UNCHANGED allVars,
         posts' = [posts EXCEPT ![i].unsettled = Tail(@)],
         deletes' = deletes, DOMAIN rows' = DOMAIN rows,
         Len(posts') = Len(posts) => TablesGood'
  PROVE  HandlersGood'
<1> DEFINE p == posts[i]
           q == [p EXCEPT !.unsettled = Tail(p.unsettled)]
<1>1. posts' = [posts EXCEPT ![i] = q]
  OBVIOUS
<1>2. /\ EngineInv /\ ReportInv /\ Len(orders) \in Nat /\ p \in Post
      /\ PostGood(p, i, Len(orders), DOMAIN rows) /\ posts \in Seq(Post)
  BY HandlerFacts
<1>3. /\ EngineInv' /\ ReportInv' /\ orders' = orders /\ EngineIdle'
  BY <1>2, EngineUntouched DEF EngineFree, EngineIdle
<1>4. /\ Tail(p.unsettled) \in Seq(Trade)
      /\ Named(Tail(p.unsettled), Len(orders))
  BY SettlementFacts
<1>5. /\ q \in Post /\ q.pc = p.pc /\ q.order = p.order
      /\ q.unsettled = Tail(p.unsettled) /\ q.request = p.request
      /\ q.orderPrice = p.orderPrice
  <2> HIDE DEF p
  <2> QED
    BY <1>2, <1>4 DEF Post
<1> HIDE DEF q
<1>6. PostGood(q, i, Len(orders'), DOMAIN rows')
  BY <1>2, <1>3, <1>4, <1>5 DEF PostGood
<1>7. Len(orders) <= Len(orders') /\ Len(posts') = Len(posts)
  BY <1>1, <1>2, <1>3, <1>5, PostReplaced
<1>8. q.pc # "matching" /\ DOMAIN rows \subseteq DOMAIN rows'
  BY <1>5
<1>9. TablesGood'
  BY <1>7
<1> QED
  BY <1>1, <1>3, <1>5, <1>6, <1>7, <1>8, <1>9, HandlerMoves

LEMMA SettleFailsKeepsHandlers ==
  ASSUME HandlersGood, NEW i \in 1..Len(posts), SettleFails(i)
  PROVE  HandlersGood'
<1> DEFINE t == Head(posts[i].unsettled)
<1>1. /\ EngineFree /\ posts[i].pc = "settling" /\ posts[i].unsettled # << >>
      /\ lost' = Append(lost, t)
      /\ posts' = [posts EXCEPT ![i].unsettled = Tail(@)]
      /\ UNCHANGED <<allVars, accounts, rows, tradeRows, ledger, deletes>>
  BY DEF SettleFails, At
<1>2. t \in Trade
  BY <1>1, SettlementFacts
<1> HIDE DEF t
<1>3. lost' \in Seq(Trade)
  <2>1. lost \in Seq(Trade)
    BY HandlerFacts
  <2> QED
    BY <1>1, <1>2, <2>1, AppendProperties
<1>4. Len(posts') = Len(posts) => TablesGood'
  BY <1>1, <1>3, TablesKept DEF TablesGood, RowsGood
<1> QED
  BY <1>1, <1>4, NextTrade

LEMMA SettleKeepsHandlers ==
  ASSUME HandlersGood, NEW i \in 1..Len(posts), Settle(i)
  PROVE  HandlersGood' /\ MoneyMoves
<1> DEFINE t == Head(posts[i].unsettled)
           b == Buyer(t)
           s == Seller(t)
           v == t.price * t.quantity
           q == t.quantity
<1>1. /\ EngineFree /\ posts[i].pc = "settling" /\ posts[i].unsettled # << >>
      /\ CanSettle(t) /\ accounts' = Pay(t)
      /\ ledger' = RecordTradeSettlement(t)
      /\ tradeRows' = Append(tradeRows, t) /\ rows' = FillRows(t)
      /\ posts' = [posts EXCEPT ![i].unsettled = Tail(@)]
      /\ UNCHANGED <<allVars, deletes, lost>>
  BY DEF Settle, At
<1>2. t \in Trade /\ b \in Users /\ s \in Users
  BY <1>1, SettlementFacts
<1>3. /\ accounts \in AccountTable /\ ledger \in LedgerTable
      /\ tradeRows \in Seq(Trade) /\ \A j \in DOMAIN rows : rows[j] \in Row
      /\ DOMAIN rows \subseteq 1..Len(posts) /\ RowsGood
      /\ lost \in Seq(Trade)
  BY HandlerFacts DEF AccountTable, LedgerTable, HandlersGood
<1>4. accounts[b]["quote"].locked >= v /\ accounts[s]["base"].locked >= q
  BY <1>1 DEF CanSettle
<1>5. q \in Nat /\ v \in Nat
  <2>1. t.price \in Nat /\ t.quantity \in Nat
    BY <1>2, TradeFields, Zenon
  <2> HIDE DEF t
  <2> QED
    BY <2>1
<1>6. /\ accounts' = Exchanged(accounts, b, s, v, q)
      /\ ledger' = Entry(Entry(Entry(Entry(ledger, b, "quote", -v), s, "quote", v),
                               s, "base", -q), b, "base", q)
  BY <1>1 DEF Pay, Exchanged, RecordTradeSettlement
<1>7. /\ DOMAIN rows' = DOMAIN rows
      /\ \A j \in DOMAIN rows :
           rows'[j] = rows[j] \/ rows'[j] = RowFilled(rows[j], q)
  BY <1>1 DEF FillRows
<1>8. tradeRows' \in Seq(Trade)
  BY <1>1, <1>2, <1>3, AppendProperties
<1> HIDE DEF t, b, s, v, q
<1>9. /\ accounts' \in AccountTable
      /\ \A u \in Users : \A c \in Currency :
           Balance(accounts', u, c) = Balance(accounts, u, c) + Change(b, s, v, q, u, c)
  <2> DEFINE new == Exchanged(accounts, b, s, v, q)
  <2>1. new \in AccountTable
    BY <1>2, <1>3, <1>4, <1>5, Paid
  <2>2. ASSUME NEW u \in Users, NEW c \in Currency
        PROVE  Balance(new, u, c) = Balance(accounts, u, c) + Change(b, s, v, q, u, c)
    BY <1>2, <1>3, <1>4, <1>5, Paid
  <2>3. accounts' = new
    BY <1>6
  <2> HIDE DEF new
  <2> QED
    BY <2>1, <2>2, <2>3
<1>10. /\ ledger' \in LedgerTable
       /\ \A u \in Users : \A c \in Currency :
            ledger'[u][c] = ledger[u][c] + Change(b, s, v, q, u, c)
       /\ \A c \in Currency :
            Total(EntriesOf(ledger', c), Users) = Total(EntriesOf(ledger, c), Users)
  <2> DEFINE new == Entry(Entry(Entry(Entry(ledger, b, "quote", -v), s, "quote", v),
                                s, "base", -q), b, "base", q)
  <2>1. new \in LedgerTable
    BY <1>2, <1>3, <1>5, Recorded
  <2>2. ASSUME NEW u \in Users, NEW c \in Currency
        PROVE  new[u][c] = ledger[u][c] + Change(b, s, v, q, u, c)
    BY <1>2, <1>3, <1>5, Recorded
  <2>3. ASSUME NEW c \in Currency
        PROVE  Total(EntriesOf(new, c), Users) = Total(EntriesOf(ledger, c), Users)
    BY <1>2, <1>3, <1>5, Recorded
  <2>4. ledger' = new
    BY <1>6
  <2> HIDE DEF new
  <2> QED
    BY <2>1, <2>2, <2>3, <2>4
<1>11. (\A j \in DOMAIN rows' : rows'[j] \in Row) /\ RowsGood'
  <2>1. \A j \in DOMAIN rows :
          /\ RowFilled(rows[j], q) \in Row
          /\ RowFilled(rows[j], q).status \notin {"FILLED", "CANCELLED"} =>
               RowFilled(rows[j], q).filled <= RowFilled(rows[j], q).quantity
    BY <1>3, <1>5, RowFilledFacts
  <2> QED
    BY <1>3, <1>7, <2>1 DEF RowsGood
<1>12. Len(posts') = Len(posts) => TablesGood'
  BY <1>1, <1>3, <1>7, <1>8, <1>9, <1>10, <1>11
     DEF TablesGood, AccountTable, LedgerTable
<1>13. HandlersGood'
  BY <1>1, <1>7, <1>12, NextTrade
<1>14. \A u \in Users : \A c \in Currency :
         Balance(accounts', u, c) - Balance(accounts, u, c) =
           ledger'[u][c] - ledger[u][c]
  <2> SUFFICES ASSUME NEW u \in Users, NEW c \in Currency
               PROVE  Balance(accounts', u, c) - Balance(accounts, u, c) =
                        ledger'[u][c] - ledger[u][c]
    OBVIOUS
  <2> DEFINE x == Balance(accounts, u, c)
             y == ledger[u][c]
             d == Change(b, s, v, q, u, c)
  <2>1. x \in Int /\ y \in Int /\ d \in Int
    BY <1>3, <1>5 DEF Balance, AccountTable, Account, LedgerTable, Change
  <2>2. Balance(accounts', u, c) = x + d /\ ledger'[u][c] = y + d
    BY <1>9, <1>10
  <2> HIDE DEF x, y, d
  <2>3. (x + d) - x = (y + d) - y
    BY <2>1
  <2> QED
    BY <2>2, <2>3 DEF x, y
<1> QED
  BY <1>10, <1>13, <1>14 DEF MoneyMoves

LEMMA AnswerKeepsHandlers ==
  ASSUME HandlersGood, NEW i \in 1..Len(posts), Answer(i)
  PROVE  HandlersGood'
<1>1. /\ EngineFree /\ posts[i].unsettled = << >> /\ Goto(i, "done")
      /\ UNCHANGED <<allVars, accounts, rows, tradeRows, ledger, deletes, lost>>
  BY DEF Answer, At
<1>2. TablesGood'
  <2>1. Len(posts') = Len(posts)
    BY <1>1, GotoKeepsLength DEF PostPc
  <2> QED
    BY <1>1, <2>1, TablesKept DEF TablesGood, RowsGood
<1> QED
  BY <1>1, <1>2, GotoStep

LEMMA MarkCancelledKeepsHandlers ==
  ASSUME HandlersGood, NEW i \in 1..Len(posts), MarkCancelled(i)
  PROVE  HandlersGood'
<1>1. /\ EngineFree /\ posts[i].pc = "settling" /\ posts[i].unsettled = << >>
      /\ Goto(i, "unlocking")
      /\ rows' = [rows EXCEPT ![i].status = "CANCELLED"]
      /\ UNCHANGED <<allVars, accounts, tradeRows, ledger, deletes, lost>>
  BY DEF MarkCancelled, At
<1>2. posts[i].order # NoOrder /\ i \in DOMAIN rows
  BY <1>1, HandlerFacts DEF PostGood
<1>3. posts' \in Seq(Post) /\ Len(posts') = Len(posts)
  BY <1>1, GotoKeepsLength DEF PostPc
<1>4. /\ DOMAIN rows' = DOMAIN rows /\ DOMAIN rows' \subseteq 1..Len(posts')
      /\ (\A j \in DOMAIN rows' : rows'[j] \in Row) /\ RowsGood'
  BY <1>1, <1>2, <1>3, MarkKeepsRows
<1>5. TablesGood'
  BY <1>1, <1>4, TablesKept DEF TablesGood
<1> QED
  BY <1>1, <1>2, <1>4, <1>5, GotoStep

LEMMA Unlocked ==
  ASSUME HandlersGood, NEW u \in Users, NEW c \in Currency, NEW n \in Nat,
         CanUnlock(u, c, n)
  PROVE  /\ Lock(u, c, -n) \in AccountTable
         /\ \A v \in Users : \A k \in Currency :
              Balance(Lock(u, c, -n), v, k) = Balance(accounts, v, k)
<1> DEFINE new == Lock(u, c, -n)
<1>1. accounts \in AccountTable
  BY HandlerFacts DEF AccountTable
<1>2. /\ accounts[u][c].available \in Nat /\ accounts[u][c].locked \in Nat
      /\ accounts[u][c].locked >= n
  BY <1>1 DEF AccountTable, Account, CanUnlock
<1>3. -n \in Int /\ accounts[u][c].available - (-n) \in Nat
      /\ accounts[u][c].locked + (-n) \in Nat
  BY <1>2
<1>4. new \in AccountTable
  BY <1>1, <1>3, Locked
<1>5. ASSUME NEW v \in Users, NEW k \in Currency
      PROVE  new[v][k].available + new[v][k].locked =
               accounts[v][k].available + accounts[v][k].locked
  BY <1>1, <1>3, Locked
<1> QED
  BY <1>4, <1>5 DEF Balance

LEMMA UnlockRemainderKeepsHandlers ==
  ASSUME HandlersGood, NEW i \in 1..Len(posts), UnlockRemainder(i)
  PROVE  HandlersGood' /\ MoneyMoves
<1> DEFINE p == posts[i]
           o == LiveOrder(i)
           c == PaysWith(p.request.side)
           n == Cost(p.request.side, p.orderPrice, Remaining(o))
<1>1. /\ EngineFree /\ p.pc = "unlocking" /\ Goto(i, "done")
      /\ accounts' = IF CanUnlock(p.user, c, n) THEN Lock(p.user, c, -n) ELSE accounts
      /\ UNCHANGED <<allVars, rows, tradeRows, ledger, deletes, lost>>
  BY DEF UnlockRemainder, At
<1>2. /\ p \in Post /\ PostGood(p, i, Len(orders), DOMAIN rows) /\ EngineInv
      /\ accounts \in AccountTable
  BY HandlerFacts DEF AccountTable
<1>3. p.user \in Users /\ p.orderPrice \in Nat /\ c \in Currency
  BY <1>2, PostFields DEF PaysWith, Currency
<1>4. Remaining(o) \in Nat
  <2>1. p.order \in 1..Len(orders)
    <3>1. p.order \in 0..Len(orders) /\ p.order # 0 /\ Len(orders) \in Nat
      BY <1>1, <1>2, EngineFacts DEF PostGood, NoOrder
    <3> HIDE DEF p
    <3> QED
      BY <3>1
  <2>2. o \in Order /\ o.filledQuantity <= o.quantity
    BY <1>2, <2>1, EngineFacts DEF LiveOrder, EngineInv, Inv, OrdersSound, OrderSound
  <2>3. o.quantity \in Nat /\ o.filledQuantity \in Nat
    BY <2>2 DEF Order
  <2> HIDE DEF o
  <2> QED
    BY <2>2, <2>3 DEF Remaining
<1>5. n \in Nat
  <2> HIDE DEF p, o
  <2> QED
    BY <1>3, <1>4, CostType
<1>6. p.unsettled = << >>
  BY <1>1, <1>2 DEF PostGood
<1> HIDE DEF p, o, c, n
<1>7. /\ accounts' \in AccountTable
      /\ \A v \in Users : \A k \in Currency :
           Balance(accounts', v, k) = Balance(accounts, v, k)
  <2>1. CASE CanUnlock(p.user, c, n)
    <3>1. Lock(p.user, c, -n) \in AccountTable
      BY <1>3, <1>5, <2>1, Unlocked
    <3>2. ASSUME NEW v \in Users, NEW k \in Currency
          PROVE  Balance(Lock(p.user, c, -n), v, k) = Balance(accounts, v, k)
      BY <1>3, <1>5, <2>1, Unlocked
    <3> QED
      BY <1>1, <2>1, <3>1, <3>2
  <2>2. CASE ~ CanUnlock(p.user, c, n)
    BY <1>1, <1>2, <2>2
  <2> QED
    BY <2>1, <2>2
<1>8. TablesGood'
  <2>1. Len(posts') = Len(posts)
    BY <1>1, GotoKeepsLength DEF PostPc
  <2> QED
    BY <1>1, <1>7, <2>1, TablesKept DEF TablesGood, RowsGood, AccountTable
<1>9. HandlersGood'
  <2>1. posts[i].unsettled = << >>
    BY <1>6 DEF p
  <2> QED
    BY <1>1, <1>8, <2>1, GotoStep
<1> QED
  BY <1>1, <1>7, <1>9, MoneyStays

LEMMA PostKeepsHandlers ==
  ASSUME HandlersGood, NEW i \in 1..Len(posts), PostStep(i)
  PROVE  HandlersGood' /\ MoneyMoves
<1>1. \/ RefuseForFunds(i) \/ InsertStop(i) \/ SubmitThrows(i) \/ SubmitPost(i)
      \/ TakeTrades(i) \/ SettleFails(i) \/ Answer(i) \/ MarkCancelled(i)
      => accounts' = accounts /\ ledger' = ledger
  BY DEF RefuseForFunds, InsertStop, SubmitThrows, SubmitPost, TakeTrades,
         SettleFails, Answer, MarkCancelled
<1>2. accounts' = accounts /\ ledger' = ledger => MoneyMoves
  BY MoneyStays
<1>3. CASE LockAndInsert(i)
  <2>1. ledger' = ledger
    BY <1>3 DEF LockAndInsert
  <2> QED
    BY <1>3, <2>1, LockKeepsHandlers, MoneyStays
<1> QED
  BY <1>1, <1>2, <1>3, RefuseKeepsHandlers, InsertStopKeepsHandlers,
     SubmitThrowsKeepsHandlers, SubmitKeepsHandlers, TakeKeepsHandlers, SettleKeepsHandlers,
     SettleFailsKeepsHandlers, AnswerKeepsHandlers, MarkCancelledKeepsHandlers,
     UnlockRemainderKeepsHandlers
     DEF PostStep

-----------------------------------------------------------------------------
(***************************************************************************)
(* The steps of a DELETE handler.                                          *)
(***************************************************************************)
LEMMA DeleteFacts ==
  ASSUME HandlersGood, NEW d \in Deletes, deletes[d].pc # "idle"
  PROVE  /\ deletes[d] \in Delete /\ deletes[d].row \in DOMAIN rows
         /\ rows[deletes[d].row] \in Row
         /\ \A pc \in DeletePc :
              LET e == [deletes[d] EXCEPT !.pc = pc]
              IN  /\ e \in Delete /\ e.row = deletes[d].row
                  /\ DeleteGoto(d, pc) <=> deletes' = [deletes EXCEPT ![d] = e]
<1>1. /\ deletes \in [Deletes -> Delete] /\ deletes[d].row \in DOMAIN rows
      /\ \A i \in DOMAIN rows : rows[i] \in Row
  BY HandlerFacts DEF HandlersGood, DeletesGood
<1>2. deletes[d] \in Delete
  BY <1>1
<1>3. \A pc \in DeletePc :
        /\ [deletes[d] EXCEPT !.pc = pc] \in Delete
        /\ [deletes[d] EXCEPT !.pc = pc].row = deletes[d].row
  BY <1>2 DEF Delete
<1> QED
  BY <1>1, <1>2, <1>3 DEF DeleteGoto

LEMMA ReadKeepsHandlers ==
  ASSUME HandlersGood, NEW d \in Deletes, NEW i \in DOMAIN rows, ReadRow(d, i)
  PROVE  HandlersGood' /\ MoneyMoves
<1> DEFINE e == [pc |-> "cancelling", row |-> i,
                 remaining |-> rows[i].quantity - rows[i].filled]
<1>1. /\ EngineFree /\ rows[i].status \notin {"FILLED", "CANCELLED"}
      /\ deletes' = [deletes EXCEPT ![d] = e]
      /\ UNCHANGED <<allVars, accounts, rows, tradeRows, ledger, posts, lost>>
  BY DEF ReadRow
<1>2. /\ EngineInv /\ ReportInv /\ rows[i] \in Row /\ i \in 1..Len(posts)
      /\ Len(posts) \in Nat /\ rows[i].filled <= rows[i].quantity
  BY <1>1, HandlerFacts DEF HandlersGood, RowsGood
<1>3. EngineInv' /\ ReportInv' /\ orders' = orders /\ EngineIdle'
  BY <1>1, <1>2, EngineUntouched DEF EngineFree, EngineIdle
<1>4. e \in Delete /\ e.row \in DOMAIN rows
  <2>1. rows[i].filled \in Nat /\ rows[i].quantity \in Nat /\ i \in Nat
    BY <1>2 DEF Row
  <2>2. rows[i].quantity - rows[i].filled \in Nat
    BY <1>2, <2>1
  <2> QED
    BY <2>1, <2>2 DEF Delete, DeletePc
<1> HIDE DEF e
<1>5. TablesGood'
  BY <1>1, TablesKept DEF TablesGood, RowsGood
<1>6. HandlersGood'
  <2>1. Len(orders') = Len(orders) /\ posts' = posts /\ DOMAIN rows' = DOMAIN rows
    BY <1>1, <1>3
  <2> QED
    BY <1>1, <1>3, <1>4, <1>5, <2>1, DeleteMoves
<1> QED
  BY <1>1, <1>6, MoneyStays

LEMMA DeleteGoes ==
  ASSUME HandlersGood, EngineInv', ReportInv', Len(orders') = Len(orders),
         EngineIdle', NEW d \in Deletes, deletes[d].pc # "idle",
         NEW pc \in DeletePc, DeleteGoto(d, pc), posts' = posts,
         DOMAIN rows' = DOMAIN rows, TablesGood'
  PROVE  HandlersGood'
<1> DEFINE e == [deletes[d] EXCEPT !.pc = pc]
<1>1. /\ deletes[d].row \in DOMAIN rows /\ e \in Delete /\ e.row = deletes[d].row
      /\ deletes' = [deletes EXCEPT ![d] = e]
  BY DeleteFacts
<1> HIDE DEF e
<1>2. e.row \in DOMAIN rows
  BY <1>1
<1> QED
  BY <1>1, <1>2, DeleteMoves

LEMMA CancelInEngineKeepsHandlers ==
  ASSUME HandlersGood, NEW d \in Deletes, CancelInEngine(d)
  PROVE  /\ HandlersGood' /\ MoneyMoves /\ Len(orders') = Len(orders)
         /\ \A x \in 1..Len(orders) :
              orders'[x].filledQuantity = orders[x].filledQuantity
<1> DEFINE id == posts[deletes[d].row].order
<1>1. /\ EngineFree /\ deletes[d].pc = "cancelling" /\ DeleteGoto(d, "unlocking")
      /\ \/ Known(id) /\ EngineCancel(id)
         \/ ~ Known(id) /\ UNCHANGED allVars
      /\ UNCHANGED <<accounts, rows, tradeRows, ledger, posts, lost>>
  BY DEF CancelInEngine, DeleteAt
<1>2. EngineInv /\ ReportInv
  BY DEF HandlersGood
<1>3. /\ EngineInv' /\ ReportInv' /\ EngineIdle' /\ Len(orders') = Len(orders)
      /\ \A x \in 1..Len(orders) :
           orders'[x].filledQuantity = orders[x].filledQuantity
  <2>1. CASE Known(id) /\ EngineCancel(id)
    <3>1. id \in 1..Len(orders)
      BY <1>2, <2>1, EngineFacts DEF Known, WaitingIds, EngineInv, StopsKept
    <3> HIDE DEF id
    <3> QED
      BY <1>2, <2>1, <3>1, CancelEngineStep, CancelReports
  <2>2. CASE UNCHANGED allVars
    BY <1>1, <1>2, <2>2, EngineUntouched DEF EngineFree, EngineIdle
  <2> QED
    BY <1>1, <2>1, <2>2
<1>4. TablesGood'
  BY <1>1, TablesKept DEF TablesGood, RowsGood
<1>5. HandlersGood'
  <2>1. deletes[d].pc # "idle" /\ "unlocking" \in DeletePc /\ posts' = posts
        /\ DOMAIN rows' = DOMAIN rows
    BY <1>1 DEF DeletePc
  <2> QED
    BY <1>1, <1>2, <1>3, <1>4, <2>1, DeleteGoes
<1>6. MoneyMoves
  BY <1>1, MoneyStays
<1> QED
  BY <1>3, <1>5, <1>6

LEMMA UnlockDeletedKeepsHandlers ==
  ASSUME HandlersGood, NEW d \in Deletes, UnlockDeleted(d)
  PROVE  HandlersGood' /\ MoneyMoves
<1> DEFINE row == rows[deletes[d].row]
           c == PaysWith(row.side)
           n == DeleteAmount(d)
<1>1. /\ EngineFree /\ deletes[d].pc = "unlocking" /\ DeleteGoto(d, "marking")
      /\ CanUnlock(row.user, c, n) /\ accounts' = Lock(row.user, c, -n)
      /\ UNCHANGED <<allVars, rows, tradeRows, ledger, posts, lost>>
  BY DEF UnlockDeleted, DeleteAt
<1>2. /\ EngineInv /\ ReportInv /\ deletes[d] \in Delete /\ row \in Row
  BY <1>1, DeleteFacts DEF HandlersGood
<1>3. /\ EngineInv' /\ ReportInv' /\ orders' = orders /\ EngineIdle'
  BY <1>1, <1>2, EngineUntouched DEF EngineFree, EngineIdle
<1>4. row.user \in Users /\ c \in Currency
  BY <1>2 DEF Row, PaysWith, Currency
<1>5. n \in Nat
  <2>1. row.price \in Nat /\ deletes[d].remaining \in Nat
    BY <1>2 DEF Row, Delete
  <2> HIDE DEF row
  <2>2. Cost(row.side, row.price, deletes[d].remaining) \in Nat
    BY <2>1, CostType
  <2> QED
    BY <2>2 DEF DeleteAmount, row
<1> HIDE DEF row, c, n
<1>6. /\ accounts' \in AccountTable
      /\ \A v \in Users : \A k \in Currency :
           Balance(accounts', v, k) = Balance(accounts, v, k)
  <2>1. Lock(row.user, c, -n) \in AccountTable
    BY <1>1, <1>4, <1>5, Unlocked
  <2>2. ASSUME NEW v \in Users, NEW k \in Currency
        PROVE  Balance(Lock(row.user, c, -n), v, k) = Balance(accounts, v, k)
    BY <1>1, <1>4, <1>5, Unlocked
  <2> QED
    BY <1>1, <2>1, <2>2
<1>7. TablesGood'
  BY <1>1, <1>6, TablesKept DEF TablesGood, RowsGood, AccountTable
<1>8. HandlersGood'
  <2>1. deletes[d].pc # "idle" /\ "marking" \in DeletePc /\ posts' = posts
        /\ DOMAIN rows' = DOMAIN rows /\ Len(orders') = Len(orders)
    BY <1>1, <1>3 DEF DeletePc
  <2> QED
    BY <1>1, <1>2, <1>3, <1>7, <2>1, DeleteGoes
<1> QED
  BY <1>1, <1>6, <1>8, MoneyStays

LEMMA UnlockFailsKeepsHandlers ==
  ASSUME HandlersGood, NEW d \in Deletes, UnlockDeletedFails(d)
  PROVE  HandlersGood' /\ MoneyMoves
<1>1. /\ EngineFree /\ deletes[d].pc = "unlocking" /\ DeleteGoto(d, "done")
      /\ UNCHANGED <<allVars, accounts, rows, tradeRows, ledger, posts, lost>>
  BY DEF UnlockDeletedFails, DeleteAt
<1>2. /\ EngineInv' /\ ReportInv' /\ orders' = orders /\ EngineIdle'
  BY <1>1, EngineUntouched DEF EngineFree, EngineIdle, HandlersGood
<1>3. TablesGood'
  BY <1>1, TablesKept DEF TablesGood, RowsGood
<1>4. deletes[d].pc # "idle" /\ "done" \in DeletePc /\ posts' = posts
      /\ DOMAIN rows' = DOMAIN rows /\ Len(orders') = Len(orders)
  BY <1>1, <1>2 DEF DeletePc
<1>5. HandlersGood'
  BY <1>1, <1>2, <1>3, <1>4, DeleteGoes
<1> QED
  BY <1>1, <1>5, MoneyStays

LEMMA MarkDeletedKeepsHandlers ==
  ASSUME HandlersGood, NEW d \in Deletes, MarkDeleted(d)
  PROVE  HandlersGood' /\ MoneyMoves
<1> DEFINE i == deletes[d].row
<1>1. /\ EngineFree /\ deletes[d].pc = "marking" /\ DeleteGoto(d, "done")
      /\ rows' = [rows EXCEPT ![i].status = "CANCELLED"]
      /\ UNCHANGED <<allVars, accounts, tradeRows, ledger, posts, lost>>
  BY DEF MarkDeleted, DeleteAt
<1>2. /\ i \in DOMAIN rows /\ posts \in Seq(Post)
  BY <1>1, DeleteFacts, HandlerFacts
<1> HIDE DEF i
<1>3. /\ EngineInv' /\ ReportInv' /\ orders' = orders /\ EngineIdle'
  BY <1>1, EngineUntouched DEF EngineFree, EngineIdle, HandlersGood
<1>4. /\ DOMAIN rows' = DOMAIN rows /\ DOMAIN rows' \subseteq 1..Len(posts')
      /\ (\A j \in DOMAIN rows' : rows'[j] \in Row) /\ RowsGood'
  BY <1>1, <1>2, MarkKeepsRows
<1>5. TablesGood'
  BY <1>1, <1>4, TablesKept DEF TablesGood
<1>6. deletes[d].pc # "idle" /\ "done" \in DeletePc /\ posts' = posts
      /\ Len(orders') = Len(orders)
  BY <1>1, <1>3 DEF DeletePc
<1>7. HandlersGood'
  BY <1>1, <1>3, <1>4, <1>5, <1>6, DeleteGoes
<1> QED
  BY <1>1, <1>7, MoneyStays

LEMMA CancelThrowsKeepsHandlers ==
  ASSUME HandlersGood, NEW d \in Deletes, CancelThrows(d)
  PROVE  HandlersGood' /\ MoneyMoves
<1>1. /\ EngineFree /\ deletes[d].pc = "cancelling" /\ DeleteGoto(d, "done")
      /\ UNCHANGED <<allVars, accounts, rows, tradeRows, ledger, posts, lost>>
  BY DEF CancelThrows, DeleteAt
<1>2. /\ EngineInv' /\ ReportInv' /\ orders' = orders /\ EngineIdle'
  BY <1>1, EngineUntouched DEF EngineFree, EngineIdle, HandlersGood
<1>3. TablesGood'
  BY <1>1, TablesKept DEF TablesGood, RowsGood
<1>4. deletes[d].pc # "idle" /\ "done" \in DeletePc /\ posts' = posts
      /\ DOMAIN rows' = DOMAIN rows /\ Len(orders') = Len(orders)
  BY <1>1, <1>2 DEF DeletePc
<1>5. HandlersGood'
  BY <1>1, <1>2, <1>3, <1>4, DeleteGoes
<1> QED
  BY <1>1, <1>5, MoneyStays

LEMMA DeleteKeepsHandlers ==
  ASSUME HandlersGood, NEW d \in Deletes, DeleteStep(d)
  PROVE  HandlersGood' /\ MoneyMoves
  BY CancelThrowsKeepsHandlers, CancelInEngineKeepsHandlers,
     UnlockDeletedKeepsHandlers, UnlockFailsKeepsHandlers, MarkDeletedKeepsHandlers
     DEF DeleteStep

-----------------------------------------------------------------------------
(***************************************************************************)
(* The handlers and the money.                                             *)
(***************************************************************************)
LEMMA TotalOfZeros ==
  ASSUME NEW S, IsFiniteSet(S), NEW f, \A x \in S : f[x] = 0
  PROVE  Total(f, S) = 0
<1> DEFINE h == [T \in SUBSET S |-> 0]
<1>1. Sums(h, f, S) /\ S \in SUBSET S
  BY DEF Sums
<1>2. h[S] = 0
  OBVIOUS
<1> HIDE DEF h
<1> QED
  BY <1>1, <1>2, TotalIsSum

\* What every account has is what it began with and what the ledger says.
MoneyGood ==
  /\ \A u \in Users : \A c \in Currency :
       Balance(accounts, u, c) = Initial[c] + ledger[u][c]
  /\ \A c \in Currency : Total(EntriesOf(ledger, c), Users) = 0

LEMMA HandlersInit == GatewayInit => HandlersGood /\ MoneyGood
<1> SUFFICES ASSUME GatewayInit PROVE HandlersGood /\ MoneyGood
  OBVIOUS
<1>1. /\ EngineInit /\ posts = << >> /\ rows = << >> /\ tradeRows = << >>
      /\ lost = << >>
      /\ accounts = [u \in Users |-> [c \in Currency |->
                       [available |-> Initial[c], locked |-> 0]]]
      /\ ledger = [u \in Users |-> [c \in Currency |-> 0]]
      /\ deletes = [d \in Deletes |-> [pc |-> "idle", row |-> 0, remaining |-> 0]]
  BY DEF GatewayInit
<1>2. EngineInv /\ ReportInv /\ EngineTypeOK /\ EngineIdle
  BY <1>1, EngineInvInit DEF EngineInit, Init, ReportInv, Named, EngineInv, EngineIdle
<1>3. /\ posts \in Seq(Post) /\ Len(posts) = 0 /\ 1..Len(posts) = {}
      /\ tradeRows \in Seq(Trade) /\ lost \in Seq(Trade) /\ DOMAIN rows = {}
  BY <1>1, EmptySeq
<1>4. \A c \in Currency : Initial[c] \in Nat
  BY GatewayAssumption
<1>5. accounts \in [Users -> [Currency -> Account]]
  BY <1>1, <1>4 DEF Account
<1>6. ledger \in [Users -> [Currency -> Int]] /\ deletes \in [Deletes -> Delete]
  BY <1>1 DEF Delete, DeletePc
<1>7. GatewayTypeOK
  BY <1>2, <1>3, <1>5, <1>6 DEF GatewayTypeOK
<1>8. PostsGood /\ RowsGood /\ DeletesGood /\ OneCall
  BY <1>1, <1>2, <1>3 DEF PostsGood, RowsGood, DeletesGood, OneCall
<1>9. MoneyGood
  <2>1. ASSUME NEW c \in Currency PROVE Total(EntriesOf(ledger, c), Users) = 0
    <3>1. \A u \in Users : EntriesOf(ledger, c)[u] = 0
      BY <1>1 DEF EntriesOf
    <3> QED
      BY <3>1, TotalOfZeros, GatewayAssumption
  <2>2. \A u \in Users : \A c \in Currency :
          Balance(accounts, u, c) = Initial[c] + ledger[u][c]
    BY <1>1, <1>4 DEF Balance
  <2> QED
    BY <2>1, <2>2 DEF MoneyGood
<1> QED
  BY <1>2, <1>7, <1>8, <1>9 DEF HandlersGood

LEMMA MoneyKept ==
  ASSUME HandlersGood, MoneyGood, HandlersGood', MoneyMoves
  PROVE  MoneyGood'
<1>1. ASSUME NEW u \in Users, NEW c \in Currency
      PROVE  Balance(accounts', u, c) = Initial[c] + ledger'[u][c]
  <2>1. /\ Balance(accounts', u, c) - Balance(accounts, u, c) =
             ledger'[u][c] - ledger[u][c]
        /\ Balance(accounts, u, c) = Initial[c] + ledger[u][c]
    BY DEF MoneyMoves, MoneyGood
  <2>2. /\ ledger[u][c] \in Int /\ ledger'[u][c] \in Int /\ Initial[c] \in Nat
        /\ Balance(accounts, u, c) \in Nat /\ Balance(accounts', u, c) \in Nat
    BY GatewayAssumption, SMTT(30) DEF HandlersGood, GatewayTypeOK, Balance, Account
  <2> QED
    BY <2>1, <2>2
<1> QED
  BY <1>1 DEF MoneyMoves, MoneyGood, Balance, EntriesOf

LEMMA HandlersStep ==
  HandlersGood /\ [GatewayNext]_systemVars => HandlersGood' /\ MoneyMoves
<1> SUFFICES ASSUME HandlersGood, [GatewayNext]_systemVars
             PROVE  HandlersGood' /\ MoneyMoves
  OBVIOUS
<1>1. ASSUME NEW user \in Users, NEW r \in Requests, NEW stop \in StopPrices,
             NEW delta \in Deltas, ReceivePost(user, r, stop, delta)
      PROVE  HandlersGood' /\ MoneyMoves
  <2>1. accounts' = accounts /\ ledger' = ledger
    BY <1>1 DEF ReceivePost
  <2> QED
    BY <1>1, <2>1, ReceiveKeepsHandlers, MoneyStays
<1>2. CASE Arrive
  BY <1>1, <1>2, ReadKeepsHandlers DEF Arrive
<1>3. CASE EngineWork
  <2>1. accounts' = accounts /\ ledger' = ledger
    BY <1>3 DEF EngineWork, gatewayVars
  <2> QED
    BY <1>3, <2>1, WorkKeepsHandlers, MoneyStays
<1>4. CASE UNCHANGED systemVars
  <2>1. /\ UNCHANGED allVars /\ accounts' = accounts /\ rows' = rows
        /\ tradeRows' = tradeRows /\ ledger' = ledger /\ posts' = posts
        /\ deletes' = deletes /\ lost' = lost
    BY <1>4 DEF systemVars, gatewayVars
  <2>2. EngineInv' /\ ReportInv' /\ orders' = orders /\ stage' = stage
    BY <2>1, EngineUntouched DEF HandlersGood
  <2>3. HandlersGood'
    BY <2>1, <2>2
       DEF HandlersGood, GatewayTypeOK, PostsGood, PostGood, Named, RowsGood,
           DeletesGood, OneCall, InCall, EngineIdle, EngineInv
  <2> QED
    BY <2>1, <2>3, MoneyStays
<1> QED
  BY <1>2, <1>3, <1>4, PostKeepsHandlers, DeleteKeepsHandlers DEF GatewayNext

LEMMA GatewaySteps == GatewaySpec => GatewayInit /\ [][GatewayNext]_systemVars
  BY PTL DEF GatewaySpec

\* Where every handler is, what it holds, and that the engine works for one at a
\* time: an invariant of the POST and DELETE handlers, the database and the engine.
THEOREM HandlersInvariance == GatewaySpec => []HandlersGood
  BY GatewaySteps, HandlersInit, HandlersStep, PTL

\* The tables hold what their columns say, however handlers overlap: no balance
\* is ever negative, neither available nor locked.
THEOREM GatewayTypeCorrect == GatewaySpec => []GatewayTypeOK
<1>1. HandlersGood => GatewayTypeOK
  BY DEF HandlersGood
<1> QED
  BY <1>1, HandlersInvariance, PTL

\* Whatever handlers run into one another, fail or are rolled back: every balance
\* of lockFundsForOrder, unlockFundsForCancel and settleTrade is what the account
\* began with plus the entries of recordTradeSettlement, which cancel out.
THEOREM BalancesAlwaysFollowLedger == GatewaySpec => []BalancesFollowLedger
<1>1. HandlersGood /\ MoneyGood /\ [GatewayNext]_systemVars => MoneyGood'
  BY HandlersStep, MoneyKept
<1>2. ASSUME HandlersGood, MoneyGood PROVE BalancesFollowLedger
  <2>1. ledger \in LedgerTable
    BY <1>2, HandlerFacts DEF LedgerTable
  <2>2. ASSUME NEW c \in Currency PROVE LedgerSum(ledger, c) = 0
    BY <1>2, <2>1, LedgerSumIsTotal DEF MoneyGood
  <2>3. \A u \in Users : \A c \in Currency :
          accounts[u][c].available + accounts[u][c].locked =
            Initial[c] + ledger[u][c]
    BY <1>2 DEF MoneyGood, Balance
  <2> QED
    BY <2>2, <2>3
       DEF BalancesFollowLedger, LedgerSum, SumOf, FoldSet, MapThenFoldSet
<1>3. HandlersGood /\ MoneyGood => BalancesFollowLedger
  BY <1>2
<1> QED
  BY <1>1, <1>3, GatewaySteps, HandlersInit, HandlersInvariance, PTL

-----------------------------------------------------------------------------
(***************************************************************************)
(* What the handlers have still to settle.                                 *)
(***************************************************************************)
Owed(id, ps) == [i \in 1..Len(ps) |-> TradedQuantity(id, ps[i].unsettled)]

UnsettledIn(id, ps) ==
  SumOf(LAMBDA i : TradedQuantity(id, ps[i].unsettled), 1..Len(ps))

LEMMA OwedType ==
  ASSUME NEW id, NEW ps \in Seq(Post)
  PROVE  /\ Len(ps) \in Nat /\ IsFiniteSet(1..Len(ps))
         /\ \A i \in 1..Len(ps) :
              /\ Owed(id, ps)[i] = TradedQuantity(id, ps[i].unsettled)
              /\ Owed(id, ps)[i] \in Nat
<1>1. Len(ps) \in Nat
  BY LenProperties
<1>2. \A i \in 1..Len(ps) : ps[i].unsettled \in Seq(Trade)
  BY ElementOfSeq, PostFields
<1>3. \A i \in 1..Len(ps) : TradedQuantity(id, ps[i].unsettled) \in Nat
  BY <1>2, TradedIsTotal
<1> QED
  BY <1>1, <1>3, FS_Interval DEF Owed

LEMMA UnsettledIsTotal ==
  ASSUME NEW id, NEW ps \in Seq(Post)
  PROVE  /\ UnsettledIn(id, ps) = Total(Owed(id, ps), 1..Len(ps))
         /\ UnsettledIn(id, ps) \in Nat
<1> DEFINE S == 1..Len(ps)
           f == Owed(id, ps)
           P(h) == h = [T \in SUBSET S |->
                          IF T = {} THEN 0
                          ELSE h[T \ {CHOOSE x \in T : TRUE}]
                                 + TradedQuantity(id, ps[CHOOSE x \in T : TRUE].unsettled)]
<1>1. IsFiniteSet(S) /\ \A i \in S : /\ f[i] = TradedQuantity(id, ps[i].unsettled)
                                     /\ f[i] \in Nat
  BY OwedType
<1>2. UnsettledIn(id, ps) = (CHOOSE h : P(h))[S]
  BY DEF UnsettledIn, SumOf, FoldSet, MapThenFoldSet
<1> HIDE DEF S, f
<1>3. ASSUME NEW h PROVE P(h) <=> SumsByChoice(h, f, S)
  <2>1. \A T \in SUBSET S :
          T # {} => f[CHOOSE x \in T : TRUE] =
                      TradedQuantity(id, ps[CHOOSE x \in T : TRUE].unsettled)
    BY <1>1
  <2> QED
    BY <2>1 DEF SumsByChoice
<1>4. \A i \in S : f[i] \in Int
  BY <1>1
<1> HIDE DEF P
<1>5. SumsByChoice(CHOOSE h : P(h), f, S)
  BY <1>1, <1>3, <1>4, SumByChoice
<1>6. UnsettledIn(id, ps) = Total(f, S)
  BY <1>1, <1>2, <1>4, <1>5, SumByChoice
<1>7. Total(f, S) \in Nat
  BY <1>1, TotalNonNegative
<1> QED
  BY <1>6, <1>7 DEF f, S

Changed(f, g, S, x) ==
  /\ IsFiniteSet(S) /\ x \in S
  /\ \A y \in S : f[y] \in Int /\ g[y] \in Int
  /\ \A y \in S \ {x} : g[y] = f[y]

LEMMA TotalOfChanged ==
  ASSUME NEW f, NEW g, NEW S, NEW x, Changed(f, g, S, x)
  PROVE  Total(g, S) = Total(f, S) + g[x] - f[x]
<1>1. /\ IsFiniteSet(S) /\ x \in S
      /\ \A y \in S : f[y] \in Int /\ g[y] \in Int
      /\ \A y \in S \ {x} : g[y] = f[y]
  BY DEF Changed
<1> QED
  BY <1>1, TotalChange

LEMMA UnsettledReplaced ==
  ASSUME NEW id, NEW ps \in Seq(Post), NEW i \in 1..Len(ps), NEW q \in Post
  PROVE  UnsettledIn(id, [ps EXCEPT ![i] = q]) =
           UnsettledIn(id, ps) + TradedQuantity(id, q.unsettled)
             - TradedQuantity(id, ps[i].unsettled)
<1> DEFINE new == [ps EXCEPT ![i] = q]
           S == 1..Len(ps)
           f == Owed(id, ps)
           g == Owed(id, new)
<1>1. /\ new \in Seq(Post) /\ Len(new) = Len(ps)
      /\ \A j \in 1..Len(ps) : new[j] = IF j = i THEN q ELSE ps[j]
  BY PostReplaced
<1> HIDE DEF new
<1>2. IsFiniteSet(S) /\ \A j \in S : /\ f[j] = TradedQuantity(id, ps[j].unsettled)
                                     /\ f[j] \in Int
  BY OwedType
<1>3. \A j \in S : g[j] = TradedQuantity(id, new[j].unsettled) /\ g[j] \in Int
  BY <1>1, OwedType
<1>4. /\ UnsettledIn(id, ps) = Total(f, S)
      /\ UnsettledIn(id, new) = Total(g, S)
  BY <1>1, UnsettledIsTotal
<1>5. /\ \A j \in S \ {i} : g[j] = f[j]
      /\ g[i] = TradedQuantity(id, q.unsettled)
      /\ f[i] = TradedQuantity(id, ps[i].unsettled)
      /\ i \in S /\ \A j \in S : f[j] \in Int /\ g[j] \in Int
  BY <1>1, <1>2, <1>3
<1> HIDE DEF S, f, g
<1>6. Changed(f, g, S, i)
  BY <1>2, <1>5 DEF Changed
<1>7. Total(g, S) = Total(f, S) + g[i] - f[i]
  BY <1>6, TotalOfChanged
<1> QED
  BY <1>4, <1>5, <1>7 DEF new

LEMMA UnsettledAppended ==
  ASSUME NEW id, NEW ps \in Seq(Post), NEW q \in Post
  PROVE  UnsettledIn(id, Append(ps, q)) =
           UnsettledIn(id, ps) + TradedQuantity(id, q.unsettled)
<1> DEFINE new == Append(ps, q)
           m == Len(ps)
           S == 1..m
           f == Owed(id, ps)
           g == Owed(id, new)
<1>1. /\ new \in Seq(Post) /\ Len(new) = m + 1 /\ m \in Nat
      /\ \A j \in 1..m : new[j] = ps[j]
      /\ new[m + 1] = q
  BY AppendProperties, LenProperties
<1> HIDE DEF new
<1>2. IsFiniteSet(S) /\ \A j \in S : /\ f[j] = TradedQuantity(id, ps[j].unsettled)
                                     /\ f[j] \in Nat
  BY OwedType
<1>3. \A j \in 1..Len(new) : /\ g[j] = TradedQuantity(id, new[j].unsettled)
                             /\ g[j] \in Int
  BY <1>1, OwedType
<1>4. /\ UnsettledIn(id, ps) = Total(f, S)
      /\ UnsettledIn(id, new) = Total(g, 1..Len(new))
  BY <1>1, UnsettledIsTotal
<1>5. 1..Len(new) = S \union {m + 1} /\ m + 1 \notin S
  BY <1>1
<1>6. /\ \A j \in S \union {m + 1} : g[j] \in Int
      /\ \A j \in S : g[j] = f[j] /\ g[j] \in Int /\ f[j] \in Int
      /\ g[m + 1] = TradedQuantity(id, q.unsettled)
  BY <1>1, <1>2, <1>3, <1>5
<1> HIDE DEF S, f, g, m
<1>7. Total(g, S \union {m + 1}) = g[m + 1] + Total(g, S)
  BY <1>2, <1>5, <1>6, TotalAdd
<1>8. Total(g, S) = Total(f, S)
  BY <1>2, <1>6, TotalSame
<1>9. Total(f, S) \in Int /\ g[m + 1] \in Int
  <2>1. \A j \in S : f[j] \in Int
    BY <1>6
  <2> QED
    BY <1>2, <1>6, <2>1, TotalType
<1>10. UnsettledIn(id, new) = g[m + 1] + UnsettledIn(id, ps)
  BY <1>4, <1>5, <1>7, <1>8
<1> QED
  BY <1>4, <1>6, <1>9, <1>10 DEF new

LEMMA UnsettledOfNobody ==
  ASSUME HandlersGood, NEW id, id \notin 1..Len(orders)
  PROVE  UnsettledIn(id, posts) = 0
<1>1. posts \in Seq(Post) /\ Len(orders) \in Nat
  BY HandlerFacts
<1>2. ASSUME NEW i \in 1..Len(posts) PROVE Owed(id, posts)[i] = 0
  <2>1. posts[i].unsettled \in Seq(Trade) /\ Named(posts[i].unsettled, Len(orders))
    BY HandlerFacts, PostFields DEF PostGood
  <2>2. TradedQuantity(id, posts[i].unsettled) = 0
    BY <1>1, <2>1, TradedOfNobody
  <2> QED
    BY <1>1, <2>2, OwedType
<1> DEFINE S == 1..Len(posts)
           f == Owed(id, posts)
<1>3. IsFiniteSet(S) /\ \A i \in S : f[i] = 0
  BY <1>1, <1>2, OwedType
<1>4. UnsettledIn(id, posts) = Total(f, S)
  BY <1>1, UnsettledIsTotal
<1> HIDE DEF S, f
<1> QED
  BY <1>3, <1>4, TotalOfZeros

\* The first trade of a list and the rest of it.
LEMMA TradedOfFirst ==
  ASSUME NEW id, NEW list \in Seq(Trade), list # << >>
  PROVE  /\ TradedQuantity(id, list) =
              Share(id, Head(list)) + TradedQuantity(id, Tail(list))
         /\ Share(id, Head(list)) \in Nat /\ TradedQuantity(id, Tail(list)) \in Nat
<1> DEFINE t == Head(list)
           rest == Tail(list)
<1>1. /\ Len(list) \in Nat \ {0} /\ t = list[1] /\ rest \in Seq(Trade)
      /\ Len(rest) = Len(list) - 1
      /\ \A j \in 1..Len(rest) : rest[j] = list[j + 1]
  BY EmptySeq, LenProperties, HeadTailProperties
<1>2. t \in Trade
  BY <1>1, ElementOfSeq
<1> HIDE DEF t, rest
<1>3. <<t>> \in Seq(Trade) /\ Len(<<t>>) = 1 /\ <<t>>[1] = t
  BY <1>2
<1> DEFINE first == <<t>>
<1> HIDE DEF first
<1>4. /\ first \o rest \in Seq(Trade) /\ Len(first \o rest) = Len(list)
      /\ \A j \in 1..Len(list) :
           (first \o rest)[j] = IF j <= 1 THEN first[j] ELSE rest[j - 1]
  BY <1>1, <1>3, ConcatProperties DEF first
<1>5. first \o rest = list
  <2>1. \A j \in 1..Len(list) : j = 1 \/ j - 1 \in 1..Len(rest)
    BY <1>1
  <2>2. \A j \in 1..Len(list) : (first \o rest)[j] = list[j]
    BY <1>1, <1>3, <1>4, <2>1 DEF first
  <2> QED
    BY <1>4, <2>2, SeqEqual
<1>6. TradedQuantity(id, first \o rest) =
        TradedQuantity(id, first) + TradedQuantity(id, rest)
  BY <1>1, <1>3, TradedOfBoth DEF first
<1>7. /\ TradedQuantity(id, first) = Share(id, t) /\ Share(id, t) \in Nat
      /\ TradedQuantity(id, rest) \in Nat
  BY <1>1, <1>2, TradedOfOne, ShareType, TradedIsTotal DEF first
<1> QED
  BY <1>5, <1>6, <1>7 DEF t, rest

-----------------------------------------------------------------------------
(***************************************************************************)
(* The fills.                                                              *)
(***************************************************************************)

\* What the running call of the engine has traded of an order so far.
Running(id) == IF InCall THEN TradedQuantity(id, Reported) ELSE 0

OrdersApart ==
  \A i, j \in 1..Len(posts) :
    posts[i].order = posts[j].order /\ posts[i].order # NoOrder => i = j

\* The book of the fills, at any moment.
FillsGood ==
  /\ Named(tradeRows, Len(orders))
  /\ Named(lost, Len(orders))
  /\ \A id \in 1..Len(orders) :
       orders[id].filledQuantity =
         TradedQuantity(id, tradeRows) + UnsettledIn(id, posts)
           + TradedQuantity(id, lost) + Running(id)
  /\ \A i \in DOMAIN rows : rows[i].filled = TradedQuantity(posts[i].order, tradeRows)
  /\ OrdersApart

LEMMA FillTypes ==
  ASSUME HandlersGood
  PROVE  \A id : /\ TradedQuantity(id, tradeRows) \in Nat
                 /\ UnsettledIn(id, posts) \in Nat
                 /\ TradedQuantity(id, lost) \in Nat
                 /\ Running(id) \in Nat
<1>1. /\ tradeRows \in Seq(Trade) /\ lost \in Seq(Trade) /\ posts \in Seq(Post)
      /\ Reported \in Seq(Trade)
  BY HandlerFacts, ReportedFacts
<1> QED
  BY <1>1, TradedIsTotal, UnsettledIsTotal DEF Running

\* An order that does not exist yet is in nobody's book.
LEMMA NothingOfNobody ==
  ASSUME HandlersGood, FillsGood, NEW id, id \notin 1..Len(orders)
  PROVE  /\ TradedQuantity(id, tradeRows) = 0 /\ UnsettledIn(id, posts) = 0
         /\ TradedQuantity(id, lost) = 0
<1>1. /\ tradeRows \in Seq(Trade) /\ lost \in Seq(Trade) /\ Len(orders) \in Nat
      /\ Named(tradeRows, Len(orders)) /\ Named(lost, Len(orders))
  BY HandlerFacts DEF FillsGood
<1> QED
  BY <1>1, TradedOfNobody, UnsettledOfNobody

\* A step that fills and settles nothing.
FillsStay ==
  /\ Len(orders') = Len(orders)
  /\ \A x \in 1..Len(orders) : orders'[x].filledQuantity = orders[x].filledQuantity
  /\ tradeRows' = tradeRows /\ lost' = lost
  /\ ~ InCall /\ ~ InCall'
  /\ Len(posts') = Len(posts)
  /\ \A j \in 1..Len(posts) : posts'[j].order = posts[j].order
  /\ \A id : UnsettledIn(id, posts') = UnsettledIn(id, posts)

\* The rows keep what is filled of them, and a new one has no order yet.
RowsStay ==
  \A j \in DOMAIN rows' :
    /\ j \in 1..Len(posts)
    /\ \/ j \in DOMAIN rows /\ rows'[j].filled = rows[j].filled
       \/ rows'[j].filled = 0 /\ posts[j].order = NoOrder

LEMMA FillsKept ==
  ASSUME HandlersGood, FillsGood, FillsStay, RowsStay
  PROVE  FillsGood'
<1>1. TradedQuantity(NoOrder, tradeRows) = 0
  BY NothingOfNobody DEF NoOrder
<1>2. \A j \in DOMAIN rows' :
        rows'[j].filled = TradedQuantity(posts'[j].order, tradeRows)
  BY <1>1 DEF RowsStay, FillsStay, FillsGood
<1>3. OrdersApart'
  BY DEF OrdersApart, FillsStay, FillsGood
<1>4. \A id \in 1..Len(orders) :
        orders'[id].filledQuantity =
          TradedQuantity(id, tradeRows) + UnsettledIn(id, posts')
            + TradedQuantity(id, lost) + Running(id)'
  BY DEF FillsGood, FillsStay, Running
<1>5. Named(tradeRows', Len(orders')) /\ Named(lost', Len(orders'))
  BY DEF FillsGood, FillsStay
<1> QED
  BY <1>2, <1>3, <1>4, <1>5 DEF FillsGood, FillsStay, Named, Running

LEMMA UnsettledMoved ==
  ASSUME HandlersGood, NEW i \in 1..Len(posts), NEW q \in Post,
         posts' = [posts EXCEPT ![i] = q]
  PROVE  /\ Len(posts') = Len(posts)
         /\ \A j \in 1..Len(posts) : posts'[j] = IF j = i THEN q ELSE posts[j]
         /\ \A id : UnsettledIn(id, posts') =
                      UnsettledIn(id, posts) + TradedQuantity(id, q.unsettled)
                        - TradedQuantity(id, posts[i].unsettled)
         /\ \A id : /\ TradedQuantity(id, q.unsettled) \in Nat
                    /\ TradedQuantity(id, posts[i].unsettled) \in Nat
<1>1. posts \in Seq(Post) /\ posts[i] \in Post
  BY HandlerFacts
<1>2. \A id : UnsettledIn(id, posts') =
                UnsettledIn(id, posts) + TradedQuantity(id, q.unsettled)
                  - TradedQuantity(id, posts[i].unsettled)
  BY <1>1, UnsettledReplaced
<1>3. q.unsettled \in Seq(Trade) /\ posts[i].unsettled \in Seq(Trade)
  BY <1>1, PostFields
<1>4. Len(posts') = Len(posts)
      /\ \A j \in 1..Len(posts) : posts'[j] = IF j = i THEN q ELSE posts[j]
  BY <1>1, PostReplaced
<1> QED
  BY <1>2, <1>3, <1>4, TradedIsTotal

LEMMA GotoFills ==
  ASSUME HandlersGood, NEW i \in 1..Len(posts),
         NEW pc \in {"submitting", "unlocking", "done"},
         EngineFree, Goto(i, pc), UNCHANGED allVars,
         tradeRows' = tradeRows, lost' = lost
  PROVE  FillsStay
<1> DEFINE q == WithPc(posts[i], pc)
<1>1. posts[i] \in Post /\ orders' = orders
  BY HandlerFacts DEF allVars, bookVars
<1>2. /\ q \in Post /\ q.pc = pc /\ q.order = posts[i].order
      /\ q.unsettled = posts[i].unsettled
  BY <1>1, PcSet DEF PostPc
<1>3. posts' = [posts EXCEPT ![i] = q]
  BY DEF Goto, WithPc
<1> HIDE DEF q
<1>4. /\ Len(posts') = Len(posts)
      /\ \A j \in 1..Len(posts) : posts'[j] = IF j = i THEN q ELSE posts[j]
      /\ \A id : UnsettledIn(id, posts') =
                   UnsettledIn(id, posts) + TradedQuantity(id, q.unsettled)
                     - TradedQuantity(id, posts[i].unsettled)
      /\ \A id : TradedQuantity(id, q.unsettled) \in Nat
  BY <1>2, <1>3, UnsettledMoved
<1>5. \A id : UnsettledIn(id, posts') = UnsettledIn(id, posts)
  <2>1. \A id : UnsettledIn(id, posts) \in Nat
    BY FillTypes
  <2> QED
    BY <1>2, <1>4, <2>1
<1>6. ~ InCall /\ ~ InCall'
  BY <1>2, <1>4 DEF EngineFree, InCall
<1> QED
  BY <1>1, <1>2, <1>4, <1>5, <1>6 DEF FillsStay

LEMMA IdleFills ==
  ASSUME HandlersGood, EngineFree, posts' = posts, Len(orders') = Len(orders),
         \A x \in 1..Len(orders) :
           orders'[x].filledQuantity = orders[x].filledQuantity,
         tradeRows' = tradeRows, lost' = lost
  PROVE  FillsStay
  BY DEF FillsStay, EngineFree, InCall

LEMMA SameRows ==
  ASSUME HandlersGood, rows' = rows
  PROVE  RowsStay
  BY HandlerFacts DEF RowsStay

\* The steps of a handler that neither calls the engine nor settles.
LEMMA OtherStepsKeepFills ==
  ASSUME HandlersGood, FillsGood, NEW i \in 1..Len(posts),
         \/ RefuseForFunds(i) \/ LockAndInsert(i) \/ InsertStop(i)
         \/ SubmitThrows(i) \/ Answer(i) \/ MarkCancelled(i) \/ UnlockRemainder(i)
  PROVE  FillsGood'
<1>1. CASE RefuseForFunds(i) \/ SubmitThrows(i) \/ Answer(i) \/ UnlockRemainder(i)
  <2>1. /\ EngineFree /\ Goto(i, "done") /\ UNCHANGED allVars /\ rows' = rows
        /\ tradeRows' = tradeRows /\ lost' = lost
    BY <1>1 DEF RefuseForFunds, SubmitThrows, Answer, UnlockRemainder, At
  <2>2. FillsStay /\ RowsStay
    BY <2>1, GotoFills, SameRows
  <2> QED
    BY <2>2, FillsKept
<1>2. CASE LockAndInsert(i) \/ InsertStop(i)
  <2>1. /\ EngineFree /\ Goto(i, "submitting") /\ UNCHANGED allVars
        /\ tradeRows' = tradeRows /\ lost' = lost /\ posts[i].pc = "locking"
        /\ InsertRow(i, "OPEN") \/ InsertRow(i, "PENDING")
    BY <1>2 DEF LockAndInsert, InsertStop, At
  <2>2. posts' \in Seq(Post) /\ Len(posts') = Len(posts)
    BY <2>1, GotoKeepsLength DEF PostPc
  <2>3. /\ DOMAIN rows' = DOMAIN rows \union {i} /\ rows'[i].filled = 0
        /\ \A j \in DOMAIN rows : j # i => rows'[j] = rows[j]
    BY <2>1, <2>2, InsertedRow
  <2>4. posts[i].order = NoOrder /\ DOMAIN rows \subseteq 1..Len(posts)
    BY <2>1, HandlerFacts DEF PostGood
  <2>5. RowsStay
    BY <2>3, <2>4 DEF RowsStay
  <2>6. FillsStay
    BY <2>1, GotoFills
  <2> QED
    BY <2>5, <2>6, FillsKept
<1>3. CASE MarkCancelled(i)
  <2>1. /\ EngineFree /\ Goto(i, "unlocking") /\ UNCHANGED allVars
        /\ tradeRows' = tradeRows /\ lost' = lost /\ posts[i].pc = "settling"
        /\ rows' = [rows EXCEPT ![i].status = "CANCELLED"]
    BY <1>3 DEF MarkCancelled, At
  <2>2. posts' \in Seq(Post) /\ Len(posts') = Len(posts)
    BY <2>1, GotoKeepsLength DEF PostPc
  <2>3. i \in DOMAIN rows /\ DOMAIN rows \subseteq 1..Len(posts)
    BY <2>1, HandlerFacts DEF PostGood
  <2>4. /\ DOMAIN rows' = DOMAIN rows
        /\ \A j \in DOMAIN rows : rows'[j].filled = rows[j].filled
    BY <2>1, <2>2, <2>3, MarkKeepsRows
  <2>5. RowsStay
    BY <2>3, <2>4 DEF RowsStay
  <2>6. FillsStay
    BY <2>1, GotoFills
  <2> QED
    BY <2>5, <2>6, FillsKept
<1> QED
  BY <1>1, <1>2, <1>3

LEMMA DeleteKeepsFills ==
  ASSUME HandlersGood, FillsGood, NEW d \in Deletes,
         DeleteStep(d) \/ \E i \in DOMAIN rows : ReadRow(d, i)
  PROVE  FillsGood'
<1>1. CASE \/ CancelThrows(d) \/ UnlockDeleted(d) \/ UnlockDeletedFails(d)
           \/ \E i \in DOMAIN rows : ReadRow(d, i)
  <2>1. /\ EngineFree /\ posts' = posts /\ orders' = orders /\ rows' = rows
        /\ tradeRows' = tradeRows /\ lost' = lost
    BY <1>1 DEF CancelThrows, UnlockDeleted, UnlockDeletedFails, ReadRow, DeleteAt,
                allVars, bookVars
  <2>2. FillsStay /\ RowsStay
    BY <2>1, IdleFills, SameRows
  <2> QED
    BY <2>2, FillsKept
<1>2. CASE CancelInEngine(d)
  <2>1. /\ EngineFree /\ posts' = posts /\ rows' = rows /\ tradeRows' = tradeRows
        /\ lost' = lost
    BY <1>2 DEF CancelInEngine, DeleteAt
  <2>2. /\ Len(orders') = Len(orders)
        /\ \A x \in 1..Len(orders) :
             orders'[x].filledQuantity = orders[x].filledQuantity
    BY <1>2, CancelInEngineKeepsHandlers
  <2>3. FillsStay /\ RowsStay
    BY <2>1, <2>2, IdleFills, SameRows
  <2> QED
    BY <2>3, FillsKept
<1>3. CASE MarkDeleted(d)
  <2> DEFINE i == deletes[d].row
  <2>1. /\ EngineFree /\ posts' = posts /\ orders' = orders
        /\ tradeRows' = tradeRows /\ lost' = lost /\ deletes[d].pc = "marking"
        /\ rows' = [rows EXCEPT ![i].status = "CANCELLED"]
    BY <1>3 DEF MarkDeleted, DeleteAt, allVars, bookVars
  <2>2. i \in DOMAIN rows /\ DOMAIN rows \subseteq 1..Len(posts)
        /\ posts \in Seq(Post)
    BY <2>1, DeleteFacts, HandlerFacts
  <2> HIDE DEF i
  <2>3. /\ DOMAIN rows' = DOMAIN rows
        /\ \A j \in DOMAIN rows : rows'[j].filled = rows[j].filled
    BY <2>1, <2>2, MarkKeepsRows
  <2>4. RowsStay
    BY <2>2, <2>3 DEF RowsStay
  <2>5. FillsStay
    BY <2>1, IdleFills
  <2> QED
    BY <2>4, <2>5, FillsKept
<1> QED
  BY <1>1, <1>2, <1>3 DEF DeleteStep

LEMMA WorkKeepsFills ==
  ASSUME HandlersGood, FillsGood, EngineWork
  PROVE  FillsGood'
<1>1. Work /\ EngineInv /\ ReportInv
  BY DEF EngineWork, HandlersGood
<1>2. /\ rows' = rows /\ tradeRows' = tradeRows /\ posts' = posts /\ lost' = lost
  BY DEF EngineWork, gatewayVars
<1>3. InCall /\ InCall'
  BY <1>1, <1>2, WorkIsInCall DEF InCall
<1>4. FillsReported
  BY <1>1, WorkReports
<1>5. /\ Len(orders) \in Nat /\ Len(orders') \in Nat /\ Len(orders) <= Len(orders')
      /\ Reported' \in Seq(Trade) /\ Named(Reported', Len(orders))
  BY <1>4, HandlerFacts DEF FillsReported
<1>6. ASSUME NEW id \in 1..Len(orders')
      PROVE  orders'[id].filledQuantity =
               TradedQuantity(id, tradeRows) + UnsettledIn(id, posts)
                 + TradedQuantity(id, lost) + TradedQuantity(id, Reported')
  <2>1. CASE id \in 1..Len(orders)
    <3>1. /\ orders[id].filledQuantity =
               TradedQuantity(id, tradeRows) + UnsettledIn(id, posts)
                 + TradedQuantity(id, lost) + TradedQuantity(id, Reported)
          /\ orders'[id].filledQuantity - orders[id].filledQuantity =
               TradedQuantity(id, Reported') - TradedQuantity(id, Reported)
      BY <1>3, <1>4, <2>1 DEF FillsGood, FillsReported, Running
    <3>2. /\ TradedQuantity(id, tradeRows) \in Nat /\ UnsettledIn(id, posts) \in Nat
          /\ TradedQuantity(id, lost) \in Nat /\ TradedQuantity(id, Reported) \in Nat
          /\ TradedQuantity(id, Reported') \in Nat
      BY <1>1, <1>5, FillTypes, ReportedFacts, TradedIsTotal
    <3>3. orders'[id].filledQuantity \in Nat
      <4>1. HandlersGood'
        BY WorkKeepsHandlers
      <4>2. orders' \in Seq(Order)
        BY <4>1 DEF HandlersGood, EngineInv, EngineTypeOK, TypeOK
      <4> QED
        BY <4>2, OrderAt, OrderFields
    <3> QED
      BY <3>1, <3>2, <3>3, SMTT(30)
  <2>2. CASE id \notin 1..Len(orders)
    <3>1. orders'[id].filledQuantity = 0
      BY <1>4, <1>5, <2>2 DEF FillsReported
    <3>2. TradedQuantity(id, Reported') = 0
      BY <1>5, <2>2, TradedOfNobody
    <3> QED
      BY <2>2, <3>1, <3>2, NothingOfNobody
  <2> QED
    BY <2>1, <2>2
<1>7. Named(tradeRows', Len(orders')) /\ Named(lost', Len(orders'))
  BY <1>2, <1>5, NamedAmongMore DEF FillsGood
<1>8. OrdersApart'
  BY <1>2 DEF FillsGood, OrdersApart
<1> QED
  BY <1>2, <1>3, <1>6, <1>7, <1>8 DEF FillsGood, Running

LEMMA ReceiveKeepsFills ==
  ASSUME HandlersGood, FillsGood, NEW user \in Users, NEW r \in Requests,
         NEW stop \in StopPrices, NEW delta \in Deltas,
         ReceivePost(user, r, stop, delta)
  PROVE  FillsGood'
<1>0. PICK p \in Post : Received(p, r) /\ posts' = Append(posts, p)
  BY ReceivedPost DEF HandlersGood
<1>1. /\ posts' = Append(posts, p) /\ orders' = orders /\ EngineFree
      /\ rows' = rows /\ tradeRows' = tradeRows /\ lost' = lost
  BY <1>0 DEF ReceivePost, allVars, bookVars
<1>2. /\ posts \in Seq(Post) /\ Len(posts) \in Nat /\ EngineInv
      /\ DOMAIN rows \subseteq 1..Len(posts)
  BY HandlerFacts
<1>3. p \in Post
  BY <1>0
<1>4. p.pc = "locking" /\ p.order = NoOrder /\ p.unsettled = << >>
  BY <1>0 DEF Received
<1>5. /\ Len(posts') = Len(posts) + 1
      /\ \A j \in 1..Len(posts) : posts'[j] = posts[j]
      /\ posts'[Len(posts) + 1] = p
  BY <1>1, <1>2, <1>3, AppendProperties
<1>6. \A j \in 1..Len(posts') : j \in 1..Len(posts) \/ j = Len(posts) + 1
  BY <1>2, <1>5
<1>7. \A id : UnsettledIn(id, posts') = UnsettledIn(id, posts)
  <2>1. \A id : UnsettledIn(id, posts') =
                  UnsettledIn(id, posts) + TradedQuantity(id, p.unsettled)
    BY <1>1, <1>2, <1>3, UnsettledAppended
  <2>2. \A id : UnsettledIn(id, posts) \in Nat
    BY FillTypes
  <2> QED
    BY <1>4, <2>1, <2>2, TradedOfNone
<1>8. ~ InCall /\ ~ InCall'
  BY <1>1, <1>4, <1>5, <1>6 DEF EngineFree, InCall
<1>9. OrdersApart'
  BY <1>4, <1>5, <1>6 DEF FillsGood, OrdersApart
<1>10. \A i \in DOMAIN rows' :
         rows'[i].filled = TradedQuantity(posts'[i].order, tradeRows')
  BY <1>1, <1>2, <1>5 DEF FillsGood
<1>11. \A id \in 1..Len(orders') :
         orders'[id].filledQuantity =
           TradedQuantity(id, tradeRows') + UnsettledIn(id, posts')
             + TradedQuantity(id, lost') + Running(id)'
  BY <1>1, <1>7, <1>8 DEF FillsGood, Running
<1> QED
  BY <1>1, <1>9, <1>10, <1>11 DEF FillsGood, Named

LEMMA SubmitKeepsFills ==
  ASSUME HandlersGood, FillsGood, NEW i \in 1..Len(posts), SubmitPost(i)
  PROVE  FillsGood'
<1> DEFINE p == posts[i]
           q == [p EXCEPT !.pc = "matching", !.order = NewId]
<1>1. /\ EngineFree /\ p.pc = "submitting"
      /\ posts' = [posts EXCEPT ![i] = q]
      /\ rows' = rows /\ tradeRows' = tradeRows /\ lost' = lost
  BY DEF SubmitPost, At
<1>2. StartsEmpty
  BY SubmitKeepsHandlers
<1>3. /\ Len(orders) \in Nat /\ p \in Post /\ Len(posts) \in Nat
      /\ DOMAIN rows \subseteq 1..Len(posts)
      /\ \A j \in 1..Len(posts) : PostGood(posts[j], j, Len(orders), DOMAIN rows)
  BY HandlerFacts
<1>4. /\ q \in Post /\ q.pc = "matching" /\ q.order = NewId
      /\ q.unsettled = p.unsettled
  <2>1. NewId \in Nat
    BY <1>3 DEF NewId
  <2> HIDE DEF p
  <2> QED
    BY <1>3, <2>1 DEF Post, PostPc
<1>5. p.order = NoOrder
  BY <1>1, <1>3 DEF PostGood
<1> HIDE DEF q
<1>6. /\ Len(posts') = Len(posts)
      /\ \A j \in 1..Len(posts) : posts'[j] = IF j = i THEN q ELSE posts[j]
      /\ \A id : UnsettledIn(id, posts') = UnsettledIn(id, posts)
  <2>1. /\ \A id : UnsettledIn(id, posts') =
                     UnsettledIn(id, posts) + TradedQuantity(id, q.unsettled)
                       - TradedQuantity(id, p.unsettled)
        /\ \A id : TradedQuantity(id, q.unsettled) \in Nat
        /\ Len(posts') = Len(posts)
        /\ \A j \in 1..Len(posts) : posts'[j] = IF j = i THEN q ELSE posts[j]
    BY <1>1, <1>4, UnsettledMoved
  <2>2. \A id : UnsettledIn(id, posts) \in Nat
    BY FillTypes
  <2> QED
    BY <1>4, <2>1, <2>2
<1>7. NewId = Len(orders) + 1 /\ NewId \notin 1..Len(orders) /\ NewId # NoOrder
  BY <1>3 DEF NewId, NoOrder
<1>8. ~ InCall /\ InCall'
  BY <1>1, <1>4, <1>6 DEF EngineFree, InCall
<1>9. \A id : Running(id) = 0 /\ Running(id)' = 0
  BY <1>2, <1>8, TradedOfNone DEF Running, StartsEmpty
<1>10. ASSUME NEW id \in 1..Len(orders')
       PROVE  orders'[id].filledQuantity =
                TradedQuantity(id, tradeRows) + UnsettledIn(id, posts')
                  + TradedQuantity(id, lost) + 0
  <2>1. CASE id \in 1..Len(orders)
    BY <1>2, <1>6, <1>9, <2>1 DEF FillsGood, StartsEmpty
  <2>2. CASE id \notin 1..Len(orders)
    <3>1. id = NewId
      BY <1>2, <1>3, <1>7, <2>2 DEF StartsEmpty
    <3> QED
      BY <1>2, <1>6, <2>2, <3>1, NothingOfNobody DEF StartsEmpty
  <2> QED
    BY <2>1, <2>2
<1>11. OrdersApart'
  <2>1. \A j \in 1..Len(posts) : posts[j].order # NewId
    BY <1>3, <1>7 DEF PostGood
  <2> QED
    BY <1>4, <1>6, <2>1 DEF OrdersApart, FillsGood
<1>12. \A j \in DOMAIN rows' :
         rows'[j].filled = TradedQuantity(posts'[j].order, tradeRows')
  <2>1. TradedQuantity(NoOrder, tradeRows) = 0 /\ TradedQuantity(NewId, tradeRows) = 0
    BY <1>7, NothingOfNobody DEF NoOrder
  <2> QED
    BY <1>1, <1>3, <1>4, <1>5, <1>6, <2>1 DEF FillsGood
<1>13. Named(tradeRows', Len(orders')) /\ Named(lost', Len(orders'))
  BY <1>1, <1>2, <1>3 DEF FillsGood, StartsEmpty, Named
<1> QED
  BY <1>1, <1>9, <1>10, <1>11, <1>12, <1>13 DEF FillsGood

LEMMA TakeKeepsFills ==
  ASSUME HandlersGood, FillsGood, NEW i \in 1..Len(posts), TakeTrades(i)
  PROVE  FillsGood'
<1> DEFINE p == posts[i]
           q == [p EXCEPT !.pc = "settling", !.unsettled = executed]
<1>1. /\ EngineIdle /\ p.pc = "matching" /\ posts' = [posts EXCEPT ![i] = q]
      /\ orders' = orders /\ rows' = rows /\ tradeRows' = tradeRows /\ lost' = lost
  BY DEF TakeTrades, allVars, bookVars
<1>2. /\ EngineInv /\ p \in Post /\ PostGood(p, i, Len(orders), DOMAIN rows)
      /\ OneCall /\ DOMAIN rows \subseteq 1..Len(posts)
  BY HandlerFacts DEF HandlersGood
<1>3. /\ q \in Post /\ q.pc = "settling" /\ q.order = p.order
      /\ q.unsettled = executed
  <2>1. executed \in Seq(Trade)
    BY <1>2, EngineFacts
  <2> HIDE DEF p
  <2> QED
    BY <1>2, <2>1 DEF Post, PostPc
<1> HIDE DEF q
<1>4. /\ Len(posts') = Len(posts)
      /\ \A j \in 1..Len(posts) : posts'[j] = IF j = i THEN q ELSE posts[j]
      /\ \A id : UnsettledIn(id, posts') =
                   UnsettledIn(id, posts) + TradedQuantity(id, executed) - 0
      /\ \A id : TradedQuantity(id, executed) \in Nat
  <2>1. /\ \A id : UnsettledIn(id, posts') =
                     UnsettledIn(id, posts) + TradedQuantity(id, q.unsettled)
                       - TradedQuantity(id, p.unsettled)
        /\ \A id : TradedQuantity(id, q.unsettled) \in Nat
        /\ Len(posts') = Len(posts)
        /\ \A j \in 1..Len(posts) : posts'[j] = IF j = i THEN q ELSE posts[j]
    BY <1>1, <1>3, UnsettledMoved
  <2>2. p.unsettled = << >>
    BY <1>1, <1>2 DEF PostGood
  <2> QED
    BY <1>3, <2>1, <2>2, TradedOfNone
<1>5. InCall /\ ~ InCall'
  BY <1>1, <1>2, <1>3, <1>4 DEF OneCall, InCall
<1>6. \A id : Running(id) = TradedQuantity(id, executed) /\ Running(id)' = 0
  <2>1. Reported = executed
    BY <1>1, <1>2 DEF Reported, EngineIdle, EngineInv, Stages
  <2> QED
    BY <1>5, <2>1 DEF Running
<1>7. ASSUME NEW id \in 1..Len(orders)
      PROVE  orders[id].filledQuantity =
               TradedQuantity(id, tradeRows) + UnsettledIn(id, posts')
                 + TradedQuantity(id, lost) + 0
  <2>1. orders[id].filledQuantity =
          TradedQuantity(id, tradeRows) + UnsettledIn(id, posts)
            + TradedQuantity(id, lost) + TradedQuantity(id, executed)
    BY <1>6 DEF FillsGood
  <2>2. /\ TradedQuantity(id, tradeRows) \in Nat /\ UnsettledIn(id, posts) \in Nat
        /\ TradedQuantity(id, lost) \in Nat /\ TradedQuantity(id, executed) \in Nat
    BY <1>4, FillTypes
  <2>3. UnsettledIn(id, posts') =
          UnsettledIn(id, posts) + TradedQuantity(id, executed) - 0
    BY <1>4
  <2> QED
    BY <2>1, <2>2, <2>3
<1>8. OrdersApart'
  BY <1>3, <1>4 DEF OrdersApart, FillsGood
<1>9. \A j \in DOMAIN rows' :
        rows'[j].filled = TradedQuantity(posts'[j].order, tradeRows')
  BY <1>1, <1>2, <1>3, <1>4 DEF FillsGood
<1> QED
  BY <1>1, <1>6, <1>7, <1>8, <1>9 DEF FillsGood, Named

\* A handler that is done with the first of its trades.
LEMMA FirstTradeMoves ==
  ASSUME HandlersGood, NEW i \in 1..Len(posts), posts[i].unsettled # << >>,
         EngineFree, posts[i].pc = "settling",
         posts' = [posts EXCEPT ![i].unsettled = Tail(@)]
  PROVE  /\ Len(posts') = Len(posts) /\ ~ InCall /\ ~ InCall'
         /\ \A j \in 1..Len(posts) : posts'[j].order = posts[j].order
         /\ \A id : LET n == Share(id, Head(posts[i].unsettled))
                    IN  /\ n \in Nat
                        /\ UnsettledIn(id, posts) = UnsettledIn(id, posts') + n
                        /\ UnsettledIn(id, posts') \in Int
<1> DEFINE p == posts[i]
           q == [p EXCEPT !.unsettled = Tail(p.unsettled)]
           t == Head(p.unsettled)
<1>1. /\ p \in Post /\ posts' = [posts EXCEPT ![i] = q]
      /\ p.unsettled \in Seq(Trade) /\ Tail(p.unsettled) \in Seq(Trade)
  BY HandlerFacts, SettlementFacts
<1>2. /\ q \in Post /\ q.pc = p.pc /\ q.order = p.order
      /\ q.unsettled = Tail(p.unsettled)
  <2> HIDE DEF p
  <2> QED
    BY <1>1 DEF Post
<1> HIDE DEF q
<1>3. /\ Len(posts') = Len(posts)
      /\ \A j \in 1..Len(posts) : posts'[j] = IF j = i THEN q ELSE posts[j]
      /\ \A id : UnsettledIn(id, posts') =
                   UnsettledIn(id, posts) + TradedQuantity(id, q.unsettled)
                     - TradedQuantity(id, p.unsettled)
  BY <1>1, <1>2, UnsettledMoved
<1>4. ASSUME NEW id
      PROVE  /\ Share(id, t) \in Nat
             /\ UnsettledIn(id, posts) = UnsettledIn(id, posts') + Share(id, t)
             /\ UnsettledIn(id, posts') \in Int
  <2>1. /\ TradedQuantity(id, p.unsettled) =
             Share(id, t) + TradedQuantity(id, Tail(p.unsettled))
        /\ Share(id, t) \in Nat /\ TradedQuantity(id, Tail(p.unsettled)) \in Nat
    BY <1>1, TradedOfFirst
  <2>2. UnsettledIn(id, posts) \in Nat
    BY FillTypes
  <2>3. UnsettledIn(id, posts') =
          UnsettledIn(id, posts) + TradedQuantity(id, Tail(p.unsettled))
            - TradedQuantity(id, p.unsettled)
    BY <1>2, <1>3
  <2> QED
    BY <2>1, <2>2, <2>3
<1>5. ~ InCall /\ ~ InCall'
  BY <1>2, <1>3 DEF EngineFree, InCall
<1> QED
  BY <1>2, <1>3, <1>4, <1>5

LEMMA SettleFailsKeepsFills ==
  ASSUME HandlersGood, FillsGood, NEW i \in 1..Len(posts), SettleFails(i)
  PROVE  FillsGood'
<1> DEFINE t == Head(posts[i].unsettled)
<1>1. /\ EngineFree /\ posts[i].pc = "settling" /\ posts[i].unsettled # << >>
      /\ lost' = Append(lost, t)
      /\ posts' = [posts EXCEPT ![i].unsettled = Tail(@)]
      /\ orders' = orders /\ rows' = rows /\ tradeRows' = tradeRows
  BY DEF SettleFails, At, allVars, bookVars
<1>2. /\ t \in Trade /\ t.buyOrderId \in 1..Len(orders)
      /\ t.sellOrderId \in 1..Len(orders)
  BY <1>1, SettlementFacts
<1>3. /\ Len(posts') = Len(posts) /\ ~ InCall /\ ~ InCall'
      /\ \A j \in 1..Len(posts) : posts'[j].order = posts[j].order
      /\ \A id : /\ Share(id, t) \in Nat
                 /\ UnsettledIn(id, posts) = UnsettledIn(id, posts') + Share(id, t)
                 /\ UnsettledIn(id, posts') \in Int
  BY <1>1, FirstTradeMoves
<1> HIDE DEF t
<1>4. /\ lost \in Seq(Trade) /\ Len(orders) \in Nat
      /\ DOMAIN rows \subseteq 1..Len(posts)
  BY HandlerFacts
<1>5. \A id : TradedQuantity(id, lost') = TradedQuantity(id, lost) + Share(id, t)
  BY <1>1, <1>2, <1>4, TradedOfOneMore
<1>6. ASSUME NEW id \in 1..Len(orders)
      PROVE  orders[id].filledQuantity =
               TradedQuantity(id, tradeRows) + UnsettledIn(id, posts')
                 + TradedQuantity(id, lost') + 0
  <2>1. orders[id].filledQuantity =
          TradedQuantity(id, tradeRows) + UnsettledIn(id, posts)
            + TradedQuantity(id, lost) + 0
    BY <1>3 DEF FillsGood, Running
  <2>2. /\ TradedQuantity(id, tradeRows) \in Nat /\ TradedQuantity(id, lost) \in Nat
        /\ Share(id, t) \in Nat /\ UnsettledIn(id, posts') \in Int
        /\ UnsettledIn(id, posts) = UnsettledIn(id, posts') + Share(id, t)
        /\ TradedQuantity(id, lost') = TradedQuantity(id, lost) + Share(id, t)
    BY <1>3, <1>5, FillTypes
  <2> QED
    BY <2>1, <2>2
<1>7. Named(lost', Len(orders))
  BY <1>1, <1>2, <1>4, NamedAppended DEF FillsGood
<1>8. OrdersApart'
  BY <1>3 DEF OrdersApart, FillsGood
<1>9. \A j \in DOMAIN rows' :
        rows'[j].filled = TradedQuantity(posts'[j].order, tradeRows')
  BY <1>1, <1>3, <1>4 DEF FillsGood
<1>10. \A id : Running(id)' = 0
  BY <1>3 DEF Running
<1> QED
  BY <1>1, <1>6, <1>7, <1>8, <1>9, <1>10 DEF FillsGood, Named

LEMMA SettleKeepsFills ==
  ASSUME HandlersGood, FillsGood, NEW i \in 1..Len(posts), Settle(i)
  PROVE  FillsGood'
<1> DEFINE t == Head(posts[i].unsettled)
<1>1. /\ EngineFree /\ posts[i].pc = "settling" /\ posts[i].unsettled # << >>
      /\ CanSettle(t) /\ tradeRows' = Append(tradeRows, t) /\ rows' = FillRows(t)
      /\ posts' = [posts EXCEPT ![i].unsettled = Tail(@)]
      /\ orders' = orders /\ lost' = lost
  BY SMTT(30) DEF Settle, At, allVars, bookVars
<1>2. /\ t \in Trade /\ t.buyOrderId \in 1..Len(orders)
      /\ t.sellOrderId \in 1..Len(orders)
      /\ RowOf(t.buyOrderId) \in DOMAIN rows
      /\ posts[RowOf(t.buyOrderId)].order = t.buyOrderId
      /\ RowOf(t.sellOrderId) \in DOMAIN rows
      /\ posts[RowOf(t.sellOrderId)].order = t.sellOrderId
  BY <1>1, SettlementFacts
<1>3. /\ Len(posts') = Len(posts) /\ ~ InCall /\ ~ InCall'
      /\ \A j \in 1..Len(posts) : posts'[j].order = posts[j].order
      /\ \A id : /\ Share(id, t) \in Nat
                 /\ UnsettledIn(id, posts) = UnsettledIn(id, posts') + Share(id, t)
                 /\ UnsettledIn(id, posts') \in Int
  BY <1>1, FirstTradeMoves
<1> HIDE DEF t
<1>4. /\ tradeRows \in Seq(Trade) /\ Len(orders) \in Nat
      /\ DOMAIN rows \subseteq 1..Len(posts) /\ \A j \in DOMAIN rows : rows[j] \in Row
  BY HandlerFacts
<1>5. \A id : TradedQuantity(id, tradeRows') =
                TradedQuantity(id, tradeRows) + Share(id, t)
  BY <1>1, <1>2, <1>4, TradedOfOneMore
<1>6. ASSUME NEW id \in 1..Len(orders)
      PROVE  orders[id].filledQuantity =
               TradedQuantity(id, tradeRows') + UnsettledIn(id, posts')
                 + TradedQuantity(id, lost) + 0
  <2>1. orders[id].filledQuantity =
          TradedQuantity(id, tradeRows) + UnsettledIn(id, posts)
            + TradedQuantity(id, lost) + 0
    BY <1>3 DEF FillsGood, Running
  <2>2. /\ TradedQuantity(id, tradeRows) \in Nat /\ TradedQuantity(id, lost) \in Nat
        /\ Share(id, t) \in Nat /\ UnsettledIn(id, posts') \in Int
        /\ UnsettledIn(id, posts) = UnsettledIn(id, posts') + Share(id, t)
        /\ TradedQuantity(id, tradeRows') =
             TradedQuantity(id, tradeRows) + Share(id, t)
    BY <1>3, <1>5, FillTypes
  <2> QED
    BY <2>1, <2>2
<1>7. Named(tradeRows', Len(orders))
  BY <1>1, <1>2, <1>4, NamedAppended DEF FillsGood
<1>8. OrdersApart'
  BY <1>3 DEF OrdersApart, FillsGood
<1>9. ASSUME NEW j \in DOMAIN rows
      PROVE  rows'[j].filled = TradedQuantity(posts[j].order, tradeRows')
  <2>1. j \in {RowOf(t.buyOrderId), RowOf(t.sellOrderId)} <=>
          posts[j].order \in {t.buyOrderId, t.sellOrderId}
    <3>1. t.buyOrderId # NoOrder /\ t.sellOrderId # NoOrder
      BY <1>2, <1>4 DEF NoOrder
    <3> QED
      BY <1>2, <1>4, <3>1 DEF FillsGood, OrdersApart
  <2>2. /\ rows[j].filled = TradedQuantity(posts[j].order, tradeRows)
        /\ rows[j].filled \in Nat /\ t.quantity \in Nat
    BY <1>2, <1>4 DEF FillsGood, Row, Trade
  <2>3. rows'[j] = IF j \in {RowOf(t.buyOrderId), RowOf(t.sellOrderId)}
                   THEN RowFilled(rows[j], t.quantity) ELSE rows[j]
    BY <1>1 DEF FillRows
  <2>4. rows'[j].filled = rows[j].filled + Share(posts[j].order, t)
    <3>1. CASE posts[j].order \in {t.buyOrderId, t.sellOrderId}
      <4>1. RowFilled(rows[j], t.quantity).filled = rows[j].filled + t.quantity
        BY <1>4, <2>2, RowFilledFacts
      <4> QED
        BY <2>1, <2>3, <3>1, <4>1 DEF Share
    <3>2. CASE posts[j].order \notin {t.buyOrderId, t.sellOrderId}
      BY <2>1, <2>2, <2>3, <3>2 DEF Share
    <3> QED
      BY <3>1, <3>2
  <2> QED
    BY <1>5, <2>2, <2>4
<1>10. /\ DOMAIN rows' = DOMAIN rows
       /\ \A j \in DOMAIN rows' :
            rows'[j].filled = TradedQuantity(posts'[j].order, tradeRows')
  <2>1. DOMAIN rows' = DOMAIN rows
    BY <1>1 DEF FillRows
  <2> QED
    BY <1>3, <1>4, <1>9, <2>1
<1>11. \A id : Running(id)' = 0
  BY <1>3 DEF Running
<1> QED
  BY <1>1, <1>6, <1>7, <1>8, <1>10, <1>11 DEF FillsGood, Named

LEMMA FillsInit == GatewayInit => FillsGood
<1> SUFFICES ASSUME GatewayInit PROVE FillsGood
  OBVIOUS
<1>1. /\ orders = << >> /\ posts = << >> /\ rows = << >> /\ tradeRows = << >>
      /\ lost = << >>
  BY DEF GatewayInit, EngineInit, Init
<1>2. Len(<< >>) = 0 /\ 1..0 = {} /\ DOMAIN << >> = {}
  OBVIOUS
<1> QED
  BY <1>1, <1>2 DEF FillsGood, Named, OrdersApart

LEMMA FillsStep ==
  HandlersGood /\ FillsGood /\ [GatewayNext]_systemVars => FillsGood'
<1> SUFFICES ASSUME HandlersGood, FillsGood, [GatewayNext]_systemVars
             PROVE  FillsGood'
  OBVIOUS
<1>1. CASE Arrive
  BY <1>1, ReceiveKeepsFills, DeleteKeepsFills DEF Arrive
<1>2. CASE \E i \in 1..Len(posts) : PostStep(i)
  BY <1>2, OtherStepsKeepFills, SubmitKeepsFills, TakeKeepsFills,
     SettleKeepsFills, SettleFailsKeepsFills DEF PostStep
<1>3. CASE UNCHANGED systemVars
  BY <1>3
     DEF systemVars, allVars, bookVars, engineVars, gatewayVars, FillsGood, Named,
         OrdersApart, Running, InCall, Reported
<1> QED
  BY <1>1, <1>2, <1>3, WorkKeepsFills, DeleteKeepsFills DEF GatewayNext

\* What the engine has filled of an order is in the trades table, still to be
\* settled by some POST, or logged as lost, at every moment no call runs; and the
\* table of orders agrees with the table of trades.
THEOREM EveryFillIsAccountedFor == GatewaySpec => []EveryFillAccountedFor
<1>1. ASSUME HandlersGood, FillsGood PROVE EveryFillAccountedFor
  <2> SUFFICES ASSUME EngineFree
               PROVE  /\ \A id \in 1..Len(orders) :
                           orders[id].filledQuantity =
                             TradedQuantity(id, tradeRows) + UnsettledQuantity(id)
                               + TradedQuantity(id, lost)
                      /\ \A i \in DOMAIN rows :
                           posts[i].order # NoOrder =>
                             rows[i].filled = TradedQuantity(posts[i].order, tradeRows)
    BY DEF EveryFillAccountedFor
  <2>1. ~ InCall
    BY DEF EngineFree, InCall
  <2>2. ASSUME NEW id \in 1..Len(orders)
        PROVE  orders[id].filledQuantity =
                 TradedQuantity(id, tradeRows) + UnsettledQuantity(id)
                   + TradedQuantity(id, lost)
    <3>1. orders[id].filledQuantity =
            TradedQuantity(id, tradeRows) + UnsettledIn(id, posts)
              + TradedQuantity(id, lost) + 0
      BY <1>1, <2>1 DEF FillsGood, Running
    <3>2. /\ TradedQuantity(id, tradeRows) \in Nat /\ UnsettledIn(id, posts) \in Nat
          /\ TradedQuantity(id, lost) \in Nat
      BY <1>1, FillTypes
    <3>3. UnsettledQuantity(id) = UnsettledIn(id, posts)
      BY DEF UnsettledQuantity, UnsettledIn
    <3> QED
      BY <3>1, <3>2, <3>3
  <2> QED
    BY <1>1, <2>2 DEF FillsGood
<1>2. HandlersGood /\ FillsGood => EveryFillAccountedFor
  BY <1>1
<1> QED
  BY <1>2, GatewaySteps, FillsInit, FillsStep, HandlersInvariance, PTL

-----------------------------------------------------------------------------
(***************************************************************************)
(* The locks: for as long as there are only LIMIT orders, the accounts     *)
(* hold what the orders may still cost and what the purchases cost less.   *)
(***************************************************************************)

\* A trade between a BUY and a SELL order of s, at a price its buyer allowed.
WithinLimit(t, s) ==
  /\ t.buyOrderId \in 1..Len(s) /\ s[t.buyOrderId].side = "BUY"
  /\ t.sellOrderId \in 1..Len(s) /\ s[t.sellOrderId].side = "SELL"
  /\ t.price <= s[t.buyOrderId].price

AllWithin(list, s) == \A k \in 1..Len(list) : WithinLimit(list[k], s)

\* What an order of the engine is, and what it trades, when all are LIMIT orders.
LimitBook ==
  /\ \A id \in 1..Len(orders) :
       orders[id].type = "LIMIT" /\ orders[id].status # "CANCELLED"
  /\ AllWithin(trades, orders)
  /\ AllWithin(executed, orders)

\* The orders stay what they were asked to be, and new ones come behind them.
TermsKept ==
  /\ Len(orders) \in Nat /\ Len(orders') \in Nat /\ Len(orders) <= Len(orders')
  /\ \A id \in 1..Len(orders) : SameTerms(orders'[id], orders[id])

LEMMA WithinKept ==
  ASSUME TermsKept, NEW list
  PROVE  AllWithin(list, orders) => AllWithin(list, orders')
<1> SUFFICES ASSUME AllWithin(list, orders), NEW k \in 1..Len(list)
             PROVE  WithinLimit(list[k], orders')
  BY DEF AllWithin
<1> DEFINE t == list[k]
<1>1. /\ t.buyOrderId \in 1..Len(orders) /\ orders[t.buyOrderId].side = "BUY"
      /\ t.sellOrderId \in 1..Len(orders) /\ orders[t.sellOrderId].side = "SELL"
      /\ t.price <= orders[t.buyOrderId].price
  BY DEF AllWithin, WithinLimit
<1> HIDE DEF t
<1>2. 1..Len(orders) \subseteq 1..Len(orders')
  BY DEF TermsKept
<1>3. WithinLimit(t, orders')
  BY <1>1, <1>2 DEF WithinLimit, TermsKept, SameTerms
<1> QED
  BY <1>3 DEF t

LEMMA WithinNone ==
  ASSUME NEW s
  PROVE  AllWithin(<< >>, s)
BY DEF AllWithin

LEMMA WithinAppended ==
  ASSUME NEW s, NEW list \in Seq(Trade), NEW t \in Trade, AllWithin(list, s),
         WithinLimit(t, s)
  PROVE  AllWithin(Append(list, t), s)
<1> DEFINE new == Append(list, t)
<1>1. /\ Len(list) \in Nat /\ Len(new) = Len(list) + 1 /\ new[Len(list) + 1] = t
      /\ \A k \in 1..Len(list) : new[k] = list[k]
  BY LenProperties, AppendProperties
<1> HIDE DEF new
<1>2. ASSUME NEW k \in 1..Len(new) PROVE WithinLimit(new[k], s)
  <2>1. CASE k \in 1..Len(list)
    BY <1>1, <2>1 DEF AllWithin
  <2>2. CASE k = Len(list) + 1
    BY <1>1, <2>2
  <2> QED
    BY <1>1, <2>1, <2>2
<1> QED
  BY <1>2 DEF AllWithin, new

LEMMA WithinTail ==
  ASSUME NEW s, NEW list \in Seq(Trade), list # << >>, AllWithin(list, s)
  PROVE  WithinLimit(Head(list), s) /\ AllWithin(Tail(list), s)
<1> DEFINE rest == Tail(list)
<1>1. /\ Len(list) \in Nat \ {0} /\ Head(list) = list[1]
      /\ Len(rest) = Len(list) - 1
      /\ \A j \in 1..Len(rest) : rest[j] = list[j + 1]
  BY EmptySeq, LenProperties, HeadTailProperties
<1> HIDE DEF rest
<1>2. \A j \in 1..Len(rest) : j + 1 \in 1..Len(list) /\ rest[j] = list[j + 1]
  BY <1>1
<1>3. 1 \in 1..Len(list)
  BY <1>1
<1>4. AllWithin(rest, s)
  BY <1>2 DEF AllWithin
<1>5. WithinLimit(Head(list), s)
  BY <1>1, <1>3 DEF AllWithin
<1> QED
  BY <1>4, <1>5 DEF rest

\* A fill is at the price of the resting order, which is no more than the taker's.
LEMMA FillWithinLimit ==
  ASSUME Inv, LimitBook, MoreToMatch
  PROVE  WithinLimit(FillTrade, orders) /\ FillTrade \in Trade
<1>1. /\ In \in Order /\ Resting \in Order /\ Opp \in Side /\ Opp # In.side
      /\ incoming \in 1..Len(orders) /\ RestingId \in 1..Len(orders)
      /\ Resting.side = Opp /\ Resting.price = Best.price
      /\ FillQty \in Nat /\ Len(orders) \in Nat
  BY MatchFacts
<1>2. In = orders[incoming] /\ Resting = orders[RestingId] /\ In.type = "LIMIT"
  BY <1>1 DEF In, Resting, LimitBook
<1>3. /\ In.side \in {"BUY", "SELL"} /\ Resting.side \in {"BUY", "SELL"}
      /\ In.price \in Nat /\ Resting.price \in Nat /\ Resting.side # In.side
  BY <1>1, OrderFields DEF Side
<1>4. ~ Behind(In.side, In.price, Best.price)
  BY <1>2 DEF MoreToMatch, Crosses
<1>5. FillTrade \in Trade
  BY <1>1, <1>3 DEF FillTrade, Trade, OrderId
<1>6. CASE In.side = "BUY"
  <2>1. /\ FillTrade.buyOrderId = incoming /\ FillTrade.sellOrderId = RestingId
        /\ FillTrade.price = Best.price
    BY <1>6 DEF FillTrade
  <2>2. Best.price <= In.price
    BY <1>1, <1>3, <1>4, <1>6 DEF Behind
  <2> QED
    BY <1>1, <1>2, <1>3, <1>5, <1>6, <2>1, <2>2 DEF WithinLimit
<1>7. CASE In.side = "SELL"
  <2>1. /\ FillTrade.buyOrderId = RestingId /\ FillTrade.sellOrderId = incoming
        /\ FillTrade.price = Best.price
    BY <1>7 DEF FillTrade
  <2>2. FillTrade.price <= Resting.price
    BY <1>1, <1>3, <2>1
  <2> QED
    BY <1>1, <1>2, <1>3, <1>5, <1>7, <2>1, <2>2 DEF WithinLimit
<1> QED
  BY <1>3, <1>6, <1>7

\* What a step of the engine leaves of LIMIT orders.
LimitsStay == LimitBook' /\ TermsKept /\ Len(orders') = Len(orders)

LEMMA MatchKeepsLimits ==
  ASSUME EngineInv, LimitBook, MatchStep, executed' = executed
  PROVE  LimitsStay
<1>1. /\ Inv /\ MoreToMatch /\ trades \in Seq(Trade) /\ orders \in Seq(Order)
  BY MatchObjects, EngineFacts DEF EngineInv
<1>2. /\ Len(orders) \in Nat /\ RestingId \in 1..Len(orders)
      /\ incoming \in 1..Len(orders) /\ Resting = orders[RestingId]
      /\ In = orders[incoming]
  BY <1>1, MatchFacts DEF Resting, In
<1>3. Resting.type = "LIMIT"
  BY <1>2 DEF LimitBook
<1>4. FillResting \/ CompleteResting
  BY <1>3 DEF MatchStep, ReplenishResting, HasHidden
<1>5. Len(orders') = Len(orders)
  <2>1. "FILLED" \in OrderStatus /\ "PARTIALLY_FILLED" \in OrderStatus
    BY DEF OrderStatus
  <2> QED
    BY <1>1, <1>4, <2>1, ObjectsFilled DEF FillResting, CompleteResting
<1>6. /\ trades' = Append(trades, FillTrade)
      /\ \A x \in 1..Len(orders) :
           /\ SameTerms(orders'[x], orders[x])
           /\ x \notin {incoming, RestingId} => orders'[x] = orders[x]
      /\ orders'[incoming] = WithFill(In, FillQty)
      /\ \E status \in {"FILLED", "PARTIALLY_FILLED"} :
           orders'[RestingId] = WithStatus(WithFill(Resting, FillQty), status)
  BY MatchObjects
<1>7. TermsKept
  BY <1>2, <1>5, <1>6 DEF TermsKept
<1>8. ASSUME NEW x \in 1..Len(orders)
      PROVE  orders'[x].type = "LIMIT" /\ orders'[x].status # "CANCELLED"
  <2>1. orders'[x].type = "LIMIT"
    BY <1>6 DEF SameTerms, LimitBook
  <2>2. In \in Order /\ Resting \in Order /\ In.status # "CANCELLED"
    BY <1>1, <1>2, MatchFacts DEF LimitBook
  <2>3. WithFill(In, FillQty).status = In.status
    BY <2>2 DEF WithFill, Order
  <2>4. \A status : WithStatus(WithFill(Resting, FillQty), status).status = status
    BY <2>2 DEF WithFill, WithStatus, Order
  <2> QED
    BY <1>6, <2>1, <2>2, <2>3, <2>4 DEF LimitBook
<1>9. AllWithin(trades', orders) /\ AllWithin(executed', orders)
  <2>1. WithinLimit(FillTrade, orders) /\ FillTrade \in Trade
    BY <1>1, FillWithinLimit
  <2> QED
    BY <1>1, <1>6, <2>1, WithinAppended DEF LimitBook
<1>10. AllWithin(trades', orders') /\ AllWithin(executed', orders')
  <2>1. PICK ts : ts = trades'
    OBVIOUS
  <2>2. PICK es : es = executed'
    OBVIOUS
  <2> QED
    BY <1>7, <1>9, <2>1, <2>2, WithinKept
<1> QED
  BY <1>5, <1>7, <1>8, <1>10 DEF LimitsStay, LimitBook

LEMMA FinishKeepsLimits ==
  ASSUME EngineInv, LimitBook, Finish, executed' = executed
  PROVE  LimitsStay
<1>1. /\ ~ Idle /\ trades' = trades /\ Len(orders') = Len(orders)
      /\ orders \in Seq(Order) /\ Len(orders) \in Nat /\ Inv
  BY FinishObjects, EngineFacts DEF EngineInv
<1>2. PICK n \in Order :
        /\ \A x \in 1..Len(orders) : orders'[x] = IF x = incoming THEN n ELSE orders[x]
        /\ SameTerms(n, In)
  BY FinishObjects
<1>3. incoming \in 1..Len(orders) /\ In = orders[incoming] /\ In.type = "LIMIT"
  BY <1>1, IncomingFacts DEF In, LimitBook
<1>4. n.status # "CANCELLED"
  <2>1. \/ \E status \in {"FILLED", "PARTIALLY_FILLED", "OPEN"} :
             orders' = [orders EXCEPT ![incoming].status = status]
        \/ orders' = orders
    BY <1>3 DEF Finish, FinishFilled, RestLimit, CancelRemainder, ReturnUnfilled
  <2>2. In \in Order /\ In.status # "CANCELLED" /\ n = orders'[incoming]
    BY <1>1, <1>2, <1>3, OrderAt DEF LimitBook
  <2>3. ASSUME NEW status \in {"FILLED", "PARTIALLY_FILLED", "OPEN"},
               orders' = [orders EXCEPT ![incoming].status = status]
        PROVE  n.status # "CANCELLED"
    <3>1. orders' = [orders EXCEPT ![incoming] = WithStatus(In, status)]
      BY <1>3, <2>3 DEF WithStatus
    <3>2. status \in OrderStatus
      BY DEF OrderStatus
    <3>3. n = WithStatus(In, status)
      BY <1>1, <1>3, <2>2, <3>1, <3>2, StatusSet, ExceptSeq
    <3> QED
      BY <2>2, <3>3 DEF WithStatus, Order
  <2> QED
    BY <1>3, <2>1, <2>2, <2>3
<1>5. TermsKept
  BY <1>1, <1>2, <1>3 DEF TermsKept, SameTerms
<1>6. \A x \in 1..Len(orders') :
        orders'[x].type = "LIMIT" /\ orders'[x].status # "CANCELLED"
  BY <1>1, <1>2, <1>3, <1>4 DEF LimitBook, SameTerms
<1>7. AllWithin(trades', orders') /\ AllWithin(executed', orders')
  BY <1>1, <1>5, WithinKept DEF LimitBook
<1> QED
  BY <1>1, <1>5, <1>6, <1>7 DEF LimitsStay, LimitBook

\* No stop waits, none is swept.
LEMMA NoStops ==
  ASSUME EngineInv, LimitBook
  PROVE  pending[Symbol] = {} /\ activated = {} /\ sweptOrder = NoOrder
<1>1. pending[Symbol] = {}
  BY DEF EngineInv, StopsKept, Waits, IsStop, LimitBook
<1>2. activated = {}
  BY DEF EngineInv, SweepSound, LimitBook
<1>3. sweptOrder = NoOrder
  BY EngineFacts DEF EngineInv, SweepSound, LimitBook, NoOrder
<1> QED
  BY <1>1, <1>2, <1>3

LEMMA LimitsStandStill ==
  ASSUME EngineInv, LimitBook, orders' = orders, trades' = trades,
         executed' = executed \/ executed' = trades
  PROVE  LimitsStay
<1>1. Len(orders) \in Nat
  BY EngineFacts
<1> QED
  BY <1>1 DEF LimitsStay, LimitBook, TermsKept, SameTerms

LEMMA WorkKeepsLimits ==
  ASSUME EngineInv, LimitBook, Work
  PROVE  LimitsStay
<1>1. CASE BookStep
  BY <1>1, MatchKeepsLimits, FinishKeepsLimits DEF BookStep, engineVars
<1>2. CASE ReturnNoTrades \/ ReturnTrades
  BY <1>2, LimitsStandStill DEF ReturnNoTrades, ReturnTrades, bookVars
<1>3. CASE EvaluateTriggers
  <2> DEFINE price == trades[Len(trades)].price
  <2>1. /\ trades # << >> /\ trades' = trades /\ executed' = trades
        /\ TR!OnTradeTick(Symbol, price)
        /\ orders' = [id \in 1..Len(orders) |->
                        IF \E o \in activated' : o.id = id
                        THEN Promoted(orders[id]) ELSE orders[id]]
    BY <1>3 DEF EvaluateTriggers
  <2>2. /\ trades \in Seq(Trade) /\ orders \in Seq(Order) /\ PricesPositive
        /\ TR!TypeOK /\ StopsKept
    BY EngineFacts DEF EngineInv, EngineTypeOK
  <2>3. price \in Nat \ {0}
    <3>1. Len(trades) \in 1..Len(trades)
      BY <2>1, <2>2, EmptySeq, LenProperties
    <3>2. trades[Len(trades)] \in Trade
      BY <2>2, <3>1, ElementOfSeq
    <3> QED
      BY <2>2, <3>1, <3>2 DEF PricesPositive, Trade
  <2> HIDE DEF price
  <2>4. \A e \in activated' : \E p \in pending[Symbol] : p.id = e.id
    BY <2>1, <2>2, <2>3, TickFacts
  <2>5. \A id : ~ \E o \in activated' : o.id = id
    BY <2>4, NoStops
  <2>6. orders' = [id \in 1..Len(orders) |-> orders[id]]
    BY <2>1, <2>5
  <2>7. orders' = orders
    BY <2>2, <2>6, LenProperties
  <2> QED
    BY <2>1, <2>7, LimitsStandStill
<1>4. CASE SweepNext \/ EndSweep
  BY <1>4, NoStops DEF SweepNext, EndSweep
<1> QED
  BY <1>1, <1>2, <1>3, <1>4 DEF Work

LEMMA SubmitKeepsLimits ==
  ASSUME EngineInv, LimitBook, NEW r \in Request, r.type = "LIMIT", SubmitToBook(r)
  PROVE  /\ LimitBook' /\ TermsKept /\ Len(orders') = Len(orders) + 1
         /\ orders'[Len(orders) + 1] = CreateOrder(r)
<1> DEFINE o == CreateOrder(r)
<1>1. o \in Order /\ o.type = "LIMIT" /\ o.status = "PENDING"
  BY CreatedOrder DEF CreateOrder
<1> HIDE DEF o
<1>2. /\ orders' = Append(orders, o) /\ trades' = << >> /\ executed' = << >>
  BY <1>1 DEF SubmitToBook, AddOrder, StartMatching, RejectFillOrKill, AddIceberg, o
<1>3. /\ Len(orders') = Len(orders) + 1 /\ Len(orders) \in Nat
      /\ \A x \in 1..Len(orders) : orders'[x] = orders[x]
      /\ orders'[Len(orders) + 1] = o
  BY <1>1, <1>2, EngineFacts, OrderAppended
<1>4. TermsKept
  BY <1>3 DEF TermsKept, SameTerms
<1>5. ASSUME NEW x \in 1..Len(orders')
      PROVE  orders'[x].type = "LIMIT" /\ orders'[x].status # "CANCELLED"
  <2>1. x \in 1..Len(orders) \/ x = Len(orders) + 1
    BY <1>3
  <2> QED
    BY <1>1, <1>3, <2>1 DEF LimitBook
<1>6. AllWithin(trades', orders') /\ AllWithin(executed', orders')
  BY <1>2, WithinNone
<1> QED
  BY <1>3, <1>4, <1>5, <1>6 DEF LimitBook, o

-----------------------------------------------------------------------------
(***************************************************************************)
(* The rows, the requests and the engine's orders say the same; nothing    *)
(* is given up, and no settlement is refused.                              *)
(***************************************************************************)
Same(o, r) == o.side = r.side /\ o.price = r.price /\ o.quantity = r.quantity

RowsMatch ==
  /\ \A i \in DOMAIN rows :
       /\ posts[i].pc # "locking" /\ rows[i].user = posts[i].user
       /\ Same(rows[i], posts[i].request)
  /\ \A i \in 1..Len(posts) :
       posts[i].order # NoOrder => Same(orders[posts[i].order], posts[i].request)
  /\ \A id \in 1..Len(orders) : \E i \in DOMAIN rows : posts[i].order = id

SettleGood ==
  /\ \A i \in 1..Len(posts) :
       posts[i].pc # "unlocking" /\ AllWithin(posts[i].unsettled, orders)
  /\ AllWithin(tradeRows, orders)
  /\ lost = << >>

\* What a step of handler i leaves: q is the handler after it.
HandlerStep(i, q) ==
  /\ q \in Post
  /\ posts' = [posts EXCEPT ![i] = q]
  /\ q.user = posts[i].user /\ q.request = posts[i].request
  /\ q.pc \notin {"locking", "unlocking"}
  /\ DOMAIN rows \subseteq DOMAIN rows'
  /\ \A j \in DOMAIN rows' :
       \/ /\ j \in DOMAIN rows /\ rows'[j].user = rows[j].user
          /\ Same(rows'[j], rows[j])
       \/ j = i /\ rows'[j].user = q.user /\ Same(rows'[j], q.request)
  /\ \/ q.order = posts[i].order /\ Len(orders') = Len(orders)
     \/ /\ posts[i].order = NoOrder /\ i \in DOMAIN rows
        /\ q.order = Len(orders) + 1 /\ Len(orders') = Len(orders) + 1
        /\ Same(orders'[q.order], q.request)

LEMMA RowsStillMatch ==
  ASSUME HandlersGood, RowsMatch, TermsKept, NEW i \in 1..Len(posts), NEW q,
         HandlerStep(i, q)
  PROVE  RowsMatch'
<1>1. /\ posts \in Seq(Post) /\ Len(orders) \in Nat
      /\ DOMAIN rows \subseteq 1..Len(posts)
      /\ \A j \in 1..Len(posts) : posts[j].order \in 0..Len(orders)
  BY HandlerFacts DEF PostGood
<1>2. /\ Len(posts') = Len(posts)
      /\ \A j \in 1..Len(posts) : posts'[j] = IF j = i THEN q ELSE posts[j]
  BY <1>1, PostReplaced DEF HandlerStep
<1>3. ASSUME NEW j \in DOMAIN rows'
      PROVE  /\ posts'[j].pc # "locking" /\ rows'[j].user = posts'[j].user
             /\ Same(rows'[j], posts'[j].request)
  <2>1. CASE /\ j \in DOMAIN rows /\ rows'[j].user = rows[j].user
             /\ Same(rows'[j], rows[j])
    BY <1>1, <1>2, <2>1 DEF HandlerStep, RowsMatch, Same
  <2>2. CASE j = i /\ rows'[j].user = q.user /\ Same(rows'[j], q.request)
    BY <1>2, <2>2 DEF HandlerStep
  <2> QED
    BY <2>1, <2>2 DEF HandlerStep
<1>4. ASSUME NEW j \in 1..Len(posts), posts'[j].order # NoOrder
      PROVE  Same(orders'[posts'[j].order], posts'[j].request)
  <2>1. CASE posts'[j].order = posts[j].order
    <3>1. /\ posts[j].order \in 1..Len(orders) /\ posts'[j].request = posts[j].request
      BY <1>1, <1>2, <1>4, <2>1 DEF HandlerStep, NoOrder
    <3>2. Same(orders[posts[j].order], posts[j].request)
      BY <1>4, <2>1 DEF RowsMatch
    <3> QED
      BY <2>1, <3>1, <3>2 DEF TermsKept, SameTerms, Same
  <2>2. CASE posts'[j].order # posts[j].order
    BY <1>2, <2>2 DEF HandlerStep
  <2> QED
    BY <2>1, <2>2
<1>5. ASSUME NEW id \in 1..Len(orders')
      PROVE  \E j \in DOMAIN rows' : posts'[j].order = id
  <2>1. CASE id \in 1..Len(orders)
    <3>1. PICK j \in DOMAIN rows : posts[j].order = id
      BY <2>1 DEF RowsMatch
    <3>2. posts'[j].order = id
      BY <1>1, <1>2, <2>1, <3>1 DEF HandlerStep, NoOrder
    <3> QED
      BY <3>1, <3>2 DEF HandlerStep
  <2>2. CASE id \notin 1..Len(orders)
    BY <1>1, <1>2, <2>2 DEF HandlerStep
  <2> QED
    BY <2>1, <2>2
<1> QED
  BY <1>2, <1>3, <1>4, <1>5 DEF RowsMatch

LEMMA StillSettles ==
  ASSUME HandlersGood, SettleGood, TermsKept, NEW i \in 1..Len(posts), NEW q,
         HandlerStep(i, q), AllWithin(q.unsettled, orders),
         AllWithin(tradeRows', orders), lost' = lost
  PROVE  SettleGood'
<1>1. posts \in Seq(Post)
  BY HandlerFacts
<1>2. /\ Len(posts') = Len(posts)
      /\ \A j \in 1..Len(posts) : posts'[j] = IF j = i THEN q ELSE posts[j]
  BY <1>1, PostReplaced DEF HandlerStep
<1>3. \A j \in 1..Len(posts) : AllWithin(posts'[j].unsettled, orders)
  BY <1>2 DEF SettleGood
<1>4. ASSUME NEW list PROVE AllWithin(list, orders) => AllWithin(list, orders')
  BY WithinKept
<1>5. AllWithin(tradeRows', orders')
  <2>1. PICK list : list = tradeRows'
    OBVIOUS
  <2> QED
    BY <1>4, <2>1
<1>6. ASSUME NEW j \in 1..Len(posts) PROVE AllWithin(posts'[j].unsettled, orders')
  <2>1. PICK list : list = posts'[j].unsettled
    OBVIOUS
  <2> QED
    BY <1>3, <1>4, <2>1
<1>7. \A j \in 1..Len(posts) : posts'[j].pc # "unlocking"
  BY <1>2 DEF SettleGood, HandlerStep
<1> QED
  BY <1>2, <1>5, <1>6, <1>7 DEF SettleGood

-----------------------------------------------------------------------------
(***************************************************************************)
(* What every account has locked, as sums over the rows and the trades.    *)
(***************************************************************************)

\* What row r may still cost user u, in base and in quote.
ToGive(r, u) == IF r.user = u /\ r.side = "SELL" THEN r.quantity - r.filled ELSE 0
ToPay(r, u) ==
  IF r.user = u /\ r.side = "BUY" THEN r.price * (r.quantity - r.filled) ELSE 0

AllToGive(R, u) == [i \in DOMAIN R |-> ToGive(R[i], u)]
AllToPay(R, u) == [i \in DOMAIN R |-> ToPay(R[i], u)]

\* Order id is the one of handler i, and of no other with a row.
Owned(id, i, R, ps) ==
  /\ i \in DOMAIN R /\ ps[i].order = id
  /\ \A j \in DOMAIN R : ps[j].order = id => j = i

OwnerRow(id, R, ps) == R[CHOOSE i \in DOMAIN R : ps[i].order = id]

\* What u has paid less in t than the price of its order allowed.
Gain(t, R, ps, u) ==
  IF OwnerRow(t.buyOrderId, R, ps).user = u
  THEN (OwnerRow(t.buyOrderId, R, ps).price - t.price) * t.quantity ELSE 0

Gains(list, R, ps, u) == [k \in 1..Len(list) |-> Gain(list[k], R, ps, u)]

LocksGood ==
  \A u \in Users :
    /\ accounts[u]["base"].locked = Total(AllToGive(rows, u), DOMAIN rows)
    /\ accounts[u]["quote"].locked =
         Total(AllToPay(rows, u), DOMAIN rows)
           + Total(Gains(tradeRows, rows, posts, u), 1..Len(tradeRows))

LEMMA OwnerIsUnique ==
  ASSUME NEW id, NEW i, NEW R, NEW ps, Owned(id, i, R, ps)
  PROVE  /\ (CHOOSE j \in DOMAIN R : ps[j].order = id) = i
         /\ OwnerRow(id, R, ps) = R[i]
<1>1. (CHOOSE j \in DOMAIN R : ps[j].order = id) = i
  BY DEF Owned
<1> QED
  BY <1>1 DEF OwnerRow

\* The handler of an order of the engine.
LEMMA OwnerExists ==
  ASSUME HandlersGood, FillsGood, RowsMatch, NEW id \in 1..Len(orders)
  PROVE  \E i \in DOMAIN rows : /\ Owned(id, i, rows, posts) /\ i \in 1..Len(posts)
                                /\ Same(orders[id], rows[i])
<1>1. DOMAIN rows \subseteq 1..Len(posts) /\ Len(orders) \in Nat
  BY HandlerFacts
<1>2. PICK i \in DOMAIN rows : posts[i].order = id
  BY DEF RowsMatch
<1>3. id # NoOrder
  BY <1>1 DEF NoOrder
<1>4. Owned(id, i, rows, posts)
  BY <1>1, <1>2, <1>3 DEF Owned, FillsGood, OrdersApart
<1>5. Same(orders[id], rows[i])
  BY <1>1, <1>2, <1>3 DEF RowsMatch, Same
<1> QED
  BY <1>1, <1>4, <1>5

\* An order keeps its owner, and the owner its terms.
RowsKept ==
  /\ \A i \in DOMAIN rows :
       /\ i \in DOMAIN rows' /\ rows'[i].user = rows[i].user
       /\ Same(rows'[i], rows[i])
  /\ \A i \in DOMAIN rows :
       posts[i].order # NoOrder => posts'[i].order = posts[i].order
  /\ DOMAIN rows' \subseteq 1..Len(posts')
  /\ OrdersApart'

LEMMA OwnerKept ==
  ASSUME HandlersGood, FillsGood, RowsMatch, RowsKept, NEW id \in 1..Len(orders)
  PROVE  /\ OwnerRow(id, rows', posts').user = OwnerRow(id, rows, posts).user
         /\ OwnerRow(id, rows', posts').price = OwnerRow(id, rows, posts).price
<1>1. PICK i \in DOMAIN rows : Owned(id, i, rows, posts)
  BY OwnerExists
<1>2. id # NoOrder
  BY HandlerFacts DEF NoOrder
<1>3. PICK R, ps : R = rows' /\ ps = posts'
  OBVIOUS
<1>4. Owned(id, i, R, ps)
  BY <1>1, <1>2, <1>3 DEF Owned, RowsKept, OrdersApart
<1>5. OwnerRow(id, rows, posts) = rows[i] /\ OwnerRow(id, R, ps) = R[i]
  BY <1>1, <1>4, OwnerIsUnique
<1> QED
  BY <1>3, <1>5 DEF RowsKept, Same

LEMMA GainKept ==
  ASSUME HandlersGood, FillsGood, RowsMatch, RowsKept, NEW t, WithinLimit(t, orders)
  PROVE  \A u : Gain(t, rows', posts', u) = Gain(t, rows, posts, u)
<1>1. t.buyOrderId \in 1..Len(orders)
  BY DEF WithinLimit
<1> QED
  BY <1>1, OwnerKept DEF Gain

\* A purchase within its limit gains something or nothing.
LEMMA GainFacts ==
  ASSUME HandlersGood, FillsGood, RowsMatch, NEW t \in Trade, WithinLimit(t, orders)
  PROVE  /\ \A u : Gain(t, rows, posts, u) \in Nat
         /\ OwnerRow(t.buyOrderId, rows, posts) \in Row
<1>1. t.buyOrderId \in 1..Len(orders) /\ t.price <= orders[t.buyOrderId].price
  BY DEF WithinLimit
<1>2. PICK i \in DOMAIN rows : /\ Owned(t.buyOrderId, i, rows, posts)
                               /\ Same(orders[t.buyOrderId], rows[i])
  BY <1>1, OwnerExists
<1>3. OwnerRow(t.buyOrderId, rows, posts) = rows[i]
  BY <1>2, OwnerIsUnique
<1>4. rows[i] \in Row
  BY HandlerFacts
<1>5. t.price <= rows[i].price
  BY <1>1, <1>2 DEF Same
<1>6. rows[i].price \in Nat /\ t.price \in Nat /\ t.quantity \in Nat
  BY <1>4 DEF Row, Trade
<1>7. \A a, b, c \in Nat : b <= a => (a - b) * c \in Nat
  OBVIOUS
<1>8. (rows[i].price - t.price) * t.quantity \in Nat
  BY <1>5, <1>6, <1>7
<1>9. 0 \in Nat
  OBVIOUS
<1> QED
  BY <1>3, <1>4, <1>8, <1>9 DEF Gain

LEMMA GainsFacts ==
  ASSUME HandlersGood, FillsGood, RowsMatch, NEW list \in Seq(Trade),
         AllWithin(list, orders), NEW u
  PROVE  /\ Len(list) \in Nat /\ IsFiniteSet(1..Len(list))
         /\ \A k \in 1..Len(list) :
              /\ Gains(list, rows, posts, u)[k] = Gain(list[k], rows, posts, u)
              /\ Gains(list, rows, posts, u)[k] \in Nat
<1>1. Len(list) \in Nat
  BY LenProperties
<1>2. ASSUME NEW k \in 1..Len(list) PROVE Gain(list[k], rows, posts, u) \in Nat
  <2>1. list[k] \in Trade /\ WithinLimit(list[k], orders)
    BY ElementOfSeq DEF AllWithin
  <2> QED
    BY <2>1, GainFacts
<1> QED
  BY <1>1, <1>2, FS_Interval DEF Gains

\* The gains of a list are the same after a step that keeps the rows.
LEMMA GainsKept ==
  ASSUME HandlersGood, FillsGood, RowsMatch, RowsKept, NEW list \in Seq(Trade),
         AllWithin(list, orders), NEW u
  PROVE  Total(Gains(list, rows', posts', u), 1..Len(list)) =
           Total(Gains(list, rows, posts, u), 1..Len(list))
<1>1. PICK R, ps : R = rows' /\ ps = posts'
  OBVIOUS
<1> DEFINE f == Gains(list, rows, posts, u)
           g == Gains(list, R, ps, u)
           S == 1..Len(list)
<1>2. IsFiniteSet(S) /\ \A k \in S : f[k] \in Int
  BY GainsFacts
<1>3. ASSUME NEW k \in S PROVE f[k] = g[k]
  <2>1. WithinLimit(list[k], orders)
    BY DEF AllWithin
  <2>2. Gain(list[k], rows', posts', u) = Gain(list[k], rows, posts, u)
    BY <2>1, GainKept
  <2> QED
    BY <1>1, <2>2 DEF Gains
<1> HIDE DEF f, g, S
<1>4. Total(f, S) = Total(g, S)
  BY <1>2, <1>3, TotalSame
<1> QED
  BY <1>1, <1>4 DEF f, g, S

\* A step that moves no money and fills no row.
LEMMA LocksStay ==
  ASSUME HandlersGood, FillsGood, RowsMatch, SettleGood, LocksGood, RowsKept,
         rows' = rows, accounts' = accounts, tradeRows' = tradeRows
  PROVE  LocksGood'
<1>1. tradeRows \in Seq(Trade) /\ AllWithin(tradeRows, orders)
  BY HandlerFacts DEF SettleGood
<1>2. ASSUME NEW u \in Users
      PROVE  Total(Gains(tradeRows, rows', posts', u), 1..Len(tradeRows)) =
               Total(Gains(tradeRows, rows, posts, u), 1..Len(tradeRows))
  BY <1>1, GainsKept
<1> QED
  BY <1>2 DEF LocksGood

\* No row is filled beyond its quantity, and every share is one of the sum.
LEMMA RowNotOverfilled ==
  ASSUME HandlersGood, FillsGood, RowsMatch, NEW j \in DOMAIN rows
  PROVE  /\ rows[j] \in Row /\ j \in 1..Len(posts)
         /\ rows[j].filled <= rows[j].quantity
<1>1. /\ rows[j] \in Row /\ j \in 1..Len(posts) /\ EngineInv /\ Len(orders) \in Nat
      /\ posts[j].order \in 0..Len(orders)
  BY HandlerFacts, SMTT(30) DEF PostGood
<1>2. rows[j].filled = TradedQuantity(posts[j].order, tradeRows)
  BY DEF FillsGood
<1>3. rows[j].quantity \in Nat
  BY <1>1 DEF Row
<1>4. CASE posts[j].order = NoOrder
  <2>1. NoOrder \notin 1..Len(orders)
    BY <1>1 DEF NoOrder
  <2>2. rows[j].filled = 0
    BY <1>2, <1>4, <2>1, NothingOfNobody
  <2> QED
    BY <1>1, <1>3, <2>2
<1>5. CASE posts[j].order # NoOrder
  <2> DEFINE id == posts[j].order
  <2>1. id \in 1..Len(orders)
    BY <1>1, <1>5 DEF NoOrder
  <2>2. orders[id].filledQuantity <= orders[id].quantity
    BY <1>1, <2>1 DEF EngineInv, Inv, OrdersSound, OrderSound
  <2>3. orders[id].quantity = rows[j].quantity
    BY <1>1, <1>5 DEF RowsMatch, Same
  <2>4. orders[id].filledQuantity =
          TradedQuantity(id, tradeRows) + UnsettledIn(id, posts)
            + TradedQuantity(id, lost) + Running(id)
    BY <2>1 DEF FillsGood
  <2>5. /\ TradedQuantity(id, tradeRows) \in Nat /\ UnsettledIn(id, posts) \in Nat
        /\ TradedQuantity(id, lost) \in Nat /\ Running(id) \in Nat
    BY FillTypes
  <2> HIDE DEF id
  <2>6. TradedQuantity(id, tradeRows) <= rows[j].quantity
    BY <1>3, <2>2, <2>3, <2>4, <2>5
  <2> QED
    BY <1>1, <1>2, <2>6 DEF id
<1> QED
  BY <1>4, <1>5

LEMMA RowSumFacts ==
  ASSUME HandlersGood, FillsGood, RowsMatch, NEW u
  PROVE  /\ IsFiniteSet(DOMAIN rows)
         /\ \A j \in DOMAIN rows :
              /\ AllToGive(rows, u)[j] = ToGive(rows[j], u)
              /\ AllToPay(rows, u)[j] = ToPay(rows[j], u)
              /\ ToGive(rows[j], u) \in Nat /\ ToPay(rows[j], u) \in Nat
<1>1. IsFiniteSet(DOMAIN rows)
  <2>1. IsFiniteSet(1..Len(posts)) /\ DOMAIN rows \subseteq 1..Len(posts)
    BY HandlerFacts, FS_Interval
  <2> QED
    BY <2>1, FS_Subset
<1>2. ASSUME NEW j \in DOMAIN rows
      PROVE  ToGive(rows[j], u) \in Nat /\ ToPay(rows[j], u) \in Nat
  <2>1. /\ rows[j].filled <= rows[j].quantity /\ rows[j].filled \in Nat
        /\ rows[j].quantity \in Nat /\ rows[j].price \in Nat
    BY RowNotOverfilled DEF Row
  <2>2. rows[j].quantity - rows[j].filled \in Nat /\ 0 \in Nat
    BY <2>1
  <2>3. \A a, b \in Nat : a * b \in Nat
    OBVIOUS
  <2>4. rows[j].price * (rows[j].quantity - rows[j].filled) \in Nat
    BY <2>1, <2>2, <2>3
  <2> QED
    BY <2>2, <2>4 DEF ToGive, ToPay
<1> QED
  BY <1>1, <1>2 DEF AllToGive, AllToPay

-----------------------------------------------------------------------------
(***************************************************************************)
(* The funds of an order are locked.                                       *)
(***************************************************************************)
LEMMA LockedMoves ==
  ASSUME accounts \in AccountTable, NEW u \in Users, NEW c \in Currency, NEW n \in Nat
  PROVE  \A v \in Users : \A k \in Currency :
           Lock(u, c, n)[v][k].locked =
             accounts[v][k].locked + (IF v = u /\ k = c THEN n ELSE 0)
<1> DEFINE entry == [available |-> accounts[u][c].available - n,
                     locked |-> accounts[u][c].locked + n]
           row == [accounts[u] EXCEPT ![c] = entry]
<1>1. /\ accounts \in [Users -> [Currency -> Account]]
      /\ accounts[u] \in [Currency -> Account]
      /\ \A v \in Users : \A k \in Currency : accounts[v][k].locked \in Nat
  BY DEF AccountTable, Account
<1>2. Lock(u, c, n) = [accounts EXCEPT ![u] = row]
  BY <1>1 DEF Lock
<1>3. entry.locked = accounts[u][c].locked + n
  OBVIOUS
<1> HIDE DEF entry
<1>4. row[c] = entry /\ \A k \in Currency : k # c => row[k] = accounts[u][k]
  BY <1>1
<1> HIDE DEF row
<1>5. /\ Lock(u, c, n)[u] = row
      /\ \A v \in Users : v # u => Lock(u, c, n)[v] = accounts[v]
  BY <1>1, <1>2
<1> SUFFICES ASSUME NEW v \in Users, NEW k \in Currency
             PROVE  Lock(u, c, n)[v][k].locked =
                      accounts[v][k].locked + (IF v = u /\ k = c THEN n ELSE 0)
  OBVIOUS
<1>6. CASE v # u \/ k # c
  <2>1. Lock(u, c, n)[v][k] = accounts[v][k]
    BY <1>4, <1>5, <1>6
  <2> QED
    BY <1>1, <1>6, <2>1
<1>7. CASE v = u /\ k = c
  BY <1>1, <1>3, <1>4, <1>5, <1>7
<1> QED
  BY <1>6, <1>7

\* g is f with one more term.
Grown(f, g, S, x) ==
  /\ IsFiniteSet(S) /\ x \notin S /\ g[x] \in Int
  /\ \A y \in S : g[y] \in Int /\ g[y] = f[y]

LEMMA TotalOfGrown ==
  ASSUME NEW f, NEW g, NEW S, NEW x, Grown(f, g, S, x)
  PROVE  Total(g, S \union {x}) = g[x] + Total(f, S) /\ Total(f, S) \in Int
<1>1. /\ IsFiniteSet(S) /\ x \notin S
      /\ \A y \in S \union {x} : g[y] \in Int
      /\ \A y \in S : g[y] \in Int /\ g[y] = f[y]
  BY DEF Grown
<1>2. Total(g, S \union {x}) = g[x] + Total(g, S)
  BY <1>1, TotalAdd
<1>3. Total(g, S) = Total(f, S) /\ Total(g, S) \in Int
  BY <1>1, TotalSame, TotalType
<1> QED
  BY <1>2, <1>3

LEMMA LockKeepsLocks ==
  ASSUME OnlyLimits, HandlersGood, FillsGood, RowsMatch, SettleGood, LocksGood,
         RowsKept, NEW i \in 1..Len(posts), LockAndInsert(i)
  PROVE  LocksGood'
<1> DEFINE p == posts[i]
           r == p.request
           c == PaysWith(r.side)
           n == LockAmount(p)
           D == DOMAIN rows
           row == [user |-> p.user, side |-> r.side, type |-> r.type,
                   price |-> IF r.type \in {"LIMIT", "ICEBERG"} THEN p.orderPrice ELSE 0,
                   quantity |-> r.quantity, filled |-> 0, status |-> "OPEN"]
<1>1. /\ posts[i].pc = "locking" /\ accounts' = Lock(p.user, c, n)
      /\ InsertRow(i, "OPEN") /\ tradeRows' = tradeRows
  BY DEF LockAndInsert, At
<1>2. /\ p \in Post /\ accounts \in AccountTable /\ IsFiniteSet(D)
      /\ \A u \in Users : \A k \in Currency : accounts[u][k].locked \in Nat
  BY HandlerFacts, RowSumFacts DEF AccountTable, Account
<1>3. /\ p.user \in Users /\ r \in Requests /\ p.orderPrice \in Nat
      /\ r.side \in Side /\ r.quantity \in Nat \ {0} /\ r.type = "LIMIT"
      /\ c \in Currency
  BY <1>2, PostFields, RequestFacts DEF PaysWith, Currency, OnlyLimits
<1>4. i \notin D
  BY <1>1 DEF RowsMatch
<1>5. n = IF r.side = "BUY" THEN p.orderPrice * r.quantity ELSE r.quantity
  BY <1>3 DEF LockAmount, EffectiveQty, Cost
<1>6. n \in Nat
  BY <1>3, <1>5
<1>7. /\ row.user = p.user /\ row.side = r.side /\ row.quantity = r.quantity
      /\ row.filled = 0 /\ row.price = p.orderPrice
  BY <1>3
<1>8. rows' = [j \in D \union {i} |-> IF j = i THEN row ELSE rows[j]]
  BY <1>1 DEF InsertRow
<1> HIDE DEF row
<1>9. PICK R : R = rows'
  OBVIOUS
<1>10. /\ DOMAIN R = D \union {i} /\ R[i] = row
       /\ \A j \in D : R[j] = rows[j]
  BY <1>4, <1>8, <1>9
<1> SUFFICES ASSUME NEW u \in Users
             PROVE  /\ accounts'[u]["base"].locked = Total(AllToGive(R, u), DOMAIN R)
                    /\ accounts'[u]["quote"].locked =
                         Total(AllToPay(R, u), DOMAIN R)
                           + Total(Gains(tradeRows', R, posts', u), 1..Len(tradeRows'))
  BY <1>9 DEF LocksGood
<1> DEFINE give == AllToGive(rows, u)
           give2 == AllToGive(R, u)
           pay == AllToPay(rows, u)
           pay2 == AllToPay(R, u)
           gains == Total(Gains(tradeRows, rows, posts, u), 1..Len(tradeRows))
<1>11. /\ \A j \in D : /\ give2[j] = give[j] /\ give2[j] \in Int
                       /\ pay2[j] = pay[j] /\ pay2[j] \in Int
       /\ give2[i] = ToGive(row, u) /\ pay2[i] = ToPay(row, u)
  <2>1. \A j \in D : /\ give[j] = ToGive(rows[j], u) /\ give[j] \in Nat
                     /\ pay[j] = ToPay(rows[j], u) /\ pay[j] \in Nat
    BY RowSumFacts
  <2> HIDE DEF give, pay
  <2> QED
    BY <1>10, <2>1 DEF AllToGive, AllToPay
<1>12. /\ ToGive(row, u) = IF u = p.user /\ r.side = "SELL" THEN r.quantity ELSE 0
       /\ ToPay(row, u) =
            IF u = p.user /\ r.side = "BUY" THEN p.orderPrice * r.quantity ELSE 0
  BY <1>3, <1>7 DEF ToGive, ToPay
<1>13. ToGive(row, u) \in Int /\ ToPay(row, u) \in Int
  BY <1>3, <1>12
<1> HIDE DEF give, give2, pay, pay2
<1>14. /\ Total(give2, D \union {i}) = ToGive(row, u) + Total(give, D)
       /\ Total(give, D) \in Int
  <2>1. give2[i] \in Int
    BY <1>11, <1>13
  <2>2. Grown(give, give2, D, i)
    BY <1>2, <1>4, <1>11, <2>1 DEF Grown
  <2>3. Total(give2, D \union {i}) = give2[i] + Total(give, D) /\ Total(give, D) \in Int
    BY <2>2, TotalOfGrown
  <2> QED
    BY <1>11, <2>3
<1>15. /\ Total(pay2, D \union {i}) = ToPay(row, u) + Total(pay, D)
       /\ Total(pay, D) \in Int
  <2>1. pay2[i] \in Int
    BY <1>11, <1>13
  <2>2. Grown(pay, pay2, D, i)
    BY <1>2, <1>4, <1>11, <2>1 DEF Grown
  <2>3. Total(pay2, D \union {i}) = pay2[i] + Total(pay, D) /\ Total(pay, D) \in Int
    BY <2>2, TotalOfGrown
  <2> QED
    BY <1>11, <2>3
<1>16. gains \in Nat
       /\ Total(Gains(tradeRows', R, posts', u), 1..Len(tradeRows')) = gains
  <2>1. tradeRows \in Seq(Trade) /\ AllWithin(tradeRows, orders)
    BY HandlerFacts DEF SettleGood
  <2>2. gains \in Nat
    BY <2>1, GainsFacts, TotalNonNegative
  <2>3. Total(Gains(tradeRows, rows', posts', u), 1..Len(tradeRows)) = gains
    BY <2>1, GainsKept
  <2> QED
    BY <1>1, <1>9, <2>2, <2>3
<1>17. /\ accounts[u]["base"].locked = Total(give, D)
       /\ accounts[u]["quote"].locked = Total(pay, D) + gains
  BY DEF LocksGood, give, pay
<1> HIDE DEF gains
<1>18. /\ accounts'[u]["base"].locked =
            accounts[u]["base"].locked + (IF u = p.user /\ "base" = c THEN n ELSE 0)
       /\ accounts'[u]["quote"].locked =
            accounts[u]["quote"].locked + (IF u = p.user /\ "quote" = c THEN n ELSE 0)
  <2>1. \A v \in Users : \A k \in Currency :
          Lock(p.user, c, n)[v][k].locked =
            accounts[v][k].locked + (IF v = p.user /\ k = c THEN n ELSE 0)
    <3> HIDE DEF p, c, n
    <3> QED
      BY <1>2, <1>3, <1>6, LockedMoves
  <2>2. "base" \in Currency /\ "quote" \in Currency
    BY DEF Currency
  <2> QED
    BY <1>1, <2>1, <2>2
<1>19. /\ (IF u = p.user /\ "base" = c THEN n ELSE 0) = ToGive(row, u)
       /\ (IF u = p.user /\ "quote" = c THEN n ELSE 0) = ToPay(row, u)
  <2>1. r.side = "BUY" \/ r.side = "SELL"
    BY <1>3, SMTT(30) DEF Side
  <2> QED
    BY <1>5, <1>12, <2>1 DEF PaysWith
<1> HIDE DEF p, r, c, n, D
<1>20. accounts'[u]["base"].locked = Total(give2, DOMAIN R)
  BY <1>10, <1>13, <1>14, <1>17, <1>18, <1>19
<1>21. accounts'[u]["quote"].locked = Total(pay2, DOMAIN R) + gains
  BY <1>10, <1>13, <1>15, <1>16, <1>17, <1>18, <1>19
<1> QED
  BY <1>16, <1>20, <1>21 DEF give2, pay2

-----------------------------------------------------------------------------
(***************************************************************************)
(* A trade is settled: the database never refuses.                         *)
(***************************************************************************)

\* A handler's next trade is part of what its orders have unsettled.
LEMMA FirstShareUnsettled ==
  ASSUME HandlersGood, NEW i \in 1..Len(posts), posts[i].unsettled # << >>, NEW id
  PROVE  /\ Share(id, Head(posts[i].unsettled)) \in Nat
         /\ Share(id, Head(posts[i].unsettled)) <= UnsettledIn(id, posts)
<1> DEFINE S == 1..Len(posts)
           f == Owed(id, posts)
           list == posts[i].unsettled
           n == Share(id, Head(list))
<1>1. posts \in Seq(Post) /\ list \in Seq(Trade) /\ list # << >>
  BY HandlerFacts, PostFields
<1>2. /\ IsFiniteSet(S) /\ i \in S /\ f[i] = TradedQuantity(id, list)
      /\ \A j \in S : f[j] \in Nat
  BY <1>1, OwedType
<1>3. UnsettledIn(id, posts) = Total(f, S)
  BY <1>1, UnsettledIsTotal
<1>4. n \in Nat /\ TradedQuantity(id, list) >= n
  <2>1. /\ TradedQuantity(id, list) = n + TradedQuantity(id, Tail(list))
        /\ n \in Nat /\ TradedQuantity(id, Tail(list)) \in Nat
    BY <1>1, TradedOfFirst
  <2> HIDE DEF n, list
  <2> QED
    BY <2>1
<1> HIDE DEF S, f, list, n
<1>5. Total(f, S) = f[i] + Total(f, S \ {i}) /\ Total(f, S \ {i}) \in Nat
  <2>1. /\ \A j \in S : f[j] \in Int
        /\ IsFiniteSet(S \ {i}) /\ \A j \in S \ {i} : f[j] \in Nat
    BY <1>2, FS_Subset
  <2>2. Total(f, S) = f[i] + Total(f, S \ {i})
    BY <1>2, <2>1, TotalSplit
  <2>3. Total(f, S \ {i}) \in Nat
    BY <2>1, TotalNonNegative
  <2> QED
    BY <2>2, <2>3
<1>6. f[i] \in Nat
  BY <1>2
<1>7. n <= Total(f, S)
  BY <1>2, <1>4, <1>5, <1>6
<1> QED
  BY <1>3, <1>4, <1>7 DEF n, list

\* The row of one side of a trade still to be settled has room for it.
LEMMA RowHasRoom ==
  ASSUME HandlersGood, FillsGood, RowsMatch, NEW i \in 1..Len(posts),
         posts[i].unsettled # << >>, NEW id \in 1..Len(orders),
         id \in {Head(posts[i].unsettled).buyOrderId,
                 Head(posts[i].unsettled).sellOrderId}
  PROVE  /\ HasRow(id) /\ RowOf(id) \in DOMAIN rows
         /\ Owned(id, RowOf(id), rows, posts)
         /\ Same(rows[RowOf(id)], orders[id])
         /\ rows[RowOf(id)].filled + Head(posts[i].unsettled).quantity
              <= rows[RowOf(id)].quantity
<1> DEFINE t == Head(posts[i].unsettled)
<1>1. PICK j \in DOMAIN rows :
        Owned(id, j, rows, posts) /\ Same(orders[id], rows[j])
  BY OwnerExists
<1>2. RowOf(id) = j /\ HasRow(id) /\ posts[j].order = id
  BY <1>1, OwnerIsUnique DEF RowOf, HasRow, Owned
<1>3. /\ t \in Trade /\ Share(id, t) \in Nat /\ Share(id, t) <= UnsettledIn(id, posts)
      /\ Share(id, t) = t.quantity
  BY SettlementFacts, FirstShareUnsettled DEF Share
<1>4. rows[j] \in Row /\ EngineInv
  BY HandlerFacts
<1>5. orders[id].filledQuantity <= orders[id].quantity
  BY <1>4 DEF EngineInv, Inv, OrdersSound, OrderSound
<1>6. orders[id].filledQuantity =
        TradedQuantity(id, tradeRows) + UnsettledIn(id, posts)
          + TradedQuantity(id, lost) + Running(id)
  BY DEF FillsGood
<1>7. /\ TradedQuantity(id, tradeRows) \in Nat /\ UnsettledIn(id, posts) \in Nat
      /\ TradedQuantity(id, lost) \in Nat /\ Running(id) \in Nat
  BY FillTypes
<1>8. rows[j].filled = TradedQuantity(id, tradeRows)
  BY <1>2 DEF FillsGood
<1>9. rows[j].quantity = orders[id].quantity /\ rows[j].quantity \in Nat
  BY <1>1, <1>4 DEF Same, Row
<1> HIDE DEF t
<1>10. rows[j].filled + t.quantity <= rows[j].quantity
  <2>1. PICK size, paid, held, gone, left, n :
               /\ size = rows[j].quantity /\ paid = TradedQuantity(id, tradeRows)
               /\ held = UnsettledIn(id, posts) /\ gone = TradedQuantity(id, lost)
               /\ left = Running(id) /\ n = t.quantity
    BY Zenon
  <2>2. PICK filled : filled = orders[id].filledQuantity
    BY Zenon
  <2>3. /\ size \in Nat /\ paid \in Nat /\ held \in Nat /\ gone \in Nat
        /\ left \in Nat /\ n \in Nat
    BY <1>3, <1>7, <1>9, <2>1
  <2>4. filled <= size /\ filled = paid + held + gone + left /\ n <= held
    BY <1>3, <1>5, <1>6, <1>9, <2>1, <2>2
  <2>5. paid + n <= size
    BY <2>3, <2>4
  <2> QED
    BY <1>8, <2>1, <2>5
<1> QED
  BY <1>1, <1>2, <1>10 DEF t, Same

\* A term is no more than the sum of all.
LEMMA TermOfTotal ==
  ASSUME NEW S, IsFiniteSet(S), NEW f, \A y \in S : f[y] \in Nat, NEW x \in S
  PROVE  Total(f, S) \in Nat /\ f[x] <= Total(f, S)
<1>1. /\ \A y \in S : f[y] \in Int
      /\ IsFiniteSet(S \ {x}) /\ \A y \in S \ {x} : f[y] \in Nat
  BY FS_Subset
<1>2. Total(f, S) = f[x] + Total(f, S \ {x})
  BY <1>1, TotalSplit
<1>3. Total(f, S \ {x}) \in Nat /\ Total(f, S) \in Nat
  BY <1>1, TotalNonNegative
<1> QED
  BY <1>2, <1>3

LEMMA ProductsGrow ==
  ASSUME NEW a \in Nat, NEW b \in Nat, NEW c \in Nat, NEW d \in Nat, a <= b, c <= d
  PROVE  a * c \in Nat /\ b * d \in Nat /\ a * c <= b * d
<1>1. PICK x \in Nat : b = a + x
  <2>1. b - a \in Nat /\ b = a + (b - a)
    OBVIOUS
  <2> QED
    BY <2>1
<1>2. PICK y \in Nat : d = c + y
  <2>1. d - c \in Nat /\ d = c + (d - c)
    OBVIOUS
  <2> QED
    BY <2>1
<1>3. b * d = a * c + (a * y + x * c + x * y)
  BY <1>1, <1>2
<1>4. a * c \in Nat /\ a * y \in Nat /\ x * c \in Nat /\ x * y \in Nat
  OBVIOUS
<1> QED
  BY <1>3, <1>4

\* The next trade of a handler, and the two rows it is settled against.
SettledRows(t, b, s) ==
  /\ t \in Trade /\ t.price \in Nat /\ t.quantity \in Nat
  /\ b \in DOMAIN rows /\ b = RowOf(t.buyOrderId) /\ rows[b] \in Row
  /\ Owned(t.buyOrderId, b, rows, posts)
  /\ rows[b].side = "BUY" /\ t.price <= rows[b].price
  /\ rows[b].filled + t.quantity <= rows[b].quantity
  /\ s \in DOMAIN rows /\ s = RowOf(t.sellOrderId) /\ rows[s] \in Row
  /\ rows[s].side = "SELL"
  /\ rows[s].filled + t.quantity <= rows[s].quantity

LEMMA FundsCover ==
  ASSUME HandlersGood, FillsGood, RowsMatch, SettleGood, LocksGood,
         NEW t, NEW b, NEW s, SettledRows(t, b, s)
  PROVE  /\ accounts[rows[b].user]["quote"].locked >= t.price * t.quantity
         /\ accounts[rows[s].user]["base"].locked >= t.quantity
<1>1. /\ t.price \in Nat /\ t.quantity \in Nat
      /\ b \in DOMAIN rows /\ rows[b] \in Row /\ rows[b].side = "BUY"
      /\ t.price <= rows[b].price /\ rows[b].filled + t.quantity <= rows[b].quantity
      /\ s \in DOMAIN rows /\ rows[s] \in Row /\ rows[s].side = "SELL"
      /\ rows[s].filled + t.quantity <= rows[s].quantity
  BY DEF SettledRows
<1>2. /\ rows[b].user \in Users /\ rows[s].user \in Users
      /\ rows[b].price \in Nat /\ rows[b].quantity \in Nat /\ rows[b].filled \in Nat
      /\ rows[s].quantity \in Nat /\ rows[s].filled \in Nat
  BY <1>1 DEF Row
<1>3. accounts[rows[b].user]["quote"].locked >= t.price * t.quantity
  <2>1. PICK u \in Users : u = rows[b].user
    BY <1>2
  <2> DEFINE pay == AllToPay(rows, u)
             gains == Total(Gains(tradeRows, rows, posts, u), 1..Len(tradeRows))
             room == rows[b].quantity - rows[b].filled
  <2>2. accounts[u]["quote"].locked = Total(pay, DOMAIN rows) + gains
    BY DEF LocksGood
  <2>3. /\ IsFiniteSet(DOMAIN rows) /\ \A j \in DOMAIN rows : pay[j] \in Nat
        /\ pay[b] = ToPay(rows[b], u)
    BY <1>1, RowSumFacts
  <2>4. gains \in Nat
    <3>1. tradeRows \in Seq(Trade) /\ AllWithin(tradeRows, orders)
      BY HandlerFacts DEF SettleGood
    <3> QED
      BY <3>1, GainsFacts, TotalNonNegative
  <2>5. pay[b] = rows[b].price * room
    BY <1>1, <2>1, <2>3 DEF ToPay
  <2>6. room \in Nat /\ t.quantity <= room
    BY <1>1, <1>2
  <2> HIDE DEF pay, gains, room
  <2>7. Total(pay, DOMAIN rows) \in Nat /\ pay[b] <= Total(pay, DOMAIN rows)
    BY <1>1, <2>3, TermOfTotal
  <2>8. t.price * t.quantity \in Nat /\ t.price * t.quantity <= rows[b].price * room
    BY <1>1, <1>2, <2>6, ProductsGrow
  <2>9. pay[b] \in Nat
    BY <1>1, <2>3
  <2>10. t.price * t.quantity <= Total(pay, DOMAIN rows) + gains
    BY <2>4, <2>5, <2>7, <2>8, <2>9
  <2> QED
    BY <2>1, <2>2, <2>4, <2>7, <2>8, <2>10
<1>4. accounts[rows[s].user]["base"].locked >= t.quantity
  <2>1. PICK u \in Users : u = rows[s].user
    BY <1>2
  <2> DEFINE give == AllToGive(rows, u)
  <2>2. accounts[u]["base"].locked = Total(give, DOMAIN rows)
    BY DEF LocksGood
  <2>3. /\ IsFiniteSet(DOMAIN rows) /\ \A j \in DOMAIN rows : give[j] \in Nat
        /\ give[s] = ToGive(rows[s], u)
    BY <1>1, RowSumFacts
  <2>4. give[s] = rows[s].quantity - rows[s].filled
    BY <1>1, <2>1, <2>3 DEF ToGive
  <2> HIDE DEF give
  <2>5. Total(give, DOMAIN rows) \in Nat /\ give[s] <= Total(give, DOMAIN rows)
    BY <1>1, <2>3, TermOfTotal
  <2>6. t.quantity <= give[s] /\ give[s] \in Nat
    BY <1>1, <1>2, <2>3, <2>4
  <2> QED
    BY <1>1, <2>1, <2>2, <2>5, <2>6
<1> QED
  BY <1>3, <1>4

LEMMA NextSettles ==
  ASSUME HandlersGood, FillsGood, RowsMatch, SettleGood, LocksGood,
         NEW i \in 1..Len(posts), posts[i].unsettled # << >>,
         NEW t, t = Head(posts[i].unsettled)
  PROVE  /\ CanSettle(t) /\ WithinLimit(t, orders)
         /\ SettledRows(t, RowOf(t.buyOrderId), RowOf(t.sellOrderId))
<1>1. t \in Trade /\ WithinLimit(t, orders)
  <2>1. PICK list : list = posts[i].unsettled
    OBVIOUS
  <2>2. list \in Seq(Trade) /\ t \in Trade
    BY <2>1, SettlementFacts
  <2>3. AllWithin(list, orders)
    BY <2>1 DEF SettleGood
  <2> QED
    BY <2>1, <2>2, <2>3, WithinTail
<1>2. /\ t.buyOrderId \in 1..Len(orders) /\ orders[t.buyOrderId].side = "BUY"
      /\ t.sellOrderId \in 1..Len(orders) /\ orders[t.sellOrderId].side = "SELL"
      /\ t.price <= orders[t.buyOrderId].price
  BY <1>1 DEF WithinLimit
<1>3. PICK b, s : b = RowOf(t.buyOrderId) /\ s = RowOf(t.sellOrderId)
  OBVIOUS
<1>4. PICK buy, sell : buy = t.buyOrderId /\ sell = t.sellOrderId
  OBVIOUS
<1>5. /\ HasRow(buy) /\ b \in DOMAIN rows
      /\ Owned(buy, b, rows, posts) /\ Same(rows[b], orders[buy])
      /\ rows[b].filled + t.quantity <= rows[b].quantity
  BY <1>2, <1>3, <1>4, RowHasRoom
<1>6. /\ HasRow(sell) /\ s \in DOMAIN rows /\ Same(rows[s], orders[sell])
      /\ rows[s].filled + t.quantity <= rows[s].quantity
  BY <1>2, <1>3, <1>4, RowHasRoom
<1>7. rows[b] \in Row /\ rows[s] \in Row
  BY <1>5, <1>6, HandlerFacts
<1>8. t.price \in Nat /\ t.quantity \in Nat
  BY <1>1, TradeFields, Zenon
<1>9. SettledRows(t, b, s)
  BY <1>1, <1>2, <1>3, <1>4, <1>5, <1>6, <1>7, <1>8 DEF SettledRows, Same
<1>10. /\ accounts[rows[b].user]["quote"].locked >= t.price * t.quantity
       /\ accounts[rows[s].user]["base"].locked >= t.quantity
  BY <1>9, FundsCover, ZenonT(40)
<1>11. CanSettle(t)
  BY <1>3, <1>4, <1>5, <1>6, <1>10 DEF CanSettle, Buyer, Seller
<1> QED
  BY <1>1, <1>3, <1>9, <1>11

\* What a settlement leaves of the handlers and the rows.
LEMMA SettleMoves ==
  ASSUME OnlyLimits, HandlersGood, FillsGood, FillsGood', HandlersGood', RowsMatch,
         SettleGood, LimitBook, LocksGood, NEW i \in 1..Len(posts), Settle(i)
  PROVE  /\ RowsKept
         /\ \E q : HandlerStep(i, q) /\ AllWithin(q.unsettled, orders)
         /\ AllWithin(tradeRows', orders) /\ lost' = lost /\ orders' = orders
<1> DEFINE p == posts[i]
           t == Head(p.unsettled)
           q == [p EXCEPT !.unsettled = Tail(p.unsettled)]
<1>1. /\ p.pc = "settling" /\ p.unsettled # << >> /\ CanSettle(t)
      /\ tradeRows' = Append(tradeRows, t) /\ rows' = FillRows(t)
      /\ posts' = [posts EXCEPT ![i] = q]
      /\ orders' = orders /\ lost' = lost
  BY SMTT(30) DEF Settle, At, allVars, bookVars
<1>2. /\ p \in Post /\ p.unsettled \in Seq(Trade) /\ Tail(p.unsettled) \in Seq(Trade)
      /\ t \in Trade /\ AllWithin(p.unsettled, orders)
  BY <1>1, SettlementFacts, HandlerFacts DEF SettleGood
<1>3. WithinLimit(t, orders) /\ AllWithin(Tail(p.unsettled), orders)
  <2>1. PICK list : list = p.unsettled
    OBVIOUS
  <2> QED
    BY <1>1, <1>2, <2>1, WithinTail
<1>4. /\ q \in Post /\ q.pc = p.pc /\ q.order = p.order /\ q.user = p.user
      /\ q.request = p.request /\ q.unsettled = Tail(p.unsettled)
  <2> HIDE DEF p
  <2> QED
    BY <1>2 DEF Post
<1>5. AllWithin(tradeRows', orders)
  <2>1. tradeRows \in Seq(Trade) /\ AllWithin(tradeRows, orders)
    BY HandlerFacts DEF SettleGood
  <2> HIDE DEF t
  <2> QED
    BY <1>1, <1>2, <1>3, <2>1, WithinAppended
<1>6. t.quantity \in Nat
  <2> HIDE DEF t
  <2> QED
    BY <1>2 DEF Trade
<1>7. /\ DOMAIN rows' = DOMAIN rows
      /\ \A j \in DOMAIN rows :
           rows'[j] = rows[j] \/ rows'[j] = RowFilled(rows[j], t.quantity)
  BY <1>1 DEF FillRows
<1> HIDE DEF t, q
<1>8. ASSUME NEW j \in DOMAIN rows
      PROVE  rows'[j].user = rows[j].user /\ Same(rows'[j], rows[j])
  <2>1. rows[j] \in Row
    BY HandlerFacts
  <2>2. LET new == RowFilled(rows[j], t.quantity)
        IN  /\ new.user = rows[j].user /\ new.side = rows[j].side
            /\ new.price = rows[j].price /\ new.quantity = rows[j].quantity
    BY <1>6, <2>1, RowFilledFacts
  <2> QED
    BY <1>7, <2>2 DEF Same
<1>9. /\ posts \in Seq(Post) /\ DOMAIN rows \subseteq 1..Len(posts)
  BY HandlerFacts
<1>10. /\ Len(posts') = Len(posts)
       /\ \A j \in 1..Len(posts) : posts'[j] = IF j = i THEN q ELSE posts[j]
  BY <1>1, <1>4, <1>9, PostReplaced
<1>11. RowsKept
  BY <1>4, <1>7, <1>8, <1>9, <1>10 DEF RowsKept, FillsGood
<1>12. HandlerStep(i, q)
  BY <1>1, <1>4, <1>7, <1>8 DEF HandlerStep
<1> QED
  BY <1>1, <1>3, <1>4, <1>5, <1>11, <1>12

LEMMA SettleKeepsLocks ==
  ASSUME HandlersGood, FillsGood, RowsMatch, SettleGood, LocksGood, RowsKept,
         NEW i \in 1..Len(posts), Settle(i)
  PROVE  LocksGood'
<1> DEFINE D == DOMAIN rows
<1>1. PICK t : t = Head(posts[i].unsettled)
  BY Zenon
<1>2. /\ posts[i].unsettled # << >> /\ accounts' = Pay(t)
      /\ tradeRows' = Append(tradeRows, t) /\ rows' = FillRows(t)
  BY <1>1 DEF Settle, At
<1>3. PICK b, s : b = RowOf(t.buyOrderId) /\ s = RowOf(t.sellOrderId)
  OBVIOUS
<1>4. CanSettle(t) /\ WithinLimit(t, orders) /\ SettledRows(t, b, s)
  BY <1>1, <1>2, <1>3, NextSettles
<1>5. PICK n, v : n = t.quantity /\ v = t.price * t.quantity
  BY Zenon
<1>6. /\ accounts' = Exchanged(accounts, rows[b].user, rows[s].user, v, n)
      /\ accounts[rows[b].user]["quote"].locked >= v
      /\ accounts[rows[s].user]["base"].locked >= n
  BY <1>2, <1>3, <1>4, <1>5 DEF Pay, Exchanged, CanSettle, Buyer, Seller
<1>7. /\ t \in Trade /\ t.price \in Nat /\ n \in Nat
      /\ b \in D /\ rows[b] \in Row /\ rows[b].side = "BUY"
      /\ t.price <= rows[b].price /\ rows[b].filled + n <= rows[b].quantity
      /\ s \in D /\ rows[s] \in Row /\ rows[s].side = "SELL"
      /\ rows[s].filled + n <= rows[s].quantity
      /\ Owned(t.buyOrderId, b, rows, posts)
  BY <1>4, <1>5 DEF SettledRows
<1>8. OwnerRow(t.buyOrderId, rows, posts) = rows[b]
  BY <1>7, OwnerIsUnique
<1>9. /\ \A j \in D : rows'[j] = IF j \in {b, s} THEN RowFilled(rows[j], n) ELSE rows[j]
      /\ DOMAIN rows' = D
  BY <1>2, <1>3, <1>5 DEF FillRows
<1>10. v \in Nat
  BY <1>5, <1>7
<1>11. /\ rows[b].user \in Users /\ rows[s].user \in Users
       /\ rows[b].price \in Nat /\ rows[b].quantity \in Nat /\ rows[b].filled \in Nat
       /\ rows[s].quantity \in Nat /\ rows[s].filled \in Nat
  BY <1>7 DEF Row
<1>12. /\ RowFilled(rows[b], n).user = rows[b].user
       /\ RowFilled(rows[b], n).side = "BUY"
       /\ RowFilled(rows[b], n).price = rows[b].price
       /\ RowFilled(rows[b], n).quantity = rows[b].quantity
       /\ RowFilled(rows[b], n).filled = rows[b].filled + n
       /\ RowFilled(rows[s], n).user = rows[s].user
       /\ RowFilled(rows[s], n).side = "SELL"
       /\ RowFilled(rows[s], n).quantity = rows[s].quantity
       /\ RowFilled(rows[s], n).filled = rows[s].filled + n
  BY <1>7, RowFilledFacts
<1>13. PICK R : R = rows'
  OBVIOUS
<1>14. /\ DOMAIN R = D /\ b # s
       /\ R[b] = RowFilled(rows[b], n) /\ R[s] = RowFilled(rows[s], n)
       /\ \A j \in D \ {b, s} : R[j] = rows[j]
  BY <1>7, <1>9, <1>13
<1> SUFFICES ASSUME NEW u \in Users
             PROVE  /\ accounts'[u]["base"].locked = Total(AllToGive(R, u), DOMAIN R)
                    /\ accounts'[u]["quote"].locked =
                         Total(AllToPay(R, u), DOMAIN R)
                           + Total(Gains(tradeRows', R, posts', u), 1..Len(tradeRows'))
  BY <1>13 DEF LocksGood
<1> DEFINE give == AllToGive(rows, u)
           give2 == AllToGive(R, u)
           pay == AllToPay(rows, u)
           pay2 == AllToPay(R, u)
           given == IF u = rows[s].user THEN n ELSE 0
           cost == IF u = rows[b].user THEN rows[b].price * n ELSE 0
<1>15. /\ IsFiniteSet(D)
       /\ \A j \in D : /\ give[j] = ToGive(rows[j], u) /\ give[j] \in Nat
                       /\ pay[j] = ToPay(rows[j], u) /\ pay[j] \in Nat
  BY RowSumFacts
<1>16. \A j \in D : give2[j] = ToGive(R[j], u) /\ pay2[j] = ToPay(R[j], u)
  BY <1>14 DEF AllToGive, AllToPay
<1>17. rows[b].price * n \in Nat
  BY <1>7, <1>11
<1>18. given \in Int /\ cost \in Int
  BY <1>7, <1>17
<1>19. ToGive(R[b], u) = ToGive(rows[b], u) /\ ToPay(R[s], u) = ToPay(rows[s], u)
  BY <1>7, <1>12, <1>14 DEF ToGive, ToPay
<1>20. ToGive(R[s], u) = ToGive(rows[s], u) - given
  BY <1>7, <1>11, <1>12, <1>14 DEF ToGive
<1>21. ToPay(R[b], u) = ToPay(rows[b], u) - cost
  <2>1. \A x, y, z, w \in Nat : x * (y - (z + w)) = x * (y - z) - x * w
    OBVIOUS
  <2>2. rows[b].price * (rows[b].quantity - (rows[b].filled + n)) =
          rows[b].price * (rows[b].quantity - rows[b].filled) - rows[b].price * n
    BY <1>7, <1>11, <2>1
  <2>3. CASE u = rows[b].user
    BY <1>7, <1>12, <1>14, <2>2, <2>3 DEF ToPay
  <2>4. CASE u # rows[b].user
    BY <1>12, <1>14, <2>4 DEF ToPay
  <2> QED
    BY <2>3, <2>4
<1> HIDE DEF give, give2, pay, pay2, given, cost
<1>22. Total(give2, D) = Total(give, D) - given /\ Total(give, D) \in Int
  <2>1. /\ \A j \in D : give[j] \in Int
        /\ \A j \in D \ {s} : give2[j] = give[j]
        /\ give2[s] = give[s] - given
    BY <1>7, <1>14, <1>15, <1>16, <1>19, <1>20
  <2>2. \A j \in D : give2[j] \in Int
    BY <1>18, <2>1
  <2>3. Total(give2, D) = Total(give, D) + give2[s] - give[s]
    <3>1. Changed(give, give2, D, s)
      BY <1>7, <1>15, <2>1, <2>2 DEF Changed
    <3> QED
      BY <3>1, TotalOfChanged
  <2>4. Total(give, D) \in Int /\ give[s] \in Int
    BY <1>7, <1>15, <2>1, TotalType
  <2> QED
    BY <1>18, <2>1, <2>3, <2>4
<1>23. Total(pay2, D) = Total(pay, D) - cost /\ Total(pay, D) \in Int
  <2>1. /\ \A j \in D : pay[j] \in Int
        /\ \A j \in D \ {b} : pay2[j] = pay[j]
        /\ pay2[b] = pay[b] - cost
    BY <1>7, <1>14, <1>15, <1>16, <1>19, <1>21
  <2>2. \A j \in D : pay2[j] \in Int
    BY <1>18, <2>1
  <2>3. Total(pay2, D) = Total(pay, D) + pay2[b] - pay[b]
    <3>1. Changed(pay, pay2, D, b)
      BY <1>7, <1>15, <2>1, <2>2 DEF Changed
    <3> QED
      BY <3>1, TotalOfChanged
  <2>4. Total(pay, D) \in Int /\ pay[b] \in Int
    BY <1>7, <1>15, <2>1, TotalType
  <2> QED
    BY <1>18, <2>1, <2>3, <2>4
<1> DEFINE gain == Gain(t, rows, posts, u)
           m == Len(tradeRows)
           f == Gains(tradeRows, rows, posts, u)
           g == Gains(tradeRows', R, posts', u)
           gains == Total(f, 1..m)
<1>24. gain = IF u = rows[b].user THEN (rows[b].price - t.price) * n ELSE 0
  BY <1>5, <1>8 DEF Gain
<1>25. /\ Total(g, 1..Len(tradeRows')) = gain + gains
       /\ gains \in Int /\ gain \in Int
  <2>1. /\ tradeRows \in Seq(Trade) /\ AllWithin(tradeRows, orders) /\ m \in Nat
    BY HandlerFacts, LenProperties DEF SettleGood
  <2>2. /\ Len(tradeRows') = m + 1 /\ tradeRows'[m + 1] = t
        /\ \A k \in 1..m : tradeRows'[k] = tradeRows[k]
    BY <1>2, <1>7, <2>1, AppendProperties
  <2>3. /\ IsFiniteSet(1..m)
        /\ \A k \in 1..m : f[k] = Gain(tradeRows[k], rows, posts, u) /\ f[k] \in Nat
    BY <2>1, GainsFacts
  <2>4. gain \in Nat
    BY <1>4, <1>7, GainFacts
  <2>5. 1..Len(tradeRows') = 1..m \union {m + 1} /\ m + 1 \notin 1..m
    BY <2>1, <2>2
  <2>6. g[m + 1] = gain
    <3>1. g[m + 1] = Gain(t, R, posts', u)
      BY <2>2, <2>5 DEF Gains
    <3>2. Gain(t, rows', posts', u) = Gain(t, rows, posts, u)
      BY <1>4, GainKept
    <3> QED
      BY <1>13, <3>1, <3>2
  <2>7. ASSUME NEW k \in 1..m PROVE g[k] = f[k]
    <3>1. g[k] = Gain(tradeRows[k], R, posts', u)
      BY <2>2, <2>5 DEF Gains
    <3>2. WithinLimit(tradeRows[k], orders)
      BY <2>1 DEF AllWithin
    <3>3. Gain(tradeRows[k], rows', posts', u) = Gain(tradeRows[k], rows, posts, u)
      BY <3>2, GainKept
    <3> QED
      BY <1>13, <2>3, <3>1, <3>3
  <2> DEFINE S == 1..m
             x == m + 1
  <2>8. /\ IsFiniteSet(S) /\ x \notin S /\ g[x] \in Int
        /\ \A y \in S : g[y] \in Int /\ g[y] = f[y]
    BY <2>3, <2>4, <2>5, <2>6, <2>7
  <2>9. Total(g, S \union {x}) = g[x] + Total(f, S) /\ Total(f, S) \in Int
    <3> HIDE DEF S, x, f, g
    <3>1. Grown(f, g, S, x)
      BY <2>8 DEF Grown
    <3> QED
      BY <3>1, TotalOfGrown
  <2>10. Total(g, 1..Len(tradeRows')) = g[m + 1] + gains /\ gains \in Int
    BY <2>5, <2>9
  <2> QED
    BY <2>4, <2>6, <2>10
<1> HIDE DEF gain, m, f, g, gains
<1>26. /\ accounts[u]["base"].locked = Total(give, D)
       /\ accounts[u]["quote"].locked = Total(pay, D) + gains
  BY DEF LocksGood, give, pay, gains, m, f
<1>27. /\ accounts'[u]["base"].locked = accounts[u]["base"].locked - given
       /\ accounts'[u]["quote"].locked =
            accounts[u]["quote"].locked - (IF u = rows[b].user THEN v ELSE 0)
  <2>1. accounts \in AccountTable /\ "base" \in Currency /\ "quote" \in Currency
    BY HandlerFacts DEF AccountTable, Currency
  <2>2. ASSUME NEW c \in Currency
        PROVE  Exchanged(accounts, rows[b].user, rows[s].user, v, n)[u][c].locked =
                 accounts[u][c].locked - Taken(rows[b].user, rows[s].user, v, n, u, c)
    <3>1. PICK x \in Users, y \in Users : x = rows[b].user /\ y = rows[s].user
      BY <1>11
    <3> QED
      BY <1>6, <1>7, <1>10, <2>1, <3>1, Paid
  <2>3. /\ Taken(rows[b].user, rows[s].user, v, n, u, "base") = given
        /\ Taken(rows[b].user, rows[s].user, v, n, u, "quote") =
             IF u = rows[b].user THEN v ELSE 0
    BY DEF Taken, given
  <2> QED
    BY <1>6, <2>1, <2>2, <2>3
<1>28. (IF u = rows[b].user THEN v ELSE 0) = cost - gain
  <2>1. \A x, y, z \in Nat : y * z = x * z - (x - y) * z
    OBVIOUS
  <2>2. v = rows[b].price * n - (rows[b].price - t.price) * n
    BY <1>5, <1>7, <1>11, <2>1
  <2>3. CASE u = rows[b].user
    BY <1>24, <2>2, <2>3 DEF cost
  <2>4. CASE u # rows[b].user
    BY <1>24, <2>4 DEF cost
  <2> QED
    BY <2>3, <2>4
<1>29. accounts'[u]["base"].locked = Total(give2, DOMAIN R)
  BY <1>14, <1>22, <1>26, <1>27
<1>30. accounts'[u]["quote"].locked = Total(pay2, DOMAIN R) + (gain + gains)
  BY <1>14, <1>18, <1>23, <1>25, <1>26, <1>27, <1>28
<1> QED
  BY <1>25, <1>29, <1>30 DEF give2, pay2, g

-----------------------------------------------------------------------------
(***************************************************************************)
(* The invariant of the locks.                                             *)
(***************************************************************************)
LimitsGood == LimitBook /\ RowsMatch /\ SettleGood /\ LocksGood

\* A step of a handler that settles nothing and locks nothing.
LEMMA QuietHandler ==
  ASSUME HandlersGood, FillsGood, HandlersGood', FillsGood', LimitsGood,
         LimitBook', TermsKept, NEW i \in 1..Len(posts), NEW q, HandlerStep(i, q),
         AllWithin(q.unsettled, orders), rows' = rows, accounts' = accounts,
         tradeRows' = tradeRows, lost' = lost
  PROVE  LimitsGood'
<1>1. RowsMatch'
  BY RowsStillMatch DEF LimitsGood
<1>2. SettleGood'
  BY StillSettles DEF LimitsGood, SettleGood
<1>3. RowsKept
  <2>1. /\ posts \in Seq(Post) /\ DOMAIN rows \subseteq 1..Len(posts)
    BY HandlerFacts
  <2>2. /\ Len(posts') = Len(posts)
        /\ \A j \in 1..Len(posts) : posts'[j] = IF j = i THEN q ELSE posts[j]
    BY <2>1, PostReplaced DEF HandlerStep
  <2> QED
    BY <2>1, <2>2 DEF RowsKept, Same, FillsGood, HandlerStep
<1>4. LocksGood'
  BY <1>3, LocksStay DEF LimitsGood
<1> QED
  BY <1>1, <1>2, <1>4 DEF LimitsGood

\* The engine's orders are what they were.
LEMMA BookStays ==
  ASSUME HandlersGood, LimitBook, UNCHANGED allVars
  PROVE  LimitBook' /\ TermsKept /\ Len(orders') = Len(orders) /\ orders' = orders
<1>1. Len(orders) \in Nat
  BY HandlerFacts
<1> QED
  BY <1>1 DEF LimitBook, TermsKept, SameTerms, allVars, bookVars, engineVars

LEMMA GotoKeepsLimits ==
  ASSUME HandlersGood, FillsGood, HandlersGood', FillsGood', LimitsGood,
         NEW i \in 1..Len(posts), RefuseForFunds(i) \/ SubmitThrows(i) \/ Answer(i)
  PROVE  LimitsGood'
<1> DEFINE q == WithPc(posts[i], "done")
<1>1. /\ Goto(i, "done") /\ UNCHANGED allVars
      /\ UNCHANGED <<accounts, rows, tradeRows, lost>>
  BY DEF RefuseForFunds, SubmitThrows, Answer
<1>2. posts[i] \in Post /\ AllWithin(posts[i].unsettled, orders)
  BY HandlerFacts DEF LimitsGood, SettleGood
<1>3. /\ q \in Post /\ q.pc = "done" /\ q.user = posts[i].user
      /\ q.order = posts[i].order /\ q.request = posts[i].request
      /\ q.unsettled = posts[i].unsettled
  BY <1>2, PcSet DEF PostPc
<1>4. posts' = [posts EXCEPT ![i] = q]
  BY <1>1 DEF Goto, WithPc
<1> HIDE DEF q
<1>5. LimitBook' /\ TermsKept /\ Len(orders') = Len(orders)
  BY <1>1, BookStays DEF LimitsGood
<1>6. HandlerStep(i, q)
  BY <1>1, <1>3, <1>4, <1>5 DEF HandlerStep, Same
<1>7. AllWithin(q.unsettled, orders)
  BY <1>2, <1>3
<1> QED
  BY <1>1, <1>5, <1>6, <1>7, QuietHandler

LEMMA TakeKeepsLimits ==
  ASSUME HandlersGood, FillsGood, HandlersGood', FillsGood', LimitsGood,
         NEW i \in 1..Len(posts), TakeTrades(i)
  PROVE  LimitsGood'
<1> DEFINE p == posts[i]
           q == [p EXCEPT !.pc = "settling", !.unsettled = executed]
<1>1. /\ posts' = [posts EXCEPT ![i] = q] /\ UNCHANGED allVars
      /\ UNCHANGED <<accounts, rows, tradeRows, lost>>
  BY DEF TakeTrades
<1>2. p \in Post /\ executed \in Seq(Trade)
  BY HandlerFacts, EngineFacts
<1>3. /\ q \in Post /\ q.pc = "settling" /\ q.user = p.user /\ q.order = p.order
      /\ q.request = p.request /\ q.unsettled = executed
  <2> HIDE DEF p
  <2> QED
    BY <1>2 DEF Post, PostPc
<1> HIDE DEF q
<1>4. LimitBook' /\ TermsKept /\ Len(orders') = Len(orders)
  BY <1>1, BookStays DEF LimitsGood
<1>5. HandlerStep(i, q)
  BY <1>1, <1>3, <1>4 DEF HandlerStep, Same
<1>6. AllWithin(q.unsettled, orders)
  BY <1>3 DEF LimitsGood, LimitBook
<1> QED
  BY <1>1, <1>4, <1>5, <1>6, QuietHandler

LEMMA SubmitPostKeepsLimits ==
  ASSUME OnlyLimits, HandlersGood, FillsGood, HandlersGood', FillsGood', LimitsGood,
         NEW i \in 1..Len(posts), SubmitPost(i)
  PROVE  LimitsGood'
<1> DEFINE p == posts[i]
           r == [p.request EXCEPT !.price = p.orderPrice]
           q == [p EXCEPT !.pc = "matching", !.order = NewId]
<1>1. /\ p.pc = "submitting" /\ posts' = [posts EXCEPT ![i] = q]
      /\ SubmitToBook(r) \/ SubmitStop(r, p.stopPrice, p.delta)
      /\ UNCHANGED <<accounts, rows, tradeRows, lost>>
  BY DEF SubmitPost, At
<1>2. /\ p \in Post /\ PostGood(p, i, Len(orders), DOMAIN rows) /\ EngineInv
      /\ AllWithin(p.unsettled, orders) /\ Len(orders) \in Nat
  BY HandlerFacts DEF LimitsGood, SettleGood
<1>3. /\ p.request \in Request /\ p.request.type = "LIMIT"
      /\ p.orderPrice = p.request.price /\ p.orderPrice \in Nat
      /\ p.order = NoOrder /\ i \in DOMAIN rows
  BY <1>1, <1>2, PostFields, RequestFacts DEF OnlyLimits, PostGood
<1>4. /\ r \in Request /\ r.type = "LIMIT" /\ Same(r, p.request)
  <2> DEFINE x == p.request
             y == p.orderPrice
  <2>1. x \in Request /\ y \in Nat /\ y = x.price /\ x.type = "LIMIT"
    BY <1>3
  <2> HIDE DEF x, y
  <2>2. LET z == [x EXCEPT !.price = y]
        IN  /\ z \in Request /\ z.type = "LIMIT" /\ Same(z, x)
    BY <2>1 DEF Request, Same
  <2> QED
    BY <2>2 DEF x, y
<1>5. /\ q \in Post /\ q.pc = "matching" /\ q.user = p.user /\ q.order = NewId
      /\ q.request = p.request /\ q.unsettled = p.unsettled
  <2>1. NewId \in Nat
    BY <1>2 DEF NewId
  <2> HIDE DEF p
  <2> QED
    BY <1>2, <2>1 DEF Post, PostPc
<1> HIDE DEF r, q
<1>6. SubmitToBook(r)
  BY <1>1, <1>4 DEF SubmitStop, HoldStop, IsStop, CreateOrder
<1>7. /\ LimitBook' /\ TermsKept /\ Len(orders') = Len(orders) + 1
      /\ orders'[Len(orders) + 1] = CreateOrder(r)
  BY <1>2, <1>4, <1>6, SubmitKeepsLimits DEF LimitsGood
<1>8. Same(CreateOrder(r), p.request)
  BY <1>4 DEF CreateOrder, Same
<1>9. HandlerStep(i, q)
  <2>1. NewId = Len(orders) + 1
    BY DEF NewId
  <2> QED
    BY <1>1, <1>3, <1>5, <1>7, <1>8, <2>1 DEF HandlerStep, Same
<1>10. AllWithin(q.unsettled, orders)
  BY <1>2, <1>5
<1> QED
  BY <1>1, <1>7, <1>9, <1>10, QuietHandler

LEMMA LockKeepsLimits ==
  ASSUME OnlyLimits, HandlersGood, FillsGood, HandlersGood', FillsGood', LimitsGood,
         NEW i \in 1..Len(posts), LockAndInsert(i)
  PROVE  LimitsGood'
<1> DEFINE p == posts[i]
           q == WithPc(p, "submitting")
<1>1. /\ p.pc = "locking" /\ Goto(i, "submitting") /\ InsertRow(i, "OPEN")
      /\ UNCHANGED allVars /\ tradeRows' = tradeRows /\ lost' = lost
  BY DEF LockAndInsert, At
<1>2. /\ p \in Post /\ AllWithin(p.unsettled, orders) /\ posts \in Seq(Post)
      /\ PostGood(p, i, Len(orders), DOMAIN rows)
      /\ DOMAIN rows \subseteq 1..Len(posts)
      /\ AllWithin(tradeRows, orders)
  BY HandlerFacts DEF LimitsGood, SettleGood
<1>3. p.request.type = "LIMIT" /\ p.orderPrice = p.request.price
  BY <1>2, PostFields DEF OnlyLimits, PostGood
<1>4. /\ q \in Post /\ q.pc = "submitting" /\ q.user = p.user
      /\ q.order = p.order /\ q.request = p.request /\ q.unsettled = p.unsettled
  BY <1>2, PcSet DEF PostPc
<1>5. posts' = [posts EXCEPT ![i] = q]
  BY <1>1 DEF Goto, WithPc
<1>6. i \notin DOMAIN rows
  BY <1>1 DEF LimitsGood, RowsMatch
<1>7. /\ DOMAIN rows' = DOMAIN rows \union {i}
      /\ \A j \in DOMAIN rows : rows'[j] = rows[j]
      /\ rows'[i].user = p.user /\ Same(rows'[i], p.request)
  BY <1>1, <1>3, <1>6 DEF InsertRow, Same
<1> HIDE DEF p, q
<1>8. LimitBook' /\ TermsKept /\ Len(orders') = Len(orders) /\ orders' = orders
  BY <1>1, BookStays DEF LimitsGood
<1>9. HandlerStep(i, q)
  BY <1>4, <1>5, <1>7, <1>8 DEF HandlerStep, Same, p
<1>10. RowsMatch'
  BY <1>8, <1>9, RowsStillMatch DEF LimitsGood
<1>11. SettleGood'
  BY <1>1, <1>2, <1>4, <1>8, <1>9, StillSettles DEF LimitsGood
<1>12. RowsKept
  <2>1. /\ Len(posts') = Len(posts)
        /\ \A j \in 1..Len(posts) : posts'[j] = IF j = i THEN q ELSE posts[j]
    BY <1>2, <1>4, <1>5, PostReplaced
  <2> QED
    BY <1>2, <1>4, <1>7, <2>1 DEF RowsKept, Same, FillsGood, p
<1>13. LocksGood'
  BY <1>12, LockKeepsLocks DEF LimitsGood
<1> QED
  BY <1>8, <1>10, <1>11, <1>13 DEF LimitsGood

LEMMA SettleKeepsLimits ==
  ASSUME OnlyLimits, HandlersGood, FillsGood, HandlersGood', FillsGood', LimitsGood,
         NEW i \in 1..Len(posts), Settle(i)
  PROVE  LimitsGood'
<1>1. /\ RowsKept
      /\ \E q : HandlerStep(i, q) /\ AllWithin(q.unsettled, orders)
      /\ AllWithin(tradeRows', orders) /\ lost' = lost /\ orders' = orders
  BY SettleMoves DEF LimitsGood
<1>2. PICK q : HandlerStep(i, q) /\ AllWithin(q.unsettled, orders)
  BY <1>1
<1>3. UNCHANGED allVars
  BY DEF Settle
<1>4. LimitBook' /\ TermsKept
  BY <1>3, BookStays DEF LimitsGood
<1>5. RowsMatch'
  BY <1>2, <1>4, RowsStillMatch DEF LimitsGood
<1>6. SettleGood'
  BY <1>1, <1>2, <1>4, StillSettles DEF LimitsGood
<1>7. LocksGood'
  BY <1>1, SettleKeepsLocks DEF LimitsGood
<1> QED
  BY <1>4, <1>5, <1>6, <1>7 DEF LimitsGood

\* Stops, refused settlements and cancelled orders do not occur.
LEMMA OtherStepsDoNotOccur ==
  ASSUME OnlyLimits, HandlersGood, FillsGood, LimitsGood, NEW i \in 1..Len(posts)
  PROVE  /\ ~ InsertStop(i) /\ ~ SettleFails(i) /\ ~ MarkCancelled(i)
         /\ ~ UnlockRemainder(i)
<1>1. /\ posts[i] \in Post /\ PostGood(posts[i], i, Len(orders), DOMAIN rows)
      /\ Len(orders) \in Nat
  BY HandlerFacts
<1>2. ~ InsertStop(i)
  BY <1>1, PostFields DEF InsertStop, IsStop, OnlyLimits
<1>3. ~ SettleFails(i)
  BY NextSettles DEF SettleFails, LimitsGood
<1>4. ~ MarkCancelled(i)
  <2>1. ASSUME posts[i].pc = "settling" PROVE posts[i].order \in 1..Len(orders)
    BY <1>1, <2>1 DEF PostGood, NoOrder
  <2> QED
    BY <2>1 DEF MarkCancelled, At, LiveOrder, LimitsGood, LimitBook
<1>5. ~ UnlockRemainder(i)
  BY DEF UnlockRemainder, At, LimitsGood, SettleGood
<1> QED
  BY <1>2, <1>3, <1>4, <1>5

LEMMA ReceiveKeepsLimits ==
  ASSUME HandlersGood, FillsGood, HandlersGood', FillsGood', LimitsGood,
         NEW user \in Users, NEW r \in Requests, NEW stop \in StopPrices,
         NEW delta \in Deltas, ReceivePost(user, r, stop, delta)
  PROVE  LimitsGood'
<1>0. PICK p \in Post : Received(p, r) /\ posts' = Append(posts, p)
  BY ReceivedPost DEF HandlersGood
<1>1. /\ posts' = Append(posts, p) /\ UNCHANGED allVars
      /\ UNCHANGED <<accounts, rows, tradeRows, lost>>
  BY <1>0 DEF ReceivePost
<1>2. /\ posts \in Seq(Post) /\ Len(posts) \in Nat /\ EngineInv
      /\ DOMAIN rows \subseteq 1..Len(posts)
  BY HandlerFacts
<1>3. p \in Post
  BY <1>0
<1>4. p.pc = "locking" /\ p.order = NoOrder /\ p.unsettled = << >>
  BY <1>0 DEF Received
<1>5. /\ Len(posts') = Len(posts) + 1
      /\ \A j \in 1..Len(posts) : posts'[j] = posts[j]
      /\ posts'[Len(posts) + 1] = p
  BY <1>1, <1>2, <1>3, AppendProperties
<1>6. \A j \in 1..Len(posts') : j \in 1..Len(posts) \/ j = Len(posts) + 1
  BY <1>2, <1>5
<1>7. LimitBook' /\ orders' = orders
  BY <1>1, BookStays DEF LimitsGood
<1>8. RowsMatch'
  <2>1. \A j \in DOMAIN rows' :
          /\ posts'[j].pc # "locking" /\ rows'[j].user = posts'[j].user
          /\ Same(rows'[j], posts'[j].request)
    BY <1>1, <1>2, <1>5 DEF LimitsGood, RowsMatch
  <2>2. \A j \in 1..Len(posts') :
          posts'[j].order # NoOrder => Same(orders'[posts'[j].order], posts'[j].request)
    BY <1>4, <1>5, <1>6, <1>7 DEF LimitsGood, RowsMatch
  <2>3. \A id \in 1..Len(orders') : \E j \in DOMAIN rows' : posts'[j].order = id
    BY <1>1, <1>2, <1>5, <1>7 DEF LimitsGood, RowsMatch
  <2> QED
    BY <2>1, <2>2, <2>3 DEF RowsMatch
<1>9. SettleGood'
  <2>1. \A j \in 1..Len(posts') :
          posts'[j].pc # "unlocking" /\ AllWithin(posts'[j].unsettled, orders)
    BY <1>4, <1>5, <1>6, WithinNone DEF LimitsGood, SettleGood
  <2> QED
    BY <1>1, <1>7, <2>1 DEF LimitsGood, SettleGood
<1>10. RowsKept
  BY <1>1, <1>2, <1>5 DEF RowsKept, Same, FillsGood
<1>11. LocksGood'
  BY <1>1, <1>10, LocksStay DEF LimitsGood
<1> QED
  BY <1>7, <1>8, <1>9, <1>11 DEF LimitsGood

LEMMA EngineWorkKeepsLimits ==
  ASSUME HandlersGood, FillsGood, FillsGood', LimitsGood, EngineWork
  PROVE  LimitsGood'
<1>1. Work /\ posts' = posts /\ UNCHANGED <<accounts, rows, tradeRows, lost>>
  BY DEF EngineWork, gatewayVars
<1>2. EngineInv /\ DOMAIN rows \subseteq 1..Len(posts) /\ Len(orders) \in Nat
      /\ \A j \in 1..Len(posts) : posts[j].order \in 0..Len(orders)
  BY HandlerFacts DEF PostGood
<1>3. LimitBook' /\ TermsKept /\ Len(orders') = Len(orders)
  BY <1>1, <1>2, WorkKeepsLimits DEF LimitsStay, LimitsGood
<1>4. RowsMatch'
  <2>1. ASSUME NEW j \in 1..Len(posts), posts[j].order # NoOrder
        PROVE  Same(orders'[posts[j].order], posts[j].request)
    <3>1. posts[j].order \in 1..Len(orders)
      BY <1>2, <2>1 DEF NoOrder
    <3> QED
      BY <1>3, <2>1, <3>1 DEF TermsKept, SameTerms, Same, LimitsGood, RowsMatch
  <2> QED
    BY <1>1, <1>3, <2>1 DEF LimitsGood, RowsMatch
<1>5. SettleGood'
  <2>1. ASSUME NEW list PROVE AllWithin(list, orders) => AllWithin(list, orders')
    BY <1>3, WithinKept
  <2>2. ASSUME NEW j \in 1..Len(posts) PROVE AllWithin(posts[j].unsettled, orders')
    <3>1. PICK list : list = posts[j].unsettled
      OBVIOUS
    <3> QED
      BY <2>1, <3>1 DEF LimitsGood, SettleGood
  <2>3. AllWithin(tradeRows, orders')
    BY <2>1 DEF LimitsGood, SettleGood
  <2> QED
    BY <1>1, <2>2, <2>3 DEF LimitsGood, SettleGood
<1>6. RowsKept
  BY <1>1, <1>2 DEF RowsKept, Same, FillsGood
<1>7. LocksGood'
  BY <1>1, <1>6, LocksStay DEF LimitsGood
<1> QED
  BY <1>3, <1>4, <1>5, <1>7 DEF LimitsGood

LEMMA LimitsInit ==
  ASSUME GatewayInit
  PROVE  LimitsGood
<1>1. /\ orders = << >> /\ posts = << >> /\ rows = << >> /\ tradeRows = << >>
      /\ lost = << >> /\ trades = << >> /\ executed = << >>
      /\ accounts = [u \in Users |-> [c \in Currency |->
                       [available |-> Initial[c], locked |-> 0]]]
  BY DEF GatewayInit, EngineInit, Init
<1>2. Len(<< >>) = 0 /\ 1..0 = {} /\ DOMAIN << >> = {}
  OBVIOUS
<1>3. LimitBook /\ RowsMatch /\ SettleGood
  BY <1>1, <1>2, WithinNone DEF LimitBook, RowsMatch, SettleGood
<1>4. ASSUME NEW u \in Users
      PROVE  accounts[u]["base"].locked = 0 /\ accounts[u]["quote"].locked = 0
  <2>1. "base" \in Currency /\ "quote" \in Currency
    BY DEF Currency
  <2> QED
    BY <1>1, <2>1
<1>5. DOMAIN rows = {} /\ 1..Len(tradeRows) = {}
  BY <1>1, <1>2
<1>6. \A f : Total(f, {}) = 0
  BY TotalEmpty
<1>7. 0 = 0 + 0
  OBVIOUS
<1>8. LocksGood
  BY <1>4, <1>5, <1>6, <1>7 DEF LocksGood
<1> QED
  BY <1>3, <1>8 DEF LimitsGood

\* A handler keeps its request, and a DELETE that has begun has begun.
LEMMA OnlyLimitsSoFar ==
  ASSUME HandlersGood, [GatewayNext]_systemVars, OnlyLimits'
  PROVE  OnlyLimits
<1>1. /\ posts \in Seq(Post) /\ Len(posts) \in Nat
      /\ \A i \in 1..Len(posts) : posts[i] \in Post
      /\ deletes \in [Deletes -> Delete]
  BY HandlerFacts
<1> DEFINE Kept == /\ \A i \in 1..Len(posts) : /\ i \in 1..Len(posts')
                                               /\ posts'[i].request = posts[i].request
                   /\ \A d \in Deletes : deletes[d].pc = "idle" \/ deletes'[d].pc # "idle"
<1>2. ASSUME posts' = posts, deletes' = deletes PROVE Kept
  BY <1>1, <1>2
<1>3. ASSUME NEW i \in 1..Len(posts), PostStep(i) PROVE Kept
  <2>1. deletes' = deletes
    BY <1>3
       DEF PostStep, RefuseForFunds, LockAndInsert, InsertStop, SubmitThrows, SubmitPost,
           TakeTrades, Settle, SettleFails, Answer, MarkCancelled, UnlockRemainder
  <2>2. /\ \A pc : [posts[i] EXCEPT !.pc = pc].request = posts[i].request
        /\ \A pc, id : [posts[i] EXCEPT !.pc = pc, !.order = id].request
                         = posts[i].request
        /\ \A pc, list : [posts[i] EXCEPT !.pc = pc, !.unsettled = list].request
                           = posts[i].request
        /\ \A list : [posts[i] EXCEPT !.unsettled = list].request = posts[i].request
    BY <1>1 DEF Post
  <2>3. \E q : posts' = [posts EXCEPT ![i] = q] /\ q.request = posts[i].request
    <3>1. CASE \E pc \in PostPc : Goto(i, pc)
      BY <2>2, <3>1 DEF Goto
    <3>2. CASE SubmitPost(i)
      <4> DEFINE q == [posts[i] EXCEPT !.pc = "matching", !.order = NewId]
      <4>1. posts' = [posts EXCEPT ![i] = q]
        BY <3>2 DEF SubmitPost
      <4>2. q.request = posts[i].request
        BY <2>2
      <4> HIDE DEF q
      <4> QED
        BY <4>1, <4>2
    <3>3. CASE TakeTrades(i)
      <4> DEFINE q == [posts[i] EXCEPT !.pc = "settling", !.unsettled = executed]
      <4>1. posts' = [posts EXCEPT ![i] = q]
        BY <3>3 DEF TakeTrades
      <4>2. q.request = posts[i].request
        BY <2>2
      <4> HIDE DEF q
      <4> QED
        BY <4>1, <4>2
    <3>4. CASE Settle(i) \/ SettleFails(i)
      BY <2>2, <3>4 DEF Settle, SettleFails
    <3> QED
      BY <1>3, <3>1, <3>2, <3>3, <3>4
         DEF PostStep, RefuseForFunds, LockAndInsert, InsertStop, SubmitThrows, Answer,
             MarkCancelled, UnlockRemainder, PostPc
  <2> QED
    BY <1>1, <2>1, <2>3
<1>4. ASSUME NEW d \in Deletes, DeleteStep(d) \/ \E i \in DOMAIN rows : ReadRow(d, i)
      PROVE  Kept
  <2>1. posts' = posts
    BY <1>4 DEF DeleteStep, CancelThrows, CancelInEngine, UnlockDeleted,
                UnlockDeletedFails, MarkDeleted, ReadRow
  <2>2. deletes[d] \in Delete
    BY <1>1
  <2>3. \E e : deletes' = [deletes EXCEPT ![d] = e] /\ e.pc # "idle"
    <3>1. \A pc : [deletes[d] EXCEPT !.pc = pc].pc = pc
      BY <2>2 DEF Delete
    <3>2. CASE \E pc \in DeletePc \ {"idle"} : DeleteGoto(d, pc)
      BY <3>1, <3>2 DEF DeleteGoto
    <3>3. CASE \E i \in DOMAIN rows : ReadRow(d, i)
      <4>1. PICK i \in DOMAIN rows : ReadRow(d, i)
        BY <3>3
      <4> DEFINE e == [pc |-> "cancelling", row |-> i,
                       remaining |-> rows[i].quantity - rows[i].filled]
      <4>2. deletes' = [deletes EXCEPT ![d] = e] /\ e.pc # "idle"
        BY <4>1 DEF ReadRow
      <4> HIDE DEF e
      <4> QED
        BY <4>2
    <3> QED
      BY <1>4, <3>2, <3>3
         DEF DeleteStep, CancelThrows, CancelInEngine, UnlockDeleted,
             UnlockDeletedFails, MarkDeleted, DeletePc
  <2> QED
    BY <1>1, <2>1, <2>3
<1>5. ASSUME NEW user \in Users, NEW r \in Requests, NEW stop \in StopPrices,
             NEW delta \in Deltas, ReceivePost(user, r, stop, delta)
      PROVE  Kept
  <2>1. PICK p \in Post : posts' = Append(posts, p)
    BY <1>5, ReceivedPost DEF HandlersGood
  <2>2. /\ Len(posts') = Len(posts) + 1
        /\ \A j \in 1..Len(posts) : posts'[j] = posts[j]
    BY <1>1, <2>1, AppendProperties
  <2>3. deletes' = deletes
    BY <1>5 DEF ReceivePost
  <2> QED
    BY <1>1, <2>2, <2>3
<1>6. Kept
  <2>1. EngineWork \/ UNCHANGED systemVars => posts' = posts /\ deletes' = deletes
    BY DEF EngineWork, systemVars, gatewayVars
  <2> HIDE DEF Kept
  <2> QED
    BY <1>2, <1>3, <1>4, <1>5, <2>1 DEF GatewayNext, Arrive
<1> QED
  BY <1>6 DEF OnlyLimits

LEMMA LimitsStep ==
  ASSUME OnlyLimits, OnlyLimits', HandlersGood, FillsGood, HandlersGood', FillsGood',
         LimitsGood, [GatewayNext]_systemVars
  PROVE  LimitsGood'
<1>0. ASSUME NEW d \in Deletes
      PROVE  ~ DeleteStep(d) /\ ~ \E i \in DOMAIN rows : ReadRow(d, i)
  <2>1. ~ DeleteStep(d)
    BY DEF OnlyLimits, DeleteStep, CancelThrows, CancelInEngine, UnlockDeleted,
           UnlockDeletedFails, MarkDeleted, DeleteAt
  <2>2. deletes \in [Deletes -> Delete]
    BY HandlerFacts
  <2>3. ASSUME NEW i \in DOMAIN rows, ReadRow(d, i) PROVE deletes'[d].pc # "idle"
    BY <2>2, <2>3 DEF ReadRow
  <2> QED
    BY <2>1, <2>3 DEF OnlyLimits
<1>1. CASE Arrive
  BY <1>0, <1>1, ReceiveKeepsLimits DEF Arrive
<1>2. CASE EngineWork
  BY <1>2, EngineWorkKeepsLimits
<1>3. CASE \E i \in 1..Len(posts) : PostStep(i)
  <2>1. PICK i \in 1..Len(posts) : PostStep(i)
    BY <1>3
  <2>2. \/ RefuseForFunds(i) \/ LockAndInsert(i) \/ SubmitThrows(i)
        \/ SubmitPost(i) \/ TakeTrades(i) \/ Settle(i) \/ Answer(i)
    BY <2>1, OtherStepsDoNotOccur DEF PostStep
  <2> QED
    BY <2>2, GotoKeepsLimits, LockKeepsLimits, SubmitPostKeepsLimits,
       TakeKeepsLimits, SettleKeepsLimits
<1>4. CASE UNCHANGED systemVars
  <2>1. /\ orders' = orders /\ posts' = posts /\ rows' = rows
        /\ accounts' = accounts /\ tradeRows' = tradeRows /\ lost' = lost
        /\ trades' = trades /\ executed' = executed
    BY <1>4 DEF systemVars, allVars, bookVars, engineVars, gatewayVars
  <2> QED
    BY <2>1 DEF LimitsGood, LimitBook, RowsMatch, SettleGood, LocksGood
<1> QED
  BY <1>0, <1>1, <1>2, <1>3, <1>4 DEF GatewayNext

LEMMA LimitsInvariance == GatewaySpec => [](OnlyLimits => LimitsGood)
<1>1. GatewayInit => (OnlyLimits => LimitsGood)
  BY LimitsInit
<1>2. /\ HandlersGood /\ HandlersGood' /\ FillsGood /\ FillsGood'
      /\ (OnlyLimits => LimitsGood) /\ [GatewayNext]_systemVars
      => (OnlyLimits => LimitsGood)'
  <2> SUFFICES ASSUME HandlersGood, HandlersGood', FillsGood, FillsGood',
                      OnlyLimits => LimitsGood, [GatewayNext]_systemVars, OnlyLimits'
               PROVE  LimitsGood'
    OBVIOUS
  <2>1. OnlyLimits
    BY OnlyLimitsSoFar
  <2> QED
    BY <2>1, LimitsStep
<1> QED
  BY <1>1, <1>2, GatewaySteps, FillsInit, FillsStep, HandlersInvariance, PTL

\* Until somebody asks for something else than a LIMIT order, or for a
\* cancellation, no settlement of a trade the engine has made is refused by the
\* database, whatever the users ask for and however their handlers interleave.
THEOREM EveryLimitMatchSettles == GatewaySpec => []LimitMatchesSettle
<1>1. (OnlyLimits => LimitsGood) => LimitMatchesSettle
  BY DEF LimitsGood, SettleGood, LimitMatchesSettle
<1> QED
  BY <1>1, LimitsInvariance, PTL

-----------------------------------------------------------------------------
(***************************************************************************)
(* What is locked beyond the commitments, in the words of the tables.      *)
(***************************************************************************)

\* Terms that are zero may be left out.
LEMMA TotalOfMost ==
  ASSUME NEW D, IsFiniteSet(D), NEW f, \A x \in D : f[x] \in Int, NEW S \in SUBSET D,
         \A x \in D \ S : f[x] = 0
  PROVE  Total(f, D) = Total(f, S)
<1> DEFINE T == D \ S
<1>1. /\ IsFiniteSet(S) /\ IsFiniteSet(T) /\ S \cap T = {} /\ S \union T = D
      /\ \A x \in S \union T : f[x] \in Int
      /\ \A x \in S : f[x] \in Int
      /\ \A x \in T : f[x] = 0
  BY FS_Subset
<1> HIDE DEF T
<1>2. Total(f, S \union T) = Total(f, S) + Total(f, T)
  BY <1>1, TotalUnion
<1>3. Total(f, T) = 0 /\ Total(f, S) \in Int
  BY <1>1, TotalOfZeros, TotalType
<1>4. Total(f, D) = Total(f, S) + Total(f, T)
  BY <1>1, <1>2
<1> QED
  BY <1>3, <1>4

LEMMA UnfilledIsTotal ==
  ASSUME HandlersGood, FillsGood, RowsMatch, NEW u
  PROVE  SumOf(Unfilled, RowsOf(u, "SELL")) = Total(AllToGive(rows, u), DOMAIN rows)
<1> DEFINE D == DOMAIN rows
           S == RowsOf(u, "SELL")
           f == AllToGive(rows, u)
           P(h) == h = [T \in SUBSET S |->
                          IF T = {} THEN 0
                          ELSE h[T \ {CHOOSE x \in T : TRUE}]
                                 + Unfilled(CHOOSE x \in T : TRUE)]
<1>1. /\ IsFiniteSet(D) /\ S \in SUBSET D
      /\ \A x \in D : f[x] = ToGive(rows[x], u) /\ f[x] \in Nat
  BY RowSumFacts DEF RowsOf
<1>2. /\ \A x \in S : f[x] = Unfilled(x)
      /\ \A x \in D \ S : f[x] = 0
  BY <1>1 DEF RowsOf, ToGive, Unfilled
<1>3. SumOf(Unfilled, S) = (CHOOSE h : P(h))[S]
  BY DEF SumOf, FoldSet, MapThenFoldSet
<1> HIDE DEF D, S, f
<1>4. ASSUME NEW h PROVE P(h) <=> SumsByChoice(h, f, S)
  <2>1. \A T \in SUBSET S :
          T # {} => f[CHOOSE x \in T : TRUE] = Unfilled(CHOOSE x \in T : TRUE)
    BY <1>2
  <2> QED
    BY <2>1 DEF SumsByChoice
<1>5. IsFiniteSet(S) /\ \A x \in S : f[x] \in Int
  BY <1>1, FS_Subset
<1> HIDE DEF P
<1>6. SumsByChoice(CHOOSE h : P(h), f, S)
  BY <1>4, <1>5, SumByChoice
<1>7. SumOf(Unfilled, S) = Total(f, S)
  BY <1>3, <1>5, <1>6, SumByChoice
<1>8. Total(f, D) = Total(f, S)
  BY <1>1, <1>2, TotalOfMost
<1> QED
  BY <1>7, <1>8 DEF D, S, f

CostOfRows(u) == SumOf(LAMBDA i : rows[i].price * Unfilled(i), RowsOf(u, "BUY"))

LEMMA CostIsTotal ==
  ASSUME HandlersGood, FillsGood, RowsMatch, NEW u
  PROVE  CostOfRows(u) = Total(AllToPay(rows, u), DOMAIN rows)
<1> DEFINE D == DOMAIN rows
           S == RowsOf(u, "BUY")
           f == AllToPay(rows, u)
           P(h) == h = [T \in SUBSET S |->
                          IF T = {} THEN 0
                          ELSE h[T \ {CHOOSE x \in T : TRUE}]
                                 + rows[CHOOSE x \in T : TRUE].price
                                     * Unfilled(CHOOSE x \in T : TRUE)]
<1>1. /\ IsFiniteSet(D) /\ S \in SUBSET D
      /\ \A x \in D : f[x] = ToPay(rows[x], u) /\ f[x] \in Nat
  BY RowSumFacts DEF RowsOf
<1>2. /\ \A x \in S : f[x] = rows[x].price * Unfilled(x)
      /\ \A x \in D \ S : f[x] = 0
  BY <1>1 DEF RowsOf, ToPay, Unfilled
<1>3. CostOfRows(u) = (CHOOSE h : P(h))[S]
  BY DEF CostOfRows, SumOf, FoldSet, MapThenFoldSet
<1> HIDE DEF D, S, f
<1>4. ASSUME NEW h PROVE P(h) <=> SumsByChoice(h, f, S)
  <2>1. \A T \in SUBSET S :
          T # {} => f[CHOOSE x \in T : TRUE] =
                      rows[CHOOSE x \in T : TRUE].price
                        * Unfilled(CHOOSE x \in T : TRUE)
    BY <1>2
  <2> QED
    BY <2>1 DEF SumsByChoice
<1>5. IsFiniteSet(S) /\ \A x \in S : f[x] \in Int
  BY <1>1, FS_Subset
<1> HIDE DEF P
<1>6. SumsByChoice(CHOOSE h : P(h), f, S)
  BY <1>4, <1>5, SumByChoice
<1>7. CostOfRows(u) = Total(f, S)
  BY <1>3, <1>5, <1>6, SumByChoice
<1>8. Total(f, D) = Total(f, S)
  BY <1>1, <1>2, TotalOfMost
<1> QED
  BY <1>7, <1>8 DEF D, S, f

\* What u has paid less than the prices of its orders allowed.
Improvement(u) ==
  SumOf(LAMBDA k : LET t == tradeRows[k]
                   IN  (rows[RowOf(t.buyOrderId)].price - t.price) * t.quantity,
        {k \in 1..Len(tradeRows) : Buyer(tradeRows[k]) = u})

LEMMA ImprovementIsTotal ==
  ASSUME HandlersGood, FillsGood, RowsMatch, SettleGood, NEW u
  PROVE  Improvement(u) = Total(Gains(tradeRows, rows, posts, u), 1..Len(tradeRows))
<1> DEFINE D == 1..Len(tradeRows)
           S == {k \in 1..Len(tradeRows) : Buyer(tradeRows[k]) = u}
           f == Gains(tradeRows, rows, posts, u)
           saved(k) == (rows[RowOf(tradeRows[k].buyOrderId)].price - tradeRows[k].price)
                         * tradeRows[k].quantity
           P(h) == h = [T \in SUBSET S |->
                          IF T = {} THEN 0
                          ELSE h[T \ {CHOOSE x \in T : TRUE}]
                                 + saved(CHOOSE x \in T : TRUE)]
<1>1. tradeRows \in Seq(Trade) /\ AllWithin(tradeRows, orders)
  BY HandlerFacts DEF SettleGood
<1>2. /\ IsFiniteSet(D) /\ S \in SUBSET D
      /\ \A k \in D : f[k] = Gain(tradeRows[k], rows, posts, u) /\ f[k] \in Nat
  BY <1>1, GainsFacts
<1>3. /\ \A k \in S : f[k] = saved(k)
      /\ \A k \in D \ S : f[k] = 0
  BY <1>2 DEF Gain, OwnerRow, Buyer, RowOf
<1>4. Improvement(u) = (CHOOSE h : P(h))[S]
  BY DEF Improvement, SumOf, FoldSet, MapThenFoldSet
<1> HIDE DEF D, S, f, saved
<1>5. ASSUME NEW h PROVE P(h) <=> SumsByChoice(h, f, S)
  <2>1. \A T \in SUBSET S :
          T # {} => f[CHOOSE x \in T : TRUE] = saved(CHOOSE x \in T : TRUE)
    BY <1>3
  <2> QED
    BY <2>1 DEF SumsByChoice
<1>6. IsFiniteSet(S) /\ \A x \in S : f[x] \in Int
  BY <1>2, FS_Subset
<1> HIDE DEF P
<1>7. SumsByChoice(CHOOSE h : P(h), f, S)
  BY <1>5, <1>6, SumByChoice
<1>8. Improvement(u) = Total(f, S)
  BY <1>4, <1>6, <1>7, SumByChoice
<1>9. Total(f, D) = Total(f, S)
  BY <1>2, <1>3, TotalOfMost
<1> QED
  BY <1>8, <1>9 DEF D, f

\* As LocksMatchCommitments, at every moment and with what that property finds
\* in excess: an account has locked what its orders may still cost, and what its
\* purchases so far have cost less than their limit.
SurplusIsImprovement ==
  \A u \in Users :
    /\ accounts[u]["base"].locked = SumOf(Unfilled, RowsOf(u, "SELL"))
    /\ accounts[u]["quote"].locked = CostOfRows(u) + Improvement(u)

\* Until somebody asks for something else than a LIMIT order, or for a
\* cancellation, the funds of an order are neither locked twice nor given back
\* early; what an account has locked beyond its commitments is the price
\* improvement of all its purchases, to the unit: no settlement gives it back.
THEOREM SurplusIsTheImprovement == GatewaySpec => [](OnlyLimits => SurplusIsImprovement)
<1>1. ASSUME HandlersGood, FillsGood, LimitsGood PROVE SurplusIsImprovement
  <2> SUFFICES ASSUME NEW u \in Users
               PROVE  /\ accounts[u]["base"].locked =
                           SumOf(Unfilled, RowsOf(u, "SELL"))
                      /\ accounts[u]["quote"].locked = CostOfRows(u) + Improvement(u)
    BY DEF SurplusIsImprovement
  <2>1. /\ SumOf(Unfilled, RowsOf(u, "SELL")) =
             Total(AllToGive(rows, u), DOMAIN rows)
        /\ CostOfRows(u) = Total(AllToPay(rows, u), DOMAIN rows)
        /\ Improvement(u) =
             Total(Gains(tradeRows, rows, posts, u), 1..Len(tradeRows))
    BY <1>1, UnfilledIsTotal, CostIsTotal, ImprovementIsTotal DEF LimitsGood
  <2> QED
    BY <1>1, <2>1 DEF LimitsGood, LocksGood
<1>2. /\ HandlersGood /\ FillsGood /\ (OnlyLimits => LimitsGood)
      => (OnlyLimits => SurplusIsImprovement)
  BY <1>1
<1> QED
  BY <1>2, GatewaySteps, FillsInit, FillsStep, HandlersInvariance,
     LimitsInvariance, PTL
=============================================================================
