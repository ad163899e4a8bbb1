------------------------------ MODULE LiveFeed ------------------------------
(***************************************************************************)
(* The market data feed from end to end: the replay session and the engine *)
(* broadcast through WebSocketServer to a page that runs the useWebSocket  *)
(* hook (packages/frontend/src/stores/useWebSocket.ts) and keeps its tape  *)
(* in useTradeStore, which RecentTrades fills from the stored trades.      *)
(*                                                                         *)
(* A socket has the state that the page sees, the user and the symbol that *)
(* its closure captured, one queue each way, and `cut` once the connection *)
(* is lost; each end learns of that on its own.  A CLOSED socket is gone.  *)
(* Of the timeouts of the hook, `armed` says whether the one in            *)
(* reconnectTimeoutRef is pending, and `unheld` counts the pending ones    *)
(* whose handle was overwritten.  A broadcast is known by its number.      *)
(*                                                                         *)
(* The sockets make chains: one that is opened when the one before it is   *)
(* closed, or closing, carries on its chain, and one that a timeout opens  *)
(* beside a socket that still connects begins another.  A trade on the     *)
(* tape says over which chain it came, or that it was fetched.             *)
(***************************************************************************)
EXTENDS ReplayService, WebSocketServer

CONSTANTS Users,        \* who may be signed in at the page; "" is nobody
          TapeLength,   \* 50 in useTradeStore
          Budgets       \* bounds, one of them for a behaviour: how many calls of the replay
                        \* API, engine trades, page changes and lost connections it has

ASSUME FeedAssumption ==
  /\ "" \in Users /\ TapeLength \in Nat \ {0}
  /\ Budgets \subseteq [calls: Nat, trades: Nat, changes: Nat, cuts: Nat]

VARIABLES sockets, wsRef, armed, unheld, userId, selectedSymbol, recentTrades,
          fetching,     \* the fetch whose answer still counts: how many trades were
                        \* stored when it was made
          stored,       \* the trades of the engine by symbol, in order
          broadcasts,   \* history: how many trades were broadcast
          chain,        \* history: how many chains of sockets there are; wsRef is of the last
          left          \* what is left of the budget

hookVars == <<sockets, wsRef, armed, unheld, chain>>
pageVars == <<userId, selectedSymbol>>
tapeVars == <<recentTrades, fetching, stored, broadcasts>>
feedVars == <<replayVars, clients, hookVars, pageVars, tapeVars, left>>

SocketState == {"CONNECTING", "OPEN", "CLOSING"}
Message == [type: {"authenticate", "subscribe"}, data: Users \cup Symbols]
Fetched == 0    \* the chain of a trade that came with a fetch

StateOf(c) == IF c \in DOMAIN sockets THEN sockets[c].state ELSE "CLOSED"

Fresh(used) == CHOOSE n \in 1..(Cardinality(used) + 1) : n \notin used

-----------------------------------------------------------------------------
(* The hook.                                                               *)

NewSocket(user, symbolOf, chainOf) ==
  [state |-> "CONNECTING", userId |-> user, symbol |-> symbolOf,
   up |-> << >>, down |-> << >>, cut |-> FALSE, chain |-> chainOf]

\* connect(): wsRef.current becomes a new socket.
OpenSocket(ss, user, symbolOf, chainOf) ==
  LET c == Fresh(DOMAIN ss \cup DOMAIN clients \cup {wsRef})
  IN  /\ sockets' = [d \in DOMAIN ss \cup {c} |->
                       IF d = c THEN NewSocket(user, symbolOf, chainOf) ELSE ss[d]]
      /\ wsRef' = c
      /\ chain' = chainOf

\* The chain of the socket that a timeout opens.
ChainFor == IF StateOf(wsRef) = "CONNECTING" THEN chain + 1 ELSE chain

\* Mutant: a latest-value closure that is never refreshed keeps its first symbol.
ReconnectStale ==
  /\ \/ armed /\ armed' = FALSE /\ UNCHANGED unheld
     \/ unheld > 0 /\ unheld' = unheld - 1 /\ UNCHANGED armed
  /\ IF StateOf(wsRef) = "OPEN"
     THEN UNCHANGED <<sockets, wsRef, chain>>
     ELSE OpenSocket(sockets, userId, CHOOSE s \in Symbols : TRUE, ChainFor)
  /\ UNCHANGED <<replayVars, clients, pageVars, tapeVars, left>>

\* The timeout that onclose set: connectRef.current(), the connect of the last render.
Reconnect ==
  /\ \/ armed /\ armed' = FALSE /\ UNCHANGED unheld
     \/ unheld > 0 /\ unheld' = unheld - 1 /\ UNCHANGED armed
  /\ IF StateOf(wsRef) = "OPEN"
     THEN UNCHANGED <<sockets, wsRef, chain>>
     ELSE OpenSocket(sockets, userId, selectedSymbol, ChainFor)
  /\ UNCHANGED <<replayVars, clients, pageVars, tapeVars, left>>

\* The effect of RecentTrades on a new symbol: the answer of the fetch before, if it is
\* still to come, will be dropped.
Refetch(symbolOf) ==
  fetching' = IF symbolOf = selectedSymbol THEN fetching ELSE <<Len(stored[symbolOf])>>

\* Mutant: the cleanup of the effect forgets wsRef.current?.close().
RerenderNoClose(user, symbolOf) ==
  /\ <<user, symbolOf>> # <<userId, selectedSymbol>>
  /\ userId' = user /\ selectedSymbol' = symbolOf
  /\ armed' = FALSE
  /\ Refetch(symbolOf)
  /\ IF StateOf(wsRef) = "OPEN"
     THEN UNCHANGED <<sockets, wsRef, chain>>
     ELSE OpenSocket(sockets, user, symbolOf, chain)
  /\ UNCHANGED <<replayVars, clients, unheld, recentTrades, stored, broadcasts>>

\* The user signs in or out, or selects a symbol: the cleanup clears the timeout it
\* knows and closes the socket, and the effect connects anew in the same commit.
Rerender(user, symbolOf) ==
  /\ <<user, symbolOf>> # <<userId, selectedSymbol>>
  /\ userId' = user /\ selectedSymbol' = symbolOf
  /\ armed' = FALSE
  /\ Refetch(symbolOf)
  /\ OpenSocket([c \in DOMAIN sockets |->
                   IF c = wsRef THEN [sockets[c] EXCEPT !.state = "CLOSING"] ELSE sockets[c]],
                user, symbolOf, chain)
  /\ UNCHANGED <<replayVars, clients, unheld, recentTrades, stored, broadcasts>>

\* onopen: authenticate and subscribe with what the closure captured.
Opened(c) ==
  /\ sockets[c].state = "CONNECTING" /\ ~sockets[c].cut /\ c \in DOMAIN clients
  /\ sockets' = [sockets EXCEPT ![c].state = "OPEN", ![c].up =
       (IF sockets[c].userId = "" THEN << >>
        ELSE <<[type |-> "authenticate", data |-> sockets[c].userId]>>)
       \o <<[type |-> "subscribe", data |-> sockets[c].symbol]>>]
  /\ UNCHANGED <<replayVars, clients, wsRef, armed, unheld, chain, pageVars, tapeVars, left>>

\* onclose (and onerror, whose close() leads to it): reconnect in two seconds.
Closed(c) ==
  /\ sockets[c].cut \/ (sockets[c].state = "CLOSING" /\ c \notin DOMAIN clients)
  /\ sockets' = Restrict(sockets, DOMAIN sockets \ {c})
  /\ armed' = TRUE
  /\ unheld' = unheld + (IF armed THEN 1 ELSE 0)
  /\ UNCHANGED <<replayVars, clients, wsRef, chain, pageVars, tapeVars, left>>

\* Mutant: addTrade without its slice.
AddTradeUncut(trade) == recentTrades' = <<trade>> \o recentTrades

AddTrade(trade) ==
  LET list == <<trade>> \o recentTrades
  IN  recentTrades' = IF Len(list) > TapeLength THEN SubSeq(list, 1, TapeLength) ELSE list

\* onmessage; a socket that was told to close delivers no more.
PageReceives(c) ==
  /\ sockets[c].down # << >> /\ ~sockets[c].cut
  /\ sockets' = [sockets EXCEPT ![c].down = Tail(@)]
  /\ IF sockets[c].state = "OPEN"
     THEN AddTrade([n |-> Head(sockets[c].down), chain |-> sockets[c].chain])
     ELSE UNCHANGED recentTrades
  /\ UNCHANGED <<replayVars, clients, wsRef, armed, unheld, chain, pageVars, fetching, stored,
                 broadcasts, left>>

\* The newest of the first m trades that were stored of a symbol: the answer of
\* /api/trades/recent, whose LIMIT is the length of the tape.
Rows(symbolOf, m) ==
  [i \in 1..(IF m < TapeLength THEN m ELSE TapeLength) |-> stored[symbolOf][m + 1 - i]]

SetTrades(rows) ==
  recentTrades' = [i \in DOMAIN rows |-> [n |-> rows[i], chain |-> Fetched]]

\* The fetch returns what was stored at some moment since it was made, or fails.
FetchReturns ==
  /\ fetching # None
  /\ fetching' = None
  /\ \/ \E m \in fetching[1]..Len(stored[selectedSymbol]) : SetTrades(Rows(selectedSymbol, m))
     \/ UNCHANGED recentTrades
  /\ UNCHANGED <<replayVars, clients, hookVars, pageVars, stored, broadcasts, left>>

-----------------------------------------------------------------------------
(* The server's end of the sockets.                                        *)

Accept(c) ==
  /\ sockets[c].state = "CONNECTING" /\ ~sockets[c].cut /\ c \notin DOMAIN clients
  /\ Connection(c)
  /\ UNCHANGED <<replayVars, hookVars, pageVars, tapeVars, left>>

ServerReceives(c) ==
  /\ c \in DOMAIN clients /\ sockets[c].up # << >> /\ ~sockets[c].cut
  /\ HandleClientMessage(c, Head(sockets[c].up))
  /\ sockets' = [sockets EXCEPT ![c].up = Tail(@)]
  /\ UNCHANGED <<replayVars, wsRef, armed, unheld, chain, pageVars, tapeVars, left>>

ServerSeesClose(c) ==
  /\ c \in DOMAIN sockets =>
       sockets[c].cut \/ (sockets[c].state = "CLOSING" /\ sockets[c].up = << >>)
  /\ Disconnection(c)
  /\ UNCHANGED <<replayVars, hookVars, pageVars, tapeVars, left>>

Broadcast(symbolOf) ==
  /\ broadcasts' = broadcasts + 1
  /\ sockets' = [c \in DOMAIN sockets |->
       IF c \in Recipients(symbolOf)
       THEN [sockets[c] EXCEPT !.down = Append(@, broadcasts + 1)]
       ELSE sockets[c]]
  /\ UNCHANGED <<clients, wsRef, armed, unheld, chain, pageVars, recentTrades, fetching>>

-----------------------------------------------------------------------------
(* The replay session, whose ticks broadcast, and its callers.             *)

ReplayTicks ==
  /\ \/ TimerFires /\ Broadcast(timer[1].symbol)
     \/ \E i \in DOMAIN strays : StrayFires(i) /\ Broadcast(strays[i].symbol)
  /\ UNCHANGED <<stored, left>>

SessionLoads ==
  /\ \E i \in DOMAIN starting : RowsArrive(i)
  /\ UNCHANGED <<clients, hookVars, pageVars, tapeVars, left>>

ReplayCall ==
  /\ \/ \E options \in Start : StartReplay(options)
     \/ PauseReplay
     \/ ResumeReplay
     \/ StopReplay
     \/ \E s \in Speeds : SetSpeed(s)
  /\ UNCHANGED <<clients, hookVars, pageVars, tapeVars>>

\* A trade of the matching engine (routes/orders.ts), stored and then broadcast.
EngineTrade(symbolOf) ==
  /\ stored' = [stored EXCEPT ![symbolOf] = Append(@, broadcasts + 1)]
  /\ Broadcast(symbolOf)
  /\ UNCHANGED replayVars

Cut(c) ==
  /\ ~sockets[c].cut
  /\ sockets' = [sockets EXCEPT ![c].cut = TRUE]
  /\ UNCHANGED <<replayVars, clients, wsRef, armed, unheld, chain, pageVars, tapeVars>>

-----------------------------------------------------------------------------

Init ==
  /\ ReplayInit
  /\ clients = << >>
  /\ wsRef = 1 /\ armed = FALSE /\ unheld = 0
  /\ userId = "" /\ selectedSymbol = DefaultSymbol
  /\ sockets = [c \in {1} |-> NewSocket(userId, selectedSymbol, 1)]
  /\ recentTrades = << >> /\ fetching = <<0>>
  /\ stored = [s \in Symbols |-> << >>] /\ broadcasts = 0
  /\ chain = 1 /\ left \in Budgets

\* What happens by itself once it was set off.
Progress ==
  \/ Reconnect
  \/ \E c \in DOMAIN sockets :
       Accept(c) \/ Opened(c) \/ ServerReceives(c) \/ PageReceives(c) \/ Closed(c)
  \/ \E c \in DOMAIN clients : ServerSeesClose(c)
  \/ FetchReturns
  \/ SessionLoads
  \/ ReplayTicks

Spend(kind) == left[kind] > 0 /\ left' = [left EXCEPT ![kind] = @ - 1]

\* What callers, traders, users and the network do.
Event ==
  \/ Spend("calls") /\ ReplayCall
  \/ Spend("trades") /\ \E s \in Symbols : EngineTrade(s)
  \/ Spend("changes") /\ \E u \in Users, s \in Symbols : Rerender(u, s)
  \/ Spend("cuts") /\ \E c \in DOMAIN sockets : Cut(c)

Next == Progress \/ Event

Spec == Init /\ [][Next]_feedVars

\* Timers fire, and messages and connection events are delivered.
FairSpec == Spec /\ WF_feedVars(Progress)

-----------------------------------------------------------------------------
(* Properties.                                                             *)

FeedTypeOK ==
  /\ ReplayTypeOK
  /\ wsRef \in Nat /\ armed \in BOOLEAN /\ unheld \in Nat
  /\ userId \in Users /\ selectedSymbol \in Symbols
  /\ \A c \in DOMAIN sockets :
       /\ sockets[c].state \in SocketState /\ sockets[c].cut \in BOOLEAN
       /\ sockets[c].userId \in Users /\ sockets[c].symbol \in Symbols
       /\ Range(sockets[c].up) \subseteq Message
       /\ Range(sockets[c].down) \subseteq 1..broadcasts /\ sockets[c].chain \in 1..chain
  /\ \A c \in DOMAIN clients :
       clients[c] \in [userId: Users \cup {""}, subscribedSymbols: SUBSET Symbols]
  /\ Range(recentTrades) \subseteq [n: 1..broadcasts, chain: 0..chain]
  /\ Len(recentTrades) <= TapeLength
  /\ \A s \in Symbols : Range(stored[s]) \subseteq 1..broadcasts
  /\ Range(fetching) \subseteq 0..Len(stored[selectedSymbol])

\* However sockets are dropped, replaced and raced by a timeout, each chain of them puts
\* a broadcast on the tape at most once, and a fetch shows no trade twice.  So nothing
\* is shown twice until a reconnect timeout fires while the current socket is still
\* connecting (the page then reads both), or a fetch returns a trade that is yet to be
\* delivered; and then no more often than there are chains, and once for the fetch.
TicksOnce == IsInjective(recentTrades)

\* Whatever was cut and however often the page changed, in the end the server
\* streams the symbol the page shows, to the user who is signed in, on the socket
\* the page holds.
FeedUp ==
  /\ StateOf(wsRef) = "OPEN" /\ wsRef \in DOMAIN clients
  /\ clients[wsRef] = [userId |-> userId, subscribedSymbols |-> {selectedSymbol}]

FeedRecovers == []<>FeedUp

\* A replay that runs comes to its end unless somebody pauses or stops it: no
\* interleaving of overlapping calls leaves it active with no timeout pending.
ReplayFinishes == active ~> (~active \/ paused)

=============================================================================
