-------------------------- MODULE WebSocketServer --------------------------
(***************************************************************************)
(* packages/backend/src/websocket/WebSocketServer.ts: the clients, what    *)
(* they subscribed to, and whom a broadcast reaches.  Welcome, pong and    *)
(* error messages, which no client acts on, are left out.                  *)
(***************************************************************************)
EXTENDS FiniteSets, Functions

VARIABLE clients    \* connection -> [userId, subscribedSymbols]

Connection(c) ==
  clients' = [x \in DOMAIN clients \cup {c} |->
                IF x = c THEN [userId |-> "", subscribedSymbols |-> {}] ELSE clients[x]]

HandleClientMessage(c, msg) ==
  clients' = [clients EXCEPT ![c] =
    [userId |-> IF msg.type = "authenticate" THEN msg.data ELSE @.userId,
     subscribedSymbols |->
       IF msg.type = "subscribe" THEN @.subscribedSymbols \cup {msg.data}
       ELSE IF msg.type = "unsubscribe" THEN @.subscribedSymbols \ {msg.data}
       ELSE @.subscribedSymbols]]

\* The 'close' and the 'error' of a connection.
Disconnection(c) == clients' = Restrict(clients, DOMAIN clients \ {c})

\* broadcastTrade and broadcastOrderBook: a client without subscriptions gets all.
Recipients(symbol) ==
  {c \in DOMAIN clients : LET subscribed == clients[c].subscribedSymbols
                          IN  symbol \in subscribed \/ subscribed = {}}

=============================================================================
