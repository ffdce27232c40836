--------------------------- MODULE SubscriberServer ---------------------------
(***************************************************************************)
(* The subscriber server (src/src/subscriber_server.hpp) between the feeds *)
(* that update the books and the clients that keep copies of them.         *)
(*                                                                         *)
(* Threads: one feed per exchange, which applies an update to a book and   *)
(* then broadcasts it (the callback of main.cpp:304-343), and one          *)
(* connection per client, which handles the client's requests and its      *)
(* Close one at a time.  A block under mu_ is one action; messages are     *)
(* sent outside it, one at a time.                                         *)
(*                                                                         *)
(* A book is a function from prices to quantities, 0 where it has no       *)
(* level: what matters here is which updates a snapshot and a copy         *)
(* reflect.  A request that cannot be parsed changes no state and is left  *)
(* out; so are stop(), which main never reaches while the feeds run, and   *)
(* the count of messages sent, which nothing but the scrape reads.         *)
(***************************************************************************)
EXTENDS Naturals, FiniteSets, Sequences, SequencesExt, Functions

CONSTANTS
    Clients,        \* one per connection; ids are never reused
    Streams,        \* what a client may subscribe to: "exchange.SYMBOL"
    NoStream,
    Books,          \* the streams that have a book
    Exchanges,
    ExchangeOf,     \* the exchange of a book's stream
    Workers,        \* the exchanges whose snapshots are applied by a thread of
                    \* their own (Binance) and not by the feed (Kraken)
    Prices,
    Changes,        \* genuine levels of one update: partial functions from
                    \* prices to quantities; the empty one has none
    Contents,       \* what a snapshot from the exchange may put in a book
    Drops,          \* sets of prices a moving window may leave behind
    MaxUpdates,     \* bounds of the instance: updates of books,
    MaxSnapshots,   \* snapshots and clears of books,
    MaxRequests     \* requests of each client

ASSUME SubscriberAssumption ==
    /\ Books \subseteq Streams /\ NoStream \notin Streams
    /\ IsFiniteSet(Clients) /\ IsFiniteSet(Exchanges)
    /\ ExchangeOf \in [Books -> Exchanges] /\ Workers \subseteq Exchanges
    /\ Contents \subseteq [Prices -> Nat]
    /\ \A ch \in Changes : DOMAIN ch \subseteq Prices /\ \A p \in DOMAIN ch : ch[p] \in Nat
    /\ Drops \subseteq SUBSET Prices
    /\ MaxUpdates \in Nat /\ MaxSnapshots \in Nat /\ MaxRequests \in Nat

VARIABLES
    books,              \* per book: applied, levels and (history) how many
                        \* snapshots it has had, and the prices that genuine
                        \* levels have named since it was replaced or cleared
    feeds,              \* the thread of each exchange
    clients,            \* clients_: per entry its socket, if any, and streams
    seqMap,             \* seqMap_, 0 where it has no entry
    sockets,            \* per client: "none", "open", "closing" or "closed"
    handlers,           \* per connection: the request being handled
    replicas,           \* per client and stream: the client's copy
    backpressureDisconnects,
    used                \* updates, snapshots and requests so far

vars == <<books, feeds, clients, seqMap, sockets, handlers, replicas,
          backpressureDisconnects, used>>

-----------------------------------------------------------------------------
(* The client's side, as the comments of subscriber_protocol.hpp:156-157   *)
(* and subscriber_server.hpp:298-299 ask for: from its request on it keeps *)
(* updates aside until the snapshot comes, then applies those behind it.   *)

NoReplica == [state |-> "none", levels |-> [p \in Prices |-> 0], seq |-> 0,
              aside |-> << >>, since |-> 0]

Awaiting  == [NoReplica EXCEPT !.state = "waiting"]

Patched(levels, change) == [p \in Prices |-> IF p \in DOMAIN change THEN change[p] ELSE levels[p]]

WithUpdate(r, msg) ==
    CASE r.state = "waiting" -> [r EXCEPT !.aside = Append(@, msg)]
      [] r.state = "live" /\ msg.seq > r.seq ->
            [r EXCEPT !.levels = Patched(@, msg.change), !.seq = msg.seq]
      [] OTHER -> r

WithSnapshot(r, msg) ==
    IF r.state = "none" THEN r
    ELSE FoldLeft(WithUpdate,
                  [state |-> "live", levels |-> msg.levels, seq |-> msg.seq,
                   aside |-> << >>, since |-> msg.since],
                  r.aside)

-----------------------------------------------------------------------------
IdleFeed    == [pc |-> "idle", stream |-> NoStream, change |-> << >>, seq |-> 0,
                targets |-> {}, closed |-> {}]
NoMessage   == [stream |-> NoStream, levels |-> [p \in Prices |-> 0], seq |-> 0, since |-> 0]
IdleHandler == [todo |-> {}, snapshot |-> NoMessage]

Idle(c) == handlers[c] = IdleHandler

Init ==
    /\ books \in [Books -> [applied : {TRUE}, levels : Contents, snapshots : {1}, told : {{}}]]
    /\ feeds = [e \in Exchanges |-> IdleFeed]
    /\ clients = << >>
    /\ seqMap = [s \in Books |-> 0]
    /\ sockets = [c \in Clients |-> "none"]
    /\ handlers = [c \in Clients |-> IdleHandler]
    /\ replicas = [c \in Clients |-> [s \in Streams |-> NoReplica]]
    /\ backpressureDisconnects = 0
    /\ used = [updates |-> 0, snapshots |-> 0, requests |-> [c \in Clients |-> 0]]

-----------------------------------------------------------------------------
(* The feeds.                                                              *)

serverVars == <<clients, seqMap, sockets, handlers, replicas, backpressureDisconnects>>

\* Mutant: an update of one side only is not sent.
SilentUnlessBothSides(change) == Cardinality(DOMAIN change) < 2

\* Neither bids nor asks to send.
Silent(change) == DOMAIN change = {}

\* An update reaches a book: its genuine levels, and what the window leaves
\* behind if it moves.  Without genuine levels nothing is broadcast.
UpdateBook(s) ==
    /\ feeds[ExchangeOf[s]].pc = "idle" /\ books[s].applied
    /\ used.updates < MaxUpdates
    /\ used' = [used EXCEPT !.updates = @ + 1]
    /\ \E change \in Changes, dropped \in Drops :
          /\ dropped \cap DOMAIN change = {}
          /\ books' = [books EXCEPT
                          ![s].levels =
                             Patched([p \in Prices |-> IF p \in dropped THEN 0 ELSE @[p]], change),
                          ![s].told = (@ \ dropped) \cup DOMAIN change]
          /\ feeds' = IF Silent(change) THEN feeds
                      ELSE [feeds EXCEPT ![ExchangeOf[s]] =
                              [IdleFeed EXCEPT !.pc = "broadcast", !.stream = s,
                                               !.change = change]]
    /\ UNCHANGED serverVars

\* Mutant: counts the stream twice.
NumberTwice(e) ==
    LET s == feeds[e].stream
    IN  /\ feeds[e].pc = "broadcast"
        /\ seqMap' = [seqMap EXCEPT ![s] = @ + 2]
        /\ feeds' = [feeds EXCEPT ![e].pc = "send", ![e].seq = seqMap[s] + 2,
                       ![e].targets = {c \in DOMAIN clients :
                                          clients[c].socket /\ s \in clients[c].streams}]
        /\ UNCHANGED <<books, clients, sockets, handlers, replicas,
                       backpressureDisconnects, used>>

\* The number and the targets are taken under one lock; an entry without a
\* socket is skipped.
Number(e) ==
    LET s == feeds[e].stream
    IN  /\ feeds[e].pc = "broadcast"
        /\ seqMap' = [seqMap EXCEPT ![s] = @ + 1]
        /\ feeds' = [feeds EXCEPT ![e].pc = "send", ![e].seq = seqMap[s] + 1,
                       ![e].targets = {c \in DOMAIN clients :
                                          clients[c].socket /\ s \in clients[c].streams}]
        /\ UNCHANGED <<books, clients, sockets, handlers, replicas,
                       backpressureDisconnects, used>>

\* To a socket that is closing nothing is delivered.
Send(e, c) ==
    LET s == feeds[e].stream
    IN  /\ feeds[e].pc = "send" /\ c \in feeds[e].targets
        /\ feeds' = [feeds EXCEPT ![e].targets = @ \ {c}]
        /\ replicas' = IF sockets[c] = "open"
                       THEN [replicas EXCEPT ![c][s] =
                               WithUpdate(@, [seq |-> feeds[e].seq, change |-> feeds[e].change])]
                       ELSE replicas
        /\ UNCHANGED <<books, clients, seqMap, sockets, handlers,
                       backpressureDisconnects, used>>

\* More than kBackpressureLimit bytes wait to be sent.
CloseSlow(e, c) ==
    /\ feeds[e].pc = "send" /\ c \in feeds[e].targets
    /\ sockets[c] \in {"open", "closing"}
    /\ feeds' = [feeds EXCEPT ![e].targets = @ \ {c}, ![e].closed = @ \cup {c}]
    /\ sockets' = [sockets EXCEPT ![c] = "closing"]
    /\ UNCHANGED <<books, clients, seqMap, handlers, replicas, backpressureDisconnects, used>>

\* The entries go at once; their Close callbacks come later.
RemoveSlow(e) ==
    /\ feeds[e].pc = "send" /\ feeds[e].targets = {}
    /\ clients' = Restrict(clients, DOMAIN clients \ feeds[e].closed)
    /\ backpressureDisconnects' = backpressureDisconnects + Cardinality(feeds[e].closed)
    /\ feeds' = [feeds EXCEPT ![e] = IdleFeed]
    /\ UNCHANGED <<books, seqMap, sockets, handlers, replicas, used>>

\* A snapshot from the exchange, with or without a clear before it; subscribers
\* are not told.
BookSnapshot(s) ==
    /\ ExchangeOf[s] \in Workers \/ feeds[ExchangeOf[s]].pc = "idle"
    /\ used.snapshots < MaxSnapshots
    /\ \E levels \in Contents :
          books' = [books EXCEPT ![s] = [applied |-> TRUE, levels |-> levels,
                                         snapshots |-> @.snapshots + 1, told |-> {}]]
    /\ used' = [used EXCEPT !.snapshots = @ + 1]
    /\ UNCHANGED <<feeds, serverVars>>

\* A gap or a reconnect, found on the feed's thread.
BookCleared(s) ==
    /\ feeds[ExchangeOf[s]].pc = "idle" /\ books[s].applied
    /\ books' = [books EXCEPT ![s].applied = FALSE, ![s].levels = [p \in Prices |-> 0],
                              ![s].told = {}]
    /\ UNCHANGED <<feeds, used, serverVars>>

-----------------------------------------------------------------------------
(* The connections.                                                        *)

feedVars == <<books, feeds>>

\* clients_[id] = entry
WithEntry(c, entry) ==
    [d \in DOMAIN clients \cup {c} |-> IF d = c THEN entry ELSE clients[d]]

Connect(c) ==
    /\ sockets[c] = "none"
    /\ sockets' = [sockets EXCEPT ![c] = "open"]
    /\ clients' = WithEntry(c, [socket |-> TRUE, streams |-> {}])
    /\ UNCHANGED <<feedVars, seqMap, handlers, replicas, backpressureDisconnects, used>>

\* A request of the client; one that was received before the socket is closed
\* is still handled after close().
Request(c) ==
    /\ sockets[c] \in {"open", "closing"} /\ Idle(c)
    /\ used.requests[c] < MaxRequests
    /\ used' = [used EXCEPT !.requests[c] = @ + 1]

Subscribe(c, streams) ==
    /\ Request(c)
    /\ handlers' = [handlers EXCEPT ![c].todo = streams]
    /\ replicas' = [replicas EXCEPT ![c] =
                      [s \in Streams |-> IF s \in streams THEN Awaiting ELSE @[s]]]
    /\ UNCHANGED <<feedVars, clients, seqMap, sockets, backpressureDisconnects>>

\* Mutant: the snapshot bears the number of the next update.
NextNumber(s) == seqMap[s] + 1

SnapshotNumber(s) == seqMap[s]

\* Snapshot and number are taken, and the client is made visible to the feeds,
\* under one lock.  An entry removed meanwhile comes back without a socket.
Capture(c, s) ==
    LET entry == IF c \in DOMAIN clients THEN clients[c] ELSE [socket |-> FALSE, streams |-> {}]
    IN  /\ s \in handlers[c].todo /\ handlers[c].snapshot = NoMessage
        /\ clients' = WithEntry(c, [entry EXCEPT !.streams = @ \cup {s}])
        /\ handlers' =
              [handlers EXCEPT
                 ![c].todo = @ \ {s},
                 ![c].snapshot = IF s \in Books /\ books[s].applied
                                 THEN [stream |-> s, levels |-> books[s].levels,
                                       seq |-> SnapshotNumber(s), since |-> books[s].snapshots]
                                 ELSE NoMessage]
        /\ UNCHANGED <<feedVars, seqMap, sockets, replicas, backpressureDisconnects, used>>

SendSnapshot(c) ==
    LET msg == handlers[c].snapshot
    IN  /\ msg # NoMessage
        /\ handlers' = [handlers EXCEPT ![c].snapshot = NoMessage]
        /\ replicas' = IF sockets[c] = "open"
                       THEN [replicas EXCEPT ![c][msg.stream] = WithSnapshot(@, msg)]
                       ELSE replicas
        /\ UNCHANGED <<feedVars, clients, seqMap, sockets, backpressureDisconnects, used>>

Unsubscribe(c, streams) ==
    /\ Request(c)
    /\ clients' = IF c \in DOMAIN clients
                  THEN [clients EXCEPT ![c].streams = @ \ streams] ELSE clients
    /\ replicas' = [replicas EXCEPT ![c] =
                      [s \in Streams |-> IF s \in streams THEN NoReplica ELSE @[s]]]
    /\ UNCHANGED <<feedVars, seqMap, sockets, handlers, backpressureDisconnects>>

ClientCloses(c) ==
    /\ sockets[c] = "open"
    /\ sockets' = [sockets EXCEPT ![c] = "closing"]
    /\ UNCHANGED <<feedVars, clients, seqMap, handlers, replicas, backpressureDisconnects, used>>

\* Mutant: relies on the removal for backpressure.
CloseCallbackKeepsEntry(c) ==
    /\ sockets[c] = "closing" /\ Idle(c)
    /\ sockets' = [sockets EXCEPT ![c] = "closed"]
    /\ UNCHANGED <<feedVars, clients, seqMap, handlers, replicas, backpressureDisconnects, used>>

CloseCallback(c) ==
    /\ sockets[c] = "closing" /\ Idle(c)
    /\ sockets' = [sockets EXCEPT ![c] = "closed"]
    /\ clients' = Restrict(clients, DOMAIN clients \ {c})
    /\ UNCHANGED <<feedVars, seqMap, handlers, replicas, backpressureDisconnects, used>>

-----------------------------------------------------------------------------
Feed(e) == Number(e) \/ RemoveSlow(e) \/ \E c \in Clients : Send(e, c) \/ CloseSlow(e, c)

Book(s) == UpdateBook(s) \/ BookSnapshot(s) \/ BookCleared(s)

Connection(c) ==
    \/ Connect(c) \/ SendSnapshot(c) \/ ClientCloses(c) \/ CloseCallback(c)
    \/ \E s \in Streams : Capture(c, s)
    \/ \E streams \in SUBSET Streams \ {{}} : Subscribe(c, streams) \/ Unsubscribe(c, streams)

Next ==
    \/ \E e \in Exchanges : Feed(e)
    \/ \E s \in Books : Book(s)
    \/ \E c \in Clients : Connection(c)

Spec == Init /\ [][Next]_vars
-----------------------------------------------------------------------------
ReplicaType ==
    [state : {"none", "waiting", "live"}, levels : [Prices -> Nat], seq : 0 .. MaxUpdates,
     aside : Seq([seq : 1 .. MaxUpdates, change : Changes]), since : Nat]

\* Shape of the state; numbers never run ahead of the updates.
TypeOK ==
    /\ books \in [Books -> [applied : BOOLEAN, levels : [Prices -> Nat],
                           snapshots : 1 .. MaxSnapshots + 1, told : SUBSET Prices]]
    /\ \A e \in Exchanges :
          /\ feeds[e].pc \in {"idle", "broadcast", "send"}
          /\ feeds[e].stream \in Books \cup {NoStream}
          /\ feeds[e].change \in Changes \cup {<< >>}
          /\ feeds[e].seq \in 0 .. MaxUpdates
          /\ feeds[e].targets \subseteq Clients /\ feeds[e].closed \subseteq Clients
    /\ DOMAIN clients \subseteq Clients
    /\ \A c \in DOMAIN clients : clients[c] \in [socket : BOOLEAN, streams : SUBSET Streams]
    /\ seqMap \in [Books -> 0 .. MaxUpdates]
    /\ sockets \in [Clients -> {"none", "open", "closing", "closed"}]
    /\ \A c \in Clients : handlers[c].todo \subseteq Streams
    /\ replicas \in [Clients -> [Streams -> ReplicaType]]
    /\ backpressureDisconnects \in 0 .. MaxUpdates * Cardinality(Clients)

Unnumbered(s) ==
    LET feed == feeds[ExchangeOf[s]] IN feed.pc = "broadcast" /\ feed.stream = s

InFlight(c, s) ==
    LET feed == feeds[ExchangeOf[s]]
    IN  feed.pc = "send" /\ feed.stream = s /\ c \in feed.targets

Live(c, s) == sockets[c] = "open" /\ replicas[c][s].state = "live"

\* A connected client with a snapshot has every update that has been numbered
\* since, whenever it subscribed, unsubscribed or subscribed again, except the
\* one that is being sent (subscriber_server.hpp:166-171, 265-269).
NothingMissed ==
    \A c \in Clients, s \in Books : Live(c, s) =>
        \/ replicas[c][s].seq = seqMap[s]
        \/ InFlight(c, s) /\ replicas[c][s].seq = seqMap[s] - 1

\* A client that is up to date holds every level of the book with its quantity,
\* and no other but what a moving window left behind, though its snapshot may
\* have shown an update before its number; unless the book has had a snapshot of
\* its own since, or is without one (subscriber_server.hpp:298-299).  Of a book
\* whose snapshots a thread of their own applies this cannot be said: one may
\* replace the book between an update and its broadcast.
CopyHasEveryLevel ==
    \A c \in Clients, s \in Books :
        /\ ExchangeOf[s] \notin Workers
        /\ Live(c, s) /\ ~Unnumbered(s)
        /\ replicas[c][s].seq = seqMap[s]
        /\ replicas[c][s].since = books[s].snapshots
        /\ books[s].applied
        => \A p \in Prices : books[s].levels[p] # 0 \/ p \notin UNION Drops =>
                replicas[c][s].levels[p] = books[s].levels[p]

\* Subscribers are not told of a snapshot of the exchange, a clear or what a moving
\* window drops, and their copies are stale from then on, with no gap in the numbers
\* (subscriber_server.hpp:163-164).  But no level of an up-to-date copy stays wrong once
\* an update names it, whatever the copy has missed and whichever thread applies the
\* snapshots.
StaleLevelsHeal ==
    \A c \in Clients, s \in Books :
        Live(c, s) /\ ~Unnumbered(s) /\ replicas[c][s].seq = seqMap[s]
        => \A p \in books[s].told : replicas[c][s].levels[p] = books[s].levels[p]

\* A client that has gone is forgotten, however its Close and its removal for
\* backpressure interleave with its last request (subscriber_server.hpp:195-206).
GoneIsForgotten == \A c \in Clients : sockets[c] = "closed" => c \notin DOMAIN clients
===============================================================================
