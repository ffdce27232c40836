------------------------------ MODULE KrakenFeed ------------------------------
(***************************************************************************)
(* The Kraken adapter (src/src/kraken_adapter.cpp): the exchange answers a  *)
(* subscription with a snapshot or a rejection and then sends every event,  *)
(* without numbers.  A book stays right only because messages arrive in     *)
(* order and because a new connection starts from empty books.             *)
(*                                                                         *)
(* Three threads: the WebSocket thread (ws), the watchdog (dog), and the   *)
(* one that calls start() and stop() (starter).  The first and the last    *)
(* meet in two mutexes, which start() still holds when it closes the       *)
(* socket on its way out.  A book is reduced to whether it has a snapshot  *)
(* and to the exchange events it reflects.  A message has one item; of     *)
(* acknowledgements only rejections have effect.                           *)
(***************************************************************************)
EXTENDS Connection, Integers, FiniteSets

CONSTANTS
    Symbols,            \* subscribedSymbols_
    MaxEvents,          \* bounds of the instance: events of each symbol,
    MaxMalformed,       \*   messages that cannot be parsed,
    MaxRejects          \*   subscriptions the exchange refuses

ASSUME KrakenAssumption ==
    /\ NoSymbol \notin Symbols /\ IsFiniteSet(Symbols)
    /\ {MaxEvents, MaxMalformed, MaxRejects} \subseteq Nat

VARIABLES
    exLast,             \* exchange: number of the last event of each symbol
    subscription,       \* exchange: none, requested, serving or refused
    used,               \* counters behind the bounds
    book,               \* [applied, content] of each symbol
    missed,             \* history: events a book lacks, 0 for its snapshot
    pendingSnapshots, subscribeError, wsConnected,
    starter             \* where start() or stop() is, or how it ended

feedVars   == <<book, missed, pendingSnapshots, subscribeError, wsConnected>>
serverVars == <<exLast, subscription, used>>
krakenVars == <<connectionVars, serverVars, feedVars, starter>>

ClearedBook == [applied |-> FALSE, content |-> {}]

KrakenInit ==
    /\ ConnectionInit
    /\ exLast = [s \in Symbols |-> 1]
    /\ subscription = [s \in Symbols |-> "none"]
    /\ used = [malformed |-> 0, rejects |-> 0]
    /\ book = [s \in Symbols |-> ClearedBook]
    /\ missed = [s \in Symbols |-> {}]
    /\ pendingSnapshots = {}
    /\ subscribeError = FALSE
    /\ wsConnected = FALSE
    /\ starter = "out"

-----------------------------------------------------------------------------
(* The exchange.                                                           *)

serverFrame == <<socket, ws, lastConnectionActivityMs, dog, dogStop, trouble, feedVars, starter>>

\* Sends the message, or something like it that the parser will throw at.
Sends(kind, s, id) ==
    \/ /\ stream' = Append(stream, [kind |-> kind, sym |-> s, id |-> id, ok |-> TRUE])
       /\ UNCHANGED used
    \/ /\ used.malformed < MaxMalformed
       /\ stream' = Append(stream, [kind |-> kind, sym |-> s, id |-> id, ok |-> FALSE])
       /\ used' = [used EXCEPT !.malformed = @ + 1]

Serving(s) == socket = "open" /\ subscription[s] = "serving"

ExchangeEvent(s) ==
    /\ exLast[s] < MaxEvents
    /\ exLast' = [exLast EXCEPT ![s] = @ + 1]
    /\ \/ Serving(s) /\ Sends("update", s, exLast[s] + 1)
       \/ ~Serving(s) /\ UNCHANGED <<stream, used>>
    /\ UNCHANGED <<subscription, serverFrame>>

Accepts(s) ==
    /\ socket = "open" /\ subscription[s] = "requested"
    /\ subscription' = [subscription EXCEPT ![s] = "serving"]
    /\ Sends("snapshot", s, exLast[s])
    /\ UNCHANGED <<exLast, serverFrame>>

\* The rejection names the symbol in a field the adapter reads, or does not.
Rejects(s) ==
    /\ socket = "open" /\ subscription[s] = "requested"
    /\ used.rejects < MaxRejects
    /\ used' = [used EXCEPT !.rejects = @ + 1]
    /\ subscription' = [subscription EXCEPT ![s] = "refused"]
    /\ \E named \in {s, NoSymbol} :
          stream' = Append(stream, [kind |-> "reject", sym |-> named, id |-> 0, ok |-> TRUE])
    /\ UNCHANGED <<exLast, serverFrame>>

Exchange == \E s \in Symbols : ExchangeEvent(s) \/ Accepts(s) \/ Rejects(s)

\* A new connection has no subscriptions.
ConnectionOpens ==
    /\ Opens
    /\ subscription' = [s \in Symbols |-> "none"]
    /\ UNCHANGED <<exLast, used, feedVars, starter>>

Network ==
    \/ ConnectionOpens
    \/ /\ OpenFails \/ ConnectionDies \/ DeadConnectionGoesOld \/ ConnectionGoesOld
       /\ UNCHANGED <<serverVars, feedVars, starter>>

\* webSocket_.send: a subscription to all symbols, lost if there is no connection.
Subscribes ==
    subscription' = IF socket = "open" THEN [s \in Symbols |-> "requested"] ELSE subscription

-----------------------------------------------------------------------------
(* handleWsMessage.                                                        *)

\* start() holds the mutex of the wait that has just failed until it returns.
WsReadyMutexFree  == starter # "abortConnect"
SnapshotMutexFree == starter # "abortWait"

wsFrame == <<socket, stream, lastConnectionActivityMs, dog, dogStop, trouble, exLast, used, starter>>

WsReceives == Receive /\ UNCHANGED <<serverVars, feedVars, starter>>

FirstOpen ==
    /\ Handling("open") /\ ~wsConnected
    /\ WsReadyMutexFree
    /\ wsConnected' = TRUE
    /\ ws' = IdleWs
    /\ UNCHANGED <<subscription, book, missed, pendingSnapshots, subscribeError, wsFrame>>

\* Mutant: the books of the old connection stay until the new snapshots.
ReopenKeepsBooks ==
    /\ Handling("open") /\ wsConnected
    /\ WsReadyMutexFree
    /\ ws' = [ws EXCEPT !.pc = "resetPending"]
    /\ UNCHANGED <<subscription, feedVars, wsFrame>>

\* Any later one: first the books are cleared ...
ReopenClear ==
    /\ Handling("open") /\ wsConnected
    /\ WsReadyMutexFree
    /\ book' = [s \in Symbols |-> ClearedBook]
    /\ missed' = [s \in Symbols |-> {}]
    /\ ws' = [ws EXCEPT !.pc = "resetPending"]
    /\ UNCHANGED <<subscription, pendingSnapshots, subscribeError, wsConnected, wsFrame>>

\* ... then, under snapshotMutex_, all of them are awaited again ...
ReopenPending ==
    /\ ws.pc = "resetPending"
    /\ SnapshotMutexFree
    /\ subscribeError' = FALSE
    /\ pendingSnapshots' = Symbols
    /\ ws' = [ws EXCEPT !.pc = "resubscribe"]
    /\ UNCHANGED <<subscription, book, missed, wsConnected, wsFrame>>

\* Mutant: waits for snapshots nobody asked for.
ReopenWithoutSubscribing ==
    /\ ws.pc = "resubscribe"
    /\ ws' = IdleWs
    /\ UNCHANGED <<subscription, feedVars, wsFrame>>

\* ... and the subscription is sent again.
ReopenSubscribes ==
    /\ ws.pc = "resubscribe"
    /\ Subscribes
    /\ ws' = IdleWs
    /\ UNCHANGED <<feedVars, wsFrame>>

HandleSnapshot ==
    /\ Handling("snapshot") /\ ws.msg.ok
    /\ book' = [book EXCEPT ![ws.msg.sym] = [applied |-> TRUE, content |-> 1 .. ws.msg.id]]
    /\ missed' = [missed EXCEPT ![ws.msg.sym] = {}]
    /\ ws' = [ws EXCEPT !.pc = "snapshotApplied"]
    /\ UNCHANGED <<subscription, pendingSnapshots, subscribeError, wsConnected, wsFrame>>

\* The waiting start() is told afterwards.
SnapshotArrived ==
    /\ ws.pc = "snapshotApplied"
    /\ SnapshotMutexFree
    /\ pendingSnapshots' = pendingSnapshots \ {ws.msg.sym}
    /\ ws' = IdleWs
    /\ UNCHANGED <<subscription, book, missed, subscribeError, wsConnected, wsFrame>>

\* Mutant: applies what comes without a snapshot.
HandleUpdateUnasked ==
    /\ Handling("update") /\ ws.msg.ok
    /\ book' = [book EXCEPT ![ws.msg.sym].content = @ \cup {ws.msg.id}]
    /\ ws' = IdleWs
    /\ UNCHANGED <<subscription, missed, pendingSnapshots, subscribeError, wsConnected, wsFrame>>

\* Mutant: takes an update for a snapshot.
HandleUpdateAsSnapshot ==
    /\ Handling("update") /\ ws.msg.ok
    /\ book[ws.msg.sym].applied
    /\ book' = [book EXCEPT ![ws.msg.sym].content = {ws.msg.id}]
    /\ ws' = IdleWs
    /\ UNCHANGED <<subscription, missed, pendingSnapshots, subscribeError, wsConnected, wsFrame>>

HandleUpdate ==
    /\ Handling("update") /\ ws.msg.ok
    /\ book[ws.msg.sym].applied
    /\ book' = [book EXCEPT ![ws.msg.sym].content = @ \cup {ws.msg.id}]
    /\ ws' = IdleWs
    /\ UNCHANGED <<subscription, missed, pendingSnapshots, subscribeError, wsConnected, wsFrame>>

\* No snapshot yet.
DropUpdate ==
    /\ Handling("update") /\ ~book[ws.msg.sym].applied
    /\ ws' = IdleWs
    /\ UNCHANGED <<subscription, feedVars, wsFrame>>

\* The parser throws, and the message is forgotten.
DropMalformed ==
    /\ ~ws.msg.ok
    /\ \/ Handling("snapshot")
       \/ Handling("update") /\ book[ws.msg.sym].applied
    /\ missed' = [missed EXCEPT ![ws.msg.sym] =
                     @ \cup {IF ws.msg.kind = "snapshot" THEN 0 ELSE ws.msg.id}]
    /\ ws' = IdleWs
    /\ UNCHANGED <<subscription, book, pendingSnapshots, subscribeError, wsConnected, wsFrame>>

\* Only that symbol is not awaited any more.
SymbolRejected ==
    /\ Handling("reject") /\ ws.msg.sym # NoSymbol
    /\ SnapshotMutexFree
    /\ pendingSnapshots' = pendingSnapshots \ {ws.msg.sym}
    /\ ws' = IdleWs
    /\ UNCHANGED <<subscription, book, missed, subscribeError, wsConnected, wsFrame>>

\* Mutant: nothing is awaited any more, and nobody is told why.
RejectedWithoutError ==
    /\ Handling("reject") /\ ws.msg.sym = NoSymbol
    /\ SnapshotMutexFree
    /\ pendingSnapshots' = {}
    /\ ws' = IdleWs
    /\ UNCHANGED <<subscription, book, missed, subscribeError, wsConnected, wsFrame>>

\* Nothing is awaited any more, and start() will fail.
AllRejected ==
    /\ Handling("reject") /\ ws.msg.sym = NoSymbol
    /\ SnapshotMutexFree
    /\ subscribeError' = TRUE
    /\ pendingSnapshots' = {}
    /\ ws' = IdleWs
    /\ UNCHANGED <<subscription, book, missed, wsConnected, wsFrame>>

WsStep ==
    \/ WsReceives
    \/ FirstOpen \/ ReopenClear \/ ReopenPending \/ ReopenSubscribes
    \/ HandleSnapshot \/ SnapshotArrived \/ HandleUpdate \/ DropUpdate \/ DropMalformed
    \/ SymbolRejected \/ AllRejected

WatchdogStep == DogStep /\ UNCHANGED <<serverVars, feedVars, starter>>

-----------------------------------------------------------------------------
(* start(), whose socket is closed and whose watchdog is off when called,   *)
(* and stop().                                                             *)

StartBegins ==
    /\ starter' = "connecting"
    /\ book' = [s \in Symbols |-> ClearedBook]
    /\ missed' = [s \in Symbols |-> {}]
    /\ wsConnected' = FALSE
    /\ subscribeError' = FALSE
    /\ pendingSnapshots' = Symbols
    /\ lastConnectionActivityMs' = "never"
    /\ socket' = "connecting"
    /\ UNCHANGED <<stream, ws, dog, dogStop, trouble, serverVars>>

starterFrame == <<lastConnectionActivityMs, trouble, serverVars, feedVars>>

ConnectTimesOut ==
    /\ starter = "connecting" /\ ~wsConnected
    /\ starter' = "abortConnect"
    /\ UNCHANGED <<socket, stream, ws, dog, dogStop, starterFrame>>

\* Mutant: the watchdog runs during start().
StartConnectedWithDog ==
    /\ starter = "connecting" /\ wsConnected
    /\ starter' = "subscribing"
    /\ dog' = "sleeping"
    /\ UNCHANGED <<socket, stream, ws, dogStop, starterFrame>>

StartConnected ==
    /\ starter = "connecting" /\ wsConnected
    /\ starter' = "subscribing"
    /\ UNCHANGED <<socket, stream, ws, dog, dogStop, starterFrame>>

StartSubscribes ==
    /\ starter = "subscribing"
    /\ Subscribes
    /\ starter' = "waiting"
    /\ UNCHANGED <<connectionVars, exLast, used, feedVars>>

SnapshotsTimeOut ==
    /\ starter = "waiting" /\ pendingSnapshots # {}
    /\ starter' = "abortWait"
    /\ UNCHANGED <<socket, stream, ws, dog, dogStop, starterFrame>>

StartRejected ==
    /\ starter = "waiting" /\ pendingSnapshots = {}
    /\ subscribeError
    /\ starter' = "abortWait"
    /\ UNCHANGED <<socket, stream, ws, dog, dogStop, starterFrame>>

\* Closing waits for the WebSocket thread, which may be waiting for the mutex.
StartFails ==
    /\ starter \in {"abortConnect", "abortWait"}
    /\ SocketStops
    /\ starter' = "failed"
    /\ UNCHANGED <<ws, dog, dogStop, starterFrame>>

StartReturns ==
    /\ starter = "waiting" /\ pendingSnapshots = {}
    /\ ~subscribeError
    /\ dog' = "sleeping" /\ dogStop' = FALSE
    /\ starter' = "started"
    /\ UNCHANGED <<socket, stream, ws, starterFrame>>

\* stop() asks the watchdog to stop, waits for it, and only then for the socket.
StopBegins ==
    /\ dogStop' = TRUE
    /\ starter' = "stopping"
    /\ UNCHANGED <<socket, stream, ws, dog, starterFrame>>

\* Mutant: does not wait for the watchdog.
StopEndsWithoutDog ==
    /\ starter = "stopping"
    /\ SocketStops
    /\ starter' = "stopped"
    /\ UNCHANGED <<ws, dog, dogStop, starterFrame>>

StopEnds ==
    /\ starter = "stopping" /\ dog = "off"
    /\ SocketStops
    /\ starter' = "stopped"
    /\ UNCHANGED <<ws, dog, dogStop, starterFrame>>

StarterStep ==
    \/ ConnectTimesOut \/ StartConnected \/ StartSubscribes
    \/ SnapshotsTimeOut \/ StartRejected \/ StartFails \/ StartReturns \/ StopEnds

\* All but the calls of start() and stop(), which are the main thread's.
FeedStep == Exchange \/ Network \/ WsStep \/ WatchdogStep \/ StarterStep

-----------------------------------------------------------------------------
Events   == 1 .. MaxEvents \cup {1}
BookType == [applied : BOOLEAN, content : SUBSET Events]
Messages ==
    {Opened}
    \cup [kind : {"snapshot", "update"}, sym : Symbols, id : Events, ok : BOOLEAN]
    \cup [kind : {"reject"}, sym : Symbols \cup {NoSymbol}, id : {0}, ok : {TRUE}]

WsPcs == {"idle", "received", "resetPending", "resubscribe", "snapshotApplied"}

\* The watchdog runs only between a start() that returned true and the end of
\* stop() (kraken_adapter.cpp:376-379, 16).
FeedTypeOK ==
    /\ ConnectionOK(Messages, WsPcs)
    /\ exLast \in [Symbols -> Events]
    /\ subscription \in [Symbols -> {"none", "requested", "serving", "refused"}]
    /\ used \in [malformed : 0 .. MaxMalformed, rejects : 0 .. MaxRejects]
    /\ book \in [Symbols -> BookType]
    /\ missed \in [Symbols -> SUBSET (Events \cup {0})]
    /\ pendingSnapshots \subseteq Symbols
    /\ subscribeError \in BOOLEAN /\ wsConnected \in BOOLEAN
    /\ starter \in {"out", "connecting", "subscribing", "waiting", "abortConnect", "abortWait",
                    "failed", "started", "stopping", "stopped"}
    /\ dog # "off" => starter \in {"started", "stopping"}

Seen(s) == (book[s].content \cup missed[s]) \ {0}

\* A book without a snapshot is empty.  One with a snapshot has every event up to
\* the last it was sent, except those in messages that could not be parsed: what
\* an old connection left behind never mixes with what a new one sends.
InSync ==
    \A s \in Symbols :
        IF book[s].applied
        THEN /\ book[s].content \cap missed[s] = {}
             /\ \E n \in Events : Seen(s) = 1 .. n
        ELSE book[s].content = {}

\* Once everything sent on an open connection has been handled, a book that has
\* a snapshot is the exchange's: a book of an earlier connection is gone by then
\* (kraken_adapter.cpp:159-171).
CaughtUp ==
    socket = "open" /\ stream = << >> /\ ws = IdleWs =>
        \A s \in Symbols : book[s].applied => Seen(s) = 1 .. exLast[s]

\* start() returns true only when every symbol has its book or was refused by name
\* (kraken_adapter.cpp:360-374): a rejection without a name is an error for all.
StartHasBooks ==
    [][StartReturns =>
          \A s \in Symbols : book[s].applied \/ subscription[s] = "refused"]_krakenVars

Corrupt == -1
Copy(s) ==
    IF ~book[s].applied THEN 0
    ELSE IF Seen(s) = 1 .. Cardinality(Seen(s)) THEN Cardinality(Seen(s)) ELSE Corrupt

Promise == INSTANCE FeedPromise
    WITH exchange <- exLast, copy <- [s \in Symbols |-> Copy(s)], MayGoBack <- FALSE

\* A book is lost as a whole, restored from a snapshot only when it was lost, and
\* otherwise advanced by one message: it never goes back.
KeepsPromise == Promise!Spec
=============================================================================
