----------------------------- MODULE Startup_proofs -----------------------------
(***************************************************************************)
(* Proofs about the Kraken feed under the main thread, for any symbols,     *)
(* configurations and bounds.                                              *)
(***************************************************************************)
EXTENDS Startup, FiniteSetTheorems, SequenceTheorems, TLAPS

-----------------------------------------------------------------------------
(* The inductive invariant.                                                *)

Data(m, s) == m.kind \in {"snapshot", "update"} /\ m.sym = s
InHand(s)  == ws.pc = "received" /\ Data(ws.msg, s)

\* An Open event waits to be handled, or is being handled.
OpenWaits == stream # << >> /\ Head(stream) = Opened
OpenAhead == OpenWaits \/ (ws.pc = "received" /\ ws.msg = Opened)
Fresh     == OpenWaits \/ ws.msg = Opened

InStart == starter \in {"connecting", "subscribing", "waiting", "abortConnect", "abortWait"}

\* What is on the line: nothing without a connection; the Open event first; nothing
\* else before the subscription, which is sent once on every connection.
LineInv ==
    /\ socket \in {"closed", "connecting"} => ws = IdleWs /\ stream = << >>
    /\ \A i \in DOMAIN stream : stream[i] = Opened => i = 1 /\ ws = IdleWs
    /\ ws.pc \in {"resetPending", "resubscribe"} => ws.msg = Opened /\ wsConnected
    /\ ws.pc = "snapshotApplied" => ws.msg.kind = "snapshot"
    /\ Fresh \/ ~wsConnected \/ starter \in {"connecting", "subscribing"} =>
          /\ socket = "open" => \A s \in Symbols : subscription[s] = "none"
          /\ \A i \in DOMAIN stream : stream[i] = Opened
          /\ ws.msg \in {Opened, Nothing}

\* start() and the watchdog do not run at the same time, and start() has one
\* connection.
StarterInv ==
    /\ dog = "stopped" => socket = "closed"
    /\ starter \in {"out", "failed", "stopped"} => socket = "closed"
    /\ starter \in {"subscribing", "waiting", "abortWait"} => wsConnected
    /\ starter = "abortConnect" => ~wsConnected
    /\ InStart /\ wsConnected => ~Fresh /\ socket # "connecting"
    /\ starter \in {"connecting", "subscribing"} => pendingSnapshots = Symbols
    /\ starter = "waiting" /\ ~subscribeError =>
          \A s \in Symbols \ pendingSnapshots :
              book[s].applied \/ subscription[s] = "refused"

\* What comes next for the book of s is event n, as far as a book is kept.
Awaits(s, n) ==
    IF InHand(s) THEN ws.msg.id = n - 1
    ELSE book[s].applied => Seen(s) = 1 .. n - 1

\* The messages of s ahead of position i in the stream end with event n - 1.
Precedes(s, i, n) ==
    \/ \E j \in 1 .. i - 1 :
          /\ Data(stream[j], s) /\ stream[j].id = n - 1
          /\ \A k \in j + 1 .. i - 1 : ~Data(stream[k], s)
    \/ /\ \A j \in 1 .. i - 1 : ~Data(stream[j], s)
       /\ Awaits(s, n)

\* Updates come one after the other, behind at most one snapshot, and end with the
\* last event of the exchange.
ChainInv(s) ==
    /\ InHand(s) /\ ws.msg.kind = "update" /\ book[s].applied => Seen(s) = 1 .. ws.msg.id - 1
    /\ InHand(s) /\ ws.msg.kind = "snapshot" => ~book[s].applied
    /\ InHand(s) => ws.msg.id <= exLast[s]
    /\ \A i \in DOMAIN stream : Data(stream[i], s) =>
          /\ stream[i].id <= exLast[s]
          /\ stream[i].kind = "update" => Precedes(s, i, stream[i].id)
          /\ stream[i].kind = "snapshot" =>
                /\ ~InHand(s) /\ ~book[s].applied
                /\ \A j \in 1 .. i - 1 : ~Data(stream[j], s)
    /\ Serving(s) => Precedes(s, Len(stream) + 1, exLast[s] + 1)

\* Without a subscription nothing comes and, unless the Open event is still ahead, there
\* is no book.
UnservedInv(s) ==
    socket = "open" /\ subscription[s] # "serving" =>
        /\ ~InHand(s) /\ \A i \in DOMAIN stream : ~Data(stream[i], s)
        /\ OpenAhead \/ ~book[s].applied

\* Who is rejected by name has been refused.
RejectInv(s) ==
    /\ ws.msg.kind = "reject" /\ ws.msg.sym = s => subscription[s] = "refused"
    /\ \A i \in DOMAIN stream :
          stream[i].kind = "reject" /\ stream[i].sym = s => subscription[s] = "refused"

\* A book is what the messages handled so far make of it.
BookInv(s) ==
    /\ ~wsConnected \/ ws.pc \in {"resetPending", "resubscribe"} =>
          book[s] = ClearedBook /\ missed[s] = {}
    /\ ws.pc = "snapshotApplied" /\ ws.msg.sym = s => book[s].applied
    /\ \A n \in Seen(s) : book[s].applied => n <= exLast[s]
    /\ book[s].applied => \E n \in Events : Seen(s) = 1 .. n
    /\ book[s].content \cap missed[s] = {}
    /\ ~book[s].applied => book[s].content = {}

SymbolInv(s) == ChainInv(s) /\ UnservedInv(s) /\ RejectInv(s) /\ BookInv(s)

FeedInv == LineInv /\ StarterInv /\ \A s \in Symbols : SymbolInv(s)

\* Adapters that have been started, and not stopped.
Begun   == {runtimes[j] : j \in 1 .. main.i - 1}
Pending == {toStop[j] : j \in DOMAIN toStop}

\* Which adapters may run, by where main is: those it has started, later those it has
\* yet to stop.
MainInv ==
    /\ main.pc \in {"starting", "backoff"} => main.i <= Len(runtimes)
    /\ main.pc \in {"start", "starting", "backoff", "serving"} =>
          /\ starter \in {"out", "failed"} \/ InStart \/ starter = "started"
          /\ starter = "started" => Kraken \in Begun \/ Starting(Kraken)
          /\ InStart => Starting(Kraken)
          /\ binance = "running" => Binance \in Begun
          /\ binance = "starting" => Starting(Binance)
    /\ main.pc \in {"stop", "stopping", "left"} =>
          /\ starter = "started" => Kraken \in Pending
          /\ binance # "off" => Binance \in Pending
          /\ ~InStart
    /\ main.pc \in {"stop", "left"} => starter # "stopping"
    /\ main.pc = "left" => toStop = << >>

IInv == TypeOK /\ FeedInv /\ MainInv

-----------------------------------------------------------------------------
(* Types.                                                                  *)

\* What the fields of a message are.
LEMMA MessageFields ==
    ASSUME NEW m \in Messages
    PROVE  /\ m.kind \in MessageKinds
           /\ m.sym \in Symbols \cup {NoSymbol}
           /\ m.id \in Nat
           /\ m.kind = "open" <=> m = Opened
           /\ m.kind = "reject" => m.id = 0 /\ m.ok = TRUE
           /\ m.kind \in {"snapshot", "update"} =>
                 m.sym \in Symbols /\ m.id \in Events /\ m.id >= 1 /\ m.ok \in BOOLEAN
           /\ m # Nothing
<1> USE KrakenAssumption
<1>1. Events \subseteq Nat /\ \A n \in Events : n >= 1 BY DEF Events
<1>2. CASE m = Opened
  BY <1>2 DEF Opened, Nothing, MessageKinds
<1>3. CASE m \in [kind : {"snapshot", "update"}, sym : Symbols, id : Events, ok : BOOLEAN]
  <2>1. m.kind \in {"snapshot", "update"} /\ m.sym \in Symbols /\ m.id \in Events /\ m.ok \in BOOLEAN
    BY <1>3
  <2>2. m # Opened /\ m # Nothing BY <2>1 DEF Opened, Nothing
  <2> QED BY <1>1, <2>1, <2>2 DEF MessageKinds
<1>4. CASE m \in [kind : {"reject"}, sym : Symbols \cup {NoSymbol}, id : {0}, ok : {TRUE}]
  <2>1. m.kind = "reject" /\ m.sym \in Symbols \cup {NoSymbol} /\ m.id = 0 /\ m.ok = TRUE
    BY <1>4
  <2>2. m # Opened /\ m # Nothing BY <2>1 DEF Opened, Nothing
  <2> QED BY <2>1, <2>2 DEF MessageKinds
<1> QED BY <1>2, <1>3, <1>4 DEF Messages

\* The messages the exchange sends are messages.
LEMMA MessagesSent ==
    ASSUME NEW s \in Symbols
    PROVE  /\ \A kind \in {"snapshot", "update"}, id \in Events, ok \in BOOLEAN :
                 [kind |-> kind, sym |-> s, id |-> id, ok |-> ok] \in Messages
           /\ \A named \in {s, NoSymbol} :
                 [kind |-> "reject", sym |-> named, id |-> 0, ok |-> TRUE] \in Messages
           /\ Opened \in Messages
BY DEF Messages

\* The events up to one of the exchange are events.
LEMMA EventsUpTo ==
    /\ 1 \in Events
    /\ \A n \in Events : n \in Nat /\ n >= 1 /\ 1 .. n \subseteq Events
    /\ \A n \in Nat : 1 <= n /\ n <= MaxEvents => n \in Events
BY KrakenAssumption DEF Events

\* What is on the line is handled by its kind.
LEMMA InHandType ==
    ASSUME FeedTypeOK, ws.pc # "idle"
    PROVE  ws.msg \in Messages
BY DEF FeedTypeOK, ConnectionOK, IdleWs, Nothing

\* The WebSocket thread.
LEMMA WsKeepsType ==
    ASSUME FeedTypeOK, WsStep PROVE FeedTypeOK'
<1> USE KrakenAssumption, ConnectionAssumption DEF FeedTypeOK, ConnectionOK
<1>1. CASE WsReceives
  <2>1. Head(stream) \in Messages /\ Tail(stream) \in Seq(Messages)
    BY <1>1 DEF WsReceives, Receive
  <2>2. Head(stream) # Nothing BY <2>1, MessageFields
  <2> QED BY <1>1, <2>1, <2>2 DEF WsReceives, Receive, serverVars, feedVars, WsPcs
<1>2. CASE FirstOpen
  BY <1>2 DEF FirstOpen, wsFrame, Handling, IdleWs, Nothing, WsPcs
<1>3. CASE ReopenClear
  BY <1>3, SMTT(60) DEF ReopenClear, wsFrame, Handling, ClearedBook, BookType, WsPcs, IdleWs, Nothing
<1>4. CASE ReopenPending
  BY <1>4, ZenonT(60) DEF ReopenPending, wsFrame, WsPcs, IdleWs, Nothing
<1>5. CASE ReopenSubscribes
  BY <1>5 DEF ReopenSubscribes, wsFrame, feedVars, Subscribes, IdleWs, Nothing, WsPcs
<1>6. CASE HandleSnapshot
  <2>1. ws.msg.sym \in Symbols /\ 1 .. ws.msg.id \in SUBSET Events
    BY <1>6, InHandType, MessageFields, EventsUpTo DEF HandleSnapshot, Handling
  <2>2. book' \in [Symbols -> BookType]
    BY <1>6, <2>1 DEF HandleSnapshot, BookType
  <2>3. missed' \in [Symbols -> SUBSET (Events \cup {0})]
    BY <1>6, <2>1 DEF HandleSnapshot
  <2>4. ws' \in [pc : WsPcs, msg : Messages \cup {Nothing}]
        /\ ws'.pc # "idle" /\ ws'.msg # Nothing
    BY <1>6 DEF HandleSnapshot, Handling, WsPcs
  <2> QED BY <1>6, <2>2, <2>3, <2>4 DEF HandleSnapshot, wsFrame
<1>7. CASE SnapshotArrived
  BY <1>7 DEF SnapshotArrived, wsFrame, IdleWs, Nothing, WsPcs
<1>8. CASE HandleUpdate
  <2>1. ws.msg.sym \in Symbols /\ ws.msg.id \in Events
    BY <1>8, InHandType, MessageFields DEF HandleUpdate, Handling
  <2>2. \A b \in BookType : [b EXCEPT !.content = @ \cup {ws.msg.id}] \in BookType
    BY <2>1 DEF BookType
  <2>3. book' \in [Symbols -> BookType]
    BY <1>8, <2>1, <2>2 DEF HandleUpdate
  <2> QED BY <1>8, <2>3 DEF HandleUpdate, wsFrame, IdleWs, Nothing, WsPcs
<1>9. CASE DropUpdate
  BY <1>9 DEF DropUpdate, wsFrame, feedVars, IdleWs, Nothing, WsPcs
<1>10. CASE DropMalformed
  <2>1. ws.msg.sym \in Symbols /\ ws.msg.id \in Events
    BY <1>10, InHandType, MessageFields DEF DropMalformed, Handling
  <2>2. missed' \in [Symbols -> SUBSET (Events \cup {0})]
    BY <1>10, <2>1 DEF DropMalformed
  <2> QED BY <1>10, <2>2 DEF DropMalformed, wsFrame, IdleWs, Nothing, WsPcs
<1>11. CASE SymbolRejected
  BY <1>11 DEF SymbolRejected, wsFrame, IdleWs, Nothing, WsPcs
<1>12. CASE AllRejected
  BY <1>12 DEF AllRejected, wsFrame, IdleWs, Nothing, WsPcs
<1> QED BY <1>1, <1>2, <1>3, <1>4, <1>5, <1>6, <1>7, <1>8, <1>9, <1>10, <1>11, <1>12 DEF WsStep

\* What the exchange sends.
LEMMA SendsType ==
    ASSUME stream \in Seq(Messages),
           used \in [malformed : 0 .. MaxMalformed, rejects : 0 .. MaxRejects],
           NEW s \in Symbols, NEW kind \in {"snapshot", "update"}, NEW id \in Events,
           Sends(kind, s, id)
    PROVE  /\ stream' \in Seq(Messages)
           /\ used' \in [malformed : 0 .. MaxMalformed, rejects : 0 .. MaxRejects]
<1>1. PICK m \in Messages : stream' = Append(stream, m)
  BY MessagesSent DEF Sends
<1>2. stream' \in Seq(Messages) BY <1>1, AppendProperties
<1>3. used' \in [malformed : 0 .. MaxMalformed, rejects : 0 .. MaxRejects]
  BY KrakenAssumption DEF Sends
<1> QED BY <1>2, <1>3

\* The exchange.
LEMMA ExchangeKeepsType ==
    ASSUME FeedTypeOK, Exchange PROVE FeedTypeOK'
<1> USE KrakenAssumption, ConnectionAssumption DEF FeedTypeOK, ConnectionOK
<1>2. ASSUME NEW s \in Symbols, ExchangeEvent(s) PROVE FeedTypeOK'
  <2>1. exLast[s] + 1 \in Events BY <1>2, EventsUpTo DEF ExchangeEvent
  <2>2. exLast' \in [Symbols -> Events] BY <1>2, <2>1 DEF ExchangeEvent
  <2>3. stream' \in Seq(Messages)
        /\ used' \in [malformed : 0 .. MaxMalformed, rejects : 0 .. MaxRejects]
    BY <1>2, <2>1, SendsType DEF ExchangeEvent
  <2> QED BY <1>2, <2>2, <2>3, SMTT(60) DEF ExchangeEvent, serverFrame, feedVars, IdleWs
<1>3. ASSUME NEW s \in Symbols, Accepts(s) PROVE FeedTypeOK'
  <2>1. stream' \in Seq(Messages)
        /\ used' \in [malformed : 0 .. MaxMalformed, rejects : 0 .. MaxRejects]
    BY <1>3, SendsType DEF Accepts
  <2> QED BY <1>3, <2>1 DEF Accepts, serverFrame, feedVars, IdleWs
<1>4. ASSUME NEW s \in Symbols, Rejects(s) PROVE FeedTypeOK'
  <2>1. PICK m \in Messages : stream' = Append(stream, m)
    BY <1>4, MessagesSent DEF Rejects
  <2>2. stream' \in Seq(Messages) BY <2>1, AppendProperties
  <2>3. used' \in [malformed : 0 .. MaxMalformed, rejects : 0 .. MaxRejects]
    BY <1>4, SMTT(60) DEF Rejects
  <2> QED BY <1>4, <2>2, <2>3, SMTT(60) DEF Rejects, serverFrame, feedVars
<1> QED BY <1>2, <1>3, <1>4 DEF Exchange

\* The network.
LEMMA NetworkKeepsType ==
    ASSUME FeedTypeOK, Network PROVE FeedTypeOK'
<1> USE KrakenAssumption, ConnectionAssumption DEF FeedTypeOK, ConnectionOK
<1> USE DEF serverVars, feedVars, IdleWs
<1>1. <<Opened>> \in Seq(Messages) BY DEF Messages
<1>2. CASE ConnectionOpens
  BY <1>1, <1>2 DEF ConnectionOpens, Opens
<1>3. CASE OpenFails /\ UNCHANGED <<serverVars, feedVars, starter>>
  BY <1>3 DEF OpenFails
<1>4. CASE ConnectionDies /\ UNCHANGED <<serverVars, feedVars, starter>>
  <2>1. trouble' \in [stalls : 0 .. MaxStalls, failedOpens : 0 .. MaxFailedOpens]
    <3>1. trouble' = [trouble EXCEPT !.stalls = @ + 1] /\ trouble.stalls < MaxStalls
      BY <1>4 DEF ConnectionDies
    <3>2. trouble.stalls + 1 \in 0 .. MaxStalls BY <3>1
    <3> HIDE DEF FeedTypeOK
    <3>3. trouble \in [stalls : 0 .. MaxStalls, failedOpens : 0 .. MaxFailedOpens]
      BY DEF FeedTypeOK
    <3> QED BY <3>1, <3>2, <3>3
  <2>2. stream' \in Seq(Messages) BY <1>1, <1>4, EmptySeq DEF ConnectionDies
  <2> QED BY <1>4, <2>1, <2>2 DEF ConnectionDies
<1>5. CASE DeadConnectionGoesOld /\ UNCHANGED <<serverVars, feedVars, starter>>
  BY <1>5 DEF DeadConnectionGoesOld
<1>6. CASE ConnectionGoesOld /\ UNCHANGED <<serverVars, feedVars, starter>>
  BY <1>6, SMTT(60) DEF ConnectionGoesOld
<1> QED BY <1>2, <1>3, <1>4, <1>5, <1>6 DEF Network

\* The watchdog.
LEMMA WatchdogKeepsType ==
    ASSUME FeedTypeOK, WatchdogStep PROVE FeedTypeOK'
<1> USE DEF FeedTypeOK, ConnectionOK, WatchdogStep, serverVars, feedVars, IdleWs
<1>1. CASE DogFires BY <1>1 DEF DogFires
<1>2. CASE DogZeroes BY <1>2 DEF DogZeroes
<1>3. CASE DogStopsSocket BY <1>3 DEF DogStopsSocket, SocketStops
<1>4. CASE DogStartsSocket BY <1>4 DEF DogStartsSocket
<1>5. CASE DogExits BY <1>5 DEF DogExits
<1> QED BY <1>1, <1>2, <1>3, <1>4, <1>5 DEF DogStep

\* start() and stop().
LEMMA StarterKeepsType ==
    ASSUME FeedTypeOK, StarterStep PROVE FeedTypeOK'
<1> USE DEF FeedTypeOK, ConnectionOK, starterFrame, serverVars, feedVars, IdleWs
<1>1. CASE ConnectTimesOut BY <1>1 DEF ConnectTimesOut
<1>2. CASE StartConnected BY <1>2 DEF StartConnected
<1>3. CASE StartSubscribes BY <1>3 DEF StartSubscribes, Subscribes, connectionVars
<1>4. CASE SnapshotsTimeOut BY <1>4 DEF SnapshotsTimeOut
<1>5. CASE StartRejected BY <1>5 DEF StartRejected
<1>6. CASE StartFails BY <1>6 DEF StartFails, SocketStops
<1>7. CASE StartReturns BY <1>7 DEF StartReturns
<1>8. CASE StopEnds BY <1>8 DEF StopEnds, SocketStops
<1> QED BY <1>1, <1>2, <1>3, <1>4, <1>5, <1>6, <1>7, <1>8 DEF StarterStep

\* A call of start(), on an adapter whose watchdog is off.
LEMMA StartKeepsType ==
    ASSUME FeedTypeOK, dog = "off", StartBegins PROVE FeedTypeOK'
BY DEF FeedTypeOK, ConnectionOK, StartBegins, serverVars, ClearedBook, BookType, IdleWs

\* A call of stop().
LEMMA StopKeepsType ==
    ASSUME FeedTypeOK, StopBegins PROVE FeedTypeOK'
BY DEF FeedTypeOK, ConnectionOK, StopBegins, starterFrame, serverVars, feedVars, IdleWs

\* What does not touch the feed.
LEMMA FeedTypeFrame ==
    ASSUME FeedTypeOK, UNCHANGED krakenVars PROVE FeedTypeOK'
BY DEF FeedTypeOK, ConnectionOK, krakenVars, connectionVars, serverVars, feedVars, IdleWs

-----------------------------------------------------------------------------
(* The main thread.                                                        *)

\* A configuration is a sequence of adapters, each at most once.
LEMMA RuntimesType ==
    ASSUME TypeOK
    PROVE  /\ runtimes \in Seq(Adapters) /\ Len(runtimes) \in Nat
           /\ \A i, j \in 1 .. Len(runtimes) : i # j => runtimes[i] # runtimes[j]
           /\ \A i \in 1 .. Len(runtimes) : runtimes[i] \in Adapters
           /\ main.i \in Nat /\ main.i >= 1 /\ main.i <= Len(runtimes) + 1
BY StartupAssumption, LenProperties, ElementOfSeq DEF TypeOK

\* start() is called on a Kraken adapter that is closed and has no thread.
LEMMA StartsClosed ==
    ASSUME TypeOK, MainInv, CallsStart, runtimes[main.i] = Kraken
    PROVE  starter \in {"out", "failed"} /\ dog = "off"
<1>1. main.pc = "start" /\ main.i \in 1 .. Len(runtimes)
  BY RuntimesType DEF CallsStart
<1>2. ~Starting(Kraken) BY <1>1 DEF Starting
<1>3. Kraken \notin Begun BY <1>1, RuntimesType DEF Begun
<1>4. starter \in {"out", "failed"} BY <1>1, <1>2, <1>3 DEF MainInv
<1> QED BY <1>4 DEF TypeOK, FeedTypeOK

\* What stop() is called on.
LEMMA PendingTail ==
    ASSUME toStop \in Seq(Adapters), toStop # << >>, toStop' = Tail(toStop)
    PROVE  /\ Head(toStop) \in Adapters
           /\ toStop' \in Seq(Adapters)
           /\ \A a \in Pending : a # Head(toStop) => a \in Pending'
<1>1. Head(toStop) \in Adapters /\ toStop' \in Seq(Adapters) OBVIOUS
<1>2. ASSUME NEW a \in Pending, a # Head(toStop) PROVE a \in Pending'
  <2>1. PICK j \in 1 .. Len(toStop) : a = toStop[j] BY <1>2 DEF Pending
  <2>2. j # 1 BY <1>2, <2>1
  <2>3. j - 1 \in 1 .. Len(toStop') /\ toStop'[j - 1] = toStop[j]
    BY <2>1, <2>2
  <2>4. j - 1 \in DOMAIN toStop' BY <1>1, <2>3
  <2> QED BY <2>1, <2>3, <2>4 DEF Pending
<1> QED BY <1>1, <1>2

\* main's steps keep the types.
LEMMA MainKeepsType ==
    ASSUME TypeOK, MainInv, MainStep PROVE TypeOK'
<1> USE DEF TypeOK
<1>0. runtimes' = runtimes
  BY DEF MainStep, CallsStart, BinanceStarts, KrakenStarted, KrakenFailed, TriesAgain, GivesUp,
         Serves, CallsStop, KrakenStopped, Leaves
<1>1. CASE CallsStart
  <2>1. FeedTypeOK'
    BY <1>1, StartsClosed, StartKeepsType, FeedTypeFrame DEF CallsStart
  <2>2. binance' \in {"off", "starting", "running"} BY <1>1 DEF CallsStart
  <2> QED BY <1>0, <1>1, <2>1, <2>2 DEF CallsStart, MainGoto
<1>2. CASE BinanceStarts
  <2>1. main.i + 1 \in 1 .. Len(runtimes) + 1
    BY <1>2, RuntimesType DEF MainInv, BinanceStarts, Starting
  <2>2. FeedTypeOK' BY <1>2, FeedTypeFrame DEF BinanceStarts
  <2>3. main' \in [pc : {"start", "starting", "backoff", "serving", "stop", "stopping", "left"},
                   i : 1 .. Len(runtimes) + 1, attempt : 1 .. MaxStartAttempts]
    BY <1>2, <2>1, StartupAssumption, SMTT(60) DEF BinanceStarts, MainGoto
  <2> QED BY <1>0, <1>2, <2>2, <2>3 DEF BinanceStarts
<1>3. CASE KrakenStarted
  <2>1. main.i + 1 \in 1 .. Len(runtimes) + 1
    BY <1>3, RuntimesType DEF MainInv, KrakenStarted, Starting
  <2>2. FeedTypeOK' BY <1>3, FeedTypeFrame DEF KrakenStarted
  <2> QED BY <1>0, <1>3, <2>1, <2>2, StartupAssumption DEF KrakenStarted
<1>4. CASE KrakenFailed
  <2>1. FeedTypeOK' BY <1>4, FeedTypeFrame DEF KrakenFailed
  <2> QED BY <1>0, <1>4, <2>1 DEF KrakenFailed, MainGoto
<1>5. CASE TriesAgain
  <2>1. FeedTypeOK' BY <1>5, FeedTypeFrame DEF TriesAgain
  <2>2. main.attempt + 1 \in 1 .. MaxStartAttempts
    BY <1>5, StartupAssumption DEF TriesAgain
  <2> QED BY <1>0, <1>5, <2>1, <2>2 DEF TriesAgain
<1>6. CASE GivesUp
  <2>1. FeedTypeOK' BY <1>6, FeedTypeFrame DEF GivesUp
  <2>2. main.i \in 1 .. Len(runtimes) BY <1>6, RuntimesType DEF MainInv, GivesUp
  <2>3. runtimes[main.i] \in Adapters BY <2>2, RuntimesType
  <2>4. SubSeq(runtimes, 1, main.i - 1) \in Seq(Adapters)
    BY <2>2, RuntimesType, SubSeqProperties
  <2>5. toStop' \in Seq(Adapters)
    BY <1>6, <2>3, <2>4, ConcatProperties DEF GivesUp
  <2> QED BY <1>0, <1>6, <2>1, <2>5 DEF GivesUp, MainGoto
<1>7. CASE Serves
  <2>1. FeedTypeOK' BY <1>7, FeedTypeFrame DEF Serves
  <2>2. toStop' \in Seq(Adapters) BY <1>7, RuntimesType DEF Serves
  <2> QED BY <1>0, <1>7, <2>1, <2>2 DEF Serves, MainGoto
<1>8. CASE CallsStop
  <2>1. FeedTypeOK' BY <1>8, StopKeepsType, FeedTypeFrame DEF CallsStop
  <2>2. toStop' \in Seq(Adapters) BY <1>8, PendingTail DEF CallsStop
  <2> QED BY <1>0, <1>8, <2>1, <2>2 DEF CallsStop, MainGoto
<1>9. CASE KrakenStopped
  <2>1. FeedTypeOK' BY <1>9, FeedTypeFrame DEF KrakenStopped
  <2> QED BY <1>0, <1>9, <2>1 DEF KrakenStopped, MainGoto
<1>10. CASE Leaves
  <2>1. FeedTypeOK' BY <1>10, FeedTypeFrame DEF Leaves
  <2> QED BY <1>0, <1>10, <2>1 DEF Leaves, MainGoto
<1> QED BY <1>1, <1>2, <1>3, <1>4, <1>5, <1>6, <1>7, <1>8, <1>9, <1>10 DEF MainStep

\* The feed's steps keep the types.
LEMMA FeedKeepsType ==
    ASSUME TypeOK, FeedStep, UNCHANGED startupVars PROVE TypeOK'
<1>1. FeedTypeOK'
  BY ExchangeKeepsType, NetworkKeepsType, WsKeepsType, WatchdogKeepsType, StarterKeepsType
  DEF FeedStep, TypeOK
<1> QED BY <1>1 DEF TypeOK, startupVars

\* main's steps keep what it knows of the adapters.
LEMMA MainKeepsMain ==
    ASSUME TypeOK, MainInv, MainStep PROVE MainInv'
<1> DEFINE M == {"start", "starting", "backoff", "serving"}
<1>1. CASE CallsStart
  <2>0. main.pc = "start" /\ main.i \in 1 .. Len(runtimes) /\ ~Starting(Kraken) /\ ~Starting(Binance)
    BY <1>1, RuntimesType DEF CallsStart, Starting
  <2>1. main' = [main EXCEPT !.pc = "starting"] /\ runtimes' = runtimes /\ toStop' = toStop
    BY <1>1 DEF CallsStart, MainGoto
  <2>2. main'.pc = "starting" /\ main'.i = main.i BY <2>1 DEF TypeOK
  <2>3. Begun' = Begun BY <2>1, <2>2 DEF Begun
  <2>4. CASE runtimes[main.i] = Kraken
    <3>1. starter' = "connecting" /\ binance' = binance
      BY <1>1, <2>4 DEF CallsStart, StartBegins
    <3>2. Starting(Kraken)' BY <2>1, <2>2, <2>4 DEF Starting
    <3> QED BY <2>0, <2>1, <2>2, <2>3, <3>1, <3>2 DEF MainInv, InStart, Starting
  <2>5. CASE runtimes[main.i] # Kraken
    <3>1. starter' = starter /\ binance' = "starting"
      BY <1>1, <2>5 DEF CallsStart, krakenVars
    <3>2. Starting(Binance)'
      BY <2>0, <2>1, <2>2, <2>5, RuntimesType DEF Starting, Adapters
    <3> QED BY <2>0, <2>1, <2>2, <2>3, <3>1, <3>2 DEF MainInv, InStart
  <2> QED BY <2>4, <2>5
<1>2. CASE BinanceStarts
  <2>0. main.pc = "starting" /\ runtimes[main.i] = Binance /\ main.i \in 1 .. Len(runtimes)
    BY <1>2, RuntimesType DEF BinanceStarts, Starting, MainInv
  <2>1. runtimes' = runtimes /\ toStop' = toStop /\ starter' = starter
    BY <1>2 DEF BinanceStarts, krakenVars
  <2>2. ~Starting(Kraken) BY <2>0 DEF Starting, Kraken, Binance
  <2>3. starter \in {"out", "failed"} \/ (starter = "started" /\ Kraken \in Begun)
    BY <2>0, <2>2 DEF MainInv
  <2>4. CASE binance' = "running" /\ main' = [pc |-> "start", i |-> main.i + 1, attempt |-> 1]
    <3>1. Begun \subseteq Begun' /\ Binance \in Begun'
      BY <2>0, <2>1, <2>4 DEF Begun
    <3> QED BY <2>1, <2>3, <2>4, <3>1 DEF MainInv, InStart
  <2>5. CASE binance' = "off" /\ MainGoto("backoff")
    <3>1. main'.pc = "backoff" /\ main'.i = main.i BY <2>5 DEF MainGoto, TypeOK
    <3>2. Begun' = Begun BY <2>1, <3>1 DEF Begun
    <3> QED BY <2>0, <2>1, <2>3, <2>5, <3>1, <3>2 DEF MainInv, InStart
  <2> QED BY <1>2, <2>4, <2>5 DEF BinanceStarts
<1>3. CASE KrakenStarted
  <2>0. main.pc = "starting" /\ runtimes[main.i] = Kraken /\ main.i \in 1 .. Len(runtimes)
    BY <1>3, RuntimesType DEF KrakenStarted, Starting, MainInv
  <2>1. /\ runtimes' = runtimes /\ toStop' = toStop
        /\ starter' = "started" /\ binance' = binance
        /\ main' = [pc |-> "start", i |-> main.i + 1, attempt |-> 1]
    BY <1>3 DEF KrakenStarted, krakenVars
  <2>2. Begun \subseteq Begun' /\ Kraken \in Begun' BY <2>0, <2>1 DEF Begun
  <2>3. binance # "starting" BY <2>0 DEF MainInv, Starting, Kraken, Binance
  <2> QED BY <2>0, <2>1, <2>2, <2>3 DEF MainInv, InStart
<1>4. CASE KrakenFailed
  <2>0. main.pc = "starting" /\ runtimes[main.i] = Kraken
    BY <1>4 DEF KrakenFailed, Starting
  <2>1. /\ runtimes' = runtimes /\ toStop' = toStop
        /\ starter' = "failed" /\ binance' = binance
        /\ main' = [main EXCEPT !.pc = "backoff"]
    BY <1>4 DEF KrakenFailed, krakenVars, MainGoto
  <2>2. main'.pc = "backoff" /\ main'.i = main.i BY <2>1 DEF TypeOK
  <2>3. Begun' = Begun BY <2>1, <2>2 DEF Begun
  <2>4. binance # "starting" BY <2>0 DEF MainInv, Starting, Kraken, Binance
  <2> QED BY <2>0, <2>1, <2>2, <2>3, <2>4 DEF MainInv, InStart
<1>5. CASE TriesAgain
  <2>1. /\ runtimes' = runtimes /\ toStop' = toStop
        /\ starter' = starter /\ binance' = binance
        /\ main.pc = "backoff" /\ main'.pc = "start" /\ main'.i = main.i
    BY <1>5 DEF TriesAgain, krakenVars, TypeOK
  <2>2. Begun' = Begun BY <2>1 DEF Begun
  <2> QED BY <2>1, <2>2 DEF MainInv, InStart, Starting
<1>6. CASE GivesUp
  <2>0. main.pc = "backoff" /\ main.i \in 1 .. Len(runtimes)
    BY <1>6, RuntimesType DEF GivesUp, MainInv
  <2>1. /\ runtimes' = runtimes /\ starter' = starter /\ binance' = binance
        /\ main'.pc = "stop" /\ main'.i = main.i
        /\ toStop' = <<runtimes[main.i]>> \o SubSeq(runtimes, 1, main.i - 1)
    BY <1>6 DEF GivesUp, krakenVars, MainGoto, TypeOK
  <2>2. ASSUME NEW j \in 1 .. main.i - 1 PROVE runtimes[j] \in Pending'
    <3>1. SubSeq(runtimes, 1, main.i - 1) \in Seq(Adapters)
          /\ Len(SubSeq(runtimes, 1, main.i - 1)) = main.i - 1
          /\ SubSeq(runtimes, 1, main.i - 1)[j] = runtimes[j]
      BY <2>0, <2>2, RuntimesType, SubSeqProperties
    <3>2. <<runtimes[main.i]>> \in Seq(Adapters) BY <2>0, RuntimesType
    <3>3. j + 1 \in DOMAIN toStop' /\ toStop'[j + 1] = runtimes[j]
      BY <2>1, <2>2, <3>1, <3>2, ConcatProperties
    <3> QED BY <3>3 DEF Pending
  <2>3. Begun \subseteq Pending' BY <2>2 DEF Begun
  <2>4. ~Starting(Kraken) /\ ~Starting(Binance) BY <2>0 DEF Starting
  <2>5. binance # "off" => binance \in {"starting", "running"} BY DEF TypeOK
  <2> QED BY <2>0, <2>1, <2>3, <2>4, <2>5 DEF MainInv, InStart
<1>7. CASE Serves
  <2>0. main.pc = "start" /\ main.i = Len(runtimes) + 1
    BY <1>7, RuntimesType DEF Serves
  <2>1. /\ runtimes' = runtimes /\ starter' = starter /\ binance' = binance
        /\ main'.i = main.i
    BY <1>7 DEF Serves, krakenVars, MainGoto, TypeOK
  <2>2. ~Starting(Kraken) /\ ~Starting(Binance) BY <2>0 DEF Starting
  <2>3. CASE MainGoto("serving") /\ UNCHANGED toStop
    <3>1. main'.pc = "serving" BY <2>3 DEF MainGoto, TypeOK
    <3>2. Begun' = Begun BY <2>1 DEF Begun
    <3> QED BY <2>0, <2>1, <2>2, <3>1, <3>2 DEF MainInv, InStart
  <2>4. CASE MainGoto("stop") /\ toStop' = runtimes
    <3>1. main'.pc = "stop" BY <2>4 DEF MainGoto, TypeOK
    <3>2. Begun \subseteq Pending' BY <2>0, <2>4, RuntimesType DEF Begun, Pending
    <3>3. binance # "off" => binance \in {"starting", "running"} BY DEF TypeOK
    <3> QED BY <2>0, <2>1, <2>2, <3>1, <3>2, <3>3 DEF MainInv, InStart
  <2> QED BY <1>7, <2>3, <2>4 DEF Serves
<1>8. CASE CallsStop
  <2>0. main.pc = "stop" /\ toStop # << >> /\ toStop' = Tail(toStop) /\ toStop \in Seq(Adapters)
    BY <1>8 DEF CallsStop, TypeOK
  <2>1. CASE Head(toStop) = Kraken
    <3>1. starter' = "stopping" /\ binance' = binance /\ main'.pc = "stopping"
      BY <1>8, <2>1 DEF CallsStop, StopBegins, MainGoto, TypeOK
    <3>2. Binance \in Pending => Binance \in Pending'
      BY <2>0, <2>1, PendingTail DEF Kraken, Binance
    <3> QED BY <2>0, <3>1, <3>2 DEF MainInv, InStart
  <2>2. CASE Head(toStop) # Kraken
    <3>1. starter' = starter /\ binance' = "off" /\ main' = main
      BY <1>8, <2>2 DEF CallsStop, krakenVars
    <3>2. Kraken \in Pending => Kraken \in Pending' BY <2>0, <2>2, PendingTail
    <3> QED BY <2>0, <3>1, <3>2 DEF MainInv, InStart
  <2> QED BY <2>1, <2>2
<1>9. CASE KrakenStopped
  <2>1. /\ toStop' = toStop /\ binance' = binance /\ starter' = "stopped"
        /\ main.pc = "stopping" /\ main'.pc = "stop"
    BY <1>9 DEF KrakenStopped, krakenVars, MainGoto, TypeOK
  <2>2. Pending' = Pending BY <2>1 DEF Pending
  <2> QED BY <2>1, <2>2 DEF MainInv, InStart
<1>10. CASE Leaves
  <2>1. /\ toStop' = toStop /\ binance' = binance /\ starter' = starter
        /\ main.pc = "stop" /\ toStop = << >> /\ main'.pc = "left"
    BY <1>10 DEF Leaves, krakenVars, MainGoto, TypeOK
  <2>2. Pending' = Pending BY <2>1 DEF Pending
  <2> QED BY <2>1, <2>2 DEF MainInv, InStart
<1> QED BY <1>1, <1>2, <1>3, <1>4, <1>5, <1>6, <1>7, <1>8, <1>9, <1>10 DEF MainStep

\* So do the feed's: start() and stop() run only when main waits for them.
LEMMA FeedKeepsMain ==
    ASSUME TypeOK, MainInv, FeedStep, UNCHANGED startupVars PROVE MainInv'
<1>1. /\ main' = main /\ toStop' = toStop /\ runtimes' = runtimes /\ binance' = binance
      /\ Begun' = Begun /\ Pending' = Pending
      /\ Starting(Kraken)' = Starting(Kraken) /\ Starting(Binance)' = Starting(Binance)
  BY DEF startupVars, Begun, Pending, Starting
<1>2. \/ starter' = starter
      \/ InStart /\ (InStart' \/ starter' \in {"failed", "started"})
      \/ starter = "stopping" /\ starter' = "stopped"
  <2>1. CASE Exchange
    BY <2>1 DEF Exchange, ExchangeEvent, Accepts, Rejects, serverFrame
  <2>2. CASE Network BY <2>2 DEF Network, ConnectionOpens
  <2>3. CASE WsStep
    BY <2>3 DEF WsStep, WsReceives, FirstOpen, ReopenClear, ReopenPending, ReopenSubscribes,
                HandleSnapshot, SnapshotArrived, HandleUpdate, DropUpdate, DropMalformed,
                SymbolRejected, AllRejected, wsFrame
  <2>4. CASE WatchdogStep BY <2>4 DEF WatchdogStep
  <2>5. CASE StarterStep
    BY <2>5 DEF StarterStep, ConnectTimesOut, StartConnected, StartSubscribes, SnapshotsTimeOut,
                StartRejected, StartFails, StartReturns, StopEnds, InStart
  <2> QED BY <2>1, <2>2, <2>3, <2>4, <2>5 DEF FeedStep
<1>3. CASE starter' = starter BY <1>1, <1>3 DEF MainInv, InStart
<1>4. CASE InStart /\ (InStart' \/ starter' \in {"failed", "started"})
  <2>1. main.pc = "starting" /\ Starting(Kraken)
    BY <1>4 DEF MainInv, Starting, TypeOK
  <2> QED BY <1>1, <1>4, <2>1 DEF MainInv
<1>5. CASE starter = "stopping" /\ starter' = "stopped"
  <2>1. main.pc = "stopping" BY <1>5 DEF MainInv, TypeOK, InStart
  <2> QED BY <1>1, <1>5, <2>1 DEF MainInv, InStart
<1> QED BY <1>2, <1>3, <1>4, <1>5

-----------------------------------------------------------------------------
(* The chain of events on the line.                                        *)

\* The stream as a sequence.
LEMMA StreamFacts ==
    ASSUME FeedTypeOK
    PROVE  /\ stream \in Seq(Messages) /\ Len(stream) \in Nat
           /\ DOMAIN stream = 1 .. Len(stream)
           /\ \A i \in 1 .. Len(stream) : stream[i] \in Messages
           /\ \A s \in Symbols : exLast[s] \in Nat /\ exLast[s] >= 1
           /\ stream # << >> => Len(stream) >= 1 /\ Head(stream) = stream[1]
<1>1. stream \in Seq(Messages) BY DEF FeedTypeOK, ConnectionOK
<1>2. \A s \in Symbols : exLast[s] \in Nat /\ exLast[s] >= 1
  BY EventsUpTo DEF FeedTypeOK
<1> QED BY <1>1, <1>2, LenProperties, ElementOfSeq

\* A message is appended to the stream.
LEMMA StreamAppend ==
    ASSUME FeedTypeOK, NEW m, stream' = Append(stream, m)
    PROVE  /\ DOMAIN stream' = 1 .. Len(stream) + 1 /\ Len(stream') = Len(stream) + 1
           /\ \A i \in 1 .. Len(stream) : stream'[i] = stream[i]
           /\ stream'[Len(stream) + 1] = m
           /\ m # Opened => (OpenWaits' <=> OpenWaits)
<1>1. stream \in Seq(Messages \cup {m}) BY StreamFacts
<1>2. /\ DOMAIN stream' = 1 .. Len(stream) + 1 /\ Len(stream') = Len(stream) + 1
      /\ \A i \in 1 .. Len(stream) : stream'[i] = stream[i]
      /\ stream'[Len(stream) + 1] = m
  BY <1>1, AppendProperties
<1>3. stream' # << >> /\ Head(stream') = stream'[1] BY <1>1, <1>2
<1> QED BY <1>2, <1>3, StreamFacts DEF OpenWaits

\* The first message is taken from the stream.
LEMMA StreamTail ==
    ASSUME FeedTypeOK, stream # << >>, stream' = Tail(stream)
    PROVE  /\ DOMAIN stream' = 1 .. Len(stream) - 1 /\ Len(stream') = Len(stream) - 1
           /\ \A i \in 1 .. Len(stream) - 1 : stream'[i] = stream[i + 1]
           /\ stream' # << >> => Head(stream') = stream[2] /\ 2 \in DOMAIN stream
<1>1. /\ DOMAIN stream' = 1 .. Len(stream) - 1 /\ Len(stream') = Len(stream) - 1
      /\ \A i \in 1 .. Len(stream) - 1 : stream'[i] = stream[i + 1]
  BY StreamFacts
<1>2. stream' \in Seq(Messages) BY StreamFacts
<1>3. stream' # << >> => Head(stream') = stream[2] /\ 2 \in DOMAIN stream
  BY <1>1, <1>2, StreamFacts
<1> QED BY <1>1, <1>3

\* What comes next stays the same for a symbol the step does not touch.
LEMMA PrecedesFrame ==
    ASSUME NEW s, NEW i, NEW n, Precedes(s, i, n), stream' = stream,
           Awaits(s, n) => Awaits(s, n)'
    PROVE  Precedes(s, i, n)'
BY DEF Precedes

\* So does the whole chain, unless the exchange begins to serve.
LEMMA ChainFrame ==
    ASSUME NEW s \in Symbols, ChainInv(s), stream' = stream, exLast' = exLast,
           InHand(s)' <=> InHand(s), InHand(s) => ws'.msg = ws.msg,
           book'[s] = book[s], missed'[s] = missed[s], Serving(s)' => Serving(s)
    PROVE  ChainInv(s)'
<1>1. Seen(s)' = Seen(s) BY DEF Seen
<1>2. \A n : Awaits(s, n) => Awaits(s, n)' BY <1>1 DEF Awaits
<1>3. \A i, n : Precedes(s, i, n) => Precedes(s, i, n)' BY <1>2, PrecedesFrame
<1> QED BY <1>1, <1>3 DEF ChainInv

\* Nothing of the symbol is on the line, and nothing more will come: there is no
\* chain, except for the message that is being handled.
LEMMA QuietChain ==
    ASSUME NEW s \in Symbols, ~Serving(s)',
           \A i \in DOMAIN stream' : ~Data(stream'[i], s),
           \/ ~InHand(s)'
           \/ /\ ChainInv(s) /\ ws' = ws /\ exLast' = exLast
              /\ book'[s] = book[s] /\ missed'[s] = missed[s]
    PROVE  ChainInv(s)'
<1>1. CASE ~InHand(s)' BY <1>1 DEF ChainInv
<1>2. CASE /\ ChainInv(s) /\ ws' = ws /\ exLast' = exLast
           /\ book'[s] = book[s] /\ missed'[s] = missed[s]
  BY <1>2 DEF ChainInv, InHand, Seen
<1> QED BY <1>1, <1>2

\* The message in hand has been handled: the book now reflects everything up to it.
LEMMA HandledChain ==
    ASSUME NEW s \in Symbols, FeedTypeOK, ChainInv(s), InHand(s), ~InHand(s)',
           stream' = stream, exLast' = exLast, Serving(s)' => Serving(s),
           book'[s].applied => Seen(s)' = 1 .. ws.msg.id
    PROVE  ChainInv(s)'
<1>1. ws.msg.id \in Nat BY InHandType, MessageFields DEF InHand
<1>2. ASSUME NEW n \in Int, Awaits(s, n) PROVE Awaits(s, n)'
  <2>1. n - 1 = ws.msg.id BY <1>2 DEF Awaits
  <2> QED BY <2>1 DEF Awaits
<1>3. \A i : \A n \in Int : Precedes(s, i, n) => Precedes(s, i, n)'
  BY <1>2, PrecedesFrame
<1>4. ASSUME NEW i \in DOMAIN stream', Data(stream'[i], s)
      PROVE  /\ stream'[i].id <= exLast'[s]
             /\ stream'[i].kind = "update" => Precedes(s, i, stream[i].id)'
             /\ stream'[i].kind # "snapshot"
  <2>1. stream[i] \in Messages BY StreamFacts
  <2>2. stream[i].id \in Nat BY <2>1, MessageFields
  <2> QED BY <1>3, <1>4, <2>2 DEF ChainInv
<1>5. exLast[s] + 1 \in Int BY StreamFacts
<1> QED BY <1>3, <1>4, <1>5 DEF ChainInv

\* A message is received: everything behind it moves up.
LEMMA ReceivedPrecedes ==
    ASSUME NEW s \in Symbols, FeedTypeOK, WsReceives,
           NEW i \in 1 .. Len(stream), NEW n \in Int, Precedes(s, i + 1, n)
    PROVE  Precedes(s, i, n)'
<1>1. stream # << >> /\ ws = IdleWs /\ stream' = Tail(stream)
      /\ ws' = [pc |-> "received", msg |-> stream[1]]
      /\ UNCHANGED <<book, missed>>
  BY StreamFacts DEF WsReceives, Receive, feedVars
<1>2. /\ ~InHand(s) BY <1>1 DEF InHand, IdleWs
<1>3. InHand(s)' <=> Data(stream[1], s) BY <1>1 DEF InHand
<1>4. \A k \in 1 .. i - 1 : stream'[k] = stream[k + 1]
  BY <1>1, StreamTail, StreamFacts
<1>5. Seen(s)' = Seen(s) BY <1>1 DEF Seen
<1>6. CASE \E j \in 1 .. i :
             /\ Data(stream[j], s) /\ stream[j].id = n - 1
             /\ \A k \in j + 1 .. i : ~Data(stream[k], s)
  <2>1. PICK j \in 1 .. i :
             /\ Data(stream[j], s) /\ stream[j].id = n - 1
             /\ \A k \in j + 1 .. i : ~Data(stream[k], s)
    BY <1>6
  <2>2. CASE j = 1
    <3>1. \A k \in 1 .. i - 1 : ~Data(stream'[k], s) BY <1>4, <2>1, <2>2
    <3>2. Awaits(s, n)' BY <1>1, <1>3, <2>1, <2>2 DEF Awaits
    <3> QED BY <3>1, <3>2 DEF Precedes
  <2>3. CASE j # 1
    <3>1. j - 1 \in 1 .. i - 1 BY <2>3
    <3>2. Data(stream'[j - 1], s) /\ stream'[j - 1].id = n - 1 BY <1>4, <2>1, <3>1
    <3>3. \A k \in (j - 1) + 1 .. i - 1 : ~Data(stream'[k], s)
      <4>1. ASSUME NEW k \in (j - 1) + 1 .. i - 1 PROVE ~Data(stream'[k], s)
        <5>1. k \in 1 .. i - 1 /\ k + 1 \in j + 1 .. i BY <4>1, <2>3
        <5> QED BY <1>4, <2>1, <5>1
      <4> QED BY <4>1
    <3> QED BY <3>1, <3>2, <3>3 DEF Precedes
  <2> QED BY <2>2, <2>3
<1>7. CASE (\A j \in 1 .. i : ~Data(stream[j], s)) /\ Awaits(s, n)
  <2>1. \A k \in 1 .. i - 1 : ~Data(stream'[k], s)
    BY <1>4, <1>7
  <2>2. ~InHand(s)' BY <1>3, <1>7
  <2>3. Awaits(s, n)' BY <1>1, <1>2, <1>5, <1>7, <2>2 DEF Awaits
  <2> QED BY <2>1, <2>3 DEF Precedes
<1> QED BY <1>6, <1>7 DEF Precedes

\* A received message continues the chain of its symbol.
LEMMA ReceivedChain ==
    ASSUME NEW s \in Symbols, FeedTypeOK, ChainInv(s), WsReceives
    PROVE  ChainInv(s)'
<1>1. /\ stream # << >> /\ ws = IdleWs /\ stream' = Tail(stream)
      /\ ws' = [pc |-> "received", msg |-> stream[1]]
      /\ UNCHANGED <<socket, book, missed, exLast, subscription>>
  BY StreamFacts DEF WsReceives, Receive, feedVars, serverVars
<1>2. ~InHand(s) BY <1>1 DEF InHand, IdleWs
<1>3. InHand(s)' <=> Data(stream[1], s) BY <1>1 DEF InHand
<1>4. Seen(s)' = Seen(s) /\ Serving(s)' = Serving(s) BY <1>1 DEF Seen, Serving
<1>5. 1 \in DOMAIN stream BY <1>1, StreamFacts
<1>6. ASSUME InHand(s)'
      PROVE  /\ ws'.msg.id <= exLast'[s]
             /\ ws'.msg.kind = "update" /\ book'[s].applied => Seen(s)' = 1 .. ws'.msg.id - 1
             /\ ws'.msg.kind = "snapshot" => ~book'[s].applied
  <2>1. Data(stream[1], s) BY <1>3, <1>6
  <2>2. stream[1].kind = "update" => Awaits(s, stream[1].id)
    BY <1>5, <2>1 DEF ChainInv, Precedes
  <2> QED BY <1>1, <1>2, <1>4, <1>5, <2>1, <2>2 DEF ChainInv, Awaits
<1>7. ASSUME NEW i \in DOMAIN stream', Data(stream'[i], s)
      PROVE  /\ stream'[i].id <= exLast'[s]
             /\ stream'[i].kind = "update" => Precedes(s, i, stream[i].id)'
             /\ stream'[i].kind = "snapshot" =>
                    /\ ~InHand(s)' /\ ~book'[s].applied
                    /\ \A j \in 1 .. i - 1 : ~Data(stream'[j], s)
  <2>1. /\ i \in 1 .. Len(stream) - 1 /\ i \in 1 .. Len(stream)
        /\ i + 1 \in DOMAIN stream /\ stream'[i] = stream[i + 1]
    BY <1>1, <1>7, StreamTail, StreamFacts
  <2>0. stream[i + 1] \in Messages BY <2>1, StreamFacts
  <2>2. stream[i + 1].id \in Nat BY <2>0, MessageFields
  <2>3. stream'[i].kind = "update" => Precedes(s, i, stream[i].id)'
    BY <1>7, <2>1, <2>2, ReceivedPrecedes DEF ChainInv
  <2>4. ASSUME stream'[i].kind = "snapshot"
        PROVE  /\ ~InHand(s)' /\ ~book'[s].applied
               /\ \A j \in 1 .. i - 1 : ~Data(stream'[j], s)
    <3>1. ~book[s].applied /\ \A j \in 1 .. i : ~Data(stream[j], s)
      BY <1>7, <2>1, <2>4 DEF ChainInv
    <3>2. \A j \in 1 .. i - 1 : stream'[j] = stream[j + 1] /\ j + 1 \in 1 .. i
      BY <1>1, <2>1, StreamTail, StreamFacts
    <3> QED BY <1>1, <1>3, <2>1, <3>1, <3>2
  <2> QED BY <1>1, <1>7, <2>1, <2>3, <2>4 DEF ChainInv
<1>8. Serving(s)' => Precedes(s, Len(stream) + 1, exLast[s] + 1)'
  <2>0. Len(stream) \in 1 .. Len(stream) BY <1>1, StreamFacts
  <2>1. PICK i \in 1 .. Len(stream) : i = Len(stream) BY <2>0
  <2>2. PICK n \in Int : n = exLast[s] + 1 BY StreamFacts
  <2>3. Serving(s)' => Precedes(s, i, n)'
    BY <1>4, <2>1, <2>2, ReceivedPrecedes DEF ChainInv
  <2>4. Len(stream') + 1 = i /\ exLast'[s] + 1 = n
    BY <1>1, <2>1, <2>2, StreamTail, StreamFacts
  <2> QED BY <2>3, <2>4
<1> QED BY <1>6, <1>7, <1>8 DEF ChainInv

\* A message more does not change what is ahead of the others.
LEMMA SentPrecedes ==
    ASSUME NEW s \in Symbols, FeedTypeOK, NEW m, stream' = Append(stream, m),
           UNCHANGED <<ws, book, missed>>,
           NEW i \in 1 .. Len(stream) + 1, NEW n, Precedes(s, i, n)
    PROVE  Precedes(s, i, n)'
<1>1. \A j \in 1 .. i - 1 : stream'[j] = stream[j]
  BY StreamAppend, StreamFacts
<1>2. Awaits(s, n)' = Awaits(s, n) BY DEF Awaits, InHand, Seen
<1>3. \A j \in 1 .. i - 1 : \A k \in j + 1 .. i - 1 : k \in 1 .. i - 1 BY StreamFacts
<1> QED BY <1>1, <1>2, <1>3 DEF Precedes

\* A message that continues the chain of its symbol, or is of none.
LEMMA SentChain ==
    ASSUME NEW s \in Symbols, FeedTypeOK, FeedTypeOK', ChainInv(s), NEW m, m # Opened,
           stream' = Append(stream, m), UNCHANGED <<socket, ws, book, missed>>,
           exLast'[s] >= exLast[s],
           IF Data(m, s)
           THEN /\ Serving(s)' => m.id = exLast'[s]
                /\ m.id <= exLast'[s]
                /\ m.kind = "update" => Precedes(s, Len(stream) + 1, m.id)
                /\ m.kind = "snapshot" =>
                      /\ ~InHand(s) /\ ~book[s].applied
                      /\ \A j \in DOMAIN stream : ~Data(stream[j], s)
           ELSE Serving(s)' => Serving(s) /\ exLast'[s] = exLast[s]
    PROVE  ChainInv(s)'
<1>1. /\ DOMAIN stream' = 1 .. Len(stream) + 1 /\ Len(stream') = Len(stream) + 1
      /\ \A i \in 1 .. Len(stream) : stream'[i] = stream[i]
      /\ stream'[Len(stream) + 1] = m
      /\ Len(stream) \in Nat /\ DOMAIN stream = 1 .. Len(stream)
      /\ exLast[s] \in Nat /\ exLast'[s] \in Nat
  BY StreamAppend, StreamFacts DEF FeedTypeOK, Events
<1>2. (InHand(s)' <=> InHand(s)) /\ Seen(s)' = Seen(s) BY DEF InHand, Seen
<1>3. InHand(s) => ws.msg.id \in Nat
  BY InHandType, MessageFields DEF InHand
<1>4. ASSUME NEW i \in 1 .. Len(stream), Data(stream'[i], s)
      PROVE  /\ stream'[i].id <= exLast'[s]
             /\ stream'[i].kind = "update" => Precedes(s, i, stream[i].id)'
             /\ stream'[i].kind = "snapshot" =>
                    /\ ~InHand(s)' /\ ~book'[s].applied
                    /\ \A j \in 1 .. i - 1 : ~Data(stream'[j], s)
  <2>1. stream[i].id \in Nat BY StreamFacts, MessageFields, ZenonT(60)
  <2>2. i \in DOMAIN stream /\ stream'[i] = stream[i] BY <1>1
  <2>3. stream'[i].id <= exLast'[s] BY <1>1, <1>4, <2>1, <2>2 DEF ChainInv
  <2>4. i \in 1 .. Len(stream) + 1 BY <1>1
  <2>5. stream'[i].kind = "update" => Precedes(s, i, stream[i].id)'
    BY <1>4, <2>2, <2>4, SentPrecedes DEF ChainInv
  <2>6. \A j \in 1 .. i - 1 : stream'[j] = stream[j] BY <1>1
  <2> QED BY <1>2, <1>4, <2>2, <2>3, <2>5, <2>6 DEF ChainInv
<1>5. PICK L \in Nat : L = Len(stream) BY <1>1
<1>6. \A i \in 1 .. L + 1 : i \in 1 .. L \/ i = L + 1 BY <1>5
<1>7. ASSUME Data(m, s)
      PROVE  /\ m.id <= exLast'[s]
             /\ m.kind = "update" => Precedes(s, L + 1, m.id)'
             /\ m.kind = "snapshot" =>
                    /\ ~InHand(s)' /\ ~book'[s].applied
                    /\ \A j \in 1 .. L : ~Data(stream'[j], s)
  <2>1. L + 1 \in 1 .. Len(stream) + 1 BY <1>5
  <2>2. m.kind = "update" => Precedes(s, L + 1, m.id)'
    BY <1>5, <1>7, <2>1, SentPrecedes
  <2> QED BY <1>1, <1>2, <1>5, <1>7, <2>2
<1>8. PICK e \in Nat : e = exLast'[s] + 1 BY <1>1
<1>9. Serving(s)' => Precedes(s, L + 2, e)'
  <2>0. (L + 1) - 1 = L /\ (L + 2) - 1 = L + 1 /\ L + 1 \in 1 .. L + 1 BY <1>5
  <2>1. CASE Data(m, s)
    <3>1. Serving(s)' => m.id = e - 1 BY <1>1, <1>8, <2>1
    <3>2. \A k \in (L + 1) + 1 .. L + 1 : FALSE BY <1>5
    <3>3. Data(stream'[L + 1], s) /\ stream'[L + 1] = m BY <1>1, <1>5, <2>1
    <3> QED BY <2>0, <3>1, <3>2, <3>3 DEF Precedes
  <2>2. CASE ~Data(m, s)
    <3>1. ASSUME Serving(s)' PROVE Precedes(s, L + 1, e)'
      <4>1. Precedes(s, L + 1, e) BY <1>1, <1>5, <1>8, <2>2, <3>1 DEF ChainInv
      <4>2. L + 1 \in 1 .. Len(stream) + 1 BY <1>5
      <4> QED BY <4>1, <4>2, SentPrecedes
    <3>2. ~Data(stream'[L + 1], s) BY <1>1, <1>5, <2>2
    <3>3. ASSUME Precedes(s, L + 1, e)' PROVE Precedes(s, L + 2, e)'
      <4>2. CASE \E j \in 1 .. L :
                 /\ Data(stream'[j], s) /\ stream'[j].id = e - 1
                 /\ \A k \in j + 1 .. L : ~Data(stream'[k], s)
        <5>1. PICK j \in 1 .. L :
                 /\ Data(stream'[j], s) /\ stream'[j].id = e - 1
                 /\ \A k \in j + 1 .. L : ~Data(stream'[k], s)
          BY <4>2
        <5>2. \A k \in j + 1 .. L + 1 : k = L + 1 \/ k \in j + 1 .. L
          BY <1>5
        <5>3. j \in 1 .. L + 1 BY <1>5
        <5>4. \A k \in j + 1 .. L + 1 : ~Data(stream'[k], s) BY <3>2, <5>1, <5>2
        <5> QED BY <2>0, <5>1, <5>3, <5>4 DEF Precedes
      <4>3. CASE (\A j \in 1 .. L : ~Data(stream'[j], s)) /\ Awaits(s, e)'
        <5>1. \A j \in 1 .. L + 1 : ~Data(stream'[j], s) BY <1>6, <3>2, <4>3
        <5> QED BY <2>0, <4>3, <5>1 DEF Precedes
      <4> QED BY <2>0, <3>3, <4>2, <4>3 DEF Precedes
    <3> QED BY <3>1, <3>3
  <2> QED BY <2>1, <2>2
<1>10. ASSUME NEW i \in DOMAIN stream', Data(stream'[i], s)
      PROVE  /\ stream'[i].id <= exLast'[s]
             /\ stream'[i].kind = "update" => Precedes(s, i, stream[i].id)'
             /\ stream'[i].kind = "snapshot" =>
                    /\ ~InHand(s)' /\ ~book'[s].applied
                    /\ \A j \in 1 .. i - 1 : ~Data(stream'[j], s)
  <2>1. CASE i \in 1 .. L BY <1>4, <1>5, <1>10, <2>1
  <2>2. CASE i = L + 1
    <3>1. i - 1 = L /\ stream'[i] = m BY <1>1, <1>5, <2>2
    <3> QED BY <1>7, <1>10, <2>2, <3>1
  <2> QED BY <1>1, <1>5, <1>6, <2>1, <2>2
<1>11. Len(stream') + 1 = L + 2 /\ exLast'[s] + 1 = e BY <1>1, <1>5, <1>8
<1>12. InHand(s) => ws.msg.id <= exLast'[s] BY <1>1, <1>3 DEF ChainInv
<1>13. Serving(s)' => Precedes(s, Len(stream) + 1, exLast[s] + 1)'
  BY <1>9, <1>11
<1> QED BY <1>2, <1>10, <1>12, <1>13 DEF ChainInv

-----------------------------------------------------------------------------
(* Steps that do not handle a message.                                     *)

\* The Open event, and no message at all.
LEMMA OpenedFacts ==
    /\ \A s : ~Data(Opened, s) /\ ~Data(Nothing, s)
    /\ Opened.kind = "open" /\ Nothing.kind = "nothing" /\ Opened # Nothing
    /\ IdleWs.pc = "idle" /\ IdleWs.msg = Nothing
BY DEF Opened, Nothing, IdleWs, Data

\* The WebSocket thread is idle when it has no message.
LEMMA IdleFacts ==
    ASSUME FeedTypeOK
    PROVE  /\ ws.pc = "idle" <=> ws = IdleWs
           /\ ws = IdleWs => \A s : ~InHand(s)
           /\ ws # IdleWs => ws.msg \in Messages
BY OpenedFacts, InHandType DEF FeedTypeOK, ConnectionOK, IdleWs, InHand

\* What a symbol depends on.
LEMMA SymbolFrame ==
    ASSUME NEW s \in Symbols, SymbolInv(s),
           UNCHANGED <<socket, stream, ws, exLast, subscription, book, missed, wsConnected>>
    PROVE  SymbolInv(s)'
<1>1. ChainInv(s)' BY ChainFrame DEF SymbolInv, InHand, Serving
<1>2. UnservedInv(s)' BY DEF SymbolInv, UnservedInv, InHand, OpenAhead, OpenWaits
<1>3. RejectInv(s)' BY DEF SymbolInv, RejectInv
<1>4. BookInv(s)' BY DEF SymbolInv, BookInv, Seen
<1> QED BY <1>1, <1>2, <1>3, <1>4 DEF SymbolInv

\* What the line depends on.
LEMMA LineFrame ==
    ASSUME LineInv,
           UNCHANGED <<socket, stream, ws, subscription, wsConnected>>,
           starter' \in {"connecting", "subscribing"} =>
              ~wsConnected \/ starter \in {"connecting", "subscribing"}
    PROVE  LineInv'
BY DEF LineInv, Fresh, OpenWaits

\* A connection ends, or is attempted: only an Open event may be left on the line.
LEMMA SymbolDown ==
    ASSUME NEW s \in Symbols, SymbolInv(s), socket' # "open",
           \A i \in DOMAIN stream' : stream'[i] = Opened,
           UNCHANGED <<ws, exLast, subscription, book, missed, wsConnected>>
    PROVE  SymbolInv(s)'
<1>1. ~Serving(s)' /\ \A i \in DOMAIN stream' : ~Data(stream'[i], s)
  BY OpenedFacts DEF Serving
<1>2. ChainInv(s)' BY <1>1, QuietChain DEF SymbolInv
<1>3. UnservedInv(s)' BY DEF UnservedInv
<1>4. RejectInv(s)' BY OpenedFacts DEF SymbolInv, RejectInv
<1>5. BookInv(s)' BY DEF SymbolInv, BookInv, Seen
<1> QED BY <1>2, <1>3, <1>4, <1>5 DEF SymbolInv

\* The same for the line.
LEMMA LineDown ==
    ASSUME LineInv, socket' # "open",
           stream' = << >> \/ (stream' = <<Opened>> /\ OpenWaits),
           socket' \in {"closed", "connecting"} => ws = IdleWs /\ stream' = << >>,
           UNCHANGED <<ws, wsConnected>>,
           starter' \in {"connecting", "subscribing"} => starter \in {"connecting", "subscribing"}
    PROVE  LineInv'
<1>1. \A i \in DOMAIN stream' : stream'[i] = Opened /\ i = 1 /\ OpenWaits
  OBVIOUS
<1>2. OpenWaits' => OpenWaits
  BY DEF OpenWaits
<1>3. OpenWaits => ws = IdleWs
  <2>1. ASSUME OpenWaits PROVE 1 \in DOMAIN stream /\ stream[1] = Opened
    BY <2>1 DEF OpenWaits
  <2> QED BY <2>1 DEF LineInv
<1> QED BY <1>1, <1>2, <1>3 DEF LineInv, Fresh

\* The network: a new connection starts with the Open event and without subscriptions.
LEMMA NetworkKeepsFeed ==
    ASSUME FeedTypeOK, FeedInv, Network PROVE FeedInv'
<1>1. CASE ConnectionOpens
  <2>1. /\ socket = "connecting" /\ socket' = "open" /\ stream' = <<Opened>>
        /\ ws = IdleWs /\ ws' = IdleWs /\ dog' = dog
        /\ subscription' = [s \in Symbols |-> "none"]
        /\ UNCHANGED <<exLast, used, feedVars, starter>>
    BY <1>1 DEF ConnectionOpens, Opens, FeedInv, LineInv
  <2>2. DOMAIN stream' = {1} /\ stream'[1] = Opened /\ OpenWaits' /\ stream' # << >>
    BY <2>1 DEF OpenWaits
  <2>3. LineInv' BY <2>1, <2>2, OpenedFacts DEF LineInv
  <2>4. StarterInv'
    BY <2>1 DEF StarterInv, FeedInv, feedVars, InStart
  <2>5. ASSUME NEW s \in Symbols PROVE SymbolInv(s)'
    <3>1. SymbolInv(s) BY DEF FeedInv
    <3>2. ~Serving(s)' /\ ~InHand(s)' /\ \A i \in DOMAIN stream' : ~Data(stream'[i], s)
      BY <2>1, <2>2, OpenedFacts DEF Serving, InHand
    <3>3. ChainInv(s)' BY <3>2, QuietChain
    <3>4. UnservedInv(s)' BY <2>2, <3>2 DEF UnservedInv, OpenAhead
    <3>5. RejectInv(s)' BY <2>1, <2>2, OpenedFacts DEF RejectInv
    <3>6. BookInv(s)'
      BY <2>1, <3>1, OpenedFacts DEF SymbolInv, BookInv, feedVars, Seen
    <3> QED BY <3>3, <3>4, <3>5, <3>6 DEF SymbolInv
  <2> QED BY <2>3, <2>4, <2>5 DEF FeedInv
<1>2. CASE (OpenFails \/ ConnectionDies) /\ UNCHANGED <<serverVars, feedVars, starter>>
  <2>1. /\ socket \in {"connecting", "open"} /\ socket' = "dead"
        /\ UNCHANGED <<ws, dog, serverVars, feedVars, starter>>
        /\ stream' = << >> \/ (stream' = <<Opened>> /\ OpenWaits)
    BY <1>2 DEF OpenFails, ConnectionDies, FeedInv, LineInv, OpenWaits
  <2>2. LineInv' BY <2>1, LineDown DEF FeedInv, feedVars
  <2>3. OpenWaits' => OpenWaits BY <2>1 DEF OpenWaits
  <2>4. StarterInv'
    BY <2>1, <2>3 DEF FeedInv, StarterInv, Fresh, InStart, feedVars, serverVars
  <2>5. \A i \in DOMAIN stream' : stream'[i] = Opened BY <2>1
  <2>6. \A s \in Symbols : SymbolInv(s)'
    BY <2>1, <2>5, SymbolDown DEF FeedInv, feedVars, serverVars
  <2> QED BY <2>2, <2>4, <2>6 DEF FeedInv
<1>3. CASE (DeadConnectionGoesOld \/ ConnectionGoesOld)
           /\ UNCHANGED <<serverVars, feedVars, starter>>
  <2>1. UNCHANGED <<socket, stream, ws, dog, serverVars, feedVars, starter>>
    BY <1>3 DEF DeadConnectionGoesOld, ConnectionGoesOld
  <2>2. LineInv' BY <2>1, LineFrame DEF FeedInv, feedVars, serverVars
  <2>3. StarterInv'
    BY <2>1 DEF FeedInv, StarterInv, Fresh, OpenWaits, InStart, feedVars, serverVars
  <2>4. \A s \in Symbols : SymbolInv(s)'
    BY <2>1, SymbolFrame DEF FeedInv, feedVars, serverVars
  <2> QED BY <2>2, <2>3, <2>4 DEF FeedInv
<1> QED BY <1>1, <1>2, <1>3 DEF Network

\* The watchdog, which runs when start() does not.
LEMMA WatchdogKeepsFeed ==
    ASSUME FeedTypeOK, FeedInv, WatchdogStep PROVE FeedInv'
<1>1. UNCHANGED <<ws, serverVars, feedVars, starter>> /\ dog # "off" /\ ~InStart
  BY DEF WatchdogStep, DogStep, DogFires, DogZeroes, DogStopsSocket, DogStartsSocket, DogExits,
         FeedTypeOK, InStart
<1>2. starter \notin {"out", "failed", "stopped", "connecting", "subscribing", "waiting",
                     "abortConnect", "abortWait"}
  BY <1>1 DEF FeedTypeOK
<1>3. CASE DogFires \/ DogZeroes \/ DogExits
  <2>1. UNCHANGED <<socket, stream>> /\ dog' # "stopped"
    BY <1>3 DEF DogFires, DogZeroes, DogExits
  <2>2. LineInv' BY <1>1, <2>1, LineFrame DEF FeedInv, feedVars, serverVars
  <2>3. StarterInv' BY <1>1, <1>2, <2>1 DEF StarterInv, InStart
  <2>4. \A s \in Symbols : SymbolInv(s)'
    BY <1>1, <2>1, SymbolFrame DEF FeedInv, feedVars, serverVars
  <2> QED BY <2>2, <2>3, <2>4 DEF FeedInv
<1>4. CASE DogStopsSocket \/ DogStartsSocket
  <2>1. /\ ws = IdleWs /\ socket' \in {"closed", "connecting"} /\ stream' = << >>
        /\ dog' = "stopped" => socket' = "closed"
    BY <1>4 DEF DogStopsSocket, DogStartsSocket, SocketStops, FeedInv, LineInv, StarterInv
  <2>2. LineInv' BY <1>1, <2>1, LineDown DEF FeedInv, feedVars
  <2>3. StarterInv' BY <1>1, <1>2, <2>1 DEF StarterInv, InStart
  <2>4. \A s \in Symbols : SymbolInv(s)'
    BY <1>1, <2>1, SymbolDown DEF FeedInv, feedVars, serverVars
  <2> QED BY <2>2, <2>3, <2>4 DEF FeedInv
<1> QED BY <1>3, <1>4 DEF WatchdogStep, DogStep

\* start() after its beginning, and the end of stop().
LEMMA StarterKeepsFeed ==
    ASSUME FeedTypeOK, FeedInv, StarterStep PROVE FeedInv'
<1>1. CASE ConnectTimesOut \/ StartConnected \/ SnapshotsTimeOut \/ StartRejected \/ StartReturns
  <2>1. /\ UNCHANGED <<socket, stream, ws, serverVars, feedVars>> /\ dog' # "stopped"
        /\ starter' = "subscribing" => starter = "connecting" /\ wsConnected
        /\ starter' = "abortConnect" => starter = "connecting" /\ ~wsConnected
        /\ starter' = "abortWait" => starter = "waiting"
        /\ starter' \in {"subscribing", "abortConnect", "abortWait", "started"}
    BY <1>1 DEF ConnectTimesOut, StartConnected, SnapshotsTimeOut, StartRejected, StartReturns,
                starterFrame, FeedTypeOK
  <2>2. LineInv' BY <2>1, LineFrame DEF FeedInv, feedVars, serverVars
  <2>3. StarterInv'
    BY <2>1 DEF FeedInv, StarterInv, Fresh, OpenWaits, InStart, feedVars, serverVars
  <2>4. \A s \in Symbols : SymbolInv(s)'
    BY <2>1, SymbolFrame DEF FeedInv, feedVars, serverVars
  <2> QED BY <2>2, <2>3, <2>4 DEF FeedInv
<1>2. CASE StartFails \/ StopEnds
  <2>1. /\ ws = IdleWs /\ ws' = ws /\ socket' = "closed" /\ stream' = << >>
        /\ starter' \in {"failed", "stopped"} /\ UNCHANGED <<serverVars, feedVars>>
    BY <1>2 DEF StartFails, StopEnds, SocketStops, starterFrame
  <2>2. LineInv' BY <2>1, LineDown DEF FeedInv, feedVars
  <2>3. StarterInv' BY <2>1 DEF StarterInv, InStart
  <2>4. \A s \in Symbols : SymbolInv(s)'
    BY <2>1, SymbolDown DEF FeedInv, feedVars, serverVars
  <2> QED BY <2>2, <2>3, <2>4 DEF FeedInv
<1>3. CASE StartSubscribes
  <2>1. /\ starter = "subscribing" /\ starter' = "waiting" /\ Subscribes
        /\ UNCHANGED <<socket, stream, ws, dog, exLast, used, feedVars>>
        /\ ~Fresh /\ wsConnected /\ pendingSnapshots = Symbols
    BY <1>3 DEF StartSubscribes, connectionVars, FeedInv, StarterInv, InStart
  <2>2. /\ socket = "open" => \A s \in Symbols : subscription[s] = "none"
        /\ \A i \in DOMAIN stream : stream[i] = Opened
        /\ ws.msg \in {Opened, Nothing}
    BY <2>1 DEF FeedInv, LineInv
  <2>3. ~Fresh' /\ wsConnected' BY <2>1 DEF Fresh, OpenWaits, feedVars
  <2>4. LineInv' BY <2>1, <2>2, <2>3 DEF FeedInv, LineInv, feedVars
  <2>5. StarterInv'
    BY <2>1, <2>3 DEF FeedInv, StarterInv, InStart, feedVars
  <2>6. ASSUME NEW s \in Symbols PROVE SymbolInv(s)'
    <3>1. /\ SymbolInv(s) /\ subscription'[s] \in {"requested", subscription[s]}
          /\ socket = "open" => subscription'[s] = "requested"
      BY <2>1 DEF FeedInv, Subscribes
    <3>2. ~Serving(s)' /\ \A i \in DOMAIN stream' : ~Data(stream'[i], s)
      BY <2>1, <2>2, <3>1, OpenedFacts DEF Serving
    <3>3. ChainInv(s)' BY <2>1, <3>1, <3>2, QuietChain DEF SymbolInv, feedVars
    <3>4. UnservedInv(s)'
      BY <2>1, <2>2, <3>1, <3>2 DEF SymbolInv, UnservedInv, InHand, OpenAhead, OpenWaits, feedVars
    <3>5. RejectInv(s)' BY <2>1, <2>2, OpenedFacts DEF RejectInv
    <3>6. BookInv(s)' BY <2>1, <3>1 DEF SymbolInv, BookInv, feedVars, Seen
    <3> QED BY <3>3, <3>4, <3>5, <3>6 DEF SymbolInv
  <2> QED BY <2>4, <2>5, <2>6 DEF FeedInv
<1> QED BY <1>1, <1>2, <1>3 DEF StarterStep

\* A call of start() finds nothing on the line and leaves empty books.
LEMMA StartKeepsFeed ==
    ASSUME FeedTypeOK, FeedInv, StartBegins, starter \in {"out", "failed"}, dog = "off"
    PROVE  FeedInv'
<1>1. /\ ws = IdleWs /\ stream = << >> /\ UNCHANGED <<stream, ws, dog, serverVars>>
      /\ socket' = "connecting" /\ starter' = "connecting"
      /\ wsConnected' = FALSE /\ subscribeError' = FALSE /\ pendingSnapshots' = Symbols
      /\ \A s \in Symbols : book'[s] = ClearedBook /\ missed'[s] = {}
  BY DEF StartBegins, FeedInv, StarterInv, LineInv
<1>2. DOMAIN stream' = {} /\ ~OpenWaits' BY <1>1 DEF OpenWaits
<1>3. LineInv' BY <1>1, <1>2, OpenedFacts DEF LineInv
<1>4. StarterInv' BY <1>1 DEF StarterInv, InStart
<1>5. ASSUME NEW s \in Symbols PROVE SymbolInv(s)'
  <2>1. ~Serving(s)' /\ ~InHand(s)' BY <1>1, OpenedFacts DEF Serving, InHand
  <2>2. ChainInv(s)' BY <1>2, <2>1, QuietChain
  <2>3. UnservedInv(s)' BY <1>1 DEF UnservedInv
  <2>4. RejectInv(s)' BY <1>1, <1>2, OpenedFacts DEF RejectInv
  <2>5. BookInv(s)' BY <1>1, OpenedFacts DEF BookInv, ClearedBook
  <2> QED BY <2>2, <2>3, <2>4, <2>5 DEF SymbolInv
<1> QED BY <1>3, <1>4, <1>5 DEF FeedInv

\* A call of stop().
LEMMA StopKeepsFeed ==
    ASSUME FeedTypeOK, FeedInv, StopBegins PROVE FeedInv'
<1>1. UNCHANGED <<socket, stream, ws, dog, serverVars, feedVars>> /\ starter' = "stopping"
  BY DEF StopBegins, starterFrame
<1>2. LineInv' BY <1>1, LineFrame DEF FeedInv, feedVars, serverVars
<1>3. StarterInv' BY <1>1 DEF FeedInv, StarterInv, InStart
<1>4. \A s \in Symbols : SymbolInv(s)'
  BY <1>1, SymbolFrame DEF FeedInv, feedVars, serverVars
<1> QED BY <1>2, <1>3, <1>4 DEF FeedInv

\* What does not touch the feed.
LEMMA FeedFrame ==
    ASSUME FeedInv, UNCHANGED krakenVars PROVE FeedInv'
<1> USE DEF krakenVars, connectionVars, serverVars, feedVars
<1>1. LineInv' BY LineFrame DEF FeedInv
<1>2. StarterInv' BY DEF FeedInv, StarterInv, InStart, Fresh, OpenWaits
<1>3. \A s \in Symbols : SymbolInv(s)' BY SymbolFrame DEF FeedInv
<1> QED BY <1>1, <1>2, <1>3 DEF FeedInv

-----------------------------------------------------------------------------
(* The exchange.                                                           *)

\* The line after a message was sent: it is sent only behind the subscription.
LEMMA LineSent ==
    ASSUME FeedTypeOK, FeedInv, NEW m, m # Opened, stream' = Append(stream, m),
           UNCHANGED serverFrame,
           socket = "open", \E s \in Symbols : subscription[s] # "none",
           \A s \in Symbols : subscription[s] = "refused" => subscription'[s] = "refused"
    PROVE  LineInv' /\ StarterInv'
<1>1. UNCHANGED <<socket, ws, dog, wsConnected, starter, pendingSnapshots, subscribeError, book>>
  BY DEF serverFrame, feedVars
<1>2. ~Fresh /\ wsConnected /\ starter \notin {"connecting", "subscribing"}
  BY DEF FeedInv, LineInv
<1>3. ~Fresh' BY <1>1, <1>2, StreamAppend DEF Fresh
<1>4. \A i \in DOMAIN stream' : stream'[i] = Opened => i \in DOMAIN stream /\ stream[i] = Opened
  BY StreamAppend, StreamFacts
<1>5. LineInv' BY <1>1, <1>2, <1>3, <1>4 DEF FeedInv, LineInv
<1>6. StarterInv' BY <1>1, <1>2, <1>3 DEF FeedInv, StarterInv, InStart
<1> QED BY <1>5, <1>6

\* A symbol after a message of another one, or a rejection of this one, was sent.
LEMMA SymbolSent ==
    ASSUME FeedTypeOK, FeedTypeOK', NEW s \in Symbols, SymbolInv(s),
           NEW m, m # Opened, ~Data(m, s), stream' = Append(stream, m), UNCHANGED serverFrame,
           exLast'[s] = exLast[s],
           subscription'[s] = subscription[s]
              \/ (subscription[s] = "requested" /\ subscription'[s] = "refused"),
           m.kind = "reject" /\ m.sym = s => subscription'[s] = "refused"
    PROVE  SymbolInv(s)'
<1>1. UNCHANGED <<socket, ws, wsConnected, book, missed>> BY DEF serverFrame, feedVars
<1>2. Serving(s)' => Serving(s) BY <1>1 DEF Serving
<1>3. exLast[s] \in Nat BY StreamFacts
<1>4. ChainInv(s)' BY <1>1, <1>2, <1>3, SentChain DEF SymbolInv
<1>5. \A i \in DOMAIN stream' : stream'[i] = m \/ (i \in DOMAIN stream /\ stream'[i] = stream[i])
  BY StreamAppend, StreamFacts
<1>6. UnservedInv(s)'
  BY <1>1, <1>5, StreamAppend DEF SymbolInv, UnservedInv, InHand, OpenAhead
<1>7. RejectInv(s)' BY <1>1, <1>5 DEF SymbolInv, RejectInv
<1>8. BookInv(s)' BY <1>1 DEF SymbolInv, BookInv, Seen
<1> QED BY <1>4, <1>6, <1>7, <1>8 DEF SymbolInv

\* An event that is not sent: nothing is on its way behind it.
LEMMA UnsentChain ==
    ASSUME NEW s \in Symbols, FeedTypeOK, FeedTypeOK', ChainInv(s), ~Serving(s)',
           UNCHANGED <<stream, ws, book, missed>>, exLast'[s] >= exLast[s]
    PROVE  ChainInv(s)'
<1>1. exLast[s] \in Nat /\ exLast'[s] \in Nat BY StreamFacts DEF FeedTypeOK, Events
<1>2. InHand(s) => ws.msg.id \in Nat BY InHandType, MessageFields DEF InHand
<1>3. InHand(s)' = InHand(s) /\ Seen(s)' = Seen(s) BY DEF InHand, Seen
<1>4. \A i, n : Precedes(s, i, n) => Precedes(s, i, n)'
  BY <1>3, PrecedesFrame DEF Awaits
<1>5. ASSUME NEW i \in DOMAIN stream', Data(stream'[i], s)
      PROVE  /\ stream'[i].id <= exLast'[s]
             /\ stream'[i].kind = "update" => Precedes(s, i, stream[i].id)'
  <2>1. stream[i] \in Messages BY StreamFacts
  <2>2. stream[i].id \in Nat BY <2>1, MessageFields
  <2> QED BY <1>1, <1>4, <1>5, <2>2 DEF ChainInv
<1>6. InHand(s) => ws.msg.id <= exLast'[s] BY <1>1, <1>2 DEF ChainInv
<1> QED BY <1>3, <1>5, <1>6 DEF ChainInv

\* What is seen of a symbol is a set of events.
LEMMA SeenType ==
    ASSUME FeedTypeOK, NEW s \in Symbols
    PROVE  \A n \in Seen(s) : n \in Nat /\ n >= 1
BY EventsUpTo DEF FeedTypeOK, BookType, Seen

\* The books when the exchange goes on.
LEMMA BookGrows ==
    ASSUME FeedTypeOK, FeedTypeOK', NEW s \in Symbols, BookInv(s),
           UNCHANGED <<ws, wsConnected, book, missed>>, exLast'[s] >= exLast[s]
    PROVE  BookInv(s)'
<1>1. exLast[s] \in Nat /\ exLast'[s] \in Nat BY StreamFacts DEF FeedTypeOK, Events
<1>2. Seen(s)' = Seen(s) BY DEF Seen
<1>3. ASSUME book[s].applied, NEW n \in Seen(s) PROVE n <= exLast'[s]
  BY <1>1, <1>3, SeenType DEF BookInv
<1> QED BY <1>2, <1>3 DEF BookInv

\* An event of the exchange.
LEMMA ExchangeEventKeepsFeed ==
    ASSUME FeedTypeOK, FeedTypeOK', FeedInv, NEW s \in Symbols, ExchangeEvent(s)
    PROVE  FeedInv'
<1>1. /\ UNCHANGED <<socket, ws, dog, wsConnected, starter, pendingSnapshots, subscribeError>>
      /\ UNCHANGED <<book, missed, subscription, serverFrame>>
      /\ exLast[s] \in Nat /\ exLast'[s] = exLast[s] + 1
      /\ \A x \in Symbols : x # s => exLast'[x] = exLast[x]
  BY StreamFacts DEF ExchangeEvent, serverFrame, feedVars, FeedTypeOK
<1>2. \A x \in Symbols : exLast'[x] \in Nat /\ exLast'[x] >= exLast[x]
  BY <1>1, StreamFacts
<1>3. CASE Serving(s) /\ Sends("update", s, exLast[s] + 1)
  <2>1. PICK m : /\ stream' = Append(stream, m)
                 /\ m.kind = "update" /\ m.sym = s /\ m.id = exLast[s] + 1
    BY <1>3 DEF Sends
  <2>2. m # Opened /\ Data(m, s) /\ \A x \in Symbols : x # s => ~Data(m, x)
    BY <2>1, OpenedFacts DEF Data
  <2>3. LineInv' /\ StarterInv'
    BY <1>1, <1>3, <2>1, <2>2, LineSent DEF Serving
  <2>4. SymbolInv(s)'
    <3>1. SymbolInv(s) BY DEF FeedInv
    <3>2. Precedes(s, Len(stream) + 1, m.id) BY <1>3, <2>1, <3>1 DEF SymbolInv, ChainInv
    <3>3. ChainInv(s)' BY <1>1, <1>2, <2>1, <2>2, <3>1, <3>2, SentChain DEF SymbolInv
    <3>4. UnservedInv(s)' BY <1>1, <1>3 DEF UnservedInv, Serving
    <3>5. \A i \in DOMAIN stream' :
             stream'[i] = m \/ (i \in DOMAIN stream /\ stream'[i] = stream[i])
      BY <2>1, StreamAppend, StreamFacts
    <3>6. RejectInv(s)' BY <1>1, <2>1, <3>1, <3>5 DEF SymbolInv, RejectInv
    <3>7. BookInv(s)' BY <1>1, <1>2, <3>1, BookGrows DEF SymbolInv
    <3> QED BY <3>3, <3>4, <3>6, <3>7 DEF SymbolInv
  <2>5. ASSUME NEW x \in Symbols, x # s PROVE SymbolInv(x)'
    BY <1>1, <2>1, <2>2, <2>5, SymbolSent DEF FeedInv
  <2> QED BY <2>3, <2>4, <2>5 DEF FeedInv
<1>4. CASE ~Serving(s) /\ UNCHANGED <<stream, used>>
  <2>1. LineInv' BY <1>1, <1>4, LineFrame DEF FeedInv
  <2>2. StarterInv'
    BY <1>1, <1>4 DEF FeedInv, StarterInv, InStart, Fresh, OpenWaits
  <2>3. SymbolInv(s)'
    <3>1. SymbolInv(s) /\ ~Serving(s)' BY <1>1, <1>4 DEF FeedInv, Serving
    <3>2. ChainInv(s)' BY <1>1, <1>2, <1>4, <3>1, UnsentChain DEF SymbolInv
    <3>3. UnservedInv(s)'
      BY <1>1, <1>4, <3>1 DEF SymbolInv, UnservedInv, InHand, OpenAhead, OpenWaits
    <3>4. RejectInv(s)' BY <1>1, <1>4, <3>1 DEF SymbolInv, RejectInv
    <3>5. BookInv(s)' BY <1>1, <1>2, <3>1, BookGrows DEF SymbolInv
    <3> QED BY <3>2, <3>3, <3>4, <3>5 DEF SymbolInv
  <2>4. ASSUME NEW x \in Symbols, x # s PROVE SymbolInv(x)'
    <3>1. SymbolInv(x) /\ exLast'[x] = exLast[x] BY <1>1, <2>4 DEF FeedInv
    <3>2. Serving(x)' => Serving(x) BY <1>1 DEF Serving
    <3>3. ChainInv(x)'
      <4>1. CASE Serving(x)'
        <5>1. \A i, n : Precedes(x, i, n) => Precedes(x, i, n)'
          BY <1>1, <1>4, PrecedesFrame DEF Awaits, InHand, Seen
        <5> QED BY <1>1, <1>4, <3>1, <3>2, <5>1 DEF SymbolInv, ChainInv, InHand, Seen
      <4>2. CASE ~Serving(x)'
        BY <1>1, <1>2, <1>4, <3>1, <4>2, UnsentChain DEF SymbolInv
      <4> QED BY <4>1, <4>2
    <3>4. UnservedInv(x)'
      BY <1>1, <1>4, <3>1 DEF SymbolInv, UnservedInv, InHand, OpenAhead, OpenWaits
    <3>5. RejectInv(x)' BY <1>1, <1>4, <3>1 DEF SymbolInv, RejectInv
    <3>6. BookInv(x)' BY <1>1, <1>2, <3>1, BookGrows DEF SymbolInv
    <3> QED BY <3>3, <3>4, <3>5, <3>6 DEF SymbolInv
  <2> QED BY <2>1, <2>2, <2>3, <2>4 DEF FeedInv
<1> QED BY <1>3, <1>4 DEF ExchangeEvent

\* A subscription that is accepted: the snapshot comes first.
LEMMA AcceptsKeepsFeed ==
    ASSUME FeedTypeOK, FeedTypeOK', FeedInv, NEW s \in Symbols, Accepts(s)
    PROVE  FeedInv'
<1>1. /\ UNCHANGED <<socket, ws, wsConnected, book, missed, exLast, serverFrame>>
      /\ socket = "open" /\ subscription[s] = "requested" /\ subscription'[s] = "serving"
      /\ \A x \in Symbols : x # s => subscription'[x] = subscription[x]
  BY DEF Accepts, serverFrame, feedVars, FeedTypeOK
<1>2. PICK m : /\ stream' = Append(stream, m)
               /\ m.kind = "snapshot" /\ m.sym = s /\ m.id = exLast[s]
  BY DEF Accepts, Sends
<1>3. m # Opened /\ Data(m, s) /\ \A x \in Symbols : x # s => ~Data(m, x)
  BY <1>2, OpenedFacts DEF Data
<1>4. LineInv' /\ StarterInv' BY <1>1, <1>2, <1>3, LineSent
<1>5. SymbolInv(s)'
  <2>1. SymbolInv(s) BY DEF FeedInv
  <2>2. ~OpenAhead BY <1>1 DEF FeedInv, LineInv, OpenAhead, Fresh
  <2>3. ~InHand(s) /\ ~book[s].applied /\ \A i \in DOMAIN stream : ~Data(stream[i], s)
    BY <1>1, <2>1, <2>2 DEF SymbolInv, UnservedInv
  <2>4. exLast[s] \in Nat BY StreamFacts
  <2>5. ChainInv(s)' BY <1>1, <1>2, <1>3, <2>1, <2>3, <2>4, SentChain DEF SymbolInv
  <2>6. UnservedInv(s)' BY <1>1 DEF UnservedInv
  <2>7. \A i \in DOMAIN stream' :
           stream'[i] = m \/ (i \in DOMAIN stream /\ stream'[i] = stream[i])
    BY <1>2, StreamAppend, StreamFacts
  <2>8. RejectInv(s)' BY <1>1, <1>2, <2>1, <2>7 DEF SymbolInv, RejectInv
  <2>9. BookInv(s)' BY <1>1, <2>1 DEF SymbolInv, BookInv, Seen
  <2> QED BY <2>5, <2>6, <2>8, <2>9 DEF SymbolInv
<1>6. ASSUME NEW x \in Symbols, x # s PROVE SymbolInv(x)'
  BY <1>1, <1>2, <1>3, <1>6, SymbolSent DEF FeedInv
<1> QED BY <1>4, <1>5, <1>6 DEF FeedInv

\* A subscription that is refused.
LEMMA RejectsKeepsFeed ==
    ASSUME FeedTypeOK, FeedTypeOK', FeedInv, NEW s \in Symbols, Rejects(s)
    PROVE  FeedInv'
<1>1. /\ UNCHANGED <<exLast, serverFrame>>
      /\ socket = "open" /\ subscription[s] = "requested" /\ subscription'[s] = "refused"
      /\ \A x \in Symbols : x # s => subscription'[x] = subscription[x]
  BY DEF Rejects, FeedTypeOK
<1>2. PICK m : /\ stream' = Append(stream, m)
               /\ m.kind = "reject" /\ m.sym \in {s, NoSymbol}
  BY DEF Rejects
<1>3. m # Opened /\ \A x \in Symbols : ~Data(m, x) /\ (m.sym = x => x = s)
  BY <1>2, OpenedFacts, KrakenAssumption DEF Data
<1>4. LineInv' /\ StarterInv' BY <1>1, <1>2, <1>3, LineSent
<1>5. ASSUME NEW x \in Symbols PROVE SymbolInv(x)'
  <2>1. \/ subscription'[x] = subscription[x]
        \/ subscription[x] = "requested" /\ subscription'[x] = "refused"
    BY <1>1
  <2>2. m.kind = "reject" /\ m.sym = x => subscription'[x] = "refused" BY <1>1, <1>3
  <2> QED BY <1>1, <1>2, <1>3, <2>1, <2>2, SymbolSent DEF FeedInv
<1> QED BY <1>4, <1>5 DEF FeedInv

-----------------------------------------------------------------------------
(* handleWsMessage.                                                        *)

\* While a message is handled, no Open event waits; other messages are handled only
\* once start() is behind its subscription.
LEMMA Busy ==
    ASSUME FeedTypeOK, FeedInv, ws.pc # "idle"
    PROVE  /\ ws # IdleWs /\ ~OpenWaits /\ socket \notin {"closed", "connecting"}
           /\ \A i \in DOMAIN stream : stream[i] # Opened
           /\ ws.msg # Opened =>
                 wsConnected /\ starter \notin {"connecting", "subscribing"} /\ ~Fresh
           /\ ws.msg = Opened /\ wsConnected => ~InStart
           /\ ws.msg = Opened =>
                 /\ socket = "open" => \A s \in Symbols : subscription[s] = "none"
                 /\ DOMAIN stream = {}
<1>1. ws # IdleWs BY OpenedFacts
<1>2. \A i \in DOMAIN stream : stream[i] # Opened BY <1>1 DEF FeedInv, LineInv
<1>3. ~OpenWaits BY <1>2, StreamFacts DEF OpenWaits
<1>4. ws.msg # Nothing BY DEF FeedTypeOK, ConnectionOK
<1> QED BY <1>1, <1>2, <1>3, <1>4 DEF FeedInv, LineInv, StarterInv, Fresh

\* The line when a message has been handled.
LEMMA LineHandled ==
    ASSUME FeedTypeOK, FeedInv, ws.pc # "idle", ws.msg # Opened, ws' = IdleWs,
           UNCHANGED <<socket, stream, subscription, wsConnected, starter>>
    PROVE  LineInv'
<1>1. ~OpenWaits' BY Busy DEF OpenWaits
<1>2. ~Fresh' BY <1>1, OpenedFacts DEF Fresh
<1> QED BY <1>2, Busy, OpenedFacts DEF LineInv

\* start() and the watchdog when a message has been handled, or moved on.
LEMMA StarterHandled ==
    ASSUME FeedTypeOK, FeedInv, ws.pc # "idle", ws' = IdleWs \/ ws'.msg = ws.msg,
           UNCHANGED <<socket, stream, dog, wsConnected, starter>>,
           ws.msg = Opened => ~InStart,
           starter = "waiting" =>
               \/ subscribeError'
               \/ /\ subscribeError' = subscribeError
                  /\ \A s \in Symbols \ pendingSnapshots' :
                        \/ s \in pendingSnapshots /\ book'[s].applied
                        \/ s \in pendingSnapshots /\ subscription'[s] = "refused"
                        \/ /\ s \notin pendingSnapshots
                           /\ book[s].applied => book'[s].applied
                           /\ subscription[s] = "refused" => subscription'[s] = "refused"
    PROVE  StarterInv'
<1>1. Fresh' => Fresh BY OpenedFacts DEF Fresh, OpenWaits
<1>2. ~(starter \in {"connecting", "subscribing"}) BY Busy DEF InStart
<1> QED BY <1>1, <1>2 DEF FeedInv, StarterInv, InStart

\* A symbol when a message of no book has been handled.
LEMMA SymbolHandled ==
    ASSUME FeedTypeOK, FeedInv, NEW s \in Symbols, ~InHand(s), ~InHand(s)',
           OpenAhead' <=> OpenAhead,
           ws'.pc \notin {"resetPending", "resubscribe", "snapshotApplied"},
           ws'.msg.kind = "reject" => ws'.msg = ws.msg,
           UNCHANGED <<socket, stream, exLast, subscription, book, missed, wsConnected>>
    PROVE  SymbolInv(s)'
<1>1. SymbolInv(s) BY DEF FeedInv
<1>2. ChainInv(s)' BY <1>1, ChainFrame DEF SymbolInv, Serving
<1>3. UnservedInv(s)' BY <1>1 DEF SymbolInv, UnservedInv
<1>4. RejectInv(s)' BY <1>1 DEF SymbolInv, RejectInv
<1>5. BookInv(s)' BY <1>1 DEF SymbolInv, BookInv, Seen
<1> QED BY <1>2, <1>3, <1>4, <1>5 DEF SymbolInv

\* A message is received.
LEMMA ReceivesKeepsFeed ==
    ASSUME FeedTypeOK, FeedInv, WsReceives PROVE FeedInv'
<1>1. /\ stream # << >> /\ ws = IdleWs /\ stream' = Tail(stream)
      /\ ws' = [pc |-> "received", msg |-> stream[1]]
      /\ 1 \in DOMAIN stream /\ stream[1] = Head(stream) /\ stream[1] \in Messages
      /\ UNCHANGED <<socket, dog, exLast, subscription, book, missed, starter>>
      /\ UNCHANGED <<pendingSnapshots, subscribeError, wsConnected>>
  BY StreamFacts DEF WsReceives, Receive, feedVars, serverVars
<1>2. \A i \in DOMAIN stream' : i + 1 \in DOMAIN stream /\ stream'[i] = stream[i + 1] /\ i + 1 # 1
  BY <1>1, StreamTail, StreamFacts
<1>3. ~OpenWaits'
  <2>1. stream' # << >> => Head(stream') # Opened
    BY <1>1, StreamTail DEF FeedInv, LineInv
  <2> QED BY <2>1 DEF OpenWaits
<1>4. (ws'.msg = Opened <=> OpenWaits) /\ (Fresh' <=> OpenWaits) /\ (OpenWaits <=> Fresh)
  BY <1>1, <1>3, OpenedFacts DEF OpenWaits, Fresh
<1>5. LineInv'
  <2>1. socket' \notin {"closed", "connecting"} BY <1>1 DEF FeedInv, LineInv
  <2>2. \A i \in DOMAIN stream' : stream'[i] # Opened
    BY <1>2 DEF FeedInv, LineInv
  <2>3. Fresh' \/ ~wsConnected' \/ starter' \in {"connecting", "subscribing"} =>
          /\ socket' = "open" => \A s \in Symbols : subscription'[s] = "none"
          /\ \A i \in DOMAIN stream' : stream'[i] = Opened
          /\ ws'.msg = Opened
    BY <1>1, <1>2, <1>4 DEF FeedInv, LineInv
  <2> QED BY <1>1, <2>1, <2>2, <2>3 DEF LineInv
<1>6. StarterInv' BY <1>1, <1>4 DEF FeedInv, StarterInv, InStart
<1>7. ASSUME NEW s \in Symbols PROVE SymbolInv(s)'
  <2>1. SymbolInv(s) BY DEF FeedInv
  <2>2. ChainInv(s)' BY <2>1, ReceivedChain DEF SymbolInv
  <2>3. InHand(s)' <=> Data(stream[1], s) BY <1>1 DEF InHand
  <2>4. OpenAhead' <=> OpenWaits BY <1>1, <1>3, <1>4 DEF OpenAhead
  <2>5. OpenAhead <=> OpenWaits BY <1>1, OpenedFacts DEF OpenAhead
  <2>6. UnservedInv(s)' BY <1>1, <1>2, <2>1, <2>3, <2>4, <2>5 DEF SymbolInv, UnservedInv
  <2>7. RejectInv(s)' BY <1>1, <1>2, <2>1 DEF SymbolInv, RejectInv
  <2>8. BookInv(s)' BY <1>1, <2>1 DEF SymbolInv, BookInv, Seen
  <2> QED BY <2>2, <2>6, <2>7, <2>8 DEF SymbolInv
<1> QED BY <1>5, <1>6, <1>7 DEF FeedInv

\* The first Open event of a start().
LEMMA FirstOpenKeepsFeed ==
    ASSUME FeedTypeOK, FeedInv, FirstOpen PROVE FeedInv'
<1>1. /\ ws.pc = "received" /\ ws.msg.kind = "open" /\ ~wsConnected /\ wsConnected' = TRUE
      /\ ws' = IdleWs /\ starter # "abortConnect"
      /\ UNCHANGED <<socket, stream, dog, exLast, subscription, book, missed, starter>>
      /\ UNCHANGED <<pendingSnapshots, subscribeError>>
  BY DEF FirstOpen, Handling, WsReadyMutexFree, wsFrame
<1>2. ws.msg = Opened BY <1>1, InHandType, MessageFields
<1>3. ~OpenWaits' /\ ~Fresh' BY <1>1, Busy, OpenedFacts DEF OpenWaits, Fresh
<1>4. /\ socket = "open" => \A s \in Symbols : subscription[s] = "none"
      /\ DOMAIN stream = {}
  BY <1>1, <1>2, Busy
<1>5. LineInv' BY <1>1, <1>4, Busy, OpenedFacts DEF LineInv
<1>6. StarterInv' BY <1>1, <1>3, Busy DEF FeedInv, StarterInv, InStart
<1>7. ASSUME NEW s \in Symbols PROVE SymbolInv(s)'
  <2>1. SymbolInv(s) /\ ~InHand(s) /\ ~InHand(s)' /\ (Serving(s)' <=> Serving(s))
    BY <1>1, <1>2, OpenedFacts DEF FeedInv, InHand, Serving
  <2>2. ChainInv(s)' BY <1>1, <2>1, ChainFrame DEF SymbolInv
  <2>3. book[s] = ClearedBook BY <1>1, <2>1 DEF SymbolInv, BookInv
  <2>4. UnservedInv(s)' BY <1>1, <1>4, <2>1, <2>3 DEF UnservedInv, ClearedBook
  <2>5. RejectInv(s)' BY <1>1, <1>4, OpenedFacts DEF RejectInv
  <2>6. BookInv(s)' BY <1>1, <2>1, OpenedFacts DEF SymbolInv, BookInv, Seen
  <2> QED BY <2>2, <2>4, <2>5, <2>6 DEF SymbolInv
<1> QED BY <1>5, <1>6, <1>7 DEF FeedInv

\* A later one: every book is cleared, ...
LEMMA ReopenClearKeepsFeed ==
    ASSUME FeedTypeOK, FeedInv, ReopenClear PROVE FeedInv'
<1>1. /\ ws.pc = "received" /\ ws.msg.kind = "open" /\ wsConnected /\ wsConnected' = TRUE
      /\ ws'.pc = "resetPending" /\ ws'.msg = ws.msg
      /\ \A s \in Symbols : book'[s] = ClearedBook /\ missed'[s] = {}
      /\ UNCHANGED <<socket, stream, dog, exLast, subscription, starter>>
      /\ UNCHANGED <<pendingSnapshots, subscribeError>>
  BY DEF ReopenClear, Handling, wsFrame, FeedTypeOK, ConnectionOK
<1>2. ws.msg = Opened BY <1>1, InHandType, MessageFields
<1>3. ~OpenWaits' BY <1>1, Busy DEF OpenWaits
<1>4. /\ socket = "open" => \A s \in Symbols : subscription[s] = "none"
      /\ DOMAIN stream = {} /\ ~InStart
  BY <1>1, <1>2, Busy
<1>5. LineInv' BY <1>1, <1>2, <1>4, Busy DEF LineInv
<1>6. StarterInv' BY <1>1, <1>2, <1>4, StarterHandled DEF InStart
<1>7. ASSUME NEW s \in Symbols PROVE SymbolInv(s)'
  <2>1. ~InHand(s)' /\ ~Serving(s)' BY <1>1, <1>4 DEF InHand, Serving
  <2>2. ChainInv(s)' BY <1>1, <1>4, <2>1, QuietChain
  <2>3. UnservedInv(s)' BY <1>1, <1>4, <2>1 DEF UnservedInv, ClearedBook
  <2>4. RejectInv(s)' BY <1>1, <1>2, <1>4, OpenedFacts DEF RejectInv
  <2>5. BookInv(s)' BY <1>1 DEF BookInv, ClearedBook
  <2> QED BY <2>2, <2>3, <2>4, <2>5 DEF SymbolInv
<1> QED BY <1>5, <1>6, <1>7 DEF FeedInv

\* ... awaited again, ...
LEMMA ReopenPendingKeepsFeed ==
    ASSUME FeedTypeOK, FeedInv, ReopenPending PROVE FeedInv'
<1>1. /\ ws.pc = "resetPending" /\ ws'.pc = "resubscribe" /\ ws'.msg = ws.msg
      /\ UNCHANGED <<socket, stream, dog, exLast, subscription, book, missed, starter, wsConnected>>
  BY DEF ReopenPending, wsFrame, FeedTypeOK, ConnectionOK
<1>2. ws.msg = Opened /\ wsConnected BY <1>1 DEF FeedInv, LineInv
<1>3. ~OpenWaits' /\ ~OpenWaits BY <1>1, Busy DEF OpenWaits
<1>4. /\ socket = "open" => \A s \in Symbols : subscription[s] = "none"
      /\ DOMAIN stream = {} /\ ~InStart
  BY <1>1, <1>2, Busy
<1>5. LineInv' BY <1>1, <1>2, <1>4, Busy DEF LineInv
<1>6. StarterInv' BY <1>1, <1>2, <1>4, StarterHandled DEF InStart
<1>7. ASSUME NEW s \in Symbols PROVE SymbolInv(s)'
  <2>1. SymbolInv(s) /\ ~InHand(s)' /\ ~Serving(s)' /\ ~OpenAhead
    BY <1>1, <1>3, <1>4 DEF FeedInv, InHand, Serving, OpenAhead
  <2>2. ChainInv(s)' BY <1>1, <1>4, <2>1, QuietChain
  <2>3. UnservedInv(s)' BY <1>1, <1>4, <2>1 DEF SymbolInv, UnservedInv
  <2>4. RejectInv(s)' BY <1>1, <1>2, <1>4, OpenedFacts DEF RejectInv
  <2>5. BookInv(s)' BY <1>1, <2>1 DEF SymbolInv, BookInv, Seen
  <2> QED BY <2>2, <2>3, <2>4, <2>5 DEF SymbolInv
<1> QED BY <1>5, <1>6, <1>7 DEF FeedInv

\* ... and subscribed to again.
LEMMA ReopenSubscribesKeepsFeed ==
    ASSUME FeedTypeOK, FeedInv, ReopenSubscribes PROVE FeedInv'
<1>1. /\ ws.pc = "resubscribe" /\ ws' = IdleWs /\ Subscribes
      /\ UNCHANGED <<socket, stream, dog, exLast, book, missed, starter, wsConnected>>
      /\ UNCHANGED <<pendingSnapshots, subscribeError>>
  BY DEF ReopenSubscribes, wsFrame, feedVars
<1>2. ws.msg = Opened /\ wsConnected BY <1>1 DEF FeedInv, LineInv
<1>3. ~OpenWaits' /\ ~OpenWaits BY <1>1, Busy DEF OpenWaits
<1>4. /\ socket = "open" => \A s \in Symbols : subscription[s] = "none"
      /\ DOMAIN stream = {} /\ ~InStart
  BY <1>1, <1>2, Busy
<1>5. LineInv'
  <2>1. ~Fresh' /\ wsConnected' /\ starter' \notin {"connecting", "subscribing"}
    BY <1>1, <1>2, <1>3, <1>4, OpenedFacts DEF Fresh, InStart
  <2> QED BY <1>1, <1>4, <2>1, Busy, OpenedFacts DEF LineInv
<1>6. StarterInv' BY <1>1, <1>2, <1>4, StarterHandled DEF InStart
<1>7. ASSUME NEW s \in Symbols PROVE SymbolInv(s)'
  <2>1. /\ SymbolInv(s) /\ ~InHand(s)' /\ ~OpenAhead
        /\ subscription'[s] \in {"requested", subscription[s]}
        /\ socket = "open" => subscription'[s] = "requested"
    BY <1>1, <1>3, <1>4, OpenedFacts DEF FeedInv, InHand, OpenAhead, Subscribes
  <2>2. ~Serving(s)' BY <1>1, <2>1 DEF Serving
  <2>3. ChainInv(s)' BY <1>1, <1>4, <2>1, <2>2, QuietChain
  <2>4. UnservedInv(s)' BY <1>1, <1>4, <2>1 DEF SymbolInv, UnservedInv
  <2>5. RejectInv(s)' BY <1>1, <1>4, OpenedFacts DEF RejectInv
  <2>6. BookInv(s)' BY <1>1, <2>1, OpenedFacts DEF SymbolInv, BookInv, Seen
  <2> QED BY <2>3, <2>4, <2>5, <2>6 DEF SymbolInv
<1> QED BY <1>5, <1>6, <1>7 DEF FeedInv

\* A snapshot replaces the book.
LEMMA HandleSnapshotKeepsFeed ==
    ASSUME FeedTypeOK, FeedInv, HandleSnapshot PROVE FeedInv'
<1>0. PICK s \in Symbols : s = ws.msg.sym
  BY InHandType, MessageFields DEF HandleSnapshot, Handling
<1>1. /\ ws.pc = "received" /\ ws.msg.kind = "snapshot"
      /\ ws'.pc = "snapshotApplied" /\ ws'.msg = ws.msg
      /\ UNCHANGED <<socket, stream, dog, exLast, subscription, starter>>
      /\ UNCHANGED <<pendingSnapshots, subscribeError, wsConnected>>
      /\ \A x \in Symbols : x # s => book'[x] = book[x] /\ missed'[x] = missed[x]
  BY <1>0 DEF HandleSnapshot, Handling, wsFrame, FeedTypeOK, ConnectionOK
<1>2. /\ s \in Symbols /\ ws.msg.id \in Events /\ ws.msg.id \in Nat /\ ws.msg.id >= 1
      /\ ws.msg # Opened
  BY <1>0, <1>1, InHandType, MessageFields, OpenedFacts
<1>3. book'[s] = [applied |-> TRUE, content |-> 1 .. ws.msg.id] /\ missed'[s] = {}
  BY <1>0, <1>2 DEF HandleSnapshot, FeedTypeOK
<1>4. ~OpenWaits' /\ ~OpenWaits BY <1>0, <1>1, Busy DEF OpenWaits
<1>5. LineInv'
  <2>1. ~Fresh' /\ wsConnected' /\ starter' \notin {"connecting", "subscribing"}
    BY <1>0, <1>1, <1>2, <1>4, Busy DEF Fresh
  <2> QED BY <1>0, <1>1, <2>1, Busy DEF LineInv
<1>6. StarterInv'
  <2>1. \A x \in Symbols : book[x].applied => book'[x].applied BY <1>0, <1>1, <1>3
  <2> QED BY <1>0, <1>1, <1>2, <2>1, StarterHandled
<1>7. SymbolInv(s)'
  <2>1. SymbolInv(s) /\ InHand(s) /\ ~InHand(s)' /\ (Serving(s)' <=> Serving(s))
    BY <1>0, <1>1, <1>2 DEF FeedInv, InHand, Serving, Data
  <2>2. Seen(s)' = 1 .. ws.msg.id BY <1>0, <1>1, <1>2, <1>3 DEF Seen
  <2>3. ChainInv(s)' BY <1>0, <1>1, <1>2, <2>1, <2>2, HandledChain DEF SymbolInv
  <2>4. UnservedInv(s)' BY <1>0, <1>1, <2>1 DEF SymbolInv, UnservedInv
  <2>5. RejectInv(s)' BY <1>0, <1>1, <2>1 DEF SymbolInv, RejectInv
  <2>6. ws.msg.id <= exLast[s] /\ exLast[s] \in Nat
    BY <1>2, <2>1, StreamFacts DEF SymbolInv, ChainInv
  <2>7. \A n \in 1 .. ws.msg.id : n <= exLast'[s] BY <1>0, <1>1, <1>2, <2>6
  <2>8. wsConnected' BY <1>0, <1>1, <1>2, Busy
  <2>9. BookInv(s)' BY <1>0, <1>1, <1>2, <1>3, <2>2, <2>7, <2>8 DEF BookInv
  <2> QED BY <2>3, <2>4, <2>5, <2>9 DEF SymbolInv
<1>8. ASSUME NEW x \in Symbols, x # s PROVE SymbolInv(x)'
  <2>1. SymbolInv(x) /\ ~InHand(x) /\ ~InHand(x)' /\ (Serving(x)' <=> Serving(x))
    BY <1>0, <1>1, <1>8 DEF FeedInv, InHand, Serving, Data
  <2>2. book'[x] = book[x] /\ missed'[x] = missed[x] BY <1>0, <1>1, <1>8
  <2>3. ChainInv(x)' BY <1>0, <1>1, <2>1, <2>2, ChainFrame DEF SymbolInv
  <2>4. OpenAhead' <=> OpenAhead BY <1>0, <1>1, <1>2, <1>4 DEF OpenAhead
  <2>5. UnservedInv(x)' BY <1>0, <1>1, <2>1, <2>2, <2>4 DEF SymbolInv, UnservedInv
  <2>6. RejectInv(x)' BY <1>0, <1>1, <2>1 DEF SymbolInv, RejectInv
  <2>7. BookInv(x)' BY <1>0, <1>1, <1>8, <2>1, <2>2 DEF SymbolInv, BookInv, Seen
  <2> QED BY <2>3, <2>5, <2>6, <2>7 DEF SymbolInv
<1> QED BY <1>0, <1>5, <1>6, <1>7, <1>8 DEF FeedInv

\* What the message in hand is, and what it says of the others.
LEMMA HandledFacts ==
    ASSUME FeedTypeOK, FeedInv, ws.pc # "idle", ws.msg # Opened, ws' = IdleWs,
           UNCHANGED <<socket, stream, subscription>>
    PROVE  /\ ~OpenAhead /\ ~OpenAhead'
           /\ \A s \in Symbols : ~InHand(s)' /\ (Serving(s)' <=> Serving(s))
           /\ ws'.pc = "idle" /\ ws'.msg.kind = "nothing"
BY Busy, OpenedFacts DEF OpenAhead, OpenWaits, InHand, Serving

\* start() is told of the snapshot; ...
LEMMA SnapshotArrivedKeepsFeed ==
    ASSUME FeedTypeOK, FeedInv, SnapshotArrived PROVE FeedInv'
<1>1. /\ ws.pc = "snapshotApplied" /\ ws' = IdleWs
      /\ pendingSnapshots' = pendingSnapshots \ {ws.msg.sym}
      /\ UNCHANGED <<socket, stream, dog, exLast, subscription, starter>>
      /\ UNCHANGED <<book, missed, subscribeError, wsConnected>>
  BY DEF SnapshotArrived, wsFrame
<1>2. ws.msg # Opened BY <1>1, OpenedFacts DEF FeedInv, LineInv
<1>3. LineInv' BY <1>1, <1>2, LineHandled
<1>4. ws.msg.sym \in Symbols => book[ws.msg.sym].applied
  BY <1>1 DEF FeedInv, SymbolInv, BookInv
<1>5. StarterInv' BY <1>1, <1>2, <1>4, StarterHandled
<1>6. ASSUME NEW s \in Symbols PROVE SymbolInv(s)'
  <2>1. ~InHand(s) BY <1>1 DEF InHand
  <2> QED BY <1>1, <1>2, <2>1, HandledFacts, SymbolHandled
<1> QED BY <1>3, <1>5, <1>6 DEF FeedInv

\* ... an update of a book without a snapshot is dropped; ...
LEMMA DropUpdateKeepsFeed ==
    ASSUME FeedTypeOK, FeedInv, DropUpdate PROVE FeedInv'
<1>1. /\ ws.pc = "received" /\ ws.msg.kind = "update" /\ ws' = IdleWs
      /\ ~book[ws.msg.sym].applied
      /\ UNCHANGED <<socket, stream, dog, exLast, subscription, starter>>
      /\ UNCHANGED <<book, missed, pendingSnapshots, subscribeError, wsConnected>>
  BY DEF DropUpdate, Handling, wsFrame, feedVars
<1>2. ws.msg # Opened BY <1>1, OpenedFacts
<1>3. LineInv' BY <1>1, <1>2, LineHandled
<1>4. StarterInv' BY <1>1, <1>2, StarterHandled DEF FeedInv, StarterInv
<1>5. ASSUME NEW s \in Symbols PROVE SymbolInv(s)'
  <2>1. CASE InHand(s)
    <3>1. SymbolInv(s) /\ ~book'[s].applied BY <1>1, <2>1 DEF FeedInv, InHand, Data
    <3>2. ChainInv(s)' BY <1>1, <1>2, <2>1, <3>1, HandledFacts, HandledChain DEF SymbolInv
    <3>3. UnservedInv(s)' BY <1>1, <1>2, <3>1, HandledFacts DEF SymbolInv, UnservedInv
    <3>4. RejectInv(s)' BY <1>1, <1>2, <3>1, HandledFacts DEF SymbolInv, RejectInv
    <3>5. BookInv(s)' BY <1>1, <1>2, <3>1, HandledFacts DEF SymbolInv, BookInv, Seen
    <3> QED BY <3>2, <3>3, <3>4, <3>5 DEF SymbolInv
  <2>2. CASE ~InHand(s) BY <1>1, <1>2, <2>2, HandledFacts, SymbolHandled
  <2> QED BY <2>1, <2>2
<1> QED BY <1>3, <1>4, <1>5 DEF FeedInv

\* An update of a book that has one, taken or lost: what has been seen of the symbol goes
\* one event further.
LEMMA SeenGrows ==
    ASSUME FeedTypeOK, FeedInv, NEW s \in Symbols, InHand(s), ws.msg.kind = "update",
           book[s].applied, ws' = IdleWs,
           UNCHANGED <<socket, stream, exLast, subscription, wsConnected>>,
           book'[s].applied,
           \/ /\ book'[s].content = book[s].content \cup {ws.msg.id}
              /\ missed'[s] = missed[s]
           \/ /\ book'[s].content = book[s].content
              /\ missed'[s] = missed[s] \cup {ws.msg.id}
    PROVE  SymbolInv(s)'
<1>1. /\ ws.pc # "idle" /\ ws.msg # Opened /\ ws.msg \in Messages /\ SymbolInv(s)
      /\ ws.msg.id \in Nat /\ ws.msg.id >= 1 /\ ws.msg.id \in Events
  BY InHandType, MessageFields, OpenedFacts DEF InHand, FeedInv
<1>2. Seen(s) = 1 .. ws.msg.id - 1 BY <1>1 DEF SymbolInv, ChainInv
<1>3. Seen(s)' = Seen(s) \cup {ws.msg.id} BY <1>1 DEF Seen
<1>4. Seen(s)' = 1 .. ws.msg.id BY <1>1, <1>2, <1>3
<1>5. ChainInv(s)' BY <1>1, <1>4, HandledFacts, HandledChain DEF SymbolInv
<1>6. UnservedInv(s)' BY <1>1, HandledFacts DEF SymbolInv, UnservedInv
<1>7. RejectInv(s)' BY <1>1, HandledFacts DEF SymbolInv, RejectInv
<1>8. BookInv(s)'
  <2>1. ws.msg.id <= exLast[s] /\ exLast[s] \in Nat
    BY <1>1, StreamFacts DEF SymbolInv, ChainInv
  <2>2. \A n \in 1 .. ws.msg.id : n <= exLast'[s] BY <1>1, <2>1
  <2>3. ws.msg.id \notin Seen(s) /\ ws.msg.id # 0 BY <1>1, <1>2
  <2>4. ws.msg.id \notin book[s].content /\ ws.msg.id \notin missed[s] BY <2>3 DEF Seen
  <2>5. book'[s].content \cap missed'[s] = {} BY <1>1, <2>4 DEF SymbolInv, BookInv
  <2>6. wsConnected' BY <1>1, Busy
  <2> QED BY <1>1, <1>4, <2>2, <2>5, <2>6, HandledFacts DEF BookInv
<1> QED BY <1>5, <1>6, <1>7, <1>8 DEF SymbolInv

\* ... any other update is applied; ...
LEMMA HandleUpdateKeepsFeed ==
    ASSUME FeedTypeOK, FeedInv, HandleUpdate PROVE FeedInv'
<1>0. PICK s \in Symbols : s = ws.msg.sym
  BY InHandType, MessageFields DEF HandleUpdate, Handling
<1>1. /\ ws.pc = "received" /\ ws.msg.kind = "update" /\ ws' = IdleWs
      /\ UNCHANGED <<socket, stream, dog, exLast, subscription, starter>>
      /\ UNCHANGED <<missed, pendingSnapshots, subscribeError, wsConnected>>
      /\ \A x \in Symbols : x # s => book'[x] = book[x]
  BY <1>0 DEF HandleUpdate, Handling, wsFrame, FeedTypeOK
<1>2. ws.msg # Opened /\ s \in Symbols BY <1>0, <1>1, InHandType, MessageFields, OpenedFacts
<1>3. book[s].applied /\ book'[s].applied /\ book'[s].content = book[s].content \cup {ws.msg.id}
  BY <1>0, <1>2 DEF HandleUpdate, FeedTypeOK, BookType
<1>4. LineInv' BY <1>0, <1>1, <1>2, LineHandled
<1>5. \A x \in Symbols : book'[x].applied <=> book[x].applied BY <1>0, <1>1, <1>3
<1>6. StarterInv' BY <1>0, <1>1, <1>2, <1>5, StarterHandled
<1>7. SymbolInv(s)'
  <2>1. InHand(s) BY <1>0, <1>1 DEF InHand, Data
  <2> QED BY <1>0, <1>1, <1>2, <1>3, <2>1, SeenGrows
<1>8. ASSUME NEW x \in Symbols, x # s PROVE SymbolInv(x)'
  <2>1. /\ SymbolInv(x) /\ ~InHand(x) /\ ~InHand(x)' /\ (Serving(x)' <=> Serving(x))
        /\ book'[x] = book[x] /\ missed'[x] = missed[x]
    BY <1>0, <1>1, <1>2, <1>8, HandledFacts DEF FeedInv, InHand, Data
  <2>2. ChainInv(x)' BY <1>0, <1>1, <2>1, ChainFrame DEF SymbolInv
  <2>3. UnservedInv(x)' BY <1>0, <1>1, <1>2, <2>1, HandledFacts DEF SymbolInv, UnservedInv
  <2>4. RejectInv(x)' BY <1>0, <1>1, <1>2, <2>1, HandledFacts DEF SymbolInv, RejectInv
  <2>5. BookInv(x)' BY <1>0, <1>1, <1>2, <2>1, HandledFacts DEF SymbolInv, BookInv, Seen
  <2> QED BY <2>2, <2>3, <2>4, <2>5 DEF SymbolInv
<1> QED BY <1>4, <1>6, <1>7, <1>8 DEF FeedInv

\* ... one that cannot be parsed is missed from now on, like such a snapshot; ...
LEMMA DropMalformedKeepsFeed ==
    ASSUME FeedTypeOK, FeedInv, DropMalformed PROVE FeedInv'
<1>0. PICK s \in Symbols : s = ws.msg.sym
  BY InHandType, MessageFields DEF DropMalformed, Handling
<1>1. /\ ws.pc = "received" /\ ws.msg.kind \in {"snapshot", "update"} /\ ws' = IdleWs
      /\ ws.msg.kind = "update" => book[s].applied
      /\ UNCHANGED <<socket, stream, dog, exLast, subscription, starter>>
      /\ UNCHANGED <<book, pendingSnapshots, subscribeError, wsConnected>>
      /\ \A x \in Symbols : x # s => missed'[x] = missed[x]
  BY <1>0 DEF DropMalformed, Handling, wsFrame, FeedTypeOK
<1>2. ws.msg # Opened /\ s \in Symbols BY <1>0, <1>1, InHandType, MessageFields, OpenedFacts
<1>3. missed'[s] = missed[s] \cup {IF ws.msg.kind = "snapshot" THEN 0 ELSE ws.msg.id}
  BY <1>0, <1>2 DEF DropMalformed, FeedTypeOK
<1>4. LineInv' BY <1>0, <1>1, <1>2, LineHandled
<1>5. StarterInv' BY <1>0, <1>1, <1>2, StarterHandled DEF FeedInv, StarterInv
<1>6. InHand(s) BY <1>0, <1>1 DEF InHand, Data
<1>7. SymbolInv(s)'
  <2>1. CASE ws.msg.kind = "update"
    BY <1>0, <1>1, <1>2, <1>3, <1>6, <2>1, SeenGrows
  <2>2. CASE ws.msg.kind = "snapshot"
    <3>1. SymbolInv(s) /\ ~book'[s].applied BY <1>0, <1>1, <1>2, <1>6, <2>2 DEF FeedInv, SymbolInv, ChainInv
    <3>2. ChainInv(s)' BY <1>0, <1>1, <1>2, <1>6, <3>1, HandledFacts, HandledChain DEF SymbolInv
    <3>3. UnservedInv(s)' BY <1>0, <1>1, <1>2, <3>1, HandledFacts DEF SymbolInv, UnservedInv
    <3>4. RejectInv(s)' BY <1>0, <1>1, <1>2, <3>1, HandledFacts DEF SymbolInv, RejectInv
    <3>5. wsConnected' /\ book'[s].content = {} BY <1>0, <1>1, <1>2, <3>1, Busy DEF SymbolInv, BookInv
    <3>6. BookInv(s)' BY <1>0, <1>1, <1>2, <3>1, <3>5, HandledFacts DEF BookInv
    <3> QED BY <3>2, <3>3, <3>4, <3>6 DEF SymbolInv
  <2> QED BY <1>0, <1>1, <2>1, <2>2
<1>8. ASSUME NEW x \in Symbols, x # s PROVE SymbolInv(x)'
  <2>1. /\ SymbolInv(x) /\ ~InHand(x) /\ ~InHand(x)' /\ (Serving(x)' <=> Serving(x))
        /\ book'[x] = book[x] /\ missed'[x] = missed[x]
    BY <1>0, <1>1, <1>2, <1>8, HandledFacts DEF FeedInv, InHand, Data
  <2>2. ChainInv(x)' BY <1>0, <1>1, <2>1, ChainFrame DEF SymbolInv
  <2>3. UnservedInv(x)' BY <1>0, <1>1, <1>2, <2>1, HandledFacts DEF SymbolInv, UnservedInv
  <2>4. RejectInv(x)' BY <1>0, <1>1, <1>2, <2>1, HandledFacts DEF SymbolInv, RejectInv
  <2>5. BookInv(x)' BY <1>0, <1>1, <1>2, <2>1, HandledFacts DEF SymbolInv, BookInv, Seen
  <2> QED BY <2>2, <2>3, <2>4, <2>5 DEF SymbolInv
<1> QED BY <1>4, <1>5, <1>7, <1>8 DEF FeedInv

\* ... and a rejection ends the wait for its symbol, or for all.
LEMMA RejectedKeepsFeed ==
    ASSUME FeedTypeOK, FeedInv, SymbolRejected \/ AllRejected PROVE FeedInv'
<1>1. /\ ws.pc = "received" /\ ws.msg.kind = "reject" /\ ws' = IdleWs
      /\ UNCHANGED <<socket, stream, dog, exLast, subscription, starter>>
      /\ UNCHANGED <<book, missed, wsConnected>>
      /\ \/ subscribeError'
         \/ /\ subscribeError' = subscribeError
            /\ pendingSnapshots' = pendingSnapshots \ {ws.msg.sym}
  BY DEF SymbolRejected, AllRejected, Handling, wsFrame
<1>2. ws.msg # Opened BY <1>1, OpenedFacts
<1>3. LineInv' BY <1>1, <1>2, LineHandled
<1>4. ws.msg.sym \in Symbols => subscription[ws.msg.sym] = "refused"
  BY <1>1 DEF FeedInv, SymbolInv, RejectInv
<1>5. StarterInv' BY <1>1, <1>2, <1>4, StarterHandled
<1>6. ASSUME NEW s \in Symbols PROVE SymbolInv(s)'
  <2>1. ~InHand(s) BY <1>1 DEF InHand, Data
  <2> QED BY <1>1, <1>2, <2>1, HandledFacts, SymbolHandled
<1> QED BY <1>3, <1>5, <1>6 DEF FeedInv

-----------------------------------------------------------------------------
(* The theorems.                                                           *)

\* It holds at first.
LEMMA InitInv == ASSUME Init PROVE IInv
<1> USE DEF Init, KrakenInit, ConnectionInit
<1>1. /\ stream = << >> /\ DOMAIN stream = {} /\ ~OpenWaits /\ ws = IdleWs
      /\ ws.pc = "idle" /\ ws.msg = Nothing
  BY OpenedFacts DEF OpenWaits
<1>2. FeedTypeOK
  <2>0. /\ ws \in [pc : WsPcs, msg : Messages \cup {Nothing}]
        /\ trouble \in [stalls : 0 .. MaxStalls, failedOpens : 0 .. MaxFailedOpens]
    BY ConnectionAssumption DEF IdleWs, WsPcs
  <2>1. ConnectionOK(Messages, WsPcs)
    BY <1>1, <2>0, EmptySeq DEF ConnectionOK
  <2>2. book \in [Symbols -> BookType] BY DEF ClearedBook, BookType
  <2>3. exLast \in [Symbols -> Events] BY EventsUpTo
  <2>4. used \in [malformed : 0 .. MaxMalformed, rejects : 0 .. MaxRejects]
    BY KrakenAssumption
  <2> QED BY <2>1, <2>2, <2>3, <2>4 DEF FeedTypeOK
<1>3. TypeOK
  <2>1. 1 <= Len(runtimes) + 1
    BY StartupAssumption, LenProperties
  <2>2. main \in [pc : {"start", "starting", "backoff", "serving", "stop", "stopping", "left"},
                  i : 1 .. Len(runtimes) + 1, attempt : 1 .. MaxStartAttempts]
    BY <2>1, StartupAssumption, LenProperties
  <2> QED BY <1>2, <2>2, EmptySeq DEF TypeOK
<1>4. LineInv BY <1>1, OpenedFacts DEF LineInv
<1>5. StarterInv BY DEF StarterInv, InStart
<1>6. ASSUME NEW s \in Symbols PROVE SymbolInv(s)
  <2>1. ~InHand(s) /\ ~Serving(s) BY <1>1 DEF InHand, Serving
  <2>2. ChainInv(s) BY <1>1, <2>1 DEF ChainInv
  <2>3. UnservedInv(s) /\ RejectInv(s) BY <1>1, OpenedFacts DEF UnservedInv, RejectInv
  <2>4. BookInv(s) BY <1>1 DEF BookInv, ClearedBook
  <2> QED BY <2>2, <2>3, <2>4 DEF SymbolInv
<1>7. MainInv BY DEF MainInv, InStart
<1> QED BY <1>3, <1>4, <1>5, <1>6, <1>7 DEF IInv, FeedInv

\* No step of the feed breaks it, ...
LEMMA FeedStepKeepsInv == ASSUME IInv, FeedStep, UNCHANGED startupVars PROVE IInv'
<1>1. TypeOK' /\ MainInv' BY FeedKeepsType, FeedKeepsMain DEF IInv
<1>2. FeedTypeOK /\ FeedTypeOK' /\ FeedInv BY <1>1 DEF IInv, TypeOK
<1>3. FeedInv'
  <2>1. CASE Exchange
    BY <1>2, <2>1, ExchangeEventKeepsFeed, AcceptsKeepsFeed, RejectsKeepsFeed DEF Exchange
  <2>2. CASE Network BY <1>2, <2>2, NetworkKeepsFeed
  <2>3. CASE WsStep
    BY <1>2, <2>3, ReceivesKeepsFeed, FirstOpenKeepsFeed, ReopenClearKeepsFeed,
       ReopenPendingKeepsFeed, ReopenSubscribesKeepsFeed, HandleSnapshotKeepsFeed,
       SnapshotArrivedKeepsFeed, HandleUpdateKeepsFeed, DropUpdateKeepsFeed,
       DropMalformedKeepsFeed, RejectedKeepsFeed
    DEF WsStep
  <2>4. CASE WatchdogStep BY <1>2, <2>4, WatchdogKeepsFeed
  <2>5. CASE StarterStep BY <1>2, <2>5, StarterKeepsFeed
  <2> QED BY <2>1, <2>2, <2>3, <2>4, <2>5 DEF FeedStep
<1> QED BY <1>1, <1>3 DEF IInv

\* ... nor one of main: it leaves the feed alone, or calls start() or stop().
LEMMA MainStepKeepsInv == ASSUME IInv, MainStep PROVE IInv'
<1>1. TypeOK' /\ MainInv' BY MainKeepsType, MainKeepsMain DEF IInv
<1>2. FeedTypeOK /\ FeedInv BY DEF IInv, TypeOK
<1>3. CASE CallsStart
  <2>1. CASE runtimes[main.i] = Kraken
    BY <1>1, <1>2, <1>3, <2>1, StartsClosed, StartKeepsFeed DEF CallsStart, IInv
  <2>2. CASE runtimes[main.i] # Kraken
    BY <1>1, <1>2, <1>3, <2>2, FeedFrame DEF CallsStart, IInv
  <2> QED BY <2>1, <2>2
<1>4. CASE CallsStop
  BY <1>1, <1>2, <1>4, StopKeepsFeed, FeedFrame DEF CallsStop, IInv
<1>5. CASE ~CallsStart /\ ~CallsStop
  <2>1. UNCHANGED krakenVars
    BY <1>5 DEF MainStep, BinanceStarts, KrakenStarted, KrakenFailed, TriesAgain, GivesUp, Serves,
                KrakenStopped, Leaves
  <2> QED BY <1>1, <1>2, <2>1, FeedFrame DEF IInv
<1> QED BY <1>3, <1>4, <1>5

\* The inductive invariant holds in every state.
THEOREM InductiveInvariant == Spec => []IInv
<1>1. Init => IInv BY InitInv
<1>2. IInv /\ [Next]_vars => IInv'
  <2>1. ASSUME IInv, UNCHANGED vars PROVE IInv'
    <3>1. /\ UNCHANGED krakenVars /\ UNCHANGED startupVars
          /\ starter' = starter /\ main' = main /\ toStop' = toStop
          /\ runtimes' = runtimes /\ binance' = binance
      BY <2>1 DEF vars, krakenVars, startupVars
    <3>2. FeedTypeOK' /\ FeedInv' BY <2>1, <3>1, FeedTypeFrame, FeedFrame DEF IInv, TypeOK
    <3>3. TypeOK' BY <2>1, <3>1, <3>2 DEF IInv, TypeOK
    <3>4. MainInv' BY <2>1, <3>1 DEF IInv, MainInv, InStart, Begun, Pending, Starting
    <3> QED BY <3>2, <3>3, <3>4 DEF IInv
  <2> QED BY <2>1, FeedStepKeepsInv, MainStepKeepsInv DEF Next
<1> QED BY <1>1, <1>2, PTL DEF Spec

\* Every variable of the feed and of the main thread keeps its type, and the watchdog runs
\* only between a start() that returned true and the end of stop().
THEOREM TypeCorrect == Spec => []TypeOK
<1>1. IInv => TypeOK BY DEF IInv
<1> QED BY <1>1, InductiveInvariant, PTL

\* A book is empty or has every event up to the last it was sent: what an old connection
\* left behind never mixes with what a new one sends.
THEOREM BooksInSync == Spec => []InSync
<1>1. IInv => InSync
  BY DEF IInv, FeedInv, SymbolInv, BookInv, InSync
<1> QED BY <1>1, InductiveInvariant, PTL

\* When everything sent has been handled, a book that has a snapshot is the exchange's.
THEOREM BooksCaughtUp == Spec => []CaughtUp
<1>1. ASSUME IInv PROVE CaughtUp
  <2>1. SUFFICES ASSUME socket = "open", stream = << >>, ws = IdleWs,
                        NEW s \in Symbols, book[s].applied
                 PROVE  Seen(s) = 1 .. exLast[s]
    BY DEF CaughtUp
  <2>2. SymbolInv(s) /\ FeedTypeOK BY <1>1 DEF IInv, FeedInv, TypeOK
  <2>3. ~OpenAhead /\ ~InHand(s) /\ Len(stream) = 0
    BY <2>1, OpenedFacts DEF OpenAhead, OpenWaits, InHand
  <2>4. Serving(s) BY <2>1, <2>2, <2>3 DEF SymbolInv, UnservedInv, Serving
  <2>5. Precedes(s, 1, exLast[s] + 1) BY <2>2, <2>3, <2>4 DEF SymbolInv, ChainInv
  <2>6. Awaits(s, exLast[s] + 1) BY <2>5 DEF Precedes
  <2>7. Seen(s) = 1 .. (exLast[s] + 1) - 1 BY <2>1, <2>3, <2>6 DEF Awaits
  <2>8. (exLast[s] + 1) - 1 = exLast[s] BY <2>2, StreamFacts
  <2> QED BY <2>7, <2>8
<1> QED BY <1>1, InductiveInvariant, PTL

\* When main leaves, no thread of an adapter runs, and no watchdog can bring one back.
THEOREM MainLeavesNothing == Spec => []NothingRunsAfterMain
<1>1. ASSUME IInv PROVE NothingRunsAfterMain
  <2>1. SUFFICES ASSUME main.pc = "left"
                 PROVE  socket = "closed" /\ ws = IdleWs /\ dog = "off" /\ binance = "off"
    BY DEF NothingRunsAfterMain
  <2>2. Pending = {} BY <1>1, <2>1 DEF IInv, MainInv, Pending
  <2>3. starter \in {"out", "failed", "stopped"} /\ binance = "off"
    BY <1>1, <2>1, <2>2 DEF IInv, MainInv, TypeOK, FeedTypeOK, InStart
  <2> QED
    BY <1>1, <2>3 DEF IInv, TypeOK, FeedTypeOK, FeedInv, StarterInv, LineInv
<1> QED BY <1>1, InductiveInvariant, PTL

\* start() returns true only when every symbol has its book or was refused by name.
THEOREM StartReturnsWithBooks == Spec => StartHasBooks
<1>1. IInv /\ StartReturns => \A s \in Symbols : book[s].applied \/ subscription[s] = "refused"
  BY DEF IInv, FeedInv, StarterInv, StartReturns
<1> QED BY <1>1, InductiveInvariant, PTL DEF StartHasBooks

-----------------------------------------------------------------------------
(* The promise.                                                            *)

\* A local book that is kept is the exchange's as of the last event seen.
LEMMA CopyKept ==
    ASSUME FeedTypeOK, NEW s \in Symbols, book[s].applied, NEW n \in Nat, n >= 1,
           Seen(s) = 1 .. n
    PROVE  Copy(s) = n
<1>1. Cardinality(1 .. n) = n BY FS_Interval
<1> QED BY <1>1 DEF Copy

\* The step of a local book: it stays, or the step is one of those that change it.
LEMMA BookSteps ==
    ASSUME Next
    PROVE  \/ UNCHANGED <<book, missed, exLast>>
           \/ \E s \in Symbols : ExchangeEvent(s)
           \/ HandleSnapshot \/ HandleUpdate \/ DropMalformed \/ ReopenClear
           \/ CallsStart /\ runtimes[main.i] = Kraken
<1> USE DEF krakenVars, serverVars, feedVars
<1>1. CASE MainStep
  <2>1. CASE CallsStart BY <2>1 DEF CallsStart
  <2>2. CASE CallsStop BY <2>2 DEF CallsStop, StopBegins, starterFrame
  <2>3. CASE ~CallsStart /\ ~CallsStop
    BY <1>1, <2>3 DEF MainStep, BinanceStarts, KrakenStarted, KrakenFailed, TriesAgain, GivesUp,
                      Serves, KrakenStopped, Leaves
  <2> QED BY <2>1, <2>2, <2>3
<1>2. CASE Exchange BY <1>2 DEF Exchange, Accepts, Rejects, serverFrame
<1>3. CASE Network BY <1>3 DEF Network, ConnectionOpens
<1>4. CASE WsStep
  BY <1>4 DEF WsStep, WsReceives, FirstOpen, ReopenPending, ReopenSubscribes, SnapshotArrived,
              DropUpdate, SymbolRejected, AllRejected, wsFrame
<1>5. CASE WatchdogStep BY <1>5 DEF WatchdogStep
<1>6. CASE StarterStep
  BY <1>6 DEF StarterStep, ConnectTimesOut, StartConnected, StartSubscribes, SnapshotsTimeOut,
              StartRejected, StartFails, StartReturns, StopEnds, starterFrame
<1> QED BY <1>1, <1>2, <1>3, <1>4, <1>5, <1>6 DEF Next, FeedStep

\* An event taken by, or missed in, a book that is kept.
LEMMA CopyAdvances ==
    ASSUME FeedTypeOK, FeedInv, NEW s \in Symbols, InHand(s), ws.msg.kind = "update",
           book[s].applied, book'[s].applied, FeedTypeOK', exLast' = exLast,
           \/ /\ book'[s].content = book[s].content \cup {ws.msg.id}
              /\ missed'[s] = missed[s]
           \/ /\ book'[s].content = book[s].content
              /\ missed'[s] = missed[s] \cup {ws.msg.id},
           \A x \in Symbols : x # s => book'[x] = book[x] /\ missed'[x] = missed[x]
    PROVE  Promise!CatchesUp(s)
<1>1. /\ ws.pc # "idle" /\ ws.msg \in Messages /\ SymbolInv(s)
      /\ ws.msg.id \in Nat /\ ws.msg.id >= 1
  BY InHandType, MessageFields DEF InHand, FeedInv
<1>2. Seen(s) = 1 .. ws.msg.id - 1 BY <1>1 DEF SymbolInv, ChainInv
<1>3. PICK n \in Events : Seen(s) = 1 .. n BY <1>1 DEF SymbolInv, BookInv
<1>4. n \in Nat /\ n >= 1 BY EventsUpTo
<1>5. 1 \in 1 .. ws.msg.id - 1
  <2>1. 1 \in 1 .. n BY <1>4
  <2> QED BY <1>2, <1>3, <2>1
<1>6. Copy(s) = ws.msg.id - 1 BY <1>1, <1>2, <1>5, CopyKept
<1>7. Seen(s)' = 1 .. ws.msg.id BY <1>1, <1>2 DEF Seen
<1>8. Cardinality(1 .. ws.msg.id) = ws.msg.id BY <1>1, FS_Interval
<1>9. Copy(s)' = ws.msg.id BY <1>7, <1>8 DEF Copy
<1>10. \A x \in Symbols : x # s => Copy(x)' = Copy(x) BY DEF Copy, Seen
<1>11. ws.msg.id <= exLast[s] /\ exLast[s] \in Nat
  BY <1>1, StreamFacts DEF SymbolInv, ChainInv
<1>12. ws.msg.id \in Copy(s) + 1 .. exLast[s] /\ Copy(s) # 0
  BY <1>1, <1>5, <1>6, <1>11
<1> QED BY <1>9, <1>10, <1>12 DEF Promise!CatchesUp, Promise!Lost

\* A step of the program is a step of the promise, or none.
LEMMA StepKeepsPromise ==
    ASSUME IInv, IInv', Next PROVE [Promise!Next]_(Promise!vars)
<1> DEFINE copies == [s \in Symbols |-> Copy(s)]
<1> USE DEF Promise!vars
<1>1. /\ FeedTypeOK /\ FeedTypeOK' /\ FeedInv /\ FeedInv'
      /\ TypeOK /\ MainInv
      /\ exLast \in [Symbols -> Events] /\ exLast' \in [Symbols -> Events]
  BY DEF IInv, TypeOK, FeedTypeOK
<1>2. CASE UNCHANGED <<book, missed, exLast>>
  <2>1. UNCHANGED copies BY <1>2 DEF Copy, Seen
  <2> QED BY <1>2, <2>1
<1>3. ASSUME NEW s \in Symbols, ExchangeEvent(s) PROVE [Promise!Next]_(Promise!vars)
  <2>1. UNCHANGED copies BY <1>3 DEF Copy, Seen, ExchangeEvent, serverFrame, feedVars
  <2>2. PICK n \in Nat : n = exLast[s] BY <1>1, StreamFacts
  <2>3. exLast' = [exLast EXCEPT ![s] = n + 1] BY <2>2, <1>3 DEF ExchangeEvent
  <2>4. exLast'[s] = n + 1 /\ n + 1 > n BY <1>1, <2>3
  <2>5. exLast' = [exLast EXCEPT ![s] = exLast'[s]] BY <2>3, <2>4
  <2>6. Promise!ExchangeMoves(s) BY <2>1, <2>2, <2>4, <2>5 DEF Promise!ExchangeMoves
  <2> QED BY <2>6 DEF Promise!Next
<1>4. CASE HandleSnapshot
  <2>1. PICK s \in Symbols : s = ws.msg.sym /\ ws.msg.id \in Nat /\ ws.msg.id >= 1
    BY <1>1, <1>4, InHandType, MessageFields DEF HandleSnapshot, Handling
  <2>2. InHand(s) /\ ws.msg.kind = "snapshot"
    BY <1>4, <2>1 DEF HandleSnapshot, Handling, InHand, Data
  <2>3. ~book[s].applied /\ ws.msg.id <= exLast[s] /\ exLast[s] \in Nat
    BY <1>1, <2>2, StreamFacts DEF FeedInv, SymbolInv, ChainInv
  <2>4. /\ book'[s] = [applied |-> TRUE, content |-> 1 .. ws.msg.id] /\ missed'[s] = {}
        /\ \A x \in Symbols : x # s => book'[x] = book[x] /\ missed'[x] = missed[x]
        /\ exLast' = exLast
    BY <1>1, <1>4, <2>1 DEF HandleSnapshot, FeedTypeOK, wsFrame
  <2>5. Seen(s)' = 1 .. ws.msg.id BY <2>1, <2>4 DEF Seen
  <2>6. Cardinality(1 .. ws.msg.id) = ws.msg.id BY <2>1, FS_Interval
  <2>7. Copy(s)' = ws.msg.id /\ Copy(s) = 0 BY <2>3, <2>4, <2>5, <2>6 DEF Copy
  <2>8. \A x \in Symbols : x # s => Copy(x)' = Copy(x) BY <2>4 DEF Copy, Seen
  <2>9. ws.msg.id \in 1 .. exLast[s] BY <2>1, <2>3
  <2>10. Promise!Restores(s)
    BY <2>4, <2>7, <2>8, <2>9 DEF Promise!Restores, Promise!Lost
  <2> QED BY <2>10 DEF Promise!Next
<1>5. CASE HandleUpdate
  <2>1. PICK s \in Symbols : s = ws.msg.sym
    BY <1>1, <1>5, InHandType, MessageFields DEF HandleUpdate, Handling
  <2>2. InHand(s) /\ ws.msg.kind = "update"
    BY <1>5, <2>1 DEF HandleUpdate, Handling, InHand, Data
  <2>3. /\ book[s].applied /\ book'[s].applied
        /\ book'[s].content = book[s].content \cup {ws.msg.id}
        /\ \A x \in Symbols : x # s => book'[x] = book[x]
        /\ missed' = missed /\ exLast' = exLast
    BY <1>1, <1>5, <2>1 DEF HandleUpdate, FeedTypeOK, BookType, wsFrame
  <2>4. Promise!CatchesUp(s) BY <1>1, <2>2, <2>3, CopyAdvances
  <2> QED BY <2>4 DEF Promise!Next
<1>6. CASE DropMalformed
  <2>1. PICK s \in Symbols : s = ws.msg.sym
    BY <1>1, <1>6, InHandType, MessageFields DEF DropMalformed, Handling
  <2>2. InHand(s) /\ (ws.msg.kind = "update" => book[s].applied)
    BY <1>6, <2>1 DEF DropMalformed, Handling, InHand, Data
  <2>3. /\ book' = book /\ exLast' = exLast
        /\ \A x \in Symbols : x # s => missed'[x] = missed[x]
        /\ ws.msg.kind = "update" => missed'[s] = missed[s] \cup {ws.msg.id}
    BY <1>1, <1>6, <2>1 DEF DropMalformed, FeedTypeOK, wsFrame
  <2>4. CASE ws.msg.kind = "update"
    <3>1. Promise!CatchesUp(s) BY <1>1, <2>2, <2>3, <2>4, CopyAdvances
    <3> QED BY <3>1 DEF Promise!Next
  <2>5. CASE ws.msg.kind # "update"
    <3>1. ~book[s].applied
      BY <1>1, <2>2, <2>5 DEF FeedInv, SymbolInv, ChainInv, InHand, Data
    <3>2. \A x \in Symbols : Copy(x)' = Copy(x) BY <2>3, <3>1 DEF Copy, Seen
    <3> QED BY <2>3, <3>2
  <2> QED BY <2>4, <2>5
<1>7. CASE ReopenClear \/ (CallsStart /\ runtimes[main.i] = Kraken)
  <2>1. exLast' = exLast /\ \A s \in Symbols : book'[s] = ClearedBook
    BY <1>7 DEF ReopenClear, CallsStart, StartBegins, wsFrame, serverVars
  <2>2. \A s \in Symbols : Copy(s)' = 0 BY <2>1 DEF Copy, ClearedBook
  <2>3. Promise!Loses BY <2>1, <2>2 DEF Promise!Loses, Promise!Lost
  <2> QED BY <2>3 DEF Promise!Next
<1> QED BY <1>2, <1>3, <1>4, <1>5, <1>6, <1>7, BookSteps

\* The feed keeps the promise of a feed that is never put back: a local book is lost as a
\* whole, restored from a snapshot only when it was lost, and otherwise advances by one
\* message at a time.
THEOREM FeedKeepsPromise == Spec => KeepsPromise
<1>1. Init => Promise!Init
  <2>1. SUFFICES ASSUME Init PROVE Promise!Init OBVIOUS
  <2>2. \A s \in Symbols : Copy(s) = 0
    BY <2>1 DEF Init, KrakenInit, ClearedBook, Copy
  <2> QED BY <2>1, <2>2 DEF Promise!Init, Promise!Lost, Init, KrakenInit
<1>2. IInv /\ IInv' /\ [Next]_vars => [Promise!Next]_(Promise!vars)
  <2>1. ASSUME IInv, UNCHANGED vars PROVE UNCHANGED Promise!vars
    BY <2>1 DEF vars, feedVars, serverVars, Promise!vars, Copy, Seen
  <2> QED BY <2>1, StepKeepsPromise
<1> QED BY <1>1, <1>2, InductiveInvariant, PTL DEF Spec, KeepsPromise, Promise!Spec
=============================================================================
