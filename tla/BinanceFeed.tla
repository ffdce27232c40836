----------------------------- MODULE BinanceFeed -----------------------------
(***************************************************************************)
(* How the Binance adapter keeps its books in step with the exchange       *)
(* (src/src/binance_adapter.cpp): a WebSocket thread that applies numbered  *)
(* updates, a resync worker and the thread running start(), which both     *)
(* fetch REST snapshots and replay buffered updates over them.             *)
(*                                                                         *)
(* A book is reduced to whether it has a snapshot, its last update id and  *)
(* (history) the set of exchange events its contents reflect.  Levels and  *)
(* deltas are the business of OrderBook.                                   *)
(***************************************************************************)
EXTENDS Integers, Sequences, SequencesExt

CONSTANTS
    SubscribedSymbols,      \* sequence of symbols, in the order of the config
    MaxSnapshotRetries,     \* attempts per symbol
    BufferCap,              \* kMaxBufferedMsgsPerSymbol
    MaxBatch,               \* exchange events merged into one update
    RestLag,                \* how far behind the exchange a snapshot may be
    MaxId,                  \* bounds of the instance: exchange events,
    MaxLosses,              \*   messages that never arrive,
    MaxMalformed,           \*   messages that cannot be parsed,
    MaxReconnects,          \*   reconnects by the watchdog,
    MaxHttpErrors,          \*   failed snapshot requests,
    MaxStarts               \*   calls of start()

ASSUME FeedAssumption ==
    /\ SubscribedSymbols \in Seq(ToSet(SubscribedSymbols))
    /\ MaxSnapshotRetries \in Nat \ {0}
    /\ {BufferCap, MaxBatch, RestLag, MaxId} \subseteq Nat
    /\ {MaxLosses, MaxMalformed, MaxReconnects, MaxHttpErrors, MaxStarts} \subseteq Nat

Symbols == ToSet(SubscribedSymbols)

Worker   == "worker"        \* runResyncWorker
Starter  == "starter"       \* the thread inside start()
Fetchers == {Worker, Starter}

NoSymbol == "no symbol"
NoOne    == "no one"
\* The Open event of a new connection, in the place of an update.
Open     == [sym |-> NoSymbol, first |-> 0, last |-> 0, ok |-> TRUE]

VARIABLES
    exLast,             \* exchange: id of the last event of each symbol
    connected,          \* exchange: the stream is being sent
    stream,             \* what the WebSocket thread has yet to receive
    wsConnected,        \* set by the first Open event since start()
    book,               \* [applied, last, content] of each symbol
    liveReady,          \* Metrics::liveReady
    symbolBuffers,      \* updates held back until the snapshot
    bufferMutex,        \* which fetcher is inside its critical section
    resyncQueue,
    ws,                 \* WebSocket thread: [pc, sym, first, last, ok]
    thread,             \* fetchers: [pc, sym, attempt, snap, pos]
    toFetch,            \* symbols start() has yet to fetch
    allOk,              \* start(): no symbol failed so far
    stopRequested,      \* the stop token of the resync worker
    gaveUp,             \* history: the worker used up its attempts for the symbol,
                        \*   and nobody has asked for it since
    used                \* counters behind the bounds of the instance

exchangeVars == <<exLast, connected, stream>>
bookVars     == <<book, liveReady, symbolBuffers>>
startVars    == <<toFetch, allOk, stopRequested, wsConnected>>
vars == <<exLast, connected, stream, wsConnected, book, liveReady, symbolBuffers,
          bufferMutex, resyncQueue, ws, thread, toFetch, allOk, stopRequested, gaveUp, used>>

-----------------------------------------------------------------------------
(* Books.                                                                  *)

ClearedBook == [applied |-> FALSE, last |-> 0, content |-> {}]

\* applySnapshot: the exchange's book as it was after event id.
SnapshotBook(id) == [applied |-> TRUE, last |-> id, content |-> 1 .. id]

Stale(b, u) == u.last <= b.last
\* Mutant: lets one event go missing.
GapOfTwo(b, u) == u.last > b.last /\ u.first > b.last + 2

Gap(b, u)   == u.last > b.last /\ u.first > b.last + 1

\* applyUpdate, when it finds no gap.  It does not ask for a snapshot.
Updated(b, u) ==
    IF Stale(b, u) THEN b
    ELSE [b EXCEPT !.last = u.last, !.content = @ \cup (u.first .. u.last)]

-----------------------------------------------------------------------------
(* Threads.                                                                *)

IdleWs      == [pc |-> "idle", sym |-> NoSymbol, first |-> 0, last |-> 0, ok |-> TRUE]
Parked(pc)  == [pc |-> pc, sym |-> NoSymbol, attempt |-> 0, snap |-> 0, pos |-> 0]
Fetching(s) == [pc |-> "request", sym |-> s, attempt |-> 1, snap |-> 0, pos |-> 0]

WsGoto(pc)   == ws' = [ws EXCEPT !.pc = pc]
Goto(f, pc)  == thread' = [thread EXCEPT ![f].pc = pc]

\* Threads blocked in some wait on resyncCv.
TimedWaits == {"rateWait", "retryWait", "pause"}
Waiters    == {f \in Fetchers : thread[f].pc \in TimedWaits \cup {"asleep"}}

\* start() has returned true, and the watchdog is running.
Running == thread[Starter].pc = "running"

Init ==
    /\ exLast = [s \in Symbols |-> 1]
    /\ connected = FALSE
    /\ stream = << >>
    /\ wsConnected = FALSE
    /\ book = [s \in Symbols |-> ClearedBook]
    /\ liveReady = [s \in Symbols |-> FALSE]
    /\ symbolBuffers = [s \in Symbols |-> << >>]
    /\ bufferMutex = NoOne
    /\ resyncQueue = << >>
    /\ ws = IdleWs
    /\ thread = [f \in Fetchers |-> Parked("off")]
    /\ toFetch = << >>
    /\ allOk = TRUE
    /\ stopRequested = FALSE
    /\ gaveUp = [s \in Symbols |-> FALSE]
    /\ used = [losses |-> 0, malformed |-> 0, reconnects |-> 0, errors |-> 0, starts |-> 0]

\* The state start() leaves behind when every snapshot was fetched at once.
InitRunning ==
    /\ exLast = [s \in Symbols |-> 1]
    /\ connected = TRUE
    /\ stream = << >>
    /\ wsConnected = TRUE
    /\ book = [s \in Symbols |-> SnapshotBook(1)]
    /\ liveReady = [s \in Symbols |-> TRUE]
    /\ symbolBuffers = [s \in Symbols |-> << >>]
    /\ bufferMutex = NoOne
    /\ resyncQueue = << >>
    /\ ws = IdleWs
    /\ thread = [f \in Fetchers |-> Parked(IF f = Worker THEN "asleep" ELSE "running")]
    /\ toFetch = << >>
    /\ allOk = TRUE
    /\ stopRequested = FALSE
    /\ gaveUp = [s \in Symbols |-> FALSE]
    /\ used = [losses |-> 0, malformed |-> 0, reconnects |-> 0, errors |-> 0, starts |-> 1]

-----------------------------------------------------------------------------
(* The exchange and the network.                                           *)

\* The next events of a symbol, as one update; lost when nobody listens.
ExchangeUpdate(s, last) ==
    /\ last \in exLast[s] + 1 .. exLast[s] + MaxBatch
    /\ last <= MaxId
    /\ exLast' = [exLast EXCEPT ![s] = last]
    /\ stream' = IF connected
                 THEN Append(stream, [sym |-> s, first |-> exLast[s] + 1, last |-> last, ok |-> TRUE])
                 ELSE stream
    /\ UNCHANGED <<connected, bookVars, bufferMutex, resyncQueue, ws, thread, startVars,
                   gaveUp, used>>

\* The exchange skips a message.
MessageSkipped ==
    /\ used.losses < MaxLosses
    /\ stream # << >> /\ Head(stream) # Open
    /\ stream' = Tail(stream)
    /\ used' = [used EXCEPT !.losses = @ + 1]
    /\ UNCHANGED <<exLast, connected, bookVars, bufferMutex, resyncQueue, ws, thread,
                   startVars, gaveUp>>

\* The exchange sends a message that makes the parser throw.  A level array that is
\* too short does not: the fast path skips that level and applies the others, which is
\* below the grain of this module.
MessageMalformed ==
    /\ used.malformed < MaxMalformed
    /\ stream # << >> /\ Head(stream) # Open
    /\ stream' = [stream EXCEPT ![1].ok = FALSE]
    /\ used' = [used EXCEPT !.malformed = @ + 1]
    /\ UNCHANGED <<exLast, connected, bookVars, bufferMutex, resyncQueue, ws, thread,
                   startVars, gaveUp>>

\* The connection dies, with what is in flight.  Reconnecting is left to the
\* watchdog, which only runs once start() has returned true: it stops the
\* WebSocket thread and starts it again.
ConnectionLost ==
    /\ connected
    /\ used.reconnects < MaxReconnects
    /\ connected' = FALSE
    /\ stream' = << >>
    /\ UNCHANGED <<exLast, bookVars, bufferMutex, resyncQueue, ws, thread, startVars,
                   gaveUp, used>>

WatchdogReconnects ==
    /\ Running
    /\ used.reconnects < MaxReconnects
    /\ ws = IdleWs
    /\ connected' = TRUE
    /\ stream' = <<Open>>
    /\ used' = [used EXCEPT !.reconnects = @ + 1]
    /\ UNCHANGED <<exLast, bookVars, bufferMutex, resyncQueue, ws, thread, startVars, gaveUp>>

-----------------------------------------------------------------------------
(* The WebSocket thread: handleWsMessage, one event at a time.             *)

wsFrame    == <<exLast, connected, thread, startVars, gaveUp, used>>
queueFrame == <<exLast, connected, thread, startVars, used>>

FirstOpen ==
    /\ ws.pc = "idle" /\ stream # << >> /\ Head(stream) = Open
    /\ ~wsConnected
    /\ wsConnected' = TRUE
    /\ stream' = Tail(stream)
    /\ UNCHANGED <<exLast, connected, bookVars, bufferMutex, resyncQueue, ws, thread,
                   toFetch, allOk, stopRequested, gaveUp, used>>

Reopen ==
    /\ ws.pc = "idle" /\ stream # << >> /\ Head(stream) = Open
    /\ wsConnected
    /\ stream' = Tail(stream)
    /\ WsGoto("reopenClear")
    /\ UNCHANGED <<bookVars, bufferMutex, resyncQueue, wsFrame>>

\* Stale buffers and books go under bufferMutex ...
ReopenClear ==
    /\ ws.pc = "reopenClear"
    /\ bufferMutex = NoOne
    /\ symbolBuffers' = [s \in Symbols |-> << >>]
    /\ book' = [s \in Symbols |-> ClearedBook]
    /\ WsGoto("reopenUnlive")
    /\ UNCHANGED <<stream, liveReady, bufferMutex, resyncQueue, wsFrame>>

\* ... the metrics after it has been released ...
ReopenUnlive ==
    /\ ws.pc = "reopenUnlive"
    /\ liveReady' = [s \in Symbols |-> FALSE]
    /\ WsGoto("reopenQueue")
    /\ UNCHANGED <<stream, book, symbolBuffers, bufferMutex, resyncQueue, wsFrame>>

\* Mutant: not those that were given up.
ReopenQueuesTheLiving ==
    /\ ws.pc = "reopenQueue"
    /\ resyncQueue' = resyncQueue \o SelectSeq(SubscribedSymbols, LAMBDA s : ~gaveUp[s])
    /\ gaveUp' = [s \in Symbols |-> FALSE]
    /\ WsGoto("notify")
    /\ UNCHANGED <<stream, bookVars, bufferMutex, queueFrame>>

\* ... and every symbol is queued, queued or being fetched already, given up or not.
ReopenQueue ==
    /\ ws.pc = "reopenQueue"
    /\ resyncQueue' = resyncQueue \o SubscribedSymbols
    /\ gaveUp' = [s \in Symbols |-> FALSE]
    /\ WsGoto("notify")
    /\ UNCHANGED <<stream, bookVars, bufferMutex, queueFrame>>

\* A data message: liveReady decides between the lock-free and the slow path.
Receive ==
    /\ ws.pc = "idle" /\ stream # << >> /\ Head(stream) # Open
    /\ stream' = Tail(stream)
    /\ LET m == Head(stream)
       IN  ws' = [pc |-> IF liveReady[m.sym] THEN "apply" ELSE "slow",
                  sym |-> m.sym, first |-> m.first, last |-> m.last, ok |-> m.ok]
    /\ UNCHANGED <<bookVars, bufferMutex, resyncQueue, wsFrame>>

Message == [sym |-> ws.sym, first |-> ws.first, last |-> ws.last, ok |-> ws.ok]

\* Mutant: one message too many.
BufferedPastCap(buffer, m) == IF Len(buffer) <= BufferCap THEN Append(buffer, m) ELSE buffer

Buffered(buffer, m) == IF Len(buffer) < BufferCap THEN Append(buffer, m) ELSE buffer

\* No snapshot yet: hold the message back, or drop it when the buffer is full.
BufferMessage ==
    /\ ws.pc = "slow"
    /\ bufferMutex = NoOne
    /\ ~book[ws.sym].applied
    /\ symbolBuffers' = [symbolBuffers EXCEPT ![ws.sym] = Buffered(@, Message)]
    /\ ws' = IdleWs
    /\ UNCHANGED <<stream, book, liveReady, bufferMutex, resyncQueue, wsFrame>>

\* Mutant: does not wait for the mutex.
GoLiveUnlocked ==
    /\ ws.pc = "slow"
    /\ book[ws.sym].applied
    /\ liveReady' = [liveReady EXCEPT ![ws.sym] = TRUE]
    /\ WsGoto("apply")
    /\ UNCHANGED <<stream, book, symbolBuffers, bufferMutex, resyncQueue, wsFrame>>

GoLive ==
    /\ ws.pc = "slow"
    /\ bufferMutex = NoOne
    /\ book[ws.sym].applied
    /\ liveReady' = [liveReady EXCEPT ![ws.sym] = TRUE]
    /\ WsGoto("apply")
    /\ UNCHANGED <<stream, book, symbolBuffers, bufferMutex, resyncQueue, wsFrame>>

\* Parsing throws before the book is touched; handleWsMessage catches the exception and forgets the message.
DropMalformed ==
    /\ ws.pc = "apply" /\ ~ws.ok
    /\ ws' = IdleWs
    /\ UNCHANGED <<stream, bookVars, bufferMutex, resyncQueue, wsFrame>>

\* Without bufferMutex.
ApplyLive ==
    /\ ws.pc = "apply" /\ ws.ok
    /\ ~Gap(book[ws.sym], ws)
    /\ book' = [book EXCEPT ![ws.sym] = Updated(@, ws)]
    /\ ws' = IdleWs
    /\ UNCHANGED <<stream, liveReady, symbolBuffers, bufferMutex, resyncQueue, wsFrame>>

\* The gap path: book, liveReady and buffer are reset one after the other.
GapFound ==
    /\ ws.pc = "apply" /\ ws.ok
    /\ Gap(book[ws.sym], ws)
    /\ WsGoto("gapClear")
    /\ UNCHANGED <<stream, bookVars, bufferMutex, resyncQueue, wsFrame>>

GapClear ==
    /\ ws.pc = "gapClear"
    /\ book' = [book EXCEPT ![ws.sym] = ClearedBook]
    /\ WsGoto("gapUnlive")
    /\ UNCHANGED <<stream, liveReady, symbolBuffers, bufferMutex, resyncQueue, wsFrame>>

GapUnlive ==
    /\ ws.pc = "gapUnlive"
    /\ liveReady' = [liveReady EXCEPT ![ws.sym] = FALSE]
    /\ WsGoto("gapBuffer")
    /\ UNCHANGED <<stream, book, symbolBuffers, bufferMutex, resyncQueue, wsFrame>>

GapBuffer ==
    /\ ws.pc = "gapBuffer"
    /\ bufferMutex = NoOne
    /\ symbolBuffers' = [symbolBuffers EXCEPT ![ws.sym] = << >>]
    /\ WsGoto("gapQueue")
    /\ UNCHANGED <<stream, book, liveReady, bufferMutex, resyncQueue, wsFrame>>

\* Mutant: forgets to queue the symbol.
GapQueuesNothing ==
    /\ ws.pc = "gapQueue"
    /\ gaveUp' = [gaveUp EXCEPT ![ws.sym] = FALSE]
    /\ WsGoto("notify")
    /\ UNCHANGED <<stream, bookVars, bufferMutex, resyncQueue, queueFrame>>

GapQueue ==
    /\ ws.pc = "gapQueue"
    /\ resyncQueue' = Append(resyncQueue, ws.sym)
    /\ gaveUp' = [gaveUp EXCEPT ![ws.sym] = FALSE]
    /\ WsGoto("notify")
    /\ UNCHANGED <<stream, bookVars, bufferMutex, queueFrame>>

\* notify_one wakes one of the threads waiting on resyncCv, whichever.  Only the
\* worker's untimed wait has a predicate that can be true; the timed waits have
\* the predicate "false" and go back to sleep.
Notify ==
    /\ ws.pc = "notify"
    /\ ws' = IdleWs
    /\ \/ Waiters = {} /\ thread' = thread
       \/ \E f \in Waiters :
             thread' = IF thread[f].pc = "asleep"
                       THEN [thread EXCEPT ![f].pc = "check"] ELSE thread
    /\ UNCHANGED <<exchangeVars, bookVars, bufferMutex, resyncQueue, startVars, gaveUp, used>>

WsStep ==
    \/ FirstOpen \/ Reopen \/ ReopenClear \/ ReopenUnlive \/ ReopenQueue
    \/ Receive \/ BufferMessage \/ GoLive \/ DropMalformed \/ ApplyLive
    \/ GapFound \/ GapClear \/ GapUnlive \/ GapBuffer \/ GapQueue \/ Notify

-----------------------------------------------------------------------------
(* fetchAndApplySnapshot, by either fetcher.                               *)

fetchFrame == <<exchangeVars, resyncQueue, ws, startVars>>

\* The REST server answers with the book as of one of the last RestLag events.
FetchReply(f) ==
    /\ thread[f].pc = "request"
    /\ \E id \in 1 .. exLast[thread[f].sym] :
          /\ id >= exLast[thread[f].sym] - RestLag
          /\ thread' = [thread EXCEPT ![f].pc = "lock", ![f].snap = id]
    /\ UNCHANGED <<bookVars, bufferMutex, gaveUp, used, fetchFrame>>

\* Any other status: the two rate-limit ones wait before they fail.
FetchFails(f) ==
    /\ thread[f].pc = "request"
    /\ used.errors < MaxHttpErrors
    /\ used' = [used EXCEPT !.errors = @ + 1]
    /\ Goto(f, "failed") \/ Goto(f, "rateWait")
    /\ UNCHANGED <<bookVars, bufferMutex, gaveUp, fetchFrame>>

RateWaitEnds(f) ==
    /\ thread[f].pc = "rateWait"
    /\ Goto(f, "failed")
    /\ UNCHANGED <<bookVars, bufferMutex, gaveUp, used, fetchFrame>>

ApplySnapshot(f) ==
    /\ thread[f].pc = "lock"
    /\ bufferMutex = NoOne
    /\ bufferMutex' = f
    /\ book' = [book EXCEPT ![thread[f].sym] = SnapshotBook(thread[f].snap)]
    /\ thread' = [thread EXCEPT ![f].pc = "replay", ![f].pos = 1]
    /\ gaveUp' = [gaveUp EXCEPT ![thread[f].sym] = FALSE]
    /\ UNCHANGED <<liveReady, symbolBuffers, used, fetchFrame>>

Replaying(f) ==
    /\ thread[f].pc = "replay"
    /\ thread[f].pos \in DOMAIN symbolBuffers[thread[f].sym]

NextBuffered(f) == symbolBuffers[thread[f].sym][thread[f].pos]

ReplayOne(f) ==
    /\ Replaying(f) /\ NextBuffered(f).ok
    /\ ~Gap(book[thread[f].sym], NextBuffered(f))
    /\ book' = [book EXCEPT ![thread[f].sym] = Updated(@, NextBuffered(f))]
    /\ thread' = [thread EXCEPT ![f].pos = @ + 1]
    /\ UNCHANGED <<liveReady, symbolBuffers, bufferMutex, gaveUp, used, fetchFrame>>

\* A gap ends the attempt, but the snapshot stays in the book.
ReplayGap(f) ==
    /\ Replaying(f) /\ NextBuffered(f).ok
    /\ Gap(book[thread[f].sym], NextBuffered(f))
    /\ symbolBuffers' = [symbolBuffers EXCEPT ![thread[f].sym] = << >>]
    /\ bufferMutex' = NoOne
    /\ Goto(f, "failed")
    /\ UNCHANGED <<book, liveReady, gaveUp, used, fetchFrame>>

\* So does a buffered message that cannot be parsed; the buffer stays as well.
ReplayThrows(f) ==
    /\ Replaying(f) /\ ~NextBuffered(f).ok
    /\ bufferMutex' = NoOne
    /\ Goto(f, "failed")
    /\ UNCHANGED <<bookVars, gaveUp, used, fetchFrame>>

\* Mutant: keeps what it has replayed.
ReplayEndsKeepingBuffer(f) ==
    /\ thread[f].pc = "replay" /\ ~Replaying(f)
    /\ liveReady' = [liveReady EXCEPT ![thread[f].sym] = TRUE]
    /\ bufferMutex' = NoOne
    /\ Goto(f, "fetched")
    /\ UNCHANGED <<book, symbolBuffers, gaveUp, used, fetchFrame>>

ReplayEnds(f) ==
    /\ thread[f].pc = "replay" /\ ~Replaying(f)
    /\ symbolBuffers' = [symbolBuffers EXCEPT ![thread[f].sym] = << >>]
    /\ liveReady' = [liveReady EXCEPT ![thread[f].sym] = TRUE]
    /\ bufferMutex' = NoOne
    /\ Goto(f, "fetched")
    /\ UNCHANGED <<book, gaveUp, used, fetchFrame>>

\* The next attempt, after a delay.
RetryLater(f) ==
    /\ thread[f].pc = "failed"
    /\ f = Worker => ~stopRequested
    /\ thread[f].attempt < MaxSnapshotRetries
    /\ Goto(f, "retryWait")
    /\ UNCHANGED <<bookVars, bufferMutex, gaveUp, used, fetchFrame>>

Retry(f) ==
    /\ thread[f].pc = "retryWait"
    /\ f = Worker => ~stopRequested
    /\ thread' = [thread EXCEPT ![f] = [Fetching(@.sym) EXCEPT !.attempt = thread[f].attempt + 1]]
    /\ UNCHANGED <<bookVars, bufferMutex, gaveUp, used, fetchFrame>>

FetchStep(f) ==
    \/ FetchReply(f) \/ FetchFails(f) \/ RateWaitEnds(f)
    \/ ApplySnapshot(f) \/ ReplayOne(f) \/ ReplayGap(f) \/ ReplayThrows(f) \/ ReplayEnds(f)
    \/ RetryLater(f) \/ Retry(f)

-----------------------------------------------------------------------------
(* The rest of runResyncWorker.                                            *)

workerFrame == <<exchangeVars, bookVars, bufferMutex, ws, startVars, used>>

\* The wait has a stop token, but its predicate decides: with work in the queue
\* the worker takes it even after a stop request.
WorkerTakes ==
    /\ \/ thread[Worker].pc = "check"
       \/ thread[Worker].pc = "asleep" /\ stopRequested
    /\ resyncQueue # << >>
    /\ thread' = [thread EXCEPT ![Worker] = Fetching(Head(resyncQueue))]
    /\ resyncQueue' = Tail(resyncQueue)
    /\ UNCHANGED <<gaveUp, workerFrame>>

WorkerSleeps ==
    /\ thread[Worker].pc = "check"
    /\ resyncQueue = << >> /\ ~stopRequested
    /\ Goto(Worker, "asleep")
    /\ UNCHANGED <<resyncQueue, gaveUp, workerFrame>>

WorkerFetched ==
    /\ thread[Worker].pc = "fetched"
    /\ thread' = [thread EXCEPT ![Worker] = Parked("pause")]
    /\ UNCHANGED <<resyncQueue, gaveUp, workerFrame>>

\* Out of attempts.  The symbol is dead, as the code logs, if no earlier attempt left
\* a snapshot behind and it is not queued again: until the next reconnect.
WorkerGivesUp ==
    /\ thread[Worker].pc = "failed" /\ ~stopRequested
    /\ thread[Worker].attempt = MaxSnapshotRetries
    /\ LET s == thread[Worker].sym
       IN  gaveUp' = [gaveUp EXCEPT ![s] = ~book[s].applied /\ s \notin ToSet(resyncQueue)]
    /\ thread' = [thread EXCEPT ![Worker] = Parked("pause")]
    /\ UNCHANGED <<resyncQueue, workerFrame>>

WorkerResumes ==
    /\ thread[Worker].pc = "pause" /\ ~stopRequested
    /\ Goto(Worker, "check")
    /\ UNCHANGED <<resyncQueue, gaveUp, workerFrame>>

\* Mutant: the stop request does not wake the worker.
WorkerExitsAwake ==
    /\ stopRequested
    /\ \/ thread[Worker].pc \in {"failed", "retryWait", "pause"}
       \/ thread[Worker].pc = "check" /\ resyncQueue = << >>
    /\ thread' = [thread EXCEPT ![Worker] = Parked("off")]
    /\ UNCHANGED <<resyncQueue, gaveUp, workerFrame>>

WorkerExits ==
    /\ stopRequested
    /\ \/ thread[Worker].pc \in {"failed", "retryWait", "pause"}
       \/ thread[Worker].pc \in {"check", "asleep"} /\ resyncQueue = << >>
    /\ thread' = [thread EXCEPT ![Worker] = Parked("off")]
    /\ UNCHANGED <<resyncQueue, gaveUp, workerFrame>>

WorkerStep ==
    \/ FetchStep(Worker)
    \/ WorkerTakes \/ WorkerSleeps \/ WorkerFetched
    \/ WorkerGivesUp \/ WorkerResumes \/ WorkerExits

-----------------------------------------------------------------------------
(* start() and the stop() it calls when a snapshot could not be had.  The   *)
(* resync queue outlives both.                                             *)

StartBegins ==
    /\ thread[Starter].pc = "off"
    /\ used.starts < MaxStarts
    /\ used' = [used EXCEPT !.starts = @ + 1]
    /\ book' = [s \in Symbols |-> ClearedBook]
    /\ liveReady' = [s \in Symbols |-> FALSE]
    /\ symbolBuffers' = [s \in Symbols |-> << >>]
    /\ wsConnected' = FALSE
    /\ gaveUp' = [s \in Symbols |-> FALSE]
    /\ \/ connected' = TRUE /\ stream' = <<Open>>
       \/ connected' = FALSE /\ stream' = << >>
    /\ Goto(Starter, "connecting")
    /\ UNCHANGED <<exLast, bufferMutex, resyncQueue, ws, toFetch, allOk, stopRequested>>

ConnectTimesOut ==
    /\ thread[Starter].pc = "connecting"
    /\ ~wsConnected /\ ws = IdleWs
    /\ connected' = FALSE /\ stream' = << >>
    /\ Goto(Starter, "off")
    /\ UNCHANGED <<exLast, bookVars, bufferMutex, resyncQueue, ws, startVars, gaveUp, used>>

StartConnected ==
    /\ thread[Starter].pc = "connecting"
    /\ wsConnected
    /\ thread' = [f \in Fetchers |-> Parked(IF f = Worker THEN "check" ELSE "next")]
    /\ toFetch' = SubscribedSymbols
    /\ allOk' = TRUE
    /\ stopRequested' = FALSE
    /\ UNCHANGED <<exchangeVars, bookVars, bufferMutex, resyncQueue, ws, wsConnected, gaveUp,
                   used>>

starterFrame == <<exchangeVars, bookVars, bufferMutex, resyncQueue, ws, wsConnected, gaveUp, used>>

StarterFetches ==
    /\ thread[Starter].pc = "next"
    /\ toFetch # << >>
    /\ thread' = [thread EXCEPT ![Starter] = Fetching(Head(toFetch))]
    /\ toFetch' = Tail(toFetch)
    /\ UNCHANGED <<allOk, stopRequested, starterFrame>>

StarterFetched ==
    /\ thread[Starter].pc = "fetched"
    /\ thread' = [thread EXCEPT ![Starter] = Parked("next")]
    /\ UNCHANGED <<toFetch, allOk, stopRequested, starterFrame>>

StarterGivesUp ==
    /\ thread[Starter].pc = "failed"
    /\ thread[Starter].attempt = MaxSnapshotRetries
    /\ allOk' = FALSE
    /\ thread' = [thread EXCEPT ![Starter] = Parked("next")]
    /\ UNCHANGED <<toFetch, stopRequested, starterFrame>>

StartReturns ==
    /\ thread[Starter].pc = "next"
    /\ toFetch = << >>
    /\ Goto(Starter, IF allOk THEN "running" ELSE "stopping")
    /\ stopRequested' = ~allOk
    /\ UNCHANGED <<toFetch, allOk, starterFrame>>

\* stop() has joined the worker; it stops the WebSocket thread last.
StopEnds ==
    /\ thread[Starter].pc = "stopping"
    /\ thread[Worker].pc = "off" /\ ws = IdleWs
    /\ connected' = FALSE /\ stream' = << >>
    /\ Goto(Starter, "off")
    /\ UNCHANGED <<exLast, bookVars, bufferMutex, resyncQueue, ws, startVars, gaveUp, used>>

StarterStep ==
    \/ FetchStep(Starter)
    \/ StartBegins \/ ConnectTimesOut \/ StartConnected \/ StarterFetches
    \/ StarterFetched \/ StarterGivesUp \/ StartReturns \/ StopEnds

-----------------------------------------------------------------------------
Environment ==
    \/ \E s \in Symbols, last \in 2 .. MaxId : ExchangeUpdate(s, last)
    \/ MessageSkipped \/ MessageMalformed \/ ConnectionLost \/ WatchdogReconnects

Next == Environment \/ WsStep \/ WorkerStep \/ StarterStep

Spec == Init /\ [][Next]_vars

\* Every thread of the adapter keeps running, and its timed waits end; nothing
\* is assumed of the exchange, of the network or of who a notify wakes.
Fairness ==
    /\ WF_vars(WsStep)
    /\ WF_vars(WorkerStep)
    /\ WF_vars(StarterStep)

FairSpec == Spec /\ Fairness

\* From the moment start() has returned.
RunningSpec == InitRunning /\ [][Next]_vars /\ Fairness

-----------------------------------------------------------------------------
Ids == 1 .. MaxId \cup {1}

BookType   == [applied : BOOLEAN, last : Ids \cup {0}, content : SUBSET Ids]
UpdateType == [sym : Symbols, first : 2 .. MaxId, last : 2 .. MaxId, ok : BOOLEAN]
WsType     == [pc : {"idle", "reopenClear", "reopenUnlive", "reopenQueue", "slow", "apply",
                     "gapClear", "gapUnlive", "gapBuffer", "gapQueue", "notify"},
               sym : Symbols \cup {NoSymbol}, first : Nat, last : Nat, ok : BOOLEAN]

HoldsMessage == {"slow", "apply", "gapClear", "gapUnlive", "gapBuffer", "gapQueue"}
FetchPcs     == {"request", "rateWait", "lock", "replay", "failed", "retryWait", "fetched"}
ParkedPcs    == {"off", "check", "asleep", "pause", "connecting", "next", "running", "stopping"}
ThreadType   == [pc : FetchPcs \cup ParkedPcs, sym : Symbols \cup {NoSymbol},
                 attempt : 0 .. MaxSnapshotRetries, snap : Ids \cup {0}, pos : Nat]

ExchangeOK ==
    /\ exLast \in [Symbols -> Ids]
    /\ connected \in BOOLEAN
    /\ stream \in Seq(UpdateType \cup {Open})

\* The buffers respect their cap.
BooksOK ==
    /\ book \in [Symbols -> BookType]
    /\ liveReady \in [Symbols -> BOOLEAN]
    /\ gaveUp \in [Symbols -> BOOLEAN]
    /\ symbolBuffers \in [Symbols -> Seq(UpdateType)]
    /\ \A s \in Symbols : Len(symbolBuffers[s]) <= BufferCap

QueuesOK == resyncQueue \in Seq(Symbols) /\ toFetch \in Seq(Symbols)

WsOK == ws \in WsType /\ (ws.pc \in HoldsMessage => Message \in UpdateType)

\* What thread t of fetcher f holds; the one that replays holds the mutex.
ThreadOK(f, t, mutex) ==
    /\ t.pc \in FetchPcs => t.sym \in Symbols /\ t.attempt >= 1
    /\ t.pc = "retryWait" => t.attempt < MaxSnapshotRetries
    /\ t.pc \in {"lock", "replay"} => t.snap \in Ids
    /\ t.pc = "replay" => t.pos >= 1 /\ mutex = f

ThreadsOK ==
    /\ bufferMutex \in Fetchers \cup {NoOne}
    /\ thread \in [Fetchers -> ThreadType]
    /\ \A f \in Fetchers : ThreadOK(f, thread[f], bufferMutex)

FlagsOK == wsConnected \in BOOLEAN /\ allOk \in BOOLEAN /\ stopRequested \in BOOLEAN

TypeOK == ExchangeOK /\ BooksOK /\ QueuesOK /\ WsOK /\ ThreadsOK /\ FlagsOK

BookInSync(b) == IF b.applied THEN b.content = 1 .. b.last ELSE b = ClearedBook

\* A book with a snapshot reflects exactly the exchange events up to its id: no
\* update is missing, whatever the order in which live updates, replayed ones,
\* snapshots and clears of the three threads meet (order_book.cpp:59-75 is the
\* only guard).
InSync == \A s \in Symbols : BookInSync(book[s])

\* A fetcher works on the symbol and has yet to fill its book.
BeingFetched(s) ==
    \E f \in Fetchers : thread[f].sym = s /\ thread[f].pc \in FetchPcs \ {"replay", "fetched"}

\* The WebSocket thread has cleared the book and is about to queue the symbol.
BeingQueued(s) ==
    \/ ws.pc \in {"gapUnlive", "gapBuffer", "gapQueue"} /\ ws.sym = s
    \/ ws.pc \in {"reopenUnlive", "reopenQueue"}

Tended(s) ==
    \/ book[s].applied \/ gaveUp[s]
    \/ s \in ToSet(resyncQueue) \/ BeingFetched(s) \/ BeingQueued(s)

\* After start(), a symbol without a book is never forgotten: somebody is fetching it,
\* it is queued or about to be, or the worker has used up its attempts since it was
\* last asked for.  A gap or a reconnect asks again: "dead until restart"
\* (binance_adapter.cpp:422) lasts until then at most.
NeverOrphaned == Running => \A s \in Symbols : Tended(s)

\* A live update is never applied in the middle of a replay of older ones, as
\* binance_adapter.cpp:112-114 says.  It may be: see NoLiveUpdateDuringCleanReplay.
NoLiveUpdateDuringReplay ==
    [][ApplyLive /\ book' # book =>
          ~\E f \in Fetchers : Replaying(f) /\ thread[f].sym = ws.sym]_vars

\* A message that cannot be parsed has ended a replay, or is going to.
Poisoned(s) == \E i \in DOMAIN symbolBuffers[s] : ~symbolBuffers[s][i].ok

\* What holds instead: although the fast path takes no lock, a live update changes the
\* book in the middle of a replay only if a message that cannot be parsed is among
\* those held back.  It leaves the snapshot applied and the others in the buffer; the
\* next message goes live, and the retry replays them beside it.
NoLiveUpdateDuringCleanReplay ==
    [][ApplyLive /\ book' # book =>
          ~\E f \in Fetchers :
              Replaying(f) /\ thread[f].sym = ws.sym /\ ~Poisoned(ws.sym)]_vars

\* Held-back updates wait for a snapshot only: once the book has one and nobody holds
\* the mutex, none is left (binance_adapter.cpp:253-254), unless one of them cannot be
\* parsed.
NothingHeldBack ==
    \A s \in Symbols : book[s].applied /\ bufferMutex = NoOne =>
        symbolBuffers[s] = << >> \/ Poisoned(s)

\* A symbol whose book is lost after start(), or during it, gets one again unless
\* the worker runs out of attempts, after every reconnect anew: then those it had
\* given up get a book as well, or use up their attempts once more.
BookComesBack ==
    \A s \in Symbols : Running /\ ~book[s].applied ~> book[s].applied \/ gaveUp[s]

\* start() always comes to an end.  When it fails it stops the worker, which may be
\* asleep, between two attempts or, because its wait prefers work to the stop
\* request, about to take another symbol (binance_adapter.cpp:42-55, 393-398).
StartEnds ==
    thread[Starter].pc \notin {"off", "running"} ~> thread[Starter].pc \in {"off", "running"}

-----------------------------------------------------------------------------
\* A book that misses an update is no copy of anything.
Corrupt == -1
Copy(b) ==
    IF ~b.applied THEN 0 ELSE IF b.content = 1 .. b.last THEN b.last ELSE Corrupt

Promise == INSTANCE FeedPromise
    WITH exchange <- exLast, copy <- [s \in Symbols |-> Copy(book[s])], MayGoBack <- TRUE

\* The three threads together only ever lose a book, advance it by messages or put
\* a snapshot in its place, one book at a time.  A second fetch of the same symbol
\* may put it back to an earlier event, but never to one it does not follow
\* completely (binance_adapter.cpp:107-165, 239-275).
KeepsPromise == Promise!Spec
=============================================================================
