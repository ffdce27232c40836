------------------------- MODULE BinanceFeed_proofs -------------------------
EXTENDS BinanceFeed, SequenceTheorems, TLAPS

\* What the assumption on the constants gives, one fact at a time.
LEMMA ConstantsType ==
    /\ SubscribedSymbols \in Seq(Symbols)
    /\ MaxSnapshotRetries \in Nat /\ MaxSnapshotRetries >= 1
    /\ BufferCap \in Nat /\ MaxBatch \in Nat /\ RestLag \in Nat /\ MaxId \in Nat
BY FeedAssumption DEF FeedAssumption, Symbols

\* Head and tail of a non-empty sequence.
LEMMA TailType ==
    ASSUME NEW S, NEW q \in Seq(S), q # << >>
    PROVE  Head(q) \in S /\ Tail(q) \in Seq(S)
OBVIOUS

\* What the WebSocket thread can receive.
LEMMA StreamType ==
    ASSUME ExchangeOK, stream # << >>
    PROVE  /\ Tail(stream) \in Seq(UpdateType \cup {Open})
           /\ Head(stream) # Open => Head(stream) \in UpdateType
<1>1. Head(stream) \in UpdateType \cup {Open} /\ Tail(stream) \in Seq(UpdateType \cup {Open})
  BY TailType DEF ExchangeOK
<1> QED BY <1>1

\* The part of the type invariant an action leaves alone stays: one lemma for each
\* conjunct of TypeOK.
LEMMA ExchangeFrame ==
    ASSUME ExchangeOK, UNCHANGED exchangeVars PROVE ExchangeOK'
BY DEF ExchangeOK, exchangeVars
\* The same for the books.
LEMMA BooksFrame ==
    ASSUME BooksOK, UNCHANGED <<bookVars, gaveUp>> PROVE BooksOK'
BY DEF BooksOK, bookVars
\* The same for the queues.
LEMMA QueuesFrame ==
    ASSUME QueuesOK, UNCHANGED <<resyncQueue, toFetch>> PROVE QueuesOK'
BY DEF QueuesOK
\* The same for the WebSocket thread.
LEMMA WsFrame ==
    ASSUME WsOK, UNCHANGED ws PROVE WsOK'
BY DEF WsOK, Message
\* The same for the fetchers.
LEMMA ThreadsFrame ==
    ASSUME ThreadsOK, UNCHANGED <<thread, bufferMutex>> PROVE ThreadsOK'
BY DEF ThreadsOK, ThreadOK
\* The same for the flags of start() and stop().
LEMMA FlagsFrame ==
    ASSUME FlagsOK, UNCHANGED <<wsConnected, allOk, stopRequested>> PROVE FlagsOK'
BY DEF FlagsOK

\* Exchange, network and watchdog.
LEMMA EnvironmentKeepsType ==
    ASSUME TypeOK, Environment PROVE TypeOK'
<1> USE DEF TypeOK
<1>1. ASSUME NEW s \in Symbols, NEW last \in 2 .. MaxId, ExchangeUpdate(s, last)
      PROVE  TypeOK'
  <2>1. [sym |-> s, first |-> exLast[s] + 1, last |-> last, ok |-> TRUE] \in UpdateType
    <3>1. exLast[s] \in Nat /\ exLast[s] >= 1 BY <1>1, ConstantsType DEF ExchangeOK, Ids
    <3>2. last >= exLast[s] + 1 BY <1>1, <3>1, ConstantsType DEF ExchangeUpdate
    <3> QED BY <1>1, <3>1, <3>2, ConstantsType DEF UpdateType
  <2>2. ExchangeOK'
    BY <1>1, <2>1, ConstantsType DEF ExchangeUpdate, ExchangeOK, Ids
  <2> QED
    BY <1>1, <2>2, BooksFrame, QueuesFrame, WsFrame, ThreadsFrame, FlagsFrame
    DEF ExchangeUpdate, bookVars, startVars
<1>2. CASE MessageSkipped
  <2>1. ExchangeOK' BY <1>2, StreamType DEF MessageSkipped, ExchangeOK
  <2> QED
    BY <1>2, <2>1, BooksFrame, QueuesFrame, WsFrame, ThreadsFrame, FlagsFrame
    DEF MessageSkipped, bookVars, startVars
<1>3. CASE MessageMalformed
  <2>1. stream[1] \in UpdateType
    BY <1>3, StreamType DEF MessageMalformed, ExchangeOK
  <2>2. [stream[1] EXCEPT !.ok = FALSE] \in UpdateType BY <2>1 DEF UpdateType
  <2>3. stream' \in Seq(UpdateType \cup {Open})
    <3>1. stream' = [stream EXCEPT ![1] = [stream[1] EXCEPT !.ok = FALSE]]
      BY <1>3 DEF MessageMalformed
    <3> QED BY <1>3, <2>2, <3>1, ExceptSeq DEF ExchangeOK, MessageMalformed
  <2>4. ExchangeOK' BY <1>3, <2>3 DEF MessageMalformed, ExchangeOK
  <2> QED
    BY <1>3, <2>4, BooksFrame, QueuesFrame, WsFrame, ThreadsFrame, FlagsFrame
    DEF MessageMalformed, bookVars, startVars
<1>4. CASE ConnectionLost
  <2>1. ExchangeOK' BY <1>4, EmptySeq DEF ConnectionLost, ExchangeOK
  <2> QED
    BY <1>4, <2>1, BooksFrame, QueuesFrame, WsFrame, ThreadsFrame, FlagsFrame
    DEF ConnectionLost, bookVars, startVars
<1>5. CASE WatchdogReconnects
  <2>1. ExchangeOK' BY <1>5 DEF WatchdogReconnects, ExchangeOK
  <2> QED
    BY <1>5, <2>1, BooksFrame, QueuesFrame, WsFrame, ThreadsFrame, FlagsFrame
    DEF WatchdogReconnects, bookVars, startVars
<1> QED BY <1>1, <1>2, <1>3, <1>4, <1>5 DEF Environment

\* While a message is handled, its symbol and its ids are genuine.
LEMMA MessageType ==
    ASSUME WsOK, ws.pc \in HoldsMessage
    PROVE  /\ Message \in UpdateType
           /\ ws.sym \in Symbols /\ ws.first \in 2 .. MaxId /\ ws.last \in 2 .. MaxId
BY DEF WsOK, Message, UpdateType

\* A cleared book is a book.
LEMMA ClearedBookType == ClearedBook \in BookType
BY DEF ClearedBook, BookType

\* An empty buffer is within its cap.
LEMMA ClearedBuffersType ==
    /\ << >> \in Seq(UpdateType)
    /\ Len(<< >>) <= BufferCap
BY ConstantsType, EmptySeq

\* A book that takes an update without a gap stays a book.
LEMMA UpdatedType ==
    ASSUME NEW b \in BookType, NEW u, u.first \in 2 .. MaxId, u.last \in 2 .. MaxId
    PROVE  Updated(b, u) \in BookType
<1>1. u.last \in Ids BY ConstantsType DEF Ids
<1>2. u.first .. u.last \subseteq Ids BY ConstantsType DEF Ids
<1>3. [b EXCEPT !.last = u.last, !.content = @ \cup (u.first .. u.last)] \in BookType
  BY <1>1, <1>2 DEF BookType
<1> QED BY <1>3 DEF Updated

\* The WebSocket thread.
LEMMA WsKeepsType ==
    ASSUME TypeOK, WsStep PROVE TypeOK'
<1> USE DEF TypeOK
<1>1. CASE FirstOpen
  <2>1. ExchangeOK' BY <1>1, StreamType DEF FirstOpen, ExchangeOK
  <2>2. FlagsOK' BY <1>1 DEF FirstOpen, FlagsOK
  <2> QED
    BY <1>1, <2>1, <2>2, BooksFrame, QueuesFrame, WsFrame, ThreadsFrame
    DEF FirstOpen, wsFrame, startVars, exchangeVars, bookVars
<1>2. CASE Reopen
  <2>1. ExchangeOK' BY <1>2, StreamType DEF Reopen, ExchangeOK, wsFrame
  <2>2. WsOK' BY <1>2 DEF Reopen, WsOK, WsGoto, WsType, HoldsMessage, Message
  <2> QED
    BY <1>2, <2>1, <2>2, BooksFrame, QueuesFrame, ThreadsFrame, FlagsFrame
    DEF Reopen, wsFrame, startVars, exchangeVars, bookVars
<1>3. CASE ReopenClear
  <2>1. BooksOK' BY <1>3, ClearedBookType, ClearedBuffersType DEF ReopenClear, BooksOK, wsFrame
  <2>2. WsOK' BY <1>3 DEF ReopenClear, WsOK, WsGoto, WsType, HoldsMessage, Message
  <2> QED
    BY <1>3, <2>1, <2>2, ExchangeFrame, QueuesFrame, ThreadsFrame, FlagsFrame
    DEF ReopenClear, wsFrame, startVars, exchangeVars, bookVars
<1>4. CASE ReopenUnlive
  <2>1. BooksOK' BY <1>4 DEF ReopenUnlive, BooksOK, wsFrame
  <2>2. WsOK' BY <1>4 DEF ReopenUnlive, WsOK, WsGoto, WsType, HoldsMessage, Message
  <2> QED
    BY <1>4, <2>1, <2>2, ExchangeFrame, QueuesFrame, ThreadsFrame, FlagsFrame
    DEF ReopenUnlive, wsFrame, startVars, exchangeVars, bookVars
<1>5. CASE ReopenQueue
  <2>1. QueuesOK' BY <1>5, ConstantsType, ConcatProperties DEF ReopenQueue, QueuesOK,
        queueFrame, startVars
  <2>2. WsOK' BY <1>5 DEF ReopenQueue, WsOK, WsGoto, WsType, HoldsMessage, Message
  <2>3. BooksOK' BY <1>5 DEF ReopenQueue, BooksOK, bookVars
  <2> QED
    BY <1>5, <2>1, <2>2, <2>3, ExchangeFrame, ThreadsFrame, FlagsFrame
    DEF ReopenQueue, wsFrame, queueFrame, startVars, exchangeVars, bookVars
<1>6. CASE Receive
  <2>1. ExchangeOK' BY <1>6, StreamType DEF Receive, ExchangeOK, wsFrame
  <2>2. WsOK' BY <1>6, StreamType, ConstantsType, SMTT(60) DEF Receive, WsOK, WsType, HoldsMessage,
        Message, UpdateType
  <2> QED
    BY <1>6, <2>1, <2>2, BooksFrame, QueuesFrame, ThreadsFrame, FlagsFrame
    DEF Receive, wsFrame, startVars, exchangeVars, bookVars
<1>7. CASE BufferMessage
  <2>1. BooksOK'
    <3>1. Message \in UpdateType /\ ws.sym \in Symbols
      BY <1>7, MessageType DEF BufferMessage, HoldsMessage
    <3>2. symbolBuffers[ws.sym] \in Seq(UpdateType) BY <3>1 DEF BooksOK
    <3>3. /\ Append(symbolBuffers[ws.sym], Message) \in Seq(UpdateType)
          /\ Len(Append(symbolBuffers[ws.sym], Message)) = Len(symbolBuffers[ws.sym]) + 1
      BY <3>1, <3>2, AppendProperties
    <3>4. Len(symbolBuffers[ws.sym]) \in Nat BY <3>2
    <3> QED
      BY <1>7, <3>1, <3>3, <3>4, ConstantsType DEF BufferMessage, Buffered, BooksOK, wsFrame
  <2>2. WsOK' BY <1>7 DEF BufferMessage, WsOK, IdleWs, WsType, HoldsMessage
  <2> QED
    BY <1>7, <2>1, <2>2, ExchangeFrame, QueuesFrame, ThreadsFrame, FlagsFrame
    DEF BufferMessage, wsFrame, startVars, exchangeVars, bookVars
<1>8. CASE GoLive
  <2>1. BooksOK' BY <1>8 DEF GoLive, BooksOK, wsFrame
  <2>2. WsOK' BY <1>8 DEF GoLive, WsOK, WsGoto, WsType, HoldsMessage, Message
  <2> QED
    BY <1>8, <2>1, <2>2, ExchangeFrame, QueuesFrame, ThreadsFrame, FlagsFrame
    DEF GoLive, wsFrame, startVars, exchangeVars, bookVars
<1>9. CASE DropMalformed
  <2>1. WsOK' BY <1>9 DEF DropMalformed, WsOK, IdleWs, WsType, HoldsMessage
  <2> QED
    BY <1>9, <2>1, ExchangeFrame, BooksFrame, QueuesFrame, ThreadsFrame, FlagsFrame
    DEF DropMalformed, wsFrame, startVars, exchangeVars, bookVars
<1>10. CASE ApplyLive
  <2>1. BooksOK'
    <3>1. ws.sym \in Symbols /\ ws.first \in 2 .. MaxId /\ ws.last \in 2 .. MaxId
      BY <1>10, MessageType DEF ApplyLive, HoldsMessage
    <3>2. Updated(book[ws.sym], ws) \in BookType BY <3>1, UpdatedType DEF BooksOK
    <3> QED BY <1>10, <3>1, <3>2 DEF ApplyLive, BooksOK, wsFrame
  <2>2. WsOK' BY <1>10 DEF ApplyLive, WsOK, IdleWs, WsType, HoldsMessage
  <2> QED
    BY <1>10, <2>1, <2>2, ExchangeFrame, QueuesFrame, ThreadsFrame, FlagsFrame
    DEF ApplyLive, wsFrame, startVars, exchangeVars, bookVars
<1>11. CASE GapFound
  <2>1. WsOK' BY <1>11 DEF GapFound, WsOK, WsGoto, WsType, HoldsMessage, Message
  <2> QED
    BY <1>11, <2>1, ExchangeFrame, BooksFrame, QueuesFrame, ThreadsFrame, FlagsFrame
    DEF GapFound, wsFrame, startVars, exchangeVars, bookVars
<1>12. CASE GapClear
  <2>1. BooksOK' BY <1>12, ClearedBookType DEF GapClear, BooksOK, wsFrame
  <2>2. WsOK' BY <1>12 DEF GapClear, WsOK, WsGoto, WsType, HoldsMessage, Message
  <2> QED
    BY <1>12, <2>1, <2>2, ExchangeFrame, QueuesFrame, ThreadsFrame, FlagsFrame
    DEF GapClear, wsFrame, startVars, exchangeVars, bookVars
<1>13. CASE GapUnlive
  <2>1. BooksOK' BY <1>13 DEF GapUnlive, BooksOK, wsFrame
  <2>2. WsOK' BY <1>13 DEF GapUnlive, WsOK, WsGoto, WsType, HoldsMessage, Message
  <2> QED
    BY <1>13, <2>1, <2>2, ExchangeFrame, QueuesFrame, ThreadsFrame, FlagsFrame
    DEF GapUnlive, wsFrame, startVars, exchangeVars, bookVars
<1>14. CASE GapBuffer
  <2>1. BooksOK' BY <1>14, ClearedBuffersType DEF GapBuffer, BooksOK, wsFrame
  <2>2. WsOK' BY <1>14 DEF GapBuffer, WsOK, WsGoto, WsType, HoldsMessage, Message
  <2> QED
    BY <1>14, <2>1, <2>2, ExchangeFrame, QueuesFrame, ThreadsFrame, FlagsFrame
    DEF GapBuffer, wsFrame, startVars, exchangeVars, bookVars
<1>15. CASE GapQueue
  <2>1. QueuesOK' BY <1>15, AppendProperties DEF GapQueue, QueuesOK, WsOK, HoldsMessage, Message,
        UpdateType, wsFrame, queueFrame, startVars
  <2>2. WsOK' BY <1>15 DEF GapQueue, WsOK, WsGoto, WsType, HoldsMessage, Message
  <2>3. BooksOK' BY <1>15 DEF GapQueue, BooksOK, bookVars
  <2> QED
    BY <1>15, <2>1, <2>2, <2>3, ExchangeFrame, ThreadsFrame, FlagsFrame
    DEF GapQueue, wsFrame, queueFrame, startVars, exchangeVars, bookVars
<1>16. CASE Notify
  <2>1. WsOK' BY <1>16 DEF Notify, WsOK, IdleWs, WsType, HoldsMessage
  <2>2. ThreadsOK' BY <1>16 DEF Notify, ThreadsOK, ThreadOK, ThreadType, Waiters, TimedWaits,
        Fetchers, FetchPcs, ParkedPcs
  <2> QED
    BY <1>16, <2>1, <2>2, ExchangeFrame, BooksFrame, QueuesFrame, FlagsFrame
    DEF Notify, wsFrame, startVars, exchangeVars, bookVars
<1> QED
  BY <1>1, <1>2, <1>3, <1>4, <1>5, <1>6, <1>7, <1>8, <1>9, <1>10, <1>11, <1>12, <1>13, <1>14,
        <1>15, <1>16 DEF WsStep

\* A snapshot makes a book.
LEMMA SnapshotType ==
    ASSUME NEW id \in Ids PROVE SnapshotBook(id) \in BookType
<1>1. 1 .. id \subseteq Ids BY ConstantsType DEF Ids
<1> QED BY <1>1 DEF SnapshotBook, BookType

\* What a replay finds in the buffer.
LEMMA BufferedType ==
    ASSUME BooksOK, ThreadsOK, NEW f \in Fetchers, Replaying(f)
    PROVE  /\ thread[f].sym \in Symbols
           /\ NextBuffered(f) \in UpdateType
           /\ NextBuffered(f).first \in 2 .. MaxId
           /\ NextBuffered(f).last \in 2 .. MaxId
<1>1. thread[f].sym \in Symbols BY DEF Replaying, ThreadsOK, ThreadOK, FetchPcs
<1>2. symbolBuffers[thread[f].sym] \in Seq(UpdateType) BY <1>1 DEF BooksOK
<1>3. NextBuffered(f) \in UpdateType BY <1>2, ElementOfSeq, LenProperties DEF Replaying,
      NextBuffered
<1> QED BY <1>1, <1>3 DEF UpdateType

\* One fetcher moves on, and does not take the mutex from a replay of the other.
LEMMA ThreadMoves ==
    ASSUME ThreadsOK, NEW f \in Fetchers, NEW t \in ThreadType,
           thread' = [thread EXCEPT ![f] = t],
           ThreadOK(f, t, bufferMutex'),
           bufferMutex' \in Fetchers \cup {NoOne},
           \/ UNCHANGED bufferMutex
           \/ \A g \in Fetchers \ {f} : thread[g].pc # "replay"
    PROVE  ThreadsOK'
<1>1. thread' \in [Fetchers -> ThreadType] BY DEF ThreadsOK
<1>2. ASSUME NEW g \in Fetchers PROVE ThreadOK(g, thread'[g], bufferMutex')
  <2>1. CASE g = f BY <2>1 DEF ThreadsOK
  <2>2. CASE g # f
    <3>1. thread'[g] = thread[g] BY <2>2 DEF ThreadsOK
    <3> QED BY <2>2, <3>1 DEF ThreadsOK, ThreadOK
  <2> QED BY <2>1, <2>2
<1> QED BY <1>1, <1>2 DEF ThreadsOK

\* A parked thread holds nothing.
LEMMA ParkedType ==
    ASSUME NEW pc \in ParkedPcs
    PROVE  /\ Parked(pc) \in ThreadType /\ Parked(pc).pc = pc
           /\ \A f, mutex : ThreadOK(f, Parked(pc), mutex)
BY ConstantsType DEF Parked, ThreadType, ParkedPcs, FetchPcs, ThreadOK

\* A fetcher lets go of its symbol.
LEMMA ThreadParks ==
    ASSUME ThreadsOK, NEW f \in Fetchers, NEW pc \in ParkedPcs,
           thread' = [thread EXCEPT ![f] = Parked(pc)], UNCHANGED bufferMutex
    PROVE  ThreadsOK'
BY ThreadMoves, ParkedType DEF ThreadsOK

\* A fetcher starts an attempt at a symbol.
LEMMA ThreadFetches ==
    ASSUME ThreadsOK, NEW f \in Fetchers, NEW s \in Symbols,
           NEW n \in 1 .. MaxSnapshotRetries,
           thread' = [thread EXCEPT ![f] = [Fetching(s) EXCEPT !.attempt = n]],
           UNCHANGED bufferMutex
    PROVE  ThreadsOK'
<1> DEFINE t == [Fetching(s) EXCEPT !.attempt = n]
<1>1. t \in ThreadType /\ ThreadOK(f, t, bufferMutex)
  BY ConstantsType DEF Fetching, ThreadType, ThreadOK, FetchPcs
<1> QED BY <1>1, ThreadMoves DEF ThreadsOK

\* Only the holder of the mutex replays.
LEMMA MutexExcludes ==
    ASSUME ThreadsOK, NEW f \in Fetchers, bufferMutex \in {NoOne, f}
    PROVE  \A g \in Fetchers \ {f} : thread[g].pc # "replay"
BY DEF ThreadsOK, ThreadOK, Fetchers, NoOne, Worker, Starter

\* fetchAndApplySnapshot, by either fetcher.
LEMMA FetchKeepsType ==
    ASSUME TypeOK, NEW f \in Fetchers, FetchStep(f) PROVE TypeOK'
<1> USE DEF TypeOK
<1>1. CASE FetchReply(f)
  <2>1. ThreadsOK'
    <3>1. PICK id \in 1 .. exLast[thread[f].sym] :
            thread' = [thread EXCEPT ![f] = [thread[f] EXCEPT !.pc = "lock", !.snap = id]]
      BY <1>1 DEF FetchReply, ThreadsOK
    <3>2. id \in Ids
      <4>1. /\ thread[f].pc = "request"
            /\ ThreadOK(f, thread[f], bufferMutex)
        BY <1>1 DEF FetchReply, ThreadsOK
      <4>2. thread[f].sym \in Symbols BY <4>1 DEF ThreadOK, FetchPcs
      <4>3. exLast[thread[f].sym] \in Ids BY <4>2 DEF ExchangeOK
      <4>4. PICK n \in Ids : n = exLast[thread[f].sym] BY <4>3
      <4>5. id \in 1 .. n BY <4>4
      <4>6. MaxId \in Nat BY ConstantsType
      <4> QED BY <4>5, <4>6 DEF Ids
    <3>3. [thread[f] EXCEPT !.pc = "lock", !.snap = id] \in ThreadType
      BY <3>2 DEF ThreadsOK, ThreadType, FetchPcs
    <3>4. ThreadOK(f, [thread[f] EXCEPT !.pc = "lock", !.snap = id], bufferMutex)
      BY <1>1, <3>2 DEF FetchReply, ThreadsOK, ThreadType, ThreadOK, FetchPcs
    <3> QED BY <1>1, <3>1, <3>3, <3>4, ThreadMoves DEF FetchReply, ThreadsOK
  <2> QED
    BY <1>1, <2>1, ExchangeFrame, BooksFrame, QueuesFrame, WsFrame, FlagsFrame
    DEF FetchReply, fetchFrame, startVars, exchangeVars, bookVars
<1>2. CASE FetchFails(f)
  <2>1. ThreadsOK' BY <1>2 DEF FetchFails, ThreadsOK, ThreadOK, ThreadType, FetchPcs, ParkedPcs,
        Goto
  <2> QED
    BY <1>2, <2>1, ExchangeFrame, BooksFrame, QueuesFrame, WsFrame, FlagsFrame
    DEF FetchFails, fetchFrame, startVars, exchangeVars, bookVars
<1>3. CASE RateWaitEnds(f)
  <2>1. ThreadsOK' BY <1>3 DEF RateWaitEnds, ThreadsOK, ThreadOK, ThreadType, FetchPcs,
        ParkedPcs, Goto
  <2> QED
    BY <1>3, <2>1, ExchangeFrame, BooksFrame, QueuesFrame, WsFrame, FlagsFrame
    DEF RateWaitEnds, fetchFrame, startVars, exchangeVars, bookVars
<1>4. CASE ApplySnapshot(f)
  <2>1. BooksOK' BY <1>4, SnapshotType DEF ApplySnapshot, BooksOK, ThreadsOK, ThreadOK, FetchPcs
  <2>2. ThreadsOK'
    <3> DEFINE t == [thread[f] EXCEPT !.pc = "replay", !.pos = 1]
    <3>1. thread' = [thread EXCEPT ![f] = t] BY <1>4 DEF ApplySnapshot, ThreadsOK
    <3>2. t \in ThreadType BY DEF ThreadsOK, ThreadType, FetchPcs
    <3>3. ThreadOK(f, t, f)
      BY <1>4 DEF ApplySnapshot, ThreadsOK, ThreadType, ThreadOK, FetchPcs
    <3>4. \A g \in Fetchers \ {f} : thread[g].pc # "replay"
      BY <1>4, MutexExcludes DEF ApplySnapshot
    <3> QED BY <1>4, <3>1, <3>2, <3>3, <3>4, ThreadMoves DEF ApplySnapshot
  <2> QED
    BY <1>4, <2>1, <2>2, ExchangeFrame, QueuesFrame, WsFrame, FlagsFrame
    DEF ApplySnapshot, fetchFrame, startVars, exchangeVars, bookVars
<1>5. CASE ReplayOne(f)
  <2>1. BooksOK' BY <1>5, BufferedType, UpdatedType DEF ReplayOne, BooksOK, Replaying
  <2>2. ThreadsOK' BY <1>5 DEF ReplayOne, ThreadsOK, ThreadOK, ThreadType, FetchPcs, ParkedPcs,
        Replaying
  <2> QED
    BY <1>5, <2>1, <2>2, ExchangeFrame, QueuesFrame, WsFrame, FlagsFrame
    DEF ReplayOne, fetchFrame, startVars, exchangeVars, bookVars
<1>6. CASE ReplayGap(f)
  <2>1. BooksOK' BY <1>6, BufferedType, ClearedBuffersType DEF ReplayGap, BooksOK
  <2>2. ThreadsOK' BY <1>6 DEF ReplayGap, ThreadsOK, ThreadOK, ThreadType, FetchPcs, ParkedPcs,
        Replaying, Goto, Fetchers
  <2> QED
    BY <1>6, <2>1, <2>2, ExchangeFrame, QueuesFrame, WsFrame, FlagsFrame
    DEF ReplayGap, fetchFrame, startVars, exchangeVars, bookVars
<1>7. CASE ReplayThrows(f)
  <2>1. ThreadsOK' BY <1>7 DEF ReplayThrows, ThreadsOK, ThreadOK, ThreadType, FetchPcs,
        ParkedPcs, Replaying, Goto, Fetchers
  <2> QED
    BY <1>7, <2>1, ExchangeFrame, BooksFrame, QueuesFrame, WsFrame, FlagsFrame
    DEF ReplayThrows, fetchFrame, startVars, exchangeVars, bookVars
<1>8. CASE ReplayEnds(f)
  <2>1. BooksOK' BY <1>8, ClearedBuffersType DEF ReplayEnds, BooksOK, ThreadsOK, ThreadOK,
        FetchPcs
  <2>2. ThreadsOK' BY <1>8 DEF ReplayEnds, ThreadsOK, ThreadOK, ThreadType, FetchPcs, ParkedPcs,
        Goto, Fetchers
  <2> QED
    BY <1>8, <2>1, <2>2, ExchangeFrame, QueuesFrame, WsFrame, FlagsFrame
    DEF ReplayEnds, fetchFrame, startVars, exchangeVars, bookVars
<1>9. CASE RetryLater(f)
  <2>1. ThreadsOK' BY <1>9, ConstantsType, ZenonT(60) DEF RetryLater, ThreadsOK, ThreadOK, ThreadType,
        FetchPcs, ParkedPcs, Goto
  <2> QED
    BY <1>9, <2>1, ExchangeFrame, BooksFrame, QueuesFrame, WsFrame, FlagsFrame
    DEF RetryLater, fetchFrame, startVars, exchangeVars, bookVars
<1>10. CASE Retry(f)
  <2>1. ThreadsOK'
    <3>1. thread[f].sym \in Symbols /\ thread[f].attempt + 1 \in 1 .. MaxSnapshotRetries
      BY <1>10, ConstantsType DEF Retry, ThreadsOK, ThreadOK, ThreadType, FetchPcs
    <3>2. thread' = [thread EXCEPT ![f] = [Fetching(thread[f].sym) EXCEPT
                                              !.attempt = thread[f].attempt + 1]]
      BY <1>10 DEF Retry, ThreadsOK
    <3> QED BY <1>10, <3>1, <3>2, ThreadFetches DEF Retry
  <2> QED
    BY <1>10, <2>1, ExchangeFrame, BooksFrame, QueuesFrame, WsFrame, FlagsFrame
    DEF Retry, fetchFrame, startVars, exchangeVars, bookVars
<1> QED
  BY <1>1, <1>2, <1>3, <1>4, <1>5, <1>6, <1>7, <1>8, <1>9, <1>10 DEF FetchStep

\* runResyncWorker.
LEMMA WorkerKeepsType ==
    ASSUME TypeOK, WorkerStep PROVE TypeOK'
<1> USE DEF TypeOK
<1>1. CASE FetchStep(Worker) BY <1>1, FetchKeepsType DEF Fetchers
<1>2. CASE WorkerTakes
  <2>1. QueuesOK' BY <1>2, TailType DEF WorkerTakes, QueuesOK, workerFrame, startVars
  <2>2. ThreadsOK' BY <1>2, TailType, ConstantsType DEF WorkerTakes, ThreadsOK, ThreadOK,
        ThreadType, FetchPcs, ParkedPcs, QueuesOK, Fetching, Ids, Fetchers, workerFrame
  <2> QED
    BY <1>2, <2>1, <2>2, ExchangeFrame, BooksFrame, WsFrame, FlagsFrame
    DEF WorkerTakes, workerFrame, startVars, exchangeVars, bookVars
<1>3. CASE WorkerSleeps
  <2>1. ThreadsOK' BY <1>3 DEF WorkerSleeps, ThreadsOK, ThreadOK, ThreadType, FetchPcs,
        ParkedPcs, Goto, Fetchers, workerFrame
  <2> QED
    BY <1>3, <2>1, ExchangeFrame, BooksFrame, QueuesFrame, WsFrame, FlagsFrame
    DEF WorkerSleeps, workerFrame, startVars, exchangeVars, bookVars
<1>4. CASE WorkerFetched
  <2>1. ThreadsOK'
    BY <1>4, ThreadParks DEF WorkerFetched, workerFrame, ParkedPcs, Fetchers
  <2> QED
    BY <1>4, <2>1, ExchangeFrame, BooksFrame, QueuesFrame, WsFrame, FlagsFrame
    DEF WorkerFetched, workerFrame, startVars, exchangeVars, bookVars
<1>5. CASE WorkerGivesUp
  <2>1. BooksOK' BY <1>5 DEF WorkerGivesUp, BooksOK, workerFrame, bookVars
  <2>2. ThreadsOK' BY <1>5 DEF WorkerGivesUp, ThreadsOK, ThreadOK, ThreadType, FetchPcs,
        ParkedPcs, Parked, Fetchers, workerFrame
  <2> QED
    BY <1>5, <2>1, <2>2, ExchangeFrame, QueuesFrame, WsFrame, FlagsFrame
    DEF WorkerGivesUp, workerFrame, startVars, exchangeVars, bookVars
<1>6. CASE WorkerResumes
  <2>1. ThreadsOK' BY <1>6 DEF WorkerResumes, ThreadsOK, ThreadOK, ThreadType, FetchPcs,
        ParkedPcs, Goto, Fetchers, workerFrame
  <2> QED
    BY <1>6, <2>1, ExchangeFrame, BooksFrame, QueuesFrame, WsFrame, FlagsFrame
    DEF WorkerResumes, workerFrame, startVars, exchangeVars, bookVars
<1>7. CASE WorkerExits
  <2>1. ThreadsOK'
    BY <1>7, ThreadParks DEF WorkerExits, workerFrame, ParkedPcs, Fetchers
  <2> QED
    BY <1>7, <2>1, ExchangeFrame, BooksFrame, QueuesFrame, WsFrame, FlagsFrame
    DEF WorkerExits, workerFrame, startVars, exchangeVars, bookVars
<1> QED
  BY <1>1, <1>2, <1>3, <1>4, <1>5, <1>6, <1>7 DEF WorkerStep

\* start() and stop().
LEMMA StarterKeepsType ==
    ASSUME TypeOK, StarterStep PROVE TypeOK'
<1> USE DEF TypeOK
<1>1. CASE FetchStep(Starter) BY <1>1, FetchKeepsType DEF Fetchers
<1>2. CASE StartBegins
  <2>1. ExchangeOK'
    <3>1. stream' \in {<< >>, <<Open>>} /\ connected' \in BOOLEAN BY <1>2 DEF StartBegins
    <3>2. <<Open>> \in Seq(UpdateType \cup {Open}) OBVIOUS
    <3> QED BY <1>2, <3>1, <3>2, EmptySeq DEF StartBegins, ExchangeOK
  <2>2. BooksOK' BY <1>2, ClearedBookType, ClearedBuffersType DEF StartBegins, BooksOK
  <2>3. ThreadsOK' BY <1>2 DEF StartBegins, ThreadsOK, ThreadOK, ThreadType, FetchPcs, ParkedPcs,
        Goto, Fetchers
  <2>4. FlagsOK' BY <1>2 DEF StartBegins, FlagsOK
  <2> QED
    BY <1>2, <2>1, <2>2, <2>3, <2>4, QueuesFrame, WsFrame
    DEF StartBegins, starterFrame, startVars, exchangeVars, bookVars
<1>3. CASE ConnectTimesOut
  <2>1. ExchangeOK' BY <1>3, EmptySeq DEF ConnectTimesOut, ExchangeOK
  <2>2. ThreadsOK' BY <1>3 DEF ConnectTimesOut, ThreadsOK, ThreadOK, ThreadType, FetchPcs,
        ParkedPcs, Goto, Fetchers
  <2> QED
    BY <1>3, <2>1, <2>2, BooksFrame, QueuesFrame, WsFrame, FlagsFrame
    DEF ConnectTimesOut, starterFrame, startVars, exchangeVars, bookVars
<1>4. CASE StartConnected
  <2>1. QueuesOK' BY <1>4, ConstantsType DEF StartConnected, QueuesOK
  <2>2. ThreadsOK' BY <1>4, ConstantsType DEF StartConnected, ThreadsOK, ThreadOK, ThreadType,
        FetchPcs, ParkedPcs, Parked, Fetchers
  <2>3. FlagsOK' BY <1>4 DEF StartConnected, FlagsOK
  <2> QED
    BY <1>4, <2>1, <2>2, <2>3, ExchangeFrame, BooksFrame, WsFrame
    DEF StartConnected, starterFrame, startVars, exchangeVars, bookVars
<1>5. CASE StarterFetches
  <2>1. QueuesOK' BY <1>5, TailType DEF StarterFetches, QueuesOK, starterFrame
  <2>2. ThreadsOK' BY <1>5, TailType, ConstantsType DEF StarterFetches, ThreadsOK, ThreadOK,
        ThreadType, FetchPcs, ParkedPcs, QueuesOK, Fetching, Ids, Fetchers, starterFrame
  <2> QED
    BY <1>5, <2>1, <2>2, ExchangeFrame, BooksFrame, WsFrame, FlagsFrame
    DEF StarterFetches, starterFrame, startVars, exchangeVars, bookVars
<1>6. CASE StarterFetched
  <2>1. ThreadsOK'
    BY <1>6, ThreadParks DEF StarterFetched, starterFrame, ParkedPcs, Fetchers
  <2> QED
    BY <1>6, <2>1, ExchangeFrame, BooksFrame, QueuesFrame, WsFrame, FlagsFrame
    DEF StarterFetched, starterFrame, startVars, exchangeVars, bookVars
<1>7. CASE StarterGivesUp
  <2>1. ThreadsOK' BY <1>7 DEF StarterGivesUp, ThreadsOK, ThreadOK, ThreadType, FetchPcs,
        ParkedPcs, Parked, Fetchers, starterFrame
  <2>2. FlagsOK' BY <1>7 DEF StarterGivesUp, FlagsOK, starterFrame
  <2> QED
    BY <1>7, <2>1, <2>2, ExchangeFrame, BooksFrame, QueuesFrame, WsFrame
    DEF StarterGivesUp, starterFrame, startVars, exchangeVars, bookVars
<1>8. CASE StartReturns
  <2>1. ThreadsOK' BY <1>8 DEF StartReturns, ThreadsOK, ThreadOK, ThreadType, FetchPcs,
        ParkedPcs, Goto, Fetchers, starterFrame
  <2>2. FlagsOK' BY <1>8 DEF StartReturns, FlagsOK, starterFrame
  <2> QED
    BY <1>8, <2>1, <2>2, ExchangeFrame, BooksFrame, QueuesFrame, WsFrame
    DEF StartReturns, starterFrame, startVars, exchangeVars, bookVars
<1>9. CASE StopEnds
  <2>1. ExchangeOK' BY <1>9, EmptySeq DEF StopEnds, ExchangeOK
  <2>2. ThreadsOK' BY <1>9 DEF StopEnds, ThreadsOK, ThreadOK, ThreadType, FetchPcs, ParkedPcs,
        Goto, Fetchers
  <2> QED
    BY <1>9, <2>1, <2>2, BooksFrame, QueuesFrame, WsFrame, FlagsFrame
    DEF StopEnds, starterFrame, startVars, exchangeVars, bookVars
<1> QED
  BY <1>1, <1>2, <1>3, <1>4, <1>5, <1>6, <1>7, <1>8, <1>9 DEF StarterStep

\* Both initial states have the shape of the invariant.
LEMMA InitialType == (Init \/ InitRunning) => TypeOK
<1> USE DEF TypeOK, ExchangeOK, BooksOK, QueuesOK, WsOK, ThreadsOK, FlagsOK
<1>1. 1 \in Ids /\ << >> \in Seq(UpdateType) /\ Len(<< >>) <= BufferCap
  BY ConstantsType, EmptySeq DEF Ids
<1>2. IdleWs \in WsType /\ IdleWs.pc \notin HoldsMessage
  BY DEF IdleWs, WsType, HoldsMessage
<1>4. CASE Init
  <2>1. ThreadsOK BY <1>4, ParkedType DEF Init, ParkedPcs
  <2>2. BooksOK BY <1>1, <1>4, ClearedBookType DEF Init
  <2> QED BY <1>1, <1>2, <1>4, <2>1, <2>2, EmptySeq DEF Init
<1>5. CASE InitRunning
  <2>1. ThreadsOK BY <1>5, ParkedType DEF InitRunning, ParkedPcs
  <2>2. BooksOK BY <1>1, <1>5, SnapshotType DEF InitRunning
  <2> QED BY <1>1, <1>2, <1>5, <2>1, <2>2, EmptySeq DEF InitRunning
<1> QED BY <1>4, <1>5

\* Every step keeps the shape of the state.
LEMMA StepKeepsType ==
    ASSUME TypeOK, [Next]_vars PROVE TypeOK'
<1>1. CASE Next
  BY <1>1, EnvironmentKeepsType, WsKeepsType, WorkerKeepsType, StarterKeepsType DEF Next
<1>2. CASE UNCHANGED vars
  BY <1>2, ExchangeFrame, BooksFrame, QueuesFrame, WsFrame, ThreadsFrame, FlagsFrame
  DEF TypeOK, vars, exchangeVars, bookVars
<1> QED BY <1>1, <1>2

-----------------------------------------------------------------------------
\* An update that continues a book keeps it in step; ids start at 2, so that it
\* never continues a cleared book.
LEMMA UpdateKeepsSync ==
    ASSUME NEW b \in BookType, BookInSync(b),
           NEW u, u.first \in 2 .. MaxId, u.last \in 2 .. MaxId, ~Gap(b, u)
    PROVE  BookInSync(Updated(b, u))
<1>1. CASE Stale(b, u) BY <1>1 DEF Updated
<1>2. CASE ~Stale(b, u)
  <2>1. b.last \in Nat /\ MaxId \in Nat BY ConstantsType DEF BookType, Ids
  <2>2. u.last > b.last /\ u.first <= b.last + 1 BY <1>2, <2>1 DEF Stale, Gap
  <2>3. b.applied BY <2>2 DEF BookInSync, ClearedBook
  <2>4. b.content = 1 .. b.last BY <2>3 DEF BookInSync
  <2>5. 1 .. u.last = (1 .. b.last) \cup (u.first .. u.last) BY <2>1, <2>2
  <2>6. Updated(b, u) = [b EXCEPT !.last = u.last, !.content = @ \cup (u.first .. u.last)]
    BY <1>2 DEF Updated
  <2>7. /\ Updated(b, u).applied = b.applied /\ Updated(b, u).last = u.last
        /\ Updated(b, u).content = b.content \cup (u.first .. u.last)
    BY <2>6 DEF BookType
  <2> QED BY <2>3, <2>4, <2>5, <2>7 DEF BookInSync
<1> QED BY <1>1, <1>2

\* Snapshot and replay leave a book in step.
LEMMA FetchKeepsSync ==
    ASSUME TypeOK, InSync, NEW f \in Fetchers, FetchStep(f) PROVE InSync'
<1>1. CASE ApplySnapshot(f)
  <2>1. \A id : BookInSync(SnapshotBook(id)) BY DEF BookInSync, SnapshotBook
  <2> QED BY <1>1, <2>1 DEF ApplySnapshot, InSync, TypeOK, BooksOK
<1>2. CASE ReplayOne(f)
  <2>1. /\ thread[f].sym \in Symbols
        /\ NextBuffered(f).first \in 2 .. MaxId /\ NextBuffered(f).last \in 2 .. MaxId
    BY <1>2, BufferedType DEF ReplayOne, TypeOK
  <2>2. BookInSync(Updated(book[thread[f].sym], NextBuffered(f)))
    BY <1>2, <2>1, UpdateKeepsSync DEF ReplayOne, InSync, TypeOK, BooksOK
  <2> QED BY <1>2, <2>1, <2>2 DEF ReplayOne, InSync, TypeOK, BooksOK
<1>3. CASE ~ApplySnapshot(f) /\ ~ReplayOne(f)
  <2>1. UNCHANGED book
    BY <1>3 DEF FetchStep, FetchReply, FetchFails, RateWaitEnds, ReplayGap, ReplayThrows,
                ReplayEnds, RetryLater, Retry, bookVars
  <2> QED BY <2>1 DEF InSync
<1> QED BY <1>1, <1>2, <1>3

\* Every step leaves every book in step.
LEMMA StepKeepsSync ==
    ASSUME TypeOK, InSync, [Next]_vars PROVE InSync'
<1>1. BookInSync(ClearedBook) BY DEF BookInSync, ClearedBook
<1>2. CASE Environment
  <2>1. UNCHANGED book
    BY <1>2 DEF Environment, ExchangeUpdate, MessageSkipped, MessageMalformed,
                ConnectionLost, WatchdogReconnects, bookVars
  <2> QED BY <2>1 DEF InSync
<1>3. CASE WsStep
  <2>1. CASE ReopenClear BY <1>1, <2>1 DEF ReopenClear, InSync
  <2>2. CASE GapClear BY <1>1, <2>2 DEF GapClear, InSync, TypeOK, BooksOK
  <2>3. CASE ApplyLive
    <3>1. ws.sym \in Symbols /\ ws.first \in 2 .. MaxId /\ ws.last \in 2 .. MaxId
      BY <2>3, MessageType DEF ApplyLive, HoldsMessage, TypeOK
    <3>2. BookInSync(Updated(book[ws.sym], ws))
      BY <2>3, <3>1, UpdateKeepsSync DEF ApplyLive, InSync, TypeOK, BooksOK
    <3> QED BY <2>3, <3>1, <3>2 DEF ApplyLive, InSync, TypeOK, BooksOK
  <2>4. CASE ~ReopenClear /\ ~GapClear /\ ~ApplyLive
    <3>1. UNCHANGED book
      BY <1>3, <2>4
      DEF WsStep, FirstOpen, Reopen, ReopenUnlive, ReopenQueue, Receive, BufferMessage,
          GoLive, DropMalformed, GapFound, GapUnlive, GapBuffer, GapQueue, Notify, bookVars
    <3> QED BY <3>1 DEF InSync
  <2> QED BY <2>1, <2>2, <2>3, <2>4
<1>4. CASE WorkerStep
  <2>1. CASE FetchStep(Worker) BY <2>1, FetchKeepsSync DEF Fetchers
  <2>2. CASE ~FetchStep(Worker)
    <3>1. UNCHANGED book
      BY <1>4, <2>2
      DEF WorkerStep, WorkerTakes, WorkerSleeps, WorkerFetched, WorkerGivesUp, WorkerResumes,
          WorkerExits, workerFrame, bookVars
    <3> QED BY <3>1 DEF InSync
  <2> QED BY <2>1, <2>2
<1>5. CASE StarterStep
  <2>1. CASE FetchStep(Starter) BY <2>1, FetchKeepsSync DEF Fetchers
  <2>2. CASE StartBegins BY <1>1, <2>2 DEF StartBegins, InSync
  <2>3. CASE ~FetchStep(Starter) /\ ~StartBegins
    <3>1. UNCHANGED book
      BY <1>5, <2>3
      DEF StarterStep, ConnectTimesOut, StartConnected, StarterFetches, StarterFetched,
          StarterGivesUp, StartReturns, StopEnds, starterFrame, bookVars
    <3> QED BY <3>1 DEF InSync
  <2> QED BY <2>1, <2>2, <2>3
<1>6. CASE UNCHANGED vars BY <1>6 DEF InSync, vars
<1> QED BY <1>2, <1>3, <1>4, <1>5, <1>6 DEF Next

\* Blank books, and books with one snapshot, are in step.
LEMMA InitialSync == (Init \/ InitRunning) => InSync
<1>1. BookInSync(ClearedBook) BY DEF BookInSync, ClearedBook
<1>2. BookInSync(SnapshotBook(1)) BY DEF BookInSync, SnapshotBook
<1> QED BY <1>1, <1>2 DEF Init, InitRunning, InSync

\* From a cold start or from the moment start() has returned, with any number
\* of symbols, events, losses, malformed messages, failed requests, reconnects
\* and restarts: no book with a snapshot ever misses an exchange event below its
\* update id, and a book without one is blank.
THEOREM BooksStayInSync == Spec \/ RunningSpec => [](TypeOK /\ InSync)
<1>1. Init \/ InitRunning => TypeOK /\ InSync BY InitialType, InitialSync
<1>2. TypeOK /\ InSync /\ [Next]_vars => (TypeOK /\ InSync)' BY StepKeepsType, StepKeepsSync
<1> QED BY <1>1, <1>2, PTL DEF Spec, RunningSpec

-----------------------------------------------------------------------------
(* No symbol is forgotten.  NeverOrphaned speaks of the time after start();  *)
(* what makes it inductive is what start() has done so far: the symbols it   *)
(* has yet to fetch, and that it has seen no failure.                        *)

Active == thread[Starter].pc \in FetchPcs \cup {"next", "running"}

TendedSinceStart ==
    /\ thread[Starter].pc # "asleep"
    /\ Active => ~stopRequested
    /\ Running => allOk /\ toFetch = << >>
    /\ Active /\ allOk => \A s \in Symbols : s \in ToSet(toFetch) \/ Tended(s)

\* The members of a sequence that is extended, joined or shortened.
LEMMA ToSetFacts ==
    ASSUME NEW S, NEW q \in Seq(S)
    PROVE  /\ \A e \in S : ToSet(Append(q, e)) = ToSet(q) \cup {e}
           /\ \A r \in Seq(S) : ToSet(q \o r) = ToSet(q) \cup ToSet(r)
           /\ q # << >> => ToSet(q) = {Head(q)} \cup ToSet(Tail(q))
           /\ ToSet(<< >>) = {}
<1>1. ASSUME NEW e \in S PROVE ToSet(Append(q, e)) = ToSet(q) \cup {e}
  BY AppendProperties, LenProperties DEF ToSet
<1>2. ASSUME NEW r \in Seq(S) PROVE ToSet(q \o r) = ToSet(q) \cup ToSet(r)
  <2>1. \A t : ToSet(t) = Range(t) BY DEF ToSet, Range
  <2>2. Range(q \o r) = Range(q) \cup Range(r) BY RangeConcatenation
  <2> QED BY <2>1, <2>2
<1>3. ASSUME q # << >> PROVE ToSet(q) = {Head(q)} \cup ToSet(Tail(q))
  <2> DEFINE t == Tail(q)
  <2>1. /\ Len(q) \in Nat /\ Len(q) >= 1 /\ Len(t) = Len(q) - 1
        /\ DOMAIN q = 1 .. Len(q) /\ DOMAIN t = 1 .. Len(t)
        /\ Head(q) = q[1]
    BY <1>3, HeadTailProperties, EmptySeq, LenProperties
  <2>2. \A i \in DOMAIN t : i + 1 \in DOMAIN q /\ t[i] = q[i + 1]
    BY <1>3, <2>1, HeadTailProperties
  <2>3. \A i \in DOMAIN q : i = 1 \/ (i - 1 \in DOMAIN t /\ t[i - 1] = q[i])
    BY <1>3, <2>1, HeadTailProperties
  <2>4. 1 \in DOMAIN q BY <2>1
  <2>5. Head(q) = q[1] BY <2>1
  <2> HIDE DEF t
  <2>6. ToSet(q) = {Head(q)} \cup ToSet(t) BY <2>2, <2>3, <2>4, <2>5 DEF ToSet
  <2> QED BY <2>6 DEF t
<1>4. ToSet(<< >>) = {} BY DEF ToSet
<1> QED BY <1>1, <1>2, <1>3, <1>4

\* A symbol stays tended when its book, its place in the queue and the threads
\* that care for it stay.
LEMMA TendedFrame ==
    ASSUME NEW s \in Symbols, Tended(s), UNCHANGED <<book, gaveUp, resyncQueue, ws, thread>>
    PROVE  Tended(s)'
BY DEF Tended, BeingFetched, BeingQueued

\* The environment forgets no symbol.
LEMMA EnvironmentTends ==
    ASSUME NEW s \in Symbols, Tended(s), Environment PROVE Tended(s)'
BY TendedFrame
DEF Environment, ExchangeUpdate, MessageSkipped, MessageMalformed, ConnectionLost,
    WatchdogReconnects, bookVars

\* Nor does the WebSocket thread: a book it clears is in its care until the symbol is
\* in the queue.
LEMMA WsTends ==
    ASSUME TypeOK, NEW s \in Symbols, Tended(s), WsStep PROVE Tended(s)'
<1> USE DEF Tended, BeingFetched, BeingQueued, wsFrame, queueFrame, bookVars, WsGoto,
           TypeOK, WsOK, WsType
<1>1. CASE FirstOpen BY <1>1 DEF FirstOpen
<1>2. CASE Reopen BY <1>2 DEF Reopen
<1>3. CASE ReopenClear BY <1>3 DEF ReopenClear
<1>4. CASE ReopenUnlive BY <1>4 DEF ReopenUnlive
<1>5. CASE ReopenQueue
  <2>1. s \in ToSet(resyncQueue')
    BY <1>5, ConstantsType, ToSetFacts DEF ReopenQueue, QueuesOK, Symbols
  <2> QED BY <2>1
<1>6. CASE Receive BY <1>6 DEF Receive
<1>7. CASE BufferMessage BY <1>7 DEF BufferMessage, IdleWs
<1>8. CASE GoLive BY <1>8 DEF GoLive
<1>9. CASE DropMalformed BY <1>9 DEF DropMalformed, IdleWs
<1>10. CASE ApplyLive
  <2>1. ws.sym \in Symbols BY <1>10, MessageType DEF ApplyLive, HoldsMessage
  <2>2. book'[s].applied = book[s].applied
    BY <1>10, <2>1 DEF ApplyLive, Updated, BooksOK, BookType
  <2> QED BY <1>10, <2>2 DEF ApplyLive, IdleWs
<1>11. CASE GapFound BY <1>11 DEF GapFound
<1>12. CASE GapClear BY <1>12 DEF GapClear, BooksOK
<1>13. CASE GapUnlive BY <1>13 DEF GapUnlive
<1>14. CASE GapBuffer BY <1>14 DEF GapBuffer
<1>15. CASE GapQueue
  <2>1. ws.sym \in Symbols BY <1>15, MessageType DEF GapQueue, HoldsMessage
  <2>2. ToSet(resyncQueue') = ToSet(resyncQueue) \cup {ws.sym}
    BY <1>15, <2>1, ToSetFacts DEF GapQueue, QueuesOK
  <2>3. s # ws.sym => gaveUp'[s] = gaveUp[s] BY <1>15 DEF GapQueue, BooksOK
  <2> QED BY <1>15, <2>2, <2>3 DEF GapQueue
<1>16. CASE Notify
  <2>1. ASSUME NEW f \in Fetchers, thread[f].pc \in FetchPcs
        PROVE  thread'[f] = thread[f]
    BY <1>16, <2>1 DEF Notify, ThreadsOK, ThreadType, FetchPcs
  <2> QED BY <1>16, <2>1 DEF Notify, IdleWs
<1> QED
  BY <1>1, <1>2, <1>3, <1>4, <1>5, <1>6, <1>7, <1>8, <1>9, <1>10, <1>11, <1>12, <1>13, <1>14,
     <1>15, <1>16
  DEF WsStep

\* Nor does a fetch: the symbol is its own until the snapshot is in the book.
LEMMA FetchTends ==
    ASSUME TypeOK, NEW f \in Fetchers, NEW s \in Symbols, Tended(s), FetchStep(f)
    PROVE  Tended(s)'
<1> USE DEF TypeOK, ThreadsOK
<1>1. ASSUME UNCHANGED <<book, gaveUp, resyncQueue, ws>>,
             \E pc \in FetchPcs \ {"replay", "fetched"} : thread'[f].pc = pc,
             thread'[f].sym = thread[f].sym,
             \A g \in Fetchers \ {f} : thread'[g] = thread[g]
      PROVE  Tended(s)'
  BY <1>1 DEF Tended, BeingFetched, BeingQueued
<1> USE DEF fetchFrame, bookVars, Goto, ThreadType, FetchPcs
<1>2. CASE FetchReply(f) BY <1>1, <1>2 DEF FetchReply
<1>3. CASE FetchFails(f) BY <1>1, <1>3 DEF FetchFails
<1>4. CASE RateWaitEnds(f) BY <1>1, <1>4 DEF RateWaitEnds
<1>5. CASE ApplySnapshot(f)
  <2>1. CASE thread[f].sym = s
    <3>1. book'[s].applied BY <1>5, <2>1 DEF ApplySnapshot, SnapshotBook, BooksOK
    <3> QED BY <3>1 DEF Tended
  <2>2. CASE thread[f].sym # s
    <3>1. book'[s] = book[s] /\ gaveUp'[s] = gaveUp[s]
      BY <1>5, <2>2 DEF ApplySnapshot, BooksOK
    <3>2. \A g \in Fetchers : thread[g].sym = s => thread'[g] = thread[g]
      BY <1>5, <2>2 DEF ApplySnapshot
    <3> QED BY <1>5, <3>1, <3>2 DEF ApplySnapshot, Tended, BeingFetched, BeingQueued
  <2> QED BY <2>1, <2>2
<1>6. CASE ReplayOne(f)
  <2>1. thread[f].sym \in Symbols BY <1>6, BufferedType DEF ReplayOne
  <2>2. book'[s].applied = book[s].applied
    BY <1>6, <2>1 DEF ReplayOne, Updated, BooksOK, BookType
  <2>3. \A g \in Fetchers : thread[g].pc # "replay" => thread'[g] = thread[g]
    BY <1>6 DEF ReplayOne, Replaying
  <2> QED BY <1>6, <2>2, <2>3 DEF ReplayOne, Tended, BeingFetched, BeingQueued
<1>7. CASE ReplayGap(f) BY <1>1, <1>7 DEF ReplayGap
<1>8. CASE ReplayThrows(f) BY <1>1, <1>8 DEF ReplayThrows
<1>9. CASE ReplayEnds(f)
  <2>1. \A g \in Fetchers : thread[g].pc # "replay" => thread'[g] = thread[g]
    BY <1>9 DEF ReplayEnds
  <2> QED BY <1>9, <2>1 DEF ReplayEnds, Tended, BeingFetched, BeingQueued
<1>10. CASE RetryLater(f) BY <1>1, <1>10 DEF RetryLater
<1>11. CASE Retry(f) BY <1>1, <1>11 DEF Retry, Fetching
<1> QED
  BY <1>2, <1>3, <1>4, <1>5, <1>6, <1>7, <1>8, <1>9, <1>10, <1>11 DEF FetchStep

\* The worker hands a symbol from the queue to its own fetch, and lets go of it
\* only fetched, given up or, which needs a stop request, on its way out.
LEMMA WorkerTends ==
    ASSUME TypeOK, NEW s \in Symbols, Tended(s), ~stopRequested, WorkerStep
    PROVE  Tended(s)'
<1> USE DEF TypeOK, ThreadsOK, Fetchers, workerFrame, bookVars, Tended, BeingFetched, BeingQueued
<1>1. CASE FetchStep(Worker) BY <1>1, FetchTends
<1>2. CASE WorkerTakes
  <2>1. ToSet(resyncQueue) = {Head(resyncQueue)} \cup ToSet(Tail(resyncQueue))
    BY <1>2, ToSetFacts DEF WorkerTakes, QueuesOK
  <2>2. /\ thread'[Worker].sym = Head(resyncQueue) /\ thread'[Worker].pc = "request"
        /\ thread'[Starter] = thread[Starter] /\ resyncQueue' = Tail(resyncQueue)
    BY <1>2 DEF WorkerTakes, Fetching, Worker, Starter
  <2>3. thread[Worker].pc \notin FetchPcs BY <1>2 DEF WorkerTakes, FetchPcs
  <2> QED BY <1>2, <2>1, <2>2, <2>3 DEF WorkerTakes, FetchPcs
<1>3. CASE WorkerSleeps BY <1>3 DEF WorkerSleeps, Goto, FetchPcs, ThreadType
<1>4. CASE WorkerFetched BY <1>4 DEF WorkerFetched
<1>5. CASE WorkerGivesUp
  <2>1. CASE thread[Worker].sym = s BY <1>5, <2>1 DEF WorkerGivesUp, BooksOK
  <2>2. CASE thread[Worker].sym # s BY <1>5, <2>2 DEF WorkerGivesUp, BooksOK
  <2> QED BY <2>1, <2>2
<1>6. CASE WorkerResumes BY <1>6 DEF WorkerResumes, Goto, FetchPcs, ThreadType
<1>7. CASE WorkerExits BY <1>7 DEF WorkerExits
<1> QED BY <1>1, <1>2, <1>3, <1>4, <1>5, <1>6, <1>7 DEF WorkerStep

\* A fetcher only moves itself.
LEMMA FetchMovesOne ==
    ASSUME TypeOK, NEW f \in Fetchers, FetchStep(f)
    PROVE  \E t : thread' = [thread EXCEPT ![f] = t]
<1> USE DEF TypeOK, ThreadsOK, Goto
<1>1. CASE FetchReply(f) BY <1>1 DEF FetchReply
<1>2. CASE FetchFails(f) BY <1>2 DEF FetchFails
<1>3. CASE RateWaitEnds(f) BY <1>3 DEF RateWaitEnds
<1>4. CASE ApplySnapshot(f) BY <1>4 DEF ApplySnapshot
<1>5. CASE ReplayOne(f) BY <1>5 DEF ReplayOne
<1>6. CASE ReplayGap(f) BY <1>6 DEF ReplayGap
<1>7. CASE ReplayThrows(f) BY <1>7 DEF ReplayThrows
<1>8. CASE ReplayEnds(f) BY <1>8 DEF ReplayEnds
<1>9. CASE RetryLater(f) BY <1>9 DEF RetryLater
<1>10. CASE Retry(f) BY <1>10 DEF Retry
<1> QED
  BY <1>1, <1>2, <1>3, <1>4, <1>5, <1>6, <1>7, <1>8, <1>9, <1>10 DEF FetchStep

\* Nobody but the starter changes how far start() has come.
LEMMA OthersLeaveStart ==
    ASSUME TypeOK, thread[Starter].pc # "asleep", Environment \/ WsStep \/ WorkerStep
    PROVE  /\ UNCHANGED <<toFetch, allOk, stopRequested>>
           /\ thread'[Starter].pc = thread[Starter].pc
<1> USE DEF startVars
<1>1. CASE Environment
  BY <1>1 DEF Environment, ExchangeUpdate, MessageSkipped, MessageMalformed, ConnectionLost,
              WatchdogReconnects
<1>2. CASE WsStep
  <2>1. CASE Notify
    <3>1. CASE thread' = thread BY <2>1, <3>1 DEF Notify
    <3>2. CASE thread' # thread
      <4>1. PICK f \in Waiters :
              thread[f].pc = "asleep" /\ thread' = [thread EXCEPT ![f].pc = "check"]
        BY <2>1, <3>2 DEF Notify
      <4>2. f = Worker BY <4>1 DEF Waiters, Fetchers
      <4> QED BY <2>1, <4>1, <4>2 DEF Notify, Starter, Worker, TypeOK, ThreadsOK
    <3> QED BY <3>1, <3>2
  <2>2. CASE FirstOpen \/ Reopen \/ ReopenClear \/ ReopenUnlive \/ ReopenQueue \/ Receive
    BY <2>2, SMTT(60)
    DEF wsFrame, queueFrame, FirstOpen, Reopen, ReopenClear, ReopenUnlive, ReopenQueue,
        Receive
  <2>3. CASE \/ BufferMessage \/ GoLive \/ DropMalformed \/ ApplyLive \/ GapFound \/ GapClear
             \/ GapUnlive \/ GapBuffer \/ GapQueue
    BY <2>3, SMTT(60)
    DEF wsFrame, queueFrame, BufferMessage, GoLive, DropMalformed, ApplyLive, GapFound,
        GapClear, GapUnlive, GapBuffer, GapQueue
  <2> QED BY <1>2, <2>1, <2>2, <2>3 DEF WsStep
<1>3. CASE WorkerStep
  <2>1. UNCHANGED <<toFetch, allOk, stopRequested>>
    BY <1>3
    DEF WorkerStep, FetchStep, FetchReply, FetchFails, RateWaitEnds, ApplySnapshot, ReplayOne,
        ReplayGap, ReplayThrows, ReplayEnds, RetryLater, Retry, fetchFrame, workerFrame,
        WorkerTakes, WorkerSleeps, WorkerFetched, WorkerGivesUp, WorkerResumes, WorkerExits
  <2>2. \E t : thread' = [thread EXCEPT ![Worker] = t]
    <3>1. CASE FetchStep(Worker) BY <3>1, FetchMovesOne DEF Fetchers
    <3>2. CASE WorkerSleeps \/ WorkerResumes
      BY <3>2 DEF WorkerSleeps, WorkerResumes, Goto
    <3>3. CASE WorkerTakes \/ WorkerFetched \/ WorkerGivesUp \/ WorkerExits
      BY <3>3 DEF WorkerTakes, WorkerFetched, WorkerGivesUp, WorkerExits
    <3> QED BY <1>3, <3>1, <3>2, <3>3 DEF WorkerStep
  <2>3. thread'[Starter] = thread[Starter]
    BY <2>2 DEF TypeOK, ThreadsOK, Fetchers, Starter, Worker
  <2> QED BY <2>1, <2>3, SMTT(60)
<1> QED BY <1>1, <1>2, <1>3

\* start() passes over no symbol, unless it is going to return false.
LEMMA StarterTends ==
    ASSUME TypeOK, TendedSinceStart, StarterStep PROVE TendedSinceStart'
<1> USE DEF TypeOK, ThreadsOK, TendedSinceStart, Active, Running, Fetchers, starterFrame, bookVars
<1>1. CASE FetchStep(Starter)
  <2>1. /\ UNCHANGED <<toFetch, allOk, stopRequested>>
        /\ thread[Starter].pc \in FetchPcs /\ thread'[Starter].pc \in FetchPcs
    BY <1>1
    DEF FetchStep, FetchReply, FetchFails, RateWaitEnds, ApplySnapshot, ReplayOne, ReplayGap,
        ReplayThrows, ReplayEnds, RetryLater, Retry, Replaying, Goto, Fetching, fetchFrame,
        startVars, FetchPcs, ThreadType
  <2>2. \A s \in Symbols : Tended(s) => Tended(s)' BY <1>1, FetchTends
  <2> QED BY <2>1, <2>2 DEF FetchPcs
<1>2. CASE StartBegins BY <1>2 DEF StartBegins, Goto, FetchPcs, ThreadType
<1>3. CASE ConnectTimesOut BY <1>3 DEF ConnectTimesOut, Goto, FetchPcs, ThreadType
<1>4. CASE StartConnected
  <2>1. thread'[Starter].pc = "next" BY <1>4 DEF StartConnected, Parked, Starter, Worker
  <2>2. ToSet(toFetch') = Symbols BY <1>4 DEF StartConnected, Symbols
  <2> QED BY <1>4, <2>1, <2>2 DEF StartConnected
<1>5. CASE StarterFetches
  <2>1. ToSet(toFetch) = {Head(toFetch)} \cup ToSet(Tail(toFetch))
    BY <1>5, ToSetFacts DEF StarterFetches, QueuesOK
  <2>2. /\ thread'[Starter].pc = "request" /\ thread'[Starter].sym = Head(toFetch)
        /\ thread'[Worker] = thread[Worker] /\ toFetch' = Tail(toFetch)
    BY <1>5 DEF StarterFetches, Fetching, Starter, Worker
  <2>3. thread[Starter].pc = "next" BY <1>5 DEF StarterFetches
  <2>4. ASSUME NEW s \in Symbols, Tended(s) PROVE Tended(s)'
    BY <1>5, <2>2, <2>3, <2>4
    DEF StarterFetches, Tended, BeingFetched, BeingQueued, FetchPcs
  <2>5. ASSUME NEW s \in Symbols, s = Head(toFetch) PROVE Tended(s)'
    BY <2>2, <2>5 DEF Tended, BeingFetched, FetchPcs
  <2>6. /\ UNCHANGED <<allOk, stopRequested>> /\ ~stopRequested
        /\ thread'[Starter].pc \in FetchPcs /\ thread'[Starter].pc # "running"
        /\ thread'[Starter].pc # "asleep"
    BY <1>5, <2>2, <2>3 DEF StarterFetches, FetchPcs
  <2>7. ASSUME allOk, NEW s \in Symbols PROVE s \in ToSet(toFetch') \/ Tended(s)'
    BY <2>1, <2>2, <2>3, <2>4, <2>5, <2>7
  <2> QED BY <2>6, <2>7
<1>6. CASE StarterFetched
  <2>1. /\ thread[Starter].pc = "fetched" /\ thread'[Starter].pc = "next"
        /\ thread'[Worker] = thread[Worker]
    BY <1>6 DEF StarterFetched, Parked, Starter, Worker
  <2>2. \A s \in Symbols : Tended(s) => Tended(s)'
    BY <1>6, <2>1 DEF StarterFetched, Tended, BeingFetched, BeingQueued
  <2> QED BY <1>6, <2>1, <2>2 DEF StarterFetched, FetchPcs
<1>7. CASE StarterGivesUp BY <1>7 DEF StarterGivesUp, Parked, FetchPcs
<1>8. CASE StartReturns
  <2>1. /\ thread[Starter].pc = "next" /\ toFetch = << >>
        /\ thread'[Starter].pc = (IF allOk THEN "running" ELSE "stopping")
        /\ thread'[Worker] = thread[Worker] /\ stopRequested' = ~allOk
        /\ thread'[Starter].sym = thread[Starter].sym
    BY <1>8 DEF StartReturns, Goto, Starter, Worker, ThreadType
  <2>2. \A s \in Symbols : Tended(s) => Tended(s)'
    BY <1>8, <2>1 DEF StartReturns, Tended, BeingFetched, BeingQueued, FetchPcs
  <2> QED BY <1>8, <2>1, <2>2, ToSetFacts DEF StartReturns, FetchPcs, FlagsOK
<1>9. CASE StopEnds BY <1>9 DEF StopEnds, Goto, FetchPcs, ThreadType
<1> QED
  BY <1>1, <1>2, <1>3, <1>4, <1>5, <1>6, <1>7, <1>8, <1>9 DEF StarterStep

\* Every step keeps all symbols tended since start().
LEMMA StepTends ==
    ASSUME TypeOK, TendedSinceStart, [Next]_vars PROVE TendedSinceStart'
<1>1. CASE Environment \/ WsStep \/ WorkerStep
  <2>1. /\ UNCHANGED <<toFetch, allOk, stopRequested>>
        /\ thread'[Starter].pc = thread[Starter].pc
    BY <1>1, OthersLeaveStart DEF TendedSinceStart
  <2>2. ASSUME ~stopRequested PROVE \A s \in Symbols : Tended(s) => Tended(s)'
    BY <1>1, <2>2, EnvironmentTends, WsTends, WorkerTends
  <2> QED BY <2>1, <2>2 DEF TendedSinceStart, Active, Running
<1>2. CASE StarterStep BY <1>2, StarterTends
<1>3. CASE UNCHANGED vars
  <2>1. UNCHANGED <<book, gaveUp, resyncQueue, ws, thread, toFetch, allOk, stopRequested>>
    BY <1>3 DEF vars
  <2> QED BY <2>1, TendedFrame DEF TendedSinceStart, Active, Running
<1> QED BY <1>1, <1>2, <1>3 DEF Next

\* The invariant holds before start(), and right after it.
LEMMA InitialTended == (Init \/ InitRunning) => TendedSinceStart
<1>1. CASE Init
  <2>1. thread[Starter].pc = "off" BY <1>1 DEF Init, Parked, Fetchers
  <2> QED BY <2>1 DEF TendedSinceStart, Active, Running, FetchPcs
<1>2. CASE InitRunning
  <2>1. thread[Starter].pc = "running" BY <1>2 DEF InitRunning, Parked, Fetchers, Starter, Worker
  <2>2. \A s \in Symbols : Tended(s) BY <1>2 DEF InitRunning, Tended, SnapshotBook
  <2> QED BY <1>2, <2>1, <2>2 DEF InitRunning, TendedSinceStart
<1> QED BY <1>1, <1>2

\* Once start() has returned true, a symbol without a book is always in
\* somebody's care, whatever is lost, malformed or refused and however often the
\* watchdog reconnects.
THEOREM NoSymbolIsForgotten == Spec \/ RunningSpec => []NeverOrphaned
<1>1. Init \/ InitRunning => TypeOK /\ TendedSinceStart BY InitialType, InitialTended
<1>2. TypeOK /\ TendedSinceStart /\ [Next]_vars => (TypeOK /\ TendedSinceStart)'
  BY StepKeepsType, StepTends
<1>3. TypeOK /\ TendedSinceStart => NeverOrphaned
  <2> SUFFICES ASSUME TypeOK, TendedSinceStart, Running PROVE \A s \in Symbols : Tended(s)
    BY DEF NeverOrphaned
  <2>1. ToSet(toFetch) = {} BY ToSetFacts DEF TendedSinceStart, TypeOK, QueuesOK
  <2> QED BY <2>1 DEF TendedSinceStart, Active, Running
<1> QED BY <1>1, <1>2, <1>3, PTL DEF Spec, RunningSpec

-----------------------------------------------------------------------------
\* The shape of the state, from either start, for good.
THEOREM FeedTypeCorrect == Spec \/ RunningSpec => []TypeOK
<1>1. Init \/ InitRunning => TypeOK BY InitialType
<1>2. TypeOK /\ [Next]_vars => TypeOK' BY StepKeepsType
<1> QED BY <1>1, <1>2, PTL DEF Spec, RunningSpec

-----------------------------------------------------------------------------
(* The updates held back for a symbol.  A book with a snapshot has none, but  *)
(* for those behind a message that cannot be parsed, unless a fetcher is       *)
(* about to replay them; and it is the WebSocket thread alone that can take    *)
(* the book away from a replay, on its way to clearing the buffer.  That the   *)
(* symbol is live, or that a message of it is already on the fast path, must   *)
(* then mean that nothing is held back: this is what start(), the worker, the  *)
(* gap path and a reconnect keep up between them.                              *)

Drained(s)  == symbolBuffers[s] = << >> \/ Poisoned(s)
Replayed(s) == \E f \in Fetchers : thread[f].pc = "replay" /\ thread[f].sym = s

DrainedInv(s) ==
    /\ book[s].applied => Drained(s) \/ Replayed(s)
    /\ Replayed(s) => book[s].applied \/ (ws.pc \in {"gapUnlive", "gapBuffer"} /\ ws.sym = s)
    /\ liveReady[s] => Drained(s)
    /\ ws.pc = "slow" /\ ws.sym = s => ~liveReady[s] \/ book[s].applied
    /\ ws.pc = "apply" /\ ws.sym = s => Drained(s)

\* Nobody replays while start() clears everything.
WorkerOff == thread[Starter].pc \in {"off", "connecting"} => thread[Worker].pc = "off"

BufferInv == WorkerOff /\ \A s \in Symbols : DrainedInv(s)

\* Whoever replays has the mutex.
LEMMA ReplayHoldsMutex ==
    ASSUME ThreadsOK, bufferMutex = NoOne PROVE \A s : ~Replayed(s)
BY DEF ThreadsOK, ThreadOK, Replayed, Fetchers, Worker, Starter, NoOne

\* A symbol whose book, flag, buffer and threads stay keeps its invariant.
LEMMA DrainedFrame ==
    ASSUME NEW s \in Symbols, DrainedInv(s),
           book'[s].applied = book[s].applied,
           liveReady'[s] = liveReady[s], symbolBuffers'[s] = symbolBuffers[s],
           Replayed(s)' <=> Replayed(s),
           ws'.pc \in {"slow", "apply", "gapUnlive", "gapBuffer"} => ws' = ws,
           ws.pc \in {"gapUnlive", "gapBuffer"} => ws' = ws
    PROVE  DrainedInv(s)'
<1>1. Drained(s)' <=> Drained(s) BY DEF Drained, Poisoned
<1> QED BY <1>1 DEF DrainedInv

\* The environment touches neither books nor threads.
LEMMA EnvironmentKeepsDrained ==
    ASSUME BufferInv, Environment PROVE BufferInv'
<1>1. UNCHANGED <<book, liveReady, symbolBuffers, ws, thread>>
  BY DEF Environment, ExchangeUpdate, MessageSkipped, MessageMalformed, ConnectionLost,
         WatchdogReconnects, bookVars
<1>2. \A s \in Symbols : DrainedInv(s)'
  BY <1>1 DEF BufferInv, DrainedInv, Drained, Poisoned, Replayed
<1> QED BY <1>1, <1>2 DEF BufferInv, WorkerOff


\* The WebSocket thread.
LEMMA WsKeepsDrained ==
    ASSUME TypeOK, BufferInv, WsStep PROVE \A s \in Symbols : DrainedInv(s)'
<1> SUFFICES ASSUME NEW s \in Symbols PROVE DrainedInv(s)'
  OBVIOUS
<1>0. DrainedInv(s) /\ ThreadsOK /\ BooksOK /\ WsOK BY DEF BufferInv, TypeOK
<1>a. ASSUME UNCHANGED thread PROVE Replayed(s)' <=> Replayed(s) BY <1>a DEF Replayed
<1> USE DEF wsFrame, queueFrame, bookVars, WsGoto, WsOK, WsType
<1>1. CASE FirstOpen BY <1>0, <1>1, <1>a, DrainedFrame DEF FirstOpen
<1>2. CASE Reopen BY <1>0, <1>2, <1>a, DrainedFrame DEF Reopen
<1>3. CASE ReopenClear
  <2>1. ~Replayed(s)' BY <1>0, <1>3, <1>a, ReplayHoldsMutex DEF ReopenClear
  <2>2. symbolBuffers'[s] = << >> /\ ws'.pc = "reopenUnlive" BY <1>0, <1>3 DEF ReopenClear
  <2> QED BY <2>1, <2>2 DEF DrainedInv, Drained
<1>4. CASE ReopenUnlive
  <2>1. /\ UNCHANGED <<book, symbolBuffers, thread>> /\ ~liveReady'[s]
        /\ ws.pc = "reopenUnlive" /\ ws'.pc = "reopenQueue"
    BY <1>0, <1>4 DEF ReopenUnlive
  <2> QED BY <1>0, <1>a, <2>1 DEF DrainedInv, Drained, Poisoned
<1>5. CASE ReopenQueue BY <1>0, <1>5, <1>a, DrainedFrame DEF ReopenQueue
<1>6. CASE Receive
  <2>1. /\ UNCHANGED <<book, symbolBuffers, liveReady, thread>> /\ ws.pc = "idle"
        /\ ws'.pc = (IF liveReady[ws'.sym] THEN "apply" ELSE "slow")
    BY <1>6 DEF Receive
  <2> QED BY <1>0, <1>a, <2>1 DEF DrainedInv, Drained, Poisoned
<1>7. CASE BufferMessage
  <2>1. /\ ws.pc = "slow" /\ ws'.pc = "idle" /\ UNCHANGED <<book, liveReady, thread>>
        /\ ~book[ws.sym].applied /\ bufferMutex = NoOne
        /\ s # ws.sym => symbolBuffers'[s] = symbolBuffers[s]
    BY <1>0, <1>7 DEF BufferMessage, BooksOK, IdleWs
  <2>2. CASE s = ws.sym
    <3>1. ~liveReady[s] /\ ~book[s].applied BY <1>0, <2>1, <2>2 DEF DrainedInv
    <3>2. ~Replayed(s)' BY <1>0, <1>a, <2>1, ReplayHoldsMutex
    <3> QED BY <2>1, <3>1, <3>2 DEF DrainedInv
  <2>3. CASE s # ws.sym
    BY <1>0, <1>a, <2>1, <2>3, DrainedFrame
  <2> QED BY <2>2, <2>3
<1>8. CASE GoLive
  <2>1. /\ ws.pc = "slow" /\ ws' = [ws EXCEPT !.pc = "apply"]
        /\ UNCHANGED <<book, symbolBuffers, thread>>
        /\ book[ws.sym].applied /\ bufferMutex = NoOne
        /\ s # ws.sym => liveReady'[s] = liveReady[s]
    BY <1>0, <1>8 DEF GoLive, BooksOK
  <2>2. ws'.pc = "apply" /\ ws'.sym = ws.sym BY <1>0, <2>1
  <2>3. CASE s = ws.sym
    <3>1. Drained(s) BY <1>0, <2>1, <2>3, ReplayHoldsMutex DEF DrainedInv
    <3>2. Drained(s)' BY <2>1, <3>1 DEF Drained, Poisoned
    <3> QED BY <1>0, <1>a, <2>1, <2>2, <2>3, <3>2 DEF DrainedInv
  <2>4. CASE s # ws.sym
    BY <1>0, <1>a, <2>1, <2>2, <2>4 DEF DrainedInv, Drained, Poisoned
  <2> QED BY <2>3, <2>4
<1>9. CASE DropMalformed
  BY <1>0, <1>9, <1>a, DrainedFrame DEF DropMalformed, IdleWs
<1>10. CASE ApplyLive
  <2>1. ws.sym \in Symbols BY <1>10, MessageType DEF ApplyLive, HoldsMessage, TypeOK
  <2>2. book'[s].applied = book[s].applied
    BY <1>0, <1>10, <2>1 DEF ApplyLive, Updated, BooksOK, BookType
  <2> QED BY <1>0, <1>10, <1>a, <2>2, DrainedFrame DEF ApplyLive, IdleWs
<1>11. CASE GapFound
  BY <1>0, <1>11, <1>a, DrainedFrame DEF GapFound
<1>12. CASE GapClear
  <2>1. /\ ws.pc = "gapClear" /\ ws'.pc = "gapUnlive" /\ ws'.sym = ws.sym
        /\ UNCHANGED <<symbolBuffers, liveReady, thread>>
    BY <1>0, <1>12 DEF GapClear
  <2>2. s = ws.sym => ~book'[s].applied
    BY <1>0, <1>12 DEF GapClear, BooksOK, ClearedBook
  <2>3. s # ws.sym => book'[s] = book[s]
    BY <1>0, <1>12 DEF GapClear, BooksOK
  <2> QED BY <1>0, <1>a, <2>1, <2>2, <2>3 DEF DrainedInv, Drained, Poisoned
<1>13. CASE GapUnlive
  <2>1. /\ ws.pc = "gapUnlive" /\ ws'.pc = "gapBuffer" /\ ws'.sym = ws.sym
        /\ UNCHANGED <<book, symbolBuffers, thread>>
    BY <1>0, <1>13 DEF GapUnlive
  <2>2. liveReady'[s] => liveReady[s] BY <1>0, <1>13 DEF GapUnlive, BooksOK
  <2> QED BY <1>0, <1>a, <2>1, <2>2 DEF DrainedInv, Drained, Poisoned
<1>14. CASE GapBuffer
  <2>1. /\ ws'.pc = "gapQueue" /\ UNCHANGED <<book, liveReady, thread>> /\ bufferMutex = NoOne
    BY <1>0, <1>14 DEF GapBuffer
  <2>2. symbolBuffers'[s] = << >> \/ symbolBuffers'[s] = symbolBuffers[s]
    BY <1>0, <1>14 DEF GapBuffer, BooksOK
  <2>3. Drained(s) => Drained(s)' BY <2>2 DEF Drained, Poisoned
  <2>4. ~Replayed(s) /\ ~Replayed(s)' BY <1>0, <1>a, <2>1, ReplayHoldsMutex
  <2> QED BY <1>0, <2>1, <2>3, <2>4 DEF DrainedInv
<1>15. CASE GapQueue
  BY <1>0, <1>15, <1>a, DrainedFrame DEF GapQueue
<1>16. CASE Notify
  <2>1. Replayed(s)' <=> Replayed(s)
    BY <1>0, <1>16 DEF Notify, Replayed, ThreadsOK, ThreadType
  <2> QED BY <1>0, <1>16, <2>1, DrainedFrame DEF Notify, IdleWs
<1> QED
  BY <1>1, <1>2, <1>3, <1>4, <1>5, <1>6, <1>7, <1>8, <1>9, <1>10, <1>11, <1>12, <1>13, <1>14,
     <1>15, <1>16
  DEF WsStep

\* A fetch: the snapshot comes with the promise of a replay, and the replay ends with
\* the buffer cleared or found to be poisoned.
LEMMA FetchKeepsDrained ==
    ASSUME TypeOK, BufferInv, NEW f \in Fetchers, FetchStep(f)
    PROVE  \A s \in Symbols : DrainedInv(s)'
<1> SUFFICES ASSUME NEW s \in Symbols PROVE DrainedInv(s)'
  OBVIOUS
<1>0. DrainedInv(s) /\ ThreadsOK /\ BooksOK BY DEF BufferInv, TypeOK
<1>t. thread \in [Fetchers -> ThreadType] BY <1>0 DEF ThreadsOK
<1>q. UNCHANGED ws
  BY DEF FetchStep, FetchReply, FetchFails, RateWaitEnds, ApplySnapshot, ReplayOne, ReplayGap,
         ReplayThrows, ReplayEnds, RetryLater, Retry, fetchFrame
\* Steps outside the replay.
<1>a. ASSUME UNCHANGED <<book, liveReady, symbolBuffers>>,
             thread[f].pc # "replay", thread'[f].pc # "replay",
             \A g \in Fetchers \ {f} : thread'[g] = thread[g]
      PROVE  DrainedInv(s)'
  <2>1. Replayed(s)' <=> Replayed(s) BY <1>a DEF Replayed
  <2> QED BY <1>0, <1>a, <1>q, <2>1, DrainedFrame
\* The end of a replay.
<1>b. ASSUME UNCHANGED book, thread[f].pc = "replay",
             \A g \in Fetchers \ {f} : thread'[g] = thread[g],
             thread[f].sym # s => liveReady'[s] = liveReady[s]
                                  /\ symbolBuffers'[s] = symbolBuffers[s],
             thread[f].sym = s => Drained(s)',
             thread'[f].pc # "replay"
      PROVE  DrainedInv(s)'
  <2>1. CASE thread[f].sym # s
    <3>1. Replayed(s)' <=> Replayed(s) BY <1>b, <2>1 DEF Replayed
    <3> QED BY <1>0, <1>b, <1>q, <2>1, <3>1, DrainedFrame
  <2>2. CASE thread[f].sym = s
    <3>1. Replayed(s) BY <1>b, <2>2 DEF Replayed
    <3>2. ~Replayed(s)'
      BY <1>0, <1>b DEF Replayed, ThreadsOK, ThreadOK
    <3>3. book'[s].applied \/ (ws'.pc \in {"gapUnlive", "gapBuffer"} /\ ws'.sym = s)
      BY <1>0, <1>b, <1>q, <3>1 DEF DrainedInv
    <3> QED BY <1>b, <2>2, <3>2, <3>3 DEF DrainedInv
  <2> QED BY <2>1, <2>2
<1> USE DEF fetchFrame, bookVars, Goto, ThreadType
<1>1. CASE FetchReply(f)
  BY <1>1, <1>a, <1>t DEF FetchReply
<1>2. CASE FetchFails(f)
  BY <1>2, <1>a, <1>t DEF FetchFails
<1>3. CASE RateWaitEnds(f)
  BY <1>3, <1>a, <1>t DEF RateWaitEnds
<1>4. CASE ApplySnapshot(f)
  <2>1. /\ thread[f].pc = "lock" /\ bufferMutex = NoOne
        /\ thread'[f].pc = "replay" /\ thread'[f].sym = thread[f].sym
        /\ \A g \in Fetchers \ {f} : thread'[g] = thread[g]
        /\ UNCHANGED <<liveReady, symbolBuffers>>
    BY <1>4, <1>t DEF ApplySnapshot
  <2>2. CASE thread[f].sym # s
    <3>1. book'[s] = book[s] BY <1>0, <1>4, <2>2 DEF ApplySnapshot, BooksOK
    <3>2. Replayed(s)' <=> Replayed(s) BY <2>1, <2>2 DEF Replayed
    <3> QED BY <1>0, <1>q, <2>1, <3>1, <3>2, DrainedFrame
  <2>3. CASE thread[f].sym = s
    <3>1. book'[s].applied BY <1>0, <1>4, <2>3 DEF ApplySnapshot, BooksOK, SnapshotBook
    <3>2. Replayed(s)' BY <2>1, <2>3 DEF Replayed
    <3>3. Drained(s)' <=> Drained(s) BY <2>1 DEF Drained, Poisoned
    <3> QED BY <1>0, <1>q, <2>1, <3>1, <3>2, <3>3 DEF DrainedInv
  <2> QED BY <2>2, <2>3
<1>5. CASE ReplayOne(f)
  <2>1. thread[f].sym \in Symbols BY <1>0, <1>5, BufferedType DEF ReplayOne
  <2>2. book'[s].applied = book[s].applied
    BY <1>0, <1>5, <2>1 DEF ReplayOne, Updated, BooksOK, BookType
  <2>3. Replayed(s)' <=> Replayed(s) BY <1>5, <1>t DEF ReplayOne, Replayed
  <2> QED BY <1>0, <1>5, <1>q, <2>2, <2>3, DrainedFrame DEF ReplayOne
<1>6. CASE ReplayGap(f)
  <2>1. thread[f].pc = "replay" BY <1>6 DEF ReplayGap, Replaying
  <2>2. thread[f].sym = s => symbolBuffers'[s] = << >> BY <1>0, <1>6 DEF ReplayGap, BooksOK
  <2>3. thread[f].sym # s => symbolBuffers'[s] = symbolBuffers[s]
    BY <1>0, <1>6 DEF ReplayGap, BooksOK
  <2>4. thread'[f].pc # "replay" /\ \A g \in Fetchers \ {f} : thread'[g] = thread[g]
    BY <1>6, <1>t DEF ReplayGap
  <2> QED BY <1>6, <1>b, <2>1, <2>2, <2>3, <2>4 DEF ReplayGap, Drained
<1>7. CASE ReplayThrows(f)
  <2>1. thread[f].pc = "replay" BY <1>7 DEF ReplayThrows, Replaying
  <2>2. Poisoned(thread[f].sym)'
    BY <1>7 DEF ReplayThrows, Replaying, NextBuffered, Poisoned
  <2>4. thread'[f].pc # "replay" /\ \A g \in Fetchers \ {f} : thread'[g] = thread[g]
    BY <1>7, <1>t DEF ReplayThrows
  <2> QED BY <1>7, <1>b, <2>1, <2>2, <2>4 DEF ReplayThrows, Drained
<1>8. CASE ReplayEnds(f)
  <2>1. thread[f].pc = "replay" BY <1>8 DEF ReplayEnds
  <2>2. thread[f].sym = s => symbolBuffers'[s] = << >> BY <1>0, <1>8 DEF ReplayEnds, BooksOK
  <2>3. thread[f].sym # s => symbolBuffers'[s] = symbolBuffers[s] /\ liveReady'[s] = liveReady[s]
    BY <1>0, <1>8 DEF ReplayEnds, BooksOK
  <2>4. thread'[f].pc # "replay" /\ \A g \in Fetchers \ {f} : thread'[g] = thread[g]
    BY <1>8, <1>t DEF ReplayEnds
  <2> QED BY <1>8, <1>b, <2>1, <2>2, <2>3, <2>4 DEF ReplayEnds, Drained
<1>9. CASE RetryLater(f)
  BY <1>9, <1>a, <1>t DEF RetryLater
<1>10. CASE Retry(f)
  BY <1>10, <1>a, <1>t DEF Retry, Fetching
<1> QED
  BY <1>1, <1>2, <1>3, <1>4, <1>5, <1>6, <1>7, <1>8, <1>9, <1>10 DEF FetchStep

\* Books, buffers and the WebSocket thread as they are, and nobody begins or ends a
\* replay.
LEMMA ThreadsLeaveBuffers ==
    ASSUME \A s \in Symbols : DrainedInv(s),
           UNCHANGED <<book, liveReady, symbolBuffers, ws>>,
           \A f \in Fetchers :
              \/ thread'[f] = thread[f]
              \/ thread[f].pc # "replay" /\ thread'[f].pc # "replay"
    PROVE  \A s \in Symbols : DrainedInv(s)'
<1> SUFFICES ASSUME NEW s \in Symbols PROVE DrainedInv(s)'
  OBVIOUS
<1>1. Replayed(s)' <=> Replayed(s) BY DEF Replayed
<1> QED BY <1>1, DrainedFrame

\* The rest of the worker, and of start() and stop().
LEMMA FetchersKeepDrained ==
    ASSUME TypeOK, BufferInv, WorkerStep \/ StarterStep
    PROVE  \A s \in Symbols : DrainedInv(s)'
<1>0. /\ \A s \in Symbols : DrainedInv(s)
      /\ thread \in [Fetchers -> ThreadType] /\ Starter \in Fetchers /\ Worker \in Fetchers
      /\ Starter # Worker
  BY DEF BufferInv, TypeOK, ThreadsOK, Fetchers, Starter, Worker
<1>1. CASE FetchStep(Worker) \/ FetchStep(Starter) BY <1>0, <1>1, FetchKeepsDrained
<1>2. CASE StartBegins
  <2>1. \A f \in Fetchers : thread'[f].pc # "replay"
    BY <1>0, <1>2 DEF StartBegins, BufferInv, WorkerOff, Goto, Fetchers, ThreadType
  <2>2. \A s \in Symbols : ~liveReady'[s] /\ symbolBuffers'[s] = << >>
    BY <1>2 DEF StartBegins
  <2> QED BY <2>1, <2>2 DEF DrainedInv, Drained, Replayed
<1>3. CASE StartConnected
  <2>1. \A f \in Fetchers : thread'[f].pc # "replay"
    BY <1>0, <1>3 DEF StartConnected, Parked
  <2>2. thread[Starter].pc = "connecting" /\ thread[Worker].pc = "off"
    BY <1>3 DEF StartConnected, BufferInv, WorkerOff
  <2> QED
    BY <1>0, <1>3, <2>1, <2>2, ThreadsLeaveBuffers DEF StartConnected, bookVars, Fetchers
<1> USE DEF Goto, ThreadType, bookVars, workerFrame, starterFrame
<1>4. CASE WorkerTakes
  BY <1>0, <1>4, ThreadsLeaveBuffers DEF WorkerTakes, Fetching
<1>5. CASE WorkerSleeps BY <1>0, <1>5, ThreadsLeaveBuffers DEF WorkerSleeps
<1>6. CASE WorkerFetched BY <1>0, <1>6, ThreadsLeaveBuffers DEF WorkerFetched, Parked
<1>7. CASE WorkerGivesUp BY <1>0, <1>7, ThreadsLeaveBuffers DEF WorkerGivesUp, Parked
<1>8. CASE WorkerResumes BY <1>0, <1>8, ThreadsLeaveBuffers DEF WorkerResumes
<1>9. CASE WorkerExits BY <1>0, <1>9, ThreadsLeaveBuffers DEF WorkerExits, Parked
<1>10. CASE ConnectTimesOut BY <1>0, <1>10, ThreadsLeaveBuffers DEF ConnectTimesOut
<1>11. CASE StarterFetches BY <1>0, <1>11, ThreadsLeaveBuffers DEF StarterFetches, Fetching
<1>12. CASE StarterFetched BY <1>0, <1>12, ThreadsLeaveBuffers DEF StarterFetched, Parked
<1>13. CASE StarterGivesUp BY <1>0, <1>13, ThreadsLeaveBuffers DEF StarterGivesUp, Parked
<1>14. CASE StartReturns BY <1>0, <1>14, ThreadsLeaveBuffers DEF StartReturns
<1>15. CASE StopEnds BY <1>0, <1>15, ThreadsLeaveBuffers DEF StopEnds
<1> QED
  BY <1>1, <1>2, <1>3, <1>4, <1>5, <1>6, <1>7, <1>8, <1>9, <1>10, <1>11, <1>12, <1>13, <1>14,
     <1>15
  DEF WorkerStep, StarterStep

\* Nothing but start() starts the worker, and it is joined before start() can be
\* called again.
LEMMA StepKeepsWorkerOff ==
    ASSUME TypeOK, WorkerOff, TendedSinceStart, Next PROVE WorkerOff'
<1>0. /\ thread \in [Fetchers -> ThreadType] /\ Starter \in Fetchers /\ Worker \in Fetchers
      /\ Starter # Worker /\ thread[Starter].pc # "asleep"
  BY DEF TypeOK, ThreadsOK, Fetchers, Starter, Worker, TendedSinceStart
<1>1. CASE Environment \/ WsStep \/ WorkerStep
  <2>1. thread'[Starter].pc = thread[Starter].pc BY <1>0, <1>1, OthersLeaveStart
  <2>2. ASSUME thread[Worker].pc = "off" PROVE thread'[Worker].pc = "off"
    <3>1. CASE Environment
      BY <2>2, <3>1 DEF Environment, ExchangeUpdate, MessageSkipped, MessageMalformed,
                         ConnectionLost, WatchdogReconnects
    <3>2. CASE WsStep /\ ~Notify
      BY <2>2, <3>2
      DEF WsStep, wsFrame, queueFrame, FirstOpen, Reopen, ReopenClear, ReopenUnlive,
          ReopenQueue, Receive,
          BufferMessage, GoLive, DropMalformed, ApplyLive, GapFound, GapClear, GapUnlive,
          GapBuffer, GapQueue
    <3>3. CASE Notify BY <1>0, <2>2, <3>3 DEF Notify, ThreadType
    <3>4. CASE WorkerStep
      BY <1>0, <2>2, <3>4
      DEF WorkerStep, FetchStep, FetchReply, FetchFails, RateWaitEnds, ApplySnapshot, ReplayOne,
          ReplayGap, ReplayThrows, ReplayEnds, RetryLater, Retry, Replaying, WorkerTakes,
          WorkerSleeps, WorkerFetched, WorkerGivesUp, WorkerResumes, WorkerExits, Parked
    <3> QED BY <1>1, <3>1, <3>2, <3>3, <3>4
  <2> QED BY <2>1, <2>2 DEF WorkerOff
<1>2. CASE FetchStep(Starter)
  <2>1. thread'[Starter].pc \in FetchPcs
    BY <1>0, <1>2, SMTT(60)
    DEF FetchStep, FetchReply, FetchFails, RateWaitEnds, ApplySnapshot, ReplayOne, ReplayGap,
        ReplayThrows, ReplayEnds, RetryLater, Retry, Replaying, Goto, Fetching, FetchPcs,
        ThreadType
  <2> QED BY <2>1 DEF WorkerOff, FetchPcs
<1> USE DEF WorkerOff, Goto, ThreadType, Parked, Fetching
<1>3. CASE StartBegins BY <1>0, <1>3 DEF StartBegins
<1>4. CASE ConnectTimesOut BY <1>0, <1>4 DEF ConnectTimesOut
<1>5. CASE StartConnected BY <1>0, <1>5 DEF StartConnected
<1>6. CASE StarterFetches BY <1>0, <1>6 DEF StarterFetches
<1>7. CASE StarterFetched BY <1>0, <1>7 DEF StarterFetched
<1>8. CASE StarterGivesUp BY <1>0, <1>8 DEF StarterGivesUp
<1>9. CASE StartReturns BY <1>0, <1>9 DEF StartReturns
<1>10. CASE StopEnds BY <1>0, <1>10 DEF StopEnds
<1> QED
  BY <1>1, <1>2, <1>3, <1>4, <1>5, <1>6, <1>7, <1>8, <1>9, <1>10 DEF Next, StarterStep

\* The invariant of the buffers holds at first ...
LEMMA InitialBuffers == (Init \/ InitRunning) => BufferInv
<1>1. ASSUME Init \/ InitRunning
      PROVE  /\ \A s : ~Replayed(s)
             /\ \A s \in Symbols : symbolBuffers[s] = << >>
             /\ ws.pc = "idle" /\ WorkerOff
  BY <1>1 DEF Init, InitRunning, Replayed, Parked, IdleWs, WorkerOff, Fetchers, Starter, Worker
<1> QED BY <1>1 DEF BufferInv, DrainedInv, Drained

\* ... and every step keeps it.
LEMMA StepKeepsBuffers ==
    ASSUME TypeOK, TendedSinceStart, BufferInv, [Next]_vars PROVE BufferInv'
<1>1. CASE Environment BY <1>1, EnvironmentKeepsDrained
<1>2. CASE Next /\ ~Environment
  <2>1. \A s \in Symbols : DrainedInv(s)'
    BY <1>2, WsKeepsDrained, FetchersKeepDrained DEF Next
  <2> QED BY <1>2, <2>1, StepKeepsWorkerOff DEF BufferInv
<1>3. CASE UNCHANGED vars
  <2>1. \A s \in Symbols : DrainedInv(s)'
    BY <1>3 DEF vars, BufferInv, DrainedInv, Drained, Poisoned, Replayed
  <2> QED BY <1>3, <2>1 DEF BufferInv, WorkerOff, vars
<1> QED BY <1>1, <1>2, <1>3

\* From either start, the invariants of all parts together.
LEMMA BuffersInvariant ==
    Spec \/ RunningSpec => [](TypeOK /\ TendedSinceStart /\ BufferInv)
<1>1. Init \/ InitRunning => TypeOK /\ TendedSinceStart /\ BufferInv
  BY InitialType, InitialTended, InitialBuffers
<1>2. TypeOK /\ TendedSinceStart /\ BufferInv /\ [Next]_vars
         => (TypeOK /\ TendedSinceStart /\ BufferInv)'
  BY StepKeepsType, StepTends, StepKeepsBuffers
<1> QED BY <1>1, <1>2, PTL DEF Spec, RunningSpec

\* A book that has its snapshot has all the updates that were held back for it, but
\* for those behind one that cannot be parsed, as soon as the mutex is free.
THEOREM BuffersAreReplayed == Spec \/ RunningSpec => []NothingHeldBack
<1>1. TypeOK /\ TendedSinceStart /\ BufferInv => NothingHeldBack
  BY ReplayHoldsMutex DEF NothingHeldBack, BufferInv, DrainedInv, Drained, TypeOK
<1> QED BY <1>1, BuffersInvariant, PTL

\* No live update comes between the updates of a replay, unless one of these cannot be
\* parsed: a message that is on the lock-free path finds nothing held back.
THEOREM LiveUpdatesSpareReplays == Spec \/ RunningSpec => NoLiveUpdateDuringCleanReplay
<1>1. TypeOK /\ TendedSinceStart /\ BufferInv =>
        (ApplyLive /\ book' # book =>
          ~\E f \in Fetchers :
              Replaying(f) /\ thread[f].sym = ws.sym /\ ~Poisoned(ws.sym))
  <2> SUFFICES ASSUME TypeOK, BufferInv, ApplyLive, NEW f \in Fetchers,
                      Replaying(f), thread[f].sym = ws.sym, ~Poisoned(ws.sym)
               PROVE  FALSE
    OBVIOUS
  <2>1. ws.sym \in Symbols /\ ws.pc = "apply"
    BY MessageType DEF ApplyLive, HoldsMessage, TypeOK
  <2>2. symbolBuffers[ws.sym] = << >> BY <2>1 DEF BufferInv, DrainedInv, Drained
  <2> QED BY <2>2 DEF Replaying
<1> QED BY <1>1, BuffersInvariant, PTL DEF NoLiveUpdateDuringCleanReplay

-----------------------------------------------------------------------------
(* The feed keeps its promise.  Nothing anywhere on the way to a book is      *)
(* ahead of the exchange: the messages under way, those held back, the one     *)
(* being handled, the snapshots.  With InSync, a step that changes a book then  *)
(* maps to a step of the abstract feed.                                        *)

StreamKnown ==
    \A i \in DOMAIN stream : stream[i] # Open => stream[i].last <= exLast[stream[i].sym]
BooksKnown ==
    \A s \in Symbols :
        /\ book[s].last <= exLast[s]
        /\ \A i \in DOMAIN symbolBuffers[s] : symbolBuffers[s][i].last <= exLast[s]
WsKnown == ws.pc \in HoldsMessage => ws.last <= exLast[ws.sym]
ThreadsKnown ==
    \A f \in Fetchers :
        thread[f].pc \in {"lock", "replay"} => thread[f].snap <= exLast[thread[f].sym]

Known == StreamKnown /\ BooksKnown /\ WsKnown /\ ThreadsKnown

\* The messages of the stream that follow the first.
LEMMA TailKnown ==
    ASSUME ExchangeOK, StreamKnown, stream # << >>, stream' = Tail(stream), UNCHANGED exLast
    PROVE  StreamKnown'
<1>1. \A i \in DOMAIN Tail(stream) : i + 1 \in DOMAIN stream /\ Tail(stream)[i] = stream[i + 1]
  BY HeadTailProperties, LenProperties DEF ExchangeOK
<1> QED BY <1>1 DEF StreamKnown

\* The exchange has a positive event number, and it only grows.
LEMMA ExchangeGrows ==
    ASSUME TypeOK, NEW s \in Symbols, NEW last \in 2 .. MaxId, ExchangeUpdate(s, last)
    PROVE  /\ \A r \in Symbols : /\ exLast[r] \in Nat /\ exLast[r] >= 1
                                 /\ exLast'[r] \in Nat /\ exLast'[r] >= exLast[r]
           /\ exLast' = [exLast EXCEPT ![s] = last] /\ last > exLast[s]
<1>1. exLast \in [Symbols -> Ids] /\ MaxId \in Nat /\ MaxBatch \in Nat
  BY ConstantsType DEF TypeOK, ExchangeOK
<1>2. \A r \in Symbols : exLast[r] \in Nat /\ exLast[r] >= 1 BY <1>1 DEF Ids
<1>3. exLast' = [exLast EXCEPT ![s] = last] /\ last > exLast[s]
  BY <1>1, <1>2 DEF ExchangeUpdate
<1> QED BY <1>1, <1>2, <1>3

\* The environment: events are known once they are made.
LEMMA EnvironmentKeepsKnown ==
    ASSUME TypeOK, Known, Environment PROVE Known'
<1> USE DEF Known, bookVars
<1>0. ExchangeOK /\ BooksOK /\ WsOK /\ ThreadsOK BY DEF TypeOK
<1>1. ASSUME NEW s \in Symbols, NEW last \in 2 .. MaxId, ExchangeUpdate(s, last)
      PROVE  Known'
  <2>1. /\ \A r \in Symbols : /\ exLast[r] \in Nat /\ exLast'[r] \in Nat
                              /\ exLast'[r] >= exLast[r]
        /\ exLast' = [exLast EXCEPT ![s] = last]
        /\ exLast'[s] = last
    BY <1>0, <1>1, ExchangeGrows DEF ExchangeOK
  <2>2. UNCHANGED <<book, symbolBuffers, ws, thread>> BY <1>1 DEF ExchangeUpdate
  <2>3. \A i \in DOMAIN stream : stream[i] \in UpdateType \cup {Open}
    BY <1>0, ElementOfSeq, LenProperties DEF ExchangeOK
  <2>4. \A u \in UpdateType : u.sym \in Symbols /\ u.last \in Nat
    BY ConstantsType DEF UpdateType
  <2>5. \A i \in DOMAIN stream :
          stream[i] # Open => stream[i].last <= exLast'[stream[i].sym]
    <3> SUFFICES ASSUME NEW i \in DOMAIN stream, stream[i] # Open
                 PROVE  stream[i].last <= exLast'[stream[i].sym]
      OBVIOUS
    <3>1. stream[i].sym \in Symbols /\ stream[i].last \in Nat BY <2>3, <2>4
    <3>2. stream[i].last <= exLast[stream[i].sym] BY DEF StreamKnown
    <3> QED BY <2>1, <3>1, <3>2
  <2>6. StreamKnown'
    <3>1. CASE stream' = stream BY <2>5, <3>1 DEF StreamKnown
    <3>2. CASE stream' # stream
      <4> DEFINE u == [sym |-> s, first |-> exLast[s] + 1, last |-> last, ok |-> TRUE]
      <4>1. stream' = Append(stream, u) BY <1>1, <3>2 DEF ExchangeUpdate
      <4>2. u.sym = s /\ u.last = last OBVIOUS
      <4>3. \A i \in DOMAIN stream' :
              (i \in DOMAIN stream /\ stream'[i] = stream[i]) \/ stream'[i] = u
        BY <1>0, <4>1, AppendProperties, LenProperties DEF ExchangeOK
      <4> HIDE DEF u
      <4>4. \A i \in DOMAIN stream' :
              stream'[i] # Open => stream'[i].last <= exLast'[stream'[i].sym]
        BY <2>1, <2>5, <4>2, <4>3
      <4> QED BY <4>4 DEF StreamKnown
    <3> QED BY <3>1, <3>2
  <2>7. BooksKnown'
    <3>1. \A r \in Symbols : book[r].last \in Nat
      BY <1>0, ConstantsType DEF BooksOK, BookType, Ids
    <3>2. \A r \in Symbols : \A i \in DOMAIN symbolBuffers[r] : symbolBuffers[r][i] \in UpdateType
      BY <1>0, ElementOfSeq, LenProperties DEF BooksOK
    <3> SUFFICES ASSUME NEW r \in Symbols
                 PROVE  /\ book[r].last <= exLast'[r]
                        /\ \A i \in DOMAIN symbolBuffers[r] : symbolBuffers[r][i].last <= exLast'[r]
      BY <2>2 DEF BooksKnown
    <3>3. book[r].last <= exLast[r] BY DEF BooksKnown
    <3>4. ASSUME NEW i \in DOMAIN symbolBuffers[r]
          PROVE  symbolBuffers[r][i].last <= exLast'[r]
      <4>1. symbolBuffers[r][i].last \in Nat BY <2>4, <3>2
      <4>2. symbolBuffers[r][i].last <= exLast[r] BY DEF BooksKnown
      <4> QED BY <2>1, <4>1, <4>2
    <3> QED BY <2>1, <3>1, <3>3, <3>4
  <2>8. WsKnown'
    <3>1. ws.pc \in HoldsMessage => ws.sym \in Symbols /\ ws.last \in Nat
      BY <1>0, MessageType, ConstantsType
    <3>2. ws.pc \in HoldsMessage => ws.last <= exLast[ws.sym] BY DEF WsKnown
    <3>3. ws.pc \in HoldsMessage => ws.last <= exLast'[ws.sym] BY <2>1, <3>1, <3>2
    <3> QED BY <2>2, <3>3 DEF WsKnown
  <2>9. ThreadsKnown'
    <3> SUFFICES ASSUME NEW f \in Fetchers, thread[f].pc \in {"lock", "replay"}
                 PROVE  thread[f].snap <= exLast'[thread[f].sym]
      BY <2>2 DEF ThreadsKnown
    <3>1. thread[f].sym \in Symbols /\ thread[f].snap \in Nat
      BY <1>0, ConstantsType DEF ThreadsOK, ThreadOK, FetchPcs, Ids
    <3>2. thread[f].snap <= exLast[thread[f].sym] BY DEF ThreadsKnown
    <3> QED BY <2>1, <3>1, <3>2
  <2> QED BY <2>6, <2>7, <2>8, <2>9
<1>2. ASSUME UNCHANGED <<exLast, book, symbolBuffers, ws, thread>>, StreamKnown' PROVE Known'
  BY <1>2 DEF BooksKnown, WsKnown, ThreadsKnown
<1>3. CASE MessageSkipped
  BY <1>0, <1>2, <1>3, TailKnown DEF MessageSkipped
<1>4. CASE MessageMalformed
  <2>1. 1 \in DOMAIN stream /\ stream[1] = Head(stream)
    BY <1>0, <1>4, LenProperties, EmptySeq DEF MessageMalformed, ExchangeOK
  <2>2. stream[1] \in UpdateType BY <1>0, <1>4, <2>1, StreamType DEF MessageMalformed
  <2>3. /\ DOMAIN stream' = DOMAIN stream
        /\ stream'[1].sym = stream[1].sym /\ stream'[1].last = stream[1].last
        /\ \A i \in DOMAIN stream \ {1} : stream'[i] = stream[i]
    BY <1>4, <2>1, <2>2 DEF MessageMalformed, UpdateType
  <2>4. StreamKnown' BY <1>4, <2>1, <2>3 DEF MessageMalformed, StreamKnown
  <2> QED BY <1>2, <1>4, <2>4 DEF MessageMalformed
<1>5. CASE ConnectionLost
  <2>1. StreamKnown' BY <1>5 DEF ConnectionLost, StreamKnown
  <2> QED BY <1>2, <1>5, <2>1 DEF ConnectionLost
<1>6. CASE WatchdogReconnects
  <2>1. StreamKnown' BY <1>6 DEF WatchdogReconnects, StreamKnown
  <2> QED BY <1>2, <1>6, <2>1 DEF WatchdogReconnects
<1> QED BY <1>1, <1>3, <1>4, <1>5, <1>6 DEF Environment

\* An update of known events leaves a book known.
LEMMA UpdatedKnown ==
    ASSUME NEW b, NEW u, NEW n, b.last <= n, u.last <= n, b \in BookType
    PROVE  Updated(b, u).last <= n
BY DEF Updated, BookType

\* The WebSocket thread passes on what the exchange has sent.
LEMMA WsKeepsKnown ==
    ASSUME TypeOK, Known, WsStep PROVE Known'
<1> USE DEF Known, wsFrame, queueFrame, bookVars, WsGoto, WsOK, WsType
<1>0. ExchangeOK /\ BooksOK /\ WsOK /\ ThreadsOK BY DEF TypeOK
<1>1. UNCHANGED exLast /\ (Notify \/ UNCHANGED thread)
  BY DEF WsStep, FirstOpen, Reopen, ReopenClear, ReopenUnlive, ReopenQueue, Receive,
         BufferMessage, GoLive, DropMalformed, ApplyLive, GapFound, GapClear, GapUnlive,
         GapBuffer, GapQueue, Notify, exchangeVars
<1>2. ThreadsKnown'
  <2>1. CASE Notify
    BY <1>0, <1>1, <2>1 DEF Notify, ThreadsKnown, ThreadsOK, ThreadType
  <2>2. CASE UNCHANGED thread BY <1>1, <2>2 DEF ThreadsKnown
  <2> QED BY <1>1, <2>1, <2>2
<1>3. StreamKnown'
  <2>1. \/ UNCHANGED stream
        \/ stream # << >> /\ stream' = Tail(stream)
    BY DEF WsStep, FirstOpen, Reopen, ReopenClear, ReopenUnlive, ReopenQueue, Receive,
           BufferMessage, GoLive, DropMalformed, ApplyLive, GapFound, GapClear, GapUnlive,
           GapBuffer, GapQueue, Notify, exchangeVars
  <2>2. CASE UNCHANGED stream BY <1>1, <2>2 DEF StreamKnown
  <2> QED BY <1>0, <1>1, <2>1, <2>2, TailKnown
<1>4. WsKnown'
  <2>1. CASE Receive
    <3>1. 1 \in DOMAIN stream /\ stream[1] = Head(stream)
      BY <1>0, <2>1, LenProperties, EmptySeq DEF Receive, ExchangeOK
    <3>2. Head(stream).last <= exLast[Head(stream).sym]
      BY <2>1, <3>1 DEF Receive, StreamKnown
    <3>3. ws'.sym = Head(stream).sym /\ ws'.last = Head(stream).last BY <2>1 DEF Receive
    <3> QED BY <1>1, <3>2, <3>3 DEF WsKnown
  <2>2. CASE ~Receive
    <3>1. \/ ws'.pc \notin HoldsMessage
          \/ ws.pc \in HoldsMessage /\ ws'.sym = ws.sym /\ ws'.last = ws.last
      BY <1>0, <2>2
      DEF WsStep, FirstOpen, Reopen, ReopenClear, ReopenUnlive, ReopenQueue,
           BufferMessage, GoLive, DropMalformed, ApplyLive, GapFound, GapClear, GapUnlive,
           GapBuffer, GapQueue, Notify, HoldsMessage, IdleWs
    <3> QED BY <1>1, <3>1 DEF WsKnown
  <2> QED BY <2>1, <2>2
<1>5. BooksKnown'
  <2>0. \A s \in Symbols : exLast[s] \in Nat BY <1>0, ConstantsType DEF ExchangeOK, Ids
  <2>1. CASE ReopenClear
    BY <1>1, <2>0, <2>1 DEF ReopenClear, BooksKnown, ClearedBook
  <2>2. CASE BufferMessage
    <3>1. ws.sym \in Symbols /\ Message \in UpdateType
      BY <2>2, <1>0, MessageType DEF BufferMessage, HoldsMessage
    <3>2. Message.last <= exLast[ws.sym]
      BY <2>2 DEF BufferMessage, WsKnown, HoldsMessage, Message
    <3>3. symbolBuffers[ws.sym] \in Seq(UpdateType) BY <1>0, <3>1 DEF BooksOK
    <3>4. \A s \in Symbols : \A i \in DOMAIN symbolBuffers'[s] :
            \/ i \in DOMAIN symbolBuffers[s] /\ symbolBuffers'[s][i] = symbolBuffers[s][i]
            \/ s = ws.sym /\ symbolBuffers'[s][i] = Message
      <4>1. /\ \A s \in Symbols \ {ws.sym} : symbolBuffers'[s] = symbolBuffers[s]
            /\ symbolBuffers'[ws.sym] = Buffered(symbolBuffers[ws.sym], Message)
        BY <1>0, <2>2, <3>1 DEF BufferMessage, BooksOK
      <4>2. \A i \in DOMAIN Append(symbolBuffers[ws.sym], Message) :
              \/ /\ i \in DOMAIN symbolBuffers[ws.sym]
                 /\ Append(symbolBuffers[ws.sym], Message)[i] = symbolBuffers[ws.sym][i]
              \/ Append(symbolBuffers[ws.sym], Message)[i] = Message
        BY <3>1, <3>3, AppendProperties, LenProperties
      <4> QED BY <4>1, <4>2 DEF Buffered
    <3>5. UNCHANGED book BY <2>2 DEF BufferMessage
    <3> HIDE DEF Known
    <3> QED BY <1>1, <3>2, <3>4, <3>5 DEF BooksKnown, Known
  <2>3. CASE ApplyLive
    <3>1. ws.sym \in Symbols BY <1>0, <2>3, MessageType DEF ApplyLive, HoldsMessage
    <3>2. Updated(book[ws.sym], ws).last <= exLast[ws.sym]
      BY <1>0, <2>3, <3>1, UpdatedKnown, SMTT(60)
      DEF ApplyLive, BooksKnown, WsKnown, HoldsMessage, BooksOK
    <3> QED BY <1>0, <1>1, <2>3, <3>1, <3>2 DEF ApplyLive, BooksKnown, BooksOK
  <2>4. CASE GapClear
    BY <1>0, <1>1, <2>0, <2>4 DEF GapClear, BooksKnown, ClearedBook, BooksOK
  <2>5. CASE GapBuffer
    BY <1>0, <1>1, <2>5 DEF GapBuffer, BooksKnown, BooksOK
  <2>6. CASE ~(ReopenClear \/ BufferMessage \/ ApplyLive \/ GapClear \/ GapBuffer)
    <3>1. UNCHANGED <<book, symbolBuffers>>
      BY <2>6 DEF WsStep, FirstOpen, Reopen, ReopenUnlive, ReopenQueue, Receive, GoLive,
                  DropMalformed, GapFound, GapUnlive, GapQueue, Notify
    <3> QED BY <1>1, <3>1 DEF BooksKnown
  <2> QED BY <2>1, <2>2, <2>3, <2>4, <2>5, <2>6
<1> QED BY <1>2, <1>3, <1>4, <1>5

\* A snapshot is of some event the exchange has had, and a replay of known updates.
LEMMA FetchKeepsKnown ==
    ASSUME TypeOK, Known, NEW f \in Fetchers, FetchStep(f) PROVE Known'
<1> USE DEF Known, fetchFrame, exchangeVars, bookVars, Goto, ThreadType
<1>0. /\ ExchangeOK /\ BooksOK /\ ThreadsOK /\ thread \in [Fetchers -> ThreadType]
      /\ \A s \in Symbols : exLast[s] \in Nat
  BY ConstantsType DEF TypeOK, ThreadsOK, ExchangeOK, Ids
<1>1. UNCHANGED <<exLast, stream, ws>> /\ StreamKnown' /\ WsKnown'
  BY DEF FetchStep, FetchReply, FetchFails, RateWaitEnds, ApplySnapshot, ReplayOne, ReplayGap,
         ReplayThrows, ReplayEnds, RetryLater, Retry, StreamKnown, WsKnown
<1>2. ASSUME thread'[f].pc \in {"lock", "replay"} =>
                thread'[f].snap <= exLast[thread'[f].sym],
             \A g \in Fetchers \ {f} : thread'[g] = thread[g]
      PROVE  ThreadsKnown'
  BY <1>1, <1>2 DEF ThreadsKnown
<1>3. CASE FetchReply(f)
  <2>1. PICK id \in 1 .. exLast[thread[f].sym] :
          thread' = [thread EXCEPT ![f].pc = "lock", ![f].snap = id]
    BY <1>3 DEF FetchReply
  <2>2. /\ thread'[f].sym = thread[f].sym /\ thread'[f].snap = id
        /\ \A g \in Fetchers \ {f} : thread'[g] = thread[g]
    BY <1>0, <2>1
  <2>3. thread[f].sym \in Symbols BY <1>0, <1>3 DEF FetchReply, ThreadsOK, ThreadOK, FetchPcs
  <2>4. ThreadsKnown' BY <1>0, <1>2, <2>2, <2>3
  <2> QED BY <1>1, <1>3, <2>4 DEF FetchReply, BooksKnown
<1>4. CASE ApplySnapshot(f)
  <2>1. thread[f].sym \in Symbols /\ thread[f].snap <= exLast[thread[f].sym]
    BY <1>0, <1>4 DEF ApplySnapshot, ThreadsOK, ThreadOK, FetchPcs, ThreadsKnown
  <2>2. BooksKnown'
    BY <1>0, <1>1, <1>4, <2>1 DEF ApplySnapshot, BooksKnown, SnapshotBook, BooksOK
  <2>3. /\ thread'[f].sym = thread[f].sym /\ thread'[f].snap = thread[f].snap
        /\ \A g \in Fetchers \ {f} : thread'[g] = thread[g]
    BY <1>0, <1>4, SMTT(60) DEF ApplySnapshot
  <2> QED BY <1>1, <1>2, <2>1, <2>2, <2>3
<1>5. CASE ReplayOne(f)
  <2>1. thread[f].sym \in Symbols /\ NextBuffered(f).last <= exLast[thread[f].sym]
    BY <1>0, <1>5, BufferedType DEF ReplayOne, Replaying, NextBuffered, BooksKnown
  <2>2. Updated(book[thread[f].sym], NextBuffered(f)).last <= exLast[thread[f].sym]
    BY <1>0, <2>1, UpdatedKnown DEF BooksKnown, BooksOK
  <2>3. BooksKnown' BY <1>0, <1>1, <1>5, <2>1, <2>2 DEF ReplayOne, BooksKnown, BooksOK
  <2>4. /\ thread'[f].sym = thread[f].sym /\ thread'[f].snap = thread[f].snap
        /\ thread[f].pc = "replay" /\ \A g \in Fetchers \ {f} : thread'[g] = thread[g]
    BY <1>0, <1>5 DEF ReplayOne, Replaying
  <2>5. thread[f].snap <= exLast[thread[f].sym] BY <2>4 DEF ThreadsKnown
  <2> QED BY <1>1, <1>2, <2>3, <2>4, <2>5, SMTT(60)
<1>6. CASE ReplayGap(f) \/ ReplayEnds(f)
  <2>1. BooksKnown'
    <3>1. UNCHANGED book BY <1>6 DEF ReplayGap, ReplayEnds
    <3>2. \A s \in Symbols :
            symbolBuffers'[s] = << >> \/ symbolBuffers'[s] = symbolBuffers[s]
      BY <1>0, <1>6 DEF ReplayGap, ReplayEnds, BooksOK
    <3> QED BY <1>1, <3>1, <3>2 DEF BooksKnown
  <2>2. ThreadsKnown' BY <1>0, <1>2, <1>6 DEF ReplayGap, ReplayEnds
  <2> QED BY <1>1, <2>1, <2>2
<1>7. CASE FetchFails(f) \/ RateWaitEnds(f) \/ ReplayThrows(f) \/ RetryLater(f) \/ Retry(f)
  <2>1. UNCHANGED <<book, symbolBuffers>>
    BY <1>7 DEF FetchFails, RateWaitEnds, ReplayThrows, RetryLater, Retry
  <2>2. thread'[f].pc \notin {"lock", "replay"} /\ \A g \in Fetchers \ {f} : thread'[g] = thread[g]
    BY <1>0, <1>7 DEF FetchFails, RateWaitEnds, ReplayThrows, RetryLater, Retry, Fetching
  <2> QED BY <1>1, <1>2, <2>1, <2>2 DEF BooksKnown
<1> QED BY <1>3, <1>4, <1>5, <1>6, <1>7 DEF FetchStep

\* The rest of the worker, and of start() and stop().
LEMMA FetchersKeepKnown ==
    ASSUME TypeOK, Known, WorkerStep \/ StarterStep PROVE Known'
<1> USE DEF Known, exchangeVars, bookVars, Goto, ThreadType, workerFrame, starterFrame
<1>0. /\ thread \in [Fetchers -> ThreadType] /\ Starter \in Fetchers /\ Worker \in Fetchers
      /\ \A s \in Symbols : exLast[s] \in Nat
  BY ConstantsType DEF TypeOK, ThreadsOK, ExchangeOK, Ids, Fetchers
<1>1. CASE FetchStep(Worker) \/ FetchStep(Starter) BY <1>0, <1>1, FetchKeepsKnown
<1>2. ASSUME UNCHANGED <<exLast, ws>>, StreamKnown', BooksKnown',
             \A f \in Fetchers :
                thread'[f] = thread[f] \/ thread'[f].pc \notin {"lock", "replay"}
      PROVE  Known'
  BY <1>2 DEF WsKnown, ThreadsKnown
<1>3. CASE StartBegins
  <2>1. StreamKnown' BY <1>3 DEF StartBegins, StreamKnown
  <2>2. BooksKnown' BY <1>0, <1>3 DEF StartBegins, BooksKnown, ClearedBook
  <2> QED BY <1>0, <1>2, <1>3, <2>1, <2>2 DEF StartBegins
<1>4. CASE ConnectTimesOut \/ StopEnds
  <2>1. StreamKnown' BY <1>4 DEF ConnectTimesOut, StopEnds, StreamKnown
  <2>2. BooksKnown' BY <1>4 DEF ConnectTimesOut, StopEnds, BooksKnown
  <2> QED BY <1>0, <1>2, <1>4, <2>1, <2>2 DEF ConnectTimesOut, StopEnds
<1>5. CASE WorkerTakes \/ WorkerSleeps \/ WorkerFetched \/ WorkerGivesUp \/ WorkerResumes
             \/ WorkerExits \/ StartConnected \/ StarterFetches \/ StarterFetched
             \/ StarterGivesUp \/ StartReturns
  <2>1. UNCHANGED <<exLast, stream, ws, book, symbolBuffers>>
    BY <1>5 DEF WorkerTakes, WorkerSleeps, WorkerFetched, WorkerGivesUp, WorkerResumes,
                WorkerExits, StartConnected, StarterFetches, StarterFetched, StarterGivesUp,
                StartReturns
  <2>2. \A f \in Fetchers :
          thread'[f] = thread[f] \/ thread'[f].pc \notin {"lock", "replay"}
    BY <1>0, <1>5
    DEF WorkerTakes, WorkerSleeps, WorkerFetched, WorkerGivesUp, WorkerResumes, WorkerExits,
        StartConnected, StarterFetches, StarterFetched, StarterGivesUp, StartReturns, Parked,
        Fetching
  <2>3. StreamKnown' /\ BooksKnown' BY <2>1 DEF StreamKnown, BooksKnown
  <2> QED BY <1>2, <2>1, <2>2, <2>3
<1> QED BY <1>1, <1>3, <1>4, <1>5 DEF WorkerStep, StarterStep

\* Both initial states know at most the first event.
LEMMA InitialKnown == (Init \/ InitRunning) => Known
<1>1. ASSUME Init \/ InitRunning
      PROVE  /\ stream = << >> /\ exLast = [s \in Symbols |-> 1]
             /\ \A s \in Symbols : symbolBuffers[s] = << >> /\ book[s].last \in {0, 1}
             /\ ws.pc = "idle"
             /\ \A f \in Fetchers : thread[f].pc \in {"off", "asleep", "running"}
  BY <1>1 DEF Init, InitRunning, Parked, IdleWs, ClearedBook, SnapshotBook
<1> QED BY <1>1 DEF Known, StreamKnown, BooksKnown, WsKnown, ThreadsKnown, HoldsMessage

\* Every step keeps all that is known behind the exchange.
LEMMA StepKeepsKnown ==
    ASSUME TypeOK, Known, [Next]_vars PROVE Known'
<1>1. CASE UNCHANGED vars
  BY <1>1 DEF vars, Known, StreamKnown, BooksKnown, WsKnown, ThreadsKnown
<1> QED
  BY <1>1, EnvironmentKeepsKnown, WsKeepsKnown, FetchersKeepKnown DEF Next

\* In a book that is in step, the number of the abstract copy is the update id.
LEMMA CopyIsLast ==
    ASSUME NEW b, BookInSync(b) PROVE Copy(b) = b.last
BY DEF BookInSync, Copy, ClearedBook

\* What the abstract feed sees of the state.
LEMMA AbstractBooks ==
    ASSUME TypeOK, InSync, Known
    PROVE  \A s \in Symbols :
              /\ Copy(book[s]) = book[s].last
              /\ book[s].last \in 0 .. exLast[s]
              /\ exLast[s] \in Nat /\ exLast[s] >= 1
<1> SUFFICES ASSUME NEW s \in Symbols
             PROVE  /\ Copy(book[s]) = book[s].last
                    /\ book[s].last \in 0 .. exLast[s]
                    /\ exLast[s] \in Nat /\ exLast[s] >= 1
  OBVIOUS
<1>1. Copy(book[s]) = book[s].last BY CopyIsLast DEF InSync
<1>2. exLast[s] \in Nat /\ exLast[s] >= 1 BY ConstantsType DEF TypeOK, ExchangeOK, Ids
<1>3. book[s].last \in Nat
  <2>1. book[s] \in BookType BY DEF TypeOK, BooksOK
  <2>2. book[s].last \in Ids \cup {0} BY <2>1 DEF BookType
  <2> QED BY <2>2, ConstantsType DEF Ids
<1>4. book[s].last <= exLast[s] BY DEF Known, BooksKnown
<1> QED BY <1>1, <1>2, <1>3, <1>4

\* Books that stay, or are cleared: the feed loses them.
LEMMA ClearingLoses ==
    ASSUME TypeOK, InSync, Known, UNCHANGED exLast,
           \A s \in Symbols : book'[s] = book[s] \/ book'[s] = ClearedBook
    PROVE  Promise!Loses
<1>1. Copy(ClearedBook) = 0 BY DEF Copy, ClearedBook
<1>2. \A s \in Symbols : Copy(book'[s]) \in {0, Copy(book[s])} BY <1>1
<1> QED BY <1>2 DEF Promise!Loses, Promise!Lost

\* One book put to a known event: the feed restores it.
LEMMA ReplacingRestores ==
    ASSUME TypeOK, InSync, Known, UNCHANGED exLast, InSync', NEW s \in Symbols, NEW b,
           book' = [book EXCEPT ![s] = b], b.last \in 1 .. exLast[s]
    PROVE  Promise!Restores(s)
<1>1. book'[s] = b /\ \A r \in Symbols \ {s} : book'[r] = book[r]
  BY DEF TypeOK, BooksOK
<1>2. Copy(book'[s]) = b.last BY <1>1, CopyIsLast DEF InSync
<1>3. [r \in Symbols |-> Copy(book'[r])]
        = [[r \in Symbols |-> Copy(book[r])] EXCEPT ![s] = Copy(book'[s])]
  <2>1. \A r \in Symbols \ {s} : Copy(book'[r]) = Copy(book[r])
    <3> SUFFICES ASSUME NEW r \in Symbols \ {s} PROVE Copy(book'[r]) = Copy(book[r])
      OBVIOUS
    <3>1. book'[r] = book[r] BY <1>1
    <3> QED BY <3>1
  <2> DEFINE now  == [r \in Symbols |-> Copy(book[r])]
             next == [r \in Symbols |-> Copy(book'[r])]
  <2>2. \A r \in Symbols \ {s} : next[r] = now[r] BY <2>1
  <2>3. next[s] = Copy(book'[s]) /\ DOMAIN next = Symbols /\ DOMAIN now = Symbols OBVIOUS
  <2> HIDE DEF now, next
  <2>4. next = [r \in Symbols |-> next[r]] /\ now = [r \in Symbols |-> now[r]]
    BY DEF next, now
  <2>5. next = [now EXCEPT ![s] = next[s]] BY <2>2, <2>3, <2>4
  <2> QED BY <2>3, <2>5 DEF now, next
<1> QED BY <1>1, <1>2, <1>3 DEF Promise!Restores

\* An update without a gap: the feed puts the book at its id, or does nothing.
LEMMA UpdatingRestores ==
    ASSUME TypeOK, InSync, Known, UNCHANGED exLast, InSync', NEW s \in Symbols, NEW u,
           book' = [book EXCEPT ![s] = Updated(@, u)], u.last \in 2 .. MaxId,
           u.last <= exLast[s]
    PROVE  Promise!Restores(s) \/ UNCHANGED book
<1>1. CASE Stale(book[s], u) BY <1>1 DEF Updated, TypeOK, BooksOK
<1>2. CASE ~Stale(book[s], u)
  <2>1. Updated(book[s], u).last = u.last
    BY <1>2 DEF Updated, TypeOK, BooksOK, BookType
  <2>2. u.last \in 1 .. exLast[s] BY AbstractBooks, ConstantsType
  <2> QED BY <2>1, <2>2, ReplacingRestores
<1> QED BY <1>1, <1>2

\* Every step is one of the abstract feed, or none.
LEMMA StepKeepsPromise ==
    ASSUME TypeOK, InSync, Known, [Next]_vars, InSync'
    PROVE  [Promise!Next]_(Promise!vars)
<1> USE DEF Promise!vars, Promise!Next
<1>1. ASSUME UNCHANGED <<book, exLast>> PROVE [Promise!Next]_(Promise!vars) BY <1>1
<1>2. ASSUME NEW f \in Fetchers, FetchStep(f) PROVE [Promise!Next]_(Promise!vars)
  <2>1. UNCHANGED exLast
    BY <1>2
    DEF FetchStep, FetchReply, FetchFails, RateWaitEnds, ApplySnapshot, ReplayOne, ReplayGap,
        ReplayThrows, ReplayEnds, RetryLater, Retry, fetchFrame, exchangeVars
  <2>2. CASE ApplySnapshot(f)
    <3>1. /\ thread[f].sym \in Symbols /\ thread[f].snap \in Nat /\ thread[f].snap >= 1
          /\ thread[f].snap <= exLast[thread[f].sym]
      BY <2>2, ConstantsType
      DEF ApplySnapshot, TypeOK, ThreadsOK, ThreadOK, FetchPcs, Known, ThreadsKnown, Ids
    <3>2. SnapshotBook(thread[f].snap).last = thread[f].snap BY DEF SnapshotBook
    <3>3. exLast[thread[f].sym] \in Nat BY <3>1, AbstractBooks
    <3> DEFINE b == SnapshotBook(thread[f].snap)
    <3>5. book' = [book EXCEPT ![thread[f].sym] = b] BY <2>2 DEF ApplySnapshot
    <3>6. b.last \in 1 .. exLast[thread[f].sym] BY <3>1, <3>2, <3>3
    <3> HIDE DEF b
    <3>4. Promise!Restores(thread[f].sym)
      BY <2>1, <3>1, <3>5, <3>6, ReplacingRestores
    <3> QED BY <3>1, <3>4
  <2>3. CASE ReplayOne(f)
    <3>1. /\ thread[f].sym \in Symbols /\ NextBuffered(f).last \in 2 .. MaxId
          /\ NextBuffered(f).last <= exLast[thread[f].sym]
      BY <2>3, BufferedType
      DEF ReplayOne, Replaying, NextBuffered, Known, BooksKnown, TypeOK
    <3>2. Promise!Restores(thread[f].sym) \/ UNCHANGED book
      BY <2>1, <2>3, <3>1, UpdatingRestores DEF ReplayOne
    <3> QED BY <1>1, <2>1, <3>1, <3>2, SMTT(60)
  <2>4. CASE ~ApplySnapshot(f) /\ ~ReplayOne(f)
    <3>1. UNCHANGED book
      BY <1>2, <2>4 DEF FetchStep, FetchReply, FetchFails, RateWaitEnds, ReplayGap,
                        ReplayThrows, ReplayEnds, RetryLater, Retry, bookVars
    <3> QED BY <1>1, <2>1, <3>1
  <2> QED BY <2>2, <2>3, <2>4
<1>3. CASE Environment
  <2>1. ASSUME NEW s \in Symbols, NEW last \in 2 .. MaxId, ExchangeUpdate(s, last)
        PROVE  Promise!ExchangeMoves(s)
    <3>1. exLast' = [exLast EXCEPT ![s] = last] /\ last > exLast[s] BY <2>1, ExchangeGrows
    <3>2. exLast'[s] = last BY <3>1 DEF TypeOK, ExchangeOK
    <3> QED BY <2>1, <3>1, <3>2 DEF Promise!ExchangeMoves, ExchangeUpdate, bookVars
  <2>2. CASE MessageSkipped \/ MessageMalformed \/ ConnectionLost \/ WatchdogReconnects
    BY <1>1, <2>2
    DEF MessageSkipped, MessageMalformed, ConnectionLost, WatchdogReconnects, bookVars
  <2> QED BY <1>3, <2>1, <2>2 DEF Environment
<1>4. CASE WsStep
  <2>1. UNCHANGED exLast
    BY <1>4
    DEF WsStep, FirstOpen, Reopen, ReopenClear, ReopenUnlive, ReopenQueue, Receive,
        BufferMessage, GoLive, DropMalformed, ApplyLive, GapFound, GapClear, GapUnlive,
        GapBuffer, GapQueue, Notify, wsFrame, queueFrame, exchangeVars
  <2>2. CASE ReopenClear \/ GapClear
    <3>1. \A s \in Symbols : book'[s] = book[s] \/ book'[s] = ClearedBook
      BY <2>2 DEF ReopenClear, GapClear, TypeOK, BooksOK
    <3> QED BY <2>1, <3>1, ClearingLoses
  <2>3. CASE ApplyLive
    <3>1. /\ ws.sym \in Symbols /\ ws.last \in 2 .. MaxId /\ ws.last <= exLast[ws.sym]
      BY <2>3, MessageType DEF ApplyLive, HoldsMessage, TypeOK, Known, WsKnown
    <3>2. Promise!Restores(ws.sym) \/ UNCHANGED book
      BY <2>1, <2>3, <3>1, UpdatingRestores DEF ApplyLive
    <3> QED BY <1>1, <2>1, <3>1, <3>2
  <2>4. CASE ~ReopenClear /\ ~GapClear /\ ~ApplyLive
    <3>1. UNCHANGED book
      BY <1>4, <2>4
      DEF WsStep, FirstOpen, Reopen, ReopenUnlive, ReopenQueue, Receive, BufferMessage,
          GoLive, DropMalformed, GapFound, GapUnlive, GapBuffer, GapQueue, Notify, bookVars
    <3> QED BY <1>1, <2>1, <3>1
  <2> QED BY <2>2, <2>3, <2>4
<1>5. CASE WorkerStep \/ StarterStep
  <2>1. CASE FetchStep(Worker) \/ FetchStep(Starter) BY <1>2, <2>1 DEF Fetchers
  <2>2. CASE StartBegins
    BY <2>2, ClearingLoses DEF StartBegins
  <2>3. CASE ~FetchStep(Worker) /\ ~FetchStep(Starter) /\ ~StartBegins
    <3>1. UNCHANGED <<book, exLast>>
      BY <1>5, <2>3
      DEF WorkerStep, WorkerTakes, WorkerSleeps, WorkerFetched, WorkerGivesUp, WorkerResumes,
          WorkerExits, workerFrame, StarterStep, ConnectTimesOut, StartConnected,
          StarterFetches, StarterFetched, StarterGivesUp, StartReturns, StopEnds,
          starterFrame, bookVars, exchangeVars
    <3> QED BY <1>1, <3>1
  <2> QED BY <2>1, <2>2, <2>3
<1>6. CASE UNCHANGED vars BY <1>1, <1>6 DEF vars
<1> QED BY <1>3, <1>4, <1>5, <1>6 DEF Next

\* Both initial states are initial states of the abstract feed.
LEMMA InitialPromise ==
    ASSUME Init \/ InitRunning PROVE Promise!Init
<1>1. exLast = [s \in Symbols |-> 1] BY DEF Init, InitRunning
<1>2. \A s \in Symbols : Copy(book[s]) \in {0, 1}
  <2>1. Copy(ClearedBook) = 0 BY DEF Copy, ClearedBook
  <2>2. Copy(SnapshotBook(1)) = 1 BY DEF Copy, SnapshotBook
  <2>3. \A s \in Symbols : book[s] = ClearedBook \/ book[s] = SnapshotBook(1)
    BY DEF Init, InitRunning
  <2> SUFFICES ASSUME NEW s \in Symbols PROVE Copy(book[s]) \in {0, 1}
    OBVIOUS
  <2>4. CASE book[s] = ClearedBook BY <2>1, <2>4
  <2>5. CASE book[s] = SnapshotBook(1) BY <2>2, <2>5
  <2> QED BY <2>3, <2>4, <2>5
<1> QED BY <1>1, <1>2 DEF Promise!Init, Promise!Lost

\* The Binance feed implements the promise: whatever the order in which the three
\* threads meet, a book is lost as a whole or stands at an event of the exchange, and
\* one step changes one book unless it loses them.
THEOREM FeedKeepsPromise == Spec \/ RunningSpec => KeepsPromise
<1>1. Init \/ InitRunning => TypeOK /\ InSync /\ Known /\ Promise!Init
  BY InitialType, InitialSync, InitialKnown, InitialPromise
<1>2. TypeOK /\ InSync /\ Known /\ [Next]_vars => (TypeOK /\ InSync /\ Known)'
  BY StepKeepsType, StepKeepsSync, StepKeepsKnown
<1>3. TypeOK /\ InSync /\ Known /\ [Next]_vars /\ InSync' => [Promise!Next]_(Promise!vars)
  BY StepKeepsPromise
<1> QED BY <1>1, <1>2, <1>3, PTL DEF Spec, RunningSpec, KeepsPromise, Promise!Spec
=============================================================================
