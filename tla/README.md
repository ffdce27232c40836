# A TLA+ model of LOB

LOB keeps live limit order books of Binance and Kraken symbols, derives order-flow
imbalance (OFI) events from their updates, streams both to WebSocket subscribers
and exports metrics to Prometheus. These modules model the code under `src/src/`,
TLC checks them on small instances, and TLAPS proves most of the results for every
instance. Paths below are relative to `src/src/` unless they say otherwise.

## The system

| Part | State | Operations | Correct when |
|---|---|---|---|
| **PriceLadder** `price_ladder.*` | array of quantities over a moving window of prices; count and best indices kept incrementally | `set`, `clear`, `get`, best, next and previous level | indices describe the array; it is the map of the prices in the window |
| **OrderBook** `order_book.*`, `ofi_types.hpp` | two ladders, two OFI views (best N levels), last update id, "snapshot applied"; one mutex | `applySnapshot`, `applyUpdate`, `applyDelta`, `clear`, `getSnapshot`, `getStats` | the views are the top of the ladders; deltas account for their changes |
| **Binance feed** `binance_adapter.*` | books, `liveReady`, one buffer per symbol (`bufferMutex`), resync queue (`resyncMutex`, `resyncCv`), threads | WebSocket handler, `fetchAndApplySnapshot`, `runResyncWorker`, `start`, `stop` | a book reflects every update up to its id; a lost book comes back |
| **Watchdogs** both adapters | time of the last message, 0 = not connected | restart the socket after 2 s of silence | a dead connection is noticed and replaced |
| **Kraken feed** `kraken_adapter.*` | pending snapshots, subscribe error, connected; two mutexes | snapshot, delta, subscribe and its rejection, reconnect, `start`, `stop` | `start` ends, and returns true only with books; deltas follow a snapshot of their own connection |
| **Subscriber server** `subscriber_server.hpp`, `subscriber_protocol.hpp` | clients and their streams, a number per stream (`mu_`), counters | connect, subscribe, unsubscribe, broadcast, backpressure, close | a client that follows the protocol holds a copy of the book |
| **Update callback** `main.cpp:304-343` | OFI accumulator per symbol | sums OFI deltas, broadcasts, accumulates | the accumulator is the sum of the deltas sent |
| **Metrics** `metrics.hpp`, `metrics_server.hpp`, `prometheus_format.hpp` | atomics; histogram | record, scrape | a scrape is consistent enough to be a histogram |
| **Arithmetic** `decimal.hpp`, `safe_arithmetic.hpp`, `utils/checked_arith.hpp` | none | parse, saturate | no wrap-around; parse and format agree |
| **Symbol names** `symbol_normalizer.hpp`, `*_utils.hpp` | maps of names | convert | no two symbols share a name |
| **Startup** `main.cpp` | runtimes | configuration, retries of `start`, giving up, stopping | all adapters run, or none; nothing runs when main has left |

How they interact. An adapter's WebSocket thread applies each message to an
OrderBook and, with the book's lock released, calls the update callback, which
broadcasts to subscribers and accumulates OFI. The Binance resync worker and the
thread in `start()` fetch snapshots over HTTP, put them in the same books and replay
the buffered messages; they meet the WebSocket thread in the buffers, the resync
queue and the books. Each subscriber has a connection thread that reads a book under
`mu_` and sends its snapshot; broadcasts of several exchanges run at the same time.
The Prometheus thread reads books and metrics at any time. Each adapter has a watchdog
thread that stops and restarts its socket; main starts the adapters one after the
other, and when one will not start it stops those that have.

What is hard: steps that release a lock half way through a decision (`liveReady`
read without the lock, a book cleared outside it, a snapshot sent after it); the same
symbol queued or fetched twice; a condition variable shared by waits of two kinds;
lost, late and malformed messages; a window that moves under a view; counts and
indices kept by difference. Every such place is a hazard in `PROJECT.json`, with the
properties that would catch it.

## The modules

Built bottom up; `MC*` modules give values to the constants, one `.cfg` per question.

**PriceLadder** — operators. A ladder is a record of the class's fields, and `set`,
`clear`, `recenter`, `initCenter`, `rebuildBestIndices` and the queries are functions
of it. C++ division truncates where `\div` rounds down; the two agree wherever the code
divides: prices are positive, `toIdx` is only reached with prices not below the base,
and two bases differ by a whole number of ticks (a base may itself be negative, as in
the code: nothing clamps it). `set`
updates `count`, `bestHighIdx` and `bestLowIdx` as the code does and not from the
array. No overflow is modelled here.

**LadderMachine** — one ladder under any sequence of `SetLevel` and `ClearAll`;
checks PriceLadder against searches of the array, and against **PriceWindow**, the
promise: a map from prices to quantities that forgets what lies outside a window
centred on the last price that was out of reach. The refinement maps the array to the
map of its non-zero slots.

**OrderBook** — the state of the class, plus `result`, what the last call returned to
its caller. All methods hold `orderBookMutex` throughout, so each is one action.
`applyLevelChange` is the fold step over the levels of a message: deep levels
dropped, window moved and view rebuilt, view updated, deltas emitted in the code's
order. JSON is parsed before; levels are pairs. The variable `feed`, which never
changes, selects the callers: Binance (numbered, asks first) or Kraken (plain deltas
after a snapshot, bids first).

**BinanceFeed** — the concurrent core. A book is `[applied, last, content]` where
`content` is history: the exchange events it reflects. Three threads, each with a
`pc`: `ws` (`handleWsMessage`), `thread["worker"]` (`runResyncWorker`) and
`thread["starter"]` (`start()`, and the destructive part of a failed one). An action
is what happens between two points at which another thread can interfere: a block
under a mutex is one action, the reads and writes outside of locks are one each.
`bufferMutex` is held by a fetcher over a whole replay, so it is a variable, and
the slow path waits for it while the fast path does not. `notify_one` picks any waiter;
`start()` and the fetches wait on the same `resyncCv` with timeouts and are waiters
too. The exchange numbers events; a message carries up to `MaxBatch` of them; it may
be lost, malformed or cut off by a lost connection; a snapshot may be up to `RestLag`
events old. The `Open` event and messages pass through one FIFO. `gaveUp` is history: the
worker has used up its attempts for a symbol since a gap or a reconnect last asked for it.
It calls such a symbol "dead until restart" (binance_adapter.cpp:422), but the next
reconnect revives it, and the properties hold the code to that.

**SubscriberServer** — feeds (one thread per exchange), connections (one per client)
and the client's own copy. A feed applies an update, numbers it and collects targets
(one lock), sends to each or closes it, removes the slow ones (one lock). A
connection captures snapshot, number and subscription (one lock) and sends
the snapshot afterwards. The client keeps updates aside from its request to the
snapshot and then applies those with a greater number, as the comments tell it to.
Here a book is a function from prices to quantities: updates change it, snapshots of
the exchange replace it without a word to subscribers, a moving window drops levels
silently (OrderBook shows when). `told` is history: the prices that updates have named
since the book was last replaced or cleared and the window has not dropped since.

**Connection** — a socket of the library and the watchdog over it, the same code in
both adapters. The WebSocket thread takes one event at a time from `stream`; time is
what the watchdog makes of it, a last activity that is `"recent"`, `"old"` or
`"never"` (0). The watchdog's read, its store of 0, `stop()` and `start()` are four
steps, so that a message can come between any two. `stop()` waits for the WebSocket
thread to be idle.

**KrakenFeed** — extends Connection with the adapter and the exchange: an exchange that
accepts a subscription with a snapshot or refuses it, with or without naming the
symbol, and sends every event without a number; a handler whose steps are the blocks
between its locks; `start()` with its two waits and their ways out; `stop()`. The two
mutexes are not variables: only the ways out hold one across a step, and
`WsReadyMutexFree` and `SnapshotMutexFree` say so. A book is `[applied, content]`;
`missed` is history, the messages for it that threw.

**Startup** — main over a KrakenFeed and a Binance adapter reduced to whether it runs:
starting in the order of the configuration, attempts, giving up, serving, stopping.

**FeedPromise** — what a feed promises: the copy of a symbol is lost as a whole, or is
the exchange's book as of one of its events, and moves forward unless `MayGoBack`.
KrakenFeed implements it without going back, BinanceFeed with (two fetches of a
symbol may cross; the older snapshot then replaces the newer book, and the next update
is a gap). The refinement maps a book to the number of its last event, and a book that
is no prefix of the events to a value no step of the promise reaches.

**Arithmetic**, **Decimal** — pure operators over a word, a base and a number of places
that are constants: saturating and throwing arithmetic, `parseDecimal`,
`formatScaled`. The table of powers of ten is a recursive function, `Power`. A thrown exception is the value `Thrown`, which is no word. The reference
for parsing cuts a text into sign, digits, point and digits, and adds up the weights
of the digits. **Conversions** makes their inputs states: two operands, or a text that
arrives character by character.

**OfiMetrics** — the metrics of one symbol. Every access to an atomic is a step of the
feed (an update: book, histogram, counter, age, callback; a gap or reconnect: book, age,
sum) or of a scrape, which reads them in the order in which it prints them. The lag of the
last event, a gauge on which nothing else depends, is left out. `observed` and `sent` are
history. The loads and stores are relaxed in the code and sequentially
consistent here.

**PriceLadder_proofs** (with LadderMachine), **OrderBook_proofs**,
**BinanceFeed_proofs**, **Startup_proofs** (with Connection and KrakenFeed),
**SubscriberServer_proofs**, **OfiMetrics_proofs**, **Arithmetic_proofs** — the proofs
about these modules. **Folding_proofs** — what a fold or a recursive function computes
after n steps, by induction on the steps; all but the proofs about the feeds and main
build on it.

Definitions that begin with `\* Mutant:` are plausible bugs: each replaces one
definition in a run that must then fail.

## The runs

| Run | Question | Bounds |
|---|---|---|
| `ladder` | do the incremental indices and queries equal a search, and is the ladder its abstract window? | 5 slots; prices in, on and far beyond the window, quantities 0..2 |
| `book` | views, deltas and flags of both kinds of book: stale, consecutive, gap, clear, replay, several levels a message | 3 slots, view of 2; Kraken: up to two bid levels and one ask level a message; Binance: one ask level, prices 1..5, quantities 0..2, ids to 3 |
| `feed_start` | type, sync, buffers, live updates and replays, and the end of `start()` from a cold start, with a failed one and a second | 4 events in messages of 1 or 2, 1 loss, 1 malformed message, 1 reconnect, 3 HTTP errors |
| `feed_running` | recovery of two symbols, given up before a reconnect or not, and the promise of a feed | 3 events each, 1 loss, 1 malformed message, 1 reconnect, 2 HTTP errors |
| `feed_poison` † | can a live update change a book in the middle of a replay? | 1 symbol, 4 events, 1 malformed message |
| `feed_wakeup` † | does every lost book come back, during `start()` too? | one symbol |
| `kraken` | books across reconnects, what `start()` returns, recovery, the end of main, the promise of a feed | 2 symbols, 2 events each, 1 stall or death, 1 failed connection, 1 malformed message, 1 rejection, 2 attempts, both orders of the adapters |
| `kraken_deaf` † | does a dead connection open again? | 1 symbol, 1 death, 1 failed connection |
| `kraken_hangs` † | does `start()` end? | 1 symbol, no failure but a wait that times out |
| `subscribers` | is a client's copy the book, do its stale levels heal, and is nothing of a client left behind? | 1 client, 1 book, 3 updates, 1 snapshot, 3 requests |
| `metrics` | histogram, age and sum against a scrape and against what was sent | 3 updates, 1 clear, 1 scrape, two buckets, words of -16..15 |
| `conversions` | is all of arithmetic and decimals exact: every operation, parsing and formatting? | all pairs of words of -16..15; base 2 with 2 places, all texts to 6 characters |

† expected violation: the run contradicts a line of the repository, quoted in
`PROJECT.json` under `findings`.

Why the bounds are enough. A window of three slots with a view of two makes every
level change able to insert, evict, refill, be deep or move the window; five slots
give the ladder an inside, two edges and an overlap when it moves by less than its
width. In the feed a gap needs one lost message; that a snapshot is older than the
buffer, than the book, or behind a gap needs a lag of one and ids to four; a full
buffer needs a cap of two; two attempts tell a retry from giving up, and two failed requests use them up
before a reconnect; one reconnect and one loss give duplicate queue entries during a fetch. What holds of a longer run
(every invariant of the feed) is proved without bounds. Update ids start at 2:
then a cleared book, whose id is 0, takes no update without a snapshot, as with
the real, huge ids. (With ids from 1, `applyUpdate` would accept the first update on a
cleared book: the code relies on the exchange here, and so does the proof.) For
subscribers, three updates cover one before, between and after the two steps of a
subscription, and three requests cover subscribe, again and unsubscribe. For Kraken, one
stall gives a reconnection, with messages of the old connection still in hand or cut
off; one failed connection makes an attempt of `start()` or one of the watchdog
fail; two attempts tell a retry from giving up; the second symbol is there to be
rejected while the first is not. The words of `metrics` are small enough for three
sums to pass both ends; in `conversions`, in base 2, every text of a sign, three digits, a point
and more digits than there are places fits into six characters, and neither the code
nor the reference looks at the base.

The bounded instances end when their budget is used, and clients may all have
left: so `CHECK_DEADLOCK FALSE` in the feeds and the server. The ladder and the book
always have a next step.

Fairness. In the Binance runs: weak fairness of each thread's steps. The threads are
ordinary OS threads, their locks are held for bounded blocks, and their timed waits
end; that is all the code relies on. Nothing is assumed of the exchange, the network
or which waiter `notify_one` wakes: in `feed_running` the worker is the only waiter
left, in `feed_wakeup` it is not, and that is the finding. In the Kraken runs
`CodeFairness` is the same for main, the adapter's three threads and for the two
seconds that pass on a connection that is gone. `OutsideFairness` is what the
properties need of the world: an attempt to connect succeeds or fails, and Kraken
accepts or rejects what it was asked for. Without it nothing could come back, whatever
the code did. A live connection that is silent for two seconds, or one that takes as
long to open, is restarted by the watchdog; it counts against `MaxStalls`, since a
network that does so for ever keeps the feed down for ever.

## What the checks show

*Holds.* The incremental bookkeeping of the ladder. The views are the top of the
book, whatever is evicted, refilled, recentred or dropped; as long as the window stays
put, the deltas are exactly the changes of view and book. A Binance book is never
missing an update, for any interleaving of gap, reconnect, duplicate fetch, replay and
overflow. A symbol without a book is always in somebody's hands until the worker has used
up its attempts, and after `start()` comes back; a reconnect takes up again those that
were given up. `start()` ends, its worker included. A Kraken book never mixes two
connections, lacks exactly the messages that could not be parsed, and comes back after
a reconnection. `start()` of Kraken returns true only when every symbol has its book
or was rejected by name. Stopping joins the watchdog before the socket, so that nothing
of an adapter runs when main has left. A subscriber that follows the protocol has every
numbered update, and its copy is the book until the book has a new snapshot; what is
stale in it from then on is right again, level by level, with the next update that names
the level.
Subscribing, unsubscribing, Close and removal for backpressure leave no entry behind. A
scrape is off by at most the one observation under way at each bucket. The accumulator
is the saturating sum of what was sent since its last reset. Decimals are read and
written exactly, to both ends of the word.

*Does not.*
- A notification swallowed by `start()` leaves a symbol queued with the worker asleep
  (`feed_wakeup`).
- A buffered message that cannot be parsed ends a replay with the snapshot applied and
  the buffer as it is (binance_adapter.cpp:131). Live updates then take the path without
  a lock, and the retry replays the buffer over the same book meanwhile
  (`feed_poison`), which holding `bufferMutex` is meant to rule out
  (binance_adapter.cpp:112-114). Without such a message it cannot happen, and that is
  proved.
- A watchdog whose one reconnection fails never tries again (`kraken_deaf`): it has
  zeroed the timestamp it goes by. The books stay as they were and are served.
- `start()` of Kraken closes the socket while it holds the mutex that the WebSocket
  thread may be waiting for (`kraken_hangs`); the Binance adapter unlocks first.

*Seen, and not kept as runs* (each takes one change of a constant or one formula to
see again):
- A stopping resync worker still takes a queued symbol: `wait(lock, stoken, pred)`
  returns `pred()`, where binance_adapter.cpp:392 says it returns false.
- `liveReady` may stand over a cleared book, against metrics.hpp:15-17: a gap clears the
  book outside `bufferMutex` and lowers the flag afterwards (binance_adapter.cpp:339-344),
  and a fetch that ends in between raises it again. Harmless for sync, because
  `applyUpdate` then finds a gap and queues the symbol again.
- Every book has a tick of $0.01 (main.cpp:269), and prices of a finer grid share a slot:
  price_ladder.hpp:9 asks for multiples of the tick and nobody checks.
- When an update moves the window, `wasInView` is computed from the rebuilt view, with
  the new level in it (order_book.cpp:152 against ofi_types.hpp:15).
- A subscriber's snapshot is sent after the lock is released, so an update behind it
  may come first (subscriber_server.hpp:265-269, 303).
- With two exchanges, both feeds can find a client slow and count it, though it is
  disconnected once (subscriber_server.hpp:187).
- A subscriber's snapshot may show an update and bear the number of the one before
  (subscriber_protocol.hpp:156 says it is the last one reflected): the feed updates the
  book before it numbers the update. Levels are absolute, so the copy survives.
- For an exchange in `Workers`, as Binance is, `CopyHasEveryLevel` would fail without the
  exception it makes: update applied, queued snapshot applied by the worker, client
  subscribes, update broadcast, and the client overwrites a level of the snapshot with
  an older quantity. `StaleLevelsHeal` needs no such exception: it is proved for any
  `Workers`, though the run has none.
- A gap or reconnect of Binance sets the exported sum of OFI back to 0
  (binance_adapter.cpp:343), which prometheus_format.hpp:234 calls "Cumulative Order Flow
  Imbalance since process start" and main.cpp:326 recommends for a cross-check with the
  deltas a subscriber has added up; Kraken never resets it, and no scrape does
  either, whatever metrics.hpp:10-12 says.
- The buckets of a scrape need not be cumulative, nor `_count` equal to the `+Inf`
  bucket: the exact forms of `ScrapeIsConsistent` fail.

*Worth knowing.* A resync, and levels dropped by a moving window, are not announced to
subscribers: their copies stay stale without a gap in the numbers, each level until an
update names it (`StaleLevelsHeal`). A client that
subscribes while its book is down never gets a snapshot; nor does one of a symbol that
Kraken rejected by name, though main.cpp:374 finds all books populated. These are
hazards rather than findings, since no comment promises otherwise to subscribers.

## What is proved

For every value of the constants, from the assumptions named in the modules that declare
them. Each theorem follows from an inductive invariant, which adds to the property what
makes it survive a step. The proof of a step has a case per
action and, under it, a step per conjunct the action can disturb; operators have lemmas of
their own. What a fold or a recursive function computes is proved in Folding_proofs: the
induction theorems of the library take an operator as argument, which the provers cannot
instantiate, so its lemmas speak of the set of numbers of steps at which a claim holds, and
look at the least one missing from it.

**Ladder** (PriceLadder_proofs). `LadderTypeCorrect`, `LadderStaysConsistent` and
`QueriesAreExact` hold for any price, on the grid or off it. The invariant,
`LadderInvariant`, says that the count is the number of active slots, that the best
indices are the last and first of them, and that a ladder without a centre is blank:
without the blankness `initCenter`, which does not look at the array, would break the
rest. Lemmas follow the code: what one write does to count, high and low; what
`rebuildBestIndices` establishes; that a recentred window holds its price.
`LadderImplementsWindow` is the refinement of PriceWindow: an array shifted by slots is a
map whose window moved. It assumes that prices are multiples of the tick, which
price_ladder.hpp:9 asks for: off the grid two prices share a slot, and no map of prices
describes that.

**OrderBook** (OrderBook_proofs). `TypeCorrect`, `ClearedBooksAreEmpty` and, on the grid
(`BookOnGrid`), `ViewsAreTops`. The invariant `BookInvariant` asks of each side
(`SideOK`) a ladder with its invariant, a view no deeper than `OfiDepth`, ordered, over
prices of the ladder and, on the grid, its top. The lemmas go from one level to a
message: what each of the four changes of a view (erase with refill, amend, insert with
eviction, leave alone) makes of the top of a ladder that has changed at one price;
that the walk from the best level outwards finds the top; that one level change, deep
levels and moved windows included, keeps `SideOK`; that the fold over a message does,
and leaves the other side alone. A cleared book stays empty because its id is 0 and
messages are numbered from 2. Assumed: the lists of a message are sequences of
positive prices and natural quantities.

`DeltasAccountForView`, `PatchedCopyIsBook` and `FlagsAreRight`, on the grid too, are
three readings of one lemma, `UpdateIsTold`: a reader who knew a side before an update
knows it after its deltas, unless the window of the side moved. It goes the same way
from a level to a message. A change of the view explains itself (`Explained`): beyond the
price itself it moves at most one level, and reports that one, which is on the ladder and
was on the other side of the edge; so reading the one to two deltas of a change keeps the
reader's knowledge (`AddedIsHeard`), the fold over a message does, and the other
side's deltas are none of the reader's business.

**Binance feed** (BinanceFeed_proofs), for any symbols and bounds, from a cold start or
a running feed.
* `FeedTypeCorrect`: `TypeOK` is where the threads come in. It says what each `pc` implies
  for what the thread holds, and that the one replaying owns the mutex.
* `BooksStayInSync`: `InSync` is inductive relative to it. A book without a snapshot is
  the cleared one (so no update continues it), every other is changed only by
  `Updated` behind `~Gap`.
* `NoSymbolIsForgotten`: `NeverOrphaned` is not inductive, since `start()` hands symbols
  over one by one before `Running`: `TendedSinceStart` adds that every symbol is tended or
  still on the list `start()` has yet to fetch, or that `start()` has failed.
* `BuffersAreReplayed`, `LiveUpdatesSpareReplays`: both follow from `BufferInv`, what a
  raised `liveReady`, a snapshot, a replay and the place of the WebSocket thread say about
  the buffer of a symbol. The second is an action property: the fast path takes no lock,
  but while it is open for a symbol nobody holds messages back for it, unless one that
  cannot be parsed is among them.
* `FeedKeepsPromise`: each step is one of FeedPromise or leaves the copies alone. With
  `InSync` this takes that nothing on the way to a book is ahead of the exchange
  (`Known`).

**Kraken feed and main** (Startup_proofs), on the composed specification, so that the
proofs cover main, the adapter's threads and the watchdog together. `TypeCorrect`
contains what makes the rest work: which places of which thread hold a mutex, and that
`stop()` of a socket returns with the WebSocket thread idle. `BooksInSync` and
`BooksCaughtUp`: what a book has, what is in hand and what the stream still holds follow
on each other and end with the last event of the exchange (`ChainInv`). `StartReturnsWithBooks`: a pending snapshot is
struck off only with its book. `MainLeavesNothing`: on each way out, which of the
started adapters are still to be stopped, and in which order their parts end.
`FeedKeepsPromise`: the refinement of FeedPromise, without going back.

**Subscribers** (SubscriberServer_proofs), for finite sets of clients and exchanges.
`UpdatesReachClients` counts: the last number a client has, the messages under way to it
and the ones it set aside are the numbers of the stream without a hole (`Counted`).
`CopiesAreFaithful`: for a client that keeps to the protocol, the copy, patched with
what is under way, is the book (`Copy`), wherever the client stands: before the capture of
its snapshot, between capture and sending, with updates set aside, or live. It needs
that a late update is older than the captured number and is dropped. `StaleCopiesHeal`
says the same of any copy at the prices that updates have named (`Heals`): there the
update in the feed's hands is still in the book (`ChangeInBook`), whatever a worker has
put elsewhere. `ClientsAreForgotten`:
each place of a connection or a feed that still names a client says what it will do to the
tables.

**Metrics** (OfiMetrics_proofs). `HistogramIsExact`, `ScrapesAreConsistent`,
`AccumulatorFollowsBroadcasts`, `AgesFollowBooks`, `TypeCorrect`. For the histogram the
invariant says which buckets the feed has already counted (`Reached`); for a scrape,
that every line it has read lies between the number of observations when it was read
and now (`Shown`). Sums of histories are folds, from Folding_proofs. Assumed: the bounds
ascend (metrics.hpp:23).

**Arithmetic** (Arithmetic_proofs). `SaturationIsNearest` and `OverflowAlwaysThrows`, for
every width of the word. Sums are linear arithmetic. For the product the lemmas bound a
truncated quotient (`QuotientBounds`) and show that the code's test by division is the
test of the product (`MultiplyTestIsExact`). Assumed: the largest word is positive.

`ReadingExactly` and `PrintingExactly`, for texts of any length, every base and every
number of places. Assumed: the base is at least 2, and the power by which everything is
scaled is a word. The provers know no law of exponents; the few that are needed
(`PowerUnfolds`, `PowerGrows`, `PowerOfSum`) are proved by induction.
* Reading. What digits are worth and what a number means are both folds, unfolded one
  digit at a time; both become V(int) * SCALE + V(frac) * Base^(Places - |frac|)
  (`DigitsConcatenated`, `WeightOfNumber`). However a text can be cut into a number, it is
  read as the weight of the pieces (`NumberIsRead`), so that the cut need not be unique;
  and what is read at all can be cut (`ReadIsNumber`). The code checks for overflow
  before the fraction is added: `ScaledSum` shows that a step which throws does so only
  when the whole is no word, at both ends, because the fraction never leads back.
* Printing. The digits of a quotient and a remainder by powers are worth what was divided
  (`DigitsOfNumber`), the zeros trimmed off the end of a fraction change nothing
  (`TrimmedRow`), and what is left is a number, so that reading applies.

Only model-checked:
* liveness (`StartEnds`, `BookComesBack`, `StallForcesReconnect`): like everything about
  ENABLED, out of the prover's reach.

## What is not modelled

- Symbol names: conversions of strings without state, ahead of anything the models tell
  apart. The Binance feed looks a stream up in a map made with the same conversion when
  it started (binance_adapter.cpp:473, 224), so that the guess at a quote in `toCanonical`
  is not used there; the Kraken feed exchanges a separator.
- The configuration file, the HTTP server of the metrics, the text formats (JSON,
  Prometheus), printing and the building of URLs: input and output.
- Kraken's conversion of levels from doubles: binary fractions are out of TLC's reach.
- Levels that are too short in a message of Binance. Without a buffer to pass through, such
  a level is skipped and the rest of the update applied (binance_adapter.cpp:314-327); a
  malformed message of BinanceFeed is one that throws, wherever it is read.
- `stop()` of the Binance adapter and of the subscriber server at the end of the
  process; main only gets there when a start has failed.
- The recorder, the replayer, tests, dashboards and deployment files.

## Plan

Done: PriceLadder, OrderBook, BinanceFeed, SubscriberServer, Connection, KrakenFeed,
Startup, FeedPromise, Arithmetic, Decimal, OfiMetrics.

Proved: every invariant and action property of the passing runs, the refinements included.
Liveness stays with TLC.
