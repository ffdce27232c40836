------------------------------ MODULE OfiMetrics ------------------------------
(***************************************************************************)
(* The metrics of one symbol: what a feed does to them for an update, a gap *)
(* or a reconnect (src/src/binance_adapter.cpp, src/src/kraken_adapter.cpp), *)
(* the update callback that sums order-flow imbalance                       *)
(* (src/src/main.cpp:304-343), and a scrape that reads them one after the   *)
(* other meanwhile (src/src/prometheus_format.hpp).  The fields are         *)
(* atomics; every access to one is a step.  The lag of the last event,      *)
(* a gauge stored when an update is applied, is left out: no other metric   *)
(* and no decision of the program depends on it.                            *)
(***************************************************************************)
EXTENDS Arithmetic, SequencesExt

CONSTANTS
    BucketBounds,       \* kBucketBounds
    Timings,            \* bounds of the instance: processing times,
    Messages,           \*   deltas of an update, as sequences,
    MaxUpdates, MaxClears, MaxScrapes

\* A delta is [isBid, deltaQty, counts]: counts is what main.cpp:318 makes of its
\* kind and flags.
ASSUME MetricsAssumption ==
    /\ BucketBounds \in Seq(Nat) /\ Timings \subseteq Nat
    /\ \A i, j \in DOMAIN BucketBounds : i < j => BucketBounds[i] <= BucketBounds[j]
    /\ Messages \subseteq Seq([isBid : BOOLEAN, deltaQty : Word, counts : BOOLEAN])
    /\ {MaxUpdates, MaxClears, MaxScrapes} \subseteq Nat

VARIABLES
    exchange,               \* whose feed: binance or kraken
    applied,                \* the book has a snapshot
    msgCount, lastUpdateTimeMs, processingBuckets, processingUsSum, ofiAccumulator,
    feed,                   \* WebSocket thread: [pc, us, bucket, ofi, counts]
    scrape,                 \* the lines of the current or last scrape, in order
    observed,               \* history: processing times recorded
    sent,                   \* history: ofi_delta of every broadcast
    firstSent,              \* history: how many of them precede the last reset
    used                    \* counters behind the bounds

metricsVars == <<msgCount, lastUpdateTimeMs, processingBuckets, processingUsSum, ofiAccumulator>>
historyVars == <<observed, sent, firstSent>>
vars == <<exchange, applied, metricsVars, feed, scrape, historyVars, used>>

Inf     == Len(BucketBounds) + 1        \* the +Inf bucket
Buckets == 1 .. Inf

IdleFeed == [pc |-> "idle", us |-> 0, bucket |-> 1, ofi |-> 0, counts |-> FALSE]
FeedGoto(pc) == feed' = [feed EXCEPT !.pc = pc]

\* What a scrape reads, in its order: counters, age, histogram, sum, count, OFI.
Lines ==
    <<msgCount, lastUpdateTimeMs>> \o processingBuckets
        \o <<processingUsSum, processingBuckets[Inf], ofiAccumulator>>

Init ==
    /\ exchange \in {"binance", "kraken"}
    /\ applied = TRUE
    /\ msgCount = 0 /\ lastUpdateTimeMs = 0
    /\ processingBuckets = [i \in Buckets |-> 0] /\ processingUsSum = 0
    /\ ofiAccumulator = 0
    /\ feed = IdleFeed
    /\ scrape = Lines
    /\ observed = << >> /\ sent = << >> /\ firstSent = 0
    /\ used = [clears |-> 0, scrapes |-> 0]

-----------------------------------------------------------------------------
(* An update of a book that has its snapshot.                              *)

feedFrame == <<exchange, scrape, used>>

\* The update goes into the book ...
ApplyUpdate ==
    /\ feed.pc = "idle" /\ applied
    /\ Len(observed) < MaxUpdates
    /\ feed' = [IdleFeed EXCEPT !.pc = "applied"]
    /\ UNCHANGED <<applied, metricsVars, historyVars, feedFrame>>

\* ... and the message has been timed: recordProcessingUs adds to the sum first.
RecordSum(us) ==
    /\ feed.pc = "applied"
    /\ processingUsSum' = processingUsSum + us
    /\ observed' = Append(observed, us)
    /\ feed' = [IdleFeed EXCEPT !.pc = "record", !.us = us]
    /\ UNCHANGED <<applied, msgCount, lastUpdateTimeMs, processingBuckets, ofiAccumulator,
                   sent, firstSent, feedFrame>>

\* Mutant: a bound is not part of its bucket.
InBucketBelow(us, i) == i = Inf \/ us < BucketBounds[i]

InBucket(us, i) == i = Inf \/ us <= BucketBounds[i]

\* Then the buckets, in ascending order, and +Inf.
RecordBucket ==
    /\ feed.pc = "record"
    /\ processingBuckets' = [processingBuckets EXCEPT ![feed.bucket] =
          IF InBucket(feed.us, feed.bucket) THEN @ + 1 ELSE @]
    /\ feed' = IF feed.bucket = Inf THEN [feed EXCEPT !.pc = "count"]
               ELSE [feed EXCEPT !.bucket = @ + 1]
    /\ UNCHANGED <<applied, msgCount, lastUpdateTimeMs, processingUsSum, ofiAccumulator,
                   historyVars, feedFrame>>

CountMessage ==
    /\ feed.pc = "count"
    /\ msgCount' = msgCount + 1
    /\ FeedGoto("touch")
    /\ UNCHANGED <<applied, lastUpdateTimeMs, processingBuckets, processingUsSum,
                   ofiAccumulator, historyVars, feedFrame>>

\* Times are not told apart, only from 0, "no data yet".
TouchAge ==
    /\ feed.pc = "touch"
    /\ lastUpdateTimeMs' = 1
    /\ FeedGoto("callback")
    /\ UNCHANGED <<applied, msgCount, processingBuckets, processingUsSum, ofiAccumulator,
                   historyVars, feedFrame>>

-----------------------------------------------------------------------------
(* The update callback.                                                    *)

Added(ofi, d) ==
    IF ~d.counts THEN ofi
    ELSE IF d.isBid THEN checkedAdd(ofi, d.deltaQty)
    ELSE checkedSubtract(ofi, d.deltaQty)

OfiOf(deltas) == FoldLeft(Added, 0, deltas)

\* broadcastUpdate comes first.
Broadcast(deltas) ==
    /\ feed.pc = "callback"
    /\ sent' = Append(sent, OfiOf(deltas))
    /\ feed' = [feed EXCEPT !.pc = "accumulate", !.ofi = OfiOf(deltas),
                            !.counts = \E i \in DOMAIN deltas : deltas[i].counts]
    /\ UNCHANGED <<applied, metricsVars, observed, firstSent, feedFrame>>

\* Mutant: adds without saturating.
AccumulateUnchecked ==
    /\ feed.pc = "accumulate"
    /\ ofiAccumulator' = ofiAccumulator + feed.ofi
    /\ feed' = IdleFeed
    /\ UNCHANGED <<applied, msgCount, lastUpdateTimeMs, processingBuckets, processingUsSum,
                   historyVars, feedFrame>>

\* Mutant: stores in the place of adding.
AccumulateStores ==
    /\ feed.pc = "accumulate"
    /\ ofiAccumulator' = feed.ofi
    /\ feed' = IdleFeed
    /\ UNCHANGED <<applied, msgCount, lastUpdateTimeMs, processingBuckets, processingUsSum,
                   historyVars, feedFrame>>

\* The compare-and-swap loop: nobody else writes the accumulator of this symbol.
Accumulate ==
    /\ feed.pc = "accumulate"
    /\ ofiAccumulator' = IF feed.counts THEN checkedAdd(ofiAccumulator, feed.ofi)
                         ELSE ofiAccumulator
    /\ feed' = IdleFeed
    /\ UNCHANGED <<applied, msgCount, lastUpdateTimeMs, processingBuckets, processingUsSum,
                   historyVars, feedFrame>>

-----------------------------------------------------------------------------
(* A gap (Binance) or a reconnect: the book is cleared, then its metrics.   *)

ClearBook ==
    /\ feed.pc = "idle"
    /\ used.clears < MaxClears
    /\ used' = [used EXCEPT !.clears = @ + 1]
    /\ applied' = FALSE
    /\ FeedGoto("forgetAge")
    /\ UNCHANGED <<exchange, metricsVars, scrape, historyVars>>

\* Mutant: the age of a book that is gone stays.
KeepAge ==
    /\ feed.pc = "forgetAge"
    /\ FeedGoto(IF exchange = "binance" THEN "resetOfi" ELSE "idle")
    /\ UNCHANGED <<applied, metricsVars, historyVars, feedFrame>>

ForgetAge ==
    /\ feed.pc = "forgetAge"
    /\ lastUpdateTimeMs' = 0
    /\ FeedGoto(IF exchange = "binance" THEN "resetOfi" ELSE "idle")
    /\ UNCHANGED <<applied, msgCount, processingBuckets, processingUsSum, ofiAccumulator,
                   historyVars, feedFrame>>

\* Only the Binance feed does.
ResetOfi ==
    /\ feed.pc = "resetOfi"
    /\ ofiAccumulator' = 0
    /\ firstSent' = Len(sent)
    /\ feed' = IdleFeed
    /\ UNCHANGED <<applied, msgCount, lastUpdateTimeMs, processingBuckets, processingUsSum,
                   observed, sent, feedFrame>>

\* The resync worker of Binance applies a snapshot at any time ...
WorkerRestoresBook ==
    /\ exchange = "binance" /\ ~applied
    /\ applied' = TRUE
    /\ UNCHANGED <<metricsVars, feed, historyVars, feedFrame>>

\* ... on Kraken it is a message like others, and the age starts with it.
KrakenSnapshot ==
    /\ exchange = "kraken" /\ ~applied /\ feed.pc = "idle"
    /\ applied' = TRUE
    /\ FeedGoto("touchSnapshot")
    /\ UNCHANGED <<metricsVars, historyVars, feedFrame>>

TouchSnapshot ==
    /\ feed.pc = "touchSnapshot"
    /\ lastUpdateTimeMs' = 1
    /\ feed' = IdleFeed
    /\ UNCHANGED <<applied, msgCount, processingBuckets, processingUsSum, ofiAccumulator,
                   historyVars, feedFrame>>

FeedStep ==
    \/ ApplyUpdate
    \/ \E us \in Timings : RecordSum(us)
    \/ RecordBucket \/ CountMessage \/ TouchAge
    \/ \E deltas \in Messages : Broadcast(deltas)
    \/ Accumulate
    \/ ClearBook \/ ForgetAge \/ ResetOfi
    \/ WorkerRestoresBook \/ KrakenSnapshot \/ TouchSnapshot

-----------------------------------------------------------------------------
(* buildPrometheusOutput, in the thread of the metrics server.             *)

scrapeFrame == <<exchange, applied, metricsVars, feed, historyVars>>

ScrapeBegins ==
    /\ Len(scrape) = Len(Lines)
    /\ used.scrapes < MaxScrapes
    /\ used' = [used EXCEPT !.scrapes = @ + 1]
    /\ scrape' = << >>
    /\ UNCHANGED scrapeFrame

\* Mutant: reads the metrics the other way round.
ReadLineBackwards ==
    /\ Len(scrape) < Len(Lines)
    /\ scrape' = <<Lines[Len(Lines) - Len(scrape)]>> \o scrape
    /\ UNCHANGED <<used, scrapeFrame>>

ReadLine ==
    /\ Len(scrape) < Len(Lines)
    /\ scrape' = Append(scrape, Lines[Len(scrape) + 1])
    /\ UNCHANGED <<used, scrapeFrame>>

Next == FeedStep \/ ScrapeBegins \/ ReadLine

Spec == Init /\ [][Next]_vars

-----------------------------------------------------------------------------
FeedPcs == {"idle", "applied", "record", "count", "touch", "callback", "accumulate",
            "forgetAge", "resetOfi", "touchSnapshot"}

\* In particular, nothing the callback computes or stores leaves the word.
TypeOK ==
    /\ exchange \in {"binance", "kraken"} /\ applied \in BOOLEAN
    /\ msgCount \in 0 .. MaxUpdates /\ lastUpdateTimeMs \in {0, 1}
    /\ processingBuckets \in [Buckets -> 0 .. MaxUpdates] /\ processingUsSum \in Nat
    /\ ofiAccumulator \in Word
    /\ feed \in [pc : FeedPcs, us : Timings \cup {0}, bucket : Buckets, ofi : Word,
                counts : BOOLEAN]
    /\ scrape \in Seq(Int) /\ Len(scrape) <= Len(Lines)
    /\ observed \in Seq(Timings) /\ sent \in Seq(Word) /\ firstSent \in 0 .. Len(sent)

Plus(a, b)  == a + b
Sum(s)      == FoldLeft(Plus, 0, s)
First(s, n) == SubSeq(s, 1, n)

\* At rest, every bucket holds the number of observations up to its bound, and the
\* sum is theirs (metrics.hpp:21-22).
BucketsCountObservations ==
    feed.pc # "record" =>
        /\ \A i \in DOMAIN BucketBounds :
              processingBuckets[i] =
                  Cardinality({k \in DOMAIN observed : observed[k] <= BucketBounds[i]})
        /\ processingBuckets[Inf] = Len(observed)
        /\ processingUsSum = Sum(observed)

\* What a scrape read, if it is complete.
Scraped       == Len(scrape) = Len(Lines)
ReadBucket(i) == scrape[i + 2]
ReadMessages  == scrape[1]
ReadSum       == scrape[Inf + 3]
ReadCount     == scrape[Inf + 4]

\* Though other updates are recorded while it goes on, a scrape has buckets that are
\* cumulative but for the one observation that was under way at each, a sum that
\* covers what its buckets count, no message that is not counted, and a total not
\* below its last bucket: sums are recorded first and messages last, and read in the
\* opposite order (metrics.hpp:29-36, prometheus_format.hpp:161-218).
ScrapeIsConsistent ==
    Scraped =>
        /\ \A i, j \in Buckets : i < j => ReadBucket(i) <= ReadBucket(j) + 1
        /\ ReadMessages <= ReadBucket(Inf) /\ ReadBucket(Inf) <= ReadCount
        /\ Sum(First(observed, ReadBucket(Inf))) <= ReadSum

\* No partial sum leaves the word.
Fits(s) == \A n \in DOMAIN s : Sum(First(s, n)) \in Word

SentSinceReset == SubSeq(sent, firstSent + 1, Len(sent))

\* The accumulator is the sum of what subscribers were sent since it was last reset,
\* but for the message whose callback is under way (main.cpp:325-341).
AccumulatorIsSent ==
    LET counted == IF feed.pc = "accumulate" THEN Front(SentSinceReset) ELSE SentSinceReset
    IN  Fits(counted) => ofiAccumulator = Sum(counted)

\* A symbol has a data age only while it has a book, whenever its feed is at rest
\* (metrics.hpp:8-9), although the book may be restored by another thread meanwhile.
AgeOnlyWithBook == feed.pc = "idle" /\ lastUpdateTimeMs # 0 => applied
=============================================================================
