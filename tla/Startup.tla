------------------------------- MODULE Startup -------------------------------
(***************************************************************************)
(* The main thread (src/src/main.cpp:345-407) over the Kraken feed: it      *)
(* starts the adapters in the order of the configuration, each with a few  *)
(* attempts, opens the subscriber server, and stops every adapter before it *)
(* leaves for want of one.  The Binance adapter, whose feed is the subject  *)
(* of BinanceFeed, is reduced to whether it runs.                          *)
(***************************************************************************)
EXTENDS KrakenFeed, SequencesExt

CONSTANTS
    Configurations,     \* set of sequences of adapters
    MaxStartAttempts    \* kMaxStartAttempts

Kraken   == "kraken"
Binance  == "binance"
Adapters == {Kraken, Binance}

\* An exchange that appears twice is an error of the configuration.
ASSUME StartupAssumption ==
    /\ Configurations \subseteq Seq(Adapters)
    /\ \A c \in Configurations : \A i, j \in DOMAIN c : i # j => c[i] # c[j]
    /\ MaxStartAttempts \in Nat \ {0}

VARIABLES
    runtimes,       \* the configuration
    main,           \* [pc, i, attempt]: i is the adapter being started
    toStop,         \* adapters main is about to stop
    binance         \* off, starting or running

startupVars == <<runtimes, main, toStop, binance>>
vars == <<connectionVars, serverVars, feedVars, starter, startupVars>>

Init ==
    /\ KrakenInit
    /\ runtimes \in Configurations
    /\ main = [pc |-> "start", i |-> 1, attempt |-> 1]
    /\ toStop = << >>
    /\ binance = "off"

MainGoto(pc) == main' = [main EXCEPT !.pc = pc]
Starting(a)  == main.pc = "starting" /\ runtimes[main.i] = a

CallsStart ==
    /\ main.pc = "start" /\ main.i <= Len(runtimes)
    /\ MainGoto("starting")
    /\ IF runtimes[main.i] = Kraken
       THEN StartBegins /\ UNCHANGED binance
       ELSE binance' = "starting" /\ UNCHANGED krakenVars
    /\ UNCHANGED <<runtimes, toStop>>

\* The Binance adapter's start(): it cleans up when it fails.
BinanceStarts ==
    /\ Starting(Binance)
    /\ \/ binance' = "running" /\ main' = [pc |-> "start", i |-> main.i + 1, attempt |-> 1]
       \/ binance' = "off" /\ MainGoto("backoff")
    /\ UNCHANGED <<krakenVars, runtimes, toStop>>

KrakenStarted ==
    /\ Starting(Kraken) /\ starter = "started"
    /\ main' = [pc |-> "start", i |-> main.i + 1, attempt |-> 1]
    /\ UNCHANGED <<krakenVars, runtimes, toStop, binance>>

KrakenFailed ==
    /\ Starting(Kraken) /\ starter = "failed"
    /\ MainGoto("backoff")
    /\ UNCHANGED <<krakenVars, runtimes, toStop, binance>>

\* Sleeps, and tries again ...
TriesAgain ==
    /\ main.pc = "backoff" /\ main.attempt < MaxStartAttempts
    /\ main' = [main EXCEPT !.pc = "start", !.attempt = @ + 1]
    /\ UNCHANGED <<krakenVars, runtimes, toStop, binance>>

\* ... or gives up: the adapter that failed is stopped too, and before the others.
GivesUp ==
    /\ main.pc = "backoff" /\ main.attempt = MaxStartAttempts
    /\ MainGoto("stop")
    /\ toStop' = <<runtimes[main.i]>> \o SubSeq(runtimes, 1, main.i - 1)
    /\ UNCHANGED <<krakenVars, runtimes, binance>>

\* subServer.start() binds its port, or does not.
Serves ==
    /\ main.pc = "start" /\ main.i > Len(runtimes)
    /\ \/ MainGoto("serving") /\ UNCHANGED toStop
       \/ MainGoto("stop") /\ toStop' = runtimes
    /\ UNCHANGED <<krakenVars, runtimes, binance>>

CallsStop ==
    /\ main.pc = "stop" /\ toStop # << >>
    /\ toStop' = Tail(toStop)
    /\ IF Head(toStop) = Kraken
       THEN StopBegins /\ MainGoto("stopping") /\ UNCHANGED binance
       ELSE binance' = "off" /\ UNCHANGED <<krakenVars, main>>
    /\ UNCHANGED runtimes

KrakenStopped ==
    /\ main.pc = "stopping" /\ starter = "stopped"
    /\ MainGoto("stop")
    /\ UNCHANGED <<krakenVars, runtimes, toStop, binance>>

Leaves ==
    /\ main.pc = "stop" /\ toStop = << >>
    /\ MainGoto("left")
    /\ UNCHANGED <<krakenVars, runtimes, toStop, binance>>

MainStep ==
    \/ CallsStart \/ BinanceStarts \/ KrakenStarted \/ KrakenFailed
    \/ TriesAgain \/ GivesUp \/ Serves \/ CallsStop \/ KrakenStopped \/ Leaves

Next == MainStep \/ (FeedStep /\ UNCHANGED startupVars)

Spec == Init /\ [][Next]_vars

-----------------------------------------------------------------------------
(* Fairness: every thread keeps running and its waits end; two seconds pass *)
(* on a connection that is gone.  Of the outside world: an attempt to       *)
(* connect ends, one way or the other, and Kraken answers subscriptions.   *)

CodeFairness ==
    /\ WF_vars(MainStep)
    /\ WF_vars(WsStep /\ UNCHANGED startupVars)
    /\ WF_vars(WatchdogStep /\ UNCHANGED startupVars)
    /\ WF_vars(StarterStep /\ UNCHANGED startupVars)
    /\ WF_vars(DeadConnectionGoesOld /\ UNCHANGED <<serverVars, feedVars, starter, startupVars>>)

AttemptEnds ==
    \/ ConnectionOpens
    \/ OpenFails /\ UNCHANGED <<serverVars, feedVars, starter>>

OutsideFairness ==
    /\ WF_vars(AttemptEnds /\ UNCHANGED startupVars)
    /\ \A s \in Symbols : WF_vars((Accepts(s) \/ Rejects(s)) /\ UNCHANGED startupVars)

FairSpec == Spec /\ CodeFairness /\ OutsideFairness

-----------------------------------------------------------------------------
TypeOK ==
    /\ FeedTypeOK
    /\ runtimes \in Configurations
    /\ main \in [pc : {"start", "starting", "backoff", "serving", "stop", "stopping", "left"},
                 i : 1 .. Len(runtimes) + 1, attempt : 1 .. MaxStartAttempts]
    /\ toStop \in Seq(Adapters)
    /\ binance \in {"off", "starting", "running"}

\* When main leaves, it destroys the server the callbacks of the adapters use
\* (main.cpp:362-380): no thread of an adapter runs then, nor will one be started
\* again by a watchdog that was under way.
NothingRunsAfterMain ==
    main.pc = "left" => socket = "closed" /\ ws = IdleWs /\ dog = "off" /\ binance = "off"

\* A connection that dies while the program serves is replaced by a new attempt,
\* unless no activity was ever seen on it (kraken_adapter.cpp:395-417).
StallForcesReconnect ==
    main.pc = "serving" /\ socket = "dead" /\ lastConnectionActivityMs # "never"
        ~> socket = "connecting"

\* A book lost to a new connection comes back, whatever happens to that one, except
\* when Kraken refuses the symbol, its snapshot cannot be parsed, or the watchdog
\* has become deaf.
BookComesBack ==
    \A s \in Symbols :
        main.pc = "serving" /\ ~book[s].applied
            ~> book[s].applied \/ subscription[s] = "refused" \/ 0 \in missed[s] \/ Deaf

\* The start() of an adapter comes to an end: kraken_adapter.cpp:266-268 has it block
\* for 30 seconds at most and return false on any failure.
StartEnds == main.pc = "starting" ~> main.pc # "starting"

\* A dead connection opens again: kraken_adapter.cpp:332 leaves reconnection to the
\* watchdog, automatic reconnection being off.
FeedComesBack == main.pc = "serving" /\ socket = "dead" ~> socket = "open"
=============================================================================
