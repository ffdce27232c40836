------------------------------ MODULE Connection ------------------------------
(***************************************************************************)
(* An adapter's WebSocket and the watchdog that restarts it: the same code  *)
(* in both adapters (src/src/kraken_adapter.cpp:383-418,                    *)
(* src/src/binance_adapter.cpp:580-622).  The library's automatic           *)
(* reconnection is off, so that a connection attempt is made once: by       *)
(* start() or by the watchdog.                                             *)
(*                                                                         *)
(* Time is reduced to what the watchdog makes of it: the last activity is   *)
(* less or more than two seconds ago, or there was none.                   *)
(***************************************************************************)
EXTENDS Naturals, Sequences

CONSTANTS
    MaxStalls,          \* connections that die, or fall silent for two seconds
    MaxFailedOpens      \* connection attempts that fail

ASSUME ConnectionAssumption == {MaxStalls, MaxFailedOpens} \subseteq Nat

VARIABLES
    socket,                     \* closed, connecting, open, or dead of itself
    stream,                     \* messages on their way to the WebSocket thread
    ws,                         \* that thread: [pc, msg], msg the one it handles
    lastConnectionActivityMs,   \* never (0), recent or old
    dog,                        \* where the watchdog thread is
    dogStop,                    \* its stop token
    trouble                     \* counters behind the bounds

connectionVars == <<socket, stream, ws, lastConnectionActivityMs, dog, dogStop, trouble>>

NoSymbol == "no symbol"

\* The Open event, in the place of a message; Nothing when there is none in hand.
Opened  == [kind |-> "open", sym |-> NoSymbol, id |-> 0, ok |-> TRUE]
Nothing == [kind |-> "nothing", sym |-> NoSymbol, id |-> 0, ok |-> TRUE]
IdleWs  == [pc |-> "idle", msg |-> Nothing]

ConnectionInit ==
    /\ socket = "closed"
    /\ stream = << >>
    /\ ws = IdleWs
    /\ lastConnectionActivityMs = "never"
    /\ dog = "off"
    /\ dogStop = FALSE
    /\ trouble = [stalls |-> 0, failedOpens |-> 0]

-----------------------------------------------------------------------------
(* The socket.                                                             *)

\* webSocket_.stop() closes, waits for the WebSocket thread and drops the rest.
SocketStops ==
    /\ ws = IdleWs
    /\ socket' = "closed"
    /\ stream' = << >>

Opens ==
    /\ socket = "connecting"
    /\ socket' = "open"
    /\ stream' = <<Opened>>
    /\ UNCHANGED <<ws, lastConnectionActivityMs, dog, dogStop, trouble>>

OpenFails ==
    /\ socket = "connecting"
    /\ trouble.failedOpens < MaxFailedOpens
    /\ socket' = "dead"
    /\ trouble' = [trouble EXCEPT !.failedOpens = @ + 1]
    /\ UNCHANGED <<stream, ws, lastConnectionActivityMs, dog, dogStop>>

\* With what is in flight, but for the Open event, which the library reports first.
ConnectionDies ==
    /\ socket = "open"
    /\ trouble.stalls < MaxStalls
    /\ socket' = "dead"
    /\ stream' = IF stream # << >> /\ Head(stream) = Opened THEN <<Opened>> ELSE << >>
    /\ trouble' = [trouble EXCEPT !.stalls = @ + 1]
    /\ UNCHANGED <<ws, lastConnectionActivityMs, dog, dogStop>>

\* Two seconds without a message, on a connection that is none any more ...
DeadConnectionGoesOld ==
    /\ socket = "dead"
    /\ lastConnectionActivityMs = "recent"
    /\ lastConnectionActivityMs' = "old"
    /\ UNCHANGED <<socket, stream, ws, dog, dogStop, trouble>>

\* ... or on one that only stalls, or while a new one is being made.
ConnectionGoesOld ==
    /\ socket # "dead"
    /\ lastConnectionActivityMs = "recent"
    /\ trouble.stalls < MaxStalls
    /\ lastConnectionActivityMs' = "old"
    /\ trouble' = [trouble EXCEPT !.stalls = @ + 1]
    /\ UNCHANGED <<socket, stream, ws, dog, dogStop>>

\* Every Open and every message counts as activity, before anything is made of it.
Receive ==
    /\ ws = IdleWs /\ stream # << >>
    /\ ws' = [pc |-> "received", msg |-> Head(stream)]
    /\ stream' = Tail(stream)
    /\ lastConnectionActivityMs' = "recent"
    /\ UNCHANGED <<socket, dog, dogStop, trouble>>

Handling(kind) == ws.pc = "received" /\ ws.msg.kind = kind

-----------------------------------------------------------------------------
(* runWatchdog.  Each access to what it shares with the WebSocket thread is *)
(* a step.                                                                 *)

DogFires ==
    /\ dog = "sleeping" /\ ~dogStop
    /\ lastConnectionActivityMs = "old"
    /\ dog' = "firing"
    /\ UNCHANGED <<socket, stream, ws, lastConnectionActivityMs, dogStop, trouble>>

\* Whatever has been stored since.
DogZeroes ==
    /\ dog = "firing"
    /\ lastConnectionActivityMs' = "never"
    /\ dog' = "zeroed"
    /\ UNCHANGED <<socket, stream, ws, dogStop, trouble>>

DogStopsSocket ==
    /\ dog = "zeroed"
    /\ SocketStops
    /\ dog' = "stopped"
    /\ UNCHANGED <<ws, lastConnectionActivityMs, dogStop, trouble>>

\* Mutant: leaves the socket stopped.
DogForgetsToStart ==
    /\ dog = "stopped"
    /\ dog' = "sleeping"
    /\ UNCHANGED <<socket, stream, ws, lastConnectionActivityMs, dogStop, trouble>>

DogStartsSocket ==
    /\ dog = "stopped"
    /\ socket' = "connecting"
    /\ dog' = "sleeping"
    /\ UNCHANGED <<stream, ws, lastConnectionActivityMs, dogStop, trouble>>

DogExits ==
    /\ dog = "sleeping" /\ dogStop
    /\ dog' = "off"
    /\ UNCHANGED <<socket, stream, ws, lastConnectionActivityMs, dogStop, trouble>>

DogStep == DogFires \/ DogZeroes \/ DogStopsSocket \/ DogStartsSocket \/ DogExits

-----------------------------------------------------------------------------
MessageKinds == {"open", "snapshot", "update", "reject"}

ConnectionOK(Messages, WsPcs) ==
    /\ socket \in {"closed", "connecting", "open", "dead"}
    /\ stream \in Seq(Messages)
    /\ ws \in [pc : WsPcs, msg : Messages \cup {Nothing}]
    /\ ws.pc = "idle" <=> ws.msg = Nothing
    /\ lastConnectionActivityMs \in {"never", "recent", "old"}
    /\ dog \in {"off", "sleeping", "firing", "zeroed", "stopped"}
    /\ dogStop \in BOOLEAN
    /\ trouble \in [stalls : 0 .. MaxStalls, failedOpens : 0 .. MaxFailedOpens]

\* The connection is gone, and the watchdog, seeing 0, will do nothing about it.
Deaf == socket = "dead" /\ lastConnectionActivityMs = "never" /\ dog = "sleeping"
=============================================================================
