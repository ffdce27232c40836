----------------------------- MODULE FeedPromise -----------------------------
(***************************************************************************)
(* What a feed promises of the local books, whichever the exchange: a copy  *)
(* is lost as a whole or it is the exchange's book as of one of its events. *)
(* It moves forward one symbol at a time and may be lost at any time.  A    *)
(* feed that fetches snapshots while it has a copy may put it back.        *)
(***************************************************************************)
EXTENDS Integers

CONSTANTS
    Symbols,
    MayGoBack       \* a snapshot may replace a newer copy

VARIABLES
    exchange,       \* number of the last event of each symbol at the exchange
    copy            \* number of the last event the local book reflects, or Lost

vars == <<exchange, copy>>

Lost == 0

Init ==
    /\ exchange \in [Symbols -> Nat \ {0}]
    /\ \A s \in Symbols : copy[s] = Lost \/ copy[s] \in 1 .. exchange[s]

ExchangeMoves(s) ==
    /\ exchange'[s] > exchange[s]
    /\ exchange' = [exchange EXCEPT ![s] = exchange'[s]]
    /\ UNCHANGED copy

CatchesUp(s) ==
    /\ copy[s] # Lost
    /\ copy'[s] \in copy[s] + 1 .. exchange[s]
    /\ copy' = [copy EXCEPT ![s] = copy'[s]]
    /\ UNCHANGED exchange

Restores(s) ==
    /\ copy[s] = Lost \/ MayGoBack
    /\ copy'[s] \in 1 .. exchange[s]
    /\ copy' = [copy EXCEPT ![s] = copy'[s]]
    /\ UNCHANGED exchange

Loses ==
    /\ \A s \in Symbols : copy'[s] \in {Lost, copy[s]}
    /\ copy' = [s \in Symbols |-> copy'[s]]
    /\ UNCHANGED exchange

Next == Loses \/ \E s \in Symbols : ExchangeMoves(s) \/ CatchesUp(s) \/ Restores(s)

Spec == Init /\ [][Next]_vars
=============================================================================
