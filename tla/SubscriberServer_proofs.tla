------------------------ MODULE SubscriberServer_proofs ------------------------
(***************************************************************************)
(* Proofs about the subscriber server: the state has its type, a client    *)
(* misses no update, its copy agrees with the book, and one that has gone  *)
(* is forgotten, for every number of clients, books, exchanges and updates.*)
(***************************************************************************)
EXTENDS SubscriberServer, Folding_proofs, FiniteSetTheorems, SequenceTheorems

\* What a client makes of a snapshot.
Captured(msg) == [state |-> "live", levels |-> msg.levels, seq |-> msg.seq,
                  aside |-> << >>, since |-> msg.since]

MessageType == [stream : Books \cup {NoStream}, levels : [Prices -> Nat],
                seq : 0 .. MaxUpdates, since : Nat]

\* What a client may be sent.
UpdateType == [seq : 1 .. MaxUpdates, change : Changes]

\* Copies made from one snapshot.
CopyType(since) == [state : {"live"}, levels : [Prices -> Nat], seq : 0 .. MaxUpdates,
                    aside : {<< >>}, since : {since}]

\* A patched book is a book.
LEMMA PatchedType ==
    ASSUME NEW levels \in [Prices -> Nat], NEW change \in Changes
    PROVE  Patched(levels, change) \in [Prices -> Nat]
BY SubscriberAssumption DEF Patched

\* An update makes a copy of a copy.
LEMMA WithUpdateOfCopy ==
    ASSUME NEW since \in Nat, NEW r \in CopyType(since), NEW msg \in UpdateType
    PROVE  WithUpdate(r, msg) \in CopyType(since)
<1>1. CASE msg.seq > r.seq
  <2>1. WithUpdate(r, msg) = [r EXCEPT !.levels = Patched(@, msg.change), !.seq = msg.seq]
    BY <1>1 DEF WithUpdate, CopyType
  <2>2. Patched(r.levels, msg.change) \in [Prices -> Nat]
    BY PatchedType DEF CopyType, UpdateType
  <2>3. msg.seq \in 0 .. MaxUpdates BY SubscriberAssumption DEF UpdateType
  <2> QED BY <2>1, <2>2, <2>3 DEF CopyType
<1>2. CASE ~(msg.seq > r.seq)
  BY <1>2 DEF WithUpdate, CopyType
<1> QED BY <1>1, <1>2

\* The copies that a sequence of updates makes of a copy, one after another.
Unfolds(h, base, q) ==
    /\ h[0] = base
    /\ \A i \in 1 .. Len(q) : h[i] = WithUpdate(h[i - 1], q[i])

\* What FoldLeft computes.
LEMMA FoldOfUpdates ==
    ASSUME NEW since \in Nat, NEW base \in CopyType(since), NEW q \in Seq(UpdateType)
    PROVE  \E h \in [0 .. Len(q) -> CopyType(since)] :
              /\ Unfolds(h, base, q)
              /\ FoldLeft(WithUpdate, base, q) = h[Len(q)]
<1> DEFINE n == Len(q)
           X == CopyType(since)
           Step == [i \in 1 .. n |-> [x \in X |-> WithUpdate(x, q[i])]]
           Body(F) == [s \in SUBSET (1 .. n) |->
                         IF s = {} THEN base
                         ELSE WithUpdate(F[s \ {Max(s)}], q[Max(s)])]
           Chosen == CHOOSE F : F = Body(F)
<1>0. n \in Nat /\ DOMAIN q = 1 .. n /\ \A i \in 1 .. n : q[i] \in UpdateType
  BY LenProperties, ElementOfSeq
<1>1. FoldLeft(WithUpdate, base, q) = Chosen[1 .. n]
  BY <1>0 DEF FoldLeft, MapThenFoldSet
<1>2. Chosen = Body(Chosen)
  <2>1. Step \in [1 .. n -> [X -> X]]
    BY <1>0, WithUpdateOfCopy
  <2>2. PICK F \in [SUBSET (1 .. n) -> X] : IsIteration(F, n, base, Step)
    <3> HIDE DEF Step, X
    <3> QED BY <1>0, <2>1, IterationExists DEF X
  <2>3. ASSUME NEW s \in SUBSET (1 .. n), s # {}
        PROVE  Step[Max(s)][F[s \ {Max(s)}]] = WithUpdate(F[s \ {Max(s)}], q[Max(s)])
    <3>1. Max(s) \in 1 .. n BY <1>0, <2>3, MaxOfInterval
    <3>2. F[s \ {Max(s)}] \in X BY <2>2
    <3> QED BY <3>1, <3>2
  <2>4. F = Body(F)
    BY <2>2, <2>3 DEF IsIteration
  <2> HIDE DEF Body
  <2> QED BY <2>4
<1> HIDE DEF Chosen
<1>3. IsIteration(Chosen, n, base,
                  [i \in 1 .. n |-> [x \in {Chosen[s] : s \in SUBSET (1 .. n)} |->
                                       WithUpdate(x, q[i])]])
  <2> DEFINE Y == {Chosen[s] : s \in SUBSET (1 .. n)}
             Wide == [i \in 1 .. n |-> [x \in Y |-> WithUpdate(x, q[i])]]
  <2>1. ASSUME NEW s \in SUBSET (1 .. n), s # {}
        PROVE  Wide[Max(s)][Chosen[s \ {Max(s)}]] = WithUpdate(Chosen[s \ {Max(s)}], q[Max(s)])
    <3>1. Max(s) \in 1 .. n BY <1>0, <2>1, MaxOfInterval
    <3>2. Chosen[s \ {Max(s)}] \in Y OBVIOUS
    <3> QED BY <3>1, <3>2
  <2> HIDE DEF Wide
  <2>2. IsIteration(Chosen, n, base, Wide)
    BY <1>2, <2>1 DEF IsIteration
  <2> QED BY <2>2 DEF Wide
<1>4. /\ Chosen[1 .. 0] = base
      /\ \A i \in 1 .. n : Chosen[1 .. i] = WithUpdate(Chosen[1 .. i - 1], q[i])
  <2> DEFINE Y == {Chosen[s] : s \in SUBSET (1 .. n)}
             Wide == [i \in 1 .. n |-> [x \in Y |-> WithUpdate(x, q[i])]]
  <2>1. /\ Chosen[1 .. 0] = base
        /\ \A i \in 1 .. n : Chosen[1 .. i] = Wide[i][Chosen[1 .. i - 1]]
    <3> HIDE DEF Wide
    <3>1. IsIteration(Chosen, n, base, Wide) BY <1>3 DEF Wide
    <3> QED BY <1>0, <3>1, IterationUnfolds
  <2>2. ASSUME NEW i \in 1 .. n PROVE Chosen[1 .. i - 1] \in Y
    <3>1. 1 .. i - 1 \in SUBSET (1 .. n) BY <1>0
    <3> QED BY <3>1
  <2> QED BY <2>1, <2>2
<1> DEFINE h == [i \in 0 .. n |-> Chosen[1 .. i]]
<1>5. /\ h[0] = base
      /\ \A i \in 1 .. n : h[i] = WithUpdate(h[i - 1], q[i])
  <2>1. \A i \in 0 .. n : h[i] = Chosen[1 .. i] OBVIOUS
  <2>2. 0 \in 0 .. n BY <1>0
  <2>3. \A i \in 1 .. n : i \in 0 .. n /\ i - 1 \in 0 .. n BY <1>0
  <2> HIDE DEF h
  <2> QED BY <1>4, <2>1, <2>2, <2>3
<1>6. \A i \in 0 .. n : h[i] \in X
  <2> DEFINE T == {i \in 0 .. n : h[i] \in X}
  <2> HIDE DEF h, X
  <2>1. 0 \in T BY <1>0, <1>5 DEF X
  <2>2. ASSUME NEW m \in 0 .. n, m \in T, m < n PROVE m + 1 \in T
    <3>1. m + 1 \in 1 .. n /\ (m + 1) - 1 = m BY <1>0, <2>2
    <3>2. h[m + 1] = WithUpdate(h[m], q[m + 1]) BY <1>5, <3>1
    <3>3. q[m + 1] \in UpdateType BY <1>0, <3>1
    <3>4. h[m] \in CopyType(since) BY <2>2 DEF X
    <3>5. h[m + 1] \in X BY <3>2, <3>3, <3>4, WithUpdateOfCopy DEF X
    <3>6. m + 1 \in 0 .. n BY <1>0, <3>1
    <3> QED BY <3>5, <3>6
  <2>3. 0 .. n \subseteq T
    <3> HIDE DEF T
    <3> QED BY <1>0, <2>1, <2>2, InductionUpTo
  <2> QED BY <2>3
<1>7. h \in [0 .. n -> X]
  <2> HIDE DEF X
  <2> QED BY <1>6
<1>8. FoldLeft(WithUpdate, base, q) = h[n]
  <2>1. n \in 0 .. n BY <1>0
  <2> QED BY <1>1, <2>1
<1>9. Unfolds(h, base, q) BY <1>5 DEF Unfolds
<1> HIDE DEF h
<1> QED BY <1>7, <1>8, <1>9

\* What a snapshot does to a client's copy.
LEMMA SnapshotUnfolds ==
    ASSUME NEW r \in ReplicaType, r.state # "none", NEW msg \in MessageType
    PROVE  /\ Captured(msg) \in CopyType(msg.since)
           /\ r.aside \in Seq(UpdateType)
           /\ \E h \in [0 .. Len(r.aside) -> CopyType(msg.since)] :
                 /\ Unfolds(h, Captured(msg), r.aside)
                 /\ WithSnapshot(r, msg) = h[Len(r.aside)]
<1>1. Captured(msg) \in CopyType(msg.since) BY DEF Captured, CopyType, MessageType
<1>2. r.aside \in Seq(UpdateType) BY DEF ReplicaType, UpdateType
<1>3. msg.since \in Nat BY DEF MessageType
<1>4. WithSnapshot(r, msg) = FoldLeft(WithUpdate, Captured(msg), r.aside)
  BY DEF WithSnapshot, Captured
<1> QED BY <1>1, <1>2, <1>3, <1>4, FoldOfUpdates

\* A snapshot makes a copy of what a client has put aside.
LEMMA SnapshotMakesCopy ==
    ASSUME NEW r \in ReplicaType, r.state # "none", NEW msg \in MessageType
    PROVE  WithSnapshot(r, msg) \in CopyType(msg.since)
<1>1. PICK h \in [0 .. Len(r.aside) -> CopyType(msg.since)] :
         WithSnapshot(r, msg) = h[Len(r.aside)]
  BY SnapshotUnfolds
<1>2. Len(r.aside) \in 0 .. Len(r.aside)
  <2>1. Len(r.aside) \in Nat BY SnapshotUnfolds, LenProperties
  <2> QED BY <2>1
<1> QED BY <1>1, <1>2

\* Updates no newer than the snapshot leave it as it is.
LEMMA StaleAside ==
    ASSUME NEW r \in ReplicaType, r.state # "none", NEW msg \in MessageType,
           \A i \in 1 .. Len(r.aside) : r.aside[i].seq <= msg.seq
    PROVE  WithSnapshot(r, msg) = Captured(msg)
<1> DEFINE n == Len(r.aside)
<1>1. PICK h \in [0 .. n -> CopyType(msg.since)] :
         Unfolds(h, Captured(msg), r.aside) /\ WithSnapshot(r, msg) = h[n]
  BY SnapshotUnfolds
<1>2. n \in Nat /\ \A i \in 1 .. n : r.aside[i] \in UpdateType
  BY SnapshotUnfolds, LenProperties, ElementOfSeq
<1> DEFINE T == {i \in 0 .. n : h[i] = Captured(msg)}
<1>3. 0 \in T BY <1>1, <1>2 DEF Unfolds
<1>4. ASSUME NEW m \in 0 .. n, m \in T, m < n PROVE m + 1 \in T
  <2>1. m + 1 \in 1 .. n /\ (m + 1) - 1 = m /\ m + 1 \in 0 .. n BY <1>2, <1>4
  <2>2. h[m + 1] = WithUpdate(Captured(msg), r.aside[m + 1])
    <3>1. h[m + 1] = WithUpdate(h[(m + 1) - 1], r.aside[m + 1]) BY <1>1, <2>1 DEF Unfolds
    <3>2. h[(m + 1) - 1] = Captured(msg) BY <1>4, <2>1
    <3> QED BY <3>1, <3>2
  <2>3. r.aside[m + 1].seq <= msg.seq BY <2>1
  <2>4. ~(r.aside[m + 1].seq > msg.seq)
    <3>1. r.aside[m + 1].seq \in Nat /\ msg.seq \in Nat
      BY <1>2, <2>1, SubscriberAssumption DEF UpdateType, MessageType
    <3> QED BY <2>3, <3>1
  <2>5. WithUpdate(Captured(msg), r.aside[m + 1]) = Captured(msg)
    BY <2>4 DEF WithUpdate, Captured
  <2> QED BY <2>1, <2>2, <2>5
<1>5. 0 .. n \subseteq T
  <2> HIDE DEF T
  <2> QED BY <1>2, <1>3, <1>4, InductionUpTo
<1>6. n \in 0 .. n BY <1>2
<1> QED BY <1>1, <1>5, <1>6

\* An update put aside after the others comes after them when the snapshot comes.
LEMMA LateUpdate ==
    ASSUME NEW r \in ReplicaType, r.state = "waiting", NEW msg \in MessageType,
           NEW u \in UpdateType
    PROVE  /\ WithUpdate(r, u) \in ReplicaType
           /\ WithSnapshot(WithUpdate(r, u), msg) = WithUpdate(WithSnapshot(r, msg), u)
<1> DEFINE k == WithUpdate(r, u)
           n == Len(r.aside)
<1>1. k = [r EXCEPT !.aside = Append(@, u)] BY DEF WithUpdate
<1>2. r.aside \in Seq(UpdateType) /\ n \in Nat BY SnapshotUnfolds, LenProperties
<1>3. /\ Append(r.aside, u) \in Seq(UpdateType)
      /\ Len(Append(r.aside, u)) = n + 1
      /\ Append(r.aside, u)[n + 1] = u
      /\ \A i \in 1 .. n : Append(r.aside, u)[i] = r.aside[i]
  BY <1>2, AppendProperties
<1>4. k \in ReplicaType /\ k.state = "waiting" /\ k.aside = Append(r.aside, u)
  BY <1>1, <1>3 DEF ReplicaType, UpdateType
<1> HIDE DEF k
<1>5. PICK h \in [0 .. n -> CopyType(msg.since)] :
         Unfolds(h, Captured(msg), r.aside) /\ WithSnapshot(r, msg) = h[n]
  BY SnapshotUnfolds
<1>6. PICK g \in [0 .. Len(k.aside) -> CopyType(msg.since)] :
         Unfolds(g, Captured(msg), k.aside) /\ WithSnapshot(k, msg) = g[Len(k.aside)]
  BY <1>4, SnapshotUnfolds
<1> DEFINE T == {i \in 0 .. n : g[i] = h[i]}
<1>7. 0 \in T BY <1>2, <1>5, <1>6 DEF Unfolds
<1>8. ASSUME NEW m \in 0 .. n, m \in T, m < n PROVE m + 1 \in T
  <2>1. m + 1 \in 1 .. n /\ (m + 1) - 1 = m /\ m + 1 \in 0 .. n /\ m + 1 \in 1 .. n + 1
    BY <1>2, <1>8
  <2>2. h[m + 1] = WithUpdate(h[(m + 1) - 1], r.aside[m + 1]) BY <1>5, <2>1 DEF Unfolds
  <2>3. g[m + 1] = WithUpdate(g[(m + 1) - 1], k.aside[m + 1])
    BY <1>3, <1>4, <1>6, <2>1 DEF Unfolds
  <2>4. k.aside[m + 1] = r.aside[m + 1] BY <1>3, <1>4, <2>1
  <2>5. g[(m + 1) - 1] = h[(m + 1) - 1] BY <1>8, <2>1
  <2> QED BY <2>1, <2>2, <2>3, <2>4, <2>5
<1>9. 0 .. n \subseteq T
  <2> HIDE DEF T
  <2> QED BY <1>2, <1>7, <1>8, InductionUpTo
<1>10. g[n] = h[n]
  <2>1. n \in 0 .. n BY <1>2
  <2> QED BY <1>9, <2>1
<1>11. g[n + 1] = WithUpdate(g[n], u)
  <2>1. n + 1 \in 1 .. n + 1 /\ (n + 1) - 1 = n BY <1>2
  <2>2. g[n + 1] = WithUpdate(g[(n + 1) - 1], k.aside[n + 1])
    BY <1>3, <1>4, <1>6, <2>1 DEF Unfolds
  <2>3. k.aside[n + 1] = u BY <1>3, <1>4
  <2> QED BY <2>1, <2>2, <2>3
<1>12. WithSnapshot(k, msg) = g[n + 1] BY <1>3, <1>4, <1>6
<1> QED BY <1>4, <1>5, <1>10, <1>11, <1>12 DEF k

(***************************************************************************)
(* The inductive invariant.                                                *)
(***************************************************************************)

FeedType == [pc : {"idle", "broadcast", "send"}, stream : Books \cup {NoStream},
             change : Changes \cup {<< >>}, seq : 0 .. MaxUpdates,
             targets : SUBSET Clients, closed : SUBSET Clients]

EntryType == [socket : BOOLEAN, streams : SUBSET Streams]

HandlerType == [todo : SUBSET Streams, snapshot : MessageType]

BookType == [applied : BOOLEAN, levels : [Prices -> Nat], snapshots : Nat \ {0},
             told : SUBSET Prices]

\* The shape of the state.
Typed ==
    /\ books \in [Books -> BookType]
    /\ feeds \in [Exchanges -> FeedType]
    /\ DOMAIN clients \subseteq Clients /\ clients \in [DOMAIN clients -> EntryType]
    /\ seqMap \in [Books -> 0 .. MaxUpdates]
    /\ sockets \in [Clients -> {"none", "open", "closing", "closed"}]
    /\ handlers \in [Clients -> HandlerType]
    /\ replicas \in [Clients -> [Streams -> ReplicaType]]
    /\ backpressureDisconnects \in Nat
    /\ used \in [updates : 0 .. MaxUpdates, snapshots : 0 .. MaxSnapshots,
                 requests : [Clients -> Nat]]

\* A feed that is not idle works on a book of its exchange; what it sends has the
\* number of its book; whom it has closed is no longer open.
FeedOK(e) ==
    LET feed == feeds[e]
    IN  /\ feed.pc # "idle" => /\ feed.stream \in Books /\ ExchangeOf[feed.stream] = e
                               /\ feed.change \in Changes
        /\ feed.pc = "send" => feed.seq = seqMap[feed.stream] /\ feed.seq > 0
        /\ feed.pc # "send" => feed.closed = {}
        /\ \A c \in feed.closed : sockets[c] \in {"closing", "closed"}

\* Each number was an update's; each exchange disconnects at most every client per
\* update.
Pending(s) == IF Unnumbered(s) THEN 1 ELSE 0

Busy == {e \in Exchanges : feeds[e].pc # "idle"}

Counted ==
    /\ \A s \in Books : seqMap[s] + Pending(s) <= used.updates
    /\ Cardinality(Busy) <= used.updates
    /\ backpressureDisconnects <= (used.updates - Cardinality(Busy)) * Cardinality(Clients)
    /\ \A s \in Books : books[s].snapshots <= used.snapshots + 1

\* A client has an entry with a socket while it is connected, and none once it has
\* gone; before it comes and after it has gone it asks nothing.
SocketOK(c) ==
    /\ sockets[c] = "none" => Idle(c) /\ \A s \in Streams : replicas[c][s] = NoReplica
    /\ sockets[c] = "open" => c \in DOMAIN clients /\ clients[c].socket
    /\ sockets[c] = "closed" => Idle(c) /\ c \notin DOMAIN clients

\* A client waits for the snapshots it has asked for.
HandlerOK(c) ==
    /\ handlers[c].snapshot.stream = NoStream => handlers[c].snapshot = NoMessage
    /\ handlers[c].snapshot.stream \notin handlers[c].todo
    /\ \A s \in Streams : s \in handlers[c].todo \/ s = handlers[c].snapshot.stream
           => replicas[c][s].state = "waiting"

\* What has been put aside has been numbered.
AsideOK(c, s) ==
    \A i \in 1 .. Len(replicas[c][s].aside) : replicas[c][s].aside[i].seq <= seqMap[s]

\* The copy a client has, or will have once the snapshot on its way arrives.
HasCopy(c, s) == replicas[c][s].state = "live" \/ handlers[c].snapshot.stream = s

Copy(c, s) ==
    IF replicas[c][s].state = "live" THEN replicas[c][s]
    ELSE WithSnapshot(replicas[c][s], handlers[c].snapshot)

\* Levels that agree with those of a book, but for what a window left behind.
Agree(levels, bookLevels) ==
    \A p \in Prices : bookLevels[p] # 0 \/ p \notin UNION Drops => levels[p] = bookLevels[p]

\* A copy of the book in its present life agrees with it, once it has the update
\* that the feed is busy with.
Faithful(r, s) ==
    LET feed == feeds[ExchangeOf[s]]
    IN  (r.since = books[s].snapshots /\ books[s].applied) =>
           /\ r.seq = seqMap[s] /\ ~Unnumbered(s) => Agree(r.levels, books[s].levels)
           /\ r.seq = seqMap[s] /\ Unnumbered(s)
                => Agree(Patched(r.levels, feed.change), books[s].levels)
           /\ r.seq # seqMap[s] => Agree(Patched(r.levels, feed.change), books[s].levels)

\* Levels that are those of a book wherever its updates have named one.
AgreeOnTold(levels, book) == \A p \in book.told : levels[p] = book.levels[p]

\* Any copy is right there, once it has the update that the feed is busy with.
Heals(r, s) ==
    LET feed == feeds[ExchangeOf[s]]
    IN  /\ r.seq = seqMap[s] /\ ~Unnumbered(s) => AgreeOnTold(r.levels, books[s])
        /\ r.seq # seqMap[s] \/ Unnumbered(s)
             => AgreeOnTold(Patched(r.levels, feed.change), books[s])

CopyFits(r, c, s) ==
    /\ s \in clients[c].streams
    /\ r.seq = seqMap[s] \/ (InFlight(c, s) /\ r.seq = seqMap[s] - 1)
    /\ r.since <= books[s].snapshots
    /\ ExchangeOf[s] \notin Workers => Faithful(r, s)
    /\ Heals(r, s)

CopyOK(c, s) == sockets[c] = "open" /\ HasCopy(c, s) => CopyFits(Copy(c, s), c, s)

\* Levels that bear those of an update at some of its prices.
HasAt(prices, levels, change) == \A p \in prices : levels[p] = change[p]

\* The update that a feed is busy with is in the book, but for what a snapshot applied by
\* another thread has put in its place.
ChangeInBook(s) ==
    LET feed == feeds[ExchangeOf[s]]
    IN  feed.pc # "idle" /\ feed.stream = s =>
           /\ HasAt(DOMAIN feed.change \cap books[s].told, books[s].levels, feed.change)
           /\ ExchangeOf[s] \notin Workers
                => books[s].applied /\ HasAt(DOMAIN feed.change, books[s].levels, feed.change)

IInv ==
    /\ Typed /\ Counted
    /\ \A e \in Exchanges : FeedOK(e)
    /\ \A c \in Clients : SocketOK(c) /\ HandlerOK(c)
    /\ \A c \in Clients, s \in Books : AsideOK(c, s) /\ CopyOK(c, s)
    /\ \A s \in Books : ChangeInBook(s)

\* A client's copy stays a copy.
LEMMA UpdateKeepsType ==
    ASSUME NEW r \in ReplicaType, NEW u \in UpdateType
    PROVE  WithUpdate(r, u) \in ReplicaType
<1>1. CASE r.state = "waiting"
  <2>1. Append(r.aside, u) \in Seq([seq : 1 .. MaxUpdates, change : Changes])
    BY AppendProperties DEF ReplicaType, UpdateType
  <2> QED BY <1>1, <2>1 DEF WithUpdate, ReplicaType
<1>2. CASE r.state = "live" /\ u.seq > r.seq
  <2>1. Patched(r.levels, u.change) \in [Prices -> Nat]
    BY PatchedType DEF ReplicaType, UpdateType
  <2>2. u.seq \in 0 .. MaxUpdates BY SubscriberAssumption DEF UpdateType
  <2> QED BY <1>2, <2>1, <2>2 DEF WithUpdate, ReplicaType
<1> QED BY <1>1, <1>2 DEF WithUpdate

\* So does one that a snapshot reaches.
LEMMA SnapshotKeepsType ==
    ASSUME NEW r \in ReplicaType, NEW msg \in MessageType
    PROVE  WithSnapshot(r, msg) \in ReplicaType
<1>1. CASE r.state = "none" BY <1>1 DEF WithSnapshot
<1>2. CASE r.state # "none"
  <2>1. WithSnapshot(r, msg) \in CopyType(msg.since) BY <1>2, SnapshotMakesCopy
  <2>2. << >> \in Seq([seq : 1 .. MaxUpdates, change : Changes]) BY EmptySeq
  <2>3. msg.since \in Nat BY DEF MessageType
  <2> QED BY <2>1, <2>2, <2>3 DEF CopyType, ReplicaType
<1> QED BY <1>1, <1>2

\* An entry of a client, written.
LEMMA PutEntry ==
    ASSUME Typed, NEW c \in Clients, NEW entry \in EntryType, clients' = WithEntry(c, entry)
    PROVE  /\ DOMAIN clients' \subseteq Clients /\ clients' \in [DOMAIN clients' -> EntryType]
           /\ c \in DOMAIN clients' /\ clients'[c] = entry
           /\ \A d \in DOMAIN clients' : d # c => d \in DOMAIN clients /\ clients'[d] = clients[d]
           /\ \A d \in DOMAIN clients : d \in DOMAIN clients'
<1>1. DOMAIN clients' = DOMAIN clients \cup {c} BY DEF WithEntry
<1>2. clients' = [d \in DOMAIN clients' |-> IF d = c THEN entry ELSE clients[d]]
  BY <1>1 DEF WithEntry
<1>3. \A d \in DOMAIN clients' : (IF d = c THEN entry ELSE clients[d]) \in EntryType
  <2> HIDE DEF EntryType
  <2> QED BY <1>1 DEF Typed
<1>4. clients' \in [DOMAIN clients' -> EntryType]
  <2> HIDE DEF EntryType
  <2> QED BY <1>2, <1>3
<1>5. \A d \in DOMAIN clients' : clients'[d] = IF d = c THEN entry ELSE clients[d] BY <1>2
<1> QED BY <1>1, <1>4, <1>5 DEF Typed

\* Entries removed.
LEMMA DropEntries ==
    ASSUME Typed, NEW gone, clients' = Restrict(clients, DOMAIN clients \ gone)
    PROVE  /\ DOMAIN clients' \subseteq Clients /\ clients' \in [DOMAIN clients' -> EntryType]
           /\ \A d \in DOMAIN clients' : d \in DOMAIN clients /\ clients'[d] = clients[d]
           /\ \A d \in DOMAIN clients : d \in DOMAIN clients' \/ d \in gone
           /\ \A d \in gone : d \notin DOMAIN clients'
<1>1. DOMAIN clients' = DOMAIN clients \ gone BY DEF Restrict
<1>2. clients' = [d \in DOMAIN clients' |-> clients[d]] BY <1>1 DEF Restrict
<1>3. clients' \in [DOMAIN clients' -> EntryType]
  <2> HIDE DEF EntryType
  <2> QED BY <1>1, <1>2 DEF Typed
<1>4. \A d \in DOMAIN clients' : clients'[d] = clients[d] BY <1>2
<1> QED BY <1>1, <1>3, <1>4 DEF Typed

\* The bounds are numbers.
LEMMA Bounds == /\ MaxUpdates \in Nat /\ MaxSnapshots \in Nat
                /\ \A n \in 0 .. MaxUpdates : n \in Nat
BY SubscriberAssumption

\* An idle feed is a feed.
LEMMA IdleFeedType == IdleFeed \in FeedType
BY Bounds DEF IdleFeed, FeedType

\* The first states have the shape.
LEMMA InitTyped == Init => Typed
<1> SUFFICES ASSUME Init PROVE Typed
  OBVIOUS
<1> USE DEF Init
<1>1. books \in [Books -> BookType]
  <2>1. \A b \in Books : books[b] \in [applied : {TRUE}, levels : Contents, snapshots : {1},
                                       told : {{}}]
    OBVIOUS
  <2>2. \A b \in Books : books[b] \in BookType
    <3> SUFFICES ASSUME NEW b \in Books
                 PROVE  books[b] \in BookType
      OBVIOUS
    <3>1. books[b] \in [applied : {TRUE}, levels : Contents, snapshots : {1}, told : {{}}]
      BY <2>1
    <3>2. books[b].levels \in [Prices -> Nat] BY <3>1, SubscriberAssumption
    <3>3. books[b].applied \in BOOLEAN /\ books[b].snapshots = 1 /\ books[b].told = {} BY <3>1
    <3>4. books[b] = [applied |-> books[b].applied, levels |-> books[b].levels,
                      snapshots |-> books[b].snapshots, told |-> books[b].told]
      BY <3>1
    <3> HIDE DEF Init
    <3>5. books[b].snapshots \in Nat \ {0} BY <3>3
    <3> QED BY <3>2, <3>3, <3>4, <3>5 DEF BookType
  <2>3. books = [b \in Books |-> books[b]] OBVIOUS
  <2> QED BY <2>2, <2>3
<1>2. feeds \in [Exchanges -> FeedType]
  BY IdleFeedType
<1>3. DOMAIN clients \subseteq Clients /\ clients \in [DOMAIN clients -> EntryType]
  OBVIOUS
<1>4. handlers \in [Clients -> HandlerType]
  BY Bounds DEF IdleHandler, HandlerType, NoMessage, MessageType
<1>5. replicas \in [Clients -> [Streams -> ReplicaType]]
  <2>1. << >> \in Seq([seq : 1 .. MaxUpdates, change : Changes]) BY EmptySeq
  <2>2. NoReplica \in ReplicaType BY <2>1, Bounds DEF NoReplica, ReplicaType
  <2> QED BY <2>2
<1> QED BY <1>1, <1>2, <1>3, <1>4, <1>5, Bounds DEF Typed

\* The shape of the state is kept.
LEMMA StepTyped == ASSUME IInv, Next PROVE Typed'
<1>0. /\ books \in [Books -> BookType]
      /\ feeds \in [Exchanges -> FeedType]
      /\ DOMAIN clients \subseteq Clients /\ clients \in [DOMAIN clients -> EntryType]
      /\ seqMap \in [Books -> 0 .. MaxUpdates]
      /\ sockets \in [Clients -> {"none", "open", "closing", "closed"}]
      /\ handlers \in [Clients -> HandlerType]
      /\ replicas \in [Clients -> [Streams -> ReplicaType]]
      /\ backpressureDisconnects \in Nat
      /\ used \in [updates : 0 .. MaxUpdates, snapshots : 0 .. MaxSnapshots,
                   requests : [Clients -> Nat]]
  BY DEF IInv, Typed
<1>1. ASSUME NEW s \in Books, UpdateBook(s) PROVE Typed'
  <2>1. PICK change \in Changes, dropped \in Drops :
          /\ books' = [books EXCEPT
                 ![s].levels =
                    Patched([p \in Prices |-> IF p \in dropped THEN 0 ELSE @[p]], change),
                 ![s].told = (@ \ dropped) \cup DOMAIN change]
          /\ feeds' = IF Silent(change) THEN feeds
                      ELSE [feeds EXCEPT ![ExchangeOf[s]] =
                              [IdleFeed EXCEPT !.pc = "broadcast", !.stream = s,
                                               !.change = change]]
    BY <1>1 DEF UpdateBook
  <2>2. books' \in [Books -> BookType]
    <3> DEFINE kept == [p \in Prices |-> IF p \in dropped THEN 0 ELSE books[s].levels[p]]
    <3>1. kept \in [Prices -> Nat]
      <4>1. books[s] \in BookType BY <1>0
      <4>2. books[s].levels \in [Prices -> Nat] BY <4>1 DEF BookType
      <4> QED BY <4>2
    <3> HIDE DEF kept
    <3>2. Patched(kept, change) \in [Prices -> Nat] BY <3>1, PatchedType
    <3> DEFINE lev == Patched(kept, change)
               told == (books[s].told \ dropped) \cup DOMAIN change
    <3>3. books' = [books EXCEPT ![s] = [books[s] EXCEPT !.levels = lev, !.told = told]]
      BY <1>0, <2>1 DEF kept
    <3>4. books[s] \in BookType BY <1>0
    <3>5. told \subseteq Prices BY <3>4, SubscriberAssumption DEF BookType
    <3> HIDE DEF lev, told
    <3>6. [books[s] EXCEPT !.levels = lev, !.told = told] \in BookType
      BY <3>2, <3>4, <3>5 DEF BookType, lev
    <3> QED BY <1>0, <3>3, <3>6
  <2>3. feeds' \in [Exchanges -> FeedType]
    <3>1. [IdleFeed EXCEPT !.pc = "broadcast", !.stream = s, !.change = change] \in FeedType
      BY IdleFeedType DEF FeedType
    <3> QED BY <1>0, <2>1, <3>1
  <2>4. used' \in [updates : 0 .. MaxUpdates, snapshots : 0 .. MaxSnapshots,
                   requests : [Clients -> Nat]]
    <3>1. used.updates < MaxUpdates /\ used' = [used EXCEPT !.updates = @ + 1]
      BY <1>1 DEF UpdateBook
    <3>2. used.updates + 1 \in 0 .. MaxUpdates BY <1>0, <3>1, Bounds
    <3> QED BY <1>0, <3>1, <3>2
  <2> QED BY <1>0, <1>1, <2>2, <2>3, <2>4 DEF Typed, UpdateBook, serverVars
<1>2. ASSUME NEW s \in Books, BookSnapshot(s) PROVE Typed'
  <2>1. PICK levels \in Contents :
          books' = [books EXCEPT ![s] = [applied |-> TRUE, levels |-> levels,
                                         snapshots |-> @.snapshots + 1, told |-> {}]]
    BY <1>2 DEF BookSnapshot
  <2>2. levels \in [Prices -> Nat] BY SubscriberAssumption
  <2>3. books[s].snapshots + 1 \in Nat \ {0} BY <1>0 DEF BookType
  <2>4. books' \in [Books -> BookType]
    <3>1. [applied |-> TRUE, levels |-> levels, snapshots |-> books[s].snapshots + 1,
           told |-> {}] \in BookType
      BY <2>2, <2>3 DEF BookType
    <3> QED BY <1>0, <2>1, <3>1
  <2>5. used' \in [updates : 0 .. MaxUpdates, snapshots : 0 .. MaxSnapshots,
                   requests : [Clients -> Nat]]
    <3>1. used.snapshots < MaxSnapshots /\ used' = [used EXCEPT !.snapshots = @ + 1]
      BY <1>2 DEF BookSnapshot
    <3>2. used.snapshots + 1 \in 0 .. MaxSnapshots BY <1>0, <3>1, Bounds
    <3> QED BY <1>0, <3>1, <3>2
  <2> QED BY <1>0, <1>2, <2>4, <2>5 DEF Typed, BookSnapshot, serverVars
<1>3. ASSUME NEW s \in Books, BookCleared(s) PROVE Typed'
  <2>1. books' \in [Books -> BookType]
    <3> DEFINE none == [p \in Prices |-> 0]
    <3>1. none \in [Prices -> Nat] OBVIOUS
    <3>2. books' = [books EXCEPT ![s].applied = FALSE, ![s].levels = none, ![s].told = {}]
      BY <1>3 DEF BookCleared
    <3> HIDE DEF none
    <3>3. [books[s] EXCEPT !.applied = FALSE, !.levels = none, !.told = {}] \in BookType
      <4>1. books[s] \in BookType BY <1>0
      <4> QED BY <3>1, <4>1 DEF BookType
    <3>4. books' = [books EXCEPT ![s] = [books[s] EXCEPT !.applied = FALSE, !.levels = none,
                                                         !.told = {}]]
      BY <1>0, <3>2
    <3> QED BY <1>0, <3>3, <3>4
  <2> QED BY <1>0, <1>3, <2>1 DEF Typed, BookCleared, serverVars
<1>4. ASSUME NEW e \in Exchanges, Number(e) PROVE Typed'
  <2> DEFINE s == feeds[e].stream
             targets == {c \in DOMAIN clients : clients[c].socket /\ s \in clients[c].streams}
  <2>1. s \in Books BY <1>4 DEF IInv, FeedOK, Number
  <2>2. seqMap[s] + 1 \in 0 .. MaxUpdates
    <3>1. Unnumbered(s) BY <1>4, <2>1 DEF IInv, FeedOK, Number, Unnumbered
    <3>2. seqMap[s] + Pending(s) <= used.updates BY <2>1 DEF IInv, Counted
    <3>3. Pending(s) = 1 BY <3>1 DEF Pending
    <3>4. seqMap[s] \in Nat /\ used.updates \in Nat /\ used.updates <= MaxUpdates
      BY <1>0, <2>1, Bounds
    <3> QED BY <3>2, <3>3, <3>4, Bounds
  <2>3. targets \subseteq Clients BY <1>0
  <2>4. /\ seqMap' = [seqMap EXCEPT ![s] = @ + 1]
        /\ feeds' = [feeds EXCEPT ![e].pc = "send", ![e].seq = seqMap[s] + 1,
                                  ![e].targets = targets]
    BY <1>4 DEF Number
  <2> HIDE DEF targets, s
  <2>5. seqMap' \in [Books -> 0 .. MaxUpdates] BY <1>0, <2>2, <2>4
  <2>6. feeds' \in [Exchanges -> FeedType]
    <3>1. [feeds[e] EXCEPT !.pc = "send", !.seq = seqMap[s] + 1, !.targets = targets]
            \in FeedType
      <4>1. feeds[e] \in FeedType BY <1>0
      <4> QED BY <2>2, <2>3, <4>1 DEF FeedType
    <3> QED BY <1>0, <2>4, <3>1
  <2> QED BY <1>0, <1>4, <2>5, <2>6 DEF Typed, Number
<1>5. ASSUME NEW e \in Exchanges, RemoveSlow(e) PROVE Typed'
  <2>1. /\ clients' = Restrict(clients, DOMAIN clients \ feeds[e].closed)
        /\ backpressureDisconnects' = backpressureDisconnects + Cardinality(feeds[e].closed)
        /\ feeds' = [feeds EXCEPT ![e] = IdleFeed]
    BY <1>5 DEF RemoveSlow
  <2>2. DOMAIN clients' \subseteq Clients /\ clients' \in [DOMAIN clients' -> EntryType]
    <3> DEFINE gone == feeds[e].closed
    <3>1. clients' = Restrict(clients, DOMAIN clients \ gone) BY <2>1
    <3> HIDE DEF gone
    <3> QED BY <3>1, DropEntries DEF IInv
  <2>3. backpressureDisconnects' \in Nat
    <3>1. feeds[e].closed \subseteq Clients BY <1>0 DEF FeedType
    <3>2. IsFiniteSet(feeds[e].closed) BY <3>1, SubscriberAssumption, FS_Subset
    <3>3. Cardinality(feeds[e].closed) \in Nat BY <3>2, FS_CardinalityType
    <3> QED BY <1>0, <2>1, <3>3
  <2>4. feeds' \in [Exchanges -> FeedType]
    BY <1>0, <2>1, IdleFeedType
  <2> QED BY <1>0, <1>5, <2>2, <2>3, <2>4 DEF Typed, RemoveSlow
<1>6. ASSUME NEW e \in Exchanges, NEW c \in Clients, Send(e, c) PROVE Typed'
  <2> DEFINE s == feeds[e].stream
             u == [seq |-> feeds[e].seq, change |-> feeds[e].change]
  <2>1. s \in Books /\ s \in Streams BY <1>6, SubscriberAssumption DEF IInv, FeedOK, Send
  <2>2. u \in UpdateType
    <3>1. feeds[e].seq \in 0 .. MaxUpdates /\ feeds[e].seq > 0 /\ feeds[e].change \in Changes
      BY <1>0, <1>6 DEF IInv, FeedOK, Send, FeedType
    <3>2. feeds[e].seq \in 1 .. MaxUpdates BY <3>1, Bounds
    <3> QED BY <3>1, <3>2 DEF UpdateType
  <2>3. feeds' \in [Exchanges -> FeedType]
    <3>1. [feeds[e] EXCEPT !.targets = @ \ {c}] \in FeedType
      <4>1. feeds[e] \in FeedType BY <1>0
      <4> HIDE DEF s, u
      <4> QED BY <4>1 DEF FeedType
    <3> QED BY <1>0, <1>6, <3>1 DEF Send
  <2>4. replicas' \in [Clients -> [Streams -> ReplicaType]]
    <3>1. replicas[c][s] \in ReplicaType BY <1>0, <2>1
    <3>2. WithUpdate(replicas[c][s], u) \in ReplicaType BY <2>2, <3>1, UpdateKeepsType
    <3>3. replicas' = IF sockets[c] = "open"
                      THEN [replicas EXCEPT ![c][s] = WithUpdate(@, u)] ELSE replicas
      BY <1>6 DEF Send
    <3> HIDE DEF u, s
    <3> QED BY <1>0, <2>1, <3>2, <3>3
  <2> QED BY <1>0, <1>6, <2>3, <2>4 DEF Typed, Send
<1>7. ASSUME NEW e \in Exchanges, NEW c \in Clients, CloseSlow(e, c) PROVE Typed'
  <2>1. feeds' \in [Exchanges -> FeedType]
    <3>1. [feeds[e] EXCEPT !.targets = @ \ {c}, !.closed = @ \cup {c}] \in FeedType
      <4>1. feeds[e] \in FeedType BY <1>0
      <4> QED BY <4>1 DEF FeedType
    <3> QED BY <1>0, <1>7, <3>1 DEF CloseSlow
  <2> QED BY <1>0, <1>7, <2>1 DEF Typed, CloseSlow
<1>8. ASSUME NEW c \in Clients, Connect(c) PROVE Typed'
  <2>1. [socket |-> TRUE, streams |-> {}] \in EntryType BY DEF EntryType
  <2>2. clients' = WithEntry(c, [socket |-> TRUE, streams |-> {}]) BY <1>8 DEF Connect
  <2>3. DOMAIN clients' \subseteq Clients /\ clients' \in [DOMAIN clients' -> EntryType]
    BY <2>1, <2>2, PutEntry DEF IInv
  <2> QED BY <1>0, <1>8, <2>3 DEF Typed, Connect, feedVars
<1>9. ASSUME NEW c \in Clients, SendSnapshot(c) PROVE Typed'
  <2> DEFINE msg == handlers[c].snapshot
  <2>1. msg \in MessageType BY <1>0 DEF HandlerType
  <2>2. msg.stream \in Books /\ msg.stream \in Streams
    BY <1>9, <2>1, SubscriberAssumption DEF IInv, HandlerOK, SendSnapshot, MessageType
  <2>3. handlers' \in [Clients -> HandlerType]
    <3>1. NoMessage \in MessageType BY Bounds DEF NoMessage, MessageType
    <3> QED BY <1>0, <1>9, <3>1, ZenonT(60) DEF SendSnapshot, HandlerType
  <2>4. replicas' \in [Clients -> [Streams -> ReplicaType]]
    <3>1. replicas[c][msg.stream] \in ReplicaType BY <1>0, <2>2
    <3>2. WithSnapshot(replicas[c][msg.stream], msg) \in ReplicaType
      BY <2>1, <3>1, SnapshotKeepsType
    <3>3. replicas' = IF sockets[c] = "open"
                      THEN [replicas EXCEPT ![c][msg.stream] = WithSnapshot(@, msg)] ELSE replicas
      BY <1>9 DEF SendSnapshot
    <3> HIDE DEF msg
    <3> QED BY <1>0, <2>2, <3>2, <3>3
  <2> QED BY <1>0, <1>9, <2>3, <2>4 DEF Typed, SendSnapshot, feedVars
<1>10. ASSUME NEW c \in Clients, ClientCloses(c) PROVE Typed'
  BY <1>0, <1>10 DEF Typed, ClientCloses, feedVars
<1>11. ASSUME NEW c \in Clients, CloseCallback(c) PROVE Typed'
  <2>1. clients' = Restrict(clients, DOMAIN clients \ {c}) BY <1>11 DEF CloseCallback
  <2>2. DOMAIN clients' \subseteq Clients /\ clients' \in [DOMAIN clients' -> EntryType]
    BY <2>1, DropEntries DEF IInv
  <2> QED BY <1>0, <1>11, <2>2 DEF Typed, CloseCallback, feedVars
<1>12. ASSUME NEW c \in Clients, NEW s \in Streams, Capture(c, s) PROVE Typed'
  <2> DEFINE entry == IF c \in DOMAIN clients THEN clients[c]
                      ELSE [socket |-> FALSE, streams |-> {}]
             new == [entry EXCEPT !.streams = @ \cup {s}]
             msg == IF s \in Books /\ books[s].applied
                    THEN [stream |-> s, levels |-> books[s].levels,
                          seq |-> SnapshotNumber(s), since |-> books[s].snapshots]
                    ELSE NoMessage
  <2>1. new \in EntryType
    <3>1. entry \in EntryType BY <1>0 DEF EntryType
    <3> HIDE DEF entry
    <3> QED BY <3>1 DEF EntryType
  <2>2. msg \in MessageType
    <3>1. NoMessage \in MessageType BY Bounds DEF NoMessage, MessageType
    <3>2. ASSUME s \in Books PROVE [stream |-> s, levels |-> books[s].levels,
                  seq |-> SnapshotNumber(s), since |-> books[s].snapshots] \in MessageType
      <4>1. books[s].levels \in [Prices -> Nat] /\ books[s].snapshots \in Nat
        <5>1. books[s] \in BookType BY <1>0, <3>2
        <5> QED BY <5>1 DEF BookType
      <4>2. SnapshotNumber(s) \in 0 .. MaxUpdates BY <1>0, <3>2 DEF SnapshotNumber
      <4> QED BY <3>2, <4>1, <4>2 DEF MessageType
    <3> QED BY <3>1, <3>2
  <2>3. /\ clients' = WithEntry(c, new)
        /\ handlers' = [handlers EXCEPT ![c].todo = @ \ {s}, ![c].snapshot = msg]
    BY <1>12 DEF Capture
  <2> HIDE DEF new, msg
  <2>4. DOMAIN clients' \subseteq Clients /\ clients' \in [DOMAIN clients' -> EntryType]
    BY <2>1, <2>3, PutEntry DEF IInv
  <2>5. handlers' \in [Clients -> HandlerType] BY <1>0, <2>2, <2>3, ZenonT(60) DEF HandlerType
  <2> QED BY <1>0, <1>12, <2>4, <2>5 DEF Typed, Capture, feedVars
<1>13. ASSUME NEW c \in Clients, Request(c)
       PROVE used' \in [updates : 0 .. MaxUpdates, snapshots : 0 .. MaxSnapshots,
                        requests : [Clients -> Nat]]
  <2>1. used' = [used EXCEPT !.requests[c] = @ + 1] BY <1>13 DEF Request
  <2>2. used.requests \in [Clients -> Nat] BY <1>0
  <2>3. used.requests[c] + 1 \in Nat BY <2>2
  <2> DEFINE r == [used.requests EXCEPT ![c] = @ + 1]
  <2>4. r \in [Clients -> Nat] BY <2>2, <2>3
  <2>5. used' = [used EXCEPT !.requests = r] BY <2>1
  <2> HIDE DEF r
  <2> QED BY <1>0, <2>4, <2>5
<1>14. ASSUME NEW c \in Clients, NEW streams \in SUBSET Streams, Subscribe(c, streams)
       PROVE  Typed'
  <2>1. used' \in [updates : 0 .. MaxUpdates, snapshots : 0 .. MaxSnapshots,
                   requests : [Clients -> Nat]]
    BY <1>13, <1>14 DEF Subscribe
  <2>2. handlers' \in [Clients -> HandlerType]
    <3>1. handlers' = [handlers EXCEPT ![c].todo = streams] BY <1>14 DEF Subscribe
    <3>2. handlers[c] \in HandlerType BY <1>0
    <3>3. [handlers[c] EXCEPT !.todo = streams] \in HandlerType BY <3>2 DEF HandlerType
    <3>4. handlers' = [handlers EXCEPT ![c] = [handlers[c] EXCEPT !.todo = streams]] BY <3>1
    <3> HIDE DEF HandlerType
    <3> QED BY <1>0, <3>3, <3>4
  <2>3. replicas' \in [Clients -> [Streams -> ReplicaType]]
    <3>1. Awaiting \in ReplicaType
      <4>1. << >> \in Seq([seq : 1 .. MaxUpdates, change : Changes]) BY EmptySeq
      <4>2. NoReplica \in ReplicaType BY <4>1, Bounds DEF NoReplica, ReplicaType
      <4> QED BY <4>2 DEF Awaiting, ReplicaType
    <3> HIDE DEF ReplicaType, Awaiting
    <3> QED BY <1>0, <1>14, <3>1 DEF Subscribe
  <2> QED BY <1>0, <1>14, <2>1, <2>2, <2>3 DEF Typed, Subscribe, feedVars
<1>15. ASSUME NEW c \in Clients, NEW streams \in SUBSET Streams, Unsubscribe(c, streams)
       PROVE  Typed'
  <2>1. used' \in [updates : 0 .. MaxUpdates, snapshots : 0 .. MaxSnapshots,
                   requests : [Clients -> Nat]]
    BY <1>13, <1>15 DEF Unsubscribe
  <2>2. DOMAIN clients' \subseteq Clients /\ clients' \in [DOMAIN clients' -> EntryType]
    <3>1. CASE c \in DOMAIN clients
      <4>1. clients[c] \in EntryType BY <1>0, <3>1
      <4>2. [clients[c] EXCEPT !.streams = @ \ streams] \in EntryType BY <4>1 DEF EntryType
      <4>3. clients' = [clients EXCEPT ![c] = [clients[c] EXCEPT !.streams = @ \ streams]]
        BY <1>15, <3>1 DEF Unsubscribe
      <4> HIDE DEF EntryType
      <4> QED BY <1>0, <4>2, <4>3
    <3>2. CASE c \notin DOMAIN clients BY <1>0, <1>15, <3>2 DEF Unsubscribe
    <3> QED BY <3>1, <3>2
  <2>3. replicas' \in [Clients -> [Streams -> ReplicaType]]
    <3>1. NoReplica \in ReplicaType
      <4>1. << >> \in Seq([seq : 1 .. MaxUpdates, change : Changes]) BY EmptySeq
      <4> QED BY <4>1, Bounds DEF NoReplica, ReplicaType
    <3> HIDE DEF ReplicaType, NoReplica
    <3> QED BY <1>0, <1>15, <3>1 DEF Unsubscribe
  <2> QED BY <1>0, <1>15, <2>1, <2>2, <2>3 DEF Typed, Unsubscribe, feedVars
<1> QED
  BY <1>1, <1>2, <1>3, <1>4, <1>5, <1>6, <1>7, <1>8, <1>9, <1>10, <1>11, <1>12, <1>14, <1>15
  DEF Next, Feed, Book, Connection

\* A socket that has started to close does not open again.
LEMMA SocketsAge ==
    ASSUME IInv, Next
    PROVE  \A c \in Clients : sockets[c] \in {"closing", "closed"}
                                => sockets'[c] \in {"closing", "closed"}
<1>0. sockets \in [Clients -> {"none", "open", "closing", "closed"}] BY DEF IInv, Typed
<1>1. UNCHANGED sockets \/ \E d \in Clients :
         \/ sockets' = [sockets EXCEPT ![d] = "closing"]
         \/ sockets' = [sockets EXCEPT ![d] = "closed"]
         \/ sockets[d] = "none" /\ sockets' = [sockets EXCEPT ![d] = "open"]
  BY ZenonT(60)
  DEF Next, Feed, Book, Connection, UpdateBook, BookSnapshot, BookCleared, Number, RemoveSlow,
         Send, CloseSlow, Connect, SendSnapshot, ClientCloses, CloseCallback, Capture, Subscribe,
         Unsubscribe, serverVars
<1> QED BY <1>0, <1>1

\* A feed that a step leaves alone.
LEMMA FeedFrame ==
    ASSUME IInv, Next, NEW e \in Exchanges, feeds'[e] = feeds[e],
           feeds[e].pc = "send" => seqMap'[feeds[e].stream] = seqMap[feeds[e].stream]
    PROVE  FeedOK(e)'
<1>1. FeedOK(e) BY DEF IInv
<1>2. feeds[e].closed \subseteq Clients BY SMTT(60) DEF IInv, Typed, FeedType
<1> QED BY <1>1, <1>2, SocketsAge DEF FeedOK

\* A feed only works on books of its exchange, and sends the book's own number.
LEMMA StepFeed == ASSUME IInv, Next PROVE \A e \in Exchanges : FeedOK(e)'
<1>0. feeds \in [Exchanges -> FeedType] /\ seqMap \in [Books -> 0 .. MaxUpdates]
  BY DEF IInv, Typed
<1> SUFFICES ASSUME NEW e \in Exchanges PROVE FeedOK(e)'
  OBVIOUS
<1>f. FeedOK(e) BY DEF IInv
<1>1. CASE UNCHANGED <<feeds, seqMap>> BY <1>1, FeedFrame
<1>2. ASSUME NEW s \in Books, UpdateBook(s) PROVE FeedOK(e)'
  <2>1. PICK change \in Changes :
           feeds' = IF Silent(change) THEN feeds
                    ELSE [feeds EXCEPT ![ExchangeOf[s]] =
                            [IdleFeed EXCEPT !.pc = "broadcast", !.stream = s, !.change = change]]
    BY <1>2 DEF UpdateBook
  <2>2. seqMap' = seqMap BY <1>2 DEF UpdateBook, serverVars
  <2>3. CASE Silent(change) BY <2>1, <2>2, <2>3, FeedFrame
  <2>4. CASE ~Silent(change) /\ e # ExchangeOf[s]
    <3>1. feeds'[e] = feeds[e] BY <1>0, <2>1, <2>4
    <3> QED BY <2>2, <3>1, FeedFrame
  <2>5. CASE ~Silent(change) /\ e = ExchangeOf[s]
    <3> DEFINE new == [IdleFeed EXCEPT !.pc = "broadcast", !.stream = s, !.change = change]
    <3>1. new.pc = "broadcast" /\ new.stream = s /\ new.change = change /\ new.closed = {}
      BY DEF IdleFeed
    <3> HIDE DEF new
    <3>2. feeds'[e] = new BY <1>0, <2>1, <2>5 DEF new
    <3> QED BY <2>5, <3>1, <3>2 DEF FeedOK
  <2> QED BY <2>3, <2>4, <2>5
<1>3. ASSUME NEW d \in Exchanges, Number(d) PROVE FeedOK(e)'
  <2> DEFINE targets == {c \in DOMAIN clients :
                           clients[c].socket /\ feeds[d].stream \in clients[c].streams}
  <2>1. /\ feeds[d].pc = "broadcast"
        /\ seqMap' = [seqMap EXCEPT ![feeds[d].stream] = @ + 1]
        /\ feeds' = [feeds EXCEPT ![d].pc = "send", ![d].seq = seqMap[feeds[d].stream] + 1,
                                  ![d].targets = targets]
    BY <1>3 DEF Number
  <2> HIDE DEF targets
  <2>2. FeedOK(d) BY DEF IInv
  <2>3. feeds[d].stream \in Books /\ ExchangeOf[feeds[d].stream] = d BY <2>1, <2>2 DEF FeedOK
  <2>4. CASE e # d
    <3>1. feeds'[e] = feeds[e] BY <1>0, <2>1, <2>4
    <3>2. feeds[e].pc = "send" => seqMap'[feeds[e].stream] = seqMap[feeds[e].stream]
      BY <1>0, <1>f, <2>1, <2>3, <2>4 DEF FeedOK
    <3> QED BY <3>1, <3>2, FeedFrame
  <2>5. CASE e = d
    <3> DEFINE n == seqMap[feeds[e].stream]
    <3>1. n \in Nat /\ seqMap'[feeds[e].stream] = n + 1
      BY <1>0, <2>1, <2>3, <2>5, Bounds
    <3>2. feeds'[e] = [feeds[e] EXCEPT !.pc = "send", !.seq = n + 1, !.targets = targets]
      BY <1>0, <2>1, <2>5
    <3>3. feeds[e] \in FeedType BY <1>0
    <3> HIDE DEF n
    <3>4. /\ feeds'[e].pc = "send" /\ feeds'[e].stream = feeds[e].stream
          /\ feeds'[e].change = feeds[e].change /\ feeds'[e].seq = n + 1
          /\ feeds'[e].closed = feeds[e].closed
      BY <3>2, <3>3 DEF FeedType
    <3>5. feeds[e].closed = {} /\ feeds[e].change \in Changes BY <1>f, <2>1, <2>5 DEF FeedOK
    <3>6. feeds[e].stream \in Books /\ ExchangeOf[feeds[e].stream] = e BY <2>3, <2>5
    <3>7. n + 1 > 0 BY <3>1
    <3> QED BY <3>1, <3>4, <3>5, <3>6, <3>7 DEF FeedOK
  <2> QED BY <2>4, <2>5
<1>4. ASSUME NEW d \in Exchanges, RemoveSlow(d) PROVE FeedOK(e)'
  <2>1. CASE e # d
    <3>1. feeds'[e] = feeds[e] /\ seqMap' = seqMap BY <1>0, <1>4, <2>1 DEF RemoveSlow
    <3> QED BY <3>1, FeedFrame
  <2>2. CASE e = d
    <3>1. feeds'[e] = IdleFeed BY <1>0, <1>4, <2>2 DEF RemoveSlow
    <3> QED BY <3>1 DEF FeedOK, IdleFeed
  <2> QED BY <2>1, <2>2
<1>5. ASSUME NEW d \in Exchanges, NEW c \in Clients, Send(d, c) PROVE FeedOK(e)'
  <2>1. CASE e # d
    <3>1. feeds'[e] = feeds[e] /\ seqMap' = seqMap BY <1>0, <1>5, <2>1 DEF Send
    <3> QED BY <3>1, FeedFrame
  <2>2. CASE e = d
    <3>1. feeds'[e] = [feeds[e] EXCEPT !.targets = @ \ {c}] /\ seqMap' = seqMap
      BY <1>0, <1>5, <2>2 DEF Send
    <3>2. feeds[e] \in FeedType BY <1>0
    <3>3. /\ feeds'[e].pc = feeds[e].pc /\ feeds'[e].stream = feeds[e].stream
          /\ feeds'[e].change = feeds[e].change /\ feeds'[e].seq = feeds[e].seq
          /\ feeds'[e].closed = feeds[e].closed
      BY <3>1, <3>2 DEF FeedType
    <3>4. feeds[e].closed \subseteq Clients BY <3>2 DEF FeedType
    <3> QED BY <1>f, <3>1, <3>3, <3>4, SocketsAge DEF FeedOK
  <2> QED BY <2>1, <2>2
<1>6. ASSUME NEW d \in Exchanges, NEW c \in Clients, CloseSlow(d, c) PROVE FeedOK(e)'
  <2>1. CASE e # d
    <3>1. feeds'[e] = feeds[e] /\ seqMap' = seqMap BY <1>0, <1>6, <2>1 DEF CloseSlow
    <3> QED BY <3>1, FeedFrame
  <2>2. CASE e = d
    <3>1. feeds'[e] = [feeds[e] EXCEPT !.targets = @ \ {c}, !.closed = @ \cup {c}]
          /\ seqMap' = seqMap /\ feeds[e].pc = "send"
      BY <1>0, <1>6, <2>2 DEF CloseSlow
    <3>2. feeds[e] \in FeedType BY <1>0
    <3>3. /\ feeds'[e].pc = feeds[e].pc /\ feeds'[e].stream = feeds[e].stream
          /\ feeds'[e].change = feeds[e].change /\ feeds'[e].seq = feeds[e].seq
          /\ feeds'[e].closed = feeds[e].closed \cup {c}
      BY <3>1, <3>2 DEF FeedType
    <3>4. feeds[e].closed \subseteq Clients BY <3>2 DEF FeedType
    <3>5. sockets'[c] = "closing" BY <1>6 DEF CloseSlow, IInv, Typed
    <3> QED BY <1>f, <3>1, <3>3, <3>4, <3>5, SocketsAge DEF FeedOK
  <2> QED BY <2>1, <2>2
<1> QED
  BY <1>1, <1>2, <1>3, <1>4, <1>5, <1>6
  DEF Next, Feed, Book, Connection, BookSnapshot, BookCleared, Connect, SendSnapshot, ClientCloses,
      CloseCallback, Capture, Subscribe, Unsubscribe, serverVars, feedVars

\* How many times each client was counted, in a round more and in fewer.
LEMMA Rounds ==
    ASSUME NEW a \in Nat, NEW b \in Nat, NEW k \in Nat, a <= b
    PROVE  /\ a * k \in Nat /\ (a + 1) * k = a * k + k /\ a * k <= b * k
<1>1. a * k \in Nat /\ (a + 1) * k = a * k + k OBVIOUS
<1>2. a * k <= b * k
  <2>1. PICK d \in Nat : b = a + d
    <3>1. b - a \in Nat /\ b = a + (b - a) OBVIOUS
    <3> QED BY <3>1
  <2>2. b * k = a * k + d * k BY <2>1
  <2>3. d * k \in Nat OBVIOUS
  <2> QED BY <1>1, <2>2, <2>3
<1> QED BY <1>1, <1>2

\* What an update leaves in a book, and in what its feed holds.
LEMMA UpdateOfBook ==
    ASSUME IInv, NEW s \in Books, UpdateBook(s)
    PROVE  \E change \in Changes, dropped \in Drops :
              /\ dropped \cap DOMAIN change = {}
              /\ books'[s].levels =
                    Patched([p \in Prices |-> IF p \in dropped THEN 0 ELSE books[s].levels[p]],
                            change)
              /\ books'[s].told = (books[s].told \ dropped) \cup DOMAIN change
              /\ books'[s].applied /\ books'[s].snapshots = books[s].snapshots
              /\ \A b \in Books : b # s => books'[b] = books[b]
              /\ \A e \in Exchanges : e # ExchangeOf[s] => feeds'[e] = feeds[e]
              /\ IF Silent(change) THEN feeds' = feeds
                 ELSE LET feed == feeds'[ExchangeOf[s]]
                      IN  feed.pc = "broadcast" /\ feed.stream = s /\ feed.change = change
<1>0. /\ books \in [Books -> BookType]
      /\ feeds \in [Exchanges -> FeedType] /\ ExchangeOf[s] \in Exchanges
  BY SubscriberAssumption DEF IInv, Typed
<1>1. PICK change \in Changes, dropped \in Drops :
          /\ dropped \cap DOMAIN change = {}
          /\ books' = [books EXCEPT
                 ![s].levels =
                    Patched([p \in Prices |-> IF p \in dropped THEN 0 ELSE @[p]], change),
                 ![s].told = (@ \ dropped) \cup DOMAIN change]
          /\ feeds' = IF Silent(change) THEN feeds
                      ELSE [feeds EXCEPT ![ExchangeOf[s]] =
                              [IdleFeed EXCEPT !.pc = "broadcast", !.stream = s,
                                               !.change = change]]
  BY DEF UpdateBook
<1>2. books[s].applied BY DEF UpdateBook
<1> DEFINE lev == Patched([p \in Prices |-> IF p \in dropped THEN 0 ELSE books[s].levels[p]],
                          change)
           told == (books[s].told \ dropped) \cup DOMAIN change
<1>3. books' = [books EXCEPT ![s] = [books[s] EXCEPT !.levels = lev, !.told = told]]
  BY <1>0, <1>1
<1> HIDE DEF lev, told
<1>4. /\ books'[s].levels = lev /\ books'[s].told = told
      /\ books'[s].applied = books[s].applied /\ books'[s].snapshots = books[s].snapshots
      /\ \A b \in Books : b # s => books'[b] = books[b]
  <2>1. books[s] \in BookType /\ books'[s] = [books[s] EXCEPT !.levels = lev, !.told = told]
    BY <1>0, <1>3
  <2>2. \A b \in Books : b # s => books'[b] = books[b] BY <1>0, <1>3
  <2> QED BY <2>1, <2>2 DEF BookType
<1>5. ~Silent(change) =>
         /\ feeds'[ExchangeOf[s]].pc = "broadcast" /\ feeds'[ExchangeOf[s]].stream = s
         /\ feeds'[ExchangeOf[s]].change = change
  <2> DEFINE new == [IdleFeed EXCEPT !.pc = "broadcast", !.stream = s, !.change = change]
  <2>1. new.pc = "broadcast" /\ new.stream = s /\ new.change = change BY DEF IdleFeed
  <2> HIDE DEF new
  <2>2. ~Silent(change) => feeds'[ExchangeOf[s]] = new BY <1>0, <1>1 DEF new
  <2> QED BY <2>1, <2>2
<1>6. \A e \in Exchanges : e # ExchangeOf[s] => feeds'[e] = feeds[e] BY <1>0, <1>1
<1>7. Silent(change) => feeds' = feeds BY <1>1
<1> QED BY <1>1, <1>2, <1>4, <1>5, <1>6, <1>7 DEF lev, told

\* The exchanges whose feeds are busy can be counted.
LEMMA BusyFinite ==
    ASSUME NEW S \in SUBSET Exchanges
    PROVE  IsFiniteSet(S) /\ Cardinality(S) \in Nat
BY SubscriberAssumption, FS_Subset, FS_CardinalityType

\* Numbers, rounds and snapshots stay within what has been used.
LEMMA StepCounted == ASSUME IInv, Next PROVE Counted'
<1> DEFINE k == Cardinality(Clients)
           busy == Cardinality(Busy)
           u == used.updates
<1>0. /\ feeds \in [Exchanges -> FeedType] /\ seqMap \in [Books -> 0 .. MaxUpdates]
      /\ u \in Nat /\ used.snapshots \in Nat /\ backpressureDisconnects \in Nat
      /\ used \in [updates : 0 .. MaxUpdates, snapshots : 0 .. MaxSnapshots,
                   requests : [Clients -> Nat]]
      /\ books \in [Books -> BookType]
  BY Bounds DEF IInv, Typed
<1>k. k \in Nat BY SubscriberAssumption, FS_CardinalityType
<1>b. busy \in Nat /\ IsFiniteSet(Busy) BY BusyFinite DEF Busy
<1>c. /\ \A s \in Books : seqMap[s] + Pending(s) <= u
      /\ busy <= u /\ backpressureDisconnects <= (u - busy) * k
      /\ \A s \in Books : books[s].snapshots <= used.snapshots + 1
  BY DEF IInv, Counted
<1>f. \A e \in Exchanges : feeds[e].pc # "idle"
         => feeds[e].stream \in Books /\ ExchangeOf[feeds[e].stream] = e
  BY DEF IInv, FeedOK
<1>1. CASE UNCHANGED <<books, feeds, seqMap, backpressureDisconnects, used.updates, used.snapshots>>
  BY <1>1 DEF IInv, Counted, Pending, Unnumbered, Busy
<1>2. ASSUME NEW s \in Books, UpdateBook(s) PROVE Counted'
  <2> DEFINE e == ExchangeOf[s]
  <2>0. e \in Exchanges BY SubscriberAssumption
  <2>1. PICK change \in Changes :
          /\ feeds' = IF Silent(change) THEN feeds
                      ELSE [feeds EXCEPT ![e] =
                              [IdleFeed EXCEPT !.pc = "broadcast", !.stream = s,
                                               !.change = change]]
    BY <1>2 DEF UpdateBook
  <2>2. /\ feeds[e].pc = "idle" /\ used'.updates = u + 1 /\ used'.snapshots = used.snapshots
        /\ seqMap' = seqMap /\ backpressureDisconnects' = backpressureDisconnects
    BY <1>0, <1>2 DEF UpdateBook, serverVars
  <2>3. \A b \in Books : books'[b].snapshots = books[b].snapshots
    BY <1>2, UpdateOfBook
  <2>4. ASSUME NEW b \in Books PROVE Pending(b)' <= Pending(b) + 1
    BY DEF Pending
  <2>5. ASSUME NEW b \in Books PROVE seqMap'[b] + Pending(b)' <= u + 1
    <3>1. Pending(b) \in {0, 1} /\ Pending(b)' \in {0, 1} BY DEF Pending
    <3>2. seqMap[b] \in Nat BY <1>0, Bounds
    <3>3. seqMap[b] + Pending(b) <= u BY <1>c
    <3> HIDE DEF u
    <3> QED BY <1>0, <2>2, <2>4, <3>1, <3>2, <3>3
  <2>6. /\ Cardinality(Busy') <= u + 1
        /\ backpressureDisconnects <= ((u + 1) - Cardinality(Busy')) * k
    <3>1. CASE Silent(change)
      <4>1. Busy' = Busy BY <2>1, <3>1 DEF Busy
      <4>2. u - busy \in Nat /\ (u + 1) - busy \in Nat /\ u - busy <= (u + 1) - busy
            /\ busy <= u + 1
        BY <1>0, <1>b, <1>c
      <4>3. (u - busy) * k <= ((u + 1) - busy) * k /\ (u - busy) * k \in Nat
            /\ ((u + 1) - busy) * k \in Nat
        BY <1>k, <4>2, Rounds
      <4> HIDE DEF u, busy, k
      <4>4. backpressureDisconnects <= ((u + 1) - busy) * k BY <1>0, <1>c, <4>3
      <4>5. Cardinality(Busy') = busy BY <4>1 DEF busy
      <4> QED BY <4>2, <4>4, <4>5
    <3>2. CASE ~Silent(change)
      <4>1. [IdleFeed EXCEPT !.pc = "broadcast", !.stream = s, !.change = change].pc = "broadcast"
        BY DEF IdleFeed
      <4>2. feeds' \in [Exchanges -> FeedType] /\ feeds'[e].pc = "broadcast"
            /\ \A d \in Exchanges : d # e => feeds'[d] = feeds[d]
        BY <1>0, <2>0, <2>1, <3>2, <4>1, StepTyped DEF Typed
      <4> HIDE DEF e
      <4>3. Busy' = Busy \cup {e} /\ e \notin Busy BY <2>0, <2>2, <4>2 DEF Busy
      <4>4. Cardinality(Busy') = busy + 1
        BY <1>b, <4>3, FS_AddElement
      <4> HIDE DEF u, busy
      <4>5. (u + 1) - (busy + 1) = u - busy BY <1>0, <1>b
      <4>6. busy + 1 <= u + 1 BY <1>0, <1>b, <1>c
      <4> QED BY <1>c, <4>4, <4>5, <4>6
    <3> QED BY <3>1, <3>2
  <2>7. \A b \in Books : books'[b].snapshots <= used'.snapshots + 1 BY <1>c, <2>2, <2>3
  <2> HIDE DEF u, e
  <2> QED BY <2>2, <2>5, <2>6, <2>7 DEF Counted
<1>3. ASSUME NEW s \in Books, BookSnapshot(s) PROVE Counted'
  <2>1. PICK levels \in Contents :
          books' = [books EXCEPT ![s] = [applied |-> TRUE, levels |-> levels,
                                         snapshots |-> @.snapshots + 1, told |-> {}]]
    BY <1>3 DEF BookSnapshot
  <2>2. used'.updates = u /\ used'.snapshots = used.snapshots + 1
    BY <1>0, <1>3 DEF BookSnapshot
  <2>3. UNCHANGED <<feeds, seqMap, backpressureDisconnects>>
    BY <1>3 DEF BookSnapshot, serverVars
  <2>4. ASSUME NEW b \in Books PROVE books'[b].snapshots <= used'.snapshots + 1
    <3>1. books'[b].snapshots \in {books[b].snapshots, books[b].snapshots + 1} BY <1>0, <2>1
    <3>2. books[b].snapshots \in Nat /\ books[b].snapshots <= used.snapshots + 1
      <4>1. books[b] \in BookType BY <1>0
      <4> QED BY <1>c, <4>1 DEF BookType
    <3> QED BY <1>0, <2>2, <3>1, <3>2
  <2> QED BY <1>c, <2>2, <2>3, <2>4 DEF Counted, Pending, Unnumbered, Busy
<1>4. ASSUME NEW s \in Books, BookCleared(s) PROVE Counted'
  <2>1. \A b \in Books : books'[b].snapshots = books[b].snapshots
    BY <1>0, <1>4 DEF BookCleared
  <2>2. UNCHANGED <<feeds, seqMap, backpressureDisconnects, used>>
    BY <1>4 DEF BookCleared, serverVars
  <2> QED BY <1>c, <2>1, <2>2 DEF Counted, Pending, Unnumbered, Busy
<1>5. ASSUME NEW e \in Exchanges, Number(e) PROVE Counted'
  <2> DEFINE s == feeds[e].stream
  <2>1. /\ feeds[e].pc = "broadcast" /\ seqMap' = [seqMap EXCEPT ![s] = @ + 1]
        /\ feeds' \in [Exchanges -> FeedType]
        /\ feeds'[e].pc = "send" /\ \A d \in Exchanges : d # e => feeds'[d] = feeds[d]
    BY <1>0, <1>5, StepTyped DEF Number, FeedType, Typed
  <2>2. UNCHANGED <<books, backpressureDisconnects, used>> BY <1>5 DEF Number
  <2>3. s \in Books /\ ExchangeOf[s] = e BY <1>f, <2>1
  <2>4. Busy' = Busy BY <2>1 DEF Busy
  <2>5. ASSUME NEW b \in Books PROVE seqMap'[b] + Pending(b)' <= u
    <3>0. seqMap[b] \in Nat /\ ExchangeOf[b] \in Exchanges BY <1>0, Bounds, SubscriberAssumption
    <3>1. CASE b = s
      <4>1. Pending(b) = 1 BY <2>1, <2>3, <3>1 DEF Pending, Unnumbered
      <4>2. Pending(b)' = 0 BY <2>1, <2>3, <3>1 DEF Pending, Unnumbered
      <4>3. seqMap'[b] = seqMap[b] + 1 BY <1>0, <2>1, <3>1
      <4>4. seqMap[b] + Pending(b) <= u BY <1>c
      <4> HIDE DEF s, u
      <4> QED BY <1>0, <3>0, <4>1, <4>2, <4>3, <4>4
    <3>2. CASE b # s
      <4>1. Pending(b)' = Pending(b)
        <5>1. CASE ExchangeOf[b] = e
          BY <2>1, <3>2, <5>1 DEF Pending, Unnumbered
        <5>2. CASE ExchangeOf[b] # e
          <6>1. feeds'[ExchangeOf[b]] = feeds[ExchangeOf[b]] BY <2>1, <3>0, <5>2
          <6> QED BY <6>1 DEF Pending, Unnumbered
        <5> QED BY <5>1, <5>2
      <4>2. seqMap'[b] = seqMap[b] BY <1>0, <2>1, <3>2
      <4> QED BY <1>c, <4>1, <4>2
    <3> QED BY <3>1, <3>2
  <2> QED BY <1>c, <2>2, <2>4, <2>5, SMTT(60) DEF Counted
<1>6. ASSUME NEW e \in Exchanges, RemoveSlow(e) PROVE Counted'
  <2> DEFINE gone == Cardinality(feeds[e].closed)
  <2>1. /\ feeds[e].pc = "send" /\ feeds' = [feeds EXCEPT ![e] = IdleFeed]
        /\ backpressureDisconnects' = backpressureDisconnects + gone
        /\ UNCHANGED <<books, seqMap, used>>
    BY <1>6 DEF RemoveSlow
  <2>2. /\ feeds'[e].pc = "idle" /\ \A d \in Exchanges : d # e => feeds'[d] = feeds[d]
    BY <1>0, <2>1 DEF IdleFeed
  <2>3. gone \in Nat /\ gone <= k
    <3>1. feeds[e].closed \subseteq Clients BY <1>0 DEF FeedType
    <3> QED BY <3>1, SubscriberAssumption, FS_Subset, FS_CardinalityType
  <2>4. Busy' = Busy \ {e} /\ e \in Busy BY <2>1, <2>2 DEF Busy
  <2>5. Cardinality(Busy') = busy - 1 /\ busy - 1 \in Nat
    <3>1. Cardinality(Busy') = busy - 1 BY <1>b, <2>4, FS_RemoveElement
    <3>2. Cardinality(Busy') \in Nat BY <1>b, <2>4, BusyFinite DEF Busy
    <3> QED BY <3>1, <3>2
  <2>6. backpressureDisconnects' <= (u - (busy - 1)) * k
    <3> HIDE DEF u, busy, gone, k
    <3>1. u - busy \in Nat /\ u - (busy - 1) = (u - busy) + 1 BY <1>0, <1>b, <1>c
    <3>2. ((u - busy) + 1) * k = (u - busy) * k + k /\ (u - busy) * k \in Nat
      BY <1>k, <3>1, Rounds
    <3> QED BY <1>0, <1>c, <1>k, <2>1, <2>3, <3>1, <3>2
  <2>7. busy - 1 <= u BY <1>0, <1>b, <1>c
  <2>8. ASSUME NEW b \in Books PROVE Pending(b)' = Pending(b)
    <3>0. ExchangeOf[b] \in Exchanges BY SubscriberAssumption
    <3>1. CASE ExchangeOf[b] = e BY <2>1, <2>2, <3>1 DEF Pending, Unnumbered
    <3>2. CASE ExchangeOf[b] # e
      <4>1. feeds'[ExchangeOf[b]] = feeds[ExchangeOf[b]] BY <2>2, <3>0, <3>2
      <4> QED BY <4>1 DEF Pending, Unnumbered
    <3> QED BY <3>1, <3>2
  <2>9. \A b \in Books : seqMap'[b] + Pending(b)' <= u BY <1>c, <2>1, <2>8
  <2>10. used' = used /\ books' = books BY <2>1
  <2>11. Cardinality(Busy)' = busy - 1 BY <2>5
  <2>12. k' = k OBVIOUS
  <2> HIDE DEF u, busy, k
  <2> QED BY <1>c, <2>6, <2>7, <2>9, <2>10, <2>11 DEF Counted, u, k
<1>7. ASSUME NEW e \in Exchanges, NEW c \in Clients, Send(e, c) \/ CloseSlow(e, c) PROVE Counted'
  <2>1. UNCHANGED <<books, seqMap, backpressureDisconnects, used>> BY <1>7 DEF Send, CloseSlow
  <2>2. \A d \in Exchanges : feeds'[d].pc = feeds[d].pc /\ feeds'[d].stream = feeds[d].stream
    <3>1. ASSUME NEW d \in Exchanges, d # e PROVE feeds'[d] = feeds[d]
      BY <1>0, <1>7, <3>1 DEF Send, CloseSlow
    <3>2. \/ feeds'[e] = [feeds[e] EXCEPT !.targets = @ \ {c}]
          \/ feeds'[e] = [feeds[e] EXCEPT !.targets = @ \ {c}, !.closed = @ \cup {c}]
      BY <1>0, <1>7 DEF Send, CloseSlow
    <3>3. feeds[e] \in FeedType BY <1>0
    <3>4. feeds'[e].pc = feeds[e].pc /\ feeds'[e].stream = feeds[e].stream
      BY <3>2, <3>3 DEF FeedType
    <3> QED BY <3>1, <3>4
  <2>3. Busy' = Busy BY <2>2 DEF Busy
  <2>4. \A b \in Books : ExchangeOf[b] \in Exchanges BY SubscriberAssumption
  <2>5. \A b \in Books : Pending(b)' = Pending(b) BY <2>2, <2>4 DEF Pending, Unnumbered
  <2> QED BY <1>c, <2>1, <2>3, <2>5 DEF Counted
<1>8. ASSUME NEW c \in Clients, Request(c),
             UNCHANGED <<books, feeds, seqMap, backpressureDisconnects>>
      PROVE  Counted'
  <2>1. used'.updates = used.updates /\ used'.snapshots = used.snapshots
    BY <1>0, <1>8 DEF Request
  <2> QED BY <1>1, <1>8, <2>1
<1> QED
  BY <1>1, <1>2, <1>3, <1>4, <1>5, <1>6, <1>7, <1>8
  DEF Next, Feed, Book, Connection, Connect, SendSnapshot, ClientCloses,
      CloseCallback, Capture, Subscribe, Unsubscribe, serverVars, feedVars

\* What an update, and what a snapshot, leaves of a client's copy.
LEMMA UpdateKeepsState ==
    ASSUME NEW r, NEW u PROVE r \in ReplicaType => WithUpdate(r, u).state = r.state
BY DEF WithUpdate, ReplicaType

\* A client that keeps its socket, its requests, its copies and its entry.
LEMMA SocketFrame ==
    ASSUME IInv, NEW c \in Clients, sockets'[c] = sockets[c], handlers'[c] = handlers[c],
           replicas'[c] = replicas[c],
           sockets[c] = "open" => c \in DOMAIN clients' /\ clients'[c].socket,
           sockets[c] = "closed" => c \notin DOMAIN clients'
    PROVE  SocketOK(c)'
BY SMTT(60) DEF IInv, SocketOK, Idle

\* A client is known while it is connected and forgotten once it has gone.
LEMMA StepSocket == ASSUME IInv, Next PROVE \A c \in Clients : SocketOK(c)'
<1>0. /\ sockets \in [Clients -> {"none", "open", "closing", "closed"}]
      /\ handlers \in [Clients -> HandlerType]
      /\ replicas \in [Clients -> [Streams -> ReplicaType]]
      /\ clients \in [DOMAIN clients -> EntryType]
  BY DEF IInv, Typed
<1> SUFFICES ASSUME NEW c \in Clients PROVE SocketOK(c)'
  OBVIOUS
<1>s. SocketOK(c) BY DEF IInv
<1>o. /\ sockets[c] = "open" => c \in DOMAIN clients /\ clients[c].socket
      /\ sockets[c] = "closed" => c \notin DOMAIN clients
  BY <1>s DEF SocketOK
<1>1. CASE UNCHANGED <<clients, sockets, handlers, replicas>>
  BY <1>1, <1>o, SocketFrame
<1>2. ASSUME NEW e \in Exchanges, RemoveSlow(e) PROVE SocketOK(c)'
  <2> DEFINE gone == feeds[e].closed
  <2>1. clients' = Restrict(clients, DOMAIN clients \ gone)
        /\ UNCHANGED <<sockets, handlers, replicas>>
    BY <1>2 DEF RemoveSlow
  <2>2. sockets[c] = "open" => c \notin gone BY DEF IInv, FeedOK
  <2> HIDE DEF gone
  <2>3. /\ \A d \in DOMAIN clients' : d \in DOMAIN clients /\ clients'[d] = clients[d]
        /\ \A d \in DOMAIN clients : d \in DOMAIN clients' \/ d \in gone
    BY <2>1, DropEntries DEF IInv
  <2> QED BY <1>o, <2>1, <2>2, <2>3, SocketFrame
<1>3. ASSUME NEW e \in Exchanges, NEW d \in Clients, Send(e, d) PROVE SocketOK(c)'
  <2>1. UNCHANGED <<clients, sockets, handlers>> BY <1>3 DEF Send
  <2>2. CASE c # d \/ sockets[c] # "open"
    <3>1. replicas'[c] = replicas[c] BY <1>0, <1>3, <2>2 DEF Send
    <3> QED BY <1>o, <2>1, <3>1, SocketFrame
  <2>3. CASE sockets[c] = "open" BY <1>o, <2>1, <2>3 DEF SocketOK
  <2> QED BY <2>2, <2>3
<1>4. ASSUME NEW e \in Exchanges, NEW d \in Clients, CloseSlow(e, d) PROVE SocketOK(c)'
  <2>1. UNCHANGED <<clients, handlers, replicas>> BY <1>4 DEF CloseSlow
  <2>2. CASE c # d
    <3>1. sockets'[c] = sockets[c] BY <1>0, <1>4, <2>2 DEF CloseSlow
    <3> QED BY <1>o, <2>1, <3>1, SocketFrame
  <2>3. CASE c = d
    <3>1. sockets'[c] = "closing" BY <1>0, <1>4, <2>3 DEF CloseSlow
    <3> QED BY <3>1 DEF SocketOK
  <2> QED BY <2>2, <2>3
<1>5. ASSUME NEW d \in Clients, Connect(d) PROVE SocketOK(c)'
  <2> DEFINE entry == [socket |-> TRUE, streams |-> {}]
  <2>1. /\ UNCHANGED <<handlers, replicas>> /\ clients' = WithEntry(d, entry)
        /\ sockets' = [sockets EXCEPT ![d] = "open"]
    BY <1>5 DEF Connect
  <2>2. entry \in EntryType BY DEF EntryType
  <2>e. entry.socket OBVIOUS
  <2> HIDE DEF entry
  <2>3. /\ d \in DOMAIN clients' /\ clients'[d] = entry
        /\ \A x \in DOMAIN clients' : x # d => x \in DOMAIN clients /\ clients'[x] = clients[x]
        /\ \A x \in DOMAIN clients : x \in DOMAIN clients'
    BY <2>1, <2>2, PutEntry DEF IInv
  <2>4. CASE c # d
    <3>1. sockets'[c] = sockets[c] BY <1>0, <2>1, <2>4
    <3>2. sockets[c] = "open" => c \in DOMAIN clients' /\ clients'[c].socket
      BY <1>o, <2>3, <2>4
    <3>3. sockets[c] = "closed" => c \notin DOMAIN clients' BY <1>o, <2>3, <2>4
    <3> QED BY <2>1, <3>1, <3>2, <3>3, SocketFrame
  <2>5. CASE c = d
    <3>1. sockets'[c] = "open" BY <1>0, <2>1, <2>5
    <3> QED BY <2>3, <2>5, <2>e, <3>1 DEF SocketOK
  <2> QED BY <2>4, <2>5
<1>6. ASSUME NEW d \in Clients, SendSnapshot(d) PROVE SocketOK(c)'
  <2>1. UNCHANGED <<clients, sockets>> BY <1>6 DEF SendSnapshot
  <2>2. CASE c # d
    <3>1. handlers'[c] = handlers[c] /\ replicas'[c] = replicas[c]
      BY <1>0, <1>6, <2>2 DEF SendSnapshot
    <3> QED BY <1>o, <2>1, <3>1, SocketFrame
  <2>3. CASE c = d
    <3>1. ~Idle(c) BY <1>6, <2>3 DEF SendSnapshot, Idle, IdleHandler
    <3>2. sockets[c] \notin {"none", "closed"} BY <1>s, <3>1 DEF SocketOK
    <3> QED BY <1>o, <2>1, <3>2 DEF SocketOK
  <2> QED BY <2>2, <2>3
<1>7. ASSUME NEW d \in Clients, ClientCloses(d) PROVE SocketOK(c)'
  <2>1. UNCHANGED <<clients, handlers, replicas>> BY <1>7 DEF ClientCloses
  <2>2. CASE c # d
    <3>1. sockets'[c] = sockets[c] BY <1>0, <1>7, <2>2 DEF ClientCloses
    <3> QED BY <1>o, <2>1, <3>1, SocketFrame
  <2>3. CASE c = d
    <3>1. sockets'[c] = "closing" BY <1>0, <1>7, <2>3 DEF ClientCloses
    <3> QED BY <3>1 DEF SocketOK
  <2> QED BY <2>2, <2>3
<1>8. ASSUME NEW d \in Clients, CloseCallback(d) PROVE SocketOK(c)'
  <2>1. /\ Idle(d) /\ sockets' = [sockets EXCEPT ![d] = "closed"]
        /\ clients' = Restrict(clients, DOMAIN clients \ {d}) /\ UNCHANGED <<handlers, replicas>>
    BY <1>8 DEF CloseCallback
  <2>2. /\ \A x \in DOMAIN clients' : x \in DOMAIN clients /\ clients'[x] = clients[x]
        /\ \A x \in DOMAIN clients : x \in DOMAIN clients' \/ x \in {d}
        /\ \A x \in {d} : x \notin DOMAIN clients'
    BY <2>1, DropEntries DEF IInv
  <2>3. CASE c # d
    <3>1. sockets'[c] = sockets[c] BY <1>0, <2>1, <2>3
    <3>2. sockets[c] = "open" => c \in DOMAIN clients' /\ clients'[c].socket
      BY <1>o, <2>2, <2>3
    <3> QED BY <1>o, <2>1, <2>2, <3>1, <3>2, SocketFrame
  <2>4. CASE c = d
    <3>1. sockets'[c] = "closed" BY <1>0, <2>1, <2>4
    <3>2. Idle(c)' BY <2>1, <2>4 DEF Idle
    <3> QED BY <2>2, <2>4, <3>1, <3>2 DEF SocketOK
  <2> QED BY <2>3, <2>4
<1>9. ASSUME NEW d \in Clients, NEW s \in Streams, Capture(d, s) PROVE SocketOK(c)'
  <2> DEFINE entry == IF d \in DOMAIN clients THEN clients[d]
                      ELSE [socket |-> FALSE, streams |-> {}]
             new == [entry EXCEPT !.streams = @ \cup {s}]
  <2>1. UNCHANGED <<sockets, replicas>> /\ clients' = WithEntry(d, new) BY <1>9 DEF Capture
  <2>2. entry \in EntryType BY <1>0 DEF EntryType
  <2>3. new \in EntryType /\ new.socket = entry.socket
    <3> HIDE DEF entry
    <3> QED BY <2>2 DEF EntryType
  <2>4. sockets[d] = "open" => entry.socket BY DEF IInv, SocketOK
  <2> HIDE DEF new, entry
  <2>5. /\ d \in DOMAIN clients' /\ clients'[d] = new
        /\ \A x \in DOMAIN clients' : x # d => x \in DOMAIN clients /\ clients'[x] = clients[x]
        /\ \A x \in DOMAIN clients : x \in DOMAIN clients'
    BY <2>1, <2>3, PutEntry DEF IInv
  <2>6. CASE c # d
    <3>1. handlers'[c] = handlers[c] BY <1>0, <1>9, <2>6 DEF Capture
    <3>2. sockets[c] = "open" => c \in DOMAIN clients' /\ clients'[c].socket
      BY <1>o, <2>5, <2>6
    <3>3. sockets[c] = "closed" => c \notin DOMAIN clients' BY <1>o, <2>5, <2>6
    <3> QED BY <2>1, <3>1, <3>2, <3>3, SocketFrame
  <2>7. CASE c = d
    <3>1. ~Idle(c) BY <1>9, <2>7 DEF Capture, Idle, IdleHandler
    <3>2. sockets[c] \notin {"none", "closed"} BY <1>s, <3>1 DEF SocketOK
    <3> QED BY <2>1, <2>3, <2>4, <2>5, <2>7, <3>2 DEF SocketOK
  <2> QED BY <2>6, <2>7
<1>10. ASSUME NEW d \in Clients, NEW streams \in SUBSET Streams, Subscribe(d, streams)
       PROVE  SocketOK(c)'
  <2>1. UNCHANGED <<clients, sockets>> /\ sockets[d] \in {"open", "closing"}
    BY <1>10 DEF Subscribe, Request
  <2>2. CASE c # d
    <3>1. handlers'[c] = handlers[c] /\ replicas'[c] = replicas[c]
      BY <1>0, <1>10, <2>2 DEF Subscribe
    <3> QED BY <1>o, <2>1, <3>1, SocketFrame
  <2>3. CASE c = d BY <1>o, <2>1, <2>3 DEF SocketOK
  <2> QED BY <2>2, <2>3
<1>11. ASSUME NEW d \in Clients, NEW streams \in SUBSET Streams, Unsubscribe(d, streams)
       PROVE  SocketOK(c)'
  <2>1. UNCHANGED <<handlers, sockets>> /\ sockets[d] \in {"open", "closing"}
    BY <1>11 DEF Unsubscribe, Request
  <2>2. /\ DOMAIN clients' = DOMAIN clients
        /\ \A x \in DOMAIN clients : x # d => clients'[x] = clients[x]
    BY <1>0, <1>11 DEF Unsubscribe
  <2>3. d \in DOMAIN clients => clients'[d].socket = clients[d].socket
    <3> SUFFICES ASSUME d \in DOMAIN clients PROVE clients'[d].socket = clients[d].socket
      OBVIOUS
    <3>1. clients[d] \in EntryType BY <1>0
    <3>2. clients'[d] = [clients[d] EXCEPT !.streams = @ \ streams]
      BY <1>0, <1>11 DEF Unsubscribe
    <3> QED BY <3>1, <3>2 DEF EntryType
  <2>4. CASE c # d
    <3>1. replicas'[c] = replicas[c] BY <1>0, <1>11, <2>4 DEF Unsubscribe
    <3> QED BY <1>o, <2>1, <2>2, <2>4, <3>1, SocketFrame
  <2>5. CASE c = d BY <1>o, <2>1, <2>2, <2>3, <2>5, SMTT(60) DEF SocketOK
  <2> QED BY <2>4, <2>5
<1> QED
  BY <1>1, <1>2, <1>3, <1>4, <1>5, <1>6, <1>7, <1>8, <1>9, <1>10, <1>11
  DEF Next, Feed, Book, Connection, UpdateBook, BookSnapshot, BookCleared, Number, serverVars

\* A client goes on waiting for what it has asked for.
LEMMA StepHandler == ASSUME IInv, Next PROVE \A c \in Clients : HandlerOK(c)'
<1>0. /\ handlers \in [Clients -> HandlerType]
      /\ replicas \in [Clients -> [Streams -> ReplicaType]]
  BY DEF IInv, Typed
<1> SUFFICES ASSUME NEW c \in Clients PROVE HandlerOK(c)'
  OBVIOUS
<1>h. HandlerOK(c) BY DEF IInv
<1>n. NoMessage.stream = NoStream /\ NoStream \notin Streams
  BY SubscriberAssumption DEF NoMessage
<1>1. CASE handlers'[c] = handlers[c] /\ \A s \in Streams :
              replicas[c][s].state = "waiting" => replicas'[c][s].state = "waiting"
  BY <1>1, <1>h DEF HandlerOK
<1>2. CASE UNCHANGED <<handlers, replicas>> BY <1>1, <1>2
<1>3. ASSUME NEW e \in Exchanges, NEW d \in Clients, Send(e, d) PROVE HandlerOK(c)'
  <2>1. handlers' = handlers BY <1>3 DEF Send
  <2>2. ASSUME NEW s \in Streams PROVE replicas'[c][s].state = replicas[c][s].state
    <3>1. replicas'[c][s] = replicas[c][s]
          \/ \E u : replicas'[c][s] = WithUpdate(replicas[c][s], u)
      BY <1>0, <1>3 DEF Send
    <3>2. replicas[c][s] \in ReplicaType BY <1>0
    <3> QED BY <3>1, <3>2, UpdateKeepsState
  <2> QED BY <1>1, <2>1, <2>2
<1>4. ASSUME NEW d \in Clients, SendSnapshot(d) PROVE HandlerOK(c)'
  <2>1. CASE c # d
    <3>1. handlers'[c] = handlers[c] /\ replicas'[c] = replicas[c]
      BY <1>0, <1>4, <2>1 DEF SendSnapshot
    <3> QED BY <1>1, <3>1
  <2>2. CASE c = d
    <3> DEFINE t == handlers[c].snapshot.stream
    <3>1. handlers'[c].todo = handlers[c].todo /\ handlers'[c].snapshot = NoMessage
      BY <1>0, <1>4, <2>2 DEF SendSnapshot, HandlerType
    <3>2. \A s \in Streams : s # t => replicas'[c][s] = replicas[c][s]
      BY <1>0, <1>4, <2>2 DEF SendSnapshot
    <3>3. handlers[c].todo \subseteq Streams BY <1>0 DEF HandlerType
    <3> QED BY <1>h, <1>n, <3>1, <3>2, <3>3 DEF HandlerOK
  <2> QED BY <2>1, <2>2
<1>5. ASSUME NEW d \in Clients, NEW s \in Streams, Capture(d, s) PROVE HandlerOK(c)'
  <2>1. CASE c # d
    <3>1. handlers'[c] = handlers[c] /\ replicas'[c] = replicas[c]
      BY <1>0, <1>5, <2>1 DEF Capture
    <3> QED BY <1>1, <3>1
  <2>2. CASE c = d
    <3> DEFINE msg == IF s \in Books /\ books[s].applied
                      THEN [stream |-> s, levels |-> books[s].levels,
                            seq |-> SnapshotNumber(s), since |-> books[s].snapshots]
                      ELSE NoMessage
    <3>1. msg = NoMessage \/ msg.stream = s OBVIOUS
    <3>2. /\ s \in handlers[c].todo /\ replicas' = replicas
          /\ handlers' = [handlers EXCEPT ![c].todo = @ \ {s}, ![c].snapshot = msg]
      BY <1>5, <2>2 DEF Capture
    <3> HIDE DEF msg
    <3>3. handlers'[c].todo = handlers[c].todo \ {s} /\ handlers'[c].snapshot = msg
      BY <1>0, <3>2 DEF HandlerType
    <3>4. handlers[c].todo \subseteq Streams BY <1>0 DEF HandlerType
    <3> QED BY <1>h, <1>n, <3>1, <3>2, <3>3, <3>4 DEF HandlerOK
  <2> QED BY <2>1, <2>2
<1>6. ASSUME NEW d \in Clients, NEW streams \in SUBSET Streams, Subscribe(d, streams)
      PROVE  HandlerOK(c)'
  <2>1. CASE c # d
    <3>1. handlers'[c] = handlers[c] /\ replicas'[c] = replicas[c]
      BY <1>0, <1>6, <2>1 DEF Subscribe
    <3> QED BY <1>1, <3>1
  <2>2. CASE c = d
    <3>1. handlers[c].snapshot = NoMessage
      BY <1>6, <2>2 DEF Subscribe, Request, Idle, IdleHandler
    <3>2. handlers'[c].todo = streams /\ handlers'[c].snapshot = NoMessage
      BY <1>0, <1>6, <2>2, <3>1 DEF Subscribe, HandlerType
    <3>3. \A s \in streams : replicas'[c][s] = Awaiting BY <1>0, <1>6, <2>2 DEF Subscribe
    <3>4. Awaiting.state = "waiting" BY DEF Awaiting, NoReplica
    <3> QED BY <1>n, <3>2, <3>3, <3>4 DEF HandlerOK
  <2> QED BY <2>1, <2>2
<1>7. ASSUME NEW d \in Clients, NEW streams \in SUBSET Streams, Unsubscribe(d, streams)
      PROVE  HandlerOK(c)'
  <2>0. handlers' = handlers BY <1>7 DEF Unsubscribe
  <2>1. CASE c # d
    <3>1. replicas'[c] = replicas[c] BY <1>0, <1>7, <2>1 DEF Unsubscribe
    <3> QED BY <1>1, <2>0, <3>1
  <2>2. CASE c = d
    <3>1. handlers[c].snapshot = NoMessage /\ handlers[c].todo = {}
      BY <1>7, <2>2 DEF Unsubscribe, Request, Idle, IdleHandler
    <3> QED BY <1>n, <2>0, <3>1 DEF HandlerOK
  <2> QED BY <2>1, <2>2
<1> QED
  BY <1>2, <1>3, <1>4, <1>5, <1>6, <1>7
  DEF Next, Feed, Book, Connection, UpdateBook, BookSnapshot, BookCleared, Number, RemoveSlow,
      CloseSlow, Connect, ClientCloses, CloseCallback, serverVars

\* What has been put aside has been numbered, after a step that adds nothing to it.
LEMMA AsideFrame ==
    ASSUME IInv, Typed', NEW c \in Clients, NEW s \in Books, seqMap[s] <= seqMap'[s],
           replicas'[c][s].aside = replicas[c][s].aside \/ replicas'[c][s].aside = << >>
    PROVE  AsideOK(c, s)'
<1>0. /\ replicas[c][s] \in ReplicaType /\ replicas'[c][s] \in ReplicaType
      /\ seqMap[s] \in Nat /\ seqMap'[s] \in Nat
  BY SubscriberAssumption, Bounds DEF IInv, Typed
<1>1. CASE replicas'[c][s].aside = << >>
  <2>1. 1 .. Len(replicas'[c][s].aside) = {} BY <1>1, EmptySeq
  <2> QED BY <2>1 DEF AsideOK
<1>2. CASE replicas'[c][s].aside = replicas[c][s].aside
  <2>1. replicas[c][s].aside \in Seq(UpdateType) BY <1>0 DEF ReplicaType, UpdateType
  <2>2. \A i \in 1 .. Len(replicas[c][s].aside) : replicas[c][s].aside[i].seq \in Nat
    <3> SUFFICES ASSUME NEW i \in 1 .. Len(replicas[c][s].aside)
                 PROVE  replicas[c][s].aside[i].seq \in Nat
      OBVIOUS
    <3>1. replicas[c][s].aside[i] \in UpdateType BY <2>1, ElementOfSeq
    <3>2. replicas[c][s].aside[i].seq \in 1 .. MaxUpdates BY <3>1 DEF UpdateType
    <3> QED BY <3>2, Bounds
  <2>3. AsideOK(c, s) BY DEF IInv
  <2> SUFFICES ASSUME NEW i \in 1 .. Len(replicas[c][s].aside)
               PROVE  replicas[c][s].aside[i].seq <= seqMap'[s]
    BY <1>2 DEF AsideOK
  <2>4. PICK n \in Nat : n = replicas[c][s].aside[i].seq BY <2>2
  <2>5. PICK m \in Nat : m = seqMap[s] BY <1>0
  <2>6. PICK k \in Nat : k = seqMap'[s] BY <1>0
  <2>7. n <= m BY <2>3, <2>4, <2>5 DEF AsideOK
  <2>8. m <= k BY <2>5, <2>6
  <2>9. n <= k BY <2>7, <2>8
  <2> QED BY <2>4, <2>6, <2>9
<1> QED BY <1>1, <1>2

\* An update in the feed's hands is one that a client may put aside.
LEMMA UpdateOfFeed ==
    ASSUME IInv, NEW e \in Exchanges, feeds[e].pc = "send"
    PROVE  /\ [seq |-> feeds[e].seq, change |-> feeds[e].change] \in UpdateType
           /\ feeds[e].stream \in Books /\ feeds[e].seq = seqMap[feeds[e].stream]
<1>1. /\ feeds[e].seq \in 0 .. MaxUpdates /\ feeds[e].seq > 0 /\ feeds[e].change \in Changes
      /\ feeds[e].stream \in Books /\ feeds[e].seq = seqMap[feeds[e].stream]
  BY DEF IInv, Typed, FeedOK, FeedType
<1>2. feeds[e].seq \in 1 .. MaxUpdates BY <1>1, Bounds
<1> QED BY <1>1, <1>2 DEF UpdateType

\* Numbers only grow.
LEMMA NumbersGrow ==
    ASSUME IInv, Next, NEW s \in Books
    PROVE  seqMap[s] \in Nat /\ seqMap[s] <= seqMap'[s]
<1>0. /\ seqMap \in [Books -> 0 .. MaxUpdates]
      /\ seqMap[s] \in Nat
  <2>1. seqMap \in [Books -> 0 .. MaxUpdates] BY DEF IInv, Typed
  <2> QED BY <2>1, Bounds
<1>1. seqMap' = seqMap \/ \E t : seqMap' = [seqMap EXCEPT ![t] = @ + 1]
  BY ZenonT(60) DEF Next, Feed, Book, Connection, UpdateBook, BookSnapshot, BookCleared, Number, RemoveSlow,
         Send, CloseSlow, Connect, SendSnapshot, ClientCloses, CloseCallback, Capture, Subscribe,
         Unsubscribe, serverVars
<1>2. seqMap'[s] = seqMap[s] \/ seqMap'[s] = seqMap[s] + 1
  <2>1. ASSUME NEW t, seqMap' = [seqMap EXCEPT ![t] = @ + 1]
        PROVE  seqMap'[s] = seqMap[s] \/ seqMap'[s] = seqMap[s] + 1
    <3>1. CASE t = s BY <1>0, <2>1, <3>1
    <3>2. CASE t # s BY <1>0, <2>1, <3>2
    <3> QED BY <3>1, <3>2
  <2> QED BY <1>1, <2>1
<1>3. PICK n \in Nat : n = seqMap[s] BY <1>0
<1>4. seqMap'[s] = n \/ seqMap'[s] = n + 1 BY <1>2, <1>3
<1> QED BY <1>0, <1>3, <1>4

\* What clients put aside has been numbered.
LEMMA StepAside == ASSUME IInv, Next PROVE \A c \in Clients, s \in Books : AsideOK(c, s)'
<1>0. Typed' /\ replicas \in [Clients -> [Streams -> ReplicaType]] /\ Books \subseteq Streams
  BY StepTyped, SubscriberAssumption DEF IInv, Typed
<1> SUFFICES ASSUME NEW c \in Clients, NEW s \in Books PROVE AsideOK(c, s)'
  OBVIOUS
<1>g. seqMap[s] <= seqMap'[s] BY NumbersGrow
<1>1. CASE replicas'[c][s].aside = replicas[c][s].aside \/ replicas'[c][s].aside = << >>
  BY <1>0, <1>1, <1>g, AsideFrame
<1>2. ASSUME NEW e \in Exchanges, NEW d \in Clients, Send(e, d) PROVE AsideOK(c, s)'
  <2> DEFINE u == [seq |-> feeds[e].seq, change |-> feeds[e].change]
             r == replicas[c][s]
  <2>1. u \in UpdateType /\ feeds[e].seq = seqMap[feeds[e].stream] /\ seqMap' = seqMap
    BY <1>2, UpdateOfFeed DEF Send
  <2>2. u.seq = feeds[e].seq OBVIOUS
  <2>3. replicas'[c][s] = r \/ (s = feeds[e].stream /\ replicas'[c][s] = WithUpdate(r, u))
    BY <1>0, <1>2 DEF Send
  <2>4. r \in ReplicaType BY <1>0
  <2> HIDE DEF u, r
  <2>5. CASE replicas'[c][s] = r BY <1>1, <2>5 DEF r
  <2>6. CASE s = feeds[e].stream /\ replicas'[c][s] = WithUpdate(r, u) /\ r.state = "waiting"
    <3>1. replicas'[c][s].aside = Append(r.aside, u)
      BY <2>4, <2>6 DEF WithUpdate, ReplicaType
    <3>2. r.aside \in Seq(UpdateType) BY <2>4 DEF ReplicaType, UpdateType
    <3>3. /\ Len(Append(r.aside, u)) = Len(r.aside) + 1 /\ Len(r.aside) \in Nat
          /\ Append(r.aside, u)[Len(r.aside) + 1] = u
          /\ \A i \in 1 .. Len(r.aside) : Append(r.aside, u)[i] = r.aside[i]
      BY <2>1, <3>2, AppendProperties, LenProperties
    <3>4. \A i \in 1 .. Len(r.aside) : r.aside[i].seq <= seqMap[s] BY DEF IInv, AsideOK, r
    <3>5. u.seq <= seqMap[s]
      <4>1. u.seq = seqMap[s] BY <2>1, <2>2, <2>6
      <4> QED BY <4>1, NumbersGrow
    <3>6. ASSUME NEW i \in 1 .. Len(Append(r.aside, u))
          PROVE  Append(r.aside, u)[i].seq <= seqMap[s]
      <4>1. i \in 1 .. Len(r.aside) \/ i = Len(r.aside) + 1 BY <3>3
      <4> QED BY <3>3, <3>4, <3>5, <4>1
    <3> QED BY <2>1, <3>1, <3>6 DEF AsideOK
  <2>7. CASE s = feeds[e].stream /\ replicas'[c][s] = WithUpdate(r, u) /\ r.state # "waiting"
    <3>1. WithUpdate(r, u).aside = r.aside BY <2>4, <2>7 DEF WithUpdate, ReplicaType
    <3> QED BY <1>1, <2>7, <3>1 DEF r
  <2> QED BY <2>3, <2>5, <2>6, <2>7
<1>3. ASSUME NEW d \in Clients, SendSnapshot(d) PROVE AsideOK(c, s)'
  <2> DEFINE msg == handlers[d].snapshot
             r == replicas[c][s]
  <2>1. msg \in MessageType BY DEF IInv, Typed, HandlerType
  <2>2. replicas'[c][s] = r \/ replicas'[c][s] = WithSnapshot(r, msg)
    BY <1>0, <1>3 DEF SendSnapshot
  <2>3. r \in ReplicaType BY <1>0
  <2> HIDE DEF msg, r
  <2>4. WithSnapshot(r, msg) = r \/ WithSnapshot(r, msg).aside = << >>
    <3>1. CASE r.state = "none" BY <3>1 DEF WithSnapshot
    <3>2. CASE r.state # "none" BY <2>1, <2>3, <3>2, SnapshotMakesCopy DEF CopyType
    <3> QED BY <3>1, <3>2
  <2> QED BY <1>1, <2>2, <2>4 DEF r
<1>4. ASSUME NEW d \in Clients, NEW streams \in SUBSET Streams,
             Subscribe(d, streams) \/ Unsubscribe(d, streams)
      PROVE  AsideOK(c, s)'
  <2>1. replicas'[c][s] \in {replicas[c][s], Awaiting, NoReplica}
    BY <1>0, <1>4 DEF Subscribe, Unsubscribe
  <2>2. Awaiting.aside = << >> /\ NoReplica.aside = << >> BY DEF Awaiting, NoReplica
  <2> QED BY <1>1, <2>1, <2>2
<1>5. CASE UNCHANGED replicas BY <1>1, <1>5
<1> QED
  BY <1>2, <1>3, <1>4, <1>5
  DEF Next, Feed, Book, Connection, UpdateBook, BookSnapshot, BookCleared, Number, RemoveSlow,
      CloseSlow, Connect, ClientCloses, CloseCallback, Capture, serverVars

\* A feed that a step has not touched, or only what it sends to.
SameWork(e) ==
    /\ feeds'[e].pc = feeds[e].pc /\ feeds'[e].stream = feeds[e].stream
    /\ feeds'[e].change = feeds[e].change

\* Sending to a client, or closing it, takes it from the targets and no more.
LEMMA TargetsOnly ==
    ASSUME IInv, NEW e \in Exchanges, NEW c \in Clients, Send(e, c) \/ CloseSlow(e, c),
           NEW d \in Exchanges
    PROVE  /\ SameWork(d)
           /\ d # e => feeds'[d] = feeds[d]
           /\ feeds'[e].targets = feeds[e].targets \ {c}
<1>0. feeds \in [Exchanges -> FeedType] BY DEF IInv, Typed
<1>1. d # e => feeds'[d] = feeds[d] BY <1>0 DEF Send, CloseSlow
<1>2. \/ feeds'[e] = [feeds[e] EXCEPT !.targets = @ \ {c}]
      \/ feeds'[e] = [feeds[e] EXCEPT !.targets = @ \ {c}, !.closed = @ \cup {c}]
  BY <1>0 DEF Send, CloseSlow
<1>3. feeds[e] \in FeedType BY <1>0
<1>4. /\ feeds'[e].pc = feeds[e].pc /\ feeds'[e].stream = feeds[e].stream
      /\ feeds'[e].change = feeds[e].change /\ feeds'[e].targets = feeds[e].targets \ {c}
  BY <1>2, <1>3 DEF FeedType
<1> QED BY <1>1, <1>4 DEF SameWork

\* The update that a feed is busy with stays in the book.
LEMMA StepChange == ASSUME IInv, Next PROVE \A s \in Books : ChangeInBook(s)'
<1>0. /\ books \in [Books -> BookType]
      /\ feeds \in [Exchanges -> FeedType]
  BY DEF IInv, Typed
<1> SUFFICES ASSUME NEW s \in Books PROVE ChangeInBook(s)'
  OBVIOUS
<1>e. ExchangeOf[s] \in Exchanges BY SubscriberAssumption
<1>c. ChangeInBook(s) BY DEF IInv
<1>1. CASE books'[s] = books[s] /\ SameWork(ExchangeOf[s])
  BY <1>1, <1>c DEF ChangeInBook, SameWork
<1>2. ASSUME NEW b \in Books, UpdateBook(b) PROVE ChangeInBook(s)'
  <2>1. PICK change \in Changes, dropped \in Drops :
              /\ dropped \cap DOMAIN change = {}
              /\ books'[b].levels =
                    Patched([p \in Prices |-> IF p \in dropped THEN 0 ELSE books[b].levels[p]],
                            change)
              /\ books'[b].applied
              /\ \A x \in Books : x # b => books'[x] = books[x]
              /\ \A e \in Exchanges : e # ExchangeOf[b] => feeds'[e] = feeds[e]
              /\ IF Silent(change) THEN feeds' = feeds
                 ELSE LET feed == feeds'[ExchangeOf[b]]
                      IN  feed.pc = "broadcast" /\ feed.stream = b /\ feed.change = change
    BY <1>2, UpdateOfBook
  <2>2. feeds[ExchangeOf[b]].pc = "idle" BY <1>2 DEF UpdateBook
  <2>3. CASE ExchangeOf[s] # ExchangeOf[b]
    <3>1. books'[s] = books[s] /\ feeds'[ExchangeOf[s]] = feeds[ExchangeOf[s]]
      BY <1>e, <2>1, <2>3
    <3> QED BY <1>1, <3>1 DEF SameWork
  <2>4. CASE ExchangeOf[s] = ExchangeOf[b] /\ Silent(change)
    <3>1. feeds'[ExchangeOf[s]].pc = "idle" BY <2>1, <2>2, <2>4
    <3> QED BY <3>1 DEF ChangeInBook
  <2>5. CASE ExchangeOf[s] = ExchangeOf[b] /\ ~Silent(change) /\ s # b
    <3>1. feeds'[ExchangeOf[s]].stream # s BY <2>1, <2>5
    <3> QED BY <3>1 DEF ChangeInBook
  <2>6. CASE ~Silent(change) /\ s = b
    <3>1. \A p \in DOMAIN change : books'[s].levels[p] = change[p]
      <4>1. DOMAIN change \subseteq Prices BY SubscriberAssumption
      <4> QED BY <2>1, <2>6, <4>1 DEF Patched
    <3>2. feeds'[ExchangeOf[s]].change = change /\ books'[s].applied BY <2>1, <2>6
    <3> QED BY <3>1, <3>2 DEF ChangeInBook, HasAt
  <2> QED BY <2>3, <2>4, <2>5, <2>6
<1>3. ASSUME NEW b \in Books, BookSnapshot(b) \/ BookCleared(b) PROVE ChangeInBook(s)'
  <2>1. feeds' = feeds BY <1>3 DEF BookSnapshot, BookCleared
  <2>2. CASE s # b
    <3>1. books'[s] = books[s] BY <1>0, <1>3, <2>2 DEF BookSnapshot, BookCleared
    <3> QED BY <1>1, <2>1, <3>1 DEF SameWork
  <2>3. CASE s = b
    <3>1. ExchangeOf[s] \in Workers \/ feeds[ExchangeOf[s]].pc = "idle"
      BY <1>3, <2>3 DEF BookSnapshot, BookCleared
    <3>2. books'[s].told = {}
      <4>1. books[s] \in BookType BY <1>0
      <4> QED BY <1>0, <1>3, <2>3, <4>1 DEF BookSnapshot, BookCleared, BookType
    <3> QED BY <2>1, <3>1, <3>2 DEF ChangeInBook, HasAt
  <2> QED BY <2>2, <2>3
<1>4. ASSUME NEW e \in Exchanges, Number(e) PROVE ChangeInBook(s)'
  <2> DEFINE targets == {c \in DOMAIN clients :
                           clients[c].socket /\ feeds[e].stream \in clients[c].streams}
  <2>1. /\ books' = books /\ feeds[e].pc = "broadcast"
        /\ feeds' = [feeds EXCEPT ![e].pc = "send", ![e].seq = seqMap[feeds[e].stream] + 1,
                                  ![e].targets = targets]
    BY <1>4 DEF Number
  <2> HIDE DEF targets
  <2>2. CASE ExchangeOf[s] # e
    <3>1. feeds'[ExchangeOf[s]] = feeds[ExchangeOf[s]] BY <1>0, <1>e, <2>1, <2>2
    <3> QED BY <1>1, <2>1, <3>1 DEF SameWork
  <2>3. CASE ExchangeOf[s] = e
    <3>1. feeds'[e] = [feeds[e] EXCEPT !.pc = "send", !.seq = seqMap[feeds[e].stream] + 1,
                                       !.targets = targets]
      BY <1>0, <2>1
    <3>2. feeds[e] \in FeedType BY <1>0
    <3>3. feeds'[e].stream = feeds[e].stream /\ feeds'[e].change = feeds[e].change
      BY <3>1, <3>2 DEF FeedType
    <3> QED BY <1>c, <2>1, <2>3, <3>3 DEF ChangeInBook
  <2> QED BY <2>2, <2>3
<1>5. ASSUME NEW e \in Exchanges, RemoveSlow(e) PROVE ChangeInBook(s)'
  <2>1. books' = books /\ feeds' = [feeds EXCEPT ![e] = IdleFeed] BY <1>5 DEF RemoveSlow
  <2>2. CASE ExchangeOf[s] # e
    <3>1. feeds'[ExchangeOf[s]] = feeds[ExchangeOf[s]] BY <1>0, <1>e, <2>1, <2>2
    <3> QED BY <1>1, <2>1, <3>1 DEF SameWork
  <2>3. CASE ExchangeOf[s] = e
    <3>1. feeds'[ExchangeOf[s]].pc = "idle" BY <1>0, <1>e, <2>1, <2>3 DEF IdleFeed
    <3> QED BY <3>1 DEF ChangeInBook
  <2> QED BY <2>2, <2>3
<1>6. ASSUME NEW e \in Exchanges, NEW c \in Clients, Send(e, c) \/ CloseSlow(e, c)
      PROVE  ChangeInBook(s)'
  <2>1. books' = books BY <1>6 DEF Send, CloseSlow
  <2>2. SameWork(ExchangeOf[s])
    <3> DEFINE d == ExchangeOf[s]
    <3>1. d \in Exchanges BY <1>e
    <3> HIDE DEF d
    <3>2. SameWork(d) BY <1>6, <3>1, TargetsOnly
    <3> QED BY <3>2 DEF d
  <2> QED BY <1>1, <2>1, <2>2
<1>7. CASE UNCHANGED <<books, feeds>> BY <1>1, <1>7 DEF SameWork
<1> QED
  BY <1>2, <1>3, <1>4, <1>5, <1>6, <1>7
  DEF Next, Feed, Book, Connection, Connect, SendSnapshot, ClientCloses, CloseCallback, Capture,
      Subscribe, Unsubscribe, feedVars

\* An update on a copy and on the book it agrees with, whatever the window drops.
LEMMA AgreePatched ==
    ASSUME NEW levels \in [Prices -> Nat], NEW old \in [Prices -> Nat], NEW change \in Changes,
           NEW dropped \in Drops, Agree(levels, old)
    PROVE  LET kept == [p \in Prices |-> IF p \in dropped THEN 0 ELSE old[p]]
           IN  /\ Agree(Patched(levels, change), Patched(kept, change))
               /\ Silent(change) => Agree(levels, Patched(kept, change))
<1> DEFINE kept == [p \in Prices |-> IF p \in dropped THEN 0 ELSE old[p]]
           new == Patched(kept, change)
<1>1. DOMAIN change \subseteq Prices BY SubscriberAssumption
<1>2. \A p \in dropped : p \in UNION Drops OBVIOUS
<1>3. \A p \in Prices : new[p] = IF p \in DOMAIN change THEN change[p]
                                 ELSE IF p \in dropped THEN 0 ELSE old[p]
  BY DEF Patched
<1>4. \A p \in Prices : Patched(levels, change)[p]
                          = IF p \in DOMAIN change THEN change[p] ELSE levels[p]
  BY DEF Patched
<1> HIDE DEF new, kept
<1>5. Agree(Patched(levels, change), new)
  <2> SUFFICES ASSUME NEW p \in Prices, new[p] # 0 \/ p \notin UNION Drops
               PROVE  Patched(levels, change)[p] = new[p]
    BY DEF Agree
  <2>1. CASE p \in DOMAIN change BY <1>3, <1>4, <2>1
  <2>2. CASE p \notin DOMAIN change
    <3>1. p \notin dropped BY <1>2, <1>3, <2>2
    <3>2. new[p] = old[p] BY <1>3, <2>2, <3>1
    <3>3. levels[p] = old[p] BY <3>2 DEF Agree
    <3> QED BY <1>4, <2>2, <3>2, <3>3
  <2> QED BY <2>1, <2>2
<1>6. ASSUME Silent(change) PROVE Patched(levels, change) = levels
  <2>1. \A p \in Prices : Patched(levels, change)[p] = levels[p] BY <1>4, <1>6 DEF Silent
  <2>2. Patched(levels, change) \in [Prices -> Nat] BY PatchedType
  <2> QED BY <2>1, <2>2
<1> QED BY <1>5, <1>6 DEF new, kept

\* A copy that agrees with a book that has the update, agrees with it once more updated.
LEMMA AgreeAgain ==
    ASSUME NEW levels \in [Prices -> Nat], NEW change \in Changes,
           \A p \in DOMAIN change : levels[p] = change[p]
    PROVE  Agree(levels, levels) /\ Agree(Patched(levels, change), levels)
BY SubscriberAssumption DEF Agree, Patched

\* The same where updates have named the levels: whatever the copy was elsewhere.
LEMMA ToldPatched ==
    ASSUME NEW levels \in [Prices -> Nat], NEW book \in BookType, NEW change \in Changes,
           NEW dropped \in Drops, AgreeOnTold(levels, book), NEW new,
           new.told = (book.told \ dropped) \cup DOMAIN change,
           new.levels = Patched([p \in Prices |-> IF p \in dropped THEN 0 ELSE book.levels[p]],
                                change)
    PROVE  /\ AgreeOnTold(Patched(levels, change), new)
           /\ Silent(change) => AgreeOnTold(levels, new)
<1>1. DOMAIN change \subseteq Prices /\ book.told \subseteq Prices
  BY SubscriberAssumption DEF BookType
<1>2. \A p \in Prices : new.levels[p] = IF p \in DOMAIN change THEN change[p]
                                        ELSE IF p \in dropped THEN 0 ELSE book.levels[p]
  BY DEF Patched
<1>3. \A p \in Prices : Patched(levels, change)[p]
                          = IF p \in DOMAIN change THEN change[p] ELSE levels[p]
  BY DEF Patched
<1>4. \A p \in book.told : levels[p] = book.levels[p] BY DEF AgreeOnTold
<1>5. ASSUME NEW p \in new.told
      PROVE  /\ Patched(levels, change)[p] = new.levels[p]
             /\ p \notin DOMAIN change => levels[p] = new.levels[p]
  <2>1. p \in DOMAIN change \/ (p \in book.told /\ p \notin dropped) BY <1>5
  <2>2. p \in Prices BY <1>1, <2>1
  <2>3. CASE p \in DOMAIN change BY <1>2, <1>3, <2>2, <2>3
  <2>4. CASE p \notin DOMAIN change BY <1>2, <1>3, <1>4, <2>1, <2>2, <2>4
  <2> QED BY <2>3, <2>4
<1>6. AgreeOnTold(Patched(levels, change), new) BY <1>5 DEF AgreeOnTold
<1>7. Silent(change) => AgreeOnTold(levels, new) BY <1>5 DEF AgreeOnTold, Silent
<1> QED BY <1>6, <1>7

\* The same of a book that has the update, wherever an update has named a level.
LEMMA ToldAgain ==
    ASSUME NEW book \in BookType, NEW change \in Changes,
           \A p \in DOMAIN change \cap book.told : book.levels[p] = change[p]
    PROVE  AgreeOnTold(book.levels, book) /\ AgreeOnTold(Patched(book.levels, change), book)
<1>1. book.told \subseteq Prices BY DEF BookType
<1> QED BY <1>1 DEF AgreeOnTold, Patched

\* The copy a client has is one of the type of copies.
LEMMA CopyHasType ==
    ASSUME IInv, NEW c \in Clients, NEW s \in Books, HasCopy(c, s)
    PROVE  /\ Copy(c, s) \in ReplicaType /\ Copy(c, s).state = "live"
           /\ Copy(c, s).seq \in Nat /\ Copy(c, s).since \in Nat
           /\ Copy(c, s).levels \in [Prices -> Nat]
           /\ seqMap[s] \in Nat
<1>0. /\ replicas[c][s] \in ReplicaType /\ handlers[c].snapshot \in MessageType /\ s \in Streams
      /\ seqMap[s] \in Nat
  BY SubscriberAssumption, Bounds DEF IInv, Typed, HandlerType
<1>1. Copy(c, s) \in ReplicaType /\ Copy(c, s).state = "live"
  <2>1. CASE replicas[c][s].state = "live" BY <1>0, <2>1 DEF Copy
  <2>2. CASE replicas[c][s].state # "live"
    <3>1. handlers[c].snapshot.stream = s BY <2>2 DEF HasCopy
    <3>2. replicas[c][s].state = "waiting" BY <1>0, <3>1 DEF IInv, HandlerOK
    <3>3. Copy(c, s) = WithSnapshot(replicas[c][s], handlers[c].snapshot) BY <2>2 DEF Copy
    <3>4. WithSnapshot(replicas[c][s], handlers[c].snapshot) \in ReplicaType
      BY <1>0, SnapshotKeepsType
    <3>5. replicas[c][s].state # "none" BY <3>2
    <3>6. WithSnapshot(replicas[c][s], handlers[c].snapshot)
             \in CopyType(handlers[c].snapshot.since)
      BY <1>0, <3>5, SnapshotMakesCopy
    <3> QED BY <3>3, <3>4, <3>6 DEF CopyType
  <2> QED BY <2>1, <2>2
<1>2. Copy(c, s).seq \in Nat /\ Copy(c, s).since \in Nat /\ Copy(c, s).levels \in [Prices -> Nat]
  BY <1>1, Bounds DEF ReplicaType
<1> QED BY <1>0, <1>1, <1>2

\* A step that leaves a client and a book as they are leaves the copy as it is.
LEMMA CopySame ==
    ASSUME IInv, NEW c \in Clients, NEW s \in Books, HasCopy(c, s)',
           replicas'[c][s] = replicas[c][s],
           replicas[c][s].state = "live" \/ handlers'[c].snapshot = handlers[c].snapshot
    PROVE  HasCopy(c, s) /\ Copy(c, s)' = Copy(c, s)
BY DEF HasCopy, Copy

\* What a copy must satisfy, after a step that changes nothing it depends on.
LEMMA FitsFrame ==
    ASSUME NEW r, NEW c \in Clients, NEW s \in Books, CopyFits(r, c, s),
           s \in clients[c].streams => s \in clients'[c].streams,
           seqMap'[s] = seqMap[s], books'[s] = books[s], SameWork(ExchangeOf[s]),
           InFlight(c, s) => InFlight(c, s)'
    PROVE  CopyFits(r, c, s)'
<1>1. Unnumbered(s)' <=> Unnumbered(s) BY DEF Unnumbered, SameWork
<1>2. Faithful(r, s) => Faithful(r, s)' BY <1>1 DEF Faithful, SameWork
<1>3. Heals(r, s) => Heals(r, s)' BY <1>1 DEF Heals, SameWork
<1> QED BY <1>2, <1>3 DEF CopyFits

\* The same when the feed was idle, or has done its work, and is not busy with the
\* book after the step.
LEMMA FitsIdle ==
    ASSUME NEW r, NEW c \in Clients, NEW s \in Books, CopyFits(r, c, s),
           s \in clients[c].streams => s \in clients'[c].streams,
           seqMap'[s] = seqMap[s], books'[s] = books[s],
           ~InFlight(c, s), ~Unnumbered(s), ~Unnumbered(s)'
    PROVE  CopyFits(r, c, s)'
<1>1. r.seq = seqMap[s] BY DEF CopyFits
<1>2. Faithful(r, s) => Faithful(r, s)' BY <1>1 DEF Faithful
<1>3. Heals(r, s) => Heals(r, s)' BY <1>1 DEF Heals
<1> QED BY <1>1, <1>2, <1>3 DEF CopyFits

\* What a client's copy is after a step, and what it must satisfy.
LEMMA StepCopy == ASSUME IInv, Next PROVE \A c \in Clients, s \in Books : CopyOK(c, s)'
<1>0. /\ books \in [Books -> BookType]
      /\ feeds \in [Exchanges -> FeedType]
      /\ clients \in [DOMAIN clients -> EntryType]
      /\ seqMap \in [Books -> 0 .. MaxUpdates]
      /\ sockets \in [Clients -> {"none", "open", "closing", "closed"}]
      /\ handlers \in [Clients -> HandlerType]
      /\ replicas \in [Clients -> [Streams -> ReplicaType]]
      /\ Books \subseteq Streams /\ NoStream \notin Streams
  BY SubscriberAssumption DEF IInv, Typed
<1> SUFFICES ASSUME NEW c \in Clients, NEW s \in Books, sockets'[c] = "open", HasCopy(c, s)'
             PROVE  CopyFits(Copy(c, s), c, s)'
  BY DEF CopyOK
<1> DEFINE e0 == ExchangeOf[s]
<1>e. e0 \in Exchanges /\ s \in Streams BY <1>0, SubscriberAssumption
<1>b. /\ books[s].levels \in [Prices -> Nat] /\ books[s].snapshots \in Nat
      /\ books[s].told \subseteq Prices
  <2>1. books[s] \in BookType BY <1>0
  <2> QED BY <2>1 DEF BookType
<1>k. CopyOK(c, s) /\ FeedOK(e0) BY <1>e DEF IInv
<1>n. NoMessage.stream = NoStream BY DEF NoMessage
\* A copy that stays as it is.
<1>same. ASSUME sockets[c] = "open", replicas'[c][s] = replicas[c][s],
                replicas[c][s].state = "live" \/ handlers'[c].snapshot = handlers[c].snapshot,
                \A r : CopyFits(r, c, s) => CopyFits(r, c, s)'
         PROVE  CopyFits(Copy(c, s), c, s)'
  <2>1. HasCopy(c, s) /\ Copy(c, s)' = Copy(c, s) BY <1>same, CopySame
  <2>2. CopyFits(Copy(c, s), c, s) BY <1>k, <1>same, <2>1 DEF CopyOK
  <2>3. PICK r : r = Copy(c, s) OBVIOUS
  <2>4. CopyFits(r, c, s)' BY <1>same, <2>2, <2>3
  <2>5. Copy(c, s)' = r BY <2>1, <2>3
  <2> QED BY <2>4, <2>5 DEF CopyFits, Faithful, Heals
<1>1. ASSUME NEW b \in Books, UpdateBook(b) PROVE CopyFits(Copy(c, s), c, s)'
  <2>0. UNCHANGED <<clients, seqMap, sockets, handlers, replicas>>
    BY <1>1 DEF UpdateBook, serverVars
  <2>1. PICK change \in Changes, dropped \in Drops :
              /\ dropped \cap DOMAIN change = {}
              /\ books'[b].levels =
                    Patched([p \in Prices |-> IF p \in dropped THEN 0 ELSE books[b].levels[p]],
                            change)
              /\ books'[b].told = (books[b].told \ dropped) \cup DOMAIN change
              /\ books'[b].applied /\ books'[b].snapshots = books[b].snapshots
              /\ \A x \in Books : x # b => books'[x] = books[x]
              /\ \A e \in Exchanges : e # ExchangeOf[b] => feeds'[e] = feeds[e]
              /\ IF Silent(change) THEN feeds' = feeds
                 ELSE LET feed == feeds'[ExchangeOf[b]]
                      IN  feed.pc = "broadcast" /\ feed.stream = b /\ feed.change = change
    BY <1>1, UpdateOfBook
  <2>2. feeds[ExchangeOf[b]].pc = "idle" /\ books[b].applied BY <1>1 DEF UpdateBook
  <2>3. CASE e0 # ExchangeOf[b]
    <3>1. books'[s] = books[s] /\ feeds'[e0] = feeds[e0] BY <1>e, <2>1, <2>3
    <3>2. \A r : CopyFits(r, c, s) => CopyFits(r, c, s)'
      BY <2>0, <3>1, FitsFrame DEF SameWork, InFlight
    <3> QED BY <1>same, <2>0, <3>2
  <2>4. CASE e0 = ExchangeOf[b] /\ s # b
    <3>1. books'[s] = books[s] BY <2>1, <2>4
    <3>2. ~InFlight(c, s) /\ ~Unnumbered(s) BY <2>2, <2>4 DEF InFlight, Unnumbered
    <3>3. ~Unnumbered(s)' BY <2>1, <2>2, <2>4 DEF Unnumbered
    <3>4. \A r : CopyFits(r, c, s) => CopyFits(r, c, s)'
      BY <2>0, <3>1, <3>2, <3>3, FitsIdle
    <3> QED BY <1>same, <2>0, <3>4
  <2>5. CASE s = b
    <3>1. HasCopy(c, s) /\ Copy(c, s)' = Copy(c, s) /\ sockets[c] = "open" BY <2>0, CopySame
    <3>2. PICK r : r = Copy(c, s) OBVIOUS
    <3>3. CopyFits(r, c, s) BY <1>k, <3>1, <3>2 DEF CopyOK
    <3>4. r.levels \in [Prices -> Nat] BY <3>1, <3>2, CopyHasType
    <3>5. r.seq = seqMap[s] /\ ~Unnumbered(s)
      BY <2>2, <2>5, <3>3 DEF CopyFits, InFlight, Unnumbered
    <3>6. e0 \notin Workers => Faithful(r, s)'
      <4> SUFFICES ASSUME e0 \notin Workers, r.since = books'[s].snapshots
                   PROVE  Faithful(r, s)'
        BY DEF Faithful
      <4>1. Agree(r.levels, books[s].levels)
        BY <2>1, <2>2, <2>5, <3>3, <3>5 DEF CopyFits, Faithful
      <4>2. books[s].levels \in [Prices -> Nat] BY <1>b
      <4>3. /\ Agree(Patched(r.levels, change), books'[s].levels)
            /\ Silent(change) => Agree(r.levels, books'[s].levels)
        BY <2>1, <2>5, <3>4, <4>1, <4>2, AgreePatched
      <4>4. r.seq = seqMap'[s] BY <2>0, <3>5
      <4>5. CASE Silent(change)
        <5>1. ~Unnumbered(s)' BY <2>1, <2>2, <2>5, <4>5 DEF Unnumbered
        <5> QED BY <4>3, <4>4, <4>5, <5>1 DEF Faithful, Agree
      <4>6. CASE ~Silent(change)
        <5>1. Unnumbered(s)' /\ feeds'[e0].change = change BY <2>1, <2>5, <4>6 DEF Unnumbered
        <5> QED BY <4>3, <4>4, <5>1 DEF Faithful, Agree, Patched
      <4> QED BY <4>5, <4>6
    <3>h. Heals(r, s)'
      <4>1. AgreeOnTold(r.levels, books[s]) BY <3>3, <3>5 DEF CopyFits, Heals
      <4>2. books[s] \in BookType BY <1>0
      <4>3. /\ AgreeOnTold(Patched(r.levels, change), books'[s])
            /\ Silent(change) => AgreeOnTold(r.levels, books'[s])
        BY <2>1, <2>5, <3>4, <4>1, <4>2, ToldPatched
      <4>4. r.seq = seqMap'[s] BY <2>0, <3>5
      <4>5. CASE Silent(change)
        <5>1. ~Unnumbered(s)' BY <2>1, <2>2, <2>5, <4>5 DEF Unnumbered
        <5> QED BY <4>3, <4>4, <4>5, <5>1 DEF Heals
      <4>6. CASE ~Silent(change)
        <5>1. Unnumbered(s)' /\ feeds'[e0].change = change BY <2>1, <2>5, <4>6 DEF Unnumbered
        <5> QED BY <4>3, <4>4, <5>1 DEF Heals
      <4> QED BY <4>5, <4>6
    <3>7. CopyFits(r, c, s)'
      <4>1. s \in clients'[c].streams /\ r.seq = seqMap'[s] /\ r.since <= books'[s].snapshots
        BY <2>0, <2>1, <2>5, <3>3, <3>5 DEF CopyFits
      <4> QED BY <3>6, <3>h, <4>1 DEF CopyFits
    <3>8. Copy(c, s)' = r BY <3>1, <3>2
    <3> QED BY <3>7, <3>8 DEF CopyFits, Faithful, Heals
  <2> QED BY <2>3, <2>4, <2>5
<1>2. ASSUME NEW b \in Books, BookSnapshot(b) \/ BookCleared(b) PROVE CopyFits(Copy(c, s), c, s)'
  <2>0. UNCHANGED <<feeds, clients, seqMap, sockets, handlers, replicas>>
    BY <1>2 DEF BookSnapshot, BookCleared, serverVars
  <2>1. CASE s # b
    <3>1. books'[s] = books[s] BY <1>0, <1>2, <2>1 DEF BookSnapshot, BookCleared
    <3>2. \A r : CopyFits(r, c, s) => CopyFits(r, c, s)'
      BY <2>0, <3>1, FitsFrame DEF SameWork, InFlight
    <3> QED BY <1>same, <2>0, <3>2
  <2>2. CASE s = b
    <3>1. \/ books'[s].snapshots = books[s].snapshots + 1
          \/ books'[s].snapshots = books[s].snapshots /\ ~books'[s].applied
      <4>1. books[s] \in BookType BY <1>0
      <4> QED BY <1>0, <1>2, <2>2, <4>1 DEF BookSnapshot, BookCleared, BookType
    <3>t. books'[s].told = {}
      <4>1. books[s] \in BookType BY <1>0
      <4> QED BY <1>0, <1>2, <2>2, <4>1 DEF BookSnapshot, BookCleared, BookType
    <3>2. HasCopy(c, s) /\ Copy(c, s)' = Copy(c, s) /\ sockets[c] = "open" BY <2>0, CopySame
    <3>3. PICK r : r = Copy(c, s) OBVIOUS
    <3>4. CopyFits(r, c, s) /\ r.since \in Nat BY <1>k, <3>2, <3>3, CopyHasType DEF CopyOK
    <3>5. r.since <= books[s].snapshots /\ books[s].snapshots \in Nat BY <1>b, <3>4 DEF CopyFits
    <3>6. r.since <= books'[s].snapshots BY <3>1, <3>4, <3>5
    <3>7. ~(r.since = books'[s].snapshots /\ books'[s].applied) BY <3>1, <3>4, <3>5
    <3>8. Faithful(r, s)' BY <3>7 DEF Faithful
    <3>h. Heals(r, s)' BY <3>t DEF Heals, AgreeOnTold
    <3>9. CopyFits(r, c, s)' BY <2>0, <3>4, <3>6, <3>8, <3>h DEF CopyFits, InFlight
    <3>10. Copy(c, s)' = r BY <3>2, <3>3
    <3> QED BY <3>9, <3>10 DEF CopyFits, Faithful, Heals
  <2> QED BY <2>1, <2>2
<1>3. ASSUME NEW e \in Exchanges, Number(e) PROVE CopyFits(Copy(c, s), c, s)'
  <2> DEFINE t == feeds[e].stream
             targets == {d \in DOMAIN clients : clients[d].socket /\ t \in clients[d].streams}
  <2>1. /\ feeds[e].pc = "broadcast" /\ seqMap' = [seqMap EXCEPT ![t] = @ + 1]
        /\ feeds' = [feeds EXCEPT ![e].pc = "send", ![e].seq = seqMap[t] + 1,
                                  ![e].targets = targets]
        /\ UNCHANGED <<books, clients, sockets, handlers, replicas>>
    BY <1>3 DEF Number
  <2>t. c \in DOMAIN clients /\ clients[c].socket /\ t \in clients[c].streams => c \in targets
    OBVIOUS
  <2> HIDE DEF targets
  <2>2. t \in Books /\ ExchangeOf[t] = e BY <2>1 DEF IInv, FeedOK
  <2>3. /\ feeds'[e].pc = "send" /\ feeds'[e].stream = t /\ feeds'[e].change = feeds[e].change
        /\ feeds'[e].targets = targets
    <3>1. feeds'[e] = [feeds[e] EXCEPT !.pc = "send", !.seq = seqMap[t] + 1, !.targets = targets]
      BY <1>0, <2>1
    <3>2. feeds[e] \in FeedType BY <1>0
    <3> QED BY <3>1, <3>2 DEF FeedType
  <2>4. CASE e0 # e
    <3>1. feeds'[e0] = feeds[e0] /\ seqMap'[s] = seqMap[s] BY <1>0, <1>e, <2>1, <2>2, <2>4, SMTT(60)
    <3>2. \A r : CopyFits(r, c, s) => CopyFits(r, c, s)'
      BY <2>1, <3>1, FitsFrame DEF SameWork, InFlight
    <3> QED BY <1>same, <2>1, <3>2, SMTT(60)
  <2>5. CASE e0 = e /\ s # t
    <3>1. seqMap'[s] = seqMap[s] BY <1>0, <2>1, <2>5
    <3>2. ~InFlight(c, s) /\ ~Unnumbered(s) BY <2>5 DEF InFlight, Unnumbered
    <3>3. ~Unnumbered(s)' BY <2>3, <2>5 DEF Unnumbered
    <3>4. \A r : CopyFits(r, c, s) => CopyFits(r, c, s)'
      BY <2>1, <3>1, <3>2, <3>3, FitsIdle
    <3> QED BY <1>same, <2>1, <3>4, SMTT(60)
  <2>6. CASE s = t
    <3>1. HasCopy(c, s) /\ Copy(c, s)' = Copy(c, s) /\ sockets[c] = "open" BY <2>1, CopySame
    <3>2. PICK r : r = Copy(c, s) OBVIOUS
    <3>3. CopyFits(r, c, s) /\ r.seq \in Nat /\ seqMap[s] \in Nat
      BY <1>k, <3>1, <3>2, CopyHasType DEF CopyOK
    <3>4. r.seq = seqMap[s] /\ Unnumbered(s)
      BY <2>1, <2>2, <2>6, <3>3 DEF CopyFits, InFlight, Unnumbered
    <3>5. seqMap'[s] = seqMap[s] + 1 BY <1>0, <2>1, <2>6
    <3>6. r.seq = seqMap'[s] - 1 /\ r.seq # seqMap'[s] BY <3>3, <3>4, <3>5
    <3>7. InFlight(c, s)'
      <4>1. c \in DOMAIN clients /\ clients[c].socket BY <3>1 DEF IInv, SocketOK
      <4>2. t \in clients[c].streams BY <2>6, <3>3 DEF CopyFits
      <4> QED BY <2>2, <2>3, <2>6, <2>t, <4>1, <4>2 DEF InFlight
    <3>8. e0 \notin Workers => Faithful(r, s)'
      BY <2>1, <2>2, <2>3, <2>6, <3>3, <3>4, <3>6 DEF CopyFits, Faithful
    <3>h. Heals(r, s)'
      <4>1. AgreeOnTold(Patched(r.levels, feeds[e0].change), books[s])
        BY <3>3, <3>4 DEF CopyFits, Heals
      <4>2. feeds'[e0].change = feeds[e0].change BY <2>2, <2>3, <2>6
      <4> QED BY <2>1, <3>6, <4>1, <4>2 DEF Heals
    <3>9. CopyFits(r, c, s)' BY <2>1, <3>3, <3>6, <3>7, <3>8, <3>h DEF CopyFits
    <3>10. Copy(c, s)' = r BY <3>1, <3>2
    <3> QED BY <3>9, <3>10 DEF CopyFits, Faithful, Heals
  <2> QED BY <2>4, <2>5, <2>6
<1>4. ASSUME NEW e \in Exchanges, RemoveSlow(e) PROVE CopyFits(Copy(c, s), c, s)'
  <2> DEFINE gone == feeds[e].closed
  <2>1. /\ feeds[e].pc = "send" /\ feeds[e].targets = {} /\ feeds' = [feeds EXCEPT ![e] = IdleFeed]
        /\ clients' = Restrict(clients, DOMAIN clients \ gone)
        /\ UNCHANGED <<books, seqMap, sockets, handlers, replicas>>
    BY <1>4 DEF RemoveSlow
  <2>2. sockets[c] = "open" BY <2>1
  <2>3. c \notin gone /\ c \in DOMAIN clients BY <2>2 DEF IInv, FeedOK, SocketOK
  <2> HIDE DEF gone
  <2>4. clients'[c] = clients[c] BY <2>1, <2>3, DropEntries DEF IInv
  <2>5. CASE e0 # e
    <3>1. feeds'[e0] = feeds[e0] BY <1>0, <1>e, <2>1, <2>5
    <3>2. \A r : CopyFits(r, c, s) => CopyFits(r, c, s)'
      BY <2>1, <2>4, <3>1, FitsFrame DEF SameWork, InFlight
    <3> QED BY <1>same, <2>1, <2>2, <3>2
  <2>6. CASE e0 = e
    <3>1. ~InFlight(c, s) /\ ~Unnumbered(s) BY <2>1, <2>6 DEF InFlight, Unnumbered
    <3>2. feeds'[e].pc = "idle" BY <1>0, <2>1 DEF IdleFeed
    <3>3. ~Unnumbered(s)' BY <2>6, <3>2 DEF Unnumbered
    <3>4. \A r : CopyFits(r, c, s) => CopyFits(r, c, s)'
      BY <2>1, <2>4, <3>1, <3>3, FitsIdle
    <3> QED BY <1>same, <2>1, <2>2, <3>4
  <2> QED BY <2>5, <2>6
<1>5. ASSUME NEW e \in Exchanges, NEW d \in Clients, Send(e, d) PROVE CopyFits(Copy(c, s), c, s)'
  <2> DEFINE t == feeds[e].stream
             u == [seq |-> feeds[e].seq, change |-> feeds[e].change]
  <2>1. /\ feeds[e].pc = "send" /\ d \in feeds[e].targets
        /\ UNCHANGED <<books, clients, seqMap, sockets, handlers>>
        /\ replicas' = IF sockets[d] = "open"
                       THEN [replicas EXCEPT ![d][t] = WithUpdate(@, u)] ELSE replicas
    BY <1>5 DEF Send
  <2>2. u \in UpdateType /\ t \in Books /\ u.seq = seqMap[t] /\ u.change = feeds[e].change
    BY <2>1, UpdateOfFeed
  <2>3. ExchangeOf[t] = e BY <2>1 DEF IInv, FeedOK
  <2>4. SameWork(e0)
    <3> HIDE DEF e0
    <3> QED BY <1>5, <1>e, TargetsOnly
  <2>5. feeds'[e].targets = feeds[e].targets \ {d} /\ (e0 # e => feeds'[e0] = feeds[e0])
    <3> HIDE DEF e0
    <3> QED BY <1>5, <1>e, TargetsOnly
  <2> HIDE DEF u
  <2>6. CASE c # d \/ s # t
    <3>1. replicas'[c][s] = replicas[c][s] BY <1>0, <1>e, <2>1, <2>6
    <3>2. InFlight(c, s) => InFlight(c, s)'
      BY <2>4, <2>5, <2>6 DEF InFlight, SameWork
    <3>3. \A r : CopyFits(r, c, s) => CopyFits(r, c, s)'
      BY <2>1, <2>4, <3>2, FitsFrame
    <3> QED BY <1>same, <2>1, <3>1, <3>3
  <2>7. CASE c = d /\ s = t
    <3> DEFINE r0 == replicas[c][s]
               msg == handlers[c].snapshot
    <3>0. sockets[c] = "open" BY <2>1
    <3>1. replicas'[c][s] = WithUpdate(r0, u) BY <1>0, <1>e, <2>1, <2>7, <3>0
    <3>2. r0 \in ReplicaType /\ msg \in MessageType BY <1>0, <1>e DEF HandlerType
    <3>3. replicas'[c][s].state = r0.state
      <4> HIDE DEF r0
      <4> QED BY <3>1, <3>2, UpdateKeepsState
    <3>4. HasCopy(c, s) BY <2>1, <3>3 DEF HasCopy
    <3>5. Copy(c, s)' = WithUpdate(Copy(c, s), u)
      <4>1. CASE r0.state = "live" BY <3>1, <3>3, <4>1 DEF Copy
      <4>2. CASE r0.state # "live"
        <5>1. msg.stream = s BY <3>4, <4>2 DEF HasCopy
        <5>2. r0.state = "waiting" BY <1>e, <5>1 DEF IInv, HandlerOK
        <5>3. WithSnapshot(WithUpdate(r0, u), msg) = WithUpdate(WithSnapshot(r0, msg), u)
          <6> HIDE DEF r0, msg
          <6> QED BY <2>2, <3>2, <5>2, LateUpdate
        <5>4. Copy(c, s) = WithSnapshot(r0, msg) BY <4>2 DEF Copy
        <5>5. handlers'[c].snapshot = msg BY <2>1
        <5>6. Copy(c, s)' = WithSnapshot(replicas'[c][s], handlers'[c].snapshot)
          BY <3>3, <4>2 DEF Copy
        <5>7. Copy(c, s)' = WithSnapshot(WithUpdate(r0, u), msg)
          <6> HIDE DEF r0, msg
          <6> QED BY <3>1, <5>5, <5>6
        <5> QED BY <5>3, <5>4, <5>7
      <4> QED BY <4>1, <4>2
    <3>6. PICK r : r = Copy(c, s) OBVIOUS
    <3>7. CopyFits(r, c, s) BY <1>k, <3>0, <3>4, <3>6 DEF CopyOK
    <3>8. /\ r \in ReplicaType /\ r.state = "live" /\ r.seq \in Nat /\ seqMap[s] \in Nat
          /\ r.levels \in [Prices -> Nat]
      BY <3>4, <3>6, CopyHasType
    <3>9. PICK q : q = WithUpdate(r, u) OBVIOUS
    <3>10. Copy(c, s)' = q BY <3>5, <3>6, <3>9
    <3>11. u.seq = seqMap[s] BY <2>2, <2>7
    <3>u. ~Unnumbered(s) /\ ~Unnumbered(s)'
      BY <2>1, <2>3, <2>4, <2>7 DEF Unnumbered, SameWork
    <3>12. CASE r.seq = seqMap[s]
      <4>1. q = r
        <5>1. ~(u.seq > r.seq) BY <3>8, <3>11, <3>12
        <5> QED BY <3>8, <3>9, <5>1 DEF WithUpdate
      <4>2. e0 \notin Workers => Faithful(q, s)'
        BY <2>1, <3>7, <3>12, <3>u, <4>1 DEF CopyFits, Faithful
      <4>h. Heals(q, s)' BY <2>1, <3>7, <3>12, <3>u, <4>1 DEF CopyFits, Heals
      <4>3. CopyFits(q, c, s)' BY <2>1, <3>7, <3>12, <4>1, <4>2, <4>h DEF CopyFits
      <4> QED BY <3>10, <4>3 DEF CopyFits, Faithful, Heals
    <3>13. CASE r.seq # seqMap[s]
      <4>1. r.seq = seqMap[s] - 1 BY <3>7, <3>13 DEF CopyFits
      <4>2. u.seq > r.seq BY <3>8, <3>11, <4>1
      <4>3. q = [r EXCEPT !.levels = Patched(r.levels, u.change), !.seq = u.seq]
        BY <3>8, <3>9, <4>2 DEF WithUpdate
      <4>4. q.levels = Patched(r.levels, u.change) /\ q.seq = seqMap[s] /\ q.since = r.since
        BY <3>8, <3>11, <4>3 DEF ReplicaType
      <4>5. u.change = feeds[e0].change BY <2>2, <2>3, <2>7
      <4>6. e0 \notin Workers => Faithful(q, s)'
        <5> SUFFICES ASSUME e0 \notin Workers, q.since = books'[s].snapshots, books'[s].applied
                     PROVE  Agree(q.levels, books'[s].levels)
          BY <2>1, <3>u, <4>4 DEF Faithful, Agree
        <5>1. r.since = books[s].snapshots /\ books[s].applied BY <2>1, <4>4
        <5>2. Agree(Patched(r.levels, feeds[e0].change), books[s].levels)
          BY <3>7, <3>13, <5>1 DEF CopyFits, Faithful
        <5> QED BY <2>1, <4>4, <4>5, <5>2
      <4>7. CopyFits(q, c, s)'
        <5>1. s \in clients'[c].streams /\ r.since <= books'[s].snapshots
          BY <2>1, <3>7 DEF CopyFits
        <5>2. q.seq = seqMap'[s] /\ q.since <= books'[s].snapshots BY <2>1, <4>4, <5>1
        <5>3. AgreeOnTold(Patched(r.levels, feeds[e0].change), books[s])
          BY <3>7, <3>13 DEF CopyFits, Heals
        <5>4. Heals(q, s)' BY <2>1, <3>u, <4>4, <4>5, <5>3 DEF Heals
        <5> QED BY <4>6, <5>1, <5>2, <5>4 DEF CopyFits
      <4> QED BY <3>10, <4>7 DEF CopyFits, Faithful, Heals
    <3> QED BY <3>12, <3>13
  <2> QED BY <2>6, <2>7
<1>6. ASSUME NEW e \in Exchanges, NEW d \in Clients, CloseSlow(e, d)
      PROVE  CopyFits(Copy(c, s), c, s)'
  <2>1. /\ UNCHANGED <<books, clients, seqMap, handlers, replicas>>
        /\ sockets' = [sockets EXCEPT ![d] = "closing"]
    BY <1>6 DEF CloseSlow
  <2>2. c # d /\ sockets[c] = "open" BY <1>0, <2>1
  <2>4. SameWork(e0)
    <3> HIDE DEF e0
    <3> QED BY <1>6, <1>e, TargetsOnly
  <2>5. feeds'[e].targets = feeds[e].targets \ {d} /\ (e0 # e => feeds'[e0] = feeds[e0])
    <3> HIDE DEF e0
    <3> QED BY <1>6, <1>e, TargetsOnly
  <2>6. InFlight(c, s) => InFlight(c, s)' BY <2>2, <2>4, <2>5 DEF InFlight, SameWork
  <2>7. \A r : CopyFits(r, c, s) => CopyFits(r, c, s)' BY <2>1, <2>4, <2>6, FitsFrame
  <2> QED BY <1>same, <2>1, <2>2, <2>7
\* The connections leave the feeds and the books alone.
<1>conn. ASSUME sockets[c] = "open", UNCHANGED <<books, feeds, seqMap>>,
                replicas'[c][s] = replicas[c][s],
                replicas[c][s].state = "live" \/ handlers'[c].snapshot = handlers[c].snapshot,
                s \in clients[c].streams => s \in clients'[c].streams
         PROVE  CopyFits(Copy(c, s), c, s)'
  <2>1. \A r : CopyFits(r, c, s) => CopyFits(r, c, s)'
    BY <1>conn, FitsFrame DEF SameWork, InFlight
  <2> QED BY <1>conn, <1>same, <2>1
<1>7. ASSUME NEW d \in Clients, Connect(d) PROVE CopyFits(Copy(c, s), c, s)'
  <2> DEFINE entry == [socket |-> TRUE, streams |-> {}]
  <2>1. /\ UNCHANGED <<books, feeds, seqMap, handlers, replicas>> /\ sockets[d] = "none"
        /\ clients' = WithEntry(d, entry) /\ sockets' = [sockets EXCEPT ![d] = "open"]
    BY <1>7 DEF Connect, feedVars
  <2>2. c # d
    <3> SUFFICES ASSUME c = d PROVE FALSE
      OBVIOUS
    <3>1. handlers[c] = IdleHandler /\ replicas[c][s] = NoReplica
      BY <1>e, <2>1 DEF IInv, SocketOK, Idle
    <3>2. handlers'[c].snapshot = NoMessage /\ replicas'[c][s].state = "none"
      BY <2>1, <3>1 DEF IdleHandler, NoReplica
    <3> QED BY <1>0, <1>e, <1>n, <3>2 DEF HasCopy
  <2>3. sockets[c] = "open" BY <1>0, <2>1, <2>2
  <2>4. entry \in EntryType BY DEF EntryType
  <2> HIDE DEF entry
  <2>5. clients'[c] = clients[c]
    <3>1. c \in DOMAIN clients BY <2>3 DEF IInv, SocketOK
    <3> QED BY <2>1, <2>2, <2>4, <3>1, PutEntry DEF IInv
  <2> QED BY <1>conn, <2>1, <2>3, <2>5
<1>8. ASSUME NEW d \in Clients, SendSnapshot(d) PROVE CopyFits(Copy(c, s), c, s)'
  <2> DEFINE msg == handlers[d].snapshot
             t == msg.stream
  <2>1. /\ UNCHANGED <<books, feeds, clients, seqMap, sockets>>
        /\ handlers' = [handlers EXCEPT ![d].snapshot = NoMessage]
        /\ replicas' = IF sockets[d] = "open"
                       THEN [replicas EXCEPT ![d][t] = WithSnapshot(@, msg)] ELSE replicas
    BY <1>8 DEF SendSnapshot, feedVars
  <2>2. sockets[c] = "open" BY <2>1
  <2>3. CASE c # d
    <3>1. replicas'[c][s] = replicas[c][s] /\ handlers'[c] = handlers[c]
      BY <1>0, <1>e, <2>1, <2>3
    <3> QED BY <1>conn, <2>1, <2>2, <3>1
  <2>4. CASE c = d /\ s # t
    <3>1. replicas'[c][s] = replicas[c][s] BY <1>0, <1>e, <2>1, <2>4
    <3>2. handlers'[c].snapshot = NoMessage
      BY <1>0, <2>1, <2>4 DEF HandlerType
    <3>3. replicas[c][s].state = "live" BY <1>0, <1>n, <1>e, <3>1, <3>2 DEF HasCopy
    <3> QED BY <1>conn, <2>1, <2>2, <3>1, <3>3
  <2>5. CASE c = d /\ s = t
    <3> DEFINE r0 == replicas[c][s]
    <3>1. replicas'[c][s] = WithSnapshot(r0, msg) BY <1>0, <1>e, <2>1, <2>2, <2>5
    <3>2. r0 \in ReplicaType /\ msg \in MessageType BY <1>0, <1>e DEF HandlerType
    <3>3. r0.state = "waiting" BY <1>e, <2>5 DEF IInv, HandlerOK
    <3>4. replicas'[c][s].state = "live"
      <4> HIDE DEF r0, msg
      <4>1. r0.state # "none" BY <3>3
      <4>2. WithSnapshot(r0, msg) \in CopyType(msg.since) BY <3>2, <4>1, SnapshotMakesCopy
      <4> QED BY <3>1, <4>2 DEF CopyType
    <3>5. HasCopy(c, s) BY <2>5 DEF HasCopy
    <3>6. Copy(c, s) = WithSnapshot(r0, msg) BY <2>5, <3>3 DEF Copy
    <3>7. Copy(c, s)' = WithSnapshot(r0, msg) BY <3>1, <3>4 DEF Copy
    <3>8. PICK r : r = Copy(c, s) OBVIOUS
    <3>9. CopyFits(r, c, s) BY <1>k, <2>2, <3>5, <3>8 DEF CopyOK
    <3>10. CopyFits(r, c, s)' BY <2>1, <3>9, FitsFrame DEF SameWork, InFlight
    <3>11. Copy(c, s)' = r BY <3>6, <3>7, <3>8
    <3> QED BY <3>10, <3>11 DEF CopyFits, Faithful, Heals
  <2> QED BY <2>3, <2>4, <2>5
<1>9. ASSUME NEW d \in Clients, ClientCloses(d) \/ CloseCallback(d)
      PROVE  CopyFits(Copy(c, s), c, s)'
  <2>1. UNCHANGED <<books, feeds, seqMap, handlers, replicas>>
    BY <1>9 DEF ClientCloses, CloseCallback, feedVars
  <2>2. c # d /\ sockets[c] = "open" BY <1>0, <1>9 DEF ClientCloses, CloseCallback
  <2>3. clients'[c] = clients[c]
    <3>1. CASE ClientCloses(d) BY <3>1 DEF ClientCloses
    <3>2. CASE CloseCallback(d)
      <4>1. clients' = Restrict(clients, DOMAIN clients \ {d}) BY <3>2 DEF CloseCallback
      <4>2. c \in DOMAIN clients BY <2>2 DEF IInv, SocketOK
      <4>3. /\ \A x \in DOMAIN clients' : x \in DOMAIN clients /\ clients'[x] = clients[x]
            /\ \A x \in DOMAIN clients : x \in DOMAIN clients' \/ x \in {d}
        BY <4>1, DropEntries DEF IInv
      <4> QED BY <2>2, <4>2, <4>3
    <3> QED BY <1>9, <3>1, <3>2
  <2> QED BY <1>conn, <2>1, <2>2, <2>3
<1>10. ASSUME NEW d \in Clients, NEW t \in Streams, Capture(d, t)
       PROVE  CopyFits(Copy(c, s), c, s)'
  <2> DEFINE entry == IF d \in DOMAIN clients THEN clients[d]
                      ELSE [socket |-> FALSE, streams |-> {}]
             new == [entry EXCEPT !.streams = @ \cup {t}]
             msg == IF t \in Books /\ books[t].applied
                    THEN [stream |-> t, levels |-> books[t].levels,
                          seq |-> SnapshotNumber(t), since |-> books[t].snapshots]
                    ELSE NoMessage
  <2>1. /\ t \in handlers[d].todo /\ handlers[d].snapshot = NoMessage
        /\ UNCHANGED <<books, feeds, seqMap, sockets, replicas>>
        /\ clients' = WithEntry(d, new)
        /\ handlers' = [handlers EXCEPT ![d].todo = @ \ {t}, ![d].snapshot = msg]
    BY <1>10 DEF Capture, feedVars
  <2>2. sockets[c] = "open" BY <2>1
  <2>3. c \in DOMAIN clients BY <2>2 DEF IInv, SocketOK
  <2>4. entry \in EntryType BY <1>0 DEF EntryType
  <2>5. new \in EntryType /\ new.streams = entry.streams \cup {t}
    <3> HIDE DEF entry
    <3> QED BY <2>4 DEF EntryType
  <2>6. c = d => entry = clients[c] BY <2>3
  <2>m. msg = NoMessage \/
        (msg = [stream |-> t, levels |-> books[t].levels, seq |-> seqMap[t],
                since |-> books[t].snapshots] /\ t \in Books /\ books[t].applied)
    BY DEF SnapshotNumber
  <2> HIDE DEF new, entry, msg
  <2>7. /\ clients'[d] = new
        /\ \A x \in DOMAIN clients' : x # d => x \in DOMAIN clients /\ clients'[x] = clients[x]
        /\ \A x \in DOMAIN clients : x \in DOMAIN clients'
    BY <2>1, <2>5, PutEntry DEF IInv
  <2>8. s \in clients[c].streams => s \in clients'[c].streams BY <2>3, <2>5, <2>6, <2>7
  <2>9. CASE c # d
    <3>1. handlers'[c] = handlers[c] BY <1>0, <2>1, <2>9
    <3> QED BY <1>conn, <2>1, <2>2, <2>8, <3>1
  <2>10. CASE c = d
    <3>1. handlers'[c].snapshot = msg BY <1>0, <2>1, <2>10 DEF HandlerType
    <3>2. CASE replicas[c][s].state = "live" BY <1>conn, <2>1, <2>2, <2>8, <3>2
    <3>3. CASE replicas[c][s].state # "live"
      <4>1. msg.stream = s BY <2>1, <3>1, <3>3 DEF HasCopy
      <4>2. /\ msg = [stream |-> s, levels |-> books[s].levels, seq |-> seqMap[s],
                      since |-> books[s].snapshots]
            /\ s = t /\ books[s].applied
        BY <1>0, <1>e, <1>n, <2>m, <4>1
      <4> DEFINE r0 == replicas[c][s]
      <4>3. r0.state = "waiting" BY <1>e, <2>1, <2>10, <4>2 DEF IInv, HandlerOK
      <4>4. /\ r0 \in ReplicaType /\ seqMap[s] \in 0 .. MaxUpdates
            /\ books[s].levels \in [Prices -> Nat] /\ books[s].snapshots \in Nat
        BY <1>0, <1>b, <1>e
      <4>5. msg \in MessageType BY <4>2, <4>4 DEF MessageType
      <4>6. \A i \in 1 .. Len(r0.aside) : r0.aside[i].seq <= msg.seq
        BY <4>2 DEF IInv, AsideOK
      <4>7. WithSnapshot(r0, msg) = Captured(msg)
        <5> HIDE DEF r0
        <5>1. r0.state # "none" BY <4>3
        <5> QED BY <4>4, <4>5, <4>6, <5>1, StaleAside
      <4>8. Copy(c, s)' = Captured(msg)
        <5>1. replicas'[c][s] = r0 /\ r0.state # "live" BY <2>1, <4>3
        <5>2. Copy(c, s)' = WithSnapshot(replicas'[c][s], handlers'[c].snapshot)
          BY <3>3, <2>1 DEF Copy
        <5> HIDE DEF r0
        <5> QED BY <3>1, <4>7, <5>1, <5>2
      <4>9. PICK r : r = Captured(msg) OBVIOUS
      <4>10. r.seq = seqMap[s] /\ r.levels = books[s].levels /\ r.since = books[s].snapshots
        BY <4>2, <4>9 DEF Captured
      <4>11. e0 \notin Workers => Faithful(r, s)
        <5> SUFFICES ASSUME e0 \notin Workers PROVE Faithful(r, s)
          OBVIOUS
        <5>1. Agree(r.levels, books[s].levels) BY <4>10 DEF Agree
        <5>2. CASE ~Unnumbered(s) BY <4>10, <5>1, <5>2 DEF Faithful
        <5>3. CASE Unnumbered(s)
          <6>1. feeds[e0].pc = "broadcast" /\ feeds[e0].stream = s BY <5>3 DEF Unnumbered
          <6>2. feeds[e0].change \in Changes BY <1>k, <6>1 DEF FeedOK
          <6>3. \A p \in DOMAIN feeds[e0].change : books[s].levels[p] = feeds[e0].change[p]
            BY <6>1 DEF IInv, ChangeInBook, HasAt
          <6>4. Agree(Patched(books[s].levels, feeds[e0].change), books[s].levels)
            BY <4>4, <6>2, <6>3, AgreeAgain
          <6> QED BY <4>10, <5>3, <6>4 DEF Faithful
        <5> QED BY <5>2, <5>3
      <4>h. Heals(r, s)
        <5>1. books[s] \in BookType BY <1>0
        <5>2. CASE ~Unnumbered(s) BY <4>10, <5>2 DEF Heals, AgreeOnTold
        <5>3. CASE Unnumbered(s)
          <6>1. feeds[e0].pc = "broadcast" /\ feeds[e0].stream = s BY <5>3 DEF Unnumbered
          <6>2. feeds[e0].change \in Changes BY <1>k, <6>1 DEF FeedOK
          <6>3. \A p \in DOMAIN feeds[e0].change \cap books[s].told :
                   books[s].levels[p] = feeds[e0].change[p]
            BY <6>1 DEF IInv, ChangeInBook, HasAt
          <6>4. AgreeOnTold(Patched(books[s].levels, feeds[e0].change), books[s])
            BY <5>1, <6>2, <6>3, ToldAgain
          <6> QED BY <4>10, <5>3, <6>4 DEF Heals
        <5> QED BY <5>2, <5>3
      <4>12. s \in clients'[c].streams BY <2>5, <2>7, <2>10, <4>2
      <4>13. /\ Faithful(r, s) => Faithful(r, s)'
             /\ Heals(r, s) => Heals(r, s)'
        BY <2>1 DEF Faithful, Heals, Unnumbered
      <4>14. CopyFits(r, c, s)'
        <5>1. r.seq = seqMap'[s] /\ r.since <= books'[s].snapshots BY <2>1, <4>4, <4>10
        <5> QED BY <4>11, <4>h, <4>12, <4>13, <5>1 DEF CopyFits
      <4>15. Copy(c, s)' = r BY <4>8, <4>9
      <4> QED BY <4>14, <4>15 DEF CopyFits, Faithful, Heals
    <3> QED BY <3>2, <3>3
  <2> QED BY <2>9, <2>10
<1>11. ASSUME NEW d \in Clients, NEW streams \in SUBSET Streams, Subscribe(d, streams)
       PROVE  CopyFits(Copy(c, s), c, s)'
  <2>1. UNCHANGED <<books, feeds, clients, seqMap, sockets>> BY <1>11 DEF Subscribe, feedVars
  <2>2. CASE c # d
    <3>1. handlers'[c] = handlers[c] /\ replicas'[c] = replicas[c]
      BY <1>0, <1>11, <2>2 DEF Subscribe
    <3> QED BY <1>conn, <2>1, <3>1
  <2>3. CASE c = d
    <3>1. handlers[c].snapshot = NoMessage
      BY <1>11, <2>3 DEF Subscribe, Request, Idle, IdleHandler
    <3>2. handlers'[c].snapshot = handlers[c].snapshot
      BY <1>0, <1>11, <2>3 DEF Subscribe, HandlerType
    <3>3. replicas'[c][s].state = "live" BY <1>0, <1>e, <1>n, <3>1, <3>2 DEF HasCopy
    <3>4. s \notin streams
      <4>1. Awaiting.state # "live" BY DEF Awaiting, NoReplica
      <4> QED BY <1>0, <1>e, <1>11, <2>3, <3>3, <4>1 DEF Subscribe
    <3>5. replicas'[c][s] = replicas[c][s] BY <1>0, <1>e, <1>11, <2>3, <3>4 DEF Subscribe
    <3> QED BY <1>conn, <2>1, <3>2, <3>5
  <2> QED BY <2>2, <2>3
<1>12. ASSUME NEW d \in Clients, NEW streams \in SUBSET Streams, Unsubscribe(d, streams)
       PROVE  CopyFits(Copy(c, s), c, s)'
  <2>1. UNCHANGED <<books, feeds, seqMap, sockets, handlers>>
    BY <1>12 DEF Unsubscribe, feedVars
  <2>2. c \in DOMAIN clients BY <2>1 DEF IInv, SocketOK
  <2>3. CASE c # d
    <3>1. clients'[c] = clients[c] /\ replicas'[c] = replicas[c]
      BY <1>0, <1>12, <2>2, <2>3 DEF Unsubscribe
    <3> QED BY <1>conn, <2>1, <3>1
  <2>4. CASE c = d
    <3>1. handlers[c].snapshot = NoMessage
      BY <1>12, <2>4 DEF Unsubscribe, Request, Idle, IdleHandler
    <3>2. replicas'[c][s].state = "live" BY <1>0, <1>e, <1>n, <2>1, <3>1 DEF HasCopy
    <3>3. s \notin streams
      <4>1. NoReplica.state # "live" BY DEF NoReplica
      <4> QED BY <1>0, <1>e, <1>12, <2>4, <3>2, <4>1 DEF Unsubscribe
    <3>4. replicas'[c][s] = replicas[c][s] BY <1>0, <1>e, <1>12, <2>4, <3>3 DEF Unsubscribe
    <3>5. clients'[c].streams = clients[c].streams \ streams
      <4>1. clients[c] \in EntryType BY <1>0, <2>2
      <4>2. clients'[c] = [clients[c] EXCEPT !.streams = @ \ streams]
        BY <1>0, <1>12, <2>2, <2>4 DEF Unsubscribe
      <4> QED BY <4>1, <4>2 DEF EntryType
    <3> QED BY <1>conn, <2>1, <3>3, <3>4, <3>5
  <2> QED BY <2>3, <2>4
<1> QED
  BY <1>1, <1>2, <1>3, <1>4, <1>5, <1>6, <1>7, <1>8, <1>9, <1>10, <1>11, <1>12
  DEF Next, Feed, Book, Connection

\* The invariant holds at the start.
LEMMA InitIInv == Init => IInv
<1> SUFFICES ASSUME Init PROVE IInv
  OBVIOUS
<1>1. Typed BY InitTyped
<1>2. \A e \in Exchanges : feeds[e] = IdleFeed BY DEF Init
<1>i. \A s \in Books : ExchangeOf[s] \in Exchanges /\ s \in Streams BY SubscriberAssumption
<1>3. Counted
  <2>1. Busy = {} BY <1>2 DEF Busy, IdleFeed
  <2>2. Cardinality(Busy) = 0 BY <2>1, FS_EmptySet
  <2>3. Cardinality(Clients) \in Nat BY SubscriberAssumption, FS_CardinalityType
  <2>4. \A s \in Books : Pending(s) = 0 BY <1>2, <1>i DEF Pending, Unnumbered, IdleFeed
  <2>5. \A s \in Books : seqMap[s] = 0 /\ books[s].snapshots = 1
    <3>1. \A s \in Books : books[s] \in [applied : {TRUE}, levels : Contents, snapshots : {1},
                                       told : {{}}]
      BY DEF Init
    <3> QED BY <3>1 DEF Init
  <2>6. used.updates = 0 /\ used.snapshots = 0 /\ backpressureDisconnects = 0 BY DEF Init
  <2>7. (0 - 0) * Cardinality(Clients) = 0 BY <2>3
  <2> QED BY <2>2, <2>4, <2>5, <2>6, <2>7 DEF Counted
<1>4. \A e \in Exchanges : FeedOK(e) BY <1>2 DEF FeedOK, IdleFeed
<1>5. ASSUME NEW c \in Clients PROVE SocketOK(c) /\ HandlerOK(c)
  <2>1. handlers[c] = IdleHandler /\ \A s \in Streams : replicas[c][s] = NoReplica
    BY DEF Init
  <2>2. sockets[c] = "none" BY DEF Init
  <2>3. SocketOK(c) BY <2>1, <2>2 DEF SocketOK, Idle
  <2>4. HandlerOK(c) BY <2>1, SubscriberAssumption DEF HandlerOK, IdleHandler, NoMessage
  <2> QED BY <2>3, <2>4
<1>6. ASSUME NEW c \in Clients, NEW s \in Books PROVE AsideOK(c, s) /\ CopyOK(c, s)
  <2>1. replicas[c][s] = NoReplica BY <1>i DEF Init
  <2>2. 1 .. Len(replicas[c][s].aside) = {} BY <2>1, EmptySeq DEF NoReplica
  <2>3. sockets[c] # "open" BY DEF Init
  <2> QED BY <2>2, <2>3 DEF AsideOK, CopyOK
<1>7. \A s \in Books : ChangeInBook(s) BY <1>2, <1>i DEF ChangeInBook, IdleFeed
<1> QED BY <1>1, <1>3, <1>4, <1>5, <1>6, <1>7 DEF IInv

\* Every step keeps the invariant.
LEMMA StepIInv == IInv /\ [Next]_vars => IInv'
<1> SUFFICES ASSUME IInv, [Next]_vars PROVE IInv'
  OBVIOUS
<1>1. CASE Next
  BY <1>1, StepTyped, StepCounted, StepFeed, StepSocket, StepHandler, StepAside, StepCopy,
     StepChange
  DEF IInv
<1>2. CASE UNCHANGED vars
  <2>1. Typed' /\ Counted' BY <1>2 DEF IInv, Typed, Counted, Pending, Unnumbered, Busy, vars
  <2>2. \A e \in Exchanges : FeedOK(e)' BY <1>2 DEF IInv, FeedOK, vars
  <2>3. \A c \in Clients : SocketOK(c)' /\ HandlerOK(c)'
    BY <1>2 DEF IInv, SocketOK, HandlerOK, Idle, vars
  <2>4. \A c \in Clients, s \in Books : AsideOK(c, s)' BY <1>2 DEF IInv, AsideOK, vars
  <2>5. \A c \in Clients, s \in Books : CopyOK(c, s)'
    <3>1. UNCHANGED <<books, feeds, clients, seqMap, sockets, handlers, replicas>>
      BY <1>2 DEF vars
    <3>2. SUFFICES ASSUME NEW c \in Clients, NEW s \in Books PROVE CopyOK(c, s)'
      OBVIOUS
    <3>3. HasCopy(c, s)' = HasCopy(c, s) /\ Copy(c, s)' = Copy(c, s)
      BY <3>1 DEF HasCopy, Copy
    <3>4. InFlight(c, s)' = InFlight(c, s) /\ Unnumbered(s)' = Unnumbered(s)
      BY <3>1 DEF InFlight, Unnumbered
    <3>5. CopyOK(c, s) BY DEF IInv
    <3> QED BY <3>1, <3>3, <3>4, <3>5 DEF CopyOK, CopyFits, Faithful, Heals
  <2>6. \A s \in Books : ChangeInBook(s)' BY <1>2 DEF IInv, ChangeInBook, vars
  <2> QED BY <2>1, <2>2, <2>3, <2>4, <2>5, <2>6 DEF IInv
<1> QED BY <1>1, <1>2

\* The invariant holds of every reachable state.
THEOREM InductiveInvariant == Spec => []IInv
BY InitIInv, StepIInv, PTL DEF Spec

\* The state has its type; numbers never run ahead of the updates, nor removals for
\* backpressure ahead of the broadcasts.
THEOREM TypeCorrect == Spec => []TypeOK
<1>1. IInv => TypeOK
  <2> SUFFICES ASSUME IInv PROVE TypeOK
    OBVIOUS
  <2>1. books \in [Books -> [applied : BOOLEAN, levels : [Prices -> Nat],
                             snapshots : 1 .. MaxSnapshots + 1, told : SUBSET Prices]]
    <3>1. books \in [Books -> BookType]
      BY DEF IInv, Typed
    <3>2. used.snapshots \in 0 .. MaxSnapshots BY DEF IInv, Typed
    <3>3. ASSUME NEW s \in Books
          PROVE  books[s] \in [applied : BOOLEAN, levels : [Prices -> Nat],
                               snapshots : 1 .. MaxSnapshots + 1, told : SUBSET Prices]
      <4>1. books[s].snapshots <= used.snapshots + 1 BY DEF IInv, Counted
      <4>0. books[s] \in BookType BY <3>1
      <4>2. books[s].snapshots \in Nat \ {0} BY <4>0 DEF BookType
      <4>3. books[s].snapshots \in 1 .. MaxSnapshots + 1 BY <3>2, <4>1, <4>2, Bounds
      <4> QED BY <4>0, <4>3 DEF BookType
    <3> QED BY <3>1, <3>3
  <2>2. \A e \in Exchanges :
          /\ feeds[e].pc \in {"idle", "broadcast", "send"}
          /\ feeds[e].stream \in Books \cup {NoStream}
          /\ feeds[e].change \in Changes \cup {<< >>}
          /\ feeds[e].seq \in 0 .. MaxUpdates
          /\ feeds[e].targets \subseteq Clients /\ feeds[e].closed \subseteq Clients
    BY DEF IInv, Typed, FeedType
  <2>3. \A c \in DOMAIN clients : clients[c] \in [socket : BOOLEAN, streams : SUBSET Streams]
    <3>1. clients \in [DOMAIN clients -> EntryType] BY DEF IInv, Typed
    <3>2. \A c \in DOMAIN clients : clients[c] \in EntryType
      <4> HIDE DEF EntryType
      <4> QED BY <3>1
    <3> QED BY <3>2 DEF EntryType
  <2>4. \A c \in Clients : handlers[c].todo \subseteq Streams BY DEF IInv, Typed, HandlerType
  <2>5. backpressureDisconnects \in 0 .. MaxUpdates * Cardinality(Clients)
    <3> DEFINE k == Cardinality(Clients)
               n == Cardinality(Busy)
    <3>1. k \in Nat BY SubscriberAssumption, FS_CardinalityType
    <3>2. n \in Nat BY BusyFinite DEF Busy
    <3>3. used.updates \in Nat /\ used.updates <= MaxUpdates BY Bounds DEF IInv, Typed
    <3>4. /\ n <= used.updates /\ backpressureDisconnects <= (used.updates - n) * k
          /\ backpressureDisconnects \in Nat
      BY DEF IInv, Typed, Counted
    <3> HIDE DEF k, n
    <3>5. used.updates - n \in Nat /\ used.updates - n <= MaxUpdates BY <3>2, <3>3, <3>4, Bounds
    <3>6. /\ (used.updates - n) * k <= MaxUpdates * k
          /\ (used.updates - n) * k \in Nat /\ MaxUpdates * k \in Nat
      BY <3>1, <3>5, Bounds, Rounds
    <3>7. backpressureDisconnects \in 0 .. MaxUpdates * k BY <3>4, <3>6
    <3> QED BY <3>7 DEF k
  <2>6. /\ DOMAIN clients \subseteq Clients /\ seqMap \in [Books -> 0 .. MaxUpdates]
        /\ sockets \in [Clients -> {"none", "open", "closing", "closed"}]
        /\ replicas \in [Clients -> [Streams -> ReplicaType]]
    BY DEF IInv, Typed
  <2> QED BY <2>1, <2>2, <2>3, <2>4, <2>5, <2>6 DEF TypeOK
<1> QED BY <1>1, InductiveInvariant, PTL

\* A connected client with a snapshot has every update numbered since, but the one that
\* is being sent, whenever it subscribed, unsubscribed or subscribed again
\* (subscriber_server.hpp:166-171, 265-269).
THEOREM UpdatesReachClients == Spec => []NothingMissed
<1>1. IInv => NothingMissed
  <2> SUFFICES ASSUME IInv, NEW c \in Clients, NEW s \in Books, Live(c, s)
               PROVE  \/ replicas[c][s].seq = seqMap[s]
                      \/ InFlight(c, s) /\ replicas[c][s].seq = seqMap[s] - 1
    BY DEF NothingMissed
  <2>1. HasCopy(c, s) /\ Copy(c, s) = replicas[c][s] BY DEF Live, HasCopy, Copy
  <2>2. CopyOK(c, s) BY DEF IInv
  <2> QED BY <2>1, <2>2 DEF CopyOK, CopyFits, Live
<1> QED BY <1>1, InductiveInvariant, PTL

\* A client that is up to date holds every level of the book with its quantity
\* (subscriber_server.hpp:298-299), if its exchange's feed applies the snapshots itself.
THEOREM CopiesAreFaithful == Spec => []CopyHasEveryLevel
<1>1. IInv => CopyHasEveryLevel
  <2> SUFFICES ASSUME IInv, NEW c \in Clients, NEW s \in Books, ExchangeOf[s] \notin Workers,
                      Live(c, s), ~Unnumbered(s), replicas[c][s].seq = seqMap[s],
                      replicas[c][s].since = books[s].snapshots, books[s].applied
               PROVE  Agree(replicas[c][s].levels, books[s].levels)
    BY DEF CopyHasEveryLevel, Agree
  <2>1. HasCopy(c, s) /\ Copy(c, s) = replicas[c][s] BY DEF Live, HasCopy, Copy
  <2>2. CopyOK(c, s) BY DEF IInv
  <2>3. CopyFits(replicas[c][s], c, s) BY <2>1, <2>2 DEF CopyOK, Live
  <2> QED BY <2>3 DEF CopyFits, Faithful
<1> QED BY <1>1, InductiveInvariant, PTL

\* No level of an up-to-date copy stays wrong once an update names it, whatever the copy
\* has missed before, and whichever thread applies the snapshots
\* (subscriber_server.hpp:163-164).
THEOREM StaleCopiesHeal == Spec => []StaleLevelsHeal
<1>1. IInv => StaleLevelsHeal
  <2> SUFFICES ASSUME IInv, NEW c \in Clients, NEW s \in Books, Live(c, s), ~Unnumbered(s),
                      replicas[c][s].seq = seqMap[s]
               PROVE  AgreeOnTold(replicas[c][s].levels, books[s])
    BY DEF StaleLevelsHeal, AgreeOnTold
  <2>1. HasCopy(c, s) /\ Copy(c, s) = replicas[c][s] BY DEF Live, HasCopy, Copy
  <2>2. CopyOK(c, s) BY DEF IInv
  <2>3. CopyFits(replicas[c][s], c, s) BY <2>1, <2>2 DEF CopyOK, Live
  <2> QED BY <2>3 DEF CopyFits, Heals
<1> QED BY <1>1, InductiveInvariant, PTL

\* A client that has gone is forgotten, however its Close and its removal for
\* backpressure interleave with its last request (subscriber_server.hpp:195-206).
THEOREM ClientsAreForgotten == Spec => []GoneIsForgotten
<1>1. IInv => GoneIsForgotten BY DEF IInv, SocketOK, GoneIsForgotten
<1> QED BY <1>1, InductiveInvariant, PTL
================================================================================
