--------------------------- MODULE ReceiverProofs ---------------------------
(***************************************************************************)
(* Proofs about Receiver, for every set of symbols and partitions, every   *)
(* limit of the queue and all bounds.                                      *)
(***************************************************************************)
EXTENDS Receiver, NatSets, FiniteSetTheorems, TLAPS

-----------------------------------------------------------------------------
(* Type correctness.                                                       *)

\* The smaller of two naturals.
LEMMA MinOfTwo ==
    ASSUME NEW a \in Nat, NEW b \in Nat
    PROVE  Min({a, b}) = IF a <= b THEN a ELSE b
<1>1. Min({a, b}) \in {a, b} /\ \A x \in {a, b} : Min({a, b}) <= x
  BY MinOfNats, Zenon
<1>2. QED
  BY <1>1, SMT

\* The first trade on the socket.
LEMMA HeadOfSocket ==
    ASSUME TypeOK, socket # << >>
    PROVE  /\ Head(socket) \in Trades /\ Tail(socket) \in Seq(Trades)
           /\ Head(socket)[1] \in Symbols
           /\ PartitionOf[Head(socket)[1]] \in Partitions
<1>1. Head(socket) \in Trades /\ Tail(socket) \in Seq(Trades)
  BY DEF TypeOK
<1>2. Head(socket)[1] \in Symbols
  BY <1>1, Zenon DEF Trades
<1>3. QED
  BY <1>1, <1>2, KeysAssumption

LEMMA HeadOfQueue ==
    ASSUME TypeOK, NEW p \in Partitions, queue[p] # << >>
    PROVE  Head(queue[p]) \in Trades /\ Tail(queue[p]) \in Seq(Trades)
<1>1. queue[p] \in Seq(Trades)
  BY Zenon DEF TypeOK
<1>2. QED
  BY <1>1

\* The broker's append keeps the topic a topic.
LEMMA AppendedType ==
    ASSUME TypeOK, NEW p \in Partitions, queue[p] # << >>
    PROVE  AppendedOnce(p) \in Seq(Trades)
<1>1. topic[p] \in Seq(Trades) /\ Head(queue[p]) \in Trades
  BY HeadOfQueue, Zenon DEF TypeOK
<1>2. QED
  BY <1>1 DEF AppendedOnce

\* The fields of the two records of counters.
LEMMA Counters ==
    ASSUME TypeOK
    PROVE  /\ stats \in [received : Nat, published : Nat, failed : Nat, reconnects : Nat]
           /\ stats.received \in Nat /\ stats.published \in Nat
           /\ stats.failed \in Nat /\ stats.reconnects \in Nat
           /\ reports.ok \in Nat /\ reports.err \in Nat
BY DEF TypeOK

LEMMA ServedType ==
    ASSUME TypeOK
    PROVE  Served \in [received : Nat, published : Nat, failed : Nat, reconnects : Nat]
<1>1. stats.published + reports.ok \in Nat /\ stats.failed + reports.err \in Nat
  BY Counters
<1>2. QED
  BY <1>1, Counters, Zenon DEF Served

LEMMA Zero == 0 \in Nat
BY SMT

LEMMA EmptySeq == << >> \in Seq(Trades)
OBVIOUS

LEMMA InitTypes == Init => TypeOK
<1> SUFFICES ASSUME Init PROVE TypeOK
  OBVIOUS
<1>1. socket \in Seq(Trades) /\ topic \in [Partitions -> Seq(Trades)]
      /\ queue \in [Partitions -> Seq(Trades)] /\ sent \in [Partitions -> BOOLEAN]
  BY EmptySeq, Zenon DEF Init
<1>2. stats \in [received : Nat, published : Nat, failed : Nat, reconnects : Nat]
      /\ reports \in [ok : Nat, err : Nat]
  BY Zero, Zenon DEF Init, NoStats, NoReports
<1>3. trades \in 0..MaxTrades /\ incidents \in Nat /\ backoff \in BackoffMin..BackoffMax
  BY SizesAssumption, SMT DEF Init
<1>4. alive \in BOOLEAN /\ stop \in BOOLEAN /\ beat \in Nat \cup {NoBeat}
      /\ pc \in {"connect", "sleep", "recv", "poll", "open", "write", "flush", "down"}
  BY Zenon DEF Init
<1>5. QED
  BY <1>1, <1>2, <1>3, <1>4, Zenon DEF TypeOK

LEMMA DownTypes ==
    ASSUME Down
    PROVE  /\ socket' \in Seq(Trades) /\ alive' \in BOOLEAN /\ trades' = trades
           /\ queue' \in [Partitions -> Seq(Trades)] /\ sent' \in [Partitions -> BOOLEAN]
           /\ reports' \in [ok : Nat, err : Nat]
           /\ pc' = "down" /\ stop' = stop /\ backoff' = backoff /\ topic' = topic
<1>1. socket' = << >> /\ alive' = FALSE /\ trades' = trades
  BY Zenon DEF Down, Disconnect
<1>2. reports' \in [ok : Nat, err : Nat]
  BY Zero, Zenon DEF Down, NoReports
<1>3. QED
  BY <1>1, <1>2, EmptySeq, Zenon DEF Down

LEMMA IncidentType == TypeOK /\ Incident => incidents' \in Nat
BY DEF TypeOK, Incident

LEMMA ReconnectTypes ==
    ASSUME TypeOK, NEW n \in {0, 1}, Reconnects(n), incidents' \in Nat
    PROVE  TypeOK'
<1>1. stats' \in [received : Nat, published : Nat, failed : Nat, reconnects : Nat]
  <2>1. stats.received + n \in Nat /\ stats.reconnects + 1 \in Nat
    BY Counters
  <2>2. QED
    BY <2>1, Counters, Zenon DEF Reconnects
<1>2. socket' \in Seq(Trades) /\ alive' \in BOOLEAN /\ trades' \in 0..MaxTrades
  BY EmptySeq, Zenon DEF TypeOK, Reconnects, Disconnect
<1>3. QED
  BY <1>1, <1>2, Zenon DEF TypeOK, Reconnects, producer

LEMMA ProduceTypes ==
    ASSUME TypeOK, Produce
    PROVE  TypeOK'
<1>1. socket # << >>
  BY DEF Produce
<1>2. queue' \in [Partitions -> Seq(Trades)]
  <2> DEFINE q == PartitionOf[Head(socket)[1]]
  <2>1. q \in Partitions /\ Head(socket) \in Trades
    BY <1>1, HeadOfSocket, Zenon
  <2>2. queue \in [Partitions -> Seq(Trades)]
    BY Zenon DEF TypeOK
  <2>3. queue' = [queue EXCEPT ![q] = Append(queue[q], Head(socket))]
    BY Zenon DEF Produce
  <2>4. Append(queue[q], Head(socket)) \in Seq(Trades)
    BY <2>1, <2>2
  <2>5. QED
    BY <2>2, <2>3, <2>4, Zenon
<1>3. socket' \in Seq(Trades)
  BY <1>1, HeadOfSocket, Zenon DEF Produce
<1>4. stats' \in [received : Nat, published : Nat, failed : Nat, reconnects : Nat]
  <2>1. stats.received + 1 \in Nat
    BY Counters
  <2>2. QED
    BY <2>1, Counters, Zenon DEF Produce
<1>5. QED
  BY <1>2, <1>3, <1>4, Zenon DEF TypeOK, Produce

LEMMA BrokerTypes ==
    ASSUME TypeOK, NEW p \in Partitions, Broker(p) \/ Expire(p)
    PROVE  TypeOK'
<1>1. queue[p] # << >> /\ queue \in [Partitions -> Seq(Trades)]
      /\ topic \in [Partitions -> Seq(Trades)] /\ sent \in [Partitions -> BOOLEAN]
      /\ reports \in [ok : Nat, err : Nat]
  BY Zenon DEF TypeOK, Broker, Expire
<1>2. Tail(queue[p]) \in Seq(Trades) /\ AppendedOnce(p) \in Seq(Trades)
  BY <1>1, HeadOfQueue, AppendedType, Zenon
<1>3. /\ [queue EXCEPT ![p] = Tail(@)] \in [Partitions -> Seq(Trades)]
      /\ [topic EXCEPT ![p] = AppendedOnce(p)] \in [Partitions -> Seq(Trades)]
      /\ [sent EXCEPT ![p] = FALSE] \in [Partitions -> BOOLEAN]
      /\ [sent EXCEPT ![p] = TRUE] \in [Partitions -> BOOLEAN]
  BY <1>1, <1>2, Zenon
<1>4. /\ [reports EXCEPT !.ok = @ + 1] \in [ok : Nat, err : Nat]
      /\ [reports EXCEPT !.err = @ + 1] \in [ok : Nat, err : Nat]
  BY <1>1
<1>5. /\ queue' \in [Partitions -> Seq(Trades)] /\ topic' \in [Partitions -> Seq(Trades)]
      /\ sent' \in [Partitions -> BOOLEAN] /\ reports' \in [ok : Nat, err : Nat]
      /\ incidents' \in Nat
  <2>1. CASE Broker(p)
    BY <1>1, <1>3, <1>4, <2>1, IncidentType, Zenon DEF Broker, TypeOK
  <2>2. CASE Expire(p)
    BY <1>1, <1>3, <1>4, <2>2, IncidentType, Zenon DEF Expire, TypeOK
  <2>3. QED
    BY <2>1, <2>2
<1>6. UNCHANGED <<trades, socket, alive, pc, stop, backoff, stats, beat>>
  BY Zenon DEF Broker, Expire, Background, connection, loop
<1>7. QED
  BY <1>5, <1>6, Zenon DEF TypeOK

LEMMA TradeTypes ==
    ASSUME TypeOK, NEW s \in Symbols, Trade(s)
    PROVE  TypeOK'
<1>1. trades' \in 0..MaxTrades /\ trades' \in 1..MaxTrades
  BY SizesAssumption DEF TypeOK, Trade
<1>2. <<s, trades'>> \in Trades
  BY <1>1, Zenon DEF Trades
<1>3. socket' \in Seq(Trades)
  BY <1>2 DEF TypeOK, Trade
<1>4. QED
  BY <1>1, <1>3, Zenon DEF TypeOK, Trade, producer, loop

\* Every step of the receiver, its producer and its broker keeps the types.
LEMMA LoopTypes ==
    ASSUME TypeOK, Loop
    PROVE  TypeOK'
<1> USE DEF connection, producer
<1>1. CASE Connect
  <2>1. backoff' \in BackoffMin..BackoffMax
    BY <1>1, SizesAssumption, SMT DEF Connect
  <2>2. QED
    BY <1>1, <2>1, Zenon DEF TypeOK, Connect
<1>2. CASE Wake
  <2>1. backoff \in BackoffMin..BackoffMax /\ BackoffMin \in Nat /\ BackoffMax \in Nat
        /\ BackoffMin <= BackoffMax
    BY SizesAssumption, Zenon DEF TypeOK
  <2>2. backoff' = Min({backoff * 2, BackoffMax})
    BY <1>2, Zenon DEF Wake
  <2>3. backoff' \in BackoffMin..BackoffMax
    BY <2>1, <2>2, MinOfTwo, SMT
  <2>4. QED
    BY <1>2, <2>3, Zenon DEF TypeOK, Wake
<1>3. CASE Silence
  <2>1. socket' \in Seq(Trades) /\ alive' \in BOOLEAN /\ trades' = trades
    BY <1>3, EmptySeq, Zenon DEF Silence, Disconnect, TypeOK
  <2>2. QED
    BY <1>3, <2>1, Zenon DEF TypeOK, Silence
<1>4. CASE Produce
  BY <1>4, ProduceTypes, Zenon
<1>5. CASE QueueFull
  <2>1. Reconnects(1) /\ incidents' \in Nat
    BY <1>5, Zenon DEF QueueFull, BufferError, TypeOK
  <2>2. QED
    BY <2>1, ReconnectTypes, Zenon
<1>6. CASE Poll
  <2>1. stats' \in [received : Nat, published : Nat, failed : Nat, reconnects : Nat]
    BY <1>6, ServedType, Zenon DEF Poll
  <2>2. reports' \in [ok : Nat, err : Nat]
    BY <1>6, Zero, Zenon DEF Poll, NoReports
  <2>3. QED
    BY <1>6, <2>1, <2>2, Zenon DEF TypeOK, Poll, Continue
<1>7. CASE OpenHeartbeat
  <2>1. beat' \in Nat \cup {NoBeat} /\ incidents' \in Nat
    BY <1>7, IncidentType, Zenon DEF OpenHeartbeat, TypeOK
  <2>2. QED
    BY <1>7, <2>1, Zenon DEF TypeOK, OpenHeartbeat, Continue
<1>8. CASE WriteHeartbeat
  <2>1. stats.received \in Nat
    BY DEF TypeOK
  <2>2. beat' \in Nat \cup {NoBeat} /\ incidents' \in Nat
    BY <1>8, <2>1, IncidentType, Zenon DEF WriteHeartbeat, TypeOK
  <2>3. QED
    BY <1>8, <2>2, Zenon DEF TypeOK, WriteHeartbeat, Continue
<1>9. CASE LeaveLoop
  BY <1>9, Zenon DEF TypeOK, LeaveLoop
<1>10. CASE FlushAndExit
  <2>1. Down /\ stats' = Served /\ beat' = beat /\ incidents' \in Nat
    BY <1>10, IncidentType, Zenon DEF FlushAndExit, TypeOK
  <2>2. QED
    BY <2>1, DownTypes, ServedType, Zenon DEF TypeOK
<1>11. CASE Restart
  <2>1. stats' \in [received : Nat, published : Nat, failed : Nat, reconnects : Nat]
    BY <1>11, Zero, Zenon DEF Restart, NoStats
  <2>2. backoff' \in BackoffMin..BackoffMax
    BY <1>11, SizesAssumption, SMT DEF Restart
  <2>3. QED
    BY <1>11, <2>1, <2>2, Zenon DEF TypeOK, Restart
<1>12. QED
  BY <1>1, <1>2, <1>3, <1>4, <1>5, <1>6, <1>7, <1>8, <1>9, <1>10, <1>11, Zenon DEF Loop

LEMMA StepTypes ==
    ASSUME TypeOK, Step \/ Reboot
    PROVE  TypeOK'
<1>1. CASE \E s \in Symbols : Trade(s)
  BY <1>1, TradeTypes, Zenon
<1>2. CASE Loop
  BY <1>2, LoopTypes, Zenon
<1>3. CASE SocketDies
  BY <1>3, IncidentType, Zenon DEF TypeOK, SocketDies, producer, loop
<1>4. CASE StreamError
  <2>1. incidents' \in Nat
    BY <1>4, IncidentType, Zenon DEF StreamError
  <2>2. Reconnects(0) \/ Reconnects(1)
    BY <1>4, Zenon DEF StreamError
  <2>3. QED
    BY <2>1, <2>2, ReconnectTypes, Zenon
<1>5. CASE StopRequested
  BY <1>5, IncidentType, Zenon DEF TypeOK, StopRequested, connection, producer
<1>6. CASE Crash
  <2>1. Down /\ UNCHANGED <<stats, beat>> /\ incidents' \in Nat
    BY <1>6, IncidentType, Zenon DEF Crash
  <2>2. QED
    BY <2>1, DownTypes, Zenon DEF TypeOK
<1>7. CASE \E p \in Partitions : Broker(p) \/ Expire(p)
  BY <1>7, BrokerTypes, Zenon
<1>8. CASE Reboot
  <2>1. Down /\ UNCHANGED stats /\ beat' = NoBeat /\ incidents' \in Nat
    BY <1>8, IncidentType, Zenon DEF Reboot
  <2>2. QED
    BY <2>1, DownTypes, Zenon DEF TypeOK
<1>9. QED
  BY <1>1, <1>2, <1>3, <1>4, <1>5, <1>6, <1>7, <1>8, Zenon DEF Step

LEMMA StutterTypes == TypeOK /\ UNCHANGED receiver => TypeOK'
BY Zenon DEF TypeOK, receiver, connection, producer, loop

\* The receiver's variables keep their types.
THEOREM TypeCorrect == Spec => []TypeOK
<1>1. TypeOK /\ [Next]_receiver => TypeOK'
  BY StepTypes, StutterTypes, Zenon DEF Next
<1>2. QED
  BY <1>1, InitTypes, PTL DEF Spec

-----------------------------------------------------------------------------
(* What counts against the limit of the producer's queue.                  *)

LEMMA Lengths ==
    ASSUME TypeOK, NEW p \in Partitions
    PROVE  queue[p] \in Seq(Trades) /\ Len(queue[p]) \in Nat
<1>1. queue[p] \in Seq(Trades)
  BY Zenon DEF TypeOK
<1>2. QED
  BY <1>1

LEMMA NotEmpty ==
    ASSUME NEW T, NEW s \in Seq(T), s # << >>
    PROVE  Len(s) \in Nat \ {0} /\ Len(Tail(s)) = Len(s) - 1
OBVIOUS

LEMMA InProduct == \A S, p, x : x \in {p} \X S <=> \E i \in S : x = <<p, i>>
BY SMT

LEMMA PairsDiffer == \A p, q, i, j : <<p, i>> = <<q, j>> <=> p = q /\ i = j
BY SMT

LEMMA InQueuePlaces ==
    \A x : x \in InQueue <=> \E p \in Partitions : \E i \in 1..Len(queue[p]) : x = <<p, i>>
<1>1. \A x : x \in InQueue <=> \E p \in Partitions : x \in {p} \X (1..Len(queue[p]))
  BY Zenon DEF InQueue
<1>2. QED
  BY <1>1, InProduct, SMT

LEMMA InQueuePlacesNext ==
    \A x : x \in InQueue' <=> \E p \in Partitions : \E i \in 1..Len(queue'[p]) : x = <<p, i>>
<1>1. \A x : x \in InQueue' <=> \E p \in Partitions : x \in {p} \X (1..Len(queue'[p]))
  BY Zenon DEF InQueue
<1>2. QED
  BY <1>1, InProduct, SMT

\* A message more in the queue of p.
LEMMA QueueGrows ==
    ASSUME TypeOK, IsFiniteSet(InQueue), NEW p \in Partitions, NEW t \in Trades,
           queue' = [queue EXCEPT ![p] = Append(queue[p], t)]
    PROVE  IsFiniteSet(InQueue') /\ Undelivered' = Undelivered + 1 /\ Undelivered \in Nat
<1> DEFINE new == <<p, Len(queue[p]) + 1>>
<1>1. queue \in [Partitions -> Seq(Trades)]
  BY Zenon DEF TypeOK
<1>2. /\ queue'[p] = Append(queue[p], t)
      /\ \A q \in Partitions \ {p} : queue'[q] = queue[q]
  BY <1>1, Zenon
<1>3. Len(queue[p]) \in Nat /\ Len(queue'[p]) = Len(queue[p]) + 1
  BY <1>2, Lengths
<1>4. 1..Len(queue'[p]) = (1..Len(queue[p])) \cup {Len(queue[p]) + 1}
      /\ Len(queue[p]) + 1 \notin 1..Len(queue[p])
  BY <1>3, SMT
<1>5. new \notin InQueue
  BY <1>4, InQueuePlaces, PairsDiffer, SMT
<1>6. \A x : x \in InQueue' <=> x \in InQueue \cup {new}
  <2>1. ASSUME NEW x, NEW q \in Partitions, NEW i \in 1..Len(queue'[q]), x = <<q, i>>
        PROVE  x \in InQueue \cup {new}
    BY <1>2, <1>4, <2>1, InQueuePlaces, Zenon
  <2>2. ASSUME NEW x, NEW q \in Partitions, NEW i \in 1..Len(queue[q]), x = <<q, i>>
        PROVE  x \in InQueue'
    BY <1>2, <1>4, <2>2, InQueuePlacesNext, Zenon
  <2>3. new \in InQueue'
    BY <1>2, <1>4, InQueuePlacesNext, Zenon
  <2>4. QED
    BY <2>1, <2>2, <2>3, InQueuePlaces, InQueuePlacesNext, SMT
<1>7. InQueue' = InQueue \cup {new}
  BY <1>6, Zenon
<1>8. Cardinality(InQueue) \in Nat
  BY FS_CardinalityType, Zenon
<1>9. /\ IsFiniteSet(InQueue \cup {new})
      /\ Cardinality(InQueue \cup {new}) = Cardinality(InQueue) + 1
  <2> HIDE DEF new
  <2> QED
    BY <1>5, FS_AddElement, Zenon
<1>10. QED
  BY <1>7, <1>8, <1>9, Zenon DEF Undelivered

\* A message less in the queue of p.
LEMMA QueueShrinks ==
    ASSUME TypeOK, IsFiniteSet(InQueue), NEW p \in Partitions, queue[p] # << >>,
           queue' = [queue EXCEPT ![p] = Tail(queue[p])]
    PROVE  /\ IsFiniteSet(InQueue') /\ Undelivered' = Undelivered - 1
           /\ Undelivered \in Nat \ {0}
<1> DEFINE old == <<p, Len(queue[p])>>
<1>1. queue \in [Partitions -> Seq(Trades)]
  BY Zenon DEF TypeOK
<1>2. /\ queue'[p] = Tail(queue[p])
      /\ \A q \in Partitions \ {p} : queue'[q] = queue[q]
  BY <1>1, Zenon
<1>3. Len(queue[p]) \in Nat \ {0} /\ Len(queue'[p]) = Len(queue[p]) - 1
  BY <1>2, Lengths, NotEmpty, Zenon
<1>4. /\ 1..Len(queue'[p]) = (1..Len(queue[p])) \ {Len(queue[p])}
      /\ Len(queue[p]) \in 1..Len(queue[p])
  BY <1>3, SMT
<1>5. old \in InQueue
  BY <1>4, InQueuePlaces, Zenon
<1>6. \A x : x \in InQueue' <=> x \in InQueue /\ x # old
  <2>1. ASSUME NEW x, NEW q \in Partitions, NEW i \in 1..Len(queue'[q]), x = <<q, i>>
        PROVE  x \in InQueue /\ x # old
    BY <1>2, <1>4, <2>1, InQueuePlaces, PairsDiffer, SMT
  <2>2. ASSUME NEW x, NEW q \in Partitions, NEW i \in 1..Len(queue[q]), x = <<q, i>>, x # old
        PROVE  x \in InQueue'
    BY <1>2, <1>4, <2>2, InQueuePlacesNext, Zenon
  <2>3. QED
    BY <2>1, <2>2, InQueuePlaces, InQueuePlacesNext, SMT
<1>7. InQueue' = InQueue \ {old}
  BY <1>6, Zenon
<1>8. Cardinality(InQueue) \in Nat /\ Cardinality(InQueue) # 0
  BY <1>5, FS_CardinalityType, FS_EmptySet, Zenon
<1>9. /\ IsFiniteSet(InQueue \ {old})
      /\ Cardinality(InQueue \ {old}) = Cardinality(InQueue) - 1
  <2> HIDE DEF old
  <2> QED
    BY <1>5, FS_RemoveElement, Zenon
<1>10. QED
  BY <1>7, <1>8, <1>9, Zenon DEF Undelivered

\* A process that is gone takes its messages and reports with it.
LEMMA DownEmpties ==
    ASSUME Down
    PROVE  InQueue' = {} /\ reports' = NoReports /\ pc' = "down"
<1>1. \A p \in Partitions : queue'[p] = << >>
  BY Zenon DEF Down
<1>2. \A p \in Partitions : 1..Len(queue'[p]) = {}
  BY <1>1, SMT
<1>3. QED
  BY <1>2, InQueuePlacesNext, Zenon DEF Down

-----------------------------------------------------------------------------
(* No drop goes uncounted.                                                 *)

\* The inductive invariant: DropsAreCounted, and a process that is gone has nothing
\* with the producer.
Books ==
    /\ IsFiniteSet(InQueue)
    /\ pc = "down" => InQueue = {} /\ reports = NoReports
    /\ DropsAreCounted

\* What of the received trades nobody accounts for.
Dropped == stats.received - stats.published - stats.failed - Outstanding

LEMMA BooksInit == Init => Books
<1> SUFFICES ASSUME Init PROVE Books
  OBVIOUS
<1>1. \A p \in Partitions : queue[p] = << >>
  BY Zenon DEF Init
<1>2. \A p \in Partitions : 1..Len(queue[p]) = {}
  BY <1>1, SMT
<1>3. InQueue = {}
  BY <1>2, InQueuePlaces, Zenon
<1>4. IsFiniteSet(InQueue) /\ Undelivered = 0
  BY <1>3, FS_EmptySet, Zenon DEF Undelivered
<1>5. DropsAreCounted
  BY <1>4, SMT DEF Init, DropsAreCounted, Outstanding, NoStats, NoReports
<1>6. QED
  BY <1>4, <1>5, Zenon DEF Books, Init

\* Undelivered of the next state is that of this one while the queue is the same.
LEMMA SameQueue == UNCHANGED queue => InQueue' = InQueue /\ Undelivered' = Undelivered
BY Zenon DEF InQueue, Undelivered

LEMMA BooksQueue ==
    ASSUME TypeOK, Books
    PROVE  Undelivered \in Nat
BY FS_CardinalityType, Zenon DEF Books, Undelivered

\* A step that leaves the producer and the counters alone, in the same process.
LEMMA BooksKept ==
    ASSUME Books, UNCHANGED <<queue, reports, stats>>, pc # "down", pc' # "down"
    PROVE  Books'
<1>1. InQueue' = InQueue /\ Undelivered' = Undelivered
  BY SameQueue, Zenon
<1>2. Outstanding' = Outstanding
  BY <1>1, Zenon DEF Outstanding
<1>3. QED
  BY <1>1, <1>2, Zenon DEF Books, DropsAreCounted

\* Nor does a step of the world disturb a process that is down.
LEMMA BooksAside ==
    ASSUME Books, UNCHANGED <<queue, reports, stats, pc>>
    PROVE  Books'
<1>1. InQueue' = InQueue /\ Undelivered' = Undelivered
  BY SameQueue, Zenon
<1>2. Outstanding' = Outstanding
  BY <1>1, Zenon DEF Outstanding
<1>3. QED
  BY <1>1, <1>2, Zenon DEF Books, DropsAreCounted

LEMMA BooksDown ==
    ASSUME Down
    PROVE  Books'
BY DownEmpties, FS_EmptySet, Zenon DEF Books, DropsAreCounted

LEMMA BooksReconnect ==
    ASSUME TypeOK, Books, NEW n \in {0, 1}, Reconnects(n), pc # "down"
    PROVE  Books'
<1>1. /\ UNCHANGED <<queue, reports>>
      /\ pc' = "sleep"
      /\ stats' = [stats EXCEPT !.received = @ + n, !.reconnects = @ + 1]
  BY Zenon DEF Reconnects, producer
<1>2. InQueue' = InQueue /\ Undelivered' = Undelivered /\ reports' = reports
  BY <1>1, SameQueue, Zenon
<1>3. Outstanding' = Outstanding
  BY <1>2, Zenon DEF Outstanding
<1>4. /\ stats'.received = stats.received + n /\ stats'.reconnects = stats.reconnects + 1
      /\ stats'.published = stats.published /\ stats'.failed = stats.failed
  BY <1>1, Counters, Zenon
<1>5. Outstanding \in Nat
  BY BooksQueue, Counters, SMT DEF Outstanding
<1>6. Dropped \in 0..stats.reconnects
  BY Zenon DEF Books, DropsAreCounted, Dropped
<1>7. Dropped' \in 0..stats'.reconnects
  BY <1>3, <1>4, <1>5, <1>6, Counters, SMT DEF Dropped
<1>8. QED
  BY <1>1, <1>2, <1>7, Zenon DEF Books, DropsAreCounted, Dropped

LEMMA BooksProduce ==
    ASSUME TypeOK, Books, Produce
    PROVE  Books'
<1> DEFINE p == PartitionOf[Head(socket)[1]]
<1>1. /\ pc = "recv" /\ pc' = "poll" /\ UNCHANGED reports
      /\ queue' = [queue EXCEPT ![p] = Append(queue[p], Head(socket))]
      /\ stats' = [stats EXCEPT !.received = @ + 1]
  BY Zenon DEF Produce
<1>2. p \in Partitions /\ Head(socket) \in Trades
  BY HeadOfSocket, Zenon DEF Produce
<1>3. IsFiniteSet(InQueue') /\ Undelivered' = Undelivered + 1 /\ Undelivered \in Nat
  <2> HIDE DEF p
  <2> QED
    BY <1>1, <1>2, QueueGrows, Zenon DEF Books
<1>4. /\ stats'.received = stats.received + 1 /\ stats'.reconnects = stats.reconnects
      /\ stats'.published = stats.published /\ stats'.failed = stats.failed
  BY <1>1, Counters, Zenon
<1>5. Dropped \in 0..stats.reconnects
  BY <1>1, Zenon DEF Books, DropsAreCounted, Dropped
<1>6. Dropped' \in 0..stats'.reconnects
  <2>1. reports' = reports
    BY <1>1, Zenon
  <2>2. QED
    BY <2>1, <1>3, <1>4, <1>5, Counters, SMT DEF Dropped, Outstanding
<1>7. QED
  BY <1>1, <1>3, <1>6, Zenon DEF Books, DropsAreCounted, Dropped

LEMMA BooksPoll ==
    ASSUME TypeOK, Books, Poll
    PROVE  Books'
<1>1. /\ pc = "poll" /\ pc' # "down" /\ UNCHANGED queue /\ reports' = NoReports
      /\ stats' = Served
  BY Zenon DEF Poll, Continue
<1>2. InQueue' = InQueue /\ Undelivered' = Undelivered /\ Undelivered \in Nat
  BY <1>1, SameQueue, BooksQueue, Zenon
<1>3. /\ stats'.received = stats.received /\ stats'.reconnects = stats.reconnects
      /\ stats'.published = stats.published + reports.ok
      /\ stats'.failed = stats.failed + reports.err
  BY <1>1, Counters, Zenon DEF Served
<1>4. Outstanding' = Undelivered
  <2>1. reports'.ok = 0 /\ reports'.err = 0
    BY <1>1, SMT DEF NoReports
  <2>2. QED
    BY <1>2, <2>1, SMT DEF Outstanding
<1>5. Dropped \in 0..stats.reconnects
  BY <1>1, Zenon DEF Books, DropsAreCounted, Dropped
<1>6. Dropped' \in 0..stats'.reconnects
  BY <1>2, <1>3, <1>4, <1>5, Counters, SMT DEF Dropped, Outstanding
<1>7. QED
  BY <1>1, <1>2, <1>6, Zenon DEF Books, DropsAreCounted, Dropped

\* A message that leaves the queue becomes a report.
LEMMA Reported ==
    ASSUME TypeOK, IsFiniteSet(InQueue), NEW p \in Partitions, queue[p] # << >>,
           queue' = [queue EXCEPT ![p] = Tail(queue[p])],
           \/ reports' = [reports EXCEPT !.ok = @ + 1]
           \/ reports' = [reports EXCEPT !.err = @ + 1]
    PROVE  /\ IsFiniteSet(InQueue') /\ Outstanding' = Outstanding
<1>1. /\ IsFiniteSet(InQueue') /\ Undelivered' = Undelivered - 1 /\ Undelivered \in Nat
  BY QueueShrinks, Zenon
<1>2. \/ reports'.ok = reports.ok + 1 /\ reports'.err = reports.err
      \/ reports'.ok = reports.ok /\ reports'.err = reports.err + 1
  <2>1. reports \in [ok : Nat, err : Nat]
    BY Zenon DEF TypeOK
  <2>2. QED
    BY <2>1, Zenon
<1>3. Undelivered \in Nat /\ reports.ok \in Nat /\ reports.err \in Nat
  BY <1>1, Counters, Zenon
<1>4. \/ Outstanding' = (Undelivered - 1) + (reports.ok + 1) + reports.err
      \/ Outstanding' = (Undelivered - 1) + reports.ok + (reports.err + 1)
  <2>1. Outstanding' = Undelivered' + reports'.ok + reports'.err
    BY Zenon DEF Outstanding
  <2>2. QED
    BY <1>1, <1>2, <2>1, Zenon
<1>5. Outstanding' = Undelivered + reports.ok + reports.err
  BY <1>3, <1>4, SMT
<1>6. QED
  BY <1>1, <1>5, Zenon DEF Outstanding

\* What the producer's thread does leaves what counts against the limit.
LEMMA SameOutstanding ==
    ASSUME TypeOK, Books, NEW p \in Partitions, Broker(p) \/ Expire(p)
    PROVE  /\ IsFiniteSet(InQueue') /\ Outstanding' = Outstanding
           /\ UNCHANGED <<pc, stats>> /\ InQueue # {}
<1>1. queue[p] # << >> /\ UNCHANGED <<pc, stats>> /\ IsFiniteSet(InQueue)
  BY Zenon DEF Broker, Expire, Background, loop, Books
<1>2. \/ UNCHANGED <<queue, reports>>
      \/ /\ queue' = [queue EXCEPT ![p] = Tail(queue[p])]
         /\ \/ reports' = [reports EXCEPT !.ok = @ + 1]
            \/ reports' = [reports EXCEPT !.err = @ + 1]
  BY Zenon DEF Broker, Expire
<1>3. InQueue # {}
  <2>1. queue[p] \in Seq(Trades)
    BY Lengths, Zenon
  <2>2. Len(queue[p]) \in Nat \ {0}
    BY <1>1, <2>1, NotEmpty, Zenon
  <2>3. 1 \in 1..Len(queue[p])
    BY <2>2, SMT
  <2>4. QED
    BY <2>3, InQueuePlaces, Zenon
<1>4. CASE UNCHANGED <<queue, reports>>
  <2>1. InQueue' = InQueue /\ Undelivered' = Undelivered /\ reports' = reports
    BY <1>4, SameQueue, Zenon
  <2>2. QED
    BY <1>1, <1>3, <2>1, Zenon DEF Outstanding
<1>5. CASE ~UNCHANGED <<queue, reports>>
  BY <1>1, <1>2, <1>3, <1>5, Reported, Zenon
<1>6. QED
  BY <1>4, <1>5, Zenon

LEMMA BooksBroker ==
    ASSUME TypeOK, Books, NEW p \in Partitions, Broker(p) \/ Expire(p)
    PROVE  Books'
BY SameOutstanding, Zenon DEF Books, DropsAreCounted

LEMMA BooksRestart ==
    ASSUME TypeOK, Books, Restart
    PROVE  Books'
<1>1. InQueue = {} /\ reports = NoReports /\ UNCHANGED <<queue, reports>>
      /\ stats' = NoStats /\ pc' = "connect"
  BY Zenon DEF Restart, Books, producer
<1>2. InQueue' = {} /\ reports' = NoReports
  BY <1>1, SameQueue, Zenon
<1>3. IsFiniteSet(InQueue') /\ Undelivered' = 0
  BY <1>2, FS_EmptySet, Zenon DEF Undelivered
<1>4. DropsAreCounted'
  BY <1>1, <1>2, <1>3, SMT DEF DropsAreCounted, Outstanding, NoStats, NoReports
<1>5. QED
  BY <1>1, <1>3, <1>4, Zenon DEF Books

LEMMA BooksStep ==
    ASSUME TypeOK, Books, Step \/ Reboot
    PROVE  Books'
<1> USE DEF producer, loop
<1>1. CASE \E s \in Symbols : Trade(s)
  BY <1>1, BooksAside, Zenon DEF Trade
<1>2. CASE Connect
  BY <1>2, BooksKept, Zenon DEF Connect
<1>3. CASE Wake
  BY <1>3, BooksKept, Zenon DEF Wake
<1>4. CASE Silence
  BY <1>4, BooksKept, Zenon DEF Silence
<1>5. CASE Produce
  BY <1>5, BooksProduce, Zenon
<1>6. CASE QueueFull
  <2>1. pc = "recv" /\ Reconnects(1)
    BY <1>6, Zenon DEF QueueFull, BufferError
  <2>2. QED
    BY <2>1, BooksReconnect, Zenon
<1>7. CASE Poll
  BY <1>7, BooksPoll, Zenon
<1>8. CASE OpenHeartbeat
  BY <1>8, BooksKept, Zenon DEF OpenHeartbeat, Continue
<1>9. CASE WriteHeartbeat
  BY <1>9, BooksKept, Zenon DEF WriteHeartbeat, Continue
<1>10. CASE LeaveLoop
  BY <1>10, BooksKept, Zenon DEF LeaveLoop
<1>11. CASE FlushAndExit \/ Crash \/ Reboot
  BY <1>11, BooksDown, Zenon DEF FlushAndExit, Crash, Reboot
<1>12. CASE Restart
  BY <1>12, BooksRestart, Zenon
<1>13. CASE SocketDies
  BY <1>13, BooksAside, Zenon DEF SocketDies
<1>14. CASE StreamError
  <2>1. pc # "down" /\ (Reconnects(0) \/ Reconnects(1))
    BY <1>14, Zenon DEF StreamError
  <2>2. QED
    BY <2>1, BooksReconnect, Zenon
<1>15. CASE StopRequested
  BY <1>15, BooksAside, Zenon DEF StopRequested
<1>16. CASE \E p \in Partitions : Broker(p) \/ Expire(p)
  BY <1>16, BooksBroker, Zenon
<1>17. QED
  BY <1>1, <1>2, <1>3, <1>4, <1>5, <1>6, <1>7, <1>8, <1>9, <1>10, <1>11, <1>12, <1>13, <1>14,
     <1>15, <1>16, Zenon DEF Step, Loop

LEMMA BooksStutter == Books /\ UNCHANGED receiver => Books'
BY BooksAside, Zenon DEF receiver, producer, loop

\* However often the socket breaks, the queue fills or the process dies: no trade is
\* dropped without a reconnect that is counted.
THEOREM NoSilentDrop == Spec => []DropsAreCounted
<1>1. Init => Books
  BY BooksInit
<1>2. TypeOK /\ Books /\ [Next]_receiver => Books'
  BY BooksStep, BooksStutter, Zenon DEF Next
<1>3. Books => DropsAreCounted
  BY DEF Books
<1>4. QED
  BY <1>1, <1>2, <1>3, TypeCorrect, PTL DEF Spec

-----------------------------------------------------------------------------
(* A queue that is full stays full.                                        *)

LEMMA FullStep ==
    ASSUME TypeOK, Books, Full, Step \/ Reboot
    PROVE  Full' \/ pc' \in {"flush", "down"}
<1> USE DEF producer, loop
<1>1. ASSUME UNCHANGED <<queue, reports>>, pc' \in {"connect", "sleep", "recv"}
      PROVE  Full'
  BY <1>1, SameQueue, Zenon DEF Full, Outstanding
<1>2. ~Produce /\ ~Poll /\ ~OpenHeartbeat /\ ~WriteHeartbeat /\ ~Restart
  <2>1. Outstanding = QueueMax /\ QueueMax \in Nat
        /\ pc \in {"connect", "sleep", "recv"}
    BY SizesAssumption, Zenon DEF Full
  <2>2. ~(Outstanding < QueueMax)
    BY <2>1, SMT
  <2>3. QED
    BY <2>1, <2>2, Zenon DEF Produce, Poll, OpenHeartbeat, WriteHeartbeat, Restart
<1>3. CASE Connect \/ Wake \/ Silence
  BY <1>1, <1>3, Zenon DEF Connect, Wake, Silence
<1>4. CASE QueueFull \/ StreamError
  BY <1>1, <1>4, Zenon DEF QueueFull, StreamError, BufferError, Reconnects
<1>5. CASE LeaveLoop \/ FlushAndExit \/ Crash \/ Reboot
  BY <1>5, Zenon DEF LeaveLoop, FlushAndExit, Crash, Reboot, Down
<1>6. CASE (\E s \in Symbols : Trade(s)) \/ SocketDies \/ StopRequested
  BY <1>1, <1>6, Zenon DEF Trade, SocketDies, StopRequested, Full
<1>7. CASE \E p \in Partitions : Broker(p) \/ Expire(p)
  BY <1>7, SameOutstanding, Zenon DEF Full
<1>8. QED
  BY <1>2, <1>3, <1>4, <1>5, <1>6, <1>7, Zenon DEF Step, Loop

\* Whatever the broker does, a process that has filled its queue publishes nothing
\* more: only its end makes room.
THEOREM AFullQueueStaysFull == Spec => FullStaysFull
<1>1. Init => Books
  BY BooksInit
<1>2. TypeOK /\ Books /\ [Next]_receiver => Books'
  BY BooksStep, BooksStutter, Zenon DEF Next
<1>3. TypeOK /\ Books /\ [Next]_receiver => [Full => Full' \/ pc' \in {"flush", "down"}]_receiver
  BY FullStep, Zenon DEF Next
<1>4. QED
  BY <1>1, <1>2, <1>3, TypeCorrect, PTL DEF Spec, FullStaysFull

-----------------------------------------------------------------------------
(* The topic holds each symbol's trades once and in order.                 *)

Rising(s) == \A i, j \in DOMAIN s : i < j => s[i][2] < s[j][2]
UpTo(s, n) == \A i \in DOMAIN s : s[i][2] <= n
Below(s, t) == \A i \in DOMAIN s, j \in DOMAIN t : s[i][2] < t[j][2]
NotAbove(s, t) == \A i \in DOMAIN s, j \in DOMAIN t : s[i][2] <= t[j][2]
Keyed(s, p) == \A i \in DOMAIN s : PartitionOf[s[i][1]] = p

\* Topic, queue and socket are in trade order, one after the other.  A message the
\* broker has already may also be the first of the queue.
OrderOf(p) ==
    /\ Rising(queue[p]) /\ Keyed(queue[p], p)
    /\ UpTo(queue[p], trades) /\ UpTo(topic[p], trades)
    /\ Below(queue[p], socket) /\ Below(topic[p], socket)
    /\ NotAbove(topic[p], queue[p])
    /\ ~sent[p] => Below(topic[p], queue[p])

Ordered ==
    /\ Rising(socket) /\ UpTo(socket, trades)
    /\ \A p \in Partitions : OrderOf(p)

LEMMA PlaceType == \A t \in Trades : t[1] \in Symbols /\ t[2] \in Nat
BY SizesAssumption DEF Trades

\* The elements of a sequence that was appended to, and of its tail.
LEMMA Appended ==
    ASSUME NEW s \in Seq(Trades), NEW t \in Trades
    PROVE  /\ \A i \in DOMAIN Append(s, t) :
                 \/ i \in DOMAIN s /\ i < Len(s) + 1 /\ Append(s, t)[i] = s[i]
                 \/ i = Len(s) + 1 /\ Append(s, t)[i] = t
           /\ Append(s, t) \in Seq(Trades)
OBVIOUS

LEMMA Removed ==
    ASSUME NEW s \in Seq(Trades), s # << >>
    PROVE  /\ 1 \in DOMAIN s /\ Head(s) = s[1] /\ s[1] \in Trades
           /\ \A i \in DOMAIN Tail(s) :
                 i \in Nat /\ i + 1 \in DOMAIN s /\ 1 < i + 1 /\ Tail(s)[i] = s[i + 1]
           /\ Tail(s) \in Seq(Trades)
OBVIOUS

LEMMA Elements ==
    ASSUME NEW s \in Seq(Trades)
    PROVE  \A i \in DOMAIN s : i \in Nat /\ s[i] \in Trades /\ s[i][2] \in Nat
<1>1. \A i \in DOMAIN s : i \in Nat /\ s[i] \in Trades
  OBVIOUS
<1>2. QED
  BY <1>1, PlaceType, Zenon

LEMMA NoElements == \A i : i \notin DOMAIN << >>
OBVIOUS

LEMMA RisingAppend ==
    ASSUME NEW s \in Seq(Trades), NEW t \in Trades, Rising(s),
           \A i \in DOMAIN s : s[i][2] < t[2]
    PROVE  Rising(Append(s, t))
<1> SUFFICES ASSUME NEW i \in DOMAIN Append(s, t), NEW j \in DOMAIN Append(s, t), i < j
             PROVE  Append(s, t)[i][2] < Append(s, t)[j][2]
  BY Zenon DEF Rising
<1>1. Len(s) \in Nat /\ (i \in DOMAIN s => i \in Nat) /\ (j \in DOMAIN s => j \in Nat)
  OBVIOUS
<1>2. i \in DOMAIN s /\ Append(s, t)[i] = s[i]
  BY <1>1, Appended, SMT
<1>3. \/ j \in DOMAIN s /\ Append(s, t)[j] = s[j]
      \/ Append(s, t)[j] = t
  BY Appended, Zenon
<1>4. QED
  BY <1>2, <1>3, Zenon DEF Rising

LEMMA RisingTail ==
    ASSUME NEW s \in Seq(Trades), s # << >>, Rising(s)
    PROVE  /\ Rising(Tail(s))
           /\ \A i \in DOMAIN Tail(s) : Head(s)[2] < Tail(s)[i][2]
<1>1. ASSUME NEW i \in DOMAIN Tail(s), NEW j \in DOMAIN Tail(s), i < j
      PROVE  Tail(s)[i][2] < Tail(s)[j][2]
  <2>1. /\ i \in Nat /\ i + 1 \in DOMAIN s /\ Tail(s)[i] = s[i + 1]
        /\ j \in Nat /\ j + 1 \in DOMAIN s /\ Tail(s)[j] = s[j + 1]
    BY Removed, Zenon
  <2>2. i + 1 < j + 1
    BY <1>1, <2>1, SMT
  <2>3. QED
    BY <2>1, <2>2, Zenon DEF Rising
<1>2. ASSUME NEW i \in DOMAIN Tail(s)
      PROVE  Head(s)[2] < Tail(s)[i][2]
  BY Removed, Zenon DEF Rising
<1>3. QED
  BY <1>1, <1>2, Zenon DEF Rising

LEMMA OrderedInit == Init => Ordered
<1> SUFFICES ASSUME Init PROVE Ordered
  OBVIOUS
<1>1. socket = << >> /\ \A p \in Partitions : queue[p] = << >> /\ topic[p] = << >>
  BY Zenon DEF Init
<1>2. QED
  BY <1>1, NoElements, Zenon DEF Ordered, OrderOf, Rising, UpTo, Below, NotAbove, Keyed

\* The socket is closed.
LEMMA OrderedDisconnect ==
    ASSUME Ordered, socket' = << >>, UNCHANGED <<trades, queue, sent, topic>>
    PROVE  Ordered'
BY NoElements, Zenon DEF Ordered, OrderOf, Rising, UpTo, Below

LEMMA OrderedDown ==
    ASSUME Ordered, Down
    PROVE  Ordered'
<1>1. socket' = << >> /\ trades' = trades /\ topic' = topic
      /\ \A p \in Partitions : queue'[p] = << >>
  BY Zenon DEF Down, Disconnect
<1>2. QED
  BY <1>1, NoElements, Zenon DEF Ordered, OrderOf, Rising, UpTo, Below, NotAbove, Keyed

LEMMA OrderedSame ==
    ASSUME Ordered, UNCHANGED <<trades, socket, queue, sent, topic>>
    PROVE  Ordered'
BY Zenon DEF Ordered, OrderOf

\* A new trade is above every trade that was made before.
LEMMA OrderedTrade ==
    ASSUME TypeOK, Ordered, NEW s \in Symbols, Trade(s)
    PROVE  Ordered'
<1> DEFINE t == <<s, trades'>>
<1>1. /\ trades' = trades + 1 /\ UNCHANGED <<queue, sent, topic>>
      /\ socket' = socket \/ socket' = Append(socket, t)
  BY Zenon DEF Trade, producer
<1>2. trades \in Nat /\ trades' \in 1..MaxTrades /\ t \in Trades /\ t[2] = trades + 1
  <2>1. trades \in 0..MaxTrades /\ trades < MaxTrades /\ MaxTrades \in Nat
    BY SizesAssumption, Zenon DEF TypeOK, Trade
  <2>2. trades \in Nat /\ trades' \in 1..MaxTrades
    BY <1>1, <2>1, SMT
  <2>3. QED
    BY <1>1, <2>2, Zenon DEF Trades
<1>3. ASSUME NEW r \in Seq(Trades), UpTo(r, trades)
      PROVE  UpTo(r, trades') /\ \A i \in DOMAIN r : r[i][2] < t[2]
  <2>1. ASSUME NEW i \in DOMAIN r
        PROVE  r[i][2] <= trades' /\ r[i][2] < t[2]
    <3>1. r[i][2] \in Nat /\ r[i][2] <= trades
      BY <1>3, Elements, Zenon DEF UpTo
    <3>2. QED
      BY <1>1, <1>2, <3>1, SMT
  <2>2. QED
    BY <2>1, Zenon DEF UpTo
<1>4. socket \in Seq(Trades) /\ socket' \in Seq(Trades)
      /\ \A j \in DOMAIN socket' : (j \in DOMAIN socket /\ socket'[j] = socket[j])
                                   \/ socket'[j] = t
  <2>1. socket \in Seq(Trades)
    BY Zenon DEF TypeOK
  <2> HIDE DEF t
  <2>2. QED
    BY <1>1, <1>2, <2>1, Appended, Zenon
<1>5. Rising(socket') /\ UpTo(socket', trades')
  <2>1. UpTo(socket, trades') /\ \A i \in DOMAIN socket : socket[i][2] < t[2]
    BY <1>3, <1>4, Zenon DEF Ordered
  <2>2. t[2] <= trades'
    BY <1>1, <1>2, SMT
  <2>3. UpTo(socket', trades')
    <3> HIDE DEF t
    <3> QED
      BY <1>4, <2>1, <2>2, Zenon DEF UpTo
  <2>4. Rising(Append(socket, t))
    <3> HIDE DEF t
    <3> QED
      BY <1>2, <1>4, <2>1, RisingAppend, Zenon DEF Ordered
  <2>5. QED
    BY <1>1, <2>3, <2>4, Zenon DEF Ordered
<1>6. ASSUME NEW p \in Partitions
      PROVE  OrderOf(p)'
  <2>1. queue[p] \in Seq(Trades) /\ topic[p] \in Seq(Trades) /\ OrderOf(p)
    BY Zenon DEF TypeOK, Ordered
  <2>2. /\ UpTo(queue[p], trades') /\ \A i \in DOMAIN queue[p] : queue[p][i][2] < t[2]
        /\ UpTo(topic[p], trades') /\ \A i \in DOMAIN topic[p] : topic[p][i][2] < t[2]
    BY <1>3, <2>1, Zenon DEF OrderOf
  <2>3. Below(queue[p], socket') /\ Below(topic[p], socket')
    <3> HIDE DEF t
    <3> QED
      BY <1>4, <2>1, <2>2, Zenon DEF OrderOf, Below
  <2>4. QED
    BY <1>1, <2>1, <2>2, <2>3, Zenon DEF OrderOf
<1>7. QED
  BY <1>5, <1>6, Zenon DEF Ordered

\* The first trade of the socket goes to the end of its partition's queue.
LEMMA OrderedProduce ==
    ASSUME TypeOK, Ordered, Produce
    PROVE  Ordered'
<1> DEFINE t == Head(socket)
<1>0. PICK q \in Partitions : q = PartitionOf[t[1]]
  BY HeadOfSocket, Zenon DEF Produce
<1>1. /\ socket # << >> /\ socket \in Seq(Trades) /\ t \in Trades
      /\ queue \in [Partitions -> Seq(Trades)] /\ topic \in [Partitions -> Seq(Trades)]
  BY HeadOfSocket, Zenon DEF Produce, TypeOK
<1>2. /\ socket' = Tail(socket) /\ UNCHANGED <<trades, sent, topic>>
      /\ queue'[q] = Append(queue[q], t)
      /\ \A p \in Partitions \ {q} : queue'[p] = queue[p]
  BY <1>0, <1>1, Zenon DEF Produce
<1>3. /\ Rising(socket') /\ \A i \in DOMAIN socket' : t[2] < socket'[i][2]
      /\ 1 \in DOMAIN socket /\ t = socket[1]
      /\ \A i \in DOMAIN socket' : i + 1 \in DOMAIN socket /\ socket'[i] = socket[i + 1]
  BY <1>1, <1>2, RisingTail, Removed, Zenon DEF Ordered
<1>9. PartitionOf[t[1]] = q
  BY <1>0, Zenon
<1> HIDE DEF t
<1>4. UpTo(socket', trades') /\ t[2] <= trades
  BY <1>2, <1>3, Zenon DEF Ordered, UpTo
<1>5. ASSUME NEW r, Below(r, socket)
      PROVE  Below(r, socket') /\ \A i \in DOMAIN r : r[i][2] < t[2]
  BY <1>3, <1>5, Zenon DEF Below
<1>6. ASSUME NEW p \in Partitions \ {q}
      PROVE  OrderOf(p)'
  <2>1. OrderOf(p)
    BY Zenon DEF Ordered
  <2>2. QED
    BY <1>2, <1>5, <1>6, <2>1, Zenon DEF OrderOf
<1>7. OrderOf(q)'
  <2>1. OrderOf(q) /\ queue[q] \in Seq(Trades) /\ topic[q] \in Seq(Trades)
    BY <1>1, Zenon DEF Ordered
  <2>2. /\ \A i \in DOMAIN queue[q] : queue[q][i][2] < t[2]
        /\ \A i \in DOMAIN topic[q] : topic[q][i][2] < t[2]
        /\ Below(queue[q], socket') /\ Below(topic[q], socket')
    BY <1>5, <2>1, Zenon DEF OrderOf
  <2>3. Rising(queue'[q])
    BY <1>1, <1>2, <2>1, <2>2, RisingAppend, Zenon DEF OrderOf
  <2>4. \A i \in DOMAIN queue'[q] :
            \/ i \in DOMAIN queue[q] /\ queue'[q][i] = queue[q][i]
            \/ queue'[q][i] = t
    <3>1. \A i \in DOMAIN Append(queue[q], t) :
              \/ i \in DOMAIN queue[q] /\ Append(queue[q], t)[i] = queue[q][i]
              \/ Append(queue[q], t)[i] = t
      BY <1>1, <2>1, Appended, Zenon
    <3>2. QED
      BY <1>2, <3>1, Zenon
  <2>5. Keyed(queue'[q], q) /\ UpTo(queue'[q], trades') /\ Below(queue'[q], socket')
    <3>1. Keyed(queue'[q], q)
      BY <1>9, <2>1, <2>4, Zenon DEF OrderOf, Keyed
    <3>2. UpTo(queue'[q], trades')
      BY <1>2, <1>4, <2>1, <2>4, Zenon DEF OrderOf, UpTo
    <3>3. Below(queue'[q], socket')
      BY <1>3, <2>2, <2>4, Zenon DEF Below
    <3>4. QED
      BY <3>1, <3>2, <3>3
  <2>6. \A i \in DOMAIN topic[q] : topic[q][i][2] <= t[2]
    <3>1. ASSUME NEW i \in DOMAIN topic[q] PROVE topic[q][i][2] <= t[2]
      <4>1. topic[q][i][2] < t[2] /\ topic[q][i][2] \in Nat /\ t[2] \in Nat
        BY <1>1, <2>1, <2>2, Elements, PlaceType, Zenon
      <4>2. QED
        BY <4>1, SMT
    <3>2. QED
      BY <3>1, Zenon
  <2>7. NotAbove(topic[q], queue'[q]) /\ (~sent[q] => Below(topic[q], queue'[q]))
    BY <2>1, <2>2, <2>4, <2>6, Zenon DEF OrderOf, NotAbove, Below
  <2>8. QED
    BY <1>2, <2>1, <2>2, <2>3, <2>5, <2>7, Zenon DEF OrderOf
<1>8. QED
  BY <1>3, <1>4, <1>6, <1>7, Zenon DEF Ordered

\* What the broker appends is above the topic, and what leaves a queue below its rest.
LEMMA HeadInOrder ==
    ASSUME TypeOK, Ordered, NEW p \in Partitions, queue[p] # << >>
    PROVE  /\ \A i \in DOMAIN Tail(queue[p]) : Head(queue[p])[2] < Tail(queue[p])[i][2]
           /\ \A i \in DOMAIN queue[p] : Head(queue[p])[2] <= queue[p][i][2]
           /\ \A i \in DOMAIN topic[p] : topic[p][i][2] <= Head(queue[p])[2]
           /\ ~sent[p] => \A i \in DOMAIN topic[p] : topic[p][i][2] < Head(queue[p])[2]
           /\ PartitionOf[Head(queue[p])[1]] = p /\ Head(queue[p])[2] <= trades
           /\ \A i \in DOMAIN socket : Head(queue[p])[2] < socket[i][2]
<1>1. queue[p] \in Seq(Trades) /\ OrderOf(p)
  BY Zenon DEF TypeOK, Ordered
<1>2. 1 \in DOMAIN queue[p] /\ Head(queue[p]) = queue[p][1]
  BY <1>1, Removed, Zenon
<1>3. \A i \in DOMAIN Tail(queue[p]) : Head(queue[p])[2] < Tail(queue[p])[i][2]
  BY <1>1, RisingTail, Zenon DEF OrderOf
<1>4. ASSUME NEW i \in DOMAIN queue[p]
      PROVE  queue[p][1][2] <= queue[p][i][2]
  <2>1. i \in Nat /\ i >= 1 /\ queue[p][1][2] \in Nat /\ queue[p][i][2] \in Nat
    BY <1>1, <1>2, Elements
  <2>2. CASE i = 1
    BY <2>1, <2>2, SMT
  <2>3. CASE i # 1
    <3>1. 1 < i
      BY <2>1, <2>3, SMT
    <3>2. queue[p][1][2] < queue[p][i][2]
      BY <1>1, <1>2, <3>1, Zenon DEF OrderOf, Rising
    <3>3. QED
      BY <2>1, <3>2, SMT
  <2>4. QED
    BY <2>2, <2>3
<1>5. QED
  BY <1>1, <1>2, <1>3, <1>4, Zenon DEF OrderOf, NotAbove, Below, UpTo, Keyed

\* A message is appended, delivered, or expires.
LEMMA OrderedBroker ==
    ASSUME TypeOK, Ordered, NEW p \in Partitions, Broker(p) \/ Expire(p)
    PROVE  Ordered'
<1> DEFINE h == Head(queue[p])
<1>1. /\ queue[p] # << >> /\ queue[p] \in Seq(Trades) /\ topic[p] \in Seq(Trades)
      /\ queue \in [Partitions -> Seq(Trades)] /\ topic \in [Partitions -> Seq(Trades)]
      /\ sent \in [Partitions -> BOOLEAN]
      /\ UNCHANGED <<trades, socket>>
      /\ h \in Trades
  BY HeadOfQueue, Zenon DEF TypeOK, Broker, Expire, Background, connection
<1>2. /\ \A r \in Partitions \ {p} : queue'[r] = queue[r] /\ topic'[r] = topic[r]
                                      /\ sent'[r] = sent[r]
      /\ topic'[p] = topic[p] \/ (topic'[p] = Append(topic[p], h) /\ ~sent[p] /\ Broker(p))
      /\ \/ queue'[p] = Tail(queue[p]) /\ sent'[p] = FALSE
         \/ queue'[p] = queue[p] /\ sent'[p] = TRUE
  BY <1>1, Zenon DEF Broker, Expire, AppendedOnce
<1>3. /\ \A i \in DOMAIN Tail(queue[p]) : h[2] < Tail(queue[p])[i][2]
      /\ \A i \in DOMAIN queue[p] : h[2] <= queue[p][i][2]
      /\ \A i \in DOMAIN topic[p] : topic[p][i][2] <= h[2]
      /\ h[2] <= trades /\ \A i \in DOMAIN socket : h[2] < socket[i][2]
  BY <1>1, HeadInOrder, Zenon
<1>4. OrderOf(p)
  BY Zenon DEF Ordered
<1>5. \A i \in DOMAIN topic'[p] :
          \/ i \in DOMAIN topic[p] /\ topic'[p][i] = topic[p][i]
          \/ topic'[p][i] = h
  <2>1. \A i \in DOMAIN Append(topic[p], h) :
            \/ i \in DOMAIN topic[p] /\ Append(topic[p], h)[i] = topic[p][i]
            \/ Append(topic[p], h)[i] = h
    BY <1>1, Appended, Zenon
  <2>2. QED
    BY <1>2, <2>1, Zenon
<1>6. \A i \in DOMAIN Tail(queue[p]) :
          i + 1 \in DOMAIN queue[p] /\ Tail(queue[p])[i] = queue[p][i + 1]
  BY <1>1, Removed, Zenon
<1>7. \A i \in DOMAIN queue'[p] :
          \E j \in DOMAIN queue[p] : queue'[p][i] = queue[p][j]
  BY <1>2, <1>6, Zenon
<1>8. h[2] \in Nat /\ \A i \in DOMAIN topic[p] : topic[p][i][2] \in Nat
  BY <1>1, Elements, PlaceType, Zenon
<1>9. \A i \in DOMAIN queue[p] : queue[p][i][2] \in Nat
  BY <1>1, Elements, Zenon
<1>10. \A i \in DOMAIN topic'[p] : topic'[p][i][2] \in Nat /\ topic'[p][i][2] <= h[2]
  <2>1. h[2] <= h[2]
    BY <1>8, SMT
  <2>2. QED
    BY <1>3, <1>5, <1>8, <2>1, Zenon
<1> HIDE DEF h
<1>11. Rising(queue'[p]) /\ Keyed(queue'[p], p) /\ UpTo(queue'[p], trades')
       /\ Below(queue'[p], socket')
  <2>1. Rising(queue'[p])
    BY <1>1, <1>2, <1>4, RisingTail, Zenon DEF OrderOf
  <2>2. Keyed(queue'[p], p)
    BY <1>4, <1>7, Zenon DEF OrderOf, Keyed
  <2>3. UpTo(queue'[p], trades')
    BY <1>1, <1>4, <1>7, Zenon DEF OrderOf, UpTo
  <2>4. Below(queue'[p], socket')
    BY <1>1, <1>4, <1>7, Zenon DEF OrderOf, Below
  <2>5. QED
    BY <2>1, <2>2, <2>3, <2>4
<1>12. UpTo(topic'[p], trades') /\ Below(topic'[p], socket')
  <2>1. UpTo(topic'[p], trades')
    BY <1>1, <1>3, <1>4, <1>5, Zenon DEF OrderOf, UpTo
  <2>2. Below(topic'[p], socket')
    BY <1>1, <1>3, <1>4, <1>5, Zenon DEF OrderOf, Below
  <2>3. QED
    BY <2>1, <2>2
<1>13. NotAbove(topic'[p], queue[p])
  <2>1. ASSUME NEW i \in DOMAIN topic'[p], NEW j \in DOMAIN queue[p]
        PROVE  topic'[p][i][2] <= queue[p][j][2]
    <3>1. /\ topic'[p][i][2] \in Nat /\ topic'[p][i][2] <= h[2] /\ h[2] \in Nat
          /\ h[2] <= queue[p][j][2] /\ queue[p][j][2] \in Nat
      BY <1>3, <1>8, <1>9, <1>10, Zenon
    <3>2. QED
      BY <3>1, SMT
  <2>2. QED
    BY <2>1, Zenon DEF NotAbove
<1>14. Below(topic'[p], Tail(queue[p]))
  <2>1. ASSUME NEW i \in DOMAIN topic'[p], NEW j \in DOMAIN Tail(queue[p])
        PROVE  topic'[p][i][2] < Tail(queue[p])[j][2]
    <3>1. /\ topic'[p][i][2] \in Nat /\ topic'[p][i][2] <= h[2] /\ h[2] \in Nat
          /\ h[2] < Tail(queue[p])[j][2] /\ Tail(queue[p])[j][2] \in Nat
      BY <1>3, <1>6, <1>8, <1>9, <1>10, Zenon
    <3>2. QED
      BY <3>1, SMT
  <2>2. QED
    BY <2>1, Zenon DEF Below
<1>15. NotAbove(topic'[p], queue'[p]) /\ (~sent'[p] => Below(topic'[p], queue'[p]))
  <2>1. NotAbove(topic'[p], queue'[p])
    BY <1>7, <1>13, Zenon DEF NotAbove
  <2>2. QED
    BY <1>2, <1>14, <2>1, Zenon
<1>16. OrderOf(p)'
  BY <1>11, <1>12, <1>15, Zenon DEF OrderOf
<1>17. ASSUME NEW r \in Partitions \ {p}
       PROVE  OrderOf(r)'
  <2>1. OrderOf(r)
    BY Zenon DEF Ordered
  <2>2. QED
    BY <1>1, <1>2, <2>1, Zenon DEF OrderOf
<1>18. QED
  BY <1>1, <1>16, <1>17, Zenon DEF Ordered

LEMMA OrderedStep ==
    ASSUME TypeOK, Ordered, Step \/ Reboot
    PROVE  Ordered'
<1> USE DEF producer, connection
<1>1. CASE \E s \in Symbols : Trade(s)
  BY <1>1, OrderedTrade, Zenon
<1>2. CASE Connect \/ Wake \/ Poll \/ OpenHeartbeat \/ WriteHeartbeat \/ LeaveLoop \/ Restart
  BY <1>2, OrderedSame, Zenon
     DEF Connect, Wake, Poll, OpenHeartbeat, WriteHeartbeat, LeaveLoop, Restart
<1>3. CASE Silence \/ QueueFull \/ StreamError
  BY <1>3, OrderedDisconnect, Zenon
     DEF Silence, QueueFull, StreamError, BufferError, Reconnects, Disconnect
<1>4. CASE Produce
  BY <1>4, OrderedProduce, Zenon
<1>5. CASE FlushAndExit \/ Crash \/ Reboot
  BY <1>5, OrderedDown, Zenon DEF FlushAndExit, Crash, Reboot
<1>6. CASE SocketDies \/ StopRequested
  BY <1>6, OrderedSame, Zenon DEF SocketDies, StopRequested
<1>7. CASE \E p \in Partitions : Broker(p) \/ Expire(p)
  BY <1>7, OrderedBroker, Zenon
<1>8. QED
  BY <1>1, <1>2, <1>3, <1>4, <1>5, <1>6, <1>7, Zenon DEF Step, Loop

LEMMA OrderedStutter == Ordered /\ UNCHANGED receiver => Ordered'
BY OrderedSame, Zenon DEF receiver, connection, producer

\* A broker's append is a step of TradeLog.
LEMMA BrokerPublishes ==
    ASSUME TypeOK, Ordered, NEW p \in Partitions, Broker(p), topic' # topic
    PROVE  Log!Next
<1> DEFINE h == Head(queue[p])
<1>1. queue[p] # << >> /\ topic \in [Partitions -> Seq(Trades)]
  BY Zenon DEF Broker, TypeOK
<1>2. h \in Trades /\ PartitionOf[h[1]] = p
  BY <1>1, HeadOfQueue, HeadInOrder, Zenon
<1>3. ~sent[p]
  BY <1>1, Zenon DEF Broker, AppendedOnce
<1>4. \A i \in DOMAIN topic[p] : topic[p][i][2] < h[2]
  BY <1>1, <1>3, HeadInOrder, Zenon
<1>5. topic' = [topic EXCEPT ![p] = Append(topic[p], h)]
  BY <1>3, Zenon DEF Broker, AppendedOnce
<1> HIDE DEF h
<1>6. Log!Publish(h)
  BY <1>2, <1>4, <1>5, Zenon DEF Log!Publish
<1>7. QED
  BY <1>2, <1>6, Zenon DEF Log!Next

LEMMA StepPublishes ==
    ASSUME TypeOK, Ordered, Step \/ Reboot
    PROVE  Log!Next \/ UNCHANGED topic
<1>1. CASE \E p \in Partitions : Broker(p) \/ Expire(p)
  BY <1>1, BrokerPublishes, Zenon DEF Expire
<1>2. CASE \E s \in Symbols : Trade(s)
  BY <1>2, Zenon DEF Trade
<1>3. CASE Loop
  BY <1>3, Zenon DEF Loop, Connect, Wake, Silence, Produce, QueueFull, BufferError, Reconnects,
     Poll, OpenHeartbeat, WriteHeartbeat, LeaveLoop, FlushAndExit, Restart, Down
<1>4. CASE SocketDies \/ StreamError \/ StopRequested \/ Crash \/ Reboot
  BY <1>4, Zenon DEF SocketDies, StreamError, Reconnects, StopRequested, Crash, Reboot, Down
<1>5. QED
  BY <1>1, <1>2, <1>3, <1>4, Zenon DEF Step

\* The receiver implements TradeLog: reconnects, lost answers, expiries and restarts
\* neither repeat a trade in the topic nor put it behind a later one of its symbol.
THEOREM ImplementsTradeLog == Spec => PublishesInOrder
<1>1. Init => Ordered /\ Log!Init
  BY OrderedInit, Zenon DEF Init, Log!Init
<1>2. TypeOK /\ Ordered /\ [Next]_receiver => Ordered'
  BY OrderedStep, OrderedStutter, Zenon DEF Next
<1>3. TypeOK /\ Ordered /\ [Next]_receiver => [Log!Next]_topic
  BY StepPublishes, Zenon DEF Next, receiver
<1>4. QED
  BY <1>1, <1>2, <1>3, TypeCorrect, PTL DEF Spec, PublishesInOrder, Log!Spec
=============================================================================
