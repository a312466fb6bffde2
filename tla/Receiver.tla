------------------------------ MODULE Receiver ------------------------------
(***************************************************************************)
(* The receiver: one process reads the trades of every symbol from one     *)
(* socket and produces each to Kafka, reconnects when the socket breaks or *)
(* falls silent, and writes a heartbeat every HeartbeatEvery trades.       *)
(*                                                                         *)
(* A trade is its symbol and its place among all trades.  Binance, the     *)
(* socket, the producer's queue and thread, the broker and systemd are     *)
(* external.  The bounds are MaxTrades and MaxIncidents.                   *)
(***************************************************************************)
EXTENDS Integers, Sequences, FiniteSets, FiniteSetsExt

CONSTANTS
    Symbols,         \* SYMBOLS
    Partitions,      \* partitions of the trades topic
    PartitionOf,     \* the partition a symbol's trades are keyed to
    QueueMax,        \* queue.buffering.max.messages (200 000)
    HeartbeatEvery,  \* trades from one heartbeat to the next (500)
    BackoffMin,      \* RECONNECT_MIN_S (1)
    BackoffMax,      \* RECONNECT_MAX_S (30)
    MaxTrades,       \* bound: trades made
    MaxIncidents     \* bound: errors, deaths, stops and lost answers

ASSUME KeysAssumption == PartitionOf \in [Symbols -> Partitions] /\ IsFiniteSet(Partitions)
ASSUME SizesAssumption ==
    /\ {QueueMax, HeartbeatEvery, BackoffMin, BackoffMax} \subseteq Nat \ {0}
    /\ BackoffMin <= BackoffMax
    /\ {MaxTrades, MaxIncidents} \subseteq Nat

Trades == Symbols \X (1..MaxTrades)
NoBeat == -1        \* no heartbeat file, or one that is empty

VARIABLES
    \* Binance and the socket.
    trades,         \* trades made so far
    socket,         \* trades the socket holds for recv()
    alive,          \* whether trades still arrive on it
    \* The process.
    pc,             \* where run() is
    stop,           \* the stop event
    backoff,
    stats,          \* what the process has counted
    \* The producer, which dies with the process, and the topic.
    queue,          \* per partition, the messages not delivered yet
    sent,           \* whether the broker has the first of them already
    reports,        \* delivery reports waiting for poll()
    topic,          \* per partition, its messages
    \* The heartbeat file.
    beat,           \* the count it holds
    incidents       \* bound

connection == <<trades, socket, alive>>
producer == <<queue, sent, reports>>
loop == <<pc, stop, backoff, stats>>
receiver == <<connection, producer, loop, topic, beat, incidents>>

NoStats == [received |-> 0, published |-> 0, failed |-> 0, reconnects |-> 0]
NoReports == [ok |-> 0, err |-> 0]

\* The places of the producer's queues, and what counts against
\* queue.buffering.max.messages: a message does until its report is served.
InQueue == UNION {{p} \X (1..Len(queue[p])) : p \in Partitions}
Undelivered == Cardinality(InQueue)
Outstanding == Undelivered + reports.ok + reports.err

Init ==
    /\ trades = 0
    /\ socket = << >>
    /\ alive = FALSE
    /\ pc = "connect"
    /\ stop = FALSE
    /\ backoff = BackoffMin
    /\ stats = NoStats
    /\ queue = [p \in Partitions |-> << >>]
    /\ sent = [p \in Partitions |-> FALSE]
    /\ reports = NoReports
    /\ topic = [p \in Partitions |-> << >>]
    /\ beat = NoBeat
    /\ incidents = 0

Incident == incidents < MaxIncidents /\ incidents' = incidents + 1

-----------------------------------------------------------------------------
(* Binance.  A trade made while no socket is alive is never received.      *)

Trade(s) ==
    /\ trades < MaxTrades
    /\ trades' = trades + 1
    /\ socket' = IF alive THEN Append(socket, <<s, trades'>>) ELSE socket
    /\ UNCHANGED <<alive, producer, loop, topic, beat, incidents>>

\* Pings are answered and nothing arrives any more.
SocketDies ==
    /\ Incident
    /\ alive
    /\ alive' = FALSE
    /\ UNCHANGED <<trades, socket, producer, loop, topic, beat>>

-----------------------------------------------------------------------------
(* The run loop: connecting and reconnecting.                              *)

Disconnect == socket' = << >> /\ alive' = FALSE /\ UNCHANGED trades

\* The loop's condition is tested before each recv() and each connection.
Continue == pc' = IF stop THEN "connect" ELSE "recv"

Connect ==
    /\ pc = "connect" /\ ~stop
    /\ pc' = "recv"
    /\ alive' = TRUE
    /\ backoff' = BackoffMin
    /\ UNCHANGED <<trades, socket, producer, stop, stats, topic, beat, incidents>>

\* An exception: the socket is closed and the loop waits before the next.
Reconnects(count) ==
    /\ pc' = "sleep"
    /\ stats' = [stats EXCEPT !.received = @ + count, !.reconnects = @ + 1]
    /\ Disconnect
    /\ UNCHANGED <<producer, stop, backoff, topic, beat>>

\* The connection is refused or closed, or a message is not a trade.
StreamError ==
    /\ Incident
    /\ pc \in {"connect", "recv"}
    /\ \/ Reconnects(0)
       \/ socket # << >> /\ Reconnects(1)

Wake ==
    /\ pc = "sleep"
    /\ pc' = "connect"
    /\ backoff' = Min({backoff * 2, BackoffMax})
    /\ UNCHANGED <<connection, producer, stop, stats, topic, beat, incidents>>

\* Nothing for 30 seconds: a new socket, at once.
NeverSilent == FALSE                                            \* mutant
Silent == socket = << >>

Silence ==
    /\ pc = "recv"
    /\ Silent
    /\ pc' = "connect"
    /\ Disconnect
    /\ UNCHANGED <<producer, stop, backoff, stats, topic, beat, incidents>>

-----------------------------------------------------------------------------
(* One trade: recv(), produce(), poll(0) and the heartbeat.                *)

Produce ==
    /\ pc = "recv"
    /\ socket # << >>
    /\ Outstanding < QueueMax
    /\ queue' = [queue EXCEPT ![PartitionOf[Head(socket)[1]]] = Append(@, Head(socket))]
    /\ socket' = Tail(socket)
    /\ stats' = [stats EXCEPT !.received = @ + 1]
    /\ pc' = "poll"
    /\ UNCHANGED <<trades, alive, sent, reports, stop, backoff, topic, beat, incidents>>

Swallowed ==                                                    \* mutant
    /\ stats' = [stats EXCEPT !.received = @ + 1]
    /\ socket' = Tail(socket)
    /\ UNCHANGED <<trades, alive, producer, pc, stop, backoff, topic, beat>>
PolledFirst ==                                                  \* mutant
    /\ reports' = NoReports
    /\ UNCHANGED <<connection, queue, sent, loop, topic, beat>>
BeatsOnReceipt ==                                               \* mutant
    /\ pc' = "sleep"
    /\ stats' = [stats EXCEPT !.received = @ + 1, !.reconnects = @ + 1]
    /\ beat' = stats.received + 1
    /\ Disconnect
    /\ UNCHANGED <<producer, stop, backoff, topic>>
\* produce() raises BufferError at once, and poll() is not reached.
BufferError == Reconnects(1)

QueueFull ==
    /\ pc = "recv"
    /\ socket # << >>
    /\ Outstanding >= QueueMax
    /\ BufferError
    /\ UNCHANGED incidents

\* The delivery callbacks count.
Served == [stats EXCEPT !.published = @ + reports.ok, !.failed = @ + reports.err]

HeartbeatDue == stats.received % HeartbeatEvery = 0

Poll ==
    /\ pc = "poll"
    /\ stats' = Served
    /\ reports' = NoReports
    /\ IF HeartbeatDue THEN pc' = "open" ELSE Continue
    /\ UNCHANGED <<connection, queue, sent, stop, backoff, topic, beat, incidents>>

\* open(HEARTBEAT_PATH, "w") empties the file.  An OSError leaves it as it is.
OpenHeartbeat ==
    /\ pc = "open"
    /\ \/ pc' = "write" /\ beat' = NoBeat /\ UNCHANGED incidents
       \/ Incident /\ Continue /\ UNCHANGED beat
    /\ UNCHANGED <<connection, producer, stop, backoff, stats, topic>>

WriteHeartbeat ==
    /\ pc = "write"
    /\ \/ beat' = stats.received /\ UNCHANGED incidents
       \/ Incident /\ UNCHANGED beat
    /\ Continue
    /\ UNCHANGED <<connection, producer, stop, backoff, stats, topic>>

-----------------------------------------------------------------------------
(* The producer's thread and the broker.                                   *)

Background == UNCHANGED <<connection, loop, beat>>

\* The broker appends a message once, however often it is sent.
AppendedAgain(p) == Append(topic[p], Head(queue[p]))            \* mutant
AppendedOnce(p) == IF sent[p] THEN topic[p] ELSE Append(topic[p], Head(queue[p]))

Broker(p) ==
    /\ queue[p] # << >>
    /\ topic' = [topic EXCEPT ![p] = AppendedOnce(p)]
    /\ \/ /\ queue' = [queue EXCEPT ![p] = Tail(@)]
          /\ sent' = [sent EXCEPT ![p] = FALSE]
          /\ reports' = [reports EXCEPT !.ok = @ + 1]
          /\ UNCHANGED incidents
       \/ /\ Incident                        \* the answer is lost
          /\ sent' = [sent EXCEPT ![p] = TRUE]
          /\ UNCHANGED <<queue, reports>>
    /\ Background

\* A message expires, whether or not the broker has it.
Expire(p) ==
    /\ Incident
    /\ queue[p] # << >>
    /\ queue' = [queue EXCEPT ![p] = Tail(@)]
    /\ sent' = [sent EXCEPT ![p] = FALSE]
    /\ reports' = [reports EXCEPT !.err = @ + 1]
    /\ UNCHANGED topic
    /\ Background

-----------------------------------------------------------------------------
(* Stopping, dying and starting again.                                     *)

StopRequested ==
    /\ Incident
    /\ pc # "down" /\ ~stop
    /\ stop' = TRUE
    /\ UNCHANGED <<connection, producer, pc, backoff, stats, topic, beat>>

LeaveLoop ==
    /\ pc = "connect"
    /\ stop
    /\ pc' = "flush"
    /\ UNCHANGED <<connection, producer, stop, backoff, stats, topic, beat, incidents>>

Down ==
    /\ pc' = "down"
    /\ Disconnect
    /\ queue' = [p \in Partitions |-> << >>]
    /\ sent' = [p \in Partitions |-> FALSE]
    /\ reports' = NoReports
    /\ UNCHANGED <<stop, backoff, topic>>

\* flush(30) serves the reports; what is still undelivered then is lost.
FlushAndExit ==
    /\ pc = "flush"
    /\ stats' = Served
    /\ \/ Undelivered = 0 /\ UNCHANGED incidents
       \/ Incident
    /\ Down
    /\ UNCHANGED beat

Crash ==
    /\ Incident
    /\ pc # "down"
    /\ Down
    /\ UNCHANGED <<stats, beat>>

\* The machine reboots, with /tmp empty.
Reboot ==
    /\ Incident
    /\ Down
    /\ beat' = NoBeat
    /\ UNCHANGED stats

Restart ==
    /\ pc = "down"
    /\ pc' = "connect"
    /\ stop' = FALSE
    /\ backoff' = BackoffMin
    /\ stats' = NoStats
    /\ UNCHANGED <<connection, producer, topic, beat, incidents>>

-----------------------------------------------------------------------------
Loop ==
    \/ Connect \/ Wake \/ Silence
    \/ Produce \/ QueueFull \/ Poll \/ OpenHeartbeat \/ WriteHeartbeat
    \/ LeaveLoop \/ FlushAndExit \/ Restart

Step ==
    \/ \E s \in Symbols : Trade(s)
    \/ Loop
    \/ SocketDies \/ StreamError \/ StopRequested \/ Crash
    \/ \E p \in Partitions : Broker(p) \/ Expire(p)

Next == Step \/ Reboot

Spec == Init /\ [][Next]_receiver

\* A timeout fires, a connection that is not refused is made, a message is read,
\* and systemd restarts the process.
Fairness == WF_receiver(Loop) /\ \A p \in Partitions : WF_receiver(Broker(p))

-----------------------------------------------------------------------------
(* Properties.                                                             *)

\* Type invariant: every variable holds what the code stores in it.
TypeOK ==
    /\ trades \in 0..MaxTrades
    /\ socket \in Seq(Trades)
    /\ alive \in BOOLEAN
    /\ pc \in {"connect", "sleep", "recv", "poll", "open", "write", "flush", "down"}
    /\ stop \in BOOLEAN
    /\ backoff \in BackoffMin..BackoffMax
    /\ stats \in [received : Nat, published : Nat, failed : Nat, reconnects : Nat]
    /\ queue \in [Partitions -> Seq(Trades)]
    /\ sent \in [Partitions -> BOOLEAN]
    /\ reports \in [ok : Nat, err : Nat]
    /\ topic \in [Partitions -> Seq(Trades)]
    /\ beat \in Nat \cup {NoBeat}
    /\ incidents \in Nat

\* A trade is dropped at the price of a counted reconnect and never in silence:
\* what was received and was neither published nor failed nor is still with the
\* producer is no more than the reconnects.
DropsAreCounted ==
    pc # "down" =>
        stats.received - stats.published - stats.failed - Outstanding \in 0..stats.reconnects

\* The receiver publishes as the aggregator's topic assumes: each trade of a
\* symbol once, in trade order, to the partition of its symbol.
Log == INSTANCE TradeLog
PublishesInOrder == Log!Spec

\* Only poll() makes room and a refused trade never reaches it: once the queue is
\* full when a trade is due, this process publishes nothing more, whatever the
\* broker does.
Full == pc \in {"connect", "sleep", "recv"} /\ Outstanding = QueueMax
FullStaysFull == [][Full => Full' \/ pc' \in {"flush", "down"}]_receiver

\* "A queue that fills means the broker is unreachable": a trade is refused only
\* while a message is undelivered.
RefusedMeansUndelivered == [][QueueFull => Undelivered > 0]_receiver

\* The receiver always comes back to a socket that delivers.
ComesBack == []<>(pc = "recv" /\ alive)
=============================================================================
