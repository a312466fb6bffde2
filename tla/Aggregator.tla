----------------------------- MODULE Aggregator -----------------------------
(***************************************************************************)
(* The speed layer: one process reads trades from a partitioned Kafka      *)
(* topic, gathers them into one-minute windows, writes a window to object  *)
(* storage when event time has moved past it, and commits each partition   *)
(* no further than the oldest trade of a window still open.                *)
(*                                                                         *)
(* One trade is one message of the log; its identity is <<partition,       *)
(* offset>>.  Prices and volumes are abstracted to the set of trades a bar *)
(* was built from, the number of additions made to it (the two differ when *)
(* a trade is counted twice), and its first and last trade, which decide   *)
(* the candle's open and close.  Time is counted in units of which         *)
(* MinuteLen make a minute and Grace make LATENESS_GRACE_S.                *)
(*                                                                         *)
(* The bounds are MaxTime, MaxLog, MaxFaults and MaxRejoins.               *)
(***************************************************************************)
EXTENDS Integers, Sequences, FiniteSets, FiniteSetsExt

CONSTANTS
    Symbols,        \* symbols traded
    Partitions,     \* partitions of the trades topic
    PartitionOf,    \* the partition a symbol's trades are keyed to
    MinuteLen,      \* time units in a minute
    Grace,          \* LATENESS_GRACE_S, in time units
    WrittenLimit,   \* size of `written` above which it is pruned (20 000)
    Skew,           \* how far behind the newest trade one may be published
    MaxTime,        \* bound: newest exchange timestamp
    MaxLog,         \* bound: messages per partition
    MaxFaults,      \* bound: crashes, stops, failed writes and commits
    MaxRejoins      \* bound: group rejoins with the process alive

ASSUME SymbolsAssumption == PartitionOf \in [Symbols -> Partitions]
ASSUME TimeAssumption == /\ MinuteLen \in Nat \ {0}
                         /\ {Grace, Skew, MaxTime} \subseteq Nat
ASSUME BoundsAssumption == {WrittenLimit, MaxLog, MaxFaults, MaxRejoins} \subseteq Nat

NoOffset == -1
NoTime == -1
NoId == << >>

Times == 0..MaxTime
minute_of(t) == t \div MinuteLen
Minutes == {minute_of(t) : t \in Times}
WindowEnd(m) == (m + 1) * MinuteLen

\* A (symbol, minute) pair: the key of a window, of a bar and of a late file.
Keys == Symbols \X Minutes
Ids == Partitions \X Nat
Msg == [symbol : Symbols, event_ms : Times, valid : BOOLEAN]
Bar == [trades : Nat, members : SUBSET Ids,
        first_trade_id : Ids \cup {NoId}, last_trade_id : Ids \cup {NoId}]
NoBar == [trades |-> 0, members |-> {}, first_trade_id |-> NoId, last_trade_id |-> NoId]

VARIABLES
    \* Outside the process: these survive it.
    log,              \* per partition, the messages published to Kafka
    committed,        \* per partition, the group's committed offset
    bars,             \* per key, the bar on object storage (NoBar: none)
    lateFiles,        \* per key, the trades in the late_arrivals object
    persisted,        \* history: every trade that was ever put in an object
    heartbeat,        \* windows_written as last written to the heartbeat file
    \* The process.
    pc,               \* where the run loop is
    final,            \* TRUE inside the finally block
    fetch,            \* per partition, the next offset the client delivers
    position,         \* per partition, next offset to read (NoOffset: none read)
    windows,          \* per key, the bar under construction (NoBar: no window)
    offsets,          \* per key and partition, the lowest offset that fed it
    watermark,        \* newest exchange timestamp seen
    late,             \* late trades not yet written
    written,          \* keys this process has written
    windows_written,  \* stats.windows_written
    flushed,          \* flush(): windows written so far by this flush
    lateDone,         \* flush(): late files written so far by this flush
    \* Bounds.
    faults, rejoins

kafka == <<log, committed>>
store == <<bars, lateFiles, persisted>>
memory == <<position, windows, offsets, watermark, late, written, windows_written>>
control == <<pc, final, flushed, lateDone>>
budget == <<faults, rejoins>>
vars == <<kafka, store, heartbeat, memory, control, fetch, budget>>

-----------------------------------------------------------------------------
Message(p, o) == log[p][o + 1]
KeyOf(msg) == <<msg.symbol, minute_of(msg.event_ms)>>
IsOpen(k) == windows[k].trades # 0

\* minute + 1 minute <= horizon(), with the horizon taken from watermark w.
PastWithoutGrace(m, w) == w # NoTime /\ WindowEnd(m) <= w    \* mutant
Past(m, w) == w # NoTime /\ WindowEnd(m) <= w - Grace

GoneWithoutGrace(k, w) == k \in written \/ PastWithoutGrace(k[2], w)    \* mutant
Gone(k, w) == k \in written \/ Past(k[2], w)

Advanced(t) == IF watermark = NoTime \/ t > watermark THEN t ELSE watermark

DueByClock(k) == IsOpen(k)                                  \* mutant
DueOrStopping(k) == IsOpen(k) /\ (final \/ Past(k[2], watermark))   \* mutant
Due(k) == IsOpen(k) /\ Past(k[2], watermark)

add(bar, id) ==
    [trades         |-> bar.trades + 1,
     members        |-> bar.members \cup {id},
     first_trade_id |-> IF bar.trades = 0 THEN id ELSE bar.first_trade_id,
     last_trade_id  |-> id]

\* The offset kept for a window and a partition once offset o has fed it.
LatestFed(seen, o) == o                                     \* mutant
LowestFed(seen, o) == IF seen = NoOffset \/ o < seen THEN o ELSE seen

HeldNothing(p) == {}                                        \* mutant
HeldUnfiltered(p) == {offsets[k][p] : k \in Keys}           \* mutant
HeldFromStart(p) == {IF offsets[k][p] = NoOffset THEN 0 ELSE offsets[k][p]
                        : k \in {j \in Keys : IsOpen(j)}}         \* mutant
Held(p) == {offsets[k][p] : k \in Keys} \ {NoOffset}

ReadPosition(p) == position[p]                              \* mutant
safe_offsets(p) == Min({position[p]} \cup Held(p))

NoWindows == [k \in Keys |-> NoBar]
NoOffsets == [p \in Partitions |-> NoOffset]

Init ==
    /\ log = [p \in Partitions |-> << >>]
    /\ committed = [p \in Partitions |-> 0]
    /\ bars = NoWindows
    /\ lateFiles = [k \in Keys |-> {}]
    /\ persisted = {}
    /\ heartbeat = 0
    /\ pc = "poll"
    /\ final = FALSE
    /\ fetch = [p \in Partitions |-> 0]
    /\ position = NoOffsets
    /\ windows = NoWindows
    /\ offsets = [k \in Keys |-> NoOffsets]
    /\ watermark = NoTime
    /\ late = {}
    /\ written = {}
    /\ windows_written = 0
    /\ flushed = 0
    /\ lateDone = {}
    /\ faults = 0
    /\ rejoins = 0

-----------------------------------------------------------------------------
(* The topic.  One symbol's trades are published in trade order to one     *)
(* partition; across symbols a trade may trail the newest by Skew.         *)

AppendTo(p, msg) ==
    /\ Len(log[p]) < MaxLog
    /\ log' = [log EXCEPT ![p] = Append(@, msg)]
    /\ UNCHANGED <<committed, store, heartbeat, memory, control, fetch, budget>>

Publish(s, t) ==
    /\ \A p \in Partitions : \A i \in DOMAIN log[p] :
          /\ log[p][i].event_ms <= t + Skew
          /\ log[p][i].symbol = s => log[p][i].event_ms <= t
    /\ AppendTo(PartitionOf[s], [symbol |-> s, event_ms |-> t, valid |-> TRUE])

PublishMalformed(s) ==
    AppendTo(PartitionOf[s], [symbol |-> s, event_ms |-> 0, valid |-> FALSE])

-----------------------------------------------------------------------------
(* consumer.poll() hands over one message, ingest() takes it.              *)

Receive(p) ==
    /\ pc = "poll"
    /\ fetch[p] < Len(log[p])
    /\ fetch' = [fetch EXCEPT ![p] = @ + 1]
    /\ position' = [position EXCEPT ![p] = fetch[p] + 1]
    /\ UNCHANGED <<kafka, store, heartbeat, written, windows_written, control, budget>>

IngestMalformed(p) ==
    /\ Receive(p)
    /\ ~Message(p, fetch[p]).valid
    /\ UNCHANGED <<windows, offsets, watermark, late>>

IngestLate(p) ==
    /\ Receive(p)
    /\ LET msg == Message(p, fetch[p])
           k == KeyOf(msg)
       IN /\ msg.valid
          /\ watermark' = Advanced(msg.event_ms)
          /\ ~IsOpen(k) /\ Gone(k, watermark')
    /\ late' = late \cup {<<p, fetch[p]>>}
    /\ UNCHANGED <<windows, offsets>>

IngestTrade(p) ==
    /\ Receive(p)
    /\ LET o == fetch[p]
           msg == Message(p, o)
           k == KeyOf(msg)
       IN /\ msg.valid
          /\ watermark' = Advanced(msg.event_ms)
          /\ IsOpen(k) \/ ~Gone(k, watermark')
          /\ windows' = [windows EXCEPT ![k] = add(@, <<p, o>>)]
          /\ offsets' = [offsets EXCEPT ![k][p] = LowestFed(@, o)]
    /\ UNCHANGED late

-----------------------------------------------------------------------------
(* flush().  The timer of FLUSH_INTERVAL_S may fire after any poll.        *)

BeginFlush == pc' = "windows" /\ flushed' = 0 /\ lateDone' = {}

\* The heartbeat is touched before the flush; an OSError leaves it as it was.
StartFlush ==
    /\ pc = "poll"
    /\ BeginFlush
    /\ heartbeat' \in {heartbeat, windows_written}
    /\ UNCHANGED <<kafka, store, memory, final, fetch, budget>>

WriteWindow(k) ==
    /\ pc = "windows"
    /\ Due(k)
    /\ bars' = [bars EXCEPT ![k] = windows[k]]
    /\ persisted' = persisted \cup windows[k].members
    /\ windows' = [windows EXCEPT ![k] = NoBar]
    /\ offsets' = [offsets EXCEPT ![k] = NoOffsets]
    /\ written' = written \cup {k}
    /\ flushed' = flushed + 1
    /\ UNCHANGED <<kafka, lateFiles, heartbeat, position, watermark, late,
                   windows_written, pc, final, lateDone, fetch, budget>>

\* The cutoff is taken from the clock, which event time may trail by anything.
EndWindows ==
    /\ pc = "windows"
    /\ \A k \in Keys : ~Due(k)
    /\ IF Cardinality(written) > WrittenLimit
         THEN \E cutoff \in Times : written' = {k \in written : k[2] >= cutoff}
         ELSE written' = written
    /\ pc' = "late"
    /\ UNCHANGED <<kafka, store, heartbeat, position, windows, offsets, watermark, late,
                   windows_written, final, flushed, lateDone, fetch, budget>>

LateRows(k) == {id \in late : KeyOf(Message(id[1], id[2])) = k}
LateDropped(k) == FALSE                                     \* mutant
LateDue(k) == LateRows(k) # {} /\ k \notin lateDone

WriteLate(k) ==
    /\ pc = "late"
    /\ LateDue(k)
    /\ lateFiles' = [lateFiles EXCEPT ![k] = LateRows(k)]
    /\ persisted' = persisted \cup LateRows(k)
    /\ lateDone' = lateDone \cup {k}
    /\ UNCHANGED <<kafka, bars, heartbeat, memory, pc, final, flushed, fetch, budget>>

\* late.clear(), the count, and the caller's `if agg.flush()`; flush()'s locals go.
EndFlush ==
    /\ pc = "late"
    /\ \A k \in Keys : ~LateDue(k)
    /\ late' = {}
    /\ windows_written' = windows_written + flushed
    /\ pc' = IF final \/ flushed > 0 THEN "commit" ELSE "poll"
    /\ flushed' = 0
    /\ lateDone' = {}
    /\ UNCHANGED <<kafka, store, heartbeat, position, windows, offsets, watermark, written,
                   final, fetch, budget>>

-----------------------------------------------------------------------------
(* commit_safely(), stopping, dying and starting again.                    *)

\* The process is gone; the next one resumes at the committed offsets.
Die ==
    /\ pc' = "down"
    /\ final' = FALSE
    /\ fetch' = committed'
    /\ position' = NoOffsets
    /\ windows' = NoWindows
    /\ offsets' = [k \in Keys |-> NoOffsets]
    /\ watermark' = NoTime
    /\ late' = {}
    /\ written' = {}
    /\ windows_written' = 0
    /\ flushed' = 0
    /\ lateDone' = {}

\* A partition nothing was read from is not in `position` and is left alone.
CommitSafely ==
    /\ pc = "commit"
    /\ committed' = [p \in Partitions |->
                        IF position[p] = NoOffset THEN committed[p] ELSE safe_offsets(p)]
    /\ IF final
         THEN Die
         ELSE pc' = "poll" /\ UNCHANGED <<memory, final, flushed, lateDone, fetch>>
    /\ UNCHANGED <<log, store, heartbeat, budget>>

Fault == faults < MaxFaults /\ faults' = faults + 1

\* An exception inside the loop enters the finally block, which flushes again.
EnterFinally ==
    /\ final' = TRUE
    /\ BeginFlush
    /\ UNCHANGED <<committed, memory, fetch>>

\* SIGTERM, SIGINT, the deadline, or an exception out of poll() or ingest().
Stop ==
    /\ Fault
    /\ pc = "poll"
    /\ EnterFinally
    /\ UNCHANGED <<log, store, heartbeat, rejoins>>

\* A put raises.  In the finally block nothing catches it: no commit is made.
PutFails ==
    /\ Fault
    /\ \E k \in Keys : (pc = "windows" /\ Due(k)) \/ (pc = "late" /\ LateDue(k))
    /\ IF final THEN UNCHANGED committed /\ Die ELSE EnterFinally
    /\ UNCHANGED <<log, store, heartbeat, rejoins>>

\* A commit raises.  The finally block catches its own and closes.
CommitFails ==
    /\ Fault
    /\ pc = "commit"
    /\ IF final THEN UNCHANGED committed /\ Die ELSE EnterFinally
    /\ UNCHANGED <<log, store, heartbeat, rejoins>>

Crash ==
    /\ Fault
    /\ pc # "down"
    /\ UNCHANGED <<kafka, store, heartbeat, rejoins>>
    /\ Die

Restart ==
    /\ pc = "down"
    /\ pc' = "poll"
    /\ UNCHANGED <<kafka, store, heartbeat, memory, final, flushed, lateDone, fetch, budget>>

\* The group dropped this consumer (session or poll interval exceeded) and
\* poll() rejoins it: delivery resumes at the committed offsets, and with no
\* rebalance callback everything in memory stays.
Rejoin ==
    /\ rejoins < MaxRejoins
    /\ rejoins' = rejoins + 1
    /\ pc = "poll"
    /\ fetch' = committed
    /\ UNCHANGED <<kafka, store, heartbeat, memory, control, faults>>

-----------------------------------------------------------------------------
Ingest(p) == IngestMalformed(p) \/ IngestLate(p) \/ IngestTrade(p)
FlushStep == (\E k \in Keys : WriteWindow(k) \/ WriteLate(k)) \/ EndWindows \/ EndFlush

Next ==
    \/ \E s \in Symbols, t \in Times : Publish(s, t)
    \/ \E s \in Symbols : PublishMalformed(s)
    \/ \E p \in Partitions : Ingest(p)
    \/ StartFlush
    \/ FlushStep
    \/ CommitSafely
    \/ Stop \/ PutFails \/ CommitFails \/ Crash \/ Restart \/ Rejoin

Spec == Init /\ [][Next]_vars

\* The loop polls, its timer fires, a flush that was begun goes on, and
\* systemd restarts the process.  Every partition is served: the client reads
\* all of them, so a partition deliverable again and again is delivered.
Fairness ==
    /\ \A p \in Partitions : SF_vars(Ingest(p))
    /\ WF_vars(StartFlush)
    /\ WF_vars(FlushStep)
    /\ WF_vars(CommitSafely)
    /\ WF_vars(Restart)

-----------------------------------------------------------------------------
(* Properties.                                                             *)

\* Type invariant: every variable holds what the code stores in it.
TypeOK ==
    /\ log \in [Partitions -> Seq(Msg)]
    /\ committed \in [Partitions -> Nat]
    /\ bars \in [Keys -> Bar]
    /\ lateFiles \in [Keys -> SUBSET Ids]
    /\ persisted \subseteq Ids
    /\ heartbeat \in Nat
    /\ pc \in {"poll", "windows", "late", "commit", "down"}
    /\ final \in BOOLEAN
    /\ fetch \in [Partitions -> Nat]
    /\ position \in [Partitions -> Nat \cup {NoOffset}]
    /\ windows \in [Keys -> Bar]
    /\ offsets \in [Keys -> [Partitions -> Nat \cup {NoOffset}]]
    /\ watermark \in Times \cup {NoTime}
    /\ late \subseteq Ids
    /\ written \subseteq Keys
    /\ windows_written \in Nat
    /\ flushed \in Nat
    /\ lateDone \subseteq Keys
    /\ faults \in Nat
    /\ rejoins \in Nat

\* No trade is lost: every well-formed trade below a committed offset has been
\* put in a bar or in a late file, whatever crashed, failed or was replayed.
CommittedIsPersisted ==
    \A p \in Partitions :
        /\ committed[p] <= Len(log[p])
        /\ \A o \in 0..(committed[p] - 1) :
              Message(p, o).valid => <<p, o>> \in persisted

\* "An offset is never committed past a window still open": no trade held in an
\* open window lies below its partition's committed offset.
CommitBelowOpenWindows ==
    \A k \in Keys : \A id \in windows[k].members : committed[id[1]] <= id[2]

\* A minute this process has written is never open again, and event time alone
\* already says so: forgetting it (the pruning of `written`) changes nothing.
WrittenStaysGone ==
    \A k \in written : ~IsOpen(k) /\ Past(k[2], watermark)

-----------------------------------------------------------------------------
(* The inductive invariant behind CommittedIsPersisted and                 *)
(* CommitBelowOpenWindows.                                                 *)

InLog(id) == id[1] \in Partitions /\ id[2] \in 0..(Len(log[id[1]]) - 1)

\* A window without trades has no members, a member was published, and the
\* offset kept for a window is the lowest of its members in that partition.
WindowsInv ==
    /\ \A k \in Keys : ~IsOpen(k) => windows[k].members = {}
    /\ \A k \in Keys : \A id \in windows[k].members :
          /\ InLog(id)
          /\ offsets[k][id[1]] # NoOffset
          /\ offsets[k][id[1]] <= id[2]
    /\ \A k \in Keys, p \in Partitions :
          offsets[k][p] # NoOffset => <<p, offsets[k][p]>> \in windows[k].members

\* Late trades were published, the late files this flush has done are stored,
\* and nothing late is left when the commit is reached.
LateInv ==
    /\ \A id \in late : InLog(id)
    /\ pc \in {"windows", "late"} => \A k \in lateDone : LateRows(k) \subseteq persisted
    /\ pc = "commit" => late = {}

PersistedInLog == \A id \in persisted : InLog(id)

\* What reading <<p, o>> has left behind: it is stored, or in a window, or late.
Accounted(p, o) ==
    Message(p, o).valid =>
        \/ <<p, o>> \in persisted
        \/ <<p, o>> \in late
        \/ \E k \in Keys : <<p, o>> \in windows[k].members

\* Reading <<p, o>> again cannot open a window: its minute is past and closed, or
\* the window holding it is open already.
Known(p, o) ==
    LET k == KeyOf(Message(p, o)) IN
    Message(p, o).valid =>
        (~IsOpen(k) /\ Past(k[2], watermark)) \/ <<p, o>> \in windows[k].members

\* This process has read the offsets lo..hi-1 of p; a rejoin or a commit moves
\* fetch, position and committed only within lo..hi.
Span(p, lo, hi) ==
    /\ fetch[p] \in lo..hi
    /\ committed[p] \in lo..hi
    /\ position[p] # NoOffset => position[p] \in lo..hi
    /\ \A o \in 0..(hi - 1) : Accounted(p, o)
    /\ \A o \in lo..(hi - 1) : Known(p, o)

SpanInv == \A p \in Partitions : \E lo, hi \in 0..Len(log[p]) : Span(p, lo, hi)

\* Implies that a commit never passes a trade that is not stored: everything read
\* is accounted for, and what is not yet stored holds its offset back.
IInv ==
    /\ WindowsInv
    /\ LateInv
    /\ PersistedInLog
    /\ SpanInv
    /\ CommittedIsPersisted
    /\ CommitBelowOpenWindows
    /\ WrittenStaysGone

-----------------------------------------------------------------------------
\* The speed layer implements at-least-once delivery into object storage.
ALO == INSTANCE AtLeastOnce WITH durable <- persisted
DeliversAtLeastOnce == ALO!Spec

(* What a run of the process may or may not meet; the properties of the    *)
(* bars hold under these.                                                  *)

\* The group never drops the consumer while the process is alive.
NoRejoins == rejoins = 0

\* The watermark stays behind what is unread: no trade still to be delivered, in any
\* partition, is of a minute that event time has passed.  One partition whose symbols
\* trail each other within the grace period always keeps up.
KeepsUp ==
    \A p \in Partitions : \A o \in fetch[p]..(Len(log[p]) - 1) :
        Message(p, o).valid => ~Past(minute_of(Message(p, o).event_ms), watermark)

\* No partition goes back to an earlier minute.
MinutesInOrder ==
    \A p \in Partitions : \A a, b \in 0..(Len(log[p]) - 1) :
        a < b /\ Message(p, a).valid /\ Message(p, b).valid =>
            minute_of(Message(p, a).event_ms) <= minute_of(Message(p, b).event_ms)

\* Faults meet a log of minutes in order only: any other replay may rebuild a bar
\* from its tail.
FaultsInOrder == faults = 0 \/ MinutesInOrder

-----------------------------------------------------------------------------
\* Trades of the log that belong to key k.
TradesOf(k) ==
    {id \in UNION {{p} \X (0..(Len(log[p]) - 1)) : p \in Partitions} :
        Message(id[1], id[2]).valid /\ KeyOf(Message(id[1], id[2])) = k}

\* A stored bar is the candle of its whole minute: every trade of the minute,
\* each counted once, opened by the first and closed by the last.
BarsWhole ==
    \A k \in Keys : bars[k].trades # 0 =>
        /\ bars[k].members = TradesOf(k)
        /\ bars[k].trades = Cardinality(bars[k].members)
        /\ \A id \in bars[k].members :
              bars[k].first_trade_id[2] <= id[2] /\ id[2] <= bars[k].last_trade_id[2]

\* A bar that is on object storage is not overwritten with a different one.
BarsAreFinal ==
    [][\A k \in Keys : bars[k].trades # 0 => bars'[k] = bars[k]]_vars

\* The bars are the candles of their minutes: a minute takes trades until its bar is
\* stored, the bar is stored of all of them, and a replay never stores it differently.
Minute == INSTANCE Candles WITH
    trades <- [k \in Keys |-> TradesOf(k)],
    candle <- [k \in Keys |-> bars[k].members]
StoresCandles == Minute!Spec

\* A bar on object storage is never overwritten with one missing some of its trades.
BarsNeverShrink ==
    [][\A k \in Keys : bars[k].members \subseteq bars'[k].members]_vars

\* A trade recorded in a late file stays recorded.
LateStaysRecorded ==
    [][\A k \in Keys : lateFiles[k] \subseteq lateFiles'[k]]_vars

\* Every well-formed trade below a committed offset is in the bar of its minute: what
\* the commit has passed needs no replay to complete a candle.
CommittedInBars ==
    \A p \in Partitions : \A o \in 0..(committed[p] - 1) :
        Message(p, o).valid => <<p, o>> \in bars[KeyOf(Message(p, o))].members

\* A trade is filed as late only when its window has been written.
LateMeansWritten ==
    \A id \in late : bars[KeyOf(Message(id[1], id[2]))].trades # 0

\* A trade is late only against a trade this process has read: one that closes its
\* minute, grace included, and was read ahead of it, earlier in its own partition or
\* from another.  What the process before has written makes no trade late, and one that
\* trails its own partition by no more than the grace period is late only because another
\* partition was read ahead.
ClosedBy(id, q, o) ==
    /\ Message(id[1], id[2]).valid /\ Message(q, o).valid
    /\ q = id[1] => o < id[2]
    /\ Past(minute_of(Message(id[1], id[2]).event_ms), Message(q, o).event_ms)
LateHasCause ==
    NoRejoins => \A id \in late :
        \E q \in Partitions : \E o \in 0..(fetch[q] - 1) : ClosedBy(id, q, o)

\* Committed offsets only move forward, so no restart replays more than the last.
CommitsAdvance ==
    [][\A p \in Partitions : committed[p] <= committed'[p]]_vars

\* Every trade of a minute that the topic's event time has finished reaches
\* object storage, in its bar or in a late file.
Finished(p, o) ==
    /\ o < Len(log[p])
    /\ Message(p, o).valid
    /\ \E q \in Partitions : \E i \in DOMAIN log[q] :
          Past(minute_of(Message(p, o).event_ms), log[q][i].event_ms)
FinishedMinutesReachStore ==
    \A p \in Partitions : \A o \in 0..(MaxLog - 1) :
        Finished(p, o) ~> <<p, o>> \in persisted
=============================================================================
