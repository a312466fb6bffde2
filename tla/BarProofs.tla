----------------------------- MODULE BarProofs ------------------------------
(***************************************************************************)
(* Proofs about the bars of Aggregator: what a stored bar counts and       *)
(* holds, and which way commits move.                                      *)
(***************************************************************************)
EXTENDS AggregatorProofs, FiniteSetTheorems

-----------------------------------------------------------------------------
(* While the group does not drop the consumer, a process reads each        *)
(* message once.                                                           *)

\* A bar counts its trades once.
Counted(bar) == IsFiniteSet(bar.members) /\ bar.trades = Cardinality(bar.members)

\* The process goes on where it has read to, and not before the commit; what its
\* windows hold lies before that, and windows and bars count each trade once.
ReadOnce ==
    /\ \A p \in Partitions :
          /\ position[p] \in {NoOffset, fetch[p]}
          /\ committed[p] <= fetch[p]
    /\ \A k \in Keys :
          /\ \A id \in windows[k].members : id[2] < fetch[id[1]]
          /\ Counted(windows[k])
          /\ Counted(bars[k])

LEMMA NoBarCounted == Counted(NoBar)
BY FS_EmptySet DEF Counted, NoBar

LEMMA AddCounted ==
    ASSUME NEW bar \in Bar, Counted(bar), NEW id \in Ids, id \notin bar.members
    PROVE  Counted(add(bar, id))
<1>1. /\ IsFiniteSet(bar.members \cup {id})
      /\ Cardinality(bar.members \cup {id}) = Cardinality(bar.members) + 1
  BY FS_AddElement, Zenon DEF Counted
<1>2. add(bar, id).members = bar.members \cup {id} /\ add(bar, id).trades = bar.trades + 1
  BY DEF add
<1>3. QED
  BY <1>1, <1>2, Zenon DEF Counted

LEMMA ReadOnceInit == Init => ReadOnce
<1> SUFFICES ASSUME Init PROVE ReadOnce
  OBVIOUS
<1>1. \A k \in Keys : windows[k] = NoBar /\ bars[k] = NoBar
  BY Zenon DEF Init, NoWindows
<1>2. NoBar.members = {}
  BY DEF NoBar
<1>3. \A p \in Partitions : position[p] = NoOffset /\ committed[p] = 0 /\ fetch[p] = 0
  BY Zenon DEF Init, NoOffsets
<1>4. QED
  BY <1>1, <1>2, <1>3, NoBarCounted DEF ReadOnce

\* Reading moves one partition on by one message.
LEMMA ReceiveMoves ==
    ASSUME TypeOK, ReadOnce, NEW p \in Partitions, Receive(p)
    PROVE  /\ \A q \in Partitions : position'[q] \in {NoOffset, fetch'[q]}
           /\ \A q \in Partitions : committed'[q] <= fetch'[q]
           /\ \A q \in Partitions : fetch[q] \in Nat /\ fetch'[q] \in Nat /\ fetch[q] <= fetch'[q]
           /\ fetch'[p] = fetch[p] + 1
<1>1. /\ fetch' = [fetch EXCEPT ![p] = @ + 1] /\ position' = [position EXCEPT ![p] = fetch[p] + 1]
      /\ committed' = committed
  BY Zenon DEF Receive, kafka
<1>2. /\ fetch \in [Partitions -> Nat] /\ position \in [Partitions -> Nat \cup {NoOffset}]
      /\ committed \in [Partitions -> Nat]
  BY Zenon DEF TypeOK
<1>3. QED
  BY <1>1, <1>2 DEF ReadOnce

LEMMA NewTrade ==
    ASSUME TypeOK, ReadOnce, NEW p \in Partitions, NEW k \in Keys
    PROVE  <<p, fetch[p]>> \in Ids /\ <<p, fetch[p]>> \notin windows[k].members
<1>1. fetch[p] \in Nat /\ ~(fetch[p] < fetch[p])
  BY DEF TypeOK
<1>2. <<p, fetch[p]>> \in Ids
  BY <1>1 DEF Ids
<1>3. <<p, fetch[p]>> \in windows[k].members => fetch[p] < fetch[p]
  <2> SUFFICES ASSUME <<p, fetch[p]>> \in windows[k].members PROVE fetch[p] < fetch[p]
    OBVIOUS
  <2>1. <<p, fetch[p]>>[2] < fetch[<<p, fetch[p]>>[1]]
    BY Zenon DEF ReadOnce
  <2>2. QED
    BY <2>1
<1>4. QED
  BY <1>1, <1>2, <1>3

LEMMA ReadOnceIngest ==
    ASSUME TypeOK, ReadOnce, NEW p \in Partitions, Ingest(p)
    PROVE  ReadOnce'
<1>1. Receive(p) /\ bars' = bars
  BY Zenon DEF Ingest, IngestMalformed, IngestLate, IngestTrade, Receive, store
<1>2. /\ \A q \in Partitions : position'[q] \in {NoOffset, fetch'[q]}
      /\ \A q \in Partitions : committed'[q] <= fetch'[q]
      /\ \A q \in Partitions : fetch[q] \in Nat /\ fetch'[q] \in Nat /\ fetch[q] <= fetch'[q]
      /\ fetch'[p] = fetch[p] + 1
  BY <1>1, ReceiveMoves, Zenon
<1>3. ASSUME NEW k \in Keys, NEW id \in windows[k].members
      PROVE  id[2] < fetch'[id[1]]
  <2>1. id[1] \in Partitions /\ id[2] \in Nat /\ id[2] < fetch[id[1]]
    BY MembersArePairs DEF ReadOnce, Ids
  <2>2. QED
    BY <1>2, <2>1, SMT
<1>4. CASE UNCHANGED windows
  BY <1>1, <1>2, <1>3, <1>4, Zenon DEF ReadOnce
<1>5. CASE IngestTrade(p)
  <2> DEFINE o == fetch[p]
             k0 == KeyOf(Message(p, o))
  <2>1. windows' = [windows EXCEPT ![k0] = add(@, <<p, o>>)]
    BY <1>5, Zenon DEF IngestTrade
  <2>2. k0 \in Keys
    BY <1>1, ReceiveFacts, Zenon
  <2> HIDE DEF k0
  <2>3. windows \in [Keys -> Bar]
    BY Zenon DEF TypeOK
  <2>4. windows'[k0] = add(windows[k0], <<p, o>>)
    BY <2>1, <2>2, <2>3, Zenon
  <2>5. \A k \in Keys \ {k0} : windows'[k] = windows[k]
    BY <2>1, <2>2, <2>3, Zenon
  <2>6. Counted(windows'[k0])
    <3>1. windows[k0] \in Bar /\ Counted(windows[k0])
      BY <2>2, <2>3, Zenon DEF ReadOnce
    <3>2. <<p, o>> \in Ids /\ <<p, o>> \notin windows[k0].members
      BY <2>2, NewTrade
    <3>3. QED
      BY <2>4, <3>1, <3>2, AddCounted, Zenon
  <2>7. windows'[k0].members = windows[k0].members \cup {<<p, o>>}
    BY <2>4 DEF add
  <2>8. \A id \in windows'[k0].members : id[2] < fetch'[id[1]]
    <3>1. <<p, o>>[2] < fetch'[<<p, o>>[1]]
      BY <1>2
    <3>2. QED
      BY <1>3, <2>2, <2>7, <3>1, Zenon
  <2>9. \A k \in Keys : /\ \A id \in windows'[k].members : id[2] < fetch'[id[1]]
                        /\ Counted(windows'[k])
    BY <1>3, <2>5, <2>6, <2>8, Zenon DEF ReadOnce
  <2>10. QED
    BY <1>1, <1>2, <2>9, Zenon DEF ReadOnce
<1>6. QED
  BY <1>4, <1>5, Zenon DEF Ingest, IngestMalformed, IngestLate

LEMMA ReadOnceWrite ==
    ASSUME TypeOK, ReadOnce, NEW k \in Keys, WriteWindow(k)
    PROVE  ReadOnce'
<1>1. /\ bars' = [bars EXCEPT ![k] = windows[k]] /\ windows' = [windows EXCEPT ![k] = NoBar]
      /\ UNCHANGED <<committed, fetch, position>>
  BY Zenon DEF WriteWindow, kafka
<1>2. windows \in [Keys -> Bar] /\ bars \in [Keys -> Bar]
  BY Zenon DEF TypeOK
<1>3. \A q \in Keys : windows'[q] \in {windows[q], NoBar} /\ bars'[q] \in {bars[q], windows[q]}
  BY <1>1, <1>2, Zenon
<1>4. NoBar.members = {}
  BY DEF NoBar
<1>5. \A q \in Keys : Counted(windows'[q]) /\ Counted(bars'[q])
  BY <1>3, NoBarCounted, Zenon DEF ReadOnce
<1>6. \A q \in Keys : \A id \in windows'[q].members : id[2] < fetch[id[1]]
  BY <1>3, <1>4, Zenon DEF ReadOnce
<1>7. QED
  BY <1>1, <1>5, <1>6, Zenon DEF ReadOnce

LEMMA ReadOnceDie ==
    ASSUME TypeOK, ReadOnce, Die, committed' \in [Partitions -> Nat], bars' = bars
    PROVE  ReadOnce'
<1>1. fetch' = committed' /\ position' = NoOffsets /\ windows' = NoWindows
  BY Zenon DEF Die
<1>2. \A p \in Partitions : position'[p] = NoOffset
  BY <1>1, Zenon DEF NoOffsets
<1>3. \A k \in Keys : windows'[k] = NoBar
  BY <1>1, Zenon DEF NoWindows
<1>4. NoBar.members = {}
  BY DEF NoBar
<1>5. \A p \in Partitions : committed'[p] <= fetch'[p]
  BY <1>1
<1>6. QED
  BY <1>2, <1>3, <1>4, <1>5, NoBarCounted, Zenon DEF ReadOnce

\* A commit is of the read position, or of an offset that a window holds back.
LEMMA CommitMoves ==
    ASSUME TypeOK, IInv, ReadOnce, CommitSafely, NEW p \in Partitions
    PROVE  committed[p] <= committed'[p] /\ committed'[p] <= fetch[p]
<1>1. /\ committed[p] \in Nat /\ fetch[p] \in Nat /\ position[p] \in {NoOffset, fetch[p]}
      /\ committed[p] <= fetch[p]
  BY Zenon DEF TypeOK, ReadOnce
<1>2. committed'[p] = IF position[p] = NoOffset THEN committed[p] ELSE safe_offsets(p)
  BY Zenon DEF CommitSafely
<1>3. CASE position[p] = NoOffset
  BY <1>1, <1>2, <1>3, SMT
<1>4. CASE position[p] # NoOffset
  <2>1. position[p] = fetch[p] /\ committed'[p] = safe_offsets(p)
    BY <1>1, <1>2, <1>4, Zenon
  <2>2. safe_offsets(p) \in Nat /\ safe_offsets(p) <= position[p]
    BY <1>4, SafeOffset, Zenon
  <2>3. ASSUME NEW k \in Keys, offsets[k][p] # NoOffset
        PROVE  committed[p] <= offsets[k][p]
    <3>1. <<p, offsets[k][p]>> \in windows[k].members
      BY <2>3, Zenon DEF IInv, WindowsInv
    <3>2. committed[<<p, offsets[k][p]>>[1]] <= <<p, offsets[k][p]>>[2]
      BY <3>1, Zenon DEF IInv, CommitBelowOpenWindows
    <3>3. QED
      BY <3>2
  <2>4. committed[p] <= safe_offsets(p)
    <3>1. \/ safe_offsets(p) = position[p]
          \/ \E k \in Keys : offsets[k][p] # NoOffset /\ safe_offsets(p) = offsets[k][p]
      BY <1>4, SafeOffset, Zenon
    <3>2. QED
      BY <1>1, <2>1, <2>3, <3>1, Zenon
  <2>5. QED
    BY <2>1, <2>2, <2>4, Zenon
<1>5. QED
  BY <1>3, <1>4

LEMMA ReadOnceCommit ==
    ASSUME TypeOK, IInv, ReadOnce, CommitSafely
    PROVE  ReadOnce'
<1>1. bars' = bars
  BY Zenon DEF CommitSafely, store
<1>2. CASE final
  <2>1. committed' \in [Partitions -> Nat]
    <3>1. \A p \in Partitions : position[p] # NoOffset => safe_offsets(p) \in Nat
      BY SafeOffset, Zenon
    <3>2. QED
      BY <3>1 DEF CommitSafely, TypeOK
  <2>2. QED
    BY <1>1, <1>2, <2>1, ReadOnceDie, Zenon DEF CommitSafely
<1>3. CASE ~final
  <2>1. UNCHANGED <<position, windows, fetch>>
    BY <1>3, Zenon DEF CommitSafely, memory
  <2>2. QED
    BY <1>1, <2>1, CommitMoves, Zenon DEF ReadOnce
<1>4. QED
  BY <1>2, <1>3

LEMMA ReadOnceStays ==
    ASSUME ReadOnce, UNCHANGED <<committed, fetch, position, windows, bars>>
    PROVE  ReadOnce'
BY Zenon DEF ReadOnce

\* A rejoin is the one step that moves `rejoins`.
LEMMA RejoinCounts ==
    ASSUME TypeOK, Rejoin, NoRejoins'
    PROVE  FALSE
<1>1. rejoins \in Nat /\ rejoins' = rejoins + 1 /\ rejoins' = 0
  BY Zenon DEF Rejoin, TypeOK, NoRejoins
<1>2. QED
  BY <1>1

LEMMA ReadOnceStep == TypeOK /\ IInv /\ ReadOnce /\ NoRejoins' /\ [Next]_vars => ReadOnce'
<1> SUFFICES ASSUME TypeOK, IInv, ReadOnce, NoRejoins', [Next]_vars PROVE ReadOnce'
  OBVIOUS
<1>1. ASSUME NEW p \in Partitions, NEW msg, AppendTo(p, msg) PROVE ReadOnce'
  <2>1. UNCHANGED <<committed, fetch, position, windows, bars>>
    BY <1>1, Zenon DEF AppendTo, store, memory
  <2>2. QED
    BY <2>1, ReadOnceStays
<1>2. CASE \E s \in Symbols, t \in Times : Publish(s, t)
  BY <1>1, <1>2, SymbolsAssumption, Zenon DEF Publish
<1>3. CASE \E s \in Symbols : PublishMalformed(s)
  BY <1>1, <1>3, SymbolsAssumption, Zenon DEF PublishMalformed
<1>4. CASE \E p \in Partitions : Ingest(p)
  BY <1>4, ReadOnceIngest, Zenon
<1>5. CASE StartFlush \/ EndWindows \/ EndFlush \/ Restart \/ Stop
           \/ \E k \in Keys : WriteLate(k)
  <2>1. UNCHANGED <<committed, fetch, position, windows, bars>>
    BY <1>5, Zenon DEF StartFlush, EndWindows, EndFlush, Restart, Stop, EnterFinally, WriteLate,
                       kafka, store, memory
  <2>2. QED
    BY <2>1, ReadOnceStays
<1>6. CASE \E k \in Keys : WriteWindow(k)
  BY <1>6, ReadOnceWrite, Zenon
<1>7. CASE CommitSafely
  BY <1>7, ReadOnceCommit
<1>8. CASE PutFails \/ CommitFails \/ Crash
  <2>1. bars' = bars /\ committed' = committed
    BY <1>8, Zenon DEF PutFails, CommitFails, Crash, EnterFinally, kafka, store
  <2>2. Die \/ (EnterFinally /\ UNCHANGED <<committed, fetch, position, windows>>)
    BY <1>8, Zenon DEF PutFails, CommitFails, Crash, EnterFinally, memory
  <2>3. committed' \in [Partitions -> Nat]
    BY <2>1, Zenon DEF TypeOK
  <2>4. QED
    BY <2>1, <2>2, <2>3, ReadOnceDie, ReadOnceStays, Zenon
<1>9. CASE Rejoin
  BY <1>9, RejoinCounts
<1>10. CASE UNCHANGED vars
  <2>1. UNCHANGED <<committed, fetch, position, windows, bars>>
    BY <1>10, Zenon DEF vars, kafka, store, memory
  <2>2. QED
    BY <2>1, ReadOnceStays
<1>11. QED
  BY <1>2, <1>3, <1>4, <1>5, <1>6, <1>7, <1>8, <1>9, <1>10, Zenon DEF Next, FlushStep

LEMMA ReadOnceAlways == Spec /\ []NoRejoins => [](TypeOK /\ IInv /\ ReadOnce)
<1>1. Init => TypeOK /\ IInv /\ ReadOnce
  BY TypeInit, IInvInit, ReadOnceInit
<1>2. TypeOK /\ IInv /\ ReadOnce /\ NoRejoins' /\ [Next]_vars => (TypeOK /\ IInv /\ ReadOnce)'
  BY TypeStep, IInvStep, ReadOnceStep
<1>3. QED
  BY <1>1, <1>2, PTL DEF Spec

\* A stored bar counts each of its trades once, through crashes, failed puts and
\* failed commits, while the group does not drop the consumer.  Of BarsWhole this much
\* needs neither order of the trades nor a process that keeps up.
CountedOnce == \A k \in Keys : bars[k].trades = Cardinality(bars[k].members)
THEOREM NoTradeCountsTwice == Spec /\ []NoRejoins => []CountedOnce
<1>1. ReadOnce => CountedOnce
  BY Zenon DEF ReadOnce, Counted, CountedOnce
<1>2. Spec /\ []NoRejoins => [](TypeOK /\ IInv /\ ReadOnce)
  BY ReadOnceAlways
<1>3. QED
  BY <1>1, <1>2, PTL

LEMMA OnlyCommitsMove ==
    ASSUME TypeOK, [Next]_vars, ~CommitSafely
    PROVE  committed' = committed
BY Zenon DEF Next, Ingest, IngestMalformed, IngestLate, IngestTrade, Receive, Publish,
             PublishMalformed, AppendTo, StartFlush, FlushStep, WriteWindow, WriteLate,
             EndWindows, EndFlush, Stop, PutFails, CommitFails, Crash, Restart, Rejoin,
             EnterFinally, kafka, vars

\* Commits only move forward, so no restart replays more than the one before it,
\* while the group does not drop the consumer.
THEOREM CommitsMoveForward == Spec /\ []NoRejoins => CommitsAdvance
<1>1. TypeOK /\ IInv /\ ReadOnce /\ [Next]_vars =>
        [\A p \in Partitions : committed[p] <= committed'[p]]_vars
  <2> SUFFICES ASSUME TypeOK, IInv, ReadOnce, [Next]_vars, NEW p \in Partitions
               PROVE  committed[p] <= committed'[p]
    BY Zenon
  <2>1. CASE CommitSafely
    BY <2>1, CommitMoves, Zenon
  <2>2. CASE ~CommitSafely
    <3>1. committed' = committed /\ committed[p] \in Nat
      BY <2>2, OnlyCommitsMove, Zenon DEF TypeOK
    <3>2. QED
      BY <3>1
  <2>3. QED
    BY <2>1, <2>2
<1>2. Spec /\ []NoRejoins => [](TypeOK /\ IInv /\ ReadOnce)
  BY ReadOnceAlways
<1>3. QED
  BY <1>1, <1>2, PTL DEF Spec, CommitsAdvance

-----------------------------------------------------------------------------
(* Event time: a trade published trails no other by more than the grace    *)
(* period, and the watermark is the time of a trade that was read.         *)

InGrace == Skew <= Grace

\* A time lies before the end of its minute, and a later minute ends later.
LEMMA InItsMinute ==
    ASSUME NEW t \in Times
    PROVE  t < WindowEnd(minute_of(t))
<1>1. MinuteLen \in Nat /\ MinuteLen > 0 /\ t \in Nat
  BY TimeAssumption DEF Times
<1>2. t = MinuteLen * (t \div MinuteLen) + (t % MinuteLen) /\ t % MinuteLen < MinuteLen
      /\ t \div MinuteLen \in Int
  BY <1>1, Z3
<1>3. (t \div MinuteLen + 1) * MinuteLen = MinuteLen * (t \div MinuteLen) + MinuteLen
  BY <1>1, <1>2, Z3
<1>4. t % MinuteLen \in Int
  BY <1>1
<1>5. QED
  BY <1>1, <1>2, <1>3, <1>4 DEF WindowEnd, minute_of

LEMMA LaterWindowEnd ==
    ASSUME NEW m \in Minutes, NEW n \in Minutes, m <= n
    PROVE  WindowEnd(m) <= WindowEnd(n)
<1>1. MinuteLen \in Nat /\ m \in Int /\ n \in Int
  BY TimeAssumption DEF Minutes, minute_of, Times
<1>2. m + 1 <= n + 1
  BY <1>1
<1>3. (m + 1) * MinuteLen <= (n + 1) * MinuteLen
  BY <1>1, <1>2, Z3
<1>4. QED
  BY <1>3 DEF WindowEnd

\* The trades of a key are its messages of the log.
LEMMA TradesAre ==
    ASSUME NEW k
    PROVE  /\ \A id \in TradesOf(k) : \E p \in Partitions : \E o \in 0..(Len(log[p]) - 1) :
                id = <<p, o>> /\ Message(p, o).valid /\ KeyOf(Message(p, o)) = k
           /\ \A p \in Partitions : \A o \in 0..(Len(log[p]) - 1) :
                Message(p, o).valid /\ KeyOf(Message(p, o)) = k => <<p, o>> \in TradesOf(k)
<1>1. ASSUME NEW id \in TradesOf(k)
      PROVE  \E p \in Partitions : \E o \in 0..(Len(log[p]) - 1) :
                id = <<p, o>> /\ Message(p, o).valid /\ KeyOf(Message(p, o)) = k
  <2>1. PICK p \in Partitions : id \in {p} \X (0..(Len(log[p]) - 1))
    BY Zenon DEF TradesOf
  <2>2. id = <<p, id[2]>> /\ id[1] = p /\ id[2] \in 0..(Len(log[p]) - 1)
    BY <2>1
  <2>3. QED
    BY <2>2, Zenon DEF TradesOf
<1>2. ASSUME NEW p \in Partitions, NEW o \in 0..(Len(log[p]) - 1),
             Message(p, o).valid, KeyOf(Message(p, o)) = k
      PROVE  <<p, o>> \in TradesOf(k)
  <2>1. <<p, o>> \in {p} \X (0..(Len(log[p]) - 1)) /\ <<p, o>>[1] = p /\ <<p, o>>[2] = o
    OBVIOUS
  <2>2. QED
    BY <1>2, <2>1, Zenon DEF TradesOf
<1>3. QED
  BY <1>1, <1>2, Zenon

\* A symbol's trades are in its partition.
Keyed ==
    \A p \in Partitions : \A o \in 0..(Len(log[p]) - 1) : PartitionOf[Message(p, o).symbol] = p

\* A trade trails what its partition was published before it by no more than Skew.
LogOrder ==
    \A p \in Partitions : \A a, b \in 0..(Len(log[p]) - 1) :
        a < b /\ Message(p, b).valid => Message(p, a).event_ms <= Message(p, b).event_ms + Skew

\* The watermark is the time of a trade that was read.
WatermarkRead ==
    watermark # NoTime => \E p \in Partitions : \E o \in 0..(Len(log[p]) - 1) :
        o < fetch[p] /\ Message(p, o).valid /\ Message(p, o).event_ms = watermark

OrderInv == Keyed /\ LogOrder /\ WatermarkRead

\* The partition of a key, where all its trades are.
Home(k) == PartitionOf[k[1]]

LEMMA TradesAtHome ==
    ASSUME Keyed, NEW k, NEW id \in TradesOf(k)
    PROVE  /\ Home(k) \in Partitions
           /\ \E o \in 0..(Len(log[Home(k)]) - 1) :
                id = <<Home(k), o>> /\ Message(Home(k), o).valid /\ KeyOf(Message(Home(k), o)) = k
<1>1. PICK p \in Partitions : \E o \in 0..(Len(log[p]) - 1) :
           id = <<p, o>> /\ Message(p, o).valid /\ KeyOf(Message(p, o)) = k
  BY TradesAre, Zenon
<1>2. PICK o \in 0..(Len(log[p]) - 1) :
           id = <<p, o>> /\ Message(p, o).valid /\ KeyOf(Message(p, o)) = k
  BY <1>1
<1>3. k[1] = Message(p, o).symbol
  BY <1>2 DEF KeyOf
<1>4. Home(k) = p
  BY <1>3, Zenon DEF Keyed, Home
<1>5. QED
  BY <1>2, <1>4, Zenon

\* The minute of a trade is not past for one it trails by no more than the grace period.
LEMMA NotPastInGrace ==
    ASSUME NEW t \in Times, NEW w \in Times \cup {NoTime}, w <= t + Grace
    PROVE  ~Past(minute_of(t), w)
<1>1. minute_of(t) \in Minutes /\ WindowEnd(minute_of(t)) \in Int
  <2>1. minute_of(t) \in Minutes
    BY DEF Minutes
  <2>2. QED
    BY <2>1, WindowEndInt
<1>2. t < WindowEnd(minute_of(t)) /\ t \in Int /\ w \in Int /\ Grace \in Int
  BY InItsMinute, TimeAssumption DEF Times, NoTime
<1>3. QED
  BY <1>1, <1>2 DEF Past

\* The minute of a message that was not read is not past, and reading it changes that
\* no more.
LEMMA UnreadNotPast ==
    ASSUME TypeOK, KeepsUp, NEW p \in Partitions,
           NEW o \in 0..(Len(log[p]) - 1), fetch[p] <= o, Message(p, o).valid
    PROVE  /\ ~Past(KeyOf(Message(p, o))[2], watermark)
           /\ ~Past(KeyOf(Message(p, o))[2], Advanced(Message(p, o).event_ms))
<1> DEFINE t == Message(p, o).event_ms
<1>1. t \in Times /\ KeyOf(Message(p, o))[2] = minute_of(t)
  BY MessageIsMsg DEF Msg, KeyOf
<1>2. o \in fetch[p]..(Len(log[p]) - 1)
  BY DEF TypeOK
<1>3. ~Past(minute_of(t), watermark)
  BY <1>2, Zenon DEF KeepsUp
<1>4. ~Past(minute_of(t), t)
  <2>1. t \in Times \cup {NoTime} /\ t <= t + Grace
    BY <1>1, TimeAssumption DEF Times
  <2>2. QED
    BY <1>1, <2>1, NotPastInGrace
<1>5. Advanced(t) = watermark \/ Advanced(t) = t
  BY Zenon DEF Advanced
<1> HIDE DEF t
<1>6. ~Past(minute_of(t), Advanced(t))
  BY <1>3, <1>4, <1>5, Zenon
<1>7. QED
  BY <1>1, <1>3, <1>6, Zenon DEF t

\* What publishing does to the log.
LEMMA AppendLog ==
    ASSUME TypeOK, NEW p \in Partitions, NEW msg \in Msg, AppendTo(p, msg)
    PROVE  /\ Len(log[p]) \in Nat /\ Len(log[p]) \in 0..(Len(log'[p]) - 1)
           /\ log'[p][Len(log[p]) + 1] = msg
           /\ \A q \in Partitions : \A o \in 0..(Len(log[q]) - 1) :
                 o \in 0..(Len(log'[q]) - 1) /\ log'[q][o + 1] = log[q][o + 1]
           /\ \A q \in Partitions : \A o \in 0..(Len(log'[q]) - 1) :
                 o \in 0..(Len(log[q]) - 1) \/ (q = p /\ o = Len(log[p]))
<1> DEFINE n == Len(log[p])
<1>1. log' = [log EXCEPT ![p] = Append(@, msg)] /\ log[p] \in Seq(Msg) /\ n \in Nat
  BY DEF AppendTo, TypeOK
<1>2. log'[p] = Append(log[p], msg) /\ \A q \in Partitions : q # p => log'[q] = log[q]
  BY <1>1, Zenon DEF TypeOK
<1>3. Len(log'[p]) = n + 1 /\ log'[p][n + 1] = msg /\ \A i \in 1..n : log'[p][i] = log[p][i]
  BY <1>1, <1>2
<1>4. \A o \in 0..(n - 1) : o \in 0..(Len(log'[p]) - 1) /\ log'[p][o + 1] = log[p][o + 1]
  BY <1>1, <1>3
<1>5. n \in 0..(Len(log'[p]) - 1) /\ \A o \in 0..(Len(log'[p]) - 1) : o \in 0..(n - 1) \/ o = n
  BY <1>1, <1>3
<1>6. QED
  BY <1>1, <1>2, <1>3, <1>4, <1>5, Zenon

LEMMA OrderPublish ==
    ASSUME TypeOK, OrderInv, NEW p \in Partitions, NEW msg \in Msg, AppendTo(p, msg),
           PartitionOf[msg.symbol] = p,
           msg.valid => \A o \in 0..(Len(log[p]) - 1) :
                           Message(p, o).event_ms <= msg.event_ms + Skew
    PROVE  OrderInv'
<1>0. PICK n : n = Len(log[p])
  OBVIOUS
<1>1. /\ n \in Nat /\ Message(p, n)' = msg
      /\ \A q \in Partitions : \A o \in 0..(Len(log[q]) - 1) :
            o \in 0..(Len(log'[q]) - 1) /\ Message(q, o)' = Message(q, o)
      /\ \A q \in Partitions : \A o \in 0..(Len(log'[q]) - 1) :
            o \in 0..(Len(log[q]) - 1) \/ (q = p /\ o = n)
  <2>1. /\ n \in Nat /\ log'[p][n + 1] = msg
        /\ \A q \in Partitions : \A o \in 0..(Len(log[q]) - 1) :
              o \in 0..(Len(log'[q]) - 1) /\ log'[q][o + 1] = log[q][o + 1]
        /\ \A q \in Partitions : \A o \in 0..(Len(log'[q]) - 1) :
              o \in 0..(Len(log[q]) - 1) \/ (q = p /\ o = n)
    BY <1>0, AppendLog, Zenon
  <2>2. QED
    BY <2>1, Zenon DEF Message
<1>2. watermark' = watermark /\ fetch' = fetch
  BY Zenon DEF AppendTo, memory
<1>3. Keyed'
  <2> SUFFICES ASSUME NEW q \in Partitions, NEW o \in 0..(Len(log'[q]) - 1)
               PROVE  PartitionOf[(Message(q, o)').symbol] = q
    BY Zenon DEF Keyed
  <2>1. CASE o \in 0..(Len(log[q]) - 1)
    <3>1. PartitionOf[Message(q, o).symbol] = q
      BY <2>1, Zenon DEF OrderInv, Keyed
    <3>2. Message(q, o)' = Message(q, o)
      BY <1>1, <2>1, Zenon
    <3>3. QED
      BY <3>1, <3>2
  <2>2. CASE q = p /\ o = n
    <3>1. Message(q, o)' = msg
      BY <1>1, <2>2, Zenon
    <3>2. QED
      BY <2>2, <3>1
  <2>3. QED
    BY <1>1, <2>1, <2>2, Zenon
<1>4. LogOrder'
  <2> SUFFICES ASSUME NEW q \in Partitions, NEW a \in 0..(Len(log'[q]) - 1),
                      NEW b \in 0..(Len(log'[q]) - 1), a < b, (Message(q, b)').valid
               PROVE  (Message(q, a)').event_ms <= (Message(q, b)').event_ms + Skew
    BY Zenon DEF LogOrder
  <2>1. a \in 0..(Len(log[q]) - 1)
    <3>1. a # n \/ q # p
      <4> SUFFICES ASSUME a = n, q = p PROVE FALSE
        OBVIOUS
      <4>1. b \in 0..(Len(log[p]) - 1) \/ b = n
        BY <1>1, Zenon
      <4>2. QED
        BY <1>0, <1>1, <4>1
    <3>2. QED
      BY <1>1, <3>1, Zenon
  <2>2. CASE b \in 0..(Len(log[q]) - 1)
    BY <1>1, <2>1, <2>2, Zenon DEF OrderInv, LogOrder
  <2>3. CASE q = p /\ b = n
    <3>1. Message(q, b)' = msg /\ Message(q, a)' = Message(q, a)
      BY <1>1, <2>1, <2>3, Zenon
    <3>2. Message(q, a).event_ms <= msg.event_ms + Skew
      BY <2>1, <2>3, <3>1, Zenon
    <3>3. QED
      BY <3>1, <3>2
  <2>4. QED
    BY <1>1, <2>2, <2>3, Zenon
<1>5. WatermarkRead'
  BY <1>1, <1>2, Zenon DEF OrderInv, WatermarkRead
<1>6. QED
  BY <1>3, <1>4, <1>5 DEF OrderInv

\* Publishing keeps a topic's order across partitions, too.
LEMMA Published ==
    ASSUME TypeOK, NEW s \in Symbols, (\E t \in Times : Publish(s, t)) \/ PublishMalformed(s)
    PROVE  \E p \in Partitions, msg \in Msg :
              /\ AppendTo(p, msg) /\ PartitionOf[msg.symbol] = p
              /\ msg.valid => \A q \in Partitions : \A o \in 0..(Len(log[q]) - 1) :
                                 Message(q, o).event_ms <= msg.event_ms + Skew
<1>1. PartitionOf[s] \in Partitions
  BY SymbolsAssumption
<1>2. CASE PublishMalformed(s)
  <2> DEFINE msg == [symbol |-> s, event_ms |-> 0, valid |-> FALSE]
  <2>1. msg \in Msg /\ ~msg.valid /\ msg.symbol = s
    BY TimeAssumption DEF Msg, Times
  <2>2. AppendTo(PartitionOf[s], msg)
    BY <1>2, Zenon DEF PublishMalformed
  <2> HIDE DEF msg
  <2>3. QED
    BY <1>1, <2>1, <2>2, Zenon
<1>3. ASSUME NEW t \in Times, Publish(s, t)
      PROVE  \E p \in Partitions, msg \in Msg :
              /\ AppendTo(p, msg) /\ PartitionOf[msg.symbol] = p
              /\ msg.valid => \A q \in Partitions : \A o \in 0..(Len(log[q]) - 1) :
                                 Message(q, o).event_ms <= msg.event_ms + Skew
  <2> DEFINE msg == [symbol |-> s, event_ms |-> t, valid |-> TRUE]
  <2>1. msg \in Msg /\ msg.event_ms = t /\ msg.symbol = s
    BY DEF Msg
  <2>2. AppendTo(PartitionOf[s], msg)
    BY <1>3, Zenon DEF Publish
  <2>3. ASSUME NEW q \in Partitions, NEW o \in 0..(Len(log[q]) - 1)
        PROVE  Message(q, o).event_ms <= msg.event_ms + Skew
    <3>1. o + 1 \in DOMAIN log[q]
      BY DEF TypeOK
    <3>2. log[q][o + 1].event_ms <= t + Skew
      BY <1>3, <3>1, Zenon DEF Publish
    <3>3. QED
      BY <2>1, <3>2, Zenon DEF Message
  <2> HIDE DEF msg
  <2>4. QED
    BY <1>1, <2>1, <2>2, <2>3, Zenon
<1>4. QED
  BY <1>2, <1>3

LEMMA ReadWatermark ==
    ASSUME TypeOK, WatermarkRead, NEW p \in Partitions, Ingest(p)
    PROVE  WatermarkRead'
<1>0. /\ Receive(p)
      /\ \/ watermark' = watermark
         \/ /\ Message(p, fetch[p]).valid
            /\ watermark' = Advanced(Message(p, fetch[p]).event_ms)
  BY Zenon DEF Ingest, IngestMalformed, IngestLate, IngestTrade
<1>1. /\ log' = log /\ fetch[p] \in 0..(Len(log[p]) - 1)
      /\ fetch[p] \in Nat /\ fetch'[p] = fetch[p] + 1
      /\ \A q \in Partitions : q # p => fetch'[q] = fetch[q]
  <2>1. fetch' = [fetch EXCEPT ![p] = @ + 1] /\ fetch \in [Partitions -> Nat]
    BY <1>0, Zenon DEF Receive, TypeOK
  <2>2. log' = log /\ fetch[p] \in 0..(Len(log[p]) - 1)
    BY <1>0, ReceiveFacts
  <2>3. QED
    BY <2>1, <2>2, Zenon
<1> SUFFICES ASSUME watermark' # NoTime
             PROVE  \E q \in Partitions : \E o \in 0..(Len(log[q]) - 1) :
                       o < fetch'[q] /\ Message(q, o).valid /\ Message(q, o).event_ms = watermark'
  BY <1>1, Zenon DEF WatermarkRead, Message
<1>2. CASE watermark' = watermark
  <2>1. PICK q \in Partitions : \E o \in 0..(Len(log[q]) - 1) :
             o < fetch[q] /\ Message(q, o).valid /\ Message(q, o).event_ms = watermark
    BY <1>2, Zenon DEF WatermarkRead
  <2>2. PICK o \in 0..(Len(log[q]) - 1) :
             o < fetch[q] /\ Message(q, o).valid /\ Message(q, o).event_ms = watermark
    BY <2>1
  <2>3. o < fetch'[q]
    BY <1>1, <2>2
  <2>4. QED
    BY <1>2, <2>2, <2>3, Zenon
<1>3. CASE watermark' # watermark
  <2>1. Message(p, fetch[p]).valid /\ watermark' = Message(p, fetch[p]).event_ms
    BY <1>0, <1>3, Zenon DEF Advanced
  <2>2. fetch[p] < fetch'[p]
    BY <1>1
  <2>3. QED
    BY <1>1, <2>1, <2>2, Zenon
<1>4. QED
  BY <1>2, <1>3

LEMMA OrderFrame ==
    ASSUME OrderInv, log' = log, WatermarkRead'
    PROVE  OrderInv'
BY Zenon DEF OrderInv, Keyed, LogOrder, Message

LEMMA OrderInit == Init => OrderInv
<1> SUFFICES ASSUME Init PROVE OrderInv
  OBVIOUS
<1>1. \A p \in Partitions : 0..(Len(log[p]) - 1) = {}
  BY DEF Init
<1>2. watermark = NoTime
  BY DEF Init
<1>3. QED
  BY <1>1, <1>2, Zenon DEF OrderInv, Keyed, LogOrder, WatermarkRead

LEMMA OrderStep == TypeOK /\ OrderInv /\ NoRejoins' /\ [Next]_vars => OrderInv'
<1> SUFFICES ASSUME TypeOK, OrderInv, NoRejoins', [Next]_vars PROVE OrderInv'
  OBVIOUS
<1>1. CASE \E s \in Symbols : (\E t \in Times : Publish(s, t)) \/ PublishMalformed(s)
  BY <1>1, Published, OrderPublish, Zenon
<1>2. CASE \E p \in Partitions : Ingest(p)
  <2>1. PICK p \in Partitions : Ingest(p)
    BY <1>2
  <2>2. log' = log
    BY <2>1, Zenon DEF Ingest, IngestMalformed, IngestLate, IngestTrade, Receive, kafka
  <2>3. QED
    BY <2>1, <2>2, ReadWatermark, OrderFrame, Zenon DEF OrderInv
<1>3. CASE log' = log /\ UNCHANGED <<fetch, watermark>>
  <2>1. WatermarkRead'
    BY <1>3, Zenon DEF OrderInv, WatermarkRead, Message
  <2>2. QED
    BY <1>3, <2>1, OrderFrame, Zenon
<1>4. CASE log' = log /\ Die
  <2>1. WatermarkRead'
    BY <1>4, Zenon DEF Die, WatermarkRead
  <2>2. QED
    BY <1>4, <2>1, OrderFrame, Zenon
<1>5. CASE StartFlush \/ EndWindows \/ EndFlush \/ Restart \/ Stop
           \/ \E k \in Keys : WriteWindow(k) \/ WriteLate(k)
  <2>1. log' = log /\ UNCHANGED <<fetch, watermark>>
    BY <1>5, Zenon DEF StartFlush, EndWindows, EndFlush, Restart, Stop, EnterFinally, WriteWindow,
                       WriteLate, kafka, memory
  <2>2. QED
    BY <1>3, <2>1
<1>6. CASE CommitSafely
  <2>1. log' = log /\ (Die \/ UNCHANGED <<fetch, watermark>>)
    BY <1>6, Zenon DEF CommitSafely, memory
  <2>2. QED
    BY <1>3, <1>4, <2>1, Zenon
<1>7. CASE PutFails \/ CommitFails \/ Crash
  <2>1. log' = log /\ (Die \/ UNCHANGED <<fetch, watermark>>)
    BY <1>7, Zenon DEF PutFails, CommitFails, Crash, EnterFinally, kafka, memory
  <2>2. QED
    BY <1>3, <1>4, <2>1, Zenon
<1>8. CASE Rejoin
  BY <1>8, RejoinCounts
<1>9. CASE UNCHANGED vars
  BY <1>3, <1>9, Zenon DEF vars, kafka, memory
<1>10. QED
  BY <1>1, <1>2, <1>5, <1>6, <1>7, <1>8, <1>9, Zenon DEF Next, FlushStep

LEMMA OrderAlways == Spec /\ []NoRejoins => [](TypeOK /\ IInv /\ ReadOnce /\ OrderInv)
<1>1. Init => OrderInv
  BY OrderInit
<1>2. TypeOK /\ OrderInv /\ NoRejoins' /\ [Next]_vars => OrderInv'
  BY OrderStep
<1>3. QED
  BY <1>1, <1>2, ReadOnceAlways, PTL DEF Spec

-----------------------------------------------------------------------------
(* A late trade was closed by one read ahead of it.                        *)

LEMMA ReadInLog ==
    ASSUME TypeOK, IInv, NEW q \in Partitions, NEW o \in 0..(fetch[q] - 1)
    PROVE  o \in 0..(Len(log[q]) - 1) /\ o < fetch[q]
<1>1. PICK lo \in 0..Len(log[q]), hi \in 0..Len(log[q]) : Span(q, lo, hi)
  BY Zenon DEF IInv, SpanInv
<1>2. fetch[q] \in lo..hi
  BY <1>1, Zenon DEF Span
<1>3. fetch[q] \in Nat /\ Len(log[q]) \in Nat
  BY DEF TypeOK
<1>4. QED
  BY <1>1, <1>2, <1>3

\* What is late has its cause, while the group does not drop the consumer.
Caused(id) == \E q \in Partitions : \E o \in 0..(fetch[q] - 1) : ClosedBy(id, q, o)
AllCaused == \A id \in late : Caused(id)

LEMMA LateIngest ==
    ASSUME TypeOK, IInv, OrderInv, NEW p \in Partitions, IngestLate(p)
    PROVE  Caused(<<p, fetch[p]>>)
<1> DEFINE t == Message(p, fetch[p]).event_ms
<1>1. /\ Receive(p) /\ Message(p, fetch[p]).valid
      /\ Gone(KeyOf(Message(p, fetch[p])), Advanced(t))
  BY Zenon DEF IngestLate
<1>2. fetch[p] \in Nat /\ t \in Times /\ KeyOf(Message(p, fetch[p]))[2] = minute_of(t)
  BY <1>1, ReceiveFacts DEF Msg, KeyOf
<1>3. Past(minute_of(t), watermark)
  <2>1. t \in Times \cup {NoTime} /\ t <= t + Grace
    BY <1>2, TimeAssumption DEF Times
  <2>2. ~Past(minute_of(t), t)
    BY <1>2, <2>1, NotPastInGrace
  <2>3. Advanced(t) = watermark \/ Advanced(t) = t
    BY Zenon DEF Advanced
  <2> HIDE DEF t
  <2>4. KeyOf(Message(p, fetch[p])) \in written => Past(minute_of(t), watermark)
    BY <1>2, Zenon DEF IInv, WrittenStaysGone
  <2>5. QED
    BY <1>1, <1>2, <2>2, <2>3, <2>4, Zenon DEF Gone
<1> HIDE DEF t
<1>4. watermark # NoTime
  BY <1>3, Zenon DEF Past
<1>5. PICK q \in Partitions : \E o \in 0..(Len(log[q]) - 1) :
           o < fetch[q] /\ Message(q, o).valid /\ Message(q, o).event_ms = watermark
  BY <1>4, Zenon DEF OrderInv, WatermarkRead
<1>6. PICK o \in 0..(Len(log[q]) - 1) :
           o < fetch[q] /\ Message(q, o).valid /\ Message(q, o).event_ms = watermark
  BY <1>5
<1>7. o \in 0..(fetch[q] - 1)
  BY <1>6 DEF TypeOK
<1>8. ClosedBy(<<p, fetch[p]>>, q, o)
  BY <1>1, <1>3, <1>6 DEF ClosedBy, t
<1>9. QED
  BY <1>7, <1>8, Zenon DEF Caused

\* A cause stays one while the log and what was read of it only grow.
LEMMA CauseStays ==
    ASSUME TypeOK, IInv, NEW id \in late, Caused(id),
           \A q \in Partitions : fetch'[q] \in Nat /\ fetch[q] <= fetch'[q],
           \A q \in Partitions : \A o \in 0..(Len(log[q]) - 1) :
              log'[q][o + 1] = log[q][o + 1]
    PROVE  Caused(id)'
<1>1. PICK q \in Partitions : \E o \in 0..(fetch[q] - 1) : ClosedBy(id, q, o)
  BY Zenon DEF Caused
<1>2. PICK o \in 0..(fetch[q] - 1) : ClosedBy(id, q, o)
  BY <1>1
<1>3. o \in 0..(Len(log[q]) - 1) /\ o \in 0..(fetch'[q] - 1)
  BY <1>2, ReadInLog DEF TypeOK
<1>4. id[1] \in Partitions /\ id[2] \in 0..(Len(log[id[1]]) - 1)
  BY Zenon DEF IInv, LateInv, InLog
<1>5. Message(q, o)' = Message(q, o) /\ Message(id[1], id[2])' = Message(id[1], id[2])
  BY <1>3, <1>4, Zenon DEF Message
<1>6. ClosedBy(id, q, o)'
  BY <1>2, <1>5, Zenon DEF ClosedBy, Past
<1>7. QED
  BY <1>3, <1>6, Zenon DEF Caused

LEMMA CauseStep ==
    TypeOK /\ IInv /\ OrderInv /\ AllCaused /\ NoRejoins' /\ [Next]_vars => AllCaused'
<1> SUFFICES ASSUME TypeOK, IInv, OrderInv, AllCaused, NoRejoins', [Next]_vars PROVE AllCaused'
  OBVIOUS
<1>1. CASE late' = {}
  BY <1>1, Zenon DEF AllCaused
<1>2. CASE UNCHANGED <<log, fetch, late>>
  <2>1. \A id \in late : Caused(id)'
    BY <1>2, Zenon DEF AllCaused, Caused, ClosedBy, Past, Message
  <2>2. QED
    BY <1>2, <2>1, Zenon DEF AllCaused
<1>3. CASE \E s \in Symbols : (\E t \in Times : Publish(s, t)) \/ PublishMalformed(s)
  <2>1. PICK p \in Partitions, msg \in Msg : AppendTo(p, msg)
    BY <1>3, Published, Zenon
  <2>2. UNCHANGED <<fetch, late>>
    BY <2>1, Zenon DEF AppendTo, memory
  <2>3. \A q \in Partitions : \A o \in 0..(Len(log[q]) - 1) : log'[q][o + 1] = log[q][o + 1]
    BY <2>1, AppendLog, Zenon
  <2>4. \A q \in Partitions : fetch'[q] \in Nat /\ fetch[q] <= fetch'[q]
    BY <2>2 DEF TypeOK
  <2>5. \A id \in late : Caused(id)'
    BY <2>3, <2>4, CauseStays, Zenon DEF AllCaused
  <2>6. QED
    BY <2>2, <2>5, Zenon DEF AllCaused
<1>4. ASSUME NEW p \in Partitions, Ingest(p) PROVE AllCaused'
  <2>0. PICK n : n = fetch[p]
    OBVIOUS
  <2>1. /\ Receive(p) /\ log' = log
        /\ late' = late \/ (IngestLate(p) /\ late' = late \cup {<<p, n>>})
    BY <1>4, <2>0, Zenon DEF Ingest, IngestMalformed, IngestLate, IngestTrade, Receive, kafka
  <2>2. \A q \in Partitions : fetch'[q] \in Nat /\ fetch[q] <= fetch'[q]
    BY <2>1 DEF Receive, TypeOK
  <2>3. \A id \in late : Caused(id)'
    BY <2>1, <2>2, CauseStays, Zenon DEF AllCaused
  <2>4. ASSUME IngestLate(p) PROVE Caused(<<p, n>>)'
    <3>1. PICK q \in Partitions : \E o \in 0..(fetch[q] - 1) : ClosedBy(<<p, n>>, q, o)
      BY <2>0, <2>4, LateIngest, Zenon DEF Caused
    <3>2. PICK o \in 0..(fetch[q] - 1) : ClosedBy(<<p, n>>, q, o)
      BY <3>1
    <3>3. o \in 0..(fetch'[q] - 1)
      BY <2>2, <3>2 DEF TypeOK
    <3>4. ClosedBy(<<p, n>>, q, o)'
      BY <2>1, <3>2, Zenon DEF ClosedBy, Past, Message
    <3>5. QED
      BY <3>3, <3>4, Zenon DEF Caused
  <2>5. QED
    BY <2>1, <2>3, <2>4, Zenon DEF AllCaused
<1>5. CASE Rejoin
  BY <1>5, RejoinCounts
<1>6. \/ late' = {} \/ UNCHANGED <<log, fetch, late>> \/ Rejoin
      \/ \E s \in Symbols : (\E t \in Times : Publish(s, t)) \/ PublishMalformed(s)
      \/ \E p \in Partitions : Ingest(p)
  BY Zenon DEF Next, StartFlush, FlushStep, WriteWindow, WriteLate, CommitSafely, EndWindows,
               EndFlush, Stop, PutFails, CommitFails, Crash, Restart, EnterFinally, Die, memory,
               kafka, vars
<1>7. QED
  BY <1>1, <1>2, <1>3, <1>4, <1>5, <1>6

\* A trade is late only against one that closes its minute and was read ahead of it,
\* earlier in its partition or from another: for any partitions, disorder, crashes and
\* failures, while the group does not drop the consumer.
THEOREM LateTradesHaveCause == Spec /\ []NoRejoins => []LateHasCause
<1>1. Init => AllCaused
  BY Zenon DEF Init, AllCaused
<1>2. TypeOK /\ IInv /\ OrderInv /\ AllCaused /\ NoRejoins' /\ [Next]_vars => AllCaused'
  BY CauseStep
<1>3. AllCaused => LateHasCause
  BY Zenon DEF AllCaused, Caused, LateHasCause
<1>4. QED
  BY <1>1, <1>2, <1>3, OrderAlways, PTL DEF Spec

-----------------------------------------------------------------------------
(* A process that keeps up, over trades within the grace period, writes    *)
(* whole bars: it has every trade of a minute that is past.                *)

\* A bar's first and last trade, by which it opens and closes.
FirstLast(bar) ==
    bar.trades # 0 =>
        /\ bar.first_trade_id \in bar.members /\ bar.last_trade_id \in bar.members
        /\ \A id \in bar.members :
              bar.first_trade_id[2] <= id[2] /\ id[2] <= bar.last_trade_id[2]

\* The topic's event time has passed the key, for good.
Closed(k) ==
    \E p \in Partitions : \E o \in 0..(Len(log[p]) - 1) :
        Message(p, o).valid /\ Past(k[2], Message(p, o).event_ms)

\* All trades of a key lie below the commit, or none does.
Below(k) == \A id \in TradesOf(k) : id[2] < committed[id[1]]
Above(k) == \A id \in TradesOf(k) : committed[id[1]] <= id[2]

\* A key is settled, by event time or by the commit, or this process has every
\* trade of it that it could have read.
Settled(k) == ~IsOpen(k) /\ bars[k].trades # 0 /\ (Past(k[2], watermark) \/ Below(k))
Live(k) == windows[k].members = {id \in TradesOf(k) : id[2] < fetch[id[1]]}

WholeBar(k) == bars[k].trades # 0 => bars[k].members = TradesOf(k) /\ Closed(k)

WholeInv ==
    /\ pc \in {"late", "commit"} => \A k \in Keys : ~Due(k)
    /\ faults = 0 => ~final
    /\ \A k \in Keys :
          /\ FirstLast(windows[k]) /\ FirstLast(bars[k])
          /\ WholeBar(k)
          /\ Settled(k) \/ Live(k)
          /\ MinutesInOrder => Below(k) \/ Above(k)

LEMMA NoBarFirstLast == FirstLast(NoBar) /\ NoBar.members = {} /\ NoBar.trades = 0
BY DEF FirstLast, NoBar

LEMMA FetchInLog ==
    ASSUME TypeOK, IInv, NEW p \in Partitions
    PROVE  fetch[p] \in Nat /\ Len(log[p]) \in Nat /\ fetch[p] <= Len(log[p])
<1>1. PICK lo \in 0..Len(log[p]), hi \in 0..Len(log[p]) : Span(p, lo, hi)
  BY Zenon DEF IInv, SpanInv
<1>2. fetch[p] \in lo..hi /\ fetch[p] \in Nat /\ Len(log[p]) \in Nat
  BY <1>1 DEF Span, TypeOK
<1>3. QED
  BY <1>2

LEMMA WholeInit == Init => WholeInv
<1> SUFFICES ASSUME Init PROVE WholeInv
  OBVIOUS
<1>1. \A p \in Partitions : log[p] = << >>
  BY Zenon DEF Init
<1>2. \A p \in Partitions : 0..(Len(log[p]) - 1) = {}
  BY <1>1
<1>3. \A k : TradesOf(k) = {}
  BY <1>2, TradesAre, Zenon
<1>4. \A k \in Keys : windows[k] = NoBar /\ bars[k] = NoBar
  BY Zenon DEF Init, NoWindows
<1>6. pc = "poll" /\ ~final
  BY DEF Init
<1>7. ASSUME NEW k \in Keys
      PROVE  /\ FirstLast(windows[k]) /\ FirstLast(bars[k]) /\ WholeBar(k) /\ Live(k) /\ Below(k)
  BY <1>3, <1>4, NoBarFirstLast, Zenon DEF WholeBar, Live, Below
<1>8. QED
  BY <1>6, <1>7 DEF WholeInv

\* While the log stays, so does all that is said of it alone.
LEMMA LogFrame ==
    ASSUME log' = log
    PROVE  /\ \A p, o : Message(p, o)' = Message(p, o)
           /\ \A k : TradesOf(k)' = TradesOf(k) /\ (Closed(k) => Closed(k)')
           /\ MinutesInOrder' <=> MinutesInOrder
<1>1. \A p, o : Message(p, o)' = Message(p, o)
  BY Zenon DEF Message
<1>2. \A k : TradesOf(k)' = TradesOf(k)
  BY <1>1, Zenon DEF TradesOf
<1>3. \A k : Closed(k) => Closed(k)'
  BY <1>1, Zenon DEF Closed
<1>4. MinutesInOrder' <=> MinutesInOrder
  BY Zenon DEF MinutesInOrder, Message
<1>5. QED
  BY <1>1, <1>2, <1>3, <1>4

\* The invariant speaks of the log, the windows, the bars, the offsets and the
\* watermark; other steps disturb the place in the loop only.
LEMMA WholeStays ==
    ASSUME WholeInv,
           UNCHANGED <<log, committed, fetch, windows, bars, watermark>>,
           (faults = 0 => ~final)',
           pc' \in {"late", "commit"} => \A k \in Keys : ~Due(k)
    PROVE  WholeInv'
<1>1. /\ \A k : TradesOf(k)' = TradesOf(k) /\ (Closed(k) => Closed(k)')
      /\ MinutesInOrder' <=> MinutesInOrder
  BY LogFrame, Zenon
<1>3. ASSUME NEW k \in Keys
      PROVE  /\ FirstLast(windows[k])' /\ FirstLast(bars[k])' /\ WholeBar(k)'
             /\ (Settled(k) \/ Live(k))' /\ (MinutesInOrder => Below(k) \/ Above(k))'
  <2>1. FirstLast(windows[k])' /\ FirstLast(bars[k])'
    BY Zenon DEF WholeInv, FirstLast
  <2>2. WholeBar(k)'
    BY <1>1, Zenon DEF WholeInv, WholeBar
  <2>3. /\ Below(k) => Below(k)'
        /\ Above(k) => Above(k)'
        /\ Live(k) => Live(k)'
    BY <1>1, Zenon DEF Below, Above, Live
  <2>4. Settled(k) => Settled(k)'
    BY <2>3, Zenon DEF Settled, IsOpen
  <2>5. QED
    BY <1>1, <2>1, <2>2, <2>3, <2>4, Zenon DEF WholeInv
<1>4. \A k \in Keys : Due(k)' <=> Due(k)
  BY Zenon DEF Due, IsOpen
<1>5. QED
  BY <1>3, <1>4, Zenon DEF WholeInv

\* TradesOf(k) after a step.
TradesNext(k) ==
    {id \in UNION {{p} \X (0..(Len(log'[p]) - 1)) : p \in Partitions} :
        log'[id[1]][id[2] + 1].valid /\ KeyOf(log'[id[1]][id[2] + 1]) = k}

LEMMA TradesNextAre ==
    ASSUME NEW k
    PROVE  /\ \A id \in TradesNext(k) : \E p \in Partitions : \E o \in 0..(Len(log'[p]) - 1) :
                id = <<p, o>> /\ log'[p][o + 1].valid /\ KeyOf(log'[p][o + 1]) = k
           /\ \A p \in Partitions : \A o \in 0..(Len(log'[p]) - 1) :
                log'[p][o + 1].valid /\ KeyOf(log'[p][o + 1]) = k => <<p, o>> \in TradesNext(k)
<1>1. ASSUME NEW id \in TradesNext(k)
      PROVE  \E p \in Partitions : \E o \in 0..(Len(log'[p]) - 1) :
                id = <<p, o>> /\ log'[p][o + 1].valid /\ KeyOf(log'[p][o + 1]) = k
  <2>1. PICK p \in Partitions : id \in {p} \X (0..(Len(log'[p]) - 1))
    BY Zenon DEF TradesNext
  <2>2. id = <<p, id[2]>> /\ id[1] = p /\ id[2] \in 0..(Len(log'[p]) - 1)
    BY <2>1
  <2>3. QED
    BY <2>2, Zenon DEF TradesNext
<1>2. ASSUME NEW p \in Partitions, NEW o \in 0..(Len(log'[p]) - 1),
             log'[p][o + 1].valid, KeyOf(log'[p][o + 1]) = k
      PROVE  <<p, o>> \in TradesNext(k)
  <2>1. <<p, o>> \in {p} \X (0..(Len(log'[p]) - 1)) /\ <<p, o>>[1] = p /\ <<p, o>>[2] = o
    OBVIOUS
  <2>2. QED
    BY <1>2, <2>1, Zenon DEF TradesNext
<1>3. QED
  BY <1>1, <1>2, Zenon

LEMMA TradesNextIs == \A k : TradesOf(k)' = TradesNext(k)
BY Zenon DEF TradesOf, TradesNext, Message

\* A key whose trades are all in the log below the commit has been settled: what
\* this process holds in a window the commit has not passed.
LEMMA LiveIsAbove ==
    ASSUME TypeOK, IInv, ReadOnce, NEW k \in Keys, Live(k), Below(k) \/ Above(k)
    PROVE  Above(k)
<1> SUFFICES ASSUME Below(k), NEW id \in TradesOf(k) PROVE FALSE
  BY Zenon DEF Above
<1> PICK p \in Partitions : \E o \in 0..(Len(log[p]) - 1) :
          id = <<p, o>> /\ Message(p, o).valid /\ KeyOf(Message(p, o)) = k
  BY TradesAre, Zenon
<1>1. PICK o \in 0..(Len(log[p]) - 1) : id = <<p, o>>
  OBVIOUS
<1>2. o < committed[p] /\ o \in Nat
  <2>1. id[2] < committed[id[1]]
    BY Zenon DEF Below
  <2>2. QED
    BY <1>1, <2>1
<1>3. committed[p] <= fetch[p] /\ committed[p] \in Nat /\ fetch[p] \in Nat
  BY Zenon DEF ReadOnce, TypeOK
<1>4. id[2] < fetch[id[1]]
  BY <1>1, <1>2, <1>3
<1>5. id \in windows[k].members
  BY <1>4, Zenon DEF Live
<1>6. committed[id[1]] <= id[2]
  BY <1>5, Zenon DEF IInv, CommitBelowOpenWindows
<1>7. QED
  BY <1>1, <1>2, <1>3, <1>6

\* What publishing does to the trades of a key.
LEMMA AppendAdds ==
    ASSUME TypeOK, NEW p \in Partitions, NEW msg \in Msg, AppendTo(p, msg), NEW k
    PROVE  /\ TradesOf(k) \subseteq TradesNext(k)
           /\ \A id \in TradesNext(k) :
                 id \in TradesOf(k) \/ (id = <<p, Len(log[p])>> /\ msg.valid /\ KeyOf(msg) = k)
<1>1. /\ log'[p][Len(log[p]) + 1] = msg
      /\ \A q \in Partitions : \A o \in 0..(Len(log[q]) - 1) :
            o \in 0..(Len(log'[q]) - 1) /\ log'[q][o + 1] = log[q][o + 1]
      /\ \A q \in Partitions : \A o \in 0..(Len(log'[q]) - 1) :
            o \in 0..(Len(log[q]) - 1) \/ (q = p /\ o = Len(log[p]))
  BY AppendLog, Zenon
<1>2. ASSUME NEW id \in TradesOf(k) PROVE id \in TradesNext(k)
  <2>1. PICK q \in Partitions : \E o \in 0..(Len(log[q]) - 1) :
             id = <<q, o>> /\ log[q][o + 1].valid /\ KeyOf(log[q][o + 1]) = k
    BY TradesAre, Zenon DEF Message
  <2>2. PICK o \in 0..(Len(log[q]) - 1) :
             id = <<q, o>> /\ log[q][o + 1].valid /\ KeyOf(log[q][o + 1]) = k
    BY <2>1
  <2>3. o \in 0..(Len(log'[q]) - 1) /\ log'[q][o + 1] = log[q][o + 1]
    BY <1>1, Zenon
  <2>4. QED
    BY <2>2, <2>3, TradesNextAre, Zenon
<1>3. ASSUME NEW id \in TradesNext(k)
      PROVE  id \in TradesOf(k) \/ (id = <<p, Len(log[p])>> /\ msg.valid /\ KeyOf(msg) = k)
  <2>1. PICK q \in Partitions : \E o \in 0..(Len(log'[q]) - 1) :
             id = <<q, o>> /\ log'[q][o + 1].valid /\ KeyOf(log'[q][o + 1]) = k
    BY TradesNextAre, Zenon
  <2>2. PICK o \in 0..(Len(log'[q]) - 1) :
             id = <<q, o>> /\ log'[q][o + 1].valid /\ KeyOf(log'[q][o + 1]) = k
    BY <2>1
  <2>3. CASE q = p /\ o = Len(log[p])
    BY <1>1, <2>2, <2>3, Zenon
  <2>4. CASE o \in 0..(Len(log[q]) - 1)
    <3>1. log[q][o + 1].valid /\ KeyOf(log[q][o + 1]) = k
      BY <1>1, <2>2, <2>4, Zenon
    <3>2. <<q, o>> \in TradesOf(k)
      BY <2>4, <3>1, TradesAre, Zenon DEF Message
    <3>3. QED
      BY <2>2, <3>2, Zenon
  <2>5. QED
    BY <1>1, <2>3, <2>4, Zenon
<1>4. QED
  BY <1>2, <1>3, Zenon

\* No trade of a closed key is published any more.
LEMMA ClosedIsClosed ==
    ASSUME TypeOK, InGrace, NEW msg \in Msg, msg.valid, Closed(KeyOf(msg)),
           \A q \in Partitions : \A o \in 0..(Len(log[q]) - 1) :
              Message(q, o).event_ms <= msg.event_ms + Skew
    PROVE  FALSE
<1>1. msg.event_ms \in Times /\ KeyOf(msg)[2] = minute_of(msg.event_ms)
  BY DEF Msg, KeyOf
<1> PICK q \in Partitions : \E o \in 0..(Len(log[q]) - 1) :
           Past(KeyOf(msg)[2], Message(q, o).event_ms)
  BY Zenon DEF Closed
<1>2. PICK o \in 0..(Len(log[q]) - 1) : Past(KeyOf(msg)[2], Message(q, o).event_ms)
  OBVIOUS
<1>3. Message(q, o).event_ms \in Times
  BY MessageIsMsg DEF Msg
<1>4. Message(q, o).event_ms \in Times \cup {NoTime}
      /\ Message(q, o).event_ms <= msg.event_ms + Grace
  <2>1. Message(q, o).event_ms <= msg.event_ms + Skew
    BY Zenon
  <2>2. QED
    BY <1>1, <1>3, <2>1, TimeAssumption DEF InGrace, Times
<1>5. QED
  BY <1>1, <1>2, <1>4, NotPastInGrace, Zenon

LEMMA WholePublish ==
    ASSUME TypeOK, IInv, ReadOnce, InGrace, WholeInv,
           NEW p \in Partitions, NEW msg \in Msg, AppendTo(p, msg),
           msg.valid => \A q \in Partitions : \A o \in 0..(Len(log[q]) - 1) :
                           Message(q, o).event_ms <= msg.event_ms + Skew
    PROVE  WholeInv'
<1>0. PICK n : n = Len(log[p])
  OBVIOUS
<1>1. /\ n \in Nat
      /\ \A q \in Partitions : \A o \in 0..(Len(log[q]) - 1) :
            o \in 0..(Len(log'[q]) - 1) /\ Message(q, o)' = Message(q, o)
      /\ \A k : TradesOf(k) \subseteq TradesOf(k)'
      /\ \A k : \A id \in TradesOf(k)' :
            id \in TradesOf(k) \/ (id = <<p, n>> /\ msg.valid /\ KeyOf(msg) = k)
  <2>1. /\ n \in Nat
        /\ \A q \in Partitions : \A o \in 0..(Len(log[q]) - 1) :
              o \in 0..(Len(log'[q]) - 1) /\ log'[q][o + 1] = log[q][o + 1]
    BY <1>0, AppendLog, Zenon
  <2>2. \A k : /\ TradesOf(k) \subseteq TradesNext(k)
               /\ \A id \in TradesNext(k) :
                     id \in TradesOf(k) \/ (id = <<p, n>> /\ msg.valid /\ KeyOf(msg) = k)
    BY <1>0, AppendAdds, Zenon
  <2>3. QED
    BY <2>1, <2>2, TradesNextIs, Zenon DEF Message
<1>2. UNCHANGED <<committed, fetch, windows, bars, watermark, pc, final, faults>>
  BY Zenon DEF AppendTo, store, memory, control, budget
<1>4. fetch[p] \in Nat /\ fetch[p] <= n /\ committed[p] \in Nat /\ committed[p] <= fetch[p]
  BY <1>0, FetchInLog, Zenon DEF ReadOnce, TypeOK
<1>7. MinutesInOrder' => MinutesInOrder
  BY <1>1, Zenon DEF MinutesInOrder
<1>8. \A k : Closed(k) => Closed(k)'
  BY <1>1, Zenon DEF Closed
<1>9. ASSUME NEW k \in Keys
      PROVE  /\ WholeBar(k)' /\ (Settled(k) \/ Live(k))'
             /\ (MinutesInOrder => Below(k) \/ Above(k))'
  <2>1. CASE TradesOf(k)' = TradesOf(k)
    <3>1. WholeBar(k)'
      BY <1>2, <1>8, <2>1, Zenon DEF WholeInv, WholeBar
    <3>2. /\ Below(k) => Below(k)'
          /\ Above(k) => Above(k)'
          /\ Live(k) => Live(k)'
      BY <1>2, <2>1, Zenon DEF Below, Above, Live
    <3>3. Settled(k) => Settled(k)'
      BY <1>2, <3>2, Zenon DEF Settled, IsOpen
    <3>4. QED
      BY <1>7, <3>1, <3>2, <3>3, Zenon DEF WholeInv
  <2>2. CASE TradesOf(k)' # TradesOf(k)
    <3>1. msg.valid /\ KeyOf(msg) = k
      <4> SUFFICES ASSUME ~(msg.valid /\ KeyOf(msg) = k) PROVE FALSE
        BY Zenon
      <4>1. \A id : id \in TradesOf(k)' <=> id \in TradesOf(k)
        BY <1>1, Zenon
      <4>2. QED
        BY <2>2, <4>1, Zenon
    <3>2. ~Closed(k)
      BY <3>1, ClosedIsClosed, Zenon
    <3>3. bars[k].trades = 0
      BY <3>2, Zenon DEF WholeInv, WholeBar
    <3>4. Live(k)
      BY <3>3, Zenon DEF WholeInv, Settled
    <3>5. ~(<<p, n>>[2] < fetch[<<p, n>>[1]]) /\ committed[<<p, n>>[1]] <= <<p, n>>[2]
      BY <1>1, <1>4
    <3>6. Live(k)'
      <4>1. \A id : id \in {i \in TradesOf(k)' : i[2] < fetch[i[1]]}
                      <=> id \in {i \in TradesOf(k) : i[2] < fetch[i[1]]}
        BY <1>1, <3>5, Zenon
      <4>2. {i \in TradesOf(k)' : i[2] < fetch[i[1]]} = {i \in TradesOf(k) : i[2] < fetch[i[1]]}
        BY <4>1, Zenon
      <4>3. windows[k].members = {i \in TradesOf(k)' : i[2] < fetch[i[1]]}
        BY <3>4, <4>2, Zenon DEF Live
      <4>4. QED
        BY <1>2, <4>3, Zenon DEF Live
    <3>7. MinutesInOrder => Above(k)'
      <4>1. MinutesInOrder => Above(k)
        BY <3>4, LiveIsAbove, Zenon DEF WholeInv
      <4>2. QED
        BY <1>1, <1>2, <3>5, <4>1, Zenon DEF Above
    <3>8. WholeBar(k)'
      BY <1>2, <3>3, Zenon DEF WholeBar
    <3>9. QED
      BY <1>7, <3>6, <3>7, <3>8, Zenon
  <2>3. QED
    BY <2>1, <2>2
<1>10. \A k \in Keys : (FirstLast(windows[k]) /\ FirstLast(bars[k]))' /\ (Due(k)' <=> Due(k))
  BY <1>2, Zenon DEF WholeInv, FirstLast, Due, IsOpen
<1>11. QED
  BY <1>2, <1>9, <1>10, Zenon DEF WholeInv

-----------------------------------------------------------------------------
\* Reading: an unread trade is neither past nor below the commit, so it goes to the
\* window that has all of its minute, and no trade is late.
LEMMA FirstLastAdd ==
    ASSUME NEW bar \in Bar, FirstLast(bar), bar.trades = 0 => bar.members = {},
           NEW id \in Ids, \A i \in bar.members : i[2] < id[2]
    PROVE  FirstLast(add(bar, id))
<1>1. /\ add(bar, id).members = bar.members \cup {id} /\ add(bar, id).last_trade_id = id
      /\ bar.trades = 0 => add(bar, id).first_trade_id = id
      /\ bar.trades # 0 => add(bar, id).first_trade_id = bar.first_trade_id
  BY DEF add
<1>2. id[2] \in Nat /\ \A i \in bar.members : i[2] \in Nat
  BY DEF Bar, Ids
<1>3. id[2] <= id[2] /\ \A i \in bar.members : i[2] <= id[2]
  BY <1>2
<1>4. CASE bar.trades = 0
  BY <1>1, <1>3, <1>4, Zenon DEF FirstLast
<1>5. CASE bar.trades # 0
  BY <1>1, <1>3, <1>5, Zenon DEF FirstLast
<1>6. QED
  BY <1>4, <1>5

\* A key the message at the fetch position does not belong to.
LEMMA OtherKeyStays ==
    ASSUME TypeOK, NEW p \in Partitions, Receive(p), NEW k \in Keys,
           <<p, fetch[p]>> \notin TradesOf(k), windows'[k] = windows[k],
           Past(k[2], watermark) => Past(k[2], watermark'),
           Settled(k) \/ Live(k)
    PROVE  (Settled(k) \/ Live(k))'
<1>1. /\ log' = log /\ committed' = committed /\ bars' = bars
      /\ fetch[p] \in Nat /\ fetch'[p] = fetch[p] + 1
      /\ \A q \in Partitions : q # p => fetch'[q] = fetch[q]
  <2>1. fetch' = [fetch EXCEPT ![p] = @ + 1] /\ fetch \in [Partitions -> Nat] /\ bars' = bars
    BY Zenon DEF Receive, TypeOK, store
  <2>2. log' = log /\ committed' = committed
    BY ReceiveFacts
  <2>3. QED
    BY <2>1, <2>2, Zenon
<1>2. TradesOf(k)' = TradesOf(k)
  BY <1>1, LogFrame, Zenon
<1>3. CASE Settled(k)
  BY <1>1, <1>2, <1>3, Zenon DEF Settled, IsOpen, Below
<1>4. CASE Live(k)
  <2>1. ASSUME NEW id \in TradesOf(k) PROVE id[2] < fetch[id[1]] <=> id[2] < fetch'[id[1]]
    <3>1. PICK q \in Partitions : \E o \in 0..(Len(log[q]) - 1) :
               id = <<q, o>> /\ Message(q, o).valid /\ KeyOf(Message(q, o)) = k
      BY TradesAre, Zenon
    <3>2. PICK o \in 0..(Len(log[q]) - 1) : id = <<q, o>>
      BY <3>1
    <3>3. q = p => o # fetch[p]
      BY <3>2
    <3>4. Len(log[q]) \in Nat
      BY DEF TypeOK
    <3>5. QED
      BY <1>1, <3>2, <3>3, <3>4
  <2>2. {id \in TradesOf(k) : id[2] < fetch[id[1]]} = {id \in TradesOf(k) : id[2] < fetch'[id[1]]}
    BY <2>1, Zenon
  <2>3. windows'[k].members = {id \in TradesOf(k)' : id[2] < fetch'[id[1]]}
    BY <1>2, <1>4, <2>2, Zenon DEF Live
  <2>4. QED
    BY <2>3, Zenon DEF Live
<1>5. QED
  BY <1>3, <1>4

\* The key it does belong to.
LEMMA OwnKeyIsLive ==
    ASSUME TypeOK, ReadOnce, KeepsUp, WholeInv, NEW p \in Partitions, Receive(p),
           Message(p, fetch[p]).valid
    PROVE  /\ Live(KeyOf(Message(p, fetch[p])))
           /\ <<p, fetch[p]>> \in TradesOf(KeyOf(Message(p, fetch[p])))
           /\ ~Past(KeyOf(Message(p, fetch[p]))[2], watermark)
           /\ ~Past(KeyOf(Message(p, fetch[p]))[2], Advanced(Message(p, fetch[p]).event_ms))
<1> DEFINE k == KeyOf(Message(p, fetch[p]))
<1>1. fetch[p] \in 0..(Len(log[p]) - 1) /\ k \in Keys /\ fetch[p] \in Nat
  BY ReceiveFacts
<1>2. <<p, fetch[p]>> \in TradesOf(k)
  BY <1>1, TradesAre, Zenon
<1>3. fetch[p] <= fetch[p]
  BY <1>1
<1>4. ~Past(k[2], watermark) /\ ~Past(k[2], Advanced(Message(p, fetch[p]).event_ms))
  BY <1>1, <1>3, UnreadNotPast, Zenon
<1>5. ~Below(k)
  <2>1. committed[p] <= fetch[p] /\ committed[p] \in Nat
    BY Zenon DEF ReadOnce, TypeOK
  <2>2. ~(<<p, fetch[p]>>[2] < committed[<<p, fetch[p]>>[1]])
    BY <1>1, <2>1
  <2>3. QED
    BY <1>2, <2>2, Zenon DEF Below
<1>6. Live(k)
  BY <1>1, <1>4, <1>5, Zenon DEF WholeInv, Settled
<1>7. QED
  BY <1>2, <1>4, <1>6, Zenon

LEMMA WholeRead ==
    ASSUME TypeOK, IInv, ReadOnce, OrderInv, KeepsUp, WholeInv,
           NEW p \in Partitions, Receive(p), IngestMalformed(p) \/ IngestTrade(p)
    PROVE  WholeInv'
<1> PICK o : o = fetch[p]
  OBVIOUS
<1> PICK k0 : k0 = KeyOf(Message(p, o))
  OBVIOUS
<1>1. /\ log' = log /\ committed' = committed /\ bars' = bars
      /\ pc' = "poll" /\ final' = final /\ faults' = faults /\ o \in Nat /\ fetch'[p] = o + 1 /\ k0 \in Keys
      /\ windows \in [Keys -> Bar] /\ \A q \in Partitions : q # p => fetch'[q] = fetch[q]
  <2>1. fetch' = [fetch EXCEPT ![p] = @ + 1] /\ fetch \in [Partitions -> Nat] /\ bars' = bars
        /\ final' = final /\ faults' = faults /\ windows \in [Keys -> Bar]
    BY Zenon DEF Receive, TypeOK, store, control, budget
  <2>2. log' = log /\ committed' = committed /\ pc' = "poll" /\ k0 \in Keys
    BY ReceiveFacts
  <2>3. QED
    BY <2>1, <2>2, Zenon
<1>2. /\ MinutesInOrder' <=> MinutesInOrder
      /\ \A k : TradesOf(k)' = TradesOf(k) /\ (Closed(k) => Closed(k)')
  BY <1>1, LogFrame, Zenon
<1>3. watermark' = watermark \/ (Message(p, o).valid /\ watermark' = Advanced(Message(p, o).event_ms))
  BY Zenon DEF IngestMalformed, IngestTrade
<1>5. \A k \in Keys : Past(k[2], watermark) => Past(k[2], watermark')
  <2>1. CASE watermark' = watermark
    BY <2>1, Zenon
  <2>2. CASE Message(p, o).valid /\ watermark' = Advanced(Message(p, o).event_ms)
    <3>1. Message(p, o).event_ms \in Times
      BY ReceiveFacts DEF Msg
    <3>2. QED
      BY <2>2, <3>1, WatermarkForward, Zenon
  <2>3. QED
    BY <1>3, <2>1, <2>2
<1>6. \A k \in Keys : WholeBar(k)' /\ FirstLast(bars[k])' /\ (MinutesInOrder => Below(k) \/ Above(k))'
  <2>1. \A k : Below(k)' = Below(k) /\ Above(k)' = Above(k)
    BY <1>1, <1>2, Zenon DEF Below, Above
  <2>2. QED
    BY <1>1, <1>2, <2>1, Zenon DEF WholeInv, WholeBar, FirstLast
<1>7. ASSUME NEW k \in Keys, <<p, o>> \notin TradesOf(k), windows'[k] = windows[k]
      PROVE  FirstLast(windows[k])' /\ (Settled(k) \/ Live(k))'
  <2>2. FirstLast(windows'[k]) /\ (Settled(k) \/ Live(k))
    BY <1>7, Zenon DEF WholeInv
  <2>3. FirstLast(windows[k])'
    BY <2>2, Zenon DEF FirstLast
  <2>4. QED
    BY <1>5, <1>7, <2>2, <2>3, OtherKeyStays, Zenon
<1>8. CASE IngestMalformed(p)
  <2>1. windows' = windows /\ ~Message(p, o).valid
    BY <1>8, Zenon DEF IngestMalformed
  <2>2. \A k \in Keys : <<p, o>> \notin TradesOf(k)
    BY <2>1, Zenon DEF TradesOf, Message
  <2>3. QED
    BY <1>1, <1>6, <1>7, <2>1, <2>2, Zenon DEF WholeInv
<1>9. CASE IngestTrade(p)
  <2>1. /\ Message(p, o).valid
        /\ windows' = [windows EXCEPT ![k0] = add(@, <<p, o>>)]
    BY <1>9, Zenon DEF IngestTrade
  <2>2. \A k \in Keys : k # k0 => <<p, o>> \notin TradesOf(k)
    BY Zenon DEF TradesOf
  <2>3. /\ windows'[k0] = add(windows[k0], <<p, o>>)
        /\ \A k \in Keys : k # k0 => windows'[k] = windows[k]
    BY <1>1, <2>1, Zenon
  <2>4. Live(k0) /\ <<p, o>> \in TradesOf(k0)
    BY <2>1, OwnKeyIsLive, Zenon
  <2>5. Live(k0)'
    <3>1. windows'[k0].members = windows[k0].members \cup {<<p, o>>}
      BY <2>3 DEF add
    <3>2. ASSUME NEW id \in TradesOf(k0)
          PROVE  id[2] < fetch'[id[1]] <=> id[2] < fetch[id[1]] \/ id = <<p, o>>
      <4>1. PICK q \in Partitions : \E i \in 0..(Len(log[q]) - 1) :
                 id = <<q, i>> /\ Message(q, i).valid /\ KeyOf(Message(q, i)) = k0
        BY TradesAre, Zenon
      <4>2. PICK i \in 0..(Len(log[q]) - 1) : id = <<q, i>>
        BY <4>1
      <4>3. i \in Nat
        OBVIOUS
      <4>4. CASE q = p
        <5>1. i < fetch'[p] <=> i < o \/ i = o
          BY <1>1, <4>3
        <5>2. QED
          BY <4>2, <4>4, <5>1
      <4>5. CASE q # p
        BY <1>1, <4>2, <4>5
      <4>6. QED
        BY <4>4, <4>5
    <3>3. windows'[k0].members = {id \in TradesOf(k0) : id[2] < fetch'[id[1]]}
      <4>1. windows[k0].members = {id \in TradesOf(k0) : id[2] < fetch[id[1]]}
        BY <2>4, Zenon DEF Live
      <4>2. \A id : id \in windows'[k0].members
                      <=> id \in {i \in TradesOf(k0) : i[2] < fetch'[i[1]]}
        BY <2>4, <3>1, <3>2, <4>1, Zenon
      <4>3. QED
        BY <4>2, Zenon
    <3>4. QED
      BY <1>2, <3>3, Zenon DEF Live
  <2>6. FirstLast(windows'[k0])
    <3>1. windows[k0] \in Bar /\ <<p, o>> \in Ids /\ FirstLast(windows[k0])
      BY <1>1, Zenon DEF WholeInv, Ids
    <3>2. windows[k0].trades = 0 => windows[k0].members = {}
      BY <1>1, Zenon DEF IInv, WindowsInv, IsOpen
    <3>3. ASSUME NEW i \in windows[k0].members PROVE i[2] < <<p, o>>[2]
      <4>1. i[2] < fetch[i[1]]
        BY <1>1, Zenon DEF ReadOnce
      <4>2. i[1] = p
        <5>1. i \in TradesOf(k0) /\ <<p, o>> \in TradesOf(k0)
          BY <2>4, <3>3, Zenon DEF Live
        <5>2. <<p, o>>[1] = Home(k0) /\ i[1] = Home(k0)
          <6>1. \A id \in TradesOf(k0) : id[1] = Home(k0)
            BY TradesAtHome DEF OrderInv
          <6>2. QED
            BY <5>1, <6>1, Zenon
        <5>3. QED
          BY <5>2
      <4>3. QED
        BY <4>1, <4>2
    <3>4. QED
      BY <2>3, <3>1, <3>2, <3>3, FirstLastAdd, Zenon
  <2>7. \A k \in Keys : FirstLast(windows[k])' /\ (Settled(k) \/ Live(k))'
    <3>1. FirstLast(windows[k0])'
      BY <2>6, Zenon DEF FirstLast, KeyOf
    <3>2. QED
      BY <1>7, <2>2, <2>3, <2>5, <3>1, Zenon
  <2>8. QED
    BY <1>1, <1>6, <2>7, Zenon DEF WholeInv
<1>10. QED
  BY <1>8, <1>9

-----------------------------------------------------------------------------
\* Writing: a window that is due has every trade of its minute.
LEMMA DueIsWhole ==
    ASSUME TypeOK, OrderInv, KeepsUp, WholeInv, NEW k \in Keys, Due(k)
    PROVE  windows[k].members = TradesOf(k) /\ Closed(k)
<1>1. IsOpen(k) /\ Past(k[2], watermark) /\ Live(k)
  BY Zenon DEF Due, WholeInv, Settled
<1>2. ASSUME NEW id \in TradesOf(k) PROVE id[2] < fetch[id[1]]
  <2>1. PICK q \in Partitions : \E i \in 0..(Len(log[q]) - 1) :
             id = <<q, i>> /\ Message(q, i).valid /\ KeyOf(Message(q, i)) = k
    BY TradesAre, Zenon
  <2>2. PICK i \in 0..(Len(log[q]) - 1) :
             id = <<q, i>> /\ Message(q, i).valid /\ KeyOf(Message(q, i)) = k
    BY <2>1
  <2>3. fetch[q] \in Nat /\ i \in Int
    BY DEF TypeOK
  <2>4. ~(fetch[q] <= i)
    BY <1>1, <2>2, UnreadNotPast, Zenon
  <2>5. QED
    BY <2>2, <2>3, <2>4
<1>3. windows[k].members = TradesOf(k)
  <2>1. \A id : id \in windows[k].members <=> id \in TradesOf(k)
    BY <1>1, <1>2, Zenon DEF Live
  <2>2. QED
    BY <2>1, Zenon
<1>4. Closed(k)
  BY <1>1, Zenon DEF OrderInv, WatermarkRead, Past, Closed
<1>5. QED
  BY <1>3, <1>4

LEMMA WholeWrite ==
    ASSUME TypeOK, OrderInv, KeepsUp, WholeInv, NEW k0 \in Keys, WriteWindow(k0)
    PROVE  WholeInv'
<1>1. /\ Due(k0) /\ pc = "windows" /\ pc' = pc /\ final' = final /\ faults' = faults
      /\ bars' = [bars EXCEPT ![k0] = windows[k0]] /\ windows' = [windows EXCEPT ![k0] = NoBar]
      /\ UNCHANGED <<log, committed, fetch, watermark>>
  BY Zenon DEF WriteWindow, kafka, budget
<1>2. windows \in [Keys -> Bar] /\ bars \in [Keys -> Bar]
  BY Zenon DEF TypeOK
<1>3. /\ bars'[k0] = windows[k0] /\ windows'[k0] = NoBar
      /\ \A k \in Keys : k # k0 => bars'[k] = bars[k] /\ windows'[k] = windows[k]
  BY <1>1, <1>2, Zenon
<1>4. /\ MinutesInOrder' <=> MinutesInOrder
      /\ \A k : TradesOf(k)' = TradesOf(k) /\ (Closed(k) => Closed(k)')
  BY <1>1, LogFrame, Zenon
<1>6. \A k : (Below(k) => Below(k)') /\ (Above(k) => Above(k)')
  BY <1>1, <1>4, Zenon DEF Below, Above
<1>7. /\ FirstLast(windows[k0])' /\ FirstLast(bars[k0])' /\ WholeBar(k0)' /\ Settled(k0)'
  <2>1. windows[k0].members = TradesOf(k0) /\ Closed(k0)
    BY <1>1, DueIsWhole
  <2>2. windows[k0].trades # 0 /\ Past(k0[2], watermark)
    BY <1>1, Zenon DEF Due, IsOpen
  <2>3. NoBar.trades = 0
    BY NoBarFirstLast
  <2>4. FirstLast(windows'[k0]) /\ FirstLast(bars'[k0])
    BY <1>3, NoBarFirstLast, Zenon DEF WholeInv
  <2>5. WholeBar(k0)'
    BY <1>3, <1>4, <2>1, Zenon DEF WholeBar
  <2>6. Settled(k0)'
    BY <1>1, <1>3, <2>2, <2>3, Zenon DEF Settled, IsOpen
  <2>7. QED
    BY <2>4, <2>5, <2>6, Zenon DEF FirstLast
<1>8. ASSUME NEW k \in Keys, k # k0
      PROVE  /\ FirstLast(windows[k])' /\ FirstLast(bars[k])' /\ WholeBar(k)'
             /\ (Settled(k) \/ Live(k))'
  <2>1. bars'[k] = bars[k] /\ windows'[k] = windows[k]
    BY <1>3, <1>8, Zenon
  <2>2. FirstLast(windows[k])' /\ FirstLast(bars[k])' /\ WholeBar(k)'
    BY <1>4, <2>1, Zenon DEF WholeInv, FirstLast, WholeBar
  <2>3. Settled(k) => Settled(k)'
    BY <1>1, <1>6, <2>1, Zenon DEF Settled, IsOpen
  <2>4. Live(k) => Live(k)'
    BY <1>1, <1>4, <2>1, Zenon DEF Live
  <2>5. QED
    BY <2>2, <2>3, <2>4, Zenon DEF WholeInv
<1>9. QED
  BY <1>1, <1>4, <1>6, <1>7, <1>8, Zenon DEF WholeInv

-----------------------------------------------------------------------------
\* Dying and committing: where the commit parts the log, it parts no minute, and
\* what it has passed is in a bar.
Parted(k) == Above(k) \/ (Below(k) /\ bars[k].trades # 0)

LEMMA CommitParts ==
    ASSUME TypeOK, IInv, ReadOnce, WholeInv, MinutesInOrder, NEW k \in Keys
    PROVE  Parted(k)
<1>1. Below(k) \/ Above(k)
  BY Zenon DEF WholeInv
<1>2. CASE Settled(k)
  BY <1>1, <1>2, Zenon DEF Settled, Parted
<1>3. CASE Live(k)
  BY <1>1, <1>3, LiveIsAbove, Zenon DEF Parted
<1>4. QED
  BY <1>2, <1>3, Zenon DEF WholeInv

LEMMA WholeDie ==
    ASSUME TypeOK, TypeOK', WholeInv, Die, log' = log, bars' = bars,
           \A k \in Keys : Parted(k)'
    PROVE  WholeInv'
<1>1. /\ pc' = "down" /\ final' = FALSE /\ fetch' = committed' /\ windows' = NoWindows
  BY Zenon DEF Die
<1>2. \A k : TradesOf(k)' = TradesOf(k) /\ (Closed(k) => Closed(k)')
  BY LogFrame, Zenon
<1>4. ASSUME NEW k \in Keys
      PROVE  /\ FirstLast(windows[k])' /\ FirstLast(bars[k])' /\ WholeBar(k)'
             /\ (Settled(k) \/ Live(k))'
  <2>1. windows'[k] = NoBar /\ NoBar.trades = 0 /\ NoBar.members = {} /\ FirstLast(NoBar)
    BY <1>1, NoBarFirstLast, Zenon DEF NoWindows
  <2>2. FirstLast(windows[k])'
    BY <2>1, Zenon DEF FirstLast
  <2>3. FirstLast(bars[k])' /\ WholeBar(k)'
    BY <1>2, Zenon DEF WholeInv, FirstLast, WholeBar
  <2>4. CASE (Below(k) /\ bars[k].trades # 0)'
    BY <2>1, <2>2, <2>3, <2>4, Zenon DEF Settled, IsOpen
  <2>5. CASE Above(k)'
    <3>1. ASSUME NEW id \in TradesOf(k)' PROVE ~(id[2] < fetch'[id[1]])
      <4>1. id \in TradesOf(k)
        BY <1>2, Zenon
      <4>2. PICK q \in Partitions : \E i \in 0..(Len(log[q]) - 1) :
                 id = <<q, i>> /\ Message(q, i).valid /\ KeyOf(Message(q, i)) = k
        BY <4>1, TradesAre, Zenon
      <4>3. PICK i \in 0..(Len(log[q]) - 1) : id = <<q, i>>
        BY <4>2
      <4>4. committed'[id[1]] <= id[2]
        BY <2>5, <3>1, Zenon DEF Above
      <4>5. committed'[q] \in Nat /\ i \in Int /\ fetch'[q] = committed'[q]
        BY <1>1 DEF TypeOK
      <4>6. QED
        BY <4>3, <4>4, <4>5
    <3>2. {id \in TradesOf(k)' : id[2] < fetch'[id[1]]} = {}
      BY <3>1, Zenon
    <3>3. Live(k)'
      BY <2>1, <3>2, Zenon DEF Live
    <3>4. QED
      BY <2>2, <2>3, <3>3, Zenon
  <2>6. QED
    BY <2>4, <2>5, Zenon DEF Parted
<1>5. \A k \in Keys : (Below(k) \/ Above(k))'
  BY Zenon DEF Parted
<1>6. QED
  BY <1>1, <1>4, <1>5, Zenon DEF WholeInv

\* A commit passes no trade of a window it holds back, nor one that is unread.
LEMMA CommitLeavesLive ==
    ASSUME TypeOK, IInv, ReadOnce, CommitSafely, NEW k \in Keys, Live(k),
           NEW p \in Partitions, position[p] # NoOffset,
           NEW o \in 0..(Len(log[p]) - 1), <<p, o>> \in TradesOf(k)
    PROVE  committed'[p] <= o
<1>1. committed'[p] = safe_offsets(p) /\ position[p] = fetch[p] /\ fetch[p] \in Nat
  BY Zenon DEF CommitSafely, ReadOnce, TypeOK
<1>2. /\ safe_offsets(p) \in Nat /\ safe_offsets(p) <= fetch[p]
      /\ offsets[k][p] # NoOffset => safe_offsets(p) <= offsets[k][p]
  BY <1>1, SafeOffset, Zenon
<1>3. CASE o < fetch[p]
  <2>1. <<p, o>>[2] < fetch[<<p, o>>[1]]
    BY <1>3
  <2>2. <<p, o>> \in windows[k].members
    BY <2>1, Zenon DEF Live
  <2>3. offsets[k][<<p, o>>[1]] # NoOffset /\ offsets[k][<<p, o>>[1]] <= <<p, o>>[2]
    BY <2>2, Zenon DEF IInv, WindowsInv
  <2>4. offsets[k][p] # NoOffset /\ offsets[k][p] <= o /\ offsets[k][p] \in Nat \cup {NoOffset}
    BY <2>3 DEF TypeOK
  <2>5. QED
    BY <1>1, <1>2, <2>4
<1>4. CASE ~(o < fetch[p])
  BY <1>1, <1>2, <1>4
<1>5. QED
  BY <1>3, <1>4

\* With minutes in order, a key that is past lies before every window that is not, so
\* before the offset a window holds the commit back to.
LEMMA PastBeforeOpen ==
    ASSUME TypeOK, IInv, WholeInv, MinutesInOrder, NEW p \in Partitions,
           NEW k \in Keys, Past(k[2], watermark),
           NEW k0 \in Keys, ~Due(k0), NEW a \in Nat, <<p, a>> \in windows[k0].members,
           NEW o \in 0..(Len(log[p]) - 1), Message(p, o).valid, KeyOf(Message(p, o)) = k
    PROVE  o < a
<1>1. IsOpen(k0) /\ ~Past(k0[2], watermark)
  BY Zenon DEF Due, IInv, WindowsInv
<1>2. Live(k0)
  BY <1>1, Zenon DEF WholeInv, Settled
<1>3. <<p, a>> \in TradesOf(k0)
  BY <1>2, Zenon DEF Live
<1>4. a \in 0..(Len(log[p]) - 1) /\ Message(p, a).valid /\ KeyOf(Message(p, a)) = k0
  <2>1. PICK q \in Partitions : \E i \in 0..(Len(log[q]) - 1) :
             <<p, a>> = <<q, i>> /\ Message(q, i).valid /\ KeyOf(Message(q, i)) = k0
    BY <1>3, TradesAre, Zenon
  <2>2. PICK i \in 0..(Len(log[q]) - 1) :
             <<p, a>> = <<q, i>> /\ Message(q, i).valid /\ KeyOf(Message(q, i)) = k0
    BY <2>1
  <2>3. p = q /\ a = i
    BY <2>2
  <2>4. QED
    BY <2>2, <2>3, Zenon
<1>5. SUFFICES ASSUME ~(o < a) PROVE FALSE
  OBVIOUS
<1>6. a # o
  BY <1>1, <1>4, Zenon
<1>7. a < o
  BY <1>5, <1>6
<1>8. /\ k0[2] = minute_of(Message(p, a).event_ms) /\ k[2] = minute_of(Message(p, o).event_ms)
      /\ k[2] \in Minutes /\ k0[2] \in Minutes
  BY <1>4 DEF KeyOf, Keys
<1>9. k0[2] <= k[2]
  BY <1>4, <1>7, <1>8, Zenon DEF MinutesInOrder
<1>10. WindowEnd(k0[2]) <= WindowEnd(k[2])
  BY <1>8, <1>9, LaterWindowEnd
<1>11. WindowEnd(k[2]) \in Int /\ WindowEnd(k0[2]) \in Int
  BY <1>8, WindowEndInt
<1>12. Past(k0[2], watermark)
  BY <1>10, <1>11, TimeAssumption DEF Past, TypeOK, Times, NoTime
<1>13. QED
  BY <1>1, <1>12

LEMMA CommitLeavesParted ==
    ASSUME TypeOK, IInv, ReadOnce, OrderInv, KeepsUp, WholeInv, MinutesInOrder, CommitSafely,
           NEW k \in Keys
    PROVE  Parted(k)'
<1>1. log' = log /\ bars' = bars /\ \A j \in Keys : ~Due(j)
  BY Zenon DEF CommitSafely, store, WholeInv
<1>2. TradesOf(k)' = TradesOf(k)
  BY <1>1, LogFrame, Zenon
<1>3. Parted(k)
  BY CommitParts
<1> DEFINE AboveNext == \A id \in TradesOf(k) : committed'[id[1]] <= id[2]
           BelowNext == \A id \in TradesOf(k) : id[2] < committed'[id[1]]
<1>4. SUFFICES AboveNext \/ (BelowNext /\ bars[k].trades # 0)
  BY <1>1, <1>2, Zenon DEF Parted, Above, Below
<1>5. SUFFICES ASSUME TradesOf(k) # {} PROVE AboveNext \/ (BelowNext /\ bars[k].trades # 0)
  BY Zenon
<1> PICK p \in Partitions : p = Home(k)
  BY <1>5, TradesAtHome, Zenon DEF OrderInv
<1>6. \A id \in TradesOf(k) : \E i \in 0..(Len(log[p]) - 1) :
         id = <<p, i>> /\ Message(p, i).valid /\ KeyOf(Message(p, i)) = k
  BY TradesAtHome, Zenon DEF OrderInv
<1>7. CASE position[p] = NoOffset
  <2>1. committed'[p] = committed[p]
    BY <1>7, Zenon DEF CommitSafely
  <2>2. \A id \in TradesOf(k) : id[1] = p
    BY <1>6
  <2>3. QED
    BY <1>3, <2>1, <2>2, Zenon DEF Parted, Above, Below
<1>8. CASE position[p] # NoOffset
  <2>1. CASE Live(k)
    <3>1. ASSUME NEW id \in TradesOf(k) PROVE committed'[id[1]] <= id[2]
      <4>1. PICK i \in 0..(Len(log[p]) - 1) : id = <<p, i>>
        BY <1>6, Zenon
      <4>2. committed'[p] <= i
        BY <1>8, <2>1, <4>1, CommitLeavesLive, Zenon
      <4>3. QED
        BY <4>1, <4>2
    <3>2. QED
      BY <3>1, Zenon
  <2>2. CASE Settled(k) /\ Below(k)
    <3>1. ASSUME NEW id \in TradesOf(k) PROVE id[2] < committed'[id[1]]
      <4>1. PICK i \in 0..(Len(log[p]) - 1) : id = <<p, i>>
        BY <1>6, Zenon
      <4>2. committed[p] <= committed'[p] /\ committed[p] \in Nat /\ committed'[p] \in Nat
        <5>1. committed[p] <= committed'[p] /\ committed[p] \in Nat
          BY CommitMoves, Zenon DEF TypeOK
        <5>2. committed'[p] = safe_offsets(p)
          BY <1>8, Zenon DEF CommitSafely
        <5>3. QED
          BY <1>8, <5>1, <5>2, SafeOffset, Zenon
      <4>3. id[2] < committed[id[1]]
        BY <2>2, Zenon DEF Below
      <4>4. QED
        BY <4>1, <4>2, <4>3
    <3>2. QED
      BY <2>2, <3>1, Zenon DEF Settled
  <2>3. CASE Settled(k) /\ Past(k[2], watermark)
    <3>1. ASSUME NEW id \in TradesOf(k) PROVE id[2] < committed'[id[1]]
      <4>1. PICK i \in 0..(Len(log[p]) - 1) :
                 id = <<p, i>> /\ Message(p, i).valid /\ KeyOf(Message(p, i)) = k
        BY <1>6, Zenon
      <4>2. committed'[p] = safe_offsets(p) /\ position[p] = fetch[p] /\ fetch[p] \in Nat
        BY <1>8, Zenon DEF CommitSafely, ReadOnce, TypeOK
      <4>3. CASE safe_offsets(p) = position[p]
        <5>1. ~(fetch[p] <= i)
          BY <2>3, <4>1, UnreadNotPast, Zenon
        <5>2. QED
          BY <4>1, <4>2, <4>3, <5>1
      <4>4. CASE \E k0 \in Keys : offsets[k0][p] # NoOffset /\ safe_offsets(p) = offsets[k0][p]
        <5>1. PICK k0 \in Keys : offsets[k0][p] # NoOffset /\ safe_offsets(p) = offsets[k0][p]
          BY <4>4
        <5>2. <<p, offsets[k0][p]>> \in windows[k0].members /\ offsets[k0][p] \in Nat
          <6>1. <<p, offsets[k0][p]>> \in windows[k0].members
            BY <5>1, Zenon DEF IInv, WindowsInv
          <6>2. offsets[k0][p] \in Nat
            BY <5>1 DEF TypeOK
          <6>3. QED
            BY <6>1, <6>2
        <5>3. i < offsets[k0][p]
          BY <1>1, <2>3, <4>1, <5>2, PastBeforeOpen, Zenon
        <5>4. QED
          BY <4>1, <4>2, <5>1, <5>3
      <4>5. QED
        BY <1>8, <4>3, <4>4, SafeOffset, Zenon
    <3>2. QED
      BY <2>3, <3>1, Zenon DEF Settled
  <2>4. QED
    BY <2>1, <2>2, <2>3, Zenon DEF WholeInv, Settled
<1>9. QED
  BY <1>7, <1>8, Zenon

LEMMA WholeCommit ==
    ASSUME TypeOK, TypeOK', IInv, ReadOnce, OrderInv, KeepsUp, FaultsInOrder, WholeInv, CommitSafely
    PROVE  WholeInv'
<1>1. log' = log /\ bars' = bars /\ faults' = faults
  BY Zenon DEF CommitSafely, store, budget
<1>2. CASE final
  <2>1. Die
    BY <1>2, Zenon DEF CommitSafely
  <2>2. MinutesInOrder
    BY <1>2, Zenon DEF FaultsInOrder, WholeInv
  <2>3. \A k \in Keys : Parted(k)'
    BY <2>2, CommitLeavesParted, Zenon
  <2>4. QED
    BY <1>1, <2>1, <2>3, WholeDie
<1>3. CASE ~final
  <2>1. UNCHANGED <<windows, watermark, final, fetch>> /\ pc' = "poll"
    BY <1>3, Zenon DEF CommitSafely, memory
  <2>2. /\ MinutesInOrder' <=> MinutesInOrder
        /\ \A k : TradesOf(k)' = TradesOf(k) /\ (Closed(k) => Closed(k)')
    BY <1>1, LogFrame, Zenon
  <2>4. ASSUME NEW k \in Keys
        PROVE  FirstLast(windows[k])' /\ FirstLast(bars[k])' /\ WholeBar(k)' /\ (Live(k) => Live(k)')
    BY <1>1, <2>1, <2>2, Zenon DEF WholeInv, FirstLast, WholeBar, Live
  <2>5. ASSUME NEW k \in Keys, Below(k) PROVE Below(k)'
    <3>1. ASSUME NEW id \in TradesOf(k) PROVE id[2] < committed'[id[1]]
      <4>1. PICK q \in Partitions : \E i \in 0..(Len(log[q]) - 1) :
                 id = <<q, i>> /\ Message(q, i).valid /\ KeyOf(Message(q, i)) = k
        BY TradesAre, Zenon
      <4>2. PICK i \in 0..(Len(log[q]) - 1) : id = <<q, i>>
        BY <4>1
      <4>3. committed[q] <= committed'[q] /\ committed[q] \in Nat /\ committed'[q] \in Nat
        BY CommitMoves, Zenon DEF TypeOK
      <4>4. id[2] < committed[id[1]]
        BY <2>5, Zenon DEF Below
      <4>5. QED
        BY <4>2, <4>3, <4>4
    <3>2. QED
      BY <2>2, <3>1, Zenon DEF Below
  <2>6. \A k \in Keys : Settled(k) => Settled(k)'
    BY <1>1, <2>1, <2>5, Zenon DEF Settled, IsOpen
  <2>7. \A k \in Keys : (MinutesInOrder => Below(k) \/ Above(k))'
    BY <2>2, CommitLeavesParted, Zenon DEF Parted
  <2>8. QED
    BY <1>1, <2>1, <2>4, <2>6, <2>7, Zenon DEF WholeInv
<1>4. QED
  BY <1>2, <1>3

LEMMA WholeEnterFinally ==
    ASSUME WholeInv, EnterFinally, UNCHANGED <<log, bars>>, faults' # 0
    PROVE  WholeInv'
<1>1. pc' = "windows" /\ UNCHANGED <<committed, fetch, windows, watermark>>
  BY Zenon DEF EnterFinally, BeginFlush, memory
<1>2. pc' \notin {"late", "commit"} /\ (faults = 0 => ~final)'
  BY <1>1
<1>3. QED
  BY <1>1, <1>2, WholeStays, Zenon

LEMMA WholeIngest ==
    ASSUME TypeOK, IInv, ReadOnce, OrderInv, KeepsUp, WholeInv,
           NEW p \in Partitions, Ingest(p)
    PROVE  WholeInv'
<1>1. Receive(p)
  BY Zenon DEF Ingest, IngestMalformed, IngestLate, IngestTrade
<1>2. CASE IngestMalformed(p) \/ IngestTrade(p)
  BY <1>1, <1>2, WholeRead, Zenon
<1>3. CASE IngestLate(p)
  <2>1. /\ Message(p, fetch[p]).valid
        /\ Gone(KeyOf(Message(p, fetch[p])), Advanced(Message(p, fetch[p]).event_ms))
    BY <1>3, Zenon DEF IngestLate
  <2>2. /\ ~Past(KeyOf(Message(p, fetch[p]))[2], watermark)
        /\ ~Past(KeyOf(Message(p, fetch[p]))[2], Advanced(Message(p, fetch[p]).event_ms))
    BY <1>1, <2>1, OwnKeyIsLive, Zenon
  <2>3. QED
    BY <2>1, <2>2, Zenon DEF Gone, IInv, WrittenStaysGone
<1>4. QED
  BY <1>2, <1>3, Zenon DEF Ingest

LEMMA WholeStep ==
    InGrace /\ TypeOK /\ TypeOK' /\ IInv /\ ReadOnce /\ OrderInv /\ WholeInv
    /\ KeepsUp /\ FaultsInOrder /\ FaultsInOrder' /\ NoRejoins' /\ [Next]_vars => WholeInv'
<1> SUFFICES ASSUME InGrace, TypeOK, TypeOK', IInv, ReadOnce, OrderInv, WholeInv,
                    KeepsUp, FaultsInOrder, FaultsInOrder', NoRejoins', [Next]_vars
             PROVE  WholeInv'
  OBVIOUS
<1>1. CASE \E s \in Symbols : (\E t \in Times : Publish(s, t)) \/ PublishMalformed(s)
  BY <1>1, Published, WholePublish, Zenon
<1>2. CASE \E p \in Partitions : Ingest(p)
  BY <1>2, WholeIngest, Zenon
<1>3. CASE StartFlush
  <2>1. pc' = "windows" /\ UNCHANGED <<final, faults, log, committed, fetch, windows, bars, watermark>>
    BY <1>3, Zenon DEF StartFlush, BeginFlush, kafka, store, memory, budget
  <2>2. pc' \notin {"late", "commit"}
    BY <2>1
  <2>3. QED
    BY <2>1, <2>2, WholeStays, Zenon DEF WholeInv
<1>4. CASE EndWindows
  <2>1. (\A k \in Keys : ~Due(k))
        /\ UNCHANGED <<final, faults, log, committed, fetch, windows, bars, watermark>>
    BY <1>4, Zenon DEF EndWindows, kafka, store, budget
  <2>2. QED
    BY <2>1, WholeStays, Zenon DEF WholeInv
<1>5. CASE \E k \in Keys : WriteLate(k)
  <2>1. UNCHANGED <<pc, final, faults, log, committed, fetch, windows, bars, watermark>>
    BY <1>5, Zenon DEF WriteLate, kafka, memory, budget
  <2>2. QED
    BY <2>1, WholeStays, Zenon DEF WholeInv
<1>6. CASE EndFlush
  <2>1. pc = "late" /\ UNCHANGED <<final, faults, log, committed, fetch, windows, bars, watermark>>
    BY <1>6, Zenon DEF EndFlush, kafka, store, budget
  <2>2. \A k \in Keys : ~Due(k)
    BY <2>1, Zenon DEF WholeInv
  <2>3. QED
    BY <2>1, <2>2, WholeStays, Zenon DEF WholeInv
<1>7. CASE \E k \in Keys : WriteWindow(k)
  BY <1>7, WholeWrite, Zenon
<1>8. CASE CommitSafely
  BY <1>8, WholeCommit
<1>9. CASE Stop \/ PutFails \/ CommitFails \/ Crash
  <2>1. faults' # 0
    <3>1. faults \in Nat /\ faults' = faults + 1
      BY <1>9, Zenon DEF Stop, PutFails, CommitFails, Crash, Fault, TypeOK
    <3>2. QED
      BY <3>1
  <2>2. UNCHANGED <<log, bars>>
    BY <1>9, Zenon DEF Stop, PutFails, CommitFails, Crash, store, kafka
  <2>3. EnterFinally \/ (Die /\ committed' = committed)
    BY <1>9, Zenon DEF Stop, PutFails, CommitFails, Crash, kafka
  <2>4. CASE EnterFinally
    BY <2>1, <2>2, <2>4, WholeEnterFinally, Zenon
  <2>5. CASE Die /\ committed' = committed
    <3>1. MinutesInOrder
      <4>1. MinutesInOrder'
        BY <2>1, Zenon DEF FaultsInOrder
      <4>2. QED
        BY <2>2, <4>1, LogFrame, Zenon
    <3>2. \A k : TradesOf(k)' = TradesOf(k)
      BY <2>2, LogFrame, Zenon
    <3>3. \A k \in Keys : Parted(k)'
      BY <2>2, <2>5, <3>1, <3>2, CommitParts, Zenon DEF Parted, Above, Below
    <3>4. QED
      BY <2>2, <2>5, <3>3, WholeDie
  <2>6. QED
    BY <2>3, <2>4, <2>5
<1>10. CASE Restart
  <2>1. pc' = "poll" /\ UNCHANGED <<final, faults, log, committed, fetch, windows, bars, watermark>>
    BY <1>10, Zenon DEF Restart, kafka, store, memory, budget
  <2>2. pc' \notin {"late", "commit"}
    BY <2>1
  <2>3. QED
    BY <2>1, <2>2, WholeStays, Zenon DEF WholeInv
<1>11. CASE Rejoin
  BY <1>11, RejoinCounts
<1>12. CASE UNCHANGED vars
  <2>1. UNCHANGED <<pc, final, faults, log, committed, fetch, windows, bars, watermark>>
    BY <1>12, Zenon DEF vars, kafka, store, memory, control, budget
  <2>2. QED
    BY <2>1, WholeStays, Zenon DEF WholeInv
<1>13. QED
  BY <1>1, <1>2, <1>3, <1>4, <1>5, <1>6, <1>7, <1>8, <1>9, <1>10, <1>11, <1>12,
     Zenon DEF Next, FlushStep

LEMMA WholeAlways ==
    ASSUME InGrace
    PROVE  Spec /\ []NoRejoins /\ []KeepsUp /\ []FaultsInOrder =>
             [](TypeOK /\ IInv /\ ReadOnce /\ OrderInv /\ WholeInv)
<1>1. Init => WholeInv
  BY WholeInit
<1>2. /\ TypeOK /\ TypeOK' /\ IInv /\ ReadOnce /\ OrderInv /\ WholeInv
      /\ KeepsUp /\ FaultsInOrder /\ FaultsInOrder' /\ NoRejoins' /\ [Next]_vars
      => WholeInv'
  BY InGrace, WholeStep
<1>3. QED
  BY <1>1, <1>2, OrderAlways, PTL DEF Spec

\* Over any partitions whose symbols trail each other by no more than the grace
\* period, a process that keeps up with all of them stores whole candles: with no
\* faults at any such order, and through crashes, failed puts and failed commits
\* while minutes are in order.
THEOREM StoredBarsAreWhole ==
    ASSUME InGrace
    PROVE  Spec /\ []NoRejoins /\ []KeepsUp /\ []FaultsInOrder => []BarsWhole
<1>1. ReadOnce /\ WholeInv => BarsWhole
  BY Zenon DEF ReadOnce, Counted, WholeInv, WholeBar, FirstLast, BarsWhole
<1>2. QED
  BY <1>1, WholeAlways, PTL

\* Under the same conditions what the commit has passed is in its bar: a trade below
\* the commit is in no window, so its key is settled and its bar is whole.
THEOREM CommittedTradesAreInBars ==
    ASSUME InGrace
    PROVE  Spec /\ []NoRejoins /\ []KeepsUp /\ []FaultsInOrder => []CommittedInBars
<1>1. TypeOK /\ IInv /\ ReadOnce /\ WholeInv => CommittedInBars
  <2> SUFFICES ASSUME TypeOK, IInv, ReadOnce, WholeInv, NEW p \in Partitions,
                      NEW o \in 0..(committed[p] - 1), Message(p, o).valid
               PROVE  <<p, o>> \in bars[KeyOf(Message(p, o))].members
    BY Zenon DEF CommittedInBars
  <2>1. PICK k : k = KeyOf(Message(p, o))
    OBVIOUS
  <2>2. committed[p] \in Nat /\ committed[p] <= fetch[p] /\ fetch[p] \in Nat
    BY Zenon DEF TypeOK, ReadOnce
  <2>3. Len(log[p]) \in Nat /\ fetch[p] <= Len(log[p])
    BY FetchInLog
  <2>4. o \in 0..(Len(log[p]) - 1) /\ o < committed[p] /\ o < fetch[p]
    BY <2>2, <2>3
  <2>5. k \in Keys
    BY <2>1, <2>4, MessageIsMsg, KeyOfMsg, Zenon
  <2>6. <<p, o>> \in TradesOf(k)
    BY <2>1, <2>4, TradesAre, Zenon
  <2>7. ~Live(k)
    <3> SUFFICES ASSUME Live(k) PROVE FALSE
      OBVIOUS
    <3>1. <<p, o>>[2] < fetch[<<p, o>>[1]]
      BY <2>4
    <3>2. <<p, o>> \in windows[k].members
      BY <2>6, <3>1, Zenon DEF Live
    <3>3. committed[<<p, o>>[1]] <= <<p, o>>[2]
      BY <2>5, <3>2, Zenon DEF IInv, CommitBelowOpenWindows
    <3>4. QED
      BY <2>2, <2>4, <3>3
  <2>8. bars[k].trades # 0 /\ WholeBar(k)
    BY <2>5, <2>7, Zenon DEF WholeInv, Settled
  <2>9. QED
    BY <2>1, <2>6, <2>8, Zenon DEF WholeBar
<1>2. QED
  BY <1>1, WholeAlways, PTL

\* Two bars of the same trades of one partition, whole and counted once, are the same
\* bar.
LEMMA SameTradesSameBar ==
    ASSUME NEW a \in Bar, NEW b \in Bar, Counted(a), Counted(b), NEW p, \A i \in a.members : i[1] = p,
           FirstLast(a), FirstLast(b), a.trades # 0, b.trades # 0, a.members = b.members
    PROVE  a = b
<1>1. a.trades = b.trades
  BY Zenon DEF Counted
<1>2. /\ a.first_trade_id \in a.members /\ b.first_trade_id \in a.members
      /\ a.last_trade_id \in a.members /\ b.last_trade_id \in a.members
      /\ a.first_trade_id[2] <= b.first_trade_id[2] /\ b.first_trade_id[2] <= a.first_trade_id[2]
      /\ a.last_trade_id[2] <= b.last_trade_id[2] /\ b.last_trade_id[2] <= a.last_trade_id[2]
  BY Zenon DEF FirstLast
<1>3. ASSUME NEW i \in a.members, NEW j \in a.members, i[2] <= j[2], j[2] <= i[2] PROVE i = j
  <2>1. i = <<i[1], i[2]>> /\ j = <<j[1], j[2]>> /\ i[2] \in Nat /\ j[2] \in Nat
    BY DEF Ids, Bar
  <2>2. i[1] = j[1]
    BY Zenon
  <2>3. i[2] = j[2]
    BY <1>3, <2>1
  <2>4. QED
    BY <2>1, <2>2, <2>3, Zenon
<1>4. a.first_trade_id = b.first_trade_id /\ a.last_trade_id = b.last_trade_id
  BY <1>2, <1>3, Zenon
<1>5. QED
  BY <1>1, <1>4 DEF Bar

\* What is known at every step of a run that keeps up and meets faults in order only.
WholeState == TypeOK /\ IInv /\ ReadOnce /\ OrderInv /\ WholeInv

LEMMA BarsMove ==
    ASSUME [Next]_vars
    PROVE  \/ UNCHANGED <<log, bars>>
           \/ bars' = bars /\ \E s \in Symbols : (\E t \in Times : Publish(s, t)) \/ PublishMalformed(s)
           \/ log' = log /\ \E k \in Keys : WriteWindow(k)
BY Zenon DEF Next, Ingest, IngestMalformed, IngestLate, IngestTrade, Receive, Publish,
             PublishMalformed, AppendTo, StartFlush, FlushStep, WriteWindow, WriteLate, CommitSafely,
             EndWindows, EndFlush, Stop, PutFails, CommitFails, Crash, Restart, Rejoin,
             store, kafka, vars

\* A window is written over a bar of the same trades, or where no bar is yet.
LEMMA WriteIsFinal ==
    ASSUME WholeState, KeepsUp, NEW j \in Keys, WriteWindow(j)
    PROVE  /\ bars' = [bars EXCEPT ![j] = windows[j]]
           /\ windows[j].members = TradesOf(j) /\ windows[j].trades # 0 /\ windows[j] \in Bar
           /\ bars[j].trades # 0 => bars[j] = windows[j]
<1>1. /\ bars' = [bars EXCEPT ![j] = windows[j]] /\ Due(j)
      /\ bars \in [Keys -> Bar] /\ windows \in [Keys -> Bar]
  BY Zenon DEF WriteWindow, WholeState, TypeOK
<1>2. windows[j].trades # 0 /\ windows[j].members = TradesOf(j)
  BY <1>1, DueIsWhole, Zenon DEF Due, IsOpen, WholeState
<1>3. ASSUME bars[j].trades # 0 PROVE bars[j] = windows[j]
  <2>1. bars[j].members = TradesOf(j)
    BY <1>3, Zenon DEF WholeState, WholeInv, WholeBar
  <2>2. /\ bars[j] \in Bar /\ windows[j] \in Bar /\ Counted(bars[j]) /\ Counted(windows[j])
        /\ FirstLast(bars[j]) /\ FirstLast(windows[j])
    BY <1>1, Zenon DEF WholeState, ReadOnce, WholeInv
  <2>3. \A i \in bars[j].members : i[1] = Home(j)
    BY <2>1, TradesAtHome DEF WholeState, OrderInv
  <2>4. QED
    BY <1>2, <1>3, <2>1, <2>2, <2>3, SameTradesSameBar, Zenon
<1>4. QED
  BY <1>1, <1>2, <1>3, Zenon

\* Under the same conditions a bar on object storage is never overwritten with a
\* different one: what is written again after a crash is the same candle.
THEOREM StoredBarsAreFinal ==
    ASSUME InGrace
    PROVE  Spec /\ []NoRejoins /\ []KeepsUp /\ []FaultsInOrder => BarsAreFinal
<1>1. WholeState /\ KeepsUp /\ [Next]_vars =>
        [\A k \in Keys : bars[k].trades # 0 => bars'[k] = bars[k]]_vars
  <2> SUFFICES ASSUME WholeState, KeepsUp, [Next]_vars, NEW k \in Keys, bars[k].trades # 0
               PROVE  bars'[k] = bars[k]
    BY Zenon
  <2>1. ASSUME NEW j \in Keys, WriteWindow(j) PROVE bars'[k] = bars[k]
    BY <2>1, WriteIsFinal, Zenon DEF WholeState, TypeOK
  <2>2. QED
    BY <2>1, BarsMove, Zenon
<1>2. Spec /\ []NoRejoins /\ []KeepsUp /\ []FaultsInOrder => []WholeState
  BY WholeAlways DEF WholeState
<1>3. QED
  BY <1>1, <1>2, PTL DEF Spec, BarsAreFinal

-----------------------------------------------------------------------------
(* The aggregator implements Candles: the trades of a minute come before   *)
(* its candle, and the candle is of all of them.                           *)

LEMMA NoTradesNoMembers ==
    ASSUME ReadOnce, NEW k \in Keys
    PROVE  bars[k].trades = 0 <=> bars[k].members = {}
<1>1. Counted(bars[k])
  BY Zenon DEF ReadOnce
<1>2. QED
  BY <1>1, FS_EmptySet, Zenon DEF Counted

LEMMA PublishIsTrade ==
    ASSUME InGrace, WholeState, bars' = bars, NEW p \in Partitions, NEW msg \in Msg, AppendTo(p, msg),
           msg.valid => \A q \in Partitions : \A o \in 0..(Len(log[q]) - 1) :
                           Message(q, o).event_ms <= msg.event_ms + Skew
    PROVE  Minute!Next \/ \A k \in Keys : TradesOf(k)' = TradesOf(k)
<1> SUFFICES ASSUME NEW k \in Keys, TradesOf(k)' # TradesOf(k) PROVE Minute!Next
  BY Zenon
<1>0. PICK n : n = <<p, Len(log[p])>>
  OBVIOUS
<1>1. \A j : /\ TradesOf(j) \subseteq TradesOf(j)'
             /\ \A id \in TradesOf(j)' : id \in TradesOf(j) \/ (id = n /\ msg.valid /\ KeyOf(msg) = j)
  BY <1>0, AppendAdds, TradesNextIs, Zenon DEF WholeState
<1>2. PICK id \in TradesOf(k)' : id \notin TradesOf(k)
  BY <1>1, Zenon
<1>3. id = n /\ msg.valid /\ KeyOf(msg) = k
  BY <1>1, <1>2, Zenon
<1>4. bars[k].members = {}
  <2>1. ~Closed(k)
    BY <1>3, ClosedIsClosed, Zenon DEF WholeState
  <2>2. bars[k].trades = 0
    BY <2>1, Zenon DEF WholeState, WholeInv, WholeBar
  <2>3. QED
    BY <2>2, NoTradesNoMembers, Zenon DEF WholeState
<1>5. TradesOf(k)' = TradesOf(k) \cup {id}
  BY <1>1, <1>2, <1>3, Zenon
<1>6. \A j \in Keys : j # k => TradesOf(j)' = TradesOf(j)
  BY <1>1, <1>3, Zenon
<1>7. [j \in Keys |-> TradesOf(j)]' =
        [[j \in Keys |-> TradesOf(j)] EXCEPT ![k] = @ \cup {id}]
  BY <1>5, <1>6, Zenon
<1>8. [j \in Keys |-> bars[j].members]' = [j \in Keys |-> bars[j].members]
  BY Zenon
<1>9. Minute!Trade(k)
  BY <1>2, <1>4, <1>7, <1>8, Zenon DEF Minute!Trade
<1>10. QED
  BY <1>9, Zenon DEF Minute!Next

LEMMA WriteIsStore ==
    ASSUME WholeState, KeepsUp, log' = log, NEW j \in Keys, WriteWindow(j)
    PROVE  Minute!Next \/ \A k \in Keys : bars'[k] = bars[k]
<1> SUFFICES ASSUME NEW i \in Keys, bars'[i] # bars[i] PROVE Minute!Next
  BY Zenon
<1>1. /\ bars' = [bars EXCEPT ![j] = windows[j]] /\ bars \in [Keys -> Bar]
      /\ windows[j].members = TradesOf(j) /\ windows[j].trades # 0
      /\ bars[j].trades # 0 => bars[j] = windows[j]
  BY WriteIsFinal, Zenon DEF WholeState, TypeOK
<1>2. bars[j].members = {}
  BY <1>1, NoTradesNoMembers, Zenon DEF WholeState
<1>3. TradesOf(j) # {}
  <2>1. Counted(windows[j])
    BY Zenon DEF WholeState, ReadOnce
  <2>2. QED
    BY <1>1, <2>1, FS_EmptySet, Zenon DEF Counted
<1>4. [k \in Keys |-> TradesOf(k)]' = [k \in Keys |-> TradesOf(k)]
  BY LogFrame, Zenon
<1>5. [k \in Keys |-> bars[k].members]' =
        [[k \in Keys |-> bars[k].members] EXCEPT ![j] = TradesOf(j)]
  BY <1>1, Zenon
<1>6. Minute!Store(j)
  BY <1>2, <1>3, <1>4, <1>5, Zenon DEF Minute!Store
<1>7. QED
  BY <1>6, Zenon DEF Minute!Next

\* Under the same conditions the aggregator implements Candles: a trade is published
\* for a minute that has no candle, and a minute's candle is stored once, of all its
\* trades.
THEOREM ImplementsCandles ==
    ASSUME InGrace
    PROVE  Spec /\ []NoRejoins /\ []KeepsUp /\ []FaultsInOrder => StoresCandles
<1>1. Init => Minute!Init
  <2> SUFFICES ASSUME Init PROVE Minute!Init
    OBVIOUS
  <2>1. \A k \in Keys : bars[k].members = {}
    BY NoBarFirstLast, Zenon DEF Init, NoWindows
  <2>2. \A k \in Keys : TradesOf(k) = {}
    <3> SUFFICES ASSUME NEW k \in Keys, NEW id \in TradesOf(k) PROVE FALSE
      BY Zenon
    <3>1. PICK p \in Partitions : \E o \in 0..(Len(log[p]) - 1) :
               id = <<p, o>> /\ Message(p, o).valid /\ KeyOf(Message(p, o)) = k
      BY TradesAre, Zenon
    <3>2. log[p] = << >>
      BY Zenon DEF Init
    <3>3. QED
      BY <3>1, <3>2
  <2>3. QED
    BY <2>1, <2>2, Zenon DEF Minute!Init
<1>2. WholeState /\ KeepsUp /\ [Next]_vars =>
        [Minute!Next]_<<[k \in Keys |-> TradesOf(k)], [k \in Keys |-> bars[k].members]>>
  <2> SUFFICES ASSUME WholeState, KeepsUp, [Next]_vars
               PROVE  \/ Minute!Next
                      \/ /\ [k \in Keys |-> TradesOf(k)]' = [k \in Keys |-> TradesOf(k)]
                         /\ [k \in Keys |-> bars[k].members]' = [k \in Keys |-> bars[k].members]
    BY Zenon
  <2>1. CASE UNCHANGED <<log, bars>>
    BY <2>1, LogFrame, Zenon
  <2>2. CASE bars' = bars /\ \E s \in Symbols : (\E t \in Times : Publish(s, t)) \/ PublishMalformed(s)
    <3>1. Minute!Next \/ \A k \in Keys : TradesOf(k)' = TradesOf(k)
      BY <2>2, Published, PublishIsTrade, InGrace, Zenon DEF WholeState
    <3>2. QED
      BY <2>2, <3>1, Zenon
  <2>3. CASE log' = log /\ \E k \in Keys : WriteWindow(k)
    <3>1. Minute!Next \/ \A k \in Keys : bars'[k] = bars[k]
      BY <2>3, WriteIsStore, Zenon
    <3>2. QED
      BY <2>3, <3>1, LogFrame, Zenon
  <2>4. QED
    BY <2>1, <2>2, <2>3, BarsMove, Zenon
<1>3. Spec /\ []NoRejoins /\ []KeepsUp /\ []FaultsInOrder => []WholeState
  BY WholeAlways DEF WholeState
<1>4. QED
  BY <1>1, <1>2, <1>3, PTL DEF Spec, StoresCandles, Minute!Spec

-----------------------------------------------------------------------------
(* Over one partition a process keeps up by itself, and nothing is late.   *)

OnePartition == \A p, q \in Partitions : p = q

\* Over one partition whose symbols trail each other by no more than the grace period
\* a process always keeps up, through faults of every kind: the watermark is the time
\* of a trade read before every unread one.
THEOREM OnePartitionKeepsUp ==
    ASSUME OnePartition, InGrace
    PROVE  Spec /\ []NoRejoins => []KeepsUp
<1>1. TypeOK /\ OrderInv => KeepsUp
  <2> SUFFICES ASSUME TypeOK, OrderInv, NEW p \in Partitions,
                      NEW o \in fetch[p]..(Len(log[p]) - 1), Message(p, o).valid
               PROVE  ~Past(minute_of(Message(p, o).event_ms), watermark)
    BY Zenon DEF KeepsUp
  <2>1. fetch[p] \in Nat /\ Len(log[p]) \in Nat /\ o \in 0..(Len(log[p]) - 1) /\ fetch[p] <= o
    BY DEF TypeOK
  <2>2. Message(p, o).event_ms \in Times /\ watermark \in Times \cup {NoTime}
    BY <2>1, MessageIsMsg DEF Msg, TypeOK
  <2>3. Skew <= Grace /\ Skew \in Nat /\ Grace \in Nat
    BY TimeAssumption DEF InGrace
  <2>4. watermark <= Message(p, o).event_ms + Grace
    <3>1. CASE watermark = NoTime
      BY <2>2, <2>3, <3>1 DEF NoTime, Times
    <3>2. CASE watermark # NoTime
      <4>1. PICK a \in 0..(Len(log[p]) - 1) : a < fetch[p] /\ Message(p, a).event_ms = watermark
        BY <3>2, Zenon DEF OrderInv, WatermarkRead, OnePartition
      <4>2. a < o
        BY <2>1, <4>1
      <4>3. watermark <= Message(p, o).event_ms + Skew
        BY <2>1, <4>1, <4>2, Zenon DEF OrderInv, LogOrder
      <4>4. QED
        BY <2>2, <2>3, <4>3 DEF Times, NoTime
    <3>3. QED
      BY <3>1, <3>2
  <2>5. QED
    BY <2>2, <2>4, NotPastInGrace, Zenon
<1>2. QED
  BY <1>1, OrderAlways, PTL

\* Over such a partition nothing is ever filed as late, by a process that starts again
\* at the commit either: no trade closes the minute of one that follows it.
THEOREM GraceSparesAll ==
    ASSUME OnePartition, InGrace
    PROVE  Spec /\ []NoRejoins => [](late = {})
<1>1. TypeOK /\ IInv /\ OrderInv /\ NoRejoins /\ LateHasCause => late = {}
  <2> SUFFICES ASSUME TypeOK, IInv, OrderInv, NoRejoins, LateHasCause, NEW id \in late PROVE FALSE
    OBVIOUS
  <2> DEFINE p == id[1]  b == id[2]
  <2>1. p \in Partitions /\ b \in 0..(Len(log[p]) - 1)
    BY Zenon DEF IInv, LateInv, InLog
  <2> HIDE DEF p, b
  <2>2. PICK a \in 0..(fetch[p] - 1) : ClosedBy(id, p, a)
    BY <2>1, Zenon DEF LateHasCause, OnePartition
  <2>3. a \in 0..(Len(log[p]) - 1) /\ a < b
    BY <2>1, <2>2, ReadInLog, Zenon DEF ClosedBy, p, b
  <2>4. /\ Message(p, a).event_ms \in Times /\ Message(p, b).event_ms \in Times
        /\ Message(p, a).event_ms <= Message(p, b).event_ms + Skew
    <3>1. Message(p, b).valid
      BY <2>1, <2>2, Zenon DEF ClosedBy, p, b
    <3>2. Message(p, a) \in Msg /\ Message(p, b) \in Msg
      BY <2>1, <2>3, MessageIsMsg
    <3>3. QED
      BY <2>1, <2>3, <3>1, <3>2, Zenon DEF Msg, OrderInv, LogOrder
  <2>5. Message(p, a).event_ms <= Message(p, b).event_ms + Grace
    BY <2>4, TimeAssumption DEF InGrace, Times
  <2>6. ~Past(minute_of(Message(p, b).event_ms), Message(p, a).event_ms)
    BY <2>4, <2>5, NotPastInGrace
  <2>7. QED
    BY <2>1, <2>2, <2>6, Zenon DEF ClosedBy, p, b
<1>2. QED
  BY <1>1, OrderAlways, LateTradesHaveCause, PTL
=============================================================================
