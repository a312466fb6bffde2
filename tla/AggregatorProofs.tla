-------------------------- MODULE AggregatorProofs --------------------------
(***************************************************************************)
(* Proofs about Aggregator, for every set of symbols, every assignment of  *)
(* symbols to partitions, and every value of the grace period and of the   *)
(* bounds.                                                                 *)
(***************************************************************************)
EXTENDS Aggregator, NatSets, TLAPS

-----------------------------------------------------------------------------
(* Lemmas about the operators of the model.                                *)

\* A minute's end is a number.
LEMMA WindowEndInt ==
    ASSUME NEW m \in Minutes
    PROVE  WindowEnd(m) \in Int
<1>1. MinuteLen \in Nat /\ MinuteLen # 0 /\ MaxTime \in Nat
  BY TimeAssumption
<1>2. PICK t \in 0..MaxTime : m = t \div MinuteLen
  BY DEF Minutes, Times, minute_of
<1>3. m \in Int
  BY <1>1, <1>2, SMT
<1>4. QED
  BY <1>1, <1>3, SMT DEF WindowEnd

\* The key of a message is a key of the model.
LEMMA KeyOfMsg ==
    ASSUME NEW msg \in Msg
    PROVE  KeyOf(msg) \in Keys
BY DEF Msg, KeyOf, Keys, Minutes

\* A minute that is past stays past while the watermark advances.
LEMMA PastMonotone ==
    ASSUME NEW m \in Minutes, NEW w \in Times \cup {NoTime}, NEW v \in Times \cup {NoTime},
           Past(m, w), w <= v
    PROVE  Past(m, v)
<1>1. WindowEnd(m) \in Int /\ Grace \in Nat /\ MaxTime \in Nat
  BY WindowEndInt, TimeAssumption
<1>2. QED
  BY <1>1 DEF Past, Times, NoTime

\* The watermark never goes back.
LEMMA AdvancedForward ==
    ASSUME watermark \in Times \cup {NoTime}, NEW t \in Times
    PROVE  Advanced(t) \in Times /\ watermark <= Advanced(t)
BY TimeAssumption DEF Advanced, Times, NoTime

\* A published message is a message.
LEMMA MessageIsMsg ==
    ASSUME TypeOK, NEW p \in Partitions, NEW o \in 0..(Len(log[p]) - 1)
    PROVE  Message(p, o) \in Msg
BY DEF TypeOK, Message

LEMMA NoBarIsBar == NoBar \in Bar
BY DEF NoBar, Bar

LEMMA AddIsBar ==
    ASSUME NEW bar \in Bar, NEW id \in Ids
    PROVE  add(bar, id) \in Bar
BY DEF add, Bar

\* What commit_safely commits for a partition that was read: no more than the
\* read position, no more than any offset a window holds, and one of these.
LEMMA SafeOffset ==
    ASSUME TypeOK, NEW p \in Partitions, position[p] # NoOffset
    PROVE  /\ safe_offsets(p) \in Nat
           /\ safe_offsets(p) <= position[p]
           /\ \A k \in Keys : offsets[k][p] # NoOffset => safe_offsets(p) <= offsets[k][p]
           /\ \/ safe_offsets(p) = position[p]
              \/ \E k \in Keys : offsets[k][p] # NoOffset /\ safe_offsets(p) = offsets[k][p]
<1> DEFINE S == {position[p]} \cup Held(p)
<1>1. S \subseteq Nat /\ S # {}
  BY DEF TypeOK, Held
<1>2. Min(S) \in S /\ \A x \in S : Min(S) <= x
  BY <1>1, MinOfNats, Zenon
<1>3. safe_offsets(p) = Min(S)
  BY DEF safe_offsets
<1>4. \A k \in Keys : offsets[k][p] # NoOffset => offsets[k][p] \in S
  BY DEF Held
<1>5. \A x \in S : x = position[p] \/ \E k \in Keys : offsets[k][p] # NoOffset /\ x = offsets[k][p]
  BY DEF Held
<1> HIDE DEF S
<1>6. position[p] \in S
  BY DEF S
<1>7. QED
  BY <1>1, <1>2, <1>3, <1>4, <1>5, <1>6

\* Appending a message leaves the messages before it where they were.
LEMMA AppendKeeps ==
    ASSUME TypeOK, NEW p \in Partitions, NEW msg \in Msg, AppendTo(p, msg)
    PROVE  /\ log' \in [Partitions -> Seq(Msg)]
           /\ \A q \in Partitions : Len(log[q]) <= Len(log'[q])
           /\ \A q \in Partitions : \A o \in 0..(Len(log[q]) - 1) :
                 Message(q, o)' = Message(q, o)
BY DEF TypeOK, AppendTo, Message

-----------------------------------------------------------------------------
(* Type correctness.                                                       *)

LEMMA TypeInit == Init => TypeOK
<1> SUFFICES ASSUME Init PROVE TypeOK
  OBVIOUS
<1>1. log \in [Partitions -> Seq(Msg)] /\ committed \in [Partitions -> Nat]
  BY DEF Init
<1>2. bars \in [Keys -> Bar] /\ windows \in [Keys -> Bar]
  BY NoBarIsBar DEF Init, NoWindows
<1>3. NoOffsets \in [Partitions -> Nat \cup {NoOffset}]
  BY DEF NoOffsets
<1>4. /\ position \in [Partitions -> Nat \cup {NoOffset}]
      /\ offsets \in [Keys -> [Partitions -> Nat \cup {NoOffset}]]
  BY <1>3 DEF Init
<1>5. QED
  BY <1>1, <1>2, <1>4 DEF Init, TypeOK

LEMMA DieKeepsTypes ==
    ASSUME Die, committed' \in [Partitions -> Nat], log' = log, TypeOK,
           UNCHANGED <<store, heartbeat>>, faults' \in Nat, rejoins' \in Nat
    PROVE  TypeOK'
BY NoBarIsBar DEF Die, TypeOK, NoWindows, NoOffsets, NoOffset, NoTime, store

LEMMA TypeStep == TypeOK /\ [Next]_vars => TypeOK'
<1> SUFFICES ASSUME TypeOK, [Next]_vars PROVE TypeOK'
  OBVIOUS
<1> USE DEF kafka, store, memory, control, budget
<1>1. ASSUME NEW p \in Partitions, NEW msg \in Msg, AppendTo(p, msg) PROVE TypeOK'
  <2>1. log' \in [Partitions -> Seq(Msg)]
    BY <1>1, AppendKeeps
  <2>2. QED
    BY <1>1, <2>1 DEF TypeOK, AppendTo
<1>2. ASSUME NEW s \in Symbols, NEW t \in Times, Publish(s, t) PROVE TypeOK'
  <2>1. [symbol |-> s, event_ms |-> t, valid |-> TRUE] \in Msg /\ PartitionOf[s] \in Partitions
    BY SymbolsAssumption DEF Msg
  <2>2. QED
    BY <1>1, <1>2, <2>1 DEF Publish
<1>3. ASSUME NEW s \in Symbols, PublishMalformed(s) PROVE TypeOK'
  <2>1. [symbol |-> s, event_ms |-> 0, valid |-> FALSE] \in Msg /\ PartitionOf[s] \in Partitions
    BY SymbolsAssumption, TimeAssumption DEF Msg, Times
  <2>2. QED
    BY <1>1, <1>3, <2>1 DEF PublishMalformed
<1>4. ASSUME NEW p \in Partitions, Receive(p)
      PROVE  /\ Message(p, fetch[p]) \in Msg
             /\ <<p, fetch[p]>> \in Ids
             /\ fetch' \in [Partitions -> Nat]
             /\ position' \in [Partitions -> Nat \cup {NoOffset}]
  <2>1. fetch[p] \in 0..(Len(log[p]) - 1)
    BY <1>4 DEF Receive, TypeOK
  <2>2. fetch[p] \in Nat /\ fetch[p] + 1 \in Nat
    BY DEF TypeOK
  <2>3. /\ fetch' \in [Partitions -> Nat]
        /\ position' \in [Partitions -> Nat \cup {NoOffset}]
    BY <1>4, <2>2 DEF Receive, TypeOK
  <2>4. QED
    BY <2>1, <2>2, <2>3, MessageIsMsg DEF Ids
<1>5. ASSUME NEW p \in Partitions, IngestMalformed(p) PROVE TypeOK'
  BY <1>4, <1>5 DEF IngestMalformed, Receive, TypeOK
<1>6. ASSUME NEW p \in Partitions, IngestLate(p) PROVE TypeOK'
  <2>1. Receive(p) /\ watermark' = Advanced(Message(p, fetch[p]).event_ms)
    BY <1>6 DEF IngestLate
  <2>2. watermark' \in Times \cup {NoTime}
    BY <1>4, <2>1, AdvancedForward DEF Msg, TypeOK
  <2>3. QED
    BY <1>4, <1>6, <2>2 DEF IngestLate, Receive, TypeOK
<1>7. ASSUME NEW p \in Partitions, IngestTrade(p) PROVE TypeOK'
  <2> DEFINE o == fetch[p]
             k == KeyOf(Message(p, o))
  <2>1. Receive(p) /\ watermark' = Advanced(Message(p, o).event_ms)
    BY <1>7 DEF IngestTrade
  <2>2. watermark' \in Times \cup {NoTime}
    BY <1>4, <2>1, AdvancedForward DEF Msg, TypeOK
  <2>3. k \in Keys
    BY <1>4, <2>1, KeyOfMsg
  <2>4. windows' = [windows EXCEPT ![k] = add(@, <<p, o>>)]
    BY <1>7 DEF IngestTrade
  <2>5. windows' \in [Keys -> Bar]
    <3>1. windows[k] \in Bar
      BY <2>3 DEF TypeOK
    <3>2. add(windows[k], <<p, o>>) \in Bar
      BY <3>1, <2>1, <1>4, AddIsBar
    <3>3. QED
      BY <2>3, <2>4, <3>2 DEF TypeOK
  <2>6. offsets' = [offsets EXCEPT ![k][p] = LowestFed(@, o)]
    BY <1>7 DEF IngestTrade
  <2>7. offsets' \in [Keys -> [Partitions -> Nat \cup {NoOffset}]]
    BY <2>3, <2>6 DEF TypeOK, LowestFed
  <2>8. QED
    BY <1>4, <2>1, <2>2, <2>5, <2>7, <1>7 DEF IngestTrade, Receive, TypeOK
<1>8. CASE StartFlush
  BY <1>8 DEF StartFlush, BeginFlush, TypeOK
<1>9. ASSUME NEW k \in Keys, WriteWindow(k) PROVE TypeOK'
  <2>1. windows[k] \in Bar /\ windows[k].members \subseteq Ids /\ NoOffsets \in [Partitions -> Nat \cup {NoOffset}]
    BY DEF TypeOK, Bar, NoOffsets
  <2>2. QED
    BY <1>9, <2>1, NoBarIsBar DEF WriteWindow, TypeOK
<1>10. CASE EndWindows
  BY <1>10 DEF EndWindows, TypeOK
<1>11. ASSUME NEW k \in Keys, WriteLate(k) PROVE TypeOK'
  <2>1. LateRows(k) \subseteq Ids
    BY DEF LateRows, TypeOK
  <2>2. QED
    BY <1>11, <2>1 DEF WriteLate, TypeOK
<1>12. CASE EndFlush
  BY <1>12 DEF EndFlush, TypeOK
<1>13. CASE CommitSafely
  <2>1. committed' \in [Partitions -> Nat]
    BY <1>13, SafeOffset DEF CommitSafely, TypeOK
  <2>2. log' = log /\ UNCHANGED <<store, heartbeat, budget>>
    BY <1>13 DEF CommitSafely
  <2>3. CASE final
    BY <1>13, <2>1, <2>2, <2>3, DieKeepsTypes DEF CommitSafely, TypeOK
  <2>4. CASE ~final
    BY <1>13, <2>1, <2>2, <2>4 DEF CommitSafely, TypeOK
  <2>5. QED
    BY <2>3, <2>4
<1>14. CASE Stop
  BY <1>14 DEF Stop, Fault, EnterFinally, BeginFlush, TypeOK
<1>15. ASSUME PutFails \/ CommitFails PROVE TypeOK'
  <2>1. /\ faults' \in Nat /\ rejoins' \in Nat
        /\ UNCHANGED <<log, store, heartbeat>>
        /\ UNCHANGED committed
        /\ Die \/ EnterFinally
    BY <1>15 DEF PutFails, CommitFails, Fault, EnterFinally, TypeOK
  <2>2. CASE Die
    BY <2>1, <2>2, DieKeepsTypes DEF TypeOK
  <2>3. CASE EnterFinally
    BY <2>1, <2>3 DEF EnterFinally, BeginFlush, TypeOK
  <2>4. QED
    BY <2>1, <2>2, <2>3
<1>16. CASE Crash
  BY <1>16, DieKeepsTypes DEF Crash, Fault, TypeOK
<1>17. CASE Restart
  BY <1>17 DEF Restart, TypeOK
<1>18. CASE Rejoin
  BY <1>18 DEF Rejoin, TypeOK
<1>19. CASE UNCHANGED vars
  BY <1>19 DEF vars, TypeOK
<1>20. QED
  BY <1>2, <1>3, <1>5, <1>6, <1>7, <1>8, <1>9, <1>10, <1>11, <1>12, <1>13, <1>14, <1>15,
     <1>16, <1>17, <1>18, <1>19 DEF Next, Ingest, FlushStep

\* Every variable always holds what the code stores in it.
THEOREM TypeCorrect == Spec => []TypeOK
BY TypeInit, TypeStep, PTL DEF Spec

-----------------------------------------------------------------------------
(* The inductive invariant.  Each lemma is a kind of step.                  *)

Core ==
    /\ WindowsInv
    /\ PersistedInLog
    /\ SpanInv
    /\ CommittedIsPersisted
    /\ CommitBelowOpenWindows

\* Members of windows are pairs.
LEMMA MembersArePairs ==
    ASSUME TypeOK, NEW k \in Keys, NEW id \in windows[k].members
    PROVE  id \in Ids /\ id = <<id[1], id[2]>>
BY DEF TypeOK, Bar, Ids

\* Core speaks of the log, what is stored, the windows and the offsets only.
LEMMA CoreFrame ==
    ASSUME Core,
           UNCHANGED <<log, committed, persisted, windows, offsets, watermark,
                       fetch, position, late>>
    PROVE  Core'
<1>1. WindowsInv'
  BY DEF Core, WindowsInv, IsOpen, InLog
<1>2. PersistedInLog'
  BY DEF Core, PersistedInLog, InLog
<1>3. CommittedIsPersisted' /\ CommitBelowOpenWindows'
  BY DEF Core, CommittedIsPersisted, CommitBelowOpenWindows, Message
<1>4. SpanInv'
  BY DEF Core, SpanInv, Span, Accounted, Known, IsOpen, Message
<1>5. QED
  BY <1>1, <1>2, <1>3, <1>4 DEF Core

LEMMA WrittenFrame ==
    ASSUME WrittenStaysGone, written' \subseteq written, UNCHANGED <<windows, watermark>>
    PROVE  WrittenStaysGone'
BY DEF WrittenStaysGone, IsOpen

\* Publishing.
LEMMA PublishStep ==
    ASSUME TypeOK, IInv, NEW p \in Partitions, NEW msg \in Msg, AppendTo(p, msg)
    PROVE  IInv'
<1>1. UNCHANGED <<committed, store, memory, control, fetch>>
  BY DEF AppendTo
<1> USE DEF store, memory, control
<1>2. /\ \A q \in Partitions : Len(log[q]) \in Nat /\ Len(log'[q]) \in Nat
      /\ \A q \in Partitions : Len(log[q]) <= Len(log'[q])
      /\ \A q \in Partitions : \A o \in 0..(Len(log[q]) - 1) :
            Message(q, o)' = Message(q, o)
  BY AppendKeeps DEF TypeOK
<1>3. \A id : InLog(id) => InLog(id)' /\ Message(id[1], id[2])' = Message(id[1], id[2])
  BY <1>2 DEF InLog
<1>4. WindowsInv'
  BY <1>1, <1>3 DEF IInv, WindowsInv, IsOpen
<1>5. LateInv'
  <2>1. \A k \in Keys : LateRows(k)' = LateRows(k)
    BY <1>1, <1>3 DEF IInv, LateInv, LateRows
  <2>2. QED
    BY <1>1, <1>3, <2>1 DEF IInv, LateInv, TypeOK
<1>6. PersistedInLog'
  BY <1>1, <1>3 DEF IInv, PersistedInLog
<1>7. SpanInv'
  <2> SUFFICES ASSUME NEW q \in Partitions
               PROVE  \E lo, hi \in 0..Len(log'[q]) : Span(q, lo, hi)'
    BY DEF SpanInv
  <2>1. PICK lo \in 0..Len(log[q]), hi \in 0..Len(log[q]) : Span(q, lo, hi)
    BY DEF IInv, SpanInv
  <2>2. lo \in 0..Len(log'[q]) /\ hi \in 0..Len(log'[q])
    BY <1>2
  <2>3. \A o \in 0..(hi - 1) : o \in 0..(Len(log[q]) - 1)
    BY <1>2
  <2>4. \A o \in 0..(hi - 1) : Accounted(q, o)'
    BY <1>1, <1>2, <2>1, <2>3 DEF Span, Accounted
  <2>5. \A o \in lo..(hi - 1) : Known(q, o)'
    BY <1>1, <1>2, <2>1, <2>3 DEF Span, Known, IsOpen
  <2>6. Span(q, lo, hi)'
    BY <1>1, <2>1, <2>4, <2>5 DEF Span
  <2>7. QED
    BY <2>2, <2>6
<1>8. CommittedIsPersisted'
  <2>1. \A q \in Partitions : committed[q] \in Nat
    BY DEF TypeOK
  <2>2. QED
    BY <1>1, <1>2, <2>1 DEF IInv, CommittedIsPersisted
<1>9. CommitBelowOpenWindows' /\ WrittenStaysGone'
  BY <1>1 DEF IInv, CommitBelowOpenWindows, WrittenStaysGone, IsOpen
<1>10. QED
  BY <1>4, <1>5, <1>6, <1>7, <1>8, <1>9 DEF IInv

\* Reading one message.  The branches differ in what they do to the windows and
\* to the late list: what they must ensure is named by the assumptions.
LEMMA ReceiveSpan ==
    ASSUME TypeOK, IInv, NEW p \in Partitions, Receive(p),
           NEW new \in Nat, new = fetch[p], Accounted(p, new)', Known(p, new)',
           \A q \in Partitions : \A o \in 0..(Len(log[q]) - 1) :
              (Accounted(q, o) => Accounted(q, o)') /\ (Known(q, o) => Known(q, o)')
    PROVE  SpanInv'
<1> USE DEF kafka
<1>1. log' = log /\ committed' = committed
  BY DEF Receive
<1>2. \A q \in Partitions : Len(log[q]) \in Nat /\ fetch[q] \in Nat
  BY DEF TypeOK
<1> SUFFICES ASSUME NEW q \in Partitions
             PROVE  \E lo, hi \in 0..Len(log[q]) : Span(q, lo, hi)'
  BY <1>1 DEF SpanInv
<1>3. PICK lo \in 0..Len(log[q]), hi \in 0..Len(log[q]) : Span(q, lo, hi)
  BY DEF IInv, SpanInv
<1>4. /\ \A o \in 0..(hi - 1) : Accounted(q, o)'
      /\ \A o \in lo..(hi - 1) : Known(q, o)'
  BY <1>2, <1>3 DEF Span
<1>5. CASE q # p
  <2>1. fetch'[q] = fetch[q] /\ position'[q] = position[q]
    BY <1>5 DEF Receive, TypeOK
  <2>2. Span(q, lo, hi)'
    BY <1>1, <1>3, <1>4, <2>1 DEF Span
  <2>3. QED
    BY <2>2
<1>6. CASE q = p
  <2> DEFINE top == IF new + 1 > hi THEN new + 1 ELSE hi
  <2>1. /\ fetch'[p] = new + 1 /\ position'[p] = new + 1
        /\ new + 1 <= Len(log[p])
    BY <1>2 DEF Receive, TypeOK
  <2>2. new \in lo..hi /\ committed[p] \in lo..hi
    BY <1>3, <1>6 DEF Span
  <2>3. top \in 0..Len(log[p]) /\ hi <= top /\ new + 1 <= top
    BY <1>2, <1>6, <2>1, <2>2
  <2>4. \A o \in Nat : o < top => o < hi \/ o = new
    BY <1>2, <1>6, <2>2
  <2> HIDE DEF top
  <2>5. \A o \in 0..(top - 1) : Accounted(p, o)'
    BY <1>4, <1>6, <2>4, <2>3, <1>2
  <2>6. \A o \in lo..(top - 1) : Known(p, o)'
    BY <1>4, <1>6, <2>4, <2>3, <1>2
  <2>7. fetch'[p] \in lo..top /\ committed'[p] \in lo..top /\ position'[p] \in lo..top
    BY <1>1, <1>2, <1>6, <2>1, <2>2, <2>3
  <2>8. Span(p, lo, top)'
    BY <2>5, <2>6, <2>7 DEF Span
  <2>9. QED
    BY <1>6, <2>3, <2>8
<1>7. QED
  BY <1>5, <1>6

LEMMA ReceiveFacts ==
    ASSUME TypeOK, NEW p \in Partitions, Receive(p)
    PROVE  /\ fetch[p] \in Nat /\ fetch[p] < Len(log[p]) /\ Len(log[p]) \in Nat
           /\ fetch[p] \in 0..(Len(log[p]) - 1)
           /\ Message(p, fetch[p]) \in Msg
           /\ KeyOf(Message(p, fetch[p])) \in Keys
           /\ pc = "poll" /\ pc' = "poll"
           /\ log' = log /\ committed' = committed /\ persisted' = persisted
           /\ written' = written
<1>1. fetch[p] \in Nat /\ Len(log[p]) \in Nat
  BY DEF TypeOK
<1>2. fetch[p] < Len(log[p])
  BY DEF Receive
<1>3. fetch[p] \in 0..(Len(log[p]) - 1)
  BY <1>1, <1>2
<1>4. Message(p, fetch[p]) \in Msg
  BY <1>3, MessageIsMsg
<1>5. QED
  BY <1>1, <1>2, <1>3, <1>4, KeyOfMsg DEF Receive, kafka, store, control

LEMMA MalformedStep ==
    ASSUME TypeOK, IInv, NEW p \in Partitions, IngestMalformed(p)
    PROVE  IInv'
<1>1. Receive(p)
  BY DEF IngestMalformed
<1>2. /\ UNCHANGED <<windows, offsets, watermark, late>>
      /\ log' = log /\ committed' = committed /\ persisted' = persisted
      /\ written' = written /\ pc' = "poll"
  BY <1>1, ReceiveFacts DEF IngestMalformed
<1>3. PICK new \in Nat : new = fetch[p]
  BY <1>1, ReceiveFacts
<1>4. Accounted(p, new)' /\ Known(p, new)'
  BY <1>2, <1>3 DEF IngestMalformed, Accounted, Known, Message
<1>5. \A q \in Partitions : \A o \in 0..(Len(log[q]) - 1) :
         (Accounted(q, o) => Accounted(q, o)') /\ (Known(q, o) => Known(q, o)')
  BY <1>2 DEF Accounted, Known, Message, IsOpen
<1>6. SpanInv'
  BY <1>1, <1>3, <1>4, <1>5, ReceiveSpan
<1>7. WindowsInv' /\ PersistedInLog' /\ LateInv'
  BY <1>2 DEF IInv, WindowsInv, IsOpen, InLog, PersistedInLog, LateInv
<1>8. CommittedIsPersisted' /\ CommitBelowOpenWindows' /\ WrittenStaysGone'
  BY <1>2 DEF IInv, CommittedIsPersisted, CommitBelowOpenWindows, WrittenStaysGone, IsOpen, Message
<1>9. QED
  BY <1>6, <1>7, <1>8 DEF IInv

\* The watermark only moves forward, so what was past stays past.
LEMMA WatermarkForward ==
    ASSUME TypeOK, NEW t \in Times, watermark' = Advanced(t)
    PROVE  \A k \in Keys : Past(k[2], watermark) => Past(k[2], watermark')
<1>1. watermark' \in Times \cup {NoTime} /\ watermark <= watermark'
  BY AdvancedForward DEF TypeOK
<1>2. \A k \in Keys : k[2] \in Minutes
  BY DEF Keys
<1>3. watermark \in Times \cup {NoTime}
  BY DEF TypeOK
<1>4. QED
  BY <1>1, <1>2, <1>3, PastMonotone

LEMMA LateStep ==
    ASSUME TypeOK, IInv, NEW p \in Partitions, IngestLate(p)
    PROVE  IInv'
<1>1. Receive(p)
  BY DEF IngestLate
<1> DEFINE k == KeyOf(Message(p, fetch[p]))
<1>2. /\ UNCHANGED <<windows, offsets>>
      /\ late' = late \cup {<<p, fetch[p]>>}
      /\ watermark' = Advanced(Message(p, fetch[p]).event_ms)
      /\ ~IsOpen(k) /\ (k \in written \/ Past(k[2], watermark'))
      /\ log' = log /\ committed' = committed /\ persisted' = persisted
      /\ written' = written /\ pc' = "poll"
  BY <1>1, ReceiveFacts DEF IngestLate, Gone
<1>3. \A j \in Keys : Past(j[2], watermark) => Past(j[2], watermark')
  BY <1>1, <1>2, ReceiveFacts, WatermarkForward DEF Msg
<1>4. PICK new \in Nat : new = fetch[p]
  BY <1>1, ReceiveFacts
<1>5. Accounted(p, new)'
  BY <1>2, <1>4 DEF Accounted
<1>6. Past(k[2], watermark')
  BY <1>1, <1>2, <1>3, ReceiveFacts DEF IInv, WrittenStaysGone
<1>7. Known(p, new)'
  BY <1>2, <1>4, <1>6 DEF Known, Message, IsOpen
<1>8. \A q \in Partitions : \A o \in 0..(Len(log[q]) - 1) :
         (Accounted(q, o) => Accounted(q, o)') /\ (Known(q, o) => Known(q, o)')
  <2> SUFFICES ASSUME NEW q \in Partitions, NEW o \in 0..(Len(log[q]) - 1)
               PROVE  (Accounted(q, o) => Accounted(q, o)') /\ (Known(q, o) => Known(q, o)')
    OBVIOUS
  <2>1. Message(q, o)' = Message(q, o) /\ KeyOf(Message(q, o)) \in Keys
    BY <1>2, MessageIsMsg, KeyOfMsg DEF Message
  <2>2. Accounted(q, o) => Accounted(q, o)'
    BY <1>2, <2>1 DEF Accounted
  <2>3. Known(q, o) => Known(q, o)'
    BY <1>2, <1>3, <2>1 DEF Known, IsOpen
  <2>4. QED
    BY <2>2, <2>3
<1>9. SpanInv'
  BY <1>1, <1>4, <1>5, <1>7, <1>8, ReceiveSpan
<1>10. WindowsInv' /\ PersistedInLog'
  BY <1>2 DEF IInv, WindowsInv, IsOpen, InLog, PersistedInLog
<1>11. LateInv'
  BY <1>1, <1>2, ReceiveFacts DEF IInv, LateInv, InLog
<1>12. CommittedIsPersisted' /\ CommitBelowOpenWindows'
  BY <1>2 DEF IInv, CommittedIsPersisted, CommitBelowOpenWindows, Message
<1>13. WrittenStaysGone'
  BY <1>2, <1>3 DEF IInv, WrittenStaysGone, IsOpen, TypeOK
<1>14. QED
  BY <1>9, <1>10, <1>11, <1>12, <1>13 DEF IInv

LEMMA TradeStep ==
    ASSUME TypeOK, IInv, NEW p \in Partitions, IngestTrade(p)
    PROVE  IInv'
<1>1. Receive(p)
  BY DEF IngestTrade
<1>2. PICK new \in Nat : new = fetch[p]
  BY <1>1, ReceiveFacts
<1>3. PICK k \in Keys : k = KeyOf(Message(p, new))
  BY <1>1, <1>2, ReceiveFacts
<1>4. /\ Message(p, new).valid
      /\ watermark' = Advanced(Message(p, new).event_ms)
      /\ IsOpen(k) \/ (k \notin written /\ ~Past(k[2], watermark'))
      /\ windows' = [windows EXCEPT ![k] = add(@, <<p, new>>)]
      /\ offsets' = [offsets EXCEPT ![k][p] = LowestFed(@, new)]
      /\ late' = late
      /\ log' = log /\ committed' = committed /\ persisted' = persisted
      /\ written' = written /\ pc' = "poll"
  BY <1>1, <1>2, <1>3, ReceiveFacts DEF IngestTrade, Gone
<1>5. \A j \in Keys : Past(j[2], watermark) => Past(j[2], watermark')
  BY <1>1, <1>2, <1>4, ReceiveFacts, WatermarkForward DEF Msg
<1>6. ~(~IsOpen(k) /\ Past(k[2], watermark))
  BY <1>4, <1>5
<1>7. /\ windows'[k].trades = windows[k].trades + 1
      /\ windows'[k].members = windows[k].members \cup {<<p, new>>}
      /\ windows[k].trades \in Nat
      /\ \A j \in Keys : j # k => windows'[j] = windows[j]
  BY <1>4 DEF TypeOK, Bar, add
<1>8. IsOpen(k)' /\ \A j \in Keys : j # k => (IsOpen(j)' <=> IsOpen(j))
  BY <1>7 DEF IsOpen
<1>9. /\ \A j \in Keys : j # k => offsets'[j] = offsets[j]
      /\ \A q \in Partitions : q # p => offsets'[k][q] = offsets[k][q]
      /\ offsets'[k][p] = LowestFed(offsets[k][p], new)
  BY <1>4 DEF TypeOK
<1>10. WindowsInv'
  <2>1. InLog(<<p, new>>)'
    BY <1>1, <1>2, <1>4, ReceiveFacts DEF InLog
  <2>2. \A j \in Keys : ~IsOpen(j)' => windows'[j].members = {}
    BY <1>7, <1>8 DEF IInv, WindowsInv
  <2>3. offsets[k][p] \in Nat \cup {NoOffset}
    BY DEF TypeOK
  <2>4. offsets'[k][p] # NoOffset /\ offsets'[k][p] <= new
    BY <1>9, <2>3 DEF LowestFed, NoOffset
  <2>5. offsets[k][p] # NoOffset => offsets'[k][p] <= offsets[k][p]
    BY <1>9, <2>3 DEF LowestFed, NoOffset
  <2>6. \A j \in Keys : \A id \in windows'[j].members :
           InLog(id)' /\ offsets'[j][id[1]] # NoOffset /\ offsets'[j][id[1]] <= id[2]
    <3> SUFFICES ASSUME NEW j \in Keys, NEW id \in windows'[j].members
                 PROVE  InLog(id)' /\ offsets'[j][id[1]] # NoOffset
                        /\ offsets'[j][id[1]] <= id[2]
      OBVIOUS
    <3>1. CASE j # k
      BY <1>4, <1>7, <1>9, <3>1 DEF IInv, WindowsInv, InLog
    <3>2. CASE j = k /\ id \in windows[k].members
      <4>1. /\ InLog(id) /\ id \in Ids
            /\ offsets[k][id[1]] # NoOffset /\ offsets[k][id[1]] <= id[2]
        BY <3>2, MembersArePairs DEF IInv, WindowsInv
      <4>2. CASE id[1] # p
        BY <1>4, <1>9, <3>2, <4>1, <4>2 DEF InLog
      <4>3. CASE id[1] = p
        <5>1. offsets'[k][p] \in Nat \cup {NoOffset}
          BY <1>9, <2>3 DEF LowestFed
        <5>2. id[2] \in Nat
          BY <4>1 DEF Ids
        <5>3. QED
          BY <1>4, <2>3, <2>4, <2>5, <3>2, <4>1, <4>3, <5>1, <5>2 DEF InLog, NoOffset
      <4>4. QED
        BY <4>2, <4>3
    <3>3. CASE j = k /\ id = <<p, new>>
      BY <2>1, <2>4, <3>3
    <3>4. QED
      BY <1>7, <3>1, <3>2, <3>3
  <2>7. \A j \in Keys, q \in Partitions :
           offsets'[j][q] # NoOffset => <<q, offsets'[j][q]>> \in windows'[j].members
    <3> SUFFICES ASSUME NEW j \in Keys, NEW q \in Partitions, offsets'[j][q] # NoOffset
                 PROVE  <<q, offsets'[j][q]>> \in windows'[j].members
      OBVIOUS
    <3>1. CASE j # k
      BY <1>7, <1>9, <3>1 DEF IInv, WindowsInv
    <3>2. CASE j = k /\ q # p
      BY <1>7, <1>9, <3>2 DEF IInv, WindowsInv
    <3>3. CASE j = k /\ q = p
      BY <1>7, <1>9, <3>3 DEF IInv, WindowsInv, LowestFed
    <3>4. QED
      BY <3>1, <3>2, <3>3
  <2>8. QED
    BY <2>2, <2>6, <2>7 DEF WindowsInv
<1>11. Accounted(p, new)' /\ Known(p, new)'
  <2>1. Message(p, new)' = Message(p, new)
    BY <1>4 DEF Message
  <2>2. QED
    BY <1>3, <1>7, <2>1 DEF Accounted, Known
<1>12. \A q \in Partitions : \A o \in 0..(Len(log[q]) - 1) :
         (Accounted(q, o) => Accounted(q, o)') /\ (Known(q, o) => Known(q, o)')
  <2> SUFFICES ASSUME NEW q \in Partitions, NEW o \in 0..(Len(log[q]) - 1)
               PROVE  (Accounted(q, o) => Accounted(q, o)') /\ (Known(q, o) => Known(q, o)')
    OBVIOUS
  <2>1. Message(q, o)' = Message(q, o) /\ KeyOf(Message(q, o)) \in Keys
    BY <1>4, MessageIsMsg, KeyOfMsg DEF Message
  <2>2. \A j \in Keys : windows[j].members \subseteq windows'[j].members
    BY <1>7
  <2>3. Accounted(q, o) => Accounted(q, o)'
    BY <1>4, <2>1, <2>2 DEF Accounted
  <2>4. Known(q, o) => Known(q, o)'
    BY <1>5, <1>6, <1>8, <2>1, <2>2 DEF Known
  <2>5. QED
    BY <2>3, <2>4
<1>13. SpanInv'
  BY <1>1, <1>2, <1>11, <1>12, ReceiveSpan
<1>14. PersistedInLog' /\ CommittedIsPersisted' /\ LateInv'
  BY <1>4 DEF IInv, PersistedInLog, CommittedIsPersisted, LateInv, InLog, Message
<1>15. CommitBelowOpenWindows'
  <2>1. committed[p] <= new
    <3>1. PICK lo \in 0..Len(log[p]), hi \in 0..Len(log[p]) : Span(p, lo, hi)
      BY DEF IInv, SpanInv
    <3>2. committed[p] \in Nat /\ new \in lo..hi /\ committed[p] \in lo..hi
      BY <1>2, <3>1 DEF Span, TypeOK
    <3>3. CASE new < committed[p]
      <4>1. Known(p, new)
        BY <3>1, <3>2, <3>3 DEF Span
      <4>2. <<p, new>> \in windows[k].members
        BY <1>3, <1>4, <1>6, <4>1 DEF Known
      <4>3. QED
        BY <4>2 DEF IInv, CommitBelowOpenWindows
    <3>4. QED
      BY <3>2, <3>3
  <2>2. QED
    BY <1>4, <1>7, <2>1 DEF IInv, CommitBelowOpenWindows
<1>16. WrittenStaysGone'
  BY <1>4, <1>5, <1>8 DEF IInv, WrittenStaysGone, TypeOK
<1>17. QED
  BY <1>10, <1>13, <1>14, <1>15, <1>16 DEF IInv

\* Beginning a flush, in the loop or in the finally block.
LEMMA BeginStep ==
    ASSUME TypeOK, IInv, BeginFlush,
           UNCHANGED <<kafka, persisted, memory, fetch>>
    PROVE  IInv'
<1> USE DEF kafka, memory
<1>1. Core'
  BY CoreFrame DEF IInv, Core
<1>2. LateInv'
  BY DEF IInv, LateInv, BeginFlush, InLog
<1>3. WrittenStaysGone'
  BY WrittenFrame DEF IInv
<1>4. QED
  BY <1>1, <1>2, <1>3 DEF IInv, Core

\* A window is written: its trades are stored, its minute is past and closed.
LEMMA WriteWindowStep ==
    ASSUME TypeOK, IInv, NEW k \in Keys, WriteWindow(k)
    PROVE  IInv'
<1> USE DEF kafka
<1>1. /\ IsOpen(k) /\ Past(k[2], watermark)
      /\ persisted' = persisted \cup windows[k].members
      /\ windows' = [windows EXCEPT ![k] = NoBar]
      /\ offsets' = [offsets EXCEPT ![k] = NoOffsets]
      /\ written' = written \cup {k}
      /\ pc = "windows" /\ pc' = "windows" /\ lateDone' = lateDone /\ late' = late
      /\ log' = log /\ committed' = committed /\ fetch' = fetch
      /\ position' = position /\ watermark' = watermark
  BY DEF WriteWindow, Due
<1>2. /\ windows'[k] = NoBar
      /\ offsets'[k] = NoOffsets
      /\ \A j \in Keys : j # k => windows'[j] = windows[j] /\ offsets'[j] = offsets[j]
  BY <1>1 DEF TypeOK
<1>3. windows'[k].members = {} /\ windows'[k].trades = 0
  BY <1>2 DEF NoBar
<1>4. WindowsInv'
  <2>1. \A j \in Keys : ~IsOpen(j)' => windows'[j].members = {}
    BY <1>2, <1>3 DEF IInv, WindowsInv, IsOpen
  <2>2. \A j \in Keys : \A id \in windows'[j].members :
           InLog(id)' /\ offsets'[j][id[1]] # NoOffset /\ offsets'[j][id[1]] <= id[2]
    BY <1>1, <1>2, <1>3 DEF IInv, WindowsInv, InLog
  <2>3. \A j \in Keys, q \in Partitions :
           offsets'[j][q] # NoOffset => <<q, offsets'[j][q]>> \in windows'[j].members
    BY <1>2 DEF IInv, WindowsInv, NoOffsets
  <2>4. QED
    BY <2>1, <2>2, <2>3 DEF WindowsInv
<1>5. LateInv'
  BY <1>1 DEF IInv, LateInv, InLog, LateRows, Message
<1>6. PersistedInLog'
  BY <1>1 DEF IInv, PersistedInLog, WindowsInv, InLog
<1>7. SpanInv'
  <2> SUFFICES ASSUME NEW q \in Partitions
               PROVE  \E lo, hi \in 0..Len(log[q]) : Span(q, lo, hi)'
    BY <1>1 DEF SpanInv
  <2>1. PICK lo \in 0..Len(log[q]), hi \in 0..Len(log[q]) : Span(q, lo, hi)
    BY DEF IInv, SpanInv
  <2>2. \A o \in 0..(hi - 1) : Accounted(q, o)'
    <3> SUFFICES ASSUME NEW o \in 0..(hi - 1), Message(q, o).valid
                 PROVE  Accounted(q, o)'
      BY <1>1 DEF Accounted, Message
    <3>1. \/ <<q, o>> \in persisted
          \/ <<q, o>> \in late
          \/ \E j \in Keys : <<q, o>> \in windows[j].members
      BY <2>1 DEF Span, Accounted
    <3>2. QED
      BY <1>1, <1>2, <3>1 DEF Accounted
  <2>3. \A o \in lo..(hi - 1) : Known(q, o)'
    <3> SUFFICES ASSUME NEW o \in lo..(hi - 1), Message(q, o).valid
                 PROVE  Known(q, o)'
      BY <1>1 DEF Known, Message
    <3>1. o \in 0..(Len(log[q]) - 1)
      OBVIOUS
    <3>2. PICK j \in Keys : j = KeyOf(Message(q, o)) /\ Message(q, o)' = Message(q, o)
      BY <1>1, <3>1, MessageIsMsg, KeyOfMsg DEF Message
    <3>3. (~IsOpen(j) /\ Past(j[2], watermark)) \/ <<q, o>> \in windows[j].members
      BY <2>1, <3>2 DEF Span, Known
    <3>4. CASE j = k
      BY <1>1, <1>3, <3>2, <3>4 DEF Known, IsOpen
    <3>5. CASE j # k
      BY <1>1, <1>2, <3>2, <3>3, <3>5 DEF Known, IsOpen
    <3>6. QED
      BY <3>4, <3>5
  <2>4. Span(q, lo, hi)'
    BY <1>1, <2>1, <2>2, <2>3 DEF Span
  <2>5. QED
    BY <2>4
<1>8. CommittedIsPersisted' /\ CommitBelowOpenWindows'
  BY <1>1, <1>2, <1>3 DEF IInv, CommittedIsPersisted, CommitBelowOpenWindows, Message
<1>9. WrittenStaysGone'
  BY <1>1, <1>2, <1>3 DEF IInv, WrittenStaysGone, IsOpen
<1>10. QED
  BY <1>4, <1>5, <1>6, <1>7, <1>8, <1>9 DEF IInv

LEMMA EndWindowsStep ==
    ASSUME TypeOK, IInv, EndWindows
    PROVE  IInv'
<1> USE DEF kafka, store
<1>1. Core'
  BY CoreFrame DEF IInv, Core, EndWindows
<1>2. LateInv'
  BY DEF IInv, LateInv, EndWindows, InLog, LateRows, Message
<1>3. written' \subseteq written
  BY DEF EndWindows
<1>4. WrittenStaysGone'
  BY <1>3, WrittenFrame DEF IInv, EndWindows
<1>5. QED
  BY <1>1, <1>2, <1>4 DEF IInv, Core

LEMMA WriteLateStep ==
    ASSUME TypeOK, IInv, NEW k \in Keys, WriteLate(k)
    PROVE  IInv'
<1> USE DEF kafka, memory
<1>1. /\ persisted' = persisted \cup LateRows(k)
      /\ lateDone' = lateDone \cup {k} /\ pc = "late" /\ pc' = "late"
      /\ UNCHANGED <<log, committed, windows, offsets, watermark, fetch, position, late, written>>
  BY DEF WriteLate
<1>2. WindowsInv'
  BY <1>1 DEF IInv, WindowsInv, IsOpen, InLog
<1>3. LateInv'
  BY <1>1 DEF IInv, LateInv, InLog, LateRows, Message
<1>4. PersistedInLog'
  BY <1>1 DEF IInv, PersistedInLog, LateInv, LateRows, InLog
<1>5. SpanInv'
  BY <1>1 DEF IInv, SpanInv, Span, Accounted, Known, IsOpen, Message
<1>6. CommittedIsPersisted' /\ CommitBelowOpenWindows' /\ WrittenStaysGone'
  BY <1>1 DEF IInv, CommittedIsPersisted, CommitBelowOpenWindows, WrittenStaysGone, IsOpen,
              Message
<1>7. QED
  BY <1>2, <1>3, <1>4, <1>5, <1>6 DEF IInv

\* When late.clear() is reached, every late trade is in a late file.
LEMMA EndFlushStep ==
    ASSUME TypeOK, IInv, EndFlush
    PROVE  IInv'
<1> USE DEF kafka, store
<1>1. /\ pc = "late" /\ late' = {} /\ lateDone' = {}
      /\ \A k \in Keys : ~LateDue(k)
      /\ UNCHANGED <<log, committed, persisted, windows, offsets, watermark, fetch, position, written>>
  BY DEF EndFlush
<1>2. late \subseteq persisted
  <2> SUFFICES ASSUME NEW id \in late PROVE id \in persisted
    OBVIOUS
  <2>1. id[1] \in Partitions /\ id[2] \in 0..(Len(log[id[1]]) - 1)
    BY DEF IInv, LateInv, InLog
  <2>2. PICK k \in Keys : k = KeyOf(Message(id[1], id[2]))
    BY <2>1, MessageIsMsg, KeyOfMsg
  <2>3. id \in LateRows(k)
    BY <2>2 DEF LateRows
  <2>4. k \in lateDone
    BY <1>1, <2>3 DEF LateDue
  <2>5. QED
    BY <1>1, <2>3, <2>4 DEF IInv, LateInv
<1>3. WindowsInv' /\ PersistedInLog'
  BY <1>1 DEF IInv, WindowsInv, PersistedInLog, IsOpen, InLog
<1>4. LateInv'
  BY <1>1 DEF LateInv
<1>5. SpanInv'
  BY <1>1, <1>2 DEF IInv, SpanInv, Span, Accounted, Known, IsOpen, Message
<1>6. CommittedIsPersisted' /\ CommitBelowOpenWindows' /\ WrittenStaysGone'
  BY <1>1 DEF IInv, CommittedIsPersisted, CommitBelowOpenWindows, WrittenStaysGone, IsOpen,
              Message
<1>7. QED
  BY <1>3, <1>4, <1>5, <1>6 DEF IInv

\* A process that has died holds nothing; the next one starts at the commit.
LEMMA DieStep ==
    ASSUME TypeOK, Die, PersistedInLog, log' = log, persisted' = persisted,
           committed' \in [Partitions -> Nat], CommittedIsPersisted'
    PROVE  IInv'
<1>1. \A k \in Keys : windows'[k] = NoBar /\ offsets'[k] = NoOffsets
  BY DEF Die, NoWindows
<1>2. \A k \in Keys : windows'[k].members = {} /\ ~IsOpen(k)'
  BY <1>1 DEF NoBar, IsOpen
<1>3. WindowsInv'
  BY <1>1, <1>2 DEF WindowsInv, NoOffsets
<1>4. LateInv' /\ WrittenStaysGone'
  BY DEF Die, LateInv, WrittenStaysGone
<1>5. PersistedInLog'
  BY DEF PersistedInLog, InLog
<1>6. CommitBelowOpenWindows'
  BY <1>2 DEF CommitBelowOpenWindows
<1>7. SpanInv'
  <2> SUFFICES ASSUME NEW p \in Partitions
               PROVE  \E lo, hi \in 0..Len(log[p]) : Span(p, lo, hi)'
    BY DEF SpanInv
  <2>1. PICK c \in Nat : c = committed'[p]
    OBVIOUS
  <2>2. /\ c <= Len(log[p]) /\ Len(log[p]) \in Nat
        /\ \A o \in 0..(c - 1) : Message(p, o).valid => <<p, o>> \in persisted
    BY <2>1 DEF CommittedIsPersisted, Message, TypeOK
  <2>3. fetch'[p] = c /\ position'[p] = NoOffset
    BY <2>1 DEF Die, NoOffsets
  <2>4. \A o \in 0..(c - 1) : Accounted(p, o)'
    BY <2>2 DEF Accounted, Message
  <2>5. Span(p, c, c)'
    BY <2>1, <2>3, <2>4 DEF Span
  <2>6. c \in 0..Len(log[p])
    BY <2>2
  <2>7. QED
    BY <2>5, <2>6
<1>8. QED
  BY <1>3, <1>4, <1>5, <1>6, <1>7 DEF IInv

\* The commit: below the clamped offset everything is stored.
LEMMA CommitStep ==
    ASSUME TypeOK, IInv, CommitSafely
    PROVE  IInv'
<1> USE DEF store, budget
<1>1. /\ pc = "commit" /\ log' = log /\ persisted' = persisted
      /\ committed' = [p \in Partitions |->
                          IF position[p] = NoOffset THEN committed[p] ELSE safe_offsets(p)]
  BY DEF CommitSafely
<1>2. late = {}
  BY <1>1 DEF IInv, LateInv
<1>3. committed' \in [Partitions -> Nat]
  BY <1>1, SafeOffset DEF TypeOK
<1>4. ASSUME NEW p \in Partitions
      PROVE  /\ \A k \in Keys : offsets[k][p] # NoOffset => committed'[p] <= offsets[k][p]
             /\ \A lo, hi \in 0..Len(log[p]) : Span(p, lo, hi) => committed'[p] \in lo..hi
  <2>0. committed[p] \in Nat /\ \A k \in Keys : offsets[k][p] \in Nat \cup {NoOffset}
    BY DEF TypeOK
  <2>1. \A k \in Keys : offsets[k][p] # NoOffset => committed[p] <= offsets[k][p]
    BY DEF IInv, WindowsInv, CommitBelowOpenWindows
  <2>2. CASE position[p] = NoOffset
    BY <1>1, <2>1, <2>2 DEF Span
  <2>3. CASE position[p] # NoOffset
    <3>1. /\ committed'[p] = safe_offsets(p)
          /\ safe_offsets(p) \in Nat
          /\ safe_offsets(p) <= position[p]
          /\ \A k \in Keys : offsets[k][p] # NoOffset => safe_offsets(p) <= offsets[k][p]
          /\ \/ safe_offsets(p) = position[p]
             \/ \E k \in Keys : offsets[k][p] # NoOffset /\ safe_offsets(p) = offsets[k][p]
      BY <1>1, <2>3, SafeOffset
    <3>2. position[p] \in Nat
      BY <2>3 DEF TypeOK
    <3>3. \A lo, hi \in 0..Len(log[p]) : Span(p, lo, hi) =>
             position[p] \in lo..hi /\ committed[p] \in lo..hi
      BY <2>3 DEF Span
    <3>4. safe_offsets(p) = position[p] \/ committed[p] <= safe_offsets(p)
      BY <2>1, <3>1
    <3>5. QED
      BY <2>0, <3>1, <3>2, <3>3, <3>4
  <2>4. QED
    BY <2>2, <2>3
<1>5. CommittedIsPersisted'
  <2> SUFFICES ASSUME NEW p \in Partitions
               PROVE  /\ committed'[p] <= Len(log[p])
                      /\ \A o \in 0..(committed'[p] - 1) :
                            Message(p, o).valid => <<p, o>> \in persisted
    BY <1>1 DEF CommittedIsPersisted, Message
  <2>1. PICK lo \in 0..Len(log[p]), hi \in 0..Len(log[p]) : Span(p, lo, hi)
    BY DEF IInv, SpanInv
  <2>2. committed'[p] \in lo..hi /\ committed'[p] \in Nat
    BY <1>3, <1>4, <2>1
  <2>3. committed'[p] <= Len(log[p])
    BY <2>2
  <2>4. ASSUME NEW o \in 0..(committed'[p] - 1), Message(p, o).valid
        PROVE  <<p, o>> \in persisted
    <3>1. o \in 0..(hi - 1) /\ o < committed'[p] /\ o \in Nat
      BY <2>2
    <3>2. \/ <<p, o>> \in persisted
          \/ \E k \in Keys : <<p, o>> \in windows[k].members
      BY <1>2, <2>1, <2>4, <3>1 DEF Span, Accounted
    <3>3. ASSUME NEW k \in Keys, <<p, o>> \in windows[k].members PROVE FALSE
      <4>1. offsets[k][p] # NoOffset /\ offsets[k][p] <= o
        BY <3>3 DEF IInv, WindowsInv
      <4>2. committed'[p] <= offsets[k][p] /\ offsets[k][p] \in Nat \cup {NoOffset}
        BY <1>4, <4>1 DEF TypeOK
      <4>3. QED
        BY <2>2, <3>1, <4>1, <4>2 DEF NoOffset
    <3>4. QED
      BY <3>2, <3>3
  <2>5. QED
    BY <2>3, <2>4
<1>6. CASE final
  BY <1>1, <1>3, <1>5, <1>6, DieStep DEF CommitSafely, IInv
<1>7. CASE ~final
  <2>1. /\ pc' = "poll"
        /\ UNCHANGED <<windows, offsets, watermark, late, written, fetch, position>>
    BY <1>7 DEF CommitSafely, memory
  <2>2. WindowsInv' /\ PersistedInLog' /\ LateInv' /\ WrittenStaysGone'
    BY <1>1, <2>1 DEF IInv, WindowsInv, PersistedInLog, LateInv, WrittenStaysGone, IsOpen, InLog
  <2>3. SpanInv'
    <3> SUFFICES ASSUME NEW p \in Partitions
                 PROVE  \E lo, hi \in 0..Len(log[p]) : Span(p, lo, hi)'
      BY <1>1 DEF SpanInv
    <3>1. PICK lo \in 0..Len(log[p]), hi \in 0..Len(log[p]) : Span(p, lo, hi)
      BY DEF IInv, SpanInv
    <3>2. committed'[p] \in lo..hi
      BY <1>4, <3>1
    <3>3. Span(p, lo, hi)'
      BY <1>1, <2>1, <3>1, <3>2 DEF Span, Accounted, Known, IsOpen, Message
    <3>4. QED
      BY <3>3
  <2>4. CommitBelowOpenWindows'
    <3> SUFFICES ASSUME NEW k \in Keys, NEW id \in windows[k].members
                 PROVE  committed'[id[1]] <= id[2]
      BY <2>1 DEF CommitBelowOpenWindows
    <3>1. /\ id \in Ids /\ id[1] \in Partitions
          /\ offsets[k][id[1]] # NoOffset /\ offsets[k][id[1]] <= id[2]
      BY MembersArePairs DEF IInv, WindowsInv, InLog
    <3>2. committed'[id[1]] <= offsets[k][id[1]]
      BY <1>4, <3>1
    <3>3. committed'[id[1]] \in Nat /\ offsets[k][id[1]] \in Nat \cup {NoOffset} /\ id[2] \in Nat
      BY <1>3, <3>1 DEF TypeOK, Ids
    <3>4. QED
      BY <3>1, <3>2, <3>3 DEF NoOffset
  <2>5. QED
    BY <1>5, <2>2, <2>3, <2>4 DEF IInv
<1>8. QED
  BY <1>6, <1>7

\* The consumer rejoins its group and is handed what it read before.
LEMMA RejoinStep ==
    ASSUME TypeOK, IInv, Rejoin
    PROVE  IInv'
<1> USE DEF kafka, store, memory, control
<1>1. fetch' = committed /\ UNCHANGED <<kafka, persisted, memory, pc, lateDone>>
  BY DEF Rejoin
<1>2. WindowsInv' /\ PersistedInLog' /\ WrittenStaysGone'
  BY <1>1 DEF IInv, WindowsInv, PersistedInLog, WrittenStaysGone, IsOpen, InLog
<1>3. LateInv'
  BY <1>1 DEF IInv, LateInv, InLog, LateRows, Message
<1>4. SpanInv'
  BY <1>1 DEF IInv, SpanInv, Span, Accounted, Known, IsOpen, Message
<1>5. CommittedIsPersisted' /\ CommitBelowOpenWindows'
  BY <1>1 DEF IInv, CommittedIsPersisted, CommitBelowOpenWindows, Message
<1>6. QED
  BY <1>2, <1>3, <1>4, <1>5 DEF IInv

LEMMA IInvInit == Init => IInv
<1> SUFFICES ASSUME Init PROVE IInv
  OBVIOUS
<1>1. \A k \in Keys : windows[k].members = {} /\ ~IsOpen(k) /\ offsets[k] = NoOffsets
  BY DEF Init, NoWindows, NoBar, IsOpen
<1>2. WindowsInv /\ LateInv /\ PersistedInLog /\ CommitBelowOpenWindows /\ WrittenStaysGone
  BY <1>1 DEF Init, WindowsInv, LateInv, PersistedInLog, CommitBelowOpenWindows,
              WrittenStaysGone, NoOffsets
<1>3. CommittedIsPersisted
  BY DEF Init, CommittedIsPersisted
<1>4. ASSUME NEW p \in Partitions PROVE Span(p, 0, 0) /\ 0 \in 0..Len(log[p])
  BY DEF Init, Span, NoOffsets
<1>5. SpanInv
  BY <1>4 DEF SpanInv
<1>6. QED
  BY <1>2, <1>3, <1>5 DEF IInv

LEMMA IInvStep == TypeOK /\ IInv /\ [Next]_vars => IInv'
<1> SUFFICES ASSUME TypeOK, IInv, [Next]_vars PROVE IInv'
  OBVIOUS
<1> USE DEF kafka, store
<1>1. ASSUME NEW s \in Symbols, NEW t \in Times, Publish(s, t) PROVE IInv'
  <2>1. [symbol |-> s, event_ms |-> t, valid |-> TRUE] \in Msg /\ PartitionOf[s] \in Partitions
    BY SymbolsAssumption DEF Msg
  <2>2. QED
    BY <1>1, <2>1, PublishStep DEF Publish
<1>2. ASSUME NEW s \in Symbols, PublishMalformed(s) PROVE IInv'
  <2>1. [symbol |-> s, event_ms |-> 0, valid |-> FALSE] \in Msg /\ PartitionOf[s] \in Partitions
    BY SymbolsAssumption, TimeAssumption DEF Msg, Times
  <2>2. QED
    BY <1>2, <2>1, PublishStep DEF PublishMalformed
<1>3. ASSUME NEW p \in Partitions, Ingest(p) PROVE IInv'
  BY <1>3, MalformedStep, LateStep, TradeStep DEF Ingest
<1>4. CASE StartFlush
  BY <1>4, BeginStep DEF StartFlush
<1>5. CASE FlushStep
  BY <1>5, WriteWindowStep, WriteLateStep, EndWindowsStep, EndFlushStep DEF FlushStep
<1>6. CASE CommitSafely
  BY <1>6, CommitStep
<1>7. ASSUME log' = log, persisted' = persisted, committed' = committed, Die PROVE IInv'
  <2>1. CommittedIsPersisted' /\ committed' \in [Partitions -> Nat]
    BY <1>7 DEF IInv, CommittedIsPersisted, Message, TypeOK
  <2>2. QED
    BY <1>7, <2>1, DieStep DEF IInv
<1>8. ASSUME log' = log, persisted' = persisted, EnterFinally PROVE IInv'
  BY <1>8, BeginStep DEF EnterFinally
<1>9. CASE Stop
  BY <1>8, <1>9 DEF Stop
<1>10. CASE PutFails \/ CommitFails
  <2>1. log' = log /\ persisted' = persisted /\ ((committed' = committed /\ Die) \/ EnterFinally)
    BY <1>10 DEF PutFails, CommitFails
  <2>2. QED
    BY <1>7, <1>8, <2>1
<1>11. CASE Crash
  BY <1>7, <1>11 DEF Crash
<1>12. CASE Restart
  <2>1. Core'
    BY <1>12, CoreFrame DEF Restart, memory, IInv, Core
  <2>2. WrittenStaysGone' /\ LateInv'
    BY <1>12 DEF Restart, memory, IInv, WrittenStaysGone, IsOpen, LateInv, InLog
  <2>3. QED
    BY <2>1, <2>2 DEF IInv, Core
<1>13. CASE Rejoin
  BY <1>13, RejoinStep
<1>14. CASE UNCHANGED vars
  <2>1. Core'
    BY <1>14, CoreFrame DEF vars, memory, IInv, Core
  <2>2. WrittenStaysGone' /\ LateInv'
    BY <1>14 DEF vars, memory, control, IInv, WrittenStaysGone, IsOpen, LateInv, InLog,
                 LateRows, Message
  <2>3. QED
    BY <2>1, <2>2 DEF IInv, Core
<1>15. QED
  BY <1>1, <1>2, <1>3, <1>4, <1>5, <1>6, <1>9, <1>10, <1>11, <1>12, <1>13, <1>14 DEF Next

\* The inductive invariant holds in every reachable state.
THEOREM InductiveInvariant == Spec => [](TypeOK /\ IInv)
<1>1. Init => TypeOK /\ IInv
  BY TypeInit, IInvInit
<1>2. TypeOK /\ IInv /\ [Next]_vars => (TypeOK /\ IInv)'
  BY TypeStep, IInvStep
<1>3. QED
  BY <1>1, <1>2, PTL DEF Spec

\* No trade is lost: what is below a committed offset is on object storage.
THEOREM NothingCommittedIsLost == Spec => []CommittedIsPersisted
<1>1. IInv => CommittedIsPersisted
  BY DEF IInv
<1>2. QED
  BY <1>1, InductiveInvariant, PTL

\* No offset is committed past a trade of a window still open.
THEOREM CommitHeldBack == Spec => []CommitBelowOpenWindows
<1>1. IInv => CommitBelowOpenWindows
  BY DEF IInv
<1>2. QED
  BY <1>1, InductiveInvariant, PTL

\* A minute this process has written is past and closed, pruned or not.
THEOREM WrittenMinutesStayGone == Spec => []WrittenStaysGone
<1>1. IInv => WrittenStaysGone
  BY DEF IInv
<1>2. QED
  BY <1>1, InductiveInvariant, PTL

-----------------------------------------------------------------------------
(* The speed layer implements at-least-once delivery.                      *)

LEMMA StepRefines ==
    TypeOK /\ IInv /\ (TypeOK /\ IInv)' /\ [Next]_vars => [ALO!Next]_(ALO!vars)
<1> SUFFICES ASSUME TypeOK, IInv, TypeOK', IInv', [Next]_vars
             PROVE  ALO!Next \/ UNCHANGED <<log, persisted, committed>>
  BY DEF ALO!vars
<1> USE DEF kafka, store
<1>1. ASSUME NEW p \in Partitions, NEW msg \in Msg, AppendTo(p, msg) PROVE ALO!Publish
  BY <1>1 DEF AppendTo, ALO!Publish
<1>2. ASSUME NEW s \in Symbols, NEW t \in Times, Publish(s, t) PROVE ALO!Publish
  <2>1. [symbol |-> s, event_ms |-> t, valid |-> TRUE] \in Msg /\ PartitionOf[s] \in Partitions
    BY SymbolsAssumption DEF Msg
  <2>2. QED
    BY <1>1, <1>2, <2>1 DEF Publish
<1>3. ASSUME NEW s \in Symbols, PublishMalformed(s) PROVE ALO!Publish
  <2>1. [symbol |-> s, event_ms |-> 0, valid |-> FALSE] \in Msg /\ PartitionOf[s] \in Partitions
    BY SymbolsAssumption, TimeAssumption DEF Msg, Times
  <2>2. QED
    BY <1>1, <1>3, <2>1 DEF PublishMalformed
<1>4. ASSUME persisted \subseteq persisted', log' = log, committed' = committed PROVE ALO!Persist
  BY <1>4 DEF ALO!Persist, ALO!InLog, IInv, PersistedInLog, InLog
<1>5. ASSUME NEW k \in Keys, WriteWindow(k) \/ WriteLate(k) PROVE ALO!Persist
  BY <1>4, <1>5 DEF WriteWindow, WriteLate
<1>6. CASE CommitSafely
  <2>1. committed' \in [Partitions -> Nat] /\ log' = log /\ persisted' = persisted
    BY <1>6 DEF CommitSafely, TypeOK
  <2>2. ALO!Commit
    BY <2>1 DEF ALO!Commit, ALO!Settled, IInv, CommittedIsPersisted, Message
  <2>3. QED
    BY <2>2 DEF ALO!Next
<1>7. ASSUME NEW p \in Partitions, Ingest(p) PROVE UNCHANGED <<log, persisted, committed>>
  BY <1>7 DEF Ingest, IngestMalformed, IngestLate, IngestTrade, Receive
<1>8. CASE StartFlush \/ EndWindows \/ EndFlush
  BY <1>8 DEF StartFlush, EndWindows, EndFlush
<1>9. CASE Stop \/ PutFails \/ CommitFails \/ Crash \/ Restart \/ Rejoin
  BY <1>9 DEF Stop, PutFails, CommitFails, Crash, Restart, Rejoin, EnterFinally
<1>10. CASE UNCHANGED vars
  BY <1>10 DEF vars
<1>11. QED
  BY <1>2, <1>3, <1>5, <1>6, <1>7, <1>8, <1>9, <1>10 DEF Next, FlushStep, ALO!Next

\* Every behaviour of the aggregator is one of at-least-once delivery.
THEOREM ImplementsAtLeastOnce == Spec => DeliversAtLeastOnce
<1>1. Init => ALO!Init
  BY DEF Init, ALO!Init
<1>2. QED
  BY <1>1, StepRefines, InductiveInvariant, PTL DEF Spec, DeliversAtLeastOnce, ALO!Spec
=============================================================================
