---------------------------- MODULE HealthProofs ----------------------------
(***************************************************************************)
(* Proofs about Health, for every limit, period and number of windows, and *)
(* any number of restarts, reboots and failed writes.                      *)
(***************************************************************************)
EXTENDS Health, ReceiverProofs

Beats == [count : Nat \cup {NoBeat}, total : Nat, process : Nat]

\* What the aggregator and the check keep.
HealthTypes ==
    /\ agg \in [pc : {"poll", "write", "flush", "down"}, count : Nat, process : Nat]
    /\ aggBeat \in Beats
    /\ total \in Nat
    /\ age \in [ws : Nat, agg : Nat]
    /\ elapsed \in Nat /\ idle \in Nat
    /\ state \in Beats
    /\ last \in [agg : {"none", "unreadable", "stale", "stalled", "ok"}, total : Nat,
                 saved : BOOLEAN]
    /\ before \in Nat

Limits == {WsStale, AggStale, Period, MaxWindows} \subseteq Nat

LEMMA LimitsHold == Limits /\ WsStale < Period /\ AggStale < Period
BY TimerAssumption, Zenon DEF Limits

LEMMA NoCountType == NoCount \in Beats
BY DEF NoCount, Beats, NoBeat

\* An age one unit later.
LEMMA LaterType ==
    ASSUME NEW a \in Nat, NEW n \in Nat
    PROVE  /\ Min({a + 1, n}) \in Nat
           /\ Min({a + 1, n}) = IF a + 1 <= n THEN a + 1 ELSE n
<1>1. a + 1 \in Nat
  BY SMT
<1>2. Min({a + 1, n}) = IF a + 1 <= n THEN a + 1 ELSE n
  BY <1>1, MinOfTwo, Zenon
<1>3. QED
  BY <1>1, <1>2, Zenon

-----------------------------------------------------------------------------
(* The receiver in this composition is the receiver.                       *)

\* The other parts leave the receiver alone, but for the incidents they spend.
LEMMA OthersLeaveTypes ==
    ASSUME TypeOK, UNCHANGED <<connection, producer, loop, topic, beat>>, incidents' \in Nat
    PROVE  TypeOK'
BY Zenon DEF TypeOK, connection, producer, loop

LEMMA HealthStepTypes ==
    ASSUME TypeOK, HealthNext
    PROVE  TypeOK'
<1> USE DEF AggOnly
<1>1. CASE ReceiverStep \/ RebootAll
  BY <1>1, StepTypes, Zenon DEF ReceiverStep, RebootAll
<1>2. CASE Tick
  BY <1>2, StutterTypes, Zenon DEF Tick
<1>3. CASE OpenAgg \/ WriteAgg \/ Flush \/ AggDies \/ AggRestart
  <2>1. UNCHANGED <<connection, producer, loop, topic, beat>>
    BY <1>3, Zenon DEF OpenAgg, WriteAgg, Flush, AggDies, AggRestart
  <2>2. Incident \/ UNCHANGED incidents
    BY <1>3, Zenon DEF OpenAgg, WriteAgg, Flush, AggDies, AggRestart
  <2>3. incidents' \in Nat
    BY <2>2, IncidentType, Zenon DEF TypeOK
  <2>4. QED
    BY <2>1, <2>3, OthersLeaveTypes, Zenon
<1>4. CASE Check
  <2>1. UNCHANGED <<connection, producer, loop, topic, beat>>
    BY <1>4, Zenon DEF Check
  <2>2. Incident \/ UNCHANGED incidents
    BY <1>4, Zenon DEF Check
  <2>3. incidents' \in Nat
    BY <2>2, IncidentType, Zenon DEF TypeOK
  <2>4. QED
    BY <2>1, <2>3, OthersLeaveTypes, Zenon
<1>5. QED
  BY <1>1, <1>2, <1>3, <1>4, Zenon DEF HealthNext

LEMMA HealthStutterTypes == TypeOK /\ UNCHANGED vars => TypeOK'
BY StutterTypes, Zenon DEF vars

THEOREM ReceiverTypes == HealthSpec => []TypeOK
<1>1. HealthInit => TypeOK
  BY InitTypes, Zenon DEF HealthInit
<1>2. TypeOK /\ [HealthNext]_vars => TypeOK'
  BY HealthStepTypes, HealthStutterTypes, Zenon
<1>3. QED
  BY <1>1, <1>2, PTL DEF HealthSpec

-----------------------------------------------------------------------------
(* Types of the aggregator, the clock and the check.                       *)

LEMMA HealthInitTypes == HealthInit => HealthTypes
<1> SUFFICES ASSUME HealthInit PROVE HealthTypes
  OBVIOUS
<1>1. age \in [ws : Nat, agg : Nat]
  BY LimitsHold DEF Limits, HealthInit
<1>2. agg \in [pc : {"poll", "write", "flush", "down"}, count : Nat, process : Nat]
  BY DEF HealthInit
<1>3. aggBeat \in Beats /\ state \in Beats
  BY NoCountType, Zenon DEF HealthInit
<1>4. last \in [agg : {"none", "unreadable", "stale", "stalled", "ok"}, total : Nat,
                saved : BOOLEAN]
  BY DEF HealthInit
<1>5. total \in Nat /\ elapsed \in Nat /\ idle \in Nat /\ before \in Nat
  BY DEF HealthInit
<1>6. QED
  BY <1>1, <1>2, <1>3, <1>4, <1>5, Zenon DEF HealthTypes

\* The fields of the records.
LEMMA Fields ==
    ASSUME HealthTypes
    PROVE  /\ agg.pc \in {"poll", "write", "flush", "down"}
           /\ agg.count \in Nat /\ agg.process \in Nat
           /\ aggBeat.count \in Nat \cup {NoBeat} /\ aggBeat.total \in Nat
           /\ aggBeat.process \in Nat
           /\ state.count \in Nat \cup {NoBeat} /\ state.total \in Nat
           /\ state.process \in Nat
           /\ age.ws \in Nat /\ age.agg \in Nat
           /\ last.total \in Nat
BY Zenon DEF HealthTypes, Beats

LEMMA AggTypes ==
    ASSUME HealthTypes, OpenAgg \/ WriteAgg \/ Flush \/ AggDies \/ AggRestart
    PROVE  HealthTypes'
<1> USE DEF AggOnly, check
<1>1. UNCHANGED <<elapsed, idle, state, last, before>>
  BY Zenon DEF OpenAgg, WriteAgg, Flush, AggDies, AggRestart
<1>2. CASE OpenAgg
  BY <1>1, <1>2, NoCountType, Zenon DEF OpenAgg, HealthTypes
<1>3. CASE WriteAgg
  <2>1. [count |-> agg.count, total |-> total, process |-> agg.process] \in Beats
    BY Fields, Zenon DEF HealthTypes, Beats
  <2>2. [age EXCEPT !.agg = 0] \in [ws : Nat, agg : Nat]
    BY DEF HealthTypes
  <2>3. QED
    BY <1>1, <1>3, <2>1, <2>2, Zenon DEF WriteAgg, HealthTypes
<1>4. CASE Flush
  <2>1. PICK n \in 0..(MaxWindows - total) :
            total' = total + n /\ agg' = [agg EXCEPT !.pc = "poll", !.count = @ + n]
    BY <1>4, Zenon DEF Flush
  <2>2. total' \in Nat /\ agg.count + n \in Nat
    BY <2>1, Fields, SMT DEF HealthTypes
  <2>3. agg' \in [pc : {"poll", "write", "flush", "down"}, count : Nat, process : Nat]
    BY <2>1, <2>2, Zenon DEF HealthTypes
  <2>4. QED
    BY <1>1, <1>4, <2>2, <2>3, Zenon DEF Flush, HealthTypes
<1>5. CASE AggDies
  <2>1. total' \in total..MaxWindows
    BY <1>5, Zenon DEF AggDies
  <2>2. total' \in Nat
    BY <2>1, SMT DEF HealthTypes
  <2>3. agg' \in [pc : {"poll", "write", "flush", "down"}, count : Nat, process : Nat]
    BY <1>5, Zenon DEF AggDies, HealthTypes
  <2>4. QED
    BY <1>1, <1>5, <2>2, <2>3, Zenon DEF AggDies, HealthTypes
<1>6. CASE AggRestart
  <2>1. agg.process + 1 \in Nat
    BY Fields, SMT
  <2>2. agg' \in [pc : {"poll", "write", "flush", "down"}, count : Nat, process : Nat]
    BY <1>6, <2>1, Zero, Zenon DEF AggRestart
  <2>3. QED
    BY <1>1, <1>6, <2>2, Zenon DEF AggRestart, HealthTypes
<1>7. QED
  BY <1>2, <1>3, <1>4, <1>5, <1>6

LEMMA VerdictType ==
    AggVerdict \in {"unreadable", "stale", "stalled", "ok"}
BY Zenon DEF AggVerdict, check_heartbeat

\* What a check leaves behind.
LEMMA CheckOutcome ==
    ASSUME HealthTypes, Check
    PROVE  /\ elapsed = Period /\ elapsed' = 0 /\ before' = last.total
           /\ last'.agg = AggVerdict /\ last'.total = total /\ last'.saved \in BOOLEAN
           /\ last'.saved => state' = aggBeat
           /\ state' \in {aggBeat, state, NoCount}
           /\ UNCHANGED <<agg, aggBeat, total, age, idle, pc, beat>>
           /\ last' \in [agg : {"none", "unreadable", "stale", "stalled", "ok"}, total : Nat,
                         saved : BOOLEAN]
<1>1. /\ elapsed = Period /\ elapsed' = 0 /\ before' = last.total
      /\ UNCHANGED <<agg, aggBeat, total, age, idle, pc, beat>>
  BY Zenon DEF Check, aggregator, loop
<1>2. PICK saved \in BOOLEAN :
          /\ last' = [agg |-> AggVerdict, total |-> total, saved |-> saved]
          /\ IF saved THEN state' = aggBeat /\ UNCHANGED incidents
                      ELSE state' \in {state, NoCount} /\ Incident
  BY Zenon DEF Check
<1>3. last'.agg = AggVerdict /\ last'.total = total /\ last'.saved = saved
  BY <1>2, Zenon
<1>4. (saved => state' = aggBeat) /\ state' \in {aggBeat, state, NoCount}
  BY <1>2, Zenon
<1>5. AggVerdict \in {"none", "unreadable", "stale", "stalled", "ok"} /\ total \in Nat
  BY VerdictType, Zenon DEF HealthTypes
<1>6. QED
  BY <1>1, <1>2, <1>3, <1>4, <1>5, Zenon

LEMMA TickOutcome ==
    ASSUME HealthTypes, Tick
    PROVE  /\ age'.ws = (IF age.ws + 1 <= WsStale + 1 THEN age.ws + 1 ELSE WsStale + 1)
           /\ age'.agg = (IF age.agg + 1 <= AggStale + 1 THEN age.agg + 1 ELSE AggStale + 1)
           /\ idle' = (IF idle + 1 <= WsStale + 1 THEN idle + 1 ELSE WsStale + 1)
           /\ elapsed' = (IF elapsed + 1 <= Period THEN elapsed + 1 ELSE Period)
           /\ age' \in [ws : Nat, agg : Nat] /\ idle' \in Nat /\ elapsed' \in Nat
           /\ UNCHANGED <<agg, aggBeat, total, state, last, before, pc, beat>>
<1>1. /\ WsStale + 1 \in Nat /\ AggStale + 1 \in Nat /\ Period \in Nat
      /\ age.ws \in Nat /\ age.agg \in Nat /\ idle \in Nat /\ elapsed \in Nat
  BY LimitsHold, Fields, SMT DEF Limits, HealthTypes
<1>2. /\ age' = [ws |-> Min({age.ws + 1, WsStale + 1}), agg |-> Min({age.agg + 1, AggStale + 1})]
      /\ idle' = Min({idle + 1, WsStale + 1}) /\ elapsed' = Min({elapsed + 1, Period})
      /\ UNCHANGED <<agg, aggBeat, total, state, last, before, pc, beat>>
  BY Zenon DEF Tick, aggregator, check, receiver, loop
<1>3. /\ age'.ws = Min({age.ws + 1, WsStale + 1}) /\ age'.agg = Min({age.agg + 1, AggStale + 1})
  BY <1>2, Zenon
<1>4. /\ Min({age.ws + 1, WsStale + 1}) \in Nat /\ Min({age.agg + 1, AggStale + 1}) \in Nat
      /\ idle' \in Nat /\ elapsed' \in Nat
  BY <1>1, <1>2, LaterType, Zenon
<1>5. QED
  BY <1>1, <1>2, <1>3, <1>4, LaterType, Zenon

LEMMA ReceiverOutcome ==
    ASSUME HealthTypes, ReceiverStep
    PROVE  /\ age'.agg = age.agg /\ age'.ws = (IF BeatWritten THEN 0 ELSE age.ws)
           /\ idle' = (IF Accepted THEN 0 ELSE idle)
           /\ age' \in [ws : Nat, agg : Nat] /\ idle' \in Nat
           /\ UNCHANGED <<agg, aggBeat, total, elapsed, state, last, before>>
<1>1. age \in [ws : Nat, agg : Nat] /\ idle \in Nat
  BY Zenon DEF HealthTypes
<1>2. /\ age' = IF BeatWritten THEN [age EXCEPT !.ws = 0] ELSE age
      /\ idle' = IF Accepted THEN 0 ELSE idle
      /\ UNCHANGED <<agg, aggBeat, total, elapsed, state, last, before>>
  BY Zenon DEF ReceiverStep, aggregator, check
<1>3. /\ [age EXCEPT !.ws = 0].agg = age.agg /\ [age EXCEPT !.ws = 0].ws = 0
      /\ [age EXCEPT !.ws = 0] \in [ws : Nat, agg : Nat]
  BY <1>1
<1>4. QED
  BY <1>1, <1>2, <1>3, Zero, Zenon

LEMMA HealthTypesKept ==
    ASSUME HealthTypes, HealthNext
    PROVE  HealthTypes'
<1>1. CASE ReceiverStep
  BY <1>1, ReceiverOutcome, Zenon DEF HealthTypes
<1>2. CASE Tick
  BY <1>2, TickOutcome, Zenon DEF HealthTypes
<1>3. CASE OpenAgg \/ WriteAgg \/ Flush \/ AggDies \/ AggRestart
  BY <1>3, AggTypes, Zenon
<1>4. CASE RebootAll
  <2>1. agg' \in [pc : {"poll", "write", "flush", "down"}, count : Nat, process : Nat]
    BY <1>4, Zenon DEF RebootAll, HealthTypes
  <2>2. QED
    BY <1>4, <2>1, NoCountType, Zenon DEF RebootAll, HealthTypes, time
<1>5. CASE Check
  <2>1. before' \in Nat /\ state' \in Beats /\ elapsed' \in Nat
    BY <1>5, CheckOutcome, Fields, NoCountType, Zero, Zenon DEF HealthTypes
  <2>2. QED
    BY <1>5, <2>1, CheckOutcome, Zenon DEF HealthTypes
<1>6. QED
  BY <1>1, <1>2, <1>3, <1>4, <1>5, Zenon DEF HealthNext

LEMMA HealthTypesStutter == HealthTypes /\ UNCHANGED vars => HealthTypes'
BY Zenon DEF HealthTypes, vars, aggregator, time, check

\* The aggregator's heartbeat, the ages and what the check keeps are of their types.
THEOREM HealthTypeCorrect == HealthSpec => []HealthTypes
<1>1. HealthTypes /\ [HealthNext]_vars => HealthTypes'
  BY HealthTypesKept, HealthTypesStutter, Zenon
<1>2. QED
  BY <1>1, HealthInitTypes, PTL DEF HealthSpec

-----------------------------------------------------------------------------
(* What two readings of the counter say about each other.                  *)

Read(r) == r.count # NoBeat

\* Of two readings, r came before b: a process counts what it writes, and one that
\* started in between has counted no more than was written since.
Precedes(r, b) ==
    /\ r.total <= b.total /\ r.process <= b.process
    /\ r.process = b.process => b.count - r.count = b.total - r.total
    /\ r.process < b.process => b.count <= b.total - r.total

\* What a heartbeat written now would say, while the aggregator runs.
Current == [count |-> agg.count, total |-> total, process |-> agg.process]
Running == agg.pc # "down"

\* A reading against the aggregator: one that died has written more than it counted.
Past(r, current, running) ==
    /\ r.total <= current.total /\ r.process <= current.process
    /\ running => Precedes(r, current)

\* The inductive invariant of the counters.
CountsInv ==
    /\ Read(aggBeat) => Past(aggBeat, Current, Running)
    /\ Read(state) => Past(state, Current, Running)
    /\ Read(state) /\ Read(aggBeat) => Precedes(state, aggBeat)

LEMMA CurrentFields ==
    ASSUME HealthTypes
    PROVE  /\ Current.count = agg.count /\ Current.total = total
           /\ Current.process = agg.process
           /\ Current.count \in Nat /\ Current.total \in Nat /\ Current.process \in Nat
<1>1. Current.count = agg.count /\ Current.total = total /\ Current.process = agg.process
  BY Zenon DEF Current
<1>2. QED
  BY <1>1, Fields, Zenon DEF HealthTypes

LEMMA NothingRead == ~Read(NoCount)
BY DEF Read, NoCount

LEMMA ReadingFields ==
    ASSUME HealthTypes, NEW r \in {aggBeat, state}, Read(r)
    PROVE  r.count \in Nat /\ r.total \in Nat /\ r.process \in Nat
BY Fields, Zenon DEF Read

\* The same process counts n windows.
LEMMA PastCounted ==
    ASSUME NEW r, r.count \in Nat, r.total \in Nat, r.process \in Nat,
           NEW c, c.count \in Nat, c.total \in Nat, c.process \in Nat,
           NEW d, NEW n \in Nat,
           d.count = c.count + n, d.total = c.total + n, d.process = c.process,
           Past(r, c, TRUE)
    PROVE  Past(r, d, TRUE)
BY SMT DEF Past, Precedes

\* A process dies with windows it has not counted.
LEMMA PastDead ==
    ASSUME NEW r, r.count \in Nat, r.total \in Nat, r.process \in Nat,
           NEW c, c.total \in Nat, NEW d, d.total \in Nat,
           c.total <= d.total, d.process = c.process,
           NEW running, Past(r, c, running)
    PROVE  Past(r, d, FALSE)
BY SMT DEF Past

\* The next process has counted nothing.
LEMMA PastRestarted ==
    ASSUME NEW r, r.count \in Nat, r.total \in Nat, r.process \in Nat,
           NEW c, c.total \in Nat, c.process \in Nat,
           NEW d, d.count = 0, d.total = c.total, d.process = c.process + 1,
           NEW running, Past(r, c, running)
    PROVE  Past(r, d, TRUE)
BY SMT DEF Past, Precedes

LEMMA PrecedesItself ==
    ASSUME NEW r, r.count \in Nat, r.total \in Nat, r.process \in Nat
    PROVE  Precedes(r, r)
BY SMT DEF Precedes

LEMMA CountsInit == HealthInit => CountsInv
BY NothingRead, Zenon DEF HealthInit, CountsInv

LEMMA CountsSame ==
    ASSUME CountsInv, UNCHANGED <<agg, aggBeat, total, state>>
    PROVE  CountsInv'
BY Zenon DEF CountsInv, Current, Running

\* A step that leaves both readings alone, or forgets one.
LEMMA CountsKept ==
    ASSUME CountsInv,
           aggBeat' \in {aggBeat, NoCount}, state' \in {state, NoCount},
           Read(aggBeat) => Past(aggBeat, Current', Running'),
           Read(state) => Past(state, Current', Running')
    PROVE  CountsInv'
<1>1. Read(aggBeat') => aggBeat' = aggBeat
  BY NothingRead, Zenon
<1>2. Read(state') => state' = state
  BY NothingRead, Zenon
<1>3. Read(aggBeat') => Past(aggBeat', Current', Running')
  BY <1>1, Zenon
<1>4. Read(state') => Past(state', Current', Running')
  BY <1>2, Zenon
<1>5. Read(state') /\ Read(aggBeat') => Precedes(state', aggBeat')
  BY <1>1, <1>2, Zenon DEF CountsInv
<1>6. QED
  BY <1>3, <1>4, <1>5, Zenon DEF CountsInv, Read

LEMMA CountsAgg ==
    ASSUME HealthTypes, HealthTypes', CountsInv, OpenAgg \/ WriteAgg \/ Flush \/ AggDies \/ AggRestart
    PROVE  CountsInv'
<1>1. UNCHANGED state
  BY Zenon DEF OpenAgg, WriteAgg, Flush, AggDies, AggRestart, AggOnly, check
<1>2. /\ Current.count \in Nat /\ Current.total \in Nat /\ Current.process \in Nat
      /\ Current'.count = agg'.count /\ Current'.total = total' /\ Current'.process = agg'.process
      /\ Current'.total \in Nat
      /\ Current.count = agg.count /\ Current.total = total /\ Current.process = agg.process
      /\ agg \in [pc : {"poll", "write", "flush", "down"}, count : Nat, process : Nat]
  <2>1. Current'.count = agg'.count /\ Current'.total = total' /\ Current'.process = agg'.process
    BY Zenon DEF Current
  <2>2. QED
    BY <2>1, CurrentFields, Zenon DEF HealthTypes
<1>3. CASE OpenAgg \/ WriteAgg
  <2>1. /\ total' = total /\ agg'.count = agg.count /\ agg'.process = agg.process
        /\ agg.pc # "down" /\ agg'.pc # "down"
    BY <1>2, <1>3, Zenon DEF OpenAgg, WriteAgg
  <2>2. Current' = Current /\ Running' = Running /\ Running
    BY <2>1, Zenon DEF Current, Running
  <2>3. CASE aggBeat' \in {aggBeat, NoCount}
    BY <1>1, <2>2, <2>3, CountsKept, Zenon DEF CountsInv
  <2>4. CASE aggBeat' = Current
    <3>1. Precedes(Current, Current)
      BY <1>2, PrecedesItself, Zenon
    <3>2. Past(aggBeat', Current', Running')
      BY <2>2, <2>4, <3>1, Zenon DEF Past, Precedes
    <3>3. Read(state') => Past(state', Current', Running') /\ Precedes(state', aggBeat')
      BY <1>1, <2>2, <2>4, Zenon DEF CountsInv, Past
    <3>4. QED
      BY <3>2, <3>3, Zenon DEF CountsInv, Read
  <2>5. aggBeat' \in {aggBeat, NoCount, Current}
    BY <1>3, Zenon DEF OpenAgg, WriteAgg, Current
  <2>6. QED
    BY <2>3, <2>4, <2>5, Zenon
<1>4. CASE Flush
  <2>1. PICK n \in 0..(MaxWindows - total) :
            total' = total + n /\ agg' = [agg EXCEPT !.pc = "poll", !.count = @ + n]
    BY <1>4, Zenon DEF Flush
  <2>2. n \in Nat
    BY <1>2, LimitsHold, SMT DEF Limits
  <2>3. /\ Current'.count = Current.count + n /\ Current'.total = Current.total + n
        /\ Current'.process = Current.process
    BY <1>2, <2>1, Zenon
  <2>4. Running = TRUE /\ Running' = TRUE
    BY <1>2, <1>4, <2>1, Zenon DEF Running, Flush
  <2>5. ASSUME NEW r \in {aggBeat, state}, Read(r), Past(r, Current, Running)
        PROVE  Past(r, Current', Running')
    BY <1>2, <2>2, <2>3, <2>4, <2>5, ReadingFields, PastCounted, Zenon
  <2>6. UNCHANGED aggBeat
    BY <1>4, Zenon DEF Flush
  <2>7. QED
    BY <1>1, <2>5, <2>6, CountsKept, Zenon DEF CountsInv
<1>5. CASE AggDies
  <2>1. /\ total' \in total..MaxWindows /\ agg' = [agg EXCEPT !.pc = "down"]
        /\ UNCHANGED aggBeat
    BY <1>5, Zenon DEF AggDies
  <2>2. Current.total <= Current'.total
    BY <1>2, <2>1, LimitsHold, SMT DEF Limits
  <2>3. Current'.process = Current.process /\ Running' = FALSE
    BY <1>2, <2>1, Zenon DEF Running
  <2>4. ASSUME NEW r \in {aggBeat, state}, Read(r), Past(r, Current, Running)
        PROVE  Past(r, Current', Running')
    BY <1>2, <2>2, <2>3, <2>4, ReadingFields, PastDead, Zenon
  <2>5. QED
    BY <1>1, <2>1, <2>4, CountsKept, Zenon DEF CountsInv
<1>6. CASE AggRestart
  <2>1. /\ agg' = [pc |-> "poll", count |-> 0, process |-> agg.process + 1]
        /\ UNCHANGED <<aggBeat, total>>
    BY <1>6, Zenon DEF AggRestart
  <2>2. /\ Current'.count = 0 /\ Current'.total = Current.total
        /\ Current'.process = Current.process + 1 /\ Running' = TRUE
    BY <1>2, <2>1, Zenon DEF Running
  <2>3. ASSUME NEW r \in {aggBeat, state}, Read(r), Past(r, Current, Running)
        PROVE  Past(r, Current', Running')
    BY <1>2, <2>2, <2>3, ReadingFields, PastRestarted, Zenon
  <2>4. QED
    BY <1>1, <2>1, <2>3, CountsKept, Zenon DEF CountsInv
<1>7. QED
  BY <1>3, <1>4, <1>5, <1>6

LEMMA CountsStep ==
    ASSUME HealthTypes, HealthTypes', CountsInv, HealthNext
    PROVE  CountsInv'
<1>1. CASE ReceiverStep
  BY <1>1, ReceiverOutcome, CountsSame, Zenon
<1>2. CASE Tick
  BY <1>2, TickOutcome, CountsSame, Zenon
<1>3. CASE OpenAgg \/ WriteAgg \/ Flush \/ AggDies \/ AggRestart
  BY <1>3, CountsAgg, Zenon
<1>4. CASE RebootAll
  <2>1. ~Read(aggBeat') /\ ~Read(state')
    BY <1>4, NothingRead, Zenon DEF RebootAll
  <2>2. QED
    BY <2>1, Zenon DEF CountsInv, Read
<1>5. CASE Check
  <2>1. UNCHANGED <<agg, aggBeat, total>> /\ state' \in {aggBeat, state, NoCount}
    BY <1>5, CheckOutcome, Zenon
  <2>2. Current' = Current /\ Running' = Running
    BY <2>1, Zenon DEF Current, Running
  <2>3. CASE state' \in {state, NoCount}
    BY <2>1, <2>2, <2>3, CountsKept, Zenon DEF CountsInv
  <2>4. CASE state' = aggBeat
    <3>1. Read(aggBeat) => Precedes(aggBeat, aggBeat)
      BY ReadingFields, PrecedesItself, Zenon
    <3>2. Read(aggBeat') => Past(aggBeat', Current', Running')
      BY <2>1, <2>2, Zenon DEF CountsInv
    <3>3. Read(state') => Past(state', Current', Running') /\ Precedes(state', aggBeat')
      BY <2>1, <2>4, <3>1, <3>2, Zenon
    <3>4. QED
      BY <3>2, <3>3, Zenon DEF CountsInv, Read
  <2>5. QED
    BY <2>1, <2>3, <2>4, Zenon
<1>6. QED
  BY <1>1, <1>2, <1>3, <1>4, <1>5, Zenon DEF HealthNext

LEMMA CountsStutter == CountsInv /\ UNCHANGED vars => CountsInv'
BY CountsSame, Zenon DEF vars, aggregator, check

LEMMA CountsAlways == HealthSpec => []CountsInv
<1>1. HealthTypes /\ HealthTypes' /\ CountsInv /\ [HealthNext]_vars => CountsInv'
  BY CountsStep, CountsStutter, Zenon
<1>2. QED
  BY <1>1, CountsInit, HealthTypeCorrect, PTL DEF HealthSpec

\* What the verdict of the check says of the two counts it read.
LEMMA OkCounts ==
    ASSUME HealthTypes, AggVerdict = "ok", state.count # NoBeat
    PROVE  /\ aggBeat.count # NoBeat /\ age.agg <= AggStale
           /\ Read(aggBeat) /\ Read(state) /\ state.count < aggBeat.count
<1>1. /\ aggBeat.count # NoBeat /\ ~(age.agg > AggStale)
      /\ ~NoProgress(aggBeat.count, state.count)
  BY Zenon DEF AggVerdict, check_heartbeat
<1>2. Read(aggBeat) /\ Read(state)
  BY <1>1, Zenon DEF Read
<1>3. aggBeat.count \in Nat /\ state.count \in Nat /\ age.agg \in Nat /\ AggStale \in Nat
  BY <1>2, ReadingFields, Fields, LimitsHold, Zenon DEF Limits
<1>4. QED
  BY <1>1, <1>2, <1>3, SMT DEF NoProgress

LEMMA OkMeansMore ==
    ASSUME HealthTypes, CountsInv, AggVerdict = "ok", state.count # NoBeat
    PROVE  state.total < aggBeat.total /\ aggBeat.total <= total
<1>1. Read(aggBeat) /\ Read(state) /\ state.count < aggBeat.count
  BY OkCounts, Zenon
<1>2. /\ aggBeat.count \in Nat /\ aggBeat.total \in Nat /\ aggBeat.process \in Nat
      /\ state.count \in Nat /\ state.total \in Nat /\ state.process \in Nat
  BY <1>1, ReadingFields, Zenon
<1>3. Precedes(state, aggBeat) /\ aggBeat.total <= total
  BY <1>1, CurrentFields, Zenon DEF CountsInv, Past
<1>4. QED
  BY <1>1, <1>2, <1>3, SMT DEF Precedes

\* A check that passes is true, through every restart, reboot and half-written file:
\* windows were written between the two heartbeats it compared.
THEOREM PassingChecksAreTrue == HealthSpec => OkMeansWindows
<1>1. HealthTypes /\ CountsInv /\ Check /\ AggVerdict = "ok" /\ state.count # NoBeat
          => aggBeat.total > state.total
  <2>1. HealthTypes => aggBeat.total \in Nat /\ state.total \in Nat
    BY Fields, Zenon
  <2>2. HealthTypes /\ CountsInv /\ Check /\ AggVerdict = "ok" /\ state.count # NoBeat
            => state.total < aggBeat.total
    BY OkMeansMore, Zenon
  <2>3. QED
    BY <2>1, <2>2, SMT
<1>2. QED
  BY <1>1, HealthTypeCorrect, CountsAlways, PTL DEF HealthSpec, OkMeansWindows

\* "Stalled" is true of a process that was there at both heartbeats.
THEOREM StallsAreTrue == HealthSpec => StalledMeansNone
<1>1. ASSUME HealthTypes, CountsInv, AggVerdict = "stalled", aggBeat.process = state.process
      PROVE  aggBeat.total = state.total
  <2>1. /\ aggBeat.count # NoBeat /\ state.count # NoBeat
        /\ NoProgress(aggBeat.count, state.count)
    BY <1>1, Zenon DEF AggVerdict, check_heartbeat
  <2>2. Read(aggBeat) /\ Read(state)
    BY <2>1, Zenon DEF Read
  <2>3. /\ aggBeat.count \in Nat /\ aggBeat.total \in Nat /\ aggBeat.process \in Nat
        /\ state.count \in Nat /\ state.total \in Nat /\ state.process \in Nat
    BY <1>1, <2>2, ReadingFields, Zenon
  <2>4. Precedes(state, aggBeat)
    BY <1>1, <2>2, Zenon DEF CountsInv
  <2>5. QED
    BY <1>1, <2>1, <2>3, <2>4, SMT DEF Precedes, NoProgress
<1>2. HealthTypes /\ CountsInv =>
          (Check /\ AggVerdict = "stalled" /\ aggBeat.process = state.process =>
               aggBeat.total = state.total)
  BY <1>1, Zenon
<1>3. QED
  BY <1>2, HealthTypeCorrect, CountsAlways, PTL DEF HealthSpec, StalledMeansNone

-----------------------------------------------------------------------------
(* What the check remembers.                                               *)

\* A fresh heartbeat that is younger than the last check knows of every window the
\* last check saw; so the state that a passing check saved knows of every window of
\* the check before it.
Remembered ==
    /\ last.total <= total
    /\ Read(aggBeat) /\ age.agg <= AggStale /\ age.agg < elapsed => last.total <= aggBeat.total
    /\ last.agg = "ok" /\ last.saved /\ Read(state) => before <= state.total

LEMMA RememberedInit == HealthInit => Remembered
<1> SUFFICES ASSUME HealthInit PROVE Remembered
  OBVIOUS
<1>1. last.total = 0 /\ total = 0 /\ ~Read(aggBeat) /\ ~Read(state)
  BY NothingRead, Zenon DEF HealthInit
<1>2. 0 <= 0
  BY SMT
<1>3. QED
  BY <1>1, <1>2, Zenon DEF Remembered

\* A step that writes windows, if any, and takes no reading.
LEMMA RememberedKept ==
    ASSUME HealthTypes, HealthTypes', Remembered, total <= total',
           UNCHANGED <<last, before>>, elapsed' = elapsed, age'.agg = age.agg,
           aggBeat' \in {aggBeat, NoCount}, state' \in {state, NoCount}
    PROVE  Remembered'
<1>1. Read(aggBeat') => aggBeat' = aggBeat
  BY NothingRead, Zenon
<1>2. Read(state') => state' = state
  BY NothingRead, Zenon
<1>3. last.total <= total'
  BY Fields, SMT DEF HealthTypes, Remembered
<1>4. QED
  BY <1>1, <1>2, <1>3, Zenon DEF Remembered

LEMMA RememberedTick ==
    ASSUME HealthTypes, Remembered, Tick
    PROVE  Remembered'
<1>1. UNCHANGED <<last, before, total, aggBeat, state>>
  BY TickOutcome, Zenon
<1>2. age'.agg <= AggStale /\ age'.agg < elapsed' => age.agg <= AggStale /\ age.agg < elapsed
  BY TickOutcome, Fields, LimitsHold, SMT DEF Limits, HealthTypes
<1>3. QED
  BY <1>1, <1>2, Zenon DEF Remembered

LEMMA RememberedAgg ==
    ASSUME HealthTypes, HealthTypes', Remembered,
           OpenAgg \/ WriteAgg \/ Flush \/ AggDies \/ AggRestart
    PROVE  Remembered'
<1>1. UNCHANGED <<elapsed, idle, state, last, before>>
  BY Zenon DEF OpenAgg, WriteAgg, Flush, AggDies, AggRestart, AggOnly, check
<1>2. total <= total'
  <2>1. CASE Flush
    <3>1. PICK n \in 0..(MaxWindows - total) : total' = total + n
      BY <2>1, Zenon DEF Flush
    <3>2. total \in Nat /\ MaxWindows \in Nat
      BY LimitsHold, Zenon DEF Limits, HealthTypes
    <3>3. QED
      BY <3>1, <3>2, SMT
  <2>2. CASE AggDies
    <3>1. total' \in total..MaxWindows /\ total \in Nat /\ MaxWindows \in Nat
      BY <2>2, LimitsHold, Zenon DEF AggDies, Limits, HealthTypes
    <3>2. QED
      BY <3>1, SMT
  <2>3. CASE OpenAgg \/ WriteAgg \/ AggRestart
    <3>1. total' = total /\ total \in Nat
      BY <2>3, Zenon DEF OpenAgg, WriteAgg, AggRestart, HealthTypes
    <3>2. QED
      BY <3>1, SMT
  <2>4. QED
    BY <2>1, <2>2, <2>3
<1>3. CASE aggBeat' \in {aggBeat, NoCount} /\ age' = age
  BY <1>1, <1>2, <1>3, RememberedKept, Zenon
<1>4. CASE aggBeat'.total = total /\ total' = total
  BY <1>1, <1>4, Zenon DEF Remembered
<1>5. CASE WriteAgg
  <2>1. \/ aggBeat' = [count |-> agg.count, total |-> total, process |-> agg.process]
        \/ UNCHANGED <<aggBeat, age>>
    BY <1>5, Zenon DEF WriteAgg
  <2>2. total' = total
    BY <1>5, Zenon DEF WriteAgg
  <2>3. CASE aggBeat' = [count |-> agg.count, total |-> total, process |-> agg.process]
    <3>1. aggBeat'.total = total
      BY <2>3, Zenon
    <3>2. QED
      BY <1>4, <2>2, <3>1, Zenon
  <2>4. CASE UNCHANGED <<aggBeat, age>>
    BY <1>3, <2>4, Zenon
  <2>5. QED
    BY <2>1, <2>3, <2>4, Zenon
<1>6. CASE OpenAgg \/ Flush \/ AggDies \/ AggRestart
  <2>1. aggBeat' \in {aggBeat, NoCount} /\ age' = age
    BY <1>6, Zenon DEF OpenAgg, Flush, AggDies, AggRestart
  <2>2. QED
    BY <1>3, <2>1, Zenon
<1>7. QED
  BY <1>5, <1>6

LEMMA RememberedCheck ==
    ASSUME HealthTypes, HealthTypes', Remembered, Check
    PROVE  Remembered'
<1>1. /\ elapsed = Period /\ elapsed' = 0 /\ before' = last.total /\ last'.total = total
      /\ last'.agg = AggVerdict /\ (last'.saved => state' = aggBeat)
      /\ UNCHANGED <<aggBeat, total, age>>
  BY CheckOutcome, Zenon
<1>2. last'.total <= total'
  BY <1>1, SMT DEF HealthTypes
<1>3. ~(age'.agg < elapsed')
  BY <1>1, Fields, SMT
<1>4. ASSUME AggVerdict = "ok", Read(aggBeat)
      PROVE  last.total <= aggBeat.total
  <2>1. ~(age.agg > AggStale)
    BY <1>4, Zenon DEF AggVerdict, check_heartbeat
  <2>2. age.agg <= AggStale /\ age.agg < elapsed
    BY <1>1, <2>1, Fields, LimitsHold, SMT DEF Limits
  <2>3. QED
    BY <1>4, <2>2, Zenon DEF Remembered
<1>5. last'.agg = "ok" /\ last'.saved /\ Read(state') => before' <= state'.total
  BY <1>1, <1>4, Zenon
<1>6. QED
  BY <1>2, <1>3, <1>5, Zenon DEF Remembered, Read

LEMMA RememberedStep ==
    ASSUME HealthTypes, HealthTypes', Remembered, HealthNext
    PROVE  Remembered'
<1> USE DEF HealthTypes
<1>1. CASE ReceiverStep \/ RebootAll
  <2>1. /\ total' = total /\ UNCHANGED <<last, before>> /\ elapsed' = elapsed
        /\ age'.agg = age.agg
        /\ aggBeat' \in {aggBeat, NoCount} /\ state' \in {state, NoCount}
    BY <1>1, ReceiverOutcome, Zenon DEF RebootAll, time
  <2>2. total <= total'
    BY <2>1, SMT
  <2>3. QED
    BY <2>1, <2>2, RememberedKept, Zenon
<1>2. QED
  BY <1>1, RememberedTick, RememberedAgg, RememberedCheck, Zenon DEF HealthNext

LEMMA RememberedStutter == Remembered /\ UNCHANGED vars => Remembered'
BY Zenon DEF Remembered, vars, aggregator, time, check

\* A stalled aggregator does not pass two checks in a row.
THEOREM StallsAreReported == HealthSpec => StallReported
<1>1. HealthTypes /\ HealthTypes' /\ Remembered /\ [HealthNext]_vars => Remembered'
  BY RememberedStep, RememberedStutter, Zenon
<1>2. HealthSpec => []Remembered
  BY <1>1, RememberedInit, HealthTypeCorrect, PTL DEF HealthSpec
<1>3. ASSUME HealthTypes, CountsInv, Remembered,
             AggVerdict = "ok", last.agg = "ok", last.saved, state.count # NoBeat
      PROVE  total > before
  <2>1. before <= state.total
    BY <1>3, Zenon DEF Remembered, Read
  <2>2. state.total < aggBeat.total /\ aggBeat.total <= total
    BY <1>3, OkMeansMore, Zenon
  <2>3. before \in Nat /\ state.total \in Nat /\ aggBeat.total \in Nat /\ total \in Nat
    BY <1>3, Fields, Zenon DEF HealthTypes
  <2>4. QED
    BY <2>1, <2>2, <2>3, SMT
<1>4. HealthTypes /\ CountsInv /\ Remembered =>
          (Check /\ AggVerdict = "ok" /\ last.agg = "ok" /\ last.saved /\ state.count # NoBeat =>
               total > before)
  BY <1>3, Zenon
<1>5. QED
  BY <1>2, <1>4, HealthTypeCorrect, CountsAlways, PTL DEF HealthSpec, StallReported

-----------------------------------------------------------------------------
(* The receiver's heartbeat.                                               *)

\* From the trade that is accepted to the heartbeat it may cause.
Publishing == {"poll", "open", "write"}

\* The last accepted trade is no older than the heartbeat.
AcceptedInv ==
    /\ idle <= age.ws
    /\ pc \in Publishing => idle = 0

\* A trade that produce() takes lengthens the queue.
LEMMA ProduceAccepts ==
    ASSUME TypeOK, Produce
    PROVE  Accepted
<1> DEFINE p == PartitionOf[Head(socket)[1]]
<1>1. queue' = [queue EXCEPT ![p] = Append(queue[p], Head(socket))]
  BY Zenon DEF Produce
<1>2. p \in Partitions /\ Head(socket) \in Trades
  BY HeadOfSocket, Zenon DEF Produce
<1> HIDE DEF p
<1>3. queue \in [Partitions -> Seq(Trades)] /\ queue[p] \in Seq(Trades)
  BY <1>2, Zenon DEF TypeOK
<1>4. queue'[p] = Append(queue[p], Head(socket))
  BY <1>1, <1>2, <1>3, Zenon
<1>5. Len(queue'[p]) > Len(queue[p])
  BY <1>2, <1>3, <1>4, SMT
<1>6. QED
  BY <1>2, <1>5, Zenon DEF Accepted

\* The loop enters that part with Produce and writes the heartbeat at its end.
LEMMA PublishingSteps ==
    ASSUME Step
    PROVE  /\ pc' \in Publishing => Produce \/ pc \in Publishing
           /\ BeatWritten => pc = "write"
<1> USE DEF Publishing, BeatWritten
<1>1. CASE \/ \E s \in Symbols : Trade(s)
           \/ \E p \in Partitions : Broker(p) \/ Expire(p)
           \/ SocketDies \/ StopRequested
  <2>1. UNCHANGED <<pc, beat>>
    BY <1>1, Zenon DEF Trade, Broker, Expire, Background, SocketDies, StopRequested, loop
  <2>2. QED
    BY <2>1, Zenon
<1>2. CASE StreamError \/ QueueFull
  <2>1. pc' = "sleep" /\ UNCHANGED beat
    BY <1>2, Zenon DEF StreamError, QueueFull, BufferError, Reconnects
  <2>2. QED
    BY <2>1, Zenon
<1>3. CASE FlushAndExit \/ Crash
  <2>1. pc' = "down" /\ UNCHANGED beat
    BY <1>3, Zenon DEF FlushAndExit, Crash, Down
  <2>2. QED
    BY <2>1, Zenon
<1>4. CASE Connect \/ Wake \/ Silence \/ LeaveLoop \/ Restart
  <2>1. pc' \in {"recv", "connect", "flush"} /\ UNCHANGED beat
    BY <1>4, Zenon DEF Connect, Wake, Silence, LeaveLoop, Restart
  <2>2. QED
    BY <2>1, Zenon
<1>5. CASE Produce
  <2>1. UNCHANGED beat
    BY <1>5, Zenon DEF Produce
  <2>2. QED
    BY <1>5, <2>1, Zenon
<1>6. CASE Poll
  <2>1. pc = "poll" /\ UNCHANGED beat
    BY <1>6, Zenon DEF Poll
  <2>2. QED
    BY <2>1, Zenon
<1>7. CASE OpenHeartbeat
  <2>1. pc = "open" /\ beat' \in {beat, NoBeat}
    BY <1>7, Zenon DEF OpenHeartbeat
  <2>2. QED
    BY <2>1, Zenon
<1>8. CASE WriteHeartbeat
  BY <1>8, Zenon DEF WriteHeartbeat
<1>9. QED
  BY <1>1, <1>2, <1>3, <1>4, <1>5, <1>6, <1>7, <1>8, Zenon DEF Step, Loop

LEMMA AcceptedInit == HealthInit => AcceptedInv
<1> SUFFICES ASSUME HealthInit PROVE AcceptedInv
  OBVIOUS
<1>1. idle = 0 /\ age.ws = WsStale + 1
  BY Zenon DEF HealthInit
<1>2. QED
  BY <1>1, LimitsHold, SMT DEF Limits, AcceptedInv

LEMMA AcceptedKept ==
    ASSUME TypeOK, HealthTypes, HealthTypes', AcceptedInv, HealthNext
    PROVE  AcceptedInv'
<1>1. CASE ReceiverStep
  <2>1. /\ age'.ws = (IF BeatWritten THEN 0 ELSE age.ws)
        /\ idle' = (IF Accepted THEN 0 ELSE idle)
    BY <1>1, ReceiverOutcome, Zenon
  <2>2. /\ pc' \in Publishing => Accepted \/ pc \in Publishing
        /\ BeatWritten => pc \in Publishing
    BY <1>1, PublishingSteps, ProduceAccepts, Zenon DEF ReceiverStep, Publishing
  <2>3. idle' \in {0, idle}
    BY <2>1, Zenon
  <2>4. pc' \in Publishing => idle' = 0
    BY <2>1, <2>2, Zenon DEF AcceptedInv
  <2>5. idle' <= age'.ws
    <3>1. CASE BeatWritten
      <4>1. idle = 0 /\ idle' = 0 /\ age'.ws = 0
        BY <2>1, <2>2, <3>1, Zenon DEF AcceptedInv
      <4>2. QED
        BY <4>1, SMT
    <3>2. CASE ~BeatWritten
      <4>1. age'.ws = age.ws /\ idle <= age.ws /\ age.ws \in Nat /\ idle \in Nat
        BY <2>1, <3>2, Fields, Zenon DEF AcceptedInv, HealthTypes
      <4>2. QED
        BY <2>3, <4>1, SMT
    <3>3. QED
      BY <3>1, <3>2
  <2>6. QED
    BY <2>4, <2>5, Zenon DEF AcceptedInv
<1>2. CASE Tick
  <2>1. pc' = pc /\ pc \notin Publishing
    BY <1>2, TickOutcome, Zenon DEF Tick, Waiting, Publishing
  <2>2. idle' <= age'.ws
    BY <1>2, TickOutcome, Fields, LimitsHold, SMT DEF Limits, AcceptedInv, HealthTypes
  <2>3. QED
    BY <2>1, <2>2, Zenon DEF AcceptedInv
<1>3. CASE OpenAgg \/ WriteAgg \/ Flush \/ AggDies \/ AggRestart
  <2>1. UNCHANGED <<pc, idle>>
    BY <1>3, Zenon DEF OpenAgg, WriteAgg, Flush, AggDies, AggRestart, AggOnly, loop
  <2>2. age'.ws = age.ws
    <3>1. age' = age \/ age' = [age EXCEPT !.agg = 0]
      BY <1>3, Zenon DEF OpenAgg, WriteAgg, Flush, AggDies, AggRestart
    <3>2. age \in [ws : Nat, agg : Nat]
      BY Zenon DEF HealthTypes
    <3>3. QED
      BY <3>1, <3>2
  <2>3. QED
    BY <2>1, <2>2, Zenon DEF AcceptedInv
<1>4. CASE RebootAll
  BY <1>4, Zenon DEF RebootAll, Reboot, Down, time, AcceptedInv, Publishing
<1>5. CASE Check
  BY <1>5, CheckOutcome, Zenon DEF AcceptedInv
<1>6. QED
  BY <1>1, <1>2, <1>3, <1>4, <1>5, Zenon DEF HealthNext

LEMMA AcceptedStutter == AcceptedInv /\ UNCHANGED vars => AcceptedInv'
BY Zenon DEF AcceptedInv, vars, time, receiver, loop

\* A fresh heartbeat of the receiver means an accepted trade within its limit, also
\* for a process whose every trade is refused.
THEOREM AFreshHeartbeatIsTrue == HealthSpec => FreshMeansAccepted
<1>1. TypeOK /\ HealthTypes /\ HealthTypes' /\ AcceptedInv /\ [HealthNext]_vars => AcceptedInv'
  BY AcceptedKept, AcceptedStutter, Zenon
<1>2. HealthSpec => []AcceptedInv
  BY <1>1, AcceptedInit, ReceiverTypes, HealthTypeCorrect, PTL DEF HealthSpec
<1>3. HealthTypes /\ AcceptedInv => (Check /\ WsVerdict = "ok" => idle <= WsStale)
  <2> SUFFICES ASSUME HealthTypes, AcceptedInv, WsVerdict = "ok"
               PROVE  idle <= WsStale
    BY Zenon
  <2>1. ~(age.ws > WsStale)
    BY Zenon DEF WsVerdict, check_heartbeat
  <2>2. age.ws \in Nat /\ idle \in Nat /\ WsStale \in Nat /\ idle <= age.ws
    BY Fields, LimitsHold, Zenon DEF HealthTypes, Limits, AcceptedInv
  <2>3. QED
    BY <2>1, <2>2, SMT
<1>4. QED
  BY <1>2, <1>3, HealthTypeCorrect, PTL DEF HealthSpec, FreshMeansAccepted
=============================================================================
