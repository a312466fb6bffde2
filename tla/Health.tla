------------------------------- MODULE Health -------------------------------
(***************************************************************************)
(* The health check over the streaming branch: a timer runs it, it reads    *)
(* the heartbeats of the receiver and of the aggregator and the state file *)
(* its last run left, and reports.  The aggregator is reduced to its       *)
(* process, its flush cycle and its heartbeat.                             *)
(*                                                                         *)
(* Time is counted in units; an age is counted up to one unit past its     *)
(* limit.  Kills and reboots are external.  The bounds are MaxWindows and  *)
(* those of Receiver.                                                      *)
(***************************************************************************)
EXTENDS Receiver

CONSTANTS
    WsStale,        \* WS_STALE_S (2 minutes)
    AggStale,       \* AGG_STALE_S (3 minutes)
    Period,         \* OnUnitActiveSec of the timer (5 minutes)
    MaxWindows      \* bound: windows written

ASSUME TimerAssumption ==
    /\ {WsStale, AggStale, Period, MaxWindows} \subseteq Nat
    /\ WsStale < Period /\ AggStale < Period

NoCount == [count |-> NoBeat, total |-> 0, process |-> 0]

VARIABLES
    \* The aggregator.
    agg,            \* where its loop is, its count, and which process it is
    aggBeat,        \* its heartbeat file
    total,          \* history: windows ever written
    \* Time, counted up to a limit.
    age,            \* since each heartbeat was written
    elapsed,        \* since the last check
    idle,           \* history: since produce() last accepted a trade
    \* The check.
    state,          \* the aggregator's heartbeat in the state file
    last,           \* history: the last check
    before          \* history: the windows written until the check before it

aggregator == <<agg, aggBeat, total>>
time == <<age, elapsed, idle>>
check == <<state, last, before>>
vars == <<receiver, aggregator, time, check>>

HealthInit ==
    /\ Init
    /\ agg = [pc |-> "poll", count |-> 0, process |-> 1]
    /\ aggBeat = NoCount
    /\ total = 0
    /\ age = [ws |-> WsStale + 1, agg |-> AggStale + 1]
    /\ elapsed = 0
    /\ idle = 0
    /\ state = NoCount
    /\ last = [agg |-> "none", total |-> 0, saved |-> FALSE]
    /\ before = 0

-----------------------------------------------------------------------------
(* The receiver's steps, and time.                                         *)

BeatWritten == beat' \notin {beat, NoBeat}
Accepted == \E p \in Partitions : Len(queue'[p]) > Len(queue[p])

ReceiverStep ==
    /\ Step
    /\ age' = IF BeatWritten THEN [age EXCEPT !.ws = 0] ELSE age
    /\ idle' = IF Accepted THEN 0 ELSE idle
    /\ UNCHANGED <<aggregator, elapsed, check>>

\* Both loops take no time between two waits.
Waiting == pc \notin {"poll", "open", "write"} /\ agg.pc # "write"

Tick ==
    /\ Waiting
    /\ age' = [ws |-> Min({age.ws + 1, WsStale + 1}), agg |-> Min({age.agg + 1, AggStale + 1})]
    /\ idle' = Min({idle + 1, WsStale + 1})
    /\ elapsed' = Min({elapsed + 1, Period})
    /\ UNCHANGED <<receiver, aggregator, check>>

-----------------------------------------------------------------------------
(* The aggregator's flush cycle: the heartbeat, then the flush.            *)

AggOnly == UNCHANGED <<connection, producer, loop, topic, beat, elapsed, idle, check>>

\* open(HEARTBEAT_PATH, "w") empties the file.  An OSError leaves it as it is.
OpenAgg ==
    /\ agg.pc = "poll"
    /\ \/ /\ agg' = [agg EXCEPT !.pc = "write"]
          /\ aggBeat' = NoCount
          /\ UNCHANGED incidents
       \/ /\ Incident
          /\ agg' = [agg EXCEPT !.pc = "flush"]
          /\ UNCHANGED aggBeat
    /\ UNCHANGED <<total, age>> /\ AggOnly

WriteAgg ==
    /\ agg.pc = "write"
    /\ agg' = [agg EXCEPT !.pc = "flush"]
    /\ \/ /\ aggBeat' = [count |-> agg.count, total |-> total, process |-> agg.process]
          /\ age' = [age EXCEPT !.agg = 0]
          /\ UNCHANGED incidents
       \/ Incident /\ UNCHANGED <<aggBeat, age>>
    /\ UNCHANGED total /\ AggOnly

Flush ==
    /\ agg.pc = "flush"
    /\ \E n \in 0..(MaxWindows - total) :
          /\ total' = total + n
          /\ agg' = [agg EXCEPT !.pc = "poll", !.count = @ + n]
    /\ UNCHANGED <<aggBeat, age, incidents>> /\ AggOnly

\* A flush fails half-way, also the one of the finally block, or the process is
\* killed: what it had written by then is not counted.
AggDies ==
    /\ Incident
    /\ agg.pc # "down"
    /\ total' \in total..MaxWindows
    /\ agg' = [agg EXCEPT !.pc = "down"]
    /\ UNCHANGED <<aggBeat, age>> /\ AggOnly

AggRestart ==
    /\ agg.pc = "down"
    /\ agg' = [pc |-> "poll", count |-> 0, process |-> agg.process + 1]
    /\ UNCHANGED <<aggBeat, total, age, incidents>> /\ AggOnly

\* A reboot takes both heartbeats and the state file with it.
RebootAll ==
    /\ Reboot
    /\ agg' = [agg EXCEPT !.pc = "down"]
    /\ aggBeat' = NoCount
    /\ state' = NoCount
    /\ UNCHANGED <<total, time, last, before>>

-----------------------------------------------------------------------------
(* The check.                                                              *)

NoMoreThanEqual(count, previous) == count < previous            \* mutant
NotMuch(count, previous) == count <= previous + 1               \* mutant
NoProgress(count, previous) == count <= previous

\* check_heartbeat: a verdict on a count, its age and the count before.
AnyAge(count, since, stale, previous, progress) ==              \* mutant
    IF count = NoBeat THEN "unreadable"
    ELSE IF progress /\ previous # NoBeat /\ NoProgress(count, previous) THEN "stalled"
    ELSE "ok"
check_heartbeat(count, since, stale, previous, progress) ==
    IF count = NoBeat THEN "unreadable"
    ELSE IF since > stale THEN "stale"
    ELSE IF progress /\ previous # NoBeat /\ NoProgress(count, previous) THEN "stalled"
    ELSE "ok"

WsVerdict == check_heartbeat(beat, age.ws, WsStale, NoBeat, FALSE)
AggVerdict == check_heartbeat(aggBeat.count, age.agg, AggStale, state.count, TRUE)

\* evaluate() and write_state().  An OSError leaves the state file as it is, or
\* empty.
Check ==
    /\ elapsed = Period
    /\ elapsed' = 0
    /\ before' = last.total
    /\ \E saved \in BOOLEAN :
          /\ last' = [agg |-> AggVerdict, total |-> total, saved |-> saved]
          /\ IF saved THEN state' = aggBeat /\ UNCHANGED incidents
                      ELSE state' \in {state, NoCount} /\ Incident
    /\ UNCHANGED <<connection, producer, loop, topic, beat, aggregator, age, idle>>

HealthNext ==
    \/ ReceiverStep \/ Tick
    \/ OpenAgg \/ WriteAgg \/ Flush \/ AggDies \/ AggRestart
    \/ RebootAll
    \/ Check

HealthSpec == HealthInit /\ [][HealthNext]_vars

-----------------------------------------------------------------------------
(* Properties.                                                             *)

\* A passing check is true: windows were written between the two heartbeats of
\* the aggregator it compared, whatever was restarted in between.
OkMeansWindows ==
    [][Check /\ AggVerdict = "ok" /\ state.count # NoBeat => aggBeat.total > state.total]_vars

\* "alive but stalled" is true of one process: it wrote no window between the two
\* heartbeats.
StalledMeansNone ==
    [][Check /\ AggVerdict = "stalled" /\ aggBeat.process = state.process =>
           aggBeat.total = state.total]_vars

\* A stalled aggregator does not pass two checks in a row: if nothing was written
\* since the check before the last, and the last passed and saved its state, this
\* one reports it.
StallReported ==
    [][Check /\ AggVerdict = "ok" /\ last.agg = "ok" /\ last.saved /\ state.count # NoBeat =>
           total > before]_vars

\* A fresh heartbeat of the receiver is not that of a process that reconnects for
\* ever: a trade was accepted for publication within its limit.
FreshMeansAccepted ==
    [][Check /\ WsVerdict = "ok" => idle <= WsStale]_vars
=============================================================================
